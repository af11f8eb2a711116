SPECIFICATION PartsSpec
CONSTANTS
  A = A
  S = S
  c1 = c1
  c2 = c2
  p = p
  s = s
  f1 = f1
  f2 = f2
  u = u
  a = a
  b = b
  c = c
  nowhere = nowhere
  Term <- MCTerm
  Compiled <- MCCompiled
  Phrase = {p}
  Named = {p}
  Admitted <- MCTerm
  Role <- MCRole
  Family <- MCFamily
  Rank <- MCRank
  Window = 1
  Card <- MCCard
  Mentions <- MCMentions
  WeakBelow = 2
  FullPool = 3
  StrongPool = 1
  StrongStop = 1
  Source = {"cts", "liepin"}
  Offers <- MCOffers
  Person <- MCPerson
  Standing <- MCStanding
  Place <- MCPlace
  TopK = 3
  Resume <- MCResume
  Proposals <- MCProposals
  MinRounds = 1
  MaxRounds = 6
  FeedbackOn = TRUE
  Candidate = {1, 2, 3, 4, 5, 6, 7, 8, 9, 10, 11, 12, 13, 14}
  City = {a, b, c}
  Nowhere = nowhere
  Holding <- MCHolding
  Plans <- MCPlans
  LaneChoices <- MCLaneChoices
  KnownChoices <- MCKnown
  Targets = {5, 10}
  MaxRound = 2
  MaxAttempts = 3
  MaxPages = 3
  NoProgressLimit = 2
  Fit <- MCFit
  MustScore <- MCMustScore
  OffIntent <- MCOffIntent
  NoiseFit = 10
  NoiseMust = 30
  DriftDrop = 15
  DriftOff = 2
INVARIANTS
  RoundsAreSound
  StopIsEarned
  StoresTellTheRun
  PoolIsFair
  ReturnsAreAccounted
PROPERTIES
  EveryRunEnds
  RoundSearchKept
