--------------------------- MODULE MCLiepinCalls ---------------------------
(* Three requests, two calls and two candidates, asked for in opposite orders, over *)
(* each of the three backends.                                                    *)
EXTENDS LiepinCalls, TLC

CONSTANTS own, a1, a2, k1, k2, r1, r2, r3, c1, c2

MCAccount == {own, a1, a2}
MCRequest == {r1, r2, r3}
MCCall == {c1, c2}
MCCandidate == {k1, k2}
MCOrder == {<<k1, k2>>, <<k2, k1>>}

\* Requests are alike, and so are calls, candidates and the accounts of an agent.
Symmetry == Permutations(MCRequest) \cup Permutations(MCCall) \cup Permutations(MCCandidate)
            \cup Permutations({a1, a2})
=============================================================================
