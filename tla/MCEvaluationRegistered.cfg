CONSTANTS
    x = x
    y = y
    a = a
    b = b
    b2 = b2
    job = job
    q1 = q1
    q3 = q3
    q4 = q4
    t1 = t1
    t2 = t2
    Actor = {x, y}
    Job = job
    Sent <- MCSent
    Arrivals <- MCArrivals
    Person <- MCPerson
    Fits <- MCFits
    TermsOf <- MCTermsOf
    Refused <- MCRefused
    Verdicts <- MCVerdicts
    RoleChoices <- MCRoles
    Faulty = {}
    MaxFaults = 1
SPECIFICATION Spec
CHECK_DEADLOCK FALSE
INVARIANT
    EvaluationIsRegistered
