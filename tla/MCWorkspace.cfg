CONSTANTS
    i1 = i1
    j1 = j1
    j2 = j2
    k1 = k1
    k2 = k2
    k3 = k3
    s1 = s1
    m1 = m1
    None = None
    Imports = {a1, a2}
    ImportRequests <- MCImportRequests
    Sources = {s1}
    Contents = {x, y}
    Targets = {m1}
    Deciders = {d1, d2}
    DecisionRequests <- MCDecisionRequests
    Reads = {g1}
    MaxInFlight = 2
    MayCrash = TRUE
SPECIFICATION Spec
SYMMETRY Interchangeable
INVARIANTS
    RecoveryTypeOK
    ImportAnswersAreDurable
    AssociationsAreGrounded
    DecisionsAreFinal
    
    GrantsStaySpent
    
CHECK_DEADLOCK FALSE
