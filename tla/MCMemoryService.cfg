CONSTANTS
    r1 = r1
    r2 = r2
    n1 = n1
    n2 = n2
    A = A
    B = B
    s1 = s1
    s2 = s2
    g1 = g1
    g2 = g2
    q1 = q1
    q2 = q2
    se1 = se1
    se2 = se2
    sk1 = sk1
    sk2 = sk2
    None = None
    Records = {r1, r2, n1, n2}
    Allocatable = {r1, r2}
    Contents = {A, B}
    Locators <- MCLocators
    ReviewEvents = {e1}
    ReviewKeys = {k1}
    SyncEvents = {se1, se2}
    SyncKeys = {sk1, sk2}
    DeclaredMissing = {}
    Corrections <- MCCorrections
    Reviewers = {v1}
    Scanners = {s1, s2}
    Agents = {g1, g2}
    Drafts <- MCDrafts
    IdentityOf <- MCIdentityOf
    FirstVaults <- MCFirstVaults
    MaxEdits = 1
SPECIFICATION ServiceSpec
SYMMETRY Interchangeable
INVARIANTS
    ServiceTypeOK
    AnsweredCandidatesStand
    CorrectionsReachTheirTarget
    
CHECK_DEADLOCK FALSE
