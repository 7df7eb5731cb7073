CONSTANTS
    r1 = r1
    r2 = r2
    r3 = r3
    A = A
    B = B
    e1 = e1
    e2 = e2
    e3 = e3
    k1 = k1
    k2 = k2
    k3 = k3
    se1 = se1
    se2 = se2
    sk1 = sk1
    sk2 = sk2
    None = None
    Records = {r1, r2, r3}
    Allocatable = {r1, r2, r3}
    Contents = {A, B}
    Locators <- MCLocators
    ReviewEvents = {e1, e2, e3}
    ReviewKeys = {k1, k2, k3}
    SyncEvents = {se1, se2}
    SyncKeys = {sk1, sk2}
    DeclaredMissing = {}
    Corrections <- MCCorrections
    Queries <- MCQueries
    Tokens <- MCTokens
    Budgets = {3}
SPECIFICATION Spec
SYMMETRY Interchangeable
INVARIANTS
    TypeOK
    ReviewLifecycle
    SupersessionGrounded
    NativeLineageEndsApproved
    DecidedRevisionsAreKept
    RecallAccountsForMemory
    BudgetGoesByRank
PROPERTIES
    ImplementsAuthority
CHECK_DEADLOCK FALSE
