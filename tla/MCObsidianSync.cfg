CONSTANTS
    r1 = r1
    r2 = r2
    r3 = r3
    r4 = r4
    r5 = r5
    A = A
    B = B
    se1 = se1
    se2 = se2
    se3 = se3
    sk1 = sk1
    sk2 = sk2
    sk3 = sk3
    None = None
    Records = {r1, r2, r3, r4, r5}
    Allocatable = {r1, r2, r3, r4, r5}
    Contents = {A, B}
    Locators <- MCLocators
    ReviewEvents = {}
    ReviewKeys = {}
    SyncEvents = {se1, se2, se3}
    SyncKeys = {sk1, sk2, sk3}
    DeclaredMissing = {B}
    Corrections = {}
SPECIFICATION Spec
SYMMETRY Interchangeable
INVARIANTS
    BindingsMirrorRecords
    SourceStatusTracksLastSync
    SyncMatchesNoteLoop
PROPERTIES
    IdentityFollowsSource
CHECK_DEADLOCK FALSE
