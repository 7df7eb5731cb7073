CONSTANTS
    None = None
    Records = {r1}
    Allocatable = {r1}
    Contents = {A}
    Locators <- MCLocators
    ReviewEvents = {e1}
    ReviewKeys = {k1}
    SyncEvents = {se1, se2, se3}
    SyncKeys = {sk1, sk2, sk3}
    DeclaredMissing = {}
    Corrections = {}
SPECIFICATION Spec
INVARIANT ExplanationAgreesWithRetrieval
CHECK_DEADLOCK FALSE
