CONSTANTS
    c1 = c1
    c2 = c2
    c3 = c3
    q1 = q1
    q2 = q2
    k = k
    other = other
    m1 = m1
    m2 = m2
    P = P
    None = None
    Runs = {q1, q2}
    ClientKeys <- MCClientKeys
    KeyLength <- MCKeyLength
    Chats = {c1, c2}
    Decides = {}
    ChatInputs <- OneInput
    Memories = {x}
    Answers = {a1, a2}
    Tools = {f}
    FailureKinds = {"timeout"}
    Stamp <- OneTick
    MayCrash = FALSE
    MayRevoke = FALSE
SPECIFICATION ChatSpec
INVARIANTS
    DispatchedOnce
CHECK_DEADLOCK FALSE
