CONSTANTS
    c1 = c1
    d1 = d1
    d2 = d2
    d3 = d3
    q1 = q1
    i1 = i1
    i2 = i2
    k = k
    kd = kd
    long = long
    m1 = m1
    P = P
    P2 = P2
    f = f
    n = n
    u = u
    None = None
    Runs = {q1}
    ClientKeys <- MCClientKeys
    KeyLength <- MCKeyLength
    Chats = {c1}
    Decides = {d1, d2}
    ChatInputs <- MCChatInputs
    Memories = {x}
    Answers = {a1}
    Tools = {f, n, u}
    NoExtension = {n}
    UnknownScope = {u}
    FailureKinds = {"timeout"}
    DecideInputs <- OneDecision
    Stamp <- MCStamp
    MayCrash = FALSE
    MayRevoke = FALSE
    Overlap = FALSE
SPECIFICATION Spec
PROPERTIES
    RunsComeToRest
CHECK_DEADLOCK FALSE
