SPECIFICATION Spec
CONSTANTS
    Specs = 1
    c1 = c1
    c2 = c2
    f1 = f1
    f2 = f2
    f3 = f3
    f4 = f4
    f5 = f5
    f6 = f6
    Conn = {c1, c2}
    Fd = {f1, f2, f3, f4, f5, f6}
    NoFd = NoFd
    None = None
    Senders = {c1}
    Answering = {c2}
    MaxSent = 1
    MaxAnswers = 1
VIEW View
INVARIANTS
    TypeOK
    CloseReachesAll
    AnswersStayHome
    BridgesLeaveNothing
CHECK_DEADLOCK FALSE
