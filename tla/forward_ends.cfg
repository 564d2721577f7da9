SPECIFICATION Spec
CONSTANTS
    Specs = 2
    Conn = {c1}
    Fd = {f1, f2, f3}
    c1 = c1
    f1 = f1
    f2 = f2
    f3 = f3
    NoFd = NoFd
    None = None
    Senders = {c1}
    Answering = {c1}
    MaxSent = 1
    MaxAnswers = 1
PROPERTIES
    BridgesEnd
CHECK_DEADLOCK FALSE
