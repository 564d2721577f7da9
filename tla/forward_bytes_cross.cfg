SPECIFICATION Spec
CONSTANTS
    Specs = 1
    c1 = c1
    c2 = c2
    f1 = f1
    f2 = f2
    f3 = f3
    f4 = f4
    Conn = {c1, c2}
    Fd = {f1, f2, f3, f4}
    NoFd = NoFd
    None = None
    Senders = {c1, c2}
    Answering = {c1, c2}
    MaxSent = 1
    MaxAnswers = 0
SYMMETRY Symmetry
INVARIANTS
    BytesStayHome
CHECK_DEADLOCK FALSE
