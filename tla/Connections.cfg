SPECIFICATION Spec
CONSTANTS
    u1 = u1
    u2 = u2
    c1 = c1
    c2 = c2
    c3 = c3
    m1 = m1
    m2 = m2
    m3 = m3
    p1 = p1
    p2 = p2
    Users = {u1, u2}
    Msgs = {m1, m2, m3}
    Conns = {c1, c2, c3}
    Senders = {p1, p2}
    NoConn = NoConn
    UserOf <- MCUserOf
    To <- MCTo
INVARIANTS TypeOK OwnMessagesOnly OwnMessagesInFlight NoCopies
PROPERTY KeepsMessages
CHECK_DEADLOCK FALSE
