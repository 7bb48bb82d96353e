CONSTANTS
    Endpoints = {e1, e2, e3}
    Members = {m1, m2}
    Owner = m1
    Emitters = {p1, p2}
    Requests = {q1, q2}
    Limit = 1
    MaxRows = 2
    MaxAttempts = 2
    MaxEvents = 2
    MaxEdits = 3
    MaxFaults = 1
SYMMETRY Symmetry
SPECIFICATION MCSpec
INVARIANTS FanOutSafe DeliverySafe
PROPERTIES DeliveredIsFinal
CHECK_DEADLOCK FALSE
