CONSTANTS
    Subs = {s1, s2}
    Items <- ItemLists
    Hooks = {h1, h2}
    Checkouts = {c1, c2}
    Drills = {drill}
    Charges = {charge}
    Grace = 2
    MaxTime = 2
    MaxEvents = 3
    MaxFaults = 1
SYMMETRY Symmetry
SPECIFICATION Spec
INVARIANTS OnceOnly NewestShown
PROPERTIES DemotedWithReason ImplementsLedger
CHECK_DEADLOCK FALSE
