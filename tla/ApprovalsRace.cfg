CONSTANTS
    Questions = {q1, q2}
    Phones = {p1, p2}
    Sessions = {s1, s2}
    None = None
SYMMETRY Symmetry
SPECIFICATION Spec
INVARIANTS ChannelsAgree ConsentNeeded LosersStop HeldSomewhere
