CONSTANTS
    Questions = {q1, q2}
    Phones = {p1}
    Sessions = {s1}
    None = None
SPECIFICATION FairSpec
PROPERTY SilenceDenies
