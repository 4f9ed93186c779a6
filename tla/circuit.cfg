SPECIFICATION FairSpec
CONSTANTS
    Slots = {s1, s2}
    Alive = {s1}
    Calls = {c1, c2}
    REVIEW = REVIEW
    NONE = NONE
INVARIANTS TypeOK
PROPERTIES  HealedByNewSuccess OutageEnds
