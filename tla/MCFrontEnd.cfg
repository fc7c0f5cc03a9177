SPECIFICATION Spec
CONSTANTS
    Sources = {1, 2}
    MaxRank = 1
    Slots = {r1, r2, r3}
    MaxActs = 2
    MaxFaults = 1
    None = None
    Texts = {t1, t2}
    Empty = Empty
    Ranges = {g1, g2}
    CardSlots = {c1, c2}
    CardActs = 4
    Ideas = {old, new}
    NewIdea = new
    Entries = {e1, e2}
    Broken = {bad}
SYMMETRY Alike
INVARIANTS TypeOK ListsMatch CardsMatch SavedMeansStored ControlsComeBack
CHECK_DEADLOCK FALSE
