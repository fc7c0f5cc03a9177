SPECIFICATION Spec
CONSTANTS
    p1 = p1
    p2 = p2
    Permits = {p1, p2}
    Invites = {i1}
    Malformed = {bad}
    SeatsOf <- MCSeatsOf
    Slots = {s1, s2}
    MaxActs = 7
    Rooms = {room1, room2}
    MaxAttempts = 2
    MaxClicks = 1
    MaxApplied = 1
    MaxJumps = 1
    MaxFaults = 1
    FrameFaults = 2
    None = None
SYMMETRY Alike
INVARIANTS TypeOK EntryMatches FrameShowsRoom
CHECK_DEADLOCK FALSE
