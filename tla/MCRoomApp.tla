------------------------------ MODULE MCRoomApp ------------------------------
EXTENDS RoomApp, TLC
CONSTANTS p1, p2
MCSeatsOf == p1 :> 2 @@ p2 :> 3
Alike == Permutations(Slots) \cup Permutations(Rooms)
=============================================================================
