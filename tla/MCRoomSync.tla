----------------------------- MODULE MCRoomSync -----------------------------
(***************************************************************************)
(* Instances for TLC.  Devices are strings in sorted order; pages a1 and a2 *)
(* are open on device a, b1 on device b.                                   *)
(***************************************************************************)
EXTENDS RoomSync, TLC

CONSTANTS a1, a2, b1

MCRank == [d \in Devices |-> CASE d = "a" -> 1 [] d = "b" -> 2 [] OTHER -> 3]

MCDeviceOf == [p \in Pages |-> IF p = b1 THEN "b" ELSE "a"]

\* Only where no room is being created, so that Creation plays no part.
PageSymmetry == Permutations(Ops) \cup Permutations({a1, a2})
=============================================================================
