--------------------------- MODULE MCRoomAdmission ---------------------------
(***************************************************************************)
(* Instance for TLC: two permits (one expires while a request may wait),   *)
(* two rooms of two and three seats, two invites, three client devices.    *)
(***************************************************************************)
EXTENDS RoomAdmission, TLC

CONSTANTS p1, p2, i1, i2, a, b, k

MCClaims == (p1 :> [max |-> 2, iat |-> 1, exp |-> 2]) @@ (p2 :> [max |-> 3, iat |-> 1, exp |-> 4])

Redeem(i, s, d, key) ==
  [invite |-> i, secret |-> s, device |-> d, identity |-> d, credential |-> d, key |-> key]

\* Two devices on either invite, one guess of another invite's secret, and a
\* device that presents the idempotency key of another one.
MCRequests == {Redeem(i1, i1, a, a), Redeem(i2, i2, a, a), Redeem(i2, i2, b, b),
               Redeem(i1, i1, b, k), Redeem(i1, i2, b, b), Redeem(i2, i2, b, a)}

Symmetry == Permutations(Rooms) \cup Permutations(MemberIds)
=============================================================================
