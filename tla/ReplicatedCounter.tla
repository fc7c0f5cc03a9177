-------------------------- MODULE ReplicatedCounter --------------------------
(***************************************************************************)
(* What a room promises its participants: a counter whose increments are   *)
(* never invented, never forgotten by a device that has counted them, and  *)
(* counted once each, whatever is delivered twice or out of order.         *)
(***************************************************************************)
EXTENDS Naturals, FiniteSets

CONSTANTS
  Devices,  \* devices that may take part
  Ops       \* increments

VARIABLES
  created,  \* the increments made so far
  seen,     \* seen[d]: the increments device d has counted
  shown     \* shown[d]: the value of the counter on device d

vars == <<created, seen, shown>>

Init ==
  /\ created = {}
  /\ seen = [d \in Devices |-> {}]
  /\ shown = [d \in Devices |-> 0]

\* Device d counts the increments S beside those it has counted already.
Count(d, S) ==
  /\ seen' = [seen EXCEPT ![d] = @ \cup S]
  /\ shown' = [shown EXCEPT ![d] = Cardinality(seen[d] \cup S)]

\* A device counts its own increment at once.
Increment(d, op) ==
  /\ op \notin created
  /\ created' = created \cup {op}
  /\ Count(d, {op})

\* A device learns of increments of others, one or several at a time.
Learn(d, S) ==
  /\ Count(d, S)
  /\ UNCHANGED created

Next == \E d \in Devices :
  \/ \E op \in Ops : Increment(d, op)
  \/ \E S \in SUBSET created : Learn(d, S)

Spec == Init /\ [][Next]_vars
=============================================================================
