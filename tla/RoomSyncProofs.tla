--------------------------- MODULE RoomSyncProofs ---------------------------
(***************************************************************************)
(* The safety properties of RoomSync, proved for any number of devices,    *)
(* pages, increments and interruptions, any page size and any quota.       *)
(***************************************************************************)
EXTENDS RoomSync, FiniteSetTheorems, TLAPS

-----------------------------------------------------------------------------
(* Cursors: what TopOf and Page return.                                    *)

\* A finite non-empty set of numbers has a greatest element.
LEMMA GreatestExists ==
  ASSUME NEW S \in SUBSET Nat, IsFiniteSet(S), S # {}
  PROVE  \E x \in S : \A y \in S : x >= y
<1> DEFINE Above(x) == {y \in S : y > x}
           T == {Above(x) : x \in S}
<1>1. T \subseteq FiniteSubsetsOf(S) /\ T # {}
  <2>1. ASSUME NEW x \in S PROVE Above(x) \in SUBSET S /\ IsFiniteSet(Above(x))
    <3>1. Above(x) \in SUBSET S
      OBVIOUS
    <3> QED
      BY <3>1, FS_Subset
  <2> HIDE DEF Above
  <2> QED
    BY <2>1 DEF FiniteSubsetsOf
<1>2. PICK U \in T : \A V \in T : <<V, U>> \notin StrictSubsetOrdering(S)
  BY <1>1, FS_StrictSubsetOrderingWellFounded, WFMin
<1>3. PICK x \in S : U = Above(x)
  OBVIOUS
<1>4. ASSUME NEW y \in S, y > x PROVE FALSE
  <2>1. Above(y) \subseteq U /\ y \in U /\ y \notin Above(y)
    <3>1. Above(y) \subseteq Above(x)
      <4> SUFFICES ASSUME NEW z \in S, z > y PROVE z > x
        OBVIOUS
      <4>1. x \in Nat /\ y \in Nat /\ z \in Nat
        OBVIOUS
      <4> QED
        BY <1>4, <4>1
    <3>2. y \in Above(x) /\ y \notin Above(y)
      BY <1>4
    <3> HIDE DEF Above
    <3> QED
      BY <1>3, <3>1, <3>2
  <2> HIDE DEF Above, T
  <2>2. <<Above(y), U>> \in StrictSubsetOrdering(S)
    <3>1. Above(y) \in SUBSET S /\ U \in SUBSET S /\ Above(y) # U
      BY <1>3, <2>1 DEF Above
    <3> QED
      BY <2>1, <3>1 DEF StrictSubsetOrdering
  <2> QED
    BY <1>2, <2>2 DEF T
<1> QED
  BY <1>4

\* The cursor after a page is the one before it or the greatest id on the page.
LEMMA TopOfBounds ==
  ASSUME NEW page \in SUBSET Messages, IsFiniteSet(page), NEW after \in Nat
  PROVE  /\ TopOf(page, after) \in {after} \cup {m.id : m \in page}
         /\ TopOf(page, after) \in Nat
         /\ after <= TopOf(page, after)
         /\ \A m \in page : m.id <= TopOf(page, after)
<1> DEFINE ids == {m.id : m \in page}
           S == {after} \cup ids
<1>1. S \subseteq Nat
  BY DEF Messages
<1>2. IsFiniteSet(S)
  <2>1. [m \in page |-> m.id] \in Surjection(page, ids)
    BY DEF Surjection
  <2>2. IsFiniteSet(ids)
    BY <2>1, FS_Surjection
  <2> QED
    BY <2>2, FS_AddElement
<1>3. \E x \in S : \A y \in S : x >= y
  BY <1>1, <1>2, GreatestExists
<1>4. Max(S) \in S /\ \A y \in S : Max(S) >= y
  BY <1>3 DEF Max
<1> QED
  BY <1>1, <1>4 DEF TopOf

\* Everything in the mailbox up to the cursor after a page is on the page or
\* was covered by the cursor before it: a short page leaves no gap.
LEMMA PageHasNoGap ==
  ASSUME NEW d \in Devices, mailbox[d] \in SUBSET Messages, IsFiniteSet(mailbox[d]),
         NEW after \in Nat
  PROVE  /\ Page(d, after) \in SUBSET mailbox[d]
         /\ IsFiniteSet(Page(d, after))
         /\ \A m \in mailbox[d] :
              m.id <= TopOf(Page(d, after), after) =>
                m.id <= after \/ m \in Page(d, after)
<1> DEFINE new == {m \in mailbox[d] : m.id > after}
           Before(m) == {n \in new : n.id < m.id}
<1>1. Page(d, after) = {m \in new : Cardinality(Before(m)) < PageSize}
  BY DEF Page
<1>2. Page(d, after) \in SUBSET mailbox[d] /\ IsFiniteSet(Page(d, after))
  BY <1>1, FS_Subset
<1>3. ASSUME NEW m \in mailbox[d], m.id <= TopOf(Page(d, after), after), m.id > after
      PROVE  m \in Page(d, after)
  <2>1. PICK n \in Page(d, after) : n.id = TopOf(Page(d, after), after)
    BY <1>2, <1>3, TopOfBounds DEF Messages
  <2>2. Before(m) \subseteq Before(n)
    <3>1. m.id <= n.id /\ m.id \in Nat /\ n.id \in Nat
      BY <1>2, <1>3, <2>1 DEF Messages
    <3>2. \A k \in new : k.id \in Nat
      BY DEF Messages
    <3> QED
      BY <3>1, <3>2
  <2>3. IsFiniteSet(Before(n))
    BY FS_Subset
  <2>4. /\ Cardinality(Before(m)) \in Nat
        /\ Cardinality(Before(n)) \in Nat
        /\ Cardinality(Before(m)) <= Cardinality(Before(n))
    BY <2>2, <2>3, FS_Subset, FS_CardinalityType
  <2>5. Cardinality(Before(n)) < PageSize
    BY <1>1, <2>1
  <2>6. Cardinality(Before(m)) < PageSize
    BY <2>4, <2>5, LimitsAssumption
  <2>7. m \in new
    BY <1>3
  <2> HIDE DEF Before, new
  <2> QED
    BY <1>1, <2>6, <2>7
<1> QED
  BY <1>2, <1>3 DEF Messages

-----------------------------------------------------------------------------
(* Records and their fields.                                               *)

\* Counting an operation adds it, and leaves the outbox and the cursor alone.
LEMMA AppliedVault ==
  ASSUME NEW v \in Vaults, NEW op \in Ops
  PROVE  /\ Applied(v, op) \in Vaults
         /\ Applied(v, op) # None
         /\ Applied(v, op).applied = v.applied \cup {op}
         /\ Applied(v, op).outbox = v.outbox
         /\ Applied(v, op).cursor = v.cursor
<1>1. CASE op \in v.applied
  BY <1>1, NoneAssumption DEF Applied, Vaults
<1>2. CASE op \notin v.applied
  <2>1. Applied(v, op) = [v EXCEPT !.applied = v.applied \cup {op}, !.value = v.value + 1]
    BY <1>2 DEF Applied
  <2>2. Applied(v, op) \in Vaults
    <3>1. v.applied \cup {op} \in SUBSET Ops /\ v.value + 1 \in Nat
      BY DEF Vaults
    <3> QED
      BY <2>1, <3>1 DEF Vaults
  <2>3. Applied(v, op) # None
    BY <2>2, NoneAssumption
  <2> QED
    BY <2>1, <2>2, <2>3 DEF Vaults
<1> QED
  BY <1>1, <1>2

\* Queueing an operation leaves the rest of the vault alone.
LEMMA EnqueuedVault ==
  ASSUME NEW v \in Vaults, NEW op \in Ops
  PROVE  /\ Enqueued(v, op) \in Vaults
         /\ Enqueued(v, op) # None
         /\ Enqueued(v, op).applied = v.applied
         /\ Enqueued(v, op).value = v.value
         /\ Enqueued(v, op).outbox = v.outbox \cup {op}
         /\ Enqueued(v, op).cursor = v.cursor
<1>1. v.outbox \cup {op} \in SUBSET Items
  BY DEF Vaults, Items
<1>2. Enqueued(v, op) \in Vaults
  BY <1>1 DEF Enqueued, Vaults
<1>3. Enqueued(v, op) # None
  BY <1>2, NoneAssumption
<1> QED
  BY <1>2, <1>3 DEF Enqueued, Vaults

\* A new room has the replica it was given, an outbox and a cursor of 0.
LEMMA NewVaultVault ==
  ASSUME NEW r \in Replicas, NEW out \in SUBSET Items
  PROVE  /\ NewVault(r, out) \in Vaults
         /\ NewVault(r, out) # None
         /\ NewVault(r, out).applied = r.applied
         /\ NewVault(r, out).value = r.value
         /\ NewVault(r, out).outbox = out
         /\ NewVault(r, out).cursor = 0
BY NoneAssumption DEF NewVault, Vaults, Replicas

\* What a vault uploads is its replica, without outbox and cursor.
LEMMA ReplicaReplica ==
  ASSUME NEW v \in Vaults
  PROVE  /\ Replica(v) \in Replicas
         /\ Replica(v) # None
         /\ Replica(v).applied = v.applied
         /\ Replica(v).value = v.value
BY NoneAssumption DEF Replica, Vaults, Replicas

\* The records a sync starts and ends with are syncs.
LEMMA IdleSync == Idle \in Syncs /\ CreateRoomUpload \in Syncs
BY DEF Idle, CreateRoomUpload, Syncs, Stages, Items

\* The replica a room is created with is one.
LEMMA EmptyReplicaReplica == EmptyReplica \in Replicas /\ EmptyReplica # None
BY NoneAssumption DEF EmptyReplica, Replicas

-----------------------------------------------------------------------------
(* Types.  A device that synchronises has a room, a mailbox is finite, and  *)
(* what is about to be uploaded or stored is there.                        *)

Typed ==
  /\ TypeOK
  /\ \A d \in Devices : IsFiniteSet(mailbox[d])
  /\ \A p \in Pages : sync[p].stage # "idle" => vault[DeviceOf[p]] # None
  /\ \A p \in Pages : sync[p].stage = "put" => sync[p].upload # None
  /\ \A d \in Devices : joining[d].stage = "store" => joining[d].read # None

\* createRoom and the founders leave well-typed state.
LEMMA TypedInit == Init => Typed
<1> SUFFICES ASSUME Init PROVE Typed
  OBVIOUS
<1>1. vault \in [Devices -> Vaults \cup {None}]
  <2>1. /\ NewVault(EmptyReplica, {}) \in Vaults
        /\ NewVault(EmptyReplica, {Bootstrap}) \in Vaults
    BY EmptyReplicaReplica, NewVaultVault DEF Items
  <2> QED
    BY <2>1 DEF Init
<1>2. sync \in [Pages -> Syncs]
  BY IdleSync DEF Init
<1>3. \A d \in Devices : IsFiniteSet(mailbox[d])
  BY FS_EmptySet DEF Init
<1>4. ASSUME NEW p \in Pages, sync[p].stage # "idle"
      PROVE  vault[DeviceOf[p]] # None /\ sync[p].stage # "put"
  <2>1. p = Creation /\ sync[p] = CreateRoomUpload /\ DeviceOf[p] \in Founders
    BY <1>4, DevicesAssumption DEF Init, Idle
  <2>2. vault[DeviceOf[p]] # None
    <3>1. /\ NewVault(EmptyReplica, {}) # None
          /\ NewVault(EmptyReplica, {Bootstrap}) # None
      BY EmptyReplicaReplica, NewVaultVault DEF Items
    <3> QED
      BY <2>1, <3>1, DevicesAssumption DEF Init
  <2> QED
    BY <2>1, <2>2 DEF CreateRoomUpload, Idle
<1>5. joining \in [Devices -> Joins] /\ \A d \in Devices : joining[d].stage = "no"
  BY DEF Init, Joins, NotJoining
<1>6. TypeOK
  <2>1. checkpoint \in Replicas \cup {None}
    BY EmptyReplicaReplica DEF Init
  <2>2. mailbox \in [Devices -> SUBSET Messages] /\ lastId \in [Devices -> Nat]
    BY DEF Init
  <2>3. /\ created \subseteq Ops /\ members \subseteq Devices
        /\ wire \subseteq Devices \X Ops /\ failures \in 0..MaxFailures
    BY DevicesAssumption, LimitsAssumption DEF Init
  <2> QED
    BY <1>1, <1>2, <1>5, <2>1, <2>2, <2>3 DEF TypeOK
<1> QED
  BY <1>3, <1>4, <1>5, <1>6 DEF Typed

\* Every request, vault update and await of the client keeps it well typed.
LEMMA TypedNext == Typed /\ [Next]_vars => Typed'
<1> SUFFICES ASSUME Typed, [Next]_vars PROVE Typed'
  OBVIOUS
<1> USE DevicesAssumption, LimitsAssumption DEF Typed, TypeOK, server
<1>1. ASSUME NEW d \in Devices, NEW op \in Ops, Increment(d, op) PROVE Typed'
  <2>1. vault[d] \in Vaults /\ Applied(vault[d], op) \in Vaults
    BY <1>1, AppliedVault DEF Increment
  <2> QED
    BY <1>1, <2>1, EnqueuedVault DEF Increment
<1>2. ASSUME NEW d \in Devices, NEW op \in Ops, DeliverPeer(d, op) PROVE Typed'
  BY <1>2, AppliedVault DEF DeliverPeer
<1>3. ASSUME NEW d \in Devices, NEW op \in Ops, LosePeer(d, op) PROVE Typed'
  BY <1>3 DEF LosePeer
<1>4. ASSUME NEW p \in Pages, SyncStart(p) PROVE Typed'
  <2>1. vault[DeviceOf[p]] \in Vaults
    BY <1>4 DEF SyncStart
  <2>2. sync' \in [Pages -> Syncs]
    BY <1>4, <2>1, IdleSync DEF SyncStart, Syncs, Stages, Vaults
  <2>3. /\ sync'[p].stage = "devices" /\ vault[DeviceOf[p]] # None
        /\ \A q \in Pages \ {p} : sync'[q] = sync[q]
    BY <1>4, IdleSync DEF SyncStart, Syncs
  <2> QED
    BY <1>4, <2>2, <2>3 DEF SyncStart
<1>5. ASSUME NEW p \in Pages, SyncDevices(p) PROVE Typed'
  <2>1. sync[p] \in Syncs /\ sync[p].processed \ {Bootstrap} \in SUBSET Ops
    BY <1>5 DEF Syncs, Items
  <2>2. [sync[p] EXCEPT !.stage = "post",
           !.todo = (members \ {DeviceOf[p]}) \X (sync[p].processed \ {Bootstrap})] \in Syncs
    BY <2>1 DEF Syncs, Stages
  <2>3. /\ sync' \in [Pages -> Syncs]
        /\ sync'[p].stage = "post" /\ sync[p].stage = "devices"
        /\ \A q \in Pages \ {p} : sync'[q] = sync[q]
    BY <1>5, <2>2 DEF SyncDevices, Syncs
  <2>4. wire' \subseteq Devices \X Ops
    BY <1>5, <2>1 DEF SyncDevices, FirstOf
  <2> QED
    BY <1>5, <2>3, <2>4 DEF SyncDevices
<1>6. ASSUME NEW p \in Pages, NEW to \in Devices, NEW op \in Ops, PostOperation(p, to, op)
      PROVE  Typed'
  <2> DEFINE m == [id |-> lastId[to] + 1, op |-> op]
  <2>1. m \in Messages /\ lastId[to] + 1 \in Nat
    BY DEF Messages
  <2>2. mailbox' \in [Devices -> SUBSET Messages] /\ lastId' \in [Devices -> Nat]
    BY <1>6, <2>1 DEF PostOperation
  <2>3. ASSUME NEW e \in Devices PROVE IsFiniteSet(mailbox'[e])
    <3>1. mailbox'[e] = mailbox[e] \/ mailbox'[e] = mailbox[e] \cup {m}
      BY <1>6 DEF PostOperation
    <3> HIDE DEF m
    <3>2. IsFiniteSet(mailbox[e]) /\ IsFiniteSet(mailbox[e] \cup {m})
      BY FS_AddElement
    <3> QED
      BY <3>1, <3>2
  <2>4. [sync[p] EXCEPT !.todo = @ \ {<<to, op>>}] \in Syncs
    BY DEF Syncs
  <2>5. /\ sync' \in [Pages -> Syncs]
        /\ sync'[p].stage = "post" /\ sync[p].stage = "post"
        /\ \A q \in Pages \ {p} : sync'[q] = sync[q]
    BY <1>6, <2>4 DEF PostOperation, Syncs
  <2> QED
    BY <1>6, <2>2, <2>3, <2>5 DEF PostOperation
<1>7. ASSUME NEW p \in Pages, sync' = [sync EXCEPT ![p] = Idle], failures' \in 0..MaxFailures,
             UNCHANGED <<created, vault, joining, server, wire>>
      PROVE  Typed'
  BY <1>7, IdleSync DEF Idle
<1>8. ASSUME NEW p \in Pages, FetchOperations(p) PROVE Typed'
  <2> DEFINE d == DeviceOf[p]
             page == Page(d, sync[p].after)
             top == TopOf(page, sync[p].after)
  <2>1. sync[p] \in Syncs /\ sync[p].after \in Nat /\ d \in Devices
    BY DEF Syncs
  <2>2. page \in SUBSET Messages /\ IsFiniteSet(page)
    BY <2>1, PageHasNoGap
  <2>3. top \in Nat
    BY <2>1, <2>2, TopOfBounds
  <2> HIDE DEF page, top
  <2>4. [sync[p] EXCEPT !.stage = "apply", !.inbox = page, !.top = top] \in Syncs
    BY <2>1, <2>2, <2>3 DEF Syncs, Stages
  <2>5. /\ sync' \in [Pages -> Syncs]
        /\ sync'[p].stage \in {"apply", "idle"} /\ sync[p].stage = "post"
        /\ \A q \in Pages \ {p} : sync'[q] = sync[q]
    BY <1>8, <2>1, <2>4, IdleSync DEF FetchOperations, Syncs, page, top, Idle
  <2> QED
    BY <1>8, <2>5 DEF FetchOperations
<1>9. ASSUME NEW p \in Pages, NEW m \in sync[p].inbox, ApplyOperation(p, m) PROVE Typed'
  <2>1. sync[p] \in Syncs /\ m.op \in Ops /\ vault[DeviceOf[p]] \in Vaults
    BY <1>9 DEF Syncs, Messages, ApplyOperation
  <2>2. [sync[p] EXCEPT !.inbox = @ \ {m}] \in Syncs
    BY <2>1 DEF Syncs
  <2>3. /\ sync' \in [Pages -> Syncs]
        /\ sync'[p].stage = "apply" /\ sync[p].stage = "apply"
        /\ \A q \in Pages \ {p} : sync'[q] = sync[q]
    BY <1>9, <2>2 DEF ApplyOperation, Syncs
  <2>4. /\ vault' \in [Devices -> Vaults \cup {None}]
        /\ \A e \in Devices : vault[e] # None => vault'[e] # None
    BY <1>9, <2>1, AppliedVault DEF ApplyOperation
  <2> QED
    BY <1>9, <2>3, <2>4 DEF ApplyOperation
<1>10. ASSUME NEW p \in Pages, EncryptCheckpoint(p) PROVE Typed'
  <2>1. sync[p] \in Syncs /\ vault[DeviceOf[p]] \in Vaults
    BY <1>10 DEF EncryptCheckpoint
  <2>2. [sync[p] EXCEPT !.stage = "put", !.upload = Replica(vault[DeviceOf[p]])] \in Syncs
    BY <2>1, ReplicaReplica DEF Syncs, Stages
  <2>3. /\ sync' \in [Pages -> Syncs]
        /\ sync'[p].upload # None /\ sync[p].stage = "apply"
        /\ \A q \in Pages \ {p} : sync'[q] = sync[q]
    BY <1>10, <2>1, <2>2, ReplicaReplica DEF EncryptCheckpoint, Syncs
  <2> QED
    BY <1>10, <2>3 DEF EncryptCheckpoint
<1>11. ASSUME NEW p \in Pages, PutCheckpoint(p) PROVE Typed'
  <2>1. [sync[p] EXCEPT !.stage = "forget", !.upload = None] \in Syncs
    <3>1. sync[p] \in Syncs
      OBVIOUS
    <3> QED
      BY <3>1 DEF Syncs, Stages
  <2>2. /\ sync' \in [Pages -> Syncs]
        /\ sync'[p].stage = "forget" /\ sync[p].stage = "put"
        /\ \A q \in Pages \ {p} : sync'[q] = sync[q]
    BY <1>11, <2>1 DEF PutCheckpoint, Syncs
  <2>3. checkpoint' \in Replicas
    BY <1>11 DEF PutCheckpoint, Syncs
  <2> QED
    BY <1>11, <2>2, <2>3 DEF PutCheckpoint
<1>12. ASSUME NEW p \in Pages, NEW item \in sync[p].processed, ForgetItem(p, item) PROVE Typed'
  <2>1. sync[p] \in Syncs /\ vault[DeviceOf[p]] \in Vaults
    BY <1>12 DEF ForgetItem
  <2>2. [sync[p] EXCEPT !.processed = @ \ {item}] \in Syncs
    BY <2>1 DEF Syncs
  <2>3. [vault[DeviceOf[p]] EXCEPT !.outbox = Without(@, item)] \in Vaults \ {None}
    BY <2>1, NoneAssumption DEF Vaults, Without
  <2>4. /\ sync' \in [Pages -> Syncs]
        /\ sync'[p].stage = "forget" /\ sync[p].stage = "forget"
        /\ \A q \in Pages \ {p} : sync'[q] = sync[q]
    BY <1>12, <2>2 DEF ForgetItem, Syncs
  <2>5. /\ vault' \in [Devices -> Vaults \cup {None}]
        /\ \A e \in Devices : vault[e] # None => vault'[e] # None
    BY <1>12, <2>3 DEF ForgetItem
  <2> QED
    BY <1>12, <2>4, <2>5 DEF ForgetItem
<1>13. ASSUME NEW p \in Pages, SaveCursor(p) PROVE Typed'
  <2>1. sync[p] \in Syncs /\ vault[DeviceOf[p]] \in Vaults
    BY <1>13 DEF SaveCursor
  <2>2. [vault[DeviceOf[p]] EXCEPT !.cursor = sync[p].top] \in Vaults \ {None}
    BY <2>1, NoneAssumption DEF Vaults, Syncs
  <2>3. /\ vault' \in [Devices -> Vaults \cup {None}]
        /\ \A e \in Devices : vault[e] # None => vault'[e] # None
    BY <1>13, <2>2 DEF SaveCursor
  <2> QED
    BY <1>13, <2>3, IdleSync DEF SaveCursor, Idle
<1>14. ASSUME NEW d \in Joiners, Redeem(d) PROVE Typed'
  BY <1>14 DEF Redeem, Joins
<1>15. ASSUME NEW d \in Joiners, ReadCheckpoint(d) PROVE Typed'
  BY <1>15 DEF ReadCheckpoint, Joins, NotJoining
<1>16. ASSUME NEW d \in Joiners, StoreRoom(d) PROVE Typed'
  <2>1. joining[d].read \in Replicas
    BY <1>16 DEF StoreRoom, Joins
  <2>2. NewVault(joining[d].read, {}) \in Vaults \ {None}
    BY <2>1, NewVaultVault
  <2>3. joining' \in [Devices -> Joins] /\ \A e \in Devices :
          joining'[e].stage = "store" => joining'[e].read # None
    BY <1>16 DEF StoreRoom, Joins, NotJoining
  <2> QED
    BY <1>16, <2>2, <2>3 DEF StoreRoom
<1>17. ASSUME NEW d \in Joiners, AbandonJoin(d) PROVE Typed'
  BY <1>17 DEF AbandonJoin, Joins, NotJoining
<1>18. CASE UNCHANGED vars
  BY <1>18 DEF vars
<1>19. ASSUME NEW p \in Pages, NEW to \in Devices, NEW op \in Ops, PostRefused(p, to, op)
       PROVE  Typed'
  BY <1>7, <1>19 DEF PostRefused
<1>20. ASSUME NEW p \in Pages, Interrupt(p) PROVE Typed'
  <2>1. failures' \in 0..MaxFailures
    BY <1>20 DEF Interrupt
  <2> HIDE DEF Typed, TypeOK
  <2> QED
    BY <1>7, <1>20, <2>1 DEF Interrupt
<1> HIDE DEF Typed, TypeOK
<1> QED
  BY <1>1, <1>2, <1>3, <1>4, <1>5, <1>6, <1>8, <1>9, <1>10, <1>11, <1>12, <1>13,
     <1>14, <1>15, <1>16, <1>17, <1>18, <1>19, <1>20
     DEF Next, SyncStep, JoinStep

\* Every reachable state is well typed, and no sync runs without a stored room.
THEOREM TypedInvariant == Spec => []Typed
BY TypedInit, TypedNext, PTL DEF Spec

\* Every reachable state is well typed, whatever the constants.
COROLLARY TypeCorrect == Spec => []TypeOK
BY TypedInvariant, PTL DEF Typed

-----------------------------------------------------------------------------
(* Growth.  When no device redeems its invitation a second time, a joining  *)
(* device has no room yet, and so no step takes an operation out of a       *)
(* replica; the mailboxes only gain entries above all they had.            *)

JoiningHaveNoRoom == \A d \in Devices : joining[d].stage # "no" => vault[d] = None

MailboxGrows(d) ==
  /\ lastId[d] <= lastId'[d]
  /\ mailbox[d] \subseteq mailbox'[d]
  /\ \A m \in mailbox'[d] : m \in mailbox[d] \/ (m.id > lastId[d] /\ m.id <= lastId'[d])

ReplicaGrows(d) ==
  vault[d] # None => vault'[d] # None /\ vault[d].applied \subseteq vault'[d].applied

\* No step of a client or of the service takes an operation from a replica or an
\* entry from a mailbox, and postOperation gives new entries greater identifiers.
LEMMA Growth ==
  ASSUME Rejoin = FALSE, Typed, JoiningHaveNoRoom, [Next]_vars
  PROVE  /\ \A d \in Devices : MailboxGrows(d)
         /\ \A d \in Devices : ReplicaGrows(d)
         /\ JoiningHaveNoRoom'
<1> USE DevicesAssumption DEF Typed, TypeOK, MailboxGrows, ReplicaGrows, JoiningHaveNoRoom, server
<1> DEFINE Goal == /\ \A d \in Devices : MailboxGrows(d)
                   /\ \A d \in Devices : ReplicaGrows(d)
                   /\ JoiningHaveNoRoom'
<1>1. ASSUME UNCHANGED <<mailbox, lastId, joining, vault>> PROVE Goal
  BY <1>1
<1>2. ASSUME NEW d \in Devices, NEW v \in Vaults, vault[d] \in Vaults,
             vault[d].applied \subseteq v.applied,
             vault' = [vault EXCEPT ![d] = v],
             UNCHANGED <<mailbox, lastId, joining>>
      PROVE  Goal
  BY <1>2, NoneAssumption
<1>3. ASSUME NEW d \in Devices, NEW op \in Ops, Increment(d, op) PROVE Goal
  <2>1. vault[d] \in Vaults
    BY <1>3 DEF Increment
  <2>2. /\ Enqueued(Applied(vault[d], op), op) \in Vaults
        /\ vault[d].applied \subseteq Enqueued(Applied(vault[d], op), op).applied
    BY <2>1, AppliedVault, EnqueuedVault
  <2> QED
    BY <1>2, <1>3, <2>1, <2>2 DEF Increment
<1>4. ASSUME NEW d \in Devices, NEW op \in Ops, DeliverPeer(d, op) PROVE Goal
  <2>1. vault[d] \in Vaults
    BY <1>4 DEF DeliverPeer
  <2>2. Applied(vault[d], op) \in Vaults /\ vault[d].applied \subseteq Applied(vault[d], op).applied
    BY <2>1, AppliedVault
  <2> QED
    BY <1>2, <1>4, <2>1, <2>2 DEF DeliverPeer
<1>5. ASSUME NEW p \in Pages, NEW to \in Devices, NEW op \in Ops, PostOperation(p, to, op)
      PROVE  Goal
  <2>1. ASSUME NEW d \in Devices PROVE MailboxGrows(d)
    BY <1>5 DEF PostOperation
  <2> QED
    BY <1>5, <2>1 DEF PostOperation
<1>6. ASSUME NEW p \in Pages, NEW m \in sync[p].inbox, ApplyOperation(p, m) PROVE Goal
  <2>1. vault[DeviceOf[p]] \in Vaults /\ m.op \in Ops
    BY <1>6 DEF ApplyOperation, Syncs, Messages
  <2>2. /\ Applied(vault[DeviceOf[p]], m.op) \in Vaults
        /\ vault[DeviceOf[p]].applied \subseteq Applied(vault[DeviceOf[p]], m.op).applied
    BY <2>1, AppliedVault
  <2> QED
    BY <1>2, <1>6, <2>1, <2>2 DEF ApplyOperation
<1>7. ASSUME NEW p \in Pages, NEW item \in sync[p].processed, ForgetItem(p, item) PROVE Goal
  <2>1. vault[DeviceOf[p]] \in Vaults
    BY <1>7 DEF ForgetItem
  <2>2. /\ [vault[DeviceOf[p]] EXCEPT !.outbox = Without(@, item)] \in Vaults
        /\ [vault[DeviceOf[p]] EXCEPT !.outbox = Without(@, item)].applied
             = vault[DeviceOf[p]].applied
    BY <2>1 DEF Vaults, Without
  <2> QED
    BY <1>2, <1>7, <2>1, <2>2 DEF ForgetItem
<1>8. ASSUME NEW p \in Pages, SaveCursor(p) PROVE Goal
  <2>1. vault[DeviceOf[p]] \in Vaults /\ sync[p].top \in Nat
    BY <1>8 DEF SaveCursor, Syncs
  <2>2. /\ [vault[DeviceOf[p]] EXCEPT !.cursor = sync[p].top] \in Vaults
        /\ [vault[DeviceOf[p]] EXCEPT !.cursor = sync[p].top].applied
             = vault[DeviceOf[p]].applied
    BY <2>1 DEF Vaults
  <2> QED
    BY <1>1, <1>2, <1>8, <2>1, <2>2 DEF SaveCursor
<1>9. ASSUME NEW d \in Joiners, JoinStep(d) PROVE Goal
  <2>1. \A e \in Devices : MailboxGrows(e)
    BY <1>9 DEF JoinStep, Redeem, ReadCheckpoint, StoreRoom, AbandonJoin
  <2>2. CASE Redeem(d)
    BY <1>9, <2>1, <2>2 DEF Redeem, Joins
  <2>3. CASE ReadCheckpoint(d)
    BY <1>9, <2>1, <2>3 DEF ReadCheckpoint, NotJoining
  <2>4. CASE StoreRoom(d)
    <3>1. vault[d] = None
      BY <2>4 DEF StoreRoom
    <3> QED
      BY <1>9, <2>1, <2>4, <3>1 DEF StoreRoom, NotJoining
  <2>5. CASE AbandonJoin(d)
    BY <1>9, <2>1, <2>5 DEF AbandonJoin, NotJoining
  <2> QED
    BY <1>9, <2>2, <2>3, <2>4, <2>5 DEF JoinStep
<1>10. ASSUME UNCHANGED vars PROVE Goal
  BY <1>1, <1>10 DEF vars
<1> HIDE DEF Goal
<1>11. ASSUME NEW p \in Pages, SyncStep(p) PROVE Goal
  BY <1>1, <1>5, <1>6, <1>7, <1>8, <1>11
     DEF SyncStep, SyncStart, SyncDevices, PostRefused, FetchOperations, EncryptCheckpoint,
         PutCheckpoint
<1>12. ASSUME NEW p \in Pages, Interrupt(p) PROVE Goal
  BY <1>1, <1>12 DEF Interrupt
<1>13. ASSUME NEW d \in Devices, NEW op \in Ops, LosePeer(d, op) PROVE Goal
  BY <1>1, <1>13 DEF LosePeer
<1> HIDE DEF Typed, TypeOK, MailboxGrows, ReplicaGrows, JoiningHaveNoRoom
<1>14. Goal
  BY <1>3, <1>4, <1>9, <1>10, <1>11, <1>12, <1>13 DEF Next
<1> QED
  BY <1>14 DEF Goal

-----------------------------------------------------------------------------
(* Cursors.  A number c reaches no further than a device has read when      *)
(* every entry up to c is applied or among those still to be applied.      *)

Reaches(box, last, applied, c, rest) ==
  /\ c <= last
  /\ \A m \in box : m.id <= c => m.op \in applied \/ m \in rest

\* New entries have greater identifiers, and replicas only grow.
LEMMA ReachesStable ==
  ASSUME NEW d \in Devices, Typed, Typed', MailboxGrows(d), ReplicaGrows(d),
         vault[d] # None, NEW c \in Nat, NEW rest,
         Reaches(mailbox[d], lastId[d], vault[d].applied, c, rest)
  PROVE  Reaches(mailbox'[d], lastId'[d], vault'[d].applied, c, rest)
<1>1. \A m \in mailbox'[d] : m.id \in Nat
  BY DEF Typed, TypeOK, Messages
<1>2. lastId[d] \in Nat /\ lastId'[d] \in Nat
  BY DEF Typed, TypeOK
<1>3. c <= lastId'[d]
  BY <1>2 DEF Reaches, MailboxGrows
<1>4. ASSUME NEW m \in mailbox'[d], m.id <= c
      PROVE  m.op \in vault'[d].applied \/ m \in rest
  <2>1. m \in mailbox[d]
    BY <1>1, <1>2, <1>4 DEF Reaches, MailboxGrows
  <2> QED
    BY <1>4, <2>1 DEF Reaches, ReplicaGrows
<1> QED
  BY <1>3, <1>4 DEF Reaches

\* What is known of a sync: everything up to the cursor it started from was
\* applied, and everything up to the one it will save is applied or in its inbox.
SyncReaches(p) ==
  LET d == DeviceOf[p]
      applied == vault[d].applied
  IN
  sync[p].stage # "idle" =>
    /\ Reaches(mailbox[d], lastId[d], applied, sync[p].after, {})
    /\ sync[p].stage \in {"apply", "put", "forget"} =>
         Reaches(mailbox[d], lastId[d], applied, sync[p].top, sync[p].inbox)
    /\ sync[p].stage \in {"put", "forget"} => sync[p].inbox = {}

VaultReaches(d) ==
  vault[d] # None => Reaches(mailbox[d], lastId[d], vault[d].applied, vault[d].cursor, {})

AllReach ==
  /\ \A d \in Devices : VaultReaches(d)
  /\ \A p \in Pages : SyncReaches(p)

CursorInv ==
  /\ JoiningHaveNoRoom
  /\ \A d \in Devices : \A m \in mailbox[d] : m.id <= lastId[d]
  /\ AllReach

\* In a new room every cursor is 0, below every identifier.
LEMMA CursorInit == Init => CursorInv
<1> SUFFICES ASSUME Init PROVE CursorInv
  OBVIOUS
<1>1. \A d \in Devices : mailbox[d] = {} /\ lastId[d] = 0
  BY DEF Init
<1>2. ASSUME NEW d \in Devices PROVE VaultReaches(d)
  <2>1. vault[d] # None => vault[d].cursor = 0
    BY DEF Init, NewVault
  <2> QED
    BY <1>1, <2>1 DEF VaultReaches, Reaches
<1>3. ASSUME NEW p \in Pages PROVE SyncReaches(p)
  <2>1. sync[p] \in {Idle, CreateRoomUpload} /\ DeviceOf[p] \in Devices
    BY DevicesAssumption DEF Init
  <2>2. sync[p].after = 0 /\ sync[p].top = 0 /\ sync[p].inbox = {}
    <3>1. Idle.after = 0 /\ Idle.top = 0 /\ Idle.inbox = {}
      BY DEF Idle
    <3>2. /\ CreateRoomUpload.after = 0 /\ CreateRoomUpload.top = 0
          /\ CreateRoomUpload.inbox = {}
      BY DEF Idle, CreateRoomUpload
    <3> QED
      BY <2>1, <3>1, <3>2
  <2> QED
    BY <1>1, <2>1, <2>2 DEF SyncReaches, Reaches
<1> QED
  BY <1>1, <1>2, <1>3 DEF CursorInv, AllReach, JoiningHaveNoRoom, Init, NotJoining

\* A sync keeps what is known of it while it keeps its cursors and its inbox.
LEMMA SyncReachesStable ==
  ASSUME NEW p \in Pages, Typed, Typed', SyncReaches(p),
         sync'[p].stage # "idle" => sync[p].stage # "idle" /\ sync'[p].after = sync[p].after,
         sync'[p].stage \in {"apply", "put", "forget"} =>
           /\ sync[p].stage \in {"apply", "put", "forget"}
           /\ sync'[p].top = sync[p].top
           /\ sync'[p].inbox = sync[p].inbox,
         sync'[p].stage \in {"put", "forget"} => sync'[p].inbox = {},
         MailboxGrows(DeviceOf[p]), ReplicaGrows(DeviceOf[p])
  PROVE  SyncReaches(p)'
<1> DEFINE d == DeviceOf[p]
<1>1. d \in Devices /\ sync[p].after \in Nat /\ sync[p].top \in Nat
  BY DevicesAssumption DEF Typed, TypeOK, Syncs
<1>2. CASE sync'[p].stage = "idle"
  BY <1>2 DEF SyncReaches
<1>3. CASE sync'[p].stage # "idle"
  <2>1. vault[d] # None
    BY <1>3 DEF Typed
  <2>2. Reaches(mailbox'[d], lastId'[d], vault'[d].applied, sync[p].after, {})
    BY <1>1, <1>3, <2>1, ReachesStable DEF SyncReaches
  <2>3. sync[p].stage \in {"apply", "put", "forget"} =>
          Reaches(mailbox'[d], lastId'[d], vault'[d].applied, sync[p].top, sync[p].inbox)
    BY <1>1, <1>3, <2>1, ReachesStable DEF SyncReaches
  <2> QED
    BY <1>3, <2>2, <2>3 DEF SyncReaches
<1> QED
  BY <1>2, <1>3

\* A room that keeps its cursor keeps what is known of it.
LEMMA VaultReachesStable ==
  ASSUME NEW d \in Devices, Typed, Typed', VaultReaches(d),
         vault[d] # None, vault'[d].cursor = vault[d].cursor,
         MailboxGrows(d), ReplicaGrows(d)
  PROVE  VaultReaches(d)'
<1>1. vault[d].cursor \in Nat
  BY DEF Typed, TypeOK, Vaults
<1>2. Reaches(mailbox'[d], lastId'[d], vault'[d].applied, vault[d].cursor, {})
  BY <1>1, ReachesStable DEF VaultReaches
<1> QED
  BY <1>2 DEF VaultReaches

\* Posting, fetching, applying and saving the cursor keep every cursor covered.
LEMMA CursorNext ==
  ASSUME Rejoin = FALSE, Typed, CursorInv, [Next]_vars
  PROVE  CursorInv'
<1>1. /\ Typed'
      /\ JoiningHaveNoRoom'
      /\ \A d \in Devices : MailboxGrows(d) /\ ReplicaGrows(d)
  BY TypedNext, Growth DEF CursorInv
<1>2. \A d \in Devices : \A m \in mailbox'[d] : m.id <= lastId'[d]
  <2> SUFFICES ASSUME NEW d \in Devices, NEW m \in mailbox'[d] PROVE m.id <= lastId'[d]
    OBVIOUS
  <2>1. lastId[d] \in Nat /\ lastId'[d] \in Nat /\ m.id \in Nat
    BY <1>1 DEF Typed, TypeOK, Messages
  <2> QED
    BY <1>1, <2>1 DEF MailboxGrows, CursorInv
<1>3. \A p \in Pages : DeviceOf[p] \in Devices
  BY DevicesAssumption
<1> USE DEF AllReach
<1>4. ASSUME NEW d \in Devices, vault'[d] = vault[d] \/ vault'[d].cursor = vault[d].cursor,
             vault'[d] # None => vault[d] # None
      PROVE  VaultReaches(d)'
  BY <1>1, <1>4, VaultReachesStable DEF CursorInv, VaultReaches
<1>5. ASSUME NEW p \in Pages, sync'[p] \in {sync[p], Idle} PROVE SyncReaches(p)'
  <2>1. CASE sync'[p] = Idle
    BY <2>1 DEF SyncReaches, Idle
  <2>2. CASE sync'[p] = sync[p]
    BY <1>1, <1>3, <2>2, SyncReachesStable DEF CursorInv, SyncReaches
  <2> QED
    BY <1>5, <2>1, <2>2
<1>6. ASSUME UNCHANGED <<vault, sync>> PROVE AllReach'
  BY <1>4, <1>5, <1>6
<1>7. ASSUME NEW d \in Devices, NEW op \in Ops, Increment(d, op) \/ DeliverPeer(d, op)
      PROVE  AllReach'
  <2>1. vault[d] \in Vaults
    BY <1>7 DEF Increment, DeliverPeer, Typed, TypeOK
  <2>2. /\ Applied(vault[d], op).cursor = vault[d].cursor
        /\ Enqueued(Applied(vault[d], op), op).cursor = vault[d].cursor
    BY <2>1, AppliedVault, EnqueuedVault
  <2>3. /\ vault'[d].cursor = vault[d].cursor /\ vault[d] # None
        /\ \A e \in Devices \ {d} : vault'[e] = vault[e]
        /\ sync' = sync
    BY <1>7, <2>2 DEF Increment, DeliverPeer, Typed, TypeOK
  <2> QED
    BY <1>4, <1>5, <2>3
<1>8. ASSUME NEW p \in Pages, NEW s, sync' = [sync EXCEPT ![p] = s],
             SyncReaches(p)', vault' = vault
      PROVE  AllReach'
  <2>1. \A q \in Pages \ {p} : sync'[q] = sync[q]
    BY <1>8 DEF Typed, TypeOK
  <2> QED
    BY <1>4, <1>5, <1>8, <2>1
<1>9. ASSUME NEW p \in Pages, SyncStart(p) PROVE AllReach'
  <2> DEFINE d == DeviceOf[p]
  <2>1. /\ vault[d] # None /\ UNCHANGED <<vault, mailbox, lastId>>
        /\ sync'[p].stage = "devices" /\ sync'[p].after = vault[d].cursor
    BY <1>9 DEF SyncStart, Idle, server, Typed, TypeOK
  <2>2. SyncReaches(p)'
    BY <1>3, <2>1 DEF SyncReaches, CursorInv, VaultReaches
  <2> QED
    BY <1>8, <1>9, <2>2 DEF SyncStart
<1>10. ASSUME NEW p \in Pages, SyncDevices(p) PROVE AllReach'
  <2>1. /\ sync[p].stage = "devices" /\ sync'[p].stage = "post"
        /\ sync'[p].after = sync[p].after
    BY <1>10 DEF SyncDevices, Typed, TypeOK, Syncs
  <2>2. SyncReaches(p)'
    BY <1>1, <1>3, <2>1, SyncReachesStable DEF CursorInv
  <2> QED
    BY <1>8, <1>10, <2>2 DEF SyncDevices
<1>11. ASSUME NEW p \in Pages, NEW to \in Devices, NEW op \in Ops, PostOperation(p, to, op)
       PROVE  AllReach'
  <2>1. /\ sync[p].stage = "post" /\ sync'[p].stage = "post"
        /\ sync'[p].after = sync[p].after
    BY <1>11 DEF PostOperation, Typed, TypeOK, Syncs
  <2>2. SyncReaches(p)'
    BY <1>1, <1>3, <2>1, SyncReachesStable DEF CursorInv
  <2> QED
    BY <1>8, <1>11, <2>2 DEF PostOperation
<1>12. ASSUME NEW p \in Pages, FetchOperations(p) PROVE AllReach'
  <2> DEFINE d == DeviceOf[p]
             after == sync[p].after
             page == Page(d, after)
             top == TopOf(page, after)
  <2>1. /\ d \in Devices /\ after \in Nat /\ mailbox[d] \in SUBSET Messages
        /\ IsFiniteSet(mailbox[d]) /\ lastId[d] \in Nat
    BY <1>3 DEF Typed, TypeOK, Syncs
  <2>2. /\ page \in SUBSET mailbox[d] /\ IsFiniteSet(page)
        /\ \A m \in mailbox[d] : m.id <= top => m.id <= after \/ m \in page
    BY <2>1, PageHasNoGap
  <2>3. top \in {after} \cup {m.id : m \in page}
    BY <2>1, <2>2, TopOfBounds
  <2>4. Reaches(mailbox[d], lastId[d], vault[d].applied, after, {})
    BY <1>12 DEF FetchOperations, CursorInv, SyncReaches
  <2>5. Reaches(mailbox[d], lastId[d], vault[d].applied, top, page)
    <3>1. top <= lastId[d]
      BY <2>1, <2>2, <2>3, <2>4 DEF Reaches, CursorInv
    <3> HIDE DEF top, page
    <3> QED
      BY <2>2, <2>4, <3>1 DEF Reaches
  <2>6. CASE sync'[p] = Idle
    BY <1>5, <1>8, <1>12, <2>6 DEF FetchOperations
  <2>7. CASE sync' = [sync EXCEPT ![p] = [@ EXCEPT !.stage = "apply", !.inbox = page, !.top = top]]
    <3>1. /\ sync'[p].stage = "apply" /\ sync'[p].inbox = page /\ sync'[p].top = top
          /\ sync'[p].after = after
          /\ UNCHANGED <<vault, mailbox, lastId>>
      <4> HIDE DEF top, page
      <4>1. sync \in [Pages -> Syncs]
        BY DEF Typed, TypeOK
      <4>2. UNCHANGED <<vault, mailbox, lastId>>
        BY <1>12 DEF FetchOperations, server
      <4> QED
        BY <2>7, <4>1, <4>2 DEF Syncs
    <3>2. SyncReaches(p)'
      <4> HIDE DEF top, page
      <4> QED
        BY <2>4, <2>5, <3>1 DEF SyncReaches
    <3> QED
      BY <1>8, <2>7, <3>1, <3>2
  <2> QED
    BY <1>12, <2>6, <2>7 DEF FetchOperations, Typed, TypeOK
<1>13. ASSUME NEW p \in Pages, NEW m \in sync[p].inbox, ApplyOperation(p, m)
       PROVE  AllReach'
  <2> DEFINE d == DeviceOf[p]
  <2>1. /\ sync[p].stage = "apply" /\ sync[p] \in Syncs /\ d \in Devices
        /\ vault[d] \in Vaults /\ vault[d] # None /\ m.op \in Ops
    BY <1>3, <1>13 DEF ApplyOperation, Typed, TypeOK, Syncs, Messages
  <2>2. /\ vault'[d].cursor = vault[d].cursor
        /\ vault'[d].applied = vault[d].applied \cup {m.op}
        /\ \A e \in Devices \ {d} : vault'[e] = vault[e]
    BY <1>13, <2>1, AppliedVault DEF ApplyOperation, Typed, TypeOK
  <2>3. /\ sync'[p].stage = "apply" /\ sync'[p].after = sync[p].after
        /\ sync'[p].top = sync[p].top /\ sync'[p].inbox = sync[p].inbox \ {m}
        /\ \A q \in Pages \ {p} : sync'[q] = sync[q]
    BY <1>13 DEF ApplyOperation, Typed, TypeOK, Syncs
  <2>4. /\ Reaches(mailbox'[d], lastId'[d], vault'[d].applied, sync[p].after, {})
        /\ Reaches(mailbox'[d], lastId'[d], vault'[d].applied, sync[p].top, sync[p].inbox)
    <3>1. sync[p].after \in Nat /\ sync[p].top \in Nat
      BY <2>1 DEF Syncs
    <3> QED
      BY <1>1, <2>1, <3>1, ReachesStable DEF CursorInv, SyncReaches
  <2>5. Reaches(mailbox'[d], lastId'[d], vault'[d].applied, sync[p].top, sync'[p].inbox)
    BY <2>2, <2>3, <2>4 DEF Reaches
  <2>6. SyncReaches(p)'
    BY <2>3, <2>4, <2>5 DEF SyncReaches
  <2> QED
    BY <1>4, <1>5, <2>1, <2>2, <2>3, <2>6
<1>14. ASSUME NEW p \in Pages, EncryptCheckpoint(p) PROVE AllReach'
  <2>1. /\ sync[p].stage = "apply" /\ sync'[p].stage = "put"
        /\ sync'[p].after = sync[p].after /\ sync'[p].top = sync[p].top
        /\ sync'[p].inbox = sync[p].inbox /\ sync[p].inbox = {}
    BY <1>14 DEF EncryptCheckpoint, Typed, TypeOK, Syncs
  <2>2. SyncReaches(p)'
    BY <1>1, <1>3, <2>1, SyncReachesStable DEF CursorInv
  <2> QED
    BY <1>8, <1>14, <2>2 DEF EncryptCheckpoint
<1>15. ASSUME NEW p \in Pages, PutCheckpoint(p) PROVE AllReach'
  <2>1. /\ sync[p].stage = "put" /\ sync'[p].stage = "forget"
        /\ sync'[p].after = sync[p].after /\ sync'[p].top = sync[p].top
        /\ sync'[p].inbox = sync[p].inbox /\ sync[p].inbox = {}
    BY <1>15 DEF PutCheckpoint, Typed, TypeOK, Syncs, CursorInv, SyncReaches
  <2>2. SyncReaches(p)'
    BY <1>1, <1>3, <2>1, SyncReachesStable DEF CursorInv
  <2> QED
    BY <1>8, <1>15, <2>2 DEF PutCheckpoint
<1>16. ASSUME NEW p \in Pages, NEW item \in sync[p].processed, ForgetItem(p, item)
       PROVE  AllReach'
  <2>1. /\ sync[p].stage = "forget" /\ sync'[p].stage = "forget"
        /\ sync'[p].after = sync[p].after /\ sync'[p].top = sync[p].top
        /\ sync'[p].inbox = sync[p].inbox /\ sync[p].inbox = {}
        /\ \A q \in Pages \ {p} : sync'[q] = sync[q]
    BY <1>16 DEF ForgetItem, Typed, TypeOK, Syncs, CursorInv, SyncReaches
  <2>2. SyncReaches(p)'
    BY <1>1, <1>3, <2>1, SyncReachesStable DEF CursorInv
  <2>3. vault[DeviceOf[p]] \in Vaults /\ vault[DeviceOf[p]] # None
    BY <1>3, <2>1 DEF Typed, TypeOK
  <2>4. /\ vault'[DeviceOf[p]].cursor = vault[DeviceOf[p]].cursor
        /\ \A e \in Devices \ {DeviceOf[p]} : vault'[e] = vault[e]
    BY <1>3, <1>16, <2>3 DEF ForgetItem, Typed, TypeOK, Vaults
  <2> QED
    BY <1>4, <1>5, <2>1, <2>2, <2>3, <2>4
<1>17. ASSUME NEW p \in Pages, SaveCursor(p) PROVE AllReach'
  <2> DEFINE d == DeviceOf[p]
  <2>1. /\ sync[p].stage = "forget" /\ d \in Devices /\ vault[d] \in Vaults /\ vault[d] # None
        /\ UNCHANGED <<mailbox, lastId>>
    BY <1>3, <1>17 DEF SaveCursor, Typed, TypeOK, server
  <2>2. Reaches(mailbox[d], lastId[d], vault[d].applied, sync[p].top, {})
    BY <2>1 DEF CursorInv, SyncReaches
  <2>3. /\ \A e \in Devices \ {d} : vault'[e] = vault[e]
        /\ vault'[d] = vault[d] \/ /\ vault'[d].cursor = sync[p].top
                                   /\ vault'[d].applied = vault[d].applied
    BY <1>17, <2>1 DEF SaveCursor, Typed, TypeOK, Vaults
  <2>4. VaultReaches(d)'
    BY <1>4, <2>1, <2>2, <2>3 DEF VaultReaches
  <2>5. \A q \in Pages : sync'[q] \in {sync[q], Idle}
    BY <1>17 DEF SaveCursor, Typed, TypeOK
  <2> QED
    BY <1>4, <1>5, <2>3, <2>4, <2>5
<1>18. ASSUME NEW p \in Pages, NEW to \in Devices, NEW op \in Ops,
              PostRefused(p, to, op)
       PROVE  AllReach'
  <2>1. sync' = [sync EXCEPT ![p] = Idle] /\ vault' = vault
    BY <1>18 DEF PostRefused
  <2> QED
    BY <1>5, <1>8, <2>1 DEF Typed, TypeOK
<1>19. ASSUME NEW d \in Joiners, StoreRoom(d) PROVE AllReach'
  <2>1. /\ d \in Devices /\ joining[d].read \in Replicas
        /\ UNCHANGED <<sync, mailbox, lastId>>
        /\ vault' = [vault EXCEPT ![d] = NewVault(joining[d].read, {})]
    BY <1>19, DevicesAssumption DEF StoreRoom, Typed, TypeOK, Joins, server
  <2>2. vault'[d].cursor = 0 /\ \A e \in Devices \ {d} : vault'[e] = vault[e]
    BY <2>1, NewVaultVault DEF Typed, TypeOK
  <2>3. \A m \in mailbox[d] : ~(m.id <= 0)
    BY <2>1 DEF Typed, TypeOK, Messages
  <2>4. VaultReaches(d)'
    BY <2>1, <2>2, <2>3 DEF VaultReaches, Reaches, Typed, TypeOK
  <2> QED
    BY <1>4, <1>5, <2>1, <2>2, <2>4
<1>20. ASSUME NEW d \in Joiners, Redeem(d) \/ ReadCheckpoint(d) \/ AbandonJoin(d)
       PROVE  AllReach'
  BY <1>6, <1>20 DEF Redeem, ReadCheckpoint, AbandonJoin
<1>21. ASSUME NEW d \in Devices, NEW op \in Ops, LosePeer(d, op)
       PROVE  AllReach'
  BY <1>6, <1>21 DEF LosePeer
<1>22. ASSUME UNCHANGED vars PROVE AllReach'
  <2>1. UNCHANGED <<vault, sync>>
    BY <1>22 DEF vars
  <2> QED
    BY <1>6, <2>1
<1> HIDE DEF AllReach
<1>23. AllReach'
  <2>1. ASSUME NEW p \in Pages, SyncStep(p) PROVE AllReach'
    BY <1>9, <1>10, <1>11, <1>12, <1>13, <1>14, <1>15, <1>16, <1>17, <1>18, <2>1 DEF SyncStep
  <2>2. ASSUME NEW d \in Joiners, JoinStep(d) PROVE AllReach'
    BY <1>19, <1>20, <2>2 DEF JoinStep
  <2>3. ASSUME NEW p \in Pages, Interrupt(p) PROVE AllReach'
    BY <1>5, <1>8, <2>3 DEF Interrupt, Typed, TypeOK
  <2> QED
    BY <1>7, <1>21, <1>22, <2>1, <2>2, <2>3 DEF Next
<1> QED
  BY <1>1, <1>2, <1>23 DEF CursorInv

\* A saved cursor never passes over an operation that was not applied, however the
\* syncs of a device overlap and are interrupted, as long as no admitted device
\* redeems its invitation again.
THEOREM CursorsSkipNothing ==
  ASSUME Rejoin = FALSE
  PROVE  Spec => []CursorSkipsNothing
<1>1. Init => CursorInv
  BY CursorInit
<1>2. Typed /\ CursorInv /\ [Next]_vars => CursorInv'
  BY CursorNext
<1>3. CursorInv => CursorSkipsNothing
  BY DEF CursorInv, AllReach, VaultReaches, Reaches, CursorSkipsNothing
<1> QED
  BY <1>1, <1>2, <1>3, TypedInvariant, PTL DEF Spec

-----------------------------------------------------------------------------
(* Counting.  Every replica, stored, uploaded or being joined from, shows   *)
(* the number of operations it has, and wherever an operation is found it   *)
(* is one that somebody made.                                              *)

Counted(r) == r.value = Cardinality(r.applied) /\ r.applied \subseteq created

VaultCounts(d) ==
  vault[d] # None => Counted(vault[d]) /\ vault[d].outbox \ {Bootstrap} \subseteq created

SyncCounts(p) ==
  /\ sync[p].upload # None => Counted(sync[p].upload)
  /\ sync[p].processed \ {Bootstrap} \subseteq created
  /\ \A t \in sync[p].todo : t[2] \in created
  /\ \A m \in sync[p].inbox : m.op \in created

JoinCounts(d) == joining[d].read # None => Counted(joining[d].read)

CountInv ==
  /\ \A d \in Devices : VaultCounts(d)
  /\ \A p \in Pages : SyncCounts(p)
  /\ \A d \in Devices : JoinCounts(d)
  /\ checkpoint # None => Counted(checkpoint)
  /\ \A d \in Devices : \A m \in mailbox[d] : m.op \in created
  /\ \A t \in wire : t[2] \in created

\* A replica that learns of an operation counts it once.
LEMMA AppliedCounts ==
  ASSUME NEW v \in Vaults, NEW op \in Ops, v.value = Cardinality(v.applied)
  PROVE  Applied(v, op).value = Cardinality(Applied(v, op).applied)
<1>1. IsFiniteSet(v.applied)
  BY FS_Subset, DevicesAssumption DEF Vaults
<1>2. CASE op \in v.applied
  BY <1>2 DEF Applied
<1>3. CASE op \notin v.applied
  <2>1. /\ Applied(v, op).applied = v.applied \cup {op}
        /\ Applied(v, op).value = v.value + 1
    BY <1>3 DEF Applied, Vaults
  <2>2. Cardinality(v.applied \cup {op}) = Cardinality(v.applied) + 1
    BY <1>1, <1>3, FS_AddElement
  <2> QED
    BY <2>1, <2>2
<1> QED
  BY <1>2, <1>3

\* In a new room nothing is counted.
LEMMA CountInit == Init => CountInv
<1> SUFFICES ASSUME Init PROVE CountInv
  OBVIOUS
<1>1. Cardinality({}) = 0
  BY FS_EmptySet
<1>2. Counted(EmptyReplica)
  BY <1>1 DEF Counted, EmptyReplica
<1>3. ASSUME NEW d \in Devices PROVE VaultCounts(d)
  <2>1. vault[d] # None =>
          /\ vault[d].applied = {} /\ vault[d].value = 0
          /\ vault[d].outbox \in {{}, {Bootstrap}}
    BY DEF Init, NewVault, EmptyReplica
  <2> QED
    BY <1>1, <2>1 DEF VaultCounts, Counted
<1>4. ASSUME NEW p \in Pages PROVE SyncCounts(p)
  <2>1. sync[p] \in {Idle, CreateRoomUpload}
    BY DEF Init
  <2>2. /\ Idle.upload = None /\ Idle.processed = {} /\ Idle.todo = {} /\ Idle.inbox = {}
        /\ CreateRoomUpload.upload = None /\ CreateRoomUpload.processed = {Bootstrap}
        /\ CreateRoomUpload.todo = {} /\ CreateRoomUpload.inbox = {}
    BY DEF Idle, CreateRoomUpload
  <2>3. sync[p].upload = None /\ sync[p].processed \subseteq {Bootstrap}
        /\ sync[p].todo = {} /\ sync[p].inbox = {}
    BY <2>1, <2>2
  <2> QED
    BY <2>3 DEF SyncCounts
<1>5. /\ \A d \in Devices : joining[d].read = None /\ mailbox[d] = {}
      /\ checkpoint \in {None, EmptyReplica} /\ wire = {}
  BY DEF Init, NotJoining
<1> QED
  BY <1>2, <1>3, <1>4, <1>5 DEF CountInv, JoinCounts

\* However operations travel, every replica keeps showing what it has.
LEMMA CountNext ==
  ASSUME Typed, CountInv, [Next]_vars
  PROVE  CountInv'
<1>1. Typed'
  BY TypedNext
<1>2. \A p \in Pages : DeviceOf[p] \in Devices
  BY DevicesAssumption
\* What an untouched part of the state keeps.
<1>3. ASSUME created \subseteq created'
      PROVE  /\ \A d \in Devices : vault'[d] = vault[d] => VaultCounts(d)'
             /\ \A p \in Pages : sync'[p] \in {sync[p], Idle} => SyncCounts(p)'
             /\ \A d \in Devices : joining'[d] \in {joining[d], NotJoining} => JoinCounts(d)'
             /\ checkpoint' = checkpoint => (checkpoint' # None => Counted(checkpoint)')
             /\ mailbox' = mailbox => \A d \in Devices : \A m \in mailbox'[d] : m.op \in created'
             /\ wire' \subseteq wire => \A t \in wire' : t[2] \in created'
  <2>1. ASSUME NEW p \in Pages, sync'[p] = Idle PROVE SyncCounts(p)'
    BY <2>1 DEF SyncCounts, Idle
  <2>2. ASSUME NEW d \in Devices, joining'[d] = NotJoining PROVE JoinCounts(d)'
    BY <2>2 DEF JoinCounts, NotJoining
  <2>3. ASSUME NEW p \in Pages, sync'[p] = sync[p] PROVE SyncCounts(p)'
    BY <1>3, <2>3 DEF SyncCounts, CountInv, Counted
  <2>4. ASSUME NEW d \in Devices, joining'[d] = joining[d] PROVE JoinCounts(d)'
    BY <1>3, <2>4 DEF JoinCounts, CountInv, Counted
  <2>5. ASSUME NEW d \in Devices, vault'[d] = vault[d] PROVE VaultCounts(d)'
    BY <1>3, <2>5 DEF VaultCounts, CountInv, Counted
  <2> QED
    BY <1>3, <2>1, <2>2, <2>3, <2>4, <2>5 DEF CountInv, Counted
\* A step of one page that changes no vault.
<1>4. ASSUME NEW p \in Pages, NEW s, sync' = [sync EXCEPT ![p] = s], SyncCounts(p)',
             UNCHANGED <<created, vault, joining, checkpoint, mailbox, wire>>
      PROVE  CountInv'
  <2>1. \A q \in Pages : q = p \/ sync'[q] = sync[q]
    BY <1>4 DEF Typed, TypeOK
  <2> QED
    BY <1>3, <1>4, <2>1 DEF CountInv
\* A step that changes one vault, and maybe its page.
<1>5. ASSUME NEW d \in Devices, NEW v, vault' = [vault EXCEPT ![d] = v], VaultCounts(d)',
             created \subseteq created', \A p \in Pages : SyncCounts(p)',
             UNCHANGED <<joining, checkpoint, mailbox>>, wire' \subseteq wire
      PROVE  CountInv'
  <2>1. \A e \in Devices : e = d \/ vault'[e] = vault[e]
    BY <1>5 DEF Typed, TypeOK
  <2> QED
    BY <1>3, <1>5, <2>1 DEF CountInv
<1>6. ASSUME NEW d \in Devices, NEW op \in Ops, Increment(d, op) PROVE CountInv'
  <2> DEFINE v == Applied(vault[d], op)
             w == Enqueued(v, op)
  <2>1. vault[d] \in Vaults /\ VaultCounts(d) /\ vault[d] # None
    BY <1>6 DEF Increment, Typed, TypeOK, CountInv
  <2>2. /\ v \in Vaults /\ v.applied = vault[d].applied \cup {op}
        /\ v.outbox = vault[d].outbox /\ v.value = Cardinality(v.applied)
    BY <2>1, AppliedVault, AppliedCounts DEF VaultCounts, Counted
  <2> HIDE DEF v
  <2>3. w.applied = v.applied /\ w.value = v.value /\ w.outbox = v.outbox \cup {op}
    BY <2>2, EnqueuedVault
  <2>4. vault'[d] = w /\ created' = created \cup {op} /\ vault' = [vault EXCEPT ![d] = w]
    BY <1>6, <2>1 DEF Increment, Typed, TypeOK, v
  <2> HIDE DEF w
  <2>5. VaultCounts(d)'
    BY <2>1, <2>2, <2>3, <2>4 DEF VaultCounts, Counted
  <2> QED
    BY <1>3, <1>5, <1>6, <2>4, <2>5 DEF Increment, server
<1>7. ASSUME NEW d \in Devices, NEW op \in created, vault[d] # None,
             vault' = [vault EXCEPT ![d] = Applied(@, op)], created' = created
      PROVE  VaultCounts(d)'
  <2>1. vault[d] \in Vaults /\ VaultCounts(d) /\ op \in Ops
    BY <1>7 DEF Typed, TypeOK, CountInv
  <2>2. /\ Applied(vault[d], op).applied = vault[d].applied \cup {op}
        /\ Applied(vault[d], op).outbox = vault[d].outbox
        /\ Applied(vault[d], op).value = Cardinality(Applied(vault[d], op).applied)
    BY <1>7, <2>1, AppliedVault, AppliedCounts DEF VaultCounts, Counted
  <2>3. vault'[d] = Applied(vault[d], op)
    BY <1>7 DEF Typed, TypeOK
  <2> QED
    BY <1>7, <2>1, <2>2, <2>3 DEF VaultCounts, Counted
<1>8. ASSUME NEW d \in Devices, NEW op \in Ops, DeliverPeer(d, op) PROVE CountInv'
  <2>1. op \in created
    BY <1>8 DEF DeliverPeer, CountInv
  <2>2. VaultCounts(d)'
    BY <1>7, <1>8, <2>1 DEF DeliverPeer
  <2> QED
    BY <1>3, <1>5, <1>8, <2>2 DEF DeliverPeer, server
<1>9. ASSUME NEW d \in Devices, NEW op \in Ops, LosePeer(d, op) PROVE CountInv'
  BY <1>3, <1>9 DEF LosePeer, server, CountInv
<1>10. ASSUME NEW p \in Pages, SyncStart(p) PROVE CountInv'
  <2>1. VaultCounts(DeviceOf[p]) /\ vault[DeviceOf[p]] # None
    BY <1>2, <1>10 DEF SyncStart, CountInv
  <2>2. /\ sync'[p].processed = vault[DeviceOf[p]].outbox /\ sync'[p].upload = None
        /\ sync'[p].todo = {} /\ sync'[p].inbox = {} /\ created' = created
    BY <1>10 DEF SyncStart, Idle, Typed, TypeOK
  <2>3. SyncCounts(p)'
    BY <2>1, <2>2 DEF SyncCounts, VaultCounts
  <2> QED
    BY <1>4, <1>10, <2>3 DEF SyncStart, server
<1>11. ASSUME NEW p \in Pages, SyncDevices(p) PROVE CountInv'
  <2> DEFINE ops == sync[p].processed \ {Bootstrap}
  <2>1. /\ sync'[p].processed = sync[p].processed /\ sync'[p].upload = sync[p].upload
        /\ sync'[p].todo = (members \ {DeviceOf[p]}) \X ops
        /\ sync'[p].inbox = sync[p].inbox /\ created' = created
        /\ \A q \in Pages : q = p \/ sync'[q] = sync[q]
    BY <1>11 DEF SyncDevices, Typed, TypeOK, Syncs
  <2>2. SyncCounts(p) /\ ops \subseteq created
    BY DEF CountInv, SyncCounts
  <2>3. SyncCounts(p)'
    BY <2>1, <2>2 DEF SyncCounts, Counted
  <2>4. \A t \in wire' : t[2] \in created'
    BY <1>11, <2>2 DEF SyncDevices, CountInv
  <2> QED
    BY <1>3, <1>11, <2>1, <2>3, <2>4 DEF SyncDevices, CountInv, server
<1>12. ASSUME NEW p \in Pages, NEW to \in Devices, NEW op \in Ops, PostOperation(p, to, op)
       PROVE  CountInv'
  <2>1. SyncCounts(p) /\ op \in created
    <3>1. SyncCounts(p) /\ <<to, op>> \in sync[p].todo
      BY <1>12 DEF PostOperation, CountInv
    <3> QED
      BY <3>1 DEF SyncCounts
  <2>2. /\ sync'[p].processed = sync[p].processed /\ sync'[p].upload = sync[p].upload
        /\ sync'[p].todo \subseteq sync[p].todo
        /\ sync'[p].inbox = sync[p].inbox /\ created' = created
        /\ \A q \in Pages : q = p \/ sync'[q] = sync[q]
    BY <1>12 DEF PostOperation, Typed, TypeOK, Syncs
  <2>3. SyncCounts(p)'
    BY <2>1, <2>2 DEF SyncCounts, Counted
  <2>4. \A d \in Devices : \A m \in mailbox'[d] : m.op \in created'
    BY <1>12, <2>1, <2>2 DEF PostOperation, Typed, TypeOK, CountInv
  <2> QED
    BY <1>3, <1>12, <2>2, <2>3, <2>4 DEF PostOperation, CountInv, server
<1>13. ASSUME NEW p \in Pages, sync' = [sync EXCEPT ![p] = Idle],
              UNCHANGED <<created, vault, joining, checkpoint, mailbox, wire>>
       PROVE  CountInv'
  <2>1. sync'[p] = Idle
    BY <1>13 DEF Typed, TypeOK
  <2>2. SyncCounts(p)'
    BY <1>3, <1>13, <2>1
  <2> QED
    BY <1>4, <1>13, <2>2
<1>14. ASSUME NEW p \in Pages, NEW to \in Devices, NEW op \in Ops, PostRefused(p, to, op)
       PROVE  CountInv'
  BY <1>13, <1>14 DEF PostRefused, server
<1>15. ASSUME NEW p \in Pages, Interrupt(p) PROVE CountInv'
  BY <1>13, <1>15 DEF Interrupt, server
<1>16. ASSUME NEW p \in Pages, FetchOperations(p) PROVE CountInv'
  <2> DEFINE d == DeviceOf[p]
             page == Page(d, sync[p].after)
             top == TopOf(page, sync[p].after)
  <2>1. UNCHANGED <<created, vault, joining, checkpoint, mailbox, wire>>
    BY <1>16 DEF FetchOperations, server
  <2>2. page \subseteq mailbox[d] /\ sync[p] \in Syncs
    BY DEF Page, Typed, TypeOK
  <2>3. CASE sync' = [sync EXCEPT ![p] = Idle]
    BY <1>13, <2>1, <2>3
  <2> HIDE DEF page, top
  <2>4. CASE sync' = [sync EXCEPT ![p] = [@ EXCEPT !.stage = "apply", !.inbox = page, !.top = top]]
    <3>1. /\ sync'[p].processed = sync[p].processed /\ sync'[p].upload = sync[p].upload
          /\ sync'[p].todo = sync[p].todo /\ sync'[p].inbox = page
      BY <2>4 DEF Typed, TypeOK, Syncs
    <3>2. SyncCounts(p)'
      BY <1>2, <2>1, <2>2, <3>1 DEF SyncCounts, CountInv, Counted
    <3> QED
      BY <1>4, <2>1, <2>4, <3>2
  <2> QED
    BY <1>16, <2>3, <2>4 DEF FetchOperations, Typed, TypeOK, page, top
<1>17. ASSUME NEW p \in Pages, NEW m \in sync[p].inbox, ApplyOperation(p, m) PROVE CountInv'
  <2>1. vault[DeviceOf[p]] # None /\ SyncCounts(p) /\ m.op \in created
    BY <1>17 DEF ApplyOperation, Typed, CountInv, SyncCounts
  <2>2. VaultCounts(DeviceOf[p])'
    BY <1>2, <1>7, <1>17, <2>1 DEF ApplyOperation
  <2>3. /\ sync'[p].processed = sync[p].processed /\ sync'[p].upload = sync[p].upload
        /\ sync'[p].todo = sync[p].todo /\ sync'[p].inbox \subseteq sync[p].inbox
        /\ \A q \in Pages : q = p \/ sync'[q] = sync[q]
    BY <1>17 DEF ApplyOperation, Typed, TypeOK, Syncs
  <2>4. SyncCounts(p)'
    BY <1>17, <2>1, <2>3 DEF SyncCounts, Counted, ApplyOperation
  <2>5. \A q \in Pages : SyncCounts(q)'
    BY <1>3, <1>17, <2>3, <2>4 DEF ApplyOperation
  <2> QED
    BY <1>2, <1>5, <1>17, <2>2, <2>5 DEF ApplyOperation, server
<1>18. ASSUME NEW p \in Pages, EncryptCheckpoint(p) PROVE CountInv'
  <2>1. /\ vault[DeviceOf[p]] # None /\ vault[DeviceOf[p]] \in Vaults
        /\ SyncCounts(p) /\ VaultCounts(DeviceOf[p])
    BY <1>2, <1>18 DEF EncryptCheckpoint, Typed, TypeOK, CountInv
  <2>2. /\ sync'[p].processed = sync[p].processed
        /\ sync'[p].upload = Replica(vault[DeviceOf[p]])
        /\ sync'[p].todo = sync[p].todo /\ sync'[p].inbox = sync[p].inbox
    BY <1>18 DEF EncryptCheckpoint, Typed, TypeOK, Syncs
  <2>3. SyncCounts(p)'
    BY <1>18, <2>1, <2>2, ReplicaReplica
       DEF SyncCounts, VaultCounts, Counted, EncryptCheckpoint
  <2> QED
    BY <1>4, <1>18, <2>3 DEF EncryptCheckpoint, server
<1>19. ASSUME NEW p \in Pages, PutCheckpoint(p) PROVE CountInv'
  <2>1. SyncCounts(p) /\ sync[p].upload # None
    BY <1>19 DEF PutCheckpoint, Typed, CountInv
  <2>2. /\ sync'[p].processed = sync[p].processed /\ sync'[p].upload = None
        /\ sync'[p].todo = sync[p].todo /\ sync'[p].inbox = sync[p].inbox
        /\ \A q \in Pages : q = p \/ sync'[q] = sync[q]
    BY <1>19 DEF PutCheckpoint, Typed, TypeOK, Syncs
  <2>3. SyncCounts(p)'
    BY <1>19, <2>1, <2>2 DEF SyncCounts, PutCheckpoint
  <2>4. Counted(checkpoint)'
    BY <1>19, <2>1 DEF PutCheckpoint, SyncCounts, Counted
  <2> QED
    BY <1>3, <1>19, <2>2, <2>3, <2>4 DEF PutCheckpoint, CountInv
<1>20. ASSUME NEW p \in Pages, NEW item \in sync[p].processed, ForgetItem(p, item)
       PROVE  CountInv'
  <2> DEFINE d == DeviceOf[p]
  <2>1. /\ vault[d] # None /\ vault[d] \in Vaults /\ SyncCounts(p) /\ VaultCounts(d)
    BY <1>2, <1>20 DEF ForgetItem, Typed, TypeOK, CountInv
  <2>2. /\ vault'[d].applied = vault[d].applied /\ vault'[d].value = vault[d].value
        /\ vault'[d].outbox \subseteq vault[d].outbox
    BY <1>2, <1>20, <2>1 DEF ForgetItem, Without, Typed, TypeOK, Vaults
  <2>3. VaultCounts(d)'
    BY <1>20, <2>1, <2>2 DEF VaultCounts, Counted, ForgetItem
  <2>4. /\ sync'[p].processed \subseteq sync[p].processed /\ sync'[p].upload = sync[p].upload
        /\ sync'[p].todo = sync[p].todo /\ sync'[p].inbox = sync[p].inbox
        /\ \A q \in Pages : q = p \/ sync'[q] = sync[q]
    BY <1>20 DEF ForgetItem, Typed, TypeOK, Syncs
  <2>5. SyncCounts(p)'
    BY <1>20, <2>1, <2>4 DEF SyncCounts, Counted, ForgetItem
  <2>6. \A q \in Pages : SyncCounts(q)'
    BY <1>3, <1>20, <2>4, <2>5 DEF ForgetItem
  <2> QED
    BY <1>2, <1>5, <1>20, <2>3, <2>6 DEF ForgetItem, server
<1>21. ASSUME NEW p \in Pages, SaveCursor(p) PROVE CountInv'
  <2> DEFINE d == DeviceOf[p]
  <2>1. /\ vault[d] # None /\ vault[d] \in Vaults /\ VaultCounts(d)
        /\ sync' = [sync EXCEPT ![p] = Idle]
        /\ UNCHANGED <<created, joining, checkpoint, mailbox, wire>>
    BY <1>2, <1>21 DEF SaveCursor, Typed, TypeOK, CountInv, server
  <2>2. CASE vault' = vault
    BY <1>13, <2>1, <2>2
  <2>3. CASE vault' = [vault EXCEPT ![d].cursor = sync[p].top]
    <3>1. /\ vault'[d].applied = vault[d].applied /\ vault'[d].value = vault[d].value
          /\ vault'[d].outbox = vault[d].outbox
      BY <1>2, <2>1, <2>3 DEF Typed, TypeOK, Vaults
    <3>2. VaultCounts(d)'
      BY <2>1, <3>1 DEF VaultCounts, Counted
    <3>3. \A q \in Pages : sync'[q] \in {sync[q], Idle}
      BY <2>1 DEF Typed, TypeOK
    <3>4. \A q \in Pages : SyncCounts(q)'
      BY <1>3, <2>1, <3>3
    <3>5. vault' = [vault EXCEPT ![d] = [vault[d] EXCEPT !.cursor = sync[p].top]]
      BY <2>3
    <3> QED
      BY <1>2, <1>5, <2>1, <3>2, <3>4, <3>5
  <2> QED
    BY <1>21, <2>2, <2>3 DEF SaveCursor
<1>22. ASSUME NEW d \in Devices, NEW j, joining' = [joining EXCEPT ![d] = j], JoinCounts(d)',
              UNCHANGED <<created, sync, checkpoint, mailbox, wire>>,
              \A e \in Devices : vault'[e] = vault[e] \/ VaultCounts(e)'
       PROVE  CountInv'
  <2>1. \A e \in Devices : e = d \/ joining'[e] = joining[e]
    BY <1>22 DEF Typed, TypeOK
  <2> QED
    BY <1>3, <1>22, <2>1 DEF CountInv
<1>23. ASSUME NEW d \in Joiners, JoinStep(d) PROVE CountInv'
  <2>1. d \in Devices /\ joining[d] \in Joins /\ JoinCounts(d)
    BY DevicesAssumption DEF Typed, TypeOK, CountInv
  <2>2. CASE Redeem(d)
    <3>1. joining'[d].read = joining[d].read
      BY <2>1, <2>2 DEF Redeem, Typed, TypeOK, Joins
    <3>2. JoinCounts(d)'
      BY <2>1, <2>2, <3>1 DEF JoinCounts, Counted, Redeem
    <3> QED
      BY <1>22, <2>1, <2>2, <3>2 DEF Redeem
  <2>3. CASE ReadCheckpoint(d)
    <3>1. joining'[d].read \in {None, checkpoint}
      BY <2>1, <2>3 DEF ReadCheckpoint, Typed, TypeOK, Joins, NotJoining
    <3>2. JoinCounts(d)'
      BY <2>3, <3>1 DEF JoinCounts, Counted, ReadCheckpoint, CountInv
    <3> QED
      BY <1>22, <2>1, <2>3, <3>2 DEF ReadCheckpoint, server
  <2>4. CASE StoreRoom(d)
    <3>1. joining[d].read \in Replicas /\ joining[d].read # None
      BY <2>1, <2>4 DEF StoreRoom, Typed, Joins
    <3>2. /\ vault'[d].applied = joining[d].read.applied
          /\ vault'[d].value = joining[d].read.value /\ vault'[d].outbox = {}
          /\ \A e \in Devices : e = d \/ vault'[e] = vault[e]
      BY <2>1, <2>4, <3>1, NewVaultVault DEF StoreRoom, Typed, TypeOK
    <3>3. VaultCounts(d)'
      BY <2>1, <2>4, <3>1, <3>2 DEF VaultCounts, Counted, JoinCounts, StoreRoom
    <3>4. joining'[d] = NotJoining
      BY <2>1, <2>4 DEF StoreRoom, Typed, TypeOK
    <3> QED
      BY <1>3, <1>22, <2>1, <2>4, <3>2, <3>3, <3>4 DEF StoreRoom, server
  <2>5. CASE AbandonJoin(d)
    <3>1. joining'[d] = NotJoining
      BY <2>1, <2>5 DEF AbandonJoin, Typed, TypeOK
    <3> QED
      BY <1>3, <1>22, <2>1, <2>5, <3>1 DEF AbandonJoin, server
  <2> QED
    BY <1>23, <2>2, <2>3, <2>4, <2>5 DEF JoinStep
<1>24. ASSUME UNCHANGED vars PROVE CountInv'
  <2>1. UNCHANGED <<created, vault, sync, joining, checkpoint, mailbox, wire>>
    BY <1>24 DEF vars, server
  <2> QED
    BY <1>3, <2>1 DEF CountInv
<1>25. ASSUME NEW p \in Pages, SyncStep(p) PROVE CountInv'
  BY <1>10, <1>11, <1>12, <1>14, <1>16, <1>17, <1>18, <1>19, <1>20, <1>21, <1>25 DEF SyncStep
<1> QED
  BY <1>6, <1>8, <1>9, <1>15, <1>23, <1>24, <1>25 DEF Next

\* Every replica shows the number of operations it has, and nothing is invented.
THEOREM CountInvariant == Spec => []CountInv
BY TypedInvariant, CountInit, CountNext, PTL DEF Spec

-----------------------------------------------------------------------------
(* The room is the counter it promises to be: every step either counts     *)
(* nothing or is a step of ReplicatedCounter.                              *)

Seen(d) == IF vault[d] = None THEN {} ELSE vault[d].applied
Shown(d) == IF vault[d] = None THEN 0 ELSE vault[d].value

\* A step that changes no replica is a stutter of the counter.
LEMMA ReplicasKept ==
  ASSUME created' = created,
         \A d \in Devices : Seen(d)' = Seen(d) /\ Shown(d)' = Shown(d)
  PROVE  UNCHANGED Room!vars
BY DEF Room!vars, Seen, Shown

\* One device counts the operations S beside those it has.
LEMMA ReplicaCounts ==
  ASSUME Typed, CountInv', NEW d \in Devices, NEW S, vault'[d] # None,
         vault'[d].applied = Seen(d) \cup S,
         \A e \in Devices : e = d \/ vault'[e] = vault[e]
  PROVE  Room!Count(d, S)
<1>1. Shown(d)' = Cardinality(Seen(d) \cup S) /\ Seen(d)' = Seen(d) \cup S
  BY DEF CountInv, VaultCounts, Counted, Seen, Shown
<1>2. \A e \in Devices : e = d \/ (Seen(e)' = Seen(e) /\ Shown(e)' = Shown(e))
  BY DEF Seen, Shown
<1>3. Room!Cardinality(Seen(d) \cup S) = Cardinality(Seen(d) \cup S)
  BY DEF Cardinality, Room!Cardinality
<1> QED
  BY <1>1, <1>2, <1>3 DEF Room!Count, Seen, Shown

\* Reloads, repeated posts, double deliveries, overlapping and half-finished syncs:
\* the room is a replicated counter, as long as no admitted device redeems its
\* invitation again.
THEOREM RoomCounts ==
  ASSUME Rejoin = FALSE
  PROVE  Spec => CountsOnce
<1> DEFINE Good == Typed /\ CountInv /\ JoiningHaveNoRoom
<1>1. Init => Room!Init
  <2> SUFFICES ASSUME Init PROVE Room!Init
    OBVIOUS
  <2>1. \A d \in Devices : Seen(d) = {} /\ Shown(d) = 0
    BY DEF Init, NewVault, EmptyReplica, Seen, Shown
  <2> QED
    BY <2>1 DEF Init, Room!Init, Seen, Shown
<1>2. Good /\ [Next]_vars => [Room!Next]_(Room!vars)
  <2> SUFFICES ASSUME Typed, CountInv, JoiningHaveNoRoom, [Next]_vars
               PROVE  Room!Next \/ UNCHANGED Room!vars
    OBVIOUS
  <2>1. CountInv' /\ \A p \in Pages : DeviceOf[p] \in Devices
    BY CountNext, DevicesAssumption
  <2>2. ASSUME UNCHANGED <<created, vault>> PROVE UNCHANGED Room!vars
    BY <2>2, ReplicasKept DEF Seen, Shown
  <2>3. ASSUME NEW d \in Devices, NEW op \in Ops, Increment(d, op) PROVE Room!Next
    <3>1. vault[d] \in Vaults /\ vault[d] # None
      BY <2>3 DEF Increment, Typed, TypeOK
    <3>2. /\ vault'[d] # None /\ vault'[d].applied = vault[d].applied \cup {op}
          /\ \A e \in Devices : e = d \/ vault'[e] = vault[e]
      BY <2>3, <3>1, AppliedVault, EnqueuedVault DEF Increment, Typed, TypeOK
    <3>3. Room!Count(d, {op})
      BY <2>1, <3>1, <3>2, ReplicaCounts DEF Seen
    <3> QED
      BY <2>3, <3>3 DEF Room!Next, Room!Increment, Increment
  <2>4. ASSUME NEW d \in Devices, NEW op \in created, vault[d] # None,
               vault' = [vault EXCEPT ![d] = Applied(@, op)], created' = created
        PROVE  Room!Next
    <3>1. vault[d] \in Vaults /\ op \in Ops
      BY <2>4 DEF Typed, TypeOK
    <3>2. /\ vault'[d] # None /\ vault'[d].applied = vault[d].applied \cup {op}
          /\ \A e \in Devices : e = d \/ vault'[e] = vault[e]
      BY <2>4, <3>1, AppliedVault DEF Typed, TypeOK
    <3>3. Room!Count(d, {op})
      BY <2>1, <2>4, <3>2, ReplicaCounts DEF Seen
    <3> QED
      BY <2>4, <3>3 DEF Room!Next, Room!Learn
  <2>5. ASSUME NEW d \in Devices, NEW op \in Ops, DeliverPeer(d, op) PROVE Room!Next
    <3>1. op \in created
      BY <2>5 DEF DeliverPeer, CountInv
    <3> QED
      BY <2>4, <2>5, <3>1 DEF DeliverPeer
  <2>6. ASSUME NEW p \in Pages, NEW m \in sync[p].inbox, ApplyOperation(p, m) PROVE Room!Next
    <3>1. m.op \in created /\ vault[DeviceOf[p]] # None
      BY <2>6 DEF ApplyOperation, CountInv, SyncCounts, Typed
    <3> QED
      BY <2>1, <2>4, <2>6, <3>1 DEF ApplyOperation
  <2>7. ASSUME NEW d \in Joiners, StoreRoom(d) PROVE Room!Next
    <3>1. /\ d \in Devices /\ joining[d].read \in Replicas /\ joining[d].read # None
          /\ vault[d] = None
      BY <2>7, DevicesAssumption DEF StoreRoom, Typed, TypeOK, Joins, JoiningHaveNoRoom
    <3>2. /\ vault'[d] # None /\ vault'[d].applied = joining[d].read.applied
          /\ \A e \in Devices : e = d \/ vault'[e] = vault[e]
      BY <2>7, <3>1, NewVaultVault DEF StoreRoom, Typed, TypeOK
    <3>3. PICK S \in SUBSET created : S = joining[d].read.applied
      BY <3>1 DEF CountInv, JoinCounts, Counted
    <3>4. Room!Count(d, S)
      BY <2>1, <3>1, <3>2, <3>3, ReplicaCounts DEF Seen
    <3> QED
      BY <2>7, <3>1, <3>3, <3>4 DEF Room!Next, Room!Learn, StoreRoom
  <2>8. ASSUME NEW p \in Pages, NEW v \in Vaults, created' = created,
               vault[DeviceOf[p]] \in Vaults,
               vault' = [vault EXCEPT ![DeviceOf[p]] = v],
               v.applied = vault[DeviceOf[p]].applied, v.value = vault[DeviceOf[p]].value
        PROVE  UNCHANGED Room!vars
    <3>1. vault[DeviceOf[p]] # None /\ v # None
      BY <2>8, NoneAssumption
    <3> QED
      BY <2>1, <2>8, <3>1, ReplicasKept DEF Seen, Shown, Typed, TypeOK
  <2>9. ASSUME NEW p \in Pages, NEW item \in sync[p].processed, ForgetItem(p, item)
        PROVE  UNCHANGED Room!vars
    <3> DEFINE v == [vault[DeviceOf[p]] EXCEPT !.outbox = Without(@, item)]
    <3>1. vault[DeviceOf[p]] \in Vaults
      BY <2>1, <2>9 DEF ForgetItem, Typed, TypeOK
    <3>2. /\ v \in Vaults /\ v.applied = vault[DeviceOf[p]].applied
          /\ v.value = vault[DeviceOf[p]].value
      BY <3>1 DEF Vaults, Without
    <3>3. vault' = [vault EXCEPT ![DeviceOf[p]] = v]
      BY <2>9 DEF ForgetItem
    <3> HIDE DEF v
    <3> QED
      BY <2>8, <2>9, <3>1, <3>2, <3>3 DEF ForgetItem
  <2>10. ASSUME NEW p \in Pages, SaveCursor(p) PROVE UNCHANGED Room!vars
    <3> DEFINE v == [vault[DeviceOf[p]] EXCEPT !.cursor = sync[p].top]
    <3>1. vault[DeviceOf[p]] \in Vaults /\ sync[p].top \in Nat
      BY <2>1, <2>10 DEF SaveCursor, Typed, TypeOK, Syncs
    <3>2. /\ v \in Vaults /\ v.applied = vault[DeviceOf[p]].applied
          /\ v.value = vault[DeviceOf[p]].value
      BY <3>1 DEF Vaults
    <3>3. vault' = vault \/ vault' = [vault EXCEPT ![DeviceOf[p]] = v]
      BY <2>10 DEF SaveCursor
    <3> HIDE DEF v
    <3> QED
      BY <2>2, <2>8, <2>10, <3>1, <3>2, <3>3 DEF SaveCursor
  <2>11. ASSUME NEW p \in Pages, SyncStep(p) PROVE Room!Next \/ UNCHANGED Room!vars
    BY <2>2, <2>6, <2>9, <2>10, <2>11
       DEF SyncStep, SyncStart, SyncDevices, PostOperation, PostRefused, FetchOperations,
           EncryptCheckpoint, PutCheckpoint
  <2>12. ASSUME NEW d \in Joiners, JoinStep(d) PROVE Room!Next \/ UNCHANGED Room!vars
    BY <2>2, <2>7, <2>12 DEF JoinStep, Redeem, ReadCheckpoint, AbandonJoin
  <2>13. ASSUME UNCHANGED vars PROVE UNCHANGED Room!vars
    BY <2>2, <2>13 DEF vars
  <2>14. ASSUME NEW p \in Pages, Interrupt(p) PROVE UNCHANGED Room!vars
    BY <2>2, <2>14 DEF Interrupt
  <2>15. ASSUME NEW d \in Devices, NEW op \in Ops, LosePeer(d, op) PROVE UNCHANGED Room!vars
    BY <2>2, <2>15 DEF LosePeer
  <2> QED
    BY <2>3, <2>5, <2>11, <2>12, <2>13, <2>14, <2>15 DEF Next
<1>3. Init => JoiningHaveNoRoom
  BY CursorInit DEF CursorInv
<1>4. Typed /\ JoiningHaveNoRoom /\ [Next]_vars => JoiningHaveNoRoom'
  BY Growth
<1> QED
  BY <1>1, <1>2, <1>3, <1>4, TypedInvariant, CountInvariant, PTL DEF Spec, CountsOnce, Room!Spec

-----------------------------------------------------------------------------
(* Loss.  When nobody joins, an operation that leaves an outbox has reached *)
(* every device, because the members were listed after it was queued.      *)

Delivered(d, op) == op \in vault[d].applied \/ Waiting(d, op)

\* What a sync has in its snapshot it has applied, and past the listing of the
\* members each of them has it, or the post to that member is still to be made.
SyncLosesNothing(p) ==
  sync[p].stage # "idle" => \A op \in sync[p].processed \ {Bootstrap} :
    /\ op \in vault[DeviceOf[p]].applied
    /\ sync[p].stage \in {"post", "apply", "put", "forget"} =>
         \A d \in Devices : vault[d] # None =>
           Delivered(d, op) \/ (sync[p].stage = "post" /\ <<d, op>> \in sync[p].todo)

LossInv ==
  /\ \A d \in Devices : vault[d] # None =>
       d \in members /\ vault[d].outbox \ {Bootstrap} \subseteq vault[d].applied
  /\ \A p \in Pages : SyncLosesNothing(p)
  /\ NoOperationLost

\* In a new room nothing is under way.
LEMMA LossInit == Init => LossInv
<1> SUFFICES ASSUME Init PROVE LossInv
  OBVIOUS
<1>1. ASSUME NEW d \in Devices, vault[d] # None
      PROVE  d \in members /\ vault[d].outbox \ {Bootstrap} \subseteq vault[d].applied
  <2>1. d \in Founders /\ vault[d].outbox \subseteq {Bootstrap}
    BY <1>1 DEF Init, NewVault
  <2> QED
    BY <2>1 DEF Init
<1>2. ASSUME NEW p \in Pages PROVE SyncLosesNothing(p)
  <2>1. sync[p] \in {Idle, CreateRoomUpload}
    BY DEF Init
  <2>2. Idle.processed = {} /\ CreateRoomUpload.processed = {Bootstrap}
    BY DEF Idle, CreateRoomUpload
  <2> QED
    BY <2>1, <2>2 DEF SyncLosesNothing
<1>3. NoOperationLost
  BY DEF Init, NoOperationLost
<1> QED
  BY <1>1, <1>2, <1>3 DEF LossInv

\* What a device has or has coming it keeps: no cursor passes over it.
LEMMA DeliveredStable ==
  ASSUME Typed', CursorInv', NEW d \in Devices, NEW op,
         MailboxGrows(d), ReplicaGrows(d), vault[d] # None, Delivered(d, op)
  PROVE  Delivered(d, op)'
<1>1. CASE op \in vault[d].applied
  BY <1>1 DEF Delivered, ReplicaGrows
<1>2. CASE Waiting(d, op)
  <2>1. PICK m \in mailbox[d] : m.op = op
    BY <1>2 DEF Waiting
  <2>2. m \in mailbox'[d] /\ vault'[d] # None
    BY DEF MailboxGrows, ReplicaGrows
  <2>3. m.id <= vault'[d].cursor => op \in vault'[d].applied
    BY <2>1, <2>2 DEF CursorInv, AllReach, VaultReaches, Reaches
  <2>4. m.id \in Nat /\ vault'[d].cursor \in Nat
    BY <2>2 DEF Typed, TypeOK, Messages, Vaults
  <2> QED
    BY <2>1, <2>2, <2>3, <2>4 DEF Delivered, Waiting
<1> QED
  BY <1>1, <1>2 DEF Delivered

\* A sync forgets an item only once every member has it or has it coming.
LEMMA LossNext ==
  ASSUME Joiners = {}, Rejoin = FALSE, Typed, CursorInv, LossInv, [Next]_vars
  PROVE  LossInv'
<1>1. /\ Typed' /\ CursorInv'
      /\ \A d \in Devices : MailboxGrows(d) /\ ReplicaGrows(d)
  BY TypedNext, CursorNext, Growth DEF CursorInv
<1>2. \A p \in Pages : DeviceOf[p] \in Devices
  BY DevicesAssumption
<1>3. ASSUME NEW d \in Devices, NEW op, vault[d] # None, Delivered(d, op) PROVE Delivered(d, op)'
  BY <1>1, <1>3, DeliveredStable
<1> DEFINE RoomsStay ==
             /\ members' = members
             /\ \A d \in Devices : vault'[d] # None => vault[d] # None
\* A sync that advances without dropping a post.
<1>4. ASSUME NEW p \in Pages, RoomsStay,
             sync'[p].stage # "idle" =>
               sync[p].stage # "idle" /\ sync'[p].processed \subseteq sync[p].processed,
             sync'[p].stage \in {"post", "apply", "put", "forget"} =>
               sync[p].stage \in {"post", "apply", "put", "forget"},
             ASSUME NEW d \in Devices, NEW op, sync[p].stage = "post", <<d, op>> \in sync[p].todo,
                    sync'[p].stage # "idle"
             PROVE  Delivered(d, op)' \/ (sync'[p].stage = "post" /\ <<d, op>> \in sync'[p].todo)
      PROVE  SyncLosesNothing(p)'
  <2> SUFFICES ASSUME sync'[p].stage # "idle", NEW op \in sync'[p].processed \ {Bootstrap}
               PROVE  /\ op \in vault'[DeviceOf[p]].applied
                      /\ sync'[p].stage \in {"post", "apply", "put", "forget"} =>
                           \A d \in Devices : vault'[d] # None =>
                             \/ Delivered(d, op)'
                             \/ sync'[p].stage = "post" /\ <<d, op>> \in sync'[p].todo
    BY DEF SyncLosesNothing
  <2>1. op \in vault[DeviceOf[p]].applied /\ vault[DeviceOf[p]] # None
    BY <1>4 DEF LossInv, SyncLosesNothing, Typed
  <2>2. op \in vault'[DeviceOf[p]].applied
    BY <1>1, <1>2, <2>1 DEF ReplicaGrows
  <2>3. ASSUME NEW d \in Devices, vault'[d] # None,
               sync'[p].stage \in {"post", "apply", "put", "forget"}
        PROVE  \/ Delivered(d, op)'
               \/ sync'[p].stage = "post" /\ <<d, op>> \in sync'[p].todo
    <3>1. /\ vault[d] # None
          /\ Delivered(d, op) \/ (sync[p].stage = "post" /\ <<d, op>> \in sync[p].todo)
      BY <1>4, <2>3 DEF LossInv, SyncLosesNothing
    <3> QED
      BY <1>3, <1>4, <3>1
  <2> QED
    BY <2>2, <2>3
<1>5. ASSUME NEW p \in Pages, RoomsStay, sync'[p] \in {sync[p], Idle}
      PROVE  SyncLosesNothing(p)'
  <2>1. CASE sync'[p] = Idle
    BY <2>1 DEF SyncLosesNothing, Idle
  <2>2. CASE sync'[p] = sync[p]
    BY <1>4, <1>5, <2>2
  <2> QED
    BY <1>5, <2>1, <2>2
\* A step that changes no outbox.
<1>6. ASSUME RoomsStay, created' = created,
             \A d \in Devices : vault[d] # None => vault'[d].outbox = vault[d].outbox,
             \A p \in Pages : SyncLosesNothing(p)'
      PROVE  LossInv'
  <2>1. ASSUME NEW d \in Devices, vault'[d] # None
        PROVE  d \in members' /\ vault'[d].outbox \ {Bootstrap} \subseteq vault'[d].applied
    BY <1>1, <1>6, <2>1 DEF LossInv, ReplicaGrows
  <2>2. ASSUME NEW d \in Devices, NEW op \in created', vault'[d] # None
        PROVE  op \in vault'[d].applied \/ Queued(op)' \/ Waiting(d, op)'
    <3>1. vault[d] # None /\ op \in created
      BY <1>6, <2>2
    <3>2. CASE Delivered(d, op)
      BY <1>3, <3>1, <3>2 DEF Delivered
    <3>3. CASE Queued(op)
      BY <1>1, <1>6, <3>3 DEF Queued, ReplicaGrows
    <3> QED
      BY <3>1, <3>2, <3>3 DEF LossInv, NoOperationLost, Delivered
  <2> QED
    BY <1>6, <2>1, <2>2 DEF LossInv, NoOperationLost
\* A step of a sync that changes no vault.
<1>7. ASSUME NEW p \in Pages, NEW s, sync' = [sync EXCEPT ![p] = s], SyncLosesNothing(p)',
             UNCHANGED <<created, vault, members>>
      PROVE  LossInv'
  <2>1. \A q \in Pages : q = p \/ sync'[q] = sync[q]
    BY <1>7 DEF Typed, TypeOK
  <2> QED
    BY <1>5, <1>6, <1>7, <2>1
<1>8. ASSUME NEW d \in Devices, NEW op \in Ops, Increment(d, op) PROVE LossInv'
  <2> DEFINE w == Enqueued(Applied(vault[d], op), op)
  <2>1. vault[d] \in Vaults /\ vault[d] # None
    BY <1>8 DEF Increment, Typed, TypeOK
  <2>2. /\ w # None /\ w.applied = vault[d].applied \cup {op}
        /\ w.outbox = vault[d].outbox \cup {op}
    BY <2>1, AppliedVault, EnqueuedVault
  <2>3. /\ vault'[d] = w /\ created' = created \cup {op} /\ sync' = sync /\ members' = members
        /\ \A e \in Devices : e = d \/ vault'[e] = vault[e]
    BY <1>8 DEF Increment, Typed, TypeOK, server
  <2> HIDE DEF w
  <2>4. RoomsStay
    BY <2>1, <2>3
  <2>5. \A p \in Pages : SyncLosesNothing(p)'
    BY <1>5, <2>3, <2>4
  <2>6. ASSUME NEW e \in Devices, vault'[e] # None
        PROVE  e \in members' /\ vault'[e].outbox \ {Bootstrap} \subseteq vault'[e].applied
    BY <2>1, <2>2, <2>3, <2>6 DEF LossInv
  <2>7. ASSUME NEW e \in Devices, NEW x \in created', vault'[e] # None
        PROVE  x \in vault'[e].applied \/ Queued(x)' \/ Waiting(e, x)'
    <3>1. vault[e] # None
      BY <2>4, <2>7
    <3>2. CASE x = op
      BY <2>2, <2>3, <3>2 DEF Queued
    <3>3. CASE Delivered(e, x)
      BY <1>3, <3>1, <3>3 DEF Delivered
    <3>4. CASE Queued(x)
      BY <2>2, <2>3, <3>4 DEF Queued
    <3> QED
      BY <2>3, <3>1, <3>2, <3>3, <3>4 DEF LossInv, NoOperationLost, Delivered
  <2> QED
    BY <2>5, <2>6, <2>7 DEF LossInv, NoOperationLost
<1>9. ASSUME NEW d \in Devices, NEW op \in Ops, DeliverPeer(d, op) PROVE LossInv'
  <2>1. vault[d] \in Vaults /\ vault[d] # None
    BY <1>9 DEF DeliverPeer, Typed, TypeOK
  <2>2. /\ vault'[d].outbox = vault[d].outbox
        /\ \A e \in Devices : e = d \/ vault'[e] = vault[e]
        /\ created' = created /\ sync' = sync /\ members' = members
    BY <1>9, <2>1, AppliedVault DEF DeliverPeer, Typed, TypeOK, server
  <2>3. RoomsStay /\ \A e \in Devices : vault[e] # None => vault'[e].outbox = vault[e].outbox
    BY <2>1, <2>2
  <2> HIDE DEF RoomsStay
  <2> QED
    BY <1>5, <1>6, <2>2, <2>3
<1>10. ASSUME NEW p \in Pages, SyncStart(p) PROVE LossInv'
  <2>1. /\ vault[DeviceOf[p]] # None /\ UNCHANGED <<created, vault, members>>
        /\ sync'[p].stage = "devices" /\ sync'[p].processed = vault[DeviceOf[p]].outbox
    BY <1>10 DEF SyncStart, Idle, server, Typed, TypeOK
  <2>2. SyncLosesNothing(p)'
    BY <1>2, <2>1 DEF SyncLosesNothing, LossInv
  <2> QED
    BY <1>7, <1>10, <2>1, <2>2 DEF SyncStart
<1>11. ASSUME NEW p \in Pages, SyncDevices(p) PROVE LossInv'
  <2> DEFINE ops == sync[p].processed \ {Bootstrap}
  <2>1. /\ sync[p].stage = "devices" /\ UNCHANGED <<created, vault, members>>
        /\ sync'[p].stage = "post" /\ sync'[p].processed = sync[p].processed
        /\ sync'[p].todo = (members \ {DeviceOf[p]}) \X ops
    BY <1>11 DEF SyncDevices, server, Typed, TypeOK, Syncs
  <2>2. ASSUME NEW op \in ops PROVE op \in vault[DeviceOf[p]].applied
    BY <2>1 DEF LossInv, SyncLosesNothing
  <2>3. ASSUME NEW op \in ops, NEW d \in Devices, vault[d] # None
        PROVE  Delivered(d, op)' \/ <<d, op>> \in sync'[p].todo
    <3>1. CASE d = DeviceOf[p]
      BY <2>1, <2>2, <3>1 DEF Delivered
    <3>2. CASE d # DeviceOf[p]
      BY <2>1, <2>3, <3>2 DEF LossInv
    <3> QED
      BY <3>1, <3>2
  <2>4. SyncLosesNothing(p)'
    BY <2>1, <2>2, <2>3 DEF SyncLosesNothing
  <2> QED
    BY <1>7, <1>11, <2>1, <2>4 DEF SyncDevices
<1>12. ASSUME NEW p \in Pages, NEW to \in Devices, NEW op \in Ops, PostOperation(p, to, op)
       PROVE  LossInv'
  <2>1. /\ sync[p].stage = "post" /\ UNCHANGED <<created, vault, members>>
        /\ sync'[p].stage = "post" /\ sync'[p].processed = sync[p].processed
        /\ sync'[p].todo = sync[p].todo \ {<<to, op>>}
    BY <1>12 DEF PostOperation, Typed, TypeOK, Syncs
  <2>2. vault[to] # None => Delivered(to, op)'
    <3> DEFINE m == [id |-> lastId[to] + 1, op |-> op]
    <3>1. m \in mailbox'[to] /\ m.op = op /\ m.id = lastId[to] + 1
      BY <1>12 DEF PostOperation, Typed, TypeOK
    <3>2. vault[to] # None => vault[to].cursor <= lastId[to]
      BY DEF CursorInv, AllReach, VaultReaches, Reaches
    <3>3. lastId[to] \in Nat /\ (vault[to] # None => vault[to].cursor \in Nat)
      BY DEF Typed, TypeOK, Vaults
    <3> HIDE DEF m
    <3>4. vault[to] # None => m.id > vault'[to].cursor
      BY <2>1, <3>1, <3>2, <3>3
    <3> QED
      BY <3>1, <3>4 DEF Delivered, Waiting
  <2>3. RoomsStay
    BY <2>1
  <2>4. ASSUME NEW d \in Devices, NEW x, <<d, x>> \in sync[p].todo, vault[d] # None
        PROVE  Delivered(d, x)' \/ <<d, x>> \in sync'[p].todo
    BY <2>1, <2>2, <2>4
  <2>5. SyncLosesNothing(p)'
    <3>1. ASSUME NEW x \in sync'[p].processed \ {Bootstrap}, NEW d \in Devices, vault'[d] # None
          PROVE  Delivered(d, x)' \/ <<d, x>> \in sync'[p].todo
      <4>1. vault[d] # None /\ (Delivered(d, x) \/ <<d, x>> \in sync[p].todo)
        BY <2>1, <3>1 DEF LossInv, SyncLosesNothing
      <4> QED
        BY <1>3, <2>4, <4>1
    <3>2. ASSUME NEW x \in sync'[p].processed \ {Bootstrap}
          PROVE  x \in vault'[DeviceOf[p]].applied
      BY <2>1, <3>2 DEF LossInv, SyncLosesNothing
    <3> QED
      BY <2>1, <3>1, <3>2 DEF SyncLosesNothing
  <2> QED
    BY <1>7, <1>12, <2>1, <2>5 DEF PostOperation
<1>13. ASSUME NEW p \in Pages, FetchOperations(p) PROVE LossInv'
  <2>1. /\ sync[p].stage = "post" /\ sync[p].todo = {} /\ UNCHANGED <<created, vault, members>>
        /\ sync'[p] = Idle \/ /\ sync'[p].stage = "apply"
                              /\ sync'[p].processed = sync[p].processed
    BY <1>13 DEF FetchOperations, server, Typed, TypeOK, Syncs
  <2>2. RoomsStay
    BY <2>1
  <2>3. SyncLosesNothing(p)'
    BY <1>4, <1>5, <2>1, <2>2
  <2> QED
    BY <1>7, <1>13, <2>1, <2>3 DEF FetchOperations
<1>14. ASSUME NEW p \in Pages, NEW m \in sync[p].inbox, ApplyOperation(p, m) PROVE LossInv'
  <2> DEFINE d == DeviceOf[p]
  <2>1. vault[d] \in Vaults /\ vault[d] # None /\ m.op \in Ops
    BY <1>2, <1>14 DEF ApplyOperation, Typed, TypeOK, Syncs, Messages
  <2>2. /\ vault'[d].outbox = vault[d].outbox
        /\ \A e \in Devices : e = d \/ vault'[e] = vault[e]
        /\ created' = created /\ members' = members
    BY <1>2, <1>14, <2>1, AppliedVault DEF ApplyOperation, Typed, TypeOK, server
  <2>3. /\ sync[p].stage = "apply" /\ sync'[p].stage = "apply"
        /\ sync'[p].processed = sync[p].processed
        /\ \A q \in Pages : q = p \/ sync'[q] = sync[q]
    BY <1>14 DEF ApplyOperation, Typed, TypeOK, Syncs
  <2>4. RoomsStay
    BY <2>1, <2>2
  <2>5. \A q \in Pages : SyncLosesNothing(q)'
    BY <1>4, <1>5, <2>3, <2>4
  <2> QED
    BY <1>6, <2>2, <2>4, <2>5
<1>15. ASSUME NEW p \in Pages, EncryptCheckpoint(p) \/ PutCheckpoint(p) PROVE LossInv'
  <2>1. /\ sync[p].stage \in {"apply", "put"} /\ UNCHANGED <<created, vault, members>>
        /\ sync'[p].stage \in {"put", "forget"}
        /\ sync'[p].processed = sync[p].processed
        /\ \A q \in Pages : q = p \/ sync'[q] = sync[q]
    BY <1>15 DEF EncryptCheckpoint, PutCheckpoint, server, Typed, TypeOK, Syncs
  <2>2. RoomsStay
    BY <2>1
  <2>3. \A q \in Pages : SyncLosesNothing(q)'
    BY <1>4, <1>5, <2>1, <2>2
  <2> QED
    BY <1>6, <2>1, <2>2, <2>3
<1>16. ASSUME NEW p \in Pages, NEW item \in sync[p].processed, ForgetItem(p, item)
       PROVE  LossInv'
  <2> DEFINE d == DeviceOf[p]
  <2>1. /\ sync[p].stage = "forget" /\ vault[d] \in Vaults /\ vault[d] # None
    BY <1>2, <1>16 DEF ForgetItem, Typed, TypeOK
  <2>2. /\ vault'[d].outbox = vault[d].outbox \ {item}
        /\ \A e \in Devices : e = d \/ vault'[e] = vault[e]
        /\ created' = created /\ members' = members
    BY <1>2, <1>16, <2>1 DEF ForgetItem, Without, Typed, TypeOK, Vaults, server
  <2>3. /\ sync'[p].stage = "forget" /\ sync'[p].processed \subseteq sync[p].processed
        /\ \A q \in Pages : q = p \/ sync'[q] = sync[q]
    BY <1>16 DEF ForgetItem, Typed, TypeOK, Syncs
  <2>4. RoomsStay
    BY <2>1, <2>2
  <2>5. \A q \in Pages : SyncLosesNothing(q)'
    BY <1>4, <1>5, <2>1, <2>3, <2>4
  <2>6. ASSUME NEW e \in Devices, vault'[e] # None
        PROVE  e \in members' /\ vault'[e].outbox \ {Bootstrap} \subseteq vault'[e].applied
    BY <1>1, <2>1, <2>2, <2>4, <2>6 DEF LossInv, ReplicaGrows
  <2>7. ASSUME NEW e \in Devices, NEW x \in created', vault'[e] # None
        PROVE  x \in vault'[e].applied \/ Queued(x)' \/ Waiting(e, x)'
    <3>1. vault[e] # None /\ x \in created /\ x # Bootstrap
      BY <2>2, <2>4, <2>7, DevicesAssumption DEF Typed, TypeOK
    <3>2. CASE Delivered(e, x)
      BY <1>3, <3>1, <3>2 DEF Delivered
    <3>3. CASE Queued(x) /\ x # item
      BY <1>1, <2>2, <3>3 DEF Queued, ReplicaGrows
    <3>4. CASE x = item
      <4>1. Delivered(e, x)
        BY <2>1, <3>1, <3>4 DEF LossInv, SyncLosesNothing
      <4> QED
        BY <1>3, <3>1, <4>1 DEF Delivered
    <3> QED
      BY <3>1, <3>2, <3>3, <3>4 DEF LossInv, NoOperationLost, Delivered
  <2> QED
    BY <2>5, <2>6, <2>7 DEF LossInv, NoOperationLost
<1>17. ASSUME NEW p \in Pages, SaveCursor(p) PROVE LossInv'
  <2> DEFINE d == DeviceOf[p]
  <2>1. vault[d] \in Vaults /\ vault[d] # None
    BY <1>2, <1>17 DEF SaveCursor, Typed, TypeOK
  <2>2. /\ vault'[d].outbox = vault[d].outbox
        /\ \A e \in Devices : e = d \/ vault'[e] = vault[e]
        /\ created' = created /\ members' = members
        /\ \A q \in Pages : sync'[q] \in {sync[q], Idle}
    BY <1>2, <1>17, <2>1 DEF SaveCursor, Typed, TypeOK, Vaults, server
  <2>3. RoomsStay /\ \A e \in Devices : vault[e] # None => vault'[e].outbox = vault[e].outbox
    BY <2>1, <2>2
  <2> HIDE DEF RoomsStay
  <2> QED
    BY <1>5, <1>6, <2>2, <2>3
<1>18. ASSUME UNCHANGED <<created, vault, members>>,
              \A p \in Pages : sync'[p] \in {sync[p], Idle}
       PROVE  LossInv'
  BY <1>5, <1>6, <1>18
<1>19. ASSUME NEW p \in Pages, NEW to \in Devices, NEW op \in Ops, PostRefused(p, to, op)
       PROVE  LossInv'
  BY <1>18, <1>19 DEF PostRefused, server, Typed, TypeOK
<1>20. ASSUME NEW p \in Pages, Interrupt(p) PROVE LossInv'
  BY <1>18, <1>20 DEF Interrupt, server, Typed, TypeOK
<1>21. ASSUME NEW d \in Devices, NEW op \in Ops, LosePeer(d, op) PROVE LossInv'
  BY <1>18, <1>21 DEF LosePeer, server
<1>22. ASSUME UNCHANGED vars PROVE LossInv'
  <2>1. UNCHANGED <<created, vault, members, sync>>
    BY <1>22 DEF vars, server
  <2> QED
    BY <1>18, <2>1
<1>23. ASSUME NEW p \in Pages, SyncStep(p) PROVE LossInv'
  BY <1>10, <1>11, <1>12, <1>13, <1>14, <1>15, <1>16, <1>17, <1>19, <1>23 DEF SyncStep
<1> QED
  BY <1>8, <1>9, <1>20, <1>21, <1>22, <1>23 DEF Next

\* Until a device has counted an operation it can still get it, whichever posts,
\* syncs and pages fail, as long as no device joins.
THEOREM NothingIsLost ==
  ASSUME Joiners = {}, Rejoin = FALSE
  PROVE  Spec => []NoOperationLost
<1>1. Init => CursorInv /\ LossInv
  BY CursorInit, LossInit
<1>2. Typed /\ CursorInv /\ LossInv /\ [Next]_vars => CursorInv' /\ LossInv'
  BY CursorNext, LossNext
<1>3. LossInv => NoOperationLost
  BY DEF LossInv
<1> QED
  BY <1>1, <1>2, <1>3, TypedInvariant, PTL DEF Spec

-----------------------------------------------------------------------------
(* The first checkpoint.  The upload is forgotten only by a sync that has   *)
(* replaced the checkpoint, and a room is replaced only by a device that    *)
(* was given one, so until then the owner still has the upload queued.      *)

PendingInv ==
  /\ checkpoint = None => vault[Owner] # None /\ Bootstrap \in vault[Owner].outbox
  /\ \A p \in Pages : sync[p].stage = "forget" => checkpoint # None
  /\ \A d \in Devices : joining[d].stage = "store" => checkpoint # None

\* createRoom stores the room with the upload queued, and nothing is uploaded yet.
LEMMA PendingInit == Init => PendingInv
<1> SUFFICES ASSUME Init PROVE PendingInv
  OBVIOUS
<1>1. ASSUME checkpoint = None
      PROVE  vault[Owner] # None /\ Bootstrap \in vault[Owner].outbox
  <2>1. Founders = {Owner} /\ Owner \in Devices
    BY <1>1, EmptyReplicaReplica, DevicesAssumption DEF Init
  <2>2. vault[Owner] = NewVault(EmptyReplica, {Bootstrap})
    BY <2>1 DEF Init
  <2> QED
    BY <2>2, EmptyReplicaReplica, NewVaultVault DEF Items
<1>2. ASSUME NEW p \in Pages PROVE sync[p].stage # "forget"
  <2>1. sync[p] \in {Idle, CreateRoomUpload}
    BY DEF Init
  <2>2. Idle.stage = "idle" /\ CreateRoomUpload.stage = "apply"
    BY DEF Idle, CreateRoomUpload
  <2> QED
    BY <2>1, <2>2
<1>3. \A d \in Devices : joining[d].stage = "no"
  BY DEF Init, NotJoining
<1> QED
  BY <1>1, <1>2, <1>3 DEF PendingInv

\* No step loses the queued upload before putRoomCheckpoint has succeeded once.
LEMMA PendingNext == Typed /\ PendingInv /\ [Next]_vars => PendingInv'
<1> SUFFICES ASSUME Typed, PendingInv, [Next]_vars PROVE PendingInv'
  OBVIOUS
<1> USE DevicesAssumption DEF Typed, TypeOK, PendingInv, server
<1> DEFINE
     QueueStays == vault[Owner] # None /\ Bootstrap \in vault[Owner].outbox =>
                     vault'[Owner] # None /\ Bootstrap \in vault'[Owner].outbox
     SyncsStay == \A p \in Pages : sync'[p].stage = "forget" => sync[p].stage = "forget"
     JoinsStay == \A d \in Devices : joining'[d].stage = "store" => joining[d].stage = "store"
<1>1. ASSUME checkpoint' = checkpoint, QueueStays, SyncsStay, JoinsStay PROVE PendingInv'
  BY <1>1
<1>2. ASSUME vault' = vault PROVE QueueStays
  BY <1>2
<1>3. ASSUME NEW d \in Devices, NEW op \in Ops, vault[d] # None,
             vault' = [vault EXCEPT ![d] = Applied(vault[d], op)]
      PROVE  QueueStays
  BY <1>3, AppliedVault
<1>4. ASSUME NEW p \in Pages, sync' = [sync EXCEPT ![p] = Idle],
             UNCHANGED <<vault, joining, checkpoint>>
      PROVE  PendingInv'
  <2>1. SyncsStay
    BY <1>4 DEF Idle
  <2> QED
    BY <1>1, <1>2, <1>4, <2>1
<1>5. ASSUME NEW d \in Devices, NEW op \in Ops, Increment(d, op) PROVE PendingInv'
  <2>1. vault[d] \in Vaults /\ Applied(vault[d], op) \in Vaults
    BY <1>5, AppliedVault DEF Increment
  <2>2. /\ Enqueued(Applied(vault[d], op), op) # None
        /\ Enqueued(Applied(vault[d], op), op).outbox = vault[d].outbox \cup {op}
    BY <2>1, AppliedVault, EnqueuedVault
  <2>3. vault' = [vault EXCEPT ![d] = Enqueued(Applied(vault[d], op), op)]
    BY <1>5 DEF Increment
  <2>4. QueueStays
    BY <2>2, <2>3
  <2> QED
    BY <1>1, <1>5, <2>4 DEF Increment
<1>6. ASSUME NEW d \in Devices, NEW op \in Ops, DeliverPeer(d, op) PROVE PendingInv'
  BY <1>1, <1>3, <1>6 DEF DeliverPeer
<1>7. ASSUME NEW d \in Devices, NEW op \in Ops, LosePeer(d, op) PROVE PendingInv'
  BY <1>7 DEF LosePeer
<1>8. ASSUME NEW p \in Pages, SyncStep(p) PROVE PendingInv'
  <2>1. ASSUME SyncStart(p) PROVE SyncsStay
    BY <2>1 DEF SyncStart, Idle
  <2>2. ASSUME SyncDevices(p) PROVE SyncsStay
    BY <2>2 DEF SyncDevices, Syncs
  <2>3. ASSUME NEW to \in Devices, NEW op \in Ops, PostOperation(p, to, op) PROVE SyncsStay
    BY <2>3 DEF PostOperation, Syncs
  <2>4. ASSUME FetchOperations(p) PROVE SyncsStay
    BY <2>4 DEF FetchOperations, Syncs, Idle
  <2>5. ASSUME NEW m \in sync[p].inbox, ApplyOperation(p, m) PROVE PendingInv'
    <3>1. m.op \in Ops /\ vault[DeviceOf[p]] # None
      BY <2>5 DEF Syncs, Messages, ApplyOperation
    <3>2. SyncsStay
      BY <2>5 DEF ApplyOperation, Syncs
    <3> QED
      BY <1>1, <1>3, <2>5, <3>1, <3>2 DEF ApplyOperation
  <2>6. ASSUME EncryptCheckpoint(p) PROVE SyncsStay
    BY <2>6 DEF EncryptCheckpoint, Syncs
  <2>7. ASSUME PutCheckpoint(p) PROVE PendingInv'
    BY <2>7 DEF PutCheckpoint
  <2>8. ASSUME NEW item \in sync[p].processed, ForgetItem(p, item) PROVE PendingInv'
    <3>1. checkpoint' # None
      BY <2>8 DEF ForgetItem
    <3> QED
      BY <3>1
  <2>9. ASSUME SaveCursor(p) PROVE PendingInv'
    <3>1. checkpoint' # None
      BY <2>9 DEF SaveCursor
    <3> QED
      BY <3>1
  <2>10. ASSUME NEW to \in Devices, NEW op \in Ops, PostRefused(p, to, op) PROVE PendingInv'
    BY <1>4, <2>10 DEF PostRefused
  <2>11. ASSUME SyncStart(p) \/ SyncDevices(p) \/ FetchOperations(p) \/ EncryptCheckpoint(p)
                \/ \E to \in Devices, op \in Ops : PostOperation(p, to, op)
         PROVE  UNCHANGED <<vault, joining, checkpoint>>
    BY <2>11 DEF SyncStart, SyncDevices, FetchOperations, EncryptCheckpoint, PostOperation
  <2> HIDE DEF QueueStays, SyncsStay, JoinsStay
  <2>12. ASSUME UNCHANGED <<vault, joining, checkpoint>>, SyncsStay PROVE PendingInv'
    BY <1>1, <1>2, <2>12 DEF JoinsStay
  <2> HIDE DEF Typed, TypeOK, PendingInv
  <2> QED
    BY <1>8, <2>1, <2>2, <2>3, <2>4, <2>5, <2>6, <2>7, <2>8, <2>9, <2>10, <2>11, <2>12
       DEF SyncStep
<1>9. ASSUME NEW p \in Pages, Interrupt(p) PROVE PendingInv'
  BY <1>4, <1>9 DEF Interrupt
<1>10. ASSUME NEW d \in Joiners, JoinStep(d) PROVE PendingInv'
  <2>1. CASE Redeem(d)
    BY <2>1 DEF Redeem, Joins
  <2>2. CASE ReadCheckpoint(d)
    BY <2>2 DEF ReadCheckpoint, Joins, NotJoining
  <2>3. CASE StoreRoom(d)
    <3>1. checkpoint' # None
      BY <2>3 DEF StoreRoom
    <3> QED
      BY <2>3, <3>1 DEF StoreRoom
  <2>4. CASE AbandonJoin(d)
    BY <2>4 DEF AbandonJoin, Joins, NotJoining
  <2> QED
    BY <1>10, <2>1, <2>2, <2>3, <2>4 DEF JoinStep
<1>11. ASSUME UNCHANGED vars PROVE PendingInv'
  BY <1>11 DEF vars
<1> HIDE DEF Typed, TypeOK, PendingInv
<1> QED
  BY <1>5, <1>6, <1>7, <1>8, <1>9, <1>10, <1>11 DEF Next

\* Until a checkpoint is stored the owner has its upload queued, whatever fails
\* between creating the room and uploading: the next sync makes the room joinable.
THEOREM CheckpointStaysPending == Spec => []FirstCheckpointPending
<1>1. PendingInv => FirstCheckpointPending
  BY DEF PendingInv, FirstCheckpointPending
<1> QED
  BY <1>1, PendingInit, PendingNext, TypedInvariant, PTL DEF Spec
=============================================================================
