------------------------------ MODULE RoomSync ------------------------------
(***************************************************************************)
(* Synchronisation of a counter room: every device keeps a replica and an  *)
(* outbox in its vault and runs RoomSync.syncMailbox, which posts the      *)
(* outbox to the mailboxes of the other members, applies its own mailbox,  *)
(* replaces the room-wide checkpoint and only then forgets the outbox.     *)
(*                                                                         *)
(* Each await of the client is a step of its own: between two of them the  *)
(* user increments, peers deliver, devices join, requests fail and pages   *)
(* are closed.  Vault updates hold the room lock and are single steps, and *)
(* so is each request the service answers.                                 *)
(*                                                                         *)
(* RoomSync.stop does not end a sync in flight: when the room page is left *)
(* and entered again, the RoomSync of the old mount and that of the new one *)
(* run at once.  Pages are the mounts; one that has no sync in flight      *)
(* stands for the next.  They share the lock, being one browser page.      *)
(*                                                                         *)
(* Operations commute, so the outbox is a set and the order in which one   *)
(* sync posts its operations is arbitrary.  The expiry of mailbox entries  *)
(* is left out, and room capacity left to RoomAdmission.                   *)
(***************************************************************************)
EXTENDS Integers, FiniteSetsExt

CONSTANTS
  Devices,      \* devices
  Pages,        \* mounts of the room page
  DeviceOf,     \* DeviceOf[p]: the device page p is open on
  Creation,     \* the page on which the owner creates the room
  Owner,        \* the device that created the room
  Founders,     \* devices whose admission is complete in the initial state
  Joiners,      \* devices that redeem an invitation later on
  Rejoin,       \* whether an admitted device may redeem its invitation again
  Ops,          \* increments, each made by at most one device
  Rank,         \* Rank[d]: position of d's identifier in sorted order
  Bootstrap,    \* the outbox item that stands for the first checkpoint
  None,         \* absence of a value
  PageSize,     \* LIMIT of getOperations
  Quota,        \* live operations a mailbox may hold
  MaxFailures   \* bound on interrupted syncs

ASSUME DevicesAssumption ==
  /\ Owner \in Founders
  /\ Founders \subseteq Devices
  /\ Joiners \subseteq Devices
  /\ Rejoin \in BOOLEAN
  /\ DeviceOf \in [Pages -> Devices]
  /\ Creation \in Pages /\ DeviceOf[Creation] = Owner
  /\ IsFiniteSet(Ops)
  /\ Bootstrap \notin Ops
  /\ Rank \in [Devices -> Nat]
ASSUME LimitsAssumption ==
  /\ PageSize \in Nat \ {0}
  /\ Quota \in Nat
  /\ MaxFailures \in Nat

Items == Ops \cup {Bootstrap}
Replicas == [applied : SUBSET Ops, value : Nat]
Vaults == [applied : SUBSET Ops, value : Nat, outbox : SUBSET Items, cursor : Nat]
Messages == [id : Nat \ {0}, op : Ops]

ASSUME NoneAssumption == None \notin Replicas \cup Vaults \cup Devices

VARIABLES
  created,     \* history: the operations made so far
  vault,       \* vault[d]: the stored room of device d
  sync,        \* sync[p]: progress and local variables of syncMailbox on page p
  joining,     \* joining[d]: progress of redeemInvitation
  members,     \* server: admitted devices
  mailbox,     \* server: mailbox[d], the operations addressed to d
  lastId,      \* server: lastId[d], the highest id in d's mailbox; ids are drawn
               \* from one sequence, of which a mailbox shows only the order
  checkpoint,  \* server: the room checkpoint
  wire,        \* payloads on data channels: <<recipient, operation>>
  failures     \* number of interrupted syncs

server == <<members, mailbox, lastId, checkpoint>>
vars == <<created, vault, sync, joining, server, wire, failures>>

Stages == {"idle", "devices", "post", "apply", "put", "forget"}

\* processed: outbox items of the snapshot; todo: posts still to be made;
\* after: the cursor of the snapshot; inbox: fetched operations still to be
\* applied; top: the cursor after them; upload: the encrypted checkpoint.
Syncs == [stage : Stages, processed : SUBSET Items, todo : SUBSET (Devices \X Ops),
          after : Nat, inbox : SUBSET Messages, top : Nat, upload : Replicas \cup {None}]

Idle == [stage |-> "idle", processed |-> {}, todo |-> {}, after |-> 0, inbox |-> {},
         top |-> 0, upload |-> None]

\* read: the checkpoint a joining device was given.
Joins == [stage : {"no", "admitted", "store"}, read : Replicas \cup {None}]

NotJoining == [stage |-> "no", read |-> None]

TypeOK ==
  /\ created \subseteq Ops
  /\ vault \in [Devices -> Vaults \cup {None}]
  /\ sync \in [Pages -> Syncs]
  /\ joining \in [Devices -> Joins]
  /\ members \subseteq Devices
  /\ mailbox \in [Devices -> SUBSET Messages]
  /\ lastId \in [Devices -> Nat]
  /\ checkpoint \in Replicas \cup {None}
  /\ wire \subseteq Devices \X Ops
  /\ failures \in 0..MaxFailures

EmptyReplica == [applied |-> {}, value |-> 0]

NewVault(replica, outbox) ==
  [applied |-> replica.applied, value |-> replica.value, outbox |-> outbox, cursor |-> 0]

\* Fault: the upload is taken to have succeeded.
CreateRoomUploadAssumed == [Idle EXCEPT !.stage = "forget", !.processed = {Bootstrap}]

\* createRoom has stored the room and goes on to upload the first checkpoint and
\* to remove the item that stands for it, as the end of a sync does.
CreateRoomUpload == [Idle EXCEPT !.stage = "apply", !.processed = {Bootstrap}]

\* Either the owner has just stored the room it created, or its checkpoint is
\* uploaded and the other founders have joined from it.
Init ==
  /\ created = {}
  /\ vault = [d \in Devices |->
       IF d \notin Founders THEN None
       ELSE NewVault(EmptyReplica, IF Founders = {Owner} THEN {Bootstrap} ELSE {})]
  /\ sync = [p \in Pages |->
       IF Founders = {Owner} /\ p = Creation THEN CreateRoomUpload ELSE Idle]
  /\ joining = [d \in Devices |-> NotJoining]
  /\ members = Founders
  /\ mailbox = [d \in Devices |-> {}]
  /\ lastId = [d \in Devices |-> 0]
  /\ checkpoint = IF Founders = {Owner} THEN None ELSE EmptyReplica
  /\ wire = {}
  /\ failures = 0

-----------------------------------------------------------------------------
(* The vault.                                                              *)

\* Fault: a second delivery counts again.
AppliedAgain(v, op) == [v EXCEPT !.applied = @ \cup {op}, !.value = @ + 1]

\* applyRemoteOperation: an operation counts once.
Applied(v, op) ==
  IF op \in v.applied THEN v
  ELSE [v EXCEPT !.applied = @ \cup {op}, !.value = @ + 1]

\* Fault: the stored room is uploaded as it is.
ReplicaWithOutbox(v) == v

Replica(v) == [applied |-> v.applied, value |-> v.value]

Enqueued(v, op) == [v EXCEPT !.outbox = @ \cup {op}]

\* incrementCounter and persistIncrement: the operation is applied and queued
\* in one write of the vault.
Increment(d, op) ==
  /\ vault[d] # None
  /\ op \notin created
  /\ created' = created \cup {op}
  /\ vault' = [vault EXCEPT ![d] = Enqueued(Applied(@, op), op)]
  /\ UNCHANGED <<sync, joining, server, wire, failures>>

\* A payload arrives on a data channel.
DeliverPeer(d, op) ==
  /\ <<d, op>> \in wire
  /\ vault[d] # None
  /\ vault' = [vault EXCEPT ![d] = Applied(@, op)]
  /\ wire' = wire \ {<<d, op>>}
  /\ UNCHANGED <<created, sync, joining, server, failures>>

\* A data channel closes with the payload in it.
LosePeer(d, op) ==
  /\ <<d, op>> \in wire
  /\ wire' = wire \ {<<d, op>>}
  /\ UNCHANGED <<created, vault, sync, joining, server, failures>>

-----------------------------------------------------------------------------
(* syncMailbox, one action per await.                                      *)

\* The room is read from the vault; this snapshot is what the sync works on.
SyncStart(p) ==
  /\ sync[p].stage = "idle"
  /\ vault[DeviceOf[p]] # None
  /\ sync' = [sync EXCEPT ![p] =
       [Idle EXCEPT !.stage = "devices",
                    !.processed = vault[DeviceOf[p]].outbox,
                    !.after = vault[DeviceOf[p]].cursor]]
  /\ UNCHANGED <<created, vault, joining, server, wire, failures>>

\* discoverPeer connects to the recipient whose identifier sorts first.
FirstOf(S) == {d \in S : \A e \in S : Rank[d] <= Rank[e]}

\* The members are listed, once for the whole sync; a connected peer is sent
\* some or all of the operations at once.
SyncDevices(p) ==
  LET ops == sync[p].processed \ {Bootstrap}
      recipients == members \ {DeviceOf[p]}
  IN
  /\ sync[p].stage = "devices"
  /\ sync' = [sync EXCEPT ![p].stage = "post", ![p].todo = recipients \X ops]
  /\ \E sent \in SUBSET ops : wire' = wire \cup (FirstOf(recipients) \X sent)
  /\ UNCHANGED <<created, vault, joining, server, failures>>

\* postOperation accepts the envelope.
PostOperation(p, to, op) ==
  /\ sync[p].stage = "post"
  /\ <<to, op>> \in sync[p].todo
  /\ Cardinality(mailbox[to]) < Quota
  /\ lastId' = [lastId EXCEPT ![to] = @ + 1]
  /\ mailbox' = [mailbox EXCEPT ![to] = @ \cup {[id |-> lastId[to] + 1, op |-> op]}]
  /\ sync' = [sync EXCEPT ![p].todo = @ \ {<<to, op>>}]
  /\ UNCHANGED <<created, vault, joining, members, checkpoint, wire, failures>>

\* postOperation answers 429: the whole sync ends here.
PostRefused(p, to, op) ==
  /\ sync[p].stage = "post"
  /\ <<to, op>> \in sync[p].todo
  /\ Cardinality(mailbox[to]) >= Quota
  /\ sync' = [sync EXCEPT ![p] = Idle]
  /\ UNCHANGED <<created, vault, joining, server, wire, failures>>

\* Fault: the newest entries come first.
PageNewest(d, after) ==
  LET new == {m \in mailbox[d] : m.id > after}
  IN  {m \in new : Cardinality({n \in new : n.id > m.id}) < PageSize}

\* getOperations: one page of what lies above the cursor, in id order.
Page(d, after) ==
  LET new == {m \in mailbox[d] : m.id > after}
  IN  {m \in new : Cardinality({n \in new : n.id < m.id}) < PageSize}

\* Fault: the cursor is not advanced over the page.
TopOfUnmoved(page, after) == after

\* Fault: the cursor is advanced by a whole page, however short the page was.
TopOfAhead(page, after) == after + PageSize

\* The highest id of a page, or the cursor it was read from.
TopOf(page, after) == Max({after} \cup {m.id : m \in page})

\* All posts are made; the mailbox is read from the snapshot's cursor.  With
\* nothing posted and nothing fetched the sync is over.
FetchOperations(p) ==
  LET page == Page(DeviceOf[p], sync[p].after)
      changed == sync[p].processed # {} \/ page # {}
  IN
  /\ sync[p].stage = "post"
  /\ sync[p].todo = {}
  /\ sync' = [sync EXCEPT ![p] =
       IF changed THEN [@ EXCEPT !.stage = "apply", !.inbox = page,
                                 !.top = TopOf(page, sync[p].after)]
       ELSE Idle]
  /\ UNCHANGED <<created, vault, joining, server, wire, failures>>

\* The fetched operations are applied one by one, in id order.
ApplyOperation(p, m) ==
  /\ sync[p].stage = "apply"
  /\ m \in sync[p].inbox
  /\ \A n \in sync[p].inbox : m.id <= n.id
  /\ vault' = [vault EXCEPT ![DeviceOf[p]] = Applied(@, m.op)]
  /\ sync' = [sync EXCEPT ![p].inbox = @ \ {m}]
  /\ UNCHANGED <<created, joining, server, wire, failures>>

\* encryptCheckpoint reads the vault again.
EncryptCheckpoint(p) ==
  /\ sync[p].stage = "apply"
  /\ sync[p].inbox = {}
  /\ sync' = [sync EXCEPT ![p].stage = "put", ![p].upload = Replica(vault[DeviceOf[p]])]
  /\ UNCHANGED <<created, vault, joining, server, wire, failures>>

\* putRoomCheckpoint replaces whatever checkpoint is stored.
PutCheckpoint(p) ==
  /\ sync[p].stage = "put"
  /\ checkpoint' = sync[p].upload
  /\ sync' = [sync EXCEPT ![p].stage = "forget", ![p].upload = None]
  /\ UNCHANGED <<created, vault, joining, members, mailbox, lastId, wire, failures>>

\* Fault: whatever the outbox holds by now is dropped.
WithoutAll(outbox, item) == IF item \in outbox THEN {} ELSE outbox

Without(outbox, item) == outbox \ {item}

\* removeOutboxItem, for one item of the snapshot.
ForgetItem(p, item) ==
  /\ sync[p].stage = "forget"
  /\ item \in sync[p].processed
  /\ vault' = [vault EXCEPT ![DeviceOf[p]].outbox = Without(@, item)]
  /\ sync' = [sync EXCEPT ![p].processed = @ \ {item}]
  /\ UNCHANGED <<created, joining, server, wire, failures>>

\* updateSyncCursors, if this sync has moved the cursor, and the sync is over.
SaveCursor(p) ==
  /\ sync[p].stage = "forget"
  /\ sync[p].processed = {}
  /\ vault' = IF sync[p].top = sync[p].after THEN vault
              ELSE [vault EXCEPT ![DeviceOf[p]].cursor = sync[p].top]
  /\ sync' = [sync EXCEPT ![p] = Idle]
  /\ UNCHANGED <<created, joining, server, wire, failures>>

\* A request fails, before or after the service acted on it, or the page is
\* closed: the sync ends where it is, and what it had not stored is lost.
Interrupt(p) ==
  /\ sync[p].stage # "idle"
  /\ failures < MaxFailures
  /\ failures' = failures + 1
  /\ sync' = [sync EXCEPT ![p] = Idle]
  /\ UNCHANGED <<created, vault, joining, server, wire>>

-----------------------------------------------------------------------------
(* redeemInvitation: admission, then the checkpoint, then the vault.       *)

Redeem(d) ==
  /\ joining[d].stage = "no"
  /\ vault[d] = None \/ Rejoin
  /\ members' = members \cup {d}
  /\ joining' = [joining EXCEPT ![d].stage = "admitted"]
  /\ UNCHANGED <<created, vault, sync, mailbox, lastId, checkpoint, wire, failures>>

\* getCheckpoint answers; without a checkpoint (404) the redemption fails, and
\* it is up to the user to repeat it.
ReadCheckpoint(d) ==
  /\ joining[d].stage = "admitted"
  /\ joining' = [joining EXCEPT ![d] =
       IF checkpoint = None THEN NotJoining
       ELSE [stage |-> "store", read |-> checkpoint]]
  /\ UNCHANGED <<created, vault, sync, server, wire, failures>>

\* The new room replaces the stored one, outbox included.
StoreRoom(d) ==
  /\ joining[d].stage = "store"
  /\ vault' = [vault EXCEPT ![d] = NewVault(joining[d].read, {})]
  /\ joining' = [joining EXCEPT ![d] = NotJoining]
  /\ UNCHANGED <<created, sync, server, wire, failures>>

\* The page is closed half-way; the seat stays taken.
AbandonJoin(d) ==
  /\ joining[d].stage # "no"
  /\ failures < MaxFailures
  /\ failures' = failures + 1
  /\ joining' = [joining EXCEPT ![d] = NotJoining]
  /\ UNCHANGED <<created, vault, sync, server, wire>>

-----------------------------------------------------------------------------
SyncStep(p) ==
  \/ SyncStart(p)
  \/ SyncDevices(p)
  \/ \E to \in Devices, op \in Ops : PostOperation(p, to, op) \/ PostRefused(p, to, op)
  \/ FetchOperations(p)
  \/ \E m \in sync[p].inbox : ApplyOperation(p, m)
  \/ EncryptCheckpoint(p)
  \/ PutCheckpoint(p)
  \/ \E item \in sync[p].processed : ForgetItem(p, item)
  \/ SaveCursor(p)

JoinStep(d) == Redeem(d) \/ ReadCheckpoint(d) \/ StoreRoom(d) \/ AbandonJoin(d)

Next ==
  \/ \E p \in Pages : SyncStep(p) \/ Interrupt(p)
  \/ \E d \in Devices, op \in Ops : Increment(d, op) \/ DeliverPeer(d, op) \/ LosePeer(d, op)
  \/ \E d \in Joiners : JoinStep(d)

Spec == Init /\ [][Next]_vars

\* Pages stay open: their timers start a sync every four seconds, and every
\* request is answered or fails.
Fairness == \A p \in Pages : WF_vars(SyncStep(p))

FairSpec == Spec /\ Fairness

-----------------------------------------------------------------------------
(* Properties.                                                             *)

Room == INSTANCE ReplicatedCounter WITH
  seen <- [d \in Devices |-> IF vault[d] = None THEN {} ELSE vault[d].applied],
  shown <- [d \in Devices |-> IF vault[d] = None THEN 0 ELSE vault[d].value]

\* The room is the counter it promises to be: re-posted, doubly delivered and
\* half-finished syncs never make a device count twice, forget or invent.
CountsOnce == Room!Spec

\* A saved cursor never passes over an operation that was not applied, so a
\* mailbox read from it misses nothing, whenever the sync was interrupted.
CursorSkipsNothing ==
  \A d \in Devices : vault[d] # None =>
    \A m \in mailbox[d] : m.id <= vault[d].cursor => m.op \in vault[d].applied

\* An operation on its way to d: queued by some device, or in d's mailbox
\* above its cursor.
Queued(op) == \E a \in Devices : vault[a] # None /\ op \in vault[a].outbox
Waiting(d, op) == \E m \in mailbox[d] : m.op = op /\ m.id > vault[d].cursor

\* "Edits apply locally first, then converge through the encrypted mailbox":
\* until a device has counted an operation, it can still get it.
NoOperationLost ==
  \A d \in Devices, op \in created : vault[d] # None =>
    op \in vault[d].applied \/ Queued(op) \/ Waiting(d, op)

\* Until the room has a checkpoint nobody can join it, so the owner still has
\* the upload queued, whatever request failed and wherever the page was closed.
FirstCheckpointPending == checkpoint = None => Bootstrap \in vault[Owner].outbox

\* With pages open and finitely many failures every increment is counted
\* everywhere, and the checkpoint a later joiner starts from contains it.
Converges ==
  \A op \in Ops : op \in created ~>
    [](/\ \A d \in Devices : vault[d] # None => op \in vault[d].applied
       /\ checkpoint # None /\ op \in checkpoint.applied)
=============================================================================
