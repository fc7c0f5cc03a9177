---------------------------- MODULE RoomAdmission ----------------------------
(***************************************************************************)
(* Admission to a room, as the signaling service decides it: a signed      *)
(* creator permit is exchanged for a room and its owner seat, the owner    *)
(* issues and revokes one-time invites, and devices redeem them.           *)
(*                                                                         *)
(* The service holds one SQLite connection, so each transaction and each   *)
(* single statement is one step.  createRoom verifies the permit before it *)
(* waits for the connection: verification and transaction are two steps,   *)
(* and the clock may run, or the process may restart, between them.        *)
(*                                                                         *)
(* A rejected request leaves the database as it was.  Except for the       *)
(* in-flight createRoom, which ends, a rejection is a stuttering step and  *)
(* has no action of its own.  Random identifiers are fresh values.         *)
(***************************************************************************)
EXTENDS Integers, FiniteSets

CONSTANTS
  Permits,        \* signed creator permits that have been minted
  Claims,         \* Claims[p]: the signed fields of permit p
  Creators,       \* concurrent createRoom requests the service can be running
  Rooms,          \* room identifiers
  MemberIds,      \* member identifiers
  Invites,        \* invite identifiers; the secret of invite i is named i
  Names,          \* device, identity, credential and idempotency values of clients
  Requests,       \* redemption requests that clients send
  AskedCapacity,  \* maxMembers values that clients send
  InviteTTL,      \* expiresInSeconds values that owners send
  None,           \* absence of a value
  MaxPermitTTL,   \* longest permit lifetime
  ClockSkew,      \* tolerated distance of a permit's issue time in the future
  MaxTime         \* bound on the clock

MinMembers == 2
MaxMembers == 50

\* The owner seat is inserted with random values nobody else holds.
OwnerName(r) == <<"owner", r>>

AllNames == Names \cup {OwnerName(r) : r \in Rooms}

Request == [invite : Invites, secret : Invites, device : AllNames,
            identity : AllNames, credential : AllNames, key : AllNames]

Member == [id : MemberIds, room : Rooms, device : AllNames,
           identity : AllNames, credential : AllNames, key : AllNames]

Invite == [room : Rooms, expires : Nat, revoked : BOOLEAN,
           redeemed : MemberIds \cup {None}]

ASSUME ClaimsAssumption == Claims \in [Permits -> [max : Nat, iat : Nat, exp : Nat]]
ASSUME RequestsAssumption == Requests \subseteq Request
ASSUME BoundsAssumption ==
  /\ AskedCapacity \subseteq Nat
  /\ InviteTTL \subseteq Nat \ {0}
  /\ {MaxPermitTTL, ClockSkew, MaxTime} \subseteq Nat
ASSUME NoneAssumption ==
  None \notin Permits \cup Rooms \cup MemberIds \cup Invite

VARIABLES
  now,        \* the service's clock
  creating,   \* creating[c]: the verified permit of createRoom request c
  capacity,   \* v2_rooms: max_members of a room, 0 before the room exists
  permitUse,  \* v2_creator_permit_uses: the room a permit was consumed for
  members,    \* v2_members
  invites,    \* v2_invites
  grants      \* history: the redemptions answered with success

vars == <<now, creating, capacity, permitUse, members, invites, grants>>

TypeOK ==
  /\ now \in Nat
  /\ creating \in [Creators -> Permits \cup {None}]
  /\ capacity \in [Rooms -> {0} \cup MinMembers..MaxMembers]
  /\ permitUse \in [Permits -> Rooms \cup {None}]
  /\ members \subseteq Member
  /\ invites \in [Invites -> Invite \cup {None}]
  /\ grants \subseteq [request : Requests, member : MemberIds]

Init ==
  /\ now = 0
  /\ creating = [c \in Creators |-> None]
  /\ capacity = [r \in Rooms |-> 0]
  /\ permitUse = [p \in Permits |-> None]
  /\ members = {}
  /\ invites = [i \in Invites |-> None]
  /\ grants = {}

-----------------------------------------------------------------------------
(* Room creation.                                                          *)

\* creationpermit.Verify: the signed fields are well formed, and the permit
\* is neither from the future nor expired.
Verify(p) ==
  /\ Claims[p].max \in MinMembers..MaxMembers
  /\ Claims[p].iat > 0
  /\ Claims[p].exp > Claims[p].iat
  /\ Claims[p].exp - Claims[p].iat <= MaxPermitTTL
  /\ Claims[p].iat <= now + ClockSkew
  /\ now < Claims[p].exp

DefaultedCapacity(n) == IF n = 0 THEN 2 ELSE n

\* createRoom up to db.Begin: everything decided from the request alone.
VerifyPermit(c, p, n) ==
  /\ creating[c] = None
  /\ DefaultedCapacity(n) \in MinMembers..MaxMembers
  /\ Verify(p)
  /\ Claims[p].max = DefaultedCapacity(n)
  /\ creating' = [creating EXCEPT ![c] = p]
  /\ UNCHANGED <<now, capacity, permitUse, members, invites, grants>>

\* Fault: the transaction trusts the verification made before it waited.
StillValidUnchecked(p) == p \in Permits

\* Fault: the permit use is overwritten instead of refused.
UnusedUnchecked(p) == p \in Permits

\* Checks the transaction makes again, or for the first time.
StillValid(p) == now < Claims[p].exp
Unused(p) == permitUse[p] = None

FreshMemberId(id) == \A m \in members : m.id # id

OwnerSeat(id, r) ==
  [id |-> id, room |-> r, device |-> OwnerName(r), identity |-> OwnerName(r),
   credential |-> OwnerName(r), key |-> OwnerName(r)]

\* The createRoom transaction: room, permit use and owner seat, or nothing.
CreateRoom(c, r, id) ==
  LET p == creating[c] IN
  /\ p # None
  /\ StillValid(p)
  /\ Unused(p)
  /\ capacity[r] = 0
  /\ FreshMemberId(id)
  /\ capacity' = [capacity EXCEPT ![r] = Claims[p].max]
  /\ permitUse' = [permitUse EXCEPT ![p] = r]
  /\ members' = members \cup {OwnerSeat(id, r)}
  /\ creating' = [creating EXCEPT ![c] = None]
  /\ UNCHANGED <<now, invites, grants>>

\* The transaction is rolled back: 403 creator_permit_expired or 409
\* creator_permit_used.
RefuseRoom(c) ==
  /\ creating[c] # None
  /\ ~StillValid(creating[c]) \/ ~Unused(creating[c])
  /\ creating' = [creating EXCEPT ![c] = None]
  /\ UNCHANGED <<now, capacity, permitUse, members, invites, grants>>

-----------------------------------------------------------------------------
(* Invites.                                                                *)

IssueInvite(i, r, ttl) ==
  /\ capacity[r] # 0
  /\ invites[i] = None
  /\ invites' = [invites EXCEPT ![i] =
       [room |-> r, expires |-> now + ttl, revoked |-> FALSE, redeemed |-> None]]
  /\ UNCHANGED <<now, creating, capacity, permitUse, members, grants>>

RevokeInvite(i) ==
  /\ invites[i] # None
  /\ invites' = [invites EXCEPT ![i].revoked = TRUE]
  /\ UNCHANGED <<now, creating, capacity, permitUse, members, grants>>

\* The checks every redemption passes first: 404, 403 and 410 answers.
Redeemable(q) ==
  /\ invites[q.invite] # None
  /\ q.secret = q.invite
  /\ ~invites[q.invite].revoked
  /\ now < invites[q.invite].expires

\* findMemberForRedemption reads any one of these (LIMIT 1, no order).
Matching(q) ==
  {m \in members : /\ m.room = invites[q.invite].room
                   /\ m.identity = q.identity \/ m.key = q.key}

\* Fault: a matching identity or key is enough.
OwnsUnchecked(q, m) == q \in Requests /\ m \in members

Owns(q, m) == m.device = q.device /\ m.credential = q.credential

Grant(q, id) == grants' = grants \cup {[request |-> q, member |-> id]}

\* Fault: any member may retry a redeemed invite.
RedeemedByAnyone(q, m) == m \in members /\ invites[q.invite].redeemed # None

RedeemedBy(q, m) == invites[q.invite].redeemed = m.id

\* The invite was redeemed before, by this very member: 200.
Reconnect(q, m) ==
  /\ Redeemable(q)
  /\ m \in Matching(q)
  /\ RedeemedBy(q, m)
  /\ Owns(q, m)
  /\ Grant(q, m.id)
  /\ UNCHANGED <<now, creating, capacity, permitUse, members, invites>>

\* An unused invite redeemed by a device that already has a seat: 200.
AttachToMember(q, m) ==
  /\ Redeemable(q)
  /\ m \in Matching(q)
  /\ invites[q.invite].redeemed = None
  /\ Owns(q, m)
  /\ invites' = [invites EXCEPT ![q.invite].redeemed = m.id]
  /\ Grant(q, m.id)
  /\ UNCHANGED <<now, creating, capacity, permitUse, members>>

Seats(r) == {m \in members : m.room = r}

\* Fault: off by one.
HasFreeSeatInclusive(r) == Cardinality(Seats(r)) <= capacity[r]

HasFreeSeat(r) == Cardinality(Seats(r)) < capacity[r]

\* The four UNIQUE constraints of v2_members; a clash answers 409.
NoClash(m) ==
  \A n \in Seats(m.room) :
    /\ n.device # m.device
    /\ n.identity # m.identity
    /\ n.credential # m.credential
    /\ n.key # m.key

\* Fault: two columns of the INSERT are swapped.
SeatForSwapped(q, id) ==
  [id |-> q.device, room |-> invites[q.invite].room, device |-> id,
   identity |-> q.identity, credential |-> q.credential, key |-> q.key]

SeatFor(q, id) ==
  [id |-> id, room |-> invites[q.invite].room, device |-> q.device,
   identity |-> q.identity, credential |-> q.credential, key |-> q.key]

\* An unused invite redeemed by a new device: 201.
Admit(q, id) ==
  /\ Redeemable(q)
  /\ invites[q.invite].redeemed = None
  /\ Matching(q) = {}
  /\ HasFreeSeat(invites[q.invite].room)
  /\ FreshMemberId(id)
  /\ NoClash(SeatFor(q, id))
  /\ members' = members \cup {SeatFor(q, id)}
  /\ invites' = [invites EXCEPT ![q.invite].redeemed = id]
  /\ Grant(q, id)
  /\ UNCHANGED <<now, creating, capacity, permitUse>>

-----------------------------------------------------------------------------
(* The environment: time passes, and the process restarts on the same      *)
(* database, losing the requests it was serving.                           *)

Tick ==
  /\ now < MaxTime
  /\ now' = now + 1
  /\ UNCHANGED <<creating, capacity, permitUse, members, invites, grants>>

Restart ==
  /\ creating' = [c \in Creators |-> None]
  /\ UNCHANGED <<now, capacity, permitUse, members, invites, grants>>

Next ==
  \/ \E c \in Creators, p \in Permits, n \in AskedCapacity : VerifyPermit(c, p, n)
  \/ \E c \in Creators, r \in Rooms, id \in MemberIds : CreateRoom(c, r, id)
  \/ \E c \in Creators : RefuseRoom(c)
  \/ \E i \in Invites, r \in Rooms, ttl \in InviteTTL : IssueInvite(i, r, ttl)
  \/ \E i \in Invites : RevokeInvite(i)
  \/ \E q \in Requests, m \in members : Reconnect(q, m)
  \/ \E q \in Requests, m \in members : AttachToMember(q, m)
  \/ \E q \in Requests, id \in MemberIds : Admit(q, id)
  \/ Tick
  \/ Restart

Spec == Init /\ [][Next]_vars

-----------------------------------------------------------------------------
(* Properties.                                                             *)

\* However redemptions of several invites interleave, a room never holds more
\* durable members than the capacity its creator paid for with the permit.
RoomCapacity == \A r \in Rooms : Cardinality(Seats(r)) <= capacity[r]

\* Room, permit use and owner seat appear together: every room was paid for by
\* exactly one permit of its capacity, and has its owner's seat; a permit
\* submitted by two concurrent requests, or across a restart, buys one room.
PermitBuysOneRoom ==
  /\ \A p \in Permits : permitUse[p] # None => capacity[permitUse[p]] = Claims[p].max
  /\ \A p, q \in Permits : permitUse[p] = permitUse[q] /\ permitUse[p] # None => p = q
  /\ \A r \in Rooms : capacity[r] # 0 =>
       /\ \E p \in Permits : permitUse[p] = r
       /\ \E m \in members : m.room = r /\ m.device = OwnerName(r)

\* A permit that was verified in time but waited for the database is not
\* consumed once it has expired.
PermitConsumedInTime ==
  [][\A p \in Permits :
       permitUse[p] = None /\ permitUse'[p] # None => now < Claims[p].exp]_vars

\* An invite is one-time: all successful redemptions of it, first use and
\* retries, name the same member, and that member is the one on record.
InviteAdmitsOneMember ==
  \A g \in grants :
    /\ invites[g.request.invite] # None
    /\ invites[g.request.invite].redeemed = g.member

\* A successful answer never gives a caller somebody else's seat: the member
\* it names sits in the invite's room and has the caller's device and credential.
SeatBelongsToCaller ==
  \A g \in grants : \E m \in members :
    /\ m.id = g.member
    /\ m.room = invites[g.request.invite].room
    /\ m.device = g.request.device
    /\ m.credential = g.request.credential

\* "A retry by the same device returns the same member": a device that was
\* admitted can repeat its request, because the answer may have been lost.
RetryReturnsMember ==
  \A g \in grants :
    /\ Redeemable(g.request)
    /\ \E m \in Matching(g.request) : m.id = g.member /\ Owns(g.request, m)
=============================================================================
