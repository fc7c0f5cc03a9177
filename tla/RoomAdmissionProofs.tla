------------------------- MODULE RoomAdmissionProofs -------------------------
(***************************************************************************)
(* The safety properties of RoomAdmission, proved for any number of        *)
(* permits, rooms, invites, members and concurrent requests.               *)
(***************************************************************************)
EXTENDS RoomAdmission, FiniteSetTheorems, TLAPS

USE DEF MinMembers, MaxMembers

-----------------------------------------------------------------------------
(* Types.  The capacity written by createRoom is the permit's, so its range *)
(* depends on the verification of the request that is still in flight.      *)

InFlightVerified ==
  \A c \in Creators : creating[c] # None =>
    Claims[creating[c]].max \in MinMembers..MaxMembers

Typed == TypeOK /\ InFlightVerified

\* Every row keeps its type, and a request in flight holds a verified permit.
THEOREM TypedInvariant == Spec => []Typed
<1>1. Init => Typed
  BY NoneAssumption DEF Init, Typed, TypeOK, InFlightVerified
<1>2. Typed /\ [Next]_vars => Typed'
  <2> SUFFICES ASSUME Typed, [Next]_vars PROVE Typed'
    OBVIOUS
  <2> USE NoneAssumption, BoundsAssumption, ClaimsAssumption, RequestsAssumption
      DEF Typed, TypeOK, InFlightVerified
  <2>1. ASSUME NEW c \in Creators, NEW p \in Permits, NEW n \in AskedCapacity,
               VerifyPermit(c, p, n)
        PROVE  Typed'
    BY <2>1 DEF VerifyPermit, Verify
  <2>2. ASSUME NEW c \in Creators, NEW r \in Rooms, NEW id \in MemberIds,
               CreateRoom(c, r, id)
        PROVE  Typed'
    <3>1. creating[c] \in Permits /\ Claims[creating[c]].max \in 2..50
      BY <2>2 DEF CreateRoom
    <3>2. OwnerSeat(id, r) \in Member
      BY DEF OwnerSeat, Member, AllNames
    <3> QED
      BY <2>2, <3>1, <3>2 DEF CreateRoom
  <2>3. ASSUME NEW c \in Creators, RefuseRoom(c) PROVE Typed'
    BY <2>3 DEF RefuseRoom
  <2>4. ASSUME NEW i \in Invites, NEW r \in Rooms, NEW ttl \in InviteTTL,
               IssueInvite(i, r, ttl)
        PROVE  Typed'
    BY <2>4 DEF IssueInvite, Invite
  <2>5. ASSUME NEW i \in Invites, RevokeInvite(i) PROVE Typed'
    BY <2>5 DEF RevokeInvite, Invite
  <2>6. ASSUME NEW q \in Requests, NEW m \in members, Reconnect(q, m) PROVE Typed'
    BY <2>6 DEF Reconnect, Grant, Member
  <2>7. ASSUME NEW q \in Requests, NEW m \in members, AttachToMember(q, m)
        PROVE  Typed'
    <3>1. invites[q.invite] \in Invite /\ m.id \in MemberIds
      BY <2>7 DEF AttachToMember, Redeemable, Member, Request
    <3>2. [invites[q.invite] EXCEPT !.redeemed = m.id] \in Invite
      BY <3>1 DEF Invite
    <3>3. invites' \in [Invites -> Invite \cup {None}]
      BY <2>7, <3>2 DEF AttachToMember
    <3>4. grants' \subseteq [request : Requests, member : MemberIds]
      BY <2>7, <3>1 DEF AttachToMember, Grant
    <3> QED
      BY <2>7, <3>3, <3>4 DEF AttachToMember
  <2>8. ASSUME NEW q \in Requests, NEW id \in MemberIds, Admit(q, id) PROVE Typed'
    <3>1. invites[q.invite] \in Invite /\ q \in Request
      BY <2>8 DEF Admit, Redeemable, Request
    <3>2. SeatFor(q, id) \in Member
      BY <3>1 DEF SeatFor, Member, Request, Invite
    <3>3. [invites[q.invite] EXCEPT !.redeemed = id] \in Invite
      BY <3>1 DEF Invite
    <3>4. invites' \in [Invites -> Invite \cup {None}]
      BY <2>8, <3>3 DEF Admit
    <3>5. grants' \subseteq [request : Requests, member : MemberIds]
      BY <2>8 DEF Admit, Grant
    <3>6. members' \subseteq Member
      BY <2>8, <3>2 DEF Admit
    <3> QED
      BY <2>8, <3>4, <3>5, <3>6 DEF Admit
  <2>9. CASE Tick
    BY <2>9 DEF Tick
  <2>10. CASE Restart
    BY <2>10 DEF Restart
  <2>11. CASE UNCHANGED vars
    BY <2>11 DEF vars
  <2> QED
    BY <2>1, <2>2, <2>3, <2>4, <2>5, <2>6, <2>7, <2>8, <2>9, <2>10, <2>11 DEF Next
<1> QED
  BY <1>1, <1>2, PTL DEF Spec

\* The type invariant the runs check.
COROLLARY TypeCorrect == Spec => []TypeOK
BY TypedInvariant, PTL DEF Typed

-----------------------------------------------------------------------------
(* Capacity.  The count that Admit compares is taken in the transaction    *)
(* that inserts the seat, so only the two inserting actions matter, and    *)
(* each of them adds one member.                                           *)

Bounded == IsFiniteSet(members) /\ RoomCapacity

\* Adding one member raises the count of its own room by at most one and no other.
LEMMA SeatsAfterInsert ==
  ASSUME NEW m \in Member, IsFiniteSet(members), members' = members \cup {m},
         NEW r \in Rooms
  PROVE  /\ IsFiniteSet(members')
         /\ Cardinality(Seats(r)) \in Nat
         /\ m.room # r => Seats(r)' = Seats(r)
         /\ Cardinality(Seats(r)') <= Cardinality(Seats(r)) + 1
<1>1. IsFiniteSet(members')
  BY FS_AddElement
<1>2. IsFiniteSet(Seats(r)) /\ Cardinality(Seats(r)) \in Nat
  <2>1. Seats(r) \subseteq members
    BY DEF Seats
  <2> QED
    BY <2>1, FS_Subset, FS_CardinalityType
<1>3. CASE m.room = r
  <2>1. Seats(r)' = Seats(r) \cup {m}
    BY <1>3 DEF Seats
  <2>2. Cardinality(Seats(r) \cup {m}) <= Cardinality(Seats(r)) + 1
    <3>1. Cardinality(Seats(r) \cup {m})
            = IF m \in Seats(r) THEN Cardinality(Seats(r)) ELSE Cardinality(Seats(r)) + 1
      BY <1>2, FS_AddElement, Zenon
    <3> QED
      BY <1>2, <3>1
  <2>3. Cardinality(Seats(r)') <= Cardinality(Seats(r)) + 1
    BY <2>1, <2>2
  <2> QED
    BY <1>1, <1>2, <1>3, <2>3
<1>4. CASE m.room # r
  <2>1. Seats(r)' = Seats(r)
    BY <1>4 DEF Seats
  <2>2. Cardinality(Seats(r)') = Cardinality(Seats(r))
    BY <2>1
  <2> QED
    BY <1>1, <1>2, <2>1, <2>2
<1> QED
  BY <1>3, <1>4

\* However redemptions interleave, a room never holds more members than its capacity.
THEOREM CapacityHolds == Spec => []RoomCapacity
<1>1. Init => Bounded
  <2> SUFFICES ASSUME Init PROVE Bounded
    OBVIOUS
  <2>1. IsFiniteSet(members)
    BY FS_EmptySet DEF Init
  <2>2. ASSUME NEW r \in Rooms PROVE Cardinality(Seats(r)) <= capacity[r]
    <3>1. Seats(r) = {} /\ capacity[r] = 0
      BY DEF Init, Seats
    <3>2. Cardinality(Seats(r)) = 0
      BY <3>1, FS_EmptySet
    <3> QED
      BY <3>1, <3>2
  <2> QED
    BY <2>1, <2>2 DEF Bounded, RoomCapacity
<1>2. Typed /\ Bounded /\ [Next]_vars => Bounded'
  <2> SUFFICES ASSUME Typed, Bounded, [Next]_vars PROVE Bounded'
    OBVIOUS
  <2>0. ASSUME UNCHANGED <<members, capacity>> PROVE Bounded'
    BY <2>0 DEF Bounded, RoomCapacity, Seats
  <2>1. ASSUME NEW c \in Creators, NEW r \in Rooms, NEW id \in MemberIds,
               CreateRoom(c, r, id)
        PROVE  Bounded'
    <3>1. /\ OwnerSeat(id, r) \in Member
          /\ OwnerSeat(id, r).room = r
      BY DEF OwnerSeat, Member, AllNames
    <3>2. /\ creating[c] \in Permits
          /\ Claims[creating[c]].max \in 2..50
          /\ capacity[r] = 0
          /\ capacity' = [capacity EXCEPT ![r] = Claims[creating[c]].max]
          /\ members' = members \cup {OwnerSeat(id, r)}
      BY <2>1 DEF CreateRoom, Typed, TypeOK, InFlightVerified
    <3>3. \A s \in Rooms : capacity[s] \in Nat
      BY DEF Typed, TypeOK
    <3>4. ASSUME NEW s \in Rooms PROVE Cardinality(Seats(s)') <= capacity'[s]
      <4>1. Cardinality(Seats(s)) \in Nat /\ Cardinality(Seats(s)) <= capacity[s]
        BY <3>1, <3>2, SeatsAfterInsert DEF Bounded, RoomCapacity
      <4>2. CASE s = r
        <5>1. capacity'[s] >= 2 /\ capacity'[s] \in Nat
          BY <3>2, <4>2 DEF Typed, TypeOK
        <5>2. /\ Cardinality(Seats(s)) = 0
              /\ Cardinality(Seats(s)') <= Cardinality(Seats(s)) + 1
          BY <3>1, <3>2, <4>1, <4>2, SeatsAfterInsert DEF Bounded
        <5>3. IsFiniteSet(Seats(s)')
          BY <3>1, <3>2, SeatsAfterInsert, FS_Subset DEF Bounded, Seats
        <5> QED
          BY <5>1, <5>2, <5>3, FS_CardinalityType
      <4>3. CASE s # r
        <5>1. Seats(s)' = Seats(s)
          BY <3>1, <3>2, <4>3, SeatsAfterInsert DEF Bounded
        <5> QED
          BY <3>2, <4>1, <4>3, <5>1 DEF Typed, TypeOK
      <4> QED
        BY <4>2, <4>3
    <3> QED
      BY <3>1, <3>2, <3>4, FS_AddElement DEF Bounded, RoomCapacity
  <2>2. ASSUME NEW q \in Requests, NEW id \in MemberIds, Admit(q, id) PROVE Bounded'
    <3> DEFINE room == invites[q.invite].room
    <3>1. invites[q.invite] \in Invite /\ q \in Request
      BY <2>2, RequestsAssumption DEF Admit, Redeemable, Request, Typed, TypeOK
    <3>2. SeatFor(q, id) \in Member /\ SeatFor(q, id).room = room
      BY <3>1 DEF SeatFor, Member, Request, Invite
    <3>3. /\ members' = members \cup {SeatFor(q, id)}
          /\ Cardinality(Seats(room)) < capacity[room]
          /\ capacity' = capacity
      BY <2>2 DEF Admit, HasFreeSeat
    <3>4. ASSUME NEW s \in Rooms PROVE Cardinality(Seats(s)') <= capacity'[s]
      <4>1. /\ Cardinality(Seats(s)) \in Nat
            /\ Cardinality(Seats(s)) <= capacity[s]
            /\ capacity[s] \in Nat
        BY <3>2, <3>3, SeatsAfterInsert DEF Bounded, RoomCapacity, Typed, TypeOK
      <4>2. CASE s = room
        <5>1. Cardinality(Seats(s)') <= Cardinality(Seats(s)) + 1
          BY <3>2, <3>3, SeatsAfterInsert DEF Bounded
        <5>2. IsFiniteSet(Seats(s)')
          BY <3>2, <3>3, SeatsAfterInsert, FS_Subset DEF Bounded, Seats
        <5>3. Cardinality(Seats(s)') \in Nat
          BY <5>2, FS_CardinalityType
        <5> QED
          BY <3>3, <4>1, <4>2, <5>1, <5>3
      <4>3. CASE s # room
        BY <3>2, <3>3, <4>1, <4>3, SeatsAfterInsert DEF Bounded
      <4> QED
        BY <4>2, <4>3
    <3> QED
      BY <3>2, <3>3, <3>4, FS_AddElement DEF Bounded, RoomCapacity
  <2> QED
    BY <2>0, <2>1, <2>2
       DEF Next, vars, VerifyPermit, RefuseRoom, IssueInvite, RevokeInvite,
           Reconnect, AttachToMember, Tick, Restart
<1>3. Bounded => RoomCapacity
  BY DEF Bounded
<1> QED
  BY <1>1, <1>2, <1>3, TypedInvariant, PTL DEF Spec

-----------------------------------------------------------------------------
(* Permits.  A room without a permit has capacity 0, and a consumed permit *)
(* names a room that exists; that is why the fresh room of createRoom is    *)
(* named by no other permit.                                               *)

UsedPermitsWellFormed ==
  \A p \in Permits : permitUse[p] # None => Claims[p].max # 0

PermitInv == PermitBuysOneRoom /\ UsedPermitsWellFormed

\* A permit buys one room, of its capacity, with an owner seat; no room exists without.
THEOREM PermitsHold == Spec => []PermitBuysOneRoom
<1>1. Init => PermitInv
  BY DEF Init, PermitInv, PermitBuysOneRoom, UsedPermitsWellFormed
<1>2. Typed /\ PermitInv /\ [Next]_vars => PermitInv'
  <2> SUFFICES ASSUME Typed, PermitInv, [Next]_vars PROVE PermitInv'
    OBVIOUS
  <2> USE DEF PermitInv, PermitBuysOneRoom, UsedPermitsWellFormed
  <2>1. ASSUME UNCHANGED <<permitUse, capacity>>, members \subseteq members'
        PROVE  PermitInv'
    BY <2>1
  <2>2. ASSUME NEW c \in Creators, NEW r \in Rooms, NEW id \in MemberIds,
               CreateRoom(c, r, id)
        PROVE  PermitInv'
    <3> DEFINE p == creating[c]
    <3>1. /\ p \in Permits /\ Claims[p].max \in 2..50
          /\ permitUse[p] = None
          /\ capacity[r] = 0
          /\ capacity' = [capacity EXCEPT ![r] = Claims[p].max]
          /\ permitUse' = [permitUse EXCEPT ![p] = r]
          /\ members' = members \cup {OwnerSeat(id, r)}
      BY <2>2 DEF CreateRoom, Unused, Typed, TypeOK, InFlightVerified
    <3>2. \A q \in Permits : permitUse[q] # r
      BY <3>1, NoneAssumption DEF Typed, TypeOK
    <3>3. OwnerSeat(id, r).room = r /\ OwnerSeat(id, r).device = OwnerName(r)
      BY DEF OwnerSeat
    <3> QED
      BY <3>1, <3>2, <3>3, NoneAssumption DEF Typed, TypeOK
  <2> QED
    BY <2>1, <2>2
       DEF Next, vars, VerifyPermit, RefuseRoom, IssueInvite, RevokeInvite,
           Reconnect, AttachToMember, Admit, Tick, Restart
<1>3. PermitInv => PermitBuysOneRoom
  BY DEF PermitInv
<1> QED
  BY <1>1, <1>2, <1>3, TypedInvariant, PTL DEF Spec

\* A permit that expired while the request waited for the database is not consumed.
THEOREM PermitsExpire == Spec => PermitConsumedInTime
<1>1. Typed /\ [Next]_vars =>
        [\A p \in Permits :
           permitUse[p] = None /\ permitUse'[p] # None => now < Claims[p].exp]_vars
  <2> SUFFICES ASSUME Typed, [Next]_vars, NEW p \in Permits,
                      permitUse[p] = None, permitUse'[p] # None
               PROVE  now < Claims[p].exp
    OBVIOUS
  <2>1. ASSUME NEW c \in Creators, NEW r \in Rooms, NEW id \in MemberIds,
               CreateRoom(c, r, id)
        PROVE  now < Claims[p].exp
    BY <2>1 DEF CreateRoom, StillValid, Typed, TypeOK
  <2> QED
    BY <2>1
       DEF Next, vars, VerifyPermit, RefuseRoom, IssueInvite, RevokeInvite,
           Reconnect, AttachToMember, Admit, Tick, Restart
<1> QED
  BY <1>1, TypedInvariant, PTL DEF Spec, PermitConsumedInTime

-----------------------------------------------------------------------------
(* Invites.                                                                *)

\* All successful redemptions of an invite name the one member on record.
THEOREM InvitesAreOneTime == Spec => []InviteAdmitsOneMember
<1>1. Init => InviteAdmitsOneMember
  BY DEF Init, InviteAdmitsOneMember
<1>2. Typed /\ InviteAdmitsOneMember /\ [Next]_vars => InviteAdmitsOneMember'
  <2> SUFFICES ASSUME Typed, InviteAdmitsOneMember, [Next]_vars
               PROVE  InviteAdmitsOneMember'
    OBVIOUS
  <2> USE RequestsAssumption, NoneAssumption DEF InviteAdmitsOneMember, Typed, TypeOK
  <2>1. ASSUME UNCHANGED <<invites, grants>> PROVE InviteAdmitsOneMember'
    BY <2>1
  <2>2. ASSUME NEW i \in Invites, NEW r \in Rooms, NEW ttl \in InviteTTL,
               IssueInvite(i, r, ttl)
        PROVE  InviteAdmitsOneMember'
    BY <2>2 DEF IssueInvite
  <2>3. ASSUME NEW i \in Invites, RevokeInvite(i) PROVE InviteAdmitsOneMember'
    <3>1. /\ invites[i] \in Invite /\ invites' \in [Invites -> Invite \cup {None}]
          /\ invites'[i] \in Invite
          /\ invites'[i].redeemed = invites[i].redeemed
          /\ \A j \in Invites \ {i} : invites'[j] = invites[j]
          /\ grants' = grants
      BY <2>3 DEF RevokeInvite, Invite
    <3>2. \A g \in grants : g.request.invite \in Invites
      BY DEF Request
    <3> QED
      BY <3>1, <3>2
  <2>4. ASSUME NEW q \in Requests, NEW m \in members, Reconnect(q, m)
        PROVE  InviteAdmitsOneMember'
    BY <2>4 DEF Reconnect, Redeemable, RedeemedBy, Grant
  <2>5. ASSUME NEW q \in Requests, NEW id \in MemberIds,
               invites[q.invite] # None, invites[q.invite].redeemed = None,
               invites' = [invites EXCEPT ![q.invite].redeemed = id], Grant(q, id)
        PROVE  InviteAdmitsOneMember'
    <3>1. q.invite \in Invites /\ invites[q.invite] \in Invite
      BY <2>5 DEF Request
    <3>2. \A g \in grants : g.request.invite # q.invite
      BY <2>5
    <3>3. /\ invites'[q.invite].redeemed = id
          /\ invites'[q.invite] \in Invite
          /\ \A i \in Invites \ {q.invite} : invites'[i] = invites[i]
      BY <2>5, <3>1 DEF Invite
    <3>4. ASSUME NEW g \in grants' PROVE
             /\ invites'[g.request.invite] # None
             /\ invites'[g.request.invite].redeemed = g.member
      <4>1. CASE g \in grants
        <5>1. g.request.invite \in Invites \ {q.invite}
          BY <3>2, <4>1 DEF Request
        <5> QED
          BY <4>1, <5>1, <3>3
      <4>2. CASE g = [request |-> q, member |-> id]
        BY <4>2, <3>3
      <4> QED
        BY <4>1, <4>2, <2>5 DEF Grant
    <3> QED
      BY <3>4
  <2>6. ASSUME NEW q \in Requests, NEW m \in members, AttachToMember(q, m)
        PROVE  InviteAdmitsOneMember'
    BY <2>5, <2>6 DEF AttachToMember, Redeemable, Member
  <2>7. ASSUME NEW q \in Requests, NEW id \in MemberIds, Admit(q, id)
        PROVE  InviteAdmitsOneMember'
    BY <2>5, <2>7 DEF Admit, Redeemable
  <2> QED
    BY <2>1, <2>2, <2>3, <2>4, <2>6, <2>7
       DEF Next, vars, VerifyPermit, CreateRoom, RefuseRoom, Tick, Restart
<1> QED
  BY <1>1, <1>2, TypedInvariant, PTL DEF Spec

\* A successful redemption names a seat of the invite's room that has the
\* caller's device and credential, for as long as the service runs.
THEOREM SeatsAreNotHandedOver == Spec => []SeatBelongsToCaller
<1>1. Init => SeatBelongsToCaller
  BY DEF Init, SeatBelongsToCaller
<1>2. Typed /\ InviteAdmitsOneMember /\ SeatBelongsToCaller /\ [Next]_vars
        => SeatBelongsToCaller'
  <2> SUFFICES ASSUME Typed, InviteAdmitsOneMember, SeatBelongsToCaller, [Next]_vars
               PROVE  SeatBelongsToCaller'
    OBVIOUS
  <2> USE RequestsAssumption, NoneAssumption
      DEF SeatBelongsToCaller, InviteAdmitsOneMember, Owns, Typed, TypeOK
  <2>1. ASSUME members \subseteq members', grants' = grants,
               \A g \in grants : invites'[g.request.invite].room
                                   = invites[g.request.invite].room
        PROVE  SeatBelongsToCaller'
    BY <2>1
  <2>2. ASSUME NEW i \in Invites, NEW r \in Rooms, NEW ttl \in InviteTTL,
               IssueInvite(i, r, ttl)
        PROVE  SeatBelongsToCaller'
    BY <2>1, <2>2 DEF IssueInvite
  <2>3. ASSUME NEW i \in Invites, RevokeInvite(i) PROVE SeatBelongsToCaller'
    BY <2>1, <2>3 DEF RevokeInvite, Invite
  <2>4. ASSUME NEW q \in Requests, NEW m \in members', Grant(q, m.id),
               members \subseteq members',
               m.room = invites[q.invite].room, Owns(q, m),
               \A j \in Invites : invites[j] # None =>
                 invites'[j].room = invites[j].room,
               invites[q.invite] # None
        PROVE  SeatBelongsToCaller'
    <3>1. ASSUME NEW g \in grants' PROVE
             \E n \in members' : /\ n.id = g.member
                                 /\ n.room = invites'[g.request.invite].room
                                 /\ n.device = g.request.device
                                 /\ n.credential = g.request.credential
      <4>1. CASE g \in grants
        BY <2>4, <4>1 DEF Request
      <4>2. CASE g = [request |-> q, member |-> m.id]
        BY <2>4, <4>2 DEF Request
      <4> QED
        BY <2>4, <4>1, <4>2 DEF Grant
    <3> QED
      BY <3>1
  <2>5. ASSUME NEW q \in Requests, NEW m \in members, Reconnect(q, m)
        PROVE  SeatBelongsToCaller'
    BY <2>4, <2>5 DEF Reconnect, Redeemable, Matching
  <2>6. ASSUME NEW q \in Requests, NEW id,
               invites' = [invites EXCEPT ![q.invite].redeemed = id],
               invites[q.invite] # None
        PROVE  \A j \in Invites : invites[j] # None => invites'[j].room = invites[j].room
    BY <2>6 DEF Invite, Request
  <2>7. ASSUME NEW q \in Requests, NEW m \in members, AttachToMember(q, m)
        PROVE  SeatBelongsToCaller'
    BY <2>4, <2>6, <2>7 DEF AttachToMember, Redeemable, Matching
  <2>8. ASSUME NEW q \in Requests, NEW id \in MemberIds, Admit(q, id)
        PROVE  SeatBelongsToCaller'
    <3>1. /\ SeatFor(q, id) \in members'
          /\ SeatFor(q, id).id = id
          /\ SeatFor(q, id).room = invites[q.invite].room
          /\ Owns(q, SeatFor(q, id))
      BY <2>8 DEF Admit, SeatFor
    <3> QED
      BY <2>4, <2>6, <2>8, <3>1 DEF Admit, Redeemable
  <2> QED
    BY <2>1, <2>2, <2>3, <2>5, <2>7, <2>8
       DEF Next, vars, VerifyPermit, CreateRoom, RefuseRoom, Tick, Restart
<1> QED
  BY <1>1, <1>2, TypedInvariant, InvitesAreOneTime, PTL DEF Spec
=============================================================================
