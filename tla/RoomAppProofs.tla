---------------------------- MODULE RoomAppProofs ----------------------------
(***************************************************************************)
(* The safety properties of RoomApp, proved for any number of permits,     *)
(* invitations, rooms, slots, attempts, clicks, increments and faults.     *)
(***************************************************************************)
EXTENDS RoomApp, Sequences, TLAPS

-----------------------------------------------------------------------------
(* The home page and the page an invitation opens.  The properties speak of *)
(* pages at rest; the invariant says of every state what a call that is     *)
(* still on its way will bring.                                             *)

\* The page that is mounted has a state, and no other page has.
OnePage == (home # None <=> page = "home") /\ (join # None <=> page = "join")

\* A call that still shows its outcome belongs to the page that is mounted.
AliveOnPage ==
    \A s \in Slots : call[s] # None /\ call[s].alive =>
        /\ Entry!Creates(s) => page = "home"
        /\ Entry!Joins(s) => page = "join"

\* One that no longer does was left behind, which is remembered.
LeftCalls == \A s \in Slots : call[s] # None /\ ~call[s].alive => left

\* The stages of a creation after its permit was consumed, and after its room was stored.
Paid == {"setup", "store", "upload", "done", "queued"}
Kept == {"upload", "done", "queued"}

\* A room is stored before its package is uploaded.
StoredFirst ==
    \A s \in Slots : Entry!Creates(s) /\ call[s].stage \in Kept => call[s].room \in vault

\* A permit of the session that has been consumed belongs to a creation that goes on.
SpentInUse ==
    session \in used \ excused =>
        \E s \in Slots : Entry!Creates(s) /\ call[s].room = session /\ call[s].stage \in Paid

\* The home page offers the permit of the session, and as many seats as it allows.
Offers ==
    home # None /\ ~left =>
        /\ home.permit = session
        /\ home.permit # None => home.seats = Entry!Seats(home.permit)

\* Rooms that are stored, and that the home page will add to its list.
Coming == {r \in Permits \cup Invites : \E s \in Slots :
              Entry!Creates(s) /\ call[s].room = r /\ call[s].stage \in Kept}

\* Every room of the vault is in the list of the home page, in the list it has read and not
\* shown yet, or is about to be added.
Lists ==
    home # None =>
        /\ home.rooms \subseteq vault
        /\ home.read # None => home.loading /\ home.read \subseteq vault
        /\ ~left /\ home.read # None => vault \subseteq home.read \cup home.rooms \cup Coming
        /\ ~left /\ ~home.loading /\ ~overwritten => vault \subseteq home.rooms \cup Coming

\* The form is there only with a permit.
FormHasPermit == home # None /\ home.form => home.permit # None

\* The inductive invariant of the entry pages: the types and the rest.
EntryInv ==
    /\ Entry!TypeOK /\ OnePage /\ AliveOnPage /\ LeftCalls /\ StoredFirst
    /\ FormHasPermit /\ SpentInUse /\ Offers /\ Lists /\ Entry!ButtonsComeBack

\* A page that takes values of their types in some of its fields stays typed.
LEMMA HomeFresh ==
  ASSUME session \in Permits \cup {None}
  PROVE  Entry!HomePage \in Entry!Home
BY NoneIsNoValue DEF Entry!HomePage, Entry!Home, Entry!Seats

\* A page that is mounted is not None.
LEMMA JoinIsSomething == \A j \in Entry!Join : j # None
BY NoneIsNoValue

\* A call that moves on keeps its room and its page.
MovedTo(s, reached) ==
    /\ call' \in [Slots -> Entry!Call \cup {None}]
    /\ \A t \in Slots \ {s} : call'[t] = call[t]
    /\ call'[s] # None /\ call'[s].room = call[s].room /\ call'[s].alive = call[s].alive
    /\ call'[s].stage = reached

\* What moving a call on leaves alone.
LEMMA CallMoves ==
  ASSUME Entry!TypeOK, NEW s \in Slots, call[s] # None,
         NEW reached \in {"request", "setup", "store", "upload", "done", "queued", "failed",
                        "used", "expired"},
         Entry!Move(s, reached)
  PROVE  MovedTo(s, reached)
<1>1. call[s] \in Entry!Call /\ call \in [Slots -> Entry!Call \cup {None}] BY DEF Entry!TypeOK
<1>2. call' = [call EXCEPT ![s].stage = reached] BY DEF Entry!Move
<1>3. call'[s] \in Entry!Call BY <1>1, <1>2 DEF Entry!Call, Entry!Refusals
<1>4. call'[s] # None BY <1>3, NoneIsNoValue
<1>5. call'[s] = [call[s] EXCEPT !.stage = reached] /\ \A t \in Slots \ {s} : call'[t] = call[t]
  BY <1>1, <1>2
<1>6. call' \in [Slots -> Entry!Call \cup {None}] BY <1>1, <1>2, <1>3
<1>7. call'[s].room = call[s].room /\ call'[s].alive = call[s].alive /\ call'[s].stage = reached
  BY <1>1, <1>5 DEF Entry!Call
<1> QED BY <1>4, <1>5, <1>6, <1>7 DEF MovedTo

\* Leaving a page keeps its calls, whose outcome is shown no more.
LEMMA CallsUnmounted ==
  ASSUME NEW c \in [Slots -> Entry!Call \cup {None}]
  PROVE  /\ Entry!Unmounted(c) \in [Slots -> Entry!Call \cup {None}]
         /\ \A t \in Slots : IF c[t] = None THEN Entry!Unmounted(c)[t] = None
              ELSE /\ Entry!Unmounted(c)[t] # None /\ ~Entry!Unmounted(c)[t].alive
                   /\ Entry!Unmounted(c)[t].room = c[t].room
                   /\ Entry!Unmounted(c)[t].stage = c[t].stage
<1>1. ASSUME NEW t \in Slots, c[t] # None
      PROVE  /\ Entry!Unmounted(c)[t] = [c[t] EXCEPT !.alive = FALSE]
             /\ Entry!Unmounted(c)[t] \in Entry!Call
  BY <1>1 DEF Entry!Unmounted, Entry!Call
<1>2. \A t \in Slots : c[t] = None => Entry!Unmounted(c)[t] = None BY DEF Entry!Unmounted
<1>3. \A x \in Entry!Call : x # None BY NoneIsNoValue
<1>4. ASSUME NEW t \in Slots, c[t] # None
      PROVE  /\ ~Entry!Unmounted(c)[t].alive
             /\ Entry!Unmounted(c)[t].room = c[t].room
             /\ Entry!Unmounted(c)[t].stage = c[t].stage
  BY <1>1, <1>4 DEF Entry!Call
<1>5. Entry!Unmounted(c) \in [Slots -> Entry!Call \cup {None}] BY DEF Entry!Unmounted, Entry!Call
<1> QED BY <1>1, <1>2, <1>3, <1>4, <1>5

\* How a creation that ends leaves the home page typed.
LEMMA ShownTyped ==
  ASSUME EntryInv, NEW s \in Slots, Entry!Creates(s),
         Entry!Created(s) \/ Entry!Rejected(s) \/ Entry!CreateFailed(s)
  PROVE  /\ home' # None <=> home # None
         /\ home' \in Entry!Home \cup {None}
         /\ ~call[s].alive => home' = home
         /\ call[s].alive => home \in Entry!Home /\ home' \in Entry!Home
<1>0. home \in Entry!Home \cup {None} BY DEF EntryInv, Entry!TypeOK
<1>1. CASE ~call[s].alive
  <2>1. home' = home BY <1>1 DEF Entry!Created, Entry!Rejected, Entry!CreateFailed, Entry!Shown
  <2> QED BY <1>0, <1>1, <2>1
<1>2. CASE call[s].alive
  <2>1. home \in Entry!Home BY <1>0, <1>2 DEF EntryInv, OnePage, AliveOnPage, Entry!Creates
  <2>2. ASSUME Entry!Created(s) PROVE home' \in Entry!Home
    <3>1. home' = [home EXCEPT !.created = call[s].room, !.queued = Entry!At(s, "queued"),
                               !.rooms = @ \cup {call[s].room}, !.permit = None, !.form = FALSE, !.creating = FALSE]
      BY <1>2, <2>1, <2>2 DEF Entry!Created, Entry!Shown, Entry!Home
    <3>2. call[s].room \in Permits /\ Entry!At(s, "queued") \in BOOLEAN
      BY DEF Entry!Creates, Entry!At
    <3> QED BY <2>1, <3>1, <3>2 DEF Entry!Home, Entry!RoomNames
  <2>3. ASSUME Entry!Rejected(s) PROVE home' \in Entry!Home
    BY <1>2, <2>1, <2>3 DEF Entry!Rejected, Entry!Shown, Entry!Home
  <2>4. ASSUME Entry!CreateFailed(s) PROVE home' \in Entry!Home
    BY <1>2, <2>1, <2>4 DEF Entry!CreateFailed, Entry!Shown, Entry!Home
  <2>5. home' \in Entry!Home BY <2>2, <2>3, <2>4
  <2> QED BY <1>2, <2>1, <2>5, NoneIsNoValue
<1> QED BY <1>1, <1>2

\* The steps of the home page itself keep its type.
LEMMA HomeStepsTyped ==
  ASSUME Entry!TypeOK,
         \/ Entry!ListRooms \/ Entry!Listed \/ Entry!ReadFails \/ Entry!OpenCreate
         \/ Entry!CloseModal
  PROVE  home \in Entry!Home /\ home' \in Entry!Home /\ home' # None
<1> USE DEF Entry!RoomNames
<1>0. home \in Entry!Home
  BY
    DEF Entry!TypeOK, Entry!ListRooms, Entry!Listed, Entry!ReadFails, Entry!OpenCreate,
        Entry!CloseModal
<1>1. ASSUME Entry!ListRooms PROVE home' \in Entry!Home
  <2>1. vault \in SUBSET Entry!RoomNames BY DEF Entry!TypeOK
  <2> QED BY <1>0, <1>1, <2>1 DEF Entry!ListRooms, Entry!Home
<1>2. ASSUME Entry!Listed PROVE home' \in Entry!Home
  <2>1. home.read \in SUBSET Entry!RoomNames BY <1>0, <1>2 DEF Entry!Home, Entry!Listed
  <2> QED BY <1>0, <1>2, <2>1 DEF Entry!Listed, Entry!Home
<1>3. ASSUME Entry!ReadFails PROVE home' \in Entry!Home
  BY <1>0, <1>3 DEF Entry!ReadFails, Entry!Home
<1>4. ASSUME Entry!OpenCreate PROVE home' \in Entry!Home
  BY <1>0, <1>4 DEF Entry!OpenCreate, Entry!Home
<1>5. ASSUME Entry!CloseModal PROVE home' \in Entry!Home
  <2>1. \/ home' = [home EXCEPT !.form = FALSE]
        \/ home' = [home EXCEPT !.unlocking = FALSE]
        \/ home' = [home EXCEPT !.created = None]
    BY <1>5 DEF Entry!CloseModal
  <2>2. CASE home' = [home EXCEPT !.form = FALSE] BY <1>0, <2>2 DEF Entry!Home
  <2>3. CASE home' = [home EXCEPT !.unlocking = FALSE] BY <1>0, <2>3 DEF Entry!Home
  <2>4. CASE home' = [home EXCEPT !.created = None] BY <1>0, <2>4 DEF Entry!Home
  <2> QED BY <2>1, <2>2, <2>3, <2>4
<1> QED BY <1>0, <1>1, <1>2, <1>3, <1>4, <1>5, NoneIsNoValue

\* Every step of the entry pages keeps the types.
LEMMA EntryTyped ==
  ASSUME EntryInv, Entry!Next
  PROVE  Entry!TypeOK'
<1> USE SeatsAreNatural, BoundsAreNatural, NoneIsNoValue
    DEF Entry!RoomNames, Entry!Pages, Entry!Refusals, Entry!server, Entry!bounds, Entry!history
<1>0. Entry!TypeOK BY DEF EntryInv
<1>1. ASSUME \/ Entry!ListRooms \/ Entry!Listed \/ Entry!ReadFails \/ Entry!OpenCreate
             \/ Entry!CloseModal
      PROVE  Entry!TypeOK'
  <2>1. home' \in Entry!Home BY <1>0, <1>1, HomeStepsTyped
  <2>2. overwritten' \in BOOLEAN
    BY <1>0, <1>1
      DEF Entry!TypeOK, Entry!ListRooms, Entry!Listed, Entry!ReadFails, Entry!OpenCreate,
       Entry!CloseModal
  <2>4. acts' \in 0..MaxActs
    BY <1>0, <1>1
      DEF Entry!TypeOK, Entry!ListRooms, Entry!Listed, Entry!ReadFails, Entry!OpenCreate,
       Entry!CloseModal, Entry!Act
  <2>5. faults' \in 0..MaxFaults
    BY <1>0, <1>1
      DEF Entry!TypeOK, Entry!ListRooms, Entry!Listed, Entry!ReadFails, Entry!OpenCreate,
       Entry!CloseModal, Entry!Fault
  <2>3. UNCHANGED <<vault, used, session, page, join, call, excused, left>>
    BY <1>1 DEF Entry!ListRooms, Entry!Listed, Entry!ReadFails, Entry!OpenCreate, Entry!CloseModal
  <2> QED BY <1>0, <2>1, <2>2, <2>3, <2>4, <2>5 DEF Entry!TypeOK
<1>6. ASSUME Entry!Submit PROVE Entry!TypeOK'
  <2>1. home \in Entry!Home BY <1>0, <1>6 DEF Entry!TypeOK, Entry!Submit
  <2>2. home' \in Entry!Home BY <1>6, <2>1 DEF Entry!Submit, Entry!Home
  <2>3. PICK s \in Slots : /\ call[s] = None
          /\ call' = [call EXCEPT ![s] = [room |-> home.permit, seats |-> home.seats,
                                          alive |-> TRUE, stage |-> "request"]]
    BY <1>6 DEF Entry!Submit, Entry!Asked
  <2>4. home.seats \in {2} \cup {SeatsOf[p] : p \in Permits} BY <2>1 DEF Entry!Home
  <2>5. home.permit \in Permits BY <1>6, <2>1 DEF Entry!Home, Entry!Submit, EntryInv, FormHasPermit
  <2>6. call' \in [Slots -> Entry!Call \cup {None}]
    BY <1>0, <2>3, <2>4, <2>5 DEF Entry!TypeOK, Entry!Call
  <2> QED BY <1>0, <1>6, <2>2, <2>6 DEF Entry!TypeOK, Entry!Submit, Entry!Act
<1>7. ASSUME Entry!Reload PROVE Entry!TypeOK'
  <2>1. home' \in Entry!Home \cup {None} BY <1>0, <1>7, HomeFresh DEF Entry!TypeOK, Entry!Reload
  <2>2. join' \in Entry!Join \cup {None}
    BY <1>0, <1>7 DEF Entry!TypeOK, Entry!Reload, Entry!JoinPage, Entry!Join
  <2>3. excused' \subseteq Permits BY <1>0, <1>7 DEF Entry!TypeOK, Entry!Reload
  <2>4. call' \in [Slots -> Entry!Call \cup {None}] BY <1>7 DEF Entry!Reload
  <2>5. acts' \in 0..MaxActs BY <1>0, <1>7 DEF Entry!TypeOK, Entry!Reload, Entry!Act
  <2> QED BY <1>0, <1>7, <2>1, <2>2, <2>3, <2>4, <2>5 DEF Entry!TypeOK, Entry!Reload
<1>8. ASSUME NEW t \in Permits \cup Malformed, Entry!Unlock(t) PROVE Entry!TypeOK'
  <2>1. home \in Entry!Home BY <1>0, <1>8 DEF Entry!TypeOK, Entry!Unlock
  <2>2. CASE t \in Malformed
    <3>1. home' \in Entry!Home BY <1>8, <2>1, <2>2 DEF Entry!Unlock, Entry!Home
    <3> QED BY <1>0, <1>8, <2>2, <3>1 DEF Entry!TypeOK, Entry!Unlock, Entry!Act
  <2>3. CASE t \notin Malformed
    <3>1. t \in Permits /\ Entry!Seats(t) \in {SeatsOf[p] : p \in Permits} BY <2>3 DEF Entry!Seats
    <3>2. home' = [home EXCEPT !.permit = t, !.seats = Entry!Seats(t), !.refusal = None,
                               !.unlocking = FALSE, !.form = TRUE]
      BY <1>8, <2>3 DEF Entry!Unlock
    <3>3. home' \in Entry!Home BY <2>1, <3>1, <3>2 DEF Entry!Home
    <3> QED BY <1>0, <1>8, <2>3, <3>1, <3>3 DEF Entry!TypeOK, Entry!Unlock, Entry!Act
  <2> QED BY <2>2, <2>3
<1>9. ASSUME NEW i \in Invites, Entry!SubmitJoin(i) PROVE Entry!TypeOK'
  <2>1. PICK s \in Slots : /\ call[s] = None
          /\ call' = [call EXCEPT ![s] = [room |-> i, seats |-> 0, alive |-> TRUE,
                                          stage |-> "request"]]
    BY <1>9 DEF Entry!SubmitJoin, Entry!Asked
  <2>2. call' \in [Slots -> Entry!Call \cup {None}] BY <1>0, <2>1 DEF Entry!TypeOK, Entry!Call
  <2> QED BY <1>0, <1>9, <2>2 DEF Entry!TypeOK, Entry!SubmitJoin, Entry!Act, Entry!Join
<1>10. ASSUME NEW p \in Entry!Pages, Entry!GoTo(p) PROVE Entry!TypeOK'
  <2>1. home' \in Entry!Home \cup {None} BY <1>0, <1>10, HomeFresh DEF Entry!TypeOK, Entry!GoTo
  <2>2. join' \in Entry!Join \cup {None} BY <1>10 DEF Entry!GoTo, Entry!JoinPage, Entry!Join
  <2>3. call' \in [Slots -> Entry!Call \cup {None}]
    BY <1>0, <1>10, CallsUnmounted DEF Entry!TypeOK, Entry!GoTo
  <2>4. left' \in BOOLEAN BY <1>10 DEF Entry!GoTo, Entry!GoOn
  <2>5. acts' \in 0..MaxActs BY <1>0, <1>10 DEF Entry!TypeOK, Entry!GoTo, Entry!Act
  <2>6. page' \in Entry!Pages BY <1>10 DEF Entry!GoTo
  <2>7. UNCHANGED <<vault, used, session, faults, excused>> /\ overwritten' = FALSE
    BY <1>10 DEF Entry!GoTo
  <2> QED BY <1>0, <2>1, <2>2, <2>3, <2>4, <2>5, <2>6, <2>7 DEF Entry!TypeOK
<1>11. ASSUME NEW s \in Slots,
              \/ Entry!Provision(s) \/ Entry!Refuse(s) \/ Entry!CreateInvite(s) \/ Entry!PutRoom(s)
              \/ Entry!PutCheckpoint(s) \/ Entry!Breaks(s) \/ Entry!Redeem(s) \/ Entry!FetchCheckpoint(s)
       PROVE  Entry!TypeOK'
  <2>1. call[s] \in Entry!Call
    BY <1>0, <1>11 DEF Entry!TypeOK, Entry!At, Entry!Provision, Entry!Refuse, Entry!CreateInvite,
       Entry!PutRoom, Entry!PutCheckpoint, Entry!Breaks, Entry!Redeem, Entry!FetchCheckpoint
  <2>2. \E reached \in {"setup", "store", "upload", "done", "queued", "failed", "used", "expired"} :
          Entry!Move(s, reached)
    BY <1>11 DEF Entry!Provision, Entry!Refuse, Entry!CreateInvite,
       Entry!PutRoom, Entry!PutCheckpoint, Entry!Breaks, Entry!Redeem, Entry!FetchCheckpoint
  <2>3. call' \in [Slots -> Entry!Call \cup {None}] BY <1>0, <2>1, <2>2, CallMoves DEF MovedTo
  <2>4. call[s].room \in Permits \cup Invites BY <2>1 DEF Entry!Call
  <2>5. vault' \subseteq Entry!RoomNames /\ used' \subseteq Permits /\ excused' \subseteq Permits /\ faults' \in 0..MaxFaults
    BY <1>0, <1>11, <2>4
      DEF Entry!TypeOK, Entry!Creates, Entry!Fault, Entry!Provision, Entry!Refuse,
          Entry!CreateInvite,
       Entry!PutRoom, Entry!PutCheckpoint, Entry!Breaks, Entry!Redeem, Entry!FetchCheckpoint
  <2>6. UNCHANGED <<session, page, home, join, acts, overwritten, left>>
    BY <1>11 DEF Entry!Provision, Entry!Refuse, Entry!CreateInvite,
       Entry!PutRoom, Entry!PutCheckpoint, Entry!Breaks, Entry!Redeem, Entry!FetchCheckpoint
  <2> QED BY <1>0, <2>3, <2>5, <2>6 DEF Entry!TypeOK
<1>12. ASSUME NEW s \in Slots, Entry!Joined(s) PROVE Entry!TypeOK'
  <2>1. [call EXCEPT ![s] = None] \in [Slots -> Entry!Call \cup {None}] BY <1>0 DEF Entry!TypeOK
  <2>2. call' \in [Slots -> Entry!Call \cup {None}]
    BY <1>12, <2>1, CallsUnmounted DEF Entry!Joined
  <2>3. left' \in BOOLEAN BY <1>12 DEF Entry!Joined, Entry!GoOn
  <2> QED BY <1>0, <1>12, <2>2, <2>3 DEF Entry!TypeOK, Entry!Joined
<1>13. ASSUME NEW s \in Slots, Entry!JoinFailed(s) PROVE Entry!TypeOK'
  BY <1>0, <1>13 DEF Entry!TypeOK, Entry!JoinFailed, Entry!End, Entry!Join
<1>14. ASSUME NEW s \in Slots, Entry!Created(s) \/ Entry!Rejected(s) \/ Entry!CreateFailed(s)
       PROVE  Entry!TypeOK'
  <2>1. home' \in Entry!Home \cup {None}
    BY <1>14, ShownTyped DEF Entry!Created, Entry!Rejected, Entry!CreateFailed
  <2>2. call' \in [Slots -> Entry!Call \cup {None}]
    BY <1>0, <1>14 DEF Entry!TypeOK, Entry!Created, Entry!Rejected, Entry!CreateFailed, Entry!End
  <2> QED
    BY <1>0, <1>14, <2>1, <2>2 DEF Entry!TypeOK, Entry!Created, Entry!Rejected, Entry!CreateFailed
<1> QED
  BY <1>1, <1>6, <1>7, <1>8, <1>9, <1>10, <1>11, <1>12, <1>13, <1>14
  DEF Entry!Next

\* What the invariant says beside the types.
EntryRest ==
    /\ OnePage /\ AliveOnPage /\ LeftCalls /\ StoredFirst /\ FormHasPermit
    /\ SpentInUse /\ Offers /\ Lists /\ Entry!ButtonsComeBack

\* The list is read, or a dialogue opened or closed.
LEMMA HomeSteps ==
  ASSUME EntryInv,
         \/ Entry!ListRooms \/ Entry!Listed \/ Entry!ReadFails \/ Entry!OpenCreate
         \/ Entry!CloseModal
  PROVE  EntryRest'
<1> USE DEF EntryInv, Entry!server, Entry!bounds, Entry!history
<1>1. home \in Entry!Home /\ home # None /\ home' \in Entry!Home /\ home' # None
  BY HomeStepsTyped, NoneIsNoValue
<1>2. UNCHANGED <<vault, used, session, page, join, call, excused, left>>
  BY DEF Entry!ListRooms, Entry!Listed, Entry!ReadFails, Entry!OpenCreate, Entry!CloseModal
<1>3. /\ home'.permit = home.permit /\ home'.seats = home.seats /\ home'.creating = home.creating
      /\ home'.form => home.form \/ home.permit # None
  BY <1>1
    DEF Entry!ListRooms, Entry!Listed, Entry!ReadFails, Entry!OpenCreate, Entry!CloseModal,
        Entry!Home
<1>4. Lists'
  <2>1. Coming' = Coming BY <1>2 DEF Coming, Entry!Creates
  <2>2. CASE Entry!ListRooms
    <3>1. home' = [home EXCEPT !.read = vault] BY <2>2 DEF Entry!ListRooms
    <3>2. home'.rooms = home.rooms /\ home'.read = vault /\ home'.loading = home.loading /\ home.loading
      BY <1>1, <2>2, <3>1 DEF Entry!Home, Entry!ListRooms
    <3> QED BY <1>1, <1>2, <2>1, <2>2, <3>2 DEF Lists, Entry!ListRooms
  <2>3. CASE Entry!Listed
    <3>1. home'.rooms = home.read /\ home'.read = None /\ home'.loading = FALSE
      BY <1>1, <2>3 DEF Entry!Listed, Entry!Home
    <3>2. home.read \subseteq vault /\ (~left => vault \subseteq home.read \cup home.rooms \cup Coming)
      BY <1>1, <2>3 DEF Lists, Entry!Listed
    <3>3. ~overwritten' => home.rooms \subseteq home.read BY <2>3 DEF Entry!Listed
    <3>4. ~left /\ ~overwritten' => vault \subseteq home.read \cup Coming BY <3>2, <3>3
    <3> QED BY <1>2, <2>1, <3>1, <3>2, <3>4 DEF Lists
  <2>4. CASE Entry!ReadFails
    <3>1. home'.rooms = home.rooms /\ home'.read = None /\ home'.loading = FALSE /\ overwritten'
      BY <1>1, <2>4 DEF Entry!ReadFails, Entry!Home
    <3> QED BY <1>1, <1>2, <2>1, <2>4, <3>1 DEF Lists
  <2>5. CASE Entry!OpenCreate \/ Entry!CloseModal
    <3>1. home'.rooms = home.rooms /\ home'.read = home.read /\ home'.loading = home.loading
      BY <1>1, <2>5 DEF Entry!OpenCreate, Entry!CloseModal, Entry!Home
    <3>2. overwritten' = overwritten BY <2>5 DEF Entry!OpenCreate, Entry!CloseModal
    <3> QED BY <1>1, <1>2, <2>1, <3>1, <3>2 DEF Lists
  <2> QED BY <2>2, <2>3, <2>4, <2>5
<1>5. OnePage' BY <1>1, <1>2, <1>3 DEF OnePage
<1>6. AliveOnPage' /\ LeftCalls' /\ StoredFirst' /\ SpentInUse'
  BY <1>2 DEF AliveOnPage, LeftCalls, StoredFirst, SpentInUse, Entry!Creates, Entry!Joins
<1>7. FormHasPermit' /\ Offers' BY <1>1, <1>2, <1>3 DEF FormHasPermit, Offers, Entry!Seats
<1>8. Entry!ButtonsComeBack'
  BY <1>1, <1>2, <1>3 DEF Entry!ButtonsComeBack, Entry!Creates, Entry!Joins
<1> QED BY <1>4, <1>5, <1>6, <1>7, <1>8 DEF EntryRest

\* A call goes on.
LEMMA CallSteps ==
  ASSUME EntryInv, NEW s \in Slots,
         \/ Entry!Provision(s) \/ Entry!Refuse(s) \/ Entry!CreateInvite(s) \/ Entry!PutRoom(s)
         \/ Entry!PutCheckpoint(s) \/ Entry!Breaks(s) \/ Entry!Redeem(s) \/ Entry!FetchCheckpoint(s)
  PROVE  EntryRest'
<1> USE DEF EntryInv, Entry!server, Entry!bounds, Entry!history
<1>1. call[s] \in Entry!Call /\ call[s] # None
  BY DEF Entry!TypeOK, Entry!At, Entry!Provision, Entry!Refuse, Entry!CreateInvite,
     Entry!PutRoom, Entry!PutCheckpoint, Entry!Breaks, Entry!Redeem, Entry!FetchCheckpoint
<1>2. PICK reached \in {"setup", "store", "upload", "done", "queued", "failed", "used", "expired"} :
          Entry!Move(s, reached)
  BY DEF Entry!Provision, Entry!Refuse, Entry!CreateInvite,
       Entry!PutRoom, Entry!PutCheckpoint, Entry!Breaks, Entry!Redeem, Entry!FetchCheckpoint
<1>3. UNCHANGED <<session, page, home, join, acts, overwritten, left>>
  BY DEF Entry!Provision, Entry!Refuse, Entry!CreateInvite,
       Entry!PutRoom, Entry!PutCheckpoint, Entry!Breaks, Entry!Redeem, Entry!FetchCheckpoint
<1>4. MovedTo(s, reached) BY <1>1, <1>2, CallMoves
<1>m. \A x : Entry!Move(s, x) => x = reached
  BY <1>1, <1>4 DEF MovedTo, Entry!Move, Entry!TypeOK, Entry!Call
<1>5. \A t \in Slots : /\ Entry!Creates(t)' <=> Entry!Creates(t)
                       /\ Entry!Joins(t)' <=> Entry!Joins(t)
                       /\ (call'[t] # None) <=> (call[t] # None)
  BY <1>1, <1>4 DEF MovedTo, Entry!Creates, Entry!Joins
<1>6. OnePage' BY <1>3 DEF OnePage
<1>7. AliveOnPage' /\ LeftCalls' BY <1>1, <1>3, <1>4, <1>5 DEF AliveOnPage, LeftCalls, MovedTo
<1>8. FormHasPermit' /\ Offers' BY <1>3 DEF FormHasPermit, Offers, Entry!Seats
<1>9. Entry!ButtonsComeBack' BY <1>1, <1>3, <1>4, <1>5 DEF Entry!ButtonsComeBack, MovedTo
<1>10. ASSUME vault' = vault, call[s].stage \notin Kept, reached \notin Kept
       PROVE  StoredFirst' /\ Lists'
  <2>1. Coming' = Coming BY <1>4, <1>5, <1>10 DEF Coming, MovedTo
  <2> QED BY <1>3, <1>4, <1>5, <1>10, <2>1 DEF StoredFirst, Lists, MovedTo
<1>11. ASSUME used' = used, excused' = excused, call[s].stage \notin Paid \/ reached \in Paid
       PROVE  SpentInUse'
  BY <1>3, <1>4, <1>5, <1>11 DEF SpentInUse, MovedTo
<1>12. CASE Entry!Provision(s)
  <2>1. /\ call[s].stage = "request" /\ reached = "setup" /\ vault' = vault /\ excused' = excused
        /\ Entry!Creates(s) /\ used' = used \cup {call[s].room}
    BY <1>m, <1>12 DEF Entry!Provision, Entry!At
  <2>2. StoredFirst' /\ Lists' BY <1>10, <2>1 DEF Kept
  <2>3. SpentInUse' BY <1>3, <1>4, <1>5, <2>1 DEF SpentInUse, MovedTo, Paid
  <2> QED BY <1>6, <1>7, <1>8, <1>9, <2>2, <2>3 DEF EntryRest
<1>13. CASE Entry!Refuse(s) \/ Entry!Redeem(s) \/ Entry!FetchCheckpoint(s) \/ Entry!CreateInvite(s)
  <2>1. /\ vault' = vault /\ excused' = excused /\ used' = used
        /\ \/ call[s].stage = "request"
           \/ call[s].stage = "setup"
    BY <1>13 DEF Entry!Refuse, Entry!Redeem, Entry!FetchCheckpoint, Entry!CreateInvite, Entry!At
  <2>2. call' = [call EXCEPT ![s].stage = reached] BY <1>2 DEF Entry!Move
  <2>3. reached \in {"used", "expired", "setup", "store"}
    BY <1>m, <1>13
      DEF Entry!Refuse, Entry!Redeem, Entry!FetchCheckpoint, Entry!CreateInvite, Entry!At
  <2>4. call[s].stage \notin Paid \/ reached \in Paid
    BY <1>m, <1>13
      DEF Entry!Refuse, Entry!Redeem, Entry!FetchCheckpoint, Entry!CreateInvite, Entry!At, Paid
  <2>5. StoredFirst' /\ Lists' BY <1>10, <2>1, <2>3 DEF Kept
  <2>6. SpentInUse' BY <1>11, <2>1, <2>4
  <2> QED BY <1>6, <1>7, <1>8, <1>9, <2>5, <2>6 DEF EntryRest
<1>14. CASE Entry!PutRoom(s)
  <2>1. /\ call[s].stage = "store" /\ vault' = vault \cup {call[s].room} /\ excused' = excused /\ used' = used
        /\ reached \in Kept /\ reached \in Paid
    BY <1>m, <1>14 DEF Entry!PutRoom, Entry!At, Kept, Paid
  <2>2. StoredFirst' BY <1>4, <1>5, <2>1 DEF StoredFirst, MovedTo
  <2>3. Lists'
    <3>1. Coming \subseteq Coming' BY <1>4, <1>5, <2>1 DEF Coming, MovedTo
    <3>2. Entry!Creates(s) => call[s].room \in Coming'
      BY <1>1, <1>4, <1>5, <2>1 DEF Coming, MovedTo, Entry!Call, Entry!RoomNames
    <3>3. home # None /\ ~left => Entry!Creates(s)
      BY <1>1
        DEF OnePage, AliveOnPage, LeftCalls, Entry!Creates, Entry!Joins, Entry!Call, Entry!RoomNames
    <3> QED BY <1>3, <2>1, <3>1, <3>2, <3>3 DEF Lists
  <2>4. SpentInUse' BY <1>11, <2>1
  <2> QED BY <1>6, <1>7, <1>8, <1>9, <2>2, <2>3, <2>4 DEF EntryRest
<1>15. CASE Entry!PutCheckpoint(s)
  <2>1. /\ call[s].stage \in Kept /\ vault' = vault /\ excused' = excused /\ used' = used
        /\ reached \in Kept /\ reached \in Paid
    BY <1>m, <1>15 DEF Entry!PutCheckpoint, Entry!At, Kept, Paid
  <2>2. StoredFirst' BY <1>4, <1>5, <2>1 DEF StoredFirst, MovedTo
  <2>3. Coming' = Coming BY <1>4, <1>5, <2>1 DEF Coming, MovedTo
  <2>4. Lists' BY <1>3, <2>1, <2>3 DEF Lists
  <2>5. SpentInUse' BY <1>11, <2>1
  <2> QED BY <1>6, <1>7, <1>8, <1>9, <2>2, <2>4, <2>5 DEF EntryRest
<1>16. CASE Entry!Breaks(s)
  <2>1. /\ call[s].stage \in {"request", "setup", "store"} /\ reached = "failed" /\ vault' = vault
    BY <1>m, <1>16 DEF Entry!Breaks, Entry!At
  <2>2. /\ excused' = IF Entry!Creates(s) /\ call[s].room \in used' THEN excused \cup {call[s].room} ELSE excused
        /\ used' = used \/ (Entry!Creates(s) /\ used' = used \cup {call[s].room})
    BY <1>16 DEF Entry!Breaks
  <2>3. StoredFirst' /\ Lists' BY <1>10, <2>1 DEF Kept
  <2>4. SpentInUse' BY <1>3, <1>4, <1>5, <2>1, <2>2 DEF SpentInUse, MovedTo, Paid
  <2> QED BY <1>6, <1>7, <1>8, <1>9, <2>3, <2>4 DEF EntryRest
<1> QED BY <1>12, <1>13, <1>14, <1>15, <1>16

\* What holds of the calls that are left when call s has ended.
LEMMA CallEnds ==
  ASSUME Entry!TypeOK, NEW s \in Slots, Entry!End(s)
  PROVE  /\ call'[s] = None /\ \A t \in Slots \ {s} : call'[t] = call[t]
         /\ \A t \in Slots : Entry!Creates(t)' => t # s /\ Entry!Creates(t)
         /\ \A t \in Slots : t # s /\ Entry!Creates(t) => Entry!Creates(t)'
         /\ \A t \in Slots : Entry!Joins(t)' => t # s /\ Entry!Joins(t)
         /\ \A t \in Slots : t # s /\ Entry!Joins(t) => Entry!Joins(t)'
BY DEF Entry!TypeOK, Entry!End, Entry!Creates, Entry!Joins

\* A creation ends.
LEMMA CreationEnds ==
  ASSUME EntryInv, NEW s \in Slots, Entry!Created(s) \/ Entry!Rejected(s) \/ Entry!CreateFailed(s)
  PROVE  EntryRest'
<1> USE DEF EntryInv, Entry!server, Entry!bounds, Entry!history
<1>1. /\ Entry!Creates(s) /\ Entry!End(s)
      /\ UNCHANGED <<vault, used, page, join, excused, overwritten, left>>
  BY DEF Entry!Created, Entry!Rejected, Entry!CreateFailed
<1>2. /\ call'[s] = None /\ \A t \in Slots \ {s} : call'[t] = call[t]
      /\ \A t \in Slots : Entry!Creates(t)' => t # s /\ Entry!Creates(t)
      /\ \A t \in Slots : t # s /\ Entry!Creates(t) => Entry!Creates(t)'
      /\ \A t \in Slots : Entry!Joins(t)' => t # s /\ Entry!Joins(t)
      /\ \A t \in Slots : t # s /\ Entry!Joins(t) => Entry!Joins(t)'
  BY <1>1, CallEnds
<1>3. /\ home # None <=> home' # None
      /\ ~call[s].alive => home' = home
      /\ call[s].alive => home \in Entry!Home /\ home' \in Entry!Home
  BY <1>1, ShownTyped
<1>4. OnePage' /\ AliveOnPage' /\ LeftCalls' /\ StoredFirst'
  BY <1>1, <1>2, <1>3 DEF OnePage, AliveOnPage, LeftCalls, StoredFirst
<1>5. ASSUME ~call[s].alive
      PROVE  FormHasPermit' /\ Offers' /\ Lists' /\ Entry!ButtonsComeBack'
  <2>1. home' = home /\ left
    BY <1>1, <1>3, <1>5 DEF LeftCalls, Entry!Creates
  <2>2. FormHasPermit' /\ Offers' /\ Lists' BY <1>1, <2>1 DEF FormHasPermit, Offers, Lists
  <2>3. Entry!ButtonsComeBack'
    BY <1>1, <1>2, <1>5, <2>1
      DEF Entry!ButtonsComeBack, OnePage, AliveOnPage, Entry!Creates, Entry!Joins
  <2> QED BY <2>2, <2>3
<1>6. ASSUME call[s].alive
      PROVE  FormHasPermit' /\ Offers' /\ Lists' /\ Entry!ButtonsComeBack'
  <2>1. home \in Entry!Home /\ home # None BY <1>3, <1>6, NoneIsNoValue
  <2>2. ASSUME home'.creating = FALSE PROVE Entry!ButtonsComeBack'
    <3>1. home # None /\ join = None /\ join' = None BY <1>1, <2>1 DEF OnePage
    <3> QED BY <2>2, <3>1 DEF Entry!ButtonsComeBack
  <2>3. ASSUME Entry!Created(s)
        PROVE  FormHasPermit' /\ Offers' /\ Lists' /\ Entry!ButtonsComeBack'
    <3>0. home' = [home EXCEPT !.created = call[s].room, !.queued = Entry!At(s, "queued"),
                               !.rooms = @ \cup {call[s].room}, !.permit = None, !.form = FALSE, !.creating = FALSE]
      BY <1>6, <2>1, <2>3 DEF Entry!Created, Entry!Shown, Entry!Home
    <3>1. /\ home'.rooms = home.rooms \cup {call[s].room} /\ home'.permit = None /\ home'.form = FALSE
          /\ home'.loading = home.loading /\ home'.read = home.read /\ home'.creating = FALSE
      BY <2>1, <3>0 DEF Entry!Home
    <3>2. session' = None /\ call[s].room \in vault
      BY <1>1, <2>3 DEF Entry!Created, StoredFirst, Entry!At, Kept
    <3>3. Coming \subseteq Coming' \cup {call[s].room} BY <1>2 DEF Coming
    <3>4. Lists' BY <1>1, <2>1, <3>1, <3>2, <3>3 DEF Lists
    <3>5. FormHasPermit' /\ Offers' BY <3>1, <3>2 DEF FormHasPermit, Offers
    <3> QED BY <2>2, <3>1, <3>4, <3>5
  <2>4. ASSUME Entry!Rejected(s)
        PROVE  FormHasPermit' /\ Offers' /\ Lists' /\ Entry!ButtonsComeBack'
    <3>1. /\ home'.rooms = home.rooms /\ home'.permit = None /\ home'.form = FALSE
          /\ home'.loading = home.loading /\ home'.read = home.read /\ home'.creating = FALSE
      BY <1>6, <2>1, <2>4 DEF Entry!Rejected, Entry!Shown, Entry!Home
    <3>2. session' = None /\ call[s].stage \notin Kept
      BY <2>4 DEF Entry!Rejected, Kept, Entry!Refusals
    <3>3. Coming \subseteq Coming' BY <1>2, <3>2 DEF Coming
    <3>4. Lists' BY <1>1, <2>1, <3>1, <3>3 DEF Lists
    <3>5. FormHasPermit' /\ Offers' BY <3>1, <3>2 DEF FormHasPermit, Offers
    <3> QED BY <2>2, <3>1, <3>4, <3>5
  <2>5. ASSUME Entry!CreateFailed(s)
        PROVE  FormHasPermit' /\ Offers' /\ Lists' /\ Entry!ButtonsComeBack'
    <3>1. /\ home'.rooms = home.rooms /\ home'.permit = home.permit /\ home'.form = home.form
          /\ home'.seats = home.seats
          /\ home'.loading = home.loading /\ home'.read = home.read /\ home'.creating = FALSE
      BY <1>6, <2>1, <2>5 DEF Entry!CreateFailed, Entry!Shown, Entry!Home
    <3>2. session' = session /\ call[s].stage \notin Kept
      BY <2>5 DEF Entry!CreateFailed, Kept, Entry!At
    <3>3. Coming \subseteq Coming' BY <1>2, <3>2 DEF Coming
    <3>4. Lists' BY <1>1, <2>1, <3>1, <3>3 DEF Lists
    <3>5. FormHasPermit' /\ Offers' BY <1>1, <2>1, <3>1, <3>2 DEF FormHasPermit, Offers, Entry!Seats
    <3> QED BY <2>2, <3>1, <3>4, <3>5
  <2> QED BY <2>3, <2>4, <2>5
<1>7. SpentInUse'
  <2>1. CASE Entry!CreateFailed(s)
    <3>1. session' = session /\ call[s].stage \notin Paid
      BY <2>1 DEF Entry!CreateFailed, Entry!At, Paid
    <3> QED BY <1>1, <1>2, <3>1 DEF SpentInUse
  <2>2. CASE session' = None
    BY <1>1, <2>2, NoneIsNoValue DEF SpentInUse, Entry!TypeOK
  <2> QED BY <2>1, <2>2 DEF Entry!Created, Entry!Rejected
<1> QED BY <1>4, <1>5, <1>6, <1>7 DEF EntryRest

\* A redemption ends.
LEMMA RedemptionEnds ==
  ASSUME EntryInv, NEW s \in Slots, Entry!JoinFailed(s)
  PROVE  EntryRest'
<1> USE DEF EntryInv, Entry!server, Entry!bounds, Entry!history
<1>1. /\ Entry!Joins(s) /\ Entry!End(s) /\ call[s] # None /\ call[s].stage \notin Kept \cup Paid
      /\ UNCHANGED <<vault, used, session, page, home, excused, overwritten, left>>
  BY DEF Entry!JoinFailed, Entry!At, Entry!Joins, Kept, Paid
<1>2. /\ call'[s] = None /\ \A t \in Slots \ {s} : call'[t] = call[t]
      /\ \A t \in Slots : Entry!Creates(t)' => t # s /\ Entry!Creates(t)
      /\ \A t \in Slots : t # s /\ Entry!Creates(t) => Entry!Creates(t)'
      /\ \A t \in Slots : Entry!Joins(t)' => t # s /\ Entry!Joins(t)
      /\ \A t \in Slots : t # s /\ Entry!Joins(t) => Entry!Joins(t)'
  BY <1>1, CallEnds
<1>3. IF call[s].alive THEN join # None /\ join' = [joining |-> FALSE, failed |-> TRUE] /\ join' # None
                       ELSE join' = join
  <2>1. call[s].alive => join # None BY <1>1 DEF OnePage, AliveOnPage
  <2>2. [joining |-> FALSE, failed |-> TRUE] # None BY JoinIsSomething DEF Entry!Join
  <2> QED BY <2>1, <2>2 DEF Entry!JoinFailed
<1>4. OnePage' /\ AliveOnPage' /\ LeftCalls' /\ StoredFirst'
  BY <1>1, <1>2, <1>3 DEF OnePage, AliveOnPage, LeftCalls, StoredFirst
<1>5. Coming' = Coming BY <1>1, <1>2 DEF Coming, Entry!Creates
<1>6. FormHasPermit' /\ Offers' /\ Lists'
  BY <1>1, <1>5 DEF FormHasPermit, Offers, Lists, Entry!Seats
<1>7. SpentInUse' BY <1>1, <1>2 DEF SpentInUse
<1>8. Entry!Creates(s) => FALSE BY <1>1, PermitsAreNoInvites DEF Entry!Creates, Entry!Joins
<1>9. Entry!ButtonsComeBack' BY <1>1, <1>2, <1>3, <1>8 DEF Entry!ButtonsComeBack
<1> QED BY <1>4, <1>6, <1>7, <1>9 DEF EntryRest

\* A redemption that ends well navigates to the room, and leaves the page it finds.
LEMMA JoinedStep ==
  ASSUME EntryInv, NEW s \in Slots, Entry!Joined(s)
  PROVE  EntryRest'
<1> USE DEF EntryInv, Entry!server, Entry!bounds, Entry!history
<1>1. call' = Entry!Unmounted([call EXCEPT ![s] = None]) BY DEF Entry!Joined
<1>2. /\ ~Entry!Creates(s) /\ home' = None /\ join' = None /\ page' = "room"
      /\ left' = Entry!GoOn(call') /\ UNCHANGED <<vault, used, session, excused, overwritten>>
  BY PermitsAreNoInvites DEF Entry!Joined, Entry!Joins, Entry!Creates
<1>3. \A t \in Slots :
        /\ call'[t] # None => /\ t # s /\ call[t] # None /\ ~call'[t].alive
                              /\ call'[t].room = call[t].room /\ call'[t].stage = call[t].stage
        /\ t # s /\ call[t] # None => call'[t] # None
  <2>1. [call EXCEPT ![s] = None] \in [Slots -> Entry!Call \cup {None}] BY DEF Entry!TypeOK
  <2> QED BY <1>1, <2>1, CallsUnmounted DEF Entry!TypeOK
<1>4. OnePage' BY <1>2 DEF OnePage
<1>5. AliveOnPage' /\ LeftCalls' BY <1>2, <1>3 DEF AliveOnPage, LeftCalls, Entry!GoOn
<1>6. StoredFirst' BY <1>2, <1>3 DEF StoredFirst, Entry!Creates
<1>7. SpentInUse' BY <1>2, <1>3 DEF SpentInUse, Entry!Creates
<1>8. FormHasPermit' /\ Offers' /\ Lists' /\ Entry!ButtonsComeBack'
  BY <1>2 DEF FormHasPermit, Offers, Lists, Entry!ButtonsComeBack
<1> QED BY <1>4, <1>5, <1>6, <1>7, <1>8 DEF EntryRest

\* A home page that has just been mounted.
LEMMA FreshPages ==
  ASSUME session \in Permits \cup {None}
  PROVE  /\ Entry!HomePage # None /\ Entry!JoinPage # None
         /\ Entry!HomePage.rooms = {} /\ Entry!HomePage.read = None /\ Entry!HomePage.loading
         /\ Entry!HomePage.permit = session /\ Entry!HomePage.seats = Entry!Seats(session)
         /\ ~Entry!HomePage.form /\ ~Entry!HomePage.creating /\ ~Entry!JoinPage.joining
<1>1. Entry!HomePage # None BY HomeFresh, NoneIsNoValue
<1>2. Entry!JoinPage # None BY JoinIsSomething DEF Entry!JoinPage, Entry!Join
<1> QED BY <1>1, <1>2 DEF Entry!HomePage, Entry!JoinPage

\* Another page is mounted afresh.
LEMMA GoToStep ==
  ASSUME EntryInv, NEW p \in Entry!Pages, Entry!GoTo(p)
  PROVE  EntryRest'
<1> USE DEF EntryInv, Entry!server, Entry!bounds, Entry!history
<1>1. call' = Entry!Unmounted(call) BY DEF Entry!GoTo
<1>2. /\ page' = p /\ home' = (IF p = "home" THEN Entry!HomePage ELSE None)
      /\ join' = (IF p = "join" THEN Entry!JoinPage ELSE None)
      /\ left' = Entry!GoOn(call') /\ UNCHANGED <<vault, used, session, excused>>
  BY DEF Entry!GoTo
<1>3. \A t \in Slots :
        /\ call'[t] # None => /\ call[t] # None /\ ~call'[t].alive
                              /\ call'[t].room = call[t].room /\ call'[t].stage = call[t].stage
        /\ call[t] # None => call'[t] # None
  BY <1>1, CallsUnmounted DEF Entry!TypeOK
<1>f. /\ Entry!HomePage # None /\ Entry!JoinPage # None
      /\ Entry!HomePage.rooms = {} /\ Entry!HomePage.read = None /\ Entry!HomePage.loading
      /\ Entry!HomePage.permit = session /\ Entry!HomePage.seats = Entry!Seats(session)
      /\ ~Entry!HomePage.form /\ ~Entry!HomePage.creating /\ ~Entry!JoinPage.joining
  BY FreshPages DEF Entry!TypeOK
<1>4. OnePage' BY <1>2, <1>f DEF OnePage
<1>5. AliveOnPage' /\ LeftCalls' BY <1>2, <1>3 DEF AliveOnPage, LeftCalls, Entry!GoOn
<1>6. StoredFirst' BY <1>2, <1>3 DEF StoredFirst, Entry!Creates
<1>7. SpentInUse' BY <1>2, <1>3 DEF SpentInUse, Entry!Creates
<1>8. FormHasPermit' /\ Offers' BY <1>2, <1>f DEF FormHasPermit, Offers, Entry!Seats
<1>9. Lists' BY <1>2, <1>f DEF Lists
<1>10. Entry!ButtonsComeBack' BY <1>2, <1>f DEF Entry!ButtonsComeBack
<1> QED BY <1>4, <1>5, <1>6, <1>7, <1>8, <1>9, <1>10 DEF EntryRest

\* A reload forgets every call.
LEMMA ReloadStep ==
  ASSUME EntryInv, Entry!Reload
  PROVE  EntryRest'
<1> USE DEF EntryInv, Entry!server, Entry!bounds, Entry!history
<1>1. /\ home' = (IF home = None THEN None ELSE Entry!HomePage)
      /\ join' = (IF join = None THEN None ELSE Entry!JoinPage)
      /\ call' = [s \in Slots |-> None] /\ left' = FALSE
      /\ excused' = excused \cup {p \in used : \E s \in Slots : call[s] # None /\ call[s].room = p}
      /\ UNCHANGED <<vault, used, session, page>>
  BY DEF Entry!Reload
<1>f. /\ Entry!HomePage # None /\ Entry!JoinPage # None
      /\ Entry!HomePage.rooms = {} /\ Entry!HomePage.read = None /\ Entry!HomePage.loading
      /\ Entry!HomePage.permit = session /\ Entry!HomePage.seats = Entry!Seats(session)
      /\ ~Entry!HomePage.form /\ ~Entry!HomePage.creating /\ ~Entry!JoinPage.joining
  BY FreshPages DEF Entry!TypeOK
<1>2. \A s \in Slots : call'[s] = None BY <1>1
<1>4. OnePage' BY <1>1, <1>f DEF OnePage
<1>5. AliveOnPage' /\ LeftCalls' /\ StoredFirst'
  BY <1>2 DEF AliveOnPage, LeftCalls, StoredFirst, Entry!Creates
<1>7. SpentInUse' BY <1>1 DEF SpentInUse, Entry!Creates
<1>8. FormHasPermit' /\ Offers' BY <1>1, <1>f DEF FormHasPermit, Offers, Entry!Seats
<1>9. Lists' BY <1>1, <1>f DEF Lists
<1>10. Entry!ButtonsComeBack' BY <1>1, <1>f DEF Entry!ButtonsComeBack
<1> QED BY <1>4, <1>5, <1>7, <1>8, <1>9, <1>10 DEF EntryRest

\* A page of the unlock link stores its permit in the session.
LEMMA UnlockStep ==
  ASSUME EntryInv, NEW t \in Permits \cup Malformed, Entry!Unlock(t)
  PROVE  EntryRest'
<1> USE DEF EntryInv, Entry!server, Entry!bounds, Entry!history
<1>1. home \in Entry!Home /\ home # None BY DEF Entry!TypeOK, Entry!Unlock
<1>2. UNCHANGED <<vault, used, page, join, call, overwritten, left>> BY DEF Entry!Unlock
<1>3. Coming' = Coming BY <1>2 DEF Coming, Entry!Creates
<1>4. home' # None /\ home'.rooms = home.rooms /\ home'.read = home.read /\ home'.loading = home.loading
      /\ home'.creating = home.creating
  <2>1. CASE t \in Malformed
    <3>1. home' = [home EXCEPT !.refusal = "format"] BY <2>1 DEF Entry!Unlock
    <3>2. home' \in Entry!Home BY <1>1, <3>1 DEF Entry!Home
    <3>3. home' # None BY <3>2, NoneIsNoValue
    <3> QED BY <1>1, <3>1, <3>3 DEF Entry!Home
  <2>2. CASE t \notin Malformed
    <3>1. home' = [home EXCEPT !.permit = t, !.seats = Entry!Seats(t), !.refusal = None,
                               !.unlocking = FALSE, !.form = TRUE]
      BY <2>2 DEF Entry!Unlock
    <3>2. t \in Permits /\ Entry!Seats(t) \in {SeatsOf[p] : p \in Permits}
      BY <2>2, NoneIsNoValue DEF Entry!Seats
    <3>3. home' \in Entry!Home BY <1>1, <3>1, <3>2 DEF Entry!Home
    <3>4. home' # None BY <3>3, NoneIsNoValue
    <3> QED BY <1>1, <3>1, <3>4 DEF Entry!Home
  <2> QED BY <2>1, <2>2
<1>5. OnePage' BY <1>1, <1>2, <1>4 DEF OnePage
<1>6. AliveOnPage' /\ LeftCalls' /\ StoredFirst'
  BY <1>2 DEF AliveOnPage, LeftCalls, StoredFirst, Entry!Creates, Entry!Joins
<1>7. Lists' BY <1>1, <1>2, <1>3, <1>4 DEF Lists
<1>8. Entry!ButtonsComeBack'
  BY <1>1, <1>2, <1>4 DEF Entry!ButtonsComeBack, Entry!Creates, Entry!Joins
<1>9. FormHasPermit' /\ Offers' /\ SpentInUse'
  <2>1. CASE t \in Malformed
    <3>1. home' = [home EXCEPT !.refusal = "format"] /\ UNCHANGED <<session, excused>>
      BY <2>1 DEF Entry!Unlock
    <3>2. home'.permit = home.permit /\ home'.form = home.form /\ home'.seats = home.seats
      BY <1>1, <3>1 DEF Entry!Home
    <3> QED
      BY <1>1, <1>2, <3>1, <3>2 DEF FormHasPermit, Offers, SpentInUse, Entry!Seats, Entry!Creates
  <2>2. CASE t \notin Malformed
    <3>1. /\ home' = [home EXCEPT !.permit = t, !.seats = Entry!Seats(t), !.refusal = None,
                                  !.unlocking = FALSE, !.form = TRUE]
          /\ session' = t /\ excused' = excused \cup (used \cap {t})
      BY <2>2 DEF Entry!Unlock
    <3>2. home'.permit = t /\ home'.seats = Entry!Seats(t) BY <1>1, <3>1 DEF Entry!Home
    <3>3. t # None BY <2>2, NoneIsNoValue
    <3> QED BY <1>2, <3>1, <3>2, <3>3 DEF FormHasPermit, Offers, SpentInUse, Entry!Seats
  <2> QED BY <2>1, <2>2
<1> QED BY <1>5, <1>6, <1>7, <1>8, <1>9 DEF EntryRest

\* A call is made by the page that is mounted.
LEMMA CallMade ==
  ASSUME Entry!TypeOK, NEW r \in Entry!RoomNames,
         NEW n \in {0, 2} \cup {SeatsOf[p] : p \in Permits}, Entry!Asked(r, n)
  PROVE  \E s \in Slots :
           /\ call[s] = None /\ \A t \in Slots \ {s} : call'[t] = call[t]
           /\ call'[s] # None /\ call'[s].room = r /\ call'[s].alive
           /\ call'[s].stage = "request" /\ call' \in [Slots -> Entry!Call \cup {None}]
<1> DEFINE c == [room |-> r, seats |-> n, alive |-> TRUE, stage |-> "request"]
<1>1. PICK s \in Slots : call[s] = None /\ call' = [call EXCEPT ![s] = c] BY DEF Entry!Asked
<1>2. c \in Entry!Call BY DEF Entry!Call
<1>3. c # None BY <1>2, NoneIsNoValue
<1>4. c.room = r /\ c.alive /\ c.stage = "request" OBVIOUS
<1> HIDE DEF c
<1> QED BY <1>1, <1>2, <1>3, <1>4 DEF Entry!TypeOK

\* The form of the home page starts a creation with its permit.
LEMMA SubmitStep ==
  ASSUME EntryInv, Entry!Submit
  PROVE  EntryRest'
<1> USE DEF EntryInv, Entry!server, Entry!bounds, Entry!history
<1>1. home \in Entry!Home /\ home # None /\ home.permit \in Permits
  <2>1. home \in Entry!Home /\ home # None BY DEF Entry!TypeOK, Entry!Submit
  <2>2. home.permit # None BY <2>1 DEF Entry!Submit, FormHasPermit
  <2> QED BY <2>1, <2>2 DEF Entry!Home
<1>2. UNCHANGED <<vault, used, session, page, join, excused, overwritten, left>> BY DEF Entry!Submit
<1>3. /\ home' # None /\ home'.rooms = home.rooms /\ home'.read = home.read
      /\ home'.loading = home.loading /\ home'.permit = home.permit /\ home'.seats = home.seats
      /\ home'.form = home.form
  <2>1. home' = [home EXCEPT !.failed = FALSE, !.creating = TRUE] BY DEF Entry!Submit
  <2>2. home' \in Entry!Home BY <1>1, <2>1 DEF Entry!Home
  <2>3. home' # None BY <2>2, NoneIsNoValue
  <2> QED BY <1>1, <2>1, <2>3 DEF Entry!Home
<1>4. PICK s \in Slots :
           /\ call[s] = None /\ \A t \in Slots \ {s} : call'[t] = call[t]
           /\ call'[s] # None /\ call'[s].room = home.permit /\ call'[s].alive
           /\ call'[s].stage = "request" /\ call' \in [Slots -> Entry!Call \cup {None}]
  <2>1. home.permit \in Entry!RoomNames /\ home.seats \in {0, 2} \cup {SeatsOf[p] : p \in Permits}
    BY <1>1 DEF Entry!RoomNames, Entry!Home
  <2>2. Entry!Asked(home.permit, home.seats) BY DEF Entry!Submit
  <2> QED BY <2>1, <2>2, CallMade
<1>5. /\ Entry!Creates(s)' /\ ~Entry!Joins(s)'
      /\ \A t \in Slots : t # s => /\ Entry!Creates(t)' <=> Entry!Creates(t)
                                   /\ Entry!Joins(t)' <=> Entry!Joins(t)
  BY <1>1, <1>4, PermitsAreNoInvites DEF Entry!Creates, Entry!Joins
<1>6. OnePage' BY <1>1, <1>2, <1>3 DEF OnePage
<1>7. page' = "home" BY <1>1, <1>2 DEF OnePage
<1>8. AliveOnPage' /\ LeftCalls' BY <1>2, <1>4, <1>5, <1>7 DEF AliveOnPage, LeftCalls
<1>9. StoredFirst' BY <1>2, <1>4, <1>5 DEF StoredFirst, Kept
<1>10. SpentInUse' BY <1>2, <1>4, <1>5 DEF SpentInUse, Entry!Creates
<1>11. Coming \subseteq Coming' BY <1>4, <1>5 DEF Coming, Entry!Creates
<1>12. Lists' BY <1>1, <1>2, <1>3, <1>11 DEF Lists
<1>13. FormHasPermit' /\ Offers' BY <1>1, <1>2, <1>3 DEF FormHasPermit, Offers, Entry!Seats
<1>14. Entry!ButtonsComeBack' BY <1>2, <1>4, <1>5, <1>7, <1>6 DEF Entry!ButtonsComeBack, OnePage
<1> QED BY <1>6, <1>8, <1>9, <1>10, <1>12, <1>13, <1>14 DEF EntryRest

\* The page of an invitation starts a redemption.
LEMMA SubmitJoinStep ==
  ASSUME EntryInv, NEW i \in Invites, Entry!SubmitJoin(i)
  PROVE  EntryRest'
<1> USE DEF EntryInv, Entry!server, Entry!bounds, Entry!history
<1>1. join # None /\ join' # None /\ UNCHANGED <<vault, used, session, page, home, excused,
                                                 overwritten, left>>
  <2>1. [joining |-> TRUE, failed |-> FALSE] # None BY JoinIsSomething DEF Entry!Join
  <2> QED BY <2>1 DEF Entry!SubmitJoin
<1>2. page = "join" /\ home = None BY <1>1 DEF OnePage
<1>3. PICK s \in Slots :
           /\ call[s] = None /\ \A t \in Slots \ {s} : call'[t] = call[t]
           /\ call'[s] # None /\ call'[s].room = i /\ call'[s].alive
           /\ call'[s].stage = "request" /\ call' \in [Slots -> Entry!Call \cup {None}]
  <2>1. i \in Entry!RoomNames /\ Entry!Asked(i, 0) BY DEF Entry!RoomNames, Entry!SubmitJoin
  <2> QED BY <2>1, CallMade
<1>4. /\ Entry!Joins(s)' /\ ~Entry!Creates(s)'
      /\ \A t \in Slots : t # s => /\ Entry!Creates(t)' <=> Entry!Creates(t)
                                   /\ Entry!Joins(t)' <=> Entry!Joins(t)
  BY <1>3, PermitsAreNoInvites DEF Entry!Creates, Entry!Joins
<1>5. OnePage' BY <1>1 DEF OnePage
<1>6. AliveOnPage' /\ LeftCalls' BY <1>1, <1>2, <1>3, <1>4 DEF AliveOnPage, LeftCalls
<1>7. StoredFirst' BY <1>1, <1>3, <1>4 DEF StoredFirst
<1>8. SpentInUse' BY <1>1, <1>3, <1>4 DEF SpentInUse, Entry!Creates
<1>9. FormHasPermit' /\ Offers' /\ Lists' BY <1>1, <1>2 DEF FormHasPermit, Offers, Lists
<1>10. Entry!ButtonsComeBack' BY <1>1, <1>2, <1>3, <1>4 DEF Entry!ButtonsComeBack
<1> QED BY <1>5, <1>6, <1>7, <1>8, <1>9, <1>10 DEF EntryRest

\* Every step of the entry pages preserves their invariant.
LEMMA EntryStep == EntryInv /\ Entry!Next => EntryInv'
<1> SUFFICES ASSUME EntryInv, Entry!Next PROVE EntryInv' OBVIOUS
<1>1. Entry!TypeOK' BY EntryTyped
<1>2. EntryRest'
  BY HomeSteps, CallSteps, CreationEnds, RedemptionEnds, JoinedStep, GoToStep, ReloadStep,
     UnlockStep, SubmitStep, SubmitJoinStep DEF Entry!Next
<1> QED BY <1>1, <1>2 DEF EntryInv, EntryRest

\* The home page as it is first mounted.
LEMMA EntryInit == Entry!Init => EntryInv
<1> SUFFICES ASSUME Entry!Init PROVE EntryInv OBVIOUS
<1>1. session \in Permits \cup {None} BY DEF Entry!Init
<1>f. /\ Entry!HomePage # None /\ Entry!JoinPage # None
      /\ Entry!HomePage.rooms = {} /\ Entry!HomePage.read = None /\ Entry!HomePage.loading
      /\ Entry!HomePage.permit = session /\ Entry!HomePage.seats = Entry!Seats(session)
      /\ ~Entry!HomePage.form /\ ~Entry!HomePage.creating /\ ~Entry!JoinPage.joining
  BY <1>1, FreshPages
<1>2. Entry!TypeOK
  <2>1. home \in Entry!Home BY <1>1, HomeFresh DEF Entry!Init
  <2>2. acts \in 0..MaxActs /\ faults \in 0..MaxFaults BY BoundsAreNatural DEF Entry!Init
  <2>3. call \in [Slots -> Entry!Call \cup {None}] BY DEF Entry!Init
  <2>4. /\ vault \subseteq Entry!RoomNames /\ used \subseteq Permits /\ page \in Entry!Pages
        /\ join = None /\ excused \subseteq Permits /\ overwritten \in BOOLEAN /\ left \in BOOLEAN
    BY DEF Entry!Init, Entry!RoomNames, Entry!Pages
  <2> QED BY <1>1, <2>1, <2>2, <2>3, <2>4 DEF Entry!TypeOK
<1>3. OnePage BY <1>f DEF Entry!Init, OnePage
<1>4. AliveOnPage /\ LeftCalls /\ StoredFirst /\ SpentInUse
  BY DEF Entry!Init, AliveOnPage, LeftCalls, StoredFirst, SpentInUse, Entry!Creates
<1>5. FormHasPermit /\ Offers BY <1>f DEF FormHasPermit, Offers, Entry!Init
<1>6. Lists BY <1>f DEF Lists, Entry!Init
<1>7. Entry!ButtonsComeBack BY <1>f DEF Entry!ButtonsComeBack, Entry!Init
<1> QED BY <1>2, <1>3, <1>4, <1>5, <1>6, <1>7 DEF EntryInv

\* What a page at rest shows follows.
LEMMA EntryFollows ==
  EntryInv => /\ Entry!ListsVault /\ Entry!OffersItsPermit
              /\ Entry!SpentIsForgotten /\ Entry!ButtonsComeBack
<1> SUFFICES ASSUME EntryInv
             PROVE  /\ Entry!ListsVault /\ Entry!OffersItsPermit
                    /\ Entry!SpentIsForgotten /\ Entry!ButtonsComeBack
    OBVIOUS
<1>1. Entry!ListsVault
  <2>1. Entry!Resting => Coming = {} BY DEF Entry!Resting, Coming, Entry!Creates
  <2> QED BY <2>1 DEF EntryInv, Lists, Entry!ListsVault
<1>2. Entry!OffersItsPermit BY DEF EntryInv, Offers, Entry!OffersItsPermit
<1>3. Entry!SpentIsForgotten
  BY DEF EntryInv, SpentInUse, Entry!SpentIsForgotten, Entry!Resting, Entry!Creates
<1> QED BY <1>1, <1>2, <1>3 DEF EntryInv

-----------------------------------------------------------------------------
(* The page of a room *)

\* Identifiers are given out in order, one to each attempt and to each click.
Numbered == IF frame = None THEN clicks = 0 ELSE frame.sent = frame.attempt + clicks

\* Nothing is asked, nor posted, before the script has started.
NothingAsked ==
    ~Frame!Started => /\ clicks = 0 /\ subscribed = None /\ handlers = {} /\ pending = {}
                      /\ toPage = <<>> /\ toFrame = <<>>

\* The frame is there once the page has a room and a bundle.
FrameReady ==
    /\ bundle # None => nonce # 0
    /\ frame # None => room # None /\ bundle # None
    /\ frame # None /\ ~Frame!Started => frame = Frame!NotStarted

\* Requests that wait have identifiers of their own and ask for one subscription at most;
\* what is on its way belongs to a request that was made, and is answered as it asks.
PendingFits ==
    /\ \A p, q \in pending : p.id = q.id => p = q
    /\ \A p, q \in pending : p.method = "subscribe" /\ q.method = "subscribe" => p = q
    /\ \A p \in pending : p.id <= frame.sent /\ (p.method = "subscribe" => frame.connecting)
    /\ \A h \in handlers : h.id <= frame.sent /\ (h.method = "update" => h.read = None)
    /\ \A h \in handlers, p \in pending : h.id = p.id => h.method = p.method
    /\ \A i \in DOMAIN toPage : toPage[i].id <= frame.sent
    /\ \A i \in DOMAIN toPage, p \in pending : toPage[i].id = p.id => toPage[i].method = p.method
    /\ \A i \in DOMAIN toFrame : toFrame[i].id <= frame.sent
    /\ \A i \in DOMAIN toFrame : toFrame[i].type = "state" => toFrame[i].value # None

\* A click that is being saved waits for its answer.
Saving ==
    frame # None =>
        /\ frame.status = "saving" => \E p \in pending : p.method = "update"
        /\ frame.status = "saved" => frame.count # None

\* A page that is given no other room loads once, and shows the frame after that.
LoadsOnce ==
    ~jumped =>
        /\ \A l \in loads : l.active /\ l.room = roomId /\ loading /\ frame = None /\ bundle = None
        /\ \A l, m \in loads : l = m
        /\ {room, bundle} \subseteq {roomId, None}

\* The frame has started, of a page that was given no other room.
Talks == ~jumped /\ Frame!Started

\* The frame, the bridge and the messages are of the one bundle.
OneNonce ==
    Talks =>
        /\ frame.nonce = nonce
        /\ \A i \in DOMAIN toPage : toPage[i].nonce = nonce
        /\ \A i \in DOMAIN toFrame : toFrame[i].nonce = nonce
        /\ \A h \in handlers : h.nonce = nonce /\ h.room = room

\* The first message the bridge takes up is a subscription.
SubscribesFirst ==
    Talks =>
        \/ subscribed = [room |-> room, nonce |-> nonce]
        \/ /\ subscribed = None /\ handlers = {} /\ toFrame = <<>> /\ frame.count = None
           /\ toPage # <<>> /\ toPage[1].method = "subscribe"

\* Nothing that is shown, read or posted is later than the counter.
NoLater ==
    Talks =>
        /\ frame.count # None => frame.count <= value[room]
        /\ \A h \in handlers : h.read # None => h.read <= value[room]
        /\ \A i \in DOMAIN toFrame : toFrame[i].value # None => toFrame[i].value <= value[room]

\* Message i is the notification of the present counter; one follows at i or later.
News(i) == i \in DOMAIN toFrame /\ toFrame[i].type = "state" /\ toFrame[i].value = value[room]
NewsFrom(i) == \E k \in DOMAIN toFrame : i <= k /\ News(k)
\* A message that answers a click that still waits.
AnswersClick(m) == m.type = "response" /\ \E p \in pending : p.id = m.id /\ p.method = "update"

\* A notification on its way, or the answer to a click, is the latest, or the latest follows.
LatestFollows ==
    Talks /\ ~unseen =>
        \A i \in DOMAIN toFrame :
            /\ toFrame[i].type = "state" => NewsFrom(i)
            /\ AnswersClick(toFrame[i]) => toFrame[i].value \in {value[room], None} \/ NewsFrom(i)

\* When no such notification is on its way, the frame shows the counter, or has been told an
\* older one by the answer to its subscription, after which no such answer comes; or it has
\* been told nothing, and will be told the counter.
LatestShown ==
    Talks /\ ~unseen /\ (\A k \in DOMAIN toFrame : ~News(k)) =>
        IF frame.count = None
        THEN /\ \A i \in DOMAIN toFrame : toFrame[i].value \in {value[room], None}
             /\ \A h \in handlers : h.read \in {value[room], None}
        ELSE frame.count = value[room] \/ (lowered /\ ~frame.connecting)

\* The inductive invariant of the page: its requests, and what it has been told.
FrameBasic == Numbered /\ NothingAsked /\ FrameReady /\ PendingFits /\ Saving /\ LoadsOnce
FrameTold == OneNonce /\ SubscribesFirst /\ NoLater /\ LatestFollows /\ LatestShown
FrameInv == Frame!TypeOK /\ FrameBasic /\ FrameTold

\* What appending to a sequence and taking its tail do.
LEMMA Appended ==
  ASSUME NEW S, NEW q \in Seq(S), NEW e \in S
  PROVE  /\ Append(q, e) \in Seq(S) /\ Append(q, e) # <<>>
         /\ DOMAIN Append(q, e) = (DOMAIN q) \cup {Len(q) + 1}
         /\ Len(q) \in Nat /\ DOMAIN q = 1..Len(q)
         /\ \A i \in DOMAIN q : Append(q, e)[i] = q[i] /\ i <= Len(q)
         /\ Append(q, e)[Len(q) + 1] = e
OBVIOUS

\* What taking the first element off a sequence leaves.
LEMMA TakenOff ==
  ASSUME NEW S, NEW q \in Seq(S), q # <<>>
  PROVE  /\ Tail(q) \in Seq(S) /\ Head(q) = q[1] /\ Head(q) \in S
         /\ 1 \in DOMAIN q /\ DOMAIN q \subseteq Nat \ {0}
         /\ \A i \in DOMAIN Tail(q) : i + 1 \in DOMAIN q /\ Tail(q)[i] = q[i + 1] /\ i \in Nat
         /\ \A i \in DOMAIN q : i # 1 => i - 1 \in DOMAIN Tail(q)
OBVIOUS

\* The notification and the answer are posted one after the other.
LEMMA BothPosted ==
  ASSUME NEW S, NEW q \in Seq(S), NEW a \in S, NEW b \in S
  PROVE  /\ q \o <<>> \o <<b>> = Append(q, b)
         /\ q \o <<a>> = Append(q, a)
         /\ q \o <<a>> \o <<b>> = Append(Append(q, a), b)
<1>1. q \o <<>> = q OBVIOUS
<1>2. \A r \in Seq(S), x \in S : r \o <<x>> = Append(r, x) OBVIOUS
<1>3. Append(q, a) \in Seq(S) OBVIOUS
<1> QED BY <1>1, <1>2, <1>3

\* The script of a frame that was just mounted.
LEMMA NotStartedFits ==
  Frame!NotStarted \in Frame!Script /\ Frame!NotStarted # None /\ Frame!NotStarted.nonce = 0
  /\ Frame!NotStarted.sent = 0 /\ Frame!NotStarted.attempt = 0
  /\ Frame!NotStarted.status = "connecting" /\ Frame!NotStarted.count = None
<1>1. Frame!NotStarted \in Frame!Script
  BY BoundsAreNatural DEF Frame!NotStarted, Frame!Script, Frame!Ids
<1>2. Frame!NotStarted # None BY <1>1, NoneIsNoValue
<1> QED BY <1>1, <1>2 DEF Frame!NotStarted

\* The bound on faults is kept.
LEMMA FaultCounted ==
  ASSUME Frame!Fault, faults \in 0..FrameFaults
  PROVE  faults' \in 0..FrameFaults
<1>1. FrameFaults \in Nat BY BoundsAreNatural
<1> QED BY <1>1 DEF Frame!Fault

\* The page loads.
LEMMA LoadSteps ==
  ASSUME FrameInv, NEW l \in loads, Frame!GetRoom(l) \/ Frame!LoadBundle(l) \/ Frame!LoadFails(l)
  PROVE  FrameInv'
<1> USE DEF FrameInv, Frame!wires, Frame!bounds, Frame!history, Frame!bridge
<1>1. /\ UNCHANGED <<value, roomId, handlers, pending, toPage, toFrame, clicks, applied, jumps,
                     lowered, unseen, jumped>>
      /\ frame' = Frame!Mounted
      /\ subscribed' \in {subscribed, None}
  BY DEF Frame!GetRoom, Frame!LoadBundle, Frame!LoadFails
<1>2. \/ frame' = frame
      \/ frame = None /\ frame' = Frame!NotStarted /\ room' # None /\ bundle' # None /\ ~loading'
  BY <1>1 DEF Frame!Mounted
<1>3. Frame!Started' <=> Frame!Started BY <1>2, NotStartedFits DEF Frame!Started
<1>4. l \in [room : Rooms, stage : {"room", "bundle"}, active : BOOLEAN] BY DEF Frame!TypeOK
<1>5. /\ room # None => room' # None
      /\ bundle # None => bundle' # None
      /\ {room', bundle'} \subseteq Rooms \cup {None}
      /\ nonce' \in {nonce, nonce + 1} /\ (bundle' # bundle => nonce' = nonce + 1)
  BY <1>4, NoneIsNoValue DEF Frame!GetRoom, Frame!LoadBundle, Frame!LoadFails, Frame!TypeOK
<1>6. Frame!TypeOK'
  <2>1. frame' \in Frame!Script \cup {None} BY <1>2, NotStartedFits DEF Frame!TypeOK
  <2>2. loads' \subseteq [room : Rooms, stage : {"room", "bundle"}, active : BOOLEAN]
    <3>1. [l EXCEPT !.stage = "bundle"] \in [room : Rooms, stage : {"room", "bundle"}, active : BOOLEAN]
      BY <1>4
    <3> QED BY <3>1 DEF Frame!TypeOK, Frame!GetRoom, Frame!LoadBundle, Frame!LoadFails
  <2>3. loading' \in BOOLEAN
    BY DEF Frame!TypeOK, Frame!GetRoom, Frame!LoadBundle, Frame!LoadFails
  <2>4. faults' \in 0..FrameFaults
    <3>1. faults' = faults \/ Frame!Fault BY DEF Frame!GetRoom, Frame!LoadBundle, Frame!LoadFails
    <3> QED BY <3>1, FaultCounted DEF Frame!TypeOK
  <2> QED BY <1>1, <1>5, <2>1, <2>2, <2>3, <2>4 DEF Frame!TypeOK
<1>7. Numbered' /\ Saving' BY <1>1, <1>2, NotStartedFits DEF FrameBasic, Numbered, Saving
<1>8. NothingAsked' BY <1>1, <1>3 DEF FrameBasic, NothingAsked
<1>9. FrameReady' BY <1>1, <1>2, <1>3, <1>5, NotStartedFits DEF FrameBasic, FrameReady, Frame!TypeOK
<1>10. PendingFits'
  <2>1. CASE Frame!Started BY <1>1, <1>2, <2>1 DEF FrameBasic, PendingFits, Frame!Started
  <2>2. CASE ~Frame!Started BY <1>1, <2>2 DEF FrameBasic, PendingFits, NothingAsked
  <2> QED BY <2>1, <2>2
<1>11. LoadsOnce'
  <2> SUFFICES ASSUME ~jumped PROVE LoadsOnce' BY <1>1 DEF LoadsOnce
  <2>1. l.active /\ l.room = roomId /\ loading /\ frame = None /\ bundle = None /\ loads = {l}
    BY DEF FrameBasic, LoadsOnce
  <2>2. {room, bundle} \subseteq {roomId, None} BY DEF FrameBasic, LoadsOnce
  <2>3. CASE Frame!GetRoom(l)
    <3>1. /\ loads' = {[l EXCEPT !.stage = "bundle"]} /\ room' = roomId /\ loading' = loading /\ bundle' = bundle
      BY <2>1, <2>3 DEF Frame!GetRoom
    <3>2. frame' = None BY <1>2, <2>1, <3>1
    <3>3. [l EXCEPT !.stage = "bundle"].active /\ [l EXCEPT !.stage = "bundle"].room = roomId
      BY <1>4, <2>1
    <3> QED BY <1>1, <2>1, <2>2, <3>1, <3>2, <3>3 DEF LoadsOnce
  <2>4. CASE Frame!LoadBundle(l) \/ Frame!LoadFails(l)
    <3>1. loads' = {} /\ room' = room /\ bundle' \in {bundle, roomId}
      BY <2>1, <2>4 DEF Frame!LoadBundle, Frame!LoadFails
    <3> QED BY <1>1, <2>2, <3>1 DEF LoadsOnce
  <2> QED BY <2>3, <2>4
<1>12. FrameTold'
  <2>1. ~Talks' BY <1>1, <1>3 DEF FrameBasic, LoadsOnce, Talks, Frame!Started
  <2> QED BY <2>1 DEF FrameTold, OneNonce, SubscribesFirst, NoLater, LatestFollows, LatestShown
<1> QED BY <1>6, <1>7, <1>8, <1>9, <1>10, <1>11, <1>12 DEF FrameBasic

\* Another room is gone to.
LEMMA JumpStep ==
  ASSUME FrameInv, NEW r \in Rooms, Frame!Jump(r)
  PROVE  FrameInv'
<1> USE DEF FrameInv, Frame!wires, Frame!bridge, Frame!script
<1>1. /\ UNCHANGED <<value, room, bundle, loading, nonce, subscribed, handlers, frame, pending,
                     toPage, toFrame,
                     clicks, applied, faults, lowered, unseen>>
      /\ roomId' = r /\ jumped' = TRUE
      /\ loads' = {[l EXCEPT !.active = FALSE] : l \in loads}
                    \cup {[room |-> r, stage |-> "room", active |-> TRUE]}
  BY DEF Frame!Jump
<1>2. Frame!TypeOK'
  <2>1. jumps' \in 0..MaxJumps
    <3>1. jumps < MaxJumps /\ jumps' = jumps + 1 BY DEF Frame!Jump
    <3>2. jumps \in 0..MaxJumps /\ MaxJumps \in Nat BY BoundsAreNatural DEF Frame!TypeOK
    <3> QED BY <3>1, <3>2
  <2>2. loads' \subseteq [room : Rooms, stage : {"room", "bundle"}, active : BOOLEAN]
    <3>1. SUFFICES ASSUME NEW x \in loads'
                   PROVE  x \in [room : Rooms, stage : {"room", "bundle"}, active : BOOLEAN]
      OBVIOUS
    <3>2. CASE x = [room |-> r, stage |-> "room", active |-> TRUE] BY <3>2
    <3>3. CASE \E l \in loads : x = [l EXCEPT !.active = FALSE]
      <4>1. PICK l \in loads : x = [l EXCEPT !.active = FALSE] BY <3>3
      <4>2. l \in [room : Rooms, stage : {"room", "bundle"}, active : BOOLEAN] BY DEF Frame!TypeOK
      <4> QED BY <4>1, <4>2
    <3> QED BY <1>1, <3>2, <3>3
  <2> QED BY <1>1, <2>1, <2>2 DEF Frame!TypeOK
<1>3. FrameBasic'
  BY <1>1
    DEF FrameBasic, Numbered, NothingAsked, FrameReady, PendingFits, Saving, LoadsOnce,
        Frame!Started
<1>4. FrameTold'
  BY <1>1 DEF FrameTold, Talks, OneNonce, SubscribesFirst, NoLater, LatestFollows, LatestShown
<1> QED BY <1>2, <1>3, <1>4

\* What a request of the script does: it takes the next identifier.
LEMMA Called ==
  ASSUME FrameInv, NEW method \in Frame!Methods, NEW f \in Frame!Script, Frame!Call(method, f),
         f.sent = frame.sent, f.sent + 1 \in Frame!Ids, f.nonce # 0,
         UNCHANGED <<handlers, toFrame>>,
         method = "subscribe" => \A p \in pending : p.method # "subscribe",
         method = "subscribe" \/ f.connecting = frame.connecting,
         method = "subscribe" => f.connecting
  PROVE  /\ frame' \in Frame!Script /\ frame' # None /\ pending' \subseteq Frame!Requests
         /\ frame'.nonce = f.nonce /\ frame'.sent = f.sent + 1 /\ frame'.attempt = f.attempt
         /\ frame'.connecting = f.connecting /\ frame'.status = f.status /\ frame'.count = f.count
         /\ Frame!Started'
         /\ pending \subseteq pending' /\ \E p \in pending' : p.method = method
         /\ \A i \in DOMAIN toFrame : AnswersClick(toFrame[i])' => AnswersClick(toFrame[i])
         /\ toPage' \in Seq(Frame!Asked) /\ toPage' # <<>>
         /\ DOMAIN toPage \subseteq DOMAIN toPage'
         /\ \A i \in DOMAIN toPage : toPage'[i] = toPage[i]
         /\ toPage'[Len(toPage) + 1].nonce = f.nonce /\ toPage'[Len(toPage) + 1].method = method
         /\ DOMAIN toPage' = (DOMAIN toPage) \cup {Len(toPage) + 1}
         /\ PendingFits'
<1> DEFINE n == f.sent + 1
           p1 == [id |-> n, method |-> method]
           m1 == [id |-> n, method |-> method, nonce |-> f.nonce]
<1>1. /\ frame' = [f EXCEPT !.sent = n] /\ pending' = pending \cup {p1} /\ toPage' = Append(toPage, m1)
  BY DEF Frame!Call, Frame!Script
<1>2. n \in Frame!Ids /\ n \in Nat /\ n > f.sent /\ f.sent \in Nat /\ f.nonce \in Nat
  BY BoundsAreNatural DEF Frame!Script, Frame!Ids
<1>3. p1 \in Frame!Requests /\ m1 \in Frame!Asked BY <1>2 DEF Frame!Requests, Frame!Asked
<1>4. p1.id = n /\ p1.method = method /\ m1.id = n /\ m1.method = method /\ m1.nonce = f.nonce OBVIOUS
<1> HIDE DEF p1, m1
<1>5. frame' \in Frame!Script BY <1>1, <1>2 DEF Frame!Script
<1>6. /\ frame'.nonce = f.nonce /\ frame'.sent = n /\ frame'.attempt = f.attempt
      /\ frame'.connecting = f.connecting /\ frame'.status = f.status /\ frame'.count = f.count
  BY <1>1 DEF Frame!Script
<1>7. frame' # None BY <1>5, NoneIsNoValue
<1>8. Frame!Started' BY <1>6, <1>7 DEF Frame!Started
<1>9. toPage \in Seq(Frame!Asked) /\ pending \subseteq Frame!Requests /\ handlers \subseteq Frame!Handler
      /\ toFrame \in Seq(Frame!Posted)
  BY DEF FrameInv, Frame!TypeOK
<1>10. /\ toPage' \in Seq(Frame!Asked) /\ toPage' # <<>>
       /\ DOMAIN toPage' = (DOMAIN toPage) \cup {Len(toPage) + 1}
       /\ \A i \in DOMAIN toPage : toPage'[i] = toPage[i]
       /\ toPage'[Len(toPage) + 1] = m1
  BY <1>1, <1>3, <1>9, Appended
<1>11. pending' \subseteq Frame!Requests BY <1>1, <1>3, <1>9
<1>12. /\ \A p \in pending : p.id \in Nat /\ p.id < n
       /\ \A h \in handlers : h.id \in Nat /\ h.id < n
       /\ \A i \in DOMAIN toPage : toPage[i].id \in Nat /\ toPage[i].id < n
       /\ \A i \in DOMAIN toFrame : toFrame[i].id \in Nat /\ toFrame[i].id < n
  <2>1. \A x, y \in Nat : x <= y /\ y < n => x < n BY <1>2
  <2>2. /\ \A p \in pending : p.id \in Nat
        /\ \A h \in handlers : h.id \in Nat
        /\ \A i \in DOMAIN toPage : toPage[i].id \in Nat
        /\ \A i \in DOMAIN toFrame : toFrame[i].id \in Nat
    <3>1. Frame!Ids \cup {0} \subseteq Nat BY BoundsAreNatural DEF Frame!Ids
    <3>2. \A p \in pending : p.id \in Nat BY <1>9, <3>1 DEF Frame!Requests
    <3>3. \A h \in handlers : h.id \in Nat BY <1>9, <3>1 DEF Frame!Handler
    <3>4. \A i \in DOMAIN toPage : toPage[i].id \in Nat
      <4>1. \A i \in DOMAIN toPage : toPage[i] \in Frame!Asked BY <1>9
      <4> QED BY <3>1, <4>1 DEF Frame!Asked
    <3>5. \A i \in DOMAIN toFrame : toFrame[i].id \in Nat
      <4>1. \A i \in DOMAIN toFrame : toFrame[i] \in Frame!Posted BY <1>9
      <4> QED BY <3>1, <4>1 DEF Frame!Posted
    <3> QED BY <3>2, <3>3, <3>4, <3>5
  <2>3. PendingFits BY DEF FrameInv, FrameBasic
  <2> QED BY <1>2, <2>1, <2>2, <2>3 DEF PendingFits
<1>13. \A i \in DOMAIN toFrame : AnswersClick(toFrame[i])' => AnswersClick(toFrame[i])
  BY <1>1, <1>4, <1>12 DEF AnswersClick
<1>14. PendingFits'
  <2>0. PendingFits BY DEF FrameInv, FrameBasic
  <2>1. \A p, q \in pending' : p.id = q.id => p = q
    BY <1>1, <1>4, <1>12, <2>0 DEF PendingFits
  <2>2. \A p, q \in pending' : p.method = "subscribe" /\ q.method = "subscribe" => p = q
    BY <1>1, <1>4, <2>0 DEF PendingFits
  <2>3. \A p \in pending' : p.id <= frame'.sent /\ (p.method = "subscribe" => frame'.connecting)
    BY <1>1, <1>2, <1>4, <1>6, <1>12, <2>0 DEF PendingFits
  <2>4. \A h \in handlers' : h.id <= frame'.sent /\ (h.method = "update" => h.read = None)
    BY <1>2, <1>6, <1>12, <2>0 DEF PendingFits
  <2>5. \A h \in handlers', p \in pending' : h.id = p.id => h.method = p.method
    BY <1>1, <1>4, <1>12, <2>0 DEF PendingFits
  <2>6. \A i \in DOMAIN toPage' : toPage'[i].id <= frame'.sent
    BY <1>2, <1>4, <1>6, <1>10, <1>12
  <2>7. \A i \in DOMAIN toPage', p \in pending' : toPage'[i].id = p.id => toPage'[i].method = p.method
    BY <1>1, <1>4, <1>10, <1>12, <2>0 DEF PendingFits
  <2>8. \A i \in DOMAIN toFrame' : toFrame'[i].id <= frame'.sent
    BY <1>2, <1>6, <1>12
  <2>9. \A i \in DOMAIN toFrame' : toFrame'[i].type = "state" => toFrame'[i].value # None
    BY <2>0 DEF PendingFits
  <2> QED BY <2>1, <2>2, <2>3, <2>4, <2>5, <2>6, <2>7, <2>8, <2>9 DEF PendingFits
<1>15. pending \subseteq pending' /\ \E p \in pending' : p.method = method BY <1>1, <1>4
<1> QED BY <1>4, <1>5, <1>6, <1>7, <1>8, <1>10, <1>11, <1>13, <1>14, <1>15

\* A request of the script leaves what it was told as it was.
LEMMA ToldStays ==
  ASSUME FrameInv, Frame!Started, Frame!Started',
         UNCHANGED <<value, room, nonce, subscribed, handlers, toFrame, lowered, unseen, jumped>>,
         frame'.nonce = frame.nonce, frame'.count = frame.count,
         frame'.connecting => frame.connecting,
         \A i \in DOMAIN toFrame : AnswersClick(toFrame[i])' => AnswersClick(toFrame[i]),
         toPage # <<>> => toPage' # <<>> /\ toPage'[1].method = toPage[1].method,
         Talks => \A i \in DOMAIN toPage' : toPage'[i].nonce = nonce
  PROVE  FrameTold'
<1> USE DEF FrameInv, FrameTold
<1>1. Talks' <=> Talks BY DEF Talks
<1>2. OneNonce' BY <1>1 DEF OneNonce
<1>3. SubscribesFirst' BY <1>1 DEF SubscribesFirst
<1>4. NoLater' BY <1>1 DEF NoLater
<1>5. \A i : News(i)' <=> News(i) BY DEF News
<1>6. \A i : NewsFrom(i)' <=> NewsFrom(i) BY <1>5 DEF NewsFrom
<1>7. LatestFollows' BY <1>1, <1>6 DEF LatestFollows
<1>8. LatestShown' BY <1>1, <1>5 DEF LatestShown
<1> QED BY <1>2, <1>3, <1>4, <1>7, <1>8

\* The script starts, and asks for a subscription.
LEMMA FrameStartsStep ==
  ASSUME FrameInv, Frame!FrameStarts
  PROVE  FrameInv'
<1> USE DEF FrameInv, Frame!page, Frame!bridge, Frame!bounds, Frame!history
<1>1. /\ frame # None /\ ~Frame!Started
      /\ UNCHANGED <<value, roomId, loads, room, bundle, loading, nonce, subscribed, handlers,
                     toFrame,
                     clicks, applied, jumps, faults, lowered, unseen, jumped>>
  BY DEF Frame!FrameStarts
<1>2. /\ subscribed = None /\ handlers = {} /\ pending = {} /\ toPage = <<>> /\ toFrame = <<>> /\ clicks = 0
      /\ frame = Frame!NotStarted /\ nonce # 0
  BY <1>1 DEF FrameBasic, NothingAsked, FrameReady
<1> DEFINE f == [frame EXCEPT !.nonce = nonce, !.attempt = 1, !.connecting = TRUE]
<1>3. Frame!Call("subscribe", f) BY DEF Frame!FrameStarts
<1>4. /\ f \in Frame!Script /\ f.sent = 0 /\ f.attempt = 1 /\ f.connecting = TRUE /\ f.nonce = nonce
      /\ f.count = None /\ f.status = "connecting" /\ frame.sent = 0
  <2>1. frame \in Frame!Script BY <1>2, NotStartedFits
  <2>2. nonce \in Nat /\ 1 \in 0..MaxAttempts BY BoundsAreNatural DEF Frame!TypeOK
  <2>3. f \in Frame!Script BY <2>1, <2>2 DEF Frame!Script
  <2>4. /\ f.sent = frame.sent /\ f.attempt = 1 /\ f.connecting = TRUE /\ f.nonce = nonce
        /\ f.count = frame.count /\ f.status = frame.status
    BY <2>1 DEF Frame!Script
  <2> QED BY <1>2, <2>3, <2>4, NotStartedFits
<1> HIDE DEF f
<1>5. /\ frame' \in Frame!Script /\ frame' # None /\ pending' \subseteq Frame!Requests
      /\ frame'.nonce = nonce /\ frame'.sent = 1 /\ frame'.attempt = 1
      /\ frame'.status = "connecting" /\ frame'.count = None
      /\ Frame!Started' /\ toPage' \in Seq(Frame!Asked) /\ toPage' # <<>>
      /\ toPage'[Len(toPage) + 1].nonce = nonce /\ toPage'[Len(toPage) + 1].method = "subscribe"
      /\ DOMAIN toPage' = (DOMAIN toPage) \cup {Len(toPage) + 1}
      /\ PendingFits'
  <2>1. "subscribe" \in Frame!Methods /\ f.sent + 1 \in Frame!Ids
    BY <1>4, BoundsAreNatural DEF Frame!Methods, Frame!Ids
  <2> QED BY <1>1, <1>2, <1>3, <1>4, <2>1, Called
<1>6. Len(toPage) + 1 = 1 /\ DOMAIN toPage' = {1} BY <1>2, <1>5
<1>7. Frame!TypeOK' BY <1>1, <1>5 DEF Frame!TypeOK
<1>8. FrameBasic'
  <2>1. Numbered' BY <1>1, <1>2, <1>5 DEF Numbered
  <2>2. NothingAsked' BY <1>5 DEF NothingAsked
  <2>3. FrameReady' BY <1>1, <1>5 DEF FrameBasic, FrameReady
  <2>4. Saving' BY <1>5 DEF Saving
  <2>5. LoadsOnce' BY <1>1, <1>5 DEF FrameBasic, LoadsOnce
  <2> QED BY <1>5, <2>1, <2>2, <2>3, <2>4, <2>5 DEF FrameBasic
<1>9. FrameTold'
  <2>1. OneNonce' BY <1>1, <1>2, <1>5, <1>6 DEF OneNonce
  <2>2. SubscribesFirst' BY <1>1, <1>2, <1>5, <1>6 DEF SubscribesFirst
  <2>3. NoLater' /\ LatestFollows' /\ LatestShown'
    BY <1>1, <1>2, <1>5 DEF NoLater, LatestFollows, LatestShown
  <2> QED BY <2>1, <2>2, <2>3 DEF FrameTold
<1> QED BY <1>7, <1>8, <1>9

\* The messages the page has been sent already are those of before.
LEMMA AskedMore ==
  ASSUME FrameInv, toPage' \in Seq(Frame!Asked), DOMAIN toPage \subseteq DOMAIN toPage',
         DOMAIN toPage' = (DOMAIN toPage) \cup {Len(toPage) + 1},
         \A i \in DOMAIN toPage : toPage'[i] = toPage[i],
         toPage'[Len(toPage) + 1].nonce = frame.nonce
  PROVE  /\ toPage # <<>> => toPage' # <<>> /\ toPage'[1].method = toPage[1].method
         /\ Talks => \A i \in DOMAIN toPage' : toPage'[i].nonce = nonce
<1>1. toPage \in Seq(Frame!Asked) BY DEF FrameInv, Frame!TypeOK
<1>2. toPage # <<>> => 1 \in DOMAIN toPage BY <1>1
<1> QED BY <1>1, <1>2 DEF FrameInv, FrameTold, OneNonce

\* The button of the frame.
LEMMA ClickStep ==
  ASSUME FrameInv, Frame!Click
  PROVE  FrameInv'
<1> USE DEF FrameInv, Frame!page, Frame!bridge, Frame!bounds, Frame!history
<1>1. /\ Frame!Started /\ clicks < MaxClicks /\ clicks' = clicks + 1
      /\ UNCHANGED <<value, roomId, loads, room, bundle, loading, nonce, subscribed, handlers,
                     toFrame,
                     applied, jumps, faults, lowered, unseen, jumped>>
  BY DEF Frame!Click
<1> DEFINE f == [frame EXCEPT !.status = "saving"]
<1>2. Frame!Call("update", f) BY DEF Frame!Click
<1>3. frame \in Frame!Script /\ frame # None /\ frame.nonce # 0
  BY <1>1 DEF Frame!TypeOK, Frame!Started
<1>4. /\ f \in Frame!Script /\ f.sent = frame.sent /\ f.attempt = frame.attempt
      /\ f.connecting = frame.connecting /\ f.nonce = frame.nonce
      /\ f.count = frame.count /\ f.status = "saving"
  BY <1>3 DEF Frame!Script
<1> HIDE DEF f
<1>5. /\ clicks \in Nat /\ clicks' \in 0..MaxClicks /\ frame.sent = frame.attempt + clicks
      /\ frame.attempt \in 0..MaxAttempts /\ f.sent + 1 \in Frame!Ids
  <2>1. frame.attempt \in 0..MaxAttempts BY <1>3 DEF Frame!Script
  <2>2. frame.sent = frame.attempt + clicks BY <1>3 DEF FrameBasic, Numbered
  <2>3. clicks \in 0..MaxClicks BY DEF Frame!TypeOK
  <2>4. MaxClicks \in Nat /\ MaxAttempts \in Nat BY BoundsAreNatural
  <2>5. clicks \in Nat /\ clicks' \in 0..MaxClicks BY <1>1, <2>3, <2>4
  <2>6. f.sent + 1 \in Frame!Ids BY <1>1, <1>4, <2>1, <2>2, <2>3, <2>4 DEF Frame!Ids
  <2> QED BY <2>1, <2>2, <2>5, <2>6
<1>6. /\ frame' \in Frame!Script /\ frame' # None /\ pending' \subseteq Frame!Requests
      /\ frame'.nonce = frame.nonce /\ frame'.sent = frame.sent + 1 /\ frame'.attempt = frame.attempt
      /\ frame'.connecting = frame.connecting /\ frame'.status = "saving" /\ frame'.count = frame.count
      /\ Frame!Started' /\ \E p \in pending' : p.method = "update"
      /\ \A i \in DOMAIN toFrame : AnswersClick(toFrame[i])' => AnswersClick(toFrame[i])
      /\ toPage' \in Seq(Frame!Asked)
      /\ DOMAIN toPage \subseteq DOMAIN toPage' /\ \A i \in DOMAIN toPage : toPage'[i] = toPage[i]
      /\ toPage'[Len(toPage) + 1].nonce = frame.nonce
      /\ DOMAIN toPage' = (DOMAIN toPage) \cup {Len(toPage) + 1}
      /\ PendingFits'
  <2>1. "update" \in Frame!Methods /\ "update" # "subscribe" BY DEF Frame!Methods
  <2> QED BY <1>1, <1>2, <1>3, <1>4, <1>5, <2>1, Called
<1>7. Frame!TypeOK' BY <1>1, <1>5, <1>6 DEF Frame!TypeOK
<1>8. FrameBasic'
  <2>1. Numbered' BY <1>1, <1>5, <1>6 DEF Numbered
  <2>2. NothingAsked' BY <1>6 DEF NothingAsked
  <2>3. FrameReady' BY <1>1, <1>3, <1>6 DEF FrameBasic, FrameReady
  <2>4. Saving' BY <1>6 DEF Saving
  <2>5. LoadsOnce' BY <1>1, <1>3, <1>6 DEF FrameBasic, LoadsOnce
  <2> QED BY <1>6, <2>1, <2>2, <2>3, <2>4, <2>5 DEF FrameBasic
<1>9. FrameTold' BY <1>1, <1>6, AskedMore, ToldStays
<1> QED BY <1>7, <1>8, <1>9

\* A subscription that failed is asked for again, or given up.
LEMMA SubscribeAgainStep ==
  ASSUME FrameInv, Frame!SubscribeAgain
  PROVE  FrameInv'
<1> USE DEF FrameInv, Frame!page, Frame!bridge, Frame!bounds, Frame!history
<1>1. /\ Frame!Started /\ frame.connecting /\ \A p \in pending : p.method # "subscribe"
      /\ UNCHANGED <<value, roomId, loads, room, bundle, loading, nonce, subscribed, handlers,
                     toFrame,
                     clicks, applied, jumps, faults, lowered, unseen, jumped>>
  BY DEF Frame!SubscribeAgain
<1>3. frame \in Frame!Script /\ frame # None /\ frame.nonce # 0
  BY <1>1 DEF Frame!TypeOK, Frame!Started
<1>a. CASE frame.attempt < MaxAttempts
  <2> DEFINE f == [frame EXCEPT !.attempt = frame.attempt + 1]
  <2>2. Frame!Call("subscribe", f) BY <1>a DEF Frame!SubscribeAgain
  <2>3. /\ clicks \in 0..MaxClicks /\ frame.sent = frame.attempt + clicks
        /\ frame.attempt \in 0..MaxAttempts /\ frame.sent + 1 \in Frame!Ids
        /\ frame.attempt + 1 \in 0..MaxAttempts
    <3>1. frame.attempt \in 0..MaxAttempts BY <1>3 DEF Frame!Script
    <3>2. frame.sent = frame.attempt + clicks BY <1>3 DEF FrameBasic, Numbered
    <3>3. clicks \in 0..MaxClicks BY DEF Frame!TypeOK
    <3>4. MaxClicks \in Nat /\ MaxAttempts \in Nat BY BoundsAreNatural
    <3>5. frame.sent + 1 \in Frame!Ids BY <1>a, <3>1, <3>2, <3>3, <3>4 DEF Frame!Ids
    <3> QED BY <1>a, <3>1, <3>2, <3>3, <3>4, <3>5
  <2>4. /\ f \in Frame!Script /\ f.sent = frame.sent /\ f.attempt = frame.attempt + 1
        /\ f.connecting = frame.connecting /\ f.nonce = frame.nonce
        /\ f.count = frame.count /\ f.status = frame.status
    BY <1>3, <2>3 DEF Frame!Script
  <2> HIDE DEF f
  <2>6. /\ frame' \in Frame!Script /\ frame' # None /\ pending' \subseteq Frame!Requests
        /\ frame'.nonce = frame.nonce /\ frame'.sent = frame.sent + 1 /\ frame'.attempt = frame.attempt + 1
        /\ frame'.connecting = frame.connecting /\ frame'.status = frame.status /\ frame'.count = frame.count
        /\ Frame!Started' /\ pending \subseteq pending'
        /\ \A i \in DOMAIN toFrame : AnswersClick(toFrame[i])' => AnswersClick(toFrame[i])
        /\ toPage' \in Seq(Frame!Asked)
        /\ DOMAIN toPage \subseteq DOMAIN toPage' /\ \A i \in DOMAIN toPage : toPage'[i] = toPage[i]
        /\ toPage'[Len(toPage) + 1].nonce = frame.nonce
        /\ DOMAIN toPage' = (DOMAIN toPage) \cup {Len(toPage) + 1}
        /\ PendingFits'
    <3>1. "subscribe" \in Frame!Methods BY DEF Frame!Methods
    <3> QED BY <1>1, <1>3, <2>2, <2>3, <2>4, <3>1, Called
  <2>7. Frame!TypeOK' BY <1>1, <2>6 DEF Frame!TypeOK
  <2>8. FrameBasic'
    <3>1. Numbered'
      <4>1. frame.attempt \in Nat /\ clicks \in Nat BY <2>3, BoundsAreNatural
      <4> QED BY <1>1, <2>3, <2>6, <4>1 DEF Numbered
    <3>2. NothingAsked' BY <2>6 DEF NothingAsked
    <3>3. FrameReady' BY <1>1, <1>3, <2>6 DEF FrameBasic, FrameReady
    <3>4. Saving' BY <1>3, <2>6 DEF FrameBasic, Saving
    <3>5. LoadsOnce' BY <1>1, <1>3, <2>6 DEF FrameBasic, LoadsOnce
    <3> QED BY <2>6, <3>1, <3>2, <3>3, <3>4, <3>5 DEF FrameBasic
  <2>9. FrameTold' BY <1>1, <2>6, AskedMore, ToldStays
  <2> QED BY <2>7, <2>8, <2>9
<1>b. CASE ~(frame.attempt < MaxAttempts)
  <2>1. frame' = [frame EXCEPT !.connecting = FALSE, !.status = "unavailable"] /\ UNCHANGED <<pending, toPage>>
    BY <1>b DEF Frame!SubscribeAgain
  <2>2. /\ frame' \in Frame!Script
        /\ frame'.nonce = frame.nonce /\ frame'.sent = frame.sent /\ frame'.attempt = frame.attempt
        /\ frame'.connecting = FALSE /\ frame'.status = "unavailable" /\ frame'.count = frame.count
    BY <1>3, <2>1 DEF Frame!Script
  <2>3. frame' # None /\ Frame!Started' BY <1>3, <2>2, NoneIsNoValue DEF Frame!Started
  <2>4. Frame!TypeOK' BY <1>1, <2>1, <2>2 DEF Frame!TypeOK
  <2>5. FrameBasic'
    <3>1. Numbered' BY <1>1, <1>3, <2>2, <2>3 DEF FrameBasic, Numbered
    <3>2. NothingAsked' BY <2>3 DEF NothingAsked
    <3>3. FrameReady' BY <1>1, <1>3, <2>3 DEF FrameBasic, FrameReady
    <3>4. Saving' BY <2>2 DEF Saving
    <3>5. LoadsOnce' BY <1>1, <1>3, <2>3 DEF FrameBasic, LoadsOnce
    <3>6. PendingFits' BY <1>1, <2>1, <2>2 DEF FrameBasic, PendingFits
    <3> QED BY <3>1, <3>2, <3>3, <3>4, <3>5, <3>6 DEF FrameBasic
  <2>6. \A i \in DOMAIN toFrame : AnswersClick(toFrame[i])' => AnswersClick(toFrame[i])
    BY <1>1, <2>1 DEF AnswersClick
  <2>7. Talks => \A i \in DOMAIN toPage' : toPage'[i].nonce = nonce BY <2>1 DEF FrameTold, OneNonce
  <2>8. FrameTold' BY <1>1, <2>1, <2>2, <2>3, <2>6, <2>7, ToldStays
  <2> QED BY <2>4, <2>5, <2>8
<1> QED BY <1>a, <1>b

\* The script of a frame that has started.
LEMMA ScriptTyped ==
  ASSUME FrameInv, Frame!Started
  PROVE  /\ frame \in Frame!Script /\ frame # None /\ frame.nonce # 0
         /\ frame.sent \in Nat /\ frame.count \in Nat \cup {None}
<1>1. frame \in Frame!Script /\ frame # None /\ frame.nonce # 0
  BY DEF FrameInv, Frame!TypeOK, Frame!Started
<1>2. Frame!Ids \cup {0} \subseteq Nat BY BoundsAreNatural DEF Frame!Ids
<1> QED BY <1>1, <1>2 DEF Frame!Script

\* What a step that leaves the page and the script as they are cannot disturb.
LEMMA SameScript ==
  ASSUME FrameInv,
         UNCHANGED <<roomId, loads, room, bundle, loading, nonce, frame, clicks, pending, jumped>>
  PROVE  /\ Numbered' /\ FrameReady' /\ Saving' /\ LoadsOnce'
         /\ (Frame!Started' <=> Frame!Started) /\ (Talks' <=> Talks)
         /\ \A m : AnswersClick(m)' <=> AnswersClick(m)
BY
  DEF FrameInv, FrameBasic, Numbered, FrameReady, Saving, LoadsOnce, Frame!Started, Talks,
      AnswersClick

\* A request that times out.
LEMMA TimesOutStep ==
  ASSUME FrameInv, NEW p \in pending, Frame!TimesOut(p)
  PROVE  FrameInv'
<1> USE DEF FrameInv, Frame!page, Frame!bridge, Frame!wires, Frame!history
<1>1. /\ pending' = pending \ {p} /\ frame' = Frame!Rejected(p, frame)
      /\ UNCHANGED <<value, roomId, loads, room, bundle, loading, nonce, subscribed, handlers,
                     toPage, toFrame,
                     clicks, applied, jumps, lowered, unseen, jumped>>
  BY DEF Frame!TimesOut
<1>2. Frame!Started BY DEF FrameBasic, NothingAsked
<1>3. frame \in Frame!Script /\ frame # None /\ frame.nonce # 0
  BY <1>2 DEF Frame!TypeOK, Frame!Started
<1>4. /\ frame' \in Frame!Script
      /\ frame'.nonce = frame.nonce /\ frame'.sent = frame.sent /\ frame'.attempt = frame.attempt
      /\ frame'.connecting = frame.connecting /\ frame'.count = frame.count
      /\ frame'.status = IF p.method = "update" THEN "failed" ELSE frame.status
  BY <1>1, <1>3 DEF Frame!Rejected, Frame!Script
<1>5. frame' # None /\ Frame!Started' BY <1>3, <1>4, NoneIsNoValue DEF Frame!Started
<1>6. faults' \in 0..FrameFaults BY FaultCounted DEF Frame!TypeOK, Frame!TimesOut
<1>7. Frame!TypeOK' BY <1>1, <1>4, <1>6 DEF Frame!TypeOK
<1>8. FrameBasic'
  <2>1. Numbered' BY <1>1, <1>3, <1>4, <1>5 DEF FrameBasic, Numbered
  <2>2. NothingAsked' BY <1>5 DEF NothingAsked
  <2>3. FrameReady' BY <1>1, <1>3, <1>5 DEF FrameBasic, FrameReady
  <2>4. Saving' BY <1>1, <1>3, <1>4 DEF FrameBasic, Saving
  <2>5. LoadsOnce' BY <1>1, <1>3, <1>5 DEF FrameBasic, LoadsOnce
  <2>6. PendingFits' BY <1>1, <1>4 DEF FrameBasic, PendingFits
  <2> QED BY <2>1, <2>2, <2>3, <2>4, <2>5, <2>6 DEF FrameBasic
<1>9. \A i \in DOMAIN toFrame : AnswersClick(toFrame[i])' => AnswersClick(toFrame[i])
  BY <1>1 DEF AnswersClick
<1>10. Talks => \A i \in DOMAIN toPage' : toPage'[i].nonce = nonce BY <1>1 DEF FrameTold, OneNonce
<1>11. FrameTold' BY <1>1, <1>2, <1>4, <1>5, <1>9, <1>10, ToldStays
<1> QED BY <1>7, <1>8, <1>11

\* The bridge takes a request up.
LEMMA HandleMessageStep ==
  ASSUME FrameInv, Frame!HandleMessage
  PROVE  FrameInv'
<1> USE DEF FrameInv, Frame!page, Frame!bridge, Frame!bounds, Frame!script, Frame!history
<1> DEFINE m == Head(toPage)
           h == [id |-> m.id, method |-> m.method, nonce |-> m.nonce, room |-> room, read |-> None]
<1>1. /\ toPage # <<>> /\ toPage' = Tail(toPage)
      /\ UNCHANGED <<value, roomId, loads, room, bundle, loading, nonce, frame, pending, toFrame,
                     clicks, applied, jumps, faults, lowered, unseen, jumped>>
      /\ IF m.nonce # nonce THEN UNCHANGED <<subscribed, handlers>>
         ELSE /\ handlers' = handlers \cup {h}
              /\ subscribed' = IF m.method = "subscribe" THEN [room |-> room, nonce |-> nonce]
                                                         ELSE subscribed
  BY DEF Frame!HandleMessage
<1>2. /\ toPage' \in Seq(Frame!Asked) /\ m = toPage[1] /\ m \in Frame!Asked
      /\ 1 \in DOMAIN toPage /\ DOMAIN toPage \subseteq Nat \ {0}
      /\ \A i \in DOMAIN toPage' : i + 1 \in DOMAIN toPage /\ toPage'[i] = toPage[i + 1]
  BY <1>1, TakenOff DEF Frame!TypeOK
<1>3. Frame!Started /\ frame \in Frame!Script /\ frame # None
  BY <1>1 DEF FrameBasic, NothingAsked, Frame!Started, Frame!TypeOK
<1>4. room \in Rooms /\ nonce \in Nat BY <1>3 DEF FrameBasic, FrameReady, Frame!TypeOK
<1>5. /\ h \in Frame!Handler /\ [room |-> room, nonce |-> nonce] \in Frame!Listener
      /\ h.id = m.id /\ h.method = m.method /\ h.nonce = m.nonce /\ h.room = room /\ h.read = None
  BY <1>2, <1>4 DEF Frame!Handler, Frame!Asked, Frame!Listener
<1>6. /\ Numbered' /\ FrameReady' /\ Saving' /\ LoadsOnce'
      /\ (Frame!Started' <=> Frame!Started) /\ (Talks' <=> Talks)
      /\ \A x : AnswersClick(x)' <=> AnswersClick(x)
  BY <1>1, SameScript
<1> HIDE DEF h, m
<1>7. Frame!TypeOK' BY <1>1, <1>2, <1>5 DEF Frame!TypeOK
<1>8. PendingFits'
  <2>1. PendingFits BY DEF FrameBasic
  <2>2. handlers' \subseteq handlers \cup {h} BY <1>1
  <2>3. m.id <= frame.sent /\ \A p \in pending : m.id = p.id => m.method = p.method
    BY <1>2, <2>1 DEF PendingFits
  <2>4. \A x \in handlers' : x.id <= frame.sent /\ (x.method = "update" => x.read = None)
    BY <1>5, <2>1, <2>2, <2>3 DEF PendingFits
  <2>5. \A x \in handlers', p \in pending : x.id = p.id => x.method = p.method
    BY <1>5, <2>1, <2>2, <2>3 DEF PendingFits
  <2>6. \A i \in DOMAIN toPage' : toPage'[i].id <= frame.sent
    BY <1>2, <2>1 DEF PendingFits
  <2>7. \A i \in DOMAIN toPage', p \in pending : toPage'[i].id = p.id => toPage'[i].method = p.method
    BY <1>2, <2>1 DEF PendingFits
  <2> QED BY <1>1, <2>1, <2>4, <2>5, <2>6, <2>7 DEF PendingFits
<1>9. FrameBasic' BY <1>3, <1>6, <1>8 DEF FrameBasic, NothingAsked
<1>10. FrameTold'
  <2>1. CASE ~Talks
    BY <1>6, <2>1 DEF FrameTold, OneNonce, SubscribesFirst, NoLater, LatestFollows, LatestShown
  <2>2. CASE Talks
    <3>1. m.nonce = nonce BY <1>2, <2>2 DEF FrameTold, OneNonce
    <3>2. OneNonce' BY <1>1, <1>2, <1>5, <2>2, <3>1 DEF FrameTold, OneNonce
    <3>3. SubscribesFirst'
      <4>1. subscribed' = [room |-> room, nonce |-> nonce]
        BY <1>1, <1>2, <2>2, <3>1 DEF FrameTold, SubscribesFirst
      <4> QED BY <1>1, <4>1 DEF SubscribesFirst
    <3>4. NoLater' BY <1>1, <1>5, <2>2, <3>1 DEF FrameTold, NoLater
    <3>5. \A i : News(i)' <=> News(i) BY <1>1 DEF News
    <3>6. \A i : NewsFrom(i)' <=> NewsFrom(i) BY <1>1, <3>5 DEF NewsFrom
    <3>7. LatestFollows' BY <1>1, <1>6, <3>6 DEF FrameTold, LatestFollows
    <3>8. LatestShown' BY <1>1, <1>5, <2>2, <3>1, <3>5 DEF FrameTold, LatestShown
    <3> QED BY <3>2, <3>3, <3>4, <3>7, <3>8 DEF FrameTold
  <2> QED BY <2>1, <2>2
<1> QED BY <1>7, <1>9, <1>10

\* The bridge reads the state for a subscription.
LEMMA RoomStateStep ==
  ASSUME FrameInv, NEW h \in handlers, Frame!RoomState(h)
  PROVE  FrameInv'
<1> USE DEF FrameInv, Frame!page, Frame!wires, Frame!bounds, Frame!script, Frame!history
<1> DEFINE g == [h EXCEPT !.read = value[h.room]]
<1>1. /\ h.method = "subscribe" /\ h.read = None /\ handlers' = (handlers \ {h}) \cup {g}
      /\ UNCHANGED <<value, roomId, loads, room, bundle, loading, nonce, subscribed, frame, pending,
                     toPage, toFrame, clicks, applied, jumps, faults, lowered, unseen, jumped>>
  BY DEF Frame!RoomState
<1>2. h \in Frame!Handler BY DEF Frame!TypeOK
<1>3. value[h.room] \in Nat BY <1>2 DEF Frame!TypeOK, Frame!Handler
<1>4. /\ g \in Frame!Handler /\ g.id = h.id /\ g.method = h.method /\ g.nonce = h.nonce
      /\ g.room = h.room /\ g.read = value[h.room]
  BY <1>2, <1>3 DEF Frame!Handler
<1> HIDE DEF g
<1>5. /\ Numbered' /\ FrameReady' /\ Saving' /\ LoadsOnce'
      /\ (Frame!Started' <=> Frame!Started) /\ (Talks' <=> Talks)
      /\ \A x : AnswersClick(x)' <=> AnswersClick(x)
  BY <1>1, SameScript
<1>6. Frame!Started BY DEF FrameBasic, NothingAsked
<1>7. Frame!TypeOK' BY <1>1, <1>4 DEF Frame!TypeOK
<1>8. PendingFits' BY <1>1, <1>4 DEF FrameBasic, PendingFits
<1>9. FrameBasic' BY <1>5, <1>6, <1>8 DEF FrameBasic, NothingAsked
<1>10. FrameTold'
  <2>1. CASE ~Talks
    BY <1>5, <2>1 DEF FrameTold, OneNonce, SubscribesFirst, NoLater, LatestFollows, LatestShown
  <2>2. CASE Talks
    <3>1. g.read = value[room] /\ g.nonce = nonce /\ g.room = room
      BY <1>4, <2>2 DEF FrameTold, OneNonce
    <3>2. OneNonce' BY <1>1, <2>2, <3>1 DEF FrameTold, OneNonce
    <3>3. SubscribesFirst' BY <1>1, <2>2 DEF FrameTold, SubscribesFirst
    <3>4. NoLater' BY <1>1, <1>3, <1>4, <2>2, <3>1 DEF FrameTold, NoLater
    <3>5. \A i : News(i)' <=> News(i) BY <1>1 DEF News
    <3>6. \A i : NewsFrom(i)' <=> NewsFrom(i) BY <1>1, <3>5 DEF NewsFrom
    <3>7. LatestFollows' BY <1>1, <1>5, <3>6 DEF FrameTold, LatestFollows
    <3>8. LatestShown' BY <1>1, <2>2, <3>1, <3>5 DEF FrameTold, LatestShown
    <3> QED BY <3>2, <3>3, <3>4, <3>7, <3>8 DEF FrameTold
  <2> QED BY <2>1, <2>2
<1> QED BY <1>7, <1>9, <1>10

\* An answer is posted that is current as far as the frame can tell.
LEMMA Answered ==
  ASSUME FrameInv, NEW h \in handlers, NEW x \in Nat \cup {None},
         handlers' = handlers \ {h}, toFrame' = Append(toFrame, Frame!Response(h, x)),
         UNCHANGED <<value, roomId, loads, room, bundle, loading, nonce, subscribed, frame, pending,
                     toPage, clicks, applied, jumps, lowered, unseen, jumped>>,
         faults' \in 0..FrameFaults,
         x = None \/ (x = h.read /\ h.method = "subscribe")
  PROVE  FrameInv'
<1> USE DEF FrameInv
<1> DEFINE m == Frame!Response(h, x)
<1>1. h \in Frame!Handler /\ toFrame \in Seq(Frame!Posted) BY DEF Frame!TypeOK
<1>2. /\ m \in Frame!Posted /\ m.type = "response" /\ m.id = h.id /\ m.nonce = h.nonce /\ m.value = x
  BY <1>1 DEF Frame!Handler, Frame!Posted, Frame!Response
<1> HIDE DEF m
<1>3. /\ toFrame' \in Seq(Frame!Posted) /\ DOMAIN toFrame' = (DOMAIN toFrame) \cup {Len(toFrame) + 1}
      /\ \A i \in DOMAIN toFrame : toFrame'[i] = toFrame[i] /\ i <= Len(toFrame)
      /\ toFrame'[Len(toFrame) + 1] = m
  BY <1>1, <1>2, Appended DEF m
<1>4. /\ Numbered' /\ FrameReady' /\ Saving' /\ LoadsOnce'
      /\ (Frame!Started' <=> Frame!Started) /\ (Talks' <=> Talks)
      /\ \A y : AnswersClick(y)' <=> AnswersClick(y)
  BY SameScript
<1>5. Frame!Started BY DEF FrameBasic, NothingAsked
<1>6. Frame!TypeOK' BY <1>3 DEF Frame!TypeOK
<1>7. PendingFits'
  <2>1. PendingFits /\ h.id <= frame.sent BY DEF FrameBasic, PendingFits
  <2>2. \A i \in DOMAIN toFrame' : toFrame'[i].id <= frame.sent
                                   /\ (toFrame'[i].type = "state" => toFrame'[i].value # None)
    BY <1>2, <1>3, <2>1 DEF PendingFits
  <2> QED BY <2>1, <2>2 DEF PendingFits
<1>8. FrameBasic' BY <1>4, <1>5, <1>7 DEF FrameBasic, NothingAsked
<1>9. FrameTold'
  <2>1. CASE ~Talks
    BY <1>4, <2>1 DEF FrameTold, OneNonce, SubscribesFirst, NoLater, LatestFollows, LatestShown
  <2>2. CASE Talks
    <3>1. h.nonce = nonce /\ h.room = room BY <2>2 DEF FrameTold, OneNonce
    <3>2. OneNonce' BY <1>2, <1>3, <2>2, <3>1 DEF FrameTold, OneNonce
    <3>3. SubscribesFirst' BY <2>2 DEF FrameTold, SubscribesFirst
    <3>4. NoLater' BY <1>2, <1>3, <2>2 DEF FrameTold, NoLater
    <3>5. \A i : News(i) => News(i)' BY <1>3 DEF News
    <3>6. \A i : NewsFrom(i) => NewsFrom(i)' BY <1>3, <3>5 DEF NewsFrom
    <3>7. LatestFollows'
      <4> SUFFICES ASSUME ~unseen, NEW i \in DOMAIN toFrame'
                   PROVE  /\ toFrame'[i].type = "state" => NewsFrom(i)'
                          /\ AnswersClick(toFrame'[i]) =>
                                toFrame'[i].value \in {value[room], None} \/ NewsFrom(i)'
          BY <1>4 DEF LatestFollows
      <4>1. CASE i \in DOMAIN toFrame
        BY <1>3, <2>2, <3>6, <4>1 DEF FrameTold, LatestFollows
      <4>2. CASE i = Len(toFrame) + 1
        <5>1. AnswersClick(m) => x = None
          BY <1>2 DEF AnswersClick, FrameBasic, PendingFits
        <5> QED BY <1>2, <1>3, <4>2, <5>1
      <4> QED BY <1>3, <4>1, <4>2
    <3>8. LatestShown'
      <4> SUFFICES ASSUME ~unseen, \A k \in DOMAIN toFrame' : ~News(k)'
                   PROVE  IF frame.count = None
                          THEN /\ \A i \in DOMAIN toFrame' : toFrame'[i].value \in {value[room], None}
                               /\ \A g \in handlers' : g.read \in {value[room], None}
                          ELSE frame.count = value[room] \/ (lowered /\ ~frame.connecting)
          BY <1>4 DEF LatestShown
      <4>1. \A k \in DOMAIN toFrame : ~News(k) BY <1>3, <3>5
      <4>2. IF frame.count = None
            THEN /\ \A i \in DOMAIN toFrame : toFrame[i].value \in {value[room], None}
                 /\ \A g \in handlers : g.read \in {value[room], None}
            ELSE frame.count = value[room] \/ (lowered /\ ~frame.connecting)
        BY <2>2, <4>1 DEF FrameTold, LatestShown
      <4> QED BY <1>2, <1>3, <4>2
    <3> QED BY <3>2, <3>3, <3>4, <3>7, <3>8 DEF FrameTold
  <2> QED BY <2>1, <2>2
<1> QED BY <1>6, <1>8, <1>9

\* A subscription is answered with the state that was read.
LEMMA AnswerStep ==
  ASSUME FrameInv, NEW h \in handlers, Frame!Answer(h)
  PROVE  FrameInv'
<1> USE DEF Frame!page, Frame!script, Frame!bounds, Frame!history
<1>1. /\ h.read # None /\ handlers' = handlers \ {h}
      /\ toFrame' = Append(toFrame, Frame!Response(h, h.read))
      /\ UNCHANGED <<value, roomId, loads, room, bundle, loading, nonce, subscribed, frame, pending,
                     toPage, clicks, applied, jumps, faults, lowered, unseen, jumped>>
  BY DEF Frame!Answer
<1>2. h.method = "subscribe" /\ h.read \in Nat \cup {None} /\ faults \in 0..FrameFaults
  <2>1. h \in Frame!Handler BY DEF FrameInv, Frame!TypeOK
  <2> QED
    BY <1>1, <2>1 DEF FrameInv, FrameBasic, PendingFits, Frame!Handler, Frame!Methods, Frame!TypeOK
<1> QED BY <1>1, <1>2, Answered

\* A request that fails is answered all the same.
LEMMA HandlerFailsStep ==
  ASSUME FrameInv, NEW h \in handlers, Frame!HandlerFails(h)
  PROVE  FrameInv'
<1> USE DEF Frame!page, Frame!script, Frame!bounds, Frame!history
<1>1. /\ handlers' = handlers \ {h} /\ toFrame' = Append(toFrame, Frame!Response(h, None))
      /\ UNCHANGED <<value, roomId, loads, room, bundle, loading, nonce, subscribed, frame, pending,
                     toPage, clicks, applied, jumps, lowered, unseen, jumped>>
      /\ Frame!Fault
  BY DEF Frame!HandlerFails
<1>2. faults' \in 0..FrameFaults BY <1>1, FaultCounted DEF FrameInv, Frame!TypeOK
<1> QED BY <1>1, <1>2, Answered

\* The counter goes up, the listener is told, and what is posted with it is as new.
LEMMA NewsPosted ==
  ASSUME FrameInv, Talks, Talks', subscribed = [room |-> room, nonce |-> nonce],
         value[room] \in Nat, value'[room] = value[room] + 1,
         UNCHANGED <<room, nonce, subscribed, frame, pending, toPage, jumped, lowered>>,
         handlers' \subseteq handlers,
         toFrame' \in Seq(Frame!Posted), DOMAIN toFrame \subseteq DOMAIN toFrame',
         NEW n \in DOMAIN toFrame', n \notin DOMAIN toFrame,
         \A i \in DOMAIN toFrame : toFrame'[i] = toFrame[i] /\ i <= n,
         toFrame'[n].type = "state",
         \A i \in DOMAIN toFrame' \ DOMAIN toFrame :
            /\ toFrame'[i].nonce = nonce /\ toFrame'[i].value = value'[room]
            /\ i # n => toFrame'[i].type = "response"
  PROVE  FrameTold'
<1> USE DEF FrameInv, FrameTold
<1>1. News(n)' /\ n \in Nat
  <2>1. n \in Nat OBVIOUS
  <2> QED BY <2>1 DEF News
<1>2. \A i \in DOMAIN toFrame : NewsFrom(i)' BY <1>1 DEF NewsFrom
<1>3. NewsFrom(n)' BY <1>1 DEF NewsFrom
<1>4. OneNonce' BY DEF OneNonce
<1>5. SubscribesFirst' BY DEF SubscribesFirst
<1>6. NoLater'
  <2>1. \A y \in Nat : y <= value[room] => y <= value'[room] OBVIOUS
  <2>2. frame \in Frame!Script BY DEF Talks, Frame!Started, Frame!TypeOK
  <2>3. frame.count # None => frame.count <= value'[room]
    BY <2>1, <2>2 DEF NoLater, Frame!Script
  <2>4. \A h \in handlers' : h.read # None => h.read <= value'[room]
    <3>1. \A h \in handlers : h.read \in Nat \cup {None} BY DEF Frame!TypeOK, Frame!Handler
    <3> QED BY <2>1, <3>1 DEF NoLater
  <2>5. \A i \in DOMAIN toFrame' : toFrame'[i].value # None => toFrame'[i].value <= value'[room]
    <3>1. \A i \in DOMAIN toFrame : toFrame[i] \in Frame!Posted BY DEF Frame!TypeOK
    <3>2. \A i \in DOMAIN toFrame : toFrame[i].value \in Nat \cup {None} BY <3>1 DEF Frame!Posted
    <3>3. value'[room] <= value'[room] OBVIOUS
    <3> QED BY <2>1, <3>2, <3>3 DEF NoLater
  <2> QED BY <2>3, <2>4, <2>5 DEF NoLater
<1>7. LatestFollows'
  <2> SUFFICES ASSUME NEW i \in DOMAIN toFrame'
               PROVE  /\ toFrame'[i].type = "state" => NewsFrom(i)'
                      /\ AnswersClick(toFrame[i])' =>
                            toFrame'[i].value \in {value'[room], None} \/ NewsFrom(i)'
      BY DEF LatestFollows
  <2>1. CASE i \in DOMAIN toFrame BY <1>2, <2>1
  <2>2. CASE i \notin DOMAIN toFrame BY <1>3, <2>2
  <2> QED BY <2>1, <2>2
<1>8. LatestShown' BY <1>1 DEF LatestShown
<1> QED BY <1>4, <1>5, <1>6, <1>7, <1>8

\* Who is told of a change of a room, and of what.
LEMMA ToldOf ==
  ASSUME Frame!TypeOK, NEW r, NEW x \in Nat
  PROVE  \/ Frame!Notified(r, x) = <<>>
         \/ \E n \in Frame!Posted :
              /\ n.type = "state" /\ n.id = 0 /\ n.value = x /\ n.nonce = subscribed.nonce
              /\ subscribed # None /\ subscribed.room = r /\ Frame!Notified(r, x) = <<n>>
<1> DEFINE n == [type |-> "state", id |-> 0, nonce |-> subscribed.nonce, value |-> x]
<1>1. CASE subscribed = None \/ subscribed.room # r BY <1>1 DEF Frame!Notified
<1>2. CASE ~(subscribed = None \/ subscribed.room # r)
  <2>1. subscribed.nonce \in Nat BY <1>2 DEF Frame!TypeOK, Frame!Listener
  <2>2. n \in Frame!Posted BY <2>1 DEF Frame!Posted
  <2>3. Frame!Notified(r, x) = <<n>> BY <1>2 DEF Frame!Notified
  <2>4. n.type = "state" /\ n.id = 0 /\ n.value = x /\ n.nonce = subscribed.nonce OBVIOUS
  <2> HIDE DEF n
  <2> QED BY <1>2, <2>2, <2>3, <2>4
<1> QED BY <1>1, <1>2

\* A click reaches the vault: the counter goes up, and both messages are posted.
LEMMA IncrementStep ==
  ASSUME FrameInv, NEW h \in handlers, Frame!IncrementCounter(h)
  PROVE  FrameInv'
<1> USE DEF FrameInv, Frame!page, Frame!script, Frame!bounds
<1> DEFINE x == value'[h.room]
           m == Frame!Response(h, x)
           N == Frame!Notified(h.room, x)
<1>1. /\ h.method = "update" /\ handlers' = handlers \ {h} /\ unseen' = FALSE
      /\ value' = [value EXCEPT ![h.room] = @ + 1]
      /\ toFrame' = toFrame \o N \o <<m>>
      /\ UNCHANGED <<roomId, loads, room, bundle, loading, nonce, subscribed, frame, pending,
                     toPage, clicks, applied, jumps, faults, lowered, jumped>>
  BY DEF Frame!IncrementCounter
<1>2. h \in Frame!Handler /\ toFrame \in Seq(Frame!Posted) /\ h.room \in Rooms
  BY DEF Frame!TypeOK, Frame!Handler
<1>3. /\ value' \in [Rooms -> Nat] /\ value[h.room] \in Nat /\ x = value[h.room] + 1 /\ x \in Nat
  BY <1>1, <1>2 DEF Frame!TypeOK
<1> HIDE DEF x
<1>4. /\ m \in Frame!Posted /\ m.type = "response" /\ m.id = h.id /\ m.nonce = h.nonce /\ m.value = x
  BY <1>2, <1>3 DEF Frame!Handler, Frame!Posted, Frame!Response
<1>5. \/ N = <<>>
      \/ \E n \in Frame!Posted :
           /\ n.type = "state" /\ n.id = 0 /\ n.value = x /\ n.nonce = subscribed.nonce
           /\ subscribed # None /\ subscribed.room = h.room /\ N = <<n>>
  BY <1>3, ToldOf
<1> HIDE DEF m, N
<1>6. /\ Numbered' /\ FrameReady' /\ Saving' /\ LoadsOnce'
      /\ (Frame!Started' <=> Frame!Started) /\ (Talks' <=> Talks)
      /\ \A y : AnswersClick(y)' <=> AnswersClick(y)
  BY <1>1, SameScript
<1>7. Frame!Started /\ frame \in Frame!Script /\ frame.sent \in Nat
  <2>1. Frame!Started BY DEF FrameBasic, NothingAsked
  <2> QED BY <2>1, ScriptTyped
<1>8. PendingFits /\ h.id <= frame.sent BY DEF FrameBasic, PendingFits
<1>9. CASE N = <<>>
  <2>1. toFrame' = Append(toFrame, m) BY <1>1, <1>2, <1>4, <1>9, BothPosted
  <2>2. /\ toFrame' \in Seq(Frame!Posted) /\ DOMAIN toFrame' = (DOMAIN toFrame) \cup {Len(toFrame) + 1}
        /\ \A i \in DOMAIN toFrame : toFrame'[i] = toFrame[i]
        /\ toFrame'[Len(toFrame) + 1] = m
    BY <1>2, <1>4, <2>1, Appended
  <2>3. Frame!TypeOK' BY <1>1, <1>3, <2>2 DEF Frame!TypeOK
  <2>4. \A i \in DOMAIN toFrame' : toFrame'[i].id <= frame.sent
                                   /\ (toFrame'[i].type = "state" => toFrame'[i].value # None)
    BY <1>4, <1>8, <2>2 DEF PendingFits
  <2>5. PendingFits' BY <1>1, <1>8, <2>4 DEF PendingFits
  <2>6. FrameBasic' BY <1>6, <1>7, <2>5 DEF FrameBasic, NothingAsked
  <2>7. ~Talks
    <3>1. SUFFICES ASSUME Talks PROVE FALSE OBVIOUS
    <3>2. subscribed = [room |-> room, nonce |-> nonce] /\ h.room = room
      BY <3>1 DEF FrameTold, SubscribesFirst, OneNonce
    <3>3. room \in Rooms /\ nonce \in Nat BY <1>2, <3>2 DEF Frame!TypeOK
    <3>4. subscribed \in Frame!Listener /\ subscribed.room = room BY <3>2, <3>3 DEF Frame!Listener
    <3>5. subscribed # None BY <3>4, NoneIsNoValue
    <3> QED BY <1>9, <3>2, <3>4, <3>5 DEF N, Frame!Notified
  <2>8. FrameTold'
    BY <1>6, <2>7 DEF FrameTold, OneNonce, SubscribesFirst, NoLater, LatestFollows, LatestShown
  <2> QED BY <2>3, <2>6, <2>8
<1>10. ASSUME NEW n \in Frame!Posted,
              n.type = "state", n.id = 0, n.value = x, n.nonce = subscribed.nonce,
              subscribed # None, subscribed.room = h.room, N = <<n>>
       PROVE  FrameInv'
  <2> DEFINE q == Append(toFrame, n)
  <2>1. toFrame' = Append(q, m) BY <1>1, <1>2, <1>4, <1>10, BothPosted
  <2>2. /\ q \in Seq(Frame!Posted) /\ DOMAIN q = (DOMAIN toFrame) \cup {Len(toFrame) + 1}
        /\ Len(toFrame) \in Nat /\ DOMAIN toFrame = 1..Len(toFrame)
        /\ \A i \in DOMAIN toFrame : q[i] = toFrame[i] /\ i <= Len(toFrame)
        /\ q[Len(toFrame) + 1] = n
    BY <1>2, <1>10, Appended
  <2> HIDE DEF q
  <2>3. /\ toFrame' \in Seq(Frame!Posted) /\ DOMAIN toFrame' = (DOMAIN q) \cup {Len(q) + 1}
        /\ \A i \in DOMAIN q : toFrame'[i] = q[i] /\ i <= Len(q)
        /\ toFrame'[Len(q) + 1] = m /\ Len(q) \in Nat
    BY <1>4, <2>1, <2>2, Appended
  <2>4. Frame!TypeOK' BY <1>1, <1>3, <2>3 DEF Frame!TypeOK
  <2>5. \A i \in DOMAIN q : q[i].id <= frame.sent
                                   /\ (q[i].type = "state" => q[i].value # None)
    BY <1>3, <1>7, <1>8, <1>10, <2>2, NoneIsNoValue DEF PendingFits
  <2>6. \A i \in DOMAIN toFrame' : toFrame'[i].id <= frame.sent
                                   /\ (toFrame'[i].type = "state" => toFrame'[i].value # None)
    BY <1>4, <1>8, <2>3, <2>5
  <2>7. PendingFits' BY <1>1, <1>8, <2>6 DEF PendingFits
  <2>8. FrameBasic' BY <1>6, <1>7, <2>7 DEF FrameBasic, NothingAsked
  <2>9. FrameTold'
    <3>1. CASE ~Talks
      BY <1>6, <3>1 DEF FrameTold, OneNonce, SubscribesFirst, NoLater, LatestFollows, LatestShown
    <3>2. CASE Talks
      <4>1. h.room = room /\ h.nonce = nonce /\ subscribed = [room |-> room, nonce |-> nonce]
        BY <3>2 DEF FrameTold, OneNonce, SubscribesFirst
      <4>2. subscribed.nonce = nonce BY <4>1
      <4>3. x = value'[room] BY <4>1 DEF x
      <4> DEFINE k == Len(toFrame) + 1
      <4>4. /\ k \in DOMAIN toFrame' /\ k \notin DOMAIN toFrame /\ toFrame'[k] = n
            /\ DOMAIN toFrame \subseteq DOMAIN toFrame'
            /\ \A i \in DOMAIN toFrame : toFrame'[i] = toFrame[i] /\ i <= k
        BY <2>2, <2>3
      <4>5. \A i \in DOMAIN toFrame' \ DOMAIN toFrame :
              /\ toFrame'[i].nonce = nonce /\ toFrame'[i].value = value'[room]
              /\ i # k => toFrame'[i].type = "response"
        BY <1>4, <1>10, <2>2, <2>3, <4>1, <4>2, <4>3, <4>4
      <4> HIDE DEF k
      <4> QED BY <1>1, <1>3, <1>6, <1>10, <2>3, <3>2, <4>1, <4>3, <4>4, <4>5, NewsPosted
    <3> QED BY <3>1, <3>2
  <2> QED BY <2>4, <2>8, <2>9
<1> QED BY <1>5, <1>9, <1>10

\* An increment of another device, applied by the page that shows the room.
LEMMA AppliedStep ==
  ASSUME FrameInv, NEW r \in Rooms, Frame!Applied(r)
  PROVE  FrameInv'
<1> USE DEF FrameInv, Frame!page, Frame!bridge, Frame!script
<1> DEFINE x == value'[r]
           N == Frame!Notified(r, x)
<1>1. /\ r = room /\ unseen' = FALSE /\ value' = [value EXCEPT ![r] = @ + 1]
      /\ toFrame' = toFrame \o N
      /\ UNCHANGED <<roomId, loads, room, bundle, loading, nonce, subscribed, handlers, frame,
                     pending,
                     toPage, clicks, jumps, faults, lowered, jumped>>
  BY DEF Frame!Applied
<1>2. /\ value' \in [Rooms -> Nat] /\ value[r] \in Nat /\ x = value[r] + 1 /\ x \in Nat
  BY <1>1 DEF Frame!TypeOK
<1>3. applied' \in 0..MaxApplied
  <2>1. applied < MaxApplied /\ applied' = applied + 1 BY DEF Frame!Applied
  <2>2. applied \in 0..MaxApplied /\ MaxApplied \in Nat BY BoundsAreNatural DEF Frame!TypeOK
  <2> QED BY <2>1, <2>2
<1> HIDE DEF x
<1>5. \/ N = <<>>
      \/ \E n \in Frame!Posted :
           /\ n.type = "state" /\ n.id = 0 /\ n.value = x /\ n.nonce = subscribed.nonce
           /\ subscribed # None /\ subscribed.room = r /\ N = <<n>>
  BY <1>2, ToldOf
<1> HIDE DEF N
<1>6. /\ Numbered' /\ FrameReady' /\ Saving' /\ LoadsOnce'
      /\ (Frame!Started' <=> Frame!Started) /\ (Talks' <=> Talks)
      /\ \A y : AnswersClick(y)' <=> AnswersClick(y)
  BY <1>1, SameScript
<1>7. toFrame \in Seq(Frame!Posted) BY DEF Frame!TypeOK
<1>8. PendingFits BY DEF FrameBasic
<1>9. CASE N = <<>>
  <2>1. toFrame' = toFrame BY <1>1, <1>7, <1>9
  <2>2. Frame!TypeOK' BY <1>1, <1>2, <1>3, <2>1 DEF Frame!TypeOK
  <2>3. PendingFits' BY <1>1, <1>8, <2>1 DEF PendingFits
  <2>4. NothingAsked' BY <1>1, <1>6, <2>1 DEF FrameBasic, NothingAsked
  <2>5. FrameTold'
    <3>1. CASE ~Talks
      BY <1>6, <3>1 DEF FrameTold, OneNonce, SubscribesFirst, NoLater, LatestFollows, LatestShown
    <3>2. CASE Talks
      <4>1. subscribed # [room |-> room, nonce |-> nonce]
        <5>1. SUFFICES ASSUME subscribed = [room |-> room, nonce |-> nonce] PROVE FALSE OBVIOUS
        <5>2. nonce \in Nat BY DEF Frame!TypeOK
        <5>3. subscribed \in Frame!Listener /\ subscribed.room = r
          BY <1>1, <5>1, <5>2 DEF Frame!Listener
        <5>4. subscribed # None BY <5>3, NoneIsNoValue
        <5> QED BY <1>9, <5>3, <5>4 DEF N, Frame!Notified
      <4>2. /\ subscribed = None /\ handlers = {} /\ toFrame = <<>> /\ frame.count = None
            /\ toPage # <<>> /\ toPage[1].method = "subscribe"
        BY <3>2, <4>1 DEF FrameTold, SubscribesFirst
      <4>3. OneNonce' /\ SubscribesFirst'
        BY <1>1, <2>1, <3>2, <4>2 DEF FrameTold, OneNonce, SubscribesFirst
      <4>4. NoLater' /\ LatestFollows' /\ LatestShown'
        BY <1>1, <2>1, <4>2 DEF NoLater, LatestFollows, LatestShown
      <4> QED BY <4>3, <4>4 DEF FrameTold
    <3> QED BY <3>1, <3>2
  <2> QED BY <1>6, <2>2, <2>3, <2>4, <2>5 DEF FrameBasic
<1>10. ASSUME NEW n \in Frame!Posted,
              n.type = "state", n.id = 0, n.value = x, n.nonce = subscribed.nonce,
              subscribed # None, subscribed.room = r, N = <<n>>
       PROVE  FrameInv'
  <2>0. Frame!Started /\ frame \in Frame!Script /\ frame.sent \in Nat
    <3>1. Frame!Started BY <1>10 DEF FrameBasic, NothingAsked
    <3> QED BY <3>1, ScriptTyped
  <2>1. toFrame' = Append(toFrame, n) BY <1>1, <1>7, <1>10, BothPosted
  <2> DEFINE k == Len(toFrame) + 1
  <2>2. /\ toFrame' \in Seq(Frame!Posted) /\ DOMAIN toFrame' = (DOMAIN toFrame) \cup {k}
        /\ Len(toFrame) \in Nat /\ DOMAIN toFrame = 1..Len(toFrame)
        /\ \A i \in DOMAIN toFrame : toFrame'[i] = toFrame[i] /\ i <= Len(toFrame)
        /\ toFrame'[k] = n
    BY <1>7, <1>10, <2>1, Appended
  <2>3. Frame!TypeOK' BY <1>1, <1>2, <1>3, <2>2 DEF Frame!TypeOK
  <2>4. \A i \in DOMAIN toFrame' : toFrame'[i].id <= frame.sent
                                   /\ (toFrame'[i].type = "state" => toFrame'[i].value # None)
    BY <1>2, <1>8, <1>10, <2>0, <2>2, NoneIsNoValue DEF PendingFits
  <2>5. PendingFits' BY <1>1, <1>8, <2>4 DEF PendingFits
  <2>6. FrameBasic' BY <1>6, <2>0, <2>5 DEF FrameBasic, NothingAsked
  <2>7. FrameTold'
    <3>1. CASE ~Talks
      BY <1>6, <3>1 DEF FrameTold, OneNonce, SubscribesFirst, NoLater, LatestFollows, LatestShown
    <3>2. CASE Talks
      <4>1. subscribed = [room |-> room, nonce |-> nonce]
        BY <1>10, <3>2 DEF FrameTold, SubscribesFirst
      <4>2. subscribed.nonce = nonce BY <4>1
      <4>3. x = value'[room] BY <1>1 DEF x
      <4>4. /\ k \in DOMAIN toFrame' /\ k \notin DOMAIN toFrame
            /\ DOMAIN toFrame \subseteq DOMAIN toFrame'
            /\ \A i \in DOMAIN toFrame : toFrame'[i] = toFrame[i] /\ i <= k
        BY <2>2
      <4>5. \A i \in DOMAIN toFrame' \ DOMAIN toFrame :
              /\ toFrame'[i].nonce = nonce /\ toFrame'[i].value = value'[room]
              /\ i # k => toFrame'[i].type = "response"
        BY <1>10, <2>2, <4>2, <4>3, <4>4
      <4>6. value[room] \in Nat /\ value'[room] = value[room] + 1 BY <1>1, <1>2, <4>3
      <4>7. toFrame'[k].type = "state" BY <1>10, <2>2
      <4> HIDE DEF k
      <4> QED BY <1>1, <1>6, <2>2, <3>2, <4>1, <4>4, <4>5, <4>6, <4>7, NewsPosted
    <3> QED BY <3>1, <3>2
  <2> QED BY <2>3, <2>6, <2>7
<1> QED BY <1>5, <1>9, <1>10

\* One that the page of another tab applies.
LEMMA AppliedElsewhereStep ==
  ASSUME FrameInv, NEW r \in Rooms, Frame!AppliedElsewhere(r)
  PROVE  FrameInv'
<1> USE DEF FrameInv, Frame!page, Frame!bridge, Frame!script, Frame!wires
<1>1. /\ unseen' = TRUE /\ value' = [value EXCEPT ![r] = @ + 1]
      /\ UNCHANGED <<roomId, loads, room, bundle, loading, nonce, subscribed, handlers, frame,
                     pending,
                     toPage, toFrame, clicks, jumps, faults, lowered, jumped>>
  BY DEF Frame!AppliedElsewhere
<1>2. value' \in [Rooms -> Nat] BY <1>1 DEF Frame!TypeOK
<1>3. applied' \in 0..MaxApplied
  <2>1. applied < MaxApplied /\ applied' = applied + 1 BY DEF Frame!AppliedElsewhere
  <2>2. applied \in 0..MaxApplied /\ MaxApplied \in Nat BY BoundsAreNatural DEF Frame!TypeOK
  <2> QED BY <2>1, <2>2
<1>4. /\ Numbered' /\ FrameReady' /\ Saving' /\ LoadsOnce'
      /\ (Frame!Started' <=> Frame!Started) /\ (Talks' <=> Talks)
  BY <1>1, SameScript
<1>5. Frame!TypeOK' BY <1>1, <1>2, <1>3 DEF Frame!TypeOK
<1>6. PendingFits' BY <1>1 DEF FrameBasic, PendingFits
<1>7. NothingAsked' BY <1>1, <1>4 DEF FrameBasic, NothingAsked
<1>8. OneNonce' /\ SubscribesFirst' /\ LatestFollows' /\ LatestShown'
  BY <1>1, <1>4 DEF FrameTold, OneNonce, SubscribesFirst, LatestFollows, LatestShown
<1>9. NoLater'
  <2> SUFFICES ASSUME Talks PROVE NoLater' BY <1>4 DEF NoLater
  <2>1. room \in Rooms /\ frame \in Frame!Script
    BY DEF Talks, Frame!Started, FrameBasic, FrameReady, Frame!TypeOK
  <2>2. value[room] \in Nat /\ value'[room] \in {value[room], value[room] + 1}
    BY <1>1, <2>1 DEF Frame!TypeOK
  <2>3. \A y \in Nat : y <= value[room] => y <= value'[room] BY <2>2
  <2>4. \A h \in handlers : h.read \in Nat \cup {None} BY DEF Frame!TypeOK, Frame!Handler
  <2>5. \A i \in DOMAIN toFrame : toFrame[i].value \in Nat \cup {None}
    <3>1. \A i \in DOMAIN toFrame : toFrame[i] \in Frame!Posted BY DEF Frame!TypeOK
    <3> QED BY <3>1 DEF Frame!Posted
  <2>6. frame.count \in Nat \cup {None} BY <2>1 DEF Frame!Script
  <2> QED BY <1>1, <2>3, <2>4, <2>5, <2>6 DEF FrameTold, NoLater
<1> QED BY <1>4, <1>5, <1>6, <1>7, <1>8, <1>9 DEF FrameBasic, FrameTold

\* The script takes a message: what it shows then, and what it waits for.
LEMMA Received ==
  ASSUME FrameInv, Frame!Started, toFrame # <<>>,
         NEW m \in Frame!Posted, m = toFrame[1],
         m.type = "state" => m.value # None,
         \/ Frame!Ignored(m) /\ UNCHANGED <<frame, pending, lowered>>
         \/ /\ ~Frame!Ignored(m) /\ m.type = "state"
            /\ frame' = Frame!Render(frame, m.value) /\ lowered' = Frame!Lowers(m.value)
            /\ UNCHANGED pending
         \/ /\ ~Frame!Ignored(m) /\ m.type = "response"
            /\ \E p \in pending :
                 /\ p.id = m.id /\ pending' = pending \ {p}
                 /\ IF m.value = None THEN frame' = Frame!Rejected(p, frame) /\ UNCHANGED lowered
                    ELSE /\ frame' = [Frame!Render(frame, m.value) EXCEPT
                                        !.connecting = @ /\ p.method # "subscribe"]
                         /\ lowered' = Frame!Lowers(m.value)
  PROVE  /\ frame' \in Frame!Script /\ frame' # None /\ pending' \subseteq pending
         /\ lowered' \in BOOLEAN
         /\ frame'.nonce = frame.nonce /\ frame'.sent = frame.sent /\ frame'.attempt = frame.attempt
         /\ (frame'.connecting => frame.connecting)
         /\ \/ /\ Frame!Ignored(m) \/ (m.type = "response" /\ m.value = None)
               /\ frame'.count = frame.count /\ lowered' = lowered
               /\ frame'.connecting = frame.connecting
               /\ frame'.status = "saved" => frame.status = "saved"
               /\ frame'.status = "saving" =>
                    /\ frame.status = "saving"
                    /\ \A q \in pending : q.method = "update" => q \in pending'
            \/ /\ ~Frame!Ignored(m) /\ m.value # None
               /\ frame'.count = m.value /\ frame'.status = "saved"
               /\ lowered' = Frame!Lowers(m.value)
               /\ \/ m.type = "state" /\ frame'.connecting = frame.connecting
                  \/ /\ m.type = "response"
                     /\ \E p \in pending :
                          /\ p.id = m.id /\ p \notin pending'
                          /\ frame'.connecting = (frame.connecting /\ p.method # "subscribe")
<1>1. /\ frame \in Frame!Script /\ frame # None /\ frame.nonce # 0
      /\ frame.sent \in Nat /\ frame.count \in Nat \cup {None}
  BY ScriptTyped
<1>2. m.value \in Nat \cup {None} /\ lowered \in BOOLEAN /\ pending \subseteq Frame!Requests
  BY DEF Frame!Posted, FrameInv, Frame!TypeOK
<1>3. \A x \in Frame!Script : x # None BY NoneIsNoValue
<1>4. CASE Frame!Ignored(m) /\ UNCHANGED <<frame, pending, lowered>>
  BY <1>1, <1>2, <1>4
<1>5. CASE /\ ~Frame!Ignored(m) /\ m.type = "state"
           /\ frame' = Frame!Render(frame, m.value) /\ lowered' = Frame!Lowers(m.value)
           /\ UNCHANGED pending
  <2>1. frame' = [frame EXCEPT !.count = m.value, !.status = "saved"] BY <1>5 DEF Frame!Render
  <2>2. frame' \in Frame!Script BY <1>1, <1>2, <2>1 DEF Frame!Script
  <2>3. /\ frame'.nonce = frame.nonce /\ frame'.sent = frame.sent /\ frame'.attempt = frame.attempt
        /\ frame'.connecting = frame.connecting /\ frame'.count = m.value /\ frame'.status = "saved"
    BY <1>1, <2>1 DEF Frame!Script
  <2>4. lowered' \in BOOLEAN BY <1>5 DEF Frame!Lowers
  <2> QED BY <1>3, <1>5, <2>2, <2>3, <2>4
<1>6. ASSUME ~Frame!Ignored(m), m.type = "response", NEW p \in pending, p.id = m.id,
             pending' = pending \ {p}, m.value = None, frame' = Frame!Rejected(p, frame),
             UNCHANGED lowered
      PROVE  /\ frame' \in Frame!Script /\ frame' # None /\ pending' \subseteq pending
             /\ frame'.nonce = frame.nonce /\ frame'.sent = frame.sent /\ frame'.attempt = frame.attempt
             /\ frame'.connecting = frame.connecting /\ frame'.count = frame.count
             /\ lowered' = lowered /\ lowered' \in BOOLEAN
             /\ frame'.status = "saved" => frame.status = "saved"
             /\ frame'.status = "saving" =>
                    /\ frame.status = "saving"
                    /\ \A q \in pending : q.method = "update" => q \in pending'
  <2>1. frame' \in Frame!Script BY <1>1, <1>6 DEF Frame!Script, Frame!Rejected
  <2>2. /\ frame'.nonce = frame.nonce /\ frame'.sent = frame.sent /\ frame'.attempt = frame.attempt
        /\ frame'.connecting = frame.connecting /\ frame'.count = frame.count
        /\ frame'.status = IF p.method = "update" THEN "failed" ELSE frame.status
    BY <1>1, <1>6 DEF Frame!Script, Frame!Rejected
  <2> QED BY <1>2, <1>3, <1>6, <2>1, <2>2
<1>7. ASSUME ~Frame!Ignored(m), m.type = "response", NEW p \in pending, p.id = m.id,
             pending' = pending \ {p}, m.value # None,
             frame' = [Frame!Render(frame, m.value) EXCEPT !.connecting = @ /\ p.method # "subscribe"],
             lowered' = Frame!Lowers(m.value)
      PROVE  /\ frame' \in Frame!Script /\ frame' # None /\ pending' \subseteq pending
             /\ frame'.nonce = frame.nonce /\ frame'.sent = frame.sent /\ frame'.attempt = frame.attempt
             /\ frame'.connecting = (frame.connecting /\ p.method # "subscribe")
             /\ frame'.count = m.value /\ frame'.status = "saved" /\ lowered' \in BOOLEAN
             /\ p \notin pending'
  <2>1. frame' = [frame EXCEPT !.count = m.value, !.status = "saved",
                               !.connecting = frame.connecting /\ p.method # "subscribe"]
    BY <1>1, <1>7 DEF Frame!Render, Frame!Script
  <2>2. (frame.connecting /\ p.method # "subscribe") \in BOOLEAN OBVIOUS
  <2>3. frame' \in Frame!Script BY <1>1, <1>2, <2>1, <2>2 DEF Frame!Script
  <2>4. /\ frame'.nonce = frame.nonce /\ frame'.sent = frame.sent /\ frame'.attempt = frame.attempt
        /\ frame'.connecting = (frame.connecting /\ p.method # "subscribe")
        /\ frame'.count = m.value /\ frame'.status = "saved"
    BY <1>1, <2>1 DEF Frame!Script
  <2>5. lowered' \in BOOLEAN BY <1>7 DEF Frame!Lowers
  <2> QED BY <1>3, <1>7, <2>3, <2>4, <2>5
<1>8. ASSUME ~Frame!Ignored(m), m.type = "response", NEW p \in pending,
             p.id = m.id, pending' = pending \ {p},
             IF m.value = None THEN frame' = Frame!Rejected(p, frame) /\ UNCHANGED lowered
             ELSE /\ frame' = [Frame!Render(frame, m.value) EXCEPT
                                        !.connecting = @ /\ p.method # "subscribe"]
                  /\ lowered' = Frame!Lowers(m.value)
      PROVE  \/ m.value = None /\ frame' = Frame!Rejected(p, frame) /\ UNCHANGED lowered
             \/ /\ m.value # None
                /\ frame' = [Frame!Render(frame, m.value) EXCEPT
                                        !.connecting = @ /\ p.method # "subscribe"]
                /\ lowered' = Frame!Lowers(m.value)
  BY <1>8
<1> QED BY <1>4, <1>5, <1>6, <1>7, <1>8

\* The script takes a message of the bridge.
LEMMA ReceiveStep ==
  ASSUME FrameInv, Frame!Receive
  PROVE  FrameInv'
<1> USE DEF FrameInv, Frame!page, Frame!bridge, Frame!bounds, Frame!script
<1> DEFINE m == Head(toFrame)
<1>1. /\ toFrame # <<>> /\ toFrame' = Tail(toFrame)
      /\ UNCHANGED <<value, roomId, loads, room, bundle, loading, nonce, subscribed, handlers,
                     toPage,
                     clicks, applied, jumps, faults, unseen, jumped>>
  BY DEF Frame!Receive
<1>2. toFrame \in Seq(Frame!Posted) BY DEF Frame!TypeOK
<1>3. /\ toFrame' \in Seq(Frame!Posted) /\ m = toFrame[1] /\ m \in Frame!Posted
      /\ 1 \in DOMAIN toFrame /\ DOMAIN toFrame \subseteq Nat \ {0}
      /\ \A i \in DOMAIN toFrame' : i + 1 \in DOMAIN toFrame /\ toFrame'[i] = toFrame[i + 1] /\ i \in Nat
      /\ \A i \in DOMAIN toFrame : i # 1 => i - 1 \in DOMAIN toFrame'
  BY <1>1, <1>2, TakenOff
<1>4. Frame!Started BY <1>1 DEF FrameBasic, NothingAsked
<1>5. PendingFits BY DEF FrameBasic
<1>6. m.type = "state" => m.value # None BY <1>3, <1>5 DEF PendingFits
<1>7. \/ Frame!Ignored(m) /\ UNCHANGED <<frame, pending, lowered>>
      \/ /\ ~Frame!Ignored(m) /\ m.type = "state"
         /\ frame' = Frame!Render(frame, m.value) /\ lowered' = Frame!Lowers(m.value)
         /\ UNCHANGED pending
      \/ /\ ~Frame!Ignored(m) /\ m.type = "response"
         /\ \E p \in pending :
              /\ p.id = m.id /\ pending' = pending \ {p}
              /\ IF m.value = None THEN frame' = Frame!Rejected(p, frame) /\ UNCHANGED lowered
                 ELSE /\ frame' = [Frame!Render(frame, m.value) EXCEPT
                                     !.connecting = @ /\ p.method # "subscribe"]
                      /\ lowered' = Frame!Lowers(m.value)
  BY DEF Frame!Receive
<1> HIDE DEF m
<1>8. /\ frame' \in Frame!Script /\ frame' # None /\ pending' \subseteq pending
      /\ lowered' \in BOOLEAN
      /\ frame'.nonce = frame.nonce /\ frame'.sent = frame.sent /\ frame'.attempt = frame.attempt
      /\ (frame'.connecting => frame.connecting)
  <2> HIDE DEF FrameInv
  <2> QED BY <1>1, <1>3, <1>4, <1>6, <1>7, Received
<1>9. \/ /\ Frame!Ignored(m) \/ (m.type = "response" /\ m.value = None)
         /\ frame'.count = frame.count /\ lowered' = lowered
         /\ frame'.connecting = frame.connecting
         /\ frame'.status = "saved" => frame.status = "saved"
         /\ frame'.status = "saving" =>
              /\ frame.status = "saving"
              /\ \A q \in pending : q.method = "update" => q \in pending'
      \/ /\ ~Frame!Ignored(m) /\ m.value # None
         /\ frame'.count = m.value /\ frame'.status = "saved"
         /\ lowered' = Frame!Lowers(m.value)
         /\ \/ m.type = "state" /\ frame'.connecting = frame.connecting
            \/ /\ m.type = "response"
               /\ \E p \in pending :
                    /\ p.id = m.id /\ p \notin pending'
                    /\ frame'.connecting = (frame.connecting /\ p.method # "subscribe")
  <2> HIDE DEF FrameInv
  <2> QED BY <1>1, <1>3, <1>4, <1>6, <1>7, Received
<1>10. Frame!Started' /\ (Talks' <=> Talks)
  BY <1>1, <1>4, <1>8 DEF Frame!Started, Talks
<1>11. Frame!TypeOK' BY <1>1, <1>3, <1>8 DEF Frame!TypeOK
<1>12. FrameBasic'
  <2>1. Numbered' BY <1>1, <1>4, <1>8 DEF FrameBasic, Numbered, Frame!Started
  <2>2. NothingAsked' BY <1>10 DEF NothingAsked
  <2>3. FrameReady' BY <1>1, <1>4, <1>8, <1>10 DEF FrameBasic, FrameReady, Frame!Started
  <2>4. LoadsOnce' BY <1>1, <1>4, <1>8 DEF FrameBasic, LoadsOnce, Frame!Started
  <2>5. Saving'
    <3>1. frame'.status = "saved" => frame'.count # None
      BY <1>4, <1>9 DEF FrameBasic, Saving, Frame!Started
    <3>2. ASSUME frame'.status = "saving" PROVE \E p \in pending' : p.method = "update"
      <4>1. frame.status = "saving" /\ \A q \in pending : q.method = "update" => q \in pending'
        BY <1>9, <3>2
      <4> QED BY <1>4, <4>1 DEF FrameBasic, Saving, Frame!Started
    <3> QED BY <3>1, <3>2 DEF Saving
  <2>6. PendingFits'
    <3>1. ASSUME NEW p \in pending', p.method = "subscribe" PROVE frame'.connecting
      <4>1. frame.connecting /\ \A q \in pending : q.method = "subscribe" => q = p
        BY <1>5, <1>8, <3>1 DEF PendingFits
      <4> QED BY <1>9, <3>1, <4>1
    <3>2. \A i \in DOMAIN toFrame' :
            toFrame'[i].id <= frame.sent /\ (toFrame'[i].type = "state" => toFrame'[i].value # None)
      BY <1>3, <1>5 DEF PendingFits
    <3> QED BY <1>1, <1>5, <1>8, <3>1, <3>2 DEF PendingFits
  <2> QED BY <2>1, <2>2, <2>3, <2>4, <2>5, <2>6 DEF FrameBasic
<1>13. CASE ~Talks
  <2>1. FrameTold'
    BY <1>10, <1>13 DEF FrameTold, OneNonce, SubscribesFirst, NoLater, LatestFollows, LatestShown
  <2> QED BY <1>11, <1>12, <2>1
<1>14. CASE Talks
  <2>0. OneNonce /\ SubscribesFirst /\ NoLater /\ LatestFollows /\ LatestShown BY DEF FrameTold
  <2>1. OneNonce' BY <1>1, <1>3, <1>8, <1>14, <2>0 DEF OneNonce
  <2>2. subscribed = [room |-> room, nonce |-> nonce] BY <1>1, <1>14, <2>0 DEF SubscribesFirst
  <2>3. SubscribesFirst' BY <1>1, <2>2 DEF SubscribesFirst
  <2>4. m.value # None => m.value <= value[room] BY <1>3, <1>14, <2>0 DEF NoLater
  <2>5. NoLater' BY <1>1, <1>3, <1>9, <1>14, <2>0, <2>4 DEF NoLater
  <2>6. \A k \in DOMAIN toFrame : k # 1 => (News(k - 1)' <=> News(k))
    BY <1>1, <1>3 DEF News
  <2>7. ASSUME NEW i \in DOMAIN toFrame', NewsFrom(i + 1) PROVE NewsFrom(i)'
    <3>1. PICK k \in DOMAIN toFrame : i + 1 <= k /\ News(k) BY <2>7 DEF NewsFrom
    <3>2. k # 1 /\ i <= k - 1 /\ k - 1 \in DOMAIN toFrame' BY <1>3, <3>1
    <3>3. News(k - 1)' BY <2>6, <3>1, <3>2
    <3> QED BY <3>2, <3>3 DEF NewsFrom
  <2>8. \A x : AnswersClick(x)' => AnswersClick(x) BY <1>8 DEF AnswersClick
  <2>9. LatestFollows'
    <3>1. SUFFICES ASSUME ~unseen, NEW i \in DOMAIN toFrame'
                   PROVE  /\ toFrame'[i].type = "state" => NewsFrom(i)'
                          /\ AnswersClick(toFrame[i])' =>
                               toFrame'[i].value \in {value[room], None} \/ NewsFrom(i)'
      BY <1>1 DEF LatestFollows
    <3>2. i + 1 \in DOMAIN toFrame /\ toFrame'[i] = toFrame[i + 1] BY <1>3
    <3>3. /\ toFrame[i + 1].type = "state" => NewsFrom(i + 1)
          /\ AnswersClick(toFrame[i + 1]) =>
               toFrame[i + 1].value \in {value[room], None} \/ NewsFrom(i + 1)
      BY <1>14, <2>0, <3>1, <3>2 DEF LatestFollows
    <3>4. AnswersClick(toFrame[i])' => AnswersClick(toFrame[i + 1]) BY <1>8, <3>2 DEF AnswersClick
    <3> QED BY <2>7, <3>2, <3>3, <3>4
  <2>10. LatestShown'
    <3>1. SUFFICES ASSUME ~unseen, \A k \in DOMAIN toFrame' : ~News(k)'
                   PROVE  IF frame'.count = None
                          THEN /\ \A i \in DOMAIN toFrame' : toFrame'[i].value \in {value[room], None}
                               /\ \A h \in handlers : h.read \in {value[room], None}
                          ELSE frame'.count = value[room] \/ (lowered' /\ ~frame'.connecting)
      BY <1>1 DEF LatestShown
    <3>2. \A k \in DOMAIN toFrame : k # 1 => ~News(k) BY <1>3, <2>6, <3>1
    <3>3. ASSUME \A k \in DOMAIN toFrame : ~News(k)
          PROVE  IF frame.count = None
                 THEN /\ \A i \in DOMAIN toFrame : toFrame[i].value \in {value[room], None}
                      /\ \A h \in handlers : h.read \in {value[room], None}
                 ELSE frame.count = value[room] \/ (lowered /\ ~frame.connecting)
      BY <1>14, <2>0, <3>1, <3>3 DEF LatestShown
    <3>4. CASE News(1)
      <4>1. m.type = "state" /\ m.value = value[room] /\ m.nonce = frame.nonce
        BY <1>3, <1>14, <2>0, <3>4 DEF News, OneNonce
      <4>2. ~Frame!Ignored(m) BY <4>1 DEF Frame!Ignored
      <4>3. frame'.count = m.value /\ m.value # None BY <1>9, <4>1, <4>2
      <4> QED BY <4>1, <4>3
    <3>5. ASSUME ~News(1), frame'.count = frame.count, lowered' = lowered,
                 frame'.connecting = frame.connecting
          PROVE  LatestShown'
      <4>1. \A k \in DOMAIN toFrame : ~News(k) BY <3>2, <3>5
      <4>2. \A i \in DOMAIN toFrame' : toFrame'[i] \in {toFrame[j] : j \in DOMAIN toFrame} BY <1>3
      <4> QED BY <1>1, <3>3, <3>5, <4>1, <4>2 DEF LatestShown
    <3>6. ASSUME ~News(1), ~Frame!Ignored(m), m.value # None, frame'.count = m.value,
                 lowered' = Frame!Lowers(m.value), m.value # value[room],
                 \/ m.type = "state" /\ frame'.connecting = frame.connecting
                 \/ /\ m.type = "response"
                    /\ \E p \in pending :
                         /\ p.id = m.id /\ p \notin pending'
                         /\ frame'.connecting = (frame.connecting /\ p.method # "subscribe")
          PROVE  lowered' /\ ~frame'.connecting
      <4>1. \A k \in DOMAIN toFrame : ~News(k) BY <3>2, <3>6
      <4>2. \A i : ~NewsFrom(i) BY <4>1 DEF NewsFrom
      <4>3. m.type # "state" /\ ~AnswersClick(m)
        BY <1>3, <1>14, <2>0, <3>1, <3>6, <4>2 DEF LatestFollows
      <4>4. PICK p \in pending :
              p.id = m.id /\ frame'.connecting = (frame.connecting /\ p.method # "subscribe")
        BY <3>6, <4>3
      <4>5. p.method \in Frame!Methods BY DEF Frame!TypeOK, Frame!Requests
      <4>6. p.method = "subscribe" BY <3>6, <4>3, <4>4, <4>5 DEF AnswersClick, Frame!Methods
      <4>7. frame.connecting BY <1>5, <4>6 DEF PendingFits
      <4>8. frame.count # None /\ frame.count = value[room]
        BY <1>3, <3>3, <3>6, <4>1, <4>7
      <4>9. room \in Rooms BY <1>4 DEF FrameBasic, FrameReady, Frame!Started, Frame!TypeOK
      <4>10. value[room] \in Nat BY <4>9 DEF Frame!TypeOK
      <4>11. m.value \in Nat BY <1>3, <3>6 DEF Frame!Posted
      <4>12. m.value < value[room] BY <2>4, <3>6, <4>10, <4>11
      <4>13. lowered' BY <3>6, <4>8, <4>12 DEF Frame!Lowers
      <4> QED BY <4>4, <4>6, <4>13
    <3>7. CASE ~News(1)
      <4>1. CASE /\ Frame!Ignored(m) \/ (m.type = "response" /\ m.value = None)
                 /\ frame'.count = frame.count /\ lowered' = lowered
                 /\ frame'.connecting = frame.connecting
        <5>1. LatestShown' BY <3>5, <3>7, <4>1
        <5> QED BY <1>1, <1>10, <1>14, <3>1, <5>1 DEF LatestShown
      <4>2. CASE /\ ~Frame!Ignored(m) /\ m.value # None
                 /\ frame'.count = m.value /\ frame'.status = "saved"
                 /\ lowered' = Frame!Lowers(m.value)
                 /\ \/ m.type = "state" /\ frame'.connecting = frame.connecting
                    \/ /\ m.type = "response"
                       /\ \E p \in pending :
                            /\ p.id = m.id /\ p \notin pending'
                            /\ frame'.connecting = (frame.connecting /\ p.method # "subscribe")
        BY <3>6, <3>7, <4>2
      <4> QED BY <1>9, <4>1, <4>2
    <3> QED BY <3>4, <3>7
  <2>11. FrameTold' BY <2>1, <2>3, <2>5, <2>9, <2>10 DEF FrameTold
  <2> QED BY <1>11, <1>12, <2>11
<1> QED BY <1>13, <1>14

\* Every step of the page, of the bridge and of the script.
LEMMA FrameStep == FrameInv /\ Frame!Next => FrameInv'
<1> SUFFICES ASSUME FrameInv, Frame!Next PROVE FrameInv' OBVIOUS
<1> HIDE DEF FrameInv
<1>1. CASE Frame!FrameStarts BY <1>1, FrameStartsStep
<1>2. CASE Frame!Click BY <1>2, ClickStep
<1>3. CASE Frame!SubscribeAgain BY <1>3, SubscribeAgainStep
<1>4. CASE Frame!Receive BY <1>4, ReceiveStep
<1>5. CASE Frame!HandleMessage BY <1>5, HandleMessageStep
<1>6. CASE \E l \in loads : Frame!GetRoom(l) \/ Frame!LoadBundle(l) \/ Frame!LoadFails(l)
  BY <1>6, LoadSteps
<1>7. CASE \E p \in pending : Frame!TimesOut(p) BY <1>7, TimesOutStep
<1>8. CASE \E h \in handlers : \/ Frame!RoomState(h) \/ Frame!Answer(h)
                               \/ Frame!IncrementCounter(h) \/ Frame!HandlerFails(h)
  BY <1>8, RoomStateStep, AnswerStep, IncrementStep, HandlerFailsStep
<1>9. CASE \E r \in Rooms : Frame!Jump(r) \/ Frame!Applied(r) \/ Frame!AppliedElsewhere(r)
  BY <1>9, JumpStep, AppliedStep, AppliedElsewhereStep
<1> QED BY <1>1, <1>2, <1>3, <1>4, <1>5, <1>6, <1>7, <1>8, <1>9 DEF Frame!Next

\* The page as it is mounted.
LEMMA FrameInit == Frame!Init => FrameInv
<1> SUFFICES ASSUME Frame!Init PROVE FrameInv OBVIOUS
<1>1. loads = {[room |-> roomId, stage |-> "room", active |-> TRUE]} /\ roomId \in Rooms
  BY DEF Frame!Init
<1>2. /\ room = None /\ bundle = None /\ loading /\ nonce = 0 /\ subscribed = None
      /\ handlers = {} /\ frame = None /\ pending = {} /\ toPage = <<>> /\ toFrame = <<>>
      /\ clicks = 0 /\ ~lowered /\ ~unseen /\ ~jumped
  BY DEF Frame!Init
<1>3. ~Frame!Started BY <1>2 DEF Frame!Started
<1>4. Frame!TypeOK
  <2>1. clicks \in 0..MaxClicks /\ applied \in 0..MaxApplied /\ jumps \in 0..MaxJumps
        /\ faults \in 0..FrameFaults
    BY BoundsAreNatural DEF Frame!Init
  <2>2. value \in [Rooms -> Nat] BY DEF Frame!Init
  <2>3. {lowered, unseen, jumped} \subseteq BOOLEAN /\ loading \in BOOLEAN BY DEF Frame!Init
  <2>4. toPage \in Seq(Frame!Asked) /\ toFrame \in Seq(Frame!Posted) BY <1>2
  <2>5. loads \subseteq [room : Rooms, stage : {"room", "bundle"}, active : BOOLEAN] BY <1>1
  <2> QED BY <1>1, <1>2, <2>1, <2>2, <2>3, <2>4, <2>5 DEF Frame!TypeOK
<1>5. FrameBasic
  <2>1. Numbered /\ NothingAsked /\ FrameReady /\ Saving
    BY <1>2 DEF Numbered, NothingAsked, FrameReady, Saving
  <2>2. PendingFits BY <1>2 DEF PendingFits
  <2>3. LoadsOnce BY <1>1, <1>2 DEF LoadsOnce
  <2> QED BY <2>1, <2>2, <2>3 DEF FrameBasic
<1>6. FrameTold
  BY <1>3 DEF FrameTold, Talks, OneNonce, SubscribesFirst, NoLater, LatestFollows, LatestShown
<1> QED BY <1>4, <1>5, <1>6 DEF FrameInv

\* What a frame at rest shows follows.
LEMMA FrameFollows == FrameInv => Frame!ShowsTheRoom /\ Frame!StatusSettles
<1> SUFFICES ASSUME FrameInv PROVE Frame!ShowsTheRoom /\ Frame!StatusSettles OBVIOUS
<1>1. Frame!ShowsTheRoom
  <2>1. SUFFICES ASSUME Frame!Resting, frame.count # None, ~lowered, ~unseen, ~jumped
                 PROVE  frame.count = value[room]
    BY DEF Frame!ShowsTheRoom
  <2>2. Talks /\ toFrame = <<>> BY <2>1 DEF Frame!Resting, Frame!wires, Talks
  <2>3. \A k \in DOMAIN toFrame : ~News(k) BY <2>2
  <2> QED BY <2>1, <2>2, <2>3 DEF FrameInv, FrameTold, LatestShown
<1>2. Frame!StatusSettles
  BY DEF FrameInv, FrameBasic, Saving, Frame!StatusSettles, Frame!Resting, Frame!Started
<1> QED BY <1>1, <1>2

-----------------------------------------------------------------------------
(* The pages *)

\* The invariant of what is explored.
Inv == (mounted = "entry" => EntryInv) /\ (mounted = "frame" => FrameInv)

\* The properties of the entry pages and of the frame are about their own state.
LEMMA InvInit == Init => Inv
BY EntryInit, FrameInit DEF Init, Inv

\* What is not mounted does not move.
LEMMA EntryStutters == EntryInv /\ UNCHANGED <<entry, faults>> => EntryInv'
<1> SUFFICES ASSUME EntryInv, UNCHANGED <<entry, faults>> PROVE EntryInv' OBVIOUS
<1>1. UNCHANGED <<vault, used, session, page, home, join, call, acts, faults, excused, overwritten,
                  left>>
  BY DEF entry
<1>2. Entry!TypeOK' BY <1>1 DEF EntryInv, Entry!TypeOK
<1>3. /\ \A s : Entry!Creates(s)' <=> Entry!Creates(s)
      /\ \A s : Entry!Joins(s)' <=> Entry!Joins(s)
  BY <1>1 DEF Entry!Creates, Entry!Joins
<1>4. Coming' = Coming BY <1>1, <1>3 DEF Coming
<1>5. OnePage' /\ AliveOnPage' /\ LeftCalls'
  BY <1>1, <1>3 DEF EntryInv, OnePage, AliveOnPage, LeftCalls
<1>6. StoredFirst' /\ SpentInUse' BY <1>1, <1>3 DEF EntryInv, StoredFirst, SpentInUse
<1>7. FormHasPermit' /\ Offers' BY <1>1 DEF EntryInv, FormHasPermit, Offers, Entry!Seats
<1>8. Lists' BY <1>1, <1>4 DEF EntryInv, Lists
<1>9. Entry!ButtonsComeBack' BY <1>1, <1>3 DEF EntryInv, Entry!ButtonsComeBack
<1> QED BY <1>2, <1>5, <1>6, <1>7, <1>8, <1>9 DEF EntryInv

\* Nor does a step that leaves everything as it is disturb the frame.
LEMMA FrameStutters == FrameInv /\ UNCHANGED <<stage, faults>> => FrameInv'
<1> SUFFICES ASSUME FrameInv, UNCHANGED <<stage, faults>> PROVE FrameInv' OBVIOUS
<1>1. UNCHANGED <<value, roomId, loads, room, bundle, loading, nonce, subscribed, handlers, frame,
                  pending, toPage, toFrame, clicks, applied, jumps, faults, lowered, unseen, jumped>>
  BY DEF stage
<1>2. Frame!TypeOK' BY <1>1 DEF FrameInv, Frame!TypeOK
<1>3. /\ Numbered' /\ FrameReady' /\ Saving' /\ LoadsOnce'
      /\ (Frame!Started' <=> Frame!Started) /\ (Talks' <=> Talks)
      /\ \A m : AnswersClick(m)' <=> AnswersClick(m)
  BY <1>1, SameScript
<1>4. NothingAsked' /\ PendingFits'
  BY <1>1, <1>3 DEF FrameInv, FrameBasic, NothingAsked, PendingFits
<1>5. OneNonce' /\ SubscribesFirst' /\ NoLater'
  BY <1>1, <1>3 DEF FrameInv, FrameTold, OneNonce, SubscribesFirst, NoLater
<1>6. \A k : News(k)' <=> News(k) BY <1>1 DEF News
<1>7. \A k : NewsFrom(k)' <=> NewsFrom(k) BY <1>1, <1>6 DEF NewsFrom
<1>8. LatestFollows' /\ LatestShown'
  BY <1>1, <1>3, <1>6, <1>7 DEF FrameInv, FrameTold, LatestFollows, LatestShown
<1> QED BY <1>2, <1>3, <1>4, <1>5, <1>8 DEF FrameInv, FrameBasic, FrameTold

\* Every step of the pages preserves the invariant.
LEMMA InvStep == Inv /\ [Next]_vars => Inv'
<1> SUFFICES ASSUME Inv, [Next]_vars PROVE Inv' OBVIOUS
<1>1. CASE Next BY <1>1, EntryStep, FrameStep DEF Next, Inv
<1>2. CASE UNCHANGED vars BY <1>2, EntryStutters, FrameStutters DEF Inv, vars
<1> QED BY <1>1, <1>2

\* The pages, their calls, the bridge, the script and their messages are always well formed
\* (HomePage, JoinPage and RoomPage, RoomAppFrame's bridge, and the script of the frame).
THEOREM TypeCorrect == Spec => []TypeOK
<1>1. Inv => TypeOK BY DEF Inv, TypeOK, EntryInv, FrameInv
<1> QED BY <1>1, InvInit, InvStep, PTL DEF Spec

\* Whatever page a creation or a redemption ends on, and whichever of its steps fails, the
\* home page at rest lists the rooms of the vault, it offers the permit the session keeps, a
\* permit that has bought a room is forgotten, and the buttons come back.
THEOREM EntryMatchesHolds == Spec => []EntryMatches
<1>1. Inv => EntryMatches BY EntryFollows DEF Inv, EntryMatches
<1> QED BY <1>1, InvInit, InvStep, PTL DEF Spec

\* Whatever order the requests of the frame, their answers and the notifications come in, and
\* whichever of them time out or fail, a frame at rest shows the counter of its room and
\* does not say that it saves.
THEOREM FrameShowsRoomHolds == Spec => []FrameShowsRoom
<1>1. Inv => FrameShowsRoom BY FrameFollows DEF Inv, FrameShowsRoom
<1> QED BY <1>1, InvInit, InvStep, PTL DEF Spec
=============================================================================
