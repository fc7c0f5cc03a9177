------------------------------ MODULE RoomEntry ------------------------------
(***************************************************************************)
(* How rooms enter the vault of a browser tab: the home page, which lists  *)
(* them and spends a creator permit on a new one, and the join page, which *)
(* redeems an invitation.  The permit is kept in the storage of the        *)
(* session, outlives the page, and buys one room.                          *)
(*                                                                         *)
(* Creating and joining are sequences of requests, and go on when their    *)
(* page is left.  What the service decides is in RoomAdmission; a room is  *)
(* named by the permit or by the invitation it comes from.                 *)
(***************************************************************************)
EXTENDS Naturals

CONSTANTS
    Permits,        \* creator permits, well formed
    Invites,        \* invitations with their packages
    Malformed,      \* typed texts that are no permit
    SeatsOf,        \* the capacity a permit names
    Slots,          \* bound: calls in progress at the same time
    MaxActs,        \* bound: what the user does
    MaxFaults,      \* bound: requests that fail, permits and invitations that expire
    None

RoomNames == Permits \cup Invites
Pages == {"home", "join", "room"}
Refusals == {"used", "expired"}

VARIABLES
    vault,          \* the rooms stored on the device
    used,           \* the permits the service has consumed
    session,        \* the permit in the storage of the session
    page,           \* the page that is mounted
    home,           \* the state of the home page
    join,           \* the state of the join page
    call,           \* call[s]: a createRoom or a redeemInvitation in progress
    acts, faults,   \* bounds
    excused,       \* history: permits consumed by a creation that did not succeed,
                    \* or typed again when they were consumed
    overwritten,    \* history: the list that was read hid a room shown before
    left            \* history: a call went on, or ended, after its page was left

server == <<vault, used>>
bounds == <<acts, faults>>
history == <<excused, overwritten, left>>
vars == <<server, session, page, home, join, call, bounds, history>>

\* With no permit, the capacity is that of the form's default.
Seats(p) == IF p = None THEN 2 ELSE SeatsOf[p]

Home == [rooms : SUBSET RoomNames, read : (SUBSET RoomNames) \cup {None}, loading : BOOLEAN,
         unlocking : BOOLEAN, form : BOOLEAN, created : Permits \cup {None}, queued : BOOLEAN,
         permit : Permits \cup {None}, seats : {2} \cup {SeatsOf[p] : p \in Permits},
         creating : BOOLEAN, failed : BOOLEAN, refusal : Refusals \cup {"format", None}]
Join == [joining : BOOLEAN, failed : BOOLEAN]

\* alive: the page that made the call is still mounted.
Call == [room : RoomNames, seats : {0, 2} \cup {SeatsOf[p] : p \in Permits}, alive : BOOLEAN,
         stage : {"request", "setup", "store", "upload", "done", "queued", "failed"} \cup Refusals]

HomePage == [rooms |-> {}, read |-> None, loading |-> TRUE, unlocking |-> FALSE, form |-> FALSE,
             created |-> None, queued |-> FALSE, permit |-> session, seats |-> Seats(session),
             creating |-> FALSE, failed |-> FALSE, refusal |-> None]
JoinPage == [joining |-> FALSE, failed |-> FALSE]

Init ==
    /\ vault \in SUBSET Invites /\ used = {} /\ session = None /\ call = [s \in Slots |-> None]
    /\ page = "home" /\ home = HomePage /\ join = None
    /\ acts = 0 /\ faults = 0 /\ excused = {} /\ overwritten = FALSE /\ left = FALSE

Creates(s) == call[s] # None /\ call[s].room \in Permits
Joins(s) == call[s] # None /\ call[s].room \in Invites
At(s, stage) == call[s] # None /\ call[s].stage = stage
Move(s, stage) == call' = [call EXCEPT ![s].stage = stage]
End(s) == call' = [call EXCEPT ![s] = None]
Fault == faults < MaxFaults /\ faults' = faults + 1

\* The calls when their page is unmounted: they go on, and no page shows how they end.
Unmounted(calls) ==
    [s \in Slots |-> IF calls[s] = None THEN None ELSE [calls[s] EXCEPT !.alive = FALSE]]
GoOn(calls) == \E s \in Slots : calls[s] # None

-----------------------------------------------------------------------------
(* createRoom *)

\* The service refuses a permit it has consumed; another may have expired meanwhile.
Provision(s) ==
    /\ At(s, "request") /\ Creates(s) /\ call[s].room \notin used
    /\ used' = used \cup {call[s].room} /\ Move(s, "setup")
    /\ UNCHANGED <<vault, session, page, home, join, bounds, history>>

Refuse(s) ==
    /\ At(s, "request") /\ Creates(s)
    /\ IF call[s].room \in used THEN Move(s, "used") /\ UNCHANGED faults
                                ELSE Move(s, "expired") /\ Fault
    /\ UNCHANGED <<server, session, page, home, join, acts, history>>

\* The keys are made, the first invitation is issued, and the package is put together.
CreateInvite(s) ==
    /\ At(s, "setup") /\ Creates(s) /\ Move(s, "store")
    /\ UNCHANGED <<server, session, page, home, join, bounds, history>>

PutRoom(s) ==
    /\ At(s, "store") /\ vault' = vault \cup {call[s].room}
    /\ Move(s, IF Creates(s) THEN "upload" ELSE "done")
    /\ UNCHANGED <<used, session, page, home, join, bounds, history>>

\* When the upload fails the room is created all the same.
PutCheckpoint(s) ==
    /\ At(s, "upload")
    /\ \/ Move(s, "done") /\ UNCHANGED faults
       \/ Move(s, "queued") /\ Fault
    /\ UNCHANGED <<server, session, page, home, join, acts, history>>

\* A request fails, or is served and its answer is lost; the vault or the keys fail.
Breaks(s) ==
    /\ \E stage \in {"request", "setup", "store"} : At(s, stage)
    /\ Fault /\ Move(s, "failed")
    /\ \/ UNCHANGED used
       \/ At(s, "request") /\ Creates(s) /\ used' = used \cup {call[s].room}
    /\ excused' = IF Creates(s) /\ call[s].room \in used' THEN excused \cup {call[s].room}
                                                           ELSE excused
    /\ UNCHANGED <<vault, session, page, home, join, acts, overwritten, left>>

-----------------------------------------------------------------------------
(* redeemInvitation *)

Redeem(s) ==
    /\ At(s, "request") /\ Joins(s) /\ Move(s, "setup")
    /\ UNCHANGED <<server, session, page, home, join, bounds, history>>

\* The room, its checkpoint and its members are fetched, decrypted and compared.
FetchCheckpoint(s) ==
    /\ At(s, "setup") /\ Joins(s) /\ Move(s, "store")
    /\ UNCHANGED <<server, session, page, home, join, bounds, history>>

\* What the join page does when the call ends.  It navigates even if it was left.
Joined(s) ==
    /\ At(s, "done") /\ Joins(s) /\ call' = Unmounted([call EXCEPT ![s] = None])
    /\ page' = "room" /\ home' = None /\ join' = None /\ left' = GoOn(call')
    /\ UNCHANGED <<server, session, bounds, excused, overwritten>>

JoinFailed(s) ==
    /\ At(s, "failed") /\ Joins(s) /\ End(s)
    /\ join' = IF call[s].alive THEN [joining |-> FALSE, failed |-> TRUE] ELSE join
    /\ UNCHANGED <<server, session, page, home, bounds, history>>

-----------------------------------------------------------------------------
(* The home page: reading the list, and what it does when createRoom ends *)

ListRooms ==
    /\ home # None /\ home.loading /\ home.read = None /\ home' = [home EXCEPT !.read = vault]
    /\ UNCHANGED <<server, session, page, join, call, bounds, history>>

Listed ==
    /\ home # None /\ home.loading /\ home.read # None
    /\ home' = [home EXCEPT !.rooms = home.read, !.read = None, !.loading = FALSE]
    /\ overwritten' = (home.rooms \ home.read # {})
    /\ UNCHANGED <<server, session, page, join, call, bounds, excused, left>>

ReadFails ==
    /\ home # None /\ home.loading /\ Fault /\ overwritten' = TRUE
    /\ home' = [home EXCEPT !.read = None, !.loading = FALSE]
    /\ UNCHANGED <<server, session, page, join, call, acts, excused, left>>

\* How a page that is still mounted shows the end of a call, and any other leaves it.
Shown(s, to) == IF call[s].alive THEN [to EXCEPT !.creating = FALSE] ELSE home

\* Fault: the permit of the page is forgotten, and that of the session kept.
CreatedInPage(s) ==
    /\ Creates(s) /\ (At(s, "done") \/ At(s, "queued")) /\ End(s)
    /\ home' = Shown(s, [home EXCEPT !.created = call[s].room, !.queued = At(s, "queued"),
                                     !.rooms = @ \cup {call[s].room}, !.permit = None,
                                     !.form = FALSE])
    /\ UNCHANGED <<server, session, page, join, bounds, history>>

\* The permit of the session is forgotten even if the page was left.
Created(s) ==
    /\ Creates(s) /\ (At(s, "done") \/ At(s, "queued")) /\ End(s) /\ session' = None
    /\ home' = Shown(s, [home EXCEPT !.created = call[s].room, !.queued = At(s, "queued"),
                                     !.rooms = @ \cup {call[s].room}, !.permit = None,
                                     !.form = FALSE])
    /\ UNCHANGED <<server, page, join, bounds, history>>

Rejected(s) ==
    /\ Creates(s) /\ call[s].stage \in Refusals /\ End(s) /\ session' = None
    /\ home' = Shown(s, [home EXCEPT !.permit = None, !.seats = 2, !.form = FALSE,
                                     !.refusal = call[s].stage, !.unlocking = TRUE])
    /\ UNCHANGED <<server, page, join, bounds, history>>

\* Any other error is shown, and the permit kept.
CreateFailed(s) ==
    /\ Creates(s) /\ At(s, "failed") /\ End(s)
    /\ home' = Shown(s, [home EXCEPT !.failed = TRUE])
    /\ UNCHANGED <<server, session, page, join, bounds, history>>

-----------------------------------------------------------------------------
(* The user *)

Act == acts < MaxActs /\ acts' = acts + 1
Asked(room, seats) ==
    \E s \in Slots : call[s] = None /\
      call' = [call EXCEPT ![s] = [room |-> room, seats |-> seats, alive |-> TRUE,
                                   stage |-> "request"]]

\* Fault: the form is opened without a permit.
OpenCreateUnasked ==
    /\ home # None /\ Act /\ home' = [home EXCEPT !.failed = FALSE, !.form = TRUE]
    /\ UNCHANGED <<server, session, page, join, call, faults, history>>

OpenCreate ==
    /\ home # None /\ Act
    /\ home' = IF home.permit # None THEN [home EXCEPT !.failed = FALSE, !.form = TRUE]
               ELSE [home EXCEPT !.failed = FALSE, !.refusal = None, !.unlocking = TRUE]
    /\ UNCHANGED <<server, session, page, join, call, faults, history>>

\* The form may be closed during the creation.
CloseModal ==
    /\ home # None
    /\ \/ home.form /\ home' = [home EXCEPT !.form = FALSE]
       \/ home.unlocking /\ home' = [home EXCEPT !.unlocking = FALSE]
       \/ home.created # None /\ home' = [home EXCEPT !.created = None]
    /\ UNCHANGED <<server, session, page, join, call, bounds, history>>

Unlock(t) ==
    /\ home # None /\ home.unlocking /\ Act
    /\ IF t \in Malformed THEN home' = [home EXCEPT !.refusal = "format"] /\ UNCHANGED <<session, excused>>
       ELSE /\ session' = t /\ excused' = excused \cup (used \cap {t})
            /\ home' = [home EXCEPT !.permit = t, !.seats = Seats(t), !.refusal = None,
                                    !.unlocking = FALSE, !.form = TRUE]
    /\ UNCHANGED <<server, page, join, call, faults, overwritten, left>>

Submit ==
    /\ home # None /\ home.form /\ ~home.creating /\ Act
    /\ Asked(home.permit, home.seats)
    /\ home' = [home EXCEPT !.failed = FALSE, !.creating = TRUE]
    /\ UNCHANGED <<server, session, page, join, faults, history>>

SubmitJoin(i) ==
    /\ join # None /\ ~join.joining /\ Act /\ Asked(i, 0)
    /\ join' = [joining |-> TRUE, failed |-> FALSE]
    /\ UNCHANGED <<server, session, page, home, faults, history>>

\* The router mounts another page.
GoTo(p) ==
    /\ p # page /\ Act /\ page' = p /\ call' = Unmounted(call)
    /\ home' = IF p = "home" THEN HomePage ELSE None
    /\ join' = IF p = "join" THEN JoinPage ELSE None
    /\ overwritten' = FALSE /\ left' = GoOn(call')
    /\ UNCHANGED <<server, session, faults, excused>>

\* The calls end with the tab's document; the storage of the session stays.
Reload ==
    /\ Act /\ home' = (IF home = None THEN None ELSE HomePage)
    /\ join' = (IF join = None THEN None ELSE JoinPage)
    /\ call' = [s \in Slots |-> None] /\ overwritten' = FALSE /\ left' = FALSE
    /\ excused' = excused \cup {p \in used : \E s \in Slots : call[s] # None /\ call[s].room = p}
    /\ UNCHANGED <<server, session, page, faults>>

Next ==
    \/ ListRooms \/ Listed \/ ReadFails \/ OpenCreate \/ CloseModal \/ Submit \/ Reload
    \/ \E t \in Permits \cup Malformed : Unlock(t)
    \/ \E i \in Invites : SubmitJoin(i)
    \/ \E p \in Pages : GoTo(p)
    \/ \E s \in Slots :
         \/ Provision(s) \/ Refuse(s) \/ CreateInvite(s) \/ PutRoom(s) \/ PutCheckpoint(s)
         \/ Breaks(s) \/ Redeem(s) \/ FetchCheckpoint(s) \/ Joined(s) \/ JoinFailed(s)
         \/ Created(s) \/ Rejected(s) \/ CreateFailed(s)

Spec == Init /\ [][Next]_vars

-----------------------------------------------------------------------------
(* Properties *)

\* What the vault, the session, the pages and their calls range over.
TypeOK ==
    /\ vault \subseteq RoomNames /\ used \subseteq Permits /\ session \in Permits \cup {None}
    /\ page \in Pages /\ home \in Home \cup {None} /\ join \in Join \cup {None}
    /\ call \in [Slots -> Call \cup {None}]
    /\ acts \in 0..MaxActs /\ faults \in 0..MaxFaults
    /\ excused \subseteq Permits /\ overwritten \in BOOLEAN /\ left \in BOOLEAN

Resting == \A s \in Slots : call[s] = None

\* A home page at rest lists the rooms of the device, unless its reading of the vault was
\* answered late or failed, or a call of a page left before it ended since.
ListsVault == home # None /\ Resting /\ ~home.loading /\ ~overwritten /\ ~left => home.rooms = vault

\* It offers the permit the session keeps, with the capacity the permit names.
OffersItsPermit ==
    home # None /\ Resting /\ ~left =>
        /\ home.permit = session
        /\ home.permit # None => home.seats = Seats(home.permit)

\* A permit that has bought a room is not kept; only that of a creation which failed
\* after the service had consumed it may still be there, or one that was typed again.
SpentIsForgotten == Resting => session \notin used \ excused

\* The button of a page is disabled only while a call of the page is in progress.
ButtonsComeBack ==
    /\ home # None /\ home.creating => \E s \in Slots : Creates(s) /\ call[s].alive
    /\ join # None /\ join.joining => \E s \in Slots : Joins(s) /\ call[s].alive
=============================================================================
