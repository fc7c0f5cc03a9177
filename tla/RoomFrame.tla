------------------------------ MODULE RoomFrame ------------------------------
(***************************************************************************)
(* The page of a room and the sandboxed frame in it, which shows the       *)
(* counter.  The page loads the room and its bundle from the vault and     *)
(* mounts the frame; the frame's script asks for the state and for         *)
(* increments in messages that the bridge of the page answers, and the     *)
(* bridge posts every change of the counter to the frame that subscribed.  *)
(*                                                                         *)
(* Messages between the two windows arrive in the order of their posting.  *)
(* The bridge answers a request after awaits, so that answers and          *)
(* notifications are posted in any order.                                  *)
(***************************************************************************)
EXTENDS Naturals, Sequences, FiniteSets

CONSTANTS
    Rooms,          \* the rooms in the vault
    MaxAttempts,    \* subscriptions the frame attempts, 8 in the code
    MaxClicks,      \* bound: clicks on the button
    MaxApplied,     \* bound: increments of other devices
    MaxJumps,       \* bound: steps in the browser's history, from room to room
    MaxFaults,      \* bound: awaits that fail and requests that time out
    None

VARIABLES
    value,          \* value[r]: the counter of room r in the vault
    roomId,         \* the room in the address
    loads,          \* the page's loads in progress
    room, bundle,   \* the room of the page, and the room whose bundle it shows
    loading,
    nonce,          \* of the bundle shown: the bridge answers no other
    subscribed,     \* the listener of the frame
    handlers,       \* requests the bridge is answering
    frame,          \* the script of the frame
    pending,        \* requests of the frame that wait for an answer
    toPage, toFrame,                    \* messages on their way
    clicks, applied, jumps, faults,     \* bounds
    lowered,        \* history: what was rendered last is older than what was shown
    unseen,         \* history: another tab has changed the counter since
    jumped          \* history: the page was given another room while mounted

page == <<roomId, loads, room, bundle, loading, nonce>>
bridge == <<subscribed, handlers>>
script == <<frame, pending>>
wires == <<toPage, toFrame>>
bounds == <<clicks, applied, jumps, faults>>
history == <<lowered, unseen, jumped>>
vars == <<value, page, bridge, script, wires, bounds, history>>

Ids == 1..(MaxAttempts + MaxClicks)
Methods == {"subscribe", "update"}
Requests == [id : Ids, method : Methods]
Asked == [id : Ids, method : Methods, nonce : Nat]      \* what the frame posts
Posted == [type : {"state", "response"}, id : Ids \cup {0}, nonce : Nat, value : Nat \cup {None}]
Listener == [room : Rooms, nonce : Nat]
Handler == [id : Ids, method : Methods, nonce : Nat, room : Rooms, read : Nat \cup {None}]
Script == [nonce : Nat, sent : Ids \cup {0}, attempt : 0..MaxAttempts, connecting : BOOLEAN,
           status : {"connecting", "saving", "saved", "failed", "unavailable"},
           count : Nat \cup {None}]

NotStarted == [nonce |-> 0, sent |-> 0, attempt |-> 0, connecting |-> FALSE, status |-> "connecting",
               count |-> None]

Init ==
    /\ value = [r \in Rooms |-> 0] /\ roomId \in Rooms
    /\ loads = {[room |-> roomId, stage |-> "room", active |-> TRUE]}
    /\ room = None /\ bundle = None /\ loading = TRUE /\ nonce = 0
    /\ subscribed = None /\ handlers = {} /\ frame = None /\ pending = {}
    /\ toPage = <<>> /\ toFrame = <<>>
    /\ clicks = 0 /\ applied = 0 /\ jumps = 0 /\ faults = 0
    /\ lowered = FALSE /\ unseen = FALSE /\ jumped = FALSE

Fault == faults < MaxFaults /\ faults' = faults + 1

-----------------------------------------------------------------------------
(* The page *)

\* The page shows the frame once it has both and loads no more.
Mounted == IF frame = None /\ room' # None /\ bundle' # None /\ ~loading' THEN NotStarted ELSE frame

\* Another room object reruns the effect of the frame, which disconnects the listener.  An
\* effect of the page that was cleaned up leaves its load without effect.
GetRoom(l) ==
    /\ l \in loads /\ l.stage = "room"
    /\ IF l.active
       THEN /\ loads' = (loads \ {l}) \cup {[l EXCEPT !.stage = "bundle"]}
            /\ room' = l.room /\ UNCHANGED loading
            /\ subscribed' = None
       ELSE /\ loads' = loads \ {l} /\ loading' = FALSE /\ UNCHANGED <<room, subscribed>>
    /\ UNCHANGED <<value, roomId, bundle, nonce, handlers, pending, wires, bounds, history>>
    /\ frame' = Mounted

\* Whether the effect is still active is not asked again.  Another bundle has another
\* nonce, of which a script that has started is not told.
LoadBundle(l) ==
    /\ l \in loads /\ l.stage = "bundle" /\ loads' = loads \ {l}
    /\ bundle' = l.room /\ nonce' = nonce + 1 /\ loading' = FALSE
    /\ subscribed' = None
    /\ UNCHANGED <<value, roomId, room, handlers, pending, wires, bounds, history>>
    /\ frame' = Mounted

LoadFails(l) ==
    /\ l \in loads /\ Fault /\ loads' = loads \ {l} /\ loading' = FALSE
    /\ UNCHANGED <<value, roomId, room, bundle, nonce, bridge, pending, wires, clicks, applied,
                   jumps, history>>
    /\ frame' = Mounted

\* Back or forward from one room to another: the same page with another parameter.
Jump(r) ==
    /\ jumps < MaxJumps /\ jumps' = jumps + 1 /\ r # roomId /\ roomId' = r /\ jumped' = TRUE
    /\ loads' = {[l EXCEPT !.active = FALSE] : l \in loads}
                  \cup {[room |-> r, stage |-> "room", active |-> TRUE]}
    /\ UNCHANGED <<value, room, bundle, loading, nonce, bridge, script, wires, clicks, applied,
                   faults, lowered, unseen>>

-----------------------------------------------------------------------------
(* The script of the frame *)

Started == frame # None /\ frame.nonce # 0
Call(method, f) ==
    /\ frame' = [f EXCEPT !.sent = @ + 1]
    /\ pending' = pending \cup {[id |-> f.sent + 1, method |-> method]}
    /\ toPage' = Append(toPage, [id |-> f.sent + 1, method |-> method, nonce |-> f.nonce])

FrameStarts ==
    /\ frame # None /\ ~Started
    /\ Call("subscribe", [frame EXCEPT !.nonce = nonce, !.attempt = 1, !.connecting = TRUE])
    /\ UNCHANGED <<value, page, bridge, toFrame, bounds, history>>

Click ==
    /\ Started /\ clicks < MaxClicks /\ clicks' = clicks + 1
    /\ Call("update", [frame EXCEPT !.status = "saving"])
    /\ UNCHANGED <<value, page, bridge, toFrame, applied, jumps, faults, history>>

\* What a request that is refused, or is given up, does.
Rejected(p, f) ==
    IF p.method = "update" THEN [f EXCEPT !.status = "failed"] ELSE f

TimesOut(p) ==
    /\ p \in pending /\ Fault /\ pending' = pending \ {p} /\ frame' = Rejected(p, frame)
    /\ UNCHANGED <<value, page, bridge, wires, clicks, applied, jumps, history>>

\* The subscription has failed: it is attempted again after a pause, or given up.
SubscribeAgain ==
    /\ Started /\ frame.connecting /\ \A p \in pending : p.method # "subscribe"
    /\ IF frame.attempt < MaxAttempts
       THEN Call("subscribe", [frame EXCEPT !.attempt = @ + 1])
       ELSE /\ frame' = [frame EXCEPT !.connecting = FALSE, !.status = "unavailable"]
            /\ UNCHANGED <<pending, toPage>>
    /\ UNCHANGED <<value, page, bridge, toFrame, bounds, history>>

Render(f, v) == [f EXCEPT !.count = v, !.status = "saved"]
Lowers(v) == frame.count # None /\ v < frame.count

Ignored(m) == m.nonce # frame.nonce \/ (m.type = "response" /\ \A p \in pending : p.id # m.id)

\* The script takes a message of the page.
Receive ==
    /\ toFrame # <<>> /\ toFrame' = Tail(toFrame)
    /\ LET m == Head(toFrame) IN
         \/ Ignored(m) /\ UNCHANGED <<script, lowered>>
         \/ /\ ~Ignored(m) /\ m.type = "state"
            /\ frame' = Render(frame, m.value) /\ lowered' = Lowers(m.value) /\ UNCHANGED pending
         \/ /\ ~Ignored(m) /\ m.type = "response"
            /\ \E p \in pending :
                 /\ p.id = m.id /\ pending' = pending \ {p}
                 /\ IF m.value = None THEN frame' = Rejected(p, frame) /\ UNCHANGED lowered
                    ELSE /\ frame' = [Render(frame, m.value) EXCEPT
                                        !.connecting = @ /\ p.method # "subscribe"]
                         /\ lowered' = Lowers(m.value)
    /\ UNCHANGED <<value, page, bridge, toPage, bounds, unseen, jumped>>

-----------------------------------------------------------------------------
(* The bridge *)

\* A request is taken up.  A subscription replaces that of an earlier attempt at once, and
\* is answered with the state when the vault has been read.
HandleMessage ==
    /\ toPage # <<>> /\ toPage' = Tail(toPage)
    /\ LET m == Head(toPage) IN
         IF m.nonce # nonce THEN UNCHANGED bridge
         ELSE /\ handlers' = handlers \cup {[id |-> m.id, method |-> m.method, nonce |-> m.nonce,
                                            room |-> room, read |-> None]}
              /\ subscribed' = IF m.method = "subscribe" THEN [room |-> room, nonce |-> nonce]
                                                         ELSE subscribed
    /\ UNCHANGED <<value, page, script, toFrame, bounds, history>>

Response(h, v) == [type |-> "response", id |-> h.id, nonce |-> h.nonce, value |-> v]

\* The listeners of a room are told of its state.
Notified(r, v) ==
    IF subscribed = None \/ subscribed.room # r THEN <<>>
    ELSE <<[type |-> "state", id |-> 0, nonce |-> subscribed.nonce, value |-> v]>>

RoomState(h) ==
    /\ h \in handlers /\ h.method = "subscribe" /\ h.read = None
    /\ handlers' = (handlers \ {h}) \cup {[h EXCEPT !.read = value[h.room]]}
    /\ UNCHANGED <<value, page, subscribed, script, wires, bounds, history>>

Answer(h) ==
    /\ h \in handlers /\ h.read # None /\ handlers' = handlers \ {h}
    /\ toFrame' = Append(toFrame, Response(h, h.read))
    /\ UNCHANGED <<value, page, subscribed, script, toPage, bounds, history>>

\* The increment holds the room lock; its commit, the notification and the answer follow
\* each other with no other commit in between.
IncrementCounter(h) ==
    /\ h \in handlers /\ h.method = "update" /\ handlers' = handlers \ {h}
    /\ value' = [value EXCEPT ![h.room] = @ + 1] /\ unseen' = FALSE
    /\ toFrame' = toFrame \o Notified(h.room, value'[h.room]) \o <<Response(h, value'[h.room])>>
    /\ UNCHANGED <<page, subscribed, script, toPage, bounds, lowered, jumped>>

HandlerFails(h) ==
    /\ h \in handlers /\ Fault /\ handlers' = handlers \ {h}
    /\ toFrame' = Append(toFrame, Response(h, None))
    /\ UNCHANGED <<value, page, subscribed, script, toPage, clicks, applied, jumps, history>>

-----------------------------------------------------------------------------
(* Increments of other devices, which the RoomSync of the page applies *)

\* Fault: only the increments of the device itself are told to the listeners.
AppliedSilently(r) ==
    /\ r = room /\ applied < MaxApplied /\ applied' = applied + 1
    /\ value' = [value EXCEPT ![r] = @ + 1] /\ unseen' = FALSE
    /\ UNCHANGED <<page, bridge, script, wires, clicks, jumps, faults, lowered, jumped>>

Applied(r) ==
    /\ r = room /\ applied < MaxApplied /\ applied' = applied + 1
    /\ value' = [value EXCEPT ![r] = @ + 1] /\ unseen' = FALSE
    /\ toFrame' = toFrame \o Notified(r, value'[r])
    /\ UNCHANGED <<page, bridge, script, toPage, clicks, jumps, faults, lowered, jumped>>

\* The page of another tab applies it to the vault both have, and tells its own listeners.
AppliedElsewhere(r) ==
    /\ applied < MaxApplied /\ applied' = applied + 1
    /\ value' = [value EXCEPT ![r] = @ + 1] /\ unseen' = TRUE
    /\ UNCHANGED <<page, bridge, script, wires, clicks, jumps, faults, lowered, jumped>>

Next ==
    \/ FrameStarts \/ Click \/ SubscribeAgain \/ Receive \/ HandleMessage
    \/ \E l \in loads : GetRoom(l) \/ LoadBundle(l) \/ LoadFails(l)
    \/ \E p \in pending : TimesOut(p)
    \/ \E h \in handlers : RoomState(h) \/ Answer(h) \/ IncrementCounter(h) \/ HandlerFails(h)
    \/ \E r \in Rooms : Jump(r) \/ Applied(r) \/ AppliedElsewhere(r)

Spec == Init /\ [][Next]_vars

-----------------------------------------------------------------------------
(* Properties *)

\* What the page, the bridge, the script and their messages range over.
TypeOK ==
    /\ value \in [Rooms -> Nat] /\ roomId \in Rooms
    /\ loads \subseteq [room : Rooms, stage : {"room", "bundle"}, active : BOOLEAN]
    /\ {room, bundle} \subseteq Rooms \cup {None} /\ loading \in BOOLEAN /\ nonce \in Nat
    /\ subscribed \in Listener \cup {None} /\ handlers \subseteq Handler
    /\ frame \in Script \cup {None} /\ pending \subseteq Requests
    /\ toPage \in Seq(Asked) /\ toFrame \in Seq(Posted)
    /\ clicks \in 0..MaxClicks /\ applied \in 0..MaxApplied /\ jumps \in 0..MaxJumps
    /\ faults \in 0..MaxFaults /\ {lowered, unseen, jumped} \subseteq BOOLEAN

Resting ==
    /\ Started /\ ~frame.connecting /\ loads = {} /\ handlers = {} /\ pending = {} /\ wires = <<<<>>, <<>>>>

\* A frame at rest that shows a count shows that of the room, whoever incremented it and
\* whichever requests timed out or failed: unless it rendered an answer that was read
\* before a notification it had rendered already, another tab changed the vault, or the
\* page was given another room.
ShowsTheRoom ==
    Resting /\ frame.count # None /\ ~lowered /\ ~unseen /\ ~jumped => frame.count = value[room]

\* A frame at rest does not say that it is saving, and one that says its count is saved
\* has shown one.
StatusSettles ==
    /\ Resting => frame.status # "saving"
    /\ frame # None /\ frame.status = "saved" => frame.count # None
=============================================================================
