---------------------------- MODULE PeerHandshake ----------------------------
(***************************************************************************)
(* Two devices of a room look for a direct channel: RoomSync.discoverPeer  *)
(* starts a RoomPeer, which exchanges an offer, an answer and candidates   *)
(* through the signals of the service, and starts another when ten seconds *)
(* later there is no channel.  Both devices talk in one session, so the    *)
(* signals of an attempt are still there for the next.                     *)
(*                                                                         *)
(* Steps are the awaits of RoomPeer, the requests, and the tasks in which  *)
(* the browser calls back.  What the browser does by itself takes less     *)
(* than the ten seconds; a request may take longer.                        *)
(***************************************************************************)
EXTENDS Integers, Sequences, FiniteSetsExt

CONSTANTS
    MaxAttempts,    \* bound: RoomPeers of a device
    Polls,          \* polls that may be in flight: <<device, number>>
    MaxTroubles,    \* bound: attempts after the first, unless for a connection that was
                    \* lost, polls that overlap, requests that fail, and connections that drop
    None            \* no description

Caller == 1         \* the device whose identifier sorts first, the initiator
Answerer == 2
Devices == {Caller, Answerer}
Peers == Devices \X (1..MaxAttempts)   \* <<device, attempt>>, a RoomPeer

ASSUME BoundsAreNumbers == {MaxAttempts, MaxTroubles} \subseteq Nat
ASSUME PollsOfDevices == \A s \in Polls : s[1] \in Devices
ASSUME NoneIsNoPeer == None \notin Peers

VARIABLES
    attempt,    \* how many RoomPeers a device has started; the last one is RoomSync.peer
    peer,       \* the RoomPeers
    poll,       \* pollSignals in flight
    signals,    \* table v2_signals of the session, in the order of signal_id
    stored,     \* room.signalCursors in the vault of a device
    live,       \* whether RoomSync.peerStatus is "p2p"
    shown,      \* whether the status the room page shows is "p2p"
    tasks,      \* callbacks of the browser that are due: <<peer, kind>>
    troubles,   \* number of troubles (bound)
    overtaken,  \* history: devices that heard last from a peer they had replaced
    hidden,     \* history: devices whose page was told something else since
    spoiled     \* history: peers that were refused a candidate, or not heard with an answer

vars == <<attempt, peer, poll, signals, stored, live, shown, tasks, troubles, overtaken, hidden,
          spoiled>>

\* stage: where connect() is; open: there is a connection; begin, cursor: signalCursor when
\* it began and now; local: the own description is set; remote: the peer whose description is
\* set; pending, added: candidates, by their signal; sent: the own candidate is posted.
NoPeer == [stage |-> "none", open |-> FALSE, begin |-> 0, cursor |-> 0, local |-> FALSE,
           remote |-> None, pending |-> {}, added |-> {}, sent |-> FALSE, link |-> "new"]

\* stage: where it is; of: the peer it is a poll of; rest: the signals it has not dealt with.
NoPoll == [stage |-> "idle", of |-> None, rest |-> {}]

Init ==
    /\ attempt = [d \in Devices |-> 0] /\ peer = [p \in Peers |-> NoPeer]
    /\ poll = [s \in Polls |-> NoPoll] /\ signals = <<>> /\ stored = [d \in Devices |-> 0]
    /\ live = [d \in Devices |-> FALSE] /\ shown = [d \in Devices |-> FALSE]
    /\ tasks = [d \in Devices |-> <<>>]
    /\ troubles = 0 /\ overtaken = {} /\ hidden = {} /\ spoiled = {}

-----------------------------------------------------------------------------
(* What the actions share *)

Trouble == troubles < MaxTroubles /\ troubles' = troubles + 1
Current(d) == <<d, attempt[d]>>

\* The callback onStatus, called by peer p.  Among the statuses other than "p2p", that is
\* "connecting", "mailbox" and "offline", nothing chooses.
OnStatus(p, p2p) ==
    /\ live' = [live EXCEPT ![p[1]] = p2p] /\ shown' = [shown EXCEPT ![p[1]] = p2p]
    /\ hidden' = hidden \ {p[1]}
    /\ overtaken' = IF p = Current(p[1]) THEN overtaken \ {p[1]} ELSE overtaken \cup {p[1]}

Silent == UNCHANGED <<live, shown, hidden, overtaken>>

Signal(kind, p) == [kind |-> kind, from |-> p]
PostSignal(kind, p) == signals' = Append(signals, Signal(kind, p))
Set(p, r) == peer' = [peer EXCEPT ![p] = r]
Busy(p, stages) == \E s \in Polls : poll[s].of = p /\ poll[s].stage \in stages

-----------------------------------------------------------------------------
(* RoomSync *)

ShouldRetry(d) == ~live[d]

\* Fault: closing the connection leaves the channel behind.
ChannelLeft(r) == [NoPeer EXCEPT !.stage = r.stage, !.cursor = r.cursor, !.link = r.link]

\* closeConnection; of what the peer knew, only the cursor is used again.
Closed(r) == [NoPeer EXCEPT !.stage = r.stage, !.cursor = r.cursor]

\* Closing a connection whose channel was open may still call onclose.  (That of a channel
\* which never opened would say what is said already.)
CloseTasks(p) ==
    {<<>>} \cup IF peer[p].open /\ peer[p].link # "new" THEN {<<<<p, "close">>>>} ELSE {}

\* connect, up to its first request: the session is derived, and the cursor taken from the
\* room as just read; the initiator sets its own description.
Connecting(d) ==
    [NoPeer EXCEPT !.open = TRUE, !.begin = stored[d], !.cursor = stored[d],
                   !.local = (d = Caller), !.stage = IF d = Caller THEN "send" ELSE "done"]

\* The way is lost, and the other device does not know yet.
Lost(p) == peer[p].link = "ended" /\ peer[peer[p].remote].link = "up"

\* discoverPeer: the first attempt, or another one ten seconds after the last.  When the
\* browser is offline there is no connection.
StartPeer(d) ==
    LET old == Current(d)  new == <<d, attempt[d] + 1>> IN
    /\ attempt[d] < MaxAttempts
    /\ attempt[d] # 0 => ShouldRetry(d)
    /\ attempt' = [attempt EXCEPT ![d] = @ + 1]
    /\ \E r \in {Connecting(d), [NoPeer EXCEPT !.stage = "done"]} :
         /\ IF (attempt[d] # 0 /\ ~Lost(old)) \/ ~r.open THEN Trouble ELSE UNCHANGED troubles
         /\ peer' = [p \in Peers |-> IF p = new THEN r
                                     ELSE IF p = old THEN Closed(peer[p]) ELSE peer[p]]
    /\ \E late \in IF attempt[d] = 0 THEN {<<>>} ELSE CloseTasks(old) :
         tasks' = [tasks EXCEPT ![d] = @ \o late]
    /\ live' = [live EXCEPT ![d] = FALSE] /\ shown' = [shown EXCEPT ![d] = FALSE]
    /\ hidden' = hidden \ {d} /\ overtaken' = overtaken \ {d}
    /\ UNCHANGED <<poll, signals, stored, spoiled>>

\* Fault: a sync says "mailbox" whenever it ends.
ToldAnyway(d) == FALSE

Told(d) == live[d] /\ shown[d]

\* A sync that ends well says "mailbox" to the page of a device that has no channel.
SyncEnd(d) ==
    /\ shown' = [shown EXCEPT ![d] = Told(d)]
    /\ UNCHANGED <<attempt, peer, poll, signals, stored, live, tasks, troubles, overtaken, hidden,
                   spoiled>>

\* One that fails, or finds the browser offline, says so whether or not there is a channel.
SyncFails(d) ==
    /\ Trouble /\ shown' = [shown EXCEPT ![d] = FALSE] /\ hidden' = hidden \cup {d}
    /\ UNCHANGED <<attempt, peer, poll, signals, stored, live, tasks, overtaken, spoiled>>

-----------------------------------------------------------------------------
(* RoomPeer.connect: the offer, and the candidates *)

SendOffer(p) ==
    /\ peer[p].stage = "send"
    /\ PostSignal("offer", p) /\ Set(p, [peer[p] EXCEPT !.stage = "done"]) /\ Silent
    /\ UNCHANGED <<attempt, poll, stored, tasks, troubles, spoiled>>

\* The catch of connect, which a peer that was replaced meanwhile reaches as well.
OfferFails(p) ==
    /\ peer[p].stage = "send"
    /\ PostSignal("offer", p) \/ UNCHANGED signals
    /\ Set(p, Closed([peer[p] EXCEPT !.stage = "done"]))
    /\ OnStatus(p, FALSE)
    /\ IF p = Current(p[1]) THEN Trouble ELSE UNCHANGED troubles
    /\ UNCHANGED <<attempt, poll, stored, tasks, spoiled>>

\* onicecandidate: the post is not awaited by anybody.  One that fails is one that is never
\* made, and one in flight when the connection is closed is left out: nobody can use it.
PostCandidate(p) ==
    /\ peer[p].open /\ peer[p].local /\ ~peer[p].sent
    /\ Set(p, [peer[p] EXCEPT !.sent = TRUE]) /\ PostSignal("candidate", p) /\ Silent
    /\ UNCHANGED <<attempt, poll, stored, tasks, troubles, spoiled>>

-----------------------------------------------------------------------------
(* RoomPeer.pollSignals, of which several may be in flight *)

SetPoll(s, r) == poll' = [poll EXCEPT ![s] = r]
EndPoll(s) == SetPoll(s, NoPoll)

\* The signals of the other device, from a cursor on.  A poll takes them in order.
After(d, cursor) == {i \in DOMAIN signals : i > cursor /\ signals[i].from[1] # d}

\* The first number that is free, one being as good as another.
FreePoll(s) ==
    poll[s] = NoPoll /\ \A t \in Polls : t[1] = s[1] /\ t[2] < s[2] => poll[t] # NoPoll

\* The timer fires, whether or not polls of this peer, or of the one it replaced, have ended,
\* and the service answers.  A poll that has nothing to read and no cursor to save changes nothing.
StartPoll(s) ==
    LET p == Current(s[1]) IN
    /\ attempt[s[1]] > 0 /\ FreePoll(s)
    /\ peer[p].stage = "done" /\ peer[p].open
    /\ IF \E t \in Polls : t[1] = s[1] /\ poll[t] # NoPoll THEN Trouble ELSE UNCHANGED troubles
    /\ After(s[1], peer[p].cursor) # {} \/ peer[p].cursor # stored[s[1]]
    /\ SetPoll(s, [stage |-> "next", of |-> p, rest |-> After(s[1], peer[p].cursor)])
    /\ Silent
    /\ UNCHANGED <<attempt, peer, signals, stored, tasks, spoiled>>

\* The post of an answer fails, though it may have arrived.  Candidates that wait for it
\* are not looked at again.  (A request for signals that fails changes nothing.)
AnswerFails(s) ==
    LET p == poll[s].of IN
    /\ poll[s].stage = "send" /\ Trouble /\ EndPoll(s)
    /\ PostSignal("answer", p) \/ UNCHANGED signals
    /\ spoiled' = spoiled \cup {p} /\ Silent
    /\ UNCHANGED <<attempt, peer, stored, tasks>>

SaveCursor(s) ==
    /\ poll[s].stage = "next" /\ poll[s].rest = {} /\ EndPoll(s)
    /\ stored' = [stored EXCEPT ![s[1]] = peer[poll[s].of].cursor]
    /\ Silent
    /\ UNCHANGED <<attempt, peer, signals, tasks, troubles, spoiled>>

\* There is no connection any more, and reading it throws.
PollThrows(s) ==
    /\ \/ poll[s].stage = "next" /\ poll[s].rest # {}
       \/ poll[s].stage \in {"describe", "answer"}
    /\ ~peer[poll[s].of].open /\ EndPoll(s) /\ Silent
    /\ UNCHANGED <<attempt, peer, signals, stored, tasks, troubles, spoiled>>

Description(i) == signals[i].kind \in {"offer", "answer"}

Takes(p, i) == Description(i) /\ peer[p].remote = None

\* The signal a poll of an open connection is at.
Reading(s, i) ==
    /\ poll[s].stage = "next" /\ poll[s].rest # {} /\ i = Min(poll[s].rest)
    /\ peer[poll[s].of].open

\* setRemoteDescription is called.
Take(s) ==
    /\ \E i \in DOMAIN signals : Reading(s, i) /\ Takes(poll[s].of, i)
    /\ SetPoll(s, [poll[s] EXCEPT !.stage = "describe"]) /\ Silent
    /\ UNCHANGED <<attempt, peer, signals, stored, tasks, troubles, spoiled>>

\* The poll goes on with the next signal, and the peer past this one.
Past(r, i) == [r EXCEPT !.cursor = Max({@, i})]
Advance(s) == SetPoll(s, [poll[s] EXCEPT !.stage = "next", !.rest = @ \ {Min(@)}])

Ignore(s) ==
    LET p == poll[s].of IN
    /\ \E i \in DOMAIN signals :
         /\ Reading(s, i) /\ Description(i) /\ ~Takes(p, i)
         /\ Set(p, Past(peer[p], i))
    /\ Advance(s) /\ Silent
    /\ UNCHANGED <<attempt, signals, stored, tasks, troubles, spoiled>>

\* The candidates of another attempt carry another name, and may be refused.
Stale(p, i) == signals[i].from # peer[p].remote

\* A candidate that comes before the description waits for it.
Keep(r, i) == [r EXCEPT !.pending = @ \cup {i}]

ReadCandidate(s) ==
    LET p == poll[s].of IN
    /\ \E i \in DOMAIN signals :
         /\ Reading(s, i) /\ signals[i].kind = "candidate"
         /\ \/ /\ peer[p].remote = None /\ Set(p, Past(Keep(peer[p], i), i))
               /\ Advance(s) /\ UNCHANGED spoiled
            \/ /\ peer[p].remote # None
               /\ Set(p, Past([peer[p] EXCEPT !.added = @ \cup {i}], i))
               /\ Advance(s) /\ UNCHANGED spoiled
            \/ /\ peer[p].remote # None /\ Stale(p, i)
               /\ EndPoll(s) /\ spoiled' = spoiled \cup {p} /\ UNCHANGED peer
    /\ Silent
    /\ UNCHANGED <<attempt, signals, stored, tasks, troubles>>

\* Fault: what waits is not added.
NotFlushed(r) == r

\* flushCandidates adds all that wait.
Flushed(r) == [r EXCEPT !.added = @ \cup r.pending, !.pending = {}]

\* One is refused: those that wait behind it are gone, and the poll ends.
PartlyFlushed(r, k) ==
    [r EXCEPT !.added = @ \cup {i \in r.pending : i < k}, !.pending = {}]

\* Signal i has been dealt with by setting the description; r is the peer then.
Flush(s, r, i) ==
    LET p == poll[s].of IN
    \/ Set(p, Past(Flushed(r), i)) /\ Advance(s) /\ UNCHANGED spoiled
    \/ \E k \in r.pending :
         /\ signals[k].from # r.remote
         /\ Set(p, PartlyFlushed(r, k)) /\ EndPoll(s) /\ spoiled' = spoiled \cup {p}

\* An offer may replace one that is not answered yet; a second answer is an error.
Describe(s) ==
    LET p == poll[s].of  i == Min(poll[s].rest)
        r == [peer[p] EXCEPT !.remote = signals[i].from]
    IN
    /\ poll[s].stage = "describe" /\ peer[p].open
    /\ \/ /\ s[1] = Answerer /\ Set(p, r)
          /\ SetPoll(s, [poll[s] EXCEPT !.stage = "answer"]) /\ UNCHANGED spoiled
       \/ s[1] = Caller /\ peer[p].remote = None /\ Flush(s, r, i)
       \/ s[1] = Caller /\ peer[p].remote # None /\ EndPoll(s) /\ UNCHANGED <<peer, spoiled>>
    /\ Silent
    /\ UNCHANGED <<attempt, signals, stored, tasks, troubles>>

\* createAnswer and setLocalDescription, which fail when another poll has answered.  What
\* the browser is asked to do with a connection it does in that order.
Answer(s) ==
    LET p == poll[s].of IN
    /\ poll[s].stage = "answer" /\ peer[p].open /\ ~Busy(p, {"describe"})
    /\ IF peer[p].local THEN EndPoll(s) /\ UNCHANGED peer
       ELSE /\ Set(p, [peer[p] EXCEPT !.local = TRUE])
            /\ SetPoll(s, [poll[s] EXCEPT !.stage = "send"])
    /\ Silent
    /\ UNCHANGED <<attempt, signals, stored, tasks, troubles, spoiled>>

SendAnswer(s) ==
    LET p == poll[s].of IN
    /\ poll[s].stage = "send"
    /\ PostSignal("answer", p)
    /\ IF peer[p].open THEN Flush(s, peer[p], Min(poll[s].rest))
       ELSE /\ Set(p, Past(peer[p], Min(poll[s].rest))) /\ Advance(s)
            /\ UNCHANGED spoiled
    /\ Silent
    /\ UNCHANGED <<attempt, stored, tasks, troubles>>

-----------------------------------------------------------------------------
(* The browsers: connections, and the callbacks they are due *)

Matched(p, q) ==
    /\ peer[p].remote = q /\ peer[q].remote = p
    /\ \A x \in {p, q} : peer[x].open /\ peer[x].local

Due(p, late) == tasks' = [tasks EXCEPT ![p[1]] = @ \o late]
Link(p, value) == Set(p, [peer[p] EXCEPT !.link = value])

Gone(p) == ~peer[p].open \/ peer[p].link = "ended"

\* A candidate of one side is enough for both to find the way.
LinkUp(p, q) ==
    /\ p[1] = Caller /\ q[1] = Answerer /\ Matched(p, q)
    /\ peer[p].link = "new" /\ peer[q].link = "new"
    /\ \E i \in peer[p].added \cup peer[q].added : signals[i].from \in {p, q}
    /\ peer' = [peer EXCEPT ![p].link = "up", ![q].link = "up"]
    /\ tasks' = [d \in Devices |-> LET x == IF d = Caller THEN p ELSE q IN
                                   tasks[d] \o <<<<x, "open">>>>]
    /\ Silent
    /\ UNCHANGED <<attempt, poll, signals, stored, troubles, spoiled>>

\* The way is lost, and may be found again.
LinkDrops(p) ==
    /\ peer[p].open /\ peer[p].link = "up" /\ Trouble /\ Link(p, "down") /\ Due(p, <<<<p, "state">>>>)
    /\ Silent
    /\ UNCHANGED <<attempt, poll, signals, stored, spoiled>>

LinkRecovers(p) ==
    /\ peer[p].open /\ peer[p].link = "down" /\ ~Gone(peer[p].remote)
    /\ Link(p, "up") /\ Due(p, <<<<p, "state">>>>) /\ Silent
    /\ UNCHANGED <<attempt, poll, signals, stored, troubles, spoiled>>

\* The way is lost for good, or the other side has closed.  (Of a connection for which no
\* way is found at all, the device hears only that there is no channel, as before.)  Bound:
\* not before the last change has been reported.
LinkEnds(p) ==
    /\ peer[p].open /\ peer[p].link \in {"up", "down"} /\ tasks[p[1]] = <<>>
    /\ IF Gone(peer[p].remote) THEN UNCHANGED troubles ELSE Trouble
    /\ Link(p, "ended") /\ Due(p, <<<<p, "state">>, <<p, "close">>>>) /\ Silent
    /\ UNCHANGED <<attempt, poll, signals, stored, spoiled>>

\* onconnectionstatechange reads the state of the connection the peer has by now.
OnStateChange(p) ==
    IF ~peer[p].open \/ peer[p].link = "new" THEN Silent
    ELSE OnStatus(p, peer[p].link = "up")

\* Nothing is announced of a channel that is closed.
OnOpen(p) == IF peer[p].open /\ peer[p].link # "ended" THEN OnStatus(p, TRUE) ELSE Silent

Callback(d) ==
    /\ tasks[d] # <<>> /\ tasks' = [tasks EXCEPT ![d] = Tail(@)]
    /\ LET p == Head(tasks[d])[1]  kind == Head(tasks[d])[2] IN
       \/ kind = "state" /\ OnStateChange(p)
       \/ kind = "open" /\ OnOpen(p)
       \/ kind = "close" /\ OnStatus(p, FALSE)
    /\ UNCHANGED <<attempt, peer, poll, signals, stored, troubles, spoiled>>

-----------------------------------------------------------------------------
PollStep(s) ==
    \/ SaveCursor(s) \/ PollThrows(s) \/ Take(s) \/ Ignore(s)
    \/ ReadCandidate(s) \/ Describe(s) \/ Answer(s) \/ SendAnswer(s)

Next ==
    \/ \E d \in Devices :
         \/ StartPeer(d) \/ SyncEnd(d) \/ SyncFails(d) \/ Callback(d)
    \/ \E s \in Polls : StartPoll(s) \/ PollStep(s) \/ AnswerFails(s)
    \/ \E p \in Peers :
         \/ SendOffer(p) \/ OfferFails(p) \/ PostCandidate(p)
         \/ LinkDrops(p) \/ LinkRecovers(p) \/ LinkEnds(p)
         \/ \E q \in Peers : LinkUp(p, q)

Spec == Init /\ [][Next]_vars

-----------------------------------------------------------------------------
(* Properties *)

PeerType ==
    [stage : {"none", "send", "done"}, open : BOOLEAN, begin : Nat, cursor : Nat,
     local : BOOLEAN, remote : Peers \cup {None}, pending : SUBSET Nat, added : SUBSET Nat,
     sent : BOOLEAN, link : {"new", "up", "down", "ended"}]
PollType ==
    [stage : {"idle", "next", "describe", "answer", "send"}, of : Peers \cup {None},
     rest : SUBSET Nat]
SignalType == [kind : {"offer", "answer", "candidate"}, from : Peers]
TaskType == Peers \X {"state", "open", "close"}

\* The table, the peers and the polls are well formed, peers and polls refer to signals that
\* are there, and a connection has a channel only while it has both descriptions.
TypeOK ==
    /\ attempt \in [Devices -> 0..MaxAttempts] /\ peer \in [Peers -> PeerType]
    /\ poll \in [Polls -> PollType] /\ signals \in Seq(SignalType)
    /\ stored \in [Devices -> Nat] /\ {live, shown} \subseteq [Devices -> BOOLEAN]
    /\ tasks \in [Devices -> Seq(TaskType)] /\ troubles \in 0..MaxTroubles
    /\ overtaken \cup hidden \subseteq Devices /\ spoiled \subseteq Peers
    /\ \A s \in Polls : poll[s].rest \subseteq DOMAIN signals
    /\ \A p \in Peers :
         /\ peer[p].pending \cup peer[p].added \subseteq DOMAIN signals
         /\ peer[p].link # "new" => peer[p].local /\ peer[p].remote \in Peers

IsUp(d) == attempt[d] > 0 /\ peer[Current(d)].open /\ peer[Current(d)].link = "up"

\* Once its callbacks have run, a device knows whether it has a channel, by which it
\* decides on another attempt, unless it heard last from a peer it had replaced; and the
\* page shows so, unless a sync that failed, or found the browser offline, has told it
\* something else.
StatusTellsTruth ==
    \A d \in Devices \ overtaken : tasks[d] = <<>> =>
        /\ live[d] = IsUp(d)
        /\ d \notin hidden => shown[d] = IsUp(d)

\* No candidate of the peer it talks to is dropped: those that came with the signals read
\* so far, before the description or during the answer, and by whichever of the polls in
\* flight, are added, unless one was refused or the answer did not get through.
CandidatesKept ==
    \A p \in Peers \ spoiled : peer[p].open /\ peer[p].remote # None /\ ~Busy(p, {"answer", "send"}) =>
        \A i \in DOMAIN signals :
            /\ peer[p].begin < i /\ i <= peer[p].cursor
            /\ signals[i] = Signal("candidate", peer[p].remote)
            => i \in peer[p].added
=============================================================================
