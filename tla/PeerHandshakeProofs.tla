------------------------- MODULE PeerHandshakeProofs -------------------------
(***************************************************************************)
(* The safety properties of PeerHandshake, proved for any number of        *)
(* attempts, polls and faults, and for a session of any length.            *)
(*                                                                         *)
(* The status is told by callbacks that may be due for long, so the        *)
(* invariant says of every state what those that are due will tell.  Of    *)
(* the candidates it says where each is: ahead of the peer's cursor, in    *)
(* the rest of a poll, or with the peer.                                   *)
(***************************************************************************)
EXTENDS PeerHandshake, WellFoundedInduction, TLAPS

-----------------------------------------------------------------------------
(* The invariant *)

\* A RoomPeer is the last of its device, or closed; a poll is one of a peer that was started.
Started(p) == p[2] <= attempt[p[1]]
OneOpen == \A p \in Peers : peer[p].open => p[2] = attempt[p[1]]
NotYet == \A p \in Peers : ~Started(p) => peer[p] = NoPeer

\* A poll deals with signals of the other device, and with a description before it answers.
PollFits(s) ==
    /\ poll[s].stage = "idle" => poll[s] = NoPoll
    /\ poll[s].stage # "idle" => poll[s].of \in Peers /\ poll[s].of[1] = s[1] /\ Started(poll[s].of)
    /\ \A i \in poll[s].rest : signals[i].from[1] # s[1]
    /\ poll[s].stage \in {"describe", "answer", "send"} =>
         poll[s].rest # {} /\ Description(Min(poll[s].rest))

\* What a peer has dealt with is there, and the description it has is of the other device.
PeerFits(p) ==
    /\ peer[p].cursor <= Len(signals)
    /\ peer[p].remote # None => peer[p].remote[1] # p[1]

CursorsFit == \A d \in Devices : stored[d] <= Len(signals)

\* Callbacks are due to the device of their peer.
TasksFit ==
    \A d \in Devices : \A j \in DOMAIN tasks[d] :
        tasks[d][j][1][1] = d /\ Started(tasks[d][j][1])

FitInv ==
    /\ OneOpen /\ NotYet /\ CursorsFit /\ TasksFit
    /\ \A s \in Polls : PollFits(s)
    /\ \A p \in Peers : PeerFits(p)

\* The callbacks of kind k that peer p is due.
IsDue(p, k) == \E j \in DOMAIN tasks[p[1]] : tasks[p[1]][j] = <<p, k>>

\* What the device of the open peer p has been told of it, or is about to be told.
TellsOf(p) ==
    LET d == p[1] IN
    /\ peer[p].link = "new" => ~live[d] /\ \A k \in {"state", "open", "close"} : ~IsDue(p, k)
    /\ peer[p].link \in {"up", "down"} => ~IsDue(p, "close")
    /\ peer[p].link = "up" =>
         live[d] \/ d \in overtaken \/ IsDue(p, "open") \/ IsDue(p, "state")
    /\ peer[p].link = "down" =>
         /\ live[d] => IsDue(p, "state")
         /\ \A j \in DOMAIN tasks[d] : tasks[d][j] = <<p, "open">> =>
              \E k \in DOMAIN tasks[d] : j < k /\ tasks[d][k] = <<p, "state">>
    /\ peer[p].link = "ended" /\ live[d] => IsDue(p, "state") \/ IsDue(p, "close")

HasBeenTold(d) == attempt[d] > 0 /\ peer[Current(d)].open => TellsOf(Current(d))

\* A device whose last peer is closed, or whose former peer spoke last, has heard of no channel.
HasHeard(d) ==
    /\ d \in overtaken => ~live[d]
    /\ live[d] => attempt[d] > 0 /\ peer[Current(d)].open
    /\ d \notin hidden => shown[d] = live[d]

StatusInv == \A d \in Devices : HasBeenTold(d) /\ HasHeard(d)

\* A candidate of the other device, posted since peer p began.
Offered(p, j) ==
    /\ j \in DOMAIN signals /\ peer[p].begin < j
    /\ signals[j].kind = "candidate" /\ signals[j].from[1] # p[1]

Has(p, j) == j \in peer[p].added \cup peer[p].pending

\* What peer p has passed it has; and so has a poll what it will not come to any more.
Passed(p) ==
    /\ \A j \in DOMAIN signals : Offered(p, j) /\ j <= peer[p].cursor => Has(p, j)
    /\ \A s \in Polls : poll[s].of = p =>
         \A i \in poll[s].rest, j \in DOMAIN signals :
            Offered(p, j) /\ j < i => j \in poll[s].rest \/ Has(p, j)

\* Candidates wait for the description, or for the answer that some poll makes.
Waits(p) ==
    peer[p].remote # None /\ peer[p].pending # {} =>
        Busy(p, {"send"}) \/ (Busy(p, {"answer"}) /\ ~peer[p].local)

\* The answering device describes, answers and posts once.
AnswersOnce(p) ==
    /\ Busy(p, {"answer", "send"}) => p[1] = Answerer /\ peer[p].remote # None
    /\ p[1] = Answerer /\ Busy(p, {"describe"}) => ~peer[p].local
    /\ p[1] = Answerer /\ peer[p].local => peer[p].remote # None

Kept(p) == peer[p].open => AnswersOnce(p) /\ (p \notin spoiled => Passed(p) /\ Waits(p))
CandidateInv == \A p \in Peers : Kept(p)

Inv == TypeOK /\ FitInv /\ StatusInv /\ CandidateInv

-----------------------------------------------------------------------------
(* Facts about numbers, sequences, peers and their records *)

\* The types of the peers, of the polls and of the status.
PeersTyped ==
    /\ peer \in [Peers -> PeerType]
    /\ \A p \in Peers : /\ peer[p].pending \cup peer[p].added \subseteq DOMAIN signals
                        /\ peer[p].link # "new" => peer[p].local /\ peer[p].remote \in Peers
PollsTyped ==
    /\ poll \in [Polls -> PollType] /\ \A s \in Polls : poll[s].rest \subseteq DOMAIN signals
StatusTyped ==
    {live, shown} \subseteq [Devices -> BOOLEAN] /\ overtaken \cup hidden \subseteq Devices

\* The types in parts.
LEMMA Types ==
  TypeOK <=> /\ PeersTyped /\ PollsTyped /\ StatusTyped
             /\ attempt \in [Devices -> 0..MaxAttempts] /\ signals \in Seq(SignalType)
             /\ stored \in [Devices -> Nat] /\ tasks \in [Devices -> Seq(TaskType)]
             /\ troubles \in 0..MaxTroubles /\ spoiled \subseteq Peers
BY DEF TypeOK, PeersTyped, PollsTyped, StatusTyped

\* A set of naturals that is not empty has a least element.
LEMMA Least ==
  ASSUME NEW S \in SUBSET Nat, S # {}
  PROVE  Min(S) \in S /\ \A y \in S : Min(S) <= y
<1> DEFINE R == OpToRel(<, Nat)
<1>1. IsWellFoundedOn(R, Nat) BY NatLessThanWellFounded
<1>2. \A y, x \in Nat : y < x => <<y, x>> \in R BY DEF OpToRel
<1> HIDE DEF R
<1>3. PICK x \in S : \A y \in S : ~(<<y, x>> \in R) BY <1>1, WFMin
<1>4. \A y \in S : x <= y
  <2>1. SUFFICES ASSUME NEW y \in S PROVE x <= y OBVIOUS
  <2>2. x \in Nat /\ y \in Nat BY <1>3
  <2>3. ~(y < x) BY <1>2, <1>3, <2>2, Zenon
  <2> QED BY <2>2, <2>3
<1> QED BY <1>4 DEF Min

\* The greater of two numbers.
LEMMA Greater ==
  ASSUME NEW a \in Nat, NEW b \in Nat
  PROVE  Max({a, b}) = IF a < b THEN b ELSE a
<1> DEFINE m == IF a < b THEN b ELSE a
<1>1. m \in {a, b} /\ \A y \in {a, b} : m >= y OBVIOUS
<1>2. \A x \in {a, b} : (\A y \in {a, b} : x >= y) => x = m OBVIOUS
<1> QED BY <1>1, <1>2 DEF Max

\* What appending to a sequence does.
LEMMA Appended ==
  ASSUME NEW S, NEW q \in Seq(S), NEW e \in S
  PROVE  /\ Append(q, e) \in Seq(S) /\ Len(Append(q, e)) = Len(q) + 1
         /\ DOMAIN q \subseteq DOMAIN Append(q, e) /\ Len(q) \in Nat
         /\ DOMAIN q = 1..Len(q) /\ DOMAIN Append(q, e) = 1..(Len(q) + 1)
         /\ \A i \in DOMAIN q : Append(q, e)[i] = q[i]
         /\ Append(q, e)[Len(q) + 1] = e
OBVIOUS

\* A peer is a device and the number of an attempt.
LEMMA PeerIs ==
  ASSUME NEW p \in Peers
  PROVE  /\ p[1] \in Devices /\ p[2] \in 1..MaxAttempts /\ p[2] \in Nat /\ p = <<p[1], p[2]>>
         /\ p # None /\ MaxAttempts \in Nat
BY BoundsAreNumbers, NoneIsNoPeer DEF Peers

\* The last peer of a device that has started one.
LEMMA LastPeer ==
  ASSUME TypeOK, NEW d \in Devices, attempt[d] > 0
  PROVE  Current(d) \in Peers /\ Current(d)[1] = d /\ Current(d)[2] = attempt[d]
BY BoundsAreNumbers DEF TypeOK, Current, Peers

\* A peer that is open is the last of its device.
LEMMA OpenIsLast ==
  ASSUME TypeOK, FitInv, NEW p \in Peers, peer[p].open
  PROVE  p = Current(p[1]) /\ attempt[p[1]] > 0
BY PeerIs DEF FitInv, OneOpen, Current

\* What there is of a RoomPeer that was never started.
LEMMA NoPeerTyped ==
  /\ NoPeer \in PeerType
  /\ NoPeer.pending = {} /\ NoPeer.added = {} /\ NoPeer.link = "new" /\ ~NoPeer.open
  /\ NoPeer.cursor = 0 /\ NoPeer.remote = None /\ ~NoPeer.local /\ NoPeer.begin = 0
BY DEF NoPeer, PeerType

\* What there is of a poll that is not in flight.
LEMMA NoPollTyped ==
  NoPoll \in PollType /\ NoPoll.rest = {} /\ NoPoll.stage = "idle" /\ NoPoll.of = None
BY DEF NoPoll, PollType

\* A closed peer remembers its cursor.
LEMMA ClosedIs ==
  ASSUME NEW r \in PeerType
  PROVE  /\ Closed(r) \in PeerType /\ ~Closed(r).open /\ Closed(r).link = "new"
         /\ Closed(r).pending = {} /\ Closed(r).added = {} /\ Closed(r).remote = None
         /\ Closed(r).cursor = r.cursor
BY DEF Closed, NoPeer, PeerType

\* A peer that passes a signal.
LEMMA PastIs ==
  ASSUME NEW r \in PeerType, NEW i \in Nat
  PROVE  /\ Past(r, i) \in PeerType
         /\ Past(r, i).cursor = IF r.cursor < i THEN i ELSE r.cursor
         /\ Past(r, i).begin = r.begin /\ Past(r, i).open = r.open /\ Past(r, i).local = r.local
         /\ Past(r, i).remote = r.remote /\ Past(r, i).pending = r.pending
         /\ Past(r, i).added = r.added /\ Past(r, i).link = r.link
<1>1. r.cursor \in Nat BY DEF PeerType
<1>2. Past(r, i) = [r EXCEPT !.cursor = IF r.cursor < i THEN i ELSE r.cursor]
  BY <1>1, Greater DEF Past
<1> QED BY <1>1, <1>2 DEF PeerType

\* Setting one peer, or one poll, keeps the types.
LEMMA PeerSet ==
  ASSUME PeersTyped, NEW p \in Peers, NEW r \in PeerType, Set(p, r),
         DOMAIN signals \subseteq DOMAIN signals',
         r.pending \cup r.added \subseteq DOMAIN signals',
         r.link # "new" => r.local /\ r.remote \in Peers
  PROVE  PeersTyped' /\ peer'[p] = r /\ \A q \in Peers \ {p} : peer'[q] = peer[q]
BY DEF PeersTyped, Set

\* Setting one poll keeps the types.
LEMMA PollSet ==
  ASSUME PollsTyped, NEW s \in Polls, NEW r \in PollType, SetPoll(s, r),
         DOMAIN signals \subseteq DOMAIN signals', r.rest \subseteq DOMAIN signals'
  PROVE  PollsTyped' /\ poll'[s] = r /\ \A t \in Polls \ {s} : poll'[t] = poll[t]
BY DEF PollsTyped, SetPoll

\* Posting a signal puts it after the others.
LEMMA Posted ==
  ASSUME signals \in Seq(SignalType), NEW p \in Peers,
         NEW kind \in {"offer", "answer", "candidate"}, PostSignal(kind, p)
  PROVE  /\ signals' \in Seq(SignalType) /\ Len(signals) \in Nat
         /\ DOMAIN signals = 1..Len(signals) /\ Len(signals') = Len(signals) + 1
         /\ DOMAIN signals' = 1..(Len(signals) + 1)
         /\ \A i \in DOMAIN signals : signals'[i] = signals[i]
         /\ signals'[Len(signals) + 1].kind = kind /\ signals'[Len(signals) + 1].from = p
<1>1. Signal(kind, p) \in SignalType BY DEF Signal, SignalType
<1>2. Signal(kind, p).kind = kind /\ Signal(kind, p).from = p BY DEF Signal
<1> QED BY <1>1, <1>2, Appended DEF PostSignal

\* What a callback, or its absence, does to the status.
LEMMA StatusSet ==
  ASSUME StatusTyped, NEW p \in Peers, NEW b \in BOOLEAN, OnStatus(p, b)
  PROVE  /\ StatusTyped' /\ live'[p[1]] = b /\ shown'[p[1]] = b
         /\ \A d \in Devices \ {p[1]} : live'[d] = live[d] /\ shown'[d] = shown[d]
         /\ hidden' = hidden \ {p[1]}
         /\ overtaken' = IF p = Current(p[1]) THEN overtaken \ {p[1]} ELSE overtaken \cup {p[1]}
BY PeerIs DEF StatusTyped, OnStatus

-----------------------------------------------------------------------------
(* Steps of which the status hears nothing *)

\* The table of signals is what it was, with perhaps more at its end.
SignalsGrow ==
    /\ signals' \in Seq(SignalType) /\ Len(signals) \in Nat /\ Len(signals') \in Nat
    /\ Len(signals) <= Len(signals')
    /\ DOMAIN signals = 1..Len(signals) /\ DOMAIN signals' = 1..Len(signals')
    /\ \A i \in DOMAIN signals : signals'[i] = signals[i]

\* The table of signals only grows.
LEMMA SameSignals == TypeOK /\ UNCHANGED signals => SignalsGrow
BY DEF TypeOK, SignalsGrow

\* A post is one signal more.
LEMMA OneMoreSignal ==
  ASSUME TypeOK, NEW p \in Peers, NEW kind \in {"offer", "answer", "candidate"}, PostSignal(kind, p)
  PROVE  SignalsGrow
BY Posted DEF TypeOK, SignalsGrow

\* A poll that goes on as it is still fits.
LEMMA PollStays ==
  ASSUME TypeOK, SignalsGrow, NEW s \in Polls, PollFits(s), poll'[s] = poll[s],
         \A p \in Peers : Started(p) => Started(p)'
  PROVE  PollFits(s)'
<1>1. /\ poll[s].rest \subseteq DOMAIN signals /\ poll[s].rest \in SUBSET Nat
      /\ poll[s].of \in Peers \cup {None}
  BY DEF TypeOK, PollType
<1>2. poll[s].rest # {} => Min(poll[s].rest) \in DOMAIN signals BY <1>1, Least
<1>3. \A i \in DOMAIN signals : Description(i)' <=> Description(i) BY DEF Description, SignalsGrow
<1> QED BY <1>1, <1>2, <1>3 DEF PollFits, SignalsGrow

\* Such a step keeps what the device has been told.
LEMMA StatusStays ==
  ASSUME TypeOK, StatusInv, UNCHANGED <<attempt, tasks>>, Silent,
         \A q \in Peers : peer'[q].open = peer[q].open /\ peer'[q].link = peer[q].link
  PROVE  StatusInv'
<1> SUFFICES ASSUME NEW d \in Devices PROVE HasBeenTold(d)' /\ HasHeard(d)' BY DEF StatusInv
<1>1. HasBeenTold(d) /\ HasHeard(d) BY DEF StatusInv
<1>2. attempt[d] > 0 => Current(d) \in Peers /\ Current(d)[1] = d BY LastPeer
<1>3. Current(d)' = Current(d) BY DEF Current
<1>4. \A p \in Peers : TellsOf(p) /\ p[1] = d => TellsOf(p)'
  <2> SUFFICES ASSUME NEW p \in Peers, p[1] = d, TellsOf(p) PROVE TellsOf(p)' OBVIOUS
  <2>1. \A k : IsDue(p, k)' <=> IsDue(p, k) BY DEF IsDue
  <2> QED BY <2>1 DEF TellsOf, Silent
<1>5. HasBeenTold(d)'
  BY <1>1, <1>2, <1>3, <1>4 DEF HasBeenTold
<1>6. HasHeard(d)' BY <1>1, <1>2, <1>3 DEF HasHeard, Silent
<1> QED BY <1>5, <1>6

\* A step of which the status hears nothing keeps the invariant when the polls still fit, and
\* the peers and their candidates too.
LEMMA QuietStep ==
  ASSUME Inv, SignalsGrow, UNCHANGED <<attempt, tasks>>, Silent, troubles' \in 0..MaxTroubles,
         stored' \in [Devices -> Nat], \A d \in Devices : stored'[d] <= Len(signals'),
         spoiled' \subseteq Peers, PeersTyped', PollsTyped',
         \A q \in Peers : /\ peer'[q].open = peer[q].open /\ peer'[q].link = peer[q].link
                          /\ PeerFits(q)'
                          /\ ~Started(q) => peer'[q] = peer[q],
         \A t \in Polls : PollFits(t)',
         \A q \in Peers : Kept(q)'
  PROVE  Inv'
<1>1. TypeOK'
  <2>1. StatusTyped' BY Types DEF Inv, StatusTyped, Silent
  <2>2. /\ attempt \in [Devices -> 0..MaxAttempts] /\ tasks \in [Devices -> Seq(TaskType)]
    BY Types DEF Inv
  <2> QED BY <2>1, <2>2 DEF TypeOK, PeersTyped, PollsTyped, StatusTyped, SignalsGrow
<1>2. FitInv'
  <2>1. \A q \in Peers : Started(q)' <=> Started(q) BY DEF Started
  <2>2. OneOpen' BY DEF Inv, FitInv, OneOpen
  <2>3. NotYet' BY <2>1 DEF Inv, FitInv, NotYet
  <2>4. TasksFit'
    <3>1. \A x : Started(x)' <=> Started(x) BY DEF Started
    <3> QED BY <3>1 DEF Inv, FitInv, TasksFit
  <2> QED BY <2>2, <2>3, <2>4 DEF FitInv, CursorsFit
<1>3. StatusInv' BY StatusStays DEF Inv
<1> QED BY <1>1, <1>2, <1>3 DEF Inv, CandidateInv

\* A peer keeps its candidates when neither it nor its polls do anything.
LEMMA PeerKeeps ==
  ASSUME TypeOK, FitInv, SignalsGrow, NEW q \in Peers, Kept(q),
         peer'[q].open => peer[q].open,
         peer'[q].begin = peer[q].begin, peer'[q].cursor = peer[q].cursor,
         peer'[q].local = peer[q].local, peer'[q].remote = peer[q].remote,
         peer'[q].pending = peer[q].pending, peer'[q].added = peer[q].added,
         spoiled \subseteq spoiled',
         \A t \in Polls : poll'[t] = poll[t] \/ (poll[t].of # q /\ poll'[t].of # q)
  PROVE  Kept(q)'
<1> SUFFICES ASSUME peer'[q].open PROVE Kept(q)' BY DEF Kept
<1>1. \A k : Busy(q, k)' <=> Busy(q, k) BY DEF Busy
<1>2. AnswersOnce(q)' BY <1>1 DEF Kept, AnswersOnce
<1>3. ASSUME q \notin spoiled PROVE Passed(q)' /\ Waits(q)'
  <2>1. Passed(q) /\ Waits(q) BY <1>3 DEF Kept
  <2>2. Waits(q)' BY <1>1, <2>1 DEF Waits
  <2>3. \A j \in DOMAIN signals : Offered(q, j)' <=> Offered(q, j)
    BY DEF Offered, SignalsGrow
  <2>4. \A j : Has(q, j)' <=> Has(q, j) BY DEF Has
  <2>5. peer[q].cursor <= Len(signals) /\ peer[q].cursor \in Nat
    BY DEF FitInv, PeerFits, TypeOK, PeerType
  <2>6. \A j \in DOMAIN signals' : j \notin DOMAIN signals => j > Len(signals) BY DEF SignalsGrow
  <2>7. ASSUME NEW j \in DOMAIN signals', Offered(q, j)', j <= peer'[q].cursor PROVE Has(q, j)'
    <3>1. j \in DOMAIN signals BY <2>5, <2>6, <2>7 DEF SignalsGrow
    <3> QED BY <2>1, <2>3, <2>4, <2>7, <3>1 DEF Passed
  <2>8. ASSUME NEW t \in Polls, poll'[t].of = q, NEW i \in poll'[t].rest, NEW j \in DOMAIN signals',
               Offered(q, j)', j < i
        PROVE  j \in poll'[t].rest \/ Has(q, j)'
    <3>1. poll'[t] = poll[t] BY <2>8
    <3>2. i \in DOMAIN signals BY <2>8, <3>1 DEF TypeOK
    <3>3. j \in DOMAIN signals BY <2>6, <2>8, <3>2 DEF SignalsGrow
    <3> QED BY <2>1, <2>3, <2>4, <2>8, <3>1, <3>3 DEF Passed
  <2>9. Passed(q)' BY <2>7, <2>8 DEF Passed
  <2> QED BY <2>2, <2>9
<1> QED BY <1>2, <1>3 DEF Kept

-----------------------------------------------------------------------------
(* Steps of the polls *)

\* The number of troubles stays within its bound.
LEMMA TroubleCounts ==
  ASSUME TypeOK, Trouble \/ UNCHANGED troubles
  PROVE  troubles' \in 0..MaxTroubles
BY BoundsAreNumbers DEF TypeOK, Trouble

\* A poll that is busy is one of a peer that its device has started.
LEMMA PollOf ==
  ASSUME Inv, NEW s \in Polls, poll[s].stage # "idle"
  PROVE  /\ poll[s].of \in Peers /\ poll[s].of[1] = s[1] /\ Started(poll[s].of)
         /\ s[1] \in Devices /\ PollFits(s) /\ poll[s] \in PollType
         /\ peer[poll[s].of] \in PeerType /\ PeerFits(poll[s].of) /\ Kept(poll[s].of)
         /\ poll[s].rest \in SUBSET Nat /\ poll[s].rest \subseteq DOMAIN signals
         /\ poll[s].rest # {} => /\ Min(poll[s].rest) \in poll[s].rest
                                 /\ Min(poll[s].rest) \in DOMAIN signals
                                 /\ Min(poll[s].rest) \in Nat
                                 /\ \A j \in poll[s].rest : Min(poll[s].rest) <= j
<1>1. TypeOK /\ PollFits(s) BY DEF Inv, FitInv
<1>2. poll[s].rest \in SUBSET Nat /\ poll[s] \in PollType /\ poll[s].rest \subseteq DOMAIN signals
  BY <1>1 DEF TypeOK, PollType
<1>3. poll[s].of \in Peers /\ poll[s].of[1] = s[1] /\ Started(poll[s].of) BY <1>1 DEF PollFits
<1>4. peer[poll[s].of] \in PeerType /\ PeerFits(poll[s].of) /\ Kept(poll[s].of)
  BY <1>1, <1>3 DEF Inv, FitInv, CandidateInv, TypeOK
<1> QED BY <1>1, <1>2, <1>3, <1>4, Least, PollsOfDevices

\* A poll that ends, or goes on with some of the signals it has, changes at most its own peer.
LEMMA PollStepKeeps ==
  ASSUME Inv, SignalsGrow, UNCHANGED <<attempt, tasks>>, Silent, Trouble \/ UNCHANGED troubles,
         stored' \in [Devices -> Nat], \A d \in Devices : stored'[d] <= Len(signals'),
         NEW s \in Polls, NEW p \in Peers, poll[s].of = p, poll[s].stage # "idle",
         NEW r \in PollType, SetPoll(s, r), r.of \in {p, None}, r.rest \subseteq poll[s].rest,
         PollFits(s)',
         NEW x \in PeerType, Set(p, x), x.open = peer[p].open, x.link = peer[p].link,
         x.pending \cup x.added \subseteq DOMAIN signals,
         x.link # "new" => x.local /\ x.remote \in Peers, PeerFits(p)',
         spoiled' \in {spoiled, spoiled \cup {p}}, Kept(p)'
  PROVE  Inv'
<1>1. PeersTyped /\ PollsTyped /\ TypeOK BY Types DEF Inv
<1>2. DOMAIN signals \subseteq DOMAIN signals' BY DEF SignalsGrow
<1>3. PeersTyped' /\ peer'[p] = x /\ \A q \in Peers \ {p} : peer'[q] = peer[q]
  BY <1>1, <1>2, PeerSet
<1>4. PollsTyped' /\ poll'[s] = r /\ \A t \in Polls \ {s} : poll'[t] = poll[t]
  <2>1. r.rest \subseteq DOMAIN signals' BY <1>1, <1>2 DEF PollsTyped
  <2> QED BY <1>1, <1>2, <2>1, PollSet
<1>5. Started(p) BY PollOf
<1>6. \A t \in Polls : PollFits(t)'
  <2>1. SUFFICES ASSUME NEW t \in Polls \ {s} PROVE PollFits(t)' OBVIOUS
  <2>2. PollFits(t) BY DEF Inv, FitInv
  <2> QED BY <1>1, <1>4, <2>2, PollStays DEF Started
<1>7. \A q \in Peers : PeerFits(q)'
  <2>1. SUFFICES ASSUME NEW q \in Peers \ {p} PROVE PeerFits(q)' OBVIOUS
  <2>2. PeerFits(q) /\ peer[q].cursor \in Nat BY <1>1 DEF Inv, FitInv, TypeOK, PeerType
  <2> QED BY <1>3, <2>2 DEF PeerFits, SignalsGrow
<1>8. \A q \in Peers : Kept(q)'
  <2>1. SUFFICES ASSUME NEW q \in Peers \ {p} PROVE Kept(q)' OBVIOUS
  <2>2. Kept(q) /\ FitInv BY DEF Inv, CandidateInv
  <2>3. \A t \in Polls : poll'[t] = poll[t] \/ (poll[t].of # q /\ poll'[t].of # q)
    BY <1>4, PeerIs
  <2> QED BY <1>1, <1>3, <2>2, <2>3, PeerKeeps
<1>9. troubles' \in 0..MaxTroubles BY <1>1, TroubleCounts
<1>10. spoiled' \subseteq Peers BY <1>1 DEF TypeOK
<1>11. \A q \in Peers : /\ peer'[q].open = peer[q].open /\ peer'[q].link = peer[q].link
                        /\ ~Started(q) => peer'[q] = peer[q]
  BY <1>3, <1>5
<1> QED BY <1>3, <1>4, <1>6, <1>7, <1>8, <1>9, <1>10, <1>11, QuietStep

\* What is said of a poll that has none left is nothing.
LEMMA PassedStays ==
  ASSUME TypeOK, FitInv, SignalsGrow, NEW p \in Peers, Passed(p),
         peer'[p].begin = peer[p].begin, peer'[p].cursor = peer[p].cursor,
         peer[p].pending \cup peer[p].added \subseteq peer'[p].pending \cup peer'[p].added,
         \A t \in Polls : poll'[t].of = p =>
            \/ poll[t].of = p /\ poll'[t].rest = poll[t].rest
            \/ poll'[t].rest = {}
  PROVE  Passed(p)'
<1>1. \A j \in DOMAIN signals : Offered(p, j)' <=> Offered(p, j) BY DEF Offered, SignalsGrow
<1>2. \A j : Has(p, j) => Has(p, j)' BY DEF Has
<1>3. peer[p].cursor <= Len(signals) /\ peer[p].cursor \in Nat
  BY DEF FitInv, PeerFits, TypeOK, PeerType
<1>4. ASSUME NEW j \in DOMAIN signals', Offered(p, j)', j <= peer'[p].cursor PROVE Has(p, j)'
  <2>1. j \in DOMAIN signals BY <1>3, <1>4 DEF SignalsGrow
  <2> QED BY <1>1, <1>2, <1>4, <2>1 DEF Passed
<1>5. ASSUME NEW t \in Polls, poll'[t].of = p, NEW i \in poll'[t].rest, NEW j \in DOMAIN signals',
             Offered(p, j)', j < i
      PROVE  j \in poll'[t].rest \/ Has(p, j)'
  <2>1. poll[t].of = p /\ poll'[t].rest = poll[t].rest BY <1>5
  <2>2. i \in DOMAIN signals BY <1>5, <2>1 DEF TypeOK
  <2>3. j \in DOMAIN signals BY <1>5, <2>2 DEF SignalsGrow
  <2> QED BY <1>1, <1>2, <1>5, <2>1, <2>3 DEF Passed
<1> QED BY <1>4, <1>5 DEF Passed

\* A poll that has dealt with its next signal leaves none behind.
LEMMA PassedOn ==
  ASSUME Inv, SignalsGrow, NEW s \in Polls, NEW p \in Peers, poll[s].of = p,
         poll[s].stage # "idle", poll[s].rest # {}, Passed(p), NEW i, i = Min(poll[s].rest),
         peer'[p].begin = peer[p].begin,
         peer'[p].cursor = IF peer[p].cursor < i THEN i ELSE peer[p].cursor,
         peer[p].pending \cup peer[p].added \subseteq peer'[p].pending \cup peer'[p].added,
         Offered(p, i) => Has(p, i)',
         poll'[s].rest = poll[s].rest \ {i},
         \A t \in Polls \ {s} : poll'[t] = poll[t]
  PROVE  Passed(p)'
<1>1. \A j \in DOMAIN signals : Offered(p, j)' <=> Offered(p, j) BY DEF Offered, SignalsGrow
<1>2. \A j : Has(p, j) => Has(p, j)' BY DEF Has
<1>3. peer[p].cursor <= Len(signals) /\ peer[p].cursor \in Nat
  BY PollOf DEF PeerFits, PeerType
<1>4. /\ i \in DOMAIN signals /\ i \in Nat /\ i \in poll[s].rest /\ \A j \in poll[s].rest : i <= j
      /\ poll[s].rest \subseteq DOMAIN signals
  BY PollOf
<1>5. ASSUME NEW j \in DOMAIN signals', Offered(p, j)', j <= peer'[p].cursor PROVE Has(p, j)'
  <2>1. j \in DOMAIN signals BY <1>3, <1>4, <1>5 DEF SignalsGrow
  <2>2. Offered(p, j) BY <1>1, <1>5, <2>1
  <2>3. CASE j <= peer[p].cursor BY <1>2, <2>1, <2>2, <2>3 DEF Passed
  <2>4. CASE j = i BY <2>2, <2>4
  <2>5. CASE j < i
    <3>1. j \notin poll[s].rest BY <1>4, <2>1, <2>5 DEF SignalsGrow
    <3> QED BY <1>2, <1>4, <2>1, <2>2, <2>5, <3>1 DEF Passed
  <2>6. j \in Nat BY DEF SignalsGrow
  <2> QED BY <1>3, <1>4, <1>5, <2>3, <2>4, <2>5, <2>6
<1>6. ASSUME NEW t \in Polls, poll'[t].of = p, NEW k \in poll'[t].rest, NEW j \in DOMAIN signals',
             Offered(p, j)', j < k
      PROVE  j \in poll'[t].rest \/ Has(p, j)'
  <2>1. poll[t].of = p /\ k \in poll[t].rest BY <1>6
  <2>2. k \in DOMAIN signals BY <2>1 DEF Inv, TypeOK
  <2>3. j \in DOMAIN signals BY <1>6, <2>2 DEF SignalsGrow
  <2>4. Offered(p, j) BY <1>1, <1>6, <2>3
  <2>5. j \in poll[t].rest \/ Has(p, j) BY <1>6, <2>1, <2>3, <2>4 DEF Passed
  <2>6. CASE t = s BY <1>2, <2>4, <2>5, <2>6
  <2>7. CASE t # s BY <1>2, <2>5, <2>7
  <2> QED BY <2>6, <2>7
<1> QED BY <1>5, <1>6 DEF Passed

\* The stages that polls are in, when one poll changes.
LEMMA BusyStays ==
  ASSUME PollsTyped, NEW s \in Polls, NEW r \in PollType, SetPoll(s, r), NEW p \in Peers, NEW K
  PROVE  /\ Busy(p, K)' <=> \/ r.of = p /\ r.stage \in K
                            \/ \E t \in Polls \ {s} : poll[t].of = p /\ poll[t].stage \in K
         /\ Busy(p, K) => \/ poll[s].of = p /\ poll[s].stage \in K
                          \/ \E t \in Polls \ {s} : poll[t].of = p /\ poll[t].stage \in K
         /\ (\E t \in Polls \ {s} : poll[t].of = p /\ poll[t].stage \in K) => Busy(p, K)
<1>1. poll'[s] = r /\ \A t \in Polls \ {s} : poll'[t] = poll[t] BY DEF PollsTyped, SetPoll
<1> QED BY <1>1 DEF Busy

\* A poll that ends without having dealt with its signal.
LEMMA PollEnds ==
  ASSUME Inv, SignalsGrow, UNCHANGED <<attempt, tasks, peer>>, Silent,
         Trouble \/ UNCHANGED troubles,
         stored' \in [Devices -> Nat], \A d \in Devices : stored'[d] <= Len(signals'),
         NEW s \in Polls, NEW p \in Peers, poll[s].of = p, poll[s].stage # "idle", EndPoll(s),
         spoiled' \in {spoiled, spoiled \cup {p}},
         peer[p].open /\ p \notin spoiled' =>
            \/ poll[s].stage \in {"next", "describe"}
            \/ poll[s].stage = "answer" /\ peer[p].local
  PROVE  Inv'
<1>1. TypeOK /\ FitInv /\ PeersTyped /\ PollsTyped /\ Kept(p) /\ PeerFits(p)
  BY Types, PollOf DEF Inv
<1>2. peer[p] \in PeerType /\ Set(p, peer[p]) BY <1>1 DEF PeersTyped, Set
<1>3. NoPoll \in PollType /\ SetPoll(s, NoPoll) /\ NoPoll.of = None /\ NoPoll.rest = {}
      /\ NoPoll.stage = "idle"
  BY NoPollTyped DEF EndPoll
<1>4. poll'[s] = NoPoll /\ \A t \in Polls \ {s} : poll'[t] = poll[t]
  BY <1>1, <1>3 DEF PollsTyped, SetPoll
<1>5. PollFits(s)' BY <1>3, <1>4 DEF PollFits
<1>6. PeerFits(p)' BY <1>1, <1>2 DEF PeerFits, SignalsGrow, PeerType
<1>7. Kept(p)'
  <2> SUFFICES ASSUME peer[p].open
               PROVE  AnswersOnce(p)' /\ (p \notin spoiled' => Passed(p)' /\ Waits(p)')
    BY DEF Kept
  <2>1. AnswersOnce(p) /\ (p \notin spoiled => Passed(p) /\ Waits(p)) BY <1>1 DEF Kept
  <2>2. \A K : Busy(p, K)' => Busy(p, K) BY <1>1, <1>3, BusyStays, PeerIs
  <2>3. AnswersOnce(p)' BY <2>1, <2>2 DEF AnswersOnce
  <2>4. ASSUME p \notin spoiled' PROVE Passed(p)' /\ Waits(p)'
    <3>1. Passed(p) /\ Waits(p) BY <2>1, <2>4
    <3>2. \A t \in Polls : poll'[t].of = p => poll[t].of = p /\ poll'[t].rest = poll[t].rest
      BY <1>3, <1>4, PeerIs
    <3>3. Passed(p)' BY <1>1, <3>1, <3>2, PassedStays
    <3>4. \A K : Busy(p, K) /\ poll[s].stage \notin K => Busy(p, K)' BY <1>1, <1>3, BusyStays
    <3>5. Waits(p)' BY <2>4, <3>1, <3>4 DEF Waits
    <3> QED BY <3>3, <3>5
  <2> QED BY <2>3, <2>4
<1>8. /\ peer[p].pending \cup peer[p].added \subseteq DOMAIN signals
      /\ peer[p].link # "new" => peer[p].local /\ peer[p].remote \in Peers
  BY <1>1 DEF PeersTyped
<1> QED BY <1>2, <1>3, <1>5, <1>6, <1>7, <1>8, PollStepKeeps

\* The cursor is saved of a peer that has read no more signals than there are.
LEMMA SavesCursor == ASSUME Inv, NEW s \in Polls, SaveCursor(s) PROVE Inv'
<1> DEFINE p == poll[s].of
<1>1. poll[s].stage = "next" /\ EndPoll(s) /\ Silent BY DEF SaveCursor
<1>2. UNCHANGED <<attempt, peer, signals, tasks, troubles, spoiled>> BY DEF SaveCursor
<1>3. TypeOK /\ p \in Peers /\ PeerFits(p) /\ peer[p] \in PeerType BY <1>1, PollOf DEF Inv
<1>4. SignalsGrow BY <1>2, <1>3, SameSignals
<1>5. stored' = [stored EXCEPT ![s[1]] = peer[p].cursor] BY DEF SaveCursor
<1>6. stored \in [Devices -> Nat] /\ CursorsFit BY <1>3 DEF TypeOK, Inv, FitInv
<1>7. peer[p].cursor \in Nat /\ peer[p].cursor <= Len(signals) BY <1>3 DEF PeerType, PeerFits
<1>8. stored' \in [Devices -> Nat] BY <1>5, <1>6, <1>7
<1>9. \A d \in Devices : stored'[d] <= Len(signals') BY <1>2, <1>5, <1>6, <1>7 DEF CursorsFit
<1> HIDE DEF p
<1>10. poll[s].of = p BY DEF p
<1> QED BY <1>1, <1>2, <1>3, <1>4, <1>8, <1>9, <1>10, PollEnds

\* The cursors in the vault stay as they are.
LEMMA StoredStays ==
  ASSUME TypeOK, FitInv, SignalsGrow, UNCHANGED stored
  PROVE  stored' \in [Devices -> Nat] /\ \A d \in Devices : stored'[d] <= Len(signals')
<1>1. stored \in [Devices -> Nat] /\ CursorsFit BY DEF TypeOK, FitInv
<1>2. \A d \in Devices : stored[d] \in Nat BY <1>1
<1> QED BY <1>1, <1>2 DEF CursorsFit, SignalsGrow

\* The peer of a poll that throws is closed, and has no candidates any more.
LEMMA Throws == ASSUME Inv, NEW s \in Polls, PollThrows(s) PROVE Inv'
<1>1. poll[s].stage # "idle" /\ EndPoll(s) /\ Silent /\ ~peer[poll[s].of].open BY DEF PollThrows
<1>2. UNCHANGED <<attempt, peer, signals, stored, tasks, troubles, spoiled>> BY DEF PollThrows
<1>3. TypeOK /\ FitInv /\ poll[s].of \in Peers BY <1>1, PollOf DEF Inv
<1>4. SignalsGrow BY <1>2, <1>3, SameSignals
<1>5. stored' \in [Devices -> Nat] /\ \A d \in Devices : stored'[d] <= Len(signals')
  BY <1>2, <1>3, <1>4, StoredStays
<1> QED BY <1>1, <1>2, <1>3, <1>4, <1>5, PollEnds

\* A peer whose answer failed is not asked for its candidates.
LEMMA FailsToAnswer == ASSUME Inv, NEW s \in Polls, AnswerFails(s) PROVE Inv'
<1> DEFINE p == poll[s].of
<1>1. poll[s].stage = "send" /\ Trouble /\ EndPoll(s) /\ spoiled' = spoiled \cup {p} /\ Silent
  BY DEF AnswerFails
<1>2. UNCHANGED <<attempt, peer, stored, tasks>> BY DEF AnswerFails
<1>3. TypeOK /\ FitInv /\ p \in Peers BY <1>1, PollOf DEF Inv
<1>4. SignalsGrow
  <2>1. PostSignal("answer", p) \/ UNCHANGED signals BY DEF AnswerFails
  <2>2. CASE PostSignal("answer", p) BY <1>3, <2>2, OneMoreSignal
  <2>3. CASE UNCHANGED signals BY <1>3, <2>3, SameSignals
  <2> QED BY <2>1, <2>2, <2>3
<1>5. stored' \in [Devices -> Nat] /\ \A d \in Devices : stored'[d] <= Len(signals')
  BY <1>2, <1>3, <1>4, StoredStays
<1>6. p \in spoiled' BY <1>1
<1> HIDE DEF p
<1>7. poll[s].of = p BY DEF p
<1> QED BY <1>1, <1>2, <1>3, <1>4, <1>5, <1>6, <1>7, PollEnds

\* A poll that goes on, with its peer as it is but for what the poll does.
LEMMA PollMoves ==
  ASSUME Inv, SignalsGrow, UNCHANGED <<attempt, tasks, stored, troubles, spoiled>>, Silent,
         NEW s \in Polls, NEW p \in Peers, poll[s].of = p, poll[s].stage # "idle",
         NEW stage \in {"next", "describe", "answer", "send"}, NEW rest \in SUBSET poll[s].rest,
         SetPoll(s, [stage |-> stage, of |-> p, rest |-> rest]),
         stage # "next" => rest = poll[s].rest /\ rest # {} /\ Description(Min(rest)),
         NEW x \in PeerType, Set(p, x), x.open = peer[p].open, x.link = peer[p].link,
         x.pending \cup x.added \subseteq DOMAIN signals,
         x.link # "new" => x.local /\ x.remote \in Peers,
         x.remote # None => x.remote[1] # p[1], x.cursor <= Len(signals),
         Kept(p)'
  PROVE  Inv'
<1> DEFINE r == [stage |-> stage, of |-> p, rest |-> rest]
<1>1. TypeOK /\ FitInv /\ PeersTyped /\ PollsTyped /\ Started(p) /\ p[1] = s[1] /\ PollFits(s)
      /\ poll[s].rest \in SUBSET Nat /\ poll[s].rest \subseteq DOMAIN signals
      /\ (poll[s].rest # {} => Min(poll[s].rest) \in DOMAIN signals)
  BY Types, PollOf DEF Inv
<1>2. r.stage = stage /\ r.of = p /\ r.rest = rest OBVIOUS
<1>3. r \in PollType BY <1>1 DEF PollType
<1>4. SetPoll(s, r) OBVIOUS
<1> HIDE DEF r
<1>5. poll'[s] = r BY <1>1, <1>4 DEF PollsTyped, SetPoll
<1>6. PollFits(s)'
  <2>1. Started(p)' BY <1>1 DEF Started
  <2>2. \A i \in DOMAIN signals : signals'[i] = signals[i] BY DEF SignalsGrow
  <2>3. \A i \in rest : signals'[i].from[1] # s[1] BY <1>1, <2>2 DEF PollFits
  <2>4. stage # "next" => rest # {} /\ Description(Min(rest))'
    BY <1>1, <2>2 DEF Description
  <2> QED BY <1>1, <1>2, <1>5, <2>1, <2>3, <2>4 DEF PollFits
<1>7. peer'[p] = x BY <1>1 DEF PeersTyped, Set
<1>8. PeerFits(p)'
  <2>1. x.cursor \in Nat BY DEF PeerType
  <2> QED BY <1>7, <2>1 DEF PeerFits, SignalsGrow
<1>9. stored' \in [Devices -> Nat] /\ \A d \in Devices : stored'[d] <= Len(signals')
  BY <1>1, StoredStays
<1>10. r.of \in {p, None} /\ r.rest \subseteq poll[s].rest BY <1>2
<1> QED BY <1>3, <1>4, <1>6, <1>8, <1>9, <1>10, PollStepKeeps

\* What the record of a poll becomes.
LEMMA PollBecomes ==
  ASSUME Inv, NEW s \in Polls, poll[s].stage # "idle"
  PROVE  /\ Advance(s) => SetPoll(s, [stage |-> "next", of |-> poll[s].of,
                                      rest |-> poll[s].rest \ {Min(poll[s].rest)}])
         /\ \A k : SetPoll(s, [poll[s] EXCEPT !.stage = k]) =>
              SetPoll(s, [stage |-> k, of |-> poll[s].of, rest |-> poll[s].rest])
<1>1. poll[s] \in PollType BY PollOf
<1> QED BY <1>1 DEF PollType, Advance, SetPoll

\* A description is set only while there is none, so that nothing can be waiting for an answer.
LEMMA Takings == ASSUME Inv, NEW s \in Polls, Take(s) PROVE Inv'
<1>1. PICK i \in DOMAIN signals : Reading(s, i) /\ Takes(poll[s].of, i) BY DEF Take
<1>2. poll[s].stage = "next" /\ poll[s].rest # {} /\ i = Min(poll[s].rest) BY <1>1 DEF Reading
<1>3. PICK p \in Peers : p = poll[s].of BY <1>2, PollOf
<1>4. peer[p].open /\ Description(i) /\ peer[p].remote = None BY <1>1, <1>3 DEF Takes, Reading
<1>5. UNCHANGED <<attempt, peer, signals, stored, tasks, troubles, spoiled>> /\ Silent BY DEF Take
<1>6. TypeOK /\ FitInv /\ PeersTyped /\ PollsTyped /\ Kept(p) /\ PeerFits(p)
  BY <1>2, <1>3, Types, PollOf DEF Inv
<1>7. peer[p] \in PeerType /\ Set(p, peer[p]) BY <1>5, <1>6 DEF PeersTyped, Set
<1>8. SignalsGrow BY <1>5, <1>6, SameSignals
<1>9. SetPoll(s, [stage |-> "describe", of |-> p, rest |-> poll[s].rest])
  BY <1>2, <1>3, PollBecomes DEF Take
<1> DEFINE r == [stage |-> "describe", of |-> p, rest |-> poll[s].rest]
<1>10. r \in PollType
  <2>1. poll[s].rest \in SUBSET Nat BY <1>2, PollOf
  <2> QED BY <2>1 DEF PollType
<1>11. r.of = p /\ r.stage = "describe" /\ r.rest = poll[s].rest OBVIOUS
<1>12. SetPoll(s, r) BY <1>9
<1> HIDE DEF r
<1>13. poll'[s] = r /\ \A t \in Polls \ {s} : poll'[t] = poll[t]
  BY <1>6, <1>12 DEF PollsTyped, SetPoll
<1>14. Kept(p)'
  <2>1. AnswersOnce(p) /\ (p \notin spoiled => Passed(p) /\ Waits(p)) BY <1>4, <1>6 DEF Kept
  <2>2. Busy(p, {"answer", "send"})' => Busy(p, {"answer", "send"})
    BY <1>6, <1>10, <1>11, <1>12, BusyStays
  <2>3. ~(p[1] = Answerer /\ peer[p].local) BY <1>4, <2>1 DEF AnswersOnce
  <2>4. AnswersOnce(p)' BY <1>5, <2>1, <2>2, <2>3 DEF AnswersOnce
  <2>5. Waits(p)' BY <1>4, <1>5 DEF Waits
  <2>6. ASSUME p \notin spoiled' PROVE Passed(p)'
    <3>1. Passed(p) BY <1>5, <2>1, <2>6
    <3>2. \A t \in Polls : poll'[t].of = p => poll[t].of = p /\ poll'[t].rest = poll[t].rest
      BY <1>3, <1>11, <1>13
    <3> QED BY <1>5, <1>6, <1>8, <3>1, <3>2, PassedStays
  <2> QED BY <2>4, <2>5, <2>6 DEF Kept
<1>15. /\ peer[p].pending \cup peer[p].added \subseteq DOMAIN signals
       /\ peer[p].link # "new" => peer[p].local /\ peer[p].remote \in Peers
       /\ peer[p].remote # None => peer[p].remote[1] # p[1]
       /\ peer[p].cursor <= Len(signals)
  BY <1>6 DEF PeersTyped, PeerFits
<1>16. poll[s].rest # {} /\ Description(Min(poll[s].rest)) /\ poll[s].stage # "idle"
  BY <1>2, <1>4
<1> QED BY <1>3, <1>5, <1>7, <1>8, <1>9, <1>14, <1>15, <1>16, PollMoves

\* A poll has dealt with its signal, and the peer x is past it.
LEMMA PollAdvances ==
  ASSUME Inv, SignalsGrow, UNCHANGED <<attempt, tasks, stored, troubles, spoiled>>, Silent,
         NEW s \in Polls, NEW p \in Peers, poll[s].of = p, poll[s].stage # "idle",
         poll[s].rest # {}, NEW i, i = Min(poll[s].rest), Advance(s),
         NEW x \in PeerType, Set(p, Past(x, i)), x.open = peer[p].open, x.link = peer[p].link,
         x.begin = peer[p].begin, x.cursor = peer[p].cursor, x.local = peer[p].local,
         x.pending \cup x.added \subseteq DOMAIN signals,
         peer[p].pending \cup peer[p].added \subseteq x.pending \cup x.added,
         x.remote = peer[p].remote \/ x.remote \in Peers, x.remote # None => x.remote[1] # p[1],
         peer[p].open /\ Offered(p, i) => i \in x.pending \cup x.added,
         peer[p].open => \/ x.pending = {}
                         \/ x.remote = None
                         \/ /\ x.pending = peer[p].pending /\ x.remote = peer[p].remote
                            /\ poll[s].stage = "next"
  PROVE  Inv'
<1> DEFINE y == Past(x, i)
<1>1. TypeOK /\ FitInv /\ PeersTyped /\ PollsTyped /\ Kept(p) /\ PeerFits(p)
      /\ i \in Nat /\ i \in DOMAIN signals /\ poll[s].rest \in SUBSET Nat
  BY Types, PollOf DEF Inv
<1>2. /\ y \in PeerType /\ y.cursor = IF x.cursor < i THEN i ELSE x.cursor
      /\ y.begin = x.begin /\ y.open = x.open /\ y.local = x.local
      /\ y.remote = x.remote /\ y.pending = x.pending
      /\ y.added = x.added /\ y.link = x.link
  BY <1>1, PastIs
<1>3. Set(p, y) OBVIOUS
<1> HIDE DEF y
<1>4. peer'[p] = y BY <1>1, <1>3 DEF PeersTyped, Set
<1> DEFINE rest == poll[s].rest \ {i}
<1> DEFINE r == [stage |-> "next", of |-> p, rest |-> rest]
<1>5. SetPoll(s, [stage |-> "next", of |-> p, rest |-> rest]) BY PollBecomes
<1>6. rest \in SUBSET poll[s].rest OBVIOUS
<1>7. r \in PollType BY <1>1 DEF PollType
<1>8. r.of = p /\ r.stage = "next" /\ r.rest = rest OBVIOUS
<1>9. SetPoll(s, r) BY <1>5
<1> HIDE DEF r
<1>10. poll'[s] = r /\ \A t \in Polls \ {s} : poll'[t] = poll[t]
  BY <1>1, <1>9 DEF PollsTyped, SetPoll
<1>11. Kept(p)'
  <2> SUFFICES ASSUME peer[p].open
               PROVE  AnswersOnce(p)' /\ (p \notin spoiled => Passed(p)' /\ Waits(p)')
    BY <1>2, <1>4 DEF Kept
  <2>1. AnswersOnce(p) /\ (p \notin spoiled => Passed(p) /\ Waits(p)) BY <1>1 DEF Kept
  <2>2. \A K : "next" \notin K /\ Busy(p, K)' => Busy(p, K) BY <1>1, <1>7, <1>8, <1>9, BusyStays
  <2>3. peer[p].remote # None => x.remote # None BY PeerIs
  <2>4. Busy(p, {"answer", "send"})' => Busy(p, {"answer", "send"}) BY <2>2
  <2>5. Busy(p, {"describe"})' => Busy(p, {"describe"}) BY <2>2
  <2>6. AnswersOnce(p)' BY <1>2, <1>4, <2>1, <2>3, <2>4, <2>5 DEF AnswersOnce
  <2>7. ASSUME p \notin spoiled PROVE Passed(p)' /\ Waits(p)'
    <3>1. Passed(p) /\ Waits(p) BY <2>1, <2>7
    <3>2. Offered(p, i) => Has(p, i)' BY <1>2, <1>4 DEF Has
    <3>3. peer'[p].cursor = IF peer[p].cursor < i THEN i ELSE peer[p].cursor BY <1>2, <1>4
    <3>4. /\ peer'[p].begin = peer[p].begin
          /\ peer[p].pending \cup peer[p].added \subseteq peer'[p].pending \cup peer'[p].added
          /\ poll'[s].rest = poll[s].rest \ {i}
      BY <1>2, <1>4, <1>8, <1>10
    <3>5. Passed(p)' BY <1>10, <3>1, <3>2, <3>3, <3>4, PassedOn
    <3>6. Waits(p)'
      <4>1. \A K : poll[s].stage = "next" /\ "next" \notin K /\ Busy(p, K) => Busy(p, K)'
        BY <1>1, <1>7, <1>8, <1>9, BusyStays
      <4>2. poll[s].stage = "next" /\ Busy(p, {"answer"}) => Busy(p, {"answer"})' BY <4>1
      <4>3. poll[s].stage = "next" /\ Busy(p, {"send"}) => Busy(p, {"send"})' BY <4>1
      <4> QED BY <1>2, <1>4, <3>1, <4>2, <4>3 DEF Waits
    <3> QED BY <3>5, <3>6
  <2> QED BY <2>6, <2>7
<1>12. y.link # "new" => y.local /\ y.remote \in Peers BY <1>1, <1>2 DEF PeersTyped
<1>13. y.cursor <= Len(signals)
  <2>1. peer[p].cursor <= Len(signals) BY <1>1 DEF PeerFits
  <2>2. i <= Len(signals) BY <1>1 DEF SignalsGrow
  <2> QED BY <1>2, <2>1, <2>2
<1>14. /\ y.open = peer[p].open /\ y.link = peer[p].link
       /\ y.pending \cup y.added \subseteq DOMAIN signals
       /\ y.remote # None => y.remote[1] # p[1]
  BY <1>2
<1> HIDE DEF rest
<1> QED BY <1>2, <1>3, <1>5, <1>6, <1>11, <1>12, <1>13, <1>14, PollMoves

\* What is ignored is a description, so no candidate is passed.
LEMMA Ignoring == ASSUME Inv, NEW s \in Polls, Ignore(s) PROVE Inv'
<1>1. PICK p : p = poll[s].of OBVIOUS
<1>2. PICK i \in DOMAIN signals : /\ Reading(s, i) /\ Description(i) /\ ~Takes(p, i)
                                  /\ Set(p, Past(peer[p], i))
  BY <1>1 DEF Ignore
<1>3. poll[s].stage = "next" /\ poll[s].rest # {} /\ i = Min(poll[s].rest)
  BY <1>2 DEF Reading
<1>4. Advance(s) /\ Silent /\ UNCHANGED <<attempt, signals, stored, tasks, troubles, spoiled>>
  BY DEF Ignore
<1>5. TypeOK /\ p \in Peers /\ PeersTyped /\ peer[p] \in PeerType /\ PeerFits(p)
  BY <1>1, <1>3, Types, PollOf DEF Inv
<1>6. SignalsGrow BY <1>4, <1>5, SameSignals
<1>7. peer[p].pending \cup peer[p].added \subseteq DOMAIN signals
      /\ (peer[p].remote # None => peer[p].remote[1] # p[1])
  BY <1>5 DEF PeersTyped, PeerFits
<1>8. ~Offered(p, i) BY <1>2 DEF Offered, Description
<1> QED BY <1>1, <1>2, <1>3, <1>4, <1>5, <1>6, <1>7, <1>8, PollAdvances

\* A candidate that waits, or is added.
LEMMA Keeps ==
  ASSUME NEW r \in PeerType, NEW i \in Nat
  PROVE  /\ Keep(r, i) \in PeerType /\ [r EXCEPT !.added = @ \cup {i}] \in PeerType
         /\ \A x \in {Keep(r, i), [r EXCEPT !.added = @ \cup {i}]} :
              /\ x.open = r.open /\ x.link = r.link /\ x.begin = r.begin /\ x.cursor = r.cursor
              /\ x.local = r.local /\ x.remote = r.remote
              /\ x.pending \cup x.added = r.pending \cup r.added \cup {i}
         /\ [r EXCEPT !.added = @ \cup {i}].pending = r.pending
BY DEF Keep, PeerType

\* A candidate is added, or waits, or is refused.
LEMMA ReadsCandidate == ASSUME Inv, NEW s \in Polls, ReadCandidate(s) PROVE Inv'
<1>1. PICK p : p = poll[s].of OBVIOUS
<1>2. PICK i \in DOMAIN signals :
         /\ Reading(s, i) /\ signals[i].kind = "candidate"
         /\ \/ /\ peer[p].remote = None /\ Set(p, Past(Keep(peer[p], i), i))
               /\ Advance(s) /\ UNCHANGED spoiled
            \/ /\ peer[p].remote # None
               /\ Set(p, Past([peer[p] EXCEPT !.added = @ \cup {i}], i))
               /\ Advance(s) /\ UNCHANGED spoiled
            \/ /\ peer[p].remote # None /\ Stale(p, i)
               /\ EndPoll(s) /\ spoiled' = spoiled \cup {p} /\ UNCHANGED peer
  BY <1>1 DEF ReadCandidate
<1>3. /\ poll[s].stage = "next" /\ poll[s].stage # "idle" /\ poll[s].rest # {}
      /\ i = Min(poll[s].rest)
  BY <1>2 DEF Reading
<1>4. Silent /\ UNCHANGED <<attempt, signals, stored, tasks, troubles>>
  BY DEF ReadCandidate
<1>5. /\ TypeOK /\ FitInv /\ p \in Peers /\ PeersTyped /\ peer[p] \in PeerType /\ PeerFits(p)
      /\ i \in Nat
  BY <1>1, <1>3, Types, PollOf DEF Inv
<1>6. SignalsGrow BY <1>4, <1>5, SameSignals
<1>7. peer[p].pending \cup peer[p].added \subseteq DOMAIN signals
      /\ (peer[p].remote # None => peer[p].remote[1] # p[1])
  BY <1>5 DEF PeersTyped, PeerFits
<1>8. CASE peer[p].remote = None /\ Set(p, Past(Keep(peer[p], i), i)) /\ Advance(s)
           /\ UNCHANGED spoiled
  <2>1. PICK x : x = Keep(peer[p], i) OBVIOUS
  <2>2. /\ x \in PeerType /\ x.open = peer[p].open /\ x.link = peer[p].link
        /\ x.begin = peer[p].begin /\ x.cursor = peer[p].cursor /\ x.local = peer[p].local
        /\ x.remote = peer[p].remote
        /\ x.pending \cup x.added = peer[p].pending \cup peer[p].added \cup {i}
    BY <1>5, <2>1, Keeps
  <2>3. Set(p, Past(x, i)) BY <1>8, <2>1
  <2>4. x.pending \cup x.added \subseteq DOMAIN signals BY <1>7, <2>2
  <2> QED BY <1>1, <1>3, <1>4, <1>5, <1>6, <1>7, <1>8, <2>2, <2>3, <2>4, PollAdvances
<1>9. CASE peer[p].remote # None /\ Set(p, Past([peer[p] EXCEPT !.added = @ \cup {i}], i))
           /\ Advance(s) /\ UNCHANGED spoiled
  <2>1. PICK x : x = [peer[p] EXCEPT !.added = @ \cup {i}] OBVIOUS
  <2>2. /\ x \in PeerType /\ x.open = peer[p].open /\ x.link = peer[p].link
        /\ x.begin = peer[p].begin /\ x.cursor = peer[p].cursor /\ x.local = peer[p].local
        /\ x.remote = peer[p].remote /\ x.pending = peer[p].pending
        /\ x.pending \cup x.added = peer[p].pending \cup peer[p].added \cup {i}
    BY <1>5, <2>1, Keeps
  <2>3. Set(p, Past(x, i)) BY <1>9, <2>1
  <2>4. x.pending \cup x.added \subseteq DOMAIN signals BY <1>7, <2>2
  <2> QED BY <1>1, <1>3, <1>4, <1>5, <1>6, <1>7, <1>9, <2>2, <2>3, <2>4, PollAdvances
<1>10. CASE EndPoll(s) /\ spoiled' = spoiled \cup {p} /\ UNCHANGED peer
  <2>1. stored' \in [Devices -> Nat] /\ \A d \in Devices : stored'[d] <= Len(signals')
    BY <1>4, <1>5, <1>6, StoredStays
  <2>2. p \in spoiled' BY <1>10
  <2> QED BY <1>1, <1>3, <1>4, <1>5, <1>6, <1>10, <2>1, <2>2, PollEnds
<1> QED BY <1>2, <1>8, <1>9, <1>10

\* What waits is added, and nothing waits any more.
LEMMA FlushedIs ==
  ASSUME NEW r \in PeerType
  PROVE  LET x == Flushed(r) IN
         /\ x \in PeerType /\ x.open = r.open /\ x.link = r.link /\ x.begin = r.begin
         /\ x.cursor = r.cursor /\ x.local = r.local /\ x.remote = r.remote /\ x.pending = {}
         /\ x.added = r.added \cup r.pending
BY DEF Flushed, PeerType

\* Some of what waits is added.
LEMMA PartlyFlushedIs ==
  ASSUME NEW r \in PeerType, NEW k
  PROVE  LET x == PartlyFlushed(r, k) IN
         /\ x \in PeerType /\ x.open = r.open /\ x.link = r.link /\ x.begin = r.begin
         /\ x.cursor = r.cursor /\ x.local = r.local /\ x.remote = r.remote /\ x.pending = {}
         /\ x.added \subseteq r.added \cup r.pending
<1> DEFINE S == {i \in r.pending : i < k}
<1>1. S \subseteq r.pending /\ r.added \in SUBSET Nat /\ r.pending \in SUBSET Nat BY DEF PeerType
<1>2. PartlyFlushed(r, k) = [r EXCEPT !.added = @ \cup S, !.pending = {}] BY DEF PartlyFlushed
<1> HIDE DEF S
<1> QED BY <1>1, <1>2 DEF PeerType

\* The description is dealt with, and with it what waited for it.
LEMMA FlushKeeps ==
  ASSUME Inv, SignalsGrow, UNCHANGED <<attempt, tasks, stored, troubles>>, Silent,
         NEW s \in Polls, NEW p \in Peers, poll[s].of = p, poll[s].stage \in {"describe", "send"},
         NEW r \in PeerType, r.open = peer[p].open, r.link = peer[p].link,
         r.begin = peer[p].begin, r.cursor = peer[p].cursor, r.local = peer[p].local,
         r.pending = peer[p].pending, r.added = peer[p].added,
         r.remote \in Peers, r.remote[1] # p[1], peer[p].open,
         Flush(s, r, Min(poll[s].rest))
  PROVE  Inv'
<1>1. PICK i : i = Min(poll[s].rest) OBVIOUS
<1>2. /\ TypeOK /\ FitInv /\ PeersTyped /\ PollsTyped /\ PollFits(s) /\ Kept(p) /\ PeerFits(p)
      /\ poll[s].stage # "idle"
  BY Types, PollOf DEF Inv
<1>3. poll[s].rest # {} /\ Description(i) BY <1>1, <1>2 DEF PollFits
<1>4. /\ peer[p].pending \cup peer[p].added \subseteq DOMAIN signals
      /\ peer[p].link # "new" => peer[p].local
  BY <1>2 DEF PeersTyped
<1>5. CASE Set(p, Past(Flushed(r), i)) /\ Advance(s) /\ UNCHANGED spoiled
  <2>1. PICK x : x = Flushed(r) OBVIOUS
  <2>2. /\ x \in PeerType /\ x.open = peer[p].open /\ x.link = peer[p].link
        /\ x.begin = peer[p].begin /\ x.cursor = peer[p].cursor /\ x.local = peer[p].local
        /\ x.remote \in Peers /\ x.remote[1] # p[1] /\ x.pending = {}
        /\ x.added = peer[p].added \cup peer[p].pending
    <3>1. /\ x \in PeerType /\ x.open = r.open /\ x.link = r.link /\ x.begin = r.begin
          /\ x.cursor = r.cursor /\ x.local = r.local /\ x.remote = r.remote /\ x.pending = {}
      BY <2>1, FlushedIs
    <3>2. x.added = r.added \cup r.pending BY <2>1, FlushedIs
    <3> QED BY <3>1, <3>2
  <2>3. Set(p, Past(x, i)) BY <1>5, <2>1
  <2>4. ~Offered(p, i) BY <1>3 DEF Offered, Description
  <2>5. /\ x.pending \cup x.added \subseteq DOMAIN signals
        /\ peer[p].pending \cup peer[p].added \subseteq x.pending \cup x.added
    BY <1>4, <2>2
  <2>6. Advance(s) /\ UNCHANGED spoiled BY <1>5
  <2> QED BY <1>1, <1>2, <1>3, <2>2, <2>3, <2>4, <2>5, <2>6, PollAdvances
<1>6. ASSUME NEW k \in r.pending, Set(p, PartlyFlushed(r, k)), EndPoll(s),
             spoiled' = spoiled \cup {p}
      PROVE  Inv'
  <2>1. PICK x : x = PartlyFlushed(r, k) OBVIOUS
  <2>2. /\ x \in PeerType /\ x.open = r.open /\ x.link = r.link
        /\ x.begin = r.begin /\ x.cursor = r.cursor /\ x.local = r.local /\ x.remote = r.remote
        /\ x.pending = {} /\ x.added \subseteq r.added \cup r.pending
    BY <2>1, PartlyFlushedIs
  <2>3. Set(p, x) BY <1>6, <2>1
  <2>4. NoPoll \in PollType /\ SetPoll(s, NoPoll) /\ NoPoll.of = None /\ NoPoll.rest = {}
        /\ NoPoll.stage = "idle"
    BY <1>6, NoPollTyped DEF EndPoll
  <2>5. poll'[s] = NoPoll /\ peer'[p] = x
    BY <1>2, <2>3, <2>4 DEF PollsTyped, PeersTyped, SetPoll, Set
  <2>6. PollFits(s)' BY <2>4, <2>5 DEF PollFits
  <2>7. PeerFits(p)'
    <3>1. peer[p].cursor <= Len(signals) /\ peer[p].cursor \in Nat
      BY <1>2 DEF PeerFits, PeersTyped, PeerType
    <3> QED BY <2>2, <2>5, <3>1 DEF PeerFits, SignalsGrow
  <2>8. Kept(p)'
    <3>1. AnswersOnce(p) BY <1>2 DEF Kept
    <3>2. \A K : Busy(p, K)' => Busy(p, K) BY <1>2, <2>4, BusyStays, PeerIs
    <3>3. r.remote # None BY PeerIs
    <3>4. AnswersOnce(p)' BY <2>2, <2>5, <3>1, <3>2, <3>3 DEF AnswersOnce
    <3> QED BY <1>6, <3>4 DEF Kept
  <2>9. x.pending \cup x.added \subseteq DOMAIN signals
        /\ (x.link # "new" => x.local /\ x.remote \in Peers)
    BY <1>4, <2>2
  <2>10. stored' \in [Devices -> Nat] /\ \A d \in Devices : stored'[d] <= Len(signals')
    BY <1>2, StoredStays
  <2> QED BY <1>2, <1>6, <2>2, <2>3, <2>4, <2>6, <2>7, <2>8, <2>9, <2>10, PollStepKeeps
<1> QED BY <1>1, <1>5, <1>6 DEF Flush

\* The description a poll is at is one of the other device.
LEMMA DescriptionOf ==
  ASSUME Inv, NEW s \in Polls, poll[s].stage \in {"describe", "answer", "send"}
  PROVE  /\ poll[s].rest # {} /\ Description(Min(poll[s].rest))
         /\ Min(poll[s].rest) \in DOMAIN signals
         /\ signals[Min(poll[s].rest)].from \in Peers
         /\ signals[Min(poll[s].rest)].from[1] # s[1]
<1>1. PollFits(s) /\ poll[s].stage # "idle" BY PollOf
<1>2. poll[s].rest # {} /\ Description(Min(poll[s].rest)) BY <1>1 DEF PollFits
<1>3. Min(poll[s].rest) \in poll[s].rest /\ Min(poll[s].rest) \in DOMAIN signals
  BY <1>1, <1>2, PollOf
<1>4. signals[Min(poll[s].rest)] \in SignalType BY <1>3 DEF Inv, TypeOK
<1> QED BY <1>1, <1>2, <1>3, <1>4 DEF PollFits, SignalType

\* The answering device describes before it answers; the calling one, once only.
LEMMA Describes == ASSUME Inv, NEW s \in Polls, Describe(s) PROVE Inv'
<1>1. PICK p : p = poll[s].of OBVIOUS
<1>2. PICK i : i = Min(poll[s].rest) OBVIOUS
<1>3. PICK r : r = [peer[p] EXCEPT !.remote = signals[i].from] OBVIOUS
<1>4. /\ poll[s].stage = "describe" /\ peer[p].open
      /\ \/ s[1] = Answerer /\ Set(p, r)
            /\ SetPoll(s, [poll[s] EXCEPT !.stage = "answer"]) /\ UNCHANGED spoiled
         \/ s[1] = Caller /\ peer[p].remote = None /\ Flush(s, r, i)
         \/ s[1] = Caller /\ peer[p].remote # None /\ EndPoll(s) /\ UNCHANGED <<peer, spoiled>>
  BY <1>1, <1>2, <1>3 DEF Describe
<1>5. Silent /\ UNCHANGED <<attempt, signals, stored, tasks, troubles>> BY DEF Describe
<1>6. /\ TypeOK /\ FitInv /\ PeersTyped /\ PollsTyped /\ p \in Peers /\ p[1] = s[1]
      /\ peer[p] \in PeerType /\ PeerFits(p) /\ Kept(p)
  BY <1>1, <1>4, Types, PollOf DEF Inv
<1>7. SignalsGrow BY <1>5, <1>6, SameSignals
<1>8. /\ poll[s].rest # {} /\ Description(i) /\ signals[i].from \in Peers
      /\ signals[i].from[1] # p[1]
  BY <1>2, <1>4, <1>6, DescriptionOf
<1>9. /\ r \in PeerType /\ r.open = peer[p].open /\ r.link = peer[p].link
      /\ r.begin = peer[p].begin /\ r.cursor = peer[p].cursor /\ r.local = peer[p].local
      /\ r.pending = peer[p].pending /\ r.added = peer[p].added /\ r.remote = signals[i].from
  BY <1>3, <1>6, <1>8 DEF PeerType
<1>10. /\ peer[p].pending \cup peer[p].added \subseteq DOMAIN signals
       /\ peer[p].link # "new" => peer[p].local
       /\ peer[p].cursor <= Len(signals)
  BY <1>6 DEF PeersTyped, PeerFits
<1>11. CASE s[1] = Answerer /\ Set(p, r)
            /\ SetPoll(s, [poll[s] EXCEPT !.stage = "answer"]) /\ UNCHANGED spoiled
  <2> DEFINE q == [stage |-> "answer", of |-> p, rest |-> poll[s].rest]
  <2>1. SetPoll(s, [stage |-> "answer", of |-> p, rest |-> poll[s].rest])
    BY <1>1, <1>4, <1>11, PollBecomes
  <2>2. q \in PollType
    <3>1. poll[s].rest \in SUBSET Nat BY <1>4, PollOf
    <3> QED BY <1>6, <3>1 DEF PollType
  <2>3. q.of = p /\ q.stage = "answer" /\ q.rest = poll[s].rest OBVIOUS
  <2>4. SetPoll(s, q) BY <2>1
  <2> HIDE DEF q
  <2>5. poll'[s] = q /\ \A t \in Polls \ {s} : poll'[t] = poll[t]
    BY <1>6, <2>4 DEF PollsTyped, SetPoll
  <2>6. peer'[p] = r BY <1>6, <1>11 DEF PeersTyped, Set
  <2>7. Kept(p)'
    <3>1. AnswersOnce(p) /\ (p \notin spoiled => Passed(p)) BY <1>4, <1>6 DEF Kept
    <3>2. Busy(p, {"describe"}) BY <1>1, <1>4 DEF Busy
    <3>3. ~peer[p].local BY <1>6, <1>11, <3>1, <3>2 DEF AnswersOnce
    <3>4. r.remote # None BY <1>8, <1>9, PeerIs
    <3>5. AnswersOnce(p)' BY <1>6, <1>9, <1>11, <2>6, <3>3, <3>4 DEF AnswersOnce
    <3>6. Busy(p, {"answer"})' BY <1>6, <2>2, <2>3, <2>4, BusyStays
    <3>7. Waits(p)' BY <1>9, <2>6, <3>3, <3>6 DEF Waits
    <3>8. ASSUME p \notin spoiled' PROVE Passed(p)'
      <4>1. Passed(p) BY <1>11, <3>1, <3>8
      <4>2. \A t \in Polls : poll'[t].of = p => poll[t].of = p /\ poll'[t].rest = poll[t].rest
        BY <1>1, <2>3, <2>5
      <4> QED BY <1>6, <1>7, <1>9, <2>6, <4>1, <4>2, PassedStays
    <3> QED BY <3>5, <3>7, <3>8 DEF Kept
  <2>8. /\ r.pending \cup r.added \subseteq DOMAIN signals
        /\ r.link # "new" => r.local /\ r.remote \in Peers
        /\ r.remote # None => r.remote[1] # p[1]
        /\ r.cursor <= Len(signals)
    BY <1>8, <1>9, <1>10
  <2>9. Description(Min(poll[s].rest)) /\ poll[s].stage # "idle" BY <1>2, <1>4, <1>8
  <2> QED BY <1>1, <1>5, <1>6, <1>7, <1>8, <1>9, <1>11, <2>1, <2>7, <2>8, <2>9, PollMoves
<1>12. CASE Flush(s, r, i)
  BY <1>1, <1>2, <1>4, <1>5, <1>6, <1>7, <1>8, <1>9, <1>12, FlushKeeps
<1>13. CASE EndPoll(s) /\ UNCHANGED <<peer, spoiled>>
  <2>1. stored' \in [Devices -> Nat] /\ \A d \in Devices : stored'[d] <= Len(signals')
    BY <1>5, <1>6, <1>7, StoredStays
  <2> QED BY <1>1, <1>4, <1>5, <1>6, <1>7, <1>13, <2>1, PollEnds
<1> QED BY <1>4, <1>11, <1>12, <1>13

\* Of the polls that would answer, the first one does.
LEMMA Answers == ASSUME Inv, NEW s \in Polls, Answer(s) PROVE Inv'
<1>1. PICK p : p = poll[s].of OBVIOUS
<1>2. /\ poll[s].stage = "answer" /\ peer[p].open /\ ~Busy(p, {"describe"})
      /\ \/ peer[p].local /\ EndPoll(s) /\ UNCHANGED peer
         \/ /\ Set(p, [peer[p] EXCEPT !.local = TRUE])
            /\ SetPoll(s, [poll[s] EXCEPT !.stage = "send"])
  BY <1>1 DEF Answer
<1>3. Silent /\ UNCHANGED <<attempt, signals, stored, tasks, troubles, spoiled>> BY DEF Answer
<1>4. /\ TypeOK /\ FitInv /\ PeersTyped /\ PollsTyped /\ p \in Peers /\ p[1] = s[1]
      /\ peer[p] \in PeerType /\ PeerFits(p) /\ Kept(p)
  BY <1>1, <1>2, Types, PollOf DEF Inv
<1>5. SignalsGrow BY <1>3, <1>4, SameSignals
<1>6. CASE peer[p].local /\ EndPoll(s) /\ UNCHANGED peer
  <2>1. stored' \in [Devices -> Nat] /\ \A d \in Devices : stored'[d] <= Len(signals')
    BY <1>3, <1>4, <1>5, StoredStays
  <2> QED BY <1>1, <1>2, <1>3, <1>4, <1>5, <1>6, <2>1, PollEnds
<1>7. CASE /\ Set(p, [peer[p] EXCEPT !.local = TRUE])
           /\ SetPoll(s, [poll[s] EXCEPT !.stage = "send"])
  <2>1. PICK r : r = [peer[p] EXCEPT !.local = TRUE] OBVIOUS
  <2>2. /\ r \in PeerType /\ r.open = peer[p].open /\ r.link = peer[p].link
        /\ r.begin = peer[p].begin /\ r.cursor = peer[p].cursor /\ r.local
        /\ r.pending = peer[p].pending /\ r.added = peer[p].added /\ r.remote = peer[p].remote
    BY <1>4, <2>1 DEF PeerType
  <2>3. Set(p, r) BY <1>7, <2>1
  <2> DEFINE q == [stage |-> "send", of |-> p, rest |-> poll[s].rest]
  <2>4. SetPoll(s, [stage |-> "send", of |-> p, rest |-> poll[s].rest])
    BY <1>1, <1>2, <1>7, PollBecomes
  <2>5. q \in PollType
    <3>1. poll[s].rest \in SUBSET Nat BY <1>2, PollOf
    <3> QED BY <1>4, <3>1 DEF PollType
  <2>6. q.of = p /\ q.stage = "send" /\ q.rest = poll[s].rest OBVIOUS
  <2>7. SetPoll(s, q) BY <2>4
  <2> HIDE DEF q
  <2>8. poll'[s] = q /\ \A t \in Polls \ {s} : poll'[t] = poll[t]
    BY <1>4, <2>7 DEF PollsTyped, SetPoll
  <2>9. peer'[p] = r BY <1>4, <2>3 DEF PeersTyped, Set
  <2>10. Kept(p)'
    <3>1. AnswersOnce(p) /\ (p \notin spoiled => Passed(p)) BY <1>2, <1>4 DEF Kept
    <3>2. Busy(p, {"answer", "send"}) BY <1>1, <1>2 DEF Busy
    <3>3. p[1] = Answerer /\ peer[p].remote # None BY <3>1, <3>2 DEF AnswersOnce
    <3>4. ~Busy(p, {"describe"})'
      BY <1>2, <1>4, <2>5, <2>6, <2>7, BusyStays
    <3>5. AnswersOnce(p)' BY <2>2, <2>9, <3>3, <3>4 DEF AnswersOnce
    <3>6. Busy(p, {"send"})' BY <1>4, <2>5, <2>6, <2>7, BusyStays
    <3>7. Waits(p)' BY <3>6 DEF Waits
    <3>8. ASSUME p \notin spoiled' PROVE Passed(p)'
      <4>1. Passed(p) BY <1>3, <3>1, <3>8
      <4>2. \A t \in Polls : poll'[t].of = p => poll[t].of = p /\ poll'[t].rest = poll[t].rest
        BY <1>1, <2>6, <2>8
      <4> QED BY <1>4, <1>5, <2>2, <2>9, <4>1, <4>2, PassedStays
    <3> QED BY <3>5, <3>7, <3>8 DEF Kept
  <2>11. /\ r.pending \cup r.added \subseteq DOMAIN signals
         /\ r.link # "new" => r.local /\ r.remote \in Peers
         /\ r.remote # None => r.remote[1] # p[1]
         /\ r.cursor <= Len(signals)
    BY <1>4, <2>2 DEF PeersTyped, PeerFits
  <2>12. poll[s].rest # {} /\ Description(Min(poll[s].rest)) /\ poll[s].stage # "idle"
    BY <1>2, DescriptionOf
  <2> QED BY <1>1, <1>3, <1>4, <1>5, <2>2, <2>3, <2>4, <2>10, <2>11, <2>12, PollMoves
<1> QED BY <1>2, <1>6, <1>7

\* What waited for the answer is added when it is posted.
LEMMA SendsAnswer == ASSUME Inv, NEW s \in Polls, SendAnswer(s) PROVE Inv'
<1>1. PICK p : p = poll[s].of OBVIOUS
<1>2. PICK i : i = Min(poll[s].rest) OBVIOUS
<1>3. /\ poll[s].stage = "send" /\ PostSignal("answer", p)
      /\ \/ peer[p].open /\ Flush(s, peer[p], i)
         \/ ~peer[p].open /\ Set(p, Past(peer[p], i)) /\ Advance(s) /\ UNCHANGED spoiled
  BY <1>1, <1>2 DEF SendAnswer
<1>4. Silent /\ UNCHANGED <<attempt, stored, tasks, troubles>> BY DEF SendAnswer
<1>5. /\ TypeOK /\ FitInv /\ PeersTyped /\ PollsTyped /\ p \in Peers /\ p[1] = s[1]
      /\ peer[p] \in PeerType /\ PeerFits(p) /\ Kept(p) /\ poll[s].rest # {}
  BY <1>1, <1>3, Types, PollOf, DescriptionOf DEF Inv
<1>6. SignalsGrow BY <1>3, <1>5, OneMoreSignal
<1>7. CASE peer[p].open /\ Flush(s, peer[p], i)
  <2>1. AnswersOnce(p) BY <1>5, <1>7 DEF Kept
  <2>2. Busy(p, {"answer", "send"}) BY <1>1, <1>3 DEF Busy
  <2>3. peer[p].remote \in Peers /\ peer[p].remote[1] # p[1]
    BY <1>5, <2>1, <2>2 DEF AnswersOnce, PeerFits, PeerType
  <2> QED BY <1>1, <1>2, <1>3, <1>4, <1>5, <1>6, <1>7, <2>3, FlushKeeps
<1>8. CASE ~peer[p].open /\ Set(p, Past(peer[p], i)) /\ Advance(s) /\ UNCHANGED spoiled
  <2>1. /\ peer[p].pending \cup peer[p].added \subseteq DOMAIN signals
        /\ peer[p].remote # None => peer[p].remote[1] # p[1]
    BY <1>5 DEF PeersTyped, PeerFits
  <2>2. poll[s].stage # "idle" BY <1>3
  <2> QED BY <1>1, <1>2, <1>4, <1>5, <1>6, <1>8, <2>1, <2>2, PollAdvances
<1> QED BY <1>3, <1>7, <1>8

\* Whatever a poll does, the invariant holds.
LEMMA PollStepHolds == ASSUME Inv, NEW s \in Polls, PollStep(s) \/ AnswerFails(s) PROVE Inv'
BY SavesCursor, Throws, Takings, Ignoring, ReadsCandidate, Describes, Answers, SendsAnswer,
   FailsToAnswer DEF PollStep

-----------------------------------------------------------------------------
(* The timer, and the posts of a peer *)

\* A poll starts where its peer's cursor is, so it leaves nothing behind.
LEMMA StartsPoll == ASSUME Inv, NEW s \in Polls, StartPoll(s) PROVE Inv'
<1>1. PICK p : p = Current(s[1]) OBVIOUS
<1>2. /\ attempt[s[1]] > 0 /\ FreePoll(s) /\ peer[p].open
      /\ SetPoll(s, [stage |-> "next", of |-> p, rest |-> After(s[1], peer[p].cursor)])
      /\ Trouble \/ UNCHANGED troubles
  BY <1>1 DEF StartPoll
<1>3. Silent /\ UNCHANGED <<attempt, peer, signals, stored, tasks, spoiled>> BY DEF StartPoll
<1>4. TypeOK /\ FitInv /\ PeersTyped /\ PollsTyped /\ s[1] \in Devices
  BY Types, PollsOfDevices DEF Inv
<1>5. p \in Peers /\ p[1] = s[1] /\ p[2] = attempt[s[1]] BY <1>1, <1>2, <1>4, LastPeer
<1>6. poll[s] = NoPoll /\ poll[s].of = None BY <1>2, NoPollTyped DEF FreePoll
<1>7. SignalsGrow BY <1>3, <1>4, SameSignals
<1>8. PICK A : A = After(s[1], peer[p].cursor) OBVIOUS
<1>9. /\ A \subseteq DOMAIN signals /\ A \subseteq Nat
      /\ \A i \in DOMAIN signals : i \in A <=> i > peer[p].cursor /\ signals[i].from[1] # s[1]
  BY <1>7, <1>8 DEF After, SignalsGrow
<1> DEFINE r == [stage |-> "next", of |-> p, rest |-> A]
<1>10. r \in PollType BY <1>5, <1>9 DEF PollType
<1>11. r.of = p /\ r.stage = "next" /\ r.rest = A OBVIOUS
<1>12. SetPoll(s, r) BY <1>2, <1>8
<1> HIDE DEF r
<1>13. PollsTyped' /\ poll'[s] = r /\ \A t \in Polls \ {s} : poll'[t] = poll[t]
  <2>1. DOMAIN signals \subseteq DOMAIN signals' /\ r.rest \subseteq DOMAIN signals'
    BY <1>3, <1>9, <1>11
  <2> QED BY <1>4, <1>10, <1>12, <2>1, PollSet
<1>14. PeersTyped' /\ troubles' \in 0..MaxTroubles BY <1>2, <1>3, <1>4, TroubleCounts DEF PeersTyped
<1>15. \A t \in Polls : PollFits(t)'
  <2>1. ASSUME NEW t \in Polls \ {s} PROVE PollFits(t)'
    <3>1. PollFits(t) BY DEF Inv, FitInv
    <3> QED BY <1>3, <1>4, <1>7, <1>13, <3>1, PollStays DEF Started
  <2>2. PollFits(s)'
    <3>1. Started(p)' BY <1>3, <1>4, <1>5 DEF Started, TypeOK
    <3>2. \A i \in A : signals'[i].from[1] # s[1] BY <1>3, <1>9
    <3> QED BY <1>5, <1>11, <1>13, <3>1, <3>2 DEF PollFits
  <2> QED BY <2>1, <2>2
<1>16. \A q \in Peers : PeerFits(q)' BY <1>3 DEF Inv, FitInv, PeerFits
<1>17. ASSUME NEW q \in Peers, q # p PROVE Kept(q)'
  <2>1. Kept(q) BY DEF Inv, CandidateInv
  <2>2. \A t \in Polls : poll'[t] = poll[t] \/ (poll[t].of # q /\ poll'[t].of # q)
    BY <1>6, <1>11, <1>13, <1>17, PeerIs
  <2> QED BY <1>3, <1>4, <1>7, <2>1, <2>2, PeerKeeps
<1>18. Kept(p)'
  <2>1. AnswersOnce(p) /\ (p \notin spoiled => Passed(p) /\ Waits(p))
    BY <1>2, <1>5 DEF Inv, CandidateInv, Kept
  <2>2. \A K : "next" \notin K => (Busy(p, K)' <=> Busy(p, K))
    BY <1>4, <1>5, <1>6, <1>10, <1>11, <1>12, BusyStays, PeerIs
  <2>3. /\ Busy(p, {"describe"})' <=> Busy(p, {"describe"})
        /\ Busy(p, {"answer", "send"})' <=> Busy(p, {"answer", "send"})
        /\ Busy(p, {"answer"})' <=> Busy(p, {"answer"})
        /\ Busy(p, {"send"})' <=> Busy(p, {"send"})
    BY <2>2
  <2>4. AnswersOnce(p)' BY <1>3, <2>1, <2>3 DEF AnswersOnce
  <2>5. ASSUME p \notin spoiled' PROVE Passed(p)' /\ Waits(p)'
    <3>1. Passed(p) /\ Waits(p) BY <1>3, <2>1, <2>5
    <3>2. Waits(p)' BY <1>3, <2>3, <3>1 DEF Waits
    <3>3. ASSUME NEW t \in Polls, poll'[t].of = p, NEW i \in poll'[t].rest,
                 NEW j \in DOMAIN signals, Offered(p, j), j < i
          PROVE  j \in poll'[t].rest \/ Has(p, j)
      <4>1. CASE t = s
        <5>1. CASE j <= peer[p].cursor BY <3>1, <3>3, <5>1 DEF Passed
        <5>2. CASE ~(j <= peer[p].cursor)
          <6>1. j \in Nat /\ peer[p].cursor \in Nat
            BY <1>4, <1>5, <1>7 DEF SignalsGrow, PeersTyped, PeerType
          <6> QED BY <1>5, <1>9, <1>11, <1>13, <3>3, <4>1, <5>2, <6>1 DEF Offered
        <5> QED BY <5>1, <5>2
      <4>2. CASE t # s BY <1>13, <3>1, <3>3, <4>2 DEF Passed
      <4> QED BY <4>1, <4>2
    <3>4. /\ \A j \in DOMAIN signals' : j \in DOMAIN signals
          /\ \A j \in DOMAIN signals : Offered(p, j)' <=> Offered(p, j)
          /\ \A j : Has(p, j)' <=> Has(p, j)
          /\ peer'[p] = peer[p]
      BY <1>3 DEF Offered, Has
    <3>5. Passed(p)' BY <3>1, <3>3, <3>4 DEF Passed
    <3> QED BY <3>2, <3>5
  <2> QED BY <2>4, <2>5 DEF Kept
<1>19. \A q \in Peers : Kept(q)' BY <1>17, <1>18
<1>20. stored' \in [Devices -> Nat] /\ (\A d \in Devices : stored'[d] <= Len(signals'))
       /\ spoiled' \subseteq Peers
  BY <1>3, <1>4, <1>7, StoredStays DEF TypeOK
<1>21. \A q \in Peers : peer'[q] = peer[q] BY <1>3
<1> QED BY <1>3, <1>7, <1>13, <1>14, <1>15, <1>16, <1>19, <1>20, <1>21, QuietStep

\* A peer posts something, and no poll or callback is concerned.
LEMMA PostKeeps ==
  ASSUME Inv, NEW p \in Peers, NEW kind \in {"offer", "answer", "candidate"},
         PostSignal(kind, p), Silent, UNCHANGED <<attempt, poll, stored, tasks, troubles, spoiled>>,
         peer[p] # NoPeer, NEW x \in PeerType, Set(p, x), x.open = peer[p].open,
         x.link = peer[p].link, x.begin = peer[p].begin, x.cursor = peer[p].cursor,
         x.local = peer[p].local, x.remote = peer[p].remote, x.pending = peer[p].pending,
         x.added = peer[p].added
  PROVE  Inv'
<1>1. TypeOK /\ FitInv /\ PeersTyped /\ PollsTyped BY Types DEF Inv
<1>2. SignalsGrow BY <1>1, OneMoreSignal
<1>3. DOMAIN signals \subseteq DOMAIN signals' BY <1>2 DEF SignalsGrow
<1>4. PeersTyped' /\ peer'[p] = x /\ \A q \in Peers \ {p} : peer'[q] = peer[q]
  <2>1. x.pending \cup x.added \subseteq DOMAIN signals'
        /\ (x.link # "new" => x.local /\ x.remote \in Peers)
    BY <1>1, <1>3 DEF PeersTyped
  <2> QED BY <1>1, <1>3, <2>1, PeerSet
<1>5. PollsTyped' BY <1>1, <1>3 DEF PollsTyped
<1>6. \A t \in Polls : PollFits(t)'
  <2>1. SUFFICES ASSUME NEW t \in Polls PROVE PollFits(t)' OBVIOUS
  <2>2. PollFits(t) BY <1>1 DEF FitInv
  <2> QED BY <1>1, <1>2, <2>2, PollStays DEF Started
<1>7. \A q \in Peers : /\ peer'[q].open = peer[q].open /\ peer'[q].link = peer[q].link
                       /\ peer'[q].begin = peer[q].begin /\ peer'[q].cursor = peer[q].cursor
                       /\ peer'[q].local = peer[q].local /\ peer'[q].remote = peer[q].remote
                       /\ peer'[q].pending = peer[q].pending /\ peer'[q].added = peer[q].added
  BY <1>4
<1>8. \A q \in Peers : PeerFits(q)'
  <2>1. SUFFICES ASSUME NEW q \in Peers PROVE PeerFits(q)' OBVIOUS
  <2>2. PeerFits(q) /\ peer[q].cursor \in Nat BY <1>1 DEF FitInv, PeersTyped, PeerType
  <2> QED BY <1>2, <1>7, <2>2 DEF PeerFits, SignalsGrow
<1>9. \A q \in Peers : Kept(q)'
  <2>1. SUFFICES ASSUME NEW q \in Peers PROVE Kept(q)' OBVIOUS
  <2>2. Kept(q) BY DEF Inv, CandidateInv
  <2> QED BY <1>1, <1>2, <1>7, <2>2, PeerKeeps
<1>10. \A q \in Peers : ~Started(q) => peer'[q] = peer[q]
  BY <1>1, <1>4 DEF FitInv, NotYet
<1>11. troubles' \in 0..MaxTroubles /\ spoiled' \subseteq Peers BY <1>1 DEF TypeOK
<1>12. stored' \in [Devices -> Nat] /\ \A d \in Devices : stored'[d] <= Len(signals')
  BY <1>1, <1>2, StoredStays
<1> QED BY <1>2, <1>4, <1>5, <1>6, <1>7, <1>8, <1>9, <1>10, <1>11, <1>12, QuietStep

\* The offer is posted.
LEMMA SendsOffer == ASSUME Inv, NEW p \in Peers, SendOffer(p) PROVE Inv'
<1>1. peer[p] \in PeerType /\ peer[p].stage = "send" /\ PostSignal("offer", p) /\ Silent
      /\ UNCHANGED <<attempt, poll, stored, tasks, troubles, spoiled>>
  BY DEF SendOffer, Inv, TypeOK
<1>2. PICK x : x = [peer[p] EXCEPT !.stage = "done"] OBVIOUS
<1>3. /\ x \in PeerType /\ x.open = peer[p].open /\ x.link = peer[p].link
      /\ x.begin = peer[p].begin /\ x.cursor = peer[p].cursor /\ x.local = peer[p].local
      /\ x.remote = peer[p].remote /\ x.pending = peer[p].pending /\ x.added = peer[p].added
  BY <1>1, <1>2 DEF PeerType
<1>4. Set(p, x) BY <1>2 DEF SendOffer
<1>5. peer[p] # NoPeer BY <1>1 DEF NoPeer
<1> QED BY <1>1, <1>3, <1>4, <1>5, PostKeeps

\* A candidate is posted.
LEMMA PostsCandidate == ASSUME Inv, NEW p \in Peers, PostCandidate(p) PROVE Inv'
<1>1. peer[p] \in PeerType /\ peer[p].open /\ PostSignal("candidate", p) /\ Silent
      /\ UNCHANGED <<attempt, poll, stored, tasks, troubles, spoiled>>
  BY DEF PostCandidate, Inv, TypeOK
<1>2. PICK x : x = [peer[p] EXCEPT !.sent = TRUE] OBVIOUS
<1>3. /\ x \in PeerType /\ x.open = peer[p].open /\ x.link = peer[p].link
      /\ x.begin = peer[p].begin /\ x.cursor = peer[p].cursor /\ x.local = peer[p].local
      /\ x.remote = peer[p].remote /\ x.pending = peer[p].pending /\ x.added = peer[p].added
  BY <1>1, <1>2 DEF PeerType
<1>4. Set(p, x) BY <1>2 DEF PostCandidate
<1>5. peer[p] # NoPeer BY <1>1, NoPeerTyped
<1> QED BY <1>1, <1>3, <1>4, <1>5, PostKeeps

-----------------------------------------------------------------------------
(* Steps of which the status hears, or will *)

\* What a device has been told does not depend on the other device.
LEMMA DeviceStays ==
  ASSUME TypeOK, NEW d \in Devices, HasBeenTold(d), HasHeard(d),
         attempt'[d] = attempt[d], tasks'[d] = tasks[d], live'[d] = live[d], shown'[d] = shown[d],
         d \in overtaken' <=> d \in overtaken, d \in hidden' <=> d \in hidden,
         \A q \in Peers : q[1] = d => peer'[q].open = peer[q].open /\ peer'[q].link = peer[q].link
  PROVE  HasBeenTold(d)' /\ HasHeard(d)'
<1>1. attempt[d] > 0 => Current(d) \in Peers /\ Current(d)[1] = d BY LastPeer
<1>2. Current(d)' = Current(d) BY DEF Current
<1>3. \A p \in Peers : TellsOf(p) /\ p[1] = d => TellsOf(p)'
  <2> SUFFICES ASSUME NEW p \in Peers, p[1] = d, TellsOf(p) PROVE TellsOf(p)' OBVIOUS
  <2>1. \A k : IsDue(p, k)' <=> IsDue(p, k) BY DEF IsDue
  <2>2. peer'[p].link = peer[p].link OBVIOUS
  <2> QED BY <2>1, <2>2 DEF TellsOf
<1>4. HasBeenTold(d)' BY <1>1, <1>2, <1>3 DEF HasBeenTold
<1>5. HasHeard(d)' BY <1>1, <1>2 DEF HasHeard
<1> QED BY <1>4, <1>5

\* What a peer keeps of its candidates, unless it is closed.
PeerStays(q) ==
    /\ peer'[q].open =>
         /\ peer[q].open
         /\ peer'[q].begin = peer[q].begin /\ peer'[q].local = peer[q].local
         /\ peer'[q].pending = peer[q].pending /\ peer'[q].added = peer[q].added
         /\ peer'[q].remote = peer[q].remote
    /\ peer'[q].cursor = peer[q].cursor
    /\ peer'[q].remote \in {peer[q].remote, None}
    /\ ~Started(q) => peer'[q] = peer[q]

\* Such a step keeps the rest.
LEMMA StatusStep ==
  ASSUME Inv, SignalsGrow, UNCHANGED <<attempt, poll, stored, spoiled>>,
         Trouble \/ UNCHANGED troubles, StatusTyped', PeersTyped',
         tasks' \in [Devices -> Seq(TaskType)], TasksFit', StatusInv',
         \A q \in Peers : PeerStays(q)
  PROVE  Inv'
<1>1. TypeOK /\ FitInv /\ PollsTyped BY Types DEF Inv
<1>2. DOMAIN signals \subseteq DOMAIN signals' BY DEF SignalsGrow
<1>3. PollsTyped' BY <1>1, <1>2 DEF PollsTyped
<1>4. TypeOK'
  <2>1. troubles' \in 0..MaxTroubles BY <1>1, TroubleCounts
  <2>2. /\ attempt' \in [Devices -> 0..MaxAttempts] /\ stored' \in [Devices -> Nat]
        /\ spoiled' \subseteq Peers /\ signals' \in Seq(SignalType)
    BY <1>1 DEF TypeOK, SignalsGrow
  <2> QED BY <1>3, <2>1, <2>2 DEF TypeOK, PeersTyped, PollsTyped, StatusTyped
<1>5. FitInv'
  <2>1. \A x : Started(x)' <=> Started(x) BY DEF Started
  <2>2. OneOpen' BY <1>1 DEF FitInv, OneOpen, PeerStays
  <2>3. NotYet' BY <1>1, <2>1 DEF FitInv, NotYet, PeerStays
  <2>4. CursorsFit' BY <1>1, StoredStays DEF CursorsFit
  <2>5. ASSUME NEW t \in Polls PROVE PollFits(t)'
    <3>1. PollFits(t) BY <1>1 DEF FitInv
    <3> QED BY <1>1, <2>1, <3>1, PollStays
  <2>6. ASSUME NEW q \in Peers PROVE PeerFits(q)'
    <3>1. PeerFits(q) /\ peer[q].cursor \in Nat BY <1>1 DEF FitInv, TypeOK, PeerType
    <3> QED BY <3>1 DEF PeerFits, SignalsGrow, PeerStays
  <2> QED BY <2>2, <2>3, <2>4, <2>5, <2>6 DEF FitInv
<1>6. CandidateInv'
  <2> SUFFICES ASSUME NEW q \in Peers, peer'[q].open PROVE Kept(q)' BY DEF CandidateInv, Kept
  <2>1. Kept(q) BY DEF Inv, CandidateInv
  <2> QED BY <1>1, <2>1, PeerKeeps DEF PeerStays
<1> QED BY <1>4, <1>5, <1>6 DEF Inv

\* A sync says "mailbox" to the page of a device without a channel, or the page is remembered.
LEMMA SyncsEnd == ASSUME Inv, NEW d \in Devices, SyncEnd(d) \/ SyncFails(d) PROVE Inv'
<1>1. TypeOK /\ FitInv /\ StatusInv /\ PeersTyped /\ StatusTyped BY Types DEF Inv
<1>2. UNCHANGED <<attempt, peer, poll, signals, stored, live, tasks, overtaken, spoiled>>
      /\ (Trouble \/ UNCHANGED troubles)
  BY DEF SyncEnd, SyncFails
<1>3. \/ shown' = [shown EXCEPT ![d] = live[d] /\ shown[d]] /\ hidden' = hidden
      \/ shown' = [shown EXCEPT ![d] = FALSE] /\ hidden' = hidden \cup {d}
  BY DEF SyncEnd, SyncFails, Told
<1>4. /\ live \in [Devices -> BOOLEAN] /\ shown \in [Devices -> BOOLEAN] /\ hidden \subseteq Devices
  BY <1>1 DEF StatusTyped
<1>5. StatusTyped'
  <2>1. shown' \in [Devices -> BOOLEAN]
    <3>1. (live[d] /\ shown[d]) \in BOOLEAN OBVIOUS
    <3> QED BY <1>3, <1>4, <3>1
  <2>2. hidden' \subseteq Devices BY <1>3, <1>4
  <2> QED BY <1>1, <1>2, <2>1, <2>2 DEF StatusTyped
<1>6. StatusInv'
  <2> SUFFICES ASSUME NEW e \in Devices PROVE HasBeenTold(e)' /\ HasHeard(e)' BY DEF StatusInv
  <2>1. HasBeenTold(e) /\ HasHeard(e) BY <1>1 DEF StatusInv
  <2>2. HasBeenTold(e)'
    <3>1. Current(e)' = Current(e) BY <1>2 DEF Current
    <3>2. \A p, k : IsDue(p, k)' <=> IsDue(p, k) BY <1>2 DEF IsDue
    <3>3. \A p : TellsOf(p)' <=> TellsOf(p) BY <1>2, <3>2 DEF TellsOf
    <3> QED BY <1>2, <2>1, <3>1, <3>3 DEF HasBeenTold
  <2>3. HasHeard(e)'
    <3>1. Current(e)' = Current(e) BY <1>2 DEF Current
    <3>2. e \notin hidden' => shown'[e] = live[e]
      <4>1. live[e] \in BOOLEAN /\ shown[e] \in BOOLEAN BY <1>4
      <4>2. e \notin hidden => shown[e] = live[e] BY <2>1 DEF HasHeard
      <4>3. CASE e = d
        <5>1. \/ shown'[d] = (live[d] /\ shown[d]) /\ hidden' = hidden
              \/ d \in hidden'
          BY <1>3, <1>4
        <5> QED BY <4>1, <4>2, <4>3, <5>1
      <4>4. CASE e # d BY <1>3, <1>4, <4>2, <4>4
      <4> QED BY <4>3, <4>4
    <3> QED BY <1>2, <2>1, <3>1, <3>2 DEF HasHeard
  <2> QED BY <2>2, <2>3
<1>7. SignalsGrow BY <1>1, <1>2, SameSignals
<1>8. PeersTyped' /\ tasks' \in [Devices -> Seq(TaskType)] /\ TasksFit'
  BY <1>1, <1>2 DEF PeersTyped, TypeOK, FitInv, TasksFit, Started
<1>9. \A q \in Peers : PeerStays(q) BY <1>2 DEF PeerStays
<1> QED BY <1>2, <1>5, <1>6, <1>7, <1>8, <1>9, StatusStep

\* The last peer is closed when its offer fails; one that was replaced speaks out of turn.
LEMMA FailsToOffer == ASSUME Inv, NEW p \in Peers, OfferFails(p) PROVE Inv'
<1>1. TypeOK /\ FitInv /\ StatusInv /\ PeersTyped /\ StatusTyped BY Types DEF Inv
<1>2. /\ peer[p].stage = "send" /\ OnStatus(p, FALSE)
      /\ UNCHANGED <<attempt, poll, stored, tasks, spoiled>> /\ (Trouble \/ UNCHANGED troubles)
  BY DEF OfferFails
<1>3. PICK x : x = [peer[p] EXCEPT !.stage = "done"] OBVIOUS
<1>4. x \in PeerType /\ x.cursor = peer[p].cursor BY <1>1, <1>3 DEF PeersTyped, PeerType
<1>5. PICK y : y = Closed(x) OBVIOUS
<1>6. /\ y \in PeerType /\ ~y.open /\ y.link = "new" /\ y.pending = {} /\ y.added = {}
      /\ y.remote = None /\ y.cursor = peer[p].cursor
  BY <1>4, <1>5, ClosedIs
<1>7. Set(p, y) BY <1>3, <1>5 DEF OfferFails
<1>8. SignalsGrow
  <2>1. PostSignal("offer", p) \/ UNCHANGED signals BY DEF OfferFails
  <2>2. CASE PostSignal("offer", p) BY <1>1, <2>2, OneMoreSignal
  <2>3. CASE UNCHANGED signals BY <1>1, <2>3, SameSignals
  <2> QED BY <2>1, <2>2, <2>3
<1>9. PeersTyped' /\ peer'[p] = y /\ \A q \in Peers \ {p} : peer'[q] = peer[q]
  BY <1>1, <1>6, <1>7, <1>8, PeerSet DEF SignalsGrow
<1>10. /\ StatusTyped' /\ live'[p[1]] = FALSE /\ shown'[p[1]] = FALSE
       /\ \A d \in Devices \ {p[1]} : live'[d] = live[d] /\ shown'[d] = shown[d]
       /\ hidden' = hidden \ {p[1]}
       /\ overtaken' = IF p = Current(p[1]) THEN overtaken \ {p[1]} ELSE overtaken \cup {p[1]}
  BY <1>1, <1>2, StatusSet
<1>11. StatusInv'
  <2> SUFFICES ASSUME NEW d \in Devices PROVE HasBeenTold(d)' /\ HasHeard(d)' BY DEF StatusInv
  <2>1. HasBeenTold(d) /\ HasHeard(d) BY <1>1 DEF StatusInv
  <2>2. CASE d # p[1]
    <3>1. \A q \in Peers : q[1] = d => peer'[q] = peer[q] BY <1>9, <2>2
    <3>2. (d \in overtaken' <=> d \in overtaken) /\ (d \in hidden' <=> d \in hidden)
      BY <1>10, <2>2
    <3>3. attempt'[d] = attempt[d] /\ tasks'[d] = tasks[d] BY <1>2
    <3> QED BY <1>1, <1>10, <2>1, <2>2, <3>1, <3>2, <3>3, DeviceStays
  <2>3. CASE d = p[1]
    <3>1. Current(d)' = Current(d) BY <1>2 DEF Current
    <3>3. HasHeard(d)' BY <1>10, <2>3 DEF HasHeard
    <3>4. CASE p = Current(d)
      <4>1. ~peer'[Current(d)'].open BY <1>6, <1>9, <3>1, <3>4
      <4>2. HasBeenTold(d)' BY <4>1 DEF HasBeenTold
      <4> QED BY <3>3, <4>2
    <3>5. CASE p # Current(d)
      <4>1. attempt[d] > 0 => Current(d) \in Peers BY <1>1, LastPeer
      <4>2. ~live'[d] /\ d \in overtaken' BY <1>10, <2>3, <3>5
      <4>3. attempt[d] > 0 => peer'[Current(d)] = peer[Current(d)] BY <1>9, <3>5, <4>1
      <4>4. ASSUME NEW q \in Peers, q[1] = d, TellsOf(q), peer'[q] = peer[q] PROVE TellsOf(q)'
        <5>1. \A k : IsDue(q, k)' <=> IsDue(q, k) BY <1>2 DEF IsDue
        <5> QED BY <1>2, <4>2, <4>4, <5>1 DEF TellsOf
      <4>5. HasBeenTold(d)'
        <5>1. attempt[d] > 0 => Current(d)[1] = d BY <1>1, LastPeer
        <5> QED BY <1>2, <2>1, <3>1, <4>1, <4>3, <4>4, <5>1 DEF HasBeenTold
      <4> QED BY <3>3, <4>5
    <3> QED BY <3>3, <3>4, <3>5
  <2> QED BY <2>2, <2>3
<1>12. tasks' \in [Devices -> Seq(TaskType)] /\ TasksFit'
  BY <1>1, <1>2 DEF TypeOK, FitInv, TasksFit, Started
<1>13. Started(p)
  <2>1. peer[p] # NoPeer BY <1>2 DEF NoPeer
  <2> QED BY <1>1, <2>1 DEF FitInv, NotYet
<1>14. \A q \in Peers : PeerStays(q)
  <2>1. PeerStays(p) BY <1>6, <1>9, <1>13 DEF PeerStays
  <2>2. \A q \in Peers \ {p} : PeerStays(q) BY <1>9 DEF PeerStays
  <2> QED BY <2>1, <2>2
<1> QED BY <1>2, <1>8, <1>9, <1>10, <1>11, <1>12, <1>14, StatusStep

-----------------------------------------------------------------------------
(* The connection *)

\* Callbacks that become due are due after the others.
LEMMA Appending ==
  ASSUME NEW t \in Seq(TaskType), NEW late \in Seq(TaskType)
  PROVE  /\ t \o late \in Seq(TaskType) /\ Len(t) \in Nat /\ Len(late) \in Nat
         /\ DOMAIN t = 1..Len(t) /\ DOMAIN late = 1..Len(late)
         /\ DOMAIN (t \o late) = 1..(Len(t) + Len(late))
         /\ \A j \in DOMAIN t : j \in DOMAIN (t \o late) /\ (t \o late)[j] = t[j]
         /\ \A j \in DOMAIN late : /\ Len(t) + j \in DOMAIN (t \o late)
                                   /\ (t \o late)[Len(t) + j] = late[j]
         /\ \A j \in DOMAIN (t \o late) :
              \/ j \in DOMAIN t
              \/ j - Len(t) \in DOMAIN late /\ j > Len(t) /\ (t \o late)[j] = late[j - Len(t)]
OBVIOUS

\* What is due of a peer when others have become due.
LEMMA DueLater ==
  ASSUME TypeOK, NEW d \in Devices, NEW late \in Seq(TaskType), tasks'[d] = tasks[d] \o late,
         NEW p \in Peers, p[1] = d
  PROVE  \A k : IsDue(p, k)' <=> IsDue(p, k) \/ \E j \in DOMAIN late : late[j] = <<p, k>>
<1>1. PICK t \in Seq(TaskType) : t = tasks[d] BY DEF TypeOK
<1>2. PICK u : u = t \o late OBVIOUS
<1> SUFFICES ASSUME NEW k
             PROVE  IsDue(p, k)' <=> IsDue(p, k) \/ \E j \in DOMAIN late : late[j] = <<p, k>>
  OBVIOUS
<1>3. /\ IsDue(p, k) <=> \E j \in DOMAIN t : t[j] = <<p, k>>
      /\ IsDue(p, k)' <=> \E j \in DOMAIN u : u[j] = <<p, k>>
  BY <1>1, <1>2 DEF IsDue
<1>4. /\ \A j \in DOMAIN t : j \in DOMAIN u /\ u[j] = t[j]
      /\ \A j \in DOMAIN late : Len(t) + j \in DOMAIN u /\ u[Len(t) + j] = late[j]
      /\ \A j \in DOMAIN u : \/ j \in DOMAIN t
                             \/ j - Len(t) \in DOMAIN late /\ u[j] = late[j - Len(t)]
  BY <1>2, Appending
<1> QED BY <1>3, <1>4, Zenon

\* The connection of a device's last peer changes, and the callbacks say so.
LEMMA LinksChange ==
  ASSUME Inv, UNCHANGED <<attempt, poll, signals, stored, spoiled>>, Silent,
         Trouble \/ UNCHANGED troubles, PeersTyped', tasks' \in [Devices -> Seq(TaskType)],
         TasksFit', \A q \in Peers : PeerStays(q) /\ peer'[q].open = peer[q].open,
         \A d \in Devices : \/ /\ tasks'[d] = tasks[d]
                               /\ \A q \in Peers : q[1] = d => peer'[q].link = peer[q].link
                            \/ TellsOf(Current(d))'
  PROVE  Inv'
<1>1. TypeOK /\ StatusTyped /\ StatusInv BY Types DEF Inv
<1>2. StatusTyped' BY <1>1 DEF StatusTyped, Silent
<1>3. SignalsGrow BY <1>1, SameSignals
<1>4. StatusInv'
  <2> SUFFICES ASSUME NEW d \in Devices PROVE HasBeenTold(d)' /\ HasHeard(d)' BY DEF StatusInv
  <2>1. HasBeenTold(d) /\ HasHeard(d) BY <1>1 DEF StatusInv
  <2>2. HasHeard(d)'
    <3>1. Current(d)' = Current(d) BY DEF Current
    <3>2. attempt[d] > 0 => peer'[Current(d)].open = peer[Current(d)].open BY <1>1, LastPeer
    <3> QED BY <2>1, <3>1, <3>2 DEF HasHeard, Silent
  <2>3. CASE /\ tasks'[d] = tasks[d]
             /\ \A q \in Peers : q[1] = d => peer'[q].link = peer[q].link
    BY <1>1, <2>1, <2>3, DeviceStays DEF Silent
  <2>4. CASE TellsOf(Current(d))' BY <2>2, <2>4 DEF HasBeenTold
  <2> QED BY <2>3, <2>4
<1> QED BY <1>2, <1>3, <1>4, StatusStep

\* Some callbacks become due, all of the last peers of their devices.
LEMMA TasksGrow ==
  ASSUME TypeOK, FitInv, UNCHANGED attempt, tasks' \in [Devices -> Seq(TaskType)],
         \A d \in Devices : \E late \in Seq(TaskType) :
            /\ tasks'[d] = tasks[d] \o late
            /\ \A j \in DOMAIN late : late[j][1][1] = d /\ Started(late[j][1])
  PROVE  TasksFit'
<1> SUFFICES ASSUME NEW d \in Devices, NEW j \in DOMAIN tasks'[d]
             PROVE  tasks'[d][j][1][1] = d /\ Started(tasks'[d][j][1])
  BY DEF TasksFit, Started
<1>1. PICK late \in Seq(TaskType) :
        /\ tasks'[d] = tasks[d] \o late
        /\ \A i \in DOMAIN late : late[i][1][1] = d /\ Started(late[i][1])
  OBVIOUS
<1>2. tasks[d] \in Seq(TaskType) BY DEF TypeOK
<1>3. \/ j \in DOMAIN tasks[d] /\ tasks'[d][j] = tasks[d][j]
      \/ j - Len(tasks[d]) \in DOMAIN late /\ tasks'[d][j] = late[j - Len(tasks[d])]
  BY <1>1, <1>2, Appending
<1> QED BY <1>1, <1>3 DEF FitInv, TasksFit

\* One peer hears of its connection.
LEMMA LinkChanges ==
  ASSUME Inv, UNCHANGED <<attempt, poll, signals, stored, spoiled>>, Silent,
         Trouble \/ UNCHANGED troubles, NEW p \in Peers, peer[p].open, peer[p].link # "new",
         NEW value \in {"up", "down", "ended"}, Link(p, value),
         NEW late \in Seq(TaskType), Due(p, late), \A j \in DOMAIN late : late[j][1] = p,
         peer'[p].link = value /\ tasks'[p[1]] = tasks[p[1]] \o late => TellsOf(p)'
  PROVE  Inv'
<1>1. TypeOK /\ FitInv /\ PeersTyped BY Types DEF Inv
<1>2. p = Current(p[1]) /\ attempt[p[1]] > 0 /\ p[1] \in Devices /\ Started(p)
  <2>1. p = Current(p[1]) /\ attempt[p[1]] > 0 /\ p[1] \in Devices BY <1>1, OpenIsLast, PeerIs
  <2>2. Started(p)
    <3>1. peer[p] # NoPeer BY NoPeerTyped
    <3> QED BY <1>1, <3>1 DEF FitInv, NotYet
  <2> QED BY <2>1, <2>2
<1>3. PICK x : x = [peer[p] EXCEPT !.link = value] OBVIOUS
<1>4. /\ x \in PeerType /\ x.open = peer[p].open /\ x.link = value
      /\ x.begin = peer[p].begin /\ x.cursor = peer[p].cursor /\ x.local = peer[p].local
      /\ x.remote = peer[p].remote /\ x.pending = peer[p].pending /\ x.added = peer[p].added
  <2>1. peer[p] \in PeerType BY <1>1 DEF PeersTyped
  <2>2. x \in PeerType BY <1>3, <2>1 DEF PeerType
  <2> QED BY <1>3, <2>1, <2>2 DEF PeerType
<1>5. Set(p, x) BY <1>3 DEF Link
<1>6. PeersTyped' /\ peer'[p] = x /\ \A q \in Peers \ {p} : peer'[q] = peer[q]
  <2>1. x.pending \cup x.added \subseteq DOMAIN signals'
        /\ (x.link # "new" => x.local /\ x.remote \in Peers)
    BY <1>1, <1>4 DEF PeersTyped
  <2> QED BY <1>1, <1>4, <1>5, <2>1, PeerSet
<1>7. \A q \in Peers : PeerStays(q) /\ peer'[q].open = peer[q].open
  <2>1. PeerStays(p) /\ peer'[p].open = peer[p].open BY <1>2, <1>4, <1>6 DEF PeerStays
  <2>2. \A q \in Peers \ {p} : PeerStays(q) /\ peer'[q].open = peer[q].open
    BY <1>6 DEF PeerStays
  <2> QED BY <2>1, <2>2
<1>8. tasks \in [Devices -> Seq(TaskType)] BY <1>1 DEF TypeOK
<1>9. tasks[p[1]] \o late \in Seq(TaskType) BY <1>2, <1>8, Appending
<1>10. /\ tasks' \in [Devices -> Seq(TaskType)] /\ tasks'[p[1]] = tasks[p[1]] \o late
       /\ \A d \in Devices \ {p[1]} : tasks'[d] = tasks[d]
  BY <1>2, <1>8, <1>9 DEF Due
<1>11. TasksFit'
  <2>1. \A d \in Devices \ {p[1]} : tasks'[d] = tasks[d] \o <<>> BY <1>8, <1>10
  <2>2. <<>> \in Seq(TaskType) /\ DOMAIN <<>> = {} OBVIOUS
  <2>3. \A d \in Devices : \E l \in Seq(TaskType) :
            /\ tasks'[d] = tasks[d] \o l
            /\ \A j \in DOMAIN l : l[j][1][1] = d /\ Started(l[j][1])
    <3> SUFFICES ASSUME NEW d \in Devices
                 PROVE  \E l \in Seq(TaskType) :
                           /\ tasks'[d] = tasks[d] \o l
                           /\ \A j \in DOMAIN l : l[j][1][1] = d /\ Started(l[j][1])
      OBVIOUS
    <3>1. CASE d = p[1] BY <1>2, <1>10, <3>1
    <3>2. CASE d # p[1] BY <2>1, <2>2, <3>2
    <3> QED BY <3>1, <3>2
  <2> QED BY <1>1, <1>10, <2>3, TasksGrow
<1>12. TellsOf(p)' BY <1>4, <1>6, <1>10
<1>13. Current(p[1])' = p BY <1>2 DEF Current
<1>14. \A d \in Devices : \/ /\ tasks'[d] = tasks[d]
                             /\ \A q \in Peers : q[1] = d => peer'[q].link = peer[q].link
                          \/ TellsOf(Current(d))'
  <2> SUFFICES ASSUME NEW d \in Devices
               PROVE  \/ /\ tasks'[d] = tasks[d]
                         /\ \A q \in Peers : q[1] = d => peer'[q].link = peer[q].link
                      \/ TellsOf(Current(d))'
    OBVIOUS
  <2>1. CASE d = p[1] BY <1>12, <1>13, <2>1
  <2>2. CASE d # p[1] BY <1>6, <1>10, <2>2
  <2> QED BY <2>1, <2>2
<1> QED BY <1>6, <1>7, <1>10, <1>11, <1>14, LinksChange

\* Callbacks of a peer that is open.
LEMMA TasksOf ==
  ASSUME NEW p \in Peers
  PROVE  /\ <<<<p, "open">>>> \in Seq(TaskType) /\ <<<<p, "state">>>> \in Seq(TaskType)
         /\ <<<<p, "state">>, <<p, "close">>>> \in Seq(TaskType)
BY DEF TaskType

\* The peer is told that its connection is down after whatever it is due.
LEMMA Drops == ASSUME Inv, NEW p \in Peers, LinkDrops(p) PROVE Inv'
<1>1. /\ UNCHANGED <<attempt, poll, signals, stored, spoiled>> /\ Silent /\ Trouble
      /\ peer[p].open /\ peer[p].link = "up" /\ Link(p, "down") /\ Due(p, <<<<p, "state">>>>)
  BY DEF LinkDrops
<1>2. TypeOK /\ FitInv /\ StatusInv BY DEF Inv
<1>3. p = Current(p[1]) /\ attempt[p[1]] > 0 /\ p[1] \in Devices BY <1>1, <1>2, OpenIsLast, PeerIs
<1>4. TellsOf(p) BY <1>1, <1>2, <1>3 DEF StatusInv, HasBeenTold
<1>5. PICK late \in Seq(TaskType) : late = <<<<p, "state">>>> BY TasksOf
<1>6. DOMAIN late = {1} /\ late[1] = <<p, "state">> BY <1>5
<1>7. ASSUME peer'[p].link = "down", tasks'[p[1]] = tasks[p[1]] \o late PROVE TellsOf(p)'
  <2>1. \A k : IsDue(p, k)' <=> IsDue(p, k) \/ \E j \in DOMAIN late : late[j] = <<p, k>>
    BY <1>2, <1>3, <1>7, DueLater
  <2>2. \A k : IsDue(p, k)' <=> IsDue(p, k) \/ k = "state" BY <1>6, <2>1
  <2>3. ~IsDue(p, "close")' BY <1>1, <1>4, <2>2 DEF TellsOf
  <2>4. IsDue(p, "state")' BY <2>2
  <2>5. PICK t \in Seq(TaskType) : t = tasks[p[1]] BY <1>2, <1>3 DEF TypeOK
  <2>6. PICK u : u = t \o late OBVIOUS
  <2>7. \A j \in DOMAIN u : u[j] = <<p, "open">> =>
           \E k \in DOMAIN u : j < k /\ u[k] = <<p, "state">>
    <3> SUFFICES ASSUME NEW j \in DOMAIN u, u[j] = <<p, "open">>
                 PROVE  \E k \in DOMAIN u : j < k /\ u[k] = <<p, "state">>
      OBVIOUS
    <3>1. /\ DOMAIN u = 1..(Len(t) + Len(late)) /\ DOMAIN t = 1..Len(t) /\ Len(t) \in Nat
          /\ Len(t) + 1 \in DOMAIN u /\ u[Len(t) + 1] = <<p, "state">>
          /\ j \in DOMAIN t \/ u[j] = <<p, "state">>
      BY <1>6, <2>6, Appending
    <3>2. <<p, "state">> # <<p, "open">> OBVIOUS
    <3>3. j \in 1..Len(t) BY <3>1, <3>2
    <3>4. j < Len(t) + 1 BY <3>1, <3>3
    <3> QED BY <3>1, <3>4
  <2>8. tasks'[p[1]] = u BY <1>7, <2>5, <2>6
  <2>9. \A j \in DOMAIN tasks'[p[1]] : tasks'[p[1]][j] = <<p, "open">> =>
           \E k \in DOMAIN tasks'[p[1]] : j < k /\ tasks'[p[1]][k] = <<p, "state">>
    BY <2>7, <2>8, Zenon
  <2> QED BY <1>7, <2>3, <2>4, <2>9 DEF TellsOf
<1>8. Due(p, late) /\ \A j \in DOMAIN late : late[j][1] = p BY <1>1, <1>5, <1>6
<1>9. peer[p].link # "new" BY <1>1
<1> QED BY <1>1, <1>7, <1>8, <1>9, LinkChanges

\* It is told so when the way is found again.
LEMMA Recovers == ASSUME Inv, NEW p \in Peers, LinkRecovers(p) PROVE Inv'
<1>1. /\ UNCHANGED <<attempt, poll, signals, stored, spoiled, troubles>> /\ Silent
      /\ peer[p].open /\ peer[p].link = "down" /\ Link(p, "up") /\ Due(p, <<<<p, "state">>>>)
  BY DEF LinkRecovers
<1>2. TypeOK /\ FitInv /\ StatusInv BY DEF Inv
<1>3. p = Current(p[1]) /\ attempt[p[1]] > 0 /\ p[1] \in Devices BY <1>1, <1>2, OpenIsLast, PeerIs
<1>4. TellsOf(p) BY <1>1, <1>2, <1>3 DEF StatusInv, HasBeenTold
<1>5. PICK late \in Seq(TaskType) : late = <<<<p, "state">>>> BY TasksOf
<1>6. DOMAIN late = {1} /\ late[1] = <<p, "state">> BY <1>5
<1>7. ASSUME peer'[p].link = "up", tasks'[p[1]] = tasks[p[1]] \o late PROVE TellsOf(p)'
  <2>1. \A k : IsDue(p, k)' <=> IsDue(p, k) \/ \E j \in DOMAIN late : late[j] = <<p, k>>
    BY <1>2, <1>3, <1>7, DueLater
  <2>2. \A k : IsDue(p, k)' <=> IsDue(p, k) \/ k = "state" BY <1>6, <2>1
  <2>3. ~IsDue(p, "close")' BY <1>1, <1>4, <2>2 DEF TellsOf
  <2>4. IsDue(p, "state")' BY <2>2
  <2> QED BY <1>7, <2>3, <2>4 DEF TellsOf
<1>8. Due(p, late) /\ \A j \in DOMAIN late : late[j][1] = p BY <1>1, <1>5, <1>6
<1>9. peer[p].link # "new" BY <1>1
<1> QED BY <1>1, <1>7, <1>8, <1>9, LinkChanges

\* It is told so when the way is lost for good.
LEMMA Ends == ASSUME Inv, NEW p \in Peers, LinkEnds(p) PROVE Inv'
<1>1. /\ UNCHANGED <<attempt, poll, signals, stored, spoiled>> /\ Silent
      /\ Trouble \/ UNCHANGED troubles
      /\ peer[p].open /\ peer[p].link \in {"up", "down"} /\ Link(p, "ended")
      /\ Due(p, <<<<p, "state">>, <<p, "close">>>>)
  BY DEF LinkEnds
<1>2. TypeOK /\ FitInv BY DEF Inv
<1>3. p[1] \in Devices BY PeerIs
<1>4. PICK late \in Seq(TaskType) : late = <<<<p, "state">>, <<p, "close">>>> BY TasksOf
<1>5. DOMAIN late = {1, 2} /\ late[1] = <<p, "state">> /\ late[2] = <<p, "close">> BY <1>4
<1>6. ASSUME peer'[p].link = "ended", tasks'[p[1]] = tasks[p[1]] \o late PROVE TellsOf(p)'
  <2>1. \A k : IsDue(p, k)' <=> IsDue(p, k) \/ \E j \in DOMAIN late : late[j] = <<p, k>>
    BY <1>2, <1>3, <1>6, DueLater
  <2>2. IsDue(p, "state")' BY <1>5, <2>1
  <2> QED BY <1>6, <2>2 DEF TellsOf
<1>7. Due(p, late) BY <1>1, <1>4
<1>8. \A j \in DOMAIN late : late[j][1] = p BY <1>5
<1>9. peer[p].link # "new" BY <1>1
<1> QED BY <1>1, <1>6, <1>7, <1>8, <1>9, LinkChanges

\* Both sides are told that there is a channel.
LEMMA GoesUp == ASSUME Inv, NEW p \in Peers, NEW q \in Peers, LinkUp(p, q) PROVE Inv'
<1>1. /\ UNCHANGED <<attempt, poll, signals, stored, spoiled, troubles>> /\ Silent
      /\ p[1] = Caller /\ q[1] = Answerer /\ Matched(p, q)
      /\ peer[p].link = "new" /\ peer[q].link = "new"
      /\ peer' = [peer EXCEPT ![p].link = "up", ![q].link = "up"]
      /\ tasks' = [d \in Devices |-> LET x == IF d = Caller THEN p ELSE q IN
                                     tasks[d] \o <<<<x, "open">>>>]
  BY DEF LinkUp
<1>2. TypeOK /\ FitInv /\ PeersTyped /\ StatusInv BY Types DEF Inv
<1>3. Caller # Answerer /\ Devices = {Caller, Answerer} BY DEF Caller, Answerer, Devices
<1>4. \A x \in {p, q} : peer[x].open /\ peer[x].local /\ peer[x].remote \in Peers
  BY <1>1 DEF Matched
<1>5. \A x \in {p, q} : x = Current(x[1]) /\ attempt[x[1]] > 0 /\ x[1] \in Devices /\ Started(x)
  <2>1. SUFFICES ASSUME NEW x \in {p, q}
                 PROVE  x = Current(x[1]) /\ attempt[x[1]] > 0 /\ x[1] \in Devices /\ Started(x)
    OBVIOUS
  <2>2. x = Current(x[1]) /\ attempt[x[1]] > 0 /\ x[1] \in Devices
    BY <1>2, <1>4, OpenIsLast, PeerIs
  <2>3. peer[x] # NoPeer BY <1>4, NoPeerTyped
  <2> QED BY <1>2, <2>2, <2>3 DEF FitInv, NotYet
<1>6. \A x \in Peers : /\ peer'[x] \in PeerType /\ peer'[x].open = peer[x].open
                       /\ peer'[x].begin = peer[x].begin /\ peer'[x].cursor = peer[x].cursor
                       /\ peer'[x].local = peer[x].local /\ peer'[x].remote = peer[x].remote
                       /\ peer'[x].pending = peer[x].pending /\ peer'[x].added = peer[x].added
                       /\ peer'[x].link = IF x \in {p, q} THEN "up" ELSE peer[x].link
  <2> SUFFICES ASSUME NEW x \in Peers
               PROVE  /\ peer'[x] \in PeerType /\ peer'[x].open = peer[x].open
                      /\ peer'[x].begin = peer[x].begin /\ peer'[x].cursor = peer[x].cursor
                      /\ peer'[x].local = peer[x].local /\ peer'[x].remote = peer[x].remote
                      /\ peer'[x].pending = peer[x].pending /\ peer'[x].added = peer[x].added
                      /\ peer'[x].link = IF x \in {p, q} THEN "up" ELSE peer[x].link
    OBVIOUS
  <2>1. p # q BY <1>1, <1>3
  <2>2. peer[x] \in PeerType BY <1>2 DEF PeersTyped
  <2>3. peer'[x] = IF x \in {p, q} THEN [peer[x] EXCEPT !.link = "up"] ELSE peer[x]
    BY <1>1, <1>2, <2>1 DEF PeersTyped
  <2>4. peer'[x] \in PeerType BY <2>2, <2>3 DEF PeerType
  <2> QED BY <2>2, <2>3, <2>4 DEF PeerType
<1>7. \A x \in Peers \ {p, q} : peer'[x] = peer[x] BY <1>1, <1>2 DEF PeersTyped
<1>8. PeersTyped'
  <2>1. peer' \in [Peers -> PeerType]
    <3>1. DOMAIN peer' = Peers /\ peer' = [x \in Peers |-> peer'[x]] BY <1>1, <1>2 DEF PeersTyped
    <3> QED BY <1>6, <3>1
  <2>2. \A x \in Peers : peer'[x].pending \cup peer'[x].added \subseteq DOMAIN signals'
    BY <1>1, <1>2, <1>6 DEF PeersTyped
  <2>3. \A x \in Peers : peer'[x].link # "new" => peer'[x].local /\ peer'[x].remote \in Peers
    BY <1>2, <1>4, <1>6 DEF PeersTyped
  <2> QED BY <2>1, <2>2, <2>3 DEF PeersTyped
<1>9. \A x \in Peers : PeerStays(x) /\ peer'[x].open = peer[x].open
  BY <1>5, <1>6, <1>7 DEF PeerStays
<1>10. \A x \in {p, q} : \E late \in Seq(TaskType) :
          /\ late = <<<<x, "open">>>> /\ tasks'[x[1]] = tasks[x[1]] \o late
  <2>1. tasks'[p[1]] = tasks[p[1]] \o <<<<p, "open">>>> BY <1>1, <1>3
  <2>2. tasks'[q[1]] = tasks[q[1]] \o <<<<q, "open">>>> BY <1>1, <1>3
  <2> QED BY <2>1, <2>2, TasksOf
<1>11. \A d \in Devices : \E x \in {p, q} : x[1] = d BY <1>1, <1>3
<1>12. tasks' \in [Devices -> Seq(TaskType)]
  <2>1. \A d \in Devices : tasks'[d] \in Seq(TaskType)
    <3> SUFFICES ASSUME NEW d \in Devices PROVE tasks'[d] \in Seq(TaskType) OBVIOUS
    <3>1. PICK x \in {p, q} : x[1] = d BY <1>11
    <3>2. PICK late \in Seq(TaskType) : tasks'[d] = tasks[d] \o late BY <1>10, <3>1
    <3>3. tasks[d] \in Seq(TaskType) BY <1>2 DEF TypeOK
    <3> QED BY <3>2, <3>3, Appending
  <2>2. tasks' = [d \in Devices |-> tasks'[d]] BY <1>1
  <2> QED BY <2>1, <2>2
<1>13. TasksFit'
  <2>1. \A d \in Devices : \E late \in Seq(TaskType) :
            /\ tasks'[d] = tasks[d] \o late
            /\ \A j \in DOMAIN late : late[j][1][1] = d /\ Started(late[j][1])
    <3> SUFFICES ASSUME NEW d \in Devices
                 PROVE  \E late \in Seq(TaskType) :
                          /\ tasks'[d] = tasks[d] \o late
                          /\ \A j \in DOMAIN late : late[j][1][1] = d /\ Started(late[j][1])
      OBVIOUS
    <3>1. PICK x \in {p, q} : x[1] = d BY <1>11
    <3>2. PICK late \in Seq(TaskType) : late = <<<<x, "open">>>> /\ tasks'[d] = tasks[d] \o late
      BY <1>10, <3>1
    <3>3. DOMAIN late = {1} /\ late[1][1] = x BY <3>2
    <3> QED BY <1>5, <3>1, <3>2, <3>3
  <2> QED BY <1>1, <1>2, <1>12, <2>1, TasksGrow
<1>14. \A d \in Devices : TellsOf(Current(d))'
  <2> SUFFICES ASSUME NEW d \in Devices PROVE TellsOf(Current(d))' OBVIOUS
  <2>1. PICK x \in {p, q} : x[1] = d BY <1>11
  <2>2. PICK late \in Seq(TaskType) : late = <<<<x, "open">>>> /\ tasks'[d] = tasks[d] \o late
    BY <1>10, <2>1
  <2>3. DOMAIN late = {1} /\ late[1] = <<x, "open">> BY <2>2
  <2>4. x \in Peers /\ x = Current(d) /\ attempt[d] > 0 /\ peer[x].open /\ peer[x].link = "new"
    BY <1>1, <1>4, <1>5, <2>1
  <2>5. \A k : IsDue(x, k)' <=> IsDue(x, k) \/ \E j \in DOMAIN late : late[j] = <<x, k>>
    BY <1>2, <2>1, <2>2, <2>4, DueLater
  <2>6. TellsOf(x) BY <1>2, <2>4 DEF StatusInv, HasBeenTold
  <2>7. IsDue(x, "open")' BY <2>3, <2>5
  <2>8. ~IsDue(x, "close")' BY <2>3, <2>4, <2>5, <2>6 DEF TellsOf
  <2>9. peer'[x].link = "up" BY <1>6, <2>4
  <2>10. TellsOf(x)' BY <2>7, <2>8, <2>9 DEF TellsOf
  <2>11. Current(d)' = x BY <1>1, <2>4 DEF Current
  <2> QED BY <2>10, <2>11
<1> QED BY <1>1, <1>8, <1>9, <1>12, <1>13, <1>14, LinksChange

-----------------------------------------------------------------------------
(* Callbacks *)

\* The first callback that is due is gone, and the others are as they were.
LEMMA Tailed ==
  ASSUME NEW t \in Seq(TaskType), t # <<>>
  PROVE  /\ Tail(t) \in Seq(TaskType) /\ Len(t) \in Nat /\ Len(t) > 0 /\ Head(t) = t[1]
         /\ Head(t) \in TaskType /\ 1 \in DOMAIN t
         /\ DOMAIN t = 1..Len(t) /\ DOMAIN Tail(t) = 1..(Len(t) - 1)
         /\ \A j \in DOMAIN Tail(t) : j + 1 \in DOMAIN t /\ Tail(t)[j] = t[j + 1]
         /\ \A j \in DOMAIN t : j # 1 => j - 1 \in DOMAIN Tail(t) /\ Tail(t)[j - 1] = t[j]
OBVIOUS

\* What is due after that.
LEMMA DueNow ==
  ASSUME TypeOK, NEW d \in Devices, tasks[d] # <<>>, tasks'[d] = Tail(tasks[d]),
         NEW q \in Peers, q[1] = d
  PROVE  /\ \A k : IsDue(q, k)' => IsDue(q, k)
         /\ \A k : IsDue(q, k) /\ Head(tasks[d]) # <<q, k>> => IsDue(q, k)'
         /\ \A k : Head(tasks[d]) = <<q, k>> => IsDue(q, k)
<1>1. PICK t \in Seq(TaskType) : t = tasks[d] BY DEF TypeOK
<1>2. PICK u : u = Tail(t) OBVIOUS
<1> SUFFICES ASSUME NEW k
             PROVE  /\ IsDue(q, k)' => IsDue(q, k)
                    /\ IsDue(q, k) /\ t[1] # <<q, k>> => IsDue(q, k)'
                    /\ t[1] = <<q, k>> => IsDue(q, k)
  BY <1>1, Tailed
<1>3. /\ IsDue(q, k) <=> \E j \in DOMAIN t : t[j] = <<q, k>>
      /\ IsDue(q, k)' <=> \E j \in DOMAIN u : u[j] = <<q, k>>
  BY <1>1, <1>2 DEF IsDue
<1>4. /\ 1 \in DOMAIN t
      /\ \A j \in DOMAIN u : j + 1 \in DOMAIN t /\ u[j] = t[j + 1]
      /\ \A j \in DOMAIN t : j # 1 => j - 1 \in DOMAIN u /\ u[j - 1] = t[j]
  BY <1>1, <1>2, Tailed
<1>5. IsDue(q, k)' => IsDue(q, k) BY <1>3, <1>4
<1>6. ASSUME IsDue(q, k), t[1] # <<q, k>> PROVE IsDue(q, k)'
  <2>1. PICK j \in DOMAIN t : t[j] = <<q, k>> BY <1>3, <1>6
  <2>2. j - 1 \in DOMAIN u /\ u[j - 1] = <<q, k>> BY <1>4, <1>6, <2>1
  <2> QED BY <1>3, <2>2
<1>7. t[1] = <<q, k>> => IsDue(q, k) BY <1>3, <1>4
<1> QED BY <1>5, <1>6, <1>7

\* A callback that says that there is a channel comes before one that reads the state.
LEMMA OrderNow ==
  ASSUME TypeOK, NEW d \in Devices, tasks[d] # <<>>, tasks'[d] = Tail(tasks[d]), NEW q,
         \A j \in DOMAIN tasks[d] : tasks[d][j] = <<q, "open">> =>
            \E k \in DOMAIN tasks[d] : j < k /\ tasks[d][k] = <<q, "state">>
  PROVE  /\ \A j \in DOMAIN tasks'[d] : tasks'[d][j] = <<q, "open">> =>
              \E k \in DOMAIN tasks'[d] : j < k /\ tasks'[d][k] = <<q, "state">>
         /\ Head(tasks[d]) = <<q, "open">> =>
              \E k \in DOMAIN tasks'[d] : tasks'[d][k] = <<q, "state">>
<1>1. PICK t \in Seq(TaskType) : t = tasks[d] BY DEF TypeOK
<1>2. PICK u : u = Tail(t) OBVIOUS
<1>3. tasks'[d] = u BY <1>1, <1>2
<1>4. \A j \in DOMAIN t : t[j] = <<q, "open">> => \E k \in DOMAIN t : j < k /\ t[k] = <<q, "state">>
  BY <1>1
<1>5. /\ Len(t) \in Nat /\ Head(t) = t[1] /\ 1 \in DOMAIN t /\ DOMAIN t = 1..Len(t)
      /\ DOMAIN u = 1..(Len(t) - 1)
      /\ \A j \in DOMAIN u : j + 1 \in DOMAIN t /\ u[j] = t[j + 1]
      /\ \A j \in DOMAIN t : j # 1 => j - 1 \in DOMAIN u /\ u[j - 1] = t[j]
  BY <1>1, <1>2, Tailed
<1>6. ASSUME NEW j \in DOMAIN u, u[j] = <<q, "open">>
      PROVE  \E k \in DOMAIN u : j < k /\ u[k] = <<q, "state">>
  <2>1. j + 1 \in DOMAIN t /\ t[j + 1] = <<q, "open">> BY <1>5, <1>6
  <2>2. PICK k \in DOMAIN t : j + 1 < k /\ t[k] = <<q, "state">> BY <1>4, <2>1
  <2>3. j \in Int /\ k \in Int /\ j >= 1 BY <1>5
  <2>4. k # 1 /\ j < k - 1 BY <2>2, <2>3
  <2>5. k - 1 \in DOMAIN u /\ u[k - 1] = <<q, "state">> BY <1>5, <2>2, <2>4
  <2> QED BY <2>4, <2>5
<1>7. ASSUME t[1] = <<q, "open">> PROVE \E k \in DOMAIN u : u[k] = <<q, "state">>
  <2>1. PICK k \in DOMAIN t : 1 < k /\ t[k] = <<q, "state">> BY <1>4, <1>5, <1>7
  <2>2. k # 1 BY <1>5, <2>1
  <2> QED BY <1>5, <2>1, <2>2
<1>8. /\ \A j \in DOMAIN u : u[j] = <<q, "open">> =>
           \E k \in DOMAIN u : j < k /\ u[k] = <<q, "state">>
      /\ Head(t) = <<q, "open">> => \E k \in DOMAIN u : u[k] = <<q, "state">>
  BY <1>5, <1>6, <1>7
<1> QED BY <1>1, <1>3, <1>8, Zenon

\* What the device has been told after a callback of which it hears nothing.
LEMMA ToldNothing ==
  ASSUME TypeOK, NEW d \in Devices, tasks[d] # <<>>, tasks'[d] = Tail(tasks[d]),
         NEW c \in Peers, c[1] = d, TellsOf(c), UNCHANGED peer,
         live'[d] = live[d], d \in overtaken => d \in overtaken',
         Head(tasks[d])[1] # c \/ (Head(tasks[d])[2] = "open" /\ peer[c].link = "ended")
  PROVE  TellsOf(c)'
<1>1. Head(tasks[d]) # <<c, "state">> /\ Head(tasks[d]) # <<c, "close">>
      /\ (peer[c].link # "ended" => Head(tasks[d]) # <<c, "open">>)
  OBVIOUS
<1>2. /\ IsDue(c, "state") <=> IsDue(c, "state")'
      /\ IsDue(c, "close") <=> IsDue(c, "close")'
      /\ IsDue(c, "open")' => IsDue(c, "open")
      /\ peer[c].link # "ended" => (IsDue(c, "open") <=> IsDue(c, "open")')
  BY <1>1, DueNow
<1>3. peer[c].link = "down" =>
        \A j \in DOMAIN tasks'[d] : tasks'[d][j] = <<c, "open">> =>
           \E k \in DOMAIN tasks'[d] : j < k /\ tasks'[d][k] = <<c, "state">>
  <2> SUFFICES ASSUME peer[c].link = "down"
               PROVE  \A j \in DOMAIN tasks'[d] : tasks'[d][j] = <<c, "open">> =>
                        \E k \in DOMAIN tasks'[d] : j < k /\ tasks'[d][k] = <<c, "state">>
    OBVIOUS
  <2>1. \A j \in DOMAIN tasks[d] : tasks[d][j] = <<c, "open">> =>
           \E k \in DOMAIN tasks[d] : j < k /\ tasks[d][k] = <<c, "state">>
    BY DEF TellsOf
  <2> QED BY <2>1, OrderNow
<1> QED BY <1>2, <1>3 DEF TellsOf

\* What it has been told after it has heard that there is no channel.
LEMMA ToldNone ==
  ASSUME TypeOK, NEW d \in Devices, tasks[d] # <<>>, tasks'[d] = Tail(tasks[d]),
         NEW c \in Peers, c[1] = d, TellsOf(c), UNCHANGED peer, ~live'[d],
         \/ Head(tasks[d])[1] # c /\ d \in overtaken'
         \/ Head(tasks[d]) = <<c, "close">>
         \/ Head(tasks[d]) = <<c, "state">> /\ peer[c].link # "up"
  PROVE  TellsOf(c)'
<1>1. \A k : IsDue(c, k)' => IsDue(c, k) BY DueNow
<1>2. Head(tasks[d]) = <<c, "close">> => IsDue(c, "close") BY DueNow
<1>3. peer[c].link = "up" => d \in overtaken' BY <1>2 DEF TellsOf
<1>4. peer[c].link = "down" =>
        \A j \in DOMAIN tasks'[d] : tasks'[d][j] = <<c, "open">> =>
           \E k \in DOMAIN tasks'[d] : j < k /\ tasks'[d][k] = <<c, "state">>
  <2> SUFFICES ASSUME peer[c].link = "down"
               PROVE  \A j \in DOMAIN tasks'[d] : tasks'[d][j] = <<c, "open">> =>
                        \E k \in DOMAIN tasks'[d] : j < k /\ tasks'[d][k] = <<c, "state">>
    OBVIOUS
  <2>1. \A j \in DOMAIN tasks[d] : tasks[d][j] = <<c, "open">> =>
           \E k \in DOMAIN tasks[d] : j < k /\ tasks[d][k] = <<c, "state">>
    BY DEF TellsOf
  <2> QED BY <2>1, OrderNow
<1> QED BY <1>1, <1>3, <1>4 DEF TellsOf

\* What it has been told when it has heard that there is a channel.
LEMMA ToldChannel ==
  ASSUME TypeOK, NEW d \in Devices, tasks[d] # <<>>, tasks'[d] = Tail(tasks[d]),
         NEW c \in Peers, c[1] = d, TellsOf(c), UNCHANGED peer, live'[d],
         \/ Head(tasks[d]) = <<c, "open">> /\ peer[c].link # "ended"
         \/ Head(tasks[d]) = <<c, "state">> /\ peer[c].link = "up"
  PROVE  TellsOf(c)'
<1>1. \A k : IsDue(c, k)' => IsDue(c, k) BY DueNow
<1>2. peer[c].link # "new"
  <2>1. Head(tasks[d]) = <<c, "open">> => IsDue(c, "open") BY DueNow
  <2> QED BY <2>1 DEF TellsOf
<1>3. peer[c].link = "down" =>
        /\ IsDue(c, "state")'
        /\ \A j \in DOMAIN tasks'[d] : tasks'[d][j] = <<c, "open">> =>
             \E k \in DOMAIN tasks'[d] : j < k /\ tasks'[d][k] = <<c, "state">>
  <2> SUFFICES ASSUME peer[c].link = "down"
               PROVE  /\ IsDue(c, "state")'
                      /\ \A j \in DOMAIN tasks'[d] : tasks'[d][j] = <<c, "open">> =>
                           \E k \in DOMAIN tasks'[d] : j < k /\ tasks'[d][k] = <<c, "state">>
    OBVIOUS
  <2>1. \A j \in DOMAIN tasks[d] : tasks[d][j] = <<c, "open">> =>
           \E k \in DOMAIN tasks[d] : j < k /\ tasks[d][k] = <<c, "state">>
    BY DEF TellsOf
  <2>2. Head(tasks[d]) = <<c, "open">> OBVIOUS
  <2>3. \E k \in DOMAIN tasks'[d] : tasks'[d][k] = <<c, "state">> BY <2>1, <2>2, OrderNow
  <2> QED BY <2>1, <2>3, OrderNow DEF IsDue
<1>4. peer[c].link \in {"up", "down", "ended", "new"} BY DEF TypeOK, PeerType
<1>5. peer[c].link # "ended" OBVIOUS
<1> QED BY <1>1, <1>2, <1>3, <1>4, <1>5 DEF TellsOf

\* A callback of the last peer tells the state it has; of a closed one, only that there is none.
LEMMA CallsBack == ASSUME Inv, NEW d \in Devices, Callback(d) PROVE Inv'
<1>1. TypeOK /\ FitInv /\ StatusInv /\ PeersTyped /\ StatusTyped BY Types DEF Inv
<1>2. PICK p : p = Head(tasks[d])[1] OBVIOUS
<1>3. PICK kind : kind = Head(tasks[d])[2] OBVIOUS
<1>4. /\ tasks[d] # <<>> /\ tasks' = [tasks EXCEPT ![d] = Tail(@)]
      /\ \/ kind = "state" /\ OnStateChange(p)
         \/ kind = "open" /\ OnOpen(p)
         \/ kind = "close" /\ OnStatus(p, FALSE)
      /\ UNCHANGED <<attempt, peer, poll, signals, stored, troubles, spoiled>>
  BY <1>2, <1>3 DEF Callback
<1>5. tasks \in [Devices -> Seq(TaskType)] /\ tasks[d] \in Seq(TaskType) BY <1>1 DEF TypeOK
<1>6. /\ Tail(tasks[d]) \in Seq(TaskType) /\ Head(tasks[d]) \in TaskType
      /\ 1 \in DOMAIN tasks[d] /\ Head(tasks[d]) = tasks[d][1]
      /\ \A j \in DOMAIN Tail(tasks[d]) : /\ j + 1 \in DOMAIN tasks[d]
                                          /\ Tail(tasks[d])[j] = tasks[d][j + 1]
  BY <1>4, <1>5, Tailed
<1>7. /\ tasks' \in [Devices -> Seq(TaskType)] /\ tasks'[d] = Tail(tasks[d])
      /\ \A e \in Devices \ {d} : tasks'[e] = tasks[e]
  BY <1>4, <1>5, <1>6
<1>8. p \in Peers /\ p[1] = d /\ Head(tasks[d]) = <<p, kind>>
  <2>1. p \in Peers /\ Head(tasks[d]) = <<p, kind>> BY <1>2, <1>3, <1>6 DEF TaskType
  <2>2. p[1] = d BY <1>1, <1>2, <1>6 DEF FitInv, TasksFit
  <2> QED BY <2>1, <2>2
<1>9. TasksFit'
  <2>1. \A e \in Devices : \A j \in DOMAIN tasks'[e] :
           tasks'[e][j][1][1] = e /\ Started(tasks'[e][j][1])
    <3> SUFFICES ASSUME NEW e \in Devices, NEW j \in DOMAIN tasks'[e]
                 PROVE  tasks'[e][j][1][1] = e /\ Started(tasks'[e][j][1])
      OBVIOUS
    <3>1. CASE e = d
      <4>1. j \in DOMAIN Tail(tasks[d]) /\ tasks'[e][j] = Tail(tasks[d])[j] BY <1>7, <3>1
      <4>2. j + 1 \in DOMAIN tasks[d] /\ tasks'[e][j] = tasks[d][j + 1] BY <1>6, <4>1
      <4> QED BY <1>1, <3>1, <4>2 DEF FitInv, TasksFit
    <3>2. CASE e # d BY <1>1, <1>7, <3>2 DEF FitInv, TasksFit
    <3> QED BY <3>1, <3>2
  <2> QED BY <1>4, <2>1 DEF TasksFit, Started
<1>10. \/ Silent /\ (kind = "state" => ~peer[p].open \/ peer[p].link = "new")
                 /\ (kind = "open" => ~peer[p].open \/ peer[p].link = "ended")
                 /\ kind # "close"
       \/ /\ OnStatus(p, FALSE)
          /\ kind = "close" \/ (kind = "state" /\ peer[p].open /\ peer[p].link # "up")
       \/ OnStatus(p, TRUE) /\ peer[p].open /\ (kind = "open" => peer[p].link # "ended")
             /\ (kind = "state" => peer[p].link = "up") /\ kind \in {"open", "state"}
  <2>1. CASE kind = "state" /\ OnStateChange(p)
    <3>1. CASE ~peer[p].open \/ peer[p].link = "new" BY <2>1, <3>1 DEF OnStateChange
    <3>2. CASE peer[p].open /\ peer[p].link = "up"
      <4>1. (peer[p].link = "up") = TRUE BY <3>2
      <4>2. OnStatus(p, peer[p].link = "up") BY <2>1, <3>2 DEF OnStateChange
      <4>3. OnStatus(p, TRUE) BY <4>1, <4>2
      <4> QED BY <2>1, <3>2, <4>3
    <3>3. CASE peer[p].open /\ peer[p].link # "up" /\ peer[p].link # "new"
      <4>1. (peer[p].link = "up") = FALSE BY <3>3
      <4>2. OnStatus(p, peer[p].link = "up") BY <2>1, <3>3 DEF OnStateChange
      <4>3. OnStatus(p, FALSE) BY <4>1, <4>2
      <4> QED BY <2>1, <3>3, <4>3
    <3> QED BY <3>1, <3>2, <3>3
  <2>2. CASE kind = "open" /\ OnOpen(p) BY <2>2 DEF OnOpen
  <2>3. CASE kind = "close" /\ OnStatus(p, FALSE) BY <2>3
  <2> QED BY <1>4, <2>1, <2>2, <2>3
<1>11. StatusTyped' /\ \A e \in Devices \ {d} : /\ live'[e] = live[e] /\ shown'[e] = shown[e]
                                                /\ e \in overtaken' <=> e \in overtaken
                                                /\ e \in hidden' <=> e \in hidden
  <2>1. CASE Silent BY <1>1, <2>1 DEF StatusTyped, Silent
  <2>2. ASSUME NEW b \in BOOLEAN, OnStatus(p, b)
        PROVE  StatusTyped' /\ \A e \in Devices \ {d} :
                 /\ live'[e] = live[e] /\ shown'[e] = shown[e]
                 /\ e \in overtaken' <=> e \in overtaken
                 /\ e \in hidden' <=> e \in hidden
    BY <1>1, <1>8, <2>2, StatusSet
  <2> QED BY <1>10, <2>1, <2>2
<1>12. Current(d)' = Current(d) BY <1>4 DEF Current
<1>13. ASSUME attempt[d] > 0, peer[Current(d)].open PROVE TellsOf(Current(d))'
  <2>1. PICK c \in Peers : c = Current(d) /\ c[1] = d BY <1>1, <1>13, LastPeer
  <2>2. TellsOf(c) /\ peer[c].open BY <1>1, <1>13, <2>1 DEF StatusInv, HasBeenTold
  <2>3. peer[p].open => p = c BY <1>1, <1>8, <2>1, OpenIsLast
  <2>4. p = c => IsDue(c, kind) BY <1>1, <1>4, <1>7, <1>8, <2>1, DueNow
  <2>5. kind \in {"state", "open", "close"} BY <1>4
  <2>6. p = c => peer[c].link # "new" BY <2>2, <2>4, <2>5 DEF TellsOf
  <2>7. TellsOf(c)'
    <3>1. ASSUME Silent, kind = "state" => ~peer[p].open \/ peer[p].link = "new",
                 kind = "open" => ~peer[p].open \/ peer[p].link = "ended", kind # "close"
          PROVE  TellsOf(c)'
      <4>1. p # c \/ (kind = "open" /\ peer[c].link = "ended") BY <2>2, <2>5, <2>6, <3>1
      <4>2. live'[d] = live[d] /\ (d \in overtaken => d \in overtaken') BY <3>1 DEF Silent
      <4>3. Head(tasks[d])[1] # c \/ (Head(tasks[d])[2] = "open" /\ peer[c].link = "ended")
        BY <1>2, <1>3, <4>1
      <4> QED BY <1>1, <1>4, <1>7, <2>1, <2>2, <4>2, <4>3, ToldNothing
    <3>2. ASSUME OnStatus(p, FALSE),
                 kind = "close" \/ (kind = "state" /\ peer[p].open /\ peer[p].link # "up")
          PROVE  TellsOf(c)'
      <4>1. ~live'[d] /\ (p # c => d \in overtaken')
        BY <1>1, <1>8, <2>1, <3>2, StatusSet
      <4>2. \/ Head(tasks[d])[1] # c /\ d \in overtaken'
            \/ Head(tasks[d]) = <<c, "close">>
            \/ Head(tasks[d]) = <<c, "state">> /\ peer[c].link # "up"
        BY <1>2, <1>8, <3>2, <4>1
      <4> QED BY <1>1, <1>4, <1>7, <2>1, <2>2, <4>1, <4>2, ToldNone
    <3>3. ASSUME OnStatus(p, TRUE), peer[p].open, kind = "open" => peer[p].link # "ended",
                 kind = "state" => peer[p].link = "up", kind \in {"open", "state"}
          PROVE  TellsOf(c)'
      <4>1. p = c BY <2>3, <3>3
      <4>2. live'[d] BY <1>1, <1>8, <3>3, StatusSet
      <4>3. \/ Head(tasks[d]) = <<c, "open">> /\ peer[c].link # "ended"
            \/ Head(tasks[d]) = <<c, "state">> /\ peer[c].link = "up"
        BY <1>8, <3>3, <4>1
      <4> QED BY <1>1, <1>4, <1>7, <2>1, <2>2, <4>2, <4>3, ToldChannel
    <3> QED BY <1>10, <3>1, <3>2, <3>3
  <2>8. Current(d)' = c BY <1>12, <2>1
  <2> QED BY <2>7, <2>8
<1>14. HasHeard(d)'
  <2>1. HasHeard(d) BY <1>1 DEF StatusInv
  <2>2. CASE Silent BY <1>4, <1>12, <2>1, <2>2 DEF Silent, HasHeard
  <2>3. CASE OnStatus(p, FALSE)
    <3>1. ~live'[d] /\ shown'[d] = live'[d] BY <1>1, <1>8, <2>3, StatusSet
    <3> QED BY <3>1 DEF HasHeard
  <2>4. CASE OnStatus(p, TRUE) /\ peer[p].open
    <3>1. p = Current(d) /\ attempt[d] > 0 BY <1>1, <1>8, <2>4, OpenIsLast
    <3>2. shown'[d] = live'[d] /\ d \notin overtaken'
      BY <1>1, <1>8, <2>4, <3>1, StatusSet
    <3> QED BY <1>4, <1>12, <2>4, <3>1, <3>2 DEF HasHeard
  <2> QED BY <1>10, <2>2, <2>3, <2>4
<1>15. StatusInv'
  <2> SUFFICES ASSUME NEW e \in Devices PROVE HasBeenTold(e)' /\ HasHeard(e)' BY DEF StatusInv
  <2>1. CASE e = d BY <1>4, <1>12, <1>13, <1>14, <2>1 DEF HasBeenTold
  <2>2. CASE e # d
    <3>1. HasBeenTold(e) /\ HasHeard(e) BY <1>1 DEF StatusInv
    <3> QED BY <1>1, <1>4, <1>7, <1>11, <2>2, <3>1, DeviceStays
  <2> QED BY <2>1, <2>2
<1>16. PeersTyped' /\ (\A q \in Peers : PeerStays(q)) /\ SignalsGrow
  BY <1>1, <1>4, SameSignals DEF PeersTyped, PeerStays
<1> QED BY <1>4, <1>7, <1>9, <1>11, <1>15, <1>16, StatusStep

-----------------------------------------------------------------------------
(* Another attempt *)

\* A peer that starts, with a connection or without.
LEMMA ConnectingIs ==
  ASSUME TypeOK, NEW d \in Devices, NEW r \in {Connecting(d), [NoPeer EXCEPT !.stage = "done"]}
  PROVE  /\ r \in PeerType /\ r.link = "new" /\ r.pending = {} /\ r.added = {} /\ r.remote = None
         /\ r.local => d = Caller
         /\ r.cursor \in {0, stored[d]} /\ r.begin = r.cursor
<1>1. stored[d] \in Nat BY DEF TypeOK
<1>2. CASE r = Connecting(d)
  <2>1. /\ (d = Caller) \in BOOLEAN
        /\ (IF d = Caller THEN "send" ELSE "done") \in {"none", "send", "done"}
    OBVIOUS
  <2> QED BY <1>1, <1>2, <2>1 DEF Connecting, NoPeer, PeerType
<1>3. CASE r = [NoPeer EXCEPT !.stage = "done"] BY <1>3 DEF NoPeer, PeerType
<1> QED BY <1>2, <1>3

\* A peer that starts knows no candidate, and its device of no channel.
LEMMA StartsPeer == ASSUME Inv, NEW d \in Devices, StartPeer(d) PROVE Inv'
<1>1. /\ TypeOK /\ FitInv /\ StatusInv /\ CandidateInv /\ PeersTyped /\ PollsTyped /\ StatusTyped
  BY Types DEF Inv
<1>2. PICK old : old = Current(d) OBVIOUS
<1>3. PICK new : new = <<d, attempt[d] + 1>> OBVIOUS
<1>4. PICK r \in {Connecting(d), [NoPeer EXCEPT !.stage = "done"]} :
        /\ Trouble \/ UNCHANGED troubles
        /\ peer' = [p \in Peers |-> IF p = new THEN r
                                    ELSE IF p = old THEN Closed(peer[p]) ELSE peer[p]]
  BY <1>2, <1>3 DEF StartPeer
<1>5. PICK late \in IF attempt[d] = 0 THEN {<<>>} ELSE CloseTasks(old) :
        tasks' = [tasks EXCEPT ![d] = @ \o late]
  BY <1>2 DEF StartPeer
<1>6. /\ attempt[d] < MaxAttempts /\ attempt' = [attempt EXCEPT ![d] = @ + 1]
      /\ live' = [live EXCEPT ![d] = FALSE] /\ shown' = [shown EXCEPT ![d] = FALSE]
      /\ hidden' = hidden \ {d} /\ overtaken' = overtaken \ {d}
      /\ UNCHANGED <<poll, signals, stored, spoiled>>
  BY DEF StartPeer
<1>7. /\ attempt[d] \in Nat /\ MaxAttempts \in Nat /\ attempt \in [Devices -> 0..MaxAttempts]
      /\ new \in Peers /\ new[1] = d /\ new[2] = attempt[d] + 1 /\ new # old
  BY <1>1, <1>2, <1>3, <1>6, BoundsAreNumbers DEF TypeOK, Peers, Current
<1>8. /\ attempt' \in [Devices -> 0..MaxAttempts] /\ attempt'[d] = attempt[d] + 1
      /\ \A e \in Devices \ {d} : attempt'[e] = attempt[e]
  BY <1>6, <1>7
<1>9. /\ r \in PeerType /\ r.link = "new" /\ r.pending = {} /\ r.added = {} /\ r.remote = None
      /\ r.local => d = Caller
      /\ r.cursor \in {0, stored[d]} /\ r.begin = r.cursor
  BY <1>1, <1>4, ConnectingIs
<1>10. /\ peer'[new] = r
       /\ old \in Peers => peer'[old] = Closed(peer[old])
       /\ \A q \in Peers \ {new, old} : peer'[q] = peer[q]
  BY <1>4, <1>7
<1>11. old \in Peers => /\ Closed(peer[old]) \in PeerType /\ ~Closed(peer[old]).open
                        /\ Closed(peer[old]).link = "new" /\ Closed(peer[old]).pending = {}
                        /\ Closed(peer[old]).added = {} /\ Closed(peer[old]).remote = None
                        /\ Closed(peer[old]).cursor = peer[old].cursor
  BY <1>1, ClosedIs DEF PeersTyped
<1>12. PeersTyped'
  <2>1. \A q \in Peers : peer'[q] \in PeerType
    BY <1>1, <1>9, <1>10, <1>11 DEF PeersTyped
  <2>2. peer' = [q \in Peers |-> peer'[q]] BY <1>4
  <2>3. peer' \in [Peers -> PeerType] BY <2>1, <2>2
  <2>4. ASSUME NEW q \in Peers
        PROVE  /\ peer'[q].pending \cup peer'[q].added \subseteq DOMAIN signals'
               /\ peer'[q].link # "new" => peer'[q].local /\ peer'[q].remote \in Peers
    <3>1. CASE q = new BY <1>9, <1>10, <3>1
    <3>2. CASE q = old /\ q # new BY <1>10, <1>11, <3>2
    <3>3. CASE q # old /\ q # new BY <1>1, <1>6, <1>10, <3>3 DEF PeersTyped
    <3> QED BY <3>1, <3>2, <3>3
  <2> QED BY <2>3, <2>4 DEF PeersTyped
<1>13. SignalsGrow BY <1>1, <1>6, SameSignals
<1>14. /\ \A x \in Peers : Started(x) => Started(x)'
       /\ Started(new)' /\ ~Started(new)
       /\ old \in Peers => Started(old) /\ Started(old)'
  <2>1. ASSUME NEW x \in Peers, Started(x) PROVE Started(x)'
    <3>1. x[2] \in Nat /\ x[1] \in Devices BY PeerIs
    <3>2. attempt[x[1]] <= attempt'[x[1]] /\ attempt[x[1]] \in Nat /\ attempt'[x[1]] \in Nat
      BY <1>7, <1>8, <3>1
    <3> QED BY <2>1, <3>1, <3>2 DEF Started
  <2>2. Started(new)' /\ ~Started(new) BY <1>7, <1>8 DEF Started
  <2>3. old \in Peers => Started(old) BY <1>2, <1>7 DEF Started, Current
  <2> QED BY <2>1, <2>2, <2>3
<1>15. attempt[d] # 0 => old \in Peers /\ old[1] = d BY <1>1, <1>2, <1>7, LastPeer
<1>16. /\ late \in Seq(TaskType)
       /\ \A j \in DOMAIN late : late[j] = <<old, "close">> /\ old \in Peers /\ old[1] = d
  <2>1. late = <<>> \/ (attempt[d] # 0 /\ late = <<<<old, "close">>>>) BY <1>5 DEF CloseTasks
  <2>2. CASE late = <<>> BY <2>2
  <2>3. CASE attempt[d] # 0 /\ late = <<<<old, "close">>>> BY <1>15, <2>3 DEF TaskType
  <2> QED BY <2>1, <2>2, <2>3
<1>17. /\ tasks' \in [Devices -> Seq(TaskType)] /\ tasks'[d] = tasks[d] \o late
       /\ \A e \in Devices \ {d} : tasks'[e] = tasks[e]
  <2>1. tasks \in [Devices -> Seq(TaskType)] /\ tasks[d] \in Seq(TaskType) BY <1>1 DEF TypeOK
  <2>2. tasks[d] \o late \in Seq(TaskType) BY <1>16, <2>1, Appending
  <2> QED BY <1>5, <2>1, <2>2
<1>18. /\ StatusTyped' /\ live'[d] = FALSE /\ shown'[d] = FALSE
       /\ \A e \in Devices \ {d} : /\ live'[e] = live[e] /\ shown'[e] = shown[e]
                                   /\ e \in overtaken' <=> e \in overtaken
                                   /\ e \in hidden' <=> e \in hidden
  BY <1>1, <1>6 DEF StatusTyped
<1>19. TypeOK'
  <2>1. troubles' \in 0..MaxTroubles BY <1>1, <1>4, TroubleCounts
  <2>2. PollsTyped' BY <1>1, <1>6 DEF PollsTyped
  <2>3. stored' \in [Devices -> Nat] /\ spoiled' \subseteq Peers /\ signals' \in Seq(SignalType)
    BY <1>1, <1>6 DEF TypeOK
  <2> QED BY <1>8, <1>12, <1>17, <1>18, <2>1, <2>2, <2>3
      DEF TypeOK, PeersTyped, PollsTyped, StatusTyped
<1>20. FitInv'
  <2>1. OneOpen'
    <3> SUFFICES ASSUME NEW q \in Peers, peer'[q].open PROVE q[2] = attempt'[q[1]] BY DEF OneOpen
    <3>1. CASE q = new BY <1>7, <1>8, <3>1
    <3>2. q # old BY <1>10, <1>11
    <3>3. CASE q # new
      <4>1. q[2] = attempt[q[1]] /\ q[1] \in Devices /\ q = <<q[1], q[2]>>
        BY <1>1, <1>10, <3>2, <3>3, PeerIs DEF FitInv, OneOpen
      <4>2. q[1] # d BY <1>2, <3>2, <4>1 DEF Current
      <4> QED BY <1>8, <4>1, <4>2
    <3> QED BY <3>1, <3>3
  <2>2. NotYet'
    <3> SUFFICES ASSUME NEW q \in Peers, ~Started(q)' PROVE peer'[q] = NoPeer BY DEF NotYet
    <3>1. q # new /\ q # old /\ ~Started(q) BY <1>14
    <3> QED BY <1>1, <1>10, <3>1 DEF FitInv, NotYet
  <2>3. CursorsFit' BY <1>1, <1>6, <1>13, StoredStays DEF CursorsFit
  <2>4. TasksFit'
    <3> SUFFICES ASSUME NEW e \in Devices, NEW j \in DOMAIN tasks'[e]
                 PROVE  tasks'[e][j][1][1] = e /\ Started(tasks[e][j][1])'
      BY DEF TasksFit
    <3> PICK x : x = tasks'[e][j] OBVIOUS
    <3> SUFFICES x[1][1] = e /\ Started(x[1])' BY DEF Started
    <3>1. PICK t \in Seq(TaskType) : t = tasks[e] BY <1>1 DEF TypeOK
    <3>2. \A i \in DOMAIN t : t[i][1] \in Peers /\ t[i][1][1] = e /\ Started(t[i][1])'
      <4>1. SUFFICES ASSUME NEW i \in DOMAIN t
                     PROVE  t[i][1] \in Peers /\ t[i][1][1] = e /\ Started(t[i][1])'
        OBVIOUS
      <4>2. t[i][1] \in Peers BY DEF TaskType
      <4>3. t[i][1][1] = e /\ Started(t[i][1]) BY <1>1, <3>1 DEF FitInv, TasksFit
      <4> QED BY <1>14, <4>2, <4>3
    <3>3. CASE e # d
      <4>1. j \in DOMAIN t /\ x = t[j] BY <1>17, <3>1, <3>3
      <4> QED BY <3>2, <4>1
    <3>4. CASE e = d
      <4>1. \/ j \in DOMAIN t /\ x = t[j]
            \/ j - Len(t) \in DOMAIN late /\ x = late[j - Len(t)]
        BY <1>16, <1>17, <3>1, <3>4, Appending
      <4>2. CASE j \in DOMAIN t /\ x = t[j] BY <3>2, <4>2
      <4>3. CASE x = <<old, "close">> /\ old \in Peers /\ old[1] = d
        BY <1>14, <3>4, <4>3
      <4> QED BY <1>16, <4>1, <4>2, <4>3
    <3> QED BY <3>3, <3>4
  <2>5. ASSUME NEW t \in Polls PROVE PollFits(t)'
    <3>1. PollFits(t) /\ poll'[t] = poll[t] BY <1>1, <1>6 DEF FitInv
    <3> QED BY <1>1, <1>13, <1>14, <3>1, PollStays
  <2>6. ASSUME NEW q \in Peers PROVE PeerFits(q)'
    <3>1. PeerFits(q) BY <1>1 DEF FitInv
    <3>2. CASE q = new
      <4>1. stored[d] <= Len(signals) /\ 0 <= Len(signals)
        BY <1>1, <1>13 DEF FitInv, CursorsFit, SignalsGrow
      <4> QED BY <1>6, <1>9, <1>10, <3>2, <4>1 DEF PeerFits
    <3>3. CASE q = old /\ q # new BY <1>6, <1>10, <1>11, <3>1, <3>3 DEF PeerFits
    <3>4. CASE q # old /\ q # new BY <1>6, <1>10, <3>1, <3>4 DEF PeerFits
    <3> QED BY <3>2, <3>3, <3>4
  <2> QED BY <2>1, <2>2, <2>3, <2>4, <2>5, <2>6 DEF FitInv
<1>21. ASSUME NEW q \in Peers PROVE Kept(q)'
  <2>1. Kept(q) BY <1>1 DEF CandidateInv
  <2>2. CASE q = new
    <3>1. \A t \in Polls : poll'[t].of # new
      <4> SUFFICES ASSUME NEW t \in Polls PROVE poll[t].of # new BY <1>6
      <4>1. CASE poll[t].stage = "idle"
        <5>1. poll[t] = NoPoll BY <1>1, <4>1 DEF FitInv, PollFits
        <5> QED BY <1>7, <5>1, NoPollTyped, PeerIs
      <4>2. CASE poll[t].stage # "idle" BY <1>14, <4>2, PollOf
      <4> QED BY <4>1, <4>2
    <3>2. \A K : ~Busy(new, K)' BY <3>1 DEF Busy
    <3>3. AnswersOnce(new)'
      <4>1. new[1] = Answerer => ~peer'[new].local
        BY <1>7, <1>9, <1>10 DEF Caller, Answerer
      <4> QED BY <3>2, <4>1 DEF AnswersOnce
    <3>4. Passed(new)'
      <4>1. \A j \in DOMAIN signals' : ~(Offered(new, j)' /\ j <= peer'[new].cursor)
        <5>1. peer'[new].begin = peer'[new].cursor /\ peer'[new].cursor \in Nat
          BY <1>9, <1>10 DEF PeerType
        <5>2. \A j \in DOMAIN signals' : j \in Nat BY <1>13 DEF SignalsGrow
        <5> QED BY <5>1, <5>2 DEF Offered
      <4> QED BY <3>1, <4>1 DEF Passed
    <3>5. Waits(new)' BY <1>9, <1>10 DEF Waits
    <3> QED BY <2>2, <3>3, <3>4, <3>5 DEF Kept
  <2>3. CASE q = old /\ q # new BY <1>10, <1>11, <2>3 DEF Kept
  <2>4. CASE q # old /\ q # new
    <3>1. peer'[q] = peer[q] BY <1>10, <2>4
    <3> QED BY <1>1, <1>6, <1>13, <2>1, <3>1, PeerKeeps
  <2> QED BY <2>2, <2>3, <2>4
<1>22. StatusInv'
  <2> SUFFICES ASSUME NEW e \in Devices PROVE HasBeenTold(e)' /\ HasHeard(e)' BY DEF StatusInv
  <2>1. HasBeenTold(e) /\ HasHeard(e) BY <1>1 DEF StatusInv
  <2>2. CASE e # d
    <3>1. \A q \in Peers : q[1] = e => peer'[q] = peer[q]
      <4>1. \A q \in Peers : q[1] = e => q # new /\ q # old BY <1>2, <1>7, <2>2 DEF Current
      <4> QED BY <1>10, <4>1
    <3> QED BY <1>1, <1>8, <1>17, <1>18, <2>1, <2>2, <3>1, DeviceStays
  <2>3. CASE e = d
    <3>1. Current(e)' = new BY <1>3, <1>8, <2>3 DEF Current
    <3>2. \A k : ~IsDue(new, k)'
      <4>1. \A k : ~IsDue(new, k)
        <5>1. \A j \in DOMAIN tasks[d] : tasks[d][j][1] # new BY <1>1, <1>14 DEF FitInv, TasksFit
        <5> QED BY <1>7, <5>1 DEF IsDue
      <4>2. \A j \in DOMAIN late : \A k : late[j] # <<new, k>> BY <1>7, <1>16
      <4>3. \A k : IsDue(new, k)' <=> IsDue(new, k) \/ \E j \in DOMAIN late : late[j] = <<new, k>>
        <5>1. PICK l \in Seq(TaskType) : l = late BY <1>16
        <5>2. PICK p \in Peers : p = new BY <1>7
        <5>3. tasks'[d] = tasks[d] \o l BY <1>17, <5>1
        <5>4. p[1] = d BY <1>7, <5>2
        <5>5. \A k : IsDue(p, k)' <=> IsDue(p, k) \/ \E j \in DOMAIN l : l[j] = <<p, k>>
          <6>1. TypeOK BY <1>1
          <6>2. \A k : IsDue(p, k)' <=> IsDue(p, k) \/ \E j \in DOMAIN l : l[j] = <<p, k>>
            BY <6>1, <5>3, <5>4, DueLater, SMTT(60)
          <6> QED BY <6>2
        <5> QED BY <5>1, <5>2, <5>5
      <4> QED BY <4>1, <4>2, <4>3
    <3>3. ~live'[d] /\ shown'[d] = live'[d] BY <1>18
    <3>4. TellsOf(new)' BY <1>7, <1>9, <1>10, <3>2, <3>3 DEF TellsOf
    <3> QED BY <2>3, <3>1, <3>3, <3>4 DEF HasBeenTold, HasHeard
  <2> QED BY <2>2, <2>3
<1> QED BY <1>19, <1>20, <1>21, <1>22 DEF Inv, CandidateInv

-----------------------------------------------------------------------------
(* The theorems *)

\* The invariant holds at first.
LEMMA Initially == ASSUME Init PROVE Inv
<1>1. TypeOK
  <2>1. NoPeer \in PeerType /\ NoPoll \in PollType BY NoPeerTyped, NoPollTyped
  <2>2. attempt \in [Devices -> 0..MaxAttempts] /\ troubles \in 0..MaxTroubles
    BY BoundsAreNumbers DEF Init
  <2>3. \A p \in Peers : /\ peer[p].pending \cup peer[p].added \subseteq DOMAIN signals
                         /\ peer[p].link # "new" => peer[p].local /\ peer[p].remote \in Peers
    BY NoPeerTyped DEF Init
  <2>4. \A s \in Polls : poll[s].rest \subseteq DOMAIN signals BY NoPollTyped DEF Init
  <2>5. tasks \in [Devices -> Seq(TaskType)] /\ signals \in Seq(SignalType)
        /\ stored \in [Devices -> Nat] /\ {live, shown} \subseteq [Devices -> BOOLEAN]
        /\ overtaken \cup hidden \subseteq Devices /\ spoiled \subseteq Peers
    BY DEF Init
  <2>6. peer \in [Peers -> PeerType] /\ poll \in [Polls -> PollType] BY <2>1 DEF Init
  <2> QED BY <2>2, <2>3, <2>4, <2>5, <2>6 DEF TypeOK
<1>2. /\ \A d \in Devices : attempt[d] = 0 /\ stored[d] = 0 /\ ~live[d] /\ shown[d] = FALSE
                            /\ live[d] = FALSE /\ tasks[d] = <<>>
      /\ \A p \in Peers : peer[p] = NoPeer
      /\ \A s \in Polls : poll[s] = NoPoll
      /\ signals = <<>> /\ overtaken = {} /\ hidden = {} /\ Len(signals) = 0
  BY DEF Init
<1>3. FitInv
  <2>1. OneOpen /\ NotYet BY <1>2, NoPeerTyped DEF OneOpen, NotYet
  <2>2. CursorsFit BY <1>2 DEF CursorsFit
  <2>3. TasksFit BY <1>2 DEF TasksFit
  <2>4. \A s \in Polls : PollFits(s) BY <1>2, NoPollTyped DEF PollFits
  <2>5. \A p \in Peers : PeerFits(p) BY <1>2, NoPeerTyped DEF PeerFits
  <2> QED BY <2>1, <2>2, <2>3, <2>4, <2>5 DEF FitInv
<1>4. StatusInv
  <2> SUFFICES ASSUME NEW d \in Devices PROVE HasBeenTold(d) /\ HasHeard(d) BY DEF StatusInv
  <2>1. ~(attempt[d] > 0) BY <1>2
  <2>2. HasBeenTold(d) BY <2>1 DEF HasBeenTold
  <2>3. HasHeard(d) BY <1>2 DEF HasHeard
  <2> QED BY <2>2, <2>3
<1>5. CandidateInv BY <1>2, NoPeerTyped DEF CandidateInv, Kept
<1> QED BY <1>1, <1>3, <1>4, <1>5 DEF Inv

\* A step that changes nothing.
LEMMA Stutters == ASSUME Inv, UNCHANGED vars PROVE Inv'
<1>1. TypeOK /\ PeersTyped /\ StatusTyped BY Types DEF Inv
<1>2. /\ UNCHANGED <<attempt, poll, stored, spoiled, troubles>>
      /\ UNCHANGED <<signals, peer, tasks, live, shown, overtaken, hidden>>
  BY DEF vars
<1>3. SignalsGrow /\ Silent BY <1>1, <1>2, SameSignals DEF Silent
<1>4. PeersTyped' /\ StatusTyped' /\ tasks' \in [Devices -> Seq(TaskType)]
  BY <1>1, <1>2 DEF PeersTyped, StatusTyped, TypeOK
<1>5. TasksFit' BY <1>2 DEF Inv, FitInv, TasksFit, Started
<1>6. StatusInv' BY <1>1, <1>2, <1>3, StatusStays DEF Inv
<1>7. \A q \in Peers : PeerStays(q) BY <1>2 DEF PeerStays
<1> QED BY <1>2, <1>3, <1>4, <1>5, <1>6, <1>7, StatusStep

\* It holds always.
LEMMA Always == Spec => []Inv
<1>1. Init => Inv BY Initially
<1>2. Inv /\ [Next]_vars => Inv'
  <2> SUFFICES ASSUME Inv, [Next]_vars PROVE Inv' OBVIOUS
  <2>1. ASSUME NEW d \in Devices, StartPeer(d) \/ SyncEnd(d) \/ SyncFails(d) \/ Callback(d)
        PROVE  Inv'
    BY <2>1, StartsPeer, SyncsEnd, CallsBack
  <2>2. ASSUME NEW s \in Polls, StartPoll(s) \/ PollStep(s) \/ AnswerFails(s) PROVE Inv'
    BY <2>2, StartsPoll, PollStepHolds
  <2>3. ASSUME NEW p \in Peers, \/ SendOffer(p) \/ OfferFails(p) \/ PostCandidate(p)
                                \/ LinkDrops(p) \/ LinkRecovers(p) \/ LinkEnds(p)
        PROVE  Inv'
    BY <2>3, SendsOffer, FailsToOffer, PostsCandidate, Drops, Recovers, Ends
  <2>4. ASSUME NEW p \in Peers, NEW q \in Peers, LinkUp(p, q) PROVE Inv' BY <2>4, GoesUp
  <2>5. CASE UNCHANGED vars BY <2>5, Stutters
  <2> QED BY <2>1, <2>2, <2>3, <2>4, <2>5 DEF Next
<1> QED BY <1>1, <1>2, PTL DEF Spec

\* The table, the peers and the polls are well formed, whatever the number of attempts, polls
\* and faults: RoomPeer and its polls deal only with signals that are there.
THEOREM TypeCorrect == Spec => []TypeOK
<1>1. Inv => TypeOK BY DEF Inv
<1> QED BY <1>1, Always, PTL

\* Once its callbacks have run, a device of RoomSync knows whether it has a channel, and its page
\* shows so, with the exceptions that StatusTellsTruth names.
THEOREM StatusTellsTruthHolds == Spec => []StatusTellsTruth
<1>1. ASSUME Inv PROVE StatusTellsTruth
  <2> SUFFICES ASSUME NEW d \in Devices \ overtaken, tasks[d] = <<>>
               PROVE  live[d] = IsUp(d) /\ (d \notin hidden => shown[d] = IsUp(d))
    BY DEF StatusTellsTruth
  <2>1. HasBeenTold(d) /\ HasHeard(d) /\ TypeOK BY <1>1 DEF Inv, StatusInv
  <2>2. live[d] \in BOOLEAN /\ shown[d] \in BOOLEAN BY <2>1 DEF TypeOK
  <2>3. attempt[d] > 0 => Current(d) \in Peers /\ Current(d)[1] = d BY <2>1, LastPeer
  <2>4. \A p \in Peers : \A k : p[1] = d => ~IsDue(p, k) BY DEF IsDue
  <2>5. live[d] <=> IsUp(d)
    <3>1. live[d] => attempt[d] > 0 /\ peer[Current(d)].open BY <2>1 DEF HasHeard
    <3>2. ASSUME attempt[d] > 0, peer[Current(d)].open
          PROVE  live[d] <=> peer[Current(d)].link = "up"
      <4>1. PICK c \in Peers : c = Current(d) /\ c[1] = d BY <2>3, <3>2
      <4>2. TellsOf(c) BY <2>1, <3>2, <4>1 DEF HasBeenTold
      <4>3. peer[c].link \in {"new", "up", "down", "ended"} BY <2>1 DEF TypeOK, PeerType
      <4>4. \A k : ~IsDue(c, k) BY <2>4, <4>1
      <4> QED BY <4>1, <4>2, <4>3, <4>4 DEF TellsOf
    <3> QED BY <3>1, <3>2 DEF IsUp
  <2>6. IsUp(d) \in BOOLEAN BY <2>1, <2>3 DEF IsUp, TypeOK, PeerType
  <2>7. live[d] = IsUp(d) BY <2>2, <2>5, <2>6
  <2> QED BY <2>1, <2>7 DEF HasHeard
<1> QED BY <1>1, Always, PTL

\* RoomPeer drops no candidate of the peer it talks to, in whichever order its polls, descriptions
\* and candidates come, with the exceptions that CandidatesKept names.
THEOREM CandidatesKeptHolds == Spec => []CandidatesKept
<1>1. ASSUME Inv PROVE CandidatesKept
  <2> SUFFICES ASSUME NEW p \in Peers \ spoiled, peer[p].open, peer[p].remote # None,
                      ~Busy(p, {"answer", "send"}), NEW i \in DOMAIN signals,
                      peer[p].begin < i, i <= peer[p].cursor,
                      signals[i] = Signal("candidate", peer[p].remote)
               PROVE  i \in peer[p].added
    BY DEF CandidatesKept
  <2>1. Kept(p) /\ PeerFits(p) BY <1>1 DEF Inv, CandidateInv, FitInv
  <2>2. Passed(p) /\ Waits(p) BY <2>1 DEF Kept
  <2>3. Offered(p, i) BY <2>1 DEF Offered, PeerFits, Signal
  <2>4. Has(p, i) BY <2>2, <2>3 DEF Passed
  <2>5. ~Busy(p, {"send"}) /\ ~Busy(p, {"answer"}) BY DEF Busy
  <2>6. peer[p].pending = {} BY <2>2, <2>5 DEF Waits
  <2> QED BY <2>4, <2>6 DEF Has
<1> QED BY <1>1, Always, PTL

=============================================================================
