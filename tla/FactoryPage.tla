----------------------------- MODULE FactoryPage -----------------------------
(***************************************************************************)
(* The page of the clip factory: the lists of sources, candidates and      *)
(* scheduled posts it shows, and the requests that keep them up to date    *)
(* with the server.  A request is answered some time after the server has  *)
(* served it, answers overtake each other, and what runs when an answer    *)
(* arrives is the closure of the render in which the request was made.     *)
(***************************************************************************)
EXTENDS Integers

CONSTANTS
    Sources,        \* identifiers of sources, numbered as they are created
    MaxRank,        \* bound: candidates of a source
    Slots,          \* bound: requests in progress at the same time
    MaxActs,        \* bound: what the user does
    MaxFaults,      \* bound: requests that fail
    None

Ids == Sources \X (1..MaxRank)

VARIABLES
    srcs, cands, queue,                 \* the tables of the server
    sources, candidates, scheduled,     \* the lists the page shows
    twice,                              \* sources that are listed more than once
    selected, opened, table,            \* selected source, opened row, table or cards
    busy,           \* what each kind of request is in progress for, which disables controls
    job,            \* the requests in progress, with what they closed over
    acts, faults,   \* bounds
    early,          \* history: sources listed before the answer to their creation, since
                    \* the list was last read
    outdated        \* history: an answer was shown that no longer held, or was lost

listed == <<sources, twice, early>>
lists == <<listed, candidates, scheduled>>
server == <<srcs, cands, queue>>
vars == <<server, lists, selected, opened, table, busy, job, acts, faults, outdated>>

Kinds == {"create", "moment", "tick", "analyze", "remove", "drop"}
Lists == {"sources", "scheduled", "candidates"}

\* useCallback and async functions: what to do next, and what the closure has seen.
Fetch(op, whats, sel) ==
    [op |-> op, sent |-> FALSE, served |-> FALSE, id |-> None, sel |-> sel, list |-> {},
     again |-> {}, get |-> [w \in whats |-> None]]
Post(op, id) ==
    [op |-> op, sent |-> TRUE, served |-> FALSE, id |-> id, sel |-> selected,
     list |-> sources, again |-> twice, get |-> [w \in {} |-> None]]

Quiet == \A r \in Slots : job[r] = None
Loading == \E r \in Slots : job[r] # None /\ job[r].op = "init"

First(S) == IF S = {} THEN None ELSE CHOOSE s \in S : \A t \in S : t <= s

\* The page is opened on a factory with some sources; init runs in an effect.
Init ==
    /\ \E n \in {0} \cup Sources : srcs = {s \in Sources : s <= n}
    /\ cands = {i \in Ids : i[1] \in srcs /\ i[2] = 1} /\ queue = {}
    /\ sources = {} /\ twice = {} /\ early = {} /\ candidates = {} /\ scheduled = {}
    /\ selected = None /\ opened = None /\ table = FALSE
    /\ busy = [k \in Kinds |-> None]
    /\ \E r \in Slots :
         job = [s \in Slots |-> IF s = r THEN Fetch("init", {"sources"}, None) ELSE None]
    /\ acts = 0 /\ faults = 0 /\ outdated = FALSE

-----------------------------------------------------------------------------
(* Requests: what the server does with them, and what it answers *)

\* Fault: the schedule of the source stays.
DeleteSourceOnly(s) ==
    srcs' = srcs \ {s} /\ cands' = {i \in cands : i[1] # s} /\ UNCHANGED queue

CreateSource(s) == srcs' = srcs \cup {s} /\ UNCHANGED <<cands, queue>>
DeleteSource(s) ==
    /\ srcs' = srcs \ {s}
    /\ cands' = {i \in cands : i[1] # s} /\ queue' = {i \in queue : i[1] # s}
DeleteCandidate(i) == cands' = cands \ {i} /\ queue' = queue \ {i} /\ UNCHANGED srcs

\* The candidates of the source are replaced, and with them their schedule.
AnalyzeSource(s) ==
    /\ s \in srcs
    /\ \E n \in 1..MaxRank : cands' = {i \in cands : i[1] # s} \cup ({s} \X (1..n))
    /\ queue' = {i \in queue : i[1] # s} /\ UNCHANGED srcs

\* The source is created if need be, and its candidates are kept.
Takes(s) == {i \in Ids \ cands : i[1] = s}
AnalyzeMoment(s) ==
    srcs' = srcs \cup {s} /\ cands' = cands \cup Takes(s) /\ UNCHANGED queue

ScheduleCandidate(i) == i \in cands /\ queue' = queue \cup {i} /\ UNCHANGED <<srcs, cands>>

\* A tick marks posts as ready; they stay in the list.
TickScheduler == UNCHANGED server

FetchSources == srcs
FetchScheduled == queue
FetchCandidates(sel) == {i \in cands : sel = None \/ i[1] = sel}
Stored(what, sel) ==
    CASE what = "sources" -> FetchSources
      [] what = "scheduled" -> FetchScheduled
      [] what = "candidates" -> FetchCandidates(sel)

page == <<lists, selected, opened, table, busy>>

Serve(r) ==
    LET j == job[r] IN
    /\ j # None /\ j.sent /\ ~j.served
    /\ job' = [job EXCEPT ![r] = [@ EXCEPT !.served = TRUE,
                                           !.list = IF j.op = "moment" THEN Takes(j.id) ELSE j.list]]
    /\ \/ j.op = "create" /\ CreateSource(j.id)
       \/ j.op = "remove" /\ DeleteSource(j.id)
       \/ j.op = "drop" /\ DeleteCandidate(j.id)
       \/ j.op = "analyze" /\ AnalyzeSource(j.id)
       \/ j.op = "moment" /\ AnalyzeMoment(j.id)
       \/ j.op = "schedule" /\ ScheduleCandidate(j.id)
       \/ j.op = "tick" /\ TickScheduler
    /\ UNCHANGED <<page, acts, faults, outdated>>

\* A list is read; its answer is under way.
Read(r, what) ==
    /\ job[r] # None /\ what \in DOMAIN job[r].get /\ job[r].get[what] = None
    /\ job' = [job EXCEPT ![r].get[what] = Stored(what, job[r].sel)]
    /\ UNCHANGED <<server, page, acts, faults, outdated>>

-----------------------------------------------------------------------------
(* The user.  A control is disabled as the page has rendered it. *)

Act == acts < MaxActs /\ acts' = acts + 1
Begin(op, id) ==
    /\ Act
    /\ \E r \in Slots : job[r] = None /\ job' = [job EXCEPT ![r] = Post(op, id)]
    /\ busy' = IF op \in Kinds THEN [busy EXCEPT ![op] = id] ELSE busy
    /\ UNCHANGED <<server, lists, selected, opened, table, faults, outdated>>

\* Fault: the candidates of the source are not loaded.
SelectOnly(s, jobs, open) ==
    selected' = s /\ job' = jobs /\ opened' = IF s = selected THEN open ELSE None

\* setSelectedSourceId, and the effect that runs when it changes: it closes the opened
\* row and loads the candidates of the source.
Select(s, jobs, open) ==
    /\ selected' = s
    /\ opened' = IF s = selected THEN open ELSE None
    /\ IF s \in {selected, None} THEN job' = jobs
       ELSE \E f \in Slots :
              jobs[f] = None /\ job' = [jobs EXCEPT ![f] = Fetch("load", {"candidates"}, s)]

ClickSource(s) ==
    /\ Act /\ s \in sources /\ s # selected
    /\ Select(s, job, None)
    /\ UNCHANGED <<server, lists, table, busy, faults, outdated>>

\* A new source is the newest.
IngestForm == busy["create"] = None
SubmitSource(s) == IngestForm /\ (\A t \in srcs : t < s) /\ Begin("create", s)

SpotMomentForm == busy["moment"] = None
SubmitMoment(s) ==
    SpotMomentForm /\ (\A t \in srcs : t <= s \/ s \in srcs) /\ Begin("moment", s)

Idle(s) == s \in sources /\ s \notin {busy["analyze"], busy["remove"]}
ClickAnalyze(s) == Idle(s) /\ Begin("analyze", s)
ClickRemove(s) == Idle(s) /\ Begin("remove", s)

TickButton == busy["tick"] = None
ClickTick == TickButton /\ Begin("tick", "tick")

\* Rows are opened and removed in the table; posts are scheduled in cards.
Rows == IF table /\ ~Loading THEN candidates ELSE {}
Cards == IF Loading THEN {} ELSE IF table THEN candidates \cap {opened} ELSE candidates
ClickView ==
    /\ Act /\ table' = ~table
    /\ UNCHANGED <<server, lists, selected, opened, busy, job, faults, outdated>>
ClickRow(i) ==
    /\ Act /\ i \in Rows /\ opened' = i
    /\ UNCHANGED <<server, lists, selected, table, busy, job, faults, outdated>>
DropButton(i) == i \in Rows /\ busy["drop"] # i
ClickDrop(i) == DropButton(i) /\ Begin("drop", i)
ClickSchedule(i) == i \in Cards /\ Begin("schedule", i)

-----------------------------------------------------------------------------
(* Answers *)

Answered(r, op) == job[r] # None /\ job[r].op = op /\ job[r].served
Then(r, j) == [job EXCEPT ![r] = j]

\* Fault: the flag is not reset.
FinallyForgotten(r) == UNCHANGED busy

Finally(r) == busy' = IF job[r].op \in Kinds THEN [busy EXCEPT ![job[r].op] = None] ELSE busy

RefreshAll(sel) == Fetch("all", {"sources", "scheduled"}, sel)
RefreshScheduled(op, id) == [Fetch(op, {"scheduled"}, None) EXCEPT !.id = id]

Unless(holds) == outdated' = (outdated \/ ~holds)

\* The source goes before the others, without a look at whether a list read meanwhile has
\* brought it already.
HandleSourceCreated(r) ==
    LET s == job[r].id IN
    /\ Answered(r, "create") /\ Finally(r)
    /\ sources' = sources \cup {s} /\ twice' = twice \cup ({s} \cap sources)
    /\ early' = early \cup ({s} \cap sources) /\ candidates' = {}
    /\ Select(s, Then(r, None), None) /\ Unless(s \in srcs /\ FetchCandidates(s) = {})
    /\ UNCHANGED <<server, scheduled, table, acts, faults>>

\* Analyses, ticks and schedules refresh what was selected when they were asked for: if
\* nothing was, no candidates, though an analysis has replaced some.
Refreshes(r) ==
    /\ Finally(r) /\ job' = Then(r, RefreshAll(job[r].sel))
    /\ Unless(job[r].op = "analyze" => job[r].sel # None)
    /\ UNCHANGED <<server, lists, selected, opened, table, acts, faults>>
OnAnalyzed(r) == Answered(r, "analyze") /\ Refreshes(r)
OnTick(r) == Answered(r, "tick") /\ Refreshes(r)
OnScheduled(r) == Answered(r, "schedule") /\ Refreshes(r)

OnMoment(r) ==
    LET s == job[r].id
        new == job[r].list
    IN
    /\ Answered(r, "moment") /\ Finally(r)
    /\ candidates' = candidates \cup new
    /\ Select(s, Then(r, RefreshAll(job[r].sel)),
              IF new = {} THEN opened ELSE CHOOSE i \in new : \A k \in new : i[2] <= k[2])
    /\ Unless(s \in srcs /\ new \subseteq cands)
    /\ UNCHANGED <<server, listed, scheduled, table, acts, faults>>

\* sources is the list of the render in which the source was removed, and so is the
\* selection.
HandleSourceDeleted(r) ==
    LET s == job[r].id
        remaining == job[r].list \ {s}
    IN
    /\ Answered(r, "remove") /\ sources' = remaining
    /\ twice' = job[r].again \ {s} /\ UNCHANGED early
    /\ IF job[r].sel = s
       THEN /\ Select(First(remaining), Then(r, RefreshScheduled("remove", s)), None)
            /\ candidates' = IF remaining = {} THEN {} ELSE candidates
       ELSE /\ job' = Then(r, RefreshScheduled("remove", s))
            /\ UNCHANGED <<selected, opened, candidates>>
    /\ Unless(/\ s \notin srcs /\ job[r].sel = selected
              /\ job[r].list = sources /\ job[r].again = twice)
    /\ UNCHANGED <<server, scheduled, table, busy, acts, faults>>

HandleCandidateDeleted(r) ==
    LET i == job[r].id IN
    /\ Answered(r, "drop") /\ candidates' = candidates \ {i}
    /\ opened' = IF opened = i THEN None ELSE opened
    /\ job' = Then(r, RefreshScheduled("drop", i)) /\ Unless(i \notin cands)
    /\ UNCHANGED <<server, listed, scheduled, selected, table, busy, acts, faults>>

-----------------------------------------------------------------------------
(* Lists that arrive *)

Arrives(r, what) ==
    job[r] # None /\ what \in DOMAIN job[r].get /\ job[r].get[what] # None
Data(r, what) == job[r].get[what]
Shown(r, what) ==
    Unless(/\ Data(r, what) = Stored(what, job[r].sel)
           /\ what = "candidates" => job[r].sel = selected)

\* The request waits for its other lists, goes on with the candidates, or is done.
Rest(r, what) ==
    LET rest == DOMAIN job[r].get \ {what} IN
    IF rest # {} THEN Then(r, [job[r] EXCEPT !.get = [w \in rest |-> @[w]]])
    ELSE IF job[r].op = "all" /\ what # "candidates" /\ job[r].sel # None
    THEN Then(r, Fetch("all", {"candidates"}, job[r].sel))
    ELSE Then(r, None)

\* A list that arrives takes the place of the one shown, with what that had twice.
ShowSources(got) == sources' = got /\ twice' = {} /\ early' = {}

InitSources(r) ==
    LET got == Data(r, "sources") IN
    /\ Arrives(r, "sources") /\ job[r].op = "init" /\ Shown(r, "sources")
    /\ ShowSources(got)
    /\ Select(First(got), Then(r, Fetch("init", {"candidates", "scheduled"}, First(got))), opened)
    /\ UNCHANGED <<server, candidates, scheduled, table, busy, acts, faults>>

InitRest(r) ==
    /\ Arrives(r, "candidates") /\ Arrives(r, "scheduled") /\ job[r].op = "init"
    /\ candidates' = Data(r, "candidates") /\ scheduled' = Data(r, "scheduled")
    /\ Unless(Data(r, "candidates") = FetchCandidates(selected) /\ Data(r, "scheduled") = queue)
    /\ job' = Then(r, None)
    /\ UNCHANGED <<server, listed, selected, opened, table, busy, acts, faults>>

RefreshSources(r) ==
    LET got == Data(r, "sources") IN
    /\ Arrives(r, "sources") /\ job[r].op = "all" /\ Shown(r, "sources")
    /\ ShowSources(got)
    /\ IF job[r].sel = None /\ got # {} THEN Select(First(got), Rest(r, "sources"), opened)
       ELSE job' = Rest(r, "sources") /\ UNCHANGED <<selected, opened>>
    /\ UNCHANGED <<server, candidates, scheduled, table, busy, acts, faults>>

ScheduledArrives(r) ==
    /\ Arrives(r, "scheduled") /\ job[r].op # "init" /\ Shown(r, "scheduled")
    /\ scheduled' = Data(r, "scheduled") /\ job' = Rest(r, "scheduled")
    /\ Finally(r)
    /\ UNCHANGED <<server, listed, candidates, selected, opened, table, acts, faults>>

RefreshCandidates(r) ==
    LET got == Data(r, "candidates") IN
    /\ Arrives(r, "candidates") /\ job[r].op # "init" /\ Shown(r, "candidates")
    /\ candidates' = got /\ opened' = IF opened \in got THEN opened ELSE None
    /\ job' = Rest(r, "candidates")
    /\ UNCHANGED <<server, listed, scheduled, selected, table, busy, acts, faults>>

\* A request fails, whether or not the server has served it.  A failed analysis
\* refreshes the page like any other.
Fails(r) ==
    /\ faults < MaxFaults /\ faults' = faults + 1 /\ job[r] # None
    /\ Finally(r)
    /\ job' = Then(r, IF job[r].op = "analyze" THEN RefreshAll(job[r].sel) ELSE None)
    /\ Unless(\/ job[r].op = "analyze" /\ job[r].sel # None
              \/ job[r].sent /\ ~job[r].served)
    /\ UNCHANGED <<server, lists, selected, opened, table, acts>>

User ==
    \/ \E s \in Sources : ClickSource(s) \/ SubmitSource(s) \/ SubmitMoment(s)
                          \/ ClickAnalyze(s) \/ ClickRemove(s)
    \/ \E i \in Ids : ClickRow(i) \/ ClickDrop(i) \/ ClickSchedule(i)
    \/ ClickView \/ ClickTick

Answer(r) ==
    \/ HandleSourceCreated(r) \/ OnAnalyzed(r) \/ OnTick(r) \/ OnScheduled(r) \/ OnMoment(r)
    \/ HandleSourceDeleted(r) \/ HandleCandidateDeleted(r)
    \/ InitSources(r) \/ InitRest(r) \/ RefreshSources(r)
    \/ ScheduledArrives(r) \/ RefreshCandidates(r)

Next ==
    \/ User
    \/ \E r \in Slots :
         Serve(r) \/ Answer(r) \/ Fails(r) \/ \E w \in Lists : Read(r, w)

Spec == Init /\ [][Next]_vars

-----------------------------------------------------------------------------
(* Properties *)

About(op) ==
    CASE op \in {"moment", "analyze", "create", "remove"} -> Sources
      [] op \in {"drop", "schedule"} -> Ids
      [] op = "tick" -> {"tick"}
      [] OTHER -> {None}

Ops == Kinds \cup {"init", "all", "load", "schedule"}

\* The shape of a request; which values go together TypeOK says.
Requests ==
    [op : Ops, sent : BOOLEAN, served : BOOLEAN,
     id : Sources \cup Ids \cup {"tick", None}, sel : Sources \cup {None},
     list : (SUBSET Sources) \cup (SUBSET Ids), again : SUBSET Sources,
     get : UNION {[W -> (SUBSET Sources) \cup (SUBSET Ids) \cup {None}] : W \in SUBSET Lists}]

\* What the tables, the page and the requests range over; a closed over list is of
\* sources, that of a moment of the candidates it proposed.
TypeOK ==
    /\ twice \subseteq sources /\ early \subseteq Sources
    /\ srcs \subseteq Sources /\ cands \subseteq Ids /\ queue \subseteq cands
    /\ sources \subseteq Sources /\ candidates \subseteq Ids /\ scheduled \subseteq Ids
    /\ selected \in Sources \cup {None} /\ opened \in Ids \cup {None} /\ table \in BOOLEAN
    /\ \A k \in Kinds : busy[k] \in About(k) \cup {None}
    /\ \A r \in Slots : job[r] # None =>
         /\ job[r].op \in Ops /\ job[r].id \in About(job[r].op)
         /\ job[r].sel \in Sources \cup {None} /\ DOMAIN job[r].get \subseteq Lists
         /\ job[r].list \subseteq IF job[r].op = "moment" /\ job[r].served THEN Ids ELSE Sources
         /\ \A w \in DOMAIN job[r].get : job[r].get[w] # None =>
              job[r].get[w] \subseteq IF w = "sources" THEN Sources ELSE Ids
    /\ acts \in 0..MaxActs /\ faults \in 0..MaxFaults /\ outdated \in BOOLEAN

\* When nothing is under way the page shows what the server holds: the sources, one of
\* them selected, its candidates, and the schedule; unless a request failed, an answer was
\* shown that was older than the present or closed over another selection, or an analysis
\* was asked for while nothing was selected.  Each source is listed once, except one that
\* was listed before the answer to its creation, until the list is read again.
ListsMatch ==
    Quiet /\ ~outdated =>
        /\ sources = srcs /\ twice \subseteq early /\ scheduled = queue
        /\ IF srcs = {} THEN selected = None ELSE selected \in srcs
        /\ candidates = {i \in cands : i[1] = selected}
        /\ opened \in candidates \cup {None}

\* A control is disabled only while a request of its kind is under way, though several
\* may be, and fail.
ControlsComeBack ==
    \A k \in Kinds : busy[k] # None =>
        \E r \in Slots : job[r] # None /\ job[r].op = k /\ job[r].id = busy[k]
=============================================================================
