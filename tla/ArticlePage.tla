----------------------------- MODULE ArticlePage -----------------------------
(***************************************************************************)
(* The page of the article factory.  As in FactoryPage, requests overlap   *)
(* and their answers run the closures of the render they were made in; here*)
(* a post is removed by its own card, whose flag lives as long as the card *)
(* is mounted, and the schedule is kept in the candidates themselves.      *)
(***************************************************************************)
EXTENDS Integers

CONSTANTS
    Sources,        \* identifiers of articles, numbered as they are created
    MaxRank,        \* bound: candidates of an article
    Slots,          \* bound: requests in progress at the same time
    MaxActs,        \* bound: what the user does
    MaxFaults,      \* bound: requests that fail
    None

Ids == Sources \X (1..MaxRank)

VARIABLES
    srcs, cands, queue,                 \* the tables of the server
    made,                               \* the last identifier of an article given out
    sources, candidates, scheduled,     \* the lists the page shows
    twice,                              \* sources that are listed more than once
    selected,                           \* the selected article
    busy,           \* what each kind of request is in progress for, which disables controls
    deleting,       \* of each candidate: the request its mounted card waits for
    job,            \* the requests in progress, with what they closed over
    acts, faults,   \* bounds
    early,          \* history: sources listed before the answer to their creation, since
                    \* the list was last read
    outdated        \* history: an answer was shown that no longer held, or was lost

server == <<srcs, cands, queue, made>>
listed == <<sources, twice, early>>
lists == <<listed, candidates, scheduled>>
vars == <<server, lists, selected, busy, deleting, job, acts, faults, outdated>>

Kinds == {"create", "tick", "analyze", "remove"}
Lists == {"sources", "scheduled", "candidates"}

Fetch(op, whats, sel) ==
    [op |-> op, sent |-> FALSE, served |-> FALSE, id |-> None, sel |-> sel, list |-> {},
     again |-> {}, get |-> [w \in whats |-> None]]
Post(op, id) ==
    [op |-> op, sent |-> TRUE, served |-> FALSE, id |-> id, sel |-> selected,
     list |-> sources, again |-> twice, get |-> [w \in {} |-> None]]

Quiet == \A r \in Slots : job[r] = None
Loading == \E r \in Slots : job[r] # None /\ job[r].op = "init"

First(S) == IF S = {} THEN None ELSE CHOOSE s \in S : \A t \in S : t <= s

Init ==
    /\ made \in {0} \cup Sources /\ srcs = {s \in Sources : s <= made}
    /\ cands = {i \in Ids : i[1] \in srcs /\ i[2] = 1} /\ queue = {}
    /\ sources = {} /\ twice = {} /\ early = {} /\ candidates = {} /\ scheduled = {} /\ selected = None
    /\ busy = [k \in Kinds |-> None] /\ deleting = [i \in Ids |-> None]
    /\ \E r \in Slots :
         job = [s \in Slots |-> IF s = r THEN Fetch("init", {"sources"}, None) ELSE None]
    /\ acts = 0 /\ faults = 0 /\ outdated = FALSE

-----------------------------------------------------------------------------
(* What the server does with a request *)

CreateArticleSource(s) ==
    srcs' = srcs \cup {s} /\ UNCHANGED <<cands, queue>>
DeleteArticleSource(s) ==
    /\ srcs' = srcs \ {s}
    /\ cands' = {i \in cands : i[1] # s} /\ queue' = {i \in queue : i[1] # s}
AnalyzeArticleSource(s) ==
    /\ s \in srcs
    /\ \E n \in 1..MaxRank : cands' = {i \in cands : i[1] # s} \cup ({s} \X (1..n))
    /\ queue' = {i \in queue : i[1] # s} /\ UNCHANGED srcs
DeleteArticleCandidate(i) == cands' = cands \ {i} /\ queue' = queue \ {i} /\ UNCHANGED srcs
ScheduleArticleCandidate(i) ==
    i \in cands /\ queue' = queue \cup {i} /\ UNCHANGED <<srcs, cands>>
\* A tick marks posts as ready; they keep their date and stay in the list.
TickArticleScheduler == UNCHANGED <<srcs, cands, queue>>

FetchArticleSources == srcs
FetchArticleCandidates(sel) == {i \in cands : sel = None \/ i[1] = sel}
FetchArticleScheduled == queue
Stored(what, sel) ==
    CASE what = "sources" -> FetchArticleSources
      [] what = "scheduled" -> FetchArticleScheduled
      [] what = "candidates" -> FetchArticleCandidates(sel)

Serve(r) ==
    LET j == job[r] IN
    /\ j # None /\ j.sent /\ ~j.served /\ job' = [job EXCEPT ![r].served = TRUE]
    /\ \/ j.op = "create" /\ CreateArticleSource(j.id)
       \/ j.op = "remove" /\ DeleteArticleSource(j.id)
       \/ j.op = "drop" /\ DeleteArticleCandidate(j.id)
       \/ j.op = "analyze" /\ AnalyzeArticleSource(j.id)
       \/ j.op = "schedule" /\ ScheduleArticleCandidate(j.id)
       \/ j.op = "tick" /\ TickArticleScheduler
    /\ UNCHANGED <<made, lists, selected, busy, deleting, acts, faults, outdated>>

Read(r, what) ==
    /\ job[r] # None /\ what \in DOMAIN job[r].get /\ job[r].get[what] = None
    /\ job' = [job EXCEPT ![r].get[what] = Stored(what, job[r].sel)]
    /\ UNCHANGED <<server, lists, selected, busy, deleting, acts, faults, outdated>>

-----------------------------------------------------------------------------
(* The user *)

Act == acts < MaxActs /\ acts' = acts + 1
Begin(op, id) ==
    /\ Act
    /\ \E r \in Slots :
         /\ job[r] = None /\ job' = [job EXCEPT ![r] = Post(op, id)]
         /\ deleting' = IF op = "drop" THEN [deleting EXCEPT ![id] = r] ELSE deleting
    /\ busy' = IF op \in Kinds THEN [busy EXCEPT ![op] = id] ELSE busy
    /\ UNCHANGED <<srcs, cands, queue, lists, selected, faults, outdated>>

\* setSelectedSourceId, and the effect that loads the candidates when it changes.
Select(s, jobs) ==
    /\ selected' = s
    /\ IF s \in {selected, None} THEN job' = jobs
       ELSE \E f \in Slots :
              jobs[f] = None /\ job' = [jobs EXCEPT ![f] = Fetch("load", {"candidates"}, s)]

ClickSource(s) ==
    /\ Act /\ s \in sources /\ s # selected /\ Select(s, job)
    /\ UNCHANGED <<server, lists, busy, deleting, faults, outdated>>

IngestForm == busy["create"] = None
SubmitSource(s) == IngestForm /\ s = made + 1 /\ made' = s /\ Begin("create", s)

Idle(s) == s \in sources /\ s \notin {busy["analyze"], busy["remove"]}
ClickAnalyze(s) == Idle(s) /\ UNCHANGED made /\ Begin("analyze", s)
ClickRemove(s) == Idle(s) /\ UNCHANGED made /\ Begin("remove", s)

TickButton == busy["tick"] = None
ClickTick == TickButton /\ UNCHANGED made /\ Begin("tick", "tick")

Cards == IF Loading THEN {} ELSE candidates
DeleteButton(i) == i \in Cards /\ deleting[i] = None
ClickDelete(i) == DeleteButton(i) /\ UNCHANGED made /\ Begin("drop", i)
ClickSchedule(i) == i \in Cards /\ UNCHANGED made /\ Begin("schedule", i)

-----------------------------------------------------------------------------
(* Answers *)

Answered(r, op) == job[r] # None /\ job[r].op = op /\ job[r].served
Then(r, j) == [job EXCEPT ![r] = j]
Finally(r) == busy' = IF job[r].op \in Kinds THEN [busy EXCEPT ![job[r].op] = None] ELSE busy
Unless(holds) == outdated' = (outdated \/ ~holds)

\* Cards that leave the list are unmounted, and their flags with them.
Show(new) ==
    /\ candidates' = new
    /\ deleting' = [i \in Ids |-> IF i \in new THEN deleting[i] ELSE None]

RefreshAll(sel) == Fetch("all", {"sources", "scheduled"}, sel)
RefreshScheduled == Fetch("remove", {"scheduled"}, None)

\* The article goes before the others, though a list read meanwhile may have brought it.
HandleSourceCreated(r) ==
    LET s == job[r].id IN
    /\ Answered(r, "create") /\ Finally(r)
    /\ sources' = sources \cup {s} /\ twice' = twice \cup ({s} \cap sources)
    /\ early' = early \cup ({s} \cap sources) /\ Show({}) /\ Select(s, Then(r, None))
    /\ Unless(s \in srcs /\ FetchArticleCandidates(s) = {})
    /\ UNCHANGED <<server, scheduled, acts, faults>>

\* What was selected when the request was made is refreshed: if nothing was, no candidates,
\* though an analysis has replaced some.
Refreshes(r) ==
    /\ Finally(r) /\ job' = Then(r, RefreshAll(job[r].sel))
    /\ Unless(job[r].op = "analyze" => job[r].sel # None)
    /\ UNCHANGED <<server, lists, selected, deleting, acts, faults>>
OnAnalyzed(r) == Answered(r, "analyze") /\ Refreshes(r)
OnTick(r) == Answered(r, "tick") /\ Refreshes(r)

OnScheduled(r) ==
    /\ Answered(r, "schedule") /\ job' = Then(r, [RefreshScheduled EXCEPT !.op = "list"])
    /\ UNCHANGED <<server, lists, selected, busy, deleting, acts, faults, outdated>>

\* The list and the selection are those of the render in which the article was removed.
HandleSourceDeleted(r) ==
    LET s == job[r].id
        remaining == job[r].list \ {s}
    IN
    /\ Answered(r, "remove") /\ sources' = remaining
    /\ twice' = job[r].again \ {s} /\ UNCHANGED early
    /\ LET jobs == Then(r, [RefreshScheduled EXCEPT !.id = s]) IN
       IF job[r].sel = s
       THEN Select(First(remaining), jobs) /\ Show(IF remaining = {} THEN {} ELSE candidates)
       ELSE job' = jobs /\ UNCHANGED <<selected, candidates, deleting>>
    /\ Unless(/\ s \notin srcs /\ job[r].sel = selected
              /\ job[r].list = sources /\ job[r].again = twice)
    /\ UNCHANGED <<server, scheduled, busy, acts, faults>>

HandleCandidateDeleted(r) ==
    LET i == job[r].id IN
    /\ Answered(r, "drop") /\ Show(candidates \ {i})
    /\ job' = Then(r, [RefreshScheduled EXCEPT !.op = "list"]) /\ Unless(i \notin cands)
    /\ UNCHANGED <<server, listed, scheduled, selected, busy, acts, faults>>

-----------------------------------------------------------------------------
(* Lists that arrive *)

Arrives(r, what) ==
    job[r] # None /\ what \in DOMAIN job[r].get /\ job[r].get[what] # None
Data(r, what) == job[r].get[what]
Shown(r, what) ==
    Unless(/\ Data(r, what) = Stored(what, job[r].sel)
           /\ what = "candidates" => job[r].sel = selected)

Rest(r, what) ==
    LET rest == DOMAIN job[r].get \ {what} IN
    IF rest # {} THEN Then(r, [job[r] EXCEPT !.get = [w \in rest |-> @[w]]])
    ELSE IF job[r].op = "all" /\ what # "candidates" /\ job[r].sel # None
    THEN Then(r, Fetch("all", {"candidates"}, job[r].sel))
    ELSE Then(r, None)

\* A list that arrives takes the place of the one shown, with what that had twice.
ShowSources(got) == sources' = got /\ twice' = {} /\ early' = {}

InitSources(r) ==
    LET got == Data(r, "sources") IN
    /\ Arrives(r, "sources") /\ job[r].op = "init" /\ Shown(r, "sources")
    /\ ShowSources(got)
    /\ Select(First(got), Then(r, Fetch("init", {"candidates", "scheduled"}, First(got))))
    /\ UNCHANGED <<server, candidates, scheduled, busy, deleting, acts, faults>>

InitRest(r) ==
    /\ Arrives(r, "candidates") /\ Arrives(r, "scheduled") /\ job[r].op = "init"
    /\ Show(Data(r, "candidates")) /\ scheduled' = Data(r, "scheduled")
    /\ Unless(/\ Data(r, "candidates") = FetchArticleCandidates(selected)
              /\ Data(r, "scheduled") = queue)
    /\ job' = Then(r, None)
    /\ UNCHANGED <<server, listed, selected, busy, acts, faults>>

\* Unlike the page of the clips, a refresh selects nothing.
RefreshSources(r) ==
    /\ Arrives(r, "sources") /\ job[r].op = "all" /\ Shown(r, "sources")
    /\ ShowSources(Data(r, "sources")) /\ job' = Rest(r, "sources")
    /\ UNCHANGED <<server, candidates, scheduled, selected, busy, deleting, acts, faults>>

ScheduledArrives(r) ==
    /\ Arrives(r, "scheduled") /\ job[r].op # "init" /\ Shown(r, "scheduled")
    /\ scheduled' = Data(r, "scheduled") /\ job' = Rest(r, "scheduled") /\ Finally(r)
    /\ UNCHANGED <<server, listed, candidates, selected, deleting, acts, faults>>

RefreshCandidates(r) ==
    /\ Arrives(r, "candidates") /\ job[r].op # "init" /\ Shown(r, "candidates")
    /\ Show(Data(r, "candidates")) /\ job' = Rest(r, "candidates")
    /\ UNCHANGED <<server, listed, scheduled, selected, busy, acts, faults>>

\* A request fails, whether or not the server has served it.
Fails(r) ==
    /\ faults < MaxFaults /\ faults' = faults + 1 /\ job[r] # None
    /\ Finally(r)
    /\ deleting' = [i \in Ids |-> IF deleting[i] = r THEN None ELSE deleting[i]]
    /\ job' = Then(r, IF job[r].op = "analyze" THEN RefreshAll(job[r].sel) ELSE None)
    /\ Unless(\/ job[r].op = "analyze" /\ job[r].sel # None
              \/ job[r].sent /\ ~job[r].served)
    /\ UNCHANGED <<server, lists, selected, acts>>

User ==
    \/ \E s \in Sources :
         ClickSource(s) \/ SubmitSource(s) \/ ClickAnalyze(s) \/ ClickRemove(s)
    \/ \E i \in Ids : ClickDelete(i) \/ ClickSchedule(i)
    \/ ClickTick

Answer(r) ==
    \/ HandleSourceCreated(r) \/ OnAnalyzed(r) \/ OnTick(r) \/ OnScheduled(r)
    \/ HandleSourceDeleted(r) \/ HandleCandidateDeleted(r)
    \/ InitSources(r) \/ InitRest(r) \/ RefreshSources(r)
    \/ ScheduledArrives(r) \/ RefreshCandidates(r)

Next ==
    \/ User
    \/ \E r \in Slots :
         Serve(r) \/ Answer(r) \/ Fails(r) \/ \E w \in Lists : Read(r, w)

Spec == Init /\ [][Next]_vars

-----------------------------------------------------------------------------
(* Properties *)

About(op) ==
    CASE op \in {"analyze", "create", "remove"} -> Sources
      [] op \in {"drop", "schedule"} -> Ids
      [] op = "tick" -> {"tick"}
      [] OTHER -> {None}

Ops == Kinds \cup {"init", "all", "load", "drop", "schedule", "list"}

\* The shape of a request; which values go together TypeOK says.
Requests ==
    [op : Ops, sent : BOOLEAN, served : BOOLEAN,
     id : Sources \cup Ids \cup {"tick", None}, sel : Sources \cup {None},
     list : SUBSET Sources, again : SUBSET Sources,
     get : UNION {[W -> (SUBSET Sources) \cup (SUBSET Ids) \cup {None}] : W \in SUBSET Lists}]

\* What the tables, the page and the requests range over.
TypeOK ==
    /\ twice \subseteq sources /\ early \subseteq Sources
    /\ srcs \subseteq Sources /\ cands \subseteq Ids /\ queue \subseteq cands
    /\ made \in {0} \cup Sources
    /\ sources \subseteq Sources /\ candidates \subseteq Ids /\ scheduled \subseteq Ids
    /\ selected \in Sources \cup {None} /\ deleting \in [Ids -> Slots \cup {None}]
    /\ \A k \in Kinds : busy[k] \in About(k) \cup {None}
    /\ \A r \in Slots : job[r] # None =>
         /\ job[r].op \in Ops /\ job[r].id \in About(job[r].op)
         /\ job[r].sel \in Sources \cup {None} /\ DOMAIN job[r].get \subseteq Lists
         /\ job[r].list \subseteq Sources
         /\ \A w \in DOMAIN job[r].get : job[r].get[w] # None =>
              job[r].get[w] \subseteq IF w = "sources" THEN Sources ELSE Ids
    /\ acts \in 0..MaxActs /\ faults \in 0..MaxFaults /\ outdated \in BOOLEAN

\* When nothing is under way the page shows what the server holds, unless a request
\* failed, an answer was shown that was older than the present or closed over another
\* selection, or an analysis was asked for while nothing was selected.  Each article is
\* listed once, except one that was listed before the answer to its creation, until the
\* list is read again.
ListsMatch ==
    Quiet /\ ~outdated =>
        /\ sources = srcs /\ twice \subseteq early /\ scheduled = queue
        /\ IF srcs = {} THEN selected = None ELSE selected \in srcs
        /\ candidates = {i \in cands : i[1] = selected}

\* A control is disabled only while a request of its kind is under way; the flag of a card
\* is of the request that very card has made.
ControlsComeBack ==
    /\ \A k \in Kinds : busy[k] # None =>
         \E r \in Slots : job[r] # None /\ job[r].op = k /\ job[r].id = busy[k]
    /\ \A i \in Ids : deleting[i] # None =>
         /\ i \in candidates
         /\ job[deleting[i]] # None /\ job[deleting[i]].op = "drop" /\ job[deleting[i]].id = i
=============================================================================
