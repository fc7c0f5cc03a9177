---------------------------- MODULE ArticleFactory ----------------------------
(***************************************************************************)
(* The article factory: articles, the posts an analysis proposes for them, *)
(* and their schedule, which is kept in the row of the candidate.  As in   *)
(* PostFactory, requests overlap between statements, scripts and files;    *)
(* identifiers of articles carry the time and are not used again, those of *)
(* candidates are, by the next analysis.                                   *)
(***************************************************************************)
EXTENDS Integers, Sequences, FiniteSets

CONSTANTS
    Articles,       \* identifiers of article sources
    MaxRank,        \* bound: candidates of an article
    Requests,       \* requests that may be in progress at the same time
    Texts,          \* post texts, up to the attribution every writer appends
    MaxTime,        \* bound: the clock
    MaxRequests,    \* bound: requests made, ticks of the scheduler aside
    MaxFaults,      \* bound: crashes and statements that fail with SQLITE_BUSY
    None            \* no row, no file, no date

Ids == Articles \X (1..MaxRank)     \* <<article, rank>>, the identifier "article-cNN"

Statuses == {"ingested", "analyzing", "analyzed", "failed", "deleted"}      \* of an article
Row == [text : Texts, status : {"proposed", "scheduled", "ready"},
        at : (0..MaxTime) \cup {None}, of : 0..MaxRequests]

ASSUME ArticlesAreFinite == IsFiniteSet(Articles)
ASSUME BoundsAreNumbers == {MaxRank, MaxTime, MaxRequests, MaxFaults} \subseteq Nat
ASSUME NoneIsNoValue ==
    None \notin Articles \cup Ids \cup Texts \cup Row \cup Statuses /\ None \notin Nat

VARIABLES
    article,        \* table article_sources: the status, None before there is a row
    row,            \* table article_candidates
    analysis,       \* drafts/<article>/analysis.json: the analysis that wrote it
    draft,          \* drafts/<id>/meta.json: the post text it carries
    job,            \* the requests in progress
    now,            \* the clock
    issued, faults, \* how many requests and faults there were (bounds)
    handed,         \* history: candidates the scheduler handed over since they were scheduled
    disturbed       \* history: candidates two requests worked on at once, or whose
                    \* request was cut short, since they were scheduled

vars == <<article, row, analysis, draft, job, now, issued, faults, handed, disturbed>>

Idle == [op |-> "none", stage |-> "idle", src |-> None, of |-> 0, id |-> None,
         seen |-> None, rest |-> <<>>]

\* Fault: a candidate is inserted with the status of the one it replaces.
ProposedScheduled(text, of) == [text |-> text, status |-> "scheduled", at |-> None, of |-> of]

Proposed(text, of) == [text |-> text, status |-> "proposed", at |-> None, of |-> of]

\* An article is new, or was analysed before.
Init ==
    /\ article \in [Articles -> {None, "analyzed"}]
    /\ \E t \in Texts : row = [i \in Ids |-> IF article[i[1]] = None THEN None ELSE Proposed(t, 0)]
    /\ analysis = [a \in Articles |-> IF article[a] = None THEN None ELSE 0]
    /\ draft = [i \in Ids |-> None] /\ job = [r \in Requests |-> Idle]
    /\ now = 0 /\ issued = 0 /\ faults = 0 /\ handed = {} /\ disturbed = {}

-----------------------------------------------------------------------------
(* What the actions share *)

\* Candidates a request works on, or has on its list.
Holds(j) == {i \in Ids : i = j.id \/ \E k \in DOMAIN j.rest : j.rest[k] = i}
Held == UNION {Holds(job[r]) : r \in Requests}

Request == issued < MaxRequests /\ issued' = issued + 1
Start(r, j) == job[r] = Idle /\ job' = [job EXCEPT ![r] = j]
Begin(r, j) == Request /\ Start(r, j)
Goto(r, stage) == job' = [job EXCEPT ![r].stage = stage]
End(r) == job' = [job EXCEPT ![r] = Idle]
At(r, stage) == job[r].stage = stage
Fault == faults < MaxFaults /\ faults' = faults + 1
Disturb(i) == disturbed' = IF i \in Held THEN disturbed \cup {i} ELSE disturbed

Exists(a) == article[a] \notin {None, "deleted"}
CandidatesOf(a) == {i \in Ids : i[1] = a}

\* Statements that return an error the caller drops may not have run.
SetArticleSourceStatus(a, status) ==
    \/ article' = (IF Exists(a) THEN [article EXCEPT ![a] = status] ELSE article) /\ UNCHANGED faults
    \/ Fault /\ UNCHANGED article

UpdateText(i, text) == IF row[i] = None THEN row ELSE [row EXCEPT ![i].text = text]

-----------------------------------------------------------------------------
(* Articles and their analysis *)

CreateArticleSource(a) ==
    /\ Request /\ article[a] = None
    /\ article' = [article EXCEPT ![a] = "ingested"]
    /\ UNCHANGED <<row, analysis, draft, job, now, faults, handed, disturbed>>

DeleteArticleSource(a) ==
    /\ Request /\ Exists(a)
    /\ article' = [article EXCEPT ![a] = "deleted"]
    /\ row' = [i \in Ids |-> IF i[1] = a THEN None ELSE row[i]]
    /\ disturbed' = disturbed \cup (CandidatesOf(a) \cap Held)
    /\ UNCHANGED <<analysis, draft, job, now, faults, handed>>

\* An analysis is known by the number of its request.
Analyze(r, a) ==
    /\ Exists(a)
    /\ Begin(r, [Idle EXCEPT !.op = "analyze", !.stage = "run", !.src = a, !.of = issued'])
    /\ SetArticleSourceStatus(a, "analyzing")
    /\ UNCHANGED <<row, analysis, draft, now, handed, disturbed>>

\* FetchArticle, the profiles, analyze.sh, which writes the result of every analysis of
\* an article to the same file.
RunAnalyzer(r) ==
    /\ At(r, "run")
    /\ analysis' = [analysis EXCEPT ![job[r].src] = job[r].of]
    /\ Goto(r, "read")
    /\ UNCHANGED <<article, row, draft, now, issued, faults, handed, disturbed>>

\* The result is read from the file, by whomever written; from the output of the
\* script when the file is just being written.
ReadAnalysis(r) ==
    /\ At(r, "read")
    /\ \E of \in {analysis[job[r].src], job[r].of} :
         job' = [job EXCEPT ![r] = [@ EXCEPT !.of = of, !.stage = "insert"]]
    /\ UNCHANGED <<article, row, analysis, draft, now, issued, faults, handed, disturbed>>

\* Fault: new candidates are written over the old, of which the surplus stays.
RewrittenInPlace(a, n, text, of) ==
    [i \in Ids |-> IF i[1] = a /\ i[2] \in 1..n THEN Proposed(text, of) ELSE row[i]]

\* The rows of the article are deleted and inserted in one transaction.
Rewritten(a, n, text, of) ==
    [i \in Ids |-> IF i[1] # a THEN row[i]
                   ELSE IF i[2] \in 1..n THEN Proposed(text, of) ELSE None]

InsertArticleCandidates(r) ==
    LET a == job[r].src IN
    /\ At(r, "insert") /\ Exists(a)
    /\ \E n \in 1..MaxRank : \E text \in Texts : row' = Rewritten(a, n, text, job[r].of)
    /\ disturbed' = disturbed \cup (CandidatesOf(a) \cap Held)
    /\ Goto(r, "done")
    /\ UNCHANGED <<article, analysis, draft, now, issued, faults, handed>>

\* The article, the model, a profile, or the insertion fails.
AnalysisFails(r) ==
    /\ job[r].stage \in {"run", "read", "insert"} /\ Goto(r, "failed")
    /\ UNCHANGED <<article, row, analysis, draft, now, issued, faults, handed, disturbed>>

FinishAnalysis(r) ==
    /\ job[r].stage \in {"done", "failed"} /\ End(r)
    /\ SetArticleSourceStatus(job[r].src, IF At(r, "done") THEN "analyzed" ELSE "failed")
    /\ UNCHANGED <<row, analysis, draft, now, issued, handed, disturbed>>

-----------------------------------------------------------------------------
(* Candidates *)

PatchArticleCandidate(i, text) ==
    /\ Request /\ row[i] # None
    /\ row' = UpdateText(i, text) /\ Disturb(i)
    /\ UNCHANGED <<article, analysis, draft, job, now, faults, handed>>

DeleteArticleCandidate(i) ==
    /\ Request /\ row[i] # None
    /\ row' = [row EXCEPT ![i] = None] /\ Disturb(i)
    /\ UNCHANGED <<article, analysis, draft, job, now, faults, handed>>

RewriteArticleCandidate(r, i) ==
    /\ row[i] # None /\ Disturb(i)
    /\ Begin(r, [Idle EXCEPT !.op = "rewrite", !.stage = "rewrite", !.id = i])
    /\ UNCHANGED <<article, row, analysis, draft, now, faults, handed>>

FinishRewrite(r) ==
    /\ At(r, "rewrite") /\ End(r)
    /\ \/ \E text \in Texts : row' = UpdateText(job[r].id, text)
       \/ UNCHANGED row
    /\ UNCHANGED <<article, analysis, draft, now, issued, faults, handed, disturbed>>

\* The schedule starts afresh: date, status and history.
ScheduleArticleCandidate(i, at) ==
    /\ Request /\ row[i] # None
    /\ row' = [row EXCEPT ![i] = [@ EXCEPT !.at = at, !.status = "scheduled"]]
    /\ handed' = handed \ {i}
    /\ disturbed' = IF i \in Held THEN disturbed \cup {i} ELSE disturbed \ {i}
    /\ UNCHANGED <<article, analysis, draft, job, now, faults>>

-----------------------------------------------------------------------------
(* Posting: at once, or by the scheduler when a post is due *)

\* Fault: the row is read before the text of the request is stored.
TextBefore(i) == row[i].text

\* runPrepareArticleCandidate reads the row.
TextRead(i) == row'[i].text

PostNow(r, i, text) ==
    /\ row[i] # None /\ Disturb(i)
    /\ row' = IF text = None THEN row ELSE UpdateText(i, text)
    /\ Begin(r, [Idle EXCEPT !.op = "post", !.stage = "draft", !.id = i, !.seen = TextRead(i)])
    /\ UNCHANGED <<article, analysis, draft, now, faults, handed>>

\* Fault: a date is enough, whatever the status.
DueByDate(i) == row[i] # None /\ row[i].at # None /\ row[i].at <= now

Due(i) ==
    row[i] # None /\ row[i].status = "scheduled" /\ row[i].at # None /\ row[i].at <= now

\* ListDueArticleCandidates, once, ordered by date.
Tick(r) ==
    LET due == {i \in Ids : Due(i)} IN
    /\ \E q \in [1..Cardinality(due) -> due] :
         /\ \A a, b \in DOMAIN q : a < b => q[a] # q[b] /\ row[q[a]].at <= row[q[b]].at
         /\ Start(r, [Idle EXCEPT !.op = "tick", !.stage = "next", !.rest = q])
    /\ disturbed' = disturbed \cup (due \cap Held)
    /\ UNCHANGED <<article, row, analysis, draft, now, issued, faults, handed>>

\* The next candidate of the list, read when its turn comes.
NextDue(r) ==
    LET j == [job[r] EXCEPT !.rest = Tail(@)]
        i == Head(job[r].rest)
    IN
    /\ At(r, "next")
    /\ job' = [job EXCEPT ![r] =
                 IF job[r].rest = <<>> THEN Idle
                 ELSE IF row[i] = None THEN j
                 ELSE [j EXCEPT !.id = i, !.seen = row[i].text, !.stage = "draft"]]
    /\ UNCHANGED <<article, row, analysis, draft, now, issued, faults, handed, disturbed>>

\* Fault: the first post that cannot be prepared ends the tick.
GiveUpAll(r) == End(r)

\* A post that cannot be prepared is left for the next tick, which goes on with the others.
GiveUp(r) ==
    IF job[r].op = "post" THEN End(r)
    ELSE job' = [job EXCEPT ![r] = [@ EXCEPT !.id = None, !.stage = "next"]]

WriteArticleDraft(r, i) ==
    /\ At(r, "draft") /\ job[r].id = i
    /\ draft' = [draft EXCEPT ![i] = job[r].seen] /\ Goto(r, "prepare")
    /\ UNCHANGED <<article, row, analysis, now, issued, faults, handed, disturbed>>

\* Fault: the post is marked before it is handed over.
MarkedFirst(r) == Goto(r, "mark") /\ UNCHANGED handed

\* prepare-post.sh puts the text of meta.json on the clipboard and opens the browser.
HandedOver(r) ==
    IF job[r].op = "tick" THEN Goto(r, "mark") /\ handed' = handed \cup {job[r].id}
                          ELSE End(r) /\ UNCHANGED handed

PrepareArticlePost(r, i) ==
    /\ At(r, "prepare") /\ job[r].id = i
    /\ HandedOver(r)
    /\ UNCHANGED <<article, row, analysis, draft, now, issued, faults, disturbed>>

PrepareFails(r) ==
    /\ job[r].stage \in {"draft", "prepare"} /\ GiveUp(r)
    /\ UNCHANGED <<article, row, analysis, draft, now, issued, faults, handed, disturbed>>

\* UPDATE ... SET status = 'ready', whatever the row says by now; the error is dropped.
MarkArticleCandidatePrepared(r) ==
    LET i == job[r].id IN
    /\ At(r, "mark")
    /\ \/ /\ row' = IF row[i] = None THEN row ELSE [row EXCEPT ![i].status = "ready"]
          /\ UNCHANGED <<faults, disturbed>>
       \/ Fault /\ disturbed' = disturbed \cup {i} /\ UNCHANGED row
    /\ job' = [job EXCEPT ![r] = [@ EXCEPT !.id = None, !.stage = "next"]]
    /\ UNCHANGED <<article, analysis, draft, now, issued, handed>>

-----------------------------------------------------------------------------
Clock ==
    /\ now < MaxTime /\ now' = now + 1
    /\ UNCHANGED <<article, row, analysis, draft, job, issued, faults, handed, disturbed>>

\* The server stops; the database and the files stay.
Crash ==
    /\ Fault /\ job' = [r \in Requests |-> Idle] /\ disturbed' = disturbed \cup Held
    /\ UNCHANGED <<article, row, analysis, draft, now, issued, handed>>

AnalysisStep(r) ==
    RunAnalyzer(r) \/ ReadAnalysis(r) \/ InsertArticleCandidates(r) \/ AnalysisFails(r)
    \/ FinishAnalysis(r)
PostStep(r) ==
    \/ NextDue(r) \/ PrepareFails(r) \/ MarkArticleCandidatePrepared(r)
    \/ \E i \in Ids : WriteArticleDraft(r, i) \/ PrepareArticlePost(r, i)

Next ==
    \/ \E a \in Articles : CreateArticleSource(a) \/ DeleteArticleSource(a)
    \/ \E i \in Ids :
         \/ DeleteArticleCandidate(i) \/ \E text \in Texts : PatchArticleCandidate(i, text)
         \/ \E at \in 0..MaxTime : ScheduleArticleCandidate(i, at)
    \/ \E r \in Requests :
         \/ \E a \in Articles : Analyze(r, a)
         \/ \E i \in Ids : RewriteArticleCandidate(r, i)
                           \/ \E text \in Texts \cup {None} : PostNow(r, i, text)
         \/ Tick(r) \/ FinishRewrite(r) \/ AnalysisStep(r) \/ PostStep(r)
    \/ Clock \/ Crash

Spec == Init /\ [][Next]_vars

\* The user, or a timer, keeps ticking, and requests in progress go on.
FairSpec ==
    /\ Spec /\ WF_vars(\E r \in Requests : Tick(r))
    /\ \A r \in Requests : WF_vars(FinishRewrite(r) \/ AnalysisStep(r) \/ PostStep(r))

-----------------------------------------------------------------------------
(* Properties *)

Stages == {"idle", "run", "read", "insert", "done", "failed", "rewrite", "next", "draft",
           "prepare", "mark"}
Jobs == [op : {"none", "analyze", "rewrite", "post", "tick"}, stage : Stages,
         src : Articles \cup {None}, of : 0..MaxRequests, id : Ids \cup {None},
         seen : Texts \cup {None}, rest : Seq(Ids)]

\* Tables, files and requests are well formed, and a scheduled candidate has a date.
TypeOK ==
    /\ article \in [Articles -> Statuses \cup {None}]
    /\ row \in [Ids -> Row \cup {None}]
    /\ \A i \in Ids : row[i] # None /\ row[i].status = "scheduled" => row[i].at # None
    /\ analysis \in [Articles -> (0..MaxRequests) \cup {None}]
    /\ draft \in [Ids -> Texts \cup {None}] /\ job \in [Requests -> Jobs]
    /\ now \in 0..MaxTime /\ issued \in 0..MaxRequests /\ faults \in 0..MaxFaults
    /\ handed \subseteq Ids /\ disturbed \subseteq Ids
    /\ \A r \in Requests : job[r].stage \in {"draft", "prepare", "mark"} => job[r].id \in Ids

\* The candidates of an article all come from one analysis, and none survives its article,
\* however analyses of it overlap, share their files, and are cut short.
OneAnalysis ==
    /\ \A i \in Ids : row[i] # None => Exists(i[1])
    /\ \A i, k \in Ids : row[i] # None /\ row[k] # None /\ i[1] = k[1] => row[i].of = row[k].of

\* A post shown as ready was handed to the user by the scheduler since it was scheduled,
\* unless it was touched while the scheduler worked on it.
ReadyWasHanded ==
    \A i \in Ids \ disturbed : row[i] # None /\ row[i].status = "ready" => i \in handed

\* The scheduler hands a post over once for each time it is scheduled, though ticks are
\* repeated and may fail, unless they overlap or the mark is not written.
HandedOnce ==
    [][\A r \in Requests, i \in Ids :
          i \in handed /\ i \notin disturbed => ~PrepareArticlePost(r, i) \/ job[r].op = "post"]_vars

\* What is put on the clipboard is the text the candidate has, though it is read from a
\* file that earlier requests and earlier candidates of that identifier have written.
HandsOverCurrentText ==
    [][\A r \in Requests, i \in Ids :
          PrepareArticlePost(r, i) /\ i \notin disturbed => row[i] # None /\ draft[i] = row[i].text]_vars

\* A due post whose own preparation works when tried often enough is eventually handed
\* over, though other due posts fail at every tick.
DueGetsHanded ==
    \A i \in Ids :
        SF_vars(\E r \in Requests : WriteArticleDraft(r, i))
        /\ SF_vars(\E r \in Requests : PrepareArticlePost(r, i)) => (Due(i) ~> ~Due(i))
=============================================================================
