------------------------- MODULE ArticleFactoryProofs -------------------------
(***************************************************************************)
(* The safety properties of ArticleFactory, proved for any finite set of   *)
(* articles and any number of candidates, requests, times and faults.      *)
(***************************************************************************)
EXTENDS ArticleFactory, FiniteSetTheorems, TLAPS

-----------------------------------------------------------------------------
(* Types.  What a step may do with its request depends on what the request  *)
(* is for: the types rest on the stages each operation passes through.      *)

\* A list in which nothing comes twice, nor what the request is at.
Distinct(j) ==
    /\ \A a, b \in DOMAIN j.rest : j.rest[a] = j.rest[b] => a = b
    /\ \A a \in DOMAIN j.rest : j.rest[a] # j.id

Analyzing == {"run", "read", "insert", "done", "failed"}

\* The operations that have a stage, and what a request of each has at hand.
Fits(j) ==
    /\ j.stage = "idle" => j = Idle
    /\ j.stage \in Analyzing => j.op = "analyze"
    /\ j.stage = "rewrite" => j.op = "rewrite"
    /\ j.stage \in {"draft", "prepare"} => j.op \in {"post", "tick"} /\ j.seen \in Texts
    /\ j.stage \in {"next", "mark"} => j.op = "tick"
    /\ j.stage \in {"rewrite", "draft", "prepare", "mark"} => j.id \in Ids
    /\ j.op = "analyze" => j.src \in Articles
    /\ j.op = "analyze" \/ j.stage = "next" => j.id = None
    /\ j.op # "tick" => j.rest = <<>>

JobsTyped == job \in [Requests -> Jobs] /\ \A r \in Requests : Fits(job[r])

\* An analysis that has run has left its file.
FilesWritten == \A r \in Requests : job[r].stage = "read" => analysis[job[r].src] # None

\* The tables, the files and the counters of TypeOK.
RestTyped ==
    /\ article \in [Articles -> Statuses \cup {None}]
    /\ row \in [Ids -> Row \cup {None}]
    /\ \A i \in Ids : row[i] # None /\ row[i].status = "scheduled" => row[i].at # None
    /\ analysis \in [Articles -> (0..MaxRequests) \cup {None}]
    /\ draft \in [Ids -> Texts \cup {None}]
    /\ now \in 0..MaxTime /\ issued \in 0..MaxRequests /\ faults \in 0..MaxFaults
    /\ handed \subseteq Ids /\ disturbed \subseteq Ids

Typed == RestTyped /\ JobsTyped /\ FilesWritten

\* What is typed in this sense is so in that of the module.
LEMMA TypedIsTypeOK == Typed => TypeOK
BY DEF Typed, TypeOK, RestTyped, JobsTyped, Fits

\* A request becomes j, and the others stay as they are.
Becomes(r, j) == job'[r] = j /\ \A q \in Requests \ {r} : job'[q] = job[q]

\* A request that takes a value of its type that fits leaves the requests typed.
LEMMA ReplaceType ==
  ASSUME NEW r \in Requests, NEW j \in Jobs, JobsTyped, Fits(j),
         job' = [job EXCEPT ![r] = j]
  PROVE  JobsTyped' /\ Becomes(r, j)
<1>1. job' \in [Requests -> Jobs] /\ Becomes(r, j)
  BY DEF JobsTyped, Becomes
<1>2. \A q \in Requests : Fits(job'[q])
  BY <1>1 DEF JobsTyped, Becomes
<1> QED
  BY <1>1, <1>2 DEF JobsTyped

\* A request that is done is a well formed one.
LEMMA IdleType == Idle \in Jobs /\ Fits(Idle)
<1>1. Idle \in Jobs
  BY BoundsAreNumbers DEF Idle, Jobs, Stages
<1>2. Fits(Idle)
  BY DEF Idle, Fits, Analyzing
<1> QED
  BY <1>1, <1>2

\* A request that ends leaves the requests typed.
LEMMA EndType ==
  ASSUME NEW r \in Requests, JobsTyped, End(r)
  PROVE  JobsTyped' /\ Becomes(r, Idle)
BY IdleType, ReplaceType DEF End

\* A request that goes on to a stage its operation has leaves the requests typed.
LEMMA GotoType ==
  ASSUME NEW r \in Requests, JobsTyped, NEW stage \in Stages,
         Fits([job[r] EXCEPT !.stage = stage]), Goto(r, stage)
  PROVE  JobsTyped' /\ Becomes(r, [job[r] EXCEPT !.stage = stage])
<1>1. [job[r] EXCEPT !.stage = stage] \in Jobs
  BY DEF JobsTyped, Jobs
<1>2. job' = [job EXCEPT ![r] = [job[r] EXCEPT !.stage = stage]]
  BY DEF JobsTyped, Goto
<1> QED
  BY <1>1, <1>2, ReplaceType

\* A request that begins takes the place of an idle one.
LEMMA StartType ==
  ASSUME NEW r \in Requests, JobsTyped, NEW j \in Jobs, Fits(j), Start(r, j)
  PROVE  JobsTyped' /\ Becomes(r, j) /\ job[r] = Idle
BY ReplaceType DEF Start

\* A request that gives a post up goes on with its list, or ends.
LEMMA GiveUpType ==
  ASSUME NEW r \in Requests, JobsTyped, GiveUp(r), job[r].stage \in {"draft", "prepare"}
  PROVE  /\ JobsTyped'
         /\ \/ job[r].op = "post" /\ Becomes(r, Idle)
            \/ job[r].op = "tick" /\ Becomes(r, [job[r] EXCEPT !.id = None, !.stage = "next"])
<1>1. job[r] \in Jobs /\ Fits(job[r])
  BY DEF JobsTyped
<1>2. CASE job[r].op = "post"
  BY <1>2, EndType DEF GiveUp
<1>3. CASE job[r].op = "tick"
  <2> DEFINE j == [job[r] EXCEPT !.id = None, !.stage = "next"]
  <2>1. job' = [job EXCEPT ![r] = j]
    BY <1>3 DEF GiveUp, JobsTyped
  <2>2. j \in Jobs
    BY <1>1 DEF Jobs, Stages
  <2>3. Fits(j)
    BY <1>1, <1>3 DEF Fits, Jobs, Analyzing
  <2> QED
    BY <1>3, <2>1, <2>2, <2>3, ReplaceType
<1> QED
  BY <1>1, <1>2, <1>3 DEF Fits

\* A step of one request that begins no reading leaves the files of the others written.
LEMMA FilesStay ==
  ASSUME Typed, NEW r \in Requests, NEW j, Becomes(r, j), j.stage # "read",
         UNCHANGED analysis
  PROVE  FilesWritten'
BY DEF Typed, FilesWritten, Becomes

\* A text that is stored leaves the table typed.
LEMMA TextType ==
  ASSUME RestTyped, NEW i \in Ids, NEW text \in Texts
  PROVE  /\ UpdateText(i, text) \in [Ids -> Row \cup {None}]
         /\ \A k \in Ids : k # i => UpdateText(i, text)[k] = row[k]
         /\ row[i] = None => UpdateText(i, text)[i] = None
         /\ row[i] # None => /\ UpdateText(i, text)[i] # None
                             /\ UpdateText(i, text)[i].text = text
                             /\ UpdateText(i, text)[i].status = row[i].status
                             /\ UpdateText(i, text)[i].at = row[i].at
                             /\ UpdateText(i, text)[i].of = row[i].of
<1>1. CASE row[i] = None
  BY <1>1 DEF UpdateText, RestTyped
<1>2. CASE row[i] # None
  <2> DEFINE x == [row[i] EXCEPT !.text = text]
  <2>1. row[i] \in Row
    BY <1>2 DEF RestTyped
  <2>2. /\ x \in Row /\ x.text = text /\ x.status = row[i].status /\ x.at = row[i].at
        /\ x.of = row[i].of
    BY <2>1 DEF Row
  <2>3. UpdateText(i, text) = [row EXCEPT ![i] = x]
    BY <1>2 DEF UpdateText
  <2>4. x # None
    BY <2>2, NoneIsNoValue
  <2> HIDE DEF x
  <2> QED
    BY <1>2, <2>2, <2>3, <2>4 DEF RestTyped
<1> QED
  BY <1>1, <1>2

\* So does one that is stored in the next state, with the dates of what is scheduled.
LEMMA TextTyped ==
  ASSUME RestTyped, NEW i \in Ids, NEW text \in Texts, row' = UpdateText(i, text)
  PROVE  /\ row' \in [Ids -> Row \cup {None}]
         /\ \A k \in Ids : row'[k] # None /\ row'[k].status = "scheduled" => row'[k].at # None
<1>1. ASSUME NEW k \in Ids, row'[k] # None, row'[k].status = "scheduled" PROVE row'[k].at # None
  <2>1. CASE k = i
    BY <1>1, <2>1, TextType DEF RestTyped
  <2>2. CASE k # i
    BY <1>1, <2>2, TextType DEF RestTyped
  <2> QED
    BY <2>1, <2>2
<1> QED
  BY <1>1, TextType

\* A status that is written, or lost, leaves the articles typed, and there or gone as they were.
LEMMA StatusType ==
  ASSUME RestTyped, NEW a \in Articles, NEW status \in Statuses, status # "deleted",
         SetArticleSourceStatus(a, status)
  PROVE  /\ article' \in [Articles -> Statuses \cup {None}] /\ faults' \in 0..MaxFaults
         /\ \A b \in Articles : Exists(b)' <=> Exists(b)
<1>1. status # None
  BY NoneIsNoValue
<1>2. CASE article' = (IF Exists(a) THEN [article EXCEPT ![a] = status] ELSE article) /\ UNCHANGED faults
  BY <1>1, <1>2 DEF Exists, RestTyped
<1>3. CASE Fault /\ UNCHANGED article
  BY <1>3, BoundsAreNumbers DEF Fault, RestTyped, Exists
<1> QED
  BY <1>2, <1>3 DEF SetArticleSourceStatus

\* The queue of due posts is a sequence.
LEMMA DueIsSequence ==
  ASSUME NEW due \in SUBSET Ids, NEW q \in [1..Cardinality(due) -> due]
  PROVE  q \in Seq(Ids) /\ DOMAIN q = 1..Cardinality(due) /\ Cardinality(due) \in Nat
<1>1. IsFiniteSet(1..MaxRank)
  BY BoundsAreNumbers, FS_Interval
<1>2. IsFiniteSet(Ids)
  BY <1>1, ArticlesAreFinite, FS_Product DEF Ids
<1>3. Cardinality(due) \in Nat
  BY <1>2, FS_Subset, FS_CardinalityType
<1> QED
  BY <1>3

\* Steps that move no request, or only begin one.
AtOnce ==
    \/ \E a \in Articles : CreateArticleSource(a) \/ DeleteArticleSource(a)
    \/ \E i \in Ids :
         \/ DeleteArticleCandidate(i) \/ \E text \in Texts : PatchArticleCandidate(i, text)
         \/ \E at \in 0..MaxTime : ScheduleArticleCandidate(i, at)
    \/ Clock

Begins(r) ==
    \/ \E a \in Articles : Analyze(r, a)
    \/ \E i \in Ids : RewriteArticleCandidate(r, i)
                      \/ \E text \in Texts \cup {None} : PostNow(r, i, text)
    \/ Tick(r)

\* A step is one of these, or moves one request, or is a crash.
LEMMA NextSplits ==
  [Next]_vars <=> \/ AtOnce \/ Crash \/ UNCHANGED vars
                  \/ \E r \in Requests : Begins(r) \/ FinishRewrite(r) \/ AnalysisStep(r) \/ PostStep(r)
BY DEF Next, AtOnce, Begins

\* The factory starts out typed.
LEMMA InitTyped == Init => Typed
<1> SUFFICES ASSUME Init PROVE Typed
  OBVIOUS
<1>1. JobsTyped /\ FilesWritten
  BY IdleType DEF Init, JobsTyped, FilesWritten, Idle
<1>2. PICK t \in Texts : row = [i \in Ids |-> IF article[i[1]] = None THEN None ELSE Proposed(t, 0)]
  BY DEF Init
<1>3. Proposed(t, 0) \in Row /\ Proposed(t, 0).status = "proposed"
  BY BoundsAreNumbers DEF Proposed, Row
<1>4. RestTyped
  BY <1>2, <1>3, BoundsAreNumbers DEF Init, RestTyped, Statuses
<1> QED
  BY <1>1, <1>4 DEF Typed

\* Steps that move no request keep the types.
LEMMA AtOnceTyped ==
  ASSUME Typed, AtOnce
  PROVE  Typed'
<1> USE DEF Typed
<1>0. UNCHANGED <<job, analysis>>
  BY DEF AtOnce, CreateArticleSource, DeleteArticleSource, DeleteArticleCandidate,
         PatchArticleCandidate, ScheduleArticleCandidate, Clock
<1>1. JobsTyped' /\ FilesWritten'
  BY <1>0 DEF JobsTyped, FilesWritten
<1>2. ASSUME NEW a \in Articles, CreateArticleSource(a) PROVE RestTyped'
  BY <1>2, BoundsAreNumbers DEF CreateArticleSource, Request, RestTyped, Statuses
<1>3. ASSUME NEW a \in Articles, DeleteArticleSource(a) PROVE RestTyped'
  BY <1>3, BoundsAreNumbers DEF DeleteArticleSource, Request, RestTyped, Statuses, CandidatesOf
<1>4. ASSUME NEW i \in Ids, DeleteArticleCandidate(i) PROVE RestTyped'
  BY <1>4, BoundsAreNumbers DEF DeleteArticleCandidate, Request, RestTyped, Disturb
<1>5. ASSUME NEW i \in Ids, NEW text \in Texts, PatchArticleCandidate(i, text) PROVE RestTyped'
  BY <1>5, TextTyped, BoundsAreNumbers DEF PatchArticleCandidate, Request, RestTyped, Disturb
<1>6. ASSUME NEW i \in Ids, NEW at \in 0..MaxTime, ScheduleArticleCandidate(i, at) PROVE RestTyped'
  <2> DEFINE x == [row[i] EXCEPT !.at = at, !.status = "scheduled"]
  <2>1. row[i] \in Row /\ row' = [row EXCEPT ![i] = x]
    BY <1>6 DEF ScheduleArticleCandidate, RestTyped
  <2>a. at \in Nat /\ at # None
    BY NoneIsNoValue, BoundsAreNumbers
  <2>2. x \in Row /\ x.at = at /\ at # None
    BY <2>1, <2>a DEF Row
  <2> HIDE DEF x
  <2>3. /\ row' \in [Ids -> Row \cup {None}]
        /\ \A k \in Ids : row'[k] # None /\ row'[k].status = "scheduled" => row'[k].at # None
    BY <2>1, <2>2 DEF RestTyped
  <2> QED
    BY <1>6, <2>3, BoundsAreNumbers DEF ScheduleArticleCandidate, Request, RestTyped
<1>7. ASSUME Clock PROVE RestTyped'
  BY <1>7, BoundsAreNumbers DEF Clock, RestTyped
<1> QED
  BY <1>1, <1>2, <1>3, <1>4, <1>5, <1>6, <1>7 DEF AtOnce

\* A crash keeps the types.
LEMMA CrashTyped ==
  ASSUME Typed, Crash
  PROVE  Typed'
<1>1. JobsTyped' /\ FilesWritten'
  BY IdleType DEF Crash, JobsTyped, FilesWritten, Idle
<1>2. Held \subseteq Ids
  BY DEF Held, Holds
<1>3. RestTyped'
  BY <1>2, BoundsAreNumbers DEF Typed, Crash, Fault, RestTyped
<1> QED
  BY <1>1, <1>3 DEF Typed

\* What begins is a request of its operation.
LEMMA BeginsTyped ==
  ASSUME Typed, NEW r \in Requests, Begins(r)
  PROVE  Typed'
<1> USE DEF Typed
<1>1. ASSUME NEW a \in Articles, Analyze(r, a) PROVE Typed'
  <2>1. issued' \in 0..MaxRequests
    BY <1>1, BoundsAreNumbers DEF Analyze, Begin, Request, RestTyped
  <2> DEFINE j == [Idle EXCEPT !.op = "analyze", !.stage = "run", !.src = a, !.of = issued']
  <2>2. j \in Jobs /\ Fits(j) /\ j.stage # "read"
    BY <2>1, IdleType DEF Idle, Jobs, Stages, Fits, Analyzing
  <2>3. JobsTyped' /\ Becomes(r, j)
    BY <1>1, <2>2, StartType DEF Analyze, Begin
  <2> HIDE DEF j
  <2>4. FilesWritten'
    BY <1>1, <2>2, <2>3, FilesStay DEF Analyze
  <2>5. article' \in [Articles -> Statuses \cup {None}] /\ faults' \in 0..MaxFaults
    BY <1>1, StatusType DEF Analyze, Statuses
  <2>6. RestTyped'
    BY <1>1, <2>1, <2>5 DEF Analyze, RestTyped
  <2> QED
    BY <2>3, <2>4, <2>6
<1>2. ASSUME NEW i \in Ids, RewriteArticleCandidate(r, i) PROVE Typed'
  <2> DEFINE j == [Idle EXCEPT !.op = "rewrite", !.stage = "rewrite", !.id = i]
  <2>1. j \in Jobs /\ Fits(j) /\ j.stage # "read"
    BY IdleType DEF Idle, Jobs, Stages, Fits, Analyzing
  <2>2. JobsTyped' /\ Becomes(r, j)
    BY <1>2, <2>1, StartType DEF RewriteArticleCandidate, Begin
  <2> HIDE DEF j
  <2>3. FilesWritten'
    BY <1>2, <2>1, <2>2, FilesStay DEF RewriteArticleCandidate
  <2>4. RestTyped'
    BY <1>2, BoundsAreNumbers DEF RewriteArticleCandidate, Begin, Request, RestTyped, Disturb
  <2> QED
    BY <2>2, <2>3, <2>4
<1>3. ASSUME NEW i \in Ids, NEW text \in Texts \cup {None}, PostNow(r, i, text) PROVE Typed'
  <2>1. /\ row' \in [Ids -> Row \cup {None}] /\ row'[i] # None
        /\ \A k \in Ids : row'[k] # None /\ row'[k].status = "scheduled" => row'[k].at # None
    BY <1>3, TextType, TextTyped DEF PostNow, RestTyped
  <2>2. row'[i].text \in Texts
    BY <2>1 DEF Row
  <2> DEFINE j == [Idle EXCEPT !.op = "post", !.stage = "draft", !.id = i, !.seen = TextRead(i)]
  <2>3. j \in Jobs /\ Fits(j) /\ j.stage # "read"
    BY <2>2, IdleType DEF Idle, Jobs, Stages, Fits, Analyzing, TextRead
  <2>4. Start(r, j)
    BY <1>3 DEF PostNow, Begin
  <2> HIDE DEF j
  <2>5. JobsTyped' /\ Becomes(r, j)
    BY <2>3, <2>4, StartType
  <2>6. FilesWritten'
    BY <1>3, <2>3, <2>5, FilesStay DEF PostNow
  <2>7. RestTyped'
    BY <1>3, <2>1, BoundsAreNumbers DEF PostNow, Begin, Request, RestTyped, Disturb
  <2> QED
    BY <2>5, <2>6, <2>7
<1>4. ASSUME Tick(r) PROVE Typed'
  <2> DEFINE due == {i \in Ids : Due(i)}
  <2>1. PICK q \in [1..Cardinality(due) -> due] :
          Start(r, [Idle EXCEPT !.op = "tick", !.stage = "next", !.rest = q])
    BY <1>4 DEF Tick
  <2> DEFINE j == [Idle EXCEPT !.op = "tick", !.stage = "next", !.rest = q]
  <2>2. q \in Seq(Ids)
    BY DueIsSequence
  <2>3. j \in Jobs /\ Fits(j) /\ j.stage # "read"
    BY <2>2, IdleType DEF Idle, Jobs, Stages, Fits, Analyzing
  <2> HIDE DEF j
  <2>4. JobsTyped' /\ Becomes(r, j)
    BY <2>1, <2>3, StartType DEF j
  <2>5. FilesWritten'
    BY <1>4, <2>3, <2>4, FilesStay DEF Tick
  <2>6. RestTyped'
    BY <1>4 DEF Tick, RestTyped
  <2> QED
    BY <2>4, <2>5, <2>6
<1> QED
  BY <1>1, <1>2, <1>3, <1>4 DEF Begins

\* A rewrite ends with a text or none.
LEMMA RewriteTyped ==
  ASSUME Typed, NEW r \in Requests, FinishRewrite(r)
  PROVE  Typed'
<1> USE DEF Typed
<1>1. job[r].id \in Ids
  BY DEF FinishRewrite, At, JobsTyped, Fits
<1>2. JobsTyped' /\ Becomes(r, Idle)
  BY EndType DEF FinishRewrite
<1>3. FilesWritten'
  BY <1>2, FilesStay DEF FinishRewrite, Idle
<1>4. /\ row' \in [Ids -> Row \cup {None}]
      /\ \A k \in Ids : row'[k] # None /\ row'[k].status = "scheduled" => row'[k].at # None
  BY <1>1, TextTyped DEF FinishRewrite, RestTyped
<1>5. RestTyped'
  BY <1>4 DEF FinishRewrite, RestTyped
<1> QED
  BY <1>2, <1>3, <1>5

\* The rows an analysis leaves.
LEMMA RewrittenType ==
  ASSUME RestTyped, NEW a \in Articles, NEW n \in 1..MaxRank, NEW text \in Texts,
         NEW of \in 0..MaxRequests, row' = Rewritten(a, n, text, of)
  PROVE  /\ row' \in [Ids -> Row \cup {None}]
         /\ \A i \in Ids : i[1] # a => row'[i] = row[i]
         /\ \A i \in Ids : i[1] = a /\ row'[i] # None =>
              row'[i].status = "proposed" /\ row'[i].of = of
<1> DEFINE p == Proposed(text, of)
<1>1. p \in Row /\ p.status = "proposed" /\ p.of = of
  BY DEF Proposed, Row
<1>2. row' = [i \in Ids |-> IF i[1] # a THEN row[i] ELSE IF i[2] \in 1..n THEN p ELSE None]
  BY DEF Rewritten
<1> HIDE DEF p
<1> QED
  BY <1>1, <1>2 DEF RestTyped

\* The steps of an analysis keep the types.
LEMMA AnalysisTyped ==
  ASSUME Typed, NEW r \in Requests, AnalysisStep(r)
  PROVE  Typed'
<1> USE DEF Typed
<1>0. job[r] \in Jobs /\ Fits(job[r])
  BY DEF JobsTyped
<1>1. ASSUME RunAnalyzer(r) PROVE Typed'
  <2>1. job[r].src \in Articles /\ job[r].of \in 0..MaxRequests /\ job[r].op = "analyze"
    BY <1>0, <1>1 DEF RunAnalyzer, At, Fits, Analyzing, Jobs
  <2> DEFINE j == [job[r] EXCEPT !.stage = "read"]
  <2>2. Fits(j) /\ j.stage = "read" /\ j.src = job[r].src
    BY <1>0, <2>1 DEF Fits, Jobs, Analyzing
  <2>3. JobsTyped' /\ Becomes(r, j)
    BY <1>1, <2>2, GotoType DEF RunAnalyzer, Stages
  <2> HIDE DEF j
  <2>4. /\ analysis' \in [Articles -> (0..MaxRequests) \cup {None}]
        /\ \A a \in Articles : analysis[a] # None => analysis'[a] # None
        /\ analysis'[job[r].src] # None
    BY <1>1, <2>1, NoneIsNoValue DEF RunAnalyzer, RestTyped
  <2>5. \A q \in Requests : job[q].stage = "read" => job[q].src \in Articles
    BY DEF JobsTyped, Fits, Analyzing
  <2>6. FilesWritten'
    BY <2>2, <2>3, <2>4, <2>5 DEF FilesWritten, Becomes
  <2>7. RestTyped'
    BY <1>1, <2>4 DEF RunAnalyzer, RestTyped
  <2> QED
    BY <2>3, <2>6, <2>7
<1>2. ASSUME ReadAnalysis(r) PROVE Typed'
  <2>1. job[r].src \in Articles /\ job[r].op = "analyze" /\ analysis[job[r].src] # None
    BY <1>0, <1>2 DEF ReadAnalysis, At, Fits, Analyzing, FilesWritten
  <2>2. PICK of \in {analysis[job[r].src], job[r].of} :
          job' = [job EXCEPT ![r] = [job[r] EXCEPT !.of = of, !.stage = "insert"]]
    BY <1>2 DEF ReadAnalysis, JobsTyped
  <2> DEFINE j == [job[r] EXCEPT !.of = of, !.stage = "insert"]
  <2>3. of \in 0..MaxRequests
    BY <1>0, <2>1 DEF RestTyped, Jobs
  <2>4. j \in Jobs /\ Fits(j) /\ j.stage # "read"
    BY <1>0, <2>1, <2>3 DEF Jobs, Stages, Fits, Analyzing
  <2> HIDE DEF j
  <2>5. JobsTyped' /\ Becomes(r, j)
    BY <2>2, <2>4, ReplaceType DEF j
  <2>6. FilesWritten'
    BY <1>2, <2>4, <2>5, FilesStay DEF ReadAnalysis
  <2>7. RestTyped'
    BY <1>2 DEF ReadAnalysis, RestTyped
  <2> QED
    BY <2>5, <2>6, <2>7
<1>3. ASSUME InsertArticleCandidates(r) PROVE Typed'
  <2>1. job[r].src \in Articles /\ job[r].of \in 0..MaxRequests /\ job[r].op = "analyze"
    BY <1>0, <1>3 DEF InsertArticleCandidates, At, Fits, Analyzing, Jobs
  <2> DEFINE j == [job[r] EXCEPT !.stage = "done"]
  <2>2. Fits(j) /\ j.stage # "read"
    BY <1>0, <2>1 DEF Fits, Jobs, Analyzing
  <2>3. JobsTyped' /\ Becomes(r, j)
    BY <1>3, <2>2, GotoType DEF InsertArticleCandidates, Stages
  <2> HIDE DEF j
  <2>4. FilesWritten'
    BY <1>3, <2>2, <2>3, FilesStay DEF InsertArticleCandidates
  <2>5. PICK n \in 1..MaxRank, text \in Texts : row' = Rewritten(job[r].src, n, text, job[r].of)
    BY <1>3 DEF InsertArticleCandidates
  <2>6. /\ row' \in [Ids -> Row \cup {None}]
        /\ \A i \in Ids : row'[i] # None /\ row'[i].status = "scheduled" => row'[i].at # None
    BY <2>1, <2>5, RewrittenType DEF RestTyped
  <2>7. RestTyped'
    BY <1>3, <2>6 DEF InsertArticleCandidates, RestTyped, CandidatesOf
  <2> QED
    BY <2>3, <2>4, <2>7
<1>4. ASSUME AnalysisFails(r) PROVE Typed'
  <2>1. job[r].op = "analyze"
    BY <1>0, <1>4 DEF AnalysisFails, Fits, Analyzing
  <2> DEFINE j == [job[r] EXCEPT !.stage = "failed"]
  <2>2. Fits(j) /\ j.stage # "read"
    BY <1>0, <2>1 DEF Fits, Jobs, Analyzing
  <2>3. JobsTyped' /\ Becomes(r, j)
    BY <1>4, <2>2, GotoType DEF AnalysisFails, Stages
  <2> HIDE DEF j
  <2>4. FilesWritten'
    BY <1>4, <2>2, <2>3, FilesStay DEF AnalysisFails
  <2>5. RestTyped'
    BY <1>4 DEF AnalysisFails, RestTyped
  <2> QED
    BY <2>3, <2>4, <2>5
<1>5. ASSUME FinishAnalysis(r) PROVE Typed'
  <2>1. job[r].src \in Articles
    BY <1>0, <1>5 DEF FinishAnalysis, Fits, Analyzing
  <2>2. JobsTyped' /\ Becomes(r, Idle)
    BY <1>5, EndType DEF FinishAnalysis
  <2>3. FilesWritten'
    BY <1>5, <2>2, FilesStay DEF FinishAnalysis, Idle
  <2>4. article' \in [Articles -> Statuses \cup {None}] /\ faults' \in 0..MaxFaults
    BY <1>5, <2>1, StatusType DEF FinishAnalysis, Statuses
  <2>5. RestTyped'
    BY <1>5, <2>4 DEF FinishAnalysis, RestTyped
  <2> QED
    BY <2>2, <2>3, <2>5
<1> QED
  BY <1>1, <1>2, <1>3, <1>4, <1>5 DEF AnalysisStep

\* The steps of a post keep the types.
LEMMA PostTyped ==
  ASSUME Typed, NEW r \in Requests, PostStep(r)
  PROVE  Typed'
<1> USE DEF Typed
<1>0. job[r] \in Jobs /\ Fits(job[r])
  BY DEF JobsTyped
<1>1. ASSUME NextDue(r) PROVE Typed'
  <2>1. job[r].op = "tick" /\ job[r].id = None /\ job[r].rest \in Seq(Ids)
    BY <1>0, <1>1 DEF NextDue, At, Fits, Jobs
  <2> DEFINE i == Head(job[r].rest)
             k == [job[r] EXCEPT !.rest = Tail(@)]
             x == IF job[r].rest = <<>> THEN Idle ELSE IF row[i] = None THEN k
                  ELSE [k EXCEPT !.id = i, !.seen = row[i].text, !.stage = "draft"]
  <2>2. job' = [job EXCEPT ![r] = x] /\ job[r].stage = "next"
    BY <1>1 DEF NextDue, At
  <2>3. x \in Jobs /\ Fits(x) /\ x.stage # "read"
    <3>1. CASE job[r].rest = <<>>
      BY <3>1, IdleType DEF Idle
    <3>2. CASE job[r].rest # <<>> /\ row[i] = None
      <4>1. x = [job[r] EXCEPT !.rest = Tail(job[r].rest)] /\ Tail(job[r].rest) \in Seq(Ids)
        BY <2>1, <3>2
      <4> HIDE DEF x
      <4> QED
        BY <1>0, <2>1, <2>2, <4>1 DEF Jobs, Fits, Analyzing
    <3>3. CASE job[r].rest # <<>> /\ row[i] # None
      <4>1. i \in Ids /\ Tail(job[r].rest) \in Seq(Ids)
        BY <2>1, <3>3
      <4>2. row[i].text \in Texts
        BY <3>3, <4>1 DEF RestTyped, Row
      <4>3. x = [job[r] EXCEPT !.rest = Tail(job[r].rest), !.id = i, !.seen = row[i].text,
                               !.stage = "draft"]
        BY <3>3
      <4> HIDE DEF x, i
      <4> QED
        BY <1>0, <2>1, <4>1, <4>2, <4>3 DEF Jobs, Stages, Fits, Analyzing
    <3> QED
      BY <3>1, <3>2, <3>3
  <2> HIDE DEF x
  <2>4. JobsTyped' /\ Becomes(r, x)
    BY <2>2, <2>3, ReplaceType
  <2>5. FilesWritten'
    BY <1>1, <2>3, <2>4, FilesStay DEF NextDue
  <2>6. RestTyped'
    BY <1>1 DEF NextDue, RestTyped
  <2> QED
    BY <2>4, <2>5, <2>6
<1>2. ASSUME PrepareFails(r) PROVE Typed'
  <2>0. JobsTyped'
    BY <1>2, GiveUpType DEF PrepareFails
  <2>1. \/ Becomes(r, Idle)
        \/ Becomes(r, [job[r] EXCEPT !.id = None, !.stage = "next"])
    BY <1>2, GiveUpType DEF PrepareFails
  <2>2. Idle.stage # "read" /\ [job[r] EXCEPT !.id = None, !.stage = "next"].stage # "read"
    BY <1>0 DEF Idle, Jobs
  <2>3. FilesWritten'
    BY <1>2, <2>1, <2>2, FilesStay DEF PrepareFails
  <2>4. RestTyped'
    BY <1>2 DEF PrepareFails, RestTyped
  <2> QED
    BY <2>0, <2>3, <2>4
<1>3. ASSUME MarkArticleCandidatePrepared(r) PROVE Typed'
  <2>1. job[r].op = "tick" /\ job[r].id \in Ids
    BY <1>0, <1>3 DEF MarkArticleCandidatePrepared, At, Fits
  <2> DEFINE x == [job[r] EXCEPT !.id = None, !.stage = "next"]
  <2>2. x \in Jobs
    BY <1>0 DEF Jobs, Stages
  <2>3. Fits(x) /\ x.stage # "read"
    BY <1>0, <2>1 DEF Fits, Jobs, Analyzing
  <2>4. job' = [job EXCEPT ![r] = x]
    BY <1>3 DEF MarkArticleCandidatePrepared, JobsTyped
  <2> HIDE DEF x
  <2>5. JobsTyped' /\ Becomes(r, x)
    BY <2>2, <2>3, <2>4, ReplaceType
  <2>6. FilesWritten'
    BY <1>3, <2>3, <2>5, FilesStay DEF MarkArticleCandidatePrepared
  <2>7. faults' \in 0..MaxFaults /\ disturbed' \subseteq Ids
    BY <1>3, <2>1, BoundsAreNumbers DEF MarkArticleCandidatePrepared, Fault, RestTyped
  <2>8. /\ row' \in [Ids -> Row \cup {None}]
        /\ \A i \in Ids : row'[i] # None /\ row'[i].status = "scheduled" => row'[i].at # None
    <3>1. CASE row' = row
      BY <3>1 DEF RestTyped
    <3>2. CASE row[job[r].id] # None /\ row' = [row EXCEPT ![job[r].id].status = "ready"]
      <4> DEFINE y == [row[job[r].id] EXCEPT !.status = "ready"]
      <4>1. y \in Row /\ y.status = "ready"
        BY <2>1, <3>2 DEF RestTyped, Row
      <4>2. row' = [row EXCEPT ![job[r].id] = y]
        BY <3>2
      <4> HIDE DEF y
      <4> QED
        BY <2>1, <4>1, <4>2 DEF RestTyped
    <3> QED
      BY <1>3, <3>1, <3>2 DEF MarkArticleCandidatePrepared
  <2>9. RestTyped'
    BY <1>3, <2>7, <2>8 DEF MarkArticleCandidatePrepared, RestTyped
  <2> QED
    BY <2>5, <2>6, <2>9
<1>4. ASSUME NEW i \in Ids, WriteArticleDraft(r, i) PROVE Typed'
  <2>1. job[r].op \in {"post", "tick"} /\ job[r].seen \in Texts /\ job[r].id = i
    BY <1>0, <1>4 DEF WriteArticleDraft, At, Fits
  <2> DEFINE x == [job[r] EXCEPT !.stage = "prepare"]
  <2>2. Fits(x) /\ x.stage # "read"
    BY <1>0, <2>1 DEF Fits, Jobs, Analyzing
  <2>3. JobsTyped' /\ Becomes(r, x)
    BY <1>4, <2>2, GotoType DEF WriteArticleDraft, Stages
  <2> HIDE DEF x
  <2>4. FilesWritten'
    BY <1>4, <2>2, <2>3, FilesStay DEF WriteArticleDraft
  <2>5. RestTyped'
    BY <1>4, <2>1 DEF WriteArticleDraft, RestTyped
  <2> QED
    BY <2>3, <2>4, <2>5
<1>5. ASSUME NEW i \in Ids, PrepareArticlePost(r, i) PROVE Typed'
  <2>1. job[r].op \in {"post", "tick"} /\ job[r].id = i
    BY <1>0, <1>5 DEF PrepareArticlePost, At, Fits
  <2>2. CASE job[r].op = "tick"
    <3> DEFINE x == [job[r] EXCEPT !.stage = "mark"]
    <3>1. Fits(x) /\ x.stage # "read"
      BY <1>0, <2>1, <2>2 DEF Fits, Jobs, Analyzing
    <3>2. JobsTyped' /\ Becomes(r, x)
      BY <1>5, <2>2, <3>1, GotoType DEF PrepareArticlePost, HandedOver, Stages
    <3> HIDE DEF x
    <3>3. FilesWritten'
      BY <1>5, <3>1, <3>2, FilesStay DEF PrepareArticlePost
    <3>4. RestTyped'
      BY <1>5, <2>1, <2>2 DEF PrepareArticlePost, HandedOver, RestTyped
    <3> QED
      BY <3>2, <3>3, <3>4
  <2>3. CASE job[r].op # "tick"
    <3>1. JobsTyped' /\ Becomes(r, Idle)
      BY <1>5, <2>3, EndType DEF PrepareArticlePost, HandedOver
    <3>2. FilesWritten'
      BY <1>5, <3>1, FilesStay DEF PrepareArticlePost, Idle
    <3>3. RestTyped'
      BY <1>5, <2>3 DEF PrepareArticlePost, HandedOver, RestTyped
    <3> QED
      BY <3>1, <3>2, <3>3
  <2> QED
    BY <2>2, <2>3
<1> QED
  BY <1>1, <1>2, <1>3, <1>4, <1>5 DEF PostStep

\* Every step keeps the types.
LEMMA TypedStep ==
  ASSUME Typed, [Next]_vars
  PROVE  Typed'
<1>1. CASE UNCHANGED vars
  BY <1>1 DEF vars, Typed, RestTyped, JobsTyped, FilesWritten
<1> QED
  BY <1>1, NextSplits, AtOnceTyped, CrashTyped, BeginsTyped, RewriteTyped, AnalysisTyped, PostTyped

\* Tables, files and requests are well formed, and requests are at stages of their operation.
THEOREM TypedInvariant == Spec => []Typed
<1> QED
  BY InitTyped, TypedStep, PTL DEF Spec

\* Tables, files and requests are well formed, and a scheduled candidate has a date.
THEOREM TypeCorrect == Spec => []TypeOK
  BY TypedInvariant, TypedIsTypeOK, PTL

-----------------------------------------------------------------------------
(* The candidates of an article come from one analysis                      *)

\* No row appears and none changes the analysis it comes from, and no article goes.
RowsKept ==
    /\ \A b \in Articles : Exists(b) => Exists(b)'
    /\ \A i \in Ids : row'[i] # None => row[i] # None /\ row'[i].of = row[i].of

\* Such a step keeps the candidates of one analysis together.
LEMMA KeptTogether == OneAnalysis /\ RowsKept => OneAnalysis'
BY DEF OneAnalysis, RowsKept, Ids

\* What a text does to a table.
LEMMA TextKeepsRows ==
  ASSUME RestTyped, NEW i \in Ids, NEW text \in Texts, row' = UpdateText(i, text), UNCHANGED article
  PROVE  RowsKept
<1>1. ASSUME NEW k \in Ids, row'[k] # None PROVE row[k] # None /\ row'[k].of = row[k].of
  BY <1>1, TextType
<1> QED
  BY <1>1 DEF RowsKept, Exists

\* Steps that move no request keep the candidates together.
LEMMA OneAtOnce ==
  ASSUME RestTyped, OneAnalysis, AtOnce
  PROVE  OneAnalysis'
<1>1. ASSUME NEW a \in Articles, CreateArticleSource(a) PROVE OneAnalysis'
  <2>1. "ingested" \notin {None, "deleted"}
    BY NoneIsNoValue DEF Statuses
  <2>2. RowsKept
    BY <1>1, <2>1 DEF CreateArticleSource, RowsKept, Exists, RestTyped
  <2> QED
    BY <2>2, KeptTogether
<1>2. ASSUME NEW a \in Articles, DeleteArticleSource(a) PROVE OneAnalysis'
  <2>1. \A b \in Articles : b # a /\ Exists(b) => Exists(b)'
    BY <1>2 DEF DeleteArticleSource, Exists, RestTyped
  <2>2. \A i \in Ids : row'[i] # None => i[1] # a /\ row[i] # None /\ row'[i] = row[i]
    BY <1>2 DEF DeleteArticleSource
  <2>3. \A i \in Ids : i[1] \in Articles
    BY DEF Ids
  <2> QED
    BY <2>1, <2>2, <2>3 DEF OneAnalysis
<1>3. ASSUME NEW i \in Ids, DeleteArticleCandidate(i) PROVE OneAnalysis'
  BY <1>3, KeptTogether DEF DeleteArticleCandidate, RowsKept, Exists, RestTyped
<1>4. ASSUME NEW i \in Ids, NEW text \in Texts, PatchArticleCandidate(i, text) PROVE OneAnalysis'
  BY <1>4, KeptTogether, TextKeepsRows DEF PatchArticleCandidate
<1>5. ASSUME NEW i \in Ids, NEW at \in 0..MaxTime, ScheduleArticleCandidate(i, at) PROVE OneAnalysis'
  <2> DEFINE x == [row[i] EXCEPT !.at = at, !.status = "scheduled"]
  <2>1. row[i] \in Row /\ row[i] # None /\ row' = [row EXCEPT ![i] = x] /\ UNCHANGED article
    BY <1>5 DEF ScheduleArticleCandidate, RestTyped
  <2>2. x.of = row[i].of
    BY <2>1 DEF Row
  <2> HIDE DEF x
  <2> QED
    BY <2>1, <2>2, KeptTogether DEF RowsKept, Exists, RestTyped
<1>6. ASSUME Clock PROVE OneAnalysis'
  BY <1>6, KeptTogether DEF Clock, RowsKept, Exists
<1> QED
  BY <1>1, <1>2, <1>3, <1>4, <1>5, <1>6 DEF AtOnce

\* The steps of an analysis keep them together: what it inserts replaces all there was.
LEMMA OneOfAnalysis ==
  ASSUME Typed, OneAnalysis, NEW r \in Requests, AnalysisStep(r)
  PROVE  OneAnalysis'
<1> USE DEF Typed
<1>0. job[r] \in Jobs /\ Fits(job[r])
  BY DEF JobsTyped
<1>1. ASSUME RunAnalyzer(r) \/ ReadAnalysis(r) \/ AnalysisFails(r) PROVE OneAnalysis'
  BY <1>1, KeptTogether DEF RunAnalyzer, ReadAnalysis, AnalysisFails, RowsKept, Exists
<1>2. ASSUME InsertArticleCandidates(r) PROVE OneAnalysis'
  <2>1. job[r].src \in Articles /\ job[r].of \in 0..MaxRequests
    BY <1>0, <1>2 DEF InsertArticleCandidates, At, Fits, Analyzing, Jobs
  <2>2. PICK n \in 1..MaxRank, text \in Texts : row' = Rewritten(job[r].src, n, text, job[r].of)
    BY <1>2 DEF InsertArticleCandidates
  <2>3. /\ \A i \in Ids : i[1] # job[r].src => row'[i] = row[i]
        /\ \A i \in Ids : i[1] = job[r].src /\ row'[i] # None => row'[i].of = job[r].of
    BY <2>1, <2>2, RewrittenType
  <2>4. Exists(job[r].src) /\ \A b \in Articles : Exists(b)' <=> Exists(b)
    BY <1>2 DEF InsertArticleCandidates, Exists
  <2>5. \A i \in Ids : i[1] \in Articles
    BY DEF Ids
  <2>6. \A i \in Ids : row'[i] # None => Exists(i[1])'
    BY <2>3, <2>4, <2>5 DEF OneAnalysis
  <2>7. \A i, k \in Ids : row'[i] # None /\ row'[k] # None /\ i[1] = k[1] => row'[i].of = row'[k].of
    BY <2>3 DEF OneAnalysis
  <2> QED
    BY <2>6, <2>7 DEF OneAnalysis
<1>3. ASSUME FinishAnalysis(r) PROVE OneAnalysis'
  <2>1. job[r].src \in Articles
    BY <1>0, <1>3 DEF FinishAnalysis, Fits, Analyzing
  <2>2. \A b \in Articles : Exists(b)' <=> Exists(b)
    BY <1>3, <2>1, StatusType DEF FinishAnalysis, Statuses
  <2> QED
    BY <1>3, <2>2, KeptTogether DEF FinishAnalysis, RowsKept
<1> QED
  BY <1>1, <1>2, <1>3 DEF AnalysisStep

\* The other steps of requests keep them together.
LEMMA OneOfRequest ==
  ASSUME Typed, OneAnalysis, NEW r \in Requests, Begins(r) \/ FinishRewrite(r) \/ PostStep(r)
  PROVE  OneAnalysis'
<1> USE DEF Typed
<1>0. job[r] \in Jobs /\ Fits(job[r])
  BY DEF JobsTyped
<1>1. ASSUME NEW a \in Articles, Analyze(r, a) PROVE OneAnalysis'
  <2>1. \A b \in Articles : Exists(b)' <=> Exists(b)
    BY <1>1, StatusType DEF Analyze, Statuses
  <2> QED
    BY <1>1, <2>1, KeptTogether DEF Analyze, RowsKept
<1>2. ASSUME NEW i \in Ids, RewriteArticleCandidate(r, i) PROVE OneAnalysis'
  BY <1>2, KeptTogether DEF RewriteArticleCandidate, RowsKept, Exists
<1>3. ASSUME NEW i \in Ids, NEW text \in Texts \cup {None}, PostNow(r, i, text) PROVE OneAnalysis'
  <2>1. CASE row' = row
    BY <1>3, <2>1, KeptTogether DEF PostNow, RowsKept, Exists
  <2>2. CASE text \in Texts /\ row' = UpdateText(i, text)
    BY <1>3, <2>2, KeptTogether, TextKeepsRows DEF PostNow
  <2> QED
    BY <1>3, <2>1, <2>2 DEF PostNow
<1>4. ASSUME FinishRewrite(r) PROVE OneAnalysis'
  <2>1. job[r].id \in Ids
    BY <1>0, <1>4 DEF FinishRewrite, At, Fits
  <2>2. CASE row' = row
    BY <1>4, <2>2, KeptTogether DEF FinishRewrite, RowsKept, Exists
  <2>3. CASE \E text \in Texts : row' = UpdateText(job[r].id, text)
    BY <1>4, <2>1, <2>3, KeptTogether, TextKeepsRows DEF FinishRewrite
  <2> QED
    BY <1>4, <2>2, <2>3 DEF FinishRewrite
<1>5. ASSUME MarkArticleCandidatePrepared(r) PROVE OneAnalysis'
  <2>1. job[r].id \in Ids
    BY <1>0, <1>5 DEF MarkArticleCandidatePrepared, At, Fits
  <2>2. CASE row' = row
    BY <1>5, <2>2, KeptTogether DEF MarkArticleCandidatePrepared, RowsKept, Exists
  <2>3. CASE row[job[r].id] # None /\ row' = [row EXCEPT ![job[r].id].status = "ready"]
    <3> DEFINE y == [row[job[r].id] EXCEPT !.status = "ready"]
    <3>1. y.of = row[job[r].id].of
      BY <2>1, <2>3 DEF RestTyped, Row
    <3>2. row' = [row EXCEPT ![job[r].id] = y]
      BY <2>3
    <3> HIDE DEF y
    <3> QED
      BY <1>5, <2>1, <2>3, <3>1, <3>2, KeptTogether DEF MarkArticleCandidatePrepared, RowsKept, Exists, RestTyped
  <2> QED
    BY <1>5, <2>2, <2>3 DEF MarkArticleCandidatePrepared
<1>6. ASSUME Tick(r) \/ NextDue(r) \/ PrepareFails(r)
             \/ \E i \in Ids : WriteArticleDraft(r, i) \/ PrepareArticlePost(r, i)
      PROVE  OneAnalysis'
  BY <1>6, KeptTogether DEF Tick, NextDue, PrepareFails, WriteArticleDraft, PrepareArticlePost, RowsKept,
     Exists
<1> QED
  BY <1>1, <1>2, <1>3, <1>4, <1>5, <1>6 DEF Begins, PostStep

\* The candidates of an article all come from one analysis, and none survives its article.
THEOREM OneAnalysisHolds == Spec => []OneAnalysis
<1>1. Init => OneAnalysis
  <2> SUFFICES ASSUME Init PROVE OneAnalysis
    OBVIOUS
  <2>1. PICK t \in Texts : row = [i \in Ids |-> IF article[i[1]] = None THEN None ELSE Proposed(t, 0)]
    BY DEF Init
  <2>2. \A a \in Articles : article[a] # None => Exists(a)
    BY NoneIsNoValue DEF Init, Exists
  <2>3. Proposed(t, 0).of = 0
    BY DEF Proposed
  <2> QED
    BY <2>1, <2>2, <2>3 DEF OneAnalysis, Ids
<1>2. Typed /\ OneAnalysis /\ [Next]_vars => OneAnalysis'
  <2> SUFFICES ASSUME Typed, OneAnalysis, [Next]_vars PROVE OneAnalysis'
    OBVIOUS
  <2>1. CASE Crash \/ UNCHANGED vars
    BY <2>1, KeptTogether DEF Crash, vars, RowsKept, Exists
  <2> QED
    BY <2>1, NextSplits, OneAtOnce, OneOfAnalysis, OneOfRequest DEF Typed
<1> QED
  BY <1>1, <1>2, TypedInvariant, PTL DEF Spec

-----------------------------------------------------------------------------
(* Lists: the scheduler takes each candidate of its list once               *)

Listed == \A r \in Requests : Distinct(job[r])

\* A request with no list has nothing twice.
LEMMA EmptyDistinct ==
  ASSUME NEW j, j.rest = <<>>
  PROVE  Distinct(j)
BY DEF Distinct

\* Lists keep their candidates apart when one request takes a list that does.
LEMMA ListedKept ==
  ASSUME Listed, NEW r \in Requests, NEW j, Becomes(r, j), Distinct(j)
  PROVE  Listed'
BY DEF Listed, Becomes, Distinct

\* A request that changes neither its list nor its candidate, or lets go of it.
LEMMA DistinctSame ==
  ASSUME NEW r \in Requests, JobsTyped, Distinct(job[r]), NEW j, j.rest = job[r].rest,
         j.id = job[r].id \/ j.id = None
  PROVE  Distinct(j)
<1>1. job[r].rest \in Seq(Ids)
  BY DEF JobsTyped, Jobs
<1> QED
  BY <1>1, NoneIsNoValue DEF Distinct

\* Nothing comes twice in the lists of the scheduler.
LEMMA ListedStep ==
  ASSUME Typed, Listed, [Next]_vars
  PROVE  Listed'
<1> USE DEF Typed
<1>a. \A r \in Requests : job[r] \in Jobs /\ Fits(job[r]) /\ Distinct(job[r])
  BY DEF JobsTyped, Listed
<1>b. Distinct(Idle)
  BY EmptyDistinct DEF Idle
<1>1. CASE UNCHANGED job
  BY <1>1 DEF Listed, Distinct
<1>2. CASE Crash
  BY <1>2, <1>b DEF Crash, Listed, Distinct
<1>4. ASSUME NEW r \in Requests, Begins(r) PROVE Listed'
  <2>1. ASSUME NEW a \in Articles, Analyze(r, a) PROVE Listed'
    <3> DEFINE j == [Idle EXCEPT !.op = "analyze", !.stage = "run", !.src = a, !.of = issued']
    <3>1. job' = [job EXCEPT ![r] = j] /\ j.rest = <<>>
      BY <2>1 DEF Analyze, Begin, Start, Idle
    <3> HIDE DEF j
    <3> QED
      BY <3>1, EmptyDistinct, ListedKept DEF Becomes, JobsTyped
  <2>2. ASSUME NEW i \in Ids, RewriteArticleCandidate(r, i) PROVE Listed'
    <3> DEFINE j == [Idle EXCEPT !.op = "rewrite", !.stage = "rewrite", !.id = i]
    <3>1. job' = [job EXCEPT ![r] = j] /\ j.rest = <<>>
      BY <2>2 DEF RewriteArticleCandidate, Begin, Start, Idle
    <3> HIDE DEF j
    <3> QED
      BY <3>1, EmptyDistinct, ListedKept DEF Becomes, JobsTyped
  <2>3. ASSUME NEW i \in Ids, NEW text \in Texts \cup {None}, PostNow(r, i, text) PROVE Listed'
    <3> DEFINE j == [Idle EXCEPT !.op = "post", !.stage = "draft", !.id = i, !.seen = TextRead(i)]
    <3>1. job' = [job EXCEPT ![r] = j] /\ j.rest = <<>>
      BY <2>3 DEF PostNow, Begin, Start, Idle
    <3> HIDE DEF j
    <3> QED
      BY <3>1, EmptyDistinct, ListedKept DEF Becomes, JobsTyped
  <2>4. ASSUME Tick(r) PROVE Listed'
    <3> DEFINE due == {i \in Ids : Due(i)}
    <3>1. PICK q \in [1..Cardinality(due) -> due] :
            /\ \A a, b \in DOMAIN q : a < b => q[a] # q[b]
            /\ Start(r, [Idle EXCEPT !.op = "tick", !.stage = "next", !.rest = q])
      BY <2>4 DEF Tick
    <3>2. Cardinality(due) \in Nat /\ DOMAIN q = 1..Cardinality(due) /\ \A a \in DOMAIN q : q[a] \in Ids
      BY DueIsSequence
    <3>3. \A a, b \in DOMAIN q : q[a] = q[b] => a = b
      BY <3>1, <3>2
    <3> DEFINE j == [Idle EXCEPT !.op = "tick", !.stage = "next", !.rest = q]
    <3>4. job' = [job EXCEPT ![r] = j] /\ j.rest = q /\ j.id = None
      BY <3>1 DEF Start, Idle
    <3> HIDE DEF j
    <3>5. Distinct(j)
      BY <3>2, <3>3, <3>4, NoneIsNoValue DEF Distinct
    <3> QED
      BY <3>4, <3>5, ListedKept DEF Becomes, JobsTyped
  <2> QED
    BY <1>4, <2>1, <2>2, <2>3, <2>4 DEF Begins
<1>5. ASSUME NEW r \in Requests, End(r) PROVE Listed'
  BY <1>5, <1>b, EndType, ListedKept
<1>6. ASSUME NEW r \in Requests, NEW stage, Goto(r, stage) PROVE Listed'
  <2> DEFINE j == [job[r] EXCEPT !.stage = stage]
  <2>1. job' = [job EXCEPT ![r] = j] /\ j.rest = job[r].rest /\ j.id = job[r].id
    BY <1>6, <1>a DEF Goto, Jobs
  <2> HIDE DEF j
  <2>2. Distinct(j)
    BY <1>a, <2>1, DistinctSame
  <2> QED
    BY <2>1, <2>2, ListedKept DEF Becomes, JobsTyped
<1>7. ASSUME NEW r \in Requests, job' = [job EXCEPT ![r] = [@ EXCEPT !.id = None, !.stage = "next"]]
      PROVE  Listed'
  <2> DEFINE j == [job[r] EXCEPT !.id = None, !.stage = "next"]
  <2>1. job' = [job EXCEPT ![r] = j] /\ j.rest = job[r].rest /\ j.id = None
    BY <1>7, <1>a DEF Jobs, JobsTyped
  <2> HIDE DEF j
  <2>2. Distinct(j)
    BY <1>a, <2>1, DistinctSame
  <2> QED
    BY <2>1, <2>2, ListedKept DEF Becomes, JobsTyped
<1>8. ASSUME NEW r \in Requests, ReadAnalysis(r) PROVE Listed'
  <2>1. PICK of : job' = [job EXCEPT ![r] = [job[r] EXCEPT !.of = of, !.stage = "insert"]]
    BY <1>8 DEF ReadAnalysis, JobsTyped
  <2> DEFINE j == [job[r] EXCEPT !.of = of, !.stage = "insert"]
  <2>2. job' = [job EXCEPT ![r] = j] /\ j.rest = job[r].rest /\ j.id = job[r].id
    BY <2>1, <1>a DEF Jobs
  <2> HIDE DEF j
  <2>3. Distinct(j)
    BY <1>a, <2>2, DistinctSame
  <2> QED
    BY <2>2, <2>3, ListedKept DEF Becomes, JobsTyped
<1>9. ASSUME NEW r \in Requests, NextDue(r) PROVE Listed'
  <2>1. job[r].rest \in Seq(Ids) /\ job[r].id = None
    BY <1>9, <1>a DEF NextDue, At, Fits, Jobs
  <2> DEFINE i == Head(job[r].rest)
             k == [job[r] EXCEPT !.rest = Tail(@)]
             x == IF job[r].rest = <<>> THEN Idle ELSE IF row[i] = None THEN k
                  ELSE [k EXCEPT !.id = i, !.seen = row[i].text, !.stage = "draft"]
  <2>2. job' = [job EXCEPT ![r] = x]
    BY <1>9 DEF NextDue
  <2>3. CASE job[r].rest = <<>>
    BY <1>b, <2>2, <2>3, ListedKept DEF Becomes, JobsTyped
  <2>4. CASE job[r].rest # <<>>
    <3> DEFINE s == job[r].rest
    <3>1. x.rest = Tail(s) /\ x.id \in {None, i}
      BY <1>a, <2>1, <2>4 DEF Jobs
    <3>2. /\ \A a, b \in DOMAIN s : s[a] = s[b] => a = b
          /\ s \in Seq(Ids) /\ s # <<>>
      BY <1>a, <2>1, <2>4 DEF Distinct
    <3> HIDE DEF s, x
    <3>3. /\ Len(Tail(s)) = Len(s) - 1 /\ DOMAIN Tail(s) = 1..(Len(s) - 1) /\ DOMAIN s = 1..Len(s)
          /\ Len(s) \in Nat /\ Len(s) # 0
          /\ \A a \in 1..(Len(s) - 1) : Tail(s)[a] = s[a + 1]
          /\ Head(s) = s[1]
      BY <3>2
    <3>4. \A a, b \in DOMAIN Tail(s) : Tail(s)[a] = Tail(s)[b] => a = b
      <4> TAKE a, b \in DOMAIN Tail(s)
      <4>1. a \in Int /\ b \in Int /\ a + 1 \in DOMAIN s /\ b + 1 \in DOMAIN s
        BY <3>3
      <4>2. a + 1 = b + 1 => a = b
        BY <4>1
      <4> QED
        BY <3>2, <3>3, <4>1, <4>2
    <3>5. \A a \in DOMAIN Tail(s) : Tail(s)[a] # Head(s) /\ Tail(s)[a] # None
      <4> TAKE a \in DOMAIN Tail(s)
      <4>1. a + 1 \in DOMAIN s /\ a + 1 # 1 /\ 1 \in DOMAIN s
        BY <3>3
      <4>2. s[a + 1] # s[1] /\ s[a + 1] \in Ids
        BY <3>2, <4>1
      <4> QED
        BY <3>3, <4>2, NoneIsNoValue
    <3>6. Distinct(x)
      BY <3>1, <3>4, <3>5 DEF Distinct, s
    <3> QED
      BY <2>2, <3>6, ListedKept DEF Becomes, JobsTyped
  <2> QED
    BY <2>3, <2>4
<1>10. ASSUME AtOnce \/ UNCHANGED vars PROVE UNCHANGED job
  BY <1>10 DEF AtOnce, CreateArticleSource, DeleteArticleSource, DeleteArticleCandidate,
         PatchArticleCandidate, ScheduleArticleCandidate, Clock, vars
<1>11. ASSUME NEW r \in Requests, FinishRewrite(r) \/ AnalysisStep(r) \/ PostStep(r) PROVE Listed'
  <2>1. CASE FinishRewrite(r) \/ FinishAnalysis(r)
    BY <1>5, <2>1 DEF FinishRewrite, FinishAnalysis
  <2>2. CASE RunAnalyzer(r) \/ InsertArticleCandidates(r) \/ AnalysisFails(r)
    BY <1>6, <2>2 DEF RunAnalyzer, InsertArticleCandidates, AnalysisFails
  <2>3. CASE PrepareFails(r) \/ MarkArticleCandidatePrepared(r)
    BY <1>5, <1>7, <2>3 DEF PrepareFails, GiveUp, MarkArticleCandidatePrepared
  <2>4. CASE \E i \in Ids : WriteArticleDraft(r, i) \/ PrepareArticlePost(r, i)
    BY <1>5, <1>6, <2>4 DEF WriteArticleDraft, PrepareArticlePost, HandedOver
  <2> QED
    BY <1>8, <1>9, <1>11, <2>1, <2>2, <2>3, <2>4 DEF AnalysisStep, PostStep
<1> QED
  BY <1>1, <1>2, <1>4, <1>10, <1>11, NextSplits

-----------------------------------------------------------------------------
(* Candidates that one request at a time works on                           *)

Alone(i) == \A q, r \in Requests : i \in Holds(job[q]) /\ i \in Holds(job[r]) => q = r

Marking(i) == \E r \in Requests : job[r].id = i /\ job[r].stage = "mark"

\* A post that is ready was handed over, and one that is scheduled was not, unless the
\* scheduler is about to mark it.
Settled(i) ==
    /\ row[i] # None /\ row[i].status = "ready" => i \in handed
    /\ row[i] # None /\ row[i].status = "scheduled" /\ i \in handed => Marking(i)

\* What the request that works on a candidate has read is what the row says, and what it
\* has written agrees with it; and the scheduler has handed it over just when it is at the mark.
Working(i, j) ==
    /\ row[i] # None
    /\ j.id = i /\ j.stage = "draft" => j.seen = row[i].text
    /\ j.id = i /\ j.stage = "prepare" => draft[i] = row[i].text
    /\ j.op = "tick" => (i \in handed <=> j.id = i /\ j.stage = "mark")

Calm(i) ==
    /\ Alone(i) /\ Settled(i)
    /\ \A r \in Requests : i \in Holds(job[r]) => Working(i, job[r])

Undisturbed == \A i \in Ids \ disturbed : Calm(i)

Same(i) == row'[i] = row[i] /\ draft'[i] = draft[i] /\ (i \in handed' <=> i \in handed)

OthersSame(r) == \A q \in Requests \ {r} : job'[q] = job[q]

\* An idle request works on nothing.
LEMMA HoldsIdle == \A i \in Ids : i \notin Holds(Idle)
BY NoneIsNoValue DEF Holds, Idle

\* A candidate is held if some request works on it.
LEMMA HeldBy == \A i \in Ids : i \in Held <=> \E r \in Requests : i \in Holds(job[r])
BY DEF Held

\* A request works on its own candidate.
LEMMA HoldsItsOwn == ASSUME NEW i \in Ids, NEW j, j.id = i PROVE i \in Holds(j)
BY DEF Holds

\* Only the candidate a request starts on is held by it.
LEMMA HoldsStarted ==
  ASSUME NEW i \in Ids, NEW j, j.rest = <<>>, i \in Holds(j)
  PROVE  j.id = i
BY DEF Holds

\* What a request works on is its candidate and its list.
LEMMA HoldsLess ==
  ASSUME NEW i \in Ids, NEW j, NEW k, j.rest = k.rest, j.id = k.id \/ j.id = None, i \in Holds(j)
  PROVE  i \in Holds(k)
BY NoneIsNoValue DEF Holds

\* Nobody else works on what a request works on.
LEMMA NobodyElse ==
  ASSUME NEW i \in Ids, NEW r \in Requests, Calm(i), i \in Holds(job[r])
  PROVE  \A q \in Requests \ {r} : i \notin Holds(job[q])
BY DEF Calm, Alone

\* A step of the only request on a candidate leaves it calm if what that request then
\* needs holds and the candidate is settled.
LEMMA CalmHere ==
  ASSUME NEW i \in Ids, NEW r \in Requests, OthersSame(r),
         \A q \in Requests \ {r} : i \notin Holds(job[q]),
         i \in Holds(job'[r]) => Working(i, job[r])',
         Settled(i)'
  PROVE  Calm(i)'
<1>1. \A q \in Requests \ {r} : i \notin Holds(job'[q])
  BY DEF OthersSame
<1>2. Alone(i)'
  BY <1>1 DEF Alone, Holds
<1>3. \A q \in Requests : i \in Holds(job'[q]) => Working(i, job[q])'
  BY <1>1
<1> QED
  BY <1>2, <1>3 DEF Calm, Holds

\* A step that changes nothing of a candidate leaves it calm, if its request takes up nothing.
LEMMA CalmElsewhere ==
  ASSUME NEW i \in Ids, NEW r \in Requests, Calm(i), OthersSame(r), Same(i),
         job[r].id = i => job[r].stage # "mark",
         i \in Holds(job'[r]) => i \in Holds(job[r]) /\ Working(i, job[r])'
  PROVE  Calm(i)'
<1>1. Alone(i)'
  BY DEF Alone, Holds, Calm, OthersSame
<1>2. Settled(i)'
  <2>1. Marking(i) => Marking(i)'
    BY DEF Marking, OthersSame
  <2> QED
    BY <2>1 DEF Settled, Calm, Same
<1>3. ASSUME NEW q \in Requests, i \in Holds(job'[q]) PROVE Working(i, job[q])'
  <2>1. CASE q = r
    BY <1>3, <2>1
  <2>2. CASE q # r
    BY <1>3, <2>2 DEF Working, Calm, OthersSame, Same, Holds
  <2> QED
    BY <2>1, <2>2
<1> QED
  BY <1>1, <1>2, <1>3 DEF Calm, Holds

\* What no request works on stays calm when its settled data change with no request.
LEMMA CalmUnheld ==
  ASSUME NEW i \in Ids, UNCHANGED job, i \notin Held, Settled(i)'
  PROVE  Calm(i)'
<1>1. \A q \in Requests : i \notin Holds(job'[q])
  BY HeldBy
<1> QED
  BY <1>1 DEF Calm, Alone, Holds

\* A step that changes neither requests nor a candidate's data leaves the candidate calm.
LEMMA CalmSame ==
  ASSUME NEW i \in Ids, UNCHANGED job, Same(i), Calm(i)
  PROVE  Calm(i)'
<1>1. Alone(i)'
  BY DEF Alone, Holds, Calm
<1>2. Settled(i)'
  BY DEF Settled, Marking, Calm, Same
<1>3. \A q \in Requests : i \in Holds(job'[q]) => Working(i, job[q])'
  BY DEF Working, Calm, Same, Holds
<1> QED
  BY <1>1, <1>2, <1>3 DEF Calm, Holds

\* A candidate nobody works on was not handed over since it was scheduled.
LEMMA UnheldScheduled ==
  ASSUME NEW i \in Ids, Calm(i), i \notin Held, row[i] # None, row[i].status = "scheduled"
  PROVE  i \notin handed
<1>1. ~ Marking(i)
  BY HeldBy, HoldsItsOwn DEF Marking
<1> QED
  BY <1>1 DEF Calm, Settled

\* Steps that move no request.  Of a candidate that is scheduled nothing is known before.
LEMMA CalmAtOnce ==
  ASSUME Typed, AtOnce, NEW i \in Ids, i \notin disturbed', i \notin disturbed => Calm(i)
  PROVE  Calm(i)'
<1> USE DEF Typed
<1>0. UNCHANGED job
  BY DEF AtOnce, CreateArticleSource, DeleteArticleSource, DeleteArticleCandidate,
         PatchArticleCandidate, ScheduleArticleCandidate, Clock
<1>1. ASSUME NEW a \in Articles, CreateArticleSource(a) PROVE Calm(i)'
  BY <1>0, <1>1, CalmSame DEF CreateArticleSource, Same
<1>2. ASSUME NEW a \in Articles, DeleteArticleSource(a) PROVE Calm(i)'
  <2>1. CASE i[1] # a
    BY <1>0, <1>2, <2>1, CalmSame DEF DeleteArticleSource, Same
  <2>2. CASE i[1] = a
    <3>1. row'[i] = None /\ i \notin Held
      BY <1>2, <2>2 DEF DeleteArticleSource, CandidatesOf
    <3> QED
      BY <1>0, <3>1, CalmUnheld DEF Settled
  <2> QED
    BY <2>1, <2>2
<1>3. ASSUME NEW k \in Ids, DeleteArticleCandidate(k) PROVE Calm(i)'
  <2>0. i \notin disturbed
    BY <1>3 DEF DeleteArticleCandidate, Disturb
  <2>1. CASE i # k
    BY <1>0, <1>3, <2>0, <2>1, CalmSame DEF DeleteArticleCandidate, Same, RestTyped
  <2>2. CASE i = k
    <3>1. row'[i] = None /\ i \notin Held
      BY <1>3, <2>2 DEF DeleteArticleCandidate, Disturb, RestTyped
    <3> QED
      BY <1>0, <3>1, CalmUnheld DEF Settled
  <2> QED
    BY <2>1, <2>2
<1>4. ASSUME NEW k \in Ids, NEW text \in Texts, PatchArticleCandidate(k, text) PROVE Calm(i)'
  <2>0. i \notin disturbed /\ Calm(i)
    BY <1>4 DEF PatchArticleCandidate, Disturb
  <2>1. CASE i # k
    <3>1. row'[i] = row[i]
      BY <1>4, <2>1, TextType DEF PatchArticleCandidate
    <3> QED
      BY <1>0, <1>4, <2>0, <3>1, CalmSame DEF PatchArticleCandidate, Same
  <2>2. CASE i = k
    <3>1. i \notin Held /\ row[i] # None /\ row' = UpdateText(i, text) /\ handed' = handed
      BY <1>4, <2>2 DEF PatchArticleCandidate, Disturb
    <3>2. row'[i].status = row[i].status
      BY <3>1, TextType
    <3>3. Marking(i)' <=> Marking(i)
      BY <1>0 DEF Marking
    <3>4. Settled(i)'
      BY <2>0, <3>1, <3>2, <3>3 DEF Calm, Settled
    <3> QED
      BY <1>0, <3>1, <3>4, CalmUnheld
  <2> QED
    BY <2>1, <2>2
<1>5. ASSUME NEW k \in Ids, NEW at \in 0..MaxTime, ScheduleArticleCandidate(k, at) PROVE Calm(i)'
  <2>1. CASE i # k
    BY <1>0, <1>5, <2>1, CalmSame DEF ScheduleArticleCandidate, Same, RestTyped
  <2>2. CASE i = k
    <3> DEFINE x == [row[i] EXCEPT !.at = at, !.status = "scheduled"]
    <3>1. row[i] \in Row /\ row' = [row EXCEPT ![i] = x] /\ i \notin Held /\ i \notin handed'
      BY <1>5, <2>2 DEF ScheduleArticleCandidate, RestTyped
    <3>2. x.status = "scheduled"
      BY <3>1 DEF Row
    <3> HIDE DEF x
    <3>3. row'[i].status = "scheduled"
      BY <3>1, <3>2 DEF RestTyped
    <3> QED
      BY <1>0, <3>1, <3>3, CalmUnheld DEF Settled
  <2> QED
    BY <2>1, <2>2
<1>6. ASSUME Clock PROVE Calm(i)'
  BY <1>0, <1>6, CalmSame DEF Clock, Same
<1> QED
  BY <1>1, <1>2, <1>3, <1>4, <1>5, <1>6 DEF AtOnce

\* A crash ends every request, and disturbs what they worked on.
LEMMA CalmCrash ==
  ASSUME Crash, NEW i \in Ids, i \notin disturbed', i \notin disturbed => Calm(i)
  PROVE  Calm(i)'
<1>1. i \notin Held /\ Calm(i) /\ UNCHANGED <<row, handed>> /\ \A r \in Requests : job'[r] = Idle
  BY DEF Crash
<1>2. row[i] # None /\ row[i].status = "scheduled" => i \notin handed
  BY <1>1, UnheldScheduled
<1>3. Settled(i)'
  BY <1>1, <1>2 DEF Settled, Calm
<1>4. \A q \in Requests : i \notin Holds(job'[q])
  BY <1>1, HoldsIdle
<1> QED
  BY <1>3, <1>4 DEF Calm, Alone, Holds

\* A request that begins on a candidate is the only one there, or disturbs it.
LEMMA CalmBegins ==
  ASSUME Typed, NEW r \in Requests, Begins(r), NEW i \in Ids, i \notin disturbed',
         i \notin disturbed => Calm(i)
  PROVE  Calm(i)'
<1> USE DEF Typed
<1>0. i \notin disturbed /\ Calm(i)
  BY DEF Begins, Analyze, RewriteArticleCandidate, PostNow, Tick, Disturb
<1>a. i \notin Holds(Idle) /\ Idle.id # i
  BY HoldsIdle, HoldsItsOwn
<1>1. ASSUME NEW a \in Articles, Analyze(r, a) PROVE Calm(i)'
  <2> DEFINE j == [Idle EXCEPT !.op = "analyze", !.stage = "run", !.src = a, !.of = issued']
  <2>1. job[r] = Idle /\ job' = [job EXCEPT ![r] = j] /\ j.rest = <<>> /\ j.id = None
    BY <1>1 DEF Analyze, Begin, Start, Idle
  <2> HIDE DEF j
  <2>2. job'[r] = j /\ OthersSame(r) /\ i \notin Holds(j)
    BY <2>1, HoldsStarted, NoneIsNoValue DEF OthersSame, JobsTyped
  <2>3. Same(i)
    BY <1>1 DEF Analyze, Same
  <2> QED
    BY <1>0, <1>a, <2>1, <2>2, <2>3, CalmElsewhere
<1>2. ASSUME NEW k \in Ids, RewriteArticleCandidate(r, k) PROVE Calm(i)'
  <2> DEFINE j == [Idle EXCEPT !.op = "rewrite", !.stage = "rewrite", !.id = k]
  <2>1. /\ job[r] = Idle /\ job' = [job EXCEPT ![r] = j]
        /\ j.rest = <<>> /\ j.id = k /\ j.stage = "rewrite" /\ j.op = "rewrite"
    BY <1>2 DEF RewriteArticleCandidate, Begin, Start, Idle
  <2> HIDE DEF j
  <2>2. job'[r] = j /\ OthersSame(r) /\ (i \in Holds(j) => i = k)
    BY <2>1, HoldsStarted DEF OthersSame, JobsTyped
  <2>3. Same(i)
    BY <1>2 DEF RewriteArticleCandidate, Same
  <2>4. CASE i # k
    BY <1>0, <1>a, <2>1, <2>2, <2>3, <2>4, CalmElsewhere
  <2>5. CASE i = k
    <3>1. i \notin Held /\ row[i] # None
      BY <1>2, <2>5 DEF RewriteArticleCandidate, Disturb
    <3>2. Settled(i)'
      BY <1>0, <2>3, <3>1, UnheldScheduled DEF Settled, Calm, Same
    <3>3. Working(i, job[r])'
      BY <2>1, <2>2, <2>3, <3>1 DEF Working, Same
    <3> QED
      BY <2>2, <3>1, <3>2, <3>3, HeldBy, CalmHere
  <2> QED
    BY <2>4, <2>5
<1>3. ASSUME NEW k \in Ids, NEW text \in Texts \cup {None}, PostNow(r, k, text) PROVE Calm(i)'
  <2> DEFINE j == [Idle EXCEPT !.op = "post", !.stage = "draft", !.id = k, !.seen = TextRead(k)]
  <2>1. /\ job[r] = Idle /\ job' = [job EXCEPT ![r] = j] /\ j.rest = <<>> /\ j.id = k
        /\ j.stage = "draft" /\ j.op = "post" /\ j.seen = row'[k].text
    BY <1>3 DEF PostNow, Begin, Start, Idle, TextRead
  <2> HIDE DEF j
  <2>2. job'[r] = j /\ OthersSame(r) /\ (i \in Holds(j) => i = k)
    BY <2>1, HoldsStarted DEF OthersSame, JobsTyped
  <2>3. /\ i # k => row'[i] = row[i]
        /\ i = k => row'[i] # None /\ row[i] # None /\ row'[i].status = row[i].status
    BY <1>3, TextType DEF PostNow
  <2>4. draft' = draft /\ handed' = handed
    BY <1>3 DEF PostNow
  <2>5. CASE i # k
    BY <1>0, <1>a, <2>1, <2>2, <2>3, <2>4, <2>5, CalmElsewhere DEF Same
  <2>6. CASE i = k
    <3>1. i \notin Held
      BY <1>3, <2>6 DEF PostNow, Disturb
    <3>2. Settled(i)'
      BY <1>0, <2>3, <2>4, <2>6, <3>1, UnheldScheduled DEF Settled, Calm
    <3>3. Working(i, job[r])'
      BY <2>1, <2>2, <2>3, <2>6 DEF Working
    <3> QED
      BY <2>2, <3>1, <3>2, <3>3, HeldBy, CalmHere
  <2> QED
    BY <2>5, <2>6
<1>4. ASSUME Tick(r) PROVE Calm(i)'
  <2> DEFINE due == {k \in Ids : Due(k)}
  <2>1. PICK q \in [1..Cardinality(due) -> due] :
          Start(r, [Idle EXCEPT !.op = "tick", !.stage = "next", !.rest = q])
    BY <1>4 DEF Tick
  <2> DEFINE j == [Idle EXCEPT !.op = "tick", !.stage = "next", !.rest = q]
  <2>2. /\ job[r] = Idle /\ job' = [job EXCEPT ![r] = j] /\ j.rest = q /\ j.id = None /\ j.stage = "next"
        /\ j.op = "tick"
    BY <2>1 DEF Start, Idle
  <2> HIDE DEF j
  <2>3. job'[r] = j /\ OthersSame(r) /\ (i \in Holds(j) => Due(i))
    BY <2>2, DueIsSequence, NoneIsNoValue DEF OthersSame, JobsTyped, Holds
  <2>4. Same(i)
    BY <1>4 DEF Tick, Same
  <2>5. CASE ~ Due(i)
    BY <1>0, <1>a, <2>2, <2>3, <2>4, <2>5, CalmElsewhere
  <2>6. CASE Due(i)
    <3>1. i \notin Held
      BY <1>4, <2>6 DEF Tick
    <3>2. row[i] # None /\ row[i].status = "scheduled" /\ i \notin handed
      BY <1>0, <2>6, <3>1, UnheldScheduled DEF Due
    <3>3. Settled(i)'
      BY <1>0, <2>4, <3>2 DEF Settled, Calm, Same
    <3>4. Working(i, job[r])'
      BY <2>2, <2>3, <2>4, <3>2, NoneIsNoValue DEF Working, Same
    <3> QED
      BY <2>3, <3>1, <3>3, <3>4, HeldBy, CalmHere
  <2> QED
    BY <2>5, <2>6
<1> QED
  BY <1>1, <1>2, <1>3, <1>4 DEF Begins

\* A rewrite leaves the candidate it gives a text with nobody at work on it.
LEMMA CalmRewrite ==
  ASSUME Typed, NEW r \in Requests, FinishRewrite(r), NEW i \in Ids, i \notin disturbed', Calm(i)
  PROVE  Calm(i)'
<1> USE DEF Typed
<1>1. job[r].id \in Ids /\ job[r].stage = "rewrite"
  BY DEF FinishRewrite, At, JobsTyped, Fits
<1>2. job'[r] = Idle /\ OthersSame(r) /\ i \notin Holds(Idle)
  BY EndType, HoldsIdle DEF FinishRewrite, Becomes, OthersSame
<1>3. draft' = draft /\ handed' = handed
  BY DEF FinishRewrite
<1>4. CASE i # job[r].id
  <2>1. row'[i] = row[i]
    BY <1>1, <1>4, TextType DEF FinishRewrite
  <2> QED
    BY <1>1, <1>2, <1>3, <2>1, CalmElsewhere DEF Same
<1>5. CASE i = job[r].id
  <2>1. row[i] # None
    BY <1>5, HoldsItsOwn DEF Calm, Working
  <2>2. row'[i] # None /\ row'[i].status = row[i].status
    BY <1>1, <1>5, <2>1, TextType DEF FinishRewrite
  <2>3. \A q \in Requests \ {r} : i \notin Holds(job[q])
    BY <1>5, HoldsItsOwn, NobodyElse
  <2>4. ~ Marking(i)
    BY <1>1, <2>3, HoldsItsOwn DEF Marking
  <2>5. Settled(i)'
    BY <1>3, <2>1, <2>2, <2>4 DEF Settled, Calm
  <2> QED
    BY <1>2, <2>3, <2>5, CalmHere
<1> QED
  BY <1>4, <1>5

\* An analysis leaves the candidates calm that it does not replace, and those it writes.
LEMMA CalmAnalysis ==
  ASSUME Typed, NEW r \in Requests, AnalysisStep(r), NEW i \in Ids, i \notin disturbed', Calm(i)
  PROVE  Calm(i)'
<1> USE DEF Typed
<1>0. job[r] \in Jobs /\ Fits(job[r])
  BY DEF JobsTyped
<1>1. job[r].id = None /\ job[r].rest = <<>> /\ job[r].stage # "mark"
  BY <1>0 DEF AnalysisStep, RunAnalyzer, ReadAnalysis, InsertArticleCandidates, AnalysisFails,
     FinishAnalysis, At, Fits, Analyzing
<1>2. /\ OthersSame(r)
      /\ job'[r].id = None /\ job'[r].rest = <<>>
  <2>1. CASE \E stage : Goto(r, stage)
    BY <1>0, <1>1, <2>1 DEF Goto, OthersSame, JobsTyped, Jobs
  <2>2. CASE End(r)
    BY <2>2, EndType DEF Becomes, OthersSame, Idle
  <2>3. CASE ReadAnalysis(r)
    <3>1. PICK of : job' = [job EXCEPT ![r] = [job[r] EXCEPT !.of = of, !.stage = "insert"]]
      BY <2>3 DEF ReadAnalysis, JobsTyped
    <3> QED
      BY <1>0, <1>1, <3>1 DEF OthersSame, JobsTyped, Jobs
  <2> QED
    BY <2>1, <2>2, <2>3 DEF AnalysisStep, RunAnalyzer, InsertArticleCandidates, AnalysisFails,
       FinishAnalysis
<1>3. i \notin Holds(job'[r]) /\ job[r].id # i
  BY <1>1, <1>2, HoldsStarted, NoneIsNoValue
<1>4. CASE row'[i] = row[i]
  <2>1. Same(i)
    BY <1>4 DEF Same, AnalysisStep, RunAnalyzer, ReadAnalysis, InsertArticleCandidates, AnalysisFails,
       FinishAnalysis
  <2> QED
    BY <1>2, <1>3, <2>1, CalmElsewhere
<1>5. CASE InsertArticleCandidates(r) /\ row'[i] # row[i]
  <2>1. job[r].src \in Articles /\ job[r].of \in 0..MaxRequests
    BY <1>0, <1>5 DEF InsertArticleCandidates, At, Fits, Analyzing, Jobs
  <2>2. PICK n \in 1..MaxRank, text \in Texts : row' = Rewritten(job[r].src, n, text, job[r].of)
    BY <1>5 DEF InsertArticleCandidates
  <2>3. /\ i[1] # job[r].src => row'[i] = row[i]
        /\ i[1] = job[r].src /\ row'[i] # None => row'[i].status = "proposed"
    BY <2>1, <2>2, RewrittenType
  <2>4. i \notin Held
    BY <1>5, <2>3 DEF InsertArticleCandidates, CandidatesOf
  <2>5. Settled(i)'
    BY <1>5, <2>3 DEF Settled
  <2> QED
    BY <1>2, <1>3, <2>4, <2>5, HeldBy, CalmHere
<1>6. CASE ~ InsertArticleCandidates(r)
  BY <1>4, <1>6 DEF AnalysisStep, RunAnalyzer, ReadAnalysis, AnalysisFails, FinishAnalysis
<1> QED
  BY <1>4, <1>5, <1>6

\* A request that lets go of its candidate leaves it calm.
LEMMA CalmLetGo ==
  ASSUME Typed, Listed, NEW r \in Requests, NEW i \in Ids, Calm(i), Same(i), OthersSame(r),
         job[r].stage # "mark",
         \/ job'[r] = Idle
         \/ job'[r] = [job[r] EXCEPT !.id = None, !.stage = "next"] /\ job[r].op = "tick"
  PROVE  Calm(i)'
<1>1. job[r] \in Jobs
  BY DEF Typed, JobsTyped
<1>2. CASE job'[r] = Idle
  BY <1>2, HoldsIdle, CalmElsewhere
<1>3. CASE job'[r] = [job[r] EXCEPT !.id = None, !.stage = "next"] /\ job[r].op = "tick"
  <2>1. /\ job'[r].id = None /\ job'[r].rest = job[r].rest /\ job'[r].stage = "next"
        /\ job'[r].op = "tick"
    BY <1>1, <1>3 DEF Jobs
  <2>2. i \in Holds(job'[r]) => i \in Holds(job[r])
    BY <2>1, HoldsLess
  <2>3. i \in Holds(job[r]) => Working(i, job[r])'
    BY <1>3, <2>1, NoneIsNoValue DEF Calm, Working, Same
  <2> QED
    BY <2>2, <2>3, CalmElsewhere
<1> QED
  BY <1>2, <1>3

\* A list that gets shorter holds no more than it did.
LEMMA TailHolds ==
  ASSUME NEW s \in Seq(Ids), s # <<>>, \A a, b \in DOMAIN s : s[a] = s[b] => a = b
  PROVE  /\ Head(s) \in Ids /\ \E b \in DOMAIN s : s[b] = Head(s)
         /\ \A a \in DOMAIN Tail(s) : Tail(s)[a] # Head(s) /\ \E b \in DOMAIN s : s[b] = Tail(s)[a]
<1>1. /\ DOMAIN Tail(s) = 1..(Len(s) - 1) /\ DOMAIN s = 1..Len(s) /\ Len(s) \in Nat /\ Len(s) # 0
      /\ \A a \in 1..(Len(s) - 1) : Tail(s)[a] = s[a + 1]
      /\ Head(s) = s[1]
  OBVIOUS
<1>2. ASSUME NEW a \in DOMAIN Tail(s)
      PROVE  Tail(s)[a] # Head(s) /\ \E b \in DOMAIN s : s[b] = Tail(s)[a]
  <2>1. a + 1 \in DOMAIN s /\ a + 1 # 1 /\ 1 \in DOMAIN s
    BY <1>1, <1>2
  <2>2. s[a + 1] # s[1]
    BY <2>1
  <2> QED
    BY <1>1, <1>2, <2>1, <2>2
<1> QED
  BY <1>1, <1>2

\* The scheduler turns to the next candidate of its list.
LEMMA CalmNextDue ==
  ASSUME Typed, Listed, NEW r \in Requests, NextDue(r), NEW i \in Ids, Calm(i)
  PROVE  Calm(i)'
<1> USE DEF Typed
<1>1. /\ job[r] \in Jobs /\ job[r].rest \in Seq(Ids) /\ job[r].id = None /\ job[r].stage = "next"
      /\ job[r].op = "tick"
  BY DEF NextDue, At, Fits, Jobs, JobsTyped
<1>2. Same(i)
  BY DEF NextDue, Same
<1> DEFINE h == Head(job[r].rest)
           k == [job[r] EXCEPT !.rest = Tail(@)]
           x == IF job[r].rest = <<>> THEN Idle ELSE IF row[h] = None THEN k
                ELSE [k EXCEPT !.id = h, !.seen = row[h].text, !.stage = "draft"]
<1>3. job'[r] = x /\ OthersSame(r)
  BY DEF NextDue, OthersSame, JobsTyped
<1>4. CASE job[r].rest = <<>>
  BY <1>1, <1>2, <1>3, <1>4, CalmLetGo
<1>5. CASE job[r].rest # <<>>
  <2>1. \A a, b \in DOMAIN job[r].rest : job[r].rest[a] = job[r].rest[b] => a = b
    BY DEF Listed, Distinct
  <2>2. /\ h \in Ids /\ h \in Holds(job[r])
        /\ \A a \in DOMAIN Tail(job[r].rest) :
             Tail(job[r].rest)[a] # h /\ \E b \in DOMAIN job[r].rest : job[r].rest[b] = Tail(job[r].rest)[a]
    BY <1>1, <1>5, <2>1, TailHolds DEF Holds
  <2>3. /\ x.rest = Tail(job[r].rest) /\ x.op = "tick"
        /\ \/ x.id = None /\ x.stage = "next"
           \/ row[h] # None /\ x.id = h /\ x.seen = row[h].text /\ x.stage = "draft"
    BY <1>1, <1>5 DEF Jobs
  <2> HIDE DEF x, h
  <2>4. i \in Holds(x) => i \in Holds(job[r])
    BY <2>2, <2>3, NoneIsNoValue DEF Holds
  <2>5. ASSUME i \in Holds(x) PROVE Working(i, job[r])'
    <3>1. row[i] # None /\ i \notin handed
      BY <1>1, <2>4, <2>5, NoneIsNoValue DEF Calm, Working
    <3> QED
      BY <1>2, <1>3, <2>3, <3>1, NoneIsNoValue DEF Working, Same
  <2> QED
    BY <1>1, <1>2, <1>3, <2>4, <2>5, NoneIsNoValue, CalmElsewhere
<1> QED
  BY <1>4, <1>5

\* What a post does to its candidate leaves it calm, and the others.
LEMMA CalmPost ==
  ASSUME Typed, Listed, NEW r \in Requests, PostStep(r), NEW i \in Ids, i \notin disturbed', Calm(i)
  PROVE  Calm(i)'
<1> USE DEF Typed
<1>0. job[r] \in Jobs /\ Fits(job[r])
  BY DEF JobsTyped
<1>1. ASSUME NextDue(r) PROVE Calm(i)'
  BY <1>1, CalmNextDue
<1>2. ASSUME PrepareFails(r) PROVE Calm(i)'
  <2>1. /\ OthersSame(r)
        /\ \/ job'[r] = Idle
           \/ job'[r] = [job[r] EXCEPT !.id = None, !.stage = "next"] /\ job[r].op = "tick"
    BY <1>2, GiveUpType DEF PrepareFails, Becomes, OthersSame
  <2>2. Same(i) /\ job[r].stage # "mark"
    BY <1>2 DEF PrepareFails, Same
  <2> QED
    BY <2>1, <2>2, CalmLetGo
<1>3. ASSUME NEW k \in Ids, WriteArticleDraft(r, k) PROVE Calm(i)'
  <2>1. /\ job'[r] = [job[r] EXCEPT !.stage = "prepare"] /\ OthersSame(r) /\ job[r].id = k
        /\ job[r].stage = "draft"
    BY <1>3 DEF WriteArticleDraft, Goto, At, OthersSame, JobsTyped
  <2>2. /\ job'[r].id = k /\ job'[r].stage = "prepare" /\ job'[r].op = job[r].op
        /\ job'[r].rest = job[r].rest
    BY <1>0, <2>1 DEF Jobs
  <2>3. row' = row /\ handed' = handed /\ draft' = [draft EXCEPT ![k] = job[r].seen]
    BY <1>3 DEF WriteArticleDraft
  <2>4. i \in Holds(job'[r]) => i \in Holds(job[r])
    BY <2>1, <2>2, HoldsLess
  <2>5. ASSUME i \in Holds(job[r]) PROVE Working(i, job[r])'
    <3>1. Working(i, job[r])
      BY <2>5 DEF Calm
    <3>2. i = k => draft'[i] = row[i].text
      BY <2>1, <2>3, <3>1 DEF Working, RestTyped
    <3> QED
      BY <2>1, <2>2, <2>3, <3>1, <3>2 DEF Working
  <2>6. CASE i # k
    BY <2>1, <2>3, <2>4, <2>5, <2>6, CalmElsewhere DEF Same, RestTyped
  <2>7. CASE i = k
    <3>1. \A q \in Requests \ {r} : i \notin Holds(job[q])
      BY <2>1, <2>7, HoldsItsOwn, NobodyElse
    <3>2. ~ Marking(i)
      BY <2>1, <3>1, HoldsItsOwn DEF Marking
    <3>3. Settled(i)'
      BY <2>3, <3>2 DEF Settled, Calm
    <3> QED
      BY <2>1, <2>4, <2>5, <3>1, <3>3, CalmHere
  <2> QED
    BY <2>6, <2>7
<1>4. ASSUME NEW k \in Ids, PrepareArticlePost(r, k) PROVE Calm(i)'
  <2>1. job[r].id = k /\ job[r].stage = "prepare" /\ row' = row /\ draft' = draft
    BY <1>4 DEF PrepareArticlePost, At
  <2>2. CASE job[r].op # "tick"
    <3>1. job'[r] = Idle /\ OthersSame(r) /\ handed' = handed
      BY <1>4, <2>2, EndType DEF PrepareArticlePost, HandedOver, Becomes, OthersSame
    <3> QED
      BY <2>1, <3>1, CalmLetGo DEF Same
  <2>3. CASE job[r].op = "tick"
    <3>1. /\ job'[r] = [job[r] EXCEPT !.stage = "mark"] /\ OthersSame(r)
          /\ handed' = handed \cup {k}
      BY <1>4, <2>1, <2>3 DEF PrepareArticlePost, HandedOver, Goto, OthersSame, JobsTyped
    <3>2. /\ job'[r].id = k /\ job'[r].stage = "mark" /\ job'[r].op = "tick"
          /\ job'[r].rest = job[r].rest
      BY <1>0, <2>1, <2>3, <3>1 DEF Jobs
    <3>3. i \in Holds(job'[r]) => i \in Holds(job[r])
      BY <2>1, <3>2, HoldsLess
    <3>4. i \in Holds(job[r]) => Working(i, job[r])'
      BY <2>1, <2>3, <3>1, <3>2 DEF Calm, Working
    <3>5. CASE i # k
      BY <2>1, <3>1, <3>3, <3>4, <3>5, CalmElsewhere DEF Same
    <3>6. CASE i = k
      <4>1. Settled(i)'
        BY <3>1, <3>2, <3>6 DEF Settled, Marking
      <4>2. \A q \in Requests \ {r} : i \notin Holds(job[q])
        BY <2>1, <3>6, HoldsItsOwn, NobodyElse
      <4> QED
        BY <3>1, <3>3, <3>4, <4>1, <4>2, CalmHere
    <3> QED
      BY <3>5, <3>6
  <2> QED
    BY <2>2, <2>3
<1>5. ASSUME MarkArticleCandidatePrepared(r) PROVE Calm(i)'
  <2>1. job[r].op = "tick" /\ job[r].id \in Ids /\ job[r].stage = "mark"
    BY <1>0, <1>5 DEF MarkArticleCandidatePrepared, At, Fits
  <2>2. /\ job'[r] = [job[r] EXCEPT !.id = None, !.stage = "next"] /\ OthersSame(r)
        /\ draft' = draft /\ handed' = handed
    BY <1>5 DEF MarkArticleCandidatePrepared, OthersSame, JobsTyped
  <2>3. /\ job'[r].id = None /\ job'[r].rest = job[r].rest /\ job'[r].stage = "next"
        /\ job'[r].op = "tick"
    BY <1>0, <2>1, <2>2 DEF Jobs
  <2>4. CASE i # job[r].id
    <3>1. row'[i] = row[i]
      BY <1>5, <2>4 DEF MarkArticleCandidatePrepared, RestTyped
    <3>2. i \in Holds(job'[r]) => i \in Holds(job[r])
      BY <2>3, HoldsLess
    <3>3. i \in Holds(job[r]) => Working(i, job[r])'
      BY <2>1, <2>2, <2>3, <2>4, <3>1, NoneIsNoValue DEF Calm, Working
    <3> QED
      BY <2>2, <2>4, <3>1, <3>2, <3>3, CalmElsewhere DEF Same
  <2>5. CASE i = job[r].id
    <3>1. row[i] # None /\ i \in handed /\ \A q \in Requests \ {r} : i \notin Holds(job[q])
      BY <2>1, <2>5, HoldsItsOwn, NobodyElse DEF Calm, Working
    <3>2. row' = [row EXCEPT ![i].status = "ready"]
      BY <1>5, <2>5, <3>1 DEF MarkArticleCandidatePrepared
    <3>3. row[i] \in Row /\ row'[i] = [row[i] EXCEPT !.status = "ready"]
      BY <3>1, <3>2 DEF RestTyped
    <3>4. row'[i].status = "ready"
      BY <3>3 DEF Row
    <3>5. Settled(i)'
      BY <2>2, <3>1, <3>4 DEF Settled
    <3>6. i \notin Holds(job'[r])
      BY <2>3, <2>5, NoneIsNoValue DEF Holds, Listed, Distinct
    <3> QED
      BY <2>2, <3>1, <3>5, <3>6, CalmHere
  <2> QED
    BY <2>4, <2>5
<1> QED
  BY <1>1, <1>2, <1>3, <1>4, <1>5 DEF PostStep

\* What is undisturbed stays calm.
LEMMA UndisturbedStep ==
  ASSUME Typed, Listed, Undisturbed, [Next]_vars
  PROVE  Undisturbed'
<1> SUFFICES ASSUME NEW i \in Ids, i \notin disturbed' PROVE Calm(i)'
  BY DEF Undisturbed
<1>1. i \notin disturbed => Calm(i)
  BY DEF Undisturbed
<1>2. CASE AtOnce
  BY <1>1, <1>2, CalmAtOnce
<1>3. CASE Crash
  BY <1>1, <1>3, CalmCrash
<1>4. CASE UNCHANGED vars
  BY <1>1, <1>4, CalmSame DEF vars, Same
<1>5. ASSUME NEW r \in Requests, Begins(r) PROVE Calm(i)'
  BY <1>1, <1>5, CalmBegins
<1>6. ASSUME NEW r \in Requests, FinishRewrite(r) \/ AnalysisStep(r) \/ PostStep(r) PROVE Calm(i)'
  <2>1. i \notin disturbed
    BY <1>6 DEF FinishRewrite, AnalysisStep, RunAnalyzer, ReadAnalysis, InsertArticleCandidates,
       AnalysisFails, FinishAnalysis, PostStep, NextDue, PrepareFails, MarkArticleCandidatePrepared,
       WriteArticleDraft, PrepareArticlePost
  <2> QED
    BY <1>1, <1>6, <2>1, CalmRewrite, CalmAnalysis, CalmPost
<1> QED
  BY <1>2, <1>3, <1>4, <1>5, <1>6, NextSplits

\* At the start nobody works on anything, and nothing is scheduled.
LEMMA InitCalm == Init => Listed /\ Undisturbed
<1> SUFFICES ASSUME Init PROVE Listed /\ Undisturbed
  OBVIOUS
<1>1. \A r \in Requests : job[r] = Idle
  BY DEF Init
<1>2. Listed
  BY <1>1 DEF Listed, Distinct, Idle
<1>3. PICK t \in Texts : row = [i \in Ids |-> IF article[i[1]] = None THEN None ELSE Proposed(t, 0)]
  BY DEF Init
<1>4. Proposed(t, 0).status = "proposed"
  BY DEF Proposed
<1>5. \A i \in Ids : Settled(i)
  BY <1>3, <1>4 DEF Settled
<1>6. Undisturbed
  BY <1>1, <1>5, HoldsIdle DEF Undisturbed, Calm, Alone
<1> QED
  BY <1>2, <1>6

\* What is undisturbed is calm, at every step.
LEMMA CalmInvariant == Spec => [](Typed /\ Listed /\ Undisturbed)
<1>1. Typed /\ Listed /\ Undisturbed /\ [Next]_vars => (Listed /\ Undisturbed)'
  BY ListedStep, UndisturbedStep
<1> QED
  BY <1>1, InitCalm, TypedInvariant, PTL DEF Spec

\* A post shown as ready was handed to the user by the scheduler since it was scheduled.
THEOREM ReadyHolds == Spec => []ReadyWasHanded
<1>1. Undisturbed => ReadyWasHanded
  BY DEF Undisturbed, ReadyWasHanded, Calm, Settled
<1> QED
  BY <1>1, CalmInvariant, PTL

\* A request that hands a candidate over works on it, and is at that stage.
LEMMA HandsOver ==
  ASSUME Typed, Undisturbed, NEW r \in Requests, NEW i \in Ids, i \notin disturbed,
         PrepareArticlePost(r, i)
  PROVE  /\ row[i] # None /\ draft[i] = row[i].text
         /\ i \in handed => job[r].op = "post"
<1>1. job[r].id = i /\ job[r].stage = "prepare" /\ job[r].op \in {"post", "tick"}
  BY DEF PrepareArticlePost, At, Typed, JobsTyped, Fits
<1>2. Working(i, job[r])
  BY <1>1, HoldsItsOwn DEF Undisturbed, Calm
<1> QED
  BY <1>1, <1>2 DEF Working

\* The scheduler hands a post over once for each time it is scheduled.
THEOREM HandedOnceHolds == Spec => HandedOnce
<1>1. Typed /\ Undisturbed =>
        \A r \in Requests, i \in Ids :
          i \in handed /\ i \notin disturbed => ~PrepareArticlePost(r, i) \/ job[r].op = "post"
  BY HandsOver
<1> QED
  BY <1>1, CalmInvariant, PTL DEF HandedOnce

\* What is put on the clipboard is the text the candidate has.
THEOREM CurrentTextHolds == Spec => HandsOverCurrentText
<1>1. Typed /\ Undisturbed =>
        \A r \in Requests, i \in Ids :
          PrepareArticlePost(r, i) /\ i \notin disturbed => row[i] # None /\ draft[i] = row[i].text
  BY HandsOver
<1> QED
  BY <1>1, CalmInvariant, PTL DEF HandsOverCurrentText
=============================================================================
