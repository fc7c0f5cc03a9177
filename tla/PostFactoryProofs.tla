-------------------------- MODULE PostFactoryProofs --------------------------
(***************************************************************************)
(* The safety properties of PostFactory, proved for any number of sources, *)
(* candidates, requests, times and faults.                                 *)
(***************************************************************************)
EXTENDS PostFactory, FiniteSetTheorems, TLAPS

-----------------------------------------------------------------------------
(* Types.  What a step may do with its request depends on what the request  *)
(* is for: the types rest on the stages each operation passes through.      *)

Analyses == {"analyze", "moment"}
Clippers == {"clip", "trim", "post", "tick"}

\* The operations that have a stage, and what a request of each has at hand.
Fits(j) ==
    /\ j.stage = "idle" => j = Idle
    /\ j.stage = "deactivated" => j.op = "put"
    /\ j.stage = "think" => j.op \in Analyses \cup {"rewrite"}
    /\ j.stage \in {"store", "append", "done", "failed"} => j.op \in Analyses
    /\ j.stage = "queued" => j.op = "schedule"
    /\ j.stage \in {"trim", "restore"} => j.op = "trim"
    /\ j.stage \in {"cut", "draft", "record"} => j.op \in Clippers
    /\ j.stage = "prepare" => j.op \in {"post", "tick"}
    /\ j.stage \in {"next", "mark"} => j.op = "tick"
    /\ j.stage \in {"cut", "trim", "draft", "record", "prepare", "mark"} =>
         j.id \in Ids /\ j.seen \in Row
    /\ j.op \in Analyses => j.src \in Sources
    /\ j.op \notin Analyses => j.src = None
    /\ j.op # "put" => j.kind = None
    /\ j.op = "put" => j.kind \in Kinds
    /\ j.op \in {"rewrite", "schedule", "clip", "trim", "post"} => j.id \in Ids
    /\ j.op \in {"trim"} => j.old \in Ranges

JobsFit == \A r \in Requests : Fits(job[r])

Typed == TypeOK /\ JobsFit

JobsTyped == job \in [Requests -> Jobs] /\ JobsFit

\* A request becomes j, and the others stay as they are.
Becomes(r, j) == job'[r] = j /\ \A q \in Requests \ {r} : job'[q] = job[q]

\* A request that takes a value of its type that fits leaves the requests typed.
LEMMA ReplaceType ==
  ASSUME NEW r \in Requests, NEW j \in Jobs, JobsTyped, Fits(j),
         job' = [job EXCEPT ![r] = j]
  PROVE  JobsTyped' /\ Becomes(r, j)
<1>1. job' \in [Requests -> Jobs] /\ Becomes(r, j)
  BY DEF JobsTyped, Becomes
<1>2. \A q \in Requests : Fits(job'[q])
  BY <1>1 DEF JobsTyped, JobsFit, Becomes
<1> QED
  BY <1>1, <1>2 DEF JobsTyped, JobsFit

\* A request that is done is a well formed one.
LEMMA IdleType == Idle \in Jobs /\ Fits(Idle)
<1>1. Idle \in Jobs
  BY BoundsAreNumbers DEF Idle, Jobs, Stages
<1>2. Fits(Idle)
  BY DEF Idle, Fits, Analyses
<1> QED
  BY <1>1, <1>2

\* A request that ends leaves the requests typed.
LEMMA EndType ==
  ASSUME NEW r \in Requests, JobsTyped, End(r)
  PROVE  JobsTyped' /\ Becomes(r, Idle)
BY IdleType, ReplaceType DEF End

\* A request that goes on to a stage its operation has leaves the requests typed.
LEMMA GotoType ==
  ASSUME NEW r \in Requests, JobsTyped, NEW stage \in Stages,
         Fits([job[r] EXCEPT !.stage = stage]), Goto(r, stage)
  PROVE  JobsTyped' /\ Becomes(r, [job[r] EXCEPT !.stage = stage])
<1>1. [job[r] EXCEPT !.stage = stage] \in Jobs
  BY DEF JobsTyped, Jobs
<1>2. job' = [job EXCEPT ![r] = [job[r] EXCEPT !.stage = stage]]
  BY DEF JobsTyped, Goto
<1> QED
  BY <1>1, <1>2, ReplaceType

\* A failed step of a clip, a trim or a post hands its request on, or ends it.
LEMMA OnErrorType ==
  ASSUME NEW r \in Requests, JobsTyped, OnError(r),
         job[r].stage \in {"cut", "draft", "record", "prepare"}
  PROVE  /\ JobsTyped'
         /\ \/ job[r].op = "trim" /\ Becomes(r, [job[r] EXCEPT !.stage = "restore"])
            \/ job[r].op = "tick" /\ Becomes(r, [job[r] EXCEPT !.stage = "next", !.id = None])
            \/ job[r].op \in {"clip", "post"} /\ Becomes(r, Idle)
<1>1. job[r] \in Jobs /\ Fits(job[r])
  BY DEF JobsTyped, JobsFit
<1>2. CASE job[r].op = "trim"
  <2> DEFINE j == [job[r] EXCEPT !.stage = "restore"]
  <2>1. job' = [job EXCEPT ![r] = j]
    BY <1>2 DEF OnError, JobsTyped
  <2>2. j \in Jobs
    BY <1>1 DEF Jobs, Stages
  <2>3. Fits(j)
    BY <1>1, <1>2 DEF Fits, Jobs, Clippers, Analyses
  <2> QED
    BY <1>2, <2>1, <2>2, <2>3, ReplaceType
<1>3. CASE job[r].op = "tick"
  <2> DEFINE j == [job[r] EXCEPT !.stage = "next", !.id = None]
  <2>1. job' = [job EXCEPT ![r] = j]
    BY <1>3 DEF OnError, JobsTyped
  <2>2. j \in Jobs
    BY <1>1 DEF Jobs, Stages
  <2>3. Fits(j)
    BY <1>1, <1>3 DEF Fits, Jobs, Clippers, Analyses
  <2> QED
    BY <1>3, <2>1, <2>2, <2>3, ReplaceType
<1>4. CASE job[r].op \notin {"trim", "tick"}
  <2>1. job' = [job EXCEPT ![r] = Idle]
    BY <1>4 DEF OnError, JobsTyped
  <2>2. job[r].op \in {"clip", "post"}
    BY <1>1, <1>4 DEF Fits, Clippers
  <2> QED
    BY <2>1, <2>2, IdleType, ReplaceType
<1> QED
  BY <1>2, <1>3, <1>4

\* A request that begins takes the place of an idle one.
LEMMA BeginType ==
  ASSUME NEW r \in Requests, JobsTyped, NEW j \in Jobs, Fits(j), Start(r, j)
  PROVE  JobsTyped' /\ Becomes(r, j) /\ job[r] = Idle
BY ReplaceType DEF Start

\* The tables, the files and the counters of TypeOK.
RestTyped ==
    /\ source \in [Sources -> Statuses \cup {None}]
    /\ row \in [Ids -> Row \cup {None}] /\ sched \in [Ids -> Post \cup {None}]
    /\ clip \in [Ids -> Footage] /\ draft \in [Ids -> Texts \cup {None}]
    /\ gaps \subseteq Kinds /\ torn \subseteq Kinds /\ lost \subseteq Sources
    /\ swept \subseteq Ids /\ disturbed \subseteq Ids
    /\ posted \in [Ids -> [text : Texts \cup {None}, at : 0..MaxTime] \cup {None}]
    /\ now \in 0..MaxTime /\ issued \in 0..MaxRequests /\ faults \in 0..MaxFaults

\* The types of the requests, and those of the rest.
LEMMA TypedSplits == Typed <=> RestTyped /\ JobsTyped
BY DEF Typed, TypeOK, RestTyped, JobsTyped, JobsFit, Fits

\* The same of the next state.
LEMMA TypedSplitsNext == RestTyped' /\ JobsTyped' => Typed'
<1> SUFFICES ASSUME RestTyped', JobsTyped' PROVE Typed'
  OBVIOUS
<1>1. \A r \in Requests : Fits(job'[r])
  BY DEF JobsTyped, JobsFit
<1> QED
  BY <1>1 DEF Typed, TypeOK, RestTyped, JobsTyped, JobsFit, Fits

\* A change of one field of a candidate leaves the table typed.
LEMMA UpdateType ==
  ASSUME RestTyped, NEW i, NEW field, NEW value,
         \/ field = "text" /\ value \in Texts
         \/ field = "times" /\ value \in Ranges
         \/ field = "status" /\ value = "scheduled"
  PROVE  Update(i, field, value) \in [Ids -> Row \cup {None}]
<1>1. CASE i \in Ids
  <2>1. CASE row[i] = None
    BY <2>1 DEF Update, RestTyped
  <2>2. CASE row[i] # None
    <3>1. row[i] \in Row
      BY <1>1, <2>2 DEF RestTyped
    <3>2. [row[i] EXCEPT ![field] = value] \in Row
      BY <3>1 DEF Row
    <3> QED
      BY <2>2, <3>2 DEF Update, RestTyped
  <2> QED
    BY <2>1, <2>2
<1>2. CASE i \notin Ids
  BY <1>2 DEF Update, RestTyped
<1> QED
  BY <1>1, <1>2

\* A status that is written, or lost, leaves the sources typed.
LEMMA StatusType ==
  ASSUME RestTyped, NEW s \in Sources, NEW status \in Statuses, SetSourceStatus(s, status)
  PROVE  /\ source' \in [Sources -> Statuses \cup {None}] /\ lost' \subseteq Sources
         /\ faults' \in 0..MaxFaults
BY BoundsAreNumbers DEF SetSourceStatus, Fault, RestTyped, Statuses

\* A cascade leaves the queue typed, and disturbs only candidates.
LEMMA CascadeType ==
  ASSUME RestTyped, NEW ids \in SUBSET Ids
  PROVE  Cascade(ids) \in [Ids -> Post \cup {None}] /\ Removed(ids) \subseteq Ids
BY DEF Cascade, Removed, RestTyped

\* The candidates of a source are candidates.
LEMMA CandidatesType == ASSUME NEW s PROVE CandidatesOf(s) \subseteq Ids
BY DEF CandidatesOf

\* Only candidates are disturbed.
LEMMA DisturbType ==
  ASSUME RestTyped, NEW i \in Ids, Disturb(i)
  PROVE  disturbed' \subseteq Ids
BY DEF Disturb, RestTyped

\* Only candidates are swept.
LEMMA SweepType ==
  ASSUME RestTyped, NEW ids \in SUBSET Ids, Sweep(ids)
  PROVE  swept' \subseteq Ids
BY DEF Sweep, RestTyped

\* A trimmed file shows a range, or is broken.
LEMMA TrimmedType ==
  ASSUME NEW f \in (Nat \X Nat) \cup {Broken}, NEW old \in Ranges, NEW new \in Ranges,
         new[1] >= old[1], new[2] > new[1]
  PROVE  Trimmed(f, old, new) \in Footage
<1>1. CASE f = Broken
  BY <1>1 DEF Trimmed, Footage
<1>2. CASE f # Broken
  <2>1. f[1] \in Nat /\ f[2] \in Nat
    BY <1>2
  <2>2. old[1] \in Nat /\ old[2] \in Nat /\ new[1] \in Nat /\ new[2] \in Nat
    BY RangesAreTimes
  <2> DEFINE from == f[1] + (new[1] - old[1])
  <2> DEFINE to == from + (new[2] - new[1])
  <2>3. from \in Nat /\ to \in Nat
    BY <2>1, <2>2
  <2>4. <<from, IF to < f[2] THEN to ELSE f[2]>> \in Nat \X Nat
    BY <2>1, <2>3
  <2>5. Trimmed(f, old, new) = IF from >= f[2] THEN Broken
                               ELSE <<from, IF to < f[2] THEN to ELSE f[2]>>
    BY <1>2 DEF Trimmed
  <2> HIDE DEF from, to
  <2> QED
    BY <2>4, <2>5 DEF Footage
<1> QED
  BY <1>1, <1>2

\* The queue of due posts is a sequence.
LEMMA DueIsSequence ==
  ASSUME NEW due \in SUBSET Ids, NEW q \in [1..Cardinality(due) -> due]
  PROVE  q \in Seq(Ids)
<1>1. IsFiniteSet(1..MaxRank)
  BY BoundsAreNumbers, FS_Interval
<1>2. IsFiniteSet(Ids)
  BY <1>1, SourcesAreFinite, FS_Product DEF Ids
<1>3. Cardinality(due) \in Nat
  BY <1>2, FS_Subset, FS_CardinalityType
<1> QED
  BY <1>3

\* The factory starts out typed.
LEMMA InitTyped == Init => Typed
<1> SUFFICES ASSUME Init PROVE Typed
  OBVIOUS
<1>1. JobsTyped
  BY IdleType DEF Init, JobsTyped, JobsFit
<1>2. RestTyped
  BY BoundsAreNumbers DEF Init, RestTyped, Footage
<1> QED
  BY <1>1, <1>2, TypedSplits

\* The steps of a change of a profile keep the types.
LEMMA ProfileTyped ==
  ASSUME Typed, NEW r \in Requests, ProfileStep(r)
  PROVE  Typed'
<1> USE TypedSplits, TypedSplitsNext
<1>1. ASSUME NEW k \in Kinds, PutProfile(r, k) PROVE Typed'
  <2> DEFINE j == [Idle EXCEPT !.op = "put", !.stage = "deactivated", !.kind = k]
  <2>1. j \in Jobs /\ Fits(j)
    BY IdleType DEF Idle, Jobs, Stages, Fits, Analyses
  <2>2. JobsTyped'
    BY <1>1, <2>1, BeginType DEF PutProfile, Begin
  <2>3. RestTyped'
    BY <1>1, BoundsAreNumbers DEF PutProfile, Begin, Request, RestTyped, tables, files, history
  <2> QED
    BY <2>2, <2>3
<1>2. ASSUME ActivateProfile(r) PROVE Typed'
  <2>1. JobsTyped'
    BY <1>2, EndType DEF ActivateProfile
  <2>2. job[r].kind \in Kinds
    BY <1>2 DEF ActivateProfile, At, JobsTyped, JobsFit, Fits
  <2>3. RestTyped'
    BY <1>2, <2>2, BoundsAreNumbers DEF ActivateProfile, Fault, RestTyped, tables, files
  <2> QED
    BY <2>1, <2>3
<1> QED
  BY <1>1, <1>2 DEF ProfileStep

\* A non-empty set of ranks has a greatest one.
LEMMA Greatest ==
  ASSUME NEW N \in Nat, NEW S \in SUBSET (1..N), S # {}
  PROVE  \E m \in S : \A k \in S : k <= m
<1> DEFINE Above(m) == (m + 1)..N
<1> DEFINE T == {Above(m) : m \in S}
<1>1. IsFiniteSet(1..N)
  BY FS_Interval
<1>2. T \subseteq FiniteSubsetsOf(1..N) /\ T # {}
  <2>1. \A m \in S : Above(m) \in SUBSET (1..N)
    OBVIOUS
  <2>2. \A m \in S : Above(m) \in FiniteSubsetsOf(1..N)
    <3> HIDE DEF Above
    <3> QED
      BY <1>1, <2>1, FS_Subset DEF FiniteSubsetsOf
  <2> HIDE DEF Above
  <2> QED
    BY <2>2
<1>3. PICK A \in T : \A B \in T : ~ (<<B, A>> \in StrictSubsetOrdering(1..N))
  BY <1>1, <1>2, FS_StrictSubsetOrderingWellFounded, WFMin
<1>4. PICK m \in S : A = Above(m)
  BY <1>3
<1>5. ASSUME NEW k \in S, k > m PROVE FALSE
  <2>1. Above(k) \in T /\ Above(k) \subseteq A /\ k \in A /\ k \notin Above(k)
    BY <1>4, <1>5
  <2>2. <<Above(k), A>> \in StrictSubsetOrdering(1..N)
    BY <2>1, <1>4 DEF StrictSubsetOrdering
  <2> QED
    BY <2>1, <2>2, <1>3
<1> QED
  BY <1>5

\* The steps of an analysis keep the types: the ranks it takes are within the bound.
LEMMA AnalysisTyped ==
  ASSUME Typed, NEW r \in Requests, AnalysisStep(r)
  PROVE  Typed'
<1> USE TypedSplits, TypedSplitsNext
<1>0. job[r] \in Jobs /\ Fits(job[r])
  BY DEF JobsTyped, JobsFit
<1>1. ASSUME NEW s \in Sources, Analyze(r, s) PROVE Typed'
  <2> DEFINE j == [Idle EXCEPT !.op = "analyze", !.stage = "think", !.src = s]
  <2>1. j \in Jobs /\ Fits(j)
    BY IdleType DEF Idle, Jobs, Stages, Fits, Analyses
  <2>2. JobsTyped'
    BY <1>1, <2>1, BeginType DEF Analyze, Begin
  <2>3. source' \in [Sources -> Statuses \cup {None}] /\ lost' \subseteq Sources /\ faults' \in 0..MaxFaults
    BY <1>1, StatusType DEF Analyze, Statuses
  <2>4. RestTyped'
    BY <1>1, <2>3, BoundsAreNumbers DEF Analyze, Begin, Request, RestTyped, files
  <2> QED
    BY <2>2, <2>4
<1>2. ASSUME NEW s \in Sources, AnalyzeMoment(r, s) PROVE Typed'
  <2> DEFINE j == [Idle EXCEPT !.op = "moment", !.stage = "think", !.src = s]
  <2>1. j \in Jobs /\ Fits(j)
    BY IdleType DEF Idle, Jobs, Stages, Fits, Analyses
  <2>2. JobsTyped'
    BY <1>2, <2>1, BeginType DEF AnalyzeMoment, Begin
  <2>3. source' \in [Sources -> Statuses \cup {None}] /\ lost' \subseteq Sources /\ faults' \in 0..MaxFaults
    BY <1>2, BoundsAreNumbers DEF AnalyzeMoment, Fault, Statuses, RestTyped
  <2>4. RestTyped'
    BY <1>2, <2>3, BoundsAreNumbers DEF AnalyzeMoment, Begin, Request, RestTyped, files
  <2> QED
    BY <2>2, <2>4
<1>3. ASSUME Think(r) PROVE Typed'
  <2>1. Fits([job[r] EXCEPT !.stage = "store"])
    BY <1>0, <1>3 DEF Think, Fits, Jobs, Analyses
  <2>2. JobsTyped'
    BY <1>3, <2>1, GotoType DEF Think, Stages
  <2>3. RestTyped'
    BY <1>3 DEF Think, RestTyped, tables, files, history
  <2> QED
    BY <2>2, <2>3
<1>4. ASSUME InsertCandidates(r) PROVE Typed'
  <2>1. Fits([job[r] EXCEPT !.stage = "done"])
    BY <1>0, <1>4 DEF InsertCandidates, Fits, Jobs, Analyses
  <2>2. JobsTyped'
    BY <1>4, <2>1, GotoType DEF InsertCandidates, Stages
  <2>3. \A p \in Proposals : Proposed(p) \in Row
    BY ProposalsAreTyped DEF Proposed, Row
  <2>4. row' \in [Ids -> Row \cup {None}]
    BY <1>4, <2>3 DEF InsertCandidates, RestTyped
  <2>5. /\ sched' \in [Ids -> Post \cup {None}]
        /\ disturbed' \subseteq Ids /\ swept' \subseteq Ids
    BY <1>4, CascadeType, CandidatesType, SweepType DEF InsertCandidates, RestTyped
  <2>6. RestTyped'
    BY <1>4, <2>4, <2>5 DEF InsertCandidates, RestTyped, files
  <2> QED
    BY <2>2, <2>6
<1>5. ASSUME ReadRank(r) PROVE Typed'
  <2> DEFINE j == [job[r] EXCEPT !.stage = "append", !.base = TopRank(job[r].src)]
  <2>1. TopRank(job[r].src) \in 0..MaxRank
    <3> DEFINE P(n) == /\ n = 0 \/ row[<<job[r].src, n>>] # None
                       /\ \A m \in (n + 1)..MaxRank : row[<<job[r].src, m>>] = None
    <3>1. \E n \in 0..MaxRank : P(n)
      <4>1. CASE \A m \in 1..MaxRank : row[<<job[r].src, m>>] = None
        BY <4>1, BoundsAreNumbers
      <4>2. CASE \E m \in 1..MaxRank : row[<<job[r].src, m>>] # None
        <5> DEFINE S == {m \in 1..MaxRank : row[<<job[r].src, m>>] # None}
        <5>1. PICK n \in S : \A m \in S : m <= n
          BY <4>2, Greatest, BoundsAreNumbers
        <5>2. \A m \in (n + 1)..MaxRank : m \notin S
          BY <5>1
        <5> QED
          BY <5>1, <5>2
      <4> QED
        BY <4>1, <4>2
    <3>2. TopRank(job[r].src) = CHOOSE n \in 0..MaxRank : P(n)
      BY DEF TopRank
    <3> HIDE DEF P
    <3> QED
      BY <3>1, <3>2
  <2>2. j \in Jobs /\ Fits(j)
    <3>1. j \in Jobs
      BY <1>0, <2>1 DEF Jobs, Stages
    <3>2. Fits(j)
      BY <1>0, <1>5 DEF ReadRank, Fits, Jobs, Analyses
    <3> QED
      BY <3>1, <3>2
  <2>3. job' = [job EXCEPT ![r] = j]
    BY <1>5 DEF ReadRank, JobsTyped
  <2>4. JobsTyped'
    BY <2>2, <2>3, ReplaceType
  <2>5. RestTyped'
    BY <1>5 DEF ReadRank, RestTyped, tables, files, history
  <2> QED
    BY <2>4, <2>5
<1>6. ASSUME AppendCandidates(r) PROVE Typed'
  <2>1. job[r].op \in Analyses /\ Fits([job[r] EXCEPT !.stage = "done"])
    BY <1>0, <1>6 DEF AppendCandidates, At, Fits, Jobs, Analyses
  <2>2. JobsTyped'
    BY <1>6, <2>1, GotoType DEF AppendCandidates, Stages
  <2>3. \A p \in Proposals : Proposed(p) \in Row
    BY ProposalsAreTyped DEF Proposed, Row
  <2>4. row' \in [Ids -> Row \cup {None}]
    BY <1>6, <2>3 DEF AppendCandidates, RestTyped
  <2>5. RestTyped'
    BY <1>6, <2>4 DEF AppendCandidates, RestTyped, files, history
  <2> QED
    BY <2>2, <2>5
<1>7. ASSUME AnalysisFails(r) PROVE Typed'
  <2>1. Fits([job[r] EXCEPT !.stage = "failed"])
    BY <1>0, <1>7 DEF AnalysisFails, Fits, Jobs, Analyses
  <2>2. JobsTyped'
    BY <1>7, <2>1, GotoType DEF AnalysisFails, Stages
  <2>3. RestTyped'
    BY <1>7 DEF AnalysisFails, RestTyped, tables, files, history
  <2> QED
    BY <2>2, <2>3
<1>8. ASSUME FinishAnalysis(r) PROVE Typed'
  <2>1. job[r].src \in Sources
    BY <1>0, <1>8 DEF FinishAnalysis, Fits
  <2>2. JobsTyped'
    BY <1>8, EndType DEF FinishAnalysis
  <2>3. source' \in [Sources -> Statuses \cup {None}] /\ lost' \subseteq Sources /\ faults' \in 0..MaxFaults
    BY <1>8, <2>1, StatusType DEF FinishAnalysis, Statuses
  <2>4. RestTyped'
    BY <1>8, <2>3 DEF FinishAnalysis, RestTyped, files
  <2> QED
    BY <2>2, <2>4
<1> QED
  BY <1>1, <1>2, <1>3, <1>4, <1>5, <1>6, <1>7, <1>8 DEF AnalysisStep

\* The steps that rewrite or schedule a candidate keep the types.
LEMMA CandidateTyped ==
  ASSUME Typed, NEW r \in Requests, CandidateStep(r)
  PROVE  Typed'
<1> USE TypedSplits, TypedSplitsNext
<1>0. job[r] \in Jobs /\ Fits(job[r])
  BY DEF JobsTyped, JobsFit
<1>1. ASSUME NEW i \in Ids, RewriteCandidate(r, i) PROVE Typed'
  <2> DEFINE j == [Idle EXCEPT !.op = "rewrite", !.stage = "think", !.id = i]
  <2>1. j \in Jobs /\ Fits(j)
    BY IdleType DEF Idle, Jobs, Stages, Fits, Analyses
  <2>2. JobsTyped'
    BY <1>1, <2>1, BeginType DEF RewriteCandidate, Begin
  <2>3. RestTyped'
    BY <1>1, DisturbType, BoundsAreNumbers
    DEF RewriteCandidate, Begin, Request, RestTyped, tables, files
  <2> QED
    BY <2>2, <2>3
<1>2. ASSUME NEW i \in Ids, NEW at \in 0..MaxTime, ScheduleCandidate(r, i, at) PROVE Typed'
  <2> DEFINE j == [Idle EXCEPT !.op = "schedule", !.stage = "queued", !.id = i]
  <2>1. j \in Jobs /\ Fits(j)
    BY IdleType DEF Idle, Jobs, Stages, Fits, Analyses
  <2>2. JobsTyped'
    BY <1>2, <2>1, BeginType DEF ScheduleCandidate, Begin
  <2>3. RestTyped'
    BY <1>2, DisturbType, BoundsAreNumbers
    DEF ScheduleCandidate, Begin, Request, RestTyped, files, Post
  <2> QED
    BY <2>2, <2>3
<1>3. ASSUME FinishRewrite(r) PROVE Typed'
  <2>1. JobsTyped'
    BY <1>3, EndType DEF FinishRewrite
  <2>2. row' \in [Ids -> Row \cup {None}]
    BY <1>3, UpdateType DEF FinishRewrite, RestTyped
  <2>3. RestTyped'
    BY <1>3, <2>2 DEF FinishRewrite, RestTyped, files, history
  <2> QED
    BY <2>1, <2>3
<1>4. ASSUME MarkScheduled(r) PROVE Typed'
  <2>1. JobsTyped'
    BY <1>4, EndType DEF MarkScheduled
  <2>2. row' \in [Ids -> Row \cup {None}]
    BY <1>4, UpdateType DEF MarkScheduled
  <2>3. RestTyped'
    BY <1>4, <2>2 DEF MarkScheduled, RestTyped, files, history
  <2> QED
    BY <2>1, <2>3
<1> QED
  BY <1>1, <1>2, <1>3, <1>4 DEF CandidateStep

\* The steps of a clip or a trim keep the types: a cut or trimmed file is footage.
LEMMA ClipTyped ==
  ASSUME Typed, NEW r \in Requests, ClipStep(r)
  PROVE  Typed'
<1> USE TypedSplits, TypedSplitsNext
<1>0. job[r] \in Jobs /\ Fits(job[r])
  BY DEF JobsTyped, JobsFit
<1>1. ASSUME NEW i \in Ids, ClipCandidate(r, i) PROVE Typed'
  <2> DEFINE j == [Idle EXCEPT !.op = "clip", !.stage = "cut", !.id = i, !.seen = row[i]]
  <2>1. row[i] \in Row
    BY <1>1 DEF ClipCandidate, Readable, RestTyped
  <2>2. j \in Jobs /\ Fits(j)
    BY <2>1, IdleType DEF Idle, Jobs, Stages, Fits, Analyses, Clippers
  <2>3. JobsTyped'
    BY <1>1, <2>2, BeginType DEF ClipCandidate, Begin
  <2>4. RestTyped'
    BY <1>1, DisturbType, BoundsAreNumbers
    DEF ClipCandidate, Begin, Request, RestTyped, tables, files
  <2> QED
    BY <2>3, <2>4
<1>2. ASSUME NEW i \in Ids, NEW times \in Ranges, TrimCandidate(r, i, times) PROVE Typed'
  <2> DEFINE j == [Idle EXCEPT !.op = "trim", !.stage = "trim", !.id = i,
                       !.seen = row'[i], !.old = row[i].times]
  <2>1. row[i] \in Row /\ row[i].times \in Ranges
    BY <1>2 DEF TrimCandidate, RestTyped, Row
  <2>2. row' \in [Ids -> Row \cup {None}] /\ row'[i] \in Row
    <3>1. row' \in [Ids -> Row \cup {None}]
      BY <1>2, UpdateType DEF TrimCandidate
    <3>2. row'[i] # None
      <4>1. row'[i] = [row[i] EXCEPT !["times"] = times]
        BY <1>2 DEF TrimCandidate, Update, RestTyped
      <4>2. [row[i] EXCEPT !["times"] = times] \in Row
        BY <2>1 DEF Row
      <4> QED
        BY <4>1, <4>2, NoneIsNoValue
    <3> QED
      BY <3>1, <3>2
  <2>3. j \in Jobs /\ Fits(j)
    BY <2>1, <2>2, IdleType DEF Idle, Jobs, Stages, Fits, Analyses, Clippers
  <2>4. JobsTyped'
    <3>1. CASE Begin(r, j)
      BY <2>3, <3>1, BeginType DEF Begin
    <3>2. CASE UNCHANGED job
      BY <3>2 DEF JobsTyped, JobsFit
    <3> QED
      BY <1>2, <3>1, <3>2 DEF TrimCandidate
  <2>5. disturbed' \subseteq Ids
    BY <1>2, DisturbType DEF TrimCandidate, RestTyped
  <2>6. RestTyped'
    BY <1>2, <2>2, <2>5, BoundsAreNumbers DEF TrimCandidate, Begin, Request, RestTyped, files
  <2> QED
    BY <2>4, <2>6
<1>3. ASSUME TrimFile(r) PROVE Typed'
  <2> USE <1>3 DEF TrimFile
  <2>1. job[r].op = "trim" /\ job[r].id \in Ids /\ job[r].seen \in Row /\ job[r].old \in Ranges
    BY <1>0 DEF At, Fits
  <2>2. \A stage \in {"cut", "restore", "draft"} : Fits([job[r] EXCEPT !.stage = stage])
    BY <1>0, <2>1 DEF Fits, Jobs, Analyses, Clippers
  <2>3. JobsTyped'
    BY <2>2, GotoType DEF Stages
  <2>4. clip' \in [Ids -> Footage]
    <3> DEFINE i == job[r].id  new == job[r].seen.times  old == job[r].old
    <3>1. CASE UNCHANGED clip
      BY <3>1 DEF RestTyped
    <3>2. CASE /\ clip[i] # None /\ new[1] >= old[1] /\ new[2] > new[1]
               /\ clip' = [clip EXCEPT ![i] = Trimmed(@, old, new)]
      <4>1. clip[i] \in (Nat \X Nat) \cup {Broken} /\ new \in Ranges
        BY <2>1, <3>2 DEF RestTyped, Footage, Row
      <4>2. Trimmed(clip[i], old, new) \in Footage
        BY <2>1, <3>2, <4>1, TrimmedType
      <4>3. clip' = [clip EXCEPT ![i] = Trimmed(clip[i], old, new)]
        BY <3>2
      <4> QED
        BY <4>2, <4>3 DEF RestTyped
    <3> QED
      BY <3>1, <3>2
  <2>5. disturbed' \subseteq Ids
    BY <2>1 DEF RestTyped
  <2>6. RestTyped'
    BY <2>4, <2>5 DEF RestTyped, tables
  <2> QED
    BY <2>3, <2>6
<1>4. ASSUME CutClip(r) PROVE Typed'
  <2>1. job[r].op \in Clippers /\ job[r].id \in Ids /\ job[r].seen \in Row
    BY <1>0, <1>4 DEF CutClip, At, Fits
  <2>2. Fits([job[r] EXCEPT !.stage = "draft"])
    BY <1>0, <2>1 DEF Fits, Jobs, Analyses, Clippers
  <2>3. JobsTyped'
    BY <1>4, <2>2, GotoType, OnErrorType DEF CutClip, Stages, At
  <2>4. job[r].seen.times \in Nat \X Nat
    BY <2>1, RangesAreTimes DEF Row
  <2>5. clip' \in [Ids -> Footage] /\ disturbed' \subseteq Ids
    BY <1>4, <2>1, <2>4 DEF CutClip, Footage, RestTyped
  <2>6. RestTyped'
    BY <1>4, <2>5 DEF CutClip, RestTyped, tables
  <2> QED
    BY <2>3, <2>6
<1>5. ASSUME WriteDraft(r) PROVE Typed'
  <2>1. job[r].op \in Clippers /\ job[r].id \in Ids /\ job[r].seen \in Row
    BY <1>0, <1>5 DEF WriteDraft, At, Fits
  <2>2. AfterDraft(job[r]) \in Stages /\ Fits([job[r] EXCEPT !.stage = AfterDraft(job[r])])
    BY <1>0, <2>1 DEF AfterDraft, Fits, Jobs, Analyses, Clippers, Stages
  <2>3. JobsTyped'
    BY <1>5, <2>2, GotoType, OnErrorType DEF WriteDraft, At
  <2>4. job[r].seen.text \in Texts
    BY <2>1 DEF Row
  <2>5. draft' \in [Ids -> Texts \cup {None}] /\ disturbed' \subseteq Ids
    BY <1>5, <2>1, <2>4 DEF WriteDraft, RestTyped
  <2>6. RestTyped'
    BY <1>5, <2>5 DEF WriteDraft, RestTyped, tables
  <2> QED
    BY <2>3, <2>6
<1>6. ASSUME RecordClip(r) PROVE Typed'
  <2>1. job[r].op \in Clippers /\ job[r].id \in Ids /\ job[r].seen \in Row
    BY <1>0, <1>6 DEF RecordClip, At, Fits
  <2>2. job[r].op \in {"post", "tick"} => Fits([job[r] EXCEPT !.stage = "prepare"])
    BY <1>0, <2>1 DEF Fits, Jobs, Analyses, Clippers
  <2>3. JobsTyped'
    BY <1>6, <2>2, GotoType, EndType, OnErrorType DEF RecordClip, At, Stages
  <2>4. row' \in [Ids -> Row \cup {None}]
    <3>1. ASSUME row[job[r].id] # None
          PROVE  [row[job[r].id] EXCEPT !.clip = TRUE, !.status = "clipped"] \in Row
      BY <2>1, <3>1 DEF RestTyped, Row
    <3> QED
      BY <1>6, <2>1, <3>1 DEF RecordClip, RestTyped
  <2>5. RestTyped'
    BY <1>6, <2>1, <2>4, BoundsAreNumbers DEF RecordClip, Fault, RestTyped, files
  <2> QED
    BY <2>3, <2>5
<1>7. ASSUME RestoreTimes(r) PROVE Typed'
  <2>1. job[r].op = "trim" /\ job[r].id \in Ids /\ job[r].old \in Ranges
    BY <1>0, <1>7 DEF RestoreTimes, At, Fits
  <2>2. JobsTyped'
    BY <1>7, EndType DEF RestoreTimes
  <2>3. row' \in [Ids -> Row \cup {None}]
    BY <1>7, <2>1, UpdateType DEF RestoreTimes, RestTyped
  <2>4. RestTyped'
    BY <1>7, <2>1, <2>3, BoundsAreNumbers DEF RestoreTimes, Fault, RestTyped, files
  <2> QED
    BY <2>2, <2>4
<1> QED
  BY <1>1, <1>2, <1>3, <1>4, <1>5, <1>6, <1>7 DEF ClipStep

\* A post and the scheduler go on from the row they have read.
LEMMA NextDueJob ==
  ASSUME Typed, NEW r \in Requests, NextDue(r)
  PROVE  \/ job[r].rest = <<>> /\ Becomes(r, Idle) /\ JobsTyped'
         \/ /\ job[r].rest # <<>> /\ JobsTyped'
            /\ \E j \in Jobs : /\ Becomes(r, j) /\ j.op = "tick" /\ j.rest = Tail(job[r].rest)
                               /\ \/ /\ j.id = Head(job[r].rest) /\ j.stage \in {"cut", "draft"}
                                     /\ j.stage = "draft" => row[j.id].clip
                                     /\ j.seen = row[j.id] /\ row[j.id] # None
                                  \/ j.stage = "next" /\ j.id = job[r].id
<1> USE TypedSplits
<1>0. job[r] \in Jobs /\ Fits(job[r]) /\ job[r].op = "tick" /\ job[r].stage = "next"
  BY DEF JobsTyped, JobsFit, NextDue, At
<1>1. CASE job[r].rest = <<>>
  <2>1. job' = [job EXCEPT ![r] = Idle]
    BY <1>1 DEF NextDue
  <2> QED
    BY <1>1, <2>1, IdleType, ReplaceType
<1>2. CASE job[r].rest # <<>>
  <2> DEFINE i == Head(job[r].rest)
  <2>1. i \in Ids /\ Tail(job[r].rest) \in Seq(Ids)
    BY <1>0, <1>2 DEF Jobs
  <2>2. CASE Readable(i)
    <3> DEFINE stage == IF row[i].clip THEN "draft" ELSE "cut"
    <3> DEFINE j == [[job[r] EXCEPT !.rest = Tail(@)]
                       EXCEPT !.id = i, !.seen = row[i], !.stage = stage]
    <3>1. job' = [job EXCEPT ![r] = j]
      BY <1>2, <2>2 DEF NextDue
    <3>2. row[i] \in Row /\ row[i] # None
      BY <2>1, <2>2 DEF Readable, RestTyped
    <3>3. j \in Jobs
      BY <1>0, <2>1, <3>2 DEF Jobs, Stages
    <3>4. /\ j.op = "tick" /\ j.rest = Tail(job[r].rest) /\ j.id = i /\ j.seen = row[i]
          /\ j.stage \in {"cut", "draft"} /\ j.src = job[r].src /\ j.kind = job[r].kind
          /\ j.stage = "draft" => row[i].clip
      BY <1>0 DEF Jobs
    <3>5. Fits(j)
      BY <1>0, <2>1, <3>2, <3>4 DEF Fits, Analyses, Clippers
    <3> HIDE DEF j
    <3>6. JobsTyped' /\ Becomes(r, j)
      BY <3>1, <3>3, <3>5, ReplaceType
    <3> QED
      BY <1>2, <3>2, <3>3, <3>4, <3>6
  <2>3. CASE ~ Readable(i)
    <3> DEFINE j == [job[r] EXCEPT !.rest = Tail(@)]
    <3>1. job' = [job EXCEPT ![r] = j]
      BY <1>2, <2>3 DEF NextDue
    <3>2. j \in Jobs
      BY <1>0, <2>1 DEF Jobs
    <3>3. /\ j.op = "tick" /\ j.rest = Tail(job[r].rest) /\ j.id = job[r].id
          /\ j.stage = "next" /\ j.src = job[r].src /\ j.kind = job[r].kind
      BY <1>0 DEF Jobs
    <3>4. Fits(j)
      BY <1>0, <3>3 DEF Fits, Analyses, Clippers
    <3> HIDE DEF j
    <3>5. JobsTyped' /\ Becomes(r, j)
      BY <3>1, <3>2, <3>4, ReplaceType
    <3> QED
      BY <1>2, <3>2, <3>3, <3>5
  <2> QED
    BY <2>2, <2>3
<1> QED
  BY <1>1, <1>2

\* A post that is asked for starts from the row with the text it was asked for.
LEMMA PostNowJob ==
  ASSUME Typed, NEW r \in Requests, NEW i \in Ids, NEW text \in Texts \cup {None},
         PostNow(r, i, text)
  PROVE  /\ JobsTyped' /\ row' \in [Ids -> Row \cup {None}] /\ row'[i] \in Row /\ job[r] = Idle
         /\ \E j \in Jobs : /\ Becomes(r, j) /\ j.op = "post" /\ j.id = i /\ j.seen = row'[i]
                            /\ j.rest = <<>> /\ j.stage \in {"cut", "draft"}
                            /\ j.stage = "draft" => row'[i].clip
<1> USE TypedSplits
<1>1. row[i] \in Row
  BY DEF PostNow, Readable, RestTyped
<1>2. row' \in [Ids -> Row \cup {None}]
  BY UpdateType DEF PostNow, RestTyped
<1>3. row'[i] \in Row
  <2>1. CASE text = None
    BY <1>1, <2>1 DEF PostNow
  <2>2. CASE text \in Texts
    <3>1. row'[i] = [row[i] EXCEPT !["text"] = text]
      BY <1>1, <2>2, NoneIsNoValue DEF PostNow, Update, RestTyped
    <3>2. [row[i] EXCEPT !["text"] = text] \in Row
      BY <1>1, <2>2 DEF Row
    <3> QED
      BY <3>1, <3>2
  <2> QED
    BY <2>1, <2>2
<1> DEFINE j == Preparing([Idle EXCEPT !.op = "post"], i)
<1>4. j \in Jobs
  BY <1>3, IdleType DEF Preparing, Idle, Jobs, Stages
<1>5. /\ j.op = "post" /\ j.id = i /\ j.seen = row'[i] /\ j.rest = <<>> /\ j.src = None
      /\ j.kind = None /\ j.stage \in {"cut", "draft"} /\ (j.stage = "draft" => row'[i].clip)
  BY <1>3 DEF Preparing, Idle
<1>6. Fits(j)
  BY <1>3, <1>5 DEF Fits, Analyses, Clippers
<1>7. Start(r, j)
  BY DEF PostNow, Begin
<1> HIDE DEF j
<1>8. JobsTyped' /\ Becomes(r, j) /\ job[r] = Idle
  BY <1>4, <1>6, <1>7, BeginType
<1> QED
  BY <1>2, <1>3, <1>4, <1>5, <1>8

\* The steps of a post and of the scheduler keep the types.
LEMMA PostTyped ==
  ASSUME Typed, NEW r \in Requests, PostStep(r)
  PROVE  Typed'
<1> USE TypedSplits, TypedSplitsNext
<1>0. job[r] \in Jobs /\ Fits(job[r])
  BY DEF JobsTyped, JobsFit
<1>1. ASSUME NEW i \in Ids, NEW text \in Texts \cup {None}, PostNow(r, i, text) PROVE Typed'
  <2>1. JobsTyped' /\ row' \in [Ids -> Row \cup {None}]
    BY <1>1, PostNowJob
  <2>2. RestTyped'
    BY <1>1, <2>1, DisturbType, BoundsAreNumbers DEF PostNow, Begin, Request, RestTyped, files
  <2> QED
    BY <2>1, <2>2
<1>2. ASSUME Tick(r) PROVE Typed'
  <2> DEFINE due == {i \in Ids : Due(i)}
  <2>1. PICK q \in [1..Cardinality(due) -> due] :
          Start(r, [Idle EXCEPT !.op = "tick", !.stage = "next", !.rest = q])
    BY <1>2 DEF Tick
  <2>2. q \in Seq(Ids)
    <3>1. due \in SUBSET Ids
      OBVIOUS
    <3> HIDE DEF due
    <3> QED
      BY <3>1, DueIsSequence
  <2> DEFINE j == [Idle EXCEPT !.op = "tick", !.stage = "next", !.rest = q]
  <2>3. j \in Jobs /\ Fits(j)
    BY <2>2, IdleType DEF Idle, Jobs, Stages, Fits, Analyses
  <2>4. JobsTyped'
    BY <2>1, <2>3, BeginType
  <2>5. RestTyped'
    BY <1>2 DEF Tick, RestTyped, tables, files
  <2> QED
    BY <2>4, <2>5
<1>3. ASSUME NextDue(r) PROVE Typed'
  <2>1. JobsTyped'
    BY <1>3, NextDueJob
  <2>2. RestTyped'
    BY <1>3 DEF NextDue, RestTyped, tables, files, history
  <2> QED
    BY <2>1, <2>2
<1>4. ASSUME PreparePost(r) PROVE Typed'
  <2>1. job[r].op \in {"post", "tick"} /\ job[r].id \in Ids
    BY <1>0, <1>4 DEF PreparePost, At, Fits
  <2>2. job[r].op = "tick" => Fits([job[r] EXCEPT !.stage = "mark"])
    BY <1>0, <1>4 DEF PreparePost, At, Fits, Jobs, Analyses, Clippers
  <2>3. JobsTyped'
    BY <1>4, <2>2, GotoType, EndType, OnErrorType DEF PreparePost, At, Stages
  <2>4. posted' \in [Ids -> [text : Texts \cup {None}, at : 0..MaxTime] \cup {None}]
    BY <1>4, <2>1 DEF PreparePost, RestTyped
  <2>5. RestTyped'
    BY <1>4, <2>4 DEF PreparePost, RestTyped, tables, files
  <2> QED
    BY <2>3, <2>5
<1>5. ASSUME MarkScheduledPrepared(r) PROVE Typed'
  <2> DEFINE j == [job[r] EXCEPT !.stage = "next", !.id = None]
  <2>1. job[r].op = "tick" /\ job[r].id \in Ids
    BY <1>0, <1>5 DEF MarkScheduledPrepared, At, Fits
  <2>2. j \in Jobs
    BY <1>0 DEF Jobs, Stages
  <2>3. Fits(j)
    BY <1>0, <2>1 DEF Fits, Jobs, Analyses
  <2>4. job' = [job EXCEPT ![r] = j]
    BY <1>5 DEF MarkScheduledPrepared
  <2>5. JobsTyped'
    BY <2>2, <2>3, <2>4, ReplaceType
  <2>6. sched' \in [Ids -> Post \cup {None}]
    BY <1>5, <2>1 DEF MarkScheduledPrepared, RestTyped, Post
  <2>7. RestTyped'
    BY <1>5, <2>6, BoundsAreNumbers DEF MarkScheduledPrepared, Fault, RestTyped, files, history
  <2> QED
    BY <2>5, <2>7
<1> QED
  BY <1>1, <1>2, <1>3, <1>4, <1>5 DEF PostStep

\* The steps that end with their request: no request in progress changes.
AtOnce ==
    \/ \E s \in Sources : CreateSource(s) \/ DeleteSource(s)
    \/ \E i \in Ids : DeleteCandidate(i) \/ \E text \in Texts : PatchCandidate(i, text)
    \/ Clock

\* They keep the types.
LEMMA AtOnceTyped ==
  ASSUME Typed, AtOnce
  PROVE  Typed' /\ UNCHANGED job
<1> USE TypedSplits, TypedSplitsNext
<1>1. UNCHANGED job
  BY DEF AtOnce, CreateSource, DeleteSource, DeleteCandidate, PatchCandidate, Clock
<1>2. JobsTyped'
  BY <1>1 DEF JobsTyped, JobsFit
<1>3. ASSUME NEW s \in Sources, CreateSource(s) PROVE RestTyped'
  BY <1>3, BoundsAreNumbers DEF CreateSource, Request, RestTyped, Statuses, files, history
<1>4. ASSUME NEW s \in Sources, DeleteSource(s) PROVE RestTyped'
  <2>1. /\ sched' \in [Ids -> Post \cup {None}]
        /\ disturbed' \subseteq Ids /\ swept' \subseteq Ids
    BY <1>4, CascadeType, CandidatesType, SweepType DEF DeleteSource, RestTyped
  <2> QED
    BY <1>4, <2>1, BoundsAreNumbers DEF DeleteSource, Request, RestTyped, files
<1>5. ASSUME NEW i \in Ids, DeleteCandidate(i) PROVE RestTyped'
  <2>1. /\ sched' \in [Ids -> Post \cup {None}]
        /\ disturbed' \subseteq Ids /\ swept' \subseteq Ids
    BY <1>5, CascadeType, SweepType DEF DeleteCandidate, RestTyped
  <2>2. row' \in [Ids -> Row \cup {None}]
    BY <1>5 DEF DeleteCandidate, RestTyped
  <2>3. issued' \in 0..MaxRequests
    BY <1>5, BoundsAreNumbers DEF DeleteCandidate, Request, RestTyped
  <2> QED
    BY <1>5, <2>1, <2>2, <2>3 DEF DeleteCandidate, RestTyped, files
<1>6. ASSUME NEW i \in Ids, NEW text \in Texts, PatchCandidate(i, text) PROVE RestTyped'
  BY <1>6, BoundsAreNumbers, UpdateType, DisturbType DEF PatchCandidate, Request, RestTyped, files
<1>7. ASSUME Clock PROVE RestTyped'
  BY <1>7, BoundsAreNumbers DEF Clock, RestTyped, tables, files, history
<1> QED
  BY <1>1, <1>2, <1>3, <1>4, <1>5, <1>6, <1>7 DEF AtOnce

\* A crash keeps the types.
LEMMA CrashTyped ==
  ASSUME Typed, Crash
  PROVE  Typed'
<1> USE TypedSplits, TypedSplitsNext
<1>1. JobsTyped'
  BY IdleType DEF Crash, JobsTyped, JobsFit
<1>2. Held \subseteq Ids
  BY DEF Held, Holds
<1>3. RestTyped'
  BY <1>2, BoundsAreNumbers DEF Crash, Fault, RestTyped, Footage, tables
<1> QED
  BY <1>1, <1>3

\* A step of a request.
Step(r) == ProfileStep(r) \/ AnalysisStep(r) \/ CandidateStep(r) \/ ClipStep(r) \/ PostStep(r)

\* Every step is one that ends with its request, a crash or a step of a request.
LEMMA NextSplits == Next <=> AtOnce \/ Crash \/ \E r \in Requests : Step(r)
BY DEF Next, AtOnce, Step

\* The tables, the files and the requests keep their types: what a request cuts, writes
\* or records it has read from a row.
THEOREM TypedInvariant == Spec => []Typed
<1>1. Typed /\ [Next]_vars => Typed'
  <2>1. ASSUME Typed, UNCHANGED vars PROVE Typed'
    BY <2>1 DEF vars, Typed, TypeOK, JobsFit
  <2>2. ASSUME Typed, NEW r \in Requests, Step(r) PROVE Typed'
    BY <2>2, ProfileTyped, AnalysisTyped, CandidateTyped, ClipTyped, PostTyped DEF Step
  <2> QED
    BY <2>1, <2>2, AtOnceTyped, CrashTyped, NextSplits
<1> QED
  BY <1>1, InitTyped, PTL DEF Spec

\* Tables, files and requests are well formed in every reachable state, and a request that
\* cuts, writes or records a clip has read a row.
THEOREM TypeCorrect == Spec => []TypeOK
<1>1. Typed => TypeOK
  BY DEF Typed
<1> QED
  BY <1>1, TypedInvariant, PTL

-----------------------------------------------------------------------------
(* Rows and their references *)

\* A change of a row's fields neither adds nor removes a row.
LEMMA UpdateKeepsRows ==
  ASSUME Typed, NEW i, NEW field \in {"text", "times", "status"}, NEW value,
         \/ field = "text" /\ value \in Texts
         \/ field = "times" /\ value \in Ranges
         \/ field = "status" /\ value = "scheduled"
  PROVE  /\ \A k \in Ids : (Update(i, field, value)[k] = None) <=> (row[k] = None)
         /\ \A k \in Ids \ {i} : Update(i, field, value)[k] = row[k]
<1> USE TypedSplits
<1>1. CASE i \in Ids /\ row[i] # None
  <2>1. row[i] \in Row
    BY <1>1 DEF RestTyped
  <2>2. [row[i] EXCEPT ![field] = value] \in Row
    BY <2>1 DEF Row
  <2>3. [row[i] EXCEPT ![field] = value] # None
    BY <2>2, NoneIsNoValue
  <2>4. Update(i, field, value) = [row EXCEPT ![i] = [row[i] EXCEPT ![field] = value]]
    BY <1>1 DEF Update
  <2> QED
    BY <1>1, <2>3, <2>4 DEF RestTyped
<1>2. CASE i \in Ids /\ row[i] = None
  BY <1>2 DEF Update
<1>3. CASE i \notin Ids
  BY <1>3 DEF Update, RestTyped
<1> QED
  BY <1>1, <1>2, <1>3

\* The steps that write or remove rows, or scheduled posts, or sources.
LEMMA NoOrphansStep ==
  ASSUME Typed, NoOrphans, Next
  PROVE  NoOrphans'
<1> USE TypedSplits DEF NoOrphans
<1>1. ASSUME AtOnce PROVE NoOrphans'
  <2>1. ASSUME NEW s \in Sources, CreateSource(s) PROVE NoOrphans'
    BY <2>1, NoneIsNoValue DEF CreateSource, RestTyped, Statuses
  <2>2. ASSUME NEW s \in Sources, DeleteSource(s) PROVE NoOrphans'
    BY <2>2 DEF DeleteSource, Cascade, CandidatesOf, RestTyped, Ids
  <2>3. ASSUME NEW i \in Ids, DeleteCandidate(i) PROVE NoOrphans'
    BY <2>3 DEF DeleteCandidate, Cascade, RestTyped
  <2>4. ASSUME NEW i \in Ids, NEW text \in Texts, PatchCandidate(i, text) PROVE NoOrphans'
    BY <2>4, UpdateKeepsRows DEF PatchCandidate
  <2>5. ASSUME Clock PROVE NoOrphans'
    BY <2>5 DEF Clock, tables
  <2> QED
    BY <1>1, <2>1, <2>2, <2>3, <2>4, <2>5 DEF AtOnce
<1>2. ASSUME Crash PROVE NoOrphans'
  BY <1>2 DEF Crash, tables
<1>3. ASSUME NEW r \in Requests, ProfileStep(r) PROVE NoOrphans'
  BY <1>3 DEF ProfileStep, PutProfile, ActivateProfile, tables
<1>4. ASSUME NEW r \in Requests, AnalysisStep(r) PROVE NoOrphans'
  <2>1. ASSUME NEW s \in Sources, Analyze(r, s) PROVE NoOrphans'
    BY <2>1, NoneIsNoValue DEF Analyze, SetSourceStatus, RestTyped, Statuses, Ids
  <2>2. ASSUME NEW s \in Sources, AnalyzeMoment(r, s) PROVE NoOrphans'
    BY <2>2, NoneIsNoValue DEF AnalyzeMoment, RestTyped, Statuses, Ids
  <2>3. ASSUME InsertCandidates(r) PROVE NoOrphans'
    <3>1. \A i \in Ids : row'[i] # None => source'[i[1]] # None
      BY <2>3 DEF InsertCandidates, Ids
    <3>2. \A i \in Ids : sched'[i] # None => row'[i] # None
      BY <2>3 DEF InsertCandidates, Cascade, CandidatesOf
    <3> QED
      BY <3>1, <3>2
  <2>4. ASSUME AppendCandidates(r) PROVE NoOrphans'
    <3>1. \A p \in Proposals : Proposed(p) # None
      <4>1. \A p \in Proposals : Proposed(p) \in Row
        BY ProposalsAreTyped DEF Proposed, Row
      <4> QED
        BY <4>1, NoneIsNoValue
    <3>2. \A i \in Ids : row'[i] # None => source'[i[1]] # None
      BY <2>4 DEF AppendCandidates, Ids
    <3>3. \A i \in Ids : sched'[i] # None => row'[i] # None
      BY <2>4, <3>1 DEF AppendCandidates
    <3> QED
      BY <3>2, <3>3
  <2>5. ASSUME FinishAnalysis(r) PROVE NoOrphans'
    <3>1. PICK status \in Statuses : SetSourceStatus(job[r].src, status)
      BY <2>5 DEF FinishAnalysis, Statuses
    <3>2. \A t \in Sources : source[t] # None => source'[t] # None
      BY <3>1, NoneIsNoValue DEF SetSourceStatus, RestTyped
    <3> QED
      BY <2>5, <3>2 DEF FinishAnalysis, Ids
  <2>6. ASSUME Think(r) \/ ReadRank(r) \/ AnalysisFails(r) PROVE NoOrphans'
    BY <2>6 DEF Think, ReadRank, AnalysisFails, tables
  <2> QED
    BY <1>4, <2>1, <2>2, <2>3, <2>4, <2>5, <2>6 DEF AnalysisStep
<1>5. ASSUME NEW r \in Requests, CandidateStep(r) PROVE NoOrphans'
  <2>1. ASSUME NEW i \in Ids, NEW at \in 0..MaxTime, ScheduleCandidate(r, i, at) PROVE NoOrphans'
    BY <2>1 DEF ScheduleCandidate, RestTyped
  <2>2. ASSUME FinishRewrite(r) PROVE NoOrphans'
    BY <2>2, UpdateKeepsRows DEF FinishRewrite
  <2>3. ASSUME MarkScheduled(r) PROVE NoOrphans'
    BY <2>3, UpdateKeepsRows DEF MarkScheduled
  <2>4. ASSUME NEW i \in Ids, RewriteCandidate(r, i) PROVE NoOrphans'
    BY <2>4 DEF RewriteCandidate, tables
  <2> QED
    BY <1>5, <2>1, <2>2, <2>3, <2>4 DEF CandidateStep
<1>6. ASSUME NEW r \in Requests, ClipStep(r) PROVE NoOrphans'
  <2>1. ASSUME NEW i \in Ids, NEW times \in Ranges, TrimCandidate(r, i, times) PROVE NoOrphans'
    BY <2>1, UpdateKeepsRows DEF TrimCandidate
  <2>2. ASSUME RecordClip(r) PROVE NoOrphans'
    <3>1. \A k \in Ids : row[k] # None => row'[k] # None
      <4>1. ASSUME NEW k \in Ids, row[k] # None
            PROVE  [row[k] EXCEPT !.clip = TRUE, !.status = "clipped"] # None
        <5>1. row[k] \in Row
          BY <4>1 DEF RestTyped
        <5>2. [row[k] EXCEPT !.clip = TRUE, !.status = "clipped"] \in Row
          BY <5>1 DEF Row
        <5> QED
          BY <5>2, NoneIsNoValue
      <4> QED
        BY <2>2, <4>1 DEF RecordClip, RestTyped
    <3>2. \A k \in Ids : row'[k] # None => row[k] # None
      BY <2>2 DEF RecordClip, RestTyped
    <3> QED
      BY <2>2, <3>1, <3>2 DEF RecordClip
  <2>3. ASSUME RestoreTimes(r) PROVE NoOrphans'
    <3>1. job[r].old \in Ranges
      BY <2>3 DEF RestoreTimes, At, JobsTyped, JobsFit, Fits
    <3>2. \A k \in Ids : (row'[k] = None) <=> (row[k] = None)
      <4>1. CASE row' = row
        BY <4>1
      <4>2. CASE row' = Update(job[r].id, "times", job[r].old)
        BY <3>1, <4>2, UpdateKeepsRows
      <4> QED
        BY <2>3, <4>1, <4>2 DEF RestoreTimes
    <3>3. UNCHANGED <<source, sched>>
      BY <2>3 DEF RestoreTimes
    <3> QED
      BY <3>2, <3>3
  <2>4. ASSUME UNCHANGED tables PROVE NoOrphans'
    BY <2>4 DEF tables
  <2> QED
    BY <1>6, <2>1, <2>2, <2>3, <2>4 DEF ClipStep, ClipCandidate, TrimFile, CutClip, WriteDraft
<1>7. ASSUME NEW r \in Requests, PostStep(r) PROVE NoOrphans'
  <2>1. ASSUME NEW i \in Ids, NEW text \in Texts \cup {None}, PostNow(r, i, text) PROVE NoOrphans'
    <3>1. \A k \in Ids : (row'[k] = None) <=> (row[k] = None)
      <4>1. CASE row' = row
        BY <4>1
      <4>2. CASE text \in Texts /\ row' = Update(i, "text", text)
        BY <4>2, UpdateKeepsRows
      <4> QED
        BY <2>1, <4>1, <4>2 DEF PostNow
    <3>2. UNCHANGED <<source, sched>>
      BY <2>1 DEF PostNow
    <3> QED
      BY <3>1, <3>2
  <2>2. ASSUME MarkScheduledPrepared(r) PROVE NoOrphans'
    BY <2>2 DEF MarkScheduledPrepared, RestTyped
  <2>3. ASSUME UNCHANGED tables PROVE NoOrphans'
    BY <2>3 DEF tables
  <2> QED
    BY <1>7, <2>1, <2>2, <2>3 DEF PostStep, Tick, NextDue, PreparePost
<1> QED
  BY <1>1, <1>2, <1>3, <1>4, <1>5, <1>6, <1>7, NextSplits DEF Step

\* No candidate is without its source, and no scheduled post without its candidate.
THEOREM NoOrphansHold == Spec => []NoOrphans
<1>1. Init => NoOrphans
  BY DEF Init, NoOrphans
<1>2. Typed /\ NoOrphans /\ [Next]_vars => NoOrphans'
  BY NoOrphansStep DEF vars, NoOrphans
<1> QED
  BY <1>1, <1>2, TypedInvariant, PTL DEF Spec

-----------------------------------------------------------------------------
(* States that only a request may end *)

\* The operation of a request, and the other requests, when it moves.
LEMMA GotoKeeps ==
  ASSUME JobsTyped, NEW r \in Requests, NEW stage, Goto(r, stage)
  PROVE  /\ job'[r] = [job[r] EXCEPT !.stage = stage]
         /\ job'[r].stage = stage /\ job'[r].op = job[r].op /\ job'[r].id = job[r].id
         /\ job'[r].seen = job[r].seen /\ job'[r].old = job[r].old /\ job'[r].rest = job[r].rest
         /\ \A q \in Requests \ {r} : job'[q] = job[q]
BY DEF Goto, JobsTyped, Jobs

\* A request that ends is idle, and the others are as they were.
LEMMA EndKeeps ==
  ASSUME JobsTyped, NEW r \in Requests, End(r)
  PROVE  /\ job'[r] = Idle /\ job'[r].op = "none"
         /\ \A q \in Requests \ {r} : job'[q] = job[q]
BY DEF End, JobsTyped, Idle

\* A request that starts was idle, and the others are as they were.
LEMMA StartKeeps ==
  ASSUME JobsTyped, NEW r \in Requests, NEW j, Start(r, j)
  PROVE  /\ job[r] = Idle /\ job[r].op = "none" /\ job'[r] = j
         /\ \A q \in Requests \ {r} : job'[q] = job[q]
BY DEF Start, JobsTyped, Idle

\* A failure changes no request but its own, whose operation it keeps or ends.
LEMMA OnErrorKeeps ==
  ASSUME JobsTyped, NEW r \in Requests, OnError(r)
  PROVE  /\ job'[r].op \in {job[r].op, "none"}
         /\ \A q \in Requests \ {r} : job'[q] = job[q]
<1>0. job[r] \in Jobs /\ job \in [Requests -> Jobs]
  BY DEF JobsTyped
<1>1. Idle.op = "none"
  BY DEF Idle
<1>2. [job[r] EXCEPT !.stage = "restore"].op = job[r].op
  BY <1>0 DEF Jobs
<1>3. [job[r] EXCEPT !.stage = "next", !.id = None].op = job[r].op
  BY <1>0 DEF Jobs
<1>4. job'[r] \in {Idle, [job[r] EXCEPT !.stage = "restore"],
                   [job[r] EXCEPT !.stage = "next", !.id = None]}
  BY <1>0 DEF OnError
<1>5. \A q \in Requests \ {r} : job'[q] = job[q]
  BY <1>0 DEF OnError
<1> QED
  BY <1>1, <1>2, <1>3, <1>4, <1>5

\* A step on a candidate, a clip or a post is of a request that is no analysis and no
\* change of a profile; it touches no source and no profile.
LEMMA StepKeeps ==
  ASSUME Typed, NEW r \in Requests, CandidateStep(r) \/ ClipStep(r) \/ PostStep(r)
  PROVE  /\ job[r].src = None /\ job'[r].src = None /\ job[r].kind = None /\ job'[r].kind = None
         /\ \A q \in Requests \ {r} : job'[q] = job[q]
         /\ UNCHANGED <<source, gaps, lost, torn>>
<1> USE TypedSplits
<1> DEFINE Other == {"none", "rewrite", "schedule", "clip", "trim", "post", "tick"}
<1>0. job[r] \in Jobs /\ Fits(job[r])
  BY DEF JobsTyped, JobsFit
<1>1. Typed'
  BY CandidateTyped, ClipTyped, PostTyped
<1>2. Fits(job'[r])
  BY <1>1 DEF Typed, JobsFit
<1> DEFINE Kept == /\ \A q \in Requests \ {r} : job'[q] = job[q]
                   /\ job[r].op \in Other /\ job'[r].op \in Other
                   /\ UNCHANGED <<source, gaps, lost, torn>>
<1>3. ASSUME CandidateStep(r) PROVE Kept
  <2>1. ASSUME NEW i \in Ids, RewriteCandidate(r, i) PROVE Kept
    <3> DEFINE j == [Idle EXCEPT !.op = "rewrite", !.stage = "think", !.id = i]
    <3>1. Start(r, j) /\ j.op = "rewrite"
      BY <2>1 DEF RewriteCandidate, Begin, Idle
    <3> HIDE DEF j
    <3> QED
      BY <2>1, <3>1, StartKeeps DEF RewriteCandidate, tables
  <2>3. ASSUME NEW i \in Ids, NEW at \in 0..MaxTime, ScheduleCandidate(r, i, at) PROVE Kept
    <3> DEFINE j == [Idle EXCEPT !.op = "schedule", !.stage = "queued", !.id = i]
    <3>1. Start(r, j) /\ j.op = "schedule"
      BY <2>3 DEF ScheduleCandidate, Begin, Idle
    <3> HIDE DEF j
    <3> QED
      BY <2>3, <3>1, StartKeeps DEF ScheduleCandidate
  <2>2. ASSUME FinishRewrite(r) \/ MarkScheduled(r) PROVE Kept
    BY <1>0, <2>2, EndKeeps
    DEF FinishRewrite, MarkScheduled, At, Fits, Idle, history
  <2> QED
    BY <1>3, <2>1, <2>2, <2>3 DEF CandidateStep
<1>4. ASSUME ClipStep(r) PROVE Kept
  <2>1. ASSUME NEW i \in Ids, ClipCandidate(r, i) PROVE Kept
    <3> DEFINE j == [Idle EXCEPT !.op = "clip", !.stage = "cut", !.id = i, !.seen = row[i]]
    <3>1. Start(r, j) /\ j.op = "clip"
      BY <2>1 DEF ClipCandidate, Begin, Idle
    <3> HIDE DEF j
    <3> QED
      BY <2>1, <3>1, StartKeeps DEF ClipCandidate, tables
  <2>2. ASSUME NEW i \in Ids, NEW times \in Ranges, TrimCandidate(r, i, times) PROVE Kept
    <3> DEFINE j == [Idle EXCEPT !.op = "trim", !.stage = "trim", !.id = i,
                         !.seen = row'[i], !.old = row[i].times]
    <3>0. j.op = "trim" /\ Idle.op = "none"
      BY DEF Idle
    <3>1. CASE Start(r, j)
      <4> HIDE DEF j
      <4> QED
        BY <2>2, <3>0, <3>1, StartKeeps DEF TrimCandidate
    <3>2. CASE UNCHANGED job /\ job[r] = Idle
      BY <2>2, <3>0, <3>2 DEF TrimCandidate
    <3> QED
      BY <2>2, <3>1, <3>2 DEF TrimCandidate, Begin
  <2>3. ASSUME TrimFile(r) PROVE Kept
    BY <1>0, <2>3, GotoKeeps
    DEF TrimFile, At, Fits, tables, history
  <2>4. ASSUME CutClip(r) PROVE Kept
    BY <1>0, <2>4, GotoKeeps, OnErrorKeeps
    DEF CutClip, At, Fits, Clippers, tables
  <2>5. ASSUME WriteDraft(r) PROVE Kept
    BY <1>0, <2>5, GotoKeeps, OnErrorKeeps
    DEF WriteDraft, At, Fits, Clippers, tables
  <2>6. ASSUME RecordClip(r) PROVE Kept
    BY <1>0, <2>6, GotoKeeps, EndKeeps, OnErrorKeeps
    DEF RecordClip, At, Fits, Clippers, Idle
  <2>7. ASSUME RestoreTimes(r) PROVE Kept
    BY <1>0, <2>7, EndKeeps
    DEF RestoreTimes, At, Fits, Idle
  <2> QED
    BY <1>4, <2>1, <2>2, <2>3, <2>4, <2>5, <2>6, <2>7 DEF ClipStep
<1>5. ASSUME PostStep(r) PROVE Kept
  <2>1. ASSUME NEW i \in Ids, NEW text \in Texts \cup {None}, PostNow(r, i, text) PROVE Kept
    BY <2>1, PostNowJob DEF PostNow, Becomes, Idle
  <2>2. ASSUME Tick(r) PROVE Kept
    <3>1. PICK q : Start(r, [Idle EXCEPT !.op = "tick", !.stage = "next", !.rest = q])
      BY <2>2 DEF Tick
    <3> DEFINE j == [Idle EXCEPT !.op = "tick", !.stage = "next", !.rest = q]
    <3>2. Start(r, j) /\ j.op = "tick"
      BY <3>1 DEF Idle
    <3> HIDE DEF j
    <3> QED
      BY <2>2, <3>2, StartKeeps DEF Tick, tables
  <2>3. ASSUME NextDue(r) PROVE Kept
    <3>1. job[r].op = "tick"
      BY <2>3 DEF NextDue
    <3>2. \E j : Becomes(r, j) /\ j.op \in {"none", "tick"}
      BY <2>3, NextDueJob DEF Idle
    <3> QED
      BY <2>3, <3>1, <3>2 DEF NextDue, Becomes, tables, history
  <2>4. ASSUME PreparePost(r) PROVE Kept
    BY <1>0, <2>4, GotoKeeps, EndKeeps, OnErrorKeeps
    DEF PreparePost, At, Fits, Idle, tables
  <2>5. ASSUME MarkScheduledPrepared(r) PROVE Kept
    <3>1. job' = [job EXCEPT ![r] = [job[r] EXCEPT !.stage = "next", !.id = None]]
      BY <2>5 DEF MarkScheduledPrepared
    <3> QED
      BY <1>0, <2>5, <3>1 DEF MarkScheduledPrepared, At, Fits, history, JobsTyped, Jobs
  <2> QED
    BY <1>5, <2>1, <2>2, <2>3, <2>4, <2>5 DEF PostStep
<1> QED
  BY <1>0, <1>2, <1>3, <1>4, <1>5 DEF Fits, Analyses

\* Nor does a step that changes a profile touch a source, or a step of an analysis a
\* profile.
LEMMA ProfileKeeps ==
  ASSUME Typed, NEW r \in Requests, ProfileStep(r)
  PROVE  /\ job[r].src = None /\ \A q \in Requests \ {r} : job'[q] = job[q]
         /\ UNCHANGED <<source, lost>>
<1> USE TypedSplits
<1>1. ASSUME NEW k \in Kinds, PutProfile(r, k)
      PROVE  /\ job[r].src = None /\ \A q \in Requests \ {r} : job'[q] = job[q]
             /\ UNCHANGED <<source, lost>>
  <2> DEFINE j == [Idle EXCEPT !.op = "put", !.stage = "deactivated", !.kind = k]
  <2>1. Start(r, j) /\ Idle.src = None
    BY <1>1 DEF PutProfile, Begin, Idle
  <2> HIDE DEF j
  <2> QED
    BY <1>1, <2>1, StartKeeps DEF PutProfile, tables, history
<1>2. ASSUME ActivateProfile(r)
      PROVE  /\ job[r].src = None /\ \A q \in Requests \ {r} : job'[q] = job[q]
             /\ UNCHANGED <<source, lost>>
  BY <1>2, EndKeeps DEF ActivateProfile, At, JobsTyped, JobsFit, Fits, Analyses, tables
<1> QED
  BY <1>1, <1>2 DEF ProfileStep

\* A request of an analysis keeps the source it works on until it writes its status.
LEMMA AnalysisMoves ==
  ASSUME Typed, NEW r \in Requests,
         Think(r) \/ InsertCandidates(r) \/ ReadRank(r) \/ AppendCandidates(r) \/ AnalysisFails(r)
  PROVE  /\ job'[r].src = job[r].src /\ job'[r].kind = job[r].kind
         /\ \A q \in Requests \ {r} : job'[q] = job[q]
         /\ UNCHANGED <<source, lost, gaps, torn>>
<1> USE TypedSplits
<1> DEFINE Moved == /\ job'[r].src = job[r].src /\ job'[r].kind = job[r].kind
                    /\ \A q \in Requests \ {r} : job'[q] = job[q]
<1>0. job[r] \in Jobs /\ job \in [Requests -> Jobs]
  BY DEF JobsTyped
<1>1. \A stage : Goto(r, stage) => Moved
  <2>1. \A stage : /\ [job[r] EXCEPT !.stage = stage].src = job[r].src
                   /\ [job[r] EXCEPT !.stage = stage].kind = job[r].kind
    BY <1>0 DEF Jobs
  <2> QED
    BY <1>0, <2>1 DEF Goto
<1>2. ReadRank(r) => Moved
  <2> DEFINE j == [job[r] EXCEPT !.stage = "append", !.base = TopRank(job[r].src)]
  <2>1. ReadRank(r) => job' = [job EXCEPT ![r] = j]
    BY DEF ReadRank
  <2>2. j.src = job[r].src /\ j.kind = job[r].kind
    BY <1>0 DEF Jobs
  <2> HIDE DEF j
  <2> QED
    BY <1>0, <2>1, <2>2
<1>3. Moved
  <2> HIDE DEF Moved
  <2> QED
    BY <1>1, <1>2 DEF Think, InsertCandidates, AppendCandidates, AnalysisFails
<1>4. UNCHANGED <<source, lost, gaps, torn>>
  BY DEF Think, InsertCandidates, ReadRank, AppendCandidates, AnalysisFails, tables, history
<1> QED
  BY <1>3, <1>4

\* A step keeps every source in analyzing with an analysis of it, or notes the lost status.
LEMMA AnalyzingStep ==
  ASSUME Typed, AnalyzingMeansWorking, Next
  PROVE  AnalyzingMeansWorking'
<1> USE TypedSplits DEF AnalyzingMeansWorking
<1>1. ASSUME AtOnce PROVE AnalyzingMeansWorking'
  <2>1. ASSUME NEW s \in Sources, CreateSource(s) \/ DeleteSource(s) PROVE AnalyzingMeansWorking'
    <3>1. \A t \in Sources : source'[t] = "analyzing" => source[t] = "analyzing"
      BY <2>1, NoneIsNoValue DEF CreateSource, DeleteSource, RestTyped, Statuses
    <3> QED
      BY <2>1, <3>1 DEF CreateSource, DeleteSource, history
  <2>2. ASSUME NEW i \in Ids, DeleteCandidate(i) \/ \E text \in Texts : PatchCandidate(i, text)
        PROVE  AnalyzingMeansWorking'
    BY <2>2 DEF DeleteCandidate, PatchCandidate
  <2>3. ASSUME Clock PROVE AnalyzingMeansWorking'
    BY <2>3 DEF Clock, tables, history
  <2> QED
    BY <1>1, <2>1, <2>2, <2>3 DEF AtOnce
<1>2. ASSUME Crash PROVE AnalyzingMeansWorking'
  BY <1>2 DEF Crash, tables
<1>3. ASSUME NEW r \in Requests, ProfileStep(r) \/ CandidateStep(r) \/ ClipStep(r) \/ PostStep(r)
      PROVE  AnalyzingMeansWorking'
  BY <1>3, ProfileKeeps, StepKeeps, NoneIsNoValue
<1>4. ASSUME NEW r \in Requests, AnalysisStep(r) PROVE AnalyzingMeansWorking'
  <2>1. ASSUME NEW s \in Sources, Analyze(r, s) PROVE AnalyzingMeansWorking'
    <3> DEFINE j == [Idle EXCEPT !.op = "analyze", !.stage = "think", !.src = s]
    <3>1. Start(r, j) /\ j.src = s /\ Idle.src = None
      BY <2>1 DEF Analyze, Begin, Idle
    <3> HIDE DEF j
    <3>2. job[r].src = None /\ job'[r].src = s /\ \A q \in Requests \ {r} : job'[q] = job[q]
      BY <3>1, StartKeeps
    <3>3. \A t \in Sources \ {s} : source'[t] = source[t] /\ (t \in lost => t \in lost')
      BY <2>1 DEF Analyze, SetSourceStatus, RestTyped
    <3> QED
      BY <3>2, <3>3, NoneIsNoValue
  <2>2. ASSUME NEW s \in Sources, AnalyzeMoment(r, s) PROVE AnalyzingMeansWorking'
    <3> DEFINE j == [Idle EXCEPT !.op = "moment", !.stage = "think", !.src = s]
    <3>1. Start(r, j) /\ j.src = s /\ Idle.src = None
      BY <2>2 DEF AnalyzeMoment, Begin, Idle
    <3> HIDE DEF j
    <3>2. job[r].src = None /\ job'[r].src = s /\ \A q \in Requests \ {r} : job'[q] = job[q]
      BY <3>1, StartKeeps
    <3>3. \A t \in Sources \ {s} : source'[t] = source[t] /\ (t \in lost => t \in lost')
      BY <2>2 DEF AnalyzeMoment, RestTyped
    <3> QED
      BY <3>2, <3>3, NoneIsNoValue
  <2>3. ASSUME Think(r) \/ InsertCandidates(r) \/ ReadRank(r) \/ AppendCandidates(r)
                 \/ AnalysisFails(r)
        PROVE  AnalyzingMeansWorking'
    BY <2>3, AnalysisMoves
  <2>4. ASSUME FinishAnalysis(r) PROVE AnalyzingMeansWorking'
    <3> DEFINE s == job[r].src
    <3>1. \A q \in Requests \ {r} : job'[q] = job[q]
      BY <2>4, EndKeeps DEF FinishAnalysis
    <3>2. s \in lost' \/ source'[s] # "analyzing"
      <4>1. PICK status \in {"analyzed", "failed"} : SetSourceStatus(s, status)
        BY <2>4 DEF FinishAnalysis
      <4>2. s \in Sources
        BY <2>4 DEF FinishAnalysis, JobsTyped, JobsFit, Fits
      <4> QED
        BY <4>1, <4>2, NoneIsNoValue DEF SetSourceStatus, RestTyped, Statuses
    <3>3. \A t \in Sources \ {s} : source'[t] = source[t] /\ (t \in lost => t \in lost')
      BY <2>4 DEF FinishAnalysis, SetSourceStatus, RestTyped
    <3> HIDE DEF s
    <3>4. \A q \in Requests : q = r => job[q].src = s
      BY DEF s
    <3> QED
      BY <3>1, <3>2, <3>3, <3>4
  <2> QED
    BY <1>4, <2>1, <2>2, <2>3, <2>4 DEF AnalysisStep
<1> QED
  BY <1>1, <1>2, <1>3, <1>4, NextSplits DEF Step

\* A source says analyzing only while an analysis of it runs, or its last status was not
\* written.
THEOREM AnalyzingHolds == Spec => []AnalyzingMeansWorking
<1>1. Init => AnalyzingMeansWorking
  BY NoneIsNoValue DEF Init, AnalyzingMeansWorking, Statuses
<1>2. Typed /\ AnalyzingMeansWorking /\ [Next]_vars => AnalyzingMeansWorking'
  BY AnalyzingStep DEF vars, AnalyzingMeansWorking
<1> QED
  BY <1>1, <1>2, TypedInvariant, PTL DEF Spec

\* A step keeps every missing profile with its replacement, or notes that it was cut short.
LEMMA GapStep ==
  ASSUME Typed, GapMeansUpdate, Next
  PROVE  GapMeansUpdate'
<1> USE TypedSplits DEF GapMeansUpdate
<1>1. ASSUME AtOnce PROVE GapMeansUpdate'
  <2>1. UNCHANGED <<job, gaps, torn>>
    BY <1>1 DEF AtOnce, CreateSource, DeleteSource, DeleteCandidate, PatchCandidate, Clock, history
  <2> QED
    BY <2>1
<1>2. ASSUME Crash PROVE GapMeansUpdate'
  BY <1>2 DEF Crash, RestTyped
<1>3. ASSUME NEW r \in Requests, CandidateStep(r) \/ ClipStep(r) \/ PostStep(r)
      PROVE  GapMeansUpdate'
  BY <1>3, StepKeeps, NoneIsNoValue DEF RestTyped
<1>4. ASSUME NEW r \in Requests, NEW k \in Kinds, PutProfile(r, k) PROVE GapMeansUpdate'
  <2> DEFINE j == [Idle EXCEPT !.op = "put", !.stage = "deactivated", !.kind = k]
  <2>1. Start(r, j) /\ j.kind = k /\ Idle.kind = None
    BY <1>4 DEF PutProfile, Begin, Idle
  <2> HIDE DEF j
  <2>2. job[r].kind = None /\ job'[r].kind = k /\ \A q \in Requests \ {r} : job'[q] = job[q]
    BY <2>1, StartKeeps
  <2>3. gaps' = gaps \cup {k} /\ UNCHANGED torn
    BY <1>4 DEF PutProfile, history
  <2> QED
    BY <2>2, <2>3, NoneIsNoValue DEF RestTyped
<1>5. ASSUME NEW r \in Requests, ActivateProfile(r) PROVE GapMeansUpdate'
  <2>1. \A q \in Requests \ {r} : job'[q] = job[q]
    BY <1>5, EndKeeps DEF ActivateProfile
  <2>2. \/ gaps' = gaps \ {job[r].kind} /\ torn' = torn \ {job[r].kind}
        \/ torn' = torn \cup {job[r].kind} /\ UNCHANGED gaps
    BY <1>5 DEF ActivateProfile
  <2>3. \A q \in Requests : q = r => job[q].kind = job[r].kind
    OBVIOUS
  <2> QED
    BY <2>1, <2>2, <2>3
<1>6. ASSUME NEW r \in Requests, AnalysisStep(r) PROVE GapMeansUpdate'
  <2>1. ASSUME NEW s \in Sources, Analyze(r, s) PROVE GapMeansUpdate'
    <3> DEFINE j == [Idle EXCEPT !.op = "analyze", !.stage = "think", !.src = s]
    <3>1. Start(r, j) /\ Idle.kind = None
      BY <2>1 DEF Analyze, Begin, Idle
    <3> HIDE DEF j
    <3>2. job[r].kind = None /\ \A q \in Requests \ {r} : job'[q] = job[q]
      BY <3>1, StartKeeps
    <3> QED
      BY <2>1, <3>2, NoneIsNoValue DEF Analyze, RestTyped
  <2>2. ASSUME NEW s \in Sources, AnalyzeMoment(r, s) PROVE GapMeansUpdate'
    <3> DEFINE j == [Idle EXCEPT !.op = "moment", !.stage = "think", !.src = s]
    <3>1. Start(r, j) /\ Idle.kind = None
      BY <2>2 DEF AnalyzeMoment, Begin, Idle
    <3> HIDE DEF j
    <3>2. job[r].kind = None /\ \A q \in Requests \ {r} : job'[q] = job[q]
      BY <3>1, StartKeeps
    <3> QED
      BY <2>2, <3>2, NoneIsNoValue DEF AnalyzeMoment, RestTyped
  <2>3. ASSUME Think(r) \/ InsertCandidates(r) \/ ReadRank(r) \/ AppendCandidates(r)
                 \/ AnalysisFails(r)
        PROVE  GapMeansUpdate'
    BY <2>3, AnalysisMoves
  <2>4. ASSUME FinishAnalysis(r) PROVE GapMeansUpdate'
    <3>1. job[r].kind = None /\ \A q \in Requests \ {r} : job'[q] = job[q]
      BY <2>4, EndKeeps DEF FinishAnalysis, JobsTyped, JobsFit, Fits, Analyses
    <3> QED
      BY <2>4, <3>1, NoneIsNoValue DEF FinishAnalysis, RestTyped
  <2> QED
    BY <1>6, <2>1, <2>2, <2>3, <2>4 DEF AnalysisStep
<1> QED
  BY <1>1, <1>2, <1>3, <1>4, <1>5, <1>6, NextSplits DEF Step, ProfileStep

\* A profile is missing only while it is replaced, or after its replacement was cut short.
THEOREM GapsHold == Spec => []GapMeansUpdate
<1>1. Init => GapMeansUpdate
  BY DEF Init, GapMeansUpdate
<1>2. Typed /\ GapMeansUpdate /\ [Next]_vars => GapMeansUpdate'
  BY GapStep DEF vars, GapMeansUpdate
<1> QED
  BY <1>1, <1>2, TypedInvariant, PTL DEF Spec

-----------------------------------------------------------------------------
(* Candidates that one request at a time works on                           *)

\* A file that shows the range, from its start, or no file.
Shows(f, times) == f = None \/ (f # Broken /\ f[1] = times[1] /\ f[2] <= times[2])

\* The request that works on a candidate has read what the row still says, and what it
\* has written so far agrees with it.
Working(i, j) ==
    /\ row[i] # None
    /\ j.id = i /\ j.stage \in {"cut", "trim", "draft", "record", "prepare"} =>
         j.seen.text = row[i].text
    /\ j.id = i /\ j.stage \in {"cut", "trim"} => j.seen.times = row[i].times
    /\ j.id = i /\ j.stage \in {"trim", "restore"} => Shows(clip[i], j.old)
    /\ j.id = i /\ j.stage = "cut" /\ j.op = "trim" => clip[i] = None
    /\ j.id = i /\ j.stage \in {"draft", "record", "prepare"} => clip[i] # None
    /\ j.id = i /\ j.stage \in {"record", "prepare"} => draft[i] = row[i].text
    /\ j.op = "tick" => sched[i] # None /\ sched[i].at <= now
    /\ j.id = i /\ j.stage = "mark" => posted[i] # None /\ posted[i].at >= sched[i].at

Trimming(i) == \E r \in Requests : job[r].id = i /\ job[r].stage \in {"trim", "restore"}

Alone(i) == \A q, r \in Requests : i \in Holds(job[q]) /\ i \in Holds(job[r]) => q = r

\* A candidate's row, files and scheduled post agree; the clip of one that is being
\* trimmed, or put back, agrees with the range it had.
Settled(i) ==
    /\ row[i] = None => clip[i] = None
    /\ row[i] # None /\ ~ Trimming(i) => Shows(clip[i], row[i].times)
    /\ row[i] # None /\ row[i].clip => clip[i] # None
    /\ posted[i] # None => posted[i].at <= now
    /\ sched[i] # None /\ sched[i].status = "ready" =>
         posted[i] # None /\ posted[i].at >= sched[i].at

Calm(i) ==
    /\ Alone(i) /\ Settled(i)
    /\ \A r \in Requests : i \in Holds(job[r]) => Working(i, job[r])

Undisturbed == \A i \in Ids \ disturbed : Calm(i)

Same(i) ==
    /\ row'[i] = row[i] /\ sched'[i] = sched[i] /\ clip'[i] = clip[i] /\ draft'[i] = draft[i]
    /\ posted'[i] = posted[i] /\ now' = now

OthersSame(r) == \A q \in Requests \ {r} : job'[q] = job[q]

\* An idle request works on nothing.
LEMMA HoldsIdle == \A i \in Ids : i \notin Holds(Idle)
BY NoneIsNoValue DEF Holds, Idle

\* What a request works on is its candidate and its list.
LEMMA HoldsSame ==
  ASSUME NEW j, NEW k, j.id = k.id, j.rest = k.rest
  PROVE  Holds(j) = Holds(k)
BY DEF Holds

\* A candidate is held if some request works on it.
LEMMA HeldBy == \A i \in Ids : i \in Held <=> \E r \in Requests : i \in Holds(job[r])
BY DEF Held

\* A request works on its own candidate.
LEMMA HoldsItsOwn == ASSUME NEW i \in Ids, NEW j, j.id = i PROVE i \in Holds(j)
BY DEF Holds

\* A step of the only request on a candidate leaves it calm if what that request then
\* needs holds and the candidate is settled.
LEMMA CalmHere ==
  ASSUME NEW i \in Ids, NEW r \in Requests, OthersSame(r),
         \A q \in Requests \ {r} : i \notin Holds(job[q]),
         i \in Holds(job'[r]) => Working(i, job[r])',
         Settled(i)'
  PROVE  Calm(i)'
<1>1. \A q \in Requests \ {r} : i \notin Holds(job'[q])
  BY DEF OthersSame
<1>2. Alone(i)'
  BY <1>1 DEF Alone, Holds
<1>3. \A q \in Requests : i \in Holds(job'[q]) => Working(i, job[q])'
  BY <1>1
<1> QED
  BY <1>2, <1>3 DEF Calm, Holds

\* Stages in which a request has read and written nothing of its candidate.
Quiet == {"deactivated", "think", "store", "append", "done", "failed", "next"}

\* A step elsewhere, or one that reads and writes nothing of a candidate, leaves it calm.
LEMMA CalmElsewhere ==
  ASSUME NEW i \in Ids, NEW r \in Requests, Calm(i), OthersSame(r), Same(i),
         job[r].id = i => job[r].stage \notin {"trim", "restore"},
         job'[r].id = i => job'[r].stage \in Quiet,
         i \in Holds(job'[r]) => i \in Holds(job[r]) /\ job'[r].op = job[r].op
  PROVE  Calm(i)'
<1>1. Alone(i)'
  BY DEF Alone, Holds, Calm, OthersSame
<1>2. Settled(i)'
  <2>1. Trimming(i)' <=> Trimming(i)
    BY DEF Trimming, OthersSame, Quiet
  <2> QED
    BY <2>1 DEF Settled, Calm, Same, Shows
<1>3. ASSUME NEW q \in Requests, i \in Holds(job'[q]) PROVE Working(i, job[q])'
  <2>1. CASE q = r
    BY <1>3, <2>1 DEF Working, Calm, Same, Holds, Quiet
  <2>2. CASE q # r
    BY <1>3, <2>2 DEF Working, Calm, OthersSame, Same, Holds, Shows
  <2> QED
    BY <2>1, <2>2
<1> QED
  BY <1>1, <1>2, <1>3 DEF Calm, Holds

\* Nobody else works on what a request works on.
LEMMA NobodyElse ==
  ASSUME NEW i \in Ids, NEW r \in Requests, Calm(i), i \in Holds(job[r])
  PROVE  \A q \in Requests \ {r} : i \notin Holds(job[q])
BY DEF Calm, Alone

\* What no request works on stays calm when its settled data change with no request.
LEMMA CalmUnheld ==
  ASSUME NEW i \in Ids, UNCHANGED job, i \notin Held, Settled(i)'
  PROVE  Calm(i)'
<1>1. \A q \in Requests : i \notin Holds(job'[q])
  BY HeldBy
<1> QED
  BY <1>1 DEF Calm, Alone, Holds

\* A step that changes neither requests nor a candidate's data leaves the candidate calm.
LEMMA CalmSame ==
  ASSUME NEW i \in Ids, UNCHANGED job, Same(i), Calm(i)
  PROVE  Calm(i)'
<1>1. Alone(i)'
  BY DEF Alone, Holds, Calm
<1>2. Settled(i)'
  BY DEF Settled, Trimming, Calm, Same, Shows
<1>3. \A q \in Requests : i \in Holds(job'[q]) => Working(i, job[q])'
  BY DEF Working, Calm, Same, Holds, Shows
<1> QED
  BY <1>1, <1>2, <1>3 DEF Calm, Holds

\* A row that goes without a file leaves nothing behind.
LEMMA CalmGone ==
  ASSUME NEW i \in Ids, UNCHANGED <<clip, posted, now>>, Calm(i),
         row'[i] = None, sched'[i] = None, clip[i] = None
  PROVE  Settled(i)'
BY DEF Settled, Calm, Shows

\* A change of one candidate leaves the others as they are.
LEMMA UpdateElsewhere ==
  ASSUME Typed, NEW i \in Ids, NEW k, i # k, NEW field, NEW value
  PROVE  Update(k, field, value)[i] = row[i]
BY TypedSplits DEF Update, RestTyped

\* A change of one field leaves the other fields as they are.
LEMMA UpdateField ==
  ASSUME Typed, NEW i \in Ids, row[i] # None, NEW value
  PROVE  /\ Update(i, "text", value)[i].text = value
         /\ Update(i, "text", value)[i].times = row[i].times
         /\ Update(i, "text", value)[i].clip = row[i].clip
         /\ Update(i, "text", value)[i].status = row[i].status
         /\ Update(i, "times", value)[i].text = row[i].text
         /\ Update(i, "times", value)[i].times = value
         /\ Update(i, "times", value)[i].clip = row[i].clip
         /\ Update(i, "times", value)[i].status = row[i].status
         /\ Update(i, "status", value)[i].text = row[i].text
         /\ Update(i, "status", value)[i].times = row[i].times
         /\ Update(i, "status", value)[i].clip = row[i].clip
<1> USE TypedSplits
<1>1. row[i] \in Row
  BY DEF RestTyped
<1>2. /\ Update(i, "text", value)[i] = [row[i] EXCEPT !["text"] = value]
      /\ Update(i, "times", value)[i] = [row[i] EXCEPT !["times"] = value]
      /\ Update(i, "status", value)[i] = [row[i] EXCEPT !["status"] = value]
  BY DEF Update, RestTyped
<1> DEFINE x == row[i]
<1>3. x \in Row
  BY <1>1
<1> HIDE DEF x
<1>4. /\ [x EXCEPT !["text"] = value].text = value /\ [x EXCEPT !["text"] = value].times = x.times
      /\ [x EXCEPT !["text"] = value].clip = x.clip /\ [x EXCEPT !["text"] = value].status = x.status
  BY <1>3 DEF Row
<1>5. /\ [x EXCEPT !["times"] = value].times = value /\ [x EXCEPT !["times"] = value].text = x.text
      /\ [x EXCEPT !["times"] = value].clip = x.clip /\ [x EXCEPT !["times"] = value].status = x.status
  BY <1>3 DEF Row
<1>6. /\ [x EXCEPT !["status"] = value].times = x.times /\ [x EXCEPT !["status"] = value].text = x.text
      /\ [x EXCEPT !["status"] = value].clip = x.clip
  BY <1>3 DEF Row
<1> QED
  BY <1>2, <1>4, <1>5, <1>6 DEF x

\* Steps that move no request.
LEMMA CalmAtOnce ==
  ASSUME Typed, NoOrphans, AtOnce, NEW i \in Ids, i \notin disturbed', Calm(i)
  PROVE  Calm(i)'
<1> USE TypedSplits
<1>0. UNCHANGED job
  BY DEF AtOnce, CreateSource, DeleteSource, DeleteCandidate, PatchCandidate, Clock
<1>1. ASSUME NEW s \in Sources, CreateSource(s) PROVE Calm(i)'
  BY <1>1, CalmSame DEF CreateSource, Same, files, history
<1>2. ASSUME NEW s \in Sources, DeleteSource(s) PROVE Calm(i)'
  <2>1. CASE i[1] # s
    BY <1>2, <2>1, CalmSame DEF DeleteSource, Same, Cascade, CandidatesOf, files, RestTyped
  <2>2. CASE i[1] = s
    <3>1. row'[i] = None /\ sched'[i] = None /\ UNCHANGED <<job, clip, draft, posted, now>>
      BY <1>2, <2>2 DEF DeleteSource, Cascade, CandidatesOf, files
    <3>2. i \notin Removed(CandidatesOf(s)) /\ i \in CandidatesOf(s)
      BY <1>2, <2>2 DEF DeleteSource, CandidatesOf
    <3>3. CASE row[i] = None
      BY <3>1, <3>3, CalmSame DEF NoOrphans, Same
    <3>4. CASE i \notin Held /\ clip[i] = None
      BY <3>1, <3>4, CalmGone, CalmUnheld
    <3> QED
      BY <3>2, <3>3, <3>4 DEF Removed
  <2> QED
    BY <2>1, <2>2
<1>3. ASSUME NEW k \in Ids, DeleteCandidate(k) PROVE Calm(i)'
  <2>1. CASE i # k
    BY <1>3, <2>1, CalmSame DEF DeleteCandidate, Same, Cascade, files, RestTyped
  <2>2. CASE i = k
    <3>1. row'[i] = None /\ sched'[i] = None /\ UNCHANGED <<job, clip, draft, posted, now>>
      BY <1>3, <2>2 DEF DeleteCandidate, Cascade, files, RestTyped
    <3>2. i \notin Held /\ clip[i] = None
      BY <1>3, <2>2 DEF DeleteCandidate, Removed
    <3> QED
      BY <3>1, <3>2, CalmGone, CalmUnheld
  <2> QED
    BY <2>1, <2>2
<1>4. ASSUME NEW k \in Ids, NEW text \in Texts, PatchCandidate(k, text) PROVE Calm(i)'
  <2>1. CASE i # k
    <3>1. row' = Update(k, "text", text)
      BY <1>4 DEF PatchCandidate
    <3>2. row'[i] = row[i]
      BY <2>1, <3>1, UpdateElsewhere
    <3> QED
      BY <1>4, <3>2, CalmSame DEF PatchCandidate, Same, files
  <2>2. CASE i = k
    <3>1. i \notin Held /\ row[i] # None /\ row' = Update(i, "text", text)
      BY <1>4, <2>2 DEF PatchCandidate, Disturb, Readable
    <3>2. ~ Trimming(i)
      BY <3>1, HeldBy, HoldsItsOwn DEF Trimming
    <3>3. /\ row'[i].times = row[i].times /\ row'[i].clip = row[i].clip
          /\ row'[i].status = row[i].status
      BY <3>1, UpdateField
    <3>4. row'[i] # None
      BY <3>1, UpdateKeepsRows
    <3>5. Settled(i)'
      BY <1>4, <3>1, <3>2, <3>3, <3>4 DEF PatchCandidate, Calm, Settled, Shows, files
    <3> QED
      BY <1>0, <3>1, <3>5, CalmUnheld
  <2> QED
    BY <2>1, <2>2
<1>5. ASSUME Clock PROVE Calm(i)'
  <2>1. now' > now /\ now \in Nat /\ now' \in Nat /\ UNCHANGED <<row, sched, clip, draft, job, posted>>
    BY <1>5, BoundsAreNumbers DEF Clock, tables, files, history, RestTyped
  <2>2. sched[i] # None => sched[i].at \in Nat
    BY BoundsAreNumbers DEF RestTyped, Post
  <2>3. posted[i] # None => posted[i].at \in Nat
    BY BoundsAreNumbers DEF RestTyped
  <2>4. Alone(i)'
    BY <2>1 DEF Alone, Holds, Calm
  <2>5. Settled(i)'
    <3>1. Settled(i) /\ (Trimming(i)' <=> Trimming(i))
      BY <2>1 DEF Calm, Trimming
    <3>2. posted[i] # None => posted[i].at <= now'
      BY <2>1, <2>3, <3>1 DEF Settled
    <3> QED
      BY <2>1, <3>1, <3>2 DEF Settled, Shows
  <2>6. ASSUME NEW q \in Requests, i \in Holds(job'[q]) PROVE Working(i, job[q])'
    <3>1. Working(i, job[q])
      BY <2>1, <2>6 DEF Calm
    <3>2. job[q].op = "tick" => sched[i] # None /\ sched[i].at <= now'
      BY <2>1, <2>2, <3>1 DEF Working
    <3> QED
      BY <2>1, <3>1, <3>2 DEF Working, Shows
  <2> QED
    BY <2>4, <2>5, <2>6 DEF Calm, Holds
<1> QED
  BY <1>1, <1>2, <1>3, <1>4, <1>5 DEF AtOnce

\* A crash ends every request, and disturbs what they worked on.
LEMMA CalmCrash ==
  ASSUME Typed, Crash, NEW i \in Ids, i \notin disturbed', Calm(i)
  PROVE  Calm(i)'
<1> USE TypedSplits
<1>1. i \notin Held /\ \A r \in Requests : job'[r] = Idle
  BY DEF Crash
<1>2. \A r \in Requests : job[r].id # i
  BY <1>1, HeldBy, HoldsItsOwn
<1>3. ~ Trimming(i) /\ clip'[i] = clip[i] /\ UNCHANGED <<row, sched, posted, now>>
  BY <1>2 DEF Crash, Trimming, tables
<1>4. Settled(i)'
  BY <1>3 DEF Settled, Calm, Shows
<1>5. \A q \in Requests : i \notin Holds(job'[q])
  BY <1>1, HoldsIdle
<1> QED
  BY <1>4, <1>5 DEF Calm, Alone, Holds

\* Only the candidate a request starts on is held by it.
LEMMA HoldsStarted ==
  ASSUME NEW i \in Ids, NEW j, j.rest = <<>>, i \in Holds(j)
  PROVE  j.id = i
BY DEF Holds

\* A change of a profile leaves candidates calm.
LEMMA CalmProfile ==
  ASSUME Typed, NEW r \in Requests, ProfileStep(r), NEW i \in Ids, Calm(i)
  PROVE  Calm(i)'
<1> USE TypedSplits
<1>1. ASSUME NEW k \in Kinds, PutProfile(r, k) PROVE Calm(i)'
  <2> DEFINE j == [Idle EXCEPT !.op = "put", !.stage = "deactivated", !.kind = k]
  <2>1. Start(r, j) /\ j.id = None /\ Idle.id = None /\ j.rest = <<>> /\ j.op = "put"
    BY <1>1 DEF PutProfile, Begin, Idle
  <2> HIDE DEF j
  <2>2. job[r] = Idle /\ job'[r] = j /\ OthersSame(r)
    BY <2>1, StartKeeps DEF OthersSame
  <2>3. i \notin Holds(j)
    BY <2>1, HoldsStarted, NoneIsNoValue
  <2>4. Same(i)
    BY <1>1 DEF PutProfile, Same, tables, files, history
  <2> QED
    BY <2>1, <2>2, <2>3, <2>4, NoneIsNoValue, CalmElsewhere
<1>2. ASSUME ActivateProfile(r) PROVE Calm(i)'
  <2>1. job'[r] = Idle /\ OthersSame(r) /\ job[r].stage = "deactivated"
    BY <1>2, EndKeeps DEF ActivateProfile, OthersSame, At
  <2>2. Same(i)
    BY <1>2 DEF ActivateProfile, Same, tables, files
  <2>3. i \notin Holds(Idle) /\ Idle.id # i
    BY HoldsIdle, HoldsItsOwn
  <2> QED
    BY <2>1, <2>2, <2>3, CalmElsewhere
<1> QED
  BY <1>1, <1>2 DEF ProfileStep

\* A new row, where there was neither a row nor a file, is settled.
LEMMA CalmFresh ==
  ASSUME Typed, NEW r \in Requests, NEW i \in Ids, Calm(i), OthersSame(r), UNCHANGED <<clip, posted, now>>,
         \A q \in Requests : i \notin Holds(job[q]),
         i \notin Holds(job'[r]), clip[i] = None, sched'[i] = None,
         row'[i] = None \/ \E p \in Proposals : row'[i] = Proposed(p)
  PROVE  Calm(i)'
<1>1. row'[i] # None => row'[i].clip = FALSE /\ row'[i].status = "proposed"
  <2>1. \A p \in Proposals : Proposed(p).clip = FALSE /\ Proposed(p).status = "proposed"
    BY DEF Proposed
  <2> QED
    BY <2>1
<1>2. Settled(i)'
  BY <1>1 DEF Settled, Shows, Calm
<1> QED
  BY <1>2, CalmHere

\* An analysis leaves the candidates calm that it does not replace, and those it writes.
LEMMA CalmAnalysis ==
  ASSUME Typed, NoOrphans, NEW r \in Requests, AnalysisStep(r), NEW i \in Ids, i \notin disturbed',
         Calm(i)
  PROVE  Calm(i)'
<1> USE TypedSplits
<1>0. job[r] \in Jobs /\ Fits(job[r])
  BY DEF JobsTyped, JobsFit
<1>1. ASSUME NEW s \in Sources, Analyze(r, s) PROVE Calm(i)'
  <2> DEFINE j == [Idle EXCEPT !.op = "analyze", !.stage = "think", !.src = s]
  <2>1. Start(r, j) /\ j.id = None /\ Idle.id = None /\ j.rest = <<>> /\ j.op = "analyze"
    BY <1>1 DEF Analyze, Begin, Idle
  <2> HIDE DEF j
  <2>2. job[r] = Idle /\ job'[r] = j /\ OthersSame(r)
    BY <2>1, StartKeeps DEF OthersSame
  <2>3. i \notin Holds(j)
    BY <2>1, HoldsStarted, NoneIsNoValue
  <2>4. Same(i)
    BY <1>1 DEF Analyze, Same, files
  <2> QED
    BY <2>1, <2>2, <2>3, <2>4, NoneIsNoValue, CalmElsewhere
<1>2. ASSUME NEW s \in Sources, AnalyzeMoment(r, s) PROVE Calm(i)'
  <2> DEFINE j == [Idle EXCEPT !.op = "moment", !.stage = "think", !.src = s]
  <2>1. Start(r, j) /\ j.id = None /\ Idle.id = None /\ j.rest = <<>> /\ j.op = "moment"
    BY <1>2 DEF AnalyzeMoment, Begin, Idle
  <2> HIDE DEF j
  <2>2. job[r] = Idle /\ job'[r] = j /\ OthersSame(r)
    BY <2>1, StartKeeps DEF OthersSame
  <2>3. i \notin Holds(j)
    BY <2>1, HoldsStarted, NoneIsNoValue
  <2>4. Same(i)
    BY <1>2 DEF AnalyzeMoment, Same, files
  <2> QED
    BY <2>1, <2>2, <2>3, <2>4, NoneIsNoValue, CalmElsewhere
<1> DEFINE Moved == /\ OthersSame(r) /\ Holds(job'[r]) = Holds(job[r]) /\ job'[r].op = job[r].op
                    /\ job'[r].stage \in Quiet /\ job[r].stage \in Quiet
<1>3. ASSUME Think(r) \/ InsertCandidates(r) \/ AppendCandidates(r) \/ AnalysisFails(r)
      PROVE  Moved
  <2>1. PICK stage \in {"store", "done", "failed"} : Goto(r, stage)
    BY <1>3 DEF Think, InsertCandidates, AppendCandidates, AnalysisFails
  <2>2. job[r].stage \in Quiet
    BY <1>3 DEF Think, InsertCandidates, AppendCandidates, AnalysisFails, At, Quiet
  <2> QED
    BY <2>1, <2>2, GotoKeeps, HoldsSame DEF OthersSame, Quiet
<1>4. ASSUME ReadRank(r) PROVE Moved
  <2> DEFINE j == [job[r] EXCEPT !.stage = "append", !.base = TopRank(job[r].src)]
  <2>1. job' = [job EXCEPT ![r] = j] /\ job[r].stage \in Quiet
    BY <1>4 DEF ReadRank, At, Quiet
  <2>2. j.id = job[r].id /\ j.rest = job[r].rest /\ j.op = job[r].op /\ j.stage = "append"
    BY <1>0 DEF Jobs
  <2> HIDE DEF j
  <2>3. job'[r] = j /\ OthersSame(r)
    BY <2>1 DEF JobsTyped, OthersSame
  <2> QED
    BY <2>1, <2>2, <2>3, HoldsSame DEF Quiet
<1>5. ASSUME Think(r) \/ ReadRank(r) \/ AnalysisFails(r) PROVE Calm(i)'
  <2>1. Same(i)
    BY <1>5 DEF Think, ReadRank, AnalysisFails, Same, tables, files, history
  <2>2. Moved
    BY <1>3, <1>4, <1>5
  <2> QED
    BY <2>1, <2>2, CalmElsewhere DEF Quiet
<1>6. ASSUME InsertCandidates(r) PROVE Calm(i)'
  <2> DEFINE s == job[r].src
  <2>1. Moved
    BY <1>3, <1>6
  <2>2. CASE i[1] # s
    <3>1. Same(i)
      BY <1>6, <2>2 DEF InsertCandidates, Same, Cascade, CandidatesOf, files
    <3> QED
      BY <2>1, <3>1, CalmElsewhere DEF Quiet
  <2>3. CASE i[1] = s
    <3>1. i \notin Removed(CandidatesOf(s)) /\ i \in CandidatesOf(s)
      BY <1>6, <2>3 DEF InsertCandidates, CandidatesOf
    <3>2. clip[i] = None /\ \A q \in Requests : i \notin Holds(job[q])
      <4>1. CASE row[i] = None
        BY <4>1 DEF Calm, Settled, Working
      <4>2. CASE row[i] # None
        BY <3>1, <4>2, HeldBy DEF Removed
      <4> QED
        BY <4>1, <4>2
    <3>3. row'[i] = None \/ \E p \in Proposals : row'[i] = Proposed(p)
      BY <1>6, <2>3 DEF InsertCandidates
    <3>4. sched'[i] = None /\ UNCHANGED <<clip, posted, now>>
      BY <1>6, <3>1 DEF InsertCandidates, Cascade, files
    <3> QED
      BY <2>1, <3>2, <3>3, <3>4, CalmFresh
  <2> QED
    BY <2>2, <2>3
<1>7. ASSUME AppendCandidates(r) PROVE Calm(i)'
  <2>1. Moved
    BY <1>3, <1>7
  <2>2. CASE row'[i] = row[i]
    <3>1. Same(i)
      BY <1>7, <2>2 DEF AppendCandidates, Same, files, history
    <3> QED
      BY <2>1, <3>1, CalmElsewhere DEF Quiet
  <2>3. CASE row'[i] # row[i]
    <3>1. row[i] = None /\ \E p \in Proposals : row'[i] = Proposed(p)
      <4> DEFINE s == job[r].src
      <4> DEFINE b == job[r].base
      <4>1. PICK n \in 1..(MaxRank - b) :
              /\ \A k \in 1..n : row[<<s, b + k>>] = None
              /\ \E p \in [1..n -> Proposals] :
                   row' = [x \in Ids |-> IF x[1] = s /\ x[2] - b \in 1..n
                                         THEN Proposed(p[x[2] - b]) ELSE row[x]]
        BY <1>7 DEF AppendCandidates
      <4>2. i[1] = s /\ i[2] - b \in 1..n
        BY <2>3, <4>1
      <4>3. i = <<s, b + (i[2] - b)>>
        BY <1>0, <4>2, BoundsAreNumbers DEF Ids, Jobs
      <4> QED
        BY <4>1, <4>2, <4>3
    <3>2. clip[i] = None /\ \A q \in Requests : i \notin Holds(job[q])
      BY <3>1 DEF Calm, Settled, Working
    <3>3. sched'[i] = None /\ UNCHANGED <<clip, posted, now>>
      BY <1>7, <3>1 DEF AppendCandidates, NoOrphans, files, history
    <3> QED
      BY <2>1, <3>1, <3>2, <3>3, CalmFresh
  <2> QED
    BY <2>2, <2>3
<1>8. ASSUME FinishAnalysis(r) PROVE Calm(i)'
  <2>1. job'[r] = Idle /\ OthersSame(r) /\ job[r].stage \in {"done", "failed"}
    BY <1>8, EndKeeps DEF FinishAnalysis, OthersSame
  <2>2. Same(i)
    BY <1>8 DEF FinishAnalysis, Same, files
  <2>3. i \notin Holds(Idle) /\ Idle.id # i
    BY HoldsIdle, HoldsItsOwn
  <2> QED
    BY <2>1, <2>2, <2>3, CalmElsewhere
<1> QED
  BY <1>1, <1>2, <1>5, <1>6, <1>7, <1>8 DEF AnalysisStep


\* Whether a candidate is being trimmed, when at most one request is about it.
LEMMA TrimmingHere ==
  ASSUME NEW i \in Ids, NEW r \in Requests, OthersSame(r),
         \A q \in Requests \ {r} : i \notin Holds(job[q])
  PROVE  /\ Trimming(i) <=> job[r].id = i /\ job[r].stage \in {"trim", "restore"}
         /\ Trimming(i)' <=> job'[r].id = i /\ job'[r].stage \in {"trim", "restore"}
<1>1. \A q \in Requests \ {r} : job[q].id # i /\ job'[q].id # i
  BY HoldsItsOwn DEF OthersSame
<1> QED
  BY <1>1 DEF Trimming

\* A rewrite of a candidate, or its scheduling, leaves it calm.
LEMMA CalmCandidate ==
  ASSUME Typed, NEW r \in Requests, CandidateStep(r), NEW i \in Ids, i \notin disturbed',
         Calm(i)
  PROVE  Calm(i)'
<1> USE TypedSplits
<1>0. job[r] \in Jobs /\ Fits(job[r])
  BY DEF JobsTyped, JobsFit
<1>1. ASSUME NEW k \in Ids, RewriteCandidate(r, k) PROVE Calm(i)'
  <2> DEFINE j == [Idle EXCEPT !.op = "rewrite", !.stage = "think", !.id = k]
  <2>1. Start(r, j) /\ j.id = k /\ j.rest = <<>> /\ j.op = "rewrite" /\ j.stage = "think"
    BY <1>1 DEF RewriteCandidate, Begin, Idle
  <2> HIDE DEF j
  <2>2. job[r] = Idle /\ job'[r] = j /\ OthersSame(r)
    BY <2>1, StartKeeps DEF OthersSame
  <2>3. Same(i) /\ row[k] # None
    BY <1>1 DEF RewriteCandidate, Same, tables, files
  <2>4. CASE i # k
    BY <2>1, <2>2, <2>3, <2>4, HoldsStarted, HoldsIdle, CalmElsewhere DEF Idle, Quiet
  <2>5. CASE i = k
    <3>1. i \notin Held
      BY <1>1, <2>5 DEF RewriteCandidate, Disturb
    <3>2. \A q \in Requests : i \notin Holds(job[q])
      BY <3>1, HeldBy
    <3>3. ~ Trimming(i) /\ ~ Trimming(i)'
      BY <2>1, <2>2, <3>2, TrimmingHere, HoldsItsOwn
    <3>4. Settled(i)'
      BY <2>3, <3>3 DEF Settled, Calm, Same, Shows
    <3>5. Working(i, job[r])'
      BY <2>1, <2>2, <2>3, <2>5 DEF Working, Same
    <3> QED
      BY <2>2, <3>2, <3>4, <3>5, CalmHere
  <2> QED
    BY <2>4, <2>5
<1>2. ASSUME NEW k \in Ids, NEW at \in 0..MaxTime, ScheduleCandidate(r, k, at) PROVE Calm(i)'
  <2> DEFINE j == [Idle EXCEPT !.op = "schedule", !.stage = "queued", !.id = k]
  <2>1. Start(r, j) /\ j.id = k /\ j.rest = <<>> /\ j.op = "schedule" /\ j.stage = "queued"
    BY <1>2 DEF ScheduleCandidate, Begin, Idle
  <2> HIDE DEF j
  <2>2. job[r] = Idle /\ job'[r] = j /\ OthersSame(r)
    BY <2>1, StartKeeps DEF OthersSame
  <2>3. row[k] # None /\ UNCHANGED <<row, clip, draft, posted, now>>
    BY <1>2 DEF ScheduleCandidate, files
  <2>4. CASE i # k
    <3>1. Same(i)
      BY <1>2, <2>3, <2>4 DEF ScheduleCandidate, Same, RestTyped
    <3> QED
      BY <2>1, <2>2, <2>4, <3>1, HoldsStarted, HoldsIdle, CalmElsewhere DEF Idle, Quiet
  <2>5. CASE i = k
    <3>1. i \notin Held
      BY <1>2, <2>5 DEF ScheduleCandidate, Disturb
    <3>2. \A q \in Requests : i \notin Holds(job[q])
      BY <3>1, HeldBy
    <3>3. ~ Trimming(i) /\ ~ Trimming(i)'
      BY <2>1, <2>2, <3>2, TrimmingHere, HoldsItsOwn
    <3>4. sched'[i] = [at |-> at, status |-> "pending"] /\ sched'[i] # None
      BY <1>2, <2>5, NoneIsNoValue DEF ScheduleCandidate, RestTyped, Post
    <3>5. Settled(i)'
      BY <2>3, <3>3, <3>4 DEF Settled, Calm, Shows
    <3>6. Working(i, job[r])'
      BY <2>1, <2>2, <2>3, <2>5, <3>4 DEF Working
    <3> QED
      BY <2>2, <3>2, <3>5, <3>6, CalmHere
  <2> QED
    BY <2>4, <2>5
<1> DEFINE k == job[r].id
<1>3. ASSUME FinishRewrite(r) PROVE Calm(i)'
  <2>1. job'[r] = Idle /\ OthersSame(r) /\ job[r].op = "rewrite" /\ k \in Ids
    BY <1>0, <1>3, EndKeeps DEF FinishRewrite, OthersSame, Fits
  <2>2. job[r].stage \notin {"trim", "restore"}
    BY <1>0, <2>1 DEF Fits
  <2>3. UNCHANGED <<sched, clip, draft, posted, now>>
    BY <1>3 DEF FinishRewrite, files, history
  <2>4. CASE i # k
    <3>1. Same(i)
      BY <1>3, <2>3, <2>4, UpdateElsewhere DEF FinishRewrite, Same
    <3> QED
      BY <2>1, <2>2, <3>1, HoldsIdle, HoldsItsOwn, CalmElsewhere
  <2>5. CASE i = k
    <3>1. \A q \in Requests \ {r} : i \notin Holds(job[q])
      BY <2>5, HoldsItsOwn, NobodyElse
    <3>2. ~ Trimming(i) /\ ~ Trimming(i)'
      BY <2>1, <2>2, <3>1, TrimmingHere, HoldsIdle, HoldsItsOwn
    <3>3. row[i] # None
      BY <2>5, HoldsItsOwn DEF Calm, Working
    <3>4. PICK text \in Texts : row' = Update(i, "text", text) \/ row' = row
      BY <1>3, <2>5, <3>3 DEF FinishRewrite, RestTyped, Row
    <3>5. /\ row'[i] # None /\ row'[i].times = row[i].times /\ row'[i].clip = row[i].clip
          /\ row'[i].status = row[i].status
      <4>1. Update(i, "text", text)[i] # None
        BY <3>3, UpdateKeepsRows
      <4>2. CASE row' = Update(i, "text", text)
        BY <3>3, <4>1, <4>2, UpdateField
      <4>3. CASE row' = row
        BY <3>3, <4>3
      <4> QED
        BY <3>4, <4>2, <4>3
    <3>6. Settled(i)'
      BY <2>3, <3>2, <3>3, <3>5 DEF Settled, Calm, Shows
    <3> QED
      BY <2>1, <3>1, <3>6, HoldsIdle, CalmHere
  <2> QED
    BY <2>4, <2>5
<1>4. ASSUME MarkScheduled(r) PROVE Calm(i)'
  <2>1. job'[r] = Idle /\ OthersSame(r) /\ job[r].stage = "queued" /\ k \in Ids
    BY <1>0, <1>4, EndKeeps DEF MarkScheduled, OthersSame, Fits, At
  <2>2. row' = Update(k, "status", "scheduled") /\ UNCHANGED <<sched, clip, draft, posted, now>>
    BY <1>4 DEF MarkScheduled, files, history
  <2>3. CASE i # k
    <3>1. Same(i)
      BY <2>2, <2>3, UpdateElsewhere DEF Same
    <3> QED
      BY <2>1, <3>1, HoldsIdle, HoldsItsOwn, CalmElsewhere
  <2>4. CASE i = k
    <3>1. \A q \in Requests \ {r} : i \notin Holds(job[q])
      BY <2>4, HoldsItsOwn, NobodyElse
    <3>2. ~ Trimming(i) /\ ~ Trimming(i)'
      BY <2>1, <3>1, TrimmingHere, HoldsIdle, HoldsItsOwn
    <3>3. row[i] # None
      BY <2>1, <2>4, HoldsItsOwn DEF Calm, Working
    <3>4. row'[i] # None /\ row'[i].times = row[i].times /\ row'[i].clip = row[i].clip
      BY <2>2, <2>4, <3>3, UpdateField, UpdateKeepsRows
    <3>5. Settled(i)'
      BY <2>2, <3>2, <3>3, <3>4 DEF Settled, Calm, Shows
    <3> QED
      BY <2>1, <3>1, <3>5, HoldsIdle, CalmHere
  <2> QED
    BY <2>3, <2>4
<1> QED
  BY <1>1, <1>2, <1>3, <1>4 DEF CandidateStep


\* What is left of a file that shows the old range shows the new one, if anything is left.
LEMMA TrimmedShows ==
  ASSUME NEW f \in Nat \X Nat, NEW old \in Ranges, NEW new \in Ranges, Shows(f, old),
         Trimmed(f, old, new) # Broken
  PROVE  Trimmed(f, old, new) # None /\ Shows(Trimmed(f, old, new), new)
<1>0. /\ old[1] \in Nat /\ old[2] \in Nat /\ new[1] \in Nat /\ new[2] \in Nat
      /\ f[1] \in Nat /\ f[2] \in Nat
  BY RangesAreTimes
<1>1. f # None /\ f # Broken /\ f[1] = old[1]
  BY NoneIsNoValue DEF Shows
<1>2. f[1] + (new[1] - old[1]) = new[1] /\ new[1] + (new[2] - new[1]) = new[2]
  BY <1>0, <1>1
<1>3. Trimmed(f, old, new) = <<new[1], IF new[2] < f[2] THEN new[2] ELSE f[2]>>
  BY <1>1, <1>2 DEF Trimmed
<1> DEFINE t == Trimmed(f, old, new)
<1>4. t \in Nat \X Nat /\ t[1] = new[1] /\ t[2] <= new[2]
  BY <1>0, <1>3
<1> HIDE DEF t
<1>5. t # None /\ Shows(t, new)
  BY <1>4, NoneIsNoValue DEF Shows
<1> QED
  BY <1>5 DEF t

\* A step of a clip, a trim or a post that fails while its candidate has no changed data.
LEMMA CalmOnError ==
  ASSUME Typed, NEW r \in Requests, OnError(r), NEW i \in Ids, Calm(i), Same(i),
         job[r].stage \in {"cut", "draft", "record", "prepare"},
         job[r].op = "trim" => job[r].id # i \/ clip[i] = None
  PROVE  Calm(i)'
<1> USE TypedSplits
<1>0. job[r] \in Jobs /\ Fits(job[r]) /\ job[r].id \in Ids
  BY DEF JobsTyped, JobsFit, Fits
<1>1. OthersSame(r)
  BY OnErrorKeeps DEF OthersSame
<1>2. \/ job[r].op = "trim" /\ job'[r] = [job[r] EXCEPT !.stage = "restore"]
      \/ job[r].op = "tick" /\ job'[r] = [job[r] EXCEPT !.stage = "next", !.id = None]
      \/ job[r].op \in {"clip", "post"} /\ job'[r] = Idle
  BY OnErrorType DEF Becomes
<1>3. CASE job[r].op = "trim"
  <2>1. /\ job'[r].stage = "restore" /\ job'[r].op = "trim" /\ job'[r].id = job[r].id
        /\ job'[r].old = job[r].old /\ job'[r].rest = job[r].rest
    BY <1>0, <1>2, <1>3 DEF Jobs
  <2>2. Holds(job'[r]) = Holds(job[r])
    BY <2>1, HoldsSame
  <2>3. CASE job[r].id # i
    BY <1>1, <1>3, <2>1, <2>2, <2>3, CalmElsewhere
  <2>4. CASE job[r].id = i
    <3>1. i \in Holds(job[r]) /\ clip[i] = None
      BY <1>3, <2>4, HoldsItsOwn
    <3>2. \A q \in Requests \ {r} : i \notin Holds(job[q])
      BY <3>1, NobodyElse
    <3>3. Settled(i)'
      BY <3>1 DEF Settled, Calm, Same, Shows
    <3>4. row[i] # None
      BY <3>1 DEF Calm, Working
    <3>5. Working(i, job[r])'
      BY <2>1, <3>1, <3>4 DEF Working, Same, Shows
    <3> QED
      BY <1>1, <3>2, <3>3, <3>5, CalmHere
  <2> QED
    BY <2>3, <2>4
<1>4. CASE job[r].op = "tick"
  <2>1. /\ job'[r].stage = "next" /\ job'[r].op = "tick" /\ job'[r].id = None
        /\ job'[r].rest = job[r].rest
    BY <1>0, <1>2, <1>4 DEF Jobs
  <2>2. i \in Holds(job'[r]) => i \in Holds(job[r])
    BY <2>1, NoneIsNoValue DEF Holds
  <2> QED
    BY <1>1, <1>4, <2>1, <2>2, CalmElsewhere DEF Quiet
<1>5. CASE job[r].op \in {"clip", "post"}
  <2>1. job'[r] = Idle
    BY <1>2, <1>5
  <2> QED
    BY <1>1, <2>1, HoldsIdle, HoldsItsOwn, CalmElsewhere
<1> QED
  BY <1>2, <1>3, <1>4, <1>5

\* A clip or a trim that starts on a candidate nobody works on leaves it calm.
LEMMA CalmClipStarts ==
  ASSUME Typed, NEW r \in Requests, NEW i \in Ids, i \notin disturbed', Calm(i),
         \/ \E k \in Ids : ClipCandidate(r, k)
         \/ \E k \in Ids : \E times \in Ranges : TrimCandidate(r, k, times)
  PROVE  Calm(i)'
<1> USE TypedSplits
<1>1. ASSUME NEW k \in Ids, ClipCandidate(r, k) PROVE Calm(i)'
  <2> DEFINE j == [Idle EXCEPT !.op = "clip", !.stage = "cut", !.id = k, !.seen = row[k]]
  <2>1. /\ Start(r, j) /\ j.id = k /\ j.rest = <<>> /\ j.op = "clip" /\ j.stage = "cut"
        /\ j.seen = row[k]
    BY <1>1 DEF ClipCandidate, Begin, Idle
  <2> HIDE DEF j
  <2>2. job[r] = Idle /\ job'[r] = j /\ OthersSame(r)
    BY <2>1, StartKeeps DEF OthersSame
  <2>3. Same(i) /\ row[k] # None
    BY <1>1 DEF ClipCandidate, Readable, Same, tables, files
  <2>4. CASE i # k
    BY <2>1, <2>2, <2>3, <2>4, HoldsStarted, HoldsIdle, CalmElsewhere DEF Idle, Quiet
  <2>5. CASE i = k
    <3>1. i \notin Held
      BY <1>1, <2>5 DEF ClipCandidate, Disturb
    <3>2. \A q \in Requests : i \notin Holds(job[q])
      BY <3>1, HeldBy
    <3>3. ~ Trimming(i) /\ ~ Trimming(i)'
      BY <2>1, <2>2, <3>2, TrimmingHere, HoldsItsOwn
    <3>4. Settled(i)'
      BY <2>3, <3>3 DEF Settled, Calm, Same, Shows
    <3>5. Working(i, job[r])'
      BY <2>1, <2>2, <2>3, <2>5 DEF Working, Same
    <3> QED
      BY <2>2, <3>2, <3>4, <3>5, CalmHere
  <2> QED
    BY <2>4, <2>5
<1>2. ASSUME NEW k \in Ids, NEW times \in Ranges, TrimCandidate(r, k, times) PROVE Calm(i)'
  <2> DEFINE j == [Idle EXCEPT !.op = "trim", !.stage = "trim", !.id = k,
                       !.seen = row'[k], !.old = row[k].times]
  <2>1. row[k] # None /\ row' = Update(k, "times", times)
        /\ UNCHANGED <<sched, clip, draft, posted, now>>
    BY <1>2 DEF TrimCandidate, files
  <2>2. CASE i # k
    <3>1. Same(i)
      BY <2>1, <2>2, UpdateElsewhere DEF Same
    <3>2. CASE UNCHANGED job
      BY <3>1, <3>2, CalmSame
    <3>3. CASE Start(r, j)
      <4>1. j.id = k /\ j.rest = <<>> /\ j.op = "trim" /\ j.stage = "trim"
        BY DEF Idle
      <4> HIDE DEF j
      <4>2. job[r] = Idle /\ job'[r] = j /\ OthersSame(r)
        BY <3>3, StartKeeps DEF OthersSame
      <4> QED
        BY <2>2, <3>1, <4>1, <4>2, HoldsStarted, HoldsIdle, CalmElsewhere DEF Idle
    <3> QED
      BY <1>2, <3>2, <3>3 DEF TrimCandidate, Begin
  <2>3. CASE i = k
    <3>1. Start(r, j) /\ i \notin Held
      BY <1>2, <2>3 DEF TrimCandidate, Begin, Disturb
    <3>2. /\ j.id = i /\ j.rest = <<>> /\ j.op = "trim" /\ j.stage = "trim"
          /\ j.seen = row'[i] /\ j.old = row[i].times
      BY <2>3 DEF Idle
    <3> HIDE DEF j
    <3>3. job[r] = Idle /\ job'[r] = j /\ OthersSame(r)
      BY <3>1, StartKeeps DEF OthersSame
    <3>4. \A q \in Requests : i \notin Holds(job[q])
      BY <3>1, HeldBy
    <3>5. ~ Trimming(i) /\ Trimming(i)'
      BY <3>2, <3>3, <3>4, TrimmingHere, HoldsItsOwn
    <3>6. /\ row'[i] # None /\ row'[i].text = row[i].text /\ row'[i].clip = row[i].clip
          /\ row'[i].status = row[i].status
      <4>1. Update(i, "times", times)[i] # None
        BY <2>1, <2>3, UpdateKeepsRows
      <4>2. row' = Update(i, "times", times) /\ row[i] # None
        BY <2>1, <2>3
      <4> QED
        BY <4>1, <4>2, UpdateField
    <3>7. Settled(i)'
      BY <2>1, <2>3, <3>5, <3>6 DEF Settled, Calm
    <3>8. Shows(clip[i], row[i].times)
      BY <2>1, <2>3, <3>5 DEF Settled, Calm
    <3>9. Working(i, job[r])'
      BY <2>1, <3>2, <3>3, <3>6, <3>8 DEF Working, Shows
    <3> QED
      BY <3>3, <3>4, <3>7, <3>9, CalmHere
  <2> QED
    BY <2>2, <2>3
<1> QED
  BY <1>1, <1>2


\* A request that goes on to another stage works on what it worked on.
LEMMA GotoHolds ==
  ASSUME JobsTyped, NEW r \in Requests, NEW stage, Goto(r, stage)
  PROVE  Holds(job'[r]) = Holds(job[r]) /\ OthersSame(r)
<1>1. job'[r].id = job[r].id /\ job'[r].rest = job[r].rest /\ OthersSame(r)
  BY GotoKeeps DEF OthersSame
<1> QED
  BY <1>1 DEF Holds

\* A trim of the file, refused, failed or done, leaves the candidate calm.
LEMMA CalmTrimFile ==
  ASSUME Typed, NEW r \in Requests, TrimFile(r), NEW i \in Ids, i \notin disturbed', Calm(i)
  PROVE  Calm(i)'
<1> USE TypedSplits
<1> DEFINE k == job[r].id  new == job[r].seen.times  old == job[r].old
<1>0. /\ job[r] \in Jobs /\ job[r].stage = "trim" /\ job[r].op = "trim" /\ k \in Ids
      /\ job[r].seen \in Row /\ new \in Ranges /\ old \in Ranges
  BY DEF TrimFile, At, JobsTyped, JobsFit, Fits, Row
<1>1. PICK stage \in {"cut", "restore", "draft"} :
        /\ Goto(r, stage)
        /\ \/ stage = "cut" /\ clip[k] = None /\ UNCHANGED clip
           \/ stage = "restore" /\ clip[k] # None /\ UNCHANGED clip
           \/ /\ stage = "draft" /\ clip[k] # None
              /\ clip' = [clip EXCEPT ![k] = Trimmed(@, old, new)]
  BY DEF TrimFile
<1>2. /\ job'[r].stage = stage /\ job'[r].op = "trim" /\ job'[r].id = k /\ OthersSame(r)
      /\ job'[r].seen = job[r].seen /\ job'[r].old = old
      /\ Holds(job'[r]) = Holds(job[r])
  BY <1>0, <1>1, GotoKeeps, GotoHolds
<1>3. UNCHANGED <<row, sched, draft, posted, now>>
  BY DEF TrimFile, tables
<1>4. CASE i # k
  <2>1. Same(i)
    BY <1>1, <1>3, <1>4 DEF Same, RestTyped
  <2> QED
    BY <1>0, <1>2, <1>4, <2>1, CalmElsewhere
<1>5. CASE i = k
  <2>1. \A q \in Requests \ {r} : i \notin Holds(job[q])
    BY <1>5, HoldsItsOwn, NobodyElse
  <2>2. /\ row[i] # None /\ job[r].seen.text = row[i].text /\ new = row[i].times
        /\ Shows(clip[i], old)
    BY <1>0, <1>5, HoldsItsOwn DEF Calm, Working
  <2>3. Trimming(i)' <=> stage = "restore"
    BY <1>1, <1>2, <1>5, <2>1, TrimmingHere
  <2>4. CASE stage = "cut"
    <3>1. clip[i] = None /\ UNCHANGED clip
      BY <1>1, <1>5, <2>4
    <3>2. Settled(i)'
      BY <1>3, <2>2, <3>1 DEF Settled, Calm, Shows
    <3>3. Working(i, job[r])'
      BY <1>2, <1>3, <2>2, <2>4, <3>1 DEF Working
    <3> QED
      BY <1>2, <2>1, <3>2, <3>3, CalmHere
  <2>5. CASE stage = "restore"
    <3>1. UNCHANGED clip
      BY <1>1, <2>5
    <3>2. Settled(i)'
      BY <1>3, <2>2, <2>3, <2>5, <3>1 DEF Settled, Calm
    <3>3. Working(i, job[r])'
      BY <1>2, <1>3, <2>2, <2>5, <3>1 DEF Working, Shows
    <3> QED
      BY <1>2, <2>1, <3>2, <3>3, CalmHere
  <2>6. CASE stage = "draft"
    <3>1. clip[i] # None /\ clip' = [clip EXCEPT ![i] = Trimmed(clip[i], old, new)]
      BY <1>1, <1>5, <2>6
    <3>2. clip'[i] = Trimmed(clip[i], old, new)
      BY <3>1 DEF RestTyped
    <3>3. clip'[i] # Broken
      BY <1>5 DEF TrimFile
    <3>4. clip[i] \in Nat \X Nat
      BY <2>2, <3>1 DEF Shows, RestTyped, Footage
    <3>5. clip'[i] # None /\ Shows(clip'[i], new)
      BY <1>0, <2>2, <3>2, <3>3, <3>4, TrimmedShows
    <3>6. Settled(i)'
      BY <1>3, <2>2, <3>5 DEF Settled, Calm, Shows
    <3>7. Working(i, job[r])'
      BY <1>2, <1>3, <2>2, <2>6, <3>5 DEF Working
    <3> QED
      BY <1>2, <2>1, <3>6, <3>7, CalmHere
  <2> QED
    BY <2>4, <2>5, <2>6
<1> QED
  BY <1>4, <1>5

\* A cut that is done, or fails before it has written, leaves the candidate calm.
LEMMA CalmCutClip ==
  ASSUME Typed, NEW r \in Requests, CutClip(r), NEW i \in Ids, i \notin disturbed', Calm(i)
  PROVE  Calm(i)'
<1> USE TypedSplits
<1> DEFINE k == job[r].id  times == job[r].seen.times
<1>0. /\ job[r] \in Jobs /\ job[r].stage = "cut" /\ k \in Ids
      /\ job[r].seen \in Row /\ times \in Nat \X Nat
  BY RangesAreTimes DEF CutClip, At, JobsTyped, JobsFit, Fits, Row
<1>1. UNCHANGED <<row, sched, draft, posted, now>>
  BY DEF CutClip, tables
<1>2. i = k => row[i] # None /\ job[r].seen.text = row[i].text /\ times = row[i].times
  BY <1>0, HoldsItsOwn DEF Calm, Working
<1>3. ASSUME OnError(r), clip'[i] = clip[i] PROVE Calm(i)'
  <2>1. job[r].op = "trim" => k # i \/ clip[i] = None
    BY <1>0, HoldsItsOwn DEF Calm, Working
  <2> QED
    BY <1>0, <1>1, <1>3, <2>1, CalmOnError DEF Same
<1>4. ASSUME clip' = [clip EXCEPT ![k] = times], Goto(r, "draft") PROVE Calm(i)'
  <2>1. /\ job'[r].stage = "draft" /\ job'[r].op = job[r].op /\ job'[r].id = k /\ OthersSame(r)
        /\ job'[r].seen = job[r].seen /\ Holds(job'[r]) = Holds(job[r])
    BY <1>4, GotoKeeps, GotoHolds
  <2>2. CASE i # k
    <3>1. Same(i)
      BY <1>1, <1>4, <2>2 DEF Same, RestTyped
    <3> QED
      BY <2>1, <2>2, <3>1, CalmElsewhere
  <2>3. CASE i = k
    <3>1. \A q \in Requests \ {r} : i \notin Holds(job[q])
      BY <2>3, HoldsItsOwn, NobodyElse
    <3>2. clip'[i] = times
      BY <1>4, <2>3 DEF RestTyped
    <3>3. clip'[i] # None /\ Shows(clip'[i], times)
      <4>1. \A t \in Nat \X Nat : t # None /\ t # Broken /\ t[2] <= t[2]
        BY NoneIsNoValue
      <4> QED
        BY <1>0, <3>2, <4>1 DEF Shows
    <3>4. Settled(i)'
      BY <1>1, <1>2, <2>3, <3>3 DEF Settled, Calm, Shows
    <3>5. job[r].op = "tick" => sched[i] # None /\ sched[i].at <= now
      BY <2>3, HoldsItsOwn DEF Calm, Working
    <3>6. Working(i, job[r])'
      BY <1>1, <1>2, <2>1, <2>3, <3>3, <3>5 DEF Working
    <3> QED
      BY <2>1, <3>1, <3>4, <3>6, CalmHere
  <2> QED
    BY <2>2, <2>3
<1>5. CASE OnError(r) /\ clip' = [clip EXCEPT ![k] = Broken] /\ disturbed' = disturbed \cup {k}
  BY <1>3, <1>5 DEF RestTyped
<1> QED
  BY <1>3, <1>4, <1>5 DEF CutClip

\* A draft that is written carries the text of the row.
LEMMA CalmWriteDraft ==
  ASSUME Typed, NEW r \in Requests, WriteDraft(r), NEW i \in Ids, i \notin disturbed', Calm(i)
  PROVE  Calm(i)'
<1> USE TypedSplits
<1> DEFINE k == job[r].id
<1>0. job[r] \in Jobs /\ job[r].stage = "draft" /\ k \in Ids /\ job[r].seen \in Row
  BY DEF WriteDraft, At, JobsTyped, JobsFit, Fits
<1>1. UNCHANGED <<row, sched, clip, posted, now>>
  BY DEF WriteDraft, tables
<1>2. i = k => row[i] # None /\ job[r].seen.text = row[i].text /\ clip[i] # None
  BY <1>0, HoldsItsOwn DEF Calm, Working
<1>3. ASSUME OnError(r), UNCHANGED draft, job[r].op = "trim" => k # i PROVE Calm(i)'
  BY <1>0, <1>1, <1>3, CalmOnError DEF Same
<1>4. ASSUME draft' = [draft EXCEPT ![k] = job[r].seen.text], Goto(r, AfterDraft(job[r]))
      PROVE  Calm(i)'
  <2>1. /\ job'[r].stage \in {"record", "prepare"} /\ job'[r].op = job[r].op /\ job'[r].id = k
        /\ OthersSame(r) /\ job'[r].seen = job[r].seen /\ Holds(job'[r]) = Holds(job[r])
    BY <1>4, GotoKeeps, GotoHolds DEF AfterDraft
  <2>2. CASE i # k
    <3>1. Same(i)
      BY <1>1, <1>4, <2>2 DEF Same, RestTyped
    <3> QED
      BY <1>0, <2>1, <2>2, <3>1, CalmElsewhere
  <2>3. CASE i = k
    <3>1. \A q \in Requests \ {r} : i \notin Holds(job[q])
      BY <2>3, HoldsItsOwn, NobodyElse
    <3>2. draft'[i] = row[i].text
      BY <1>2, <1>4, <2>3 DEF RestTyped
    <3>3. ~ Trimming(i) /\ ~ Trimming(i)'
      BY <1>0, <2>1, <3>1, TrimmingHere
    <3>4. Settled(i)'
      BY <1>1, <3>3 DEF Settled, Calm, Shows
    <3>5. job[r].op = "tick" => sched[i] # None /\ sched[i].at <= now
      BY <2>3, HoldsItsOwn DEF Calm, Working
    <3>6. Working(i, job[r])'
      BY <1>1, <1>2, <2>1, <2>3, <3>2, <3>5 DEF Working
    <3> QED
      BY <2>1, <3>1, <3>4, <3>6, CalmHere
  <2> QED
    BY <2>2, <2>3
<1>5. CASE /\ OnError(r) /\ UNCHANGED draft
           /\ disturbed' = IF job[r].op = "trim" THEN disturbed \cup {k} ELSE disturbed
  BY <1>3, <1>5
<1> QED
  BY <1>4, <1>5 DEF WriteDraft

\* A clip that is recorded shows the range of its row.
LEMMA CalmRecordClip ==
  ASSUME Typed, NEW r \in Requests, RecordClip(r), NEW i \in Ids, i \notin disturbed', Calm(i)
  PROVE  Calm(i)'
<1> USE TypedSplits
<1> DEFINE k == job[r].id
<1>0. job[r] \in Jobs /\ job[r].stage = "record" /\ k \in Ids /\ job[r].seen \in Row
  BY DEF RecordClip, At, JobsTyped, JobsFit, Fits
<1>1. UNCHANGED <<sched, clip, draft, posted, now>>
  BY DEF RecordClip, files
<1>2. CASE i # k
  <2>1. Same(i)
    BY <1>1, <1>2 DEF RecordClip, Same, RestTyped
  <2>2. CASE Goto(r, "prepare")
    <3>1. job'[r].op = job[r].op /\ job'[r].id = k /\ Holds(job'[r]) = Holds(job[r])
          /\ OthersSame(r)
      BY <2>2, GotoKeeps, GotoHolds
    <3> QED
      BY <1>2, <2>1, <3>1, CalmElsewhere
  <2>3. CASE End(r)
    <3>1. job'[r] = Idle /\ OthersSame(r)
      BY <2>3, EndKeeps DEF OthersSame
    <3> QED
      BY <1>2, <2>1, <3>1, HoldsIdle, HoldsItsOwn, CalmElsewhere
  <2>4. CASE OnError(r)
    BY <1>0, <1>2, <2>1, <2>4, CalmOnError
  <2> QED
    BY <2>2, <2>3, <2>4 DEF RecordClip
<1>3. CASE i = k
  <2>1. /\ row' = IF row[i] = None THEN row
                  ELSE [row EXCEPT ![i] = [row[i] EXCEPT !.clip = TRUE, !.status = "clipped"]]
        /\ IF job[r].op \in {"post", "tick"} THEN Goto(r, "prepare") ELSE End(r)
    BY <1>3 DEF RecordClip
  <2>2. \A q \in Requests \ {r} : i \notin Holds(job[q])
    BY <1>3, HoldsItsOwn, NobodyElse
  <2>3. /\ row[i] # None /\ job[r].seen.text = row[i].text /\ clip[i] # None
        /\ draft[i] = row[i].text
        /\ job[r].op = "tick" => sched[i] # None /\ sched[i].at <= now
    BY <1>0, <1>3, HoldsItsOwn DEF Calm, Working
  <2>4. /\ row'[i] # None /\ row'[i].text = row[i].text /\ row'[i].times = row[i].times
        /\ row'[i].status = "clipped"
    <3>1. row[i] \in Row
      BY <2>3 DEF RestTyped
    <3>2. row'[i] = [row[i] EXCEPT !.clip = TRUE, !.status = "clipped"]
      BY <2>1, <2>3 DEF RestTyped
    <3>3. row'[i] \in Row
      BY <3>1, <3>2 DEF Row
    <3> QED
      BY <3>1, <3>2, <3>3, NoneIsNoValue DEF Row
  <2>5. CASE Goto(r, "prepare")
    <3>1. /\ job'[r].stage = "prepare" /\ job'[r].op = job[r].op /\ job'[r].id = i
          /\ job'[r].seen = job[r].seen /\ OthersSame(r)
      BY <1>3, <2>5, GotoKeeps DEF OthersSame
    <3>2. ~ Trimming(i) /\ ~ Trimming(i)'
      BY <1>0, <2>2, <3>1, TrimmingHere
    <3>3. Settled(i)'
      BY <1>1, <2>3, <2>4, <3>2 DEF Settled, Calm, Shows
    <3>4. Working(i, job[r])'
      BY <1>1, <2>3, <2>4, <3>1 DEF Working
    <3> QED
      BY <2>2, <3>1, <3>3, <3>4, CalmHere
  <2>6. CASE End(r)
    <3>1. job'[r] = Idle /\ OthersSame(r) /\ i \notin Holds(Idle)
      BY <2>6, EndKeeps, HoldsIdle DEF OthersSame
    <3>2. ~ Trimming(i) /\ ~ Trimming(i)'
      BY <1>0, <2>2, <3>1, TrimmingHere, HoldsItsOwn
    <3>3. Settled(i)'
      BY <1>1, <2>3, <2>4, <3>2 DEF Settled, Calm, Shows
    <3> QED
      BY <2>2, <3>1, <3>3, CalmHere
  <2> QED
    BY <2>1, <2>5, <2>6
<1> QED
  BY <1>2, <1>3

\* The times that are put back are those the clip shows.
LEMMA CalmRestoreTimes ==
  ASSUME Typed, NEW r \in Requests, RestoreTimes(r), NEW i \in Ids, i \notin disturbed', Calm(i)
  PROVE  Calm(i)'
<1> USE TypedSplits
<1> DEFINE k == job[r].id
<1>0. job[r] \in Jobs /\ job[r].stage = "restore" /\ k \in Ids /\ job[r].old \in Ranges
  BY DEF RestoreTimes, At, JobsTyped, JobsFit, Fits
<1>1. UNCHANGED <<sched, clip, draft, posted, now>> /\ job'[r] = Idle /\ OthersSame(r)
  BY EndKeeps DEF RestoreTimes, files, OthersSame
<1>2. row' = Update(k, "times", job[r].old) \/ (row' = row /\ i # k)
  BY DEF RestoreTimes
<1>3. \A q \in Requests \ {r} : i \in Holds(job[q]) => i # k
  BY NobodyElse, HoldsItsOwn
<1>4. CASE i # k
  <2>1. Same(i)
    BY <1>1, <1>2, <1>4, UpdateElsewhere DEF Same
  <2> QED
    BY <1>1, <1>4, <2>1, HoldsIdle, HoldsItsOwn, CalmElsewhere
<1>5. CASE i = k
  <2>1. \A q \in Requests \ {r} : i \notin Holds(job[q])
    BY <1>3, <1>5
  <2>2. row[i] # None /\ Shows(clip[i], job[r].old)
    BY <1>0, <1>5, HoldsItsOwn DEF Calm, Working
  <2>3. /\ row'[i] # None /\ row'[i].times = job[r].old /\ row'[i].clip = row[i].clip
        /\ row'[i].status = row[i].status
    <3>1. row' = Update(i, "times", job[r].old)
      BY <1>2, <1>5
    <3>2. Update(i, "times", job[r].old)[i] # None
      BY <1>0, <2>2, UpdateKeepsRows
    <3> QED
      BY <2>2, <3>1, <3>2, UpdateField
  <2>4. Settled(i)'
    BY <1>1, <2>2, <2>3 DEF Settled, Calm, Shows
  <2> QED
    BY <1>1, <2>1, <2>4, HoldsIdle, CalmHere
<1> QED
  BY <1>4, <1>5

\* Every step of a clip or a trim leaves an undisturbed candidate calm.
LEMMA CalmClip ==
  ASSUME Typed, NEW r \in Requests, ClipStep(r), NEW i \in Ids, i \notin disturbed', Calm(i)
  PROVE  Calm(i)'
BY CalmClipStarts, CalmTrimFile, CalmCutClip, CalmWriteDraft, CalmRecordClip, CalmRestoreTimes
DEF ClipStep


\* A post that is asked for, or found due, starts from the row it has read.
LEMMA CalmPostStarts ==
  ASSUME Typed, NoOrphans, NEW r \in Requests, NEW i \in Ids, i \notin disturbed', Calm(i),
         \/ \E k \in Ids : \E text \in Texts \cup {None} : PostNow(r, k, text)
         \/ Tick(r)
  PROVE  Calm(i)'
<1> USE TypedSplits
<1>1. ASSUME NEW k \in Ids, NEW text \in Texts \cup {None}, PostNow(r, k, text) PROVE Calm(i)'
  <2>1. /\ JobsTyped' /\ row' \in [Ids -> Row \cup {None}] /\ row'[k] \in Row /\ job[r] = Idle
        /\ \E j \in Jobs : /\ Becomes(r, j) /\ j.op = "post" /\ j.id = k /\ j.seen = row'[k]
                           /\ j.rest = <<>> /\ j.stage \in {"cut", "draft"}
                           /\ j.stage = "draft" => row'[k].clip
    BY <1>1, PostNowJob
  <2>2. PICK j \in Jobs :
          /\ Becomes(r, j) /\ j.op = "post" /\ j.id = k /\ j.seen = row'[k] /\ j.rest = <<>>
          /\ j.stage \in {"cut", "draft"} /\ (j.stage = "draft" => row'[k].clip)
    BY <2>1
  <2>3. job[r] = Idle /\ job'[r] = j /\ OthersSame(r)
    BY <2>1, <2>2 DEF Becomes, OthersSame
  <2>4. /\ row[k] # None /\ row' = IF text = None THEN row ELSE Update(k, "text", text)
        /\ UNCHANGED <<sched, clip, draft, posted, now>>
    BY <1>1 DEF PostNow, Readable, files
  <2>5. CASE i # k
    <3>1. Same(i)
      BY <2>4, <2>5, UpdateElsewhere DEF Same
    <3> QED
      BY <2>2, <2>3, <2>5, <3>1, HoldsStarted, HoldsIdle, CalmElsewhere DEF Idle
  <2>6. CASE i = k
    <3>1. i \notin Held
      BY <1>1, <2>6 DEF PostNow, Disturb
    <3>2. \A q \in Requests : i \notin Holds(job[q])
      BY <3>1, HeldBy
    <3>3. ~ Trimming(i) /\ ~ Trimming(i)'
      BY <2>2, <2>3, <3>2, TrimmingHere, HoldsItsOwn
    <3>4. /\ row'[i] # None /\ row'[i].times = row[i].times /\ row'[i].clip = row[i].clip
          /\ row'[i].status = row[i].status
      <4>1. row'[i] # None
        BY <2>1, <2>6, NoneIsNoValue
      <4>2. CASE row' = row
        BY <4>1, <4>2
      <4>3. CASE row' = Update(i, "text", text)
        BY <2>4, <2>6, <4>1, <4>3, UpdateField
      <4> QED
        BY <2>4, <2>6, <4>2, <4>3
    <3>5. Settled(i)'
      BY <2>4, <2>6, <3>3, <3>4 DEF Settled, Calm, Shows
    <3>6. row[i].clip => clip[i] # None
      BY <2>4, <2>6 DEF Settled, Calm
    <3>7. Working(i, job[r])'
      BY <2>2, <2>3, <2>4, <2>6, <3>4, <3>6 DEF Working
    <3> QED
      BY <2>3, <3>2, <3>5, <3>7, CalmHere
  <2> QED
    BY <2>5, <2>6
<1>2. ASSUME Tick(r) PROVE Calm(i)'
  <2> DEFINE due == {k \in Ids : Due(k)}
  <2>1. PICK q \in [1..Cardinality(due) -> due] :
          Start(r, [Idle EXCEPT !.op = "tick", !.stage = "next", !.rest = q])
    BY <1>2 DEF Tick
  <2> DEFINE j == [Idle EXCEPT !.op = "tick", !.stage = "next", !.rest = q]
  <2>2. Start(r, j) /\ j.id = None /\ j.rest = q /\ j.op = "tick" /\ j.stage = "next"
    BY <2>1 DEF Idle
  <2> HIDE DEF j
  <2>3. job[r] = Idle /\ job'[r] = j /\ OthersSame(r)
    BY <2>2, StartKeeps DEF OthersSame
  <2>4. Same(i)
    BY <1>2 DEF Tick, Same, tables, files
  <2>5. i \in Holds(j) => i \in due
    BY <2>1, <2>2, NoneIsNoValue DEF Holds
  <2>6. CASE i \notin due
    BY <2>2, <2>3, <2>4, <2>5, <2>6, HoldsIdle, HoldsItsOwn, CalmElsewhere DEF Quiet
  <2>7. CASE i \in due
    <3>1. i \notin Held
      BY <1>2, <2>7 DEF Tick
    <3>2. \A p \in Requests : i \notin Holds(job[p])
      BY <3>1, HeldBy
    <3>3. ~ Trimming(i) /\ ~ Trimming(i)'
      BY <2>2, <2>3, <3>2, TrimmingHere, HoldsItsOwn
    <3>4. Settled(i)'
      BY <2>4, <3>3 DEF Settled, Calm, Same, Shows
    <3>5. sched[i] # None /\ row[i] # None /\ sched[i].at <= now
      BY <2>7 DEF Due, NoOrphans
    <3>6. Working(i, job[r])'
      BY <2>2, <2>3, <2>4, <3>5 DEF Working, Same
    <3> QED
      BY <2>3, <3>2, <3>4, <3>6, CalmHere
  <2> QED
    BY <2>6, <2>7
<1> QED
  BY <1>1, <1>2

\* The scheduler reads the next candidate of its list when its turn comes.
LEMMA CalmNextDue ==
  ASSUME Typed, NEW r \in Requests, NextDue(r), NEW i \in Ids, Calm(i)
  PROVE  Calm(i)'
<1> USE TypedSplits
<1>0. /\ job[r] \in Jobs /\ job[r].op = "tick" /\ job[r].stage = "next"
      /\ job[r].rest \in Seq(Ids)
  BY DEF NextDue, At, JobsTyped, Jobs
<1>1. Same(i)
  BY DEF NextDue, Same, tables, files, history
<1>2. CASE Becomes(r, Idle)
  <2>1. job'[r] = Idle /\ OthersSame(r)
    BY <1>2 DEF Becomes, OthersSame
  <2> QED
    BY <1>0, <1>1, <2>1, HoldsIdle, HoldsItsOwn, CalmElsewhere
<1>3. ASSUME NEW j \in Jobs, job[r].rest # <<>>, Becomes(r, j), j.op = "tick",
             j.rest = Tail(job[r].rest),
             \/ /\ j.id = Head(job[r].rest) /\ j.stage \in {"cut", "draft"}
                /\ j.stage = "draft" => row[j.id].clip
                /\ j.seen = row[j.id] /\ row[j.id] # None
             \/ j.stage = "next" /\ j.id = job[r].id
      PROVE  Calm(i)'
  <2>1. job'[r] = j /\ OthersSame(r)
    BY <1>3 DEF Becomes, OthersSame
  <2>2. \A n \in DOMAIN j.rest : \E m \in DOMAIN job[r].rest : j.rest[n] = job[r].rest[m]
    <3>1. ASSUME NEW n \in DOMAIN j.rest
          PROVE  n + 1 \in DOMAIN job[r].rest /\ j.rest[n] = job[r].rest[n + 1]
      BY <1>0, <1>3, <3>1
    <3> QED
      BY <3>1
  <2>3. \E m \in DOMAIN job[r].rest : Head(job[r].rest) = job[r].rest[m]
    <3>1. 1 \in DOMAIN job[r].rest /\ Head(job[r].rest) = job[r].rest[1]
      BY <1>0, <1>3
    <3> QED
      BY <3>1
  <2>4. i \in Holds(j) => i \in Holds(job[r])
    BY <1>3, <2>2, <2>3 DEF Holds
  <2>5. CASE j.id # i \/ j.stage = "next"
    BY <1>0, <1>1, <1>3, <2>1, <2>4, <2>5, CalmElsewhere DEF Quiet
  <2>6. CASE j.id = i /\ j.stage # "next"
    <3>1. i \in Holds(job[r])
      BY <2>4, <2>6, HoldsItsOwn
    <3>2. \A q \in Requests \ {r} : i \notin Holds(job[q])
      BY <3>1, NobodyElse
    <3>3. ~ Trimming(i) /\ ~ Trimming(i)'
      BY <1>0, <1>3, <2>1, <2>6, <3>2, TrimmingHere
    <3>4. Settled(i)'
      BY <1>1, <3>3 DEF Settled, Calm, Same, Shows
    <3>5. row[i] # None /\ sched[i] # None /\ sched[i].at <= now
      BY <1>0, <3>1 DEF Calm, Working
    <3>6. row[i].clip => clip[i] # None
      BY <3>5 DEF Settled, Calm
    <3>7. Working(i, job[r])'
      BY <1>1, <1>3, <2>1, <2>6, <3>5, <3>6 DEF Working, Same
    <3> QED
      BY <2>1, <3>2, <3>4, <3>7, CalmHere
  <2> QED
    BY <2>5, <2>6
<1> QED
  BY <1>2, <1>3, NextDueJob

\* A post that is handed to the user carries the time at which it is handed.
LEMMA CalmPreparePost ==
  ASSUME Typed, NEW r \in Requests, PreparePost(r), NEW i \in Ids, Calm(i)
  PROVE  Calm(i)'
<1> USE TypedSplits
<1> DEFINE k == job[r].id
<1>0. job[r] \in Jobs /\ job[r].stage = "prepare" /\ job[r].op \in {"post", "tick"} /\ k \in Ids
  BY DEF PreparePost, At, JobsTyped, JobsFit, Fits
<1>1. UNCHANGED <<row, sched, clip, draft, now>>
  BY DEF PreparePost, tables, files
<1>2. ASSUME OnError(r), UNCHANGED posted PROVE Calm(i)'
  BY <1>0, <1>1, <1>2, CalmOnError DEF Same
<1>3. ASSUME posted' = [posted EXCEPT ![k] = [text |-> draft[k], at |-> now]],
             IF job[r].op = "tick" THEN Goto(r, "mark") ELSE End(r)
      PROVE  Calm(i)'
  <2>1. /\ OthersSame(r)
        /\ \/ /\ job'[r].stage = "mark" /\ job'[r].op = job[r].op /\ job'[r].id = k
              /\ Holds(job'[r]) = Holds(job[r])
           \/ job'[r] = Idle
    <3>1. CASE Goto(r, "mark")
      BY <3>1, GotoKeeps, GotoHolds
    <3>2. CASE End(r)
      BY <3>2, EndKeeps DEF OthersSame
    <3> QED
      BY <1>3, <3>1, <3>2
  <2>2. CASE i # k
    <3>1. Same(i)
      BY <1>1, <1>3, <2>2 DEF Same, RestTyped
    <3> QED
      BY <1>0, <2>1, <2>2, <3>1, HoldsIdle, HoldsItsOwn, CalmElsewhere
  <2>3. CASE i = k
    <3>1. \A q \in Requests \ {r} : i \notin Holds(job[q])
      BY <2>3, HoldsItsOwn, NobodyElse
    <3>2. /\ row[i] # None
          /\ job[r].op = "tick" => sched[i] # None /\ sched[i].at <= now
      BY <2>3, HoldsItsOwn DEF Calm, Working
    <3>3. posted'[i] # None /\ posted'[i].at = now
      <4>1. posted'[i] = [text |-> draft[i], at |-> now]
        BY <1>3, <2>3 DEF RestTyped
      <4>2. [text |-> draft[i], at |-> now] \in [text : Texts \cup {None}, at : 0..MaxTime]
        BY DEF RestTyped
      <4> QED
        BY <4>1, <4>2, NoneIsNoValue
    <3>4. ~ Trimming(i) /\ ~ Trimming(i)'
      BY <1>0, <2>1, <3>1, TrimmingHere, HoldsIdle, HoldsItsOwn
    <3>5. now \in Nat
      BY BoundsAreNumbers DEF RestTyped
    <3>6. sched[i] # None /\ sched[i].status = "ready" => now >= sched[i].at
      <4>1. sched[i] # None => sched[i].at \in Nat
        BY BoundsAreNumbers DEF RestTyped, Post
      <4>2. posted[i] # None => posted[i].at \in Nat /\ posted[i].at <= now
        BY BoundsAreNumbers DEF RestTyped, Settled, Calm
      <4> QED
        BY <3>5, <4>1, <4>2 DEF Settled, Calm
    <3>7. Settled(i)'
      BY <1>1, <3>3, <3>4, <3>5, <3>6 DEF Settled, Calm, Shows
    <3>8. CASE job'[r] = Idle
      BY <2>1, <3>1, <3>7, <3>8, HoldsIdle, CalmHere
    <3>9. CASE job'[r].stage = "mark" /\ job'[r].op = job[r].op /\ job[r].op = "tick"
      <4>1. Working(i, job[r])'
        <5>1. sched[i].at \in Nat /\ now >= sched[i].at
          BY <3>2, <3>5, <3>9, BoundsAreNumbers DEF RestTyped, Post
        <5> QED
          BY <1>1, <3>2, <3>3, <3>9, <5>1 DEF Working
      <4> QED
        BY <2>1, <3>1, <3>7, <4>1, CalmHere
    <3> QED
      BY <1>0, <1>3, <2>1, <3>8, <3>9, EndKeeps
  <2> QED
    BY <2>2, <2>3
<1> QED
  BY <1>2, <1>3 DEF PreparePost

\* A post is marked ready after it was handed to the user.
LEMMA CalmMark ==
  ASSUME Typed, NEW r \in Requests, MarkScheduledPrepared(r), NEW i \in Ids, Calm(i)
  PROVE  Calm(i)'
<1> USE TypedSplits
<1> DEFINE k == job[r].id
<1> DEFINE j == [job[r] EXCEPT !.stage = "next", !.id = None]
<1>0. job[r] \in Jobs /\ job[r].stage = "mark" /\ job[r].op = "tick" /\ k \in Ids
  BY DEF MarkScheduledPrepared, At, JobsTyped, JobsFit, Fits
<1>1. UNCHANGED <<row, clip, draft, posted, now>>
  BY DEF MarkScheduledPrepared, files, history
<1>2. job' = [job EXCEPT ![r] = j]
  BY DEF MarkScheduledPrepared
<1>3. j.stage = "next" /\ j.id = None /\ j.op = "tick" /\ j.rest = job[r].rest
  BY <1>0 DEF Jobs
<1> HIDE DEF j
<1>4. job'[r] = j /\ OthersSame(r)
  BY <1>2 DEF JobsTyped, OthersSame
<1>5. i \in Holds(job'[r]) => i \in Holds(job[r])
  BY <1>3, <1>4, NoneIsNoValue DEF Holds
<1>6. CASE sched'[i] = sched[i]
  <2>1. Same(i)
    BY <1>1, <1>6 DEF Same
  <2> QED
    BY <1>0, <1>3, <1>4, <1>5, <2>1, CalmElsewhere DEF Quiet
<1>7. CASE i = k /\ sched[i] # None /\ sched' = [sched EXCEPT ![i].status = "ready"]
  <2>1. \A q \in Requests \ {r} : i \notin Holds(job[q])
    BY <1>7, HoldsItsOwn, NobodyElse
  <2>2. /\ row[i] # None /\ posted[i] # None /\ posted[i].at >= sched[i].at
        /\ sched[i].at <= now
    BY <1>0, <1>7, HoldsItsOwn DEF Calm, Working
  <2>3. sched'[i] # None /\ sched'[i].at = sched[i].at
    <3>1. sched[i] \in Post
      BY <1>7 DEF RestTyped
    <3>2. sched'[i] = [sched[i] EXCEPT !.status = "ready"]
      BY <1>7 DEF RestTyped
    <3>3. sched'[i] \in Post
      BY <3>1, <3>2 DEF Post
    <3> QED
      BY <3>1, <3>2, <3>3, NoneIsNoValue DEF Post
  <2>4. ~ Trimming(i) /\ ~ Trimming(i)'
    BY <1>0, <1>3, <1>4, <2>1, TrimmingHere
  <2>5. Settled(i)'
    BY <1>1, <2>2, <2>3, <2>4 DEF Settled, Calm, Shows
  <2>6. Working(i, job[r])'
    BY <1>1, <1>3, <1>4, <2>2, <2>3 DEF Working
  <2> QED
    BY <1>4, <2>1, <2>5, <2>6, CalmHere
<1> QED
  BY <1>0, <1>6, <1>7 DEF MarkScheduledPrepared, RestTyped

\* An undisturbed candidate stays calm: the invariant that the properties rest on.
LEMMA UndisturbedStep ==
  ASSUME Typed, NoOrphans, Undisturbed, Next
  PROVE  Undisturbed'
<1>1. disturbed \subseteq disturbed'
  <2>1. CASE AtOnce
    BY <2>1 DEF AtOnce, CreateSource, DeleteSource, DeleteCandidate, PatchCandidate, Clock,
                Disturb, history
  <2>2. CASE Crash
    BY <2>2 DEF Crash
  <2>3. ASSUME NEW r \in Requests, ProfileStep(r) \/ AnalysisStep(r)
        PROVE  disturbed \subseteq disturbed'
    BY <2>3 DEF ProfileStep, PutProfile, ActivateProfile, AnalysisStep, Analyze, AnalyzeMoment,
                Think, InsertCandidates, ReadRank, AppendCandidates, AnalysisFails,
                FinishAnalysis, history
  <2>4. ASSUME NEW r \in Requests, CandidateStep(r) PROVE disturbed \subseteq disturbed'
    BY <2>4 DEF CandidateStep, RewriteCandidate, ScheduleCandidate, FinishRewrite,
                MarkScheduled, Disturb, history
  <2>5. ASSUME NEW r \in Requests, ClipStep(r) PROVE disturbed \subseteq disturbed'
    BY <2>5 DEF ClipStep, ClipCandidate, TrimCandidate, TrimFile, CutClip, WriteDraft,
                RecordClip, RestoreTimes, Disturb
  <2>6. ASSUME NEW r \in Requests, PostStep(r) PROVE disturbed \subseteq disturbed'
    BY <2>6 DEF PostStep, PostNow, Tick, NextDue, PreparePost, MarkScheduledPrepared,
                Disturb, history
  <2> QED
    BY <2>1, <2>2, <2>3, <2>4, <2>5, <2>6, NextSplits DEF Step
<1>2. ASSUME NEW i \in Ids, i \notin disturbed' PROVE Calm(i)'
  <2>1. Calm(i)
    BY <1>1, <1>2 DEF Undisturbed
  <2>2. ASSUME NEW r \in Requests, PostStep(r) PROVE Calm(i)'
    BY <1>2, <2>1, <2>2, CalmPostStarts, CalmNextDue, CalmPreparePost, CalmMark DEF PostStep
  <2>3. ASSUME NEW r \in Requests, Step(r) PROVE Calm(i)'
    BY <1>2, <2>1, <2>2, <2>3, CalmProfile, CalmAnalysis, CalmCandidate, CalmClip DEF Step
  <2> QED
    BY <1>2, <2>1, <2>3, CalmAtOnce, CalmCrash, NextSplits
<1> QED
  BY <1>2 DEF Undisturbed

\* Every undisturbed candidate is calm in every reachable state.
LEMMA UndisturbedInvariant == Spec => []Undisturbed
<1>1. Init => Undisturbed
  <2> SUFFICES ASSUME Init, NEW i \in Ids PROVE Calm(i)
    BY DEF Undisturbed
  <2>1. \A r \in Requests : job[r] = Idle
    BY DEF Init
  <2>2. \A r \in Requests : i \notin Holds(job[r])
    BY <2>1, HoldsIdle
  <2>3. Settled(i)
    BY DEF Init, Settled, Shows
  <2> QED
    BY <2>2, <2>3 DEF Calm, Alone
<1>2. Typed /\ NoOrphans /\ Undisturbed /\ UNCHANGED vars => Undisturbed'
  <2> SUFFICES ASSUME Undisturbed, UNCHANGED vars, NEW i \in Ids, i \notin disturbed'
               PROVE  Calm(i)'
    BY DEF Undisturbed
  <2>1. Calm(i) /\ Same(i) /\ UNCHANGED job
    BY DEF Undisturbed, vars, Same
  <2> QED
    BY <2>1, CalmSame
<1>3. Typed /\ NoOrphans /\ Undisturbed /\ [Next]_vars => Undisturbed'
  BY <1>2, UndisturbedStep
<1> QED
  BY <1>1, <1>3, TypedInvariant, NoOrphansHold, PTL DEF Spec

\* A post marked ready was handed to the user on or after its date.
THEOREM ReadyHolds == Spec => []ReadyMeansPosted
<1>1. Undisturbed => ReadyMeansPosted
  BY DEF Undisturbed, Calm, Settled, ReadyMeansPosted
<1> QED
  BY <1>1, UndisturbedInvariant, PTL

\* A clip on record plays and shows its candidate's range from its start.
THEOREM ClipsHold == Spec => []ClipWithinTimes
<1>1. Undisturbed => ClipWithinTimes
  <2> SUFFICES ASSUME Undisturbed, NEW i \in Ids, i \notin disturbed, i \notin Held,
                      row[i] # None, row[i].clip
               PROVE  /\ clip[i] \notin {None, Broken}
                      /\ clip[i][1] = row[i].times[1] /\ clip[i][2] <= row[i].times[2]
    BY DEF ClipWithinTimes
  <2>1. ~ Trimming(i)
    BY HeldBy, HoldsItsOwn DEF Trimming
  <2> QED
    BY <2>1 DEF Undisturbed, Calm, Settled, Shows
<1> QED
  BY <1>1, UndisturbedInvariant, PTL

\* Only the hand-over of a post hands anything over.
LEMMA OnlyPreparePosts ==
  ASSUME Next, posted' # posted
  PROVE  \E r \in Requests : PreparePost(r)
<1>1. ASSUME NEW s \in Sources, CreateSource(s) \/ DeleteSource(s)  PROVE posted' = posted
  BY <1>1 DEF CreateSource, DeleteSource, history
<1>2. ASSUME NEW k \in Ids,
             DeleteCandidate(k) \/ \E text \in Texts : PatchCandidate(k, text)
      PROVE  posted' = posted
  BY <1>2 DEF DeleteCandidate, PatchCandidate, history
<1>3. ASSUME NEW r \in Requests, ProfileStep(r)  PROVE posted' = posted
  BY <1>3 DEF ProfileStep, PutProfile, ActivateProfile, history
<1>4. ASSUME NEW r \in Requests, AnalysisStep(r)  PROVE posted' = posted
  BY <1>4 DEF AnalysisStep, Analyze, AnalyzeMoment, Think, InsertCandidates, ReadRank,
              AppendCandidates, AnalysisFails, FinishAnalysis, history
<1>5. ASSUME NEW r \in Requests, CandidateStep(r)  PROVE posted' = posted
  BY <1>5 DEF CandidateStep, RewriteCandidate, ScheduleCandidate, FinishRewrite,
              MarkScheduled, history
<1>6. ASSUME NEW r \in Requests, ClipStep(r)  PROVE posted' = posted
  BY <1>6 DEF ClipStep, ClipCandidate, TrimCandidate, TrimFile, CutClip, WriteDraft,
              RecordClip, RestoreTimes, history
<1>7. ASSUME NEW r \in Requests, PostStep(r), ~ PreparePost(r)  PROVE posted' = posted
  BY <1>7 DEF PostStep, PostNow, Tick, NextDue, MarkScheduledPrepared, history
<1>8. ASSUME Clock \/ Crash  PROVE posted' = posted
  BY <1>8 DEF Clock, Crash, history
<1> QED
  BY  <1>1, <1>2, <1>3, <1>4, <1>5, <1>6, <1>7, <1>8 DEF Next

\* What is put on the clipboard is the text the candidate has.
THEOREM PostsCurrentTextHolds == Spec => PostsCurrentText
<1>1. ASSUME Typed, Undisturbed, Next, NEW i \in Ids, posted'[i] # posted[i], i \notin disturbed
      PROVE  row[i] # None /\ posted'[i].text = row[i].text
  <2>1. PICK r \in Requests : PreparePost(r)
    BY <1>1, OnlyPreparePosts
  <2>2. /\ job[r].stage = "prepare" /\ job[r].id = i
        /\ posted'[i] = [text |-> draft[i], at |-> now]
    BY <1>1, <2>1, TypedSplits DEF PreparePost, At, RestTyped
  <2>3. Working(i, job[r])
    BY <1>1, <2>2, HoldsItsOwn DEF Undisturbed, Calm
  <2> QED
    BY <2>2, <2>3 DEF Working
<1>2. Typed /\ Undisturbed /\ [Next]_vars =>
        [\A i \in Ids : posted'[i] # posted[i] /\ i \notin disturbed =>
            row[i] # None /\ posted'[i].text = row[i].text]_vars
  BY <1>1
<1> QED
  BY <1>2, TypedInvariant, UndisturbedInvariant, PTL DEF Spec, PostsCurrentText

\* What is handed over has a clip that plays and shows its candidate's range from its start.
THEOREM PostsItsClipHolds == Spec => PostsItsClip
<1>1. ASSUME Typed, Undisturbed, Next, NEW i \in Ids, posted'[i] # posted[i], i \notin disturbed
      PROVE  /\ row[i] # None /\ clip[i] \notin {None, Broken}
             /\ clip[i][1] = row[i].times[1] /\ clip[i][2] <= row[i].times[2]
  <2>1. PICK r \in Requests : PreparePost(r)
    BY <1>1, OnlyPreparePosts
  <2>2. job[r].stage = "prepare" /\ job[r].id = i
    BY <1>1, <2>1, TypedSplits DEF PreparePost, At, RestTyped
  <2>3. row[i] # None /\ clip[i] # None
    BY <1>1, <2>2, HoldsItsOwn DEF Undisturbed, Calm, Working
  <2>4. ~ Trimming(i)
    BY <1>1, <2>2, HoldsItsOwn DEF Undisturbed, Calm, Alone, Trimming
  <2> QED
    BY <1>1, <2>3, <2>4 DEF Undisturbed, Calm, Settled, Shows
<1>2. Typed /\ Undisturbed /\ [Next]_vars =>
        [\A i \in Ids : posted'[i] # posted[i] /\ i \notin disturbed =>
            /\ row[i] # None /\ clip[i] \notin {None, Broken}
            /\ clip[i][1] = row[i].times[1] /\ clip[i][2] <= row[i].times[2]]_vars
  BY <1>1
<1> QED
  BY <1>2, TypedInvariant, UndisturbedInvariant, PTL DEF Spec, PostsItsClip

-----------------------------------------------------------------------------
(* The queue and the statuses, which two statements write                    *)

\* A candidate that is scheduled, or whose status is about to say so, is in the queue.
Queued ==
    \A i \in Ids \ swept :
        /\ row[i] # None /\ row[i].status = "scheduled" => sched[i] # None
        /\ Scheduling(i) => sched[i] # None

\* No request comes to stand between the two statements.
NoneQueues == \A q \in Requests : job'[q].stage = "queued" => job'[q] = job[q]

\* A step that schedules nothing and removes nothing keeps what is scheduled in the queue.
LEMMA QueuedKept ==
  ASSUME Queued, NoneQueues, UNCHANGED swept,
         \A i \in Ids : sched[i] # None => sched'[i] # None,
         \A i \in Ids : row'[i] # None /\ row'[i].status = "scheduled" =>
                          row[i] # None /\ row[i].status = "scheduled"
  PROVE  Queued'
BY DEF Queued, NoneQueues, Scheduling, At

\* So does one that removes candidates: those that were being scheduled it notes.
LEMMA QueuedSwept ==
  ASSUME Queued, NoneQueues, NEW ids, Sweep(ids), sched' = Cascade(ids),
         \A i \in Ids : i \in ids => row'[i] = None \/ row'[i].status # "scheduled",
         \A i \in Ids : i \notin ids => row'[i] = row[i]
  PROVE  Queued'
<1> SUFFICES ASSUME NEW i \in Ids, i \notin swept'
             PROVE  /\ row'[i] # None /\ row'[i].status = "scheduled" => sched'[i] # None
                    /\ Scheduling(i)' => sched'[i] # None
  BY DEF Queued
<1>1. (i \in ids => ~ Scheduling(i)) /\ (i \notin ids => i \notin swept)
  BY DEF Sweep
<1>2. Scheduling(i)' => Scheduling(i)
  BY DEF NoneQueues, Scheduling, At
<1>3. sched'[i] = IF i \in ids THEN None ELSE sched[i]
  BY DEF Cascade
<1> QED
  BY <1>1, <1>2, <1>3 DEF Queued

\* A request that goes on to another stage, or ends, does not come to stand there.
LEMMA GotoNotQueued ==
  ASSUME JobsTyped, NEW r \in Requests,
         End(r) \/ \E stage : stage # "queued" /\ Goto(r, stage)
  PROVE  NoneQueues
<1>1. Idle.stage = "idle"
  BY DEF Idle
<1>2. CASE End(r)
  BY <1>1, <1>2, EndKeeps DEF NoneQueues
<1>3. ASSUME NEW stage, stage # "queued", Goto(r, stage) PROVE NoneQueues
  <2>1. job'[r].stage = stage /\ \A q \in Requests \ {r} : job'[q] = job[q]
    BY <1>3, GotoKeeps
  <2> QED
    BY <1>3, <2>1 DEF NoneQueues
<1> QED
  BY <1>2, <1>3

\* Nor does one that starts with something else, or whose step failed.
LEMMA StartNotQueued ==
  ASSUME JobsTyped, NEW r \in Requests, NEW j, j.stage # "queued", Start(r, j)
  PROVE  NoneQueues
BY StartKeeps DEF NoneQueues

LEMMA OnErrorNotQueued ==
  ASSUME JobsTyped, NEW r \in Requests, OnError(r),
         job[r].stage \in {"cut", "draft", "record", "prepare"}
  PROVE  NoneQueues
<1>1. /\ Idle.stage = "idle" /\ [job[r] EXCEPT !.stage = "restore"].stage = "restore"
      /\ [job[r] EXCEPT !.stage = "next", !.id = None].stage = "next"
  BY DEF Idle, JobsTyped, Jobs
<1> QED
  BY <1>1, OnErrorType DEF NoneQueues, Becomes

\* Steps that move no request.
LEMMA QueuedAtOnce ==
  ASSUME Typed, NoOrphans, Queued, AtOnce
  PROVE  Queued'
<1> USE TypedSplits
<1>0. NoneQueues
  BY DEF AtOnce, CreateSource, DeleteSource, DeleteCandidate, PatchCandidate, Clock, NoneQueues
<1>1. ASSUME NEW s \in Sources, CreateSource(s) PROVE Queued'
  BY <1>0, <1>1, QueuedKept DEF CreateSource, history
<1>2. ASSUME NEW s \in Sources, DeleteSource(s) PROVE Queued'
  <2>1. \A i \in Ids : IF i \in CandidatesOf(s) THEN row'[i] = None ELSE row'[i] = row[i]
    BY <1>2 DEF DeleteSource, CandidatesOf
  <2> QED
    BY <1>0, <1>2, <2>1, QueuedSwept DEF DeleteSource
<1>3. ASSUME NEW i \in Ids, DeleteCandidate(i) PROVE Queued'
  <2>1. row'[i] = None /\ \A k \in Ids : k \notin {i} => row'[k] = row[k]
    BY <1>3 DEF DeleteCandidate, RestTyped
  <2> QED
    BY <1>0, <1>3, <2>1, QueuedSwept DEF DeleteCandidate
<1>4. ASSUME NEW i \in Ids, NEW text \in Texts, PatchCandidate(i, text) PROVE Queued'
  <2>1. row[i] # None /\ row'[i].status = row[i].status
    BY <1>4, UpdateField DEF PatchCandidate, Readable
  <2>2. \A k \in Ids \ {i} : row'[k] = row[k]
    BY <1>4, UpdateElsewhere DEF PatchCandidate
  <2> QED
    BY <1>0, <1>4, <2>1, <2>2, QueuedKept DEF PatchCandidate
<1>5. ASSUME Clock PROVE Queued'
  BY <1>0, <1>5, QueuedKept DEF Clock, tables, history
<1> QED
  BY <1>1, <1>2, <1>3, <1>4, <1>5 DEF AtOnce

\* Changes of profiles touch neither the queue nor the candidates.
LEMMA QueuedProfile ==
  ASSUME Typed, Queued, NEW r \in Requests, ProfileStep(r)
  PROVE  Queued'
<1> USE TypedSplits
<1>1. ASSUME NEW k \in Kinds, PutProfile(r, k) PROVE Queued'
  <2> DEFINE j == [Idle EXCEPT !.op = "put", !.stage = "deactivated", !.kind = k]
  <2>1. Start(r, j) /\ j.stage # "queued"
    BY <1>1 DEF PutProfile, Begin, Idle
  <2> HIDE DEF j
  <2>2. NoneQueues
    BY <2>1, StartNotQueued
  <2> QED
    BY <1>1, <2>2, QueuedKept DEF PutProfile, tables, history
<1>2. ASSUME ActivateProfile(r) PROVE Queued'
  <2>1. NoneQueues
    BY <1>2, GotoNotQueued DEF ActivateProfile
  <2> QED
    BY <1>2, <2>1, QueuedKept DEF ActivateProfile, tables
<1> QED
  BY <1>1, <1>2 DEF ProfileStep

\* The candidates of an analysis are proposed; those they replace go with their posts.
LEMMA QueuedAnalysis ==
  ASSUME Typed, NoOrphans, Queued, NEW r \in Requests, AnalysisStep(r)
  PROVE  Queued'
<1> USE TypedSplits
<1>0. \A p \in Proposals : Proposed(p).status = "proposed"
  BY DEF Proposed
<1>1. ASSUME NEW s \in Sources, Analyze(r, s) \/ AnalyzeMoment(r, s) PROVE Queued'
  <2>1. PICK op \in {"analyze", "moment"} :
          Start(r, [Idle EXCEPT !.op = op, !.stage = "think", !.src = s])
    BY <1>1 DEF Analyze, AnalyzeMoment, Begin
  <2> DEFINE j == [Idle EXCEPT !.op = op, !.stage = "think", !.src = s]
  <2>2. Start(r, j) /\ j.stage # "queued"
    BY <2>1 DEF Idle
  <2> HIDE DEF j
  <2>3. NoneQueues
    BY <2>2, StartNotQueued
  <2> QED
    BY <1>1, <2>3, QueuedKept DEF Analyze, AnalyzeMoment
<1>2. ASSUME Think(r) \/ AnalysisFails(r) PROVE Queued'
  <2>1. NoneQueues
    BY <1>2, GotoNotQueued DEF Think, AnalysisFails
  <2> QED
    BY <1>2, <2>1, QueuedKept DEF Think, AnalysisFails, tables, history
<1>3. ASSUME ReadRank(r) PROVE Queued'
  <2> DEFINE j == [job[r] EXCEPT !.stage = "append", !.base = TopRank(job[r].src)]
  <2>1. job' = [job EXCEPT ![r] = j]
    BY <1>3 DEF ReadRank
  <2>2. j.stage = "append"
    BY DEF JobsTyped, Jobs
  <2> HIDE DEF j
  <2>3. NoneQueues
    BY <2>1, <2>2 DEF NoneQueues, JobsTyped
  <2> QED
    BY <1>3, <2>3, QueuedKept DEF ReadRank, tables, history
<1>4. ASSUME InsertCandidates(r) PROVE Queued'
  <2> DEFINE s == job[r].src
  <2>1. NoneQueues
    BY <1>4, GotoNotQueued DEF InsertCandidates
  <2>2. \A i \in Ids : i \in CandidatesOf(s) => row'[i] = None \/ row'[i].status # "scheduled"
    <3>1. PICK n \in 0..MaxRank : \E p \in [1..n -> Proposals] :
            row' = [i \in Ids |-> IF i[1] # s THEN row[i]
                                  ELSE IF i[2] \in 1..n THEN Proposed(p[i[2]]) ELSE None]
      BY <1>4 DEF InsertCandidates
    <3>2. PICK p \in [1..n -> Proposals] :
            row' = [i \in Ids |-> IF i[1] # s THEN row[i]
                                  ELSE IF i[2] \in 1..n THEN Proposed(p[i[2]]) ELSE None]
      BY <3>1
    <3> QED
      BY <1>0, <3>2 DEF CandidatesOf
  <2>3. \A i \in Ids : i \notin CandidatesOf(s) => row'[i] = row[i]
    BY <1>4 DEF InsertCandidates, CandidatesOf
  <2>4. Sweep(CandidatesOf(s)) /\ sched' = Cascade(CandidatesOf(s))
    BY <1>4 DEF InsertCandidates
  <2> HIDE DEF s
  <2> QED
    BY <2>1, <2>2, <2>3, <2>4, QueuedSwept
<1>5. ASSUME AppendCandidates(r) PROVE Queued'
  <2>1. NoneQueues
    BY <1>5, GotoNotQueued DEF AppendCandidates
  <2>2. \A i \in Ids : row'[i] = row[i] \/ row'[i].status # "scheduled"
    <3> DEFINE s == job[r].src
    <3> DEFINE b == job[r].base
    <3>1. PICK n \in 1..(MaxRank - b) : \E p \in [1..n -> Proposals] :
            row' = [i \in Ids |-> IF i[1] = s /\ i[2] - b \in 1..n
                                  THEN Proposed(p[i[2] - b]) ELSE row[i]]
      BY <1>5 DEF AppendCandidates
    <3>2. PICK p \in [1..n -> Proposals] :
            row' = [i \in Ids |-> IF i[1] = s /\ i[2] - b \in 1..n
                                  THEN Proposed(p[i[2] - b]) ELSE row[i]]
      BY <3>1
    <3> HIDE DEF s, b
    <3> QED
      BY <1>0, <3>2
  <2>3. UNCHANGED <<sched, swept>>
    BY <1>5 DEF AppendCandidates, history
  <2> QED
    BY <2>1, <2>2, <2>3, QueuedKept
<1>6. ASSUME FinishAnalysis(r) PROVE Queued'
  <2>1. NoneQueues
    BY <1>6, GotoNotQueued DEF FinishAnalysis
  <2> QED
    BY <1>6, <2>1, QueuedKept DEF FinishAnalysis
<1> QED
  BY <1>1, <1>2, <1>3, <1>4, <1>5, <1>6 DEF AnalysisStep

\* The first statement puts the post into the queue; the second finds it there.
LEMMA QueuedCandidate ==
  ASSUME Typed, Queued, NEW r \in Requests, CandidateStep(r)
  PROVE  Queued'
<1> USE TypedSplits
<1>1. ASSUME NEW k \in Ids, NEW at \in 0..MaxTime, ScheduleCandidate(r, k, at) PROVE Queued'
  <2> DEFINE j == [Idle EXCEPT !.op = "schedule", !.stage = "queued", !.id = k]
  <2> DEFINE post == [at |-> at, status |-> "pending"]
  <2>1. job'[r] = j /\ j.id = k /\ \A q \in Requests \ {r} : job'[q] = job[q]
    <3>1. Start(r, j) /\ j.id = k
      BY <1>1 DEF ScheduleCandidate, Begin, Idle
    <3> HIDE DEF j
    <3> QED
      BY <3>1, StartKeeps
  <2>2. post # None
    BY NoneIsNoValue DEF Post
  <2>3. sched' = [sched EXCEPT ![k] = post] /\ swept' = swept \ {k} /\ row' = row
    BY <1>1 DEF ScheduleCandidate
  <2>4. sched'[k] # None /\ \A i \in Ids \ {k} : sched'[i] = sched[i]
    <3> HIDE DEF post
    <3> QED
      BY <2>2, <2>3 DEF RestTyped
  <2>5. \A i \in Ids \ {k} : Scheduling(i)' => Scheduling(i)
    <3> HIDE DEF j
    <3> QED
      BY <2>1 DEF Scheduling, At
  <2> QED
    BY <2>3, <2>4, <2>5 DEF Queued
<1>2. ASSUME MarkScheduled(r) PROVE Queued'
  <2> DEFINE k == job[r].id
  <2>1. NoneQueues /\ UNCHANGED <<sched, swept>> /\ Scheduling(k)
    BY <1>2, GotoNotQueued DEF MarkScheduled, history, Scheduling, At
  <2>2. \A i \in Ids \ {k} : row'[i] = row[i]
    BY <1>2, UpdateElsewhere DEF MarkScheduled
  <2>3. \A i \in Ids : Scheduling(i)' => Scheduling(i)
    BY <2>1 DEF NoneQueues, Scheduling, At
  <2> HIDE DEF k
  <2> QED
    BY <2>1, <2>2, <2>3 DEF Queued
<1>3. ASSUME NEW k \in Ids, RewriteCandidate(r, k) PROVE Queued'
  <2> DEFINE j == [Idle EXCEPT !.op = "rewrite", !.stage = "think", !.id = k]
  <2>1. Start(r, j) /\ j.stage # "queued"
    BY <1>3 DEF RewriteCandidate, Begin, Idle
  <2> HIDE DEF j
  <2>2. NoneQueues
    BY <2>1, StartNotQueued
  <2> QED
    BY <1>3, <2>2, QueuedKept DEF RewriteCandidate, tables
<1>4. ASSUME FinishRewrite(r) PROVE Queued'
  <2> DEFINE k == job[r].id
  <2>1. NoneQueues
    BY <1>4, GotoNotQueued DEF FinishRewrite
  <2>2. k \in Ids /\ job[r].stage # "idle"
    BY <1>4 DEF FinishRewrite, JobsTyped, JobsFit, Fits, Idle
  <2>3. \A i \in Ids : row'[i] = row[i] \/ (row[i] # None /\ row'[i].status = row[i].status)
    <3>1. PICK text : row' = Update(k, "text", text) \/ row' = row
      BY <1>4 DEF FinishRewrite
    <3> HIDE DEF k
    <3>2. \A i \in Ids : i # k => Update(k, "text", text)[i] = row[i]
      BY UpdateElsewhere
    <3>3. row[k] # None => Update(k, "text", text)[k].status = row[k].status
      BY <2>2, UpdateField
    <3>4. row[k] = None => Update(k, "text", text) = row
      BY DEF Update
    <3> QED
      BY <3>1, <3>2, <3>3, <3>4
  <2> HIDE DEF k
  <2> QED
    BY <1>4, <2>1, <2>3, QueuedKept DEF FinishRewrite, history
<1> QED
  BY <1>1, <1>2, <1>3, <1>4 DEF CandidateStep

\* A clip that is recorded makes its candidate clipped; a trim changes only its times.
LEMMA QueuedClip ==
  ASSUME Typed, Queued, NEW r \in Requests, ClipStep(r)
  PROVE  Queued'
<1> USE TypedSplits
<1>1. ASSUME NEW k \in Ids, ClipCandidate(r, k) PROVE Queued'
  <2> DEFINE j == [Idle EXCEPT !.op = "clip", !.stage = "cut", !.id = k, !.seen = row[k]]
  <2>1. Start(r, j) /\ j.stage # "queued"
    BY <1>1 DEF ClipCandidate, Begin, Idle
  <2> HIDE DEF j
  <2>2. NoneQueues
    BY <2>1, StartNotQueued
  <2> QED
    BY <1>1, <2>2, QueuedKept DEF ClipCandidate, tables
<1>2. ASSUME NEW k \in Ids, NEW times \in Ranges, TrimCandidate(r, k, times) PROVE Queued'
  <2> DEFINE j == [Idle EXCEPT !.op = "trim", !.stage = "trim", !.id = k,
                       !.seen = row'[k], !.old = row[k].times]
  <2>1. NoneQueues
    <3>1. (Start(r, j) /\ j.stage # "queued") \/ UNCHANGED job
      BY <1>2 DEF TrimCandidate, Begin, Idle
    <3> HIDE DEF j
    <3> QED
      BY <3>1, StartNotQueued DEF NoneQueues
  <2>2. row[k] # None /\ row'[k].status = row[k].status
    BY <1>2, UpdateField DEF TrimCandidate
  <2>3. \A i \in Ids \ {k} : row'[i] = row[i]
    BY <1>2, UpdateElsewhere DEF TrimCandidate
  <2>4. UNCHANGED <<sched, swept>>
    BY <1>2 DEF TrimCandidate
  <2> QED
    BY <2>1, <2>2, <2>3, <2>4, QueuedKept
<1>3. ASSUME TrimFile(r) \/ CutClip(r) \/ WriteDraft(r) PROVE Queued'
  <2>1. NoneQueues
    BY <1>3, GotoNotQueued, OnErrorNotQueued DEF TrimFile, CutClip, WriteDraft, AfterDraft, At
  <2> QED
    BY <1>3, <2>1, QueuedKept DEF TrimFile, CutClip, WriteDraft, tables
<1>4. ASSUME RecordClip(r) PROVE Queued'
  <2>1. NoneQueues
    BY <1>4, GotoNotQueued, OnErrorNotQueued DEF RecordClip, At
  <2>2. \A i \in Ids : row'[i] = row[i] \/ row'[i].status = "clipped"
    <3>1. \A x \in Row : [x EXCEPT !.clip = TRUE, !.status = "clipped"].status = "clipped"
      BY DEF Row
    <3>2. \A i \in Ids : row[i] # None => row[i] \in Row
      BY DEF RestTyped
    <3>3. \/ row' = row
          \/ row[job[r].id] # None
             /\ row' = [row EXCEPT ![job[r].id] =
                          [row[job[r].id] EXCEPT !.clip = TRUE, !.status = "clipped"]]
      BY <1>4 DEF RecordClip
    <3>4. CASE row' = row
      BY <3>4
    <3>5. ASSUME NEW k, row[k] # None,
                 row' = [row EXCEPT ![k] = [row[k] EXCEPT !.clip = TRUE, !.status = "clipped"]],
                 NEW i \in Ids
          PROVE  row'[i] = row[i] \/ row'[i].status = "clipped"
      <4>1. CASE i # k
        BY <3>5, <4>1 DEF RestTyped
      <4>2. CASE i = k
        <5>1. row'[i] = [row[i] EXCEPT !.clip = TRUE, !.status = "clipped"]
          BY <3>5, <4>2 DEF RestTyped
        <5> QED
          BY <3>1, <3>2, <3>5, <4>2, <5>1
      <4> QED
        BY <4>1, <4>2
    <3> QED
      BY <3>3, <3>4, <3>5
  <2> QED
    BY <1>4, <2>1, <2>2, QueuedKept DEF RecordClip
<1>5. ASSUME RestoreTimes(r) PROVE Queued'
  <2> DEFINE k == job[r].id
  <2>1. NoneQueues
    BY <1>5, GotoNotQueued DEF RestoreTimes
  <2>2. \A i \in Ids : row'[i] = row[i] \/ (row[i] # None /\ row'[i].status = row[i].status)
    <3> HIDE DEF k
    <3>1. \A i \in Ids : i # k => Update(k, "times", job[r].old)[i] = row[i]
      BY UpdateElsewhere
    <3>2. k \in Ids /\ row[k] # None => Update(k, "times", job[r].old)[k].status = row[k].status
      BY UpdateField
    <3>3. row[k] = None => Update(k, "times", job[r].old) = row
      BY DEF Update
    <3> QED
      BY <1>5, <3>1, <3>2, <3>3 DEF RestoreTimes, k
  <2> QED
    BY <1>5, <2>1, <2>2, QueuedKept DEF RestoreTimes
<1> QED
  BY <1>1, <1>2, <1>3, <1>4, <1>5 DEF ClipStep

\* A post that is handed over stays in the queue, marked ready.
LEMMA QueuedPost ==
  ASSUME Typed, Queued, NEW r \in Requests, PostStep(r)
  PROVE  Queued'
<1> USE TypedSplits
<1>1. ASSUME NEW k \in Ids, NEW text \in Texts \cup {None}, PostNow(r, k, text) PROVE Queued'
  <2>1. NoneQueues
    BY <1>1, PostNowJob DEF NoneQueues, Becomes
  <2>2. row[k] # None /\ row'[k].status = row[k].status
    BY <1>1, UpdateField DEF PostNow, Readable
  <2>3. \A i \in Ids \ {k} : row'[i] = row[i]
    BY <1>1, UpdateElsewhere DEF PostNow
  <2> QED
    BY <1>1, <2>1, <2>2, <2>3, QueuedKept DEF PostNow
<1>2. ASSUME Tick(r) PROVE Queued'
  <2>1. PICK q : Start(r, [Idle EXCEPT !.op = "tick", !.stage = "next", !.rest = q])
    BY <1>2 DEF Tick
  <2> DEFINE j == [Idle EXCEPT !.op = "tick", !.stage = "next", !.rest = q]
  <2>2. Start(r, j) /\ j.stage # "queued"
    BY <2>1 DEF Idle
  <2> HIDE DEF j
  <2>3. NoneQueues
    BY <2>2, StartNotQueued
  <2> QED
    BY <1>2, <2>3, QueuedKept DEF Tick, tables
<1>3. ASSUME NextDue(r) PROVE Queued'
  <2>1. NoneQueues
    BY <1>3, NextDueJob DEF NoneQueues, Becomes, Idle
  <2> QED
    BY <1>3, <2>1, QueuedKept DEF NextDue, tables, history
<1>4. ASSUME PreparePost(r) PROVE Queued'
  <2>1. NoneQueues
    BY <1>4, GotoNotQueued, OnErrorNotQueued DEF PreparePost, At
  <2> QED
    BY <1>4, <2>1, QueuedKept DEF PreparePost, tables
<1>5. ASSUME MarkScheduledPrepared(r) PROVE Queued'
  <2> DEFINE j == [job[r] EXCEPT !.stage = "next", !.id = None]
  <2>1. job' = [job EXCEPT ![r] = j]
    BY <1>5 DEF MarkScheduledPrepared
  <2>2. j.stage = "next"
    BY DEF JobsTyped, Jobs
  <2> HIDE DEF j
  <2>3. NoneQueues
    BY <2>1, <2>2 DEF NoneQueues, JobsTyped
  <2>4. \A i \in Ids : sched[i] # None => sched'[i] # None
    <3>1. \A x \in Post : [x EXCEPT !.status = "ready"] \in Post
      BY DEF Post
    <3> QED
      BY <1>5, <3>1, NoneIsNoValue DEF MarkScheduledPrepared, RestTyped
  <2> QED
    BY <1>5, <2>3, <2>4, QueuedKept DEF MarkScheduledPrepared, history
<1> QED
  BY <1>1, <1>2, <1>3, <1>4, <1>5 DEF PostStep

\* Every step keeps what is scheduled in the queue.
LEMMA QueuedStep ==
  ASSUME Typed, NoOrphans, Queued, Next
  PROVE  Queued'
<1>1. ASSUME Crash PROVE Queued'
  <2>1. NoneQueues
    BY <1>1 DEF Crash, NoneQueues, Idle
  <2> QED
    BY <1>1, <2>1, QueuedKept DEF Crash, tables
<1> QED
  BY <1>1, QueuedAtOnce, QueuedProfile, QueuedAnalysis, QueuedCandidate, QueuedClip, QueuedPost,
     NextSplits DEF Step

\* A candidate shown as scheduled is in the queue, unless it was removed between the two
\* statements that schedule it.
THEOREM ScheduledHolds == Spec => []ScheduledIsQueued
<1>1. Init => Queued
  BY DEF Init, Queued, Scheduling, At, Idle
<1>2. Typed /\ NoOrphans /\ Queued /\ [Next]_vars => Queued'
  BY QueuedStep DEF vars, Queued, Scheduling, At
<1>3. Queued => ScheduledIsQueued
  BY DEF Queued, ScheduledIsQueued
<1> QED
  BY <1>1, <1>2, <1>3, TypedInvariant, NoOrphansHold, PTL DEF Spec
=============================================================================
