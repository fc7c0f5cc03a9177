------------------------------ MODULE PostFactory ------------------------------
(***************************************************************************)
(* The clip factory: sources, their analysis, the candidates it proposes,  *)
(* the clips and drafts made of them, and the queue of scheduled posts.    *)
(* Every HTTP request and every run of the command line tool is a request  *)
(* of its own.  A request reads and writes the database in statements that *)
(* commit one at a time, and between them runs processes that take minutes *)
(* (yt-dlp, ffmpeg, a language model) and files that outlive the rows.     *)
(***************************************************************************)
EXTENDS Integers, Sequences, FiniteSets

CONSTANTS
    Sources,        \* identifiers of sources (a date and the podcast's name)
    MaxRank,        \* bound: candidates of a source
    Requests,       \* requests that may be in progress at the same time
    Ranges,         \* pairs <<start, end>> that users and analyses ask for
    Texts,          \* post texts, up to the attribution every writer appends
    Proposals,      \* what an analysis may propose: records [times, text]
    Kinds,          \* kinds of profiles that are edited: bias, prompt, mentions
    MaxTime,        \* bound: the clock
    MaxRequests,    \* bound: requests made, ticks of the scheduler aside
    MaxFaults,      \* bound: crashes and statements that fail with SQLITE_BUSY
    None,           \* no row, no file
    Broken          \* a clip file that holds no playable clip

Ids == Sources \X (1..MaxRank)      \* <<source, rank>>, the identifier "source-cNN"

Statuses == {"ingested", "analyzing", "analyzed", "failed"}     \* of a source
Row == [times : Ranges, text : Texts, clip : BOOLEAN,
        status : {"proposed", "clipped", "scheduled"}]
Post == [at : 0..MaxTime, status : {"pending", "ready"}]

ASSUME SourcesAreFinite == IsFiniteSet(Sources)
ASSUME BoundsAreNumbers == {MaxRank, MaxTime, MaxRequests, MaxFaults} \subseteq Nat
ASSUME RangesAreTimes == Ranges \subseteq Nat \X Nat
ASSUME ProposalsAreTyped == Proposals \subseteq [times : Ranges, text : Texts]
ASSUME NoneIsNoValue ==
    /\ None \notin Sources \cup Kinds \cup Ids \cup Ranges \cup Texts \cup Row \cup Post \cup Statuses
    /\ None \notin Nat \X Nat /\ Broken \notin Nat \X Nat /\ Broken # None
    /\ None \notin [text : Texts \cup {None}, at : 0..MaxTime]

VARIABLES
    source,         \* table sources: the status, None without a row
    row,            \* table candidates
    sched,          \* table scheduled_posts, by candidate_id
    clip,           \* drafts/<id>/clip.mp4: the part of the video it shows
    draft,          \* drafts/<id>/meta.json: the post text it carries
    gaps,           \* the kinds of profiles of which no row is active
    job,            \* the requests in progress
    now,            \* the clock
    issued, faults, \* how many requests and faults there were (bounds)
    lost,           \* history: sources whose last status was not written
    torn,           \* history: kinds whose replacement was cut short
    swept,          \* history: candidates removed between the two statements that
                    \* schedule them, and neither scheduled nor replaced since
    disturbed,      \* history: candidates that two requests worked on at once, whose
                    \* request was cut short, whose row was removed over its files, or
                    \* whose clip was trimmed to a range past its end
    posted          \* history: the last post handed to the user, and when

vars == <<source, row, sched, clip, draft, gaps, job, now, issued, faults, lost, torn,
          swept, disturbed, posted>>

Idle == [op |-> "none", stage |-> "idle", src |-> None, kind |-> None, id |-> None,
         seen |-> None, old |-> None, rest |-> <<>>, base |-> 0]

Init ==
    /\ source = [s \in Sources |-> None]
    /\ row = [i \in Ids |-> None] /\ sched = [i \in Ids |-> None]
    /\ clip = [i \in Ids |-> None] /\ draft = [i \in Ids |-> None]
    /\ gaps = {} /\ job = [r \in Requests |-> Idle]
    /\ now = 0 /\ issued = 0 /\ faults = 0
    /\ lost = {} /\ torn = {} /\ swept = {} /\ disturbed = {}
    /\ posted = [i \in Ids |-> None]

-----------------------------------------------------------------------------
(* What the actions share *)

\* Candidates a request works on, or has on its list.
Holds(j) == {i \in Ids : i = j.id \/ \E k \in DOMAIN j.rest : j.rest[k] = i}
Held == UNION {Holds(job[r]) : r \in Requests}

Request == issued < MaxRequests /\ issued' = issued + 1
Start(r, j) == job[r] = Idle /\ job' = [job EXCEPT ![r] = j]
Begin(r, j) == Request /\ Start(r, j)
Goto(r, stage) == job' = [job EXCEPT ![r].stage = stage]
End(r) == job' = [job EXCEPT ![r] = Idle]
At(r, stage) == job[r].stage = stage

\* A statement whose error the code drops either runs or fails because another
\* connection is writing.
Fault == faults < MaxFaults /\ faults' = faults + 1

SetSourceStatus(s, status) ==
    \/ /\ source' = IF source[s] = None THEN source ELSE [source EXCEPT ![s] = status]
       /\ lost' = lost \ {s} /\ UNCHANGED faults
    \/ Fault /\ lost' = lost \cup {s} /\ UNCHANGED source

\* Fault: foreign keys are not enforced.
CascadeOff(ids) == sched

\* Rows that go take their scheduled posts with them (ON DELETE CASCADE); their
\* files and the requests that have read them stay.
Cascade(ids) == [i \in Ids |-> IF i \in ids THEN None ELSE sched[i]]
Removed(ids) == {i \in ids : row[i] # None /\ (i \in Held \/ clip[i] # None)}
Scheduling(i) == \E r \in Requests : At(r, "queued") /\ job[r].id = i
Sweep(ids) == swept' = (swept \ ids) \cup {i \in ids : Scheduling(i)}
CandidatesOf(s) == {i \in Ids : i[1] = s}

\* UPDATE candidates ... WHERE id = i, which does nothing without a row.
Update(i, field, value) ==
    IF row[i] = None THEN row ELSE [row EXCEPT ![i] = [@ EXCEPT ![field] = value]]

tables == <<source, row, sched>>
files == <<clip, draft>>
history == <<lost, torn, swept, disturbed, posted>>

-----------------------------------------------------------------------------
(* Profiles: UpdateActiveBias, UpdateActivePrompt and UpdateActiveMentions    *)
(* first deactivate every row, then write an active one.                      *)

PutProfile(r, k) ==
    /\ Begin(r, [Idle EXCEPT !.op = "put", !.stage = "deactivated", !.kind = k])
    /\ gaps' = gaps \cup {k}
    /\ UNCHANGED <<tables, files, now, faults, history>>

\* Fault: the second statement forgets is_active = 1.
ActivateProfileInactive(r) ==
    /\ At(r, "deactivated") /\ End(r)
    /\ UNCHANGED <<tables, files, gaps, now, issued, faults, history>>

ActivateProfile(r) ==
    /\ At(r, "deactivated")
    /\ End(r)
    /\ \/ gaps' = gaps \ {job[r].kind} /\ torn' = torn \ {job[r].kind} /\ UNCHANGED faults
       \/ Fault /\ torn' = torn \cup {job[r].kind} /\ UNCHANGED gaps
    /\ UNCHANGED <<tables, files, now, issued, lost, swept, disturbed, posted>>

-----------------------------------------------------------------------------
(* Sources and their analysis *)

CreateSource(s) ==
    /\ Request /\ source[s] = None
    /\ source' = [source EXCEPT ![s] = "ingested"]
    /\ UNCHANGED <<row, sched, files, gaps, job, now, faults, history>>

DeleteSource(s) ==
    /\ Request /\ source[s] # None
    /\ source' = [source EXCEPT ![s] = None]
    /\ row' = [i \in Ids |-> IF i[1] = s THEN None ELSE row[i]]
    /\ sched' = Cascade(CandidatesOf(s))
    /\ disturbed' = disturbed \cup Removed(CandidatesOf(s)) /\ Sweep(CandidatesOf(s))
    /\ UNCHANGED <<files, gaps, job, now, faults, lost, torn, posted>>

\* runAnalyze works on a source there is.
Analyze(r, s) ==
    /\ Begin(r, [Idle EXCEPT !.op = "analyze", !.stage = "think", !.src = s])
    /\ source[s] # None
    /\ SetSourceStatus(s, "analyzing")
    /\ UNCHANGED <<row, sched, files, gaps, now, torn, swept, disturbed, posted>>

\* runAnalyzeMoment creates the source if there is none (EnsureSource).
AnalyzeMoment(r, s) ==
    /\ Begin(r, [Idle EXCEPT !.op = "moment", !.stage = "think", !.src = s])
    /\ "mentions" \notin gaps
    /\ \/ source' = [source EXCEPT ![s] = "analyzing"] /\ lost' = lost \ {s} /\ UNCHANGED faults
       \/ /\ Fault /\ lost' = lost \cup {s}
          /\ source' = [source EXCEPT ![s] = IF @ = None THEN "ingested" ELSE @]
    /\ UNCHANGED <<row, sched, files, gaps, now, torn, swept, disturbed, posted>>

Needed(op) == IF op = "analyze" THEN {"bias", "prompt", "mentions"} ELSE {"bias", "mentions"}

\* FetchTranscript, the active profiles, the language model.
Think(r) ==
    /\ job[r].op \in {"analyze", "moment"} /\ At(r, "think")
    /\ Needed(job[r].op) \cap gaps = {}
    /\ Goto(r, "store")
    /\ UNCHANGED <<tables, files, gaps, now, issued, faults, history>>

Proposed(p) == [times |-> p.times, text |-> p.text, clip |-> FALSE, status |-> "proposed"]

\* InsertCandidates replaces all candidates of the source in one transaction.
InsertCandidates(r) ==
    LET s == job[r].src IN
    /\ job[r].op = "analyze" /\ At(r, "store")
    /\ source[s] # None /\ "mentions" \notin gaps
    /\ \E n \in 0..MaxRank : \E p \in [1..n -> Proposals] :
         row' = [i \in Ids |-> IF i[1] # s THEN row[i]
                               ELSE IF i[2] \in 1..n THEN Proposed(p[i[2]]) ELSE None]
    /\ sched' = Cascade(CandidatesOf(s))
    /\ disturbed' = disturbed \cup Removed(CandidatesOf(s)) /\ Sweep(CandidatesOf(s))
    /\ Goto(r, "done")
    /\ UNCHANGED <<source, files, gaps, now, issued, faults, lost, torn, posted>>

\* Fault: the next rank is taken for the last.
TopRankNext(s) == Cardinality({i \in CandidatesOf(s) : row[i] # None}) + 1

TopRank(s) == CHOOSE n \in 0..MaxRank :
    /\ n = 0 \/ row[<<s, n>>] # None
    /\ \A m \in (n + 1)..MaxRank : row[<<s, m>>] = None

\* nextCandidateRank reads outside the transaction that inserts.
ReadRank(r) ==
    /\ job[r].op = "moment" /\ At(r, "store")
    /\ job' = [job EXCEPT ![r] = [@ EXCEPT !.stage = "append", !.base = TopRank(job[r].src)]]
    /\ UNCHANGED <<tables, files, gaps, now, issued, faults, history>>

\* A rank that was taken meanwhile is a primary key conflict: nothing is inserted.
AppendCandidates(r) ==
    LET s == job[r].src IN
    /\ At(r, "append") /\ source[s] # None /\ "mentions" \notin gaps
    /\ \E n \in 1..(MaxRank - job[r].base) :
         /\ \A k \in 1..n : row[<<s, job[r].base + k>>] = None
         /\ \E p \in [1..n -> Proposals] :
              row' = [i \in Ids |-> IF i[1] = s /\ i[2] - job[r].base \in 1..n
                                    THEN Proposed(p[i[2] - job[r].base]) ELSE row[i]]
    /\ Goto(r, "done")
    /\ UNCHANGED <<source, sched, files, gaps, now, issued, faults, history>>

\* Any step of an analysis may fail: the video, the model, a profile that is being
\* replaced, a source deleted meanwhile, a conflict.
AnalysisFails(r) ==
    /\ job[r].op \in {"analyze", "moment"} /\ job[r].stage \in {"think", "store", "append"}
    /\ Goto(r, "failed")
    /\ UNCHANGED <<tables, files, gaps, now, issued, faults, history>>

\* Fault: an error returns without a status.
FinishAnalysisSuccessful(r) ==
    /\ job[r].stage \in {"done", "failed"} /\ End(r)
    /\ IF At(r, "done") THEN SetSourceStatus(job[r].src, "analyzed")
                         ELSE UNCHANGED <<source, lost, faults>>
    /\ UNCHANGED <<row, sched, files, gaps, now, issued, torn, swept, disturbed, posted>>

FinishAnalysis(r) ==
    /\ job[r].stage \in {"done", "failed"} /\ End(r)
    /\ SetSourceStatus(job[r].src, IF At(r, "done") THEN "analyzed" ELSE "failed")
    /\ UNCHANGED <<row, sched, files, gaps, now, issued, torn, swept, disturbed, posted>>

-----------------------------------------------------------------------------
(* Candidates *)

\* A new request on a candidate that another request works on disturbs it.
Disturb(i) == disturbed' = IF i \in Held THEN disturbed \cup {i} ELSE disturbed

Readable(i) == row[i] # None /\ "mentions" \notin gaps

PatchCandidate(i, text) ==
    /\ Request /\ Readable(i) /\ row' = Update(i, "text", text) /\ Disturb(i)
    /\ UNCHANGED <<source, sched, files, gaps, job, now, faults, lost, torn, swept, posted>>

DeleteCandidate(i) ==
    /\ Request /\ row[i] # None
    /\ row' = [row EXCEPT ![i] = None] /\ sched' = Cascade({i})
    /\ disturbed' = disturbed \cup Removed({i}) /\ Sweep({i})
    /\ UNCHANGED <<source, files, gaps, job, now, faults, lost, torn, posted>>

RewriteCandidate(r, i) ==
    /\ Begin(r, [Idle EXCEPT !.op = "rewrite", !.stage = "think", !.id = i])
    /\ row[i] # None /\ {"bias", "mentions"} \cap gaps = {} /\ Disturb(i)
    /\ UNCHANGED <<tables, files, gaps, now, faults, lost, torn, swept, posted>>

\* The model answers with some text, or not at all.
FinishRewrite(r) ==
    /\ job[r].op = "rewrite" /\ End(r)
    /\ \/ \E text \in Texts : row' = Update(job[r].id, "text", text)
       \/ UNCHANGED row
    /\ UNCHANGED <<source, sched, files, gaps, now, issued, faults, history>>

\* Fault: the error of the first statement is dropped.
ScheduleCandidateUnchecked(r, i, at) ==
    /\ Begin(r, [Idle EXCEPT !.op = "schedule", !.stage = "queued", !.id = i])
    /\ row[i] # None /\ Disturb(i) /\ swept' = swept \ {i}
    /\ UNCHANGED <<tables, files, gaps, now, faults, lost, torn, posted>>

\* ScheduleCandidate writes the queue first, then the status of the candidate.  Nobody
\* looks at whether there is a clip.
ScheduleCandidate(r, i, at) ==
    /\ Begin(r, [Idle EXCEPT !.op = "schedule", !.stage = "queued", !.id = i])
    /\ row[i] # None
    /\ sched' = [sched EXCEPT ![i] = [at |-> at, status |-> "pending"]] /\ swept' = swept \ {i}
    /\ Disturb(i)
    /\ UNCHANGED <<source, row, files, gaps, now, faults, lost, torn, posted>>

MarkScheduled(r) ==
    /\ At(r, "queued") /\ End(r)
    /\ row' = Update(job[r].id, "status", "scheduled")
    /\ UNCHANGED <<source, sched, files, gaps, now, issued, faults, history>>

-----------------------------------------------------------------------------
(* Clips: clip, trim, and the preparation of a post, which cuts a missing clip *)

ClipCandidate(r, i) ==
    /\ Begin(r, [Idle EXCEPT !.op = "clip", !.stage = "cut", !.id = i, !.seen = row[i]])
    /\ Readable(i) /\ Disturb(i)
    /\ UNCHANGED <<tables, files, gaps, now, faults, lost, torn, swept, posted>>

\* runTrimCandidate stores the new times before it looks for the profile and cuts;
\* without a profile it returns and leaves them.
TrimCandidate(r, i, times) ==
    /\ row[i] # None /\ times # row[i].times
    /\ row' = Update(i, "times", times)
    /\ \/ /\ "mentions" \notin gaps /\ Disturb(i)
          /\ Begin(r, [Idle EXCEPT !.op = "trim", !.stage = "trim", !.id = i,
                           !.seen = row'[i], !.old = row[i].times])
       \/ /\ "mentions" \in gaps /\ Request /\ job[r] = Idle
          /\ disturbed' = disturbed \cup {i} /\ UNCHANGED job
    /\ UNCHANGED <<source, sched, files, gaps, now, faults, lost, torn, swept, posted>>

\* Fault: ffmpeg without the offset.
TrimmedFromStart(f, old, new) ==
    IF f = Broken THEN Broken ELSE <<f[1], f[1] + (new[2] - new[1])>>

\* The part of the video left of a file that showed f, when the range of its
\* candidate went from old to new: ffmpeg -ss offset -t duration.
Trimmed(f, old, new) ==
    LET from == f[1] + (new[1] - old[1])
        to == from + (new[2] - new[1])
    IN  IF f = Broken \/ from >= f[2] THEN Broken ELSE <<from, IF to < f[2] THEN to ELSE f[2]>>

\* TrimCandidate of the runner: a missing file is cut from the video; a range that
\* starts earlier or is empty is refused; ffmpeg writes a new file, then renames it.  A
\* range that ends after the file leaves it shorter than that range, and one that starts
\* after its end leaves a file without a frame, which is recorded all the same.
TrimFile(r) ==
    LET i == job[r].id  new == job[r].seen.times  old == job[r].old IN
    /\ At(r, "trim")
    /\ \/ clip[i] = None /\ Goto(r, "cut") /\ UNCHANGED clip
       \/ clip[i] # None /\ Goto(r, "restore") /\ UNCHANGED clip
       \/ /\ clip[i] # None /\ new[1] >= old[1] /\ new[2] > new[1]
          /\ clip' = [clip EXCEPT ![i] = Trimmed(@, old, new)] /\ Goto(r, "draft")
    /\ disturbed' = IF clip'[i] = Broken THEN disturbed \cup {i} ELSE disturbed
    /\ UNCHANGED <<tables, draft, gaps, now, issued, faults, lost, torn, swept, posted>>

\* Fault: the scheduler goes on to mark a post whose preparation failed.
OnErrorMarks(r) ==
    job' = [job EXCEPT ![r] =
              CASE @.op = "trim" -> [@ EXCEPT !.stage = "restore"]
                [] @.op = "tick" -> [@ EXCEPT !.stage = "mark"]
                [] OTHER -> Idle]

\* What becomes of a request whose step failed.
OnError(r) ==
    job' = [job EXCEPT ![r] =
              CASE @.op = "trim" -> [@ EXCEPT !.stage = "restore"]
                [] @.op = "tick" -> [@ EXCEPT !.stage = "next", !.id = None]
                [] OTHER -> Idle]

\* clip.sh: yt-dlp, then ffmpeg -y, which overwrites the clip file itself, so that a cut
\* that fails half-way leaves a broken one.
CutClip(r) ==
    LET i == job[r].id  times == job[r].seen.times IN
    /\ At(r, "cut")
    /\ \/ /\ times[1] < times[2] /\ clip' = [clip EXCEPT ![i] = times] /\ Goto(r, "draft")
          /\ UNCHANGED disturbed
       \/ OnError(r) /\ UNCHANGED <<clip, disturbed>>
       \/ OnError(r) /\ clip' = [clip EXCEPT ![i] = Broken] /\ disturbed' = disturbed \cup {i}
    /\ UNCHANGED <<tables, draft, gaps, now, issued, faults, lost, torn, swept, posted>>

\* The statement or step after WriteCandidateDraft.
AfterDraft(j) == IF j.seen.clip /\ j.op \in {"post", "tick"} THEN "prepare" ELSE "record"

\* WriteCandidateDraft writes the text of the row as the request read it.  A trim that
\* fails here has replaced the clip and will put the old times back.
WriteDraft(r) ==
    /\ At(r, "draft")
    /\ \/ /\ draft' = [draft EXCEPT ![job[r].id] = job[r].seen.text] /\ Goto(r, AfterDraft(job[r]))
          /\ UNCHANGED disturbed
       \/ /\ OnError(r) /\ UNCHANGED draft
          /\ disturbed' = IF job[r].op = "trim" THEN disturbed \cup {job[r].id} ELSE disturbed
    /\ UNCHANGED <<tables, clip, gaps, now, issued, faults, lost, torn, swept, posted>>

\* SetCandidateClip; clip and trim drop its error.
RecordClip(r) ==
    LET i == job[r].id IN
    /\ At(r, "record")
    /\ \/ /\ row' = IF row[i] = None THEN row
                    ELSE [row EXCEPT ![i] = [@ EXCEPT !.clip = TRUE, !.status = "clipped"]]
          /\ IF job[r].op \in {"post", "tick"} THEN Goto(r, "prepare") ELSE End(r)
          /\ UNCHANGED <<faults, disturbed>>
       \/ /\ Fault /\ disturbed' = disturbed \cup {i} /\ UNCHANGED row
          /\ IF job[r].op = "tick" THEN OnError(r) ELSE End(r)
    /\ UNCHANGED <<source, sched, files, gaps, now, issued, lost, torn, swept, posted>>

\* A failed trim puts the old times back.
RestoreTimes(r) ==
    LET i == job[r].id IN
    /\ At(r, "restore") /\ End(r)
    /\ \/ row' = Update(i, "times", job[r].old) /\ UNCHANGED <<faults, disturbed>>
       \/ Fault /\ disturbed' = disturbed \cup {i} /\ UNCHANGED row
    /\ UNCHANGED <<source, sched, files, gaps, now, issued, lost, torn, swept, posted>>

-----------------------------------------------------------------------------
(* Posting: at once, or by the scheduler when a post is due *)

\* Fault: a candidate with a clip keeps the draft it has.
PreparingKeepsDraft(j, i) ==
    [j EXCEPT !.id = i, !.seen = row'[i], !.stage = IF row'[i].clip THEN "prepare" ELSE "cut"]

\* Fault: a missing clip is not cut.
PreparingUncut(j, i) == [j EXCEPT !.id = i, !.seen = row'[i], !.stage = "draft"]

\* Where runPrepareCandidate goes on from the row it has read.
Preparing(j, i) == [j EXCEPT !.id = i, !.seen = row'[i],
                             !.stage = IF row'[i].clip THEN "draft" ELSE "cut"]

\* The page sends the text it shows; the command line sends none.
PostNow(r, i, text) ==
    /\ Readable(i) /\ Disturb(i)
    /\ row' = IF text = None THEN row ELSE Update(i, "text", text)
    /\ Begin(r, Preparing([Idle EXCEPT !.op = "post"], i))
    /\ UNCHANGED <<source, sched, files, gaps, now, faults, lost, torn, swept, posted>>

Due(i) == sched[i] # None /\ sched[i].status = "pending" /\ sched[i].at <= now

InOrder(q) == \A a, b \in DOMAIN q : a < b => /\ q[a] # q[b]
                                             /\ sched[q[a]].at <= sched[q[b]].at

\* ListDueScheduled, once, ordered by date.
Tick(r) ==
    LET due == {i \in Ids : Due(i)} IN
    /\ \E q \in [1..Cardinality(due) -> due] :
         InOrder(q) /\ Start(r, [Idle EXCEPT !.op = "tick", !.stage = "next", !.rest = q])
    /\ disturbed' = disturbed \cup (due \cap Held)
    /\ UNCHANGED <<tables, files, gaps, now, issued, faults, lost, torn, swept, posted>>

\* The next candidate of the list, read when its turn comes; one that is gone, or
\* cannot be read, is left out.
NextDue(r) ==
    LET j == [job[r] EXCEPT !.rest = Tail(@)] IN
    /\ job[r].op = "tick" /\ At(r, "next")
    /\ job' = [job EXCEPT ![r] =
                 IF job[r].rest = <<>> THEN Idle
                 ELSE IF Readable(Head(job[r].rest))
                      THEN [j EXCEPT !.id = Head(job[r].rest), !.seen = row[Head(job[r].rest)],
                                     !.stage = IF row[Head(job[r].rest)].clip THEN "draft" ELSE "cut"]
                      ELSE j]
    /\ UNCHANGED <<tables, files, gaps, now, issued, faults, history>>

\* PreparePost: prepare-post.sh puts the text of meta.json on the clipboard and opens
\* the browser.
PreparePost(r) ==
    LET i == job[r].id IN
    /\ At(r, "prepare")
    /\ \/ /\ posted' = [posted EXCEPT ![i] = [text |-> draft[i], at |-> now]]
          /\ IF job[r].op = "tick" THEN Goto(r, "mark") ELSE End(r)
       \/ OnError(r) /\ UNCHANGED posted
    /\ UNCHANGED <<tables, files, gaps, now, issued, faults, lost, torn, swept, disturbed>>

MarkScheduledPrepared(r) ==
    LET i == job[r].id IN
    /\ At(r, "mark")
    /\ \/ /\ sched' = IF sched[i] = None THEN sched ELSE [sched EXCEPT ![i].status = "ready"]
          /\ UNCHANGED faults
       \/ Fault /\ UNCHANGED sched
    /\ job' = [job EXCEPT ![r] = [@ EXCEPT !.stage = "next", !.id = None]]
    /\ UNCHANGED <<source, row, files, gaps, now, issued, history>>

-----------------------------------------------------------------------------
Clock ==
    /\ now < MaxTime /\ now' = now + 1
    /\ UNCHANGED <<tables, files, gaps, job, issued, faults, history>>

\* The server stops; its requests are gone, the database and the files are not.
Crash ==
    /\ Fault /\ job' = [r \in Requests |-> Idle]
    /\ lost' = lost \cup {s \in Sources : \E r \in Requests : job[r].src = s}
    /\ torn' = torn \cup {k \in Kinds : \E r \in Requests : job[r].kind = k}
    /\ disturbed' = disturbed \cup Held
    /\ \E cuts \in SUBSET {job[r].id : r \in {q \in Requests : At(q, "cut")}} :
         clip' = [i \in Ids |-> IF i \in cuts THEN Broken ELSE clip[i]]
    /\ UNCHANGED <<tables, draft, gaps, now, issued, swept, posted>>

ProfileStep(r) == (\E k \in Kinds : PutProfile(r, k)) \/ ActivateProfile(r)
AnalysisStep(r) ==
    \/ \E s \in Sources : Analyze(r, s) \/ AnalyzeMoment(r, s)
    \/ Think(r) \/ InsertCandidates(r) \/ ReadRank(r) \/ AppendCandidates(r)
    \/ AnalysisFails(r) \/ FinishAnalysis(r)
CandidateStep(r) ==
    \/ \E i \in Ids : RewriteCandidate(r, i) \/ \E at \in 0..MaxTime : ScheduleCandidate(r, i, at)
    \/ FinishRewrite(r) \/ MarkScheduled(r)
ClipStep(r) ==
    \/ \E i \in Ids : ClipCandidate(r, i) \/ \E times \in Ranges : TrimCandidate(r, i, times)
    \/ TrimFile(r) \/ CutClip(r) \/ WriteDraft(r) \/ RecordClip(r) \/ RestoreTimes(r)
PostStep(r) ==
    \/ \E i \in Ids : \E text \in Texts \cup {None} : PostNow(r, i, text)
    \/ Tick(r) \/ NextDue(r) \/ PreparePost(r) \/ MarkScheduledPrepared(r)

Next ==
    \/ \E s \in Sources : CreateSource(s) \/ DeleteSource(s)
    \/ \E i \in Ids : DeleteCandidate(i) \/ \E text \in Texts : PatchCandidate(i, text)
    \/ \E r \in Requests :
         ProfileStep(r) \/ AnalysisStep(r) \/ CandidateStep(r) \/ ClipStep(r) \/ PostStep(r)
    \/ Clock \/ Crash

Spec == Init /\ [][Next]_vars
-----------------------------------------------------------------------------
(* Properties *)

Footage == (Nat \X Nat) \cup {None, Broken}
Stages == {"idle", "deactivated", "think", "store", "append", "done", "failed", "queued", "cut",
           "trim", "draft", "record", "restore", "prepare", "next", "mark"}
Jobs == [op : {"none", "put", "analyze", "moment", "rewrite", "schedule", "clip", "trim", "post", "tick"},
         stage : Stages, src : Sources \cup {None}, kind : Kinds \cup {None},
         id : Ids \cup {None}, seen : Row \cup {None}, old : Ranges \cup {None},
         rest : Seq(Ids), base : 0..MaxRank]

\* Tables, files and requests are well formed; a request that cuts, writes or records a
\* clip has read a row.
TypeOK ==
    /\ source \in [Sources -> Statuses \cup {None}]
    /\ row \in [Ids -> Row \cup {None}] /\ sched \in [Ids -> Post \cup {None}]
    /\ clip \in [Ids -> Footage] /\ draft \in [Ids -> Texts \cup {None}]
    /\ gaps \subseteq Kinds /\ torn \subseteq Kinds /\ lost \subseteq Sources
    /\ swept \subseteq Ids /\ disturbed \subseteq Ids
    /\ posted \in [Ids -> [text : Texts \cup {None}, at : 0..MaxTime] \cup {None}]
    /\ job \in [Requests -> Jobs]
    /\ now \in 0..MaxTime /\ issued \in 0..MaxRequests /\ faults \in 0..MaxFaults
    /\ \A r \in Requests :
         job[r].stage \in {"cut", "trim", "draft", "record", "prepare", "mark"} =>
             job[r].id \in Ids /\ job[r].seen \in Row

\* Whatever is deleted while requests hold copies of it, no candidate is left or put
\* back without its source and no scheduled post without its candidate.
NoOrphans ==
    /\ \A i \in Ids : row[i] # None => source[i[1]] # None
    /\ \A i \in Ids : sched[i] # None => row[i] # None

\* A source says analyzing only while an analysis of it runs, however analyses of one
\* source overlap and fail and whether it is deleted and created again meanwhile; the
\* exceptions are a crash and a status that could not be written.
AnalyzingMeansWorking ==
    \A s \in Sources : source[s] = "analyzing" =>
        s \in lost \/ \E r \in Requests : job[r].src = s

\* A profile is missing, and every request that needs it fails, only while it is
\* replaced or after its replacement was cut short.
GapMeansUpdate ==
    \A k \in gaps : k \in torn \/ \E r \in Requests : job[r].kind = k

\* A post marked ready was handed to the user on or after the date it is scheduled
\* for: no failed step, rescheduling or restart makes the queue claim what did not
\* happen, unless the post was touched while the scheduler worked on it.
ReadyMeansPosted ==
    \A i \in Ids \ disturbed :
        sched[i] # None /\ sched[i].status = "ready" =>
            posted[i] # None /\ posted[i].at >= sched[i].at

\* A candidate shown as scheduled is in the queue, though the two are written apart, and
\* whatever else works on the candidate meanwhile, is cut short or fails.  The exception is
\* a candidate that was removed between the two: its post went with it, and the second
\* statement marks the candidate that has taken its identifier, until that one is scheduled
\* or replaced in its turn.
ScheduledIsQueued ==
    \A i \in Ids \ swept :
        row[i] # None /\ row[i].status = "scheduled" => sched[i] # None

\* A clip on record plays, starts where its candidate starts and shows nothing past
\* its end, after any sequence of cuts and trims of which some were refused or failed.
ClipWithinTimes ==
    \A i \in Ids \ (disturbed \cup Held) :
        row[i] # None /\ row[i].clip =>
            /\ clip[i] \notin {None, Broken}
            /\ clip[i][1] = row[i].times[1] /\ clip[i][2] <= row[i].times[2]

\* What is put on the clipboard is the text the candidate has, though the script reads
\* it from a file that earlier requests, and earlier candidates of that identifier,
\* have written.
PostsCurrentText ==
    [][\A i \in Ids : posted'[i] # posted[i] /\ i \notin disturbed =>
          row[i] # None /\ posted'[i].text = row[i].text]_vars

\* What is handed over has a clip that plays, starts where the candidate starts and shows
\* nothing past its end, though a candidate is scheduled without a look at whether it has
\* one, and trimmed and clipped again while it waits in the queue.
PostsItsClip ==
    [][\A i \in Ids : posted'[i] # posted[i] /\ i \notin disturbed =>
          /\ row[i] # None /\ clip[i] \notin {None, Broken}
          /\ clip[i][1] = row[i].times[1] /\ clip[i][2] <= row[i].times[2]]_vars
=============================================================================
