---------------------------- MODULE CandidateCard ----------------------------
(***************************************************************************)
(* The card of one clip candidate: the boxes the user edits, the row of    *)
(* the candidate as the page last received it, and the requests of the     *)
(* card.  Whenever the page receives the row, the boxes are filled from it *)
(* again.  The transcript beside the boxes follows the range in them.      *)
(* Which cards there are is the matter of FactoryPage.                     *)
(***************************************************************************)
EXTENDS FiniteSets, Naturals

CONSTANTS
    Texts,          \* post texts, up to the attribution the server appends
    Empty,          \* no text
    Ranges,         \* pairs of a start and an end
    Slots,          \* bound: requests in progress at the same time
    MaxActs,        \* bound: what the user does
    MaxFaults,      \* bound: requests that fail
    None

VARIABLES
    row,            \* the row of the candidate at the server
    shown,          \* candidate: the row as the page last received it
    box,            \* postText, startTime and endTime
    edited,         \* history: the boxes the user changed since they were filled
    busy,           \* saving, clipping, trimming, scheduling, rewriting, postingNow
    job,            \* the requests in progress
    transcript,     \* the range of the transcript shown, None when it is unavailable
    loading,        \* transcriptLoading
    fetch,          \* the range to fetch the transcript of, and how far that is
    late,           \* ranges whose fetch was cancelled, but goes on
    acts, faults,   \* bounds
    disturbed       \* history: two requests at once, or one that failed after it was served

card == <<shown, box, edited, busy>>
caption == <<transcript, loading, fetch, late>>
vars == <<row, card, job, caption, acts, faults, disturbed>>

Ops == {"save", "clip", "trim", "schedule", "refine", "post"}
Rows == [text : Texts, range : Ranges, clip : BOOLEAN, scheduled : BOOLEAN]
Quiet == \A r \in Slots : job[r] = None

\* Nothing tells one text or range from another.
AnyOf(S) == CHOOSE x \in S : TRUE

Init ==
    /\ row \in [text : {AnyOf(Texts)}, range : {AnyOf(Ranges)}, clip : BOOLEAN, scheduled : {FALSE}]
    /\ shown = row /\ box = [text |-> row.text, range |-> row.range]
    /\ edited = {} /\ busy = {} /\ job = [r \in Slots |-> None]
    /\ transcript = None /\ loading = FALSE
    /\ fetch = [range |-> row.range, phase |-> "timer"] /\ late = {}
    /\ acts = 0 /\ faults = 0 /\ disturbed = FALSE

-----------------------------------------------------------------------------
(* The transcript *)

\* The effect of the range in the boxes: the fetch of the former range is cancelled, and
\* that of the new one waits until the user has stopped typing.
Follow(range) ==
    IF range = box.range THEN UNCHANGED <<fetch, late>>
    ELSE /\ late' = IF fetch.phase = "asked" THEN late \cup {fetch.range} ELSE late
         /\ fetch' = [range |-> range, phase |-> "timer"]

FetchTranscript ==
    /\ fetch.phase = "timer" /\ fetch' = [fetch EXCEPT !.phase = "asked"] /\ loading' = TRUE
    /\ UNCHANGED <<row, card, job, transcript, late, acts, faults, disturbed>>

\* The fetch may fail; the card then says that there are no captions.
TranscriptArrives ==
    /\ fetch.phase = "asked" /\ fetch' = [fetch EXCEPT !.phase = "done"] /\ loading' = FALSE
    /\ transcript' \in {fetch.range, None}
    /\ UNCHANGED <<row, card, job, late, acts, faults, disturbed>>

\* Fault: a fetch that was cancelled shows what it brings.
CancelledShown(range) == transcript' = range /\ loading' = FALSE

CancelledArrives(range) == UNCHANGED <<transcript, loading>>

LateArrives(range) ==
    /\ range \in late /\ late' = late \ {range} /\ CancelledArrives(range)
    /\ UNCHANGED <<row, card, job, fetch, acts, faults, disturbed>>

-----------------------------------------------------------------------------
(* The user *)

Act == acts < MaxActs /\ acts' = acts + 1

TypeText(t) ==
    /\ Act /\ t # box.text /\ box' = [box EXCEPT !.text = t] /\ edited' = edited \cup {"text"}
    /\ UNCHANGED <<row, shown, busy, job, caption, faults, disturbed>>

TypeRange(range) ==
    /\ Act /\ range # box.range /\ Follow(range)
    /\ box' = [box EXCEPT !.range = range] /\ edited' = edited \cup {"range"}
    /\ UNCHANGED <<row, shown, busy, job, transcript, loading, faults, disturbed>>

Send(op) ==
    /\ Act
    /\ \E r \in Slots :
         /\ job[r] = None
         /\ job' = [job EXCEPT ![r] = [op |-> op, phase |-> "sent", of |-> box,
                                       answer |-> None, mine |-> TRUE]]
    /\ busy' = busy \cup {op} /\ disturbed' = (disturbed \/ ~Quiet)
    /\ UNCHANGED <<row, shown, box, edited, caption, faults>>

timesChanged == box.range # shown.range

SaveButton == "save" \notin busy
TrimButton == shown.clip /\ timesChanged /\ busy \cap {"clip", "trim"} = {}
ClipButton == busy \cap {"clip", "trim"} = {}
PostNowButton == busy \cap {"post", "clip"} = {}
ScheduleButton == "schedule" \notin busy
\* The buttons are disabled while a text is refined, the Enter key is not.
RefineBox == TRUE

HandleSave == SaveButton /\ Send("save")
HandleClip == ClipButton /\ Send("clip")
HandleTrim == TrimButton /\ Send("trim")
HandleSchedule == ScheduleButton /\ Send("schedule")
HandlePostNow == PostNowButton /\ Send("post")
HandleRefine == RefineBox /\ Send("refine")

\* Another row is opened in the table and this one again: a new card is mounted, and the
\* answers the old one waits for reach the page but not its flags.
Remount ==
    /\ Act /\ box' = [text |-> shown.text, range |-> shown.range] /\ edited' = {} /\ busy' = {}
    /\ job' = [r \in Slots |-> IF job[r] = None THEN None ELSE [job[r] EXCEPT !.mine = FALSE]]
    /\ transcript' = None /\ loading' = FALSE
    /\ fetch' = [range |-> shown.range, phase |-> "timer"] /\ late' = {}
    /\ UNCHANGED <<row, shown, faults, disturbed>>

\* The page reads the candidates again: a tick, an analysis of another source.
Reload == [op |-> "reload", phase |-> "sent", of |-> None, answer |-> None, mine |-> FALSE]
PageReloads ==
    /\ Act /\ disturbed' = (disturbed \/ ~Quiet)
    /\ \E r \in Slots : job[r] = None /\ job' = [job EXCEPT ![r] = Reload]
    /\ UNCHANGED <<row, card, caption, faults>>

-----------------------------------------------------------------------------
(* What the server does with a request *)

Answers(r, new) ==
    job' = [job EXCEPT ![r] = [@ EXCEPT !.phase = "served", !.answer = new]] /\ row' = new
Asked(r, op) ==
    /\ job[r] # None /\ job[r].op = op /\ job[r].phase = "sent"
    /\ UNCHANGED <<card, caption, acts, faults, disturbed>>

\* No text leaves the row as it is.
WithText(t) == IF t = Empty THEN row ELSE [row EXCEPT !.text = t]

UpdateCandidate(r) == Asked(r, "save") /\ Answers(r, WithText(job[r].of.text))
ClipCandidate(r) == Asked(r, "clip") /\ Answers(r, [row EXCEPT !.clip = TRUE])
PostNowCandidate(r) ==
    Asked(r, "post") /\ Answers(r, [WithText(job[r].of.text) EXCEPT !.clip = TRUE])
ScheduleCandidate(r) == Asked(r, "schedule") /\ Answers(r, [row EXCEPT !.scheduled = TRUE])
FetchCandidates(r) == Asked(r, "reload") /\ Answers(r, row)

\* The model's text replaces the one in the row; that in the box was sent to the model.
RewriteCandidate(r) ==
    Asked(r, "refine") /\ \E t \in Texts : Answers(r, [row EXCEPT !.text = t])

\* The range is stored before the clip is cut, and the former one again should that fail.
TrimCandidate(r) ==
    /\ Asked(r, "trim") /\ row.range # job[r].of.range
    /\ job' = [job EXCEPT ![r] = [@ EXCEPT !.phase = "cutting", !.answer = row]]
    /\ row' = [row EXCEPT !.range = job[r].of.range]
Trimmed(r) ==
    /\ job[r] # None /\ job[r].phase = "cutting" /\ Answers(r, row)
    /\ UNCHANGED <<card, caption, acts, faults, disturbed>>
TrimFails(r) ==
    /\ job[r] # None /\ job[r].phase = "cutting" /\ faults < MaxFaults /\ faults' = faults + 1
    /\ row' = [row EXCEPT !.range = job[r].answer.range]
    /\ job' = [job EXCEPT ![r] = [@ EXCEPT !.phase = "refused"]]
    /\ UNCHANGED <<card, caption, acts, disturbed>>

Serve(r) ==
    \/ UpdateCandidate(r) \/ ClipCandidate(r) \/ PostNowCandidate(r) \/ ScheduleCandidate(r)
    \/ FetchCandidates(r) \/ RewriteCandidate(r) \/ TrimCandidate(r) \/ Trimmed(r) \/ TrimFails(r)

-----------------------------------------------------------------------------
(* Answers *)

Finally(r) == busy' = IF job[r].mine THEN busy \ {job[r].op} ELSE busy

\* The page replaces the candidate, and the effect fills the boxes from it.
OnUpdated(new) ==
    /\ shown' = new /\ box' = [text |-> new.text, range |-> new.range]
    /\ edited' = {} /\ Follow(new.range)

AnswerArrives(r) ==
    /\ job[r] # None /\ job[r].phase = "served" /\ job[r].op # "schedule"
    /\ OnUpdated(job[r].answer) /\ Finally(r) /\ job' = [job EXCEPT ![r] = None]
    /\ UNCHANGED <<row, transcript, loading, acts, faults, disturbed>>

\* A schedule is answered without the row, and the page reloads.
OnScheduled(r) ==
    /\ job[r] # None /\ job[r].phase = "served" /\ job[r].op = "schedule"
    /\ Finally(r) /\ job' = [job EXCEPT ![r] = Reload]
    /\ UNCHANGED <<row, shown, box, edited, caption, acts, faults, disturbed>>

\* The request was not served, or its answer is lost.
Fails(r) ==
    /\ job[r] # None
    /\ \/ job[r].phase = "refused" /\ UNCHANGED <<faults, disturbed>>
       \/ /\ job[r].phase \in {"sent", "served"} /\ faults < MaxFaults /\ faults' = faults + 1
          /\ disturbed' = (disturbed \/ job[r].phase = "served" \/ job[r].op = "reload")
    /\ Finally(r) /\ job' = [job EXCEPT ![r] = None]
    /\ UNCHANGED <<row, shown, box, edited, caption, acts>>

\* A trim to the range the row has is refused.
TrimRefused(r) ==
    /\ Asked(r, "trim") /\ row.range = job[r].of.range /\ UNCHANGED row
    /\ job' = [job EXCEPT ![r] = [@ EXCEPT !.phase = "refused"]]

Next ==
    \/ \E t \in Texts \cup {Empty} : TypeText(t)
    \/ \E range \in Ranges : TypeRange(range) \/ LateArrives(range)
    \/ HandleSave \/ HandleClip \/ HandleTrim \/ HandleSchedule \/ HandlePostNow \/ HandleRefine
    \/ Remount \/ PageReloads \/ FetchTranscript \/ TranscriptArrives
    \/ \E r \in Slots :
         Serve(r) \/ TrimRefused(r) \/ AnswerArrives(r) \/ OnScheduled(r) \/ Fails(r)

Spec == Init /\ [][Next]_vars

-----------------------------------------------------------------------------
(* Properties *)

Boxes == [text : Texts \cup {Empty}, range : Ranges]
Requests ==
    [op : Ops \cup {"reload"}, phase : {"sent", "cutting", "served", "refused"},
     of : Boxes \cup {None}, answer : Rows \cup {None}, mine : BOOLEAN]

\* What the row, the card and the requests range over.
TypeOK ==
    /\ row \in Rows /\ shown \in Rows
    /\ box \in Boxes
    /\ edited \subseteq {"text", "range"} /\ busy \subseteq Ops
    /\ job \in [Slots -> Requests \cup {None}]
    /\ transcript \in Ranges \cup {None} /\ loading \in BOOLEAN
    /\ fetch \in [range : Ranges, phase : {"timer", "asked", "done"}] /\ late \subseteq Ranges
    /\ acts \in 0..MaxActs /\ faults \in 0..MaxFaults /\ disturbed \in BOOLEAN

\* With one request at a time, none of them lost, the card shows its row once nothing is
\* under way, and the boxes the row or what the user changed since they were filled.
ShowsItsRow ==
    Quiet /\ ~disturbed =>
        /\ shown = row
        /\ "text" \in edited \/ box.text = row.text
        /\ "range" \in edited \/ box.range = row.range

\* The transcript that has come to rest is of the range in the boxes, whatever was fetched
\* before, and the card does not say that it loads one when it does not.
TranscriptMatches ==
    /\ fetch.range = box.range
    /\ fetch.phase = "done" => transcript \in {box.range, None} /\ ~loading
    /\ fetch.phase = "asked" => loading

\* A button is disabled only while a request of its card is under way.
ButtonsComeBack ==
    \A op \in busy : \E r \in Slots : job[r] # None /\ job[r].op = op /\ job[r].mine
=============================================================================
