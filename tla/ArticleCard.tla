----------------------------- MODULE ArticleCard -----------------------------
(***************************************************************************)
(* The card of one post of an article: its text box, the row as the page   *)
(* last received it, and the requests of the card.  It is unmounted when   *)
(* another article is selected, and mounted with what the page reads when  *)
(* the user comes back.  Removing the post is the matter of ArticlePage.   *)
(***************************************************************************)
EXTENDS FiniteSets, Naturals

CONSTANTS
    Texts,          \* post texts, up to the attribution the server appends
    Empty,          \* no text
    Slots,          \* bound: requests in progress at the same time
    MaxActs,        \* bound: what the user does
    MaxFaults,      \* bound: requests that fail
    None

VARIABLES
    row,            \* the row of the candidate at the server
    shown,          \* candidate: the row as the page last received it, None if not mounted
    box,            \* postText
    edited,         \* history: the user changed the box since it was filled
    busy,           \* saving, scheduling, postingNow, rewriting
    job,            \* the requests in progress
    acts, faults,   \* bounds
    disturbed       \* history: two requests at once, or one that failed after it was served

card == <<shown, box, edited, busy>>
vars == <<row, card, job, acts, faults, disturbed>>

Ops == {"save", "schedule", "refine", "post"}
Rows == [text : Texts, scheduled : BOOLEAN]
Quiet == \A r \in Slots : job[r] = None

Init ==
    /\ row \in [text : Texts, scheduled : {FALSE}]
    /\ shown = row /\ box = row.text /\ edited = FALSE /\ busy = {}
    /\ job = [r \in Slots |-> None] /\ acts = 0 /\ faults = 0 /\ disturbed = FALSE

-----------------------------------------------------------------------------
(* The user *)

Act == acts < MaxActs /\ acts' = acts + 1

TypeText(t) ==
    /\ Act /\ shown # None /\ t # box /\ box' = t /\ edited' = TRUE
    /\ UNCHANGED <<row, shown, busy, job, faults, disturbed>>

Request(op) ==
    [op |-> op, served |-> FALSE, text |-> box, answer |-> None, mine |-> TRUE]

Send(op) ==
    /\ Act /\ shown # None /\ busy' = busy \cup {op} /\ disturbed' = (disturbed \/ ~Quiet)
    /\ \E r \in Slots : job[r] = None /\ job' = [job EXCEPT ![r] = Request(op)]
    /\ UNCHANGED <<row, shown, box, edited, faults>>

SaveButton == "save" \notin busy
PostNowButton == "post" \notin busy
ScheduleButton == "schedule" \notin busy
\* The buttons are disabled while a text is refined, the Enter key is not.
RefineBox == TRUE

HandleSave == SaveButton /\ Send("save")
HandleSchedule == ScheduleButton /\ Send("schedule")
HandlePostNow == PostNowButton /\ Send("post")
HandleRefine == RefineBox /\ Send("refine")

\* The page reads the candidates again, or another article is selected and this one again.
Reload(r) == [job EXCEPT ![r] = [Request("reload") EXCEPT !.mine = FALSE]]
PageReloads ==
    /\ Act /\ shown # None /\ disturbed' = (disturbed \/ ~Quiet)
    /\ \E r \in Slots : job[r] = None /\ job' = Reload(r)
    /\ UNCHANGED <<row, card, faults>>
Unmount ==
    /\ Act /\ shown # None /\ disturbed' = (disturbed \/ ~Quiet)
    /\ shown' = None /\ edited' = FALSE /\ busy' = {}
    /\ \E r \in Slots :
         /\ job[r] = None
         /\ job' = [s \in Slots |-> IF s = r THEN Reload(r)[r]
                                    ELSE IF job[s] = None THEN None
                                    ELSE [job[s] EXCEPT !.mine = FALSE]]
    /\ UNCHANGED <<row, box, faults>>

-----------------------------------------------------------------------------
(* What the server does with a request: its answer is the row *)

Asked(r, op) ==
    /\ job[r] # None /\ job[r].op = op /\ ~job[r].served
    /\ UNCHANGED <<card, acts, faults, disturbed>>
Answers(r, new) ==
    row' = new /\ job' = [job EXCEPT ![r] = [@ EXCEPT !.served = TRUE, !.answer = new]]
WithText(t) == IF t = Empty THEN row ELSE [row EXCEPT !.text = t]

UpdateArticleCandidate(r) == Asked(r, "save") /\ Answers(r, WithText(job[r].text))
PostNowArticleCandidate(r) == Asked(r, "post") /\ Answers(r, WithText(job[r].text))
ScheduleArticleCandidate(r) ==
    Asked(r, "schedule") /\ Answers(r, [row EXCEPT !.scheduled = TRUE])
RewriteArticleCandidate(r) ==
    Asked(r, "refine") /\ \E t \in Texts : Answers(r, [row EXCEPT !.text = t])
FetchArticleCandidates(r) == Asked(r, "reload") /\ Answers(r, row)

Serve(r) ==
    \/ UpdateArticleCandidate(r) \/ PostNowArticleCandidate(r) \/ ScheduleArticleCandidate(r)
    \/ RewriteArticleCandidate(r) \/ FetchArticleCandidates(r)

-----------------------------------------------------------------------------
(* Answers *)

Finally(r) == busy' = IF job[r].mine THEN busy \ {job[r].op} ELSE busy

Fill(new) == shown' = new /\ box' = new.text /\ edited' = FALSE

\* The list has the candidate, or the answer changes nothing; a list that is read has it.
OnUpdated(r) ==
    /\ job[r] # None /\ job[r].served /\ job' = [job EXCEPT ![r] = None] /\ Finally(r)
    /\ IF shown # None \/ job[r].op = "reload" THEN Fill(job[r].answer)
       ELSE UNCHANGED <<shown, box, edited>>
    /\ UNCHANGED <<row, acts, faults, disturbed>>

Fails(r) ==
    /\ job[r] # None /\ faults < MaxFaults /\ faults' = faults + 1
    /\ Finally(r) /\ job' = [job EXCEPT ![r] = None]
    /\ disturbed' = (disturbed \/ job[r].served \/ job[r].op = "reload")
    /\ UNCHANGED <<row, shown, box, edited, acts>>

Next ==
    \/ \E t \in Texts \cup {Empty} : TypeText(t)
    \/ HandleSave \/ HandleSchedule \/ HandlePostNow \/ HandleRefine \/ PageReloads \/ Unmount
    \/ \E r \in Slots : Serve(r) \/ OnUpdated(r) \/ Fails(r)

Spec == Init /\ [][Next]_vars

-----------------------------------------------------------------------------
(* Properties *)

Requests ==
    [op : Ops \cup {"reload"}, served : BOOLEAN, text : Texts \cup {Empty},
     answer : Rows \cup {None}, mine : BOOLEAN]

\* What the row, the card and the requests range over.
TypeOK ==
    /\ row \in Rows /\ shown \in Rows \cup {None} /\ box \in Texts \cup {Empty}
    /\ edited \in BOOLEAN /\ busy \subseteq Ops
    /\ job \in [Slots -> Requests \cup {None}]
    /\ acts \in 0..MaxActs /\ faults \in 0..MaxFaults /\ disturbed \in BOOLEAN

\* With one request at a time, none of them lost, the card shows its row once nothing is
\* under way, and the box its text or what the user typed since it was filled.
ShowsItsRow ==
    Quiet /\ ~disturbed => shown = row /\ (edited \/ box = row.text)

\* A button is disabled only while a request of its card is under way.
ButtonsComeBack ==
    \A op \in busy : \E r \in Slots : job[r] # None /\ job[r].op = op /\ job[r].mine
=============================================================================
