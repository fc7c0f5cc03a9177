------------------------------ MODULE IdeasPage ------------------------------
(***************************************************************************)
(* The page of the ideas: a list, and one card for the selected idea.  The *)
(* card has no key, so that selecting another idea keeps the card and its  *)
(* flags, and only fills its boxes again.                                  *)
(***************************************************************************)
EXTENDS FiniteSets, Naturals

CONSTANTS
    Ideas,          \* identifiers of ideas
    NewIdea,        \* the one an idea gets that is made here: its slug never changes
    Texts,          \* what an idea says; a save replaces all of it
    Empty,          \* an emptied title, in place of which the server keeps the former
    Slots,          \* bound: requests in progress at the same time
    MaxActs,        \* bound: what the user does
    MaxFaults,      \* bound: requests that fail
    None

VARIABLES
    rows,           \* table ideas: of each identifier its text, None without a row
    ideas,          \* the list the page shows, in the same form
    selected,       \* selectedId
    box,            \* title, summary, body and so on of the card
    edited,         \* history: the user changed the boxes since they were filled
    busy,           \* creating; saving and deleting of the mounted card
    job,            \* the requests in progress
    acts, faults,   \* bounds
    disturbed,      \* history: two requests at once, or one that failed after it was served
    switched        \* history: another idea was selected while one was removed

page == <<ideas, selected, box, edited, busy>>
vars == <<rows, page, job, acts, faults, disturbed, switched>>

Quiet == \A r \in Slots : job[r] = None
Listed(list) == {i \in Ideas : list[i] # None}
Request(op, id) ==
    [op |-> op, id |-> id, text |-> box, served |-> FALSE, answer |-> None, mine |-> TRUE]

\* The page is opened: it reads the list.
Init ==
    /\ rows \in [Ideas -> Texts \cup {None}] /\ ideas = [i \in Ideas |-> None]
    /\ selected = None /\ box = Empty /\ edited = FALSE /\ busy = {}
    /\ \E r \in Slots :
         job = [s \in Slots |-> IF s = r THEN Request("refresh", None) ELSE None]
    /\ acts = 0 /\ faults = 0 /\ disturbed = FALSE /\ switched = FALSE

-----------------------------------------------------------------------------
(* What the server does with a request *)

Answers(r, answer) == job' = [job EXCEPT ![r] = [@ EXCEPT !.served = TRUE, !.answer = answer]]
Asked(r, op) ==
    /\ job[r] # None /\ job[r].op = op /\ ~job[r].served
    /\ UNCHANGED <<page, acts, faults, disturbed, switched>>

FetchIdeas(r) == Asked(r, "refresh") /\ Answers(r, rows) /\ UNCHANGED rows
CreateIdea(r) ==
    /\ Asked(r, "create") /\ rows[NewIdea] = None
    /\ \E t \in Texts : rows' = [rows EXCEPT ![NewIdea] = t] /\ Answers(r, t)
UpdateIdea(r) ==
    LET i == job[r].id
        t == IF job[r].text = Empty THEN rows[i] ELSE job[r].text
    IN
    /\ Asked(r, "save") /\ rows[i] # None
    /\ rows' = [rows EXCEPT ![i] = t] /\ Answers(r, t)
DeleteIdea(r) ==
    /\ Asked(r, "delete") /\ rows[job[r].id] # None
    /\ rows' = [rows EXCEPT ![job[r].id] = None] /\ Answers(r, None)

-----------------------------------------------------------------------------
(* The card: it is mounted while the selected idea is listed *)

Mounted == selected \in Listed(ideas)

\* The list or the selection changes, and the effect fills the boxes if the idea shown is
\* another or a newer one; without one the card is unmounted and forgets its flags.
Show(list, sel, fresh) ==
    /\ ideas' = list /\ selected' = sel
    /\ IF sel \notin Listed(list) THEN box' = box /\ edited' = FALSE
       ELSE IF fresh \/ sel # selected THEN box' = list[sel] /\ edited' = FALSE
       ELSE UNCHANGED <<box, edited>>
    /\ switched' = (switched \/ ("delete" \in busy /\ sel # selected /\ sel \in Listed(list)))
Flags(list, sel, now) ==
    busy' = IF sel \in Listed(list) THEN now ELSE now \cap {"create"}
Jobs(list, sel, now) ==
    job' = IF sel \in Listed(list) THEN now
           ELSE [r \in Slots |-> IF now[r] = None \/ now[r].op = "create" THEN now[r]
                                 ELSE [now[r] EXCEPT !.mine = FALSE]]

Act == acts < MaxActs /\ acts' = acts + 1

TypeText(t) ==
    /\ Act /\ Mounted /\ t # box /\ box' = t /\ edited' = TRUE
    /\ UNCHANGED <<rows, ideas, selected, busy, job, faults, disturbed, switched>>

ClickIdea(i) ==
    /\ Act /\ i \in Listed(ideas) /\ i # selected /\ Show(ideas, i, TRUE)
    /\ UNCHANGED <<rows, busy, job, faults, disturbed>>

Send(op, id) ==
    /\ Act /\ busy' = busy \cup {op} /\ disturbed' = (disturbed \/ ~Quiet)
    /\ \E r \in Slots : job[r] = None /\ job' = [job EXCEPT ![r] = Request(op, id)]
    /\ UNCHANGED <<rows, ideas, selected, box, edited, faults, switched>>

CreateButtons == "create" \notin busy
SaveButton == Mounted /\ "save" \notin busy
RemoveButton == Mounted /\ "delete" \notin busy

HandleCreate == CreateButtons /\ Send("create", NewIdea)
HandleSave == SaveButton /\ Send("save", selected)
HandleDelete == RemoveButton /\ Send("delete", selected)

-----------------------------------------------------------------------------
(* Answers *)

Answered(r, op) ==
    /\ job[r] # None /\ job[r].op = op /\ job[r].served
    /\ UNCHANGED <<rows, acts, faults, disturbed>>
Done(r) == [job EXCEPT ![r] = None]
Off(r) == IF job[r].mine THEN busy \ {job[r].op} ELSE busy

Refresh(r) ==
    LET list == job[r].answer IN
    /\ Answered(r, "refresh")
    /\ \E sel \in Listed(list) \cup {None} :
         /\ IF selected \in Listed(list) THEN sel = selected ELSE sel = None <=> Listed(list) = {}
         /\ Show(list, sel, TRUE) /\ Flags(list, sel, busy) /\ Jobs(list, sel, Done(r))

IdeaCreated(r) ==
    LET list == [ideas EXCEPT ![NewIdea] = job[r].answer] IN
    /\ Answered(r, "create") /\ Show(list, NewIdea, TRUE)
    /\ busy' = Off(r) /\ job' = Done(r)

OnUpdated(r) ==
    LET i == job[r].id
        list == IF ideas[i] = None THEN ideas ELSE [ideas EXCEPT ![i] = job[r].answer]
    IN
    /\ Answered(r, "save") /\ Show(list, selected, i = selected)
    /\ busy' = Off(r) /\ job' = Done(r)

\* The flag is not reset: the card is taken to go with its idea.
OnDeleted(r) ==
    LET i == job[r].id
        list == [ideas EXCEPT ![i] = None]
        sel == IF selected = i THEN None ELSE selected
    IN
    /\ Answered(r, "delete") /\ Show(list, sel, FALSE)
    /\ Flags(list, sel, busy) /\ Jobs(list, sel, Done(r))

\* The request is refused, is not served or its answer is lost.
Refused(r) ==
    \/ job[r].op = "create" /\ rows[NewIdea] # None
    \/ job[r].op \in {"save", "delete"} /\ rows[job[r].id] = None
Fails(r) ==
    /\ job[r] # None
    /\ IF ~job[r].served /\ Refused(r) THEN UNCHANGED <<faults, disturbed>>
       ELSE /\ faults < MaxFaults /\ faults' = faults + 1
            /\ disturbed' = (disturbed \/ job[r].served \/ job[r].op = "refresh")
    /\ busy' = Off(r) /\ job' = Done(r)
    /\ UNCHANGED <<rows, ideas, selected, box, edited, acts, switched>>

Serve(r) == FetchIdeas(r) \/ CreateIdea(r) \/ UpdateIdea(r) \/ DeleteIdea(r)

Next ==
    \/ \E t \in Texts \cup {Empty} : TypeText(t)
    \/ \E i \in Ideas : ClickIdea(i)
    \/ HandleCreate \/ HandleSave \/ HandleDelete
    \/ \E r \in Slots :
         Serve(r) \/ Refresh(r) \/ IdeaCreated(r) \/ OnUpdated(r) \/ OnDeleted(r) \/ Fails(r)

Spec == Init /\ [][Next]_vars

-----------------------------------------------------------------------------
(* Properties *)

Tables == [Ideas -> Texts \cup {None}]
Requests ==
    [op : {"refresh", "create", "save", "delete"}, id : Ideas \cup {None},
     text : Texts \cup {Empty}, served : BOOLEAN, answer : Tables \cup Texts \cup {None},
     mine : BOOLEAN]

\* What the table, the page and the requests range over.
TypeOK ==
    /\ rows \in Tables /\ ideas \in Tables
    /\ selected \in Ideas \cup {None} /\ box \in Texts \cup {Empty} /\ edited \in BOOLEAN
    /\ busy \subseteq {"create", "save", "delete"}
    /\ job \in [Slots -> Requests \cup {None}]
    /\ acts \in 0..MaxActs /\ faults \in 0..MaxFaults
    /\ disturbed \in BOOLEAN /\ switched \in BOOLEAN

\* With one request at a time, none of them lost, the page lists the ideas of the table
\* once nothing is under way, and what is selected is one of them.
ListsMatch ==
    Quiet /\ ~disturbed => ideas = rows /\ selected \in Listed(rows) \cup {None}

\* The boxes then hold the selected idea, or what the user typed since they were filled:
\* never another idea, which a save would overwrite.
ShowsItsRow ==
    Mounted => edited \/ box = ideas[selected]

\* A button is disabled only while a request of its kind is under way, unless another idea
\* was selected while one was removed: the card stays, and with it the flag.
ButtonsComeBack ==
    /\ \A op \in busy \ {"delete"} : \E r \in Slots : job[r] # None /\ job[r].op = op
    /\ "delete" \in busy /\ ~switched => \E r \in Slots : job[r] # None /\ job[r].op = "delete"
=============================================================================
