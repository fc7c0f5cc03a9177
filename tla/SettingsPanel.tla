---------------------------- MODULE SettingsPanel ----------------------------
(***************************************************************************)
(* The settings of the factories: the biases, the prompt and the mentions  *)
(* in one panel, the prompt of the articles in another.  Each text is      *)
(* saved as a whole; the first panel has one flag for three saves.         *)
(***************************************************************************)
EXTENDS FiniteSets, Naturals

CONSTANTS
    Texts,          \* contents
    Broken,         \* contents that are not JSON
    Empty,          \* no content
    Slots,          \* bound: requests in progress at the same time
    MaxActs,        \* bound: what the user does
    MaxFaults,      \* bound: requests that fail
    None

Panels == {{"biases", "prompt", "mentions"}, {"articlePrompt"}}

VARIABLES
    kinds,          \* the panel that is open
    stored,         \* the active profiles at the server
    text,           \* biases, prompt and mentions; prompt of the other panel
    saving,         \* the kind the panel says it saves
    job,            \* the requests in progress
    acts, faults,   \* bounds
    kept,           \* history: kinds not typed in since they were loaded, or a save was asked
    mixed           \* history: kinds saved elsewhere, or twice at once

panel == <<kinds, text, saving>>
vars == <<stored, panel, job, acts, faults, kept, mixed>>

Update(k, t) == [load |-> FALSE, got |-> [x \in {k} |-> t], served |-> FALSE]
InProgress(k) == \E r \in Slots : job[r] # None /\ k \in DOMAIN job[r].got
Loading == \E r \in Slots : job[r] # None /\ job[r].load

Init ==
    /\ kinds \in Panels /\ stored \in [kinds -> Texts \ Broken]
    /\ text = [k \in kinds |-> Empty] /\ saving = None
    /\ \E r \in Slots :
         job = [s \in Slots |-> IF s = r THEN [load |-> TRUE, got |-> text, served |-> FALSE]
                                ELSE None]
    /\ acts = 0 /\ faults = 0 /\ kept = {} /\ mixed = {}

-----------------------------------------------------------------------------
(* Requests and their answers *)

FetchProfiles(r) ==
    /\ job[r] # None /\ job[r].load /\ ~job[r].served
    /\ job' = [job EXCEPT ![r] = [@ EXCEPT !.served = TRUE, !.got = stored]]
    /\ UNCHANGED <<stored, panel, acts, faults, kept, mixed>>

\* The server refuses no content.
UpdateProfile(r) ==
    /\ job[r] # None /\ ~job[r].load /\ ~job[r].served
    /\ \E k \in DOMAIN job[r].got :
         job[r].got[k] # Empty /\ stored' = [stored EXCEPT ![k] = job[r].got[k]]
    /\ job' = [job EXCEPT ![r].served = TRUE]
    /\ UNCHANGED <<panel, acts, faults, kept, mixed>>

\* Another tab saves, or the page of the sources.
SavedElsewhere(k) ==
    /\ acts < MaxActs /\ acts' = acts + 1 /\ k \in kinds /\ mixed' = mixed \cup {k}
    /\ stored' \in {[stored EXCEPT ![k] = t] : t \in Texts \ Broken} \ {stored}
    /\ UNCHANGED <<panel, job, faults, kept>>

Load(r) ==
    /\ job[r] # None /\ job[r].load /\ job[r].served /\ job' = [job EXCEPT ![r] = None]
    /\ text' = job[r].got /\ kept' = kinds
    /\ UNCHANGED <<kinds, stored, saving, acts, faults, mixed>>

\* Whichever save of the panel ends first resets the flag of all.
Finally(r) == saving' = IF job[r].load THEN saving ELSE None

Saved(r) ==
    /\ job[r] # None /\ ~job[r].load /\ job[r].served /\ Finally(r)
    /\ job' = [job EXCEPT ![r] = None]
    /\ UNCHANGED <<kinds, stored, text, acts, faults, kept, mixed>>

Refused(r) == ~job[r].load /\ \E k \in DOMAIN job[r].got : job[r].got[k] = Empty
Fails(r) ==
    /\ job[r] # None /\ Finally(r) /\ job' = [job EXCEPT ![r] = None]
    /\ IF Refused(r) THEN UNCHANGED faults ELSE faults < MaxFaults /\ faults' = faults + 1
    /\ kept' = IF job[r].served THEN kept ELSE kept \ DOMAIN job[r].got
    /\ UNCHANGED <<kinds, stored, text, acts, mixed>>

-----------------------------------------------------------------------------
(* The user *)

Act == acts < MaxActs /\ acts' = acts + 1 /\ ~Loading

Type(k) ==
    /\ Act /\ k \in kinds /\ kept' = kept \ {k}
    /\ text' \in {[text EXCEPT ![k] = t] : t \in Texts \cup {Empty}} \ {text}
    /\ UNCHANGED <<kinds, stored, saving, job, faults, mixed>>

Send(k) ==
    /\ Act /\ saving' = k /\ kept' = kept \cup {k}
    /\ \E r \in Slots : job[r] = None /\ job' = [job EXCEPT ![r] = Update(k, text[k])]
    /\ mixed' = IF InProgress(k) THEN mixed \cup {k} ELSE mixed
    /\ UNCHANGED <<kinds, stored, text, faults>>

Button(k) == k \in kinds /\ saving # k

SaveBiases == Button("biases") /\ Send("biases")
SavePrompt == Button("prompt") /\ Send("prompt")
\* A text that is not JSON is not sent; the flag is reset all the same, whichever save it
\* was set for.
RefuseMentions ==
    /\ Act /\ saving' = None
    /\ UNCHANGED <<kinds, stored, text, job, faults, kept, mixed>>
SaveMentions ==
    /\ Button("mentions")
    /\ IF text["mentions"] \in Broken \cup {Empty} THEN RefuseMentions ELSE Send("mentions")
SaveArticlePrompt == Button("articlePrompt") /\ Send("articlePrompt")

Next ==
    \/ SaveBiases \/ SavePrompt \/ SaveMentions \/ SaveArticlePrompt
    \/ \E k \in kinds : Type(k) \/ SavedElsewhere(k)
    \/ \E r \in Slots : FetchProfiles(r) \/ UpdateProfile(r) \/ Load(r) \/ Saved(r) \/ Fails(r)

Spec == Init /\ [][Next]_vars

-----------------------------------------------------------------------------
(* Properties *)

Requests ==
    [load : BOOLEAN, served : BOOLEAN,
     got : UNION {[K -> Texts \cup {Empty}] : K \in SUBSET UNION Panels}]

\* What the profiles, the panel and the requests range over.
TypeOK ==
    /\ kinds \in Panels /\ stored \in [kinds -> Texts]
    /\ text \in [kinds -> Texts \cup {Empty}] /\ saving \in kinds \cup {None}
    /\ job \in [Slots -> Requests \cup {None}]
    /\ \A r \in Slots : job[r] # None => DOMAIN job[r].got \subseteq kinds
    /\ acts \in 0..MaxActs /\ faults \in 0..MaxFaults
    /\ kept \subseteq kinds /\ mixed \subseteq kinds

\* A text that was loaded or saved and not typed in since is what the server holds, unless
\* it was saved elsewhere, or a second time while the first save was in progress.
SavedMeansStored ==
    \A k \in kept \ mixed : ~InProgress(k) => stored[k] = text[k]

\* The panel says that it saves only what it is saving.
ButtonsComeBack == saving # None => InProgress(saving)
=============================================================================
