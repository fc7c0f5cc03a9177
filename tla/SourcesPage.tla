----------------------------- MODULE SourcesPage -----------------------------
(***************************************************************************)
(* The editor of the dictionary of sources and mentions.  The dictionary   *)
(* is one document: the page loads it into tables, keeps a raw text of it  *)
(* beside them, and either replaces the whole document when it is saved,   *)
(* as does whoever saves it in another tab.                                *)
(***************************************************************************)
EXTENDS FiniteSets, Naturals

CONSTANTS
    Entries,        \* entries of the four categories, as the page tidies them
    MaxActs,        \* bound: what the user does
    MaxFaults,      \* bound: requests that fail
    None

VARIABLES
    doc,            \* the document at the server: its entries, and whether it says more
    edit,           \* the tables: entries and whether a row is blank; None before the load
    dirty,          \* the page says "Unsaved changes", else "All changes saved"
    loading, saving,
    raw, rawOpen,   \* the raw text, None if it is not JSON; whether it is open
    job,            \* the request in progress: loading and saving exclude one another
    acts, faults,   \* bounds
    elsewhere,      \* history: saved by another tab, or unseen, since the page loaded or saved
    typed,          \* history: the tables were edited during the save in progress
    left            \* history: or during one that is done, and were not saved since

page == <<edit, dirty, loading, saving, raw, rawOpen>>
vars == <<doc, page, job, acts, faults, elsewhere, typed, left>>

Docs == [entries : SUBSET Entries, more : BOOLEAN]
Edits == [rows : SUBSET Entries, blank : BOOLEAN]

\* What a document says beyond the four categories is not parsed, and a blank row is not
\* written.  A text that is not JSON would be parsed as a dictionary without entries.
ParseDictionary(text) == IF text = None THEN {} ELSE text.entries
ToEdit(entries) == [rows |-> entries, blank |-> FALSE]
ToDictionary(e) == e.rows
Document(entries) == [entries |-> entries, more |-> FALSE]
CurrentDictionary == ToDictionary(edit)

Init ==
    /\ doc \in Docs /\ edit = None /\ dirty = FALSE /\ loading = TRUE /\ saving = FALSE
    /\ raw = Document({}) /\ rawOpen = FALSE
    /\ job = [op |-> "load", entries |-> {}, served |-> FALSE]
    /\ acts = 0 /\ faults = 0 /\ elsewhere = FALSE
    /\ typed = FALSE /\ left = FALSE

-----------------------------------------------------------------------------
(* Requests *)

FetchDictionary ==
    /\ job # None /\ ~job.served /\ job.op = "load"
    /\ job' = [job EXCEPT !.served = TRUE, !.entries = ParseDictionary(doc)]
    /\ elsewhere' = FALSE
    /\ UNCHANGED <<doc, page, acts, faults, typed, left>>

SaveDictionary ==
    /\ job # None /\ ~job.served /\ job.op # "load"
    /\ doc' = Document(job.entries) /\ job' = [job EXCEPT !.served = TRUE]
    /\ elsewhere' = FALSE
    /\ UNCHANGED <<page, acts, faults, typed, left>>

\* Another tab saves: this page there, or the settings of the clip factory.
SavedElsewhere ==
    /\ acts < MaxActs /\ acts' = acts + 1 /\ doc' \in Docs \ {doc} /\ elsewhere' = TRUE
    /\ UNCHANGED <<page, job, faults, typed, left>>

Load ==
    /\ job # None /\ job.served /\ job.op = "load" /\ job' = None
    /\ edit' = ToEdit(job.entries) /\ raw' = Document(job.entries)
    /\ dirty' = FALSE /\ loading' = FALSE
    /\ UNCHANGED <<doc, saving, rawOpen, acts, faults, elsewhere, typed, left>>

\* What was typed during the save is marked as saved with the rest.
Saved ==
    /\ job # None /\ job.served /\ job.op = "save" /\ job' = None
    /\ raw' = Document(job.entries) /\ dirty' = FALSE /\ saving' = FALSE
    /\ left' = typed
    /\ UNCHANGED <<doc, edit, loading, rawOpen, acts, faults, elsewhere, typed>>

\* Fault: the tables are left as they are.
SavedRawOnly ==
    /\ job # None /\ job.served /\ job.op = "raw" /\ job' = None
    /\ dirty' = FALSE /\ saving' = FALSE
    /\ UNCHANGED <<doc, edit, loading, raw, rawOpen, acts, faults, elsewhere, typed, left>>

\* The tables are filled from the raw text, whatever was typed in them meanwhile.
SavedRaw ==
    /\ job # None /\ job.served /\ job.op = "raw" /\ job' = None
    /\ edit' = ToEdit(job.entries) /\ dirty' = FALSE /\ saving' = FALSE /\ left' = FALSE
    /\ UNCHANGED <<doc, loading, raw, rawOpen, acts, faults, elsewhere, typed>>

Fails ==
    /\ job # None /\ faults < MaxFaults /\ faults' = faults + 1 /\ job' = None
    /\ loading' = FALSE /\ saving' = FALSE
    /\ elsewhere' = (elsewhere \/ (job.served /\ job.op # "load"))
    /\ UNCHANGED <<doc, edit, dirty, raw, rawOpen, acts, typed, left>>

-----------------------------------------------------------------------------
(* The user *)

Act == acts < MaxActs /\ acts' = acts + 1

Mutate(next) ==
    /\ Act /\ ~loading /\ edit' = next /\ dirty' = TRUE
    /\ typed' = (typed \/ saving)
    /\ UNCHANGED <<doc, loading, saving, raw, rawOpen, job, faults, elsewhere, left>>

AddRow == Mutate([edit EXCEPT !.blank = TRUE])
UpdateCell(e) == edit.blank /\ Mutate([edit EXCEPT !.rows = @ \cup {e}, !.blank = FALSE])
RemoveRow(e) == e \in edit.rows /\ Mutate([edit EXCEPT !.rows = @ \ {e}])
DictionaryTable == edit # None /\ (AddRow \/ \E e \in Entries : UpdateCell(e) \/ RemoveRow(e))

ToggleRaw ==
    /\ Act /\ edit # None /\ rawOpen' = ~rawOpen
    /\ raw' = IF rawOpen THEN raw ELSE Document(CurrentDictionary)
    /\ UNCHANGED <<doc, edit, dirty, loading, saving, job, faults, elsewhere, typed, left>>
TypeRaw ==
    /\ Act /\ rawOpen /\ raw' \in (Docs \cup {None}) \ {raw}
    /\ UNCHANGED <<doc, edit, dirty, loading, saving, rawOpen, job, faults, elsewhere, typed, left>>

Send(op, entries) ==
    /\ Act /\ saving' = TRUE /\ typed' = FALSE
    /\ job' = [op |-> op, entries |-> entries, served |-> FALSE]
    /\ UNCHANGED <<doc, edit, dirty, loading, raw, rawOpen, faults, elsewhere, left>>

SaveButton == edit # None /\ ~saving /\ dirty
SaveRawButton == edit # None /\ ~saving /\ rawOpen

HandleSave == SaveButton /\ Send("save", CurrentDictionary)
\* A text that is not JSON is refused after it was parsed, and before it is sent.
HandleSaveRaw == SaveRawButton /\ raw # None /\ Send("raw", ParseDictionary(raw))

Next ==
    \/ FetchDictionary \/ SaveDictionary \/ SavedElsewhere \/ Load \/ Saved \/ SavedRaw \/ Fails
    \/ DictionaryTable \/ ToggleRaw \/ TypeRaw \/ HandleSave \/ HandleSaveRaw

Spec == Init /\ [][Next]_vars

-----------------------------------------------------------------------------
(* Properties *)

Requests == [op : {"load", "save", "raw"}, entries : SUBSET Entries, served : BOOLEAN]

\* What the document, the page and the request range over.
TypeOK ==
    /\ doc \in Docs /\ edit \in Edits \cup {None} /\ raw \in Docs \cup {None}
    /\ {dirty, loading, saving, rawOpen, elsewhere, typed, left} \subseteq BOOLEAN
    /\ job \in Requests \cup {None}
    /\ acts \in 0..MaxActs /\ faults \in 0..MaxFaults

\* A page that says that all changes are saved shows the dictionary of the server, unless
\* another tab saved since, the answer to a save was lost, or rows were edited while
\* a save was in progress.
SavedMeansStored ==
    edit # None /\ ~dirty /\ job = None /\ ~elsewhere /\ ~left =>
        CurrentDictionary = ParseDictionary(doc)

\* The page is loading or saving just while its request is in progress.
ButtonsComeBack == loading \/ saving <=> job # None
=============================================================================
