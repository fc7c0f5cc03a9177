---------------------------- MODULE FrontEndProofs ----------------------------
(***************************************************************************)
(* The safety properties of the cards, the panels and the pages of the     *)
(* profiles and of the ideas in FrontEnd, proved for any texts, ranges,    *)
(* ideas, entries, slots, acts and faults.  The properties speak of what   *)
(* is at rest; each invariant says of every state what the requests that   *)
(* are on their way will bring.  The lists of the factories are proved     *)
(* about in FactoryListsProofs.                                            *)
(***************************************************************************)
EXTENDS FrontEnd, TLAPS

-----------------------------------------------------------------------------
(* The dictionary of the sources *)

\* The page is loading until it has tables, and saving while a request to save is under way.
SourcesFlags ==
    /\ loading <=> job # None /\ job.op = "load"
    /\ saving <=> job # None /\ job.op # "load"
    /\ loading => edit = None
    /\ rawOpen => edit # None
    /\ job # None /\ job.op = "save" => dirty

\* What the answer that is on its way will show is the document, and the tables hold what is
\* being saved, unless they were typed in since.
SourcesComing ==
    job # None =>
        /\ job.served /\ ~elsewhere => job.entries = doc.entries
        /\ job.op = "save" => edit # None /\ (~typed => edit.rows = job.entries)

\* Tables without changes are the document, or will be filled from the raw text.
SourcesAtRest ==
    edit # None /\ ~dirty /\ ~elsewhere /\ ~left =>
        \/ edit.rows = doc.entries
        \/ job # None /\ job.op = "raw" /\ job.served

\* The inductive invariant of the page of the sources.
SourcesInv == SourcesPage!TypeOK /\ SourcesFlags /\ SourcesComing /\ SourcesAtRest

-----------------------------------------------------------------------------
(* The settings *)

\* Requests that save kind k.
Saves(r, k) == job[r] # None /\ ~job[r].load /\ k \in DOMAIN job[r].got

\* A panel that loads does nothing else; a request to save is about one kind.
SettingsAlone ==
    \A r \in CardSlots : job[r] # None =>
        /\ job[r].load =>
             /\ DOMAIN job[r].got = kinds /\ saving = None /\ kept = {}
             /\ \A s \in CardSlots : job[s] # None => s = r
        /\ ~job[r].load => \E k \in kinds : DOMAIN job[r].got = {k}

\* Two requests that save one kind at once are remembered.
SettingsOnce ==
    \A k \in kinds \ mixed : \A r, s \in CardSlots : Saves(r, k) /\ Saves(s, k) => r = s

\* A request that was served has what the server holds, and one to save what the panel
\* shows, unless that was typed in since.
SettingsComing ==
    \A r \in CardSlots : \A k \in kinds \ mixed : job[r] # None /\ k \in DOMAIN job[r].got =>
        /\ job[r].served => job[r].got[k] = stored[k]
        /\ ~job[r].load /\ k \in kept => job[r].got[k] = text[k]

\* The inductive invariant of the settings.
SettingsInv ==
    /\ SettingsPanel!TypeOK /\ SettingsAlone /\ SettingsOnce /\ SettingsComing
    /\ SettingsPanel!SavedMeansStored /\ SettingsPanel!ButtonsComeBack

-----------------------------------------------------------------------------
(* The cards *)

\* Two requests at once are remembered.
OneRequest(S) == ~disturbed => \A r, s \in S : job[r] # None /\ job[s] # None => r = s

\* A card that is not mounted will be, by a list that is read.
ArticleCardComesBack ==
    ~disturbed /\ shown = None => \E r \in CardSlots : job[r] # None /\ job[r].op = "reload"

\* The answer that is on its way has the row.
ArticleCardComing ==
    \A r \in CardSlots : job[r] # None /\ job[r].served =>
        job[r].answer # None /\ (~disturbed => job[r].answer = row)

\* Until a request is served, the card shows its row.
ArticleCardAtRest ==
    ~disturbed /\ shown # None /\ (\A r \in CardSlots : job[r] # None => ~job[r].served) =>
        shown = row /\ (edited \/ box = row.text)

\* The inductive invariant of the card of a post.
ArticleCardInv ==
    /\ ArticleCard!TypeOK /\ OneRequest(CardSlots)
    /\ ArticleCardComesBack /\ ArticleCardComing /\ ArticleCardAtRest
    /\ ArticleCard!ButtonsComeBack

\* A request of the clip card has the boxes it was sent with, and the row as it was found.
ClipCardRequests ==
    \A r \in CardSlots : job[r] # None =>
        /\ job[r].op # "reload" => job[r].of # None
        /\ job[r].phase \in {"cutting", "refused"} => job[r].op = "trim"
        /\ job[r].phase \in {"cutting", "served"} => job[r].answer # None

\* The answer that is on its way has the row, the former one while the clip is cut.
ClipCardComing ==
    \A r \in CardSlots : job[r] # None /\ ~disturbed =>
        /\ job[r].phase = "served" => job[r].answer = row
        /\ job[r].phase = "cutting" =>
             /\ job[r].answer = shown /\ shown = [row EXCEPT !.range = shown.range]
             /\ "text" \in edited \/ box.text = shown.text
             /\ "range" \in edited \/ box.range = shown.range

\* Until a request is served, the clip card shows its row.
ClipCardAtRest ==
    ~disturbed /\ (\A r \in CardSlots : job[r] # None =>
                       job[r].phase \in {"sent", "refused"} /\ job[r].op # "reload") =>
        /\ shown = row
        /\ "text" \in edited \/ box.text = row.text
        /\ "range" \in edited \/ box.range = row.range

\* The inductive invariant of the card of a clip.
ClipCardInv ==
    /\ CandidateCard!TypeOK /\ OneRequest(CardSlots)
    /\ ClipCardRequests /\ ClipCardComing /\ ClipCardAtRest
    /\ CandidateCard!TranscriptMatches /\ CandidateCard!ButtonsComeBack

-----------------------------------------------------------------------------
(* The ideas *)

\* A request has an idea, and the answer that is on its way a text or a list.
IdeasRequests ==
    \A r \in CardSlots : job[r] # None =>
        /\ job[r].op # "refresh" => job[r].id \in Ideas
        /\ job[r].op = "create" => job[r].id = NewIdea /\ job[r].mine
        /\ job[r].served /\ job[r].op = "refresh" => job[r].answer \in IdeasPage!Tables
        /\ job[r].served /\ job[r].op \in {"create", "save"} => job[r].answer \in Texts

\* What is selected is listed.
IdeasListed == selected = None \/ selected \in IdeasPage!Listed(ideas)

\* The list is the table, up to the answer that is on its way.
IdeasComing ==
    ~disturbed =>
        \/ /\ ideas = rows
           /\ \A r \in CardSlots : job[r] # None => ~job[r].served /\ job[r].op # "refresh"
        \/ \E r \in CardSlots : job[r] # None /\
             \/ job[r].op = "refresh" /\ (job[r].served => job[r].answer = rows)
             \/ /\ job[r].served /\ job[r].op \in {"create", "save"} /\ job[r].answer # None
                /\ job[r].op = "save" => ideas[job[r].id] # None
                /\ rows = [ideas EXCEPT ![job[r].id] = job[r].answer]
             \/ job[r].served /\ job[r].op = "delete" /\ rows = [ideas EXCEPT ![job[r].id] = None]

\* The requests that will reset a flag of the mounted card or page.
Resets(r, op) == job[r] # None /\ job[r].op = op /\ job[r].mine

\* Each flag has one request that will reset it, unless another idea was selected while the
\* one shown was removed.
IdeasFlags ==
    /\ \A op \in busy : (op = "delete" => ~switched) => \E r \in CardSlots : Resets(r, op)
    /\ \A op \in {"create", "save", "delete"} : \A r \in CardSlots :
         Resets(r, op) => op \in busy /\ \A s \in CardSlots : Resets(s, op) => s = r
    /\ \A r \in CardSlots : Resets(r, "delete") /\ ~switched => selected = job[r].id

\* The inductive invariant of the page of the ideas.
IdeasInv ==
    /\ IdeasPage!TypeOK /\ OneRequest(CardSlots) /\ IdeasRequests /\ IdeasListed
    /\ IdeasComing /\ IdeasPage!ShowsItsRow /\ IdeasFlags

-----------------------------------------------------------------------------
(* Proofs: the dictionary of the sources *)

\* The page opens with the request for the document.
LEMMA SourcesBegins == SourcesPage!Init => SourcesInv
<1> SUFFICES ASSUME SourcesPage!Init PROVE SourcesInv OBVIOUS
<1> USE NoneIsNoValue, BoundsAreNatural DEF SourcesPage!Init
<1>1. job \in SourcesPage!Requests BY DEF SourcesPage!Requests
<1>2. raw \in SourcesPage!Docs BY DEF SourcesPage!Docs, SourcesPage!Document
<1>3. SourcesPage!TypeOK
  <2>1. {dirty, loading, saving, rawOpen, elsewhere, typed, left} \subseteq BOOLEAN OBVIOUS
  <2>2. acts \in 0..CardActs /\ faults \in 0..MaxFaults OBVIOUS
  <2> QED BY <1>1, <1>2, <2>1, <2>2 DEF SourcesPage!TypeOK
<1>4. SourcesFlags /\ SourcesComing /\ SourcesAtRest
  BY <1>1 DEF SourcesFlags, SourcesComing, SourcesAtRest
<1> QED BY <1>3, <1>4 DEF SourcesInv

\* What is taken from a document or a table is again entries.
LEMMA SourcesTypes ==
  /\ \A E \in SUBSET Entries : SourcesPage!Document(E) \in SourcesPage!Docs
                               /\ SourcesPage!ToEdit(E) \in SourcesPage!Edits
  /\ \A d \in SourcesPage!Docs : /\ d # None /\ d.entries \in SUBSET Entries
                                 /\ SourcesPage!ParseDictionary(d) = d.entries
  /\ \A e \in SourcesPage!Edits : e # None /\ e.rows \in SUBSET Entries
  /\ \A j \in SourcesPage!Requests :
       /\ j # None /\ j.served \in BOOLEAN /\ j.entries \in SUBSET Entries
       /\ [j EXCEPT !.served = TRUE] \in SourcesPage!Requests
  /\ \A E \in SUBSET Entries : \A op \in {"save", "raw"} :
       [op |-> op, entries |-> E, served |-> FALSE] \in SourcesPage!Requests
BY NoneIsNoValue
  DEF SourcesPage!Document, SourcesPage!Docs, SourcesPage!ToEdit, SourcesPage!Edits,
      SourcesPage!ParseDictionary, SourcesPage!Requests

\* A change of a table is a change of its rows.
LEMMA TableChanges ==
  ASSUME SourcesPage!TypeOK, SourcesPage!DictionaryTable
  PROVE  edit # None /\ \E next \in SourcesPage!Edits : SourcesPage!Mutate(next)
<1>1. edit \in SourcesPage!Edits BY DEF SourcesPage!DictionaryTable, SourcesPage!TypeOK
<1> QED
  BY <1>1
    DEF SourcesPage!DictionaryTable, SourcesPage!AddRow, SourcesPage!UpdateCell,
        SourcesPage!RemoveRow, SourcesPage!Edits

\* Every step of the page keeps its types.
LEMMA SourcesTyped == SourcesInv /\ SourcesPage!Next => SourcesPage!TypeOK'
<1> SUFFICES ASSUME SourcesInv, SourcesPage!Next PROVE SourcesPage!TypeOK' OBVIOUS
<1> USE SourcesTypes DEF SourcesInv, SourcesPage!TypeOK, SourcesPage!page
<1>1. CASE SourcesPage!FetchDictionary
  <2>1. job \in SourcesPage!Requests BY <1>1 DEF SourcesPage!FetchDictionary
  <2>2. job' \in SourcesPage!Requests
    BY <1>1, <2>1 DEF SourcesPage!FetchDictionary, SourcesPage!Requests
  <2> QED BY <1>1, <2>2 DEF SourcesPage!FetchDictionary
<1>2. CASE SourcesPage!SaveDictionary BY <1>2 DEF SourcesPage!SaveDictionary
<1>3. CASE SourcesPage!SavedElsewhere BY <1>3, BoundsAreNatural DEF SourcesPage!SavedElsewhere
<1>4. CASE SourcesPage!Load BY <1>4 DEF SourcesPage!Load
<1>5. CASE SourcesPage!Saved BY <1>5 DEF SourcesPage!Saved
<1>6. CASE SourcesPage!SavedRaw BY <1>6 DEF SourcesPage!SavedRaw
<1>7. CASE SourcesPage!Fails
  <2>1. faults' \in 0..MaxFaults BY <1>7, BoundsAreNatural DEF SourcesPage!Fails
  <2>2. elsewhere' \in BOOLEAN BY <1>7 DEF SourcesPage!Fails
  <2> QED BY <1>7, <2>1, <2>2 DEF SourcesPage!Fails
<1>8. CASE SourcesPage!DictionaryTable
  <2>1. PICK next \in SourcesPage!Edits : SourcesPage!Mutate(next) BY <1>8, TableChanges
  <2> QED BY <2>1, BoundsAreNatural DEF SourcesPage!Mutate, SourcesPage!Act
<1>9. CASE SourcesPage!ToggleRaw
  <2>1. edit \in SourcesPage!Edits BY <1>9 DEF SourcesPage!ToggleRaw
  <2>2. raw' \in SourcesPage!Docs \cup {None}
    BY <1>9, <2>1 DEF SourcesPage!ToggleRaw, SourcesPage!CurrentDictionary, SourcesPage!ToDictionary
  <2> QED BY <1>9, <2>2, BoundsAreNatural DEF SourcesPage!ToggleRaw, SourcesPage!Act
<1>10. CASE SourcesPage!TypeRaw BY <1>10, BoundsAreNatural DEF SourcesPage!TypeRaw, SourcesPage!Act
<1>11. CASE SourcesPage!HandleSave
  <2>1. SourcesPage!CurrentDictionary \in SUBSET Entries
    BY <1>11
      DEF SourcesPage!HandleSave, SourcesPage!SaveButton, SourcesPage!CurrentDictionary,
          SourcesPage!ToDictionary
  <2>2. acts' \in 0..CardActs
    BY <1>11, BoundsAreNatural DEF SourcesPage!HandleSave, SourcesPage!Send, SourcesPage!Act
  <2>3. job' \in SourcesPage!Requests BY <1>11, <2>1 DEF SourcesPage!HandleSave, SourcesPage!Send
  <2> QED BY <1>11, <2>2, <2>3 DEF SourcesPage!HandleSave, SourcesPage!Send
<1>12. CASE SourcesPage!HandleSaveRaw
  <2>1. SourcesPage!ParseDictionary(raw) \in SUBSET Entries
    BY <1>12 DEF SourcesPage!HandleSaveRaw
  <2>2. acts' \in 0..CardActs
    BY <1>12, BoundsAreNatural DEF SourcesPage!HandleSaveRaw, SourcesPage!Send, SourcesPage!Act
  <2>3. job' \in SourcesPage!Requests
    BY <1>12, <2>1 DEF SourcesPage!HandleSaveRaw, SourcesPage!Send
  <2> QED BY <1>12, <2>2, <2>3 DEF SourcesPage!HandleSaveRaw, SourcesPage!Send
<1> QED
  BY <1>1, <1>2, <1>3, <1>4, <1>5, <1>6, <1>7, <1>8, <1>9, <1>10, <1>11, <1>12 DEF SourcesPage!Next

\* Every step of the page of the sources preserves its invariant.
LEMMA SourcesStep == SourcesInv /\ SourcesPage!Next => SourcesInv'
<1> SUFFICES ASSUME SourcesInv, SourcesPage!Next PROVE SourcesInv' OBVIOUS
<1>1. SourcesPage!TypeOK /\ SourcesPage!TypeOK' BY SourcesTyped DEF SourcesInv
<1>2. SourcesFlags' /\ SourcesComing' /\ SourcesAtRest'
  <2> USE <1>1, SourcesTypes
      DEF SourcesInv, SourcesFlags, SourcesComing, SourcesAtRest, SourcesPage!TypeOK, SourcesPage!page
  <2>1. CASE SourcesPage!FetchDictionary
    <3>1. job \in SourcesPage!Requests /\ doc \in SourcesPage!Docs
      BY <1>1, <2>1 DEF SourcesPage!FetchDictionary
    <3>2. job' \in SourcesPage!Requests
      BY <2>1, <3>1 DEF SourcesPage!FetchDictionary, SourcesPage!Requests
    <3>3. job'.op = "load" /\ job.op = "load" /\ job'.entries = doc.entries /\ edit = None
      BY <2>1, <3>1 DEF SourcesPage!FetchDictionary, SourcesPage!Requests
    <3> QED BY <2>1, <3>1, <3>2, <3>3 DEF SourcesPage!FetchDictionary
  <2>2. CASE SourcesPage!SaveDictionary
    BY <2>2 DEF SourcesPage!SaveDictionary, SourcesPage!Requests, SourcesPage!Document
  <2>3. CASE SourcesPage!SavedElsewhere BY <2>3 DEF SourcesPage!SavedElsewhere
  <2>4. CASE SourcesPage!Load BY <2>4 DEF SourcesPage!Load, SourcesPage!ToEdit
  <2>5. CASE SourcesPage!Saved BY <2>5 DEF SourcesPage!Saved
  <2>6. CASE SourcesPage!SavedRaw BY <2>6 DEF SourcesPage!SavedRaw, SourcesPage!ToEdit
  <2>7. CASE SourcesPage!Fails BY <2>7 DEF SourcesPage!Fails
  <2>8. CASE SourcesPage!DictionaryTable
    <3>0. edit # None BY <1>1, <2>8, TableChanges
    <3>1. PICK next \in SourcesPage!Edits : SourcesPage!Mutate(next) BY <1>1, <2>8, TableChanges
    <3>2. /\ UNCHANGED <<doc, loading, saving, raw, rawOpen, job, elsewhere, left>> /\ dirty' = TRUE
          /\ ~loading /\ (typed' <=> typed \/ saving)
      BY <3>1 DEF SourcesPage!Mutate
    <3>3. edit' # None BY <3>1 DEF SourcesPage!Mutate
    <3>4. SourcesFlags' BY <3>0, <3>2, <3>3
    <3>5. SourcesComing' BY <3>0, <3>2, <3>3
    <3>6. SourcesAtRest' BY <3>2
    <3> QED BY <3>4, <3>5, <3>6
  <2>9. CASE SourcesPage!ToggleRaw BY <2>9 DEF SourcesPage!ToggleRaw
  <2>10. CASE SourcesPage!TypeRaw BY <2>10 DEF SourcesPage!TypeRaw
  <2>11. CASE SourcesPage!HandleSave
    BY <2>11 DEF SourcesPage!HandleSave, SourcesPage!SaveButton, SourcesPage!Send,
          SourcesPage!CurrentDictionary, SourcesPage!ToDictionary
  <2>12. CASE SourcesPage!HandleSaveRaw
    BY <2>12 DEF SourcesPage!HandleSaveRaw, SourcesPage!SaveRawButton, SourcesPage!Send
  <2> QED
    BY <2>1, <2>2, <2>3, <2>4, <2>5, <2>6, <2>7, <2>8, <2>9, <2>10, <2>11, <2>12 DEF SourcesPage!Next
<1> QED BY <1>1, <1>2 DEF SourcesInv

\* The properties of the page of the sources follow.
LEMMA SourcesFollow ==
  SourcesInv => SourcesPage!SavedMeansStored /\ SourcesPage!ButtonsComeBack
BY SourcesTypes
  DEF SourcesInv, SourcesPage!TypeOK, SourcesFlags, SourcesAtRest, SourcesPage!SavedMeansStored,
      SourcesPage!ButtonsComeBack, SourcesPage!CurrentDictionary, SourcesPage!ToDictionary

-----------------------------------------------------------------------------
(* Proofs: the settings *)

\* The panels and their kinds.
LEMMA SettingsKinds ==
  ASSUME SettingsPanel!TypeOK
  PROVE  kinds \in SUBSET UNION SettingsPanel!Panels /\ None \notin kinds
BY NoneIsNoValue DEF SettingsPanel!TypeOK

\* A request is no value, and one that is served, or made, is again a request.
LEMMA SettingsTypes ==
  /\ \A j \in SettingsPanel!Requests :
       /\ j # None /\ j.load \in BOOLEAN /\ j.served \in BOOLEAN
       /\ DOMAIN j.got \subseteq UNION SettingsPanel!Panels
       /\ \A k \in DOMAIN j.got : j.got[k] \in Texts \cup Broken \cup {Empty}
       /\ [j EXCEPT !.served = TRUE] \in SettingsPanel!Requests
  /\ \A K \in SUBSET UNION SettingsPanel!Panels : \A g \in [K -> Texts \cup Broken \cup {Empty}] :
       \A load, served \in BOOLEAN :
         [load |-> load, got |-> g, served |-> served] \in SettingsPanel!Requests
<1> DEFINE Gots == UNION {[K -> (Texts \cup Broken) \cup {Empty}] : K \in SUBSET UNION SettingsPanel!Panels}
<1>1. SettingsPanel!Requests = [load : BOOLEAN, served : BOOLEAN, got : Gots]
  BY DEF SettingsPanel!Requests
<1>2. ASSUME NEW K \in SUBSET UNION SettingsPanel!Panels,
             NEW g \in [K -> (Texts \cup Broken) \cup {Empty}]
      PROVE  g \in Gots
  OBVIOUS
<1>3. ASSUME NEW g \in Gots
      PROVE  /\ DOMAIN g \subseteq UNION SettingsPanel!Panels
             /\ \A k \in DOMAIN g : g[k] \in Texts \cup Broken \cup {Empty}
  <2>1. PICK K \in SUBSET UNION SettingsPanel!Panels : g \in [K -> (Texts \cup Broken) \cup {Empty}]
    OBVIOUS
  <2> QED BY <2>1
<1> HIDE DEF Gots
<1>4. ASSUME NEW j \in SettingsPanel!Requests
      PROVE  /\ j # None /\ j.load \in BOOLEAN /\ j.served \in BOOLEAN /\ j.got \in Gots
             /\ [j EXCEPT !.served = TRUE] \in SettingsPanel!Requests
  BY <1>1, NoneIsNoValue
<1>5. ASSUME NEW K \in SUBSET UNION SettingsPanel!Panels,
             NEW g \in [K -> (Texts \cup Broken) \cup {Empty}],
             NEW load \in BOOLEAN, NEW served \in BOOLEAN
      PROVE  [load |-> load, got |-> g, served |-> served] \in SettingsPanel!Requests
  BY <1>1, <1>2
<1> QED BY <1>3, <1>4, <1>5

\* A request to save is about one kind.
LEMMA SettingsUpdate ==
  ASSUME NEW k \in UNION SettingsPanel!Panels, NEW t \in Texts \cup Broken \cup {Empty}
  PROVE  /\ SettingsPanel!Update(k, t) \in SettingsPanel!Requests
         /\ SettingsPanel!Update(k, t).load = FALSE /\ SettingsPanel!Update(k, t).served = FALSE
         /\ DOMAIN SettingsPanel!Update(k, t).got = {k} /\ SettingsPanel!Update(k, t).got[k] = t
<1>1. [x \in {k} |-> t] \in [{k} -> Texts \cup Broken \cup {Empty}] OBVIOUS
<1>2. {k} \in SUBSET UNION SettingsPanel!Panels OBVIOUS
<1> QED BY <1>1, <1>2, SettingsTypes DEF SettingsPanel!Update

\* The panel opens with the request for the profiles.
LEMMA SettingsBegins == SettingsPanel!Init => SettingsInv
<1> SUFFICES ASSUME SettingsPanel!Init PROVE SettingsInv OBVIOUS
<1>1. kinds \in SettingsPanel!Panels /\ stored \in [kinds -> Texts \cup Broken]
  BY DEF SettingsPanel!Init
<1>2. text = [k \in kinds |-> Empty] /\ text \in [kinds -> Texts \cup Broken \cup {Empty}]
  BY DEF SettingsPanel!Init
<1>3. kinds \in SUBSET UNION SettingsPanel!Panels BY <1>1
<1>4. PICK r \in CardSlots :
        job = [s \in CardSlots |-> IF s = r THEN [load |-> TRUE, got |-> text, served |-> FALSE]
                                   ELSE None]
  BY DEF SettingsPanel!Init
<1>5. [load |-> TRUE, got |-> text, served |-> FALSE] \in SettingsPanel!Requests
  BY <1>2, <1>3, SettingsTypes
<1>6. /\ job \in [CardSlots -> SettingsPanel!Requests \cup {None}]
      /\ \A s \in CardSlots : job[s] # None =>
           s = r /\ job[s].load /\ ~job[s].served /\ DOMAIN job[s].got = kinds
  BY <1>2, <1>4, <1>5
<1>7. saving = None /\ kept = {} /\ mixed = {} /\ acts = 0 /\ faults = 0 BY DEF SettingsPanel!Init
<1>8. SettingsPanel!TypeOK BY <1>1, <1>2, <1>6, <1>7, BoundsAreNatural DEF SettingsPanel!TypeOK
<1>9. SettingsAlone /\ SettingsOnce /\ SettingsComing
  BY <1>6, <1>7 DEF SettingsAlone, SettingsOnce, SettingsComing, Saves
<1>10. SettingsPanel!SavedMeansStored /\ SettingsPanel!ButtonsComeBack
  BY <1>7 DEF SettingsPanel!SavedMeansStored, SettingsPanel!ButtonsComeBack
<1> QED BY <1>8, <1>9, <1>10 DEF SettingsInv

\* While the profiles are loaded nothing else is under way, and no text is kept.
LEMMA SettingsLoading ==
  ASSUME SettingsInv, NEW r \in CardSlots, job[r] # None, job[r].load
  PROVE  /\ kept = {} /\ saving = None /\ DOMAIN job[r].got = kinds
         /\ \A s \in CardSlots : job[s] # None => s = r
BY DEF SettingsInv, SettingsAlone

\* A request that is answered.
LEMMA SettingsFetch ==
  ASSUME SettingsInv, NEW r \in CardSlots, SettingsPanel!FetchProfiles(r)
  PROVE  SettingsInv'
<1> USE DEF SettingsPanel!FetchProfiles, SettingsPanel!panel
<1>1. SettingsPanel!TypeOK BY DEF SettingsInv
<1>2. PICK g \in [kinds -> Texts \cup Broken] : g = stored BY <1>1 DEF SettingsPanel!TypeOK
<1>3. PICK j \in SettingsPanel!Requests : j = job[r] BY <1>1 DEF SettingsPanel!TypeOK
<1>4. PICK n : n = [j EXCEPT !.served = TRUE, !.got = g] OBVIOUS
<1>5. n = [load |-> TRUE, served |-> TRUE, got |-> g] BY <1>3, <1>4 DEF SettingsPanel!Requests
<1>6. n \in SettingsPanel!Requests /\ n.load /\ n.served /\ n.got = stored /\ DOMAIN n.got = kinds /\ n # None
  <2>1. g \in [kinds -> Texts \cup Broken \cup {Empty}] OBVIOUS
  <2>2. kinds \in SUBSET UNION SettingsPanel!Panels BY <1>1, SettingsKinds
  <2>3. n \in SettingsPanel!Requests BY <1>5, <2>1, <2>2, SettingsTypes
  <2> QED BY <1>2, <1>5, <2>3, SettingsTypes
<1>7. job' = [job EXCEPT ![r] = n] BY <1>2, <1>3, <1>4
<1>8. job'[r] = n /\ \A s \in CardSlots \ {r} : job'[s] = None
  BY <1>1, <1>7, SettingsLoading DEF SettingsPanel!TypeOK
<1>9. job' \in [CardSlots -> SettingsPanel!Requests \cup {None}]
  BY <1>1, <1>6, <1>7 DEF SettingsPanel!TypeOK
<1>10. kept = {} /\ saving = None BY SettingsLoading
<1>11. SettingsPanel!TypeOK' BY <1>1, <1>6, <1>8, <1>9 DEF SettingsPanel!TypeOK
<1>12. SettingsAlone' BY <1>6, <1>8, <1>10 DEF SettingsAlone
<1>13. SettingsOnce' BY <1>6, <1>8 DEF SettingsOnce, Saves
<1>14. SettingsComing' BY <1>6, <1>8 DEF SettingsComing
<1>15. SettingsPanel!SavedMeansStored' /\ SettingsPanel!ButtonsComeBack'
  BY <1>10 DEF SettingsPanel!SavedMeansStored, SettingsPanel!ButtonsComeBack
<1> QED BY <1>11, <1>12, <1>13, <1>14, <1>15 DEF SettingsInv

\* The server stores what a request brings: other requests for that kind are remembered.
LEMMA SettingsStore ==
  ASSUME SettingsInv, NEW r \in CardSlots, SettingsPanel!UpdateProfile(r)
  PROVE  SettingsInv'
<1> USE DEF SettingsPanel!UpdateProfile, SettingsPanel!panel
<1>1. SettingsPanel!TypeOK BY DEF SettingsInv
<1>2. PICK j \in SettingsPanel!Requests : j = job[r] BY <1>1 DEF SettingsPanel!TypeOK
<1>3. PICK k \in DOMAIN j.got : j.got[k] # Empty /\ stored' = [stored EXCEPT ![k] = j.got[k]]
  BY <1>2
<1>4. k \in kinds /\ DOMAIN j.got = {k} BY <1>2, <1>3 DEF SettingsInv, SettingsAlone
<1>5. PICK n : n = [j EXCEPT !.served = TRUE] OBVIOUS
<1>6. n \in SettingsPanel!Requests /\ n.served /\ ~n.load /\ n.got = j.got /\ n # None
  BY <1>2, <1>5, SettingsTypes DEF SettingsPanel!Requests
<1>7. job' = [job EXCEPT ![r] = n] BY <1>2, <1>5
<1>8. job'[r] = n /\ \A s \in CardSlots \ {r} : job'[s] = job[s]
  BY <1>1, <1>7 DEF SettingsPanel!TypeOK
<1>9. job' \in [CardSlots -> SettingsPanel!Requests \cup {None}]
  BY <1>1, <1>6, <1>7 DEF SettingsPanel!TypeOK
<1>10. stored' \in [kinds -> Texts \cup Broken]
  BY <1>1, <1>2, <1>3, <1>4, SettingsTypes DEF SettingsPanel!TypeOK
<1>11. stored'[k] = j.got[k] /\ \A l \in kinds \ {k} : stored'[l] = stored[l]
  BY <1>1, <1>3, <1>4 DEF SettingsPanel!TypeOK
<1>12. \A s \in CardSlots \ {r} : job[s] # None => ~job[s].load
  BY <1>2, SettingsLoading
<1>13. SettingsPanel!TypeOK' BY <1>1, <1>4, <1>6, <1>8, <1>9, <1>10 DEF SettingsPanel!TypeOK
<1>14. SettingsAlone' BY <1>4, <1>6, <1>8, <1>12 DEF SettingsInv, SettingsAlone
<1>15. \A s \in CardSlots, l \in kinds : Saves(s, l)' <=> Saves(s, l)
  BY <1>2, <1>6, <1>8 DEF Saves
<1>16. SettingsOnce' BY <1>15 DEF SettingsInv, SettingsOnce
<1>17. SettingsComing'
  <2> SUFFICES ASSUME NEW s \in CardSlots, NEW l \in kinds \ mixed, job'[s] # None, l \in DOMAIN job'[s].got
               PROVE  /\ job'[s].served => job'[s].got[l] = stored'[l]
                      /\ ~job'[s].load /\ l \in kept => job'[s].got[l] = text[l]
    BY DEF SettingsComing
  <2>1. CASE s = r BY <1>2, <1>4, <1>6, <1>8, <1>11, <2>1 DEF SettingsInv, SettingsComing
  <2>2. CASE s # r
    <3>1. job'[s] = job[s] /\ ~job[s].load BY <1>8, <1>12, <2>2
    <3>2. l # k
      <4>1. SUFFICES ASSUME l = k PROVE FALSE OBVIOUS
      <4>2. Saves(r, k) /\ Saves(s, k) BY <1>2, <1>3, <3>1, <4>1 DEF Saves
      <4> QED BY <4>1, <4>2, <2>2 DEF SettingsInv, SettingsOnce
    <3>3. SettingsComing BY DEF SettingsInv
    <3>4. /\ job[s].served => job[s].got[l] = stored[l]
          /\ ~job[s].load /\ l \in kept => job[s].got[l] = text[l]
      BY <3>1, <3>3 DEF SettingsComing
    <3>5. stored'[l] = stored[l] BY <1>11, <3>2
    <3> QED BY <3>1, <3>4, <3>5
  <2> QED BY <2>1, <2>2
<1>18. SettingsPanel!SavedMeansStored'
  <2>1. \A l \in kinds : SettingsPanel!InProgress(l)' <=> SettingsPanel!InProgress(l)
    BY <1>2, <1>6, <1>8 DEF SettingsPanel!InProgress
  <2>2. SettingsPanel!InProgress(k) BY <1>2, <1>3 DEF SettingsPanel!InProgress
  <2>3. kept \subseteq kinds BY <1>1 DEF SettingsPanel!TypeOK
  <2> QED BY <1>11, <2>1, <2>2, <2>3 DEF SettingsInv, SettingsPanel!SavedMeansStored
<1>19. SettingsPanel!ButtonsComeBack'
  BY <1>2, <1>6, <1>8 DEF SettingsInv, SettingsPanel!ButtonsComeBack, SettingsPanel!InProgress
<1> QED BY <1>13, <1>14, <1>16, <1>17, <1>18, <1>19 DEF SettingsInv

\* Another tab saves, which is remembered.
LEMMA SettingsElsewhere ==
  ASSUME SettingsInv, NEW k \in kinds, SettingsPanel!SavedElsewhere(k)
  PROVE  SettingsInv'
<1> USE DEF SettingsPanel!SavedElsewhere, SettingsPanel!panel
<1>1. SettingsPanel!TypeOK BY DEF SettingsInv
<1>2. PICK t \in Texts \cup Broken : stored' = [stored EXCEPT ![k] = t] OBVIOUS
<1>3. /\ stored' \in [kinds -> Texts \cup Broken]
      /\ \A l \in kinds \ {k} : stored'[l] = stored[l]
  BY <1>1, <1>2 DEF SettingsPanel!TypeOK
<1>4. mixed' = mixed \cup {k} /\ acts' \in 0..CardActs
  BY <1>1, BoundsAreNatural DEF SettingsPanel!TypeOK
<1>5. SettingsPanel!TypeOK' BY <1>1, <1>3, <1>4 DEF SettingsPanel!TypeOK
<1>6. SettingsAlone' BY DEF SettingsInv, SettingsAlone
<1>7. SettingsOnce' BY <1>4 DEF SettingsInv, SettingsOnce, Saves
<1>8. SettingsComing' BY <1>3, <1>4 DEF SettingsInv, SettingsComing
<1>9. SettingsPanel!SavedMeansStored'
  BY <1>1, <1>3, <1>4
    DEF SettingsInv, SettingsPanel!SavedMeansStored, SettingsPanel!InProgress, SettingsPanel!TypeOK
<1>10. SettingsPanel!ButtonsComeBack'
  BY DEF SettingsInv, SettingsPanel!ButtonsComeBack, SettingsPanel!InProgress
<1> QED BY <1>5, <1>6, <1>7, <1>8, <1>9, <1>10 DEF SettingsInv

\* A request that ends.
LEMMA SettingsEnds ==
  ASSUME SettingsInv, NEW r \in CardSlots, job[r] # None, job' = [job EXCEPT ![r] = None]
  PROVE  /\ job' \in [CardSlots -> SettingsPanel!Requests \cup {None}] /\ job'[r] = None
         /\ \A s \in CardSlots \ {r} : job'[s] = job[s]
         /\ \A s \in CardSlots : \A k : Saves(s, k)' => Saves(s, k) /\ s # r
BY DEF SettingsInv, SettingsPanel!TypeOK, Saves

\* The profiles are shown.
LEMMA SettingsLoad ==
  ASSUME SettingsInv, NEW r \in CardSlots, SettingsPanel!Load(r)
  PROVE  SettingsInv'
<1> USE DEF SettingsPanel!Load
<1>1. SettingsPanel!TypeOK BY DEF SettingsInv
<1>2. /\ job' \in [CardSlots -> SettingsPanel!Requests \cup {None}]
      /\ \A s \in CardSlots : job'[s] = None
  BY SettingsEnds, SettingsLoading
<1>3. PICK j \in SettingsPanel!Requests : j = job[r] BY <1>1 DEF SettingsPanel!TypeOK
<1>4. DOMAIN j.got = kinds /\ kept = {} /\ saving = None BY <1>3, SettingsLoading
<1>5. text' \in [kinds -> Texts \cup Broken \cup {Empty}]
  BY <1>3, <1>4 DEF SettingsPanel!Requests
<1>6. SettingsPanel!TypeOK' BY <1>1, <1>2, <1>5 DEF SettingsPanel!TypeOK
<1>7. SettingsAlone' /\ SettingsOnce' /\ SettingsComing'
  BY <1>2 DEF SettingsAlone, SettingsOnce, SettingsComing, Saves
<1>8. \A k \in kinds \ mixed : j.got[k] = stored[k]
  BY <1>3, <1>4 DEF SettingsInv, SettingsComing
<1>9. SettingsPanel!SavedMeansStored' BY <1>3, <1>8 DEF SettingsPanel!SavedMeansStored
<1>10. SettingsPanel!ButtonsComeBack' BY <1>4 DEF SettingsPanel!ButtonsComeBack
<1> QED BY <1>6, <1>7, <1>9, <1>10 DEF SettingsInv

\* A save ends, or a request fails: what it was about is what the server holds, or no
\* longer taken as saved.
LEMMA SettingsDone ==
  ASSUME SettingsInv, NEW r \in CardSlots, SettingsPanel!Saved(r) \/ SettingsPanel!Fails(r)
  PROVE  SettingsInv'
<1> USE DEF SettingsPanel!Saved, SettingsPanel!Fails, SettingsPanel!Finally
<1>1. SettingsPanel!TypeOK BY DEF SettingsInv
<1>2. job[r] # None /\ job' = [job EXCEPT ![r] = None] /\ UNCHANGED <<kinds, stored, text, acts, mixed>>
  OBVIOUS
<1>3. PICK j \in SettingsPanel!Requests : j = job[r] BY <1>1, <1>2 DEF SettingsPanel!TypeOK
<1>4. /\ job' \in [CardSlots -> SettingsPanel!Requests \cup {None}] /\ job'[r] = None
      /\ \A s \in CardSlots \ {r} : job'[s] = job[s]
      /\ \A s \in CardSlots : \A k : Saves(s, k)' => Saves(s, k) /\ s # r
  BY <1>2, SettingsEnds
<1>5. kept' = (IF j.served THEN kept ELSE kept \ DOMAIN j.got) \/ (kept' = kept /\ j.served)
  BY <1>3
<1>6. kept' \subseteq kept /\ (~j.served => kept' \cap DOMAIN j.got = {}) BY <1>5
<1>7. faults' \in 0..MaxFaults BY <1>1, BoundsAreNatural DEF SettingsPanel!TypeOK
<1>8. saving' = (IF j.load THEN saving ELSE None) BY <1>3
<1>9. saving' = None BY <1>2, <1>3, <1>8, SettingsLoading
<1>10. SettingsPanel!TypeOK' BY <1>1, <1>2, <1>4, <1>6, <1>7, <1>9 DEF SettingsPanel!TypeOK
<1>11. SettingsAlone' BY <1>2, <1>4, <1>6, <1>9 DEF SettingsInv, SettingsAlone
<1>12. SettingsOnce' BY <1>2, <1>4 DEF SettingsInv, SettingsOnce
<1>13. SettingsComing' BY <1>2, <1>4, <1>6 DEF SettingsInv, SettingsComing
<1>14. SettingsPanel!SavedMeansStored'
  <2> SUFFICES ASSUME NEW k \in kept' \ mixed', ~SettingsPanel!InProgress(k)'
               PROVE  stored'[k] = text'[k]
    BY DEF SettingsPanel!SavedMeansStored
  <2>1. k \in kept \ mixed /\ k \in kinds BY <1>1, <1>2, <1>6 DEF SettingsPanel!TypeOK
  <2>2. CASE k \in DOMAIN j.got
    <3>1. j.served BY <1>6, <2>2
    <3>2. ~j.load BY <1>2, <1>3, <2>1, SettingsLoading
    <3> QED BY <1>2, <1>3, <2>1, <2>2, <3>1, <3>2 DEF SettingsInv, SettingsComing
  <2>3. CASE k \notin DOMAIN j.got
    <3>1. ~SettingsPanel!InProgress(k) BY <1>3, <1>4, <2>3 DEF SettingsPanel!InProgress
    <3> QED BY <1>2, <2>1, <3>1 DEF SettingsInv, SettingsPanel!SavedMeansStored
  <2> QED BY <2>2, <2>3
<1>15. SettingsPanel!ButtonsComeBack' BY <1>9 DEF SettingsPanel!ButtonsComeBack
<1> QED BY <1>10, <1>11, <1>12, <1>13, <1>14, <1>15 DEF SettingsInv

\* The user types.
LEMMA SettingsType ==
  ASSUME SettingsInv, NEW k \in kinds, SettingsPanel!Type(k)
  PROVE  SettingsInv'
<1> USE DEF SettingsPanel!Type, SettingsPanel!Act
<1>1. SettingsPanel!TypeOK BY DEF SettingsInv
<1>2. PICK t \in Texts \cup Broken \cup {Empty} : text' = [text EXCEPT ![k] = t] OBVIOUS
<1>3. /\ text' \in [kinds -> Texts \cup Broken \cup {Empty}]
      /\ \A l \in kinds \ {k} : text'[l] = text[l]
  BY <1>1, <1>2 DEF SettingsPanel!TypeOK
<1>4. kept' = kept \ {k} /\ acts' \in 0..CardActs
  BY <1>1, BoundsAreNatural DEF SettingsPanel!TypeOK
<1>5. SettingsPanel!TypeOK' BY <1>1, <1>3, <1>4 DEF SettingsPanel!TypeOK
<1>6. SettingsAlone' BY <1>4 DEF SettingsInv, SettingsAlone
<1>7. SettingsOnce' BY DEF SettingsInv, SettingsOnce, Saves
<1>8. SettingsComing' BY <1>3, <1>4 DEF SettingsInv, SettingsComing
<1>9. SettingsPanel!SavedMeansStored'
  BY <1>1, <1>3, <1>4
    DEF SettingsInv, SettingsPanel!SavedMeansStored, SettingsPanel!InProgress, SettingsPanel!TypeOK
<1>10. SettingsPanel!ButtonsComeBack'
  BY DEF SettingsInv, SettingsPanel!ButtonsComeBack, SettingsPanel!InProgress
<1> QED BY <1>5, <1>6, <1>7, <1>8, <1>9, <1>10 DEF SettingsInv

\* The user saves a kind.
LEMMA SettingsSend ==
  ASSUME SettingsInv, NEW k \in kinds, SettingsPanel!Send(k)
  PROVE  SettingsInv'
<1> USE DEF SettingsPanel!Send, SettingsPanel!Act
<1>1. SettingsPanel!TypeOK BY DEF SettingsInv
<1>2. PICK t \in Texts \cup Broken \cup {Empty} : t = text[k] BY <1>1 DEF SettingsPanel!TypeOK
<1>3. PICK n : n = SettingsPanel!Update(k, t) OBVIOUS
<1>4. n \in SettingsPanel!Requests /\ ~n.load /\ ~n.served /\ DOMAIN n.got = {k} /\ n.got[k] = t
  BY <1>1, <1>3, SettingsUpdate, SettingsKinds
<1>5. n # None BY <1>4, SettingsTypes
<1>6. PICK r \in CardSlots : job[r] = None /\ job' = [job EXCEPT ![r] = n] BY <1>2, <1>3
<1>7. job'[r] = n /\ \A s \in CardSlots \ {r} : job'[s] = job[s]
  BY <1>1, <1>6 DEF SettingsPanel!TypeOK
<1>8. job' \in [CardSlots -> SettingsPanel!Requests \cup {None}]
  BY <1>1, <1>4, <1>6 DEF SettingsPanel!TypeOK
<1>9. \A s \in CardSlots : job[s] # None => ~job[s].load BY DEF SettingsPanel!Loading
<1>10. saving' = k /\ kept' = kept \cup {k} /\ acts' \in 0..CardActs
  BY <1>1, BoundsAreNatural DEF SettingsPanel!TypeOK
<1>11. mixed \subseteq mixed' /\ mixed' \subseteq mixed \cup {k}
       /\ (k \notin mixed' => ~SettingsPanel!InProgress(k))
  OBVIOUS
<1>12. SettingsPanel!TypeOK' BY <1>1, <1>4, <1>7, <1>8, <1>10, <1>11 DEF SettingsPanel!TypeOK
<1>13. SettingsAlone' BY <1>4, <1>5, <1>7, <1>9 DEF SettingsInv, SettingsAlone
<1>14. SettingsOnce'
  <2> SUFFICES ASSUME NEW l \in kinds \ mixed', NEW p \in CardSlots, NEW q \in CardSlots,
                      Saves(p, l)', Saves(q, l)'
               PROVE  p = q
    BY DEF SettingsOnce
  <2>1. CASE l = k
    <3>1. \A s \in CardSlots \ {r} : ~Saves(s, k)'
      BY <1>7, <1>11, <2>1 DEF Saves, SettingsPanel!InProgress
    <3> QED BY <2>1, <3>1
  <2>2. CASE l # k
    <3>1. p # r /\ q # r BY <1>4, <1>7, <2>2 DEF Saves
    <3>2. Saves(p, l) /\ Saves(q, l) BY <1>7, <3>1 DEF Saves
    <3> QED BY <1>11, <3>2 DEF SettingsInv, SettingsOnce
  <2> QED BY <2>1, <2>2
<1>15. SettingsComing'
  <2> SUFFICES ASSUME NEW s \in CardSlots, NEW l \in kinds \ mixed', job'[s] # None, l \in DOMAIN job'[s].got
               PROVE  /\ job'[s].served => job'[s].got[l] = stored[l]
                      /\ ~job'[s].load /\ l \in kept' => job'[s].got[l] = text[l]
    BY DEF SettingsComing
  <2>1. CASE s = r BY <1>2, <1>4, <1>7, <2>1
  <2>2. CASE s # r
    <3>1. job'[s] = job[s] BY <1>7, <2>2
    <3>2. l # k BY <1>11, <3>1 DEF SettingsPanel!InProgress
    <3> QED BY <1>10, <1>11, <3>1, <3>2 DEF SettingsInv, SettingsComing
  <2> QED BY <2>1, <2>2
<1>16. SettingsPanel!InProgress(k)' /\ \A l \in kinds : SettingsPanel!InProgress(l) => SettingsPanel!InProgress(l)'
  BY <1>4, <1>5, <1>6, <1>7 DEF SettingsPanel!InProgress
<1>17. SettingsPanel!SavedMeansStored'
  BY <1>1, <1>10, <1>11, <1>16 DEF SettingsInv, SettingsPanel!SavedMeansStored, SettingsPanel!TypeOK
<1>18. SettingsPanel!ButtonsComeBack' BY <1>10, <1>16 DEF SettingsPanel!ButtonsComeBack
<1> QED BY <1>12, <1>13, <1>14, <1>15, <1>17, <1>18 DEF SettingsInv

\* Mentions that are not JSON reset the flag of the panel.
LEMMA SettingsRefuse == SettingsInv /\ SettingsPanel!RefuseMentions => SettingsInv'
<1> SUFFICES ASSUME SettingsInv, SettingsPanel!RefuseMentions PROVE SettingsInv' OBVIOUS
<1> USE DEF SettingsPanel!RefuseMentions, SettingsPanel!Act
<1>1. SettingsPanel!TypeOK' BY BoundsAreNatural DEF SettingsInv, SettingsPanel!TypeOK
<1>2. SettingsAlone' BY DEF SettingsInv, SettingsAlone
<1>3. SettingsOnce' BY DEF SettingsInv, SettingsOnce, Saves
<1>4. SettingsComing' BY DEF SettingsInv, SettingsComing
<1>5. SettingsPanel!SavedMeansStored'
  BY DEF SettingsInv, SettingsPanel!SavedMeansStored, SettingsPanel!InProgress
<1>6. SettingsPanel!ButtonsComeBack' BY DEF SettingsPanel!ButtonsComeBack
<1> QED BY <1>1, <1>2, <1>3, <1>4, <1>5, <1>6 DEF SettingsInv

\* Every step of the settings preserves their invariant.
LEMMA SettingsStep == SettingsInv /\ SettingsPanel!Next => SettingsInv'
<1> SUFFICES ASSUME SettingsInv, SettingsPanel!Next PROVE SettingsInv' OBVIOUS
<1>1. CASE \/ SettingsPanel!SaveBiases \/ SettingsPanel!SavePrompt
           \/ SettingsPanel!SaveMentions \/ SettingsPanel!SaveArticlePrompt
  BY <1>1, SettingsSend, SettingsRefuse
    DEF SettingsPanel!SaveBiases, SettingsPanel!SavePrompt, SettingsPanel!SaveMentions,
        SettingsPanel!SaveArticlePrompt, SettingsPanel!Button
<1>2. CASE \E k \in kinds : SettingsPanel!Type(k) \/ SettingsPanel!SavedElsewhere(k)
  BY <1>2, SettingsType, SettingsElsewhere
<1>3. CASE \E r \in CardSlots : SettingsPanel!FetchProfiles(r) \/ SettingsPanel!UpdateProfile(r)
  BY <1>3, SettingsFetch, SettingsStore
<1>4. CASE \E r \in CardSlots : SettingsPanel!Load(r) \/ SettingsPanel!Saved(r) \/ SettingsPanel!Fails(r)
  BY <1>4, SettingsLoad, SettingsDone
<1> QED BY <1>1, <1>2, <1>3, <1>4 DEF SettingsPanel!Next

-----------------------------------------------------------------------------
(* Proofs: two requests of a card *)

\* Requests that only end, or are answered, are no more than before.
LEMMA OneStays ==
  ASSUME OneRequest(CardSlots), disturbed => disturbed',
         \A s \in CardSlots : job'[s] # None => job[s] # None
  PROVE  OneRequest(CardSlots)'
BY DEF OneRequest

\* A request that begins is the only one, or is remembered.
LEMMA OneBegins ==
  ASSUME NEW r \in CardSlots, ~disturbed' => \A s \in CardSlots : job[s] = None,
         \A s \in CardSlots \ {r} : job[s] = None => job'[s] = None
  PROVE  OneRequest(CardSlots)'
BY DEF OneRequest

-----------------------------------------------------------------------------
(* Proofs: the card of a post *)

\* What a request is made of, and what becomes of it.
LEMMA ArticleTypes ==
  \A j \in ArticleCard!Requests :
    /\ j # None /\ j.op \in ArticleCard!Ops \cup {"reload"} /\ j.served \in BOOLEAN
    /\ j.text \in Texts \cup {Empty} /\ j.answer \in ArticleCard!Rows \cup {None}
    /\ j.mine \in BOOLEAN
    /\ \A new \in ArticleCard!Rows :
         [j EXCEPT !.served = TRUE, !.answer = new] \in ArticleCard!Requests
    /\ [j EXCEPT !.mine = FALSE] \in ArticleCard!Requests
BY NoneIsNoValue DEF ArticleCard!Requests

\* The rows that the server makes of a row.
LEMMA ArticleRows ==
  /\ None \notin ArticleCard!Rows
  /\ \A R \in ArticleCard!Rows :
       /\ R.text \in Texts
       /\ [R EXCEPT !.scheduled = TRUE] \in ArticleCard!Rows
       /\ \A t \in Texts : [R EXCEPT !.text = t] \in ArticleCard!Rows
BY NoneIsNoValue DEF ArticleCard!Rows

\* A request that is made.
LEMMA ArticleRequests ==
  ASSUME ArticleCard!TypeOK, NEW op \in ArticleCard!Ops \cup {"reload"}
  PROVE  /\ ArticleCard!Request(op) \in ArticleCard!Requests
         /\ [ArticleCard!Request(op) EXCEPT !.mine = FALSE] \in ArticleCard!Requests
         /\ [ArticleCard!Request(op) EXCEPT !.mine = FALSE].op = op
         /\ [ArticleCard!Request(op) EXCEPT !.mine = FALSE].served = FALSE
<1>1. ArticleCard!Request(op) \in ArticleCard!Requests
  BY DEF ArticleCard!TypeOK, ArticleCard!Request, ArticleCard!Requests
<1>2. PICK n \in ArticleCard!Requests : n = ArticleCard!Request(op) BY <1>1
<1>3. n.op = op /\ n.served = FALSE BY <1>2 DEF ArticleCard!Request
<1>4. [n EXCEPT !.mine = FALSE].op = n.op /\ [n EXCEPT !.mine = FALSE].served = n.served
  BY DEF ArticleCard!Requests
<1> QED BY <1>2, <1>3, <1>4, ArticleTypes

\* The card is mounted with its row.
LEMMA ArticleCardBegins == ArticleCard!Init => ArticleCardInv
<1> SUFFICES ASSUME ArticleCard!Init PROVE ArticleCardInv OBVIOUS
<1> USE DEF ArticleCard!Init
<1>1. row \in ArticleCard!Rows /\ row.text \in Texts BY DEF ArticleCard!Rows
<1>2. job \in [CardSlots -> ArticleCard!Requests \cup {None}] /\ \A r \in CardSlots : job[r] = None
  OBVIOUS
<1>3. acts \in 0..CardActs /\ faults \in 0..MaxFaults BY BoundsAreNatural
<1>4. ArticleCard!TypeOK BY <1>1, <1>2, <1>3 DEF ArticleCard!TypeOK
<1>5. OneRequest(CardSlots) /\ ArticleCardComing BY <1>2 DEF OneRequest, ArticleCardComing
<1>6. ArticleCardComesBack /\ ArticleCardAtRest
  BY <1>1, ArticleRows DEF ArticleCardComesBack, ArticleCardAtRest
<1>7. ArticleCard!ButtonsComeBack BY DEF ArticleCard!ButtonsComeBack
<1> QED BY <1>4, <1>5, <1>6, <1>7 DEF ArticleCardInv

\* The user types.
LEMMA ArticleCardType ==
  ASSUME ArticleCardInv, NEW t \in Texts \cup {Empty}, ArticleCard!TypeText(t)
  PROVE  ArticleCardInv'
<1> USE DEF ArticleCard!TypeText, ArticleCard!Act, ArticleCardInv
<1>1. acts' \in 0..CardActs BY BoundsAreNatural DEF ArticleCard!TypeOK
<1>2. ArticleCard!TypeOK' BY <1>1 DEF ArticleCard!TypeOK
<1>3. OneRequest(CardSlots)' BY DEF OneRequest
<1>4. ArticleCardComesBack' /\ ArticleCardComing' /\ ArticleCardAtRest'
  BY DEF ArticleCardComesBack, ArticleCardComing, ArticleCardAtRest
<1>5. ArticleCard!ButtonsComeBack' BY DEF ArticleCard!ButtonsComeBack
<1> QED BY <1>2, <1>3, <1>4, <1>5

\* The card sends a request.
LEMMA ArticleCardSend ==
  ASSUME ArticleCardInv, NEW op \in ArticleCard!Ops, ArticleCard!Send(op)
  PROVE  ArticleCardInv'
<1> USE DEF ArticleCard!Send, ArticleCard!Act
<1>1. ArticleCard!TypeOK BY DEF ArticleCardInv
<1>2. PICK n \in ArticleCard!Requests : n = ArticleCard!Request(op) BY <1>1, ArticleRequests
<1>3. n.op = op /\ ~n.served /\ n.mine /\ n # None
  BY <1>2, ArticleTypes DEF ArticleCard!Request
<1>4. PICK r \in CardSlots : job[r] = None /\ job' = [job EXCEPT ![r] = n] BY <1>2
<1>5. job'[r] = n /\ \A s \in CardSlots \ {r} : job'[s] = job[s]
  BY <1>1, <1>4 DEF ArticleCard!TypeOK
<1>6. job' \in [CardSlots -> ArticleCard!Requests \cup {None}]
  BY <1>1, <1>4 DEF ArticleCard!TypeOK
<1>7. acts' \in 0..CardActs BY <1>1, BoundsAreNatural DEF ArticleCard!TypeOK
<1>8. disturbed' \in BOOLEAN /\ (~disturbed' => ~disturbed /\ \A s \in CardSlots : job[s] = None)
  BY <1>1 DEF ArticleCard!Quiet, ArticleCard!TypeOK
<1>9. ArticleCard!TypeOK' BY <1>1, <1>6, <1>7, <1>8 DEF ArticleCard!TypeOK
<1>10. OneRequest(CardSlots)' BY <1>5, <1>8, OneBegins
<1>11. ArticleCardComesBack' BY DEF ArticleCardComesBack
<1>12. ArticleCardComing' BY <1>3, <1>5, <1>8 DEF ArticleCardInv, ArticleCardComing
<1>13. ArticleCardAtRest' BY <1>3, <1>5, <1>8 DEF ArticleCardInv, ArticleCardAtRest
<1>14. ArticleCard!ButtonsComeBack'
  BY <1>3, <1>4, <1>5 DEF ArticleCardInv, ArticleCard!ButtonsComeBack
<1> QED BY <1>9, <1>10, <1>11, <1>12, <1>13, <1>14 DEF ArticleCardInv

\* The page reads the candidates again.
LEMMA ArticleCardReload ==
  ASSUME ArticleCardInv, ArticleCard!PageReloads
  PROVE  ArticleCardInv'
<1> USE DEF ArticleCard!PageReloads, ArticleCard!Act, ArticleCard!card
<1>1. ArticleCard!TypeOK BY DEF ArticleCardInv
<1>2. PICK n \in ArticleCard!Requests :
        /\ n = [ArticleCard!Request("reload") EXCEPT !.mine = FALSE]
        /\ n.op = "reload" /\ n.served = FALSE
  BY <1>1, ArticleRequests
<1>3. ~n.served /\ n # None BY <1>2, ArticleTypes
<1>4. PICK r \in CardSlots : job[r] = None /\ job' = [job EXCEPT ![r] = n]
  BY <1>2 DEF ArticleCard!Reload
<1>5. job'[r] = n /\ \A s \in CardSlots \ {r} : job'[s] = job[s]
  BY <1>1, <1>4 DEF ArticleCard!TypeOK
<1>6. job' \in [CardSlots -> ArticleCard!Requests \cup {None}]
  BY <1>1, <1>4 DEF ArticleCard!TypeOK
<1>7. acts' \in 0..CardActs BY <1>1, BoundsAreNatural DEF ArticleCard!TypeOK
<1>8. disturbed' \in BOOLEAN /\ (~disturbed' => ~disturbed /\ \A s \in CardSlots : job[s] = None)
  BY <1>1 DEF ArticleCard!Quiet, ArticleCard!TypeOK
<1>9. ArticleCard!TypeOK' BY <1>1, <1>6, <1>7, <1>8 DEF ArticleCard!TypeOK
<1>10. OneRequest(CardSlots)' BY <1>5, <1>8, OneBegins
<1>11. ArticleCardComesBack' BY DEF ArticleCardComesBack
<1>12. ArticleCardComing' BY <1>3, <1>5, <1>8 DEF ArticleCardInv, ArticleCardComing
<1>13. ArticleCardAtRest' BY <1>3, <1>5, <1>8 DEF ArticleCardInv, ArticleCardAtRest
<1>14. ArticleCard!ButtonsComeBack'
  BY <1>3, <1>4, <1>5 DEF ArticleCardInv, ArticleCard!ButtonsComeBack
<1> QED BY <1>9, <1>10, <1>11, <1>12, <1>13, <1>14 DEF ArticleCardInv

\* The card is unmounted; the list that is read will bring it back.
LEMMA ArticleCardUnmount ==
  ASSUME ArticleCardInv, ArticleCard!Unmount
  PROVE  ArticleCardInv'
<1> USE DEF ArticleCard!Unmount, ArticleCard!Act
<1>1. ArticleCard!TypeOK BY DEF ArticleCardInv
<1>2. PICK n \in ArticleCard!Requests :
        /\ n = [ArticleCard!Request("reload") EXCEPT !.mine = FALSE]
        /\ n.op = "reload" /\ n.served = FALSE
  BY <1>1, ArticleRequests
<1>3. n.op = "reload" /\ ~n.served /\ n # None BY <1>2, ArticleTypes
<1>4. PICK r \in CardSlots :
        /\ job[r] = None
        /\ job' = [s \in CardSlots |-> IF s = r THEN ArticleCard!Reload(r)[r]
                                       ELSE IF job[s] = None THEN None
                                       ELSE [job[s] EXCEPT !.mine = FALSE]]
  OBVIOUS
<1>5. ArticleCard!Reload(r)[r] = n BY <1>1, <1>2 DEF ArticleCard!Reload, ArticleCard!TypeOK
<1>6. job'[r] = n /\ \A s \in CardSlots \ {r} :
        job'[s] = IF job[s] = None THEN None ELSE [job[s] EXCEPT !.mine = FALSE]
  BY <1>4, <1>5
<1>7. ASSUME NEW s \in CardSlots \ {r}, job[s] # None
      PROVE  /\ job'[s] \in ArticleCard!Requests
             /\ job'[s].served = job[s].served /\ job'[s].answer = job[s].answer
  <2>1. PICK j \in ArticleCard!Requests : j = job[s] BY <1>1, <1>7 DEF ArticleCard!TypeOK
  <2>2. job'[s] = [j EXCEPT !.mine = FALSE] BY <1>6, <1>7, <2>1
  <2>3. job'[s].served = j.served /\ job'[s].answer = j.answer
    BY <2>2 DEF ArticleCard!Requests
  <2> QED BY <2>1, <2>2, <2>3, ArticleTypes
<1>8. job' \in [CardSlots -> ArticleCard!Requests \cup {None}] BY <1>4, <1>6, <1>7
<1>9. acts' \in 0..CardActs BY <1>1, BoundsAreNatural DEF ArticleCard!TypeOK
<1>10. disturbed' \in BOOLEAN /\ (~disturbed' => ~disturbed /\ \A s \in CardSlots : job[s] = None)
  BY <1>1 DEF ArticleCard!Quiet, ArticleCard!TypeOK
<1>11. ArticleCard!TypeOK' BY <1>1, <1>8, <1>9, <1>10 DEF ArticleCard!TypeOK
<1>12. \A s \in CardSlots \ {r} : job[s] = None => job'[s] = None BY <1>6
<1>13. OneRequest(CardSlots)' BY <1>10, <1>12, OneBegins
<1>14. ArticleCardComesBack' BY <1>3, <1>6 DEF ArticleCardComesBack
<1>15. ArticleCardComing'
  BY <1>3, <1>6, <1>7, <1>10, <1>12 DEF ArticleCardInv, ArticleCardComing
<1>16. ArticleCardAtRest' BY DEF ArticleCardAtRest
<1>17. ArticleCard!ButtonsComeBack' BY DEF ArticleCard!ButtonsComeBack
<1> QED BY <1>11, <1>13, <1>14, <1>15, <1>16, <1>17 DEF ArticleCardInv

\* The server answers with the row it has then.
LEMMA ArticleCardServed ==
  ASSUME ArticleCardInv, NEW r \in CardSlots, NEW new \in ArticleCard!Rows,
         job[r] # None, ~job[r].served, ArticleCard!Answers(r, new),
         UNCHANGED <<shown, box, edited, busy, acts, faults, disturbed>>
  PROVE  ArticleCardInv'
<1> USE DEF ArticleCard!Answers
<1>1. ArticleCard!TypeOK BY DEF ArticleCardInv
<1>2. PICK j \in ArticleCard!Requests : j = job[r] BY <1>1 DEF ArticleCard!TypeOK
<1>3. PICK n \in ArticleCard!Requests : n = [j EXCEPT !.served = TRUE, !.answer = new]
  BY ArticleTypes
<1>4. n.op = j.op /\ (n.mine <=> j.mine) /\ n.served /\ n.answer = new /\ n # None
  BY <1>3, ArticleTypes DEF ArticleCard!Requests
<1>5. job' = [job EXCEPT ![r] = n] BY <1>2, <1>3
<1>6. job'[r] = n /\ \A s \in CardSlots \ {r} : job'[s] = job[s]
  BY <1>1, <1>5 DEF ArticleCard!TypeOK
<1>7. job' \in [CardSlots -> ArticleCard!Requests \cup {None}]
  BY <1>1, <1>5 DEF ArticleCard!TypeOK
<1>8. ArticleCard!TypeOK' BY <1>1, <1>7 DEF ArticleCard!TypeOK
<1>9. OneRequest(CardSlots)' BY <1>6, OneStays DEF ArticleCardInv
<1>10. ArticleCardComesBack' BY <1>2, <1>4, <1>6 DEF ArticleCardInv, ArticleCardComesBack
<1>11. ~disturbed => \A s \in CardSlots \ {r} : job[s] = None
  BY DEF ArticleCardInv, OneRequest
<1>12. ArticleCardComing'
  BY <1>4, <1>6, <1>11, ArticleRows DEF ArticleCardInv, ArticleCardComing
<1>13. ArticleCardAtRest' BY <1>4, <1>6 DEF ArticleCardAtRest
<1>14. ArticleCard!ButtonsComeBack'
  <2> SUFFICES ASSUME NEW op \in busy'
               PROVE  \E s \in CardSlots : job'[s] # None /\ job'[s].op = op /\ job'[s].mine
    BY DEF ArticleCard!ButtonsComeBack
  <2>1. PICK s \in CardSlots : job[s] # None /\ job[s].op = op /\ job[s].mine
    BY DEF ArticleCardInv, ArticleCard!ButtonsComeBack
  <2>2. CASE s = r
    <3>1. n.op = op /\ n.mine BY <1>2, <1>4, <2>1, <2>2
    <3> QED BY <1>4, <1>6, <3>1
  <2>3. CASE s # r BY <1>6, <2>1, <2>3
  <2> QED BY <2>2, <2>3
<1> QED BY <1>8, <1>9, <1>10, <1>12, <1>13, <1>14 DEF ArticleCardInv

\* Whatever was asked, the server answers with its row.
LEMMA ArticleCardServe ==
  ASSUME ArticleCardInv, NEW r \in CardSlots, ArticleCard!Serve(r)
  PROVE  ArticleCardInv'
<1>1. ArticleCard!TypeOK BY DEF ArticleCardInv
<1>2. /\ job[r] # None /\ ~job[r].served
      /\ UNCHANGED <<shown, box, edited, busy, acts, faults, disturbed>>
  BY DEF ArticleCard!Serve, ArticleCard!UpdateArticleCandidate, ArticleCard!PostNowArticleCandidate,
         ArticleCard!ScheduleArticleCandidate, ArticleCard!RewriteArticleCandidate,
         ArticleCard!FetchArticleCandidates, ArticleCard!Asked, ArticleCard!card
<1>3. row \in ArticleCard!Rows /\ job[r].text \in Texts \cup {Empty}
  BY <1>1, <1>2, ArticleTypes DEF ArticleCard!TypeOK
<1>4. ArticleCard!WithText(job[r].text) \in ArticleCard!Rows
  BY <1>3, ArticleRows DEF ArticleCard!WithText
<1>5. \E new \in ArticleCard!Rows : ArticleCard!Answers(r, new)
  BY <1>3, <1>4, ArticleRows
    DEF ArticleCard!Serve, ArticleCard!UpdateArticleCandidate, ArticleCard!PostNowArticleCandidate,
        ArticleCard!ScheduleArticleCandidate, ArticleCard!RewriteArticleCandidate,
        ArticleCard!FetchArticleCandidates
<1> QED BY <1>2, <1>5, ArticleCardServed

\* A request that ends resets its own flag.
LEMMA ArticleCardEnds ==
  ASSUME ArticleCardInv, NEW r \in CardSlots, job[r] # None,
         job' = [job EXCEPT ![r] = None], ArticleCard!Finally(r)
  PROVE  /\ job' \in [CardSlots -> ArticleCard!Requests \cup {None}] /\ job'[r] = None
         /\ \A s \in CardSlots \ {r} : job'[s] = job[s]
         /\ ~disturbed => \A s \in CardSlots : job'[s] = None
         /\ busy' \subseteq ArticleCard!Ops /\ ArticleCard!ButtonsComeBack'
<1>1. ArticleCard!TypeOK BY DEF ArticleCardInv
<1>2. /\ job' \in [CardSlots -> ArticleCard!Requests \cup {None}] /\ job'[r] = None
      /\ \A s \in CardSlots \ {r} : job'[s] = job[s]
  BY <1>1 DEF ArticleCard!TypeOK
<1>3. ~disturbed => \A s \in CardSlots : job'[s] = None
  BY <1>2 DEF ArticleCardInv, OneRequest
<1>4. busy' \subseteq busy /\ (job[r].mine => job[r].op \notin busy') BY DEF ArticleCard!Finally
<1>5. busy' \subseteq ArticleCard!Ops BY <1>1, <1>4 DEF ArticleCard!TypeOK
<1>6. ArticleCard!ButtonsComeBack'
  <2> SUFFICES ASSUME NEW op \in busy'
               PROVE  \E s \in CardSlots : job'[s] # None /\ job'[s].op = op /\ job'[s].mine
    BY DEF ArticleCard!ButtonsComeBack
  <2>1. PICK s \in CardSlots : job[s] # None /\ job[s].op = op /\ job[s].mine
    BY <1>4 DEF ArticleCardInv, ArticleCard!ButtonsComeBack
  <2>2. s # r BY <1>4, <2>1
  <2> QED BY <1>2, <2>1, <2>2
<1> QED BY <1>2, <1>3, <1>5, <1>6

\* An answer arrives: the list is read again, or the row is replaced if the card is mounted.
LEMMA ArticleCardAnswer ==
  ASSUME ArticleCardInv, NEW r \in CardSlots, ArticleCard!OnUpdated(r)
  PROVE  ArticleCardInv'
<1> USE DEF ArticleCard!OnUpdated, ArticleCard!Fill
<1>1. ArticleCard!TypeOK BY DEF ArticleCardInv
<1>2. PICK j \in ArticleCard!Requests : j = job[r] BY <1>1 DEF ArticleCard!TypeOK
<1>3. /\ job' \in [CardSlots -> ArticleCard!Requests \cup {None}] /\ job'[r] = None
      /\ \A s \in CardSlots \ {r} : job'[s] = job[s]
      /\ ~disturbed => \A s \in CardSlots : job'[s] = None
      /\ busy' \subseteq ArticleCard!Ops /\ ArticleCard!ButtonsComeBack'
  BY ArticleCardEnds
<1>4. j.answer \in ArticleCard!Rows /\ (~disturbed => j.answer = row)
  BY <1>2, ArticleTypes DEF ArticleCardInv, ArticleCardComing
<1>5. ~disturbed => shown # None \/ j.op = "reload"
  BY <1>2 DEF ArticleCardInv, ArticleCardComesBack, OneRequest
<1>6. \/ shown' = j.answer /\ box' = j.answer.text /\ edited' = FALSE
      \/ UNCHANGED <<shown, box, edited>> /\ disturbed
  BY <1>2, <1>5
<1>7. shown' \in ArticleCard!Rows \cup {None} /\ box' \in Texts \cup {Empty} /\ edited' \in BOOLEAN
  BY <1>1, <1>4, <1>6, ArticleRows DEF ArticleCard!TypeOK
<1>8. ArticleCard!TypeOK' BY <1>1, <1>3, <1>7 DEF ArticleCard!TypeOK
<1>9. OneRequest(CardSlots)' BY <1>3, OneStays DEF ArticleCardInv
<1>10. ArticleCardComesBack' BY <1>4, <1>6, ArticleRows DEF ArticleCardComesBack
<1>11. ArticleCardComing' BY <1>3 DEF ArticleCardInv, ArticleCardComing
<1>12. ArticleCardAtRest' BY <1>4, <1>6 DEF ArticleCardAtRest
<1> QED BY <1>3, <1>8, <1>9, <1>10, <1>11, <1>12 DEF ArticleCardInv

\* A request fails: that its effect is not shown is remembered.
LEMMA ArticleCardFails ==
  ASSUME ArticleCardInv, NEW r \in CardSlots, ArticleCard!Fails(r)
  PROVE  ArticleCardInv'
<1> USE DEF ArticleCard!Fails
<1>1. ArticleCard!TypeOK BY DEF ArticleCardInv
<1>2. PICK j \in ArticleCard!Requests : j = job[r] BY <1>1 DEF ArticleCard!TypeOK
<1>3. /\ job' \in [CardSlots -> ArticleCard!Requests \cup {None}] /\ job'[r] = None
      /\ \A s \in CardSlots \ {r} : job'[s] = job[s]
      /\ ~disturbed => \A s \in CardSlots : job'[s] = None
      /\ busy' \subseteq ArticleCard!Ops /\ ArticleCard!ButtonsComeBack'
  BY ArticleCardEnds
<1>4. faults' \in 0..MaxFaults BY <1>1, BoundsAreNatural DEF ArticleCard!TypeOK
<1>5. disturbed' \in BOOLEAN /\ (~disturbed' => ~disturbed /\ ~j.served /\ j.op # "reload")
  BY <1>1, <1>2, ArticleTypes DEF ArticleCard!TypeOK
<1>6. ArticleCard!TypeOK' BY <1>1, <1>3, <1>4, <1>5 DEF ArticleCard!TypeOK
<1>7. OneRequest(CardSlots)' BY <1>3, <1>5, OneStays DEF ArticleCardInv
<1>8. ~disturbed' => shown # None
  BY <1>2, <1>5 DEF ArticleCardInv, ArticleCardComesBack, OneRequest
<1>9. ArticleCardComesBack' BY <1>8 DEF ArticleCardComesBack
<1>10. ArticleCardComing' BY <1>3, <1>5 DEF ArticleCardInv, ArticleCardComing
<1>11. ArticleCardAtRest'
  <2>1. ~disturbed' => \A s \in CardSlots : job[s] # None => ~job[s].served
    BY <1>2, <1>5 DEF ArticleCardInv, OneRequest
  <2> QED BY <1>5, <2>1 DEF ArticleCardInv, ArticleCardAtRest
<1> QED BY <1>3, <1>6, <1>7, <1>9, <1>10, <1>11 DEF ArticleCardInv

\* Every step of the card of a post preserves its invariant.
LEMMA ArticleCardStep == ArticleCardInv /\ ArticleCard!Next => ArticleCardInv'
<1> SUFFICES ASSUME ArticleCardInv, ArticleCard!Next PROVE ArticleCardInv' OBVIOUS
<1>1. CASE \E t \in Texts \cup {Empty} : ArticleCard!TypeText(t) BY <1>1, ArticleCardType
<1>2. CASE \/ ArticleCard!HandleSave \/ ArticleCard!HandleSchedule
           \/ ArticleCard!HandlePostNow \/ ArticleCard!HandleRefine
  <2>1. \E op \in ArticleCard!Ops : ArticleCard!Send(op)
    BY <1>2
      DEF ArticleCard!HandleSave, ArticleCard!HandleSchedule, ArticleCard!HandlePostNow,
          ArticleCard!HandleRefine, ArticleCard!Ops
  <2> QED BY <2>1, ArticleCardSend
<1>3. CASE ArticleCard!PageReloads \/ ArticleCard!Unmount
  BY <1>3, ArticleCardReload, ArticleCardUnmount
<1>4. CASE \E r \in CardSlots : ArticleCard!Serve(r) \/ ArticleCard!OnUpdated(r) \/ ArticleCard!Fails(r)
  BY <1>4, ArticleCardServe, ArticleCardAnswer, ArticleCardFails
<1> QED BY <1>1, <1>2, <1>3, <1>4 DEF ArticleCard!Next

\* That the card shows its row follows.
LEMMA ArticleCardFollow == ArticleCardInv => ArticleCard!ShowsItsRow
<1> SUFFICES ASSUME ArticleCardInv, ArticleCard!Quiet, ~disturbed
             PROVE  shown = row /\ (edited \/ box = row.text)
  BY DEF ArticleCard!ShowsItsRow
<1>1. shown # None BY DEF ArticleCardInv, ArticleCardComesBack, ArticleCard!Quiet
<1> QED BY <1>1 DEF ArticleCardInv, ArticleCardAtRest, ArticleCard!Quiet

-----------------------------------------------------------------------------
(* Proofs: the card of a clip *)

\* What a request is made of, and what becomes of it.
LEMMA ClipTypes ==
  \A j \in CandidateCard!Requests :
    /\ j # None /\ j.op \in CandidateCard!Ops \cup {"reload"}
    /\ j.phase \in {"sent", "cutting", "served", "refused"}
    /\ j.of \in CandidateCard!Boxes \cup {None} /\ j.answer \in CandidateCard!Rows \cup {None}
    /\ j.mine \in BOOLEAN
    /\ [j EXCEPT !.mine = FALSE] \in CandidateCard!Requests
    /\ \A p \in {"cutting", "served", "refused"} :
         /\ [j EXCEPT !.phase = p] \in CandidateCard!Requests
         /\ \A new \in CandidateCard!Rows :
              [j EXCEPT !.phase = p, !.answer = new] \in CandidateCard!Requests
BY NoneIsNoValue DEF CandidateCard!Requests

\* The rows that the server makes of a row.
LEMMA ClipRows ==
  /\ None \notin CandidateCard!Rows
  /\ \A R \in CandidateCard!Rows :
       /\ R.text \in Texts /\ R.range \in Ranges
       /\ [text |-> R.text, range |-> R.range] \in CandidateCard!Boxes
       /\ [R EXCEPT !.clip = TRUE] \in CandidateCard!Rows
       /\ [R EXCEPT !.scheduled = TRUE] \in CandidateCard!Rows
       /\ \A t \in Texts : [R EXCEPT !.text = t] \in CandidateCard!Rows
       /\ \A x \in Ranges : /\ [R EXCEPT !.range = x] \in CandidateCard!Rows
                            /\ [[R EXCEPT !.range = x] EXCEPT !.range = R.range] = R
BY NoneIsNoValue DEF CandidateCard!Rows, CandidateCard!Boxes

\* What the boxes hold.
LEMMA ClipBoxes ==
  \A b \in CandidateCard!Boxes :
    /\ b # None => b.text \in Texts \cup {Empty} /\ b.range \in Ranges
    /\ \A t \in Texts \cup {Empty} : /\ [b EXCEPT !.text = t] \in CandidateCard!Boxes
                                     /\ [b EXCEPT !.text = t].range = b.range
    /\ \A x \in Ranges : /\ [b EXCEPT !.range = x] \in CandidateCard!Boxes
                         /\ [b EXCEPT !.range = x].text = b.text
                         /\ [b EXCEPT !.range = x].range = x
BY DEF CandidateCard!Boxes

\* The fetch follows the range in the boxes.
LEMMA ClipFollows ==
  ASSUME CandidateCard!TypeOK, CandidateCard!TranscriptMatches, NEW range \in Ranges,
         CandidateCard!Follow(range), box'.range = range, UNCHANGED <<transcript, loading>>
  PROVE  /\ fetch' \in [range : Ranges, phase : {"timer", "asked", "done"}] /\ late' \subseteq Ranges
         /\ CandidateCard!TranscriptMatches'
BY DEF CandidateCard!TypeOK, CandidateCard!Follow, CandidateCard!TranscriptMatches

\* The card is mounted with its row, and the timer of the transcript started.
LEMMA ClipCardBegins == CandidateCard!Init => ClipCardInv
<1> SUFFICES ASSUME CandidateCard!Init PROVE ClipCardInv OBVIOUS
<1> USE DEF CandidateCard!Init
<1>1. CandidateCard!AnyOf(Texts) \in Texts /\ CandidateCard!AnyOf(Ranges) \in Ranges
  BY SomethingToSay DEF CandidateCard!AnyOf
<1>2. row \in CandidateCard!Rows BY <1>1 DEF CandidateCard!Rows
<1>3. box \in CandidateCard!Boxes /\ box.text = row.text /\ box.range = row.range
  BY <1>2, ClipRows
<1>4. fetch \in [range : Ranges, phase : {"timer", "asked", "done"}]
  BY <1>2, ClipRows
<1>5. job \in [CardSlots -> CandidateCard!Requests \cup {None}] /\ \A r \in CardSlots : job[r] = None
  OBVIOUS
<1>6. acts \in 0..CardActs /\ faults \in 0..MaxFaults BY BoundsAreNatural
<1>7. CandidateCard!TypeOK BY <1>2, <1>3, <1>4, <1>5, <1>6 DEF CandidateCard!TypeOK
<1>8. OneRequest(CardSlots) /\ ClipCardRequests /\ ClipCardComing
  BY <1>5 DEF OneRequest, ClipCardRequests, ClipCardComing
<1>9. ClipCardAtRest BY <1>3 DEF ClipCardAtRest
<1>10. CandidateCard!TranscriptMatches BY <1>3 DEF CandidateCard!TranscriptMatches
<1>11. CandidateCard!ButtonsComeBack BY DEF CandidateCard!ButtonsComeBack
<1> QED BY <1>7, <1>8, <1>9, <1>10, <1>11 DEF ClipCardInv

\* The user types a text.
LEMMA ClipCardTypeText ==
  ASSUME ClipCardInv, NEW t \in Texts \cup {Empty}, CandidateCard!TypeText(t)
  PROVE  ClipCardInv'
<1> USE DEF CandidateCard!TypeText, CandidateCard!Act, CandidateCard!caption
<1>1. CandidateCard!TypeOK BY DEF ClipCardInv
<1>2. box' \in CandidateCard!Boxes /\ box'.range = box.range
  BY <1>1, ClipBoxes DEF CandidateCard!TypeOK
<1>3. acts' \in 0..CardActs BY <1>1, BoundsAreNatural DEF CandidateCard!TypeOK
<1>4. edited' = edited \cup {"text"} OBVIOUS
<1>5. CandidateCard!TypeOK' BY <1>1, <1>2, <1>3, <1>4 DEF CandidateCard!TypeOK
<1>6. OneRequest(CardSlots)' /\ ClipCardRequests'
  BY DEF ClipCardInv, OneRequest, ClipCardRequests
<1>7. ClipCardComing' BY <1>2, <1>4 DEF ClipCardInv, ClipCardComing
<1>8. ClipCardAtRest' BY <1>2, <1>4 DEF ClipCardInv, ClipCardAtRest
<1>9. CandidateCard!TranscriptMatches' BY <1>2 DEF ClipCardInv, CandidateCard!TranscriptMatches
<1>10. CandidateCard!ButtonsComeBack' BY DEF ClipCardInv, CandidateCard!ButtonsComeBack
<1> QED BY <1>5, <1>6, <1>7, <1>8, <1>9, <1>10 DEF ClipCardInv

\* The user changes the range.
LEMMA ClipCardTypeRange ==
  ASSUME ClipCardInv, NEW range \in Ranges, CandidateCard!TypeRange(range)
  PROVE  ClipCardInv'
<1> USE DEF CandidateCard!TypeRange, CandidateCard!Act
<1>1. CandidateCard!TypeOK BY DEF ClipCardInv
<1>2. box' \in CandidateCard!Boxes /\ box'.range = range /\ box'.text = box.text
  BY <1>1, ClipBoxes DEF CandidateCard!TypeOK
<1>3. acts' \in 0..CardActs BY <1>1, BoundsAreNatural DEF CandidateCard!TypeOK
<1>4. edited' = edited \cup {"range"} OBVIOUS
<1>5. /\ fetch' \in [range : Ranges, phase : {"timer", "asked", "done"}] /\ late' \subseteq Ranges
      /\ CandidateCard!TranscriptMatches'
  BY <1>1, <1>2, ClipFollows DEF ClipCardInv
<1>6. CandidateCard!TypeOK' BY <1>1, <1>2, <1>3, <1>4, <1>5 DEF CandidateCard!TypeOK
<1>7. OneRequest(CardSlots)' /\ ClipCardRequests'
  BY DEF ClipCardInv, OneRequest, ClipCardRequests
<1>8. ClipCardComing' BY <1>2, <1>4 DEF ClipCardInv, ClipCardComing
<1>9. ClipCardAtRest' BY <1>2, <1>4 DEF ClipCardInv, ClipCardAtRest
<1>10. CandidateCard!ButtonsComeBack' BY DEF ClipCardInv, CandidateCard!ButtonsComeBack
<1> QED BY <1>5, <1>6, <1>7, <1>8, <1>9, <1>10 DEF ClipCardInv

\* A request begins: it was sent, and is not served.
LEMMA ClipCardSent ==
  ASSUME ClipCardInv, NEW r \in CardSlots, NEW n \in CandidateCard!Requests,
         n.phase = "sent", n.op # "reload" => n.of # None,
         job[r] = None, job' = [job EXCEPT ![r] = n], CandidateCard!Act,
         \A op \in busy' \ busy : op = n.op /\ n.mine, busy' \subseteq CandidateCard!Ops,
         disturbed' = (disturbed \/ ~CandidateCard!Quiet),
         UNCHANGED <<row, shown, box, edited, transcript, loading, fetch, late, faults>>
  PROVE  ClipCardInv'
<1>1. CandidateCard!TypeOK BY DEF ClipCardInv
<1>2. n # None BY ClipTypes
<1>3. job'[r] = n /\ \A s \in CardSlots \ {r} : job'[s] = job[s]
  BY <1>1 DEF CandidateCard!TypeOK
<1>4. job' \in [CardSlots -> CandidateCard!Requests \cup {None}] BY <1>1 DEF CandidateCard!TypeOK
<1>5. acts' \in 0..CardActs BY <1>1, BoundsAreNatural DEF CandidateCard!TypeOK, CandidateCard!Act
<1>6. disturbed' \in BOOLEAN /\ (~disturbed' => ~disturbed /\ \A s \in CardSlots : job[s] = None)
  BY <1>1 DEF CandidateCard!Quiet, CandidateCard!TypeOK
<1>7. CandidateCard!TypeOK' BY <1>1, <1>4, <1>5, <1>6 DEF CandidateCard!TypeOK
<1>8. OneRequest(CardSlots)' BY <1>3, <1>6, OneBegins
<1>9. ClipCardRequests' BY <1>2, <1>3 DEF ClipCardInv, ClipCardRequests
<1>10. ClipCardComing' BY <1>3, <1>6 DEF ClipCardComing
<1>11. ClipCardAtRest' BY <1>6 DEF ClipCardInv, ClipCardAtRest
<1>12. CandidateCard!TranscriptMatches' BY DEF ClipCardInv, CandidateCard!TranscriptMatches
<1>13. CandidateCard!ButtonsComeBack'
  BY <1>2, <1>3 DEF ClipCardInv, CandidateCard!ButtonsComeBack
<1> QED BY <1>7, <1>8, <1>9, <1>10, <1>11, <1>12, <1>13 DEF ClipCardInv

\* The card sends a request.
LEMMA ClipCardSend ==
  ASSUME ClipCardInv, NEW op \in CandidateCard!Ops, CandidateCard!Send(op)
  PROVE  ClipCardInv'
<1> USE DEF CandidateCard!Send, CandidateCard!caption
<1>1. CandidateCard!TypeOK BY DEF ClipCardInv
<1>2. PICK n : n = [op |-> op, phase |-> "sent", of |-> box, answer |-> None, mine |-> TRUE]
  OBVIOUS
<1>3. n \in CandidateCard!Requests BY <1>1, <1>2 DEF CandidateCard!Requests, CandidateCard!TypeOK
<1>4. box # None BY <1>1, NoneIsNoValue DEF CandidateCard!TypeOK, CandidateCard!Boxes
<1>5. n.phase = "sent" /\ n.op = op /\ n.of = box /\ n.mine BY <1>2
<1>6. busy' \subseteq CandidateCard!Ops BY <1>1 DEF CandidateCard!TypeOK
<1>7. PICK r \in CardSlots : job[r] = None /\ job' = [job EXCEPT ![r] = n] BY <1>2
<1> QED BY <1>3, <1>4, <1>5, <1>6, <1>7, ClipCardSent

\* The request for the candidates.
LEMMA ClipReload ==
  /\ CandidateCard!Reload \in CandidateCard!Requests
  /\ CandidateCard!Reload.op = "reload" /\ CandidateCard!Reload.phase = "sent"
  /\ CandidateCard!Reload # None
<1>1. CandidateCard!Reload.op = "reload" /\ CandidateCard!Reload.phase = "sent"
  BY DEF CandidateCard!Reload
<1>2. CandidateCard!Reload \in CandidateCard!Requests
  BY DEF CandidateCard!Reload, CandidateCard!Requests
<1> QED BY <1>1, <1>2, ClipTypes

\* The page reads the candidates again.
LEMMA ClipCardReloads ==
  ASSUME ClipCardInv, CandidateCard!PageReloads
  PROVE  ClipCardInv'
<1> USE DEF CandidateCard!PageReloads, CandidateCard!caption, CandidateCard!card
<1>1. CandidateCard!TypeOK BY DEF ClipCardInv
<1>2. PICK n \in CandidateCard!Requests :
        n = CandidateCard!Reload /\ n.op = "reload" /\ n.phase = "sent"
  BY ClipReload
<1>3. PICK r \in CardSlots : job[r] = None /\ job' = [job EXCEPT ![r] = n] BY <1>2
<1>4. busy' \subseteq CandidateCard!Ops BY <1>1 DEF CandidateCard!TypeOK
<1> QED BY <1>2, <1>3, <1>4, ClipCardSent

\* A new card is mounted in place of the old one.
LEMMA ClipCardRemount ==
  ASSUME ClipCardInv, CandidateCard!Remount
  PROVE  ClipCardInv'
<1> USE DEF CandidateCard!Remount, CandidateCard!Act
<1>1. CandidateCard!TypeOK BY DEF ClipCardInv
<1>2. box' \in CandidateCard!Boxes /\ box'.text = shown.text /\ box'.range = shown.range
  BY <1>1, ClipRows DEF CandidateCard!TypeOK
<1>3. ASSUME NEW s \in CardSlots, job[s] # None
      PROVE  /\ job'[s] \in CandidateCard!Requests /\ job'[s].op = job[s].op
             /\ job'[s].phase = job[s].phase /\ job'[s].of = job[s].of
             /\ job'[s].answer = job[s].answer
  <2>1. PICK j \in CandidateCard!Requests : j = job[s] BY <1>1, <1>3 DEF CandidateCard!TypeOK
  <2>2. job'[s] = [j EXCEPT !.mine = FALSE] BY <1>3, <2>1
  <2>3. /\ job'[s].op = j.op /\ job'[s].phase = j.phase /\ job'[s].of = j.of
        /\ job'[s].answer = j.answer
    BY <2>2 DEF CandidateCard!Requests
  <2> QED BY <2>1, <2>2, <2>3, ClipTypes
<1>4. \A s \in CardSlots : job[s] = None => job'[s] = None OBVIOUS
<1>5. job' \in [CardSlots -> CandidateCard!Requests \cup {None}] BY <1>3, <1>4
<1>6. \A s \in CardSlots : job'[s] # None <=> job[s] # None BY <1>3, <1>4, ClipTypes
<1>7. acts' \in 0..CardActs BY <1>1, BoundsAreNatural DEF CandidateCard!TypeOK
<1>8. fetch' \in [range : Ranges, phase : {"timer", "asked", "done"}]
  BY <1>1, ClipRows DEF CandidateCard!TypeOK
<1>9. CandidateCard!TypeOK' BY <1>1, <1>2, <1>5, <1>7, <1>8 DEF CandidateCard!TypeOK
<1>10. OneRequest(CardSlots)' BY <1>6, OneStays DEF ClipCardInv
<1>11. ClipCardRequests' BY <1>3, <1>6 DEF ClipCardInv, ClipCardRequests
<1>12. ClipCardComing' BY <1>2, <1>3, <1>6 DEF ClipCardInv, ClipCardComing
<1>13. ClipCardAtRest' BY <1>2, <1>3, <1>6 DEF ClipCardInv, ClipCardAtRest
<1>14. CandidateCard!TranscriptMatches' BY <1>2 DEF CandidateCard!TranscriptMatches
<1>15. CandidateCard!ButtonsComeBack' BY DEF CandidateCard!ButtonsComeBack
<1> QED BY <1>9, <1>10, <1>11, <1>12, <1>13, <1>14, <1>15 DEF ClipCardInv

\* A request that is under way goes on: the parts that do not speak of its answer.
LEMMA ClipCardGoesOn ==
  ASSUME ClipCardInv, NEW r \in CardSlots, job[r] # None, NEW n \in CandidateCard!Requests,
         n.op = job[r].op, n.of = job[r].of, n.mine <=> job[r].mine,
         n.phase \in {"cutting", "refused"} => n.op = "trim",
         n.phase \in {"cutting", "served"} => n.answer # None,
         job' = [job EXCEPT ![r] = n], row' \in CandidateCard!Rows, faults' \in 0..MaxFaults,
         UNCHANGED <<shown, box, edited, busy, transcript, loading, fetch, late, acts, disturbed>>
  PROVE  /\ CandidateCard!TypeOK' /\ OneRequest(CardSlots)' /\ ClipCardRequests'
         /\ CandidateCard!TranscriptMatches' /\ CandidateCard!ButtonsComeBack'
         /\ job'[r] = n /\ (~disturbed => \A s \in CardSlots \ {r} : job'[s] = None)
<1>1. CandidateCard!TypeOK BY DEF ClipCardInv
<1>2. n # None BY ClipTypes
<1>3. job'[r] = n /\ \A s \in CardSlots \ {r} : job'[s] = job[s]
  BY <1>1 DEF CandidateCard!TypeOK
<1>4. job' \in [CardSlots -> CandidateCard!Requests \cup {None}] BY <1>1 DEF CandidateCard!TypeOK
<1>5. CandidateCard!TypeOK' BY <1>1, <1>4 DEF CandidateCard!TypeOK
<1>6. OneRequest(CardSlots)' BY <1>3, OneStays DEF ClipCardInv
<1>7. ClipCardRequests' BY <1>2, <1>3 DEF ClipCardInv, ClipCardRequests
<1>8. CandidateCard!TranscriptMatches' BY DEF ClipCardInv, CandidateCard!TranscriptMatches
<1>9. CandidateCard!ButtonsComeBack'
  <2> SUFFICES ASSUME NEW op \in busy'
               PROVE  \E s \in CardSlots : job'[s] # None /\ job'[s].op = op /\ job'[s].mine
    BY DEF CandidateCard!ButtonsComeBack
  <2>1. PICK s \in CardSlots : job[s] # None /\ job[s].op = op /\ job[s].mine
    BY DEF ClipCardInv, CandidateCard!ButtonsComeBack
  <2>2. CASE s = r
    <3>1. n.op = op /\ n.mine BY <2>1, <2>2
    <3> QED BY <1>2, <1>3, <3>1
  <2>3. CASE s # r BY <1>3, <2>1, <2>3
  <2> QED BY <2>2, <2>3
<1>10. ~disturbed => \A s \in CardSlots \ {r} : job'[s] = None
  BY <1>3 DEF ClipCardInv, OneRequest
<1> QED BY <1>3, <1>5, <1>6, <1>7, <1>8, <1>9, <1>10

\* The server answers with the row it has then.
LEMMA ClipCardServed ==
  ASSUME ClipCardInv, NEW r \in CardSlots, NEW new \in CandidateCard!Rows,
         job[r] # None, CandidateCard!Answers(r, new),
         UNCHANGED <<shown, box, edited, busy, transcript, loading, fetch, late, acts, faults, disturbed>>
  PROVE  ClipCardInv'
<1>1. CandidateCard!TypeOK BY DEF ClipCardInv
<1>2. PICK j \in CandidateCard!Requests : j = job[r] BY <1>1 DEF CandidateCard!TypeOK
<1>3. PICK n \in CandidateCard!Requests : n = [j EXCEPT !.phase = "served", !.answer = new]
  BY ClipTypes
<1>4. n.op = j.op /\ n.of = j.of /\ (n.mine <=> j.mine) /\ n.phase = "served" /\ n.answer = new
  BY <1>3 DEF CandidateCard!Requests
<1>5. job' = [job EXCEPT ![r] = n] /\ row' = new BY <1>2, <1>3 DEF CandidateCard!Answers
<1>6. faults' \in 0..MaxFaults /\ n.answer # None BY <1>1, <1>4, ClipRows DEF CandidateCard!TypeOK
<1>7. /\ CandidateCard!TypeOK' /\ OneRequest(CardSlots)' /\ ClipCardRequests'
      /\ CandidateCard!TranscriptMatches' /\ CandidateCard!ButtonsComeBack'
      /\ job'[r] = n /\ (~disturbed => \A s \in CardSlots \ {r} : job'[s] = None)
  BY <1>2, <1>4, <1>5, <1>6, ClipCardGoesOn
<1>8. ClipCardComing' BY <1>4, <1>5, <1>7 DEF ClipCardComing
<1>9. ClipCardAtRest' BY <1>4, <1>7, ClipTypes DEF ClipCardAtRest
<1> QED BY <1>7, <1>8, <1>9 DEF ClipCardInv

\* The range is stored before the clip is cut.
LEMMA ClipCardTrims ==
  ASSUME ClipCardInv, NEW r \in CardSlots, CandidateCard!TrimCandidate(r)
  PROVE  ClipCardInv'
<1> USE DEF CandidateCard!TrimCandidate, CandidateCard!Asked, CandidateCard!card, CandidateCard!caption
<1>1. CandidateCard!TypeOK BY DEF ClipCardInv
<1>2. PICK j \in CandidateCard!Requests : j = job[r] BY <1>1 DEF CandidateCard!TypeOK
<1>3. PICK R \in CandidateCard!Rows : R = row BY <1>1 DEF CandidateCard!TypeOK
<1>4. PICK n \in CandidateCard!Requests : n = [j EXCEPT !.phase = "cutting", !.answer = R]
  BY ClipTypes
<1>5. n.op = j.op /\ n.of = j.of /\ (n.mine <=> j.mine) /\ n.phase = "cutting" /\ n.answer = R
  BY <1>4 DEF CandidateCard!Requests
<1>6. job' = [job EXCEPT ![r] = n] /\ row' = [R EXCEPT !.range = j.of.range] BY <1>2, <1>3, <1>4
<1>7. j.of # None /\ j.op = "trim" /\ j.phase = "sent"
  BY <1>2 DEF ClipCardInv, ClipCardRequests
<1>8. j.of.range \in Ranges BY <1>7, ClipTypes, ClipBoxes
<1>9. PICK new \in CandidateCard!Rows : new = row' /\ [new EXCEPT !.range = R.range] = R
  BY <1>6, <1>8, ClipRows
<1>10. /\ faults' \in 0..MaxFaults /\ n.answer # None
      /\ UNCHANGED <<shown, box, edited, busy, transcript, loading, fetch, late, acts, disturbed>>
  BY <1>1, <1>5, ClipRows DEF CandidateCard!TypeOK
<1>11. /\ CandidateCard!TypeOK' /\ OneRequest(CardSlots)' /\ ClipCardRequests'
       /\ CandidateCard!TranscriptMatches' /\ CandidateCard!ButtonsComeBack'
       /\ job'[r] = n /\ (~disturbed => \A s \in CardSlots \ {r} : job'[s] = None)
  <2>1. job[r] # None /\ n.op = job[r].op /\ n.of = job[r].of /\ (n.mine <=> job[r].mine)
    BY <1>2, <1>5, <1>7, <1>10
  <2>2. /\ n.phase \in {"cutting", "refused"} => n.op = "trim"
        /\ n.phase \in {"cutting", "served"} => n.answer # None
    BY <1>2, <1>5, <1>7, <1>10
  <2> QED BY <2>1, <2>2, <1>6, <1>9, <1>10, ClipCardGoesOn
<1>12. ~disturbed => /\ shown = R
                     /\ "text" \in edited \/ box.text = R.text
                     /\ "range" \in edited \/ box.range = R.range
  BY <1>2, <1>3, <1>7 DEF ClipCardInv, OneRequest, ClipCardAtRest
<1>13. ClipCardComing' BY <1>5, <1>9, <1>11, <1>12 DEF ClipCardComing
<1>14. ClipCardAtRest' BY <1>5, <1>11, ClipTypes DEF ClipCardAtRest
<1> QED BY <1>11, <1>13, <1>14 DEF ClipCardInv

\* The clip could not be cut: the row has its former range again.
LEMMA ClipCardTrimFails ==
  ASSUME ClipCardInv, NEW r \in CardSlots, CandidateCard!TrimFails(r)
  PROVE  ClipCardInv'
<1> USE DEF CandidateCard!TrimFails, CandidateCard!card, CandidateCard!caption
<1>1. CandidateCard!TypeOK BY DEF ClipCardInv
<1>2. PICK j \in CandidateCard!Requests : j = job[r] BY <1>1 DEF CandidateCard!TypeOK
<1>3. PICK n \in CandidateCard!Requests : n = [j EXCEPT !.phase = "refused"] BY ClipTypes
<1>4. n.op = j.op /\ n.of = j.of /\ (n.mine <=> j.mine) /\ n.phase = "refused"
  BY <1>3 DEF CandidateCard!Requests
<1>5. job' = [job EXCEPT ![r] = n] /\ row' = [row EXCEPT !.range = j.answer.range] BY <1>2, <1>3
<1>6. j.op = "trim" /\ j.answer \in CandidateCard!Rows
  BY <1>2, ClipTypes DEF ClipCardInv, ClipCardRequests
<1>7. row' \in CandidateCard!Rows
  <2>1. row \in CandidateCard!Rows /\ j.answer.range \in Ranges
    BY <1>1, <1>6, ClipRows DEF CandidateCard!TypeOK
  <2>2. PICK R \in CandidateCard!Rows : R = row BY <2>1
  <2>3. PICK x \in Ranges : x = j.answer.range BY <2>1
  <2>4. row' = [R EXCEPT !.range = x] BY <1>5, <2>2, <2>3
  <2>5. [R EXCEPT !.range = x] \in CandidateCard!Rows BY ClipRows
  <2> QED BY <2>4, <2>5
<1>8. /\ faults' \in 0..MaxFaults
      /\ UNCHANGED <<shown, box, edited, busy, transcript, loading, fetch, late, acts, disturbed>>
  BY <1>1, BoundsAreNatural DEF CandidateCard!TypeOK
<1>9. /\ CandidateCard!TypeOK' /\ OneRequest(CardSlots)' /\ ClipCardRequests'
      /\ CandidateCard!TranscriptMatches' /\ CandidateCard!ButtonsComeBack'
      /\ job'[r] = n /\ (~disturbed => \A s \in CardSlots \ {r} : job'[s] = None)
  <2>1. job[r] # None /\ n.op = job[r].op /\ n.of = job[r].of /\ (n.mine <=> job[r].mine)
    BY <1>2, <1>4, <1>6
  <2>2. /\ n.phase \in {"cutting", "refused"} => n.op = "trim"
        /\ n.phase \in {"cutting", "served"} => n.answer # None
    BY <1>2, <1>4, <1>6
  <2> QED BY <2>1, <2>2, <1>5, <1>7, <1>8, ClipCardGoesOn
<1>10. ~disturbed => /\ row' = shown
                     /\ "text" \in edited \/ box.text = shown.text
                     /\ "range" \in edited \/ box.range = shown.range
  BY <1>2, <1>5 DEF ClipCardInv, ClipCardComing
<1>11. ClipCardComing' BY <1>4, <1>9 DEF ClipCardComing
<1>12. ClipCardAtRest' BY <1>10 DEF ClipCardAtRest
<1> QED BY <1>9, <1>11, <1>12 DEF ClipCardInv

\* A trim to the range that the row has is refused.
LEMMA ClipCardTrimRefused ==
  ASSUME ClipCardInv, NEW r \in CardSlots, CandidateCard!TrimRefused(r)
  PROVE  ClipCardInv'
<1> USE DEF CandidateCard!TrimRefused, CandidateCard!Asked, CandidateCard!card, CandidateCard!caption
<1>1. CandidateCard!TypeOK BY DEF ClipCardInv
<1>2. PICK j \in CandidateCard!Requests : j = job[r] BY <1>1 DEF CandidateCard!TypeOK
<1>3. PICK n \in CandidateCard!Requests : n = [j EXCEPT !.phase = "refused"] BY ClipTypes
<1>4. n.op = j.op /\ n.of = j.of /\ (n.mine <=> j.mine) /\ n.phase = "refused" /\ j.op = "trim"
  BY <1>2, <1>3 DEF CandidateCard!Requests
<1>5. job' = [job EXCEPT ![r] = n] BY <1>2, <1>3
<1>6. /\ faults' \in 0..MaxFaults /\ row' \in CandidateCard!Rows
      /\ UNCHANGED <<shown, box, edited, busy, transcript, loading, fetch, late, acts, disturbed>>
  BY <1>1 DEF CandidateCard!TypeOK
<1>7. /\ CandidateCard!TypeOK' /\ OneRequest(CardSlots)' /\ ClipCardRequests'
      /\ CandidateCard!TranscriptMatches' /\ CandidateCard!ButtonsComeBack'
      /\ job'[r] = n /\ (~disturbed => \A s \in CardSlots \ {r} : job'[s] = None)
  <2>1. job[r] # None /\ n.op = job[r].op /\ n.of = job[r].of /\ (n.mine <=> job[r].mine)
    BY <1>2, <1>4
  <2>2. /\ n.phase \in {"cutting", "refused"} => n.op = "trim"
        /\ n.phase \in {"cutting", "served"} => n.answer # None
    BY <1>2, <1>4
  <2> QED BY <2>1, <2>2, <1>5, <1>6, ClipCardGoesOn
<1>8. ~disturbed => /\ row' = shown
                    /\ "text" \in edited \/ box.text = shown.text
                    /\ "range" \in edited \/ box.range = shown.range
  BY <1>2, <1>4 DEF ClipCardInv, OneRequest, ClipCardAtRest
<1>9. ClipCardComing' BY <1>4, <1>7 DEF ClipCardComing
<1>10. ClipCardAtRest' BY <1>8 DEF ClipCardAtRest
<1> QED BY <1>7, <1>9, <1>10 DEF ClipCardInv

\* Whatever was asked, the server answers with its row, or stores the range to be cut.
LEMMA ClipCardServe ==
  ASSUME ClipCardInv, NEW r \in CardSlots, CandidateCard!Serve(r)
  PROVE  ClipCardInv'
<1>1. CandidateCard!TypeOK BY DEF ClipCardInv
<1>2. CASE CandidateCard!TrimCandidate(r) BY <1>2, ClipCardTrims
<1>3. CASE CandidateCard!TrimFails(r) BY <1>3, ClipCardTrimFails
<1>4. CASE ~CandidateCard!TrimCandidate(r) /\ ~CandidateCard!TrimFails(r)
  <2>1. /\ job[r] # None
        /\ UNCHANGED <<shown, box, edited, busy, transcript, loading, fetch, late, acts, faults, disturbed>>
    BY <1>4
      DEF CandidateCard!Serve, CandidateCard!UpdateCandidate, CandidateCard!ClipCandidate,
          CandidateCard!PostNowCandidate, CandidateCard!ScheduleCandidate,
          CandidateCard!FetchCandidates, CandidateCard!RewriteCandidate, CandidateCard!Trimmed,
          CandidateCard!Asked, CandidateCard!card, CandidateCard!caption
  <2>2. row \in CandidateCard!Rows BY <1>1 DEF CandidateCard!TypeOK
  <2>3. job[r].op # "reload" => job[r].of.text \in Texts \cup {Empty}
    <3>1. PICK j \in CandidateCard!Requests : j = job[r] BY <1>1, <2>1 DEF CandidateCard!TypeOK
    <3>2. j.op # "reload" => j.of # None
      BY <2>1, <3>1 DEF ClipCardInv, ClipCardRequests
    <3> QED BY <3>1, <3>2, ClipTypes, ClipBoxes
  <2>4. job[r].op # "reload" =>
          /\ CandidateCard!WithText(job[r].of.text) \in CandidateCard!Rows
          /\ [CandidateCard!WithText(job[r].of.text) EXCEPT !.clip = TRUE] \in CandidateCard!Rows
    BY <2>2, <2>3, ClipRows DEF CandidateCard!WithText
  <2>5. \E new \in CandidateCard!Rows : CandidateCard!Answers(r, new)
    BY <1>4, <2>2, <2>4, ClipRows
      DEF CandidateCard!Serve, CandidateCard!UpdateCandidate, CandidateCard!ClipCandidate,
          CandidateCard!PostNowCandidate, CandidateCard!ScheduleCandidate,
          CandidateCard!FetchCandidates, CandidateCard!RewriteCandidate, CandidateCard!Trimmed,
          CandidateCard!Asked
  <2> QED BY <2>1, <2>5, ClipCardServed
<1> QED BY <1>2, <1>3, <1>4

\* A request of the card resets its own flag when it is answered.
LEMMA ClipCardFlags ==
  ASSUME ClipCardInv, NEW r \in CardSlots, job[r] # None, CandidateCard!Finally(r),
         \A s \in CardSlots \ {r} : job'[s] = job[s]
  PROVE  busy' \subseteq CandidateCard!Ops /\ CandidateCard!ButtonsComeBack'
<1>1. CandidateCard!TypeOK BY DEF ClipCardInv
<1>2. busy' \subseteq busy /\ (job[r].mine => job[r].op \notin busy') BY DEF CandidateCard!Finally
<1>3. busy' \subseteq CandidateCard!Ops BY <1>1, <1>2 DEF CandidateCard!TypeOK
<1>4. SUFFICES ASSUME NEW op \in busy'
               PROVE  \E s \in CardSlots : job'[s] # None /\ job'[s].op = op /\ job'[s].mine
  BY <1>3 DEF CandidateCard!ButtonsComeBack
<1>5. PICK s \in CardSlots : job[s] # None /\ job[s].op = op /\ job[s].mine
  BY <1>2 DEF ClipCardInv, CandidateCard!ButtonsComeBack
<1>6. s # r BY <1>2, <1>5
<1> QED BY <1>5, <1>6

\* A request that ends.
LEMMA ClipCardEnds ==
  ASSUME ClipCardInv, NEW r \in CardSlots, job[r] # None,
         job' = [job EXCEPT ![r] = None], CandidateCard!Finally(r), disturbed => disturbed'
  PROVE  /\ job' \in [CardSlots -> CandidateCard!Requests \cup {None}]
         /\ ~disturbed' => \A s \in CardSlots : job'[s] = None
         /\ busy' \subseteq CandidateCard!Ops /\ CandidateCard!ButtonsComeBack'
         /\ OneRequest(CardSlots)' /\ ClipCardRequests'
<1>1. CandidateCard!TypeOK BY DEF ClipCardInv
<1>2. /\ job' \in [CardSlots -> CandidateCard!Requests \cup {None}] /\ job'[r] = None
      /\ \A s \in CardSlots \ {r} : job'[s] = job[s]
  BY <1>1 DEF CandidateCard!TypeOK
<1>3. ~disturbed' => \A s \in CardSlots : job'[s] = None
  BY <1>2 DEF ClipCardInv, OneRequest
<1>4. OneRequest(CardSlots)' BY <1>2, OneStays DEF ClipCardInv
<1>5. ClipCardRequests' BY <1>2 DEF ClipCardInv, ClipCardRequests
<1> QED BY <1>2, <1>3, <1>4, <1>5, ClipCardFlags

\* An answer arrives, with the row: the boxes are filled from it.
LEMMA ClipCardAnswer ==
  ASSUME ClipCardInv, NEW r \in CardSlots, CandidateCard!AnswerArrives(r)
  PROVE  ClipCardInv'
<1> USE DEF CandidateCard!AnswerArrives, CandidateCard!OnUpdated
<1>1. CandidateCard!TypeOK BY DEF ClipCardInv
<1>2. PICK j \in CandidateCard!Requests : j = job[r] BY <1>1 DEF CandidateCard!TypeOK
<1>3. j.answer \in CandidateCard!Rows BY <1>2, ClipTypes DEF ClipCardInv, ClipCardRequests
<1>4. ~disturbed => j.answer = row BY <1>2 DEF ClipCardInv, ClipCardComing
<1>5. shown' = j.answer /\ box' = [text |-> j.answer.text, range |-> j.answer.range] /\ edited' = {}
  BY <1>2
<1>6. box' \in CandidateCard!Boxes /\ box'.text = shown'.text /\ box'.range = shown'.range
  <2>1. PICK new \in CandidateCard!Rows : new = j.answer BY <1>3
  <2>2. shown' = new /\ box' = [text |-> new.text, range |-> new.range] BY <1>5, <2>1
  <2>3. box' \in CandidateCard!Boxes BY <2>2, ClipRows
  <2>4. box'.text = new.text /\ box'.range = new.range BY <2>2
  <2> QED BY <2>2, <2>3, <2>4
<1>7. /\ job' \in [CardSlots -> CandidateCard!Requests \cup {None}]
      /\ ~disturbed' => \A s \in CardSlots : job'[s] = None
      /\ busy' \subseteq CandidateCard!Ops /\ CandidateCard!ButtonsComeBack'
      /\ OneRequest(CardSlots)' /\ ClipCardRequests'
  BY ClipCardEnds
<1>8. /\ fetch' \in [range : Ranges, phase : {"timer", "asked", "done"}] /\ late' \subseteq Ranges
      /\ CandidateCard!TranscriptMatches'
  <2>1. j.answer.range \in Ranges /\ CandidateCard!Follow(j.answer.range) BY <1>2, <1>3, ClipRows
  <2> QED BY <1>1, <1>5, <1>6, <2>1, ClipFollows DEF ClipCardInv
<1>9. CandidateCard!TypeOK' BY <1>1, <1>3, <1>5, <1>6, <1>7, <1>8 DEF CandidateCard!TypeOK
<1>10. ClipCardComing' BY <1>7 DEF ClipCardComing
<1>11. ClipCardAtRest' BY <1>4, <1>5, <1>6 DEF ClipCardAtRest
<1> QED BY <1>7, <1>8, <1>9, <1>10, <1>11 DEF ClipCardInv

\* A schedule is answered, and the page reads the candidates again.
LEMMA ClipCardScheduled ==
  ASSUME ClipCardInv, NEW r \in CardSlots, CandidateCard!OnScheduled(r)
  PROVE  ClipCardInv'
<1> USE DEF CandidateCard!OnScheduled, CandidateCard!caption
<1>1. CandidateCard!TypeOK BY DEF ClipCardInv
<1>2. PICK n \in CandidateCard!Requests :
        n = CandidateCard!Reload /\ n.op = "reload" /\ n.phase = "sent" /\ n # None
  BY ClipReload
<1>3. job' = [job EXCEPT ![r] = n] BY <1>2
<1>4. job'[r] = n /\ \A s \in CardSlots \ {r} : job'[s] = job[s]
  BY <1>1, <1>3 DEF CandidateCard!TypeOK
<1>5. job' \in [CardSlots -> CandidateCard!Requests \cup {None}]
  BY <1>1, <1>3 DEF CandidateCard!TypeOK
<1>6. busy' \subseteq CandidateCard!Ops /\ CandidateCard!ButtonsComeBack' BY <1>4, ClipCardFlags
<1>7. CandidateCard!TypeOK' BY <1>1, <1>5, <1>6 DEF CandidateCard!TypeOK
<1>8. OneRequest(CardSlots)' BY <1>4, OneStays DEF ClipCardInv
<1>9. ClipCardRequests' BY <1>2, <1>4 DEF ClipCardInv, ClipCardRequests
<1>10. ~disturbed => \A s \in CardSlots \ {r} : job'[s] = None
  BY <1>4 DEF ClipCardInv, OneRequest
<1>11. ClipCardComing' BY <1>2, <1>4, <1>10 DEF ClipCardComing
<1>12. ClipCardAtRest' BY <1>2, <1>4 DEF ClipCardAtRest
<1>13. CandidateCard!TranscriptMatches' BY DEF ClipCardInv, CandidateCard!TranscriptMatches
<1> QED BY <1>6, <1>7, <1>8, <1>9, <1>11, <1>12, <1>13 DEF ClipCardInv

\* A request fails: that its effect is not shown is remembered.
LEMMA ClipCardFails ==
  ASSUME ClipCardInv, NEW r \in CardSlots, CandidateCard!Fails(r)
  PROVE  ClipCardInv'
<1> USE DEF CandidateCard!Fails, CandidateCard!caption
<1>1. CandidateCard!TypeOK BY DEF ClipCardInv
<1>2. PICK j \in CandidateCard!Requests : j = job[r] BY <1>1 DEF CandidateCard!TypeOK
<1>3. /\ disturbed' \in BOOLEAN /\ (disturbed => disturbed')
      /\ ~disturbed' => j.phase \in {"sent", "refused"} /\ j.op # "reload"
  <2>1. disturbed \in BOOLEAN BY <1>1 DEF CandidateCard!TypeOK
  <2>2. CASE j.phase = "refused"
    <3>1. j.op = "trim" BY <1>2, <2>2 DEF ClipCardInv, ClipCardRequests
    <3>2. disturbed' = disturbed BY <1>2, <2>2
    <3> QED BY <2>1, <2>2, <3>1, <3>2
  <2>3. CASE j.phase \in {"sent", "served"}
    <3>1. disturbed' = (disturbed \/ j.phase = "served" \/ j.op = "reload") BY <1>2, <2>3
    <3> QED BY <2>1, <2>3, <3>1
  <2> QED BY <1>2, <2>2, <2>3
<1>4. faults' \in 0..MaxFaults BY <1>1, BoundsAreNatural DEF CandidateCard!TypeOK
<1>5. /\ job' \in [CardSlots -> CandidateCard!Requests \cup {None}]
      /\ ~disturbed' => \A s \in CardSlots : job'[s] = None
      /\ busy' \subseteq CandidateCard!Ops /\ CandidateCard!ButtonsComeBack'
      /\ OneRequest(CardSlots)' /\ ClipCardRequests'
  BY <1>3, ClipCardEnds
<1>6. CandidateCard!TypeOK' BY <1>1, <1>3, <1>4, <1>5 DEF CandidateCard!TypeOK
<1>7. ClipCardComing' BY <1>5 DEF ClipCardComing
<1>8. ClipCardAtRest'
  <2>1. ~disturbed' => \A s \in CardSlots : job[s] # None => s = r
    BY <1>3 DEF ClipCardInv, OneRequest
  <2> QED BY <1>2, <1>3, <2>1 DEF ClipCardInv, ClipCardAtRest
<1>9. CandidateCard!TranscriptMatches' BY DEF ClipCardInv, CandidateCard!TranscriptMatches
<1> QED BY <1>5, <1>6, <1>7, <1>8, <1>9 DEF ClipCardInv

\* The transcript is fetched, and an answer to a fetch that was cancelled changes nothing.
LEMMA ClipCardFetch ==
  ASSUME ClipCardInv,
         \/ CandidateCard!FetchTranscript \/ CandidateCard!TranscriptArrives
         \/ \E range \in Ranges : CandidateCard!LateArrives(range)
  PROVE  ClipCardInv'
<1>1. CandidateCard!TypeOK BY DEF ClipCardInv
<1>2. UNCHANGED <<row, shown, box, edited, busy, job, acts, faults, disturbed>>
  BY DEF CandidateCard!FetchTranscript, CandidateCard!TranscriptArrives, CandidateCard!LateArrives,
         CandidateCard!card
<1>3. OneRequest(CardSlots)' /\ ClipCardRequests' /\ ClipCardComing' /\ ClipCardAtRest'
  BY <1>2 DEF ClipCardInv, OneRequest, ClipCardRequests, ClipCardComing, ClipCardAtRest
<1>4. CandidateCard!ButtonsComeBack' BY <1>2 DEF ClipCardInv, CandidateCard!ButtonsComeBack
<1>5. /\ fetch' \in [range : Ranges, phase : {"timer", "asked", "done"}] /\ late' \subseteq Ranges
      /\ transcript' \in Ranges \cup {None} /\ loading' \in BOOLEAN
      /\ CandidateCard!TranscriptMatches'
  <2> USE <1>1, <1>2 DEF ClipCardInv, CandidateCard!TypeOK, CandidateCard!TranscriptMatches
  <2>1. CASE CandidateCard!FetchTranscript BY <2>1 DEF CandidateCard!FetchTranscript
  <2>2. CASE CandidateCard!TranscriptArrives BY <2>2 DEF CandidateCard!TranscriptArrives
  <2>3. CASE \E range \in Ranges : CandidateCard!LateArrives(range)
    BY <2>3 DEF CandidateCard!LateArrives, CandidateCard!CancelledArrives
  <2> QED BY <2>1, <2>2, <2>3
<1>6. CandidateCard!TypeOK' BY <1>1, <1>2, <1>5 DEF CandidateCard!TypeOK
<1> QED BY <1>3, <1>4, <1>5, <1>6 DEF ClipCardInv

\* Every step of the card of a clip preserves its invariant.
LEMMA ClipCardStep == ClipCardInv /\ CandidateCard!Next => ClipCardInv'
<1> SUFFICES ASSUME ClipCardInv, CandidateCard!Next PROVE ClipCardInv' OBVIOUS
<1>1. CASE \E t \in Texts \cup {Empty} : CandidateCard!TypeText(t) BY <1>1, ClipCardTypeText
<1>2. CASE \E range \in Ranges : CandidateCard!TypeRange(range) \/ CandidateCard!LateArrives(range)
  BY <1>2, ClipCardTypeRange, ClipCardFetch
<1>3. CASE \/ CandidateCard!HandleSave \/ CandidateCard!HandleClip \/ CandidateCard!HandleTrim
           \/ CandidateCard!HandleSchedule \/ CandidateCard!HandlePostNow \/ CandidateCard!HandleRefine
  <2>1. \E op \in CandidateCard!Ops : CandidateCard!Send(op)
    BY <1>3
      DEF CandidateCard!HandleSave, CandidateCard!HandleClip, CandidateCard!HandleTrim,
          CandidateCard!HandleSchedule, CandidateCard!HandlePostNow, CandidateCard!HandleRefine,
          CandidateCard!Ops
  <2> QED BY <2>1, ClipCardSend
<1>4. CASE \/ CandidateCard!Remount \/ CandidateCard!PageReloads
           \/ CandidateCard!FetchTranscript \/ CandidateCard!TranscriptArrives
  BY <1>4, ClipCardRemount, ClipCardReloads, ClipCardFetch
<1>5. CASE \E r \in CardSlots :
             \/ CandidateCard!Serve(r) \/ CandidateCard!TrimRefused(r)
             \/ CandidateCard!AnswerArrives(r) \/ CandidateCard!OnScheduled(r)
             \/ CandidateCard!Fails(r)
  BY <1>5, ClipCardServe, ClipCardTrimRefused, ClipCardAnswer, ClipCardScheduled, ClipCardFails
<1> QED BY <1>1, <1>2, <1>3, <1>4, <1>5 DEF CandidateCard!Next

\* That the card shows its row follows.
LEMMA ClipCardFollow == ClipCardInv => CandidateCard!ShowsItsRow
BY DEF ClipCardInv, ClipCardAtRest, CandidateCard!ShowsItsRow, CandidateCard!Quiet

-----------------------------------------------------------------------------
(* Proofs: the ideas *)

\* What a request is made of, and what becomes of it.
LEMMA IdeasTypes ==
  \A j \in IdeasPage!Requests :
    /\ j # None /\ j.op \in {"refresh", "create", "save", "delete"}
    /\ j.id \in Ideas \cup {None} /\ j.text \in Texts \cup {Empty} /\ j.served \in BOOLEAN
    /\ j.answer \in IdeasPage!Tables \cup Texts \cup {None} /\ j.mine \in BOOLEAN
    /\ [j EXCEPT !.mine = FALSE] \in IdeasPage!Requests
    /\ \A a \in IdeasPage!Tables \cup Texts \cup {None} :
         [j EXCEPT !.served = TRUE, !.answer = a] \in IdeasPage!Requests
BY NoneIsNoValue DEF IdeasPage!Requests

\* What is listed.
LEMMA IdeasTables ==
  \A list \in IdeasPage!Tables :
    /\ \A i \in Ideas : /\ list[i] \in Texts \cup {None}
                        /\ i \in IdeasPage!Listed(list) <=> list[i] # None
    /\ IdeasPage!Listed(list) \subseteq Ideas
BY DEF IdeasPage!Tables, IdeasPage!Listed

\* A list with one idea changed.
LEMMA IdeasChange ==
  ASSUME NEW list \in IdeasPage!Tables, NEW i \in Ideas, NEW t \in Texts \cup {None}
  PROVE  /\ [list EXCEPT ![i] = t] \in IdeasPage!Tables
         /\ \A k \in Ideas : [list EXCEPT ![i] = t][k] = IF k = i THEN t ELSE list[k]
BY DEF IdeasPage!Tables

\* A request that is made.
LEMMA IdeasRequested ==
  ASSUME box \in Texts \cup {Empty}, NEW op \in {"refresh", "create", "save", "delete"},
         NEW id \in Ideas \cup {None}
  PROVE  /\ IdeasPage!Request(op, id) \in IdeasPage!Requests
         /\ IdeasPage!Request(op, id).op = op /\ IdeasPage!Request(op, id).id = id
         /\ ~IdeasPage!Request(op, id).served /\ IdeasPage!Request(op, id).mine
         /\ IdeasPage!Request(op, id) # None
<1>1. IdeasPage!Request(op, id) \in IdeasPage!Requests
  BY DEF IdeasPage!Request, IdeasPage!Requests
<1>2. /\ IdeasPage!Request(op, id).op = op /\ IdeasPage!Request(op, id).id = id
      /\ ~IdeasPage!Request(op, id).served /\ IdeasPage!Request(op, id).mine
  BY DEF IdeasPage!Request
<1> QED BY <1>1, <1>2, IdeasTypes

\* The page opens and reads the list.
LEMMA IdeasBegins == IdeasPage!Init => IdeasInv
<1> SUFFICES ASSUME IdeasPage!Init PROVE IdeasInv OBVIOUS
<1> USE DEF IdeasPage!Init
<1>1. rows \in IdeasPage!Tables /\ ideas \in IdeasPage!Tables BY DEF IdeasPage!Tables
<1>2. PICK n \in IdeasPage!Requests :
        n = IdeasPage!Request("refresh", None) /\ n.op = "refresh" /\ ~n.served /\ n # None
  BY IdeasRequested
<1>3. PICK r \in CardSlots : job = [s \in CardSlots |-> IF s = r THEN n ELSE None] BY <1>2
<1>4. /\ job \in [CardSlots -> IdeasPage!Requests \cup {None}] /\ job[r] = n
      /\ \A s \in CardSlots : job[s] # None => s = r
  BY <1>3
<1>5. acts \in 0..CardActs /\ faults \in 0..MaxFaults BY BoundsAreNatural
<1>6. IdeasPage!TypeOK BY <1>1, <1>4, <1>5 DEF IdeasPage!TypeOK
<1>7. OneRequest(CardSlots) BY <1>4 DEF OneRequest
<1>8. IdeasRequests BY <1>2, <1>4 DEF IdeasRequests
<1>9. IdeasListed /\ IdeasPage!ShowsItsRow
  BY NoneIsNoValue DEF IdeasListed, IdeasPage!ShowsItsRow, IdeasPage!Mounted, IdeasPage!Listed
<1>10. IdeasComing BY <1>2, <1>4 DEF IdeasComing
<1>11. IdeasFlags BY <1>2, <1>4 DEF IdeasFlags, Resets
<1> QED BY <1>6, <1>7, <1>8, <1>9, <1>10, <1>11 DEF IdeasInv

\* What is shown is shown with its boxes.
LEMMA IdeasShow ==
  ASSUME IdeasPage!TypeOK, IdeasPage!ShowsItsRow, NEW list \in IdeasPage!Tables,
         NEW sel \in Ideas \cup {None}, NEW fresh \in BOOLEAN, IdeasPage!Show(list, sel, fresh),
         sel \in IdeasPage!Listed(list) /\ ~fresh /\ sel = selected => list[sel] = ideas[sel]
  PROVE  /\ ideas' = list /\ selected' = sel /\ box' \in Texts \cup {Empty} /\ edited' \in BOOLEAN
         /\ switched' \in BOOLEAN /\ (switched => switched')
         /\ ~switched' /\ "delete" \in busy /\ sel \in IdeasPage!Listed(list) => sel = selected
         /\ IdeasPage!ShowsItsRow'
<1> USE DEF IdeasPage!Show
<1>1. ideas' = list /\ selected' = sel /\ switched' \in BOOLEAN /\ (switched => switched')
  BY DEF IdeasPage!TypeOK
<1>2. ~switched' /\ "delete" \in busy /\ sel \in IdeasPage!Listed(list) => sel = selected
  BY DEF IdeasPage!TypeOK
<1>3. CASE sel \notin IdeasPage!Listed(list)
  BY <1>1, <1>2, <1>3 DEF IdeasPage!TypeOK, IdeasPage!ShowsItsRow, IdeasPage!Mounted
<1>4. CASE sel \in IdeasPage!Listed(list) /\ (fresh \/ sel # selected)
  <2>1. box' = list[sel] /\ edited' = FALSE BY <1>4
  <2>2. list[sel] \in Texts BY <1>4, IdeasTables
  <2> QED BY <1>1, <1>2, <2>1, <2>2 DEF IdeasPage!ShowsItsRow
<1>5. CASE sel \in IdeasPage!Listed(list) /\ ~fresh /\ sel = selected
  <2>1. box' = box /\ edited' = edited BY <1>5
  <2>2. selected \in IdeasPage!Listed(ideas)
    BY <1>5, IdeasTables DEF IdeasPage!TypeOK
  <2> QED BY <1>1, <1>2, <1>5, <2>1, <2>2
        DEF IdeasPage!TypeOK, IdeasPage!ShowsItsRow, IdeasPage!Mounted
<1> QED BY <1>3, <1>4, <1>5

\* The user types.
LEMMA IdeasTypeText ==
  ASSUME IdeasInv, NEW t \in Texts \cup {Empty}, IdeasPage!TypeText(t)
  PROVE  IdeasInv'
<1> USE DEF IdeasPage!TypeText, IdeasPage!Act
<1>1. acts' \in 0..CardActs BY BoundsAreNatural DEF IdeasInv, IdeasPage!TypeOK
<1>2. IdeasPage!TypeOK' BY <1>1 DEF IdeasInv, IdeasPage!TypeOK
<1>3. OneRequest(CardSlots)' /\ IdeasRequests' /\ IdeasListed' /\ IdeasComing'
  BY DEF IdeasInv, OneRequest, IdeasRequests, IdeasListed, IdeasComing
<1>4. IdeasPage!ShowsItsRow' BY DEF IdeasPage!ShowsItsRow
<1>5. IdeasFlags' BY DEF IdeasInv, IdeasFlags, Resets
<1> QED BY <1>2, <1>3, <1>4, <1>5 DEF IdeasInv

\* The user selects an idea.
LEMMA IdeasClick ==
  ASSUME IdeasInv, NEW i \in Ideas, IdeasPage!ClickIdea(i)
  PROVE  IdeasInv'
<1> USE DEF IdeasPage!ClickIdea, IdeasPage!Act
<1>1. IdeasPage!TypeOK /\ ideas \in IdeasPage!Tables BY DEF IdeasInv, IdeasPage!TypeOK
<1>2. /\ ideas' = ideas /\ selected' = i /\ box' \in Texts \cup {Empty} /\ edited' \in BOOLEAN
      /\ switched' \in BOOLEAN /\ (switched => switched')
      /\ ~switched' /\ "delete" \in busy => i = selected
      /\ IdeasPage!ShowsItsRow'
  <2>1. /\ i \in IdeasPage!Listed(ideas) /\ IdeasPage!Show(ideas, i, TRUE)
        /\ i \in Ideas \cup {None} /\ TRUE \in BOOLEAN
    OBVIOUS
  <2>2. IdeasPage!ShowsItsRow BY DEF IdeasInv
  <2> HIDE DEF IdeasPage!ClickIdea
  <2> QED BY <1>1, <2>1, <2>2, IdeasShow
<1>3. acts' \in 0..CardActs BY BoundsAreNatural DEF IdeasInv, IdeasPage!TypeOK
<1>4. IdeasPage!TypeOK' BY <1>1, <1>2, <1>3 DEF IdeasPage!TypeOK
<1>5. OneRequest(CardSlots)' /\ IdeasRequests' BY DEF IdeasInv, OneRequest, IdeasRequests
<1>6. IdeasListed' BY <1>2 DEF IdeasListed
<1>7. IdeasComing' BY <1>2 DEF IdeasInv, IdeasComing
<1>8. IdeasFlags' BY <1>2 DEF IdeasInv, IdeasFlags, Resets
<1> QED BY <1>2, <1>4, <1>5, <1>6, <1>7, <1>8 DEF IdeasInv

\* The user sends a request, whose flag was not set.
LEMMA IdeasSend ==
  ASSUME IdeasInv, NEW op \in {"create", "save", "delete"}, NEW id \in Ideas, op \notin busy,
         op = "create" => id = NewIdea, op = "delete" => id = selected, IdeasPage!Send(op, id)
  PROVE  IdeasInv'
<1> USE DEF IdeasPage!Send, IdeasPage!Act
<1>1. IdeasPage!TypeOK BY DEF IdeasInv
<1>2. PICK n \in IdeasPage!Requests :
        n = IdeasPage!Request(op, id) /\ n.op = op /\ n.id = id /\ ~n.served /\ n.mine /\ n # None
  BY <1>1, IdeasRequested DEF IdeasPage!TypeOK
<1>3. PICK r \in CardSlots : job[r] = None /\ job' = [job EXCEPT ![r] = n] BY <1>2
<1>4. job'[r] = n /\ \A s \in CardSlots \ {r} : job'[s] = job[s]
  BY <1>1, <1>3 DEF IdeasPage!TypeOK
<1>5. job' \in [CardSlots -> IdeasPage!Requests \cup {None}] BY <1>1, <1>3 DEF IdeasPage!TypeOK
<1>6. acts' \in 0..CardActs BY <1>1, BoundsAreNatural DEF IdeasPage!TypeOK
<1>7. disturbed' \in BOOLEAN /\ (~disturbed' => ~disturbed /\ \A s \in CardSlots : job[s] = None)
  BY <1>1 DEF IdeasPage!Quiet, IdeasPage!TypeOK
<1>8. IdeasPage!TypeOK' BY <1>1, <1>5, <1>6, <1>7 DEF IdeasPage!TypeOK
<1>9. OneRequest(CardSlots)' BY <1>4, <1>7, OneBegins
<1>10. IdeasRequests' BY <1>2, <1>4 DEF IdeasInv, IdeasRequests
<1>11. IdeasListed' BY DEF IdeasInv, IdeasListed
<1>12. IdeasComing'
  <2>1. ~disturbed' => ideas = rows BY <1>7 DEF IdeasInv, IdeasComing
  <2> QED BY <1>2, <1>4, <1>7, <2>1 DEF IdeasComing
<1>13. IdeasPage!ShowsItsRow' BY DEF IdeasInv, IdeasPage!ShowsItsRow, IdeasPage!Mounted
<1>14. IdeasFlags'
  <2>1. \A o \in {"create", "save", "delete"} : Resets(r, o)' <=> o = op BY <1>2, <1>4 DEF Resets
  <2>2. \A s \in CardSlots \ {r} : \A o : Resets(s, o)' <=> Resets(s, o) BY <1>4 DEF Resets
  <2>3. \A s \in CardSlots : ~Resets(s, op) BY DEF IdeasInv, IdeasFlags
  <2>4. \A o : ~Resets(r, o) BY <1>3 DEF Resets
  <2>5. ASSUME NEW o \in busy', o = "delete" => ~switched' PROVE \E s \in CardSlots : Resets(s, o)'
    <3>1. CASE o = op BY <2>1, <3>1
    <3>2. CASE o # op
      <4>1. PICK s \in CardSlots : Resets(s, o) BY <2>5, <3>2 DEF IdeasInv, IdeasFlags
      <4>2. s # r BY <2>4, <4>1
      <4> QED BY <2>2, <4>1, <4>2
    <3> QED BY <3>1, <3>2
  <2>6. ASSUME NEW o \in {"create", "save", "delete"}, NEW s \in CardSlots, Resets(s, o)'
        PROVE  o \in busy' /\ \A q \in CardSlots : Resets(q, o)' => q = s
    <3>1. CASE s = r BY <2>1, <2>2, <2>3, <2>6, <3>1
    <3>2. CASE s # r
      <4>1. Resets(s, o) /\ o # op BY <2>2, <2>3, <2>6, <3>2
      <4> QED BY <2>1, <2>2, <4>1 DEF IdeasInv, IdeasFlags
    <3> QED BY <3>1, <3>2
  <2>7. ASSUME NEW s \in CardSlots, Resets(s, "delete")', ~switched'
        PROVE  selected' = job'[s].id
    <3>1. CASE s = r BY <1>2, <1>4, <2>1, <2>7, <3>1
    <3>2. CASE s # r BY <1>4, <2>2, <2>7, <3>2 DEF IdeasInv, IdeasFlags
    <3> QED BY <3>1, <3>2
  <2> QED BY <2>5, <2>6, <2>7 DEF IdeasFlags
<1> QED BY <1>8, <1>9, <1>10, <1>11, <1>12, <1>13, <1>14 DEF IdeasInv

\* The three buttons.
LEMMA IdeasButtons ==
  ASSUME IdeasInv, IdeasPage!HandleCreate \/ IdeasPage!HandleSave \/ IdeasPage!HandleDelete
  PROVE  IdeasInv'
<1>1. CASE IdeasPage!HandleCreate
  BY <1>1, IdeasSend, NewIdeaIsAnIdea DEF IdeasPage!HandleCreate, IdeasPage!CreateButtons
<1>2. IdeasPage!Mounted => selected \in Ideas BY DEF IdeasPage!Mounted, IdeasPage!Listed
<1>3. CASE IdeasPage!HandleSave
  BY <1>2, <1>3, IdeasSend DEF IdeasPage!HandleSave, IdeasPage!SaveButton
<1>4. CASE IdeasPage!HandleDelete
  BY <1>2, <1>4, IdeasSend DEF IdeasPage!HandleDelete, IdeasPage!RemoveButton
<1> QED BY <1>1, <1>3, <1>4

\* Without a request that was remembered, one that is not served finds the list as it is
\* shown, and one that is served has the answer that makes it so.
LEMMA IdeasAlone ==
  ASSUME IdeasInv, NEW r \in CardSlots, job[r] # None, ~disturbed
  PROVE  /\ \A s \in CardSlots \ {r} : job[s] = None
         /\ ~job[r].served /\ job[r].op # "refresh" => ideas = rows
         /\ job[r].served /\ job[r].op = "refresh" => job[r].answer = rows
         /\ job[r].served /\ job[r].op \in {"create", "save"} =>
              /\ job[r].op = "save" => ideas[job[r].id] # None
              /\ rows = [ideas EXCEPT ![job[r].id] = job[r].answer]
         /\ job[r].served /\ job[r].op = "delete" => rows = [ideas EXCEPT ![job[r].id] = None]
<1>1. \A s \in CardSlots : job[s] # None => s = r BY DEF IdeasInv, OneRequest
<1> QED BY <1>1 DEF IdeasInv, IdeasComing

\* The server answers.
LEMMA IdeasServed ==
  ASSUME IdeasInv, NEW r \in CardSlots, NEW a \in IdeasPage!Tables \cup Texts \cup {None},
         NEW op \in {"refresh", "create", "save", "delete"},
         IdeasPage!Asked(r, op), IdeasPage!Answers(r, a), rows' \in IdeasPage!Tables,
         op = "refresh" => a \in IdeasPage!Tables /\ a = rows',
         op \in {"create", "save"} => a \in Texts,
         ~disturbed /\ op \in {"create", "save"} =>
           /\ op = "save" => ideas[job[r].id] # None
           /\ rows' = [ideas EXCEPT ![job[r].id] = a],
         ~disturbed /\ op = "delete" => rows' = [ideas EXCEPT ![job[r].id] = None]
  PROVE  IdeasInv'
<1>1. IdeasPage!TypeOK BY DEF IdeasInv
<1>2. /\ job[r] # None /\ job[r].op = op /\ ~job[r].served
      /\ UNCHANGED <<ideas, selected, box, edited, busy, acts, faults, disturbed, switched>>
  BY DEF IdeasPage!Asked, IdeasPage!page
<1>3. PICK j \in IdeasPage!Requests : j = job[r] BY <1>1, <1>2 DEF IdeasPage!TypeOK
<1>4. PICK n \in IdeasPage!Requests : n = [j EXCEPT !.served = TRUE, !.answer = a]
  BY IdeasTypes
<1>5. n.op = op /\ n.id = j.id /\ (n.mine <=> j.mine) /\ n.served /\ n.answer = a /\ n # None
  BY <1>2, <1>3, <1>4, IdeasTypes DEF IdeasPage!Requests
<1>6. job' = [job EXCEPT ![r] = n] BY <1>3, <1>4 DEF IdeasPage!Answers
<1>7. job'[r] = n /\ \A s \in CardSlots \ {r} : job'[s] = job[s]
  BY <1>1, <1>6 DEF IdeasPage!TypeOK
<1>8. job' \in [CardSlots -> IdeasPage!Requests \cup {None}] BY <1>1, <1>6 DEF IdeasPage!TypeOK
<1>9. IdeasPage!TypeOK' BY <1>1, <1>2, <1>8 DEF IdeasPage!TypeOK
<1>10. OneRequest(CardSlots)' BY <1>2, <1>7, OneStays DEF IdeasInv
<1>11. IdeasRequests' BY <1>2, <1>3, <1>5, <1>7 DEF IdeasInv, IdeasRequests
<1>12. IdeasListed' /\ IdeasPage!ShowsItsRow'
  BY <1>2 DEF IdeasInv, IdeasListed, IdeasPage!ShowsItsRow, IdeasPage!Mounted
<1>13. IdeasComing'
  <2> SUFFICES ASSUME ~disturbed
               PROVE  \/ n.op = "refresh" /\ n.answer = rows'
                      \/ /\ n.op \in {"create", "save"} /\ n.answer # None
                         /\ n.op = "save" => ideas[n.id] # None
                         /\ rows' = [ideas EXCEPT ![n.id] = n.answer]
                      \/ n.op = "delete" /\ rows' = [ideas EXCEPT ![n.id] = None]
    BY <1>2, <1>5, <1>7 DEF IdeasComing
  <2> QED BY <1>3, <1>5, NoneIsNoValue
<1>14. IdeasFlags'
  <2>1. \A s \in CardSlots : \A o : (Resets(s, o)' <=> Resets(s, o)) /\ (job[s] # None => job'[s].id = job[s].id)
    BY <1>2, <1>3, <1>5, <1>7 DEF Resets
  <2>2. \A s \in CardSlots : Resets(s, "delete") => job[s] # None BY DEF Resets
  <2>3. ASSUME NEW o \in busy', o = "delete" => ~switched' PROVE \E s \in CardSlots : Resets(s, o)'
    BY <1>2, <2>1, <2>3 DEF IdeasInv, IdeasFlags
  <2>4. ASSUME NEW o \in {"create", "save", "delete"}, NEW s \in CardSlots, Resets(s, o)'
        PROVE  o \in busy' /\ \A q \in CardSlots : Resets(q, o)' => q = s
    BY <1>2, <2>1, <2>4 DEF IdeasInv, IdeasFlags
  <2>5. ASSUME NEW s \in CardSlots, Resets(s, "delete")', ~switched' PROVE selected' = job'[s].id
    BY <1>2, <2>1, <2>2, <2>5 DEF IdeasInv, IdeasFlags
  <2> QED BY <2>3, <2>4, <2>5 DEF IdeasFlags
<1> QED BY <1>9, <1>10, <1>11, <1>12, <1>13, <1>14 DEF IdeasInv

\* Whatever was asked, the table changes by what is answered.
LEMMA IdeasServe ==
  ASSUME IdeasInv, NEW r \in CardSlots, IdeasPage!Serve(r)
  PROVE  IdeasInv'
<1>1. IdeasPage!TypeOK /\ rows \in IdeasPage!Tables BY DEF IdeasInv, IdeasPage!TypeOK
<1>2. job[r] # None /\ ~job[r].served
  BY DEF IdeasPage!Serve, IdeasPage!FetchIdeas, IdeasPage!CreateIdea, IdeasPage!UpdateIdea,
         IdeasPage!DeleteIdea, IdeasPage!Asked
<1>3. PICK j \in IdeasPage!Requests : j = job[r] BY <1>1, <1>2 DEF IdeasPage!TypeOK
<1>4. /\ j.op # "refresh" => j.id \in Ideas
      /\ j.op = "create" => j.id = NewIdea
  BY <1>2, <1>3 DEF IdeasInv, IdeasRequests
<1>5. ~disturbed /\ j.op # "refresh" => ideas = rows BY <1>2, <1>3, IdeasAlone
<1>6. CASE IdeasPage!FetchIdeas(r)
  <2>1. IdeasPage!Asked(r, "refresh") /\ IdeasPage!Answers(r, rows) /\ rows' = rows
    BY <1>6 DEF IdeasPage!FetchIdeas
  <2> QED BY <1>1, <2>1, IdeasServed
<1>7. CASE IdeasPage!CreateIdea(r)
  <2>1. IdeasPage!Asked(r, "create") BY <1>7 DEF IdeasPage!CreateIdea
  <2>2. PICK t \in Texts : rows' = [rows EXCEPT ![NewIdea] = t] /\ IdeasPage!Answers(r, t)
    BY <1>7 DEF IdeasPage!CreateIdea
  <2>3. j.op = "create" BY <1>3, <2>1 DEF IdeasPage!Asked
  <2>4. rows' \in IdeasPage!Tables BY <1>1, <2>2, IdeasChange, NewIdeaIsAnIdea
  <2>5. ~disturbed => rows' = [ideas EXCEPT ![job[r].id] = t] BY <1>3, <1>4, <1>5, <2>2, <2>3
  <2> QED BY <2>1, <2>2, <2>4, <2>5, IdeasServed
<1>8. CASE IdeasPage!UpdateIdea(r)
  <2>1. IdeasPage!Asked(r, "save") /\ rows[job[r].id] # None BY <1>8 DEF IdeasPage!UpdateIdea
  <2>2. j.op = "save" /\ j.id \in Ideas BY <1>3, <1>4, <2>1 DEF IdeasPage!Asked
  <2>3. PICK t : /\ t = (IF j.text = Empty THEN rows[j.id] ELSE j.text)
                 /\ rows' = [rows EXCEPT ![j.id] = t] /\ IdeasPage!Answers(r, t)
    BY <1>3, <1>8 DEF IdeasPage!UpdateIdea
  <2>4. t \in Texts BY <1>1, <1>3, <2>1, <2>2, <2>3, IdeasTables, IdeasTypes
  <2>5. rows' \in IdeasPage!Tables BY <1>1, <2>2, <2>3, <2>4, IdeasChange
  <2>6. ~disturbed => /\ ideas[job[r].id] # None
                      /\ rows' = [ideas EXCEPT ![job[r].id] = t]
    BY <1>3, <1>5, <2>1, <2>2, <2>3
  <2> QED BY <2>1, <2>3, <2>4, <2>5, <2>6, IdeasServed
<1>9. CASE IdeasPage!DeleteIdea(r)
  <2>1. /\ IdeasPage!Asked(r, "delete") /\ rows' = [rows EXCEPT ![j.id] = None]
        /\ IdeasPage!Answers(r, None)
    BY <1>3, <1>9 DEF IdeasPage!DeleteIdea
  <2>2. j.op = "delete" /\ j.id \in Ideas BY <1>3, <1>4, <2>1 DEF IdeasPage!Asked
  <2>3. rows' \in IdeasPage!Tables BY <1>1, <2>1, <2>2, IdeasChange
  <2>4. ~disturbed => rows' = [ideas EXCEPT ![job[r].id] = None] BY <1>3, <1>5, <2>1, <2>2
  <2> QED BY <2>1, <2>3, <2>4, IdeasServed
<1> QED BY <1>6, <1>7, <1>8, <1>9 DEF IdeasPage!Serve

\* What is left of the requests when the card is unmounted as one ends.
IdeasLeft(r) ==
    [s \in CardSlots |->
        IF IdeasPage!Done(r)[s] = None \/ IdeasPage!Done(r)[s].op = "create"
        THEN IdeasPage!Done(r)[s] ELSE [IdeasPage!Done(r)[s] EXCEPT !.mine = FALSE]]

\* A request ends; without a card the others have no flag to reset, but those that create.
LEMMA IdeasEnds ==
  ASSUME IdeasInv, NEW r \in CardSlots, job[r] # None, NEW mounts \in BOOLEAN,
         mounts => job' = IdeasPage!Done(r), ~mounts => job' = IdeasLeft(r),
         disturbed => disturbed'
  PROVE  /\ job' \in [CardSlots -> IdeasPage!Requests \cup {None}] /\ job'[r] = None
         /\ \A s \in CardSlots \ {r} : mounts => job'[s] = job[s]
         /\ \A s \in CardSlots : \A o : Resets(s, o)' => s # r /\ Resets(s, o) /\ (mounts \/ o = "create")
         /\ \A s \in CardSlots \ {r} : Resets(s, "create") => Resets(s, "create")'
         /\ ~disturbed' => \A s \in CardSlots : job'[s] = None
         /\ OneRequest(CardSlots)' /\ IdeasRequests'
<1>1. IdeasPage!TypeOK BY DEF IdeasInv
<1>2. /\ IdeasPage!Done(r) \in [CardSlots -> IdeasPage!Requests \cup {None}]
      /\ IdeasPage!Done(r)[r] = None
      /\ \A s \in CardSlots \ {r} : IdeasPage!Done(r)[s] = job[s]
  BY <1>1 DEF IdeasPage!Done, IdeasPage!TypeOK
<1>3. job'[r] = None BY <1>2 DEF IdeasLeft
<1>4. ASSUME NEW s \in CardSlots \ {r}
      PROVE  \/ job'[s] = job[s] /\ (mounts \/ job[s] = None \/ job[s].op = "create")
             \/ job[s] # None /\ job[s].op # "create" /\ ~mounts /\ job'[s] = [job[s] EXCEPT !.mine = FALSE]
  BY <1>2 DEF IdeasLeft
<1>5. ASSUME NEW s \in CardSlots \ {r}, job[s] # None
      PROVE  /\ job'[s] \in IdeasPage!Requests
             /\ job'[s].op = job[s].op /\ job'[s].id = job[s].id /\ (job'[s].served <=> job[s].served)
             /\ job'[s].answer = job[s].answer
             /\ \/ job'[s] = job[s] /\ (mounts \/ job[s].op = "create")
                \/ job[s].op # "create" /\ ~job'[s].mine
  <2>1. PICK j \in IdeasPage!Requests : j = job[s] BY <1>1, <1>5 DEF IdeasPage!TypeOK
  <2>2. CASE job'[s] = job[s] /\ (mounts \/ job[s].op = "create") BY <2>1, <2>2
  <2>3. CASE job[s].op # "create" /\ job'[s] = [j EXCEPT !.mine = FALSE]
    <3>1. PICK n \in IdeasPage!Requests : n = [j EXCEPT !.mine = FALSE] BY IdeasTypes
    <3>2. n.op = j.op /\ n.id = j.id /\ (n.served <=> j.served) /\ n.answer = j.answer /\ ~n.mine
      BY <3>1 DEF IdeasPage!Requests
    <3> QED BY <2>1, <2>3, <3>1, <3>2
  <2> QED BY <1>4, <1>5, <2>1, <2>2, <2>3
<1>6. \A s \in CardSlots \ {r} : job[s] = None => job'[s] = None BY <1>4
<1>7. job' \in [CardSlots -> IdeasPage!Requests \cup {None}]
  <2>1. job' = [s \in CardSlots |-> job'[s]] BY <1>2 DEF IdeasLeft
  <2>2. \A s \in CardSlots : job'[s] \in IdeasPage!Requests \cup {None} BY <1>3, <1>5, <1>6
  <2> QED BY <2>1, <2>2
<1>8. \A s \in CardSlots \ {r} : mounts => job'[s] = job[s] BY <1>2
<1>9. \A s \in CardSlots : \A o : Resets(s, o)' => s # r /\ Resets(s, o) /\ (mounts \/ o = "create")
  BY <1>3, <1>5, <1>6 DEF Resets
<1>10. \A s \in CardSlots \ {r} : Resets(s, "create") => Resets(s, "create")'
  <2> SUFFICES ASSUME NEW s \in CardSlots \ {r}, Resets(s, "create") PROVE Resets(s, "create")'
    OBVIOUS
  <2>1. job[s] # None /\ job[s].op = "create" /\ job[s].mine BY DEF Resets
  <2>2. job'[s] = job[s] BY <1>5, <2>1
  <2> QED BY <2>1, <2>2 DEF Resets
<1>11. OneRequest(CardSlots)' BY <1>3, <1>6, OneStays DEF IdeasInv
<1>12. ~disturbed' => \A s \in CardSlots : job'[s] = None
  <2>1. ~disturbed' => \A s \in CardSlots \ {r} : job[s] = None BY DEF IdeasInv, OneRequest
  <2> QED BY <1>3, <1>6, <2>1
<1>13. IdeasRequests'
  <2> SUFFICES ASSUME NEW s \in CardSlots \ {r}, job'[s] # None
               PROVE  /\ job'[s].op # "refresh" => job'[s].id \in Ideas
                      /\ job'[s].op = "create" => job'[s].id = NewIdea /\ job'[s].mine
                      /\ job'[s].served /\ job'[s].op = "refresh" => job'[s].answer \in IdeasPage!Tables
                      /\ job'[s].served /\ job'[s].op \in {"create", "save"} => job'[s].answer \in Texts
    BY <1>3 DEF IdeasRequests
  <2>1. job[s] # None BY <1>6
  <2>2. /\ job'[s].op = job[s].op /\ job'[s].id = job[s].id /\ (job'[s].served <=> job[s].served)
        /\ job'[s].answer = job[s].answer
    BY <1>5, <2>1
  <2>3. job[s].op = "create" => job'[s] = job[s] BY <1>5, <2>1
  <2>4. /\ job[s].op # "refresh" => job[s].id \in Ideas
        /\ job[s].op = "create" => job[s].id = NewIdea /\ job[s].mine
        /\ job[s].served /\ job[s].op = "refresh" => job[s].answer \in IdeasPage!Tables
        /\ job[s].served /\ job[s].op \in {"create", "save"} => job[s].answer \in Texts
    BY <2>1 DEF IdeasInv, IdeasRequests
  <2> QED BY <2>2, <2>3, <2>4
<1> QED BY <1>3, <1>7, <1>8, <1>9, <1>10, <1>11, <1>12, <1>13

\* A request that resets its flag, while what is selected stays or a removal is remembered.
LEMMA IdeasFlagsOff ==
  ASSUME IdeasInv, NEW r \in CardSlots, job[r] # None, job' = IdeasPage!Done(r),
         busy' = IdeasPage!Off(r), switched => switched', disturbed => disturbed',
         ~switched' /\ "delete" \in busy => selected' = selected
  PROVE  IdeasFlags' /\ busy' \subseteq busy
<1>1. /\ \A s \in CardSlots \ {r} : job'[s] = job[s]
      /\ \A s \in CardSlots : \A o : Resets(s, o)' => s # r /\ Resets(s, o)
  <2>1. PICK mounts \in BOOLEAN : mounts OBVIOUS
  <2> QED BY <2>1, IdeasEnds
<1>2. \A s \in CardSlots \ {r} : \A o : Resets(s, o) => Resets(s, o)' BY <1>1 DEF Resets
<1>3. busy' \subseteq busy /\ \A o \in busy : o \notin busy' <=> Resets(r, o)
  BY DEF IdeasPage!Off, Resets
<1>4. ASSUME NEW o \in busy', o = "delete" => ~switched' PROVE \E s \in CardSlots : Resets(s, o)'
  <2>1. PICK s \in CardSlots : Resets(s, o) BY <1>3, <1>4 DEF IdeasInv, IdeasFlags
  <2>2. s # r BY <1>3, <2>1
  <2> QED BY <1>2, <2>1, <2>2
<1>5. ASSUME NEW o \in {"create", "save", "delete"}, NEW s \in CardSlots, Resets(s, o)'
      PROVE  o \in busy' /\ \A q \in CardSlots : Resets(q, o)' => q = s
  BY <1>1, <1>3, <1>5 DEF IdeasInv, IdeasFlags
<1>6. ASSUME NEW s \in CardSlots, Resets(s, "delete")', ~switched' PROVE selected' = job'[s].id
  BY <1>1, <1>6 DEF IdeasInv, IdeasFlags
<1> QED BY <1>3, <1>4, <1>5, <1>6 DEF IdeasFlags

\* A request that resets no flag, after which the card may be unmounted.
LEMMA IdeasFlagsShown ==
  ASSUME IdeasInv, NEW r \in CardSlots, job[r] # None, NEW list \in IdeasPage!Tables,
         NEW sel \in Ideas \cup {None}, job[r].op \in {"refresh", "delete"},
         IdeasPage!Flags(list, sel, busy), IdeasPage!Jobs(list, sel, IdeasPage!Done(r)),
         switched => switched', disturbed => disturbed', selected' = sel,
         ~switched' /\ "delete" \in busy /\ sel \in IdeasPage!Listed(list) => sel = selected,
         ~switched' /\ Resets(r, "delete") => sel \notin IdeasPage!Listed(list)
  PROVE  /\ IdeasFlags' /\ busy' \subseteq busy
         /\ job' \in [CardSlots -> IdeasPage!Requests \cup {None}]
         /\ ~disturbed' => \A s \in CardSlots : job'[s] = None
         /\ OneRequest(CardSlots)' /\ IdeasRequests'
<1>0. PICK mounts \in BOOLEAN : mounts <=> sel \in IdeasPage!Listed(list) OBVIOUS
<1>1. /\ job' \in [CardSlots -> IdeasPage!Requests \cup {None}] /\ job'[r] = None
      /\ \A s \in CardSlots \ {r} : mounts => job'[s] = job[s]
      /\ \A s \in CardSlots : \A o : Resets(s, o)' => s # r /\ Resets(s, o) /\ (mounts \/ o = "create")
      /\ \A s \in CardSlots \ {r} : Resets(s, "create") => Resets(s, "create")'
      /\ ~disturbed' => \A s \in CardSlots : job'[s] = None
      /\ OneRequest(CardSlots)' /\ IdeasRequests'
  <2>1. (mounts => job' = IdeasPage!Done(r)) /\ (~mounts => job' = IdeasLeft(r))
    BY <1>0 DEF IdeasPage!Jobs, IdeasLeft
  <2> QED BY <2>1, IdeasEnds
<1>2. busy' = IF mounts THEN busy ELSE busy \cap {"create"} BY <1>0 DEF IdeasPage!Flags
<1>3. busy \subseteq {"create", "save", "delete"} BY DEF IdeasInv, IdeasPage!TypeOK
<1>4. ASSUME NEW o \in busy', o = "delete" => ~switched' PROVE \E s \in CardSlots : Resets(s, o)'
  <2>1. PICK s \in CardSlots : Resets(s, o) BY <1>2, <1>4 DEF IdeasInv, IdeasFlags
  <2>2. CASE mounts
    <3>1. s # r
      <4>1. ~Resets(r, o) BY <1>0, <1>2, <1>3, <1>4, <2>2 DEF Resets
      <4> QED BY <2>1, <4>1
    <3> QED BY <1>1, <2>1, <2>2, <3>1 DEF Resets
  <2>3. CASE ~mounts
    <3>1. o = "create" BY <1>2, <2>3
    <3>2. s # r BY <2>1, <3>1 DEF Resets
    <3> QED BY <1>1, <2>1, <3>1, <3>2
  <2> QED BY <2>2, <2>3
<1>5. ASSUME NEW o \in {"create", "save", "delete"}, NEW s \in CardSlots, Resets(s, o)'
      PROVE  o \in busy' /\ \A q \in CardSlots : Resets(q, o)' => q = s
  BY <1>1, <1>2, <1>5 DEF IdeasInv, IdeasFlags
<1>6. ASSUME NEW s \in CardSlots, Resets(s, "delete")', ~switched' PROVE selected' = job'[s].id
  <2>1. mounts /\ s # r /\ Resets(s, "delete") BY <1>1, <1>6
  <2>2. job'[s] = job[s] /\ "delete" \in busy /\ selected = job[s].id
    BY <1>1, <1>6, <2>1 DEF IdeasInv, IdeasFlags
  <2> QED BY <1>0, <1>6, <2>1, <2>2
<1> QED BY <1>1, <1>2, <1>4, <1>5, <1>6 DEF IdeasFlags

\* The list is read.
LEMMA IdeasRefresh ==
  ASSUME IdeasInv, NEW r \in CardSlots, IdeasPage!Refresh(r)
  PROVE  IdeasInv'
<1>1. IdeasPage!TypeOK BY DEF IdeasInv
<1>2. /\ job[r] # None /\ job[r].op = "refresh" /\ job[r].served
      /\ UNCHANGED <<rows, acts, faults, disturbed>>
  BY DEF IdeasPage!Refresh, IdeasPage!Answered
<1>3. PICK list \in IdeasPage!Tables : list = job[r].answer
  BY <1>2 DEF IdeasInv, IdeasRequests
<1>4. PICK sel \in IdeasPage!Listed(list) \cup {None} :
        /\ IdeasPage!Show(list, sel, TRUE) /\ IdeasPage!Flags(list, sel, busy)
        /\ IdeasPage!Jobs(list, sel, IdeasPage!Done(r))
  BY <1>3 DEF IdeasPage!Refresh
<1>5. sel \in Ideas \cup {None} BY IdeasTables
<1>6. /\ ideas' = list /\ selected' = sel /\ box' \in Texts \cup {Empty} /\ edited' \in BOOLEAN
      /\ switched' \in BOOLEAN /\ (switched => switched')
      /\ ~switched' /\ "delete" \in busy /\ sel \in IdeasPage!Listed(list) => sel = selected
      /\ IdeasPage!ShowsItsRow'
  BY <1>1, <1>4, <1>5, IdeasShow DEF IdeasInv
<1>7. /\ IdeasFlags' /\ busy' \subseteq busy
      /\ job' \in [CardSlots -> IdeasPage!Requests \cup {None}]
      /\ ~disturbed' => \A s \in CardSlots : job'[s] = None
      /\ OneRequest(CardSlots)' /\ IdeasRequests'
  <2>1. ~Resets(r, "delete") BY <1>2 DEF Resets
  <2> QED BY <1>2, <1>4, <1>5, <1>6, <2>1, IdeasFlagsShown
<1>8. IdeasPage!TypeOK' BY <1>1, <1>2, <1>5, <1>6, <1>7 DEF IdeasPage!TypeOK
<1>9. IdeasListed' BY <1>6 DEF IdeasListed
<1>10. IdeasComing' BY <1>2, <1>3, <1>6, <1>7, IdeasAlone DEF IdeasComing
<1> QED BY <1>6, <1>7, <1>8, <1>9, <1>10 DEF IdeasInv

\* A new idea is listed and selected.
LEMMA IdeasCreated ==
  ASSUME IdeasInv, NEW r \in CardSlots, IdeasPage!IdeaCreated(r)
  PROVE  IdeasInv'
<1>1. IdeasPage!TypeOK /\ ideas \in IdeasPage!Tables BY DEF IdeasInv, IdeasPage!TypeOK
<1>2. /\ job[r] # None /\ job[r].op = "create" /\ job[r].served
      /\ UNCHANGED <<rows, acts, faults, disturbed>>
      /\ busy' = IdeasPage!Off(r) /\ job' = IdeasPage!Done(r)
  BY DEF IdeasPage!IdeaCreated, IdeasPage!Answered
<1>3. PICK t \in Texts : t = job[r].answer /\ job[r].id = NewIdea
  BY <1>2 DEF IdeasInv, IdeasRequests
<1>4. PICK list \in IdeasPage!Tables : list = [ideas EXCEPT ![NewIdea] = t] /\ list[NewIdea] = t
  <2>1. [ideas EXCEPT ![NewIdea] = t] \in IdeasPage!Tables BY <1>1, IdeasChange, NewIdeaIsAnIdea
  <2>2. [ideas EXCEPT ![NewIdea] = t][NewIdea] = t
    BY <1>1, NewIdeaIsAnIdea DEF IdeasPage!Tables
  <2> QED BY <2>1, <2>2
<1>5. IdeasPage!Show(list, NewIdea, TRUE) BY <1>3, <1>4 DEF IdeasPage!IdeaCreated
<1>6. NewIdea \in IdeasPage!Listed(list) BY <1>4, IdeasTables, NewIdeaIsAnIdea, NoneIsNoValue
<1>7. /\ ideas' = list /\ selected' = NewIdea /\ box' \in Texts \cup {Empty} /\ edited' \in BOOLEAN
      /\ switched' \in BOOLEAN /\ (switched => switched')
      /\ ~switched' /\ "delete" \in busy => NewIdea = selected
      /\ IdeasPage!ShowsItsRow'
  <2>1. IdeasPage!ShowsItsRow BY DEF IdeasInv
  <2>2. NewIdea \in Ideas \cup {None} /\ TRUE \in BOOLEAN BY NewIdeaIsAnIdea
  <2> QED BY <1>1, <1>5, <1>6, <2>1, <2>2, IdeasShow
<1>8. IdeasFlags' /\ busy' \subseteq busy BY <1>2, <1>7, IdeasFlagsOff
<1>9. /\ job' \in [CardSlots -> IdeasPage!Requests \cup {None}]
      /\ ~disturbed' => \A s \in CardSlots : job'[s] = None
      /\ OneRequest(CardSlots)' /\ IdeasRequests'
  <2>1. PICK mounts \in BOOLEAN : mounts OBVIOUS
  <2> QED BY <1>2, <2>1, IdeasEnds
<1>10. IdeasPage!TypeOK' BY <1>1, <1>2, <1>7, <1>8, <1>9, NewIdeaIsAnIdea DEF IdeasPage!TypeOK
<1>11. IdeasListed' BY <1>6, <1>7 DEF IdeasListed
<1>12. IdeasComing'
  <2>1. ~disturbed => rows = list BY <1>2, <1>3, <1>4, IdeasAlone
  <2> QED BY <1>2, <1>7, <1>9, <2>1 DEF IdeasComing
<1> QED BY <1>7, <1>8, <1>9, <1>10, <1>11, <1>12 DEF IdeasInv

\* A saved idea is replaced, if it is listed.
LEMMA IdeasUpdated ==
  ASSUME IdeasInv, NEW r \in CardSlots, IdeasPage!OnUpdated(r)
  PROVE  IdeasInv'
<1>1. IdeasPage!TypeOK /\ ideas \in IdeasPage!Tables /\ selected \in Ideas \cup {None}
  BY DEF IdeasInv, IdeasPage!TypeOK
<1>2. /\ job[r] # None /\ job[r].op = "save" /\ job[r].served
      /\ UNCHANGED <<rows, acts, faults, disturbed>>
      /\ busy' = IdeasPage!Off(r) /\ job' = IdeasPage!Done(r)
  BY DEF IdeasPage!OnUpdated, IdeasPage!Answered
<1>3. PICK i \in Ideas : i = job[r].id BY <1>2 DEF IdeasInv, IdeasRequests
<1>4. PICK t \in Texts : t = job[r].answer BY <1>2 DEF IdeasInv, IdeasRequests
<1>5. PICK list : list = IF ideas[i] = None THEN ideas ELSE [ideas EXCEPT ![i] = t] OBVIOUS
<1>6. /\ list \in IdeasPage!Tables
      /\ \A k \in Ideas : list[k] = IF k = i /\ ideas[i] # None THEN t ELSE ideas[k]
  BY <1>1, <1>5, IdeasChange
<1>7. IdeasPage!Show(list, selected, i = selected)
  BY <1>3, <1>4, <1>5 DEF IdeasPage!OnUpdated
<1>8. selected = None \/ selected \in IdeasPage!Listed(list)
  BY <1>1, <1>6, IdeasTables, NoneIsNoValue DEF IdeasInv, IdeasListed
<1>9. /\ ideas' = list /\ selected' = selected /\ box' \in Texts \cup {Empty} /\ edited' \in BOOLEAN
      /\ switched' \in BOOLEAN /\ (switched => switched')
      /\ IdeasPage!ShowsItsRow'
  <2>1. (i = selected) \in BOOLEAN OBVIOUS
  <2>2. selected \in IdeasPage!Listed(list) /\ ~(i = selected) => list[selected] = ideas[selected]
    BY <1>6, IdeasTables
  <2> QED BY <1>1, <1>6, <1>7, <2>1, <2>2, IdeasShow DEF IdeasInv
<1>10. IdeasFlags' /\ busy' \subseteq busy BY <1>2, <1>9, IdeasFlagsOff
<1>11. /\ job' \in [CardSlots -> IdeasPage!Requests \cup {None}]
       /\ ~disturbed' => \A s \in CardSlots : job'[s] = None
       /\ OneRequest(CardSlots)' /\ IdeasRequests'
  <2>1. PICK mounts \in BOOLEAN : mounts OBVIOUS
  <2> QED BY <1>2, <2>1, IdeasEnds
<1>12. IdeasPage!TypeOK' BY <1>1, <1>2, <1>6, <1>9, <1>10, <1>11 DEF IdeasPage!TypeOK
<1>13. IdeasListed' BY <1>8, <1>9 DEF IdeasListed
<1>14. IdeasComing'
  <2>1. ~disturbed => rows = list BY <1>2, <1>3, <1>4, <1>5, IdeasAlone
  <2> QED BY <1>2, <1>9, <1>11, <2>1 DEF IdeasComing
<1> QED BY <1>9, <1>10, <1>11, <1>12, <1>13, <1>14 DEF IdeasInv

\* A removed idea is no longer listed.
LEMMA IdeasDeleted ==
  ASSUME IdeasInv, NEW r \in CardSlots, IdeasPage!OnDeleted(r)
  PROVE  IdeasInv'
<1>1. IdeasPage!TypeOK /\ ideas \in IdeasPage!Tables /\ selected \in Ideas \cup {None}
  BY DEF IdeasInv, IdeasPage!TypeOK
<1>2. /\ job[r] # None /\ job[r].op = "delete" /\ job[r].served
      /\ UNCHANGED <<rows, acts, faults, disturbed>>
  BY DEF IdeasPage!OnDeleted, IdeasPage!Answered
<1>3. PICK i \in Ideas : i = job[r].id BY <1>2 DEF IdeasInv, IdeasRequests
<1>4. /\ [ideas EXCEPT ![i] = None] \in IdeasPage!Tables
      /\ \A k \in Ideas : [ideas EXCEPT ![i] = None][k] = IF k = i THEN None ELSE ideas[k]
  <2>1. None \in Texts \cup {None} OBVIOUS
  <2> QED BY <1>1, <2>1, IdeasChange
<1>5. PICK list \in IdeasPage!Tables :
        /\ list = [ideas EXCEPT ![i] = None]
        /\ \A k \in Ideas : list[k] = IF k = i THEN None ELSE ideas[k]
  BY <1>4
<1>6. PICK sel \in Ideas \cup {None} : sel = IF selected = i THEN None ELSE selected BY <1>1
<1>7. /\ IdeasPage!Show(list, sel, FALSE) /\ IdeasPage!Flags(list, sel, busy)
      /\ IdeasPage!Jobs(list, sel, IdeasPage!Done(r))
  BY <1>3, <1>4, <1>5, <1>6 DEF IdeasPage!OnDeleted
<1>8. sel = None \/ (sel \in IdeasPage!Listed(list) /\ sel # i)
  BY <1>1, <1>4, <1>5, <1>6, IdeasTables DEF IdeasInv, IdeasListed
<1>9. None \notin IdeasPage!Listed(list) BY IdeasTables, NoneIsNoValue
<1>10. /\ ideas' = list /\ selected' = sel /\ box' \in Texts \cup {Empty} /\ edited' \in BOOLEAN
       /\ switched' \in BOOLEAN /\ (switched => switched')
       /\ ~switched' /\ "delete" \in busy /\ sel \in IdeasPage!Listed(list) => sel = selected
       /\ IdeasPage!ShowsItsRow'
  <2>1. sel \in IdeasPage!Listed(list) => list[sel] = ideas[sel] BY <1>4, <1>5, <1>8, <1>9, IdeasTables
  <2> QED BY <1>1, <1>7, <2>1, IdeasShow DEF IdeasInv
<1>11. ~switched' /\ Resets(r, "delete") => sel \notin IdeasPage!Listed(list)
  BY <1>3, <1>6, <1>9, <1>10 DEF IdeasInv, IdeasFlags
<1>12. /\ IdeasFlags' /\ busy' \subseteq busy
       /\ job' \in [CardSlots -> IdeasPage!Requests \cup {None}]
       /\ ~disturbed' => \A s \in CardSlots : job'[s] = None
       /\ OneRequest(CardSlots)' /\ IdeasRequests'
  BY <1>2, <1>7, <1>10, <1>11, IdeasFlagsShown
<1>13. IdeasPage!TypeOK' BY <1>1, <1>2, <1>10, <1>12 DEF IdeasPage!TypeOK
<1>14. IdeasListed' BY <1>8, <1>10 DEF IdeasListed
<1>15. IdeasComing'
  <2>1. ~disturbed => rows = list BY <1>2, <1>3, <1>4, <1>5, IdeasAlone
  <2> QED BY <1>2, <1>10, <1>12, <2>1 DEF IdeasComing
<1> QED BY <1>10, <1>12, <1>13, <1>14, <1>15 DEF IdeasInv

\* A request fails: that its effect is not shown is remembered.
LEMMA IdeasFails ==
  ASSUME IdeasInv, NEW r \in CardSlots, IdeasPage!Fails(r)
  PROVE  IdeasInv'
<1> USE DEF IdeasPage!Fails
<1>1. IdeasPage!TypeOK BY DEF IdeasInv
<1>2. PICK j \in IdeasPage!Requests : j = job[r] BY <1>1 DEF IdeasPage!TypeOK
<1>3. /\ disturbed' \in BOOLEAN /\ (disturbed => disturbed')
      /\ ~disturbed' => ~j.served /\ j.op # "refresh"
      /\ faults' \in 0..MaxFaults
  <2>1. disturbed \in BOOLEAN /\ faults \in 0..MaxFaults BY <1>1 DEF IdeasPage!TypeOK
  <2>2. CASE ~j.served /\ IdeasPage!Refused(r)
    <3>1. j.op # "refresh" BY <1>2, <2>2 DEF IdeasPage!Refused
    <3> QED BY <1>2, <2>1, <2>2, <3>1
  <2>3. CASE ~(~j.served /\ IdeasPage!Refused(r))
    <3>1. faults < MaxFaults /\ faults' = faults + 1 BY <1>2, <2>3
    <3>2. disturbed' = (disturbed \/ j.served \/ j.op = "refresh") BY <1>2, <2>3
    <3>3. faults' \in 0..MaxFaults BY <2>1, <3>1, BoundsAreNatural
    <3> QED BY <2>1, <3>2, <3>3
  <2> QED BY <2>2, <2>3
<1>4. IdeasFlags' /\ busy' \subseteq busy BY <1>3, IdeasFlagsOff
<1>5. /\ job' \in [CardSlots -> IdeasPage!Requests \cup {None}]
      /\ ~disturbed' => \A s \in CardSlots : job'[s] = None
      /\ OneRequest(CardSlots)' /\ IdeasRequests'
  <2>1. PICK mounts \in BOOLEAN : mounts OBVIOUS
  <2> QED BY <1>3, <2>1, IdeasEnds
<1>6. IdeasPage!TypeOK' BY <1>1, <1>3, <1>4, <1>5 DEF IdeasPage!TypeOK
<1>7. IdeasListed' /\ IdeasPage!ShowsItsRow'
  BY DEF IdeasInv, IdeasListed, IdeasPage!ShowsItsRow, IdeasPage!Mounted
<1>8. IdeasComing'
  <2>1. ~disturbed' => ideas = rows BY <1>2, <1>3, IdeasAlone
  <2> QED BY <1>5, <2>1 DEF IdeasComing
<1> QED BY <1>4, <1>5, <1>6, <1>7, <1>8 DEF IdeasInv

\* Every step of the page of the ideas preserves its invariant.
LEMMA IdeasStep == IdeasInv /\ IdeasPage!Next => IdeasInv'
<1> SUFFICES ASSUME IdeasInv, IdeasPage!Next PROVE IdeasInv' OBVIOUS
<1>1. CASE \E t \in Texts \cup {Empty} : IdeasPage!TypeText(t) BY <1>1, IdeasTypeText
<1>2. CASE \E i \in Ideas : IdeasPage!ClickIdea(i) BY <1>2, IdeasClick
<1>3. CASE IdeasPage!HandleCreate \/ IdeasPage!HandleSave \/ IdeasPage!HandleDelete
  BY <1>3, IdeasButtons
<1>4. CASE \E r \in CardSlots :
             \/ IdeasPage!Serve(r) \/ IdeasPage!Refresh(r) \/ IdeasPage!IdeaCreated(r)
             \/ IdeasPage!OnUpdated(r) \/ IdeasPage!OnDeleted(r) \/ IdeasPage!Fails(r)
  BY <1>4, IdeasServe, IdeasRefresh, IdeasCreated, IdeasUpdated, IdeasDeleted, IdeasFails
<1> QED BY <1>1, <1>2, <1>3, <1>4 DEF IdeasPage!Next

\* The properties of the page of the ideas follow.
LEMMA IdeasFollow == IdeasInv => IdeasPage!ListsMatch /\ IdeasPage!ButtonsComeBack
<1> SUFFICES ASSUME IdeasInv PROVE IdeasPage!ListsMatch /\ IdeasPage!ButtonsComeBack OBVIOUS
<1>1. IdeasPage!ListsMatch
  BY DEF IdeasInv, IdeasListed, IdeasComing, IdeasPage!ListsMatch, IdeasPage!Quiet
<1>2. IdeasPage!ButtonsComeBack
  BY DEF IdeasInv, IdeasFlags, Resets, IdeasPage!ButtonsComeBack
<1> QED BY <1>1, <1>2

-----------------------------------------------------------------------------
(* Proofs: the front end *)

\* The inductive invariant of the cards, the panels and the pages without lists of clips or
\* posts: that of what is mounted.
CardsInv ==
    /\ mounted = "SourcesPage" => SourcesInv
    /\ mounted = "SettingsPanel" => SettingsInv
    /\ mounted = "ArticleCard" => ArticleCardInv
    /\ mounted = "CandidateCard" => ClipCardInv
    /\ mounted = "IdeasPage" => IdeasInv

\* While nothing changes, what is mounted keeps its invariant.
LEMMA CardsStutter == CardsInv /\ UNCHANGED vars => CardsInv'
<1> SUFFICES ASSUME CardsInv, UNCHANGED vars PROVE CardsInv' OBVIOUS
<1>1. UNCHANGED <<mounted, job, acts, faults, selected, busy, loading, saving>>
  BY DEF vars
<1>2. UNCHANGED <<row, shown, box, edited, disturbed, transcript, fetch, late>>
  BY DEF vars, card, boxes, caption
<1>3. UNCHANGED <<rows, ideas, switched>> BY DEF vars, backlog
<1>4. UNCHANGED <<doc, edit, dirty, raw, rawOpen, elsewhere, typed, left>> BY DEF vars, editor
<1>5. UNCHANGED <<kinds, stored, text, kept, mixed>> BY DEF vars, settings
<1>6. SourcesInv => SourcesInv'
  BY <1>1, <1>4
    DEF SourcesInv, SourcesPage!TypeOK, SourcesFlags, SourcesComing, SourcesAtRest
<1>7. SettingsInv => SettingsInv'
  BY <1>1, <1>5
    DEF SettingsInv, SettingsPanel!TypeOK, SettingsAlone, SettingsOnce, Saves, SettingsComing,
        SettingsPanel!SavedMeansStored, SettingsPanel!ButtonsComeBack, SettingsPanel!InProgress
<1>8. ArticleCardInv => ArticleCardInv'
  BY <1>1, <1>2
    DEF ArticleCardInv, ArticleCard!TypeOK, OneRequest, ArticleCardComesBack, ArticleCardComing,
        ArticleCardAtRest, ArticleCard!ButtonsComeBack
<1>9. ClipCardInv => ClipCardInv'
  BY <1>1, <1>2
    DEF ClipCardInv, CandidateCard!TypeOK, OneRequest, ClipCardRequests, ClipCardComing,
        ClipCardAtRest, CandidateCard!TranscriptMatches, CandidateCard!ButtonsComeBack
<1>10. IdeasInv => IdeasInv'
  BY <1>1, <1>2, <1>3
    DEF IdeasInv, IdeasPage!TypeOK, OneRequest, IdeasRequests, IdeasListed, IdeasComing,
        IdeasPage!ShowsItsRow, IdeasPage!Mounted, IdeasFlags, Resets
<1> QED BY <1>1, <1>6, <1>7, <1>8, <1>9, <1>10 DEF CardsInv

\* What is mounted keeps its invariant, whatever it does.
LEMMA CardsStep == CardsInv /\ [Next]_vars => CardsInv'
<1> SUFFICES ASSUME CardsInv, Next PROVE CardsInv' BY CardsStutter
<1>1. mounted' = mounted BY DEF Next
<1>2. CASE mounted = "SourcesPage"
  BY <1>1, <1>2, SourcesStep DEF Next, CardsInv
<1>3. CASE mounted = "SettingsPanel"
  BY <1>1, <1>3, SettingsStep DEF Next, CardsInv
<1>4. CASE mounted = "ArticleCard"
  BY <1>1, <1>4, ArticleCardStep DEF Next, CardsInv
<1>5. CASE mounted = "CandidateCard"
  BY <1>1, <1>5, ClipCardStep DEF Next, CardsInv
<1>6. CASE mounted = "IdeasPage"
  BY <1>1, <1>6, IdeasStep DEF Next, CardsInv
<1> QED BY <1>1, <1>2, <1>3, <1>4, <1>5, <1>6 DEF CardsInv

\* What is mounted has its invariant in every state.
LEMMA CardsAlways == Spec => []CardsInv
<1>1. Init => CardsInv
  BY SourcesBegins, SettingsBegins, ArticleCardBegins, ClipCardBegins, IdeasBegins
    DEF Init, CardsInv
<1> QED BY <1>1, CardsStep, PTL DEF Spec

\* Whatever the pages of the profiles show as saved, in whichever order requests to save and
\* keystrokes came, is what the server holds, unless it was saved elsewhere, or changed or
\* saved again while a save was in progress.
THEOREM SavedMeansStoredAlways == Spec => []SavedMeansStored
<1>1. CardsInv => SavedMeansStored
  BY SourcesFollow DEF CardsInv, SettingsInv, SavedMeansStored
<1> QED BY <1>1, CardsAlways, PTL

\* The boxes of a card at rest hold its row or what the user has typed since, and the
\* transcript is of the range in the boxes, for any texts, ranges and requests at once.
THEOREM CardsMatchAlways == Spec => []CardsMatch
<1>1. CardsInv => CardsMatch
  BY ClipCardFollow, ArticleCardFollow DEF CardsInv, ClipCardInv, IdeasInv, CardsMatch
<1> QED BY <1>1, CardsAlways, PTL
=============================================================================
