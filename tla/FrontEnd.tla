------------------------------- MODULE FrontEnd -------------------------------
(***************************************************************************)
(* The front end of the factories.  The router mounts one page at a time,  *)
(* and a page that is left forgets its state: what it shows again comes    *)
(* from the server.  The pages share nothing else, and their cards and     *)
(* panels only what the server keeps of them, so that each is explored on  *)
(* its own, from the moment it is mounted.                                 *)
(***************************************************************************)
EXTENDS FiniteSets, Naturals

CONSTANTS
    Sources, MaxRank, Slots, MaxActs, MaxFaults, None,      \* the pages
    Texts, Empty, Ranges, CardSlots, CardActs,              \* the cards and panels
    Ideas, NewIdea, Entries, Broken

ASSUME SourcesAreNumbered == IsFiniteSet(Sources) /\ Sources = 1..Cardinality(Sources)
ASSUME NewIdeaIsAnIdea == NewIdea \in Ideas
ASSUME SomethingToSay == Texts # {} /\ Ranges # {}
ASSUME BoundsAreNatural == {MaxRank, MaxActs, MaxFaults, CardActs} \subseteq Nat

VARIABLES
    mounted,        \* what is mounted
    \* the state of the page, the card or the panel, by the names of its module
    job, acts, faults,
    srcs, cands, queue, sources, twice, early, candidates, scheduled, outdated,
    opened, table, made, deleting, selected, busy,
    row, shown, box, edited, disturbed, transcript, fetch, late,
    rows, ideas, switched,
    loading, saving, doc, edit, dirty, raw, rawOpen, elsewhere, typed, left,
    kinds, stored, text, kept, mixed

lists == <<srcs, cands, queue, sources, twice, early, candidates, scheduled, outdated>>
clips == <<opened, table>>
articles == <<made, deleting>>
card == <<row, shown>>
boxes == <<box, edited, disturbed>>
caption == <<transcript, fetch, late>>
backlog == <<rows, ideas, switched>>
editor == <<doc, edit, dirty, raw, rawOpen, elsewhere, typed, left>>
settings == <<kinds, stored, text, kept, mixed>>
vars == <<mounted, job, acts, faults, selected, busy, loading, saving, lists, clips, articles,
          card, boxes, caption, backlog, editor, settings>>

FactoryPage == INSTANCE FactoryPage
ArticlePage == INSTANCE ArticlePage
CandidateCard == INSTANCE CandidateCard WITH Slots <- CardSlots, MaxActs <- CardActs
ArticleCard == INSTANCE ArticleCard WITH Slots <- CardSlots, MaxActs <- CardActs
IdeasPage == INSTANCE IdeasPage WITH Slots <- CardSlots, MaxActs <- CardActs
SourcesPage == INSTANCE SourcesPage WITH MaxActs <- CardActs
SettingsPanel == INSTANCE SettingsPanel
    WITH Slots <- CardSlots, MaxActs <- CardActs, Texts <- Texts \cup Broken

ASSUME EmptyIsNoText == Empty \notin Texts \cup Broken \cup {None}
ASSUME NoneIsNoValue ==
    /\ None \notin Texts \cup Broken \cup Ranges \cup Ideas \cup Entries \cup Slots \cup Nat
    /\ None \notin {"tick"} \cup UNION SettingsPanel!Panels
    /\ None \notin FactoryPage!Ids \cup FactoryPage!Requests \cup ArticlePage!Requests
    /\ None \notin CandidateCard!Rows \cup CandidateCard!Boxes \cup CandidateCard!Requests
    /\ None \notin ArticleCard!Rows \cup ArticleCard!Requests
    /\ None \notin IdeasPage!Requests \cup SettingsPanel!Requests
    /\ None \notin SourcesPage!Docs \cup SourcesPage!Edits \cup SourcesPage!Requests

\* What is not mounted has no state.
NoLists ==
    /\ srcs = None /\ cands = None /\ queue = None /\ outdated = None
    /\ sources = None /\ twice = None /\ early = None
    /\ candidates = None /\ scheduled = None
NoClips == opened = None /\ table = None
NoArticles == made = None /\ deleting = None
NoCard == row = None /\ shown = None
NoBoxes == box = None /\ edited = None /\ disturbed = None
NoCaption == transcript = None /\ fetch = None /\ late = None
NoBacklog == rows = None /\ ideas = None /\ switched = None
NoEditor ==
    /\ doc = None /\ edit = None /\ dirty = None /\ raw = None /\ rawOpen = None
    /\ elsewhere = None /\ typed = None /\ left = None
NoSettings == kinds = None /\ stored = None /\ text = None /\ kept = None /\ mixed = None

Init ==
    \/ /\ mounted = "FactoryPage" /\ FactoryPage!Init
       /\ NoArticles /\ NoCard /\ NoBoxes /\ NoCaption /\ NoBacklog /\ NoEditor /\ NoSettings
       /\ loading = None /\ saving = None
    \/ /\ mounted = "ArticlePage" /\ ArticlePage!Init
       /\ NoClips /\ NoCard /\ NoBoxes /\ NoCaption /\ NoBacklog /\ NoEditor /\ NoSettings
       /\ loading = None /\ saving = None
    \/ /\ mounted = "CandidateCard" /\ CandidateCard!Init
       /\ NoLists /\ NoClips /\ NoArticles /\ NoBacklog /\ NoEditor /\ NoSettings
       /\ selected = None /\ saving = None
    \/ /\ mounted = "ArticleCard" /\ ArticleCard!Init
       /\ NoLists /\ NoClips /\ NoArticles /\ NoCaption /\ NoBacklog /\ NoEditor /\ NoSettings
       /\ selected = None /\ loading = None /\ saving = None
    \/ /\ mounted = "IdeasPage" /\ IdeasPage!Init
       /\ NoLists /\ NoClips /\ NoArticles /\ NoCard /\ NoCaption /\ NoEditor /\ NoSettings
       /\ loading = None /\ saving = None
    \/ /\ mounted = "SourcesPage" /\ SourcesPage!Init
       /\ NoLists /\ NoClips /\ NoArticles /\ NoCard /\ NoBoxes /\ NoCaption /\ NoBacklog
       /\ NoSettings /\ selected = None /\ busy = None
    \/ /\ mounted = "SettingsPanel" /\ SettingsPanel!Init
       /\ NoLists /\ NoClips /\ NoArticles /\ NoCard /\ NoBoxes /\ NoCaption /\ NoBacklog
       /\ NoEditor /\ selected = None /\ busy = None /\ loading = None

Next ==
    /\ UNCHANGED mounted
    /\ \/ /\ mounted = "FactoryPage" /\ FactoryPage!Next
          /\ UNCHANGED <<articles, card, boxes, caption, backlog, editor, settings, loading, saving>>
       \/ /\ mounted = "ArticlePage" /\ ArticlePage!Next
          /\ UNCHANGED <<clips, card, boxes, caption, backlog, editor, settings, loading, saving>>
       \/ /\ mounted = "CandidateCard" /\ CandidateCard!Next
          /\ UNCHANGED <<lists, clips, articles, backlog, editor, settings, selected, saving>>
       \/ /\ mounted = "ArticleCard" /\ ArticleCard!Next
          /\ UNCHANGED <<lists, clips, articles, caption, backlog, editor, settings,
                         selected, loading, saving>>
       \/ /\ mounted = "IdeasPage" /\ IdeasPage!Next
          /\ UNCHANGED <<lists, clips, articles, card, caption, editor, settings, loading, saving>>
       \/ /\ mounted = "SourcesPage" /\ SourcesPage!Next
          /\ UNCHANGED <<lists, clips, articles, card, boxes, caption, backlog, settings,
                         selected, busy>>
       \/ /\ mounted = "SettingsPanel" /\ SettingsPanel!Next
          /\ UNCHANGED <<lists, clips, articles, card, boxes, caption, backlog, editor,
                         selected, busy, loading>>

Spec == Init /\ [][Next]_vars

-----------------------------------------------------------------------------
(* Properties: each is stated, and its exceptions explained, in the modules *)

\* The tables, the page that is mounted and its requests are well formed.
TypeOK ==
    CASE mounted = "FactoryPage" -> FactoryPage!TypeOK
      [] mounted = "ArticlePage" -> ArticlePage!TypeOK
      [] mounted = "CandidateCard" -> CandidateCard!TypeOK
      [] mounted = "ArticleCard" -> ArticleCard!TypeOK
      [] mounted = "IdeasPage" -> IdeasPage!TypeOK
      [] mounted = "SourcesPage" -> SourcesPage!TypeOK
      [] mounted = "SettingsPanel" -> SettingsPanel!TypeOK

\* The lists of a page at rest are those of the server, and what is selected is in them:
\* whatever the user did, in whichever order requests were served and answered, unless an
\* answer was lost, or was older than the present when it was shown, or an analysis was asked
\* for while nothing was selected; and each source is listed once, unless it was listed
\* before the answer to its creation came.
ListsMatch ==
    CASE mounted = "FactoryPage" -> FactoryPage!ListsMatch
      [] mounted = "ArticlePage" -> ArticlePage!ListsMatch
      [] mounted = "IdeasPage" -> IdeasPage!ListsMatch
      [] OTHER -> TRUE

\* The boxes of a card at rest hold its row or what the user has typed since they were
\* filled, and the transcript beside them is of the range in the boxes.
CardsMatch ==
    CASE mounted = "CandidateCard" -> CandidateCard!ShowsItsRow /\ CandidateCard!TranscriptMatches
      [] mounted = "ArticleCard" -> ArticleCard!ShowsItsRow
      [] mounted = "IdeasPage" -> IdeasPage!ShowsItsRow
      [] OTHER -> TRUE

\* What the pages of the profiles show as saved is what the server holds, unless it was
\* saved elsewhere, or changed or saved again while a save was in progress.
SavedMeansStored ==
    CASE mounted = "SourcesPage" -> SourcesPage!SavedMeansStored
      [] mounted = "SettingsPanel" -> SettingsPanel!SavedMeansStored
      [] OTHER -> TRUE

\* A control that is disabled is enabled again when its request ends, however it ends,
\* and whichever others were made meanwhile; but for the card of an idea, which goes on
\* showing a removal if another idea was selected meanwhile (switched, in IdeasPage).
ControlsComeBack ==
    CASE mounted = "FactoryPage" -> FactoryPage!ControlsComeBack
      [] mounted = "ArticlePage" -> ArticlePage!ControlsComeBack
      [] mounted = "CandidateCard" -> CandidateCard!ButtonsComeBack
      [] mounted = "ArticleCard" -> ArticleCard!ButtonsComeBack
      [] mounted = "IdeasPage" -> IdeasPage!ButtonsComeBack
      [] mounted = "SourcesPage" -> SourcesPage!ButtonsComeBack
      [] mounted = "SettingsPanel" -> SettingsPanel!ButtonsComeBack
=============================================================================
