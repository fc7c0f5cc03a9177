-------------------------- MODULE FactoryListsProofs --------------------------
(***************************************************************************)
(* The safety properties of the two pages of lists in FrontEnd, and with   *)
(* them those of the whole front end, proved for any number of sources,    *)
(* candidates, requests, acts and faults.                                  *)
(*                                                                         *)
(* The properties speak of a page without requests.  The invariant says of *)
(* every state which request will settle each difference between the page  *)
(* and the server: that request ends with the difference gone, or with an  *)
(* answer that no longer holds, which "outdated" remembers.                *)
(***************************************************************************)
EXTENDS FrontEndProofs, FiniteSetTheorems, WellFoundedInduction

-----------------------------------------------------------------------------
(* Requests of both pages *)

\* A request that was served, and whose answer has not arrived.
Served(r, op) == job[r] # None /\ job[r].sent /\ job[r].served /\ job[r].op = op
ServedFor(op, id) == \E r \in Slots : Served(r, op) /\ job[r].id = id
SomeServed(Ops) == \E r \in Slots : \E op \in Ops : Served(r, op)

\* A request that is reading a list, or will.
Gets(r, w) == job[r] # None /\ w \in DOMAIN job[r].get
SomeGets(w) == \E r \in Slots : Gets(r, w)
Opens(r) == job[r] # None /\ job[r].op = "init"
SomeOpens == \E r \in Slots : Opens(r)

\* A refresh of a selection, or a request that one follows: in the end it shows the
\* candidates of that selection, or another is selected by then, and they are outdated.
Refreshes(r, Ops) ==
    job[r] # None /\ job[r].sel # None /\ (job[r].op = "all" \/ \E op \in Ops : Served(r, op))
SomeRefreshes(Ops) == \E r \in Slots : Refreshes(r, Ops)

\* A request that reads the candidates, and is not the one the page opens with.
Reloads == \E r \in Slots : Gets(r, "candidates") /\ ~Opens(r)

\* A candidate that a moment has proposed, and whose answer has not arrived.
Proposed(i) == \E r \in Slots : Served(r, "moment") /\ i \in job[r].list

-----------------------------------------------------------------------------
(* The page of the clips: its requests and controls *)

\* What a list that arrives is made of.
ListOf(w) == IF w = "sources" THEN SUBSET Sources ELSE SUBSET FactoryPage!Ids

Values == (SUBSET Sources) \cup (SUBSET FactoryPage!Ids) \cup {None}

\* A request that waits for the server reads no list; one that reads lists asks nothing else.
ClipsShape(j) ==
    LET W == DOMAIN j.get IN
    /\ j.sent => W = {} /\ j.op \in FactoryPage!Kinds \cup {"schedule"}
    /\ ~j.sent =>
         /\ ~j.served /\ W # {}
         /\ \/ j.op = "init" /\ (W = {"sources"} \/ W = {"candidates", "scheduled"})
            \/ j.op = "all" /\ W \subseteq {"sources", "scheduled"}
            \/ j.op \in {"all", "load"} /\ W = {"candidates"} /\ j.sel # None
            \/ j.op \in {"remove", "drop"} /\ W = {"scheduled"}
    /\ j.op = "remove" /\ j.sent => j.id \in j.list /\ j.again \subseteq j.list
    /\ j.op = "moment" /\ j.served => \A i \in j.list : i[1] = j.id
    /\ j.id \in FactoryPage!About(j.op)
    /\ j.list \in IF j.op = "moment" /\ j.served THEN SUBSET FactoryPage!Ids ELSE SUBSET Sources
    /\ \A w \in W : j.get[w] \in ListOf(w) \cup {None}
ClipsRequests == {j \in FactoryPage!Requests : ClipsShape(j)}

\* The types of the page, as the proofs need them; candidates are of sources.
ClipsTypes ==
    /\ srcs \in SUBSET Sources /\ cands \in SUBSET FactoryPage!Ids /\ queue \in SUBSET cands
    /\ \A i \in cands : i[1] \in srcs
    /\ sources \in SUBSET Sources /\ twice \in SUBSET sources /\ early \in SUBSET Sources
    /\ candidates \in SUBSET FactoryPage!Ids
    /\ scheduled \in SUBSET FactoryPage!Ids
    /\ selected \in Sources \cup {None} /\ opened \in FactoryPage!Ids \cup {None}
    /\ table \in BOOLEAN
    /\ busy \in [FactoryPage!Kinds -> Sources \cup FactoryPage!Ids \cup {"tick", None}]
    /\ \A k \in FactoryPage!Kinds : busy[k] \in FactoryPage!About(k) \cup {None}
    /\ job \in [Slots -> ClipsRequests \cup {None}]
    /\ acts \in 0..MaxActs /\ faults \in 0..MaxFaults /\ outdated \in BOOLEAN

-----------------------------------------------------------------------------
(* Proofs: greatest sources and first candidates *)

\* Numbers in a range have a least one by any measure into the numbers.
LEMMA LeastOf ==
  ASSUME NEW S, S # {}, NEW f \in [S -> Nat]
  PROVE  \E s \in S : \A t \in S : f[s] <= f[t]
<1> DEFINE R == OpToRel(<, Nat)
          F == {f[s] : s \in S}
<1>1. IsWellFoundedOn(R, Nat) BY NatLessThanWellFounded
<1>2. \A y, x \in Nat : y < x => <<y, x>> \in R BY DEF OpToRel
<1>3. F \subseteq Nat /\ F # {} OBVIOUS
<1> HIDE DEF R, F
<1>4. PICK x \in F : \A y \in F : ~(<<y, x>> \in R) BY <1>1, <1>3, WFMin
<1>5. PICK s \in S : f[s] = x BY <1>4 DEF F
<1>6. ASSUME NEW t \in S PROVE f[s] <= f[t]
  <2>1. f[t] \in F /\ f[s] \in Nat /\ f[t] \in Nat BY DEF F
  <2>2. ~(f[t] < f[s]) BY <1>2, <1>4, <1>5, <2>1, Zenon
  <2> QED BY <2>1, <2>2
<1> QED BY <1>6

\* The source selected first is one of those given, if there is one.
LEMMA FirstSelects ==
  ASSUME NEW S \in SUBSET Sources
  PROVE  /\ FactoryPage!First(S) = ArticlePage!First(S)
         /\ S = {} => FactoryPage!First(S) = None
         /\ S # {} => FactoryPage!First(S) \in S
         /\ FactoryPage!First(S) \in Sources \cup {None}
<1>1. CASE S = {} BY <1>1 DEF FactoryPage!First, ArticlePage!First
<1>2. CASE S # {}
  <2> DEFINE n == Cardinality(Sources)
            f == [s \in S |-> n - s]
  <2>1. n \in Nat /\ S \subseteq 1..n BY SourcesAreNumbered, FS_CardinalityType
  <2> HIDE DEF n
  <2>2. f \in [S -> Nat] BY <2>1
  <2>3. PICK s \in S : \A t \in S : f[s] <= f[t] BY <1>2, <2>2, LeastOf
  <2>4. \A t \in S : t <= s BY <2>1, <2>3
  <2>5. (CHOOSE x \in S : \A t \in S : t <= x) \in S BY <2>4
  <2> QED BY <1>2, <2>5 DEF FactoryPage!First, ArticlePage!First
<1> QED BY <1>1, <1>2

\* One of the candidates that a moment proposes ranks first.
LEMMA FirstCandidate ==
  ASSUME NEW S \in SUBSET FactoryPage!Ids, S # {}
  PROVE  (CHOOSE i \in S : \A k \in S : i[2] <= k[2]) \in S
<1> DEFINE f == [i \in S |-> i[2]]
<1>1. f \in [S -> Nat] BY BoundsAreNatural DEF FactoryPage!Ids
<1>2. PICK i \in S : \A k \in S : f[i] <= f[k] BY <1>1, LeastOf
<1>3. \A k \in S : i[2] <= k[2] BY <1>2
<1> QED BY <1>3

-----------------------------------------------------------------------------
(* Proofs: the requests of the page of the clips *)

\* What None is not.
LEMMA NoneIsNot ==
  /\ None \notin Sources /\ None \notin Slots /\ None \notin FactoryPage!Ids /\ None # "tick"
  /\ None \notin FactoryPage!Requests /\ None \notin ArticlePage!Requests
<1>1. Sources \subseteq Nat BY SourcesAreNumbered, FS_CardinalityType
<1> QED BY <1>1, NoneIsNoValue

\* What a request is about goes by its operation.
LEMMA AboutOps ==
  /\ \A op \in {"moment", "analyze", "create", "remove"} : FactoryPage!About(op) = Sources
  /\ \A op \in {"drop", "schedule"} : FactoryPage!About(op) = FactoryPage!Ids
  /\ FactoryPage!About("tick") = {"tick"}
  /\ \A op \in {"init", "all", "load"} : FactoryPage!About(op) = {None}
<1>1. \A op \in {"moment", "analyze", "create", "remove"} : FactoryPage!About(op) = Sources
  BY Zenon DEF FactoryPage!About
<1>2. ASSUME NEW op \in {"drop", "schedule"} PROVE FactoryPage!About(op) = FactoryPage!Ids
  <2>1. op \notin {"moment", "analyze", "create", "remove"} OBVIOUS
  <2> QED BY <2>1, Zenon DEF FactoryPage!About
<1>3. FactoryPage!About("tick") = {"tick"}
  <2>1. "tick" \notin {"moment", "analyze", "create", "remove"} /\ "tick" \notin {"drop", "schedule"}
    OBVIOUS
  <2> QED BY <2>1, Zenon DEF FactoryPage!About
<1>4. ASSUME NEW op \in {"init", "all", "load"} PROVE FactoryPage!About(op) = {None}
  <2>1. /\ op \notin {"moment", "analyze", "create", "remove"} /\ op \notin {"drop", "schedule"}
        /\ op # "tick"
    OBVIOUS
  <2> QED BY <2>1, Zenon DEF FactoryPage!About
<1> QED BY <1>1, <1>2, <1>3, <1>4

\* So it is one of these.
LEMMA AboutWhat ==
  \A op \in FactoryPage!Ops :
    FactoryPage!About(op) \subseteq Sources \cup FactoryPage!Ids \cup {"tick", None}
BY AboutOps DEF FactoryPage!Ops, FactoryPage!Kinds

\* The lists that a request has not read yet.
LEMMA NothingRead ==
  ASSUME NEW W \in SUBSET FactoryPage!Lists
  PROVE  /\ [w \in W |-> None] \in UNION {[V -> Values] : V \in SUBSET FactoryPage!Lists}
         /\ DOMAIN [w \in W |-> None] = W
<1>1. None \in Values BY DEF Values
<1>2. [w \in W |-> None] \in [W -> Values] BY <1>1
<1> QED BY <1>2

\* A request that reads lists is well formed.
LEMMA ClipsFetch ==
  ASSUME NEW op \in FactoryPage!Ops, NEW W \in SUBSET FactoryPage!Lists,
         NEW sel \in Sources \cup {None}, W # {},
         \/ op = "init" /\ (W = {"sources"} \/ W = {"candidates", "scheduled"})
         \/ op = "all" /\ W \subseteq {"sources", "scheduled"}
         \/ op \in {"all", "load"} /\ W = {"candidates"} /\ sel # None
  PROVE  FactoryPage!Fetch(op, W, sel) \in ClipsRequests
<1> DEFINE j == FactoryPage!Fetch(op, W, sel)
<1>1. j \in FactoryPage!Requests
  BY NothingRead DEF FactoryPage!Fetch, FactoryPage!Requests, Values
<1>2. None \in FactoryPage!About(op) BY AboutOps
<1>3. ClipsShape(j) BY <1>2 DEF FactoryPage!Fetch, ClipsShape, ListOf
<1> QED BY <1>1, <1>3 DEF ClipsRequests

\* So is the one that reads the schedule after something was removed.
LEMMA ClipsRefetch ==
  ASSUME NEW op \in {"remove", "drop"}, NEW id \in FactoryPage!About(op)
  PROVE  FactoryPage!RefreshScheduled(op, id) \in ClipsRequests
<1> DEFINE j == FactoryPage!RefreshScheduled(op, id)
<1>1. PICK f : f = FactoryPage!Fetch(op, {"scheduled"}, None) OBVIOUS
<1>2. f = [op |-> op, sent |-> FALSE, served |-> FALSE, id |-> None, sel |-> None, list |-> {},
           again |-> {}, get |-> [w \in {"scheduled"} |-> None]]
  BY <1>1 DEF FactoryPage!Fetch
<1>3. id \in Sources \cup FactoryPage!Ids \cup {"tick", None}
  BY AboutWhat DEF FactoryPage!Ops, FactoryPage!Kinds
<1>4. f \in FactoryPage!Requests
  BY <1>2, NothingRead DEF FactoryPage!Requests, FactoryPage!Ops, FactoryPage!Kinds, FactoryPage!Lists
<1>5. j = [f EXCEPT !.id = id] BY <1>1 DEF FactoryPage!RefreshScheduled
<1>6. j \in FactoryPage!Requests BY <1>3, <1>4, <1>5 DEF FactoryPage!Requests
<1>7. ClipsShape(j) BY <1>2, <1>4, <1>5 DEF ClipsShape, ListOf, FactoryPage!Requests
<1> QED BY <1>6, <1>7 DEF ClipsRequests

\* So is what the user asks for.
LEMMA ClipsPost ==
  ASSUME ClipsTypes, NEW op \in FactoryPage!Kinds \cup {"schedule"},
         NEW id \in FactoryPage!About(op), op = "remove" => id \in sources
  PROVE  FactoryPage!Post(op, id) \in ClipsRequests
<1> DEFINE j == FactoryPage!Post(op, id)
<1>1. id \in Sources \cup FactoryPage!Ids \cup {"tick", None} BY AboutWhat DEF FactoryPage!Ops
<1>2. j \in FactoryPage!Requests
  BY <1>1, NothingRead DEF FactoryPage!Post, FactoryPage!Requests, FactoryPage!Ops, ClipsTypes, Values
<1>3. ClipsShape(j) BY DEF FactoryPage!Post, ClipsShape, ClipsTypes
<1> QED BY <1>2, <1>3 DEF ClipsRequests

\* What a request that was made has in its fields.
LEMMA ClipsFields ==
  ASSUME NEW j \in ClipsRequests
  PROVE  /\ j # None /\ ClipsShape(j) /\ j \in FactoryPage!Requests
         /\ j.op \in FactoryPage!Ops /\ j.sent \in BOOLEAN /\ j.served \in BOOLEAN
         /\ j.id \in FactoryPage!About(j.op) /\ j.sel \in Sources \cup {None}
         /\ j.again \in SUBSET Sources
         /\ DOMAIN j.get \subseteq FactoryPage!Lists
         /\ j.get \in [DOMAIN j.get -> Values]
<1>1. j \in FactoryPage!Requests /\ ClipsShape(j) BY DEF ClipsRequests
<1>2. j.get \in UNION {[V -> Values] : V \in SUBSET FactoryPage!Lists}
  BY <1>1 DEF FactoryPage!Requests, Values
<1> QED BY <1>1, <1>2, NoneIsNot DEF FactoryPage!Requests, ClipsShape

\* A request stays well formed when it is served.
LEMMA ClipsServed ==
  ASSUME NEW j \in ClipsRequests, j.sent, ~j.served, NEW list,
         list = IF j.op = "moment" THEN FactoryPage!Takes(j.id) ELSE j.list
  PROVE  [j EXCEPT !.served = TRUE, !.list = list] \in ClipsRequests
<1>1. list \in IF j.op = "moment" THEN SUBSET FactoryPage!Ids ELSE SUBSET Sources
  BY ClipsFields DEF ClipsShape, FactoryPage!Takes
<1>2. j.op = "moment" => \A i \in list : i[1] = j.id BY DEF FactoryPage!Takes
<1>3. TRUE \in BOOLEAN OBVIOUS
<1>4. [j EXCEPT !.served = TRUE, !.list = list] \in FactoryPage!Requests
  <2>1. list \in (SUBSET Sources) \cup (SUBSET FactoryPage!Ids) BY <1>1
  <2>2. j \in FactoryPage!Requests BY ClipsFields
  <2> QED BY <2>1, <2>2, <1>3 DEF FactoryPage!Requests
<1>5. ClipsShape([j EXCEPT !.served = TRUE, !.list = list])
  BY <1>1, <1>2, ClipsFields DEF ClipsShape, FactoryPage!Requests
<1> QED BY <1>4, <1>5 DEF ClipsRequests

\* So it does when a list is read, and when one of its lists has arrived and others have not.
LEMMA ClipsGets ==
  ASSUME NEW j \in ClipsRequests, NEW W \in SUBSET DOMAIN j.get, ~j.sent, W # {},
         NEW g \in [W -> Values],
         \A w \in W : g[w] \in ListOf(w) \cup {None},
         j.op = "init" => W = DOMAIN j.get
  PROVE  [j EXCEPT !.get = g] \in ClipsRequests
<1>1. W \in SUBSET FactoryPage!Lists BY ClipsFields
<1>2. g \in UNION {[V -> Values] : V \in SUBSET FactoryPage!Lists}
  BY <1>1
<1>3. [j EXCEPT !.get = g] \in FactoryPage!Requests
  BY <1>2, ClipsFields DEF FactoryPage!Requests, Values
<1>4. DOMAIN g = W OBVIOUS
<1>5. ClipsShape([j EXCEPT !.get = g])
  BY <1>4, ClipsFields DEF ClipsShape, FactoryPage!Requests
<1> QED BY <1>3, <1>5 DEF ClipsRequests

\* What a request becomes when one of its lists has arrived: it waits for the others, goes on
\* with the candidates, or is done.
RestIs(r, what, x) ==
    LET rest == DOMAIN job[r].get \ {what}
        goesOn == job[r].op = "all" /\ what # "candidates" /\ job[r].sel # None
    IN
    /\ rest # {} => /\ x # None /\ x.op = job[r].op /\ x.sel = job[r].sel /\ x.id = job[r].id
                    /\ ~x.sent /\ ~x.served /\ DOMAIN x.get = rest
    /\ rest = {} => x = IF goesOn THEN FactoryPage!Fetch("all", {"candidates"}, job[r].sel) ELSE None

\* Arriving lists do this to well formed requests.
LEMMA ClipsRest ==
  ASSUME ClipsTypes, NEW r \in Slots, job[r] # None, ~job[r].sent,
         NEW what \in DOMAIN job[r].get, job[r].op # "init"
  PROVE  \E x \in ClipsRequests \cup {None} :
           FactoryPage!Rest(r, what) = [job EXCEPT ![r] = x] /\ RestIs(r, what, x)
<1> DEFINE rest == DOMAIN job[r].get \ {what}
          goesOn == job[r].op = "all" /\ what # "candidates" /\ job[r].sel # None
<1>1. job[r] \in ClipsRequests BY DEF ClipsTypes
<1>2. CASE rest # {}
  <2> DEFINE g == [w \in rest |-> job[r].get[w]]
            x == [job[r] EXCEPT !.get = g]
  <2>1. g \in [rest -> Values] BY <1>1, ClipsFields
  <2>2. \A w \in rest : g[w] \in ListOf(w) \cup {None} BY <1>1, ClipsFields DEF ClipsShape
  <2>3. x \in ClipsRequests BY <1>1, <1>2, <2>1, <2>2, ClipsGets
  <2>4. job[r] \in FactoryPage!Requests BY <1>1, ClipsFields
  <2>5. /\ x.op = job[r].op /\ x.sel = job[r].sel /\ x.id = job[r].id
        /\ x.sent = job[r].sent /\ x.served = job[r].served /\ x.get = g
    BY <2>4 DEF FactoryPage!Requests
  <2>6. ~job[r].served BY <1>1, ClipsFields DEF ClipsShape
  <2>7. FactoryPage!Rest(r, what) = [job EXCEPT ![r] = x]
    BY <1>2 DEF FactoryPage!Rest, FactoryPage!Then
  <2>8. RestIs(r, what, x) BY <1>1, <1>2, <2>3, <2>5, <2>6, ClipsFields DEF RestIs
  <2> QED BY <2>3, <2>7, <2>8
<1>3. CASE rest = {} /\ goesOn
  <2> DEFINE x == FactoryPage!Fetch("all", {"candidates"}, job[r].sel)
  <2>1. x \in ClipsRequests
    BY <1>1, <1>3, ClipsFields, ClipsFetch DEF FactoryPage!Ops, FactoryPage!Lists
  <2>2. FactoryPage!Rest(r, what) = [job EXCEPT ![r] = x]
    BY <1>3 DEF FactoryPage!Rest, FactoryPage!Then
  <2> QED BY <1>3, <2>1, <2>2 DEF RestIs
<1>4. CASE rest = {} /\ ~goesOn
  <2>1. FactoryPage!Rest(r, what) = [job EXCEPT ![r] = None]
    BY <1>4 DEF FactoryPage!Rest, FactoryPage!Then
  <2> QED BY <1>4, <2>1 DEF RestIs
<1> QED BY <1>2, <1>3, <1>4

\* What is selected: the row that was opened is closed, and the candidates are loaded by a
\* request of their own.
LEMMA ClipsSelect ==
  ASSUME ClipsTypes, NEW jobs \in [Slots -> ClipsRequests \cup {None}],
         NEW s \in Sources \cup {None}, NEW open \in FactoryPage!Ids \cup {None},
         FactoryPage!Select(s, jobs, open)
  PROVE  /\ selected' = s /\ opened' = IF s = selected THEN open ELSE None
         /\ job' \in [Slots -> ClipsRequests \cup {None}]
         /\ \A q \in Slots : jobs[q] # None => job'[q] = jobs[q]
         /\ \A q \in Slots :
              job'[q] = jobs[q] \/ job'[q] = FactoryPage!Fetch("load", {"candidates"}, s)
         /\ s \in {selected, None} => job' = jobs
         /\ s \notin {selected, None} =>
              \E q \in Slots : jobs[q] = None /\ job'[q] = FactoryPage!Fetch("load", {"candidates"}, s)
<1>1. selected' = s /\ opened' = IF s = selected THEN open ELSE None BY DEF FactoryPage!Select
<1>2. CASE s \in {selected, None}
  <2>1. job' = jobs BY <1>2 DEF FactoryPage!Select
  <2> QED BY <1>1, <1>2, <2>1
<1>3. CASE s \notin {selected, None}
  <2> DEFINE x == FactoryPage!Fetch("load", {"candidates"}, s)
  <2>1. PICK f \in Slots : jobs[f] = None /\ job' = [jobs EXCEPT ![f] = x]
    BY <1>3 DEF FactoryPage!Select
  <2>2. x \in ClipsRequests
    BY <1>3, ClipsFetch DEF FactoryPage!Ops, FactoryPage!Lists
  <2> HIDE DEF x
  <2>3. job' \in [Slots -> ClipsRequests \cup {None}] BY <2>1, <2>2
  <2>4. job'[f] = x /\ \A q \in Slots : q # f => job'[q] = jobs[q] BY <2>1
  <2> QED BY <1>1, <1>3, <2>1, <2>3, <2>4 DEF x
<1> QED BY <1>2, <1>3

\* A control that is enabled again.
LEMMA ClipsFinally ==
  ASSUME ClipsTypes, NEW r \in Slots, FactoryPage!Finally(r)
  PROVE  /\ busy' \in [FactoryPage!Kinds -> Sources \cup FactoryPage!Ids \cup {"tick", None}]
         /\ \A k \in FactoryPage!Kinds : busy'[k] \in FactoryPage!About(k) \cup {None}
         /\ \A k \in FactoryPage!Kinds : busy'[k] = IF k = job[r].op THEN None ELSE busy[k]
<1>1. CASE job[r].op \in FactoryPage!Kinds
  <2>1. busy' = [busy EXCEPT ![job[r].op] = None] BY <1>1 DEF FactoryPage!Finally
  <2>2. busy' \in [FactoryPage!Kinds -> Sources \cup FactoryPage!Ids \cup {"tick", None}]
    BY <2>1 DEF ClipsTypes
  <2> QED BY <2>1, <2>2 DEF ClipsTypes
<1>2. CASE job[r].op \notin FactoryPage!Kinds
  <2>1. busy' = busy BY <1>2 DEF FactoryPage!Finally
  <2> QED BY <1>2, <2>1 DEF ClipsTypes
<1> QED BY <1>1, <1>2

-----------------------------------------------------------------------------
(* Proofs: the types of the page of the clips *)

\* The page opens with the request for the sources.
LEMMA ClipsTypesBegin == FactoryPage!Init => ClipsTypes
<1> SUFFICES ASSUME FactoryPage!Init PROVE ClipsTypes OBVIOUS
<1> USE DEF FactoryPage!Init
<1>1. PICK r \in Slots :
        job = [s \in Slots |-> IF s = r THEN FactoryPage!Fetch("init", {"sources"}, None) ELSE None]
  OBVIOUS
<1>2. FactoryPage!Fetch("init", {"sources"}, None) \in ClipsRequests
  BY ClipsFetch DEF FactoryPage!Ops, FactoryPage!Lists
<1>3. job \in [Slots -> ClipsRequests \cup {None}] BY <1>1, <1>2
<1>4. busy \in [FactoryPage!Kinds -> Sources \cup FactoryPage!Ids \cup {"tick", None}] OBVIOUS
<1>5. cands \in SUBSET FactoryPage!Ids /\ queue \in SUBSET cands /\ srcs \in SUBSET Sources
  OBVIOUS
<1>6. acts \in 0..MaxActs /\ faults \in 0..MaxFaults BY BoundsAreNatural
<1> QED BY <1>3, <1>4, <1>5, <1>6 DEF ClipsTypes

\* What the user asks for is a request about something the page shows.
LEMMA ClipsAsk ==
  ASSUME ClipsTypes, FactoryPage!User
  PROVE  \/ \E s \in Sources : FactoryPage!ClickSource(s)
         \/ \E i \in FactoryPage!Ids : FactoryPage!ClickRow(i)
         \/ FactoryPage!ClickView
         \/ \E op \in FactoryPage!Kinds \cup {"schedule"} : \E id \in FactoryPage!About(op) :
              FactoryPage!Begin(op, id) /\ (op = "remove" => id \in sources)
<1>1. ASSUME NEW s \in Sources, FactoryPage!SubmitSource(s) \/ FactoryPage!SubmitMoment(s)
                                \/ FactoryPage!ClickAnalyze(s) \/ FactoryPage!ClickRemove(s)
      PROVE  \E op \in {"create", "moment", "analyze", "remove"} :
               FactoryPage!Begin(op, s) /\ (op = "remove" => s \in sources)
  BY <1>1 DEF FactoryPage!SubmitSource, FactoryPage!SubmitMoment, FactoryPage!ClickAnalyze,
              FactoryPage!ClickRemove, FactoryPage!Idle
<1>2. ASSUME NEW i \in FactoryPage!Ids, FactoryPage!ClickDrop(i) \/ FactoryPage!ClickSchedule(i)
      PROVE  \E op \in {"drop", "schedule"} : FactoryPage!Begin(op, i)
  BY <1>2 DEF FactoryPage!ClickDrop, FactoryPage!ClickSchedule
<1>3. FactoryPage!ClickTick => FactoryPage!Begin("tick", "tick") BY DEF FactoryPage!ClickTick
<1> QED BY <1>1, <1>2, <1>3, AboutOps DEF FactoryPage!User, FactoryPage!Kinds

\* A request that the user makes.
LEMMA ClipsBegin ==
  ASSUME ClipsTypes, NEW op \in FactoryPage!Kinds \cup {"schedule"},
         NEW id \in FactoryPage!About(op), FactoryPage!Begin(op, id), op = "remove" => id \in sources
  PROVE  /\ ClipsTypes'
         /\ \E r \in Slots : job[r] = None /\ job' = [job EXCEPT ![r] = FactoryPage!Post(op, id)]
         /\ busy' = IF op \in FactoryPage!Kinds THEN [busy EXCEPT ![op] = id] ELSE busy
<1> USE DEF FactoryPage!Begin
<1>1. PICK r \in Slots : job[r] = None /\ job' = [job EXCEPT ![r] = FactoryPage!Post(op, id)]
  OBVIOUS
<1>2. FactoryPage!Post(op, id) \in ClipsRequests BY ClipsPost
<1>3. job' \in [Slots -> ClipsRequests \cup {None}] BY <1>1, <1>2 DEF ClipsTypes
<1>4. id \in Sources \cup FactoryPage!Ids \cup {"tick", None} BY AboutWhat DEF FactoryPage!Ops
<1>5. busy' = IF op \in FactoryPage!Kinds THEN [busy EXCEPT ![op] = id] ELSE busy OBVIOUS
<1>6. busy' \in [FactoryPage!Kinds -> Sources \cup FactoryPage!Ids \cup {"tick", None}]
  BY <1>4, <1>5 DEF ClipsTypes
<1>7. \A k \in FactoryPage!Kinds : busy'[k] \in FactoryPage!About(k) \cup {None}
  BY <1>5 DEF ClipsTypes
<1>8. acts' \in 0..MaxActs BY BoundsAreNatural DEF FactoryPage!Act, ClipsTypes
<1>9. UNCHANGED <<srcs, cands, queue, sources, twice, early, candidates, scheduled, selected,
                  opened, table, faults, outdated>>
  BY DEF FactoryPage!server, FactoryPage!lists, FactoryPage!listed
<1>10. ClipsTypes' BY <1>3, <1>6, <1>7, <1>8, <1>9 DEF ClipsTypes
<1> QED BY <1>1, <1>5, <1>10

\* What the server does with a request.
Serves(r) ==
    \/ job[r].op = "create" /\ FactoryPage!CreateSource(job[r].id)
    \/ job[r].op = "remove" /\ FactoryPage!DeleteSource(job[r].id)
    \/ job[r].op = "drop" /\ FactoryPage!DeleteCandidate(job[r].id)
    \/ job[r].op = "analyze" /\ FactoryPage!AnalyzeSource(job[r].id)
    \/ job[r].op = "moment" /\ FactoryPage!AnalyzeMoment(job[r].id)
    \/ job[r].op = "schedule" /\ FactoryPage!ScheduleCandidate(job[r].id)
    \/ job[r].op = "tick" /\ FactoryPage!TickScheduler

\* A request that is served becomes this one, and the server's tables keep their types.
LEMMA ClipsServe ==
  ASSUME ClipsTypes, NEW r \in Slots, FactoryPage!Serve(r)
  PROVE  /\ ClipsTypes' /\ Serves(r) /\ job[r] # None /\ job[r].sent /\ ~job[r].served
         /\ \E x \in ClipsRequests :
              /\ job' = [job EXCEPT ![r] = x]
              /\ x.op = job[r].op /\ x.id = job[r].id /\ x.sel = job[r].sel /\ x.get = job[r].get
              /\ x.sent /\ x.served
              /\ x.list = IF x.op = "moment" THEN FactoryPage!Takes(x.id) ELSE job[r].list
         /\ UNCHANGED <<sources, twice, early, candidates, scheduled, selected, opened, table,
                        busy, acts, faults, outdated>>
<1> USE DEF FactoryPage!Serve
<1>1. job[r] # None /\ job[r].sent /\ ~job[r].served /\ Serves(r) BY DEF Serves
<1>2. UNCHANGED <<sources, twice, early, candidates, scheduled, selected, opened, table, busy,
                  acts, faults, outdated>>
  BY DEF FactoryPage!page, FactoryPage!lists, FactoryPage!listed
<1>3. job[r] \in ClipsRequests BY <1>1 DEF ClipsTypes
<1> DEFINE list == IF job[r].op = "moment" THEN FactoryPage!Takes(job[r].id) ELSE job[r].list
          x == [job[r] EXCEPT !.served = TRUE, !.list = list]
<1>4. job' = [job EXCEPT ![r] = x] BY <1>1
<1>5. x \in ClipsRequests BY <1>1, <1>3, ClipsServed
<1>6. /\ x.op = job[r].op /\ x.id = job[r].id /\ x.sel = job[r].sel /\ x.get = job[r].get
      /\ x.sent /\ x.served /\ x.list = list
  BY <1>1, <1>3, ClipsFields DEF FactoryPage!Requests
<1>7. job' \in [Slots -> ClipsRequests \cup {None}] BY <1>4, <1>5 DEF ClipsTypes
<1>8. job[r].id \in FactoryPage!About(job[r].op) BY <1>3, ClipsFields
<1>9. /\ srcs' \in SUBSET Sources /\ cands' \in SUBSET FactoryPage!Ids
      /\ queue' \in SUBSET cands' /\ \A i \in cands' : i[1] \in srcs'
  <2> USE DEF ClipsTypes
  <2>1. CASE job[r].op = "create" /\ FactoryPage!CreateSource(job[r].id)
    BY <1>8, <2>1, AboutOps DEF FactoryPage!CreateSource
  <2>2. CASE job[r].op = "remove" /\ FactoryPage!DeleteSource(job[r].id)
    BY <2>2 DEF FactoryPage!DeleteSource
  <2>3. CASE job[r].op = "drop" /\ FactoryPage!DeleteCandidate(job[r].id)
    BY <2>3 DEF FactoryPage!DeleteCandidate
  <2>4. CASE job[r].op = "analyze" /\ FactoryPage!AnalyzeSource(job[r].id)
    <3>1. job[r].id \in Sources BY <1>8, <2>4, AboutOps
    <3>2. PICK n \in 1..MaxRank :
            cands' = {i \in cands : i[1] # job[r].id} \cup ({job[r].id} \X (1..n))
      BY <2>4 DEF FactoryPage!AnalyzeSource
    <3>3. 1..n \subseteq 1..MaxRank BY BoundsAreNatural
    <3>4. {job[r].id} \X (1..n) \subseteq FactoryPage!Ids BY <3>1, <3>3 DEF FactoryPage!Ids
    <3>5. srcs' = srcs /\ job[r].id \in srcs /\ queue' = {i \in queue : i[1] # job[r].id}
      BY <2>4 DEF FactoryPage!AnalyzeSource
    <3> HIDE DEF FactoryPage!Serve
    <3> QED BY <3>2, <3>4, <3>5
  <2>5. CASE job[r].op = "moment" /\ FactoryPage!AnalyzeMoment(job[r].id)
    BY <1>8, <2>5, AboutOps DEF FactoryPage!AnalyzeMoment, FactoryPage!Takes
  <2>6. CASE job[r].op = "schedule" /\ FactoryPage!ScheduleCandidate(job[r].id)
    BY <2>6 DEF FactoryPage!ScheduleCandidate
  <2>7. CASE job[r].op = "tick" /\ FactoryPage!TickScheduler
    BY <2>7 DEF FactoryPage!TickScheduler, FactoryPage!server
  <2> QED BY <1>1, <2>1, <2>2, <2>3, <2>4, <2>5, <2>6, <2>7 DEF Serves
<1>10. ClipsTypes' BY <1>2, <1>7, <1>9 DEF ClipsTypes
<1> HIDE DEF FactoryPage!Serve, x
<1>11. list = IF x.op = "moment" THEN FactoryPage!Takes(x.id) ELSE job[r].list BY <1>6
<1> QED BY <1>1, <1>2, <1>4, <1>5, <1>6, <1>10, <1>11

\* A request that reads one of its lists.
LEMMA ClipsRead ==
  ASSUME ClipsTypes, NEW r \in Slots, NEW what \in FactoryPage!Lists, FactoryPage!Read(r, what)
  PROVE  /\ ClipsTypes' /\ job[r] # None /\ ~job[r].sent
         /\ \E x \in ClipsRequests :
              /\ job' = [job EXCEPT ![r] = x]
              /\ x.op = job[r].op /\ x.id = job[r].id /\ x.sel = job[r].sel /\ x.list = job[r].list
              /\ ~x.sent /\ ~x.served /\ DOMAIN x.get = DOMAIN job[r].get
         /\ UNCHANGED <<srcs, cands, queue, sources, twice, early, candidates, scheduled,
                        selected, opened, table, busy, acts, faults, outdated>>
<1> USE DEF FactoryPage!Read
<1>1. UNCHANGED <<srcs, cands, queue, sources, twice, early, candidates, scheduled, selected,
                  opened, table, busy, acts, faults, outdated>>
  BY DEF FactoryPage!server, FactoryPage!page, FactoryPage!lists, FactoryPage!listed
<1>2. job[r] \in ClipsRequests /\ what \in DOMAIN job[r].get BY DEF ClipsTypes
<1>3. ~job[r].sent /\ ~job[r].served BY <1>2, ClipsFields DEF ClipsShape
<1> DEFINE v == FactoryPage!Stored(what, job[r].sel)
          g == [job[r].get EXCEPT ![what] = v]
          x == [job[r] EXCEPT !.get = g]
<1>4. v \in ListOf(what)
  <2>1. what = "sources" => v = srcs
    BY Zenon DEF FactoryPage!Stored, FactoryPage!FetchSources
  <2>2. what = "scheduled" => v = queue
    <3>1. "scheduled" # "sources" OBVIOUS
    <3> QED BY <3>1, Zenon DEF FactoryPage!Stored, FactoryPage!FetchScheduled
  <2>3. what = "candidates" => v = {i \in cands : job[r].sel = None \/ i[1] = job[r].sel}
    <3>1. "candidates" # "sources" /\ "candidates" # "scheduled" OBVIOUS
    <3> QED BY <3>1, Zenon DEF FactoryPage!Stored, FactoryPage!FetchCandidates
  <2> HIDE DEF v
  <2> QED BY <2>1, <2>2, <2>3 DEF ListOf, ClipsTypes, FactoryPage!Lists
<1> HIDE DEF v
<1>5. job[r].get \in [DOMAIN job[r].get -> Values] BY <1>2, ClipsFields
<1>6. v \in Values BY <1>4 DEF ListOf, Values
<1>7. g \in [DOMAIN job[r].get -> Values] BY <1>5, <1>6
<1>8. \A w \in DOMAIN job[r].get : g[w] \in ListOf(w) \cup {None}
  BY <1>2, <1>4, <1>5, ClipsFields DEF ClipsShape
<1>9. x \in ClipsRequests BY <1>2, <1>3, <1>7, <1>8, ClipsGets
<1>10. job' = [job EXCEPT ![r] = x] BY DEF v
<1>11. /\ x.op = job[r].op /\ x.id = job[r].id /\ x.sel = job[r].sel /\ x.list = job[r].list
       /\ x.sent = job[r].sent /\ x.served = job[r].served /\ x.get = g
  BY <1>2, ClipsFields DEF FactoryPage!Requests
<1>12. DOMAIN g = DOMAIN job[r].get OBVIOUS
<1>13. job' \in [Slots -> ClipsRequests \cup {None}] BY <1>9, <1>10 DEF ClipsTypes
<1>14. ClipsTypes' BY <1>1, <1>13 DEF ClipsTypes
<1> HIDE DEF x, g
<1> QED BY <1>1, <1>3, <1>9, <1>10, <1>11, <1>12, <1>14

\* Whatever is remembered of an answer, it is remembered or not.
LEMMA ClipsUnless ==
  ASSUME NEW holds, FactoryPage!Unless(holds)
  PROVE  outdated' \in BOOLEAN /\ (~outdated' => ~outdated /\ holds)
BY Zenon DEF FactoryPage!Unless

\* The requests that were answered, and those whose lists arrive.
LEMMA ClipsAnswers ==
  ASSUME ClipsTypes, NEW r \in Slots, job[r] # None
  PROVE  /\ job[r] \in ClipsRequests /\ job[r].id \in FactoryPage!About(job[r].op)
         /\ job[r].served => job[r].sent /\ job[r].get = [w \in {} |-> None]
         /\ DOMAIN job[r].get # {} => ~job[r].sent /\ ~job[r].served
         /\ job[r].sel \in Sources \cup {None}
         /\ \A w \in DOMAIN job[r].get : job[r].get[w] # None => job[r].get[w] \in ListOf(w)
<1>1. job[r] \in ClipsRequests BY DEF ClipsTypes
<1> QED BY <1>1, ClipsFields DEF ClipsShape

\* The page goes on with a request of its own.
LEMMA ClipsThen ==
  ASSUME ClipsTypes, NEW r \in Slots, NEW x \in ClipsRequests \cup {None}
  PROVE  FactoryPage!Then(r, x) \in [Slots -> ClipsRequests \cup {None}]
BY DEF ClipsTypes, FactoryPage!Then

\* A refresh of everything is a request.
LEMMA ClipsRefreshAll ==
  ASSUME NEW sel \in Sources \cup {None}
  PROVE  FactoryPage!RefreshAll(sel) \in ClipsRequests
BY ClipsFetch DEF FactoryPage!RefreshAll, FactoryPage!Ops, FactoryPage!Lists

\* A moment selects its source, and opens one of the candidates it proposed.
LEMMA ClipsMoment ==
  ASSUME ClipsTypes, NEW r \in Slots, FactoryPage!OnMoment(r)
  PROVE  /\ job[r] # None /\ job[r].op = "moment" /\ job[r].served /\ job[r] \in ClipsRequests
         /\ job[r].id \in Sources /\ job[r].list \in SUBSET FactoryPage!Ids
         /\ FactoryPage!Then(r, FactoryPage!RefreshAll(job[r].sel))
              \in [Slots -> ClipsRequests \cup {None}]
         /\ \E open \in FactoryPage!Ids \cup {None} :
              /\ open = opened \/ open \in job[r].list
              /\ FactoryPage!Select(job[r].id,
                   FactoryPage!Then(r, FactoryPage!RefreshAll(job[r].sel)), open)
<1> USE DEF FactoryPage!OnMoment
<1>1. /\ job[r] # None /\ job[r].op = "moment" /\ job[r].served /\ job[r] \in ClipsRequests
      /\ job[r].id \in Sources
  BY ClipsAnswers, AboutOps DEF FactoryPage!Answered
<1>2. job[r].list \in SUBSET FactoryPage!Ids BY <1>1, ClipsFields DEF ClipsShape
<1> DEFINE open == IF job[r].list = {} THEN opened
                   ELSE CHOOSE i \in job[r].list : \A k \in job[r].list : i[2] <= k[2]
<1>3. open \in FactoryPage!Ids \cup {None} /\ (open = opened \/ open \in job[r].list)
  <2>1. CASE job[r].list = {} BY <2>1 DEF ClipsTypes
  <2>2. CASE job[r].list # {}
    <3>1. (CHOOSE i \in job[r].list : \A k \in job[r].list : i[2] <= k[2]) \in job[r].list
      BY <1>2, <2>2, FirstCandidate
    <3> QED BY <1>2, <2>2, <3>1
  <2> QED BY <2>1, <2>2
<1>4. FactoryPage!Then(r, FactoryPage!RefreshAll(job[r].sel)) \in [Slots -> ClipsRequests \cup {None}]
  BY <1>1, ClipsAnswers, ClipsRefreshAll, ClipsThen
<1>5. FactoryPage!Select(job[r].id, FactoryPage!Then(r, FactoryPage!RefreshAll(job[r].sel)), open)
  OBVIOUS
<1> HIDE DEF open
<1> QED BY <1>1, <1>2, <1>3, <1>4, <1>5

\* Every answer to a post keeps the types.
LEMMA ClipsPostsTyped ==
  ASSUME ClipsTypes, NEW r \in Slots,
         \/ FactoryPage!HandleSourceCreated(r) \/ (FactoryPage!Refreshes(r) /\ job[r] # None)
         \/ FactoryPage!OnMoment(r) \/ FactoryPage!HandleSourceDeleted(r)
         \/ FactoryPage!HandleCandidateDeleted(r) \/ FactoryPage!Fails(r)
  PROVE  ClipsTypes'
<1> USE DEF FactoryPage!server, FactoryPage!lists, FactoryPage!listed
<1>1. CASE FactoryPage!HandleSourceCreated(r)
  <2> USE <1>1 DEF FactoryPage!HandleSourceCreated
  <2>1. job[r].id \in Sources BY ClipsAnswers, AboutOps DEF FactoryPage!Answered
  <2>2. /\ selected' = job[r].id /\ opened' \in FactoryPage!Ids \cup {None}
        /\ job' \in [Slots -> ClipsRequests \cup {None}]
    BY <2>1, ClipsThen, ClipsSelect
  <2>3. FactoryPage!Finally(r) /\ outdated' \in BOOLEAN BY ClipsUnless
  <2>4. /\ UNCHANGED <<srcs, cands, queue, scheduled, table, acts, faults>>
        /\ sources' = sources \cup {job[r].id} /\ candidates' = {}
        /\ twice' = twice \cup ({job[r].id} \cap sources)
        /\ early' = early \cup ({job[r].id} \cap sources)
    OBVIOUS
  <2> HIDE DEF FactoryPage!HandleSourceCreated
  <2> QED BY <2>1, <2>2, <2>3, <2>4, ClipsFinally DEF ClipsTypes
<1>2. CASE FactoryPage!Refreshes(r) /\ job[r] # None
  <2> USE <1>2 DEF FactoryPage!Refreshes
  <2>1. job' \in [Slots -> ClipsRequests \cup {None}]
    BY ClipsAnswers, ClipsRefreshAll, ClipsThen
  <2>2. FactoryPage!Finally(r) /\ outdated' \in BOOLEAN BY ClipsUnless
  <2>3. UNCHANGED <<srcs, cands, queue, sources, twice, early, candidates, scheduled, selected,
                    opened, table, acts, faults>>
    OBVIOUS
  <2> HIDE DEF FactoryPage!Refreshes
  <2> QED BY <2>1, <2>2, <2>3, ClipsFinally DEF ClipsTypes
<1>3. CASE FactoryPage!OnMoment(r)
  <2> USE <1>3 DEF FactoryPage!OnMoment
  <2>1. /\ job[r].id \in Sources /\ job[r].list \in SUBSET FactoryPage!Ids
        /\ FactoryPage!Then(r, FactoryPage!RefreshAll(job[r].sel))
             \in [Slots -> ClipsRequests \cup {None}]
    BY ClipsMoment
  <2>2. PICK open \in FactoryPage!Ids \cup {None} :
          FactoryPage!Select(job[r].id,
            FactoryPage!Then(r, FactoryPage!RefreshAll(job[r].sel)), open)
    BY ClipsMoment
  <2>3. /\ selected' = job[r].id /\ opened' \in FactoryPage!Ids \cup {None}
        /\ job' \in [Slots -> ClipsRequests \cup {None}]
    BY <2>1, <2>2, ClipsSelect
  <2>4. FactoryPage!Finally(r) /\ outdated' \in BOOLEAN BY ClipsUnless
  <2>5. /\ UNCHANGED <<srcs, cands, queue, sources, twice, early, scheduled, table, acts, faults>>
        /\ candidates' = candidates \cup job[r].list
    OBVIOUS
  <2> HIDE DEF FactoryPage!OnMoment
  <2> QED BY <2>1, <2>3, <2>4, <2>5, ClipsFinally DEF ClipsTypes
<1>4. CASE FactoryPage!HandleSourceDeleted(r)
  <2> USE <1>4 DEF FactoryPage!HandleSourceDeleted
  <2> DEFINE s == job[r].id
            remaining == job[r].list \ {s}
            next == FactoryPage!RefreshScheduled("remove", s)
  <2>1. /\ job[r] # None /\ job[r].op = "remove" /\ job[r].served /\ job[r] \in ClipsRequests
        /\ s \in Sources /\ s \in FactoryPage!About("remove")
    BY ClipsAnswers, AboutOps DEF FactoryPage!Answered
  <2>2. remaining \in SUBSET Sources /\ job[r].again \subseteq job[r].list
    BY <2>1, ClipsAnswers, ClipsFields DEF ClipsShape
  <2>3. FactoryPage!Then(r, next) \in [Slots -> ClipsRequests \cup {None}]
    BY <2>1, ClipsRefetch, ClipsThen
  <2>4. ASSUME job[r].sel = s
        PROVE  /\ candidates' \in {{}, candidates} /\ selected' \in Sources \cup {None}
               /\ opened' \in FactoryPage!Ids \cup {None}
               /\ job' \in [Slots -> ClipsRequests \cup {None}]
    <3>1. /\ FactoryPage!Select(FactoryPage!First(remaining), FactoryPage!Then(r, next), None)
          /\ candidates' = IF remaining = {} THEN {} ELSE candidates
      BY <2>4
    <3>2. FactoryPage!First(remaining) \in Sources \cup {None} BY <2>2, FirstSelects
    <3> QED BY <2>3, <3>1, <3>2, ClipsSelect
  <2>5. ASSUME job[r].sel # s
        PROVE  UNCHANGED <<selected, opened, candidates>> /\ job' = FactoryPage!Then(r, next)
    BY <2>5
  <2>6. outdated' \in BOOLEAN BY ClipsUnless
  <2>7. /\ UNCHANGED <<srcs, cands, queue, scheduled, table, busy, acts, faults, early>>
        /\ sources' = remaining /\ twice' = job[r].again \ {s}
    OBVIOUS
  <2>8. /\ candidates' \in SUBSET FactoryPage!Ids /\ selected' \in Sources \cup {None}
        /\ opened' \in FactoryPage!Ids \cup {None} /\ job' \in [Slots -> ClipsRequests \cup {None}]
    BY <2>3, <2>4, <2>5 DEF ClipsTypes
  <2> HIDE DEF FactoryPage!HandleSourceDeleted
  <2> QED BY <2>2, <2>6, <2>7, <2>8 DEF ClipsTypes
<1>5. CASE FactoryPage!HandleCandidateDeleted(r)
  <2> USE <1>5 DEF FactoryPage!HandleCandidateDeleted
  <2>1. job[r] # None /\ job[r].id \in FactoryPage!About("drop")
    BY ClipsAnswers DEF FactoryPage!Answered
  <2>2. job' \in [Slots -> ClipsRequests \cup {None}] BY <2>1, ClipsRefetch, ClipsThen
  <2>3. outdated' \in BOOLEAN BY ClipsUnless
  <2>4. /\ UNCHANGED <<srcs, cands, queue, sources, twice, early, scheduled, selected, table,
                       busy, acts, faults>>
        /\ candidates' = candidates \ {job[r].id} /\ opened' \in {None, opened}
    OBVIOUS
  <2> HIDE DEF FactoryPage!HandleCandidateDeleted
  <2> QED BY <2>2, <2>3, <2>4 DEF ClipsTypes
<1>6. CASE FactoryPage!Fails(r)
  <2> USE <1>6 DEF FactoryPage!Fails
  <2>1. job' \in [Slots -> ClipsRequests \cup {None}]
    BY ClipsAnswers, ClipsRefreshAll, ClipsThen
  <2>2. FactoryPage!Finally(r) /\ outdated' \in BOOLEAN BY ClipsUnless
  <2>3. UNCHANGED <<srcs, cands, queue, sources, twice, early, candidates, scheduled, selected,
                    opened, table, acts>>
    OBVIOUS
  <2>4. faults' \in 0..MaxFaults BY BoundsAreNatural DEF ClipsTypes
  <2> HIDE DEF FactoryPage!Fails
  <2> QED BY <2>1, <2>2, <2>3, <2>4, ClipsFinally DEF ClipsTypes
<1> QED BY <1>1, <1>2, <1>3, <1>4, <1>5, <1>6

\* So does every list that arrives.
LEMMA ClipsListsTyped ==
  ASSUME ClipsTypes, NEW r \in Slots,
         \/ FactoryPage!InitSources(r) \/ FactoryPage!InitRest(r) \/ FactoryPage!RefreshSources(r)
         \/ FactoryPage!ScheduledArrives(r) \/ FactoryPage!RefreshCandidates(r)
  PROVE  ClipsTypes'
<1> USE DEF FactoryPage!server, FactoryPage!lists, FactoryPage!listed, FactoryPage!Arrives, FactoryPage!Data,
           FactoryPage!ShowSources
<1>1. CASE FactoryPage!InitSources(r)
  <2> USE <1>1 DEF FactoryPage!InitSources
  <2> DEFINE got == job[r].get["sources"]
            next == FactoryPage!Fetch("init", {"candidates", "scheduled"}, FactoryPage!First(got))
  <2>1. got \in SUBSET Sources BY ClipsAnswers DEF ListOf
  <2>2. FactoryPage!First(got) \in Sources \cup {None} BY <2>1, FirstSelects
  <2>3. next \in ClipsRequests BY <2>2, ClipsFetch DEF FactoryPage!Ops, FactoryPage!Lists
  <2>4. FactoryPage!Select(FactoryPage!First(got), FactoryPage!Then(r, next), opened)
    BY DEF FactoryPage!Data
  <2>5. /\ selected' \in Sources \cup {None} /\ opened' \in FactoryPage!Ids \cup {None}
        /\ job' \in [Slots -> ClipsRequests \cup {None}]
    <3>1. opened \in FactoryPage!Ids \cup {None} BY DEF ClipsTypes
    <3>2. FactoryPage!Then(r, next) \in [Slots -> ClipsRequests \cup {None}] BY <2>3, ClipsThen
    <3> HIDE DEF next, got, FactoryPage!InitSources
    <3> QED BY <2>2, <2>4, <3>1, <3>2, ClipsSelect
  <2>6. outdated' \in BOOLEAN BY ClipsUnless DEF FactoryPage!Shown
  <2>7. /\ UNCHANGED <<srcs, cands, queue, candidates, scheduled, table, busy, acts, faults>>
        /\ sources' = got /\ twice' = {} /\ early' = {}
    OBVIOUS
  <2> HIDE DEF FactoryPage!InitSources, got
  <2> QED BY <2>1, <2>5, <2>6, <2>7 DEF ClipsTypes
<1>2. CASE FactoryPage!InitRest(r)
  <2> USE <1>2 DEF FactoryPage!InitRest
  <2>1. candidates' \in SUBSET FactoryPage!Ids /\ scheduled' \in SUBSET FactoryPage!Ids
    BY ClipsAnswers DEF ListOf
  <2>2. job' \in [Slots -> ClipsRequests \cup {None}] BY ClipsThen
  <2>3. outdated' \in BOOLEAN BY ClipsUnless
  <2>4. UNCHANGED <<srcs, cands, queue, sources, twice, early, selected, opened, table, busy,
                    acts, faults>>
    OBVIOUS
  <2> HIDE DEF FactoryPage!InitRest
  <2> QED BY <2>1, <2>2, <2>3, <2>4 DEF ClipsTypes
<1>3. CASE FactoryPage!RefreshSources(r)
  <2> USE <1>3 DEF FactoryPage!RefreshSources
  <2> DEFINE got == job[r].get["sources"]
  <2>1. job[r] # None /\ "sources" \in DOMAIN job[r].get /\ got \in SUBSET Sources
    BY ClipsAnswers DEF ListOf
  <2>2. ~job[r].sent BY <2>1, ClipsAnswers
  <2>3. FactoryPage!Rest(r, "sources") \in [Slots -> ClipsRequests \cup {None}]
    BY <2>1, <2>2, ClipsRest DEF ClipsTypes
  <2>4. /\ selected' \in Sources \cup {None} /\ opened' \in FactoryPage!Ids \cup {None}
        /\ job' \in [Slots -> ClipsRequests \cup {None}]
    <3>1. CASE job[r].sel = None /\ got # {}
      <4>1. FactoryPage!Select(FactoryPage!First(got), FactoryPage!Rest(r, "sources"), opened)
        BY <3>1
      <4>2. FactoryPage!First(got) \in Sources \cup {None} BY <2>1, FirstSelects
      <4>3. opened \in FactoryPage!Ids \cup {None} BY DEF ClipsTypes
      <4> HIDE DEF got, FactoryPage!RefreshSources
      <4> QED BY <2>3, <4>1, <4>2, <4>3, ClipsSelect
    <3>2. CASE ~(job[r].sel = None /\ got # {})
      <4>1. job' = FactoryPage!Rest(r, "sources") /\ UNCHANGED <<selected, opened>> BY <3>2
      <4> QED BY <2>3, <4>1 DEF ClipsTypes
    <3> QED BY <3>1, <3>2
  <2>5. outdated' \in BOOLEAN BY ClipsUnless DEF FactoryPage!Shown
  <2>6. /\ UNCHANGED <<srcs, cands, queue, candidates, scheduled, table, busy, acts, faults>>
        /\ sources' = got /\ twice' = {} /\ early' = {}
    OBVIOUS
  <2> HIDE DEF FactoryPage!RefreshSources, got
  <2> QED BY <2>1, <2>4, <2>5, <2>6 DEF ClipsTypes
<1>4. CASE FactoryPage!ScheduledArrives(r)
  <2> USE <1>4 DEF FactoryPage!ScheduledArrives
  <2>1. /\ job[r] # None /\ "scheduled" \in DOMAIN job[r].get
        /\ scheduled' \in SUBSET FactoryPage!Ids /\ job[r].op # "init"
    BY ClipsAnswers DEF ListOf
  <2>2. ~job[r].sent BY <2>1, ClipsAnswers
  <2>3. job' \in [Slots -> ClipsRequests \cup {None}]
    BY <2>1, <2>2, ClipsRest DEF ClipsTypes
  <2>4. FactoryPage!Finally(r) /\ outdated' \in BOOLEAN BY ClipsUnless DEF FactoryPage!Shown
  <2>5. UNCHANGED <<srcs, cands, queue, sources, twice, early, candidates, selected, opened,
                    table, acts, faults>>
    OBVIOUS
  <2> HIDE DEF FactoryPage!ScheduledArrives
  <2> QED BY <2>1, <2>3, <2>4, <2>5, ClipsFinally DEF ClipsTypes
<1>5. CASE FactoryPage!RefreshCandidates(r)
  <2> USE <1>5 DEF FactoryPage!RefreshCandidates
  <2>1. /\ job[r] # None /\ "candidates" \in DOMAIN job[r].get
        /\ candidates' \in SUBSET FactoryPage!Ids /\ job[r].op # "init"
    BY ClipsAnswers DEF ListOf
  <2>2. ~job[r].sent BY <2>1, ClipsAnswers
  <2>3. job' \in [Slots -> ClipsRequests \cup {None}]
    BY <2>1, <2>2, ClipsRest DEF ClipsTypes
  <2>4. outdated' \in BOOLEAN BY ClipsUnless DEF FactoryPage!Shown
  <2>5. /\ UNCHANGED <<srcs, cands, queue, sources, twice, early, scheduled, selected, table,
                       busy, acts, faults>>
        /\ opened' \in {opened, None}
    OBVIOUS
  <2> HIDE DEF FactoryPage!RefreshCandidates
  <2> QED BY <2>1, <2>3, <2>4, <2>5 DEF ClipsTypes
<1> QED BY <1>1, <1>2, <1>3, <1>4, <1>5

\* Whatever happens to the page of the clips keeps its types.
LEMMA ClipsTypesStep == ClipsTypes /\ FactoryPage!Next => ClipsTypes'
<1> SUFFICES ASSUME ClipsTypes, FactoryPage!Next PROVE ClipsTypes' OBVIOUS
<1>1. CASE FactoryPage!User
  <2>1. ASSUME NEW s \in Sources, FactoryPage!ClickSource(s) PROVE ClipsTypes'
    <3> USE <2>1 DEF FactoryPage!ClickSource
    <3>1. FactoryPage!Select(s, job, None) OBVIOUS
    <3>2. /\ selected' \in Sources \cup {None} /\ opened' \in FactoryPage!Ids \cup {None}
          /\ job' \in [Slots -> ClipsRequests \cup {None}]
      BY <3>1, ClipsSelect DEF ClipsTypes
    <3>3. acts' \in 0..MaxActs BY BoundsAreNatural DEF FactoryPage!Act, ClipsTypes
    <3>4. UNCHANGED <<srcs, cands, queue, sources, twice, early, candidates, scheduled, table,
                      busy, faults, outdated>>
      BY DEF FactoryPage!server, FactoryPage!lists, FactoryPage!listed
    <3> HIDE DEF FactoryPage!ClickSource
    <3> QED BY <3>2, <3>3, <3>4 DEF ClipsTypes
  <2>2. ASSUME NEW i \in FactoryPage!Ids, FactoryPage!ClickRow(i) PROVE ClipsTypes'
    <3>1. acts' \in 0..MaxActs
      BY <2>2, BoundsAreNatural DEF FactoryPage!ClickRow, FactoryPage!Act, ClipsTypes
    <3>2. /\ UNCHANGED <<srcs, cands, queue, sources, twice, early, candidates, scheduled,
                         selected, table, busy, job, faults, outdated>>
          /\ opened' = i
      BY <2>2 DEF FactoryPage!ClickRow, FactoryPage!server, FactoryPage!lists, FactoryPage!listed
    <3> QED BY <3>1, <3>2 DEF ClipsTypes
  <2>3. CASE FactoryPage!ClickView
    <3>1. acts' \in 0..MaxActs
      BY <2>3, BoundsAreNatural DEF FactoryPage!ClickView, FactoryPage!Act, ClipsTypes
    <3>2. /\ UNCHANGED <<srcs, cands, queue, sources, twice, early, candidates, scheduled,
                         selected, opened, busy, job, faults, outdated>>
          /\ table' \in {table, ~table}
      BY <2>3 DEF FactoryPage!ClickView, FactoryPage!server, FactoryPage!lists, FactoryPage!listed
    <3> QED BY <3>1, <3>2 DEF ClipsTypes
  <2> QED BY <1>1, <2>1, <2>2, <2>3, ClipsAsk, ClipsBegin
<1>2. ASSUME NEW r \in Slots, FactoryPage!Answer(r) PROVE ClipsTypes'
  BY <1>2, ClipsPostsTyped, ClipsListsTyped
    DEF FactoryPage!Answer, FactoryPage!OnAnalyzed, FactoryPage!OnTick, FactoryPage!OnScheduled,
        FactoryPage!Answered
<1>3. ASSUME NEW r \in Slots, FactoryPage!Fails(r) PROVE ClipsTypes'
  BY <1>3, ClipsPostsTyped
<1> QED BY <1>1, <1>2, <1>3, ClipsServe, ClipsRead DEF FactoryPage!Next

-----------------------------------------------------------------------------
(* Proofs: the controls of the page of the clips *)

\* What is disabled stays so for the same request, or is enabled.
LEMMA ClipsControlsKept ==
  ASSUME FactoryPage!ControlsComeBack,
         \A k \in FactoryPage!Kinds :
           busy'[k] = None \/
             /\ busy'[k] = busy[k]
             /\ \A q \in Slots : job[q] # None /\ job[q].op = k =>
                  job'[q] # None /\ job'[q].op = k /\ job'[q].id = job[q].id
  PROVE  FactoryPage!ControlsComeBack'
BY DEF FactoryPage!ControlsComeBack

\* When a request ends, its control is enabled again, and no other request ends.
LEMMA ClipsControlsEnd ==
  ASSUME ClipsTypes, FactoryPage!ControlsComeBack, NEW r \in Slots, FactoryPage!Finally(r),
         \A q \in Slots : q # r /\ job[q] # None => job'[q] = job[q]
  PROVE  FactoryPage!ControlsComeBack'
<1>1. \A k \in FactoryPage!Kinds : busy'[k] = IF k = job[r].op THEN None ELSE busy[k]
  BY ClipsFinally
<1> QED BY <1>1, ClipsControlsKept

\* A request that goes on keeps its control disabled.
LEMMA ClipsControlsGoOn ==
  ASSUME ClipsTypes, FactoryPage!ControlsComeBack, NEW r \in Slots, UNCHANGED busy,
         \A q \in Slots : q # r /\ job[q] # None => job'[q] = job[q],
         job[r] # None,
         job[r].op \in FactoryPage!Kinds =>
           job'[r] # None /\ job'[r].op = job[r].op /\ job'[r].id = job[r].id
  PROVE  FactoryPage!ControlsComeBack'
BY ClipsControlsKept

\* Whatever happens to the page of the clips, a control is enabled again when its request ends.
LEMMA ClipsControlsStep ==
  ClipsTypes /\ FactoryPage!ControlsComeBack /\ FactoryPage!Next => FactoryPage!ControlsComeBack'
<1> SUFFICES ASSUME ClipsTypes, FactoryPage!ControlsComeBack, FactoryPage!Next
             PROVE  FactoryPage!ControlsComeBack'
  OBVIOUS
<1>1. CASE FactoryPage!User
  <2>1. ASSUME NEW s \in Sources, FactoryPage!ClickSource(s) PROVE FactoryPage!ControlsComeBack'
    <3>1. \A q \in Slots : job[q] # None => job'[q] = job[q]
      BY <2>1, ClipsSelect DEF FactoryPage!ClickSource, ClipsTypes
    <3>2. busy' = busy BY <2>1 DEF FactoryPage!ClickSource
    <3> QED BY <3>1, <3>2, ClipsControlsKept
  <2>2. ASSUME NEW i \in FactoryPage!Ids, FactoryPage!ClickRow(i)
        PROVE  FactoryPage!ControlsComeBack'
    BY <2>2 DEF FactoryPage!ClickRow, FactoryPage!ControlsComeBack
  <2>3. CASE FactoryPage!ClickView
    BY <2>3 DEF FactoryPage!ClickView, FactoryPage!ControlsComeBack
  <2>4. ASSUME NEW op \in FactoryPage!Kinds \cup {"schedule"}, NEW id \in FactoryPage!About(op),
               FactoryPage!Begin(op, id), op = "remove" => id \in sources
        PROVE  FactoryPage!ControlsComeBack'
    <3>1. PICK r \in Slots : job[r] = None /\ job' = [job EXCEPT ![r] = FactoryPage!Post(op, id)]
      BY <2>4, ClipsBegin
    <3>2. busy' = IF op \in FactoryPage!Kinds THEN [busy EXCEPT ![op] = id] ELSE busy
      BY <2>4, ClipsBegin
    <3>3. /\ job'[r] # None /\ job'[r].op = op /\ job'[r].id = id
          /\ \A q \in Slots : job[q] # None => job'[q] = job[q]
      <4>1. FactoryPage!Post(op, id) \in ClipsRequests BY <2>4, ClipsPost
      <4>2. job'[r] = FactoryPage!Post(op, id) BY <3>1 DEF ClipsTypes
      <4>3. job'[r] # None BY <4>1, <4>2, ClipsFields
      <4>4. job'[r].op = op /\ job'[r].id = id BY <4>2 DEF FactoryPage!Post
      <4> QED BY <3>1, <4>3, <4>4
    <3>4. ASSUME NEW k \in FactoryPage!Kinds, busy'[k] # None
          PROVE  \E q \in Slots : job'[q] # None /\ job'[q].op = k /\ job'[q].id = busy'[k]
      <4>1. CASE k = op BY <3>2, <3>3, <3>4, <4>1 DEF ClipsTypes
      <4>2. CASE k # op
        <5>1. busy'[k] = busy[k] BY <3>2, <4>2 DEF ClipsTypes
        <5> QED BY <3>3, <3>4, <5>1 DEF FactoryPage!ControlsComeBack
      <4> QED BY <4>1, <4>2
    <3> QED BY <3>4 DEF FactoryPage!ControlsComeBack
  <2> QED BY <1>1, <2>1, <2>2, <2>3, <2>4, ClipsAsk
<1>2. ASSUME NEW r \in Slots, FactoryPage!Serve(r) PROVE FactoryPage!ControlsComeBack'
  <2>1. PICK x \in ClipsRequests : /\ job' = [job EXCEPT ![r] = x]
                                   /\ x.op = job[r].op /\ x.id = job[r].id
    BY <1>2, ClipsServe
  <2>2. busy' = busy /\ job[r] # None BY <1>2, ClipsServe
  <2>3. job'[r] = x /\ x # None BY <2>1, ClipsFields DEF ClipsTypes
  <2> QED BY <2>1, <2>2, <2>3, ClipsControlsGoOn
<1>3. ASSUME NEW r \in Slots, NEW w \in FactoryPage!Lists, FactoryPage!Read(r, w)
      PROVE  FactoryPage!ControlsComeBack'
  <2>1. PICK x \in ClipsRequests : /\ job' = [job EXCEPT ![r] = x]
                                   /\ x.op = job[r].op /\ x.id = job[r].id
    BY <1>3, ClipsRead
  <2>2. busy' = busy /\ job[r] # None BY <1>3, ClipsRead
  <2>3. job'[r] = x /\ x # None BY <2>1, ClipsFields DEF ClipsTypes
  <2> QED BY <2>1, <2>2, <2>3, ClipsControlsGoOn
<1>4. ASSUME NEW r \in Slots, FactoryPage!Fails(r) PROVE FactoryPage!ControlsComeBack'
  BY <1>4, ClipsControlsEnd DEF FactoryPage!Fails, FactoryPage!Then, ClipsTypes
<1>5. ASSUME NEW r \in Slots, FactoryPage!Refreshes(r) PROVE FactoryPage!ControlsComeBack'
  BY <1>5, ClipsControlsEnd DEF FactoryPage!Refreshes, FactoryPage!Then, ClipsTypes
<1>6. ASSUME NEW r \in Slots, FactoryPage!HandleSourceCreated(r) PROVE FactoryPage!ControlsComeBack'
  <2>1. job[r].id \in Sources
    BY <1>6, ClipsAnswers, AboutOps DEF FactoryPage!HandleSourceCreated, FactoryPage!Answered
  <2>2. \A q \in Slots : q # r /\ job[q] # None => job'[q] = job[q]
    <3>1. FactoryPage!Select(job[r].id, FactoryPage!Then(r, None), None)
      BY <1>6 DEF FactoryPage!HandleSourceCreated
    <3>2. \A q \in Slots : FactoryPage!Then(r, None)[q] # None => job'[q] = FactoryPage!Then(r, None)[q]
      BY <2>1, <3>1, ClipsThen, ClipsSelect
    <3> QED BY <3>2 DEF FactoryPage!Then, ClipsTypes
  <2> QED BY <1>6, <2>2, ClipsControlsEnd DEF FactoryPage!HandleSourceCreated
<1>7. ASSUME NEW r \in Slots, FactoryPage!OnMoment(r) PROVE FactoryPage!ControlsComeBack'
  <2> DEFINE jobs == FactoryPage!Then(r, FactoryPage!RefreshAll(job[r].sel))
  <2>1. PICK open \in FactoryPage!Ids \cup {None} : FactoryPage!Select(job[r].id, jobs, open)
    BY <1>7, ClipsMoment
  <2>2. job[r] # None /\ job[r].id \in Sources /\ jobs \in [Slots -> ClipsRequests \cup {None}]
    BY <1>7, ClipsAnswers, AboutOps, ClipsRefreshAll, ClipsThen
      DEF FactoryPage!OnMoment, FactoryPage!Answered
  <2>3. \A q \in Slots : q # r => jobs[q] = job[q] BY DEF FactoryPage!Then, ClipsTypes
  <2> HIDE DEF jobs
  <2>4. \A q \in Slots : q # r /\ job[q] # None => job'[q] = job[q]
    BY <2>1, <2>2, <2>3, ClipsSelect
  <2> QED BY <1>7, <2>4, ClipsControlsEnd DEF FactoryPage!OnMoment
<1>8. ASSUME NEW r \in Slots, FactoryPage!HandleSourceDeleted(r) PROVE FactoryPage!ControlsComeBack'
  <2> DEFINE s == job[r].id
            next == FactoryPage!RefreshScheduled("remove", s)
            jobs == FactoryPage!Then(r, next)
  <2>1. /\ job[r] # None /\ job[r].op = "remove" /\ s \in FactoryPage!About("remove") /\ busy' = busy
        /\ job[r] \in ClipsRequests /\ job[r].served
    BY <1>8, ClipsAnswers DEF FactoryPage!HandleSourceDeleted, FactoryPage!Answered
  <2>2. jobs \in [Slots -> ClipsRequests \cup {None}] /\ next \in ClipsRequests
    BY <2>1, ClipsRefetch, ClipsThen
  <2>3. next.op = "remove" /\ next.id = s
    BY DEF FactoryPage!RefreshScheduled, FactoryPage!Fetch
  <2>4. /\ jobs[r] = next /\ next # None
        /\ \A q \in Slots : q # r => jobs[q] = job[q]
    BY <2>2, ClipsFields DEF FactoryPage!Then, ClipsTypes
  <2>5. \A q \in Slots : jobs[q] # None => job'[q] = jobs[q]
    <3>1. CASE job' = jobs BY <3>1
    <3>2. CASE FactoryPage!Select(FactoryPage!First(job[r].list \ {s}), jobs, None)
      <4>1. FactoryPage!First(job[r].list \ {s}) \in Sources \cup {None}
        BY <2>1, ClipsFields, FirstSelects DEF ClipsShape
      <4> HIDE DEF jobs
      <4> QED BY <2>2, <3>2, <4>1, ClipsSelect
    <3> QED BY <1>8, <3>1, <3>2 DEF FactoryPage!HandleSourceDeleted
  <2> HIDE DEF jobs, next, s
  <2>6. job'[r] # None /\ job'[r].op = "remove" /\ job'[r].id = job[r].id BY <2>3, <2>4, <2>5 DEF s
  <2>7. \A q \in Slots : q # r /\ job[q] # None => job'[q] = job[q] BY <2>4, <2>5
  <2> QED BY <2>1, <2>6, <2>7, ClipsControlsGoOn
<1>9. ASSUME NEW r \in Slots, FactoryPage!HandleCandidateDeleted(r)
      PROVE  FactoryPage!ControlsComeBack'
  <2> DEFINE next == FactoryPage!RefreshScheduled("drop", job[r].id)
  <2>1. job[r] # None /\ job[r].op = "drop" /\ job[r].id \in FactoryPage!About("drop") /\ busy' = busy
    BY <1>9, ClipsAnswers DEF FactoryPage!HandleCandidateDeleted, FactoryPage!Answered
  <2>2. next \in ClipsRequests BY <2>1, ClipsRefetch
  <2>3. next.op = "drop" /\ next.id = job[r].id
    BY DEF FactoryPage!RefreshScheduled, FactoryPage!Fetch
  <2>4. job' = [job EXCEPT ![r] = next]
    BY <1>9 DEF FactoryPage!HandleCandidateDeleted, FactoryPage!Then
  <2> HIDE DEF next
  <2>5. job'[r] = next /\ next # None BY <2>2, <2>4, ClipsFields DEF ClipsTypes
  <2> QED BY <2>1, <2>3, <2>4, <2>5, ClipsControlsGoOn
<1>10. ASSUME NEW r \in Slots, FactoryPage!InitSources(r) PROVE FactoryPage!ControlsComeBack'
  <2> DEFINE got == job[r].get["sources"]
            first == FactoryPage!First(got)
            next == FactoryPage!Fetch("init", {"candidates", "scheduled"}, first)
            jobs == FactoryPage!Then(r, next)
  <2>1. /\ job[r] # None /\ job[r].op = "init" /\ busy' = busy
        /\ FactoryPage!Select(first, jobs, opened)
        /\ "sources" \in DOMAIN job[r].get /\ got # None
    BY <1>10 DEF FactoryPage!InitSources, FactoryPage!Arrives, FactoryPage!Data
  <2>2. got \in SUBSET Sources BY <2>1, ClipsAnswers DEF ListOf
  <2>3. first \in Sources \cup {None} BY <2>2, FirstSelects
  <2>4. jobs \in [Slots -> ClipsRequests \cup {None}]
    BY <2>3, ClipsFetch, ClipsThen DEF FactoryPage!Ops, FactoryPage!Lists
  <2>5. \A q \in Slots : q # r => jobs[q] = job[q] BY DEF FactoryPage!Then, ClipsTypes
  <2>6. opened \in FactoryPage!Ids \cup {None} BY DEF ClipsTypes
  <2> HIDE DEF jobs, first
  <2>7. \A q \in Slots : q # r /\ job[q] # None => job'[q] = job[q]
    BY <2>1, <2>3, <2>4, <2>5, <2>6, ClipsSelect
  <2>8. "init" \notin FactoryPage!Kinds BY DEF FactoryPage!Kinds
  <2> QED BY <2>1, <2>7, <2>8, ClipsControlsGoOn
<1>11. ASSUME NEW r \in Slots, FactoryPage!InitRest(r) PROVE FactoryPage!ControlsComeBack'
  BY <1>11, ClipsControlsGoOn
    DEF FactoryPage!InitRest, FactoryPage!Arrives, FactoryPage!Then, FactoryPage!Kinds, ClipsTypes
<1>12. ASSUME NEW r \in Slots, FactoryPage!RefreshSources(r) PROVE FactoryPage!ControlsComeBack'
  <2> DEFINE jobs == FactoryPage!Rest(r, "sources")
            first == FactoryPage!First(job[r].get["sources"])
  <2>1. /\ job[r] # None /\ job[r].op = "all" /\ busy' = busy
        /\ "sources" \in DOMAIN job[r].get /\ job[r].get["sources"] # None
    BY <1>12 DEF FactoryPage!RefreshSources, FactoryPage!Arrives
  <2>2. jobs \in [Slots -> ClipsRequests \cup {None}] /\ \A q \in Slots : q # r => jobs[q] = job[q]
    BY <2>1, ClipsAnswers, ClipsRest DEF ClipsTypes
  <2>3. first \in Sources \cup {None} BY <2>1, ClipsAnswers, FirstSelects DEF ListOf
  <2>4. opened \in FactoryPage!Ids \cup {None} BY DEF ClipsTypes
  <2>5. job' = jobs \/ FactoryPage!Select(first, jobs, opened)
    BY <1>12 DEF FactoryPage!RefreshSources, FactoryPage!Data
  <2> HIDE DEF jobs, first
  <2>6. \A q \in Slots : q # r /\ job[q] # None => job'[q] = job[q]
    BY <2>2, <2>3, <2>4, <2>5, ClipsSelect
  <2>7. "all" \notin FactoryPage!Kinds BY DEF FactoryPage!Kinds
  <2> QED BY <2>1, <2>6, <2>7, ClipsControlsGoOn
<1>13. ASSUME NEW r \in Slots, FactoryPage!ScheduledArrives(r) PROVE FactoryPage!ControlsComeBack'
  <2>1. /\ job[r] # None /\ job[r].op # "init" /\ "scheduled" \in DOMAIN job[r].get
        /\ job' = FactoryPage!Rest(r, "scheduled") /\ FactoryPage!Finally(r)
    BY <1>13 DEF FactoryPage!ScheduledArrives, FactoryPage!Arrives
  <2>2. \A q \in Slots : q # r => job'[q] = job[q]
    BY <2>1, ClipsAnswers, ClipsRest DEF ClipsTypes
  <2> QED BY <2>1, <2>2, ClipsControlsEnd
<1>14. ASSUME NEW r \in Slots, FactoryPage!RefreshCandidates(r) PROVE FactoryPage!ControlsComeBack'
  <2>1. /\ job[r] # None /\ job[r].op # "init" /\ "candidates" \in DOMAIN job[r].get
        /\ job' = FactoryPage!Rest(r, "candidates") /\ busy' = busy
    BY <1>14 DEF FactoryPage!RefreshCandidates, FactoryPage!Arrives
  <2>2. \A q \in Slots : q # r => job'[q] = job[q]
    BY <2>1, ClipsAnswers, ClipsRest DEF ClipsTypes
  <2>3. job[r].op \notin FactoryPage!Kinds
    <3>1. ~job[r].sent /\ job[r] \in ClipsRequests BY <2>1, ClipsAnswers
    <3> QED BY <2>1, <3>1, ClipsFields DEF ClipsShape, FactoryPage!Kinds
  <2> QED BY <2>1, <2>2, <2>3, ClipsControlsGoOn
<1> QED
  BY <1>1, <1>2, <1>3, <1>4, <1>5, <1>6, <1>7, <1>8, <1>9, <1>10, <1>11, <1>12, <1>13, <1>14
    DEF FactoryPage!Next, FactoryPage!Answer, FactoryPage!OnAnalyzed, FactoryPage!OnTick,
        FactoryPage!OnScheduled

-----------------------------------------------------------------------------
(* The page of the articles: its requests and controls *)

\* A request that waits for the server reads no list; one that reads lists asks nothing else.
ArticlesShape(j) ==
    LET W == DOMAIN j.get IN
    /\ j.sent => W = {} /\ j.op \in ArticlePage!Kinds \cup {"drop", "schedule"}
    /\ ~j.sent =>
         /\ ~j.served /\ W # {}
         /\ \/ j.op = "init" /\ (W = {"sources"} \/ W = {"candidates", "scheduled"})
            \/ j.op = "all" /\ W \subseteq {"sources", "scheduled"}
            \/ j.op \in {"all", "load"} /\ W = {"candidates"} /\ j.sel # None
            \/ j.op \in {"remove", "list"} /\ W = {"scheduled"}
    /\ j.op = "remove" /\ j.sent => j.id \in j.list /\ j.again \subseteq j.list
    /\ j.id \in ArticlePage!About(j.op)
    /\ \A w \in W : j.get[w] \in ListOf(w) \cup {None}
ArticlesRequests == {j \in ArticlePage!Requests : ArticlesShape(j)}

\* The types of the page, as the proofs need them; posts are of articles.
ArticlesTypes ==
    /\ srcs \in SUBSET Sources /\ cands \in SUBSET FactoryPage!Ids /\ queue \in SUBSET cands
    /\ \A i \in cands : i[1] \in srcs
    /\ made \in {0} \cup Sources
    /\ sources \in SUBSET Sources /\ twice \in SUBSET sources /\ early \in SUBSET Sources
    /\ candidates \in SUBSET FactoryPage!Ids
    /\ scheduled \in SUBSET FactoryPage!Ids /\ selected \in Sources \cup {None}
    /\ deleting \in [FactoryPage!Ids -> Slots \cup {None}]
    /\ busy \in [ArticlePage!Kinds -> Sources \cup {"tick", None}]
    /\ \A k \in ArticlePage!Kinds : busy[k] \in ArticlePage!About(k) \cup {None}
    /\ job \in [Slots -> ArticlesRequests \cup {None}]
    /\ acts \in 0..MaxActs /\ faults \in 0..MaxFaults /\ outdated \in BOOLEAN

-----------------------------------------------------------------------------
(* Proofs: the requests of the page of the articles *)

\* The pages number their candidates and name their lists alike.
LEMMA SameIds == ArticlePage!Ids = FactoryPage!Ids /\ ArticlePage!Lists = FactoryPage!Lists
BY DEF ArticlePage!Ids, FactoryPage!Ids, ArticlePage!Lists, FactoryPage!Lists

\* What a request is about goes by its operation.
LEMMA ArticleAboutOps ==
  /\ \A op \in {"analyze", "create", "remove"} : ArticlePage!About(op) = Sources
  /\ \A op \in {"drop", "schedule"} : ArticlePage!About(op) = FactoryPage!Ids
  /\ ArticlePage!About("tick") = {"tick"}
  /\ \A op \in {"init", "all", "load", "list"} : ArticlePage!About(op) = {None}
<1>1. \A op \in {"analyze", "create", "remove"} : ArticlePage!About(op) = Sources
  BY Zenon DEF ArticlePage!About
<1>2. ASSUME NEW op \in {"drop", "schedule"} PROVE ArticlePage!About(op) = ArticlePage!Ids
  <2>1. op \notin {"analyze", "create", "remove"} OBVIOUS
  <2> QED BY <2>1, Zenon DEF ArticlePage!About
<1>3. ArticlePage!About("tick") = {"tick"}
  <2>1. "tick" \notin {"analyze", "create", "remove"} /\ "tick" \notin {"drop", "schedule"}
    OBVIOUS
  <2> QED BY <2>1, Zenon DEF ArticlePage!About
<1>4. ASSUME NEW op \in {"init", "all", "load", "list"} PROVE ArticlePage!About(op) = {None}
  <2>1. /\ op \notin {"analyze", "create", "remove"} /\ op \notin {"drop", "schedule"}
        /\ op # "tick"
    OBVIOUS
  <2> QED BY <2>1, Zenon DEF ArticlePage!About
<1> QED BY <1>1, <1>2, <1>3, <1>4, SameIds

\* So it is one of these.
LEMMA ArticleAboutWhat ==
  \A op \in ArticlePage!Ops :
    ArticlePage!About(op) \subseteq Sources \cup FactoryPage!Ids \cup {"tick", None}
BY ArticleAboutOps DEF ArticlePage!Ops, ArticlePage!Kinds

\* A request that reads lists is well formed.
LEMMA ArticlesFetch ==
  ASSUME NEW op \in ArticlePage!Ops, NEW W \in SUBSET FactoryPage!Lists,
         NEW sel \in Sources \cup {None}, W # {},
         \/ op = "init" /\ (W = {"sources"} \/ W = {"candidates", "scheduled"})
         \/ op = "all" /\ W \subseteq {"sources", "scheduled"}
         \/ op \in {"all", "load"} /\ W = {"candidates"} /\ sel # None
         \/ op = "list" /\ W = {"scheduled"}
  PROVE  ArticlePage!Fetch(op, W, sel) \in ArticlesRequests
<1> DEFINE j == ArticlePage!Fetch(op, W, sel)
<1>1. j \in ArticlePage!Requests
  BY NothingRead, SameIds DEF ArticlePage!Fetch, ArticlePage!Requests, Values
<1>2. None \in ArticlePage!About(op) BY ArticleAboutOps
<1>3. ArticlesShape(j) BY <1>2 DEF ArticlePage!Fetch, ArticlesShape, ListOf
<1> QED BY <1>1, <1>3 DEF ArticlesRequests

\* So are those that read the schedule after an article was removed, and otherwise.
LEMMA ArticlesRefetch ==
  /\ \A id \in Sources : [ArticlePage!RefreshScheduled EXCEPT !.id = id] \in ArticlesRequests
  /\ [ArticlePage!RefreshScheduled EXCEPT !.op = "list"] \in ArticlesRequests
<1>1. PICK f : f = ArticlePage!RefreshScheduled OBVIOUS
<1>2. f = [op |-> "remove", sent |-> FALSE, served |-> FALSE, id |-> None, sel |-> None,
           list |-> {}, again |-> {}, get |-> [w \in {"scheduled"} |-> None]]
  BY <1>1 DEF ArticlePage!RefreshScheduled, ArticlePage!Fetch
<1>3. f \in ArticlePage!Requests
  BY <1>2, NothingRead, SameIds
    DEF ArticlePage!Requests, ArticlePage!Ops, ArticlePage!Kinds, FactoryPage!Lists, Values
<1>4. ASSUME NEW id \in Sources
      PROVE  [ArticlePage!RefreshScheduled EXCEPT !.id = id] \in ArticlesRequests
  <2> DEFINE j == [f EXCEPT !.id = id]
  <2>1. j \in ArticlePage!Requests BY <1>3 DEF ArticlePage!Requests
  <2>2. id \in ArticlePage!About("remove") BY ArticleAboutOps
  <2>3. ArticlesShape(j) BY <1>2, <1>3, <2>2 DEF ArticlesShape, ListOf, ArticlePage!Requests
  <2> QED BY <1>1, <2>1, <2>3 DEF ArticlesRequests
<1>5. [ArticlePage!RefreshScheduled EXCEPT !.op = "list"] \in ArticlesRequests
  <2> DEFINE j == [f EXCEPT !.op = "list"]
  <2>1. "list" \in ArticlePage!Ops BY DEF ArticlePage!Ops
  <2>2. j \in ArticlePage!Requests BY <1>3, <2>1 DEF ArticlePage!Requests
  <2>3. None \in ArticlePage!About("list") BY ArticleAboutOps
  <2>4. ArticlesShape(j) BY <1>2, <1>3, <2>3 DEF ArticlesShape, ListOf, ArticlePage!Requests
  <2> QED BY <1>1, <2>2, <2>4 DEF ArticlesRequests
<1> QED BY <1>4, <1>5

\* So is what the user asks for.
LEMMA ArticlesPost ==
  ASSUME ArticlesTypes, NEW op \in ArticlePage!Kinds \cup {"drop", "schedule"},
         NEW id \in ArticlePage!About(op), op = "remove" => id \in sources
  PROVE  ArticlePage!Post(op, id) \in ArticlesRequests
<1> DEFINE j == ArticlePage!Post(op, id)
<1>1. id \in Sources \cup FactoryPage!Ids \cup {"tick", None}
  BY ArticleAboutWhat DEF ArticlePage!Ops
<1>2. j \in ArticlePage!Requests
  <2>1. op \in ArticlePage!Ops BY DEF ArticlePage!Ops
  <2>2. [w \in {} |-> None] \in UNION {[V -> Values] : V \in SUBSET ArticlePage!Lists}
    BY NothingRead, SameIds
  <2>3. /\ sources \in SUBSET Sources /\ twice \in SUBSET Sources
        /\ selected \in Sources \cup {None}
    BY DEF ArticlesTypes
  <2> QED BY <1>1, <2>1, <2>2, <2>3, SameIds DEF ArticlePage!Post, ArticlePage!Requests, Values
<1>3. ArticlesShape(j) BY DEF ArticlePage!Post, ArticlesShape, ArticlesTypes
<1> QED BY <1>2, <1>3 DEF ArticlesRequests

\* What a request that was made has in its fields.
LEMMA ArticlesFields ==
  ASSUME NEW j \in ArticlesRequests
  PROVE  /\ j # None /\ ArticlesShape(j) /\ j \in ArticlePage!Requests
         /\ j.op \in ArticlePage!Ops /\ j.sent \in BOOLEAN /\ j.served \in BOOLEAN
         /\ j.id \in ArticlePage!About(j.op) /\ j.sel \in Sources \cup {None}
         /\ j.list \in SUBSET Sources /\ j.again \in SUBSET Sources
         /\ DOMAIN j.get \subseteq FactoryPage!Lists
         /\ j.get \in [DOMAIN j.get -> Values]
<1>1. j \in ArticlePage!Requests /\ ArticlesShape(j) BY DEF ArticlesRequests
<1>2. j.get \in UNION {[V -> Values] : V \in SUBSET FactoryPage!Lists}
  BY <1>1, SameIds DEF ArticlePage!Requests, Values
<1> QED BY <1>1, <1>2, NoneIsNot DEF ArticlePage!Requests, ArticlesShape

\* A request stays well formed when it is served.
LEMMA ArticlesServed ==
  ASSUME NEW j \in ArticlesRequests, j.sent, ~j.served
  PROVE  [j EXCEPT !.served = TRUE] \in ArticlesRequests
<1>1. TRUE \in BOOLEAN OBVIOUS
<1>2. [j EXCEPT !.served = TRUE] \in ArticlePage!Requests
  <2>1. j \in ArticlePage!Requests BY ArticlesFields
  <2> QED BY <1>1, <2>1 DEF ArticlePage!Requests
<1>3. ArticlesShape([j EXCEPT !.served = TRUE])
  <2>1. PICK x : x = [j EXCEPT !.served = TRUE] OBVIOUS
  <2>2. /\ x.op = j.op /\ x.sent = j.sent /\ x.served /\ x.id = j.id /\ x.sel = j.sel
        /\ x.list = j.list /\ x.again = j.again /\ x.get = j.get
    BY <2>1, ArticlesFields DEF ArticlePage!Requests
  <2>3. ArticlesShape(j) BY ArticlesFields
  <2> QED BY <2>1, <2>2, <2>3 DEF ArticlesShape
<1> QED BY <1>2, <1>3 DEF ArticlesRequests

\* So it does when a list is read, and when one of its lists has arrived and others have not.
LEMMA ArticlesGets ==
  ASSUME NEW j \in ArticlesRequests, NEW W \in SUBSET DOMAIN j.get, ~j.sent, W # {},
         NEW g \in [W -> Values], \A w \in W : g[w] \in ListOf(w) \cup {None},
         j.op = "init" => W = DOMAIN j.get
  PROVE  [j EXCEPT !.get = g] \in ArticlesRequests
<1>1. W \in SUBSET FactoryPage!Lists BY ArticlesFields
<1>2. g \in UNION {[V -> Values] : V \in SUBSET FactoryPage!Lists}
  BY <1>1
<1>3. [j EXCEPT !.get = g] \in ArticlePage!Requests
  BY <1>2, ArticlesFields, SameIds DEF ArticlePage!Requests, Values
<1>4. DOMAIN g = W OBVIOUS
<1>5. ArticlesShape([j EXCEPT !.get = g])
  BY <1>4, ArticlesFields DEF ArticlesShape, ArticlePage!Requests
<1> QED BY <1>3, <1>5 DEF ArticlesRequests

\* What a request becomes when one of its lists has arrived: it waits for the others, goes on
\* with the candidates, or is done.
ArticleRestIs(r, what, x) ==
    LET rest == DOMAIN job[r].get \ {what}
        goesOn == job[r].op = "all" /\ what # "candidates" /\ job[r].sel # None
    IN
    /\ rest # {} => /\ x # None /\ x.op = job[r].op /\ x.sel = job[r].sel /\ x.id = job[r].id
                    /\ ~x.sent /\ ~x.served /\ DOMAIN x.get = rest
    /\ rest = {} => x = IF goesOn THEN ArticlePage!Fetch("all", {"candidates"}, job[r].sel) ELSE None

\* Arriving lists do this to well formed requests.
LEMMA ArticlesRest ==
  ASSUME ArticlesTypes, NEW r \in Slots, job[r] # None, ~job[r].sent,
         NEW what \in DOMAIN job[r].get, job[r].op # "init"
  PROVE  \E x \in ArticlesRequests \cup {None} :
           ArticlePage!Rest(r, what) = [job EXCEPT ![r] = x] /\ ArticleRestIs(r, what, x)
<1> DEFINE rest == DOMAIN job[r].get \ {what}
          goesOn == job[r].op = "all" /\ what # "candidates" /\ job[r].sel # None
<1>1. job[r] \in ArticlesRequests BY DEF ArticlesTypes
<1>2. CASE rest # {}
  <2> DEFINE g == [w \in rest |-> job[r].get[w]]
            x == [job[r] EXCEPT !.get = g]
  <2>1. g \in [rest -> Values] BY <1>1, ArticlesFields
  <2>2. \A w \in rest : g[w] \in ListOf(w) \cup {None} BY <1>1, ArticlesFields DEF ArticlesShape
  <2>3. x \in ArticlesRequests BY <1>1, <1>2, <2>1, <2>2, ArticlesGets
  <2>4. job[r] \in ArticlePage!Requests BY <1>1, ArticlesFields
  <2>5. /\ x.op = job[r].op /\ x.sel = job[r].sel /\ x.id = job[r].id
        /\ x.sent = job[r].sent /\ x.served = job[r].served /\ x.get = g
    BY <2>4 DEF ArticlePage!Requests
  <2>6. ~job[r].served BY <1>1, ArticlesFields DEF ArticlesShape
  <2>7. ArticlePage!Rest(r, what) = [job EXCEPT ![r] = x]
    BY <1>2 DEF ArticlePage!Rest, ArticlePage!Then
  <2>8. ArticleRestIs(r, what, x) BY <1>1, <1>2, <2>3, <2>5, <2>6, ArticlesFields DEF ArticleRestIs
  <2> QED BY <2>3, <2>7, <2>8
<1>3. CASE rest = {} /\ goesOn
  <2> DEFINE x == ArticlePage!Fetch("all", {"candidates"}, job[r].sel)
  <2>1. x \in ArticlesRequests
    BY <1>1, <1>3, ArticlesFields, ArticlesFetch DEF ArticlePage!Ops, FactoryPage!Lists
  <2>2. ArticlePage!Rest(r, what) = [job EXCEPT ![r] = x]
    BY <1>3 DEF ArticlePage!Rest, ArticlePage!Then
  <2> QED BY <1>3, <2>1, <2>2 DEF ArticleRestIs
<1>4. CASE rest = {} /\ ~goesOn
  <2>1. ArticlePage!Rest(r, what) = [job EXCEPT ![r] = None]
    BY <1>4 DEF ArticlePage!Rest, ArticlePage!Then
  <2> QED BY <1>4, <2>1 DEF ArticleRestIs
<1> QED BY <1>2, <1>3, <1>4

\* What is selected: its posts are loaded by a request of their own.
LEMMA ArticlesSelect ==
  ASSUME ArticlesTypes, NEW jobs \in [Slots -> ArticlesRequests \cup {None}],
         NEW s \in Sources \cup {None}, ArticlePage!Select(s, jobs)
  PROVE  /\ selected' = s
         /\ job' \in [Slots -> ArticlesRequests \cup {None}]
         /\ \A q \in Slots : jobs[q] # None => job'[q] = jobs[q]
         /\ \A q \in Slots :
              job'[q] = jobs[q] \/ job'[q] = ArticlePage!Fetch("load", {"candidates"}, s)
         /\ s \in {selected, None} => job' = jobs
         /\ s \notin {selected, None} =>
              \E q \in Slots : jobs[q] = None /\ job'[q] = ArticlePage!Fetch("load", {"candidates"}, s)
<1>1. selected' = s BY DEF ArticlePage!Select
<1>2. CASE s \in {selected, None}
  <2>1. job' = jobs BY <1>2 DEF ArticlePage!Select
  <2> QED BY <1>1, <1>2, <2>1
<1>3. CASE s \notin {selected, None}
  <2> DEFINE x == ArticlePage!Fetch("load", {"candidates"}, s)
  <2>1. PICK f \in Slots : jobs[f] = None /\ job' = [jobs EXCEPT ![f] = x]
    BY <1>3 DEF ArticlePage!Select
  <2>2. x \in ArticlesRequests
    BY <1>3, ArticlesFetch DEF ArticlePage!Ops, FactoryPage!Lists
  <2> HIDE DEF x
  <2>3. job' \in [Slots -> ArticlesRequests \cup {None}] BY <2>1, <2>2
  <2>4. job'[f] = x /\ \A q \in Slots : q # f => job'[q] = jobs[q] BY <2>1
  <2> QED BY <1>1, <1>3, <2>1, <2>3, <2>4 DEF x
<1> QED BY <1>2, <1>3

\* A control that is enabled again.
LEMMA ArticlesFinally ==
  ASSUME ArticlesTypes, NEW r \in Slots, ArticlePage!Finally(r)
  PROVE  /\ busy' \in [ArticlePage!Kinds -> Sources \cup {"tick", None}]
         /\ \A k \in ArticlePage!Kinds : busy'[k] \in ArticlePage!About(k) \cup {None}
         /\ \A k \in ArticlePage!Kinds : busy'[k] = IF k = job[r].op THEN None ELSE busy[k]
<1>1. CASE job[r].op \in ArticlePage!Kinds
  <2>1. busy' = [busy EXCEPT ![job[r].op] = None] BY <1>1 DEF ArticlePage!Finally
  <2>2. busy' \in [ArticlePage!Kinds -> Sources \cup {"tick", None}]
    BY <2>1 DEF ArticlesTypes
  <2> QED BY <2>1, <2>2 DEF ArticlesTypes
<1>2. CASE job[r].op \notin ArticlePage!Kinds
  <2>1. busy' = busy BY <1>2 DEF ArticlePage!Finally
  <2> QED BY <1>2, <2>1 DEF ArticlesTypes
<1> QED BY <1>1, <1>2

-----------------------------------------------------------------------------
(* Proofs: the types of the page of the articles *)

\* The page opens with the request for the articles.
LEMMA ArticlesTypesBegin == ArticlePage!Init => ArticlesTypes
<1> SUFFICES ASSUME ArticlePage!Init PROVE ArticlesTypes OBVIOUS
<1> USE DEF ArticlePage!Init
<1>1. PICK r \in Slots :
        job = [s \in Slots |-> IF s = r THEN ArticlePage!Fetch("init", {"sources"}, None) ELSE None]
  OBVIOUS
<1>2. ArticlePage!Fetch("init", {"sources"}, None) \in ArticlesRequests
  BY ArticlesFetch DEF ArticlePage!Ops, FactoryPage!Lists
<1>3. job \in [Slots -> ArticlesRequests \cup {None}] BY <1>1, <1>2
<1>4. /\ busy \in [ArticlePage!Kinds -> Sources \cup {"tick", None}]
      /\ deleting \in [FactoryPage!Ids -> Slots \cup {None}]
  BY SameIds
<1>5. cands \in SUBSET FactoryPage!Ids /\ queue \in SUBSET cands /\ srcs \in SUBSET Sources
  BY SameIds
<1>6. acts \in 0..MaxActs /\ faults \in 0..MaxFaults BY BoundsAreNatural
<1>7. \A i \in cands : i[1] \in srcs OBVIOUS
<1>8. \A k \in ArticlePage!Kinds : busy[k] = None OBVIOUS
<1>9. /\ made \in {0} \cup Sources /\ selected = None /\ outdated \in BOOLEAN
      /\ sources = {} /\ twice = {} /\ early = {} /\ candidates = {} /\ scheduled = {}
  OBVIOUS
<1> HIDE DEF ArticlePage!Init
<1> QED BY <1>3, <1>4, <1>5, <1>6, <1>7, <1>8, <1>9 DEF ArticlesTypes

\* What the user asks for is a request about something the page shows.
Asks(op, id) ==
    /\ ArticlePage!Begin(op, id)
    /\ op = "remove" => id \in sources
    /\ op = "drop" => id \in candidates /\ deleting[id] = None
    /\ made' = made \/ (op = "create" /\ made' = id)

\* The user selects an article or asks for something.
LEMMA ArticlesAsk ==
  ASSUME ArticlesTypes, ArticlePage!User
  PROVE  \/ \E s \in Sources : ArticlePage!ClickSource(s)
         \/ \E op \in ArticlePage!Kinds \cup {"drop", "schedule"} :
              \E id \in ArticlePage!About(op) : Asks(op, id)
<1>1. ASSUME NEW s \in Sources, ArticlePage!SubmitSource(s) \/ ArticlePage!ClickAnalyze(s)
                                \/ ArticlePage!ClickRemove(s)
      PROVE  \E op \in {"create", "analyze", "remove"} : Asks(op, s)
  BY <1>1
    DEF ArticlePage!SubmitSource, ArticlePage!ClickAnalyze, ArticlePage!ClickRemove,
        ArticlePage!Idle, Asks
<1>2. ASSUME NEW i \in FactoryPage!Ids, ArticlePage!ClickDelete(i) \/ ArticlePage!ClickSchedule(i)
      PROVE  \E op \in {"drop", "schedule"} : Asks(op, i)
  BY <1>2
    DEF ArticlePage!ClickDelete, ArticlePage!ClickSchedule, ArticlePage!DeleteButton,
        ArticlePage!Cards, Asks
<1>3. ArticlePage!ClickTick => Asks("tick", "tick") BY DEF ArticlePage!ClickTick, Asks
<1> QED BY <1>1, <1>2, <1>3, ArticleAboutOps, SameIds DEF ArticlePage!User, ArticlePage!Kinds

\* A request that the user makes; a card remembers its own.
LEMMA ArticlesBegin ==
  ASSUME ArticlesTypes, NEW op \in ArticlePage!Kinds \cup {"drop", "schedule"},
         NEW id \in ArticlePage!About(op), Asks(op, id)
  PROVE  /\ ArticlesTypes'
         /\ \E r \in Slots :
              /\ job[r] = None /\ job' = [job EXCEPT ![r] = ArticlePage!Post(op, id)]
              /\ deleting' = IF op = "drop" THEN [deleting EXCEPT ![id] = r] ELSE deleting
         /\ busy' = IF op \in ArticlePage!Kinds THEN [busy EXCEPT ![op] = id] ELSE busy
         /\ UNCHANGED <<srcs, cands, queue, sources, twice, early, candidates, scheduled,
                        selected, faults, outdated>>
<1> USE DEF ArticlePage!Begin, Asks
<1>1. PICK r \in Slots :
        /\ job[r] = None /\ job' = [job EXCEPT ![r] = ArticlePage!Post(op, id)]
        /\ deleting' = IF op = "drop" THEN [deleting EXCEPT ![id] = r] ELSE deleting
  OBVIOUS
<1>2. ArticlePage!Post(op, id) \in ArticlesRequests BY ArticlesPost
<1>3. job' \in [Slots -> ArticlesRequests \cup {None}] BY <1>1, <1>2 DEF ArticlesTypes
<1>4. op \in ArticlePage!Kinds => id \in Sources \cup {"tick", None}
  BY ArticleAboutOps DEF ArticlePage!Kinds
<1>5. busy' = IF op \in ArticlePage!Kinds THEN [busy EXCEPT ![op] = id] ELSE busy OBVIOUS
<1>6. busy' \in [ArticlePage!Kinds -> Sources \cup {"tick", None}]
  BY <1>4, <1>5 DEF ArticlesTypes
<1>7. \A k \in ArticlePage!Kinds : busy'[k] \in ArticlePage!About(k) \cup {None}
  BY <1>5 DEF ArticlesTypes
<1>8. acts' \in 0..MaxActs BY BoundsAreNatural DEF ArticlePage!Act, ArticlesTypes
<1>9. UNCHANGED <<srcs, cands, queue, sources, twice, early, candidates, scheduled, selected,
                  faults, outdated>>
  BY DEF ArticlePage!lists, ArticlePage!listed
<1>10. deleting' \in [FactoryPage!Ids -> Slots \cup {None}] BY <1>1 DEF ArticlesTypes
<1>11. made' \in {0} \cup Sources
  <2>1. CASE made' = made BY <2>1 DEF ArticlesTypes
  <2>2. CASE op = "create" /\ made' = id BY <2>2, ArticleAboutOps
  <2> QED BY <2>1, <2>2
<1>12. ArticlesTypes' BY <1>3, <1>6, <1>7, <1>8, <1>9, <1>10, <1>11 DEF ArticlesTypes
<1> HIDE DEF Asks, ArticlePage!Begin
<1> QED BY <1>1, <1>5, <1>9, <1>12

\* What the server does with a request.
ArticleServes(r) ==
    \/ job[r].op = "create" /\ ArticlePage!CreateArticleSource(job[r].id)
    \/ job[r].op = "remove" /\ ArticlePage!DeleteArticleSource(job[r].id)
    \/ job[r].op = "drop" /\ ArticlePage!DeleteArticleCandidate(job[r].id)
    \/ job[r].op = "analyze" /\ ArticlePage!AnalyzeArticleSource(job[r].id)
    \/ job[r].op = "schedule" /\ ArticlePage!ScheduleArticleCandidate(job[r].id)
    \/ job[r].op = "tick" /\ ArticlePage!TickArticleScheduler

\* A request that is served becomes this one, and the server's tables keep their types.
LEMMA ArticlesServe ==
  ASSUME ArticlesTypes, NEW r \in Slots, ArticlePage!Serve(r)
  PROVE  /\ ArticlesTypes' /\ ArticleServes(r)
         /\ job[r] # None /\ job[r].sent /\ ~job[r].served
         /\ \E x \in ArticlesRequests :
              /\ job' = [job EXCEPT ![r] = x]
              /\ x.op = job[r].op /\ x.id = job[r].id /\ x.sel = job[r].sel /\ x.get = job[r].get
              /\ x.list = job[r].list /\ x.sent /\ x.served
         /\ UNCHANGED <<made, sources, twice, early, candidates, scheduled, selected, busy,
                        deleting, acts, faults, outdated>>
<1> USE DEF ArticlePage!Serve
<1>1. job[r] # None /\ job[r].sent /\ ~job[r].served /\ ArticleServes(r) BY DEF ArticleServes
<1>2. UNCHANGED <<made, sources, twice, early, candidates, scheduled, selected, busy, deleting,
                  acts, faults, outdated>>
  BY DEF ArticlePage!lists, ArticlePage!listed
<1>3. job[r] \in ArticlesRequests BY <1>1 DEF ArticlesTypes
<1> DEFINE x == [job[r] EXCEPT !.served = TRUE]
<1>4. job' = [job EXCEPT ![r] = x] BY <1>1
<1>5. x \in ArticlesRequests BY <1>1, <1>3, ArticlesServed
<1>6. /\ x.op = job[r].op /\ x.id = job[r].id /\ x.sel = job[r].sel /\ x.get = job[r].get
      /\ x.list = job[r].list /\ x.sent /\ x.served
  BY <1>1, <1>3, ArticlesFields DEF ArticlePage!Requests
<1>7. job' \in [Slots -> ArticlesRequests \cup {None}] BY <1>4, <1>5 DEF ArticlesTypes
<1>8. job[r].id \in ArticlePage!About(job[r].op) BY <1>3, ArticlesFields
<1>9. /\ srcs' \in SUBSET Sources /\ cands' \in SUBSET FactoryPage!Ids
      /\ queue' \in SUBSET cands' /\ \A i \in cands' : i[1] \in srcs'
  <2> USE DEF ArticlesTypes
  <2>1. CASE job[r].op = "create" /\ ArticlePage!CreateArticleSource(job[r].id)
    BY <1>8, <2>1, ArticleAboutOps DEF ArticlePage!CreateArticleSource
  <2>2. CASE job[r].op = "remove" /\ ArticlePage!DeleteArticleSource(job[r].id)
    BY <2>2 DEF ArticlePage!DeleteArticleSource
  <2>3. CASE job[r].op = "drop" /\ ArticlePage!DeleteArticleCandidate(job[r].id)
    BY <2>3 DEF ArticlePage!DeleteArticleCandidate
  <2>4. CASE job[r].op = "analyze" /\ ArticlePage!AnalyzeArticleSource(job[r].id)
    <3>1. job[r].id \in Sources BY <1>8, <2>4, ArticleAboutOps
    <3>2. PICK n \in 1..MaxRank :
            cands' = {i \in cands : i[1] # job[r].id} \cup ({job[r].id} \X (1..n))
      BY <2>4 DEF ArticlePage!AnalyzeArticleSource
    <3>3. 1..n \subseteq 1..MaxRank BY BoundsAreNatural
    <3>4. {job[r].id} \X (1..n) \subseteq FactoryPage!Ids BY <3>1, <3>3 DEF FactoryPage!Ids
    <3>5. srcs' = srcs /\ job[r].id \in srcs /\ queue' = {i \in queue : i[1] # job[r].id}
      BY <2>4 DEF ArticlePage!AnalyzeArticleSource
    <3> HIDE DEF ArticlePage!Serve
    <3> QED BY <3>2, <3>4, <3>5
  <2>5. CASE job[r].op = "schedule" /\ ArticlePage!ScheduleArticleCandidate(job[r].id)
    BY <2>5 DEF ArticlePage!ScheduleArticleCandidate
  <2>6. CASE job[r].op = "tick" /\ ArticlePage!TickArticleScheduler
    BY <2>6 DEF ArticlePage!TickArticleScheduler
  <2> QED BY <1>1, <2>1, <2>2, <2>3, <2>4, <2>5, <2>6 DEF ArticleServes
<1>10. ArticlesTypes' BY <1>2, <1>7, <1>9 DEF ArticlesTypes
<1> HIDE DEF ArticlePage!Serve, x
<1> QED BY <1>1, <1>2, <1>4, <1>5, <1>6, <1>10

\* A request that reads one of its lists.
LEMMA ArticlesRead ==
  ASSUME ArticlesTypes, NEW r \in Slots, NEW what \in FactoryPage!Lists, ArticlePage!Read(r, what)
  PROVE  /\ ArticlesTypes' /\ job[r] # None /\ ~job[r].sent
         /\ \E x \in ArticlesRequests :
              /\ job' = [job EXCEPT ![r] = x]
              /\ x.op = job[r].op /\ x.id = job[r].id /\ x.sel = job[r].sel /\ x.list = job[r].list
              /\ ~x.sent /\ ~x.served /\ DOMAIN x.get = DOMAIN job[r].get
         /\ UNCHANGED <<srcs, cands, queue, sources, twice, early, candidates, scheduled,
                        selected, busy, made, deleting, acts, faults, outdated>>
<1> USE DEF ArticlePage!Read
<1>1. UNCHANGED <<srcs, cands, queue, sources, twice, early, candidates, scheduled, selected,
                  busy, made, deleting, acts, faults, outdated>>
  BY DEF ArticlePage!server, ArticlePage!lists, ArticlePage!listed
<1>2. job[r] \in ArticlesRequests /\ what \in DOMAIN job[r].get BY DEF ArticlesTypes
<1>3. ~job[r].sent /\ ~job[r].served BY <1>2, ArticlesFields DEF ArticlesShape
<1> DEFINE v == ArticlePage!Stored(what, job[r].sel)
          g == [job[r].get EXCEPT ![what] = v]
          x == [job[r] EXCEPT !.get = g]
<1>4. v \in ListOf(what)
  <2>1. what = "sources" => v = srcs
    BY Zenon DEF ArticlePage!Stored, ArticlePage!FetchArticleSources
  <2>2. what = "scheduled" => v = queue
    <3>1. "scheduled" # "sources" OBVIOUS
    <3> QED BY <3>1, Zenon DEF ArticlePage!Stored, ArticlePage!FetchArticleScheduled
  <2>3. what = "candidates" => v = {i \in cands : job[r].sel = None \/ i[1] = job[r].sel}
    <3>1. "candidates" # "sources" /\ "candidates" # "scheduled" OBVIOUS
    <3> QED BY <3>1, Zenon DEF ArticlePage!Stored, ArticlePage!FetchArticleCandidates
  <2> HIDE DEF v
  <2> QED BY <2>1, <2>2, <2>3 DEF ListOf, ArticlesTypes, FactoryPage!Lists
<1> HIDE DEF v
<1>5. job[r].get \in [DOMAIN job[r].get -> Values] BY <1>2, ArticlesFields
<1>6. v \in Values BY <1>4 DEF ListOf, Values
<1>7. g \in [DOMAIN job[r].get -> Values] BY <1>5, <1>6
<1>8. \A w \in DOMAIN job[r].get : g[w] \in ListOf(w) \cup {None}
  BY <1>2, <1>4, <1>5, ArticlesFields DEF ArticlesShape
<1>9. x \in ArticlesRequests BY <1>2, <1>3, <1>7, <1>8, ArticlesGets
<1>10. job' = [job EXCEPT ![r] = x] BY DEF v
<1>11. /\ x.op = job[r].op /\ x.id = job[r].id /\ x.sel = job[r].sel /\ x.list = job[r].list
       /\ x.sent = job[r].sent /\ x.served = job[r].served /\ x.get = g
  BY <1>2, ArticlesFields DEF ArticlePage!Requests
<1>12. DOMAIN g = DOMAIN job[r].get OBVIOUS
<1>13. job' \in [Slots -> ArticlesRequests \cup {None}] BY <1>9, <1>10 DEF ArticlesTypes
<1>14. ArticlesTypes' BY <1>1, <1>13 DEF ArticlesTypes
<1> HIDE DEF x, g
<1> QED BY <1>1, <1>3, <1>9, <1>10, <1>11, <1>12, <1>14

\* Whatever is remembered of an answer, it is remembered or not.
LEMMA ArticlesUnless ==
  ASSUME NEW holds, ArticlePage!Unless(holds)
  PROVE  outdated' \in BOOLEAN /\ (~outdated' => ~outdated /\ holds)
BY Zenon DEF ArticlePage!Unless

\* The requests that were answered, and those whose lists arrive.
LEMMA ArticlesAnswers ==
  ASSUME ArticlesTypes, NEW r \in Slots, job[r] # None
  PROVE  /\ job[r] \in ArticlesRequests /\ job[r].id \in ArticlePage!About(job[r].op)
         /\ job[r].served => job[r].sent /\ job[r].get = [w \in {} |-> None]
         /\ DOMAIN job[r].get # {} => ~job[r].sent /\ ~job[r].served
         /\ job[r].sel \in Sources \cup {None} /\ job[r].list \in SUBSET Sources
         /\ \A w \in DOMAIN job[r].get : job[r].get[w] # None => job[r].get[w] \in ListOf(w)
<1>1. job[r] \in ArticlesRequests BY DEF ArticlesTypes
<1> QED BY <1>1, ArticlesFields DEF ArticlesShape

\* The page goes on with a request of its own.
LEMMA ArticlesThen ==
  ASSUME ArticlesTypes, NEW r \in Slots, NEW x \in ArticlesRequests \cup {None}
  PROVE  /\ ArticlePage!Then(r, x) \in [Slots -> ArticlesRequests \cup {None}]
         /\ ArticlePage!Then(r, x)[r] = x
         /\ \A q \in Slots : q # r => ArticlePage!Then(r, x)[q] = job[q]
BY DEF ArticlesTypes, ArticlePage!Then

\* A refresh of everything is a request.
LEMMA ArticlesRefreshAll ==
  ASSUME NEW sel \in Sources \cup {None}
  PROVE  ArticlePage!RefreshAll(sel) \in ArticlesRequests
BY ArticlesFetch DEF ArticlePage!RefreshAll, ArticlePage!Ops, FactoryPage!Lists

\* Cards that stay keep their flag.
LEMMA ArticlesShow ==
  ASSUME ArticlesTypes, NEW new \in SUBSET FactoryPage!Ids, ArticlePage!Show(new)
  PROVE  /\ candidates' = new /\ deleting' \in [FactoryPage!Ids -> Slots \cup {None}]
         /\ \A i \in FactoryPage!Ids : deleting'[i] = IF i \in new THEN deleting[i] ELSE None
BY SameIds DEF ArticlePage!Show, ArticlesTypes

\* What follows the removal of an article: a refresh of the schedule, and another selection if
\* the article was selected when its removal was asked for.
LEMMA ArticlesRemoved ==
  ASSUME ArticlesTypes, NEW r \in Slots, ArticlePage!HandleSourceDeleted(r)
  PROVE  LET s == job[r].id
             remaining == job[r].list \ {s}
             next == [ArticlePage!RefreshScheduled EXCEPT !.id = s]
             first == ArticlePage!First(remaining)
         IN
         /\ job[r] # None /\ job[r].op = "remove" /\ job[r].served /\ job[r] \in ArticlesRequests
         /\ s \in Sources /\ s \in job[r].list /\ remaining \in SUBSET Sources
         /\ next \in ArticlesRequests /\ next.op = "remove" /\ next.id = s
         /\ ~next.sent /\ ~next.served /\ DOMAIN next.get = {"scheduled"} /\ next.sel = None
         /\ first \in Sources \cup {None} /\ (remaining # {} => first \in remaining)
         /\ remaining = {} => first = None
         /\ sources' = remaining /\ twice' = job[r].again \ {s} /\ twice' \subseteq remaining
         /\ UNCHANGED <<srcs, cands, queue, made, scheduled, busy, acts, faults, early>>
         /\ ~outdated' => /\ ~outdated /\ s \notin srcs /\ job[r].list = sources
                          /\ job[r].sel = selected /\ job[r].again = twice
         /\ outdated' \in BOOLEAN
         /\ job[r].sel = s => /\ ArticlePage!Select(first, ArticlePage!Then(r, next))
                              /\ ArticlePage!Show(IF remaining = {} THEN {} ELSE candidates)
         /\ job[r].sel # s => /\ job' = ArticlePage!Then(r, next)
                              /\ UNCHANGED <<selected, candidates, deleting>>
<1> DEFINE s == job[r].id
          remaining == job[r].list \ {s}
          next == [ArticlePage!RefreshScheduled EXCEPT !.id = s]
          first == ArticlePage!First(remaining)
<1> USE DEF ArticlePage!HandleSourceDeleted
<1>1. /\ job[r] # None /\ job[r].op = "remove" /\ job[r].served /\ job[r] \in ArticlesRequests
      /\ s \in Sources /\ job[r].list \in SUBSET Sources /\ job[r].sent
  BY ArticlesAnswers, ArticleAboutOps DEF ArticlePage!Answered
<1>2. s \in job[r].list /\ remaining \in SUBSET Sources /\ job[r].again \ {s} \subseteq remaining
  BY <1>1, ArticlesFields DEF ArticlesShape
<1>3. next \in ArticlesRequests BY <1>1, ArticlesRefetch
<1>4. /\ next.op = "remove" /\ next.id = s /\ ~next.sent /\ ~next.served
      /\ DOMAIN next.get = {"scheduled"} /\ next.sel = None
  <2>1. PICK f : f = ArticlePage!RefreshScheduled OBVIOUS
  <2>2. f = [op |-> "remove", sent |-> FALSE, served |-> FALSE, id |-> None, sel |-> None,
             list |-> {}, again |-> {}, get |-> [w \in {"scheduled"} |-> None]]
    BY <2>1 DEF ArticlePage!RefreshScheduled, ArticlePage!Fetch
  <2>3. next = [f EXCEPT !.id = s] BY <2>1
  <2> QED BY <2>2, <2>3
<1>5. /\ first \in Sources \cup {None} /\ (remaining # {} => first \in remaining)
      /\ remaining = {} => first = None
  BY <1>2, FirstSelects
<1>6. /\ sources' = remaining /\ twice' = job[r].again \ {s} /\ twice' \subseteq remaining
      /\ UNCHANGED <<srcs, cands, queue, made, scheduled, busy, acts, faults, early>>
  BY <1>2 DEF ArticlePage!server
<1>7. /\ outdated' \in BOOLEAN
      /\ ~outdated' => /\ ~outdated /\ s \notin srcs /\ job[r].list = sources
                       /\ job[r].sel = selected /\ job[r].again = twice
  BY ArticlesUnless
<1>8. job[r].sel = s => /\ ArticlePage!Select(first, ArticlePage!Then(r, next))
                        /\ ArticlePage!Show(IF remaining = {} THEN {} ELSE candidates)
  OBVIOUS
<1>9. job[r].sel # s => /\ job' = ArticlePage!Then(r, next)
                        /\ UNCHANGED <<selected, candidates, deleting>>
  OBVIOUS
<1> HIDE DEF ArticlePage!HandleSourceDeleted, s, remaining, next, first
<1>10. job[r].id = s /\ job[r].list \ {job[r].id} = remaining
       /\ [ArticlePage!RefreshScheduled EXCEPT !.id = job[r].id] = next
       /\ ArticlePage!First(job[r].list \ {job[r].id}) = first
  BY DEF s, remaining, next, first
<1> QED BY <1>1, <1>2, <1>3, <1>4, <1>5, <1>6, <1>7, <1>8, <1>9, <1>10

\* Every answer to a post keeps the types.
LEMMA ArticlesPostsTyped ==
  ASSUME ArticlesTypes, NEW r \in Slots,
         \/ ArticlePage!HandleSourceCreated(r) \/ (ArticlePage!Refreshes(r) /\ job[r] # None)
         \/ ArticlePage!OnScheduled(r) \/ ArticlePage!HandleSourceDeleted(r)
         \/ ArticlePage!HandleCandidateDeleted(r) \/ ArticlePage!Fails(r)
  PROVE  ArticlesTypes'
<1> USE DEF ArticlePage!server, ArticlePage!lists, ArticlePage!listed
<1>1. CASE ArticlePage!HandleSourceCreated(r)
  <2> USE <1>1 DEF ArticlePage!HandleSourceCreated
  <2>1. job[r].id \in Sources BY ArticlesAnswers, ArticleAboutOps DEF ArticlePage!Answered
  <2>2. selected' = job[r].id /\ job' \in [Slots -> ArticlesRequests \cup {None}]
    BY <2>1, ArticlesThen, ArticlesSelect
  <2>3. ArticlePage!Finally(r) /\ outdated' \in BOOLEAN BY ArticlesUnless
  <2>4. candidates' = {} /\ deleting' \in [FactoryPage!Ids -> Slots \cup {None}]
    BY ArticlesShow
  <2>5. /\ UNCHANGED <<srcs, cands, queue, made, scheduled, acts, faults>>
        /\ sources' = sources \cup {job[r].id}
        /\ twice' = twice \cup ({job[r].id} \cap sources)
        /\ early' = early \cup ({job[r].id} \cap sources)
    OBVIOUS
  <2> HIDE DEF ArticlePage!HandleSourceCreated
  <2> QED BY <2>1, <2>2, <2>3, <2>4, <2>5, ArticlesFinally DEF ArticlesTypes
<1>2. CASE ArticlePage!Refreshes(r) /\ job[r] # None
  <2> USE <1>2 DEF ArticlePage!Refreshes
  <2>1. job' \in [Slots -> ArticlesRequests \cup {None}]
    BY ArticlesAnswers, ArticlesRefreshAll, ArticlesThen
  <2>2. ArticlePage!Finally(r) /\ outdated' \in BOOLEAN BY ArticlesUnless
  <2>3. UNCHANGED <<srcs, cands, queue, made, sources, twice, early, candidates, scheduled,
                    selected, deleting, acts, faults>>
    OBVIOUS
  <2> HIDE DEF ArticlePage!Refreshes
  <2> QED BY <2>1, <2>2, <2>3, ArticlesFinally DEF ArticlesTypes
<1>3. CASE ArticlePage!OnScheduled(r)
  <2> USE <1>3 DEF ArticlePage!OnScheduled
  <2>1. job' \in [Slots -> ArticlesRequests \cup {None}] BY ArticlesRefetch, ArticlesThen
  <2>2. UNCHANGED <<srcs, cands, queue, made, sources, twice, early, candidates, scheduled,
                    selected, busy, deleting, acts, faults, outdated>>
    OBVIOUS
  <2> QED BY <2>1, <2>2 DEF ArticlesTypes
<1>4. CASE ArticlePage!HandleSourceDeleted(r)
  <2> DEFINE s == job[r].id
            remaining == job[r].list \ {s}
            next == [ArticlePage!RefreshScheduled EXCEPT !.id = s]
            first == ArticlePage!First(remaining)
  <2>1. /\ next \in ArticlesRequests /\ first \in Sources \cup {None} /\ remaining \in SUBSET Sources
        /\ sources' = remaining /\ twice' \subseteq remaining /\ outdated' \in BOOLEAN
        /\ UNCHANGED <<srcs, cands, queue, made, scheduled, busy, acts, faults, early>>
    BY <1>4, ArticlesRemoved
  <2>2. ArticlePage!Then(r, next) \in [Slots -> ArticlesRequests \cup {None}]
    BY <2>1, ArticlesThen
  <2>3. ASSUME job[r].sel = s
        PROVE  /\ candidates' \in {{}, candidates} /\ selected' \in Sources \cup {None}
               /\ deleting' \in [FactoryPage!Ids -> Slots \cup {None}]
               /\ job' \in [Slots -> ArticlesRequests \cup {None}]
    <3>1. /\ ArticlePage!Select(first, ArticlePage!Then(r, next))
          /\ ArticlePage!Show(IF remaining = {} THEN {} ELSE candidates)
      BY <1>4, <2>3, ArticlesRemoved
    <3>2. (IF remaining = {} THEN {} ELSE candidates) \in SUBSET FactoryPage!Ids
      BY DEF ArticlesTypes
    <3>3. selected' = first /\ job' \in [Slots -> ArticlesRequests \cup {None}]
      <4> HIDE DEF first, next
      <4> QED BY <2>1, <2>2, <3>1, ArticlesSelect
    <3>4. /\ candidates' = (IF remaining = {} THEN {} ELSE candidates)
          /\ deleting' \in [FactoryPage!Ids -> Slots \cup {None}]
      BY <3>1, <3>2, ArticlesShow
    <3> QED BY <2>1, <3>3, <3>4
  <2>4. ASSUME job[r].sel # s
        PROVE  /\ UNCHANGED <<selected, candidates, deleting>>
               /\ job' = ArticlePage!Then(r, next)
    BY <1>4, <2>4, ArticlesRemoved
  <2>5. /\ candidates' \in {{}, candidates} /\ selected' \in Sources \cup {None}
        /\ deleting' \in [FactoryPage!Ids -> Slots \cup {None}]
        /\ job' \in [Slots -> ArticlesRequests \cup {None}]
    BY <2>2, <2>3, <2>4 DEF ArticlesTypes
  <2> HIDE DEF remaining, s, next, first
  <2> QED BY <2>1, <2>5 DEF ArticlesTypes
<1>5. CASE ArticlePage!HandleCandidateDeleted(r)
  <2> USE <1>5 DEF ArticlePage!HandleCandidateDeleted
  <2>1. job' \in [Slots -> ArticlesRequests \cup {None}] BY ArticlesRefetch, ArticlesThen
  <2>2. outdated' \in BOOLEAN BY ArticlesUnless
  <2>3. candidates \ {job[r].id} \in SUBSET FactoryPage!Ids BY DEF ArticlesTypes
  <2>4. /\ candidates' = candidates \ {job[r].id}
        /\ deleting' \in [FactoryPage!Ids -> Slots \cup {None}]
    BY <2>3, ArticlesShow
  <2>5. UNCHANGED <<srcs, cands, queue, made, sources, twice, early, scheduled, selected, busy,
                    acts, faults>>
    OBVIOUS
  <2> HIDE DEF ArticlePage!HandleCandidateDeleted
  <2> QED BY <2>1, <2>2, <2>3, <2>4, <2>5 DEF ArticlesTypes
<1>6. CASE ArticlePage!Fails(r)
  <2> USE <1>6 DEF ArticlePage!Fails
  <2>1. job' \in [Slots -> ArticlesRequests \cup {None}]
    BY ArticlesAnswers, ArticlesRefreshAll, ArticlesThen
  <2>2. ArticlePage!Finally(r) /\ outdated' \in BOOLEAN BY ArticlesUnless
  <2>3. UNCHANGED <<srcs, cands, queue, made, sources, twice, early, candidates, scheduled,
                    selected, acts>>
    OBVIOUS
  <2>4. faults' \in 0..MaxFaults BY BoundsAreNatural DEF ArticlesTypes
  <2>5. deleting' \in [FactoryPage!Ids -> Slots \cup {None}] BY SameIds DEF ArticlesTypes
  <2> HIDE DEF ArticlePage!Fails
  <2> QED BY <2>1, <2>2, <2>3, <2>4, <2>5, ArticlesFinally DEF ArticlesTypes
<1> QED BY <1>1, <1>2, <1>3, <1>4, <1>5, <1>6

\* So does every list that arrives.
LEMMA ArticlesListsTyped ==
  ASSUME ArticlesTypes, NEW r \in Slots,
         \/ ArticlePage!InitSources(r) \/ ArticlePage!InitRest(r) \/ ArticlePage!RefreshSources(r)
         \/ ArticlePage!ScheduledArrives(r) \/ ArticlePage!RefreshCandidates(r)
  PROVE  ArticlesTypes'
<1> USE DEF ArticlePage!server, ArticlePage!lists, ArticlePage!listed, ArticlePage!Arrives, ArticlePage!Data,
           ArticlePage!ShowSources
<1>1. CASE ArticlePage!InitSources(r)
  <2> USE <1>1 DEF ArticlePage!InitSources
  <2> DEFINE got == job[r].get["sources"]
            first == ArticlePage!First(got)
            next == ArticlePage!Fetch("init", {"candidates", "scheduled"}, first)
  <2>1. got \in SUBSET Sources BY ArticlesAnswers DEF ListOf
  <2>2. first \in Sources \cup {None} BY <2>1, FirstSelects
  <2>3. next \in ArticlesRequests BY <2>2, ArticlesFetch DEF ArticlePage!Ops, FactoryPage!Lists
  <2>4. ArticlePage!Select(first, ArticlePage!Then(r, next)) OBVIOUS
  <2>5. selected' \in Sources \cup {None} /\ job' \in [Slots -> ArticlesRequests \cup {None}]
    <3>1. ArticlePage!Then(r, next) \in [Slots -> ArticlesRequests \cup {None}]
      BY <2>3, ArticlesThen
    <3> HIDE DEF next, first, got, ArticlePage!InitSources
    <3> QED BY <2>2, <2>4, <3>1, ArticlesSelect
  <2>6. outdated' \in BOOLEAN BY ArticlesUnless DEF ArticlePage!Shown
  <2>7. /\ UNCHANGED <<srcs, cands, queue, made, candidates, scheduled, busy, deleting, acts,
                       faults>>
        /\ sources' = got /\ twice' = {} /\ early' = {}
    OBVIOUS
  <2> HIDE DEF ArticlePage!InitSources, got, first
  <2> QED BY <2>1, <2>5, <2>6, <2>7 DEF ArticlesTypes
<1>2. CASE ArticlePage!InitRest(r)
  <2> USE <1>2 DEF ArticlePage!InitRest
  <2>1. /\ job[r].get["candidates"] \in SUBSET FactoryPage!Ids
        /\ scheduled' \in SUBSET FactoryPage!Ids
    BY ArticlesAnswers DEF ListOf
  <2>2. /\ candidates' = job[r].get["candidates"]
        /\ deleting' \in [FactoryPage!Ids -> Slots \cup {None}]
    BY <2>1, ArticlesShow
  <2>3. job' \in [Slots -> ArticlesRequests \cup {None}] BY ArticlesThen
  <2>4. outdated' \in BOOLEAN BY ArticlesUnless
  <2>5. UNCHANGED <<srcs, cands, queue, made, sources, twice, early, selected, busy, acts,
                    faults>>
    OBVIOUS
  <2> HIDE DEF ArticlePage!InitRest
  <2> QED BY <2>1, <2>2, <2>3, <2>4, <2>5 DEF ArticlesTypes
<1>3. CASE ArticlePage!RefreshSources(r)
  <2> USE <1>3 DEF ArticlePage!RefreshSources
  <2>1. /\ job[r] # None /\ "sources" \in DOMAIN job[r].get
        /\ sources' \in SUBSET Sources /\ twice' = {} /\ early' = {}
    BY ArticlesAnswers DEF ListOf
  <2>2. ~job[r].sent BY <2>1, ArticlesAnswers
  <2>3. job' \in [Slots -> ArticlesRequests \cup {None}]
    BY <2>1, <2>2, ArticlesRest DEF ArticlesTypes
  <2>4. outdated' \in BOOLEAN BY ArticlesUnless DEF ArticlePage!Shown
  <2>5. UNCHANGED <<srcs, cands, queue, made, candidates, scheduled, selected, busy, deleting,
                    acts, faults>>
    OBVIOUS
  <2> HIDE DEF ArticlePage!RefreshSources
  <2> QED BY <2>1, <2>3, <2>4, <2>5 DEF ArticlesTypes
<1>4. CASE ArticlePage!ScheduledArrives(r)
  <2> USE <1>4 DEF ArticlePage!ScheduledArrives
  <2>1. /\ job[r] # None /\ "scheduled" \in DOMAIN job[r].get
        /\ scheduled' \in SUBSET FactoryPage!Ids /\ job[r].op # "init"
    BY ArticlesAnswers DEF ListOf
  <2>2. ~job[r].sent BY <2>1, ArticlesAnswers
  <2>3. job' \in [Slots -> ArticlesRequests \cup {None}]
    BY <2>1, <2>2, ArticlesRest DEF ArticlesTypes
  <2>4. ArticlePage!Finally(r) /\ outdated' \in BOOLEAN BY ArticlesUnless DEF ArticlePage!Shown
  <2>5. UNCHANGED <<srcs, cands, queue, made, sources, twice, early, candidates, selected,
                    deleting, acts, faults>>
    OBVIOUS
  <2> HIDE DEF ArticlePage!ScheduledArrives
  <2> QED BY <2>1, <2>3, <2>4, <2>5, ArticlesFinally DEF ArticlesTypes
<1>5. CASE ArticlePage!RefreshCandidates(r)
  <2> USE <1>5 DEF ArticlePage!RefreshCandidates
  <2>1. /\ job[r] # None /\ "candidates" \in DOMAIN job[r].get /\ job[r].op # "init"
        /\ job[r].get["candidates"] \in SUBSET FactoryPage!Ids
    BY ArticlesAnswers DEF ListOf
  <2>2. ~job[r].sent BY <2>1, ArticlesAnswers
  <2>3. job' \in [Slots -> ArticlesRequests \cup {None}]
    BY <2>1, <2>2, ArticlesRest DEF ArticlesTypes
  <2>4. outdated' \in BOOLEAN BY ArticlesUnless DEF ArticlePage!Shown
  <2>5. /\ candidates' = job[r].get["candidates"]
        /\ deleting' \in [FactoryPage!Ids -> Slots \cup {None}]
    BY <2>1, ArticlesShow
  <2>6. UNCHANGED <<srcs, cands, queue, made, sources, twice, early, scheduled, selected, busy,
                    acts, faults>>
    OBVIOUS
  <2> HIDE DEF ArticlePage!RefreshCandidates
  <2> QED BY <2>1, <2>3, <2>4, <2>5, <2>6 DEF ArticlesTypes
<1> QED BY <1>1, <1>2, <1>3, <1>4, <1>5

\* Another article is selected.
LEMMA ArticlesClick ==
  ASSUME ArticlesTypes, NEW s \in Sources, ArticlePage!ClickSource(s)
  PROVE  ArticlesTypes'
<1> USE DEF ArticlePage!ClickSource
<1>1. ArticlePage!Select(s, job) OBVIOUS
<1>2. selected' \in Sources \cup {None} /\ job' \in [Slots -> ArticlesRequests \cup {None}]
  BY <1>1, ArticlesSelect DEF ArticlesTypes
<1>3. acts' \in 0..MaxActs BY BoundsAreNatural DEF ArticlePage!Act, ArticlesTypes
<1>4. UNCHANGED <<srcs, cands, queue, made, sources, twice, early, candidates, scheduled, busy,
                  deleting, faults, outdated>>
  BY DEF ArticlePage!server, ArticlePage!lists, ArticlePage!listed
<1> HIDE DEF ArticlePage!ClickSource
<1> QED BY <1>2, <1>3, <1>4 DEF ArticlesTypes

\* Whatever happens to the page of the articles keeps its types.
LEMMA ArticlesTypesStep == ArticlesTypes /\ ArticlePage!Next => ArticlesTypes'
<1> SUFFICES ASSUME ArticlesTypes, ArticlePage!Next PROVE ArticlesTypes' OBVIOUS
<1>1. CASE ArticlePage!User BY <1>1, ArticlesAsk, ArticlesBegin, ArticlesClick
<1>2. ASSUME NEW r \in Slots, ArticlePage!Answer(r) PROVE ArticlesTypes'
  BY <1>2, ArticlesPostsTyped, ArticlesListsTyped
    DEF ArticlePage!Answer, ArticlePage!OnAnalyzed, ArticlePage!OnTick, ArticlePage!Answered
<1>3. ASSUME NEW r \in Slots, ArticlePage!Fails(r) PROVE ArticlesTypes'
  BY <1>3, ArticlesPostsTyped
<1> QED BY <1>1, <1>2, <1>3, SameIds, ArticlesServe, ArticlesRead DEF ArticlePage!Next

-----------------------------------------------------------------------------
(* Proofs: the controls of the page of the articles *)

\* Cards that stay wait for the requests they waited for, or for none.
CardsWait(r) ==
    \A i \in FactoryPage!Ids : deleting'[i] # None =>
        deleting'[i] = deleting[i] /\ i \in candidates' /\ (deleting[i] = r => job[r].op # "drop")

\* When a request ends, its control is enabled again, and no other request ends.
LEMMA ArticlesControlsEnd ==
  ASSUME ArticlesTypes, ArticlePage!ControlsComeBack, NEW r \in Slots, ArticlePage!Finally(r),
         \A q \in Slots : q # r /\ job[q] # None => job'[q] = job[q],
         CardsWait(r)
  PROVE  ArticlePage!ControlsComeBack'
<1>1. \A k \in ArticlePage!Kinds : busy'[k] = IF k = job[r].op THEN None ELSE busy[k]
  BY ArticlesFinally
<1>2. ASSUME NEW k \in ArticlePage!Kinds, busy'[k] # None
      PROVE  \E q \in Slots : job'[q] # None /\ job'[q].op = k /\ job'[q].id = busy'[k]
  BY <1>1, <1>2 DEF ArticlePage!ControlsComeBack
<1>3. ASSUME NEW i \in FactoryPage!Ids, deleting'[i] # None
      PROVE  /\ i \in candidates'
             /\ job'[deleting'[i]] # None /\ job'[deleting'[i]].op = "drop"
             /\ job'[deleting'[i]].id = i
  BY <1>3, SameIds DEF ArticlePage!ControlsComeBack, CardsWait, ArticlesTypes
<1> QED BY <1>2, <1>3, SameIds DEF ArticlePage!ControlsComeBack

\* A request that goes on keeps its control disabled.
LEMMA ArticlesControlsGoOn ==
  ASSUME ArticlesTypes, ArticlePage!ControlsComeBack, NEW r \in Slots, UNCHANGED busy,
         \A q \in Slots : q # r /\ job[q] # None => job'[q] = job[q],
         job[r] # None,
         job[r].op \in ArticlePage!Kinds \cup {"drop"} =>
           job'[r] # None /\ job'[r].op = job[r].op /\ job'[r].id = job[r].id,
         \A i \in FactoryPage!Ids : deleting'[i] # None =>
           deleting'[i] = deleting[i] /\ i \in candidates'
  PROVE  ArticlePage!ControlsComeBack'
<1>1. ASSUME NEW k \in ArticlePage!Kinds, busy'[k] # None
      PROVE  \E q \in Slots : job'[q] # None /\ job'[q].op = k /\ job'[q].id = busy'[k]
  BY <1>1 DEF ArticlePage!ControlsComeBack
<1>2. ASSUME NEW i \in FactoryPage!Ids, deleting'[i] # None
      PROVE  /\ i \in candidates'
             /\ job'[deleting'[i]] # None /\ job'[deleting'[i]].op = "drop"
             /\ job'[deleting'[i]].id = i
  BY <1>2, SameIds DEF ArticlePage!ControlsComeBack, ArticlesTypes
<1> QED BY <1>1, <1>2, SameIds DEF ArticlePage!ControlsComeBack

\* The cards after another list is shown.
LEMMA ArticlesCards ==
  ASSUME ArticlesTypes, NEW new \in SUBSET FactoryPage!Ids, ArticlePage!Show(new)
  PROVE  \A i \in FactoryPage!Ids : deleting'[i] # None =>
           deleting'[i] = deleting[i] /\ i \in candidates'
BY ArticlesShow

\* Those of a list that stays.
LEMMA ArticlesCardsStay ==
  ASSUME ArticlesTypes, ArticlePage!ControlsComeBack, UNCHANGED <<candidates, deleting>>
  PROVE  \A i \in FactoryPage!Ids : deleting'[i] # None =>
           deleting'[i] = deleting[i] /\ i \in candidates'
BY SameIds DEF ArticlePage!ControlsComeBack

\* Whatever the user asks for, controls that are disabled wait for a request.
LEMMA ArticlesControlsUser ==
  ASSUME ArticlesTypes, ArticlePage!ControlsComeBack, ArticlePage!User
  PROVE  ArticlePage!ControlsComeBack'
<1>1. ASSUME NEW s \in Sources, ArticlePage!ClickSource(s) PROVE ArticlePage!ControlsComeBack'
  <2>1. \A q \in Slots : job[q] # None => job'[q] = job[q]
    BY <1>1, ArticlesSelect DEF ArticlePage!ClickSource, ArticlesTypes
  <2>2. busy' = busy /\ deleting' = deleting /\ candidates' = candidates
    BY <1>1 DEF ArticlePage!ClickSource, ArticlePage!lists, ArticlePage!listed
  <2>3. ASSUME NEW i \in FactoryPage!Ids, deleting[i] # None PROVE deleting[i] \in Slots
    BY <2>3 DEF ArticlesTypes
  <2> QED BY <2>1, <2>2, <2>3, SameIds DEF ArticlePage!ControlsComeBack
<1>2. ASSUME NEW op \in ArticlePage!Kinds \cup {"drop", "schedule"},
             NEW id \in ArticlePage!About(op), Asks(op, id)
      PROVE  ArticlePage!ControlsComeBack'
  <2>1. PICK r \in Slots :
          /\ job[r] = None /\ job' = [job EXCEPT ![r] = ArticlePage!Post(op, id)]
          /\ deleting' = IF op = "drop" THEN [deleting EXCEPT ![id] = r] ELSE deleting
    BY <1>2, ArticlesBegin
  <2>2. /\ busy' = IF op \in ArticlePage!Kinds THEN [busy EXCEPT ![op] = id] ELSE busy
        /\ candidates' = candidates
    BY <1>2, ArticlesBegin
  <2>3. /\ job'[r] # None /\ job'[r].op = op /\ job'[r].id = id
        /\ \A q \in Slots : job[q] # None => job'[q] = job[q]
    <3>1. ArticlePage!Post(op, id) \in ArticlesRequests BY <1>2, ArticlesPost DEF Asks
    <3>2. job'[r] = ArticlePage!Post(op, id) BY <2>1 DEF ArticlesTypes
    <3>3. job'[r] # None BY <3>1, <3>2, ArticlesFields
    <3>4. job'[r].op = op /\ job'[r].id = id BY <3>2 DEF ArticlePage!Post
    <3> QED BY <2>1, <3>3, <3>4
  <2>4. ASSUME NEW k \in ArticlePage!Kinds, busy'[k] # None
        PROVE  \E q \in Slots : job'[q] # None /\ job'[q].op = k /\ job'[q].id = busy'[k]
    <3>1. CASE k = op BY <2>2, <2>3, <2>4, <3>1 DEF ArticlesTypes
    <3>2. CASE k # op
      <4>1. busy'[k] = busy[k] BY <2>2, <3>2 DEF ArticlesTypes
      <4> QED BY <2>3, <2>4, <4>1 DEF ArticlePage!ControlsComeBack
    <3> QED BY <3>1, <3>2
  <2>5. ASSUME NEW i \in FactoryPage!Ids, deleting'[i] # None
        PROVE  /\ i \in candidates'
               /\ job'[deleting'[i]] # None /\ job'[deleting'[i]].op = "drop"
               /\ job'[deleting'[i]].id = i
    <3>1. CASE op = "drop" /\ i = id
      <4>1. deleting'[i] = r BY <2>1, <3>1 DEF ArticlesTypes
      <4> QED BY <1>2, <2>2, <2>3, <3>1, <4>1 DEF Asks
    <3>2. CASE ~(op = "drop" /\ i = id)
      <4>1. deleting'[i] = deleting[i] BY <2>1, <3>2 DEF ArticlesTypes
      <4>2. deleting[i] \in Slots BY <2>5, <4>1 DEF ArticlesTypes
      <4> QED BY <2>2, <2>3, <2>5, <4>1, <4>2, SameIds DEF ArticlePage!ControlsComeBack
    <3> QED BY <3>1, <3>2
  <2> QED BY <2>4, <2>5, SameIds DEF ArticlePage!ControlsComeBack
<1> QED BY <1>1, <1>2, ArticlesAsk

\* Whatever happens to the page of the articles, a control is enabled again when its request
\* ends, and the flag of a card is of its own request.
LEMMA ArticlesControlsStep ==
  ArticlesTypes /\ ArticlePage!ControlsComeBack /\ ArticlePage!Next => ArticlePage!ControlsComeBack'
<1> SUFFICES ASSUME ArticlesTypes, ArticlePage!ControlsComeBack, ArticlePage!Next
             PROVE  ArticlePage!ControlsComeBack'
  OBVIOUS
<1> USE DEF ArticlePage!lists, ArticlePage!listed
<1>1. CASE ArticlePage!User BY <1>1, ArticlesControlsUser
<1>2. ASSUME NEW r \in Slots, ArticlePage!Serve(r) PROVE ArticlePage!ControlsComeBack'
  <2>1. PICK x \in ArticlesRequests : /\ job' = [job EXCEPT ![r] = x]
                                      /\ x.op = job[r].op /\ x.id = job[r].id
    BY <1>2, ArticlesServe
  <2>2. UNCHANGED <<busy, candidates, deleting>> /\ job[r] # None BY <1>2, ArticlesServe
  <2>3. job'[r] = x /\ x # None BY <2>1, ArticlesFields DEF ArticlesTypes
  <2> QED BY <2>1, <2>2, <2>3, ArticlesCardsStay, ArticlesControlsGoOn
<1>3. ASSUME NEW r \in Slots, NEW w \in FactoryPage!Lists, ArticlePage!Read(r, w)
      PROVE  ArticlePage!ControlsComeBack'
  <2>1. PICK x \in ArticlesRequests : /\ job' = [job EXCEPT ![r] = x]
                                      /\ x.op = job[r].op /\ x.id = job[r].id
    BY <1>3, ArticlesRead
  <2>2. UNCHANGED <<busy, candidates, deleting>> /\ job[r] # None BY <1>3, ArticlesRead
  <2>3. job'[r] = x /\ x # None BY <2>1, ArticlesFields DEF ArticlesTypes
  <2> QED BY <2>1, <2>2, <2>3, ArticlesCardsStay, ArticlesControlsGoOn
<1>4. ASSUME NEW r \in Slots, ArticlePage!Fails(r) PROVE ArticlePage!ControlsComeBack'
  <2>1. \A q \in Slots : q # r /\ job[q] # None => job'[q] = job[q]
    BY <1>4 DEF ArticlePage!Fails, ArticlePage!Then, ArticlesTypes
  <2>2. /\ deleting' = [i \in FactoryPage!Ids |-> IF deleting[i] = r THEN None ELSE deleting[i]]
        /\ candidates' = candidates /\ ArticlePage!Finally(r)
    BY <1>4, SameIds DEF ArticlePage!Fails
  <2>3. CardsWait(r) BY <2>2, SameIds DEF CardsWait, ArticlePage!ControlsComeBack
  <2> QED BY <2>1, <2>2, <2>3, ArticlesControlsEnd
<1>5. ASSUME NEW r \in Slots, ArticlePage!Refreshes(r), job[r].op # "drop"
      PROVE  ArticlePage!ControlsComeBack'
  <2>1. UNCHANGED <<candidates, deleting>> BY <1>5 DEF ArticlePage!Refreshes
  <2>2. CardsWait(r) BY <1>5, <2>1, ArticlesCardsStay DEF CardsWait
  <2> QED BY <1>5, <2>2, ArticlesThen, ArticlesControlsEnd
        DEF ArticlePage!Refreshes, ArticlePage!Then, ArticlesTypes
<1>6. ASSUME NEW r \in Slots, ArticlePage!HandleSourceCreated(r)
      PROVE  ArticlePage!ControlsComeBack'
  <2>1. job[r].id \in Sources /\ job[r].op = "create"
    BY <1>6, ArticlesAnswers, ArticleAboutOps
      DEF ArticlePage!HandleSourceCreated, ArticlePage!Answered
  <2>2. \A q \in Slots : q # r /\ job[q] # None => job'[q] = job[q]
    <3>1. ArticlePage!Select(job[r].id, ArticlePage!Then(r, None))
      BY <1>6 DEF ArticlePage!HandleSourceCreated
    <3> QED BY <2>1, <3>1, ArticlesThen, ArticlesSelect
  <2>3. CardsWait(r)
    BY <1>6, <2>1, ArticlesCards DEF ArticlePage!HandleSourceCreated, CardsWait
  <2> QED BY <1>6, <2>2, <2>3, ArticlesControlsEnd DEF ArticlePage!HandleSourceCreated
<1>7. ASSUME NEW r \in Slots, ArticlePage!OnScheduled(r) PROVE ArticlePage!ControlsComeBack'
  <2>1. /\ UNCHANGED <<busy, candidates, deleting>> /\ job[r] # None /\ job[r].op = "schedule"
        /\ \A q \in Slots : q # r => job'[q] = job[q]
    BY <1>7, ArticlesRefetch, ArticlesThen DEF ArticlePage!OnScheduled, ArticlePage!Answered
  <2>2. "schedule" \notin ArticlePage!Kinds \cup {"drop"} BY DEF ArticlePage!Kinds
  <2> QED BY <2>1, <2>2, ArticlesCardsStay, ArticlesControlsGoOn
<1>8. ASSUME NEW r \in Slots, ArticlePage!HandleSourceDeleted(r) PROVE ArticlePage!ControlsComeBack'
  <2> DEFINE s == job[r].id
            remaining == job[r].list \ {s}
            next == [ArticlePage!RefreshScheduled EXCEPT !.id = s]
            first == ArticlePage!First(remaining)
  <2>1. /\ job[r] # None /\ job[r].op = "remove" /\ UNCHANGED busy
        /\ next \in ArticlesRequests /\ next.op = "remove" /\ next.id = s
        /\ first \in Sources \cup {None}
    BY <1>8, ArticlesRemoved
  <2>2. /\ ArticlePage!Then(r, next) \in [Slots -> ArticlesRequests \cup {None}]
        /\ ArticlePage!Then(r, next)[r] = next /\ next # None
        /\ \A q \in Slots : q # r => ArticlePage!Then(r, next)[q] = job[q]
    <3> HIDE DEF next
    <3>1. next \in ArticlesRequests \cup {None} /\ next # None BY <2>1, ArticlesFields
    <3> QED BY <3>1, ArticlesThen
  <2>3. ASSUME job[r].sel = s
        PROVE  /\ \A q \in Slots : ArticlePage!Then(r, next)[q] # None =>
                    job'[q] = ArticlePage!Then(r, next)[q]
               /\ \A i \in FactoryPage!Ids : deleting'[i] # None =>
                    deleting'[i] = deleting[i] /\ i \in candidates'
    <3>1. /\ ArticlePage!Select(first, ArticlePage!Then(r, next))
          /\ ArticlePage!Show(IF remaining = {} THEN {} ELSE candidates)
      BY <1>8, <2>3, ArticlesRemoved
    <3>2. (IF remaining = {} THEN {} ELSE candidates) \in SUBSET FactoryPage!Ids
      BY DEF ArticlesTypes
    <3>3. \A q \in Slots : ArticlePage!Then(r, next)[q] # None =>
            job'[q] = ArticlePage!Then(r, next)[q]
      <4> HIDE DEF first, next
      <4> QED BY <2>1, <2>2, <3>1, ArticlesSelect
    <3> QED BY <3>1, <3>2, <3>3, ArticlesCards
  <2>4. ASSUME job[r].sel # s
        PROVE  /\ job' = ArticlePage!Then(r, next)
               /\ \A i \in FactoryPage!Ids : deleting'[i] # None =>
                    deleting'[i] = deleting[i] /\ i \in candidates'
    BY <1>8, <2>4, ArticlesRemoved, ArticlesCardsStay
  <2> HIDE DEF next, first, remaining
  <2>5. /\ \A q \in Slots : q # r /\ job[q] # None => job'[q] = job[q]
        /\ job'[r] = next
        /\ \A i \in FactoryPage!Ids : deleting'[i] # None =>
             deleting'[i] = deleting[i] /\ i \in candidates'
    BY <2>2, <2>3, <2>4
  <2> QED BY <2>1, <2>2, <2>5, ArticlesControlsGoOn
<1>9. ASSUME NEW r \in Slots, ArticlePage!HandleCandidateDeleted(r)
      PROVE  ArticlePage!ControlsComeBack'
  <2>1. job[r] # None /\ job[r].op = "drop" /\ UNCHANGED busy
    BY <1>9 DEF ArticlePage!HandleCandidateDeleted, ArticlePage!Answered
  <2>2. ArticlePage!Finally(r) BY <2>1 DEF ArticlePage!Finally, ArticlePage!Kinds
  <2>3. \A q \in Slots : q # r => job'[q] = job[q]
    BY <1>9, ArticlesRefetch, ArticlesThen DEF ArticlePage!HandleCandidateDeleted
  <2>4. candidates \ {job[r].id} \in SUBSET FactoryPage!Ids
        /\ ArticlePage!Show(candidates \ {job[r].id})
    BY <1>9 DEF ArticlePage!HandleCandidateDeleted, ArticlesTypes
  <2>5. \A i \in FactoryPage!Ids : deleting'[i] # None =>
          deleting'[i] = deleting[i] /\ i \in candidates' /\ i # job[r].id
    BY <2>4, ArticlesShow
  <2>6. CardsWait(r) BY <2>5, SameIds DEF CardsWait, ArticlePage!ControlsComeBack
  <2> QED BY <2>2, <2>3, <2>6, ArticlesControlsEnd
<1>10. ASSUME NEW r \in Slots, ArticlePage!InitSources(r) PROVE ArticlePage!ControlsComeBack'
  <2> DEFINE got == job[r].get["sources"]
            first == ArticlePage!First(got)
            next == ArticlePage!Fetch("init", {"candidates", "scheduled"}, first)
            jobs == ArticlePage!Then(r, next)
  <2>1. /\ job[r] # None /\ job[r].op = "init" /\ UNCHANGED <<busy, candidates, deleting>>
        /\ ArticlePage!Select(first, jobs) /\ "sources" \in DOMAIN job[r].get /\ got # None
    BY <1>10 DEF ArticlePage!InitSources, ArticlePage!Arrives, ArticlePage!Data
  <2>2. got \in SUBSET Sources BY <2>1, ArticlesAnswers DEF ListOf
  <2>3. first \in Sources \cup {None} BY <2>2, FirstSelects
  <2>4. jobs \in [Slots -> ArticlesRequests \cup {None}] /\ \A q \in Slots : q # r => jobs[q] = job[q]
    BY <2>3, ArticlesFetch, ArticlesThen DEF ArticlePage!Ops, FactoryPage!Lists
  <2> HIDE DEF jobs, first
  <2>5. \A q \in Slots : q # r /\ job[q] # None => job'[q] = job[q]
    BY <2>1, <2>3, <2>4, ArticlesSelect
  <2>6. "init" \notin ArticlePage!Kinds \cup {"drop"} BY DEF ArticlePage!Kinds
  <2> QED BY <2>1, <2>5, <2>6, ArticlesCardsStay, ArticlesControlsGoOn
<1>11. ASSUME NEW r \in Slots, ArticlePage!InitRest(r) PROVE ArticlePage!ControlsComeBack'
  <2>1. /\ job[r] # None /\ job[r].op = "init" /\ UNCHANGED busy
        /\ \A q \in Slots : q # r => job'[q] = job[q]
        /\ job[r].get["candidates"] \in SUBSET FactoryPage!Ids
        /\ ArticlePage!Show(job[r].get["candidates"])
    BY <1>11, ArticlesThen, ArticlesAnswers
      DEF ArticlePage!InitRest, ArticlePage!Arrives, ArticlePage!Data, ListOf
  <2>2. "init" \notin ArticlePage!Kinds \cup {"drop"} BY DEF ArticlePage!Kinds
  <2> QED BY <2>1, <2>2, ArticlesCards, ArticlesControlsGoOn
<1>12. ASSUME NEW r \in Slots, ArticlePage!RefreshSources(r) PROVE ArticlePage!ControlsComeBack'
  <2>1. /\ job[r] # None /\ job[r].op = "all" /\ UNCHANGED <<busy, candidates, deleting>>
        /\ "sources" \in DOMAIN job[r].get /\ job' = ArticlePage!Rest(r, "sources")
    BY <1>12 DEF ArticlePage!RefreshSources, ArticlePage!Arrives
  <2>2. \A q \in Slots : q # r => job'[q] = job[q]
    BY <2>1, ArticlesAnswers, ArticlesRest DEF ArticlesTypes
  <2>3. "all" \notin ArticlePage!Kinds \cup {"drop"} BY DEF ArticlePage!Kinds
  <2> QED BY <2>1, <2>2, <2>3, ArticlesCardsStay, ArticlesControlsGoOn
<1>13. ASSUME NEW r \in Slots, ArticlePage!ScheduledArrives(r) PROVE ArticlePage!ControlsComeBack'
  <2>1. /\ job[r] # None /\ job[r].op # "init" /\ "scheduled" \in DOMAIN job[r].get
        /\ job' = ArticlePage!Rest(r, "scheduled") /\ ArticlePage!Finally(r)
        /\ UNCHANGED <<candidates, deleting>>
    BY <1>13 DEF ArticlePage!ScheduledArrives, ArticlePage!Arrives
  <2>2. \A q \in Slots : q # r => job'[q] = job[q]
    BY <2>1, ArticlesAnswers, ArticlesRest DEF ArticlesTypes
  <2>3. job[r].op # "drop" BY <2>1, ArticlesAnswers, ArticlesFields DEF ArticlesShape
  <2>4. CardsWait(r) BY <2>1, <2>3, ArticlesCardsStay DEF CardsWait
  <2> QED BY <2>1, <2>2, <2>4, ArticlesControlsEnd
<1>14. ASSUME NEW r \in Slots, ArticlePage!RefreshCandidates(r) PROVE ArticlePage!ControlsComeBack'
  <2>1. /\ job[r] # None /\ job[r].op # "init" /\ "candidates" \in DOMAIN job[r].get
        /\ job' = ArticlePage!Rest(r, "candidates") /\ UNCHANGED busy
        /\ job[r].get["candidates"] # None /\ ArticlePage!Show(job[r].get["candidates"])
    BY <1>14 DEF ArticlePage!RefreshCandidates, ArticlePage!Arrives, ArticlePage!Data
  <2>2. \A q \in Slots : q # r => job'[q] = job[q]
    BY <2>1, ArticlesAnswers, ArticlesRest DEF ArticlesTypes
  <2>3. job[r].op \notin ArticlePage!Kinds \cup {"drop"}
    BY <2>1, ArticlesAnswers, ArticlesFields DEF ArticlesShape, ArticlePage!Kinds
  <2>4. job[r].get["candidates"] \in SUBSET FactoryPage!Ids
    BY <2>1, ArticlesAnswers DEF ListOf
  <2> QED BY <2>1, <2>2, <2>3, <2>4, ArticlesCards, ArticlesControlsGoOn
<1> QED
  BY <1>1, <1>2, <1>3, <1>4, <1>5, <1>6, <1>7, <1>8, <1>9, <1>10, <1>11, <1>12, <1>13, <1>14,
     SameIds
    DEF ArticlePage!Next, ArticlePage!Answer, ArticlePage!OnAnalyzed, ArticlePage!OnTick,
        ArticlePage!Answered

-----------------------------------------------------------------------------
(* The lists of the page of the clips *)

\* Requests after which the page reads all lists again.
ClipsReads == {"analyze", "tick", "schedule"}

\* A source the page lists and the server has not is being removed; one the page does not
\* list is being created, or the sources will be read.
ClipsSources ==
    /\ \A s \in sources \ srcs : ServedFor("remove", s)
    /\ \A s \in srcs \ sources :
         \/ ServedFor("create", s) \/ SomeGets("sources")
         \/ SomeServed(ClipsReads \cup {"moment"})

\* The schedule of the page is the queue, or will be read.
ClipsScheduled ==
    \/ scheduled = queue \/ SomeGets("scheduled") \/ SomeOpens
    \/ SomeServed(ClipsReads \cup {"moment", "remove", "drop"})

\* What is selected is there, or is being removed.
Selected == selected # None => selected \in srcs \/ ServedFor("remove", selected)

\* Without a selection there is no source, or a request will select one, or show that it was
\* made with another selection.
ClipsNoSelection ==
    selected = None =>
        /\ \/ srcs = {} \/ SomeGets("sources") \/ SomeServed(ClipsReads \cup {"moment", "create"})
           \/ SomeRefreshes(ClipsReads)
        /\ sources # {} => SomeRefreshes(ClipsReads)
        /\ candidates # {} \/ opened # None =>
             \/ srcs # {} \/ SomeServed({"moment", "remove"}) \/ SomeRefreshes(ClipsReads)

\* The candidates of the selection will be read.
ClipsWillRead ==
    SomeGets("candidates") \/ SomeOpens \/ SomeServed({"analyze"}) \/ SomeRefreshes(ClipsReads)

\* The candidates of the page are those of the selection, but for those that are being
\* removed or proposed, unless they will be read or the selection is being removed.
ClipsCandidates ==
    selected # None =>
        \/ ClipsWillRead \/ ServedFor("remove", selected)
        \/ /\ \A i \in candidates : i[1] = selected /\ (i \in cands \/ ServedFor("drop", i))
           /\ \A i \in cands : i[1] = selected => i \in candidates \/ Proposed(i)

\* The opened row is one of them.
ClipsOpened ==
    selected # None /\ opened # None =>
        \/ Reloads \/ SomeServed({"analyze"}) \/ SomeRefreshes(ClipsReads)
        \/ ServedFor("remove", selected)
        \/ opened[1] = selected /\ (ServedFor("drop", opened) \/ opened \in candidates \cap cands)

ClipsHeld ==
    /\ ClipsSources /\ ClipsScheduled /\ Selected /\ ClipsNoSelection
    /\ ClipsCandidates /\ ClipsOpened

-----------------------------------------------------------------------------
(* Proofs: what requests are lost, and made *)

\* Every request that will settle something is still there.
Kept ==
    /\ \A op, id : ServedFor(op, id) => ServedFor(op, id)'
    /\ \A Ops : SomeServed(Ops) => SomeServed(Ops)'
    /\ \A w : SomeGets(w) => SomeGets(w)'
    /\ SomeOpens => SomeOpens'
    /\ \A Ops : SomeRefreshes(Ops) => SomeRefreshes(Ops)'
    /\ Reloads => Reloads'
    /\ \A i : Proposed(i) => Proposed(i)'

\* All of them but the one that was served, and is answered.
KeptButServed(r) ==
    /\ \A op, id : ServedFor(op, id) => ServedFor(op, id)' \/ (op = job[r].op /\ id = job[r].id)
    /\ \A Ops : SomeServed(Ops) => SomeServed(Ops)' \/ job[r].op \in Ops
    /\ \A w : SomeGets(w) => SomeGets(w)'
    /\ SomeOpens => SomeOpens'
    /\ \A Ops : SomeRefreshes(Ops) =>
         SomeRefreshes(Ops)' \/ (job[r].op \in Ops /\ job[r].sel # None)
    /\ Reloads => Reloads'
    /\ \A i : Proposed(i) => Proposed(i)' \/ (job[r].op = "moment" /\ i \in job[r].list)

\* All of them but the one that read lists.
KeptButRead(r) ==
    /\ \A op, id : ServedFor(op, id) => ServedFor(op, id)'
    /\ \A Ops : SomeServed(Ops) => SomeServed(Ops)'
    /\ \A w : SomeGets(w) => SomeGets(w)' \/ w \in DOMAIN job[r].get
    /\ SomeOpens => SomeOpens' \/ job[r].op = "init"
    /\ \A Ops : SomeRefreshes(Ops) =>
         SomeRefreshes(Ops)' \/ (job[r].op = "all" /\ job[r].sel # None)
    /\ Reloads => Reloads' \/ ("candidates" \in DOMAIN job[r].get /\ job[r].op # "init")
    /\ \A i : Proposed(i) => Proposed(i)'

\* Nothing is lost when a request is made, served, or reads a list.
LEMMA NothingLost ==
  ASSUME NEW r \in Slots, \A q \in Slots : q # r /\ job[q] # None => job'[q] = job[q],
         \/ job[r] = None
         \/ /\ job'[r] # None /\ job'[r].op = job[r].op /\ job'[r].id = job[r].id
            /\ job'[r].sel = job[r].sel /\ DOMAIN job'[r].get = DOMAIN job[r].get
            /\ job[r].served => job'[r].sent = job[r].sent /\ job'[r].served
                                /\ job'[r].list = job[r].list
  PROVE  Kept
<1>1. \A op, id : ServedFor(op, id) => ServedFor(op, id)' BY DEF ServedFor, Served
<1>2. \A Ops : SomeServed(Ops) => SomeServed(Ops)' BY DEF SomeServed, Served
<1>3. \A w : SomeGets(w) => SomeGets(w)' BY DEF SomeGets, Gets
<1>4. SomeOpens => SomeOpens' BY DEF SomeOpens, Opens
<1>5. \A Ops : SomeRefreshes(Ops) => SomeRefreshes(Ops)' BY DEF SomeRefreshes, Refreshes, Served
<1>6. Reloads => Reloads' BY DEF Reloads, Gets, Opens
<1>7. \A i : Proposed(i) => Proposed(i)' BY DEF Proposed, Served
<1> QED BY <1>1, <1>2, <1>3, <1>4, <1>5, <1>6, <1>7 DEF Kept

\* A request that was sent does not read lists, and settles something once it is served.
LEMMA LostSent ==
  ASSUME NEW r \in Slots, \A q \in Slots : q # r /\ job[q] # None => job'[q] = job[q],
         job[r] # None, job[r].op \notin {"init", "all"}, DOMAIN job[r].get = {}
  PROVE  /\ KeptButServed(r)
         /\ ~job[r].served => Kept
<1>1. \A op, id : ServedFor(op, id) =>
        ServedFor(op, id)' \/ (job[r].served /\ op = job[r].op /\ id = job[r].id)
  BY DEF ServedFor, Served
<1>2. \A Ops : SomeServed(Ops) => SomeServed(Ops)' \/ (job[r].served /\ job[r].op \in Ops)
  BY DEF SomeServed, Served
<1>3. \A w : SomeGets(w) => SomeGets(w)' BY DEF SomeGets, Gets
<1>4. SomeOpens => SomeOpens' BY DEF SomeOpens, Opens
<1>5. \A Ops : SomeRefreshes(Ops) =>
        SomeRefreshes(Ops)' \/ (job[r].served /\ job[r].op \in Ops /\ job[r].sel # None)
  BY DEF SomeRefreshes, Refreshes, Served
<1>6. Reloads => Reloads' BY DEF Reloads, Gets, Opens
<1>7. \A i : Proposed(i) =>
        Proposed(i)' \/ (job[r].served /\ job[r].op = "moment" /\ i \in job[r].list)
  BY DEF Proposed, Served
<1>8. KeptButServed(r)
  BY <1>1, <1>2, <1>3, <1>4, <1>5, <1>6, <1>7 DEF KeptButServed
<1>9. ~job[r].served => Kept
  BY <1>1, <1>2, <1>3, <1>4, <1>5, <1>6, <1>7 DEF Kept
<1> QED BY <1>8, <1>9

\* A request that reads lists settles nothing else.
LEMMA LostRead ==
  ASSUME NEW r \in Slots, \A q \in Slots : q # r /\ job[q] # None => job'[q] = job[q],
         job[r] # None, ~job[r].sent
  PROVE  KeptButRead(r)
<1>1. \A op, id : ServedFor(op, id) => ServedFor(op, id)' BY DEF ServedFor, Served
<1>2. \A Ops : SomeServed(Ops) => SomeServed(Ops)' BY DEF SomeServed, Served
<1>3. \A w : SomeGets(w) => SomeGets(w)' \/ w \in DOMAIN job[r].get BY DEF SomeGets, Gets
<1>4. SomeOpens => SomeOpens' \/ job[r].op = "init" BY DEF SomeOpens, Opens
<1>5. \A Ops : SomeRefreshes(Ops) =>
        SomeRefreshes(Ops)' \/ (job[r].op = "all" /\ job[r].sel # None)
  BY DEF SomeRefreshes, Refreshes, Served
<1>6. Reloads => Reloads' \/ ("candidates" \in DOMAIN job[r].get /\ job[r].op # "init")
  BY DEF Reloads, Gets, Opens
<1>7. \A i : Proposed(i) => Proposed(i)' BY DEF Proposed, Served
<1> QED BY <1>1, <1>2, <1>3, <1>4, <1>5, <1>6, <1>7 DEF KeptButRead

\* What a request that was made will settle.
LEMMA Made ==
  ASSUME NEW q \in Slots, job'[q] # None
  PROVE  /\ \A w \in DOMAIN job'[q].get : SomeGets(w)'
         /\ job'[q].op = "init" => SomeOpens'
         /\ "candidates" \in DOMAIN job'[q].get /\ job'[q].op # "init" => Reloads'
         /\ job'[q].op = "all" /\ job'[q].sel # None => \A Ops : SomeRefreshes(Ops)'
<1>1. \A w \in DOMAIN job'[q].get : SomeGets(w)' BY DEF SomeGets, Gets
<1>2. job'[q].op = "init" => SomeOpens' BY DEF SomeOpens, Opens
<1>3. "candidates" \in DOMAIN job'[q].get /\ job'[q].op # "init" => Reloads'
  BY DEF Reloads, Gets, Opens
<1>4. job'[q].op = "all" /\ job'[q].sel # None => \A Ops : SomeRefreshes(Ops)'
  BY DEF SomeRefreshes, Refreshes
<1> QED BY <1>1, <1>2, <1>3, <1>4

\* What a request that is served settles.
LEMMA MadeServed ==
  ASSUME NEW q \in Slots, job'[q] # None, job'[q].sent, job'[q].served, NEW op, NEW id, NEW list,
         op = job'[q].op, id = job'[q].id, list = job'[q].list
  PROVE  /\ ServedFor(op, id)'
         /\ \A Ops : op \in Ops => SomeServed(Ops)'
         /\ op = "moment" => \A i \in list : Proposed(i)'
<1>1. ServedFor(op, id)' BY DEF ServedFor, Served
<1>2. \A Ops : op \in Ops => SomeServed(Ops)' BY DEF SomeServed, Served
<1>3. op = "moment" => \A i \in list : Proposed(i)' BY DEF Proposed, Served
<1> QED BY <1>1, <1>2, <1>3

-----------------------------------------------------------------------------
(* Proofs: the lists of the page of the clips, when something is asked for or served *)

\* Nothing changes but requests that settle what they did.
LEMMA ClipsHeldOn ==
  ASSUME ClipsHeld, Kept,
         UNCHANGED <<srcs, cands, queue, sources, candidates, scheduled, selected, opened>>
  PROVE  ClipsHeld'
<1> USE DEF ClipsHeld, Kept
<1>1. ClipsSources' BY DEF ClipsSources
<1>2. ClipsScheduled' BY DEF ClipsScheduled
<1>3. Selected' BY DEF Selected
<1>4. ClipsNoSelection' BY DEF ClipsNoSelection
<1>5. ClipsCandidates' BY DEF ClipsCandidates, ClipsWillRead
<1>6. ClipsOpened' BY DEF ClipsOpened
<1> QED BY <1>1, <1>2, <1>3, <1>4, <1>5, <1>6

\* What a request to the server changes, that request settles when it is answered.
LEMMA ClipsServeHeld ==
  ASSUME ClipsTypes, ClipsHeld, NEW r \in Slots, FactoryPage!Serve(r)
  PROVE  ClipsHeld'
<1>1. /\ Serves(r) /\ job[r] # None /\ job[r].sent /\ ~job[r].served /\ job[r] \in ClipsRequests
      /\ UNCHANGED <<sources, candidates, scheduled, selected, opened>>
  BY ClipsServe, ClipsAnswers
<1>2. PICK x \in ClipsRequests :
        /\ job' = [job EXCEPT ![r] = x]
        /\ x.op = job[r].op /\ x.id = job[r].id /\ x.sel = job[r].sel /\ x.get = job[r].get
        /\ x.sent /\ x.served
        /\ x.list = IF x.op = "moment" THEN FactoryPage!Takes(x.id) ELSE job[r].list
  BY ClipsServe
<1>3. job'[r] = x /\ x # None /\ \A q \in Slots : q # r => job'[q] = job[q]
  BY <1>2, ClipsFields DEF ClipsTypes
<1>4. Kept BY <1>1, <1>2, <1>3, NothingLost
<1>0. PICK op, s : op = job[r].op /\ s = job[r].id OBVIOUS
<1>5. /\ ServedFor(op, s)' /\ \A Ops : op \in Ops => SomeServed(Ops)'
      /\ op = "moment" => \A i \in FactoryPage!Takes(s) : Proposed(i)'
  BY <1>0, <1>2, <1>3, MadeServed
<1> USE <1>1, <1>4, <1>5 DEF ClipsHeld, Kept
<1>6. CASE op = "create" /\ FactoryPage!CreateSource(s)
  <2> USE <1>6 DEF FactoryPage!CreateSource
  <2>1. ClipsSources' BY DEF ClipsSources
  <2>2. ClipsScheduled' BY DEF ClipsScheduled
  <2>3. Selected' BY DEF Selected
  <2>4. ClipsNoSelection' BY DEF ClipsNoSelection
  <2>5. ClipsCandidates' BY DEF ClipsCandidates, ClipsWillRead
  <2>6. ClipsOpened' BY DEF ClipsOpened
  <2> QED BY <2>1, <2>2, <2>3, <2>4, <2>5, <2>6
<1>7. CASE op = "remove" /\ FactoryPage!DeleteSource(s)
  <2> USE <1>7 DEF FactoryPage!DeleteSource
  <2>1. ClipsSources' BY DEF ClipsSources
  <2>2. ClipsScheduled' BY DEF ClipsScheduled
  <2>3. Selected' BY DEF Selected
  <2>4. ClipsNoSelection' BY DEF ClipsNoSelection
  <2>5. ClipsCandidates' BY DEF ClipsCandidates, ClipsWillRead
  <2>6. ClipsOpened' BY DEF ClipsOpened
  <2> QED BY <2>1, <2>2, <2>3, <2>4, <2>5, <2>6
<1>8. CASE op = "drop" /\ FactoryPage!DeleteCandidate(s)
  <2> USE <1>8 DEF FactoryPage!DeleteCandidate
  <2>1. ClipsSources' BY DEF ClipsSources
  <2>2. ClipsScheduled' BY DEF ClipsScheduled
  <2>3. Selected' BY DEF Selected
  <2>4. ClipsNoSelection' BY DEF ClipsNoSelection
  <2>5. ClipsCandidates' BY DEF ClipsCandidates, ClipsWillRead
  <2>6. ClipsOpened' BY DEF ClipsOpened
  <2> QED BY <2>1, <2>2, <2>3, <2>4, <2>5, <2>6
<1>9. CASE op = "analyze" /\ FactoryPage!AnalyzeSource(s)
  <2>0. srcs' = srcs /\ SomeServed({"analyze"})'
        /\ SomeServed(ClipsReads \cup {"moment", "remove", "drop"})'
    BY <1>9 DEF FactoryPage!AnalyzeSource, ClipsReads
  <2>1. ClipsSources' BY <2>0 DEF ClipsSources
  <2>2. ClipsScheduled' BY <2>0 DEF ClipsScheduled
  <2>3. Selected' BY <2>0 DEF Selected
  <2>4. ClipsNoSelection' BY <2>0 DEF ClipsNoSelection
  <2>5. ClipsCandidates' BY <2>0 DEF ClipsCandidates, ClipsWillRead
  <2>6. ClipsOpened' BY <2>0 DEF ClipsOpened
  <2> QED BY <2>1, <2>2, <2>3, <2>4, <2>5, <2>6
<1>10. CASE op = "moment" /\ FactoryPage!AnalyzeMoment(s)
  <2> USE <1>10 DEF FactoryPage!AnalyzeMoment
  <2>1. ClipsSources' BY DEF ClipsSources
  <2>2. ClipsScheduled' BY DEF ClipsScheduled
  <2>3. Selected' BY DEF Selected
  <2>4. ClipsNoSelection' BY DEF ClipsNoSelection
  <2>5. ClipsCandidates' BY DEF ClipsCandidates, ClipsWillRead
  <2>6. ClipsOpened' BY DEF ClipsOpened
  <2> QED BY <2>1, <2>2, <2>3, <2>4, <2>5, <2>6
<1>11. CASE op = "schedule" /\ FactoryPage!ScheduleCandidate(s)
  <2>0. srcs' = srcs /\ cands' = cands /\ SomeServed(ClipsReads \cup {"moment", "remove", "drop"})'
    BY <1>11 DEF FactoryPage!ScheduleCandidate, ClipsReads
  <2>1. ClipsSources' BY <2>0 DEF ClipsSources
  <2>2. ClipsScheduled' BY <2>0 DEF ClipsScheduled
  <2>3. Selected' BY <2>0 DEF Selected
  <2>4. ClipsNoSelection' BY <2>0 DEF ClipsNoSelection
  <2>5. ClipsCandidates' BY <2>0 DEF ClipsCandidates, ClipsWillRead
  <2>6. ClipsOpened' BY <2>0 DEF ClipsOpened
  <2> QED BY <2>1, <2>2, <2>3, <2>4, <2>5, <2>6
<1>12. CASE op = "tick" /\ FactoryPage!TickScheduler
  <2>1. UNCHANGED <<srcs, cands, queue>>
    BY <1>12 DEF FactoryPage!TickScheduler, FactoryPage!server
  <2> QED BY <2>1, ClipsHeldOn
<1> QED BY <1>0, <1>6, <1>7, <1>8, <1>9, <1>10, <1>11, <1>12 DEF Serves

\* What the user opens and selects is there, or is being removed.
LEMMA ClipsUserHeld ==
  ASSUME ClipsTypes, ClipsHeld, FactoryPage!User
  PROVE  ClipsHeld'
<1>1. ASSUME NEW s \in Sources, FactoryPage!ClickSource(s) PROVE ClipsHeld'
  <2>1. /\ s \in sources /\ s # selected /\ FactoryPage!Select(s, job, None)
        /\ UNCHANGED <<srcs, cands, queue, sources, candidates, scheduled>>
    BY <1>1 DEF FactoryPage!ClickSource, FactoryPage!server, FactoryPage!lists, FactoryPage!listed
  <2>2. /\ selected' = s /\ s # None /\ opened' = None
        /\ \A q \in Slots : job[q] # None => job'[q] = job[q]
        /\ \E q \in Slots : job[q] = None /\ job'[q] = FactoryPage!Fetch("load", {"candidates"}, s)
    BY <2>1, NoneIsNot, ClipsSelect DEF ClipsTypes
  <2>3. PICK q \in Slots :
          job[q] = None /\ job'[q] = FactoryPage!Fetch("load", {"candidates"}, s)
    BY <2>2
  <2>4. Kept BY <2>2, <2>3, NothingLost
  <2>5. job'[q] # None
    BY <2>3, ClipsFetch, ClipsFields, <2>2 DEF FactoryPage!Ops, FactoryPage!Lists
  <2>6. SomeGets("candidates")' BY <2>3, <2>5, Made DEF FactoryPage!Fetch
  <2> USE <2>1, <2>2, <2>4, <2>6 DEF ClipsHeld, Kept
  <2>7. ClipsSources' BY DEF ClipsSources
  <2>8. ClipsScheduled' BY DEF ClipsScheduled
  <2>9. Selected' BY DEF Selected, ClipsSources
  <2>10. ClipsNoSelection' BY DEF ClipsNoSelection
  <2>11. ClipsCandidates' BY DEF ClipsCandidates, ClipsWillRead
  <2>12. ClipsOpened' BY DEF ClipsOpened
  <2> QED BY <2>7, <2>8, <2>9, <2>10, <2>11, <2>12
<1>2. ASSUME NEW i \in FactoryPage!Ids, FactoryPage!ClickRow(i) PROVE ClipsHeld'
  <2>1. /\ i \in candidates /\ opened' = i /\ UNCHANGED job
        /\ UNCHANGED <<srcs, cands, queue, sources, candidates, scheduled, selected>>
    BY <1>2 DEF FactoryPage!ClickRow, FactoryPage!Rows, FactoryPage!server, FactoryPage!lists, FactoryPage!listed
  <2>2. ~SomeOpens
    BY <1>2 DEF FactoryPage!ClickRow, FactoryPage!Rows, FactoryPage!Loading, SomeOpens, Opens
  <2>3. SomeGets("candidates") => Reloads BY <2>2 DEF SomeGets, Gets, Reloads, SomeOpens
  <2>4. Kept
    BY <2>1 DEF Kept, ServedFor, SomeServed, Served, SomeGets, Gets, SomeOpens, Opens,
                SomeRefreshes, Refreshes, Reloads, Proposed
  <2> USE <2>1, <2>2, <2>3, <2>4 DEF ClipsHeld, Kept
  <2>5. ClipsSources' BY DEF ClipsSources
  <2>6. ClipsScheduled' BY DEF ClipsScheduled
  <2>7. Selected' BY DEF Selected
  <2>8. ClipsNoSelection' BY DEF ClipsNoSelection
  <2>9. ClipsCandidates' BY DEF ClipsCandidates, ClipsWillRead
  <2>10. ClipsOpened' BY DEF ClipsOpened, ClipsCandidates, ClipsWillRead
  <2> QED BY <2>5, <2>6, <2>7, <2>8, <2>9, <2>10
<1>3. CASE FactoryPage!ClickView
  <2>1. UNCHANGED <<srcs, cands, queue, sources, candidates, scheduled, selected, opened, job>>
    BY <1>3 DEF FactoryPage!ClickView, FactoryPage!server, FactoryPage!lists, FactoryPage!listed
  <2>2. Kept
    BY <2>1 DEF Kept, ServedFor, SomeServed, Served, SomeGets, Gets, SomeOpens, Opens,
                SomeRefreshes, Refreshes, Reloads, Proposed
  <2> QED BY <2>1, <2>2, ClipsHeldOn
<1>4. ASSUME NEW op \in FactoryPage!Kinds \cup {"schedule"}, NEW id \in FactoryPage!About(op),
             FactoryPage!Begin(op, id), op = "remove" => id \in sources
      PROVE  ClipsHeld'
  <2>1. PICK r \in Slots : job[r] = None /\ job' = [job EXCEPT ![r] = FactoryPage!Post(op, id)]
    BY <1>4, ClipsBegin
  <2>2. \A q \in Slots : q # r => job'[q] = job[q] BY <2>1 DEF ClipsTypes
  <2>3. Kept BY <2>1, <2>2, NothingLost
  <2>4. UNCHANGED <<srcs, cands, queue, sources, candidates, scheduled, selected, opened>>
    BY <1>4 DEF FactoryPage!Begin, FactoryPage!server, FactoryPage!lists, FactoryPage!listed
  <2> QED BY <2>3, <2>4, ClipsHeldOn
<1> QED BY <1>1, <1>2, <1>3, <1>4, ClipsAsk

\* Reading a list changes nothing.
LEMMA ClipsReadHeld ==
  ASSUME ClipsTypes, ClipsHeld, NEW r \in Slots, NEW what \in FactoryPage!Lists,
         FactoryPage!Read(r, what)
  PROVE  ClipsHeld'
<1>1. PICK x \in ClipsRequests :
        /\ job' = [job EXCEPT ![r] = x]
        /\ x.op = job[r].op /\ x.id = job[r].id /\ x.sel = job[r].sel /\ x.list = job[r].list
        /\ ~x.sent /\ ~x.served /\ DOMAIN x.get = DOMAIN job[r].get
  BY ClipsRead
<1>2. job'[r] = x /\ x # None /\ \A q \in Slots : q # r => job'[q] = job[q]
  BY <1>1, ClipsFields DEF ClipsTypes
<1>3. job[r] # None /\ ~job[r].served BY ClipsRead, ClipsAnswers
<1>4. Kept BY <1>1, <1>2, <1>3, NothingLost
<1>5. UNCHANGED <<srcs, cands, queue, sources, candidates, scheduled, selected, opened>>
  BY ClipsRead
<1> QED BY <1>4, <1>5, ClipsHeldOn

-----------------------------------------------------------------------------
(* Proofs: the lists of the page of the clips, when a request is answered *)

\* The answer to what the user asked for.
LEMMA ClipsAnswered ==
  ASSUME ClipsTypes, NEW r \in Slots, job[r] # None, job[r].sent,
         \A q \in Slots : q # r /\ job[q] # None => job'[q] = job[q]
  PROVE  KeptButServed(r) /\ (~job[r].served => Kept)
<1>1. job[r] \in ClipsRequests BY ClipsAnswers
<1>2. job[r].op \notin {"init", "all"} /\ DOMAIN job[r].get = {}
  BY <1>1, ClipsFields DEF ClipsShape, FactoryPage!Kinds
<1> QED BY <1>2, LostSent

\* A source that was created is listed, selected, and has no candidates.
LEMMA ClipsCreatedHeld ==
  ASSUME ClipsTypes, ClipsHeld, NEW r \in Slots, FactoryPage!HandleSourceCreated(r), ~outdated'
  PROVE  ClipsHeld'
<1>0. PICK s : s = job[r].id OBVIOUS
<1>1. /\ job[r] # None /\ job[r].op = "create" /\ job[r].sent
      /\ sources' = sources \cup {s} /\ candidates' = {} /\ scheduled' = scheduled
      /\ FactoryPage!Select(s, FactoryPage!Then(r, None), None)
      /\ UNCHANGED <<srcs, cands, queue>>
  BY <1>0, ClipsAnswers
    DEF FactoryPage!HandleSourceCreated, FactoryPage!Answered, FactoryPage!server
<1>2. s \in srcs /\ \A i \in cands : i[1] # s
  <2>1. FactoryPage!Unless(s \in srcs /\ FactoryPage!FetchCandidates(s) = {})
    BY <1>0 DEF FactoryPage!HandleSourceCreated
  <2>2. s \in srcs /\ FactoryPage!FetchCandidates(s) = {} BY <2>1, ClipsUnless
  <2> QED BY <2>2 DEF FactoryPage!FetchCandidates
<1>3. s \in Sources /\ s # None BY <1>2, NoneIsNot DEF ClipsTypes
<1> DEFINE jobs == FactoryPage!Then(r, None)
<1>4. /\ jobs \in [Slots -> ClipsRequests \cup {None}]
      /\ jobs[r] = None /\ \A q \in Slots : q # r => jobs[q] = job[q]
  BY ClipsThen DEF FactoryPage!Then, ClipsTypes
<1> HIDE DEF jobs
<1>5. /\ selected' = s /\ opened' = None
      /\ \A q \in Slots : jobs[q] # None => job'[q] = jobs[q]
      /\ s # selected => \E q \in Slots : job'[q] = FactoryPage!Fetch("load", {"candidates"}, s)
  BY <1>1, <1>3, <1>4, ClipsSelect DEF jobs
<1>6. KeptButServed(r) BY <1>1, <1>4, <1>5, ClipsAnswered
<1>7. s # selected => SomeGets("candidates")'
  <2> SUFFICES ASSUME s # selected PROVE SomeGets("candidates")' OBVIOUS
  <2>1. PICK q \in Slots : job'[q] = FactoryPage!Fetch("load", {"candidates"}, s) BY <1>5
  <2>2. job'[q] # None
    BY <1>3, <2>1, ClipsFetch, ClipsFields DEF FactoryPage!Ops, FactoryPage!Lists
  <2> QED BY <2>1, <2>2, Made DEF FactoryPage!Fetch
<1> USE <1>0, <1>1, <1>2, <1>3, <1>5, <1>6, <1>7 DEF ClipsHeld, KeptButServed
<1>8. ClipsSources' BY DEF ClipsSources, ClipsReads
<1>9. ClipsScheduled' BY DEF ClipsScheduled, ClipsReads
<1>10. Selected' BY DEF Selected
<1>11. ClipsNoSelection' BY DEF ClipsNoSelection
<1>12. ClipsCandidates' BY DEF ClipsCandidates, ClipsWillRead
<1>13. ClipsOpened' BY DEF ClipsOpened
<1> QED BY <1>8, <1>9, <1>10, <1>11, <1>12, <1>13

\* A refresh takes the place of the request it follows, if something was selected.
LEMMA ClipsRefreshHeld ==
  ASSUME ClipsTypes, ClipsHeld, NEW r \in Slots, job[r] # None, job[r].sent,
         job[r].op \in ClipsReads, job[r].op = "analyze" => job[r].sel # None,
         job' = FactoryPage!Then(r, FactoryPage!RefreshAll(job[r].sel)),
         UNCHANGED <<srcs, cands, queue, sources, candidates, scheduled, selected, opened>>
  PROVE  ClipsHeld'
<1>1. PICK sel : sel = job[r].sel OBVIOUS
<1>2. job[r].sel \in Sources \cup {None} BY ClipsAnswers
<1>3. /\ job'[r] = FactoryPage!RefreshAll(sel) /\ job'[r] # None
      /\ \A q \in Slots : q # r => job'[q] = job[q]
  BY <1>1, <1>2, ClipsRefreshAll, ClipsFields DEF FactoryPage!Then, ClipsTypes
<1>4. KeptButServed(r) BY <1>3, ClipsAnswered
<1>5. job'[r].op = "all" /\ job'[r].sel = sel /\ DOMAIN job'[r].get = {"sources", "scheduled"}
  <2>1. PICK x : x = FactoryPage!RefreshAll(sel) OBVIOUS
  <2>2. x.op = "all" /\ x.sel = sel /\ DOMAIN x.get = {"sources", "scheduled"}
    BY <2>1 DEF FactoryPage!RefreshAll, FactoryPage!Fetch
  <2> QED BY <1>3, <2>1, <2>2
<1>6. SomeGets("sources")' /\ SomeGets("scheduled")'
  BY <1>3, <1>5, Made
<1>7. sel # None => \A Ops : SomeRefreshes(Ops)' BY <1>3, <1>5, Made
<1> USE <1>1, <1>4, <1>6, <1>7 DEF ClipsHeld, KeptButServed
<1>8. ClipsSources' BY DEF ClipsSources, ClipsReads
<1>9. ClipsScheduled' BY DEF ClipsScheduled
<1>10. Selected' BY DEF Selected, ClipsReads
<1>11. ClipsNoSelection' BY DEF ClipsNoSelection, ClipsReads
<1>12. ClipsCandidates' BY DEF ClipsCandidates, ClipsWillRead, ClipsReads
<1>13. ClipsOpened' BY DEF ClipsOpened, ClipsReads
<1> QED BY <1>8, <1>9, <1>10, <1>11, <1>12, <1>13

\* The candidates that a moment proposed are there, and its source is selected.
LEMMA ClipsMomentHeld ==
  ASSUME ClipsTypes, ClipsHeld, NEW r \in Slots, FactoryPage!OnMoment(r), ~outdated'
  PROVE  ClipsHeld'
<1>0. PICK s, new : s = job[r].id /\ new = job[r].list OBVIOUS
<1> DEFINE jobs == FactoryPage!Then(r, FactoryPage!RefreshAll(job[r].sel))
<1>1. /\ job[r] # None /\ job[r].op = "moment" /\ job[r].served /\ job[r] \in ClipsRequests
      /\ s \in Sources /\ s # None /\ new \in SUBSET FactoryPage!Ids
      /\ job[r].sel \in Sources \cup {None} /\ job[r].sent
      /\ jobs \in [Slots -> ClipsRequests \cup {None}]
  BY <1>0, ClipsMoment, ClipsAnswers, NoneIsNot
<1>2. /\ candidates' = candidates \cup new
      /\ UNCHANGED <<srcs, cands, queue, sources, scheduled>>
  BY <1>0 DEF FactoryPage!OnMoment, FactoryPage!server, FactoryPage!listed
<1>3. s \in srcs /\ new \subseteq cands
  <2>1. FactoryPage!Unless(s \in srcs /\ new \subseteq cands) BY <1>0 DEF FactoryPage!OnMoment
  <2> QED BY <2>1, ClipsUnless
<1>4. \A i \in new : i[1] = s BY <1>0, <1>1, ClipsFields DEF ClipsShape
<1>5. PICK open \in FactoryPage!Ids \cup {None} :
        (open = opened \/ open \in new) /\ FactoryPage!Select(s, jobs, open)
  BY <1>0, ClipsMoment
<1>6. /\ jobs[r] = FactoryPage!RefreshAll(job[r].sel) /\ jobs[r] # None
      /\ \A q \in Slots : q # r => jobs[q] = job[q]
  BY <1>1, ClipsRefreshAll, ClipsFields DEF FactoryPage!Then, ClipsTypes
<1> HIDE DEF jobs
<1>7. /\ selected' = s /\ opened' = IF s = selected THEN open ELSE None
      /\ \A q \in Slots : jobs[q] # None => job'[q] = jobs[q]
      /\ s # selected => \E q \in Slots : job'[q] = FactoryPage!Fetch("load", {"candidates"}, s)
  BY <1>1, <1>5, ClipsSelect
<1>8. KeptButServed(r) BY <1>1, <1>6, <1>7, ClipsAnswered
<1>9. SomeGets("sources")' /\ SomeGets("scheduled")'
  <2>1. job'[r] = FactoryPage!RefreshAll(job[r].sel) /\ job'[r] # None BY <1>6, <1>7
  <2>2. DOMAIN job'[r].get = {"sources", "scheduled"}
    BY <2>1 DEF FactoryPage!RefreshAll, FactoryPage!Fetch
  <2> QED BY <2>1, <2>2, Made
<1>10. s # selected => SomeGets("candidates")'
  <2> SUFFICES ASSUME s # selected PROVE SomeGets("candidates")' OBVIOUS
  <2>1. PICK q \in Slots : job'[q] = FactoryPage!Fetch("load", {"candidates"}, s) BY <1>7
  <2>2. job'[q] # None
    BY <1>1, <2>1, ClipsFetch, ClipsFields DEF FactoryPage!Ops, FactoryPage!Lists
  <2> QED BY <2>1, <2>2, Made DEF FactoryPage!Fetch
<1> USE <1>0, <1>1, <1>2, <1>3, <1>4, <1>7, <1>8, <1>9, <1>10 DEF ClipsHeld, KeptButServed
<1>11. ClipsSources' BY DEF ClipsSources
<1>12. ClipsScheduled' BY DEF ClipsScheduled
<1>13. Selected' BY DEF Selected
<1>14. ClipsNoSelection' BY DEF ClipsNoSelection
<1>15. ClipsCandidates' BY DEF ClipsCandidates, ClipsWillRead, ClipsReads
<1>16. ClipsOpened' BY <1>5 DEF ClipsOpened, ClipsReads
<1> QED BY <1>11, <1>12, <1>13, <1>14, <1>15, <1>16

\* A source that was removed is gone, and another is selected in its place.
LEMMA ClipsRemovedHeld ==
  ASSUME ClipsTypes, ClipsHeld, NEW r \in Slots, FactoryPage!HandleSourceDeleted(r), ~outdated'
  PROVE  ClipsHeld'
<1>0. PICK s, first : s = job[r].id /\ first = FactoryPage!First(sources \ {s}) OBVIOUS
<1>1. /\ job[r] # None /\ job[r].op = "remove" /\ job[r].served /\ job[r].sent
      /\ job[r] \in ClipsRequests /\ s \in Sources /\ s # None
      /\ UNCHANGED <<srcs, cands, queue, scheduled>>
  BY <1>0, ClipsAnswers, AboutOps, NoneIsNot
    DEF FactoryPage!HandleSourceDeleted, FactoryPage!Answered, FactoryPage!server
<1>2. s \notin srcs /\ job[r].list = sources /\ job[r].sel = selected /\ s \in sources
  <2>1. FactoryPage!Unless(/\ s \notin srcs /\ job[r].sel = selected
                           /\ job[r].list = sources /\ job[r].again = twice)
    BY <1>0 DEF FactoryPage!HandleSourceDeleted
  <2>2. s \notin srcs /\ job[r].list = sources /\ job[r].sel = selected BY <2>1, ClipsUnless
  <2> QED BY <1>0, <1>1, <2>2, ClipsFields DEF ClipsShape
<1>3. sources' = sources \ {s} BY <1>0, <1>2 DEF FactoryPage!HandleSourceDeleted
<1> DEFINE next == FactoryPage!RefreshScheduled("remove", s)
          jobs == FactoryPage!Then(r, next)
<1>4. next \in ClipsRequests /\ jobs \in [Slots -> ClipsRequests \cup {None}]
  BY <1>1, AboutOps, ClipsRefetch, ClipsThen
<1>5. DOMAIN next.get = {"scheduled"}
  BY DEF FactoryPage!RefreshScheduled, FactoryPage!Fetch
<1>6. /\ jobs[r] = next /\ next # None /\ \A q \in Slots : q # r => jobs[q] = job[q]
  BY <1>4, ClipsFields DEF FactoryPage!Then, ClipsTypes
<1>7. IF selected = s
      THEN /\ FactoryPage!Select(first, jobs, None)
           /\ candidates' = IF sources \ {s} = {} THEN {} ELSE candidates
      ELSE job' = jobs /\ UNCHANGED <<selected, opened, candidates>>
  BY <1>0, <1>2 DEF FactoryPage!HandleSourceDeleted
<1>8. /\ first \in Sources \cup {None} /\ (sources = {s} => first = None)
      /\ sources # {s} => first \in sources \ {s}
  <2>1. sources \ {s} \in SUBSET Sources BY DEF ClipsTypes
  <2> QED BY <1>0, <1>2, <2>1, FirstSelects
<1> HIDE DEF jobs, next
<1>9. selected = s =>
        /\ selected' = first /\ opened' = None
        /\ \A q \in Slots : jobs[q] # None => job'[q] = jobs[q]
        /\ first # None => \E q \in Slots : job'[q] = FactoryPage!Fetch("load", {"candidates"}, first)
  <2> SUFFICES ASSUME selected = s
               PROVE  /\ selected' = first /\ opened' = None
                      /\ \A q \in Slots : jobs[q] # None => job'[q] = jobs[q]
                      /\ first # None => \E q \in Slots :
                           job'[q] = FactoryPage!Fetch("load", {"candidates"}, first)
    OBVIOUS
  <2>1. FactoryPage!Select(first, jobs, None) BY <1>7
  <2>2. first # selected BY <1>1, <1>8
  <2> QED BY <1>4, <1>8, <2>1, <2>2, ClipsSelect
<1>10. \A q \in Slots : jobs[q] # None => job'[q] = jobs[q] BY <1>7, <1>9
<1>11. KeptButServed(r) BY <1>1, <1>6, <1>10, ClipsAnswered
<1>12. SomeGets("scheduled")'
  <2>1. job'[r] = next /\ job'[r] # None BY <1>6, <1>10
  <2> QED BY <1>5, <2>1, Made
<1>13. selected = s /\ first # None => SomeGets("candidates")'
  <2> SUFFICES ASSUME selected = s, first # None PROVE SomeGets("candidates")' OBVIOUS
  <2>1. PICK q \in Slots : job'[q] = FactoryPage!Fetch("load", {"candidates"}, first) BY <1>9
  <2>2. job'[q] # None
    BY <1>8, <2>1, ClipsFetch, ClipsFields DEF FactoryPage!Ops, FactoryPage!Lists
  <2> QED BY <2>1, <2>2, Made DEF FactoryPage!Fetch
<1> USE <1>0, <1>1, <1>2, <1>3, <1>7, <1>8, <1>9, <1>11, <1>12, <1>13 DEF ClipsHeld, KeptButServed
<1>14. ClipsSources' BY DEF ClipsSources, ClipsReads
<1>15. ClipsScheduled' BY DEF ClipsScheduled
<1>16. Selected' BY DEF Selected, ClipsSources
<1>17. ClipsNoSelection'
  <2>1. CASE selected = s
    <3> SUFFICES ASSUME first = None PROVE ClipsNoSelection' BY <2>1 DEF ClipsNoSelection
    <3>1. sources = {s} /\ sources' = {} /\ candidates' = {} /\ opened' = None
      <4>1. None \notin sources BY NoneIsNot DEF ClipsTypes
      <4>2. sources = {s} BY <4>1
      <4>3. sources \ {s} = {} BY <4>2
      <4> QED BY <2>1, <4>2, <4>3
    <3>2. \A t : ServedFor("create", t) => SomeServed(ClipsReads \cup {"moment", "create"})
      BY DEF ServedFor, SomeServed
    <3>3. SomeServed(ClipsReads \cup {"moment"}) =>
            SomeServed(ClipsReads \cup {"moment", "create"})
      BY DEF SomeServed
    <3>4. \/ srcs' = {} \/ SomeGets("sources")'
          \/ SomeServed(ClipsReads \cup {"moment", "create"})'
      BY <3>1, <3>2, <3>3 DEF ClipsSources, ClipsReads
    <3> QED BY <3>1, <3>4 DEF ClipsNoSelection
  <2>2. CASE selected # s BY <2>2 DEF ClipsNoSelection, ClipsReads
  <2> QED BY <2>1, <2>2
<1>18. ClipsCandidates'
  <2>1. CASE selected = s BY <2>1 DEF ClipsCandidates, ClipsWillRead
  <2>2. CASE selected # s BY <2>2 DEF ClipsCandidates, ClipsWillRead, ClipsReads
  <2> QED BY <2>1, <2>2
<1>19. ClipsOpened'
  <2>1. CASE selected = s BY <2>1 DEF ClipsOpened
  <2>2. CASE selected # s BY <2>2 DEF ClipsOpened, ClipsReads
  <2> QED BY <2>1, <2>2
<1> QED BY <1>14, <1>15, <1>16, <1>17, <1>18, <1>19

\* A candidate that was removed is gone, from the page as from the server.
LEMMA ClipsDroppedHeld ==
  ASSUME ClipsTypes, ClipsHeld, NEW r \in Slots, FactoryPage!HandleCandidateDeleted(r), ~outdated'
  PROVE  ClipsHeld'
<1>0. PICK i : i = job[r].id OBVIOUS
<1>1. /\ job[r] # None /\ job[r].op = "drop" /\ job[r].sent /\ i \in FactoryPage!About("drop")
      /\ candidates' = candidates \ {i} /\ opened' = IF opened = i THEN None ELSE opened
      /\ UNCHANGED <<srcs, cands, queue, sources, scheduled, selected>>
  BY <1>0, ClipsAnswers
    DEF FactoryPage!HandleCandidateDeleted, FactoryPage!Answered, FactoryPage!server,
        FactoryPage!listed
<1>2. i \notin cands
  <2>1. FactoryPage!Unless(i \notin cands) BY <1>0 DEF FactoryPage!HandleCandidateDeleted
  <2> QED BY <2>1, ClipsUnless
<1> DEFINE next == FactoryPage!RefreshScheduled("drop", i)
<1>3. next \in ClipsRequests BY <1>1, ClipsRefetch
<1>4. DOMAIN next.get = {"scheduled"} BY DEF FactoryPage!RefreshScheduled, FactoryPage!Fetch
<1>5. job' = [job EXCEPT ![r] = next]
  BY <1>0 DEF FactoryPage!HandleCandidateDeleted, FactoryPage!Then
<1> HIDE DEF next
<1>6. job'[r] = next /\ next # None /\ \A q \in Slots : q # r => job'[q] = job[q]
  BY <1>3, <1>5, ClipsFields DEF ClipsTypes
<1>7. KeptButServed(r) BY <1>1, <1>6, ClipsAnswered
<1>8. SomeGets("scheduled")' BY <1>4, <1>6, Made
<1> USE <1>0, <1>1, <1>2, <1>7, <1>8 DEF ClipsHeld, KeptButServed
<1>9. ClipsSources' BY DEF ClipsSources, ClipsReads
<1>10. ClipsScheduled' BY DEF ClipsScheduled
<1>11. Selected' BY DEF Selected
<1>12. ClipsNoSelection' BY DEF ClipsNoSelection, ClipsReads
<1>13. ClipsCandidates' BY DEF ClipsCandidates, ClipsWillRead, ClipsReads
<1>14. ClipsOpened' BY DEF ClipsOpened, ClipsReads
<1> QED BY <1>9, <1>10, <1>11, <1>12, <1>13, <1>14

-----------------------------------------------------------------------------
(* Proofs: the lists of the page of the clips, when a list arrives *)

\* The list that arrives is the present one.
LEMMA ClipsShown ==
  ASSUME ClipsTypes, NEW r \in Slots, NEW what \in FactoryPage!Lists,
         FactoryPage!Arrives(r, what), FactoryPage!Shown(r, what), ~outdated'
  PROVE  /\ what = "sources" => FactoryPage!Data(r, what) = srcs
         /\ what = "scheduled" => FactoryPage!Data(r, what) = queue
         /\ what = "candidates" =>
              /\ job[r].sel = selected
              /\ FactoryPage!Data(r, what) = {i \in cands : job[r].sel = None \/ i[1] = job[r].sel}
<1>1. /\ FactoryPage!Data(r, what) = FactoryPage!Stored(what, job[r].sel)
      /\ what = "candidates" => job[r].sel = selected
  BY ClipsUnless DEF FactoryPage!Shown
<1>2. what = "sources" => FactoryPage!Stored(what, job[r].sel) = srcs
  BY Zenon DEF FactoryPage!Stored, FactoryPage!FetchSources
<1>3. what = "scheduled" => FactoryPage!Stored(what, job[r].sel) = queue
  <2>1. "scheduled" # "sources" OBVIOUS
  <2> QED BY <2>1, Zenon DEF FactoryPage!Stored, FactoryPage!FetchScheduled
<1>4. what = "candidates" =>
        FactoryPage!Stored(what, job[r].sel) = FactoryPage!FetchCandidates(job[r].sel)
  <2>1. "candidates" # "sources" /\ "candidates" # "scheduled" OBVIOUS
  <2> QED BY <2>1, Zenon DEF FactoryPage!Stored
<1> QED BY <1>1, <1>2, <1>3, <1>4 DEF FactoryPage!FetchCandidates

\* A request that reads lists.
LEMMA ClipsArrives ==
  ASSUME ClipsTypes, NEW r \in Slots, NEW what \in FactoryPage!Lists, FactoryPage!Arrives(r, what)
  PROVE  /\ job[r] # None /\ job[r] \in ClipsRequests /\ ~job[r].sent
         /\ what \in DOMAIN job[r].get /\ job[r].sel \in Sources \cup {None}
         /\ FactoryPage!Data(r, what) \in ListOf(what)
         /\ LET W == DOMAIN job[r].get IN
            \/ job[r].op = "init" /\ (W = {"sources"} \/ W = {"candidates", "scheduled"})
            \/ job[r].op = "all" /\ W \subseteq {"sources", "scheduled"}
            \/ job[r].op \in {"all", "load"} /\ W = {"candidates"} /\ job[r].sel # None
            \/ job[r].op \in {"remove", "drop"} /\ W = {"scheduled"}
<1>1. job[r] # None /\ what \in DOMAIN job[r].get /\ job[r].get[what] # None
  BY DEF FactoryPage!Arrives
<1>2. /\ job[r] \in ClipsRequests /\ ~job[r].sent /\ job[r].sel \in Sources \cup {None}
      /\ job[r].get[what] \in ListOf(what)
  BY <1>1, ClipsAnswers
<1> QED BY <1>1, <1>2, ClipsFields DEF ClipsShape, FactoryPage!Data

\* When the page opens, it lists the sources there are and selects one.
LEMMA ClipsInitHeld ==
  ASSUME ClipsTypes, ClipsHeld, NEW r \in Slots, FactoryPage!InitSources(r), ~outdated'
  PROVE  ClipsHeld'
<1>0. PICK first : first = FactoryPage!First(srcs) OBVIOUS
<1> DEFINE jobs == FactoryPage!Then(r, FactoryPage!Fetch("init", {"candidates", "scheduled"}, first))
<1>1. FactoryPage!Arrives(r, "sources") /\ FactoryPage!Shown(r, "sources") /\ job[r].op = "init"
  BY DEF FactoryPage!InitSources
<1>2. /\ job[r] # None /\ ~job[r].sent /\ DOMAIN job[r].get = {"sources"}
      /\ FactoryPage!Data(r, "sources") = srcs
  BY <1>1, ClipsArrives, ClipsShown DEF FactoryPage!Lists
<1>3. /\ sources' = srcs /\ FactoryPage!Select(first, jobs, opened)
      /\ UNCHANGED <<srcs, cands, queue, candidates, scheduled>>
  BY <1>0, <1>2 DEF FactoryPage!InitSources, FactoryPage!ShowSources, FactoryPage!server
<1>4. /\ first \in Sources \cup {None} /\ (srcs = {} => first = None)
      /\ srcs # {} => first \in srcs
  BY <1>0, FirstSelects DEF ClipsTypes
<1>5. /\ jobs \in [Slots -> ClipsRequests \cup {None}]
      /\ jobs[r] = FactoryPage!Fetch("init", {"candidates", "scheduled"}, first) /\ jobs[r] # None
      /\ \A q \in Slots : q # r => jobs[q] = job[q]
  <2>1. FactoryPage!Fetch("init", {"candidates", "scheduled"}, first) \in ClipsRequests
    BY <1>4, ClipsFetch DEF FactoryPage!Ops, FactoryPage!Lists
  <2> QED BY <2>1, ClipsThen, ClipsFields DEF FactoryPage!Then, ClipsTypes
<1> HIDE DEF jobs
<1>6. opened \in FactoryPage!Ids \cup {None} BY DEF ClipsTypes
<1>7. /\ selected' = first /\ opened' = IF first = selected THEN opened ELSE None
      /\ \A q \in Slots : jobs[q] # None => job'[q] = jobs[q]
  BY <1>3, <1>4, <1>5, <1>6, ClipsSelect
<1>8. KeptButRead(r) BY <1>2, <1>5, <1>7, LostRead
<1>9. SomeOpens' BY <1>5, <1>7, Made DEF FactoryPage!Fetch
<1>10. None \notin srcs BY NoneIsNot DEF ClipsTypes
<1> USE <1>1, <1>2, <1>3, <1>4, <1>7, <1>8, <1>9, <1>10 DEF ClipsHeld, KeptButRead
<1>11. ClipsSources' BY DEF ClipsSources
<1>12. ClipsScheduled' BY DEF ClipsScheduled
<1>13. Selected' BY DEF Selected
<1>14. ClipsNoSelection'
  <2> SUFFICES ASSUME first = None PROVE ClipsNoSelection' BY DEF ClipsNoSelection
  <2>1. srcs = {} OBVIOUS
  <2>2. ServedFor("remove", selected) => SomeServed({"moment", "remove"})'
    <3>1. ServedFor("remove", selected) => SomeServed({"moment", "remove"})
      BY DEF ServedFor, SomeServed
    <3> QED BY <3>1
  <2>3. candidates' # {} \/ opened' # None =>
          SomeServed({"moment", "remove"})' \/ SomeRefreshes(ClipsReads)'
    <3>1. CASE selected = None BY <2>1, <3>1 DEF ClipsNoSelection
    <3>2. CASE selected # None BY <2>1, <2>2, <3>2 DEF Selected
    <3> QED BY <3>1, <3>2
  <2> QED BY <2>1, <2>3 DEF ClipsNoSelection
<1>15. ClipsCandidates' BY DEF ClipsCandidates, ClipsWillRead
<1>16. ClipsOpened' BY DEF ClipsOpened
<1> QED BY <1>11, <1>12, <1>13, <1>14, <1>15, <1>16

\* Then it lists the candidates of what is selected by then, and the schedule.
LEMMA ClipsInitRestHeld ==
  ASSUME ClipsTypes, ClipsHeld, NEW r \in Slots, FactoryPage!InitRest(r), ~outdated'
  PROVE  ClipsHeld'
<1>1. FactoryPage!Arrives(r, "candidates") /\ job[r].op = "init"
  BY DEF FactoryPage!InitRest
<1>2. /\ job[r] # None /\ ~job[r].sent /\ DOMAIN job[r].get = {"candidates", "scheduled"}
  BY <1>1, ClipsArrives DEF FactoryPage!Lists
<1>3. /\ candidates' = {i \in cands : selected = None \/ i[1] = selected} /\ scheduled' = queue
  <2>1. FactoryPage!Unless(/\ FactoryPage!Data(r, "candidates") = FactoryPage!FetchCandidates(selected)
                           /\ FactoryPage!Data(r, "scheduled") = queue)
    BY DEF FactoryPage!InitRest
  <2>2. /\ FactoryPage!Data(r, "candidates") = FactoryPage!FetchCandidates(selected)
        /\ FactoryPage!Data(r, "scheduled") = queue
    BY <2>1, ClipsUnless
  <2> QED BY <2>2 DEF FactoryPage!InitRest, FactoryPage!FetchCandidates
<1>4. UNCHANGED <<srcs, cands, queue, sources, selected, opened>>
  BY DEF FactoryPage!InitRest, FactoryPage!server, FactoryPage!listed
<1>5. \A q \in Slots : q # r => job'[q] = job[q]
  BY DEF FactoryPage!InitRest, FactoryPage!Then, ClipsTypes
<1>6. KeptButRead(r) BY <1>2, <1>5, LostRead
<1>7. \A i \in cands : i[1] \in srcs BY DEF ClipsTypes
<1> USE <1>1, <1>2, <1>3, <1>4, <1>6, <1>7 DEF ClipsHeld, KeptButRead
<1>8. ClipsSources' BY DEF ClipsSources
<1>9. ClipsScheduled' BY DEF ClipsScheduled
<1>10. Selected' BY DEF Selected
<1>11. ClipsNoSelection' BY DEF ClipsNoSelection
<1>12. ClipsCandidates' BY DEF ClipsCandidates
<1>13. ClipsOpened' BY DEF ClipsOpened
<1> QED BY <1>8, <1>9, <1>10, <1>11, <1>12, <1>13

\* The sources are read again.
LEMMA ClipsSourcesHeld ==
  ASSUME ClipsTypes, ClipsHeld, NEW r \in Slots, FactoryPage!RefreshSources(r), ~outdated'
  PROVE  ClipsHeld'
<1>0. PICK first, sel : first = FactoryPage!First(srcs) /\ sel = job[r].sel OBVIOUS
<1> DEFINE jobs == FactoryPage!Rest(r, "sources")
<1>1. FactoryPage!Arrives(r, "sources") /\ FactoryPage!Shown(r, "sources") /\ job[r].op = "all"
  BY DEF FactoryPage!RefreshSources
<1>2. /\ job[r] # None /\ ~job[r].sent /\ DOMAIN job[r].get \subseteq {"sources", "scheduled"}
      /\ "sources" \in DOMAIN job[r].get
      /\ FactoryPage!Data(r, "sources") = srcs /\ sel \in Sources \cup {None}
  BY <1>0, <1>1, ClipsArrives, ClipsShown DEF FactoryPage!Lists
<1>3. /\ sources' = srcs
      /\ IF sel = None /\ srcs # {} THEN FactoryPage!Select(first, jobs, opened)
         ELSE job' = jobs /\ UNCHANGED <<selected, opened>>
      /\ UNCHANGED <<srcs, cands, queue, candidates, scheduled>>
  BY <1>0, <1>2 DEF FactoryPage!RefreshSources, FactoryPage!ShowSources, FactoryPage!server
<1>4. PICK x \in ClipsRequests \cup {None} : jobs = [job EXCEPT ![r] = x] /\ RestIs(r, "sources", x)
  BY <1>1, <1>2, ClipsRest
<1>5. /\ jobs \in [Slots -> ClipsRequests \cup {None}] /\ jobs[r] = x
      /\ \A q \in Slots : q # r => jobs[q] = job[q]
  BY <1>4 DEF ClipsTypes
<1> HIDE DEF jobs
<1>6. /\ first \in Sources \cup {None} /\ (srcs # {} => first \in srcs /\ first # None)
  BY <1>0, FirstSelects, NoneIsNot DEF ClipsTypes
<1>7. opened \in FactoryPage!Ids \cup {None} BY DEF ClipsTypes
<1>8. sel = None /\ srcs # {} =>
        /\ selected' = first /\ opened' = IF first = selected THEN opened ELSE None
        /\ \A q \in Slots : jobs[q] # None => job'[q] = jobs[q]
        /\ first # selected =>
             \E q \in Slots : job'[q] = FactoryPage!Fetch("load", {"candidates"}, first)
  BY <1>3, <1>5, <1>6, <1>7, ClipsSelect
<1>9. \A q \in Slots : jobs[q] # None => job'[q] = jobs[q] BY <1>3, <1>8
<1>10. KeptButRead(r) BY <1>2, <1>5, <1>9, LostRead
<1>11. "scheduled" \in DOMAIN job[r].get => SomeGets("scheduled")'
  BY <1>4, <1>5, <1>9, Made DEF RestIs
<1>12. sel # None => \A Ops : SomeRefreshes(Ops)'
  <2> SUFFICES ASSUME sel # None PROVE \A Ops : SomeRefreshes(Ops)' OBVIOUS
  <2>1. x # None /\ x.op = "all" /\ x.sel = sel
    <3>1. CASE DOMAIN job[r].get \ {"sources"} # {} BY <1>0, <1>1, <1>4, <3>1 DEF RestIs
    <3>2. CASE DOMAIN job[r].get \ {"sources"} = {}
      <4>1. x = FactoryPage!Fetch("all", {"candidates"}, sel)
        BY <1>0, <1>1, <1>4, <3>2 DEF RestIs
      <4>2. x # None
        BY <1>2, <4>1, ClipsFetch, ClipsFields DEF FactoryPage!Ops, FactoryPage!Lists
      <4> QED BY <4>1, <4>2 DEF FactoryPage!Fetch
    <3> QED BY <3>1, <3>2
  <2> QED BY <1>5, <1>9, <2>1, Made
<1>13. sel = None /\ srcs # {} /\ first # selected => SomeGets("candidates")'
  <2> SUFFICES ASSUME sel = None /\ srcs # {} /\ first # selected PROVE SomeGets("candidates")'
    OBVIOUS
  <2>1. PICK q \in Slots : job'[q] = FactoryPage!Fetch("load", {"candidates"}, first) BY <1>8
  <2>2. FactoryPage!Fetch("load", {"candidates"}, first) \in ClipsRequests
    BY <1>6, ClipsFetch DEF FactoryPage!Ops, FactoryPage!Lists
  <2>3. job'[q] # None BY <2>1, <2>2, ClipsFields
  <2> QED BY <2>1, <2>3, Made DEF FactoryPage!Fetch
<1> USE <1>0, <1>1, <1>2, <1>3, <1>6, <1>8, <1>10, <1>11, <1>12, <1>13 DEF ClipsHeld, KeptButRead
<1>14. ClipsSources' BY DEF ClipsSources
<1>15. ClipsScheduled' BY DEF ClipsScheduled
<1>16. Selected' BY DEF Selected
<1>17. ClipsNoSelection' BY DEF ClipsNoSelection
<1>18. ClipsCandidates' BY DEF ClipsCandidates, ClipsWillRead
<1>19. ClipsOpened' BY DEF ClipsOpened
<1> QED BY <1>14, <1>15, <1>16, <1>17, <1>18, <1>19

\* The schedule is read.
LEMMA ClipsScheduledHeld ==
  ASSUME ClipsTypes, ClipsHeld, NEW r \in Slots, FactoryPage!ScheduledArrives(r), ~outdated'
  PROVE  ClipsHeld'
<1>0. PICK sel : sel = job[r].sel OBVIOUS
<1>1. /\ FactoryPage!Arrives(r, "scheduled") /\ FactoryPage!Shown(r, "scheduled")
      /\ job[r].op # "init"
  BY DEF FactoryPage!ScheduledArrives
<1>2. /\ job[r] # None /\ ~job[r].sent /\ DOMAIN job[r].get \subseteq {"sources", "scheduled"}
      /\ "scheduled" \in DOMAIN job[r].get
      /\ FactoryPage!Data(r, "scheduled") = queue /\ sel \in Sources \cup {None}
  BY <1>0, <1>1, ClipsArrives, ClipsShown DEF FactoryPage!Lists
<1>3. /\ scheduled' = queue /\ job' = FactoryPage!Rest(r, "scheduled")
      /\ UNCHANGED <<srcs, cands, queue, sources, candidates, selected, opened>>
  BY <1>2 DEF FactoryPage!ScheduledArrives, FactoryPage!server, FactoryPage!listed
<1>4. PICK x \in ClipsRequests \cup {None} :
        job' = [job EXCEPT ![r] = x] /\ RestIs(r, "scheduled", x)
  BY <1>1, <1>2, <1>3, ClipsRest
<1>5. job'[r] = x /\ \A q \in Slots : q # r => job'[q] = job[q]
  BY <1>4 DEF ClipsTypes
<1>6. KeptButRead(r) BY <1>2, <1>5, LostRead
<1>7. "sources" \in DOMAIN job[r].get => SomeGets("sources")'
  BY <1>4, <1>5, Made DEF RestIs
<1>8. job[r].op = "all" /\ sel # None => \A Ops : SomeRefreshes(Ops)'
  <2> SUFFICES ASSUME job[r].op = "all", sel # None PROVE \A Ops : SomeRefreshes(Ops)' OBVIOUS
  <2>1. x # None /\ x.op = "all" /\ x.sel = sel
    <3>1. CASE DOMAIN job[r].get \ {"scheduled"} # {} BY <1>0, <1>4, <3>1 DEF RestIs
    <3>2. CASE DOMAIN job[r].get \ {"scheduled"} = {}
      <4>1. x = FactoryPage!Fetch("all", {"candidates"}, sel)
        BY <1>0, <1>4, <3>2 DEF RestIs
      <4>2. x # None
        BY <1>2, <4>1, ClipsFetch, ClipsFields DEF FactoryPage!Ops, FactoryPage!Lists
      <4> QED BY <4>1, <4>2 DEF FactoryPage!Fetch
    <3> QED BY <3>1, <3>2
  <2> QED BY <1>5, <2>1, Made
<1>9. Reloads => Reloads' BY <1>2, <1>6 DEF KeptButRead
<1> USE <1>0, <1>1, <1>2, <1>3, <1>6, <1>7, <1>8, <1>9 DEF ClipsHeld, KeptButRead
<1>10. ClipsSources' BY DEF ClipsSources
<1>11. ClipsScheduled' BY DEF ClipsScheduled
<1>12. Selected' BY DEF Selected
<1>13. ClipsNoSelection' BY DEF ClipsNoSelection
<1>14. ClipsCandidates' BY DEF ClipsCandidates, ClipsWillRead
<1>15. ClipsOpened' BY DEF ClipsOpened
<1> QED BY <1>10, <1>11, <1>12, <1>13, <1>14, <1>15

\* The candidates of the selection are read.
LEMMA ClipsCandidatesHeld ==
  ASSUME ClipsTypes, ClipsHeld, NEW r \in Slots, FactoryPage!RefreshCandidates(r), ~outdated'
  PROVE  ClipsHeld'
<1>1. /\ FactoryPage!Arrives(r, "candidates") /\ FactoryPage!Shown(r, "candidates")
      /\ job[r].op # "init"
  BY DEF FactoryPage!RefreshCandidates
<1>2. /\ job[r] # None /\ ~job[r].sent /\ DOMAIN job[r].get = {"candidates"}
      /\ selected # None
      /\ FactoryPage!Data(r, "candidates") = {i \in cands : i[1] = selected}
  BY <1>1, ClipsArrives, ClipsShown DEF FactoryPage!Lists
<1>3. /\ candidates' = {i \in cands : i[1] = selected}
      /\ opened' = IF opened \in {i \in cands : i[1] = selected} THEN opened ELSE None
      /\ job' = FactoryPage!Rest(r, "candidates")
      /\ UNCHANGED <<srcs, cands, queue, sources, scheduled, selected>>
  BY <1>2 DEF FactoryPage!RefreshCandidates, FactoryPage!server, FactoryPage!listed
<1>4. \A q \in Slots : q # r => job'[q] = job[q]
  BY <1>1, <1>2, <1>3, ClipsRest DEF ClipsTypes
<1>5. KeptButRead(r) BY <1>2, <1>4, LostRead
<1> USE <1>1, <1>2, <1>3, <1>5 DEF ClipsHeld, KeptButRead
<1>6. ClipsSources'
  <2>1. SomeGets("sources") => SomeGets("sources")' OBVIOUS
  <2> QED BY <2>1 DEF ClipsSources
<1>7. ClipsScheduled'
  <2>1. SomeGets("scheduled") => SomeGets("scheduled")' OBVIOUS
  <2> QED BY <2>1 DEF ClipsScheduled
<1>8. Selected' BY DEF Selected
<1>9. ClipsNoSelection' BY DEF ClipsNoSelection
<1>10. ClipsCandidates' BY DEF ClipsCandidates
<1>11. ClipsOpened' BY DEF ClipsOpened
<1> QED BY <1>6, <1>7, <1>8, <1>9, <1>10, <1>11

-----------------------------------------------------------------------------
(* Proofs: the lists of the page of the clips, whatever happens *)

\* A request that fails was not served, or is an analysis of what is shown.
LEMMA ClipsFailsHeld ==
  ASSUME ClipsTypes, ClipsHeld, NEW r \in Slots, FactoryPage!Fails(r), ~outdated'
  PROVE  ClipsHeld'
<1>1. /\ job[r] # None
      /\ UNCHANGED <<srcs, cands, queue, sources, candidates, scheduled, selected, opened>>
  BY DEF FactoryPage!Fails, FactoryPage!server, FactoryPage!lists, FactoryPage!listed
<1>2. \/ job[r].op = "analyze" /\ job[r].sel # None
      \/ job[r].sent /\ ~job[r].served
  <2>1. FactoryPage!Unless(\/ job[r].op = "analyze" /\ job[r].sel # None
                           \/ job[r].sent /\ ~job[r].served)
    BY DEF FactoryPage!Fails
  <2> QED BY <2>1, ClipsUnless
<1>3. CASE job[r].op = "analyze" /\ job[r].sel # None
  <2>1. job[r].sent
    BY <1>1, <1>3, ClipsAnswers, ClipsFields DEF ClipsShape
  <2>2. job' = FactoryPage!Then(r, FactoryPage!RefreshAll(job[r].sel))
    BY <1>3 DEF FactoryPage!Fails
  <2> QED BY <1>1, <1>3, <2>1, <2>2, ClipsRefreshHeld DEF ClipsReads
<1>4. CASE job[r].sent /\ ~job[r].served
  <2>1. \A q \in Slots : q # r => job'[q] = job[q]
    BY DEF FactoryPage!Fails, FactoryPage!Then, ClipsTypes
  <2>2. Kept BY <1>1, <1>4, <2>1, ClipsAnswered
  <2> QED BY <1>1, <2>2, ClipsHeldOn
<1> QED BY <1>2, <1>3, <1>4

\* The inductive invariant of the page of the clips, together with its types.
ClipsLists == ~outdated => ClipsHeld

\* The page that opens will read everything.
LEMMA ClipsListsBegin == FactoryPage!Init => ClipsLists
<1> SUFFICES ASSUME FactoryPage!Init PROVE ClipsHeld BY DEF ClipsLists
<1> USE DEF FactoryPage!Init
<1>1. PICK r \in Slots :
        job = [s \in Slots |-> IF s = r THEN FactoryPage!Fetch("init", {"sources"}, None) ELSE None]
  OBVIOUS
<1>2. FactoryPage!Fetch("init", {"sources"}, None) # None
  BY ClipsFetch, ClipsFields DEF FactoryPage!Ops, FactoryPage!Lists
<1>3. job[r] # None /\ job[r].op = "init" /\ DOMAIN job[r].get = {"sources"}
  BY <1>1, <1>2 DEF FactoryPage!Fetch
<1>4. SomeGets("sources") BY <1>3 DEF SomeGets, Gets
<1> QED
  BY <1>4 DEF ClipsHeld, ClipsSources, ClipsScheduled, Selected, ClipsNoSelection,
              ClipsCandidates, ClipsOpened

\* An answer that no longer holds is remembered.
LEMMA ClipsOutdated ==
  ASSUME ClipsTypes, FactoryPage!Next, ~outdated'
  PROVE  ~outdated
<1>1. ASSUME NEW holds, FactoryPage!Unless(holds) PROVE ~outdated BY <1>1, ClipsUnless
<1>2. ASSUME NEW r \in Slots, FactoryPage!Answer(r) PROVE ~outdated
  BY <1>2, <1>1
    DEF FactoryPage!Answer, FactoryPage!HandleSourceCreated, FactoryPage!OnAnalyzed,
        FactoryPage!OnTick, FactoryPage!OnScheduled, FactoryPage!Refreshes, FactoryPage!OnMoment,
        FactoryPage!HandleSourceDeleted, FactoryPage!HandleCandidateDeleted,
        FactoryPage!InitSources, FactoryPage!InitRest, FactoryPage!RefreshSources,
        FactoryPage!ScheduledArrives, FactoryPage!RefreshCandidates, FactoryPage!Shown
<1>3. ASSUME NEW r \in Slots, FactoryPage!Fails(r) PROVE ~outdated
  BY <1>3, <1>1 DEF FactoryPage!Fails
<1>4. FactoryPage!User => outdated' = outdated
  BY ClipsAsk
    DEF FactoryPage!ClickSource, FactoryPage!ClickRow, FactoryPage!ClickView, FactoryPage!Begin
<1>5. \A r \in Slots : FactoryPage!Serve(r) => outdated' = outdated BY DEF FactoryPage!Serve
<1>6. \A r \in Slots : \A w \in FactoryPage!Lists : FactoryPage!Read(r, w) => outdated' = outdated
  BY DEF FactoryPage!Read
<1> QED BY <1>2, <1>3, <1>4, <1>5, <1>6 DEF FactoryPage!Next

\* Whatever happens to the page of the clips, its differences will be settled.
LEMMA ClipsListsStep == ClipsTypes /\ ClipsLists /\ FactoryPage!Next => ClipsLists'
<1> SUFFICES ASSUME ClipsTypes, ClipsLists, FactoryPage!Next, ~outdated' PROVE ClipsHeld'
  BY DEF ClipsLists
<1>1. ClipsHeld BY ClipsOutdated DEF ClipsLists
<1>2. ASSUME NEW r \in Slots, FactoryPage!Answer(r) PROVE ClipsHeld'
  <2>1. ASSUME FactoryPage!Answered(r, job[r].op), job[r].op \in ClipsReads, FactoryPage!Refreshes(r)
        PROVE  ClipsHeld'
    <3>1. job[r] # None /\ job[r].sent BY <2>1, ClipsAnswers DEF FactoryPage!Answered
    <3>2. job[r].op = "analyze" => job[r].sel # None
      <4>1. FactoryPage!Unless(job[r].op = "analyze" => job[r].sel # None)
        BY <2>1 DEF FactoryPage!Refreshes
      <4> QED BY <4>1, ClipsUnless
    <3>3. /\ job' = FactoryPage!Then(r, FactoryPage!RefreshAll(job[r].sel))
          /\ UNCHANGED <<srcs, cands, queue, sources, candidates, scheduled, selected, opened>>
      BY <2>1 DEF FactoryPage!Refreshes, FactoryPage!server, FactoryPage!lists, FactoryPage!listed
    <3> QED BY <1>1, <2>1, <3>1, <3>2, <3>3, ClipsRefreshHeld
  <2>2. FactoryPage!OnAnalyzed(r) \/ FactoryPage!OnTick(r) \/ FactoryPage!OnScheduled(r) => ClipsHeld'
    BY <2>1
      DEF FactoryPage!OnAnalyzed, FactoryPage!OnTick, FactoryPage!OnScheduled,
          FactoryPage!Answered, ClipsReads
  <2> QED
    BY <1>1, <1>2, <2>2, ClipsCreatedHeld, ClipsMomentHeld, ClipsRemovedHeld, ClipsDroppedHeld,
       ClipsInitHeld, ClipsInitRestHeld, ClipsSourcesHeld, ClipsScheduledHeld, ClipsCandidatesHeld
      DEF FactoryPage!Answer
<1> QED BY <1>1, <1>2, ClipsUserHeld, ClipsServeHeld, ClipsReadHeld, ClipsFailsHeld
      DEF FactoryPage!Next

\* Without answers that no longer hold, a list that arrived holds each source once, and one
\* is listed twice only when it was listed before the answer to its creation.
ClipsTwice == ~outdated => twice \subseteq early

\* The answer to a creation, a removal, and a list that arrives change what is listed twice.
LEMMA ClipsTwiceStep == ClipsTypes /\ ClipsTwice /\ FactoryPage!Next => ClipsTwice'
<1> SUFFICES ASSUME ClipsTypes, ClipsTwice, FactoryPage!Next, ~outdated' PROVE twice' \subseteq early'
  BY DEF ClipsTwice
<1>1. twice \subseteq early BY ClipsOutdated DEF ClipsTwice
<1>2. ASSUME NEW r \in Slots, FactoryPage!HandleSourceCreated(r) PROVE twice' \subseteq early'
  BY <1>1, <1>2 DEF FactoryPage!HandleSourceCreated
<1>3. ASSUME NEW r \in Slots, FactoryPage!HandleSourceDeleted(r) PROVE twice' \subseteq early'
  <2>1. early' = early /\ twice' = job[r].again \ {job[r].id} BY <1>3 DEF FactoryPage!HandleSourceDeleted
  <2>2. FactoryPage!Unless(/\ job[r].id \notin srcs /\ job[r].sel = selected
                           /\ job[r].list = sources /\ job[r].again = twice)
    BY <1>3 DEF FactoryPage!HandleSourceDeleted
  <2>3. job[r].again = twice BY <2>2, ClipsUnless
  <2> QED BY <1>1, <2>1, <2>3
<1>4. ASSUME NEW r \in Slots, FactoryPage!InitSources(r) \/ FactoryPage!RefreshSources(r)
      PROVE  twice' \subseteq early'
  BY <1>4 DEF FactoryPage!InitSources, FactoryPage!RefreshSources, FactoryPage!ShowSources
<1>5. ASSUME NEW r \in Slots,
             \/ FactoryPage!OnAnalyzed(r) \/ FactoryPage!OnTick(r) \/ FactoryPage!OnScheduled(r)
             \/ FactoryPage!OnMoment(r) \/ FactoryPage!HandleCandidateDeleted(r)
             \/ FactoryPage!InitRest(r) \/ FactoryPage!ScheduledArrives(r)
             \/ FactoryPage!RefreshCandidates(r) \/ FactoryPage!Fails(r)
      PROVE  UNCHANGED <<twice, early>>
  BY <1>5
    DEF FactoryPage!OnAnalyzed, FactoryPage!OnTick, FactoryPage!OnScheduled,
        FactoryPage!Refreshes, FactoryPage!OnMoment, FactoryPage!HandleCandidateDeleted,
        FactoryPage!InitRest, FactoryPage!ScheduledArrives, FactoryPage!RefreshCandidates,
        FactoryPage!Fails, FactoryPage!lists, FactoryPage!listed
<1>6. FactoryPage!User => UNCHANGED <<twice, early>>
  BY ClipsAsk
    DEF FactoryPage!ClickSource, FactoryPage!ClickRow, FactoryPage!ClickView, FactoryPage!Begin,
        FactoryPage!lists, FactoryPage!listed
<1>7. ASSUME NEW r \in Slots, NEW w \in FactoryPage!Lists,
             FactoryPage!Serve(r) \/ FactoryPage!Read(r, w)
      PROVE  UNCHANGED <<twice, early>>
  BY <1>7, ClipsServe, ClipsRead
<1> QED BY <1>1, <1>2, <1>3, <1>4, <1>5, <1>6, <1>7
       DEF FactoryPage!Next, FactoryPage!Answer, FactoryPage!Lists

\* Without requests nothing is on its way: the lists are those of the server.
LEMMA ClipsListsFollow == ClipsTypes /\ ClipsLists /\ ClipsTwice => FactoryPage!ListsMatch
<1> SUFFICES ASSUME ClipsTypes, ClipsHeld, twice \subseteq early, \A r \in Slots : job[r] = None
             PROVE  /\ sources = srcs /\ scheduled = queue
                    /\ IF srcs = {} THEN selected = None ELSE selected \in srcs
                    /\ candidates = {i \in cands : i[1] = selected}
                    /\ opened \in candidates \cup {None}
  BY DEF ClipsLists, ClipsTwice, FactoryPage!ListsMatch, FactoryPage!Quiet
<1>1. /\ \A op, id : ~ServedFor(op, id)
      /\ \A Ops : ~SomeServed(Ops)
      /\ \A w : ~SomeGets(w)
      /\ ~SomeOpens /\ ~Reloads
      /\ \A Ops : ~SomeRefreshes(Ops)
      /\ \A i : ~Proposed(i)
  BY DEF ServedFor, SomeServed, Served, SomeGets, Gets, SomeOpens, Opens, Reloads,
         SomeRefreshes, Refreshes, Proposed
<1> USE DEF ClipsHeld
<1>2. sources = srcs
  <2>1. sources \ srcs = {} /\ srcs \ sources = {} BY <1>1 DEF ClipsSources
  <2> QED BY <2>1
<1>3. scheduled = queue BY <1>1 DEF ClipsScheduled
<1>4. selected # None => selected \in srcs BY <1>1 DEF Selected
<1>5. selected = None => srcs = {} /\ candidates = {} /\ opened = None
  BY <1>1 DEF ClipsNoSelection
<1>6. candidates = {i \in cands : i[1] = selected}
  <2>1. CASE selected = None
    <3>1. cands = {} BY <1>5, <2>1 DEF ClipsTypes
    <3> QED BY <1>5, <2>1, <3>1
  <2>2. CASE selected # None BY <1>1, <2>2 DEF ClipsCandidates, ClipsWillRead
  <2> QED BY <2>1, <2>2
<1>7. opened \in candidates \cup {None}
  <2>1. CASE selected = None BY <1>5, <2>1
  <2>2. CASE selected # None BY <1>1, <2>2 DEF ClipsOpened
  <2> QED BY <2>1, <2>2
<1>8. IF srcs = {} THEN selected = None ELSE selected \in srcs BY <1>4, <1>5
<1> QED BY <1>2, <1>3, <1>6, <1>7, <1>8

-----------------------------------------------------------------------------
(* The lists of the page of the articles *)

\* Requests after which the page reads all lists again.
ArticlesReads == {"analyze", "tick"}

\* The page opens once, and until it has read the articles it selects none by itself.
OpensSources == \E r \in Slots : Opens(r) /\ Gets(r, "sources")
OneOpens == \A q, r \in Slots : Opens(q) /\ Opens(r) => q = r

\* An article the page lists and the server has not is being removed; one the page does not
\* list is being created, unless the page is opening.
ArticlesSources ==
    /\ \A s \in sources \ srcs : ServedFor("remove", s)
    /\ \A s \in srcs \ sources : ServedFor("create", s) \/ OpensSources

\* The schedule of the page is the queue, or will be read.
ArticlesScheduled ==
    \/ scheduled = queue \/ SomeGets("scheduled") \/ SomeOpens
    \/ SomeServed(ArticlesReads \cup {"schedule", "remove", "drop"})

\* Without a selection there are no articles but those that are being created, and one of
\* them will be selected, unless the page is opening.
ArticlesNoSelection ==
    selected = None =>
        /\ \A s \in srcs \cup sources : ServedFor("create", s) \/ OpensSources
        /\ candidates # {} => SomeServed({"create", "remove"}) /\ ~OpensSources

\* The posts of the selection will be read.
ArticlesWillRead ==
    SomeGets("candidates") \/ SomeOpens \/ SomeServed({"analyze"}) \/ SomeRefreshes(ArticlesReads)

\* The posts of the page are those of the selection, but for those that are being removed,
\* unless they will be read or the selection is being removed.
ArticlesCandidates ==
    selected # None =>
        \/ ArticlesWillRead \/ ServedFor("remove", selected)
        \/ /\ \A i \in candidates : i[1] = selected /\ (i \in cands \/ ServedFor("drop", i))
           /\ \A i \in cands : i[1] = selected => i \in candidates

ArticlesHeld ==
    /\ ArticlesSources /\ ArticlesScheduled /\ Selected /\ ArticlesNoSelection
    /\ ArticlesCandidates /\ OneOpens

-----------------------------------------------------------------------------
(* Proofs: how the page of the articles opens *)

\* The page goes on opening as it did.
OpeningStays == (OpensSources' <=> OpensSources) /\ (OneOpens => OneOpens')

\* So it does while no request to open it is made or answered.
LEMMA OpeningKept ==
  ASSUME NEW r \in Slots,
         \A q \in Slots : q # r =>
           job'[q] = job[q] \/ (job[q] = None /\ (job'[q] = None \/ job'[q].op # "init")),
         \/ /\ job'[r] = None \/ job'[r].op # "init"
            /\ job[r] = None \/ job[r].op # "init" \/ "sources" \notin DOMAIN job[r].get
         \/ /\ job[r] # None /\ job'[r] # None /\ job'[r].op = job[r].op
            /\ DOMAIN job'[r].get = DOMAIN job[r].get
  PROVE  OpeningStays
<1>1. \A q \in Slots : Opens(q)' => Opens(q) BY DEF Opens
<1>2. OneOpens => OneOpens' BY <1>1 DEF OneOpens
<1>3. \A q \in Slots : Opens(q)' /\ Gets(q, "sources")' <=> Opens(q) /\ Gets(q, "sources")
  BY DEF Opens, Gets
<1>4. OpensSources' <=> OpensSources BY <1>3 DEF OpensSources
<1> QED BY <1>2, <1>4 DEF OpeningStays

\* An article is selected when a request is answered: its posts will be read.
LEMMA ArticlesSelected ==
  ASSUME ArticlesTypes, NEW r \in Slots, job[r] # None, NEW x \in ArticlesRequests \cup {None},
         NEW s \in Sources \cup {None}, ArticlePage!Select(s, ArticlePage!Then(r, x))
  PROVE  /\ selected' = s
         /\ \A q \in Slots : q # r /\ job[q] # None => job'[q] = job[q]
         /\ x # None => job'[r] = x
         /\ \A q \in Slots : job'[q] # None => \/ q # r /\ job'[q] = job[q]
                                               \/ q = r /\ job'[q] = x
                                               \/ job'[q].op = "load"
         /\ s \notin {selected, None} => SomeGets("candidates")'
         /\ job[r].op # "init" /\ (x # None => x.op # "init") => OpeningStays
<1> DEFINE jobs == ArticlePage!Then(r, x)
<1>1. PICK y : y = ArticlePage!Fetch("load", {"candidates"}, s) OBVIOUS
<1>2. y.op = "load" /\ DOMAIN y.get = {"candidates"} BY <1>1 DEF ArticlePage!Fetch
<1>3. /\ jobs \in [Slots -> ArticlesRequests \cup {None}] /\ jobs[r] = x
      /\ \A q \in Slots : q # r => jobs[q] = job[q]
  BY ArticlesThen
<1> HIDE DEF jobs
<1>4. /\ selected' = s
      /\ \A q \in Slots : jobs[q] # None => job'[q] = jobs[q]
      /\ \A q \in Slots : job'[q] = jobs[q] \/ job'[q] = y
      /\ s \notin {selected, None} => \E q \in Slots : job'[q] = y
  BY <1>1, <1>3, ArticlesSelect DEF jobs
<1>5. \A q \in Slots : q # r /\ job[q] # None => job'[q] = job[q] BY <1>3, <1>4
<1>6. x # None => job'[r] = x BY <1>3, <1>4
<1>7. \A q \in Slots : job'[q] # None => \/ q # r /\ job'[q] = job[q]
                                         \/ q = r /\ job'[q] = x
                                         \/ job'[q].op = "load"
  BY <1>2, <1>3, <1>4
<1>8. s \notin {selected, None} => SomeGets("candidates")'
  <2> SUFFICES ASSUME s \notin {selected, None} PROVE SomeGets("candidates")' OBVIOUS
  <2>1. PICK q \in Slots : job'[q] = y BY <1>4
  <2>2. y # None
    BY <1>1, ArticlesFetch, ArticlesFields DEF ArticlePage!Ops, FactoryPage!Lists
  <2> QED BY <1>2, <2>1, <2>2, Made
<1>9. job[r].op # "init" /\ (x # None => x.op # "init") => OpeningStays
  <2> SUFFICES ASSUME job[r].op # "init", x # None => x.op # "init" PROVE OpeningStays OBVIOUS
  <2>1. \A q \in Slots : q # r =>
          job'[q] = job[q] \/ (job[q] = None /\ (job'[q] = None \/ job'[q].op # "init"))
    BY <1>2, <1>3, <1>4
  <2>2. job'[r] = None \/ job'[r].op # "init" BY <1>2, <1>3, <1>4
  <2> QED BY <2>1, <2>2, OpeningKept
<1> QED BY <1>4, <1>5, <1>6, <1>7, <1>8, <1>9

-----------------------------------------------------------------------------
(* Proofs: the lists of the page of the articles, when something is asked for or served *)

\* Nothing changes but requests that settle what they did.
LEMMA ArticlesHeldOn ==
  ASSUME ArticlesHeld, Kept, OpeningStays,
         UNCHANGED <<srcs, cands, queue, sources, candidates, scheduled, selected>>
  PROVE  ArticlesHeld'
<1> USE DEF ArticlesHeld, Kept, OpeningStays
<1>1. ArticlesSources' BY DEF ArticlesSources
<1>2. ArticlesScheduled' BY DEF ArticlesScheduled
<1>3. Selected' BY DEF Selected
<1>4. ArticlesNoSelection' BY DEF ArticlesNoSelection
<1>5. ArticlesCandidates' BY DEF ArticlesCandidates, ArticlesWillRead
<1> QED BY <1>1, <1>2, <1>3, <1>4, <1>5

\* What a request to the server changes, that request settles when it is answered.
LEMMA ArticlesServeHeld ==
  ASSUME ArticlesTypes, ArticlesHeld, NEW r \in Slots, ArticlePage!Serve(r)
  PROVE  ArticlesHeld'
<1>1. /\ ArticleServes(r) /\ job[r] # None /\ job[r].sent /\ ~job[r].served
      /\ UNCHANGED <<sources, candidates, scheduled, selected>>
  BY ArticlesServe
<1>2. PICK x \in ArticlesRequests :
        /\ job' = [job EXCEPT ![r] = x]
        /\ x.op = job[r].op /\ x.id = job[r].id /\ x.sel = job[r].sel /\ x.get = job[r].get
        /\ x.list = job[r].list /\ x.sent /\ x.served
  BY ArticlesServe
<1>3. job'[r] = x /\ x # None /\ \A q \in Slots : q # r => job'[q] = job[q]
  BY <1>2, ArticlesFields DEF ArticlesTypes
<1>4. Kept /\ OpeningStays BY <1>1, <1>2, <1>3, NothingLost, OpeningKept
<1>0. PICK op, s : op = job[r].op /\ s = job[r].id OBVIOUS
<1>5. ServedFor(op, s)' /\ \A Ops : op \in Ops => SomeServed(Ops)'
  BY <1>0, <1>2, <1>3, MadeServed
<1> USE <1>1, <1>4, <1>5 DEF ArticlesHeld, Kept, OpeningStays
<1>6. CASE op = "create" /\ ArticlePage!CreateArticleSource(s)
  <2> USE <1>6 DEF ArticlePage!CreateArticleSource
  <2>1. ArticlesSources' BY DEF ArticlesSources
  <2>2. ArticlesScheduled' BY DEF ArticlesScheduled
  <2>3. Selected' BY DEF Selected
  <2>4. ArticlesNoSelection' BY DEF ArticlesNoSelection
  <2>5. ArticlesCandidates' BY DEF ArticlesCandidates, ArticlesWillRead
  <2> QED BY <2>1, <2>2, <2>3, <2>4, <2>5
<1>7. CASE op = "remove" /\ ArticlePage!DeleteArticleSource(s)
  <2> USE <1>7 DEF ArticlePage!DeleteArticleSource
  <2>1. ArticlesSources' BY DEF ArticlesSources
  <2>2. ArticlesScheduled' BY DEF ArticlesScheduled
  <2>3. Selected' BY DEF Selected
  <2>4. ArticlesNoSelection' BY DEF ArticlesNoSelection
  <2>5. ArticlesCandidates' BY DEF ArticlesCandidates, ArticlesWillRead
  <2> QED BY <2>1, <2>2, <2>3, <2>4, <2>5
<1>8. CASE op = "drop" /\ ArticlePage!DeleteArticleCandidate(s)
  <2> USE <1>8 DEF ArticlePage!DeleteArticleCandidate
  <2>1. ArticlesSources' BY DEF ArticlesSources
  <2>2. ArticlesScheduled' BY DEF ArticlesScheduled
  <2>3. Selected' BY DEF Selected
  <2>4. ArticlesNoSelection' BY DEF ArticlesNoSelection
  <2>5. ArticlesCandidates' BY DEF ArticlesCandidates, ArticlesWillRead
  <2> QED BY <2>1, <2>2, <2>3, <2>4, <2>5
<1>9. CASE op = "analyze" /\ ArticlePage!AnalyzeArticleSource(s)
  <2>0. srcs' = srcs /\ SomeServed({"analyze"})'
        /\ SomeServed(ArticlesReads \cup {"schedule", "remove", "drop"})'
    BY <1>9 DEF ArticlePage!AnalyzeArticleSource, ArticlesReads
  <2>1. ArticlesSources' BY <2>0 DEF ArticlesSources
  <2>2. ArticlesScheduled' BY <2>0 DEF ArticlesScheduled
  <2>3. Selected' BY <2>0 DEF Selected
  <2>4. ArticlesNoSelection' BY <2>0 DEF ArticlesNoSelection
  <2>5. ArticlesCandidates' BY <2>0 DEF ArticlesCandidates, ArticlesWillRead
  <2> QED BY <2>1, <2>2, <2>3, <2>4, <2>5
<1>10. CASE op = "schedule" /\ ArticlePage!ScheduleArticleCandidate(s)
  <2>0. /\ srcs' = srcs /\ cands' = cands
        /\ SomeServed(ArticlesReads \cup {"schedule", "remove", "drop"})'
    BY <1>10 DEF ArticlePage!ScheduleArticleCandidate, ArticlesReads
  <2>1. ArticlesSources' BY <2>0 DEF ArticlesSources
  <2>2. ArticlesScheduled' BY <2>0 DEF ArticlesScheduled
  <2>3. Selected' BY <2>0 DEF Selected
  <2>4. ArticlesNoSelection' BY <2>0 DEF ArticlesNoSelection
  <2>5. ArticlesCandidates' BY <2>0 DEF ArticlesCandidates, ArticlesWillRead
  <2> QED BY <2>1, <2>2, <2>3, <2>4, <2>5
<1>11. CASE op = "tick" /\ ArticlePage!TickArticleScheduler
  <2>1. UNCHANGED <<srcs, cands, queue>> BY <1>11 DEF ArticlePage!TickArticleScheduler
  <2> QED BY <2>1, ArticlesHeldOn
<1> QED BY <1>0, <1>6, <1>7, <1>8, <1>9, <1>10, <1>11 DEF ArticleServes

\* What the user selects is there, or is being removed.
LEMMA ArticlesUserHeld ==
  ASSUME ArticlesTypes, ArticlesHeld, ArticlePage!User
  PROVE  ArticlesHeld'
<1>1. ASSUME NEW s \in Sources, ArticlePage!ClickSource(s) PROVE ArticlesHeld'
  <2>1. /\ s \in sources /\ s # selected /\ ArticlePage!Select(s, job)
        /\ UNCHANGED <<srcs, cands, queue, sources, candidates, scheduled>>
    BY <1>1 DEF ArticlePage!ClickSource, ArticlePage!server, ArticlePage!lists, ArticlePage!listed
  <2>2. PICK y : y = ArticlePage!Fetch("load", {"candidates"}, s) OBVIOUS
  <2>3. y.op = "load" /\ DOMAIN y.get = {"candidates"} BY <2>2 DEF ArticlePage!Fetch
  <2>4. /\ selected' = s /\ s # None
        /\ \A q \in Slots : job[q] # None => job'[q] = job[q]
        /\ \A q \in Slots : job'[q] = job[q] \/ job'[q] = y
        /\ \E q \in Slots : job[q] = None /\ job'[q] = y
    BY <2>1, <2>2, NoneIsNot, ArticlesSelect DEF ArticlesTypes
  <2>5. PICK q \in Slots : job[q] = None /\ job'[q] = y BY <2>4
  <2>6. Kept BY <2>4, <2>5, NothingLost
  <2>7. y # None
    BY <2>2, <2>4, ArticlesFetch, ArticlesFields DEF ArticlePage!Ops, FactoryPage!Lists
  <2>8. SomeGets("candidates")' BY <2>3, <2>5, <2>7, Made
  <2>9. OpeningStays BY <2>3, <2>4, <2>5, OpeningKept
  <2> USE <2>1, <2>4, <2>6, <2>8, <2>9 DEF ArticlesHeld, Kept, OpeningStays
  <2>10. ArticlesSources' BY DEF ArticlesSources
  <2>11. ArticlesScheduled' BY DEF ArticlesScheduled
  <2>12. Selected' BY DEF Selected, ArticlesSources
  <2>13. ArticlesNoSelection' BY DEF ArticlesNoSelection
  <2>14. ArticlesCandidates' BY DEF ArticlesCandidates, ArticlesWillRead
  <2> QED BY <2>10, <2>11, <2>12, <2>13, <2>14
<1>2. ASSUME NEW op \in ArticlePage!Kinds \cup {"drop", "schedule"}, NEW id \in ArticlePage!About(op),
             Asks(op, id)
      PROVE  ArticlesHeld'
  <2>1. PICK r \in Slots : job[r] = None /\ job' = [job EXCEPT ![r] = ArticlePage!Post(op, id)]
    BY <1>2, ArticlesBegin
  <2>2. PICK y : y = ArticlePage!Post(op, id) OBVIOUS
  <2>3. y.op = op BY <2>2 DEF ArticlePage!Post
  <2>4. job'[r] = y /\ \A q \in Slots : q # r => job'[q] = job[q]
    BY <2>1, <2>2 DEF ArticlesTypes
  <2>5. Kept BY <2>1, <2>4, NothingLost
  <2>6. op # "init" BY DEF ArticlePage!Kinds
  <2>7. OpeningStays BY <2>1, <2>3, <2>4, <2>6, OpeningKept
  <2>8. UNCHANGED <<srcs, cands, queue, sources, candidates, scheduled, selected>>
    BY <1>2, ArticlesBegin
  <2> QED BY <2>5, <2>7, <2>8, ArticlesHeldOn
<1> QED BY <1>1, <1>2, ArticlesAsk

\* Reading a list changes nothing.
LEMMA ArticlesReadHeld ==
  ASSUME ArticlesTypes, ArticlesHeld, NEW r \in Slots, NEW what \in FactoryPage!Lists,
         ArticlePage!Read(r, what)
  PROVE  ArticlesHeld'
<1>1. PICK x \in ArticlesRequests :
        /\ job' = [job EXCEPT ![r] = x]
        /\ x.op = job[r].op /\ x.id = job[r].id /\ x.sel = job[r].sel /\ x.list = job[r].list
        /\ ~x.sent /\ ~x.served /\ DOMAIN x.get = DOMAIN job[r].get
  BY ArticlesRead
<1>2. job'[r] = x /\ x # None /\ \A q \in Slots : q # r => job'[q] = job[q]
  BY <1>1, ArticlesFields DEF ArticlesTypes
<1>3. job[r] # None /\ ~job[r].served BY ArticlesRead, ArticlesAnswers
<1>4. Kept BY <1>1, <1>2, <1>3, NothingLost
<1>5. OpeningStays BY <1>1, <1>2, <1>3, OpeningKept
<1>6. UNCHANGED <<srcs, cands, queue, sources, candidates, scheduled, selected>>
  BY ArticlesRead
<1> QED BY <1>4, <1>5, <1>6, ArticlesHeldOn

-----------------------------------------------------------------------------
(* Proofs: the lists of the page of the articles, when a request is answered *)

\* The answer to what the user asked for.
LEMMA ArticlesAnswered ==
  ASSUME ArticlesTypes, NEW r \in Slots, job[r] # None, job[r].sent,
         \A q \in Slots : q # r /\ job[q] # None => job'[q] = job[q]
  PROVE  /\ KeptButServed(r) /\ (~job[r].served => Kept)
         /\ job[r].op \notin {"init", "all"}
<1>1. job[r] \in ArticlesRequests BY ArticlesAnswers
<1>2. job[r].op \notin {"init", "all"} /\ DOMAIN job[r].get = {}
  BY <1>1, ArticlesFields DEF ArticlesShape, ArticlePage!Kinds
<1> QED BY <1>2, LostSent

\* An article that was created is listed, selected, and has no posts.
LEMMA ArticlesCreatedHeld ==
  ASSUME ArticlesTypes, ArticlesHeld, NEW r \in Slots, ArticlePage!HandleSourceCreated(r), ~outdated'
  PROVE  ArticlesHeld'
<1>0. PICK s : s = job[r].id OBVIOUS
<1>1. /\ job[r] # None /\ job[r].op = "create" /\ job[r].sent
      /\ sources' = sources \cup {s} /\ scheduled' = scheduled
      /\ ArticlePage!Select(s, ArticlePage!Then(r, None))
      /\ UNCHANGED <<srcs, cands, queue>>
  BY <1>0, ArticlesAnswers
    DEF ArticlePage!HandleSourceCreated, ArticlePage!Answered, ArticlePage!server
<1>2. candidates' = {} BY ArticlesShow DEF ArticlePage!HandleSourceCreated
<1>3. s \in srcs /\ \A i \in cands : i[1] # s
  <2>1. ArticlePage!Unless(s \in srcs /\ ArticlePage!FetchArticleCandidates(s) = {})
    BY <1>0 DEF ArticlePage!HandleSourceCreated
  <2>2. s \in srcs /\ ArticlePage!FetchArticleCandidates(s) = {} BY <2>1, ArticlesUnless
  <2> QED BY <2>2 DEF ArticlePage!FetchArticleCandidates
<1>4. s \in Sources /\ s # None BY <1>3, NoneIsNot DEF ArticlesTypes
<1>5. /\ selected' = s
      /\ \A q \in Slots : q # r /\ job[q] # None => job'[q] = job[q]
      /\ s # selected => SomeGets("candidates")'
      /\ OpeningStays
  BY <1>1, <1>4, ArticlesSelected
<1>6. KeptButServed(r) BY <1>1, <1>5, ArticlesAnswered
<1> USE <1>0, <1>1, <1>2, <1>3, <1>4, <1>5, <1>6 DEF ArticlesHeld, KeptButServed, OpeningStays
<1>7. ArticlesSources' BY DEF ArticlesSources
<1>8. ArticlesScheduled' BY DEF ArticlesScheduled, ArticlesReads
<1>9. Selected' BY DEF Selected
<1>10. ArticlesNoSelection' BY DEF ArticlesNoSelection
<1>11. ArticlesCandidates' BY DEF ArticlesCandidates
<1> QED BY <1>7, <1>8, <1>9, <1>10, <1>11

\* A refresh takes the place of the request it follows, if something was selected.
LEMMA ArticlesRefreshHeld ==
  ASSUME ArticlesTypes, ArticlesHeld, NEW r \in Slots, job[r] # None, job[r].sent,
         job[r].op \in ArticlesReads, job[r].op = "analyze" => job[r].sel # None,
         job' = ArticlePage!Then(r, ArticlePage!RefreshAll(job[r].sel)),
         UNCHANGED <<srcs, cands, queue, sources, candidates, scheduled, selected>>
  PROVE  ArticlesHeld'
<1>1. PICK sel, y : sel = job[r].sel /\ y = ArticlePage!RefreshAll(sel) OBVIOUS
<1>2. job[r].sel \in Sources \cup {None} BY ArticlesAnswers
<1>3. y \in ArticlesRequests /\ y # None BY <1>1, <1>2, ArticlesRefreshAll, ArticlesFields
<1>4. y.op = "all" /\ y.sel = sel /\ DOMAIN y.get = {"sources", "scheduled"}
  BY <1>1 DEF ArticlePage!RefreshAll, ArticlePage!Fetch
<1>5. job'[r] = y /\ \A q \in Slots : q # r => job'[q] = job[q]
  BY <1>1, <1>3, ArticlesThen
<1>6. KeptButServed(r) BY <1>5, ArticlesAnswered
<1>7. OpeningStays BY <1>4, <1>5, OpeningKept DEF ArticlesReads
<1>8. SomeGets("sources")' /\ SomeGets("scheduled")' /\ (sel # None => \A Ops : SomeRefreshes(Ops)')
  BY <1>3, <1>4, <1>5, Made
<1> USE <1>1, <1>6, <1>7, <1>8 DEF ArticlesHeld, KeptButServed, OpeningStays
<1>9. ArticlesSources' BY DEF ArticlesSources, ArticlesReads
<1>10. ArticlesScheduled' BY DEF ArticlesScheduled
<1>11. Selected' BY DEF Selected, ArticlesReads
<1>12. ArticlesNoSelection' BY DEF ArticlesNoSelection, ArticlesReads
<1>13. ArticlesCandidates' BY DEF ArticlesCandidates, ArticlesWillRead, ArticlesReads
<1> QED BY <1>9, <1>10, <1>11, <1>12, <1>13

\* The schedule is read again when a post was scheduled, or removed.
LEMMA ArticlesRelist ==
  \E y \in ArticlesRequests :
    /\ y = [ArticlePage!RefreshScheduled EXCEPT !.op = "list"]
    /\ y.op = "list" /\ DOMAIN y.get = {"scheduled"}
<1>1. PICK f : f = ArticlePage!RefreshScheduled OBVIOUS
<1>2. f = [op |-> "remove", sent |-> FALSE, served |-> FALSE, id |-> None, sel |-> None,
           list |-> {}, again |-> {}, get |-> [w \in {"scheduled"} |-> None]]
  BY <1>1 DEF ArticlePage!RefreshScheduled, ArticlePage!Fetch
<1>3. PICK y : y = [f EXCEPT !.op = "list"] OBVIOUS
<1>4. y.op = "list" /\ DOMAIN y.get = {"scheduled"} BY <1>2, <1>3
<1>5. y = [ArticlePage!RefreshScheduled EXCEPT !.op = "list"] BY <1>1, <1>3
<1>6. y \in ArticlesRequests BY <1>5, ArticlesRefetch
<1> QED BY <1>4, <1>5, <1>6

\* Until then it is on its way.
LEMMA ArticlesListed ==
  ASSUME ArticlesTypes, NEW r \in Slots, job[r] # None, job[r].sent,
         NEW y \in ArticlesRequests, y.op = "list", DOMAIN y.get = {"scheduled"},
         job' = ArticlePage!Then(r, y)
  PROVE  KeptButServed(r) /\ OpeningStays /\ SomeGets("scheduled")'
<1>1. job'[r] = y /\ \A q \in Slots : q # r => job'[q] = job[q]
  BY ArticlesThen
<1>2. y # None BY ArticlesFields
<1>3. KeptButServed(r) /\ job[r].op # "init" BY <1>1, ArticlesAnswered
<1>4. OpeningStays BY <1>1, <1>3, OpeningKept
<1>5. SomeGets("scheduled")' BY <1>1, <1>2, Made
<1> QED BY <1>3, <1>4, <1>5

\* A post that was scheduled is in the queue, and will be in the schedule.
LEMMA ArticlesPostHeld ==
  ASSUME ArticlesTypes, ArticlesHeld, NEW r \in Slots, ArticlePage!OnScheduled(r)
  PROVE  ArticlesHeld'
<1>1. /\ job[r] # None /\ job[r].op = "schedule" /\ job[r].sent
      /\ UNCHANGED <<srcs, cands, queue, sources, candidates, scheduled, selected>>
  BY ArticlesAnswers
    DEF ArticlePage!OnScheduled, ArticlePage!Answered, ArticlePage!server, ArticlePage!lists, ArticlePage!listed
<1>2. KeptButServed(r) /\ OpeningStays /\ SomeGets("scheduled")'
  BY <1>1, ArticlesListed, ArticlesRelist DEF ArticlePage!OnScheduled
<1> USE <1>1, <1>2 DEF ArticlesHeld, KeptButServed, OpeningStays
<1>3. ArticlesSources' BY DEF ArticlesSources
<1>4. ArticlesScheduled' BY DEF ArticlesScheduled
<1>5. Selected' BY DEF Selected
<1>6. ArticlesNoSelection' BY DEF ArticlesNoSelection
<1>7. ArticlesCandidates' BY DEF ArticlesCandidates, ArticlesWillRead, ArticlesReads
<1> QED BY <1>3, <1>4, <1>5, <1>6, <1>7

\* A post that was removed is gone, from the page as from the server.
LEMMA ArticlesDroppedHeld ==
  ASSUME ArticlesTypes, ArticlesHeld, NEW r \in Slots, ArticlePage!HandleCandidateDeleted(r), ~outdated'
  PROVE  ArticlesHeld'
<1>0. PICK i : i = job[r].id OBVIOUS
<1>1. /\ job[r] # None /\ job[r].op = "drop" /\ job[r].sent
      /\ UNCHANGED <<srcs, cands, queue, sources, scheduled, selected>>
  BY ArticlesAnswers
    DEF ArticlePage!HandleCandidateDeleted, ArticlePage!Answered, ArticlePage!server,
        ArticlePage!listed
<1>2. candidates' = candidates \ {i}
  <2>1. candidates \ {i} \in SUBSET FactoryPage!Ids BY DEF ArticlesTypes
  <2> QED BY <1>0, <2>1, ArticlesShow DEF ArticlePage!HandleCandidateDeleted
<1>3. i \notin cands
  <2>1. ArticlePage!Unless(i \notin cands) BY <1>0 DEF ArticlePage!HandleCandidateDeleted
  <2> QED BY <2>1, ArticlesUnless
<1>4. KeptButServed(r) /\ OpeningStays /\ SomeGets("scheduled")'
  BY <1>1, ArticlesListed, ArticlesRelist DEF ArticlePage!HandleCandidateDeleted
<1> USE <1>0, <1>1, <1>2, <1>3, <1>4 DEF ArticlesHeld, KeptButServed, OpeningStays
<1>5. ArticlesSources' BY DEF ArticlesSources
<1>6. ArticlesScheduled' BY DEF ArticlesScheduled
<1>7. Selected' BY DEF Selected
<1>8. ArticlesNoSelection' BY DEF ArticlesNoSelection
<1>9. ArticlesCandidates' BY DEF ArticlesCandidates, ArticlesWillRead, ArticlesReads
<1> QED BY <1>5, <1>6, <1>7, <1>8, <1>9

\* An article that was removed is gone, and another is selected in its place.
LEMMA ArticlesRemovedHeld ==
  ASSUME ArticlesTypes, ArticlesHeld, NEW r \in Slots, ArticlePage!HandleSourceDeleted(r), ~outdated'
  PROVE  ArticlesHeld'
<1>0. PICK s, first, next : /\ s = job[r].id /\ first = ArticlePage!First(job[r].list \ {s})
                            /\ next = [ArticlePage!RefreshScheduled EXCEPT !.id = s]
  OBVIOUS
<1>1. /\ job[r] # None /\ job[r].op = "remove" /\ job[r].served /\ job[r] \in ArticlesRequests
      /\ s \in Sources /\ s \in job[r].list
      /\ next \in ArticlesRequests /\ next.op = "remove" /\ DOMAIN next.get = {"scheduled"}
      /\ first \in Sources \cup {None} /\ (job[r].list \ {s} # {} => first \in job[r].list \ {s})
      /\ job[r].list \ {s} = {} => first = None
      /\ sources' = job[r].list \ {s} /\ UNCHANGED <<srcs, cands, queue, scheduled>>
      /\ s \notin srcs /\ job[r].list = sources /\ job[r].sel = selected
      /\ job[r].sel = s => /\ ArticlePage!Select(first, ArticlePage!Then(r, next))
                           /\ ArticlePage!Show(IF job[r].list \ {s} = {} THEN {} ELSE candidates)
      /\ job[r].sel # s => /\ job' = ArticlePage!Then(r, next)
                           /\ UNCHANGED <<selected, candidates, deleting>>
  BY <1>0, ArticlesRemoved
<1>2. job[r].sent /\ s # None BY <1>1, ArticlesAnswers, NoneIsNot
<1>3. next # None BY <1>1, ArticlesFields
<1>4. selected = s =>
        /\ selected' = first
        /\ \A q \in Slots : q # r /\ job[q] # None => job'[q] = job[q]
        /\ job'[r] = next
        /\ first # None => SomeGets("candidates")'
        /\ OpeningStays
        /\ candidates' = IF sources \ {s} = {} THEN {} ELSE candidates
  <2> SUFFICES ASSUME selected = s
               PROVE  /\ selected' = first
                      /\ \A q \in Slots : q # r /\ job[q] # None => job'[q] = job[q]
                      /\ job'[r] = next
                      /\ first # None => SomeGets("candidates")'
                      /\ OpeningStays
                      /\ candidates' = IF sources \ {s} = {} THEN {} ELSE candidates
    OBVIOUS
  <2>1. first # selected BY <1>1, <1>2
  <2>2. ArticlePage!Select(first, ArticlePage!Then(r, next)) BY <1>1
  <2>3. /\ selected' = first
        /\ \A q \in Slots : q # r /\ job[q] # None => job'[q] = job[q]
        /\ job'[r] = next
        /\ first # None => SomeGets("candidates")'
        /\ OpeningStays
    BY <1>1, <1>3, <2>1, <2>2, ArticlesSelected
  <2>4. PICK new : new = IF sources \ {s} = {} THEN {} ELSE candidates OBVIOUS
  <2>5. new \in SUBSET FactoryPage!Ids BY <2>4 DEF ArticlesTypes
  <2>6. candidates' = new BY <1>1, <2>4, <2>5, ArticlesShow
  <2> QED BY <2>3, <2>4, <2>6
<1>5. selected # s =>
        /\ UNCHANGED <<selected, candidates>>
        /\ \A q \in Slots : q # r => job'[q] = job[q]
        /\ job'[r] = next /\ OpeningStays
  <2> SUFFICES ASSUME selected # s
               PROVE  /\ UNCHANGED <<selected, candidates>>
                      /\ \A q \in Slots : q # r => job'[q] = job[q]
                      /\ job'[r] = next /\ OpeningStays
    OBVIOUS
  <2>1. UNCHANGED <<selected, candidates>> /\ job' = ArticlePage!Then(r, next) BY <1>1
  <2>2. (\A q \in Slots : q # r => job'[q] = job[q]) /\ job'[r] = next
    BY <1>1, <2>1, ArticlesThen
  <2>3. OpeningStays BY <1>1, <2>2, OpeningKept
  <2> QED BY <2>1, <2>2, <2>3
<1>6. /\ \A q \in Slots : q # r /\ job[q] # None => job'[q] = job[q]
      /\ job'[r] = next /\ OpeningStays
  BY <1>4, <1>5
<1>7. KeptButServed(r) BY <1>1, <1>2, <1>6, ArticlesAnswered
<1>8. SomeGets("scheduled")' BY <1>1, <1>3, <1>6, Made
<1>9. sources' = sources \ {s} BY <1>1
<1>10. first \in sources \/ first = None BY <1>1
<1> USE <1>2, <1>4, <1>5, <1>6, <1>7, <1>8, <1>9, <1>10 DEF ArticlesHeld, KeptButServed, OpeningStays
<1>11. s = job[r].id /\ job[r].op = "remove" /\ s \notin srcs /\ UNCHANGED <<srcs, cands, queue,
                                                                             scheduled>>
  BY <1>0, <1>1
<1>12. ArticlesSources' BY <1>11 DEF ArticlesSources
<1>13. ArticlesScheduled' BY <1>11 DEF ArticlesScheduled
<1>14. Selected' BY <1>1, <1>11 DEF Selected, ArticlesSources
<1>15. ArticlesNoSelection'
  <2>1. CASE selected = s
    <3> SUFFICES ASSUME first = None PROVE ArticlesNoSelection'
      BY <2>1 DEF ArticlesNoSelection
    <3>1. sources' = {} /\ candidates' = {}
      <4>1. None \notin sources BY NoneIsNot DEF ArticlesTypes
      <4>2. sources \ {s} = {} BY <1>1, <4>1
      <4> QED BY <2>1, <4>2
    <3>2. \A t \in srcs : ServedFor("create", t) \/ OpensSources
      BY <1>11, <3>1 DEF ArticlesSources
    <3>3. \A t \in srcs : ServedFor("create", t)' \/ OpensSources' BY <1>11, <3>2
    <3> QED BY <1>11, <3>1, <3>3 DEF ArticlesNoSelection
  <2>2. CASE selected # s
    <3> SUFFICES ASSUME selected = None PROVE ArticlesNoSelection'
      BY <2>2 DEF ArticlesNoSelection
    <3>1. /\ \A t \in srcs \cup sources : ServedFor("create", t) \/ OpensSources
          /\ candidates # {} => SomeServed({"create", "remove"}) /\ ~OpensSources
      BY DEF ArticlesNoSelection
    <3>2. \A t \in srcs' \cup sources' : ServedFor("create", t)' \/ OpensSources'
      BY <1>11, <3>1
    <3>3. candidates # {} => SomeServed({"create", "remove"})'
      <4> SUFFICES ASSUME candidates # {} PROVE SomeServed({"create", "remove"})' OBVIOUS
      <4>1. ServedFor("create", s) BY <1>1, <3>1
      <4>2. ServedFor("create", s)' BY <1>11, <4>1
      <4> QED BY <4>2 DEF ServedFor, SomeServed
    <3> QED BY <2>2, <3>1, <3>2, <3>3 DEF ArticlesNoSelection
  <2> QED BY <2>1, <2>2
<1>16. ArticlesCandidates'
  <2>1. CASE selected = s BY <2>1 DEF ArticlesCandidates, ArticlesWillRead
  <2>2. CASE selected # s BY <1>11, <2>2 DEF ArticlesCandidates, ArticlesWillRead, ArticlesReads
  <2> QED BY <2>1, <2>2
<1> QED BY <1>12, <1>13, <1>14, <1>15, <1>16

-----------------------------------------------------------------------------
(* Proofs: the lists of the page of the articles, when a list arrives *)

\* The list that arrives is the present one.
LEMMA ArticlesShown ==
  ASSUME ArticlesTypes, NEW r \in Slots, NEW what \in FactoryPage!Lists,
         ArticlePage!Arrives(r, what), ArticlePage!Shown(r, what), ~outdated'
  PROVE  /\ what = "sources" => ArticlePage!Data(r, what) = srcs
         /\ what = "scheduled" => ArticlePage!Data(r, what) = queue
         /\ what = "candidates" =>
              /\ job[r].sel = selected
              /\ ArticlePage!Data(r, what) = {i \in cands : job[r].sel = None \/ i[1] = job[r].sel}
<1>1. /\ ArticlePage!Data(r, what) = ArticlePage!Stored(what, job[r].sel)
      /\ what = "candidates" => job[r].sel = selected
  BY ArticlesUnless DEF ArticlePage!Shown
<1>2. what = "sources" => ArticlePage!Stored(what, job[r].sel) = srcs
  BY Zenon DEF ArticlePage!Stored, ArticlePage!FetchArticleSources
<1>3. what = "scheduled" => ArticlePage!Stored(what, job[r].sel) = queue
  <2>1. "scheduled" # "sources" OBVIOUS
  <2> QED BY <2>1, Zenon DEF ArticlePage!Stored, ArticlePage!FetchArticleScheduled
<1>4. what = "candidates" =>
        ArticlePage!Stored(what, job[r].sel) = ArticlePage!FetchArticleCandidates(job[r].sel)
  <2>1. "candidates" # "sources" /\ "candidates" # "scheduled" OBVIOUS
  <2> QED BY <2>1, Zenon DEF ArticlePage!Stored
<1> QED BY <1>1, <1>2, <1>3, <1>4 DEF ArticlePage!FetchArticleCandidates

\* A request that reads lists.
LEMMA ArticlesArrives ==
  ASSUME ArticlesTypes, NEW r \in Slots, NEW what \in FactoryPage!Lists, ArticlePage!Arrives(r, what)
  PROVE  /\ job[r] # None /\ job[r] \in ArticlesRequests /\ ~job[r].sent
         /\ what \in DOMAIN job[r].get /\ job[r].sel \in Sources \cup {None}
         /\ ArticlePage!Data(r, what) \in ListOf(what)
         /\ LET W == DOMAIN job[r].get IN
            \/ job[r].op = "init" /\ (W = {"sources"} \/ W = {"candidates", "scheduled"})
            \/ job[r].op = "all" /\ W \subseteq {"sources", "scheduled"}
            \/ job[r].op \in {"all", "load"} /\ W = {"candidates"} /\ job[r].sel # None
            \/ job[r].op \in {"remove", "list"} /\ W = {"scheduled"}
<1>1. job[r] # None /\ what \in DOMAIN job[r].get /\ job[r].get[what] # None
  BY DEF ArticlePage!Arrives
<1>2. /\ job[r] \in ArticlesRequests /\ ~job[r].sent /\ job[r].sel \in Sources \cup {None}
      /\ job[r].get[what] \in ListOf(what)
  BY <1>1, ArticlesAnswers
<1> QED BY <1>1, <1>2, ArticlesFields DEF ArticlesShape, ArticlePage!Data

\* When the page opens, it lists the articles there are and selects one.
LEMMA ArticlesInitHeld ==
  ASSUME ArticlesTypes, ArticlesHeld, NEW r \in Slots, ArticlePage!InitSources(r), ~outdated'
  PROVE  ArticlesHeld'
<1>0. PICK first, next : /\ first = ArticlePage!First(srcs)
                         /\ next = ArticlePage!Fetch("init", {"candidates", "scheduled"}, first)
  OBVIOUS
<1>1. ArticlePage!Arrives(r, "sources") /\ ArticlePage!Shown(r, "sources") /\ job[r].op = "init"
  BY DEF ArticlePage!InitSources
<1>2. /\ job[r] # None /\ ~job[r].sent /\ DOMAIN job[r].get = {"sources"}
      /\ ArticlePage!Data(r, "sources") = srcs
  BY <1>1, ArticlesArrives, ArticlesShown DEF FactoryPage!Lists
<1>3. /\ sources' = srcs /\ ArticlePage!Select(first, ArticlePage!Then(r, next))
      /\ UNCHANGED <<srcs, cands, queue, candidates, scheduled>>
  BY <1>0, <1>2 DEF ArticlePage!InitSources, ArticlePage!ShowSources, ArticlePage!server
<1>4. /\ first \in Sources \cup {None} /\ (srcs = {} => first = None)
      /\ srcs # {} => first \in srcs
  BY <1>0, FirstSelects DEF ArticlesTypes
<1>5. next \in ArticlesRequests /\ next # None
  BY <1>0, <1>4, ArticlesFetch, ArticlesFields DEF ArticlePage!Ops, FactoryPage!Lists
<1>6. next.op = "init" /\ DOMAIN next.get = {"candidates", "scheduled"}
  BY <1>0 DEF ArticlePage!Fetch
<1>7. /\ selected' = first
      /\ \A q \in Slots : q # r /\ job[q] # None => job'[q] = job[q]
      /\ job'[r] = next
      /\ \A q \in Slots : job'[q] # None => \/ q # r /\ job'[q] = job[q]
                                            \/ q = r /\ job'[q] = next
                                            \/ job'[q].op = "load"
  BY <1>2, <1>3, <1>4, <1>5, ArticlesSelected
<1>8. KeptButRead(r) BY <1>2, <1>7, LostRead
<1>9. SomeOpens' BY <1>5, <1>6, <1>7, Made
<1>10. None \notin srcs BY NoneIsNot DEF ArticlesTypes
<1>11. OpensSources /\ OneOpens
  BY <1>1, <1>2 DEF OpensSources, Opens, Gets, ArticlesHeld
<1>12. OneOpens' /\ ~OpensSources'
  <2>1. \A q \in Slots : Opens(q)' => q = r
    <3> SUFFICES ASSUME NEW q \in Slots, Opens(q)', q # r PROVE FALSE OBVIOUS
    <3>1. job'[q] # None /\ job'[q].op = "init" BY DEF Opens
    <3>2. job'[q] = job[q] BY <1>7, <3>1
    <3>3. Opens(q) /\ Opens(r) BY <1>1, <1>2, <3>1, <3>2 DEF Opens
    <3> QED BY <1>11, <3>3 DEF OneOpens
  <2>2. ~Gets(r, "sources")' BY <1>6, <1>7 DEF Gets
  <2> QED BY <2>1, <2>2 DEF OneOpens, OpensSources
<1> USE <1>1, <1>2, <1>3, <1>4, <1>7, <1>8, <1>9, <1>10, <1>11, <1>12 DEF ArticlesHeld, KeptButRead
<1>13. ArticlesSources' BY DEF ArticlesSources
<1>14. ArticlesScheduled' BY DEF ArticlesScheduled
<1>15. Selected' BY DEF Selected
<1>16. ArticlesNoSelection'
  <2> SUFFICES ASSUME first = None PROVE ArticlesNoSelection' BY DEF ArticlesNoSelection
  <2>1. srcs = {} OBVIOUS
  <2>2. candidates # {} => SomeServed({"create", "remove"})'
    <3>1. CASE selected = None BY <3>1 DEF ArticlesNoSelection
    <3>2. CASE selected # None
      <4>1. ServedFor("remove", selected) BY <2>1, <3>2 DEF Selected
      <4>2. SomeServed({"create", "remove"}) BY <4>1 DEF ServedFor, SomeServed
      <4> QED BY <4>2
    <3> QED BY <3>1, <3>2
  <2> QED BY <2>1, <2>2 DEF ArticlesNoSelection
<1>17. ArticlesCandidates' BY DEF ArticlesCandidates, ArticlesWillRead
<1> QED BY <1>12, <1>13, <1>14, <1>15, <1>16, <1>17

\* Then it lists the posts of what is selected by then, and the schedule.
LEMMA ArticlesInitRestHeld ==
  ASSUME ArticlesTypes, ArticlesHeld, NEW r \in Slots, ArticlePage!InitRest(r), ~outdated'
  PROVE  ArticlesHeld'
<1>1. ArticlePage!Arrives(r, "candidates") /\ job[r].op = "init"
  BY DEF ArticlePage!InitRest
<1>2. /\ job[r] # None /\ ~job[r].sent /\ DOMAIN job[r].get = {"candidates", "scheduled"}
      /\ ArticlePage!Data(r, "candidates") \in SUBSET FactoryPage!Ids
  BY <1>1, ArticlesArrives DEF FactoryPage!Lists, ListOf
<1>3. /\ candidates' = {i \in cands : selected = None \/ i[1] = selected} /\ scheduled' = queue
  <2>1. ArticlePage!Unless(/\ ArticlePage!Data(r, "candidates")
                              = ArticlePage!FetchArticleCandidates(selected)
                           /\ ArticlePage!Data(r, "scheduled") = queue)
    BY DEF ArticlePage!InitRest
  <2>2. /\ ArticlePage!Data(r, "candidates") = ArticlePage!FetchArticleCandidates(selected)
        /\ ArticlePage!Data(r, "scheduled") = queue
    BY <2>1, ArticlesUnless
  <2>3. candidates' = ArticlePage!Data(r, "candidates")
    BY <1>2, ArticlesShow DEF ArticlePage!InitRest
  <2> QED BY <2>2, <2>3 DEF ArticlePage!InitRest, ArticlePage!FetchArticleCandidates
<1>4. UNCHANGED <<srcs, cands, queue, sources, selected>>
  BY DEF ArticlePage!InitRest, ArticlePage!server, ArticlePage!listed
<1>5. (\A q \in Slots : q # r => job'[q] = job[q]) /\ job'[r] = None
  BY DEF ArticlePage!InitRest, ArticlePage!Then, ArticlesTypes
<1>6. KeptButRead(r) BY <1>2, <1>5, LostRead
<1>7. OpeningStays BY <1>1, <1>2, <1>5, OpeningKept
<1>8. ~OpensSources
  <2> SUFFICES ASSUME NEW q \in Slots, Opens(q), Gets(q, "sources") PROVE FALSE
    BY DEF OpensSources
  <2>1. Opens(r) BY <1>1, <1>2 DEF Opens
  <2>2. q = r BY <2>1 DEF ArticlesHeld, OneOpens
  <2> QED BY <1>2, <2>2 DEF Gets
<1>9. \A i \in cands : i[1] \in srcs BY DEF ArticlesTypes
<1> USE <1>1, <1>2, <1>3, <1>4, <1>6, <1>7, <1>8, <1>9 DEF ArticlesHeld, KeptButRead, OpeningStays
<1>10. ArticlesSources' BY DEF ArticlesSources
<1>11. ArticlesScheduled' BY DEF ArticlesScheduled
<1>12. Selected' BY DEF Selected
<1>13. ArticlesNoSelection'
  <2> SUFFICES ASSUME selected = None PROVE ArticlesNoSelection' BY DEF ArticlesNoSelection
  <2>1. \A t \in srcs \cup sources : ServedFor("create", t) BY DEF ArticlesNoSelection
  <2>2. \A t \in srcs' \cup sources' : ServedFor("create", t)' BY <2>1
  <2>3. candidates' # {} => SomeServed({"create", "remove"})'
    <3> SUFFICES ASSUME NEW i \in cands PROVE SomeServed({"create", "remove"})' OBVIOUS
    <3>1. ServedFor("create", i[1])' BY <2>1
    <3> QED BY <3>1 DEF ServedFor, SomeServed
  <2> QED BY <2>2, <2>3 DEF ArticlesNoSelection
<1>14. ArticlesCandidates' BY DEF ArticlesCandidates
<1> QED BY <1>10, <1>11, <1>12, <1>13, <1>14

\* The articles are read again.
LEMMA ArticlesSourcesHeld ==
  ASSUME ArticlesTypes, ArticlesHeld, NEW r \in Slots, ArticlePage!RefreshSources(r), ~outdated'
  PROVE  ArticlesHeld'
<1>0. PICK sel : sel = job[r].sel OBVIOUS
<1>1. ArticlePage!Arrives(r, "sources") /\ ArticlePage!Shown(r, "sources") /\ job[r].op = "all"
  BY DEF ArticlePage!RefreshSources
<1>2. /\ job[r] # None /\ ~job[r].sent /\ DOMAIN job[r].get \subseteq {"sources", "scheduled"}
      /\ "sources" \in DOMAIN job[r].get
      /\ ArticlePage!Data(r, "sources") = srcs /\ sel \in Sources \cup {None}
  BY <1>0, <1>1, ArticlesArrives, ArticlesShown DEF FactoryPage!Lists
<1>3. /\ sources' = srcs /\ job' = ArticlePage!Rest(r, "sources")
      /\ UNCHANGED <<srcs, cands, queue, candidates, scheduled, selected>>
  BY <1>2 DEF ArticlePage!RefreshSources, ArticlePage!ShowSources, ArticlePage!server
<1>4. PICK x \in ArticlesRequests \cup {None} :
        job' = [job EXCEPT ![r] = x] /\ ArticleRestIs(r, "sources", x)
  BY <1>1, <1>2, <1>3, ArticlesRest
<1>5. job'[r] = x /\ \A q \in Slots : q # r => job'[q] = job[q]
  BY <1>4 DEF ArticlesTypes
<1>6. KeptButRead(r) BY <1>2, <1>5, LostRead
<1>7. "scheduled" \in DOMAIN job[r].get => SomeGets("scheduled")'
  BY <1>4, <1>5, Made DEF ArticleRestIs
<1>8. /\ sel # None => x # None /\ x.sel = sel
      /\ x # None => x.op = "all"
  <2>1. CASE DOMAIN job[r].get \ {"sources"} # {} BY <1>0, <1>1, <1>4, <2>1 DEF ArticleRestIs
  <2>2. CASE DOMAIN job[r].get \ {"sources"} = {} /\ sel # None
    <3>1. x = ArticlePage!Fetch("all", {"candidates"}, sel)
      BY <1>0, <1>1, <1>4, <2>2 DEF ArticleRestIs
    <3>2. x # None
      BY <1>2, <2>2, <3>1, ArticlesFetch, ArticlesFields DEF ArticlePage!Ops, FactoryPage!Lists
    <3> QED BY <3>1, <3>2 DEF ArticlePage!Fetch
  <2>3. CASE DOMAIN job[r].get \ {"sources"} = {} /\ sel = None
    BY <1>0, <1>4, <2>3 DEF ArticleRestIs
  <2> QED BY <2>1, <2>2, <2>3
<1>9. sel # None => \A Ops : SomeRefreshes(Ops)' BY <1>5, <1>8, Made
<1>10. OpeningStays BY <1>1, <1>5, <1>8, OpeningKept
<1> USE <1>0, <1>1, <1>2, <1>3, <1>6, <1>7, <1>9, <1>10 DEF ArticlesHeld, KeptButRead, OpeningStays
<1>11. ArticlesSources' BY DEF ArticlesSources
<1>12. ArticlesScheduled' BY DEF ArticlesScheduled
<1>13. Selected' BY DEF Selected
<1>14. ArticlesNoSelection' BY DEF ArticlesNoSelection
<1>15. ArticlesCandidates' BY DEF ArticlesCandidates, ArticlesWillRead
<1> QED BY <1>11, <1>12, <1>13, <1>14, <1>15

\* The schedule is read.
LEMMA ArticlesScheduledHeld ==
  ASSUME ArticlesTypes, ArticlesHeld, NEW r \in Slots, ArticlePage!ScheduledArrives(r), ~outdated'
  PROVE  ArticlesHeld'
<1>0. PICK sel : sel = job[r].sel OBVIOUS
<1>1. /\ ArticlePage!Arrives(r, "scheduled") /\ ArticlePage!Shown(r, "scheduled")
      /\ job[r].op # "init"
  BY DEF ArticlePage!ScheduledArrives
<1>2. /\ job[r] # None /\ ~job[r].sent /\ DOMAIN job[r].get \subseteq {"sources", "scheduled"}
      /\ "scheduled" \in DOMAIN job[r].get
      /\ ArticlePage!Data(r, "scheduled") = queue /\ sel \in Sources \cup {None}
  BY <1>0, <1>1, ArticlesArrives, ArticlesShown DEF FactoryPage!Lists
<1>3. /\ scheduled' = queue /\ job' = ArticlePage!Rest(r, "scheduled")
      /\ UNCHANGED <<srcs, cands, queue, sources, candidates, selected>>
  BY <1>2 DEF ArticlePage!ScheduledArrives, ArticlePage!server, ArticlePage!listed
<1>4. PICK x \in ArticlesRequests \cup {None} :
        job' = [job EXCEPT ![r] = x] /\ ArticleRestIs(r, "scheduled", x)
  BY <1>1, <1>2, <1>3, ArticlesRest
<1>5. job'[r] = x /\ \A q \in Slots : q # r => job'[q] = job[q]
  BY <1>4 DEF ArticlesTypes
<1>6. KeptButRead(r) BY <1>2, <1>5, LostRead
<1>7. /\ job[r].op = "all" /\ sel # None => x # None /\ x.op = "all" /\ x.sel = sel
      /\ x # None => x.op # "init"
  <2>1. CASE DOMAIN job[r].get \ {"scheduled"} # {} BY <1>0, <1>1, <1>4, <2>1 DEF ArticleRestIs
  <2>2. CASE DOMAIN job[r].get \ {"scheduled"} = {} /\ job[r].op = "all" /\ sel # None
    <3>1. x = ArticlePage!Fetch("all", {"candidates"}, sel)
      BY <1>0, <1>4, <2>2 DEF ArticleRestIs
    <3>2. x # None
      BY <1>2, <2>2, <3>1, ArticlesFetch, ArticlesFields DEF ArticlePage!Ops, FactoryPage!Lists
    <3> QED BY <3>1, <3>2 DEF ArticlePage!Fetch
  <2>3. CASE DOMAIN job[r].get \ {"scheduled"} = {} /\ ~(job[r].op = "all" /\ sel # None)
    BY <1>0, <1>4, <2>3 DEF ArticleRestIs
  <2> QED BY <2>1, <2>2, <2>3
<1>8. job[r].op = "all" /\ sel # None => \A Ops : SomeRefreshes(Ops)' BY <1>5, <1>7, Made
<1>9. OpeningStays BY <1>1, <1>5, <1>7, OpeningKept
<1> USE <1>0, <1>1, <1>2, <1>3, <1>6, <1>8, <1>9 DEF ArticlesHeld, KeptButRead, OpeningStays
<1>10. ArticlesSources' BY DEF ArticlesSources
<1>11. ArticlesScheduled' BY DEF ArticlesScheduled
<1>12. Selected' BY DEF Selected
<1>13. ArticlesNoSelection' BY DEF ArticlesNoSelection
<1>14. ArticlesCandidates' BY DEF ArticlesCandidates, ArticlesWillRead
<1> QED BY <1>10, <1>11, <1>12, <1>13, <1>14

\* The posts of the selection are read.
LEMMA ArticlesCandidatesHeld ==
  ASSUME ArticlesTypes, ArticlesHeld, NEW r \in Slots, ArticlePage!RefreshCandidates(r), ~outdated'
  PROVE  ArticlesHeld'
<1>1. /\ ArticlePage!Arrives(r, "candidates") /\ ArticlePage!Shown(r, "candidates")
      /\ job[r].op # "init"
  BY DEF ArticlePage!RefreshCandidates
<1>2. /\ job[r] # None /\ ~job[r].sent /\ DOMAIN job[r].get = {"candidates"}
      /\ selected # None /\ ArticlePage!Data(r, "candidates") \in SUBSET FactoryPage!Ids
      /\ ArticlePage!Data(r, "candidates") = {i \in cands : i[1] = selected}
  BY <1>1, ArticlesArrives, ArticlesShown DEF FactoryPage!Lists, ListOf
<1>3. /\ candidates' = {i \in cands : i[1] = selected}
      /\ job' = ArticlePage!Rest(r, "candidates")
      /\ UNCHANGED <<srcs, cands, queue, sources, scheduled, selected>>
  BY <1>2, ArticlesShow DEF ArticlePage!RefreshCandidates, ArticlePage!server, ArticlePage!listed
<1>4. PICK x \in ArticlesRequests \cup {None} :
        job' = [job EXCEPT ![r] = x] /\ ArticleRestIs(r, "candidates", x)
  BY <1>1, <1>2, <1>3, ArticlesRest
<1>5. job'[r] = x /\ \A q \in Slots : q # r => job'[q] = job[q]
  BY <1>4 DEF ArticlesTypes
<1>6. KeptButRead(r) BY <1>2, <1>5, LostRead
<1>7. x = None BY <1>2, <1>4 DEF ArticleRestIs
<1>8. OpeningStays BY <1>1, <1>5, <1>7, OpeningKept
<1> USE <1>1, <1>2, <1>3, <1>6, <1>8 DEF ArticlesHeld, KeptButRead, OpeningStays
<1>9. ArticlesSources' BY DEF ArticlesSources
<1>10. ArticlesScheduled'
  <2>1. SomeGets("scheduled") => SomeGets("scheduled")' OBVIOUS
  <2> QED BY <2>1 DEF ArticlesScheduled
<1>11. Selected' BY DEF Selected
<1>12. ArticlesNoSelection' BY DEF ArticlesNoSelection
<1>13. ArticlesCandidates' BY DEF ArticlesCandidates
<1> QED BY <1>9, <1>10, <1>11, <1>12, <1>13

-----------------------------------------------------------------------------
(* Proofs: the lists of the page of the articles, whatever happens *)

\* A request that fails was not served, or is an analysis of what is shown.
LEMMA ArticlesFailsHeld ==
  ASSUME ArticlesTypes, ArticlesHeld, NEW r \in Slots, ArticlePage!Fails(r), ~outdated'
  PROVE  ArticlesHeld'
<1>1. /\ job[r] # None
      /\ UNCHANGED <<srcs, cands, queue, sources, candidates, scheduled, selected>>
  BY DEF ArticlePage!Fails, ArticlePage!server, ArticlePage!lists, ArticlePage!listed
<1>2. \/ job[r].op = "analyze" /\ job[r].sel # None
      \/ job[r].sent /\ ~job[r].served
  <2>1. ArticlePage!Unless(\/ job[r].op = "analyze" /\ job[r].sel # None
                           \/ job[r].sent /\ ~job[r].served)
    BY DEF ArticlePage!Fails
  <2> QED BY <2>1, ArticlesUnless
<1>3. CASE job[r].op = "analyze" /\ job[r].sel # None
  <2>1. job[r].sent
    BY <1>1, <1>3, ArticlesAnswers, ArticlesFields DEF ArticlesShape
  <2>2. job' = ArticlePage!Then(r, ArticlePage!RefreshAll(job[r].sel))
    BY <1>3 DEF ArticlePage!Fails
  <2> QED BY <1>1, <1>3, <2>1, <2>2, ArticlesRefreshHeld DEF ArticlesReads
<1>4. CASE job[r].op # "analyze" /\ job[r].sent /\ ~job[r].served
  <2>1. (\A q \in Slots : q # r => job'[q] = job[q]) /\ job'[r] = None
    BY <1>4 DEF ArticlePage!Fails, ArticlePage!Then, ArticlesTypes
  <2>2. Kept /\ job[r].op # "init" BY <1>1, <1>4, <2>1, ArticlesAnswered
  <2>3. OpeningStays BY <2>1, <2>2, OpeningKept
  <2> QED BY <1>1, <2>2, <2>3, ArticlesHeldOn
<1>5. CASE job[r].op = "analyze" /\ job[r].sel = None /\ job[r].sent /\ ~job[r].served
  <2>1. PICK y : y = ArticlePage!RefreshAll(job[r].sel) OBVIOUS
  <2>2. y.op = "all" BY <2>1 DEF ArticlePage!RefreshAll, ArticlePage!Fetch
  <2>3. (\A q \in Slots : q # r => job'[q] = job[q]) /\ job'[r] = y
    BY <1>5, <2>1 DEF ArticlePage!Fails, ArticlePage!Then, ArticlesTypes
  <2>4. Kept BY <1>1, <1>5, <2>3, ArticlesAnswered
  <2>5. OpeningStays BY <1>5, <2>2, <2>3, OpeningKept
  <2> QED BY <1>1, <2>4, <2>5, ArticlesHeldOn
<1> QED BY <1>2, <1>3, <1>4, <1>5

\* The inductive invariant of the page of the articles, together with its types.
ArticlesLists == ~outdated => ArticlesHeld

\* The page that opens will read everything.
LEMMA ArticlesListsBegin == ArticlePage!Init => ArticlesLists
<1> SUFFICES ASSUME ArticlePage!Init PROVE ArticlesHeld BY DEF ArticlesLists
<1> USE DEF ArticlePage!Init
<1>1. PICK r \in Slots :
        job = [s \in Slots |-> IF s = r THEN ArticlePage!Fetch("init", {"sources"}, None) ELSE None]
  OBVIOUS
<1>2. ArticlePage!Fetch("init", {"sources"}, None) # None
  BY ArticlesFetch, ArticlesFields DEF ArticlePage!Ops, FactoryPage!Lists
<1>3. job[r] # None /\ job[r].op = "init" /\ DOMAIN job[r].get = {"sources"}
  BY <1>1, <1>2 DEF ArticlePage!Fetch
<1>4. OpensSources /\ SomeOpens BY <1>3 DEF OpensSources, SomeOpens, Opens, Gets
<1>5. \A q \in Slots : Opens(q) => q = r BY <1>1 DEF Opens
<1>6. OneOpens BY <1>5 DEF OneOpens
<1> QED
  BY <1>4, <1>6 DEF ArticlesHeld, ArticlesSources, ArticlesScheduled, Selected,
                    ArticlesNoSelection, ArticlesCandidates

\* An answer that no longer holds is remembered.
LEMMA ArticlesOutdated ==
  ASSUME ArticlesTypes, ArticlePage!Next, ~outdated'
  PROVE  ~outdated
<1>1. ASSUME NEW holds, ArticlePage!Unless(holds) PROVE ~outdated BY <1>1, ArticlesUnless
<1>2. ASSUME NEW r \in Slots, ArticlePage!Answer(r) PROVE ~outdated
  BY <1>2, <1>1
    DEF ArticlePage!Answer, ArticlePage!HandleSourceCreated, ArticlePage!OnAnalyzed,
        ArticlePage!OnTick, ArticlePage!OnScheduled, ArticlePage!Refreshes,
        ArticlePage!HandleSourceDeleted, ArticlePage!HandleCandidateDeleted,
        ArticlePage!InitSources, ArticlePage!InitRest, ArticlePage!RefreshSources,
        ArticlePage!ScheduledArrives, ArticlePage!RefreshCandidates, ArticlePage!Shown
<1>3. ASSUME NEW r \in Slots, ArticlePage!Fails(r) PROVE ~outdated
  BY <1>3, <1>1 DEF ArticlePage!Fails
<1>4. ArticlePage!User => outdated' = outdated
  BY ArticlesAsk, ArticlesBegin DEF ArticlePage!ClickSource
<1>5. \A r \in Slots : ArticlePage!Serve(r) => outdated' = outdated BY DEF ArticlePage!Serve
<1>6. \A r \in Slots : \A w \in ArticlePage!Lists : ArticlePage!Read(r, w) => outdated' = outdated
  BY DEF ArticlePage!Read
<1> QED BY <1>2, <1>3, <1>4, <1>5, <1>6 DEF ArticlePage!Next

\* Whatever happens to the page of the articles, its differences will be settled.
LEMMA ArticlesListsStep == ArticlesTypes /\ ArticlesLists /\ ArticlePage!Next => ArticlesLists'
<1> SUFFICES ASSUME ArticlesTypes, ArticlesLists, ArticlePage!Next, ~outdated' PROVE ArticlesHeld'
  BY DEF ArticlesLists
<1>1. ArticlesHeld BY ArticlesOutdated DEF ArticlesLists
<1>2. ASSUME NEW r \in Slots, ArticlePage!Answer(r) PROVE ArticlesHeld'
  <2>1. ASSUME ArticlePage!Answered(r, job[r].op), job[r].op \in ArticlesReads,
               ArticlePage!Refreshes(r)
        PROVE  ArticlesHeld'
    <3>1. job[r] # None /\ job[r].sent BY <2>1, ArticlesAnswers DEF ArticlePage!Answered
    <3>2. job[r].op = "analyze" => job[r].sel # None
      <4>1. ArticlePage!Unless(job[r].op = "analyze" => job[r].sel # None)
        BY <2>1 DEF ArticlePage!Refreshes
      <4> QED BY <4>1, ArticlesUnless
    <3>3. /\ job' = ArticlePage!Then(r, ArticlePage!RefreshAll(job[r].sel))
          /\ UNCHANGED <<srcs, cands, queue, sources, candidates, scheduled, selected>>
      BY <2>1 DEF ArticlePage!Refreshes, ArticlePage!server, ArticlePage!lists, ArticlePage!listed
    <3> QED BY <1>1, <2>1, <3>1, <3>2, <3>3, ArticlesRefreshHeld
  <2>2. ArticlePage!OnAnalyzed(r) \/ ArticlePage!OnTick(r) => ArticlesHeld'
    BY <2>1 DEF ArticlePage!OnAnalyzed, ArticlePage!OnTick, ArticlePage!Answered, ArticlesReads
  <2> QED
    BY <1>1, <1>2, <2>2, ArticlesCreatedHeld, ArticlesPostHeld, ArticlesRemovedHeld,
       ArticlesDroppedHeld, ArticlesInitHeld, ArticlesInitRestHeld, ArticlesSourcesHeld,
       ArticlesScheduledHeld, ArticlesCandidatesHeld
      DEF ArticlePage!Answer
<1> QED BY <1>1, <1>2, SameIds, ArticlesUserHeld, ArticlesServeHeld, ArticlesReadHeld,
           ArticlesFailsHeld
      DEF ArticlePage!Next

\* Without answers that no longer hold, a list that arrived holds each article once, and one
\* is listed twice only when it was listed before the answer to its creation.
ArticlesTwice == ~outdated => twice \subseteq early

\* The answer to a creation, a removal, and a list that arrives change what is listed twice.
LEMMA ArticlesTwiceStep == ArticlesTypes /\ ArticlesTwice /\ ArticlePage!Next => ArticlesTwice'
<1> SUFFICES ASSUME ArticlesTypes, ArticlesTwice, ArticlePage!Next, ~outdated' PROVE twice' \subseteq early'
  BY DEF ArticlesTwice
<1>1. twice \subseteq early BY ArticlesOutdated DEF ArticlesTwice
<1>2. ASSUME NEW r \in Slots, ArticlePage!HandleSourceCreated(r) PROVE twice' \subseteq early'
  BY <1>1, <1>2 DEF ArticlePage!HandleSourceCreated
<1>3. ASSUME NEW r \in Slots, ArticlePage!HandleSourceDeleted(r) PROVE twice' \subseteq early'
  <2>1. early' = early /\ twice' = job[r].again \ {job[r].id} BY <1>3 DEF ArticlePage!HandleSourceDeleted
  <2>2. ArticlePage!Unless(/\ job[r].id \notin srcs /\ job[r].sel = selected
                           /\ job[r].list = sources /\ job[r].again = twice)
    BY <1>3 DEF ArticlePage!HandleSourceDeleted
  <2>3. job[r].again = twice BY <2>2, ArticlesUnless
  <2> QED BY <1>1, <2>1, <2>3
<1>4. ASSUME NEW r \in Slots, ArticlePage!InitSources(r) \/ ArticlePage!RefreshSources(r)
      PROVE  twice' \subseteq early'
  BY <1>4 DEF ArticlePage!InitSources, ArticlePage!RefreshSources, ArticlePage!ShowSources
<1>5. ASSUME NEW r \in Slots,
             \/ ArticlePage!OnAnalyzed(r) \/ ArticlePage!OnTick(r) \/ ArticlePage!OnScheduled(r)
             \/ ArticlePage!HandleCandidateDeleted(r) \/ ArticlePage!InitRest(r)
             \/ ArticlePage!ScheduledArrives(r) \/ ArticlePage!RefreshCandidates(r)
             \/ ArticlePage!Fails(r)
      PROVE  UNCHANGED <<twice, early>>
  BY <1>5
    DEF ArticlePage!OnAnalyzed, ArticlePage!OnTick, ArticlePage!OnScheduled,
        ArticlePage!Refreshes, ArticlePage!HandleCandidateDeleted, ArticlePage!InitRest,
        ArticlePage!ScheduledArrives, ArticlePage!RefreshCandidates, ArticlePage!Fails,
        ArticlePage!lists, ArticlePage!listed
<1>6. ArticlePage!User => UNCHANGED <<twice, early>>
  BY ArticlesAsk, ArticlesBegin DEF ArticlePage!ClickSource, ArticlePage!lists, ArticlePage!listed
<1>7. ASSUME NEW r \in Slots, NEW w \in FactoryPage!Lists,
             ArticlePage!Serve(r) \/ ArticlePage!Read(r, w)
      PROVE  UNCHANGED <<twice, early>>
  BY <1>7, ArticlesServe, ArticlesRead
<1> QED BY <1>1, <1>2, <1>3, <1>4, <1>5, <1>6, <1>7, SameIds
       DEF ArticlePage!Next, ArticlePage!Answer, FactoryPage!Lists

\* Without requests nothing is on its way: the lists are those of the server.
LEMMA ArticlesListsFollow == ArticlesTypes /\ ArticlesLists /\ ArticlesTwice => ArticlePage!ListsMatch
<1> SUFFICES ASSUME ArticlesTypes, ArticlesHeld, twice \subseteq early, \A r \in Slots : job[r] = None
             PROVE  /\ sources = srcs /\ scheduled = queue
                    /\ IF srcs = {} THEN selected = None ELSE selected \in srcs
                    /\ candidates = {i \in cands : i[1] = selected}
  BY DEF ArticlesLists, ArticlesTwice, ArticlePage!ListsMatch, ArticlePage!Quiet
<1>1. /\ \A op, id : ~ServedFor(op, id)
      /\ \A Ops : ~SomeServed(Ops)
      /\ \A w : ~SomeGets(w)
      /\ ~SomeOpens /\ ~OpensSources
      /\ \A Ops : ~SomeRefreshes(Ops)
  BY DEF ServedFor, SomeServed, Served, SomeGets, Gets, SomeOpens, Opens, OpensSources,
         SomeRefreshes, Refreshes
<1> USE DEF ArticlesHeld
<1>2. sources = srcs
  <2>1. sources \ srcs = {} /\ srcs \ sources = {} BY <1>1 DEF ArticlesSources
  <2> QED BY <2>1
<1>3. scheduled = queue BY <1>1 DEF ArticlesScheduled
<1>4. selected # None => selected \in srcs BY <1>1 DEF Selected
<1>5. selected = None => srcs = {} /\ candidates = {}
  BY <1>1 DEF ArticlesNoSelection
<1>6. candidates = {i \in cands : i[1] = selected}
  <2>1. CASE selected = None
    <3>1. cands = {} BY <1>5, <2>1 DEF ArticlesTypes
    <3> QED BY <1>5, <2>1, <3>1
  <2>2. CASE selected # None BY <1>1, <2>2 DEF ArticlesCandidates, ArticlesWillRead
  <2> QED BY <2>1, <2>2
<1>7. IF srcs = {} THEN selected = None ELSE selected \in srcs BY <1>4, <1>5
<1> QED BY <1>2, <1>3, <1>6, <1>7

-----------------------------------------------------------------------------
(* The front end: types, controls and lists *)

\* The page of the clips is well formed.
LEMMA ClipsAreTyped == ClipsTypes => FactoryPage!TypeOK
<1> SUFFICES ASSUME ClipsTypes PROVE FactoryPage!TypeOK OBVIOUS
<1>1. ASSUME NEW r \in Slots, job[r] # None
      PROVE  /\ job[r].op \in FactoryPage!Ops /\ job[r].id \in FactoryPage!About(job[r].op)
             /\ job[r].sel \in Sources \cup {None} /\ DOMAIN job[r].get \subseteq FactoryPage!Lists
             /\ job[r].list \subseteq
                  IF job[r].op = "moment" /\ job[r].served THEN FactoryPage!Ids ELSE Sources
             /\ \A w \in DOMAIN job[r].get : job[r].get[w] # None =>
                  job[r].get[w] \subseteq IF w = "sources" THEN Sources ELSE FactoryPage!Ids
  <2>1. job[r] \in ClipsRequests BY <1>1 DEF ClipsTypes
  <2> HIDE <1>1
  <2> DEFINE j == job[r]
  <2> HIDE DEF j
  <2>2. j \in ClipsRequests BY <2>1 DEF j
  <2>3. /\ j.op \in FactoryPage!Ops /\ j.id \in FactoryPage!About(j.op)
        /\ j.sel \in Sources \cup {None} /\ DOMAIN j.get \subseteq FactoryPage!Lists
        /\ j.list \in IF j.op = "moment" /\ j.served THEN SUBSET FactoryPage!Ids ELSE SUBSET Sources
        /\ \A w \in DOMAIN j.get : j.get[w] \in ListOf(w) \cup {None}
    BY <2>2, ClipsFields DEF ClipsShape
  <2>4. j.list \subseteq IF j.op = "moment" /\ j.served THEN FactoryPage!Ids ELSE Sources
    BY <2>3
  <2>5. \A w \in DOMAIN j.get : j.get[w] # None =>
           j.get[w] \subseteq IF w = "sources" THEN Sources ELSE FactoryPage!Ids
    BY <2>3 DEF ListOf
  <2> QED BY <2>3, <2>4, <2>5 DEF j
<1>2. /\ srcs \subseteq Sources /\ cands \subseteq FactoryPage!Ids /\ queue \subseteq cands
      /\ sources \subseteq Sources /\ candidates \subseteq FactoryPage!Ids
      /\ scheduled \subseteq FactoryPage!Ids
  BY DEF ClipsTypes
<1> QED BY <1>1, <1>2 DEF ClipsTypes, FactoryPage!TypeOK

\* The page of the articles is well formed.
LEMMA ArticlesAreTyped == ArticlesTypes => ArticlePage!TypeOK
<1> SUFFICES ASSUME ArticlesTypes PROVE ArticlePage!TypeOK OBVIOUS
<1>1. ASSUME NEW r \in Slots, job[r] # None
      PROVE  /\ job[r].op \in ArticlePage!Ops /\ job[r].id \in ArticlePage!About(job[r].op)
             /\ job[r].sel \in Sources \cup {None} /\ DOMAIN job[r].get \subseteq FactoryPage!Lists
             /\ job[r].list \subseteq Sources
             /\ \A w \in DOMAIN job[r].get : job[r].get[w] # None =>
                  job[r].get[w] \subseteq IF w = "sources" THEN Sources ELSE FactoryPage!Ids
  <2>1. job[r] \in ArticlesRequests BY <1>1 DEF ArticlesTypes
  <2> HIDE <1>1
  <2> DEFINE j == job[r]
  <2> HIDE DEF j
  <2>2. j \in ArticlesRequests BY <2>1 DEF j
  <2>3. /\ j.op \in ArticlePage!Ops /\ j.id \in ArticlePage!About(j.op)
        /\ j.sel \in Sources \cup {None} /\ DOMAIN j.get \subseteq FactoryPage!Lists
        /\ j.list \subseteq Sources
        /\ \A w \in DOMAIN j.get : j.get[w] \in ListOf(w) \cup {None}
    BY <2>2, ArticlesFields DEF ArticlesShape
  <2>4. \A w \in DOMAIN j.get : j.get[w] # None =>
           j.get[w] \subseteq IF w = "sources" THEN Sources ELSE FactoryPage!Ids
    BY <2>3 DEF ListOf
  <2> QED BY <2>3, <2>4 DEF j
<1>2. /\ srcs \subseteq Sources /\ cands \subseteq FactoryPage!Ids /\ queue \subseteq cands
      /\ sources \subseteq Sources /\ candidates \subseteq FactoryPage!Ids
      /\ scheduled \subseteq FactoryPage!Ids
  BY DEF ArticlesTypes
<1> QED BY <1>1, <1>2, SameIds DEF ArticlesTypes, ArticlePage!TypeOK

\* What is mounted is one of the pages, the cards and the panels.
Mountable == {"FactoryPage", "ArticlePage", "CandidateCard", "ArticleCard", "IdeasPage",
              "SourcesPage", "SettingsPanel"}

\* The inductive invariants of the pages.
ClipsInv == ClipsTypes /\ FactoryPage!ControlsComeBack /\ ClipsLists /\ ClipsTwice
ArticlesInv == ArticlesTypes /\ ArticlePage!ControlsComeBack /\ ArticlesLists /\ ArticlesTwice

\* The inductive invariant of what is mounted.
PagesInv ==
    /\ mounted \in Mountable /\ CardsInv
    /\ mounted = "FactoryPage" => ClipsInv
    /\ mounted = "ArticlePage" => ArticlesInv

\* What is mounted begins with it.
LEMMA PagesBegin == Init => PagesInv
<1> SUFFICES ASSUME Init PROVE PagesInv OBVIOUS
<1>1. mounted \in Mountable BY DEF Init, Mountable
<1>2. CardsInv
  BY SourcesBegins, SettingsBegins, ArticleCardBegins, ClipCardBegins, IdeasBegins
    DEF Init, CardsInv
<1>3. FactoryPage!Init => FactoryPage!ControlsComeBack
  BY DEF FactoryPage!Init, FactoryPage!ControlsComeBack
<1>4. ArticlePage!Init => ArticlePage!ControlsComeBack
  BY DEF ArticlePage!Init, ArticlePage!ControlsComeBack
<1>5. mounted = "FactoryPage" => FactoryPage!Init BY DEF Init
<1>6. mounted = "ArticlePage" => ArticlePage!Init BY DEF Init
<1>7. (FactoryPage!Init => ClipsTwice) /\ (ArticlePage!Init => ArticlesTwice)
  BY DEF FactoryPage!Init, ArticlePage!Init, ClipsTwice, ArticlesTwice
<1> QED
  BY <1>1, <1>2, <1>3, <1>4, <1>5, <1>6, <1>7, ClipsTypesBegin, ArticlesTypesBegin, ClipsListsBegin,
     ArticlesListsBegin
    DEF PagesInv, ClipsInv, ArticlesInv

\* While nothing changes, the pages keep what they have.
LEMMA PagesStutter ==
  ASSUME UNCHANGED vars
  PROVE  /\ ClipsInv => ClipsInv'
         /\ ArticlesInv => ArticlesInv'
<1>1. UNCHANGED <<mounted, job, acts, faults, selected, busy>> BY DEF vars
<1>2. UNCHANGED <<srcs, cands, queue, sources, twice, early, candidates, scheduled, outdated>>
  BY DEF vars, lists
<1>3. UNCHANGED <<opened, table, made, deleting>> BY DEF vars, clips, articles
<1>4. ClipsTypes => ClipsTypes' BY <1>1, <1>2, <1>3 DEF ClipsTypes
<1>5. ArticlesTypes => ArticlesTypes' BY <1>1, <1>2, <1>3 DEF ArticlesTypes
<1>6. FactoryPage!ControlsComeBack => FactoryPage!ControlsComeBack'
  BY <1>1 DEF FactoryPage!ControlsComeBack
<1>7. ArticlePage!ControlsComeBack => ArticlePage!ControlsComeBack'
  BY <1>1, <1>2, <1>3 DEF ArticlePage!ControlsComeBack
<1>8. Kept /\ OpeningStays
  BY <1>1 DEF Kept, ServedFor, SomeServed, Served, SomeGets, Gets, SomeOpens, Opens,
              SomeRefreshes, Refreshes, Reloads, Proposed, OpeningStays, OpensSources, OneOpens
<1>9. ClipsLists => ClipsLists' BY <1>1, <1>2, <1>3, <1>8, ClipsHeldOn DEF ClipsLists
<1>10. ArticlesLists => ArticlesLists' BY <1>1, <1>2, <1>8, ArticlesHeldOn DEF ArticlesLists
<1>11. (ClipsTwice => ClipsTwice') /\ (ArticlesTwice => ArticlesTwice')
  BY <1>2 DEF ClipsTwice, ArticlesTwice
<1> QED BY <1>4, <1>5, <1>6, <1>7, <1>9, <1>10, <1>11 DEF ClipsInv, ArticlesInv

\* Every step of what is mounted keeps it.
LEMMA PagesStep == PagesInv /\ [Next]_vars => PagesInv'
<1> SUFFICES ASSUME PagesInv, [Next]_vars PROVE PagesInv' OBVIOUS
<1>1. CardsInv' BY CardsStep DEF PagesInv
<1>2. mounted' = mounted BY DEF Next, vars
<1>3. mounted = "FactoryPage" => ClipsInv'
  <2>1. CASE UNCHANGED vars BY <2>1, PagesStutter DEF PagesInv
  <2>2. CASE Next
    <3>1. mounted = "FactoryPage" => FactoryPage!Next BY <2>2 DEF Next
    <3> QED
      BY <3>1, ClipsTypesStep, ClipsControlsStep, ClipsListsStep, ClipsTwiceStep
        DEF PagesInv, ClipsInv
  <2> QED BY <2>1, <2>2
<1>4. mounted = "ArticlePage" => ArticlesInv'
  <2>1. CASE UNCHANGED vars BY <2>1, PagesStutter DEF PagesInv
  <2>2. CASE Next
    <3>1. mounted = "ArticlePage" => ArticlePage!Next BY <2>2 DEF Next
    <3> QED
      BY <3>1, ArticlesTypesStep, ArticlesControlsStep, ArticlesListsStep, ArticlesTwiceStep
        DEF PagesInv, ArticlesInv
  <2> QED BY <2>1, <2>2
<1> QED BY <1>1, <1>2, <1>3, <1>4 DEF PagesInv

\* So it holds in every state.
LEMMA PagesAlways == Spec => []PagesInv
BY PagesBegin, PagesStep, PTL DEF Spec

\* The tables, what is mounted and its requests are well formed in every state, however many
\* requests are made, in whichever order they are served and answered, and whichever fail.
THEOREM TypeOKAlways == Spec => []TypeOK
<1>1. PagesInv => TypeOK
  <2> SUFFICES ASSUME PagesInv PROVE TypeOK OBVIOUS
  <2>1. /\ mounted = "FactoryPage" => FactoryPage!TypeOK
        /\ mounted = "ArticlePage" => ArticlePage!TypeOK
    BY ClipsAreTyped, ArticlesAreTyped DEF PagesInv, ClipsInv, ArticlesInv
  <2>2. /\ mounted = "CandidateCard" => CandidateCard!TypeOK
        /\ mounted = "ArticleCard" => ArticleCard!TypeOK
        /\ mounted = "IdeasPage" => IdeasPage!TypeOK
        /\ mounted = "SourcesPage" => SourcesPage!TypeOK
        /\ mounted = "SettingsPanel" => SettingsPanel!TypeOK
    BY DEF PagesInv, CardsInv, ClipCardInv, ArticleCardInv, IdeasInv, SourcesInv, SettingsInv
  <2> QED BY <2>1, <2>2 DEF PagesInv, Mountable, TypeOK
<1> QED BY <1>1, PagesAlways, PTL

\* A control that is disabled is so for a request that is under way: whichever others were
\* made meanwhile and however they ended, it comes back, for any number of requests.
THEOREM ControlsComeBackAlways == Spec => []ControlsComeBack
<1>1. PagesInv => ControlsComeBack
  <2> SUFFICES ASSUME PagesInv PROVE ControlsComeBack OBVIOUS
  <2>1. /\ mounted = "CandidateCard" => CandidateCard!ButtonsComeBack
        /\ mounted = "ArticleCard" => ArticleCard!ButtonsComeBack
        /\ mounted = "IdeasPage" => IdeasPage!ButtonsComeBack
        /\ mounted = "SourcesPage" => SourcesPage!ButtonsComeBack
        /\ mounted = "SettingsPanel" => SettingsPanel!ButtonsComeBack
    BY SourcesFollow, IdeasFollow
      DEF PagesInv, CardsInv, ClipCardInv, ArticleCardInv, SettingsInv
  <2>2. /\ mounted = "FactoryPage" => FactoryPage!ControlsComeBack
        /\ mounted = "ArticlePage" => ArticlePage!ControlsComeBack
    BY DEF PagesInv, ClipsInv, ArticlesInv
  <2> QED BY <2>1, <2>2 DEF PagesInv, Mountable, ControlsComeBack
<1> QED BY <1>1, PagesAlways, PTL

\* A page at rest shows what the server holds, and what is selected is there: for any number
\* of requests, in whichever order they are served and answered, unless an answer was lost,
\* or was older than the present when it was shown, or an analysis was asked for while
\* nothing was selected.  Each source is listed once, unless it was listed before the answer
\* to its creation arrived and the list was not read since.
THEOREM ListsMatchAlways == Spec => []ListsMatch
<1>1. PagesInv => ListsMatch
  <2> SUFFICES ASSUME PagesInv PROVE ListsMatch OBVIOUS
  <2>1. CASE mounted = "FactoryPage"
    <3>1. FactoryPage!ListsMatch BY <2>1, ClipsListsFollow DEF PagesInv, ClipsInv
    <3> QED BY <2>1, <3>1, Zenon DEF ListsMatch
  <2>2. CASE mounted = "ArticlePage"
    <3>1. ArticlePage!ListsMatch BY <2>2, ArticlesListsFollow DEF PagesInv, ArticlesInv
    <3>2. mounted # "FactoryPage" BY <2>2
    <3> QED BY <2>2, <3>1, <3>2, Zenon DEF ListsMatch
  <2>3. CASE mounted = "IdeasPage"
    <3>1. IdeasPage!ListsMatch BY <2>3, IdeasFollow DEF PagesInv, CardsInv
    <3>2. mounted # "FactoryPage" /\ mounted # "ArticlePage" BY <2>3
    <3> QED BY <2>3, <3>1, <3>2, Zenon DEF ListsMatch
  <2>4. CASE mounted # "FactoryPage" /\ mounted # "ArticlePage" /\ mounted # "IdeasPage"
    BY <2>4, Zenon DEF ListsMatch
  <2> QED BY <2>1, <2>2, <2>3, <2>4
<1> QED BY <1>1, PagesAlways, PTL
=============================================================================
