---------------------------- MODULE MCPostFactory ----------------------------
(* An instance of PostFactory for TLC. *)
EXTENDS PostFactory, TLC

CONSTANTS s1, r1, r2, t1, t2

MCRanges == {<<0, 2>>, <<1, 3>>}
MCProposals == {[times |-> <<0, 2>>, text |-> t1]}

\* A disturbed candidate stays disturbed, and then no property looks at its text, at what
\* its clip shows or at what was posted of it, nor does any step depend on them.  A status
\* that was lost matters while the source says analyzing.  States that differ in no more
\* than these are the same.
Blur(f, S, Seen(_)) == [x \in S |-> Seen(f[x])] @@ f
Textless(x) == IF x = None THEN None ELSE [x EXCEPT !.text = None]
SeenTextless(j) == [j EXCEPT !.seen = Textless(@)]
IsThere(x) == x # None
Nothing(x) == None

View ==
    <<source, Blur(row, disturbed, Textless), sched, Blur(clip, disturbed, IsThere),
      Blur(draft, disturbed, Nothing), gaps,
      Blur(job, {r \in Requests : job[r].id \in disturbed \cup {None}}, SeenTextless),
      now, issued, faults, {s \in lost : source[s] = "analyzing"}, torn, swept, disturbed,
      Blur(posted, disturbed, Nothing)>>

Symmetry == Permutations({r1, r2})
=============================================================================
