------------------------ MODULE MCIngestionPipeline -------------------------
(* Three snapshots and two profiles.  Of the contents, Gate A refuses        *)
(* (n3, p2), Gate B refuses (n2, p2), and (n2, p1) lacks a required          *)
(* capability, in the runs that say so.                                      *)
EXTENDS IngestionPipeline

CONSTANTS n1, n2, n3, p1, p2, w1, w2, r1, r2

Of(n, p) == [snap |-> n, prof |-> p]
AllContents == [snap : Snapshots, prof : Profiles]
AllButLast == AllContents \ {Of(n2, p2)}
AllButPartial == AllContents \ {Of(n2, p1)}
AllButThird == AllContents \ {Of(n3, p2)}

\* One process at a time on everything, and two that share one root.
Alone == [workers |-> {w1}, roots |-> Roots, inputs |-> AllContents,
          jobs |-> 4, crashes |-> 2]
Pair == [workers |-> {w1, w2}, roots |-> {r1}, inputs |-> {Of(n1, p1), Of(n3, p1)},
         jobs |-> 3, crashes |-> 1]
AloneOrPair == {Alone, Pair}

OneProcess == {[workers |-> {w1}, roots |-> {r1}, inputs |-> AllContents,
                jobs |-> 3, crashes |-> 2]}
=============================================================================
