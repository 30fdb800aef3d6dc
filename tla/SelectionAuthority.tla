-------------------------- MODULE SelectionAuthority --------------------------
(***************************************************************************)
(* What consumers of the generations ledger rely on: the publications      *)
(* adopted as source authority, in the order of their adoption.            *)
(***************************************************************************)
EXTENDS Sequences

CONSTANTS Runs, Eligible

VARIABLES
    adopted,   \* the adopted runs, the last one being the authority
    offered    \* runs with retained evidence

Init == adopted = <<>> /\ offered = {}

Offer(r) == offered' = offered \cup {r} /\ UNCHANGED adopted

Adopt(r) ==
    /\ r \in offered \cap Eligible
    /\ \A i \in DOMAIN adopted : adopted[i] # r
    /\ adopted' = Append(adopted, r)
    /\ UNCHANGED offered

Next == \E r \in Runs : Offer(r) \/ Adopt(r)

Spec == Init /\ [][Next]_<<adopted, offered>>
=============================================================================
