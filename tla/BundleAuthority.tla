--------------------------- MODULE BundleAuthority ---------------------------
(***************************************************************************)
(* What the inventory side of the serving schema promises its readers: one *)
(* bundle is chosen at a time, the choice moves in one step, and only a    *)
(* loaded bundle is ever chosen.                                           *)
(***************************************************************************)
CONSTANTS
    Bundles,   \* inventory runs, one version each
    NoBundle   \* nothing has been activated yet

VARIABLES
    loaded,    \* bundles with an accepted, verified materialization
    chosen     \* the bundle active_inventory_state points to

vars == <<loaded, chosen>>

Init == loaded = {} /\ chosen = NoBundle

Load(b) ==
    /\ b \notin loaded
    /\ loaded' = loaded \cup {b}
    /\ UNCHANGED chosen

Choose(b) ==
    /\ b \in loaded
    /\ b # chosen
    /\ chosen' = b
    /\ UNCHANGED loaded

Next == \E b \in Bundles : Load(b) \/ Choose(b)

Spec == Init /\ [][Next]_vars
=============================================================================
