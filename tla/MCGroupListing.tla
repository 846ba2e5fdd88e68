-------------------------- MODULE MCGroupListing --------------------------
(***************************************************************************)
(* GroupTree and what GetTree answers, in two scenes of one run: "races"   *)
(* has two handlers and leaves sort_order alone, "sorts" has one handler   *)
(* at a time and clients that renumber the groups.                         *)
(***************************************************************************)
EXTENDS GroupListing, TLC

CONSTANTS p1, p2
VARIABLE scene

InScene ==
    IF scene = "races" THEN \A p \in Proc : flight[p].sort = Top
    ELSE Cardinality({p \in Proc : ~At(p, "idle")}) <= 1

MCInit == Init /\ scene \in {"races", "sorts"}
MCNext == Next /\ UNCHANGED scene /\ InScene'
MCSpec == MCInit /\ [][MCNext]_<<vars, scene>>

Symmetry == Permutations({p1, p2})
=============================================================================
