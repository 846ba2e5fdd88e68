----------------------------- MODULE MCLibrary -----------------------------
(***************************************************************************)
(* Library and Tags in three scenes of one run: "sharing", links and the   *)
(* forks made through them; "templates", their seeding, use and deletion;  *)
(* "tags", lists of tags set while tags and snippets are deleted.          *)
(* Snippets and tags are created in order.                                 *)
(***************************************************************************)
EXTENDS Tags, TLC

CONSTANT t1
VARIABLE scene

Made == {s \in Snippet : note[s] # "new"}
Ops == {flight[p].op : p \in Proc} \ {"none"}

InScene ==
    /\ Made = 1..Cardinality(Made)
    /\ tag[t1] = "new" => \A t \in Tag : tag[t] = "new"
    /\ scene # "sharing" => share = <<>> /\ Ops \cap {"share", "revoke", "view", "fork"} = {}
    /\ scene # "sharing" => requests <= 3 /\ Cardinality(Made) <= 2
    /\ scene # "templates" => template = <<>> /\ Ops \cap {"use", "seed"} = {}
    /\ scene # "tags" => \A t \in Tag : tag[t] = "new" /\ \A p \in Proc : setting[p] = NotSetting

MCInit == AllInit /\ scene \in {"sharing", "templates", "tags"}
MCNext == AllNext /\ UNCHANGED scene /\ InScene'
MCSpec == MCInit /\ [][MCNext]_<<allVars, scene>>

Symmetry == Permutations(Proc)

=============================================================================
