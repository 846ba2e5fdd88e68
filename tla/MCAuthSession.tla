--------------------------- MODULE MCAuthSession ---------------------------
(***************************************************************************)
(* AuthSession on two small instances in one run: each behaviour has a     *)
(* scene, which bounds it.  "sweep" follows logins, refreshes, logouts and *)
(* one sweep of all sessions over two devices, with two tokens; "refresh"  *)
(* follows the refreshes of one device over three generations of tokens.   *)
(***************************************************************************)
EXTENDS AuthSession, TLC

VARIABLE scene

Slots == {issued[t].slot : t \in Token} \cup {flight[p].slot : p \in Proc}

InScene ==
    IF scene = "sweep"
    THEN Cardinality({t \in Token : Minted(t)}) <= 2
    ELSE /\ Cardinality(Slots \ {None}) <= 1
         /\ \A p \in Proc : flight[p].op # "revoke_all"

MCInit == Init /\ scene \in {"sweep", "refresh"}
MCNext == Next /\ UNCHANGED scene /\ InScene'
MCSpec == MCInit /\ [][MCNext]_<<vars, scene>>

Symmetry == Permutations(Proc) \cup Permutations(Slot) \cup Permutations(Token)

=============================================================================
