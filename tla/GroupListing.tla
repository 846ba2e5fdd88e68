---------------------------- MODULE GroupListing ----------------------------
(***************************************************************************)
(* What GetTree answers in a state of GroupTree: which of the owner's      *)
(* groups appear in the tree that the client receives.  Names are unique   *)
(* per owner; the ids, naturals, stand for their alphabetical order.       *)
(***************************************************************************)
EXTENDS GroupTree

ASSUME NameAssumption == Group \subseteq Nat

\* Mutant: the first pass hands out the nodes in reverse order.
BeforeBackwards(g, h) == rank[g] > rank[h] \/ (rank[g] = rank[h] /\ g > h)

\* ListAllByOwner: ORDER BY sort_order, name.
Before(g, h) == rank[g] < rank[h] \/ (rank[g] = rank[h] /\ g < h)

\* The group of S that is listed last.
LastOf(S) == CHOOSE g \in S : \A h \in S \ {g} : Before(h, g)

\* The second pass: every node is copied, with the children it has by then, into
\* its parent's list or the list of roots.  below[g] is what a copy of g made now
\* would show.
Attach(tree, g) ==
    IF parent[g] \in Existing
    THEN [tree EXCEPT !.below[parent[g]] = @ \cup tree.below[g]]
    ELSE [tree EXCEPT !.roots = @ \cup tree.below[g]]

\* After the groups S, the first ones of the listing, have been attached.
Attached[S \in SUBSET Existing] ==
    IF S = {} THEN [below |-> [g \in Group |-> {g}], roots |-> {}]
    ELSE Attach(Attached[S \ {LastOf(S)}], LastOf(S))

GetTree == Attached[Existing].roots

\* The groups that come after their own parent in the listing, and what lies below
\* them: the least set that holds the former and is closed under children.
AfterParent ==
    {g \in Existing : /\ parent[g] \in Existing
                      /\ \/ rank[parent[g]] < rank[g]
                         \/ rank[parent[g]] = rank[g] /\ parent[g] < g}
CutOff ==
    {g \in Existing : \A S \in SUBSET Existing :
        AfterParent \subseteq S /\ (\A c \in Existing : parent[c] \in S => c \in S) => g \in S}

\* GetTree "appends each node to its parent's Children", but what it appends is a
\* copy.  In a forest the answer loses exactly the groups that are listed after
\* their own parent, with everything below them; no sequence of moves, renumberings
\* and deletions makes it lose, or show twice in another place, any other group.
LosesOnlyLateChildren == ~Cyclic => Existing \ GetTree = CutOff

\* "Iterate again and append each node to its parent's Children": the tree that the
\* client receives shows every group, as long as the groups are a forest.
TreeShowsAll == ~Cyclic => GetTree = Existing

=============================================================================
