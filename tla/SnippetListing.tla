--------------------------- MODULE SnippetListing ---------------------------
(***************************************************************************)
(* ListMineFiltered: a client walks through the pages of a list while the  *)
(* owner's requests of Snippets go on.  A page is one query; the cursor it *)
(* ends with is the sort key and the id of its last row.                   *)
(***************************************************************************)
EXTENDS Snippets, FiniteSets

CONSTANTS Limit, MaxWalks

ASSUME LimitAssumption == Limit \in Nat \ {0} /\ MaxWalks \in Nat
ASSUME IdAssumption == Snippet \subseteq Nat

VARIABLES
    walk,       \* the client's walk: state, sort mode, group filter, cursor, times shown
    walks,      \* bound
    start,      \* history: the rows that matched when the first page was read
    touched     \* history: the snippets written since then

listVars == <<walk, walks, start, touched>>

Modes == {"manual", "updated_at"}
NoWalk == [pc |-> "idle", by |-> "manual", group |-> None, cursor |-> <<>>,
           shown |-> [s \in Snippet |-> 0]]

ListInit ==
    /\ Init
    /\ walk = NoWalk /\ walks = 0 /\ start = {} /\ touched = {}

\* Active rows of the wanted group; no group means all of them.
Matches(s, group) == row[s].there = "active" /\ (group = None \/ row[s].group = group)

SortKey(s, by) == IF by = "manual" THEN row[s].order ELSE row[s].stamp

\* Mutant: the cursor condition without the id.
BehindKeyOnly(a, b, by) == IF by = "manual" THEN a[1] < b[1] ELSE a[1] > b[1]

\* <<key, id>> a comes before b: manual order ascends, updated_at descends.
Behind(a, b, by) ==
    IF by = "manual" THEN a[1] < b[1] \/ (a[1] = b[1] /\ a[2] < b[2])
                     ELSE a[1] > b[1] \/ (a[1] = b[1] /\ a[2] > b[2])

\* ORDER BY key, id.
Precedes(s, t, by) ==
    \/ IF by = "manual" THEN SortKey(s, by) < SortKey(t, by) ELSE SortKey(s, by) > SortKey(t, by)
    \/ SortKey(s, by) = SortKey(t, by) /\ IF by = "manual" THEN s < t ELSE s > t

\* The rows behind the cursor.
Hits(w) == {s \in Snippet : /\ Matches(s, w.group)
                            /\ w.cursor = <<>> \/ Behind(w.cursor, <<SortKey(s, w.by), s>>, w.by)}

Showing(shown, page) == [s \in Snippet |-> IF s \in page THEN shown[s] + 1 ELSE shown[s]]

\* One page.  The query asks for one row more than Limit to see if there are more;
\* then the page ends with the Limit-th row, and so does the cursor.
Page(w) ==
    LET hits == Hits(w) IN
    IF Cardinality(hits) <= Limit
    THEN walk' = [w EXCEPT !.pc = "done", !.shown = Showing(@, hits)]
    ELSE \E last \in hits :
           LET page == {s \in hits : s = last \/ Precedes(s, last, w.by)} IN
           /\ Cardinality(page) = Limit
           /\ walk' = [w EXCEPT !.pc = "more", !.shown = Showing(@, page),
                                !.cursor = <<SortKey(last, w.by), last>>]

FirstPage(by, group) ==
    /\ walks < MaxWalks /\ walks' = walks + 1
    /\ walk.pc # "more"
    /\ Page([NoWalk EXCEPT !.by = by, !.group = group])
    /\ start' = {s \in Snippet : Matches(s, group)}
    /\ touched' = {}
    /\ UNCHANGED vars

NextPage ==
    /\ walk.pc = "more"
    /\ Page(walk)
    /\ UNCHANGED <<vars, walks, start, touched>>

\* A step of Snippets, during a walk or between walks.
Meanwhile ==
    /\ Next
    /\ touched' = IF walk.pc = "more" THEN touched \cup {s \in Snippet : row'[s] # row[s]} ELSE touched
    /\ UNCHANGED <<walk, walks, start>>

ListNext ==
    \/ \E by \in Modes, group \in Place \cup {None} : FirstPage(by, group)
    \/ NextPage
    \/ Meanwhile

ListSpec == ListInit /\ [][ListNext]_<<vars, listVars>>

\* "This keeps pagination stable even when new rows are inserted, without
\* duplicates or gaps": whatever is created, edited, moved or deleted meanwhile, a
\* snippet that nobody touches is shown at most once, and by the end of the walk
\* exactly once if it matched and never if it did not; keys may be equal.
PageOnce ==
    \A s \in Snippet \ touched :
        /\ walk.shown[s] <= 1
        /\ walk.pc = "done" => (walk.shown[s] = 1 <=> s \in start)

-----------------------------------------------------------------------------
(* The inductive invariant: the cursor divides the rows that nobody has     *)
(* touched into those shown once and those still to be shown.              *)

ListTypeOK ==
    /\ walk \in [pc : {"idle", "more", "done"}, by : Modes, group : Place \cup {None},
                 cursor : {<<>>} \cup (Int \X Snippet), shown : [Snippet -> Nat]]
    /\ walk.pc = "more" => walk.cursor \in Int \X Snippet
    /\ start \subseteq Snippet /\ touched \subseteq Snippet

CursorDivides ==
    walk.pc = "more" =>
        \A s \in Snippet \ touched :
            /\ s \in start <=> Matches(s, walk.group)
            /\ walk.shown[s] = IF s \in start /\ ~Behind(walk.cursor, <<SortKey(s, walk.by), s>>, walk.by)
                               THEN 1 ELSE 0

ListIInv == IInv /\ ListTypeOK /\ PageOnce /\ CursorDivides

=============================================================================
