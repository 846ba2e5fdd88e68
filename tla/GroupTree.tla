----------------------------- MODULE GroupTree -----------------------------
(***************************************************************************)
(* The groups (folders) of ONE owner in the notes service: service/group   *)
(* over entstore/group, and the filing of snippets into groups.  A handler *)
(* reads the rows in one query, decides, and writes in a later one without *)
(* a transaction around them, so handlers interleave between the two.      *)
(* Postgres keeps the foreign keys: a row never names a missing group, and *)
(* deleting a group sets the references to it to NULL.                     *)
(***************************************************************************)
EXTENDS Naturals, FiniteSets

CONSTANTS
    Proc,       \* requests handled at the same time
    Group,      \* group ids
    Snippet,    \* snippets of the owner
    Rank,       \* sort_order values a client asks for
    Top,        \* no parent, or no group: NULL
    New, Dead   \* an id not allocated yet, a deleted row

ASSUME RootAssumption == {Top, New, Dead} \cap Group = {} /\ Top # New /\ Top # Dead /\ New # Dead
ASSUME FiniteAssumption == IsFiniteSet(Group)
ASSUME RankAssumption == Rank \subseteq Nat

VARIABLES
    parent,   \* groups.parent_id, with New and Dead for ids without a row
    rank,     \* groups.sort_order
    filed,    \* snippets.group_id
    flight,   \* the request each handler is working on
    raced     \* history: a group was moved on the strength of an outdated check

vars == <<parent, rank, filed, flight, raced>>

Flight == [pc : {"idle", "query", "save", "count", "exec"},
           id : Group \cup {Top}, to : Group \cup {Top},
           was : Group \cup {Top},
           sort : Rank \cup {Top},
           stale : BOOLEAN,   \* history: a group was moved since its cycle check
           late : BOOLEAN]    \* history: its group was filled since it was counted

Idle == [pc |-> "idle", id |-> Top, to |-> Top, was |-> Top, sort |-> Top,
         stale |-> FALSE, late |-> FALSE]

TypeOK ==
    /\ parent \in [Group -> Group \cup {Top, New, Dead}]
    /\ rank \in [Group -> Nat]
    /\ filed \in [Snippet -> Group \cup {Top}]
    /\ flight \in [Proc -> Flight]
    /\ raced \in BOOLEAN

Init ==
    /\ parent = [g \in Group |-> New]
    /\ rank = [g \in Group |-> 0]
    /\ filed = [s \in Snippet |-> Top]
    /\ flight = [p \in Proc |-> Idle]
    /\ raced = FALSE

-----------------------------------------------------------------------------
At(p, step) == flight[p].pc = step
Exists(g)   == parent[g] \in Group \cup {Top}
Existing    == {g \in Group : Exists(g)}
Contents(g) == {c \in Group : parent[c] = g} \cup {s \in Snippet : filed[s] = g}

\* The upward walk over the parent map ends at the root without meeting id or
\* any group twice: it is a finite chain of distinct groups.
SafeTarget(id, to) ==
    \E n \in 1..Cardinality(Existing) : \E chain \in [1..n -> Group \ {id}] :
        /\ chain[1] = to
        /\ \A i, j \in 1..n : chain[i] = chain[j] => i = j
        /\ \A i \in 1..n : i < n => parent[chain[i]] = chain[i + 1]
        /\ parent[chain[n]] \notin Group

\* History: p goes on with own; moved says that it has moved a group below another
\* one, late are the deletions whose group it has filled.
Others(p, own, moved, late) ==
    [q \in Proc |-> IF q = p THEN own
                    ELSE [flight[q] EXCEPT !.stale = @ \/ (moved /\ flight[q].pc \in {"query", "save"}),
                                           !.late = @ \/ q \in late]]
Deleting(g, steps) == {q \in Proc : flight[q].id = g /\ flight[q].pc \in steps}

-----------------------------------------------------------------------------
(* Create, and the snippet service's writes of group_id                    *)

\* One INSERT; the foreign key refuses a parent without a row.
Create(p, g, to) ==
    /\ At(p, "idle")
    /\ parent[g] = New
    /\ to = Top \/ (to \in Group /\ Exists(to))
    /\ parent' = [parent EXCEPT ![g] = to]
    /\ flight' = Others(p, Idle, FALSE, Deleting(to, {"count", "exec"}))
    /\ UNCHANGED <<rank, filed, raced>>

\* Create, Update and Move of a snippet: one write of group_id.
File(p, s, to) ==
    /\ At(p, "idle")
    /\ to = Top \/ (to \in Group /\ Exists(to))
    /\ filed' = [filed EXCEPT ![s] = to]
    /\ flight' = Others(p, Idle, FALSE, Deleting(to, {"exec"}))
    /\ UNCHANGED <<parent, rank, raced>>

-----------------------------------------------------------------------------
(* Update                                                                  *)

\* Mutant: only the direct parent is looked at.
UpdateCheckShallow(p, g, to, r) ==
    /\ At(p, "idle")
    /\ Exists(g)
    /\ to # g
    /\ to \in Group => parent[to] \notin {New, g}
    /\ flight' = [flight EXCEPT ![p] = [Idle EXCEPT !.pc = "query", !.id = g, !.to = to, !.sort = r]]
    /\ UNCHANGED <<parent, rank, filed, raced>>

\* GetByID, then ListAllByOwner and the walk; a rejected request has no effect.
\* The client knows the id of the target, so it has been allocated.
UpdateCheck(p, g, to, r) ==
    /\ At(p, "idle")
    /\ Exists(g)
    /\ to # g
    /\ to \in Group => parent[to] # New /\ SafeTarget(g, to)
    /\ flight' = [flight EXCEPT ![p] = [Idle EXCEPT !.pc = "query", !.id = g, !.to = to, !.sort = r]]
    /\ UNCHANGED <<parent, rank, filed, raced>>

\* Store.Update reads the row again: parent_id is cleared only if it was set.
UpdateQuery(p) ==
    LET f == flight[p] IN
    /\ At(p, "query")
    /\ flight' = [flight EXCEPT ![p] = IF Exists(f.id)
                    THEN [f EXCEPT !.pc = "save", !.was = parent[f.id]] ELSE Idle]
    /\ UNCHANGED <<parent, rank, filed, raced>>

\* Mutant: sort_order is written although the request has none.
UpdateSaveBlanksRank(p) ==
    LET f == flight[p]
        saved == Exists(f.id) /\ (f.to = Top \/ Exists(f.to))
    IN
    /\ At(p, "save")
    /\ parent' = IF saved THEN [parent EXCEPT ![f.id] = f.to] ELSE parent
    /\ rank' = IF saved THEN [rank EXCEPT ![f.id] = f.sort] ELSE rank
    /\ flight' = [flight EXCEPT ![p] = Idle]
    /\ UNCHANGED <<filed, raced>>

\* The UPDATE fails when the row or the new parent has gone.
UpdateSave(p) ==
    LET f     == flight[p]
        saved == Exists(f.id) /\ (f.to = Top \/ Exists(f.to))
        moves == saved /\ f.to \in Group
    IN
    /\ At(p, "save")
    /\ parent' = IF moves \/ (saved /\ f.was # Top) THEN [parent EXCEPT ![f.id] = f.to] ELSE parent
    /\ rank' = IF saved /\ f.sort # Top THEN [rank EXCEPT ![f.id] = f.sort] ELSE rank
    /\ flight' = Others(p, Idle, moves, IF moves THEN Deleting(f.to, {"count", "exec"}) ELSE {})
    /\ raced' = (raced \/ (moves /\ f.stale))
    /\ UNCHANGED filed

-----------------------------------------------------------------------------
(* Delete                                                                  *)

\* GetByID, then CountChildren.
DeleteCheck(p, g) ==
    /\ At(p, "idle")
    /\ Exists(g) /\ \A c \in Group : parent[c] # g
    /\ flight' = [flight EXCEPT ![p] = [Idle EXCEPT !.pc = "count", !.id = g]]
    /\ UNCHANGED <<parent, rank, filed, raced>>

\* Mutant: the snippets are not counted.
DeleteUncounted(p) ==
    LET f == flight[p] IN
    /\ At(p, "count")
    /\ flight' = [flight EXCEPT ![p] = [f EXCEPT !.pc = "exec"]]
    /\ UNCHANGED <<parent, rank, filed, raced>>

\* CountSnippets; trashed snippets count as well.
DeleteCount(p) ==
    LET f == flight[p] IN
    /\ At(p, "count")
    /\ flight' = [flight EXCEPT ![p] = IF \E s \in Snippet : filed[s] = f.id
                                       THEN Idle ELSE [f EXCEPT !.pc = "exec"]]
    /\ UNCHANGED <<parent, rank, filed, raced>>

\* Mutant: ON DELETE without SET NULL for the children.
DeleteKeepsParent(p) ==
    LET g == flight[p].id IN
    /\ At(p, "exec")
    /\ parent' = IF Exists(g) THEN [parent EXCEPT ![g] = Dead] ELSE parent
    /\ filed' = IF Exists(g) THEN [s \in Snippet |-> IF filed[s] = g THEN Top ELSE filed[s]] ELSE filed
    /\ flight' = [flight EXCEPT ![p] = Idle]
    /\ UNCHANGED <<rank, raced>>

\* DELETE; ON DELETE SET NULL for children and snippets.
DeleteExec(p) ==
    LET g == flight[p].id IN
    /\ At(p, "exec")
    /\ parent' = IF Exists(g)
                 THEN [c \in Group |-> IF c = g THEN Dead
                                       ELSE IF parent[c] = g THEN Top ELSE parent[c]]
                 ELSE parent
    /\ filed' = IF Exists(g) THEN [s \in Snippet |-> IF filed[s] = g THEN Top ELSE filed[s]] ELSE filed
    /\ flight' = [flight EXCEPT ![p] = Idle]
    /\ UNCHANGED <<rank, raced>>

\* The request is cancelled, a query fails, or the process dies.
Abort(p) ==
    /\ ~At(p, "idle")
    /\ flight' = [flight EXCEPT ![p] = Idle]
    /\ UNCHANGED <<parent, rank, filed, raced>>

-----------------------------------------------------------------------------
CreateNext(p) ==
    \E to \in Group \cup {Top} :
        \/ \E g \in Group : Create(p, g, to)
        \/ \E s \in Snippet : File(p, s, to)
UpdateNext(p) ==
    \/ \E g \in Group, to \in Group \cup {Top}, r \in Rank \cup {Top} : UpdateCheck(p, g, to, r)
    \/ UpdateQuery(p) \/ UpdateSave(p)
DeleteNext(p) ==
    (\E g \in Group : DeleteCheck(p, g)) \/ DeleteCount(p) \/ DeleteExec(p)

Next == \E p \in Proc : CreateNext(p) \/ UpdateNext(p) \/ DeleteNext(p) \/ Abort(p)
Spec == Init /\ [][Next]_vars

-----------------------------------------------------------------------------
(* Properties                                                              *)

\* A set of groups that contain only each other: none of them is reachable from
\* the top, nor is anything filed in them.
Island(S) == S # {} /\ \A g \in S : parent[g] \in S
Cyclic    == \E S \in SUBSET Group : Island(S)

\* Update's cycle check suffices unless another move is saved between the check
\* and the write: whatever else interleaves (creations, moves to the top,
\* deletions with their SET NULL), the groups stay a forest.
CycleOnlyByOverlap == Cyclic => raced

\* "Moving A under its descendant C would create a cycle, so reject it": the
\* groups are a forest, also when two of them are moved at the same time.
NoCycle == ~Cyclic

\* A group is deleted empty.  What DeleteExec is about to remove held neither a
\* group nor a snippet when they were counted, and holds none now unless something
\* was put there after its count; the two counts and the DELETE are three
\* statements, and an Update in flight may still bring a child.
DeletesOnlyEmpty ==
    \A p \in Proc : At(p, "exec") /\ ~flight[p].late => Contents(flight[p].id) = {}

\* No row names a group without a row: every group and every snippet stays
\* reachable after the deletions, those that raced with a move included.
ReferencesOK ==
    /\ \A g \in Group : parent[g] \in Group => Exists(parent[g])
    /\ \A s \in Snippet : filed[s] \in Group => Exists(filed[s])

-----------------------------------------------------------------------------
(* The inductive invariant: the walk of a cycle check leaves behind a set   *)
(* of groups that contains the target, not the moved group, and is closed   *)
(* under parents.  Creations, deletions and moves to the top keep it closed, *)
(* only a move below another group may open it.                             *)

Closed(T) == \A g \in T : parent[g] \in T \cup {Top, Dead}
Separated(id, to) == \E T \in SUBSET Group : to \in T /\ id \notin T /\ Closed(T)

Known(g) == g \in Group /\ parent[g] # New
Filled(g) == \E s \in Snippet : filed[s] = g
HasChild(g) == \E c \in Group : parent[c] = g

FlightOK(f) ==
    /\ f.pc # "idle" => Known(f.id)
    /\ f.pc \in {"query", "save"} /\ f.to \in Group =>
          Known(f.to) /\ (f.stale \/ Separated(f.id, f.to))
    /\ f.pc \in {"count", "exec"} /\ ~f.late => ~HasChild(f.id)
    /\ f.pc = "exec" /\ ~f.late => ~Filled(f.id)

IInv == TypeOK /\ ReferencesOK /\ CycleOnlyByOverlap /\ \A p \in Proc : FlightOK(flight[p])

=============================================================================
