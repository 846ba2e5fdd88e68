------------------------------ MODULE Snippets ------------------------------
(***************************************************************************)
(* The snippets of ONE owner: service/snippet over entstore/snippet.        *)
(* Requests on them interleave between their reads and their write; no      *)
(* transaction spans the two.  Groups are those of GroupTree and exist      *)
(* throughout; title, language, favorite flag and tags are left out, the    *)
(* writes that set them too or alone are not (they change updated_at).      *)
(***************************************************************************)
EXTENDS Integers

CONSTANTS
    Proc,       \* requests handled at the same time
    Snippet,    \* snippet ids
    Group, Text,
    Order,      \* sort_order values a client asks for
    Inbox,      \* no group: NULL
    None,
    MaxRequests, MaxTime    \* bounds

ASSUME NamesAssumption == Inbox \notin Group /\ None \notin Text \cup Group \cup {Inbox} \cup Int
ASSUME OrderAssumption == Order \subseteq Int
ASSUME LimitsAssumption == MaxRequests \in Nat /\ MaxTime \in Nat

VARIABLES
    row,        \* the table
    now,        \* time.Now, which stamps updated_at
    flight,     \* the request each handler is working on
    requests,   \* bound: requests other than Create
    edit,       \* history: text and group last asked for, per snippet
    clobbered,  \* history: snippets written on the strength of an outdated read
    told,       \* history: where the answers to the client say the snippet is
    crossed     \* history: snippets whose Delete or Restore met another one

vars == <<row, now, flight, requests, edit, clobbered, told, crossed>>

Place == Group \cup {Inbox}
Row == [there : {"new", "active", "trashed", "gone"}, text : Text \cup {None}, group : Place,
        order : Int, stamp : Nat]
Flight == [pc : {"idle", "query", "save", "soft", "purge", "restore", "max", "move", "touch"},
           s : Snippet \cup {None},
           text : Text \cup {None}, group : Place \cup {None},  \* as requested
           toText : Text \cup {None}, toGroup : Place \cup {None},   \* as it will be written
           was : Place \cup {None}, order : Int \cup {None},
           stale : BOOLEAN]   \* history: what the request has read has changed since

Idle == [pc |-> "idle", s |-> None, text |-> None, group |-> None, toText |-> None,
         toGroup |-> None, was |-> None, order |-> None, stale |-> FALSE]
Unborn == [there |-> "new", text |-> None, group |-> Inbox, order |-> 0, stamp |-> 0]

TypeOK ==
    /\ row \in [Snippet -> Row]
    /\ now \in Nat
    /\ flight \in [Proc -> Flight]
    /\ requests \in Nat
    /\ edit \in [Snippet -> [text : Text \cup {None}, group : Place]]
    /\ clobbered \subseteq Snippet
    /\ told \in [Snippet -> {"new", "active", "trashed", "gone"}]
    /\ crossed \subseteq Snippet

Init ==
    /\ row = [s \in Snippet |-> Unborn]
    /\ now = 0
    /\ flight = [p \in Proc |-> Idle]
    /\ requests = 0
    /\ edit = [s \in Snippet |-> [text |-> None, group |-> Inbox]]
    /\ clobbered = {}
    /\ told = [s \in Snippet |-> "new"]
    /\ crossed = {}

-----------------------------------------------------------------------------
At(p, step)  == flight[p].pc = step
Exists(s)    == row[s].there \in {"active", "trashed"}
Trashing     == {"soft", "purge", "restore"}
Editing      == {"query", "save"}
Request      == requests < MaxRequests /\ requests' = requests + 1

\* History: p goes on with own, the requests in hit have read something else.
Go(p, own, hit) ==
    flight' = [q \in Proc |-> IF q = p THEN own
                              ELSE [flight[q] EXCEPT !.stale = @ \/ q \in hit]]
Others(s, steps) == {q \in Proc : flight[q].s = s /\ flight[q].pc \in steps}
\* The appends to group g that have read its maximum.
Appending(g) == {q \in Proc : At(q, "move") /\ flight[q].toGroup = g}

-----------------------------------------------------------------------------
(* Create and Update                                                       *)

Create(p, s, t, g) ==
    /\ At(p, "idle") /\ row[s].there = "new"
    /\ row' = [row EXCEPT ![s] = [there |-> "active", text |-> t, group |-> g, order |-> 0,
                                  stamp |-> now]]
    /\ edit' = [edit EXCEPT ![s] = [text |-> t, group |-> g]]
    /\ told' = [told EXCEPT ![s] = "active"]
    /\ Go(p, Idle, Appending(g))
    /\ UNCHANGED <<now, requests, clobbered, crossed>>

\* Mutant: no group in the request means no group in the row.
UpdateReadClears(p, s, t, g) ==
    LET old == row[s] IN
    /\ Request
    /\ At(p, "idle") /\ Exists(s)
    /\ flight' = [flight EXCEPT ![p] =
          [Idle EXCEPT !.pc = "query", !.s = s, !.text = t, !.group = g,
                       !.toText = IF t = None THEN old.text ELSE t,
                       !.toGroup = IF g = None THEN Inbox ELSE g]]
    /\ UNCHANGED <<row, now, edit, clobbered, told, crossed>>

\* GetByID, then normalizeUpdateCommand: what the request leaves out is written
\* back as it was read.  Trashed snippets can be updated as well.
UpdateRead(p, s, t, g) ==
    LET old == row[s] IN
    /\ Request
    /\ At(p, "idle") /\ Exists(s)
    /\ flight' = [flight EXCEPT ![p] =
          [Idle EXCEPT !.pc = "query", !.s = s, !.text = t, !.group = g,
                       !.toText = IF t = None THEN old.text ELSE t,
                       !.toGroup = IF g = None THEN old.group ELSE g]]
    /\ UNCHANGED <<row, now, edit, clobbered, told, crossed>>

\* Store.Update reads the row again: group_id is cleared only if it was set.
UpdateQuery(p) ==
    LET f == flight[p] IN
    /\ At(p, "query")
    /\ flight' = [flight EXCEPT ![p] = IF Exists(f.s)
                    THEN [f EXCEPT !.pc = "save", !.was = row[f.s].group] ELSE Idle]
    /\ UNCHANGED <<row, now, requests, edit, clobbered, told, crossed>>

UpdateSave(p) ==
    LET f     == flight[p]
        group == IF f.toGroup # Inbox \/ f.was # Inbox THEN f.toGroup ELSE row[f.s].group
    IN
    /\ At(p, "save")
    /\ IF Exists(f.s)
       THEN /\ row' = [row EXCEPT ![f.s] = [@ EXCEPT !.text = f.toText, !.group = group,
                                                     !.stamp = now]]
            /\ edit' = [edit EXCEPT ![f.s] = [text  |-> IF f.text = None THEN @.text ELSE f.text,
                                              group |-> IF f.group = None THEN @.group ELSE f.group]]
            /\ clobbered' = IF f.stale THEN clobbered \cup {f.s} ELSE clobbered
            /\ Go(p, Idle, Others(f.s, Editing) \cup Appending(group))
       ELSE Go(p, Idle, {}) /\ UNCHANGED <<row, edit, clobbered>>
    /\ UNCHANGED <<now, requests, told, crossed>>

-----------------------------------------------------------------------------
(* Delete and Restore                                                      *)

\* Mutant: whatever is deleted is purged.
DeleteReadPurges(p, s) ==
    /\ Request
    /\ At(p, "idle") /\ Exists(s)
    /\ flight' = [flight EXCEPT ![p] = [Idle EXCEPT !.s = s, !.pc = "purge"]]
    /\ UNCHANGED <<row, now, edit, clobbered, told, crossed>>

\* GetByID: to the trash, or for good if it is there already.
DeleteRead(p, s) ==
    /\ Request
    /\ At(p, "idle") /\ Exists(s)
    /\ flight' = [flight EXCEPT ![p] =
          [Idle EXCEPT !.s = s, !.pc = IF row[s].there = "trashed" THEN "purge" ELSE "soft"]]
    /\ UNCHANGED <<row, now, edit, clobbered, told, crossed>>

RestoreRead(p, s) ==
    /\ Request
    /\ At(p, "idle") /\ row[s].there = "trashed"
    /\ flight' = [flight EXCEPT ![p] = [Idle EXCEPT !.s = s, !.pc = "restore"]]
    /\ UNCHANGED <<row, now, edit, clobbered, told, crossed>>

\* What the client makes of the answer to a Delete: the first one is the trash.
AfterDelete(s) == IF told[s] = "trashed" THEN "gone" ELSE "trashed"

\* History of a trash operation by p that is answered with success.
Trashed(p, belief) ==
    LET s == flight[p].s IN
    /\ told' = [told EXCEPT ![s] = belief]
    /\ crossed' = IF flight[p].stale THEN crossed \cup {s} ELSE crossed
    /\ Go(p, Idle, Others(s, Trashing))

\* UPDATE ... SET deleted_at; no row is a success as well.
SoftDelete(p) ==
    LET s == flight[p].s IN
    /\ At(p, "soft")
    /\ row' = IF Exists(s) THEN [row EXCEPT ![s].there = "trashed", ![s].stamp = now] ELSE row
    /\ Trashed(p, AfterDelete(s))
    /\ UNCHANGED <<now, requests, edit, clobbered>>

\* Count, then DELETE; a row that has gone before either is an error.
Purge(p) ==
    LET s == flight[p].s IN
    /\ At(p, "purge")
    /\ IF Exists(s)
       THEN /\ row' = [row EXCEPT ![s] = [Unborn EXCEPT !.there = "gone"]]
            /\ Trashed(p, AfterDelete(s))
       ELSE Go(p, Idle, {}) /\ UNCHANGED <<row, told, crossed>>
    /\ UNCHANGED <<now, requests, edit, clobbered>>

\* UPDATE ... SET deleted_at = NULL; no row is a success as well.
Restore(p) ==
    LET s == flight[p].s IN
    /\ At(p, "restore")
    /\ row' = IF Exists(s) THEN [row EXCEPT ![s].there = "active", ![s].stamp = now] ELSE row
    /\ Trashed(p, "active")
    /\ UNCHANGED <<now, requests, edit, clobbered>>

-----------------------------------------------------------------------------
(* Move, SetFavorite and SetTags                                           *)

\* GetByID; with a sort_order in the request the next step is the write.
MoveRead(p, s, g, o) ==
    /\ Request
    /\ At(p, "idle") /\ Exists(s)
    /\ flight' = [flight EXCEPT ![p] =
          [Idle EXCEPT !.pc = IF o = None THEN "max" ELSE "move", !.s = s, !.toGroup = g,
                       !.group = g, !.order = o,
                       !.stale = o # None]]   \* not an append
    /\ UNCHANGED <<row, now, edit, clobbered, told, crossed>>

Orders(g)  == {row[s].order : s \in {t \in Snippet : Exists(t) /\ row[t].group = g}}
Largest(S) == {m \in S : \A n \in S : n <= m}

\* Mutant: the trash does not count.
MoveMaxActive(p) ==
    LET f == flight[p]
        orders == {row[s].order : s \in {t \in Snippet : row[t].there = "active" /\ row[t].group = f.toGroup}}
    IN
    /\ At(p, "max")
    /\ \E max \in IF orders = {} THEN {0} ELSE Largest(orders) :
          flight' = [flight EXCEPT ![p] = [f EXCEPT !.pc = "move", !.order = max + 1]]
    /\ UNCHANGED <<row, now, requests, edit, clobbered, told, crossed>>

\* Mutant: an empty group yields no order.
MoveMaxUnset(p) ==
    LET f == flight[p] IN
    /\ At(p, "max")
    /\ IF Orders(f.toGroup) = {}
       THEN flight' = [flight EXCEPT ![p] = [f EXCEPT !.pc = "move"]]
       ELSE \E max \in Largest(Orders(f.toGroup)) :
              flight' = [flight EXCEPT ![p] = [f EXCEPT !.pc = "move", !.order = max + 1]]
    /\ UNCHANGED <<row, now, requests, edit, clobbered, told, crossed>>

\* MaxSortOrderInGroup counts the trashed snippets too; an empty group has 0.
MoveMax(p) ==
    LET f == flight[p] IN
    /\ At(p, "max")
    /\ \E max \in IF Orders(f.toGroup) = {} THEN {0} ELSE Largest(Orders(f.toGroup)) :
          flight' = [flight EXCEPT ![p] = [f EXCEPT !.pc = "move", !.order = max + 1]]
    /\ UNCHANGED <<row, now, requests, edit, clobbered, told, crossed>>

\* Store.Move; the row it reads first is used for its id alone.
MoveSave(p) ==
    LET f == flight[p] IN
    /\ At(p, "move")
    /\ IF Exists(f.s)
       THEN /\ row' = [row EXCEPT ![f.s] = [@ EXCEPT !.group = f.toGroup, !.order = f.order,
                                                     !.stamp = now]]
            /\ edit' = [edit EXCEPT ![f.s].group = f.toGroup]
            /\ Go(p, Idle, Others(f.s, Editing) \cup Appending(f.toGroup))
       ELSE Go(p, Idle, {}) /\ UNCHANGED <<row, edit>>
    /\ UNCHANGED <<now, requests, clobbered, told, crossed>>

\* SetFavorite refuses a trashed snippet, SetTags does not look.
TouchRead(p, s) ==
    /\ Request
    /\ At(p, "idle") /\ Exists(s)
    /\ flight' = [flight EXCEPT ![p] = [Idle EXCEPT !.pc = "touch", !.s = s]]
    /\ UNCHANGED <<row, now, edit, clobbered, told, crossed>>

TouchSave(p) ==
    LET s == flight[p].s IN
    /\ At(p, "touch")
    /\ row' = IF Exists(s) THEN [row EXCEPT ![s].stamp = now] ELSE row
    /\ Go(p, Idle, {})
    /\ UNCHANGED <<now, requests, edit, clobbered, told, crossed>>

-----------------------------------------------------------------------------
\* A query fails, the request is cancelled or the process dies before the write.
Abort(p) ==
    /\ ~At(p, "idle")
    /\ Go(p, Idle, {})
    /\ UNCHANGED <<row, now, requests, edit, clobbered, told, crossed>>

Tick ==
    /\ now < MaxTime /\ now' = now + 1
    /\ UNCHANGED <<row, flight, requests, edit, clobbered, told, crossed>>

EditNext(p) ==
    \/ \E s \in Snippet, g \in Place :
          \/ \E t \in Text : Create(p, s, t, g)
          \/ \E o \in Order \cup {None} : MoveRead(p, s, g, o)
    \/ \E s \in Snippet, t \in Text \cup {None}, g \in Place \cup {None} : UpdateRead(p, s, t, g)
    \/ UpdateQuery(p) \/ UpdateSave(p) \/ MoveMax(p) \/ MoveSave(p)

TrashNext(p) ==
    \/ \E s \in Snippet : DeleteRead(p, s) \/ RestoreRead(p, s) \/ TouchRead(p, s)
    \/ SoftDelete(p) \/ Purge(p) \/ Restore(p) \/ TouchSave(p)

Next == Tick \/ \E p \in Proc : EditNext(p) \/ TrashNext(p) \/ Abort(p)
Spec == Init /\ [][Next]_vars

-----------------------------------------------------------------------------
(* Properties                                                              *)

\* What a user has saved stays: text and group are those last asked for, though
\* every Update writes all columns back, unless one of these Updates had read the
\* row before another Update or a Move was saved.
EditsSurvive ==
    \A s \in Snippet :
        Exists(s) /\ s \notin clobbered => row[s].text = edit[s].text /\ row[s].group = edit[s].group

\* The first Delete is the trash, the second one is for good, Restore undoes the
\* first: a client that counts its answers knows where the snippet is, unless a
\* Delete or a Restore decided on a row that another one has changed since.
TrashAsTold == \A s \in Snippet \ crossed : row[s].there = told[s]

\* "When unspecified, use the current max in the target group plus 1": the order
\* about to be written is above every other one in the group, trash included, so
\* that restored snippets keep their place, unless the group has changed since the
\* maximum was read.
AppendsAtEnd ==
    \A p \in Proc :
        At(p, "move") /\ ~flight[p].stale =>
            \A s \in Snippet : Exists(s) /\ row[s].group = flight[p].toGroup => row[s].order < flight[p].order

-----------------------------------------------------------------------------
(* The inductive invariant: what a request has read stays true while it     *)
(* runs, unless it is marked stale.                                         *)

\* An Update writes what it was asked for and, for the rest, what is there.
EditOK(f) ==
    f.pc \in Editing /\ ~f.stale /\ Exists(f.s) =>
        /\ f.toText = IF f.text = None THEN row[f.s].text ELSE f.text
        /\ f.toGroup = IF f.group = None THEN row[f.s].group ELSE f.group
        /\ f.pc = "save" => f.was = row[f.s].group

\* A Delete or a Restore finds the snippet where it was.
TrashOK(f) ==
    f.pc \in Trashing /\ ~f.stale =>
        row[f.s].there = IF f.pc = "soft" THEN "active" ELSE "trashed"

AppendOK(f) ==
    f.pc = "move" /\ ~f.stale =>
        \A s \in Snippet : Exists(s) /\ row[s].group = f.toGroup => row[s].order < f.order

\* Ids are not used again, and each step has the fields it writes.
RequestOK(f) ==
    /\ f.pc # "idle" => f.s \in Snippet /\ row[f.s].there # "new"
    /\ f.pc \in Editing \cup {"max", "move"} => f.toGroup \in Place
    /\ f.pc = "move" => f.order \in Int

FlightOK(f) == RequestOK(f) /\ EditOK(f) /\ TrashOK(f) /\ AppendOK(f)
IInv == TypeOK /\ EditsSurvive /\ TrashAsTold /\ \A p \in Proc : FlightOK(flight[p])

=============================================================================
