------------------------------ MODULE Library ------------------------------
(***************************************************************************)
(* Shares, forks and templates of the notes service (service/share,        *)
(* service/lineage, service/template, CreateSnippetFromShare and           *)
(* CreateSnippetFromTemplate): what happens to a snippet besides editing.  *)
(*                                                                         *)
(* A handler is a flight of single statements without a transaction, and   *)
(* may fail or die between any two of them.  A request by a user who does  *)
(* not own what it names changes nothing and is left out, and so are       *)
(* passwords, contents and the copy of a file object.  A snippet is        *)
(* trashed, restored and purged as in Snippets, in one step here.  A row   *)
(* of shares refers to its snippet by a foreign key without an action: it  *)
(* makes the DELETE of the snippet fail.                                   *)
(***************************************************************************)
EXTENDS Naturals, Sequences, FiniteSets

CONSTANTS
    Proc,        \* handlers that run at the same time
    Snippet,     \* snippet ids
    None,
    MaxShares, MaxTemplates, MaxRequests, MaxFaults   \* bounds

ASSUME ProcAssumption == IsFiniteSet(Proc)
ASSUME MarkerAssumption == None \notin Snippet
ASSUME LibraryBounds ==
    MaxShares \in Nat /\ MaxTemplates \in Nat /\ MaxRequests \in Nat /\ MaxFaults \in Nat

VARIABLES
    note,      \* where each snippet is
    share,     \* rows of shares in the order of created_at
    template,  \* rows of templates; one stands for the batch of system templates
    lineage,   \* rows of snippet_lineages
    flight,    \* the handler each Proc is running
    requests,  \* bound
    faults     \* bound

vars == <<note, share, template, lineage, flight, requests, faults>>

Kind == {"article", "template"}
Relation == {"import", "fork", "template"}
ShareRow == [there : BOOLEAN, snippet : Snippet, kind : Kind,
             until : {"ever", "later", "past"},   \* expires_at
             views : Nat, forks : Nat,
             owed : Nat,       \* history: views and forks that took place
             missed : Nat,     \* history: counts that failed or died with their handler
             raced : BOOLEAN]  \* history: another one like it was made since its Create looked
TemplateRow == [there : BOOLEAN, system : BOOLEAN,
                raced : BOOLEAN]  \* history: another batch was made since its seeding counted
Flight == [op : {"none", "share", "revoke", "view", "fork", "use", "seed"},
           pc : {"idle", "find", "insert", "revoke", "load", "create", "lineage", "count", "seed"},
           snippet : Snippet \cup {None},
           kind : Kind, until : {"ever", "later"},
           share : Nat, forks : Nat,   \* the share it has read
           stale : BOOLEAN]   \* history: what it has looked for was made since

Idle == [op |-> "none", pc |-> "idle", snippet |-> None, kind |-> "article", until |-> "ever",
         share |-> 0, forks |-> 0, stale |-> FALSE]

TypeOK ==
    /\ note \in [Snippet -> {"new", "active", "trashed", "gone"}]
    /\ share \in Seq(ShareRow)
    /\ template \in Seq(TemplateRow)
    /\ lineage \in [Snippet -> Relation \cup {None}]
    /\ flight \in [Proc -> Flight]
    /\ requests \in Nat /\ faults \in Nat

Init ==
    /\ note = [s \in Snippet |-> "new"]
    /\ share = <<>> /\ template = <<>>
    /\ lineage = [s \in Snippet |-> None]
    /\ flight = [p \in Proc |-> Idle]
    /\ requests = 0 /\ faults = 0

-----------------------------------------------------------------------------
At(p, step)  == flight[p].pc = step
Goto(p, f)   == flight' = [flight EXCEPT ![p] = f]
Request      == requests < MaxRequests /\ requests' = requests + 1
Fault        == faults < MaxFaults /\ faults' = faults + 1
Exists(s)    == s \in Snippet /\ note[s] \in {"active", "trashed"}
Live(i)      == share[i].there /\ share[i].until # "past"
Active(s, kind) == {i \in DOMAIN share : Live(i) /\ share[i].snippet = s /\ share[i].kind = kind}

\* p ends with f; the others in hit have looked for what p has just made.
GotoHitting(p, f, hit) ==
    flight' = [q \in Proc |-> IF q = p THEN f ELSE [flight[q] EXCEPT !.stale = @ \/ q \in hit]]

-----------------------------------------------------------------------------
(* The snippet                                                             *)

Write(s) ==
    /\ note[s] = "new"
    /\ note' = [note EXCEPT ![s] = "active"]
    /\ UNCHANGED <<share, template, lineage, flight, requests, faults>>

\* Moved to the trash and back: its shares stay.
TrashOrRestore(s) ==
    /\ Exists(s)
    /\ note' = [note EXCEPT ![s] = IF @ = "active" THEN "trashed" ELSE "active"]
    /\ UNCHANGED <<share, template, lineage, flight, requests, faults>>

\* Mutant: the schema is created without foreign keys.
PurgeUnchecked(s) ==
    /\ note[s] = "trashed"
    /\ note' = [note EXCEPT ![s] = "gone"]
    /\ UNCHANGED <<share, template, lineage, flight, requests, faults>>

\* DeleteOneID fails while any share refers to the snippet, expired or not; the
\* row of its lineage stays behind.
Purge(s) ==
    /\ note[s] = "trashed"
    /\ \A i \in DOMAIN share : share[i].there => share[i].snippet # s
    /\ note' = [note EXCEPT ![s] = "gone"]
    /\ UNCHANGED <<share, template, lineage, flight, requests, faults>>

-----------------------------------------------------------------------------
(* shareService.Create and Delete                                          *)

\* The snippet may be in the trash.
ShareRead(p, s, kind, until) ==
    /\ Request
    /\ At(p, "idle") /\ Exists(s)
    /\ Goto(p, [Idle EXCEPT !.op = "share", !.pc = "find", !.snippet = s, !.kind = kind, !.until = until])
    /\ UNCHANGED <<note, share, template, lineage, faults>>

\* Mutant: links with an expiry are not looked for.
ShareFindForever(p) ==
    LET f == flight[p] IN
    /\ At(p, "find")
    /\ Goto(p, IF \E i \in Active(f.snippet, f.kind) : share[i].until = "ever" THEN Idle
               ELSE [f EXCEPT !.pc = "insert"])
    /\ UNCHANGED <<note, share, template, lineage, requests, faults>>

\* FindActiveToken: an active link is the answer, whatever expiry was asked for.
ShareFind(p) ==
    LET f == flight[p] IN
    /\ At(p, "find")
    /\ Goto(p, IF Active(f.snippet, f.kind) # {} THEN Idle ELSE [f EXCEPT !.pc = "insert"])
    /\ UNCHANGED <<note, share, template, lineage, requests, faults>>

\* The INSERT fails if the snippet has been purged meanwhile.
ShareInsert(p) ==
    LET f == flight[p] IN
    /\ At(p, "insert")
    /\ Len(share) < MaxShares
    /\ share' = IF Exists(f.snippet)
                THEN Append(share, [there |-> TRUE, snippet |-> f.snippet, kind |-> f.kind,
                                    until |-> f.until, views |-> 0, forks |-> 0, owed |-> 0,
                                    missed |-> 0, raced |-> f.stale])
                ELSE share
    /\ GotoHitting(p, Idle, {q \in Proc : /\ At(q, "insert") /\ Exists(f.snippet)
                                          /\ flight[q].snippet = f.snippet /\ flight[q].kind = f.kind})
    /\ UNCHANGED <<note, template, lineage, requests, faults>>

RevokeRead(p, i) ==
    /\ Request
    /\ At(p, "idle") /\ share[i].there
    /\ Goto(p, [Idle EXCEPT !.op = "revoke", !.pc = "revoke", !.share = i])
    /\ UNCHANGED <<note, share, template, lineage, faults>>

\* The second of two deletions finds nothing and answers an error.
RevokeExec(p) ==
    /\ At(p, "revoke")
    /\ share' = [share EXCEPT ![flight[p].share].there = FALSE]
    /\ Goto(p, Idle)
    /\ UNCHANGED <<note, template, lineage, requests, faults>>

Expire(i) ==
    /\ share[i].there /\ share[i].until = "later"
    /\ share' = [share EXCEPT ![i].until = "past"]
    /\ UNCHANGED <<note, template, lineage, flight, requests, faults>>

-----------------------------------------------------------------------------
(* GetPublicByToken and CreateSnippetFromShare                             *)

\* getSourceByToken reads the link and checks its expiry ...
OpenLink(p, i, op) ==
    /\ Request
    /\ At(p, "idle") /\ Live(i)
    /\ Goto(p, [Idle EXCEPT !.op = op, !.pc = "load", !.share = i, !.kind = share[i].kind,
                            !.snippet = share[i].snippet, !.forks = share[i].forks])
    /\ UNCHANGED <<note, share, template, lineage, faults>>

\* ... then the snippet: trashed ones are served, purged ones are not found.
LoadSource(p) ==
    LET f == flight[p]
        i == f.share
    IN
    /\ At(p, "load")
    /\ share' = IF Exists(f.snippet) /\ f.op = "view" THEN [share EXCEPT ![i].owed = @ + 1] ELSE share
    /\ Goto(p, IF Exists(f.snippet)
               THEN [f EXCEPT !.pc = IF f.op = "view" THEN "count" ELSE "create"] ELSE Idle)
    /\ UNCHANGED <<note, template, lineage, requests, faults>>

\* CreateSnippetFromTemplate reads its template.
UseTemplate(p, t) ==
    /\ Request
    /\ At(p, "idle") /\ template[t].there
    /\ Goto(p, [Idle EXCEPT !.op = "use", !.pc = "create"])
    /\ UNCHANGED <<note, share, template, lineage, faults>>

\* Only a fork of a template share will be counted.
CreateCopy(p, s) ==
    LET f == flight[p]
        i == f.share
    IN
    /\ At(p, "create")
    /\ note[s] = "new"
    /\ note' = [note EXCEPT ![s] = "active"]
    /\ share' = IF f.op = "fork" /\ f.kind = "template" THEN [share EXCEPT ![i].owed = @ + 1] ELSE share
    /\ Goto(p, [f EXCEPT !.pc = "lineage", !.snippet = s])
    /\ UNCHANGED <<template, lineage, requests, faults>>

\* After the lineage, a fork of a template share goes on to its count.
AfterLineage(f) == IF f.op = "fork" /\ f.kind = "template" THEN [f EXCEPT !.pc = "count"] ELSE Idle

\* Mutant: the kind of the share is taken for the relation.
RecordKind(p) ==
    LET f == flight[p] IN
    /\ At(p, "lineage")
    /\ lineage' = [lineage EXCEPT ![f.snippet] = IF f.op = "use" THEN "template" ELSE f.kind]
    /\ Goto(p, AfterLineage(f))
    /\ UNCHANGED <<note, share, template, requests, faults>>

\* lineageService.Record: the snippet is new, so no row exists.
Record(p) ==
    LET f == flight[p] IN
    /\ At(p, "lineage")
    /\ lineage' = [lineage EXCEPT ![f.snippet] = CASE f.op = "use"          -> "template"
                                                   [] f.kind = "template" -> "fork"
                                                   [] OTHER               -> "import"]
    /\ Goto(p, AfterLineage(f))
    /\ UNCHANGED <<note, share, template, requests, faults>>

\* Its failure is only logged.
RecordFails(p) ==
    /\ At(p, "lineage")
    /\ Fault
    /\ Goto(p, AfterLineage(flight[p]))
    /\ UNCHANGED <<note, share, template, lineage, requests>>

\* Mutant: the count is written as it was read, plus one.
CountFromRead(p) ==
    LET f == flight[p]
        i == f.share
    IN
    /\ At(p, "count")
    /\ share' = IF ~share[i].there THEN share
                ELSE IF f.op = "view" THEN [share EXCEPT ![i].views = @ + 1]
                ELSE [share EXCEPT ![i].forks = f.forks + 1]
    /\ Goto(p, Idle)
    /\ UNCHANGED <<note, template, lineage, requests, faults>>

\* IncrementViewCount, IncrementForkCount: SET x = x + 1; nothing if the link has
\* been deleted.
Count(p) ==
    LET f == flight[p]
        i == f.share
    IN
    /\ At(p, "count")
    /\ share' = IF ~share[i].there THEN share
                ELSE IF f.op = "view" THEN [share EXCEPT ![i].views = @ + 1]
                ELSE [share EXCEPT ![i].forks = @ + 1]
    /\ Goto(p, Idle)
    /\ UNCHANGED <<note, template, lineage, requests, faults>>

-----------------------------------------------------------------------------
(* Templates                                                               *)

SystemTemplates == {t \in DOMAIN template : template[t].system}
NewTemplate(system, raced) ==
    /\ Len(template) < MaxTemplates
    /\ template' = Append(template, [there |-> TRUE, system |-> system, raced |-> raced])

\* A user creates a template, or deletes one of his own; Update changes no row's
\* place here.
TemplateCreate ==
    /\ NewTemplate(FALSE, FALSE)
    /\ UNCHANGED <<note, share, lineage, flight, requests, faults>>

TemplateDelete(t) ==
    /\ template[t].there /\ ~template[t].system
    /\ template' = [template EXCEPT ![t].there = FALSE]
    /\ UNCHANGED <<note, share, lineage, flight, requests, faults>>

\* Mutant: CountSystem counts the templates of users.
SeedCountPersonal(p) ==
    /\ Request
    /\ At(p, "idle")
    /\ \A t \in DOMAIN template : template[t].there => template[t].system
    /\ Goto(p, [Idle EXCEPT !.op = "seed", !.pc = "seed"])
    /\ UNCHANGED <<note, share, template, lineage, faults>>

\* SeedSystemTemplates, when an instance of the service starts: it goes on only if
\* CountSystem is zero.
SeedCount(p) ==
    /\ Request
    /\ At(p, "idle")
    /\ SystemTemplates = {}
    /\ Goto(p, [Idle EXCEPT !.op = "seed", !.pc = "seed"])
    /\ UNCHANGED <<note, share, template, lineage, faults>>

\* CreateBatch inserts the three of them in one statement.
SeedInsert(p) ==
    /\ At(p, "seed")
    /\ NewTemplate(TRUE, flight[p].stale)
    /\ GotoHitting(p, Idle, {q \in Proc : At(q, "seed")})
    /\ UNCHANGED <<note, share, lineage, requests, faults>>

-----------------------------------------------------------------------------
\* A share that p has used and will not count any more.
Misses(p) ==
    LET f == flight[p] IN
    IF At(p, "count") \/ (At(p, "lineage") /\ AfterLineage(f) # Idle) THEN {f.share} ELSE {}

\* A statement fails with an error, or the process dies: what is written stays.  A
\* count that fails is only logged.
Crash(p) ==
    /\ ~At(p, "idle")
    /\ Fault
    /\ share' = [i \in DOMAIN share |-> IF i \in Misses(p) THEN [share[i] EXCEPT !.missed = @ + 1]
                                        ELSE share[i]]
    /\ Goto(p, Idle)
    /\ UNCHANGED <<note, template, lineage, requests>>

SnippetNext(s) == Write(s) \/ TrashOrRestore(s) \/ Purge(s)
ShareNext(p) ==
    \/ \E s \in Snippet, kind \in Kind, until \in {"ever", "later"} : ShareRead(p, s, kind, until)
    \/ ShareFind(p) \/ ShareInsert(p) \/ RevokeExec(p)
    \/ \E i \in DOMAIN share : RevokeRead(p, i)
LinkNext(p) ==
    \/ \E i \in DOMAIN share, op \in {"view", "fork"} : OpenLink(p, i, op)
    \/ LoadSource(p) \/ Record(p) \/ RecordFails(p) \/ Count(p)
    \/ \E s \in Snippet : CreateCopy(p, s)
TemplateNext ==
    \/ TemplateCreate \/ \E t \in DOMAIN template : TemplateDelete(t)
    \/ \E p \in Proc : SeedCount(p) \/ SeedInsert(p) \/ \E t \in DOMAIN template : UseTemplate(p, t)

Next ==
    \/ \E s \in Snippet : SnippetNext(s)
    \/ \E i \in DOMAIN share : Expire(i)
    \/ \E p \in Proc : ShareNext(p) \/ LinkNext(p) \/ Crash(p)
    \/ TemplateNext

Spec == Init /\ [][Next]_vars

-----------------------------------------------------------------------------
(* Properties                                                              *)

\* Asking again for a link gives the link there is: two links of one kind to one
\* snippet are active at once only if the Create of the younger one had looked
\* before the older one was inserted; expiry, deletion and repeated requests never
\* lead to it.
OneLinkPerSnippet ==
    \A i, j \in DOMAIN share :
        i < j /\ j \in Active(share[i].snippet, share[i].kind) /\ Live(i) => share[j].raced

\* A link never outlives its snippet, not even if the snippet is purged between the
\* steps of the Create that shares it; so a link that opens finds its snippet unless
\* the link itself is deleted in between.
LinksNeverDangle ==
    /\ \A i \in DOMAIN share : share[i].there => Exists(share[i].snippet)
    /\ \A p \in Proc : At(p, "load") /\ ~Exists(flight[p].snippet) => ~share[flight[p].share].there

\* Views and forks of a link are counted exactly once each, however many run at the
\* same time: none is lost except with its handler, before its own count.
CountsExact ==
    \A i \in DOMAIN share : share[i].there =>
        LET pending == {p \in Proc : i \in Misses(p)} IN
        share[i].views + share[i].forks + share[i].missed + Cardinality(pending) = share[i].owed

\* "The operation is idempotent and skips existing entries": system templates are
\* inserted a second time only by two instances that count at the same time.
SeededOnce == \A s, t \in SystemTemplates : s < t => template[t].raced

=============================================================================
