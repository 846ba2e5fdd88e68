--------------------------- MODULE Library_proofs ---------------------------
(***************************************************************************)
(* The invariants of Library and Tags for any number of handlers,          *)
(* snippets, shares, templates and tags.                                   *)
(*                                                                         *)
(* IInv adds to the properties what makes them inductive: a Create that    *)
(* nobody has overtaken still finds no active link when it inserts, an     *)
(* opened link is known by its index and names the snippet that is loaded, *)
(* and a seeding that nobody has overtaken still finds no system template. *)
(* Most steps do not matter to it: Frame says what they have in common.    *)
(*                                                                         *)
(* Counting adds, on top of it, which handler works with which link, and   *)
(* rests on a balance: a step of one handler changes by the same amount    *)
(* what the handler has still to count and what is written of the link.    *)
(* TagInv is about the tags beside them.                                   *)
(***************************************************************************)
EXTENDS Tags, SequenceTheorems, FiniteSetTheorems, TLAPS

\* No link is active for a Create that has looked and has not been overtaken.
FoundNone ==
    \A p \in Proc : At(p, "insert") /\ ~flight[p].stale =>
        Active(flight[p].snippet, flight[p].kind) = {}

\* A link stands for a snippet.
LinksStand == \A i \in DOMAIN share : share[i].there => Exists(share[i].snippet)

\* An opened link names the snippet that is loaded next.
LinkKnown ==
    \A p \in Proc : At(p, "load") => /\ flight[p].share \in DOMAIN share
                                     /\ share[flight[p].share].snippet = flight[p].snippet

\* No template is there for a seeding that has counted and has not been overtaken.
CountedNone == \A p \in Proc : At(p, "seed") /\ ~flight[p].stale => SystemTemplates = {}

Inv == OneLinkPerSnippet /\ FoundNone /\ LinksStand /\ LinkKnown /\ CountedNone /\ SeededOnce
IInv == TypeOK /\ Inv

\* The rows of the tables are rows.
LEMMA Rows ==
    ASSUME TypeOK
    PROVE  /\ DOMAIN share = 1..Len(share) /\ Len(share) \in Nat
           /\ \A i \in DOMAIN share : share[i] \in ShareRow
           /\ DOMAIN template = 1..Len(template) /\ Len(template) \in Nat
           /\ \A t \in DOMAIN template : template[t] \in TemplateRow
<1>1. share \in Seq(ShareRow) /\ template \in Seq(TemplateRow)
  BY DEF TypeOK
<1> QED
  BY <1>1, LenProperties, ElementOfSeq

-----------------------------------------------------------------------------
(* What a step that does not matter to Inv leaves as it is                 *)

SameLinks ==
    /\ DOMAIN share' = DOMAIN share
    /\ \A i \in DOMAIN share :
        /\ share'[i].snippet = share[i].snippet
        /\ share'[i].kind = share[i].kind
        /\ share'[i].raced = share[i].raced
        /\ share'[i].there => share[i].there
        /\ share'[i].until # "past" => share[i].until # "past"

SameSystem ==
    /\ SystemTemplates' = SystemTemplates
    /\ \A t \in SystemTemplates : template'[t].raced = template[t].raced

NotesStay == \A s \in Snippet : Exists(s) => Exists(s)'

SameFlights ==
    \A p \in Proc : flight'[p].pc \in {"insert", "load", "seed"} => flight'[p] = flight[p]

\* A step that leaves these as they are keeps Inv.
LEMMA Frame ==
    ASSUME TypeOK, Inv, SameLinks, SameSystem, NotesStay, SameFlights
    PROVE  Inv'
<1>1. \A s, k : Active(s, k)' \subseteq Active(s, k)
  BY DEF SameLinks, Active, Live
<1>2. OneLinkPerSnippet'
  BY DEF Inv, SameLinks, OneLinkPerSnippet, Active, Live
<1>3. FoundNone'
  BY <1>1 DEF Inv, SameFlights, FoundNone, At
<1>4. LinksStand'
  <2> SUFFICES ASSUME NEW i \in DOMAIN share, share'[i].there
               PROVE  Exists(share[i].snippet)'
    BY DEF SameLinks, LinksStand, Exists
  <2>1. Exists(share[i].snippet)
    BY DEF Inv, SameLinks, LinksStand
  <2>2. share[i].snippet \in Snippet
    BY Rows DEF ShareRow
  <2> QED
    BY <2>1, <2>2 DEF NotesStay, SameLinks, Exists
<1>5. LinkKnown'
  BY DEF Inv, SameLinks, SameFlights, LinkKnown, At
<1>6. CountedNone'
  BY DEF Inv, SameSystem, SameFlights, CountedNone, At
<1>7. SeededOnce'
  BY DEF Inv, SameSystem, SeededOnce
<1> QED
  BY <1>2, <1>3, <1>4, <1>5, <1>6, <1>7 DEF Inv

\* A handler that goes on to none of the three steps changes no flight that matters.
LEMMA GoesElsewhere ==
    ASSUME TypeOK, NEW p \in Proc, NEW f, Goto(p, f), f.pc \notin {"insert", "load", "seed"}
    PROVE  SameFlights
BY DEF TypeOK, Goto, SameFlights

LEMMA Unchanged ==
    /\ UNCHANGED share => SameLinks
    /\ UNCHANGED template => SameSystem
    /\ UNCHANGED note => NotesStay
    /\ UNCHANGED flight => SameFlights
BY DEF SameLinks, SameSystem, SystemTemplates, NotesStay, Exists, SameFlights

-----------------------------------------------------------------------------
(* Types                                                                   *)

\* A table whose rows are changed one by one is a table again.
LEMMA RowsChange ==
    ASSUME TypeOK
    PROVE  /\ share' \in [DOMAIN share -> ShareRow] => share' \in Seq(ShareRow)
           /\ template' \in [DOMAIN template -> TemplateRow] => template' \in Seq(TemplateRow)
<1>1. /\ share' \in [DOMAIN share -> ShareRow] => share' \in [1..Len(share) -> ShareRow]
      /\ template' \in [DOMAIN template -> TemplateRow] => template' \in [1..Len(template) -> TemplateRow]
      /\ Len(share) \in Nat /\ Len(template) \in Nat
  BY Rows
<1> QED
  BY <1>1, SeqDef

\* Fields of a handler's record that a step sets keep their type.
LEMMA FlightTyped ==
    ASSUME TypeOK, NEW p \in Proc, NEW f \in Flight, Goto(p, f)
    PROVE  flight' \in [Proc -> Flight]
BY DEF TypeOK, Goto

LEMMA IdleTyped == Idle \in Flight
BY DEF Idle, Flight, Kind

-----------------------------------------------------------------------------
(* The snippet                                                             *)

LEMMA WriteSafe ==
    ASSUME IInv, NEW s \in Snippet, Write(s) \/ TrashOrRestore(s)
    PROVE  IInv'
<1>1. TypeOK'
  BY DEF IInv, TypeOK, Write, TrashOrRestore, Exists
<1>2. NotesStay
  BY DEF IInv, TypeOK, Write, TrashOrRestore, NotesStay, Exists
<1>3. UNCHANGED <<share, template, flight>>
  BY DEF Write, TrashOrRestore
<1> QED
  BY <1>1, <1>2, <1>3, Unchanged, Frame DEF IInv

LEMMA PurgeSafe ==
    ASSUME IInv, NEW s \in Snippet, Purge(s)
    PROVE  IInv'
<1>1. TypeOK'
  BY DEF IInv, TypeOK, Purge
<1>2. OneLinkPerSnippet' /\ FoundNone' /\ LinkKnown' /\ CountedNone' /\ SeededOnce'
  BY DEF IInv, Inv, Purge, OneLinkPerSnippet, FoundNone, LinkKnown, CountedNone, SeededOnce, Active, Live,
         At, SystemTemplates
<1>3. LinksStand'
  BY DEF IInv, Inv, TypeOK, Purge, LinksStand, Exists
<1> QED
  BY <1>1, <1>2, <1>3 DEF IInv, Inv

-----------------------------------------------------------------------------
(* shareService                                                            *)

LEMMA ShareReadSafe ==
    ASSUME IInv, NEW p \in Proc, NEW s \in Snippet, NEW kind \in Kind, NEW until \in {"ever", "later"},
           ShareRead(p, s, kind, until)
    PROVE  IInv'
<1> DEFINE f == [Idle EXCEPT !.op = "share", !.pc = "find", !.snippet = s, !.kind = kind, !.until = until]
<1>1. f \in Flight /\ f.pc = "find"
  BY DEF Idle, Flight, Kind
<1>2. Goto(p, f) /\ UNCHANGED <<note, share, template, lineage, faults>> /\ requests' = requests + 1
  BY DEF ShareRead, Request
<1> HIDE DEF f
<1>3. TypeOK'
  BY <1>1, <1>2, FlightTyped DEF IInv, TypeOK
<1>4. SameFlights
  BY <1>1, <1>2, GoesElsewhere DEF IInv
<1> QED
  BY <1>2, <1>3, <1>4, Unchanged, Frame DEF IInv

LEMMA ShareFindSafe ==
    ASSUME IInv, NEW p \in Proc, ShareFind(p)
    PROVE  IInv'
<1> DEFINE f == flight[p]
           g == IF Active(f.snippet, f.kind) # {} THEN Idle ELSE [f EXCEPT !.pc = "insert"]
<1>1. Goto(p, g) /\ UNCHANGED <<note, share, template, lineage, requests, faults>>
  BY DEF ShareFind
<1>2. f \in Flight /\ g \in Flight
  BY ZenonT(60), IdleTyped DEF IInv, TypeOK, Flight
<1>3. TypeOK'
  BY <1>1, <1>2, FlightTyped DEF IInv, TypeOK
<1>4. \A q \in Proc : flight'[q] = IF q = p THEN g ELSE flight[q]
  BY <1>1 DEF Goto, IInv, TypeOK
<1>5. g.pc = "idle" \/ (/\ g.pc = "insert" /\ g.snippet = f.snippet /\ g.kind = f.kind
                        /\ Active(f.snippet, f.kind) = {})
  BY <1>2 DEF Idle, Flight
<1>6. \A s, k : Active(s, k)' = Active(s, k)
  BY <1>1 DEF Active, Live
<1>7. FoundNone'
  BY <1>4, <1>5, <1>6 DEF IInv, Inv, FoundNone, At
<1>8. LinkKnown' /\ CountedNone'
  BY <1>1, <1>4, <1>5 DEF IInv, Inv, LinkKnown, CountedNone, At, SystemTemplates
<1>9. OneLinkPerSnippet' /\ LinksStand' /\ SeededOnce'
  BY <1>1, <1>6 DEF IInv, Inv, OneLinkPerSnippet, LinksStand, SeededOnce, Live, Exists, SystemTemplates
<1> QED
  BY <1>3, <1>7, <1>8, <1>9 DEF IInv, Inv

LEMMA RevokeReadSafe ==
    ASSUME IInv, NEW p \in Proc, NEW i \in DOMAIN share, RevokeRead(p, i)
    PROVE  IInv'
<1> DEFINE f == [Idle EXCEPT !.op = "revoke", !.pc = "revoke", !.share = i]
<1>0. i \in Nat
  BY Rows DEF IInv
<1>1. f \in Flight /\ f.pc = "revoke"
  BY <1>0 DEF Idle, Flight, Kind
<1>2. Goto(p, f) /\ UNCHANGED <<note, share, template, lineage, faults>> /\ requests' = requests + 1
  BY DEF RevokeRead, Request
<1> HIDE DEF f
<1>3. TypeOK'
  BY <1>1, <1>2, FlightTyped DEF IInv, TypeOK
<1>4. SameFlights
  BY <1>1, <1>2, GoesElsewhere DEF IInv
<1> QED
  BY <1>2, <1>3, <1>4, Unchanged, Frame DEF IInv

\* A step that lets p end and changes rows of shares, but no link's place.
LEMMA EndsSafe ==
    ASSUME IInv, NEW p \in Proc, Goto(p, Idle),
           share' \in [DOMAIN share -> ShareRow], SameLinks,
           UNCHANGED <<note, template, lineage, requests>>, faults' \in Nat
    PROVE  IInv'
<1>1. TypeOK'
  BY IdleTyped, FlightTyped, RowsChange DEF IInv, TypeOK
<1>2. SameFlights
  BY GoesElsewhere DEF IInv, Idle
<1> QED
  BY <1>1, <1>2, Unchanged, Frame DEF IInv

LEMMA RevokeExecSafe ==
    ASSUME IInv, NEW p \in Proc, RevokeExec(p)
    PROVE  IInv'
<1>1. share' \in [DOMAIN share -> ShareRow] /\ SameLinks
  BY ZenonT(60), Rows DEF RevokeExec, IInv, ShareRow, SameLinks
<1> QED
  BY <1>1, EndsSafe DEF RevokeExec, IInv, TypeOK

LEMMA ExpireSafe ==
    ASSUME IInv, NEW i \in DOMAIN share, Expire(i)
    PROVE  IInv'
<1>1. share' \in [DOMAIN share -> ShareRow] /\ SameLinks
  BY Rows DEF Expire, IInv, ShareRow, SameLinks
<1>2. TypeOK'
  BY <1>1, RowsChange DEF Expire, IInv, TypeOK
<1> QED
  BY <1>1, <1>2, Unchanged, Frame DEF Expire, IInv

\* The handlers that GotoHitting passes by are marked at most.
LEMMA Hit ==
    ASSUME TypeOK, NEW p \in Proc, NEW f \in Flight, NEW hit, GotoHitting(p, f, hit)
    PROVE  /\ flight' \in [Proc -> Flight]
           /\ flight'[p] = f
           /\ \A q \in Proc \ {p} :
                /\ flight'[q].pc = flight[q].pc
                /\ flight'[q].snippet = flight[q].snippet
                /\ flight'[q].kind = flight[q].kind
                /\ flight'[q].share = flight[q].share
                /\ ~flight'[q].stale => ~flight[q].stale /\ q \notin hit
<1>1. \A q \in Proc : flight[q] \in Flight
  BY DEF TypeOK
<1>2. \A q \in Proc : [flight[q] EXCEPT !.stale = @ \/ q \in hit] \in Flight
  BY <1>1 DEF Flight
<1> QED
  BY <1>1, <1>2 DEF GotoHitting, Flight

LEMMA ShareInsertSafe ==
    ASSUME IInv, NEW p \in Proc, ShareInsert(p)
    PROVE  IInv'
<1> DEFINE f == flight[p]
           row == [there |-> TRUE, snippet |-> f.snippet, kind |-> f.kind, until |-> f.until,
                   views |-> 0, forks |-> 0, owed |-> 0, missed |-> 0, raced |-> f.stale]
           hit == {q \in Proc : /\ At(q, "insert") /\ Exists(f.snippet)
                                 /\ flight[q].snippet = f.snippet /\ flight[q].kind = f.kind}
           n == Len(share)
<1>1. /\ At(p, "insert")
      /\ share' = IF Exists(f.snippet) THEN Append(share, row) ELSE share
      /\ GotoHitting(p, Idle, hit)
      /\ UNCHANGED <<note, template, lineage, requests, faults>>
  BY DEF ShareInsert
<1>2. f \in Flight /\ (Exists(f.snippet) => f.snippet \in Snippet)
  BY DEF IInv, TypeOK, Exists
<1>3. Exists(f.snippet) => row \in ShareRow
  BY <1>2 DEF Flight, ShareRow
<1>4. /\ flight' \in [Proc -> Flight]
      /\ flight'[p] = Idle
      /\ \A q \in Proc \ {p} :
            /\ flight'[q].pc = flight[q].pc
            /\ flight'[q].snippet = flight[q].snippet
            /\ flight'[q].kind = flight[q].kind
            /\ flight'[q].share = flight[q].share
            /\ ~flight'[q].stale => ~flight[q].stale /\ q \notin hit
  BY <1>1, IdleTyped, Hit DEF IInv
<1> HIDE DEF hit
<1>5. n \in Nat /\ DOMAIN share = 1..n
  BY Rows DEF IInv
<1>6. CASE ~Exists(f.snippet)
  <2>1. SameLinks /\ SameSystem /\ NotesStay
    BY <1>1, <1>6, Unchanged
  <2>2. FoundNone' /\ LinkKnown' /\ CountedNone'
    BY <1>1, <1>4, <1>6 DEF IInv, Inv, FoundNone, LinkKnown, CountedNone, Active, Live, At, Idle, SystemTemplates
  <2>3. OneLinkPerSnippet' /\ LinksStand' /\ SeededOnce'
    BY <1>1, <1>6 DEF IInv, Inv, OneLinkPerSnippet, LinksStand, SeededOnce, Active, Live, Exists, SystemTemplates
  <2>4. TypeOK'
    BY <1>1, <1>4, <1>6 DEF IInv, TypeOK
  <2> QED
    BY <2>2, <2>3, <2>4 DEF IInv, Inv
<1>7. CASE Exists(f.snippet)
  <2>1. /\ share' \in Seq(ShareRow)
        /\ DOMAIN share' = 1..(n + 1)
        /\ \A i \in 1..n : share'[i] = share[i]
        /\ share'[n + 1] = row
    BY <1>1, <1>3, <1>7, AppendProperties, LenProperties DEF IInv, TypeOK
  <2>2. TypeOK'
    BY <1>1, <1>4, <2>1 DEF IInv, TypeOK
  <2>3. \A s, k : Active(s, k)' \subseteq Active(s, k) \cup (IF s = f.snippet /\ k = f.kind THEN {n + 1} ELSE {})
    BY <1>5, <2>1 DEF Active, Live
  <2>4. OneLinkPerSnippet'
    <3> SUFFICES ASSUME NEW i \in DOMAIN share', NEW j \in DOMAIN share', i < j,
                        j \in Active(share[i].snippet, share[i].kind)', Live(i)'
                 PROVE  share'[j].raced
      BY DEF OneLinkPerSnippet
    <3>1. i \in 1..n /\ share'[i] = share[i] /\ Live(i)
      BY <1>5, <2>1 DEF Live
    <3>2. CASE j \in 1..n
      <4>1. j \in Active(share[i].snippet, share[i].kind) /\ share'[j] = share[j]
        BY <1>5, <2>1, <3>1, <3>2 DEF Active, Live
      <4> QED
        BY <1>5, <3>1, <3>2, <4>1 DEF IInv, Inv, OneLinkPerSnippet
    <3>3. CASE j = n + 1
      <4>1. share[i].snippet = f.snippet /\ share[i].kind = f.kind
        BY <2>1, <3>1, <3>3 DEF Active
      <4>2. i \in Active(f.snippet, f.kind)
        BY <1>5, <3>1, <4>1 DEF Active
      <4>3. f.stale
        BY <1>1, <1>2, <4>2 DEF IInv, Inv, FoundNone, Flight
      <4> QED
        BY <2>1, <3>3, <4>3
    <3> QED
      BY <1>5, <2>1, <3>2, <3>3
  <2>5. FoundNone'
    <3> SUFFICES ASSUME NEW q \in Proc, At(q, "insert")', ~flight'[q].stale
                 PROVE  (Active(flight[q].snippet, flight[q].kind) = {})'
      BY DEF FoundNone
    <3>1. q # p /\ At(q, "insert") /\ ~flight[q].stale /\ q \notin hit
      BY <1>4 DEF At, Idle
    <3>2. Active(flight[q].snippet, flight[q].kind) = {}
      BY <3>1 DEF IInv, Inv, FoundNone
    <3>3. ~(flight[q].snippet = f.snippet /\ flight[q].kind = f.kind)
      BY <1>7, <3>1 DEF hit
    <3>4. flight'[q].snippet = flight[q].snippet /\ flight'[q].kind = flight[q].kind
      BY <1>4, <3>1
    <3> QED
      BY <2>3, <3>2, <3>3, <3>4
  <2>6. LinksStand'
    BY <1>1, <1>5, <1>7, <2>1 DEF IInv, Inv, LinksStand, Exists
  <2>7. LinkKnown'
    BY <1>4, <1>5, <2>1 DEF IInv, Inv, LinkKnown, At, Idle
  <2>8. CountedNone' /\ SeededOnce'
    BY <1>1, <1>4 DEF IInv, Inv, CountedNone, SeededOnce, SystemTemplates, At, Idle
  <2> QED
    BY <2>2, <2>4, <2>5, <2>6, <2>7, <2>8 DEF IInv, Inv
<1> QED
  BY <1>6, <1>7

-----------------------------------------------------------------------------
(* Links and copies                                                        *)

LEMMA OpenLinkSafe ==
    ASSUME IInv, NEW p \in Proc, NEW i \in DOMAIN share, NEW op \in {"view", "fork"}, OpenLink(p, i, op)
    PROVE  IInv'
<1> DEFINE f == [Idle EXCEPT !.op = op, !.pc = "load", !.share = i, !.kind = share[i].kind,
                             !.snippet = share[i].snippet, !.forks = share[i].forks]
<1>1. i \in Nat /\ share[i].kind \in Kind /\ share[i].snippet \in Snippet /\ share[i].forks \in Nat
  BY Rows DEF IInv, ShareRow
<1>2. f \in Flight /\ f.pc = "load" /\ f.share = i /\ f.snippet = share[i].snippet
  BY <1>1 DEF Idle, Flight, Kind
<1>3. Goto(p, f) /\ UNCHANGED <<note, share, template, lineage, faults>> /\ requests' = requests + 1
  BY DEF OpenLink, Request
<1> HIDE DEF f
<1>4. TypeOK'
  BY <1>2, <1>3, FlightTyped DEF IInv, TypeOK
<1>5. \A q \in Proc : flight'[q] = IF q = p THEN f ELSE flight[q]
  BY <1>3 DEF Goto, IInv, TypeOK
<1>6. LinkKnown'
  BY <1>2, <1>3, <1>5 DEF IInv, Inv, LinkKnown, At
<1>7. FoundNone' /\ CountedNone'
  BY <1>2, <1>3, <1>5 DEF IInv, Inv, FoundNone, CountedNone, At, Active, Live, SystemTemplates
<1>8. OneLinkPerSnippet' /\ LinksStand' /\ SeededOnce'
  BY <1>3 DEF IInv, Inv, OneLinkPerSnippet, LinksStand, SeededOnce, Active, Live, Exists, SystemTemplates
<1> QED
  BY <1>4, <1>6, <1>7, <1>8 DEF IInv, Inv

\* A step of p to a place that does not matter, which may count on rows of shares.
LEMMA GoesOnSafe ==
    ASSUME IInv, NEW p \in Proc, NEW f \in Flight, Goto(p, f), f.pc \notin {"insert", "load", "seed"},
           share' \in [DOMAIN share -> ShareRow], SameLinks, NotesStay, UNCHANGED template,
           note' \in [Snippet -> {"new", "active", "trashed", "gone"}],
           lineage' \in [Snippet -> Relation \cup {None}], requests' \in Nat, faults' \in Nat
    PROVE  IInv'
<1>1. TypeOK'
  BY FlightTyped, RowsChange DEF IInv, TypeOK
<1>2. SameFlights
  BY GoesElsewhere DEF IInv
<1> QED
  BY <1>1, <1>2, Unchanged, Frame DEF IInv

\* A row and what counting can make of it.
Counted(r) == {r, [r EXCEPT !.owed = @ + 1], [r EXCEPT !.missed = @ + 1],
               [r EXCEPT !.views = @ + 1], [r EXCEPT !.forks = @ + 1]}

LEMMA CountedRow ==
    ASSUME NEW r \in ShareRow, NEW c \in Counted(r)
    PROVE  /\ c \in ShareRow
           /\ c.snippet = r.snippet /\ c.kind = r.kind /\ c.raced = r.raced
           /\ c.there = r.there /\ c.until = r.until
<1>1. r.owed + 1 \in Nat /\ r.missed + 1 \in Nat /\ r.views + 1 \in Nat /\ r.forks + 1 \in Nat
  BY DEF ShareRow
<1>2. CASE c = r
  BY <1>2
<1>3. CASE c = [r EXCEPT !.owed = @ + 1]
  BY <1>1, <1>3 DEF ShareRow
<1>4. CASE c = [r EXCEPT !.missed = @ + 1]
  BY <1>1, <1>4 DEF ShareRow
<1>5. CASE c = [r EXCEPT !.views = @ + 1]
  BY <1>1, <1>5 DEF ShareRow
<1>6. CASE c = [r EXCEPT !.forks = @ + 1]
  BY <1>1, <1>6 DEF ShareRow
<1> QED
  BY <1>2, <1>3, <1>4, <1>5, <1>6 DEF Counted

\* Counting changes no link.
LEMMA RowsCounted ==
    ASSUME TypeOK, share' = [i \in DOMAIN share |-> share'[i]],
           \A i \in DOMAIN share : share'[i] \in Counted(share[i])
    PROVE  share' \in [DOMAIN share -> ShareRow] /\ SameLinks
<1>1. \A i \in DOMAIN share :
        /\ share'[i] \in ShareRow
        /\ share'[i].snippet = share[i].snippet /\ share'[i].kind = share[i].kind
        /\ share'[i].raced = share[i].raced
        /\ share'[i].there = share[i].there /\ share'[i].until = share[i].until
  BY Rows, CountedRow
<1> QED
  BY <1>1 DEF SameLinks

\* One more owed, or nothing.
LEMMA Owes ==
    ASSUME TypeOK, NEW i, NEW b \in BOOLEAN,
           share' = IF b THEN [share EXCEPT ![i].owed = @ + 1] ELSE share
    PROVE  share' \in [DOMAIN share -> ShareRow] /\ SameLinks
<1>1. \A r : r \in Counted(r) /\ [r EXCEPT !.owed = @ + 1] \in Counted(r)
  BY DEF Counted
<1>2. \A j \in DOMAIN share :
        share'[j] = IF b /\ j = i THEN [share[j] EXCEPT !.owed = @ + 1] ELSE share[j]
  OBVIOUS
<1>3. share = [j \in DOMAIN share |-> share[j]]
  BY LenProperties DEF TypeOK
<1>4. share' = [j \in DOMAIN share |-> share'[j]]
  BY <1>3
<1>5. \A j \in DOMAIN share : share'[j] \in Counted(share[j])
  BY <1>1, <1>2
<1> QED
  BY <1>4, <1>5, RowsCounted

LEMMA LoadSourceSafe ==
    ASSUME IInv, NEW p \in Proc, LoadSource(p)
    PROVE  IInv'
<1> DEFINE f == flight[p]
           g == IF Exists(f.snippet)
                THEN [f EXCEPT !.pc = IF f.op = "view" THEN "count" ELSE "create"] ELSE Idle
<1>1. Goto(p, g) /\ UNCHANGED <<note, template, lineage, requests, faults>>
  BY DEF LoadSource
<1>2. g \in Flight /\ g.pc \in {"count", "create", "idle"}
  BY IdleTyped DEF IInv, TypeOK, Flight, Idle
<1>3. share' \in [DOMAIN share -> ShareRow] /\ SameLinks
  BY Owes DEF LoadSource, IInv, Exists
<1> HIDE DEF g
<1> QED
  BY <1>1, <1>2, <1>3, GoesOnSafe, Unchanged DEF IInv, TypeOK

LEMMA UseTemplateSafe ==
    ASSUME IInv, NEW p \in Proc, NEW t \in DOMAIN template, UseTemplate(p, t)
    PROVE  IInv'
<1> DEFINE f == [Idle EXCEPT !.op = "use", !.pc = "create"]
<1>1. f \in Flight /\ f.pc = "create"
  BY DEF Idle, Flight, Kind
<1>2. Goto(p, f) /\ UNCHANGED <<note, share, template, lineage, faults>> /\ requests' = requests + 1
  BY DEF UseTemplate, Request
<1> HIDE DEF f
<1>3. TypeOK'
  BY <1>1, <1>2, FlightTyped DEF IInv, TypeOK
<1>4. SameFlights
  BY <1>1, <1>2, GoesElsewhere DEF IInv
<1> QED
  BY <1>2, <1>3, <1>4, Unchanged, Frame DEF IInv

LEMMA CreateCopySafe ==
    ASSUME IInv, NEW p \in Proc, NEW s \in Snippet, CreateCopy(p, s)
    PROVE  IInv'
<1> DEFINE f == flight[p]
           g == [f EXCEPT !.pc = "lineage", !.snippet = s]
<1>1. Goto(p, g) /\ UNCHANGED <<template, lineage, requests, faults>>
  BY DEF CreateCopy
<1>2. g \in Flight /\ g.pc = "lineage"
  BY ZenonT(60) DEF IInv, TypeOK, Flight
<1>3. share' \in [DOMAIN share -> ShareRow] /\ SameLinks
  BY Owes DEF CreateCopy, IInv
<1>4. note' \in [Snippet -> {"new", "active", "trashed", "gone"}] /\ NotesStay
  BY DEF CreateCopy, NotesStay, Exists, IInv, TypeOK
<1> HIDE DEF g
<1> QED
  BY <1>1, <1>2, <1>3, <1>4, GoesOnSafe DEF IInv, TypeOK

LEMMA AfterLineageTyped ==
    ASSUME TypeOK, NEW p \in Proc
    PROVE  AfterLineage(flight[p]) \in Flight /\ AfterLineage(flight[p]).pc \in {"idle", "count"}
BY IdleTyped DEF TypeOK, AfterLineage, Flight, Idle

\* The rows of shares as they are.
LEMMA SameRows == TypeOK /\ UNCHANGED share => share' \in [DOMAIN share -> ShareRow] /\ SameLinks
BY Rows, Unchanged DEF TypeOK

LEMMA RecordSafe ==
    ASSUME IInv, NEW p \in Proc, Record(p) \/ RecordFails(p)
    PROVE  IInv'
<1>1. Goto(p, AfterLineage(flight[p])) /\ UNCHANGED <<note, share, template, requests>>
  BY DEF Record, RecordFails
<1>2. lineage' \in [Snippet -> Relation \cup {None}] /\ faults' \in Nat
  BY DEF Record, RecordFails, Fault, IInv, TypeOK, Relation
<1> QED
  BY <1>1, <1>2, AfterLineageTyped, SameRows, GoesOnSafe, Unchanged DEF IInv, TypeOK

LEMMA CountSafe ==
    ASSUME IInv, NEW p \in Proc, Count(p)
    PROVE  IInv'
<1>1. \A r : /\ r \in Counted(r)
             /\ [r EXCEPT !.views = @ + 1] \in Counted(r)
             /\ [r EXCEPT !.forks = @ + 1] \in Counted(r)
  BY DEF Counted
<1>2. \A j \in DOMAIN share :
        \/ share'[j] = share[j]
        \/ share'[j] = [share[j] EXCEPT !.views = @ + 1]
        \/ share'[j] = [share[j] EXCEPT !.forks = @ + 1]
  BY DEF Count
<1>3. share' = [j \in DOMAIN share |-> share'[j]]
  <2>1. share = [j \in DOMAIN share |-> share[j]]
    BY LenProperties DEF IInv, TypeOK
  <2> QED
    BY <2>1 DEF Count
<1>4. \A j \in DOMAIN share : share'[j] \in Counted(share[j])
  BY <1>1, <1>2
<1>5. share' \in [DOMAIN share -> ShareRow] /\ SameLinks
  BY <1>3, <1>4, RowsCounted DEF IInv
<1>6. Goto(p, Idle) /\ UNCHANGED <<note, template, lineage, requests, faults>>
  BY DEF Count
<1>7. faults' \in Nat
  BY <1>6 DEF IInv, TypeOK
<1> QED
  BY <1>5, <1>6, <1>7, EndsSafe

LEMMA CrashSafe ==
    ASSUME IInv, NEW p \in Proc, Crash(p)
    PROVE  IInv'
<1>1. \A r : r \in Counted(r) /\ [r EXCEPT !.missed = @ + 1] \in Counted(r)
  BY DEF Counted
<1>2. share' = [j \in DOMAIN share |-> IF j \in Misses(p) THEN [share[j] EXCEPT !.missed = @ + 1]
                                       ELSE share[j]]
      /\ Goto(p, Idle) /\ UNCHANGED <<note, template, lineage, requests>> /\ faults' = faults + 1
  BY DEF Crash, Fault
<1>3. share' = [j \in DOMAIN share |-> share'[j]]
  BY <1>2
<1>4. \A j \in DOMAIN share : share'[j] \in Counted(share[j])
  BY <1>1, <1>2
<1>5. share' \in [DOMAIN share -> ShareRow] /\ SameLinks
  BY <1>3, <1>4, RowsCounted DEF IInv
<1>6. faults' \in Nat
  BY <1>2 DEF IInv, TypeOK
<1> QED
  BY <1>2, <1>5, <1>6, EndsSafe

-----------------------------------------------------------------------------
(* Templates                                                               *)

LEMMA TemplateCreateSafe ==
    ASSUME IInv, TemplateCreate
    PROVE  IInv'
<1> DEFINE row == [there |-> TRUE, system |-> FALSE, raced |-> FALSE]
<1>1. template' = Append(template, row) /\ row \in TemplateRow
      /\ UNCHANGED <<note, share, lineage, flight, requests, faults>>
  BY DEF TemplateCreate, NewTemplate, TemplateRow
<1>2. /\ template' \in Seq(TemplateRow)
      /\ DOMAIN template' = 1..(Len(template) + 1)
      /\ \A t \in DOMAIN template : template'[t] = template[t]
      /\ template'[Len(template) + 1].system = FALSE
  BY <1>1, AppendProperties, LenProperties DEF IInv, TypeOK
<1>3. SameSystem
  BY <1>2, Rows DEF SameSystem, SystemTemplates, IInv
<1>4. TypeOK'
  BY <1>1, <1>2 DEF IInv, TypeOK
<1> QED
  BY <1>1, <1>3, <1>4, Unchanged, Frame DEF IInv

LEMMA TemplateDeleteSafe ==
    ASSUME IInv, NEW t \in DOMAIN template, TemplateDelete(t)
    PROVE  IInv'
<1>1. template' \in [DOMAIN template -> TemplateRow] /\ SameSystem
  BY Rows DEF TemplateDelete, IInv, TemplateRow, SameSystem, SystemTemplates
<1>2. UNCHANGED <<note, share, lineage, flight, requests, faults>>
  BY DEF TemplateDelete
<1>3. TypeOK'
  BY <1>1, <1>2, RowsChange DEF IInv, TypeOK
<1> QED
  BY <1>1, <1>2, <1>3, Unchanged, Frame DEF IInv

LEMMA SeedCountSafe ==
    ASSUME IInv, NEW p \in Proc, SeedCount(p)
    PROVE  IInv'
<1> DEFINE f == [Idle EXCEPT !.op = "seed", !.pc = "seed"]
<1>1. f \in Flight /\ f.pc = "seed"
  BY DEF Idle, Flight, Kind
<1>2. Goto(p, f) /\ UNCHANGED <<note, share, template, lineage, faults>> /\ requests' = requests + 1
      /\ SystemTemplates = {}
  BY DEF SeedCount, Request
<1> HIDE DEF f
<1>3. TypeOK'
  BY <1>1, <1>2, FlightTyped DEF IInv, TypeOK
<1>4. \A q \in Proc : flight'[q] = IF q = p THEN f ELSE flight[q]
  BY <1>2 DEF Goto, IInv, TypeOK
<1>5. CountedNone'
  BY <1>2 DEF CountedNone, SystemTemplates
<1>6. FoundNone' /\ LinkKnown'
  BY <1>1, <1>2, <1>4 DEF IInv, Inv, FoundNone, LinkKnown, At, Active, Live
<1>7. OneLinkPerSnippet' /\ LinksStand' /\ SeededOnce'
  BY <1>2 DEF IInv, Inv, OneLinkPerSnippet, LinksStand, SeededOnce, Active, Live, Exists, SystemTemplates
<1> QED
  BY <1>3, <1>5, <1>6, <1>7 DEF IInv, Inv

LEMMA SeedInsertSafe ==
    ASSUME IInv, NEW p \in Proc, SeedInsert(p)
    PROVE  IInv'
<1> DEFINE f == flight[p]
           row == [there |-> TRUE, system |-> TRUE, raced |-> f.stale]
           hit == {q \in Proc : At(q, "seed")}
           n == Len(template)
<1>1. /\ At(p, "seed") /\ template' = Append(template, row)
      /\ GotoHitting(p, Idle, hit)
      /\ UNCHANGED <<note, share, lineage, requests, faults>>
  BY DEF SeedInsert, NewTemplate
<1>2. row \in TemplateRow
  BY DEF IInv, TypeOK, Flight, TemplateRow
<1>3. /\ flight' \in [Proc -> Flight]
      /\ flight'[p] = Idle
      /\ \A q \in Proc \ {p} :
            /\ flight'[q].pc = flight[q].pc
            /\ flight'[q].snippet = flight[q].snippet
            /\ flight'[q].kind = flight[q].kind
            /\ flight'[q].share = flight[q].share
            /\ ~flight'[q].stale => ~flight[q].stale /\ q \notin hit
  BY <1>1, IdleTyped, Hit DEF IInv
<1>4. /\ n \in Nat /\ DOMAIN template = 1..n
      /\ template' \in Seq(TemplateRow)
      /\ DOMAIN template' = 1..(n + 1)
      /\ \A t \in 1..n : template'[t] = template[t]
      /\ template'[n + 1] = row
  BY <1>1, <1>2, Rows, AppendProperties, LenProperties DEF IInv, TypeOK
<1>5. TypeOK'
  BY <1>1, <1>3, <1>4 DEF IInv, TypeOK
<1>6. SeededOnce'
  <2> SUFFICES ASSUME NEW s \in SystemTemplates', NEW t \in SystemTemplates', s < t
               PROVE  template'[t].raced
    BY DEF SeededOnce
  <2>1. s \in 1..n /\ s \in SystemTemplates
    BY <1>4 DEF SystemTemplates
  <2>2. CASE t \in 1..n
    BY <1>4, <2>1, <2>2 DEF SystemTemplates, SeededOnce, IInv, Inv
  <2>3. CASE t = n + 1
    <3>1. f.stale
      BY <1>1, <2>1 DEF IInv, Inv, CountedNone
    <3> QED
      BY <1>4, <2>3, <3>1
  <2> QED
    BY <1>4, <2>2, <2>3 DEF SystemTemplates
<1>7. CountedNone'
  BY <1>3 DEF CountedNone, At, Idle
<1>8. FoundNone' /\ LinkKnown'
  BY <1>1, <1>3 DEF IInv, Inv, FoundNone, LinkKnown, At, Active, Live, Idle
<1>9. OneLinkPerSnippet' /\ LinksStand'
  BY <1>1 DEF IInv, Inv, OneLinkPerSnippet, LinksStand, Active, Live, Exists
<1> QED
  BY <1>5, <1>6, <1>7, <1>8, <1>9 DEF IInv, Inv

-----------------------------------------------------------------------------
LEMMA InitSafe == Init => IInv
<1> SUFFICES ASSUME Init PROVE IInv
  OBVIOUS
<1>1. TypeOK
  BY IdleTyped DEF Init, TypeOK
<1>2. Inv
  BY DEF Init, Inv, OneLinkPerSnippet, FoundNone, LinksStand, LinkKnown, CountedNone, SeededOnce, At, Idle,
         SystemTemplates
<1> QED
  BY <1>1, <1>2 DEF IInv

LEMMA NextSafe == IInv /\ [Next]_vars => IInv'
<1> SUFFICES ASSUME IInv, [Next]_vars PROVE IInv'
  OBVIOUS
<1>1. ASSUME NEW s \in Snippet, SnippetNext(s) PROVE IInv'
  BY <1>1, WriteSafe, PurgeSafe DEF SnippetNext
<1>2. ASSUME NEW i \in DOMAIN share, Expire(i) PROVE IInv'
  BY <1>2, ExpireSafe
<1>3. ASSUME NEW p \in Proc, ShareNext(p) PROVE IInv'
  BY <1>3, ShareReadSafe, ShareFindSafe, ShareInsertSafe, RevokeReadSafe, RevokeExecSafe DEF ShareNext
<1>4. ASSUME NEW p \in Proc, LinkNext(p) PROVE IInv'
  BY <1>4, OpenLinkSafe, LoadSourceSafe, RecordSafe, CountSafe, CreateCopySafe DEF LinkNext
<1>5. ASSUME NEW p \in Proc, Crash(p) PROVE IInv'
  BY <1>5, CrashSafe
<1>6. ASSUME TemplateNext PROVE IInv'
  BY <1>6, TemplateCreateSafe, TemplateDeleteSafe, SeedCountSafe, SeedInsertSafe, UseTemplateSafe
  DEF TemplateNext
<1>7. ASSUME UNCHANGED vars PROVE IInv'
  <2>1. TypeOK'
    BY <1>7 DEF vars, IInv, TypeOK
  <2> QED
    BY <1>7, <2>1, Unchanged, Frame DEF vars, IInv
<1> QED
  BY <1>1, <1>2, <1>3, <1>4, <1>5, <1>6, <1>7 DEF Next

\* IInv holds in every state of every behaviour.
THEOREM LibraryInvariance == Spec => []IInv
BY InitSafe, NextSafe, PTL DEF Spec

\* A link that loads its snippet while the snippet is gone has been deleted itself.
LEMMA StandingLinks == IInv => LinksNeverDangle
BY DEF IInv, Inv, LinksStand, LinkKnown, LinksNeverDangle

\* The tables and the handlers of the library keep their types.
THEOREM LibraryTypeCorrect == Spec => []TypeOK
BY LibraryInvariance, PTL DEF IInv

\* A snippet has a second active link of one kind only if two requests overlapped.
THEOREM OneLink == Spec => []OneLinkPerSnippet
BY LibraryInvariance, PTL DEF IInv, Inv

\* No link outlives its snippet.
THEOREM NoDanglingLink == Spec => []LinksNeverDangle
BY LibraryInvariance, StandingLinks, PTL

\* System templates are seeded twice only by starts that overlapped.
THEOREM SeededOnceOnly == Spec => []SeededOnce
BY LibraryInvariance, PTL DEF IInv, Inv

-----------------------------------------------------------------------------
(* What is counted                                                         *)
(*                                                                         *)
(* CountsExact is kept by bookkeeping: a step changes what one handler     *)
(* still has to count, and the row of the one link it is about.            *)

\* Misses, of a handler's record.
MissesF(f) == IF f.pc = "count" \/ (f.pc = "lineage" /\ f.op = "fork" /\ f.kind = "template")
              THEN {f.share} ELSE {}
Due(f, i) == IF i \in MissesF(f) THEN 1 ELSE 0

\* The handlers that have used link i and not counted it.
Uncounted(i) == {p \in Proc : i \in Misses(p)}
Tally(r)     == r.views + r.forks + r.missed
Exact(i)     == share[i].there => Tally(share[i]) + Cardinality(Uncounted(i)) = share[i].owed

\* A handler that works with a link, one of the links, has opened it.
Opened(f, links) ==
    /\ f.pc = "load" => f.op \in {"view", "fork"}
    /\ f.pc = "count" => f.op # "use"
    /\ f.pc \in {"load", "create", "lineage", "count"} /\ f.op # "use" => f.share \in links

AllOpened == \A p \in Proc : Opened(flight[p], DOMAIN share)
Counting == AllOpened /\ CountsExact

LEMMA MissesOfFlight ==
    ASSUME TypeOK, NEW p \in Proc
    PROVE  Misses(p) = MissesF(flight[p])
<1> DEFINE f == flight[p]
<1>1. f \in Flight
  BY DEF TypeOK
<1>2. f.pc = "lineage" => (AfterLineage(f) # Idle <=> f.op = "fork" /\ f.kind = "template")
  <2>1. [f EXCEPT !.pc = "count"].pc = "count"
    BY <1>1 DEF Flight
  <2>2. Idle.pc = "idle"
    BY DEF Idle
  <2> QED
    BY <2>1, <2>2 DEF AfterLineage
<1> QED
  BY <1>2 DEF Misses, MissesF, At

LEMMA MissesKnown ==
    ASSUME TypeOK, AllOpened, NEW p \in Proc
    PROVE  MissesF(flight[p]) \subseteq DOMAIN share
BY DEF AllOpened, Opened, MissesF

LEMMA ExactIsCountsExact == CountsExact <=> \A i \in DOMAIN share : Exact(i)
BY DEF CountsExact, Exact, Tally, Uncounted

LEMMA Splits ==
    ASSUME TypeOK, NEW p \in Proc, NEW i
    PROVE  /\ Cardinality(Uncounted(i) \ {p}) \in Nat
           /\ Cardinality(Uncounted(i)) = Cardinality(Uncounted(i) \ {p}) + Due(flight[p], i)
<1>1. IsFiniteSet(Uncounted(i))
  BY ProcAssumption, FS_Subset DEF Uncounted
<1>2. IsFiniteSet(Uncounted(i) \ {p})
  BY <1>1, FS_RemoveElement
<1>3. Cardinality(Uncounted(i) \ {p}) \in Nat
  BY <1>2, FS_CardinalityType
<1>4. p \in Uncounted(i) <=> i \in MissesF(flight[p])
  BY MissesOfFlight DEF Uncounted
<1>5. CASE p \in Uncounted(i)
  <2>1. Uncounted(i) = (Uncounted(i) \ {p}) \cup {p}
    BY <1>5
  <2>2. Cardinality((Uncounted(i) \ {p}) \cup {p}) = Cardinality(Uncounted(i) \ {p}) + 1
    BY <1>2, FS_AddElement
  <2> QED
    BY <1>3, <1>4, <1>5, <2>1, <2>2 DEF Due
<1>6. CASE p \notin Uncounted(i)
  <2>1. Uncounted(i) \ {p} = Uncounted(i)
    BY <1>6
  <2> QED
    BY <1>3, <1>4, <1>6, <2>1 DEF Due
<1> QED
  BY <1>5, <1>6

\* Both, for every state and for its successors.
Bookkept ==
    TypeOK => \A p \in Proc : /\ Misses(p) = MissesF(flight[p])
                              /\ \A i \in Nat :
                                    /\ Cardinality(Uncounted(i) \ {p}) \in Nat
                                    /\ Cardinality(Uncounted(i)) = Cardinality(Uncounted(i) \ {p})
                                                                   + Due(flight[p], i)
LEMMA Always == Bookkept
BY MissesOfFlight, Splits DEF Bookkept

LEMMA AlwaysNext == Bookkept'
BY Always, PTL

\* What p still has to count and what is written of link i move together.
Balance(p, i) ==
    /\ share[i].there
    /\ Tally(share'[i]) + share[i].owed + Due(flight'[p], i)
           = Tally(share[i]) + share'[i].owed + Due(flight[p], i)

LEMMA Balanced ==
    ASSUME TypeOK, TypeOK', CountsExact, NEW p \in Proc,
           \A q \in Proc \ {p} : MissesF(flight'[q]) = MissesF(flight[q]),
           NEW i \in DOMAIN share, i \in DOMAIN share',
           share'[i].there => Balance(p, i)
    PROVE  Exact(i)'
<1>1. Bookkept /\ Bookkept'
  BY Always, AlwaysNext
<1>2. i \in Nat
  BY Rows
<1>3. Uncounted(i)' \ {p} = Uncounted(i) \ {p}
  BY <1>1 DEF Bookkept, Uncounted
<1>4. /\ Cardinality(Uncounted(i)) = Cardinality(Uncounted(i) \ {p}) + Due(flight[p], i)
      /\ Cardinality(Uncounted(i) \ {p}) \in Nat
  BY <1>1, <1>2 DEF Bookkept
<1>5. Cardinality(Uncounted(i)') = Cardinality(Uncounted(i)' \ {p}) + Due(flight'[p], i)
  BY <1>1, <1>2 DEF Bookkept
<1>6. /\ share[i].owed \in Nat /\ Tally(share[i]) \in Nat
      /\ share'[i].owed \in Nat /\ Tally(share'[i]) \in Nat
  <2>1. share[i] \in ShareRow
    BY Rows
  <2>2. share'[i] \in ShareRow
    BY ElementOfSeq, LenProperties DEF TypeOK
  <2> QED
    BY <2>1, <2>2 DEF ShareRow, Tally
<1>7. share[i].there => Tally(share[i]) + Cardinality(Uncounted(i)) = share[i].owed
  BY ExactIsCountsExact DEF Exact
<1>8. Due(flight[p], i) \in Nat /\ Due(flight'[p], i) \in Nat
  BY DEF Due
<1> DEFINE c == Cardinality(Uncounted(i) \ {p})
<1>9. SUFFICES ASSUME share'[i].there
               PROVE  Tally(share'[i]) + (c + Due(flight'[p], i)) = share'[i].owed
  BY <1>3, <1>5 DEF Exact
<1>10. Tally(share[i]) + (c + Due(flight[p], i)) = share[i].owed
  BY <1>4, <1>7, <1>9 DEF Balance
<1> HIDE DEF c
<1> QED
  BY <1>4, <1>6, <1>8, <1>9, <1>10 DEF c, Balance

\* The rest of a handler's record has no part in the counts.
SameWork(f, g) == g.pc = f.pc /\ g.op = f.op /\ g.kind = f.kind /\ g.share = f.share

\* A step of p that keeps the balance of every link, and may add new ones.
LEMMA Moves ==
    ASSUME IInv, IInv', Counting, NEW p \in Proc,
           \A q \in Proc \ {p} : SameWork(flight[q], flight'[q]),
           Opened(flight'[p], DOMAIN share),
           DOMAIN share \subseteq DOMAIN share',
           \A i \in DOMAIN share : share'[i].there => Balance(p, i),
           \A i \in DOMAIN share' \ DOMAIN share : Tally(share'[i]) = 0 /\ share'[i].owed = 0
    PROVE  Counting'
<1>1. \A q \in Proc : Opened(flight'[q], DOMAIN share)
  BY DEF Counting, AllOpened, Opened, SameWork
<1>2. AllOpened'
  BY <1>1 DEF AllOpened, Opened
<1>3. \A q \in Proc \ {p} : MissesF(flight'[q]) = MissesF(flight[q])
  BY DEF SameWork, MissesF
<1>4. ASSUME NEW i \in DOMAIN share PROVE Exact(i)'
  BY <1>3, <1>4, Balanced DEF IInv, Counting
<1>5. ASSUME NEW i \in DOMAIN share', i \notin DOMAIN share PROVE Exact(i)'
  <2>1. \A q \in Proc : i \notin MissesF(flight'[q])
    BY <1>1, <1>5 DEF Opened, MissesF
  <2>2. Uncounted(i)' = {}
    BY <2>1, AlwaysNext DEF Bookkept, IInv, Uncounted
  <2> QED
    BY <1>5, <2>2, FS_EmptySet DEF Exact
<1>6. \A i \in DOMAIN share' : Exact(i)'
  BY <1>4, <1>5
<1>7. CountsExact'
  BY <1>6 DEF CountsExact, Exact, Tally, Uncounted
<1> QED
  BY <1>2, <1>7 DEF Counting

LEMMA OthersWork ==
    ASSUME TypeOK, NEW p \in Proc, NEW f,
           Goto(p, f) \/ \E hit : GotoHitting(p, f, hit)
    PROVE  flight'[p] = f /\ \A q \in Proc \ {p} : SameWork(flight[q], flight'[q])
<1>1. CASE Goto(p, f)
  BY <1>1 DEF Goto, SameWork, TypeOK
<1>2. ASSUME NEW hit, GotoHitting(p, f, hit)
      PROVE  flight'[p] = f /\ \A q \in Proc \ {p} : SameWork(flight[q], flight'[q])
  BY <1>2 DEF GotoHitting, SameWork, TypeOK, Flight
<1> QED
  BY <1>1, <1>2

\* Rows of which nothing is counted.
SameCounts ==
    /\ DOMAIN share' = DOMAIN share
    /\ \A i \in DOMAIN share : /\ share'[i].there => share[i].there
                               /\ Tally(share'[i]) = Tally(share[i])
                               /\ share'[i].owed = share[i].owed

\* A step of p that counts nothing, and nothing to count comes or goes.
LEMMA QuietMove ==
    ASSUME IInv, IInv', Counting, NEW p \in Proc, NEW f,
           Goto(p, f) \/ \E hit : GotoHitting(p, f, hit),
           MissesF(f) = MissesF(flight[p]), Opened(f, DOMAIN share), SameCounts
    PROVE  Counting'
<1>1. flight'[p] = f /\ \A q \in Proc \ {p} : SameWork(flight[q], flight'[q])
  BY OthersWork DEF IInv
<1>2. \A i \in DOMAIN share : share'[i].there => Balance(p, i)
  BY <1>1 DEF SameCounts, Balance, Due
<1> QED
  BY <1>1, <1>2, Moves DEF SameCounts

\* A step that no handler takes.
LEMMA Still ==
    ASSUME IInv, IInv', Counting, UNCHANGED flight, SameCounts
    PROVE  Counting'
<1>1. AllOpened'
  BY DEF Counting, AllOpened, SameCounts
<1>2. \A i \in DOMAIN share : Uncounted(i)' = Uncounted(i)
  BY Always, AlwaysNext DEF Bookkept, IInv, Uncounted
<1>3. \A i \in DOMAIN share' : Exact(i)'
  BY <1>2, ExactIsCountsExact DEF Counting, Exact, SameCounts
<1>4. CountsExact'
  BY <1>3 DEF CountsExact, Exact, Tally, Uncounted
<1> QED
  BY <1>1, <1>4 DEF Counting

-----------------------------------------------------------------------------
(* The steps                                                               *)

LEMMA IdleCounts == MissesF(Idle) = {} /\ \A links : Opened(Idle, links)
BY DEF Idle, MissesF, Opened

LEMMA SameShares == UNCHANGED share => SameCounts
BY DEF SameCounts

LEMMA RestCounts ==
    ASSUME IInv, IInv', Counting,
           \/ \E s \in Snippet : SnippetNext(s)
           \/ \E i \in DOMAIN share : Expire(i)
           \/ TemplateCreate \/ \E t \in DOMAIN template : TemplateDelete(t)
           \/ UNCHANGED vars
    PROVE  Counting'
<1>1. UNCHANGED flight
  BY DEF SnippetNext, Write, TrashOrRestore, Purge, Expire, TemplateCreate, TemplateDelete, vars
<1>2. ASSUME NEW i \in DOMAIN share, Expire(i) PROVE SameCounts
  <2>1. \A j \in DOMAIN share : share[j] \in ShareRow
    BY Rows DEF IInv
  <2> QED
    BY <1>2, <2>1 DEF Expire, SameCounts, ShareRow, Tally
<1>3. UNCHANGED share => SameCounts
  BY SameShares
<1>4. SameCounts
  BY <1>2, <1>3 DEF SnippetNext, Write, TrashOrRestore, Purge, TemplateCreate, TemplateDelete, vars
<1> QED
  BY <1>1, <1>4, Still

\* A request begins, at a step before any count.
LEMMA StartCounts ==
    ASSUME IInv, IInv', Counting, NEW p \in Proc,
           \/ \E s \in Snippet, kind \in Kind, until \in {"ever", "later"} : ShareRead(p, s, kind, until)
           \/ \E i \in DOMAIN share : RevokeRead(p, i)
           \/ \E i \in DOMAIN share, op \in {"view", "fork"} : OpenLink(p, i, op)
           \/ SeedCount(p) \/ \E t \in DOMAIN template : UseTemplate(p, t)
    PROVE  Counting'
<1>1. MissesF(flight[p]) = {}
  BY DEF ShareRead, RevokeRead, OpenLink, SeedCount, UseTemplate, At, MissesF
<1> DEFINE Starts(f) == /\ Goto(p, f) /\ f.pc \in {"find", "revoke", "load", "seed", "create"}
                        /\ f.pc = "create" => f.op = "use"
                        /\ f.pc = "load" => f.op \in {"view", "fork"} /\ f.share \in DOMAIN share
<1>2. PICK f : Starts(f)
  <2>1. ASSUME NEW s \in Snippet, NEW kind \in Kind, NEW until \in {"ever", "later"},
               ShareRead(p, s, kind, until)
        PROVE  \E f : Starts(f)
    <3> DEFINE g == [Idle EXCEPT !.op = "share", !.pc = "find", !.snippet = s, !.kind = kind, !.until = until]
    <3>1. Goto(p, g)
      BY <2>1 DEF ShareRead
    <3>2. g.pc = "find"
      BY DEF Idle
    <3> QED
      BY <3>1, <3>2
  <2>2. ASSUME NEW i \in DOMAIN share, RevokeRead(p, i) PROVE \E f : Starts(f)
    <3> DEFINE g == [Idle EXCEPT !.op = "revoke", !.pc = "revoke", !.share = i]
    <3>1. Goto(p, g)
      BY <2>2 DEF RevokeRead
    <3>2. g.pc = "revoke"
      BY DEF Idle
    <3> QED
      BY <3>1, <3>2
  <2>3. ASSUME NEW i \in DOMAIN share, NEW op \in {"view", "fork"}, OpenLink(p, i, op)
        PROVE  \E f : Starts(f)
    <3> DEFINE g == [Idle EXCEPT !.op = op, !.pc = "load", !.share = i, !.kind = share[i].kind,
                                 !.snippet = share[i].snippet, !.forks = share[i].forks]
    <3>1. Goto(p, g)
      BY <2>3 DEF OpenLink
    <3>2. g.pc = "load" /\ g.op = op /\ g.share = i
      BY DEF Idle
    <3> QED
      BY <3>1, <3>2
  <2>4. ASSUME SeedCount(p) PROVE \E f : Starts(f)
    <3> DEFINE g == [Idle EXCEPT !.op = "seed", !.pc = "seed"]
    <3>1. Goto(p, g)
      BY <2>4 DEF SeedCount
    <3>2. g.pc = "seed"
      BY DEF Idle
    <3> QED
      BY <3>1, <3>2
  <2>5. ASSUME NEW t \in DOMAIN template, UseTemplate(p, t) PROVE \E f : Starts(f)
    <3> DEFINE g == [Idle EXCEPT !.op = "use", !.pc = "create"]
    <3>1. Goto(p, g)
      BY <2>5 DEF UseTemplate
    <3>2. g.pc = "create" /\ g.op = "use"
      BY DEF Idle
    <3> QED
      BY <3>1, <3>2
  <2> QED
    BY <2>1, <2>2, <2>3, <2>4, <2>5
<1>3. MissesF(f) = {} /\ Opened(f, DOMAIN share)
  BY <1>2 DEF MissesF, Opened
<1>4. SameCounts
  BY SameShares DEF ShareRead, RevokeRead, OpenLink, SeedCount, UseTemplate
<1> QED
  BY <1>1, <1>2, <1>3, <1>4, QuietMove


\* A handler ends, or looks for something and goes on to its insertion.
LEMMA FindAndEndCounts ==
    ASSUME IInv, IInv', Counting, NEW p \in Proc,
           ShareFind(p) \/ RevokeExec(p) \/ SeedInsert(p)
    PROVE  Counting'
<1>1. MissesF(flight[p]) = {}
  BY DEF ShareFind, RevokeExec, SeedInsert, At, MissesF
<1>2. CASE ShareFind(p)
  <2> DEFINE g == [flight[p] EXCEPT !.pc = "insert"]
             h == IF Active(flight[p].snippet, flight[p].kind) # {} THEN Idle ELSE g
  <2>1. Goto(p, h) /\ UNCHANGED share
    BY <1>2 DEF ShareFind
  <2>2. MissesF(g) = {} /\ Opened(g, DOMAIN share)
    BY DEF IInv, TypeOK, Flight, MissesF, Opened
  <2>3. MissesF(h) = {} /\ Opened(h, DOMAIN share)
    BY <2>2, IdleCounts
  <2> HIDE DEF h
  <2> QED
    BY <1>1, <2>1, <2>3, SameShares, QuietMove
<1>3. CASE RevokeExec(p)
  <2>1. Goto(p, Idle)
    BY <1>3 DEF RevokeExec
  <2>2. SameCounts
    BY <1>3, Rows DEF RevokeExec, SameCounts, IInv, ShareRow, Tally
  <2> QED
    BY <1>1, <2>1, <2>2, IdleCounts, QuietMove
<1>4. CASE SeedInsert(p)
  BY <1>1, <1>4, IdleCounts, SameShares, QuietMove DEF SeedInsert
<1> QED
  BY <1>2, <1>3, <1>4

\* Nobody has used a link that was not there.
LEMMA ShareInsertCounts ==
    ASSUME IInv, IInv', Counting, NEW p \in Proc, ShareInsert(p)
    PROVE  Counting'
<1> DEFINE f == flight[p]
           row == [there |-> TRUE, snippet |-> f.snippet, kind |-> f.kind,
                   until |-> f.until, views |-> 0, forks |-> 0, owed |-> 0,
                   missed |-> 0, raced |-> f.stale]
<1>1. /\ At(p, "insert")
      /\ share' = IF Exists(f.snippet) THEN Append(share, row) ELSE share
      /\ \E hit : GotoHitting(p, Idle, hit)
  BY DEF ShareInsert
<1>2. flight'[p] = Idle /\ \A q \in Proc \ {p} : SameWork(flight[q], flight'[q])
  BY <1>1, OthersWork DEF IInv
<1>3. /\ DOMAIN share \subseteq DOMAIN share'
      /\ \A i \in DOMAIN share : share'[i] = share[i]
      /\ \A i \in DOMAIN share' \ DOMAIN share : share'[i] = row
  BY <1>1, Rows DEF IInv, TypeOK
<1>4. \A i \in DOMAIN share : share'[i].there => Balance(p, i)
  BY <1>1, <1>2, <1>3, IdleCounts DEF Balance, Due, MissesF, At
<1>5. \A i \in DOMAIN share' \ DOMAIN share : Tally(share'[i]) = 0 /\ share'[i].owed = 0
  BY <1>3 DEF Tally
<1> QED
  BY <1>2, <1>3, <1>4, <1>5, IdleCounts, Moves

\* What a link owes and what its user has to count begin together.
LEMMA OweCounts ==
    ASSUME IInv, IInv', Counting, NEW p \in Proc, NEW g, NEW k, NEW now \in BOOLEAN, Goto(p, g),
           share' = IF now THEN [share EXCEPT ![k].owed = @ + 1] ELSE share,
           MissesF(flight[p]) = {}, MissesF(g) = (IF now THEN {k} ELSE {}), Opened(g, DOMAIN share)
    PROVE  Counting'
<1> DEFINE f == flight[p]
<1>1. flight'[p] = g /\ \A q \in Proc \ {p} : SameWork(flight[q], flight'[q])
  BY OthersWork DEF IInv
<1>2. \A i \in DOMAIN share : share'[i].there => Balance(p, i)
  <2> SUFFICES ASSUME NEW i \in DOMAIN share, share'[i].there PROVE Balance(p, i)
    OBVIOUS
  <2>1. share[i] \in ShareRow
    BY Rows DEF IInv
  <2>2. CASE now /\ i = k
    <3>1. share'[i] = [share[i] EXCEPT !.owed = @ + 1]
      BY <2>2
    <3>2. Due(f, i) = 0 /\ Due(flight'[p], i) = 1
      BY <1>1, <2>2 DEF Due
    <3> QED
      BY <2>1, <3>1, <3>2 DEF Balance, Tally, ShareRow
  <2>3. CASE ~(now /\ i = k)
    <3>1. share'[i] = share[i]
      BY <2>3
    <3>2. Due(f, i) = 0 /\ Due(flight'[p], i) = 0
      BY <1>1, <2>3 DEF Due
    <3> QED
      BY <3>1, <3>2 DEF Balance
  <2> QED
    BY <2>2, <2>3
<1>3. DOMAIN share' = DOMAIN share
  OBVIOUS
<1> QED
  BY <1>1, <1>2, <1>3, Moves

LEMMA LoadSourceCounts ==
    ASSUME IInv, IInv', Counting, NEW p \in Proc, LoadSource(p)
    PROVE  Counting'
<1> DEFINE f == flight[p]
           k == f.share
           g == IF Exists(f.snippet)
                THEN [f EXCEPT !.pc = IF f.op = "view" THEN "count" ELSE "create"] ELSE Idle
           now == Exists(f.snippet) /\ f.op = "view"
<1>1. /\ f.pc = "load" /\ Goto(p, g) /\ f \in Flight /\ now \in BOOLEAN
      /\ share' = IF now THEN [share EXCEPT ![k].owed = @ + 1] ELSE share
  BY DEF LoadSource, At, IInv, TypeOK, Exists
<1>2. k \in DOMAIN share /\ f.op \in {"view", "fork"}
  BY <1>1 DEF Counting, AllOpened, Opened
<1>3. MissesF(f) = {}
  BY <1>1 DEF MissesF
<1>4. MissesF(g) = (IF now THEN {k} ELSE {}) /\ Opened(g, DOMAIN share)
  <2>1. CASE Exists(f.snippet)
    BY <1>1, <1>2, <2>1 DEF MissesF, Opened, Flight
  <2>2. CASE ~Exists(f.snippet)
    BY <2>2, IdleCounts
  <2> QED
    BY <2>1, <2>2
<1> HIDE DEF g, now
<1> QED
  BY <1>1, <1>3, <1>4, OweCounts

LEMMA CreateCopyCounts ==
    ASSUME IInv, IInv', Counting, NEW p \in Proc, NEW s \in Snippet, CreateCopy(p, s)
    PROVE  Counting'
<1> DEFINE f == flight[p]
           k == f.share
           g == [f EXCEPT !.pc = "lineage", !.snippet = s]
           now == f.op = "fork" /\ f.kind = "template"
<1>1. /\ f.pc = "create" /\ Goto(p, g) /\ f \in Flight /\ now \in BOOLEAN
      /\ share' = IF now THEN [share EXCEPT ![k].owed = @ + 1] ELSE share
  BY DEF CreateCopy, At, IInv, TypeOK
<1>2. Opened(f, DOMAIN share)
  BY DEF Counting, AllOpened
<1>3. MissesF(f) = {}
  BY <1>1 DEF MissesF
<1>4. g.pc = "lineage" /\ g.op = f.op /\ g.kind = f.kind /\ g.share = f.share
  BY <1>1 DEF Flight
<1>5. MissesF(g) = (IF now THEN {k} ELSE {}) /\ Opened(g, DOMAIN share)
  BY <1>1, <1>2, <1>4 DEF MissesF, Opened
<1> HIDE DEF g, now
<1> QED
  BY <1>1, <1>3, <1>5, OweCounts

\* The lineage, written or not, leaves the count to do.
LEMMA RecordCounts ==
    ASSUME IInv, IInv', Counting, NEW p \in Proc, Record(p) \/ RecordFails(p)
    PROVE  Counting'
<1> DEFINE f == flight[p]
           g == AfterLineage(f)
<1>1. f.pc = "lineage" /\ Goto(p, g) /\ UNCHANGED share /\ f \in Flight
  BY DEF Record, RecordFails, At, IInv, TypeOK
<1>2. Opened(f, DOMAIN share)
  BY DEF Counting, AllOpened
<1>3. MissesF(g) = MissesF(f) /\ Opened(g, DOMAIN share)
  <2>1. CASE f.op = "fork" /\ f.kind = "template"
    <3> DEFINE h == [f EXCEPT !.pc = "count"]
    <3>1. h.pc = "count" /\ h.op = f.op /\ h.kind = f.kind /\ h.share = f.share
      BY <1>1 DEF Flight
    <3>2. g = h
      BY <2>1 DEF AfterLineage
    <3> QED
      BY <1>1, <1>2, <2>1, <3>1, <3>2 DEF MissesF, Opened
  <2>2. CASE ~(f.op = "fork" /\ f.kind = "template")
    <3>1. g = Idle
      BY <2>2 DEF AfterLineage
    <3> QED
      BY <1>1, <2>2, <3>1, IdleCounts DEF MissesF
  <2> QED
    BY <2>1, <2>2
<1> HIDE DEF g
<1> QED
  BY <1>1, <1>3, SameShares, QuietMove

\* The count pays what is owed, and on a deleted link nothing is owed.
LEMMA CountCounts ==
    ASSUME IInv, IInv', Counting, NEW p \in Proc, Count(p)
    PROVE  Counting'
<1> DEFINE f == flight[p]
           k == f.share
<1>1. /\ f.pc = "count" /\ Goto(p, Idle)
      /\ share' = IF ~share[k].there THEN share
                  ELSE IF f.op = "view" THEN [share EXCEPT ![k].views = @ + 1]
                  ELSE [share EXCEPT ![k].forks = @ + 1]
  BY DEF Count, At
<1>2. flight'[p] = Idle /\ \A q \in Proc \ {p} : SameWork(flight[q], flight'[q])
  BY <1>1, OthersWork DEF IInv
<1>3. MissesF(f) = {k}
  BY <1>1 DEF MissesF
<1>4. \A i \in DOMAIN share : share'[i].there => Balance(p, i)
  <2> SUFFICES ASSUME NEW i \in DOMAIN share, share'[i].there PROVE Balance(p, i)
    OBVIOUS
  <2>1. share[i] \in ShareRow
    BY Rows DEF IInv
  <2>2. CASE i = k
    <3>1. Due(f, i) = 1 /\ Due(flight'[p], i) = 0
      BY <1>2, <1>3, <2>2, IdleCounts DEF Due
    <3>2. /\ share[i].there
          /\ \/ share'[i] = [share[i] EXCEPT !.views = @ + 1]
             \/ share'[i] = [share[i] EXCEPT !.forks = @ + 1]
      BY <1>1, <2>2
    <3>3. share'[i].owed = share[i].owed /\ Tally(share'[i]) = Tally(share[i]) + 1
      BY <2>1, <3>2 DEF Tally, ShareRow
    <3> QED
      BY <2>1, <3>1, <3>2, <3>3 DEF Balance, Tally, ShareRow
  <2>3. CASE i # k
    <3>1. Due(f, i) = 0 /\ Due(flight'[p], i) = 0
      BY <1>2, <1>3, <2>3, IdleCounts DEF Due
    <3>2. share'[i] = share[i]
      BY <1>1, <2>3
    <3> QED
      BY <3>1, <3>2 DEF Balance
  <2> QED
    BY <2>2, <2>3
<1>5. DOMAIN share' = DOMAIN share
  BY <1>1
<1> QED
  BY <1>2, <1>4, <1>5, IdleCounts, Moves

\* What a handler that dies has not counted is missed.
LEMMA CrashCounts ==
    ASSUME IInv, IInv', Counting, NEW p \in Proc, Crash(p)
    PROVE  Counting'
<1> DEFINE f == flight[p]
<1>1. /\ Goto(p, Idle)
      /\ share' = [i \in DOMAIN share |-> IF i \in MissesF(f) THEN [share[i] EXCEPT !.missed = @ + 1]
                                          ELSE share[i]]
  BY Always DEF Crash, Bookkept, IInv
<1>2. flight'[p] = Idle /\ \A q \in Proc \ {p} : SameWork(flight[q], flight'[q])
  BY <1>1, OthersWork DEF IInv
<1>3. \A i \in DOMAIN share : share'[i].there => Balance(p, i)
  <2> SUFFICES ASSUME NEW i \in DOMAIN share, share'[i].there PROVE Balance(p, i)
    OBVIOUS
  <2>1. share[i] \in ShareRow
    BY Rows DEF IInv
  <2>2. Due(flight'[p], i) = 0
    BY <1>2, IdleCounts DEF Due
  <2>3. CASE i \in MissesF(f)
    <3>1. share'[i] = [share[i] EXCEPT !.missed = @ + 1]
      BY <1>1, <2>3
    <3>2. share[i].there
      BY <2>1, <3>1 DEF ShareRow
    <3>3. /\ share'[i].views = share[i].views /\ share'[i].forks = share[i].forks
          /\ share'[i].missed = share[i].missed + 1 /\ share'[i].owed = share[i].owed
      BY <2>1, <3>1 DEF ShareRow
    <3>4. Tally(share'[i]) = Tally(share[i]) + 1
      BY <2>1, <3>3 DEF Tally, ShareRow
    <3> QED
      BY <2>1, <2>2, <2>3, <3>2, <3>3, <3>4 DEF Balance, Tally, ShareRow, Due
  <2>4. CASE i \notin MissesF(f)
    <3>1. share'[i] = share[i]
      BY <1>1, <2>4
    <3> QED
      BY <2>2, <2>4, <3>1 DEF Balance, Due
  <2> QED
    BY <2>3, <2>4
<1>4. DOMAIN share' = DOMAIN share
  BY <1>1
<1> QED
  BY <1>2, <1>3, <1>4, IdleCounts, Moves

LEMMA CountingNext == IInv /\ IInv' /\ Counting /\ [Next]_vars => Counting'
<1> SUFFICES ASSUME IInv, IInv', Counting, [Next]_vars PROVE Counting'
  OBVIOUS
<1>1. ASSUME NEW p \in Proc, ShareNext(p) PROVE Counting'
  BY <1>1, StartCounts, FindAndEndCounts, ShareInsertCounts DEF ShareNext
<1>2. ASSUME NEW p \in Proc, LinkNext(p) PROVE Counting'
  BY <1>2, StartCounts, LoadSourceCounts, RecordCounts, CountCounts, CreateCopyCounts DEF LinkNext
<1>3. ASSUME NEW p \in Proc, Crash(p) PROVE Counting'
  BY <1>3, CrashCounts
<1>4. ASSUME TemplateNext PROVE Counting'
  BY <1>4, RestCounts, StartCounts, FindAndEndCounts DEF TemplateNext
<1>5. CASE (\E s \in Snippet : SnippetNext(s)) \/ (\E i \in DOMAIN share : Expire(i)) \/ UNCHANGED vars
  BY <1>5, RestCounts
<1> QED
  BY <1>1, <1>2, <1>3, <1>4, <1>5 DEF Next

LEMMA CountingInit == Init => Counting
<1> SUFFICES ASSUME Init PROVE Counting
  OBVIOUS
<1>1. AllOpened
  BY IdleCounts DEF Init, AllOpened
<1>2. DOMAIN share = {}
  BY DEF Init
<1> QED
  BY <1>1, <1>2 DEF Counting, CountsExact

\* Every view and every fork of a link is counted exactly once, or is missed with the
\* handler that died before its count: concurrent counts never get lost.
THEOREM EveryVisitCounted == Spec => []CountsExact
<1>1. IInv /\ IInv' /\ Counting /\ [Next]_vars => Counting'
  BY CountingNext
<1>2. Counting => CountsExact
  BY DEF Counting
<1> QED
  BY <1>1, <1>2, CountingInit, LibraryInvariance, PTL DEF Spec

-----------------------------------------------------------------------------
(* With the tags beside it                                                 *)

\* A tag of a list that was set has been made.
WantedMade == \A s \in Snippet : \A t \in wanted[s] : tag[t] # "new"

TagInv == TypesOK /\ TagsAsSet /\ WantedMade
AllInv == IInv /\ Counting /\ TagInv

\* A request of SetTags counts as one, and changes nothing else of the library.
LEMMA RequestSafe ==
    ASSUME IInv, Counting, requests' = requests + 1,
           UNCHANGED <<note, share, template, lineage, flight, faults>>
    PROVE  IInv' /\ Counting'
<1>1. TypeOK'
  BY DEF IInv, TypeOK
<1>2. IInv'
  BY <1>1, Unchanged, Frame DEF IInv
<1> QED
  BY <1>2, SameShares, Still

LEMMA LibraryNext == AllInv /\ [AllNext]_allVars => IInv' /\ Counting'
<1> SUFFICES ASSUME AllInv, [AllNext]_allVars PROVE IInv' /\ Counting'
  OBVIOUS
<1>1. CASE [Next]_vars
  BY <1>1, NextSafe, CountingNext DEF AllInv
<1>2. ASSUME NEW p \in Proc, NEW s \in Snippet, NEW tags \in SUBSET Tag, TagsRead(p, s, tags)
      PROVE  IInv' /\ Counting'
  BY <1>2, RequestSafe DEF AllInv, TagsRead, Request
<1> QED
  BY <1>1, <1>2 DEF AllNext, LibraryStep, TagNext, TagCreate, TagDelete, TagsWrite, allVars

\* A purged snippet never comes back.
LEMMA GoneForGood ==
    ASSUME IInv, Next, NEW s \in Snippet, note[s] = "gone"
    PROVE  note'[s] = "gone"
<1>1. note \in [Snippet -> {"new", "active", "trashed", "gone"}]
  BY DEF IInv, TypeOK
<1>2. ASSUME NEW z \in Snippet, SnippetNext(z) PROVE note'[s] = "gone"
  BY <1>1, <1>2 DEF SnippetNext, Write, TrashOrRestore, Purge, Exists
<1>3. ASSUME NEW i \in DOMAIN share, Expire(i) PROVE note'[s] = "gone"
  BY <1>3 DEF Expire
<1>4. ASSUME NEW p \in Proc, ShareNext(p) PROVE note'[s] = "gone"
  BY <1>4 DEF ShareNext, ShareRead, ShareFind, ShareInsert, RevokeRead, RevokeExec
<1>5. ASSUME NEW p \in Proc, NEW z \in Snippet, CreateCopy(p, z) PROVE note'[s] = "gone"
  BY <1>1, <1>5 DEF CreateCopy
<1>6. ASSUME NEW p \in Proc, LinkNext(p) PROVE note'[s] = "gone"
  BY <1>5, <1>6 DEF LinkNext, OpenLink, LoadSource, Record, RecordFails, Count
<1>7. ASSUME NEW p \in Proc, Crash(p) PROVE note'[s] = "gone"
  BY <1>7 DEF Crash
<1>8. ASSUME TemplateNext PROVE note'[s] = "gone"
  BY <1>8 DEF TemplateNext, TemplateCreate, TemplateDelete, SeedCount, SeedInsert, UseTemplate
<1> QED
  BY <1>2, <1>3, <1>4, <1>6, <1>7, <1>8 DEF Next

LEMMA TagsNext == AllInv /\ IInv' /\ [AllNext]_allVars => TagInv'
<1> SUFFICES ASSUME AllInv, IInv', [AllNext]_allVars PROVE TagInv'
  OBVIOUS
<1>0. /\ TypeOK' /\ TagsAsSet /\ WantedMade
      /\ tag \in [Tag -> {"new", "there", "gone"}]
      /\ tagsOf \in [Snippet -> SUBSET Tag]
      /\ setting \in [Proc -> [snippet : Snippet \cup {None}, tags : SUBSET Tag]]
      /\ wanted \in [Snippet -> SUBSET Tag]
  BY DEF AllInv, TagInv, TypesOK, IInv
<1>1. ASSUME NEW t \in Tag, TagCreate(t) PROVE TagInv'
  <2>1. \A s \in Snippet : t \notin wanted[s] /\ note'[s] = note[s]
    BY <1>0, <1>1 DEF TagCreate, WantedMade, vars
  <2>2. Present' = Present \cup {t}
    BY <1>0, <1>1 DEF TagCreate, Present
  <2>3. TagsAsSet'
    BY <1>0, <1>1, <2>1, <2>2 DEF TagCreate, TagsAsSet
  <2>4. TypesOK' /\ WantedMade'
    BY <1>0, <1>1 DEF TagCreate, TypesOK, WantedMade
  <2> QED
    BY <2>3, <2>4 DEF TagInv
<1>2. ASSUME NEW t \in Tag, TagDelete(t) PROVE TagInv'
  <2>1. Present' = Present \ {t}
    BY <1>0, <1>2 DEF TagDelete, Present
  <2>2. TagsAsSet'
    BY <1>0, <1>2, <2>1 DEF TagDelete, TagsAsSet, vars
  <2>3. TypesOK' /\ WantedMade'
    BY <1>0, <1>2 DEF TagDelete, TypesOK, WantedMade
  <2> QED
    BY <2>2, <2>3 DEF TagInv
<1>3. ASSUME NEW p \in Proc, NEW s \in Snippet, NEW tags \in SUBSET Tag, TagsRead(p, s, tags)
      PROVE  TagInv'
  <2>1. setting' \in [Proc -> [snippet : Snippet \cup {None}, tags : SUBSET Tag]]
    BY <1>0, <1>3 DEF TagsRead
  <2> QED
    BY <1>0, <1>3, <2>1 DEF TagsRead, TagInv, TypesOK, TagsAsSet, WantedMade, Present
<1>4. ASSUME NEW p \in Proc, TagsWrite(p) PROVE TagInv'
  <2> DEFINE s == setting[p].snippet
             tags == setting[p].tags
             ok == Exists(s) /\ tags \subseteq Present
  <2>1. /\ tagsOf' = IF ok THEN [tagsOf EXCEPT ![s] = tags] ELSE tagsOf
        /\ wanted' = IF ok THEN [wanted EXCEPT ![s] = tags] ELSE wanted
        /\ setting' = [setting EXCEPT ![p] = NotSetting]
        /\ tag' = tag /\ note' = note /\ tags \in SUBSET Tag
    BY <1>0, <1>4 DEF TagsWrite, vars
  <2>2. setting' \in [Proc -> [snippet : Snippet \cup {None}, tags : SUBSET Tag]]
    BY <1>0, <2>1 DEF NotSetting
  <2>3. ok => note[s] # "gone" /\ tags = tags \cap Present /\ \A t \in tags : tag[t] # "new"
    BY DEF Exists, Present
  <2> HIDE DEF s, tags, ok
  <2>4. tagsOf' \in [Snippet -> SUBSET Tag] /\ wanted' \in [Snippet -> SUBSET Tag]
    BY <1>0, <2>1
  <2>5. Present' = Present
    BY <2>1 DEF Present
  <2>6. TagsAsSet'
    BY <1>0, <2>1, <2>3, <2>5 DEF TagsAsSet
  <2>7. WantedMade'
    BY <1>0, <2>1, <2>3 DEF WantedMade
  <2> QED
    BY <1>0, <2>1, <2>2, <2>4, <2>6, <2>7 DEF TagInv, TypesOK
<1>5. CASE LibraryStep
  <2>1. Present' = Present /\ wanted' = wanted /\ tag' = tag /\ setting' = setting
    BY <1>5 DEF LibraryStep, Present
  <2>2. tagsOf' = [s \in Snippet |-> IF note'[s] = "gone" THEN {} ELSE tagsOf[s]]
    BY <1>5 DEF LibraryStep
  <2>3. \A s \in Snippet : note[s] = "gone" => note'[s] = "gone"
    BY <1>5, GoneForGood DEF LibraryStep, AllInv
  <2>4. TagsAsSet'
    BY <1>0, <2>1, <2>2, <2>3 DEF TagsAsSet
  <2>5. tagsOf' \in [Snippet -> SUBSET Tag]
    BY <1>0, <2>2
  <2> QED
    BY <1>0, <2>1, <2>4, <2>5 DEF TagInv, TypesOK, WantedMade
<1>6. CASE UNCHANGED allVars
  BY <1>0, <1>6 DEF allVars, vars, tagVars, TagInv, TypesOK, TagsAsSet, WantedMade, Present
<1> QED
  BY <1>1, <1>2, <1>3, <1>4, <1>5, <1>6 DEF AllNext, TagNext

LEMMA TagsBegin == AllInit => AllInv
<1> SUFFICES ASSUME AllInit PROVE AllInv
  OBVIOUS
<1>1. IInv /\ Counting
  BY InitSafe, CountingInit DEF AllInit
<1>2. NotSetting \in [snippet : Snippet \cup {None}, tags : SUBSET Tag]
  BY DEF NotSetting
<1>3. TagInv
  BY <1>1, <1>2 DEF AllInit, Init, TagsInit, TagInv, TypesOK, TagsAsSet, WantedMade, IInv
<1> QED
  BY <1>1, <1>3 DEF AllInv

\* In every state of the library with its tags, both invariants hold.
THEOREM TagsInvariance == AllSpec => []AllInv
<1>1. AllInv /\ [AllNext]_allVars => AllInv'
  BY LibraryNext, TagsNext DEF AllInv
<1> QED
  BY <1>1, TagsBegin, PTL DEF AllSpec

\* The library and its tags keep their types.
THEOREM TagsTypeCorrect == AllSpec => []TypesOK
BY TagsInvariance, PTL DEF AllInv, TagInv

\* A snippet carries the last list set, less the deleted tags: for any number of
\* lists set, tags deleted and snippets purged at the same time.
THEOREM ListsReplace == AllSpec => []TagsAsSet
BY TagsInvariance, PTL DEF AllInv, TagInv

\* Setting tags disturbs no link, count or template.
THEOREM LibraryBesideTags ==
    AllSpec => [](OneLinkPerSnippet /\ LinksNeverDangle /\ CountsExact /\ SeededOnce)
<1>1. AllInv => OneLinkPerSnippet /\ LinksNeverDangle /\ CountsExact /\ SeededOnce
  BY StandingLinks DEF AllInv, IInv, Inv, Counting
<1> QED
  BY <1>1, TagsInvariance, PTL

=============================================================================
