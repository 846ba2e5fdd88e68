-------------------------- MODULE Snippets_proofs --------------------------
(***************************************************************************)
(* IInv is an inductive invariant of Snippets, for every number of         *)
(* handlers, snippets, groups and texts.  A step either reads (ReadStep)    *)
(* or writes one row (RowStep); a write leaves what the other requests     *)
(* have read as it was, or marks them stale.                               *)
(***************************************************************************)
EXTENDS SnippetListing, TLAPS

USE NamesAssumption

-----------------------------------------------------------------------------
(* Two kinds of steps                                                      *)

\* The state of a handler that serves no request.
LEMMA IdleOK == Idle \in Flight /\ FlightOK(Idle) /\ FlightOK(Idle)'
  BY DEF Idle, Flight, Place, FlightOK, RequestOK, EditOK, TrashOK, AppendOK, Editing, Trashing

\* The two fields a request fills in on its way.
LEMMA FilledIn ==
  ASSUME NEW f \in Flight
  PROVE  /\ \A was \in Place : [f EXCEPT !.pc = "save", !.was = was] \in Flight
         /\ \A n \in Int : [f EXCEPT !.pc = "move", !.order = n] \in Flight
  BY ZenonT(60) DEF Flight

\* A step that hits nobody is a step of one handler.
LEMMA GoAlone ==
  ASSUME TypeOK, NEW p \in Proc, NEW own, Go(p, own, {})
  PROVE  flight' = [flight EXCEPT ![p] = own]
<1>1. \A q \in Proc : [flight[q] EXCEPT !.stale = @ \/ q \in {}] = flight[q]
  BY DEF TypeOK, Flight
<1>2. flight' = [q \in Proc |-> IF q = p THEN own
                                ELSE [flight[q] EXCEPT !.stale = @ \/ q \in {}]]
  BY DEF Go
<1>3. \A q \in Proc : flight'[q] = IF q = p THEN own ELSE flight[q]
  BY <1>1, <1>2
<1>4. flight' = [q \in Proc |-> flight'[q]]
  BY <1>2
<1> QED BY <1>3, <1>4 DEF TypeOK

\* A step that writes no row: only the handler's own state is new.
LEMMA ReadStep ==
  ASSUME IInv, NEW p \in Proc, NEW own \in Flight, FlightOK(own),
         flight' = [flight EXCEPT ![p] = own],
         UNCHANGED <<row, edit, clobbered, told, crossed>>, now' \in Nat, requests' \in Nat
  PROVE  IInv'
<1>1. TypeOK'
  BY DEF IInv, TypeOK
<1>2. EditsSurvive' /\ TrashAsTold'
  BY DEF IInv, EditsSurvive, TrashAsTold, Exists
<1>3. ASSUME NEW q \in Proc PROVE FlightOK(flight[q])'
  <2>1. flight'[q] = IF q = p THEN own ELSE flight[q]
    BY DEF IInv, TypeOK
  <2>2. FlightOK(flight'[q])
    BY <2>1 DEF IInv
  <2> QED BY <2>2 DEF FlightOK, RequestOK, EditOK, TrashOK, AppendOK, Exists
<1> QED BY <1>1, <1>2, <1>3 DEF IInv

\* What it takes for a write of row s to leave the other requests right: their
\* reading of it is still true, or they are hit.
Spares(s, new, hit) ==
    /\ \/ row[s].there = "new"
       \/ new.there = "gone"
       \/ Exists(s) /\ new.text = row[s].text /\ new.group = row[s].group
       \/ Others(s, Editing) \subseteq hit
    /\ \/ row[s].there = "new"
       \/ new.there = row[s].there
       \/ Others(s, Trashing) \subseteq hit
    /\ \/ new.there = "gone"
       \/ Exists(s) /\ new.group = row[s].group /\ new.order = row[s].order
       \/ Appending(new.group) \subseteq hit

\* A request that was right stays right.
LEMMA OtherOK ==
  ASSUME IInv, NEW s \in Snippet, NEW new \in Row, new.there # "new",
         row' = [row EXCEPT ![s] = new], NEW hit, Spares(s, new, hit),
         NEW q \in Proc, NEW g \in Flight,
         g = [flight[q] EXCEPT !.stale = @ \/ q \in hit]
  PROVE  FlightOK(g)'
<1> DEFINE f == flight[q]
<1>1. FlightOK(f) /\ f \in Flight
  BY DEF IInv, TypeOK
<1>2. /\ g.pc = f.pc /\ g.s = f.s /\ g.text = f.text /\ g.group = f.group
      /\ g.toText = f.toText /\ g.toGroup = f.toGroup /\ g.was = f.was /\ g.order = f.order
      /\ g.stale = (f.stale \/ q \in hit)
  BY <1>1 DEF Flight
<1>3. /\ row'[s] = new
      /\ \A t \in Snippet : t # s => row'[t] = row[t]
  BY DEF IInv, TypeOK
<1> HIDE DEF f
<1>4. RequestOK(g)'
  BY <1>1, <1>2, <1>3 DEF FlightOK, RequestOK
<1>5. EditOK(g)'
  <2> SUFFICES ASSUME g.pc \in Editing, ~g.stale, Exists(g.s)'
               PROVE  /\ g.toText = IF g.text = None THEN row'[g.s].text ELSE g.text
                      /\ g.toGroup = IF g.group = None THEN row'[g.s].group ELSE g.group
                      /\ g.pc = "save" => g.was = row'[g.s].group
    BY DEF EditOK
  <2>1. f.pc \in Editing /\ ~f.stale /\ q \notin hit /\ f.s \in Snippet /\ row[f.s].there # "new"
    BY <1>1, <1>2 DEF FlightOK, RequestOK, Editing
  <2>2. Exists(f.s) /\ row'[f.s].text = row[f.s].text /\ row'[f.s].group = row[f.s].group
    <3>1. CASE f.s # s
      BY <1>2, <1>3, <2>1, <3>1 DEF Exists
    <3>2. CASE f.s = s
      <4>1. q \in Others(s, Editing)
        BY <2>1, <3>2 DEF Others, f
      <4>2. new.there # "gone"
        BY <1>2, <1>3, <3>2 DEF Exists
      <4> QED BY <1>3, <2>1, <3>2, <4>1, <4>2 DEF Spares
    <3> QED BY <3>1, <3>2
  <2> QED BY <1>1, <1>2, <2>1, <2>2 DEF FlightOK, EditOK
<1>6. TrashOK(g)'
  <2> SUFFICES ASSUME g.pc \in Trashing, ~g.stale
               PROVE  row'[g.s].there = IF g.pc = "soft" THEN "active" ELSE "trashed"
    BY DEF TrashOK
  <2>1. f.pc \in Trashing /\ ~f.stale /\ q \notin hit /\ f.s \in Snippet /\ row[f.s].there # "new"
    BY <1>1, <1>2 DEF FlightOK, RequestOK, Trashing
  <2>2. row'[f.s].there = row[f.s].there
    <3>1. CASE f.s # s
      BY <1>3, <2>1, <3>1
    <3>2. CASE f.s = s
      <4>1. q \in Others(s, Trashing)
        BY <2>1, <3>2 DEF Others, f
      <4> QED BY <1>3, <2>1, <3>2, <4>1 DEF Spares
    <3> QED BY <3>1, <3>2
  <2> QED BY <1>1, <1>2, <2>1, <2>2 DEF FlightOK, TrashOK
<1>7. AppendOK(g)'
  <2> SUFFICES ASSUME g.pc = "move", ~g.stale,
                      NEW t \in Snippet, Exists(t)', row'[t].group = g.toGroup
               PROVE  row'[t].order < g.order
    BY DEF AppendOK
  <2>1. f.pc = "move" /\ ~f.stale /\ q \notin hit
    BY <1>2
  <2>2. Exists(t) /\ row[t].group = f.toGroup /\ row'[t].order = row[t].order
    <3>1. CASE t # s
      BY <1>2, <1>3, <3>1 DEF Exists
    <3>2. CASE t = s
      <4>1. new.group = f.toGroup /\ new.there # "gone"
        BY <1>2, <1>3, <3>2 DEF Exists
      <4>2. q \in Appending(new.group)
        BY <2>1, <4>1 DEF Appending, At, f
      <4> QED BY <1>3, <2>1, <3>2, <4>1, <4>2 DEF Spares
    <3> QED BY <3>1, <3>2
  <2> QED BY <1>1, <1>2, <2>1, <2>2 DEF FlightOK, AppendOK
<1> QED BY <1>4, <1>5, <1>6, <1>7 DEF FlightOK

\* A step that writes one row and ends the request.
LEMMA RowStep ==
  ASSUME IInv, NEW p \in Proc, NEW s \in Snippet, NEW new \in Row, new.there # "new",
         row' = [row EXCEPT ![s] = new], NEW hit, Spares(s, new, hit), Go(p, Idle, hit)
  PROVE  /\ row' \in [Snippet -> Row]
         /\ flight' \in [Proc -> Flight]
         /\ \A q \in Proc : FlightOK(flight[q])'
<1>1. row' \in [Snippet -> Row]
  BY DEF IInv, TypeOK
<1>2. ASSUME NEW q \in Proc PROVE flight'[q] \in Flight /\ FlightOK(flight[q])'
  <2>1. CASE q = p
    <3>1. flight'[q] = Idle
      BY <2>1 DEF Go
    <3> QED BY <3>1, IdleOK DEF FlightOK, RequestOK, EditOK, TrashOK, AppendOK, Exists
  <2>2. CASE q # p
    <3>1. flight'[q] = [flight[q] EXCEPT !.stale = @ \/ q \in hit]
      BY <2>2 DEF Go
    <3>2. flight'[q] \in Flight
      <4>1. PICK f \in Flight : f = flight[q]
        BY DEF IInv, TypeOK
      <4>2. [f EXCEPT !.stale = @ \/ q \in hit] \in Flight
        <5>1. (f.stale \/ q \in hit) \in BOOLEAN
          OBVIOUS
        <5> QED BY ZenonT(60), <4>1, <5>1 DEF Flight
      <4> QED BY <3>1, <4>1, <4>2
    <3>3. ASSUME NEW g \in Flight, g = flight'[q] PROVE FlightOK(g)'
      BY <3>1, <3>3, OtherOK
    <3> QED BY <3>2, <3>3 DEF FlightOK, RequestOK, EditOK, TrashOK, AppendOK, Exists
  <2> QED BY <2>1, <2>2
<1>3. flight' \in [Proc -> Flight]
  BY <1>2 DEF Go
<1> QED BY <1>1, <1>2, <1>3

-----------------------------------------------------------------------------
(* Steps that read                                                         *)

LEMMA UpdateReadStep ==
  ASSUME IInv, NEW p \in Proc, NEW s \in Snippet, NEW t \in Text \cup {None},
         NEW g \in Place \cup {None}, UpdateRead(p, s, t, g)
  PROVE  IInv'
<1> DEFINE own == [Idle EXCEPT !.pc = "query", !.s = s, !.text = t, !.group = g,
                               !.toText = IF t = None THEN row[s].text ELSE t,
                               !.toGroup = IF g = None THEN row[s].group ELSE g]
<1>1. row[s] \in Row /\ Exists(s)
  BY DEF UpdateRead, IInv, TypeOK
<1>2. own \in Flight
  BY ZenonT(60), <1>1, IdleOK DEF Flight, Row
<1>3. FlightOK(own)
  BY <1>1 DEF FlightOK, RequestOK, EditOK, TrashOK, AppendOK, Idle, Editing, Trashing, Exists,
              Row, Place
<1>4. requests' \in Nat /\ now' \in Nat
  BY DEF UpdateRead, Request, IInv, TypeOK
<1> HIDE DEF own
<1>5. flight' = [flight EXCEPT ![p] = own]
  BY DEF UpdateRead, own
<1> QED BY <1>2, <1>3, <1>4, <1>5, ReadStep DEF UpdateRead

LEMMA UpdateQueryStep ==
  ASSUME IInv, NEW p \in Proc, UpdateQuery(p)
  PROVE  IInv'
<1> DEFINE f == flight[p]
           own == IF Exists(f.s) THEN [f EXCEPT !.pc = "save", !.was = row[f.s].group] ELSE Idle
<1>1. f \in Flight /\ f.pc = "query" /\ FlightOK(f)
  BY DEF UpdateQuery, At, IInv, TypeOK
<1>2. f.s \in Snippet /\ row[f.s] \in Row
  BY <1>1 DEF FlightOK, RequestOK, IInv, TypeOK
<1>3. own \in Flight
  <2>1. row[f.s].group \in Place
    BY <1>2 DEF Row
  <2>2. [f EXCEPT !.pc = "save", !.was = row[f.s].group] \in Flight
    BY <1>1, <2>1, FilledIn
  <2> QED BY <2>2, IdleOK
<1>4. FlightOK(own)
  <2>1. CASE Exists(f.s)
    BY <1>1, <1>2, <2>1 DEF FlightOK, RequestOK, EditOK, TrashOK, AppendOK, Editing, Trashing,
                            Flight
  <2>2. CASE ~Exists(f.s)
    BY <2>2, IdleOK
  <2> QED BY <2>1, <2>2
<1>5. requests' \in Nat /\ now' \in Nat
  BY DEF UpdateQuery, IInv, TypeOK
<1>6. flight' = [flight EXCEPT ![p] = own]
  BY DEF UpdateQuery
<1> HIDE DEF own
<1> QED BY <1>3, <1>4, <1>5, <1>6, ReadStep DEF UpdateQuery

\* The reads of Delete, Restore, SetFavorite and SetTags.
LEMMA TrashReadStep ==
  ASSUME IInv, NEW p \in Proc, NEW s \in Snippet,
         DeleteRead(p, s) \/ RestoreRead(p, s) \/ TouchRead(p, s)
  PROVE  IInv'
<1>1. Exists(s)
  BY DEF DeleteRead, RestoreRead, TouchRead, Exists
<1>2. requests' \in Nat /\ now' \in Nat
  BY DEF DeleteRead, RestoreRead, TouchRead, Request, IInv, TypeOK
<1>3. ASSUME NEW pc \in Trashing \cup {"touch"},
             pc \in Trashing => row[s].there = IF pc = "soft" THEN "active" ELSE "trashed"
      PROVE  [Idle EXCEPT !.s = s, !.pc = pc] \in Flight /\ FlightOK([Idle EXCEPT !.s = s, !.pc = pc])
  BY <1>1, <1>3, IdleOK DEF FlightOK, RequestOK, EditOK, TrashOK, AppendOK, Idle, Editing,
                            Trashing, Exists, Flight
<1>4. PICK pc \in Trashing \cup {"touch"} :
         /\ pc \in Trashing => row[s].there = IF pc = "soft" THEN "active" ELSE "trashed"
         /\ flight' = [flight EXCEPT ![p] = [Idle EXCEPT !.s = s, !.pc = pc]]
  <2>1. CASE DeleteRead(p, s)
    <3>1. CASE row[s].there = "trashed"
      BY <2>1, <3>1 DEF DeleteRead, Trashing
    <3>2. CASE row[s].there # "trashed"
      BY <1>1, <2>1, <3>2 DEF DeleteRead, Trashing, Exists
    <3> QED BY <3>1, <3>2
  <2>2. CASE RestoreRead(p, s)
    BY <2>2 DEF RestoreRead, Trashing
  <2>3. CASE TouchRead(p, s)
    <3>1. flight' = [flight EXCEPT ![p] = [Idle EXCEPT !.s = s, !.pc = "touch"]]
      BY <2>3 DEF TouchRead, Idle
    <3> QED BY <3>1 DEF Trashing
  <2> QED BY <2>1, <2>2, <2>3
<1>5. UNCHANGED <<row, edit, clobbered, told, crossed>>
  BY DEF DeleteRead, RestoreRead, TouchRead
<1> QED BY <1>2, <1>3, <1>4, <1>5, ReadStep

LEMMA MoveReadStep ==
  ASSUME IInv, NEW p \in Proc, NEW s \in Snippet, NEW g \in Place, NEW o \in Order \cup {None},
         MoveRead(p, s, g, o)
  PROVE  IInv'
<1> DEFINE own == [Idle EXCEPT !.pc = IF o = None THEN "max" ELSE "move", !.s = s, !.toGroup = g,
                               !.group = g, !.order = o, !.stale = o # None]
<1>1. Exists(s) /\ o \in Int \cup {None}
  BY OrderAssumption DEF MoveRead
<1>2. own \in Flight
  BY <1>1, IdleOK DEF Flight, Idle
<1>3. FlightOK(own)
  BY <1>1 DEF FlightOK, RequestOK, EditOK, TrashOK, AppendOK, Idle, Editing, Trashing, Exists
<1>4. requests' \in Nat /\ now' \in Nat
  BY DEF MoveRead, Request, IInv, TypeOK
<1>5. flight' = [flight EXCEPT ![p] = own]
  BY DEF MoveRead
<1> HIDE DEF own
<1> QED BY <1>2, <1>3, <1>4, <1>5, ReadStep DEF MoveRead

\* The order read is at least that of every snippet of the group.
LEMMA MoveMaxStep ==
  ASSUME IInv, NEW p \in Proc, MoveMax(p)
  PROVE  IInv'
<1> DEFINE f == flight[p]
<1>1. f \in Flight /\ f.pc = "max" /\ FlightOK(f)
  BY DEF MoveMax, At, IInv, TypeOK
<1>2. PICK max \in IF Orders(f.toGroup) = {} THEN {0} ELSE Largest(Orders(f.toGroup)) :
         flight' = [flight EXCEPT ![p] = [f EXCEPT !.pc = "move", !.order = max + 1]]
  BY DEF MoveMax
<1>3. Orders(f.toGroup) \subseteq Int
  BY DEF Orders, IInv, TypeOK, Row
<1>4. max \in Int /\ \A n \in Orders(f.toGroup) : n <= max
  BY <1>3 DEF Largest
<1> DEFINE own == [f EXCEPT !.pc = "move", !.order = max + 1]
<1>5. own \in Flight
  <2>1. max + 1 \in Int
    BY <1>4
  <2> QED BY <1>1, <2>1, FilledIn
<1>6. AppendOK(own)
  <2>1. ASSUME NEW s \in Snippet, Exists(s), row[s].group = f.toGroup
        PROVE  row[s].order < max + 1
    <3>1. row[s].order \in Orders(f.toGroup) /\ row[s].order \in Int
      BY <2>1 DEF Orders, IInv, TypeOK, Row
    <3> QED BY <1>4, <3>1
  <2>2. own.order = max + 1 /\ own.toGroup = f.toGroup
    BY <1>1 DEF Flight
  <2> QED BY <2>1, <2>2 DEF AppendOK
<1>7. FlightOK(own)
  BY <1>1, <1>4, <1>6 DEF FlightOK, RequestOK, EditOK, TrashOK, Editing, Trashing, Flight
<1>8. requests' \in Nat /\ now' \in Nat
  BY DEF MoveMax, IInv, TypeOK
<1> HIDE DEF own
<1>9. flight' = [flight EXCEPT ![p] = own]
  BY <1>2 DEF own
<1> QED BY <1>5, <1>7, <1>8, <1>9, ReadStep DEF MoveMax

LEMMA AbortStep ==
  ASSUME IInv, NEW p \in Proc, Abort(p)
  PROVE  IInv'
<1>1. flight' = [flight EXCEPT ![p] = Idle]
  BY GoAlone DEF Abort, IInv
<1>2. requests' \in Nat /\ now' \in Nat
  BY DEF Abort, IInv, TypeOK
<1> QED BY <1>1, <1>2, IdleOK, ReadStep DEF Abort

\* The clock, and steps that change nothing.
LEMMA StillStep ==
  ASSUME IInv, Tick \/ UNCHANGED vars
  PROVE  IInv'
<1>1. UNCHANGED <<row, flight, requests, edit, clobbered, told, crossed>> /\ now' \in Nat
  BY DEF Tick, vars, IInv, TypeOK
<1> QED BY <1>1 DEF IInv, TypeOK, EditsSurvive, TrashAsTold, FlightOK, RequestOK, EditOK, TrashOK,
                    AppendOK, Exists

-----------------------------------------------------------------------------
(* Steps that write                                                        *)

\* A request that finds its row gone ends without an effect.
LEMMA GoneStep ==
  ASSUME IInv, NEW p \in Proc, Go(p, Idle, {}),
         UNCHANGED <<row, now, requests, edit, clobbered, told, crossed>>
  PROVE  IInv'
<1>1. flight' = [flight EXCEPT ![p] = Idle]
  BY GoAlone DEF IInv
<1>2. requests' \in Nat /\ now' \in Nat
  BY DEF IInv, TypeOK
<1> QED BY <1>1, <1>2, IdleOK, ReadStep

\* What the history says of a snippet, as types and as truth.
EditRow == [text : Text \cup {None}, group : Place]

\* p writes row s and ends; e and where become what the history says of s.
Writes(p, s, new, hit, e, where) ==
    /\ s \in Snippet /\ new \in Row /\ new.there # "new"
    /\ row' = [row EXCEPT ![s] = new]
    /\ Spares(s, new, hit) /\ Go(p, Idle, hit)
    /\ now' = now /\ requests' = requests
    /\ e \in EditRow /\ edit' = [edit EXCEPT ![s] = e]
    /\ clobbered \subseteq clobbered' /\ clobbered' \subseteq clobbered \cup {s}
    /\ where \in {"new", "active", "trashed", "gone"} /\ told' = [told EXCEPT ![s] = where]
    /\ crossed \subseteq crossed' /\ crossed' \subseteq crossed \cup {s}

\* A write after which the history of the row is right keeps IInv.
LEMMA WriteStep ==
  ASSUME IInv, NEW p \in Proc, NEW s, NEW new, NEW hit, NEW e, NEW where,
         Writes(p, s, new, hit, e, where),
         new.there # "gone" /\ s \notin clobbered' => new.text = e.text /\ new.group = e.group,
         s \notin crossed' => new.there = where
  PROVE  IInv'
<1> USE DEF Writes
<1>1. row' \in [Snippet -> Row] /\ flight' \in [Proc -> Flight] /\ \A q \in Proc : FlightOK(flight[q])'
  BY RowStep
<1>2. TypeOK'
  BY <1>1 DEF IInv, TypeOK, EditRow
<1>3. /\ row'[s] = new /\ edit'[s] = e /\ told'[s] = where
      /\ \A t \in Snippet : t # s => row'[t] = row[t] /\ edit'[t] = edit[t] /\ told'[t] = told[t]
  BY DEF IInv, TypeOK
<1>4. EditsSurvive'
  BY <1>3 DEF IInv, EditsSurvive, Exists
<1>5. TrashAsTold'
  BY <1>3 DEF IInv, TrashAsTold
<1> QED BY <1>1, <1>2, <1>4, <1>5 DEF IInv

LEMMA CreateStep ==
  ASSUME IInv, NEW p \in Proc, NEW s \in Snippet, NEW t \in Text, NEW g \in Place,
         Create(p, s, t, g)
  PROVE  IInv'
<1> DEFINE new == [there |-> "active", text |-> t, group |-> g, order |-> 0, stamp |-> now]
           e == [text |-> t, group |-> g]
<1>1. new \in Row /\ e \in EditRow
  BY DEF IInv, TypeOK, Row, EditRow
<1>2. Spares(s, new, Appending(g))
  BY DEF Create, Spares
<1>3. /\ row' = [row EXCEPT ![s] = new] /\ edit' = [edit EXCEPT ![s] = e]
      /\ told' = [told EXCEPT ![s] = "active"] /\ Go(p, Idle, Appending(g))
      /\ UNCHANGED <<now, requests, clobbered, crossed>>
  BY DEF Create
<1>4. new.there = "active" /\ new.text = e.text /\ new.group = e.group
  OBVIOUS
<1> HIDE DEF new, e
<1>5. Writes(p, s, new, Appending(g), e, "active")
  BY <1>1, <1>2, <1>3, <1>4 DEF Writes
<1> QED BY <1>4, <1>5, WriteStep

\* Update writes what it was asked for and what it has read; if that has changed
\* since, the snippet counts as clobbered.
LEMMA UpdateSaveStep ==
  ASSUME IInv, NEW p \in Proc, UpdateSave(p)
  PROVE  IInv'
<1> DEFINE f == flight[p]
           s == f.s
           group == IF f.toGroup # Inbox \/ f.was # Inbox THEN f.toGroup ELSE row[s].group
           new == [row[s] EXCEPT !.text = f.toText, !.group = group, !.stamp = now]
           e == [text  |-> IF f.text = None THEN edit[s].text ELSE f.text,
                 group |-> IF f.group = None THEN edit[s].group ELSE f.group]
           hit == Others(s, Editing) \cup Appending(group)
           where == told[s]
<1>1. f \in Flight /\ f.pc = "save" /\ FlightOK(f)
  BY DEF UpdateSave, At, IInv, TypeOK
<1>2. /\ s \in Snippet /\ row[s] \in Row /\ f.toGroup \in Place
      /\ edit[s] \in EditRow /\ where \in {"new", "active", "trashed", "gone"}
  BY <1>1 DEF FlightOK, RequestOK, IInv, TypeOK, Editing, EditRow
<1>3. CASE ~Exists(s)
  BY <1>3, GoneStep DEF UpdateSave
<1>4. CASE Exists(s)
  <2>1. group \in Place
    BY <1>2 DEF Row
  <2>2. /\ new \in Row /\ new.text = f.toText /\ new.group = group
        /\ new.there = row[s].there /\ new.order = row[s].order
    BY <1>1, <1>2, <2>1 DEF Row, Flight, IInv, TypeOK
  <2>3. e \in EditRow /\ e.text = (IF f.text = None THEN edit[s].text ELSE f.text)
                      /\ e.group = (IF f.group = None THEN edit[s].group ELSE f.group)
    BY <1>1, <1>2 DEF Flight, EditRow
  <2>4. /\ row' = [row EXCEPT ![s] = new] /\ edit' = [edit EXCEPT ![s] = e]
        /\ Go(p, Idle, hit)
        /\ clobbered' = IF f.stale THEN clobbered \cup {s} ELSE clobbered
        /\ UNCHANGED <<now, requests, told, crossed>>
    BY <1>4 DEF UpdateSave
  <2>5. new.there # "gone" /\ s \notin clobbered' => new.text = e.text /\ new.group = e.group
    <3> SUFFICES ASSUME s \notin clobbered' PROVE new.text = e.text /\ new.group = e.group
      OBVIOUS
    <3>1. ~f.stale /\ s \notin clobbered
      BY <2>4
    <3>2. row[s].text = edit[s].text /\ row[s].group = edit[s].group
      BY <1>2, <1>4, <3>1 DEF IInv, EditsSurvive
    <3>3. /\ f.toText = IF f.text = None THEN row[s].text ELSE f.text
          /\ f.toGroup = IF f.group = None THEN row[s].group ELSE f.group
          /\ f.was = row[s].group
      BY <1>1, <1>4, <3>1 DEF FlightOK, EditOK, Editing
    <3>4. group = f.toGroup
      BY <3>3
    <3> QED BY <2>2, <2>3, <3>2, <3>3, <3>4
  <2>6. new.there \notin {"new", "gone"}
    BY <1>4, <2>2 DEF Exists
  <2>7. Spares(s, new, hit)
    BY <2>2 DEF Spares
  <2>8. told' = [told EXCEPT ![s] = where]
    BY <2>4 DEF IInv, TypeOK
  <2>9. s \notin crossed' => new.there = where
    BY <1>2, <2>2, <2>4 DEF IInv, TrashAsTold
  <2>10. /\ clobbered \subseteq clobbered' /\ clobbered' \subseteq clobbered \cup {s}
         /\ crossed' = crossed /\ now' = now /\ requests' = requests
    BY <2>4
  <2> HIDE DEF new, e, hit, where, group, s, f
  <2>11. Writes(p, s, new, hit, e, where)
    BY <1>2, <2>2, <2>3, <2>4, <2>6, <2>7, <2>8, <2>10 DEF Writes
  <2> QED BY <2>5, <2>9, <2>11, WriteStep
<1> QED BY <1>3, <1>4

LEMMA MoveSaveStep ==
  ASSUME IInv, NEW p \in Proc, MoveSave(p)
  PROVE  IInv'
<1> DEFINE f == flight[p]
           s == f.s
           new == [row[s] EXCEPT !.group = f.toGroup, !.order = f.order, !.stamp = now]
           e == [edit[s] EXCEPT !.group = f.toGroup]
           hit == Others(s, Editing) \cup Appending(f.toGroup)
           where == told[s]
<1>1. f \in Flight /\ f.pc = "move" /\ FlightOK(f)
  BY DEF MoveSave, At, IInv, TypeOK
<1>2. /\ s \in Snippet /\ row[s] \in Row /\ f.toGroup \in Place /\ f.order \in Int
      /\ edit[s] \in EditRow /\ where \in {"new", "active", "trashed", "gone"}
  BY <1>1 DEF FlightOK, RequestOK, IInv, TypeOK, EditRow
<1>3. CASE ~Exists(s)
  BY <1>3, GoneStep DEF MoveSave
<1>4. CASE Exists(s)
  <2>1. /\ new \in Row /\ new.text = row[s].text /\ new.group = f.toGroup
        /\ new.there = row[s].there /\ new.order = f.order
    BY <1>2 DEF Row, IInv, TypeOK
  <2>2. e \in EditRow /\ e.text = edit[s].text /\ e.group = f.toGroup
    BY <1>2 DEF EditRow
  <2>3. /\ row' = [row EXCEPT ![s] = new]
        /\ Go(p, Idle, hit)
        /\ UNCHANGED <<now, requests, clobbered, told, crossed>>
    BY <1>4 DEF MoveSave
  <2>4. edit' = [edit EXCEPT ![s] = e]
    BY <1>4 DEF MoveSave
  <2>5. new.there # "gone" /\ s \notin clobbered' => new.text = e.text /\ new.group = e.group
    BY <1>2, <1>4, <2>1, <2>2, <2>3 DEF IInv, EditsSurvive
  <2>6. new.there \notin {"new", "gone"}
    BY <1>4, <2>1 DEF Exists
  <2>7. Spares(s, new, hit)
    BY <2>1 DEF Spares
  <2>8. told' = [told EXCEPT ![s] = where]
    BY <2>3 DEF IInv, TypeOK
  <2>9. s \notin crossed' => new.there = where
    BY <1>2, <2>1, <2>3 DEF IInv, TrashAsTold
  <2>10. /\ clobbered' = clobbered /\ crossed' = crossed
         /\ now' = now /\ requests' = requests
    BY <2>3
  <2> HIDE DEF new, e, hit, where, s, f
  <2>11. Writes(p, s, new, hit, e, where)
    BY <1>2, <2>1, <2>2, <2>3, <2>4, <2>6, <2>7, <2>8, <2>10 DEF Writes
  <2> QED BY <2>5, <2>9, <2>11, WriteStep
<1> QED BY <1>3, <1>4

LEMMA TouchSaveStep ==
  ASSUME IInv, NEW p \in Proc, TouchSave(p)
  PROVE  IInv'
<1> DEFINE s == flight[p].s
           new == [row[s] EXCEPT !.stamp = now]
           e == edit[s]
           where == told[s]
<1>1. /\ s \in Snippet /\ row[s] \in Row
      /\ e \in EditRow /\ where \in {"new", "active", "trashed", "gone"}
  BY DEF TouchSave, At, FlightOK, RequestOK, IInv, TypeOK, EditRow
<1>2. CASE ~Exists(s)
  BY <1>2, GoneStep DEF TouchSave
<1>3. CASE Exists(s)
  <2>1. /\ new \in Row /\ new.text = row[s].text /\ new.group = row[s].group
        /\ new.there = row[s].there /\ new.order = row[s].order
    BY <1>1 DEF Row, IInv, TypeOK
  <2>2. /\ row' = [row EXCEPT ![s] = new] /\ Go(p, Idle, {})
        /\ UNCHANGED <<now, requests, edit, clobbered, told, crossed>>
    BY <1>3 DEF TouchSave
  <2>3. edit' = [edit EXCEPT ![s] = e] /\ told' = [told EXCEPT ![s] = where]
    BY <2>2 DEF IInv, TypeOK
  <2>4. /\ s \notin clobbered' => new.text = e.text /\ new.group = e.group
        /\ s \notin crossed' => new.there = where
    BY <1>1, <1>3, <2>1, <2>2 DEF IInv, EditsSurvive, TrashAsTold
  <2>5. new.there # "new"
    BY <1>3, <2>1 DEF Exists
  <2>6. Spares(s, new, {})
    BY <1>3, <2>1 DEF Spares
  <2> HIDE DEF new, e, where, s
  <2>7. Writes(p, s, new, {}, e, where)
    BY <1>1, <2>1, <2>2, <2>3, <2>5, <2>6 DEF Writes
  <2> QED BY <2>4, <2>7, WriteStep
<1> QED BY <1>2, <1>3

\* What a trash operation has decided on is still so, unless it is stale.
LEMMA TrashWriteStep ==
  ASSUME IInv, NEW p \in Proc, SoftDelete(p) \/ Purge(p) \/ Restore(p)
  PROVE  IInv'
<1> DEFINE f == flight[p]
           s == f.s
           hit == Others(s, Trashing)
           e == edit[s]
<1>1. f \in Flight /\ f.pc \in Trashing /\ FlightOK(f)
  BY DEF SoftDelete, Purge, Restore, At, Trashing, IInv, TypeOK
<1>2. /\ s \in Snippet /\ row[s] \in Row /\ row[s].there # "new" /\ e \in EditRow
      /\ told[s] \in {"new", "active", "trashed", "gone"}
  BY <1>1 DEF FlightOK, RequestOK, Trashing, IInv, TypeOK, EditRow
<1>3. edit' = [edit EXCEPT ![s] = e] /\ UNCHANGED <<now, requests, clobbered>>
  BY DEF SoftDelete, Purge, Restore, IInv, TypeOK
<1>4. ASSUME NEW where \in {"active", "trashed", "gone"}, Trashed(p, where),
             NEW there \in {"active", "trashed", "gone"}, NEW new \in Row, new.there = there,
             row' = [row EXCEPT ![s] = new],
             there # "gone" => /\ Exists(s) /\ new.text = row[s].text /\ new.group = row[s].group
                               /\ new.order = row[s].order,
             s \notin crossed' => there = where
      PROVE  IInv'
  <2>1. /\ told' = [told EXCEPT ![s] = where] /\ Go(p, Idle, hit)
        /\ crossed \subseteq crossed' /\ crossed' \subseteq crossed \cup {s}
    BY <1>4 DEF Trashed
  <2>2. Spares(s, new, hit)
    BY <1>4 DEF Spares
  <2>3. new.there # "gone" /\ s \notin clobbered' => new.text = e.text /\ new.group = e.group
    BY <1>2, <1>3, <1>4 DEF IInv, EditsSurvive
  <2> HIDE DEF f, s, hit, e
  <2>4. Writes(p, s, new, hit, e, where)
    BY <1>2, <1>3, <1>4, <2>1, <2>2 DEF Writes
  <2> QED BY <1>4, <2>3, <2>4, WriteStep
<1>5. ASSUME ~f.stale, s \notin crossed
      PROVE  row[s].there = told[s] /\ row[s].there = IF f.pc = "soft" THEN "active" ELSE "trashed"
  BY <1>1, <1>2, <1>5 DEF FlightOK, TrashOK, IInv, TrashAsTold
<1>6. ASSUME NEW where, Trashed(p, where), s \notin crossed' PROVE ~f.stale /\ s \notin crossed
  BY <1>6 DEF Trashed
<1>7. AfterDelete(s) \in {"trashed", "gone"}
  BY DEF AfterDelete
<1>8. CASE SoftDelete(p)
  <2>1. Trashed(p, AfterDelete(s)) /\ f.pc = "soft"
    BY <1>8 DEF SoftDelete, At
  <2>2. CASE Exists(s)
    <3> DEFINE new == [row[s] EXCEPT !.there = "trashed", !.stamp = now]
    <3>1. /\ new \in Row /\ new.there = "trashed" /\ new.text = row[s].text
          /\ new.group = row[s].group /\ new.order = row[s].order
      BY <1>2 DEF Row, IInv, TypeOK
    <3>2. row' = [row EXCEPT ![s] = new]
      BY <1>2, <1>8, <2>2 DEF SoftDelete, IInv, TypeOK
    <3>3. s \notin crossed' => AfterDelete(s) = "trashed"
      BY <1>5, <1>6, <2>1 DEF AfterDelete
    <3> HIDE DEF new
    <3> QED BY <1>4, <1>7, <2>1, <2>2, <3>1, <3>2, <3>3
  <2>3. CASE ~Exists(s)
    <3>1. row' = row /\ row[s].there = "gone"
      BY <1>2, <1>8, <2>3 DEF SoftDelete, Exists, Row
    <3>2. row' = [row EXCEPT ![s] = row[s]]
      BY <3>1 DEF IInv, TypeOK
    <3>3. s \in crossed'
      BY <1>5, <1>6, <2>1, <3>1
    <3> QED BY <1>2, <1>4, <1>7, <2>1, <3>1, <3>2, <3>3
  <2> QED BY <2>2, <2>3
<1>9. CASE Restore(p)
  <2>1. Trashed(p, "active") /\ f.pc = "restore"
    BY <1>9 DEF Restore, At
  <2>2. CASE Exists(s)
    <3> DEFINE new == [row[s] EXCEPT !.there = "active", !.stamp = now]
    <3>1. /\ new \in Row /\ new.there = "active" /\ new.text = row[s].text
          /\ new.group = row[s].group /\ new.order = row[s].order
      BY <1>2 DEF Row, IInv, TypeOK
    <3>2. row' = [row EXCEPT ![s] = new]
      BY <1>2, <1>9, <2>2 DEF Restore, IInv, TypeOK
    <3> HIDE DEF new
    <3> QED BY <1>4, <2>1, <2>2, <3>1, <3>2
  <2>3. CASE ~Exists(s)
    <3>1. row' = row /\ row[s].there = "gone"
      BY <1>2, <1>9, <2>3 DEF Restore, Exists, Row
    <3>2. row' = [row EXCEPT ![s] = row[s]]
      BY <3>1 DEF IInv, TypeOK
    <3>3. s \in crossed'
      BY <1>5, <1>6, <2>1, <3>1
    <3> QED BY <1>2, <1>4, <2>1, <3>1, <3>2, <3>3
  <2> QED BY <2>2, <2>3
<1>10. CASE Purge(p)
  <2>1. CASE Exists(s)
    <3>1. Trashed(p, AfterDelete(s)) /\ f.pc = "purge"
      BY <1>10, <2>1 DEF Purge, At
    <3> DEFINE new == [Unborn EXCEPT !.there = "gone"]
    <3>2. new \in Row /\ new.there = "gone"
      BY DEF Unborn, Row, Place
    <3>3. row' = [row EXCEPT ![s] = new]
      BY <1>10, <2>1 DEF Purge
    <3>4. s \notin crossed' => AfterDelete(s) = "gone"
      BY <1>5, <1>6, <3>1 DEF AfterDelete
    <3> HIDE DEF new
    <3> QED BY <1>4, <1>7, <3>1, <3>2, <3>3, <3>4
  <2>2. CASE ~Exists(s)
    BY <1>10, <2>2, GoneStep DEF Purge
  <2> QED BY <2>1, <2>2
<1> QED BY <1>8, <1>9, <1>10

-----------------------------------------------------------------------------
(* The invariant and its consequences                                      *)

LEMMA InitOK == Init => IInv
<1> SUFFICES ASSUME Init PROVE IInv
  OBVIOUS
<1>1. TypeOK
  BY IdleOK DEF Init, TypeOK, Unborn, Row, Place
<1>2. EditsSurvive /\ TrashAsTold
  BY DEF Init, EditsSurvive, TrashAsTold, Exists, Unborn
<1>3. \A p \in Proc : FlightOK(flight[p])
  BY IdleOK DEF Init
<1> QED BY <1>1, <1>2, <1>3 DEF IInv

LEMMA NextOK == IInv /\ [Next]_vars => IInv'
<1> SUFFICES ASSUME IInv, [Next]_vars PROVE IInv'
  OBVIOUS
<1>1. CASE Tick \/ UNCHANGED vars
  BY <1>1, StillStep
<1>2. ASSUME NEW p \in Proc, EditNext(p) PROVE IInv'
  BY <1>2, CreateStep, MoveReadStep, UpdateReadStep, UpdateQueryStep, UpdateSaveStep, MoveMaxStep,
     MoveSaveStep DEF EditNext
<1>3. ASSUME NEW p \in Proc, TrashNext(p) PROVE IInv'
  BY <1>3, TrashReadStep, TrashWriteStep, TouchSaveStep DEF TrashNext
<1>4. ASSUME NEW p \in Proc, Abort(p) PROVE IInv'
  BY <1>4, AbortStep
<1> QED BY <1>1, <1>2, <1>3, <1>4 DEF Next

\* The inductive invariant holds in every behaviour.
THEOREM SnippetsInvariance == Spec => []IInv
<1> QED BY InitOK, NextOK, PTL DEF Spec

\* The table and the requests of the snippet component keep their types.
THEOREM SnippetsTypeCorrect == Spec => []TypeOK
<1>1. IInv => TypeOK
  BY DEF IInv
<1> QED BY <1>1, SnippetsInvariance, PTL

\* Nothing that was saved is undone by an Update that had read the current row.
THEOREM SavedEditsSurvive == Spec => []EditsSurvive
<1>1. IInv => EditsSurvive
  BY DEF IInv
<1> QED BY <1>1, SnippetsInvariance, PTL

\* The answers to Delete and Restore tell where a snippet is.
THEOREM TrashIsAsTold == Spec => []TrashAsTold
<1>1. IInv => TrashAsTold
  BY DEF IInv
<1> QED BY <1>1, SnippetsInvariance, PTL

\* A snippet that is moved without an order comes last in its group.
THEOREM MovesAppend == Spec => []AppendsAtEnd
<1>1. IInv => AppendsAtEnd
  BY DEF IInv, AppendsAtEnd, FlightOK, AppendOK, At
<1> QED BY <1>1, SnippetsInvariance, PTL

-----------------------------------------------------------------------------
(* The pages of a list                                                     *)

LEMMA ListInitOK == ListInit => ListIInv
<1> SUFFICES ASSUME ListInit PROVE ListIInv
  OBVIOUS
<1>1. IInv
  BY InitOK DEF ListInit
<1>2. ListTypeOK /\ PageOnce /\ CursorDivides
  BY DEF ListInit, ListTypeOK, PageOnce, CursorDivides, NoWalk, Modes
<1> QED BY <1>1, <1>2 DEF ListIInv

\* Sort keys are numbers and ids are numbers, so that the rows are in a total order.
LEMMA RowsOrdered ==
  ASSUME IInv, NEW by \in Modes
  PROVE  /\ \A s \in Snippet : SortKey(s, by) \in Int /\ s \in Nat
         /\ \A s, t \in Snippet : Precedes(s, t, by) \/ Precedes(t, s, by) \/ s = t
<1>1. \A s \in Snippet : row[s] \in Row
  BY DEF IInv, TypeOK
<1>2. \A s \in Snippet : SortKey(s, by) \in Int /\ s \in Nat
  BY <1>1, IdAssumption DEF SortKey, Row
<1> QED BY <1>2 DEF Precedes

\* The cursor behind a row divides the rows the way the order of the rows does.
LEMMA CursorOfRow ==
  ASSUME IInv, NEW by \in Modes, NEW last \in Snippet, NEW s \in Snippet
  PROVE  /\ <<SortKey(last, by), last>> \in Int \X Snippet
         /\ Behind(<<SortKey(last, by), last>>, <<SortKey(s, by), s>>, by) <=> Precedes(last, s, by)
         /\ s = last \/ Precedes(s, last, by) => ~Precedes(last, s, by)
<1>1. /\ SortKey(s, by) \in Int /\ s \in Nat
      /\ SortKey(last, by) \in Int /\ last \in Nat
  BY RowsOrdered
<1> QED BY <1>1 DEF Behind, Precedes

\* What lies behind a later cursor lies behind an earlier one.
LEMMA CursorMoves ==
  ASSUME IInv, NEW by \in Modes, NEW c \in Int \X Snippet, NEW last \in Snippet, NEW s \in Snippet,
         Behind(c, <<SortKey(last, by), last>>, by),
         Behind(<<SortKey(last, by), last>>, <<SortKey(s, by), s>>, by)
  PROVE  Behind(c, <<SortKey(s, by), s>>, by)
<1>1. /\ SortKey(s, by) \in Int /\ s \in Nat
      /\ SortKey(last, by) \in Int /\ last \in Nat
  BY RowsOrdered
<1>2. c[1] \in Int /\ c[2] \in Nat
  BY IdAssumption
<1> QED BY <1>1, <1>2 DEF Behind

\* What a walk w has shown of the rows, before it reads a page: those that its cursor
\* has passed.
Divided(w) ==
  /\ w \in [pc : {"idle", "more"}, by : Modes, group : Place \cup {None},
            cursor : {<<>>} \cup (Int \X Snippet), shown : [Snippet -> Nat]]
  /\ \A s \in Snippet \ touched' :
        /\ s \in start' <=> Matches(s, w.group)
        /\ w.shown[s] = IF s \in start' /\ s \notin Hits(w) THEN 1 ELSE 0

LEMMA PageStep ==
  ASSUME IInv, NEW w, Divided(w),
         Page(w), UNCHANGED vars, start' \subseteq Snippet, touched' \subseteq Snippet
  PROVE  ListIInv'
<1>1. IInv'
  BY StillStep
<1>2. CASE Cardinality(Hits(w)) <= Limit /\ walk' = [w EXCEPT !.pc = "done", !.shown = Showing(@, Hits(w))]
  <2>1. /\ walk'.pc = "done" /\ walk'.by = w.by /\ walk'.group = w.group
        /\ walk'.shown = Showing(w.shown, Hits(w))
    BY <1>2
  <2>2. ListTypeOK'
    <3>1. Showing(w.shown, Hits(w)) \in [Snippet -> Nat]
      BY DEF Divided, Showing
    <3>2. walk' \in [pc : {"idle", "more", "done"}, by : Modes, group : Place \cup {None},
                    cursor : {<<>>} \cup (Int \X Snippet), shown : [Snippet -> Nat]]
      BY <1>2, <3>1 DEF Divided
    <3> QED BY <2>1, <3>2 DEF ListTypeOK
  <2>3. ASSUME NEW s \in Snippet \ touched'
        PROVE  walk'.shown[s] <= 1 /\ (walk'.shown[s] = 1 <=> s \in start')
    <3>1. walk'.shown[s] = IF s \in Hits(w) THEN w.shown[s] + 1 ELSE w.shown[s]
      BY <2>1 DEF Showing
    <3>2. s \in Hits(w) => Matches(s, w.group)
      BY DEF Hits
    <3>3. w.shown[s] = IF s \in start' /\ s \notin Hits(w) THEN 1 ELSE 0
      BY <2>3 DEF Divided
    <3>4. s \in start' <=> Matches(s, w.group)
      BY <2>3 DEF Divided
    <3>5. CASE s \in Hits(w)
      BY <3>1, <3>2, <3>3, <3>4, <3>5
    <3>6. CASE s \notin Hits(w)
      BY <3>1, <3>3, <3>6
    <3> QED BY <3>5, <3>6
  <2> QED BY <1>1, <2>1, <2>2, <2>3 DEF ListIInv, PageOnce, CursorDivides
<1>3. ASSUME NEW last \in Hits(w), NEW page,
             page = {s \in Hits(w) : s = last \/ Precedes(s, last, w.by)},
             walk' = [w EXCEPT !.pc = "more", !.shown = Showing(@, page),
                               !.cursor = <<SortKey(last, w.by), last>>]
      PROVE  ListIInv'
  <2> DEFINE c == <<SortKey(last, w.by), last>>
  <2>1. /\ walk'.pc = "more" /\ walk'.by = w.by /\ walk'.group = w.group
        /\ walk'.shown = Showing(w.shown, page) /\ walk'.cursor = c
    BY <1>3
  <2>2. last \in Snippet /\ w.by \in Modes
    BY <1>3 DEF Hits, Divided
  <2>3. c \in Int \X Snippet
    BY <2>2, CursorOfRow
  <2> HIDE DEF c
  <2>4. ListTypeOK'
    <3>1. Showing(w.shown, page) \in [Snippet -> Nat]
      BY DEF Divided, Showing
    <3>2. walk' \in [pc : {"idle", "more", "done"}, by : Modes, group : Place \cup {None},
                    cursor : {<<>>} \cup (Int \X Snippet), shown : [Snippet -> Nat]]
      BY <1>3, <2>3, <3>1 DEF Divided, c
    <3> QED BY <2>1, <2>3, <3>2 DEF ListTypeOK
  <2>5. ASSUME NEW s \in Snippet \ touched'
        PROVE  /\ s \in start' <=> Matches(s, w.group)
               /\ walk'.shown[s] = IF s \in start' /\ ~Behind(c, <<SortKey(s, w.by), s>>, w.by)
                                   THEN 1 ELSE 0
    <3>1. walk'.shown[s] = IF s \in page THEN w.shown[s] + 1 ELSE w.shown[s]
      BY <2>1 DEF Showing
    <3>2. s \in start' <=> Matches(s, w.group)
      BY <2>5 DEF Divided
    <3>3. w.shown[s] = IF s \in start' /\ s \notin Hits(w) THEN 1 ELSE 0
      BY <2>5 DEF Divided
    <3>4. Behind(c, <<SortKey(s, w.by), s>>, w.by) <=> Precedes(last, s, w.by)
      BY <2>2, CursorOfRow DEF c
    <3>5. s \in page <=> s \in Hits(w) /\ ~Precedes(last, s, w.by)
      BY <1>3, <2>2, CursorOfRow, RowsOrdered
    <3>6. s \in Hits(w) => s \in start'
      BY <3>2 DEF Hits
    <3>7. ASSUME s \notin Hits(w), s \in start' PROVE ~Behind(c, <<SortKey(s, w.by), s>>, w.by)
      <4>1. w.cursor # <<>> /\ ~Behind(w.cursor, <<SortKey(s, w.by), s>>, w.by)
        BY <3>2, <3>7 DEF Hits
      <4>2. w.cursor \in Int \X Snippet /\ Behind(w.cursor, <<SortKey(last, w.by), last>>, w.by)
        BY <1>3, <4>1 DEF Hits, Divided
      <4> QED BY <2>2, <4>1, <4>2, CursorMoves DEF c
    <3> DEFINE behind == Behind(c, <<SortKey(s, w.by), s>>, w.by)
    <3>8. CASE s \in Hits(w)
      <4>1. w.shown[s] = 0 /\ s \in start'
        BY <3>3, <3>6, <3>8
      <4>2. s \in page <=> ~behind
        BY <3>4, <3>5, <3>8
      <4> HIDE DEF behind
      <4>3. walk'.shown[s] = IF ~behind THEN 1 ELSE 0
        BY <3>1, <4>1, <4>2
      <4> QED BY <3>2, <4>1, <4>3 DEF behind
    <3>9. CASE s \notin Hits(w)
      <4>1. walk'.shown[s] = IF s \in start' THEN 1 ELSE 0
        BY <3>1, <3>3, <3>5, <3>9
      <4>2. s \in start' => ~behind
        BY <3>7, <3>9
      <4> HIDE DEF behind
      <4> QED BY <3>2, <4>1, <4>2 DEF behind
    <3> QED BY <3>8, <3>9
  <2>6. CursorDivides'
    BY <2>1, <2>5 DEF CursorDivides, Matches, SortKey, vars
  <2>7. ASSUME NEW s \in Snippet \ touched' PROVE walk'.shown[s] <= 1
    <3>1. walk'.shown[s] \in {0, 1}
      BY <2>5
    <3> QED BY <3>1
  <2>8. PageOnce'
    BY <2>1, <2>7 DEF PageOnce
  <2> QED BY <1>1, <2>4, <2>6, <2>8 DEF ListIInv
<1> QED BY <1>2, <1>3 DEF Page

LEMMA FirstPageStep ==
  ASSUME ListIInv, NEW by \in Modes, NEW group \in Place \cup {None}, FirstPage(by, group)
  PROVE  ListIInv'
<1> DEFINE w == [NoWalk EXCEPT !.by = by, !.group = group]
<1>1. /\ w.pc = "idle" /\ w.by = by /\ w.group = group /\ w.cursor = <<>>
      /\ w.shown = [s \in Snippet |-> 0]
      /\ w \in [pc : {"idle", "more"}, by : Modes, group : Place \cup {None},
                cursor : {<<>>} \cup (Int \X Snippet), shown : [Snippet -> Nat]]
  BY DEF NoWalk
<1>2. start' = {s \in Snippet : Matches(s, group)} /\ touched' = {}
  BY DEF FirstPage
<1>3. Page(w) /\ UNCHANGED vars
  BY DEF FirstPage
<1> HIDE DEF w
<1>4. \A s \in Snippet : Matches(s, group) => s \in Hits(w)
  BY <1>1 DEF Hits
<1>5. Divided(w)
  BY <1>1, <1>2, <1>4 DEF Divided
<1> QED BY <1>2, <1>3, <1>5, PageStep DEF ListIInv

LEMMA NextPageStep ==
  ASSUME ListIInv, NextPage
  PROVE  ListIInv'
<1>1. Page(walk) /\ UNCHANGED vars /\ start' = start /\ touched' = touched /\ walk.pc = "more"
  BY DEF NextPage
<1>2. walk.cursor \in Int \X Snippet
  BY <1>1 DEF ListIInv, ListTypeOK
<1>3. \A s \in Snippet : s \in Hits(walk) <=> /\ Matches(s, walk.group)
                                              /\ Behind(walk.cursor, <<SortKey(s, walk.by), s>>, walk.by)
  BY <1>2 DEF Hits
<1>4. Divided(walk)
  BY <1>1, <1>2, <1>3 DEF Divided, ListIInv, ListTypeOK, CursorDivides
<1> QED BY <1>1, <1>4, PageStep DEF ListIInv, ListTypeOK

LEMMA MeanwhileStep ==
  ASSUME ListIInv, Meanwhile \/ UNCHANGED <<vars, listVars>>
  PROVE  ListIInv'
<1>1. IInv'
  BY NextOK DEF ListIInv, Meanwhile
<1>2. walk' = walk /\ start' = start
  BY DEF Meanwhile, listVars
<1>3. touched \subseteq touched' /\ touched' \subseteq Snippet
  BY DEF Meanwhile, listVars, ListIInv, ListTypeOK
<1>4. ListTypeOK' /\ PageOnce'
  BY <1>2, <1>3 DEF ListIInv, ListTypeOK, PageOnce
<1>5. ASSUME walk.pc = "more", NEW s \in Snippet \ touched'
      PROVE  row'[s] = row[s]
  BY <1>5 DEF Meanwhile, vars
<1>6. CursorDivides'
  BY <1>2, <1>3, <1>5 DEF ListIInv, CursorDivides, Matches, SortKey
<1> QED BY <1>1, <1>4, <1>6 DEF ListIInv

LEMMA ListNextOK == ListIInv /\ [ListNext]_<<vars, listVars>> => ListIInv'
<1> SUFFICES ASSUME ListIInv, [ListNext]_<<vars, listVars>> PROVE ListIInv'
  OBVIOUS
<1> QED BY FirstPageStep, NextPageStep, MeanwhileStep DEF ListNext

\* The walk of a client through the pages, among the requests of the others.
THEOREM ListInvariance == ListSpec => []ListIInv
BY ListInitOK, ListNextOK, PTL DEF ListSpec

\* Who walks through the pages sees each snippet that stays as it is once, if it is
\* one of those asked for: for any page size and number of snippets and requests.
THEOREM PagesShowOnce == ListSpec => []PageOnce
<1>1. ListIInv => PageOnce
  BY DEF ListIInv
<1> QED BY <1>1, ListInvariance, PTL

=============================================================================
