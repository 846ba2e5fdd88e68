-------------------------- MODULE Accounts_proofs --------------------------
(***************************************************************************)
(* Theorems about Accounts, and about SignUp, which puts the bus beside    *)
(* them, for any sets of handlers, users, keys and calls and any bounds.   *)
(* With the bus the accounts still behave as Accounts specifies, and the   *)
(* Kafka offset passes a message only after its handler has run.           *)
(*                                                                         *)
(* The invariant of the accounts describes each flight by the stage of its *)
(* handler (Stage), says what the stages know of the tables (Knows), keeps *)
(* the transactions apart (Apart), and ties each Register call to the      *)
(* account it made (CallsTied).                                            *)
(***************************************************************************)
EXTENDS SignUp, SequenceTheorems, FiniteSetTheorems, TLAPS

-----------------------------------------------------------------------------
(* The inductive invariant                                                 *)

InTx(f) == f.pc \in {"insert", "event", "commit"}
Empty(f)    == f.todo = <<>> /\ f.mine = {}

\* How far a registration of the keys h, e, n has come.
Registering(f, h, e, n) ==
    \/ f.pc = "insert" /\ f.todo = <<h, e, n>> /\ f.mine = {}
    \/ f.pc = "insert" /\ f.todo = <<e, n>> /\ f.mine = {h}
    \/ f.pc = "insert" /\ f.todo = <<n>> /\ f.mine = {h, e}
    \/ f.pc \in {"event", "commit"} /\ f.todo = <<>> /\ f.mine = {h, e, n}
    \/ f.pc \in {"done", "refused"} /\ Empty(f)

RegisterStage(f, cl) ==
    /\ f.call \in Call
    /\ cl[f.call].state # "new"
    /\ \E h \in Phone, e \in Email, n \in Name :
          cl[f.call].keys = <<h, e, n>> /\ Registering(f, h, e, n)

PhoneStage(f) ==
    /\ f.call = None
    /\ f.key \in Phone
    /\ \/ f.pc = "insert" /\ f.todo = <<f.key>> /\ f.mine = {}
       \/ f.pc \in {"event", "commit"} /\ f.todo = <<>> /\ f.mine = {f.key}
       \/ f.pc \in {"find", "again", "done"} /\ Empty(f)

WriteStage(f) == f.call = None /\ f.pc = "write" /\ Empty(f) /\ (f.op = "bind" => f.key \in Email)
RestStage(f)  == f.call = None /\ f.pc \in {"idle", "done", "refused"} /\ Empty(f)

Stage(f, cl) ==
    /\ f \in Flight
    /\ f.event = (f.pc = "commit")
    /\ InTx(f) => f.user \in User
    /\ \/ f.op = "register" /\ RegisterStage(f, cl)
       \/ f.op = "phone" /\ PhoneStage(f)
       \/ f.op \in {"bind", "set", "change"} /\ WriteStage(f)
       \/ f.op = "none" /\ RestStage(f)

Stages == \A p \in Proc : Stage(flight[p], call)

\* What the stage of f has established about the tables.
Knows(f, acc, ids, drw, mk) ==
    /\ InTx(f) => f.user \in drw /\ f.user \notin acc
    /\ \A k \in f.mine : ids[k].user = None
    /\ f.pc = "write" => f.user \in acc
    /\ f.pc = "again" => ids[f.key].user # None
    /\ f.op = "phone" /\ f.pc = "done" => f.user \in acc /\ ids[f.key].user = f.user
    /\ f.op = "register" /\ f.pc = "done" => f.user \in acc /\ mk[f.user] = f.call

Known == \A p \in Proc : Knows(flight[p], account, identity, drawn, maker)

\* Two transactions share neither a key nor a user.
Apart ==
    \A p, q \in Proc : p # q =>
        /\ flight[p].mine \cap flight[q].mine = {}
        /\ InTx(flight[p]) /\ InTx(flight[q]) => flight[p].user # flight[q].user

Owned ==
    /\ account \subseteq drawn
    /\ \A k \in Key : identity[k].user # None => identity[k].user \in account
    /\ \A u \in account : \E k \in Key : identity[k].user = u

Announced ==
    /\ \A i \in DOMAIN outbox : outbox[i] \in account
    /\ \A u \in account : \E i \in DOMAIN outbox : \A j \in DOMAIN outbox : outbox[j] = u <=> j = i

CallKeys(cl) == \E h \in Phone, e \in Email, n \in Name : cl.keys = <<h, e, n>>

CallsTied ==
    \A c \in Call :
        /\ call[c].state = "new" => call[c].at = None /\ ~call[c].lost
        /\ call[c].state # "new" => CallKeys(call[c])
        /\ call[c].at # None => call[c].state = "open" /\ flight[call[c].at].call = c
        /\ ~call[c].lost => \A q \in Proc : flight[q].call = c => call[c].at = q
        /\ call[c].state = "ok" => \E u \in account : maker[u] = c

\* An account that a call made owns the phone of that call; its answer is under way
\* or was lost.
Makers ==
    \A u \in account : maker[u] \in Call =>
        LET c == maker[u] IN
        /\ call[c].state # "new"
        /\ identity[call[c].keys[1]].user = u
        /\ \/ call[c].lost
           \/ call[c].state = "ok"
           \/ call[c].at # None /\ flight[call[c].at].pc = "done"

IInv ==
    /\ TypeOK /\ Stages /\ Known /\ Apart /\ Owned
    /\ Announced /\ CallsTied /\ Makers /\ OnePassword /\ ChecksHold

-----------------------------------------------------------------------------
(* Rows and sequences                                                      *)

\* The lists of keys that a registration inserts.
LEMMA Tuples ==
    ASSUME NEW a \in Key, NEW b \in Key, NEW c \in Key
    PROVE  /\ <<a>> \in Seq(Key) /\ Head(<<a>>) = a /\ Tail(<<a>>) = <<>>
           /\ <<b, c>> \in Seq(Key) /\ Head(<<b, c>>) = b /\ Tail(<<b, c>>) = <<c>>
           /\ <<a, b, c>> \in Seq(Key) /\ Head(<<a, b, c>>) = a /\ Tail(<<a, b, c>>) = <<b, c>>
           /\ <<a>> # <<>> /\ <<b, c>> # <<>> /\ <<a, b, c>> # <<>>
           /\ <<>> \in Seq(Key)
OBVIOUS

\* Only the mark "stale" of another's flight may change in a step.
Touched(f, g) == g = f \/ g = [f EXCEPT !.stale = TRUE]

SameFields(f, g) ==
    /\ g.op = f.op /\ g.pc = f.pc /\ g.user = f.user /\ g.todo = f.todo /\ g.mine = f.mine
    /\ g.event = f.event /\ g.key = f.key /\ g.old = f.old /\ g.new = f.new /\ g.call = f.call

\* A flight that another one made stale is the same otherwise.
LEMMA TouchedSame ==
    ASSUME NEW f \in Flight, NEW g, Touched(f, g)
    PROVE  g \in Flight /\ SameFields(f, g) /\ (~g.stale => ~f.stale)
BY DEF Touched, SameFields, Flight

Others(p) == \A q \in Proc : q # p => Touched(flight[q], flight'[q])

\* Goto changes one flight, and the others not at all.
LEMMA GotoMoves ==
    ASSUME TypeOK, NEW p \in Proc, NEW f \in Flight, Goto(p, f)
    PROVE  flight' \in [Proc -> Flight] /\ flight'[p] = f /\ Others(p)
BY DEF TypeOK, Goto, Others, Touched

\* GotoHitting marks every flight that is about to write to the same user.
LEMMA GotoHittingMoves ==
    ASSUME TypeOK, NEW p \in Proc, NEW f \in Flight, NEW u, NEW hit, GotoHitting(p, f, u, hit)
    PROVE  /\ flight' \in [Proc -> Flight] /\ flight'[p] = f /\ Others(p)
           /\ \A q \in Proc : /\ q # p /\ ~flight'[q].stale /\ flight[q].pc = "write"
                              /\ flight[q].user = u
                              => flight[q].op \notin hit
<1>1. \A q \in Proc : flight[q] \in Flight
  BY DEF TypeOK
<1>2. ASSUME NEW q \in Proc, q # p
      PROVE  /\ flight'[q] \in Flight /\ Touched(flight[q], flight'[q])
             /\ flight'[q].stale = (flight[q].stale \/ (flight[q].user = u /\ flight[q].op \in hit /\ At(q, "write")))
  <2> DEFINE b == flight[q].stale \/ (flight[q].user = u /\ flight[q].op \in hit /\ At(q, "write"))
  <2>1. flight'[q] = [flight[q] EXCEPT !.stale = b]
    BY <1>2 DEF GotoHitting
  <2>2. flight[q] \in Flight /\ b \in BOOLEAN
    BY <1>1 DEF Flight
  <2>3. ~b => ~flight[q].stale
    OBVIOUS
  <2> HIDE DEF b
  <2>4. ASSUME b = TRUE
       PROVE  flight'[q] \in Flight /\ Touched(flight[q], flight'[q]) /\ flight'[q].stale = b
    <3>1. flight'[q] = [flight[q] EXCEPT !.stale = TRUE]
      BY <2>1, <2>4
    <3>2. flight'[q] \in Flight /\ flight'[q].stale = TRUE
      BY <2>2, <3>1 DEF Flight
    <3> QED BY <2>4, <3>1, <3>2 DEF Touched
  <2>5. ASSUME b = FALSE
       PROVE  flight'[q] \in Flight /\ Touched(flight[q], flight'[q]) /\ flight'[q].stale = b
    <3>1. flight[q].stale = FALSE
      BY <2>2, <2>3, <2>5 DEF Flight
    <3>2. [flight[q] EXCEPT !.stale = FALSE] = flight[q]
      BY <2>2, <3>1 DEF Flight
    <3>3. flight'[q] = flight[q]
      BY <2>1, <2>5, <3>2
    <3> QED BY <2>2, <2>5, <3>1, <3>3 DEF Touched
  <2>6. flight'[q] \in Flight /\ Touched(flight[q], flight'[q]) /\ flight'[q].stale = b
    BY <2>2, <2>4, <2>5
  <2> QED BY <2>6 DEF b
<1>3. flight' = [q \in Proc |-> flight'[q]] /\ flight'[p] = f
  BY DEF GotoHitting
<1>4. flight' \in [Proc -> Flight]
  BY <1>2, <1>3
<1> QED BY <1>2, <1>3, <1>4 DEF Others, At

\* An idle handler, field by field.
LEMMA IdleFields ==
    /\ Idle \in Flight
    /\ Idle.op = "none" /\ Idle.pc = "idle" /\ Idle.user = None /\ Idle.todo = <<>> /\ Idle.mine = {}
    /\ Idle.event = FALSE /\ Idle.key = None /\ Idle.old = None /\ Idle.new = None /\ Idle.call = None
    /\ Idle.stale = FALSE
<1>1. <<>> \in Seq(Key) /\ {} \in SUBSET Key
  OBVIOUS
<1> QED BY <1>1 DEF Idle, Flight, OptUser, OptPassword

\* A handler that is idle, done or refused owes nothing.
LEMMA IdleRest ==
    ASSUME NEW pc \in {"idle", "done", "refused"}, NEW cl
    PROVE  [Idle EXCEPT !.pc = pc] \in Flight /\ Stage([Idle EXCEPT !.pc = pc], cl)
<1> DEFINE g == [Idle EXCEPT !.pc = pc]
<1>1. /\ g.op = "none" /\ g.pc = pc /\ g.todo = <<>> /\ g.mine = {} /\ g.event = FALSE
      /\ g.call = None /\ g \in Flight
  BY IdleFields DEF Flight
<1> HIDE DEF g
<1>2. Stage(g, cl)
  BY <1>1 DEF Stage, RestStage, Empty, InTx
<1> QED BY <1>1, <1>2 DEF g

\* A call that has been made keeps its keys.
CallsStay == \A c \in Call : call[c].state # "new" => call'[c].state # "new" /\ call'[c].keys = call[c].keys

\* Being marked stale does not change how far a flight has come.
LEMMA StageSame ==
    ASSUME NEW f \in Flight, NEW g \in Flight, SameFields(f, g), NEW cl, NEW dl, Stage(f, cl),
           \A c \in Call : cl[c].state # "new" => dl[c].state # "new" /\ dl[c].keys = cl[c].keys
    PROVE  Stage(g, dl)
<1>1. CASE f.op = "register"
  <2>1. RegisterStage(f, cl)
    BY <1>1 DEF Stage
  <2>2. RegisterStage(g, dl)
    BY <2>1 DEF RegisterStage, Registering, Empty, SameFields
  <2> QED BY <1>1, <2>2 DEF Stage, SameFields, InTx
<1>2. CASE f.op # "register"
  BY <1>2 DEF Stage, SameFields, InTx, PhoneStage, WriteStage, RestStage, Empty
<1> QED BY <1>1, <1>2

\* If the handler that moves is in order, all are.
LEMMA StagesNext ==
    ASSUME TypeOK, Stages, CallsStay, NEW p \in Proc, Others(p), Stage(flight'[p], call')
    PROVE  Stages'
<1>1. ASSUME NEW q \in Proc, q # p
      PROVE  Stage(flight'[q], call')
  <2>1. flight[q] \in Flight /\ Stage(flight[q], call) /\ Touched(flight[q], flight'[q])
    BY <1>1 DEF TypeOK, Stages, Others
  <2>2. flight'[q] \in Flight /\ SameFields(flight[q], flight'[q])
    BY <2>1, TouchedSame
  <2> QED BY <2>1, <2>2, StageSame DEF CallsStay
<1> QED BY <1>1 DEF Stages
-----------------------------------------------------------------------------
(* Every step leaves every flight in a stage                               *)

Moves(p, g) == g \in Flight /\ Stage(g, call') /\ flight' \in [Proc -> Flight] /\ flight'[p] = g /\ Others(p)

\* Going idle is always in order.
LEMMA ToRest ==
    ASSUME TypeOK, NEW p \in Proc, Goto(p, Idle)
    PROVE  Moves(p, Idle)
<1>1. [Idle EXCEPT !.pc = "idle"] = Idle
  BY IdleFields DEF Flight
<1>2. Idle \in Flight /\ Stage(Idle, call')
  BY <1>1, IdleRest
<1> QED BY <1>2, GotoMoves DEF Moves

\* An insertion has a key left, one it has not inserted yet.
LEMMA InsertFacts ==
    ASSUME NEW f \in Flight, NEW cl, Stage(f, cl), f.pc = "insert"
    PROVE  /\ f.op \in {"register", "phone"}
           /\ Head(f.todo) \in Key /\ Tail(f.todo) \in Seq(Key)
           /\ Head(f.todo) \notin f.mine
           /\ f.op = "phone" => Head(f.todo) = f.key
<1>1. CASE f.op = "register"
  <2>1. PICK h \in Phone, e \in Email, n \in Name : Registering(f, h, e, n)
    BY <1>1 DEF Stage, RegisterStage
  <2>2. h \in Key /\ e \in Key /\ n \in Key /\ h # e /\ h # n /\ e # n
    BY KeyAssumption DEF Key
  <2>3. CASE f.todo = <<h, e, n>> /\ f.mine = {}
    BY <1>1, <2>2, <2>3, Tuples
  <2>4. CASE f.todo = <<e, n>> /\ f.mine = {h}
    BY <1>1, <2>2, <2>4, Tuples
  <2>5. CASE f.todo = <<n>> /\ f.mine = {h, e}
    BY <1>1, <2>2, <2>5, Tuples
  <2> QED BY <2>1, <2>3, <2>4, <2>5 DEF Registering
<1>2. CASE f.op = "phone"
  <2>1. f.todo = <<f.key>> /\ f.mine = {} /\ f.key \in Key
    BY <1>2 DEF Stage, PhoneStage, Key
  <2> QED BY <1>2, <2>1, Tuples
<1> QED BY <1>1, <1>2 DEF Stage, WriteStage, RestStage

Inserted(f) == [f EXCEPT !.todo = Tail(@), !.mine = @ \cup {Head(f.todo)},
                         !.pc = IF Tail(f.todo) = <<>> THEN "event" ELSE "insert"]
Conflicted(f) == [f EXCEPT !.todo = <<>>, !.mine = {},
                           !.pc = IF f.op = "phone" THEN "again" ELSE "refused"]

\* After a successful INSERT.
LEMMA InsertedStage ==
    ASSUME NEW f \in Flight, NEW cl, Stage(f, cl), f.pc = "insert"
    PROVE  Inserted(f) \in Flight /\ Stage(Inserted(f), cl)
<1> DEFINE g == Inserted(f)
<1>1. /\ g.op = f.op /\ g.user = f.user /\ g.event = f.event /\ g.key = f.key /\ g.call = f.call
      /\ g.old = f.old /\ g.new = f.new /\ g.stale = f.stale
      /\ g.todo = Tail(f.todo) /\ g.mine = f.mine \cup {Head(f.todo)}
      /\ g.pc = IF Tail(f.todo) = <<>> THEN "event" ELSE "insert"
  BY DEF Inserted, Flight
<1>2. g \in Flight
  <2>1. Tail(f.todo) \in Seq(Key) /\ f.mine \cup {Head(f.todo)} \in SUBSET Key
    BY InsertFacts DEF Flight
  <2> QED BY <2>1 DEF Inserted, Flight
<1>3. f.event = FALSE /\ f.user \in User
  BY DEF Stage, InTx
<1> HIDE DEF g
<1>4. g.pc \in {"insert", "event"} /\ g.event = (g.pc = "commit") /\ g.user \in User
  BY <1>1, <1>3
<1>5. CASE f.op = "register"
  <2>1. PICK h \in Phone, e \in Email, n \in Name : cl[f.call].keys = <<h, e, n>> /\ Registering(f, h, e, n)
    BY <1>5 DEF Stage, RegisterStage
  <2>2. h \in Key /\ e \in Key /\ n \in Key
    BY DEF Key
  <2>3. ASSUME f.todo = <<h, e, n>> /\ f.mine = {}
       PROVE  Registering(g, h, e, n)
    BY <1>1, <2>2, <2>3, Tuples DEF Registering
  <2>4. ASSUME f.todo = <<e, n>> /\ f.mine = {h}
       PROVE  Registering(g, h, e, n)
    BY <1>1, <2>2, <2>4, Tuples DEF Registering
  <2>5. ASSUME f.todo = <<n>> /\ f.mine = {h, e}
       PROVE  Registering(g, h, e, n)
    BY <1>1, <2>2, <2>5, Tuples DEF Registering
  <2>6. Registering(g, h, e, n)
    BY <2>1, <2>3, <2>4, <2>5 DEF Registering
  <2>7. RegisterStage(g, cl)
    BY <1>1, <1>5, <2>1, <2>6 DEF Stage, RegisterStage
  <2> QED BY <1>1, <1>2, <1>4, <1>5, <2>7 DEF Stage, g
<1>6. CASE f.op = "phone"
  <2>1. f.todo = <<f.key>> /\ f.mine = {} /\ f.key \in Key /\ f.key \in Phone /\ f.call = None
    BY <1>6 DEF Stage, PhoneStage, Key
  <2>2. g.todo = <<>> /\ g.mine = {f.key} /\ g.pc = "event"
    BY <1>1, <2>1, Tuples
  <2>3. PhoneStage(g)
    BY <1>1, <2>1, <2>2 DEF PhoneStage
  <2> QED BY <1>1, <1>2, <1>4, <1>6, <2>3 DEF Stage, g
<1> QED BY <1>5, <1>6, InsertFacts

\* After a refused one: a phone entry looks the owner up, a registration gives up.
LEMMA ConflictedStage ==
    ASSUME NEW f \in Flight, NEW cl, Stage(f, cl), f.pc = "insert"
    PROVE  Conflicted(f) \in Flight /\ Stage(Conflicted(f), cl)
<1> DEFINE g == Conflicted(f)
<1>1. /\ g.op = f.op /\ g.user = f.user /\ g.event = f.event /\ g.key = f.key /\ g.call = f.call
      /\ g.todo = <<>> /\ g.mine = {}
      /\ g.pc = IF f.op = "phone" THEN "again" ELSE "refused"
  BY DEF Conflicted, Flight
<1>2. g \in Flight
  <2>1. <<>> \in Seq(Key) /\ {} \in SUBSET Key
    OBVIOUS
  <2> QED BY <2>1 DEF Conflicted, Flight
<1>3. f.event = FALSE
  BY DEF Stage
<1>4. f.op \in {"register", "phone"}
  BY InsertFacts
<1> HIDE DEF g
<1>5. CASE f.op = "register"
  BY <1>1, <1>2, <1>3, <1>5 DEF Stage, RegisterStage, Registering, Empty, InTx, g
<1>6. CASE f.op = "phone"
  BY <1>1, <1>2, <1>3, <1>6 DEF Stage, PhoneStage, Empty, InTx, g
<1> QED BY <1>4, <1>5, <1>6

\* Insert takes a flight to one of the two.
LEMMA InsertMoves ==
    ASSUME TypeOK, Stages, NEW p \in Proc, Insert(p)
    PROVE  /\ Moves(p, IF identity[Head(flight[p].todo)].user = None THEN Inserted(flight[p])
                       ELSE Conflicted(flight[p]))
           /\ flight[p].pc = "insert"
<1> DEFINE f == flight[p]
           g == IF identity[Head(f.todo)].user = None THEN Inserted(f) ELSE Conflicted(f)
<1>1. f \in Flight /\ Stage(f, call) /\ f.pc = "insert" /\ call' = call
  BY DEF TypeOK, Stages, Insert, At
<1>2. g \in Flight /\ Stage(g, call')
  BY <1>1, InsertedStage, ConflictedStage
<1>3. Goto(p, g)
  BY DEF Insert, Inserted, Conflicted
<1> HIDE DEF g
<1>4. Moves(p, g)
  BY <1>2, <1>3, GotoMoves DEF Moves
<1> QED BY <1>1, <1>4 DEF g

Begun(c, u) == [Idle EXCEPT !.op = "register", !.pc = "insert", !.user = u, !.todo = call[c].keys,
                            !.new = call[c].pw, !.call = c]

\* A registration begins with the keys of its call.
LEMMA BeginMoves ==
    ASSUME TypeOK, Stages, CallsTied, NEW p \in Proc, NEW c \in Call, NEW u \in User, RegisterBegin(p, c, u)
    PROVE  Moves(p, Begun(c, u)) /\ CallsStay
<1> DEFINE g == Begun(c, u)
<1>1. call[c] \in CallRow /\ call[c].state = "open" /\ call \in [Call -> CallRow]
  BY DEF TypeOK, RegisterBegin
<1>2. PICK h \in Phone, e \in Email, n \in Name : call[c].keys = <<h, e, n>>
  BY <1>1 DEF CallsTied, CallKeys
<1>3. /\ g.op = "register" /\ g.pc = "insert" /\ g.user = u /\ g.todo = <<h, e, n>> /\ g.mine = {}
      /\ g.event = FALSE /\ g.call = c
  BY <1>2 DEF Begun, Idle
<1>4. g \in Flight
  <2>1. call[c].keys \in Seq(Key) /\ call[c].pw \in OptPassword
    BY <1>1 DEF CallRow
  <2> QED BY <2>1, IdleFields DEF Begun, Flight, OptUser
<1>5. call' = [call EXCEPT ![c].at = p, ![c].tries = @ + 1]
  BY DEF RegisterBegin
<1>6. \A d \in Call : call'[d].state = call[d].state /\ call'[d].keys = call[d].keys
  BY <1>1, <1>5 DEF CallRow
<1>7. Goto(p, g)
  BY DEF RegisterBegin, Begun
<1> HIDE DEF g
<1>8. Stage(g, call')
  BY <1>1, <1>2, <1>3, <1>4, <1>6 DEF Stage, RegisterStage, Registering, InTx
<1>9. Moves(p, g)
  BY <1>4, <1>7, <1>8, GotoMoves DEF Moves
<1> QED BY <1>6, <1>9 DEF g, CallsStay

\* The event is written in the transaction.
LEMMA EventMoves ==
    ASSUME TypeOK, Stages, NEW p \in Proc, AppendEvent(p)
    PROVE  Moves(p, [flight[p] EXCEPT !.event = TRUE, !.pc = "commit"])
<1> DEFINE f == flight[p]
           g == [f EXCEPT !.event = TRUE, !.pc = "commit"]
<1>1. f \in Flight /\ Stage(f, call) /\ f.pc = "event" /\ call' = call
  BY DEF TypeOK, Stages, AppendEvent, At
<1>2. /\ g.op = f.op /\ g.user = f.user /\ g.event = TRUE /\ g.key = f.key /\ g.call = f.call
      /\ g.todo = f.todo /\ g.mine = f.mine /\ g.pc = "commit" /\ g \in Flight
  BY <1>1 DEF Flight
<1>3. Goto(p, g)
  BY DEF AppendEvent
<1> HIDE DEF g
<1>4. ASSUME f.op = "register"
      PROVE  Stage(g, call')
  <2>1. RegisterStage(f, call)
    BY <1>1, <1>4 DEF Stage
  <2>2. RegisterStage(g, call')
    BY <1>1, <1>2, <2>1 DEF RegisterStage, Registering, Empty
  <2> QED BY <1>1, <1>2, <1>4, <2>2 DEF Stage, InTx
<1>5. ASSUME f.op # "register"
      PROVE  Stage(g, call')
  BY <1>1, <1>2, <1>5 DEF Stage, InTx, PhoneStage, WriteStage, RestStage, Empty
<1>6. Moves(p, g)
  BY <1>2, <1>3, <1>4, <1>5, GotoMoves DEF Moves
<1> QED BY <1>6 DEF g

Committed(f) == [f EXCEPT !.mine = {}, !.event = FALSE, !.pc = IF f.op = "phone" THEN "again" ELSE "done"]

\* The transaction commits.
LEMMA CommitMoves ==
    ASSUME TypeOK, Stages, NEW p \in Proc, Commit(p)
    PROVE  Moves(p, Committed(flight[p]))
<1> DEFINE f == flight[p]
           g == Committed(f)
<1>1. f \in Flight /\ Stage(f, call) /\ f.pc = "commit" /\ call' = call
  BY DEF TypeOK, Stages, Commit, At
<1>2. /\ g.op = f.op /\ g.user = f.user /\ g.event = FALSE /\ g.key = f.key /\ g.call = f.call
      /\ g.todo = f.todo /\ g.mine = {} /\ g.pc = IF f.op = "phone" THEN "again" ELSE "done"
  BY <1>1 DEF Committed, Flight
<1>3. g \in Flight
  BY <1>1 DEF Committed, Flight
<1>4. Goto(p, g)
  BY DEF Commit, Committed
<1> HIDE DEF g
<1>5. ASSUME f.op = "register"
      PROVE  Stage(g, call')
  <2>1. RegisterStage(f, call)
    BY <1>1, <1>5 DEF Stage
  <2>2. RegisterStage(g, call')
    BY <1>1, <1>2, <1>5, <2>1 DEF RegisterStage, Registering, Empty
  <2> QED BY <1>1, <1>2, <1>3, <1>5, <2>2 DEF Stage, InTx
<1>6. ASSUME f.op # "register"
      PROVE  Stage(g, call')
  BY <1>1, <1>2, <1>3, <1>6 DEF Stage, InTx, PhoneStage, WriteStage, RestStage, Empty
<1>7. Moves(p, g)
  BY <1>3, <1>4, <1>5, <1>6, GotoMoves DEF Moves
<1> QED BY <1>7 DEF g

\* A phone entry begins.
LEMMA PhoneBeginMoves ==
    ASSUME TypeOK, NEW p \in Proc, NEW h \in Phone, PhoneBegin(p, h)
    PROVE  Moves(p, [Idle EXCEPT !.op = "phone", !.pc = "find", !.key = h])
<1> DEFINE g == [Idle EXCEPT !.op = "phone", !.pc = "find", !.key = h]
<1>1. /\ g.op = "phone" /\ g.pc = "find" /\ g.key = h /\ g.todo = <<>> /\ g.mine = {} /\ g.event = FALSE
      /\ g.call = None /\ g \in Flight
  <2>1. <<>> \in Seq(Key) /\ {} \in SUBSET Key /\ h \in Key
    BY DEF Key
  <2> QED BY <2>1 DEF Idle, Flight, OptUser, OptPassword
<1>2. Goto(p, g)
  BY DEF PhoneBegin
<1> HIDE DEF g
<1>3. Stage(g, call')
  BY <1>1 DEF Stage, PhoneStage, Empty, InTx
<1>4. Moves(p, g)
  BY <1>1, <1>2, <1>3, GotoMoves DEF Moves
<1> QED BY <1>4 DEF g

\* A phone entry finds the owner of the phone.
LEMMA PhoneMoves ==
    ASSUME TypeOK, Stages, Known, NEW p \in Proc, PhoneFind(p) \/ PhoneAgain(p)
    PROVE  /\ Moves(p, [flight[p] EXCEPT !.user = identity[flight[p].key].user, !.pc = "done"])
           /\ identity[flight[p].key].user # None
           /\ flight[p].op = "phone" /\ flight[p].pc \in {"find", "again"}
<1> DEFINE f == flight[p]
           u == identity[f.key].user
           g == [f EXCEPT !.user = u, !.pc = "done"]
<1>1. f \in Flight /\ Stage(f, call) /\ f.pc \in {"find", "again"} /\ call' = call
  BY DEF TypeOK, Stages, PhoneFind, PhoneAgain, At
<1>2. f.op = "phone" /\ PhoneStage(f) /\ Empty(f) /\ f.event = FALSE
  BY <1>1 DEF Stage, PhoneStage, RegisterStage, Registering, WriteStage, RestStage
<1>3. u # None
  BY DEF Known, Knows, PhoneFind, PhoneAgain, At
<1>4. u \in OptUser
  BY <1>2 DEF TypeOK, IdentityRow, PhoneStage, Key
<1>5. Goto(p, g)
  BY <1>3 DEF PhoneFind, PhoneAgain
<1>6. /\ g.op = "phone" /\ g.pc = "done" /\ g.key = f.key /\ g.todo = <<>> /\ g.mine = {} /\ g.event = FALSE
      /\ g.call = None /\ g \in Flight
  BY <1>1, <1>2, <1>4 DEF Flight, PhoneStage, Empty
<1> HIDE DEF g
<1>7. Stage(g, call')
  BY <1>2, <1>6 DEF Stage, PhoneStage, Empty, InTx
<1>8. Moves(p, g)
  BY <1>5, <1>6, <1>7, GotoMoves DEF Moves
<1> QED BY <1>1, <1>2, <1>3, <1>8 DEF g

\* A phone entry finds no owner and registers the phone.
LEMMA PhoneRegisterMoves ==
    ASSUME TypeOK, Stages, NEW p \in Proc, NEW u \in User, PhoneRegister(p, u)
    PROVE  /\ Moves(p, [flight[p] EXCEPT !.user = u, !.todo = <<flight[p].key>>, !.pc = "insert"])
           /\ flight[p].op = "phone" /\ flight[p].mine = {} /\ flight[p].call = None
<1> DEFINE f == flight[p]
           g == [f EXCEPT !.user = u, !.todo = <<f.key>>, !.pc = "insert"]
<1>1. f \in Flight /\ Stage(f, call) /\ f.pc = "find" /\ call' = call
  BY DEF TypeOK, Stages, PhoneRegister, At
<1>2. f.op = "phone" /\ PhoneStage(f) /\ Empty(f) /\ f.event = FALSE /\ f.key \in Key
  BY <1>1 DEF Stage, PhoneStage, RegisterStage, Registering, WriteStage, RestStage, Key
<1>3. Goto(p, g)
  BY DEF PhoneRegister
<1>4. /\ g.op = "phone" /\ g.pc = "insert" /\ g.key = f.key /\ g.todo = <<f.key>> /\ g.mine = {}
      /\ g.event = FALSE /\ g.call = None /\ g.user = u /\ g \in Flight
  BY <1>1, <1>2, Tuples DEF Flight, PhoneStage, Empty, OptUser
<1> HIDE DEF g
<1>5. Stage(g, call')
  BY <1>2, <1>4 DEF Stage, PhoneStage, Empty, InTx
<1>6. Moves(p, g)
  BY <1>3, <1>4, <1>5, GotoMoves DEF Moves
<1> QED BY <1>2, <1>6 DEF g, PhoneStage, Empty

\* The row of a handler that has checked what it is about to write.
Checked(op, u, k, old, new) ==
    [Idle EXCEPT !.op = op, !.pc = "write", !.user = u, !.key = k, !.old = old, !.new = new]

\* After the read of BindEmail, SetPassword or ChangePassword.
LEMMA CheckedStage ==
    ASSUME NEW op \in {"bind", "set", "change"}, NEW u \in User, NEW k \in Email \cup {None},
           NEW old \in OptPassword, NEW new \in OptPassword, op = "bind" => k \in Email, NEW cl
    PROVE  Checked(op, u, k, old, new) \in Flight /\ Stage(Checked(op, u, k, old, new), cl)
<1> DEFINE g == Checked(op, u, k, old, new)
<1>1. /\ g.op = op /\ g.pc = "write" /\ g.key = k /\ g.todo = <<>> /\ g.mine = {} /\ g.event = FALSE
      /\ g.call = None /\ g \in Flight
  <2>1. <<>> \in Seq(Key) /\ {} \in SUBSET Key /\ k \in Key \cup {None}
    BY DEF Key
  <2> QED BY <2>1 DEF Checked, Idle, Flight, OptUser
<1> HIDE DEF g
<1>2. Stage(g, cl)
  BY <1>1 DEF Stage, WriteStage, Empty, InTx
<1> QED BY <1>1, <1>2 DEF g

\* BindEmail has listed the identities.
LEMMA BindReadMoves ==
    ASSUME TypeOK, NEW p \in Proc, NEW u \in User, NEW e \in Email, BindRead(p, u, e)
    PROVE  Moves(p, Checked("bind", u, e, None, None))
<1>1. Goto(p, Checked("bind", u, e, None, None))
  <2>1. [Idle EXCEPT !.op = "bind", !.pc = "write", !.user = u, !.key = e] = Checked("bind", u, e, None, None)
    BY IdleFields DEF Checked, Flight
  <2> QED BY <2>1 DEF BindRead
<1> QED BY <1>1, CheckedStage, GotoMoves DEF Moves, OptPassword

\* SetPassword has found no password.
LEMMA SetReadMoves ==
    ASSUME TypeOK, NEW p \in Proc, NEW u \in User, NEW w \in Password, SetRead(p, u, w)
    PROVE  Moves(p, Checked("set", u, None, None, w))
<1>1. Goto(p, Checked("set", u, None, None, w))
  <2>1. [Idle EXCEPT !.op = "set", !.pc = "write", !.user = u, !.new = w] = Checked("set", u, None, None, w)
    BY IdleFields DEF Checked, Flight
  <2> QED BY <2>1 DEF SetRead
<1> QED BY <1>1, CheckedStage, GotoMoves DEF Moves, OptPassword

\* ChangePassword has compared the old password with one of the user's hashes.
LEMMA ChangeReadMoves ==
    ASSUME TypeOK, NEW p \in Proc, NEW u \in User, NEW w \in Password, ChangeRead(p, u, w)
    PROVE  \E old \in Hashes(u) : Moves(p, Checked("change", u, None, old, w))
<1>1. PICK old \in Hashes(u) : Goto(p, Checked("change", u, None, old, w))
  <2>1. PICK old \in Hashes(u) :
          Goto(p, [Idle EXCEPT !.op = "change", !.pc = "write", !.user = u, !.old = old, !.new = w])
    BY DEF ChangeRead
  <2>2. [Idle EXCEPT !.op = "change", !.pc = "write", !.user = u, !.old = old, !.new = w]
          = Checked("change", u, None, old, w)
    BY IdleFields DEF Checked, Flight
  <2> QED BY <2>1, <2>2
<1>2. old \in OptPassword
  BY DEF Hashes, KeysOf, TypeOK, IdentityRow
<1> QED BY <1>1, <1>2, CheckedStage, GotoMoves DEF Moves, OptPassword

\* The write ends the request.
LEMMA WriteMoves ==
    ASSUME TypeOK, NEW p \in Proc, BindWrite(p) \/ PasswordWrite(p)
    PROVE  \E pc \in {"done", "refused"} : Moves(p, [Idle EXCEPT !.pc = pc])
<1>1. \E pc \in {"done", "refused"} :
        \E hit : GotoHitting(p, [Idle EXCEPT !.pc = pc], flight[p].user, hit)
  BY DEF BindWrite, PasswordWrite
<1>2. PICK pc \in {"done", "refused"} :
        \E hit : GotoHitting(p, [Idle EXCEPT !.pc = pc], flight[p].user, hit)
  BY <1>1
<1>3. [Idle EXCEPT !.pc = pc] \in Flight /\ Stage([Idle EXCEPT !.pc = pc], call')
  BY IdleRest
<1> QED BY <1>2, <1>3, GotoHittingMoves DEF Moves

-----------------------------------------------------------------------------
(* What a step of p does to the tables and to what the others know         *)

\* Owners stay, accounts are only added by the commit of p, and no key that
\* another transaction holds gets an owner.
Tables(p) ==
    /\ \A k \in Key : identity[k].user # None => identity'[k].user = identity[k].user
    /\ account \subseteq account' /\ drawn \subseteq drawn'
    /\ \A u \in account' : u \notin account => InTx(flight[p]) /\ u = flight[p].user
    /\ \A q \in Proc : q # p => \A k \in flight[q].mine : identity'[k].user = None
    /\ \A u \in account : maker'[u] = maker[u]

Quiet == identity' = identity /\ account' = account /\ maker' = maker /\ drawn \subseteq drawn'

Distinct(p, g) ==
    \A q \in Proc : q # p =>
        /\ g.mine \cap flight[q].mine = {}
        /\ InTx(g) /\ InTx(flight[q]) => g.user # flight[q].user

StepOK(p, g) ==
    Moves(p, g) /\ Knows(g, account', identity', drawn', maker') /\ Distinct(p, g) /\ Tables(p)

\* A step that leaves the tables alone is no news to anybody.
LEMMA QuietTables ==
    ASSUME Known, Quiet, NEW p \in Proc
    PROVE  Tables(p)
BY DEF Known, Knows, Quiet, Tables

\* What a handler knows survives the steps of the others.
LEMMA SameKnows ==
    ASSUME TypeOK, NEW p \in Proc, NEW q \in Proc, q # p, Known, Apart, Tables(p), Stages,
           NEW g \in Flight, SameFields(flight[q], g)
    PROVE  Knows(g, account', identity', drawn', maker')
<1> DEFINE f == flight[q]
<1>1. Knows(f, account, identity, drawn, maker) /\ Stage(f, call)
  BY DEF Known, Stages
<1>2. InTx(f) => f.user \in drawn' /\ f.user \notin account'
  BY <1>1 DEF Knows, Tables, Apart
<1>3. \A k \in f.mine : identity'[k].user = None
  BY DEF Tables
<1>4. f.pc = "write" => f.user \in account'
  BY <1>1 DEF Knows, Tables
<1>5. f.pc = "again" => identity'[f.key].user # None
  BY <1>1 DEF Knows, Tables, Stage, RegisterStage, Registering, PhoneStage, WriteStage, RestStage, Key
<1>6. f.op = "phone" /\ f.pc = "done" => f.user \in account' /\ identity'[f.key].user = f.user
  <2>1. SUFFICES ASSUME f.op = "phone", f.pc = "done"
                 PROVE  f.user \in account' /\ identity'[f.key].user = f.user
    OBVIOUS
  <2>2. f.key \in Key /\ f.user \in account /\ identity[f.key].user = f.user
    BY <1>1, <2>1 DEF Knows, Stage, PhoneStage, Key
  <2>3. f.user # None
    BY <2>2, NoneAssumption DEF TypeOK
  <2> QED BY <2>2, <2>3 DEF Tables
<1>7. f.op = "register" /\ f.pc = "done" => f.user \in account' /\ maker'[f.user] = f.call
  BY <1>1 DEF Knows, Tables
<1> QED BY <1>2, <1>3, <1>4, <1>5, <1>6, <1>7 DEF Knows, SameFields, InTx

\* A step in order, with its knowledge, keeps the first half of the invariant.
LEMMA StepNext ==
    ASSUME TypeOK, Stages, Known, Apart, CallsStay, NEW p \in Proc, NEW g, StepOK(p, g)
    PROVE  Stages' /\ Known' /\ Apart' /\ flight' \in [Proc -> Flight]
<1>1. ASSUME NEW q \in Proc, q # p
      PROVE  flight'[q] \in Flight /\ SameFields(flight[q], flight'[q])
  BY <1>1, TouchedSame DEF StepOK, Moves, Others, TypeOK
<1>2. flight'[p] = g /\ g \in Flight /\ Stage(g, call') /\ flight' \in [Proc -> Flight]
  BY DEF StepOK, Moves
<1>3. Stages'
  BY <1>2, StagesNext DEF StepOK, Moves
<1>4. Known'
  <2>1. ASSUME NEW q \in Proc
        PROVE  Knows(flight'[q], account', identity', drawn', maker')
    <3>1. CASE q = p
      BY <1>2, <3>1 DEF StepOK
    <3>2. CASE q # p
      BY <1>1, <3>2, SameKnows DEF StepOK
    <3> QED BY <3>1, <3>2
  <2> QED BY <2>1 DEF Known
<1>5. Apart'
  <2>1. SUFFICES ASSUME NEW q \in Proc, NEW r \in Proc, q # r
                 PROVE  /\ flight'[q].mine \cap flight'[r].mine = {}
                        /\ InTx(flight'[q]) /\ InTx(flight'[r]) => flight'[q].user # flight'[r].user
    BY DEF Apart
  <2>2. CASE q # p /\ r # p
    BY <1>1, <2>1, <2>2 DEF Apart, InTx, SameFields
  <2>3. CASE q = p
    BY <1>1, <1>2, <2>1, <2>3 DEF StepOK, Distinct, InTx, SameFields
  <2>4. CASE r = p
    BY <1>1, <1>2, <2>1, <2>4 DEF StepOK, Distinct, InTx, SameFields
  <2> QED BY <2>2, <2>3, <2>4
<1> QED BY <1>2, <1>3, <1>4, <1>5

-----------------------------------------------------------------------------
(* The steps of p, one by one                                              *)

\* A handler that is back at rest knows nothing and holds nothing.
LEMMA RestOK ==
    ASSUME Known, NEW p \in Proc, NEW g, Moves(p, g), Tables(p), g.op = "none"
    PROVE  StepOK(p, g)
<1>1. g.mine = {} /\ ~InTx(g) /\ g.pc \in {"idle", "done", "refused"}
  BY DEF Moves, Stage, RestStage, Empty, InTx
<1> QED BY <1>1 DEF StepOK, Knows, Distinct, InTx

\* Insert is such a step.
LEMMA InsertOK ==
    ASSUME TypeOK, Stages, Known, Apart, NEW p \in Proc, Insert(p)
    PROVE  StepOK(p, IF identity[Head(flight[p].todo)].user = None THEN Inserted(flight[p])
                     ELSE Conflicted(flight[p])) /\ Quiet
<1> DEFINE f == flight[p]
           k == Head(f.todo)
<1>1. f \in Flight /\ Stage(f, call) /\ f.pc = "insert" /\ Knows(f, account, identity, drawn, maker)
  BY DEF TypeOK, Stages, Known, Insert, At
<1>2. Quiet /\ Tables(p)
  <2>1. Quiet
    BY DEF Insert, Quiet
  <2> QED BY <2>1, QuietTables
<1>3. k \in Key /\ f.op \in {"register", "phone"} /\ (f.op = "phone" => k = f.key)
  BY <1>1, InsertFacts
<1>4. InTx(f) /\ \A q \in Proc : q # p => k \notin flight[q].mine
  BY <1>1 DEF Insert, Holds, InTx
<1>5. CASE identity[k].user = None
  <2> DEFINE g == Inserted(f)
  <2>1. Moves(p, g)
    BY <1>5, InsertMoves
  <2>2. g.op = f.op /\ g.user = f.user /\ g.mine = f.mine \cup {k} /\ g.pc \in {"insert", "event"}
    BY <1>1 DEF Inserted, Flight
  <2> HIDE DEF g
  <2>3. Knows(g, account', identity', drawn', maker')
    BY <1>1, <1>2, <1>4, <1>5, <2>2 DEF Knows, InTx, Quiet
  <2>4. Distinct(p, g)
    BY <1>4, <2>2 DEF Distinct, Apart
  <2>5. StepOK(p, g)
    BY <1>2, <2>1, <2>3, <2>4 DEF StepOK
  <2> QED BY <1>2, <1>5, <2>5 DEF g
<1>6. CASE identity[k].user # None
  <2> DEFINE g == Conflicted(f)
  <2>1. Moves(p, g)
    BY <1>6, InsertMoves
  <2>2. /\ g.op = f.op /\ g.key = f.key /\ g.mine = {}
        /\ g.pc = IF f.op = "phone" THEN "again" ELSE "refused"
    BY <1>1 DEF Conflicted, Flight
  <2> HIDE DEF g
  <2>3. Knows(g, account', identity', drawn', maker') /\ Distinct(p, g)
    BY <1>2, <1>3, <1>6, <2>2 DEF Knows, InTx, Quiet, Distinct
  <2>4. StepOK(p, g)
    BY <1>2, <2>1, <2>3 DEF StepOK
  <2> QED BY <1>2, <1>6, <2>4 DEF g
<1> QED BY <1>5, <1>6

\* So is the begin of a registration.
LEMMA BeginOK ==
    ASSUME TypeOK, Stages, Known, Owned, CallsTied,
           NEW p \in Proc, NEW c \in Call, NEW u \in User, RegisterBegin(p, c, u)
    PROVE  StepOK(p, Begun(c, u)) /\ Quiet /\ CallsStay
<1> DEFINE g == Begun(c, u)
<1>1. Moves(p, g) /\ CallsStay
  BY BeginMoves
<1>2. g.op = "register" /\ g.pc = "insert" /\ g.user = u /\ g.mine = {}
  BY IdleFields DEF Begun, Flight
<1>3. Quiet /\ u \notin drawn /\ u \in drawn'
  BY DEF RegisterBegin, Quiet
<1> HIDE DEF g
<1>4. u \notin account
  BY <1>3 DEF Owned
<1>5. Knows(g, account', identity', drawn', maker')
  BY <1>2, <1>3, <1>4 DEF Knows, InTx, Quiet
<1>6. Distinct(p, g)
  BY <1>2, <1>3 DEF Distinct, Known, Knows
<1>7. StepOK(p, g)
  BY <1>1, <1>3, <1>5, <1>6, QuietTables DEF StepOK
<1> QED BY <1>1, <1>3, <1>7 DEF g

\* So is the event.
LEMMA EventOK ==
    ASSUME TypeOK, Stages, Known, Apart, NEW p \in Proc, AppendEvent(p)
    PROVE  StepOK(p, [flight[p] EXCEPT !.event = TRUE, !.pc = "commit"]) /\ Quiet
<1> DEFINE f == flight[p]
           g == [f EXCEPT !.event = TRUE, !.pc = "commit"]
<1>1. Moves(p, g)
  BY EventMoves
<1>2. f \in Flight /\ f.pc = "event" /\ Knows(f, account, identity, drawn, maker)
  BY DEF TypeOK, Known, AppendEvent, At
<1>3. g.user = f.user /\ g.mine = f.mine /\ g.pc = "commit"
  BY <1>2 DEF Flight
<1>4. Quiet
  BY DEF AppendEvent, Quiet
<1> HIDE DEF g
<1>5. Knows(g, account', identity', drawn', maker')
  BY <1>2, <1>3, <1>4 DEF Knows, InTx, Quiet
<1>6. Distinct(p, g)
  BY <1>2, <1>3 DEF Distinct, Apart, InTx
<1>7. StepOK(p, g)
  BY <1>1, <1>4, <1>5, <1>6, QuietTables DEF StepOK
<1> QED BY <1>4, <1>7 DEF g

\* What a commit writes, and that it touches no row of another user.
LEMMA CommitTables ==
    ASSUME TypeOK, Stages, Known, NEW p \in Proc, Commit(p)
    PROVE  LET f == flight[p] IN
           /\ f \in Flight /\ f.pc = "commit" /\ f.event /\ InTx(f) /\ f.user \in User
           /\ f.user \notin account /\ f.user \in drawn /\ f.mine \in SUBSET Key
           /\ account' = account \cup {f.user} /\ drawn' = drawn /\ outbox' = Append(outbox, f.user)
           /\ maker' = [maker EXCEPT ![f.user] = f.call] /\ call' = call
           /\ \A k \in f.mine : identity[k].user = None
           /\ identity' \in [Key -> IdentityRow]
           /\ \A k \in Key : identity'[k] = IF k \in f.mine THEN [user |-> f.user, hash |-> f.new]
                                            ELSE identity[k]
<1> DEFINE f == flight[p]
<1>1. f \in Flight /\ f.pc = "commit" /\ Stage(f, call) /\ Knows(f, account, identity, drawn, maker)
  BY DEF TypeOK, Stages, Known, Commit, At
<1>2. InTx(f) /\ f.event /\ f.user \in User /\ f.mine \in SUBSET Key
  BY <1>1 DEF Stage, InTx, Flight
<1>3. f.user \notin account /\ f.user \in drawn /\ \A k \in f.mine : identity[k].user = None
  BY <1>1, <1>2 DEF Knows
<1>4. /\ account' = account \cup {f.user} /\ drawn' = drawn /\ outbox' = Append(outbox, f.user)
      /\ maker' = [maker EXCEPT ![f.user] = f.call] /\ call' = call
      /\ identity' = [k \in Key |-> IF k \in f.mine THEN [user |-> f.user, hash |-> f.new] ELSE identity[k]]
  BY <1>2 DEF Commit
<1>5. [user |-> f.user, hash |-> f.new] \in IdentityRow
  BY <1>1 DEF Flight, IdentityRow
<1>6. identity' \in [Key -> IdentityRow]
  BY <1>4, <1>5 DEF TypeOK
<1>7. \A k \in Key : identity'[k] = IF k \in f.mine THEN [user |-> f.user, hash |-> f.new] ELSE identity[k]
  BY <1>4
<1> QED BY <1>1, <1>2, <1>3, <1>4, <1>6, <1>7

\* A commit is such a step.
LEMMA CommitOK ==
    ASSUME TypeOK, Stages, Known, Apart, NEW p \in Proc, Commit(p)
    PROVE  StepOK(p, Committed(flight[p]))
<1> DEFINE f == flight[p]
           g == Committed(f)
<1>1. Moves(p, g)
  BY CommitMoves
<1>2. /\ f \in Flight /\ f.pc = "commit" /\ InTx(f) /\ f.user \in User
      /\ f.user \notin account /\ f.user \in drawn /\ f.mine \in SUBSET Key
      /\ account' = account \cup {f.user} /\ drawn' = drawn
      /\ maker' = [maker EXCEPT ![f.user] = f.call]
      /\ \A k \in f.mine : identity[k].user = None
      /\ \A k \in Key : identity'[k] = IF k \in f.mine THEN [user |-> f.user, hash |-> f.new]
                                       ELSE identity[k]
  BY CommitTables
<1>3. /\ g.op = f.op /\ g.user = f.user /\ g.key = f.key /\ g.call = f.call /\ g.mine = {}
      /\ g.pc = IF f.op = "phone" THEN "again" ELSE "done"
  BY <1>2 DEF Committed, Flight
<1>4. Stage(f, call)
  BY DEF Stages
<1> HIDE DEF g
<1>5. Tables(p)
  <2>1. \A k \in Key : identity[k].user # None => identity'[k].user = identity[k].user
    BY <1>2
  <2>2. ASSUME NEW q \in Proc, q # p, NEW k \in flight[q].mine
        PROVE  identity'[k].user = None
    <3>1. k \in Key /\ identity[k].user = None /\ k \notin f.mine
      BY <2>2 DEF Known, Knows, Apart, TypeOK, Flight
    <3> QED BY <1>2, <3>1
  <2>3. \A u \in account : maker'[u] = maker[u]
    BY <1>2 DEF TypeOK
  <2> QED BY <1>2, <2>1, <2>2, <2>3 DEF Tables
<1>6. f.op = "phone" => f.key \in f.mine
  BY <1>2, <1>4 DEF Stage, PhoneStage, Empty
<1>7. g.pc = "again" => identity'[g.key].user # None
  BY <1>2, <1>3, <1>6, NoneAssumption
<1>8. maker'[f.user] = f.call
  BY <1>2 DEF TypeOK
<1>9. Knows(g, account', identity', drawn', maker')
  BY <1>2, <1>3, <1>7, <1>8 DEF Knows, InTx
<1>10. Distinct(p, g)
  BY <1>3 DEF Distinct, InTx
<1>11. StepOK(p, g)
  BY <1>1, <1>5, <1>9, <1>10 DEF StepOK
<1> QED BY <1>11 DEF g

\* So is the begin of a phone entry.
LEMMA PhoneBeginOK ==
    ASSUME TypeOK, Known, NEW p \in Proc, NEW h \in Phone, PhoneBegin(p, h)
    PROVE  StepOK(p, [Idle EXCEPT !.op = "phone", !.pc = "find", !.key = h]) /\ Quiet
<1> DEFINE g == [Idle EXCEPT !.op = "phone", !.pc = "find", !.key = h]
<1>1. Moves(p, g)
  BY PhoneBeginMoves
<1>2. g.op = "phone" /\ g.pc = "find" /\ g.mine = {}
  BY IdleFields DEF Flight
<1>3. Quiet
  BY DEF PhoneBegin, Quiet
<1> HIDE DEF g
<1>4. StepOK(p, g)
  BY <1>1, <1>2, <1>3, QuietTables DEF StepOK, Knows, Distinct, InTx
<1> QED BY <1>3, <1>4 DEF g

\* The user a phone entry has found exists.
LEMMA PhoneOK ==
    ASSUME TypeOK, Stages, Known, Owned, NEW p \in Proc, PhoneFind(p) \/ PhoneAgain(p)
    PROVE  StepOK(p, [flight[p] EXCEPT !.user = identity[flight[p].key].user, !.pc = "done"]) /\ Quiet
<1> DEFINE f == flight[p]
           u == identity[f.key].user
           g == [f EXCEPT !.user = u, !.pc = "done"]
<1>1. Moves(p, g) /\ u # None /\ f.op = "phone" /\ f.pc \in {"find", "again"}
  BY PhoneMoves
<1>2. f \in Flight /\ Stage(f, call)
  BY DEF TypeOK, Stages
<1>3. f.key \in Key /\ f.mine = {}
  BY <1>1, <1>2 DEF Stage, PhoneStage, Empty, Key
<1>4. g.op = "phone" /\ g.pc = "done" /\ g.mine = {} /\ g.user = u /\ g.key = f.key
  BY <1>1, <1>2, <1>3 DEF Flight
<1>5. Quiet
  BY DEF PhoneFind, PhoneAgain, Quiet
<1> HIDE DEF g
<1>6. u \in account
  BY <1>1, <1>3 DEF Owned
<1>7. Knows(g, account', identity', drawn', maker') /\ Distinct(p, g)
  BY <1>4, <1>5, <1>6 DEF Knows, Distinct, InTx, Quiet
<1>8. StepOK(p, g)
  BY <1>1, <1>5, <1>7, QuietTables DEF StepOK
<1> QED BY <1>5, <1>8 DEF g

\* The id of a new user is fresh.
LEMMA PhoneRegisterOK ==
    ASSUME TypeOK, Stages, Known, Owned, NEW p \in Proc, NEW u \in User, PhoneRegister(p, u)
    PROVE  StepOK(p, [flight[p] EXCEPT !.user = u, !.todo = <<flight[p].key>>, !.pc = "insert"]) /\ Quiet
<1> DEFINE f == flight[p]
           g == [f EXCEPT !.user = u, !.todo = <<f.key>>, !.pc = "insert"]
<1>1. Moves(p, g) /\ f.op = "phone" /\ f.mine = {}
  BY PhoneRegisterMoves
<1>2. f \in Flight
  BY DEF TypeOK
<1>3. g.op = "phone" /\ g.pc = "insert" /\ g.mine = {} /\ g.user = u
  BY <1>1, <1>2 DEF Flight
<1>4. Quiet /\ u \notin drawn /\ u \in drawn' /\ u \notin account
  BY DEF PhoneRegister, Quiet, Owned
<1> HIDE DEF g
<1>5. Knows(g, account', identity', drawn', maker')
  BY <1>3, <1>4 DEF Knows, InTx, Quiet
<1>6. Distinct(p, g)
  BY <1>3, <1>4 DEF Distinct, Known, Knows
<1>7. StepOK(p, g)
  BY <1>1, <1>4, <1>5, <1>6, QuietTables DEF StepOK
<1> QED BY <1>4, <1>7 DEF g

\* BindRead, SetRead and ChangeRead end like this.
LEMMA CheckedOK ==
    ASSUME Known, Quiet, NEW p \in Proc, NEW op \in {"bind", "set", "change"}, NEW u \in account,
           NEW k, NEW old, NEW new, Moves(p, Checked(op, u, k, old, new))
    PROVE  StepOK(p, Checked(op, u, k, old, new))
<1> DEFINE g == Checked(op, u, k, old, new)
<1>1. g.op = op /\ g.pc = "write" /\ g.user = u /\ g.mine = {}
  BY IdleFields DEF Checked, Flight
<1>2. Moves(p, g)
  OBVIOUS
<1> HIDE DEF g
<1>3. StepOK(p, g)
  BY <1>1, <1>2, QuietTables DEF StepOK, Knows, Distinct, InTx, Quiet
<1> QED BY <1>3 DEF g

\* Bind and password writes touch rows of the user they are for only.
LEMMA WriteTables ==
    ASSUME TypeOK, Stages, Known, Owned, NEW p \in Proc, BindWrite(p) \/ PasswordWrite(p)
    PROVE  /\ Tables(p)
           /\ identity' \in [Key -> IdentityRow]
           /\ flight[p].pc = "write" /\ flight[p].user \in account /\ flight[p].call = None
           /\ account' = account /\ maker' = maker /\ call' = call /\ drawn' = drawn /\ outbox' = outbox
<1> DEFINE f == flight[p]
<1>1. f \in Flight /\ Stage(f, call) /\ f.pc = "write" /\ Knows(f, account, identity, drawn, maker)
  BY DEF TypeOK, Stages, Known, BindWrite, PasswordWrite, At
<1>2. f.user \in account /\ f.user \in User /\ f.call = None /\ (f.op = "bind" => f.key \in Key)
  BY <1>1 DEF Knows, TypeOK, Stage, RegisterStage, Registering, PhoneStage, WriteStage, RestStage, Key
<1>3. account' = account /\ maker' = maker /\ call' = call /\ drawn' = drawn /\ outbox' = outbox
  BY DEF BindWrite, PasswordWrite
<1>4. /\ identity' \in [Key -> IdentityRow]
      /\ \A k \in Key : identity'[k].user = identity[k].user
                        \/ (identity[k].user = None /\ \A q \in Proc : q # p => k \notin flight[q].mine)
  <2>1. CASE BindWrite(p)
    <3>1. CASE identity[f.key].user = None
      <4>1. identity' = [identity EXCEPT ![f.key] = [user |-> f.user, hash |-> None]]
        BY <2>1, <3>1 DEF BindWrite
      <4>2. [user |-> f.user, hash |-> None] \in IdentityRow
        BY <1>2 DEF IdentityRow, OptUser, OptPassword
      <4>3. \A q \in Proc : q # p => f.key \notin flight[q].mine
        BY <2>1 DEF BindWrite, Holds
      <4>4. f.key \in Key
        BY <1>2, <2>1 DEF BindWrite
      <4> QED BY <3>1, <4>1, <4>2, <4>3, <4>4 DEF TypeOK
    <3>2. CASE identity[f.key].user # None
      BY <2>1, <3>2 DEF BindWrite, TypeOK
    <3> QED BY <3>1, <3>2
  <2>2. CASE PasswordWrite(p)
    <3>1. identity' = [k \in Key |-> IF k \in KeysOf(f.user) THEN [identity[k] EXCEPT !.hash = f.new]
                                     ELSE identity[k]]
      BY <2>2 DEF PasswordWrite
    <3>2. \A k \in Key : /\ [identity[k] EXCEPT !.hash = f.new] \in IdentityRow
                         /\ [identity[k] EXCEPT !.hash = f.new].user = identity[k].user
      BY ZenonT(60), <1>1 DEF TypeOK, IdentityRow, Flight
    <3> QED BY <3>1, <3>2 DEF TypeOK
  <2> QED BY <2>1, <2>2
<1>5. Tables(p)
  <2>1. ASSUME NEW q \in Proc, q # p, NEW k \in flight[q].mine
        PROVE  identity'[k].user = None
    <3>1. k \in Key /\ identity[k].user = None
      BY DEF Known, Knows, TypeOK, Flight
    <3> QED BY <1>4, <2>1, <3>1
  <2> QED BY <1>3, <1>4, <2>1 DEF Tables
<1> QED BY <1>1, <1>2, <1>3, <1>4, <1>5

\* A write is such a step.
LEMMA WriteOK ==
    ASSUME TypeOK, Stages, Known, Owned, NEW p \in Proc, BindWrite(p) \/ PasswordWrite(p)
    PROVE  \E pc \in {"done", "refused"} : StepOK(p, [Idle EXCEPT !.pc = pc])
<1>1. PICK pc \in {"done", "refused"} : Moves(p, [Idle EXCEPT !.pc = pc])
  BY WriteMoves
<1>2. [Idle EXCEPT !.pc = pc].op = "none"
  BY IdleFields DEF Flight
<1> QED BY <1>1, <1>2, RestOK, WriteTables

\* So is the end of a request.
LEMMA EndOK ==
    ASSUME TypeOK, Known, NEW p \in Proc, Respond(p) \/ Crash(p)
    PROVE  StepOK(p, Idle) /\ Quiet
<1>1. Goto(p, Idle) /\ Quiet
  BY DEF Respond, Crash, Quiet
<1>2. Moves(p, Idle) /\ Tables(p)
  BY <1>1, ToRest, QuietTables
<1> QED BY <1>1, <1>2, RestOK, IdleFields

-----------------------------------------------------------------------------
(* Register calls                                                          *)

\* A step that leaves calls and accounts alone, of a handler that has no answer to
\* a call in hand.
LEMMA CallsQuiet ==
    ASSUME TypeOK, CallsTied, Makers, NEW p \in Proc, NEW g, Moves(p, g), Tables(p),
           call' = call, account' = account, maker' = maker, g.call = flight[p].call,
           flight[p].call = None \/ flight[p].pc # "done"
    PROVE  CallsTied' /\ Makers'
<1>1. \A q \in Proc : flight'[q].call = flight[q].call /\ (q # p => flight'[q].pc = flight[q].pc)
  BY TouchedSame DEF Moves, Others, TypeOK, SameFields
<1>2. \A c \in Call : call[c].at # None => call[c].at \in Proc
  BY DEF TypeOK, CallRow
<1>3. CallsTied'
  BY <1>1, <1>2 DEF CallsTied
<1>4. ASSUME NEW u \in account, maker[u] \in Call
      PROVE  LET c == maker[u] IN
             /\ call[c].state # "new" /\ identity'[call[c].keys[1]].user = u
             /\ call[c].lost \/ call[c].state = "ok" \/ (call[c].at # None /\ flight'[call[c].at].pc = "done")
  <2> DEFINE c == maker[u]
  <2>1. call[c].state # "new" /\ identity[call[c].keys[1]].user = u
    BY <1>4 DEF Makers
  <2>2. call[c].keys[1] \in Key
    <3>1. PICK h \in Phone, e \in Email, n \in Name : call[c].keys = <<h, e, n>>
      BY <1>4, <2>1 DEF CallsTied, CallKeys
    <3> QED BY <3>1 DEF Key
  <2>3. identity'[call[c].keys[1]].user = u
    BY <2>1, <2>2, NoneAssumption DEF Tables, TypeOK
  <2>4. ASSUME call[c].at # None, flight[call[c].at].pc = "done"
        PROVE  flight'[call[c].at].pc = "done"
    <3>1. flight[call[c].at].call = c /\ c # None
      BY <1>4, <2>4, NoneAssumption DEF CallsTied
    <3>2. call[c].at # p
      BY <2>4, <3>1
    <3> QED BY <1>1, <1>2, <1>4, <2>4, <3>2
  <2> QED BY <1>4, <2>1, <2>3, <2>4 DEF Makers
<1>5. Makers'
  BY <1>4 DEF Makers
<1> QED BY <1>3, <1>5

\* What Respond, Crash and LoseAnswer do to the call they end.
Ended(c) ==
    /\ call' \in [Call -> CallRow]
    /\ \A d \in Call : d # c => call'[d] = call[d]
    /\ call'[c].at = None /\ call'[c].keys = call[c].keys
    /\ call'[c].state # "new" /\ call[c].state = "open"
    /\ call[c].lost => call'[c].lost

\* A call that gets no answer is marked lost.
LEMMA NoAnswerEnds ==
    ASSUME TypeOK, CallsTied, NEW c \in Call, call[c].at # None, NoAnswer(c)
    PROVE  Ended(c) /\ call'[c].lost /\ call'[c].state # "ok"
<1>1. PICK state \in {"open", "failed"} :
        call' = [call EXCEPT ![c].at = None, ![c].lost = TRUE, ![c].state = state]
  BY DEF NoAnswer
<1>2. call[c] \in CallRow /\ call \in [Call -> CallRow]
  BY DEF TypeOK
<1>3. call'[c] = [call[c] EXCEPT !.at = None, !.lost = TRUE, !.state = state]
  BY <1>1, <1>2
<1>4. /\ call'[c] \in CallRow /\ call'[c].at = None /\ call'[c].lost = TRUE /\ call'[c].state = state
      /\ call'[c].keys = call[c].keys
  BY <1>2, <1>3 DEF CallRow
<1>5. \A d \in Call : d # c => call'[d] = call[d]
  BY <1>1, <1>2
<1>6. call' \in [Call -> CallRow]
  <2>1. call' = [d \in Call |-> call'[d]]
    BY <1>1, <1>2
  <2> QED BY <1>2, <1>4, <1>5, <2>1
<1>7. call[c].state = "open"
  BY DEF CallsTied
<1> QED BY <1>4, <1>5, <1>6, <1>7 DEF Ended

\* An answer settles its call.
LEMMA RespondEnds ==
    ASSUME TypeOK, CallsTied, NEW p \in Proc, Respond(p), flight[p].call # None, call[flight[p].call].at = p
    PROVE  /\ flight[p].call \in Call /\ Ended(flight[p].call)
           /\ call'[flight[p].call].state = IF flight[p].pc = "done" THEN "ok" ELSE "refused"
           /\ call'[flight[p].call].lost = call[flight[p].call].lost
<1> DEFINE c == flight[p].call
           state == IF flight[p].pc = "done" THEN "ok" ELSE "refused"
<1>1. c \in Call
  BY DEF TypeOK, Flight
<1>2. call' = [call EXCEPT ![c].at = None, ![c].state = state]
  BY DEF Respond
<1>3. call[c] \in CallRow /\ call \in [Call -> CallRow] /\ state \in {"ok", "refused"}
  BY <1>1 DEF TypeOK
<1>4. call[c].state = "open"
  BY <1>1, NoneAssumption DEF CallsTied
<1> HIDE DEF c, state
<1>5. call'[c] = [call[c] EXCEPT !.at = None, !.state = state]
  BY <1>1, <1>2, <1>3
<1>6. /\ call'[c] \in CallRow /\ call'[c].at = None /\ call'[c].lost = call[c].lost /\ call'[c].state = state
      /\ call'[c].keys = call[c].keys
  BY <1>3, <1>5 DEF CallRow
<1>7. \A d \in Call : d # c => call'[d] = call[d]
  BY <1>2, <1>3
<1>8. call' \in [Call -> CallRow]
  <2>1. call' = [d \in Call |-> call'[d]]
    BY <1>2, <1>3
  <2> QED BY <1>3, <1>6, <1>7, <2>1
<1>9. Ended(c)
  BY <1>3, <1>4, <1>6, <1>7, <1>8 DEF Ended
<1> QED BY <1>1, <1>6, <1>9 DEF c, state

\* The handler p of call c ends, or its answer is lost: if c ends in "ok", or
\* without a lost answer, it is known who made what.
LEMMA EndedNext ==
    ASSUME TypeOK, CallsTied, Makers, NEW c \in Call, Ended(c), account' = account, maker' = maker,
           identity' = identity,
           NEW p \in Proc,
           \A q \in Proc : /\ q # p => flight'[q].call = flight[q].call /\ flight'[q].pc = flight[q].pc
                           /\ flight'[q].call \in {None, flight[q].call},
           flight[p].call # c => flight'[p].call = flight[p].call /\ flight'[p].pc = flight[p].pc,
           call'[c].state = "ok" => \E u \in account : maker[u] = c,
           call'[c].lost \/ ( /\ call[c].at = p /\ flight'[p].call = None
                              /\ flight[p].pc = "done" => call'[c].state = "ok" )
    PROVE  CallsTied' /\ Makers'
<1>1. \A d \in Call : call[d].at # None => call[d].at \in Proc /\ call[d].state = "open" /\ flight[call[d].at].call = d
  BY DEF TypeOK, CallRow, CallsTied
<1>2. ASSUME NEW d \in Call
      PROVE  /\ call'[d].state = "new" => call'[d].at = None /\ ~call'[d].lost
             /\ call'[d].state # "new" => CallKeys(call'[d])
             /\ call'[d].at # None => call'[d].state = "open" /\ flight'[call'[d].at].call = d
             /\ ~call'[d].lost => \A q \in Proc : flight'[q].call = d => call'[d].at = q
             /\ call'[d].state = "ok" => \E u \in account : maker[u] = d
  <2>1. CASE d = c
    <3>1. CallKeys(call'[d])
      BY <2>1 DEF Ended, CallsTied, CallKeys
    <3>2. ~call'[d].lost => \A q \in Proc : flight'[q].call # d
      BY <1>1, <2>1, NoneAssumption DEF Ended, CallsTied
    <3> QED BY <2>1, <3>1, <3>2 DEF Ended
  <2>2. CASE d # c
    <3>1. call'[d] = call[d]
      BY <2>2 DEF Ended
    <3>2. call[d].at # None => flight'[call[d].at].call = d
      BY <1>1, <2>2
    <3>3. \A q \in Proc : flight'[q].call = d => flight[q].call = d
      BY NoneAssumption
    <3> QED BY <3>1, <3>2, <3>3 DEF CallsTied
  <2> QED BY <2>1, <2>2
<1>3. CallsTied'
  BY <1>2 DEF CallsTied
<1>4. ASSUME NEW u \in account, maker[u] \in Call
      PROVE  LET d == maker[u] IN
             /\ call'[d].state # "new" /\ identity[call'[d].keys[1]].user = u
             /\ call'[d].lost \/ call'[d].state = "ok" \/ (call'[d].at # None /\ flight'[call'[d].at].pc = "done")
  <2> DEFINE d == maker[u]
  <2>1. /\ call[d].state # "new" /\ identity[call[d].keys[1]].user = u
        /\ call[d].lost \/ call[d].state = "ok" \/ (call[d].at # None /\ flight[call[d].at].pc = "done")
    BY <1>4 DEF Makers
  <2>2. CASE d = c
    BY <1>1, <2>1, <2>2 DEF Ended
  <2>3. CASE d # c
    <3>1. call'[d] = call[d]
      BY <1>4, <2>3 DEF Ended
    <3>2. call[d].at # None => flight'[call[d].at].pc = flight[call[d].at].pc
      BY <1>1, <1>4, <2>3
    <3> QED BY <2>1, <3>1, <3>2
  <2> QED BY <2>2, <2>3
<1>5. Makers'
  BY <1>4 DEF Makers
<1> QED BY <1>3, <1>5

\* Nobody waits for the answer of p any more.
LEMMA DroppedNext ==
    ASSUME TypeOK, CallsTied, Makers, NEW p \in Proc, Moves(p, Idle), Quiet, call' = call,
           \A c \in Call : call[c].at # p
    PROVE  CallsTied' /\ Makers'
<1>1. /\ \A q \in Proc : q # p => flight'[q].call = flight[q].call /\ flight'[q].pc = flight[q].pc
      /\ flight'[p].call = None
  BY TouchedSame, IdleFields DEF Moves, Others, TypeOK, SameFields
<1>2. \A c \in Call : call[c].at # None => call[c].at \in Proc /\ call[c].at # p
  BY DEF TypeOK, CallRow
<1>3. CallsTied'
  BY <1>1, <1>2, NoneAssumption DEF CallsTied, Quiet
<1>4. Makers'
  BY <1>1, <1>2 DEF Makers, Quiet
<1> QED BY <1>3, <1>4

\* Answers, lost ones included, keep the calls tied to their handlers.
LEMMA EndCalls ==
    ASSUME TypeOK, Stages, Known, CallsTied, Makers, NEW p \in Proc, Respond(p) \/ Crash(p)
    PROVE  CallsTied' /\ Makers' /\ CallsStay /\ call' \in [Call -> CallRow]
<1> DEFINE c == flight[p].call
<1>1. StepOK(p, Idle) /\ Quiet /\ Moves(p, Idle)
  BY EndOK DEF StepOK
<1>2. c \in Call \cup {None}
  BY DEF TypeOK, Flight
<1>3. /\ \A q \in Proc : q # p => flight'[q].call = flight[q].call /\ flight'[q].pc = flight[q].pc
      /\ flight'[p].call = None
  BY <1>1, TouchedSame, IdleFields DEF Moves, Others, TypeOK, SameFields
<1>4. CASE c # None /\ call[c].at = p
  <2>1. c \in Call /\ call[c].at # None
    BY <1>2, <1>4, NoneAssumption
  <2>2. CASE Respond(p)
    <3>1. /\ Ended(c) /\ call'[c].state = IF flight[p].pc = "done" THEN "ok" ELSE "refused"
          /\ call'[c].lost = call[c].lost
      BY <1>4, <2>2, RespondEnds
    <3>2. ASSUME call'[c].state = "ok"
          PROVE  \E u \in account : maker[u] = c
      <4>1. flight[p].pc = "done"
        BY <3>1, <3>2
      <4>2. flight[p].op = "register"
        BY <1>4 DEF Stages, Stage, PhoneStage, WriteStage, RestStage
      <4> QED BY <4>1, <4>2 DEF Known, Knows
    <3>3. CallsTied' /\ Makers'
      BY <1>1, <1>3, <1>4, <2>1, <3>1, <3>2, EndedNext DEF Quiet
    <3> QED BY <3>1, <3>3 DEF Ended, CallsStay
  <2>3. CASE Crash(p)
    <3>1. Ended(c) /\ call'[c].lost /\ call'[c].state # "ok"
      BY <1>4, <2>1, <2>3, NoAnswerEnds DEF Crash
    <3>2. CallsTied' /\ Makers'
      BY <1>1, <1>3, <1>4, <2>1, <3>1, EndedNext DEF Quiet
    <3> QED BY <3>1, <3>2 DEF Ended, CallsStay
  <2> QED BY <2>2, <2>3
<1>5. CASE ~(c # None /\ call[c].at = p)
  <2>1. call' = call
    BY <1>5 DEF Respond, Crash
  <2>2. \A d \in Call : call[d].at # p
    BY <1>5, NoneAssumption DEF CallsTied
  <2>3. CallsTied' /\ Makers'
    BY <1>1, <2>1, <2>2, DroppedNext
  <2> QED BY <2>1, <2>3 DEF CallsStay, TypeOK
<1> QED BY <1>4, <1>5

\* So does the loss of an answer.
LEMMA LoseCalls ==
    ASSUME TypeOK, CallsTied, Makers, NEW c \in Call, LoseAnswer(c)
    PROVE  CallsTied' /\ Makers' /\ CallsStay /\ call' \in [Call -> CallRow]
<1>1. Ended(c) /\ call'[c].lost /\ call'[c].state # "ok"
  BY NoAnswerEnds DEF LoseAnswer
<1>2. flight' = flight /\ account' = account /\ maker' = maker /\ identity' = identity
  BY DEF LoseAnswer
<1>3. call[c].at \in Proc
  BY DEF LoseAnswer, TypeOK, CallRow
<1>4. CallsTied' /\ Makers'
  BY <1>1, <1>2, <1>3, EndedNext
<1> QED BY <1>1, <1>4 DEF Ended, CallsStay

\* So does the begin of an attempt.
LEMMA BeginCalls ==
    ASSUME TypeOK, Stages, Known, Owned, CallsTied, Makers,
           NEW p \in Proc, NEW c \in Call, NEW u \in User, RegisterBegin(p, c, u)
    PROVE  CallsTied' /\ Makers' /\ call' \in [Call -> CallRow]
<1>1. call[c] \in CallRow /\ call \in [Call -> CallRow] /\ call[c].state = "open" /\ call[c].at = None
  BY DEF TypeOK, RegisterBegin
<1>2. call'[c] = [call[c] EXCEPT !.at = p, !.tries = @ + 1] /\ \A d \in Call : d # c => call'[d] = call[d]
  BY <1>1 DEF RegisterBegin
<1>3. /\ call'[c] \in CallRow /\ call'[c].at = p /\ call'[c].state = "open" /\ call'[c].keys = call[c].keys
      /\ call'[c].lost = call[c].lost
  <2> DEFINE k == call[c]
             l == [k EXCEPT !.at = p, !.tries = @ + 1]
  <2>1. k \in CallRow /\ k.tries + 1 \in Nat /\ p \in Proc \cup {None} /\ call'[c] = l
    BY <1>1, <1>2 DEF CallRow
  <2>2. l = [[k EXCEPT !.at = p] EXCEPT !.tries = k.tries + 1]
    BY <2>1 DEF CallRow
  <2>3. [k EXCEPT !.at = p] \in CallRow
    BY <2>1 DEF CallRow
  <2>4. l \in CallRow /\ l.at = p /\ l.state = k.state /\ l.keys = k.keys /\ l.lost = k.lost
    BY <2>1, <2>2, <2>3 DEF CallRow
  <2> QED BY <1>1, <2>1, <2>4
<1>4. call' \in [Call -> CallRow]
  <2>1. call' = [d \in Call |-> call'[d]]
    BY <1>1 DEF RegisterBegin
  <2> QED BY <1>1, <1>2, <1>3, <2>1
<1>5. Moves(p, Begun(c, u)) /\ Quiet
  BY BeginOK DEF StepOK
<1>6. /\ flight'[p].call = c
      /\ \A q \in Proc : q # p => flight'[q].call = flight[q].call /\ flight'[q].pc = flight[q].pc
  <2>1. flight'[p] = Begun(c, u) /\ Begun(c, u).call = c
    BY <1>5, IdleFields DEF Moves, Begun, Flight
  <2>2. \A q \in Proc : q # p => SameFields(flight[q], flight'[q])
    BY <1>5, TouchedSame DEF Moves, Others, TypeOK
  <2> QED BY <2>1, <2>2 DEF SameFields
<1>7. flight[p].call = None
  BY DEF Stages, Stage, RegisterStage, Registering, RestStage, PhoneStage, WriteStage, RegisterBegin, At
<1>8. \A d \in Call : call[d].at # None => call[d].at \in Proc /\ call[d].at # p
  BY <1>7, NoneAssumption DEF CallsTied, TypeOK, CallRow
<1>9. ASSUME NEW d \in Call
      PROVE  /\ call'[d].state = "new" => call'[d].at = None /\ ~call'[d].lost
             /\ call'[d].state # "new" => CallKeys(call'[d])
             /\ call'[d].at # None => call'[d].state = "open" /\ flight'[call'[d].at].call = d
             /\ ~call'[d].lost => \A q \in Proc : flight'[q].call = d => call'[d].at = q
             /\ call'[d].state = "ok" => \E v \in account : maker[v] = d
  <2>1. CASE d = c
    <3>1. CallKeys(call'[d])
      BY <1>1, <1>3, <2>1 DEF CallsTied, CallKeys
    <3>2. ~call[c].lost => \A q \in Proc : flight[q].call # c
      BY <1>1, NoneAssumption DEF CallsTied
    <3> QED BY <1>3, <1>6, <2>1, <3>1, <3>2
  <2>2. CASE d # c
    <3>1. call'[d] = call[d]
      BY <1>2, <2>2
    <3>2. call[d].at # None => flight'[call[d].at].call = d
      BY <1>6, <1>8 DEF CallsTied
    <3> QED BY <1>6, <2>2, <3>1, <3>2 DEF CallsTied
  <2> QED BY <2>1, <2>2
<1>10. CallsTied'
  BY <1>5, <1>9 DEF CallsTied, Quiet
<1>11. ASSUME NEW v \in account, maker[v] \in Call
       PROVE  LET d == maker[v] IN
              /\ call'[d].state # "new" /\ identity[call'[d].keys[1]].user = v
              /\ call'[d].lost \/ call'[d].state = "ok" \/ (call'[d].at # None /\ flight'[call'[d].at].pc = "done")
  <2> DEFINE d == maker[v]
  <2>1. /\ call[d].state # "new" /\ identity[call[d].keys[1]].user = v
        /\ call[d].lost \/ call[d].state = "ok" \/ (call[d].at # None /\ flight[call[d].at].pc = "done")
    BY <1>11 DEF Makers
  <2>2. CASE d = c
    BY <1>1, <1>3, <2>1, <2>2
  <2>3. CASE d # c
    <3>1. call'[d] = call[d]
      BY <1>2, <1>11, <2>3
    <3> QED BY <1>6, <1>8, <1>11, <2>1, <3>1
  <2> QED BY <2>2, <2>3
<1>12. Makers'
  BY <1>5, <1>11 DEF Makers, Quiet
<1> QED BY <1>4, <1>10, <1>12

\* So does a new call.
LEMMA AskCalls ==
    ASSUME TypeOK, Stages, CallsTied, Makers, NEW c \in Call,
           NEW h \in Phone, NEW e \in Email, NEW n \in Name, NEW w \in Password, Ask(c, h, e, n, w)
    PROVE  CallsTied' /\ Makers' /\ CallsStay /\ call' \in [Call -> CallRow]
<1> DEFINE k == [NotCalled EXCEPT !.state = "open", !.keys = <<h, e, n>>, !.pw = w]
<1>1. call[c].state = "new" /\ call \in [Call -> CallRow]
  BY DEF TypeOK, Ask
<1>2. call' = [call EXCEPT ![c] = k]
  BY DEF Ask
<1>3. /\ k \in CallRow /\ k.state = "open" /\ k.keys = <<h, e, n>> /\ k.at = None /\ k.lost = FALSE
  <2>1. <<h, e, n>> \in Seq(Key) /\ 0 \in Nat
    BY Tuples DEF Key
  <2> QED BY <2>1 DEF NotCalled, CallRow, OptPassword
<1> HIDE DEF k
<1>4. call'[c] = k /\ \A d \in Call : d # c => call'[d] = call[d]
  BY <1>1, <1>2
<1>5. call' \in [Call -> CallRow] /\ CallsStay
  BY <1>1, <1>2, <1>3, <1>4 DEF CallsStay
<1>6. flight' = flight /\ account' = account /\ maker' = maker /\ identity' = identity
  BY DEF Ask
<1>7. \A q \in Proc : flight[q].call # c
  BY <1>1, NoneAssumption DEF Stages, Stage, RegisterStage, PhoneStage, WriteStage, RestStage
<1>8. CallsTied'
  <2>1. CallKeys(k)
    BY <1>3 DEF CallKeys
  <2> QED BY <1>3, <1>4, <1>6, <1>7, <2>1 DEF CallsTied
<1>9. Makers'
  BY <1>1, <1>4, <1>6 DEF Makers
<1> QED BY <1>5, <1>8, <1>9

\* A commit makes the first account of its call: an earlier one would hold the same keys.
LEMMA CommitCalls ==
    ASSUME TypeOK, Stages, Known, Apart, CallsTied, Makers, NEW p \in Proc, Commit(p)
    PROVE  CallsTied' /\ Makers' /\ CallsStay /\ maker' \in [User -> Call \cup {None}]
<1> DEFINE f == flight[p]
<1>1. /\ f \in Flight /\ f.pc = "commit" /\ f.user \in User /\ f.user \notin account /\ f.mine \in SUBSET Key
      /\ account' = account \cup {f.user} /\ maker' = [maker EXCEPT ![f.user] = f.call] /\ call' = call
      /\ \A k \in Key : identity'[k] = IF k \in f.mine THEN [user |-> f.user, hash |-> f.new]
                                       ELSE identity[k]
  BY CommitTables
<1>2. Moves(p, Committed(f)) /\ Tables(p)
  BY CommitOK DEF StepOK
<1>3. /\ \A q \in Proc : flight'[q].call = flight[q].call /\ (q # p => flight'[q].pc = flight[q].pc)
      /\ flight'[p].pc = IF f.op = "phone" THEN "again" ELSE "done"
  <2>1. flight'[p] = Committed(f)
    BY <1>2 DEF Moves
  <2>2. Committed(f).call = f.call /\ Committed(f).pc = IF f.op = "phone" THEN "again" ELSE "done"
    BY <1>1 DEF Committed, Flight
  <2>3. \A q \in Proc : q # p => SameFields(flight[q], flight'[q])
    BY <1>2, TouchedSame DEF Moves, Others, TypeOK
  <2> QED BY <2>1, <2>2, <2>3 DEF SameFields
<1>4. \A c \in Call : call[c].at # None => call[c].at \in Proc
  BY DEF TypeOK, CallRow
<1>5. /\ maker' \in [User -> Call \cup {None}] /\ maker'[f.user] = f.call
      /\ \A u \in account : maker'[u] = maker[u]
  BY <1>1 DEF TypeOK, Flight
<1>6. CallsTied'
  BY <1>1, <1>3, <1>4, <1>5 DEF CallsTied
<1>7. ASSUME NEW u \in account', maker'[u] \in Call
      PROVE  LET c == maker'[u] IN
             /\ call[c].state # "new" /\ identity'[call[c].keys[1]].user = u
             /\ call[c].lost \/ call[c].state = "ok" \/ (call[c].at # None /\ flight'[call[c].at].pc = "done")
  <2> DEFINE c == maker'[u]
  <2>1. CASE u \in account
    <3>1. /\ c = maker[u] /\ call[c].state # "new" /\ identity[call[c].keys[1]].user = u
          /\ call[c].lost \/ call[c].state = "ok" \/ (call[c].at # None /\ flight[call[c].at].pc = "done")
      BY <1>5, <1>7, <2>1 DEF Makers
    <3>2. call[c].keys[1] \in Key
      <4>1. PICK h \in Phone, e \in Email, n \in Name : call[c].keys = <<h, e, n>>
        BY <1>7, <3>1 DEF CallsTied, CallKeys
      <4> QED BY <4>1 DEF Key
    <3>3. identity'[call[c].keys[1]].user = u
      BY <2>1, <3>1, <3>2, <1>2, NoneAssumption DEF Tables, TypeOK
    <3>4. call[c].at # None /\ flight[call[c].at].pc = "done" => flight'[call[c].at].pc = "done"
      BY <1>1, <1>3, <1>4, <1>7
    <3> QED BY <3>1, <3>3, <3>4
  <2>2. CASE u \notin account
    <3>1. u = f.user /\ c = f.call /\ c \in Call
      BY <1>1, <1>5, <1>7, <2>2
    <3>2. f.op = "register" /\ RegisterStage(f, call)
      BY <3>1, NoneAssumption DEF Stages, Stage, PhoneStage, WriteStage, RestStage
    <3>3. PICK h \in Phone, e \in Email, n \in Name : call[c].keys = <<h, e, n>> /\ f.mine = {h, e, n}
      BY SMTT(60), <1>1, <3>1, <3>2 DEF RegisterStage, Registering
    <3>4. call[c].keys[1] = h /\ h \in Key /\ h \in f.mine
      BY <3>3 DEF Key
    <3>5. identity'[h].user = u
      BY <1>1, <3>1, <3>4
    <3>6. call[c].state # "new"
      BY <3>1, <3>2 DEF RegisterStage
    <3>7. ~call[c].lost => call[c].at = p /\ p # None
      BY <3>1, NoneAssumption DEF CallsTied
    <3> QED BY <1>3, <3>2, <3>4, <3>5, <3>6, <3>7
  <2> QED BY <2>1, <2>2
<1>8. Makers'
  BY <1>1, <1>7 DEF Makers
<1> QED BY <1>1, <1>5, <1>6, <1>8 DEF CallsStay

-----------------------------------------------------------------------------
(* Accounts, events and passwords                                          *)

\* Steps that leave the tables alone keep the accounts whole.
LEMMA QuietAccounts ==
    ASSUME Owned, Announced, OnePassword, Quiet, outbox' = outbox
    PROVE  Owned' /\ Announced' /\ OnePassword'
BY DEF Owned, Announced, OnePassword, Quiet

\* A commit adds an account with its identities and its event.
LEMMA CommitAccounts ==
    ASSUME TypeOK, Stages, Known, Owned, Announced, OnePassword, NEW p \in Proc, Commit(p)
    PROVE  Owned' /\ Announced' /\ OnePassword' /\ outbox' \in Seq(User)
<1> DEFINE f == flight[p]
<1>1. /\ f \in Flight /\ f.pc = "commit" /\ f.user \in User /\ f.user \notin account /\ f.user \in drawn
      /\ f.mine \in SUBSET Key /\ account' = account \cup {f.user} /\ drawn' = drawn
      /\ outbox' = Append(outbox, f.user)
      /\ \A k \in f.mine : identity[k].user = None
      /\ \A k \in Key : identity'[k] = IF k \in f.mine THEN [user |-> f.user, hash |-> f.new]
                                       ELSE identity[k]
  BY CommitTables
<1>2. f.mine # {}
  BY <1>1 DEF Stages, Stage, RegisterStage, Registering, PhoneStage, WriteStage, RestStage
<1>3. Owned'
  <2>1. account' \subseteq drawn'
    BY <1>1 DEF Owned
  <2>2. \A k \in Key : identity'[k].user # None => identity'[k].user \in account'
    BY <1>1 DEF Owned
  <2>3. ASSUME NEW u \in account'
        PROVE  \E k \in Key : identity'[k].user = u
    <3>1. CASE u \in account
      <4>1. PICK k \in Key : identity[k].user = u
        BY <3>1 DEF Owned
      <4>2. k \notin f.mine
        BY <1>1, <3>1, <4>1, NoneAssumption DEF TypeOK
      <4> QED BY <1>1, <4>1, <4>2
    <3>2. CASE u = f.user
      BY <1>1, <1>2, <3>2
    <3> QED BY <1>1, <3>1, <3>2
  <2> QED BY <2>1, <2>2, <2>3 DEF Owned
<1>4. /\ outbox' \in Seq(User) /\ Len(outbox') = Len(outbox) + 1 /\ Len(outbox) \in Nat
      /\ \A i \in 1..Len(outbox) : outbox'[i] = outbox[i]
      /\ outbox'[Len(outbox) + 1] = f.user
      /\ DOMAIN outbox = 1..Len(outbox) /\ DOMAIN outbox' = 1..(Len(outbox) + 1)
  BY <1>1, AppendProperties, LenProperties DEF TypeOK
<1>5. Announced'
  <2>1. ASSUME NEW i \in DOMAIN outbox'
        PROVE  outbox'[i] \in account'
    <3>1. i \in DOMAIN outbox \/ i = Len(outbox) + 1
      BY <1>4
    <3> QED BY <1>1, <1>4, <3>1 DEF Announced
  <2>2. ASSUME NEW u \in account'
        PROVE  \E i \in DOMAIN outbox' : \A j \in DOMAIN outbox' : outbox'[j] = u <=> j = i
    <3>1. CASE u \in account
      <4>1. PICK i \in DOMAIN outbox : \A j \in DOMAIN outbox : outbox[j] = u <=> j = i
        BY <3>1 DEF Announced
      <4>2. \A j \in DOMAIN outbox' : outbox'[j] = u <=> j = i
        BY <1>1, <1>4, <3>1, <4>1
      <4> QED BY <1>4, <4>1, <4>2
    <3>2. CASE u = f.user
      <4>1. \A j \in DOMAIN outbox' : outbox'[j] = u <=> j = Len(outbox) + 1
        BY <1>1, <1>4, <3>2 DEF Announced
      <4> QED BY <1>4, <4>1
    <3> QED BY <1>1, <3>1, <3>2
  <2> QED BY <2>1, <2>2 DEF Announced
<1>6. OnePassword'
  <2>1. SUFFICES ASSUME NEW k \in Key, NEW m \in Key, identity'[k].user # None,
                        identity'[k].user = identity'[m].user, identity'[k].hash # None,
                        identity'[k].hash # identity'[m].hash
                 PROVE  identity'[m].hash = None /\ m \in Email
    BY DEF OnePassword
  <2>2. CASE k \in f.mine
    <3>1. identity'[k].user = f.user /\ identity'[k].hash = f.new
      BY <1>1, <2>2
    <3>2. m \in f.mine
      BY <1>1, <2>1, <3>1, NoneAssumption DEF Owned
    <3> QED BY <1>1, <2>1, <3>1, <3>2
  <2>3. CASE k \notin f.mine
    <3>1. identity'[k] = identity[k] /\ identity[k].user \in account
      BY <1>1, <2>1, <2>3 DEF Owned
    <3>2. m \notin f.mine
      BY <1>1, <2>1, <3>1
    <3>3. identity'[m] = identity[m]
      BY <1>1, <3>2
    <3> QED BY <2>1, <3>1, <3>3 DEF OnePassword
  <2> QED BY <2>2, <2>3
<1> QED BY <1>3, <1>4, <1>5, <1>6

\* A write changes all hashes of a user, or adds an email without one.
LEMMA WriteAccounts ==
    ASSUME TypeOK, Stages, Known, Owned, Announced, OnePassword,
           NEW p \in Proc, BindWrite(p) \/ PasswordWrite(p)
    PROVE  Owned' /\ Announced' /\ OnePassword'
<1> DEFINE f == flight[p]
<1>1. /\ Tables(p) /\ f.pc = "write" /\ f.user \in account
      /\ account' = account /\ drawn' = drawn /\ outbox' = outbox
  BY WriteTables
<1>2. f \in Flight /\ Stage(f, call) /\ f.user # None
  BY <1>1, NoneAssumption DEF TypeOK, Stages
<1>3. CASE BindWrite(p)
  <2>1. CASE identity[f.key].user = None
    <3>1. f.key \in Email /\ f.key \in Key
      BY <1>2, <1>3 DEF BindWrite, At, Stage, RegisterStage, Registering, PhoneStage, WriteStage, RestStage, Key
    <3>2. identity' = [identity EXCEPT ![f.key] = [user |-> f.user, hash |-> None]]
      BY <1>3, <2>1 DEF BindWrite
    <3>3. /\ identity'[f.key].user = f.user /\ identity'[f.key].hash = None
          /\ \A k \in Key : k # f.key => identity'[k] = identity[k]
      BY <3>1, <3>2 DEF TypeOK
    <3>4. Owned'
      <4>1. \A k \in Key : identity'[k].user # None => identity'[k].user \in account'
        BY <1>1, <3>3 DEF Owned
      <4>2. ASSUME NEW u \in account
            PROVE  \E k \in Key : identity'[k].user = u
        <5>1. PICK k \in Key : identity[k].user = u
          BY DEF Owned
        <5>2. k # f.key
          BY <2>1, <5>1, NoneAssumption DEF TypeOK
        <5> QED BY <3>3, <5>1, <5>2
      <4> QED BY <1>1, <4>1, <4>2 DEF Owned
    <3>5. OnePassword'
      <4>1. SUFFICES ASSUME NEW k \in Key, NEW m \in Key, identity'[k].user # None,
                            identity'[k].user = identity'[m].user, identity'[k].hash # None,
                            identity'[k].hash # identity'[m].hash
                     PROVE  identity'[m].hash = None /\ m \in Email
        BY DEF OnePassword
      <4>2. CASE m = f.key
        BY <3>1, <3>3, <4>2
      <4>3. CASE m # f.key
        <5>1. k # f.key
          BY <3>3, <4>1
        <5> QED BY <3>3, <4>1, <4>3, <5>1 DEF OnePassword
      <4> QED BY <4>2, <4>3
    <3> QED BY <1>1, <3>4, <3>5 DEF Announced
  <2>2. CASE identity[f.key].user # None
    <3>1. identity' = identity
      BY <1>3, <2>2 DEF BindWrite
    <3> QED BY <1>1, <3>1 DEF Owned, Announced, OnePassword
  <2> QED BY <2>1, <2>2
<1>4. CASE PasswordWrite(p)
  <2>1. \A k \in Key : identity'[k] = IF identity[k].user = f.user THEN [identity[k] EXCEPT !.hash = f.new]
                                      ELSE identity[k]
    BY <1>4 DEF PasswordWrite, KeysOf
  <2>2. \A k \in Key : /\ identity'[k].user = identity[k].user
                       /\ identity'[k].hash = IF identity[k].user = f.user THEN f.new ELSE identity[k].hash
    BY <2>1 DEF TypeOK, IdentityRow
  <2>3. Owned' /\ Announced'
    BY <1>1, <2>2 DEF Owned, Announced
  <2>4. OnePassword'
    BY <2>2 DEF OnePassword
  <2> QED BY <2>3, <2>4
<1> QED BY <1>3, <1>4

-----------------------------------------------------------------------------
(* What a handler has checked                                              *)

KeysIn(u, ids)   == {k \in Key : ids[k].user = u}
HashesIn(u, ids) == {ids[k].hash : k \in KeysIn(u, ids)} \ {None}

Check(f, ids) ==
    /\ f.op = "bind"   => KeysIn(f.user, ids) \cap Email = {}
    /\ f.op = "set"    => HashesIn(f.user, ids) = {}
    /\ f.op = "change" => f.old \in HashesIn(f.user, ids)

Checks == \A p \in Proc : flight[p].pc = "write" /\ ~flight[p].stale => Check(flight[p], identity)

\* ChecksHold in terms of one flight and the table.
LEMMA ChecksAreChecks ==
    ASSUME Stages
    PROVE  ChecksHold <=> Checks
<1>1. ASSUME NEW p \in Proc, flight[p].pc = "write"
      PROVE  flight[p].op \in {"bind", "set", "change"}
  BY <1>1 DEF Stages, Stage, RegisterStage, Registering, PhoneStage, RestStage
<1>2. ASSUME NEW p \in Proc, flight[p].pc = "write"
      PROVE  (CASE flight[p].op = "bind"   -> KeysOf(flight[p].user) \cap Email = {}
                [] flight[p].op = "set"    -> Hashes(flight[p].user) = {}
                [] flight[p].op = "change" -> flight[p].old \in Hashes(flight[p].user))
             <=> Check(flight[p], identity)
  BY <1>1, <1>2 DEF Check, KeysIn, HashesIn, KeysOf, Hashes
<1> QED BY <1>2 DEF ChecksHold, Checks, At

\* A check looks at the rows of its own user only.
LEMMA CheckSame ==
    ASSUME NEW f, NEW g, g.op = f.op, g.user = f.user, g.old = f.old, NEW ids, NEW jds, Check(f, ids),
           \A k \in Key : /\ jds[k].user = f.user <=> ids[k].user = f.user
                          /\ ids[k].user = f.user => jds[k].hash = ids[k].hash
    PROVE  Check(g, jds)
<1>1. KeysIn(f.user, jds) = KeysIn(f.user, ids)
  BY DEF KeysIn
<1>2. HashesIn(f.user, jds) = HashesIn(f.user, ids)
  BY <1>1 DEF HashesIn, KeysIn
<1> QED BY <1>1, <1>2 DEF Check

\* A step of p that is not a write: the others' checks are not touched.
LEMMA ChecksNext ==
    ASSUME TypeOK, Stages, Stages', ChecksHold, NEW p \in Proc, NEW g, Moves(p, g),
           g.pc = "write" /\ ~g.stale => Check(g, identity'),
           \A q \in Proc : q # p /\ flight[q].pc = "write" /\ Check(flight[q], identity)
                           /\ ~flight'[q].stale => Check(flight[q], identity')
    PROVE  ChecksHold'
<1>1. Checks
  BY ChecksAreChecks
<1>2. ASSUME NEW q \in Proc, flight'[q].pc = "write", ~flight'[q].stale
      PROVE  Check(flight'[q], identity')
  <2>1. CASE q = p
    BY <1>2, <2>1 DEF Moves
  <2>2. CASE q # p
    <3>1. SameFields(flight[q], flight'[q]) /\ ~flight[q].stale
      BY <1>2, <2>2, TouchedSame DEF Moves, Others, TypeOK
    <3>2. flight[q].pc = "write"
      BY <1>2, <3>1 DEF SameFields
    <3>3. Check(flight[q], identity')
      BY <1>1, <1>2, <2>2, <3>1, <3>2 DEF Checks
    <3> QED BY <3>1, <3>3, CheckSame DEF SameFields
  <2> QED BY <2>1, <2>2
<1>3. Checks'
  BY <1>2 DEF Checks
<1>4. Stages' => (ChecksHold' <=> Checks')
  BY ChecksAreChecks, PTL
<1> QED BY <1>3, <1>4

\* Steps that leave the identities alone keep what was checked.
LEMMA QuietChecks ==
    ASSUME TypeOK, Stages, Stages', ChecksHold, NEW p \in Proc, NEW g, Moves(p, g), identity' = identity,
           g.pc # "write"
    PROVE  ChecksHold'
BY ChecksNext

\* A read has just checked.
LEMMA ReadChecks ==
    ASSUME TypeOK, Stages, Stages', ChecksHold, NEW p \in Proc, identity' = identity,
           NEW op, NEW u, NEW k, NEW old, NEW new, Moves(p, Checked(op, u, k, old, new)),
           Check(Checked(op, u, k, old, new), identity)
    PROVE  ChecksHold'
BY ChecksNext

\* A commit adds rows of a user nobody has checked yet.
LEMMA CommitChecks ==
    ASSUME TypeOK, Stages, Stages', Known, ChecksHold, NEW p \in Proc, Commit(p)
    PROVE  ChecksHold'
<1> DEFINE f == flight[p]
<1>1. /\ f \in Flight /\ f.user \in User /\ f.user \notin account
      /\ \A k \in f.mine : identity[k].user = None
      /\ \A k \in Key : identity'[k] = IF k \in f.mine THEN [user |-> f.user, hash |-> f.new]
                                       ELSE identity[k]
  BY CommitTables
<1>2. Moves(p, Committed(f)) /\ Committed(f).pc # "write"
  BY <1>1, CommitMoves DEF Committed, Flight
<1>3. ASSUME NEW q \in Proc, flight[q].pc = "write", Check(flight[q], identity)
      PROVE  Check(flight[q], identity')
  <2>1. flight[q].user \in account /\ flight[q].user # None
    BY <1>3, NoneAssumption DEF Known, Knows, TypeOK
  <2>2. \A k \in Key : /\ identity'[k].user = flight[q].user <=> identity[k].user = flight[q].user
                       /\ identity[k].user = flight[q].user => identity'[k].hash = identity[k].hash
    BY <1>1, <2>1
  <2> QED BY <1>3, <2>2, CheckSame
<1> QED BY <1>2, <1>3, ChecksNext

\* A write makes the checks it outdates stale.
LEMMA WriteChecks ==
    ASSUME TypeOK, Stages, Stages', Known, ChecksHold, NEW p \in Proc, BindWrite(p) \/ PasswordWrite(p)
    PROVE  ChecksHold'
<1> DEFINE f == flight[p]
           free == identity[f.key].user = None
<1>1. PICK pc \in {"done", "refused"} : Moves(p, [Idle EXCEPT !.pc = pc])
  BY WriteMoves
<1>2. [Idle EXCEPT !.pc = pc].pc # "write"
  BY IdleFields DEF Flight
<1>3. f \in Flight /\ Stage(f, call) /\ f.pc = "write" /\ f.user \in account /\ f.user # None
  BY NoneAssumption DEF TypeOK, Stages, Known, Knows, BindWrite, PasswordWrite, At
<1>4. ASSUME NEW q \in Proc, q # p, flight[q].pc = "write", Check(flight[q], identity), ~flight'[q].stale
      PROVE  Check(flight[q], identity')
  <2>1. flight[q].user # None
    BY <1>4, NoneAssumption DEF Known, Knows, TypeOK
  <2>2. CASE BindWrite(p) /\ free
    <3>1. GotoHitting(p, [Idle EXCEPT !.pc = "done"], f.user, {"bind"})
      BY <2>2 DEF BindWrite
    <3>2. flight[q].user = f.user => flight[q].op # "bind"
      BY <1>4, <3>1, IdleRest, GotoHittingMoves
    <3>3. f.key \in Key
      BY <1>3, <2>2 DEF BindWrite, Stage, RegisterStage, Registering, PhoneStage, WriteStage, RestStage, Key
    <3>4. /\ identity'[f.key].user = f.user /\ identity'[f.key].hash = None
          /\ \A k \in Key : k # f.key => identity'[k] = identity[k]
      BY <2>2, <3>3 DEF BindWrite, TypeOK
    <3>5. CASE flight[q].user = f.user
      <4>1. HashesIn(f.user, identity') = HashesIn(f.user, identity)
        <5>1. ASSUME NEW x
              PROVE  x \in HashesIn(f.user, identity') <=> x \in HashesIn(f.user, identity)
          <6>1. ASSUME x \in HashesIn(f.user, identity')
                PROVE  x \in HashesIn(f.user, identity)
            <7>1. PICK k \in Key : identity'[k].user = f.user /\ x = identity'[k].hash /\ x # None
              BY <6>1 DEF HashesIn, KeysIn
            <7>2. k # f.key
              BY <3>4, <7>1
            <7> QED BY <3>4, <7>1, <7>2 DEF HashesIn, KeysIn
          <6>2. ASSUME x \in HashesIn(f.user, identity)
                PROVE  x \in HashesIn(f.user, identity')
            <7>1. PICK k \in Key : identity[k].user = f.user /\ x = identity[k].hash /\ x # None
              BY <6>2 DEF HashesIn, KeysIn
            <7>2. k # f.key
              BY <1>3, <2>2, <7>1
            <7> QED BY <3>4, <7>1, <7>2 DEF HashesIn, KeysIn
          <6> QED BY <6>1, <6>2
        <5> QED BY <5>1
      <4> QED BY <1>4, <3>2, <3>5, <4>1 DEF Check
    <3>6. CASE flight[q].user # f.user
      <4>1. \A k \in Key : /\ identity'[k].user = flight[q].user <=> identity[k].user = flight[q].user
                           /\ identity[k].user = flight[q].user => identity'[k].hash = identity[k].hash
        BY <2>1, <2>2, <3>4, <3>6
      <4>2. Check(flight[q], identity)
        BY <1>4
      <4> QED BY ONLY <4>1, <4>2, CheckSame
    <3> QED BY <3>5, <3>6
  <2>3. CASE BindWrite(p) /\ ~free
    BY <1>4, <2>3 DEF BindWrite
  <2>4. CASE PasswordWrite(p)
    <3>1. GotoHitting(p, [Idle EXCEPT !.pc = "done"], f.user, {"set", "change"})
      BY <2>4 DEF PasswordWrite
    <3>2. flight[q].user = f.user => flight[q].op \notin {"set", "change"}
      BY <1>4, <3>1, IdleRest, GotoHittingMoves
    <3>3. \A k \in Key : identity'[k] = IF identity[k].user = f.user THEN [identity[k] EXCEPT !.hash = f.new]
                                        ELSE identity[k]
      BY <2>4 DEF PasswordWrite, KeysOf
    <3>4. \A k \in Key : /\ identity'[k].user = identity[k].user
                         /\ identity[k].user # f.user => identity'[k].hash = identity[k].hash
      BY <3>3 DEF TypeOK, IdentityRow
    <3>5. CASE flight[q].user = f.user
      <4>1. KeysIn(f.user, identity') = KeysIn(f.user, identity)
        BY <3>4 DEF KeysIn
      <4> QED BY <1>4, <3>2, <3>5, <4>1 DEF Check
    <3>6. CASE flight[q].user # f.user
      <4>1. \A k \in Key : /\ identity'[k].user = flight[q].user <=> identity[k].user = flight[q].user
                           /\ identity[k].user = flight[q].user => identity'[k].hash = identity[k].hash
        BY <3>4, <3>6
      <4>2. Check(flight[q], identity)
        BY <1>4
      <4> QED BY ONLY <4>1, <4>2, CheckSame
    <3> QED BY <3>5, <3>6
  <2> QED BY <2>2, <2>3, <2>4
<1> QED BY <1>1, <1>2, <1>4, ChecksNext

-----------------------------------------------------------------------------
(* Every step keeps the invariant                                          *)

\* Types of the tables that a step leaves alone.
LEMMA OthersTyped ==
    ASSUME TypeOK, flight' \in [Proc -> Flight], account' = account, identity' = identity,
           outbox' = outbox, maker' = maker, call' \in [Call -> CallRow], drawn' \in SUBSET User, faults' \in Nat
    PROVE  TypeOK'
BY DEF TypeOK

\* A step of p that only moves p along and may draw an id.
LEMMA QuietSafe ==
    ASSUME IInv, NEW p \in Proc, NEW g, StepOK(p, g), Quiet, outbox' = outbox, call' = call, faults' = faults,
           drawn' \in SUBSET User, g.call = flight[p].call, flight[p].call = None \/ flight[p].pc # "done",
           g.pc = "write" /\ ~g.stale => Check(g, identity)
    PROVE  IInv'
<1>1. /\ TypeOK /\ Stages /\ Known /\ Apart /\ Owned /\ Announced /\ CallsTied /\ Makers
      /\ OnePassword /\ ChecksHold
  BY DEF IInv
<1>2. CallsStay
  BY DEF CallsStay
<1>3. Stages' /\ Known' /\ Apart' /\ flight' \in [Proc -> Flight]
  BY <1>1, <1>2, StepNext
<1>4. Moves(p, g) /\ Tables(p) /\ identity' = identity /\ account' = account /\ maker' = maker
  BY DEF StepOK, Quiet
<1>5. TypeOK'
  BY <1>1, <1>3, <1>4, OthersTyped DEF TypeOK
<1>6. CallsTied' /\ Makers'
  BY <1>1, <1>4, CallsQuiet
<1>7. Owned' /\ Announced' /\ OnePassword'
  BY <1>1, QuietAccounts
<1>8. ChecksHold'
  BY <1>1, <1>3, <1>4, ChecksNext
<1> QED BY <1>3, <1>5, <1>6, <1>7, <1>8 DEF IInv

\* Every action keeps the invariant: Insert,
LEMMA InsertSafe == ASSUME IInv, NEW p \in Proc, Insert(p) PROVE IInv'
<1> DEFINE f == flight[p]
           g == IF identity[Head(f.todo)].user = None THEN Inserted(f) ELSE Conflicted(f)
<1>1. StepOK(p, g) /\ Quiet
  BY InsertOK DEF IInv
<1>2. f \in Flight /\ f.pc = "insert"
  BY DEF IInv, TypeOK, Insert, At
<1>3. g.call = f.call /\ g.pc # "write"
  BY <1>2 DEF Inserted, Conflicted, Flight
<1>4. outbox' = outbox /\ call' = call /\ faults' = faults /\ drawn' \in SUBSET User
  BY DEF Insert, IInv, TypeOK
<1> HIDE DEF g
<1> QED BY <1>1, <1>2, <1>3, <1>4, QuietSafe

\* the event,
LEMMA EventSafe == ASSUME IInv, NEW p \in Proc, AppendEvent(p) PROVE IInv'
<1> DEFINE f == flight[p]
           g == [f EXCEPT !.event = TRUE, !.pc = "commit"]
<1>1. StepOK(p, g) /\ Quiet
  BY EventOK DEF IInv
<1>2. f \in Flight /\ f.pc = "event"
  BY DEF IInv, TypeOK, AppendEvent, At
<1>3. g.call = f.call /\ g.pc # "write"
  BY <1>2 DEF Flight
<1>4. outbox' = outbox /\ call' = call /\ faults' = faults /\ drawn' \in SUBSET User
  BY DEF AppendEvent, IInv, TypeOK
<1> HIDE DEF g
<1> QED BY <1>1, <1>2, <1>3, <1>4, QuietSafe

\* A handler that is idle works for no call.
LEMMA IdleNoCall ==
    ASSUME Stages, NEW p \in Proc, At(p, "idle")
    PROVE  flight[p].call = None
BY DEF Stages, Stage, RegisterStage, Registering, RestStage, PhoneStage, WriteStage, At

\* the begin of a phone entry,
LEMMA PhoneBeginSafe == ASSUME IInv, NEW p \in Proc, NEW h \in Phone, PhoneBegin(p, h) PROVE IInv'
<1> DEFINE g == [Idle EXCEPT !.op = "phone", !.pc = "find", !.key = h]
<1>1. StepOK(p, g) /\ Quiet
  BY PhoneBeginOK DEF IInv
<1>2. g.call = None /\ g.pc # "write"
  BY IdleFields DEF Flight
<1>3. flight[p].call = None
  BY IdleNoCall DEF IInv, PhoneBegin
<1>4. outbox' = outbox /\ call' = call /\ faults' = faults /\ drawn' \in SUBSET User
  BY DEF PhoneBegin, IInv, TypeOK
<1> HIDE DEF g
<1> QED BY <1>1, <1>2, <1>3, <1>4, QuietSafe

\* its end,
LEMMA PhoneSafe == ASSUME IInv, NEW p \in Proc, PhoneFind(p) \/ PhoneAgain(p) PROVE IInv'
<1> DEFINE f == flight[p]
           g == [f EXCEPT !.user = identity[f.key].user, !.pc = "done"]
<1>1. StepOK(p, g) /\ Quiet
  BY PhoneOK DEF IInv
<1>2. f \in Flight /\ f.op = "phone" /\ f.pc \in {"find", "again"}
  BY PhoneMoves DEF IInv, TypeOK
<1>3. g.call = f.call /\ g.pc # "write"
  BY <1>2 DEF Flight
<1>4. outbox' = outbox /\ call' = call /\ faults' = faults /\ drawn' \in SUBSET User
  BY DEF PhoneFind, PhoneAgain, IInv, TypeOK
<1> HIDE DEF g
<1> QED BY <1>1, <1>2, <1>3, <1>4, QuietSafe

\* its registration,
LEMMA PhoneRegisterSafe == ASSUME IInv, NEW p \in Proc, NEW u \in User, PhoneRegister(p, u) PROVE IInv'
<1> DEFINE f == flight[p]
           g == [f EXCEPT !.user = u, !.todo = <<f.key>>, !.pc = "insert"]
<1>1. StepOK(p, g) /\ Quiet
  BY PhoneRegisterOK DEF IInv
<1>2. f \in Flight /\ f.call = None
  BY PhoneRegisterMoves DEF IInv, TypeOK
<1>3. g.call = f.call /\ g.pc # "write"
  BY <1>2 DEF Flight
<1>4. outbox' = outbox /\ call' = call /\ faults' = faults /\ drawn' \in SUBSET User
  BY DEF PhoneRegister, IInv, TypeOK
<1> HIDE DEF g
<1> QED BY <1>1, <1>2, <1>3, <1>4, QuietSafe

\* BindRead, SetRead, ChangeRead.
LEMMA CheckedSafe ==
    ASSUME IInv, NEW p \in Proc, At(p, "idle"), UNCHANGED <<account, identity, outbox, call, drawn, maker, faults>>,
           NEW op \in {"bind", "set", "change"}, NEW u \in account, NEW k, NEW old, NEW new,
           Moves(p, Checked(op, u, k, old, new)),
           op = "bind" => KeysOf(u) \cap Email = {},
           op = "set" => Hashes(u) = {},
           op = "change" => old \in Hashes(u)
    PROVE  IInv'
<1> DEFINE g == Checked(op, u, k, old, new)
<1>1. Quiet
  BY DEF Quiet
<1>2. StepOK(p, g)
  BY <1>1, CheckedOK DEF IInv
<1>3. g.op = op /\ g.user = u /\ g.old = old /\ g.call = None
  BY IdleFields DEF Checked, Flight
<1>4. flight[p].call = None
  BY IdleNoCall DEF IInv
<1> HIDE DEF g
<1>5. Check(g, identity)
  BY <1>3 DEF Check, KeysIn, HashesIn, KeysOf, Hashes
<1>6. outbox' = outbox /\ call' = call /\ faults' = faults /\ drawn' \in SUBSET User
  BY DEF IInv, TypeOK
<1> QED BY <1>1, <1>2, <1>3, <1>4, <1>5, <1>6, QuietSafe

\* the read of BindEmail,
LEMMA BindReadSafe == ASSUME IInv, NEW p \in Proc, NEW u \in User, NEW e \in Email, BindRead(p, u, e) PROVE IInv'
<1>1. Moves(p, Checked("bind", u, e, None, None))
  BY BindReadMoves DEF IInv
<1> QED BY <1>1, CheckedSafe DEF BindRead

\* of SetPassword,
LEMMA SetReadSafe == ASSUME IInv, NEW p \in Proc, NEW u \in User, NEW w \in Password, SetRead(p, u, w) PROVE IInv'
<1>1. Moves(p, Checked("set", u, None, None, w))
  BY SetReadMoves DEF IInv
<1> QED BY <1>1, CheckedSafe DEF SetRead

\* and of ChangePassword,
LEMMA ChangeReadSafe == ASSUME IInv, NEW p \in Proc, NEW u \in User, NEW w \in Password, ChangeRead(p, u, w) PROVE IInv'
<1>1. PICK old \in Hashes(u) : Moves(p, Checked("change", u, None, old, w))
  BY ChangeReadMoves DEF IInv
<1> QED BY <1>1, CheckedSafe DEF ChangeRead

\* their writes,
LEMMA WriteSafe == ASSUME IInv, NEW p \in Proc, BindWrite(p) \/ PasswordWrite(p) PROVE IInv'
<1>1. /\ TypeOK /\ Stages /\ Known /\ Apart /\ Owned /\ Announced /\ CallsTied /\ Makers
      /\ OnePassword /\ ChecksHold
  BY DEF IInv
<1>2. PICK pc \in {"done", "refused"} : StepOK(p, [Idle EXCEPT !.pc = pc])
  BY <1>1, WriteOK
<1> DEFINE g == [Idle EXCEPT !.pc = pc]
<1>3. g.call = None
  BY IdleFields DEF Flight
<1>4. /\ Tables(p) /\ identity' \in [Key -> IdentityRow] /\ flight[p].call = None
      /\ account' = account /\ maker' = maker /\ call' = call /\ drawn' = drawn /\ outbox' = outbox
  BY <1>1, WriteTables
<1> HIDE DEF g
<1>5. Stages' /\ Known' /\ Apart' /\ flight' \in [Proc -> Flight] /\ Moves(p, g)
  BY <1>1, <1>2, <1>4, StepNext DEF CallsStay, StepOK, g
<1>6. CallsTied' /\ Makers'
  BY <1>1, <1>3, <1>4, <1>5, CallsQuiet
<1>7. Owned' /\ Announced' /\ OnePassword' /\ ChecksHold'
  BY <1>1, <1>5, WriteAccounts, WriteChecks
<1>8. faults' = faults
  BY DEF BindWrite, PasswordWrite
<1>9. TypeOK'
  BY <1>1, <1>4, <1>5, <1>8 DEF TypeOK
<1> QED BY <1>5, <1>6, <1>7, <1>9 DEF IInv

\* the commit of a registration,
LEMMA CommitSafe == ASSUME IInv, NEW p \in Proc, Commit(p) PROVE IInv'
<1>1. /\ TypeOK /\ Stages /\ Known /\ Apart /\ Owned /\ Announced /\ CallsTied /\ Makers
      /\ OnePassword /\ ChecksHold
  BY DEF IInv
<1>2. CallsTied' /\ Makers' /\ CallsStay /\ maker' \in [User -> Call \cup {None}]
  BY <1>1, CommitCalls
<1>3. Stages' /\ Known' /\ Apart' /\ flight' \in [Proc -> Flight]
  BY <1>1, <1>2, CommitOK, StepNext
<1>4. Owned' /\ Announced' /\ OnePassword' /\ outbox' \in Seq(User)
  BY <1>1, CommitAccounts
<1>5. ChecksHold'
  BY <1>1, <1>3, CommitChecks
<1>6. /\ account' = account \cup {flight[p].user} /\ flight[p].user \in User /\ drawn' = drawn /\ call' = call
      /\ identity' \in [Key -> IdentityRow]
  BY <1>1, CommitTables
<1>7. faults' = faults
  BY DEF Commit
<1>8. TypeOK'
  BY <1>1, <1>2, <1>3, <1>4, <1>6, <1>7 DEF TypeOK
<1> QED BY <1>2, <1>3, <1>4, <1>5, <1>8 DEF IInv

\* RegisterBegin, Respond, Crash.
LEMMA CallSafe ==
    ASSUME IInv, NEW p \in Proc, NEW g, StepOK(p, g), Quiet, CallsStay, CallsTied', Makers', g.pc # "write",
           outbox' = outbox, call' \in [Call -> CallRow], drawn' \in SUBSET User, faults' \in Nat
    PROVE  IInv'
<1>1. /\ TypeOK /\ Stages /\ Known /\ Apart /\ Owned /\ Announced /\ OnePassword /\ ChecksHold
  BY DEF IInv
<1>2. Stages' /\ Known' /\ Apart' /\ flight' \in [Proc -> Flight]
  BY <1>1, StepNext
<1>3. Owned' /\ Announced' /\ OnePassword'
  BY <1>1, QuietAccounts
<1>4. ChecksHold'
  BY <1>1, <1>2, QuietChecks DEF StepOK, Quiet
<1>5. TypeOK'
  BY <1>1, <1>2, OthersTyped DEF Quiet
<1> QED BY <1>2, <1>3, <1>4, <1>5 DEF IInv

\* its begin,
LEMMA BeginSafe ==
    ASSUME IInv, NEW p \in Proc, NEW c \in Call, NEW u \in User, RegisterBegin(p, c, u) PROVE IInv'
<1>1. StepOK(p, Begun(c, u)) /\ Quiet /\ CallsStay
  BY BeginOK DEF IInv
<1>2. CallsTied' /\ Makers' /\ call' \in [Call -> CallRow]
  BY BeginCalls DEF IInv
<1>3. Begun(c, u).pc # "write"
  BY IdleFields DEF Begun, Flight
<1>4. outbox' = outbox /\ drawn' \in SUBSET User /\ faults' \in Nat
  BY DEF RegisterBegin, IInv, TypeOK
<1> QED BY <1>1, <1>2, <1>3, <1>4, CallSafe

\* answers and crashes,
LEMMA EndSafe == ASSUME IInv, NEW p \in Proc, Respond(p) \/ Crash(p) PROVE IInv'
<1>1. StepOK(p, Idle) /\ Quiet
  BY EndOK DEF IInv
<1>2. CallsTied' /\ Makers' /\ CallsStay /\ call' \in [Call -> CallRow]
  BY EndCalls DEF IInv
<1>3. outbox' = outbox /\ drawn' \in SUBSET User /\ faults' \in Nat
  BY DEF Respond, Crash, Fault, IInv, TypeOK
<1> QED BY <1>1, <1>2, <1>3, IdleFields, CallSafe

\* Ask and LoseAnswer: no handler moves.
LEMMA ClientSafe ==
    ASSUME IInv, CallsTied', Makers', CallsStay, call' \in [Call -> CallRow], faults' \in Nat,
           UNCHANGED <<account, identity, outbox, flight, drawn, maker>>
    PROVE  IInv'
<1>1. Stages'
  BY StageSame DEF IInv, Stages, CallsStay, SameFields, TypeOK
<1>2. TypeOK'
  BY DEF IInv, TypeOK
<1>3. Known' /\ Apart' /\ Owned' /\ Announced' /\ OnePassword'
  BY DEF IInv, Known, Apart, Owned, Announced, OnePassword
<1>4. ChecksHold'
  BY DEF IInv, ChecksHold, At, KeysOf, Hashes
<1> QED BY <1>1, <1>2, <1>3, <1>4 DEF IInv

\* lost answers,
LEMMA LoseSafe == ASSUME IInv, NEW c \in Call, LoseAnswer(c) PROVE IInv'
<1>1. CallsTied' /\ Makers' /\ CallsStay /\ call' \in [Call -> CallRow]
  BY LoseCalls DEF IInv
<1> QED BY <1>1, ClientSafe DEF LoseAnswer, Fault, IInv, TypeOK

\* new calls,
LEMMA AskSafe ==
    ASSUME IInv, NEW c \in Call, NEW h \in Phone, NEW e \in Email, NEW n \in Name, NEW w \in Password,
           Ask(c, h, e, n, w)
    PROVE  IInv'
<1>1. CallsTied' /\ Makers' /\ CallsStay /\ call' \in [Call -> CallRow]
  BY AskCalls DEF IInv
<1> QED BY <1>1, ClientSafe DEF Ask, IInv, TypeOK

\* and a step that changes nothing.
LEMMA StutterSafe == ASSUME IInv, UNCHANGED vars PROVE IInv'
<1>1. /\ call' = call /\ flight' = flight /\ account' = account /\ identity' = identity /\ outbox' = outbox
      /\ drawn' = drawn /\ maker' = maker /\ faults' = faults
  BY DEF vars
<1>2. CallsTied' /\ Makers'
  BY <1>1 DEF IInv, CallsTied, Makers
<1> QED BY <1>1, <1>2, ClientSafe DEF CallsStay, IInv, TypeOK

\* So does every step.
LEMMA NextSafe == IInv /\ [Next]_vars => IInv'
<1> SUFFICES ASSUME IInv, [Next]_vars PROVE IInv'
  OBVIOUS
<1>1. ASSUME CallNext PROVE IInv'
  BY <1>1, LoseSafe, AskSafe DEF CallNext
<1>2. ASSUME NEW p \in Proc, RegisterNext(p) PROVE IInv'
  BY <1>2, BeginSafe, InsertSafe, EventSafe, CommitSafe, EndSafe DEF RegisterNext
<1>3. ASSUME NEW p \in Proc, PhoneNext(p) PROVE IInv'
  BY <1>3, PhoneBeginSafe, PhoneSafe, PhoneRegisterSafe DEF PhoneNext
<1>4. ASSUME NEW p \in Proc, ChangeNext(p) PROVE IInv'
  BY <1>4, BindReadSafe, SetReadSafe, ChangeReadSafe, WriteSafe DEF ChangeNext
<1>5. ASSUME NEW p \in Proc, Crash(p) PROVE IInv'
  BY <1>5, EndSafe
<1> QED BY <1>1, <1>2, <1>3, <1>4, <1>5, StutterSafe DEF Next

\* The empty database satisfies the invariant.
LEMMA InitSafe == Init => IInv
<1> SUFFICES ASSUME Init PROVE IInv
  OBVIOUS
<1>1. flight = [p \in Proc |-> Idle] /\ call = [c \in Call |-> NotCalled]
  BY DEF Init
<1>2. NotCalled \in CallRow /\ NotCalled.state = "new" /\ NotCalled.at = None /\ NotCalled.lost = FALSE
  <2>1. <<>> \in Seq(Key) /\ 0 \in Nat
    OBVIOUS
  <2> QED BY <2>1 DEF NotCalled, CallRow, OptPassword
<1>3. TypeOK
  <2>1. Free \in IdentityRow /\ <<>> \in Seq(User) /\ 0 \in Nat
    BY DEF Free, IdentityRow, OptUser, OptPassword
  <2> QED BY <1>2, <2>1, IdleFields DEF Init, TypeOK
<1>4. Stages
  BY <1>1, IdleFields DEF Stages, Stage, RestStage, Empty, InTx
<1>5. Known /\ Apart
  BY <1>1, IdleFields DEF Known, Knows, Apart, InTx
<1>6. Owned /\ Announced /\ OnePassword /\ Makers
  BY DEF Init, Free, Owned, Announced, OnePassword, Makers
<1>7. CallsTied
  BY <1>1, <1>2, IdleFields, NoneAssumption DEF CallsTied
<1>8. ChecksHold
  BY <1>1, IdleFields DEF ChecksHold, At
<1> QED BY <1>3, <1>4, <1>5, <1>6, <1>7, <1>8 DEF IInv

-----------------------------------------------------------------------------
(* The theorems                                                            *)

\* The properties follow: an account is whole,
LEMMA WholeFollows == IInv => AccountsWhole
<1> SUFFICES ASSUME IInv PROVE AccountsWhole
  OBVIOUS
<1>1. ASSUME NEW u \in account
      PROVE  KeysOf(u) # {} /\ Cardinality(Events(u)) = 1
  <2>1. KeysOf(u) # {}
    BY DEF IInv, Owned, KeysOf
  <2>2. PICK i \in DOMAIN outbox : \A j \in DOMAIN outbox : outbox[j] = u <=> j = i
    BY DEF IInv, Announced
  <2>3. Events(u) = {i}
    BY <2>2 DEF Events
  <2> QED BY <2>1, <2>3, FS_Singleton
<1> QED BY <1>1 DEF IInv, Owned, Announced, AccountsWhole

\* Keys are inserted in the order phone, email, name: a transaction only waits for
\* one that has come further than itself.
LEMMA MineBehind ==
    ASSUME NEW f \in Flight, NEW cl, Stage(f, cl)
    PROVE  /\ f.pc = "insert" => Head(f.todo) \in Key
           /\ f.pc = "insert" /\ Head(f.todo) \in Phone => f.mine = {}
           /\ f.pc = "insert" /\ Head(f.todo) \in Email => f.mine \subseteq Phone
           /\ f.pc = "insert" /\ Head(f.todo) \in Name => f.mine \subseteq Phone \cup Email
<1> SUFFICES ASSUME f.pc = "insert"
             PROVE  /\ Head(f.todo) \in Key
                    /\ Head(f.todo) \in Phone => f.mine = {}
                    /\ Head(f.todo) \in Email => f.mine \subseteq Phone
                    /\ Head(f.todo) \in Name => f.mine \subseteq Phone \cup Email
  OBVIOUS
<1>1. f.op \in {"register", "phone"} /\ Head(f.todo) \in Key
  BY InsertFacts
<1>2. CASE f.op = "register"
  <2>1. PICK h \in Phone, e \in Email, n \in Name : Registering(f, h, e, n)
    BY <1>2 DEF Stage, RegisterStage
  <2>2. h \in Key /\ e \in Key /\ n \in Key
    BY DEF Key
  <2>3. CASE f.todo = <<h, e, n>> /\ f.mine = {}
    BY <1>1, <2>3
  <2>4. CASE f.todo = <<e, n>> /\ f.mine = {h}
    <3>1. Head(f.todo) = e
      BY <2>2, <2>4, Tuples
    <3> QED BY <1>1, <2>4, <3>1, KeyAssumption
  <2>5. CASE f.todo = <<n>> /\ f.mine = {h, e}
    <3>1. Head(f.todo) = n
      BY <2>2, <2>5, Tuples
    <3> QED BY <1>1, <2>5, <3>1, KeyAssumption
  <2> QED BY <2>1, <2>3, <2>4, <2>5 DEF Registering
<1>3. CASE f.op = "phone"
  BY <1>1, <1>3 DEF Stage, PhoneStage
<1> QED BY <1>1, <1>2, <1>3

\* the handler that waits for the largest key waits for nobody in the set,
LEMMA NoCycleFollows == IInv => NoWaitCycle
<1> SUFFICES ASSUME IInv, NEW S \in SUBSET Proc, S # {}
             PROVE  \E p \in S : \A q \in S : ~Waits(p, q)
  BY DEF NoWaitCycle
<1>1. \A p \in Proc : flight[p] \in Flight /\ Stage(flight[p], call)
  BY DEF IInv, TypeOK, Stages
<1>2. ASSUME NEW p \in S, NEW q \in S, Waits(p, q)
      PROVE  /\ flight[p].pc = "insert" /\ Head(flight[p].todo) \in Key /\ Head(flight[p].todo) \in flight[q].mine
  BY <1>1, <1>2, MineBehind DEF Waits, At, Holds
<1>3. CASE \E p \in S : flight[p].pc # "insert"
  BY <1>2, <1>3
<1>4. CASE (\A p \in S : flight[p].pc = "insert") /\ \E p \in S : Head(flight[p].todo) \in Name
  <2>1. PICK p \in S : Head(flight[p].todo) \in Name
    BY <1>4
  <2>2. \A q \in S : flight[q].mine \subseteq Phone \cup Email
    BY <1>1, <1>4, MineBehind DEF Key
  <2> QED BY <1>2, <2>1, <2>2, KeyAssumption
<1>5. CASE (\A p \in S : flight[p].pc = "insert" /\ Head(flight[p].todo) \notin Name)
           /\ \E p \in S : Head(flight[p].todo) \in Email
  <2>1. PICK p \in S : Head(flight[p].todo) \in Email
    BY <1>5
  <2>2. \A q \in S : flight[q].mine \subseteq Phone
    BY <1>1, <1>5, MineBehind DEF Key
  <2> QED BY <1>2, <2>1, <2>2, KeyAssumption
<1>6. CASE \A p \in S : flight[p].pc = "insert" /\ Head(flight[p].todo) \notin Name \cup Email
  <2>1. \A q \in S : flight[q].mine = {}
    BY <1>1, <1>6, MineBehind DEF Key
  <2> QED BY <1>2, <2>1
<1> QED BY <1>3, <1>4, <1>5, <1>6

\* a phone entry ends with the owner,
LEMMA PhoneFollows == IInv => PhoneFindsItsOwner
BY DEF IInv, Stages, Stage, PhoneStage, Known, Knows, PhoneFindsItsOwner, At

\* and a call makes one account.
LEMMA RetriesFollow == IInv => RetriesAreSafe
<1> SUFFICES ASSUME IInv, NEW c \in Call
             PROVE  LET made == {u \in account : maker[u] = c} IN
                    /\ Cardinality(made) <= 1
                    /\ call[c].state = "ok" => made # {}
                    /\ call[c].state = "refused" /\ made # {} => call[c].lost
  BY DEF RetriesAreSafe
<1> DEFINE made == {u \in account : maker[u] = c}
<1>1. \A u \in made : identity[call[c].keys[1]].user = u
  BY DEF IInv, Makers
<1>2. Cardinality(made) <= 1
  <2>1. CASE made = {}
    BY <2>1, FS_EmptySet
  <2>2. CASE made # {}
    <3>1. PICK u \in made : made = {u}
      BY <1>1, <2>2
    <3>2. Cardinality({u}) = 1
      BY FS_Singleton
    <3> QED BY <3>1, <3>2
  <2> QED BY <2>1, <2>2
<1>3. call[c].state = "ok" => made # {}
  BY DEF IInv, CallsTied
<1>4. ASSUME call[c].state = "refused", made # {}
      PROVE  call[c].lost
  BY <1>4 DEF IInv, CallsTied, Makers
<1> QED BY <1>2, <1>3, <1>4

\* IInv holds in every state of every behaviour.
THEOREM AccountsInvariance == Spec => []IInv
BY InitSafe, NextSafe, PTL DEF Spec

\* The tables, the handlers and the gateway's calls keep their types.
THEOREM AccountsTypeCorrect == Spec => []TypeOK
BY AccountsInvariance, PTL DEF IInv

\* Registration is all or nothing: an account has an identity and exactly one event,
\* and nothing belongs to a user that does not exist.
THEOREM WholeAccounts == Spec => []AccountsWhole
BY AccountsInvariance, WholeFollows, PTL

\* However many transactions wait for each other's keys, one of them can go on.
THEOREM NoDeadlock == Spec => []NoWaitCycle
BY AccountsInvariance, NoCycleFollows, PTL

\* A user has one password.
THEOREM OnePasswordEach == Spec => []OnePassword
BY AccountsInvariance, PTL DEF IInv

\* Only another request for the same account outdates what a handler has checked.
THEOREM ChecksStand == Spec => []ChecksHold
BY AccountsInvariance, PTL DEF IInv

\* A verified phone ends at the one account that owns it.
THEOREM PhoneSignsIn == Spec => []PhoneFindsItsOwner
BY AccountsInvariance, PhoneFollows, PTL

\* However often a Register call is repeated, it makes at most one account.
THEOREM SafeRetries == Spec => []RetriesAreSafe
BY AccountsInvariance, RetriesFollow, PTL

-----------------------------------------------------------------------------
(* The accounts with the bus                                               *)

\* The composition implements Accounts.
THEOREM SignUpImplementsAccounts == SignUpSpec => Spec
<1>1. SignUpInit => Init
  BY DEF SignUpInit
<1>2. [SignUpNext]_SignUpVars => [Next]_vars
  BY DEF SignUpNext, BusNext, Relay, SavePosition, Subscribe, Fetch, Handle, CommitOffset, Ack, BusTrouble,
         ConnectorRestart, HandleFails, CommitFails, SubscriberRestart, Nak, SignUpVars, vars
<1> QED BY <1>1, <1>2, PTL DEF SignUpSpec, Spec

-----------------------------------------------------------------------------
(* The bus                                                                 *)

\* The rows of the outbox never change; new ones are added at its end.
Grows ==
    /\ outbox' \in Seq(User) /\ Len(outbox) <= Len(outbox')
    /\ \A i \in 1..Len(outbox) : outbox'[i] = outbox[i]

\* No step of the accounts takes an event back.
LEMMA OutboxGrows ==
    ASSUME IInv, [Next]_vars
    PROVE  Grows
<1>1. outbox \in Seq(User) /\ Len(outbox) \in Nat
  BY LenProperties DEF IInv, TypeOK
<1>2. CASE outbox' = outbox
  BY <1>1, <1>2 DEF Grows
<1>3. ASSUME NEW p \in Proc, Commit(p)
      PROVE  Grows
  <2>1. outbox' = Append(outbox, flight[p].user) /\ flight[p].user \in User
    BY <1>3, CommitTables DEF IInv
  <2> QED BY <1>1, <2>1, AppendProperties, LenProperties DEF Grows
<1>4. outbox' = outbox \/ \E p \in Proc : Commit(p)
  BY ZenonT(60) DEF Next, CallNext, LoseAnswer, Ask, RegisterNext, RegisterBegin, Insert, AppendEvent, Respond,
         PhoneNext, PhoneBegin, PhoneFind, PhoneAgain, PhoneRegister, ChangeNext, BindRead, SetRead,
         ChangeRead, BindWrite, PasswordWrite, Crash, vars
<1> QED BY <1>2, <1>3, <1>4

Counters ==
    /\ read \in 0..Len(outbox) /\ saved \in 0..read
    /\ position \in 0..Len(topic) /\ committed \in 0..position
    /\ step \in {"fetch", "handle", "commit"}
    /\ taken \subseteq 1..Len(topic) /\ acked \subseteq 1..Len(topic) /\ failed \subseteq 1..Len(topic)
    /\ troubles \in Nat

\* Everything up to position has been handled, but for the message that is being
\* handled; that one is not committed.
Handled ==
    /\ \A i \in 1..position : i \in taken \cup failed \/ (i = position /\ step = "handle")
    /\ step = "handle" => committed < position
    /\ step = "commit" => position \in taken /\ position > 0

BusInv == topic \in Seq({outbox[i] : i \in 1..Len(outbox)}) /\ Counters /\ Handled

\* The bus starts empty.
LEMMA BusInitSafe == SignUpInit => BusInv
<1> SUFFICES ASSUME SignUpInit PROVE BusInv
  OBVIOUS
<1>1. topic = <<>> /\ outbox = <<>> /\ Len(topic) = 0 /\ Len(outbox) = 0
  BY DEF SignUpInit, Init, BusInit
<1>2. topic \in Seq({outbox[i] : i \in 1..Len(outbox)})
  BY <1>1
<1> QED BY <1>1, <1>2 DEF SignUpInit, BusInit, BusInv, Counters, Handled

\* A step of the accounts only lengthens the outbox.
LEMMA AccountsKeepBus ==
    ASSUME IInv, BusInv, Grows, UNCHANGED bus
    PROVE  BusInv'
<1>1. Len(outbox) \in Nat /\ Len(outbox') \in Nat
  BY LenProperties DEF Grows, IInv, TypeOK
<1>2. {outbox[i] : i \in 1..Len(outbox)} \subseteq {outbox'[i] : i \in 1..Len(outbox')}
  BY <1>1 DEF Grows
<1>3. topic' \in Seq({outbox'[i] : i \in 1..Len(outbox')})
  <2> DEFINE S == {outbox[i] : i \in 1..Len(outbox)}
             T == {outbox'[i] : i \in 1..Len(outbox')}
  <2>1. topic \in Seq(S) /\ S \subseteq T /\ topic' = topic
    BY <1>2 DEF BusInv, bus
  <2> HIDE DEF S, T
  <2>2. topic \in Seq(T)
    BY <2>1, LenProperties, ElementOfSeq, SeqDef
  <2> QED BY <2>1, <2>2 DEF T
<1>4. Counters'
  BY <1>1 DEF Counters, Grows, BusInv, bus
<1> QED BY <1>3, <1>4 DEF BusInv, Handled, bus

\* The connector reads one more row of the outbox.
LEMMA RelayKeepsBus ==
    ASSUME IInv, BusInv, Relay
    PROVE  BusInv'
<1> DEFINE S == {outbox[i] : i \in 1..Len(outbox)}
           x == outbox[read + 1]
<1>1. Len(outbox) \in Nat /\ read \in Nat /\ read < Len(outbox)
  BY LenProperties DEF IInv, TypeOK, Relay, BusInv, Counters
<1>2. x \in S /\ topic \in Seq(S) /\ topic' = Append(topic, x) /\ outbox' = outbox /\ read' = read + 1
  BY <1>1 DEF BusInv, Relay
<1> HIDE DEF S, x
<1>3. topic' \in Seq(S) /\ Len(topic') = Len(topic) + 1 /\ Len(topic) \in Nat
  BY <1>2, AppendProperties, LenProperties
<1>4. UNCHANGED <<saved, position, step, committed, taken, acked, failed, troubles>>
  BY DEF Relay
<1>5. Counters'
  BY <1>1, <1>2, <1>3, <1>4 DEF Counters, BusInv
<1>6. Handled'
  BY <1>4 DEF Handled, BusInv
<1> QED BY <1>2, <1>3, <1>5, <1>6 DEF BusInv, S

\* Subscribers, restarts and failures move within what the topic holds.
LEMMA SubscriberKeepsBus ==
    ASSUME BusInv, Len(topic) \in Nat, Len(outbox) \in Nat,
           SavePosition \/ Subscribe \/ Ack \/ BusTrouble
    PROVE  BusInv'
<1>1. topic' = topic /\ outbox' = outbox
  BY DEF SavePosition, Subscribe, Fetch, Handle, CommitOffset, Ack, BusTrouble, ConnectorRestart, HandleFails,
         CommitFails, SubscriberRestart, Nak
<1> USE DEF BusInv, Counters, Handled, Trouble
<1>2. CASE SavePosition
  BY <1>1, <1>2 DEF SavePosition
<1>3. CASE Fetch
  BY <1>1, <1>3 DEF Fetch
<1>4. CASE Handle
  BY <1>1, <1>4 DEF Handle
<1>5. CASE CommitOffset
  BY <1>1, <1>5 DEF CommitOffset
<1>6. CASE Ack
  BY <1>1, <1>6 DEF Ack
<1>7. CASE ConnectorRestart
  BY <1>1, <1>7 DEF ConnectorRestart
<1>8. CASE HandleFails
  BY <1>1, <1>8 DEF HandleFails
<1>9. CASE CommitFails
  BY <1>1, <1>9 DEF CommitFails
<1>10. CASE SubscriberRestart
  BY <1>1, <1>10 DEF SubscriberRestart
<1>11. CASE Nak
  BY <1>1, <1>11 DEF Nak
<1> QED BY <1>2, <1>3, <1>4, <1>5, <1>6, <1>7, <1>8, <1>9, <1>10, <1>11 DEF Subscribe, BusTrouble

\* Every step keeps the bus in order.
LEMMA BusNextSafe == IInv /\ BusInv /\ [SignUpNext]_SignUpVars => BusInv'
<1> SUFFICES ASSUME IInv, BusInv, [SignUpNext]_SignUpVars PROVE BusInv'
  OBVIOUS
<1>1. Len(topic) \in Nat /\ Len(outbox) \in Nat
  BY LenProperties DEF IInv, TypeOK, BusInv
<1>2. CASE [Next]_vars /\ UNCHANGED bus
  BY <1>2, OutboxGrows, AccountsKeepBus
<1>3. CASE BusNext
  BY <1>1, <1>3, RelayKeepsBus, SubscriberKeepsBus DEF BusNext
<1> QED BY <1>2, <1>3 DEF SignUpNext, SignUpVars

\* The properties of the bus follow.
LEMMA BusFollows == BusInv => BusTypeOK /\ PassedOnlyAfterHandling
<1> SUFFICES ASSUME BusInv PROVE BusTypeOK /\ PassedOnlyAfterHandling
  OBVIOUS
<1>1. Len(topic) \in Nat /\ topic \in Seq({outbox[i] : i \in 1..Len(outbox)})
  BY LenProperties DEF BusInv
<1>2. BusTypeOK
  BY <1>1 DEF BusInv, Counters, BusTypeOK
<1>3. PassedOnlyAfterHandling
  BY <1>1 DEF BusInv, Counters, Handled, PassedOnlyAfterHandling
<1> QED BY <1>2, <1>3

-----------------------------------------------------------------------------
\* Both invariants hold in every state.
LEMMA SignUpInvariance == SignUpSpec => [](IInv /\ BusInv)
<1>1. SignUpSpec => []IInv
  BY SignUpImplementsAccounts, AccountsInvariance, PTL
<1> QED BY <1>1, BusInitSafe, BusNextSafe, PTL DEF SignUpSpec

\* Accounts, connector and consumers keep their types.
THEOREM SignUpTypesCorrect == SignUpSpec => []TypesOK
BY SignUpInvariance, BusFollows, PTL DEF TypesOK, IInv

\* The offset passes a message only after its handler has run, whatever restarts.
THEOREM NothingPassedUnhandled == SignUpSpec => []PassedOnlyAfterHandling
BY SignUpInvariance, BusFollows, PTL

\* Also next to the bus, an account has exactly one event, which the bus can carry.
THEOREM WholeAccountsOnTheBus == SignUpSpec => []AccountsWhole
BY SignUpImplementsAccounts, WholeAccounts, PTL

=============================================================================
