----------------------- MODULE EnrichPipeline_proofs -----------------------
(***************************************************************************)
(* The safety of EnrichPipeline for any number of snippets, processes and  *)
(* workers, with any failures and restarts: no event is acknowledged       *)
(* before its snippet is taken care of, and stale metadata has a cause.    *)
(***************************************************************************)
EXTENDS EnrichPipeline, SequenceTheorems, FiniteSetTheorems, WellFoundedInduction, TLAPS

Pc == {"start", "poll", "load", "lock", "check", "llm", "release", "ack"}
Work(n) == [pc : Pc, todo : SUBSET (1..n), blank : SUBSET (1..n), draining : BOOLEAN,
            snap : Text \cup {None}, holds : BOOLEAN, ok : BOOLEAN]

\* Before a worker looks at a message; with a text in hand; inside Enrich.
Reads    == {"start", "poll", "load"}
WithText == {"lock", "check", "llm"}
Inside   == WithText \cup {"release"}

\* The message a worker has in hand, as a function of what the worker is doing.
Hand(f) == CHOOSE i \in f.todo : \A j \in f.todo : i <= j

\* A worker that is not reading has a message in hand; in Enrich it has read a text,
\* and it leaves with success only when there is metadata.
Handles(f, st, mt) ==
    /\ f.pc \in {"start", "poll"} <=> f.todo = {}
    /\ f.pc \in WithText => f.snap \in Text
    /\ f.pc = "release" /\ f.ok => mt[st[Hand(f)]] # None
Handled == \A w \in Worker : Handles(work[w], stream, meta)

\* The messages a worker has still to handle are pending under its name, and nobody
\* else has them, unless it was noted that they are shared.
Owns(wk, p, w, i) == i \in p[Name(w)] /\ \A v \in Worker \ {w} : i \notin wk[v].todo
AllOwned(wk, p, st, ex) ==
    \A w \in Worker : \A i \in wk[w].todo : "shared" \in ex[st[i]] \/ Owns(wk, p, w, i)
Owned == AllOwned(work, pel, stream, excused)

\* Two workers are inside Enrich with one snippet only if that was noted.
Working(f, st, s) == f.pc \in Inside /\ st[Hand(f)] = s
Alone(wk, st, s) == \A v, w \in Worker : Working(wk[v], st, s) /\ Working(wk[w], st, s) => v = w
OverlapsNoted == \A s \in Snippet : Alone(work, stream, s) \/ "overlap" \in excused[s]

\* An event of s is still to come: not published, or not delivered.
ToCome(un, st, nx, s) == un[s] > 0 \/ \E i \in DOMAIN st : i > nx /\ st[i] = s

\* A pending event of s that nobody is about to acknowledge.
Kept(f, i) == ~(f.pc = "ack" /\ f.ok /\ Hand(f) = i)
AllKeep(wk, i) == \A u \in Worker : Kept(wk[u], i)
SomeKept(wk, p, st, s) == \E c \in Consumer : \E i \in p[c] : st[i] = s /\ AllKeep(wk, i)
NoneLost ==
    \A s \in Snippet :
        text[s] # None /\ meta[s] = None /\ excused[s] \cap {"short", "unsent", "orphan", "trimmed", "shared"} = {}
            => ToCome(unsent, stream, next, s) \/ SomeKept(work, pel, stream, s)

\* The metadata of s is out of date, or a worker is about to make it so; and a pending
\* event of s whose handler will find that out, or fail.
Lags(f, st, tx, s) == f.pc \in WithText /\ st[Hand(f)] = s /\ f.snap # tx[s]
Lagging(mt, tx, wk, st, s) == mt[s] # tx[s] \/ \E w \in Worker : Lags(wk[w], st, tx, s)
Fresh(f, i, t) ==
    \/ f.pc \in Reads \/ Hand(f) # i
    \/ f.pc \in WithText /\ f.snap = t
    \/ f.pc \in {"release", "ack"} /\ ~f.ok
AllFresh(wk, i, t) == \A u \in Worker : Fresh(wk[u], i, t)
SomeFresh(wk, p, st, tx, s) ==
    \E c \in Consumer : \E i \in p[c] : st[i] = s /\ AllFresh(wk, i, tx[s])
LagNoted ==
    \A s \in Snippet :
        text[s] \in Text \ Short /\ excused[s] \cap {"overlap", "unsent", "orphan", "trimmed"} = {}
        /\ Lagging(meta, text, work, stream, s)
            => ToCome(unsent, stream, next, s) \/ SomeFresh(work, pel, stream, text, s)

Safe == Handled /\ Owned /\ OverlapsNoted /\ NoneLost /\ LagNoted
IInv == TypeOK /\ Safe

-----------------------------------------------------------------------------
(* Messages in hand                                                        *)

\* A non-empty set of numbers has a least one.
LEMMA MinExists ==
    ASSUME NEW S \in SUBSET Nat, S # {}
    PROVE  \E i \in S : \A j \in S : i <= j
<1> DEFINE R == {ss \in Nat \X Nat : ss[1] < ss[2]}
<1>1. IsWellFoundedOn(R, Nat)
  BY NatLessThanWellFounded DEF OpToRel
<1>2. \A m, n \in Nat : m < n => <<m, n>> \in R
  OBVIOUS
<1> HIDE DEF R
<1>3. PICK x \in S : \A y \in S : ~(<<y, x>> \in R)
  BY <1>1, WFMin
<1>4. \A y \in S : ~(y < x)
  BY <1>2, <1>3
<1> QED BY <1>4

\* A worker with messages has one in hand.
LEMMA HandIn ==
    ASSUME NEW f, f.todo \in SUBSET Nat, f.todo # {}
    PROVE  Hand(f) \in f.todo
<1>1. \E i \in f.todo : \A j \in f.todo : i <= j
  BY MinExists
<1> QED BY <1>1 DEF Hand

\* What the model calls the current message.
LEMMA HandIsCurrent ==
    ASSUME NEW w \in Worker
    PROVE  Current(w) = Hand(work[w]) /\ Subject(w) = stream[Hand(work[w])]
BY DEF Current, Subject, Hand

\* Who has the same messages left has the same one in hand.
LEMMA SameHand ==
    ASSUME NEW f, NEW g, f.todo = g.todo
    PROVE  Hand(f) = Hand(g)
BY DEF Hand

\* The oldest pending entries are some, if there are any.
LEMMA OldestExist ==
    ASSUME NEW P \in SUBSET Nat, P # {}
    PROVE  {i \in P : Cardinality({j \in P : j < i}) < Batch} # {}
<1>1. PICK m \in P : \A j \in P : m <= j
  BY MinExists
<1>2. {j \in P : j < m} = {}
  <2>1. ASSUME NEW j \in P, j < m PROVE FALSE
    BY <1>1, <2>1
  <2> QED BY <2>1
<1>3. Cardinality({j \in P : j < m}) < Batch
  <2>1. Cardinality({}) = 0
    BY FS_EmptySet
  <2> QED BY ONLY <1>2, <2>1, CountAssumption
<1> QED BY <1>3

-----------------------------------------------------------------------------
(* Types                                                                   *)

\* The records that the steps make.
LEMMA WorkFields ==
    ASSUME NEW n \in Nat, NEW r \in Work(n), NEW p \in Pc, NEW T \in SUBSET (1..n),
           NEW t \in Text \cup {None}, NEW b \in BOOLEAN
    PROVE  /\ [r EXCEPT !.pc = p] \in Work(n)
           /\ [r EXCEPT !.ok = b] \in Work(n)
           /\ [r EXCEPT !.holds = b] \in Work(n)
           /\ [r EXCEPT !.draining = b] \in Work(n)
           /\ [r EXCEPT !.snap = t] \in Work(n)
           /\ [r EXCEPT !.todo = T] \in Work(n)
           /\ [r EXCEPT !.blank = T] \in Work(n)
BY DEF Work

\* The same for the changes of several fields that steps make.
LEMMA PcFields ==
    ASSUME NEW n \in Nat, NEW r \in Work(n), NEW p \in Pc, NEW T \in SUBSET (1..n),
           NEW B \in SUBSET (1..n), NEW t \in Text \cup {None}, NEW b \in BOOLEAN
    PROVE  /\ [r EXCEPT !.pc = p, !.ok = b] \in Work(n)
           /\ [r EXCEPT !.pc = p, !.holds = b] \in Work(n)
           /\ [r EXCEPT !.pc = p, !.draining = b] \in Work(n)
           /\ [r EXCEPT !.pc = p, !.snap = t] \in Work(n)
           /\ [r EXCEPT !.pc = p, !.todo = T, !.blank = B] \in Work(n)
           /\ [r EXCEPT !.todo = T, !.pc = p, !.snap = None, !.holds = FALSE, !.ok = FALSE] \in Work(n)
<1>1. [r EXCEPT !.pc = p] \in Work(n)
  BY WorkFields
<1>2. [r EXCEPT !.todo = T] \in Work(n)
  BY WorkFields
<1> DEFINE r2 == [r EXCEPT !.todo = T, !.pc = p]
           r3 == [r2 EXCEPT !.snap = None]
           r4 == [r3 EXCEPT !.holds = FALSE]
<1>3. r2 \in Work(n)
  BY <1>2, WorkFields
<1>4. r3 \in Work(n)
  <2> HIDE DEF r2
  <2> QED BY <1>3, WorkFields
<1>5. r4 \in Work(n)
  <2> HIDE DEF r3
  <2> QED BY <1>4, WorkFields
<1>6. [r4 EXCEPT !.ok = FALSE] \in Work(n)
  <2> HIDE DEF r4
  <2> QED BY <1>5, WorkFields
<1> DEFINE q == [r EXCEPT !.pc = p, !.todo = T]
<1>7. q \in Work(n)
  BY <1>1, WorkFields
<1>8. [q EXCEPT !.blank = B] \in Work(n)
  <2> HIDE DEF q
  <2> QED BY <1>7, WorkFields
<1> QED BY <1>1, <1>6, <1>8, WorkFields

\* A record stays one when more entries have been delivered.
LEMMA WorkGrows ==
    ASSUME NEW n \in Nat, NEW m \in Nat, n <= m
    PROVE  Work(n) \subseteq Work(m)
<1>1. SUBSET (1..n) \subseteq SUBSET (1..m)
  OBVIOUS
<1> QED BY <1>1 DEF Work

\* A worker that has just started.
LEMMA IdleWork ==
    ASSUME NEW n \in Nat
    PROVE  Idle \in Work(n)
BY DEF Idle, Work, Pc

\* What TypeOK says of the numbers and the worker records, in the terms used here.
LEMMA Numbers ==
    ASSUME TypeOK
    PROVE  /\ next \in Nat /\ next <= Len(stream) /\ Len(stream) \in Nat
           /\ trimmed \in Nat /\ (trimmed = 0 \/ trimmed <= Len(stream) - MaxLen)
           /\ work \in [Worker -> Work(next)]
<1>1. Len(stream) \in Nat
  BY LenProperties DEF TypeOK
<1>2. trimmed \in {0} \cup (1..(Len(stream) - MaxLen)) /\ MaxLen \in Nat
  BY CountAssumption DEF TypeOK
<1>3. next \in Nat /\ next <= Len(stream)
  BY <1>1 DEF TypeOK
<1>4. work \in [Worker -> Work(next)]
  BY DEF TypeOK, Work, Pc
<1> QED BY <1>1, <1>2, <1>3, <1>4

\* A worker has a consumer name.
LEMMA NameIn ==
    ASSUME NEW w \in Worker
    PROVE  Name(w) \in Consumer
BY DEF Name, Worker

\* What is left when the message in hand has been handled.
LEMMA ReturnWork ==
    ASSUME TypeOK, NEW w \in Worker
    PROVE  Return(w) \in Work(next)
<1> DEFINE rest == work[w].todo \ {Current(w)}
<1>1. work[w] \in Work(next) /\ next \in Nat
  BY Numbers
<1>2. rest \in SUBSET (1..next)
  BY <1>1 DEF Work
<1>3. (IF rest = {} THEN IF work[w].draining THEN "start" ELSE "poll" ELSE "load") \in Pc
  BY DEF Pc
<1> HIDE DEF rest
<1>4. \A p \in Pc : [work[w] EXCEPT !.todo = rest, !.pc = p, !.snap = None, !.holds = FALSE, !.ok = FALSE] \in Work(next)
  BY ONLY <1>1, <1>2, PcFields
<1> QED BY <1>3, <1>4 DEF Return, rest

\* Steps of a worker that change its record, locks, metadata and excuses, but no queue.
LEMMA TypeByWorker ==
    ASSUME TypeOK, NEW w \in Worker, NEW f \in Work(next), Goto(w, f),
           UNCHANGED <<text, unsent, queue, saves, restarts>>, faults' \in Nat,
           lock' \in [Snippet -> Worker \cup {None}], meta' \in [Snippet -> Text \cup {None}],
           excused' \in [Snippet -> SUBSET Excuse]
    PROVE  TypeOK'
<1>1. work' \in [Worker -> Work(next)]
  BY Numbers DEF Goto
<1> QED BY <1>1 DEF TypeOK, queue, Work, Pc

\* A subject is a snippet.
LEMMA SubjectIn ==
    ASSUME TypeOK, NEW w \in Worker, work[w].todo # {}
    PROVE  Subject(w) \in Snippet /\ Current(w) \in work[w].todo /\ Current(w) \in DOMAIN stream
<1>1. work[w].todo \in SUBSET (1..next) /\ work[w].todo \in SUBSET Nat
  BY Numbers DEF Work
<1>2. Current(w) \in work[w].todo
  BY <1>1, HandIn, HandIsCurrent
<1>3. Current(w) \in 1..Len(stream)
  BY <1>1, <1>2, Numbers
<1>4. stream \in Seq(Snippet)
  BY DEF TypeOK
<1>5. Current(w) \in DOMAIN stream
  BY <1>3, <1>4, LenProperties
<1>6. stream[Current(w)] \in Snippet
  BY <1>3, <1>4, ElementOfSeq
<1> QED BY <1>2, <1>5, <1>6 DEF Subject

\* Steps outside the workers, and Restart, keep the types.
LEMMA TypeOutside ==
    ASSUME TypeOK,
           \/ \E s \in Snippet, t \in Text : Save(s, t)
           \/ \E s \in Snippet : Purge(s) \/ Publish(s) \/ PublishFails(s) \/ LockExpire(s)
           \/ \E p \in Process : Restart(p)
    PROVE  TypeOK'
<1>1. ASSUME NEW s \in Snippet, NEW t \in Text, Save(s, t) PROVE TypeOK'
  BY SMTT(60), <1>1 DEF Save, TypeOK, queue
<1>2. ASSUME NEW s \in Snippet, Purge(s) PROVE TypeOK'
  BY <1>2 DEF Purge, TypeOK, queue, ghost
<1>3. ASSUME NEW s \in Snippet, Publish(s) PROVE TypeOK'
  <2>1. stream' \in Seq(Snippet) /\ Len(stream') = Len(stream) + 1
    BY <1>3, AppendProperties DEF Publish, TypeOK
  <2>2. next' \in 0..Len(stream')
    BY <1>3, <2>1, Numbers DEF Publish
  <2>3. unsent' \in [Snippet -> Nat]
    BY <1>3 DEF Publish, TypeOK
  <2>4. trimmed' = trimmed \/ trimmed' \in (trimmed + 1)..(Len(stream) + 1 - MaxLen)
    BY <1>3 DEF Publish
  <2>5. trimmed' \in {0} \cup (1..(Len(stream') - MaxLen))
    BY <2>1, <2>4, Numbers, CountAssumption
  <2> QED BY <1>3, <2>1, <2>2, <2>3, <2>5 DEF Publish, TypeOK, ghost
<1>4. ASSUME NEW s \in Snippet, PublishFails(s) PROVE TypeOK'
  BY SMTT(60), <1>4 DEF PublishFails, Fault, Excused, Excuse, TypeOK, queue
<1>5. ASSUME NEW s \in Snippet, LockExpire(s) PROVE TypeOK'
  <2>1. faults' \in Nat /\ saves' = saves /\ restarts' = restarts
    BY <1>5 DEF LockExpire, Fault, TypeOK, ghost
  <2> QED BY <1>5, <2>1 DEF LockExpire, TypeOK, queue
<1>6. ASSUME NEW p \in Process, Restart(p) PROVE TypeOK'
  <2>1. work' \in [Worker -> Work(next)]
    BY <1>6, IdleWork, Numbers DEF Restart
  <2> QED BY <1>6, <2>1 DEF Restart, TypeOK, queue, Work, Pc
<1> QED BY <1>1, <1>2, <1>3, <1>4, <1>5, <1>6

\* A read of new messages goes beyond what has been delivered.
LEMMA Deliveries ==
    ASSUME TypeOK, next < Len(stream)
    PROVE  LET last == IF From + Batch < Len(stream) THEN From + Batch ELSE Len(stream) IN
           /\ From \in Nat /\ next <= From /\ From < last
           /\ last \in Nat /\ next < last /\ last <= Len(stream)
<1>1. From \in Nat /\ next <= From /\ From < Len(stream)
  BY Numbers, CountAssumption DEF From
<1> QED BY <1>1, Numbers, CountAssumption

\* Reading and acknowledging keep the types.
LEMMA TypeRead ==
    ASSUME TypeOK, NEW w \in Worker,
           ReadPending(w) \/ ReadPendingFails(w) \/ ReadNew(w) \/ Ack(w) \/ AckFails(w)
    PROVE  TypeOK'
<1>1. work[w] \in Work(next) /\ next \in Nat /\ Idle \in Work(next)
  BY Numbers, IdleWork
<1>2. [Idle EXCEPT !.pc = "poll", !.draining = FALSE] \in Work(next)
  BY <1>1, PcFields DEF Pc
<1>3. CASE ReadPending(w)
  <2> DEFINE mine   == pel[Name(w)]
             oldest == {i \in mine : Cardinality({j \in mine : j < i}) < Batch}
             blanks == oldest \cap (1..trimmed)
  <2>1. oldest \in SUBSET (1..next) /\ blanks \in SUBSET (1..next)
    BY NameIn DEF TypeOK
  <2>2. Goto(w, IF mine = {} THEN [Idle EXCEPT !.pc = "poll", !.draining = FALSE]
                 ELSE [Idle EXCEPT !.pc = "load", !.todo = oldest, !.blank = blanks])
    BY <1>3 DEF ReadPending
  <2>3. excused' \in [Snippet -> SUBSET Excuse]
    <3>1. \A s \in Snippet : excused[s] \in SUBSET Excuse /\ "shared" \in Excuse
      BY DEF TypeOK, Excuse
    <3> QED BY <1>3, <3>1 DEF ReadPending
  <2> HIDE DEF oldest, blanks, mine
  <2>4. [Idle EXCEPT !.pc = "load", !.todo = oldest, !.blank = blanks] \in Work(next)
    BY <1>1, <2>1, PcFields DEF Pc
  <2>5. PICK f \in Work(next) : Goto(w, f)
    BY <1>2, <2>2, <2>4
  <2> QED BY <1>3, <2>3, <2>5, TypeByWorker DEF ReadPending, TypeOK, ghost
<1>4. CASE ReadPendingFails(w)
  <2>1. faults' \in Nat /\ UNCHANGED <<text, unsent, queue, saves, restarts, lock, meta, excused>>
    BY <1>4 DEF ReadPendingFails, Fault, TypeOK
  <2>2. Goto(w, [Idle EXCEPT !.pc = "poll", !.draining = FALSE])
    BY <1>4 DEF ReadPendingFails
  <2> QED BY <1>2, <2>1, <2>2, TypeByWorker DEF TypeOK
<1>5. CASE ReadNew(w)
  <2> DEFINE last == IF From + Batch < Len(stream) THEN From + Batch ELSE Len(stream)
             new  == (From + 1)..last
  <2>1. /\ From \in Nat /\ next <= From /\ last \in Nat /\ next <= last
        /\ last <= Len(stream) /\ next' = last
    <3>1. next < Len(stream) /\ next' = last
      BY <1>5 DEF ReadNew, Deliver
    <3>2. From \in Nat /\ next <= From /\ last \in Nat /\ next < last /\ last <= Len(stream)
      BY <3>1, Deliveries
    <3> QED BY <1>1, <3>1, <3>2
  <2>2. new \in SUBSET (1..last) /\ (1..next) \subseteq (1..last) /\ {} \in SUBSET (1..last)
    BY <1>1, <2>1
  <2>3. /\ pel' = [pel EXCEPT ![Name(w)] = @ \cup new]
        /\ work' = [work EXCEPT ![w] = [work[w] EXCEPT !.pc = "load", !.todo = new, !.blank = {}]]
    BY <1>5 DEF ReadNew, Deliver, Goto
  <2>4. excused' \in [Snippet -> SUBSET Excuse]
    <3>1. \A s \in Snippet : excused[s] \in SUBSET Excuse /\ "trimmed" \in Excuse
      BY DEF TypeOK, Excuse
    <3> QED BY <1>5, <3>1 DEF ReadNew, Deliver
  <2>5. UNCHANGED <<text, unsent, stream, trimmed, lock, meta, ghost>>
    BY <1>5 DEF ReadNew, Deliver
  <2> HIDE DEF last, new
  <2>6. work[w] \in Work(last) /\ work \in [Worker -> Work(last)]
    BY <1>1, <2>1, WorkGrows, Numbers
  <2>7. [work[w] EXCEPT !.pc = "load", !.todo = new, !.blank = {}] \in Work(last)
    BY <2>1, <2>2, <2>6, PcFields DEF Pc
  <2>8. work' \in [Worker -> Work(last)]
    BY <2>3, <2>6, <2>7
  <2>9. pel' \in [Consumer -> SUBSET (1..last)]
    BY <2>2, <2>3 DEF TypeOK
  <2>10. last \in 0..Len(stream)
    BY <2>1, Numbers
  <2> QED BY <2>1, <2>4, <2>5, <2>8, <2>9, <2>10 DEF TypeOK, Work, Pc, ghost
<1>6. CASE Ack(w)
  <2>1. work' \in [Worker -> Work(next)]
    BY <1>6, ReturnWork, Numbers DEF Ack, Goto
  <2>2. pel' \in [Consumer -> SUBSET (1..next)]
    BY <1>6 DEF Ack, TypeOK
  <2> QED BY <1>6, <2>1, <2>2 DEF Ack, TypeOK, Work, Pc, ghost
<1>7. CASE AckFails(w)
  <2>1. faults' \in Nat /\ UNCHANGED <<text, unsent, queue, saves, restarts, lock, meta, excused>>
    BY <1>7 DEF AckFails, Fault, TypeOK
  <2>2. Goto(w, Return(w))
    BY <1>7 DEF AckFails
  <2> QED BY <2>1, <2>2, ReturnWork, TypeByWorker DEF TypeOK
<1> QED BY <1>3, <1>4, <1>5, <1>6, <1>7

\* The steps of Enrich keep the types.
LEMMA TypeEnrich ==
    ASSUME TypeOK, Handled, NEW w \in Worker,
           \/ Load(w) \/ Acquire(w) \/ AcquireFails(w) \/ Check(w) \/ Upsert(w)
           \/ EnrichFails(w) \/ Release(w) \/ ReleaseFails(w)
    PROVE  TypeOK'
<1>1. work[w] \in Work(next) /\ next \in Nat
  BY Numbers
<1>2. Subject(w) \in Snippet
  <2>1. work[w].todo # {}
    BY DEF Handled, Handles, Load, Acquire, AcquireFails, Check, Upsert, EnrichFails, Release, ReleaseFails, At
  <2> QED BY <2>1, SubjectIn
<1>3. /\ UNCHANGED <<text, unsent, queue, saves, restarts>> /\ faults' \in Nat
  <2>1. CASE Load(w) \/ Acquire(w) \/ Check(w) \/ Upsert(w) \/ Release(w)
    BY <2>1 DEF Load, Acquire, Check, Upsert, Release, ghost, TypeOK
  <2>2. CASE AcquireFails(w) \/ EnrichFails(w) \/ ReleaseFails(w)
    <3>1. Fault /\ UNCHANGED <<text, unsent, queue>>
      BY <2>2 DEF AcquireFails, EnrichFails, ReleaseFails
    <3>2. faults' = faults + 1 /\ UNCHANGED <<saves, restarts>>
      BY <3>1 DEF Fault
    <3> QED BY <3>1, <3>2 DEF TypeOK
  <2> QED BY <2>1, <2>2
<1>4. \A p \in Pc, b \in BOOLEAN : /\ [work[w] EXCEPT !.pc = p] \in Work(next)
                                 /\ [work[w] EXCEPT !.pc = p, !.ok = b] \in Work(next)
                                 /\ [work[w] EXCEPT !.pc = p, !.holds = b] \in Work(next)
  BY <1>1, PcFields, WorkFields
<1>5. \A t \in Text : [work[w] EXCEPT !.pc = "lock", !.snap = t] \in Work(next)
  BY <1>1, PcFields DEF Pc
<1>6. \A b \in BOOLEAN : Leave(w, b) \in Work(next)
  BY <1>4 DEF Leave, Pc
<1>7. PICK f \in Work(next) : Goto(w, f)
  <2>1. CASE Load(w)
    <3>1. text[Subject(w)] \in Text \cup {Gone, None}
      BY <1>2 DEF TypeOK
    <3> QED BY <2>1, <3>1, <1>4, <1>5 DEF Load, Pc
  <2>2. CASE Acquire(w)
    BY <2>2, <1>4 DEF Acquire, Pc
  <2>3. CASE AcquireFails(w)
    BY <2>3, <1>4 DEF AcquireFails, Pc
  <2>4. CASE Check(w)
    BY <2>4, <1>4, <1>6 DEF Check, Pc
  <2>5. CASE Upsert(w)
    BY <2>5, <1>6 DEF Upsert
  <2>6. CASE EnrichFails(w)
    BY <2>6, <1>4, <1>6 DEF EnrichFails, Pc
  <2>7. CASE Release(w) \/ ReleaseFails(w)
    BY <2>7, <1>4 DEF Release, ReleaseFails, Pc
  <2> QED BY <2>1, <2>2, <2>3, <2>4, <2>5, <2>6, <2>7
<1>8. lock' \in [Snippet -> Worker \cup {None}]
  <2>1. lock \in [Snippet -> Worker \cup {None}]
    BY DEF TypeOK
  <2>2. CASE Acquire(w) \/ Release(w)
    BY <1>2, <2>1, <2>2 DEF Acquire, Release
  <2>3. CASE ~(Acquire(w) \/ Release(w))
    <3>1. lock' = lock
      BY <2>3 DEF Load, AcquireFails, Check, Upsert, EnrichFails, ReleaseFails
    <3> QED BY <2>1, <3>1
  <2> QED BY <2>2, <2>3
<1>9. meta' \in [Snippet -> Text \cup {None}]
  <2>1. work[w].snap \in Text \cup {None}
    BY <1>1 DEF Work
  <2> QED BY <1>2, <2>1 DEF Load, Acquire, AcquireFails, Check, Upsert, EnrichFails, Release, ReleaseFails, TypeOK
<1>10. excused' \in [Snippet -> SUBSET Excuse]
  <2>1. excused \in [Snippet -> SUBSET Excuse]
    BY DEF TypeOK
  <2>2. CASE Load(w) \/ Acquire(w)
    BY <1>2, <2>1, <2>2 DEF Load, Acquire, Excused, Excuse
  <2>3. CASE ~(Load(w) \/ Acquire(w))
    <3>1. excused' = excused
      BY <2>3 DEF AcquireFails, Check, Upsert, EnrichFails, Release, ReleaseFails, ghost
    <3> QED BY <2>1, <3>1
  <2> QED BY <2>2, <2>3
<1> QED BY <1>3, <1>7, <1>8, <1>9, <1>10, TypeByWorker

-----------------------------------------------------------------------------
(* Steps outside the workers                                               *)

\* What workers have read has been delivered.
LEMMA TodoIn ==
    ASSUME TypeOK, NEW w \in Worker
    PROVE  /\ work[w].todo \in SUBSET (1..next) /\ work[w].todo \in SUBSET Nat
           /\ \A i \in work[w].todo : i \in DOMAIN stream /\ ~(i > next) /\ stream[i] \in Snippet
<1>1. work[w].todo \in SUBSET (1..next) /\ work[w].todo \in SUBSET Nat /\ next \in Nat /\ next <= Len(stream)
  BY Numbers DEF Work
<1>2. stream \in Seq(Snippet) /\ DOMAIN stream = 1..Len(stream) /\ Len(stream) \in Nat
  BY LenProperties DEF TypeOK
<1>3. \A i \in work[w].todo : i \in 1..Len(stream) /\ ~(i > next)
  BY <1>1, <1>2
<1> QED BY <1>1, <1>2, <1>3, ElementOfSeq

\* A worker that is not reading has a message in hand, of a snippet.
LEMMA InHand ==
    ASSUME IInv, NEW w \in Worker, work[w].pc \notin {"start", "poll"}
    PROVE  /\ Hand(work[w]) \in work[w].todo /\ Hand(work[w]) \in DOMAIN stream
           /\ Subject(w) = stream[Hand(work[w])] /\ Subject(w) \in Snippet
           /\ Hand(work[w]) = Current(w)
<1>1. work[w].todo # {}
  BY DEF IInv, Safe, Handled, Handles
<1> QED BY <1>1, SubjectIn, HandIsCurrent DEF IInv

\* A step that leaves the workers and their pending entries alone.  Entries may be added,
\* excuses too; whoever takes back a promise of an event has to note it.
Outside ==
    /\ UNCHANGED <<work, pel, meta>>
    /\ \A i \in DOMAIN stream : stream'[i] = stream[i]
    /\ \A s \in Snippet : excused[s] \subseteq excused'[s]
    /\ \A s \in Snippet :
          ToCome(unsent, stream, next, s) => ToCome(unsent', stream', next', s) \/ "unsent" \in excused'[s]
    /\ \A s \in Snippet :
          text'[s] # text[s] => ToCome(unsent', stream', next', s) \/ (text'[s] = Gone /\ text[s] # None)

\* Such a step keeps the invariant: every promise stays or its loss is noted.
LEMMA OutsideSafe ==
    ASSUME IInv, Outside
    PROVE  Safe'
<1>1. \A c \in Consumer : \A i \in pel[c] : stream'[i] = stream[i]
  BY Numbers, LenProperties DEF IInv, TypeOK, Outside
<1>2. \A w \in Worker : work[w].pc \notin {"start", "poll"} => stream'[Hand(work[w])] = stream[Hand(work[w])]
  BY InHand DEF Outside
<1>3. Handled'
  BY <1>2 DEF Outside, IInv, Safe, Handled, Handles
<1>7. Owned'
  <2>1. \A w \in Worker : \A i \in work[w].todo : stream[i] \in Snippet /\ stream'[i] = stream[i]
    BY TodoIn DEF Outside, IInv
  <2>2. Owned /\ work' = work /\ pel' = pel /\ \A s \in Snippet : excused[s] \subseteq excused'[s]
    BY DEF IInv, Safe, Outside
  <2> QED BY ONLY <2>1, <2>2 DEF Owned, AllOwned, Owns
<1>4. OverlapsNoted'
  BY <1>2 DEF Outside, IInv, Safe, OverlapsNoted, Alone, Working, Inside, WithText
<1>5. NoneLost'
  <2> SUFFICES ASSUME NEW s \in Snippet,
                      text'[s] # None, meta'[s] = None, excused'[s] \cap {"short", "unsent", "orphan", "trimmed", "shared"} = {},
                      ~ToCome(unsent', stream', next', s)
               PROVE  SomeKept(work', pel', stream', s)
    BY DEF NoneLost
  <2>1. text[s] # None /\ meta[s] = None /\ excused[s] \cap {"short", "unsent", "orphan", "trimmed", "shared"} = {}
    BY DEF Outside
  <2>2. ~ToCome(unsent, stream, next, s)
    BY DEF Outside
  <2>3. SomeKept(work, pel, stream, s)
    BY <2>1, <2>2 DEF IInv, Safe, NoneLost
  <2> QED BY <2>3, <1>1 DEF SomeKept, AllKeep, Outside
<1>6. LagNoted'
  <2> SUFFICES ASSUME NEW s \in Snippet,
                      text'[s] \in Text \ Short, excused'[s] \cap {"overlap", "unsent", "orphan", "trimmed"} = {},
                      Lagging(meta', text', work', stream', s),
                      ~ToCome(unsent', stream', next', s)
               PROVE  SomeFresh(work', pel', stream', text', s)
    BY DEF LagNoted
  <2>1. text'[s] = text[s]
    BY TextAssumption DEF Outside
  <2>2. ~ToCome(unsent, stream, next, s) /\ excused[s] \cap {"overlap", "unsent", "orphan", "trimmed"} = {}
    BY DEF Outside
  <2>3. Lagging(meta, text, work, stream, s)
    BY <2>1, <1>2 DEF Outside, Lagging, Lags, WithText
  <2>4. SomeFresh(work, pel, stream, text, s)
    BY <2>1, <2>2, <2>3 DEF IInv, Safe, LagNoted
  <2> QED BY <2>4, <2>1, <1>1 DEF SomeFresh, AllFresh, Outside
<1> QED BY <1>3, <1>4, <1>5, <1>6, <1>7 DEF Safe

\* The notes service and the clock of Redis keep the invariant.
LEMMA SafeElsewhere ==
    ASSUME IInv,
           \/ \E s \in Snippet, t \in Text : Save(s, t)
           \/ \E s \in Snippet : Purge(s) \/ Publish(s) \/ PublishFails(s) \/ LockExpire(s)
    PROVE  Safe'
<1>1. /\ unsent \in [Snippet -> Nat] /\ stream \in Seq(Snippet) /\ next \in Nat /\ next <= Len(stream)
      /\ text \in [Snippet -> Text \cup {Gone, None}] /\ excused \in [Snippet -> SUBSET Excuse]
      /\ Len(stream) \in Nat /\ DOMAIN stream = 1..Len(stream)
  BY Numbers, LenProperties DEF IInv, TypeOK
<1>2. ASSUME NEW s \in Snippet, NEW t \in Text, Save(s, t) PROVE Outside
  <2>1. unsent'[s] > 0 /\ \A r \in Snippet \ {s} : unsent'[r] = unsent[r] /\ text'[r] = text[r]
    BY <1>1, <1>2 DEF Save
  <2>2. UNCHANGED <<stream, next, pel, work, meta, excused>>
    BY <1>2 DEF Save, queue
  <2>3. ASSUME NEW r \in Snippet
        PROVE  /\ ToCome(unsent, stream, next, r) => ToCome(unsent', stream', next', r)
               /\ text'[r] # text[r] => ToCome(unsent', stream', next', r)
    BY <2>1, <2>2 DEF ToCome
  <2> QED BY <2>2, <2>3 DEF Outside
<1>3. ASSUME NEW s \in Snippet, Purge(s) PROVE Outside
  BY <1>1, <1>3, TextAssumption DEF Purge, queue, ghost, Outside, ToCome
<1>4. ASSUME NEW s \in Snippet, Publish(s) PROVE Outside
  <2>1. /\ Len(stream') = Len(stream) + 1 /\ DOMAIN stream' = 1..(Len(stream) + 1)
        /\ \A i \in DOMAIN stream : stream'[i] = stream[i]
        /\ stream'[Len(stream) + 1] = s
    BY <1>1, <1>4, AppendProperties DEF Publish
  <2>2. ToCome(unsent', stream', next', s)
    <3>1. Len(stream) + 1 \in DOMAIN stream' /\ Len(stream) + 1 > next /\ next' = next
      BY <1>1, <1>4, <2>1 DEF Publish
    <3> QED BY <2>1, <3>1 DEF ToCome
  <2>3. ASSUME NEW r \in Snippet, r # s, ToCome(unsent, stream, next, r) PROVE ToCome(unsent', stream', next', r)
    <3>1. unsent'[r] = unsent[r] /\ next' = next
      BY <1>1, <1>4, <2>3 DEF Publish
    <3>2. \A i \in DOMAIN stream : i \in DOMAIN stream' /\ stream'[i] = stream[i]
      BY <1>1, <2>1
    <3> QED BY <2>3, <3>1, <3>2 DEF ToCome
  <2> QED BY <1>4, <2>1, <2>2, <2>3 DEF Publish, ghost, Outside
<1>5. ASSUME NEW s \in Snippet, PublishFails(s) PROVE Outside
  BY <1>1, <1>5 DEF PublishFails, Excused, queue, Outside, ToCome
<1>6. ASSUME NEW s \in Snippet, LockExpire(s) PROVE Outside
  BY <1>6 DEF LockExpire, queue, Outside
<1> QED BY <1>2, <1>3, <1>4, <1>5, <1>6, OutsideSafe

-----------------------------------------------------------------------------
(* Steps with which a worker goes on to another message                    *)

\* A worker has left what it was doing and reads on.
Leaves(v) == work'[v].pc \in Reads /\ (work'[v].pc \in {"start", "poll"} <=> work'[v].todo = {})

\* Workers leave their messages; only what somebody was about to acknowledge is dropped
\* from the pending entries, and what was still to come is pending now or was trimmed.
Turn ==
    /\ UNCHANGED <<text, unsent, stream, meta>>
    /\ \A s \in Snippet : excused[s] \subseteq excused'[s]
    /\ AllOwned(work', pel', stream, excused')
    /\ \A i \in DOMAIN stream :
          i > next => i > next' \/ "trimmed" \in excused'[stream[i]] \/ \E c \in Consumer : i \in pel'[c]
    /\ \A v \in Worker : work'[v] = work[v] \/ Leaves(v)
    /\ \A c \in Consumer : \A i \in pel[c] : i \in pel'[c] \/ ~AllKeep(work, i)

\* Such a step keeps the invariant: a message is left unacknowledged or was settled.
LEMMA TurnSafe ==
    ASSUME IInv, Turn
    PROVE  Safe'
<1>1. \A v \in Worker : work'[v].pc \notin Reads => work'[v] = work[v]
  BY DEF Turn, Leaves
<1>2. \A v \in Worker : work'[v] = work[v] => Handles(work'[v], stream, meta)
  BY DEF IInv, Safe, Handled
<1>3. \A v \in Worker : Leaves(v) => Handles(work'[v], stream, meta)
  BY DEF Leaves, Handles, WithText, Reads
<1>4. Handled' /\ Owned'
  BY <1>2, <1>3 DEF Handled, Owned, Turn
<1>5. \A v \in Worker, s \in Snippet : Working(work'[v], stream, s) => Working(work[v], stream, s)
  BY <1>1 DEF Working, Inside, WithText, Reads
<1>6. OverlapsNoted'
  BY <1>5 DEF OverlapsNoted, Alone, Turn, IInv, Safe
\* An event that was still to come is, or has just been read, or was trimmed.
<1>7. ASSUME NEW s \in Snippet, ToCome(unsent, stream, next, s), ~ToCome(unsent', stream', next', s),
             "trimmed" \notin excused'[s]
      PROVE  \E c \in Consumer : \E i \in pel'[c] : stream[i] = s /\ i > next
  BY <1>7 DEF ToCome, Turn
\* Nobody has it in hand who is not reading.
<1>11. ASSUME NEW i, i > next, NEW u \in Worker
       PROVE  work'[u].pc \in Reads \/ (work'[u] = work[u] /\ Hand(work'[u]) # i)
  <2> SUFFICES ASSUME work'[u].pc \notin Reads PROVE work'[u] = work[u] /\ Hand(work'[u]) # i
    OBVIOUS
  <2>1. work'[u] = work[u] /\ work[u].pc \notin {"start", "poll"}
    BY <1>1 DEF Reads
  <2>2. ~(Hand(work[u]) > next)
    BY <2>1, InHand, TodoIn DEF IInv
  <2> QED BY <1>11, <2>1, <2>2
\* A pending entry that nobody was acknowledging stays pending.
<1>8. ASSUME NEW c \in Consumer, NEW i \in pel[c], AllKeep(work, i)
      PROVE  i \in pel'[c] /\ \A u \in Worker : work'[u] = work[u] \/ work'[u].pc \in Reads
  BY <1>8 DEF Turn, Leaves
<1>9. NoneLost'
  <2> SUFFICES ASSUME NEW s \in Snippet,
                      text'[s] # None, meta'[s] = None,
                      excused'[s] \cap {"short", "unsent", "orphan", "trimmed", "shared"} = {},
                      ~ToCome(unsent', stream', next', s)
               PROVE  SomeKept(work', pel', stream', s)
    BY DEF NoneLost
  <2>1. ToCome(unsent, stream, next, s) \/ SomeKept(work, pel, stream, s)
    <3>1. text[s] # None /\ meta[s] = None
          /\ excused[s] \cap {"short", "unsent", "orphan", "trimmed", "shared"} = {}
      BY DEF Turn
    <3> QED BY <3>1 DEF IInv, Safe, NoneLost
  <2>2. CASE ToCome(unsent, stream, next, s)
    <3>1. PICK c \in Consumer : \E i \in pel'[c] : stream[i] = s /\ i > next
      BY <1>7, <2>2
    <3>2. PICK i \in pel'[c] : stream[i] = s /\ i > next
      BY <3>1
    <3>3. AllKeep(work', i)
      BY <1>11, <3>2 DEF AllKeep, Kept, Reads
    <3> QED BY <3>2, <3>3 DEF SomeKept, Turn
  <2>3. CASE SomeKept(work, pel, stream, s)
    <3>1. PICK c \in Consumer : \E i \in pel[c] : stream[i] = s /\ AllKeep(work, i)
      BY <2>3 DEF SomeKept
    <3>2. PICK i \in pel[c] : stream[i] = s /\ AllKeep(work, i)
      BY <3>1
    <3>3. i \in pel'[c] /\ stream'[i] = s
      BY <3>2, <1>8 DEF Turn
    <3>4. AllKeep(work', i)
      BY <3>2, <1>8 DEF AllKeep, Kept, Reads
    <3> QED BY <3>3, <3>4 DEF SomeKept
  <2> QED BY <2>1, <2>2, <2>3
<1>10. LagNoted'
  <2> SUFFICES ASSUME NEW s \in Snippet,
                      text'[s] \in Text \ Short,
                      excused'[s] \cap {"overlap", "unsent", "orphan", "trimmed"} = {},
                      Lagging(meta', text', work', stream', s),
                      ~ToCome(unsent', stream', next', s)
               PROVE  SomeFresh(work', pel', stream', text', s)
    BY DEF LagNoted
  <2>1. \A v \in Worker : Lags(work'[v], stream, text, s) => Lags(work[v], stream, text, s)
    BY <1>1 DEF Lags, WithText, Reads
  <2>2. Lagging(meta, text, work, stream, s)
    BY <2>1 DEF Lagging, Turn
  <2>3. ToCome(unsent, stream, next, s) \/ SomeFresh(work, pel, stream, text, s)
    <3>1. text[s] \in Text \ Short /\ excused[s] \cap {"overlap", "unsent", "orphan", "trimmed"} = {}
      BY DEF Turn
    <3> QED BY <2>2, <3>1 DEF IInv, Safe, LagNoted
  <2>4. CASE ToCome(unsent, stream, next, s)
    <3>1. PICK c \in Consumer : \E i \in pel'[c] : stream[i] = s /\ i > next
      BY <1>7, <2>4
    <3>2. PICK i \in pel'[c] : stream[i] = s /\ i > next
      BY <3>1
    <3>3. AllFresh(work', i, text'[s])
      BY <1>11, <3>2 DEF AllFresh, Fresh
    <3> QED BY <3>2, <3>3 DEF SomeFresh, Turn
  <2>5. CASE SomeFresh(work, pel, stream, text, s)
    <3>1. PICK c \in Consumer : \E i \in pel[c] : stream[i] = s /\ AllFresh(work, i, text[s])
      BY <2>5 DEF SomeFresh
    <3>2. PICK i \in pel[c] : stream[i] = s /\ AllFresh(work, i, text[s])
      BY <3>1
    <3>3. AllKeep(work, i)
      BY <3>2 DEF AllFresh, AllKeep, Fresh, Kept, Reads, WithText
    <3>4. i \in pel'[c] /\ stream'[i] = s
      BY <3>2, <3>3, <1>8 DEF Turn
    <3>5. AllFresh(work', i, text'[s])
      <4>1. text'[s] = text[s]
        BY DEF Turn
      <4> QED BY <3>2, <3>3, <1>8, <4>1 DEF AllFresh, Fresh
    <3> QED BY <3>4, <3>5 DEF SomeFresh
  <2> QED BY <2>3, <2>4, <2>5
<1> QED BY <1>4, <1>6, <1>9, <1>10 DEF Safe

\* Messages stay with their owners when one worker changes its messages and drops some
\* from the pending entries, if neither concerns what others own.
LEMMA OwnedTurn ==
    ASSUME IInv, NEW w \in Worker,
           \A v \in Worker \ {w} : work'[v].todo = work[v].todo,
           \A s \in Snippet : excused[s] \subseteq excused'[s],
           \A i \in work'[w].todo : "shared" \in excused'[stream[i]] \/ Owns(work', pel', w, i),
           \A v \in Worker \ {w} : \A i \in work[v].todo :
               "shared" \in excused[stream[i]] \/ i \in pel'[Name(v)]
    PROVE  AllOwned(work', pel', stream, excused')
<1> SUFFICES ASSUME NEW v \in Worker, v # w, NEW i \in work[v].todo, "shared" \notin excused'[stream[i]]
             PROVE  Owns(work', pel', v, i)
  BY DEF AllOwned
<1>1. stream[i] \in Snippet
  BY TodoIn DEF IInv
<1>2. "shared" \notin excused[stream[i]]
  BY <1>1
<1>3. Owns(work, pel, v, i) /\ i \in pel'[Name(v)]
  BY <1>2 DEF IInv, Safe, Owned, AllOwned
<1>4. i \notin work'[w].todo
  BY DEF Owns
<1> QED BY <1>3, <1>4 DEF Owns

\* Reading, acknowledging and restarting are such steps.
LEMMA SafeTurns ==
    ASSUME IInv,
           \/ \E p \in Process : Restart(p)
           \/ \E w \in Worker : ReadPending(w) \/ ReadPendingFails(w) \/ ReadNew(w) \/ Ack(w) \/ AckFails(w)
    PROVE  Safe'
<1>1. /\ work \in [Worker -> Work(next)] /\ next \in Nat /\ next <= Len(stream) /\ Len(stream) \in Nat
      /\ pel \in [Consumer -> SUBSET (1..next)] /\ DOMAIN stream = 1..Len(stream)
      /\ stream \in Seq(Snippet) /\ excused \in [Snippet -> SUBSET Excuse]
  BY Numbers, LenProperties DEF IInv, TypeOK
<1>2. ASSUME NEW p \in Process, Restart(p) PROVE Turn
  <2>1. /\ work' = [w \in Worker |-> IF Host(w) = p THEN Idle ELSE work[w]]
        /\ UNCHANGED <<text, unsent, stream, next, pel, meta, excused>>
    BY <1>2 DEF Restart, queue
  <2>2. \A v \in Worker : work'[v] = work[v] \/ (work'[v] = Idle /\ Leaves(v) /\ work'[v].todo = {})
    BY <2>1 DEF Leaves, Idle, Reads
  <2>3. Owned
    BY DEF IInv, Safe
  <2>4. AllOwned(work', pel', stream, excused')
    BY ONLY <2>1, <2>2, <2>3 DEF Owned, AllOwned, Owns
  <2> QED BY <2>1, <2>2, <2>4 DEF Turn
<1>3. ASSUME NEW w \in Worker, ReadPending(w) PROVE Turn
  <2> DEFINE mine   == pel[Name(w)]
             oldest == {i \in mine : Cardinality({j \in mine : j < i}) < Batch}
             blanks == oldest \cap (1..trimmed)
             taken  == {stream[i] : i \in oldest \cap UNION {work[v].todo : v \in Worker \ {w}}}
  <2>1. oldest \subseteq mine /\ (mine # {} => oldest # {})
    <3>1. mine \in SUBSET Nat
      BY <1>1, NameIn
    <3> QED BY <3>1, OldestExist
  <2>2. work' = [work EXCEPT ![w] = IF mine = {} THEN [Idle EXCEPT !.pc = "poll", !.draining = FALSE]
                                     ELSE [Idle EXCEPT !.pc = "load", !.todo = oldest, !.blank = blanks]]
    BY <1>3 DEF ReadPending, Goto
  <2>3. UNCHANGED <<text, unsent, stream, next, pel, meta>>
    BY <1>3 DEF ReadPending, queue
  <2>4. excused' = [s \in Snippet |-> excused[s] \cup (IF s \in taken THEN {"shared"} ELSE {})]
    BY <1>3 DEF ReadPending
  <2>5. \A i \in oldest : stream[i] \in taken \/ \A v \in Worker \ {w} : i \notin work[v].todo
    OBVIOUS
  <2> HIDE DEF oldest, blanks, taken
  <2>6. /\ work'[w].pc \in Reads /\ (work'[w].pc \in {"start", "poll"} <=> work'[w].todo = {})
        /\ work'[w].todo \subseteq oldest
    BY <1>1, <2>1, <2>2 DEF Idle, Reads
  <2>7. \A v \in Worker \ {w} : work'[v] = work[v]
    BY <1>1, <2>2
  <2>8. \A s \in Snippet : excused[s] \subseteq excused'[s] /\ (s \in taken => "shared" \in excused'[s])
    BY <2>4
  <2>9. \A i \in work'[w].todo : "shared" \in excused'[stream[i]] \/ Owns(work', pel', w, i)
    <3> SUFFICES ASSUME NEW i \in work'[w].todo, "shared" \notin excused'[stream[i]]
                 PROVE  Owns(work', pel', w, i)
      OBVIOUS
    <3>1. i \in oldest /\ i \in mine
      BY <2>1, <2>6
    <3>2. stream[i] \in Snippet
      BY <1>1, <3>1, NameIn, ElementOfSeq
    <3>3. \A v \in Worker \ {w} : i \notin work[v].todo
      BY <2>5, <2>8, <3>1, <3>2
    <3> QED BY <2>3, <2>7, <3>1, <3>3 DEF Owns
  <2>10. \A v \in Worker \ {w} : \A i \in work[v].todo : "shared" \in excused[stream[i]] \/ i \in pel'[Name(v)]
    BY <2>3 DEF IInv, Safe, Owned, AllOwned, Owns
  <2>11. AllOwned(work', pel', stream, excused')
    BY <2>7, <2>8, <2>9, <2>10, OwnedTurn
  <2> QED BY <2>3, <2>6, <2>7, <2>8, <2>11 DEF Turn, Leaves
<1>4. ASSUME NEW w \in Worker, ReadPendingFails(w) PROVE Turn
  <2>1. work' = [work EXCEPT ![w] = [Idle EXCEPT !.pc = "poll", !.draining = FALSE]]
    BY <1>4 DEF ReadPendingFails, Goto
  <2>2. UNCHANGED <<text, unsent, stream, next, pel, meta, excused>>
    BY <1>4 DEF ReadPendingFails, queue
  <2>3. Leaves(w) /\ work'[w].todo = {}
    BY <1>1, <2>1, <2>2 DEF Leaves, Idle, Reads
  <2>4. \A v \in Worker \ {w} : work'[v] = work[v]
    BY <1>1, <2>1, <2>2
  <2>5. Owned
    BY DEF IInv, Safe
  <2>6. AllOwned(work', pel', stream, excused')
    BY ONLY <2>2, <2>3, <2>4, <2>5 DEF Owned, AllOwned, Owns
  <2> QED BY <2>2, <2>3, <2>4, <2>6 DEF Turn
<1>5. ASSUME NEW w \in Worker, ReadNew(w) PROVE Turn
  <2> DEFINE last == IF From + Batch < Len(stream) THEN From + Batch ELSE Len(stream)
             new  == (From + 1)..last
  <2>1. /\ From \in Nat /\ next <= From /\ From < last
        /\ last \in Nat /\ next < last /\ last <= Len(stream) /\ next' = last
    <3>1. next < Len(stream) /\ next' = last
      BY <1>5 DEF ReadNew, Deliver
    <3> QED BY <3>1, Deliveries DEF IInv
  <2>2. /\ new # {} /\ \A i \in new : i > next
        /\ \A i \in DOMAIN stream : i > next => i > last \/ i \in new \/ i \in (next + 1)..From
    BY <1>1, <2>1
  <2>3. /\ pel' = [pel EXCEPT ![Name(w)] = @ \cup new]
        /\ work' = [work EXCEPT ![w] = [work[w] EXCEPT !.pc = "load", !.todo = new, !.blank = {}]]
        /\ UNCHANGED <<text, unsent, stream, meta>>
        /\ excused' = [s \in Snippet |-> excused[s] \cup
                          (IF \E i \in (next + 1)..From : stream[i] = s THEN {"trimmed"} ELSE {})]
    BY <1>5 DEF ReadNew, Deliver, Goto
  <2> HIDE DEF new, last
  <2>4. work'[w].pc = "load" /\ work'[w].todo = new
    BY <1>1, <2>3 DEF Work
  <2>5. pel'[Name(w)] = pel[Name(w)] \cup new /\ \A c \in Consumer : pel[c] \subseteq pel'[c]
    BY <1>1, <2>3, NameIn
  <2>6. \A v \in Worker \ {w} : work'[v] = work[v]
    BY <1>1, <2>3
  <2>7. \A s \in Snippet : /\ excused[s] \subseteq excused'[s]
                           /\ (\E i \in (next + 1)..From : stream[i] = s) => "trimmed" \in excused'[s]
    BY <2>3
  <2>8. ASSUME NEW i \in DOMAIN stream, i > next
        PROVE  i > next' \/ "trimmed" \in excused'[stream[i]] \/ \E c \in Consumer : i \in pel'[c]
    <3>1. stream[i] \in Snippet
      BY <1>1, ElementOfSeq
    <3> QED BY <2>1, <2>2, <2>5, <2>7, <2>8, <3>1, NameIn
  <2>9. \A i \in work'[w].todo : Owns(work', pel', w, i)
    BY <2>2, <2>4, <2>5, <2>6, TodoIn DEF Owns, IInv
  <2>10. \A v \in Worker \ {w} : \A i \in work[v].todo : "shared" \in excused[stream[i]] \/ i \in pel'[Name(v)]
    BY <2>5, NameIn DEF IInv, Safe, Owned, AllOwned, Owns
  <2>11. AllOwned(work', pel', stream, excused')
    BY <2>6, <2>7, <2>9, <2>10, OwnedTurn
  <2>12. Leaves(w)
    BY <2>2, <2>4 DEF Leaves, Reads
  <2> QED BY <2>3, <2>5, <2>6, <2>7, <2>8, <2>11, <2>12 DEF Turn
<1>6. ASSUME NEW w \in Worker, Ack(w) \/ AckFails(w) PROVE Turn
  <2>1. work[w].pc = "ack" /\ work' = [work EXCEPT ![w] = Return(w)]
    BY <1>6 DEF Ack, AckFails, Goto, At
  <2>2. UNCHANGED <<text, unsent, stream, next, meta, excused>>
    BY <1>6 DEF Ack, AckFails, queue, ghost
  <2>3. \/ pel' = pel
        \/ work[w].ok /\ pel' = [pel EXCEPT ![Name(w)] = @ \ {Current(w)}]
    BY <1>6 DEF Ack, AckFails, queue
  <2>4. Current(w) = Hand(work[w]) /\ Current(w) \in work[w].todo
    BY <2>1, InHand
  <2>5. /\ work'[w].todo = work[w].todo \ {Current(w)}
        /\ work'[w].pc = IF work'[w].todo = {} THEN IF work[w].draining THEN "start" ELSE "poll" ELSE "load"
    BY <1>1, <2>1 DEF Return, Work
  <2>6. \A c \in Consumer : \A i \in pel[c] : i \in pel'[c] \/ ~AllKeep(work, i)
    <3>1. \A c \in Consumer : \A i \in pel[c] : i \in pel'[c] \/ (i = Current(w) /\ work[w].ok)
      BY <1>1, <2>3, NameIn
    <3> QED BY <2>1, <2>4, <3>1 DEF AllKeep, Kept
  <2>7. \A v \in Worker \ {w} : work'[v] = work[v]
    BY <1>1, <2>1
  <2>8. \A v \in Worker : \A i \in pel[Name(v)] : i # Current(w) => i \in pel'[Name(v)]
    BY <1>1, <2>3, NameIn
  <2>9. \A i \in work'[w].todo : "shared" \in excused'[stream[i]] \/ Owns(work', pel', w, i)
    <3>1. \A i \in work[w].todo : "shared" \in excused[stream[i]] \/ Owns(work, pel, w, i)
      BY DEF IInv, Safe, Owned, AllOwned
    <3> QED BY <2>2, <2>5, <2>7, <2>8, <3>1 DEF Owns
  <2>10. \A v \in Worker \ {w} : \A i \in work[v].todo : "shared" \in excused[stream[i]] \/ i \in pel'[Name(v)]
    <3>1. \A v \in Worker \ {w} : \A i \in work[v].todo :
              "shared" \in excused[stream[i]] \/ (i \in pel[Name(v)] /\ i \notin work[w].todo)
      BY DEF IInv, Safe, Owned, AllOwned, Owns
    <3> QED BY <2>4, <2>8, <3>1
  <2>11. AllOwned(work', pel', stream, excused')
    BY <2>2, <2>7, <2>9, <2>10, OwnedTurn
  <2>12. Leaves(w)
    BY <2>5 DEF Leaves, Reads
  <2> QED BY <2>2, <2>6, <2>7, <2>11, <2>12 DEF Turn
<1> QED BY <1>2, <1>3, <1>4, <1>5, <1>6, TurnSafe

-----------------------------------------------------------------------------
(* Steps with a message in hand                                            *)

\* The worker w goes from its record to f with the same messages; the queue and the
\* texts stay.  What it may do to the metadata and must note is what the invariant needs.
Carry(w, f) ==
    LET s == Subject(w) IN
    /\ f.pc \in Inside \cup {"ack"} /\ f.todo = work[w].todo
    /\ f.pc \in WithText => f.snap \in Text
    /\ work' = [work EXCEPT ![w] = f]
    /\ UNCHANGED <<text, unsent, queue>>
    /\ \A r \in Snippet : excused[r] \subseteq excused'[r]
    /\ \A r \in Snippet \ {s} : meta'[r] = meta[r]
    /\ meta[s] # None => meta'[s] # None
    /\ f.pc = "release" /\ f.ok => meta'[s] # None
    \* It enters Enrich alone, or that is noted.
    /\ f.pc \in Inside =>
          \/ work[w].pc \in Inside \/ "overlap" \in excused'[s]
          \/ \A v \in Worker : ~Working(work[v], stream, s)
    \* It acknowledges with a cause.
    /\ f.pc = "ack" /\ f.ok =>
          \/ meta'[s] # None \/ excused'[s] \cap {"short", "unsent", "orphan", "trimmed", "shared"} # {}
          \/ \E v \in Worker \ {w} : Working(work[v], stream, s)
    \* Metadata that lags afterwards did so before, and the message in hand is as good.
    /\ (text[s] \in Text \ Short /\ excused'[s] \cap {"overlap", "unsent", "orphan", "trimmed"} = {}
        /\ Lagging(meta', text, work', stream, s))
          => /\ Lagging(meta, text, work, stream, s)
             /\ Fresh(work[w], Current(w), text[s]) => Fresh(f, Current(w), text[s])

\* Such a step keeps the invariant.
LEMMA CarrySafe ==
    ASSUME IInv, NEW w \in Worker, NEW f, work[w].pc \notin {"start", "poll", "ack"}, Carry(w, f)
    PROVE  Safe'
<1> DEFINE s == Subject(w)
           i == Current(w)
<1>1. /\ work \in [Worker -> Work(next)] /\ pel \in [Consumer -> SUBSET (1..next)] /\ next \in Nat
  BY Numbers DEF IInv, TypeOK
<1>2. i \in work[w].todo /\ s \in Snippet /\ stream[i] = s /\ Hand(work[w]) = i
  BY InHand DEF Work
<1>3. Hand(f) = i
  BY <1>2, SameHand DEF Carry
<1>4. /\ work'[w] = f /\ \A v \in Worker \ {w} : work'[v] = work[v]
      /\ UNCHANGED <<text, unsent, stream, next, pel>>
  BY <1>1 DEF Carry, queue
<1>5. Handled'
  <2>1. Handles(f, stream, meta')
    <3>1. work[w].todo # {}
      BY <1>2
    <3>2. f.pc \notin {"start", "poll"}
      BY DEF Carry, Inside, WithText
    <3> QED BY <3>1, <3>2, <1>2, <1>3 DEF Carry, Handles
  <2>2. ASSUME NEW v \in Worker \ {w} PROVE Handles(work[v], stream, meta')
    <3>1. Handles(work[v], stream, meta)
      BY DEF IInv, Safe, Handled
    <3>2. work[v].pc = "release" => Subject(v) = stream[Hand(work[v])] /\ Subject(v) \in Snippet
      BY InHand
    <3>3. \A r \in Snippet : meta[r] # None => meta'[r] # None
      BY DEF Carry
    <3> QED BY <3>1, <3>2, <3>3 DEF Handles
  <2> QED BY <2>1, <2>2, <1>4 DEF Handled
<1>9. Owned'
  <2>1. \A v \in Worker : work'[v].todo = work[v].todo /\ \A j \in work[v].todo : stream[j] \in Snippet
    BY <1>4, TodoIn DEF Carry, IInv
  <2>2. Owned /\ stream' = stream /\ pel' = pel /\ \A r \in Snippet : excused[r] \subseteq excused'[r]
    BY <1>4 DEF Carry, IInv, Safe
  <2> QED BY ONLY <2>1, <2>2 DEF Owned, AllOwned, Owns
<1>6. OverlapsNoted'
  <2> SUFFICES ASSUME NEW r \in Snippet, "overlap" \notin excused'[r],
                      NEW u \in Worker, NEW v \in Worker, u # v,
                      Working(work'[u], stream, r), Working(work'[v], stream, r)
               PROVE  FALSE
    BY <1>4 DEF OverlapsNoted, Alone
  <2>1. "overlap" \notin excused[r] /\ Alone(work, stream, r)
    BY DEF Carry, IInv, Safe, OverlapsNoted
  <2>2. u = w \/ v = w
    BY <1>4, <2>1 DEF Alone
  <2>3. PICK x \in Worker \ {w} : Working(work[x], stream, r) /\ Working(f, stream, r)
    BY <1>4, <2>2
  <2>4. r = s /\ f.pc \in Inside
    BY <1>2, <1>3, <2>3 DEF Working
  <2>5. work[w].pc \in Inside
    BY <2>3, <2>4 DEF Carry
  <2>6. Working(work[w], stream, r)
    BY <1>2, <2>4, <2>5 DEF Working
  <2> QED BY <2>1, <2>3, <2>6 DEF Alone
<1>7. NoneLost'
  <2> SUFFICES ASSUME NEW r \in Snippet,
                      text[r] # None, meta'[r] = None,
                      excused'[r] \cap {"short", "unsent", "orphan", "trimmed", "shared"} = {},
                      ~ToCome(unsent, stream, next, r)
               PROVE  SomeKept(work', pel, stream, r)
    BY <1>4 DEF NoneLost
  <2>1. meta[r] = None /\ excused[r] \cap {"short", "unsent", "orphan", "trimmed", "shared"} = {}
    BY DEF Carry
  <2>2. PICK c \in Consumer : \E j \in pel[c] : stream[j] = r /\ AllKeep(work, j)
    BY <2>1 DEF SomeKept, IInv, Safe, NoneLost
  <2>3. PICK j \in pel[c] : stream[j] = r /\ AllKeep(work, j)
    BY <2>2
  <2>4. CASE Kept(f, j)
    <3>1. AllKeep(work', j)
      BY <1>4, <2>3, <2>4 DEF AllKeep
    <3> QED BY <2>3, <3>1 DEF SomeKept
  <2>5. CASE ~Kept(f, j)
    <3>1. f.pc = "ack" /\ f.ok /\ r = s
      BY <1>2, <1>3, <2>3, <2>5 DEF Kept
    <3>2. PICK x \in Worker \ {w} : Working(work[x], stream, s)
      BY <2>1, <3>1 DEF Carry
    <3> DEFINE k == Hand(work[x])
    <3>3. k \in work[x].todo /\ stream[k] = s /\ work[x].pc # "ack"
      BY <3>2, InHand DEF Working, Inside, WithText
    <3> HIDE DEF k
    <3>4. Owns(work, pel, x, k)
      BY <2>1, <3>1, <3>3 DEF IInv, Safe, Owned, AllOwned
    <3>5. ASSUME NEW u \in Worker PROVE Kept(work'[u], k)
      <4>1. CASE u = x
        BY <1>4, <3>2, <3>3, <4>1 DEF Kept
      <4>2. CASE u = w
        BY <1>2, <1>3, <1>4, <3>2, <3>4, <4>2 DEF Kept, Owns
      <4>3. CASE u # x /\ u # w
        <5>1. work[u].pc = "ack" => Hand(work[u]) \in work[u].todo
          BY InHand
        <5> QED BY <1>4, <3>4, <4>3, <5>1 DEF Kept, Owns
      <4> QED BY <4>1, <4>2, <4>3
    <3> QED BY <3>1, <3>3, <3>4, <3>5, NameIn DEF SomeKept, AllKeep, Owns
  <2> QED BY <2>4, <2>5
<1>8. LagNoted'
  <2> SUFFICES ASSUME NEW r \in Snippet,
                      text[r] \in Text \ Short,
                      excused'[r] \cap {"overlap", "unsent", "orphan", "trimmed"} = {},
                      Lagging(meta', text, work', stream, r),
                      ~ToCome(unsent, stream, next, r)
               PROVE  SomeFresh(work', pel, stream, text, r)
    BY <1>4 DEF LagNoted
  <2>1. excused[r] \cap {"overlap", "unsent", "orphan", "trimmed"} = {}
    BY DEF Carry
  <2>2. Lagging(meta, text, work, stream, r)
    <3>1. CASE r = s
      BY <3>1 DEF Carry
    <3>2. CASE r # s
      <4>1. ~Lags(f, stream, text, r)
        BY <1>2, <1>3, <3>2 DEF Lags
      <4>2. meta'[r] = meta[r]
        BY <3>2 DEF Carry
      <4> QED BY <1>4, <4>1, <4>2 DEF Lagging
    <3> QED BY <3>1, <3>2
  <2>3. PICK c \in Consumer : \E j \in pel[c] : stream[j] = r /\ AllFresh(work, j, text[r])
    BY <2>1, <2>2 DEF SomeFresh, IInv, Safe, LagNoted
  <2>4. PICK j \in pel[c] : stream[j] = r /\ AllFresh(work, j, text[r])
    BY <2>3
  <2>5. Fresh(f, j, text[r])
    <3>1. CASE j # i
      BY <1>3, <3>1 DEF Fresh
    <3>2. CASE j = i
      <4>1. r = s /\ Fresh(work[w], i, text[s])
        BY <1>2, <2>4, <3>2 DEF AllFresh
      <4> QED BY <3>2, <4>1 DEF Carry
    <3> QED BY <3>1, <3>2
  <2>6. AllFresh(work', j, text[r])
    BY <1>4, <2>4, <2>5 DEF AllFresh
  <2> QED BY <2>4, <2>6 DEF SomeFresh
<1> QED BY <1>5, <1>6, <1>7, <1>8, <1>9 DEF Safe

\* What holds of a worker with a message in hand.
LEMMA Facts ==
    ASSUME IInv, NEW w \in Worker, work[w].pc \notin {"start", "poll"}
    PROVE  LET s == Subject(w) IN
           /\ s \in Snippet /\ stream[Hand(work[w])] = s /\ Hand(work[w]) = Current(w)
           /\ work[w] \in Work(next) /\ work \in [Worker -> Work(next)]
           /\ meta \in [Snippet -> Text \cup {None}] /\ excused \in [Snippet -> SUBSET Excuse]
           /\ text[s] \in Text \cup {Gone, None} /\ lock[s] \in Worker \cup {None}
           /\ work[w].pc \in WithText => work[w].snap \in Text
           /\ work[w].pc = "release" /\ work[w].ok => meta[s] # None
           /\ \A v \in Worker : v # w /\ work[w].pc \in Inside /\ "overlap" \notin excused[s]
                               => ~Working(work[v], stream, s)
<1> DEFINE s == Subject(w)
<1>1. s \in Snippet /\ stream[Hand(work[w])] = s /\ Hand(work[w]) = Current(w)
  BY InHand
<1>2. /\ work[w] \in Work(next) /\ work \in [Worker -> Work(next)]
      /\ meta \in [Snippet -> Text \cup {None}] /\ excused \in [Snippet -> SUBSET Excuse]
      /\ text[s] \in Text \cup {Gone, None} /\ lock[s] \in Worker \cup {None}
  BY <1>1, Numbers DEF IInv, TypeOK
<1>3. /\ work[w].pc \in WithText => work[w].snap \in Text
      /\ work[w].pc = "release" /\ work[w].ok => meta[s] # None
  BY <1>1 DEF IInv, Safe, Handled, Handles
<1>4. ASSUME NEW v \in Worker, v # w, work[w].pc \in Inside, "overlap" \notin excused[s]
      PROVE  ~Working(work[v], stream, s)
  BY <1>1, <1>4 DEF IInv, Safe, OverlapsNoted, Alone, Working
<1> QED BY <1>1, <1>2, <1>3, <1>4

\* Who works on s or is about to write it is inside Enrich with it.
LEMMA LaggersWork ==
    ASSUME NEW f, NEW st, NEW tx, NEW s, Lags(f, st, tx, s)
    PROVE  Working(f, st, s)
BY DEF Lags, Working, Inside

\* Load: a short text and a second worker are noted.
LEMMA LoadSafe ==
    ASSUME IInv, NEW w \in Worker, Load(w)
    PROVE  Safe'
<1> DEFINE s == Subject(w)
           blank == Current(w) \in work[w].blank
           f == CASE blank -> [work[w] EXCEPT !.pc = "ack", !.ok = TRUE]
                  [] ~blank /\ text[s] \in {Gone, None} -> [work[w] EXCEPT !.pc = "ack", !.ok = FALSE]
                  [] ~blank /\ text[s] \in Short        -> [work[w] EXCEPT !.pc = "ack", !.ok = TRUE]
                  [] OTHER -> [work[w] EXCEPT !.pc = "lock", !.snap = text[s]]
<1>1. work[w].pc = "load"
  BY DEF Load, At
<1>2. /\ s \in Snippet /\ work[w] \in Work(next) /\ text[s] \in Text \cup {Gone, None}
      /\ work \in [Worker -> Work(next)] /\ excused \in [Snippet -> SUBSET Excuse]
      /\ stream[Hand(work[w])] = s /\ Hand(work[w]) = Current(w)
  BY <1>1, Facts
<1>3. /\ work' = [work EXCEPT ![w] = f] /\ UNCHANGED <<text, unsent, queue, meta>>
      /\ excused' = [excused EXCEPT ![s] = @ \cup IF blank THEN {"trimmed"}
                                              ELSE (IF text[s] \in Short THEN {"short"} ELSE {})
                                                   \cup (IF Busy(s) # {} THEN {"overlap"} ELSE {})]
  BY DEF Load, Goto
<1>4. /\ f.todo = work[w].todo
      /\ \/ blank /\ f.pc = "ack" /\ f.ok = TRUE
         \/ text[s] \in {Gone, None} /\ f.pc = "ack" /\ f.ok = FALSE
         \/ ~blank /\ text[s] \in Short /\ f.pc = "ack" /\ f.ok = TRUE
         \/ ~blank /\ text[s] \in Text \ Short /\ f.pc = "lock" /\ f.snap = text[s]
  BY <1>2, TextAssumption DEF Work
<1>5. /\ \A r \in Snippet : excused[r] \subseteq excused'[r]
      /\ blank => "trimmed" \in excused'[s]
      /\ ~blank /\ text[s] \in Short => "short" \in excused'[s]
      /\ ~blank /\ Busy(s) # {} => "overlap" \in excused'[s]
  BY <1>2, <1>3
<1>6. \A v \in Worker : Working(work[v], stream, s) => v \in Busy(s)
  BY HandIsCurrent DEF Working, Busy, Inside, WithText
<1>7. work'[w] = f /\ \A v \in Worker \ {w} : work'[v] = work[v]
  BY <1>2, <1>3
<1> HIDE DEF f, blank
<1>8. Lagging(meta', text, work', stream, s) => Lagging(meta, text, work, stream, s)
  <2>1. ~Lags(f, stream, text, s)
    BY <1>4 DEF Lags, WithText
  <2> QED BY <1>3, <1>7, <2>1 DEF Lagging
<1>9. text[s] \in Text \ Short /\ ~blank => Fresh(f, Current(w), text[s])
  BY <1>4, TextAssumption DEF Fresh, WithText
<1>10. Carry(w, f)
  BY <1>2, <1>3, <1>4, <1>5, <1>6, <1>8, <1>9, TextAssumption DEF Carry, Inside, WithText
<1> QED BY <1>1, <1>10, CarrySafe

\* Acquire: who skips a message has seen a live worker, or an orphaned lock, which is noted.
LEMMA LockSafe ==
    ASSUME IInv, NEW w \in Worker, Acquire(w) \/ AcquireFails(w)
    PROVE  Safe'
<1> DEFINE s == Subject(w)
<1>1. work[w].pc = "lock" /\ work[w].pc \in Inside /\ work[w].pc \in WithText
  BY DEF Acquire, AcquireFails, At, Inside, WithText
<1>2. /\ s \in Snippet /\ work[w] \in Work(next) /\ lock[s] \in Worker \cup {None}
      /\ work \in [Worker -> Work(next)] /\ excused \in [Snippet -> SUBSET Excuse]
      /\ stream[Hand(work[w])] = s /\ Hand(work[w]) = Current(w) /\ work[w].snap \in Text
      /\ \A v \in Worker : v # w /\ "overlap" \notin excused[s] => ~Working(work[v], stream, s)
  BY <1>1, Facts
<1>3. UNCHANGED <<text, unsent, queue, meta>>
  BY DEF Acquire, AcquireFails, ghost
<1>4. CASE excused' = excused /\ \E h \in BOOLEAN : work' = [work EXCEPT ![w] = [work[w] EXCEPT !.pc = "check", !.holds = h]]
  <2>1. PICK h \in BOOLEAN : work' = [work EXCEPT ![w] = [work[w] EXCEPT !.pc = "check", !.holds = h]]
    BY <1>4
  <2> DEFINE f == [work[w] EXCEPT !.pc = "check", !.holds = h]
  <2>2. f.todo = work[w].todo /\ f.pc = "check" /\ f.snap = work[w].snap
    BY <1>2 DEF Work
  <2>3. work' = [work EXCEPT ![w] = f] /\ work'[w] = f /\ \A v \in Worker \ {w} : work'[v] = work[v]
    BY <1>2, <2>1
  <2> HIDE DEF f
  <2>4. Hand(f) = Hand(work[w])
    BY <2>2, SameHand
  <2>5. Lags(f, stream, text, s) <=> Lags(work[w], stream, text, s)
    BY <1>1, <2>2, <2>4 DEF Lags, WithText
  <2>6. Lagging(meta', text, work', stream, s) => Lagging(meta, text, work, stream, s)
    BY <1>3, <2>3, <2>5 DEF Lagging
  <2>7. Fresh(work[w], Current(w), text[s]) => Fresh(f, Current(w), text[s])
    BY <1>1, <1>2, <2>2, <2>4 DEF Fresh, WithText, Reads
  <2>8. Carry(w, f)
    BY <1>1, <1>2, <1>3, <1>4, <2>2, <2>3, <2>6, <2>7 DEF Carry, Inside, WithText
  <2> QED BY <1>1, <2>8, CarrySafe
<1>5. CASE Acquire(w) /\ lock[s] # None
  <2> DEFINE f == [work[w] EXCEPT !.pc = "ack", !.ok = TRUE]
  <2>1. /\ work' = [work EXCEPT ![w] = f]
        /\ IF Holding(lock[s], s) THEN excused' = excused ELSE excused' = [excused EXCEPT ![s] = @ \cup {"orphan"}]
    BY <1>5 DEF Acquire, Goto, Excused
  <2>2. f.todo = work[w].todo /\ f.pc = "ack"
    BY <1>2 DEF Work
  <2> HIDE DEF f
  <2>3. \A r \in Snippet : excused[r] \subseteq excused'[r]
    BY <1>2, <2>1
  <2>4. "orphan" \notin excused'[s] => \E v \in Worker \ {w} : Working(work[v], stream, s)
    <3> SUFFICES ASSUME Holding(lock[s], s)
                 PROVE  \E v \in Worker \ {w} : Working(work[v], stream, s)
      BY <1>2, <2>1
    <3>1. lock[s] \in Worker /\ lock[s] # w
      BY <1>1, <1>2, <1>5 DEF Holding
    <3>2. Working(work[lock[s]], stream, s)
      BY <3>1, HandIsCurrent DEF Holding, Working, Inside, WithText
    <3> QED BY <3>1, <3>2
  <2>5. excused'[s] \cap {"overlap", "unsent", "orphan", "trimmed"} # {}
    BY <1>2, <2>3, <2>4
  <2>6. "orphan" \in excused'[s] => excused'[s] \cap {"short", "unsent", "orphan", "trimmed", "shared"} # {}
    OBVIOUS
  <2>7. Carry(w, f)
    BY <1>2, <1>3, <2>1, <2>2, <2>3, <2>4, <2>5, <2>6 DEF Carry, Inside, WithText
  <2> QED BY <1>1, <2>7, CarrySafe
<1>6. CASE Acquire(w) /\ lock[s] = None
  BY <1>4, <1>6 DEF Acquire, Goto
<1>7. CASE AcquireFails(w)
  <2>1. work' = [work EXCEPT ![w] = [work[w] EXCEPT !.pc = "check"]] /\ excused' = excused
    BY <1>7 DEF AcquireFails, Goto
  <2>2. [work[w] EXCEPT !.pc = "check"] = [work[w] EXCEPT !.pc = "check", !.holds = work[w].holds]
    BY <1>2 DEF Work
  <2>3. work[w].holds \in BOOLEAN
    BY <1>2 DEF Work
  <2> QED BY <1>4, <2>1, <2>2, <2>3
<1> QED BY <1>5, <1>6, <1>7

\* Check and Upsert: afterwards the metadata is that of the text this worker has read.
LEMMA CheckSafe ==
    ASSUME IInv, NEW w \in Worker, Check(w) \/ Upsert(w)
    PROVE  Safe'
<1> DEFINE s == Subject(w)
<1>1. work[w].pc \in {"check", "llm"} /\ work[w].pc \in Inside /\ work[w].pc \in WithText
  BY DEF Check, Upsert, At, Inside, WithText
<1>2. /\ s \in Snippet /\ work[w] \in Work(next) /\ work \in [Worker -> Work(next)]
      /\ meta \in [Snippet -> Text \cup {None}]
      /\ stream[Hand(work[w])] = s /\ Hand(work[w]) = Current(w) /\ work[w].snap \in Text
      /\ \A v \in Worker : v # w /\ "overlap" \notin excused[s] => ~Working(work[v], stream, s)
  BY <1>1, Facts
<1>3. UNCHANGED <<text, unsent, queue, excused>>
  BY DEF Check, Upsert, ghost
\* Whether the metadata was right or is written now, it is that of the text that was read.
<1>4. CASE work' = [work EXCEPT ![w] = Leave(w, TRUE)] /\ meta' = [meta EXCEPT ![s] = work[w].snap]
  <2> DEFINE f == Leave(w, TRUE)
  <2>1. f.todo = work[w].todo /\ f.pc = "release"
    BY <1>2 DEF Work, Leave
  <2>2. work'[w] = f /\ \A v \in Worker \ {w} : work'[v] = work[v]
    BY <1>2, <1>4
  <2> HIDE DEF f
  <2>3. meta'[s] = work[w].snap /\ meta'[s] # None /\ \A r \in Snippet \ {s} : meta'[r] = meta[r]
    BY <1>2, <1>4, TextAssumption
  <2>4. ASSUME "overlap" \notin excused[s], Lagging(meta', text, work', stream, s)
        PROVE  Lagging(meta, text, work, stream, s) /\ ~Fresh(work[w], Current(w), text[s])
    <3>1. \A v \in Worker : ~Lags(work'[v], stream, text, s)
      BY <1>2, <2>1, <2>2, <2>4, LaggersWork DEF Lags, WithText
    <3>2. work[w].snap # text[s]
      BY <2>3, <2>4, <3>1 DEF Lagging
    <3> QED BY <1>1, <1>2, <3>2 DEF Lagging, Lags, Fresh, Reads, WithText
  <2>5. Carry(w, f)
    BY <1>1, <1>2, <1>3, <1>4, <2>1, <2>3, <2>4 DEF Carry, Inside, WithText, f
  <2> QED BY <1>1, <2>5, CarrySafe
<1>5. CASE work' = [work EXCEPT ![w] = [work[w] EXCEPT !.pc = "llm"]] /\ meta' = meta
  <2> DEFINE f == [work[w] EXCEPT !.pc = "llm"]
  <2>1. f.todo = work[w].todo /\ f.pc = "llm" /\ f.snap = work[w].snap
    BY <1>2 DEF Work
  <2>2. work'[w] = f /\ \A v \in Worker \ {w} : work'[v] = work[v]
    BY <1>2, <1>5
  <2> HIDE DEF f
  <2>3. Hand(f) = Hand(work[w])
    BY <2>1, SameHand
  <2>4. Lags(f, stream, text, s) <=> Lags(work[w], stream, text, s)
    BY <1>1, <2>1, <2>3 DEF Lags, WithText
  <2>5. Lagging(meta', text, work', stream, s) => Lagging(meta, text, work, stream, s)
    BY <1>5, <2>2, <2>4 DEF Lagging
  <2>6. Fresh(work[w], Current(w), text[s]) => Fresh(f, Current(w), text[s])
    BY <1>1, <1>2, <2>1, <2>3 DEF Fresh, WithText, Reads
  <2>7. work' = [work EXCEPT ![w] = f]
    BY <1>5 DEF f
  <2>8. Carry(w, f)
    BY <1>1, <1>2, <1>3, <1>5, <2>1, <2>5, <2>6, <2>7 DEF Carry, Inside, WithText
  <2> QED BY <1>1, <2>8, CarrySafe
<1>6. CASE Check(w)
  <2>1. CASE meta[s] = work[w].snap
    <3>1. meta' = meta /\ meta = [meta EXCEPT ![s] = work[w].snap]
      BY <1>2, <1>6, <2>1 DEF Check
    <3> QED BY <1>4, <1>6, <2>1, <3>1 DEF Check, Goto
  <2>2. CASE meta[s] # work[w].snap
    BY <1>5, <1>6, <2>2 DEF Check, Goto
  <2> QED BY <2>1, <2>2
<1>7. CASE Upsert(w)
  BY <1>4, <1>7 DEF Upsert, Goto
<1> QED BY <1>6, <1>7

\* Failing and releasing: a failed message stays pending.
LEMMA LeaveSafe ==
    ASSUME IInv, NEW w \in Worker, EnrichFails(w) \/ Release(w) \/ ReleaseFails(w)
    PROVE  Safe'
<1> DEFINE s == Subject(w)
<1>1. work[w].pc \in {"load", "check", "llm", "release"}
  BY DEF EnrichFails, Release, ReleaseFails, At
<1>2. /\ s \in Snippet /\ work[w] \in Work(next) /\ work \in [Worker -> Work(next)]
      /\ stream[Hand(work[w])] = s /\ Hand(work[w]) = Current(w)
      /\ work[w].pc = "release" /\ work[w].ok => meta[s] # None
  BY <1>1, Facts
<1>3. UNCHANGED <<text, unsent, queue, meta, excused>>
  BY DEF EnrichFails, Release, ReleaseFails, ghost
\* The record it leaves with: a failure, or what it had when it released.
<1>4. \E f : /\ work' = [work EXCEPT ![w] = f] /\ f.todo = work[w].todo /\ f.pc \in {"release", "ack"}
             /\ f.ok = FALSE \/ (work[w].pc = "release" /\ f.pc = "ack" /\ f.ok = work[w].ok)
             /\ f.pc = "release" => work[w].pc \in Inside
  <2>1. CASE EnrichFails(w) /\ At(w, "load")
    <3> DEFINE g == [work[w] EXCEPT !.pc = "ack", !.ok = FALSE]
    <3>1. g.todo = work[w].todo /\ g.pc = "ack" /\ g.ok = FALSE
      BY <1>2 DEF Work
    <3>2. work' = [work EXCEPT ![w] = g]
      BY <2>1 DEF EnrichFails, Goto, At
    <3> QED BY <3>1, <3>2
  <2>2. CASE EnrichFails(w) /\ ~At(w, "load")
    <3> DEFINE g == Leave(w, FALSE)
    <3>1. g.todo = work[w].todo /\ g.pc = "release" /\ g.ok = FALSE
      BY <1>2 DEF Work, Leave
    <3>2. work' = [work EXCEPT ![w] = g] /\ work[w].pc \in Inside
      BY <2>2 DEF EnrichFails, Goto, At, Inside, WithText
    <3> QED BY <3>1, <3>2
  <2>3. CASE Release(w) \/ ReleaseFails(w)
    <3> DEFINE g == [work[w] EXCEPT !.pc = "ack"]
    <3>1. g.todo = work[w].todo /\ g.pc = "ack" /\ g.ok = work[w].ok
      BY <1>2 DEF Work
    <3>2. work' = [work EXCEPT ![w] = g] /\ work[w].pc = "release"
      BY <2>3 DEF Release, ReleaseFails, Goto, At
    <3> QED BY <3>1, <3>2
  <2> QED BY <2>1, <2>2, <2>3
<1>5. PICK f : /\ work' = [work EXCEPT ![w] = f] /\ f.todo = work[w].todo /\ f.pc \in {"release", "ack"}
               /\ f.ok = FALSE \/ (work[w].pc = "release" /\ f.pc = "ack" /\ f.ok = work[w].ok)
               /\ f.pc = "release" => work[w].pc \in Inside
  BY <1>4
<1>6. work'[w] = f /\ \A v \in Worker \ {w} : work'[v] = work[v]
  BY <1>2, <1>5
<1>7. Lagging(meta', text, work', stream, s) => Lagging(meta, text, work, stream, s)
  <2>1. ~Lags(f, stream, text, s)
    BY <1>5 DEF Lags, WithText
  <2> QED BY <1>3, <1>6, <2>1 DEF Lagging
<1>8. Fresh(work[w], Current(w), text[s]) => Fresh(f, Current(w), text[s])
  BY <1>2, <1>5 DEF Fresh, Reads, WithText
<1>9. Carry(w, f)
  BY <1>2, <1>3, <1>5, <1>7, <1>8 DEF Carry, Inside, WithText
<1> QED BY <1>1, <1>9, CarrySafe

-----------------------------------------------------------------------------
(* The invariant and what follows from it                                  *)

\* Nothing has happened yet.
LEMMA InitSafe == Init => IInv
<1> SUFFICES ASSUME Init PROVE IInv
  OBVIOUS
<1>1. TypeOK
  <2>1. work \in [Worker -> Work(0)]
    BY IdleWork DEF Init
  <2>2. stream \in Seq(Snippet) /\ Len(stream) = 0
    BY DEF Init
  <2> QED BY <2>1, <2>2 DEF Init, TypeOK, Work, Pc
<1>2. \A w \in Worker : work[w] = Idle /\ Idle.pc = "start" /\ Idle.todo = {}
  BY DEF Init, Idle
<1>3. Handled
  BY <1>2 DEF Handled, Handles, WithText
<1>7. Owned
  BY <1>2 DEF Owned, AllOwned
<1>4. OverlapsNoted
  BY <1>2 DEF OverlapsNoted, Alone, Working, Inside, WithText
<1>5. NoneLost
  BY DEF Init, NoneLost
<1>6. LagNoted
  BY TextAssumption DEF Init, LagNoted
<1> QED BY <1>1, <1>3, <1>4, <1>5, <1>6, <1>7 DEF IInv, Safe

\* Nothing changes.
LEMMA StutterSafe ==
    ASSUME IInv, UNCHANGED vars
    PROVE  IInv'
BY DEF IInv, vars, queue, ghost, TypeOK, Safe, Handled, Owned, OverlapsNoted, NoneLost, LagNoted

\* Every step keeps the invariant.
LEMMA NextSafe == IInv /\ [Next]_vars => IInv'
<1> SUFFICES ASSUME IInv, [Next]_vars PROVE IInv'
  OBVIOUS
<1>1. TypeOK /\ Handled
  BY DEF IInv, Safe
<1>2. ASSUME NEW s \in Snippet, NEW t \in Text, Save(s, t) PROVE IInv'
  BY <1>1, <1>2, TypeOutside, SafeElsewhere DEF IInv
<1>3. ASSUME NEW s \in Snippet, Purge(s) \/ Publish(s) \/ PublishFails(s) \/ LockExpire(s) PROVE IInv'
  BY <1>1, <1>3, TypeOutside, SafeElsewhere DEF IInv
<1>4. ASSUME NEW p \in Process, Restart(p) PROVE IInv'
  BY <1>1, <1>4, TypeOutside, SafeTurns DEF IInv
<1>5. ASSUME NEW w \in Worker,
             ReadPending(w) \/ ReadPendingFails(w) \/ ReadNew(w) \/ Ack(w) \/ AckFails(w)
      PROVE  IInv'
  BY <1>1, <1>5, TypeRead, SafeTurns DEF IInv
<1>6. ASSUME NEW w \in Worker, Load(w) PROVE IInv'
  BY <1>1, <1>6, TypeEnrich, LoadSafe DEF IInv
<1>7. ASSUME NEW w \in Worker, Acquire(w) \/ AcquireFails(w) PROVE IInv'
  BY <1>1, <1>7, TypeEnrich, LockSafe DEF IInv
<1>8. ASSUME NEW w \in Worker, Check(w) \/ Upsert(w) PROVE IInv'
  BY <1>1, <1>8, TypeEnrich, CheckSafe DEF IInv
<1>9. ASSUME NEW w \in Worker, EnrichFails(w) \/ Release(w) \/ ReleaseFails(w) PROVE IInv'
  BY <1>1, <1>9, TypeEnrich, LeaveSafe DEF IInv
<1> QED BY <1>2, <1>3, <1>4, <1>5, <1>6, <1>7, <1>8, <1>9, StutterSafe DEF Next, WorkerStep, FaultStep

\* When every event of s is settled there is none to come and none pending.
LEMMA SettledFacts ==
    ASSUME IInv, NEW s \in Snippet, Settled(s)
    PROVE  ~ToCome(unsent, stream, next, s) /\ \A c \in Consumer : \A i \in pel[c] : stream[i] # s
<1>1. next \in Nat /\ next <= Len(stream) /\ DOMAIN stream = 1..Len(stream) /\ Len(stream) \in Nat
      /\ pel \in [Consumer -> SUBSET (1..next)]
  BY Numbers, LenProperties DEF IInv, TypeOK
<1>2. ~ToCome(unsent, stream, next, s)
  BY <1>1 DEF Settled, ToCome
<1>3. \A c \in Consumer : \A i \in pel[c] : i \in DOMAIN stream
  BY <1>1
<1> QED BY <1>2, <1>3 DEF Settled

\* The two properties follow from the invariant.
LEMMA SafetyFollows ==
    ASSUME IInv
    PROVE  NothingLost /\ StaleOnlyByOverlap
<1>1. ASSUME NEW s \in Snippet, Settled(s)
      PROVE  ~ToCome(unsent, stream, next, s) /\ ~SomeKept(work, pel, stream, s) /\ ~SomeFresh(work, pel, stream, text, s)
  BY <1>1, SettledFacts DEF SomeKept, SomeFresh
<1>2. NothingLost
  BY <1>1 DEF NothingLost, IInv, Safe, NoneLost
<1>3. StaleOnlyByOverlap
  BY <1>1 DEF StaleOnlyByOverlap, IInv, Safe, LagNoted, Lagging
<1> QED BY <1>2, <1>3

\* IInv holds in every state of every behaviour.
THEOREM PipelineInvariance == Spec => []IInv
BY InitSafe, NextSafe, PTL DEF Spec

\* Stream, pending lists, locks, metadata and workers keep their types.
THEOREM PipelineTypeCorrect == Spec => []TypeOK
BY PipelineInvariance, PTL DEF IInv

\* For any number of workers and snippets, whatever fails, expires or restarts: an event
\* is acknowledged only when its snippet has metadata, is too short, or somebody who
\* still has an event of it is at work; or it was trimmed, or in the hands of two.
THEOREM NoEventLost == Spec => []NothingLost
BY PipelineInvariance, SafetyFollows, PTL

\* Without overlapping workers, lost publishes, orphaned locks and trimmed entries the
\* metadata ends up as that of the text that was saved last.
THEOREM StalenessHasACause == Spec => []StaleOnlyByOverlap
BY PipelineInvariance, SafetyFollows, PTL

=============================================================================
