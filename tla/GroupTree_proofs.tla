-------------------------- MODULE GroupTree_proofs --------------------------
(***************************************************************************)
(* The groups stay a forest as long as no move is saved on the strength of *)
(* an outdated cycle check, for any number of groups and handlers.         *)
(***************************************************************************)
EXTENDS GroupListing, FiniteSetTheorems, WellFoundedInduction, TLAPS

USE RootAssumption

-----------------------------------------------------------------------------
(* The state of the groups                                                 *)

\* A check that walked up to the root separates the moved group from the target.
LEMMA WalkSeparates ==
  ASSUME TypeOK, ReferencesOK, NEW id \in Group, NEW to \in Group,
         parent[to] # New, SafeTarget(id, to)
  PROVE  Separated(id, to)
<1>0. Cardinality(Existing) \in Nat
  BY FiniteAssumption, FS_Subset, FS_CardinalityType DEF Existing
<1>a. PICK n \in 1..Cardinality(Existing) : \E chain \in [1..n -> Group \ {id}] :
         /\ chain[1] = to
         /\ \A i \in 1..n : i < n => parent[chain[i]] = chain[i + 1]
         /\ parent[chain[n]] \notin Group
  BY DEF SafeTarget
<1>1. PICK chain \in [1..n -> Group \ {id}] :
         /\ chain[1] = to
         /\ \A i \in 1..n : i < n => parent[chain[i]] = chain[i + 1]
         /\ parent[chain[n]] \notin Group
  BY <1>a
<1> DEFINE T == {chain[i] : i \in 1..n}
<1>2. n \in Nat /\ 1 \in 1..n /\ n \in 1..n
  BY <1>0
<1>3. T \subseteq Group /\ to \in T /\ id \notin T
  BY <1>1, <1>2
<1>4. ASSUME NEW i \in 1..n PROVE parent[chain[i]] \in T \cup {Top, Dead}
  <2>1. CASE i < n
    <3>1. i + 1 \in 1..n
      BY <1>2, <2>1
    <3> QED BY <1>1, <2>1, <3>1
  <2>2. CASE ~(i < n)
    <3>1. i = n
      BY <1>2, <2>2
    <3>2. parent[chain[n]] # New
      <4>1. CASE n = 1
        BY <1>1, <4>1
      <4>2. CASE n # 1
        <5>1. n - 1 \in 1..n /\ n - 1 < n /\ (n - 1) + 1 = n
          BY <1>2, <4>2
        <5>2. parent[chain[n - 1]] = chain[n] /\ chain[n - 1] \in Group /\ chain[n] \in Group
          BY <1>1, <1>2, <5>1
        <5> QED BY <5>2 DEF ReferencesOK, Exists
      <4> QED BY <4>1, <4>2
    <3>3. parent[chain[n]] \in Group \cup {Top, New, Dead}
      BY <1>1, <1>2 DEF TypeOK
    <3> QED BY <1>1, <3>1, <3>2, <3>3
  <2> QED BY <2>1, <2>2
<1>5. Closed(T)
  BY <1>4 DEF Closed
<1> QED BY <1>3, <1>5 DEF Separated

\* A forest stays one when a group moves below a target it is separated from.
LEMMA MoveKeepsForest ==
  ASSUME TypeOK, ~Cyclic, NEW id \in Group, NEW to \in Group, Separated(id, to),
         parent' = [parent EXCEPT ![id] = to]
  PROVE  ~Cyclic'
<1>1. PICK T \in SUBSET Group : to \in T /\ id \notin T /\ Closed(T)
  BY DEF Separated
<1>2. SUFFICES ASSUME NEW S \in SUBSET Group, Island(S)' PROVE FALSE
  BY DEF Cyclic
<1>3. \A g \in Group : g # id => parent'[g] = parent[g]
  BY DEF TypeOK
<1>4. CASE id \in S
  <2>1. to \in S
    BY <1>2, <1>4 DEF Island, TypeOK
  <2>2. S \cap T # {} /\ id \notin S \cap T
    BY <1>1, <2>1
  <2>3. ASSUME NEW g \in S \cap T PROVE parent[g] \in S \cap T
    <3>1. parent[g] \in S
      BY <1>1, <1>2, <1>3 DEF Island
    <3>2. parent[g] \in T \cup {Top, Dead}
      BY <1>1 DEF Closed
    <3> QED BY <3>1, <3>2
  <2>4. Island(S \cap T) /\ S \cap T \in SUBSET Group
    BY <2>2, <2>3 DEF Island
  <2> QED BY <2>4 DEF Cyclic
<1>5. CASE id \notin S
  <2>1. Island(S)
    BY <1>2, <1>3, <1>5 DEF Island
  <2> QED BY <2>1 DEF Cyclic
<1> QED BY <1>4, <1>5

\* A forest stays one when a row is inserted below an existing group.
LEMMA CreateKeepsForest ==
  ASSUME TypeOK, ReferencesOK, ~Cyclic, NEW g \in Group, parent[g] = New,
         NEW to \in Group \cup {Top}, to = Top \/ (to \in Group /\ Exists(to)),
         parent' = [parent EXCEPT ![g] = to]
  PROVE  ~Cyclic'
<1>1. SUFFICES ASSUME NEW S \in SUBSET Group, Island(S)' PROVE FALSE
  BY DEF Cyclic
<1>2. \A c \in Group : c # g => parent'[c] = parent[c] /\ parent[c] # g
  BY DEF TypeOK, ReferencesOK, Exists
<1>3. CASE g \in S
  <2>1. to \in S /\ to # g
    BY <1>1, <1>3 DEF Island, TypeOK, Exists
  <2>2. \A c \in S \ {g} : parent[c] \in S \ {g}
    BY <1>1, <1>2 DEF Island
  <2>3. Island(S \ {g}) /\ S \ {g} \in SUBSET Group
    BY <2>1, <2>2 DEF Island
  <2> QED BY <2>3 DEF Cyclic
<1>4. CASE g \notin S
  <2>1. Island(S)
    BY <1>1, <1>2, <1>4 DEF Island
  <2> QED BY <2>1 DEF Cyclic
<1> QED BY <1>3, <1>4

\* Rows that are detached or deleted close no cycle.
LEMMA DetachKeepsForest ==
  ASSUME ~Cyclic, \A g \in Group : parent'[g] \in {parent[g], Top, Dead}
  PROVE  ~Cyclic'
<1>1. SUFFICES ASSUME NEW S \in SUBSET Group, Island(S)' PROVE FALSE
  BY DEF Cyclic
<1>2. \A g \in S : parent[g] \in S
  BY <1>1 DEF Island
<1>3. Island(S)
  BY <1>1, <1>2 DEF Island
<1> QED BY <1>3 DEF Cyclic

-----------------------------------------------------------------------------
(* The requests in flight                                                  *)

LEMMA IdleOK == Idle \in Flight /\ FlightOK(Idle) /\ FlightOK(Idle)'
BY DEF Idle, Flight, FlightOK

\* What a request has checked survives a step that opens no closed set and puts
\* nothing into its group.
LEMMA FlightStays ==
  ASSUME NEW f \in Flight, FlightOK(f),
         \A g \in Group : parent[g] # New => parent'[g] # New,
         \A T \in SUBSET Group : Closed(T) => Closed(T)',
         HasChild(f.id)' => HasChild(f.id),
         f.pc # "exec" \/ (Filled(f.id)' => Filled(f.id))
  PROVE  FlightOK(f)'
<1>1. f.pc # "idle" => Known(f.id)'
  BY DEF FlightOK, Known
<1>2. f.pc \in {"query", "save"} /\ f.to \in Group => Known(f.to)' /\ (f.stale \/ Separated(f.id, f.to)')
  BY DEF FlightOK, Known, Separated
<1>3. f.pc \in {"count", "exec"} /\ ~f.late => ~HasChild(f.id)'
  BY DEF FlightOK
<1>4. f.pc = "exec" /\ ~f.late => ~Filled(f.id)'
  BY DEF FlightOK
<1> QED BY <1>1, <1>2, <1>3, <1>4 DEF FlightOK

\* A write of p, announced to the others.
LEMMA WriteStep ==
  ASSUME IInv, NEW p \in Proc, NEW moved \in BOOLEAN, NEW late \in SUBSET Proc,
         flight' = Others(p, Idle, moved, late),
         \A g \in Group : parent[g] # New => parent'[g] # New,
         moved \/ \A T \in SUBSET Group : Closed(T) => Closed(T)',
         \A q \in Proc \ late, g \in Group : flight[q].id = g =>
            /\ flight[q].pc \in {"count", "exec"} => (HasChild(g)' => HasChild(g))
            /\ flight[q].pc = "exec" => (Filled(g)' => Filled(g))
  PROVE  flight' \in [Proc -> Flight] /\ \A q \in Proc : FlightOK(flight[q])'
<1>1. ASSUME NEW q \in Proc PROVE flight'[q] \in Flight /\ FlightOK(flight[q])'
  <2>1. CASE q = p
    BY <2>1, IdleOK DEF Others
  <2>2. CASE q # p
    <3> DEFINE f == flight[q]
               busy == moved /\ f.pc \in {"query", "save"}
               h == [f EXCEPT !.stale = @ \/ busy, !.late = @ \/ (q \in late)]
    <3>1. f \in Flight /\ FlightOK(f)
      BY DEF IInv, TypeOK
    <3>2. flight'[q] = h
      BY <2>2 DEF Others
    <3>3. h \in Flight
      BY <3>1 DEF Flight
    <3>4. /\ h.pc = f.pc /\ h.id = f.id /\ h.to = f.to
          /\ h.stale = (f.stale \/ busy) /\ h.late = (f.late \/ q \in late)
      BY <3>1 DEF Flight
    <3>5. PICK k \in Flight : k = h
      BY <3>3
    <3>6. /\ k.pc = flight[q].pc /\ k.id = flight[q].id /\ k.to = flight[q].to
          /\ k.stale = (flight[q].stale \/ (moved /\ k.pc \in {"query", "save"}))
          /\ k.late = (flight[q].late \/ q \in late)
      BY <3>4, <3>5
    <3> HIDE DEF f, busy, h
    <3>7. FlightOK(flight[q])
      BY DEF IInv
    <3>8. k.pc # "idle" => Known(k.id)'
      BY <3>6, <3>7 DEF FlightOK, Known
    <3>9. k.pc \in {"query", "save"} /\ k.to \in Group => Known(k.to)' /\ (k.stale \/ Separated(k.id, k.to)')
      <4>1. SUFFICES ASSUME k.pc \in {"query", "save"}, k.to \in Group, ~k.stale
                     PROVE Separated(k.id, k.to)'
        BY <3>6, <3>7 DEF FlightOK, Known
      <4>2. ~moved /\ Separated(k.id, k.to)
        BY <3>6, <3>7, <4>1 DEF FlightOK
      <4> QED BY <4>2 DEF Separated
    <3>a. k.pc # "idle" => k.id \in Group
      BY <3>6, <3>7 DEF FlightOK, Known
    <3>10. k.pc \in {"count", "exec"} /\ ~k.late => ~HasChild(k.id)'
      BY <3>6, <3>7, <3>a DEF FlightOK
    <3>11. k.pc = "exec" /\ ~k.late => ~Filled(k.id)'
      BY <3>6, <3>7, <3>a DEF FlightOK
    <3>12. FlightOK(k)'
      BY <3>8, <3>9, <3>10, <3>11 DEF FlightOK
    <3>13. flight'[q] = k /\ k \in Flight
      BY <3>2, <3>5
    <3> QED BY <3>12, <3>13
  <2> QED BY <2>1, <2>2
<1>2. flight' \in [Proc -> Flight]
  BY <1>1 DEF Others
<1> QED BY <1>1, <1>2

\* A step of p that the others do not see, or that only detaches and deletes rows.
LEMMA OwnStep ==
  ASSUME IInv, NEW p \in Proc, NEW own \in Flight, FlightOK(own)',
         flight' = [flight EXCEPT ![p] = own],
         \A g \in Group : parent[g] # New => parent'[g] # New,
         \A T \in SUBSET Group : Closed(T) => Closed(T)',
         \A g \in Group \cup {Top} : g # Top => (HasChild(g)' => HasChild(g)) /\ (Filled(g)' => Filled(g))
  PROVE  flight' \in [Proc -> Flight] /\ \A q \in Proc : FlightOK(flight[q])'
<1>1. flight' \in [Proc -> Flight]
  BY DEF IInv, TypeOK
<1>2. ASSUME NEW q \in Proc PROVE FlightOK(flight[q])'
  <2>1. CASE q = p
    <3>1. flight'[q] = own
      BY <2>1 DEF IInv, TypeOK
    <3> QED BY <3>1
  <2>2. CASE q # p
    <3>0. flight'[q] = flight[q]
      BY <2>2 DEF IInv, TypeOK
    <3>1. PICK k \in Flight : k = flight[q]
      BY DEF IInv, TypeOK
    <3>2. FlightOK(k)
      BY <3>1 DEF IInv
    <3>3. CASE k.pc = "idle"
      <4>1. FlightOK(k)'
        BY <3>3 DEF FlightOK
      <4> QED BY <3>0, <3>1, <4>1
    <3>4. CASE k.pc # "idle"
      <4>1. k.id \in Group
        BY <3>2, <3>4 DEF FlightOK, Known
      <4>2. FlightOK(k)'
        BY <3>2, <4>1, FlightStays
      <4> QED BY <3>0, <3>1, <4>2
    <3> QED BY <3>3, <3>4
  <2> QED BY <2>1, <2>2
<1> QED BY <1>1, <1>2

-----------------------------------------------------------------------------
(* One lemma per action                                                    *)

LEMMA InitOK == Init => IInv
<1> SUFFICES ASSUME Init PROVE IInv
  OBVIOUS
<1>1. TypeOK /\ ReferencesOK
  BY IdleOK DEF Init, TypeOK, ReferencesOK
<1>2. CycleOnlyByOverlap
  BY DEF Init, CycleOnlyByOverlap, Cyclic, Island
<1>3. \A p \in Proc : FlightOK(flight[p])
  BY IdleOK DEF Init
<1> QED BY <1>1, <1>2, <1>3 DEF IInv

LEMMA CreateStep ==
  ASSUME IInv, NEW p \in Proc, NEW g \in Group, NEW to \in Group \cup {Top}, Create(p, g, to)
  PROVE  IInv'
<1> DEFINE late == Deleting(to, {"count", "exec"})
<1>0. /\ TypeOK /\ ReferencesOK /\ CycleOnlyByOverlap
      /\ parent[g] = New /\ (to = Top \/ (to \in Group /\ Exists(to)))
      /\ parent' = [parent EXCEPT ![g] = to]
      /\ flight' = Others(p, Idle, FALSE, late)
      /\ UNCHANGED <<rank, filed, raced>>
  BY DEF IInv, Create
<1>1. late \in SUBSET Proc
  BY DEF Deleting
<1>2. \A h \in Group : parent[h] # New => parent'[h] # New
  BY <1>0 DEF TypeOK
<1>3. ASSUME NEW T \in SUBSET Group, Closed(T) PROVE Closed(T)'
  <2>1. g \notin T
    BY <1>0, <1>3 DEF Closed
  <2> QED BY <1>0, <1>3, <2>1 DEF Closed, TypeOK
<1>4. ASSUME NEW q \in Proc \ late, NEW h \in Group, flight[q].id = h
      PROVE  /\ flight[q].pc \in {"count", "exec"} => (HasChild(h)' => HasChild(h))
             /\ Filled(h)' => Filled(h)
  <2>1. Filled(h)' => Filled(h)
    BY <1>0 DEF Filled
  <2>2. CASE flight[q].pc \in {"count", "exec"}
    <3>1. h # to
      BY <1>4, <2>2 DEF Deleting
    <3>2. HasChild(h)' => HasChild(h)
      BY <1>0, <3>1 DEF HasChild, TypeOK
    <3> QED BY <2>1, <3>2
  <2> QED BY <2>1, <2>2
<1>5. flight' \in [Proc -> Flight] /\ \A q \in Proc : FlightOK(flight[q])'
  BY <1>0, <1>1, <1>2, <1>3, <1>4, WriteStep
<1>6. CycleOnlyByOverlap'
  BY <1>0, CreateKeepsForest DEF CycleOnlyByOverlap
<1>7. TypeOK' /\ ReferencesOK'
  BY <1>0, <1>5 DEF TypeOK, ReferencesOK, Exists
<1> QED BY <1>5, <1>6, <1>7 DEF IInv

LEMMA FileStep ==
  ASSUME IInv, NEW p \in Proc, NEW s \in Snippet, NEW to \in Group \cup {Top}, File(p, s, to)
  PROVE  IInv'
<1> DEFINE late == Deleting(to, {"exec"})
<1>0. /\ TypeOK /\ ReferencesOK /\ CycleOnlyByOverlap
      /\ to = Top \/ (to \in Group /\ Exists(to))
      /\ filed' = [filed EXCEPT ![s] = to]
      /\ flight' = Others(p, Idle, FALSE, late)
      /\ UNCHANGED <<parent, rank, raced>>
  BY DEF IInv, File
<1>1. late \in SUBSET Proc
  BY DEF Deleting
<1>2. \A h \in Group : parent[h] # New => parent'[h] # New
  BY <1>0
<1>3. \A T \in SUBSET Group : Closed(T) => Closed(T)'
  BY <1>0 DEF Closed
<1>4. ASSUME NEW q \in Proc \ late, NEW h \in Group, flight[q].id = h
      PROVE  /\ HasChild(h)' => HasChild(h)
             /\ flight[q].pc = "exec" => (Filled(h)' => Filled(h))
  <2>1. HasChild(h)' => HasChild(h)
    BY <1>0 DEF HasChild
  <2>2. CASE flight[q].pc = "exec"
    <3>1. h # to
      BY <1>4, <2>2 DEF Deleting
    <3>2. Filled(h)' => Filled(h)
      BY <1>0, <3>1 DEF Filled, TypeOK
    <3> QED BY <2>1, <3>2
  <2> QED BY <2>1, <2>2
<1>5. flight' \in [Proc -> Flight] /\ \A q \in Proc : FlightOK(flight[q])'
  BY <1>0, <1>1, <1>2, <1>3, <1>4, WriteStep
<1>6. CycleOnlyByOverlap'
  BY <1>0 DEF CycleOnlyByOverlap, Cyclic, Island
<1>7. TypeOK' /\ ReferencesOK'
  BY <1>0, <1>5 DEF TypeOK, ReferencesOK, Exists
<1> QED BY <1>5, <1>6, <1>7 DEF IInv

\* Steps that change nothing but the handler's own request.
LEMMA ThinkStep ==
  ASSUME IInv, NEW p \in Proc, NEW own \in Flight, FlightOK(own),
         flight' = [flight EXCEPT ![p] = own], UNCHANGED <<parent, rank, filed, raced>>
  PROVE  IInv'
<1>0. FlightOK(own)'
  BY DEF FlightOK, Known, Separated, Closed, HasChild, Filled
<1>1. /\ \A g \in Group : parent[g] # New => parent'[g] # New
      /\ \A T \in SUBSET Group : Closed(T) => Closed(T)'
      /\ \A g \in Group \cup {Top} : (HasChild(g)' => HasChild(g)) /\ (Filled(g)' => Filled(g))
  BY DEF Closed, HasChild, Filled
<1>2. flight' \in [Proc -> Flight] /\ \A q \in Proc : FlightOK(flight[q])'
  BY <1>0, <1>1, OwnStep
<1>3. TypeOK' /\ ReferencesOK' /\ CycleOnlyByOverlap'
  BY <1>2 DEF IInv, TypeOK, ReferencesOK, Exists, CycleOnlyByOverlap, Cyclic, Island
<1> QED BY <1>2, <1>3 DEF IInv

LEMMA UpdateCheckStep ==
  ASSUME IInv, NEW p \in Proc, NEW g \in Group, NEW to \in Group \cup {Top},
         NEW r \in Rank \cup {Top}, UpdateCheck(p, g, to, r)
  PROVE  IInv'
<1> DEFINE own == [Idle EXCEPT !.pc = "query", !.id = g, !.to = to, !.sort = r]
<1>1. own \in Flight /\ own.pc = "query" /\ own.id = g /\ own.to = to
  BY DEF Idle, Flight
<1>2. Known(g)
  BY DEF UpdateCheck, Exists, Known
<1>3. to \in Group => Known(to) /\ Separated(g, to)
  BY WalkSeparates DEF UpdateCheck, Known, IInv
<1>4. FlightOK(own)
  BY <1>1, <1>2, <1>3 DEF FlightOK
<1> QED BY <1>1, <1>4, ThinkStep DEF UpdateCheck

LEMMA UpdateQueryStep ==
  ASSUME IInv, NEW p \in Proc, UpdateQuery(p)
  PROVE  IInv'
<1>1. PICK f \in Flight : f = flight[p] /\ FlightOK(f)
  BY DEF IInv, TypeOK
<1>2. UNCHANGED <<parent, rank, filed, raced>> /\ f.pc = "query"
  BY <1>1 DEF UpdateQuery, At
<1>3. CASE Exists(f.id)
  <2>1. PICK w \in Group \cup {Top} : w = parent[f.id]
    BY <1>3 DEF Exists
  <2> DEFINE own == [f EXCEPT !.pc = "save", !.was = w]
  <2>2. own \in Flight /\ own.pc = "save" /\ own.id = f.id /\ own.to = f.to /\ own.stale = f.stale
    BY DEF Flight
  <2>3. FlightOK(own)
    BY <1>1, <1>2, <2>2 DEF FlightOK
  <2>4. flight' = [flight EXCEPT ![p] = own]
    BY <1>1, <1>3, <2>1 DEF UpdateQuery
  <2> QED BY <1>2, <2>2, <2>3, <2>4, ThinkStep
<1>4. CASE ~Exists(f.id)
  <2>1. flight' = [flight EXCEPT ![p] = Idle]
    BY <1>1, <1>4 DEF UpdateQuery
  <2> QED BY <1>2, <2>1, IdleOK, ThinkStep
<1> QED BY <1>3, <1>4

LEMMA DeleteCheckStep ==
  ASSUME IInv, NEW p \in Proc, NEW g \in Group, DeleteCheck(p, g)
  PROVE  IInv'
<1> DEFINE own == [Idle EXCEPT !.pc = "count", !.id = g]
<1>1. own \in Flight /\ own.pc = "count" /\ own.id = g
  BY DEF Idle, Flight
<1>2. FlightOK(own)
  BY <1>1 DEF FlightOK, DeleteCheck, Exists, Known, HasChild
<1> QED BY <1>1, <1>2, ThinkStep DEF DeleteCheck

LEMMA DeleteCountStep ==
  ASSUME IInv, NEW p \in Proc, DeleteCount(p)
  PROVE  IInv'
<1>1. PICK f \in Flight : f = flight[p] /\ FlightOK(f)
  BY DEF IInv, TypeOK
<1> DEFINE own == [f EXCEPT !.pc = "exec"]
<1>2. own \in Flight /\ own.pc = "exec" /\ own.id = f.id /\ own.late = f.late
  BY DEF Flight
<1>3. f.pc = "count"
  BY <1>1 DEF DeleteCount, At
<1>4. ~Filled(f.id) => FlightOK(own)
  BY <1>1, <1>2, <1>3 DEF FlightOK
<1>5. PICK k \in Flight : k = own
  BY <1>2
<1>6. ~Filled(f.id) => FlightOK(k)
  BY <1>4, <1>5
<1>7. (~Filled(f.id) /\ flight' = [flight EXCEPT ![p] = k]) \/ flight' = [flight EXCEPT ![p] = Idle]
  BY <1>1, <1>5 DEF DeleteCount, Filled
<1>8. UNCHANGED <<parent, rank, filed, raced>>
  BY DEF DeleteCount
<1> QED BY <1>6, <1>7, <1>8, IdleOK, ThinkStep

LEMMA AbortStep ==
  ASSUME IInv, NEW p \in Proc, Abort(p)
  PROVE  IInv'
BY IdleOK, ThinkStep DEF Abort

LEMMA DeleteExecStep ==
  ASSUME IInv, NEW p \in Proc, DeleteExec(p)
  PROVE  IInv'
<1>0. TypeOK /\ ReferencesOK /\ CycleOnlyByOverlap
  BY DEF IInv
<1>1. /\ flight' = [flight EXCEPT ![p] = Idle]
      /\ UNCHANGED <<rank, raced>>
  BY DEF DeleteExec
<1>2. PICK d \in Group \cup {Top} :
         \/ /\ d \in Group
            /\ parent' = [c \in Group |-> IF c = d THEN Dead ELSE IF parent[c] = d THEN Top ELSE parent[c]]
            /\ filed' = [s \in Snippet |-> IF filed[s] = d THEN Top ELSE filed[s]]
         \/ UNCHANGED <<parent, filed>>
  <2>1. flight[p].id \in Group
    BY DEF DeleteExec, At, IInv, FlightOK, Known
  <2> QED BY <2>1 DEF DeleteExec
<1>3. CASE UNCHANGED <<parent, filed>>
  BY <1>1, <1>3, IdleOK, ThinkStep
<1>4. CASE /\ d \in Group
           /\ parent' = [c \in Group |-> IF c = d THEN Dead ELSE IF parent[c] = d THEN Top ELSE parent[c]]
           /\ filed' = [s \in Snippet |-> IF filed[s] = d THEN Top ELSE filed[s]]
  <2>1. \A c \in Group : parent'[c] = IF c = d THEN Dead ELSE IF parent[c] = d THEN Top ELSE parent[c]
    BY <1>4
  <2>2. \A g \in Group : parent[g] # New => parent'[g] # New
    BY <2>1
  <2>3. \A T \in SUBSET Group : Closed(T) => Closed(T)'
    BY <2>1 DEF Closed
  <2>4. \A g \in Group \cup {Top} : g # Top => (HasChild(g)' => HasChild(g)) /\ (Filled(g)' => Filled(g))
    BY <1>4, <2>1 DEF HasChild, Filled
  <2>5. flight' \in [Proc -> Flight] /\ \A q \in Proc : FlightOK(flight[q])'
    BY <1>1, <2>2, <2>3, <2>4, IdleOK, OwnStep
  <2>6. CycleOnlyByOverlap'
    BY <1>0, <1>1, <2>1, DetachKeepsForest DEF CycleOnlyByOverlap
  <2>7. TypeOK'
    <3>1. parent' \in [Group -> Group \cup {Top, New, Dead}]
      BY <1>0, <1>4, <2>1 DEF TypeOK
    <3>2. filed' \in [Snippet -> Group \cup {Top}]
      BY <1>0, <1>4 DEF TypeOK
    <3> QED BY <1>0, <1>1, <2>5, <3>1, <3>2 DEF TypeOK
  <2>8. ReferencesOK'
    <3>1. \A g \in Group : parent'[g] \in Group => Exists(parent[g])'
      BY <1>0, <2>1, <1>4 DEF ReferencesOK, Exists, TypeOK
    <3>2. \A s \in Snippet : filed'[s] \in Group => Exists(filed[s])'
      BY <1>0, <2>1, <1>4 DEF ReferencesOK, Exists, TypeOK
    <3> QED BY <3>1, <3>2 DEF ReferencesOK
  <2> QED BY <2>5, <2>6, <2>7, <2>8 DEF IInv
<1> QED BY <1>2, <1>3, <1>4

LEMMA UpdateSaveStep ==
  ASSUME IInv, NEW p \in Proc, UpdateSave(p)
  PROVE  IInv'
<1>0. TypeOK /\ ReferencesOK /\ CycleOnlyByOverlap
  BY DEF IInv
<1>1. PICK f \in Flight : f = flight[p] /\ FlightOK(f)
  BY DEF IInv, TypeOK
<1>2. f.pc = "save" /\ Known(f.id) /\ f.to \in Group \cup {Top} /\ f.sort \in Rank \cup {Top}
  BY <1>1 DEF UpdateSave, At, FlightOK, Flight
<1> DEFINE saved == Exists(f.id) /\ (f.to = Top \/ Exists(f.to))
           moves == saved /\ f.to \in Group
           late  == IF moves THEN Deleting(f.to, {"count", "exec"}) ELSE {}
<1>3. /\ parent' = IF moves \/ (saved /\ f.was # Top) THEN [parent EXCEPT ![f.id] = f.to] ELSE parent
      /\ rank' = IF saved /\ f.sort # Top THEN [rank EXCEPT ![f.id] = f.sort] ELSE rank
      /\ flight' = Others(p, Idle, moves, late)
      /\ raced' = (raced \/ (moves /\ f.stale))
      /\ filed' = filed
  BY <1>1 DEF UpdateSave
<1>4. moves \in BOOLEAN /\ late \in SUBSET Proc /\ f.id \in Group
  BY <1>2 DEF Deleting, Known
<1>5. ASSUME NEW g \in Group, parent[g] # New PROVE parent'[g] # New
  BY <1>0, <1>2, <1>3, <1>5 DEF TypeOK
<1>6. ASSUME ~moves PROVE \A g \in Group : parent'[g] \in {parent[g], Top}
  BY <1>0, <1>2, <1>3, <1>6 DEF TypeOK
<1>7. moves \/ \A T \in SUBSET Group : Closed(T) => Closed(T)'
  BY <1>6 DEF Closed
<1>8. ASSUME NEW q \in Proc \ late, NEW g \in Group, flight[q].id = g
      PROVE  /\ flight[q].pc \in {"count", "exec"} => (HasChild(g)' => HasChild(g))
             /\ Filled(g)' => Filled(g)
  <2>1. Filled(g)' => Filled(g)
    BY <1>3 DEF Filled
  <2>2. CASE ~moves
    <3>1. HasChild(g)' => HasChild(g)
      BY <1>6, <2>2 DEF HasChild
    <3> QED BY <2>1, <3>1
  <2>3. CASE moves /\ flight[q].pc \in {"count", "exec"}
    <3>1. g # f.to
      BY <1>8, <2>3 DEF Deleting
    <3>2. HasChild(g)' => HasChild(g)
      BY <1>0, <1>3, <1>4, <2>3, <3>1 DEF HasChild, TypeOK
    <3> QED BY <2>1, <3>2
  <2> QED BY <2>1, <2>2, <2>3
<1>9. flight' \in [Proc -> Flight] /\ \A q \in Proc : FlightOK(flight[q])'
  <2> HIDE DEF saved, moves, late
  <2> QED BY <1>3, <1>4, <1>5, <1>7, <1>8, WriteStep
<1>10. CycleOnlyByOverlap'
  <2>1. CASE ~moves
    <3>1. Cyclic => raced
      BY <1>0 DEF CycleOnlyByOverlap
    <3>2. raced' = raced
      BY <1>0, <1>3, <2>1 DEF TypeOK
    <3>3. ~Cyclic => ~Cyclic'
      BY <1>6, <2>1, DetachKeepsForest
    <3> QED BY <3>1, <3>2, <3>3 DEF CycleOnlyByOverlap
  <2>2. CASE moves /\ ~f.stale
    <3>1. Separated(f.id, f.to) /\ f.to \in Group
      BY <1>1, <1>2, <2>2 DEF FlightOK
    <3>2. parent' = [parent EXCEPT ![f.id] = f.to]
      BY <1>3, <2>2
    <3>3. ~Cyclic => ~Cyclic'
      BY <1>0, <1>4, <3>1, <3>2, MoveKeepsForest
    <3> QED BY <1>0, <1>3, <3>3 DEF CycleOnlyByOverlap
  <2>3. CASE moves /\ f.stale
    BY <1>3, <2>3 DEF CycleOnlyByOverlap
  <2> QED BY <2>1, <2>2, <2>3
<1>11. TypeOK'
  <2>1. parent' \in [Group -> Group \cup {Top, New, Dead}]
    BY <1>0, <1>2, <1>3 DEF TypeOK
  <2>2. rank' \in [Group -> Nat]
    BY <1>0, <1>2, <1>3, RankAssumption DEF TypeOK
  <2>3. raced' \in BOOLEAN
    BY <1>0, <1>3 DEF TypeOK
  <2> QED BY <1>0, <1>3, <1>9, <2>1, <2>2, <2>3 DEF TypeOK
<1>12. ReferencesOK'
  <2>1. \A g \in Group : Exists(g) => Exists(g)'
    BY <1>0, <1>2, <1>3 DEF Exists, TypeOK
  <2>2. ASSUME NEW g \in Group, parent'[g] \in Group PROVE Exists(parent[g])'
    <3>1. CASE parent'[g] = parent[g]
      BY <1>0, <2>1, <2>2, <3>1 DEF ReferencesOK, Exists
    <3>2. CASE parent'[g] # parent[g]
      <4>1. moves /\ parent'[g] = f.to
        BY <1>0, <1>3, <1>2, <2>2, <3>2 DEF TypeOK
      <4>2. PICK h \in Group : h = f.to /\ Exists(h)
        BY <4>1
      <4>3. Exists(h)'
        BY <2>1, <4>2
      <4> QED BY <4>1, <4>2, <4>3 DEF Exists
    <3> QED BY <3>1, <3>2
  <2>3. ASSUME NEW s \in Snippet, filed'[s] \in Group PROVE Exists(filed[s])'
    <3>1. PICK h \in Group : h = filed[s] /\ filed'[s] = h /\ Exists(h)
      BY <1>0, <1>3, <2>3 DEF ReferencesOK
    <3> QED BY <2>1, <3>1 DEF Exists
  <2> QED BY <2>2, <2>3 DEF ReferencesOK
<1> QED BY <1>9, <1>10, <1>11, <1>12 DEF IInv

LEMMA StutterStep ==
  ASSUME IInv, UNCHANGED vars
  PROVE  IInv'
BY DEF vars, IInv, TypeOK, ReferencesOK, Exists, CycleOnlyByOverlap, Cyclic, Island, FlightOK,
       Known, Separated, Closed, HasChild, Filled

LEMMA NextOK == IInv /\ [Next]_vars => IInv'
<1> SUFFICES ASSUME IInv, [Next]_vars PROVE IInv'
  OBVIOUS
<1>1. ASSUME NEW p \in Proc, CreateNext(p) PROVE IInv'
  BY <1>1, CreateStep, FileStep DEF CreateNext
<1>2. ASSUME NEW p \in Proc, UpdateNext(p) PROVE IInv'
  BY <1>2, UpdateCheckStep, UpdateQueryStep, UpdateSaveStep DEF UpdateNext
<1>3. ASSUME NEW p \in Proc, DeleteNext(p) PROVE IInv'
  BY <1>3, DeleteCheckStep, DeleteCountStep, DeleteExecStep DEF DeleteNext
<1>4. ASSUME NEW p \in Proc, Abort(p) PROVE IInv'
  BY <1>4, AbortStep
<1> QED BY <1>1, <1>2, <1>3, <1>4, StutterStep DEF Next

-----------------------------------------------------------------------------
(* The theorems                                                            *)

\* The inductive invariant holds in every reachable state of the group service.
THEOREM TreeInvariance == Spec => []IInv
BY InitOK, NextOK, PTL DEF Spec

\* Every variable keeps its type.
THEOREM TreeTypeCorrect == Spec => []TypeOK
BY TreeInvariance, PTL DEF IInv

\* Update's walk to the root keeps the groups a forest, for any number of groups
\* and handlers, as long as no other move is saved between the walk and the write.
THEOREM ForestUnlessRaced == Spec => []CycleOnlyByOverlap
BY TreeInvariance, PTL DEF IInv

\* No row ever names a group that has been deleted.
THEOREM ReferencesStand == Spec => []ReferencesOK
BY TreeInvariance, PTL DEF IInv

LEMMA EmptyWhenCounted == IInv => DeletesOnlyEmpty
<1> SUFFICES ASSUME IInv, NEW p \in Proc, At(p, "exec"), ~flight[p].late
             PROVE  Contents(flight[p].id) = {}
  BY DEF DeletesOnlyEmpty
<1>1. ~HasChild(flight[p].id) /\ ~Filled(flight[p].id)
  BY DEF IInv, FlightOK, At
<1> QED BY <1>1 DEF Contents, HasChild, Filled

\* A group is deleted empty unless something was put into it after it was counted.
THEOREM DeletionIsSafe == Spec => []DeletesOnlyEmpty
BY TreeInvariance, EmptyWhenCounted, PTL

-----------------------------------------------------------------------------
(* The tree that a client receives                                         *)
(*                                                                         *)
(* Induction is over sets of numbers: one that holds 0 and the successors  *)
(* of its members holds every number.                                      *)

LEMMA MinExists ==
    ASSUME NEW S \in SUBSET Nat, S # {}
    PROVE  \E i \in S : \A j \in S : i <= j
<1> DEFINE R == {ss \in Nat \X Nat : ss[1] < ss[2]}
<1>1. IsWellFoundedOn(R, Nat)
  BY NatLessThanWellFounded DEF OpToRel
<1>2. \A m, n \in Nat : m < n => <<m, n>> \in R
  OBVIOUS
<1> HIDE DEF R
<1>3. PICK x \in S : \A y \in S : ~(<<y, x>> \in R)
  BY <1>1, WFMin
<1>4. \A y \in S : ~(y < x)
  BY <1>2, <1>3
<1> QED BY <1>4

LEMMA Numbers ==
    ASSUME NEW T, 0 \in T, \A n \in Nat : n \in T => n + 1 \in T
    PROVE  Nat \subseteq T
<1> SUFFICES ASSUME Nat \ T # {} PROVE FALSE
  OBVIOUS
<1>1. PICK i \in Nat \ T : \A j \in Nat \ T : i <= j
  BY MinExists
<1>2. i # 0 /\ i - 1 \in Nat /\ i - 1 \in T
  BY <1>1
<1> QED
  BY <1>1, <1>2

\* Listed groups are compared as numbers.
LEMMA Comparable ==
    ASSUME TypeOK
    PROVE  /\ \A g, h \in Group : Before(g, h) \/ Before(h, g) \/ g = h
           /\ \A g, h \in Group : ~(Before(g, h) /\ Before(h, g))
           /\ \A g, h, k \in Group : Before(g, h) /\ Before(h, k) => Before(g, k)
<1>1. \A g \in Group : rank[g] \in Nat /\ g \in Nat
  BY NameAssumption DEF TypeOK
<1> QED
  BY <1>1 DEF Before

LEMMA ExistingFinite == IsFiniteSet(Existing) /\ \A S \in SUBSET Existing : IsFiniteSet(S)
BY FiniteAssumption, FS_Subset DEF Existing

\* A set of groups has a last one in the listing.
LEMMA LastListed ==
    ASSUME TypeOK, NEW S \in SUBSET Existing, S # {}
    PROVE  /\ LastOf(S) \in S
           /\ \A h \in S \ {LastOf(S)} : Before(h, LastOf(S))
<1> DEFINE HasLast(Q) == \E g \in Q : \A h \in Q \ {g} : Before(h, g)
           T == {n \in Nat : \A Q \in SUBSET Existing :
                    Q # {} /\ Cardinality(Q) = n => HasLast(Q)}
<1>1. 0 \in T
  BY ExistingFinite, FS_EmptySet
<1>2. ASSUME NEW n \in Nat, n \in T PROVE n + 1 \in T
  <2> SUFFICES ASSUME NEW Q \in SUBSET Existing, Q # {}, Cardinality(Q) = n + 1
               PROVE  HasLast(Q)
    OBVIOUS
  <2>1. PICK x \in Q : TRUE
    OBVIOUS
  <2>2. Cardinality(Q \ {x}) = n
    <3>1. IsFiniteSet(Q)
      BY ExistingFinite
    <3>2. Cardinality(Q \ {x}) = Cardinality(Q) - 1
      BY <2>1, <3>1, FS_RemoveElement
    <3> QED
      BY <3>2
  <2>3. CASE Q \ {x} = {}
    BY <2>1, <2>3
  <2>4. CASE Q \ {x} # {}
    <3>1. PICK y \in Q \ {x} : \A h \in (Q \ {x}) \ {y} : Before(h, y)
      BY <1>2, <2>2, <2>4
    <3>2. Q \subseteq Group
      BY DEF Existing
    <3>3. CASE Before(x, y)
      BY <3>1, <3>3
    <3>4. CASE Before(y, x)
      <4>1. \A h \in Q \ {x} : Before(h, x)
        BY <2>1, <3>1, <3>2, <3>4, Comparable
      <4> QED
        BY <2>1, <4>1
    <3> QED
      BY <2>1, <3>1, <3>2, <3>3, <3>4, Comparable
  <2> QED
    BY <2>3, <2>4
<1> HIDE DEF T
<1>3. Nat \subseteq T
  BY <1>1, <1>2, Numbers
<1>4. Cardinality(S) \in Nat
  BY ExistingFinite, FS_CardinalityType
<1>5. HasLast(S)
  BY <1>3, <1>4 DEF T
<1> QED
  BY <1>5 DEF LastOf

\* What Attached says of S, of any function f from sets of groups.
Nothing == [below |-> [g \in Group |-> {g}], roots |-> {}]
Then(f, S) == IF S = {} THEN Nothing ELSE Attach(f[S \ {LastOf(S)}], LastOf(S))

\* The recursion is well-founded: the sets get smaller.
LEMMA AttachedIs ==
    ASSUME TypeOK
    PROVE  Attached = [S \in SUBSET Existing |-> Then(Attached, S)]
<1> DEFINE Small(n) == {S \in SUBSET Existing : Cardinality(S) <= n}
           T == {n \in Nat : \E f : f = [S \in Small(n) |-> Then(f, S)]}
<1>1. 0 \in T
  <2> DEFINE f == [S \in Small(0) |-> Nothing]
  <2>1. \A S \in Small(0) : S = {}
    BY ExistingFinite, FS_EmptySet, FS_CardinalityType
  <2>2. f = [S \in Small(0) |-> Then(f, S)]
    BY <2>1 DEF Then
  <2> QED
    BY <2>2
<1>2. ASSUME NEW n \in Nat, n \in T PROVE n + 1 \in T
  <2>1. PICK f : f = [S \in Small(n) |-> Then(f, S)]
    BY <1>2
  <2> DEFINE g == [S \in Small(n + 1) |-> Then(f, S)]
  <2>2. \A S \in Small(n) : S \in Small(n + 1) /\ g[S] = f[S]
    <3>1. \A S \in Small(n) : S \in Small(n + 1)
      BY ExistingFinite, FS_CardinalityType
    <3>2. \A S \in Small(n) : f[S] = Then(f, S)
      BY <2>1
    <3> QED
      BY <3>1, <3>2
  <2>3. ASSUME NEW S \in Small(n + 1) PROVE Then(g, S) = Then(f, S)
    <3>1. CASE S = {}
      BY <3>1 DEF Then
    <3>2. CASE S # {}
      <4>1. LastOf(S) \in S
        BY <3>2, LastListed
      <4>2. S \ {LastOf(S)} \in Small(n)
        BY <4>1, ExistingFinite, FS_RemoveElement, FS_CardinalityType
      <4> HIDE DEF g
      <4> QED
        BY <2>2, <3>2, <4>2 DEF Then
    <3> QED
      BY <3>1, <3>2
  <2>4. g = [S \in Small(n + 1) |-> Then(g, S)]
    BY <2>3
  <2>5. \E h : h = [S \in Small(n + 1) |-> Then(h, S)]
    <3> HIDE DEF g
    <3> QED
      BY <2>4
  <2>6. n + 1 \in Nat
    OBVIOUS
  <2> HIDE DEF Small
  <2> QED
    BY <2>5, <2>6, Zenon
<1> HIDE DEF T
<1>3. Nat \subseteq T
  BY <1>1, <1>2, Numbers
<1>4. Cardinality(Existing) \in Nat
  BY ExistingFinite, FS_CardinalityType
<1>5. Small(Cardinality(Existing)) = SUBSET Existing
  BY ExistingFinite, FS_Subset
<1>6. \E f : f = [S \in SUBSET Existing |-> Then(f, S)]
  BY <1>3, <1>4, <1>5 DEF T
<1> QED
  BY <1>6 DEF Attached, Then, Nothing


\* S is a beginning of the listing.
Start(S) == S \subseteq Existing /\ \A g \in S, h \in Existing : Before(h, g) => h \in S

\* What holds before the first group is attached, and stays when the next one is,
\* holds after every beginning of the listing.
LEMMA StartInduction ==
    ASSUME TypeOK, NEW Good, {} \in Good,
           \A S \in SUBSET Existing :
               Start(S) /\ S # {} /\ S \ {LastOf(S)} \in Good => S \in Good
    PROVE  \A S : Start(S) => S \in Good
<1> DEFINE T == {n \in Nat : \A S \in SUBSET Existing : Start(S) /\ Cardinality(S) = n => S \in Good}
<1>1. 0 \in T
  BY ExistingFinite, FS_EmptySet
<1>2. ASSUME NEW n \in Nat, n \in T PROVE n + 1 \in T
  <2> SUFFICES ASSUME NEW S \in SUBSET Existing, Start(S), Cardinality(S) = n + 1
               PROVE  S \in Good
    OBVIOUS
  <2>1. S # {} /\ IsFiniteSet(S)
    BY ExistingFinite, FS_EmptySet
  <2> DEFINE x == LastOf(S)
             R == S \ {x}
  <2>2. x \in S /\ \A h \in R : Before(h, x)
    BY <2>1, LastListed
  <2> HIDE DEF x
  <2>3. Cardinality(R) = n
    <3>1. Cardinality(R) = Cardinality(S) - 1
      BY <2>1, <2>2, FS_RemoveElement
    <3> QED
      BY <3>1
  <2>4. Start(R)
    <3> SUFFICES ASSUME NEW g \in R, NEW h \in Existing, Before(h, g)
                 PROVE  h \in R
      BY DEF Start
    <3>1. h \in S
      BY DEF Start
    <3>2. h # x
      BY <2>2, Comparable DEF Existing
    <3> QED
      BY <3>1, <3>2
  <2>5. R \in Good
    BY <1>2, <2>3, <2>4
  <2> QED
    BY <2>1, <2>5 DEF x
<1> HIDE DEF T
<1>3. Nat \subseteq T
  BY <1>1, <1>2, Numbers
<1> SUFFICES ASSUME NEW S, Start(S) PROVE S \in Good
  OBVIOUS
<1>4. S \in SUBSET Existing /\ Cardinality(S) \in Nat
  BY ExistingFinite, FS_CardinalityType DEF Start
<1> QED
  BY <1>3, <1>4 DEF T

\* One more group is attached to what has been attached before it.
LEMMA AttachedNext ==
    ASSUME TypeOK, NEW S \in SUBSET Existing, S # {}, Start(S)
    PROVE  \E x \in S : /\ x = LastOf(S) /\ x \in Existing
                        /\ Attached[S] = Attach(Attached[S \ {x}], x)
                        /\ \A h \in S \ {x} : Before(h, x)
                        /\ \A h \in Existing : Before(h, x) => h \in S
<1>1. LastOf(S) \in S /\ \A h \in S \ {LastOf(S)} : Before(h, LastOf(S))
  BY LastListed
<1>2. Attached[S] = Then(Attached, S)
  BY AttachedIs
<1> QED
  BY <1>1, <1>2 DEF Then, Start

Trees == [below : [Group -> SUBSET Group], roots : SUBSET Group]

\* u is t after the copy of x has been added to one list.
Adds(t, x, u) ==
    /\ \A h \in Group : u.below[h] = IF h = parent[x] /\ h \in Existing
                                     THEN t.below[h] \cup t.below[x] ELSE t.below[h]
    /\ u.roots = IF parent[x] \in Existing THEN t.roots ELSE t.roots \cup t.below[x]

LEMMA AttachAdds ==
    ASSUME NEW t \in Trees, NEW x \in Existing
    PROVE  Attach(t, x) \in Trees /\ Adds(t, x, Attach(t, x))
<1>1. x \in Group
  BY DEF Existing
<1>2. CASE parent[x] \in Existing
  <2>1. parent[x] \in Group
    BY <1>2 DEF Existing
  <2> QED
    BY <1>1, <1>2, <2>1 DEF Attach, Adds, Trees
<1>3. CASE parent[x] \notin Existing
  BY <1>1, <1>3 DEF Attach, Adds, Trees
<1> QED
  BY <1>2, <1>3

LEMMA FirstTree ==
    ASSUME TypeOK
    PROVE  Attached[{}] = Nothing
BY AttachedIs DEF Then

LEMMA TreesTyped ==
    ASSUME TypeOK
    PROVE  \A S : Start(S) => Attached[S] \in Trees
<1> DEFINE Good == {S \in SUBSET Existing : Attached[S] \in Trees}
<1>1. {} \in Good
  BY FirstTree DEF Trees, Nothing
<1>2. ASSUME NEW S \in SUBSET Existing, Start(S), S # {}, S \ {LastOf(S)} \in Good
      PROVE  S \in Good
  <2>1. PICK x \in S : x = LastOf(S) /\ x \in Existing /\ Attached[S] = Attach(Attached[S \ {x}], x)
    BY <1>2, AttachedNext
  <2>2. Attached[S \ {x}] \in Trees
    BY <1>2, <2>1
  <2> QED
    BY <2>1, <2>2, AttachAdds
<1> HIDE DEF Good
<1>3. \A S : Start(S) => S \in Good
  BY <1>1, <1>2, StartInduction
<1> QED
  BY <1>3 DEF Good

\* Complete(C): with a group, C holds those below it, and it holds the late ones.
Complete(C) == /\ C \subseteq Existing /\ AfterParent \subseteq C
             /\ \A c \in Existing : parent[c] \in C => c \in C

\* A group outside a closed set is never lost: its copies are in a group that will
\* still be attached, or below the roots.
Held(C, S) == \A g \in Existing \ C : \/ g \in Attached[S].roots
                                      \/ \E h \in Existing \ C : h \notin S /\ g \in Attached[S].below[h]

LEMMA NothingElseLost ==
    ASSUME TypeOK, ~Cyclic, NEW C, Complete(C)
    PROVE  Existing \ C \subseteq GetTree
<1> DEFINE Good == {S \in SUBSET Existing : Held(C, S)}
<1>1. {} \in Good
  BY FirstTree DEF Held, Nothing, Existing
<1>2. ASSUME NEW S \in SUBSET Existing, Start(S), S # {}, S \ {LastOf(S)} \in Good
      PROVE  S \in Good
  <2>1. PICK x \in S : /\ x = LastOf(S) /\ x \in Existing
                       /\ Attached[S] = Attach(Attached[S \ {x}], x)
                       /\ \A h \in S \ {x} : Before(h, x)
                       /\ \A h \in Existing : Before(h, x) => h \in S
    BY <1>2, AttachedNext
  <2> DEFINE R == S \ {x}
             t == Attached[R]
             u == Attached[S]
  <2>2. Held(C, R)
    BY <1>2, <2>1
  <2>3. Start(R)
    BY <1>2, <2>1, Comparable DEF Start, Existing
  <2>4. t \in Trees
    BY <2>3, TreesTyped
  <2>5. /\ \A h \in Group : u.below[h] = IF h = parent[x] /\ h \in Existing
                                         THEN t.below[h] \cup t.below[x] ELSE t.below[h]
        /\ u.roots = IF parent[x] \in Existing THEN t.roots ELSE t.roots \cup t.below[x]
    <3>1. Attach(t, x) \in Trees /\ Adds(t, x, Attach(t, x))
      BY <2>1, <2>4, AttachAdds
    <3> QED
      BY <2>1, <3>1 DEF Adds
  <2> HIDE DEF t, u
  <2> SUFFICES ASSUME NEW g \in Existing \ C
               PROVE  \/ g \in u.roots
                      \/ \E h \in Existing \ C : h \notin S /\ g \in u.below[h]
    BY DEF Held, u
  <2>6. \/ g \in t.roots
        \/ \E h \in Existing \ C : h \notin R /\ g \in t.below[h]
    BY <2>2 DEF Held, t
  <2>7. CASE g \in t.roots
    BY <2>5, <2>7
  <2>8. ASSUME NEW h \in Existing \ C, h \notin R, g \in t.below[h], h # x
        PROVE  \E k \in Existing \ C : k \notin S /\ g \in u.below[k]
    <3>1. g \in u.below[h]
      BY <2>5, <2>8 DEF Existing
    <3> QED
      BY <2>8, <3>1
  <2>9. CASE x \notin C /\ g \in t.below[x]
    <3>1. CASE parent[x] \notin Existing
      BY <2>5, <2>9, <3>1
    <3>2. CASE parent[x] \in Existing
      <4> DEFINE p == parent[x]
      <4>1. p \notin C
        BY <2>1, <2>9, <3>2 DEF Complete
      <4>2. ~Before(p, x)
        BY <2>1, <2>9, <3>2 DEF Complete, AfterParent, Before
      <4>3. p # x
        <5>1. x \in Group
          BY <2>1 DEF Existing
        <5>2. SUFFICES ASSUME p = x PROVE Island({x})
          BY <5>1 DEF Cyclic
        <5> QED
          BY <5>2 DEF Island
      <4>4. p \notin S
        BY <2>1, <4>2, <4>3
      <4>5. g \in u.below[p]
        BY <2>5, <2>9, <3>2 DEF Existing
      <4> QED
        BY <3>2, <4>1, <4>4, <4>5
    <3> QED
      BY <3>1, <3>2
  <2> QED
    BY <2>6, <2>7, <2>8, <2>9
<1> HIDE DEF Good
<1>3. Start(Existing)
  BY DEF Start
<1>4. Existing \in Good
  BY <1>1, <1>2, <1>3, StartInduction
<1> QED
  BY <1>4 DEF Good, Held, GetTree

\* What a copy holds, and what the roots hold, hangs together, and no late group is in
\* it: a copy that is still to be attached holds itself and groups whose parents it
\* holds as well.
Hangs(g, set) == parent[g] \in set /\ parent[g] \in Existing /\ g \notin AfterParent
Sound(S) ==
    /\ \A h \in Existing \ S : /\ h \in Attached[S].below[h]
                               /\ \A g \in Attached[S].below[h] : g = h \/ Hangs(g, Attached[S].below[h])
    /\ \A g \in Attached[S].roots : parent[g] \notin Existing \/ Hangs(g, Attached[S].roots)

LEMMA NothingLateShown ==
    ASSUME TypeOK
    PROVE  \A g \in GetTree : parent[g] \notin Existing \/ Hangs(g, GetTree)
<1> DEFINE Good == {S \in SUBSET Existing : Sound(S)}
<1>1. {} \in Good
  BY FirstTree DEF Sound, Nothing, Existing
<1>2. ASSUME NEW S \in SUBSET Existing, Start(S), S # {}, S \ {LastOf(S)} \in Good
      PROVE  S \in Good
  <2>1. PICK x \in S : /\ x = LastOf(S) /\ x \in Existing
                       /\ Attached[S] = Attach(Attached[S \ {x}], x)
                       /\ \A h \in S \ {x} : Before(h, x)
                       /\ \A h \in Existing : Before(h, x) => h \in S
    BY <1>2, AttachedNext
  <2> DEFINE R == S \ {x}
             t == Attached[R]
             u == Attached[S]
             p == parent[x]
  <2>2. Sound(R)
    BY <1>2, <2>1
  <2>3. Start(R)
    BY <1>2, <2>1, Comparable DEF Start, Existing
  <2>4. t \in Trees
    BY <2>3, TreesTyped
  <2>5. /\ \A h \in Group : u.below[h] = IF h = p /\ h \in Existing
                                         THEN t.below[h] \cup t.below[x] ELSE t.below[h]
        /\ u.roots = IF p \in Existing THEN t.roots ELSE t.roots \cup t.below[x]
    <3>1. Attach(t, x) \in Trees /\ Adds(t, x, Attach(t, x))
      BY <2>1, <2>4, AttachAdds
    <3> QED
      BY <2>1, <3>1 DEF Adds
  <2>6. /\ \A h \in Existing \ R : /\ h \in t.below[h]
                                   /\ \A g \in t.below[h] : g = h \/ Hangs(g, t.below[h])
        /\ \A g \in t.roots : parent[g] \notin Existing \/ Hangs(g, t.roots)
    BY <2>2 DEF Sound
  <2> HIDE DEF t, u
  <2>7. ASSUME NEW h \in Existing \ S
        PROVE  h \in u.below[h] /\ \A g \in u.below[h] : g = h \/ Hangs(g, u.below[h])
    <3>1. h \in Group /\ h \in Existing \ R
      BY DEF Existing
    <3>2. CASE h # p
      BY <2>5, <2>6, <3>1, <3>2
    <3>3. CASE h = p
      <4>1. u.below[h] = t.below[h] \cup t.below[x]
        BY <2>5, <3>1, <3>3
      <4>2. x \notin AfterParent
        BY <2>1, <2>7, <3>3 DEF AfterParent, Before
      <4>3. Hangs(x, u.below[h])
        BY <2>6, <3>1, <3>3, <4>1, <4>2 DEF Hangs
      <4>4. \A g \in t.below[x] : g = x \/ Hangs(g, u.below[h])
        BY <2>1, <2>6, <4>1 DEF Hangs
      <4>5. \A g \in t.below[h] : g = h \/ Hangs(g, u.below[h])
        BY <2>6, <3>1, <4>1 DEF Hangs
      <4> QED
        BY <2>6, <3>1, <4>1, <4>3, <4>4, <4>5
    <3> QED
      BY <3>2, <3>3
  <2>8. ASSUME NEW g \in u.roots
        PROVE  parent[g] \notin Existing \/ Hangs(g, u.roots)
    <3>1. CASE g \in t.roots
      BY <2>5, <2>6, <3>1 DEF Hangs
    <3>2. CASE p \notin Existing /\ g \in t.below[x]
      BY <2>1, <2>5, <2>6, <3>2 DEF Hangs
    <3> QED
      BY <2>5, <2>8, <3>1, <3>2
  <2> QED
    BY <2>7, <2>8 DEF Sound, u
<1> HIDE DEF Good
<1>3. Start(Existing)
  BY DEF Start
<1>4. Existing \in Good
  BY <1>1, <1>2, <1>3, StartInduction
<1> QED
  BY <1>4 DEF Good, Sound, GetTree

LEMMA AnswerIs == TypeOK => LosesOnlyLateChildren
<1> SUFFICES ASSUME TypeOK, ~Cyclic PROVE Existing \ GetTree = CutOff
  BY DEF LosesOnlyLateChildren
<1>1. ASSUME NEW g \in Existing, g \notin GetTree PROVE g \in CutOff
  <2> SUFFICES ASSUME NEW S \in SUBSET Existing, AfterParent \subseteq S,
                      \A c \in Existing : parent[c] \in S => c \in S
               PROVE  g \in S
    BY DEF CutOff
  <2>1. Complete(S)
    BY DEF Complete
  <2> QED
    BY <1>1, <2>1, NothingElseLost
<1>2. ASSUME NEW g \in CutOff PROVE g \in Existing /\ g \notin GetTree
  <2> DEFINE S == Existing \ GetTree
  <2>1. AfterParent \subseteq S
    BY NothingLateShown DEF AfterParent, Hangs
  <2>2. \A c \in Existing : parent[c] \in S => c \in S
    BY NothingLateShown DEF Hangs
  <2>3. S \in SUBSET Existing
    OBVIOUS
  <2> HIDE DEF S
  <2>4. g \in S
    BY <2>1, <2>2, <2>3 DEF CutOff
  <2> QED
    BY <2>4 DEF S
<1> QED
  BY <1>1, <1>2

\* Whatever requests overlap, and however the groups are renumbered: in a forest the
\* client's tree lacks exactly the groups listed after their own parent and what
\* lies below them.
THEOREM TreeLosesOnlyLate == Spec => []LosesOnlyLateChildren
BY TreeTypeCorrect, AnswerIs, PTL

=============================================================================
