-------------------------- MODULE Snowflake_proofs --------------------------
(***************************************************************************)
(* Proofs about Snowflake, for every width of the sequence, every number   *)
(* of nodes, every epoch and every behaviour of the clock: the ids of one  *)
(* process increase over its restarts, except in the two cases the         *)
(* property names, and carry its node id.  The bounds MaxTime, MaxIds,     *)
(* MaxBack and MaxRestarts play no part in the proofs.                     *)
(***************************************************************************)
EXTENDS Snowflake, Integers, TLAPS

-----------------------------------------------------------------------------
(* Arithmetic of packed numbers                                            *)

\* Products of a larger factor are larger by at least one other factor.
LEMMA Gap ==
    ASSUME NEW w \in Nat \ {0}, NEW x \in Nat, NEW y \in Nat, x < y
    PROVE  w * x + w <= w * y
<1> DEFINE d == y - (x + 1)
<1>1. d \in Nat /\ y = x + 1 + d
    OBVIOUS
<1> HIDE DEF d
<1>2. w * y = w * x + w + w * d /\ w * d \in Nat
    BY <1>1
<1> QED
    BY <1>2

\* Quotient and remainder of a number that is written as such.
LEMMA DivMod ==
    ASSUME NEW w \in Nat \ {0}, NEW x \in Nat, NEW s \in 0..(w - 1), NEW n \in Nat,
           n = w * x + s
    PROVE  n \div w = x /\ n % w = s
<1> DEFINE q == n \div w
           r == n % w
<1>1. n = w * q + r /\ q \in Nat /\ r \in 0..(w - 1)
    OBVIOUS
<1> HIDE DEF q, r
<1>2. w * x \in Nat /\ w * q \in Nat
    BY <1>1
<1>3. ~(q < x)
    <2> SUFFICES ASSUME q < x PROVE FALSE
        OBVIOUS
    <2>1. w * q + w <= w * x
        BY <1>1, Gap
    <2> QED
        BY <1>1, <1>2, <2>1
<1>4. ~(x < q)
    <2> SUFFICES ASSUME x < q PROVE FALSE
        OBVIOUS
    <2>1. w * x + w <= w * q
        BY <1>1, Gap
    <2> QED
        BY <1>1, <1>2, <2>1
<1>5. q = x
    BY <1>1, <1>3, <1>4
<1>6. r = s
    BY <1>1, <1>2, <1>5
<1> QED
    BY <1>5, <1>6 DEF q, r

\* The range of the constants.
LEMMA Constants ==
    /\ Width \in Nat /\ Width > 1 /\ Nodes \in Nat /\ Nodes > 0
    /\ Node \in 0..(Nodes - 1) /\ Epoch \in Nat
BY WidthAssumption, NodeAssumption, EpochAssumption

\* A packed number is an integer, and a natural number from the epoch on.
LEMMA PackType ==
    ASSUME NEW t \in Nat, NEW m \in Nat
    PROVE  Pack(t, m) \in Int /\ (t >= Epoch => Pack(t, m) \in Nat)
<1>1. (t - Epoch) * Nodes \in Int /\ (t >= Epoch => (t - Epoch) * Nodes \in Nat)
    BY Constants
<1>2. LET k == (t - Epoch) * Nodes + Node
      IN  k * Width \in Int /\ (t >= Epoch => k * Width \in Nat)
    <2> DEFINE k == (t - Epoch) * Nodes + Node
    <2>1. k \in Int /\ (t >= Epoch => k \in Nat)
        BY <1>1, Constants
    <2> HIDE DEF k
    <2>2. k * Width \in Int /\ (t >= Epoch => k * Width \in Nat)
        BY <2>1, Constants
    <2> QED
        BY <2>2 DEF k
<1> QED
    BY <1>2 DEF Pack

\* A millisecond later, the packed numbers are higher by what one millisecond holds.
LEMMA PackNext ==
    ASSUME NEW t \in Nat, NEW u \in Nat, t <= u
    PROVE  \E b \in Nat : Pack(u, 0) = Pack(t, 0) + b /\ (t < u => b >= Width)
<1> DEFINE d == u - t
           e == d * Nodes
           b == e * Width
           a == (t - Epoch) * Nodes
<1>0. Width \in Nat /\ Width > 1 /\ Nodes \in Nat /\ Nodes > 0 /\ Node \in Nat /\ Epoch \in Nat
    BY Constants
<1>1. d \in Nat /\ (t < u => d > 0) /\ u - Epoch = (t - Epoch) + d
    BY <1>0
<1>2. a \in Int
    BY <1>0
<1> HIDE DEF d
<1>3. (u - Epoch) * Nodes = a + e /\ e \in Nat
    BY <1>0, <1>1
<1>3a. t < u => e > 0
    BY <1>0, <1>1, Gap
<1> HIDE DEF a, e
<1>4. b \in Nat /\ (a + e + Node) * Width = (a + Node) * Width + b
    BY <1>0, <1>2, <1>3
<1>5. t < u => b >= Width
    <2> SUFFICES ASSUME t < u PROVE b >= Width
        OBVIOUS
    <2>1. Width * 0 + Width <= Width * e
        BY <1>0, <1>3, <1>3a, Gap
    <2> QED
        BY <1>0, <1>3, <2>1
<1>6. Pack(t, 0) = (a + Node) * Width /\ Pack(u, 0) = (a + e + Node) * Width
    <2>1. (a + Node) * Width \in Int /\ (a + e + Node) * Width \in Int
        BY <1>0, <1>2, <1>3
    <2> QED
        BY <1>3, <2>1 DEF Pack, a
<1> HIDE DEF b
<1> QED
    BY <1>4, <1>5, <1>6

\* The numbers of a millisecond lie above its first by their sequence.
LEMMA PackSeq ==
    ASSUME NEW t \in Nat, NEW m \in Nat
    PROVE  Pack(t, m) = Pack(t, 0) + m
<1>1. ((t - Epoch) * Nodes + Node) * Width \in Int
    <2>1. (t - Epoch) * Nodes \in Int /\ Node \in Int
        BY Constants
    <2> QED
        BY <2>1, Constants
<1> QED
    BY <1>1 DEF Pack

\* A packed number stays below every number of a later millisecond.
LEMMA PackLater ==
    ASSUME NEW t \in Nat, NEW u \in Nat, t < u, NEW m \in 0..(Width - 1), NEW n \in Nat
    PROVE  Pack(t, m) < Pack(t + 1, 0) /\ Pack(t + 1, 0) <= Pack(u, n)
<1>1. m \in Nat /\ m < Width /\ Width \in Nat
    BY Constants
<1>2. PICK b \in Nat : Pack(t + 1, 0) = Pack(t, 0) + b /\ b >= Width
    BY PackNext
<1>3. PICK c \in Nat : Pack(u, 0) = Pack(t + 1, 0) + c
    BY PackNext
<1>4. Pack(t, 0) \in Int /\ Pack(t + 1, 0) \in Int /\ Pack(u, 0) \in Int
    BY PackType
<1>5. Pack(t, m) = Pack(t, 0) + m /\ Pack(u, n) = Pack(u, 0) + n
    BY <1>1, PackSeq
<1> QED
    BY <1>1, <1>2, <1>3, <1>4, <1>5

\* The node id can be read back from a packed number.
LEMMA PackNode ==
    ASSUME NEW t \in Nat, t >= Epoch, NEW m \in 0..(Width - 1)
    PROVE  (Pack(t, m) \div Width) % Nodes = Node
<1> DEFINE d == t - Epoch
           x == d * Nodes + Node
<1>0. Width \in Nat \ {0} /\ Nodes \in Nat \ {0} /\ Node \in Nat /\ m \in Nat
    BY Constants
<1>1. d \in Nat /\ d * Nodes \in Nat
    <2>1. d \in Nat
        BY Constants
    <2> HIDE DEF d
    <2> QED
        BY <1>0, <2>1
<1>2. x \in Nat /\ x = Nodes * d + Node
    BY <1>0, <1>1
<1>3. x % Nodes = Node
    <2> HIDE DEF x, d
    <2> QED
        BY <1>0, <1>1, <1>2, Constants, DivMod
<1>4. Pack(t, m) = x * Width + m /\ Pack(t, m) \in Nat
    BY <1>0, PackType DEF Pack
<1>5. Pack(t, m) \div Width = x
    <2> HIDE DEF x
    <2>1. Pack(t, m) = Width * x + m
        BY <1>0, <1>2, <1>4
    <2> QED
        BY <1>0, <1>2, <1>4, <2>1, DivMod
<1> QED
    BY <1>3, <1>5

-----------------------------------------------------------------------------
(* The steps of the generator                                              *)

\* Appending a number above all others keeps the ids increasing.
LEMMA AppendAbove ==
    ASSUME NEW s \in Seq(Nat), NEW k \in Nat, NEW bound \in Nat,
           \A i, j \in DOMAIN s : i < j => s[i] < s[j],
           \A i \in DOMAIN s : s[i] < k,
           k <= bound
    PROVE  LET t == Append(s, k) IN
           /\ t \in Seq(Nat) /\ t # <<>>
           /\ \A i, j \in DOMAIN t : i < j => t[i] < t[j]
           /\ \A i \in DOMAIN t : t[i] <= bound
<1> DEFINE t == Append(s, k)
<1>1. t \in Seq(Nat) /\ Len(t) = Len(s) + 1 /\ DOMAIN t = 1..(Len(s) + 1) /\ DOMAIN s = 1..Len(s)
    OBVIOUS
<1>2. t[Len(s) + 1] = k /\ \A i \in 1..Len(s) : t[i] = s[i] /\ s[i] \in Nat
    OBVIOUS
<1>3. t # <<>>
    BY <1>1
<1> HIDE DEF t
<1>4. ASSUME NEW i \in DOMAIN t, NEW j \in DOMAIN t, i < j PROVE t[i] < t[j]
    <2>1. i \in 1..Len(s) /\ j \in 1..(Len(s) + 1)
        BY <1>1, <1>4
    <2>2. t[i] = s[i] /\ s[i] \in Nat /\ s[i] < k
        BY <1>1, <1>2, <2>1
    <2>3. CASE j = Len(s) + 1
        BY <1>2, <2>2, <2>3
    <2>4. CASE j # Len(s) + 1
        <3>1. j \in 1..Len(s)
            BY <1>1, <2>1, <2>4
        <3>2. t[j] = s[j] /\ s[i] < s[j]
            BY <1>1, <1>2, <1>4, <2>1, <3>1
        <3> QED
            BY <2>2, <3>2
    <2> QED
        BY <2>3, <2>4
<1>5. ASSUME NEW i \in DOMAIN t PROVE t[i] <= bound
    <2>1. CASE i = Len(s) + 1
        BY <1>2, <2>1
    <2>2. CASE i # Len(s) + 1
        <3>1. i \in 1..Len(s)
            BY <1>1, <1>5, <2>2
        <3>2. t[i] = s[i] /\ s[i] \in Nat /\ s[i] < k
            BY <1>1, <1>2, <3>1
        <3> QED
            BY <3>2
    <2> QED
        BY <2>1, <2>2
<1> QED
    BY <1>1, <1>3, <1>4, <1>5 DEF t

\* All ids are below k.
Below(k) == \A i \in DOMAIN ids : ids[i] < k

\* Return hands out a number above every earlier id.
LEMMA ReturnStep ==
    ASSUME TypeOK, Increasing, NEW ts \in Nat, NEW seq \in 0..(Width - 1),
           Below(Pack(ts, seq)), Return(ts, seq)
    PROVE  Increasing' /\ \A i \in DOMAIN ids' : ids'[i] <= Pack(ts, seq)
<1> DEFINE k == Pack(ts, seq)
<1>0. seq \in Nat /\ Epoch \in Nat /\ k \in Int /\ (ts >= Epoch => k \in Nat)
    BY Constants, PackType
<1>1. ids \in Seq(Nat) /\ \A i, j \in DOMAIN ids : i < j => ids[i] < ids[j]
    BY DEF TypeOK, Increasing
<1>2. \A i \in DOMAIN ids : ids[i] < k
    BY DEF Below
<1>3. ids' = IF ts < Epoch THEN ids ELSE Append(ids, k)
    BY DEF Return
<1> HIDE DEF k
<1>4. CASE ts < Epoch
    <2>1. ids' = ids
        BY <1>3, <1>4
    <2>2. \A i \in DOMAIN ids : ids[i] \in Nat
        BY <1>1
    <2>3. \A i \in DOMAIN ids : ids[i] <= k
        BY <1>0, <1>2, <2>2
    <2> QED
        BY <1>1, <2>1, <2>3 DEF Increasing, k
<1>5. CASE ~(ts < Epoch)
    <2>1. ids' = Append(ids, k) /\ k \in Nat /\ k <= k
        BY <1>0, <1>3, <1>5
    <2>2. /\ \A i, j \in DOMAIN Append(ids, k) : i < j => Append(ids, k)[i] < Append(ids, k)[j]
          /\ \A i \in DOMAIN Append(ids, k) : Append(ids, k)[i] <= k
        BY ONLY <1>1, <1>2, <2>1, AppendAbove
    <2>3. /\ \A i, j \in DOMAIN ids' : i < j => ids'[i] < ids'[j]
          /\ \A i \in DOMAIN ids' : ids'[i] <= k
        BY ONLY <2>1, <2>2
    <2> QED
        BY <2>3 DEF Increasing, k
<1> QED
    BY <1>4, <1>5

\* The ids stay below the first number of a later millisecond.
LEMMA BelowLater ==
    ASSUME TypeOK, Bounded, NEW u \in Nat, u > forgotten, u > lastTimestamp
    PROVE  \A n \in Nat : Below(Pack(u, n))
<1> SUFFICES ASSUME NEW n \in Nat, NEW i \in DOMAIN ids PROVE ids[i] < Pack(u, n)
    BY DEF Below
<1>1. ids[i] \in Nat /\ lastTimestamp \in Nat /\ forgotten \in Nat /\ sequence \in 0..(Width - 1)
      /\ sequence \in Nat /\ 0 \in 0..(Width - 1)
    BY Constants DEF TypeOK
<1>2. Pack(forgotten + 1, 0) <= Pack(u, n)
    BY <1>1, PackLater
<1>3. Pack(lastTimestamp + 1, 0) <= Pack(u, n) /\ Pack(lastTimestamp, sequence) < Pack(lastTimestamp + 1, 0)
    BY <1>1, PackLater
<1>4. /\ Pack(forgotten + 1, 0) \in Int /\ Pack(u, n) \in Int
      /\ Pack(lastTimestamp + 1, 0) \in Int /\ Pack(lastTimestamp, sequence) \in Int
    BY <1>1, PackType
<1>5. CASE ids[i] < Pack(forgotten + 1, 0)
    BY <1>1, <1>2, <1>4, <1>5
<1>6. CASE ids[i] < Pack(lastTimestamp + 1, 0)
    BY <1>1, <1>3, <1>4, <1>6
<1>7. CASE ids[i] <= Pack(lastTimestamp, sequence)
    BY <1>1, <1>3, <1>4, <1>7
<1> QED
    BY <1>5, <1>6, <1>7 DEF Bounded

\* Advance(ts) for a clock that is not behind: the invariant survives.
LEMMA AdvanceStep ==
    ASSUME TypeOK, Bounded, pc # "wrap", NEW ts \in Nat \ {0}, ts >= lastTimestamp,
           Advance(ts), UNCHANGED forgotten, ~relived'
    PROVE  Bounded'
<1>1. /\ lastTimestamp \in Nat /\ sequence \in 0..(Width - 1) /\ sequence \in Nat
      /\ forgotten \in Nat /\ Increasing
      /\ lastTimestamp = 0 \/ lastTimestamp > forgotten
      /\ 0 \in 0..(Width - 1) /\ Width \in Nat /\ Width > 1
    BY Constants DEF TypeOK, Bounded
<1>2. ASSUME NEW seq \in 0..(Width - 1), Return(ts, seq), Below(Pack(ts, seq))
      PROVE  Bounded'
    <2>1. lastTimestamp' = ts /\ sequence' = seq /\ pc' = "free" /\ relived' = (relived \/ ts <= forgotten)
        BY <1>2 DEF Return
    <2>2. ts > forgotten
        <3>1. ~(ts <= forgotten)
            BY <2>1
        <3> QED
            BY <1>1, <3>1
    <2>3. Increasing' /\ \A i \in DOMAIN ids' : ids'[i] <= Pack(ts, seq)
        BY <1>1, <1>2, ReturnStep
    <2>4. Pack(lastTimestamp, sequence)' = Pack(ts, seq)
        BY <2>1 DEF Pack
    <2> QED
        BY <2>1, <2>2, <2>3, <2>4 DEF Bounded
<1>3. CASE ts # lastTimestamp
    <2>1. Return(ts, 0) /\ lastTimestamp < ts
        BY <1>1, <1>3 DEF Advance
    <2>2. ts > forgotten
        <3>1. ~(ts <= forgotten)
            BY <2>1 DEF Return
        <3> QED
            BY <1>1, <3>1
    <2>3. Below(Pack(ts, 0))
        BY <1>1, <2>1, <2>2, BelowLater
    <2> QED
        BY <1>1, <1>2, <2>1, <2>3
<1>4. CASE ts = lastTimestamp /\ (sequence + 1) % Width # 0
    <2>1. Return(ts, sequence + 1) /\ ts > forgotten
        BY <1>1, <1>4 DEF Advance
    <2>2. sequence + 1 \in 0..(Width - 1)
        <3>1. sequence + 1 # Width
            BY <1>1, <1>4
        <3> QED
            BY <1>1, <3>1
    <2>3. ASSUME NEW i \in DOMAIN ids PROVE ids[i] < Pack(ts, sequence + 1)
        <3>1. Pack(ts, sequence) = Pack(ts, 0) + sequence /\ Pack(ts, sequence + 1) = Pack(ts, 0) + (sequence + 1)
            BY <1>1, <2>2, PackSeq
        <3>2. Pack(forgotten + 1, 0) <= Pack(ts, sequence + 1)
            BY <1>1, <2>1, <2>2, PackLater
        <3>3. Pack(ts, 0) \in Int /\ Pack(forgotten + 1, 0) \in Int /\ ids[i] \in Nat
            <4>1. ids[i] \in Nat
                BY <2>3 DEF TypeOK
            <4>2. forgotten + 1 \in Nat /\ 0 \in Nat
                BY <1>1
            <4> QED
                BY <4>1, <4>2, PackType
        <3>4. CASE ids[i] < Pack(forgotten + 1, 0)
            BY <1>1, <3>1, <3>2, <3>3, <3>4
        <3>5. CASE ids[i] <= Pack(ts, sequence)
            BY <1>1, <3>1, <3>3, <3>5
        <3> QED
            BY <1>4, <3>4, <3>5 DEF Bounded
    <2> QED
        BY <1>2, <2>1, <2>2, <2>3 DEF Below
<1>5. CASE ts = lastTimestamp /\ (sequence + 1) % Width = 0
    <2>1. pc' = "wrap" /\ lastTimestamp' = lastTimestamp /\ ids' = ids /\ forgotten' = forgotten
        BY <1>5 DEF Advance
    <2>2. lastTimestamp > forgotten
        BY <1>1, <1>5
    <2>3. Below(Pack(lastTimestamp + 1, 0))
        <3>1. lastTimestamp + 1 \in Nat /\ lastTimestamp + 1 > forgotten /\ lastTimestamp + 1 > lastTimestamp
            BY <1>1, <2>2
        <3> QED
            BY <3>1, BelowLater
    <2>4. Pack(lastTimestamp + 1, 0)' = Pack(lastTimestamp + 1, 0)
        BY <2>1 DEF Pack
    <2> QED
        BY <1>1, <2>1, <2>2, <2>3, <2>4 DEF Bounded, Below, Increasing
<1> QED
    BY <1>3, <1>4, <1>5

\* What Return needs for the types.
LEMMA ReturnTypes ==
    ASSUME TypeOK, NEW ts \in Nat, NEW seq \in 0..(Width - 1), Return(ts, seq)
    PROVE  /\ lastTimestamp' \in Nat /\ sequence' \in 0..(Width - 1) /\ pc' = "free"
           /\ ids' \in Seq(Nat) /\ relived' \in BOOLEAN
<1>1. seq \in Nat /\ Epoch \in Nat /\ ids \in Seq(Nat)
    BY Constants DEF TypeOK
<1>2. ts >= Epoch => Pack(ts, seq) \in Nat
    BY <1>1, PackType
<1>3. ids' \in Seq(Nat)
    <2>1. CASE ts < Epoch
        BY <1>1, <2>1 DEF Return
    <2>2. CASE ~(ts < Epoch)
        <3>1. ids' = Append(ids, Pack(ts, seq)) /\ Pack(ts, seq) \in Nat
            BY <1>1, <1>2, <2>2 DEF Return
        <3> QED
            BY <1>1, <3>1
    <2> QED
        BY <2>1, <2>2
<1> QED
    BY <1>3 DEF Return

\* The types need no more than Advance and Return themselves.
LEMMA AdvanceTypes ==
    ASSUME TypeOK, NEW ts \in Nat, Advance(ts)
    PROVE  /\ lastTimestamp' \in Nat /\ sequence' \in 0..(Width - 1) /\ pc' \in {"free", "wrap"}
           /\ ids' \in Seq(Nat) /\ relived' \in BOOLEAN
<1>1. Width \in Nat /\ Width > 1 /\ sequence \in 0..(Width - 1) /\ 0 \in 0..(Width - 1)
    BY Constants DEF TypeOK
<1>2. (sequence + 1) % Width # 0 => sequence + 1 \in 0..(Width - 1)
    <2>1. sequence + 1 = Width => (sequence + 1) % Width = 0
        BY <1>1
    <2> QED
        BY <1>1, <2>1
<1>3. CASE Return(ts, 0)
    BY <1>1, <1>3, ReturnTypes
<1>4. CASE (sequence + 1) % Width # 0 /\ Return(ts, sequence + 1)
    BY <1>2, <1>4, ReturnTypes
<1>5. CASE sequence' = 0 /\ pc' = "wrap" /\ UNCHANGED <<lastTimestamp, ids, relived>>
    BY <1>1, <1>5 DEF TypeOK
<1> QED
    BY <1>3, <1>4, <1>5 DEF Advance

-----------------------------------------------------------------------------
(* The invariant                                                           *)

\* A generator that has handed out nothing satisfies the invariant.
LEMMA InitOK == Init => IInv
<1> SUFFICES ASSUME Init PROVE IInv
    OBVIOUS
<1>1. TypeOK
    <2>1. now \in Nat \ {0} /\ 0 \in 0..(Width - 1)
        BY Constants, BoundsAssumption DEF Init
    <2>2. ids \in Seq(Nat)
        BY DEF Init
    <2> QED
        BY <2>1, <2>2 DEF Init, TypeOK
<1>2. Bounded
    BY DEF Init, Bounded, Increasing
<1> QED
    BY <1>1, <1>2 DEF IInv

\* A call, or what is left of one.
Call == NextID \/ CaughtUp \/ NextMillisecond

\* Calls keep the types.
LEMMA CallTypes == TypeOK /\ Call => TypeOK'
<1> SUFFICES ASSUME TypeOK, Call PROVE TypeOK'
    OBVIOUS
<1>0. now \in Nat \ {0} /\ UNCHANGED <<now, back, wrapCancelled, restarts, forgotten>>
    BY DEF TypeOK, Call, NextID, CaughtUp, NextMillisecond, life
<1>1. /\ lastTimestamp' \in Nat /\ sequence' \in 0..(Width - 1) /\ pc' \in {"free", "back", "wrap"}
      /\ ids' \in Seq(Nat) /\ relived' \in BOOLEAN
    <2>1. CASE NextID /\ now < lastTimestamp
        BY <2>1 DEF NextID, TypeOK
    <2>2. CASE (NextID /\ ~(now < lastTimestamp)) \/ CaughtUp
        <3>1. Advance(now)
            BY <2>2 DEF NextID, CaughtUp
        <3> QED
            BY <1>0, <3>1, AdvanceTypes
    <2>3. CASE NextMillisecond
        <3>1. Return(now, sequence) /\ sequence \in 0..(Width - 1)
            BY <2>3 DEF NextMillisecond, TypeOK
        <3> QED
            BY <1>0, <3>1, ReturnTypes
    <2> QED
        BY <2>1, <2>2, <2>3 DEF Call
<1> QED
    BY <1>0, <1>1 DEF TypeOK

\* Calls keep the bounds of the ids.
LEMMA CallBounded == TypeOK /\ Bounded /\ Call /\ ~relived' => Bounded'
<1> SUFFICES ASSUME TypeOK, Bounded, Call, ~relived' PROVE Bounded'
    OBVIOUS
<1>0. now \in Nat \ {0} /\ lastTimestamp \in Nat /\ UNCHANGED forgotten
    BY DEF TypeOK, Call, NextID, CaughtUp, NextMillisecond, life
<1>1. CASE NextID /\ now < lastTimestamp
    <2>1. pc = "free" /\ pc' = "back" /\ UNCHANGED <<lastTimestamp, sequence, ids, forgotten>>
        BY <1>0, <1>1 DEF NextID
    <2> QED
        BY <2>1 DEF Bounded, Increasing, Pack
<1>2. CASE (NextID /\ ~(now < lastTimestamp)) \/ CaughtUp
    <2>1. Advance(now) /\ now >= lastTimestamp /\ pc # "wrap"
        BY <1>0, <1>2 DEF NextID, CaughtUp
    <2> QED
        BY <1>0, <2>1, AdvanceStep
<1>3. CASE NextMillisecond
    <2>1. pc = "wrap" /\ now >= lastTimestamp + 1 /\ Return(now, sequence)
        BY <1>3 DEF NextMillisecond
    <2>2. now > forgotten /\ now > lastTimestamp
        BY <1>0, <2>1 DEF Bounded, TypeOK
    <2>3. Increasing' /\ \A i \in DOMAIN ids' : ids'[i] <= Pack(now, sequence)
        <3>1. sequence \in 0..(Width - 1) /\ sequence \in Nat /\ Increasing
            BY Constants DEF TypeOK, Bounded
        <3>2. Below(Pack(now, sequence))
            BY <1>0, <2>2, <3>1, BelowLater
        <3> QED
            BY <1>0, <2>1, <3>1, <3>2, ReturnStep
    <2>4. lastTimestamp' = now /\ sequence' = sequence /\ pc' = "free"
        BY <2>1 DEF Return
    <2>5. Pack(lastTimestamp, sequence)' = Pack(now, sequence)
        BY <2>4 DEF Pack
    <2> QED
        BY <1>0, <2>2, <2>3, <2>4, <2>5 DEF Bounded
<1> QED
    BY <1>1, <1>2, <1>3 DEF Call

\* A restart keeps the invariant: what was drawn is remembered as forgotten.
LEMMA RestartOK ==
    ASSUME TypeOK, Restart
    PROVE  TypeOK' /\ (Bounded => Bounded')
<1>1. /\ lastTimestamp' = 0 /\ sequence' = 0 /\ pc' = "free" /\ restarts' = restarts + 1
      /\ UNCHANGED <<now, ids, back, wrapCancelled, relived>>
    BY DEF Restart
<1>2. /\ lastTimestamp \in Nat /\ forgotten \in Nat /\ 0 \in 0..(Width - 1)
    BY Constants DEF TypeOK
<1>3. forgotten' \in Nat /\ forgotten' >= forgotten /\ forgotten' >= lastTimestamp
    BY <1>2 DEF Restart
<1>4. TypeOK'
    BY <1>1, <1>2, <1>3 DEF TypeOK
<1>5. ASSUME Bounded PROVE Bounded'
    <2>1. Below(Pack(forgotten' + 1, 0))
        <3>1. PICK f \in Nat : f = forgotten'
            BY <1>3
        <3>2. f >= forgotten /\ f >= lastTimestamp
            BY <1>3, <3>1
        <3>3. f + 1 \in Nat /\ f + 1 > forgotten /\ f + 1 > lastTimestamp
            BY <1>2, <3>2
        <3>4. Below(Pack(f + 1, 0))
            BY <1>5, <3>3, BelowLater
        <3> QED
            BY <3>1, <3>4
    <2>2. Pack(forgotten + 1, 0)' = Pack(forgotten' + 1, 0)
        BY DEF Pack
    <2> QED
        BY <1>1, <1>5, <2>1, <2>2 DEF Bounded, Below, Increasing
<1> QED
    BY <1>4, <1>5

\* Every call, every step of the clock, every cancellation and every restart keeps
\* the invariant.
LEMMA StepOK == IInv /\ [Next]_vars => IInv'
<1> SUFFICES ASSUME IInv, [Next]_vars PROVE IInv'
    OBVIOUS
<1>0. TypeOK /\ (wrapCancelled \/ relived \/ Bounded)
    BY DEF IInv
<1>1. CASE Call
    <2>1. TypeOK'
        BY <1>0, <1>1, CallTypes
    <2>2. wrapCancelled' = wrapCancelled
        BY <1>1 DEF Call, NextID, CaughtUp, NextMillisecond
    <2>3. relived => relived'
        BY <1>1 DEF Call, NextID, CaughtUp, NextMillisecond, Advance, Return
    <2>4. ~wrapCancelled /\ ~relived /\ ~relived' => Bounded'
        BY <1>0, <1>1, CallBounded
    <2> QED
        BY <2>1, <2>2, <2>3, <2>4 DEF IInv
<1>2. CASE Cancel
    <2>1. pc' = "free" /\ UNCHANGED <<now, lastTimestamp, sequence, ids, back, restarts, forgotten, relived>>
          /\ wrapCancelled' = (wrapCancelled \/ pc = "wrap")
        BY <1>2 DEF Cancel, life
    <2>2. TypeOK'
        BY <1>0, <2>1 DEF TypeOK
    <2>3. Bounded /\ pc # "wrap" => Bounded'
        BY <2>1 DEF Bounded, Increasing, Pack
    <2> QED
        BY <1>0, <2>1, <2>2, <2>3 DEF IInv
<1>3. CASE Restart
    <2>1. UNCHANGED <<wrapCancelled, relived>>
        BY <1>3 DEF Restart
    <2> QED
        BY <1>0, <1>3, <2>1, RestartOK DEF IInv
<1>4. CASE Tick \/ StepBack
    <2>1. /\ UNCHANGED <<lastTimestamp, sequence, pc, ids, wrapCancelled, restarts, forgotten, relived>>
          /\ now' \in Nat \ {0} /\ back' \in Nat
        BY <1>0, <1>4 DEF Tick, StepBack, TypeOK, life
    <2>2. TypeOK'
        BY <1>0, <2>1 DEF TypeOK
    <2>3. Bounded => Bounded'
        BY <2>1 DEF Bounded, Increasing, Pack
    <2> QED
        BY <1>0, <2>1, <2>2, <2>3 DEF IInv
<1>5. CASE UNCHANGED vars
    BY <1>0, <1>5 DEF vars, life, IInv, TypeOK, Bounded, Increasing, Pack
<1> QED
    BY <1>1, <1>2, <1>3, <1>4, <1>5 DEF Next, Call

\* The inductive invariant: types, and every id below what the generator may hand
\* out next, or below what its forgotten lives used.
THEOREM IdsInvariance == Spec => []IInv
<1>1. Init => IInv
    BY InitOK
<1>2. IInv /\ [Next]_vars => IInv'
    BY StepOK
<1> QED
    BY <1>1, <1>2, PTL DEF Spec

\* The generator's state keeps its types; in particular the sequence number stays
\* within its bits.
THEOREM IdsTypeCorrect == Spec => []TypeOK
<1>1. IInv => TypeOK
    BY DEF IInv
<1> QED
    BY <1>1, IdsInvariance, PTL

\* NextID's ids are unique and strictly increasing, for every clock, whatever calls
\* are cancelled and however often the process restarts, unless a call was cancelled
\* while it waited for the next millisecond, or a later life met a millisecond that
\* an earlier one had used.
THEOREM IdsAreUnique == Spec => []IncreasingUnlessForgotten
<1>1. IInv => IncreasingUnlessForgotten
    BY DEF IInv, Bounded, IncreasingUnlessForgotten
<1> QED
    BY <1>1, IdsInvariance, PTL

\* Return adds a number that carries the node id.
LEMMA ReturnNode ==
    ASSUME TypeOK, CarriesNode, NEW ts \in Nat, NEW seq \in 0..(Width - 1), Return(ts, seq)
    PROVE  CarriesNode'
<1>1. CASE ts < Epoch
    BY <1>1 DEF Return, CarriesNode
<1>2. CASE ~(ts < Epoch)
    <2> DEFINE k == Pack(ts, seq)
    <2>1. ts >= Epoch
        BY <1>2, Constants
    <2>2. (k \div Width) % Nodes = Node
        BY <2>1, PackNode
    <2>3. ids' = Append(ids, k) /\ ids \in Seq(Nat)
        BY <1>2 DEF Return, TypeOK
    <2>4. k \in Nat
        BY <2>1, Constants, PackType
    <2> HIDE DEF k
    <2>5. /\ DOMAIN Append(ids, k) = 1..(Len(ids) + 1) /\ DOMAIN ids = 1..Len(ids) /\ Len(ids) \in Nat
          /\ Append(ids, k)[Len(ids) + 1] = k
          /\ \A i \in 1..Len(ids) : Append(ids, k)[i] = ids[i]
        BY <2>3, <2>4
    <2>6. ASSUME NEW i \in DOMAIN ids' PROVE (ids'[i] \div Width) % Nodes = Node
        <3>1. CASE i = Len(ids) + 1
            BY <2>2, <2>3, <2>5, <3>1
        <3>2. CASE i # Len(ids) + 1
            <4>1. i \in 1..Len(ids)
                BY <2>3, <2>5, <2>6, <3>2
            <4>2. ids'[i] = ids[i] /\ i \in DOMAIN ids
                BY <2>3, <2>5, <4>1
            <4> QED
                BY <4>2 DEF CarriesNode
        <3> QED
            BY <3>1, <3>2
    <2> QED
        BY <2>6 DEF CarriesNode
<1> QED
    BY <1>1, <1>2

\* Every id carries the node id of the process, also when a millisecond's numbers are
\* used up: processes with different node ids never draw the same id.
THEOREM IdsCarryNode == Spec => []CarriesNode
<1>1. Init => CarriesNode
    BY DEF Init, CarriesNode
<1>2. TypeOK /\ CarriesNode /\ [Next]_vars => CarriesNode'
    <2> SUFFICES ASSUME TypeOK, CarriesNode, [Next]_vars PROVE CarriesNode'
        OBVIOUS
    <2>0. now \in Nat /\ sequence \in 0..(Width - 1) /\ 0 \in 0..(Width - 1) /\ Width \in Nat
        BY Constants DEF TypeOK
    <2>1. CASE ids' = ids
        BY <2>1 DEF CarriesNode
    <2>2. CASE \E seq \in 0..(Width - 1) : Return(now, seq)
        BY <2>0, <2>2, ReturnNode
    <2>3. Advance(now) => ids' = ids \/ \E seq \in 0..(Width - 1) : Return(now, seq)
        <3>1. (sequence + 1) % Width # 0 => sequence + 1 \in 0..(Width - 1)
            <4>1. sequence + 1 = Width => (sequence + 1) % Width = 0
                BY <2>0, Constants
            <4> QED
                BY <2>0, <4>1
        <3> QED
            BY <2>0, <3>1 DEF Advance
    <2>4. ids' = ids \/ Advance(now) \/ Return(now, sequence)
        BY DEF Next, NextID, CaughtUp, NextMillisecond, Cancel, Restart, Tick, StepBack, vars
    <2> QED
        BY <2>0, <2>1, <2>2, <2>3, <2>4
<1> QED
    BY <1>1, <1>2, IdsTypeCorrect, PTL DEF Spec

=============================================================================
