--------------------------- MODULE Gateway_proofs ---------------------------
(***************************************************************************)
(* The limiters in front of the gateway keep what they promise, for any    *)
(* number of callers, any limit, window and delay.  Then the server behind *)
(* it: one that drains says so.                                            *)
(***************************************************************************)
EXTENDS Gateway, Health, FiniteSetTheorems, TLAPS

USE LimitAssumption DEF Age, MaxAge

-----------------------------------------------------------------------------
(* Limiters: initial states, and steps that run no script                  *)

CallsOK == call \in [Caller -> Call] /\ \A c \in Caller : At(c, "sent") => call[c].age <= MaxLate

LEMMA NoneIs == None \in [Age -> Nat] /\ \A a \in Age : None[a] = 0
BY DEF None

LEMMA GoneIs ==
    /\ Gone \in [ttl : 0..Window, n : 0..(Limit + 1), entries : [Age -> Nat], tokens : Int, last : Age]
    /\ Gone.ttl = 0 /\ Gone.n = 0 /\ Gone.entries = None /\ Gone.tokens = Limit * Window /\ Gone.last = 0
<1>1. Limit * Window \in Int
  OBVIOUS
<1> QED
  BY <1>1, NoneIs DEF Gone

LEMMA Products ==
    /\ Limit * Window \in Nat /\ Limit * MaxLate \in Nat
    /\ \A a \in Nat : Limit * a \in Nat /\ a * MaxLate \in Nat
    /\ \A a, b \in Int : a <= b => Limit * a <= Limit * b
    /\ \A a, b \in Int : Limit * (a + b) = Limit * a + Limit * b
<1>1. \A a, b \in Nat : a * b \in Nat
  OBVIOUS
<1>2. \A a, b \in Int : a <= b => Limit * a <= Limit * b
  OBVIOUS
<1>3. \A a, b \in Int : Limit * (a + b) = Limit * a + Limit * b
  OBVIOUS
<1> QED
  BY <1>1, <1>2, <1>3

LEMMA LimitersInitOK == LimitersInit => LimitersIInv
<1> SUFFICES ASSUME LimitersInit PROVE LimitersIInv
  OBVIOUS
<1>1. LimitersTypeOK
  <2>1. [pc |-> "idle", age |-> 0] \in Call
    BY DEF Call
  <2>2. call \in [Caller -> Call]
    BY <2>1 DEF LimitersInit
  <2>3. quiet = Window /\ key = Gone /\ log = None /\ locked = FALSE
    BY DEF LimitersInit
  <2>4. key \in [ttl : 0..Window, n : 0..(Limit + 1), entries : [Age -> Nat], tokens : Int, last : Age]
    BY <2>3, GoneIs
  <2>5. log \in [Age -> Nat] /\ quiet \in 0..Window
    BY <2>3, NoneIs
  <2>7. locked \in BOOLEAN
    BY <2>3
  <2>6. limiter \in {"fixed", "sliding", "bucket"}
    BY DEF LimitersInit
  <2> QED
    BY <2>2, <2>4, <2>5, <2>6, <2>7 DEF LimitersTypeOK
<1>2. KeyOK
  BY GoneIs, NoneIs DEF LimitersInit, KeyOK, Growing, At
<1>3. FixedOK /\ SlidingOK
  BY GoneIs, NoneIs DEF LimitersInit, FixedOK, SlidingOK
<1>4. BucketOK
  <2> SUFFICES ASSUME NEW to \in Age, NEW k \in 1..(MaxAge + 1)
               PROVE  log[to] * Window + Stock <= Limit * Window + Limit * to + Limit * (k * MaxLate)
    <3>1. key.ttl = Window - quiet /\ ~(key.ttl > 0)
      BY GoneIs DEF LimitersInit
    <3> QED
      BY <3>1 DEF BucketOK
  <2>1. log[to] * Window = 0
    BY NoneIs DEF LimitersInit
  <2>2. Stock = Limit * Window + Limit * MaxLate
    BY GoneIs DEF LimitersInit, Stock, Full
  <2>3. MaxLate <= k * MaxLate
    OBVIOUS
  <2>4. Limit * MaxLate <= Limit * (k * MaxLate) /\ Limit * to \in Nat
    BY <2>3, Products
  <2> QED
    BY <2>1, <2>2, <2>4, Products
<1>5. LimitHolds
  <2> SUFFICES ASSUME NEW from \in Age, NEW to \in Age, from <= to
               PROVE  /\ LetIn(from, to) <= Limit
                      /\ \A k \in 1..(MaxAge + 1) :
                            LetIn(from, to) * Window <= Limit * (Window + to - from + k * MaxLate)
    BY DEF LimitHolds
  <2>1. LetIn(from, to) = 0
    BY NoneIs DEF LetIn, LimitersInit
  <2>2. ASSUME NEW k \in 1..(MaxAge + 1) PROVE 0 <= Limit * (Window + to - from + k * MaxLate)
    <3>1. k * MaxLate \in Nat
      OBVIOUS
    <3>2. Window + to - from + k * MaxLate \in Nat
      BY <3>1
    <3> QED
      BY <3>2, Products
  <2> QED
    BY <2>1, <2>2
<1>6. PauseHelps
  BY DEF LimitersInit, PauseHelps
<1> QED
  BY <1>1, <1>2, <1>3, <1>4, <1>5, <1>6 DEF LimitersIInv

\* Only what the callers do is new.
LEMMA StillStep ==
  ASSUME LimitersIInv, CallsOK', UNCHANGED <<limiter, key, log, quiet, locked>>
  PROVE  LimitersIInv'
<1>1. LimitersTypeOK'
  BY DEF LimitersIInv, LimitersTypeOK, CallsOK
<1>2. KeyOK'
  BY DEF LimitersIInv, KeyOK, CallsOK, Growing
<1>3. FixedOK' /\ SlidingOK'
  BY DEF LimitersIInv, FixedOK, SlidingOK
<1>4. BucketOK'
  BY DEF LimitersIInv, BucketOK, Stock
<1>5. LimitHolds' /\ PauseHelps'
  BY DEF LimitersIInv, LimitHolds, LetIn, PauseHelps
<1> QED
  BY <1>1, <1>2, <1>3, <1>4, <1>5 DEF LimitersIInv

LEMMA GoStep ==
  ASSUME LimitersIInv, NEW c \in Caller, NEW step \in {"idle", "sent", "allowed", "entering", "running"},
         Go(c, step)
  PROVE  CallsOK'
<1>1. call \in [Caller -> Call] /\ \A d \in Caller : At(d, "sent") => call[d].age <= MaxLate
  BY DEF LimitersIInv, LimitersTypeOK, KeyOK
<1>2. [pc |-> step, age |-> 0] \in Call
  BY DEF Call
<1>3. call' \in [Caller -> Call]
  BY <1>1, <1>2 DEF Go
<1>4. \A d \in Caller : call'[d] = IF d = c THEN [pc |-> step, age |-> 0] ELSE call[d]
  BY <1>1 DEF Go
<1> QED
  BY <1>1, <1>3, <1>4 DEF CallsOK, At

-----------------------------------------------------------------------------
(* Limiters: a script runs                                                 *)


Keys == [ttl : 0..Window, n : 0..(Limit + 1), entries : [Age -> Nat], tokens : Int, last : Age]

LEMMA Typed ==
  ASSUME LimitersIInv
  PROVE  /\ key \in Keys
         /\ key.ttl \in 0..Window /\ key.n \in 0..(Limit + 1) /\ key.entries \in [Age -> Nat]
         /\ key.tokens \in Int /\ key.last \in Age
         /\ log \in [Age -> Nat] /\ Growing(log) /\ Growing(key.entries)
         /\ quiet \in 0..Window /\ limiter \in {"fixed", "sliding", "bucket"} /\ locked \in BOOLEAN
<1>1. key \in Keys
  BY DEF LimitersIInv, LimitersTypeOK, Keys
<1>2. /\ key.ttl \in 0..Window /\ key.n \in 0..(Limit + 1) /\ key.entries \in [Age -> Nat]
      /\ key.tokens \in Int /\ key.last \in Age
  BY <1>1 DEF Keys
<1>3. log \in [Age -> Nat] /\ quiet \in 0..Window /\ locked \in BOOLEAN
  BY DEF LimitersIInv, LimitersTypeOK
<1>4. limiter \in {"fixed", "sliding", "bucket"}
  BY DEF LimitersIInv, LimitersTypeOK
<1>5. Growing(log) /\ Growing(key.entries)
  BY DEF LimitersIInv, KeyOK
<1> QED
  BY <1>1, <1>2, <1>3, <1>4, <1>5

\* What a script may write into a key.
LEMMA KeyCounted ==
  ASSUME NEW k \in Keys, NEW n \in 0..(Limit + 1)
  PROVE  /\ [k EXCEPT !.n = n, !.ttl = Window] \in Keys
         /\ [k EXCEPT !.n = n, !.ttl = Window].n = n
         /\ [k EXCEPT !.n = n, !.ttl = Window].ttl = Window
         /\ [k EXCEPT !.n = n, !.ttl = Window].entries = k.entries
<1>1. Window \in 0..Window
  OBVIOUS
<1> QED
  BY <1>1 DEF Keys

LEMMA KeyPruned ==
  \A k \in Keys, entries \in [Age -> Nat] :
     /\ [k EXCEPT !.entries = entries] \in Keys
     /\ [k EXCEPT !.entries = entries, !.ttl = Window] \in Keys
<1>1. Window \in 0..Window
  OBVIOUS
<1> QED
  BY <1>1 DEF Keys

LEMMA KeyFilled ==
  \A k \in Keys, tokens \in Int, g \in 0..MaxLate :
     [k EXCEPT !.tokens = tokens, !.last = g, !.ttl = Window] \in Keys
<1>1. Window \in 0..Window /\ 0..MaxLate \subseteq Age
  OBVIOUS
<1> QED
  BY <1>1 DEF Keys

\* Each kind of limiter by itself: what it answers and what it leaves, for a stamp of
\* age g.
LEMMA FixedScript ==
  ASSUME LimitersIInv, limiter = "fixed", NEW g \in 0..MaxLate
  PROVE  /\ Allow(g).key \in Keys
         /\ Allow(g).key.ttl = Window /\ Allow(g).key.entries = key.entries
         /\ Allow(g).ok \in BOOLEAN
         /\ key.n <= Allow(g).key.n
         /\ Allow(g).ok => key.n + 1 <= Allow(g).key.n /\ Allow(g).key.n <= Limit
         /\ key = Gone => Allow(g).ok
<1> DEFINE n == Least(key.n + 1, Limit + 1)
           new == [key EXCEPT !.n = n, !.ttl = Window]
<1>1. key \in Keys
  BY DEF LimitersIInv, LimitersTypeOK, Keys
<1>2. Allow(g) = [ok |-> n <= Limit, key |-> new]
  BY DEF Allow, Fixed
<1>3. /\ n \in 0..(Limit + 1) /\ key.n <= n
      /\ n <= Limit => n = key.n + 1
  BY <1>1 DEF Least, Keys
<1>4. key = Gone => n <= Limit
  BY GoneIs DEF Least
<1> HIDE DEF n
<1>5. new \in Keys /\ new.n = n /\ new.ttl = Window /\ new.entries = key.entries
  BY <1>1, <1>3, KeyCounted
<1> HIDE DEF new
<1>6. Allow(g).ok \in BOOLEAN /\ (Allow(g).ok <=> n <= Limit) /\ Allow(g).key = new
  <2>1. CASE n <= Limit
    <3>1. Allow(g) = [ok |-> TRUE, key |-> new]
      BY <1>2, <2>1
    <3> QED
      BY <2>1, <3>1
  <2>2. CASE ~(n <= Limit)
    <3>1. (n <= Limit) = FALSE
      BY <2>2
    <3>2. Allow(g) = [ok |-> FALSE, key |-> new]
      BY <1>2, <3>1, Zenon
    <3> QED
      BY <2>2, <3>2
  <2> QED
    BY <2>1, <2>2
<1> QED
  BY <1>3, <1>4, <1>5, <1>6

LEMMA AddIs ==
  ASSUME NEW count \in [Age -> Nat], Growing(count), NEW g \in Age
  PROVE  /\ Add(count, g) \in [Age -> Nat] /\ Growing(Add(count, g))
         /\ \A a \in Age : Add(count, g)[a] = IF a < g THEN count[a] ELSE count[a] + 1
BY DEF Add, Growing

LEMMA SlidingScript ==
  ASSUME LimitersIInv, limiter = "sliding", NEW g \in 0..MaxLate
  PROVE  /\ Allow(g).key \in Keys
         /\ Growing(Allow(g).key.entries)
         /\ Allow(g).ok \in BOOLEAN
         /\ Allow(g).key.ttl = IF Allow(g).ok THEN Window ELSE key.ttl
         /\ \A a \in Age : a < Window =>
               Allow(g).key.entries[a] = IF Allow(g).ok /\ g <= a THEN key.entries[a] + 1 ELSE key.entries[a]
         /\ Allow(g).ok => Allow(g).key.entries[MaxAge] <= Limit
         /\ key = Gone => Allow(g).ok
<1> DEFINE kept == [a \in Age |-> key.entries[Least(a, g + Window - 1)]]
           refused == [key EXCEPT !.entries = kept]
           admitted == [key EXCEPT !.entries = Add(kept, g), !.ttl = Window]
<1>1. key \in Keys /\ Growing(key.entries) /\ g \in Age /\ MaxAge \in Age
  BY DEF LimitersIInv, LimitersTypeOK, KeyOK, Keys
<1>2. \A a \in Age : /\ Least(a, g + Window - 1) \in Age
                     /\ \A b \in Age : a <= b => Least(a, g + Window - 1) <= Least(b, g + Window - 1)
                     /\ a < Window => Least(a, g + Window - 1) = a
  BY DEF Least
<1>3. key.entries \in [Age -> Nat]
  BY <1>1 DEF Keys
<1>4. kept \in [Age -> Nat] /\ Growing(kept) /\ \A a \in Age : a < Window => kept[a] = key.entries[a]
  BY <1>1, <1>2, <1>3 DEF Growing
<1>5. key = Gone => kept[MaxAge] = 0
  BY <1>1, <1>2, GoneIs, NoneIs
<1> HIDE DEF kept
<1>6. /\ Allow(g).ok \in BOOLEAN /\ (Allow(g).ok <=> ~(kept[MaxAge] >= Limit))
      /\ Allow(g).key = IF kept[MaxAge] >= Limit THEN refused ELSE admitted
  BY DEF Allow, Sliding, kept
<1>7. /\ refused \in Keys /\ refused.entries = kept /\ refused.ttl = key.ttl
      /\ admitted \in Keys /\ admitted.entries = Add(kept, g) /\ admitted.ttl = Window
  <2>1. Add(kept, g) \in [Age -> Nat]
    BY <1>1, <1>4, AddIs
  <2>2. refused \in Keys
    BY <1>1, <1>4, KeyPruned
  <2>3. refused.entries = kept /\ refused.ttl = key.ttl
    BY <1>1 DEF Keys
  <2>4. admitted \in Keys
    BY <1>1, <2>1, KeyPruned
  <2>5. admitted.entries = Add(kept, g) /\ admitted.ttl = Window
    BY <1>1 DEF Keys
  <2> QED
    BY <2>2, <2>3, <2>4, <2>5
<1> HIDE DEF refused, admitted
<1>8. CASE kept[MaxAge] >= Limit
  <2>1. ~Allow(g).ok /\ Allow(g).key = refused
    BY <1>6, <1>8
  <2>2. key # Gone
    BY <1>5, <1>8
  <2> QED
    BY <1>4, <1>6, <1>7, <2>1, <2>2
<1>9. CASE ~(kept[MaxAge] >= Limit)
  <2>1. Allow(g).ok /\ Allow(g).key = admitted
    BY <1>6, <1>9
  <2>2. /\ Growing(Add(kept, g))
        /\ \A a \in Age : Add(kept, g)[a] = IF a < g THEN kept[a] ELSE kept[a] + 1
    BY <1>1, <1>4, AddIs
  <2>3. \A a \in Age : a < Window =>
           Add(kept, g)[a] = IF g <= a THEN key.entries[a] + 1 ELSE key.entries[a]
    BY <1>1, <1>4, <2>2
  <2>4. Add(kept, g)[MaxAge] <= Limit
    BY <1>1, <1>4, <1>9, <2>2
  <2> QED
    BY <1>6, <1>7, <2>1, <2>2, <2>3, <2>4
<1> QED
  BY <1>8, <1>9

LEMMA BucketScript ==
  ASSUME LimitersIInv, limiter = "bucket", NEW g \in 0..MaxLate
  PROVE  /\ Allow(g).key \in Keys
         /\ Allow(g).key.ttl = Window /\ Allow(g).key.entries = key.entries /\ Allow(g).key.last = g
         /\ Allow(g).ok \in BOOLEAN
         /\ \E tokens \in Int :
               /\ tokens <= Limit * Window
               /\ tokens + Limit * g <= Stock
               /\ Allow(g).ok => Window <= tokens
               /\ Allow(g).key.tokens = IF Allow(g).ok THEN tokens - Window ELSE tokens
         /\ key = Gone => Allow(g).ok
<1> DEFINE elapsed == IF key.ttl = 0 THEN 0 ELSE key.last - g
           tokens == Least(Limit * Window, key.tokens + elapsed * Limit)
           rest == IF tokens >= Window THEN tokens - Window ELSE tokens
           new == [key EXCEPT !.tokens = rest, !.last = g, !.ttl = Window]
<1>1. key \in Keys /\ g \in Age
  BY DEF LimitersIInv, LimitersTypeOK, Keys
<1>2. elapsed \in Int
  BY <1>1 DEF Keys
<1>3. elapsed * Limit \in Int /\ Limit * Window \in Int /\ Limit * g \in Int /\ key.tokens \in Int
  BY <1>1, <1>2, Products DEF Keys
<1> HIDE DEF elapsed
<1>4. tokens \in Int /\ tokens <= Limit * Window /\ tokens <= key.tokens + elapsed * Limit
  BY <1>3 DEF Least
<1>5. tokens + Limit * g <= Stock
  <2>1. Limit * g <= Limit * MaxLate
    BY Products
  <2>2. tokens + Limit * g <= Full
    BY <1>3, <1>4, <2>1, Products DEF Full
  <2>3. CASE key.ttl = 0
    BY <2>2, <2>3 DEF Stock
  <2>4. CASE key.ttl # 0
    <3>1. elapsed * Limit = Limit * key.last - Limit * g
      BY <1>1, <2>4, Products DEF elapsed, Keys
    <3>2. Limit * key.last \in Int
      BY <1>1, Products DEF Keys
    <3>3. tokens + Limit * g <= key.tokens + Limit * key.last
      BY <1>3, <1>4, <3>1, <3>2
    <3> QED
      BY <2>2, <2>4, <3>3 DEF Stock, Least
  <2> QED
    BY <2>3, <2>4
<1>6. key = Gone => tokens >= Window
  <2> SUFFICES ASSUME key = Gone PROVE tokens >= Window
    OBVIOUS
  <2>1. elapsed = 0 /\ key.tokens = Limit * Window
    BY GoneIs DEF elapsed
  <2>2. Window <= Limit * Window
    OBVIOUS
  <2> QED
    BY <2>1, <2>2, Products DEF Least
<1>7. Allow(g).ok \in BOOLEAN /\ (Allow(g).ok <=> tokens >= Window) /\ Allow(g).key = new
  <2>1. Allow(g) = [ok |-> tokens >= Window, key |-> new]
    BY DEF Allow, Bucket, elapsed
  <2> HIDE DEF new, tokens
  <2>2. CASE tokens >= Window
    <3>1. Allow(g) = [ok |-> TRUE, key |-> new]
      BY <2>1, <2>2
    <3> QED
      BY <2>2, <3>1
  <2>3. CASE ~(tokens >= Window)
    <3>1. (tokens >= Window) = FALSE
      BY <2>3
    <3>2. Allow(g) = [ok |-> FALSE, key |-> new]
      BY <2>1, <3>1, Zenon
    <3> QED
      BY <2>3, <3>2
  <2> QED
    BY <2>2, <2>3
<1> HIDE DEF tokens
<1>8. new \in Keys /\ new.ttl = Window /\ new.entries = key.entries /\ new.last = g
      /\ new.tokens = IF tokens >= Window THEN tokens - Window ELSE tokens
  <2>1. rest \in Int
    BY <1>4
  <2> HIDE DEF rest
  <2>2. new \in Keys /\ new.ttl = Window /\ new.entries = key.entries /\ new.last = g /\ new.tokens = rest
    <3>1. [key EXCEPT !.tokens = rest, !.last = g, !.ttl = Window] \in Keys
      BY <1>1, <2>1, KeyFilled
    <3>2. new \in Keys
      BY <3>1
    <3>3. new.ttl = Window /\ new.last = g
      BY <1>1 DEF Keys
    <3>4. new.tokens = rest
      BY <1>1 DEF Keys
    <3>5. new.entries = key.entries
      BY <1>1 DEF Keys
    <3> QED
      BY <3>2, <3>3, <3>4, <3>5
  <2> QED
    BY <2>2 DEF rest
<1> HIDE DEF new
<1>9. Allow(g).key.tokens = IF Allow(g).ok THEN tokens - Window ELSE tokens
  BY <1>7, <1>8
<1>10. (Allow(g).ok => Window <= tokens) /\ (key = Gone => Allow(g).ok)
  BY <1>4, <1>6, <1>7
<1> QED
  BY <1>4, <1>5, <1>7, <1>8, <1>9, <1>10

\* Whatever the kind: a key, at most a window to live, that has time left; and whoever
\* comes after a quiet window is let in.
LEMMA ScriptIs ==
  ASSUME LimitersIInv, NEW g \in 0..MaxLate
  PROVE  /\ Allow(g).key \in Keys
         /\ Growing(Allow(g).key.entries)
         /\ Allow(g).ok \in BOOLEAN
         /\ Allow(g).ok => Allow(g).key.ttl = Window
         /\ Allow(g).key.ttl # 0
         /\ quiet = Window => Allow(g).ok
<1>1. key \in Keys /\ Growing(key.entries) /\ quiet \in 0..Window
      /\ limiter \in {"fixed", "sliding", "bucket"}
  BY DEF LimitersIInv, LimitersTypeOK, KeyOK, Keys
<1>2. quiet = Window => key = Gone
  BY <1>1 DEF LimitersIInv, KeyOK, Keys
<1>3. key.ttl = 0 => key = Gone
  BY DEF LimitersIInv, KeyOK
<1>4. CASE limiter = "fixed"
  BY <1>1, <1>2, <1>4, FixedScript
<1>5. CASE limiter = "sliding"
  <2>1. /\ Allow(g).key \in Keys /\ Growing(Allow(g).key.entries) /\ Allow(g).ok \in BOOLEAN
        /\ key = Gone => Allow(g).ok
    BY <1>5, SlidingScript
  <2>2. Allow(g).key.ttl = IF Allow(g).ok THEN Window ELSE key.ttl
    BY <1>5, SlidingScript
  <2>3. CASE Allow(g).ok
    BY <2>1, <2>2, <2>3
  <2>4. CASE ~Allow(g).ok
    BY <1>2, <1>3, <2>1, <2>2, <2>4
  <2> QED
    BY <2>3, <2>4
<1>6. CASE limiter = "bucket"
  BY <1>1, <1>2, <1>6, BucketScript
<1> QED
  BY <1>1, <1>4, <1>5, <1>6

\* A script runs: Redis may let the caller in, and may be asked in vain.
Script(g) ==
  /\ key' = Allow(g).key
  /\ log' = log \/ (Allow(g).ok /\ log' = Add(log, 0))
  /\ quiet' = 0
  /\ locked' = locked \/ (locked' = (locked \/ (~Allow(g).ok /\ quiet = Window)))
  /\ UNCHANGED limiter

\* What a script adds to the count.
LEMMA LogIs ==
  ASSUME LimitersIInv, NEW g \in 0..MaxLate, Script(g)
  PROVE  /\ log \in [Age -> Nat] /\ log' \in [Age -> Nat] /\ Growing(log')
         /\ \/ log' = log
            \/ Allow(g).ok /\ \A a \in Age : log'[a] = log[a] + 1
<1>1. log \in [Age -> Nat] /\ Growing(log) /\ 0 \in Age
  BY Typed
<1>2. CASE log' = log
  BY <1>1, <1>2
<1>3. CASE Allow(g).ok /\ log' = Add(log, 0)
  <2>1. /\ Add(log, 0) \in [Age -> Nat] /\ Growing(Add(log, 0))
        /\ \A a \in Age : Add(log, 0)[a] = IF a < 0 THEN log[a] ELSE log[a] + 1
    BY <1>1, AddIs
  <2> QED
    BY <1>1, <1>3, <2>1
<1> QED
  BY <1>2, <1>3 DEF Script

LEMMA ScriptBasics ==
  ASSUME LimitersIInv, NEW g \in 0..MaxLate, Script(g), CallsOK'
  PROVE  LimitersTypeOK' /\ KeyOK' /\ PauseHelps'
<1>1. LimitersTypeOK'
  <2>1. locked' \in BOOLEAN
    BY DEF Script, LimitersIInv, LimitersTypeOK
  <2>2. limiter' \in {"fixed", "sliding", "bucket"} /\ quiet' \in 0..Window
    BY DEF Script, LimitersIInv, LimitersTypeOK
  <2> QED
    BY <2>1, <2>2, ScriptIs, LogIs DEF Script, LimitersTypeOK, Keys, CallsOK
<1>2. KeyOK'
  <2>1. key' \in Keys /\ Growing(key.entries)' /\ key'.ttl # 0 /\ quiet' = 0
    BY ScriptIs DEF Script, Growing
  <2>2. Growing(log')
    BY LogIs
  <2> QED
    BY <2>1, <2>2 DEF KeyOK, Keys, CallsOK, Growing
<1>3. PauseHelps'
  BY ScriptIs DEF Script, LimitersIInv, PauseHelps
<1> QED
  BY <1>1, <1>2, <1>3

\* Stretches that do not reach to now hold what they held.
LEMMA OlderStretch ==
  ASSUME LimitersIInv, NEW g \in 0..MaxLate, Script(g), NEW from \in Age \ {0}, NEW to \in Age
  PROVE  LetIn(from, to)' = LetIn(from, to)
<1>1. from - 1 \in Age
  OBVIOUS
<1> QED
  BY <1>1, LogIs DEF LetIn

LEMMA FixedStep ==
  ASSUME LimitersIInv, limiter = "fixed", NEW g \in 0..MaxLate, Script(g)
  PROVE  FixedOK' /\ SlidingOK' /\ BucketOK' /\ LimitHolds'
<1>1. /\ key'.ttl = Window /\ quiet' = 0 /\ limiter' = "fixed" /\ key'.n \in Nat /\ key.n \in Nat
      /\ key.n <= key'.n /\ (Allow(g).ok => key.n + 1 <= key'.n /\ key'.n <= Limit)
  <2>1. key'.ttl = Window /\ quiet' = 0 /\ limiter' = "fixed" /\ key' \in Keys
    BY FixedScript DEF Script
  <2>2. key'.n \in Nat /\ key.n \in Nat
    BY <2>1, Typed DEF Keys
  <2>3. key.n <= key'.n /\ (Allow(g).ok => key.n + 1 <= key'.n /\ key'.n <= Limit)
    BY FixedScript DEF Script
  <2> QED
    BY <2>1, <2>2, <2>3
<1>2. Window - 1 \in Age /\ log[Window - 1] <= key.n
  BY DEF LimitersIInv, FixedOK
<1>3. log'[Window - 1] <= key'.n
  <2>1. log[Window - 1] \in Nat
    BY <1>2, Typed
  <2>2. CASE log' = log
    BY <1>1, <1>2, <2>1, <2>2
  <2>3. CASE Allow(g).ok /\ log'[Window - 1] = log[Window - 1] + 1
    BY <1>1, <1>2, <2>1, <2>3
  <2> QED
    BY <1>2, <2>2, <2>3, LogIs
<1>4. FixedOK' /\ SlidingOK' /\ BucketOK'
  BY <1>1, <1>3 DEF FixedOK, SlidingOK, BucketOK
<1>5. ASSUME NEW from \in Age, NEW to \in Age, from <= to, to - from < Window
      PROVE  LetIn(from, to)' <= Limit
  <2>1. LetIn(from, to) <= Limit
    BY <1>5 DEF LimitersIInv, LimitHolds
  <2>2. CASE from # 0
    BY <2>1, <2>2, OlderStretch
  <2>3. CASE from = 0 /\ log' = log
    BY <2>1, <2>3 DEF LetIn
  <2>4. CASE from = 0 /\ Allow(g).ok
    <3>1. log'[to] <= log'[Window - 1] /\ log'[to] \in Nat /\ log'[Window - 1] \in Nat
      BY <1>2, <1>5, <2>4, LogIs DEF Growing
    <3>2. LetIn(from, to)' = log'[to]
      BY <2>4, <3>1 DEF LetIn
    <3> QED
      BY <1>1, <1>3, <2>4, <3>1, <3>2
  <2> QED
    BY <2>2, <2>3, <2>4, LogIs
<1> QED
  BY <1>1, <1>4, <1>5 DEF LimitHolds

LEMMA SlidingStep ==
  ASSUME LimitersIInv, limiter = "sliding", NEW g \in 0..MaxLate, Script(g)
  PROVE  FixedOK' /\ SlidingOK' /\ BucketOK' /\ LimitHolds'
<1>1. /\ key' \in Keys /\ Growing(key'.entries) /\ limiter' = "sliding"
      /\ key'.ttl = IF Allow(g).ok THEN Window ELSE key.ttl
      /\ \A a \in Age : a < Window =>
            key'.entries[a] = IF Allow(g).ok /\ g <= a THEN key.entries[a] + 1 ELSE key.entries[a]
      /\ Allow(g).ok => key'.entries[MaxAge] <= Limit
  BY SlidingScript DEF Script
<1>2. \A a \in Age : a < Window - key'.ttl => log'[a] = 0
  BY <1>1, LogIs DEF LimitersIInv, SlidingOK
<1>3. \A a \in Age : a < Window - MaxLate => log'[a] <= key'.entries[a + MaxLate]
  <2> SUFFICES ASSUME NEW a \in Age, a < Window - MaxLate
               PROVE  log'[a] <= key'.entries[a + MaxLate]
    OBVIOUS
  <2>1. a + MaxLate \in Age /\ a + MaxLate < Window /\ g <= a + MaxLate
    OBVIOUS
  <2>2. /\ log[a] <= key.entries[a + MaxLate]
        /\ key.entries[a + MaxLate] \in Nat /\ log[a] \in Nat
    BY <2>1 DEF LimitersIInv, SlidingOK, LimitersTypeOK
  <2>3. CASE log' = log
    BY <1>1, <2>1, <2>2, <2>3
  <2>4. CASE Allow(g).ok
    <3>1. key'.entries[a + MaxLate] = key.entries[a + MaxLate] + 1
      BY <1>1, <2>1, <2>4
    <3>2. log'[a] = log[a] \/ log'[a] = log[a] + 1
      BY LogIs
    <3> QED
      BY <2>2, <3>1, <3>2
  <2> QED
    BY <2>3, <2>4, LogIs
<1>4. FixedOK' /\ SlidingOK' /\ BucketOK'
  BY <1>1, <1>2, <1>3 DEF FixedOK, SlidingOK, BucketOK
<1>5. ASSUME NEW from \in Age, NEW to \in Age, from <= to, to - from < Window - MaxLate
      PROVE  LetIn(from, to)' <= Limit
  <2>1. LetIn(from, to) <= Limit
    BY <1>5 DEF LimitersIInv, LimitHolds
  <2>2. CASE from # 0
    BY <2>1, <2>2, OlderStretch
  <2>3. CASE from = 0 /\ log' = log
    BY <2>1, <2>3 DEF LetIn
  <2>4. CASE from = 0 /\ Allow(g).ok
    <3>1. to + MaxLate \in Age /\ MaxAge \in Age /\ to < Window - MaxLate
      BY <1>5, <2>4
    <3>2. key'.entries[to + MaxLate] <= key'.entries[MaxAge]
      BY <1>1, <3>1 DEF Growing
    <3>3. log'[to] <= key'.entries[to + MaxLate]
      BY <1>3, <3>1
    <3>4. /\ key'.entries[to + MaxLate] \in Nat /\ key'.entries[MaxAge] \in Nat /\ log'[to] \in Nat
      BY <1>1, <3>1, LogIs DEF Keys
    <3>5. LetIn(from, to)' = log'[to]
      BY <2>4, <3>4 DEF LetIn
    <3> QED
      BY <1>1, <2>4, <3>2, <3>3, <3>4, <3>5
  <2> QED
    BY <2>2, <2>3, <2>4, LogIs
<1> QED
  BY <1>1, <1>4, <1>5 DEF LimitHolds

\* A script takes from the stock what it gives out.
LEMMA StockTaken ==
  ASSUME LimitersIInv, limiter = "bucket", NEW g \in 0..MaxLate, Script(g)
  PROVE  /\ Stock \in Int /\ Stock' \in Int
         /\ Stock' <= Stock
         /\ Allow(g).ok => Stock' + Window <= Stock /\ 0 <= Stock'
<1>1. PICK tokens \in Int :
         /\ tokens <= Limit * Window
         /\ tokens + Limit * g <= Stock
         /\ Allow(g).ok => Window <= tokens
         /\ key'.tokens = IF Allow(g).ok THEN tokens - Window ELSE tokens
  BY BucketScript DEF Script
<1>2. key'.ttl = Window /\ key'.last = g /\ key' \in Keys
  BY BucketScript DEF Script
<1>3. key \in Keys /\ Limit * key.last \in Int /\ Limit * g \in Nat /\ Limit * g <= Limit * MaxLate
  <2>1. key \in Keys /\ key.last \in Nat
    BY Typed
  <2>2. Limit * key.last \in Int
    BY <2>1, Products
  <2>3. g \in Nat /\ g <= MaxLate
    OBVIOUS
  <2>4. Limit * g \in Nat /\ Limit * g <= Limit * MaxLate
    BY <2>3, Products
  <2> QED
    BY <2>1, <2>2, <2>4
<1>4. Full \in Nat /\ Full = Limit * Window + Limit * MaxLate
  BY Products DEF Full
<1>5. Stock \in Int /\ Stock <= Full
  <2>0. key.tokens \in Int
    BY Typed
  <2>1. key.tokens + Limit * key.last \in Int
    BY <1>3, <2>0
  <2> QED
    BY <1>4, <2>1 DEF Stock, Least
<1>6. Stock' = Least(Full, key'.tokens + Limit * g)
  BY <1>2 DEF Stock, Full, Least
<1>7. CASE Allow(g).ok
  <2>1. key'.tokens = tokens - Window
    BY <1>1, <1>7
  <2>2. Stock' = tokens - Window + Limit * g
    BY <1>1, <1>3, <1>4, <1>6, <2>1, Products DEF Least
  <2> QED
    BY <1>1, <1>3, <1>5, <1>7, <2>2
<1>8. CASE ~Allow(g).ok
  <2>1. key'.tokens = tokens
    BY <1>1, <1>8
  <2>2. Stock' = tokens + Limit * g
    BY <1>1, <1>3, <1>4, <1>6, <2>1, Products DEF Least
  <2> QED
    BY <1>1, <1>3, <1>5, <1>8, <2>2
<1> QED
  BY <1>7, <1>8

\* What the token bucket may let in within d ticks that touch k windows.
Allowance(d, k) == Limit * Window + Limit * d + Limit * (k * MaxLate)

LEMMA AllowanceIs ==
  /\ \A d \in Nat, k \in Nat : Allowance(d, k) \in Nat
  /\ \A d \in Int, k \in Nat : Allowance(d, k) = Limit * (Window + d + k * MaxLate)
  /\ \A d, e \in Int, k \in Nat : d <= e => Allowance(d, k) <= Allowance(e, k)
<1>1. \A d \in Int, k \in Nat : Allowance(d, k) = Limit * (Window + d + k * MaxLate)
  BY DEF Allowance
<1>2. \A d \in Nat, k \in Nat : Allowance(d, k) \in Nat
  BY Products DEF Allowance
<1>3. ASSUME NEW d \in Int, NEW e \in Int, NEW k \in Nat, d <= e
      PROVE  Allowance(d, k) <= Allowance(e, k)
  <2>1. Limit * d <= Limit * e /\ Limit * d \in Int /\ Limit * e \in Int
    BY <1>3, Products
  <2>2. Limit * (k * MaxLate) \in Int /\ Limit * Window \in Int
    BY Products
  <2> QED
    BY <2>1, <2>2 DEF Allowance
<1> QED
  BY <1>1, <1>2, <1>3

LEMMA BucketStep ==
  ASSUME LimitersIInv, limiter = "bucket", NEW g \in 0..MaxLate, Script(g)
  PROVE  FixedOK' /\ SlidingOK' /\ BucketOK' /\ LimitHolds'
<1>1. key'.ttl = Window /\ key'.last = g /\ quiet' = 0 /\ limiter' = "bucket"
  BY BucketScript DEF Script
<1>2. ASSUME NEW to \in Age, NEW k \in 1..(MaxAge + 1), to < k * Window
      PROVE  /\ log'[to] * Window + Stock' <= Allowance(to, k)
             /\ Allow(g).ok => log'[to] * Window <= Allowance(to, k)
  <2>1. log[to] * Window + Stock <= Allowance(to, k)
    BY <1>2 DEF LimitersIInv, BucketOK, Allowance
  <2>2. Allowance(to, k) \in Nat
    <3>1. to \in Nat /\ k \in Nat
      OBVIOUS
    <3> QED
      BY <3>1, AllowanceIs
  <2>3. log[to] \in Nat /\ log[to] * Window \in Int /\ log'[to] \in Nat /\ log'[to] * Window \in Int
    BY LogIs
  <2>4. CASE log' = log
    BY <2>1, <2>2, <2>3, <2>4, StockTaken
  <2>5. CASE Allow(g).ok /\ \A a \in Age : log'[a] = log[a] + 1
    <3>1. log'[to] * Window = log[to] * Window + Window
      BY <2>3, <2>5
    <3> QED
      BY <2>1, <2>2, <2>3, <2>5, <3>1, StockTaken
  <2> QED
    BY <2>4, <2>5, LogIs
<1>3. FixedOK' /\ SlidingOK' /\ BucketOK'
  BY <1>1, <1>2 DEF FixedOK, SlidingOK, BucketOK, Allowance
<1>4. ASSUME NEW from \in Age, NEW to \in Age, from <= to, NEW k \in 1..(MaxAge + 1),
             to - from < k * Window
      PROVE  LetIn(from, to)' * Window <= Limit * (Window + to - from + k * MaxLate)
  <2>1. LetIn(from, to) * Window <= Limit * (Window + to - from + k * MaxLate)
    BY <1>4 DEF LimitersIInv, LimitHolds
  <2>2. CASE from # 0
    BY <2>1, <2>2, OlderStretch
  <2>3. CASE from = 0 /\ log' = log
    BY <2>1, <2>3 DEF LetIn
  <2>4. CASE from = 0 /\ Allow(g).ok
    <3>1. LetIn(from, to)' = log'[to]
      BY <2>4, LogIs DEF LetIn
    <3>2. log'[to] * Window <= Allowance(to, k)
      BY <1>2, <1>4, <2>4
    <3>3. Allowance(to, k) = Limit * (Window + to - from + k * MaxLate)
      BY <2>4, AllowanceIs
    <3> QED
      BY <3>1, <3>2, <3>3
  <2> QED
    BY <2>2, <2>3, <2>4, LogIs
<1> QED
  BY <1>1, <1>3, <1>4 DEF LimitHolds

LEMMA ScriptStep ==
  ASSUME LimitersIInv, NEW g \in 0..MaxLate, Script(g), CallsOK'
  PROVE  LimitersIInv'
<1>1. limiter \in {"fixed", "sliding", "bucket"}
  BY DEF LimitersIInv, LimitersTypeOK
<1>2. FixedOK' /\ SlidingOK' /\ BucketOK' /\ LimitHolds'
  BY <1>1, FixedStep, SlidingStep, BucketStep
<1> QED
  BY <1>2, ScriptBasics DEF LimitersIInv

-----------------------------------------------------------------------------
(* Limiters: time passes                                                   *)

LEMMA OlderIs ==
  ASSUME NEW count \in [Age -> Nat], Growing(count)
  PROVE  /\ Older(count) \in [Age -> Nat] /\ Growing(Older(count))
         /\ Older(count)[0] = 0
         /\ \A a \in Age \ {0} : a - 1 \in Age /\ Older(count)[a] = count[a - 1]
<1>1. \A a \in Age \ {0} : a - 1 \in Age
  OBVIOUS
<1>2. Older(count) \in [Age -> Nat]
  BY <1>1 DEF Older
<1>3. /\ Older(count)[0] = 0
      /\ \A a \in Age \ {0} : Older(count)[a] = count[a - 1]
  BY DEF Older
<1>4. ASSUME NEW a \in Age, NEW b \in Age, a <= b PROVE Older(count)[a] <= Older(count)[b]
  <2>1. CASE a = 0
    BY <1>2, <1>3, <2>1
  <2>2. CASE a # 0
    <3>1. b # 0 /\ a - 1 \in Age /\ b - 1 \in Age /\ a - 1 <= b - 1
      BY <1>4, <2>2
    <3> QED
      BY <1>3, <2>2, <3>1 DEF Growing
  <2> QED
    BY <2>1, <2>2
<1> QED
  BY <1>1, <1>2, <1>3, <1>4 DEF Growing

\* The key as it gets older, or expires.
LEMMA KeyAges ==
  ASSUME LimitersIInv, LimitersTick
  PROVE  /\ key' \in Keys /\ Growing(key'.entries)
         /\ key.ttl <= 1 => key' = Gone
         /\ key.ttl > 1 => /\ key'.ttl = key.ttl - 1 /\ key'.n = key.n /\ key'.tokens = key.tokens
                           /\ key'.entries = Older(key.entries)
                           /\ key'.last = Least(key.last + 1, MaxAge)
<1>1. key \in Keys /\ Growing(key.entries) /\ key.entries \in [Age -> Nat]
  BY DEF LimitersIInv, LimitersTypeOK, KeyOK, Keys
<1>2. CASE key.ttl <= 1
  <2>1. key' = Gone
    BY <1>2 DEF LimitersTick
  <2>2. key' \in Keys
    BY <2>1, GoneIs DEF Keys
  <2>3. Growing(key'.entries)
    BY <2>1, GoneIs, NoneIs DEF Growing
  <2>4. ~(key.ttl > 1)
    BY <1>1, <1>2 DEF Keys
  <2> QED
    BY <2>1, <2>2, <2>3, <2>4
<1>3. CASE key.ttl > 1
  <2> DEFINE older == Older(key.entries)
             last == Least(key.last + 1, MaxAge)
  <2>1. key' = [key EXCEPT !.ttl = @ - 1, !.entries = older, !.last = last]
    BY <1>1, <1>3 DEF LimitersTick, Keys
  <2>2. older \in [Age -> Nat] /\ Growing(older)
    BY <1>1, OlderIs
  <2>3. last \in Age
    BY <1>1 DEF Least, Keys
  <2>4. key.ttl - 1 \in 0..Window
    BY <1>1, <1>3 DEF Keys
  <2> HIDE DEF older, last
  <2>5. key' \in Keys
    BY <1>1, <2>1, <2>2, <2>3, <2>4 DEF Keys
  <2>6. key'.entries = older
    BY <1>1, <2>1 DEF Keys
  <2>7. key'.ttl = key.ttl - 1 /\ key'.n = key.n
    BY <1>1, <2>1 DEF Keys
  <2>8. key'.tokens = key.tokens /\ key'.last = last
    BY <1>1, <2>1 DEF Keys
  <2>9. ~(key.ttl <= 1)
    BY <1>1, <1>3 DEF Keys
  <2>10. Growing(key'.entries)
    BY <2>2, <2>6 DEF Growing
  <2> QED
    BY <2>5, <2>6, <2>7, <2>8, <2>9, <2>10 DEF older, last
<1>4. key.ttl <= 1 \/ key.ttl > 1
  BY <1>1 DEF Keys
<1> QED
  BY <1>2, <1>3, <1>4

\* The count as it gets older, and the time since the last script.
LEMMA LogAges ==
  ASSUME LimitersIInv, LimitersTick
  PROVE  /\ log \in [Age -> Nat] /\ log' \in [Age -> Nat] /\ Growing(log')
         /\ log'[0] = 0 /\ \A a \in Age \ {0} : a - 1 \in Age /\ log'[a] = log[a - 1]
         /\ quiet \in 0..Window /\ quiet' = Least(quiet + 1, Window) /\ quiet' \in 0..Window
         /\ limiter' = limiter /\ locked' = locked
<1>1. log \in [Age -> Nat] /\ Growing(log) /\ quiet \in 0..Window
  BY DEF LimitersIInv, LimitersTypeOK, KeyOK
<1>2. log' = Older(log) /\ quiet' = Least(quiet + 1, Window) /\ limiter' = limiter /\ locked' = locked
  BY DEF LimitersTick
<1>3. quiet' \in 0..Window
  BY <1>1, <1>2 DEF Least
<1> QED
  BY <1>1, <1>2, <1>3, OlderIs

LEMMA CallsAge ==
  ASSUME LimitersIInv, LimitersTick
  PROVE  CallsOK'
<1>1. call \in [Caller -> Call] /\ \A c \in Caller : At(c, "sent") => call[c].age < MaxLate
  BY DEF LimitersIInv, LimitersTypeOK, LimitersTick
<1>2. ASSUME NEW c \in Caller
      PROVE  call'[c] \in Call /\ (call'[c].pc = "sent" => call'[c].age <= MaxLate)
  <2>1. PICK k \in Call : k = call[c]
    BY <1>1
  <2>2. [k EXCEPT !.age = @ + 1] \in Call /\ [k EXCEPT !.age = @ + 1].pc = k.pc
        /\ [k EXCEPT !.age = @ + 1].age = k.age + 1
    BY DEF Call
  <2>3. call'[c] = IF At(c, "sent") \/ At(c, "running") THEN [k EXCEPT !.age = @ + 1] ELSE k
    BY <2>1 DEF LimitersTick
  <2>4. k.pc = "sent" => At(c, "sent") /\ k.age < MaxLate /\ k.age \in Nat
    BY <1>1, <2>1 DEF At, Call
  <2> QED
    BY <2>1, <2>2, <2>3, <2>4
<1>3. call' = [c \in Caller |-> call'[c]]
  BY DEF LimitersTick
<1> QED
  BY <1>2, <1>3 DEF CallsOK, At

LEMMA TickBasics ==
  ASSUME LimitersIInv, LimitersTick
  PROVE  LimitersTypeOK' /\ KeyOK' /\ PauseHelps'
<1>1. LimitersTypeOK'
  <2>1. limiter \in {"fixed", "sliding", "bucket"} /\ locked \in BOOLEAN
    BY DEF LimitersIInv, LimitersTypeOK
  <2>2. limiter' \in {"fixed", "sliding", "bucket"} /\ locked' \in BOOLEAN
    BY <2>1, LogAges
  <2> QED
    BY <2>2, KeyAges, LogAges, CallsAge DEF LimitersTypeOK, Keys, CallsOK
<1>2. KeyOK'
  <2>1. key.ttl <= Window - quiet /\ key.ttl \in 0..Window /\ quiet \in 0..Window
    BY DEF LimitersIInv, LimitersTypeOK, KeyOK
  <2>2. key'.ttl <= Window - quiet' /\ (key'.ttl = 0 => key' = Gone)
    <3>1. CASE key.ttl <= 1
      BY <2>1, <3>1, KeyAges, LogAges, GoneIs
    <3>2. CASE key.ttl > 1
      <4>1. quiet' <= quiet + 1 /\ quiet' \in Int
        BY <2>1, LogAges DEF Least
      <4>2. key'.ttl = key.ttl - 1
        BY <3>2, KeyAges
      <4> QED
        BY <2>1, <3>2, <4>1, <4>2
    <3> QED
      BY <2>1, <3>1, <3>2
  <2>3. ASSUME NEW a \in Age, a < quiet' PROVE log'[a] = 0
    <3>1. CASE a = 0
      BY <3>1, LogAges
    <3>2. CASE a # 0
      <4>1. quiet' <= quiet + 1
        BY <2>1, LogAges DEF Least
      <4>2. quiet' \in Int
        BY LogAges
      <4>3. a - 1 \in Age /\ a - 1 < quiet
        BY <2>1, <2>3, <3>2, <4>1, <4>2
      <4> QED
        BY <3>2, <4>3, LogAges DEF LimitersIInv, KeyOK
    <3> QED
      BY <3>1, <3>2
  <2>4. Growing(log)' /\ Growing(key.entries)'
    BY KeyAges, LogAges DEF Growing
  <2>5. \A c \in Caller : At(c, "sent")' => call'[c].age <= MaxLate
    BY CallsAge DEF CallsOK
  <2> QED
    BY <2>2, <2>3, <2>4, <2>5 DEF KeyOK
<1>3. PauseHelps'
  BY LogAges DEF LimitersIInv, PauseHelps
<1> QED
  BY <1>1, <1>2, <1>3

\* Every stretch of now was one a tick ago, and was as long or shorter.
LEMMA StretchAges ==
  ASSUME LimitersIInv, LimitersTick, NEW from \in Age, NEW to \in Age, from <= to
  PROVE  \/ LetIn(from, to)' = 0
         \/ \E f, u \in Age : /\ f <= u /\ u - f <= to - from
                              /\ LetIn(from, to)' = LetIn(f, u)
<1>1. CASE to = 0
  BY <1>1, LogAges DEF LetIn
<1>2. CASE to # 0 /\ from = 0
  <2>1. to - 1 \in Age /\ log'[to] = log[to - 1] /\ log[to - 1] \in Nat
    BY <1>2, LogAges
  <2>2. LetIn(from, to)' = LetIn(0, to - 1)
    BY <1>2, <2>1 DEF LetIn
  <2>3. 0 \in Age /\ 0 <= to - 1 /\ (to - 1) - 0 <= to - from
    BY <1>2
  <2> QED
    BY <2>1, <2>2, <2>3
<1>3. CASE from # 0
  <2>1. to - 1 \in Age /\ log'[to] = log[to - 1] /\ log[to - 1] \in Nat /\ from - 1 \in Age
    BY <1>3, LogAges
  <2>2. LetIn(from, to)' = LetIn(from - 1, to - 1)
    <3>1. CASE from = 1
      BY <2>1, <3>1, LogAges DEF LetIn
    <3>2. CASE from # 1
      <4>1. from - 2 \in Age /\ log'[from - 1] = log[from - 2]
        <5>1. from - 1 \in Age \ {0} /\ (from - 1) - 1 = from - 2
          BY <1>3, <2>1, <3>2
        <5> QED
          BY <5>1, LogAges
      <4> QED
        BY <1>3, <2>1, <3>2, <4>1 DEF LetIn
    <3> QED
      BY <3>1, <3>2
  <2>3. from - 1 <= to - 1 /\ (to - 1) - (from - 1) <= to - from
    OBVIOUS
  <2> QED
    BY <2>1, <2>2, <2>3
<1> QED
  BY <1>1, <1>2, <1>3

LEMMA StretchesHold ==
  ASSUME LimitersIInv, LimitersTick
  PROVE  LimitHolds'
<1>1. limiter' = limiter /\ limiter \in {"fixed", "sliding", "bucket"}
  BY LogAges DEF LimitersIInv, LimitersTypeOK
<1> SUFFICES ASSUME NEW from \in Age, NEW to \in Age, from <= to
             PROVE  /\ limiter = "fixed" /\ to - from < Window => LetIn(from, to)' <= Limit
                    /\ limiter = "sliding" /\ to - from < Window - MaxLate => LetIn(from, to)' <= Limit
                    /\ limiter = "bucket" =>
                          \A k \in 1..(MaxAge + 1) : to - from < k * Window =>
                             LetIn(from, to)' * Window <= Limit * (Window + to - from + k * MaxLate)
  BY <1>1 DEF LimitHolds
<1>2. CASE LetIn(from, to)' = 0
  <2>1. ASSUME NEW k \in 1..(MaxAge + 1)
        PROVE  0 <= Limit * (Window + to - from + k * MaxLate)
    <3>1. to - from \in Nat /\ k \in Nat
      OBVIOUS
    <3>2. Allowance(to - from, k) \in Nat
      BY <3>1, AllowanceIs
    <3>3. Allowance(to - from, k) = Limit * (Window + (to - from) + k * MaxLate)
      BY <3>1, AllowanceIs
    <3> QED
      BY <3>2, <3>3
  <2> QED
    BY <1>2, <2>1
<1>3. ASSUME NEW f \in Age, NEW u \in Age, f <= u, u - f <= to - from,
             LetIn(from, to)' = LetIn(f, u)
      PROVE  /\ limiter = "fixed" /\ to - from < Window => LetIn(from, to)' <= Limit
             /\ limiter = "sliding" /\ to - from < Window - MaxLate => LetIn(from, to)' <= Limit
             /\ limiter = "bucket" =>
                   \A k \in 1..(MaxAge + 1) : to - from < k * Window =>
                      LetIn(from, to)' * Window <= Limit * (Window + to - from + k * MaxLate)
  <2>1. LimitHolds
    BY DEF LimitersIInv
  <2>2. /\ limiter = "fixed" /\ to - from < Window => LetIn(f, u) <= Limit
        /\ limiter = "sliding" /\ to - from < Window - MaxLate => LetIn(f, u) <= Limit
    BY <1>3, <2>1 DEF LimitHolds
  <2>3. ASSUME limiter = "bucket", NEW k \in 1..(MaxAge + 1), to - from < k * Window
        PROVE  LetIn(f, u) * Window <= Limit * (Window + to - from + k * MaxLate)
    <3>1. u - f < k * Window
      BY <1>3, <2>3
    <3>2. LetIn(f, u) * Window <= Limit * (Window + u - f + k * MaxLate)
      BY <1>3, <2>1, <2>3, <3>1 DEF LimitHolds
    <3>3. k \in Nat /\ u - f \in Int /\ to - from \in Int
      OBVIOUS
    <3>4. Limit * (Window + (u - f) + k * MaxLate) <= Limit * (Window + (to - from) + k * MaxLate)
      BY <1>3, <3>3, AllowanceIs
    <3>5. LetIn(f, u) * Window \in Int
      <4>1. log \in [Age -> Nat]
        BY LogAges
      <4>2. LetIn(f, u) \in Int
        BY <4>1 DEF LetIn
      <4> QED
        BY <4>2
    <3> QED
      BY <3>2, <3>3, <3>4, <3>5
  <2> QED
    BY <1>3, <2>2, <2>3
<1> QED
  BY <1>2, <1>3, StretchAges

LEMMA FixedAges ==
  ASSUME LimitersIInv, LimitersTick, limiter = "fixed"
  PROVE  FixedOK'
<1>1. /\ key.ttl = Window - quiet /\ log[Window - 1] <= key.n /\ key.n \in Nat
      /\ key.ttl \in 0..Window /\ quiet \in 0..Window /\ Window - 1 \in Age
  BY DEF LimitersIInv, LimitersTypeOK, FixedOK
<1>2. CASE key.ttl <= 1
  <2>1. quiet' = Window /\ key' = Gone
    BY <1>1, <1>2, KeyAges, LogAges DEF Least
  <2>2. log'[Window - 1] = 0
    BY <1>1, <2>1, TickBasics DEF KeyOK
  <2> QED
    BY <2>1, <2>2, GoneIs DEF FixedOK
<1>3. CASE key.ttl > 1
  <2>1. quiet' = quiet + 1 /\ key'.ttl = key.ttl - 1 /\ key'.n = key.n
    BY <1>1, <1>3, KeyAges, LogAges DEF Least
  <2>2. log'[Window - 1] <= log[Window - 1] /\ log'[Window - 1] \in Nat /\ log[Window - 1] \in Nat
    <3>1. CASE Window = 1
      BY <1>1, <3>1, LogAges
    <3>2. CASE Window # 1
      <4>1. (Window - 1) - 1 \in Age /\ log'[Window - 1] = log[(Window - 1) - 1]
        BY <1>1, <3>2, LogAges
      <4>2. \A a, b \in Age : a <= b => log[a] <= log[b]
        BY DEF LimitersIInv, KeyOK, Growing
      <4>3. log[(Window - 1) - 1] <= log[Window - 1]
        BY <1>1, <4>1, <4>2
      <4> QED
        BY <1>1, <4>1, <4>3, LogAges
    <3> QED
      BY <3>1, <3>2
  <2> QED
    BY <1>1, <2>1, <2>2 DEF FixedOK
<1> QED
  BY <1>1, <1>2, <1>3

LEMMA SlidingAges ==
  ASSUME LimitersIInv, LimitersTick, limiter = "sliding"
  PROVE  SlidingOK'
<1>1. /\ key.ttl \in 0..Window
      /\ key.entries \in [Age -> Nat] /\ Growing(key.entries)
      /\ \A a \in Age : a < Window - key.ttl => log[a] = 0
      /\ \A a \in Age : a < Window - MaxLate => log[a] <= key.entries[a + MaxLate]
  BY DEF LimitersIInv, LimitersTypeOK, SlidingOK, KeyOK
<1>2. CASE key.ttl <= 1
  <2>1. key' = Gone /\ key'.ttl = 0
    BY <1>2, KeyAges, GoneIs
  <2>2. ASSUME NEW a \in Age, a < Window PROVE log'[a] = 0
    <3>1. CASE a = 0
      BY <3>1, LogAges
    <3>2. CASE a # 0
      <4>1. a - 1 \in Age /\ a - 1 < Window - key.ttl
        BY <1>1, <1>2, <2>2, <3>2
      <4> QED
        BY <1>1, <3>2, <4>1, LogAges
    <3> QED
      BY <3>1, <3>2
  <2>3. ASSUME NEW a \in Age, a < Window - MaxLate PROVE log'[a] <= key'.entries[a + MaxLate]
    <3>1. a < Window /\ a + MaxLate \in Age
      BY <2>3
    <3> QED
      BY <2>1, <2>2, <3>1, GoneIs, NoneIs
  <2> QED
    BY <2>1, <2>2, <2>3 DEF SlidingOK
<1>3. CASE key.ttl > 1
  <2>1. key'.ttl = key.ttl - 1 /\ key'.entries = Older(key.entries)
    BY <1>3, KeyAges
  <2>2. ASSUME NEW a \in Age, a < Window - key'.ttl PROVE log'[a] = 0
    <3>1. CASE a = 0
      BY <3>1, LogAges
    <3>2. CASE a # 0
      <4>1. a - 1 \in Age /\ a - 1 < Window - key.ttl
        BY <1>1, <2>1, <2>2, <3>2
      <4> QED
        BY <1>1, <3>2, <4>1, LogAges
    <3> QED
      BY <3>1, <3>2
  <2>3. ASSUME NEW a \in Age, a < Window - MaxLate PROVE log'[a] <= key'.entries[a + MaxLate]
    <3>1. a + MaxLate \in Age
      BY <2>3
    <3>2. Older(key.entries) \in [Age -> Nat]
      BY <1>1, OlderIs
    <3>3. CASE a = 0
      BY <2>1, <3>1, <3>2, <3>3, LogAges
    <3>4. CASE a # 0
      <4>1. a - 1 \in Age /\ a - 1 < Window - MaxLate /\ log'[a] = log[a - 1]
        BY <2>3, <3>4, LogAges
      <4>2. Older(key.entries)[a + MaxLate] = key.entries[(a - 1) + MaxLate]
        <5>1. a + MaxLate \in Age \ {0} /\ (a + MaxLate) - 1 = (a - 1) + MaxLate
          BY <3>1, <3>4
        <5> QED
          BY <1>1, <5>1, OlderIs
      <4> QED
        BY <1>1, <2>1, <4>1, <4>2
    <3> QED
      BY <3>3, <3>4
  <2> QED
    BY <2>2, <2>3 DEF SlidingOK
<1> QED
  BY <1>1, <1>2, <1>3

\* While the key lives the stock is filled up by a tick's worth.
LEMMA StockRefilled ==
  ASSUME LimitersIInv, LimitersTick, limiter = "bucket", key.ttl > 1
  PROVE  /\ key'.last = key.last + 1 /\ key'.ttl = key.ttl - 1
         /\ key'.last + key'.ttl <= MaxAge
         /\ Stock \in Int /\ Stock' \in Int /\ Stock' <= Stock + Limit
<1>1. key \in Keys /\ key.last + key.ttl <= MaxAge
  <2>1. key \in Keys
    BY DEF LimitersIInv, LimitersTypeOK, Keys
  <2>2. key.ttl > 0
    BY <2>1 DEF Keys
  <2> QED
    BY <2>1, <2>2 DEF LimitersIInv, BucketOK
<1>2. key'.last = Least(key.last + 1, MaxAge) /\ key'.ttl = key.ttl - 1 /\ key'.tokens = key.tokens
  BY KeyAges
<1>3. key.last \in Nat /\ key.ttl \in Nat /\ key.tokens \in Int
  BY <1>1 DEF Keys
<1>4. key'.last = key.last + 1
  BY <1>1, <1>2, <1>3 DEF Least
<1>5. Limit * (key.last + 1) = Limit * key.last + Limit /\ Limit * key.last \in Int
  BY <1>3, Products
<1>6. Full \in Nat
  BY Products DEF Full
<1>7. Stock = Least(Full, key.tokens + Limit * key.last)
  BY <1>3 DEF Stock
<1>8. Stock' = Least(Full, key.tokens + Limit * key.last + Limit)
  <2>1. Stock' = Least(Full, key'.tokens + Limit * key'.last)
    BY <1>2, <1>3 DEF Stock, Full, Least
  <2>2. key'.tokens + Limit * key'.last = key.tokens + Limit * key.last + Limit
    BY <1>2, <1>3, <1>4, <1>5
  <2> QED
    BY <2>1, <2>2
<1>9. Stock \in Int /\ Stock' \in Int /\ Stock' <= Stock + Limit
  BY <1>3, <1>5, <1>6, <1>7, <1>8 DEF Least
<1> QED
  BY <1>1, <1>2, <1>3, <1>4, <1>9

\* When the key expires, the new bucket is full, and what was let in a window ago and
\* earlier is bounded as in a stretch of its own.
LEMMA StockRenewed ==
  ASSUME LimitersIInv, LimitersTick, limiter = "bucket", key.ttl <= 1,
         NEW to \in Age, NEW k \in 1..(MaxAge + 1), to < k * Window
  PROVE  log'[to] * Window + Full <= Allowance(to, k)
<1>1. /\ key.ttl = Window - quiet
      /\ key.ttl \in 0..Window /\ quiet \in 0..Window
  BY DEF LimitersIInv, LimitersTypeOK, BucketOK
<1>2. quiet' = Window
  BY <1>1, LogAges DEF Least
<1>3. \A a \in Age : a < Window => log'[a] = 0
  BY <1>2, TickBasics DEF KeyOK
<1>4. Full = Limit * Window + Limit * MaxLate /\ Full \in Nat
  BY Products DEF Full
<1>5. CASE to < Window
  <2>1. log'[to] * Window = 0
    BY <1>3, <1>5
  <2>2. MaxLate <= k * MaxLate /\ k * MaxLate \in Nat
    OBVIOUS
  <2>3. Limit * MaxLate <= Limit * (k * MaxLate) /\ Limit * to \in Nat
    BY <2>2, Products
  <2>4. Limit * (k * MaxLate) \in Nat
    BY <2>2, Products
  <2> QED
    BY <1>4, <2>1, <2>3, <2>4, Products DEF Allowance
<1>6. CASE to >= Window
  <2>1. Window \in Age /\ Window - 1 \in Age /\ Window # 0 /\ log'[Window - 1] = 0
    BY <1>3
  <2>2. LetIn(Window, to)' = log'[to]
    BY <2>1, LogAges DEF LetIn
  <2>3. k # 1 /\ k - 1 \in 1..(MaxAge + 1)
    BY <1>6
  <2>4. to - Window < (k - 1) * Window
    <3>1. (k - 1) * Window = k * Window - Window /\ k * Window \in Int
      OBVIOUS
    <3> QED
      BY <3>1
  <2>5. LimitHolds' /\ limiter' = "bucket"
    BY StretchesHold, LogAges
  <2>6. log'[to] * Window <= Limit * (Window + to - Window + (k - 1) * MaxLate)
    BY <1>6, <2>1, <2>2, <2>3, <2>4, <2>5 DEF LimitHolds
  <2>7. Limit * (Window + to - Window + (k - 1) * MaxLate) = Limit * to + Limit * (k * MaxLate) - Limit * MaxLate
    OBVIOUS
  <2>8. Limit * to \in Int /\ Limit * (k * MaxLate) \in Int /\ log'[to] * Window \in Int
    <3>1. k * MaxLate \in Nat /\ log'[to] \in Nat
      BY LogAges
    <3> QED
      BY <3>1, Products
  <2> QED
    BY <1>4, <2>6, <2>7, <2>8, Products DEF Allowance
<1> QED
  BY <1>5, <1>6

LEMMA BucketAges ==
  ASSUME LimitersIInv, LimitersTick, limiter = "bucket"
  PROVE  BucketOK'
<1>1. /\ key.ttl = Window - quiet
      /\ key.ttl \in 0..Window /\ quiet \in 0..Window
  BY DEF LimitersIInv, LimitersTypeOK, BucketOK
<1>2. CASE key.ttl <= 1
  <2>1. key' = Gone /\ key'.ttl = 0 /\ quiet' = Window
    BY <1>1, <1>2, KeyAges, LogAges, GoneIs DEF Least
  <2>2. Stock' = Full
    BY <2>1 DEF Stock, Full
  <2>3. \A to \in Age : \A k \in 1..(MaxAge + 1) : to < k * Window =>
           log'[to] * Window + Stock' <= Allowance(to, k)
    BY <1>2, <2>2, StockRenewed
  <2> QED
    BY <2>1, <2>3 DEF BucketOK, Allowance
<1>3. CASE key.ttl > 1
  <2>1. /\ key'.ttl = Window - quiet' /\ key'.last + key'.ttl <= MaxAge
        /\ Stock \in Int /\ Stock' \in Int /\ Stock' <= Stock + Limit
    BY <1>1, <1>3, StockRefilled, LogAges DEF Least
  <2>2. ASSUME NEW to \in Age, NEW k \in 1..(MaxAge + 1), to < k * Window
        PROVE  log'[to] * Window + Stock' <= Allowance(to, k)
    <3>1. CASE to = 0
      <4>1. log'[to] * Window = 0
        BY <3>1, LogAges
      <4>2. Stock' <= Full /\ Full \in Nat /\ Full = Limit * Window + Limit * MaxLate
        BY <2>1, Products DEF Stock, Full, Least
      <4>3. MaxLate <= k * MaxLate /\ k * MaxLate \in Nat
        OBVIOUS
      <4>4. Limit * MaxLate <= Limit * (k * MaxLate) /\ Limit * to \in Nat
        BY <4>3, Products
      <4>5. Limit * (k * MaxLate) \in Nat
        BY <4>3, Products
      <4> QED
        BY <2>1, <4>1, <4>2, <4>4, <4>5, Products DEF Allowance
    <3>2. CASE to # 0
      <4>1. to - 1 \in Age /\ log'[to] = log[to - 1] /\ log[to - 1] \in Nat
        BY <3>2, LogAges
      <4>2. to - 1 < k * Window
        <5>1. k * Window \in Int
          OBVIOUS
        <5> QED
          BY <2>2, <5>1
      <4>3. log[to - 1] * Window + Stock <= Allowance(to - 1, k)
        BY <4>1, <4>2 DEF LimitersIInv, BucketOK, Allowance
      <4>4. Allowance(to - 1, k) + Limit = Allowance(to, k) /\ Allowance(to, k) \in Int
        <5>1. Limit * (to - 1) = Limit * to - Limit /\ Limit * to \in Int
          OBVIOUS
        <5>2. Limit * Window \in Int /\ Limit * (k * MaxLate) \in Int
          OBVIOUS
        <5> QED
          BY <5>1, <5>2 DEF Allowance
      <4>5. log[to - 1] * Window \in Int /\ Allowance(to - 1, k) \in Int
        BY <4>1, <4>4, Products DEF Allowance
      <4> QED
        BY <2>1, <4>1, <4>3, <4>4, <4>5
    <3> QED
      BY <3>1, <3>2
  <2> QED
    BY <2>1, <2>2 DEF BucketOK, Allowance
<1> QED
  BY <1>1, <1>2, <1>3

LEMMA TickStep ==
  ASSUME LimitersIInv, LimitersTick
  PROVE  LimitersIInv'
<1>1. limiter' = limiter /\ limiter \in {"fixed", "sliding", "bucket"}
  BY LogAges DEF LimitersIInv, LimitersTypeOK
<1>2. FixedOK' /\ SlidingOK' /\ BucketOK'
  BY <1>1, FixedAges, SlidingAges, BucketAges DEF FixedOK, SlidingOK, BucketOK
<1> QED
  BY <1>2, TickBasics, StretchesHold DEF LimitersIInv

-----------------------------------------------------------------------------
(* Limiters: the steps of a caller                                         *)

LEMMA CallsStep ==
  ASSUME LimitersIInv, NEW c \in Caller, Calls(c)
  PROVE  LimitersIInv'
<1>1. CASE Send(c) \/ Return(c)
  BY <1>1, GoStep, StillStep DEF Send, Return
<1>2. ASSUME Answer(c) \/ FailOpen(c) PROVE call[c].age \in 0..MaxLate
  BY <1>2 DEF LimitersIInv, LimitersTypeOK, KeyOK, Call, Answer, FailOpen
<1>3. CASE Answer(c)
  <2>1. Script(call[c].age)
    BY <1>3 DEF Answer, Script
  <2>2. Go(c, IF Allow(call[c].age).ok THEN "allowed" ELSE "idle")
    BY <1>3 DEF Answer
  <2>3. CallsOK'
    BY <2>2, GoStep
  <2> QED
    BY <1>2, <1>3, <2>1, <2>3, ScriptStep
<1>4. CASE FailOpen(c)
  <2>1. CallsOK'
    BY <1>4, GoStep DEF FailOpen
  <2>2. CASE UNCHANGED <<key, quiet>>
    BY <1>4, <2>1, <2>2, StillStep DEF FailOpen
  <2>3. CASE key' = Allow(call[c].age).key /\ quiet' = 0
    <3>1. Script(call[c].age)
      BY <1>4, <2>3 DEF FailOpen, Script
    <3> QED
      BY <1>2, <1>4, <2>1, <3>1, ScriptStep
  <2> QED
    BY <1>4, <2>2, <2>3 DEF FailOpen
<1> QED
  BY <1>1, <1>3, <1>4 DEF Calls

-----------------------------------------------------------------------------
(* The gateway                                                             *)

LEMMA LimitersInGateway ==
  ASSUME LimitersIInv, [GatewayNext]_allVars
  PROVE  LimitersIInv'
<1>1. CASE Tick
  BY <1>1, TickStep DEF Tick
<1>2. CASE Sample \/ UNCHANGED allVars
  <2>1. UNCHANGED limiterVars
    BY <1>2 DEF Sample, allVars
  <2>2. CallsOK
    BY DEF LimitersIInv, LimitersTypeOK, KeyOK, CallsOK
  <2>3. CallsOK'
    BY <2>1, <2>2 DEF CallsOK, At, limiterVars
  <2> QED
    BY <2>1, <2>3, StillStep DEF limiterVars
<1>3. ASSUME NEW c \in Caller, Arrive(c) \/ LimiterStep(c) PROVE LimitersIInv'
  BY <1>3, CallsStep DEF Arrive, LimiterStep, Calls
<1>4. ASSUME NEW c \in Caller, Check(c) \/ IncrInflight(c) \/ End(c) \/ Panic(c)
      PROVE  LimitersIInv'
  <2>1. UNCHANGED <<limiter, key, log, quiet, locked>>
    BY <1>4 DEF Check, IncrInflight, End, Panic
  <2>2. PICK step \in {"idle", "entering", "running"} : Go(c, step)
    BY <1>4 DEF Check, IncrInflight, End, Panic
  <2> QED
    BY <2>1, <2>2, GoStep, StillStep
<1> QED
  BY <1>1, <1>2, <1>3, <1>4 DEF GatewayNext, Serve

\* The invariant of the limiters holds in the gateway.
THEOREM LimitersInvariance == GatewaySpec => []LimitersIInv
<1>1. GatewayInit => LimitersIInv
  BY LimitersInitOK DEF GatewayInit
<1>2. LimitersIInv /\ [GatewayNext]_allVars => LimitersIInv'
  BY LimitersInGateway
<1> QED
  BY <1>1, <1>2, PTL DEF GatewaySpec

\* No burst beyond the limit, and a pause helps: for any number of callers, limit,
\* window and delay of the scripts, whatever Redis loses.
THEOREM LimitersKeepPromise == GatewaySpec => []LimiterPromise
<1>1. LimitersIInv => LimiterPromise
  BY DEF LimitersIInv, LimiterPromise
<1> QED
  BY <1>1, LimitersInvariance, PTL

\* The rest of the gateway.
LoadOK ==
  /\ hot \in BOOLEAN
  /\ bucket \in [0..(Buckets - 1) -> [count : Nat, rt : Nat, age : 0..(Span + 1)]]
  /\ clock \in 0..(Span - 1)
  /\ sent \subseteq Caller /\ panics \in Nat
  /\ OnlyPanicsLeak

LEMMA SpanIs == Span \in Nat \ {0}
<1>1. \A a, b \in Nat \ {0} : a * b \in Nat \ {0}
  OBVIOUS
<1> QED
  BY <1>1, BucketAssumption DEF Span

LEMMA RunningFinite == IsFiniteSet(Running) /\ Cardinality(Running) \in Nat
<1>1. Running \subseteq Caller
  BY DEF Running
<1> QED
  BY <1>1, CallersFinite, FS_Subset, FS_CardinalityType

\* Who is running after a caller has gone on to step.
LEMMA RunningAfter ==
  ASSUME LimitersIInv, NEW c \in Caller, NEW step, Go(c, step)
  PROVE  /\ step = "running" /\ ~At(c, "running") => Cardinality(Running)' = Cardinality(Running) + 1
         /\ step # "running" /\ At(c, "running") => Cardinality(Running)' = Cardinality(Running) - 1
         /\ step # "running" /\ ~At(c, "running") => Running' = Running
<1>1. /\ call'[c].pc = step
      /\ \A d \in Caller : d # c => call'[d] = call[d]
  BY DEF Go, LimitersIInv, LimitersTypeOK
<1>2. ASSUME step = "running", ~At(c, "running")
      PROVE  Cardinality(Running)' = Cardinality(Running) + 1
  <2>1. Running' = Running \cup {c} /\ c \notin Running
    BY <1>1, <1>2 DEF Running, At
  <2> QED
    BY <2>1, RunningFinite, FS_AddElement
<1>3. ASSUME step # "running", At(c, "running")
      PROVE  Cardinality(Running)' = Cardinality(Running) - 1
  <2>1. Running' = Running \ {c} /\ c \in Running
    BY <1>1, <1>3 DEF Running, At
  <2> QED
    BY <2>1, RunningFinite, FS_RemoveElement
<1>4. ASSUME step # "running", ~At(c, "running") PROVE Running' = Running
  BY <1>1, <1>4 DEF Running, At
<1> QED
  BY <1>2, <1>3, <1>4

LEMMA LoadInitOK == GatewayInit => LoadOK
<1> SUFFICES ASSUME GatewayInit PROVE LoadOK
  OBVIOUS
<1>1. Running = {}
  BY DEF GatewayInit, LimitersInit, Running, At
<1>2. OnlyPanicsLeak
  BY <1>1, FS_EmptySet DEF GatewayInit, OnlyPanicsLeak
<1>3. [count |-> 0, rt |-> 0, age |-> Span + 1] \in [count : Nat, rt : Nat, age : 0..(Span + 1)]
  BY SpanIs
<1>4. bucket \in [0..(Buckets - 1) -> [count : Nat, rt : Nat, age : 0..(Span + 1)]]
  BY <1>3 DEF GatewayInit
<1>5. hot = FALSE /\ clock = 0 /\ sent = {} /\ panics = 0
  BY DEF GatewayInit
<1>6. clock \in 0..(Span - 1)
  BY <1>5, SpanIs
<1> QED
  BY <1>2, <1>4, <1>5, <1>6 DEF LoadOK

\* The current bucket is one of the ring.
LEMMA CurrentBucket ==
  ASSUME clock \in 0..(Span - 1)
  PROVE  clock \div Slice \in 0..(Buckets - 1)
<1> DEFINE b == clock \div Slice
<1>1. b \in Nat /\ clock \in Nat /\ Slice * b <= clock
  BY SpanIs, BucketAssumption
<1>2. b < Buckets
  <2> SUFFICES ASSUME Buckets <= b PROVE FALSE
    BY <1>1, BucketAssumption
  <2>1. Slice * Buckets <= Slice * b
    BY <1>1, BucketAssumption
  <2>2. Slice * Buckets = Span
    BY BucketAssumption DEF Span
  <2> QED
    BY <1>1, <2>1, <2>2, SpanIs, BucketAssumption
<1> QED
  BY <1>1, <1>2, BucketAssumption

LEMMA EndStep ==
  ASSUME LimitersIInv, LoadOK, NEW c \in Caller, End(c)
  PROVE  LoadOK'
<1> DEFINE Samples == [count : Nat, rt : Nat, age : 0..(Span + 1)]
           b == clock \div Slice
           rt == call[c].age + 1
           fresh == IF bucket[b].age > Span THEN [count |-> 0, rt |-> 0, age |-> 0] ELSE bucket[b]
<1>1. b \in 0..(Buckets - 1) /\ bucket[b] \in Samples /\ rt \in Nat
  <2>1. b \in 0..(Buckets - 1)
    BY CurrentBucket DEF LoadOK
  <2>2. bucket[b] \in Samples
    BY <2>1 DEF LoadOK
  <2>3. call[c].age \in Nat
    BY DEF LimitersIInv, LimitersTypeOK, Call
  <2> QED
    BY <2>1, <2>2, <2>3
<1>2. fresh \in Samples
  BY <1>1, SpanIs
<1>3. bucket' = [bucket EXCEPT ![b] = [fresh EXCEPT !.count = @ + 1, !.rt = @ + rt]]
  BY DEF End, RecordRT
<1> HIDE DEF b, rt, fresh
<1>4. [fresh EXCEPT !.count = @ + 1, !.rt = @ + rt] \in Samples
  <2>1. PICK f \in Samples : f = fresh
    BY <1>2
  <2>2. f.count + 1 \in Nat /\ f.rt + rt \in Nat
    BY <1>1
  <2>3. [f EXCEPT !.count = f.count + 1, !.rt = f.rt + rt] \in Samples
    BY <2>2
  <2> QED
    BY <2>1, <2>3
<1>5. bucket' \in [0..(Buckets - 1) -> Samples]
  BY <1>1, <1>3, <1>4 DEF LoadOK
<1>6. Cardinality(Running)' = Cardinality(Running) - 1
  BY RunningAfter DEF End
<1>7. OnlyPanicsLeak'
  BY <1>6, RunningFinite DEF End, LoadOK, OnlyPanicsLeak
<1> QED
  BY <1>5, <1>7 DEF End, LoadOK

LEMMA LoadTick ==
  ASSUME LimitersIInv, LoadOK, Tick
  PROVE  LoadOK'
<1> DEFINE Samples == [count : Nat, rt : Nat, age : 0..(Span + 1)]
<1>1. ASSUME NEW b \in 0..(Buckets - 1)
      PROVE  [bucket[b] EXCEPT !.age = Least(@ + 1, Span + 1)] \in Samples
  <2>1. PICK k \in Samples : k = bucket[b]
    BY DEF LoadOK
  <2>2. Least(k.age + 1, Span + 1) \in 0..(Span + 1)
    BY SpanIs DEF Least
  <2> QED
    BY <2>1, <2>2
<1>2. bucket' \in [0..(Buckets - 1) -> Samples]
  BY <1>1 DEF Tick, LoadOK
<1>3. clock' \in 0..(Span - 1)
  BY SpanIs DEF Tick, LoadOK
<1>4. Running' = Running
  <2>1. \A c \in Caller : call[c] \in Call
    BY DEF LimitersIInv, LimitersTypeOK
  <2>2. ASSUME NEW c \in Caller PROVE call'[c].pc = call[c].pc
    BY <2>1 DEF Tick, LimitersTick, Call
  <2> QED
    BY <2>2 DEF Running, At
<1>5. OnlyPanicsLeak'
  BY <1>4 DEF Tick, LoadOK, OnlyPanicsLeak
<1> QED
  BY <1>2, <1>3, <1>5 DEF Tick, LoadOK

LEMMA LoadNextOK ==
  ASSUME LimitersIInv, LoadOK, [GatewayNext]_allVars
  PROVE  LoadOK'
<1>1. CASE Sample \/ UNCHANGED allVars
  BY <1>1 DEF Sample, allVars, limiterVars, gatewayVars, LoadOK, OnlyPanicsLeak, Running, At
<1>2. ASSUME NEW c \in Caller, Arrive(c) \/ LimiterStep(c) \/ Check(c) PROVE LoadOK'
  <2>1. ~At(c, "running")
    BY <1>2 DEF Arrive, Send, LimiterStep, Answer, FailOpen, Return, Check, At
  <2>2. PICK step \in {"idle", "sent", "allowed", "entering"} : Go(c, step)
    BY <1>2 DEF Arrive, Send, LimiterStep, Answer, FailOpen, Return, Check
  <2>3. Running' = Running
    BY <2>1, <2>2, RunningAfter
  <2>4. UNCHANGED <<hot, inflight, bucket, clock, panics>> /\ sent' \subseteq Caller
    BY <1>2 DEF Arrive, LimiterStep, Check, gatewayVars, LoadOK
  <2> QED
    BY <2>3, <2>4 DEF LoadOK, OnlyPanicsLeak
<1>3. ASSUME NEW c \in Caller, IncrInflight(c) PROVE LoadOK'
  <2>1. Cardinality(Running)' = Cardinality(Running) + 1
    BY <1>3, RunningAfter DEF IncrInflight, At
  <2> QED
    BY <1>3, <2>1, RunningFinite DEF IncrInflight, LoadOK, OnlyPanicsLeak
<1>4. ASSUME NEW c \in Caller, Panic(c) PROVE LoadOK'
  <2>1. Cardinality(Running)' = Cardinality(Running) - 1
    BY <1>4, RunningAfter DEF Panic
  <2> QED
    BY <1>4, <2>1, RunningFinite DEF Panic, LoadOK, OnlyPanicsLeak
<1> QED
  BY <1>1, <1>2, <1>3, <1>4, EndStep, LoadTick DEF GatewayNext, Serve

LEMMA GatewayInvariance == GatewaySpec => [](LimitersIInv /\ LoadOK)
<1>1. GatewayInit => LimitersIInv /\ LoadOK
  BY LimitersInitOK, LoadInitOK DEF GatewayInit
<1>2. LimitersIInv /\ LoadOK /\ [GatewayNext]_allVars => (LimitersIInv /\ LoadOK)'
  BY LimitersInGateway, LoadNextOK
<1> QED
  BY <1>1, <1>2, PTL DEF GatewaySpec

\* Every part of the gateway and of its limiters keeps its type.
THEOREM GatewayTypeCorrect == GatewaySpec => []TypesOK
<1>1. LimitersIInv /\ LoadOK => TypesOK
  BY RunningFinite DEF LimitersIInv, LoadOK, OnlyPanicsLeak, TypesOK
<1> QED
  BY <1>1, GatewayInvariance, PTL

\* The count in flight drifts by the panics and by nothing else, for any number of
\* callers.
THEOREM CountLeaksByPanics == GatewaySpec => []OnlyPanicsLeak
<1>1. LimitersIInv /\ LoadOK => OnlyPanicsLeak
  BY DEF LoadOK
<1> QED
  BY <1>1, GatewayInvariance, PTL

-----------------------------------------------------------------------------
(* A server that stops                                                     *)

\* Before the context is cancelled main has written nothing; afterwards nobody but an
\* update that was under way writes, and main writes one service after the other.
ShutdownOK ==
  /\ main.pc = "serve" => main.next = 1
  /\ main.pc # "serve" /\ ~overlapped => sync.pc = "ended"
  /\ main.pc = "cancelled" /\ ~overlapped =>
        \A i \in Index : i < main.next => status[i] = "not_serving"
  /\ StopIsTold

Syncs == [pc : {"select", "evaluate", "set", "ended"}, verdict : Status, next : Index]
Mains == [pc : {"serve", "cancelled", "drain", "exited"}, next : Index]

LEMMA FirstService == 1 \in Index /\ Services \in Index /\ \A i \in Index : i < Services => i + 1 \in Index
BY ServicesAssumption DEF Index

LEMMA Records ==
  /\ \A pc \in {"select", "evaluate", "ended"} : [Waiting EXCEPT !.pc = pc] \in Syncs
  /\ \A healthy \in BOOLEAN : Verdict(healthy) \in Status
  /\ [pc |-> "serve", next |-> 1] \in Mains /\ [pc |-> "drain", next |-> 1] \in Mains
  /\ Waiting \in Syncs
BY FirstService DEF Waiting, Verdict, Syncs, Mains, Status

\* A server that has just started.
LEMMA UpOK ==
  ASSUME answers' \in BOOLEAN, ticked' = FALSE, overlapped' = FALSE, NEW up, up = Up(answers'),
         status' = up.status, sync' = up.sync, main' = up.main
  PROVE  HealthTypeOK' /\ ShutdownOK'
<1>1. /\ status' = [i \in Index |-> Verdict(answers')] /\ sync' = Waiting
      /\ main' = [pc |-> "serve", next |-> 1]
  BY DEF Up
<1>2. status' \in [Index -> Status] /\ sync' \in Syncs /\ main' \in Mains
  BY <1>1, Records
<1>3. HealthTypeOK'
  BY <1>2 DEF HealthTypeOK, Syncs, Mains
<1>4. ShutdownOK'
  BY <1>1 DEF ShutdownOK, StopIsTold
<1> QED
  BY <1>3, <1>4

LEMMA HealthInitOK == HealthInit => HealthTypeOK /\ ShutdownOK
<1> SUFFICES ASSUME HealthInit PROVE HealthTypeOK /\ ShutdownOK
  OBVIOUS
<1>1. /\ status = [i \in Index |-> Verdict(answers)] /\ sync = Waiting
      /\ main = [pc |-> "serve", next |-> 1]
  BY DEF HealthInit, Up
<1>2. status \in [Index -> Status] /\ sync \in Syncs /\ main \in Mains
  BY <1>1, Records DEF HealthInit
<1>3. HealthTypeOK
  BY <1>2 DEF HealthInit, HealthTypeOK, Syncs, Mains
<1>4. ShutdownOK
  BY <1>1 DEF ShutdownOK, StopIsTold
<1> QED
  BY <1>3, <1>4

LEMMA UpdateStep ==
  ASSUME HealthTypeOK, ShutdownOK, UpdateSets
  PROVE  HealthTypeOK' /\ ShutdownOK'
<1>1. /\ sync \in Syncs /\ main \in Mains /\ status \in [Index -> Status]
      /\ sync.pc = "set" /\ UNCHANGED <<answers, main, overlapped>>
      /\ status' = [status EXCEPT ![sync.next] = sync.verdict]
  BY DEF UpdateSets, HealthTypeOK, Syncs, Mains
<1>2. sync.next \in Index /\ sync.verdict \in Status
  BY <1>1 DEF Syncs
<1>3. sync' \in Syncs /\ ticked' \in BOOLEAN
  <2>1. CASE sync.next < Services
    <3>1. sync.next + 1 \in Index
      BY <1>2, <2>1, FirstService
    <3>2. sync' = [sync EXCEPT !.next = sync.next + 1] /\ ticked' = ticked
      BY <1>1, <2>1 DEF UpdateSets, Syncs
    <3> QED
      BY <1>1, <3>1, <3>2 DEF Syncs, HealthTypeOK
  <2>2. CASE ~(sync.next < Services)
    <3>1. Select
      BY <2>2 DEF UpdateSets
    <3> QED
      BY <3>1, Records DEF Select, HealthTypeOK
  <2> QED
    BY <2>1, <2>2
<1>4. status' \in [Index -> Status]
  BY <1>1, <1>2
<1>5. HealthTypeOK'
  BY <1>1, <1>3, <1>4 DEF HealthTypeOK, Syncs, Mains
<1>6. main.pc # "serve" => overlapped
  BY <1>1 DEF ShutdownOK
<1>7. ShutdownOK'
  BY <1>1, <1>6 DEF ShutdownOK, StopIsTold
<1> QED
  BY <1>5, <1>7

LEMMA ShutdownStep ==
  ASSUME HealthTypeOK, ShutdownOK, GRPCShutdown
  PROVE  HealthTypeOK' /\ ShutdownOK'
<1>1. /\ main \in Mains /\ status \in [Index -> Status] /\ main.pc = "cancelled"
      /\ UNCHANGED <<answers, ticked, sync, overlapped>>
      /\ status' = [status EXCEPT ![main.next] = "not_serving"]
  BY DEF GRPCShutdown, HealthTypeOK, Mains
<1>2. main.next \in Index /\ status' \in [Index -> Status]
  BY <1>1 DEF Mains, Status
<1>3. ~overlapped => \A i \in Index : i < main.next \/ i = main.next => status'[i] = "not_serving"
  BY <1>1, <1>2 DEF ShutdownOK
<1>4. CASE main.next < Services
  <2>1. main.next + 1 \in Index
    BY <1>2, <1>4, FirstService
  <2>2. main' = [main EXCEPT !.next = main.next + 1]
    BY <1>4 DEF GRPCShutdown
  <2>3. main' \in Mains /\ main'.pc = "cancelled" /\ main'.next = main.next + 1
    BY <1>1, <2>1, <2>2 DEF Mains
  <2>4. \A i \in Index : i < main.next + 1 => i < main.next \/ i = main.next
    BY <1>2 DEF Index
  <2>5. HealthTypeOK'
    BY <1>1, <1>2, <2>3 DEF HealthTypeOK, Mains
  <2>6. ShutdownOK'
    BY <1>1, <1>3, <2>3, <2>4 DEF ShutdownOK, StopIsTold
  <2> QED
    BY <2>5, <2>6
<1>5. CASE ~(main.next < Services)
  <2>1. main' = [pc |-> "drain", next |-> 1]
    BY <1>5 DEF GRPCShutdown
  <2>2. main' \in Mains /\ main'.pc = "drain"
    BY <2>1, Records
  <2>3. \A i \in Index : i < main.next \/ i = main.next
    BY <1>2, <1>5, ServicesAssumption DEF Index
  <2>4. HealthTypeOK'
    BY <1>1, <1>2, <2>2 DEF HealthTypeOK, Mains
  <2>5. ShutdownOK'
    BY <1>1, <1>3, <2>2, <2>3 DEF ShutdownOK, StopIsTold
  <2> QED
    BY <2>4, <2>5
<1> QED
  BY <1>4, <1>5

LEMMA HealthNextOK ==
  ASSUME HealthTypeOK, ShutdownOK, [HealthNext]_healthVars
  PROVE  HealthTypeOK' /\ ShutdownOK'
<1>1. CASE Dependencies
  BY <1>1 DEF Dependencies, HealthTypeOK, ShutdownOK, StopIsTold
<1>2. CASE TickerFires
  BY <1>2 DEF TickerFires, HealthTypeOK, ShutdownOK, StopIsTold
<1>3. CASE Evaluate
  BY <1>3, FirstService, Records DEF Evaluate, HealthTypeOK, ShutdownOK, StopIsTold
<1>4. CASE Cancel
  <2>1. main \in Mains /\ main.pc = "serve" /\ main.next = 1
    BY <1>4 DEF Cancel, HealthTypeOK, ShutdownOK, Mains
  <2>2. main' \in Mains /\ main'.pc = "cancelled" /\ main'.next = 1
    BY <1>4, <2>1 DEF Cancel, Mains
  <2>3. sync' \in Syncs /\ (~overlapped' => sync'.pc = "ended")
    BY <1>4, Records DEF Cancel, HealthTypeOK, Syncs, Waiting
  <2>4. HealthTypeOK'
    BY <1>4, <2>2, <2>3 DEF Cancel, HealthTypeOK, Syncs, Mains
  <2>5. \A i \in Index : ~(i < 1)
    BY ServicesAssumption DEF Index
  <2>6. ShutdownOK'
    BY <2>2, <2>3, <2>5 DEF ShutdownOK, StopIsTold
  <2> QED
    BY <2>4, <2>6
<1>5. CASE Exit
  BY <1>5 DEF Exit, HealthTypeOK, ShutdownOK, StopIsTold
<1>6. CASE Start
  <2>1. answers' = answers /\ answers \in BOOLEAN
    BY <1>6 DEF Start, HealthTypeOK
  <2>2. ticked' = FALSE /\ overlapped' = FALSE
    BY <1>6 DEF Start
  <2> QED
    BY <1>6, <2>1, <2>2, UpOK DEF Start
<1>7. CASE UNCHANGED healthVars
  BY <1>7 DEF healthVars, HealthTypeOK, ShutdownOK, StopIsTold
<1> QED
  BY <1>1, <1>2, <1>3, <1>4, <1>5, <1>6, <1>7, UpdateStep, ShutdownStep DEF HealthNext

\* A server that drains has told so for any number of services, unless an update was
\* under way when it was told to stop.
THEOREM StoppingIsTold == HealthSpec => []StopIsTold
<1>1. HealthTypeOK /\ ShutdownOK /\ [HealthNext]_healthVars => (HealthTypeOK /\ ShutdownOK)'
  BY HealthNextOK
<1>2. ShutdownOK => StopIsTold
  BY DEF ShutdownOK
<1> QED
  BY <1>1, <1>2, HealthInitOK, PTL DEF HealthSpec

=============================================================================
