------------------------------ MODULE Limiters ------------------------------
(***************************************************************************)
(* The limiters of pkg/ratelimiter that keep their count in Redis: fixed   *)
(* window (logins and phone codes), sliding window (IPs and users at the   *)
(* gateway) and token bucket (its routes).  Each is one script that runs   *)
(* at once; the callers of one key are modelled.                           *)
(*                                                                         *)
(* Time passes in Ticks.  Stamps are kept as ages, the time since they     *)
(* were taken, so that the model is finite.  A caller takes its stamp      *)
(* before it sends its script, so scripts may run in another order.        *)
(* Tokens are counted in Window-ths, and what has an age cumulatively: at  *)
(* a stands the number of those that are a or younger.                     *)
(***************************************************************************)
EXTENDS Integers

CONSTANTS
    Caller,
    Gateway,     \* the callers that go on into the gateway
    Limit, Window,
    MaxLate      \* bound: a script arrives within that time of its stamp

ASSUME LimitAssumption == Limit \in Nat \ {0} /\ Window \in Nat \ {0} /\ MaxLate \in Nat
ASSUME GatewayAssumption == Gateway \subseteq Caller

VARIABLES
    limiter,   \* the kind of the key
    key,       \* what Redis holds under it
    call,      \* what each caller is doing
    log,       \* history: how many Redis has let in, by the time since then
    quiet,     \* history: time since the last script, up to Window
    locked     \* history: a caller was refused after a quiet Window

limiterVars == <<limiter, key, call, log, quiet, locked>>

MaxAge == Window + MaxLate
Age == 0..MaxAge
None == [age \in Age |-> 0]
Add(count, age) == [a \in Age |-> IF a < age THEN count[a] ELSE count[a] + 1]
Least(a, b) == IF a < b THEN a ELSE b
Call == [pc : {"idle", "sent", "allowed", "entering", "running"}, age : Nat]

\* A key that has expired, or was never there.
Gone == [ttl |-> 0, n |-> 0, entries |-> None, tokens |-> Limit * Window, last |-> 0]

LimitersTypeOK ==
    /\ limiter \in {"fixed", "sliding", "bucket"}
    /\ key \in [ttl : 0..Window, n : 0..(Limit + 1), entries : [Age -> Nat],
                tokens : Int, last : Age]
    /\ call \in [Caller -> Call]
    /\ log \in [Age -> Nat]
    /\ quiet \in 0..Window /\ locked \in BOOLEAN

LimitersInit ==
    /\ limiter \in {"fixed", "sliding", "bucket"}
    /\ key = Gone
    /\ call = [c \in Caller |-> [pc |-> "idle", age |-> 0]]
    /\ log = None
    /\ quiet = Window /\ locked = FALSE

At(c, step) == call[c].pc = step
Go(c, step) == call' = [call EXCEPT ![c] = [pc |-> step, age |-> 0]]

-----------------------------------------------------------------------------
(* The scripts: the answer to a request of some age and the key after it   *)

\* Mutant: the window starts at the first attempt.
FixedFromFirst(age) ==
    LET n == Least(key.n + 1, Limit + 1) IN
    [ok |-> n <= Limit, key |-> [key EXCEPT !.n = n, !.ttl = IF @ = 0 THEN Window ELSE @]]

\* INCR and EXPIRE in a MULTI; every attempt, refused or not, renews the window.
\* Counts above the limit are all alike.
Fixed(age) ==
    LET n == Least(key.n + 1, Limit + 1) IN
    [ok |-> n <= Limit, key |-> [key EXCEPT !.n = n, !.ttl = Window]]

\* slidingWindowScript: a refused attempt is not counted and renews nothing.
Sliding(age) ==
    LET kept == [a \in Age |-> key.entries[Least(a, age + Window - 1)]] IN
    IF kept[MaxAge] >= Limit
    THEN [ok |-> FALSE, key |-> [key EXCEPT !.entries = kept]]
    ELSE [ok |-> TRUE, key |-> [key EXCEPT !.entries = Add(kept, age), !.ttl = Window]]

\* tokenBucketScript: elapsed is negative if a younger stamp came first.
Bucket(age) ==
    LET elapsed == IF key.ttl = 0 THEN 0 ELSE key.last - age
        tokens  == Least(Limit * Window, key.tokens + elapsed * Limit)
        ok      == tokens >= Window
    IN  [ok |-> ok, key |-> [key EXCEPT !.tokens = IF ok THEN tokens - Window ELSE tokens,
                                        !.last = age, !.ttl = Window]]

Allow(age) == CASE limiter = "fixed"   -> Fixed(age)
                [] limiter = "sliding" -> Sliding(age)
                [] OTHER               -> Bucket(age)

-----------------------------------------------------------------------------
(* Allow                                                                   *)

Send(c) ==
    /\ At(c, "idle")
    /\ Go(c, "sent")
    /\ UNCHANGED <<limiter, key, log, quiet, locked>>

\* The script runs and answers.
Answer(c) ==
    LET answer == Allow(call[c].age) IN
    /\ At(c, "sent")
    /\ key' = answer.key
    /\ Go(c, IF answer.ok THEN "allowed" ELSE "idle")
    /\ log' = IF answer.ok THEN Add(log, 0) ELSE log
    /\ quiet' = 0
    /\ locked' = (locked \/ (~answer.ok /\ quiet = Window))
    /\ UNCHANGED limiter

\* Redis cannot be reached, or its answer is lost: the caller is let in.
FailOpen(c) ==
    /\ At(c, "sent")
    /\ \/ UNCHANGED <<key, quiet>>
       \/ key' = Allow(call[c].age).key /\ quiet' = 0
    /\ Go(c, "allowed")
    /\ UNCHANGED <<limiter, log, locked>>

\* A caller outside the gateway has done what it was let in for.
Return(c) ==
    /\ c \notin Gateway /\ At(c, "allowed")
    /\ Go(c, "idle")
    /\ UNCHANGED <<limiter, key, log, quiet, locked>>

Older(count) == [age \in Age |-> IF age = 0 THEN 0 ELSE count[age - 1]]

\* What is older than MaxAge can no longer count.
LimitersTick ==
    /\ \A c \in Caller : At(c, "sent") => call[c].age < MaxLate
    /\ key' = IF key.ttl <= 1 THEN Gone
              ELSE [key EXCEPT !.ttl = @ - 1, !.entries = Older(@), !.last = Least(@ + 1, MaxAge)]
    /\ call' = [c \in Caller |-> IF At(c, "sent") \/ At(c, "running") THEN [call[c] EXCEPT !.age = @ + 1]
                                 ELSE call[c]]
    /\ log' = Older(log)
    /\ quiet' = Least(quiet + 1, Window)
    /\ UNCHANGED <<limiter, locked>>

Calls(c) == Send(c) \/ Answer(c) \/ FailOpen(c) \/ Return(c)

-----------------------------------------------------------------------------
LetIn(from, to) == log[to] - IF from = 0 THEN 0 ELSE log[from - 1]

\* "limit: maximum number of allowed requests, window: window size": a fixed window
\* lets no more than Limit in within any stretch of one window, never a burst at the
\* border of two; a sliding one within any stretch shorter by the delay of a script,
\* in whatever order the scripts run; a token bucket no more than Limit, what is
\* refilled in the stretch, and what is refilled during the delay of a script once
\* for each window begun: the key may expire once in each, and a bucket that is full
\* again forgets how late its last stamp was.  This is so as long as Redis answers.
LimitHolds ==
    \A from, to \in Age :
        from <= to =>
            CASE limiter = "fixed"   -> to - from < Window => LetIn(from, to) <= Limit
              [] limiter = "sliding" -> to - from < Window - MaxLate => LetIn(from, to) <= Limit
              [] OTHER ->
                    \A k \in 1..(MaxAge + 1) :
                        to - from < k * Window =>
                            LetIn(from, to) * Window <= Limit * (Window + to - from + k * MaxLate)

\* "please try again later": whoever waits for a whole window is let in.
PauseHelps == ~locked

LimiterPromise == LimitHolds /\ PauseHelps

-----------------------------------------------------------------------------
(* The inductive invariant                                                 *)

Growing(count) == \A a, b \in Age : a <= b => count[a] <= count[b]

\* The key outlives the last script by no more than a window, a key that has expired
\* is as good as new, and who was let in came before the last script.
KeyOK ==
    /\ key.ttl <= Window - quiet
    /\ key.ttl = 0 => key = Gone
    /\ \A c \in Caller : At(c, "sent") => call[c].age <= MaxLate
    /\ Growing(log) /\ Growing(key.entries)
    /\ \A a \in Age : a < quiet => log[a] = 0

\* The count holds at least those of one window.
FixedOK == limiter = "fixed" =>
    /\ key.ttl = Window - quiet
    /\ log[Window - 1] <= key.n

\* Who was let in has an entry that is at most MaxLate older, until the key expires.
SlidingOK == limiter = "sliding" =>
    /\ \A a \in Age : a < Window - key.ttl => log[a] = 0
    /\ \A a \in Age : a < Window - MaxLate => log[a] <= key.entries[a + MaxLate]

\* What the bucket can give out now, and as late as its last stamp was.
Full == Limit * Window + Limit * MaxLate
Stock == IF key.ttl = 0 THEN Full ELSE Least(Full, key.tokens + Limit * key.last)

\* What was let in was taken from the stock.
BucketOK == limiter = "bucket" =>
    /\ key.ttl = Window - quiet
    /\ key.ttl > 0 => key.last + key.ttl <= MaxAge
    /\ \A to \in Age : \A k \in 1..(MaxAge + 1) :
          to < k * Window =>
              log[to] * Window + Stock <= Limit * Window + Limit * to + Limit * (k * MaxLate)

LimitersIInv ==
    /\ LimitersTypeOK /\ KeyOK
    /\ FixedOK /\ SlidingOK /\ BucketOK
    /\ LimitHolds /\ PauseHelps

=============================================================================
