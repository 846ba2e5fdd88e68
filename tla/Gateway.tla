------------------------------ MODULE Gateway ------------------------------
(***************************************************************************)
(* A request on its way into the gateway: the limiter of its IP, then the  *)
(* overload protection (pkg/ratelimiter/bbr.go, BBRMiddleware) and its     *)
(* handler, which may panic.                                               *)
(*                                                                         *)
(* The window of the samples is a ring of Buckets, each for Slice ticks.   *)
(* A running time is counted in ticks begun.                               *)
(***************************************************************************)
EXTENDS Limiters, FiniteSets

CONSTANTS
    Buckets, Slice,   \* bucketNum and the duration of a bucket
    MaxRunning,       \* bound: a handler ends within that time (its calls time out)
    MaxPanics         \* bound

ASSUME CallersFinite == IsFiniteSet(Caller)
ASSUME BucketAssumption == Buckets \in Nat \ {0} /\ Slice \in Nat \ {0}
ASSUME GatewayBounds == MaxRunning \in Nat /\ MaxPanics \in Nat

VARIABLES
    hot,        \* the CPU is at its threshold or above
    inflight,
    bucket,     \* per bucket: requests counted, the sum of their times, time since its start
    clock,      \* time within a turn of the ring
    sent,       \* bound: callers that have sent a request in this tick
    panics      \* bound

gatewayVars == <<hot, inflight, bucket, clock, sent, panics>>
allVars == <<limiterVars, gatewayVars>>

Span == Buckets * Slice

\* Every part of the state has its type.
TypesOK ==
    /\ LimitersTypeOK
    /\ hot \in BOOLEAN
    /\ inflight \in Nat
    /\ bucket \in [0..(Buckets - 1) -> [count : Nat, rt : Nat, age : 0..(Span + 1)]]
    /\ clock \in 0..(Span - 1)
    /\ sent \subseteq Caller /\ panics \in Nat

GatewayInit ==
    /\ LimitersInit
    /\ hot = FALSE
    /\ inflight = 0
    /\ bucket = [b \in 0..(Buckets - 1) |-> [count |-> 0, rt |-> 0, age |-> Span + 1]]
    /\ clock = 0
    /\ sent = {} /\ panics = 0

-----------------------------------------------------------------------------
(* BBRLimiter                                                              *)

\* Mutant: buckets that have expired are not skipped.
VisibleForever == {b \in DOMAIN bucket : bucket[b].count > 0}

\* The buckets that MaxFlight does not skip.
Visible == {b \in DOMAIN bucket : bucket[b].age <= Span /\ bucket[b].count > 0}

\* inflight > maxQPS * minRT, and maxFlight > 0: the rate of the fullest bucket by
\* the shortest average time.
OverMaxFlight ==
    /\ Visible # {}
    /\ \E q, r \in Visible :
        /\ \A b \in Visible : bucket[b].count <= bucket[q].count
        /\ \A b \in Visible : bucket[r].rt * bucket[b].count <= bucket[b].rt * bucket[r].count
        /\ inflight * Slice * bucket[r].count > bucket[q].count * bucket[r].rt

ShouldReject == hot /\ OverMaxFlight

\* The current bucket is emptied if its start is more than a window ago.
RecordRT(rt) ==
    LET b == clock \div Slice
        old == bucket[b]
        fresh == IF old.age > Span THEN [count |-> 0, rt |-> 0, age |-> 0] ELSE old
    IN  bucket' = [bucket EXCEPT ![b] = [fresh EXCEPT !.count = @ + 1, !.rt = @ + rt]]

-----------------------------------------------------------------------------
(* The middleware                                                          *)

Sample ==
    /\ hot' = ~hot
    /\ UNCHANGED <<limiterVars, inflight, bucket, clock, sent, panics>>

\* A caller sends one request in a tick.
Arrive(c) ==
    /\ c \notin sent
    /\ Send(c)
    /\ sent' = sent \cup {c}
    /\ UNCHANGED <<hot, inflight, bucket, clock, panics>>

LimiterStep(c) ==
    /\ Answer(c) \/ FailOpen(c) \/ Return(c)
    /\ UNCHANGED gatewayVars

\* Refused, or let in; the count follows in a step of its own.
Check(c) ==
    /\ c \in Gateway /\ At(c, "allowed")
    /\ Go(c, IF ShouldReject THEN "idle" ELSE "entering")
    /\ UNCHANGED <<limiter, key, log, quiet, locked, gatewayVars>>

IncrInflight(c) ==
    /\ At(c, "entering")
    /\ inflight' = inflight + 1
    /\ Go(c, "running")
    /\ UNCHANGED <<limiter, key, log, quiet, locked, hot, bucket, clock, sent, panics>>

End(c) ==
    /\ At(c, "running")
    /\ inflight' = inflight - 1
    /\ RecordRT(call[c].age + 1)
    /\ Go(c, "idle")
    /\ UNCHANGED <<limiter, key, log, quiet, locked, hot, clock, sent, panics>>

\* A panic passes over what follows c.Next(); GinRecovery answers the request.
Panic(c) ==
    /\ At(c, "running")
    /\ panics < MaxPanics
    /\ panics' = panics + 1
    /\ Go(c, "idle")
    /\ UNCHANGED <<limiter, key, log, quiet, locked, hot, inflight, bucket, clock, sent>>

Tick ==
    /\ LimitersTick
    /\ \A c \in Caller : At(c, "running") => call[c].age < MaxRunning
    /\ bucket' = [b \in DOMAIN bucket |-> [bucket[b] EXCEPT !.age = Least(@ + 1, Span + 1)]]
    /\ clock' = (clock + 1) % Span
    /\ sent' = {}
    /\ UNCHANGED <<hot, inflight, panics>>

Serve(c) == LimiterStep(c) \/ Check(c) \/ IncrInflight(c) \/ End(c)

GatewayNext ==
    \/ Tick \/ Sample
    \/ \E c \in Caller : Arrive(c) \/ Serve(c) \/ Panic(c)

\* Time passes, a handler ends, and every caller keeps sending.
GatewayFairness ==
    /\ WF_allVars(Tick)
    /\ \A c \in Gateway : WF_allVars(Serve(c)) /\ WF_allVars(Arrive(c))

GatewaySpec == GatewayInit /\ [][GatewayNext]_allVars /\ GatewayFairness

-----------------------------------------------------------------------------
\* The count in flight is that of the requests being served, and of those that have
\* panicked: nothing else makes it drift, whatever the limiter, the check and the
\* handlers do meanwhile.
Running == {c \in Caller : At(c, "running")}
OnlyPanicsLeak == inflight = Cardinality(Running) + panics

\* The protection never shuts the gateway for good: as long as requests come, some
\* are served, however long the CPU stays busy and however many panics have left
\* their requests in the count; samples that nobody renews expire.
NeverShutForGood == []<>(\E c \in Gateway : At(c, "running"))

=============================================================================
