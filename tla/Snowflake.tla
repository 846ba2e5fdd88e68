----------------------------- MODULE Snowflake -----------------------------
(***************************************************************************)
(* LocalSnowflake (pkg/id): the ids of one process, (time, node, sequence) *)
(* packed into 64 bits.  NextID runs under a mutex, also while it sleeps,   *)
(* so there is one call at a time; the wall clock moves on its own and may  *)
(* step back, and the caller of a sleeping call may be cancelled.  Nothing  *)
(* is kept over a restart of the process.                                   *)
(***************************************************************************)
EXTENDS Naturals, Sequences

CONSTANTS
    Width,          \* maxSequence + 1: ids per millisecond
    Nodes, Node,    \* maxNodeID + 1, and the nodeID of this process
    Epoch,          \* snowflakeEpochMillis
    MaxTime, MaxIds, MaxBack, MaxRestarts   \* bounds: the clock, the ids drawn, its steps back

ASSUME WidthAssumption == Width \in Nat \ {0, 1}
ASSUME NodeAssumption == Nodes \in Nat \ {0} /\ Node \in 0..(Nodes - 1)
ASSUME EpochAssumption == Epoch \in Nat \ {0}
ASSUME BoundsAssumption == {MaxTime, MaxIds, MaxBack, MaxRestarts} \subseteq Nat

VARIABLES
    now,            \* the wall clock, in milliseconds
    lastTimestamp, sequence,
    pc,             \* the call that holds the mutex: none, or in which waitUntil it sleeps
    ids,            \* history: the ids returned, oldest first
    back,           \* history: how often the clock stepped back
    wrapCancelled,  \* history: a call was cancelled while it waited for the next millisecond
    restarts,       \* history: how often the process was started again
    forgotten,      \* history: the last millisecond that earlier lives of the process used
    relived         \* history: a later life has used one not after it

life == <<restarts, forgotten>>
vars == <<now, lastTimestamp, sequence, pc, ids, back, wrapCancelled, life, relived>>

TypeOK ==
    /\ now \in Nat \ {0} /\ lastTimestamp \in Nat
    /\ sequence \in 0..(Width - 1)
    /\ pc \in {"free", "back", "wrap"}
    /\ ids \in Seq(Nat)
    /\ back \in Nat
    /\ wrapCancelled \in BOOLEAN /\ relived \in BOOLEAN
    /\ restarts \in Nat /\ forgotten \in Nat

Init ==
    /\ now \in 1..MaxTime
    /\ lastTimestamp = 0 /\ sequence = 0
    /\ pc = "free"
    /\ ids = <<>> /\ back = 0 /\ wrapCancelled = FALSE
    /\ restarts = 0 /\ forgotten = 0 /\ relived = FALSE

-----------------------------------------------------------------------------
Pack(ts, seq) == ((ts - Epoch) * Nodes + Node) * Width + seq

\* The end of NextID; a clock before the epoch is an error, noticed last.
Return(ts, seq) ==
    /\ lastTimestamp' = ts
    /\ sequence' = seq
    /\ ids' = IF ts < Epoch THEN ids ELSE Append(ids, Pack(ts, seq))
    /\ relived' = (relived \/ ts <= forgotten)
    /\ pc' = "free"

\* Mutant: the same millisecond again when the sequence is used up.
AdvanceNoWait(ts) ==
    IF ts # lastTimestamp THEN Return(ts, 0)
    ELSE Return(ts, (sequence + 1) % Width)

\* Mutant: the sequence is not masked.
AdvanceUnmasked(ts) == IF ts # lastTimestamp THEN Return(ts, 0) ELSE Return(ts, sequence + 1)

\* ts >= lastTimestamp: the next number of this millisecond, or the first of a new
\* one; when the sequence wraps, it is reset before the wait.
Advance(ts) ==
    IF ts # lastTimestamp THEN Return(ts, 0)
    ELSE IF (sequence + 1) % Width # 0 THEN Return(ts, sequence + 1)
    ELSE /\ sequence' = 0 /\ pc' = "wrap"
         /\ UNCHANGED <<lastTimestamp, ids, relived>>

NextID ==
    /\ pc = "free" /\ Len(ids) < MaxIds
    /\ IF now < lastTimestamp
       THEN pc' = "back" /\ UNCHANGED <<lastTimestamp, sequence, ids, relived>>
       ELSE Advance(now)
    /\ UNCHANGED <<now, back, wrapCancelled, life>>

\* waitUntil(lastTimestamp) returns: the clock has caught up.
CaughtUp ==
    /\ pc = "back" /\ now >= lastTimestamp
    /\ Advance(now)
    /\ UNCHANGED <<now, back, wrapCancelled, life>>

\* waitUntil(lastTimestamp + 1) returns.
NextMillisecond ==
    /\ pc = "wrap" /\ now >= lastTimestamp + 1
    /\ Return(now, sequence)
    /\ UNCHANGED <<now, back, wrapCancelled, life>>

\* waitUntil finds the context done: the call fails, the state stays as it is.
Cancel ==
    /\ pc # "free"
    /\ pc' = "free"
    /\ wrapCancelled' = (wrapCancelled \/ pc = "wrap")
    /\ UNCHANGED <<now, lastTimestamp, sequence, ids, back, life, relived>>

\* The process dies and is started again: a new generator.
Restart ==
    /\ restarts < MaxRestarts /\ restarts' = restarts + 1
    /\ forgotten' = IF lastTimestamp > forgotten THEN lastTimestamp ELSE forgotten
    /\ lastTimestamp' = 0 /\ sequence' = 0 /\ pc' = "free"
    /\ UNCHANGED <<now, ids, back, wrapCancelled, relived>>

Tick ==
    /\ now < MaxTime /\ now' = now + 1
    /\ UNCHANGED <<lastTimestamp, sequence, pc, ids, back, wrapCancelled, life, relived>>

StepBack ==
    /\ back < MaxBack /\ back' = back + 1
    /\ now' \in 1..(now - 1)
    /\ UNCHANGED <<lastTimestamp, sequence, pc, ids, wrapCancelled, life, relived>>

Next == NextID \/ CaughtUp \/ NextMillisecond \/ Cancel \/ Restart \/ Tick \/ StepBack
Spec == Init /\ [][Next]_vars

-----------------------------------------------------------------------------
(* Properties                                                              *)

Increasing == \A i, j \in DOMAIN ids : i < j => ids[i] < ids[j]

\* Ids are unique and strictly increasing, through clock steps, exhausted
\* milliseconds, cancelled calls and restarts, unless a call was cancelled while it
\* waited for the next millisecond (NextID has reset the sequence by then), or a
\* restarted process met a clock not past the last id of an earlier life.
IncreasingUnlessForgotten == wrapCancelled \/ relived \/ Increasing

\* The node id can be read back from every id, also when the sequence is used up: two
\* processes with different node ids never draw the same id.
CarriesNode == \A i \in DOMAIN ids : (ids[i] \div Width) % Nodes = Node

\* The ids of one generator are unique and strictly increasing.
IdsIncrease == Increasing

-----------------------------------------------------------------------------
(* The inductive invariant: an id is below what earlier lives used, or not  *)
(* above the last number handed out; in a wait for the next millisecond it  *)
(* may be anything below that.                                              *)

Bounded ==
    /\ Increasing
    /\ \A i \in DOMAIN ids :
          \/ ids[i] < Pack(forgotten + 1, 0)
          \/ IF pc = "wrap" THEN ids[i] < Pack(lastTimestamp + 1, 0)
                            ELSE ids[i] <= Pack(lastTimestamp, sequence)
    /\ lastTimestamp = 0 \/ lastTimestamp > forgotten
    /\ pc = "wrap" => lastTimestamp > forgotten
IInv == TypeOK /\ (wrapCancelled \/ relived \/ Bounded)

=============================================================================
