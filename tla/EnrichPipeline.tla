--------------------------- MODULE EnrichPipeline ---------------------------
(***************************************************************************)
(* From a saved snippet to its AI metadata: the notes service publishes    *)
(* snippet.saved on a Redis Stream (event, service/snippet), the goroutines *)
(* of the ai-worker processes read it through one consumer group           *)
(* (RedisStreamSubscriber) and run EnrichService.Enrich, guarded by a Redis *)
(* lock (platform/lock) and by the content hash in the metadata row.       *)
(* An event carries the snippet's id only: a worker loads the text itself. *)
(* Consumers are named without their host, so that processes share them.   *)
(***************************************************************************)
EXTENDS Naturals, Sequences, FiniteSets

CONSTANTS
    Snippet,
    Process, Consumer,
    Text,         \* contents a user may save, told apart by their content hash
    Short,        \* those below minContentLen
    Gone, None,
    Batch,        \* XREADGROUP Count
    MaxLen,       \* XADD MAXLEN ~
    MayPurge,     \* may a user delete a snippet for good?
    MaxSaves, MaxFaults, MaxRestarts

ASSUME TextAssumption == Short \subseteq Text /\ Gone \notin Text /\ None \notin Text /\ Gone # None
ASSUME CountAssumption == {Batch, MaxLen} \subseteq Nat \ {0} /\ MayPurge \in BOOLEAN

\* The goroutines, one for each consumer name in each process.
Worker == Process \X Consumer
Host(w) == w[1]
Name(w) == w[2]

ASSUME WorkerAssumption == None \notin Worker

VARIABLES
    text,       \* snippets.content; None before the snippet is created
    unsent,     \* publish goroutines that have not run yet, per snippet
    stream,     \* the entries of snippet.saved: snippet ids
    trimmed,    \* how many of its oldest entries are gone
    next,       \* entries delivered to the consumer group so far
    pel,        \* pending (delivered, not acknowledged) entries of each consumer
    lock,       \* ai:enrich:lock:<id> -> its holder
    meta,       \* snippet_ai_metadata: the text its content_hash stands for
    work,       \* what each worker goroutine is doing; todo: the messages it has still to handle,
                \* blank: those that came without their data
    saves, faults, restarts,   \* bounds
    excused     \* history: snippets whose metadata may be missing or stale, see Excuse

queue  == <<stream, trimmed, next, pel>>
ghost  == <<saves, faults, restarts>>
vars   == <<text, unsent, queue, lock, meta, work, ghost, excused>>

\* Why metadata may lag behind.
Excuse == {"short",     \* the text was too short when an event was handled
           "unsent",    \* a publish failed
           "overlap",   \* two workers were enriching the snippet at once
           "orphan",    \* skipped for a lock whose holder had died or failed to release it
           "trimmed",   \* an event was dropped from the stream before it was handled
           "shared"}    \* two processes had one message in hand

Idle == [pc |-> "start", todo |-> {}, blank |-> {}, draining |-> TRUE, snap |-> None,
         holds |-> FALSE, ok |-> FALSE]

TypeOK ==
    /\ text \in [Snippet -> Text \cup {Gone, None}]
    /\ unsent \in [Snippet -> Nat]
    /\ stream \in Seq(Snippet)
    /\ next \in 0..Len(stream) /\ trimmed \in {0} \cup (1..(Len(stream) - MaxLen))
    /\ pel \in [Consumer -> SUBSET (1..next)]
    /\ lock \in [Snippet -> Worker \cup {None}]
    /\ meta \in [Snippet -> Text \cup {None}]
    /\ work \in [Worker -> [pc : {"start", "poll", "load", "lock", "check", "llm", "release", "ack"},
                            todo : SUBSET (1..next), blank : SUBSET (1..next), draining : BOOLEAN,
                            snap : Text \cup {None}, holds : BOOLEAN, ok : BOOLEAN]]
    /\ <<saves, faults, restarts>> \in Nat \X Nat \X Nat
    /\ excused \in [Snippet -> SUBSET Excuse]

Init ==
    /\ text = [s \in Snippet |-> None]
    /\ unsent = [s \in Snippet |-> 0]
    /\ stream = <<>> /\ trimmed = 0 /\ next = 0
    /\ pel = [c \in Consumer |-> {}]
    /\ lock = [s \in Snippet |-> None]
    /\ meta = [s \in Snippet |-> None]
    /\ work = [w \in Worker |-> Idle]
    /\ saves = 0 /\ faults = 0 /\ restarts = 0
    /\ excused = [s \in Snippet |-> {}]

-----------------------------------------------------------------------------
At(w, step) == work[w].pc = step
\* The message in hand is the oldest of those read, Subject its snippet.
Current(w)  == CHOOSE i \in work[w].todo : \A j \in work[w].todo : i <= j
Subject(w)  == stream[Current(w)]
Goto(w, f)  == work' = [work EXCEPT ![w] = f]
Excused(s, why) == excused' = [excused EXCEPT ![s] = @ \cup {why}]
Fault == faults < MaxFaults /\ faults' = faults + 1 /\ UNCHANGED <<saves, restarts>>

\* handleMessage returns: the next message of the batch, or the next read.
Return(w) ==
    LET rest == work[w].todo \ {Current(w)}
        read == IF work[w].draining THEN "start" ELSE "poll"
    IN [work[w] EXCEPT !.todo = rest, !.pc = IF rest = {} THEN read ELSE "load",
                       !.snap = None, !.holds = FALSE, !.ok = FALSE]

\* Enrich returns: the lock is released by the deferred call first, if there is one.
Leave(w, ok) ==
    [work[w] EXCEPT !.pc = "release", !.ok = ok]

\* Workers between Load and the end of Enrich on s.
Busy(s) == {w \in Worker : work[w].pc \in {"lock", "check", "llm", "release"} /\ Subject(w) = s}
Holding(w, s) == work[w].pc \in {"check", "llm", "release"} /\ work[w].holds /\ Subject(w) = s

-----------------------------------------------------------------------------
(* The notes service                                                       *)

\* Create and Update: the row is committed, then a goroutine publishes.
Save(s, t) ==
    /\ saves < MaxSaves /\ saves' = saves + 1
    /\ text[s] # Gone
    /\ text' = [text EXCEPT ![s] = t]
    /\ unsent' = [unsent EXCEPT ![s] = @ + 1]
    /\ UNCHANGED <<queue, lock, meta, work, faults, restarts, excused>>

\* Delete of a snippet that is in the trash.
Purge(s) ==
    /\ MayPurge /\ text[s] \in Text
    /\ text' = [text EXCEPT ![s] = Gone]
    /\ UNCHANGED <<unsent, queue, lock, meta, work, ghost, excused>>

\* XADD; with "~" the server trims as it likes, but keeps the last MaxLen entries.
Publish(s) ==
    /\ unsent[s] > 0
    /\ unsent' = [unsent EXCEPT ![s] = @ - 1]
    /\ stream' = Append(stream, s)
    /\ \/ trimmed' = trimmed
       \/ trimmed' \in (trimmed + 1)..(Len(stream) + 1 - MaxLen)
    /\ UNCHANGED <<text, next, pel, lock, meta, work, ghost, excused>>

\* XADD failed, or the process died first: logged, and forgotten.
PublishFails(s) ==
    /\ Fault
    /\ unsent[s] > 0
    /\ unsent' = [unsent EXCEPT ![s] = @ - 1]
    /\ Excused(s, "unsent")
    /\ UNCHANGED <<text, queue, lock, meta, work>>

-----------------------------------------------------------------------------
(* RedisStreamSubscriber                                                   *)

\* processPending: XREADGROUP from "0" returns this consumer's oldest entries, also
\* those that another process is handling under the same name.
ReadPending(w) ==
    LET mine   == pel[Name(w)]
        oldest == {i \in mine : Cardinality({j \in mine : j < i}) < Batch}
        taken  == {stream[i] : i \in oldest \cap UNION {work[v].todo : v \in Worker \ {w}}}
    IN
    /\ At(w, "start")
    /\ Goto(w, IF mine = {} THEN [Idle EXCEPT !.pc = "poll", !.draining = FALSE]
                ELSE [Idle EXCEPT !.pc = "load", !.todo = oldest, !.blank = oldest \cap (1..trimmed)])
    /\ excused' = [s \in Snippet |-> excused[s] \cup (IF s \in taken THEN {"shared"} ELSE {})]
    /\ UNCHANGED <<text, unsent, queue, lock, meta, ghost>>

\* The read failed: the rest stays pending until the next start.
ReadPendingFails(w) ==
    /\ Fault
    /\ At(w, "start")
    /\ Goto(w, [Idle EXCEPT !.pc = "poll", !.draining = FALSE])
    /\ UNCHANGED <<text, unsent, queue, lock, meta, excused>>

\* Entries no consumer has been given; the ones that are trimmed are skipped.
From == IF next < trimmed THEN trimmed ELSE next
Deliver(w, last) ==
    LET new == (From + 1)..last IN
    /\ At(w, "poll") /\ next < Len(stream)
    /\ next' = last
    /\ pel' = [pel EXCEPT ![Name(w)] = @ \cup new]
    /\ Goto(w, [work[w] EXCEPT !.pc = "load", !.todo = new, !.blank = {}])
    /\ excused' = [s \in Snippet |-> excused[s] \cup
                      (IF \E i \in (next + 1)..From : stream[i] = s THEN {"trimmed"} ELSE {})]
    /\ UNCHANGED <<text, unsent, stream, trimmed, lock, meta, ghost>>

\* Mutant: counts a full batch as delivered.
ReadNewFullBatch(w) == Deliver(w, From + Batch)

\* XREADGROUP from ">".
ReadNew(w) == Deliver(w, IF From + Batch < Len(stream) THEN From + Batch ELSE Len(stream))

\* Mutant: the message is acknowledged whatever the handler returned.
AckAlways(w) ==
    /\ At(w, "ack")
    /\ pel' = [pel EXCEPT ![Name(w)] = @ \ {Current(w)}]
    /\ Goto(w, Return(w))
    /\ UNCHANGED <<text, unsent, stream, trimmed, next, lock, meta, ghost, excused>>

\* A message whose handler failed stays pending.
Ack(w) ==
    /\ At(w, "ack")
    /\ pel' = IF work[w].ok THEN [pel EXCEPT ![Name(w)] = @ \ {Current(w)}] ELSE pel
    /\ Goto(w, Return(w))
    /\ UNCHANGED <<text, unsent, stream, trimmed, next, lock, meta, ghost, excused>>

\* XACK failed: logged.
AckFails(w) ==
    /\ Fault
    /\ At(w, "ack")
    /\ Goto(w, Return(w))
    /\ UNCHANGED <<text, unsent, queue, lock, meta, excused>>

-----------------------------------------------------------------------------
(* EnrichService.Enrich                                                    *)

\* Mutant: a short text is an error.
LoadRejectsShort(w) ==
    LET s == Subject(w) IN
    /\ At(w, "load")
    /\ Goto(w, CASE text[s] \in {Gone, None} \cup Short -> [work[w] EXCEPT !.pc = "ack", !.ok = FALSE]
                 [] OTHER -> [work[w] EXCEPT !.pc = "lock", !.snap = text[s]])
    /\ excused' = [excused EXCEPT ![s] = @ \cup (IF text[s] \in Short THEN {"short"} ELSE {})
                                           \cup (IF Busy(s) # {} THEN {"overlap"} ELSE {})]
    /\ UNCHANGED <<text, unsent, queue, lock, meta, ghost>>

\* A message without data is acknowledged unhandled.  Otherwise the text is read,
\* before the lock is taken.
Load(w) ==
    LET s == Subject(w)
        blank == Current(w) \in work[w].blank IN
    /\ At(w, "load")
    /\ Goto(w, CASE blank -> [work[w] EXCEPT !.pc = "ack", !.ok = TRUE]
                 [] ~blank /\ text[s] \in {Gone, None} -> [work[w] EXCEPT !.pc = "ack", !.ok = FALSE]
                 [] ~blank /\ text[s] \in Short        -> [work[w] EXCEPT !.pc = "ack", !.ok = TRUE]
                 [] OTHER -> [work[w] EXCEPT !.pc = "lock", !.snap = text[s]])
    /\ excused' = [excused EXCEPT ![s] = @ \cup IF blank THEN {"trimmed"}
                                            ELSE (IF text[s] \in Short THEN {"short"} ELSE {})
                                                 \cup (IF Busy(s) # {} THEN {"overlap"} ELSE {})]
    /\ UNCHANGED <<text, unsent, queue, lock, meta, ghost>>

\* SET NX; a held lock means that another worker does the job: success.
Acquire(w) ==
    LET s == Subject(w) IN
    /\ At(w, "lock")
    /\ IF lock[s] = None
       THEN /\ lock' = [lock EXCEPT ![s] = w]
            /\ Goto(w, [work[w] EXCEPT !.pc = "check", !.holds = TRUE])
            /\ UNCHANGED excused
       ELSE /\ Goto(w, [work[w] EXCEPT !.pc = "ack", !.ok = TRUE])
            /\ IF Holding(lock[s], s) THEN UNCHANGED excused ELSE Excused(s, "orphan")
            /\ UNCHANGED lock
    /\ UNCHANGED <<text, unsent, queue, meta, ghost>>

\* Redis is down: go on without a lock.
AcquireFails(w) ==
    /\ Fault
    /\ At(w, "lock")
    /\ Goto(w, [work[w] EXCEPT !.pc = "check"])
    /\ UNCHANGED <<text, unsent, queue, lock, meta, excused>>

\* Mutant: any metadata row counts as up to date.
CheckAnyRow(w) ==
    /\ At(w, "check")
    /\ Goto(w, IF meta[Subject(w)] # None THEN Leave(w, TRUE) ELSE [work[w] EXCEPT !.pc = "llm"])
    /\ UNCHANGED <<text, unsent, queue, lock, meta, ghost, excused>>

\* Same hash, same prompt: nothing to do.
Check(w) ==
    /\ At(w, "check")
    /\ Goto(w, IF meta[Subject(w)] = work[w].snap
               THEN Leave(w, TRUE) ELSE [work[w] EXCEPT !.pc = "llm"])
    /\ UNCHANGED <<text, unsent, queue, lock, meta, ghost, excused>>

\* The LLM has answered: Upsert.
Upsert(w) ==
    /\ At(w, "llm")
    /\ meta' = [meta EXCEPT ![Subject(w)] = work[w].snap]
    /\ Goto(w, Leave(w, TRUE))
    /\ UNCHANGED <<text, unsent, queue, lock, ghost, excused>>

\* A query, the LLM call, the parsing of its answer or the upsert fails.
EnrichFails(w) ==
    /\ Fault
    /\ \/ At(w, "load") /\ Current(w) \notin work[w].blank /\ Goto(w, [work[w] EXCEPT !.pc = "ack", !.ok = FALSE])
       \/ work[w].pc \in {"check", "llm"} /\ Goto(w, Leave(w, FALSE))
    /\ UNCHANGED <<text, unsent, queue, lock, meta, excused>>

\* releaseScript: delete the key if it still holds this caller's token.
Release(w) ==
    LET s == Subject(w) IN
    /\ At(w, "release")
    /\ lock' = IF work[w].holds /\ lock[s] = w THEN [lock EXCEPT ![s] = None] ELSE lock
    /\ Goto(w, [work[w] EXCEPT !.pc = "ack"])
    /\ UNCHANGED <<text, unsent, queue, meta, ghost, excused>>

\* The script's error is dropped: the key stays until its TTL.
ReleaseFails(w) ==
    /\ Fault
    /\ At(w, "release")
    /\ Goto(w, [work[w] EXCEPT !.pc = "ack"])
    /\ UNCHANGED <<text, unsent, queue, lock, meta, excused>>

-----------------------------------------------------------------------------
(* The environment                                                         *)

\* The 60 s TTL, counted as a fault when the holder is still at work (its LLM call
\* alone may take 60 s).
LockExpire(s) ==
    /\ lock[s] # None
    /\ IF Holding(lock[s], s) THEN Fault ELSE UNCHANGED ghost
    /\ lock' = [lock EXCEPT ![s] = None]
    /\ UNCHANGED <<text, unsent, queue, meta, work, excused>>

\* An ai-worker process dies and is started again with the same consumer names.
Restart(p) ==
    /\ restarts < MaxRestarts /\ restarts' = restarts + 1
    /\ work' = [w \in Worker |-> IF Host(w) = p THEN Idle ELSE work[w]]
    /\ UNCHANGED <<text, unsent, queue, lock, meta, saves, faults, excused>>

-----------------------------------------------------------------------------
WorkerStep(w) ==
    \/ ReadPending(w) \/ ReadNew(w) \/ Load(w) \/ Acquire(w) \/ Check(w)
    \/ Upsert(w) \/ Release(w) \/ Ack(w)

FaultStep(w) == ReadPendingFails(w) \/ AckFails(w) \/ AcquireFails(w) \/ EnrichFails(w) \/ ReleaseFails(w)

Next ==
    \/ \E s \in Snippet, t \in Text : Save(s, t)
    \/ \E s \in Snippet : Purge(s) \/ Publish(s) \/ PublishFails(s) \/ LockExpire(s)
    \/ \E w \in Worker : WorkerStep(w) \/ FaultStep(w)
    \/ \E p \in Process : Restart(p)

\* Goroutines that can run do run; users, failures and restarts owe nothing.
Fairness ==
    /\ \A s \in Snippet : WF_vars(Publish(s))
    /\ \A w \in Worker : WF_vars(WorkerStep(w))

Spec == Init /\ [][Next]_vars
FairSpec == Spec /\ Fairness

-----------------------------------------------------------------------------
(* Properties                                                              *)

\* Every event of s has been delivered and acknowledged.
Settled(s) ==
    /\ unsent[s] = 0
    /\ \A i \in DOMAIN stream : stream[i] = s => i <= next /\ \A c \in Consumer : i \notin pel[c]

\* Acknowledging because another worker holds the lock loses nothing as long as
\* that worker lives: its own message stays pending until its run succeeds.  So a
\* snippet whose events are all acknowledged has metadata, unless a text was too
\* short, a publish was lost, the lock was an orphan, an entry was trimmed, or two
\* processes had the same message in hand, so that one acknowledged it for both.
NothingLost ==
    \A s \in Snippet :
        Settled(s) /\ text[s] # None /\ meta[s] = None
            => excused[s] \cap {"short", "unsent", "orphan", "trimmed", "shared"} # {}

\* Out-of-date metadata has a cause: two workers were enriching the snippet at
\* once, a publish was lost, a lock was an orphan or an entry was trimmed.  A worker on its own, with
\* its retries, restarts and redeliveries, ends with the metadata of the text
\* that was saved last.
StaleOnlyByOverlap ==
    \A s \in Snippet :
        Settled(s) /\ text[s] \in Text \ Short /\ meta[s] # text[s]
            => excused[s] \cap {"overlap", "unsent", "orphan", "trimmed"} # {}

\* "Leave the message pending when the handler fails so it can be retried after
\* restart": an event is acknowledged only when its snippet has been enriched, is
\* too short or is being enriched by a live worker, so at the latest the retry
\* after a restart produces the metadata.
RetriedAfterRestart ==
    \A s \in Snippet :
        Settled(s) /\ text[s] # None /\ excused[s] \cap {"short", "unsent", "trimmed"} = {} => meta[s] # None

\* Enrich skips a snippet that is being enriched because the content hash written
\* by the other worker "is the same one this run would produce": when all events
\* are acknowledged and no publish was lost, the metadata describes the text.
SkippingIsHarmless ==
    \A s \in Snippet :
        Settled(s) /\ text[s] \in Text \ Short /\ excused[s] \cap {"unsent", "trimmed"} = {} => meta[s] = text[s]

\* "Drain pending messages first, then process new ones": a worker that starts
\* gets to the new messages.
DrainsThenPolls == \A w \in Worker : At(w, "start") ~> At(w, "poll")

\* A message of a snippet that was deleted for good: its handler can never succeed.
Poisoned(w) == \E i \in pel[Name(w)] : text[stream[i]] = Gone

=============================================================================
