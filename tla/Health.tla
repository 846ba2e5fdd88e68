------------------------------- MODULE Health -------------------------------
(***************************************************************************)
(* How a gRPC server (notes, identity) tells its health: a goroutine       *)
(* evaluates the checks of pkg/health at every tick and writes the status  *)
(* of each service, until the context is cancelled; a server that is told  *)
(* to stop cancels it and writes NOT_SERVING itself (probe.GRPCShutdown).  *)
(***************************************************************************)
EXTENDS Naturals

CONSTANT Services   \* how many names a server writes its status under; the first is ""

ASSUME ServicesAssumption == Services \in Nat \ {0}

VARIABLES
    answers,    \* Postgres and Redis answer
    status,     \* what the health server tells, per service
    ticked,     \* a tick waits in the channel of the ticker
    sync,       \* the goroutine: where it is, its verdict, the next service it writes
    main,       \* main: where it is, the next service it writes
    overlapped  \* history: an update was under way when the context was cancelled

healthVars == <<answers, status, ticked, sync, main, overlapped>>

Index == 1..Services
Status == {"serving", "not_serving"}
Verdict(healthy) == IF healthy THEN "serving" ELSE "not_serving"
Waiting == [pc |-> "select", verdict |-> "not_serving", next |-> 1]

HealthTypeOK ==
    /\ answers \in BOOLEAN /\ ticked \in BOOLEAN /\ overlapped \in BOOLEAN
    /\ status \in [Index -> Status]
    /\ sync \in [pc : {"select", "evaluate", "set", "ended"}, verdict : Status, next : Index]
    /\ main \in [pc : {"serve", "cancelled", "drain", "exited"}, next : Index]

\* The first update runs before the server is up.
Up(healthy) ==
    [status |-> [i \in Index |-> Verdict(healthy)], sync |-> Waiting,
     main |-> [pc |-> "serve", next |-> 1]]

HealthInit ==
    /\ answers \in BOOLEAN
    /\ status = Up(answers).status /\ sync = Up(answers).sync /\ main = Up(answers).main
    /\ ticked = FALSE /\ overlapped = FALSE

-----------------------------------------------------------------------------
Cancelled == main.pc # "serve"
Dependencies ==
    /\ answers' = ~answers
    /\ UNCHANGED <<status, ticked, sync, main, overlapped>>

\* The channel of the ticker holds one tick.
TickerFires ==
    /\ main.pc # "exited"
    /\ IF sync.pc = "select" THEN sync' = [sync EXCEPT !.pc = "evaluate"] /\ UNCHANGED ticked
                             ELSE ticked' = TRUE /\ UNCHANGED sync
    /\ UNCHANGED <<answers, status, main, overlapped>>

\* Checker.Evaluate: one verdict for all, at most 2 s later.
Evaluate ==
    /\ sync.pc = "evaluate" /\ main.pc # "exited"
    /\ sync' = [pc |-> "set", verdict |-> Verdict(answers), next |-> 1]
    /\ UNCHANGED <<answers, status, ticked, main, overlapped>>

\* select: what is ready, by chance if both are.
Select ==
    \/ ticked /\ sync' = [Waiting EXCEPT !.pc = "evaluate"] /\ ticked' = FALSE
    \/ Cancelled /\ sync' = [Waiting EXCEPT !.pc = "ended"] /\ UNCHANGED ticked
    \/ ~ticked /\ ~Cancelled /\ sync' = Waiting /\ UNCHANGED ticked

\* SetServingStatus, one service at a time; after the last one it selects again.
UpdateSets ==
    /\ sync.pc = "set" /\ main.pc # "exited"
    /\ status' = [status EXCEPT ![sync.next] = sync.verdict]
    /\ IF sync.next < Services THEN sync' = [sync EXCEPT !.next = @ + 1] /\ UNCHANGED ticked
                                    ELSE Select
    /\ UNCHANGED <<answers, main, overlapped>>

\* Mutant: the loop of probe.startHealthSync, which knows no context.
CancelUnheard ==
    /\ main.pc = "serve"
    /\ main' = [main EXCEPT !.pc = "cancelled"]
    /\ overlapped' = (sync.pc # "select")
    /\ UNCHANGED <<answers, status, ticked, sync>>

\* The signal to stop.  A goroutine that waits in select is woken by the context.
Cancel ==
    /\ main.pc = "serve"
    /\ main' = [main EXCEPT !.pc = "cancelled"]
    /\ overlapped' = (sync.pc # "select")
    /\ sync' = IF sync.pc = "select" THEN [Waiting EXCEPT !.pc = "ended"] ELSE sync
    /\ UNCHANGED <<answers, status, ticked>>

\* GRPCShutdown, one service at a time; then main drains its servers.
GRPCShutdown ==
    /\ main.pc = "cancelled"
    /\ status' = [status EXCEPT ![main.next] = "not_serving"]
    /\ main' = IF main.next < Services THEN [main EXCEPT !.next = @ + 1]
                                            ELSE [pc |-> "drain", next |-> 1]
    /\ UNCHANGED <<answers, ticked, sync, overlapped>>

\* Shutdown and GracefulStop have ended, and the process with them.
Exit ==
    /\ main.pc = "drain"
    /\ main' = [main EXCEPT !.pc = "exited"]
    /\ UNCHANGED <<answers, status, ticked, sync, overlapped>>

\* The process is started again.
Start ==
    /\ main.pc = "exited"
    /\ status' = Up(answers).status /\ sync' = Up(answers).sync /\ main' = Up(answers).main
    /\ ticked' = FALSE /\ overlapped' = FALSE
    /\ UNCHANGED answers

HealthNext ==
    \/ Dependencies \/ TickerFires \/ Evaluate \/ UpdateSets
    \/ Cancel \/ GRPCShutdown \/ Exit \/ Start

HealthSpec == HealthInit /\ [][HealthNext]_healthVars

-----------------------------------------------------------------------------
\* A server that drains says for every service that it does not serve, unless an
\* update of its status was under way when it was told to stop: no tick and no
\* update begun later makes the load balancer come back.
StopIsTold ==
    main.pc = "drain" => \A i \in Index : status[i] = "not_serving" \/ overlapped

\* What a reader of the code may expect of GRPCShutdown, and what does not hold.
StopIsFinal == main.pc = "drain" => \A i \in Index : status[i] = "not_serving"

=============================================================================
