-------------------------- MODULE MCEnrichPipeline --------------------------
(***************************************************************************)
(* EnrichPipeline in three scenes of one run.  "workers": one process with *)
(* two workers; "processes": two processes that share one consumer name;   *)
(* "backlog": one worker, two snippets, and a stream that is trimmed.      *)
(***************************************************************************)
EXTENDS EnrichPipeline

CONSTANTS s1, s2, p1, p2, c1, c2, a, b, z
VARIABLE scene

\* The two workers that run, or the one.
First  == <<p1, c1>>
Second == CASE scene = "workers"   -> <<p1, c2>>
            [] scene = "processes" -> <<p2, c1>>
            [] scene = "backlog"   -> First

InScene ==
    /\ \A w \in Worker \ {First, Second} : work[w] = Idle
    /\ scene # "backlog" => trimmed = 0 /\ text[s2] = None
    /\ scene = "workers" => saves + restarts <= 3
    /\ scene = "processes" => saves <= 2 /\ saves + faults + restarts <= 3
    /\ scene = "backlog" => saves + faults + restarts <= 3

mcvars == <<vars, scene>>

MCInit == Init /\ scene \in {"workers", "processes", "backlog"}
MCNext ==
    /\ Next /\ UNCHANGED scene /\ InScene'
    /\ restarts' # restarts => work' # work
    /\ \A s \in Snippet : text[s] = None => text'[s] # b     \* a and b are interchangeable
MCFairness ==
    /\ \A s \in Snippet : WF_mcvars(Publish(s) /\ UNCHANGED scene)
    /\ \A w \in Worker : WF_mcvars(w \in {First, Second} /\ WorkerStep(w) /\ UNCHANGED scene)
MCSpec == MCInit /\ [][MCNext]_mcvars /\ MCFairness

\* Failures, redeliveries, lost acknowledgements and a second process under the same
\* name only delay a worker that starts: it gets to the new messages unless it has a
\* pending message whose handler can never succeed.
StartedWorkersPoll ==
    /\ At(First, "start") ~> At(First, "poll") \/ Poisoned(First)
    /\ At(Second, "start") ~> At(Second, "poll") \/ Poisoned(Second)

=============================================================================
