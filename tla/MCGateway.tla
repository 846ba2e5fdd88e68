----------------------------- MODULE MCGateway -----------------------------
(***************************************************************************)
(* Gateway and the servers behind it in three scenes of one run: "limits", *)
(* callers from outside the gateway use one key of each kind of limiter,   *)
(* Redis failing or not; "overload", the gateway serves while Redis is     *)
(* down and its CPU is busy at times or for good; no time passes there     *)
(* between the limiter and the handler, and one caller sends in each tick; *)
(* "shutdown", a server behind the gateway stops and starts again.         *)
(***************************************************************************)
EXTENDS Gateway, Health

VARIABLE scene

Resting(callers) == \A c \in callers : At(c, "idle")

InScene ==
    /\ scene # "overload" => Resting(Gateway) /\ sent \cap Gateway = {} /\ ~hot
    /\ scene = "overload" => Resting(Caller \ Gateway) /\ sent \subseteq Gateway
                             /\ limiter = "sliding" /\ key = Gone
                             /\ \A c, d \in sent : c = d

mcvars == <<allVars, healthVars, scene>>

MCInit ==
    /\ GatewayInit /\ HealthInit
    /\ scene \in {"limits", "overload", "shutdown"} /\ InScene
    /\ scene = "shutdown" => limiter = "sliding"
    /\ scene # "shutdown" => answers
Prompt == scene = "overload" => \A c \in Gateway : At(c, "idle") \/ At(c, "running")
Still == UNCHANGED <<healthVars, scene>> /\ InScene'
MCNext ==
    \/ scene # "shutdown" /\ GatewayNext /\ Still /\ (clock' # clock => Prompt)
    \/ scene = "shutdown" /\ HealthNext /\ UNCHANGED <<allVars, scene>>
MCFairness ==
    /\ WF_mcvars(scene = "overload" /\ Prompt /\ Tick /\ Still)
    /\ \A c \in Gateway :
        /\ WF_mcvars(scene = "overload" /\ Serve(c) /\ Still)
        /\ WF_mcvars(scene = "overload" /\ Arrive(c) /\ Still)
MCSpec == MCInit /\ [][MCNext]_mcvars /\ MCFairness

\* NeverShutForGood where the gateway serves: some request is let in again and again.
ServedAgain == scene = "overload" => NeverShutForGood

=============================================================================
