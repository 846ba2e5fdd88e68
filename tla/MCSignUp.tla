------------------------------ MODULE MCSignUp ------------------------------
(***************************************************************************)
(* SignUp in three scenes of one run.  "signup": registrations, phone      *)
(* entries and repeated calls race; "change": an account with a password   *)
(* and one without are created, then their emails and passwords change;    *)
(* "events": accounts are created one at a time and the bus carries their  *)
(* events.  Ids are drawn in order, as idgen's increase.                   *)
(***************************************************************************)
EXTENDS SignUp

CONSTANTS p1, h1, e1, w1, c1
VARIABLE scene

Ops == {flight[p].op : p \in Proc}
Busy == {p \in Proc : ~At(p, "idle")}
Creating == {p \in Busy : flight[p].op \in {"register", "phone"}}

InScene ==
    /\ drawn = 1..Cardinality(drawn)
    /\ call[c1].state = "new" => \A c \in Call : call[c].state = "new"
    /\ call[c1].keys # <<>> => call[c1].keys[1] = h1 /\ call[c1].keys[2] = e1
    /\ \A c \in Call : call[c].pw \in {None, w1}
    /\ scene # "events" => topic = <<>>
    /\ scene = "signup" => Ops \subseteq {"none", "register", "phone"} /\ Cardinality(drawn) <= 3
    /\ scene = "change" => /\ Creating # {} => Cardinality(Busy) = 1
                           /\ Cardinality(drawn) <= 2
                           /\ \A c \in Call \ {c1} : call[c].state = "new"
                           /\ Creating # Busy => Cardinality(account) = 2
                           /\ faults = 0
    /\ scene = "events" => /\ Ops \subseteq {"none", "phone"} /\ Busy \subseteq {p1}
                           /\ \A p \in Proc : At(p, "find") => identity[flight[p].key].user = None
                           /\ Cardinality(drawn) <= 2
                           /\ \A c \in Call : call[c].state = "new"
                           /\ faults = 0

mcvars == <<SignUpVars, scene>>

MCInit == SignUpInit /\ scene \in {"signup", "change", "events"}
MCNext == SignUpNext /\ UNCHANGED scene /\ InScene'
MCFairness ==
    /\ WF_mcvars(scene = "events" /\ Relay /\ UNCHANGED <<account, identity, flight, call, drawn, maker, faults, scene>>)
    /\ WF_mcvars(Subscribe /\ UNCHANGED <<vars, scene>>)
    /\ WF_mcvars(Ack /\ UNCHANGED <<vars, scene>>)
MCSpec == MCInit /\ [][MCNext]_mcvars /\ MCFairness

\* EveryoneAnnounced where the bus runs: no registered user stays unannounced.
AnnouncedInTime == scene = "events" => EveryoneAnnounced

=============================================================================
