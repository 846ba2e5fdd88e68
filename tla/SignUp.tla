------------------------------- MODULE SignUp -------------------------------
(***************************************************************************)
(* Accounts and the event bus together: the transaction that creates an    *)
(* account writes its UserRegistered event, the bus carries it to the      *)
(* consumers of other services.                                            *)
(***************************************************************************)
EXTENDS EventBus

SignUpVars == <<vars, bus>>

SignUpInit == Init /\ BusInit
SignUpNext ==
    \/ Next /\ UNCHANGED bus
    \/ BusNext /\ UNCHANGED <<account, identity, flight, call, drawn, maker, faults>>

\* The connector and the subscribers keep running, and restart when they fail.
BusFairness == WF_SignUpVars(Relay) /\ WF_SignUpVars(Subscribe) /\ WF_SignUpVars(Ack)

SignUpSpec == SignUpInit /\ [][SignUpNext]_SignUpVars /\ BusFairness

-----------------------------------------------------------------------------
TypesOK == TypeOK /\ BusTypeOK

TopicOf(u) == {i \in 1..Len(topic) : topic[i] = u}

\* No registered user stays unannounced: once the account exists, its event is
\* acknowledged by the JetStream consumer, and the Kafka consumer has taken it or
\* its handler has failed on it, whatever is restarted on the way.
EveryoneAnnounced ==
    \A u \in User :
        u \in account ~> /\ TopicOf(u) \cap acked # {}
                         /\ TopicOf(u) \cap (taken \cup failed) # {}

=============================================================================
