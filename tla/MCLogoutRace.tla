---------------------------- MODULE MCLogoutRace ----------------------------
(***************************************************************************)
(* AuthSession with a history of logouts: which sessions a client used on  *)
(* the device when Logout was called, and which have been reported         *)
(* signed out.                                                             *)
(***************************************************************************)
EXTENDS AuthSession, TLC

VARIABLES
    asked,     \* the sessions the Logout each Proc runs was called for
    signedOut  \* the sessions a Logout has answered for without an error

LiveOn(s) == {id \in Token : session[id].slot = s /\ NotRevoked(id) /\ Handed(session[id].tok)}

MonitorInit == Init /\ asked = [p \in Proc |-> {}] /\ signedOut = {}

MonitorNext ==
    /\ Next
    /\ asked' = [p \in Proc |->
          IF flight'[p].op = "logout"
          THEN IF flight[p].op = "logout" THEN asked[p] ELSE LiveOn(flight'[p].slot)
          ELSE {}]
    /\ signedOut' = signedOut \cup
          UNION {asked[p] : p \in {q \in Proc : /\ flight[q].op = "logout"
                                                /\ At(q, "respond")
                                                /\ flight'[q] = NoFlight}}

MonitorSpec == MonitorInit /\ [][MonitorNext]_<<vars, asked, signedOut>>

\* "Logout signs out only the specified device session": once Logout has
\* answered, no client is given a new refresh token for a session that a client
\* was using on the device when Logout was called.
LogoutEndsTheSession ==
    [][\A t \in Token :
           ~Handed(t) /\ handed'[t] # None
               => \A id \in RowsOf(t) \cap signedOut : ~NotRevoked(id)]_<<vars, asked, signedOut>>

Symmetry == Permutations(Proc) \cup Permutations(Slot) \cup Permutations(Token)

=============================================================================
