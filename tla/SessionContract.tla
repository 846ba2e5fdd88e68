-------------------------- MODULE SessionContract --------------------------
(***************************************************************************)
(* What the identity service promises about the sessions of one account,   *)
(* whatever stores, locks and retries it uses: a session is opened once,   *)
(* lives with one refresh token at a time, and once ended stays ended.     *)
(***************************************************************************)
CONSTANTS Session, Token, None

VARIABLES
    phase,    \* none (not opened), live or ended
    current   \* the refresh token of a live session

vars == <<phase, current>>

Live == {id \in Session : phase[id] = "live"}

Init ==
    /\ phase = [id \in Session |-> "none"]
    /\ current = [id \in Session |-> None]

\* No live session has the token.
Unused(t) == \A id \in Live : current[id] # t

Open(id, t) ==
    /\ phase[id] = "none" /\ Unused(t)
    /\ phase' = [phase EXCEPT ![id] = "live"]
    /\ current' = [current EXCEPT ![id] = t]

\* Opened too late: everything was ended while the login ran.
OpenEnded(id) ==
    /\ phase[id] = "none"
    /\ phase' = [phase EXCEPT ![id] = "ended"]
    /\ UNCHANGED current

Rotate(id, t) ==
    /\ id \in Live /\ Unused(t)
    /\ current' = [current EXCEPT ![id] = t]
    /\ UNCHANGED phase

\* Logout: one session.
End(id) ==
    /\ id \in Live
    /\ phase' = [phase EXCEPT ![id] = "ended"]
    /\ current' = [current EXCEPT ![id] = None]

\* LogoutAllSessions, ChangePassword: every session.
EndAll ==
    /\ phase' = [id \in Session |-> IF id \in Live THEN "ended" ELSE phase[id]]
    /\ current' = [id \in Session |-> None]

Next ==
    \/ \E id \in Session, t \in Token : Open(id, t) \/ Rotate(id, t)
    \/ \E id \in Session : OpenEnded(id) \/ End(id)
    \/ EndAll

Spec == Init /\ [][Next]_vars

=============================================================================
