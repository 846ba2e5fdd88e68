------------------------- MODULE AuthSession_proofs -------------------------
(***************************************************************************)
(* IInv is an inductive invariant of AuthSession, for every number of      *)
(* handlers, fields and tokens, with or without handlers that outlive      *)
(* their lock.  LogoutAllIsFinal and LogoutHitsItsDevice follow from it.   *)
(* Two further invariants are inductive beside it.  Handover follows a     *)
(* refresh token to its successor (OneSuccessor), Origins a session to its *)
(* login (OldPasswordOnlyByOverlap); with both the rows implement          *)
(* SessionContract.                                                        *)
(*                                                                         *)
(* Most steps of a handler write nothing that IInv speaks of: QuietStep    *)
(* reduces them to the new local state of the handler.  DataStep is for    *)
(* those that write, and asks that they keep what the other handlers have  *)
(* read (Keeps).                                                           *)
(***************************************************************************)
EXTENDS AuthSession, TLAPS

-----------------------------------------------------------------------------
(* Local states                                                            *)

\* The membership of each step name in Steps, so that no other proof opens it.
LEMMA StepNames ==
    /\ "idle" \in Steps /\ "login_user" \in Steps /\ "exch_user" \in Steps
    /\ "issue" \in Steps /\ "persist" \in Steps /\ "touch" \in Steps
    /\ "respond" \in Steps /\ "ref_lock" \in Steps /\ "ref_wait" \in Steps
    /\ "ref_find" \in Steps /\ "ref_grace" \in Steps /\ "ref_user" \in Steps
    /\ "ref_sso" \in Steps /\ "rot_check" \in Steps /\ "rot_write" \in Steps
    /\ "save_grace" \in Steps /\ "unlock" \in Steps /\ "clean_get" \in Steps
    /\ "clean_del" \in Steps /\ "out_get" \in Steps /\ "out_del" \in Steps
    /\ "out_find" \in Steps /\ "out_revoke" \in Steps /\ "tx_sso" \in Steps
    /\ "tx_app" \in Steps /\ "tx_commit" \in Steps
  BY DEF Steps, LockedSteps, TxSteps

\* The state of a handler that serves no request.
LEMMA NoFlightType == NoFlight \in Flight
  BY StepNames DEF NoFlight, Flight, OptToken

LEMMA NoFlightOK == ASSUME TypeOK PROVE FlightOK(NoFlight)
  BY DEF NoFlight, FlightOK, LockedSteps, TypeOK

-----------------------------------------------------------------------------
(* Two kinds of steps                                                      *)

\* The entries that other handlers may have read keep what they said.
Keeps ==
    /\ userVersion <= userVersion'
    /\ \A t \in Token : /\ Minted(t) => issued'[t] = issued[t]
                        /\ Handed(t) => handed'[t] = handed[t]
    /\ \A id \in Token :
          /\ sso[id].status # "none" => sso'[id].status # "none"
          /\ session[id].status # "none" => /\ session'[id].status # "none"
                                            /\ session'[id].ver = session[id].ver
                                            /\ session'[id].slot = session[id].slot

\* What a flight knows survives such a step of another one.
LEMMA FlightKept ==
  ASSUME TypeOK, TypeOK', Keeps, NEW g \in Flight, FlightOK(g)
  PROVE  FlightOK(g)'
<1>1. g.ver \in Nat /\ g.cred \in Nat /\ userVersion \in Nat /\ userVersion' \in Nat
  BY DEF TypeOK, Flight
<1>2. g.ver <= userVersion' /\ g.cred <= userVersion'
  BY <1>1 DEF FlightOK, Keeps
<1>3. \A t : Minted(t) => Minted(t)' /\ issued'[t] = issued[t]
  BY DEF Keeps, Minted
<1>4. \A t \in Token : Handed(t) => Handed(t)' /\ handed'[t] = handed[t]
  BY DEF Keeps, Handed
<1>5. \A id \in Token : /\ sso[id].status # "none" => sso'[id].status # "none"
                        /\ session[id].status # "none" => session'[id].status # "none"
  BY DEF Keeps
<1>6. g.hitSso \subseteq Token /\ g.hitApp \subseteq Token
  BY DEF Flight
<1>7. /\ \A id \in g.hitSso : sso'[id].status # "none"
      /\ \A id \in g.hitApp : session'[id].status # "none"
  BY <1>5, <1>6 DEF FlightOK
<1> QED
  BY <1>2, <1>3, <1>4, <1>7 DEF FlightOK, Keeps

\* A step that writes: it must re-establish the parts about the data, and the
\* state of the handler that takes it, if any.
LEMMA DataStep ==
  ASSUME IInv, TypeOK', Keeps, TokensOK', HandedOK', RowsOK', DeviceOK',
         \/ UNCHANGED flight
         \/ \E p \in Proc, f \in Flight : Goto(p, f) /\ FlightOK(f)'
  PROVE  IInv'
<1>1. \A g \in Flight : FlightOK(g) => FlightOK(g)'
  BY FlightKept DEF IInv
<1>2. (\A q \in Proc : FlightOK(flight[q]))'
  <2>1. CASE UNCHANGED flight
    BY <1>1, <2>1 DEF IInv, TypeOK
  <2>2. ASSUME NEW p \in Proc, NEW f \in Flight, Goto(p, f), FlightOK(f)'
        PROVE  (\A q \in Proc : FlightOK(flight[q]))'
    BY <1>1, <2>2 DEF IInv, TypeOK, Goto
  <2> QED
    BY <2>1, <2>2
<1> QED
  BY <1>2 DEF IInv

\* Redis may forget fields, answers and locks; nothing else of the data changes.
Quiet ==
    /\ UNCHANGED <<db, issued, handed>>
    /\ device' \in [Slot -> OptToken] /\ \A s \in Slot : device'[s] \in {device[s], None}
    /\ grace' \in [Token -> OptToken] /\ \A t \in Token : grace'[t] \in {grace[t], None}
    /\ lock' \in SUBSET Token
    /\ faults' \in Nat

LEMMA QuietStep ==
  ASSUME IInv, Quiet,
         \/ UNCHANGED flight
         \/ \E p \in Proc, f \in Flight : Goto(p, f) /\ FlightOK(f)
  PROVE  IInv'
<1>1. TypeOK'
  BY DEF IInv, TypeOK, Quiet, Goto, db
<1>2. Keeps
  BY DEF IInv, TypeOK, Quiet, Keeps, db
<1>3. TokensOK' /\ RowsOK'
  BY DEF IInv, TokensOK, RowsOK, RowAgrees, Minted, Quiet, db
<1>4. HandedOK' /\ DeviceOK'
  BY DEF IInv, HandedOK, DeviceOK, Minted, Handed, Quiet, db
<1>5. \A g \in Flight : FlightOK(g) => FlightOK(g)'
  BY <1>1, <1>2, FlightKept DEF IInv
<1> QED
  BY <1>1, <1>2, <1>3, <1>4, <1>5, DataStep

\* The steps of a handler that write nothing, or only count a fault.
LEMMA ReadStep ==
  ASSUME IInv, NEW p \in Proc, NEW f \in Flight, FlightOK(f), Goto(p, f),
         UNCHANGED <<db, redis, issued, handed>>, UNCHANGED faults \/ Fault
  PROVE  IInv'
<1>1. Quiet
  BY DEF Quiet, IInv, TypeOK, redis, Fault
<1> QED
  BY <1>1, QuietStep

\* The handler ends, and everything it knew with it.
LEMMA FinishStep ==
  ASSUME IInv, NEW p \in Proc, Finish(p),
         UNCHANGED <<db, redis, issued, handed>>, UNCHANGED faults \/ Fault
  PROVE  IInv'
  BY ReadStep, NoFlightType, NoFlightOK DEF Finish, IInv

-----------------------------------------------------------------------------
(* Login and ExchangeSSO                                                   *)

LEMMA LoginReadIdentityStep ==
  ASSUME IInv, NEW p \in Proc, NEW s \in Slot, LoginReadIdentity(p, s)
  PROVE  IInv'
<1> DEFINE f == [NoFlight EXCEPT !.op = "login", !.pc = "login_user", !.slot = s,
                                 !.cred = userVersion, !.pw = password]
<1>1. f \in Flight
  BY NoFlightType, StepNames DEF Flight, IInv, TypeOK
<1>2. FlightOK(f)
  BY NoFlightType DEF NoFlight, FlightOK, IInv, TypeOK, LockedSteps
<1> QED
  BY <1>1, <1>2, ReadStep DEF LoginReadIdentity, record

LEMMA LoginReadUserStep ==
  ASSUME IInv, NEW p \in Proc, LoginReadUser(p)
  PROVE  IInv'
<1> DEFINE f == [flight[p] EXCEPT !.pc = "issue", !.ver = userVersion]
<1>0. flight[p] \in Flight /\ FlightOK(flight[p]) /\ flight[p].pc = "login_user"
      /\ userVersion \in Nat
  BY DEF IInv, TypeOK, LoginReadUser, At
<1>1. f \in Flight
  BY <1>0, StepNames DEF Flight
<1>2. FlightOK(f)
  BY <1>0 DEF FlightOK, Flight, LockedSteps
<1> QED
  BY <1>1, <1>2, ReadStep DEF LoginReadUser, record

\* The SSO row is as old as the login that made it, and the client was given its
\* token no earlier.
LEMMA ExchangeReadSsoStep ==
  ASSUME IInv, NEW p \in Proc, NEW id \in Token, NEW s \in Slot, ExchangeReadSso(p, id, s)
  PROVE  IInv'
<1> DEFINE f == [NoFlight EXCEPT !.op = "sso", !.pc = "exch_user", !.slot = s, !.parent = id,
                                 !.ver = sso[id].ver, !.cred = handed[id]]
<1>0. sso[id].ver \in Nat /\ handed[id] \in Nat /\ id \in OptToken
  BY DEF ExchangeReadSso, Handed, IInv, TypeOK, SsoRow, OptToken
<1>1. f \in Flight
  BY <1>0, NoFlightType, StepNames DEF Flight
<1>2. sso[id].ver <= handed[id] /\ handed[id] <= userVersion /\ sso[id].ver <= userVersion
  BY <1>0 DEF ExchangeReadSso, ActiveSso, IInv, HandedOK, RowsOK, TokensOK
<1>3. FlightOK(f)
  BY <1>2, NoFlightType DEF NoFlight, FlightOK, LockedSteps
<1> QED
  BY <1>1, <1>3, ReadStep DEF ExchangeReadSso, record

LEMMA ExchangeReadUserStep ==
  ASSUME IInv, NEW p \in Proc, ExchangeReadUser(p)
  PROVE  IInv'
<1> DEFINE f == [flight[p] EXCEPT !.pc = "issue", !.ver = userVersion]
<1>0. flight[p] \in Flight /\ FlightOK(flight[p]) /\ flight[p].pc = "exch_user"
      /\ userVersion \in Nat
  BY DEF IInv, TypeOK, ExchangeReadUser, At
<1>1. CASE flight[p].ver = userVersion
  <2>1. f \in Flight
    BY <1>0, StepNames DEF Flight
  <2>2. FlightOK(f)
    BY <1>0, <1>1 DEF FlightOK, Flight, LockedSteps
  <2> QED
    BY <1>1, <2>1, <2>2, ReadStep DEF ExchangeReadUser, record
<1>2. CASE flight[p].ver # userVersion
  BY <1>2, FinishStep DEF ExchangeReadUser, record
<1> QED
  BY <1>1, <1>2

\* The new token is as old as the flight says, and no row knows it yet.
LEMMA IssueStep ==
  ASSUME IInv, NEW p \in Proc, Issue(p)
  PROVE  IInv'
<1> PICK f0 \in Flight : f0 = flight[p]
  BY DEF IInv, TypeOK
<1>0. FlightOK(f0) /\ f0.pc = "issue" /\ f0.slot \in Slot
      /\ f0.op \in {"login", "sso", "refresh"} /\ TypeOK
  BY DEF IInv, Issue, At, FlightOK
<1> PICK t \in Token :
      /\ issued[t].op = "none"
      /\ device' = [device EXCEPT ![f0.slot] = t]
      /\ issued' = [issued EXCEPT ![t] =
            [op |-> f0.op, slot |-> f0.slot,
             from |-> IF f0.op = "refresh" THEN f0.tok ELSE f0.parent,
             ver |-> f0.ver, cred |-> f0.cred, pw |-> f0.pw]]
      /\ Goto(p, [f0 EXCEPT !.pc = IF f0.op = "refresh" THEN "rot_check" ELSE "persist",
                            !.new = t])
  BY DEF Issue
<1>1. PICK f \in Flight :
         f = [f0 EXCEPT !.pc = IF f0.op = "refresh" THEN "rot_check" ELSE "persist", !.new = t]
  BY <1>0, StepNames DEF Flight, OptToken
<1>2. UNCHANGED <<db, lock, grace, handed, faults>>
  BY DEF Issue
<1>3. TypeOK'
  <2>1. issued' \in [Token -> IssueRow]
    BY <1>0 DEF TypeOK, IssueRow, Flight, OptToken
  <2>2. device' \in [Slot -> OptToken]
    BY <1>0 DEF TypeOK, OptToken
  <2>3. flight' \in [Proc -> Flight]
    BY <1>0, <1>1 DEF TypeOK, Goto
  <2> QED
    BY <1>0, <1>2, <2>1, <2>2, <2>3 DEF TypeOK, db
<1>4. /\ issued'[t].op = f0.op /\ issued'[t].slot = f0.slot
      /\ issued'[t].ver = f0.ver /\ issued'[t].cred = f0.cred
      /\ Minted(t)' /\ ~Minted(t)
      /\ \A u \in Token : u # t => issued'[u] = issued[u]
      /\ \A u : Minted(u) => Minted(u)' /\ issued'[u] = issued[u]
  BY <1>0 DEF Minted, TypeOK
<1>5. Keeps
  BY <1>0, <1>2, <1>4 DEF Keeps, db, TypeOK
<1>6. TokensOK'
  <2>1. /\ f0.ver <= userVersion /\ f0.cred <= userVersion
        /\ f0.op \in {"sso", "refresh"} => f0.ver <= f0.cred
    BY <1>0 DEF FlightOK
  <2> QED
    BY <1>0, <1>2, <1>4, <2>1 DEF IInv, TokensOK, Minted, db
<1>7. HandedOK' /\ RowsOK'
  BY <1>2, <1>4 DEF IInv, HandedOK, RowsOK, RowAgrees, Handed, db
<1>8. DeviceOK'
  BY <1>0, <1>4 DEF IInv, DeviceOK, TypeOK
<1>9. FlightOK(f)'
  <2>1. FlightOK(f0)'
    BY <1>0, <1>3, <1>5, FlightKept
  <2>2. f.pc \in {"rot_check", "persist"} /\ f.new = t /\ f.ver = f0.ver /\ f.slot = f0.slot
        /\ f.op = f0.op /\ f.res = f0.res /\ f.row = f0.row /\ f.cred = f0.cred
        /\ f.hitSso = f0.hitSso /\ f.hitApp = f0.hitApp
        /\ (f.pc = "rot_check" <=> f0.op = "refresh")
    BY <1>0, <1>1 DEF Flight
  <2> QED
    BY <1>0, <1>4, <2>1, <2>2 DEF FlightOK, LockedSteps
<1> QED
  BY <1>1, <1>3, <1>5, <1>6, <1>7, <1>8, <1>9, DataStep

\* The rows say of the new token what the flight minted it with.
LEMMA PersistStep ==
  ASSUME IInv, NEW p \in Proc, Persist(p)
  PROVE  IInv'
<1> PICK f0 \in Flight : f0 = flight[p]
  BY DEF IInv, TypeOK
<1> DEFINE parent == IF f0.op = "login" THEN f0.new ELSE f0.parent
           row == [status |-> "active", tok |-> f0.new, slot |-> f0.slot, ver |-> f0.ver,
                   version |-> 1, expired |-> FALSE, sso |-> parent]
<1>0. FlightOK(f0) /\ f0.pc = "persist" /\ f0.slot \in Slot
      /\ f0.new \in Token /\ f0.op \in {"login", "sso"} /\ TypeOK
  BY DEF IInv, TypeOK, Persist, At, FlightOK, Minted
<1>1. PICK f \in Flight :
         f = [f0 EXCEPT !.pc = IF f0.op = "login" THEN "respond" ELSE "touch",
                        !.parent = parent, !.res = IF f0.op = "login" THEN f0.new ELSE None]
  BY <1>0, StepNames DEF Flight, OptToken
<1>2. /\ UNCHANGED <<userVersion, password, redis, record>> /\ Goto(p, f)
      /\ session' = [session EXCEPT ![f0.new] = row]
      /\ sso' = IF f0.op = "login"
                THEN [sso EXCEPT ![f0.new] = [status |-> "active", ver |-> f0.ver, expired |-> FALSE]]
                ELSE sso
  BY <1>1 DEF Persist
<1>3. TypeOK'
  <2>1. session' \in [Token -> SessionRow]
    BY <1>0, <1>2 DEF TypeOK, SessionRow, Flight, OptToken
  <2>2. sso' \in [Token -> SsoRow]
    BY <1>0, <1>2 DEF TypeOK, SsoRow, Flight
  <2>3. flight' \in [Proc -> Flight]
    BY <1>0, <1>1, <1>2 DEF TypeOK, Goto
  <2> QED
    BY <1>0, <1>2, <2>1, <2>2, <2>3 DEF TypeOK, redis, record
<1>4. Minted(f0.new) /\ issued[f0.new].ver = f0.ver /\ issued[f0.new].slot = f0.slot
  BY <1>0 DEF FlightOK
<1>5. UNCHANGED <<issued, handed, grace, device, userVersion>>
  BY <1>2 DEF redis, record
<1>6. Keeps
  BY <1>0, <1>2, <1>4, <1>5 DEF Keeps, TypeOK, IInv, RowsOK, RowAgrees
<1>7. TokensOK' /\ HandedOK' /\ DeviceOK'
  BY <1>5 DEF IInv, TokensOK, HandedOK, DeviceOK, Minted, Handed
<1>8. RowsOK'
  BY <1>0, <1>2, <1>4, <1>5 DEF IInv, RowsOK, RowAgrees, Minted, TypeOK
<1>9. FlightOK(f)'
  <2>1. f.pc \in {"respond", "touch"} /\ f.res \in {None, f0.new} /\ f.new = f0.new
        /\ f.ver = f0.ver /\ f.slot = f0.slot /\ f.cred = f0.cred
        /\ f.hitSso = f0.hitSso /\ f.hitApp = f0.hitApp
    BY <1>0, <1>1 DEF Flight
  <2>2. FlightOK(f0)'
    BY <1>0, <1>3, <1>6, FlightKept
  <2> QED
    BY <1>0, <1>4, <1>5, <2>1, <2>2 DEF FlightOK, LockedSteps, Minted
<1> QED
  BY <1>1, <1>2, <1>3, <1>6, <1>7, <1>8, <1>9, DataStep

LEMMA TouchStep ==
  ASSUME IInv, NEW p \in Proc, Touch(p)
  PROVE  IInv'
<1> DEFINE f == IF flight[p].op = "refresh"
                THEN [flight[p] EXCEPT !.pc = "save_grace"]
                ELSE [flight[p] EXCEPT !.pc = "respond", !.res = flight[p].new]
<1>0. flight[p] \in Flight /\ FlightOK(flight[p]) /\ flight[p].pc = "touch"
  BY DEF IInv, TypeOK, Touch, At
<1>3. Minted(flight[p].new) /\ flight[p].new \in OptToken
  BY <1>0 DEF FlightOK, Minted, OptToken
<1>1. f \in Flight
  BY <1>0, <1>3, StepNames DEF Flight
<1>2. FlightOK(f)
  BY <1>0, <1>3 DEF FlightOK, Flight, LockedSteps
<1> QED
  BY <1>1, <1>2, ReadStep DEF Touch, record

\* An answer is handed out at the version of the moment, never before its token
\* was minted.
LEMMA RespondStep ==
  ASSUME IInv, NEW p \in Proc, Respond(p)
  PROVE  IInv'
<1>1. CASE flight[p].res # None /\ ~Handed(flight[p].res)
  <2>1. PICK t \in Token : t = flight[p].res /\ Minted(t) /\ ~Handed(t)
                           /\ handed' = [handed EXCEPT ![t] = userVersion]
    BY <1>1 DEF Respond, IInv, FlightOK, Minted
  <2>2. UNCHANGED <<db, redis, issued, faults>> /\ Goto(p, NoFlight)
    BY DEF Respond, Finish
  <2>3. TypeOK'
    BY <2>1, <2>2, NoFlightType DEF IInv, TypeOK, Goto, db, redis
  <2>4. Keeps
    BY <2>1, <2>2 DEF Keeps, IInv, TypeOK, db, Handed
  <2>5. TokensOK' /\ RowsOK' /\ DeviceOK'
    BY <2>2 DEF IInv, TokensOK, RowsOK, RowAgrees, DeviceOK, Minted, db, redis
  <2>6. HandedOK'
    BY <2>1, <2>2 DEF IInv, TypeOK, TokensOK, HandedOK, Minted, Handed, db, redis
  <2> QED
    BY <2>2, <2>3, <2>4, <2>5, <2>6, NoFlightType, NoFlightOK, FlightKept, DataStep DEF IInv
<1>2. CASE ~(flight[p].res # None /\ ~Handed(flight[p].res))
  BY <1>2, FinishStep DEF Respond
<1> QED
  BY <1>1, <1>2

-----------------------------------------------------------------------------
(* RefreshToken                                                            *)

LEMMA RefreshStartStep ==
  ASSUME IInv, NEW p \in Proc, NEW t \in Token, RefreshStart(p, t)
  PROVE  IInv'
<1> DEFINE f == [NoFlight EXCEPT !.op = "refresh", !.tok = t, !.cred = handed[t],
                                 !.pc = IF grace[t] # None THEN "respond" ELSE "ref_lock",
                                 !.res = grace[t]]
<1>0. handed[t] \in Nat /\ t \in OptToken /\ grace[t] \in OptToken /\ Handed(t)
  BY DEF RefreshStart, Handed, IInv, TypeOK, OptToken
<1>1. f \in Flight
  BY <1>0, NoFlightType, StepNames DEF Flight
<1>2. handed[t] <= userVersion /\ 0 <= userVersion /\ (grace[t] # None => Minted(grace[t]))
  BY <1>0 DEF IInv, HandedOK, TypeOK
<1>3. FlightOK(f)
  BY <1>0, <1>2, NoFlightType DEF NoFlight, FlightOK, LockedSteps
<1> QED
  BY <1>1, <1>3, ReadStep DEF RefreshStart, record

LEMMA TryLockStep ==
  ASSUME IInv, NEW p \in Proc, TryLock(p)
  PROVE  IInv'
<1> DEFINE f == [flight[p] EXCEPT !.pc = "ref_find"]
<1>0. flight[p] \in Flight /\ FlightOK(flight[p]) /\ flight[p].pc = "ref_lock"
  BY DEF IInv, TypeOK, TryLock, At
<1>1. f \in Flight
  BY <1>0, StepNames DEF Flight
<1>2. FlightOK(f)
  BY <1>0 DEF FlightOK, Flight, LockedSteps
<1>3. Quiet
  <2>1. flight[p].tok \in Token
    BY <1>0 DEF FlightOK
  <2> QED
    BY <2>1 DEF Quiet, TryLock, IInv, TypeOK, record
<1> QED
  BY <1>1, <1>2, <1>3, QuietStep DEF TryLock

LEMMA TryLockBusyStep ==
  ASSUME IInv, NEW p \in Proc, TryLockBusy(p)
  PROVE  IInv'
<1> DEFINE f == [flight[p] EXCEPT !.pc = "ref_wait"]
<1>0. flight[p] \in Flight /\ FlightOK(flight[p]) /\ flight[p].pc = "ref_lock"
  BY DEF IInv, TypeOK, TryLockBusy, At
<1>1. f \in Flight
  BY <1>0, StepNames DEF Flight
<1>2. FlightOK(f)
  BY <1>0 DEF FlightOK, Flight, LockedSteps
<1> QED
  BY <1>1, <1>2, ReadStep DEF TryLockBusy, record

LEMMA RefreshWaitStep ==
  ASSUME IInv, NEW p \in Proc, RefreshWait(p)
  PROVE  IInv'
<1> DEFINE f == [flight[p] EXCEPT !.pc = "respond", !.res = grace[flight[p].tok]]
<1>0. flight[p] \in Flight /\ FlightOK(flight[p]) /\ flight[p].pc = "ref_wait"
  BY DEF IInv, TypeOK, RefreshWait, At
<1>1. /\ grace[flight[p].tok] \in OptToken
      /\ grace[flight[p].tok] # None => Minted(grace[flight[p].tok])
  BY <1>0 DEF FlightOK, IInv, TypeOK, HandedOK
<1>2. f \in Flight
  BY <1>0, <1>1, StepNames DEF Flight
<1>3. FlightOK(f)
  BY <1>0, <1>1 DEF FlightOK, Flight, LockedSteps
<1> QED
  BY <1>2, <1>3, ReadStep DEF RefreshWait, record

\* The row found for the token is as old as the token, which is no older than
\* the moment the client was given it.
LEMMA RefreshFindStep ==
  ASSUME IInv, NEW p \in Proc, RefreshFind(p)
  PROVE  IInv'
<1> DEFINE f0 == flight[p]
           found(id) == [f0 EXCEPT !.pc = "ref_user", !.row = id, !.seen = session[id].version,
                                   !.ver = session[id].ver, !.slot = session[id].slot,
                                   !.parent = session[id].sso]
<1>0. f0 \in Flight /\ FlightOK(f0) /\ f0.pc = "ref_find"
  BY DEF IInv, TypeOK, RefreshFind, At
<1>1. CASE RowsOf(f0.tok) = {}
  <2> DEFINE f == [f0 EXCEPT !.pc = "ref_grace"]
  <2>1. f \in Flight
    BY <1>0, StepNames DEF Flight
  <2>2. FlightOK(f)
    BY <1>0 DEF FlightOK, Flight, LockedSteps
  <2> QED
    BY <1>1, <2>1, <2>2, ReadStep DEF RefreshFind, record
<1>2. ASSUME NEW id \in RowsOf(f0.tok), Goto(p, found(id)) PROVE IInv'
  <2>0. /\ id \in Token /\ id \in OptToken /\ session[id] \in SessionRow
        /\ session[id].status # "none" /\ session[id].tok = f0.tok
    BY DEF RowsOf, IInv, TypeOK, OptToken
  <2>1. found(id) \in Flight
    BY <1>0, <2>0, StepNames DEF Flight, SessionRow
  <2>2. f0.tok \in Token /\ Handed(f0.tok) /\ f0.cred = handed[f0.tok]
    BY <1>0 DEF FlightOK
  <2>3. session[id].ver <= f0.cred /\ session[id].ver <= userVersion /\ session[id].slot \in Slot
    BY <2>0, <2>2 DEF IInv, RowsOK, RowAgrees, HandedOK, TokensOK
  <2>4. FlightOK(found(id))
    BY <1>0, <2>0, <2>1, <2>3 DEF FlightOK, Flight, LockedSteps
  <2> QED
    BY <1>2, <2>1, <2>4, ReadStep DEF RefreshFind, record
<1>3. CASE RowsOf(f0.tok) # {}
  <2> DEFINE f == [f0 EXCEPT !.pc = "unlock"]
  <2>1. f \in Flight
    BY <1>0, StepNames DEF Flight
  <2>2. FlightOK(f)
    BY <1>0 DEF FlightOK, Flight, LockedSteps
  <2>3. PICK id \in RowsOf(f0.tok) : Goto(p, found(id)) \/ Goto(p, f)
    BY <1>3 DEF RefreshFind
  <2>4. CASE Goto(p, f)
    BY <2>1, <2>2, <2>4, ReadStep DEF RefreshFind, record
  <2> QED
    BY <1>2, <2>3, <2>4
<1> QED
  BY <1>1, <1>3

LEMMA RefreshGraceStep ==
  ASSUME IInv, NEW p \in Proc, RefreshGrace(p)
  PROVE  IInv'
<1> DEFINE f == [flight[p] EXCEPT !.pc = "unlock", !.res = grace[flight[p].tok]]
<1>0. flight[p] \in Flight /\ FlightOK(flight[p]) /\ flight[p].pc = "ref_grace"
  BY DEF IInv, TypeOK, RefreshGrace, At
<1>1. /\ grace[flight[p].tok] \in OptToken
      /\ grace[flight[p].tok] # None => Minted(grace[flight[p].tok])
  BY <1>0 DEF FlightOK, IInv, TypeOK, HandedOK
<1>2. f \in Flight
  BY <1>0, <1>1, StepNames DEF Flight
<1>3. FlightOK(f)
  BY <1>0, <1>1 DEF FlightOK, Flight, LockedSteps
<1> QED
  BY <1>2, <1>3, ReadStep DEF RefreshGrace, record

LEMMA RefreshReadUserStep ==
  ASSUME IInv, NEW p \in Proc, RefreshReadUser(p)
  PROVE  IInv'
<1> DEFINE good == [flight[p] EXCEPT !.pc = "ref_sso", !.ver = userVersion]
           bad == [flight[p] EXCEPT !.pc = "unlock"]
<1>0. flight[p] \in Flight /\ FlightOK(flight[p]) /\ flight[p].pc = "ref_user"
  BY DEF IInv, TypeOK, RefreshReadUser, At
<1>1. userVersion \in Nat
  BY DEF IInv, TypeOK
<1>2. good \in Flight /\ bad \in Flight
  BY <1>0, <1>1, StepNames DEF Flight
<1>3. CASE userVersion = flight[p].ver
  <2>1. FlightOK(good)
    BY <1>0, <1>3 DEF FlightOK, Flight, LockedSteps
  <2> QED
    BY <1>2, <1>3, <2>1, ReadStep DEF RefreshReadUser, record
<1>4. CASE userVersion # flight[p].ver
  <2>1. FlightOK(bad)
    BY <1>0 DEF FlightOK, Flight, LockedSteps
  <2> QED
    BY <1>2, <1>4, <2>1, ReadStep DEF RefreshReadUser, record
<1> QED
  BY <1>3, <1>4

LEMMA RefreshReadSsoStep ==
  ASSUME IInv, NEW p \in Proc, RefreshReadSso(p)
  PROVE  IInv'
<1>0. flight[p] \in Flight /\ FlightOK(flight[p]) /\ flight[p].pc = "ref_sso"
  BY DEF IInv, TypeOK, RefreshReadSso, At
<1>1. ASSUME NEW step \in {"issue", "unlock"}, Goto(p, [flight[p] EXCEPT !.pc = step])
      PROVE  IInv'
  <2> DEFINE f == [flight[p] EXCEPT !.pc = step]
  <2>1. f \in Flight
    BY <1>0, StepNames DEF Flight
  <2>2. FlightOK(f)
    BY <1>0 DEF FlightOK, Flight, LockedSteps
  <2> QED
    BY <1>1, <2>1, <2>2, ReadStep DEF RefreshReadSso, record
<1> QED
  BY <1>1 DEF RefreshReadSso

LEMMA RotateCheckStep ==
  ASSUME IInv, NEW p \in Proc, RotateCheck(p)
  PROVE  IInv'
<1>0. flight[p] \in Flight /\ FlightOK(flight[p]) /\ flight[p].pc = "rot_check"
  BY DEF IInv, TypeOK, RotateCheck, At
<1>1. ASSUME NEW step \in {"rot_write", "clean_get"}, Goto(p, [flight[p] EXCEPT !.pc = step])
      PROVE  IInv'
  <2> DEFINE f == [flight[p] EXCEPT !.pc = step]
  <2>1. f \in Flight
    BY <1>0, StepNames DEF Flight
  <2>2. FlightOK(f)
    BY <1>0 DEF FlightOK, Flight, LockedSteps
  <2> QED
    BY <1>1, <2>1, <2>2, ReadStep DEF RotateCheck, record
<1> QED
  BY <1>1 DEF RotateCheck

\* The new token has the version and the field of the row.
LEMMA RotateWriteStep ==
  ASSUME IInv, NEW p \in Proc, RotateWrite(p)
  PROVE  IInv'
<1> PICK f0 \in Flight : f0 = flight[p]
  BY DEF IInv, TypeOK
<1>0. FlightOK(f0) /\ f0.pc = "rot_write" /\ TypeOK
  BY DEF IInv, RotateWrite, At
<1>1. PICK f \in Flight : f = [f0 EXCEPT !.pc = "touch"]
  BY <1>0, StepNames DEF Flight
<1>2. /\ UNCHANGED <<userVersion, password, sso, redis, record>> /\ Goto(p, f)
      /\ session' = [session EXCEPT ![f0.row].tok = f0.new, ![f0.row].expired = FALSE,
                                    ![f0.row].version = @ + 1]
  BY <1>1 DEF RotateWrite
<1>3. /\ f0.row \in Token /\ session[f0.row].status # "none"
      /\ session[f0.row].ver = f0.ver /\ session[f0.row].slot = f0.slot
      /\ Minted(f0.new) /\ issued[f0.new].ver = f0.ver /\ issued[f0.new].slot = f0.slot
  BY <1>0 DEF FlightOK
<1>4. TypeOK'
  <2>1. session' \in [Token -> SessionRow]
    <3>1. session \in [Token -> SessionRow]
      BY <1>0 DEF TypeOK
    <3>2. PICK r \in SessionRow : r = session[f0.row]
      BY <1>3, <3>1
    <3>3. r.version \in Nat /\ f0.new \in OptToken
      BY <1>3, <3>2 DEF SessionRow, Minted, OptToken
    <3>4. [r EXCEPT !.tok = f0.new, !.expired = FALSE, !.version = @ + 1] \in SessionRow
      <4>1. PICK a \in SessionRow : a = [r EXCEPT !.tok = f0.new]
        BY <3>3 DEF SessionRow
      <4>2. PICK b \in SessionRow : b = [a EXCEPT !.expired = FALSE]
        BY DEF SessionRow
      <4>3. [b EXCEPT !.version = r.version + 1] \in SessionRow
        BY <3>3 DEF SessionRow
      <4> QED
        BY <4>1, <4>2, <4>3
    <3>5. session' = [session EXCEPT ![f0.row] = [r EXCEPT !.tok = f0.new, !.expired = FALSE,
                                                          !.version = @ + 1]]
      <4>1. r.version = session[f0.row].version
        BY <3>2
      <4> QED
        BY <1>2, <1>3, <3>1, <3>2, <4>1, Zenon
    <3> QED
      BY <1>3, <3>1, <3>4, <3>5
  <2>2. flight' \in [Proc -> Flight]
    BY <1>0, <1>2 DEF TypeOK, Goto
  <2> QED
    BY <1>0, <1>2, <2>1, <2>2 DEF TypeOK, redis, record
<1>5. UNCHANGED <<issued, handed, grace, device, userVersion, sso>>
  BY <1>2 DEF redis, record
<1>6. /\ session'[f0.row].status = session[f0.row].status
      /\ session'[f0.row].ver = session[f0.row].ver
      /\ session'[f0.row].slot = session[f0.row].slot
      /\ session'[f0.row].tok = f0.new
      /\ \A id \in Token : id # f0.row => session'[id] = session[id]
  BY <1>0, <1>2, <1>3 DEF TypeOK, SessionRow
<1>7. Keeps
  BY <1>0, <1>5, <1>6 DEF Keeps, TypeOK
<1>8. TokensOK' /\ HandedOK' /\ DeviceOK'
  BY <1>5 DEF IInv, TokensOK, HandedOK, DeviceOK, Minted, Handed
<1>9. RowsOK'
  BY <1>3, <1>5, <1>6 DEF IInv, RowsOK, RowAgrees, Minted
<1>10. FlightOK(f)'
  <2>1. FlightOK(f0)'
    BY <1>0, <1>4, <1>7, FlightKept
  <2> QED
    BY <1>0, <1>1, <2>1 DEF FlightOK, Flight, LockedSteps
<1> QED
  BY <1>2, <1>4, <1>7, <1>8, <1>9, <1>10, DataStep

LEMMA SaveGraceStep ==
  ASSUME IInv, NEW p \in Proc, SaveGrace(p)
  PROVE  IInv'
<1> PICK f0 \in Flight : f0 = flight[p]
  BY DEF IInv, TypeOK
<1>0. FlightOK(f0) /\ f0.pc = "save_grace" /\ Minted(f0.new) /\ TypeOK
  BY DEF IInv, SaveGrace, At, FlightOK
<1>1. PICK f \in Flight : f = [f0 EXCEPT !.pc = "unlock", !.res = f0.new]
  BY <1>0, StepNames DEF Flight
<1>2. /\ UNCHANGED <<db, device, lock, record>> /\ Goto(p, f)
      /\ grace' = [grace EXCEPT ![f0.tok] = f0.new]
  BY <1>1 DEF SaveGrace
<1>3. TypeOK'
  BY <1>0, <1>2 DEF TypeOK, Goto, Minted, OptToken, db, record
<1>4. Keeps
  BY <1>0, <1>2 DEF Keeps, TypeOK, db, record
<1>5. TokensOK' /\ RowsOK' /\ DeviceOK'
  BY <1>2 DEF IInv, TokensOK, RowsOK, RowAgrees, DeviceOK, Minted, db, record
<1>6. HandedOK'
  BY <1>0, <1>2 DEF IInv, TypeOK, HandedOK, Minted, Handed, db, record
<1>7. FlightOK(f)'
  <2>1. FlightOK(f0)'
    BY <1>0, <1>3, <1>4, FlightKept
  <2> QED
    BY <1>0, <1>1, <2>1 DEF FlightOK, Flight, LockedSteps
<1> QED
  BY <1>2, <1>3, <1>4, <1>5, <1>6, <1>7, DataStep

LEMMA UnLockStep ==
  ASSUME IInv, NEW p \in Proc, UnLock(p)
  PROVE  IInv'
<1> DEFINE f == [NoFlight EXCEPT !.op = "refresh", !.pc = "respond", !.res = flight[p].res]
<1>0. flight[p] \in Flight /\ FlightOK(flight[p]) /\ flight[p].pc = "unlock"
  BY DEF IInv, TypeOK, UnLock, At
<1>1. f \in Flight
  BY <1>0, NoFlightType, StepNames DEF Flight
<1>2. FlightOK(f)
  BY <1>0, NoFlightType DEF NoFlight, FlightOK, LockedSteps, IInv, TypeOK
<1>3. Quiet
  BY DEF Quiet, UnLock, IInv, TypeOK, record
<1> QED
  BY <1>1, <1>2, <1>3, QuietStep DEF UnLock

-----------------------------------------------------------------------------
(* Failures                                                                *)

LEMMA StoreFailsStep ==
  ASSUME IInv, NEW p \in Proc, StoreFails(p)
  PROVE  IInv'
<1> DEFINE f0 == flight[p]
           f == [f0 EXCEPT !.pc = OnError[f0.pc],
                           !.res = IF f0.pc = "save_grace" THEN f0.new ELSE None]
<1>0. f0 \in Flight /\ FlightOK(f0) /\ f0.pc \in DOMAIN OnError
  BY DEF IInv, TypeOK, StoreFails
<1>1. /\ OnError[f0.pc] \in {"ref_wait", "ref_grace", "unlock", "clean_get"}
      /\ OnError[f0.pc] = "ref_wait" => f0.pc = "ref_lock"
      /\ OnError[f0.pc] = "ref_grace" => f0.pc = "ref_find"
      /\ OnError[f0.pc] = "unlock" =>
            f0.pc \in {"ref_user", "ref_sso", "save_grace", "issue", "clean_get", "clean_del"}
  BY <1>0 DEF OnError
<1>2. f \in Flight
  <2>1. \A step \in Steps, t \in OptToken : [f0 EXCEPT !.pc = step, !.res = t] \in Flight
    BY <1>0 DEF Flight
  <2>2. OnError[f0.pc] \in Steps
    BY <1>1, StepNames
  <2>3. (IF f0.pc = "save_grace" THEN f0.new ELSE None) \in OptToken
    BY <1>0 DEF Flight, OptToken
  <2> QED
    BY <2>1, <2>2, <2>3
<1>3. OnError[f0.pc] \in {"ref_wait", "ref_grace", "unlock"} => f0.op = "refresh"
  BY <1>0, <1>1 DEF StoreFails, FlightOK, LockedSteps
<1>4. f.pc = OnError[f0.pc] /\ f.op = f0.op /\ f.tok = f0.tok /\ f.ver = f0.ver /\ f.cred = f0.cred
      /\ (f.res # None => f0.pc = "save_grace" /\ f.res = f0.new)
  BY <1>0 DEF Flight
<1>5. FlightOK(f)
  BY <1>0, <1>1, <1>3, <1>4 DEF FlightOK, LockedSteps
<1> QED
  BY <1>2, <1>5, ReadStep DEF StoreFails

LEMMA AfterCleanupOK ==
  ASSUME IInv, NEW p \in Proc, flight[p].pc \in {"clean_get", "clean_del"}
  PROVE  AfterCleanup(p) \in Flight /\ FlightOK(AfterCleanup(p))
<1> DEFINE f == [flight[p] EXCEPT !.pc = "unlock"]
<1>0. flight[p] \in Flight /\ FlightOK(flight[p])
  BY DEF IInv, TypeOK
<1>1. f \in Flight
  BY <1>0, StepNames DEF Flight
<1>2. flight[p].op = "refresh" => FlightOK(f)
  BY <1>0 DEF FlightOK, Flight, LockedSteps
<1> QED
  BY <1>1, <1>2, NoFlightType, NoFlightOK DEF AfterCleanup, IInv

LEMMA CleanGetStep ==
  ASSUME IInv, NEW p \in Proc, CleanGet(p)
  PROVE  IInv'
<1> DEFINE f == [flight[p] EXCEPT !.pc = "clean_del"]
<1>0. flight[p] \in Flight /\ FlightOK(flight[p]) /\ flight[p].pc = "clean_get"
  BY DEF IInv, TypeOK, CleanGet, At
<1>1. f \in Flight
  BY <1>0, StepNames DEF Flight
<1>2. FlightOK(f)
  BY <1>0 DEF FlightOK, Flight, LockedSteps
<1>3. Goto(p, f) \/ Goto(p, AfterCleanup(p))
  BY DEF CleanGet
<1> QED
  BY <1>0, <1>1, <1>2, <1>3, AfterCleanupOK, ReadStep DEF CleanGet, record

LEMMA CleanDelStep ==
  ASSUME IInv, NEW p \in Proc, CleanDel(p)
  PROVE  IInv'
<1>1. AfterCleanup(p) \in Flight /\ FlightOK(AfterCleanup(p))
  BY AfterCleanupOK DEF CleanDel, At
<1>2. Quiet
  BY DEF Quiet, CleanDel, IInv, TypeOK, OptToken, record
<1> QED
  BY <1>1, <1>2, QuietStep DEF CleanDel

-----------------------------------------------------------------------------
(* Logout                                                                  *)

LEMMA LogoutBeginStep ==
  ASSUME IInv, NEW p \in Proc, NEW s \in Slot, Logout(p, s)
  PROVE  IInv'
<1> DEFINE f == [NoFlight EXCEPT !.op = "logout", !.pc = "out_get", !.slot = s]
<1>1. f \in Flight
  BY NoFlightType, StepNames DEF Flight
<1>2. FlightOK(f)
  BY NoFlightType DEF NoFlight, FlightOK, IInv, TypeOK, LockedSteps
<1> QED
  BY <1>1, <1>2, ReadStep DEF Logout, record

\* The token in the field was minted for the field.
LEMMA LogoutGetStep ==
  ASSUME IInv, NEW p \in Proc, LogoutGet(p)
  PROVE  IInv'
<1> DEFINE f0 == flight[p]
           f == [f0 EXCEPT !.tok = device[f0.slot],
                           !.pc = IF device[f0.slot] = None THEN "respond" ELSE "out_del"]
<1>0. f0 \in Flight /\ FlightOK(f0) /\ f0.pc = "out_get"
  BY DEF IInv, TypeOK, LogoutGet, At
<1>1. f0.slot \in Slot /\ device[f0.slot] \in OptToken
  BY <1>0 DEF FlightOK, IInv, TypeOK
<1>2. f \in Flight
  BY <1>0, <1>1, StepNames DEF Flight
<1>3. device[f0.slot] # None => Minted(device[f0.slot]) /\ issued[device[f0.slot]].slot = f0.slot
  BY <1>1 DEF IInv, DeviceOK
<1>4. FlightOK(f)
  BY <1>0, <1>3 DEF FlightOK, Flight, LockedSteps
<1> QED
  BY <1>2, <1>4, ReadStep DEF LogoutGet, record

LEMMA LogoutDelStep ==
  ASSUME IInv, NEW p \in Proc, LogoutDel(p)
  PROVE  IInv'
<1> DEFINE f == [flight[p] EXCEPT !.pc = "out_find"]
<1>0. flight[p] \in Flight /\ FlightOK(flight[p]) /\ flight[p].pc = "out_del"
  BY DEF IInv, TypeOK, LogoutDel, At
<1>1. f \in Flight
  BY <1>0, StepNames DEF Flight
<1>2. FlightOK(f)
  BY <1>0 DEF FlightOK, Flight, LockedSteps
<1>3. Quiet
  BY DEF Quiet, LogoutDel, IInv, TypeOK, OptToken, record
<1> QED
  BY <1>1, <1>2, <1>3, QuietStep DEF LogoutDel

\* A row that holds the token has the field of the token.
LEMMA LogoutFindStep ==
  ASSUME IInv, NEW p \in Proc, LogoutFind(p)
  PROVE  IInv'
<1> DEFINE f0 == flight[p]
           none == [f0 EXCEPT !.pc = "respond"]
           found(id) == [f0 EXCEPT !.pc = "out_revoke", !.row = id]
<1>0. f0 \in Flight /\ FlightOK(f0) /\ f0.pc = "out_find"
  BY DEF IInv, TypeOK, LogoutFind, At
<1>1. CASE RowsOf(f0.tok) = {}
  <2>1. none \in Flight
    BY <1>0, StepNames DEF Flight
  <2>2. FlightOK(none)
    BY <1>0 DEF FlightOK, Flight, LockedSteps
  <2> QED
    BY <1>1, <2>1, <2>2, ReadStep DEF LogoutFind, record
<1>2. CASE RowsOf(f0.tok) # {}
  <2>0. PICK id \in RowsOf(f0.tok) : Goto(p, found(id))
    BY <1>2 DEF LogoutFind
  <2>1. /\ id \in Token /\ id \in OptToken
        /\ session[id].status # "none" /\ session[id].tok = f0.tok
    BY DEF RowsOf, OptToken
  <2>2. found(id) \in Flight
    BY <1>0, <2>1, StepNames DEF Flight
  <2>3. Minted(f0.tok) /\ issued[f0.tok].slot = f0.slot
    BY <1>0 DEF FlightOK
  <2>4. session[id].slot = f0.slot
    BY <2>1, <2>3 DEF IInv, RowsOK, RowAgrees
  <2>5. FlightOK(found(id))
    BY <1>0, <2>1, <2>4 DEF FlightOK, Flight, LockedSteps
  <2> QED
    BY <2>0, <2>2, <2>5, ReadStep DEF LogoutFind, record
<1> QED
  BY <1>1, <1>2

\* Revoking rows changes nothing that IInv speaks of.
LEMMA RevokeStep ==
  ASSUME IInv, TypeOK', userVersion <= userVersion',
         UNCHANGED <<redis, record>>,
         \A id \in Token :
            /\ session[id].status = "none" => session'[id].status = "none"
            /\ session[id].status # "none" => session'[id].status # "none"
            /\ session'[id].tok = session[id].tok
            /\ session'[id].ver = session[id].ver
            /\ session'[id].slot = session[id].slot
            /\ sso[id].status = "none" => sso'[id].status = "none"
            /\ sso[id].status # "none" => sso'[id].status # "none"
            /\ sso'[id].ver = sso[id].ver,
         NEW p \in Proc, NEW f \in Flight, Goto(p, f), FlightOK(f)
  PROVE  IInv'
<1>1. UNCHANGED <<issued, handed, grace, device>>
  BY DEF redis, record
<1>2. Keeps
  BY <1>1 DEF Keeps
<1>3. TokensOK' /\ HandedOK'
  <2>1. userVersion \in Nat /\ userVersion' \in Nat
        /\ \A t \in Token : /\ issued[t].ver \in Nat /\ issued[t].cred \in Nat
                            /\ handed[t] # None => handed[t] \in Nat
    BY DEF IInv, TypeOK, IssueRow
  <2>2. TokensOK'
    BY <1>1, <2>1 DEF IInv, TokensOK, Minted
  <2>3. HandedOK'
    BY <1>1, <2>1 DEF IInv, HandedOK, Minted, Handed
  <2> QED
    BY <2>2, <2>3
<1>4. RowsOK' /\ DeviceOK'
  BY <1>1 DEF IInv, RowsOK, RowAgrees, DeviceOK, Minted
<1>5. FlightOK(f)'
  BY <1>2, FlightKept DEF IInv
<1> QED
  BY <1>2, <1>3, <1>4, <1>5, DataStep

LEMMA LogoutRevokeStep ==
  ASSUME IInv, NEW p \in Proc, LogoutRevoke(p)
  PROVE  IInv'
<1> DEFINE f == [flight[p] EXCEPT !.pc = "respond"]
<1>0. /\ flight[p] \in Flight /\ FlightOK(flight[p]) /\ flight[p].pc = "out_revoke"
      /\ flight[p].row \in Token /\ session[flight[p].row].status # "none" /\ TypeOK
  BY DEF IInv, TypeOK, LogoutRevoke, At, FlightOK
<1>1. f \in Flight
  BY <1>0, StepNames DEF Flight
<1>2. FlightOK(f)
  BY <1>0 DEF FlightOK, Flight, LockedSteps
<1>3. /\ session' = [session EXCEPT ![flight[p].row].status = "revoked"] /\ Goto(p, f)
      /\ UNCHANGED <<userVersion, password, sso, redis, record>>
  BY DEF LogoutRevoke
<1>4. session' \in [Token -> SessionRow]
  BY SMTT(60), <1>0, <1>3 DEF TypeOK, SessionRow
<1>5. flight' \in [Proc -> Flight]
  BY <1>0, <1>1, <1>3 DEF TypeOK, Goto
<1>6. TypeOK'
  BY <1>0, <1>3, <1>4, <1>5 DEF TypeOK, redis, record
<1>7. \A id \in Token :
         /\ session[id].status = "none" => session'[id].status = "none"
         /\ session[id].status # "none" => session'[id].status # "none"
         /\ session'[id].tok = session[id].tok
         /\ session'[id].ver = session[id].ver
         /\ session'[id].slot = session[id].slot
  BY <1>0, <1>3 DEF TypeOK, SessionRow
<1> QED
  BY <1>0, <1>1, <1>2, <1>3, <1>6, <1>7, RevokeStep DEF TypeOK

-----------------------------------------------------------------------------
(* LogoutAllSessions and ChangePassword                                    *)

\* The transaction works on its own: nothing that IInv speaks of changes before
\* the commit.
LEMMA TxStepsOK ==
  ASSUME IInv, NEW p \in Proc, TxBegin(p) \/ TxRevokeSso(p) \/ TxRevokeApp(p)
  PROVE  IInv'
<1>0. flight[p] \in Flight /\ FlightOK(flight[p])
  BY DEF IInv, TypeOK
<1>1. CASE TxBegin(p)
  <2> DEFINE f == [NoFlight EXCEPT !.op = "revoke_all", !.pc = "tx_sso"]
  <2>1. f \in Flight
    BY NoFlightType, StepNames DEF Flight
  <2>2. FlightOK(f)
    BY NoFlightType DEF NoFlight, FlightOK, IInv, TypeOK, LockedSteps
  <2> QED
    BY <1>1, <2>1, <2>2, ReadStep DEF TxBegin, record
<1>2. CASE TxRevokeSso(p)
  <2> DEFINE f == [flight[p] EXCEPT !.pc = "tx_app",
                                    !.hitSso = {id \in Token : sso[id].status = "active"}]
  <2>1. f \in Flight
    BY <1>0, StepNames DEF Flight
  <2>2. FlightOK(f)
    BY <1>0 DEF FlightOK, Flight, LockedSteps
  <2> QED
    BY <1>2, <2>1, <2>2, ReadStep DEF TxRevokeSso, record
<1>3. CASE TxRevokeApp(p)
  <2> DEFINE f == [flight[p] EXCEPT !.pc = "tx_commit",
                                    !.hitApp = {id \in Token : session[id].status = "active"}]
  <2>1. f \in Flight
    BY <1>0, StepNames DEF Flight
  <2>2. FlightOK(f)
    BY <1>0 DEF FlightOK, Flight, LockedSteps
  <2> QED
    BY <1>3, <2>1, <2>2, ReadStep DEF TxRevokeApp, record
<1> QED
  BY <1>1, <1>2, <1>3

\* The rows that the transaction will revoke exist.
LEMMA TxCommitStep ==
  ASSUME IInv, NEW p \in Proc, TxCommit(p)
  PROVE  IInv'
<1>0. TypeOK /\ UNCHANGED <<redis, record>> /\ Goto(p, NoFlight)
      /\ userVersion' = userVersion + 1 /\ password' \in Nat
  BY DEF IInv, TypeOK, TxCommit, Finish
<1>1. /\ session' = [id \in Token |-> IF id \in flight[p].hitApp
                                      THEN [session[id] EXCEPT !.status = "revoked"]
                                      ELSE session[id]]
      /\ sso' = [id \in Token |-> IF id \in flight[p].hitSso
                                  THEN [sso[id] EXCEPT !.status = "revoked"] ELSE sso[id]]
  BY DEF TxCommit
<1>2. session' \in [Token -> SessionRow]
  BY SMTT(60), <1>0, <1>1 DEF TypeOK, SessionRow
<1>3. sso' \in [Token -> SsoRow]
  BY <1>0, <1>1 DEF TypeOK, SsoRow
<1>4. TypeOK'
  BY <1>0, <1>2, <1>3, NoFlightType DEF TypeOK, Goto, redis, record
<1>7. /\ \A id \in flight[p].hitSso : sso[id].status # "none"
      /\ \A id \in flight[p].hitApp : session[id].status # "none"
  BY DEF IInv, FlightOK
<1>5. \A id \in Token :
         /\ session[id].status = "none" => session'[id].status = "none"
         /\ session[id].status # "none" => session'[id].status # "none"
         /\ session'[id].tok = session[id].tok
         /\ session'[id].ver = session[id].ver
         /\ session'[id].slot = session[id].slot
  BY <1>0, <1>1, <1>7 DEF TypeOK, SessionRow
<1>6. \A id \in Token :
         /\ sso[id].status = "none" => sso'[id].status = "none"
         /\ sso[id].status # "none" => sso'[id].status # "none"
         /\ sso'[id].ver = sso[id].ver
  BY <1>0, <1>1, <1>7 DEF TypeOK, SsoRow
<1> QED
  BY <1>0, <1>4, <1>5, <1>6, NoFlightType, NoFlightOK, RevokeStep DEF TypeOK

-----------------------------------------------------------------------------
(* The environment                                                         *)

LEMMA CrashStep ==
  ASSUME IInv, NEW p \in Proc, Crash(p)
  PROVE  IInv'
  BY FinishStep DEF Crash

LEMMA ForgetStep ==
  ASSUME IInv, NEW t \in Token, LockExpire(t) \/ GraceExpire(t)
  PROVE  IInv'
<1>1. Quiet /\ UNCHANGED flight
  BY DEF Quiet, LockExpire, GraceExpire, IInv, TypeOK, OptToken, Fault, record
<1> QED
  BY <1>1, QuietStep

LEMMA ExpiryStep ==
  ASSUME IInv, NEW t \in Token, ExpireSession(t) \/ ExpireSso(t)
  PROVE  IInv'
<1>0. TypeOK /\ UNCHANGED <<userVersion, password, redis, flight, issued, handed>> /\ faults' \in Nat
  BY DEF IInv, TypeOK, ExpireSession, ExpireSso, Fault
<1>1. session' \in [Token -> SessionRow] /\ sso' \in [Token -> SsoRow]
  <2>1. CASE ExpireSession(t)
    BY ZenonT(60), <1>0, <2>1 DEF ExpireSession, TypeOK, SessionRow
  <2>2. CASE ExpireSso(t)
    BY ZenonT(60), <1>0, <2>2 DEF ExpireSso, TypeOK, SsoRow
  <2> QED
    BY <2>1, <2>2
<1>2. TypeOK'
  BY <1>0, <1>1 DEF TypeOK, redis
<1>3. \A id \in Token :
         /\ session'[id].status = session[id].status /\ session'[id].tok = session[id].tok
         /\ session'[id].ver = session[id].ver /\ session'[id].slot = session[id].slot
         /\ sso'[id].status = sso[id].status /\ sso'[id].ver = sso[id].ver
  <2>0. session \in [Token -> SessionRow] /\ sso \in [Token -> SsoRow]
    BY <1>0 DEF TypeOK
  <2>1. CASE ExpireSession(t)
    <3>1. session' = [session EXCEPT ![t].expired = TRUE] /\ sso' = sso
      BY <2>1 DEF ExpireSession
    <3>2. TAKE id \in Token
    <3>3. session[id] \in SessionRow
      BY <2>0
    <3>4. CASE id = t
      <4>1. session'[id] = [session[id] EXCEPT !.expired = TRUE]
        BY <2>0, <3>1, <3>4
      <4> QED
        BY <3>1, <3>3, <4>1 DEF SessionRow
    <3>5. CASE id # t
      BY <2>0, <3>1, <3>5
    <3> QED
      BY <3>4, <3>5
  <2>2. CASE ExpireSso(t)
    <3>1. sso' = [sso EXCEPT ![t].expired = TRUE] /\ session' = session
      BY <2>2 DEF ExpireSso
    <3>2. TAKE id \in Token
    <3>3. sso[id] \in SsoRow
      BY <2>0
    <3>4. CASE id = t
      <4>1. sso'[id] = [sso[id] EXCEPT !.expired = TRUE]
        BY <2>0, <3>1, <3>4
      <4> QED
        BY <3>1, <3>3, <4>1 DEF SsoRow
    <3>5. CASE id # t
      BY <2>0, <3>1, <3>5
    <3> QED
      BY <3>4, <3>5
  <2> QED
    BY <2>1, <2>2
<1>4. Keeps
  BY <1>0, <1>3 DEF Keeps, TypeOK
<1>5. TokensOK' /\ HandedOK' /\ RowsOK' /\ DeviceOK'
  BY <1>0, <1>3 DEF IInv, TokensOK, HandedOK, RowsOK, RowAgrees, DeviceOK, Minted, Handed, redis
<1> QED
  BY <1>0, <1>2, <1>4, <1>5, DataStep

-----------------------------------------------------------------------------
(* The theorems                                                            *)

LEMMA InitOK == Init => IInv
<1> SUFFICES ASSUME Init PROVE IInv
  OBVIOUS
<1>1. TypeOK
  <2>1. NoSso \in SsoRow /\ NoSession \in SessionRow /\ NotIssued \in IssueRow
    BY DEF NoSso, NoSession, NotIssued, SsoRow, SessionRow, IssueRow, OptToken
  <2> QED
    BY <2>1, NoFlightType DEF Init, TypeOK, OptToken
<1>2. TokensOK /\ HandedOK /\ DeviceOK
  BY DEF Init, TokensOK, HandedOK, DeviceOK, Minted, Handed, NotIssued
<1>3. RowsOK
  BY DEF Init, RowsOK, NoSession, NoSso
<1>4. \A p \in Proc : FlightOK(flight[p])
  BY <1>1, NoFlightOK DEF Init
<1> QED
  BY <1>1, <1>2, <1>3, <1>4 DEF IInv

LEMMA NextOK == IInv /\ [Next]_vars => IInv'
<1> SUFFICES ASSUME IInv, [Next]_vars PROVE IInv'
  OBVIOUS
<1>1. ASSUME NEW p \in Proc, LoginNext(p) PROVE IInv'
  BY <1>1, LoginReadIdentityStep, LoginReadUserStep, ExchangeReadSsoStep, ExchangeReadUserStep,
     IssueStep, PersistStep, TouchStep, RespondStep DEF LoginNext
<1>2. ASSUME NEW p \in Proc, RefreshNext(p) PROVE IInv'
  BY <1>2, RefreshStartStep, TryLockStep, TryLockBusyStep, RefreshWaitStep, RefreshFindStep,
     RefreshGraceStep, RefreshReadUserStep, RefreshReadSsoStep, RotateCheckStep,
     RotateWriteStep, SaveGraceStep, UnLockStep DEF RefreshNext
<1>3. ASSUME NEW p \in Proc, FailNext(p) PROVE IInv'
  BY <1>3, StoreFailsStep, CleanGetStep, CleanDelStep, CrashStep DEF FailNext
<1>4. ASSUME NEW p \in Proc, LogoutNext(p) PROVE IInv'
  BY <1>4, LogoutBeginStep, LogoutGetStep, LogoutDelStep, LogoutFindStep, LogoutRevokeStep
     DEF LogoutNext
<1>5. ASSUME NEW p \in Proc, TxNext(p) PROVE IInv'
  BY <1>5, TxStepsOK, TxCommitStep DEF TxNext
<1>6. CASE Expiry
  BY <1>6, ForgetStep, ExpiryStep DEF Expiry
<1>7. CASE UNCHANGED vars
  <2>1. Quiet /\ UNCHANGED flight
    BY <1>7 DEF Quiet, IInv, TypeOK, vars, redis, record
  <2> QED
    BY <2>1, QuietStep
<1> QED
  BY <1>1, <1>2, <1>3, <1>4, <1>5, <1>6, <1>7 DEF Next

\* Every reachable state satisfies the inductive invariant.
THEOREM Invariance == Spec => []IInv
  BY InitOK, NextOK, PTL DEF Spec

\* Every variable of the session core keeps its type.
THEOREM TypeCorrect == Spec => []TypeOK
<1>1. IInv => TypeOK
  BY DEF IInv
<1> QED
  BY <1>1, Invariance, PTL

\* However RefreshToken and ExchangeSSO interleave with LogoutAllSessions and
\* ChangePassword, nothing handed out before the version bump buys a pair that
\* is good after it: a derived token is no younger than its credential, and no
\* credential is younger than the current version.
THEOREM RevocationIsFinal == Spec => []LogoutAllIsFinal
<1>1. IInv => LogoutAllIsFinal
  <2> SUFFICES ASSUME IInv, NEW t \in Token, issued[t].op \in {"sso", "refresh"},
                      issued[t].ver = userVersion
               PROVE  issued[t].cred = userVersion
    BY DEF LogoutAllIsFinal
  <2>1. issued[t].ver <= issued[t].cred /\ issued[t].cred <= userVersion
    BY DEF IInv, TokensOK, Minted
  <2>2. issued[t].cred \in Nat /\ userVersion \in Nat
    BY DEF IInv, TypeOK, IssueRow
  <2> QED
    BY <2>1, <2>2
<1> QED
  BY <1>1, Invariance, PTL

\* Logout "does not affect the user's other devices": through every race of the
\* Redis field with the rows, the row it revokes has the field it was asked for.
THEOREM LogoutIsLocal == Spec => []LogoutHitsItsDevice
<1>1. IInv => LogoutHitsItsDevice
  BY DEF IInv, FlightOK, LogoutHitsItsDevice, At
<1> QED
  BY <1>1, Invariance, PTL

-----------------------------------------------------------------------------
(* A refresh token is spent once                                           *)

\* Holds, of the state of a handler.
HoldsF(f, t) ==
    /\ f.op = "refresh" /\ f.tok = t
    /\ f.pc \in LockedSteps \cup {"issue", "touch", "clean_get", "clean_del"}

\* The lock of a token has at most one holder, if no handler outlives its lock.
Exclusive == ~SlowHandlers =>
    \A p \in Proc, t \in Token :
        HoldsF(flight[p], t) => /\ t \in lock
                                /\ \A q \in Proc : HoldsF(flight[q], t) => q = p

\* An answer with this token is on its way to a client.
AnswersF(f, u) == f.res = u \/ (f.pc \in {"touch", "save_grace"} /\ f.new = u)

\* A client has the token, may still get it, or could refresh with it.
Alive(u) ==
    \/ Handed(u)
    \/ \E p \in Proc : AnswersF(flight[p], u)
    \/ \E t \in Token : grace[t] = u
    \/ \E id \in Token : session[id].status # "none" /\ session[id].tok = u

\* A token that is issued, and not yet stored in a row.
Pending(f) == f.pc \in {"persist", "rot_check", "rot_write"}
PendingOK(f) ==
    Pending(f) =>
        /\ f.new \in Token /\ session[f.new].status = "none" /\ ~Alive(f.new)
        /\ f.pc = "persist" => issued[f.new].op \in {"login", "sso"}
        /\ f.pc # "persist" => issued[f.new].op = "refresh" /\ issued[f.new].from = f.tok

\* A handler that is going to rotate the row it found for its token.
Rotating(f) ==
    f.op = "refresh" /\ f.pc \in {"ref_user", "ref_sso", "issue", "rot_check", "rot_write"}
RotatingOK(f) ==
    Rotating(f) /\ ~SlowHandlers =>
        /\ f.tok \in Token /\ Handed(f.tok)
        /\ f.row \in Token /\ session[f.row].status # "none" /\ session[f.row].tok = f.tok

FlightsOK ==
    /\ \A p \in Proc : PendingOK(flight[p]) /\ RotatingOK(flight[p])
    /\ \A p, q \in Proc : Pending(flight[p]) /\ Pending(flight[q])
                          /\ flight[p].new = flight[q].new => p = q

\* No two rows hold the same token.
RowsDiffer ==
    \A i, j \in Token :
        session[i].status # "none" /\ session[j].status # "none" /\ session[i].tok = session[j].tok
            => i = j

\* Once the successor of a token is in use, no row holds the token any more, and
\* it has no second successor.
SpentOnce == ~SlowHandlers =>
    \A u \in Token : issued[u].op = "refresh" =>
        /\ issued[u].from \in Token /\ Handed(issued[u].from)
        /\ Alive(u) => /\ \A id \in Token : session[id].status # "none" =>
                             session[id].tok # issued[u].from
                       /\ \A t \in Token : issued[t].op = "refresh" /\ Alive(t)
                             /\ issued[t].from = issued[u].from => t = u

Succession == FlightsOK /\ RowsDiffer /\ SpentOnce

-----------------------------------------------------------------------------
(* Handover: steps that bring no token to life                            *)

\* The steps that issue no token and store none: tokens do not come to life.
Calm ==
    /\ issued' = issued
    /\ \A id \in Token : /\ session'[id].status = "none" <=> session[id].status = "none"
                         /\ session'[id].tok = session[id].tok
    /\ \A t \in Token : /\ Handed(t) => Handed(t)'
                        /\ Handed(t)' => Alive(t)
                        /\ grace'[t] # None => Alive(grace'[t])

\* Such a step takes a handler from f to g.
CalmFlight(f, g) ==
    /\ Pending(g) => /\ Pending(f) /\ g.new = f.new /\ g.tok = f.tok
                     /\ g.pc = "persist" <=> f.pc = "persist"
    /\ RotatingOK(g)
    /\ \A u \in Token : AnswersF(g, u) => Alive(u)

\* So a token that is alive after it was alive before.
LEMMA CalmAlive ==
  ASSUME IInv, Calm,
         \/ UNCHANGED flight
         \/ \E p \in Proc, g \in Flight : Goto(p, g) /\ CalmFlight(flight[p], g),
         NEW u \in Token, Alive(u)'
  PROVE  Alive(u)
<1>1. CASE Handed(u)'
  BY <1>1 DEF Calm
<1>2. ASSUME NEW q \in Proc, AnswersF(flight[q], u)'
      PROVE  Alive(u)
  <2>1. CASE UNCHANGED flight
    BY <1>2, <2>1 DEF AnswersF, Alive
  <2>2. ASSUME NEW p \in Proc, NEW g \in Flight, Goto(p, g), CalmFlight(flight[p], g)
        PROVE  Alive(u)
    <3>1. flight' = [flight EXCEPT ![p] = g] /\ flight \in [Proc -> Flight]
      BY <2>2 DEF Goto, IInv, TypeOK
    <3>2. CASE q = p
      <4>1. AnswersF(g, u)
        BY <1>2, <3>1, <3>2 DEF AnswersF
      <4> QED
        BY <2>2, <4>1 DEF CalmFlight
    <3>3. CASE q # p
      <4>1. AnswersF(flight[q], u)
        BY <1>2, <3>1, <3>3 DEF AnswersF
      <4> QED
        BY <4>1 DEF Alive
    <3> QED
      BY <3>2, <3>3
  <2> QED
    BY <2>1, <2>2
<1>3. ASSUME NEW t \in Token, grace'[t] = u
      PROVE  Alive(u)
  BY <1>3, NoneAssumption DEF Calm
<1>4. ASSUME NEW id \in Token, session'[id].status # "none", session'[id].tok = u
      PROVE  Alive(u)
  BY <1>4 DEF Calm, Alive
<1> QED
  BY <1>1, <1>2, <1>3, <1>4 DEF Alive

\* It keeps what is known of the successors.
LEMMA CalmStep ==
  ASSUME IInv, Succession, Calm,
         \/ UNCHANGED flight
         \/ \E p \in Proc, g \in Flight : Goto(p, g) /\ CalmFlight(flight[p], g)
  PROVE  Succession'
<1>1. \A u \in Token : Alive(u)' => Alive(u)
  BY CalmAlive
<1>2. \A g : PendingOK(g) => PendingOK(g)'
  BY <1>1 DEF PendingOK, Pending, Calm
<1>3. \A g : RotatingOK(g) => RotatingOK(g)'
  BY DEF RotatingOK, Rotating, Calm
<1>4. FlightsOK'
  <2>1. CASE UNCHANGED flight
    BY <1>2, <1>3, <2>1 DEF Succession, FlightsOK, Pending
  <2>2. ASSUME NEW p \in Proc, NEW g \in Flight, Goto(p, g), CalmFlight(flight[p], g)
        PROVE  FlightsOK'
    <3>1. flight' = [flight EXCEPT ![p] = g] /\ flight \in [Proc -> Flight]
      BY <2>2 DEF Goto, IInv, TypeOK
    <3>2. PendingOK(g) /\ RotatingOK(g)
      BY <2>2 DEF CalmFlight, Succession, FlightsOK, PendingOK, Pending
    <3>3. \A q \in Proc : (PendingOK(flight[q]) /\ RotatingOK(flight[q]))'
      <4> SUFFICES ASSUME NEW q \in Proc
                   PROVE  (PendingOK(flight[q]) /\ RotatingOK(flight[q]))'
        OBVIOUS
      <4>1. PICK h \in Flight : h = flight'[q] /\ (h = g \/ h = flight[q])
        BY <3>1
      <4>2. PendingOK(h) /\ RotatingOK(h)
        BY <3>2, <4>1 DEF Succession, FlightsOK
      <4>3. PendingOK(h)' /\ RotatingOK(h)'
        BY <1>2, <1>3, <4>2
      <4> QED
        BY <4>1, <4>3 DEF PendingOK, RotatingOK, Pending, Rotating
    <3>4. \A q \in Proc : Pending(flight'[q]) => Pending(flight[q]) /\ flight'[q].new = flight[q].new
      BY <2>2, <3>1 DEF CalmFlight
    <3> QED
      BY <3>3, <3>4 DEF Succession, FlightsOK, Pending
  <2> QED
    BY <2>1, <2>2
<1>5. RowsDiffer'
  BY DEF Succession, RowsDiffer, Calm
<1>6. SpentOnce'
  BY <1>1 DEF Succession, SpentOnce, Calm
<1> QED
  BY <1>4, <1>5, <1>6 DEF Succession

\* The second inductive invariant.
Handover == Exclusive /\ Succession

\* A step that writes nothing of it is calm.
LEMMA CalmReads ==
  ASSUME UNCHANGED <<session, grace, issued, handed>>
  PROVE  Calm
  BY DEF Calm, Alive, Handed

\* Nobody takes a lock, and none is given back.
LEMMA ExclusiveKept ==
  ASSUME IInv, TypeOK', Exclusive, lock' = lock, NEW p \in Proc, NEW g, Goto(p, g),
         \A t \in Token : HoldsF(g, t) => HoldsF(flight[p], t)
  PROVE  Exclusive'
<1>1. flight' = [flight EXCEPT ![p] = g] /\ flight \in [Proc -> Flight]
  BY DEF Goto, IInv, TypeOK
<1>2. \A q \in Proc, t \in Token : HoldsF(flight'[q], t) => HoldsF(flight[q], t)
  BY <1>1
<1> QED
  BY <1>2 DEF Exclusive, HoldsF

\* Both: the lock stays with its holder, the tokens with theirs.
LEMMA CalmMove ==
  ASSUME IInv, TypeOK', Handover, Calm, lock' = lock, NEW p \in Proc, NEW g, Goto(p, g),
         CalmFlight(flight[p], g), \A t \in Token : HoldsF(g, t) => HoldsF(flight[p], t)
  PROVE  Handover'
<1>1. g \in Flight
  <2>1. flight' = [flight EXCEPT ![p] = g] /\ flight \in [Proc -> Flight]
    BY DEF Goto, IInv, TypeOK
  <2>2. flight'[p] \in Flight
    BY DEF TypeOK
  <2> QED
    BY <2>1, <2>2
<1>2. Succession'
  BY <1>1, CalmStep DEF Handover
<1>3. Exclusive'
  BY ExclusiveKept DEF Handover
<1> QED
  BY <1>2, <1>3 DEF Handover

\* The handler does not refresh, or not yet, or no longer.
Outside(g) ==
    /\ g.pc \notin {"persist", "rot_check", "rot_write", "touch", "save_grace"}
    /\ g.op = "refresh" => g.pc \in {"respond", "ref_lock", "ref_wait", "out_del", "out_find",
                                     "out_revoke", "tx_app", "tx_commit"}

\* It can then only answer with a token that is alive.
LEMMA OutsideStep ==
  ASSUME IInv, TypeOK', Handover, Calm, lock' = lock, NEW p \in Proc, NEW g, Goto(p, g),
         Outside(g), g.res # None => Alive(g.res)
  PROVE  Handover'
<1>1. CalmFlight(flight[p], g)
  BY NoneAssumption DEF CalmFlight, Outside, Pending, Rotating, RotatingOK, AnswersF
<1>2. \A t \in Token : ~HoldsF(g, t)
  BY DEF Outside, HoldsF, LockedSteps
<1> QED
  BY <1>1, <1>2, CalmMove

\* The handler goes on with its refresh, under the lock it holds.
LEMMA InsideStep ==
  ASSUME IInv, TypeOK', Handover, Calm, lock' = lock, NEW p \in Proc, NEW g, Goto(p, g),
         g.op = "refresh", g.tok = flight[p].tok, g.new = flight[p].new, g.row = flight[p].row,
         HoldsF(flight[p], flight[p].tok), g.pc # "persist",
         Pending(g) => Pending(flight[p]), Rotating(g) => Rotating(flight[p]),
         g.pc \in {"touch", "save_grace"} => Alive(g.new), g.res # None => Alive(g.res)
  PROVE  Handover'
<1>1. flight[p].pc # "persist"
  BY DEF HoldsF, LockedSteps
<1>2. RotatingOK(g)
  BY DEF RotatingOK, Handover, Succession, FlightsOK
<1>3. CalmFlight(flight[p], g)
  BY <1>1, <1>2, NoneAssumption DEF CalmFlight, AnswersF
<1>4. \A t \in Token : HoldsF(g, t) => HoldsF(flight[p], t)
  BY DEF HoldsF
<1> QED
  BY <1>3, <1>4, CalmMove

\* What a handler or the grace period answers with is alive.
LEMMA AnswersAlive ==
  ASSUME NEW p \in Proc
  PROVE  /\ flight[p].res # None => Alive(flight[p].res)
         /\ flight[p].pc \in {"touch", "save_grace"} => Alive(flight[p].new)
         /\ \A t \in Token : grace[t] # None => Alive(grace[t])
  BY DEF Alive, AnswersF

-----------------------------------------------------------------------------
(* Handover: Login and ExchangeSSO                                        *)

\* Neither takes a lock or touches a row.
LEMMA LoginHandover ==
  ASSUME IInv, TypeOK', Handover, NEW p \in Proc, NEW s, NEW id,
         \/ LoginReadIdentity(p, s) \/ LoginReadUser(p)
         \/ ExchangeReadSso(p, id, s) \/ ExchangeReadUser(p)
  PROVE  Handover'
<1>0. flight[p] \in Flight /\ FlightOK(flight[p])
  BY DEF IInv, TypeOK
<1>1. Calm /\ lock' = lock
  BY CalmReads DEF LoginReadIdentity, LoginReadUser, ExchangeReadSso, ExchangeReadUser,
                   db, redis, record
<1>2. CASE LoginReadIdentity(p, s)
  <2> DEFINE g == [NoFlight EXCEPT !.op = "login", !.pc = "login_user", !.slot = s,
                                   !.cred = userVersion, !.pw = password]
  <2>1. Goto(p, g) /\ Outside(g) /\ g.res = None
    BY <1>2 DEF LoginReadIdentity, NoFlight, Outside
  <2> QED
    BY <1>1, <2>1, OutsideStep
<1>3. CASE LoginReadUser(p)
  <2> DEFINE g == [flight[p] EXCEPT !.pc = "issue", !.ver = userVersion]
  <2>1. Goto(p, g) /\ Outside(g) /\ g.res = flight[p].res
    BY <1>0, <1>3 DEF LoginReadUser, At, FlightOK, Flight, Outside
  <2> QED
    BY <1>1, <2>1, AnswersAlive, OutsideStep
<1>4. CASE ExchangeReadSso(p, id, s)
  <2> DEFINE g == [NoFlight EXCEPT !.op = "sso", !.pc = "exch_user", !.slot = s, !.parent = id,
                                   !.ver = sso[id].ver, !.cred = handed[id]]
  <2>1. Goto(p, g) /\ Outside(g) /\ g.res = None
    BY <1>4 DEF ExchangeReadSso, NoFlight, Outside
  <2> QED
    BY <1>1, <2>1, OutsideStep
<1>5. CASE ExchangeReadUser(p)
  <2> DEFINE g == [flight[p] EXCEPT !.pc = "issue", !.ver = userVersion]
  <2>1. Outside(g) /\ g.res = flight[p].res
    BY <1>0, <1>5 DEF ExchangeReadUser, At, FlightOK, Flight, Outside
  <2>2. Outside(NoFlight) /\ NoFlight.res = None
    BY DEF NoFlight, Outside
  <2>3. Goto(p, g) \/ Goto(p, NoFlight)
    BY <1>5 DEF ExchangeReadUser, Finish
  <2> QED
    BY <1>1, <2>1, <2>2, <2>3, AnswersAlive, OutsideStep
<1> QED
  BY <1>2, <1>3, <1>4, <1>5

\* The answer that goes out was on its way.
LEMMA AnswerHandover ==
  ASSUME IInv, TypeOK', Handover, NEW p \in Proc, Respond(p) \/ Touch(p)
  PROVE  Handover'
<1>0. flight[p] \in Flight /\ FlightOK(flight[p])
  BY DEF IInv, TypeOK
<1>1. CASE Respond(p)
  <2>1. Goto(p, NoFlight) /\ Outside(NoFlight) /\ NoFlight.res = None
    BY <1>1 DEF Respond, Finish, NoFlight, Outside
  <2>2. UNCHANGED <<session, grace, issued, lock>>
    BY <1>1 DEF Respond, db, redis
  <2>3. \A t \in Token : handed'[t] # handed[t] => t = flight[p].res /\ ~Handed(t) /\ t # None
    BY <1>1, NoneAssumption DEF Respond, IInv, TypeOK, Handed
  <2>4. Calm
    BY <2>2, <2>3, AnswersAlive DEF Calm, Handed, Alive
  <2> QED
    BY <2>1, <2>2, <2>4, OutsideStep
<1>2. CASE Touch(p)
  <2>1. Calm /\ lock' = lock
    BY <1>2, CalmReads DEF Touch, db, redis, record
  <2>2. flight[p].pc = "touch"
    BY <1>2 DEF Touch, At
  <2>3. CASE flight[p].op = "refresh"
    <3> DEFINE g == [flight[p] EXCEPT !.pc = "save_grace"]
    <3>1. Goto(p, g)
      BY <1>2, <2>3 DEF Touch
    <3>2. /\ g.pc = "save_grace" /\ g.op = "refresh" /\ g.res = flight[p].res
          /\ g.tok = flight[p].tok /\ g.new = flight[p].new /\ g.row = flight[p].row
      BY <1>0, <2>3 DEF Flight
    <3>3. HoldsF(flight[p], flight[p].tok) /\ ~Pending(g) /\ ~Rotating(g)
      BY <2>2, <2>3, <3>2 DEF HoldsF, Pending, Rotating
    <3> HIDE DEF g
    <3> QED
      BY <2>1, <2>2, <3>1, <3>2, <3>3, AnswersAlive, InsideStep
  <2>4. CASE flight[p].op # "refresh"
    <3> DEFINE g == [flight[p] EXCEPT !.pc = "respond", !.res = flight[p].new]
    <3>1. Goto(p, g)
      BY <1>2, <2>4 DEF Touch
    <3>2. g.res = flight[p].new /\ Outside(g)
      BY <1>0, <2>4 DEF Flight, Outside
    <3> QED
      BY <2>1, <2>2, <3>1, <3>2, AnswersAlive, OutsideStep
  <2> QED
    BY <2>3, <2>4
<1> QED
  BY <1>1, <1>2

\* The new token comes from nowhere: nobody has it, no row holds it.
LEMMA IssueHandover ==
  ASSUME IInv, TypeOK', Handover, NEW p \in Proc, Issue(p)
  PROVE  Handover'
<1> PICK f \in Flight : f = flight[p]
  BY DEF IInv, TypeOK
<1>0. FlightOK(f) /\ f.pc = "issue" /\ f.op \in {"login", "sso", "refresh"} /\ TypeOK
  BY DEF IInv, Issue, At, FlightOK
<1> PICK t \in Token :
      /\ issued[t].op = "none"
      /\ issued' = [issued EXCEPT ![t] =
            [op |-> f.op, slot |-> f.slot,
             from |-> IF f.op = "refresh" THEN f.tok ELSE f.parent,
             ver |-> f.ver, cred |-> f.cred, pw |-> f.pw]]
      /\ Goto(p, [f EXCEPT !.pc = IF f.op = "refresh" THEN "rot_check" ELSE "persist",
                            !.new = t])
  BY DEF Issue
<1>1. PICK g : /\ Goto(p, g) /\ g.new = t /\ g.tok = f.tok /\ g.op = f.op /\ g.res = f.res
               /\ g.row = f.row /\ g.pc = IF f.op = "refresh" THEN "rot_check" ELSE "persist"
  <2> DEFINE h == [f EXCEPT !.pc = IF f.op = "refresh" THEN "rot_check" ELSE "persist", !.new = t]
  <2>1. Goto(p, h)
    OBVIOUS
  <2>2. /\ h.new = t /\ h.tok = f.tok /\ h.op = f.op /\ h.res = f.res /\ h.row = f.row
        /\ h.pc = IF f.op = "refresh" THEN "rot_check" ELSE "persist"
    BY DEF Flight
  <2> HIDE DEF h
  <2> QED
    BY <2>1, <2>2
<1>2. flight' = [flight EXCEPT ![p] = g] /\ flight \in [Proc -> Flight]
  BY <1>0, <1>1 DEF Goto, TypeOK
<1>3. UNCHANGED <<session, lock, grace, handed>>
  BY DEF Issue, db
<1>4. \A u : Alive(u) /\ u \in Token => Minted(u)
  BY NoneAssumption DEF Alive, AnswersF, IInv, HandedOK, FlightOK, RowsOK, RowAgrees
<1>5. ~Alive(t) /\ session[t].status = "none"
  BY <1>4 DEF Minted, IInv, RowsOK, RowAgrees
<1>6. \A u : Alive(u)' => Alive(u)
  BY <1>0, <1>1, <1>2, <1>3 DEF Alive, AnswersF, Handed
<1>7. /\ issued'[t].op = f.op
      /\ f.op = "refresh" => issued'[t].from = f.tok
      /\ \A u \in Token : u # t => issued'[u] = issued[u]
  BY <1>0 DEF TypeOK
<1>8. f.op = "refresh" /\ ~SlowHandlers => f.tok \in Token /\ Handed(f.tok) /\ RotatingOK(f)
  BY <1>0 DEF Handover, Succession, FlightsOK, RotatingOK, Rotating
<1>9. \A q \in Proc : Pending(flight[q]) => Minted(flight[q].new) /\ flight[q].new # t
  BY DEF IInv, FlightOK, Pending, Minted
<1>10. FlightsOK'
  <2>1. \A q \in Proc : PendingOK(flight[q])'
    <3>1. PendingOK(flight[p])'
      BY <1>0, <1>1, <1>2, <1>3, <1>5, <1>6, <1>7 DEF PendingOK, Pending
    <3>2. ASSUME NEW q \in Proc, q # p PROVE PendingOK(flight[q])'
      BY <1>2, <1>3, <1>6, <1>7, <1>9, <3>2 DEF PendingOK, Pending, Handover, Succession, FlightsOK
    <3> QED
      BY <3>1, <3>2
  <2>2. \A q \in Proc : RotatingOK(flight[q])'
    <3>1. RotatingOK(flight[p])'
      BY <1>0, <1>1, <1>2, <1>3, <1>8 DEF RotatingOK, Rotating, Handed
    <3>2. ASSUME NEW q \in Proc, q # p PROVE RotatingOK(flight[q])'
      BY <1>2, <1>3, <3>2 DEF RotatingOK, Rotating, Handed, Handover, Succession, FlightsOK
    <3> QED
      BY <3>1, <3>2
  <2>3. \A q, r \in Proc : (Pending(flight[q]) /\ Pending(flight[r])
                             /\ flight[q].new = flight[r].new)' => q = r
    BY <1>1, <1>2, <1>9 DEF Pending, Handover, Succession, FlightsOK
  <2> QED
    BY <2>1, <2>2, <2>3 DEF FlightsOK
<1>11. RowsDiffer'
  BY <1>3 DEF RowsDiffer, Handover, Succession
<1>12. SpentOnce'
  BY <1>3, <1>5, <1>6, <1>7, <1>8 DEF SpentOnce, Handed, Handover, Succession
<1>13. Exclusive'
  <2>1. \A u \in Token : HoldsF(g, u) => HoldsF(flight[p], u)
    BY <1>0, <1>1 DEF HoldsF, LockedSteps
  <2> QED
    BY <1>1, <1>3, <2>1, ExclusiveKept DEF Handover
<1> QED
  BY <1>10, <1>11, <1>12, <1>13 DEF Handover, Succession

\* A token comes to life when a row takes it: no other flight was about to store
\* it, and no row held it.
LEMMA StoreKept ==
  ASSUME IInv, TypeOK', Handover, NEW p \in Proc, NEW f, f = flight[p], Pending(f),
         UNCHANGED <<issued, grace, handed, lock>>,
         NEW g, Goto(p, g), ~Pending(g), ~Rotating(g), AnswersF(g, f.new),
         \A u \in Token : AnswersF(g, u) => u = f.new \/ Alive(u),
         NEW i \in Token, i = f.new \/ session[i].status # "none",
         session'[i].status # "none", session'[i].tok = f.new,
         \A id \in Token : id # i => /\ session'[id].status = session[id].status
                                     /\ session'[id].tok = session[id].tok
  PROVE  /\ \A u \in Token : Alive(u)' => Alive(u) \/ u = f.new
         /\ RowsDiffer'
         /\ \A q \in Proc : PendingOK(flight[q])'
         /\ \A q, r \in Proc : (Pending(flight[q]) /\ Pending(flight[r])
                               /\ flight[q].new = flight[r].new)' => q = r
<1>1. flight' = [flight EXCEPT ![p] = g] /\ flight \in [Proc -> Flight]
  BY DEF Goto, IInv, TypeOK
<1>2. f.new \in Token /\ ~Alive(f.new)
  BY DEF Handover, Succession, FlightsOK, PendingOK
<1>3. \A u \in Token : Alive(u)' => Alive(u) \/ u = f.new
  BY <1>1 DEF Alive, AnswersF, Handed
<1>4. RowsDiffer'
  BY <1>2 DEF RowsDiffer, Alive, Handover, Succession
<1>5. \A q, r \in Proc : (Pending(flight[q]) /\ Pending(flight[r])
                           /\ flight[q].new = flight[r].new)' => q = r
  BY <1>1 DEF Pending, Handover, Succession, FlightsOK
<1>6. ASSUME NEW q \in Proc PROVE PendingOK(flight[q])'
  <2>1. CASE q = p
    BY <1>1, <2>1 DEF PendingOK, Pending
  <2>2. CASE q # p /\ Pending(flight[q])
    <3>1. flight'[q] = flight[q]
      BY <1>1, <2>2
    <3>2. flight[q].new # f.new
      BY <2>2 DEF Handover, Succession, FlightsOK
    <3>3. PendingOK(flight[q])
      BY DEF Handover, Succession, FlightsOK
    <3>4. ~Alive(flight[q].new)' /\ session'[flight[q].new].status = "none"
      BY <1>3, <2>2, <3>1, <3>2, <3>3 DEF PendingOK
    <3> QED
      BY <2>2, <3>1, <3>3, <3>4 DEF PendingOK, Pending
  <2>3. CASE q # p /\ ~Pending(flight[q])
    BY <1>1, <2>3 DEF PendingOK, Pending
  <2> QED
    BY <2>1, <2>2, <2>3
<1> QED
  BY <1>3, <1>4, <1>5, <1>6

\* A token that opens a session has no predecessor.
LEMMA PersistHandover ==
  ASSUME IInv, TypeOK', Handover, NEW p \in Proc, Persist(p)
  PROVE  Handover'
<1> PICK f \in Flight : f = flight[p]
  BY DEF IInv, TypeOK
<1>0. FlightOK(f) /\ f.pc = "persist" /\ f.op \in {"login", "sso"} /\ f.new \in Token
      /\ f.new \in Token /\ TypeOK
  BY DEF IInv, Persist, At, FlightOK, Minted
<1>1. PICK g : /\ Goto(p, g) /\ g.new = f.new /\ g.op = f.op
               /\ g.pc = IF f.op = "login" THEN "respond" ELSE "touch"
               /\ g.res \in {None, f.new}
               /\ f.op = "login" => g.res = f.new
  <2> DEFINE h == [f EXCEPT !.pc = IF f.op = "login" THEN "respond" ELSE "touch",
                            !.parent = IF f.op = "login" THEN f.new ELSE f.parent,
                            !.res = IF f.op = "login" THEN f.new ELSE None]
  <2>1. Goto(p, h)
    BY DEF Persist
  <2>2. /\ h.new = f.new /\ h.op = f.op
        /\ h.pc = IF f.op = "login" THEN "respond" ELSE "touch"
        /\ h.res = IF f.op = "login" THEN f.new ELSE None
    BY DEF Flight
  <2> HIDE DEF h
  <2> QED
    BY <2>1, <2>2
<1>2. UNCHANGED <<issued, grace, handed, lock>>
  BY DEF Persist, redis, record
<1>3. /\ session'[f.new].status = "active" /\ session'[f.new].tok = f.new
      /\ \A id \in Token : id # f.new => session'[id] = session[id]
  BY <1>0 DEF Persist, TypeOK
<1>4. ~Alive(f.new) /\ session[f.new].status = "none" /\ issued[f.new].op # "refresh"
  BY <1>0 DEF Handover, Succession, FlightsOK, PendingOK, Pending
<1>5. /\ ~Pending(g) /\ ~Rotating(g) /\ AnswersF(g, f.new)
      /\ \A u \in Token : AnswersF(g, u) => u = f.new
  BY <1>0, <1>1, NoneAssumption DEF Pending, Rotating, AnswersF
<1>6. /\ \A u \in Token : Alive(u)' => Alive(u) \/ u = f.new
      /\ RowsDiffer'
      /\ \A q \in Proc : PendingOK(flight[q])'
      /\ \A q, r \in Proc : (Pending(flight[q]) /\ Pending(flight[r])
                            /\ flight[q].new = flight[r].new)' => q = r
  <2>1. Pending(f)
    BY <1>0 DEF Pending
  <2>2. \A id \in Token : id # f.new => /\ session'[id].status = session[id].status
                                        /\ session'[id].tok = session[id].tok
    BY <1>3
  <2>3. session'[f.new].status # "none"
    BY <1>3
  <2> QED
    BY <1>0, <1>1, <1>2, <1>3, <1>5, <2>1, <2>2, <2>3, StoreKept
<1>7. ASSUME NEW q \in Proc PROVE RotatingOK(flight[q])'
  <2>1. flight' = [flight EXCEPT ![p] = g] /\ flight \in [Proc -> Flight]
    BY <1>0, <1>1 DEF Goto, TypeOK
  <2>2. CASE q = p
    BY <1>5, <2>1, <2>2 DEF RotatingOK, Rotating
  <2>3. CASE q # p
    <3>1. flight'[q] = flight[q] /\ RotatingOK(flight[q])
      BY <2>1, <2>3 DEF Handover, Succession, FlightsOK
    <3> QED
      BY <1>2, <1>3, <1>4, <3>1 DEF RotatingOK, Rotating, Handed
  <2> QED
    BY <2>2, <2>3
<1>8. SpentOnce'
  BY <1>2, <1>3, <1>4, <1>6 DEF SpentOnce, Handed, Alive, Handover, Succession
<1>9. Exclusive'
  BY <1>0, <1>1, <1>2, ExclusiveKept DEF HoldsF, Handover
<1> QED
  BY <1>6, <1>7, <1>8, <1>9 DEF Handover, Succession, FlightsOK

\* The row moves from the token to its successor.  It was the last row with the
\* token, and nobody else can have rotated it: its rotations exclude each other.
LEMMA RotateHandover ==
  ASSUME IInv, TypeOK', Handover, NEW p \in Proc, RotateWrite(p)
  PROVE  Handover'
<1> PICK f \in Flight : f = flight[p]
  BY DEF IInv, TypeOK
<1>0. FlightOK(f) /\ f.pc = "rot_write" /\ f.op = "refresh" /\ TypeOK
  BY DEF IInv, RotateWrite, At, FlightOK, LockedSteps
<1>1. PICK g : /\ Goto(p, g) /\ g.new = f.new /\ g.op = f.op /\ g.pc = "touch"
               /\ g.res = f.res /\ g.tok = f.tok
  <2> DEFINE h == [f EXCEPT !.pc = "touch"]
  <2>1. Goto(p, h)
    BY DEF RotateWrite
  <2>2. h.new = f.new /\ h.op = f.op /\ h.pc = "touch" /\ h.res = f.res /\ h.tok = f.tok
    BY DEF Flight
  <2> HIDE DEF h
  <2> QED
    BY <2>1, <2>2
<1>2. UNCHANGED <<issued, grace, handed, lock>>
  BY DEF RotateWrite, redis, record
<1>3. f.row \in Token /\ session[f.row].status # "none"
  BY <1>0 DEF FlightOK
<1>3a. ~SlowHandlers => /\ f.tok \in Token /\ Handed(f.tok) /\ Alive(f.tok)
                       /\ session[f.row].tok = f.tok
  BY <1>0 DEF Handover, Succession, FlightsOK, RotatingOK, Rotating, Alive
<1>4. /\ ~Alive(f.new) /\ f.new \in Token
      /\ issued[f.new].op = "refresh" /\ issued[f.new].from = f.tok
  BY <1>0 DEF Handover, Succession, FlightsOK, PendingOK, Pending
<1>5. /\ session'[f.row].status # "none" /\ session'[f.row].tok = f.new
      /\ \A id \in Token : id # f.row => session'[id] = session[id]
  BY <1>0, <1>3 DEF RotateWrite, TypeOK, SessionRow
<1>6. /\ ~Pending(g) /\ ~Rotating(g) /\ AnswersF(g, f.new)
      /\ \A u \in Token : AnswersF(g, u) => u = f.new \/ Alive(u)
  BY <1>0, <1>1 DEF Pending, Rotating, AnswersF, Alive
<1>7. /\ \A u \in Token : Alive(u)' => Alive(u) \/ u = f.new
      /\ RowsDiffer'
      /\ \A q \in Proc : PendingOK(flight[q])'
      /\ \A q, r \in Proc : (Pending(flight[q]) /\ Pending(flight[r])
                            /\ flight[q].new = flight[r].new)' => q = r
  <2>1. Pending(f)
    BY <1>0 DEF Pending
  <2>2. \A id \in Token : id # f.row => /\ session'[id].status = session[id].status
                                        /\ session'[id].tok = session[id].tok
    BY <1>5
  <2> QED
    BY <1>1, <1>2, <1>3, <1>5, <1>6, <2>1, <2>2, StoreKept
<1>8. ASSUME NEW q \in Proc PROVE RotatingOK(flight[q])'
  <2>1. flight' = [flight EXCEPT ![p] = g] /\ flight \in [Proc -> Flight]
    BY <1>0, <1>1 DEF Goto, TypeOK
  <2>2. CASE q = p
    BY <1>6, <2>1, <2>2 DEF RotatingOK, Rotating
  <2>3. CASE q # p /\ Rotating(flight[q]) /\ ~SlowHandlers
    <3>1. flight'[q] = flight[q] /\ RotatingOK(flight[q])
      BY <2>1, <2>3 DEF Handover, Succession, FlightsOK
    <3>2. flight[q].row # f.row
      <4> SUFFICES ASSUME flight[q].row = f.row PROVE FALSE
        OBVIOUS
      <4>1. flight[q].tok = f.tok
        BY <1>3a, <2>3, <3>1 DEF RotatingOK
      <4>2. HoldsF(flight[q], f.tok) /\ HoldsF(flight[p], f.tok)
        BY <1>0, <2>3, <4>1 DEF HoldsF, Rotating, LockedSteps
      <4> QED
        BY <1>3a, <2>3, <4>2 DEF Handover, Exclusive
    <3> QED
      BY <1>2, <1>5, <3>1, <3>2 DEF RotatingOK, Rotating, Handed
  <2>4. CASE q # p /\ ~(Rotating(flight[q]) /\ ~SlowHandlers)
    BY <2>1, <2>4 DEF RotatingOK, Rotating
  <2> QED
    BY <2>2, <2>3, <2>4
<1>9. SpentOnce'
  <2> SUFFICES ASSUME ~SlowHandlers PROVE SpentOnce'
    BY DEF SpentOnce
  <2>1. \A id \in Token : session[id].status # "none" /\ session[id].tok = f.tok => id = f.row
    BY <1>3, <1>3a DEF Handover, Succession, RowsDiffer
  <2>2. \A u \in Token : issued[u].op = "refresh" /\ Alive(u) => issued[u].from # f.tok
    BY <1>3, <1>3a DEF Handover, Succession, SpentOnce
  <2>3. \A u \in Token : issued[u].op = "refresh" => /\ issued[u].from \in Token
                                                     /\ Handed(issued[u].from)
                                                     /\ issued[u].from # f.new
    BY <1>4 DEF Handover, Succession, SpentOnce, Alive
  <2>4. f.tok # f.new
    BY <1>3a, <1>4
  <2>5. ASSUME NEW u \in Token, issued[u].op = "refresh", Alive(u)'
        PROVE  /\ \A id \in Token : session'[id].status # "none" => session'[id].tok # issued[u].from
               /\ \A t \in Token : issued[t].op = "refresh" /\ Alive(t)'
                     /\ issued[t].from = issued[u].from => t = u
    <3>1. CASE u = f.new
      BY <1>4, <1>5, <1>7, <2>1, <2>2, <2>4, <3>1
    <3>2. CASE u # f.new
      <4>1. Alive(u)
        BY <1>7, <2>5, <3>2
      <4> QED
        BY <1>4, <1>5, <1>7, <2>2, <2>3, <2>5, <4>1 DEF Handover, Succession, SpentOnce
    <3> QED
      BY <3>1, <3>2
  <2> QED
    BY <1>2, <2>3, <2>5 DEF SpentOnce, Handed
<1>10. Exclusive'
  <2>1. \A u \in Token : HoldsF(g, u) => HoldsF(flight[p], u)
    BY <1>0, <1>1 DEF HoldsF, LockedSteps
  <2> QED
    BY <1>1, <1>2, <2>1, ExclusiveKept DEF Handover
<1> QED
  BY <1>7, <1>8, <1>9, <1>10 DEF Handover, Succession, FlightsOK

-----------------------------------------------------------------------------
(* Handover: RefreshToken                                                 *)

\* Before it has the lock, or without it, a refresh answers what others are given.
LEMMA RefreshBeginHandover ==
  ASSUME IInv, TypeOK', Handover, NEW p \in Proc, NEW t,
         (t \in Token /\ RefreshStart(p, t)) \/ TryLockBusy(p) \/ RefreshWait(p)
  PROVE  Handover'
<1>0. flight[p] \in Flight /\ FlightOK(flight[p])
  BY DEF IInv, TypeOK
<1>1. Calm /\ lock' = lock
  BY CalmReads DEF RefreshStart, TryLockBusy, RefreshWait, db, redis, record
<1>2. CASE t \in Token /\ RefreshStart(p, t)
  <2> DEFINE g == [NoFlight EXCEPT !.op = "refresh", !.tok = t, !.cred = handed[t],
                                   !.pc = IF grace[t] # None THEN "respond" ELSE "ref_lock",
                                   !.res = grace[t]]
  <2>1. Goto(p, g) /\ Outside(g) /\ g.res = grace[t]
    BY <1>2 DEF RefreshStart, NoFlight, Outside
  <2> QED
    BY <1>1, <1>2, <2>1, AnswersAlive, OutsideStep
<1>3. CASE TryLockBusy(p)
  <2> DEFINE g == [flight[p] EXCEPT !.pc = "ref_wait"]
  <2>1. Goto(p, g) /\ Outside(g) /\ g.res = flight[p].res
    BY <1>0, <1>3 DEF TryLockBusy, Flight, Outside
  <2> QED
    BY <1>1, <2>1, AnswersAlive, OutsideStep
<1>4. CASE RefreshWait(p)
  <2> DEFINE g == [flight[p] EXCEPT !.pc = "respond", !.res = grace[flight[p].tok]]
  <2>1. Goto(p, g) /\ Outside(g) /\ g.res = grace[flight[p].tok] /\ flight[p].tok \in Token
    BY <1>0, <1>4 DEF RefreshWait, At, FlightOK, Flight, Outside
  <2> QED
    BY <1>1, <2>1, AnswersAlive, OutsideStep
<1> QED
  BY <1>2, <1>3, <1>4

\* TryLock makes the caller the only holder.
LEMMA TryLockHandover ==
  ASSUME IInv, TypeOK', Handover, NEW p \in Proc, TryLock(p)
  PROVE  Handover'
<1> DEFINE f == flight[p]
           g == [f EXCEPT !.pc = "ref_find"]
<1>0. f \in Flight /\ FlightOK(f) /\ f.pc = "ref_lock" /\ flight \in [Proc -> Flight]
  BY DEF IInv, TypeOK, TryLock, At
<1>1. /\ Goto(p, g) /\ g.op = f.op /\ g.tok = f.tok /\ g.res = f.res /\ g.pc = "ref_find"
      /\ f.tok \notin lock /\ lock' = lock \cup {f.tok} /\ f.tok \in Token
      /\ g \in Flight
  BY <1>0, StepNames DEF TryLock, Flight, FlightOK
<1>2. Calm
  BY CalmReads DEF TryLock, db, record
<1>3. Succession'
  <2>1. CalmFlight(f, g)
    <3>1. ~Pending(g) /\ ~Rotating(g)
      BY <1>1 DEF Pending, Rotating
    <3>2. \A u \in Token : AnswersF(g, u) => Alive(u)
      BY <1>1 DEF AnswersF, Alive
    <3> QED
      BY <3>1, <3>2 DEF CalmFlight, RotatingOK
  <2> QED
    BY <1>1, <1>2, <2>1, CalmStep DEF Handover
<1>4. Exclusive'
  <2> SUFFICES ASSUME ~SlowHandlers PROVE Exclusive'
    BY DEF Exclusive
  <2>1. flight' = [flight EXCEPT ![p] = g]
    BY <1>1 DEF Goto
  <2>2. ASSUME NEW q \in Proc, NEW t \in Token, HoldsF(flight'[q], t)
        PROVE  \/ q = p /\ t = f.tok
               \/ q # p /\ t # f.tok /\ HoldsF(flight[q], t)
    <3>1. CASE q = p
      BY <1>0, <1>1, <2>1, <2>2, <3>1 DEF HoldsF
    <3>2. CASE q # p
      BY <1>0, <1>1, <2>1, <2>2, <3>2 DEF Handover, Exclusive
    <3> QED
      BY <3>1, <3>2
  <2> HIDE DEF f, g
  <2>3. \A q \in Proc, t \in Token : HoldsF(flight'[q], t) =>
           /\ t \in lock'
           /\ \A r \in Proc : HoldsF(flight'[r], t) => r = q
    BY <1>1, <2>2 DEF Handover, Exclusive
  <2> QED
    BY <2>3 DEF Exclusive, HoldsF
<1> QED
  BY <1>3, <1>4 DEF Handover

\* The row found for the token is the one to rotate.
LEMMA RefreshFindHandover ==
  ASSUME IInv, TypeOK', Handover, NEW p \in Proc, RefreshFind(p)
  PROVE  Handover'
<1> PICK f \in Flight : f = flight[p]
  BY DEF IInv, TypeOK
<1>0. /\ FlightOK(f) /\ f.pc = "ref_find" /\ f.op = "refresh"
      /\ f.tok \in Token /\ Handed(f.tok) /\ TypeOK
  BY DEF IInv, RefreshFind, At, FlightOK, LockedSteps
<1>1. Calm /\ lock' = lock
  BY CalmReads DEF RefreshFind, db, redis, record
<1>2. HoldsF(f, f.tok)
  BY <1>0 DEF HoldsF, LockedSteps
<1>3. ASSUME NEW step \in {"ref_grace", "unlock"}, Goto(p, [f EXCEPT !.pc = step])
      PROVE  Handover'
  <2> DEFINE g == [f EXCEPT !.pc = step]
  <2>1. /\ g.op = f.op /\ g.tok = f.tok /\ g.new = f.new /\ g.row = f.row /\ g.res = f.res
        /\ g.pc = step
    BY DEF Flight
  <2>2. ~Pending(g) /\ ~Rotating(g)
    BY <2>1 DEF Pending, Rotating
  <2>3. Goto(p, g)
    BY <1>3
  <2> HIDE DEF g
  <2> QED
    BY <1>0, <1>1, <1>2, <2>1, <2>2, <2>3, AnswersAlive, InsideStep
<1>4. ASSUME NEW id \in RowsOf(f.tok),
             Goto(p, [f EXCEPT !.pc = "ref_user", !.row = id, !.seen = session[id].version,
                               !.ver = session[id].ver, !.slot = session[id].slot,
                               !.parent = session[id].sso])
      PROVE  Handover'
  <2> DEFINE g == [f EXCEPT !.pc = "ref_user", !.row = id, !.seen = session[id].version,
                            !.ver = session[id].ver, !.slot = session[id].slot,
                            !.parent = session[id].sso]
  <2>1. /\ g.op = f.op /\ g.tok = f.tok /\ g.res = f.res /\ g.row = id /\ g.pc = "ref_user"
    BY DEF Flight
  <2>2. Goto(p, g)
    BY <1>4
  <2> HIDE DEF g
  <2>3. RotatingOK(g)
    BY <1>0, <2>1 DEF RotatingOK, RowsOf
  <2>4. CalmFlight(f, g)
    <3>1. ~Pending(g)
      BY <2>1 DEF Pending
    <3>2. \A u \in Token : AnswersF(g, u) => Alive(u)
      BY <2>1 DEF AnswersF, Alive
    <3> QED
      BY <2>3, <3>1, <3>2 DEF CalmFlight
  <2>5. \A t \in Token : HoldsF(g, t) => HoldsF(f, t)
    BY <1>2, <2>1 DEF HoldsF
  <2> QED
    BY <1>1, <2>2, <2>4, <2>5, CalmMove
<1>5. CASE RowsOf(f.tok) = {}
  BY <1>3, <1>5 DEF RefreshFind
<1>6. CASE RowsOf(f.tok) # {}
  BY <1>3, <1>4, <1>6 DEF RefreshFind
<1> QED
  BY <1>5, <1>6

\* The steps of a refresh that only read, or give up.
LEMMA InsideGo ==
  ASSUME IInv, TypeOK', Handover, Calm, lock' = lock, NEW p \in Proc,
         HoldsF(flight[p], flight[p].tok), NEW step,
         Goto(p, [flight[p] EXCEPT !.pc = step]),
         \/ step \in {"ref_grace", "unlock", "clean_get", "clean_del", "issue", "ref_sso"}
         \/ step = "rot_write" /\ flight[p].pc = "rot_check",
         step \in {"issue", "ref_sso"} => flight[p].pc \in {"ref_user", "ref_sso"}
  PROVE  Handover'
<1> PICK f \in Flight : f = flight[p]
  BY DEF IInv, TypeOK
<1> DEFINE g == [f EXCEPT !.pc = step]
<1>0. HoldsF(f, f.tok) /\ f.op = "refresh"
  BY DEF HoldsF
<1>1. /\ Goto(p, g) /\ g.op = f.op /\ g.tok = f.tok /\ g.new = f.new
      /\ g.row = f.row /\ g.res = f.res /\ g.pc = step
  BY DEF Flight
<1> HIDE DEF g
<1>2. g.res # None => Alive(g.res)
  BY <1>1, AnswersAlive
<1>3. Pending(g) => Pending(f)
  BY <1>1 DEF Pending
<1>4. Rotating(g) => Rotating(f)
  BY <1>0, <1>1 DEF Rotating
<1>5. g.pc # "persist" /\ g.pc \notin {"touch", "save_grace"}
  BY <1>1
<1> QED
  BY <1>0, <1>1, <1>2, <1>3, <1>4, <1>5, InsideStep

\* Those that settle the answer, or go on after a failure.
LEMMA InsideAnswer ==
  ASSUME IInv, TypeOK', Handover, Calm, lock' = lock, NEW p \in Proc,
         HoldsF(flight[p], flight[p].tok),
         NEW step \in {"ref_grace", "unlock", "clean_get"}, NEW r, r # None => Alive(r),
         Goto(p, [flight[p] EXCEPT !.pc = step, !.res = r])
  PROVE  Handover'
<1> PICK f \in Flight : f = flight[p]
  BY DEF IInv, TypeOK
<1> DEFINE g == [f EXCEPT !.pc = step, !.res = r]
<1>0. HoldsF(f, f.tok) /\ f.op = "refresh"
  BY DEF HoldsF
<1>1. /\ Goto(p, g) /\ g.op = f.op /\ g.tok = f.tok /\ g.new = f.new
      /\ g.row = f.row /\ g.res = r /\ g.pc = step
  BY DEF Flight
<1> HIDE DEF g
<1>2. ~Pending(g) /\ ~Rotating(g)
  BY <1>1 DEF Pending, Rotating
<1>3. g.pc # "persist" /\ g.pc \notin {"touch", "save_grace"}
  BY <1>1
<1> QED
  BY <1>0, <1>1, <1>2, <1>3, InsideStep

\* FlightOK says that these steps belong to a refresh.
LEMMA LockedHolds ==
  ASSUME IInv, NEW p \in Proc, flight[p].pc \in LockedSteps
  PROVE  HoldsF(flight[p], flight[p].tok)
  BY DEF IInv, FlightOK, HoldsF

\* Reading and giving up keep the lock.
LEMMA RefreshReadsHandover ==
  ASSUME IInv, TypeOK', Handover, NEW p \in Proc,
         RefreshGrace(p) \/ RefreshReadUser(p) \/ RefreshReadSso(p) \/ RotateCheck(p)
  PROVE  Handover'
<1>0. flight[p] \in Flight /\ FlightOK(flight[p])
  BY DEF IInv, TypeOK
<1>1. Calm /\ lock' = lock
  BY CalmReads DEF RefreshGrace, RefreshReadUser, RefreshReadSso, RotateCheck, db, redis, record
<1>2. HoldsF(flight[p], flight[p].tok)
  BY LockedHolds DEF RefreshGrace, RefreshReadUser, RefreshReadSso, RotateCheck, At, LockedSteps
<1>3. CASE RefreshGrace(p)
  <2>1. /\ Goto(p, [flight[p] EXCEPT !.pc = "unlock", !.res = grace[flight[p].tok]])
        /\ flight[p].tok \in Token
    BY <1>0, <1>3 DEF RefreshGrace, At, FlightOK
  <2>2. grace[flight[p].tok] # None => Alive(grace[flight[p].tok])
    BY <2>1, AnswersAlive
  <2> QED
    BY <1>1, <1>2, <2>1, <2>2, InsideAnswer
<1>4. CASE RefreshReadUser(p)
  <2>1. flight[p].pc = "ref_user"
    BY <1>4 DEF RefreshReadUser, At
  <2>2. CASE Goto(p, [flight[p] EXCEPT !.pc = "unlock"])
    BY <1>1, <1>2, <2>2, InsideGo
  <2>3. CASE Goto(p, [flight[p] EXCEPT !.pc = "ref_sso", !.ver = userVersion])
               /\ userVersion = flight[p].ver
    <3>1. [flight[p] EXCEPT !.pc = "ref_sso", !.ver = userVersion]
             = [flight[p] EXCEPT !.pc = "ref_sso"]
      BY <1>0, <2>3 DEF Flight
    <3>2. Goto(p, [flight[p] EXCEPT !.pc = "ref_sso"])
      BY <2>3, <3>1
    <3> QED
      BY <1>1, <1>2, <2>1, <3>2, InsideGo
  <2> QED
    BY <1>4, <2>2, <2>3 DEF RefreshReadUser
<1>5. CASE RefreshReadSso(p)
  <2>1. flight[p].pc = "ref_sso"
    BY <1>5 DEF RefreshReadSso, At
  <2>2. PICK step \in {"issue", "unlock"} : Goto(p, [flight[p] EXCEPT !.pc = step])
    BY <1>5 DEF RefreshReadSso
  <2> QED
    BY <1>1, <1>2, <2>1, <2>2, InsideGo
<1>6. CASE RotateCheck(p)
  <2>1. flight[p].pc = "rot_check"
    BY <1>6 DEF RotateCheck, At
  <2>2. PICK step \in {"rot_write", "clean_get"} : Goto(p, [flight[p] EXCEPT !.pc = step])
    BY <1>6 DEF RotateCheck
  <2> QED
    BY <1>1, <1>2, <2>1, <2>2, InsideGo
<1> QED
  BY <1>3, <1>4, <1>5, <1>6

\* The grace period repeats an answer that is already on its way.
LEMMA SaveGraceHandover ==
  ASSUME IInv, TypeOK', Handover, NEW p \in Proc, SaveGrace(p)
  PROVE  Handover'
<1> PICK f \in Flight : f = flight[p]
  BY DEF IInv, TypeOK
<1>0. f.pc = "save_grace" /\ HoldsF(f, f.tok) /\ Alive(f.new)
  BY LockedHolds, AnswersAlive DEF SaveGrace, At, LockedSteps
<1>1. Goto(p, [f EXCEPT !.pc = "unlock", !.res = f.new]) /\ grace' = [grace EXCEPT ![f.tok] = f.new]
      /\ UNCHANGED <<session, issued, handed, lock>>
  BY DEF SaveGrace, db, record
<1>2. \A t \in Token : grace'[t] # None => Alive(grace'[t])
  BY <1>0, <1>1, AnswersAlive DEF IInv, TypeOK
<1>3. Calm
  BY <1>1, <1>2 DEF Calm, Alive, Handed
<1> QED
  BY <1>0, <1>1, <1>3, InsideAnswer

\* The only holder of the lock gives it back.
LEMMA UnLockHandover ==
  ASSUME IInv, TypeOK', Handover, NEW p \in Proc, UnLock(p)
  PROVE  Handover'
<1> PICK f \in Flight : f = flight[p]
  BY DEF IInv, TypeOK
<1> DEFINE g == [NoFlight EXCEPT !.op = "refresh", !.pc = "respond", !.res = f.res]
<1>0. HoldsF(f, f.tok) /\ flight \in [Proc -> Flight] /\ flight'[p] \in Flight
  BY LockedHolds DEF UnLock, At, LockedSteps, IInv, TypeOK
<1>1. Goto(p, g) /\ g.pc = "respond" /\ g.res = f.res /\ lock' = lock \ {f.tok}
      /\ UNCHANGED <<session, issued, handed, grace>>
  BY DEF UnLock, NoFlight, db, record
<1>2. Calm
  BY <1>1, CalmReads
<1> HIDE DEF g
<1>3. flight' = [flight EXCEPT ![p] = g] /\ g \in Flight
  BY <1>0, <1>1 DEF Goto
<1>4. Succession'
  <2>1. ~Pending(g) /\ ~Rotating(g) /\ \A u : AnswersF(g, u) => u = f.res
    BY <1>1 DEF Pending, Rotating, AnswersF
  <2>2. CalmFlight(f, g)
    BY <2>1, AnswersAlive, NoneAssumption DEF CalmFlight, RotatingOK
  <2> QED
    BY <1>1, <1>2, <1>3, <2>2, CalmStep DEF Handover
<1>5. Exclusive'
  <2> SUFFICES ASSUME ~SlowHandlers PROVE Exclusive'
    BY DEF Exclusive
  <2>1. ASSUME NEW q \in Proc, NEW t \in Token, HoldsF(flight'[q], t)
        PROVE  q # p /\ HoldsF(flight[q], t) /\ t # f.tok
    <3>1. ~HoldsF(g, t)
      BY <1>1 DEF HoldsF, LockedSteps
    <3>2. q # p /\ HoldsF(flight[q], t)
      BY <1>0, <1>3, <2>1, <3>1
    <3> QED
      BY <1>0, <3>2 DEF Handover, Exclusive
  <2>2. \A q \in Proc, t \in Token : HoldsF(flight'[q], t) =>
           /\ t \in lock'
           /\ \A r \in Proc : HoldsF(flight'[r], t) => r = q
    BY <1>1, <2>1 DEF Handover, Exclusive
  <2> QED
    BY <2>2 DEF Exclusive, HoldsF
<1> QED
  BY <1>4, <1>5 DEF Handover

-----------------------------------------------------------------------------
(* Handover: failures, Logout, LogoutAllSessions, expiry                  *)

\* A handler that ends takes nothing along.
LEMMA FinishHandover ==
  ASSUME IInv, TypeOK', Handover, NEW p \in Proc, Goto(p, NoFlight), Calm, lock' = lock
  PROVE  Handover'
<1>1. Outside(NoFlight) /\ NoFlight.res = None
  BY DEF NoFlight, Outside
<1> QED
  BY <1>1, OutsideStep

\* A failed step leads to the answer, or to the clean-up, of the same request.
LEMMA StoreFailsHandover ==
  ASSUME IInv, TypeOK', Handover, NEW p \in Proc, StoreFails(p)
  PROVE  Handover'
<1> PICK f \in Flight : f = flight[p]
  BY DEF IInv, TypeOK
<1> DEFINE r == IF f.pc = "save_grace" THEN f.new ELSE None
           g == [f EXCEPT !.pc = OnError[f.pc], !.res = r]
<1>0. /\ FlightOK(f) /\ f.pc \in DOMAIN OnError
      /\ f.pc \in {"issue", "clean_get", "clean_del"} => f.op = "refresh"
      /\ Goto(p, g) /\ UNCHANGED <<session, grace, issued, handed, lock>>
  BY DEF IInv, StoreFails, db, redis
<1>1. Calm /\ lock' = lock
  BY <1>0, CalmReads
<1>2. r # None => Alive(r)
  BY AnswersAlive
<1>3. CASE f.op = "refresh" /\ f.pc # "ref_lock"
  <2>1. f.pc # "persist"
    BY <1>0, <1>3 DEF FlightOK
  <2>2. OnError[f.pc] \in {"ref_grace", "unlock", "clean_get"} /\ HoldsF(f, f.tok)
    BY <1>0, <1>3, <2>1 DEF OnError, HoldsF, LockedSteps
  <2> HIDE DEF r
  <2> QED
    BY <1>0, <1>1, <1>2, <2>2, InsideAnswer
<1>4. CASE f.op # "refresh" \/ f.pc = "ref_lock"
  <2>1. g.op = f.op /\ g.pc = OnError[f.pc] /\ g.res = r
    BY DEF Flight
  <2>2. \/ f.pc = "ref_lock" /\ OnError[f.pc] = "ref_wait"
        \/ f.op # "refresh" /\ OnError[f.pc] = "clean_get"
    BY <1>0, <1>4 DEF FlightOK, LockedSteps, OnError
  <2> HIDE DEF r, g
  <2>3. Outside(g)
    BY <1>4, <2>1, <2>2 DEF Outside
  <2> QED
    BY <1>0, <1>1, <1>2, <2>1, <2>3, OutsideStep
<1> QED
  BY <1>3, <1>4

\* The clean-up clears the Redis field, and no row.
LEMMA CleanupHandover ==
  ASSUME IInv, TypeOK', Handover, NEW p \in Proc, CleanGet(p) \/ CleanDel(p)
  PROVE  Handover'
<1>0. flight[p] \in Flight /\ flight[p].pc \in {"clean_get", "clean_del"}
      /\ UNCHANGED <<session, grace, issued, handed, lock>>
  BY DEF IInv, TypeOK, CleanGet, CleanDel, At, db, redis, record
<1>1. Calm /\ lock' = lock
  BY <1>0, CalmReads
<1>2. flight[p].op = "refresh" => HoldsF(flight[p], flight[p].tok)
  BY <1>0 DEF HoldsF
<1>3. CASE Goto(p, AfterCleanup(p))
  <2>1. CASE flight[p].op = "refresh"
    <3>1. Goto(p, [flight[p] EXCEPT !.pc = "unlock"])
      BY <1>3, <2>1 DEF AfterCleanup
    <3> QED
      BY <1>1, <1>2, <2>1, <3>1, InsideGo
  <2>2. CASE flight[p].op # "refresh"
    BY <1>1, <1>3, <2>2, FinishHandover DEF AfterCleanup
  <2> QED
    BY <2>1, <2>2
<1>4. CASE Goto(p, [flight[p] EXCEPT !.pc = "clean_del"])
  <2>1. CASE flight[p].op = "refresh"
    BY <1>1, <1>2, <1>4, <2>1, InsideGo
  <2>2. CASE flight[p].op # "refresh"
    <3> DEFINE g == [flight[p] EXCEPT !.pc = "clean_del"]
    <3>1. g.res = flight[p].res /\ Outside(g)
      BY <1>0, <2>2 DEF Flight, Outside
    <3> QED
      BY <1>1, <1>4, <3>1, AnswersAlive, OutsideStep
  <2> QED
    BY <2>1, <2>2
<1> QED
  BY <1>3, <1>4 DEF CleanGet, CleanDel

\* Logout revokes a row, which keeps its token.
LEMMA LogoutHandover ==
  ASSUME IInv, TypeOK', Handover, NEW p \in Proc, NEW s,
         Logout(p, s) \/ LogoutGet(p) \/ LogoutDel(p) \/ LogoutFind(p) \/ LogoutRevoke(p)
  PROVE  Handover'
<1>0. flight[p] \in Flight /\ FlightOK(flight[p])
  BY DEF IInv, TypeOK
<1>1. UNCHANGED <<grace, issued, handed, lock>>
  BY DEF Logout, LogoutGet, LogoutDel, LogoutFind, LogoutRevoke, redis, record
<1>2. \A id \in Token : /\ session'[id].status = "none" <=> session[id].status = "none"
                        /\ session'[id].tok = session[id].tok
  <2>1. CASE LogoutRevoke(p)
    <3>1. flight[p].row \in Token /\ session[flight[p].row].status # "none"
      BY <1>0, <2>1 DEF LogoutRevoke, At, FlightOK
    <3> QED
      BY <2>1, <3>1 DEF LogoutRevoke, IInv, TypeOK, SessionRow
  <2>2. CASE Logout(p, s) \/ LogoutGet(p) \/ LogoutDel(p) \/ LogoutFind(p)
    BY <2>2 DEF Logout, LogoutGet, LogoutDel, LogoutFind, db
  <2> QED
    BY <2>1, <2>2
<1>3. Calm
  BY <1>1, <1>2 DEF Calm, Alive, Handed
<1>4. CASE Logout(p, s)
  <2> DEFINE g == [NoFlight EXCEPT !.op = "logout", !.pc = "out_get", !.slot = s]
  <2>1. Goto(p, g) /\ Outside(g) /\ g.res = None
    BY <1>4 DEF Logout, NoFlight, Outside
  <2> QED
    BY <1>1, <1>3, <2>1, OutsideStep
<1>5. ASSUME NEW step \in {"respond", "out_del"}, NEW t,
             Goto(p, [flight[p] EXCEPT !.tok = t, !.pc = step])
      PROVE  Handover'
  <2> DEFINE g == [flight[p] EXCEPT !.tok = t, !.pc = step]
  <2>1. Outside(g) /\ g.res = flight[p].res
    BY <1>0 DEF Flight, Outside
  <2> QED
    BY <1>1, <1>3, <1>5, <2>1, AnswersAlive, OutsideStep
<1>6. ASSUME NEW step \in {"respond", "out_find"}, Goto(p, [flight[p] EXCEPT !.pc = step])
      PROVE  Handover'
  <2> DEFINE g == [flight[p] EXCEPT !.pc = step]
  <2>1. Outside(g) /\ g.res = flight[p].res
    BY <1>0 DEF Flight, Outside
  <2> QED
    BY <1>1, <1>3, <1>6, <2>1, AnswersAlive, OutsideStep
<1>7. ASSUME NEW id, Goto(p, [flight[p] EXCEPT !.pc = "out_revoke", !.row = id])
      PROVE  Handover'
  <2> DEFINE g == [flight[p] EXCEPT !.pc = "out_revoke", !.row = id]
  <2>1. Outside(g) /\ g.res = flight[p].res
    BY <1>0 DEF Flight, Outside
  <2> QED
    BY <1>1, <1>3, <1>7, <2>1, AnswersAlive, OutsideStep
<1>8. CASE LogoutGet(p)
  BY <1>5, <1>8 DEF LogoutGet
<1>9. CASE LogoutDel(p) \/ LogoutRevoke(p)
  BY <1>6, <1>9 DEF LogoutDel, LogoutRevoke
<1>10. CASE LogoutFind(p)
  BY <1>6, <1>7, <1>10 DEF LogoutFind
<1> QED
  BY <1>4, <1>8, <1>9, <1>10

\* Revoking keeps the tokens of the rows.
LEMMA TxHandover ==
  ASSUME IInv, TypeOK', Handover, NEW p \in Proc,
         TxBegin(p) \/ TxRevokeSso(p) \/ TxRevokeApp(p) \/ TxCommit(p)
  PROVE  Handover'
<1>0. flight[p] \in Flight /\ FlightOK(flight[p])
  BY DEF IInv, TypeOK
<1>1. UNCHANGED <<grace, issued, handed, lock>>
  BY DEF TxBegin, TxRevokeSso, TxRevokeApp, TxCommit, redis, record
<1>2. \A id \in Token : /\ session'[id].status = "none" <=> session[id].status = "none"
                        /\ session'[id].tok = session[id].tok
  <2>1. CASE TxCommit(p)
    <3>1. session' = [id \in Token |-> IF id \in flight[p].hitApp
                                       THEN [session[id] EXCEPT !.status = "revoked"]
                                       ELSE session[id]]
      BY <2>1 DEF TxCommit
    <3>2. \A id \in flight[p].hitApp : session[id].status # "none"
      BY <1>0 DEF FlightOK
    <3> QED
      BY <3>1, <3>2 DEF IInv, TypeOK, SessionRow
  <2>2. CASE TxBegin(p) \/ TxRevokeSso(p) \/ TxRevokeApp(p)
    BY <2>2 DEF TxBegin, TxRevokeSso, TxRevokeApp, db
  <2> QED
    BY <2>1, <2>2
<1>3. Calm
  BY <1>1, <1>2 DEF Calm, Alive, Handed
<1>4. CASE TxBegin(p)
  <2> DEFINE g == [NoFlight EXCEPT !.op = "revoke_all", !.pc = "tx_sso"]
  <2>1. Goto(p, g) /\ Outside(g) /\ g.res = None
    BY <1>4 DEF TxBegin, NoFlight, Outside
  <2> QED
    BY <1>1, <1>3, <2>1, OutsideStep
<1>5. CASE TxRevokeSso(p)
  <2> DEFINE g == [flight[p] EXCEPT !.pc = "tx_app",
                                    !.hitSso = {id \in Token : sso[id].status = "active"}]
  <2>1. Goto(p, g) /\ Outside(g) /\ g.res = flight[p].res
    BY <1>0, <1>5 DEF TxRevokeSso, Flight, Outside
  <2> QED
    BY <1>1, <1>3, <2>1, AnswersAlive, OutsideStep
<1>6. CASE TxRevokeApp(p)
  <2> DEFINE g == [flight[p] EXCEPT !.pc = "tx_commit",
                                    !.hitApp = {id \in Token : session[id].status = "active"}]
  <2>1. Goto(p, g) /\ Outside(g) /\ g.res = flight[p].res
    BY <1>0, <1>6 DEF TxRevokeApp, Flight, Outside
  <2> QED
    BY <1>1, <1>3, <2>1, AnswersAlive, OutsideStep
<1>7. CASE TxCommit(p)
  BY <1>1, <1>3, <1>7, FinishHandover DEF TxCommit, Finish
<1> QED
  BY <1>4, <1>5, <1>6, <1>7

\* The lock of a crashed handler stays behind.
LEMMA CrashHandover ==
  ASSUME IInv, TypeOK', Handover, NEW p \in Proc, Crash(p)
  PROVE  Handover'
<1>1. Calm /\ lock' = lock
  BY CalmReads DEF Crash, db, redis
<1> QED
  BY <1>1, FinishHandover DEF Crash, Finish

\* The lock of a handler that is still under way does not expire.
LEMMA ExpiryHandover ==
  ASSUME IInv, TypeOK', Handover, NEW t \in Token,
         LockExpire(t) \/ GraceExpire(t) \/ ExpireSession(t) \/ ExpireSso(t)
  PROVE  Handover'
<1>0. UNCHANGED <<flight, issued, handed>>
  BY DEF LockExpire, GraceExpire, ExpireSession, ExpireSso, record
<1>1. \A id \in Token : /\ session'[id].status = "none" <=> session[id].status = "none"
                        /\ session'[id].tok = session[id].tok
  <2>1. CASE ExpireSession(t)
    BY <2>1 DEF ExpireSession, IInv, TypeOK, SessionRow
  <2>2. CASE LockExpire(t) \/ GraceExpire(t) \/ ExpireSso(t)
    BY <2>2 DEF LockExpire, GraceExpire, ExpireSso, db
  <2> QED
    BY <2>1, <2>2
<1>2. \A u \in Token : grace'[u] \in {grace[u], None}
  BY DEF LockExpire, GraceExpire, ExpireSession, ExpireSso, redis, IInv, TypeOK
<1>3. Calm
  BY <1>0, <1>1, <1>2 DEF Calm, Alive, Handed
<1>4. Succession'
  BY <1>0, <1>3, CalmStep DEF Handover
<1>5. ~SlowHandlers => \A p \in Proc, u \in Token : HoldsF(flight[p], u) /\ u \in lock => u \in lock'
  BY DEF LockExpire, GraceExpire, ExpireSession, ExpireSso, redis, Holds, HoldsF
<1>6. Exclusive'
  BY <1>0, <1>5 DEF Handover, Exclusive, HoldsF
<1> QED
  BY <1>4, <1>6 DEF Handover

-----------------------------------------------------------------------------
(* Handover is an invariant                                               *)

\* No token is issued yet.
LEMMA HandoverInit == Init => Handover
<1> SUFFICES ASSUME Init PROVE Handover
  OBVIOUS
<1>1. /\ \A p \in Proc : flight[p] = NoFlight
      /\ \A t \in Token : session[t].status = "none" /\ issued[t].op = "none"
  BY DEF Init, NoSession, NotIssued
<1>2. Exclusive
  BY <1>1 DEF Exclusive, HoldsF, NoFlight
<1>3. FlightsOK
  BY <1>1 DEF FlightsOK, PendingOK, RotatingOK, Pending, Rotating, NoFlight
<1>4. RowsDiffer /\ SpentOnce
  BY <1>1 DEF RowsDiffer, SpentOnce
<1> QED
  BY <1>2, <1>3, <1>4 DEF Handover, Succession

\* One case per operation.
LEMMA HandoverNext ==
  ASSUME IInv, IInv', Handover, [Next]_vars
  PROVE  Handover'
<1>0. TypeOK'
  BY DEF IInv
<1>1. ASSUME NEW p \in Proc, LoginNext(p) PROVE Handover'
  <2>1. ASSUME NEW s \in Slot, LoginReadIdentity(p, s) PROVE Handover'
    BY <1>0, <2>1, LoginHandover
  <2>2. ASSUME NEW id \in Token, NEW s \in Slot, ExchangeReadSso(p, id, s) PROVE Handover'
    BY <1>0, <2>2, LoginHandover
  <2>3. CASE LoginReadUser(p) \/ ExchangeReadUser(p)
    BY <1>0, <2>3, LoginHandover
  <2> QED
    BY <1>0, <1>1, <2>1, <2>2, <2>3, IssueHandover, PersistHandover, AnswerHandover DEF LoginNext
<1>2. ASSUME NEW p \in Proc, RefreshNext(p) PROVE Handover'
  <2>1. ASSUME NEW t \in Token, RefreshStart(p, t) PROVE Handover'
    BY <1>0, <2>1, RefreshBeginHandover
  <2>2. CASE TryLockBusy(p) \/ RefreshWait(p)
    BY <1>0, <2>2, RefreshBeginHandover
  <2> QED
    BY <1>0, <1>2, <2>1, <2>2, TryLockHandover, RefreshFindHandover, RefreshReadsHandover,
       RotateHandover, SaveGraceHandover, UnLockHandover DEF RefreshNext
<1>3. ASSUME NEW p \in Proc, FailNext(p) PROVE Handover'
  BY <1>0, <1>3, StoreFailsHandover, CleanupHandover, CrashHandover DEF FailNext
<1>4. ASSUME NEW p \in Proc, LogoutNext(p) PROVE Handover'
  <2>1. ASSUME NEW s \in Slot, Logout(p, s) PROVE Handover'
    BY <1>0, <2>1, LogoutHandover
  <2>2. CASE LogoutGet(p) \/ LogoutDel(p) \/ LogoutFind(p) \/ LogoutRevoke(p)
    BY <1>0, <2>2, LogoutHandover
  <2> QED
    BY <1>4, <2>1, <2>2 DEF LogoutNext
<1>5. ASSUME NEW p \in Proc, TxNext(p) PROVE Handover'
  BY <1>0, <1>5, TxHandover DEF TxNext
<1>6. CASE Expiry
  BY <1>0, <1>6, ExpiryHandover DEF Expiry
<1>7. CASE UNCHANGED vars
  <2>1. UNCHANGED <<session, grace, issued, handed, lock, flight>>
    BY <1>7 DEF vars, db, redis, record
  <2>2. Succession'
    BY <2>1, CalmReads, CalmStep DEF Handover
  <2>3. Exclusive'
    BY <2>1 DEF Handover, Exclusive, HoldsF
  <2> QED
    BY <2>2, <2>3 DEF Handover
<1> QED
  BY <1>1, <1>2, <1>3, <1>4, <1>5, <1>6, <1>7 DEF Next

-----------------------------------------------------------------------------
(* Where a session comes from                                              *)

\* A login knows the password of the version it read; an exchange found the row of
\* its login; no row has the token a login is about to store.
OriginF(f) ==
    /\ f.op = "login" /\ f.pc \in {"login_user", "issue"} /\ f.cred = userVersion =>
          f.pw = password
    /\ f.op = "login" /\ f.pc = "persist" => sso[f.new].status = "none"
    /\ f.op = "sso" /\ f.pc \in {"exch_user", "issue", "persist"} =>
          f.parent \in Token /\ sso[f.parent].status # "none"

\* The third inductive invariant.
Origins ==
    /\ \A p \in Proc : OriginF(flight[p])
    /\ \A t \in Token : issued[t].op = "login" /\ issued[t].cred = userVersion =>
                           issued[t].pw = password
    /\ \A id \in Token : session[id].status # "none" =>
          session[id].sso \in Token /\ sso[session[id].sso].status # "none"

\* The rows stand, and either the version and the password stand, or the version grows.
Standing ==
    /\ \A id \in Token : /\ session'[id].status = "none" <=> session[id].status = "none"
                         /\ session'[id].sso = session[id].sso
                         /\ sso'[id].status = "none" <=> sso[id].status = "none"
    /\ issued' = issued
    /\ UNCHANGED <<userVersion, password>> \/ userVersion' = userVersion + 1

\* Such a step keeps the origins, if the handler that takes it has one.
LEMMA OriginsStep ==
  ASSUME IInv, IInv', Origins, Standing,
         \/ UNCHANGED flight
         \/ \E p \in Proc : \E g : Goto(p, g) /\ OriginF(g)'
  PROVE  Origins'
<1>1. ASSUME NEW q \in Proc PROVE OriginF(flight[q]) /\ flight[q] \in Flight /\ FlightOK(flight[q])
  BY DEF IInv, TypeOK, Origins
<1>2. ASSUME NEW q \in Proc, flight'[q] = flight[q] PROVE OriginF(flight[q])'
  <2>1. PICK h \in Flight : h = flight[q]
    BY <1>1
  <2>2. h.cred \in Nat /\ h.cred <= userVersion /\ userVersion \in Nat
    BY <1>1, <2>1 DEF FlightOK, Flight, IInv, TypeOK
  <2>3. OriginF(h)
    BY <1>1, <2>1
  <2>4. h.op = "login" /\ h.pc = "persist" => h.new \in Token
    BY <1>1, <2>1 DEF FlightOK, Minted
  <2>5. OriginF(h)'
    BY <2>2, <2>3, <2>4 DEF OriginF, Standing
  <2> QED
    BY <1>2, <2>1, <2>5 DEF OriginF
<1>3. (\A q \in Proc : OriginF(flight[q]))'
  <2>1. CASE UNCHANGED flight
    BY <1>2, <2>1
  <2>2. ASSUME NEW p \in Proc, NEW g, Goto(p, g), OriginF(g)'
        PROVE  (\A q \in Proc : OriginF(flight[q]))'
    <3>1. flight' = [flight EXCEPT ![p] = g] /\ flight \in [Proc -> Flight]
      BY <2>2 DEF Goto, IInv, TypeOK
    <3>2. ASSUME NEW q \in Proc PROVE OriginF(flight[q])'
      <4>1. CASE q = p
        BY <2>2, <3>1, <4>1 DEF OriginF
      <4>2. CASE q # p
        BY <1>2, <3>1, <4>2
      <4> QED
        BY <4>1, <4>2
    <3> QED
      BY <3>2
  <2> QED
    BY <2>1, <2>2
<1>4. \A t \in Token : (issued[t].op = "login" /\ issued[t].cred = userVersion =>
                           issued[t].pw = password)'
  <2> SUFFICES ASSUME NEW t \in Token, issued[t].op = "login", issued[t].cred = userVersion'
               PROVE  issued[t].pw = password'
    BY DEF Standing
  <2>1. issued[t].cred \in Nat /\ issued[t].cred <= userVersion /\ userVersion \in Nat
    BY DEF IInv, TypeOK, IssueRow, TokensOK, Minted
  <2> QED
    BY <2>1 DEF Origins, Standing
<1>5. \A id \in Token : (session[id].status # "none" =>
          session[id].sso \in Token /\ sso[session[id].sso].status # "none")'
  BY DEF Origins, Standing
<1> QED
  BY <1>3, <1>4, <1>5 DEF Origins

\* No step but these brings a handler to a login or an exchange.
LEMMA Landing ==
  ASSUME IInv, NEW p \in Proc,
         \/ Touch(p) \/ Respond(p) \/ RefreshNext(p) \/ FailNext(p) \/ LogoutNext(p) \/ TxNext(p)
  PROVE  \E g : /\ Goto(p, g)
                /\ g.pc \in {"login_user", "exch_user", "issue", "persist"} => g.op = "refresh"
<1> DEFINE New == {"login_user", "exch_user", "issue", "persist"}
           Lands(g) == Goto(p, g) /\ (g.pc \in New => g.op = "refresh")
           f == flight[p]
<1>0. f \in Flight /\ FlightOK(f)
  BY DEF IInv, TypeOK
<1>a. ASSUME NEW step, step \notin New PROVE
        /\ Goto(p, [f EXCEPT !.pc = step]) => \E g : Lands(g)
        /\ \A r : Goto(p, [f EXCEPT !.pc = step, !.res = r]) => \E g : Lands(g)
        /\ \A t : Goto(p, [f EXCEPT !.tok = t, !.pc = step]) => \E g : Lands(g)
        /\ \A id : Goto(p, [f EXCEPT !.pc = step, !.row = id]) => \E g : Lands(g)
  <2>1. /\ [f EXCEPT !.pc = step].pc = step
        /\ \A r : [f EXCEPT !.pc = step, !.res = r].pc = step
        /\ \A t : [f EXCEPT !.tok = t, !.pc = step].pc = step
        /\ \A id : [f EXCEPT !.pc = step, !.row = id].pc = step
    BY <1>0 DEF Flight
  <2> QED
    BY <1>a, <2>1
<1>b. Goto(p, NoFlight) => \E g : Lands(g)
  BY DEF NoFlight
<1>1. CASE Touch(p)
  BY <1>1, <1>a DEF Touch
<1>2. CASE Respond(p) \/ Crash(p)
  BY <1>2, <1>b DEF Respond, Crash, Finish
<1>3. CASE \E t \in Token : RefreshStart(p, t)
  <2> PICK t \in Token : RefreshStart(p, t)
    BY <1>3
  <2> DEFINE h == [NoFlight EXCEPT !.op = "refresh", !.tok = t, !.cred = handed[t],
                                   !.pc = IF grace[t] # None THEN "respond" ELSE "ref_lock",
                                   !.res = grace[t]]
  <2>1. Goto(p, h) /\ h.op = "refresh"
    BY DEF RefreshStart, NoFlight
  <2> QED
    BY <2>1
<1>4. CASE TryLock(p) \/ TryLockBusy(p) \/ RefreshWait(p) \/ RefreshGrace(p) \/ RotateCheck(p)
           \/ RotateWrite(p) \/ SaveGrace(p)
  BY <1>4, <1>a DEF TryLock, TryLockBusy, RefreshWait, RefreshGrace, RotateCheck, RotateWrite, SaveGrace
<1>5. CASE RefreshFind(p)
  <2>1. CASE Goto(p, [f EXCEPT !.pc = "ref_grace"]) \/ Goto(p, [f EXCEPT !.pc = "unlock"])
    BY <1>a, <2>1
  <2>2. ASSUME NEW id \in Token,
               Goto(p, [f EXCEPT !.pc = "ref_user", !.row = id, !.seen = session[id].version,
                                 !.ver = session[id].ver, !.slot = session[id].slot,
                                 !.parent = session[id].sso])
        PROVE  \E g : Lands(g)
    <3> DEFINE h == [f EXCEPT !.pc = "ref_user", !.row = id, !.seen = session[id].version,
                              !.ver = session[id].ver, !.slot = session[id].slot,
                              !.parent = session[id].sso]
    <3>1. Goto(p, h) /\ h.pc = "ref_user"
      BY <1>0, <2>2 DEF Flight
    <3> QED
      BY <3>1
  <2>3. CASE RowsOf(f.tok) = {}
    BY <1>5, <2>1, <2>3 DEF RefreshFind
  <2>4. CASE RowsOf(f.tok) # {}
    <3>1. PICK id \in RowsOf(f.tok) :
             \/ Goto(p, [f EXCEPT !.pc = "ref_user", !.row = id, !.seen = session[id].version,
                                  !.ver = session[id].ver, !.slot = session[id].slot,
                                  !.parent = session[id].sso])
             \/ Goto(p, [f EXCEPT !.pc = "unlock"])
      BY <1>5, <2>4 DEF RefreshFind
    <3>2. id \in Token
      BY DEF RowsOf
    <3> QED
      BY <2>1, <2>2, <3>1, <3>2
  <2> QED
    BY <2>3, <2>4
<1>6. CASE RefreshReadUser(p)
  <2> DEFINE h == [f EXCEPT !.pc = "ref_sso", !.ver = userVersion]
  <2>1. h.pc = "ref_sso"
    BY <1>0 DEF Flight
  <2>2. Goto(p, h) \/ Goto(p, [f EXCEPT !.pc = "unlock"])
    BY <1>6 DEF RefreshReadUser
  <2> QED
    BY <1>a, <2>1, <2>2
<1>7. CASE RefreshReadSso(p)
  <2>1. f.op = "refresh"
    BY <1>0, <1>7 DEF RefreshReadSso, At, FlightOK, LockedSteps
  <2>2. PICK step \in {"issue", "unlock"} : Goto(p, [f EXCEPT !.pc = step])
    BY <1>7 DEF RefreshReadSso
  <2>3. [f EXCEPT !.pc = step].op = "refresh"
    BY <1>0, <2>1 DEF Flight
  <2> QED
    BY <2>2, <2>3
<1>8. CASE UnLock(p)
  <2> DEFINE h == [NoFlight EXCEPT !.op = "refresh", !.pc = "respond", !.res = f.res]
  <2>1. Goto(p, h) /\ h.op = "refresh"
    BY <1>8 DEF UnLock, NoFlight
  <2> QED
    BY <2>1
<1>9. CASE StoreFails(p)
  <2>1. OnError[f.pc] \notin New
    BY <1>9 DEF StoreFails, OnError
  <2> QED
    BY <1>9, <1>a, <2>1 DEF StoreFails
<1>10. CASE CleanGet(p) \/ CleanDel(p)
  BY <1>10, <1>a, <1>b DEF CleanGet, CleanDel, AfterCleanup
<1>11. CASE \E s \in Slot : Logout(p, s)
  <2> PICK s \in Slot : Logout(p, s)
    BY <1>11
  <2> DEFINE h == [NoFlight EXCEPT !.op = "logout", !.pc = "out_get", !.slot = s]
  <2>1. Goto(p, h) /\ h.pc = "out_get"
    BY DEF Logout, NoFlight
  <2> QED
    BY <2>1
<1>12. CASE LogoutGet(p) \/ LogoutDel(p) \/ LogoutFind(p) \/ LogoutRevoke(p)
  <2>1. CASE LogoutGet(p)
    BY <1>a, <2>1 DEF LogoutGet
  <2>2. CASE LogoutDel(p) \/ LogoutRevoke(p)
    BY <1>a, <2>2 DEF LogoutDel, LogoutRevoke
  <2>3. CASE LogoutFind(p)
    BY <1>a, <2>3 DEF LogoutFind
  <2> QED
    BY <1>12, <2>1, <2>2, <2>3
<1>13. CASE TxNext(p)
  <2>1. CASE TxBegin(p)
    <3> DEFINE h == [NoFlight EXCEPT !.op = "revoke_all", !.pc = "tx_sso"]
    <3>1. Goto(p, h) /\ h.pc = "tx_sso"
      BY <2>1 DEF TxBegin, NoFlight
    <3> QED
      BY <3>1
  <2>2. CASE TxRevokeSso(p)
    <3> DEFINE h == [f EXCEPT !.pc = "tx_app", !.hitSso = {id \in Token : sso[id].status = "active"}]
    <3>1. Goto(p, h) /\ h.pc = "tx_app"
      BY <1>0, <2>2 DEF TxRevokeSso, Flight
    <3> QED
      BY <3>1
  <2>3. CASE TxRevokeApp(p)
    <3> DEFINE h == [f EXCEPT !.pc = "tx_commit",
                              !.hitApp = {id \in Token : session[id].status = "active"}]
    <3>1. Goto(p, h) /\ h.pc = "tx_commit"
      BY <1>0, <2>3 DEF TxRevokeApp, Flight
    <3> QED
      BY <3>1
  <2>4. CASE TxCommit(p)
    BY <1>b, <2>4 DEF TxCommit, Finish
  <2> QED
    BY <1>13, <2>1, <2>2, <2>3, <2>4 DEF TxNext
<1> QED
  BY <1>1, <1>2, <1>3, <1>4, <1>5, <1>6, <1>7, <1>8, <1>9, <1>10, <1>11, <1>12, <1>13
     DEF RefreshNext, FailNext, LogoutNext

\* The steps that open no session leave the rows of sessions and logins in place.
LEMMA StandingStep ==
  ASSUME IInv,
         \/ \E p \in Proc : Touch(p) \/ Respond(p) \/ RefreshNext(p) \/ FailNext(p) \/ LogoutNext(p)
                             \/ TxNext(p)
         \/ Expiry
  PROVE  Standing
<1>0. session \in [Token -> SessionRow] /\ sso \in [Token -> SsoRow] /\ userVersion \in Nat
  BY DEF IInv, TypeOK
<1>1. ASSUME UNCHANGED <<db, issued>> PROVE Standing
  BY <1>1 DEF Standing, db
<1>2. ASSUME NEW p \in Proc, RotateWrite(p) PROVE Standing
  <2>1. flight[p].row \in Token
    BY <1>2 DEF RotateWrite, At, IInv, FlightOK
  <2> QED
    BY <1>0, <1>2, <2>1 DEF RotateWrite, Standing, SessionRow, record
<1>3. ASSUME NEW p \in Proc, LogoutRevoke(p) PROVE Standing
  <2>1. flight[p].row \in Token /\ session[flight[p].row].status # "none"
    BY <1>3 DEF LogoutRevoke, At, IInv, FlightOK
  <2> QED
    BY <1>0, <1>3, <2>1 DEF LogoutRevoke, Standing, SessionRow, record
<1>4. ASSUME NEW p \in Proc, TxCommit(p) PROVE Standing
  <2>1. /\ \A id \in flight[p].hitSso : sso[id].status # "none"
        /\ \A id \in flight[p].hitApp : session[id].status # "none"
    BY <1>4 DEF IInv, FlightOK
  <2>2. /\ session' = [id \in Token |-> IF id \in flight[p].hitApp
                                        THEN [session[id] EXCEPT !.status = "revoked"]
                                        ELSE session[id]]
        /\ sso' = [id \in Token |-> IF id \in flight[p].hitSso
                                    THEN [sso[id] EXCEPT !.status = "revoked"] ELSE sso[id]]
        /\ userVersion' = userVersion + 1 /\ issued' = issued
    BY <1>4 DEF TxCommit, record
  <2>3. ASSUME NEW id \in Token PROVE /\ session'[id].status = "none" <=> session[id].status = "none"
                                       /\ session'[id].sso = session[id].sso
    BY <1>0, <2>1, <2>2 DEF SessionRow
  <2>4. ASSUME NEW id \in Token PROVE sso'[id].status = "none" <=> sso[id].status = "none"
    BY <1>0, <2>1, <2>2 DEF SsoRow
  <2> QED
    BY <2>2, <2>3, <2>4 DEF Standing
<1>5. ASSUME NEW t \in Token, ExpireSession(t) \/ ExpireSso(t) PROVE Standing
  <2>1. CASE ExpireSession(t)
    BY <1>0, <2>1 DEF ExpireSession, Standing, SessionRow
  <2>2. CASE ExpireSso(t)
    BY <1>0, <2>2 DEF ExpireSso, Standing, SsoRow
  <2> QED
    BY <1>5, <2>1, <2>2
<1>6. ASSUME NEW p \in Proc, Touch(p) \/ Respond(p) PROVE Standing
  BY <1>1, <1>6 DEF Touch, Respond, record
<1>7. ASSUME NEW p \in Proc, RefreshNext(p) PROVE Standing
  BY <1>1, <1>2, <1>7 DEF RefreshNext, RefreshStart, TryLock, TryLockBusy, RefreshWait, RefreshFind,
     RefreshGrace, RefreshReadUser, RefreshReadSso, RotateCheck, SaveGrace, UnLock, record
<1>8. ASSUME NEW p \in Proc, FailNext(p) PROVE Standing
  BY <1>1, <1>8 DEF FailNext, StoreFails, CleanGet, CleanDel, Crash, record
<1>9. ASSUME NEW p \in Proc, LogoutNext(p) PROVE Standing
  BY <1>1, <1>3, <1>9 DEF LogoutNext, Logout, LogoutGet, LogoutDel, LogoutFind, record
<1>10. ASSUME NEW p \in Proc, TxNext(p) PROVE Standing
  BY <1>1, <1>4, <1>10 DEF TxNext, TxBegin, TxRevokeSso, TxRevokeApp, record
<1>11. CASE Expiry
  BY <1>1, <1>5, <1>11 DEF Expiry, LockExpire, GraceExpire, record
<1> QED
  BY <1>6, <1>7, <1>8, <1>9, <1>10, <1>11

\* A login compares the password before it reads the version, in two steps.
LEMMA LoginOrigins ==
  ASSUME IInv, IInv', Origins, NEW p \in Proc,
         \/ \E s \in Slot : LoginReadIdentity(p, s)
         \/ \E id \in Token, s \in Slot : ExchangeReadSso(p, id, s)
         \/ LoginReadUser(p) \/ ExchangeReadUser(p)
  PROVE  Origins'
<1>0. flight[p] \in Flight /\ FlightOK(flight[p]) /\ OriginF(flight[p])
  BY DEF IInv, TypeOK, Origins
<1>1. UNCHANGED <<db, issued>>
  BY DEF LoginReadIdentity, LoginReadUser, ExchangeReadSso, ExchangeReadUser, record
<1>2. Standing
  BY <1>1 DEF Standing, db
<1>3. ASSUME NEW g, OriginF(g) PROVE OriginF(g)'
  BY <1>1, <1>3 DEF OriginF, db
<1>4. ASSUME NEW s \in Slot, LoginReadIdentity(p, s) PROVE Origins'
  <2> DEFINE g == [NoFlight EXCEPT !.op = "login", !.pc = "login_user", !.slot = s,
                                   !.cred = userVersion, !.pw = password]
  <2>1. Goto(p, g) /\ OriginF(g)
    BY <1>4 DEF LoginReadIdentity, NoFlight, OriginF
  <2> HIDE DEF g
  <2> QED
    BY <1>2, <1>3, <2>1, OriginsStep
<1>5. ASSUME NEW id \in Token, NEW s \in Slot, ExchangeReadSso(p, id, s) PROVE Origins'
  <2> DEFINE g == [NoFlight EXCEPT !.op = "sso", !.pc = "exch_user", !.slot = s, !.parent = id,
                                   !.ver = sso[id].ver, !.cred = handed[id]]
  <2>1. Goto(p, g) /\ OriginF(g)
    BY <1>5 DEF ExchangeReadSso, ActiveSso, NoFlight, OriginF
  <2> HIDE DEF g
  <2> QED
    BY <1>2, <1>3, <2>1, OriginsStep
<1>6. CASE LoginReadUser(p) \/ ExchangeReadUser(p)
  <2> DEFINE g == [flight[p] EXCEPT !.pc = "issue", !.ver = userVersion]
  <2>1. \/ flight[p].pc = "login_user" /\ flight[p].op = "login"
        \/ flight[p].pc = "exch_user" /\ flight[p].op = "sso"
    BY <1>0, <1>6 DEF LoginReadUser, ExchangeReadUser, At, FlightOK
  <2>2. OriginF(g)
    BY <1>0, <2>1 DEF OriginF, Flight
  <2>3. OriginF(NoFlight)
    BY DEF OriginF, NoFlight
  <2>4. Goto(p, g) \/ Goto(p, NoFlight)
    BY <1>6 DEF LoginReadUser, ExchangeReadUser, Finish
  <2> HIDE DEF g
  <2> QED
    BY <1>2, <1>3, <2>2, <2>3, <2>4, OriginsStep
<1> QED
  BY <1>4, <1>5, <1>6

\* The new token takes over the version and the password of its login.
LEMMA IssueOrigins ==
  ASSUME IInv, IInv', Origins, NEW p \in Proc, Issue(p)
  PROVE  Origins'
<1> PICK f \in Flight : f = flight[p]
  BY DEF IInv, TypeOK
<1>0. OriginF(f) /\ f.pc = "issue" /\ TypeOK
  BY DEF IInv, Issue, At, Origins
<1> PICK t \in Token :
      /\ issued[t].op = "none"
      /\ issued' = [issued EXCEPT ![t] =
            [op |-> f.op, slot |-> f.slot,
             from |-> IF f.op = "refresh" THEN f.tok ELSE f.parent,
             ver |-> f.ver, cred |-> f.cred, pw |-> f.pw]]
      /\ Goto(p, [f EXCEPT !.pc = IF f.op = "refresh" THEN "rot_check" ELSE "persist",
                            !.new = t])
  BY DEF Issue
<1>1. PICK g : /\ Goto(p, g) /\ g.new = t /\ g.op = f.op /\ g.parent = f.parent
               /\ g.pc = IF f.op = "refresh" THEN "rot_check" ELSE "persist"
  <2> DEFINE h == [f EXCEPT !.pc = IF f.op = "refresh" THEN "rot_check" ELSE "persist", !.new = t]
  <2>1. Goto(p, h)
    OBVIOUS
  <2>2. /\ h.new = t /\ h.op = f.op /\ h.parent = f.parent
        /\ h.pc = IF f.op = "refresh" THEN "rot_check" ELSE "persist"
    BY DEF Flight
  <2> HIDE DEF h
  <2> QED
    BY <2>1, <2>2
<1>2. flight' = [flight EXCEPT ![p] = g] /\ flight \in [Proc -> Flight]
  BY <1>0, <1>1 DEF Goto, TypeOK
<1>3. UNCHANGED <<userVersion, password, sso, session>>
  BY DEF Issue, db
<1>4. sso[t].status = "none"
  BY DEF IInv, RowsOK, Minted
<1>5. /\ issued'[t].op = f.op /\ issued'[t].cred = f.cred /\ issued'[t].pw = f.pw
      /\ \A u \in Token : u # t => issued'[u] = issued[u]
  BY <1>0 DEF TypeOK
<1>6. \A q \in Proc : OriginF(flight'[q])
  <2>1. OriginF(g)
    BY <1>0, <1>1, <1>4 DEF OriginF
  <2> QED
    BY <1>2, <2>1 DEF Origins
<1>7. (\A q \in Proc : OriginF(flight[q]))'
  BY <1>3, <1>6 DEF OriginF
<1>8. \A u \in Token : (issued[u].op = "login" /\ issued[u].cred = userVersion =>
                           issued[u].pw = password)'
  <2>1. f.op = "login" /\ f.cred = userVersion => f.pw = password
    BY <1>0 DEF OriginF
  <2> QED
    BY <1>3, <1>5, <2>1 DEF Origins
<1> QED
  BY <1>3, <1>7, <1>8 DEF Origins

\* The new session lies under the row of its login, which nobody else stores.
LEMMA PersistOrigins ==
  ASSUME IInv, IInv', Handover, Origins, NEW p \in Proc, Persist(p)
  PROVE  Origins'
<1> PICK f \in Flight : f = flight[p]
  BY DEF IInv, TypeOK
<1> DEFINE parent == IF f.op = "login" THEN f.new ELSE f.parent
<1>0. OriginF(f) /\ f.pc = "persist" /\ f.op \in {"login", "sso"} /\ f.new \in Token /\ TypeOK
  BY DEF IInv, Persist, At, Origins, FlightOK, Minted
<1>1. PICK g : Goto(p, g) /\ g.pc \in {"respond", "touch"}
  <2> DEFINE h == [f EXCEPT !.pc = IF f.op = "login" THEN "respond" ELSE "touch",
                            !.parent = parent,
                            !.res = IF f.op = "login" THEN f.new ELSE None]
  <2>1. Goto(p, h)
    BY DEF Persist
  <2>2. h.pc \in {"respond", "touch"}
    BY DEF Flight
  <2> HIDE DEF h
  <2> QED
    BY <2>1, <2>2
<1>2. flight' = [flight EXCEPT ![p] = g] /\ flight \in [Proc -> Flight]
  BY <1>0, <1>1 DEF Goto, TypeOK
<1>3. UNCHANGED <<userVersion, password, issued>>
  BY DEF Persist, record
<1>4. /\ session'[f.new].sso = parent
      /\ \A id \in Token : id # f.new => session'[id] = session[id]
  BY <1>0 DEF Persist, TypeOK
<1>5. /\ f.op = "login" => sso'[f.new].status = "active"
      /\ \A id \in Token : id # f.new \/ f.op # "login" => sso'[id] = sso[id]
  BY <1>0 DEF Persist, TypeOK
<1>6. \A id \in Token : sso[id].status # "none" => sso'[id].status # "none"
  BY <1>5
<1>7. parent \in Token /\ sso'[parent].status # "none"
  BY <1>0, <1>5 DEF OriginF
<1>8. ASSUME NEW q \in Proc PROVE OriginF(flight[q])'
  <2>1. CASE q = p
    BY <1>1, <1>2, <2>1 DEF OriginF
  <2>2. CASE q # p
    <3>1. flight'[q] = flight[q] /\ OriginF(flight[q])
      BY <1>2, <2>2 DEF Origins
    <3>2. flight[q].pc = "persist" => flight[q].new \in Token /\ flight[q].new # f.new
      <4> SUFFICES ASSUME flight[q].pc = "persist"
                   PROVE  flight[q].new \in Token /\ flight[q].new # f.new
        OBVIOUS
      <4>1. Pending(flight[q]) /\ Pending(flight[p])
        BY <1>0 DEF Pending
      <4> QED
        BY <2>2, <4>1 DEF Handover, Succession, FlightsOK, PendingOK
    <3> QED
      BY <1>3, <1>5, <1>6, <3>1, <3>2 DEF OriginF
  <2> QED
    BY <2>1, <2>2
<1>9. \A id \in Token : (session[id].status # "none" =>
          session[id].sso \in Token /\ sso[session[id].sso].status # "none")'
  <2> SUFFICES ASSUME NEW id \in Token, session'[id].status # "none"
               PROVE  session'[id].sso \in Token /\ sso'[session'[id].sso].status # "none"
    OBVIOUS
  <2>1. CASE id = f.new
    BY <1>4, <1>7, <2>1
  <2>2. CASE id # f.new
    BY <1>4, <1>6, <2>2 DEF Origins
  <2> QED
    BY <2>1, <2>2
<1> QED
  BY <1>3, <1>8, <1>9 DEF Origins

\* Nothing has an origin yet.
LEMMA OriginsInit == Init => Origins
  BY DEF Init, Origins, OriginF, NoFlight, NotIssued, NoSession

\* Logins and exchanges apart, a step leaves the rows standing.
LEMMA OriginsNext ==
  ASSUME IInv, IInv', Handover, Origins, [Next]_vars
  PROVE  Origins'
<1>1. ASSUME NEW p \in Proc,
             Touch(p) \/ Respond(p) \/ RefreshNext(p) \/ FailNext(p) \/ LogoutNext(p) \/ TxNext(p)
      PROVE  Origins'
  <2>1. PICK g : /\ Goto(p, g)
                 /\ g.pc \in {"login_user", "exch_user", "issue", "persist"} => g.op = "refresh"
    BY <1>1, Landing
  <2>2. OriginF(g)'
    BY <2>1 DEF OriginF
  <2>3. Standing
    BY <1>1, StandingStep
  <2> QED
    BY <2>1, <2>2, <2>3, OriginsStep
<1>2. CASE Expiry
  <2>1. Standing
    BY <1>2, StandingStep
  <2>2. UNCHANGED flight
    BY <1>2 DEF Expiry, LockExpire, GraceExpire, ExpireSession, ExpireSso
  <2> QED
    BY <2>1, <2>2, OriginsStep
<1>3. CASE UNCHANGED vars
  <2>1. Standing /\ UNCHANGED flight
    BY <1>3 DEF Standing, vars, db, record
  <2> QED
    BY <2>1, OriginsStep
<1>4. ASSUME NEW p \in Proc, LoginNext(p) PROVE Origins'
  BY <1>1, <1>4, LoginOrigins, IssueOrigins, PersistOrigins DEF LoginNext
<1> QED
  BY <1>1, <1>2, <1>3, <1>4 DEF Next

-----------------------------------------------------------------------------
(* The rows implement SessionContract                                      *)

\* The states of the contract, without CASE.
LEMMA Phases ==
  ASSUME NEW id \in Token
  PROVE  /\ Phase[id] \in {"none", "live", "ended"}
         /\ Phase[id] = "none" <=> session[id].status = "none"
         /\ Phase[id] = "live" <=> NotRevoked(id)
         /\ NotRevoked(id) => Current[id] = session[id].tok
         /\ ~NotRevoked(id) => Current[id] = None
  BY DEF Phase, Current, NotRevoked

\* What NotRevoked reads of a row.
SameRow(id) ==
    /\ session'[id].status = session[id].status /\ session'[id].tok = session[id].tok
    /\ session'[id].ver = session[id].ver /\ session'[id].sso = session[id].sso
    /\ sso'[id].status = sso[id].status /\ sso'[id].ver = sso[id].ver

\* Whether a row is revoked depends on its row, its parent and the version alone.
LEMMA SameRevoked ==
  ASSUME IInv, Origins, userVersion' = userVersion,
         NEW id \in Token, session'[id].status = session[id].status,
         session'[id].ver = session[id].ver, session'[id].sso = session[id].sso,
         \A p \in Token : sso[p].status # "none" => sso'[p].status = sso[p].status
                                                   /\ sso'[p].ver = sso[p].ver
  PROVE  NotRevoked(id)' <=> NotRevoked(id)
  BY DEF NotRevoked, Origins

\* Nothing that the contract speaks of changes.
LEMMA ContractStutters ==
  ASSUME IInv, Origins, userVersion' = userVersion, \A id \in Token : SameRow(id)
  PROVE  UNCHANGED Contract!vars
<1>1. \A id \in Token : NotRevoked(id)' <=> NotRevoked(id)
  BY SameRevoked DEF SameRow
<1>2. Phase' = Phase
  BY <1>1 DEF Phase, SameRow
<1>3. Current' = Current
  BY <1>1 DEF Current, SameRow
<1> QED
  BY <1>2, <1>3 DEF Contract!vars

\* The new values of the mapped variables, from those of each session.
LEMMA MappedUpdate ==
  ASSUME NEW i \in Token, NEW a, NEW b, Phase'[i] = a, Current'[i] = b,
         \A id \in Token : id # i => Phase'[id] = Phase[id] /\ Current'[id] = Current[id]
  PROVE  /\ Phase' = [Phase EXCEPT ![i] = a]
         /\ Current' = [Current EXCEPT ![i] = b]
<1>1. /\ Phase = [id \in Token |-> Phase[id]] /\ Phase' = [id \in Token |-> Phase'[id]]
      /\ Current = [id \in Token |-> Current[id]] /\ Current' = [id \in Token |-> Current'[id]]
  BY DEF Phase, Current
<1> QED
  BY <1>1, Zenon

\* Other sessions do not move while the rows above them stand.
LEMMA OthersSame ==
  ASSUME IInv, Origins, userVersion' = userVersion,
         NEW id \in Token, session'[id] = session[id],
         \A p \in Token : sso[p].status # "none" => sso'[p].status = sso[p].status
                                                   /\ sso'[p].ver = sso[p].ver
  PROVE  Phase'[id] = Phase[id] /\ Current'[id] = Current[id]
<1>1. NotRevoked(id)' <=> NotRevoked(id)
  BY SameRevoked
<1> QED
  BY <1>1 DEF Phase, Current

\* A session opens, with a token that no live session has, or it comes too late.
LEMMA PersistContract ==
  ASSUME IInv, Handover, Origins, NEW p \in Proc, Persist(p)
  PROVE  [Contract!Next]_(Contract!vars)
<1> PICK f \in Flight : f = flight[p]
  BY DEF IInv, TypeOK
<1>0. OriginF(f) /\ f.pc = "persist" /\ f.new \in Token /\ TypeOK
  BY DEF IInv, Persist, At, Origins, FlightOK, Minted
<1>1. ~Alive(f.new) /\ session[f.new].status = "none"
  BY <1>0 DEF Handover, Succession, FlightsOK, PendingOK, Pending
<1>2. /\ session'[f.new].status = "active" /\ session'[f.new].tok = f.new
      /\ \A id \in Token : id # f.new => session'[id] = session[id]
  BY <1>0 DEF Persist, TypeOK
<1>3. userVersion' = userVersion
      /\ \A q \in Token : sso[q].status # "none" => sso'[q].status = sso[q].status
                                                   /\ sso'[q].ver = sso[q].ver
  BY <1>0 DEF Persist, OriginF, TypeOK
<1>4. \A id \in Token : id # f.new => Phase'[id] = Phase[id] /\ Current'[id] = Current[id]
  BY <1>2, <1>3, OthersSame
<1>5. Phase[f.new] = "none" /\ Current[f.new] = None
  BY <1>0, <1>1, Phases DEF NotRevoked
<1>6. Contract!Unused(f.new)
  BY <1>1, Phases DEF Contract!Unused, Contract!Live, NotRevoked, Alive
<1>7. CASE NotRevoked(f.new)'
  <2>1. Phase'[f.new] = "live" /\ Current'[f.new] = f.new
    BY <1>0, <1>2, <1>7 DEF Phase, Current
  <2>2. Phase' = [Phase EXCEPT ![f.new] = "live"] /\ Current' = [Current EXCEPT ![f.new] = f.new]
    BY <1>0, <1>4, <2>1, MappedUpdate
  <2>3. Contract!Open(f.new, f.new)
    BY <1>5, <1>6, <2>2 DEF Contract!Open
  <2> QED
    BY <1>0, <2>3 DEF Contract!Next
<1>8. CASE ~NotRevoked(f.new)'
  <2>1. Phase'[f.new] = "ended" /\ Current'[f.new] = None
    BY <1>0, <1>2, <1>8 DEF Phase, Current
  <2>2. Phase' = [Phase EXCEPT ![f.new] = "ended"] /\ Current' = [Current EXCEPT ![f.new] = None]
    BY <1>0, <1>4, <2>1, MappedUpdate
  <2>3. Current' = Current
    BY <1>5, <2>2 DEF Current
  <2>4. Contract!OpenEnded(f.new)
    BY <1>5, <2>2, <2>3 DEF Contract!OpenEnded
  <2> QED
    BY <1>0, <2>4 DEF Contract!Next
<1> QED
  BY <1>7, <1>8

\* The token of a live session is replaced by one that no live session has.
LEMMA RotateContract ==
  ASSUME IInv, Handover, Origins, NEW p \in Proc, RotateWrite(p)
  PROVE  [Contract!Next]_(Contract!vars)
<1> PICK f \in Flight : f = flight[p]
  BY DEF IInv, TypeOK
<1>0. /\ f.pc = "rot_write" /\ f.row \in Token /\ f.new \in Token /\ ~Alive(f.new)
      /\ session \in [Token -> SessionRow]
  BY DEF IInv, TypeOK, RotateWrite, At, FlightOK, Handover, Succession, FlightsOK, PendingOK, Pending
<1>1. /\ session'[f.row].status = session[f.row].status /\ session'[f.row].tok = f.new
      /\ session'[f.row].ver = session[f.row].ver /\ session'[f.row].sso = session[f.row].sso
      /\ \A id \in Token : id # f.row => session'[id] = session[id]
  BY <1>0 DEF RotateWrite, SessionRow
<1>2. userVersion' = userVersion /\ sso' = sso
  BY DEF RotateWrite
<1>3. \A id \in Token : id # f.row => Phase'[id] = Phase[id] /\ Current'[id] = Current[id]
  BY <1>1, <1>2, OthersSame
<1>4. NotRevoked(f.row)' <=> NotRevoked(f.row)
  BY <1>0, <1>1, <1>2, SameRevoked
<1>5. Phase'[f.row] = Phase[f.row]
  BY <1>0, <1>1, <1>4 DEF Phase
<1>6. CASE NotRevoked(f.row)
  <2>1. Phase[f.row] = "live" /\ Current'[f.row] = f.new
    BY <1>0, <1>1, <1>4, <1>6, Phases DEF Current
  <2>2. Phase' = [Phase EXCEPT ![f.row] = "live"] /\ Current' = [Current EXCEPT ![f.row] = f.new]
    BY <1>0, <1>3, <1>5, <2>1, MappedUpdate
  <2>3. Phase' = Phase
    BY <2>1, <2>2 DEF Phase
  <2>4. Contract!Unused(f.new)
    BY <1>0, Phases DEF Contract!Unused, Contract!Live, NotRevoked, Alive
  <2>5. Contract!Rotate(f.row, f.new)
    BY <1>0, <2>1, <2>2, <2>3, <2>4 DEF Contract!Rotate, Contract!Live
  <2> QED
    BY <1>0, <2>5 DEF Contract!Next
<1>7. CASE ~NotRevoked(f.row)
  <2>1. Current'[f.row] = Current[f.row]
    BY <1>0, <1>4, <1>7 DEF Current
  <2>2. Phase' = [Phase EXCEPT ![f.row] = Phase[f.row]]
        /\ Current' = [Current EXCEPT ![f.row] = Current[f.row]]
    BY <1>0, <1>3, <1>5, <2>1, MappedUpdate
  <2>3. UNCHANGED Contract!vars
    BY <2>2 DEF Contract!vars, Phase, Current
  <2> QED
    BY <2>3
<1> QED
  BY <1>6, <1>7

\* Logout ends one session.
LEMMA LogoutContract ==
  ASSUME IInv, Handover, Origins, NEW p \in Proc, LogoutRevoke(p)
  PROVE  [Contract!Next]_(Contract!vars)
<1> PICK i \in Token : i = flight[p].row /\ session[i].status # "none"
  BY DEF IInv, LogoutRevoke, At, FlightOK
<1>1. /\ session'[i].status = "revoked"
      /\ \A id \in Token : id # i => session'[id] = session[id]
  BY DEF LogoutRevoke, IInv, TypeOK
<1>2. userVersion' = userVersion /\ sso' = sso
  BY DEF LogoutRevoke
<1>3. \A id \in Token : id # i => Phase'[id] = Phase[id] /\ Current'[id] = Current[id]
  BY <1>1, <1>2, OthersSame
<1>4. Phase'[i] = "ended" /\ Current'[i] = None
  BY <1>1 DEF Phase, Current, NotRevoked
<1>5. Phase' = [Phase EXCEPT ![i] = "ended"] /\ Current' = [Current EXCEPT ![i] = None]
  BY <1>3, <1>4, MappedUpdate
<1>6. CASE NotRevoked(i)
  <2>1. Contract!End(i)
    BY <1>5, <1>6, Phases DEF Contract!End, Contract!Live
  <2> QED
    BY <2>1 DEF Contract!Next
<1>7. CASE ~NotRevoked(i)
  <2>1. Phase[i] = "ended" /\ Current[i] = None
    BY <1>7, Phases
  <2>2. UNCHANGED Contract!vars
    BY <1>5, <2>1 DEF Contract!vars, Phase, Current
  <2> QED
    BY <2>2
<1> QED
  BY <1>6, <1>7

\* A new version ends every session.
LEMMA TxCommitContract ==
  ASSUME IInv, Origins, NEW p \in Proc, TxCommit(p)
  PROVE  [Contract!Next]_(Contract!vars)
<1>0. session \in [Token -> SessionRow] /\ userVersion \in Nat
  BY DEF IInv, TypeOK
<1>1. \A id \in flight[p].hitApp : session[id].status # "none"
  BY DEF IInv, FlightOK, TxCommit
<1>2. /\ session' = [id \in Token |-> IF id \in flight[p].hitApp
                                      THEN [session[id] EXCEPT !.status = "revoked"]
                                      ELSE session[id]]
      /\ userVersion' = userVersion + 1
  BY DEF TxCommit
<1>3. ASSUME NEW id \in Token
      PROVE  /\ session'[id].status = "none" <=> session[id].status = "none"
             /\ session'[id].ver = session[id].ver
  BY <1>0, <1>1, <1>2 DEF SessionRow
<1>4. ASSUME NEW id \in Token PROVE ~NotRevoked(id)'
  <2> SUFFICES ASSUME session'[id].status = "active", session'[id].ver = userVersion + 1
               PROVE  FALSE
    BY <1>2 DEF NotRevoked
  <2>1. session[id].ver = userVersion + 1 /\ session[id].status # "none"
    BY <1>3
  <2>2. session[id].ver <= userVersion
    BY <2>1 DEF IInv, RowsOK, RowAgrees, TokensOK
  <2> QED
    BY <1>0, <2>1, <2>2
<1>5. Current' = [id \in Token |-> None]
  BY <1>4 DEF Current
<1>6. ASSUME NEW id \in Token
      PROVE  Phase'[id] = IF id \in Contract!Live THEN "ended" ELSE Phase[id]
  <2>1. id \in Contract!Live <=> NotRevoked(id)
    BY Phases DEF Contract!Live
  <2>2. Phase'[id] = IF session[id].status = "none" THEN "none" ELSE "ended"
    BY <1>3, <1>4 DEF Phase
  <2>3. NotRevoked(id) => session[id].status # "none"
    BY DEF NotRevoked
  <2> QED
    BY <2>1, <2>2, <2>3, Phases
<1>7. Phase' = [id \in Token |-> Phase'[id]]
  BY DEF Phase
<1>8. Phase' = [id \in Token |-> IF id \in Contract!Live THEN "ended" ELSE Phase[id]]
  BY <1>6, <1>7, Zenon
<1>9. Contract!EndAll
  BY <1>5, <1>8 DEF Contract!EndAll
<1> QED
  BY <1>9 DEF Contract!Next

\* Every other step stutters.
LEMMA ContractNext ==
  ASSUME IInv, Handover, Origins, [Next]_vars
  PROVE  [Contract!Next]_(Contract!vars)
<1>1. ASSUME UNCHANGED db PROVE [Contract!Next]_(Contract!vars)
  <2>1. userVersion' = userVersion /\ \A id \in Token : SameRow(id)
    BY <1>1 DEF db, SameRow
  <2> QED
    BY <2>1, ContractStutters
<1>2. ASSUME NEW p \in Proc, LoginNext(p) PROVE [Contract!Next]_(Contract!vars)
  BY <1>1, <1>2, PersistContract DEF LoginNext, LoginReadIdentity, LoginReadUser, ExchangeReadSso,
     ExchangeReadUser, Issue, Touch, Respond
<1>3. ASSUME NEW p \in Proc, RefreshNext(p) PROVE [Contract!Next]_(Contract!vars)
  BY <1>1, <1>3, RotateContract DEF RefreshNext, RefreshStart, TryLock, TryLockBusy, RefreshWait,
     RefreshFind, RefreshGrace, RefreshReadUser, RefreshReadSso, RotateCheck, SaveGrace, UnLock
<1>4. ASSUME NEW p \in Proc, FailNext(p) PROVE [Contract!Next]_(Contract!vars)
  BY <1>1, <1>4 DEF FailNext, StoreFails, CleanGet, CleanDel, Crash
<1>5. ASSUME NEW p \in Proc, LogoutNext(p) PROVE [Contract!Next]_(Contract!vars)
  BY <1>1, <1>5, LogoutContract DEF LogoutNext, Logout, LogoutGet, LogoutDel, LogoutFind
<1>6. ASSUME NEW p \in Proc, TxNext(p) PROVE [Contract!Next]_(Contract!vars)
  BY <1>1, <1>6, TxCommitContract DEF TxNext, TxBegin, TxRevokeSso, TxRevokeApp
<1>7. ASSUME NEW t \in Token, ExpireSession(t) \/ ExpireSso(t)
      PROVE  [Contract!Next]_(Contract!vars)
  <2>1. userVersion' = userVersion
    BY <1>7 DEF ExpireSession, ExpireSso
  <2>2. \A id \in Token : SameRow(id)
    <3>1. session \in [Token -> SessionRow] /\ sso \in [Token -> SsoRow]
      BY DEF IInv, TypeOK
    <3>2. CASE ExpireSession(t)
      BY <3>1, <3>2 DEF ExpireSession, SameRow, SessionRow
    <3>3. CASE ExpireSso(t)
      BY <3>1, <3>3 DEF ExpireSso, SameRow, SsoRow
    <3> QED
      BY <1>7, <3>2, <3>3
  <2> QED
    BY <2>1, <2>2, ContractStutters
<1>8. CASE Expiry
  BY <1>1, <1>7, <1>8 DEF Expiry, LockExpire, GraceExpire
<1>9. CASE UNCHANGED vars
  BY <1>1, <1>9 DEF vars
<1> QED
  BY <1>2, <1>3, <1>4, <1>5, <1>6, <1>8, <1>9 DEF Next

-----------------------------------------------------------------------------
(* What follows from the two further invariants                            *)

\* In every reachable state the successors of a token are told apart as Handover
\* says, and every session has the origin that Origins says.
THEOREM FurtherInvariance == Spec => [](IInv /\ Handover /\ Origins)
<1>1. IInv /\ IInv' /\ Handover /\ [Next]_vars => Handover'
  BY HandoverNext
<1>2. IInv /\ IInv' /\ Handover /\ Origins /\ [Next]_vars => Origins'
  BY OriginsNext
<1> QED
  BY <1>1, <1>2, HandoverInit, OriginsInit, Invariance, PTL DEF Spec

\* While no handler outlives its lock, a refresh token is spent once: however the
\* handlers that present it interleave, fail or crash, and whatever expires in
\* between, all the answers that reach a client carry the same successor.
THEOREM TokensSpentOnce ==
  ASSUME ~SlowHandlers
  PROVE  Spec => []OneSuccessor
<1>1. Handover => OneSuccessor
  BY DEF OneSuccessor, Handover, Succession, SpentOnce, Alive
<1> QED
  BY <1>1, FurtherInvariance, PTL

\* An old password keeps a live session only if its login ran across the change: a
\* login that read the hash and the version on the same side of it has the password
\* of the version its session carries.
THEOREM OldPasswordsDie == Spec => []OldPasswordOnlyByOverlap
<1>1. IInv /\ Origins => OldPasswordOnlyByOverlap
  <2> SUFFICES ASSUME IInv, Origins, NEW id \in Token, NotRevoked(id), issued[id].op = "login",
                      issued[id].pw # password
               PROVE  issued[id].cred < issued[id].ver
    BY DEF OldPasswordOnlyByOverlap
  <2>1. issued[id].ver = userVersion
    BY DEF NotRevoked, IInv, RowsOK, RowAgrees
  <2>2. issued[id].cred # userVersion
    BY DEF Origins
  <2>3. /\ issued[id].cred \in Nat /\ userVersion \in Nat
        /\ issued[id].cred <= userVersion
    BY DEF IInv, TypeOK, IssueRow, TokensOK, Minted
  <2> QED
    BY <2>1, <2>2, <2>3
<1> QED
  BY <1>1, FurtherInvariance, PTL

\* The rows, locks and answers of the service implement SessionContract: through
\* every interleaving, failure, crash and expiry, and even if a handler outlives its
\* lock, a session opens once, holds one token at a time, which no other live
\* session holds, and never comes back to life.
THEOREM ImplementsContract == Spec => ContractSpec
<1>1. Init => Contract!Init
  BY DEF Init, Contract!Init, Phase, Current, NotRevoked, NoSession
<1>2. IInv /\ Handover /\ Origins /\ [Next]_vars => [Contract!Next]_(Contract!vars)
  BY ContractNext
<1> QED
  BY <1>1, <1>2, FurtherInvariance, PTL DEF Spec, ContractSpec, Contract!Spec

=============================================================================
