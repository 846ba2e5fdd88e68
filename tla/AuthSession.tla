---------------------------- MODULE AuthSession ----------------------------
(***************************************************************************)
(* The session core of the identity service (service/auth, service/account *)
(* and the stores under them) for ONE account: every key and row of the    *)
(* code is per user, so accounts do not interact.                          *)
(*                                                                         *)
(* Postgres keeps the user's version and password hash, the global SSO     *)
(* rows and the app session rows.  Redis keeps, per (app_code, device_id)  *)
(* field, the refresh token last issued there, the refresh locks and the   *)
(* grace-period answers.  A request is a FLIGHT: the steps of a handler    *)
(* between two accesses to a store, each atomic, interleaved with those of *)
(* every other flight.  A flight may end anywhere (Crash).                 *)
(***************************************************************************)
EXTENDS Naturals, FiniteSets

CONSTANTS
    Proc,         \* handlers that run at the same time, each on its own instance
    Slot,         \* the (app_code, device_id) fields of the account
    Token,        \* refresh tokens (uuid.New): fresh when issued
    None,         \* absent value
    MaxVersion,   \* bound on user_version
    MaxLogins,    \* bound on the logins that issue a token
    MaxFaults,    \* bound on failed store calls, crashes and expiries
    SlowHandlers  \* may a handler outlive the 5 s TTL of its refresh lock?

ASSUME NoneAssumption == None \notin Token /\ None \notin Nat /\ None \notin Slot
ASSUME BoundAssumption == MaxVersion \in Nat /\ MaxLogins \in Nat /\ MaxFaults \in Nat
ASSUME SlowAssumption == SlowHandlers \in BOOLEAN

VARIABLES
    userVersion,  \* users.user_version
    password,     \* generation of the credential hash of the local identities
    sso,          \* sso_sessions, each keyed by the refresh token of its login
    session,      \* sessions, each keyed by the token it was created with
    device,       \* Redis hash user_sessions:<uid>, field -> refresh token
    lock,         \* Redis keys lock:refresh:<token> that exist
    grace,        \* Redis keys grace_period:<token> -> refresh token of the pair
    flight,       \* the handler each Proc is running
    issued,       \* history: how each token was minted, and its access token's version
    handed,       \* history: user_version when a client first received the token
    faults        \* history: failed store calls, crashes and expiries so far

db     == <<userVersion, password, sso, session>>
redis  == <<device, lock, grace>>
record == <<issued, handed, faults>>
vars   == <<db, redis, flight, record>>

-----------------------------------------------------------------------------
(* Types                                                                   *)

OptToken == Token \cup {None}

SsoRow == [status : {"none", "active", "revoked"}, ver : Nat, expired : BOOLEAN]

SessionRow == [status : {"none", "active", "revoked"}, tok : OptToken,
               slot : Slot \cup {None}, ver : Nat, version : Nat,
               expired : BOOLEAN, sso : OptToken]

IssueRow == [op : {"none", "login", "sso", "refresh"},
             slot : Slot \cup {None},
             from : OptToken,   \* the credential: the SSO row or the refresh token
             ver : Nat,         \* user_version inside the access token
             cred : Nat,        \* user_version when that credential was handed out
             pw : Nat]          \* generation of the password that was checked

TxSteps == {"tx_sso", "tx_app", "tx_commit"}

\* Steps of RefreshToken between TryLock and the deferred UnLock.
LockedSteps == {"ref_find", "ref_grace", "ref_user", "ref_sso", "rot_check",
                "rot_write", "save_grace", "unlock"}

Steps == {"idle", "login_user", "exch_user", "issue", "persist", "touch",
          "respond", "ref_lock", "ref_wait", "clean_get", "clean_del", "out_get",
          "out_del", "out_find", "out_revoke"} \cup LockedSteps \cup TxSteps

Flight == [op : {"none", "login", "sso", "refresh", "logout", "revoke_all"},
           pc : Steps,
           slot : Slot \cup {None},
           tok : OptToken,     \* the refresh token presented, or the one to revoke
           cred : Nat,         \* history: user_version when its credential was given
           pw : Nat,           \* history: generation of the password that was checked
           ver : Nat,          \* user_version the flight works with
           row : OptToken,     \* the app session row it found
           seen : Nat,         \* that row's version when it was read
           parent : OptToken,  \* the SSO row above it
           new : OptToken,     \* the token it issued
           res : OptToken,     \* the token it will answer with
           hitSso : SUBSET Token,  \* rows its transaction has revoked, not committed
           hitApp : SUBSET Token]

NoSso     == [status |-> "none", ver |-> 0, expired |-> FALSE]
NoSession == [status |-> "none", tok |-> None, slot |-> None, ver |-> 0,
              version |-> 0, expired |-> FALSE, sso |-> None]
NotIssued == [op |-> "none", slot |-> None, from |-> None, ver |-> 0, cred |-> 0, pw |-> 0]
NoFlight  == [op |-> "none", pc |-> "idle", slot |-> None, tok |-> None, cred |-> 0,
              pw |-> 0, ver |-> 0, row |-> None, seen |-> 0, parent |-> None,
              new |-> None, res |-> None, hitSso |-> {}, hitApp |-> {}]

TypeOK ==
    /\ userVersion \in Nat
    /\ password \in Nat
    /\ sso \in [Token -> SsoRow]
    /\ session \in [Token -> SessionRow]
    /\ device \in [Slot -> OptToken]
    /\ lock \in SUBSET Token
    /\ grace \in [Token -> OptToken]
    /\ flight \in [Proc -> Flight]
    /\ issued \in [Token -> IssueRow]
    /\ handed \in [Token -> Nat \cup {None}]
    /\ faults \in Nat

Init ==
    /\ userVersion = 0
    /\ password = 0
    /\ sso = [t \in Token |-> NoSso]
    /\ session = [t \in Token |-> NoSession]
    /\ device = [s \in Slot |-> None]
    /\ lock = {}
    /\ grace = [t \in Token |-> None]
    /\ flight = [p \in Proc |-> NoFlight]
    /\ issued = [t \in Token |-> NotIssued]
    /\ handed = [t \in Token |-> None]
    /\ faults = 0

-----------------------------------------------------------------------------
(* Helpers                                                                 *)

At(p, step) == flight[p].pc = step
Goto(p, f)  == flight' = [flight EXCEPT ![p] = f]
Finish(p)   == Goto(p, NoFlight)
Fault       == faults < MaxFaults /\ faults' = faults + 1

\* validateActiveAppSession, validateActiveSsoSession
ActiveSession(id) == session[id].status = "active" /\ ~session[id].expired
ActiveSso(id)     == sso[id].status = "active" /\ ~sso[id].expired

\* GetByTokenHash: session_token_hash is unique and rows are never deleted.
RowsOf(t) == {id \in Token : session[id].status # "none" /\ session[id].tok = t}

\* An UPDATE waits for a transaction that has updated the row.
AppRowFree(id) == \A q \in Proc : id \notin flight[q].hitApp
SsoRowFree(id) == \A q \in Proc : id \notin flight[q].hitSso

\* What RefreshToken would accept now: the row, its version and its parent.
NotRevoked(id) ==
    /\ session[id].status = "active"
    /\ session[id].ver = userVersion
    /\ session[id].sso # None
    /\ sso[session[id].sso].status = "active"
    /\ sso[session[id].sso].ver = userVersion
Usable(t) == \E id \in RowsOf(t) :
    NotRevoked(id) /\ ~session[id].expired /\ ~sso[session[id].sso].expired

\* Some client has received the refresh token (and the SSO token of its login).
Handed(t) == handed[t] # None

\* The tokens issued by a login.
LoginTokens == {t \in Token : issued[t].op = "login"}

-----------------------------------------------------------------------------
(* Login, PhonePasswordLogin, PhoneAuthEntry, ExchangeSSO                  *)

\* The identity row is read first; its hash decides whether the password is
\* right.  A wrong password, or an error, ends the request without effect.
LoginReadIdentity(p, s) ==
    /\ At(p, "idle")
    /\ Goto(p, [NoFlight EXCEPT !.op = "login", !.pc = "login_user", !.slot = s,
                                !.cred = userVersion, !.pw = password])
    /\ UNCHANGED <<db, redis, record>>

LoginReadUser(p) ==
    /\ At(p, "login_user")
    /\ Goto(p, [flight[p] EXCEPT !.pc = "issue", !.ver = userVersion])
    /\ UNCHANGED <<db, redis, record>>

\* The SSO token is known to the client that received the login's answer.
ExchangeReadSso(p, id, s) ==
    /\ At(p, "idle")
    /\ Handed(id) /\ ActiveSso(id)
    /\ Goto(p, [NoFlight EXCEPT !.op = "sso", !.pc = "exch_user", !.slot = s, !.parent = id,
                                !.ver = sso[id].ver, !.cred = handed[id]])
    /\ UNCHANGED <<db, redis, record>>

\* Mutant: validateUserVersion is forgotten.
ExchangeReadUserUnchecked(p) ==
    /\ At(p, "exch_user")
    /\ Goto(p, [flight[p] EXCEPT !.pc = "issue", !.ver = userVersion])
    /\ UNCHANGED <<db, redis, record>>

ExchangeReadUser(p) ==
    /\ At(p, "exch_user")
    /\ IF flight[p].ver = userVersion
       THEN Goto(p, [flight[p] EXCEPT !.pc = "issue", !.ver = userVersion])
       ELSE Finish(p)
    /\ UNCHANGED <<db, redis, record>>

\* issueTokens: sign an access token, draw a refresh token, HSET the field.
Issue(p) ==
    LET f == flight[p] IN
    /\ At(p, "issue")
    /\ f.op = "login" => Cardinality(LoginTokens) < MaxLogins
    /\ \E t \in {u \in Token : issued[u].op = "none"} :
        /\ device' = [device EXCEPT ![f.slot] = t]
        /\ issued' = [issued EXCEPT ![t] =
              [op |-> f.op, slot |-> f.slot, from |-> IF f.op = "refresh" THEN f.tok ELSE f.parent,
               ver |-> f.ver, cred |-> f.cred, pw |-> f.pw]]
        /\ Goto(p, [f EXCEPT !.pc = IF f.op = "refresh" THEN "rot_check" ELSE "persist",
                             !.new = t])
    /\ UNCHANGED <<db, lock, grace, handed, faults>>

\* Mutant: an app session takes the device of its SSO session.
PersistOnLoginDevice(p) ==
    LET f == flight[p]
        parent == IF f.op = "login" THEN f.new ELSE f.parent
    IN
    /\ At(p, "persist")
    /\ sso' = IF f.op = "login"
              THEN [sso EXCEPT ![f.new] = [status |-> "active", ver |-> f.ver, expired |-> FALSE]]
              ELSE sso
    /\ session' = [session EXCEPT ![f.new] =
          [status |-> "active", tok |-> f.new, slot |-> issued[parent].slot, ver |-> f.ver,
           version |-> 1, expired |-> FALSE, sso |-> parent]]
    /\ Goto(p, [f EXCEPT !.pc = IF f.op = "login" THEN "respond" ELSE "touch",
                         !.parent = parent, !.res = IF f.op = "login" THEN f.new ELSE None])
    /\ UNCHANGED <<userVersion, password, redis, record>>

\* persistLoginSessions (one transaction), persistAppSessionFromSSO.
Persist(p) ==
    LET f == flight[p]
        parent == IF f.op = "login" THEN f.new ELSE f.parent
    IN
    /\ At(p, "persist")
    /\ sso' = IF f.op = "login"
              THEN [sso EXCEPT ![f.new] = [status |-> "active", ver |-> f.ver, expired |-> FALSE]]
              ELSE sso
    /\ session' = [session EXCEPT ![f.new] =
          [status |-> "active", tok |-> f.new, slot |-> f.slot, ver |-> f.ver,
           version |-> 1, expired |-> FALSE, sso |-> parent]]
    /\ Goto(p, [f EXCEPT !.pc = IF f.op = "login" THEN "respond" ELSE "touch",
                         !.parent = parent, !.res = IF f.op = "login" THEN f.new ELSE None])
    /\ UNCHANGED <<userVersion, password, redis, record>>

\* Touch writes last_seen_at only, but waits for the row like any UPDATE.
Touch(p) ==
    /\ At(p, "touch") /\ SsoRowFree(flight[p].parent)
    /\ Goto(p, IF flight[p].op = "refresh"
               THEN [flight[p] EXCEPT !.pc = "save_grace"]
               ELSE [flight[p] EXCEPT !.pc = "respond", !.res = flight[p].new])
    /\ UNCHANGED <<db, redis, record>>

\* The client gets the answer; an error answer hands nothing out.
Respond(p) ==
    LET t == flight[p].res IN
    /\ At(p, "respond")
    /\ handed' = IF t # None /\ ~Handed(t) THEN [handed EXCEPT ![t] = userVersion] ELSE handed
    /\ Finish(p)
    /\ UNCHANGED <<db, redis, issued, faults>>

-----------------------------------------------------------------------------
(* RefreshToken                                                            *)

RefreshStart(p, t) ==
    /\ At(p, "idle") /\ Handed(t)
    /\ Goto(p, [NoFlight EXCEPT !.op = "refresh", !.tok = t, !.cred = handed[t],
                                !.pc = IF grace[t] # None THEN "respond" ELSE "ref_lock",
                                !.res = grace[t]])
    /\ UNCHANGED <<db, redis, record>>

\* Mutant: SET instead of SET NX.
TryLockOverwrites(p) ==
    LET t == flight[p].tok IN
    /\ At(p, "ref_lock")
    /\ lock' = lock \cup {t}
    /\ Goto(p, [flight[p] EXCEPT !.pc = "ref_find"])
    /\ UNCHANGED <<db, device, grace, record>>

TryLock(p) ==
    LET t == flight[p].tok IN
    /\ At(p, "ref_lock") /\ t \notin lock
    /\ lock' = lock \cup {t}
    /\ Goto(p, [flight[p] EXCEPT !.pc = "ref_find"])
    /\ UNCHANGED <<db, device, grace, record>>

TryLockBusy(p) ==
    /\ At(p, "ref_lock") /\ flight[p].tok \in lock
    /\ Goto(p, [flight[p] EXCEPT !.pc = "ref_wait"])
    /\ UNCHANGED <<db, redis, record>>

\* After 200 ms, answer from the grace period or reject.
RefreshWait(p) ==
    LET answer == grace[flight[p].tok] IN
    /\ At(p, "ref_wait")
    /\ Goto(p, [flight[p] EXCEPT !.pc = "respond", !.res = answer])
    /\ UNCHANGED <<db, redis, record>>

RefreshFind(p) ==
    LET f == flight[p] IN
    /\ At(p, "ref_find")
    /\ IF RowsOf(f.tok) = {}
       THEN Goto(p, [f EXCEPT !.pc = "ref_grace"])
       ELSE \E id \in RowsOf(f.tok) :
            LET r == session[id] IN
            Goto(p, IF ActiveSession(id)
                    THEN [f EXCEPT !.pc = "ref_user", !.row = id, !.seen = r.version,
                                   !.ver = r.ver, !.slot = r.slot, !.parent = r.sso]
                    ELSE [f EXCEPT !.pc = "unlock"])
    /\ UNCHANGED <<db, redis, record>>

RefreshGrace(p) ==
    LET f == flight[p] IN
    /\ At(p, "ref_grace")
    /\ Goto(p, [f EXCEPT !.pc = "unlock", !.res = grace[f.tok]])
    /\ UNCHANGED <<db, redis, record>>

RefreshReadUser(p) ==
    LET f == flight[p] IN
    /\ At(p, "ref_user")
    /\ IF userVersion = f.ver
       THEN Goto(p, [f EXCEPT !.pc = "ref_sso", !.ver = userVersion])
       ELSE Goto(p, [f EXCEPT !.pc = "unlock"])
    /\ UNCHANGED <<db, redis, record>>

RefreshReadSso(p) ==
    LET f == flight[p]
        valid == ActiveSso(f.parent) /\ sso[f.parent].ver = f.ver
    IN
    /\ At(p, "ref_sso")
    /\ Goto(p, [f EXCEPT !.pc = IF valid THEN "issue" ELSE "unlock"])
    /\ UNCHANGED <<db, redis, record>>

\* Rotate reads the version, then updates by id alone: two statements.
RotateCheck(p) ==
    LET f == flight[p] IN
    /\ At(p, "rot_check")
    /\ Goto(p, [f EXCEPT !.pc = IF session[f.row].version = f.seen
                                THEN "rot_write" ELSE "clean_get"])
    /\ UNCHANGED <<db, redis, record>>

\* Mutant: the update of Rotate also resets the status.
RotateReactivates(p) ==
    LET f == flight[p] IN
    /\ At(p, "rot_write") /\ AppRowFree(f.row)
    /\ session' = [session EXCEPT ![f.row].tok = f.new, ![f.row].expired = FALSE,
                                  ![f.row].status = "active", ![f.row].version = @ + 1]
    /\ Goto(p, [f EXCEPT !.pc = "touch"])
    /\ UNCHANGED <<userVersion, password, sso, redis, record>>

RotateWrite(p) ==
    LET f == flight[p] IN
    /\ At(p, "rot_write") /\ AppRowFree(f.row)
    /\ session' = [session EXCEPT ![f.row].tok = f.new, ![f.row].expired = FALSE,
                                  ![f.row].version = @ + 1]
    /\ Goto(p, [f EXCEPT !.pc = "touch"])
    /\ UNCHANGED <<userVersion, password, sso, redis, record>>

SaveGrace(p) ==
    LET f == flight[p] IN
    /\ At(p, "save_grace")
    /\ grace' = [grace EXCEPT ![f.tok] = f.new]
    /\ Goto(p, [f EXCEPT !.pc = "unlock", !.res = f.new])
    /\ UNCHANGED <<db, device, lock, record>>

\* The deferred UnLock deletes the key, whoever holds it.
UnLock(p) ==
    LET f == flight[p] IN
    /\ At(p, "unlock")
    /\ lock' = lock \ {f.tok}
    /\ Goto(p, [NoFlight EXCEPT !.op = "refresh", !.pc = "respond", !.res = f.res])
    /\ UNCHANGED <<db, device, grace, record>>

-----------------------------------------------------------------------------
(* Failures of a store call inside Login, ExchangeSSO and RefreshToken     *)

\* Where each step goes on when its store call fails.  A failed TryLock is taken
\* for a held lock, a failed query for a missing row, a failed SaveGracePeriod
\* is ignored, a failed write calls cleanupIssuedRefreshToken.
OnError == [ref_lock |-> "ref_wait", ref_find |-> "ref_grace", ref_user |-> "unlock",
            ref_sso |-> "unlock", issue |-> "unlock", save_grace |-> "unlock",
            persist |-> "clean_get", rot_check |-> "clean_get", rot_write |-> "clean_get",
            touch |-> "clean_get", clean_get |-> "unlock", clean_del |-> "unlock"]

\* Any other failure ends the request: Crash.
StoreFails(p) ==
    LET f == flight[p] IN
    /\ Fault
    /\ f.pc \in DOMAIN OnError
    /\ f.pc \in {"issue", "clean_get", "clean_del"} => f.op = "refresh"
    /\ Goto(p, [f EXCEPT !.pc = OnError[f.pc],
                         !.res = IF f.pc = "save_grace" THEN f.new ELSE None])
    /\ UNCHANGED <<db, redis, issued, handed>>

AfterCleanup(p) ==
    IF flight[p].op = "refresh" THEN [flight[p] EXCEPT !.pc = "unlock"] ELSE NoFlight

\* DeleteAppSession clears the field whatever token it holds by then.
CleanGet(p) ==
    LET f == flight[p] IN
    /\ At(p, "clean_get")
    /\ Goto(p, IF device[f.slot] = None THEN AfterCleanup(p) ELSE [f EXCEPT !.pc = "clean_del"])
    /\ UNCHANGED <<db, redis, record>>

\* Mutant: the field is set to "" instead of deleted.
CleanBlanks(p) ==
    /\ At(p, "clean_del")
    /\ device' = [device EXCEPT ![flight[p].slot] = ""]
    /\ Goto(p, AfterCleanup(p))
    /\ UNCHANGED <<db, lock, grace, record>>

CleanDel(p) ==
    /\ At(p, "clean_del")
    /\ device' = [device EXCEPT ![flight[p].slot] = None]
    /\ Goto(p, AfterCleanup(p))
    /\ UNCHANGED <<db, lock, grace, record>>

-----------------------------------------------------------------------------
(* Logout                                                                  *)

Logout(p, s) ==
    /\ At(p, "idle")
    /\ Goto(p, [NoFlight EXCEPT !.op = "logout", !.pc = "out_get", !.slot = s])
    /\ UNCHANGED <<db, redis, record>>

\* DeleteAppSession: HGET, then HDEL.
LogoutGet(p) ==
    LET f == flight[p] IN
    /\ At(p, "out_get")
    /\ Goto(p, [f EXCEPT !.tok = device[f.slot],
                         !.pc = IF device[f.slot] = None THEN "respond" ELSE "out_del"])
    /\ UNCHANGED <<db, redis, record>>

LogoutDel(p) ==
    LET f == flight[p] IN
    /\ At(p, "out_del")
    /\ device' = [device EXCEPT ![f.slot] = None]
    /\ Goto(p, [f EXCEPT !.pc = "out_find"])
    /\ UNCHANGED <<db, lock, grace, record>>

\* A token without a row is a success.
LogoutFind(p) ==
    LET f == flight[p] IN
    /\ At(p, "out_find")
    /\ IF RowsOf(f.tok) = {}
       THEN Goto(p, [f EXCEPT !.pc = "respond"])
       ELSE \E id \in RowsOf(f.tok) : Goto(p, [f EXCEPT !.pc = "out_revoke", !.row = id])
    /\ UNCHANGED <<db, redis, record>>

LogoutRevoke(p) ==
    LET f == flight[p] IN
    /\ At(p, "out_revoke") /\ AppRowFree(f.row)
    /\ session' = [session EXCEPT ![f.row].status = "revoked"]
    /\ Goto(p, [f EXCEPT !.pc = "respond"])
    /\ UNCHANGED <<userVersion, password, sso, redis, record>>

-----------------------------------------------------------------------------
(* LogoutAllSessions and ChangePassword: one READ COMMITTED transaction    *)

\* BumpUserVersion locks the user row, so these transactions exclude each other.
TxBegin(p) ==
    /\ At(p, "idle") /\ userVersion < MaxVersion
    /\ \A q \in Proc : flight[q].pc \notin TxSteps
    /\ Goto(p, [NoFlight EXCEPT !.op = "revoke_all", !.pc = "tx_sso"])
    /\ UNCHANGED <<db, redis, record>>

\* RevokeByUserID locks the active rows that are committed when it runs.
TxRevokeSso(p) ==
    /\ At(p, "tx_sso")
    /\ Goto(p, [flight[p] EXCEPT !.pc = "tx_app",
                                 !.hitSso = {id \in Token : sso[id].status = "active"}])
    /\ UNCHANGED <<db, redis, record>>

TxRevokeApp(p) ==
    /\ At(p, "tx_app")
    /\ Goto(p, [flight[p] EXCEPT !.pc = "tx_commit",
                                 !.hitApp = {id \in Token : session[id].status = "active"}])
    /\ UNCHANGED <<db, redis, record>>

\* Mutant: ChangePassword forgets to bump user_version.
TxCommitKeepsVersion(p) ==
    LET f == flight[p] IN
    /\ At(p, "tx_commit")
    /\ password' \in {password, password + 1}
    /\ sso' = [id \in Token |-> IF id \in f.hitSso THEN [sso[id] EXCEPT !.status = "revoked"]
                                                   ELSE sso[id]]
    /\ session' = [id \in Token |-> IF id \in f.hitApp
                                    THEN [session[id] EXCEPT !.status = "revoked"]
                                    ELSE session[id]]
    /\ Finish(p)
    /\ UNCHANGED <<userVersion, redis, record>>

TxCommit(p) ==
    LET f == flight[p] IN
    /\ At(p, "tx_commit")
    /\ userVersion' = userVersion + 1
    /\ password' \in {password, password + 1}  \* LogoutAllSessions, ChangePassword
    /\ sso' = [id \in Token |-> IF id \in f.hitSso THEN [sso[id] EXCEPT !.status = "revoked"]
                                                   ELSE sso[id]]
    /\ session' = [id \in Token |-> IF id \in f.hitApp
                                    THEN [session[id] EXCEPT !.status = "revoked"]
                                    ELSE session[id]]
    /\ Finish(p)
    /\ UNCHANGED <<redis, record>>

-----------------------------------------------------------------------------
(* The environment                                                         *)

\* The request is cancelled, or its instance dies: a transaction rolls back, a
\* lock waits for its TTL.
Crash(p) ==
    /\ Fault
    /\ ~At(p, "idle")
    /\ Finish(p)
    /\ UNCHANGED <<db, redis, issued, handed>>

\* p is between TryLock(t) and its deferred UnLock.
Holds(p, t) ==
    /\ flight[p].op = "refresh" /\ flight[p].tok = t
    /\ flight[p].pc \in LockedSteps \cup {"issue", "touch", "clean_get", "clean_del"}

LockExpire(t) ==
    /\ t \in lock
    /\ SlowHandlers \/ \A p \in Proc : ~Holds(p, t)
    /\ lock' = lock \ {t}
    /\ UNCHANGED <<db, device, grace, flight, record>>

GraceExpire(t) ==
    /\ Fault
    /\ grace[t] # None
    /\ grace' = [grace EXCEPT ![t] = None]
    /\ UNCHANGED <<db, device, lock, flight, issued, handed>>

ExpireSession(id) ==
    /\ Fault
    /\ ActiveSession(id)
    /\ session' = [session EXCEPT ![id].expired = TRUE]
    /\ UNCHANGED <<userVersion, password, sso, redis, flight, issued, handed>>

ExpireSso(id) ==
    /\ Fault
    /\ ActiveSso(id)
    /\ sso' = [sso EXCEPT ![id].expired = TRUE]
    /\ UNCHANGED <<userVersion, password, session, redis, flight, issued, handed>>

-----------------------------------------------------------------------------
LoginNext(p) ==
    \/ \E s \in Slot : LoginReadIdentity(p, s)
    \/ \E id \in Token, s \in Slot : ExchangeReadSso(p, id, s)
    \/ LoginReadUser(p) \/ ExchangeReadUser(p)
    \/ Issue(p) \/ Persist(p) \/ Touch(p) \/ Respond(p)

RefreshNext(p) ==
    \/ \E t \in Token : RefreshStart(p, t)
    \/ TryLock(p) \/ TryLockBusy(p) \/ RefreshWait(p)
    \/ RefreshFind(p) \/ RefreshGrace(p) \/ RefreshReadUser(p) \/ RefreshReadSso(p)
    \/ RotateCheck(p) \/ RotateWrite(p) \/ SaveGrace(p) \/ UnLock(p)

FailNext(p) ==
    StoreFails(p) \/ CleanGet(p) \/ CleanDel(p) \/ Crash(p)

LogoutNext(p) ==
    \/ \E s \in Slot : Logout(p, s)
    \/ LogoutGet(p) \/ LogoutDel(p) \/ LogoutFind(p) \/ LogoutRevoke(p)

TxNext(p) ==
    \/ TxBegin(p) \/ TxRevokeSso(p) \/ TxRevokeApp(p) \/ TxCommit(p)

Expiry == \E t \in Token : LockExpire(t) \/ GraceExpire(t) \/ ExpireSession(t) \/ ExpireSso(t)

Next ==
    \/ \E p \in Proc : LoginNext(p) \/ RefreshNext(p) \/ FailNext(p) \/ LogoutNext(p) \/ TxNext(p)
    \/ Expiry

Spec == Init /\ [][Next]_vars

-----------------------------------------------------------------------------
(* Properties                                                              *)

\* LogoutAllSessions and ChangePassword are final.  A pair whose access token
\* carries the current user_version, obtained with a refresh token or an SSO
\* token, was obtained with one that was handed out at this version: nothing a
\* client held before the bump buys a pair that is good after it, however the
\* version reads of RefreshToken and ExchangeSSO interleave with the commit.
LogoutAllIsFinal ==
    \A t \in Token :
        issued[t].op \in {"sso", "refresh"} /\ issued[t].ver = userVersion
            => issued[t].cred = userVersion

\* A refresh token is spent once.  All clients that present it, at the same time
\* on several instances or again within the grace period, are answered with the
\* same pair, so none of them is left with a token that another one replaced.
OneSuccessor ==
    \A t, u \in Token :
        /\ issued[t].op = "refresh" /\ issued[u].op = "refresh"
        /\ issued[t].from = issued[u].from
        /\ Handed(t) /\ Handed(u)
        => t = u

\* Logout "does not affect the user's other devices": the row it is about to
\* revoke, found through the token that Redis held for the field, belongs to the
\* (app_code, device_id) of the request, although the Redis field and the row are
\* written by different steps of other requests.
LogoutHitsItsDevice ==
    \A p \in Proc : At(p, "out_revoke") => session[flight[p].row].slot = flight[p].slot

\* ChangePassword "invalidates all previous sessions".  A live session goes back to
\* a login that was let in by an earlier password only if that login ran across the
\* commit of the change: the hash it compared was read before, the user_version it
\* issued with was read after.  No other interleaving keeps an old password alive.
OldPasswordOnlyByOverlap ==
    \A id \in Token :
        NotRevoked(id) /\ issued[id].op = "login" /\ issued[id].pw # password
            => issued[id].cred < issued[id].ver

\* The rows implement SessionContract: a session opens once, its token is
\* replaced only while it lives, and once ended (logged out, or swept away with
\* all the others) it never lives again, expiry aside.
Phase == [id \in Token |-> CASE session[id].status = "none" -> "none"
                             [] NotRevoked(id)              -> "live"
                             [] OTHER                       -> "ended"]
Current == [id \in Token |-> IF NotRevoked(id) THEN session[id].tok ELSE None]

Contract == INSTANCE SessionContract WITH Session <- Token, phase <- Phase, current <- Current
ContractSpec == Contract!Spec

-----------------------------------------------------------------------------
(* The inductive invariant behind LogoutAllIsFinal and LogoutHitsItsDevice: *)
(* a token keeps the version and the field it was minted with, and every    *)
(* row, Redis entry and flight that mentions it agrees with them.           *)

Minted(t) == t \in Token /\ issued[t].op # "none"

\* No credential is older than what it buys.
TokensOK ==
    \A t \in Token : Minted(t) =>
        /\ issued[t].ver <= userVersion /\ issued[t].cred <= userVersion
        /\ issued[t].slot \in Slot
        /\ issued[t].op \in {"sso", "refresh"} => issued[t].ver <= issued[t].cred

HandedOK ==
    \A t \in Token :
        /\ Handed(t) => Minted(t) /\ issued[t].ver <= handed[t] /\ handed[t] <= userVersion
        /\ grace[t] # None => Minted(grace[t])

\* A row agrees with the token it was created with and with the current one.
RowAgrees(id, t) ==
    Minted(t) /\ session[id].ver = issued[t].ver /\ session[id].slot = issued[t].slot
RowsOK ==
    \A id \in Token :
        /\ session[id].status # "none" => RowAgrees(id, id) /\ RowAgrees(id, session[id].tok)
        /\ sso[id].status # "none" => Minted(id) /\ sso[id].ver = issued[id].ver

DeviceOK ==
    \A s \in Slot : device[s] # None => Minted(device[s]) /\ issued[device[s]].slot = s

\* What a flight has read stays true while it runs.
FlightOK(f) ==
    /\ f.ver <= userVersion /\ f.cred <= userVersion
    /\ f.res # None => Minted(f.res)
    /\ \A id \in f.hitSso : sso[id].status # "none"
    /\ \A id \in f.hitApp : session[id].status # "none"
    /\ f.pc \in LockedSteps \cup {"ref_lock"} => f.op = "refresh"
    /\ f.pc = "login_user" => f.op = "login"
    /\ f.pc = "exch_user" => f.op = "sso"
    /\ f.pc = "issue" => f.op \in {"login", "sso", "refresh"}
    /\ f.pc = "persist" => f.op \in {"login", "sso"}
    /\ f.pc \in {"login_user", "exch_user", "ref_user", "ref_sso", "issue", "persist", "out_get"} =>
          f.slot \in Slot
    /\ f.pc \in {"ref_lock", "ref_find", "ref_wait", "ref_grace"} => f.tok \in Token
    /\ f.pc \in {"ref_lock", "ref_find"} => Handed(f.tok) /\ f.cred = handed[f.tok]
    /\ f.pc \in {"exch_user", "ref_user", "ref_sso", "issue"} /\ f.op # "login" => f.ver <= f.cred
    /\ \/ f.pc \in {"ref_user", "ref_sso", "rot_check", "rot_write"}
       \/ f.pc = "issue" /\ f.op = "refresh"
       => /\ f.row \in Token /\ session[f.row].status # "none"
          /\ session[f.row].ver = f.ver /\ session[f.row].slot = f.slot
    /\ f.pc \in {"persist", "rot_check", "rot_write", "touch", "save_grace"} =>
          Minted(f.new) /\ issued[f.new].ver = f.ver /\ issued[f.new].slot = f.slot
    /\ f.pc \in {"out_del", "out_find"} => Minted(f.tok) /\ issued[f.tok].slot = f.slot
    /\ f.pc = "out_revoke" =>
          f.row \in Token /\ session[f.row].status # "none" /\ session[f.row].slot = f.slot

IInv == TypeOK /\ TokensOK /\ HandedOK /\ RowsOK /\ DeviceOK /\ \A p \in Proc : FlightOK(flight[p])

=============================================================================
