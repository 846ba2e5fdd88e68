------------------------------ MODULE Accounts ------------------------------
(***************************************************************************)
(* The accounts of the identity service (service/account, the sign-up half *)
(* of service/auth/phone_auth.go, and the stores under them): rows of      *)
(* users, profiles, user_identities and event_outbox in Postgres.          *)
(*                                                                         *)
(* A handler is a FLIGHT: the steps between two statements, interleaved    *)
(* with those of every other flight.  A registration inserts in one        *)
(* transaction; (provider, provider_uid) is unique, so an INSERT waits for *)
(* an uncommitted row with its key and fails on a committed one.  Register *)
(* is called by the gateway, whose gRPC client repeats a call that it got  *)
(* no answer to.  Sessions are left to AuthSession: ChangePassword's       *)
(* revocations and what PhoneAuthEntry does once it has its user.          *)
(***************************************************************************)
EXTENDS Naturals, Sequences, FiniteSets

CONSTANTS
    Proc,      \* handlers that run at the same time
    User,      \* user ids (idgen): fresh when drawn
    Phone, Email, Name,   \* what identifies a user, per provider
    Password,  \* passwords
    Call,      \* Register calls of the gateway
    None,      \* absent value, empty hash
    MaxTries,  \* attempts per call
    MaxFaults  \* bound on lost answers, failed statements and crashes

Key == Phone \cup Email \cup Name

ASSUME NoneAssumption == None \notin User \cup Key \cup Password \cup Call \cup Proc
ASSUME KeyAssumption ==
    Phone \cap Email = {} /\ Phone \cap Name = {} /\ Email \cap Name = {}
ASSUME BoundAssumption == MaxTries \in Nat /\ MaxFaults \in Nat

VARIABLES
    account,   \* committed users, each with its profile
    identity,  \* committed user_identities: owner and credential hash of a key
    outbox,    \* committed event_outbox rows, in commit order: the user of each
    flight,    \* the handler each Proc is running
    call,      \* what the gateway knows of each Register call
    drawn,     \* ids that idgen has handed out
    maker,     \* history: the call that registered a user
    faults     \* history: faults so far

vars == <<account, identity, outbox, flight, call, drawn, maker, faults>>

-----------------------------------------------------------------------------
OptUser == User \cup {None}
OptPassword == Password \cup {None}
IdentityRow == [user : OptUser, hash : OptPassword]

Flight == [op : {"none", "register", "phone", "bind", "set", "change"},
           pc : {"idle", "find", "insert", "event", "commit", "again", "write", "done", "refused"},
           user : OptUser,
           todo : Seq(Key),        \* identities its transaction has still to insert
           mine : SUBSET Key,      \* those it has inserted and not committed
           event : BOOLEAN,        \* it has appended its event, not committed
           key : Key \cup {None},  \* the phone, or the email to bind
           old : OptPassword,      \* the password it has checked
           new : OptPassword,      \* the password it writes
           call : Call \cup {None},
           stale : BOOLEAN]        \* history: what it has checked has changed since

CallRow == [state : {"new", "open", "ok", "refused", "failed"},
            keys : Seq(Key), pw : OptPassword, tries : Nat,
            at : Proc \cup {None},  \* the handler whose answer it waits for
            lost : BOOLEAN]         \* history: an attempt got no answer

Idle == [op |-> "none", pc |-> "idle", user |-> None, todo |-> <<>>, mine |-> {}, event |-> FALSE,
         key |-> None, old |-> None, new |-> None, call |-> None, stale |-> FALSE]
NotCalled == [state |-> "new", keys |-> <<>>, pw |-> None, tries |-> 0, at |-> None, lost |-> FALSE]
Free == [user |-> None, hash |-> None]

TypeOK ==
    /\ account \in SUBSET User
    /\ identity \in [Key -> IdentityRow]
    /\ outbox \in Seq(User)
    /\ flight \in [Proc -> Flight]
    /\ call \in [Call -> CallRow]
    /\ drawn \in SUBSET User
    /\ maker \in [User -> Call \cup {None}]
    /\ faults \in Nat

Init ==
    /\ account = {}
    /\ identity = [k \in Key |-> Free]
    /\ outbox = <<>>
    /\ flight = [p \in Proc |-> Idle]
    /\ call = [c \in Call |-> NotCalled]
    /\ drawn = {}
    /\ maker = [u \in User |-> None]
    /\ faults = 0

-----------------------------------------------------------------------------
At(p, step) == flight[p].pc = step
Goto(p, f)  == flight' = [flight EXCEPT ![p] = f]
Fault       == faults < MaxFaults /\ faults' = faults + 1

\* ListByUserID
KeysOf(u) == {k \in Key : identity[k].user = u}
Hashes(u) == {identity[k].hash : k \in KeysOf(u)} \ {None}

\* The unique index makes an INSERT of the key wait for q's transaction.
Holds(q, k) == k \in flight[q].mine

\* p ends its statement with f; a write to u outdates what the others in hit, which
\* have checked u and not yet written, know of it.
GotoHitting(p, f, u, hit) ==
    flight' = [q \in Proc |-> IF q = p THEN f
                              ELSE [flight[q] EXCEPT !.stale =
                                    @ \/ (flight[q].user = u /\ flight[q].op \in hit /\ At(q, "write"))]]

-----------------------------------------------------------------------------
(* The gateway's Register call                                             *)

\* A client registers; phone, email, username and password are all required.
Ask(c, h, e, n, w) ==
    /\ call[c].state = "new"
    /\ call' = [call EXCEPT ![c] = [NotCalled EXCEPT !.state = "open", !.keys = <<h, e, n>>, !.pw = w]]
    /\ UNCHANGED <<account, identity, outbox, flight, drawn, maker, faults>>

\* An attempt reaches the service.  RegisterUserWithProfile begins a transaction,
\* draws an id and inserts the user and an empty profile.
RegisterBegin(p, c, u) ==
    LET k == call[c] IN
    /\ k.state = "open" /\ k.at = None /\ k.tries < MaxTries
    /\ At(p, "idle")
    /\ u \notin drawn
    /\ drawn' = drawn \cup {u}
    /\ call' = [call EXCEPT ![c].at = p, ![c].tries = @ + 1]
    /\ Goto(p, [Idle EXCEPT !.op = "register", !.pc = "insert", !.user = u, !.todo = k.keys,
                            !.new = k.pw, !.call = c])
    /\ UNCHANGED <<account, identity, outbox, maker, faults>>

\* The gateway gets no answer to an attempt: it repeats the call after UNAVAILABLE,
\* up to MaxTries, and gives up after its deadline or another error.
NoAnswer(c) ==
    \E state \in IF call[c].tries < MaxTries THEN {"open", "failed"} ELSE {"failed"} :
        call' = [call EXCEPT ![c].at = None, ![c].lost = TRUE, ![c].state = state]

\* The connection breaks or the deadline passes; the handler may run on.
LoseAnswer(c) ==
    /\ call[c].at # None
    /\ Fault
    /\ NoAnswer(c)
    /\ UNCHANGED <<account, identity, outbox, flight, drawn, maker>>

\* The handler answers; an answer nobody waits for is dropped.
Respond(p) ==
    LET f == flight[p] IN
    /\ f.pc \in {"done", "refused"}
    /\ Goto(p, Idle)
    /\ call' = IF f.call # None /\ call[f.call].at = p
               THEN [call EXCEPT ![f.call].at = None,
                                 ![f.call].state = IF f.pc = "done" THEN "ok" ELSE "refused"]
               ELSE call
    /\ UNCHANGED <<account, identity, outbox, drawn, maker, faults>>

-----------------------------------------------------------------------------
(* RegisterUserWithProfile                                                 *)

\* Mutant: the identities are inserted in no particular order.
InsertAnyOrder(p) ==
    LET f == flight[p] IN
    /\ At(p, "insert") /\ f.todo # <<>>
    /\ \E i \in DOMAIN f.todo :
          LET k    == f.todo[i]
              rest == SelectSeq(f.todo, LAMBDA x : x # k)
          IN
          /\ \A q \in Proc \ {p} : ~Holds(q, k)
          /\ Goto(p, IF identity[k].user = None
                     THEN [f EXCEPT !.todo = rest, !.mine = @ \cup {k},
                                    !.pc = IF rest = <<>> THEN "event" ELSE "insert"]
                     ELSE [f EXCEPT !.todo = <<>>, !.mine = {},
                                    !.pc = IF f.op = "phone" THEN "again" ELSE "refused"])
    /\ UNCHANGED <<account, identity, outbox, call, drawn, maker, faults>>

\* Mutant: a key that exists is taken over (ON CONFLICT DO UPDATE).
InsertUpserts(p) ==
    LET f == flight[p]
        k == Head(f.todo)
    IN
    /\ At(p, "insert")
    /\ \A q \in Proc \ {p} : ~Holds(q, k)
    /\ Goto(p, [f EXCEPT !.todo = Tail(@), !.mine = @ \cup {k},
                         !.pc = IF Tail(f.todo) = <<>> THEN "event" ELSE "insert"])
    /\ UNCHANGED <<account, identity, outbox, call, drawn, maker, faults>>

\* createLocalIdentities: phone, then email, then username.  A duplicate key rolls
\* the transaction back; registerUserByPhone then looks the phone up again.
Insert(p) ==
    LET f == flight[p]
        k == Head(f.todo)
    IN
    /\ At(p, "insert")
    /\ \A q \in Proc \ {p} : ~Holds(q, k)
    /\ Goto(p, IF identity[k].user = None
               THEN [f EXCEPT !.todo = Tail(@), !.mine = @ \cup {k},
                              !.pc = IF Tail(f.todo) = <<>> THEN "event" ELSE "insert"]
               ELSE [f EXCEPT !.todo = <<>>, !.mine = {},
                              !.pc = IF f.op = "phone" THEN "again" ELSE "refused"])
    /\ UNCHANGED <<account, identity, outbox, call, drawn, maker, faults>>

\* Mutant: the event is appended with ctx instead of txCtx.
AppendOutside(p) ==
    /\ At(p, "event")
    /\ outbox' = Append(outbox, flight[p].user)
    /\ Goto(p, [flight[p] EXCEPT !.pc = "commit"])
    /\ UNCHANGED <<account, identity, call, drawn, maker, faults>>

\* Outbox.Append inside the transaction.
AppendEvent(p) ==
    /\ At(p, "event")
    /\ Goto(p, [flight[p] EXCEPT !.event = TRUE, !.pc = "commit"])
    /\ UNCHANGED <<account, identity, outbox, call, drawn, maker, faults>>

\* WithTx commits.  The answer may get lost, or the process die, right after.
Commit(p) ==
    LET f == flight[p] IN
    /\ At(p, "commit")
    /\ account' = account \cup {f.user}
    /\ identity' = [k \in Key |-> IF k \in f.mine THEN [user |-> f.user, hash |-> f.new]
                                                  ELSE identity[k]]
    /\ outbox' = IF f.event THEN Append(outbox, f.user) ELSE outbox
    /\ maker' = [maker EXCEPT ![f.user] = f.call]
    /\ Goto(p, [f EXCEPT !.mine = {}, !.event = FALSE,
                         !.pc = IF f.op = "phone" THEN "again" ELSE "done"])
    /\ UNCHANGED <<call, drawn, faults>>

-----------------------------------------------------------------------------
(* PhoneAuthEntry, up to the user it signs in                              *)

\* The code has been verified by the SMS service, and consumed.
PhoneBegin(p, h) ==
    /\ At(p, "idle")
    /\ Goto(p, [Idle EXCEPT !.op = "phone", !.pc = "find", !.key = h])
    /\ UNCHANGED <<account, identity, outbox, call, drawn, maker, faults>>

\* findOrRegisterByPhone
PhoneFind(p) ==
    LET f == flight[p]
        u == identity[f.key].user
    IN
    /\ At(p, "find")
    /\ u # None
    /\ Goto(p, [f EXCEPT !.user = u, !.pc = "done"])
    /\ UNCHANGED <<account, identity, outbox, call, drawn, maker, faults>>

PhoneRegister(p, u) ==
    LET f == flight[p] IN
    /\ At(p, "find")
    /\ identity[f.key].user = None
    /\ u \notin drawn
    /\ drawn' = drawn \cup {u}
    /\ Goto(p, [f EXCEPT !.user = u, !.todo = <<f.key>>, !.pc = "insert"])
    /\ UNCHANGED <<account, identity, outbox, call, maker, faults>>

\* Mutant: after a conflict the handler goes on with the user it meant to create.
PhoneAgainOwn(p) ==
    /\ At(p, "again")
    /\ Goto(p, [flight[p] EXCEPT !.pc = "done"])
    /\ UNCHANGED <<account, identity, outbox, call, drawn, maker, faults>>

\* registerUserByPhone looks the identity up, after its own commit and after a
\* conflict alike.
PhoneAgain(p) ==
    LET f == flight[p]
        u == identity[f.key].user
    IN
    /\ At(p, "again")
    /\ Goto(p, IF u = None THEN [f EXCEPT !.pc = "refused"] ELSE [f EXCEPT !.user = u, !.pc = "done"])
    /\ UNCHANGED <<account, identity, outbox, call, drawn, maker, faults>>

-----------------------------------------------------------------------------
(* BindEmail, SetPassword, ChangePassword                                  *)

\* BindEmail reads the identities: nothing to do if the email is bound already,
\* refused if another one is.
BindRead(p, u, e) ==
    /\ At(p, "idle")
    /\ u \in account
    /\ KeysOf(u) \cap Email = {}
    /\ Goto(p, [Idle EXCEPT !.op = "bind", !.pc = "write", !.user = u, !.key = e])
    /\ UNCHANGED <<account, identity, outbox, call, drawn, maker, faults>>

\* The identity is created verified and without a credential hash.
BindWrite(p) ==
    LET f    == flight[p]
        free == identity[f.key].user = None
    IN
    /\ At(p, "write") /\ f.op = "bind"
    /\ \A q \in Proc \ {p} : ~Holds(q, f.key)
    /\ identity' = IF free THEN [identity EXCEPT ![f.key] = [user |-> f.user, hash |-> None]]
                   ELSE identity
    /\ GotoHitting(p, [Idle EXCEPT !.pc = IF free THEN "done" ELSE "refused"], f.user,
                   IF free THEN {"bind"} ELSE {})
    /\ UNCHANGED <<account, outbox, call, drawn, maker, faults>>

\* Mutant: an account counts as without password when one identity has none.
SetReadAnyEmpty(p, u, w) ==
    /\ At(p, "idle")
    /\ u \in account
    /\ \E k \in KeysOf(u) : identity[k].hash = None
    /\ Goto(p, [Idle EXCEPT !.op = "set", !.pc = "write", !.user = u, !.new = w])
    /\ UNCHANGED <<account, identity, outbox, call, drawn, maker, faults>>

\* SetPassword: only for an account without a password.
SetRead(p, u, w) ==
    /\ At(p, "idle")
    /\ u \in account
    /\ Hashes(u) = {}
    /\ Goto(p, [Idle EXCEPT !.op = "set", !.pc = "write", !.user = u, !.new = w])
    /\ UNCHANGED <<account, identity, outbox, call, drawn, maker, faults>>

\* ChangePassword compares the old password with the first hash it finds.
ChangeRead(p, u, w) ==
    /\ At(p, "idle")
    /\ u \in account
    /\ \E old \in Hashes(u) :
          Goto(p, [Idle EXCEPT !.op = "change", !.pc = "write", !.user = u, !.old = old, !.new = w])
    /\ UNCHANGED <<account, identity, outbox, call, drawn, maker, faults>>

\* Mutant: only the identities that carry the checked hash are updated.
PasswordWriteChecked(p) ==
    LET f == flight[p] IN
    /\ At(p, "write") /\ f.op \in {"set", "change"}
    /\ identity' = [k \in Key |-> IF k \in KeysOf(f.user) /\ identity[k].hash = f.old
                                  THEN [identity[k] EXCEPT !.hash = f.new] ELSE identity[k]]
    /\ GotoHitting(p, [Idle EXCEPT !.pc = "done"], f.user, {"set", "change"})
    /\ UNCHANGED <<account, outbox, call, drawn, maker, faults>>

\* UpdatePasswordCredentialsByUserID: one UPDATE of all local identities.
PasswordWrite(p) ==
    LET f == flight[p] IN
    /\ At(p, "write") /\ f.op \in {"set", "change"}
    /\ identity' = [k \in Key |-> IF k \in KeysOf(f.user) THEN [identity[k] EXCEPT !.hash = f.new]
                                  ELSE identity[k]]
    /\ GotoHitting(p, [Idle EXCEPT !.pc = "done"], f.user, {"set", "change"})
    /\ UNCHANGED <<account, outbox, call, drawn, maker, faults>>

-----------------------------------------------------------------------------
\* A statement fails, the request is cancelled or the process dies: the transaction
\* rolls back, and a caller that still waits gets an error or none at all.
Crash(p) ==
    LET f == flight[p] IN
    /\ ~At(p, "idle")
    /\ Fault
    /\ Goto(p, Idle)
    /\ IF f.call # None /\ call[f.call].at = p THEN NoAnswer(f.call) ELSE UNCHANGED call
    /\ UNCHANGED <<account, identity, outbox, drawn, maker>>

RegisterNext(p) ==
    \/ \E c \in Call, u \in User : RegisterBegin(p, c, u)
    \/ Insert(p) \/ AppendEvent(p) \/ Commit(p) \/ Respond(p)
PhoneNext(p) ==
    \/ \E h \in Phone : PhoneBegin(p, h)
    \/ PhoneFind(p) \/ PhoneAgain(p) \/ \E u \in User : PhoneRegister(p, u)
ChangeNext(p) ==
    \/ \E u \in User, e \in Email : BindRead(p, u, e)
    \/ \E u \in User, w \in Password : SetRead(p, u, w) \/ ChangeRead(p, u, w)
    \/ BindWrite(p) \/ PasswordWrite(p)
CallNext ==
    \E c \in Call :
        \/ LoseAnswer(c)
        \/ \E h \in Phone, e \in Email, n \in Name, w \in Password : Ask(c, h, e, n, w)

Next == CallNext \/ \E p \in Proc : RegisterNext(p) \/ PhoneNext(p) \/ ChangeNext(p) \/ Crash(p)
Spec == Init /\ [][Next]_vars

-----------------------------------------------------------------------------
(* Properties                                                              *)

Events(u) == {i \in DOMAIN outbox : outbox[i] = u}

\* Registration is all or nothing, whatever fails or races with it: a user that
\* exists can sign in with at least one identity and has exactly one
\* UserRegistered event, and there is no event nor identity of a user that does
\* not exist.
AccountsWhole ==
    /\ \A u \in account : KeysOf(u) # {} /\ Cardinality(Events(u)) = 1
    /\ \A i \in DOMAIN outbox : outbox[i] \in account
    /\ \A k \in Key : identity[k].user # None => identity[k].user \in account

\* The unique keys that transactions wait for never close a cycle, whatever phone,
\* email and username the concurrent registrations share.
Waits(p, q) == At(p, "insert") /\ q # p /\ Holds(q, Head(flight[p].todo))
NoWaitCycle ==
    \A S \in SUBSET Proc : S # {} => \E p \in S : \A q \in S : ~Waits(p, q)

\* A user has one password.  All local identities accept it, except an email that
\* was bound after the password was set (it takes the next one).
OnePassword ==
    \A k, m \in Key :
        /\ identity[k].user # None /\ identity[k].user = identity[m].user
        /\ identity[k].hash # None /\ identity[k].hash # identity[m].hash
        => identity[m].hash = None /\ m \in Email

\* What a handler has checked still holds when it writes, unless another request
\* changed the same account in between: BindEmail adds the first email, SetPassword
\* the first password, ChangePassword replaces the password that was presented.
ChecksHold ==
    \A p \in Proc : LET f == flight[p] IN
        At(p, "write") /\ ~f.stale =>
            CASE f.op = "bind"   -> KeysOf(f.user) \cap Email = {}
              [] f.op = "set"    -> Hashes(f.user) = {}
              [] f.op = "change" -> f.old \in Hashes(f.user)

\* A verified phone always gets in: PhoneAuthEntry is never refused by a conflict
\* and ends at the one account that owns the phone, also when several entries and
\* registrations of that phone run at the same time.
PhoneFindsItsOwner ==
    \A p \in Proc : LET f == flight[p] IN
        f.op = "phone" =>
            /\ ~At(p, "refused")
            /\ At(p, "done") => f.user \in account /\ identity[f.key].user = f.user

\* Repeating Register is safe: a call creates at most one account, "ok" means that
\* it created one, and it is refused in favour of its own account only when the
\* answer to an earlier attempt was lost.
RetriesAreSafe ==
    \A c \in Call : LET made == {u \in account : maker[u] = c} IN
        /\ Cardinality(made) <= 1
        /\ call[c].state = "ok" => made # {}
        /\ call[c].state = "refused" /\ made # {} => call[c].lost

=============================================================================
