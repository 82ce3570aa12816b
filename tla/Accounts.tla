------------------------------- MODULE Accounts -------------------------------
(***************************************************************************)
(* The life of an account: registration, verification and resend in the    *)
(* gateways (internal/gateway/registration.go and verification.go), and    *)
(* the sweep of abandoned pending accounts run by the maintenance grain    *)
(* (internal/grain/maintenance, internal/persistence/accountgc).           *)
(*                                                                         *)
(* Every operation is one PostgreSQL transaction at READ COMMITTED, which  *)
(* is a sequence of statements.  A SELECT reads what is committed and      *)
(* locks nothing.  An UPDATE or DELETE waits for the lock of its row and   *)
(* then looks at the row again, as its last writer committed it.  The lock *)
(* is held to the end of the transaction, so a write takes effect in the   *)
(* Commit step of its transaction.                                         *)
(*                                                                         *)
(* A PIN stands for its hash; a fresh one is a number never used before.   *)
(* Handles and public codes only decide whether an INSERT fails, and a     *)
(* transaction that fails changes nothing.                                 *)
(***************************************************************************)
EXTENDS Integers, Sequences, FiniteSets

CONSTANTS
    Mails,              \* mail addresses, positive numbers
    Gateways,           \* requests the gateways serve at the same time
    Workers,            \* sweep workers alive at the same time
    NoTx,               \* the holder of a row nobody has locked
    PinTTL,             \* RegistrationPolicy.PinTTL
    ResendMinInterval,  \* RegistrationPolicy.ResendMinInterval
    MaxResendCount,     \* RegistrationPolicy.MaxResendCount
    MaxVerifyAttempts,  \* RegistrationPolicy.MaxVerifyAttempts
    CollisionRetries,   \* RegistrationPolicy.CollisionRetries
    Grace,              \* pendingAccountGCGrace
    MaxAccounts,        \* bound: accounts created
    MaxRequests,        \* bound: requests
    MaxFailures,        \* bound: sweeps that fail, panic or outlive their future
    LastSend,           \* bound: the last instant a PIN is issued
    MaxTime             \* bound: the last instant

ASSUME PolicyAssumption ==
    /\ PinTTL \in Nat \ {0}
    /\ {ResendMinInterval, MaxResendCount, CollisionRetries, Grace} \subseteq Nat
    /\ MaxVerifyAttempts \in Nat \ {0}
ASSUME TransactionAssumption ==
    /\ IsFiniteSet(Gateways)
    /\ Gateways \cap Workers = {} /\ NoTx \notin Gateways \cup Workers
ASSUME AccountBounds ==
    {MaxAccounts, MaxRequests, MaxFailures, LastSend, MaxTime} \subseteq Nat

VARIABLES
    now,       \* the clock of the gateways and of the backend
    user,      \* service_user, by id: mail_address and status
    chal,      \* email_verification, by user_id
    lock,      \* the transaction that holds each row
    req,       \* what each gateway request is doing
    worker,    \* what each sweep worker is doing
    running,   \* Grain.running
    awaited,   \* the worker whose reply the grain's future waits for
    pins,      \* PINs issued so far
    mailed,    \* PINs delivered to the address they were issued for
    requests,  \* requests so far
    failures   \* failed sweeps so far

tables == <<user, chal, lock>>
grain  == <<running, awaited>>
vars == <<now, tables, req, worker, grain, pins, mailed, requests, failures>>

Ids  == 1 .. MaxAccounts
Rows == {"user", "challenge"} \X Ids

NoUser == [mail |-> 0, status |-> "none"]
NoChal == [pin |-> 0, expires |-> 0, attempts |-> 0, resends |-> 0, sent |-> 0]
NoReq  == [pc |-> "idle", op |-> "none", mail |-> 0, id |-> 0, pin |-> 0, at |-> 0,
           todo |-> <<>>, raced |-> FALSE, collisions |-> 0]
NoWork == [pc |-> "idle", at |-> 0, victims |-> {}]

Exists(id) == user[id].status \in {"pending", "active"}
Present(row) == IF row[1] = "user" THEN Exists(row[2]) ELSE chal[row[2]].pin # 0
Locked(row, t) == lock[row] \notin {NoTx, t}
Held(t) == {row \in Rows : lock[row] = t}

\* The end of t's transaction lets its rows go.
Release(t) == lock' = [row \in Rows |-> IF lock[row] = t THEN NoTx ELSE lock[row]]

(***************************************************************************)
(* A request to a gateway.                                                  *)
(***************************************************************************)
Goto(g, pc) == req' = [req EXCEPT ![g].pc = pc]

\* WithinTx returns an error, or nothing is left to do: ROLLBACK or empty COMMIT.
Finish(g) ==
    /\ req' = [req EXCEPT ![g] = NoReq]
    /\ Release(g)
    /\ UNCHANGED <<user, chal>>

gateway == <<now, worker, grain, requests, failures>>

\* Register, Verify or Resend is called.  A user types a PIN it got, or another.
Begin(g) ==
    /\ req[g].pc = "idle" /\ requests < MaxRequests
    /\ \E op \in {"register", "verify", "resend"}, m \in Mails, p \in mailed \cup {0} :
          /\ op # "verify" => p = 0
          /\ req' = [req EXCEPT ![g] = [NoReq EXCEPT !.pc = "find", !.op = op,
                                                    !.mail = m, !.pin = p]]
    /\ requests' = requests + 1
    /\ UNCHANGED <<now, tables, worker, grain, pins, mailed, failures>>

Owner(m) == {id \in Ids : Exists(id) /\ user[id].mail = m}

\* FindByEmail, and what each operation makes of the status it reads.
FindByEmail(g) ==
    LET r == req[g] IN
    /\ r.pc = "find"
    /\ \/ /\ Owner(r.mail) = {} /\ r.op = "register"
          /\ Goto(g, "insert") /\ UNCHANGED tables
       \/ \E id \in Owner(r.mail) :
             /\ user[id].status = "pending"
             /\ req' = [req EXCEPT ![g].id = id,
                           ![g].pc = IF r.op = "verify" THEN "challenge" ELSE "resend"]
             /\ UNCHANGED tables
       \/ /\ \A id \in Owner(r.mail) : user[id].status # "pending"
          /\ r.op = "register" => Owner(r.mail) # {}
          /\ Finish(g)
    /\ UNCHANGED <<gateway, pins, mailed>>

\* mutant: no unique index on mail_address, an INSERT waits for nobody
AddressInDoubtNever(g, m) == FALSE

\* Another transaction has written a row with this address and not ended yet.
AddressInDoubt(g, m) ==
    \/ \E id \in Owner(m) : Locked(<<"user", id>>, g)
    \/ \E h \in Gateways \ {g} :
          req[h].pc = "commit" /\ req[h].op = "create" /\ req[h].mail = m

\* A new id: no transaction has used it.
NextId(id) ==
    /\ user[id] = NoUser /\ lock[<<"user", id>>] = NoTx
    /\ \A j \in 1 .. id - 1 : user[j] # NoUser \/ lock[<<"user", j>>] # NoTx

\* createPending: both INSERTs.  The second cannot meet another transaction.
InsertAccount(g) ==
    LET r == req[g] IN
    /\ r.pc = "insert" /\ ~AddressInDoubt(g, r.mail)
    /\ \/ /\ Owner(r.mail) = {} /\ now <= LastSend
          /\ \E id \in Ids :
                /\ NextId(id)
                /\ req' = [req EXCEPT ![g].pc = "commit", ![g].op = "create",
                                      ![g].id = id, ![g].at = now]
                /\ lock' = [lock EXCEPT ![<<"user", id>>] = g, ![<<"challenge", id>>] = g]
          /\ UNCHANGED <<user, chal>>
       \/ /\ Owner(r.mail) # {} /\ ~r.raced           \* errMailAddressInsertRace
          /\ req' = [req EXCEPT ![g].pc = "find", ![g].raced = TRUE]
          /\ UNCHANGED tables
       \/ /\ Owner(r.mail) = {}                       \* ErrUserPublicCodeCollision
          /\ r.collisions < CollisionRetries
          /\ req' = [req EXCEPT ![g].pc = "find", ![g].collisions = @ + 1]
          /\ UNCHANGED tables
       \/ /\ Owner(r.mail) = {} \/ r.raced     \* a taken handle, no id, or the race again
          /\ Finish(g)
    /\ UNCHANGED <<gateway, pins, mailed>>

\* resendPending reads the clock before it sends its UPDATE.
ResendPending(g) ==
    /\ req[g].pc = "resend"
    /\ \/ /\ now <= LastSend
          /\ req' = [req EXCEPT ![g].pc = "write", ![g].op = "resend", ![g].at = now,
                                ![g].todo = <<"challenge">>]
          /\ UNCHANGED tables
       \/ Finish(g)                                   \* no PIN could be made
    /\ UNCHANGED <<gateway, pins, mailed>>

\* mutant: the attempts are counted and never looked at
OpenToAttemptsForever(id) == TRUE

OpenToAttempts(id) == chal[id].attempts < MaxVerifyAttempts

\* mutant: the challenge goes before the status changes
ActivationOrderSwapped == <<"challenge", "user">>

\* SetStatus comes before Delete.
ActivationOrder == <<"user", "challenge">>

\* FindByUser, the attempt lock, the expiry and the comparison of the PIN.
ReadChallenge(g) ==
    LET r == req[g]  c == chal[r.id] IN
    /\ r.pc = "challenge"
    /\ IF Present(<<"challenge", r.id>>) /\ OpenToAttempts(r.id) /\ now < c.expires
       THEN /\ req' = [req EXCEPT
                  ![g].pc = "write",
                  ![g].op = IF r.pin = c.pin THEN "activate" ELSE "attempt",
                  ![g].todo = IF r.pin = c.pin THEN ActivationOrder ELSE <<"challenge">>]
            /\ UNCHANGED tables
       ELSE Finish(g)                                 \* errVerifyInvalid
    /\ UNCHANGED <<gateway, pins, mailed>>

\* mutant: resendSQL without its limit on resend_count
ResendAllowedUncounted(id, at) == chal[id].sent <= at - ResendMinInterval

\* mutant: resendSQL without its minimum interval
ResendAllowedAtOnce(id, at) == chal[id].resends < MaxResendCount

\* The budget in the WHERE clause of resendSQL.
ResendAllowed(id, at) ==
    /\ chal[id].sent <= at - ResendMinInterval
    /\ chal[id].resends < MaxResendCount

\* The next UPDATE or DELETE: it waits for the row, then finds it or not.
WriteRow(g) ==
    LET r == req[g]  row == <<Head(r.todo), r.id>> IN
    /\ r.pc = "write" /\ ~Locked(row, g)
    /\ IF Present(row) /\ (r.op = "resend" => ResendAllowed(r.id, r.at))
       THEN /\ lock' = [lock EXCEPT ![row] = g]
            /\ req' = [req EXCEPT ![g].todo = Tail(@),
                          ![g].pc = IF Len(r.todo) = 1 THEN "commit" ELSE "write"]
            /\ UNCHANGED <<user, chal>>
       ELSE Finish(g)               \* ErrUserNotFound, ErrVerificationNotFound, RateLimited
    /\ UNCHANGED <<gateway, pins, mailed>>

\* The challenge that an INSERT or a resend leaves.
Issue(r, resends) ==
    chal' = [chal EXCEPT ![r.id] = [pin |-> pins + 1, expires |-> r.at + PinTTL,
                                    attempts |-> 0, resends |-> resends, sent |-> r.at]]

CommitIssue(g, resends) ==
    /\ Issue(req[g], resends)
    /\ pins' = pins + 1
    /\ req' = [req EXCEPT ![g] = [NoReq EXCEPT !.pc = "send", !.pin = pins + 1]]
    /\ Release(g)
    /\ UNCHANGED <<gateway, mailed>>

CommitCreate(g) ==
    /\ req[g].pc = "commit" /\ req[g].op = "create"
    /\ user' = [user EXCEPT ![req[g].id] = [mail |-> req[g].mail, status |-> "pending"]]
    /\ CommitIssue(g, 0)

CommitResend(g) ==
    /\ req[g].pc = "commit" /\ req[g].op = "resend"
    /\ CommitIssue(g, chal[req[g].id].resends + 1)
    /\ user' = user

CommitAttempt(g) ==
    /\ req[g].pc = "commit" /\ req[g].op = "attempt"
    /\ chal' = [chal EXCEPT ![req[g].id].attempts = @ + 1]
    /\ req' = [req EXCEPT ![g] = NoReq] /\ Release(g)
    /\ UNCHANGED <<gateway, user, pins, mailed>>

\* mutant: the challenge of an activated account is left behind
CommitActivateKeepsChallenge(g) ==
    /\ req[g].pc = "commit" /\ req[g].op = "activate"
    /\ user' = [user EXCEPT ![req[g].id].status = "active"]
    /\ req' = [req EXCEPT ![g] = NoReq] /\ Release(g)
    /\ UNCHANGED <<gateway, chal, pins, mailed>>

CommitActivate(g) ==
    /\ req[g].pc = "commit" /\ req[g].op = "activate"
    /\ user' = [user EXCEPT ![req[g].id].status = "active"]
    /\ chal' = [chal EXCEPT ![req[g].id] = NoChal]
    /\ req' = [req EXCEPT ![g] = NoReq] /\ Release(g)
    /\ UNCHANGED <<gateway, pins, mailed>>

\* Delivery after the commit is best-effort.
Send(g) ==
    /\ req[g].pc = "send"
    /\ mailed' \in {mailed, mailed \cup {req[g].pin}}
    /\ req' = [req EXCEPT ![g] = NoReq]
    /\ UNCHANGED <<gateway, tables, pins>>

\* The client hangs up, a statement fails or the gateway dies before COMMIT.
Abort(g) ==
    /\ req[g].pc \notin {"idle", "send"}
    /\ Finish(g)
    /\ UNCHANGED <<gateway, pins, mailed>>

(***************************************************************************)
(* The maintenance grain and its workers.                                   *)
(***************************************************************************)
sweep == <<now, req, pins, mailed, requests>>

\* SweepPendingAccounts, for a trigger that finds no sweep running.
SweepPendingAccounts ==
    /\ ~running
    /\ \E w \in Workers :
          /\ worker[w].pc = "idle"
          /\ worker' = [worker EXCEPT ![w].pc = "start"]
          /\ awaited' = w
    /\ running' = TRUE
    /\ UNCHANGED <<sweep, tables, failures>>

\* pg_try_advisory_xact_lock: one transaction at a time, the others go without.
AdvisoryLockFree == \A w \in Workers : worker[w].pc \notin {"scan", "delete"}

\* The worker reads the clock and tries the lock.
SweepBegin(w) ==
    /\ worker[w].pc = "start"
    /\ worker' = [worker EXCEPT ![w] =
                      IF AdvisoryLockFree THEN [NoWork EXCEPT !.pc = "scan", !.at = now]
                      ELSE [NoWork EXCEPT !.pc = "reply"]]
    /\ UNCHANGED <<sweep, tables, grain, failures>>

\* The snapshot of the DELETE: whom it finds pending with an expired challenge.
SweepScan(w) ==
    /\ worker[w].pc = "scan"
    /\ worker' = [worker EXCEPT ![w].pc = "delete", ![w].at = 0, ![w].victims =
                      {id \in Ids : /\ user[id].status = "pending"
                                    /\ chal[id].pin # 0
                                    /\ chal[id].expires < worker[w].at - Grace}]
    /\ UNCHANGED <<sweep, tables, grain, failures>>

\* mutant: the row is not looked at again after the wait
StillDeletableUnchecked(id) == Exists(id)

\* A row that changed while the DELETE waited for it is looked at again.  Only
\* the row itself is: the challenge is still the one of the snapshot.
StillDeletable(id) == user[id].status = "pending"

SweepUser(w) ==
    /\ worker[w].pc = "delete"
    /\ \E id \in worker[w].victims :
          /\ ~Locked(<<"user", id>>, w)
          /\ worker' = [worker EXCEPT ![w].victims = @ \ {id}]
          /\ lock' = IF StillDeletable(id) THEN [lock EXCEPT ![<<"user", id>>] = w]
                     ELSE lock
    /\ UNCHANGED <<sweep, user, chal, grain, failures>>

\* ON DELETE CASCADE, after the last row of the DELETE.
SweepChallenge(w) ==
    /\ worker[w].pc = "delete" /\ worker[w].victims = {}
    /\ \E id \in Ids :
          /\ lock[<<"user", id>>] = w /\ lock[<<"challenge", id>>] = NoTx
          /\ lock' = [lock EXCEPT ![<<"challenge", id>>] = w]
    /\ UNCHANGED <<sweep, user, chal, worker, grain, failures>>

SweepCommit(w) ==
    /\ worker[w].pc = "delete" /\ worker[w].victims = {}
    /\ \A id \in Ids : lock[<<"user", id>>] = w => lock[<<"challenge", id>>] = w
    /\ user' = [id \in Ids |-> IF <<"user", id>> \in Held(w)
                               THEN [user[id] EXCEPT !.status = "gone"] ELSE user[id]]
    /\ chal' = [id \in Ids |-> IF <<"challenge", id>> \in Held(w)
                               THEN NoChal ELSE chal[id]]
    /\ Release(w)
    /\ worker' = [worker EXCEPT ![w] = [NoWork EXCEPT !.pc = "reply"]]
    /\ UNCHANGED <<sweep, grain, failures>>

\* The worker's answer: the future's continuation clears running, once.
SweepReply(w) ==
    /\ worker[w].pc = "reply"
    /\ worker' = [worker EXCEPT ![w] = NoWork]
    /\ IF awaited = w THEN running' = FALSE /\ awaited' = NoTx ELSE UNCHANGED grain
    /\ UNCHANGED <<sweep, tables, failures>>

\* A database error or sweepDBTimeout is reported; a panic stops the worker.
SweepFails(w) ==
    /\ worker[w].pc \in {"start", "scan", "delete"} /\ failures < MaxFailures
    /\ \E pc \in {"reply", "idle"} :
          worker' = [worker EXCEPT ![w] = [NoWork EXCEPT !.pc = pc]]
    /\ Release(w)
    /\ failures' = failures + 1
    /\ UNCHANGED <<sweep, user, chal, grain>>

\* mutant: the continuation runs only when the worker answers
FutureTimeoutNever == FALSE /\ UNCHANGED vars

\* The future expires: its worker stopped without a word, or hangs and goes on.
\* A new activation that knows nothing of an old worker looks the same.
FutureTimeout ==
    /\ running
    /\ \/ worker[awaited].pc = "idle" /\ failures' = failures
       \/ /\ worker[awaited].pc # "idle" /\ failures < MaxFailures
          /\ failures' = failures + 1
    /\ running' = FALSE /\ awaited' = NoTx
    /\ UNCHANGED <<sweep, tables, worker>>

Tick ==
    /\ now < MaxTime /\ now' = now + 1
    /\ UNCHANGED <<tables, req, worker, grain, pins, mailed, requests, failures>>

Init ==
    /\ now = 0
    /\ user = [id \in Ids |-> NoUser]
    /\ chal = [id \in Ids |-> NoChal]
    /\ lock = [row \in Rows |-> NoTx]
    /\ req = [g \in Gateways |-> NoReq]
    /\ worker = [w \in Workers |-> NoWork]
    /\ running = FALSE /\ awaited = NoTx
    /\ pins = 0 /\ mailed = {} /\ requests = 0 /\ failures = 0

RequestStep(g) ==
    \/ FindByEmail(g) \/ InsertAccount(g) \/ ResendPending(g) \/ ReadChallenge(g)
    \/ WriteRow(g) \/ CommitCreate(g) \/ CommitResend(g) \/ CommitAttempt(g)
    \/ CommitActivate(g) \/ Send(g)

WorkerStep(w) ==
    \/ SweepBegin(w) \/ SweepScan(w) \/ SweepUser(w)
    \/ SweepChallenge(w) \/ SweepCommit(w) \/ SweepReply(w)

Next ==
    \/ \E g \in Gateways : Begin(g) \/ RequestStep(g) \/ Abort(g)
    \/ \E w \in Workers : WorkerStep(w) \/ SweepFails(w)
    \/ SweepPendingAccounts \/ FutureTimeout \/ Tick

Spec == Init /\ [][Next]_vars

\* Statements come back, time passes, the future expires and the cron ticks.
Fairness ==
    /\ \A g \in Gateways : WF_vars(RequestStep(g))
    /\ \A w \in Workers : WF_vars(WorkerStep(w))
    /\ WF_vars(SweepPendingAccounts) /\ WF_vars(FutureTimeout) /\ WF_vars(Tick)

FairSpec == Spec /\ Fairness

(***************************************************************************)
(* Properties.                                                              *)
(***************************************************************************)
Txs == Gateways \cup Workers \cup {NoTx}

\* Every variable keeps its shape.
TypeOK ==
    /\ now \in Nat /\ pins \in Nat /\ requests \in Nat /\ failures \in Nat
    /\ user \in [Ids -> [mail : Mails \cup {0},
                         status : {"none", "pending", "active", "gone"}]]
    /\ chal \in [Ids -> [pin : Nat, expires : Nat, attempts : Nat,
                         resends : 0 .. MaxResendCount, sent : Nat]]
    /\ lock \in [Rows -> Txs]
    /\ req \in [Gateways ->
          [pc : {"idle", "find", "insert", "resend", "challenge", "write", "commit", "send"},
           op : {"none", "register", "verify", "resend", "create", "attempt", "activate"},
           mail : Mails \cup {0}, id : Ids \cup {0}, pin : Nat, at : Nat,
           todo : {<<>>, <<"user">>, <<"challenge">>, ActivationOrder},
           raced : BOOLEAN, collisions : 0 .. CollisionRetries]]
    /\ worker \in [Workers -> [pc : {"idle", "start", "scan", "delete", "reply"}, at : Nat,
                               victims : SUBSET Ids]]
    /\ running \in BOOLEAN /\ awaited \in Workers \cup {NoTx}
    /\ mailed \subseteq Nat

\* An account has a challenge exactly while it is pending: no interleaving of
\* registrations, verifications, resends and sweeps leaves an account that can
\* be neither verified nor swept (registration.go: "a pending account never
\* exists without its challenge"), or a challenge without its account.
ChallengeIffPending ==
    \A id \in Ids : chal[id].pin # 0 <=> user[id].status = "pending"

\* An address has one account.  Register looks the address up before it inserts
\* (registration.go:139), so two registrations, or one and the sweep of an old
\* account, may both find it free: the INSERT waits for the other transaction
\* and sees what it left (service_user_mail_address_key, schema.sql:55).
OneAccount ==
    \A i, j \in Ids :
        Exists(i) /\ Exists(j) /\ user[i].mail = user[j].mail => i = j

\* The sweep never deletes an account that was verified, even one whose
\* verification commits between the snapshot of the DELETE and its row lock.
VerifiedStays ==
    [][\A id \in Ids : user[id].status = "active" => user'[id] = user[id]]_vars

\* Concurrent resends cannot share one slot of the budget: each PIN that
\* replaces another was issued ResendMinInterval after it, and used up one of
\* MaxResendCount resends.
ResendBudget ==
    [][\A id \in Ids :
          chal[id].pin # 0 /\ chal'[id].pin \notin {0, chal[id].pin} =>
             /\ chal'[id].sent >= chal[id].sent + ResendMinInterval
             /\ chal'[id].resends = chal[id].resends + 1
             /\ chal'[id].resends <= MaxResendCount]_vars

\* Verify counts after it looked, so requests served at the same time may all
\* be counted; nothing else goes past MaxVerifyAttempts.
AttemptsBounded ==
    \A id \in Ids : chal[id].attempts < MaxVerifyAttempts + Cardinality(Gateways)

\* No two transactions wait for each other's rows: a request is answered.
RequestEnds == \A g \in Gateways : req[g].pc # "idle" ~> req[g].pc = "idle"

\* A pending account does not stay: it is verified or, once its resends are used
\* up or nobody asks for more, swept; a worker that failed, panicked or hung
\* does not keep running set and the job away.
PendingEnds == \A id \in Ids : user[id].status = "pending" ~> user[id].status # "pending"

\* adr-021: "a resend extends the challenge's expiry, so an account a user is
\* still verifying is never swept".  When the sweep deletes an account, the
\* last PIN issued for it is no longer valid.
ResendProtects ==
    [][\A id \in Ids :
          user[id].status = "pending" /\ user'[id].status = "gone" =>
             now >= chal[id].expires]_vars
===============================================================================
