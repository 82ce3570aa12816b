--------------------------- MODULE AccountsProofs ---------------------------
(***************************************************************************)
(* Proofs about Accounts, for any requests and sweeps at the same time, any *)
(* policy and any number of accounts:                                       *)
(*   AccountsTypeCorrect  every variable keeps its type;                    *)
(*   ChallengePending     an account has a challenge iff it is pending;     *)
(*   AddressUnique        an address has at most one account;               *)
(*   VerifiedSafe         a verified account is never changed or deleted;   *)
(*   ResendBudgeted       each resend uses up one slot of the budget;       *)
(*   AttemptsCapped       concurrent attempts overshoot by less than the    *)
(*                        number of requests served at the same time.       *)
(***************************************************************************)
EXTENDS Accounts, FiniteSetTheorems, TLAPS

UserLock(id) == lock[<<"user", id>>]
ChalLock(id) == lock[<<"challenge", id>>]

(* The inductive invariant.  A transaction holds the rows it has written   *)
(* and no others (UserRows, ChalRows, Holds), a worker takes a challenge   *)
(* only under its account's row, and so what a statement found in its row  *)
(* still holds when the transaction commits (Decided).                     *)

\* g has written the status of its account and not deleted the challenge yet.
Between(g) == req[g].pc = "write" /\ req[g].op = "activate" /\ req[g].todo = <<"challenge">>

ReqShape ==
    \A g \in Gateways :
        /\ req[g].pc \in {"resend", "challenge", "write", "commit"} => req[g].id \in Ids
        /\ req[g].pc = "write" =>
              \/ req[g].op \in {"resend", "attempt"} /\ req[g].todo = <<"challenge">>
              \/ req[g].op = "activate" /\ req[g].todo \in {ActivationOrder, <<"challenge">>}
        /\ req[g].pc = "commit" => req[g].op \in {"create", "resend", "attempt", "activate"}

UserRows ==
    \A id \in Ids :
        /\ \A w \in Workers : UserLock(id) = w =>
              worker[w].pc = "delete" /\ user[id].status = "pending"
        /\ \A g \in Gateways : UserLock(id) = g =>
              /\ req[g].id = id
              /\ Between(g) \/ (req[g].pc = "commit" /\ req[g].op \in {"create", "activate"})

ChalRows ==
    \A id \in Ids :
        /\ \A w \in Workers : ChalLock(id) = w => UserLock(id) = w
        /\ \A g \in Gateways : ChalLock(id) = g => req[g].id = id /\ req[g].pc = "commit"

Holds ==
    \A g \in Gateways :
        /\ Between(g) => UserLock(req[g].id) = g
        /\ req[g].pc = "commit" =>
              /\ ChalLock(req[g].id) = g
              /\ req[g].op \in {"create", "activate"} => UserLock(req[g].id) = g

Decided ==
    \A g \in Gateways : req[g].pc = "commit" =>
        /\ req[g].op = "create" => user[req[g].id].status = "none"
        /\ req[g].op # "create" => chal[req[g].id].pin # 0
        /\ req[g].op = "resend" => ResendAllowed(req[g].id, req[g].at)

AccountInv == TypeOK /\ ReqShape /\ UserRows /\ ChalRows /\ Holds /\ Decided
              /\ ChallengeIffPending

-----------------------------------------------------------------------------
(* Types.                                                                  *)

UserRec == [mail : Mails \cup {0}, status : {"none", "pending", "active", "gone"}]

ChalRec == [pin : Nat, expires : Nat, attempts : Nat, resends : 0 .. MaxResendCount, sent : Nat]

ReqRec ==
    [pc : {"idle", "find", "insert", "resend", "challenge", "write", "commit", "send"},
     op : {"none", "register", "verify", "resend", "create", "attempt", "activate"},
     mail : Mails \cup {0}, id : Ids \cup {0}, pin : Nat, at : Nat,
     todo : {<<>>, <<"user">>, <<"challenge">>, ActivationOrder},
     raced : BOOLEAN, collisions : 0 .. CollisionRetries]

WorkRec == [pc : {"idle", "start", "scan", "delete", "reply"}, at : Nat, victims : SUBSET Ids]

LEMMA Types ==
  ASSUME TypeOK
  PROVE  /\ now \in Nat /\ pins \in Nat /\ requests \in Nat /\ failures \in Nat
         /\ user \in [Ids -> UserRec] /\ chal \in [Ids -> ChalRec] /\ lock \in [Rows -> Txs]
         /\ req \in [Gateways -> ReqRec] /\ worker \in [Workers -> WorkRec]
         /\ running \in BOOLEAN /\ awaited \in Workers \cup {NoTx} /\ mailed \subseteq Nat
BY DEF TypeOK, UserRec, ChalRec, ReqRec, WorkRec

LEMMA TypesNext ==
  ASSUME now' \in Nat /\ pins' \in Nat /\ requests' \in Nat /\ failures' \in Nat,
         user' \in [Ids -> UserRec] /\ chal' \in [Ids -> ChalRec] /\ lock' \in [Rows -> Txs],
         req' \in [Gateways -> ReqRec] /\ worker' \in [Workers -> WorkRec],
         running' \in BOOLEAN /\ awaited' \in Workers \cup {NoTx} /\ mailed' \subseteq Nat
  PROVE  TypeOK'
BY DEF TypeOK, UserRec, ChalRec, ReqRec, WorkRec

LEMMA Orders ==
  /\ ActivationOrder # <<"challenge">> /\ ActivationOrder # <<>>
  /\ Head(ActivationOrder) = "user" /\ Tail(ActivationOrder) = <<"challenge">>
  /\ Len(ActivationOrder) = 2
  /\ Head(<<"challenge">>) = "challenge" /\ Tail(<<"challenge">>) = <<>>
  /\ Len(<<"challenge">>) = 1
BY DEF ActivationOrder

LEMMA RowsOf ==
  /\ \A id \in Ids : <<"user", id>> \in Rows /\ <<"challenge", id>> \in Rows
  /\ \A id, j : <<"user", id>> # <<"challenge", j>>
  /\ \A id, j : <<"user", id>> = <<"user", j>> => id = j
  /\ \A id, j : <<"challenge", id>> = <<"challenge", j>> => id = j
BY DEF Rows

LEMMA NoReqType == NoReq \in ReqRec
BY PolicyAssumption DEF NoReq, ReqRec

LEMMA NoChalType == NoChal \in ChalRec
BY PolicyAssumption DEF NoChal, ChalRec

LEMMA ReqFields ==
  ASSUME NEW r \in ReqRec
  PROVE  /\ r.pc \in {"idle", "find", "insert", "resend", "challenge", "write", "commit", "send"}
         /\ r.op \in {"none", "register", "verify", "resend", "create", "attempt", "activate"}
         /\ r.mail \in Mails \cup {0} /\ r.id \in Ids \cup {0} /\ r.pin \in Nat /\ r.at \in Nat
         /\ r.todo \in {<<>>, <<"user">>, <<"challenge">>, ActivationOrder}
         /\ r.raced \in BOOLEAN /\ r.collisions \in 0 .. CollisionRetries
BY DEF ReqRec

LEMMA ChalFields ==
  ASSUME NEW c \in ChalRec
  PROVE  /\ c.pin \in Nat /\ c.expires \in Nat /\ c.attempts \in Nat
         /\ c.resends \in 0 .. MaxResendCount /\ c.sent \in Nat
BY DEF ChalRec

-----------------------------------------------------------------------------
(* What a step does to the locks, row by row.                              *)

LEMMA Released ==
  ASSUME NEW t, Release(t)
  PROVE  \A id \in Ids : /\ UserLock(id)' = IF UserLock(id) = t THEN NoTx ELSE UserLock(id)
                         /\ ChalLock(id)' = IF ChalLock(id) = t THEN NoTx ELSE ChalLock(id)
BY RowsOf DEF Release, UserLock, ChalLock

LEMMA UserTaken ==
  ASSUME TypeOK, NEW id \in Ids, NEW t, lock' = [lock EXCEPT ![<<"user", id>>] = t]
  PROVE  \A j \in Ids : /\ UserLock(j)' = IF j = id THEN t ELSE UserLock(j)
                        /\ ChalLock(j)' = ChalLock(j)
BY Types, RowsOf DEF UserLock, ChalLock

LEMMA ChalTaken ==
  ASSUME TypeOK, NEW id \in Ids, NEW t, lock' = [lock EXCEPT ![<<"challenge", id>>] = t]
  PROVE  \A j \in Ids : /\ ChalLock(j)' = IF j = id THEN t ELSE ChalLock(j)
                        /\ UserLock(j)' = UserLock(j)
BY Types, RowsOf DEF UserLock, ChalLock

LEMMA BothTaken ==
  ASSUME TypeOK, NEW id \in Ids, NEW t,
         lock' = [lock EXCEPT ![<<"user", id>>] = t, ![<<"challenge", id>>] = t]
  PROVE  \A j \in Ids : /\ UserLock(j)' = IF j = id THEN t ELSE UserLock(j)
                        /\ ChalLock(j)' = IF j = id THEN t ELSE ChalLock(j)
BY Types, RowsOf DEF UserLock, ChalLock

LEMMA LocksStill ==
  ASSUME lock' = lock
  PROVE  \A j \in Ids : UserLock(j)' = UserLock(j) /\ ChalLock(j)' = ChalLock(j)
BY DEF UserLock, ChalLock

LEMMA Moved ==
  ASSUME TypeOK, NEW g \in Gateways, NEW r, req' = [req EXCEPT ![g] = r]
  PROVE  req'[g] = r /\ \A h \in Gateways : h # g => req'[h] = req[h]
BY Types

-----------------------------------------------------------------------------
(* The locks through the steps of a request and of a worker.  TypeOK' is   *)
(* proved apart.                                                           *)

USE TransactionAssumption

\* A request that holds no row goes on and takes none.
LEMMA RequestMoves ==
  ASSUME AccountInv, TypeOK', NEW g \in Gateways, NEW r, req' = [req EXCEPT ![g] = r],
         UNCHANGED <<user, chal, lock, worker>>, req[g].pc \notin {"write", "commit"},
         r.pc # "commit", r.pc \in {"resend", "challenge", "write"} => r.id \in Ids,
         r.pc = "write" => \/ r.op \in {"resend", "attempt"} /\ r.todo = <<"challenge">>
                           \/ r.op = "activate" /\ r.todo = ActivationOrder
  PROVE  AccountInv'
<1>r. req'[g] = r /\ \A h \in Gateways : h # g => req'[h] = req[h]
  BY Moved DEF AccountInv
<1>l. \A j \in Ids : UserLock(j)' = UserLock(j) /\ ChalLock(j)' = ChalLock(j)
  BY LocksStill
<1>b. ~Between(g) /\ ~Between(g)' /\ \A h \in Gateways : h # g => Between(h)' = Between(h)
  BY <1>r, Orders DEF Between
<1>f. \A j \in Ids : UserLock(j) # g /\ ChalLock(j) # g
  BY <1>b DEF AccountInv, UserRows, ChalRows
<1>1. ReqShape'
  BY <1>r DEF AccountInv, ReqShape
<1>2. UserRows'
  BY <1>r, <1>l, <1>b, <1>f DEF AccountInv, UserRows
<1>3. ChalRows'
  BY <1>r, <1>l, <1>f DEF AccountInv, ChalRows
<1>4. Holds'
  BY <1>r, <1>l, <1>b DEF AccountInv, Holds, ReqShape, Between
<1>5. Decided'
  BY <1>r DEF AccountInv, Decided, ResendAllowed
<1>6. ChallengeIffPending'
  BY DEF AccountInv, ChallengeIffPending
<1> QED
  BY <1>1, <1>2, <1>3, <1>4, <1>5, <1>6 DEF AccountInv

\* A request ends its transaction, having written rows it has locked, or none.
LEMMA RequestReleases ==
  ASSUME AccountInv, TypeOK', NEW g \in Gateways, NEW r, req' = [req EXCEPT ![g] = r],
         Release(g), worker' = worker, r.pc \in {"idle", "send"},
         \A j \in Ids : user'[j] # user[j] => UserLock(j) = g /\ ChalLock(j) = g,
         \A j \in Ids : chal'[j] # chal[j] => ChalLock(j) = g,
         ChallengeIffPending'
  PROVE  AccountInv'
<1>r. req'[g] = r /\ \A h \in Gateways : h # g => req'[h] = req[h]
  BY Moved DEF AccountInv
<1>l. \A j \in Ids : /\ UserLock(j)' = IF UserLock(j) = g THEN NoTx ELSE UserLock(j)
                     /\ ChalLock(j)' = IF ChalLock(j) = g THEN NoTx ELSE ChalLock(j)
  BY Released
<1>b. ~Between(g)' /\ \A h \in Gateways : h # g => Between(h)' = Between(h)
  BY <1>r DEF Between
<1>1. ReqShape'
  BY <1>r DEF AccountInv, ReqShape
<1>2. UserRows'
  BY <1>r, <1>l, <1>b DEF AccountInv, UserRows
<1>3. ChalRows'
  BY <1>r, <1>l DEF AccountInv, ChalRows
<1>4. Holds'
  BY <1>r, <1>l, <1>b DEF AccountInv, Holds, ReqShape, Between
<1>5. Decided'
  <2> SUFFICES ASSUME NEW h \in Gateways, h # g, req[h].pc = "commit"
               PROVE  /\ req[h].op = "create" => user'[req[h].id].status = "none"
                      /\ req[h].op # "create" => chal'[req[h].id].pin # 0
                      /\ req[h].op = "resend" => ResendAllowed(req[h].id, req[h].at)'
    BY <1>r DEF Decided, ResendAllowed
  <2>1. req[h].id \in Ids /\ ChalLock(req[h].id) = h
    BY DEF AccountInv, Holds, ReqShape
  <2>2. chal'[req[h].id] = chal[req[h].id] /\ user'[req[h].id] = user[req[h].id]
    BY <2>1
  <2> QED
    BY <2>2, <1>r DEF AccountInv, Decided, ResendAllowed
<1> QED
  BY <1>1, <1>2, <1>3, <1>4, <1>5 DEF AccountInv

LEMMA RequestFinishes ==
  ASSUME AccountInv, TypeOK', NEW g \in Gateways, Finish(g), worker' = worker
  PROVE  AccountInv'
<1>1. NoReq.pc = "idle" /\ ChallengeIffPending'
  BY DEF NoReq, Finish, AccountInv, ChallengeIffPending
<1> QED
  BY <1>1, RequestReleases DEF Finish

\* A worker goes on without touching the tables; it keeps "delete" if it holds rows.
LEMMA WorkerMoves ==
  ASSUME AccountInv, TypeOK', UNCHANGED <<user, chal, lock, req>>,
         \A w \in Workers : worker[w].pc = "delete" => worker'[w].pc = "delete"
  PROVE  AccountInv'
<1>l. \A j \in Ids : UserLock(j)' = UserLock(j) /\ ChalLock(j)' = ChalLock(j)
  BY LocksStill
<1>b. \A g \in Gateways : Between(g)' = Between(g)
  BY DEF Between
<1>1. UserRows'
  BY <1>l, <1>b DEF AccountInv, UserRows
<1>2. ReqShape' /\ ChalRows' /\ Holds'
  BY <1>l, <1>b DEF AccountInv, ReqShape, ChalRows, Holds, Between
<1>3. Decided' /\ ChallengeIffPending'
  BY DEF AccountInv, Decided, ResendAllowed, ChallengeIffPending
<1> QED
  BY <1>1, <1>2, <1>3 DEF AccountInv

\* A worker lets its rows go, with or without deleting them.
LEMMA WorkerReleases ==
  ASSUME AccountInv, TypeOK', NEW w \in Workers, Release(w), req' = req,
         \A v \in Workers : v # w => worker'[v] = worker[v],
         \A j \in Ids : user'[j] # user[j] => UserLock(j) = w /\ ChalLock(j) = w,
         \A j \in Ids : chal'[j] # chal[j] => ChalLock(j) = w,
         ChallengeIffPending'
  PROVE  AccountInv'
<1>l. \A j \in Ids : /\ UserLock(j)' = IF UserLock(j) = w THEN NoTx ELSE UserLock(j)
                     /\ ChalLock(j)' = IF ChalLock(j) = w THEN NoTx ELSE ChalLock(j)
  BY Released
<1>b. \A g \in Gateways : Between(g)' = Between(g)
  BY DEF Between
<1>1. ReqShape'
  BY DEF AccountInv, ReqShape
<1>2. UserRows'
  BY <1>l, <1>b DEF AccountInv, UserRows
<1>3. ChalRows'
  BY <1>l DEF AccountInv, ChalRows
<1>4. Holds'
  BY <1>l, <1>b DEF AccountInv, Holds, ReqShape, Between
<1>5. Decided'
  <2> SUFFICES ASSUME NEW h \in Gateways, req[h].pc = "commit"
               PROVE  /\ req[h].op = "create" => user'[req[h].id].status = "none"
                      /\ req[h].op # "create" => chal'[req[h].id].pin # 0
                      /\ req[h].op = "resend" => ResendAllowed(req[h].id, req[h].at)'
    BY DEF Decided, ResendAllowed
  <2>1. req[h].id \in Ids /\ ChalLock(req[h].id) = h
    BY DEF AccountInv, Holds, ReqShape
  <2>2. chal'[req[h].id] = chal[req[h].id] /\ user'[req[h].id] = user[req[h].id]
    BY <2>1
  <2> QED
    BY <2>2 DEF AccountInv, Decided, ResendAllowed
<1> QED
  BY <1>1, <1>2, <1>3, <1>4, <1>5 DEF AccountInv

-----------------------------------------------------------------------------
(* The statements that take a row.                                         *)

LEMMA AccountInserted ==
  ASSUME AccountInv, TypeOK', NEW g \in Gateways, NEW id \in Ids, NextId(id),
         req[g].pc = "insert", UNCHANGED <<user, chal, worker>>,
         lock' = [lock EXCEPT ![<<"user", id>>] = g, ![<<"challenge", id>>] = g],
         NEW r, req' = [req EXCEPT ![g] = r], r.pc = "commit", r.op = "create", r.id = id
  PROVE  AccountInv'
<1>r. req'[g] = r /\ \A h \in Gateways : h # g => req'[h] = req[h]
  BY Moved DEF AccountInv
<1>l. \A j \in Ids : /\ UserLock(j)' = IF j = id THEN g ELSE UserLock(j)
                     /\ ChalLock(j)' = IF j = id THEN g ELSE ChalLock(j)
  BY BothTaken DEF AccountInv
<1>b. ~Between(g) /\ ~Between(g)' /\ \A h \in Gateways : h # g => Between(h)' = Between(h)
  BY <1>r DEF Between
<1>n. UserLock(id) = NoTx /\ user[id].status = "none" /\ chal[id].pin = 0
  BY DEF NextId, NoUser, UserLock, AccountInv, ChallengeIffPending
<1>c. \A h \in Gateways : ChalLock(id) # h
  BY <1>n DEF AccountInv, ChalRows, Holds, Decided
<1>f. \A j \in Ids : UserLock(j) # g /\ ChalLock(j) # g
  BY <1>b DEF AccountInv, UserRows, ChalRows
<1>1. ReqShape'
  BY <1>r DEF AccountInv, ReqShape
<1>2. UserRows'
  BY <1>r, <1>l, <1>b, <1>f DEF AccountInv, UserRows
<1>3. ChalRows'
  BY <1>r, <1>l, <1>f, <1>n DEF AccountInv, ChalRows
<1>4. Holds'
  BY <1>r, <1>l, <1>b, <1>n, <1>c DEF AccountInv, Holds, ReqShape, Between
<1>5. Decided'
  BY <1>r, <1>n DEF AccountInv, Decided, ResendAllowed
<1>6. ChallengeIffPending'
  BY DEF AccountInv, ChallengeIffPending
<1> QED
  BY <1>1, <1>2, <1>3, <1>4, <1>5, <1>6 DEF AccountInv

\* SetStatus, the first write of an activation.
LEMMA StatusWritten ==
  ASSUME AccountInv, TypeOK', NEW g \in Gateways, NEW id \in Ids,
         req[g].pc = "write", req[g].op = "activate", req[g].id = id, req[g].todo = ActivationOrder,
         UserLock(id) \in {NoTx, g}, UNCHANGED <<user, chal, worker>>,
         lock' = [lock EXCEPT ![<<"user", id>>] = g],
         NEW r, req' = [req EXCEPT ![g] = r], r.pc = "write", r.op = "activate", r.id = id,
         r.todo = <<"challenge">>
  PROVE  AccountInv'
<1>r. req'[g] = r /\ \A h \in Gateways : h # g => req'[h] = req[h]
  BY Moved DEF AccountInv
<1>l. \A j \in Ids : /\ UserLock(j)' = IF j = id THEN g ELSE UserLock(j)
                     /\ ChalLock(j)' = ChalLock(j)
  BY UserTaken DEF AccountInv
<1>b. ~Between(g) /\ Between(g)' /\ \A h \in Gateways : h # g => Between(h)' = Between(h)
  BY <1>r, Orders DEF Between
<1>f. \A j \in Ids : UserLock(j) # g /\ ChalLock(j) # g
  BY <1>b DEF AccountInv, UserRows, ChalRows
<1>n. UserLock(id) = NoTx
  BY <1>f
<1>1. ReqShape'
  BY <1>r DEF AccountInv, ReqShape
<1>2. UserRows'
  BY <1>r, <1>l, <1>b, <1>f DEF AccountInv, UserRows
<1>3. ChalRows'
  BY <1>r, <1>l, <1>f, <1>n DEF AccountInv, ChalRows
<1>4. Holds'
  BY <1>r, <1>l, <1>b, <1>n DEF AccountInv, Holds, ReqShape, Between
<1>5. Decided'
  BY <1>r DEF AccountInv, Decided, ResendAllowed
<1>6. ChallengeIffPending'
  BY DEF AccountInv, ChallengeIffPending
<1> QED
  BY <1>1, <1>2, <1>3, <1>4, <1>5, <1>6 DEF AccountInv

\* The UPDATE or DELETE of the challenge, the last statement.
LEMMA ChallengeWritten ==
  ASSUME AccountInv, TypeOK', NEW g \in Gateways, NEW id \in Ids,
         req[g].pc = "write", req[g].id = id, req[g].todo = <<"challenge">>,
         ChalLock(id) \in {NoTx, g}, UNCHANGED <<user, chal, worker>>, chal[id].pin # 0,
         req[g].op = "resend" => ResendAllowed(id, req[g].at),
         lock' = [lock EXCEPT ![<<"challenge", id>>] = g],
         NEW r, req' = [req EXCEPT ![g] = r], r.pc = "commit", r.op = req[g].op, r.id = id,
         r.at = req[g].at
  PROVE  AccountInv'
<1>r. req'[g] = r /\ \A h \in Gateways : h # g => req'[h] = req[h]
  BY Moved DEF AccountInv
<1>l. \A j \in Ids : /\ ChalLock(j)' = IF j = id THEN g ELSE ChalLock(j)
                     /\ UserLock(j)' = UserLock(j)
  BY ChalTaken DEF AccountInv
<1>b. ~Between(g)' /\ \A h \in Gateways : h # g => Between(h)' = Between(h)
  BY <1>r DEF Between
<1>o. /\ req[g].op \in {"resend", "attempt", "activate"}
      /\ req[g].op = "activate" => Between(g) /\ UserLock(id) = g
  BY Orders DEF AccountInv, ReqShape, Holds, Between
<1>f. \A j \in Ids : ChalLock(j) # g /\ (UserLock(j) = g => j = id /\ req[g].op = "activate")
  BY DEF AccountInv, UserRows, ChalRows, Between
<1>n. ChalLock(id) = NoTx
  BY <1>f
<1>1. ReqShape'
  BY <1>r, <1>o DEF AccountInv, ReqShape
<1>2. UserRows'
  BY <1>r, <1>l, <1>b, <1>f DEF AccountInv, UserRows
<1>3. ChalRows'
  BY <1>r, <1>l, <1>f DEF AccountInv, ChalRows
<1>4. Holds'
  BY <1>r, <1>l, <1>b, <1>n, <1>o DEF AccountInv, Holds, ReqShape, Between
<1>5. Decided'
  BY <1>r, <1>o DEF AccountInv, Decided, ResendAllowed
<1>6. ChallengeIffPending'
  BY DEF AccountInv, ChallengeIffPending
<1> QED
  BY <1>1, <1>2, <1>3, <1>4, <1>5, <1>6 DEF AccountInv

\* The DELETE of the sweep takes a pending account, then its challenge.
LEMMA VictimTaken ==
  ASSUME AccountInv, TypeOK', NEW w \in Workers, NEW id \in Ids, worker[w].pc = "delete",
         UserLock(id) \in {NoTx, w}, user[id].status = "pending",
         UNCHANGED <<user, chal, req>>, \A v \in Workers : worker'[v].pc = worker[v].pc,
         lock' = [lock EXCEPT ![<<"user", id>>] = w]
  PROVE  AccountInv'
<1>l. \A j \in Ids : /\ UserLock(j)' = IF j = id THEN w ELSE UserLock(j)
                     /\ ChalLock(j)' = ChalLock(j)
  BY UserTaken DEF AccountInv
<1>b. \A g \in Gateways : Between(g)' = Between(g)
  BY DEF Between
<1>1. UserRows'
  BY <1>l, <1>b DEF AccountInv, UserRows
<1>2. ReqShape' /\ ChalRows'
  BY <1>l DEF AccountInv, ReqShape, ChalRows
<1>3. Holds'
  BY <1>l, <1>b DEF AccountInv, Holds, ReqShape, Between
<1>4. Decided' /\ ChallengeIffPending'
  BY DEF AccountInv, Decided, ResendAllowed, ChallengeIffPending
<1> QED
  BY <1>1, <1>2, <1>3, <1>4 DEF AccountInv

LEMMA CascadeTaken ==
  ASSUME AccountInv, TypeOK', NEW w \in Workers, NEW id \in Ids, UserLock(id) = w,
         ChalLock(id) = NoTx, UNCHANGED <<user, chal, req, worker>>,
         lock' = [lock EXCEPT ![<<"challenge", id>>] = w]
  PROVE  AccountInv'
<1>l. \A j \in Ids : /\ ChalLock(j)' = IF j = id THEN w ELSE ChalLock(j)
                     /\ UserLock(j)' = UserLock(j)
  BY ChalTaken DEF AccountInv
<1>b. \A g \in Gateways : Between(g)' = Between(g)
  BY DEF Between
<1>1. UserRows'
  BY <1>l, <1>b DEF AccountInv, UserRows
<1>2. ReqShape' /\ ChalRows'
  BY <1>l DEF AccountInv, ReqShape, ChalRows
<1>3. Holds'
  BY <1>l, <1>b DEF AccountInv, Holds, ReqShape, Between
<1>4. Decided' /\ ChallengeIffPending'
  BY DEF AccountInv, Decided, ResendAllowed, ChallengeIffPending
<1> QED
  BY <1>1, <1>2, <1>3, <1>4 DEF AccountInv

-----------------------------------------------------------------------------
(* Types again, step by step.                                              *)

LEMMA ReleaseType ==
  ASSUME TypeOK, NEW t, Release(t)
  PROVE  lock' \in [Rows -> Txs]
BY Types DEF Release, Txs

LEMMA TakeType ==
  ASSUME TypeOK, NEW row, NEW t \in Gateways \cup Workers, lock' = [lock EXCEPT ![row] = t]
  PROVE  lock' \in [Rows -> Txs]
BY Types DEF Txs

\* A gateway step that changes its own request and perhaps the locks.
LEMMA RequestType ==
  ASSUME TypeOK, NEW g \in Gateways, NEW r \in ReqRec, req' = [req EXCEPT ![g] = r],
         lock' \in [Rows -> Txs], UNCHANGED <<gateway, user, chal, pins, mailed>>
  PROVE  TypeOK'
<1>1. req' \in [Gateways -> ReqRec]
  BY Types
<1> QED
  BY <1>1, Types, TypesNext DEF gateway, grain

LEMMA FinishType ==
  ASSUME TypeOK, NEW g \in Gateways, Finish(g), UNCHANGED <<gateway, pins, mailed>>
  PROVE  TypeOK'
BY NoReqType, ReleaseType, RequestType DEF Finish

\* A worker step that leaves the accounts alone.
LEMMA WorkerType ==
  ASSUME TypeOK, worker' \in [Workers -> WorkRec], lock' \in [Rows -> Txs],
         user' \in [Ids -> UserRec] /\ chal' \in [Ids -> ChalRec],
         running' \in BOOLEAN /\ awaited' \in Workers \cup {NoTx}, failures' \in Nat,
         UNCHANGED sweep
  PROVE  TypeOK'
BY Types, TypesNext DEF sweep

LEMMA NoWorkType ==
  ASSUME NEW pc \in {"idle", "start", "scan", "delete", "reply"}
  PROVE  [NoWork EXCEPT !.pc = pc] \in WorkRec /\ NoWork \in WorkRec
         /\ [NoWork EXCEPT !.pc = pc].pc = pc /\ NoWork.pc = "idle"
BY DEF NoWork, WorkRec

-----------------------------------------------------------------------------
(* One lemma per action.                                                   *)

LEMMA BeginStep ==
  ASSUME AccountInv, NEW g \in Gateways, Begin(g)
  PROVE  AccountInv'
<1>t. TypeOK
  BY DEF AccountInv
<1>1. PICK op \in {"register", "verify", "resend"}, m \in Mails, p \in mailed \cup {0} :
         req' = [req EXCEPT ![g] = [NoReq EXCEPT !.pc = "find", !.op = op, !.mail = m, !.pin = p]]
  BY DEF Begin
<1>2. PICK r : r = [NoReq EXCEPT !.pc = "find", !.op = op, !.mail = m, !.pin = p]
  OBVIOUS
<1>p. p \in Nat
  BY <1>t, Types
<1>3. r \in ReqRec /\ r.pc = "find"
  BY <1>2, <1>p, NoReqType DEF ReqRec
<1>4. req' = [req EXCEPT ![g] = r]
  BY <1>1, <1>2
<1>5. TypeOK'
  <2>1. req' \in [Gateways -> ReqRec]
    BY <1>3, <1>4, <1>t, Types
  <2> QED
    BY <2>1, <1>t, Types, TypesNext DEF Begin, tables, grain
<1> QED
  BY <1>3, <1>4, <1>5, RequestMoves DEF Begin, tables

LEMMA FindByEmailStep ==
  ASSUME AccountInv, NEW g \in Gateways, FindByEmail(g)
  PROVE  AccountInv'
<1>t. TypeOK /\ req[g] \in ReqRec /\ lock \in [Rows -> Txs] /\ req[g].pc = "find"
  BY Types DEF AccountInv, FindByEmail
<1>g. UNCHANGED <<gateway, pins, mailed>>
  BY DEF FindByEmail
<1>1. ASSUME Goto(g, "insert"), UNCHANGED tables PROVE AccountInv'
  <2>1. PICK r : r = [req[g] EXCEPT !.pc = "insert"]
    OBVIOUS
  <2>2. r \in ReqRec /\ r.pc = "insert" /\ req' = [req EXCEPT ![g] = r]
    BY <2>1, <1>1, <1>t, Types DEF ReqRec, Goto
  <2>3. TypeOK'
    BY <2>2, <1>1, <1>t, <1>g, RequestType DEF tables
  <2> QED
    BY <2>2, <2>3, <1>1, <1>t, <1>g, RequestMoves DEF tables, gateway
<1>2. ASSUME NEW id \in Ids, NEW pc \in {"challenge", "resend"},
             req' = [req EXCEPT ![g].id = id, ![g].pc = pc], UNCHANGED tables
      PROVE  AccountInv'
  <2>1. PICK r : r = [req[g] EXCEPT !.id = id, !.pc = pc]
    OBVIOUS
  <2>2. r \in ReqRec /\ r.pc = pc /\ r.id = id /\ req' = [req EXCEPT ![g] = r]
    BY <2>1, <1>2, <1>t, Types DEF ReqRec
  <2>3. TypeOK'
    BY <2>2, <1>2, <1>t, <1>g, RequestType DEF tables
  <2> QED
    BY <2>2, <2>3, <1>2, <1>t, <1>g, RequestMoves DEF tables, gateway
<1>3. ASSUME Finish(g) PROVE AccountInv'
  BY <1>3, <1>t, <1>g, FinishType, RequestFinishes DEF gateway
<1>4. \/ Goto(g, "insert") /\ UNCHANGED tables
      \/ \E id \in Owner(req[g].mail) :
            /\ req' = [req EXCEPT ![g].id = id,
                          ![g].pc = IF req[g].op = "verify" THEN "challenge" ELSE "resend"]
            /\ UNCHANGED tables
      \/ Finish(g)
  BY DEF FindByEmail
<1> QED
  BY <1>1, <1>2, <1>3, <1>4 DEF Owner

LEMMA InsertAccountStep ==
  ASSUME AccountInv, NEW g \in Gateways, InsertAccount(g)
  PROVE  AccountInv'
<1>t. TypeOK /\ req[g] \in ReqRec /\ lock \in [Rows -> Txs] /\ req[g].pc = "insert" /\ now \in Nat
  BY Types DEF AccountInv, InsertAccount
<1>g. UNCHANGED <<gateway, pins, mailed>>
  BY DEF InsertAccount
<1>1. ASSUME NEW id \in Ids, NextId(id), UNCHANGED <<user, chal>>,
             req' = [req EXCEPT ![g].pc = "commit", ![g].op = "create", ![g].id = id, ![g].at = now],
             lock' = [lock EXCEPT ![<<"user", id>>] = g, ![<<"challenge", id>>] = g]
      PROVE  AccountInv'
  <2>1. PICK r : r = [req[g] EXCEPT !.pc = "commit", !.op = "create", !.id = id, !.at = now]
    OBVIOUS
  <2>2. /\ r \in ReqRec /\ r.pc = "commit" /\ r.op = "create" /\ r.id = id
        /\ req' = [req EXCEPT ![g] = r]
    BY <2>1, <1>1, <1>t, Types DEF ReqRec
  <2>3. lock' \in [Rows -> Txs]
    BY <1>1, <1>t DEF Txs
  <2>4. TypeOK'
    BY <2>2, <2>3, <1>1, <1>t, <1>g, RequestType
  <2> QED
    BY <2>2, <2>4, <1>1, <1>t, <1>g, AccountInserted DEF gateway
<1>2. ASSUME UNCHANGED tables,
             \/ req' = [req EXCEPT ![g].pc = "find", ![g].raced = TRUE]
             \/ /\ req[g].collisions < CollisionRetries
                /\ req' = [req EXCEPT ![g].pc = "find", ![g].collisions = @ + 1]
      PROVE  AccountInv'
  <2>1. \E r : r \in ReqRec /\ r.pc = "find" /\ req' = [req EXCEPT ![g] = r]
    <3>1. CASE req' = [req EXCEPT ![g].pc = "find", ![g].raced = TRUE]
      <4>1. PICK r : r = [req[g] EXCEPT !.pc = "find", !.raced = TRUE]
        OBVIOUS
      <4>2. req' = [req EXCEPT ![g] = r]
        BY <4>1, <3>1, <1>t, Types
      <4>3. r \in ReqRec /\ r.pc = "find"
        BY <4>1, <1>t DEF ReqRec
      <4> QED
        BY <4>2, <4>3
    <3>2. CASE /\ req[g].collisions < CollisionRetries
               /\ req' = [req EXCEPT ![g].pc = "find", ![g].collisions = @ + 1]
      <4>1. PICK n : n = req[g].collisions + 1
        OBVIOUS
      <4>2. n \in 0 .. CollisionRetries
        BY <4>1, <3>2, <1>t, ReqFields, PolicyAssumption
      <4>3. PICK r : r = [req[g] EXCEPT !.pc = "find", !.collisions = n]
        OBVIOUS
      <4>4. req' = [req EXCEPT ![g] = r]
        BY <4>1, <4>3, <3>2, <1>t, Types
      <4>5. r \in ReqRec /\ r.pc = "find"
        BY <4>2, <4>3, <1>t DEF ReqRec
      <4> QED
        BY <4>4, <4>5
    <3> QED
      BY <1>2, <3>1, <3>2
  <2>2. PICK r : r \in ReqRec /\ r.pc = "find" /\ req' = [req EXCEPT ![g] = r]
    BY <2>1
  <2>3. TypeOK'
    BY <2>2, <1>2, <1>t, <1>g, RequestType DEF tables
  <2> QED
    BY <2>2, <2>3, <1>2, <1>t, <1>g, RequestMoves DEF tables, gateway
<1>3. ASSUME Finish(g) PROVE AccountInv'
  BY <1>3, <1>t, <1>g, FinishType, RequestFinishes DEF gateway
<1>4. \/ \E id \in Ids :
            /\ NextId(id) /\ UNCHANGED <<user, chal>>
            /\ req' = [req EXCEPT ![g].pc = "commit", ![g].op = "create", ![g].id = id, ![g].at = now]
            /\ lock' = [lock EXCEPT ![<<"user", id>>] = g, ![<<"challenge", id>>] = g]
      \/ req' = [req EXCEPT ![g].pc = "find", ![g].raced = TRUE] /\ UNCHANGED tables
      \/ /\ req[g].collisions < CollisionRetries /\ UNCHANGED tables
         /\ req' = [req EXCEPT ![g].pc = "find", ![g].collisions = @ + 1]
      \/ Finish(g)
  BY DEF InsertAccount
<1> QED
  BY <1>1, <1>2, <1>3, <1>4

LEMMA ResendPendingStep ==
  ASSUME AccountInv, NEW g \in Gateways, ResendPending(g)
  PROVE  AccountInv'
<1>t. /\ TypeOK /\ req[g] \in ReqRec /\ lock \in [Rows -> Txs] /\ now \in Nat
      /\ req[g].pc = "resend" /\ req[g].id \in Ids
  BY Types DEF AccountInv, ResendPending, ReqShape
<1>g. UNCHANGED <<gateway, pins, mailed>>
  BY DEF ResendPending
<1>1. CASE Finish(g)
  BY <1>1, <1>t, <1>g, FinishType, RequestFinishes DEF gateway
<1>2. CASE ~Finish(g)
  <2>1. PICK r : r = [req[g] EXCEPT !.pc = "write", !.op = "resend", !.at = now, !.todo = <<"challenge">>]
    OBVIOUS
  <2>2. UNCHANGED tables /\ req' = [req EXCEPT ![g] = r]
    BY <1>2, <2>1, <1>t, Types DEF ResendPending
  <2>3. /\ r \in ReqRec /\ r.pc = "write" /\ r.op = "resend" /\ r.id = req[g].id
        /\ r.todo = <<"challenge">>
    BY <2>1, <1>t DEF ReqRec
  <2>4. TypeOK'
    BY <2>2, <2>3, <1>t, <1>g, RequestType DEF tables
  <2> QED
    BY <2>2, <2>3, <2>4, <1>t, <1>g, RequestMoves DEF tables, gateway
<1> QED
  BY <1>1, <1>2

LEMMA ReadChallengeStep ==
  ASSUME AccountInv, NEW g \in Gateways, ReadChallenge(g)
  PROVE  AccountInv'
<1>t. /\ TypeOK /\ req[g] \in ReqRec /\ lock \in [Rows -> Txs]
      /\ req[g].pc = "challenge" /\ req[g].id \in Ids
  BY Types DEF AccountInv, ReadChallenge, ReqShape
<1>g. UNCHANGED <<gateway, pins, mailed>>
  BY DEF ReadChallenge
<1>1. CASE Finish(g)
  BY <1>1, <1>t, <1>g, FinishType, RequestFinishes DEF gateway
<1>2. CASE ~Finish(g)
  <2>1. PICK o, d : /\ \/ o = "activate" /\ d = ActivationOrder
                       \/ o = "attempt" /\ d = <<"challenge">>
                    /\ req' = [req EXCEPT ![g].pc = "write", ![g].op = o, ![g].todo = d]
                    /\ UNCHANGED tables
    BY <1>2 DEF ReadChallenge
  <2>2. PICK r : r = [req[g] EXCEPT !.pc = "write", !.op = o, !.todo = d]
    OBVIOUS
  <2>3. req' = [req EXCEPT ![g] = r]
    BY <2>1, <2>2, <1>t, Types
  <2>4. r \in ReqRec /\ r.pc = "write" /\ r.op = o /\ r.id = req[g].id /\ r.todo = d
    BY <2>1, <2>2, <1>t DEF ReqRec
  <2>5. TypeOK'
    BY <2>1, <2>3, <2>4, <1>t, <1>g, RequestType DEF tables
  <2> QED
    BY <2>1, <2>3, <2>4, <2>5, <1>t, <1>g, RequestMoves DEF tables, gateway
<1> QED
  BY <1>1, <1>2

LEMMA WriteRowStep ==
  ASSUME AccountInv, NEW g \in Gateways, WriteRow(g)
  PROVE  AccountInv'
<1>t. /\ TypeOK /\ req[g] \in ReqRec /\ lock \in [Rows -> Txs]
      /\ req[g].pc = "write" /\ req[g].id \in Ids
      /\ \/ req[g].todo = <<"challenge">>
         \/ req[g].op = "activate" /\ req[g].todo = ActivationOrder
  BY Types DEF AccountInv, WriteRow, ReqShape
<1>g. UNCHANGED <<gateway, pins, mailed>>
  BY DEF WriteRow
<1>1. CASE Finish(g)
  BY <1>1, <1>t, <1>g, FinishType, RequestFinishes DEF gateway
<1>2. CASE ~Finish(g)
  <2> DEFINE row == <<Head(req[g].todo), req[g].id>>
  <2>1. /\ ~Locked(row, g) /\ Present(row)
        /\ req[g].op = "resend" => ResendAllowed(req[g].id, req[g].at)
        /\ lock' = [lock EXCEPT ![row] = g] /\ UNCHANGED <<user, chal>>
        /\ req' = [req EXCEPT ![g].todo = Tail(@),
                      ![g].pc = IF Len(req[g].todo) = 1 THEN "commit" ELSE "write"]
    BY <1>2 DEF WriteRow
  <2>2. lock' \in [Rows -> Txs]
    BY <2>1, <1>t, TakeType
  <2>3. CASE req[g].todo = <<"challenge">>
    <3>1. /\ row = <<"challenge", req[g].id>>
          /\ req' = [req EXCEPT ![g].todo = <<>>, ![g].pc = "commit"]
      BY <2>1, <2>3, Orders
    <3>2. PICK r : r = [req[g] EXCEPT !.todo = <<>>, !.pc = "commit"]
      OBVIOUS
    <3>3. req' = [req EXCEPT ![g] = r]
      BY <3>1, <3>2, <1>t, Types
    <3>4. /\ r \in ReqRec /\ r.pc = "commit" /\ r.op = req[g].op /\ r.id = req[g].id
          /\ r.at = req[g].at
      BY <3>2, <1>t DEF ReqRec
    <3>5. TypeOK'
      BY <3>3, <3>4, <2>1, <2>2, <1>t, <1>g, RequestType
    <3>6. ChalLock(req[g].id) \in {NoTx, g} /\ chal[req[g].id].pin # 0
      BY <2>1, <3>1 DEF Locked, Present, ChalLock
    <3>7. lock' = [lock EXCEPT ![<<"challenge", req[g].id>>] = g]
      BY <2>1, <3>1
    <3>8. UNCHANGED <<user, chal, worker>> /\ (req[g].op = "resend" => ResendAllowed(req[g].id, req[g].at))
      BY <2>1, <1>g DEF gateway
    <3> HIDE DEF row
    <3> QED
      BY <2>3, <3>3, <3>4, <3>5, <3>6, <3>7, <3>8, <1>t, ChallengeWritten
  <2>4. CASE req[g].op = "activate" /\ req[g].todo = ActivationOrder
    <3>0. row = <<"user", req[g].id>>
      BY <2>4, Orders
    <3>1. /\ row = <<"user", req[g].id>>
          /\ req' = [req EXCEPT ![g].todo = <<"challenge">>, ![g].pc = "write"]
      <4>1. Tail(req[g].todo) = <<"challenge">> /\ Len(req[g].todo) # 1
        BY <2>4, Orders
      <4> QED
        BY <2>1, <3>0, <4>1, <1>t, Types
    <3>2. PICK r : r = [req[g] EXCEPT !.todo = <<"challenge">>, !.pc = "write"]
      OBVIOUS
    <3>3. req' = [req EXCEPT ![g] = r]
      BY <3>1, <3>2, <1>t, Types
    <3>4. /\ r \in ReqRec /\ r.pc = "write" /\ r.op = req[g].op /\ r.id = req[g].id
          /\ r.todo = <<"challenge">>
      BY <3>2, <1>t DEF ReqRec
    <3>5. TypeOK'
      BY <3>3, <3>4, <2>1, <2>2, <1>t, <1>g, RequestType
    <3>6. UserLock(req[g].id) \in {NoTx, g}
      BY <2>1, <3>1 DEF Locked, UserLock
    <3>7. lock' = [lock EXCEPT ![<<"user", req[g].id>>] = g]
      BY <2>1, <3>1
    <3>8. UNCHANGED <<user, chal, worker>>
      BY <2>1, <1>g DEF gateway
    <3> HIDE DEF row
    <3> QED
      BY <2>4, <3>3, <3>4, <3>5, <3>6, <3>7, <3>8, <1>t, StatusWritten
  <2> QED
    BY <2>3, <2>4, <1>t
<1> QED
  BY <1>1, <1>2

\* A commit that leaves a new challenge.
LEMMA IssueStep ==
  ASSUME AccountInv, NEW g \in Gateways, NEW n \in 0 .. MaxResendCount, req[g].pc = "commit",
         CommitIssue(g, n), user' \in [Ids -> UserRec], user'[req[g].id].status = "pending",
         \A j \in Ids : j # req[g].id => user'[j] = user[j],
         user' = user \/ UserLock(req[g].id) = g
  PROVE  /\ AccountInv' /\ \A j \in Ids : j # req[g].id => chal'[j] = chal[j]
         /\ chal'[req[g].id].sent = req[g].at /\ chal'[req[g].id].resends = n
         /\ chal'[req[g].id].attempts = 0
<1>t. /\ TypeOK /\ req[g] \in ReqRec /\ req[g].id \in Ids /\ req[g].at \in Nat /\ pins \in Nat
      /\ ChalLock(req[g].id) = g /\ chal \in [Ids -> ChalRec] /\ req \in [Gateways -> ReqRec]
  BY Types, ReqFields DEF AccountInv, ReqShape, Holds
<1>1. PICK c : c = [pin |-> pins + 1, expires |-> req[g].at + PinTTL, attempts |-> 0,
                    resends |-> n, sent |-> req[g].at]
  OBVIOUS
<1>2. c \in ChalRec /\ c.pin # 0 /\ c.sent = req[g].at /\ c.resends = n /\ c.attempts = 0
  BY <1>1, <1>t, PolicyAssumption DEF ChalRec
<1>3. chal' = [chal EXCEPT ![req[g].id] = c]
  BY <1>1 DEF CommitIssue, Issue
<1>4. /\ chal' \in [Ids -> ChalRec] /\ chal'[req[g].id] = c
      /\ \A j \in Ids : j # req[g].id => chal'[j] = chal[j]
  BY <1>2, <1>3, <1>t
<1>5. PICK r : r = [NoReq EXCEPT !.pc = "send", !.pin = pins + 1]
  OBVIOUS
<1>p. pins + 1 \in Nat
  BY <1>t
<1>6. r \in ReqRec /\ r.pc = "send"
  BY <1>5, <1>p, NoReqType DEF ReqRec
<1>7. req' = [req EXCEPT ![g] = r]
  BY <1>5 DEF CommitIssue
<1>8. TypeOK'
  <2>1. req' \in [Gateways -> ReqRec] /\ lock' \in [Rows -> Txs] /\ pins' \in Nat
    BY <1>6, <1>7, <1>t, ReleaseType DEF CommitIssue
  <2> QED
    BY <2>1, <1>4, <1>t, Types, TypesNext DEF CommitIssue, gateway, grain
<1>9. ChallengeIffPending'
  BY <1>2, <1>4 DEF AccountInv, ChallengeIffPending
<1>10. /\ \A j \in Ids : user'[j] # user[j] => UserLock(j) = g /\ ChalLock(j) = g
       /\ \A j \in Ids : chal'[j] # chal[j] => ChalLock(j) = g
  BY <1>4, <1>t
<1>11. AccountInv'
  BY <1>6, <1>7, <1>8, <1>9, <1>10, RequestReleases DEF CommitIssue, gateway
<1> QED
  BY <1>11, <1>2, <1>4

LEMMA CommitCreateStep ==
  ASSUME AccountInv, NEW g \in Gateways, CommitCreate(g)
  PROVE  AccountInv'
<1>t. /\ TypeOK /\ req[g] \in ReqRec /\ req[g].id \in Ids /\ UserLock(req[g].id) = g
      /\ req[g].pc = "commit" /\ user \in [Ids -> UserRec] /\ req[g].mail \in Mails \cup {0}
  BY Types, ReqFields DEF AccountInv, ReqShape, Holds, CommitCreate
<1>1. PICK u : u = [mail |-> req[g].mail, status |-> "pending"]
  OBVIOUS
<1>2. u \in UserRec /\ u.status = "pending" /\ user' = [user EXCEPT ![req[g].id] = u]
  BY <1>1, <1>t DEF UserRec, CommitCreate
<1>3. /\ user' \in [Ids -> UserRec] /\ user'[req[g].id] = u
      /\ \A j \in Ids : j # req[g].id => user'[j] = user[j]
  BY <1>2, <1>t
<1>4. 0 \in 0 .. MaxResendCount
  BY PolicyAssumption
<1> QED
  BY <1>2, <1>3, <1>4, <1>t, IssueStep DEF CommitCreate

LEMMA CommitResendStep ==
  ASSUME AccountInv, NEW g \in Gateways, CommitResend(g)
  PROVE  /\ AccountInv' /\ \A j \in Ids : j # req[g].id => chal'[j] = chal[j]
         /\ chal'[req[g].id].sent >= chal[req[g].id].sent + ResendMinInterval
         /\ chal'[req[g].id].resends = chal[req[g].id].resends + 1
         /\ chal[req[g].id].resends < MaxResendCount
         /\ chal'[req[g].id].attempts = 0
<1>t. /\ TypeOK /\ req[g] \in ReqRec /\ req[g].id \in Ids /\ req[g].at \in Nat
      /\ req[g].pc = "commit" /\ user \in [Ids -> UserRec] /\ chal[req[g].id] \in ChalRec
      /\ ResendAllowed(req[g].id, req[g].at) /\ user[req[g].id].status = "pending"
  BY Types, ReqFields DEF AccountInv, ReqShape, Decided, ChallengeIffPending, CommitResend
<1>c. /\ chal[req[g].id].resends \in 0 .. MaxResendCount /\ chal[req[g].id].sent \in Nat
      /\ MaxResendCount \in Nat /\ ResendMinInterval \in Nat
  BY <1>t, ChalFields, PolicyAssumption
<1>1. PICK n : n = chal[req[g].id].resends + 1
  OBVIOUS
<1>2. n \in 0 .. MaxResendCount /\ chal[req[g].id].resends < MaxResendCount
  BY <1>1, <1>c, <1>t DEF ResendAllowed
<1>3. CommitIssue(g, n) /\ user' = user
  BY <1>1 DEF CommitResend
<1>4. /\ AccountInv' /\ \A j \in Ids : j # req[g].id => chal'[j] = chal[j]
      /\ chal'[req[g].id].sent = req[g].at /\ chal'[req[g].id].resends = n
      /\ chal'[req[g].id].attempts = 0
  <2>1. /\ user' \in [Ids -> UserRec] /\ user'[req[g].id].status = "pending"
        /\ \A j \in Ids : j # req[g].id => user'[j] = user[j]
    BY <1>3, <1>t
  <2> QED
    BY <2>1, <1>2, <1>3, <1>t, IssueStep
<1>5. req[g].at >= chal[req[g].id].sent + ResendMinInterval
  BY <1>t, <1>c DEF ResendAllowed
<1> QED
  BY <1>1, <1>2, <1>4, <1>5

LEMMA CommitAttemptStep ==
  ASSUME AccountInv, NEW g \in Gateways, CommitAttempt(g)
  PROVE  /\ AccountInv' /\ \A j \in Ids : j # req[g].id => chal'[j] = chal[j]
         /\ chal'[req[g].id].pin = chal[req[g].id].pin
         /\ chal'[req[g].id].attempts = chal[req[g].id].attempts + 1
<1>t. /\ TypeOK /\ req[g] \in ReqRec /\ req[g].id \in Ids /\ ChalLock(req[g].id) = g
      /\ req[g].pc = "commit" /\ chal \in [Ids -> ChalRec] /\ chal[req[g].id] \in ChalRec
      /\ req \in [Gateways -> ReqRec] /\ user' = user
  BY Types DEF AccountInv, ReqShape, Holds, CommitAttempt
<1>1. PICK c : c = [chal[req[g].id] EXCEPT !.attempts = chal[req[g].id].attempts + 1]
  OBVIOUS
<1>2. /\ c \in ChalRec /\ c.pin = chal[req[g].id].pin
      /\ c.attempts = chal[req[g].id].attempts + 1
  BY <1>1, <1>t DEF ChalRec
<1>3. chal' = [chal EXCEPT ![req[g].id] = c]
  BY <1>1, <1>t DEF CommitAttempt
<1>4. /\ chal' \in [Ids -> ChalRec] /\ chal'[req[g].id] = c
      /\ \A j \in Ids : j # req[g].id => chal'[j] = chal[j]
  BY <1>2, <1>3, <1>t
<1>5. NoReq.pc = "idle" /\ req' = [req EXCEPT ![g] = NoReq] /\ Release(g)
  BY DEF CommitAttempt, NoReq
<1>6. TypeOK'
  <2>1. req' \in [Gateways -> ReqRec] /\ lock' \in [Rows -> Txs]
    BY <1>5, <1>t, NoReqType, ReleaseType
  <2> QED
    BY <2>1, <1>4, <1>t, Types, TypesNext DEF CommitAttempt, gateway, grain
<1>7. ChallengeIffPending'
  BY <1>2, <1>4, <1>t DEF AccountInv, ChallengeIffPending
<1>8. \A j \in Ids : chal'[j] # chal[j] => ChalLock(j) = g
  BY <1>4, <1>t
<1>9. AccountInv'
  BY <1>5, <1>6, <1>7, <1>8, <1>t, RequestReleases DEF CommitAttempt, gateway
<1> QED
  BY <1>9, <1>2, <1>4

LEMMA CommitActivateStep ==
  ASSUME AccountInv, NEW g \in Gateways, CommitActivate(g)
  PROVE  /\ AccountInv' /\ user[req[g].id].status = "pending"
         /\ \A j \in Ids : j # req[g].id => chal'[j] = chal[j] /\ user'[j] = user[j]
         /\ chal'[req[g].id] = NoChal
<1>t. /\ TypeOK /\ req[g] \in ReqRec /\ req[g].id \in Ids
      /\ ChalLock(req[g].id) = g /\ UserLock(req[g].id) = g
      /\ req[g].pc = "commit" /\ chal \in [Ids -> ChalRec] /\ user[req[g].id] \in UserRec
      /\ req \in [Gateways -> ReqRec] /\ user \in [Ids -> UserRec]
      /\ user[req[g].id].status = "pending"
  BY Types DEF AccountInv, ReqShape, Holds, Decided, ChallengeIffPending, CommitActivate
<1>1. PICK u : u = [user[req[g].id] EXCEPT !.status = "active"]
  OBVIOUS
<1>2. u \in UserRec /\ u.status = "active"
  BY <1>1, <1>t DEF UserRec
<1>3. /\ user' = [user EXCEPT ![req[g].id] = u] /\ chal' = [chal EXCEPT ![req[g].id] = NoChal]
  BY <1>1, <1>t DEF CommitActivate
<1>4. /\ user' \in [Ids -> UserRec] /\ user'[req[g].id] = u
      /\ chal' \in [Ids -> ChalRec] /\ chal'[req[g].id] = NoChal
      /\ \A j \in Ids : j # req[g].id => chal'[j] = chal[j] /\ user'[j] = user[j]
  BY <1>2, <1>3, <1>t, NoChalType
<1>5. NoReq.pc = "idle" /\ req' = [req EXCEPT ![g] = NoReq] /\ Release(g)
  BY DEF CommitActivate, NoReq
<1>6. TypeOK'
  <2>1. req' \in [Gateways -> ReqRec] /\ lock' \in [Rows -> Txs]
    BY <1>5, <1>t, NoReqType, ReleaseType
  <2> QED
    BY <2>1, <1>4, <1>t, Types, TypesNext DEF CommitActivate, gateway, grain
<1>7. ChallengeIffPending'
  BY <1>2, <1>4 DEF AccountInv, ChallengeIffPending, NoChal
<1>8. /\ \A j \in Ids : user'[j] # user[j] => UserLock(j) = g /\ ChalLock(j) = g
      /\ \A j \in Ids : chal'[j] # chal[j] => ChalLock(j) = g
  BY <1>4, <1>t
<1>9. AccountInv'
  BY <1>5, <1>6, <1>7, <1>8, RequestReleases DEF CommitActivate, gateway
<1> QED
  BY <1>9, <1>4, <1>t

LEMMA SendStep ==
  ASSUME AccountInv, NEW g \in Gateways, Send(g)
  PROVE  AccountInv'
<1>t. /\ TypeOK /\ req[g] \in ReqRec /\ req[g].pin \in Nat /\ req \in [Gateways -> ReqRec]
      /\ req[g].pc = "send" /\ mailed \subseteq Nat
  BY Types, ReqFields DEF AccountInv, Send
<1>1. NoReq.pc = "idle" /\ req' = [req EXCEPT ![g] = NoReq]
  BY DEF Send, NoReq
<1>2. TypeOK'
  <2>1. req' \in [Gateways -> ReqRec] /\ mailed' \subseteq Nat
    BY <1>1, <1>t, NoReqType DEF Send
  <2> QED
    BY <2>1, <1>t, Types, TypesNext DEF Send, gateway, grain, tables
<1> QED
  BY <1>1, <1>2, <1>t, RequestMoves DEF Send, gateway, tables

LEMMA AbortStep ==
  ASSUME AccountInv, NEW g \in Gateways, Abort(g)
  PROVE  AccountInv'
BY FinishType, RequestFinishes DEF AccountInv, Abort, gateway

-----------------------------------------------------------------------------
LEMMA SweepPendingAccountsStep ==
  ASSUME AccountInv, SweepPendingAccounts
  PROVE  AccountInv'
<1>t. TypeOK /\ worker \in [Workers -> WorkRec]
  BY Types DEF AccountInv
<1>1. PICK w \in Workers : /\ worker[w].pc = "idle" /\ awaited' = w
                           /\ worker' = [worker EXCEPT ![w].pc = "start"]
  BY DEF SweepPendingAccounts
<1>2. /\ worker' \in [Workers -> WorkRec]
      /\ \A v \in Workers : worker[v].pc = "delete" => worker'[v].pc = "delete"
  BY <1>1, <1>t DEF WorkRec
<1>3. TypeOK'
  BY <1>1, <1>2, <1>t, Types, WorkerType DEF SweepPendingAccounts, tables
<1> QED
  BY <1>2, <1>3, WorkerMoves DEF SweepPendingAccounts, tables, sweep

\* The steps of a worker that only concern itself and the grain.
LEMMA WorkerAloneStep ==
  ASSUME AccountInv, NEW w \in Workers, SweepBegin(w) \/ SweepScan(w) \/ SweepReply(w)
  PROVE  AccountInv'
<1>t. TypeOK /\ worker \in [Workers -> WorkRec] /\ now \in Nat /\ worker[w] \in WorkRec
  BY Types DEF AccountInv
<1>1. PICK x : worker' = [worker EXCEPT ![w] = x] /\ x \in WorkRec
  <2>1. CASE SweepBegin(w)
    <3>1. [NoWork EXCEPT !.pc = "scan", !.at = now] \in WorkRec
      BY <1>t DEF NoWork, WorkRec
    <3>2. [NoWork EXCEPT !.pc = "reply"] \in WorkRec
      BY NoWorkType
    <3> QED
      BY <2>1, <3>1, <3>2 DEF SweepBegin
  <2>2. CASE SweepScan(w)
    <3>1. PICK V : /\ V \subseteq Ids
                   /\ worker' = [worker EXCEPT ![w].pc = "delete", ![w].at = 0, ![w].victims = V]
      BY <2>2 DEF SweepScan
    <3>2. PICK x : x = [worker[w] EXCEPT !.pc = "delete", !.at = 0, !.victims = V]
      OBVIOUS
    <3>3. x \in WorkRec
      BY <3>1, <3>2, <1>t DEF WorkRec
    <3>4. worker' = [worker EXCEPT ![w] = x]
      BY <3>1, <3>2, <1>t
    <3> QED
      BY <3>3, <3>4
  <2>3. CASE SweepReply(w)
    BY <2>3, NoWorkType DEF SweepReply
  <2> QED
    BY <2>1, <2>2, <2>3
<1>2. /\ worker[w].pc # "delete" /\ UNCHANGED <<sweep, tables, failures>>
      /\ running' \in {running, FALSE} /\ awaited' \in {awaited, NoTx}
  BY DEF SweepBegin, SweepScan, SweepReply, grain
<1>3. /\ worker' \in [Workers -> WorkRec]
      /\ \A v \in Workers : worker[v].pc = "delete" => worker'[v].pc = "delete"
  BY <1>1, <1>2, <1>t
<1>4. running' \in BOOLEAN /\ awaited' \in Workers \cup {NoTx}
  BY <1>2, <1>t, Types
<1>5. TypeOK'
  BY <1>2, <1>3, <1>4, <1>t, Types, WorkerType DEF tables
<1> QED
  BY <1>2, <1>3, <1>5, WorkerMoves DEF tables, sweep

LEMMA SweepUserStep ==
  ASSUME AccountInv, NEW w \in Workers, SweepUser(w)
  PROVE  AccountInv'
<1>t. /\ TypeOK /\ worker \in [Workers -> WorkRec] /\ worker[w] \in WorkRec
      /\ lock \in [Rows -> Txs] /\ worker[w].pc = "delete"
  BY Types DEF AccountInv, SweepUser
<1>1. PICK id \in worker[w].victims :
         /\ ~Locked(<<"user", id>>, w)
         /\ worker' = [worker EXCEPT ![w].victims = @ \ {id}]
         /\ lock' = IF StillDeletable(id) THEN [lock EXCEPT ![<<"user", id>>] = w] ELSE lock
  BY DEF SweepUser
<1>2. id \in Ids /\ worker[w].victims \ {id} \subseteq Ids
  BY <1>t DEF WorkRec
<1>3. /\ worker' \in [Workers -> WorkRec]
      /\ \A v \in Workers : worker'[v].pc = worker[v].pc
  BY <1>1, <1>2, <1>t DEF WorkRec
<1>4. lock' \in [Rows -> Txs]
  BY <1>1, <1>t, TakeType
<1>5. TypeOK'
  BY <1>3, <1>4, <1>t, Types, WorkerType DEF SweepUser, grain
<1>u. UNCHANGED <<user, chal, req>>
  BY DEF SweepUser, sweep
<1>6. CASE StillDeletable(id)
  <2>1. /\ lock' = [lock EXCEPT ![<<"user", id>>] = w] /\ UserLock(id) \in {NoTx, w}
        /\ user[id].status = "pending"
    BY <1>6, <1>1 DEF StillDeletable, Locked, UserLock
  <2> QED
    BY <2>1, <1>2, <1>3, <1>5, <1>t, <1>u, VictimTaken
<1>7. CASE ~StillDeletable(id)
  BY <1>7, <1>1, <1>3, <1>5, <1>u, WorkerMoves
<1> QED
  BY <1>6, <1>7

LEMMA SweepChallengeStep ==
  ASSUME AccountInv, NEW w \in Workers, SweepChallenge(w)
  PROVE  AccountInv'
<1>t. TypeOK
  BY DEF AccountInv
<1>1. PICK id \in Ids : /\ UserLock(id) = w /\ ChalLock(id) = NoTx
                        /\ lock' = [lock EXCEPT ![<<"challenge", id>>] = w]
  BY DEF SweepChallenge, UserLock, ChalLock
<1>2. TypeOK'
  BY <1>1, <1>t, TakeType, Types, WorkerType DEF SweepChallenge, grain
<1> QED
  BY <1>1, <1>2, CascadeTaken DEF SweepChallenge, sweep

LEMMA SweepCommitStep ==
  ASSUME AccountInv, NEW w \in Workers, SweepCommit(w)
  PROVE  /\ AccountInv'
         /\ \A j \in Ids : user'[j] # user[j] => user[j].status = "pending"
         /\ \A j \in Ids : chal'[j] # chal[j] => chal'[j] = NoChal
<1>t. /\ TypeOK /\ worker \in [Workers -> WorkRec] /\ user \in [Ids -> UserRec]
      /\ chal \in [Ids -> ChalRec] /\ Release(w)
      /\ \A j \in Ids : UserLock(j) = w => ChalLock(j) = w /\ user[j].status = "pending"
      /\ \A j \in Ids : ChalLock(j) = w => UserLock(j) = w
  BY Types DEF AccountInv, SweepCommit, UserRows, ChalRows, UserLock, ChalLock
<1>1. \A j \in Ids : /\ user'[j] = IF UserLock(j) = w THEN [user[j] EXCEPT !.status = "gone"] ELSE user[j]
                     /\ chal'[j] = IF ChalLock(j) = w THEN NoChal ELSE chal[j]
  BY RowsOf DEF SweepCommit, Held, UserLock, ChalLock
<1>2. \A j \in Ids : [user[j] EXCEPT !.status = "gone"] \in UserRec /\ [user[j] EXCEPT !.status = "gone"].status = "gone"
  BY <1>t DEF UserRec
<1>3. user' \in [Ids -> UserRec] /\ chal' \in [Ids -> ChalRec]
  <2>1. user' = [j \in Ids |-> user'[j]] /\ chal' = [j \in Ids |-> chal'[j]]
    BY DEF SweepCommit
  <2>2. \A j \in Ids : user'[j] \in UserRec /\ chal'[j] \in ChalRec
    BY <1>1, <1>2, <1>t, NoChalType
  <2> QED
    BY <2>1, <2>2
<1>4. /\ worker' \in [Workers -> WorkRec]
      /\ \A v \in Workers : v # w => worker'[v] = worker[v]
  BY <1>t, NoWorkType DEF SweepCommit
<1>5. TypeOK'
  BY <1>3, <1>4, <1>t, ReleaseType, Types, WorkerType DEF SweepCommit, grain
<1>6. ChallengeIffPending'
  <2> SUFFICES ASSUME NEW j \in Ids PROVE chal'[j].pin # 0 <=> user'[j].status = "pending"
    BY DEF ChallengeIffPending
  <2>1. CASE UserLock(j) = w
    <3>1. chal'[j] = NoChal /\ user'[j].status = "gone"
      BY <2>1, <1>1, <1>2, <1>t
    <3> QED
      BY <3>1 DEF NoChal
  <2>2. CASE UserLock(j) # w
    <3>1. chal'[j] = chal[j] /\ user'[j] = user[j]
      BY <2>2, <1>1, <1>t
    <3> QED
      BY <3>1 DEF AccountInv, ChallengeIffPending
  <2> QED
    BY <2>1, <2>2
<1>7. /\ \A j \in Ids : user'[j] # user[j] => UserLock(j) = w /\ ChalLock(j) = w
      /\ \A j \in Ids : chal'[j] # chal[j] => ChalLock(j) = w
  BY <1>1, <1>t
<1>8. AccountInv'
  BY <1>4, <1>5, <1>6, <1>7, <1>t, WorkerReleases DEF SweepCommit, sweep
<1> QED
  BY <1>8, <1>7, <1>1, <1>t

LEMMA SweepFailsStep ==
  ASSUME AccountInv, NEW w \in Workers, SweepFails(w)
  PROVE  AccountInv'
<1>t. TypeOK /\ worker \in [Workers -> WorkRec]
  BY Types DEF AccountInv
<1>1. /\ worker' \in [Workers -> WorkRec]
      /\ \A v \in Workers : v # w => worker'[v] = worker[v]
  BY <1>t, NoWorkType DEF SweepFails
<1>2. failures' \in Nat /\ lock' \in [Rows -> Txs]
  BY <1>t, Types, ReleaseType DEF SweepFails
<1>3. TypeOK'
  BY <1>1, <1>2, <1>t, Types, WorkerType DEF SweepFails, grain
<1>4. ChallengeIffPending'
  BY DEF SweepFails, AccountInv, ChallengeIffPending
<1> QED
  BY <1>1, <1>3, <1>4, WorkerReleases DEF SweepFails, sweep

LEMMA QuietStep ==
  ASSUME AccountInv, FutureTimeout \/ Tick \/ UNCHANGED vars
  PROVE  AccountInv'
<1>t. TypeOK
  BY DEF AccountInv
<1>1. UNCHANGED <<user, chal, lock, req, worker, pins, mailed, requests>>
  BY DEF FutureTimeout, Tick, vars, tables, sweep
<1>2. /\ now' \in Nat /\ failures' \in Nat /\ running' \in BOOLEAN
      /\ awaited' \in Workers \cup {NoTx}
  <2>1. CASE FutureTimeout
    <3>1. now' = now /\ failures' \in {failures, failures + 1} /\ running' = FALSE /\ awaited' = NoTx
      BY <2>1 DEF FutureTimeout, sweep
    <3>2. now' \in Nat /\ failures' \in Nat
      BY <3>1, <1>t, Types
    <3> QED
      BY <3>1, <3>2
  <2>2. CASE Tick \/ UNCHANGED vars
    <3>1. now' \in {now, now + 1} /\ UNCHANGED <<failures, running, awaited>>
      BY <2>2 DEF Tick, vars, grain
    <3>2. now' \in Nat /\ failures' \in Nat
      BY <3>1, <1>t, Types
    <3>3. running' \in BOOLEAN /\ awaited' \in Workers \cup {NoTx}
      BY <3>1, <1>t, Types, Zenon
    <3> QED
      BY <3>2, <3>3
  <2> QED
    BY <2>1, <2>2
<1>3. TypeOK'
  BY <1>1, <1>2, <1>t, Types, TypesNext
<1> QED
  BY <1>1, <1>3, WorkerMoves

LEMMA AccountInit == Init => AccountInv
<1> SUFFICES ASSUME Init PROVE AccountInv
  OBVIOUS
<1>1. TypeOK
  <2>1. user \in [Ids -> UserRec]
    BY DEF Init, NoUser, UserRec
  <2>2. chal \in [Ids -> ChalRec]
    BY NoChalType DEF Init
  <2>3. lock \in [Rows -> Txs]
    BY DEF Init, Txs
  <2>4. req \in [Gateways -> ReqRec]
    BY NoReqType DEF Init
  <2>5. worker \in [Workers -> WorkRec]
    BY NoWorkType DEF Init
  <2> QED
    BY <2>1, <2>2, <2>3, <2>4, <2>5 DEF Init, TypeOK, UserRec, ChalRec, ReqRec, WorkRec
<1>2. \A g \in Gateways : req[g].pc = "idle"
  BY DEF Init, NoReq
<1>3. \A id \in Ids : UserLock(id) = NoTx /\ ChalLock(id) = NoTx
  BY RowsOf DEF Init, UserLock, ChalLock
<1>4. ChallengeIffPending
  BY DEF Init, ChallengeIffPending, NoUser, NoChal
<1> QED
  BY <1>1, <1>2, <1>3, <1>4 DEF AccountInv, ReqShape, UserRows, ChalRows, Holds, Decided, Between

LEMMA AccountStep == AccountInv /\ [Next]_vars => AccountInv'
<1> SUFFICES ASSUME AccountInv, [Next]_vars PROVE AccountInv'
  OBVIOUS
<1>1. ASSUME NEW g \in Gateways, Begin(g) \/ RequestStep(g) \/ Abort(g) PROVE AccountInv'
  BY <1>1, BeginStep, FindByEmailStep, InsertAccountStep, ResendPendingStep, ReadChallengeStep,
     WriteRowStep, CommitCreateStep, CommitResendStep, CommitAttemptStep, CommitActivateStep,
     SendStep, AbortStep DEF RequestStep
<1>2. ASSUME NEW w \in Workers, WorkerStep(w) \/ SweepFails(w) PROVE AccountInv'
  BY <1>2, WorkerAloneStep, SweepUserStep, SweepChallengeStep, SweepCommitStep, SweepFailsStep
     DEF WorkerStep
<1> QED
  BY <1>1, <1>2, SweepPendingAccountsStep, QuietStep DEF Next

LEMMA AccountInvariant == Spec => []AccountInv
BY AccountInit, AccountStep, PTL DEF Spec

\* Every variable keeps its shape; in particular no interleaving of resends
\* takes resend_count past RegistrationPolicy.MaxResendCount.
THEOREM AccountsTypeCorrect == Spec => []TypeOK
<1>1. AccountInv => TypeOK
  BY DEF AccountInv
<1> QED
  BY AccountInvariant, <1>1, PTL

\* createPending, resendPending, verify and the sweep keep an account pending
\* exactly while its challenge exists, for any number of concurrent requests
\* and workers.
THEOREM ChallengePending == Spec => []ChallengeIffPending
<1>1. AccountInv => ChallengeIffPending
  BY DEF AccountInv
<1> QED
  BY AccountInvariant, <1>1, PTL

-----------------------------------------------------------------------------
(* The action properties.                                                  *)

\* Only the commits of a request or of a sweep write the tables.
Commits(g) == CommitCreate(g) \/ CommitResend(g) \/ CommitAttempt(g) \/ CommitActivate(g)

LEMMA RequestOnlyCommits ==
  ASSUME NEW g \in Gateways, Begin(g) \/ RequestStep(g) \/ Abort(g), ~Commits(g)
  PROVE  UNCHANGED <<user, chal>>
<1>1. CASE Begin(g) \/ Abort(g) \/ Send(g)
  BY <1>1 DEF Begin, Abort, Send, Finish, tables
<1>2. CASE FindByEmail(g)
  BY <1>2 DEF FindByEmail, Finish, tables
<1>3. CASE InsertAccount(g)
  BY <1>3 DEF InsertAccount, Finish, tables
<1>4. CASE ResendPending(g) \/ ReadChallenge(g) \/ WriteRow(g)
  BY <1>4 DEF ResendPending, ReadChallenge, WriteRow, Finish, tables
<1> QED
  BY <1>1, <1>2, <1>3, <1>4 DEF RequestStep, Commits

LEMMA OnlyCommitsWrite ==
  ASSUME [Next]_vars
  PROVE  \/ UNCHANGED <<user, chal>>
         \/ \E g \in Gateways : Commits(g)
         \/ \E w \in Workers : SweepCommit(w)
<1>1. ASSUME NEW w \in Workers, WorkerStep(w) \/ SweepFails(w), ~SweepCommit(w)
      PROVE  UNCHANGED <<user, chal>>
  BY <1>1 DEF WorkerStep, SweepBegin, SweepScan, SweepUser, SweepChallenge, SweepReply, SweepFails,
     tables
<1>2. CASE SweepPendingAccounts \/ FutureTimeout \/ Tick \/ UNCHANGED vars
  BY <1>2 DEF SweepPendingAccounts, FutureTimeout, Tick, vars, tables
<1> QED
  BY <1>1, <1>2, RequestOnlyCommits DEF Next

LEMMA VerifiedStep ==
  ASSUME AccountInv, [Next]_vars, NEW id \in Ids, user[id].status = "active"
  PROVE  user'[id] = user[id]
<1>t. TypeOK /\ user \in [Ids -> UserRec]
  BY Types DEF AccountInv
<1>1. ASSUME NEW g \in Gateways, Commits(g) PROVE user'[id] = user[id]
  <2>1. CASE CommitCreate(g)
    <3>1. req[g].id # id
      BY <2>1 DEF CommitCreate, AccountInv, Decided
    <3> QED
      BY <2>1, <3>1, <1>t DEF CommitCreate
  <2>2. CASE CommitActivate(g)
    BY <2>2, CommitActivateStep
  <2> QED
    BY <1>1, <2>1, <2>2 DEF Commits, CommitResend, CommitAttempt
<1>2. ASSUME NEW w \in Workers, SweepCommit(w) PROVE user'[id] = user[id]
  BY <1>2, SweepCommitStep
<1> QED
  BY <1>1, <1>2, OnlyCommitsWrite

\* A verified account is never changed again: no sweep deletes it, even one
\* whose snapshot saw it pending (accountgc, the DELETE's second look at the
\* row), and no registration overwrites it.
THEOREM VerifiedSafe == Spec => VerifiedStays
<1>1. AccountInv /\ [Next]_vars =>
        [\A id \in Ids : user[id].status = "active" => user'[id] = user[id]]_vars
  BY VerifiedStep
<1> QED
  BY AccountInvariant, <1>1, PTL DEF Spec, VerifiedStays

LEMMA ResendStep ==
  ASSUME AccountInv, [Next]_vars, NEW id \in Ids, chal[id].pin # 0,
         chal'[id].pin \notin {0, chal[id].pin}
  PROVE  /\ chal'[id].sent >= chal[id].sent + ResendMinInterval
         /\ chal'[id].resends = chal[id].resends + 1
         /\ chal'[id].resends <= MaxResendCount
<1>t. TypeOK /\ chal \in [Ids -> ChalRec] /\ chal[id].resends \in 0 .. MaxResendCount
      /\ MaxResendCount \in Nat
  BY Types, ChalFields, PolicyAssumption DEF AccountInv
<1>n. chal'[id] # chal[id] /\ chal'[id] # NoChal
  BY DEF NoChal
<1>1. PICK g \in Gateways : Commits(g)
  BY <1>n, OnlyCommitsWrite, SweepCommitStep
<1>2. ~CommitCreate(g)
  <2> SUFFICES ASSUME CommitCreate(g) PROVE FALSE
    OBVIOUS
  <2>1. /\ user[req[g].id].status = "none" /\ req[g].id \in Ids
        /\ \A j \in Ids : j # req[g].id => chal'[j] = chal[j]
    BY <1>t DEF CommitCreate, CommitIssue, Issue, AccountInv, Decided, ReqShape
  <2> QED
    BY <2>1, <1>n DEF AccountInv, ChallengeIffPending
<1>3. ~CommitAttempt(g)
  BY CommitAttemptStep, <1>n
<1>4. ~CommitActivate(g)
  BY CommitActivateStep, <1>n
<1>5. CommitResend(g)
  BY <1>1, <1>2, <1>3, <1>4 DEF Commits
<1>6. id = req[g].id
  BY <1>5, <1>n, CommitResendStep
<1>7. /\ chal'[id].sent >= chal[id].sent + ResendMinInterval
      /\ chal'[id].resends = chal[id].resends + 1
      /\ chal[id].resends < MaxResendCount
  BY <1>5, <1>6, CommitResendStep
<1> QED
  BY <1>7, <1>t

\* However many resends of one account run at the same time, each PIN that
\* replaces another was issued ResendMinInterval after it and used up one of
\* MaxResendCount resends: resendSQL decides on the row it has locked.
THEOREM ResendBudgeted == Spec => ResendBudget
<1>1. AccountInv /\ [Next]_vars =>
        [\A id \in Ids :
           chal[id].pin # 0 /\ chal'[id].pin \notin {0, chal[id].pin} =>
              /\ chal'[id].sent >= chal[id].sent + ResendMinInterval
              /\ chal'[id].resends = chal[id].resends + 1
              /\ chal'[id].resends <= MaxResendCount]_vars
  BY ResendStep
<1> QED
  BY AccountInvariant, <1>1, PTL DEF Spec, ResendBudget

-----------------------------------------------------------------------------
(* One account for an address.  An INSERT waits for every transaction that *)
(* has written its address, so at most one is about to commit (Alone) and  *)
(* it still finds the address free when it does (Unclaimed).               *)

Creating(g) == req[g].pc = "commit" /\ req[g].op = "create"

Alone == \A g, h \in Gateways : Creating(g) /\ Creating(h) /\ req[g].mail = req[h].mail => g = h

Unclaimed == \A g \in Gateways, id \in Ids : Creating(g) /\ Exists(id) => user[id].mail # req[g].mail

AddressInv == OneAccount /\ Alone /\ Unclaimed

\* A step that brings neither an account nor an INSERT keeps it.
LEMMA AddressKept ==
  ASSUME AddressInv,
         \A id \in Ids : Exists(id)' => Exists(id) /\ user'[id].mail = user[id].mail,
         \A g \in Gateways : Creating(g)' => Creating(g) /\ req'[g].mail = req[g].mail
  PROVE  AddressInv'
<1>1. OneAccount'
  BY DEF AddressInv, OneAccount
<1>2. Alone'
  BY DEF AddressInv, Alone
<1>3. Unclaimed'
  BY DEF AddressInv, Unclaimed
<1> QED
  BY <1>1, <1>2, <1>3 DEF AddressInv

\* Only InsertAccount makes a request one that will create an account.
LEMMA CreatingShrinks ==
  ASSUME AccountInv, NEW g \in Gateways, Begin(g) \/ RequestStep(g) \/ Abort(g),
         ~InsertAccount(g)
  PROVE  \A h \in Gateways : Creating(h)' => Creating(h) /\ req'[h].mail = req[h].mail
<1>t. TypeOK /\ req \in [Gateways -> ReqRec] /\ req[g] \in ReqRec
  BY Types DEF AccountInv
<1>f. Finish(g) => req'[g].pc = "idle" /\ \A h \in Gateways : h # g => req'[h] = req[h]
  BY <1>t DEF Finish, NoReq
<1>1. CASE Begin(g)
  BY <1>1, <1>t DEF Begin, NoReq, Creating
<1>2. CASE FindByEmail(g)
  <2>1. \/ Finish(g)
        \/ \E id, pc : /\ pc \in {"insert", "challenge", "resend"}
                       /\ \/ req' = [req EXCEPT ![g].pc = pc]
                          \/ req' = [req EXCEPT ![g].id = id, ![g].pc = pc]
    BY <1>2 DEF FindByEmail, Goto
  <2>2. ASSUME NEW id, NEW pc, pc \in {"insert", "challenge", "resend"},
               \/ req' = [req EXCEPT ![g].pc = pc]
               \/ req' = [req EXCEPT ![g].id = id, ![g].pc = pc]
        PROVE  req'[g].pc # "commit" /\ \A h \in Gateways : h # g => req'[h] = req[h]
    BY <2>2, <1>t DEF ReqRec
  <2> QED
    BY <2>1, <2>2, <1>f DEF Creating
<1>3. CASE ResendPending(g)
  <2>1. \/ Finish(g)
        \/ req' = [req EXCEPT ![g].pc = "write", ![g].op = "resend", ![g].at = now,
                              ![g].todo = <<"challenge">>]
    BY <1>3 DEF ResendPending
  <2>2. ASSUME req' = [req EXCEPT ![g].pc = "write", ![g].op = "resend", ![g].at = now,
                                  ![g].todo = <<"challenge">>]
        PROVE  req'[g].pc = "write" /\ \A h \in Gateways : h # g => req'[h] = req[h]
    BY <2>2, <1>t DEF ReqRec
  <2> QED
    BY <2>1, <2>2, <1>f DEF Creating
<1>4. CASE ReadChallenge(g)
  BY <1>4, <1>t, <1>f DEF ReadChallenge, ReqRec, Creating
<1>5. CASE WriteRow(g)
  <2>1. req[g].op # "create"
    BY <1>5 DEF WriteRow, AccountInv, ReqShape
  <2> QED
    BY <1>5, <2>1, <1>t, <1>f DEF WriteRow, ReqRec, Creating
<1>6. CASE CommitCreate(g) \/ CommitResend(g)
  BY <1>6, <1>t DEF CommitCreate, CommitResend, CommitIssue, NoReq, Creating
<1>7. CASE CommitAttempt(g) \/ CommitActivate(g) \/ Send(g)
  BY <1>7, <1>t DEF CommitAttempt, CommitActivate, Send, NoReq, Creating
<1>8. CASE Abort(g)
  BY <1>8, <1>f DEF Abort, Creating
<1> QED
  BY <1>1, <1>2, <1>3, <1>4, <1>5, <1>6, <1>7, <1>8 DEF RequestStep

LEMMA AddressInsert ==
  ASSUME AccountInv, AddressInv, NEW g \in Gateways, InsertAccount(g)
  PROVE  AddressInv'
<1>t. TypeOK /\ req \in [Gateways -> ReqRec] /\ req[g] \in ReqRec
  BY Types DEF AccountInv
<1>u. UNCHANGED user
  BY DEF InsertAccount, Finish, tables
<1>1. CASE req'[g].pc # "commit" /\ \A h \in Gateways : h # g => req'[h] = req[h]
  BY <1>1, <1>u, AddressKept DEF Exists, Creating
<1>2. CASE /\ Owner(req[g].mail) = {} /\ req'[g].mail = req[g].mail
           /\ \A h \in Gateways : h # g => req'[h] = req[h]
  <2>1. \A h \in Gateways \ {g} : Creating(h) => req[h].mail # req[g].mail
    BY DEF InsertAccount, AddressInDoubt, Creating
  <2>2. \A id \in Ids : Exists(id) => user[id].mail # req[g].mail
    BY <1>2 DEF Owner
  <2>3. OneAccount'
    BY <1>u DEF AddressInv, OneAccount, Exists
  <2>4. Alone'
    BY <1>2, <2>1 DEF AddressInv, Alone, Creating
  <2>5. Unclaimed'
    BY <1>2, <1>u, <2>2 DEF AddressInv, Unclaimed, Creating, Exists
  <2> QED
    BY <2>3, <2>4, <2>5 DEF AddressInv
<1>3. \/ Finish(g)
      \/ /\ Owner(req[g].mail) = {}
         /\ \E id : req' = [req EXCEPT ![g].pc = "commit", ![g].op = "create",
                                       ![g].id = id, ![g].at = now]
      \/ req' = [req EXCEPT ![g].pc = "find", ![g].raced = TRUE]
      \/ req' = [req EXCEPT ![g].pc = "find", ![g].collisions = @ + 1]
  BY DEF InsertAccount
<1>4. Finish(g) => req'[g].pc = "idle" /\ \A h \in Gateways : h # g => req'[h] = req[h]
  BY <1>t DEF Finish, NoReq
<1>5. ASSUME NEW id, req' = [req EXCEPT ![g].pc = "commit", ![g].op = "create",
                                        ![g].id = id, ![g].at = now]
      PROVE  req'[g].mail = req[g].mail /\ \A h \in Gateways : h # g => req'[h] = req[h]
  BY <1>5, <1>t DEF ReqRec
<1>6. ASSUME \/ req' = [req EXCEPT ![g].pc = "find", ![g].raced = TRUE]
             \/ req' = [req EXCEPT ![g].pc = "find", ![g].collisions = @ + 1]
      PROVE  req'[g].pc = "find" /\ \A h \in Gateways : h # g => req'[h] = req[h]
  BY <1>6, <1>t DEF ReqRec
<1> QED
  BY <1>1, <1>2, <1>3, <1>4, <1>5, <1>6

LEMMA AddressCreate ==
  ASSUME AccountInv, AddressInv, NEW g \in Gateways, CommitCreate(g)
  PROVE  AddressInv'
<1>t. /\ TypeOK /\ user \in [Ids -> UserRec] /\ req \in [Gateways -> ReqRec]
      /\ req[g].id \in Ids /\ Creating(g)
  BY Types DEF AccountInv, CommitCreate, ReqShape, Creating
<1> DEFINE me == req[g].id
<1>1. user' = [user EXCEPT ![me] = [mail |-> req[g].mail, status |-> "pending"]]
  BY DEF CommitCreate
<1>2. /\ user'[me].mail = req[g].mail
      /\ \A id \in Ids : id # me => user'[id] = user[id]
  BY <1>1, <1>t
<1>3. \A id \in Ids : Exists(id) => user[id].mail # req[g].mail
  BY <1>t DEF AddressInv, Unclaimed
<1>4. \A h \in Gateways : Creating(h)' => h # g /\ Creating(h) /\ req'[h].mail = req[h].mail
  BY <1>t DEF CommitCreate, CommitIssue, NoReq, Creating
<1>5. OneAccount'
  <2> SUFFICES ASSUME NEW i \in Ids, NEW j \in Ids, Exists(i)', Exists(j)',
                      user'[i].mail = user'[j].mail
               PROVE  i = j
    BY DEF OneAccount
  <2>1. CASE i = me \/ j = me
    BY <2>1, <1>2, <1>3 DEF Exists
  <2>2. CASE i # me /\ j # me
    BY <2>2, <1>2 DEF Exists, AddressInv, OneAccount
  <2> QED
    BY <2>1, <2>2
<1>6. Alone'
  BY <1>4 DEF AddressInv, Alone
<1>7. Unclaimed'
  <2> SUFFICES ASSUME NEW h \in Gateways, NEW id \in Ids, Creating(h)', Exists(id)'
               PROVE  user'[id].mail # req'[h].mail
    BY DEF Unclaimed
  <2>1. CASE id = me
    BY <2>1, <1>2, <1>4, <1>t DEF AddressInv, Alone
  <2>2. CASE id # me
    BY <2>2, <1>2, <1>4 DEF Exists, AddressInv, Unclaimed
  <2> QED
    BY <2>1, <2>2
<1> QED
  BY <1>5, <1>6, <1>7 DEF AddressInv

LEMMA AddressInit == Init => AddressInv
BY DEF Init, NoUser, NoReq, AddressInv, OneAccount, Alone, Unclaimed, Creating, Exists

LEMMA AddressStep == AccountInv /\ AddressInv /\ [Next]_vars => AddressInv'
<1> SUFFICES ASSUME AccountInv, AddressInv, [Next]_vars PROVE AddressInv'
  OBVIOUS
<1>t. TypeOK /\ user \in [Ids -> UserRec]
  BY Types DEF AccountInv
<1>1. ASSUME NEW g \in Gateways, Begin(g) \/ RequestStep(g) \/ Abort(g) PROVE AddressInv'
  <2>1. CASE InsertAccount(g)
    BY <2>1, AddressInsert
  <2>2. CASE CommitCreate(g)
    BY <2>2, AddressCreate
  <2>3. CASE ~InsertAccount(g) /\ ~CommitCreate(g)
    <3>1. \A id \in Ids : Exists(id)' => Exists(id) /\ user'[id].mail = user[id].mail
      <4>1. CASE CommitActivate(g)
        <5>1. req[g].id \in Ids /\ user[req[g].id].status = "pending"
          BY <4>1 DEF CommitActivate, AccountInv, Decided, ReqShape, ChallengeIffPending
        <5>2. /\ user'[req[g].id].mail = user[req[g].id].mail
              /\ \A id \in Ids : id # req[g].id => user'[id] = user[id]
          BY <4>1, <5>1, <1>t DEF CommitActivate, UserRec
        <5> QED
          BY <5>1, <5>2 DEF Exists
      <4>2. CASE ~CommitActivate(g)
        <5>1. UNCHANGED user
          BY <4>2, <2>3, <1>1, RequestOnlyCommits DEF Commits, CommitResend, CommitAttempt
        <5> QED
          BY <5>1 DEF Exists
      <4> QED
        BY <4>1, <4>2
    <3> QED
      BY <3>1, <2>3, <1>1, CreatingShrinks, AddressKept
  <2> QED
    BY <2>1, <2>2, <2>3
<1>2. ASSUME NEW w \in Workers, WorkerStep(w) \/ SweepFails(w) PROVE AddressInv'
  <2>1. req' = req
    BY <1>2 DEF WorkerStep, SweepBegin, SweepScan, SweepUser, SweepChallenge, SweepCommit,
       SweepReply, SweepFails, sweep
  <2>2. \A id \in Ids : Exists(id)' => Exists(id) /\ user'[id].mail = user[id].mail
    <3>1. CASE SweepCommit(w)
      <4>1. \A id \in Ids : \/ user'[id] = user[id]
                            \/ user'[id] = [user[id] EXCEPT !.status = "gone"]
        BY <3>1 DEF SweepCommit
      <4>2. \A id \in Ids : [user[id] EXCEPT !.status = "gone"].status = "gone"
        BY <1>t DEF UserRec
      <4> QED
        BY <4>1, <4>2 DEF Exists
    <3>2. CASE ~SweepCommit(w)
      <4>1. user' = user
        BY <1>2, <3>2 DEF WorkerStep, SweepBegin, SweepScan, SweepUser, SweepChallenge,
           SweepReply, SweepFails, tables
      <4> QED
        BY <4>1 DEF Exists
    <3> QED
      BY <3>1, <3>2
  <2> QED
    BY <2>1, <2>2, AddressKept DEF Creating
<1>3. CASE SweepPendingAccounts \/ FutureTimeout \/ Tick \/ UNCHANGED vars
  <2>1. req' = req /\ user' = user
    BY <1>3 DEF SweepPendingAccounts, FutureTimeout, Tick, vars, sweep, tables
  <2> QED
    BY <2>1, AddressKept DEF Creating, Exists
<1> QED
  BY <1>1, <1>2, <1>3 DEF Next

\* However many registrations of one address run at the same time, between
\* themselves and with the sweep of an old account, one account exists for it:
\* Register's look-up decides nothing, the unique index of the INSERT does.
THEOREM AddressUnique == Spec => []OneAccount
<1>1. AddressInv => OneAccount
  BY DEF AddressInv
<1> QED
  BY AccountInvariant, AddressInit, AddressStep, <1>1, PTL DEF Spec

-----------------------------------------------------------------------------
(* The attempts.  Verify reads the counter before it counts, so the        *)
(* requests that have read it and not counted yet are added to it.         *)

Attempting(id) == {g \in Gateways : /\ req[g].pc \in {"write", "commit"}
                                    /\ req[g].op = "attempt" /\ req[g].id = id}

AttemptsCounted ==
    \A id \in Ids : chal[id].attempts + Cardinality(Attempting(id))
                      < MaxVerifyAttempts + Cardinality(Gateways)

LEMMA AttemptingFinite ==
  ASSUME NEW id
  PROVE  /\ IsFiniteSet(Attempting(id)) /\ Cardinality(Attempting(id)) \in Nat
         /\ Cardinality(Gateways) \in Nat /\ Cardinality(Attempting(id)) <= Cardinality(Gateways)
<1>1. Attempting(id) \subseteq Gateways
  BY DEF Attempting
<1> QED
  BY <1>1, FS_Subset, FS_CardinalityType

LEMMA AttemptingFiniteNext ==
  ASSUME NEW id
  PROVE  /\ IsFiniteSet(Attempting(id)') /\ Cardinality(Attempting(id)') \in Nat
         /\ Cardinality(Attempting(id)') <= Cardinality(Gateways)
<1>1. Attempting(id)' \subseteq Gateways
  BY DEF Attempting
<1> QED
  BY <1>1, FS_Subset, FS_CardinalityType

\* Nobody reads the counter, and the counter does not grow or starts again.
LEMMA AttemptsStill ==
  ASSUME TypeOK, TypeOK', NEW id \in Ids,
         chal[id].attempts + Cardinality(Attempting(id)) < MaxVerifyAttempts + Cardinality(Gateways),
         Attempting(id)' \subseteq Attempting(id),
         chal'[id].attempts = chal[id].attempts \/ chal'[id].attempts = 0
  PROVE  chal'[id].attempts + Cardinality(Attempting(id)') < MaxVerifyAttempts + Cardinality(Gateways)
<1>1. Cardinality(Attempting(id)') <= Cardinality(Attempting(id))
  BY AttemptingFinite, FS_Subset
<1>2. chal[id].attempts \in Nat /\ MaxVerifyAttempts \in Nat \ {0}
  BY Types, ChalFields, PolicyAssumption
<1> QED
  BY <1>1, <1>2, AttemptingFinite, AttemptingFiniteNext

\* A request that is not about to count becomes one only in ReadChallenge.
LEMMA AttemptingShrinks ==
  ASSUME NEW g \in Gateways, \A h \in Gateways : h # g => req'[h] = req[h],
         \/ req'[g].pc \notin {"write", "commit"}
         \/ req'[g].op # "attempt"
         \/ req[g].pc = "write" /\ req'[g].op = req[g].op /\ req'[g].id = req[g].id
  PROVE  \A id : Attempting(id)' \subseteq Attempting(id)
BY DEF Attempting

\* What a gateway step does to its request.
LEMMA AttemptReq ==
  ASSUME AccountInv, NEW g \in Gateways, Begin(g) \/ RequestStep(g) \/ Abort(g)
  PROVE  /\ \A h \in Gateways : h # g => req'[h] = req[h]
         /\ \/ req'[g].pc \notin {"write", "commit"}
            \/ req'[g].op # "attempt"
            \/ req[g].pc = "write" /\ req'[g].op = req[g].op /\ req'[g].id = req[g].id
            \/ /\ ReadChallenge(g) /\ req'[g].op = "attempt" /\ req'[g].id = req[g].id
               /\ req[g].pc = "challenge" /\ OpenToAttempts(req[g].id)
<1>t. TypeOK /\ req \in [Gateways -> ReqRec] /\ req[g] \in ReqRec
  BY Types DEF AccountInv
<1>n. NoReq.pc = "idle"
  BY DEF NoReq
<1>f. Finish(g) => req'[g].pc = "idle" /\ \A h \in Gateways : h # g => req'[h] = req[h]
  BY <1>t, <1>n DEF Finish
<1>1. CASE Begin(g)
  BY <1>1, <1>t DEF Begin, NoReq
<1>o. ASSUME NEW pc, NEW id, \/ req' = [req EXCEPT ![g].pc = pc]
                              \/ req' = [req EXCEPT ![g].id = id, ![g].pc = pc]
                              \/ req' = [req EXCEPT ![g].pc = pc, ![g].raced = TRUE]
                              \/ req' = [req EXCEPT ![g].pc = pc, ![g].collisions = @ + 1]
      PROVE  req'[g].pc = pc /\ \A h \in Gateways : h # g => req'[h] = req[h]
  BY <1>o, <1>t DEF ReqRec
<1>2. CASE FindByEmail(g)
  <2>1. \/ Finish(g)
        \/ \E id, pc : /\ pc \in {"insert", "challenge", "resend"}
                       /\ \/ req' = [req EXCEPT ![g].pc = pc]
                          \/ req' = [req EXCEPT ![g].id = id, ![g].pc = pc]
    BY <1>2 DEF FindByEmail, Goto
  <2> QED
    BY <2>1, <1>f, <1>o
<1>3. CASE InsertAccount(g)
  <2>1. \/ Finish(g)
        \/ \E id : req' = [req EXCEPT ![g].pc = "commit", ![g].op = "create",
                                      ![g].id = id, ![g].at = now]
        \/ req' = [req EXCEPT ![g].pc = "find", ![g].raced = TRUE]
        \/ req' = [req EXCEPT ![g].pc = "find", ![g].collisions = @ + 1]
    BY <1>3 DEF InsertAccount
  <2>2. ASSUME NEW id, req' = [req EXCEPT ![g].pc = "commit", ![g].op = "create",
                                          ![g].id = id, ![g].at = now]
        PROVE  req'[g].op = "create" /\ \A h \in Gateways : h # g => req'[h] = req[h]
    BY <2>2, <1>t DEF ReqRec
  <2>3. ASSUME \/ req' = [req EXCEPT ![g].pc = "find", ![g].raced = TRUE]
               \/ req' = [req EXCEPT ![g].pc = "find", ![g].collisions = @ + 1]
        PROVE  req'[g].pc = "find" /\ \A h \in Gateways : h # g => req'[h] = req[h]
    BY <2>3, <1>o
  <2>4. /\ \A h \in Gateways : h # g => req'[h] = req[h]
        /\ req'[g].pc \in {"idle", "find"} \/ req'[g].op = "create"
    BY <2>1, <2>2, <2>3, <1>f
  <2> QED
    BY <2>4
<1>4. CASE ResendPending(g)
  BY <1>4, <1>t, <1>f DEF ResendPending, ReqRec
<1>5. CASE ReadChallenge(g)
  BY <1>5, <1>t, <1>f DEF ReadChallenge, ReqRec
<1>6. CASE WriteRow(g)
  BY <1>6, <1>t, <1>f DEF WriteRow, ReqRec
<1>7. CASE CommitCreate(g) \/ CommitResend(g)
  BY <1>7, <1>t DEF CommitCreate, CommitResend, CommitIssue, NoReq
<1>8. CASE CommitAttempt(g) \/ CommitActivate(g) \/ Send(g)
  BY <1>8, <1>t, <1>n DEF CommitAttempt, CommitActivate, Send
<1>9. CASE Abort(g)
  BY <1>9, <1>f DEF Abort
<1> QED
  BY <1>1, <1>2, <1>3, <1>4, <1>5, <1>6, <1>7, <1>8, <1>9 DEF RequestStep

LEMMA AttemptsInit == Init => AttemptsCounted
<1> SUFFICES ASSUME Init, NEW id \in Ids
             PROVE  chal[id].attempts + Cardinality(Attempting(id))
                      < MaxVerifyAttempts + Cardinality(Gateways)
  BY DEF AttemptsCounted
<1>1. chal[id].attempts = 0
  BY DEF Init, NoChal
<1> QED
  BY <1>1, AttemptingFinite, PolicyAssumption

LEMMA AttemptsStep == AccountInv /\ AttemptsCounted /\ [Next]_vars => AttemptsCounted'
<1> SUFFICES ASSUME AccountInv, AttemptsCounted, [Next]_vars, NEW id \in Ids
             PROVE  chal'[id].attempts + Cardinality(Attempting(id)')
                      < MaxVerifyAttempts + Cardinality(Gateways)
  BY DEF AttemptsCounted
<1>t. TypeOK /\ TypeOK' /\ chal \in [Ids -> ChalRec]
  BY AccountStep, Types DEF AccountInv
<1>c. chal[id].attempts + Cardinality(Attempting(id)) < MaxVerifyAttempts + Cardinality(Gateways)
  BY DEF AttemptsCounted
<1>m. chal[id].attempts \in Nat /\ MaxVerifyAttempts \in Nat \ {0}
  BY <1>t, ChalFields, PolicyAssumption
<1> DEFINE goal == chal'[id].attempts + Cardinality(Attempting(id)')
                     < MaxVerifyAttempts + Cardinality(Gateways)
<1>1. ASSUME NEW g \in Gateways, Begin(g) \/ RequestStep(g) \/ Abort(g) PROVE goal
  <2>r. /\ \A h \in Gateways : h # g => req'[h] = req[h]
        /\ \/ req'[g].pc \notin {"write", "commit"}
           \/ req'[g].op # "attempt"
           \/ req[g].pc = "write" /\ req'[g].op = req[g].op /\ req'[g].id = req[g].id
           \/ /\ ReadChallenge(g) /\ req'[g].op = "attempt" /\ req'[g].id = req[g].id
              /\ req[g].pc = "challenge" /\ OpenToAttempts(req[g].id)
    BY <1>1, AttemptReq
  <2>1. CASE CommitAttempt(g) /\ req[g].id = id
    <3>1. chal'[id].attempts = chal[id].attempts + 1
      BY <2>1, CommitAttemptStep
    <3>2. g \in Attempting(id)
      BY <2>1 DEF CommitAttempt, Attempting
    <3>3. Attempting(id)' \subseteq Attempting(id) \ {g}
      <4>1. req'[g].pc = "idle"
        BY <2>1, <1>t, Types DEF CommitAttempt, NoReq
      <4> QED
        BY <4>1, <2>r DEF Attempting
    <3>4. Cardinality(Attempting(id)') <= Cardinality(Attempting(id)) - 1
      <4>1. /\ IsFiniteSet(Attempting(id) \ {g})
            /\ Cardinality(Attempting(id) \ {g}) = Cardinality(Attempting(id)) - 1
        BY <3>2, AttemptingFinite, FS_RemoveElement
      <4> QED
        BY <3>3, <4>1, FS_Subset
    <3> QED
      BY <3>1, <3>4, <1>c, <1>m, AttemptingFinite, AttemptingFiniteNext
  <2>2. CASE ~(CommitAttempt(g) /\ req[g].id = id)
    <3>1. chal'[id].attempts = chal[id].attempts \/ chal'[id].attempts = 0
      <4>1. CASE ~Commits(g)
        BY <4>1, <1>1, RequestOnlyCommits
      <4>2. CASE CommitCreate(g)
        BY <4>2, <1>t DEF CommitCreate, CommitIssue, Issue
      <4>3. CASE CommitResend(g)
        BY <4>3, CommitResendStep
      <4>4. CASE CommitAttempt(g)
        BY <4>4, <2>2, CommitAttemptStep
      <4>5. CASE CommitActivate(g)
        BY <4>5, CommitActivateStep DEF NoChal
      <4> QED
        BY <4>1, <4>2, <4>3, <4>4, <4>5 DEF Commits
    <3>2. CASE Attempting(id)' \subseteq Attempting(id)
      BY <3>1, <3>2, <1>t, <1>c, AttemptsStill
    <3>3. CASE ~(Attempting(id)' \subseteq Attempting(id))
      <4>1. ReadChallenge(g) /\ req'[g].id = req[g].id /\ OpenToAttempts(req[g].id)
        BY <3>3, <2>r, AttemptingShrinks
      <4>2. req[g].id = id
        BY <3>3, <4>1, <2>r DEF Attempting
      <4>3. chal'[id].attempts < MaxVerifyAttempts /\ chal'[id].attempts \in Nat
        BY <4>1, <4>2, <3>1, <1>m DEF OpenToAttempts
      <4>4. PICK n, m, k : n = chal'[id].attempts /\ m = Cardinality(Attempting(id)') /\ k = Cardinality(Gateways)
        OBVIOUS
      <4>5. n \in Nat /\ m \in Nat /\ k \in Nat /\ m <= k /\ n < MaxVerifyAttempts
        BY <4>3, <4>4, AttemptingFinite, AttemptingFiniteNext
      <4>6. n + m < MaxVerifyAttempts + k
        BY <4>5, <1>m
      <4> QED
        BY <4>4, <4>6
    <3> QED
      BY <3>2, <3>3
  <2> QED
    BY <2>1, <2>2
<1>2. ASSUME req' = req, chal'[id].attempts = chal[id].attempts \/ chal'[id].attempts = 0
      PROVE  goal
  <2>1. Attempting(id)' \subseteq Attempting(id)
    BY <1>2 DEF Attempting
  <2> QED
    BY <2>1, <1>2, <1>t, <1>c, AttemptsStill
<1>3. ASSUME NEW w \in Workers, WorkerStep(w) \/ SweepFails(w) PROVE goal
  <2>1. req' = req
    BY <1>3 DEF WorkerStep, SweepBegin, SweepScan, SweepUser, SweepChallenge, SweepCommit,
       SweepReply, SweepFails, sweep
  <2>2. CASE SweepCommit(w)
    BY <2>1, <2>2, <1>2, SweepCommitStep DEF NoChal
  <2>3. CASE ~SweepCommit(w)
    <3>1. chal' = chal
      BY <1>3, <2>3 DEF WorkerStep, SweepBegin, SweepScan, SweepUser, SweepChallenge,
         SweepReply, SweepFails, tables
    <3> QED
      BY <2>1, <3>1, <1>2
  <2> QED
    BY <2>2, <2>3
<1>4. CASE SweepPendingAccounts \/ FutureTimeout \/ Tick \/ UNCHANGED vars
  <2>1. req' = req /\ chal' = chal
    BY <1>4 DEF SweepPendingAccounts, FutureTimeout, Tick, vars, sweep, tables
  <2> QED
    BY <2>1, <1>2
<1> QED
  BY <1>1, <1>3, <1>4 DEF Next

\* Verify counts an attempt after it has looked at the counter, so concurrent
\* requests overshoot MaxVerifyAttempts, but by less than the number of
\* requests served at the same time, for any number of them.
THEOREM AttemptsCapped == Spec => []AttemptsBounded
<1>1. AccountInv /\ AttemptsCounted => AttemptsBounded
  <2> SUFFICES ASSUME AccountInv, AttemptsCounted, NEW id \in Ids
               PROVE  chal[id].attempts < MaxVerifyAttempts + Cardinality(Gateways)
    BY DEF AttemptsBounded
  <2>1. chal[id].attempts \in Nat /\ MaxVerifyAttempts \in Nat
    BY Types, ChalFields, PolicyAssumption DEF AccountInv
  <2>2. chal[id].attempts + Cardinality(Attempting(id)) < MaxVerifyAttempts + Cardinality(Gateways)
    BY DEF AttemptsCounted
  <2> QED
    BY <2>1, <2>2, AttemptingFinite
<1> QED
  BY AccountInvariant, AttemptsInit, AttemptsStep, <1>1, PTL DEF Spec
=============================================================================
