---------------------------- MODULE WorkerLease ----------------------------
(***************************************************************************)
(* Snowflake ids and the worker-id lease that fences them:                  *)
(*   internal/persistence/workerlease/manager.go  the lease manager         *)
(*   internal/persistence/workerlease/repo.go     the worker_lease table    *)
(*   internal/snowflake/generator.go              the id generator          *)
(*                                                                          *)
(* Every id-minting process runs one Manager.  Its loop sends one SQL       *)
(* statement at a time; the database executes it later, and the answer (or  *)
(* an error, after which the statement may still execute) comes back later  *)
(* still.  Mint calls run concurrently on other goroutines.                 *)
(*                                                                          *)
(* Time is counted in milliseconds.  `now' is at once the database clock    *)
(* and every process's monotonic clock; a process's WALL clock lags it by   *)
(* at most Skew and may be stepped at any moment.  Lease deadlines compare  *)
(* monotonic readings, but the timestamp inside an id is `t.Sub(epoch)'     *)
(* with an epoch that carries no monotonic reading: a wall-clock value.     *)
(***************************************************************************)
EXTENDS Integers, Sequences, FiniteSets

CONSTANTS
    Procs,          \* the id-minting processes (backends and gateways)
    NumWorkers,     \* worker ids are 0..NumWorkers-1 (1024 in the code)
    MaxSequence,    \* last sequence number of a millisecond (4095)
    MaxTimestamp,   \* last timestamp that fits its field (2^41 - 1)
    TTL, Margin,    \* lease duration and the safety margin below it
    RenewInterval,  \* period of the renewal ticker
    AcquireAttempts,\* statements one Acquire call may send (8)
    Skew,           \* how far a wall clock may lag the true time
    MinLatency,     \* least time between sending a statement and its execution
    MaxTime, MaxTokens, MaxMints, MaxStray   \* bounds on the explored runs

ASSUME LayoutAssumption ==
    /\ NumWorkers \in Nat \ {0}
    /\ MaxSequence \in Nat
    /\ MaxTimestamp \in Nat

\* validateCadence: the constructor refuses any other cadence.
ASSUME CadenceAssumption ==
    /\ TTL \in Nat /\ Margin \in Nat /\ TTL > Margin
    /\ RenewInterval \in Nat \ {0} /\ RenewInterval < TTL - Margin

ASSUME AttemptsAssumption == AcquireAttempts \in Nat \ {0}

ASSUME ClockAssumption == Skew \in Nat /\ MinLatency \in Nat

ASSUME BoundAssumption ==
    MaxTime \in Nat /\ MaxTokens \in Nat /\ MaxMints \in Nat /\ MaxStray \in Nat

VARIABLES
    now,      \* true time, the database's now() and the monotonic clocks
    off,      \* off[p] : wall clock of p minus `now', in -Skew..0
    row,      \* worker_lease: row[w]; token 0 means there is no row
    sess,     \* Manager.cur: sess[p]; token 0 means nil (not running)
    op,       \* the one statement p's loop is waiting for
    stray,    \* statements whose caller gave up, still able to execute
    issued,   \* lease tokens generated so far (uuid.NewRandom)
    spin,     \* spin[p] : a Next call holds the mutex in spinNextMillis
    minted    \* history: every id returned by Next, in order

vars == <<now, off, row, sess, op, stray, issued, spin, minted>>

Workers == 0 .. NumWorkers - 1
Tokens  == 1 .. issued

NoRow  == [token |-> 0, acquired |-> 0, expires |-> 0]
NoSess == [token |-> 0, worker |-> 0, deadline |-> 0, last |-> -1, seq |-> 0]
NoOp   == [kind |-> "none", token |-> 0, worker |-> 0, sent |-> 0, tries |-> 0,
           res |-> "none"]

(***************************************************************************)
(* The database: three statements, each atomic (repo.go).                   *)
(***************************************************************************)
Unexpired(w) == row[w].token # 0 /\ row[w].expires > now

\* acquireSQL picks the lowest worker id without an unexpired lease.
LowestFree(w) == ~Unexpired(w) /\ \A v \in Workers : v < w => Unexpired(v)

\* The slot an acquire picked went to a concurrent one: no row comes back.
SlotLost(s) == \E w \in Workers : Unexpired(w) /\ row[w].acquired >= s.sent

RenewMatchesAnyToken(s) == row[s.worker].token # 0 /\ row[s.worker].expires > now

\* renewSQL's WHERE clause: same token and not yet expired.
RenewMatches(s) == row[s.worker].token = s.token /\ row[s.worker].expires > now

\* Statement s executes; it reports worker id w and res.
Execute(s, w, res) ==
    /\ now >= s.sent + MinLatency
    /\ \/ /\ s.kind = "acquire" /\ res = "held"
          /\ LowestFree(w)
          /\ row' = [row EXCEPT ![w] = [token |-> s.token, acquired |-> now,
                                        expires |-> now + TTL]]
       \/ /\ s.kind = "acquire" /\ res = "lost" /\ w = s.worker   \* pgx.ErrNoRows
          /\ (\A v \in Workers : Unexpired(v)) \/ SlotLost(s)
          /\ row' = row
       \/ /\ s.kind = "renew" /\ res = "held" /\ w = s.worker
          /\ RenewMatches(s)
          /\ row' = [row EXCEPT ![w].expires = now + TTL]
       \/ /\ s.kind = "renew" /\ res = "lost" /\ w = s.worker
          /\ ~RenewMatches(s)
          /\ row' = row
       \/ /\ s.kind = "release" /\ res = "held" /\ w = s.worker
          /\ row' = IF row[w].token = s.token
                    THEN [row EXCEPT ![w] = NoRow] ELSE row

\* The statement p waits for executes.
DatabaseExecutes(p) ==
    /\ op[p].res = "pending"
    /\ \E w \in Workers, res \in {"held", "lost"} :
          /\ Execute(op[p], w, res)
          /\ op' = [op EXCEPT ![p].worker = w, ![p].res = res]
    /\ UNCHANGED <<now, off, sess, stray, issued, spin, minted>>

\* A statement nobody waits for any more executes.
StrayExecutes(s) ==
    /\ \E w \in Workers, res \in {"held", "lost"} : Execute(s, w, res)
    /\ stray' = stray \ {s}
    /\ UNCHANGED <<now, off, sess, op, issued, spin, minted>>

\* p's pending statement is abandoned: never executed, or executed later.
Abandon(p) ==
    \/ stray' = stray
    \/ /\ op[p].res = "pending"
       /\ Cardinality(stray) < MaxStray
       /\ stray' = stray \cup {op[p]}

(***************************************************************************)
(* The manager's loop (manager.go).                                         *)
(***************************************************************************)
Running(p) == sess[p].token # 0
Idle(p)    == op[p].kind = "none"

\* Repo.Acquire's n-th attempt: a fresh token for every statement.
SendAcquire(p, n, sendAt) ==
    /\ issued < MaxTokens
    /\ issued' = issued + 1
    /\ op' = [op EXCEPT ![p] = [kind |-> "acquire", token |-> issued + 1,
                                worker |-> 0, sent |-> sendAt, tries |-> n,
                                res |-> "pending"]]

\* Start: only when cur is nil.
Start(p) ==
    /\ Idle(p) /\ ~Running(p)
    /\ SendAcquire(p, 1, now)
    /\ UNCHANGED <<now, off, row, sess, stray, spin, minted>>

LocalDeadlineAtReply(s) == now + TTL

\* The deadline anchored to the send instant, never to the database's expiry.
LocalDeadline(s) == s.sent + (TTL - Margin)

\* Start or handleLoss gets its lease: a new generator replaces the session.
AcquireSucceeds(p) ==
    /\ op[p].kind = "acquire" /\ op[p].res = "held"
    /\ sess' = [sess EXCEPT ![p] = [token |-> op[p].token, worker |-> op[p].worker,
                                    deadline |-> LocalDeadline(op[p]),
                                    last |-> -1, seq |-> 0]]
    /\ op' = [op EXCEPT ![p] = NoOp]
    /\ UNCHANGED <<now, off, row, stray, issued, spin, minted>>

\* No row came back: another attempt, with the send instant of the first.
AcquireRetries(p) ==
    /\ op[p].kind = "acquire" /\ op[p].res = "lost"
    /\ op[p].tries < AcquireAttempts
    /\ SendAcquire(p, op[p].tries + 1, op[p].sent)
    /\ UNCHANGED <<now, off, row, sess, stray, spin, minted>>

\* ErrNoCapacity, a timeout or a broken connection: cur stays as it was.
AcquireFails(p) ==
    /\ op[p].kind = "acquire"
    /\ op[p].res = "lost" => op[p].tries = AcquireAttempts
    /\ Abandon(p)
    /\ op' = [op EXCEPT ![p] = NoOp]
    /\ UNCHANGED <<now, off, row, sess, issued, spin, minted>>

\* beat(): the ticker fired while the loop was idle.
Beat(p) ==
    /\ Idle(p) /\ Running(p)
    /\ op' = [op EXCEPT ![p] = [kind |-> "renew", token |-> sess[p].token,
                                worker |-> sess[p].worker, sent |-> now,
                                tries |-> 1, res |-> "pending"]]
    /\ UNCHANGED <<now, off, row, sess, stray, issued, spin, minted>>

\* Renew reported held: extend the local deadline (gen.Renew takes the mutex).
BeatHeld(p) ==
    /\ op[p].kind = "renew" /\ op[p].res = "held" /\ ~spin[p]
    /\ sess' = [sess EXCEPT ![p].deadline = LocalDeadline(op[p])]
    /\ op' = [op EXCEPT ![p] = NoOp]
    /\ UNCHANGED <<now, off, row, stray, issued, spin, minted>>

\* A transient renewal error: the deadline is left to lapse on its own.
BeatFails(p) ==
    /\ op[p].kind = "renew"
    /\ Abandon(p)
    /\ op' = [op EXCEPT ![p] = NoOp]
    /\ UNCHANGED <<now, off, row, sess, issued, spin, minted>>

\* handleLoss: halt minting at once, then ask for a fresh worker id.
BeatLost(p) ==
    /\ op[p].kind = "renew" /\ op[p].res = "lost" /\ ~spin[p]
    /\ sess' = [sess EXCEPT ![p].deadline = 0]
    /\ SendAcquire(p, 1, now)
    /\ UNCHANGED <<now, off, row, stray, spin, minted>>

\* releaseAndClear, on Stop or context cancellation: halt, then release.
Stop(p) ==
    /\ Idle(p) /\ Running(p) /\ ~spin[p]
    /\ sess' = [sess EXCEPT ![p].deadline = 0]
    /\ op' = [op EXCEPT ![p] = [kind |-> "release", token |-> sess[p].token,
                                worker |-> sess[p].worker, sent |-> now,
                                tries |-> 1, res |-> "pending"]]
    /\ UNCHANGED <<now, off, row, stray, issued, spin, minted>>

\* The release returned, or failed and was only logged: cur becomes nil.
Stopped(p) ==
    /\ op[p].kind = "release"
    /\ \/ op[p].res = "held" /\ stray' = stray
       \/ Abandon(p)
    /\ sess' = [sess EXCEPT ![p] = NoSess]
    /\ op' = [op EXCEPT ![p] = NoOp]
    /\ UNCHANGED <<now, off, row, issued, spin, minted>>

\* The process dies; its lease row stays until it expires.
Crash(p) ==
    /\ Running(p) \/ ~Idle(p)
    /\ Abandon(p)
    /\ sess' = [sess EXCEPT ![p] = NoSess]
    /\ op' = [op EXCEPT ![p] = NoOp]
    /\ spin' = [spin EXCEPT ![p] = FALSE]
    /\ UNCHANGED <<now, off, row, issued, minted>>

(***************************************************************************)
(* The generator (generator.go).  Next runs under the generator's mutex, so *)
(* one action; the spin at a full millisecond is the only wait inside it.   *)
(***************************************************************************)
Wall(p) == now + off[p]

\* millis << 22 | worker << 12 | seq
PackId(m, w, s) == (m * NumWorkers + w) * (MaxSequence + 1) + s

LeaseLive(p) == now < sess[p].deadline

SequenceLeftOffByOne(p) == sess[p].seq <= MaxSequence

\* seq + 1 still fits the sequence field.
SequenceLeft(p) == sess[p].seq < MaxSequence

Emit(p, millis, s) ==
    LET id == PackId(millis, sess[p].worker, s) IN
    /\ Len(minted) < MaxMints
    /\ millis <= MaxTimestamp          \* else ErrEpochExhausted
    /\ id > 0                          \* else ErrClockBeforeEpoch
    /\ minted' = Append(minted, [id |-> id, millis |-> millis,
                                 worker |-> sess[p].worker, seq |-> s,
                                 token |-> sess[p].token, at |-> now])
    /\ sess' = [sess EXCEPT ![p].last = millis, ![p].seq = s]

\* Next, when it need not wait; a failed mint changes nothing.
Mint(p) ==
    /\ Running(p) /\ ~spin[p]
    /\ LeaseLive(p)                    \* else ErrLeaseExpired
    /\ Wall(p) >= 0                    \* else ErrClockBeforeEpoch
    /\ \/ Wall(p) > sess[p].last /\ Emit(p, Wall(p), 0)
       \/ /\ Wall(p) = sess[p].last    \* smaller: ErrClockRegression
          /\ SequenceLeft(p)
          /\ Emit(p, Wall(p), sess[p].seq + 1)
    /\ UNCHANGED <<now, off, row, op, stray, issued, spin>>

\* Next finds the millisecond full and spins, holding the mutex.
SpinBegin(p) ==
    /\ Running(p) /\ ~spin[p] /\ LeaseLive(p)
    /\ Wall(p) >= 0 /\ Wall(p) = sess[p].last /\ ~SequenceLeft(p)
    /\ spin' = [spin EXCEPT ![p] = TRUE]
    /\ UNCHANGED <<now, off, row, sess, op, stray, issued, minted>>

\* The spin sees a later millisecond while the lease is still live.
SpinMint(p) ==
    /\ spin[p] /\ LeaseLive(p) /\ Wall(p) > sess[p].last
    /\ Emit(p, Wall(p), 0)
    /\ spin' = [spin EXCEPT ![p] = FALSE]
    /\ UNCHANGED <<now, off, row, op, stray, issued>>

\* The spin outlives the lease: ErrLeaseExpired.
SpinExpires(p) ==
    /\ spin[p] /\ ~LeaseLive(p)
    /\ spin' = [spin EXCEPT ![p] = FALSE]
    /\ UNCHANGED <<now, off, row, sess, op, stray, issued, minted>>

(***************************************************************************)
(* The environment.                                                         *)
(***************************************************************************)
Tick ==
    /\ now < MaxTime
    /\ now' = now + 1
    /\ UNCHANGED <<off, row, sess, op, stray, issued, spin, minted>>

\* NTP steps p's wall clock anywhere within the skew bound.
NTPStep(p) ==
    /\ \E d \in 0 .. Skew : off' = [off EXCEPT ![p] = -d]
    /\ UNCHANGED <<now, row, sess, op, stray, issued, spin, minted>>

Init ==
    /\ now = 0
    /\ off \in [Procs -> {-d : d \in 0 .. Skew}]
    /\ row = [w \in Workers |-> NoRow]
    /\ sess = [p \in Procs |-> NoSess]
    /\ op = [p \in Procs |-> NoOp]
    /\ stray = {}
    /\ issued = 0
    /\ spin = [p \in Procs |-> FALSE]
    /\ minted = <<>>

ProcNext(p) ==
    \/ Start(p) \/ AcquireSucceeds(p) \/ AcquireRetries(p) \/ AcquireFails(p)
    \/ Beat(p) \/ BeatHeld(p) \/ BeatFails(p) \/ BeatLost(p)
    \/ Stop(p) \/ Stopped(p) \/ Crash(p)
    \/ Mint(p) \/ SpinBegin(p) \/ SpinMint(p) \/ SpinExpires(p)
    \/ DatabaseExecutes(p) \/ NTPStep(p)

Next ==
    \/ \E p \in Procs : ProcNext(p)
    \/ \E s \in stray : StrayExecutes(s)
    \/ Tick

Spec == Init /\ [][Next]_vars

(***************************************************************************)
(* Properties.                                                              *)
(***************************************************************************)
Kinds   == {"acquire", "renew", "release"}
Results == {"pending", "held", "lost"}
Rows     == [token : Nat, acquired : Nat, expires : Nat]
Sessions == [token : Nat, worker : Workers, deadline : Int,
             last : Nat \cup {-1}, seq : 0 .. MaxSequence]
Statements == [kind : Kinds, token : Nat, worker : Workers, sent : Nat,
               tries : Nat, res : Results]
Mints == [id : Nat \ {0}, millis : Nat, worker : Workers, seq : 0 .. MaxSequence,
          token : Nat, at : Nat]

\* Every variable has the shape of the code's state; a generator's sequence
\* (Generator.sequence) never leaves its 12-bit field and every id is positive.
TypeOK ==
    /\ now \in Nat /\ issued \in Nat
    /\ off \in [Procs -> -Skew .. 0]
    /\ row \in [Workers -> Rows]
    /\ sess \in [Procs -> Sessions]
    /\ op \in [Procs -> Statements \cup {NoOp}]
    /\ \A s \in stray : s \in Statements /\ s.res = "pending"
    /\ spin \in [Procs -> BOOLEAN]
    /\ minted \in Seq(Mints)

\* The fence: while a generator may mint (Generator.Next passes its deadline
\* check), the database row of its worker id still carries its token and will
\* not expire for another Margin, whatever replies, losses, abandoned
\* statements and restarts came before.
Fenced ==
    \A p \in Procs : LeaseLive(p) =>
        /\ row[sess[p].worker].token = sess[p].token
        /\ sess[p].deadline + Margin <= row[sess[p].worker].expires

\* The clock bound the ids rest on: a wall clock lags by less than the time a
\* statement takes to reach the database and by no more than the margin.
SkewBound == Skew < MinLatency /\ Skew <= Margin

\* No two calls of Next in the whole cluster ever return the same id.
NoDuplicateId ==
    \A i, j \in 1 .. Len(minted) : minted[i].id = minted[j].id => i = j

\* Next's comment, "strictly increasing for a given worker", across every
\* process that ever held the worker id and not only within one generator.
WorkerMonotone ==
    \A i, j \in 1 .. Len(minted) :
        (i < j /\ minted[i].worker = minted[j].worker) => minted[i].id < minted[j].id
=============================================================================
