--------------------------- MODULE RoomGrainProofs ---------------------------
(***************************************************************************)
(* Proofs about RoomGrain, for every set of users and every bound:         *)
(*   RoomTypeCorrect      every variable keeps its type;                   *)
(*   RosterStaysCached    until a commit is left in doubt, the cached      *)
(*                        roster is the roster of the database;            *)
(*   OwnerUnique          until a commit is left in doubt, there is        *)
(*                        exactly one owner at every moment;               *)
(*   TimelineIsRoster     the timeline, replayed in id order, is the       *)
(*                        roster, even with transactions in doubt;         *)
(*   DeliveryInOrder      what a User grain receives is durable, and in    *)
(*                        order as long as the child waits for it;         *)
(*   WindowIsSuffix       until a commit is left in doubt, the hot window  *)
(*                        is a gap-free suffix of the durable messages;    *)
(*   FanoutReachesMembers until a commit is left in doubt, the fan-out     *)
(*                        goes to exactly the members at the event.        *)
(***************************************************************************)
EXTENDS RoomGrain, FiniteSetTheorems, TLAPS

USE UsersAssumption, SizesAssumption

LEMMA NewCommandType ==
  ASSUME NEW op \in Ops, NEW s \in Stages, NEW u \in Users, NEW t \in Users, NEW r \in Roles
  PROVE  NewCommand(op, s, u, t, r) \in Command
BY DEF NewCommand, Command, NoSnap, Cell, Roles

LEMMA IdleType == Idle \in Command
BY NewCommandType DEF Idle, Ops, Stages, Roles

LEMMA NoTxType == NoTx \in Tx
BY DEF NoTx, Tx, Untouched, Write

LEMMA WritingType ==
  ASSUME NEW u \in Users, NEW r \in Cell
  PROVE  Writing(u, r) \in [Users -> Write]
BY DEF Writing, Untouched, Write

LEMMA CommittedType ==
  ASSUME NEW table \in [Users -> Cell], NEW t \in Tx
  PROVE  Committed(table, t) \in [Users -> Cell]
<1>1. \A u \in Users : t.writes[u] \in Write
  BY DEF Tx
<1> QED
  BY <1>1 DEF Committed, Write

LEMMA StageType ==
  ASSUME NEW c \in Command, NEW s \in Stages
  PROVE  [c EXCEPT !.stage = s] \in Command
BY DEF Command

LEMMA ExecutedType ==
  ASSUME TypeOK, NEW w \in [Users -> Write], NEW k \in {"none", "joined", "left", "posted"},
         Executed(w, k)
  PROVE  TypeOK'
<1>1. cmd' \in Command
  BY StageType DEF Executed, Proceed, TypeOK, Stages
<1>2. minted' \in Nat
  BY DEF Executed, TypeOK
<1>3. cmd.user \in Users
  BY DEF TypeOK, Command
<1>4. tx' \in Tx
  <2>1. CASE k = "none"
    BY <2>1 DEF Executed, Tx
  <2>2. CASE k # "none"
    <3>1. [id |-> minted + 1, kind |-> k, user |-> cmd.user] \in Event
      BY <1>3, <2>2 DEF Event, TypeOK
    <3>2. tx' = [writes |-> w, events |-> {[id |-> minted + 1, kind |-> k, user |-> cmd.user]}]
      BY <2>2 DEF Executed
    <3> QED
      BY <3>1, <3>2 DEF Tx
  <2> QED
    BY <2>1, <2>2
<1> QED
  BY <1>1, <1>2, <1>4 DEF Executed, TypeOK, tables, cache, fanout

LEMMA AnswerType ==
  ASSUME Answer
  PROVE  cmd' \in Command /\ tx' \in Tx
BY IdleType, NoTxType DEF Answer

LEMMA RefusedType ==
  ASSUME TypeOK, Refused
  PROVE  TypeOK'
BY AnswerType DEF Refused, TypeOK, tables, cache, fanout

LEMMA AcceptType ==
  ASSUME TypeOK, NEW c \in Command, Accept(c)
  PROVE  TypeOK'
BY DEF Accept, TypeOK, tables, cache, fanout

LEMMA EnqueueType ==
  ASSUME TypeOK, NEW e \in Event, NEW S \in SUBSET Users, Enqueue(e, S)
  PROVE  outbox' \in Seq(Job) /\ UNCHANGED calls
<1>1. [id |-> e.id, recipients |-> S, todo |-> S, try |-> 1] \in Job
  BY DEF Job, Event
<1> QED
  BY <1>1 DEF Enqueue, TypeOK

LEMMA TxEventType ==
  ASSUME TypeOK, NEW e \in tx.events
  PROVE  e \in Event
BY DEF TypeOK, Tx

LEMMA RememberType ==
  ASSUME TypeOK, NEW i \in Nat
  PROVE  Remember(i) \in Seq(Nat)
<1>1. CASE Len(recent) >= MaxRecent
  <2>1. recent # <<>>
    BY <1>1 DEF TypeOK
  <2> QED
    BY <1>1, <2>1 DEF Remember, TypeOK
<1>2. CASE ~(Len(recent) >= MaxRecent)
  BY <1>2 DEF Remember, TypeOK
<1> QED
  BY <1>1, <1>2

LEMMA JobExcept ==
  ASSUME NEW j \in Job, NEW S \in SUBSET Users, NEW n \in Nat \ {0},
         NEW job, job = [j EXCEPT !.todo = S, !.try = n]
  PROVE  /\ job \in Job /\ job.id = j.id /\ job.recipients = j.recipients
         /\ job.todo = S /\ job.try = n
<1>1. job \in Job
  <2>1. PICK k : k = [j EXCEPT !.todo = S]
    OBVIOUS
  <2>2. k \in Job
    BY <2>1 DEF Job
  <2>3. job = [k EXCEPT !.try = n]
    BY <2>1
  <2> QED
    BY <2>2, <2>3 DEF Job
<1>2. job.id = j.id /\ job.recipients = j.recipients /\ job.todo = S /\ job.try = n
  BY DEF Job
<1> QED
  BY <1>1, <1>2

LEMMA JobRetried ==
  ASSUME NEW j \in Job, NEW job, job = [j EXCEPT !.try = @ + 1]
  PROVE  /\ job \in Job /\ job.id = j.id /\ job.recipients = j.recipients
         /\ job.todo = j.todo /\ job.try = j.try + 1
<1>1. PICK n \in Nat \ {0} : n = j.try + 1
  BY DEF Job
<1>2. job = [j EXCEPT !.try = n]
  BY <1>1 DEF Job
<1>3. job \in Job
  BY <1>2 DEF Job
<1>4. job.id = j.id /\ job.recipients = j.recipients /\ job.todo = j.todo /\ job.try = n
  BY <1>2 DEF Job
<1> QED
  BY <1>1, <1>3, <1>4

LEMMA JobDoneType ==
  ASSUME TypeOK, NEW u \in Users, outbox # <<>>, JobDone(u)
  PROVE  outbox' \in Seq(Job)
<1> DEFINE rest == Head(outbox).todo \ {u}
<1>1. Len(outbox) \in Nat \ {0} /\ outbox[1] \in Job /\ Head(outbox) = outbox[1]
  BY DEF TypeOK
<1>2. CASE rest = {}
  BY <1>2 DEF JobDone, TypeOK
<1>3. CASE rest # {}
  <2>1. outbox' = [outbox EXCEPT ![1].todo = rest, ![1].try = 1]
    BY <1>3 DEF JobDone
  <2>2. [outbox[1] EXCEPT !.todo = rest, !.try = 1] \in Job
    <3>1. rest \in SUBSET Users /\ 1 \in Nat \ {0}
      BY <1>1 DEF Job
    <3> QED
      BY <1>1, <3>1, JobExcept
  <2>3. outbox' = [outbox EXCEPT ![1] = [outbox[1] EXCEPT !.todo = rest, !.try = 1]]
    BY <1>1, <2>1
  <2> HIDE DEF rest
  <2> QED
    BY <1>1, <2>2, <2>3 DEF TypeOK
<1> QED
  BY <1>2, <1>3

LEMMA EmptySeqTypes == <<>> \in Seq(Nat) /\ <<>> \in Seq(Job) /\ <<>> \in Seq(Receipt)
OBVIOUS

\* What becomes of an attempt: executed, left behind, or lost ...
Outcome(u) ==
    \/ Receive(Waiting(u), FALSE) /\ UNCHANGED late
    \/ LeaveBehind(u) /\ UNCHANGED delivered
    \/ UNCHANGED calls

\* ... and what the child does next.
GoesOn(u) == JobDone(u) \/ Retry

LEMMA AttemptEnds ==
  ASSUME NEW u \in Users, Deliver(u) \/ AttemptFails(u)
  PROVE  /\ NextRecipient(u) /\ Outcome(u) /\ GoesOn(u)
         /\ UNCHANGED <<tables, minted, cache, cmd, tx>>
BY DEF Deliver, AttemptFails, Outcome, GoesOn

LEMMA RetryType ==
  ASSUME TypeOK, outbox # <<>>, Retry
  PROVE  outbox' \in Seq(Job)
<1>1. Len(outbox) \in Nat \ {0} /\ outbox[1] \in Job
  BY DEF TypeOK
<1>2. [outbox[1] EXCEPT !.try = @ + 1] \in Job
  BY <1>1 DEF Job
<1>3. outbox' = [outbox EXCEPT ![1] = [outbox[1] EXCEPT !.try = @ + 1]]
  BY <1>1 DEF Retry
<1> QED
  BY <1>1, <1>2, <1>3 DEF TypeOK

LEMMA ReceiveType ==
  ASSUME TypeOK, NEW a \in Attempt, NEW b \in BOOLEAN, Receive(a, b)
  PROVE  delivered' \in [Users -> Seq(Receipt)]
<1>1. [id |-> a.id, try |-> a.try, late |-> b] \in Receipt /\ a.user \in Users
  BY DEF Attempt, Receipt
<1>2. PICK r \in Receipt : r = [id |-> a.id, try |-> a.try, late |-> b]
  BY <1>1
<1>3. delivered' = [delivered EXCEPT ![a.user] = Append(delivered[a.user], r)]
  BY <1>1, <1>2 DEF Receive, TypeOK
<1>4. delivered[a.user] \in Seq(Receipt)
  BY <1>1 DEF TypeOK
<1>5. Append(delivered[a.user], r) \in Seq(Receipt)
  BY <1>4
<1> QED
  BY <1>1, <1>3, <1>5 DEF TypeOK

LEMMA OutcomeType ==
  ASSUME TypeOK, NEW u \in Users, NextRecipient(u), Outcome(u)
  PROVE  late' \subseteq Attempt /\ delivered' \in [Users -> Seq(Receipt)]
<1>1. Head(outbox) \in Job
  BY DEF NextRecipient, TypeOK
<1>2. Waiting(u) \in Attempt
  BY <1>1 DEF Waiting, Job, Attempt
<1>3. CASE Receive(Waiting(u), FALSE) /\ UNCHANGED late
  BY <1>2, <1>3, ReceiveType DEF TypeOK
<1>4. CASE LeaveBehind(u) /\ UNCHANGED delivered
  BY <1>2, <1>4 DEF LeaveBehind, TypeOK
<1>5. CASE UNCHANGED calls
  BY <1>5 DEF calls, TypeOK
<1> QED
  BY <1>3, <1>4, <1>5 DEF Outcome

LEMMA CrashOutcome ==
  ASSUME Crash
  PROVE  UNCHANGED calls \/ \E u \in Users : NextRecipient(u) /\ Outcome(u)
BY DEF Crash, Outcome, calls

LEMMA PassivateCuts ==
  ASSUME Passivate
  PROVE  /\ cmd.stage = "idle" /\ UNCHANGED <<tables, minted, cmd, tx, late, delivered>>
         /\ outbox' = <<>> \/ (outbox # <<>> /\ outbox' = <<Head(outbox)>>)
BY DEF Passivate, calls

LEMMA SingletonType ==
  ASSUME NEW S, NEW x \in S
  PROVE  <<x>> \in Seq(S)
OBVIOUS

LEMMA CutType ==
  ASSUME TypeOK, Passivate
  PROVE  outbox' \in Seq(Job)
<1>1. CASE outbox' = <<>>
  BY <1>1, EmptySeqTypes
<1>2. CASE outbox # <<>> /\ outbox' = <<Head(outbox)>>
  <2>1. Head(outbox) \in Job
    BY <1>2 DEF TypeOK
  <2> QED
    BY <1>2, <2>1, SingletonType
<1> QED
  BY <1>1, <1>2, PassivateCuts

-----------------------------------------------------------------------------
LEMMA TypeInit == Init => TypeOK
<1> SUFFICES ASSUME Init PROVE TypeOK
  OBVIOUS
<1>1. role \in [Users -> Cell]
  BY DEF Init, Cell, Roles
<1>2. journal \subseteq Event
  BY DEF Init, Event
<1> QED
  BY <1>1, <1>2, IdleType, NoTxType, EmptySeqTypes DEF Init, TypeOK

LEMMA TypeStep == TypeOK /\ [Next]_vars => TypeOK'
<1> SUFFICES ASSUME TypeOK, [Next]_vars PROVE TypeOK'
  OBVIOUS
<1> USE DEF tables, cache, fanout, calls
<1>c. /\ cmd \in Command /\ cmd.user \in Users /\ cmd.target \in Users
      /\ cmd.to \in Roles /\ cmd.stage \in Stages
  BY DEF TypeOK, Command
<1>1. CASE Activate
  BY <1>1, EmptySeqTypes DEF Activate, TypeOK, Roster
<1>2. CASE Passivate
  BY <1>2, CutType, EmptySeqTypes DEF Passivate, TypeOK
<1>3. CASE Crash
  <2>1. doubt' \subseteq Tx /\ doubted' \in BOOLEAN
    BY <1>3 DEF Crash, LeaveInDoubt, TypeOK
  <2>2. late' \subseteq Attempt /\ delivered' \in [Users -> Seq(Receipt)]
    BY <1>3, CrashOutcome, OutcomeType DEF TypeOK
  <2> QED
    BY <1>3, <2>1, <2>2, IdleType, NoTxType, EmptySeqTypes DEF Crash, TypeOK
<1>4. CASE Arrive
  <2>1. ASSUME NEW u \in Users, Join(u) PROVE TypeOK'
    <3>1. NewCommand("join", "run", u, u, "member") \in Command
      BY NewCommandType DEF Ops, Stages, Roles
    <3> QED BY <2>1, <3>1, AcceptType DEF Join
  <2>2. ASSUME NEW u \in Users, Leave(u) PROVE TypeOK'
    <3>1. NewCommand("leave", "submit", u, u, "member") \in Command
      BY NewCommandType DEF Ops, Stages, Roles
    <3> QED BY <2>2, <3>1, AcceptType DEF Leave
  <2>3. ASSUME NEW u \in Users, PostMessage(u) PROVE TypeOK'
    <3>1. NewCommand("post", "run", u, u, "member") \in Command
      BY NewCommandType DEF Ops, Stages, Roles
    <3> QED BY <2>3, <3>1, AcceptType DEF PostMessage
  <2>4. ASSUME NEW a \in Users, NEW t \in Users, NEW r \in Roles, SetMemberRole(a, t, r)
        PROVE  TypeOK'
    <3>1. NewCommand("setrole", "readActor", a, t, r) \in Command
      BY NewCommandType DEF Ops, Stages
    <3> QED BY <2>4, <3>1, AcceptType DEF SetMemberRole
  <2>5. ASSUME NEW a \in Users, NEW t \in Users, TransferOwnership(a, t) PROVE TypeOK'
    <3>1. NewCommand("transfer", "readActor", a, t, "owner") \in Command
      BY NewCommandType DEF Ops, Stages, Roles
    <3> QED BY <2>5, <3>1, AcceptType DEF TransferOwnership
  <2> QED
    BY <1>4, <2>1, <2>2, <2>3, <2>4, <2>5 DEF Arrive
<1>5. CASE ReadActor
  <2>1. [cmd EXCEPT !.stage = "readTarget", !.seen = role[cmd.user]] \in Command
    BY <1>c DEF Command, TypeOK, Stages
  <2>2. cmd' \in Command /\ tx' \in Tx
    BY <1>5, <2>1, AnswerType DEF ReadActor, TypeOK
  <2> QED
    BY <1>5, <2>2 DEF ReadActor, TypeOK
<1>6. CASE ReadTarget
  <2>1. cmd' \in Command /\ tx' \in Tx
    BY <1>6, <1>c, StageType, AnswerType DEF ReadTarget, Proceed, TypeOK, Stages
  <2> QED
    BY <1>6, <2>1 DEF ReadTarget, TypeOK
<1>7. CASE Submit
  <2>1. [cmd EXCEPT !.stage = "run", !.snap = role] \in Command
    BY <1>c DEF Command, TypeOK, Stages
  <2> QED
    BY <1>7, <2>1 DEF Submit, TypeOK
<1>8. CASE RunJoin
  BY <1>8, <1>c, WritingType, ExecutedType, RefusedType DEF RunJoin, Cell, Roles
<1>9. CASE RunLeave
  BY <1>9, <1>c, WritingType, ExecutedType, RefusedType DEF RunLeave, Cell
<1>10. CASE RunPost
  <2>1. Untouched \in [Users -> Write]
    BY DEF Untouched, Write
  <2> QED
    BY <1>10, <2>1, ExecutedType DEF RunPost
<1>11. CASE RunSetRole
  BY <1>11, <1>c, WritingType, ExecutedType, RefusedType DEF RunSetRole, Cell
<1>12. CASE RunTransfer
  <2>1. [Writing(cmd.user, "admin") EXCEPT ![cmd.target] = "owner"] \in [Users -> Write]
    <3>1. Writing(cmd.user, "admin") \in [Users -> Write]
      BY <1>c, WritingType DEF Cell, Roles
    <3> QED
      BY <3>1 DEF Write, Cell, Roles
  <2> QED
    BY <1>12, <2>1, ExecutedType, RefusedType DEF RunTransfer
<1>13. CASE Rollback
  BY <1>13, AnswerType DEF Rollback, TypeOK
<1>14. CASE Commit
  <2>1. role' \in [Users -> Cell]
    BY <1>14, CommittedType DEF Commit, TypeOK
  <2>2. journal' \subseteq Event
    BY <1>14, TxEventType DEF Commit, TypeOK
  <2>3. cmd' \in Command
    BY <1>14, StageType DEF Commit, Proceed, TypeOK, Stages
  <2> QED
    BY <1>14, <2>1, <2>2, <2>3 DEF Commit, TypeOK
<1>15. CASE CommitInDoubt
  BY <1>15, AnswerType DEF CommitInDoubt, LeaveInDoubt, TypeOK
<1>16. CASE JoinTail
  <2>1. PICK e \in tx.events : Enqueue(e, members \cup {cmd.user})
    BY <1>16 DEF JoinTail
  <2>2. members' \subseteq Users
    BY <1>16, <1>c DEF JoinTail, TypeOK
  <2>3. outbox' \in Seq(Job) /\ UNCHANGED calls
    BY <2>1, <1>c, TxEventType, EnqueueType DEF TypeOK
  <2> QED
    BY <1>16, <2>2, <2>3, AnswerType DEF JoinTail, TypeOK
<1>17. CASE LeaveTail
  <2>1. PICK e \in tx.events : Enqueue(e, members)
    BY <1>17 DEF LeaveTail
  <2>2. members' \subseteq Users
    BY <1>17, <1>c DEF LeaveTail, TypeOK
  <2>3. outbox' \in Seq(Job) /\ UNCHANGED calls
    BY <2>1, <1>c, TxEventType, EnqueueType DEF TypeOK
  <2> QED
    BY <1>17, <2>2, <2>3, AnswerType DEF LeaveTail, TypeOK
<1>18. CASE PostTail
  <2>1. PICK e \in tx.events : recent' = Remember(e.id) /\ Enqueue(e, members)
    BY <1>18 DEF PostTail
  <2>2. e \in Event
    BY <2>1, TxEventType
  <2>3. recent' \in Seq(Nat)
    BY <2>1, <2>2, RememberType DEF Event
  <2>4. outbox' \in Seq(Job) /\ UNCHANGED calls
    BY <2>1, <2>2, EnqueueType DEF TypeOK
  <2> QED
    BY <1>18, <2>3, <2>4, AnswerType DEF PostTail, TypeOK
<1>19. CASE RoleTail
  BY <1>19, AnswerType DEF RoleTail, TypeOK
<1>20. CASE Resolve
  <2>1. PICK t \in doubt : LateCommit(t) \/ LateAbort(t)
    BY <1>20 DEF Resolve
  <2>2. t \in Tx /\ t.events \subseteq Event
    BY <2>1 DEF TypeOK, Tx
  <2>3. CASE LateCommit(t)
    BY <2>2, <2>3, CommittedType DEF LateCommit, TypeOK
  <2>4. CASE LateAbort(t)
    BY <2>4 DEF LateAbort, TypeOK
  <2> QED
    BY <2>1, <2>3, <2>4
<1>21. CASE WorkerPanic
  BY <1>21 DEF WorkerPanic, TypeOK
<1>22. ASSUME NEW u \in Users, Deliver(u) \/ AttemptFails(u) PROVE TypeOK'
  <2>1. NextRecipient(u) /\ Outcome(u) /\ GoesOn(u) /\ UNCHANGED <<tables, minted, cache, cmd, tx>>
    BY <1>22, AttemptEnds
  <2>2. outbox' \in Seq(Job)
    BY <2>1, JobDoneType, RetryType DEF GoesOn, NextRecipient
  <2>3. late' \subseteq Attempt /\ delivered' \in [Users -> Seq(Receipt)]
    BY <2>1, OutcomeType
  <2> QED
    BY <2>1, <2>2, <2>3 DEF TypeOK
<1>23. ASSUME NEW a \in late, LateDelivery(a) PROVE TypeOK'
  <2>1. delivered' \in [Users -> Seq(Receipt)]
    BY <1>23, ReceiveType DEF LateDelivery, TypeOK
  <2> QED
    BY <1>23, <2>1 DEF LateDelivery, TypeOK
<1>24. CASE UNCHANGED vars
  BY <1>24 DEF vars, TypeOK
<1> QED
  BY <1>1, <1>2, <1>3, <1>4, <1>5, <1>6, <1>7, <1>8, <1>9, <1>10, <1>11, <1>12,
     <1>13, <1>14, <1>15, <1>16, <1>17, <1>18, <1>19, <1>20, <1>21, <1>22, <1>23,
     <1>24 DEF Next, Handle, Work

\* Every variable of the room keeps the type of the code's state, whatever
\* the number of users and of transactions in doubt.
THEOREM RoomTypeCorrect == Spec => []TypeOK
BY TypeInit, TypeStep, PTL DEF Spec

-----------------------------------------------------------------------------
(* The inductive invariant until a commit is left in doubt.  Only the      *)
(* grain's own commits change the tables then, so what a transaction read  *)
(* still holds when it writes (Asked), its writes are exactly the ones the *)
(* handler's tail mirrors in the cache (Staged, Tailed), and the owner is  *)
(* never the row a leave or a role change writes.                          *)

Settled == doubt = {}

Busy == cmd.stage # "idle" => up

Asked ==
    /\ cmd.op = "setrole" => cmd.to # "owner"
    /\ cmd.op = "setrole" /\ cmd.stage \in {"submit", "run"} =>
           role[cmd.target] \notin {"none", "owner"}
    /\ cmd.op = "transfer" /\ cmd.stage \in {"readTarget", "submit", "run"} =>
           cmd.user # cmd.target

StagedJoin  == cmd.op = "join" /\ role[cmd.user] = "none"
               /\ tx.writes = Writing(cmd.user, "member")
StagedLeave == cmd.op = "leave" /\ role[cmd.user] \notin {"none", "owner"}
               /\ tx.writes = Writing(cmd.user, "none")
StagedPost  == cmd.op = "post" /\ tx.writes = Untouched
StagedRole  == cmd.op = "setrole" /\ cmd.to # "owner"
               /\ role[cmd.target] \notin {"none", "owner"}
               /\ tx.writes = Writing(cmd.target, cmd.to)
StagedTransfer == cmd.op = "transfer" /\ cmd.user # cmd.target
                  /\ role[cmd.user] = "owner" /\ role[cmd.target] # "none"
                  /\ tx.writes = [Writing(cmd.user, "admin") EXCEPT ![cmd.target] = "owner"]
Staged == cmd.stage = "commit" =>
    StagedJoin \/ StagedLeave \/ StagedPost \/ StagedRole \/ StagedTransfer

Tailed == cmd.stage = "tail" =>
    \/ cmd.op = "join" /\ Roster(role) = members \cup {cmd.user}
    \/ cmd.op = "leave" /\ Roster(role) = members \ {cmd.user}
    \/ cmd.op \in {"post", "setrole", "transfer"} /\ Roster(role) = members

SettledInv == TypeOK /\ Settled /\ Busy /\ Asked /\ Staged /\ Tailed
              /\ CacheMatchesRoster /\ OneOwner

LEMMA IdleFields == Idle.op = "none" /\ Idle.stage = "idle"
BY DEF Idle, NewCommand

\* A step that leaves the tables and the cache alone and ends the command.
LEMMA QuietAnswer ==
  ASSUME SettledInv, TypeOK', Answer, UNCHANGED <<role, doubt, up, members>>,
         up => members = Roster(role)
  PROVE  SettledInv'
<1>1. cmd'.op = "none" /\ cmd'.stage = "idle"
  BY IdleFields DEF Answer
<1>2. Roster(role)' = Roster(role)
  BY DEF Roster
<1>3. Settled' /\ Busy' /\ Asked' /\ Staged' /\ Tailed'
  BY <1>1 DEF SettledInv, Settled, Busy, Asked, Staged, Tailed
<1>4. CacheMatchesRoster'
  BY <1>2 DEF CacheMatchesRoster
<1>5. OneOwner'
  BY DEF SettledInv, OneOwner
<1> QED
  BY <1>3, <1>4, <1>5 DEF SettledInv

\* A step of the handler inside its transaction: only cmd and tx change.
LEMMA HandlerStep ==
  ASSUME SettledInv, TypeOK', UNCHANGED <<role, doubt, up, members>>,
         up, cmd.stage # "tail", cmd'.stage # "tail",
         Asked', Staged'
  PROVE  SettledInv'
<1>1. Roster(role)' = Roster(role)
  BY DEF Roster
<1>2. members = Roster(role)
  BY DEF SettledInv, CacheMatchesRoster
<1>3. CacheMatchesRoster' /\ OneOwner'
  BY <1>1, <1>2 DEF CacheMatchesRoster, OneOwner, SettledInv
<1>4. Settled' /\ Busy' /\ Tailed'
  BY DEF SettledInv, Settled, Busy, Tailed
<1> QED
  BY <1>3, <1>4 DEF SettledInv

LEMMA SettledInit == Init => SettledInv
<1> SUFFICES ASSUME Init PROVE SettledInv
  OBVIOUS
<1>1. cmd.op = "none" /\ cmd.stage = "idle"
  BY IdleFields DEF Init
<1>2. OneOwner
  BY DEF Init, OneOwner
<1> QED
  BY <1>1, <1>2, TypeInit DEF Init, SettledInv, Settled, Busy, Asked, Staged, Tailed,
     CacheMatchesRoster

LEMMA AcceptSettled ==
  ASSUME SettledInv, TypeOK', NEW op \in Ops, NEW s \in Stages, NEW u \in Users,
         NEW t \in Users, NEW r \in Roles, Accept(NewCommand(op, s, u, t, r)),
         s \in {"readActor", "submit", "run"},
         op = "setrole" => s = "readActor" /\ r # "owner",
         op = "transfer" => s = "readActor"
  PROVE  SettledInv'
<1>1. cmd' = NewCommand(op, s, u, t, r) /\ up /\ cmd.stage = "idle"
  BY DEF Accept
<1>2. cmd'.op = op /\ cmd'.stage = s /\ cmd'.to = r
  BY <1>1 DEF NewCommand
<1>3. Asked' /\ Staged'
  BY <1>2 DEF Asked, Staged
<1> QED
  BY <1>1, <1>2, <1>3, HandlerStep DEF Accept, tables, cache

LEMMA CommitSettled ==
  ASSUME SettledInv, TypeOK', Commit
  PROVE  SettledInv'
<1>t. /\ role \in [Users -> Cell] /\ cmd.user \in Users /\ cmd.target \in Users
      /\ cmd.to \in Roles /\ tx \in Tx /\ up /\ cmd \in Command
      /\ members = Roster(role) /\ members \subseteq Users
  BY DEF SettledInv, TypeOK, Command, Commit, Busy, CacheMatchesRoster
<1>c. cmd'.stage = "tail" /\ cmd'.op = cmd.op /\ cmd'.user = cmd.user /\ cmd'.to = cmd.to
  BY <1>t DEF Commit, Proceed, Command
<1>r. \A v \in Users : role'[v] = IF tx.writes[v] = "keep" THEN role[v] ELSE tx.writes[v]
  BY DEF Commit, Committed
<1>u. members' = members /\ up' = up /\ doubt' = doubt
  BY DEF Commit, cache
<1>o. PICK o \in Users : \A v \in Users : role[v] = "owner" <=> v = o
  BY DEF SettledInv, OneOwner
<1>q. Roster(role)' = {v \in Users : role'[v] # "none"}
  BY DEF Roster
<1>m. members = {v \in Users : role[v] # "none"}
  BY <1>t DEF Roster
<1>1. CASE StagedJoin
  <2>1. \A v \in Users : role'[v] = IF v = cmd.user THEN "member" ELSE role[v]
    BY <1>1, <1>t, <1>r DEF StagedJoin, Writing, Untouched
  <2>2. OneOwner'
    BY <1>1, <1>t, <1>o, <2>1 DEF OneOwner, StagedJoin
  <2>3. Roster(role)' = members \cup {cmd.user}
    BY <1>t, <1>q, <1>m, <2>1
  <2>4. Tailed'
    BY <1>1, <1>c, <1>u, <2>3 DEF Tailed, StagedJoin
  <2> QED
    BY <1>1, <1>c, <1>u, <1>t, <2>2, <2>4
       DEF SettledInv, Settled, Busy, Asked, Staged, CacheMatchesRoster, StagedJoin
<1>2. CASE StagedLeave
  <2>1. \A v \in Users : role'[v] = IF v = cmd.user THEN "none" ELSE role[v]
    BY <1>2, <1>t, <1>r DEF StagedLeave, Writing, Untouched
  <2>2. OneOwner'
    BY <1>2, <1>t, <1>o, <2>1 DEF OneOwner, StagedLeave
  <2>3. Roster(role)' = members \ {cmd.user}
    BY <1>t, <1>q, <1>m, <2>1
  <2>4. Tailed'
    BY <1>2, <1>c, <1>u, <2>3 DEF Tailed, StagedLeave
  <2> QED
    BY <1>2, <1>c, <1>u, <1>t, <2>2, <2>4
       DEF SettledInv, Settled, Busy, Asked, Staged, CacheMatchesRoster, StagedLeave
<1>3. CASE StagedPost
  <2>1. \A v \in Users : role'[v] = role[v]
    BY <1>3, <1>t, <1>r DEF StagedPost, Untouched
  <2>2. OneOwner'
    BY <1>t, <1>o, <2>1 DEF OneOwner
  <2>3. Roster(role)' = members
    BY <1>t, <1>q, <1>m, <2>1
  <2>4. Tailed'
    BY <1>3, <1>c, <1>u, <2>3 DEF Tailed, StagedPost
  <2> QED
    BY <1>3, <1>c, <1>u, <1>t, <2>2, <2>4
       DEF SettledInv, Settled, Busy, Asked, Staged, CacheMatchesRoster, StagedPost
<1>4. CASE StagedRole
  <2>1. \A v \in Users : role'[v] = IF v = cmd.target THEN cmd.to ELSE role[v]
    BY <1>4, <1>t, <1>r DEF StagedRole, Writing, Untouched, Roles
  <2>2. OneOwner'
    BY <1>4, <1>t, <1>o, <2>1 DEF OneOwner, StagedRole
  <2>3. Roster(role)' = members
    BY <1>4, <1>t, <1>q, <1>m, <2>1 DEF StagedRole, Roles
  <2>4. Tailed'
    BY <1>4, <1>c, <1>u, <2>3 DEF Tailed, StagedRole
  <2> QED
    BY <1>4, <1>c, <1>u, <1>t, <2>2, <2>4
       DEF SettledInv, Settled, Busy, Asked, Staged, CacheMatchesRoster, StagedRole
<1>5. CASE StagedTransfer
  <2>1. \A v \in Users : role'[v] = IF v = cmd.target THEN "owner"
                                    ELSE IF v = cmd.user THEN "admin" ELSE role[v]
    BY <1>5, <1>t, <1>r DEF StagedTransfer, Writing, Untouched
  <2>o. cmd.user = o /\ cmd.target # o /\ cmd.target \in Users
    BY <1>5, <1>t, <1>o DEF StagedTransfer
  <2>n. \A v \in Users : role'[v] = "owner" <=> v = cmd.target
    BY <1>o, <2>1, <2>o
  <2>2. OneOwner'
    BY <2>n, <2>o DEF OneOwner
  <2>3. Roster(role)' = members
    BY <1>5, <1>t, <1>q, <1>m, <2>1 DEF StagedTransfer
  <2>4. Tailed'
    BY <1>5, <1>c, <1>u, <2>3 DEF Tailed, StagedTransfer
  <2> QED
    BY <1>5, <1>c, <1>u, <1>t, <2>2, <2>4
       DEF SettledInv, Settled, Busy, Asked, Staged, CacheMatchesRoster, StagedTransfer
<1> QED
  BY <1>1, <1>2, <1>3, <1>4, <1>5 DEF SettledInv, Staged, Commit

LEMMA ExecutedSettled ==
  ASSUME SettledInv, TypeOK', cmd.stage = "run", NEW w, NEW k, Executed(w, k),
         cmd.op \in {"join", "leave", "post", "setrole", "transfer"},
         cmd.op = "join" => role[cmd.user] = "none" /\ w = Writing(cmd.user, "member"),
         cmd.op = "leave" => role[cmd.user] \notin {"none", "owner"}
                             /\ w = Writing(cmd.user, "none"),
         cmd.op = "post" => w = Untouched,
         cmd.op = "setrole" => w = Writing(cmd.target, cmd.to),
         cmd.op = "transfer" =>
             /\ role[cmd.user] = "owner" /\ role[cmd.target] # "none"
             /\ w = [Writing(cmd.user, "admin") EXCEPT ![cmd.target] = "owner"]
  PROVE  SettledInv'
<1>1. /\ cmd'.stage = "commit" /\ cmd'.op = cmd.op /\ cmd'.user = cmd.user
      /\ cmd'.target = cmd.target /\ cmd'.to = cmd.to
  BY DEF Executed, Proceed, SettledInv, TypeOK, Command
<1>2. tx'.writes = w
  BY DEF Executed
<1>3. UNCHANGED <<role, doubt, up, members>>
  BY DEF Executed, tables, cache
<1>4. Asked'
  BY <1>1, <1>3 DEF Asked, SettledInv
<1>5. StagedJoin' \/ StagedLeave' \/ StagedPost' \/ StagedRole' \/ StagedTransfer'
  BY <1>1, <1>2, <1>3 DEF StagedJoin, StagedLeave, StagedPost, StagedRole, StagedTransfer,
     Asked, SettledInv, Writing, Untouched
<1>6. Staged'
  BY <1>5 DEF Staged
<1> QED
  BY <1>1, <1>3, <1>4, <1>6, HandlerStep DEF SettledInv, Busy

LEMMA RefusedSettled ==
  ASSUME SettledInv, TypeOK', cmd.stage # "tail", Refused
  PROVE  SettledInv'
<1>1. up => members = Roster(role)
  BY DEF SettledInv, CacheMatchesRoster
<1> QED
  BY <1>1, QuietAnswer DEF Refused, tables, cache

LEMMA SettledStep == SettledInv /\ [Next]_vars /\ ~doubted' => SettledInv'
<1> SUFFICES ASSUME SettledInv, [Next]_vars, ~doubted' PROVE SettledInv'
  OBVIOUS
<1>t. TypeOK'
  BY TypeStep DEF SettledInv
<1>d. doubt = {}
  BY DEF SettledInv, Settled
<1>c. /\ cmd \in Command /\ cmd.user \in Users /\ cmd.target \in Users
      /\ cmd.to \in Roles /\ cmd.stage \in Stages
  BY DEF SettledInv, TypeOK, Command
<1>q. cmd.stage # "tail" /\ up => members = Roster(role)
  BY DEF SettledInv, CacheMatchesRoster
<1>b. cmd.stage # "idle" => up
  BY DEF SettledInv, Busy
<1>1. CASE Activate
  <2>1. cmd.stage = "idle" /\ UNCHANGED <<role, doubt, cmd, tx>>
    BY <1>1, <1>b DEF Activate, tables
  <2>2. CacheMatchesRoster'
    BY <1>1, <2>1 DEF Activate, CacheMatchesRoster, Roster
  <2> QED
    BY <1>1, <1>t, <2>1, <2>2 DEF SettledInv, Settled, Busy, Asked, Staged, StagedJoin,
       StagedLeave, StagedPost, StagedRole, StagedTransfer, Tailed, OneOwner, Activate
<1>2. CASE Passivate
  <2>1. cmd.stage = "idle" /\ UNCHANGED <<role, doubt, cmd, tx>> /\ ~up'
    BY <1>2 DEF Passivate, tables
  <2> QED
    BY <1>t, <2>1 DEF SettledInv, Settled, Busy, Asked, Staged, StagedJoin,
       StagedLeave, StagedPost, StagedRole, StagedTransfer, Tailed, OneOwner,
       CacheMatchesRoster
<1>3. CASE Crash
  <2>1. cmd'.op = "none" /\ cmd'.stage = "idle" /\ UNCHANGED <<role, doubt>> /\ ~up'
    BY <1>3, IdleFields DEF Crash, LeaveInDoubt
  <2> QED
    BY <1>t, <2>1 DEF SettledInv, Settled, Busy, Asked, Staged, Tailed, OneOwner,
       CacheMatchesRoster
<1>4. CASE Arrive
  <2>1. ASSUME NEW u \in Users, Join(u) PROVE SettledInv'
    BY <2>1, <1>t, AcceptSettled DEF Join, Ops, Stages, Roles
  <2>2. ASSUME NEW u \in Users, Leave(u) PROVE SettledInv'
    BY <2>2, <1>t, AcceptSettled DEF Leave, Ops, Stages, Roles
  <2>3. ASSUME NEW u \in Users, PostMessage(u) PROVE SettledInv'
    BY <2>3, <1>t, AcceptSettled DEF PostMessage, Ops, Stages, Roles
  <2>4. ASSUME NEW a \in Users, NEW t \in Users, NEW r \in Roles, SetMemberRole(a, t, r)
        PROVE  SettledInv'
    BY <2>4, <1>t, AcceptSettled DEF SetMemberRole, Ops, Stages
  <2>5. ASSUME NEW a \in Users, NEW t \in Users, TransferOwnership(a, t) PROVE SettledInv'
    BY <2>5, <1>t, AcceptSettled DEF TransferOwnership, Ops, Stages, Roles
  <2> QED
    BY <1>4, <2>1, <2>2, <2>3, <2>4, <2>5 DEF Arrive
<1>5. CASE ReadActor
  <2>0. UNCHANGED <<role, doubt, up, members>> /\ cmd.stage = "readActor"
    BY <1>5 DEF ReadActor, tables, cache
  <2>1. CASE Answer
    BY <2>0, <2>1, <1>q, <1>t, QuietAnswer
  <2>2. CASE ~Answer
    <3>1. /\ cmd'.stage = "readTarget" /\ cmd'.op = cmd.op /\ cmd'.to = cmd.to
          /\ cmd'.user = cmd.user /\ cmd'.target = cmd.target
          /\ cmd.op # "setrole" => cmd.user # cmd.target
      BY <1>5, <2>2, <1>c DEF ReadActor, Command
    <3>2. Asked' /\ Staged'
      BY <3>1, <2>0 DEF Asked, Staged, SettledInv
    <3> QED
      BY <2>0, <3>1, <3>2, <1>b, <1>t, HandlerStep
  <2> QED
    BY <2>1, <2>2
<1>6. CASE ReadTarget
  <2>0. UNCHANGED <<role, doubt, up, members>> /\ cmd.stage = "readTarget"
    BY <1>6 DEF ReadTarget, tables, cache
  <2>1. CASE Answer
    BY <2>0, <2>1, <1>q, <1>t, QuietAnswer
  <2>2. CASE ~Answer
    <3>1. /\ cmd'.stage = "submit" /\ cmd'.op = cmd.op /\ cmd'.to = cmd.to
          /\ cmd'.user = cmd.user /\ cmd'.target = cmd.target
          /\ cmd.op = "setrole" => role[cmd.target] \notin {"none", "owner"}
      BY <1>6, <2>2, <1>c DEF ReadTarget, Proceed, Command, CanSetRole
    <3>2. Asked' /\ Staged'
      BY <3>1, <2>0 DEF Asked, Staged, SettledInv
    <3> QED
      BY <2>0, <3>1, <3>2, <1>b, <1>t, HandlerStep
  <2> QED
    BY <2>1, <2>2
<1>7. CASE Submit
  <2>0. UNCHANGED <<role, doubt, up, members>> /\ cmd.stage = "submit"
    BY <1>7 DEF Submit, tables, cache
  <2>1. /\ cmd'.stage = "run" /\ cmd'.op = cmd.op /\ cmd'.to = cmd.to
        /\ cmd'.user = cmd.user /\ cmd'.target = cmd.target
    BY <1>7, <1>c DEF Submit, Command
  <2>2. Asked' /\ Staged'
    BY <2>0, <2>1 DEF Asked, Staged, SettledInv
  <2> QED
    BY <2>0, <2>1, <2>2, <1>b, <1>t, HandlerStep
<1>8. CASE RunJoin
  <2>1. CASE Refused
    BY <1>8, <2>1, <1>t, RefusedSettled DEF RunJoin
  <2>2. CASE ~Refused
    BY <1>8, <2>2, <1>t, ExecutedSettled DEF RunJoin
  <2> QED BY <2>1, <2>2
<1>9. CASE RunLeave
  <2>1. CASE Refused
    BY <1>9, <2>1, <1>t, RefusedSettled DEF RunLeave
  <2>2. CASE ~Refused
    BY <1>9, <2>2, <1>t, ExecutedSettled DEF RunLeave, Removable
  <2> QED BY <2>1, <2>2
<1>10. CASE RunPost
  BY <1>10, <1>t, ExecutedSettled DEF RunPost
<1>11. CASE RunSetRole
  <2>1. CASE Refused
    BY <1>11, <2>1, <1>t, RefusedSettled DEF RunSetRole
  <2>2. CASE ~Refused
    BY <1>11, <2>2, <1>t, ExecutedSettled DEF RunSetRole
  <2> QED BY <2>1, <2>2
<1>12. CASE RunTransfer
  <2>1. CASE Refused
    BY <1>12, <2>1, <1>t, RefusedSettled DEF RunTransfer
  <2>2. CASE ~Refused
    BY <1>12, <2>2, <1>t, ExecutedSettled DEF RunTransfer
  <2> QED BY <2>1, <2>2
<1>13. CASE Rollback
  <2>1. cmd.stage # "tail" /\ Answer /\ UNCHANGED <<role, doubt, up, members>>
    BY <1>13 DEF Rollback, tables, cache
  <2> QED
    BY <2>1, <1>q, <1>t, QuietAnswer
<1>14. CASE Commit
  BY <1>14, <1>t, CommitSettled
<1>15. CASE CommitInDoubt
  BY <1>15 DEF CommitInDoubt, LeaveInDoubt
<1>16. CASE JoinTail
  <2>1. /\ cmd'.op = "none" /\ cmd'.stage = "idle" /\ UNCHANGED <<role, doubt, up>>
        /\ members' = Roster(role)
    BY <1>16, IdleFields DEF JoinTail, Answer, tables, SettledInv, Tailed
  <2> QED
    BY <1>t, <2>1 DEF SettledInv, Settled, Busy, Asked, Staged, Tailed, OneOwner,
       CacheMatchesRoster, Roster
<1>17. CASE LeaveTail
  <2>1. /\ cmd'.op = "none" /\ cmd'.stage = "idle" /\ UNCHANGED <<role, doubt, up>>
        /\ members' = Roster(role)
    BY <1>17, IdleFields DEF LeaveTail, Answer, tables, SettledInv, Tailed
  <2> QED
    BY <1>t, <2>1 DEF SettledInv, Settled, Busy, Asked, Staged, Tailed, OneOwner,
       CacheMatchesRoster, Roster
<1>18. CASE PostTail
  <2>1. Answer /\ UNCHANGED <<role, doubt, up, members>> /\ members = Roster(role)
    BY <1>18 DEF PostTail, tables, SettledInv, Tailed
  <2> QED
    BY <2>1, <1>t, QuietAnswer
<1>19. CASE RoleTail
  <2>1. Answer /\ UNCHANGED <<role, doubt, up, members>> /\ members = Roster(role)
    BY <1>19 DEF RoleTail, tables, cache, SettledInv, Tailed
  <2> QED
    BY <2>1, <1>t, QuietAnswer
<1>20. CASE Resolve
  BY <1>20, <1>d DEF Resolve
<1>21. CASE Work \/ (\E a \in late : LateDelivery(a)) \/ UNCHANGED vars
  <2>1. UNCHANGED <<role, doubt, up, members, cmd, tx>>
    BY <1>21 DEF Work, WorkerPanic, Deliver, AttemptFails, LateDelivery, vars, tables, cache
  <2> QED
    BY <1>t, <2>1 DEF SettledInv, Settled, Busy, Asked, Staged, StagedJoin,
       StagedLeave, StagedPost, StagedRole, StagedTransfer, Tailed, OneOwner,
       CacheMatchesRoster, Roster
<1> QED
  BY <1>1, <1>2, <1>3, <1>4, <1>5, <1>6, <1>7, <1>8, <1>9, <1>10, <1>11, <1>12,
     <1>13, <1>14, <1>15, <1>16, <1>17, <1>18, <1>19, <1>20, <1>21 DEF Next, Handle

\* Nothing takes back that a commit was left in doubt.
LEMMA DoubtedStep == doubted /\ [Next]_vars => doubted'
<1> SUFFICES ASSUME doubted, [Next]_vars PROVE doubted'
  OBVIOUS
<1> USE DEF tables
<1>1. CASE Activate \/ Passivate \/ Crash
  BY <1>1 DEF Activate, Passivate, Crash, LeaveInDoubt
<1>2. CASE Arrive
  BY <1>2 DEF Arrive, Join, Leave, PostMessage, SetMemberRole, TransferOwnership, Accept
<1>3. CASE ReadActor \/ ReadTarget \/ Submit \/ Rollback \/ Commit \/ CommitInDoubt
  BY <1>3 DEF ReadActor, ReadTarget, Submit, Rollback, Commit, CommitInDoubt, LeaveInDoubt
<1>4. CASE RunJoin \/ RunLeave \/ RunPost \/ RunSetRole \/ RunTransfer
  BY <1>4 DEF RunJoin, RunLeave, RunPost, RunSetRole, RunTransfer, Executed, Refused
<1>5. CASE JoinTail \/ LeaveTail \/ PostTail \/ RoleTail
  BY <1>5 DEF JoinTail, LeaveTail, PostTail, RoleTail
<1>6. CASE Resolve \/ Work \/ (\E a \in late : LateDelivery(a)) \/ UNCHANGED vars
  BY <1>6 DEF Resolve, LateCommit, LateAbort, Work, WorkerPanic, Deliver, AttemptFails,
     LateDelivery, vars
<1> QED
  BY <1>1, <1>2, <1>3, <1>4, <1>5, <1>6 DEF Next, Handle

\* Until a commit is left in doubt, the roster the Room grain answers from is
\* the roster of the database, for any number of users.
THEOREM RosterStaysCached == Spec => []RosterCached
<1>1. SettledInv => RosterCached
  BY DEF SettledInv, RosterCached
<1>2. doubted => RosterCached
  BY DEF RosterCached
<1> QED
  BY SettledInit, SettledStep, DoubtedStep, <1>1, <1>2, PTL DEF Spec

\* Until a commit is left in doubt, a room has exactly one owner at every
\* moment, for any number of users and any mix of commands.
THEOREM OwnerUnique == Spec => []OwnerKept
<1>1. SettledInv => OwnerKept
  BY DEF SettledInv, OwnerKept
<1>2. doubted => OwnerKept
  BY DEF OwnerKept
<1> QED
  BY SettledInit, SettledStep, DoubtedStep, <1>1, <1>2, PTL DEF Spec

\* From here on the assumptions on the constants are cited where they are needed.
HIDE SizesAssumption
HIDE UsersAssumption

-----------------------------------------------------------------------------
(* The timeline.  Transactions that have executed and not ended hold the   *)
(* locks of the rows they write (RowLocks).  A membership event gets its   *)
(* id under the lock of its user's row, so that it is newer than every     *)
(* committed membership event of that user (Prepared), whatever else       *)
(* commits before it does.                                                 *)

Pending == doubt \cup (IF cmd.stage = "commit" THEN {tx} ELSE {})

Moves(e, u) == e.user = u /\ e.kind \in {"joined", "left"}

Newest(e) == \A f \in journal : Moves(f, e.user) => f.id < e.id

KeepsRow(t, u) == t.writes[u] = "keep" /\ \A e \in t.events : ~Moves(e, u)

ChangesRole(t, u) ==
    /\ t.writes[u] \notin {"keep", "none"} /\ role[u] # "none"
    /\ \A e \in t.events : ~Moves(e, u)

MovesUser(t, u) ==
    \E e \in Event : /\ t.events = {e} /\ Moves(e, u) /\ Newest(e)
                     /\ t.writes[u] = IF e.kind = "joined" THEN "member" ELSE "none"

Prepared(t, u) == KeepsRow(t, u) \/ ChangesRole(t, u) \/ MovesUser(t, u)

IdsBounded ==
    /\ \A e \in journal : e.id <= minted
    /\ \A t \in Pending : \A e \in t.events : e.id <= minted

RowLocks == \A t1, t2 \in Pending : t1 # t2 =>
    \A u \in Users : t1.writes[u] = "keep" \/ t2.writes[u] = "keep"

NotTwice == cmd.stage = "commit" => tx \notin doubt

AllPrepared == \A t \in Pending : \A u \in Users : Prepared(t, u)

JournalInv == TypeOK /\ IdsBounded /\ RowLocks /\ NotTwice /\ AllPrepared
              /\ JournalMatchesRoster

\* A step that commits nothing and prepares nothing.
LEMMA JournalStill ==
  ASSUME JournalInv, TypeOK', UNCHANGED <<role, journal, minted>>, Pending' \subseteq Pending,
         NotTwice'
  PROVE  JournalInv'
<1>1. IdsBounded' /\ RowLocks'
  BY DEF JournalInv, IdsBounded, RowLocks
<1>2. AllPrepared'
  BY DEF JournalInv, AllPrepared, Prepared, KeepsRow, ChangesRole, MovesUser, Newest
<1>3. JournalMatchesRoster'
  BY DEF JournalInv, JournalMatchesRoster, MemberAt
<1> QED
  BY <1>1, <1>2, <1>3 DEF JournalInv

\* The transaction t commits, through the grain or later.
LEMMA JournalCommit ==
  ASSUME JournalInv, TypeOK', NEW t \in Pending,
         role' = Committed(role, t), journal' = journal \cup t.events,
         minted' = minted, Pending' \subseteq Pending \ {t}, NotTwice'
  PROVE  JournalInv'
<1>t. /\ role \in [Users -> Cell] /\ t \in Tx /\ minted \in Nat
      /\ \A e \in journal : e \in Event /\ e.id \in Nat
      /\ \A s \in Pending : s \in Tx /\ \A e \in s.events : e \in Event /\ e.id \in Nat
  BY DEF JournalInv, TypeOK, Tx, Event, Pending
<1>r. \A u \in Users : role'[u] = IF t.writes[u] = "keep" THEN role[u] ELSE t.writes[u]
  BY DEF Committed
<1>p. \A u \in Users : Prepared(t, u)
  BY DEF JournalInv, AllPrepared
<1>1. IdsBounded' /\ RowLocks'
  BY DEF JournalInv, IdsBounded, RowLocks
<1>2. ASSUME NEW s \in Pending', NEW u \in Users PROVE Prepared(s, u)'
  <2>1. s \in Pending /\ s # t
    OBVIOUS
  <2>2. Prepared(s, u)
    BY <2>1 DEF JournalInv, AllPrepared
  <2>3. CASE KeepsRow(s, u)
    BY <2>3 DEF Prepared, KeepsRow, Moves
  <2>4. CASE ~KeepsRow(s, u)
    <3>1. s.writes[u] # "keep"
      <4>1. CASE ChangesRole(s, u)
        BY <4>1 DEF ChangesRole
      <4>2. CASE MovesUser(s, u)
        BY <4>2 DEF MovesUser
      <4> QED
        BY <2>2, <2>4, <4>1, <4>2 DEF Prepared
    <3>2. t.writes[u] = "keep"
      BY <2>1, <3>1 DEF JournalInv, RowLocks
    <3>3. KeepsRow(t, u)
      BY <1>p, <3>2 DEF Prepared, ChangesRole, MovesUser
    <3>4. role'[u] = role[u]
      BY <1>r, <3>2
    <3>5. CASE ChangesRole(s, u)
      BY <3>4, <3>5 DEF Prepared, ChangesRole, Moves
    <3>6. CASE MovesUser(s, u)
      <4>1. PICK e \in Event : /\ s.events = {e} /\ Moves(e, u) /\ Newest(e)
                               /\ s.writes[u] = IF e.kind = "joined" THEN "member" ELSE "none"
        BY <3>6 DEF MovesUser
      <4>2. \A f \in journal' : Moves(f, e.user) => f.id < e.id
        BY <3>3, <4>1 DEF Newest, KeepsRow, Moves
      <4> QED
        BY <4>1, <4>2 DEF Prepared, MovesUser, Newest, Moves
    <3> QED
      BY <2>2, <2>4, <3>5, <3>6 DEF Prepared
  <2> QED
    BY <2>3, <2>4
<1>3. ASSUME NEW u \in Users PROVE role'[u] # "none" <=> MemberAt(u, minted)'
  <2>b. /\ \A e \in journal : e.id <= minted
        /\ \A e \in t.events : e.id <= minted
    BY DEF JournalInv, IdsBounded
  <2>m. role[u] # "none" <=> MemberAt(u, minted)
    BY DEF JournalInv, JournalMatchesRoster
  <2>1. CASE KeepsRow(t, u) \/ ChangesRole(t, u)
    <3>1. role'[u] # "none" <=> role[u] # "none"
      BY <1>r, <2>1 DEF KeepsRow, ChangesRole
    <3>2. MemberAt(u, minted)' <=> MemberAt(u, minted)
      BY <2>1 DEF MemberAt, KeepsRow, ChangesRole, Moves
    <3> QED
      BY <2>m, <3>1, <3>2
  <2>2. CASE MovesUser(t, u)
    <3>1. PICK e \in Event : /\ t.events = {e} /\ Moves(e, u) /\ Newest(e)
                             /\ t.writes[u] = IF e.kind = "joined" THEN "member" ELSE "none"
      BY <2>2 DEF MovesUser
    <3>2. /\ \A f \in journal : Moves(f, u) => f.id < e.id
          /\ e.user = u /\ e.kind \in {"joined", "left"} /\ e.id <= minted /\ e.id \in Nat
          /\ journal' = journal \cup {e}
      BY <3>1, <2>b, <1>t DEF Newest, Moves
    <3>3. CASE e.kind = "joined"
      <4>1. role'[u] # "none"
        BY <1>r, <3>1, <3>3
      <4>2. \A f \in journal' : f.user = u /\ f.kind = "left" /\ f.id <= minted => f.id < e.id
        BY <3>2, <3>3 DEF Moves
      <4>3. MemberAt(u, minted)'
        BY <3>2, <3>3, <4>2 DEF MemberAt
      <4> QED
        BY <4>1, <4>3
    <3>4. CASE e.kind = "left"
      <4>1. role'[u] = "none"
        BY <1>r, <3>1, <3>4
      <4>2. ASSUME NEW j \in journal', j.user = u, j.kind = "joined",
                   \A f \in journal' : f.user = u /\ f.kind = "left" /\ f.id <= minted
                                       => f.id < j.id
            PROVE  FALSE
        <5>1. e.id < j.id
          BY <3>2, <3>4, <4>2
        <5>2. j \in journal
          BY <3>2, <3>4, <4>2
        <5>3. j.id < e.id /\ j.id \in Nat
          BY <3>2, <4>2, <5>2, <1>t DEF Moves
        <5> QED
          BY <5>1, <5>3, <3>2
      <4>3. ~MemberAt(u, minted)'
        BY <4>2 DEF MemberAt
      <4> QED
        BY <4>1, <4>3
    <3> QED
      BY <3>2, <3>3, <3>4
  <2> QED
    BY <1>p, <2>1, <2>2 DEF Prepared
<1> QED
  BY <1>1, <1>2, <1>3 DEF JournalInv, AllPrepared, JournalMatchesRoster

\* The transaction has executed under the locks of the rows it writes.
LEMMA JournalExecuted ==
  ASSUME JournalInv, TypeOK', cmd.stage = "run", NEW w \in [Users -> Write],
         NEW k \in {"none", "joined", "left", "posted"}, Executed(w, k),
         \A u \in Users : w[u] # "keep" => ~Locked(u),
         k = "none" => \E u \in Users : w[u] # "keep",
         \A u \in Users :
            \/ w[u] = "keep" /\ (k \in {"none", "posted"} \/ u # cmd.user)
            \/ w[u] \notin {"keep", "none"} /\ role[u] # "none" /\ k \in {"none", "posted"}
            \/ u = cmd.user /\ k = "joined" /\ w[u] = "member"
            \/ u = cmd.user /\ k = "left" /\ w[u] = "none"
  PROVE  JournalInv'
<1> DEFINE new == [id |-> minted + 1, kind |-> k, user |-> cmd.user]
<1>t. /\ minted \in Nat /\ cmd \in Command /\ cmd.user \in Users
      /\ \A e \in journal : e \in Event /\ e.id \in Nat
      /\ \A t \in doubt : t \in Tx /\ \A e \in t.events : e \in Event /\ e.id \in Nat
  BY DEF JournalInv, TypeOK, Tx, Event, Command
<1>u. UNCHANGED <<role, journal, doubt>>
  BY DEF Executed, tables
<1>c. cmd'.stage = "commit"
  BY <1>t DEF Executed, Proceed, Command
<1>x. /\ tx'.writes = w
      /\ k = "none" => tx'.events = {} /\ minted' = minted
      /\ k # "none" => tx'.events = {new} /\ minted' = minted + 1
  BY DEF Executed
<1>p. Pending' = doubt \cup {tx'} /\ Pending = doubt
  BY <1>u, <1>c DEF Pending
<1>n. /\ \A e \in journal : e.id <= minted
      /\ \A t \in doubt : \A e \in t.events : e.id <= minted
  BY <1>p DEF JournalInv, IdsBounded
<1>m. minted' \in Nat /\ minted' >= minted
  BY <1>x, <1>t
<1>i. IdsBounded'
  <2>1. \A e \in journal' : e.id <= minted'
    BY <1>u, <1>n, <1>m, <1>t
  <2>2. \A t \in doubt : \A e \in t.events : e.id <= minted'
    BY <1>n, <1>m, <1>t
  <2>3. \A e \in tx'.events : e.id <= minted'
    BY <1>x, <1>t
  <2> QED
    BY <2>1, <2>2, <2>3, <1>p DEF IdsBounded
<1>l. \A t \in doubt : \A u \in Users : t.writes[u] = "keep" \/ w[u] = "keep"
  BY DEF Locked
<1>r. RowLocks'
  <2>1. \A t1, t2 \in doubt : t1 # t2 =>
            \A u \in Users : t1.writes[u] = "keep" \/ t2.writes[u] = "keep"
    BY <1>p DEF JournalInv, RowLocks
  <2> QED
    BY <2>1, <1>l, <1>p, <1>x DEF RowLocks
<1>2. NotTwice'
  <2>1. CASE k = "none"
    <3>1. PICK u \in Users : w[u] # "keep"
      BY <2>1
    <3>2. \A t \in doubt : t.writes[u] = "keep"
      BY <3>1, <1>l
    <3> QED
      BY <3>1, <3>2, <1>x, <1>u DEF NotTwice
  <2>2. CASE k # "none"
    <3>1. new \in tx'.events /\ new.id = minted + 1
      BY <2>2, <1>x
    <3>2. tx' \notin doubt
      BY <3>1, <1>n, <1>t
    <3> QED
      BY <3>2, <1>u DEF NotTwice
  <2> QED
    BY <2>1, <2>2
<1>a. ASSUME NEW t \in Pending', NEW u \in Users PROVE Prepared(t, u)'
  <2>1. CASE t \in doubt
    <3>1. Prepared(t, u)
      BY <2>1, <1>p DEF JournalInv, AllPrepared
    <3> QED
      BY <3>1, <1>u DEF Prepared, KeepsRow, ChangesRole, MovesUser, Newest
  <2>2. CASE t = tx'
    <3>1. CASE w[u] = "keep" /\ (k \in {"none", "posted"} \/ u # cmd.user)
      <4>1. \A e \in tx'.events : ~Moves(e, u)
        BY <3>1, <1>x DEF Moves
      <4> QED
        BY <2>2, <3>1, <4>1, <1>x DEF Prepared, KeepsRow
    <3>2. CASE w[u] \notin {"keep", "none"} /\ role[u] # "none" /\ k \in {"none", "posted"}
      <4>1. \A e \in tx'.events : ~Moves(e, u)
        BY <3>2, <1>x DEF Moves
      <4> QED
        BY <2>2, <3>2, <4>1, <1>x, <1>u DEF Prepared, ChangesRole
    <3>3. CASE /\ u = cmd.user
               /\ (k = "joined" /\ w[u] = "member") \/ (k = "left" /\ w[u] = "none")
      <4>1. PICK e : e = new
        OBVIOUS
      <4>2. e \in Event /\ tx'.events = {e} /\ Moves(e, u)
        BY <3>3, <4>1, <1>x, <1>t DEF Event, Moves
      <4>3. \A f \in journal' : Moves(f, e.user) => f.id < e.id
        BY <4>1, <1>n, <1>t, <1>u
      <4>4. w[u] = IF e.kind = "joined" THEN "member" ELSE "none"
        BY <3>3, <4>1
      <4> QED
        BY <2>2, <4>2, <4>3, <4>4, <1>x DEF Prepared, MovesUser, Newest, Moves
    <3> QED
      BY <3>1, <3>2, <3>3
  <2> QED
    BY <2>1, <2>2, <1>p
<1>j. JournalMatchesRoster'
  <2>1. \A u \in Users : MemberAt(u, minted)' <=> MemberAt(u, minted)
    BY <1>u, <1>n, <1>m, <1>t DEF MemberAt
  <2> QED
    BY <2>1, <1>u DEF JournalInv, JournalMatchesRoster
<1> QED
  BY <1>i, <1>r, <1>2, <1>a, <1>j DEF JournalInv, AllPrepared

LEMMA JournalInit == Init => JournalInv
<1> SUFFICES ASSUME Init PROVE JournalInv
  OBVIOUS
<1>1. Pending = {} /\ cmd.stage = "idle"
  BY IdleFields DEF Init, Pending
<1>2. JournalMatchesRoster
  BY DEF Init, JournalMatchesRoster, MemberAt
<1> QED
  BY <1>1, <1>2, TypeInit DEF Init, JournalInv, IdsBounded, RowLocks, NotTwice, AllPrepared

LEMMA JournalStep == JournalInv /\ [Next]_vars => JournalInv'
<1> SUFFICES ASSUME JournalInv, [Next]_vars PROVE JournalInv'
  OBVIOUS
<1>t. TypeOK /\ TypeOK'
  BY TypeStep DEF JournalInv
<1>c. /\ cmd \in Command /\ cmd.user \in Users /\ cmd.target \in Users
      /\ cmd.to \in Roles /\ cmd.stage \in Stages
  BY <1>t DEF TypeOK, Command
<1>a. Answer => cmd'.stage = "idle"
  BY IdleFields DEF Answer
<1> USE DEF tables, cache, fanout, calls
<1>1. CASE Activate \/ Passivate \/ Work \/ (\E a \in late : LateDelivery(a)) \/ UNCHANGED vars
  <2>1. UNCHANGED <<role, journal, minted, doubt, cmd, tx>>
    BY <1>1 DEF Activate, Passivate, Work, WorkerPanic, Deliver, AttemptFails,
       LateDelivery, vars
  <2> QED
    BY <2>1, <1>t, JournalStill DEF Pending, NotTwice, JournalInv
<1>2. CASE Crash
  <2>1. /\ UNCHANGED <<role, journal, minted>> /\ cmd'.stage = "idle"
        /\ doubt' = doubt \/ (cmd.stage = "commit" /\ doubt' = doubt \cup {tx})
    BY <1>2, IdleFields DEF Crash, LeaveInDoubt
  <2> QED
    BY <2>1, <1>t, JournalStill DEF Pending, NotTwice
<1>3. CASE Arrive
  <2>1. UNCHANGED <<role, journal, minted, doubt>> /\ cmd'.stage # "commit"
    BY <1>3 DEF Arrive, Join, Leave, PostMessage, SetMemberRole, TransferOwnership, Accept,
       NewCommand
  <2> QED
    BY <2>1, <1>t, JournalStill DEF Pending, NotTwice
<1>4. CASE ReadActor \/ ReadTarget \/ Submit \/ Rollback \/ Refused
  <2>1. UNCHANGED <<role, journal, minted, doubt>> /\ cmd'.stage # "commit"
    BY <1>4, <1>a, <1>c DEF ReadActor, ReadTarget, Submit, Rollback, Refused, Proceed, Command
  <2> QED
    BY <2>1, <1>t, JournalStill DEF Pending, NotTwice
<1>5. CASE CommitInDoubt
  <2>1. /\ UNCHANGED <<role, journal, minted>> /\ cmd'.stage = "idle"
        /\ cmd.stage = "commit" /\ doubt' = doubt \cup {tx}
    BY <1>5, <1>a DEF CommitInDoubt, LeaveInDoubt
  <2> QED
    BY <2>1, <1>t, JournalStill DEF Pending, NotTwice
<1>6. CASE JoinTail \/ LeaveTail \/ PostTail \/ RoleTail
  <2>1. UNCHANGED <<role, journal, minted, doubt>> /\ cmd'.stage = "idle"
    BY <1>6, <1>a DEF JoinTail, LeaveTail, PostTail, RoleTail
  <2> QED
    BY <2>1, <1>t, JournalStill DEF Pending, NotTwice
<1>7. CASE Commit
  <2>1. /\ cmd.stage = "commit" /\ cmd'.stage = "tail" /\ doubt' = doubt /\ minted' = minted
        /\ role' = Committed(role, tx) /\ journal' = journal \cup tx.events
    BY <1>7, <1>c DEF Commit, Proceed, Command
  <2>2. tx \in Pending /\ Pending' = doubt /\ tx \notin doubt /\ NotTwice'
    BY <2>1 DEF Pending, JournalInv, NotTwice
  <2> QED
    BY <2>1, <2>2, <1>t, JournalCommit DEF Pending
<1>8. CASE Resolve
  <2>1. PICK t \in doubt : LateCommit(t) \/ LateAbort(t)
    BY <1>8 DEF Resolve
  <2>2. UNCHANGED <<minted, cmd, tx>> /\ doubt' = doubt \ {t}
    BY <2>1 DEF LateCommit, LateAbort
  <2>3. t \in Pending /\ Pending' \subseteq Pending \ {t} /\ NotTwice'
    BY <2>1, <2>2 DEF Pending, JournalInv, NotTwice
  <2>4. CASE LateCommit(t)
    BY <2>3, <2>4, <1>t, JournalCommit DEF LateCommit
  <2>5. CASE LateAbort(t)
    BY <2>3, <2>5, <1>t, JournalStill DEF LateAbort
  <2> QED
    BY <2>1, <2>4, <2>5
<1>9. CASE RunJoin /\ ~Refused
  <2> DEFINE w == Writing(cmd.user, "member")
  <2>1. cmd.stage = "run" /\ Executed(w, "joined") /\ ~Locked(cmd.user)
    BY <1>9 DEF RunJoin
  <2>2. w \in [Users -> Write]
    BY <1>c, WritingType DEF Cell, Roles
  <2>3. \A u \in Users : w[u] = IF u = cmd.user THEN "member" ELSE "keep"
    BY <1>c DEF Writing, Untouched
  <2> HIDE DEF w
  <2> QED
    BY <2>1, <2>2, <2>3, <1>t, JournalExecuted
<1>10. CASE RunLeave /\ ~Refused
  <2> DEFINE w == Writing(cmd.user, "none")
  <2>1. cmd.stage = "run" /\ Executed(w, "left") /\ ~Locked(cmd.user)
    BY <1>10 DEF RunLeave
  <2>2. w \in [Users -> Write]
    BY <1>c, WritingType DEF Cell
  <2>3. \A u \in Users : w[u] = IF u = cmd.user THEN "none" ELSE "keep"
    BY <1>c DEF Writing, Untouched
  <2> HIDE DEF w
  <2> QED
    BY <2>1, <2>2, <2>3, <1>t, JournalExecuted
<1>11. CASE RunPost
  <2>1. Untouched \in [Users -> Write] /\ \A u \in Users : Untouched[u] = "keep"
    BY DEF Untouched, Write
  <2> QED
    BY <1>11, <2>1, <1>t, JournalExecuted DEF RunPost
<1>12. CASE RunSetRole /\ ~Refused
  <2> DEFINE w == Writing(cmd.target, cmd.to)
  <2>1. /\ cmd.stage = "run" /\ Executed(w, "none") /\ ~Locked(cmd.target)
        /\ role[cmd.target] # "none"
    BY <1>12 DEF RunSetRole
  <2>2. w \in [Users -> Write]
    BY <1>c, WritingType DEF Cell
  <2>3. \A u \in Users : w[u] = IF u = cmd.target THEN cmd.to ELSE "keep"
    BY <1>c DEF Writing, Untouched
  <2>4. cmd.to \notin {"none", "keep"}
    BY <1>c DEF Roles
  <2> HIDE DEF w
  <2> QED
    BY <2>1, <2>2, <2>3, <2>4, <1>c, <1>t, JournalExecuted
<1>13. CASE RunTransfer /\ ~Refused
  <2> DEFINE w == [Writing(cmd.user, "admin") EXCEPT ![cmd.target] = "owner"]
  <2>1. /\ cmd.stage = "run" /\ Executed(w, "none") /\ ~Locked(cmd.target) /\ ~Locked(cmd.user)
        /\ role[cmd.target] # "none" /\ role[cmd.user] # "none"
    BY <1>13 DEF RunTransfer
  <2>2. w \in [Users -> Write]
    BY <1>c, WritingType DEF Cell, Roles, Write
  <2>3. \A u \in Users : w[u] = IF u = cmd.target THEN "owner"
                               ELSE IF u = cmd.user THEN "admin" ELSE "keep"
    BY <1>c DEF Writing, Untouched
  <2> HIDE DEF w
  <2> QED
    BY <2>1, <2>2, <2>3, <1>c, <1>t, JournalExecuted
<1> QED
  BY <1>1, <1>2, <1>3, <1>4, <1>5, <1>6, <1>7, <1>8, <1>9, <1>10, <1>11, <1>12, <1>13
     DEF Next, Handle

LEMMA JournalInvariant == Spec => []JournalInv
BY JournalInit, JournalStep, PTL DEF Spec

\* Replaying the timeline yields the roster at every moment, with any number
\* of users and of commits in doubt: a row and its event commit together, and
\* events of one user get their ids in the order in which they commit.
THEOREM TimelineIsRoster == Spec => []JournalMatchesRoster
<1>1. JournalInv => JournalMatchesRoster
  BY DEF JournalInv
<1> QED
  BY JournalInvariant, <1>1, PTL

-----------------------------------------------------------------------------
(* Delivery.  The jobs in the child's mailbox are durable events in the    *)
(* order of their ids (OutSorted).  A User grain knows an attempt that it  *)
(* has executed or may still execute.  What the remaining recipients of a  *)
(* job know is older than the job, or an earlier attempt of the recipient  *)
(* the child is at (Ahead); the event of the command in progress is newer  *)
(* than all of them (Fresh).  No attempt is executed twice, because one    *)
(* that is left behind has not been executed (Once).                       *)

Knows(u, i, n) ==
    \/ \E k \in 1..Len(delivered[u]) : delivered[u][k].id = i /\ delivered[u][k].try = n
    \/ \E a \in late : a.user = u /\ a.id = i /\ a.try = n

OutDurable == \A k \in 1..Len(outbox) : \E e \in journal : e.id = outbox[k].id

OutSorted == \A j, k \in 1..Len(outbox) : j < k => outbox[j].id < outbox[k].id

Ahead ==
    \A k \in 1..Len(outbox) : \A u \in outbox[k].todo : \A i, n \in Nat : Knows(u, i, n) =>
        \/ i < outbox[k].id
        \/ k = 1 /\ NextRecipient(u) /\ i = outbox[1].id /\ n < outbox[1].try

Fresh == cmd.stage \in {"commit", "tail"} => \A e \in tx.events :
    /\ \A k \in 1..Len(outbox) : outbox[k].id < e.id
    /\ \A u \in Users : \A i, n \in Nat : Knows(u, i, n) => i < e.id

TailDurable == cmd.stage = "tail" => tx.events \subseteq journal

KnownDurable == \A u \in Users : \A i, n \in Nat : Knows(u, i, n) => \E e \in journal : e.id = i

Once == \A a \in late : \A k \in 1..Len(delivered[a.user]) :
            ~(delivered[a.user][k].id = a.id /\ delivered[a.user][k].try = a.try)

DeliveryInv == JournalInv /\ OutDurable /\ OutSorted /\ Ahead /\ Fresh /\ TailDurable
               /\ KnownDurable /\ Once /\ DeliveredInOrder

\* The mailbox keeps jobs, from the first or from the second on.
Shrinks(d) ==
    /\ Len(outbox') \in Nat
    /\ \A k \in 1..Len(outbox') :
          /\ k + d \in 1..Len(outbox)
          /\ outbox'[k].id = outbox[k + d].id
          /\ outbox'[k].recipients = outbox[k + d].recipients
          /\ outbox'[k].todo \subseteq outbox[k + d].todo

LEMMA TailShrinks ==
  ASSUME TypeOK, outbox # <<>>, outbox' = Tail(outbox)
  PROVE  Shrinks(1)
BY DEF TypeOK, Shrinks

LEMMA CutShrinks ==
  ASSUME TypeOK, Passivate
  PROVE  Shrinks(0) /\ (Len(outbox') >= 1 => outbox'[1] = outbox[1])
<1>1. CASE outbox' = <<>>
  BY <1>1 DEF Shrinks
<1>2. CASE outbox # <<>> /\ outbox' = <<Head(outbox)>>
  BY <1>2 DEF Shrinks, TypeOK
<1> QED
  BY <1>1, <1>2, PassivateCuts

\* The first job changes.
LEMMA HeadShrinks ==
  ASSUME TypeOK, outbox # <<>>, NEW job \in Job, job.id = outbox[1].id,
         job.recipients = outbox[1].recipients, job.todo \subseteq outbox[1].todo,
         outbox' = [outbox EXCEPT ![1] = job]
  PROVE  Shrinks(0) /\ outbox'[1] = job
<1>1. Len(outbox) \in Nat \ {0} /\ outbox \in Seq(Job)
  BY DEF TypeOK
<1>2. /\ Len(outbox') = Len(outbox) /\ outbox'[1] = job
      /\ \A k \in 1..Len(outbox) : k # 1 => outbox'[k] = outbox[k]
  BY <1>1
<1>3. \A k \in 1..Len(outbox') : k + 0 = k /\ k \in 1..Len(outbox)
  BY <1>1, <1>2
<1> QED
  BY <1>1, <1>2, <1>3 DEF Shrinks

LEMMA GoesOnShrinks ==
  ASSUME TypeOK, NEW u \in Users, NextRecipient(u), GoesOn(u)
  PROVE  \/ Shrinks(1)
         \/ Shrinks(0) /\ outbox'[1].todo = outbox[1].todo \ {u}
         \/ Shrinks(0) /\ outbox'[1].todo = outbox[1].todo /\ outbox'[1].try = outbox[1].try + 1
<1> DEFINE rest == Head(outbox).todo \ {u}
<1>1. /\ outbox # <<>> /\ Len(outbox) \in Nat \ {0} /\ outbox[1] \in Job
      /\ Head(outbox) = outbox[1] /\ outbox \in Seq(Job)
  BY DEF TypeOK, NextRecipient
<1>2. CASE JobDone(u) /\ rest = {}
  BY <1>1, <1>2, TailShrinks DEF JobDone
<1>3. CASE JobDone(u) /\ rest # {}
  <2>1. PICK job : job = [outbox[1] EXCEPT !.todo = rest, !.try = 1]
    OBVIOUS
  <2>2. /\ job \in Job /\ job.id = outbox[1].id /\ job.recipients = outbox[1].recipients
        /\ job.todo = rest /\ job.todo \subseteq outbox[1].todo
    <3>1. rest \in SUBSET Users /\ 1 \in Nat \ {0} /\ rest \subseteq outbox[1].todo
      BY <1>1 DEF Job
    <3>2. PICK j \in Job, S \in SUBSET Users : j = outbox[1] /\ S = rest
      BY <1>1, <3>1
    <3>3. PICK n \in Nat \ {0} : n = 1
      OBVIOUS
    <3>4. job = [j EXCEPT !.todo = S, !.try = n]
      BY <2>1, <3>2, <3>3
    <3> HIDE DEF rest
    <3>5. job.id = j.id /\ job.recipients = j.recipients /\ job.todo = S
      BY <3>4 DEF Job
    <3>6. job \in Job
      BY <3>4, JobExcept
    <3> QED
      BY <3>1, <3>2, <3>5, <3>6
  <2>3. outbox' = [outbox EXCEPT ![1] = [outbox[1] EXCEPT !.todo = rest, !.try = 1]]
    BY <1>1, <1>3 DEF JobDone
  <2> HIDE DEF rest
  <2>4. Shrinks(0) /\ outbox'[1] = job
    BY <1>1, <2>1, <2>2, <2>3, HeadShrinks
  <2> QED
    BY <1>1, <2>2, <2>4 DEF rest
<1>4. CASE Retry
  <2>1. PICK job : job = [outbox[1] EXCEPT !.try = @ + 1]
    OBVIOUS
  <2>2. /\ job \in Job /\ job.id = outbox[1].id /\ job.recipients = outbox[1].recipients
        /\ job.todo = outbox[1].todo /\ job.try = outbox[1].try + 1
    BY <1>1, <2>1, JobRetried
  <2>3. outbox' = [outbox EXCEPT ![1] = [outbox[1] EXCEPT !.try = @ + 1]]
    BY <1>1, <1>4 DEF Retry
  <2>4. Shrinks(0) /\ outbox'[1] = job
    BY <1>1, <2>1, <2>2, <2>3, HeadShrinks
  <2> QED
    BY <2>2, <2>4
<1> QED
  BY <1>2, <1>3, <1>4 DEF GoesOn

\* The fields of the state that the lemmas on delivery need.
LEMMA DeliveryTypes ==
  ASSUME TypeOK
  PROVE  /\ minted \in Nat /\ outbox \in Seq(Job) /\ Len(outbox) \in Nat
         /\ \A k \in 1..Len(outbox) : /\ outbox[k] \in Job /\ outbox[k].id \in Nat
                                      /\ outbox[k].try \in Nat
                                      /\ outbox[k].todo \subseteq Users
         /\ \A u \in Users : /\ delivered[u] \in Seq(Receipt) /\ Len(delivered[u]) \in Nat
                             /\ \A i \in 1..Len(delivered[u]) :
                                   /\ delivered[u][i].id \in Nat /\ delivered[u][i].try \in Nat
         /\ \A a \in late : a \in Attempt /\ a.user \in Users /\ a.id \in Nat /\ a.try \in Nat
         /\ \A e \in journal : e \in Event /\ e.id \in Nat
         /\ \A e \in tx.events : e \in Event /\ e.id \in Nat
<1>1. minted \in Nat /\ outbox \in Seq(Job) /\ Len(outbox) \in Nat
  BY DEF TypeOK
<1>2. \A k \in 1..Len(outbox) : outbox[k] \in Job
  BY <1>1
<1>3. \A j \in Job : j.id \in Nat /\ j.try \in Nat /\ j.todo \subseteq Users
  BY DEF Job
<1>4. \A u \in Users : delivered[u] \in Seq(Receipt)
  BY DEF TypeOK
<1>5. \A s \in Seq(Receipt) : Len(s) \in Nat /\ \A i \in 1..Len(s) : s[i] \in Receipt
  OBVIOUS
<1>6. \A e \in Event : e.id \in Nat
  BY DEF Event
<1>7. journal \subseteq Event /\ tx.events \subseteq Event /\ late \subseteq Attempt
  BY DEF TypeOK, Tx
<1>8. /\ \A r \in Receipt : r.id \in Nat /\ r.try \in Nat
      /\ \A a \in Attempt : a.user \in Users /\ a.id \in Nat /\ a.try \in Nat
  BY DEF Receipt, Attempt
<1> QED
  BY <1>1, <1>2, <1>3, <1>4, <1>5, <1>6, <1>7, <1>8

LEMMA Appended ==
  ASSUME NEW S, NEW s \in Seq(S), NEW x \in S
  PROVE  /\ Len(Append(s, x)) = Len(s) + 1 /\ Append(s, x)[Len(s) + 1] = x
         /\ \A i \in 1..Len(s) : Append(s, x)[i] = s[i]
         /\ \A i \in 1..Len(Append(s, x)) : i \in 1..Len(s) \/ i = Len(s) + 1
OBVIOUS

\* A step that leaves the fan-out alone.
LEMMA DeliveryStill ==
  ASSUME DeliveryInv, JournalInv', UNCHANGED <<outbox, late, delivered>>,
         journal \subseteq journal', Fresh', TailDurable'
  PROVE  DeliveryInv'
<1>1. OutDurable' /\ OutSorted' /\ Ahead'
  BY DEF DeliveryInv, OutDurable, OutSorted, Ahead, Knows, NextRecipient
<1>2. DeliveredInOrder' /\ Once' /\ KnownDurable'
  BY DEF DeliveryInv, DeliveredInOrder, Follows, SameAttempt, Once, KnownDurable, Knows
<1> QED
  BY <1>1, <1>2 DEF DeliveryInv

\* Jobs are dropped.
LEMMA DeliveryShrinks ==
  ASSUME DeliveryInv, JournalInv', NEW d \in 0..1, Shrinks(d),
         d = 0 => (Len(outbox') >= 1 => outbox'[1] = outbox[1]),
         UNCHANGED <<journal, late, delivered, cmd, tx>>
  PROVE  DeliveryInv'
<1>t. TypeOK /\ TypeOK'
  BY DEF DeliveryInv, JournalInv
<1>k. \A u, i, n : Knows(u, i, n)' <=> Knows(u, i, n)
  BY DEF Knows
<1>1. OutDurable'
  BY DEF DeliveryInv, OutDurable, Shrinks
<1>2. OutSorted'
  BY <1>t, DeliveryTypes DEF DeliveryInv, OutSorted, Shrinks
<1>3. Ahead'
  <2> SUFFICES ASSUME NEW k \in 1..Len(outbox'), NEW u \in outbox'[k].todo,
                      NEW i \in Nat, NEW n \in Nat, Knows(u, i, n)
               PROVE  \/ i < outbox'[k].id
                      \/ k = 1 /\ NextRecipient(u)' /\ i = outbox'[1].id /\ n < outbox'[1].try
    BY <1>k DEF Ahead
  <2>1. /\ k + d \in 1..Len(outbox) /\ outbox'[k].id = outbox[k + d].id
        /\ u \in outbox[k + d].todo
    BY DEF Shrinks
  <2>2. CASE i < outbox[k + d].id
    BY <2>1, <2>2
  <2>3. CASE k + d = 1 /\ NextRecipient(u) /\ i = outbox[1].id /\ n < outbox[1].try
    <3>1. d = 0 /\ k = 1 /\ Len(outbox') >= 1
      BY <2>3
    <3>2. outbox'[1] = outbox[1] /\ outbox # <<>> /\ outbox' # <<>>
      BY <3>1, <2>3, <1>t DEF NextRecipient, TypeOK
    <3>3. Head(outbox') = Head(outbox)
      BY <3>2, <1>t DEF TypeOK
    <3> QED
      BY <2>3, <3>1, <3>2, <3>3 DEF NextRecipient
  <2> QED
    BY <2>1, <2>2, <2>3 DEF DeliveryInv, Ahead
<1>4. Fresh' /\ TailDurable'
  BY <1>k DEF DeliveryInv, Fresh, TailDurable, Shrinks
<1>5. DeliveredInOrder' /\ Once' /\ KnownDurable'
  BY <1>k DEF DeliveryInv, DeliveredInOrder, Follows, SameAttempt, Once, KnownDurable
<1> QED
  BY <1>1, <1>2, <1>3, <1>4, <1>5 DEF DeliveryInv

\* The tail of a handler hands a job to the child.
LEMMA DeliveryEnqueued ==
  ASSUME DeliveryInv, JournalInv', cmd.stage = "tail", cmd'.stage = "idle",
         NEW e \in tx.events, NEW S \in SUBSET Users, Enqueue(e, S), journal' = journal
  PROVE  DeliveryInv'
<1>t. TypeOK /\ TypeOK'
  BY DEF DeliveryInv, JournalInv
<1> DEFINE len == Len(outbox) + 1
           job == [id |-> e.id, recipients |-> S, todo |-> S, try |-> 1]
<1>1. job \in Job /\ e \in Event /\ e.id \in Nat
  BY <1>t, DeliveryTypes DEF Job
<1>2. /\ len \in Nat /\ Len(outbox') = len /\ delivered' = delivered /\ late' = late
      /\ outbox'[len] = job /\ \A k \in 1..Len(outbox) : outbox'[k] = outbox[k]
  BY <1>1, <1>t, DeliveryTypes DEF Enqueue, calls
<1>3. \A k \in 1..Len(outbox') : k \in 1..Len(outbox) \/ k = len
  BY <1>2, <1>t, DeliveryTypes
<1>4. outbox'[len].id = e.id /\ outbox'[len].todo = S
  BY <1>2
<1>k. \A u, i, n : Knows(u, i, n)' <=> Knows(u, i, n)
  BY <1>2 DEF Knows
<1>5. /\ \A k \in 1..Len(outbox) : outbox[k].id < e.id
      /\ \A u \in Users : \A i, n \in Nat : Knows(u, i, n) => i < e.id
      /\ e \in journal
  BY DEF DeliveryInv, Fresh, TailDurable, Knows
<1>h. \A u : NextRecipient(u) => NextRecipient(u)' /\ outbox'[1] = outbox[1]
  BY <1>1, <1>2, <1>t DEF NextRecipient, TypeOK
<1> HIDE DEF job, len
<1>6. OutDurable'
  BY <1>2, <1>3, <1>4, <1>5 DEF DeliveryInv, OutDurable
<1>7. OutSorted'
  <2> SUFFICES ASSUME NEW j \in 1..Len(outbox'), NEW k \in 1..Len(outbox'), j < k
               PROVE  outbox'[j].id < outbox'[k].id
    BY DEF OutSorted
  <2>1. j \in 1..Len(outbox)
    BY <1>2, <1>t, DeliveryTypes DEF len
  <2> QED
    BY <2>1, <1>2, <1>3, <1>4, <1>5 DEF DeliveryInv, OutSorted
<1>8. Ahead'
  <2> SUFFICES ASSUME NEW k \in 1..Len(outbox'), NEW u \in outbox'[k].todo,
                      NEW i \in Nat, NEW n \in Nat, Knows(u, i, n)
               PROVE  \/ i < outbox'[k].id
                      \/ k = 1 /\ NextRecipient(u)' /\ i = outbox'[1].id /\ n < outbox'[1].try
    BY <1>k DEF Ahead
  <2>1. CASE k \in 1..Len(outbox)
    BY <2>1, <1>2, <1>h DEF DeliveryInv, Ahead
  <2>2. CASE k = len
    BY <2>2, <1>4, <1>5
  <2> QED
    BY <2>1, <2>2, <1>3
<1>9. Fresh' /\ TailDurable' /\ DeliveredInOrder' /\ Once' /\ KnownDurable'
  BY <1>2, <1>k DEF DeliveryInv, Fresh, TailDurable, DeliveredInOrder, Follows, SameAttempt, Once, KnownDurable
<1> QED
  BY <1>6, <1>7, <1>8, <1>9 DEF DeliveryInv

LEMMA HeadFields ==
  ASSUME TypeOK, NEW u \in Users, NextRecipient(u)
  PROVE  /\ 1 \in 1..Len(outbox) /\ Head(outbox) = outbox[1] /\ u \in outbox[1].todo
         /\ outbox[1].id \in Nat /\ outbox[1].try \in Nat \ {0}
<1>1. outbox \in Seq(Job) /\ outbox # <<>>
  BY DEF TypeOK, NextRecipient
<1>2. 1 \in 1..Len(outbox) /\ Head(outbox) = outbox[1] /\ outbox[1] \in Job
  BY <1>1
<1>3. outbox[1].id \in Nat /\ outbox[1].try \in Nat \ {0}
  BY <1>2 DEF Job
<1> QED
  BY <1>2, <1>3 DEF NextRecipient

\* An attempt adds at most itself to what its User grain knows.
LEMMA OutcomeKnown ==
  ASSUME TypeOK, NEW u \in Users, NextRecipient(u), Outcome(u)
  PROVE  \A v \in Users : \A i, n \in Nat : Knows(v, i, n)' =>
            Knows(v, i, n) \/ (v = u /\ i = outbox[1].id /\ n = outbox[1].try)
<1>h. /\ Waiting(u).user = u /\ Waiting(u).id = outbox[1].id /\ Waiting(u).try = outbox[1].try
      /\ outbox[1].id \in Nat /\ outbox[1].try \in Nat \ {0}
  BY HeadFields DEF Waiting
<1> SUFFICES ASSUME NEW v \in Users, NEW i \in Nat, NEW n \in Nat, Knows(v, i, n)'
             PROVE  Knows(v, i, n) \/ (v = u /\ i = outbox[1].id /\ n = outbox[1].try)
  OBVIOUS
<1>1. CASE Receive(Waiting(u), FALSE) /\ UNCHANGED late
  <2> DEFINE r == [id |-> outbox[1].id, try |-> outbox[1].try, late |-> FALSE]
  <2>1. r \in Receipt
    BY <1>h DEF Receipt
  <2>2. /\ delivered'[u] = Append(delivered[u], r)
        /\ \A w \in Users : w # u => delivered'[w] = delivered[w]
    BY <1>1, <1>h DEF Receive, TypeOK
  <2>3. r.id = outbox[1].id /\ r.try = outbox[1].try
    OBVIOUS
  <2> HIDE DEF r
  <2>4. \A k \in 1..Len(delivered'[u]) : \/ k \in 1..Len(delivered[u]) /\ delivered'[u][k] = delivered[u][k]
                                        \/ delivered'[u][k] = r
    BY <2>1, <2>2, Appended, DeliveryTypes
  <2> QED
    BY <1>1, <2>2, <2>3, <2>4 DEF Knows
<1>2. CASE LeaveBehind(u) /\ UNCHANGED delivered
  BY <1>2, <1>h DEF LeaveBehind, Knows
<1>3. CASE UNCHANGED calls
  BY <1>3 DEF calls, Knows
<1> QED
  BY <1>1, <1>2, <1>3 DEF Outcome

\* What an attempt does to the records of the User grains.
LEMMA OutcomeDelivered ==
  ASSUME DeliveryInv, NEW u \in Users, NextRecipient(u), Outcome(u), journal' = journal
  PROVE  KnownDurable' /\ Once' /\ DeliveredInOrder'
<1>t. TypeOK
  BY DEF DeliveryInv, JournalInv
<1> DEFINE i0 == outbox[1].id
           n0 == outbox[1].try
<1>h. /\ Waiting(u).user = u /\ Waiting(u).id = i0 /\ Waiting(u).try = n0
      /\ i0 \in Nat /\ n0 \in Nat \ {0} /\ 1 \in 1..Len(outbox) /\ u \in outbox[1].todo
  BY <1>t, HeadFields DEF Waiting
<1>d. \E e \in journal : e.id = i0
  BY <1>h DEF DeliveryInv, OutDurable
<1>a. \A i, n \in Nat : Knows(u, i, n) => i < i0 \/ (i = i0 /\ n < n0)
  BY <1>h DEF DeliveryInv, Ahead
<1>f. ~Knows(u, i0, n0)
  BY <1>a, <1>h
<1>1. KnownDurable'
  BY <1>d, <1>t, OutcomeKnown DEF DeliveryInv, KnownDurable
<1> HIDE DEF i0, n0
<1>2. CASE UNCHANGED calls
  BY <1>1, <1>2 DEF DeliveryInv, calls, Once, DeliveredInOrder, Follows, SameAttempt
<1>3. CASE LeaveBehind(u) /\ UNCHANGED delivered
  <2>1. Once'
    BY <1>3, <1>f, <1>h DEF LeaveBehind, Once, Knows, DeliveryInv
  <2>2. DeliveredInOrder'
    BY <1>3 DEF DeliveryInv, DeliveredInOrder, Follows, SameAttempt
  <2> QED
    BY <1>1, <2>1, <2>2
<1>4. CASE Receive(Waiting(u), FALSE) /\ UNCHANGED late
  <2> DEFINE r == [id |-> i0, try |-> n0, late |-> FALSE]
             len == Len(delivered[u]) + 1
  <2>1. r \in Receipt
    BY <1>h DEF Receipt
  <2>2. /\ delivered'[u] = Append(delivered[u], r)
        /\ \A w \in Users : w # u => delivered'[w] = delivered[w]
    BY <1>4, <1>h, <1>t DEF Receive, TypeOK
  <2>3. r.id = i0 /\ r.try = n0 /\ ~r.late
    OBVIOUS
  <2>t. /\ delivered[u] \in Seq(Receipt) /\ Len(delivered[u]) \in Nat
        /\ \A k \in 1..Len(delivered[u]) : delivered[u][k].id \in Nat /\ delivered[u][k].try \in Nat
    BY <1>t, DeliveryTypes
  <2> HIDE DEF r
  <2>4. /\ Len(delivered'[u]) = len /\ delivered'[u][len] = r
        /\ \A k \in 1..Len(delivered[u]) : delivered'[u][k] = delivered[u][k]
        /\ \A k \in 1..Len(delivered'[u]) : k \in 1..Len(delivered[u]) \/ k = len
    BY <2>1, <2>2, <2>t, Appended
  <2>5. Once'
    <3> SUFFICES ASSUME NEW a \in late, NEW k \in 1..Len(delivered'[a.user])
                 PROVE  ~(delivered'[a.user][k].id = a.id /\ delivered'[a.user][k].try = a.try)
      BY <1>4 DEF Once
    <3>1. a.user \in Users
      BY <1>t, DeliveryTypes
    <3>2. CASE a.user # u \/ k \in 1..Len(delivered[u])
      BY <3>1, <3>2, <2>2, <2>4 DEF DeliveryInv, Once
    <3>3. CASE a.user = u /\ k = len
      BY <3>3, <2>3, <2>4, <1>f DEF Knows
    <3> QED
      BY <2>4, <3>2, <3>3
  <2>6. DeliveredInOrder'
    <3>1. \A k \in 1..Len(delivered[u]) : Follows(delivered[u][k], r)
      BY <2>3, <2>t, <1>a DEF Knows, Follows
    <3> SUFFICES ASSUME NEW v \in Users
                 PROVE  /\ \A k \in 1..Len(delivered'[v]) :
                              \E e \in journal : e.id = delivered'[v][k].id
                        /\ \A j, k \in 1..Len(delivered'[v]) : j < k =>
                              IF delivered'[v][k].late
                              THEN ~SameAttempt(delivered'[v][j], delivered'[v][k])
                              ELSE Follows(delivered'[v][j], delivered'[v][k])
      BY DEF DeliveredInOrder, Follows, SameAttempt
    <3>2. /\ \A k \in 1..Len(delivered[v]) : \E e \in journal : e.id = delivered[v][k].id
          /\ \A j, k \in 1..Len(delivered[v]) : j < k =>
                IF delivered[v][k].late
                THEN ~SameAttempt(delivered[v][j], delivered[v][k])
                ELSE Follows(delivered[v][j], delivered[v][k])
      BY DEF DeliveryInv, DeliveredInOrder
    <3>3. CASE v # u
      BY <3>2, <3>3, <2>2
    <3>4. CASE v = u
      <4>1. \A k \in 1..Len(delivered'[u]) : \E e \in journal : e.id = delivered'[u][k].id
        BY <3>2, <3>4, <2>3, <2>4, <1>d
      <4>2. ASSUME NEW j \in 1..Len(delivered'[u]), NEW k \in 1..Len(delivered'[u]), j < k
            PROVE  IF delivered'[u][k].late
                   THEN ~SameAttempt(delivered'[u][j], delivered'[u][k])
                   ELSE Follows(delivered'[u][j], delivered'[u][k])
        <5>1. j \in 1..Len(delivered[u])
          BY <4>2, <2>4, <2>t
        <5>2. CASE k \in 1..Len(delivered[u])
          <6>1. delivered'[u][j] = delivered[u][j] /\ delivered'[u][k] = delivered[u][k]
            BY <5>1, <5>2, <2>4
          <6> QED
            BY <4>2, <5>1, <5>2, <6>1, <3>2, <3>4
        <5>3. CASE k = len
          BY <5>1, <5>3, <2>3, <2>4, <3>1
        <5> QED
          BY <5>2, <5>3, <2>4
      <4> QED
        BY <3>4, <4>1, <4>2
    <3> QED
      BY <3>3, <3>4
  <2> QED
    BY <1>1, <2>5, <2>6
<1> QED
  BY <1>2, <1>3, <1>4 DEF Outcome

\* The child makes an attempt and goes on.
LEMMA DeliveryAttempt ==
  ASSUME DeliveryInv, JournalInv', NEW u \in Users, NextRecipient(u), Outcome(u), GoesOn(u),
         UNCHANGED <<journal, cmd, tx>>
  PROVE  DeliveryInv'
<1>t. TypeOK /\ TypeOK'
  BY DEF DeliveryInv, JournalInv
<1>h. /\ 1 \in 1..Len(outbox) /\ Head(outbox) = outbox[1] /\ outbox[1].id \in Nat
      /\ outbox[1].try \in Nat /\ u \in outbox[1].todo
  BY <1>t, DeliveryTypes DEF NextRecipient, TypeOK
<1>k. \A v \in Users : \A i, n \in Nat : Knows(v, i, n)' =>
            Knows(v, i, n) \/ (v = u /\ i = outbox[1].id /\ n = outbox[1].try)
  BY <1>t, OutcomeKnown
<1>s. PICK d \in 0..1 :
         /\ Shrinks(d)
         /\ d = 0 => \/ outbox'[1].todo = outbox[1].todo \ {u}
                     \/ outbox'[1].todo = outbox[1].todo /\ outbox'[1].try = outbox[1].try + 1
  BY <1>t, GoesOnShrinks
<1>l. \A k \in 1..Len(outbox') : /\ k + d \in 1..Len(outbox)
                                 /\ outbox'[k].id = outbox[k + d].id
                                 /\ outbox'[k].todo \subseteq outbox[k + d].todo
  BY <1>s DEF Shrinks
<1>1. OutDurable'
  BY <1>l DEF DeliveryInv, OutDurable
<1>2. OutSorted'
  <2> SUFFICES ASSUME NEW j \in 1..Len(outbox'), NEW k \in 1..Len(outbox'), j < k
               PROVE  outbox'[j].id < outbox'[k].id
    BY DEF OutSorted
  <2>1. j + d < k + d
    BY <1>s DEF Shrinks
  <2> QED
    BY <2>1, <1>l DEF DeliveryInv, OutSorted
<1>3. Ahead'
  <2> SUFFICES ASSUME NEW k \in 1..Len(outbox'), NEW v \in outbox'[k].todo,
                      NEW i \in Nat, NEW n \in Nat, Knows(v, i, n)'
               PROVE  \/ i < outbox'[k].id
                      \/ k = 1 /\ NextRecipient(v)' /\ i = outbox'[1].id /\ n < outbox'[1].try
    BY DEF Ahead
  <2>1. v \in outbox[k + d].todo /\ v \in Users
    BY <1>l, <1>t, DeliveryTypes
  <2>2. \/ i < outbox[k + d].id
        \/ v = u /\ i = outbox[1].id /\ n <= outbox[1].try
    <3>1. CASE Knows(v, i, n)
      <4>1. \/ i < outbox[k + d].id
            \/ NextRecipient(v) /\ i = outbox[1].id /\ n < outbox[1].try
        BY <2>1, <3>1, <1>l DEF DeliveryInv, Ahead
      <4>2. NextRecipient(v) => v = u
        <5> SUFFICES ASSUME NextRecipient(v) PROVE v = u
          OBVIOUS
        <5>1. u <= v /\ v <= u /\ u \in Nat /\ v \in Nat
          BY <2>1, UsersAssumption DEF NextRecipient
        <5> QED
          BY <5>1
      <4> QED
        BY <4>1, <4>2, <1>h
    <3> QED
      BY <3>1, <2>1, <1>k, <1>h
  <2>3. CASE k + d # 1
    <3>1. outbox[1].id < outbox[k + d].id
      BY <2>3, <1>l, <1>h, <1>t, DeliveryTypes DEF DeliveryInv, OutSorted
    <3> QED
      BY <2>2, <3>1, <1>l
  <2>4. CASE k + d = 1
    <3>1. k = 1 /\ d = 0
      BY <2>4
    <3>2. CASE i < outbox[1].id
      BY <3>1, <3>2, <1>l
    <3>3. CASE v = u /\ i = outbox[1].id /\ n <= outbox[1].try
      <4>1. outbox'[1].todo = outbox[1].todo /\ outbox'[1].try = outbox[1].try + 1
        BY <3>1, <3>3, <1>s
      <4>2. n < outbox'[1].try /\ outbox'[1].id = outbox[1].id
        BY <3>1, <3>3, <4>1, <1>h, <1>l
      <4>3. outbox' # <<>> /\ Head(outbox') = outbox'[1]
        BY <3>1, <1>t DEF TypeOK
      <4>4. NextRecipient(u)'
        BY <4>1, <4>3, <1>h DEF NextRecipient
      <4> QED
        BY <3>1, <3>3, <4>2, <4>4
    <3> QED
      BY <2>2, <3>1, <3>2, <3>3
  <2> QED
    BY <2>3, <2>4
<1>4. Fresh'
  <2> SUFFICES ASSUME cmd.stage \in {"commit", "tail"}, NEW e \in tx.events
               PROVE  /\ \A k \in 1..Len(outbox') : outbox'[k].id < e.id
                      /\ \A v \in Users : \A i, n \in Nat : Knows(v, i, n)' => i < e.id
    BY DEF Fresh
  <2>1. /\ \A k \in 1..Len(outbox) : outbox[k].id < e.id
        /\ \A v \in Users : \A i, n \in Nat : Knows(v, i, n) => i < e.id
    BY DEF DeliveryInv, Fresh
  <2> QED
    BY <2>1, <1>l, <1>k, <1>h
<1>5. TailDurable'
  BY DEF DeliveryInv, TailDurable
<1>6. KnownDurable' /\ Once' /\ DeliveredInOrder'
  BY OutcomeDelivered
<1> QED
  BY <1>1, <1>2, <1>3, <1>4, <1>5, <1>6 DEF DeliveryInv

\* The process dies, and the mailbox of the child with it.
LEMMA DeliveryLost ==
  ASSUME DeliveryInv, JournalInv', outbox' = <<>>, journal' = journal, cmd'.stage = "idle",
         UNCHANGED calls \/ \E u \in Users : NextRecipient(u) /\ Outcome(u)
  PROVE  DeliveryInv'
<1>1. OutDurable' /\ OutSorted' /\ Ahead' /\ Fresh' /\ TailDurable'
  BY DEF OutDurable, OutSorted, Ahead, Fresh, TailDurable
<1>2. KnownDurable' /\ Once' /\ DeliveredInOrder'
  <2>1. CASE UNCHANGED calls
    <3>1. late' = late /\ delivered' = delivered
      BY <2>1 DEF calls
    <3>2. KnownDurable'
      <4>1. \A u \in Users : \A i, n \in Nat : Knows(u, i, n)' <=> Knows(u, i, n)
        BY <3>1 DEF Knows
      <4> QED
        BY <4>1 DEF DeliveryInv, KnownDurable
    <3>3. Once' /\ DeliveredInOrder'
      BY <3>1 DEF DeliveryInv, Once, DeliveredInOrder, Follows, SameAttempt
    <3> QED
      BY <3>2, <3>3
  <2>2. CASE \E u \in Users : NextRecipient(u) /\ Outcome(u)
    BY <2>2, OutcomeDelivered
  <2> QED
    BY <2>1, <2>2
<1> QED
  BY <1>1, <1>2 DEF DeliveryInv

\* An attempt nobody waits for is executed.
LEMMA LateKnown ==
  ASSUME TypeOK, NEW a \in late, LateDelivery(a)
  PROVE  \A v \in Users : \A i, n \in Nat : Knows(v, i, n)' => Knows(v, i, n)
<1>t. TypeOK
  OBVIOUS
<1>a. a \in Attempt /\ a.user \in Users /\ a.id \in Nat /\ a.try \in Nat
  BY <1>t, DeliveryTypes
<1>u. UNCHANGED <<outbox, journal, cmd, tx>> /\ late' = late \ {a}
  BY DEF LateDelivery, tables
<1> DEFINE r == [id |-> a.id, try |-> a.try, late |-> TRUE]
           u == a.user
           len == Len(delivered[u]) + 1
<1>1. r \in Receipt
  BY <1>a DEF Receipt, Attempt
<1>2. /\ delivered'[u] = Append(delivered[u], r)
      /\ \A w \in Users : w # u => delivered'[w] = delivered[w]
  BY <1>a, <1>t DEF LateDelivery, Receive, TypeOK
<1>3. r.id = a.id /\ r.try = a.try /\ r.late
  OBVIOUS
<1>v. u = a.user /\ u \in Users
  BY <1>a
<1>s. delivered[u] \in Seq(Receipt) /\ Len(delivered[u]) \in Nat
  BY <1>v, <1>t, DeliveryTypes
<1> HIDE DEF r, u
<1>4. /\ Len(delivered'[u]) = len /\ delivered'[u][len] = r
      /\ \A k \in 1..Len(delivered[u]) : delivered'[u][k] = delivered[u][k]
      /\ \A k \in 1..Len(delivered'[u]) : k \in 1..Len(delivered[u]) \/ k = len
  BY <1>1, <1>2, <1>s, Appended
<1> SUFFICES ASSUME NEW v \in Users, NEW i \in Nat, NEW n \in Nat, Knows(v, i, n)'
             PROVE  Knows(v, i, n)
  OBVIOUS
<1>5. CASE \E b \in late' : b.user = v /\ b.id = i /\ b.try = n
  BY <1>5, <1>u DEF Knows
<1>6. CASE \E k \in 1..Len(delivered'[v]) : delivered'[v][k].id = i /\ delivered'[v][k].try = n
  <2>1. CASE v # u
    BY <1>6, <2>1, <1>2 DEF Knows
  <2>2. CASE v = u
    <3>1. PICK k \in 1..Len(delivered'[u]) : delivered'[u][k].id = i /\ delivered'[u][k].try = n
      BY <1>6, <2>2
    <3>2. CASE k \in 1..Len(delivered[u])
      BY <2>2, <3>1, <3>2, <1>4 DEF Knows
    <3>3. CASE k = len
      BY <2>2, <3>1, <3>3, <1>3, <1>4, <1>v DEF Knows
    <3> QED
      BY <3>2, <3>3, <1>4
  <2> QED
    BY <2>1, <2>2
<1> QED
  BY <1>5, <1>6 DEF Knows

LEMMA DeliveryLate ==
  ASSUME DeliveryInv, JournalInv', NEW a \in late, LateDelivery(a)
  PROVE  DeliveryInv'
<1>t. TypeOK
  BY DEF DeliveryInv, JournalInv
<1>a. a \in Attempt /\ a.user \in Users /\ a.id \in Nat /\ a.try \in Nat
  BY <1>t, DeliveryTypes
<1>u. UNCHANGED <<outbox, journal, cmd, tx>> /\ late' = late \ {a}
  BY DEF LateDelivery, tables
<1> DEFINE r == [id |-> a.id, try |-> a.try, late |-> TRUE]
           u == a.user
           len == Len(delivered[u]) + 1
<1>1. r \in Receipt
  BY <1>a DEF Receipt, Attempt
<1>2. /\ delivered'[u] = Append(delivered[u], r)
      /\ \A w \in Users : w # u => delivered'[w] = delivered[w]
  BY <1>a, <1>t DEF LateDelivery, Receive, TypeOK
<1>3. r.id = a.id /\ r.try = a.try /\ r.late
  OBVIOUS
<1>v. u = a.user /\ u \in Users
  BY <1>a
<1>s. delivered[u] \in Seq(Receipt) /\ Len(delivered[u]) \in Nat
  BY <1>v, <1>t, DeliveryTypes
<1> HIDE DEF r, u
<1>4. /\ Len(delivered'[u]) = len /\ delivered'[u][len] = r
      /\ \A k \in 1..Len(delivered[u]) : delivered'[u][k] = delivered[u][k]
      /\ \A k \in 1..Len(delivered'[u]) : k \in 1..Len(delivered[u]) \/ k = len
  BY <1>1, <1>2, <1>s, Appended
<1>k. \A v \in Users : \A i, n \in Nat : Knows(v, i, n)' => Knows(v, i, n)
  BY <1>t, LateKnown
<1>5. OutDurable' /\ OutSorted' /\ TailDurable'
  BY <1>u DEF DeliveryInv, OutDurable, OutSorted, TailDurable
<1>6. Ahead'
  <2>1. \A k \in 1..Len(outbox) : outbox[k].todo \subseteq Users
    BY <1>t, DeliveryTypes
  <2> QED
    BY <1>u, <1>k, <2>1 DEF DeliveryInv, Ahead, NextRecipient
<1>7. Fresh' /\ KnownDurable'
  BY <1>u, <1>k DEF DeliveryInv, Fresh, KnownDurable
<1>8. Once'
  <2> SUFFICES ASSUME NEW b \in late', NEW k \in 1..Len(delivered'[b.user])
               PROVE  ~(delivered'[b.user][k].id = b.id /\ delivered'[b.user][k].try = b.try)
    BY DEF Once
  <2>1. b \in late /\ b # a /\ b \in Attempt /\ b.user \in Users
    BY <1>u, <1>t, DeliveryTypes
  <2>2. CASE b.user # u \/ k \in 1..Len(delivered[u])
    BY <2>1, <2>2, <1>2, <1>4 DEF DeliveryInv, Once
  <2>3. CASE b.user = u /\ k = len
    <3>1. ~(b.id = a.id /\ b.try = a.try)
      BY <2>1, <2>3, <1>a, <1>v DEF Attempt
    <3> QED
      BY <2>3, <3>1, <1>3, <1>4
  <2> QED
    BY <2>2, <2>3, <1>4
<1>9. DeliveredInOrder'
  <2> SUFFICES ASSUME NEW v \in Users
               PROVE  /\ \A k \in 1..Len(delivered'[v]) :
                            \E e \in journal : e.id = delivered'[v][k].id
                      /\ \A j, k \in 1..Len(delivered'[v]) : j < k =>
                            IF delivered'[v][k].late
                            THEN ~SameAttempt(delivered'[v][j], delivered'[v][k])
                            ELSE Follows(delivered'[v][j], delivered'[v][k])
    BY <1>u DEF DeliveredInOrder, Follows, SameAttempt
  <2>1. /\ \A k \in 1..Len(delivered[v]) : \E e \in journal : e.id = delivered[v][k].id
        /\ \A j, k \in 1..Len(delivered[v]) : j < k =>
              IF delivered[v][k].late
              THEN ~SameAttempt(delivered[v][j], delivered[v][k])
              ELSE Follows(delivered[v][j], delivered[v][k])
    BY DEF DeliveryInv, DeliveredInOrder
  <2>2. CASE v # u
    BY <2>1, <2>2, <1>2
  <2>3. CASE v = u
    <3>1. \E e \in journal : e.id = r.id
      <4>1. Knows(u, a.id, a.try)
        BY <1>v DEF Knows
      <4> QED
        BY <4>1, <1>3, <1>a, <1>v DEF DeliveryInv, KnownDurable
    <3>2. \A k \in 1..Len(delivered'[u]) : \E e \in journal : e.id = delivered'[u][k].id
      BY <2>1, <2>3, <3>1, <1>4
    <3>3. ASSUME NEW j \in 1..Len(delivered'[u]), NEW k \in 1..Len(delivered'[u]), j < k
          PROVE  IF delivered'[u][k].late
                 THEN ~SameAttempt(delivered'[u][j], delivered'[u][k])
                 ELSE Follows(delivered'[u][j], delivered'[u][k])
      <4>1. j \in 1..Len(delivered[u])
        BY <3>3, <1>4, <1>s
      <4>2. CASE k \in 1..Len(delivered[u])
        BY <3>3, <4>1, <4>2, <1>4, <2>1, <2>3
      <4>3. CASE k = len
        <5>1. ~(delivered[u][j].id = a.id /\ delivered[u][j].try = a.try)
          BY <4>1, <1>v DEF DeliveryInv, Once
        <5> QED
          BY <4>1, <4>3, <5>1, <1>3, <1>4 DEF SameAttempt
      <4> QED
        BY <4>2, <4>3, <1>4
    <3> QED
      BY <2>3, <3>2, <3>3
  <2> QED
    BY <2>2, <2>3
<1> QED
  BY <1>5, <1>6, <1>7, <1>8, <1>9 DEF DeliveryInv

\* An event that is minted now is newer than everything handed out.
LEMMA DeliveryExecuted ==
  ASSUME DeliveryInv, JournalInv', NEW w, NEW k, Executed(w, k)
  PROVE  DeliveryInv'
<1>t. TypeOK /\ cmd \in Command
  BY DEF DeliveryInv, JournalInv, TypeOK
<1>u. UNCHANGED <<outbox, late, delivered, journal>> /\ cmd'.stage = "commit"
  BY <1>t DEF Executed, tables, fanout, calls, Proceed, Command
<1>e. \A e \in tx'.events : e.id = minted + 1
  BY DEF Executed
<1>j. \A e \in journal : e.id < minted + 1
  <2>1. \A e \in journal : e.id <= minted
    BY DEF DeliveryInv, JournalInv, IdsBounded
  <2> QED
    BY <2>1, <1>t, DeliveryTypes
<1>1. \A i \in 1..Len(outbox) : outbox[i].id < minted + 1
  BY <1>j DEF DeliveryInv, OutDurable
<1>2. \A u \in Users : \A i, n \in Nat : Knows(u, i, n)' => i < minted + 1
  BY <1>j, <1>u DEF DeliveryInv, KnownDurable, Knows
<1>3. Fresh' /\ TailDurable'
  BY <1>u, <1>e, <1>1, <1>2 DEF Fresh, TailDurable
<1> QED
  BY <1>u, <1>3, DeliveryStill

LEMMA DeliveryInit == Init => DeliveryInv
<1> SUFFICES ASSUME Init PROVE DeliveryInv
  OBVIOUS
<1>1. /\ cmd.stage = "idle" /\ outbox = <<>> /\ late = {}
      /\ \A u \in Users : delivered[u] = <<>>
  BY IdleFields DEF Init
<1>2. \A u \in Users : \A i, n \in Nat : ~Knows(u, i, n)
  BY <1>1 DEF Knows
<1> QED
  BY <1>1, <1>2, JournalInit DEF DeliveryInv, OutDurable, OutSorted, Ahead, Fresh, TailDurable,
     KnownDurable, Once, DeliveredInOrder

LEMMA DeliveryStep == DeliveryInv /\ [Next]_vars => DeliveryInv'
<1> SUFFICES ASSUME DeliveryInv, [Next]_vars PROVE DeliveryInv'
  OBVIOUS
<1>j. JournalInv'
  BY JournalStep DEF DeliveryInv
<1>t. TypeOK /\ cmd \in Command
  BY DEF DeliveryInv, JournalInv, TypeOK
<1>a. Answer => cmd'.stage = "idle"
  BY IdleFields DEF Answer
<1> USE DEF tables, cache, fanout, calls
<1>1. CASE Activate \/ UNCHANGED vars
  <2>1. UNCHANGED <<outbox, late, delivered, journal, cmd, tx>>
    BY <1>1 DEF Activate, vars
  <2>2. Fresh' /\ TailDurable'
    BY <2>1 DEF DeliveryInv, Fresh, TailDurable, Knows
  <2> QED
    BY <2>1, <2>2, <1>j, DeliveryStill
<1>2. CASE Passivate
  <2>1. UNCHANGED <<journal, late, delivered, cmd, tx>>
    BY <1>2, PassivateCuts
  <2>2. Shrinks(0) /\ (Len(outbox') >= 1 => outbox'[1] = outbox[1])
    BY <1>2, <1>t, CutShrinks
  <2> QED
    BY <2>1, <2>2, <1>j, DeliveryShrinks
<1>12. CASE Crash
  BY <1>12, <1>j, CrashOutcome, IdleFields, DeliveryLost DEF Crash
<1>3. CASE Arrive
  <2>1. UNCHANGED <<outbox, late, delivered, journal>> /\ cmd'.stage \notin {"commit", "tail"}
    BY <1>3 DEF Arrive, Join, Leave, PostMessage, SetMemberRole, TransferOwnership, Accept,
       NewCommand
  <2> QED
    BY <2>1, <1>j, DeliveryStill DEF Fresh, TailDurable
<1>4. CASE ReadActor \/ ReadTarget \/ Submit \/ Rollback \/ Refused \/ CommitInDoubt \/ RoleTail
  <2>1. UNCHANGED <<outbox, late, delivered, journal>> /\ cmd'.stage \notin {"commit", "tail"}
    BY <1>4, <1>a, <1>t DEF ReadActor, ReadTarget, Submit, Rollback, Refused, CommitInDoubt,
       RoleTail, Proceed, Command
  <2> QED
    BY <2>1, <1>j, DeliveryStill DEF Fresh, TailDurable
<1>5. CASE RunJoin \/ RunLeave \/ RunPost \/ RunSetRole \/ RunTransfer
  <2>1. CASE Refused
    BY <2>1, <1>4
  <2>2. CASE ~Refused
    <3>1. \E w, k : Executed(w, k)
      BY <1>5, <2>2 DEF RunJoin, RunLeave, RunPost, RunSetRole, RunTransfer
    <3> QED
      BY <3>1, <1>j, DeliveryExecuted
  <2> QED
    BY <2>1, <2>2
<1>6. CASE Commit
  <2>1. /\ UNCHANGED <<outbox, late, delivered, tx>> /\ journal' = journal \cup tx.events
        /\ cmd.stage = "commit" /\ cmd'.stage = "tail"
    BY <1>6, <1>t DEF Commit, Proceed, Command
  <2>2. Fresh' /\ TailDurable'
    BY <2>1 DEF DeliveryInv, Fresh, TailDurable, Knows
  <2> QED
    BY <2>1, <2>2, <1>j, DeliveryStill
<1>7. CASE JoinTail \/ LeaveTail \/ PostTail
  <2>1. /\ cmd.stage = "tail" /\ cmd'.stage = "idle" /\ journal' = journal
        /\ members \cup {cmd.user} \in SUBSET Users /\ members \in SUBSET Users
    BY <1>7, <1>a, <1>t DEF JoinTail, LeaveTail, PostTail, TypeOK, Command
  <2>2. PICK e \in tx.events : Enqueue(e, members \cup {cmd.user}) \/ Enqueue(e, members)
    BY <1>7 DEF JoinTail, LeaveTail, PostTail
  <2> QED
    BY <2>1, <2>2, <1>j, DeliveryEnqueued
<1>8. CASE Resolve
  <2>1. UNCHANGED <<outbox, late, delivered, cmd, tx>> /\ journal \subseteq journal'
    BY <1>8 DEF Resolve, LateCommit, LateAbort
  <2>2. Fresh' /\ TailDurable'
    BY <2>1 DEF DeliveryInv, Fresh, TailDurable, Knows
  <2> QED
    BY <2>1, <2>2, <1>j, DeliveryStill
<1>9. CASE WorkerPanic
  <2>1. UNCHANGED <<journal, late, delivered, cmd, tx>> /\ outbox # <<>> /\ outbox' = Tail(outbox)
    BY <1>9 DEF WorkerPanic
  <2> QED
    BY <2>1, <1>j, <1>t, TailShrinks, DeliveryShrinks
<1>10. ASSUME NEW u \in Users, Deliver(u) \/ AttemptFails(u) PROVE DeliveryInv'
  BY <1>10, <1>j, AttemptEnds, DeliveryAttempt
<1>11. ASSUME NEW a \in late, LateDelivery(a) PROVE DeliveryInv'
  BY <1>11, <1>j, DeliveryLate
<1> QED
  BY <1>1, <1>2, <1>3, <1>4, <1>5, <1>6, <1>7, <1>8, <1>9, <1>10, <1>11, <1>12
     DEF Next, Handle, Work

LEMMA DeliveryInvariant == Spec => []DeliveryInv
BY DeliveryInit, DeliveryStep, PTL DEF Spec

\* What a User grain receives is durable, what it receives while the child
\* waits follows everything it received before, and no attempt is executed
\* twice, for any number of users, events and attempts, across time-outs, late
\* executions, passivations, crashes, worker restarts and commits in doubt.
THEOREM DeliveryInOrder == Spec => []DeliveredInOrder
<1>1. DeliveryInv => DeliveredInOrder
  BY DEF DeliveryInv
<1> QED
  BY DeliveryInvariant, <1>1, PTL

-----------------------------------------------------------------------------
(* The fan-out and the hot window, until a commit is left in doubt.  The   *)
(* event of the command in progress is the newest one (OwnEvent), the      *)
(* author of a message is a cached member (Author), and only the event of  *)
(* a message that is waiting for its tail is not in the window yet.        *)

EventKind == [join |-> "joined", leave |-> "left", post |-> "posted"]

EventOps == {"join", "leave", "post"}

OwnEvent ==
    /\ cmd.stage \in {"commit", "tail"} =>
          tx.events = IF cmd.op \in EventOps
                      THEN {[id |-> minted, kind |-> EventKind[cmd.op], user |-> cmd.user]}
                      ELSE {}
    /\ cmd.stage = "commit" /\ cmd.op \in EventOps => \A f \in journal : f.id < minted

Author == cmd.stage # "idle" /\ cmd.op \in {"leave", "post"} => cmd.user \in members

Audience(e) == {u \in Users : MemberAt(u, e.id)} \cup {e.user}

JobsToMembers ==
    \A k \in 1..Len(outbox) :
        /\ outbox[k].todo \subseteq outbox[k].recipients
        /\ \E e \in journal : e.id = outbox[k].id /\ outbox[k].recipients = Audience(e)

SentToMembers ==
    \A u \in Users : \A i, n \in Nat : Knows(u, i, n) =>
        \E e \in journal : e.id = i /\ u \in Audience(e)

PostedAfter(i) == {f \in journal : f.kind = "posted" /\ f.id > i}

Lag == IF cmd.stage = "tail" /\ cmd.op = "post" THEN 1 ELSE 0

Window ==
    /\ IsFiniteSet(journal)
    /\ Len(recent) <= MaxRecent
    /\ \A k \in 1..Len(recent) :
          /\ \E e \in journal : e.kind = "posted" /\ e.id = recent[k]
          /\ Cardinality(PostedAfter(recent[k])) = Len(recent) - k + Lag

FanoutInv == SettledInv /\ DeliveryInv /\ OwnEvent /\ Author /\ JobsToMembers
             /\ SentToMembers /\ Window

LEMMA FanoutStill ==
  ASSUME JobsToMembers, SentToMembers, UNCHANGED <<journal, outbox, late, delivered>>
  PROVE  JobsToMembers' /\ SentToMembers'
BY DEF JobsToMembers, SentToMembers, Knows, Audience, MemberAt

LEMMA FanoutShrinks ==
  ASSUME JobsToMembers, NEW d \in 0..1, Shrinks(d), journal' = journal
  PROVE  JobsToMembers'
<1>1. \A e \in journal : Audience(e)' = Audience(e)
  BY DEF Audience, MemberAt
<1> SUFFICES ASSUME NEW k \in 1..Len(outbox')
             PROVE  /\ outbox'[k].todo \subseteq outbox'[k].recipients
                    /\ \E e \in journal : e.id = outbox'[k].id /\ outbox'[k].recipients = Audience(e)
  BY <1>1 DEF JobsToMembers
<1>2. /\ k + d \in 1..Len(outbox) /\ outbox'[k].id = outbox[k + d].id
      /\ outbox'[k].recipients = outbox[k + d].recipients
      /\ outbox'[k].todo \subseteq outbox[k + d].todo
  BY DEF Shrinks
<1> QED
  BY <1>2 DEF JobsToMembers

\* What the timeline says about an earlier event does not change any more.
LEMMA FanoutCommitted ==
  ASSUME FanoutInv, cmd.stage = "commit", journal' = journal \cup tx.events,
         UNCHANGED <<outbox, late, delivered>>
  PROVE  JobsToMembers' /\ SentToMembers'
<1>t. TypeOK
  BY DEF FanoutInv, DeliveryInv, JournalInv
<1>1. \A e \in journal : (\A f \in tx.events : e.id < f.id) => Audience(e)' = Audience(e)
  <2> SUFFICES ASSUME NEW e \in journal, \A f \in tx.events : e.id < f.id, NEW u \in Users
               PROVE  MemberAt(u, e.id)' <=> MemberAt(u, e.id)
    BY DEF Audience
  <2>1. \A f \in tx.events : ~(f.id <= e.id)
    BY <1>t, DeliveryTypes
  <2> QED
    BY <2>1 DEF MemberAt
<1>2. JobsToMembers'
  <2> SUFFICES ASSUME NEW k \in 1..Len(outbox)
               PROVE  /\ outbox[k].todo \subseteq outbox[k].recipients
                      /\ \E e \in journal' : /\ e.id = outbox[k].id
                                             /\ outbox[k].recipients = Audience(e)'
    BY DEF JobsToMembers
  <2>1. PICK e \in journal : e.id = outbox[k].id /\ outbox[k].recipients = Audience(e)
    BY DEF FanoutInv, JobsToMembers
  <2>2. \A f \in tx.events : e.id < f.id
    BY <2>1 DEF FanoutInv, DeliveryInv, Fresh
  <2> QED
    BY <2>1, <2>2, <1>1 DEF FanoutInv, JobsToMembers
<1>3. SentToMembers'
  <2> SUFFICES ASSUME NEW u \in Users, NEW i \in Nat, NEW n \in Nat, Knows(u, i, n)
               PROVE  \E e \in journal' : e.id = i /\ u \in Audience(e)'
    BY DEF SentToMembers, Knows
  <2>1. PICK e \in journal : e.id = i /\ u \in Audience(e)
    BY DEF FanoutInv, SentToMembers
  <2>2. \A f \in tx.events : e.id < f.id
    BY <2>1 DEF FanoutInv, DeliveryInv, Fresh
  <2> QED
    BY <2>1, <2>2, <1>1
<1> QED
  BY <1>2, <1>3

\* The recipients of a new job are the members at its event and its author.
LEMMA FanoutEnqueued ==
  ASSUME FanoutInv, cmd.stage = "tail", NEW e \in tx.events, NEW S, Enqueue(e, S),
         S = Roster(role) \cup {cmd.user}, journal' = journal
  PROVE  JobsToMembers' /\ SentToMembers'
<1>t. TypeOK /\ cmd.user \in Users
  BY DEF FanoutInv, DeliveryInv, JournalInv, TypeOK, Command
<1>e. e \in journal /\ e.id = minted /\ e.user = cmd.user
  BY DEF FanoutInv, OwnEvent, DeliveryInv, TailDurable
<1>s. S = Audience(e) /\ S \subseteq Users
  <2>1. \A u \in Users : role[u] # "none" <=> MemberAt(u, minted)
    BY DEF FanoutInv, DeliveryInv, JournalInv, JournalMatchesRoster
  <2> QED
    BY <2>1, <1>e, <1>t DEF Audience, Roster
<1>a. \A f \in journal : Audience(f)' = Audience(f)
  BY DEF Audience, MemberAt
<1> DEFINE job == [id |-> e.id, recipients |-> S, todo |-> S, try |-> 1]
<1>1. job \in Job /\ outbox \in Seq(Job)
  BY <1>t, <1>s, DeliveryTypes DEF Job
<1>2. outbox' = Append(outbox, job) /\ UNCHANGED <<late, delivered>>
  BY DEF Enqueue, calls
<1>3. job.id = e.id /\ job.recipients = S /\ job.todo = S
  OBVIOUS
<1> HIDE DEF job
<1>4. \A k \in 1..Len(outbox') : (k \in 1..Len(outbox) /\ outbox'[k] = outbox[k])
                                \/ outbox'[k] = job
  BY <1>1, <1>2, Appended
<1>5. JobsToMembers'
  BY <1>4, <1>3, <1>e, <1>s, <1>a DEF FanoutInv, JobsToMembers
<1>6. SentToMembers'
  BY <1>2, <1>a DEF FanoutInv, SentToMembers, Knows
<1> QED
  BY <1>5, <1>6

\* Who knows of an attempt is a recipient of the first job.
LEMMA FanoutOutcome ==
  ASSUME FanoutInv, NEW u \in Users, NextRecipient(u), Outcome(u), journal' = journal
  PROVE  SentToMembers'
<1>t. TypeOK
  BY DEF FanoutInv, DeliveryInv, JournalInv
<1>a. \A e \in journal : Audience(e)' = Audience(e)
  BY DEF Audience, MemberAt
<1>h. 1 \in 1..Len(outbox) /\ u \in outbox[1].todo
  BY <1>t DEF NextRecipient, TypeOK
<1>1. PICK e \in journal : e.id = outbox[1].id /\ u \in Audience(e)
  BY <1>h DEF FanoutInv, JobsToMembers
<1> SUFFICES ASSUME NEW v \in Users, NEW i \in Nat, NEW n \in Nat, Knows(v, i, n)'
             PROVE  \E f \in journal : f.id = i /\ v \in Audience(f)
  BY <1>a DEF SentToMembers
<1>2. Knows(v, i, n) \/ (v = u /\ i = outbox[1].id)
  BY <1>t, OutcomeKnown
<1> QED
  BY <1>1, <1>2 DEF FanoutInv, SentToMembers

LEMMA FanoutAttempt ==
  ASSUME FanoutInv, NEW u \in Users, NextRecipient(u), Outcome(u), GoesOn(u), journal' = journal
  PROVE  JobsToMembers' /\ SentToMembers'
<1>1. \E d \in 0..1 : Shrinks(d)
  BY GoesOnShrinks DEF FanoutInv, DeliveryInv, JournalInv
<1> QED
  BY <1>1, FanoutShrinks, FanoutOutcome DEF FanoutInv

\* Jobs are dropped, and an attempt may be left behind.
LEMMA FanoutDropped ==
  ASSUME FanoutInv, journal' = journal, NEW d \in 0..1, Shrinks(d),
         UNCHANGED calls \/ \E u \in Users : NextRecipient(u) /\ Outcome(u)
  PROVE  JobsToMembers' /\ SentToMembers'
<1>1. JobsToMembers'
  BY FanoutShrinks DEF FanoutInv
<1>2. CASE UNCHANGED calls
  BY <1>1, <1>2 DEF FanoutInv, SentToMembers, Knows, calls, Audience, MemberAt
<1>3. CASE \E u \in Users : NextRecipient(u) /\ Outcome(u)
  BY <1>1, <1>3, FanoutOutcome
<1> QED
  BY <1>2, <1>3

LEMMA FanoutLate ==
  ASSUME FanoutInv, NEW a \in late, LateDelivery(a)
  PROVE  JobsToMembers' /\ SentToMembers'
<1>1. UNCHANGED <<outbox, journal>> /\ \A e \in journal : Audience(e)' = Audience(e)
  BY DEF LateDelivery, tables, Audience, MemberAt
<1>2. \A v \in Users : \A i, n \in Nat : Knows(v, i, n)' => Knows(v, i, n)
  BY LateKnown DEF FanoutInv, DeliveryInv, JournalInv
<1>3. JobsToMembers'
  BY <1>1 DEF FanoutInv, JobsToMembers
<1>4. SentToMembers'
  BY <1>1, <1>2 DEF FanoutInv, SentToMembers
<1> QED
  BY <1>3, <1>4

-----------------------------------------------------------------------------
LEMMA WindowTypes ==
  ASSUME TypeOK
  PROVE  /\ minted \in Nat /\ recent \in Seq(Nat) /\ Len(recent) \in Nat
         /\ \A k \in 1..Len(recent) : recent[k] \in Nat
BY DEF TypeOK

LEMMA WindowStill ==
  ASSUME Window, UNCHANGED <<journal, recent>>, Lag' = Lag
  PROVE  Window'
BY DEF Window, PostedAfter

LEMMA WindowEmpty ==
  ASSUME Window, journal' = journal, recent' = <<>>
  PROVE  Window'
<1>1. Len(recent') = 0 /\ 1..Len(recent') = {}
  OBVIOUS
<1>2. IsFiniteSet(journal')
  BY DEF Window
<1>3. Len(recent') <= MaxRecent
  BY <1>1, SizesAssumption
<1> QED
  BY <1>1, <1>2, <1>3 DEF Window

\* A commit adds its own event behind every message of the window.
LEMMA WindowCommitted ==
  ASSUME FanoutInv, cmd.stage = "commit", cmd'.stage = "tail", cmd'.op = cmd.op,
         journal' = journal \cup tx.events, recent' = recent
  PROVE  Window'
<1>0. TypeOK
  BY DEF FanoutInv, DeliveryInv, JournalInv
<1>t. /\ TypeOK /\ minted \in Nat /\ recent \in Seq(Nat) /\ Len(recent) \in Nat
      /\ \A k \in 1..Len(recent) : recent[k] \in Nat
  BY <1>0, WindowTypes
<1>w. /\ IsFiniteSet(journal) /\ Len(recent) <= MaxRecent
      /\ \A k \in 1..Len(recent) :
          /\ \E e \in journal : e.kind = "posted" /\ e.id = recent[k]
          /\ Cardinality(PostedAfter(recent[k])) = Len(recent) - k
  BY <1>t DEF FanoutInv, Window, Lag
<1>1. CASE cmd.op \notin EventOps
  <2>1. journal' = journal
    BY <1>1 DEF FanoutInv, OwnEvent
  <2>2. Lag' = 0
    BY <1>1 DEF Lag, EventOps
  <2>3. \A i : PostedAfter(i)' = PostedAfter(i)
    BY <2>1 DEF PostedAfter
  <2>4. \A k \in 1..Len(recent) : Cardinality(PostedAfter(recent[k])') = Len(recent) - k + Lag'
    BY <1>w, <2>2, <2>3, <1>t
  <2> QED
    BY <1>w, <2>1, <2>4 DEF Window
<1>2. CASE cmd.op \in EventOps
  <2>1. PICK e : e = [id |-> minted, kind |-> EventKind[cmd.op], user |-> cmd.user]
    OBVIOUS
  <2>2. /\ journal' = journal \cup {e} /\ e.id = minted /\ \A f \in journal : f.id < minted
        /\ e.kind = "posted" <=> cmd.op = "post"
    BY <1>2, <2>1 DEF FanoutInv, OwnEvent, EventKind, EventOps
  <2>3. e \notin journal /\ IsFiniteSet(journal')
    BY <2>2, <1>w, <1>t, FS_AddElement
  <2>4. ASSUME NEW k \in 1..Len(recent)
        PROVE  Cardinality(PostedAfter(recent[k])') = Len(recent) - k + Lag'
    <3>1. recent[k] < minted
      BY <1>w, <2>2
    <3>2. IsFiniteSet(PostedAfter(recent[k]))
      BY <1>w, FS_Subset DEF PostedAfter
    <3>3. CASE cmd.op = "post"
      <4>1. PostedAfter(recent[k])' = PostedAfter(recent[k]) \cup {e}
        BY <2>2, <3>1, <3>3, <1>t DEF PostedAfter
      <4>2. e \notin PostedAfter(recent[k])
        BY <2>3 DEF PostedAfter
      <4>3. Cardinality(PostedAfter(recent[k])') = Cardinality(PostedAfter(recent[k])) + 1
        BY <3>2, <4>1, <4>2, FS_AddElement
      <4>4. Lag' = 1
        BY <3>3 DEF Lag
      <4> QED
        BY <4>3, <4>4, <1>w, <1>t
    <3>4. CASE cmd.op # "post"
      <4>1. PostedAfter(recent[k])' = PostedAfter(recent[k])
        BY <2>2, <3>4 DEF PostedAfter
      <4>2. Lag' = 0
        BY <3>4 DEF Lag
      <4> QED
        BY <4>1, <4>2, <1>w, <1>t
    <3> QED
      BY <3>3, <3>4
  <2> QED
    BY <2>2, <2>3, <2>4, <1>w DEF Window
<1> QED
  BY <1>1, <1>2

\* The message enters the window and the oldest one makes room.
LEMMA WindowRemembers ==
  ASSUME FanoutInv, PostTail, cmd'.stage = "idle"
  PROVE  Window'
<1>t. /\ TypeOK /\ minted \in Nat /\ recent \in Seq(Nat) /\ Len(recent) \in Nat
      /\ \A k \in 1..Len(recent) : recent[k] \in Nat
  BY DEF FanoutInv, DeliveryInv, JournalInv, TypeOK
<1>j. journal' = journal /\ Lag = 1 /\ Lag' = 0 /\ cmd.stage = "tail" /\ cmd.op = "post"
  BY DEF PostTail, tables, Lag
<1>e. PICK e \in tx.events : recent' = Remember(e.id)
  BY DEF PostTail
<1>f. e \in journal /\ e.kind = "posted" /\ e.id = minted
  BY <1>j DEF FanoutInv, OwnEvent, EventOps, EventKind, DeliveryInv, TailDurable
<1>w. /\ IsFiniteSet(journal) /\ Len(recent) <= MaxRecent
      /\ \A k \in 1..Len(recent) :
          /\ \E f \in journal : f.kind = "posted" /\ f.id = recent[k]
          /\ Cardinality(PostedAfter(recent[k])) = Len(recent) - k + 1
  BY <1>j DEF FanoutInv, Window
<1>p. \A i : PostedAfter(i)' = PostedAfter(i)
  BY <1>j DEF PostedAfter
<1>0. Cardinality(PostedAfter(minted)) = 0
  <2>1. \A f \in journal : ~(f.id > minted)
    BY <1>t, DeliveryTypes DEF FanoutInv, DeliveryInv, JournalInv, IdsBounded
  <2>2. PostedAfter(minted) = {}
    BY <2>1 DEF PostedAfter
  <2> QED
    BY <2>2, FS_EmptySet
<1>m. /\ MaxRecent \in Nat \ {0} /\ recent' = Append(IF Len(recent) >= MaxRecent THEN Tail(recent) ELSE recent, minted)
  BY <1>e, <1>f, SizesAssumption DEF Remember
<1>d. PICK d \in 0..1 : /\ d = 1 => Len(recent) = MaxRecent /\ recent' = Append(Tail(recent), minted)
                        /\ d = 0 => Len(recent) < MaxRecent /\ recent' = Append(recent, minted)
  <2>1. CASE Len(recent) >= MaxRecent
    BY <2>1, <1>m, <1>w, <1>t
  <2>2. CASE ~(Len(recent) >= MaxRecent)
    BY <2>2, <1>m, <1>w, <1>t
  <2> QED
    BY <2>1, <2>2
<1>1. /\ Len(recent') = Len(recent) - d + 1
      /\ recent'[Len(recent')] = minted
      /\ \A k \in 1..Len(recent') : \/ k = Len(recent')
                                    \/ k + d \in 1..Len(recent) /\ recent'[k] = recent[k + d]
  <2>1. CASE d = 1
    <3>0. Len(recent) = MaxRecent /\ recent' = Append(Tail(recent), minted)
      BY <2>1, <1>d
    <3>1. Len(recent) > 0 /\ recent # <<>> /\ recent' = Append(Tail(recent), minted)
      BY <3>0, <1>m, <1>t
    <3>2. PICK s : s = Tail(recent)
      OBVIOUS
    <3>3. s \in Seq(Nat) /\ Len(s) = Len(recent) - 1
      BY <3>1, <3>2, <1>t
    <3>4. \A k \in 1..Len(s) : k + 1 \in 1..Len(recent) /\ s[k] = recent[k + 1]
      BY <3>1, <3>2, <3>3, <1>t
    <3>5. recent' = Append(s, minted)
      BY <3>1, <3>2
    <3>6. /\ Len(recent') = Len(s) + 1 /\ recent'[Len(s) + 1] = minted
          /\ \A k \in 1..Len(s) : recent'[k] = s[k]
          /\ \A k \in 1..Len(recent') : k \in 1..Len(s) \/ k = Len(s) + 1
      BY <3>5, <3>3, <1>t, Appended
    <3> QED
      BY <2>1, <3>3, <3>4, <3>6, <1>t
  <2>2. CASE d = 0
    <3>1. recent' = Append(recent, minted)
      BY <2>2, <1>d
    <3>2. /\ Len(recent') = Len(recent) + 1 /\ recent'[Len(recent) + 1] = minted
          /\ \A k \in 1..Len(recent) : recent'[k] = recent[k]
          /\ \A k \in 1..Len(recent') : k \in 1..Len(recent) \/ k = Len(recent) + 1
      BY <3>1, <1>t, Appended
    <3> QED
      BY <2>2, <3>2, <1>t
  <2> QED
    BY <2>1, <2>2
<1>2. Len(recent') <= MaxRecent
  <2>1. CASE d = 1
    <3>1. Len(recent') = Len(recent)
      BY <2>1, <1>1, <1>t
    <3> QED BY <3>1, <1>w
  <2>2. CASE d = 0
    <3>1. Len(recent) < MaxRecent /\ Len(recent') = Len(recent) + 1
      BY <2>2, <1>1, <1>d, <1>t
    <3> QED BY <3>1, <1>m, <1>t
  <2> QED
    BY <2>1, <2>2
<1>3. ASSUME NEW k \in 1..Len(recent')
      PROVE  /\ \E f \in journal : f.kind = "posted" /\ f.id = recent'[k]
             /\ Cardinality(PostedAfter(recent'[k])) = Len(recent') - k
  <2>1. CASE k = Len(recent')
    BY <2>1, <1>1, <1>0, <1>f, <1>t
  <2>2. CASE k # Len(recent')
    <3>1. k + d \in 1..Len(recent) /\ recent'[k] = recent[k + d]
      BY <2>2, <1>1
    <3>2. Cardinality(PostedAfter(recent'[k])) = Len(recent) - (k + d) + 1
      BY <3>1, <1>w
    <3>3. Len(recent) - (k + d) + 1 = Len(recent') - k
      BY <1>1, <1>t
    <3> QED
      BY <3>1, <3>2, <3>3, <1>w
  <2> QED
    BY <2>1, <2>2
<1> QED
  BY <1>j, <1>w, <1>2, <1>3, <1>p DEF Window

-----------------------------------------------------------------------------
\* A step of the handler, or its end, that leaves tables, cache and fan-out alone.
LEMMA FanoutQuiet ==
  ASSUME FanoutInv, SettledInv', DeliveryInv',
         UNCHANGED <<journal, outbox, late, delivered, recent, members>>,
         cmd'.stage \notin {"commit", "tail"}, ~(cmd.stage = "tail" /\ cmd.op = "post"),
         cmd'.stage = "idle" \/ (cmd.stage # "idle" /\ cmd'.op = cmd.op /\ cmd'.user = cmd.user)
  PROVE  FanoutInv'
<1>1. OwnEvent' /\ Author'
  BY DEF FanoutInv, OwnEvent, Author
<1>2. JobsToMembers' /\ SentToMembers'
  BY FanoutStill DEF FanoutInv
<1>3. Window'
  BY WindowStill DEF FanoutInv, Lag
<1> QED
  BY <1>1, <1>2, <1>3 DEF FanoutInv

LEMMA FanoutAccepted ==
  ASSUME FanoutInv, SettledInv', DeliveryInv', NEW op, NEW s, NEW u, NEW t, NEW r,
         Accept(NewCommand(op, s, u, t, r)), s \notin {"commit", "tail"},
         op \in {"leave", "post"} => u \in members
  PROVE  FanoutInv'
<1>1. /\ UNCHANGED <<journal, outbox, late, delivered, recent, members>>
      /\ cmd.stage = "idle" /\ cmd'.stage = s /\ cmd'.op = op /\ cmd'.user = u
  BY DEF Accept, NewCommand, tables, cache, fanout
<1>2. OwnEvent' /\ Author'
  BY <1>1 DEF OwnEvent, Author
<1>3. JobsToMembers' /\ SentToMembers'
  BY <1>1, FanoutStill DEF FanoutInv
<1>4. Window'
  BY <1>1, WindowStill DEF FanoutInv, Lag
<1> QED
  BY <1>2, <1>3, <1>4 DEF FanoutInv

LEMMA FanoutExecuted ==
  ASSUME FanoutInv, SettledInv', DeliveryInv', cmd.stage = "run", NEW w, NEW k, Executed(w, k),
         k = IF cmd.op \in EventOps THEN EventKind[cmd.op] ELSE "none"
  PROVE  FanoutInv'
<1>t. TypeOK /\ cmd \in Command
  BY DEF FanoutInv, SettledInv, TypeOK
<1>1. /\ UNCHANGED <<journal, outbox, late, delivered, recent, members>>
      /\ cmd'.stage = "commit" /\ cmd'.op = cmd.op /\ cmd'.user = cmd.user
  BY <1>t DEF Executed, Proceed, Command, tables, cache, fanout
<1>2. ASSUME cmd.op \in EventOps PROVE OwnEvent'
  <2>1. k # "none" /\ k = EventKind[cmd.op]
    BY <1>2 DEF EventOps, EventKind
  <2>2. /\ minted' = minted + 1
        /\ tx'.events = {[id |-> minted + 1, kind |-> k, user |-> cmd.user]}
    BY <2>1 DEF Executed
  <2>3. \A f \in journal : f.id < minted + 1
    BY <1>t, DeliveryTypes DEF FanoutInv, DeliveryInv, JournalInv, IdsBounded
  <2> QED
    BY <1>1, <1>2, <2>1, <2>2, <2>3 DEF OwnEvent
<1>3. ASSUME cmd.op \notin EventOps PROVE OwnEvent'
  BY <1>1, <1>3 DEF OwnEvent, Executed
<1>4. OwnEvent' /\ Author'
  BY <1>1, <1>2, <1>3 DEF FanoutInv, Author
<1>5. JobsToMembers' /\ SentToMembers'
  BY <1>1, FanoutStill DEF FanoutInv
<1>6. Window'
  BY <1>1, WindowStill DEF FanoutInv, Lag
<1> QED
  BY <1>4, <1>5, <1>6 DEF FanoutInv

LEMMA FanoutCommit ==
  ASSUME FanoutInv, SettledInv', DeliveryInv', Commit
  PROVE  FanoutInv'
<1>t. cmd \in Command
  BY DEF FanoutInv, SettledInv, TypeOK
<1>1. /\ UNCHANGED <<outbox, late, delivered, recent, members, minted, tx>>
      /\ journal' = journal \cup tx.events
      /\ cmd.stage = "commit" /\ cmd'.stage = "tail" /\ cmd'.op = cmd.op /\ cmd'.user = cmd.user
  BY <1>t DEF Commit, Proceed, Command, cache, fanout
<1>2. OwnEvent' /\ Author'
  BY <1>1 DEF FanoutInv, OwnEvent, Author
<1>3. JobsToMembers' /\ SentToMembers'
  BY <1>1, FanoutCommitted
<1>4. Window'
  BY <1>1, WindowCommitted
<1> QED
  BY <1>2, <1>3, <1>4 DEF FanoutInv

\* The tail of a membership command or of a message.
LEMMA FanoutTail ==
  ASSUME FanoutInv, SettledInv', DeliveryInv', JoinTail \/ LeaveTail \/ PostTail
  PROVE  FanoutInv'
<1>1. /\ cmd.stage = "tail" /\ journal' = journal /\ cmd'.stage = "idle"
      /\ JoinTail \/ LeaveTail => recent' = recent /\ cmd.op \in {"join", "leave"}
  BY IdleFields DEF JoinTail, LeaveTail, PostTail, Answer, tables
<1>2. OwnEvent' /\ Author'
  BY <1>1 DEF OwnEvent, Author
<1>3. JobsToMembers' /\ SentToMembers'
  <2>1. CASE JoinTail
    <3>1. members \cup {cmd.user} = Roster(role) \cup {cmd.user}
      BY <2>1 DEF JoinTail, FanoutInv, SettledInv, Tailed
    <3> QED
      BY <2>1, <3>1, <1>1, FanoutEnqueued DEF JoinTail
  <2>2. CASE LeaveTail
    <3>1. members = Roster(role) \cup {cmd.user}
      BY <2>2 DEF LeaveTail, FanoutInv, SettledInv, Tailed, Author
    <3> QED
      BY <2>2, <3>1, <1>1, FanoutEnqueued DEF LeaveTail
  <2>3. CASE PostTail
    <3>1. members = Roster(role) \cup {cmd.user}
      BY <2>3 DEF PostTail, FanoutInv, SettledInv, Tailed, Author
    <3> QED
      BY <2>3, <3>1, <1>1, FanoutEnqueued DEF PostTail
  <2> QED
    BY <2>1, <2>2, <2>3
<1>4. Window'
  <2>1. CASE PostTail
    BY <2>1, <1>1, WindowRemembers
  <2>2. CASE JoinTail \/ LeaveTail
    <3>1. Lag' = Lag
      BY <2>2, <1>1 DEF Lag
    <3> QED
      BY <2>2, <3>1, <1>1, WindowStill DEF FanoutInv
  <2> QED
    BY <2>1, <2>2
<1> QED
  BY <1>2, <1>3, <1>4 DEF FanoutInv

LEMMA FanoutInit == Init => FanoutInv
<1> SUFFICES ASSUME Init PROVE FanoutInv
  OBVIOUS
<1>1. /\ cmd.stage = "idle" /\ outbox = <<>> /\ recent = <<>> /\ late = {}
      /\ \A u \in Users : delivered[u] = <<>>
  BY IdleFields DEF Init
<1>2. OwnEvent /\ Author /\ JobsToMembers /\ SentToMembers
  BY <1>1 DEF OwnEvent, Author, JobsToMembers, SentToMembers, Knows
<1>3. IsFiniteSet(journal)
  BY FS_Singleton DEF Init
<1>4. Len(recent) <= MaxRecent /\ 1..Len(recent) = {}
  BY <1>1, SizesAssumption
<1>5. Window
  BY <1>3, <1>4 DEF Window
<1> QED
  BY <1>2, <1>5, SettledInit, DeliveryInit DEF FanoutInv

LEMMA FanoutStep == FanoutInv /\ [Next]_vars /\ ~doubted' => FanoutInv'
<1> SUFFICES ASSUME FanoutInv, [Next]_vars, ~doubted' PROVE FanoutInv'
  OBVIOUS
<1>i. SettledInv' /\ DeliveryInv'
  BY SettledStep, DeliveryStep DEF FanoutInv
<1>t. TypeOK /\ cmd \in Command /\ doubt = {}
  BY DEF FanoutInv, SettledInv, Settled, TypeOK
<1>a. Answer => cmd'.stage = "idle"
  BY IdleFields DEF Answer
<1>b. cmd.stage # "idle" => up
  BY DEF FanoutInv, SettledInv, Busy
<1> USE DEF tables, cache, fanout, calls
<1>1. CASE Activate \/ Passivate \/ Crash
  <2>1. journal' = journal /\ recent' = <<>> /\ cmd'.stage = "idle"
    BY <1>1, <1>b, IdleFields DEF Activate, Passivate, Crash
  <2>2. OwnEvent' /\ Author'
    BY <2>1 DEF OwnEvent, Author
  <2>3. JobsToMembers' /\ SentToMembers'
    <3>1. CASE Activate
      BY <3>1, <2>1, FanoutStill DEF FanoutInv, Activate
    <3>2. CASE Passivate
      <4>1. UNCHANGED calls /\ Shrinks(0)
        BY <3>2, <1>t, PassivateCuts, CutShrinks
      <4> QED
        BY <2>1, <4>1, FanoutDropped
    <3>3. CASE Crash
      <4>1. outbox' = <<>> /\ Shrinks(0)
        BY <3>3 DEF Crash, Shrinks
      <4> QED
        BY <2>1, <3>3, <4>1, CrashOutcome, FanoutDropped
    <3> QED
      BY <1>1, <3>1, <3>2, <3>3
  <2>4. Window'
    BY <2>1, WindowEmpty DEF FanoutInv
  <2> QED
    BY <2>2, <2>3, <2>4, <1>i DEF FanoutInv
<1>3. CASE Arrive
  <2>1. ASSUME NEW u \in Users, Join(u) PROVE FanoutInv'
    BY <2>1, <1>i, FanoutAccepted DEF Join
  <2>2. ASSUME NEW u \in Users, Leave(u) PROVE FanoutInv'
    BY <2>2, <1>i, FanoutAccepted DEF Leave
  <2>3. ASSUME NEW u \in Users, PostMessage(u) PROVE FanoutInv'
    BY <2>3, <1>i, FanoutAccepted DEF PostMessage
  <2>4. ASSUME NEW a \in Users, NEW t \in Users, NEW r \in Roles, SetMemberRole(a, t, r)
        PROVE  FanoutInv'
    BY <2>4, <1>i, FanoutAccepted DEF SetMemberRole
  <2>5. ASSUME NEW a \in Users, NEW t \in Users, TransferOwnership(a, t) PROVE FanoutInv'
    BY <2>5, <1>i, FanoutAccepted DEF TransferOwnership
  <2> QED
    BY <1>3, <2>1, <2>2, <2>3, <2>4, <2>5 DEF Arrive
<1>4. CASE ReadActor \/ ReadTarget \/ Submit
  <2>1. /\ UNCHANGED <<journal, outbox, late, delivered, recent, members>>
        /\ cmd.stage \notin {"idle", "tail"}
    BY <1>4 DEF ReadActor, ReadTarget, Submit
  <2>2. \/ cmd'.stage = "idle"
        \/ cmd'.stage \in {"readTarget", "submit", "run"} /\ cmd'.op = cmd.op /\ cmd'.user = cmd.user
    BY <1>4, <1>a, <1>t DEF ReadActor, ReadTarget, Submit, Proceed, Command
  <2> QED
    BY <2>1, <2>2, <1>i, FanoutQuiet
<1>5. CASE Rollback \/ RoleTail
  <2>1. /\ UNCHANGED <<journal, outbox, late, delivered, recent, members>> /\ cmd'.stage = "idle"
        /\ ~(cmd.stage = "tail" /\ cmd.op = "post")
    BY <1>5, <1>a DEF Rollback, RoleTail
  <2> QED
    BY <2>1, <1>i, FanoutQuiet
<1>6. ASSUME Refused, cmd.stage = "run" PROVE FanoutInv'
  <2>1. UNCHANGED <<journal, outbox, late, delivered, recent, members>> /\ cmd'.stage = "idle"
    BY <1>6, <1>a DEF Refused
  <2> QED
    BY <2>1, <1>6, <1>i, FanoutQuiet
<1>7. CASE RunJoin \/ RunLeave \/ RunPost \/ RunSetRole \/ RunTransfer
  <2>0. cmd.stage = "run"
    BY <1>7 DEF RunJoin, RunLeave, RunPost, RunSetRole, RunTransfer
  <2>1. CASE Refused
    BY <2>0, <2>1, <1>6
  <2>2. CASE ~Refused
    <3>1. PICK w, k : /\ Executed(w, k)
                      /\ k = IF cmd.op \in EventOps THEN EventKind[cmd.op] ELSE "none"
      BY <1>7, <2>2 DEF RunJoin, RunLeave, RunPost, RunSetRole, RunTransfer, EventOps, EventKind
    <3> QED
      BY <3>1, <2>0, <1>i, FanoutExecuted
  <2> QED
    BY <2>1, <2>2
<1>8. CASE Commit
  BY <1>8, <1>i, FanoutCommit
<1>9. CASE CommitInDoubt \/ Resolve
  BY <1>9, <1>t DEF CommitInDoubt, LeaveInDoubt, Resolve
<1>10. CASE JoinTail \/ LeaveTail \/ PostTail
  BY <1>10, <1>i, FanoutTail
<1>11. CASE Work \/ (\E a \in late : LateDelivery(a)) \/ UNCHANGED vars
  <2>1. UNCHANGED <<journal, recent, members, minted, cmd, tx>>
    BY <1>11 DEF Work, WorkerPanic, Deliver, AttemptFails, LateDelivery, vars
  <2>2. OwnEvent' /\ Author'
    BY <2>1 DEF FanoutInv, OwnEvent, Author
  <2>3. Window'
    BY <2>1, WindowStill DEF FanoutInv, Lag
  <2>4. JobsToMembers' /\ SentToMembers'
    <3>1. CASE UNCHANGED vars
      BY <3>1, FanoutStill DEF FanoutInv, vars
    <3>2. CASE WorkerPanic
      BY <3>2, <1>t, TailShrinks, FanoutDropped DEF WorkerPanic
    <3>3. ASSUME NEW u \in Users, Deliver(u) \/ AttemptFails(u) PROVE JobsToMembers' /\ SentToMembers'
      BY <3>3, <2>1, AttemptEnds, FanoutAttempt
    <3>4. ASSUME NEW a \in late, LateDelivery(a) PROVE JobsToMembers' /\ SentToMembers'
      BY <3>4, FanoutLate
    <3> QED
      BY <1>11, <3>1, <3>2, <3>3, <3>4 DEF Work
  <2> QED
    BY <2>2, <2>3, <2>4, <1>i DEF FanoutInv
<1> QED
  BY <1>1, <1>3, <1>4, <1>5, <1>7, <1>8, <1>9, <1>10, <1>11 DEF Next, Handle

\* Until a commit is left in doubt, the messages recordMessage keeps in the
\* cache are a gap-free suffix of the durable messages, at most
\* maxRecentMessages of them, for any size of the window.
THEOREM WindowIsSuffix == Spec => []RecentIsSuffix
<1>1. FanoutInv => RecentIsSuffix
  <2> SUFFICES ASSUME FanoutInv, cmd.stage # "tail" PROVE RecentIsSuffix
    BY DEF RecentIsSuffix
  <2>1. Lag = 0 /\ Len(recent) \in Nat
    BY WindowTypes DEF Lag, FanoutInv, SettledInv
  <2>2. Len(recent) <= MaxRecent
    BY DEF FanoutInv, Window
  <2>3. ASSUME NEW k \in 1..Len(recent)
        PROVE  \E e \in journal :
                  /\ e.kind = "posted" /\ e.id = recent[k]
                  /\ Cardinality({f \in journal : f.kind = "posted" /\ f.id > e.id}) = Len(recent) - k
    <3>1. PICK e \in journal : e.kind = "posted" /\ e.id = recent[k]
      BY DEF FanoutInv, Window
    <3>2. Cardinality(PostedAfter(recent[k])) = Len(recent) - k
      BY <2>1 DEF FanoutInv, Window
    <3> QED
      BY <3>1, <3>2 DEF PostedAfter
  <2> QED
    BY <2>2, <2>3 DEF RecentIsSuffix
<1>2. doubted => RecentIsSuffix
  BY DEF RecentIsSuffix
<1> QED
  BY FanoutInit, FanoutStep, DoubtedStep, <1>1, <1>2, PTL DEF Spec

\* Until a commit is left in doubt, the fan-out child's jobs go to exactly the
\* members at their event (and the leaver), and no User grain receives an
\* event of a room it was not in, for any number of users.
THEOREM FanoutReachesMembers == Spec => []FanoutToMembers
<1>1. FanoutInv => FanoutToMembers
  <2> SUFFICES ASSUME FanoutInv PROVE FanoutToMembers
    OBVIOUS
  <2>1. ASSUME NEW u \in Users, NEW k \in 1..Len(delivered[u])
        PROVE  \E e \in journal : e.id = delivered[u][k].id /\ u \in Audience(e)
    <3>1. delivered[u][k].id \in Nat /\ delivered[u][k].try \in Nat
      BY DeliveryTypes DEF FanoutInv, DeliveryInv, JournalInv
    <3>2. Knows(u, delivered[u][k].id, delivered[u][k].try)
      BY DEF Knows
    <3> QED
      BY <3>1, <3>2 DEF FanoutInv, SentToMembers
  <2> QED
    BY <2>1 DEF FanoutInv, FanoutToMembers, JobsToMembers, Audience
<1>2. doubted => FanoutToMembers
  BY DEF FanoutToMembers
<1> QED
  BY FanoutInit, FanoutStep, DoubtedStep, <1>1, <1>2, PTL DEF Spec
=============================================================================
