------------------------------ MODULE RoomGrain ------------------------------
(***************************************************************************)
(* One room: the Room grain (internal/grain/room), the room_membership and *)
(* event tables it writes, and the fan-out child that delivers its events  *)
(* to the User grains.                                                     *)
(*                                                                         *)
(* A grain handles one command at a time.  A membership command runs one   *)
(* READ COMMITTED transaction under a 3 s deadline, a message one          *)
(* autocommitted INSERT under the same deadline; only after the write is   *)
(* acknowledged does the handler touch its cache and enqueue the fan-out.  *)
(* When the deadline fires while COMMIT is on its way the handler reports  *)
(* an error although the server may still commit, later: such a            *)
(* transaction is "in doubt".  It holds its row locks until it resolves.   *)
(*                                                                         *)
(* Display names, message texts and log lines are left out.  The cluster   *)
(* runs at most one activation of a room at a time (an external promise,   *)
(* docs/actors-and-grains.md).  Event ids keep only their order of minting.*)
(***************************************************************************)
EXTENDS Integers, Sequences, FiniteSets

CONSTANTS
    Users,      \* user ids, ordered as int64
    Founder,    \* the creator of the room, its first owner
    MaxRecent,  \* maxRecentMessages
    MaxTries,   \* attempts after which the cluster client gives a call up
    MaxEvents,  \* bound: event ids minted
    MaxDoubt,   \* bound: transactions in doubt at the same time
    MaxLate     \* bound: attempts that wait to be executed late

ASSUME UsersAssumption == Users \subseteq Nat /\ Founder \in Users
ASSUME SizesAssumption ==
    /\ MaxRecent \in Nat \ {0} /\ MaxTries \in Nat \ {0}
    /\ MaxEvents \in Nat \ {0} /\ MaxDoubt \in Nat /\ MaxLate \in Nat

VARIABLES
    role,       \* table room_membership: the role of each user, or "none"
    journal,    \* table event: the committed events of the room
    minted,     \* the last event id the Snowflake source gave out
    doubt,      \* executed transactions whose COMMIT nobody waits for any more
    doubted,    \* history: was a transaction ever left in doubt?
    up,         \* is the grain activated (and hydrated)?
    members,    \* roomState.members: the cached roster
    recent,     \* roomState.recentMessages: ids of the cached messages
    cmd,        \* the command the grain is handling
    tx,         \* its open transaction, once the row statement has run
    outbox,     \* the fan-out child's mailbox
    late,       \* attempts to notify a User grain that nobody waits for any more
    delivered   \* history: the attempts each User grain executed, in order

vars == <<role, journal, minted, doubt, doubted, up, members, recent, cmd, tx,
          outbox, late, delivered>>

\* groups of variables for UNCHANGED
tables == <<role, journal, doubt, doubted>>
cache  == <<up, members, recent>>
calls  == <<late, delivered>>
fanout == <<outbox, late, delivered>>

-----------------------------------------------------------------------------
Roles == {"member", "admin", "owner"}
Cell  == Roles \cup {"none"}        \* a row of the roster, or its absence
Write == Cell \cup {"keep"}         \* what a transaction does to a row

Event == [id : Nat, kind : {"joined", "left", "posted"}, user : Users]
Tx    == [writes : [Users -> Write], events : SUBSET Event]
Job   == [id : Nat, recipients : SUBSET Users, todo : SUBSET Users, try : Nat \ {0}]

\* An attempt to notify a User grain of event id, and its execution there:
\* late, if the child no longer waited for it.
Attempt == [user : Users, id : Nat, try : Nat \ {0}]
Receipt == [id : Nat, try : Nat \ {0}, late : BOOLEAN]

Ops    == {"none", "join", "leave", "post", "setrole", "transfer"}
Stages == {"idle", "readActor", "readTarget", "submit", "run", "commit", "tail"}
Command == [op : Ops, stage : Stages, user : Users, target : Users,
            to : Roles, seen : Cell, snap : [Users -> Cell]]

Untouched == [u \in Users |-> "keep"]
NoTx      == [writes |-> Untouched, events |-> {}]
NoSnap    == [u \in Users |-> "none"]

NewCommand(op, stage, u, t, r) ==
    [op |-> op, stage |-> stage, user |-> u, target |-> t, to |-> r,
     seen |-> "none", snap |-> NoSnap]

Idle == NewCommand("none", "idle", Founder, Founder, "member")

-----------------------------------------------------------------------------
(* The database.  A statement waits for a row that a transaction in doubt  *)
(* has written (READ COMMITTED row locks).                                 *)

Roster(table) == {u \in Users : table[u] # "none"}

Locked(u) == \E t \in doubt : t.writes[u] # "keep"

Committed(table, t) ==
    [u \in Users |-> IF t.writes[u] = "keep" THEN table[u] ELSE t.writes[u]]

Writing(u, r) == [Untouched EXCEPT ![u] = r]

\* The server finishes a commit that the grain gave up on ...
LateCommit(t) ==
    /\ role' = Committed(role, t)
    /\ journal' = journal \cup t.events
    /\ doubt' = doubt \ {t}
    /\ UNCHANGED <<doubted, minted, cache, cmd, tx, fanout>>

\* ... or finds the connection gone before it saw COMMIT.
LateAbort(t) ==
    /\ doubt' = doubt \ {t}
    /\ UNCHANGED <<role, journal, doubted, minted, cache, cmd, tx, fanout>>

-----------------------------------------------------------------------------
(* The lifecycle of an activation.                                         *)

\* Init: hydrate, then loadMembers.  A load error panics the activation and
\* the grain stays down.  The activation before is over once its child is.
Activate ==
    /\ ~up
    /\ outbox = <<>>
    /\ up' = TRUE
    /\ members' = Roster(role)
    /\ recent' = <<>>
    /\ UNCHANGED <<tables, minted, cmd, tx, fanout>>

\* The attempt the child waits for: one recipient at a time, in the order of
\* their ids.
NextRecipient(u) ==
    /\ outbox # <<>>
    /\ u \in Head(outbox).todo
    /\ \A v \in Head(outbox).todo : u <= v

Waiting(u) == [user |-> u, id |-> Head(outbox).id, try |-> Head(outbox).try]

\* It goes on without the child, and the User grain may execute it later.
LeaveBehind(u) ==
    /\ Cardinality(late) < MaxLate
    /\ late' = late \cup {Waiting(u)}

\* The receive timeout stops an idle grain and its child with it: the child
\* still ends the job it is at, the jobs in its mailbox go to the dead letters.
Passivate ==
    /\ up
    /\ cmd.stage = "idle"
    /\ up' = FALSE
    /\ members' = {}
    /\ recent' = <<>>
    /\ outbox' \in {<<>>} \cup (IF outbox = <<>> THEN {} ELSE {<<Head(outbox)>>})
    /\ UNCHANGED <<tables, minted, cmd, tx, calls>>

LeaveInDoubt ==
    /\ Cardinality(doubt) < MaxDoubt
    /\ doubt' = doubt \cup {tx}
    /\ doubted' = TRUE

\* The process dies in any state.  An executed transaction rolls back, or, if
\* COMMIT had been sent, is left in doubt; the child's call may go on.
Crash ==
    /\ up \/ outbox # <<>>
    /\ up' = FALSE
    /\ members' = {}
    /\ recent' = <<>>
    /\ outbox' = <<>>
    /\ cmd' = Idle
    /\ tx' = NoTx
    /\ \/ UNCHANGED <<doubt, doubted>>
       \/ cmd.stage = "commit" /\ LeaveInDoubt
    /\ \/ UNCHANGED late
       \/ \E u \in Users : NextRecipient(u) /\ LeaveBehind(u)
    /\ UNCHANGED <<role, journal, minted, delivered>>

-----------------------------------------------------------------------------
(* A command arrives: the guards every handler checks on its cache.  The   *)
(* rejections change nothing.                                              *)

\* roomState.recordMessage: the oldest message makes room for the new one.
Remember(i) ==
    Append(IF Len(recent) >= MaxRecent THEN Tail(recent) ELSE recent, i)

Accept(c) ==
    /\ up
    /\ cmd.stage = "idle"
    /\ cmd' = c
    /\ UNCHANGED <<tables, minted, cache, tx, fanout>>

\* A mutant: the cache is updated before the row is durable.
JoinCachesFirst(u) ==
    /\ up
    /\ cmd.stage = "idle"
    /\ u \notin members
    /\ minted < MaxEvents
    /\ cmd' = NewCommand("join", "run", u, u, "member")
    /\ members' = members \cup {u}
    /\ UNCHANGED <<tables, minted, up, recent, tx, fanout>>

Join(u) ==
    /\ u \notin members
    /\ minted < MaxEvents
    /\ Accept(NewCommand("join", "run", u, u, "member"))

Leave(u) ==
    /\ u \in members
    /\ minted < MaxEvents
    /\ Accept(NewCommand("leave", "submit", u, u, "member"))

\* A mutant: the message enters the hot window before it is durable.
PostMessageRecordsFirst(u) ==
    /\ up
    /\ cmd.stage = "idle"
    /\ u \in members
    /\ minted < MaxEvents
    /\ cmd' = NewCommand("post", "run", u, u, "member")
    /\ recent' = Remember(minted + 1)
    /\ UNCHANGED <<tables, minted, up, members, tx, fanout>>

PostMessage(u) ==
    /\ u \in members
    /\ minted < MaxEvents
    /\ Accept(NewCommand("post", "run", u, u, "member"))

SetMemberRole(a, t, r) ==
    /\ {a, t} \subseteq members
    /\ r # "owner"
    /\ Accept(NewCommand("setrole", "readActor", a, t, r))

TransferOwnership(a, t) ==
    /\ {a, t} \subseteq members
    /\ Accept(NewCommand("transfer", "readActor", a, t, "owner"))

-----------------------------------------------------------------------------
(* The transaction of the command.                                         *)

\* The handler returns, the transaction (if any) is rolled back.
Answer == cmd' = Idle /\ tx' = NoTx

\* The handler goes on to stage s.
Proceed(s) == cmd' = [cmd EXCEPT !.stage = s]

\* A mutant: an owner may be demoted by a role change.
CanSetRoleOfOwner(actorRole, targetRole, newRole) ==
    newRole # "owner" /\ actorRole \in {"owner", "admin"}

CanSetRole(actorRole, targetRole, newRole) ==
    /\ targetRole # "owner"
    /\ newRole # "owner"
    /\ actorRole \in {"owner", "admin"}

CanTransferOwnership(actorRole) == actorRole = "owner"

\* RecordRoleChange and RecordOwnershipTransfer read the actor's role first.
ReadActor ==
    /\ cmd.stage = "readActor"
    /\ LET r == role[cmd.user]
           goesOn == IF cmd.op = "setrole" THEN r # "none"
                     ELSE CanTransferOwnership(r) /\ cmd.user # cmd.target
       IN  \/ /\ goesOn
              /\ cmd' = [cmd EXCEPT !.stage = "readTarget", !.seen = r]
              /\ tx' = tx
           \/ ~goesOn /\ Answer
    /\ UNCHANGED <<tables, minted, cache, fanout>>

\* ... then the target's: the policy is decided on these two reads.
ReadTarget ==
    /\ cmd.stage = "readTarget"
    /\ LET r == role[cmd.target]
           goesOn == /\ r # "none"
                     /\ cmd.op = "setrole" => CanSetRole(cmd.seen, r, cmd.to)
       IN  \/ goesOn /\ Proceed("submit") /\ tx' = tx
           \/ ~goesOn /\ Answer
    /\ UNCHANGED <<tables, minted, cache, fanout>>

\* The row statement reaches the server and takes its snapshot.
Submit ==
    /\ cmd.stage = "submit"
    /\ cmd' = [cmd EXCEPT !.stage = "run", !.snap = role]
    /\ UNCHANGED <<tables, minted, cache, tx, fanout>>

\* The transaction has done its writes and, unless kind is "none", appended an event
\* with a fresh id; COMMIT is next.
Executed(writes, kind) ==
    /\ Proceed("commit")
    /\ IF kind = "none"
       THEN /\ tx' = [writes |-> writes, events |-> {}]
            /\ minted' = minted
       ELSE /\ tx' = [writes |-> writes,
                      events |-> {[id |-> minted + 1, kind |-> kind, user |-> cmd.user]}]
            /\ minted' = minted + 1
    /\ UNCHANGED <<tables, cache, fanout>>

Refused == Answer /\ UNCHANGED <<tables, minted, cache, fanout>>

\* addSQL: the primary key waits for an uncommitted insert of the same row.
RunJoin ==
    /\ cmd.stage = "run" /\ cmd.op = "join"
    /\ ~Locked(cmd.user)
    /\ \/ role[cmd.user] = "none" /\ Executed(Writing(cmd.user, "member"), "joined")
       \/ role[cmd.user] # "none" /\ Refused

\* The rows removeSQL deletes.
Removable(table, u) == table[u] \notin {"none", "owner"}

\* removeSQL: a row that the snapshot selects is locked, and looked at again
\* once the lock is granted.
RunLeave ==
    /\ cmd.stage = "run" /\ cmd.op = "leave"
    /\ LET u == cmd.user
       IN  /\ Removable(cmd.snap, u) => ~Locked(u)
           /\ \/ /\ Removable(cmd.snap, u) /\ Removable(role, u)
                 /\ Executed(Writing(u, "none"), "left")
              \/ /\ ~(Removable(cmd.snap, u) /\ Removable(role, u))
                 /\ Refused

RunPost ==
    /\ cmd.stage = "run" /\ cmd.op = "post"
    /\ Executed(Untouched, "posted")

\* updateRoleSQL: a plain write of the target's row.
RunSetRole ==
    /\ cmd.stage = "run" /\ cmd.op = "setrole"
    /\ LET t == cmd.target
       IN  /\ cmd.snap[t] # "none" => ~Locked(t)
           /\ \/ /\ cmd.snap[t] # "none" /\ role[t] # "none"
                 /\ Executed(Writing(t, cmd.to), "none")
              \/ /\ ~(cmd.snap[t] # "none" /\ role[t] # "none")
                 /\ Refused

\* transferOwnershipSQL: demote the owner and promote the target, or neither.
\* The partial unique index refuses a second owner.
RunTransfer ==
    /\ cmd.stage = "run" /\ cmd.op = "transfer"
    /\ LET o == cmd.user
           t == cmd.target
           selected == cmd.snap[t] # "none" /\ cmd.snap[o] = "owner"
           done == /\ selected /\ role[o] = "owner" /\ role[t] # "none"
                   /\ \A v \in Users \ {o, t} : role[v] # "owner"
       IN  /\ selected => ~Locked(o) /\ ~Locked(t)
           /\ \/ done /\ Executed([Writing(o, "admin") EXCEPT ![t] = "owner"], "none")
              \/ ~done /\ Refused

\* A mutant: the row write and the event are not one transaction.
RollbackKeepsRows ==
    /\ cmd.stage \in Stages \ {"idle", "tail"}
    /\ Answer
    /\ role' = Committed(role, tx)
    /\ UNCHANGED <<journal, doubt, doubted, minted, cache, fanout>>

\* A mutant: the row statement runs on a context without a deadline.
RollbackExceptRow ==
    /\ cmd.stage \in Stages \ {"idle", "run", "tail"}
    /\ Answer
    /\ UNCHANGED <<tables, minted, cache, fanout>>

\* The deadline fires, the database answers with an error, or no id can be
\* minted: the deferred Rollback undoes the transaction.
Rollback ==
    /\ cmd.stage \in Stages \ {"idle", "tail"}
    /\ Answer
    /\ UNCHANGED <<tables, minted, cache, fanout>>

Commit ==
    /\ cmd.stage = "commit"
    /\ role' = Committed(role, tx)
    /\ journal' = journal \cup tx.events
    /\ Proceed("tail")
    /\ UNCHANGED <<doubt, doubted, minted, cache, tx, fanout>>

\* The deadline fires with COMMIT (or the INSERT of a message) sent but not
\* acknowledged.
CommitInDoubt ==
    /\ cmd.stage = "commit"
    /\ LeaveInDoubt
    /\ Answer
    /\ UNCHANGED <<role, journal, minted, cache, fanout>>

-----------------------------------------------------------------------------
(* The tail of the handlers: cache, fan-out, reply.                        *)

Enqueue(e, recipients) ==
    /\ outbox' = Append(outbox, [id |-> e.id, recipients |-> recipients, todo |-> recipients,
                                 try |-> 1])
    /\ UNCHANGED calls

JoinTail ==
    /\ cmd.stage = "tail" /\ cmd.op = "join"
    /\ members' = members \cup {cmd.user}
    /\ \E e \in tx.events : Enqueue(e, members \cup {cmd.user})
    /\ Answer
    /\ UNCHANGED <<tables, minted, up, recent>>

\* A mutant: the recipients are read after the leaver is gone.
LeaveTailAfterRemoval ==
    /\ cmd.stage = "tail" /\ cmd.op = "leave"
    /\ members' = members \ {cmd.user}
    /\ \E e \in tx.events : Enqueue(e, members \ {cmd.user})
    /\ Answer
    /\ UNCHANGED <<tables, minted, up, recent>>

LeaveTail ==
    /\ cmd.stage = "tail" /\ cmd.op = "leave"
    /\ members' = members \ {cmd.user}
    /\ \E e \in tx.events : Enqueue(e, members)
    /\ Answer
    /\ UNCHANGED <<tables, minted, up, recent>>

PostTail ==
    /\ cmd.stage = "tail" /\ cmd.op = "post"
    /\ \E e \in tx.events : recent' = Remember(e.id) /\ Enqueue(e, members)
    /\ Answer
    /\ UNCHANGED <<tables, minted, up, members>>

RoleTail ==
    /\ cmd.stage = "tail" /\ cmd.op \in {"setrole", "transfer"}
    /\ Answer
    /\ UNCHANGED <<tables, minted, cache, fanout>>

-----------------------------------------------------------------------------
(* The fan-out child: one job at a time, one recipient at a time.  Each is  *)
(* a call of the cluster client, which tries again when an attempt gets no *)
(* answer in time.  An attempt without an answer may have been executed,   *)
(* may never be, or may be executed at any later time.                     *)

JobDone(u) ==
    LET rest == Head(outbox).todo \ {u}
    IN  outbox' = IF rest = {} THEN Tail(outbox)
                  ELSE [outbox EXCEPT ![1].todo = rest, ![1].try = 1]

Retry ==
    /\ Head(outbox).try < MaxTries
    /\ outbox' = [outbox EXCEPT ![1].try = @ + 1]

\* NotifyRoomEvent or ForwardMessage runs in the User grain.
Receive(a, isLate) ==
    delivered' = [delivered EXCEPT ![a.user] =
                     Append(@, [id |-> a.id, try |-> a.try, late |-> isLate])]

Deliver(u) ==
    /\ NextRecipient(u)
    /\ JobDone(u)
    /\ Receive(Waiting(u), FALSE)
    /\ UNCHANGED <<tables, minted, cache, cmd, tx, late>>

\* The attempt fails: the client tries again, or the child logs the error and
\* skips the recipient.
AttemptFails(u) ==
    /\ NextRecipient(u)
    /\ \/ Receive(Waiting(u), FALSE) /\ UNCHANGED late
       \/ LeaveBehind(u) /\ UNCHANGED delivered
       \/ UNCHANGED calls
    /\ Retry \/ JobDone(u)
    /\ UNCHANGED <<tables, minted, cache, cmd, tx>>

LateDelivery(a) ==
    /\ a \in late
    /\ late' = late \ {a}
    /\ Receive(a, TRUE)
    /\ UNCHANGED <<tables, minted, cache, cmd, tx, outbox>>

\* A mutant: the job that panicked is run again.
WorkerPanicRetries ==
    /\ outbox # <<>>
    /\ outbox' = [outbox EXCEPT ![1].todo = outbox[1].recipients, ![1].try = 1]
    /\ UNCHANGED <<tables, minted, cache, cmd, tx, calls>>

\* The worker panics: restarted under the same PID, the job is dropped and
\* the rest of the mailbox survives.
WorkerPanic ==
    /\ outbox # <<>>
    /\ outbox' = Tail(outbox)
    /\ UNCHANGED <<tables, minted, cache, cmd, tx, calls>>

-----------------------------------------------------------------------------
\* Room creation commits the room, the owner's row and the founding event in
\* one transaction; no grain is active yet.
Init ==
    /\ role = [u \in Users |-> IF u = Founder THEN "owner" ELSE "none"]
    /\ journal = {[id |-> 1, kind |-> "joined", user |-> Founder]}
    /\ minted = 1
    /\ doubt = {}
    /\ doubted = FALSE
    /\ up = FALSE
    /\ members = {}
    /\ recent = <<>>
    /\ cmd = Idle
    /\ tx = NoTx
    /\ outbox = <<>>
    /\ late = {}
    /\ delivered = [u \in Users |-> <<>>]

Arrive ==
    \/ \E u \in Users : Join(u) \/ Leave(u) \/ PostMessage(u)
    \/ \E a, t \in Users, r \in Roles : SetMemberRole(a, t, r)
    \/ \E a, t \in Users : TransferOwnership(a, t)

\* What the grain's goroutine does on its own once a command has arrived.
Handle ==
    \/ ReadActor \/ ReadTarget \/ Submit
    \/ RunJoin \/ RunLeave \/ RunPost \/ RunSetRole \/ RunTransfer
    \/ Rollback \/ Commit \/ CommitInDoubt
    \/ JoinTail \/ LeaveTail \/ PostTail \/ RoleTail

Resolve == \E t \in doubt : LateCommit(t) \/ LateAbort(t)

Work == WorkerPanic \/ \E u \in Users : Deliver(u) \/ AttemptFails(u)

Next ==
    \/ Activate \/ Passivate \/ Crash \/ Arrive \/ Handle \/ Resolve \/ Work
    \/ \E a \in late : LateDelivery(a)

Spec == Init /\ [][Next]_vars

\* The runtime schedules a grain with a message to handle and a child with a
\* job in its mailbox, the deadline of a statement fires and a call runs out of
\* time and attempts.  Nothing forces the server to resolve a transaction in
\* doubt, or a late attempt to be executed.
FairSpec == Spec /\ WF_vars(Handle) /\ WF_vars(Work)

-----------------------------------------------------------------------------
(* Properties                                                              *)

\* Every variable has its type.
TypeOK ==
    /\ role \in [Users -> Cell]
    /\ journal \subseteq Event
    /\ minted \in Nat
    /\ doubt \subseteq Tx
    /\ doubted \in BOOLEAN
    /\ up \in BOOLEAN
    /\ members \subseteq Users
    /\ recent \in Seq(Nat)
    /\ cmd \in Command
    /\ tx \in Tx
    /\ outbox \in Seq(Job)
    /\ late \subseteq Attempt
    /\ delivered \in [Users -> Seq(Receipt)]

\* Is u a member after the event with id i, by the timeline alone?
MemberAt(u, i) ==
    \E e \in journal :
        /\ e.user = u /\ e.kind = "joined" /\ e.id <= i
        /\ \A f \in journal : f.user = u /\ f.kind = "left" /\ f.id <= i => f.id < e.id

CacheMatchesRoster ==
    up /\ cmd.stage # "tail" => members = Roster(role)

\* schema.sql: at-least-one-owner is a domain invariant, and a partial unique
\* index refuses a second owner.  The room has exactly one owner.
OneOwner ==
    \E u \in Users : \A v \in Users : role[v] = "owner" <=> v = u

\* Fail-closed writes (room.go, Join: "a durable-write failure leaves no
\* cache/timeline drift"): whenever no committed command is waiting for its
\* tail, the cached roster of an active grain is the roster of the database,
\* unless a commit has been left in doubt.
RosterCached == doubted \/ CacheMatchesRoster

\* A room is never ownerless and never has two owners, whatever mix of
\* leaves, role changes and transfers runs (membership_repo.go, Remove),
\* unless a commit has been left in doubt.
OwnerKept == doubted \/ OneOwner

\* The hot window of messages is a gap-free suffix of the durable messages,
\* bounded by maxRecentMessages, unless a commit has been left in doubt.
RecentIsSuffix ==
    ~doubted /\ up /\ cmd.stage # "tail" =>
        /\ Len(recent) <= MaxRecent
        /\ \A k \in 1..Len(recent) :
               \E e \in journal :
                  /\ e.kind = "posted" /\ e.id = recent[k]
                  /\ Cardinality({f \in journal : f.kind = "posted" /\ f.id > e.id})
                       = Len(recent) - k

\* Unconditional fan-out: a job goes to exactly the users whom the timeline
\* shows as members at its event (and to the leaver), so a User grain never
\* receives an event of a room it was not in at that point of the timeline
\* (unless a commit has been left in doubt).
FanoutToMembers == doubted \/
    /\ \A k \in 1..Len(outbox) :
          \E e \in journal : /\ e.id = outbox[k].id
                             /\ outbox[k].recipients = {u \in Users : MemberAt(u, e.id)} \cup {e.user}
    /\ \A u \in Users : \A k \in 1..Len(delivered[u]) :
          \E e \in journal : e.id = delivered[u][k].id /\ (MemberAt(u, e.id) \/ e.user = u)

\* The row and its derived event commit together: replaying the timeline in
\* id order yields the roster, even with transactions in doubt, because a
\* membership event gets its id only once the row is locked.
JournalMatchesRoster ==
    \A u \in Users : role[u] # "none" <=> MemberAt(u, minted)

\* Receipt r comes after receipt q in the order of the child: a newer event, or
\* the same one in a later attempt.
Follows(q, r) == q.id < r.id \/ (q.id = r.id /\ q.try < r.try)

SameAttempt(q, r) == q.id = r.id /\ q.try = r.try

\* docs/adr/adr-015: "notifications are issued in the order the grain produced
\* them - best-effort".  What a User grain receives is durable.  What it
\* receives while the child waits for it follows everything received before,
\* so that only an attempt given up brings an event out of order, and no
\* attempt is executed twice, across time-outs, passivation, crashes and worker
\* restarts.
DeliveredInOrder ==
    \A u \in Users : LET got == delivered[u] IN
        /\ \A k \in 1..Len(got) : \E e \in journal : e.id = got[k].id
        /\ \A j, k \in 1..Len(got) : j < k =>
              IF got[k].late THEN ~SameAttempt(got[j], got[k])
              ELSE Follows(got[j], got[k])

\* A command is always answered: a statement that waits for a row lock, held
\* by a transaction that may never resolve, is cut off by its own deadline.
CommandAnswered == cmd.stage # "idle" ~> cmd.stage = "idle"

\* The mailbox of the fan-out child drains: no job blocks the ones behind it.
FanoutDrains == \A n \in 1..MaxEvents :
    (\E k \in 1..Len(outbox) : outbox[k].id = n) ~> ~(\E k \in 1..Len(outbox) : outbox[k].id = n)
=============================================================================
