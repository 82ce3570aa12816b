----------------------------- MODULE JoinedRooms -----------------------------
(***************************************************************************)
(* How a user's room commands travel: an HTTP handler of the gateway calls *)
(* the User grain, which calls the Room grain, which writes the membership *)
(* row, hands the fan-out to its child and answers.  On the way back the   *)
(* User grain brings its cache of joined rooms up to date.  Answers can be *)
(* lost and calls time out while the request is still waiting in the       *)
(* room's mailbox; either grain can go away at any time.                   *)
(*                                                                         *)
(* One user is modelled.  A room answers from the roster it read when it   *)
(* was activated and has kept since, not from the membership row: after a  *)
(* COMMIT whose outcome is in doubt the two may differ, and the row may    *)
(* still change by itself.  A room's mailbox is first in first out,        *)
(* whichever activation of the User grain has sent the request.            *)
(***************************************************************************)
EXTENDS Naturals, FiniteSets, Sequences

CONSTANTS
    Rooms,        \* rooms that exist or will be created
    Devices,      \* HTTP clients of the user
    MaxRequests,  \* bound: HTTP requests
    MaxFaults     \* bound: time-outs, resends, crashes and malformed answers

ASSUME JoinedRoomsAssumption ==
    /\ IsFiniteSet(Rooms) /\ IsFiniteSet(Devices)
    /\ MaxRequests \in Nat /\ MaxFaults \in Nat

VARIABLES
    rooms,    \* rooms that have been created
    row,      \* rooms the user has a membership row in
    pending,  \* the transaction in doubt on the row, if any, which holds its lock
    roster,   \* whether each Room grain has the user on its roster, or is down
    inbox,    \* the mailbox of each Room grain (requests of this user)
    reply,    \* the answer each Room grain is about to send
    jobs,     \* notifications for this user in the mailbox of each fan-out child
    notifying,\* the child waits for the User grain
    up,       \* the User grain is active
    coded,    \* its self reference has a public code (resolveSelf)
    joined,   \* its cache of joined rooms
    mailbox,  \* its mailbox
    call,     \* the call to a Room grain it is blocked on
    http,     \* the latest HTTP request of each device
    requests, \* number of HTTP requests so far
    faults,   \* number of faults so far
    unsettled,\* rooms that had a COMMIT in doubt since or at their activation
              \* (history variable)
    doubt     \* rooms with an outcome the grain has not learnt (history variable)

rosterVars == <<row, pending, roster, unsettled>>
roomVars == <<rooms, inbox, reply, jobs, notifying>>
grainVars == <<up, coded, joined, mailbox, call>>
vars == <<rosterVars, roomVars, grainVars, http, requests, faults, doubt>>

MembershipOps == {"join", "leave"}
RoomOps == MembershipOps \cup {"post", "role"}
Answers == {"ok", "already", "notMember", "error", "badRef"}

NoCall  == [id |-> 0, try |-> 0, op |-> "none", room |-> "none", answer |-> "none",
            settled |-> FALSE]
NoReply == [id |-> 0, try |-> 0, answer |-> "none", settled |-> FALSE]
NoHTTP  == [id |-> 0, op |-> "none", room |-> "none", status |-> "none"]

Init ==
    /\ rooms \in SUBSET Rooms
    /\ row \in SUBSET rooms
    /\ pending = [r \in Rooms |-> "none"]
    /\ roster = [r \in Rooms |-> "down"]
    /\ unsettled = {}
    /\ inbox = [r \in Rooms |-> <<>>]
    /\ reply = [r \in Rooms |-> NoReply]
    /\ jobs = [r \in Rooms |-> 0]
    /\ notifying = {}
    /\ up = FALSE
    /\ coded = FALSE
    /\ joined = {}
    /\ mailbox = <<>>
    /\ call = NoCall
    /\ http = [d \in Devices |-> NoHTTP]
    /\ requests = 0
    /\ faults = 0
    /\ doubt = {}

Fault == faults < MaxFaults /\ faults' = faults + 1

-----------------------------------------------------------------------------
(* The gateway.                                                            *)

\* The handler of device d calls the User grain; a malformed request changes
\* nothing.
Dispatch(d, op, grainOp, r) ==
    /\ http[d].status # "waiting"
    /\ requests < MaxRequests
    /\ requests' = requests + 1
    /\ http' = [http EXCEPT ![d] = [id |-> requests', op |-> op, room |-> r,
                                    status |-> "waiting"]]
    /\ mailbox' = Append(mailbox, [id |-> requests', op |-> grainOp, room |-> r])
    /\ UNCHANGED <<inbox, reply, jobs, notifying, up, coded, joined, call, faults>>

\* The code names a room in the database.
requireRoomID(r) == r \in rooms

\* PUT and DELETE of the membership, POST of a message.
RoomCommand(d, r, op) ==
    /\ requireRoomID(r)
    /\ op \in MembershipOps \cup {"post"}
    /\ Dispatch(d, op, op, r)
    /\ UNCHANGED <<rooms, rosterVars, doubt>>

\* PUT of a member's role, POST of a transfer of ownership.
RoleCommand(d, r) ==
    /\ requireRoomID(r)
    /\ Dispatch(d, "role", "role", r)
    /\ UNCHANGED <<rooms, rosterVars, doubt>>

handleRoomJoined(d) ==
    /\ Dispatch(d, "get", "get", "none")
    /\ UNCHANGED <<rooms, rosterVars, doubt>>

\* CreateRoom commits the room and its owner's row behind the grains' backs;
\* the handler then warms the cache with a JoinRoom.
handleRoomCreate(d, r) ==
    /\ r \notin rooms
    /\ rooms' = rooms \cup {r}
    /\ row' = row \cup {r}
    /\ doubt' = doubt \cup {r}
    /\ Dispatch(d, "create", "join", r)
    /\ UNCHANGED <<pending, roster, unsettled>>

\* The handler answers request n: success, or an error status after which the
\* device is as before.  A room is created whatever the warm-up said.
Answered(n, ok) ==
    [d \in Devices |->
        IF n = 0 \/ http[d].id # n THEN http[d]
        ELSE [NoHTTP EXCEPT !.status = IF ok \/ http[d].op = "create" THEN "ok" ELSE "none"]]

Abandoned(n) ==
    /\ n # call.id
    /\ \A k \in 1..Len(mailbox) : mailbox[k].id # n

\* 503: the User grain does not answer in time although it has the command ...
GatewayTimeout(d) ==
    /\ http[d].status = "waiting"
    /\ ~Abandoned(http[d].id)
    /\ Fault
    /\ http' = Answered(http[d].id, FALSE)
    /\ UNCHANGED <<rosterVars, roomVars, grainVars, requests, doubt>>

\* ... or because the command was lost with the activation.
GatewayUnreachable(d) ==
    /\ http[d].status = "waiting"
    /\ Abandoned(http[d].id)
    /\ http' = Answered(http[d].id, FALSE)
    /\ UNCHANGED <<rosterVars, roomVars, grainVars, requests, faults, doubt>>

-----------------------------------------------------------------------------
(* The life of a User grain.                                               *)

\* The row of the user as the directory finds it: with a public code, or
\* degraded when the lookup fails or the user is not there.
resolveSelf == BOOLEAN

\* The rooms of the user's rows.
ListJoinedRooms == row

Stray(r) == \E k \in 1..Len(inbox[r]) : inbox[r][k].op \in MembershipOps

\* Init: resolveSelf, then hydrateJoinedRooms.  A load failure panics and the
\* next message tries again.  What is still on its way to a room, or may
\* still be committed, will be news to the new activation.
Activate ==
    /\ ~up
    /\ mailbox # <<>>
    /\ up' = TRUE
    /\ coded' \in resolveSelf
    /\ joined' = ListJoinedRooms
    /\ doubt' = {r \in Rooms : Stray(r)} \cup unsettled
    /\ UNCHANGED <<rosterVars, roomVars, mailbox, call, http, requests, faults>>

GoDown ==
    /\ up' = FALSE
    /\ coded' = FALSE
    /\ joined' = {}
    /\ call' = NoCall

\* The receive timeout stops an idle grain.
Passivate ==
    /\ up /\ call = NoCall /\ mailbox = <<>>
    /\ GoDown
    /\ UNCHANGED <<rosterVars, roomVars, mailbox, http, requests, faults, doubt>>

\* The node is lost with everything the grain had in its mailbox.
CrashUser ==
    /\ up
    /\ Fault
    /\ GoDown
    /\ mailbox' = <<>>
    /\ UNCHANGED <<rosterVars, roomVars, http, requests, doubt>>

-----------------------------------------------------------------------------
(* The User grain's handlers.  A room command blocks the grain until the   *)
(* Room grain has answered or the call has failed.                         *)

Turn(op) == up /\ call = NoCall /\ mailbox # <<>> /\ Head(mailbox).op = op

\* A request of the call goes to the room.
SendRequest(c) ==
    inbox' = [inbox EXCEPT ![c.room] =
                 Append(@, [id |-> c.id, try |-> c.try, op |-> c.op, coded |-> coded])]

StartCall(op) ==
    /\ Turn(op)
    /\ call' = [NoCall EXCEPT !.id = Head(mailbox).id, !.op = op,
                              !.room = Head(mailbox).room]
    /\ SendRequest(call')
    /\ mailbox' = Tail(mailbox)
    /\ UNCHANGED <<rosterVars, rooms, reply, jobs, notifying, up, coded, http, requests, faults, doubt>>

JoinRoom == StartCall("join") /\ UNCHANGED joined

\* A mutant: the room leaves the cache before the Room grain has answered.
LeaveRoomCacheFirst ==
    /\ StartCall("leave")
    /\ joined' = joined \ {Head(mailbox).room}

LeaveRoom == StartCall("leave") /\ UNCHANGED joined

SendMessage == StartCall("post") /\ UNCHANGED joined

\* SetRoomMemberRole and TransferRoomOwnership.
ChangeRole == StartCall("role") /\ UNCHANGED joined

\* The handler returns to the gateway; joined and doubt are the caller's.
Return(ok) ==
    /\ http' = Answered(call.id, ok)
    /\ call' = NoCall
    /\ UNCHANGED <<rosterVars, roomVars, up, coded, mailbox, requests>>

\* An answer of success settles what the grain did not know of the room,
\* when the room itself knew.
Learnt == IF call.settled THEN doubt \ {call.room} ELSE doubt

\* The room, or the confirmation that the user is in it already.
JoinRoomTail ==
    /\ call.op = "join"
    /\ \/ /\ call.answer \in {"ok", "already"}
          /\ joined' = joined \cup {call.room}
          /\ doubt' = Learnt
          /\ Return(TRUE)
       \/ /\ call.answer = "badRef"    \* parseRoomRef: fail closed
          /\ doubt' = doubt \cup {call.room}
          /\ UNCHANGED joined
          /\ Return(FALSE)
       \/ /\ call.answer = "error"
          /\ UNCHANGED <<joined, doubt>>
          /\ Return(FALSE)
    /\ UNCHANGED faults

\* A mutant: absence is confirmed to the client but not to the cache.
LeaveRoomTailKeepsStale ==
    /\ call.op = "leave"
    /\ \/ /\ call.answer \in {"ok", "notMember"}
          /\ IF call.answer = "ok"
             THEN joined' = joined \ {call.room} ELSE UNCHANGED joined
          /\ doubt' = Learnt
          /\ Return(TRUE)
       \/ /\ call.answer = "error"
          /\ UNCHANGED <<joined, doubt>>
          /\ Return(FALSE)
    /\ UNCHANGED faults

LeaveRoomTail ==
    /\ call.op = "leave"
    /\ \/ /\ call.answer \in {"ok", "notMember"}
          /\ joined' = joined \ {call.room}
          /\ doubt' = Learnt
          /\ Return(TRUE)
       \/ /\ call.answer = "error"
          /\ UNCHANGED <<joined, doubt>>
          /\ Return(FALSE)
    /\ UNCHANGED faults

RelayVerdict ==
    /\ call.op \in {"post", "role"}
    /\ call.answer # "none"
    /\ Return(call.answer = "ok")
    /\ UNCHANGED <<joined, doubt, faults>>

\* logTransportError: the outcome of a membership command stays open.
TransportError ==
    /\ doubt' = IF call.op \in MembershipOps THEN doubt \cup {call.room} ELSE doubt
    /\ UNCHANGED joined
    /\ Return(FALSE)

\* The call times out with the request, or its answer, still on the way ...
RoomTimeout ==
    /\ call # NoCall
    /\ Fault
    /\ TransportError

\* Nothing will ever answer this call.
Unanswerable ==
    /\ call # NoCall /\ call.answer = "none"
    /\ LET mine(q) == q.id = call.id /\ q.try = call.try
       IN  /\ ~mine(reply[call.room])
           /\ \A k \in 1..Len(inbox[call.room]) : ~mine(inbox[call.room][k])

\* ... or the room was lost with the request in its mailbox.
RoomUnreachable ==
    /\ Unanswerable
    /\ TransportError
    /\ UNCHANGED faults

\* The grain client tries again within the call's deadline; it only listens
\* to the answer to its latest attempt.
Resend ==
    /\ call # NoCall /\ call.answer = "none"
    /\ Fault
    /\ call' = [call EXCEPT !.try = @ + 1]
    /\ SendRequest(call')
    /\ UNCHANGED <<rosterVars, rooms, reply, jobs, notifying, up, coded, joined, mailbox,
                   http, requests, doubt>>

\* GetJoinedRooms: the answer is the cache.
GetJoinedRooms ==
    /\ Turn("get")
    /\ http' = Answered(Head(mailbox).id, TRUE)
    /\ mailbox' = Tail(mailbox)
    /\ UNCHANGED <<rosterVars, roomVars, up, coded, joined, call, requests, faults, doubt>>

\* NotifyRoomEvent and ForwardMessage: passed on to the connections; the cache
\* is not touched.
NotifyRoomEvent ==
    /\ Turn("notify")
    /\ notifying' = notifying \ {Head(mailbox).room}
    /\ jobs' = [jobs EXCEPT ![Head(mailbox).room] = @ - 1]
    /\ mailbox' = Tail(mailbox)
    /\ UNCHANGED <<rosterVars, rooms, inbox, reply, up, coded, joined, call,
                   http, requests, faults, doubt>>

-----------------------------------------------------------------------------
(* The Room grains (modelled in full by RoomGrain) and their children.     *)

\* Init: the roster is read from the table, where a transaction in doubt is
\* not to be seen.
RoomActivates(r) ==
    /\ roster[r] = "down"
    /\ inbox[r] # <<>>
    /\ roster' = [roster EXCEPT ![r] = IF r \in row THEN "in" ELSE "out"]
    /\ unsettled' = IF pending[r] = "none" THEN unsettled \ {r} ELSE unsettled
    /\ UNCHANGED <<row, pending, roomVars, grainVars, http, requests, faults, doubt>>

Answer(r, q, a) ==
    reply' = [reply EXCEPT ![r] = [id |-> q.id, try |-> q.try, answer |-> a,
                                   settled |-> r \notin unsettled']]

\* By its roster the room has to write the row ...
WriteDue(r, q) ==
    \/ q.op = "join" /\ q.coded /\ roster[r] = "out"
    \/ q.op = "leave" /\ roster[r] = "in"

\* ... and can: nothing holds its lock, and it is absent (Add) or there
\* (Remove) as the roster has it.
Writable(r, q) == pending[r] = "none" /\ (q.op = "leave" <=> r \in row)

\* The write is committed: the roster follows, the notification of this user
\* is queued, the answer is success.
RecordsMembership(r, q) ==
    /\ WriteDue(r, q) /\ Writable(r, q)
    /\ row' = IF q.op = "join" THEN row \cup {r} ELSE row \ {r}
    /\ roster' = [roster EXCEPT ![r] = IF q.op = "join" THEN "in" ELSE "out"]
    /\ jobs' = [jobs EXCEPT ![r] = @ + 1]
    /\ UNCHANGED <<pending, unsettled, doubt>>
    /\ \/ Answer(r, q, "ok") /\ UNCHANGED faults
       \/ q.op = "join" /\ Answer(r, q, "badRef") /\ Fault

\* WithinTx loses the answer to its COMMIT: INTERNAL and a roster as before,
\* while the transaction may be committed at any time.
CommitInDoubt(r, q) ==
    /\ WriteDue(r, q) /\ Writable(r, q)
    /\ Fault
    /\ pending' = [pending EXCEPT ![r] = q.op]
    /\ unsettled' = unsettled \cup {r}
    /\ doubt' = doubt \cup {r}
    /\ UNCHANGED <<row, roster, jobs>>
    /\ Answer(r, q, "error")

\* The answers that leave the row alone: by the roster, or INTERNAL for a
\* write that is rolled back (a lock that is not free in time, a row that is
\* already there or already gone, the owner who cannot leave).
AnswersOnly(r, q) ==
    /\ UNCHANGED <<rosterVars, doubt>>
    /\ \/ /\ q.op = "join" /\ q.coded /\ roster[r] = "in"
          /\ \/ Answer(r, q, "already") /\ UNCHANGED faults
             \/ Answer(r, q, "badRef") /\ Fault
          /\ UNCHANGED jobs
       \/ /\ q.op = "leave" /\ roster[r] = "out"
          /\ Answer(r, q, "notMember")
          /\ UNCHANGED <<jobs, faults>>
       \/ /\ q.op = "post" /\ q.coded /\ roster[r] = "in"
          /\ jobs' = [jobs EXCEPT ![r] = @ + 1]
          /\ Answer(r, q, "ok")
          /\ UNCHANGED faults
       \/ q.op = "role" /\ Answer(r, q, "ok") /\ UNCHANGED <<jobs, faults>>
       \/ /\ WriteDue(r, q) \/ (q.op = "join" /\ ~q.coded) \/ q.op \in {"post", "role"}
          /\ Answer(r, q, "error")
          /\ UNCHANGED <<jobs, faults>>

\* The room handles its next request.
RoomHandles(r) ==
    /\ roster[r] # "down"
    /\ inbox[r] # <<>>
    /\ reply[r] = NoReply
    /\ inbox' = [inbox EXCEPT ![r] = Tail(@)]
    /\ LET q == Head(inbox[r])
       IN  RecordsMembership(r, q) \/ CommitInDoubt(r, q) \/ AnswersOnly(r, q)
    /\ UNCHANGED <<rooms, notifying, grainVars, http, requests>>

\* The database commits a transaction in doubt after all, or drops it.
LateCommit(r) ==
    /\ pending[r] # "none"
    /\ row' = IF pending[r] = "join" THEN row \cup {r} ELSE row \ {r}
    /\ pending' = [pending EXCEPT ![r] = "none"]
    /\ UNCHANGED <<roster, unsettled, roomVars, grainVars, http, requests, faults, doubt>>

LateAbort(r) ==
    /\ pending[r] # "none"
    /\ pending' = [pending EXCEPT ![r] = "none"]
    /\ UNCHANGED <<row, roster, unsettled, roomVars, grainVars, http, requests, faults, doubt>>

\* The answer reaches the User grain, if it still waits for this one.
Deliver(r) ==
    /\ reply' = [reply EXCEPT ![r] = NoReply]
    /\ call' = IF call.id = reply[r].id /\ call.try = reply[r].try
               THEN [call EXCEPT !.answer = reply[r].answer, !.settled = reply[r].settled]
               ELSE call
    /\ UNCHANGED <<rosterVars, rooms, inbox, jobs, notifying, up, coded, joined, mailbox,
                   http, requests, faults, doubt>>

\* A mutant: the handler waits for the fan-out of its own event.
RoomRepliesAfterFanout(r) ==
    /\ reply[r] # NoReply
    /\ jobs[r] = 0
    /\ Deliver(r)

RoomReplies(r) == reply[r] # NoReply /\ Deliver(r)

\* The child calls the User grain, which activates it if it has to.
ChildNotifies(r) ==
    /\ jobs[r] > 0
    /\ r \notin notifying
    /\ notifying' = notifying \cup {r}
    /\ mailbox' = Append(mailbox, [id |-> 0, op |-> "notify", room |-> r])
    /\ UNCHANGED <<rosterVars, rooms, inbox, reply, jobs, up, coded, joined, call,
                   http, requests, faults, doubt>>

\* The notification was lost with the User grain: logged and skipped.
ChildSkips(r) ==
    /\ r \in notifying
    /\ \A k \in 1..Len(mailbox) : mailbox[k].op = "notify" => mailbox[k].room # r
    /\ notifying' = notifying \ {r}
    /\ jobs' = [jobs EXCEPT ![r] = @ - 1]
    /\ UNCHANGED <<rosterVars, rooms, inbox, reply, grainVars, http, requests, faults, doubt>>

\* An activation of a room ends, and its child with it after the call it is
\* in: what the child has not told is lost.
RoomDown(r) ==
    /\ roster' = [roster EXCEPT ![r] = "down"]
    /\ jobs' = [jobs EXCEPT ![r] = IF r \in notifying THEN 1 ELSE 0]
    /\ UNCHANGED <<row, pending, unsettled, rooms, notifying, grainVars, http, requests, doubt>>

\* The receive timeout stops an idle room.
RoomPassivates(r) ==
    /\ roster[r] # "down" /\ inbox[r] = <<>> /\ reply[r] = NoReply
    /\ RoomDown(r)
    /\ UNCHANGED <<inbox, reply, faults>>

\* The node of a room is lost with its mailbox, its answer and its child.
CrashRoom(r) ==
    /\ roster[r] # "down" \/ inbox[r] # <<>> \/ jobs[r] > 0
    /\ Fault
    /\ inbox' = [inbox EXCEPT ![r] = <<>>]
    /\ reply' = [reply EXCEPT ![r] = NoReply]
    /\ RoomDown(r)

-----------------------------------------------------------------------------
Request ==
    \E d \in Devices :
        \/ \E r \in Rooms, op \in RoomOps : RoomCommand(d, r, op)
        \/ \E r \in Rooms : RoleCommand(d, r) \/ handleRoomCreate(d, r)
        \/ handleRoomJoined(d)

Grain ==
    \/ Activate
    \/ JoinRoom \/ LeaveRoom \/ SendMessage \/ ChangeRole
    \/ JoinRoomTail \/ LeaveRoomTail \/ RelayVerdict \/ RoomUnreachable
    \/ GetJoinedRooms \/ NotifyRoomEvent

Room == \E r \in Rooms :
    RoomActivates(r) \/ RoomHandles(r) \/ RoomReplies(r) \/ ChildNotifies(r) \/ ChildSkips(r)

Gateway == \E d \in Devices : GatewayUnreachable(d)

Faults ==
    \/ CrashUser \/ RoomTimeout \/ Resend
    \/ \E d \in Devices : GatewayTimeout(d)
    \/ \E r \in Rooms : CrashRoom(r)

Database == \E r \in Rooms : LateCommit(r) \/ LateAbort(r)

Idle == Passivate \/ \E r \in Rooms : RoomPassivates(r)

Next == Request \/ Grain \/ Room \/ Gateway \/ Database \/ Idle \/ Faults

Spec == Init /\ [][Next]_vars

\* The runtime schedules actors with mail, and a call to an actor that is
\* gone fails.  No time-out is required of a call somebody can still answer,
\* and nobody waits for a transaction in doubt to end.
FairSpec == Spec /\ WF_vars(Grain) /\ WF_vars(Room) /\ WF_vars(Gateway)

-----------------------------------------------------------------------------
(* Properties                                                              *)

\* Every variable has its type.
TypeOK ==
    /\ rooms \subseteq Rooms /\ row \subseteq rooms /\ joined \subseteq rooms
    /\ notifying \subseteq Rooms /\ doubt \subseteq Rooms /\ unsettled \subseteq Rooms
    /\ pending \in [Rooms -> {"none", "join", "leave"}]
    /\ roster \in [Rooms -> {"down", "in", "out"}]
    /\ up \in BOOLEAN /\ coded \in BOOLEAN
    /\ requests \in 0..MaxRequests /\ faults \in 0..MaxFaults
    /\ call.answer \in Answers \cup {"none"}
    /\ \A r \in Rooms : jobs[r] \in Nat

\* GET /rooms/joined tells the truth: the cached set of an active User grain
\* agrees with the membership rows on every room except the one a call is
\* open on and those with an outcome the grain never learnt: a lost answer,
\* a failed warm-up, a request of an earlier activation still on its way, a
\* COMMIT in doubt until a room activated after it has answered with success.
\* Commands of several devices, reactivations and crashes do not disturb it.
CacheAgrees ==
    up => \A r \in Rooms \ doubt : call.room # r => (r \in joined <=> r \in row)

\* A PUT or DELETE of the membership of room r is answered with success.
Succeeds(d, r) ==
    /\ http[d].op \in MembershipOps /\ http[d].room = r
    /\ http[d].status = "waiting" /\ http'[d].status = "ok"

\* ADR-010: "Clients must retry ambiguous membership commands to heal".  A PUT
\* or DELETE of the membership that is answered with success has healed: row
\* and cache both show what was asked, whatever answers were lost before, and
\* neither an earlier request nor the database can undo it - provided the room
\* that answered had no COMMIT in doubt since, or at, its activation: such a room
\* answers ROOM_ALREADY_MEMBER from a roster that a DELETE in doubt has not
\* changed, and the DELETE may commit after that answer.
SuccessHeals ==
    [][\A d \in Devices, r \in Rooms :
          Succeeds(d, r) /\ call.settled
          => /\ r \in row' <=> http[d].op = "join"
             /\ r \in joined' <=> http[d].op = "join"
             /\ r \notin doubt'
             /\ ~Stray(r)'
             /\ pending'[r] = "none"]_vars

\* Every HTTP request is answered although the User grain blocks on the Room
\* grain and the room's child calls the User grain: the three never wait in
\* a circle, so that no time-out is needed to get out of one.
RequestAnswered ==
    \A d \in Devices : http[d].status = "waiting" ~> http[d].status # "waiting"
=============================================================================
