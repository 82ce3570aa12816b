------------------------------- MODULE Session -------------------------------
(***************************************************************************)
(* The root state machine of the terminal client: dialogs, login, the      *)
(* WebSocket and its read loop, the room calls, and how a session ends and *)
(* the next one begins.  Every tea.Cmd runs in a goroutine of its own and  *)
(* its message arrives whenever it likes: after other messages, after the  *)
(* dialog that sent it was closed, after the session it belongs to.        *)
(*                                                                         *)
(* Sessions are numbered by sessionGeneration; a token, a socket and a     *)
(* read loop have the number of the login they come from.  What the panes  *)
(* show is represented by the session it belongs to, 0 for nothing.        *)
(* Scrollback is in module Timeline; filter and paging of the search       *)
(* dialog are left out.                                                    *)
(***************************************************************************)
EXTENDS Naturals

CONSTANT MaxKeys    \* bound: keystrokes that start something

ASSUME SessionAssumption == MaxKeys \in Nat

VARIABLES
    gen,      \* sessionGeneration
    token,    \* the session of m.token
    conn,     \* the session of m.conn
    modal,    \* the open dialog: its kind, what it waits for and its number
    opened,   \* dialogs opened so far
    rooms,    \* roomsState: loading, load error, its session, a room armed for leaving
    active,   \* the session that activated activeRoomID
    bucket,   \* the session the scrollback buckets have events of
    cmds,     \* commands and messages on their way to Update
    socks,    \* sockets that are open
    loops,    \* sockets with a running read loop
    closing,  \* sockets a close frame was sent on
    keys,     \* keystrokes so far
    done,     \* the program quits
    crossed   \* a dialog's message came when that dialog was gone (history variable)

screen == <<rooms, active, bucket>>
net == <<socks, loops, closing>>
vars == <<gen, token, conn, modal, opened, screen, cmds, net, keys, done, crossed>>

Sessions == 1..MaxKeys

DialogKinds == {"login", "register", "verify"}
RoomCalls == {"joined", "join", "create", "leave", "catalogue", "events", "send"}

\* A Cmd in flight: its kind, the generation and the dialog it was made in.
Cmd(kind, g, from) == [kind |-> kind, gen |-> g, from |-> from, n |-> keys]

LoadJoinedRoomsCmd == Cmd("joined", gen, 0)
LoadRoomsCmd(dialog) == Cmd("catalogue", gen, dialog)
LeaveRoomCmd == Cmd("leave", gen, 0)
LoadEventsCmd == Cmd("events", gen, 0)
SendMessageCmd == Cmd("send", gen, 0)
DialAndAuthCmd(g, dialog) == Cmd("dial", g, dialog)

\* Nothing is loaded when a load for the room is in flight (module Timeline).
beginBackfill == {{}, {LoadEventsCmd}}

NoModal == [kind |-> "none", waits |-> FALSE, id |-> 0]
NoRooms == [loading |-> FALSE, failed |-> FALSE, owner |-> 0, armed |-> FALSE]

\* main: New and OpenLoginModal.
Init ==
    /\ gen = 0 /\ token = 0 /\ conn = 0
    /\ modal = [kind |-> "login", waits |-> FALSE, id |-> 1]
    /\ opened = 1
    /\ rooms = NoRooms /\ active = 0 /\ bucket = 0
    /\ cmds = {}
    /\ socks = {} /\ loops = {} /\ closing = {}
    /\ keys = 0
    /\ done = FALSE
    /\ crossed = FALSE

hasLiveSession == token # 0 /\ conn # 0

liveRoomResult(g) == hasLiveSession /\ g = gen

Open(kind) ==
    /\ opened' = opened + 1
    /\ modal' = [kind |-> kind, waits |-> FALSE, id |-> opened']

-----------------------------------------------------------------------------
(* Keys.                                                                   *)

Key == ~done /\ keys < MaxKeys /\ keys' = keys + 1

\* The open dialog of this kind accepts keys.
Listening(kind) == modal.kind = kind /\ ~modal.waits

Dispatch(c) ==
    /\ cmds' = cmds \cup {c}
    /\ UNCHANGED <<gen, token, conn, opened, active, bucket, net, done, crossed>>

\* Enter in a login, register, verify or create-room dialog, and on a row of
\* the search dialog: the dialog locks until the answer is there.
Submit(dialog, kind) ==
    /\ Key
    /\ Listening(dialog)
    /\ modal' = [modal EXCEPT !.waits = TRUE]
    /\ Dispatch(Cmd(kind, gen, modal.id))
    /\ UNCHANGED rooms

LoginCmd == Submit("login", "login")
RegisterCmd == Submit("register", "register")
VerifyEmailCmd == Submit("verify", "verify")
JoinRoomCmd == Submit("search", "join")
CreateRoomCmd == Submit("createRoom", "create")

\* ctrl+n or esc: the dialog asks the root model for another one.
Ask(dialog, kind) ==
    /\ Key
    /\ Listening(dialog)
    /\ Dispatch(Cmd(kind, gen, modal.id))
    /\ UNCHANGED <<modal, rooms>>

\* "/" opens the search dialog, which loads the first page of the catalogue;
\* a pause in typing, or its "more rooms" row, loads again.
OpenSearch ==
    /\ Key
    /\ modal = NoModal
    /\ Open("search")
    /\ cmds' = cmds \cup {LoadRoomsCmd(opened')}
    /\ UNCHANGED <<gen, token, conn, screen, net, done, crossed>>

\* ctrl+r in the verify dialog, which stays editable.
ResendVerificationCmd == Ask("verify", "resend")

SearchAgain == Ask("search", "catalogue")

CloseSearch ==
    /\ Key
    /\ Listening("search")
    /\ modal' = NoModal
    /\ UNCHANGED <<gen, token, conn, opened, screen, cmds, net, done, crossed>>

\* Enter on a row of the Rooms pane: the room becomes the active one.
SwitchActiveRoom ==
    /\ Key
    /\ modal = NoModal /\ rooms.owner # 0
    /\ active' = rooms.owner
    /\ rooms' = [rooms EXCEPT !.armed = FALSE]
    /\ \E load \in beginBackfill : cmds' = cmds \cup load
    /\ UNCHANGED <<gen, token, conn, modal, opened, bucket, net, done, crossed>>

\* r after a failed load, and only then.
RetryLoad ==
    /\ Key
    /\ modal = NoModal
    /\ rooms.failed
    /\ rooms' = [rooms EXCEPT !.loading = TRUE, !.failed = FALSE, !.armed = FALSE]
    /\ Dispatch(LoadJoinedRoomsCmd)
    /\ UNCHANGED modal

\* The first x arms the room under the cursor, the second one leaves it.
LeaveKey ==
    /\ Key
    /\ modal = NoModal /\ rooms.owner # 0
    /\ rooms' = [rooms EXCEPT !.armed = ~@]
    /\ cmds' = IF rooms.armed THEN cmds \cup {LeaveRoomCmd} ELSE cmds
    /\ UNCHANGED <<gen, token, conn, modal, opened, active, bucket, net, done, crossed>>

\* Enter in the composer sends, scrolling above the oldest row loads.
Compose ==
    /\ Key
    /\ modal = NoModal /\ active # 0
    /\ Dispatch(SendMessageCmd)
    /\ UNCHANGED <<modal, rooms>>

fetchOlder ==
    /\ Key
    /\ modal = NoModal /\ active # 0
    /\ Dispatch(LoadEventsCmd)
    /\ UNCHANGED <<modal, rooms>>

CloseGracefully == closing' = IF conn = 0 THEN closing ELSE closing \cup {conn}

\* ctrl+c, a signal, esc in the login dialog.
Quit ==
    /\ ~done
    /\ done' = TRUE
    /\ CloseGracefully
    /\ UNCHANGED <<gen, token, conn, modal, opened, screen, cmds, socks, loops, keys, crossed>>

-----------------------------------------------------------------------------
(* The session family of messages.                                         *)

Handle(c, kind) == ~done /\ c \in cmds /\ c.kind = kind

Drop(c) ==
    /\ cmds' = cmds \ {c}
    /\ UNCHANGED <<gen, token, conn, modal, opened, screen>>

\* The answer finds its dialog gone, or another one in its place.
Crossing(c) == crossed' = (crossed \/ c.from # modal.id)

\* The open dialog gets the error; the one that waits is editable again.
ToModal(c, kinds) ==
    /\ cmds' = cmds \ {c}
    /\ modal' = IF modal.kind \in kinds THEN [modal EXCEPT !.waits = FALSE] ELSE modal
    /\ UNCHANGED <<gen, token, conn, opened, screen>>

LoginSucceeded(c) ==
    /\ Handle(c, "login")
    /\ gen' = gen + 1
    /\ token' = gen'
    /\ modal' = IF modal.kind = "login" THEN [modal EXCEPT !.waits = TRUE] ELSE modal
    /\ cmds' = (cmds \ {c}) \cup {DialAndAuthCmd(gen', modal.id)}
    /\ socks' = socks \cup {gen'}
    /\ Crossing(c)
    /\ UNCHANGED <<conn, opened, screen, loops, closing, keys, done>>

\* A wrong password, a malformed answer or no answer at all ...
LoginRejected(c) ==
    /\ Handle(c, "login")
    /\ ToModal(c, {"login"})
    /\ Crossing(c)
    /\ UNCHANGED <<net, keys, done>>

OpenFor(c, kind) ==
    /\ Open(kind)
    /\ cmds' = cmds \ {c}
    /\ Crossing(c)
    /\ UNCHANGED <<gen, token, conn, screen, net, keys, done>>

\* ... or an account that is not verified yet.
LoginPending(c) == Handle(c, "login") /\ OpenFor(c, "verify")

CreateAccountRequested(c) == Handle(c, "createAccount") /\ OpenFor(c, "register")

\* register.Cancelled and verify.Cancelled.
Cancelled(c) == Handle(c, "cancel") /\ OpenFor(c, "login")

RegisterSucceeded(c) == Handle(c, "register") /\ OpenFor(c, "verify")

RegisterRejected(c) ==
    /\ Handle(c, "register")
    /\ ToModal(c, {"register"})
    /\ Crossing(c)
    /\ UNCHANGED <<net, keys, done>>

VerifySucceeded(c) == Handle(c, "verify") /\ OpenFor(c, "login")

VerifyRejected(c) ==
    /\ Handle(c, "verify")
    /\ ToModal(c, {"verify"})
    /\ Crossing(c)
    /\ UNCHANGED <<net, keys, done>>

\* ResendSucceeded and its two failures: a notice in the dialog.
ResendAnswered(c) ==
    /\ Handle(c, "resend")
    /\ Drop(c)
    /\ UNCHANGED <<net, keys, done, crossed>>

\* A mutant: the connection handed over too late is dropped, not closed.
WSAuthStaleLeaks(c) ==
    /\ Handle(c, "dial")
    /\ c.gen # gen \/ modal.kind # "login"
    /\ Drop(c)
    /\ UNCHANGED <<net, keys, done, crossed>>

\* The handshake succeeded for a login that is no longer wanted.
WSAuthStale(c) ==
    /\ Handle(c, "dial")
    /\ c.gen # gen \/ modal.kind # "login"
    /\ socks' = socks \ {c.gen}
    /\ Drop(c)
    /\ UNCHANGED <<loops, closing, keys, done, crossed>>

\* A mutant: the buckets of the last session are kept.
WSAuthSucceededKeepsMessages(c) ==
    /\ Handle(c, "dial")
    /\ c.gen = gen /\ modal.kind = "login"
    /\ conn' = c.gen
    /\ modal' = NoModal
    /\ rooms' = [rooms EXCEPT !.loading = TRUE]
    /\ loops' = loops \cup {c.gen}
    /\ cmds' = (cmds \ {c}) \cup {LoadJoinedRoomsCmd}
    /\ UNCHANGED <<gen, token, opened, active, bucket, socks, closing, keys, done, crossed>>

WSAuthSucceeded(c) ==
    /\ Handle(c, "dial")
    /\ c.gen = gen /\ modal.kind = "login"
    /\ conn' = c.gen
    /\ modal' = NoModal
    /\ rooms' = [rooms EXCEPT !.loading = TRUE]
    /\ bucket' = 0
    /\ loops' = loops \cup {c.gen}
    /\ cmds' = (cmds \ {c}) \cup {LoadJoinedRoomsCmd}
    /\ UNCHANGED <<gen, token, opened, active, socks, closing, keys, done, crossed>>


\* WSAuthRejected, WSDialFailed and WSAuthTimedOut: the Cmd closed the socket.
WSAuthFailed(c) ==
    /\ Handle(c, "dial")
    /\ socks' = socks \ {c.gen}
    /\ \/ c.gen = gen /\ ToModal(c, {"login"})
       \/ c.gen # gen /\ Drop(c)
    /\ UNCHANGED <<loops, closing, keys, done, crossed>>

resetSession ==
    /\ token' = 0 /\ conn' = 0
    /\ rooms' = NoRooms /\ active' = 0 /\ bucket' = 0
    /\ UNCHANGED gen

WSDisconnected(c) ==
    /\ Handle(c, "disconnect")
    /\ \/ /\ c.gen = gen
          /\ resetSession
          /\ Open("login")
          /\ cmds' = cmds \ {c}
       \/ c.gen # gen /\ Drop(c)
    /\ UNCHANGED <<net, keys, done, crossed>>

handleSessionExpiry(c) ==
    /\ CloseGracefully
    /\ resetSession
    /\ Open("login")
    /\ cmds' = cmds \ {c}
    /\ UNCHANGED <<socks, loops, keys, done, crossed>>

-----------------------------------------------------------------------------
(* The rooms and chat families.                                            *)

Quiet == UNCHANGED <<net, keys, done, crossed>>

\* The result of an earlier session, or of one that has ended.
StaleResult(c) ==
    /\ ~done /\ c \in cmds /\ c.kind \in RoomCalls
    /\ ~liveRoomResult(c.gen)
    /\ Drop(c)
    /\ Quiet

\* 401 to any of the calls.
Unauthorized(c) ==
    /\ ~done /\ c \in cmds /\ c.kind \in RoomCalls
    /\ liveRoomResult(c.gen)
    /\ handleSessionExpiry(c)

JoinedRoomsLoaded(c) ==
    /\ Handle(c, "joined") /\ liveRoomResult(c.gen)
    /\ rooms' = [loading |-> FALSE, failed |-> FALSE, owner |-> c.gen, armed |-> FALSE]
    /\ cmds' = cmds \ {c}
    /\ UNCHANGED <<gen, token, conn, modal, opened, active, bucket>>
    /\ Quiet

JoinedRoomsLoadFailed(c) ==
    /\ Handle(c, "joined") /\ liveRoomResult(c.gen)
    /\ rooms' = [rooms EXCEPT !.loading = FALSE, !.failed = TRUE]
    /\ cmds' = cmds \ {c}
    /\ UNCHANGED <<gen, token, conn, modal, opened, active, bucket>>
    /\ Quiet

\* RoomJoined and RoomCreated: the room is activated, the list reloaded and
\* the room's history loaded.
RoomEntered(c) ==
    /\ ~done /\ c \in cmds /\ c.kind \in {"join", "create"}
    /\ liveRoomResult(c.gen)
    /\ active' = c.gen
    /\ modal' = NoModal
    /\ \E load \in beginBackfill :
          cmds' = (cmds \ {c}) \cup {LoadJoinedRoomsCmd} \cup load
    /\ UNCHANGED <<gen, token, conn, opened, rooms, bucket>>
    /\ Quiet

\* RoomJoinFailed, RoomsLoaded and RoomsLoadFailed make the search dialog
\* editable, RoomCreateFailed the create-room dialog.
RoomCallAnswered(c) ==
    /\ ~done /\ c \in cmds /\ c.kind \in {"join", "catalogue", "create"}
    /\ liveRoomResult(c.gen)
    /\ ToModal(c, IF c.kind = "create" THEN {"createRoom"} ELSE {"search"})
    /\ Quiet

\* RoomLeft: if the room was the active one, none is.
RoomLeft(c) ==
    /\ Handle(c, "leave") /\ liveRoomResult(c.gen)
    /\ active' \in {active, 0}
    /\ cmds' = (cmds \ {c}) \cup {LoadJoinedRoomsCmd}
    /\ UNCHANGED <<gen, token, conn, modal, opened, rooms, bucket>>
    /\ Quiet

\* RoomLeaveFailed, RoomEventsLoadFailed and the answers to a message: only
\* error rows change.
RoomCallReported(c) ==
    /\ ~done /\ c \in cmds /\ c.kind \in {"leave", "events", "send"}
    /\ liveRoomResult(c.gen)
    /\ Drop(c)
    /\ Quiet

\* RoomEventsLoaded: a page of the room's history enters its bucket.
RoomEventsLoaded(c) ==
    /\ Handle(c, "events") /\ liveRoomResult(c.gen)
    /\ bucket' = c.gen
    /\ cmds' = cmds \ {c}
    /\ UNCHANGED <<gen, token, conn, modal, opened, rooms, active>>
    /\ Quiet

\* roomsearch.CreateRoomRequested and createroom.Cancelled, both guarded by
\* the live session and the dialog that sent them.
SwapRoomDialog(c, kind, from, to) ==
    /\ Handle(c, kind)
    /\ \/ /\ hasLiveSession /\ modal.kind = from
          /\ Open(to)
          /\ cmds' = (cmds \ {c}) \cup
                     (IF to = "search" THEN {LoadRoomsCmd(opened')} ELSE {})
          /\ UNCHANGED <<gen, token, conn, screen>>
       \/ ~(hasLiveSession /\ modal.kind = from) /\ Drop(c)
    /\ Quiet

CreateRoomRequested(c) == SwapRoomDialog(c, "createRoom", "search", "createRoom")

CreateRoomCancelled(c) == SwapRoomDialog(c, "cancelRoom", "createRoom", "search")

-----------------------------------------------------------------------------
(* The read loop.                                                          *)

\* A frame of the current generation enters its bucket, also after the session
\* has been reset and before the next login.
WSFrameReceived(s) ==
    /\ ~done
    /\ s \in loops
    /\ bucket' = IF s = gen THEN s ELSE bucket
    /\ UNCHANGED <<gen, token, conn, modal, opened, rooms, active, cmds, net, keys, done, crossed>>

\* The peer closed, the network broke, a pong could not be written or the
\* program is over: the loop closes the socket and reports.
ReadLoopEnds(s) ==
    /\ s \in loops
    /\ loops' = loops \ {s}
    /\ socks' = socks \ {s}
    /\ cmds' = cmds \cup {[kind |-> "disconnect", gen |-> s, from |-> 0, n |-> 0]}
    /\ UNCHANGED <<gen, token, conn, modal, opened, screen, closing, keys, done, crossed>>

-----------------------------------------------------------------------------
Keystroke ==
    \/ LoginCmd \/ RegisterCmd \/ VerifyEmailCmd \/ JoinRoomCmd \/ CreateRoomCmd
    \/ Ask("login", "createAccount") \/ Ask("register", "cancel")
    \/ Ask("verify", "cancel") \/ Ask("search", "createRoom")
    \/ Ask("createRoom", "cancelRoom")
    \/ ResendVerificationCmd
    \/ OpenSearch \/ SearchAgain \/ CloseSearch
    \/ SwitchActiveRoom \/ RetryLoad \/ LeaveKey \/ Compose \/ fetchOlder

Answer(c) ==
    \/ LoginSucceeded(c) \/ LoginRejected(c) \/ LoginPending(c)
    \/ CreateAccountRequested(c) \/ Cancelled(c)
    \/ RegisterSucceeded(c) \/ RegisterRejected(c)
    \/ VerifySucceeded(c) \/ VerifyRejected(c) \/ ResendAnswered(c)
    \/ WSAuthStale(c) \/ WSAuthSucceeded(c) \/ WSAuthFailed(c)
    \/ WSDisconnected(c)
    \/ StaleResult(c) \/ Unauthorized(c)
    \/ JoinedRoomsLoaded(c) \/ JoinedRoomsLoadFailed(c)
    \/ RoomEntered(c) \/ RoomCallAnswered(c) \/ RoomLeft(c)
    \/ RoomCallReported(c) \/ RoomEventsLoaded(c)
    \/ CreateRoomRequested(c) \/ CreateRoomCancelled(c)

Deliver == \E c \in cmds : Answer(c)

ClosedByPeer == \E s \in closing : ReadLoopEnds(s)

Next ==
    \/ Keystroke \/ Deliver \/ Quit
    \/ \E s \in loops : WSFrameReceived(s) \/ ReadLoopEnds(s)

Spec == Init /\ [][Next]_vars

\* Every Cmd has a deadline, so that its message comes, and the server answers
\* a close frame.  Nothing makes the user press a key.
FairSpec == Spec /\ WF_vars(Deliver) /\ WF_vars(ClosedByPeer)

-----------------------------------------------------------------------------
(* Properties                                                              *)

\* Every variable has its type.
TypeOK ==
    /\ gen \in 0..MaxKeys /\ token \in 0..MaxKeys /\ conn \in 0..MaxKeys
    /\ modal.kind \in {"none", "search", "createRoom"} \cup DialogKinds
    /\ rooms.loading \in BOOLEAN /\ rooms.failed \in BOOLEAN /\ rooms.owner \in 0..MaxKeys
    /\ active \in 0..MaxKeys /\ bucket \in 0..MaxKeys
    /\ socks \subseteq Sessions /\ loops \subseteq Sessions /\ closing \subseteq Sessions

\* What the screen shows belongs to the session that is live: the rooms, the
\* active room and the scrollback come from its token and its socket, and the
\* socket it listens to is the one whose frames and disconnect pass the
\* generation check.  Late answers, frames and disconnects of earlier
\* sessions do not get in.  This ends where a dialog is answered after it was
\* gone (crossed): a login dialog over a live session replaces its socket.
OwnSession ==
    ~crossed /\ conn # 0 =>
        /\ conn = gen /\ token = gen
        /\ {rooms.owner, active, bucket} \subseteq {0, gen}

\* api/client.go, ReadLoopCmd: "The goroutine is the sole owner of conn.Close".
\* Every open socket belongs to a handshake on its way, or to a read loop
\* that serves the live session or has been told to close.  This ends where a
\* dialog is answered after it was gone (crossed): the handshake of a login over
\* a live session overwrites m.conn, and nobody closes the old socket.
SocketOwned ==
    ~done /\ ~crossed => \A s \in socks :
        \/ \E c \in cmds : c.kind = "dial" /\ c.gen = s
        \/ s \in loops /\ (s = conn \/ s \in closing)

\* The socket on the screen is not that of the token: of two logins under way
\* at once, one has handed over its socket and the other one its token, or the
\* session ended between the two.  Room calls are then dropped as stale ones.
Torn == conn # 0 /\ ~(conn = gen /\ token = gen)

=============================================================================
