---------------------------- MODULE SessionProofs ----------------------------
(***************************************************************************)
(* Proofs about Session, for any number of keystrokes:                      *)
(*   ScreenIsLive  what the screen shows belongs to the live session;       *)
(*   SocketsOwned  every open socket has a handshake or a read loop that    *)
(*                 closes it.                                               *)
(* A Cmd in flight knows the session and the dialog it was made in, and     *)
(* nothing else protects Update from what arrives late.  The invariant says *)
(* what the two numbers are worth.                                          *)
(***************************************************************************)
EXTENDS Session, TLAPS

Kinds == RoomCalls \cup {"login", "createAccount", "register", "cancel", "verify", "resend",
                         "dial", "disconnect", "createRoom", "cancelRoom"}
Dialogs == {"none", "search", "createRoom"} \cup DialogKinds
Commands == [kind : Kinds, gen : Nat, from : Nat, n : Nat]

Shapes ==
    /\ gen \in Nat /\ token \in Nat /\ conn \in Nat /\ opened \in Nat /\ keys \in Nat
    /\ modal \in [kind : Dialogs, waits : BOOLEAN, id : Nat]
    /\ rooms \in [loading : BOOLEAN, failed : BOOLEAN, owner : Nat, armed : BOOLEAN]
    /\ cmds \subseteq Commands
    /\ socks \subseteq 1..gen /\ loops \subseteq 1..gen
    /\ done \in BOOLEAN /\ crossed \in BOOLEAN

\* The messages that change dialogs come from the login family ...
DialogAnswers == {"login", "createAccount", "register", "cancel", "verify"}

\* ... which no live session shows: a message that arrives in its own dialog
\* arrives while nobody is logged in.
Numbered ==
    /\ modal.id <= opened
    /\ modal.kind = "none" <=> modal.id = 0
    /\ \A c \in cmds :
          /\ c.from <= opened
          /\ c.kind = "dial" => c.gen # 0
          /\ c.kind \in DialogAnswers =>
                c.from # 0 /\ (c.from = modal.id => modal.kind \in DialogKinds)

LoggedOut == modal.kind \in DialogKinds => conn = 0

\* The screen of the live session, and an empty one without it.
Shown ==
    /\ token \in {0, gen}
    /\ conn # 0 => conn = gen /\ token = gen /\ {rooms.owner, active, bucket} \subseteq {0, gen}
    /\ conn = 0 => rooms.owner = 0 /\ active = 0

\* A session has one handshake; the session's socket is handed over once, and
\* its disconnect is reported after the socket was closed.
Handshakes ==
    /\ \A c \in cmds : c.kind = "dial" =>
          /\ c.gen \in 1..gen /\ c.gen # conn /\ c.gen \notin loops
          /\ c.gen = gen => token = gen
          /\ \A e \in cmds : e.kind \in {"dial", "disconnect"} /\ e.gen = c.gen => e = c
    /\ \A c \in cmds : c.kind = "disconnect" => c.gen \in 1..gen /\ c.gen \notin socks

SessionInv == Shapes /\ Numbered /\ (~crossed => LoggedOut /\ Shown /\ Handshakes /\ SocketOwned)

-----------------------------------------------------------------------------
(* Commands, dialogs and the first state.                                  *)

ModalShape == [kind : Dialogs, waits : BOOLEAN, id : Nat]
RoomsShape == [loading : BOOLEAN, failed : BOOLEAN, owner : Nat, armed : BOOLEAN]

LEMMA CmdFacts ==
    ASSUME keys \in Nat, NEW kind \in Kinds, NEW g \in Nat, NEW from \in Nat
    PROVE  /\ Cmd(kind, g, from) \in Commands
           /\ Cmd(kind, g, from).kind = kind /\ Cmd(kind, g, from).gen = g
           /\ Cmd(kind, g, from).from = from
BY DEF Cmd, Commands

LEMMA Nothing ==
    /\ NoModal \in ModalShape /\ NoModal.kind = "none" /\ NoModal.id = 0
    /\ NoRooms \in RoomsShape /\ NoRooms.owner = 0
BY DEF NoModal, NoRooms, ModalShape, RoomsShape, Dialogs

LEMMA CommandTypes ==
    \A c \in Commands : c.kind \in Kinds /\ c.gen \in Nat /\ c.from \in Nat
BY DEF Commands

LEMMA SessionInit == Init => SessionInv
<1> SUFFICES ASSUME Init PROVE SessionInv OBVIOUS
<1>1. /\ modal \in ModalShape /\ modal.id = 1 /\ modal.kind = "login" /\ opened = 1
      /\ gen = 0 /\ token = 0 /\ conn = 0 /\ cmds = {} /\ socks = {} /\ loops = {} /\ keys = 0
      /\ done = FALSE /\ crossed = FALSE /\ rooms = NoRooms /\ active = 0 /\ bucket = 0
  BY DEF Init, ModalShape, Dialogs, DialogKinds
<1>2. Shapes BY <1>1, Nothing DEF Shapes, ModalShape, RoomsShape
<1>3. Numbered /\ LoggedOut BY <1>1 DEF Numbered, LoggedOut
<1>4. Shown BY <1>1, Nothing DEF Shown
<1>5. Handshakes /\ SocketOwned BY <1>1 DEF Handshakes, SocketOwned
<1> QED BY <1>2, <1>3, <1>4, <1>5 DEF SessionInv

-----------------------------------------------------------------------------
(* What nearly every step of Update does: it takes commands out and puts   *)
(* commands in, and leaves the dialog as it is, closes it or opens one.    *)

Moves ==
    /\ opened' \in Nat /\ opened <= opened' /\ modal' \in ModalShape
    /\ \/ modal'.id = modal.id /\ modal'.kind = modal.kind
       \/ modal' = NoModal
       \/ opened' = opened + 1 /\ modal'.id = opened' /\ modal'.kind # "none"

Made(new) ==
    /\ new \subseteq Commands
    /\ \A c \in new :
          /\ c.kind \notin {"dial", "disconnect"} /\ c.from <= opened'
          /\ c.kind \in DialogAnswers => c.from # 0 /\ c.from = modal.id /\ modal.kind \in DialogKinds

\* The session goes on, or it ends with its socket closed or on its way to be.
Ends ==
    /\ token' = 0 /\ conn' = 0
    /\ \A c \in cmds' : c.kind = "dial" => c.gen # gen
    /\ conn \in closing' \/ conn \notin socks

LEMMA NumberedMoves ==
    ASSUME Shapes, Numbered, Moves, NEW old, NEW new, cmds' = (cmds \ old) \cup new, Made(new)
    PROVE  Numbered'
<1>1. modal \in ModalShape /\ modal.id \in Nat /\ opened \in Nat /\ cmds \subseteq Commands
  BY DEF Shapes, ModalShape
<1>2. modal'.id <= opened' /\ (modal'.kind = "none" <=> modal'.id = 0)
  BY <1>1, Nothing DEF Numbered, Moves
<1>3. ASSUME NEW c \in cmds'
      PROVE  /\ c.from <= opened'
             /\ c.kind = "dial" => c.gen # 0
             /\ c.kind \in DialogAnswers =>
                   c.from # 0 /\ (c.from = modal'.id => modal'.kind \in DialogKinds)
  <2>1. c.from \in Nat BY <1>1, <1>3, CommandTypes DEF Made
  <2>2. c.from <= opened' BY <1>1, <1>3, <2>1 DEF Numbered, Moves, Made
  <2>3. ASSUME c.kind \in DialogAnswers
        PROVE  /\ c.from # 0 /\ c.from <= opened
               /\ c.from = modal.id => modal.kind \in DialogKinds
    BY <1>1, <1>3, <2>3 DEF Numbered, Made
  <2>4. ASSUME c.kind \in DialogAnswers, c.from = modal'.id PROVE modal'.kind \in DialogKinds
    BY <1>1, <2>1, <2>3, <2>4, Nothing DEF Moves
  <2>5. c.kind = "dial" => c.gen # 0 BY <1>3 DEF Numbered, Made
  <2> QED BY <2>2, <2>3, <2>4, <2>5
<1> QED BY <1>2, <1>3 DEF Numbered

LEMMA Updates ==
    ASSUME SessionInv, Moves, NEW old, NEW new, cmds' = (cmds \ old) \cup new, Made(new),
           gen' = gen, loops' = loops, socks' \subseteq socks, closing \subseteq closing',
           keys' \in Nat, rooms' \in RoomsShape,
           done' \in BOOLEAN, crossed' \in BOOLEAN, ~done' => ~done, ~crossed' => ~crossed,
           token' \in Nat, conn' \in Nat,
           \A c \in old : c.kind = "dial" => c.gen \notin socks',
           ~crossed' => (token' = token /\ conn' = conn) \/ Ends,
           ~crossed' => LoggedOut',
           ~crossed' => Shown'
    PROVE  SessionInv'
<1>1. Shapes' BY CommandTypes DEF SessionInv, Shapes, Moves, Made, ModalShape, RoomsShape
<1>2. Numbered' BY NumberedMoves DEF SessionInv
<1> SUFFICES ASSUME ~crossed' PROVE Handshakes' /\ SocketOwned'
  BY <1>1, <1>2 DEF SessionInv
<1>3. Shapes /\ Shown /\ Handshakes /\ SocketOwned /\ ~crossed BY DEF SessionInv
<1>4. \A c \in cmds' : c.kind \in {"dial", "disconnect"} => c \in cmds BY DEF Made
<1>5. Handshakes'
  <2>1. ASSUME NEW c \in cmds', c.kind = "dial"
        PROVE  /\ c.gen \in 1..gen /\ c.gen # conn' /\ c.gen \notin loops
               /\ c.gen = gen => token' = gen
               /\ \A e \in cmds' : e.kind \in {"dial", "disconnect"} /\ e.gen = c.gen => e = c
    <3>1. c \in cmds BY <1>4, <2>1
    <3>2. /\ c.gen \in 1..gen /\ c.gen # conn /\ c.gen \notin loops
          /\ c.gen = gen => token = gen
          /\ \A e \in cmds : e.kind \in {"dial", "disconnect"} /\ e.gen = c.gen => e = c
      BY <1>3, <2>1, <3>1 DEF Handshakes
    <3>3. c.gen # 0 BY <1>3, <3>2 DEF Shapes
    <3>4. c.gen # conn' /\ (c.gen = gen => token' = gen) BY <2>1, <3>2, <3>3 DEF Ends
    <3> QED BY <1>4, <3>2, <3>4
  <2>2. ASSUME NEW c \in cmds', c.kind = "disconnect" PROVE c.gen \in 1..gen /\ c.gen \notin socks'
    BY <1>3, <1>4, <2>2 DEF Handshakes
  <2> QED BY <2>1, <2>2 DEF Handshakes
<1>6. SocketOwned'
  <2> SUFFICES ASSUME ~done', NEW s \in socks'
               PROVE  \/ \E c \in cmds' : c.kind = "dial" /\ c.gen = s
                      \/ s \in loops /\ (s = conn' \/ s \in closing')
    BY DEF SocketOwned
  <2>1. \/ \E c \in cmds : c.kind = "dial" /\ c.gen = s
        \/ s \in loops /\ (s = conn \/ s \in closing)
    BY <1>3 DEF SocketOwned
  <2>2. ASSUME NEW c \in cmds, c.kind = "dial", c.gen = s PROVE c \in cmds' BY <2>2
  <2> QED BY <2>1, <2>2 DEF Ends
<1> QED BY <1>5, <1>6

-----------------------------------------------------------------------------
(* Keys.                                                                   *)

\* A keystroke leaves the session alone.
LEMMA KeyUpdates ==
    ASSUME SessionInv, Moves, NEW new, cmds' = cmds \cup new, Made(new), Key,
           UNCHANGED <<gen, token, conn, bucket, net, done, crossed>>,
           rooms' \in RoomsShape, rooms'.owner = rooms.owner,
           active' = active \/ (active' = rooms.owner),
           modal'.kind \in DialogKinds => modal.kind \in DialogKinds
    PROVE  SessionInv'
<1>1. /\ gen' = gen /\ token' = token /\ conn' = conn /\ bucket' = bucket /\ done' = done
      /\ crossed' = crossed /\ socks' = socks /\ loops' = loops /\ closing' = closing
  BY DEF net
<1>2. /\ token \in Nat /\ conn \in Nat /\ keys' \in Nat /\ done \in BOOLEAN /\ crossed \in BOOLEAN
  BY DEF SessionInv, Shapes, Key
<1>3. ~crossed => LoggedOut /\ Shown BY DEF SessionInv
<1>4. ~crossed => LoggedOut' BY <1>1, <1>3 DEF LoggedOut
<1>5. ~crossed => Shown' BY <1>1, <1>3 DEF Shown
<1>6. PICK old : old = {} OBVIOUS
<1>7. (done' <=> done) /\ (crossed' <=> crossed) BY <1>1
<1>8. ~done' => ~done BY <1>7
<1>9. ~crossed' => ~crossed BY <1>7
<1>10. ~crossed' => LoggedOut' BY <1>4, <1>7
<1>11. ~crossed' => Shown' BY <1>5, <1>7
<1>12. ~crossed' => (token' = token /\ conn' = conn) \/ Ends BY <1>1
<1>13. done' \in BOOLEAN /\ crossed' \in BOOLEAN BY <1>1, <1>2
<1>14. cmds' = (cmds \ old) \cup new /\ \A c \in old : c.kind = "dial" => c.gen \notin socks' BY <1>6
<1>15. socks' \subseteq socks /\ closing \subseteq closing' BY <1>1
<1>16. token' \in Nat /\ conn' \in Nat BY <1>1, <1>2
<1> QED BY <1>1, <1>2, <1>6, <1>14, <1>15, <1>16, <1>8, <1>9, <1>10, <1>11, <1>12, <1>13, Updates, SMT


\* The open dialog starts something and waits for it, or asks for another one.
LEMMA Dispatches ==
    ASSUME SessionInv, Key, NEW dialog \in Dialogs \ {"none"}, modal.kind = dialog,
           NEW kind \in Kinds \ {"dial", "disconnect"}, kind \in DialogAnswers => dialog \in DialogKinds,
           Dispatch(Cmd(kind, gen, modal.id)), rooms' = rooms,
           modal' = modal \/ modal' = [modal EXCEPT !.waits = TRUE]
    PROVE  SessionInv'
<1> DEFINE new == {Cmd(kind, gen, modal.id)}
<1>1. /\ keys \in Nat /\ gen \in Nat /\ opened \in Nat /\ modal \in ModalShape /\ rooms \in RoomsShape
      /\ modal.id \in Nat /\ modal.id # 0 /\ modal.id <= opened
  BY DEF SessionInv, Shapes, Numbered, ModalShape, RoomsShape
<1>2. /\ cmds' = cmds \cup new /\ opened' = opened /\ active' = active
      /\ UNCHANGED <<gen, token, conn, bucket, net, done, crossed>>
  BY DEF Dispatch
<1>3. modal' \in ModalShape /\ modal'.id = modal.id /\ modal'.kind = modal.kind
  BY <1>1 DEF ModalShape
<1>4. Moves BY <1>1, <1>2, <1>3 DEF Moves
<1>5. Made(new) BY <1>1, <1>2, CmdFacts DEF Made
<1> HIDE DEF new
<1> QED BY <1>1, <1>2, <1>3, <1>4, <1>5, KeyUpdates

\* Without a dialog, keys act on the panes.
LEMMA PaneUpdates ==
    ASSUME SessionInv, Key, NEW new, cmds' = cmds \cup new,
           new \subseteq {Cmd(k, gen, 0) : k \in {"joined", "leave", "events", "send"}},
           UNCHANGED <<gen, token, conn, modal, opened, bucket, net, done, crossed>>,
           rooms' = rooms \/ rooms' = [rooms EXCEPT !.armed = rooms'.armed]
              \/ rooms' = [rooms EXCEPT !.loading = TRUE, !.failed = FALSE, !.armed = FALSE],
           rooms'.armed \in BOOLEAN,
           active' = active \/ active' = rooms.owner
    PROVE  SessionInv'
<1>1. /\ keys \in Nat /\ gen \in Nat /\ opened \in Nat /\ modal \in ModalShape /\ rooms \in RoomsShape
  BY DEF SessionInv, Shapes, ModalShape, RoomsShape
<1>2. \A k \in {"joined", "leave", "events", "send"} :
         /\ Cmd(k, gen, 0) \in Commands /\ Cmd(k, gen, 0).kind = k /\ Cmd(k, gen, 0).from = 0
  BY <1>1, CmdFacts DEF Kinds, RoomCalls
<1>3. Made(new) BY <1>1, <1>2 DEF Made, DialogAnswers
<1>4. Moves BY <1>1 DEF Moves
<1>5. rooms' \in RoomsShape /\ rooms'.owner = rooms.owner
  BY <1>1 DEF RoomsShape
<1> QED BY <1>3, <1>4, <1>5, KeyUpdates

LEMMA KeySteps ==
    ASSUME SessionInv, Keystroke
    PROVE  SessionInv'
<1>0. /\ keys \in Nat /\ gen \in Nat /\ opened \in Nat /\ modal \in ModalShape /\ rooms \in RoomsShape
  BY DEF SessionInv, Shapes, ModalShape, RoomsShape
<1>1. CASE \/ LoginCmd \/ RegisterCmd \/ VerifyEmailCmd \/ JoinRoomCmd \/ CreateRoomCmd
  <2>1. ASSUME NEW dialog \in Dialogs \ {"none"}, NEW kind \in Kinds \ {"dial", "disconnect"},
               kind \in DialogAnswers => dialog \in DialogKinds, Submit(dialog, kind)
        PROVE  SessionInv'
    BY <2>1, Dispatches DEF Submit, Listening
  <2> QED BY <1>1, <2>1 DEF LoginCmd, RegisterCmd, VerifyEmailCmd, JoinRoomCmd, CreateRoomCmd,
                            Dialogs, DialogKinds, DialogAnswers, Kinds, RoomCalls
<1>2. CASE \/ Ask("login", "createAccount") \/ Ask("register", "cancel")
           \/ Ask("verify", "cancel") \/ Ask("search", "createRoom")
           \/ Ask("createRoom", "cancelRoom") \/ ResendVerificationCmd \/ SearchAgain
  <2>1. ASSUME NEW dialog \in Dialogs \ {"none"}, NEW kind \in Kinds \ {"dial", "disconnect"},
               kind \in DialogAnswers => dialog \in DialogKinds, Ask(dialog, kind)
        PROVE  SessionInv'
    BY <2>1, Dispatches DEF Ask, Listening
  <2> QED BY <1>2, <2>1 DEF ResendVerificationCmd, SearchAgain,
                            Dialogs, DialogKinds, DialogAnswers, Kinds, RoomCalls
<1>3. CASE OpenSearch
  <2> DEFINE new == {LoadRoomsCmd(opened + 1)}
  <2>1. PICK m : m = [kind |-> "search", waits |-> FALSE, id |-> opened + 1] OBVIOUS
  <2>2. m \in ModalShape /\ m.kind = "search" /\ m.id = opened + 1
    BY <1>0, <2>1 DEF ModalShape, Dialogs
  <2>3. /\ Key /\ opened' = opened + 1 /\ modal' = m /\ cmds' = cmds \cup new
        /\ rooms' = rooms /\ active' = active
        /\ UNCHANGED <<gen, token, conn, bucket, net, done, crossed>>
    BY <1>3, <2>1 DEF OpenSearch, Open, screen
  <2>4. Moves BY <1>0, <2>2, <2>3 DEF Moves
  <2>5. "catalogue" \in Kinds BY DEF Kinds, RoomCalls
  <2>6. Made(new) BY <1>0, <2>3, <2>5, CmdFacts DEF Made, LoadRoomsCmd, DialogAnswers
  <2> HIDE DEF new
  <2>7. "search" \notin DialogKinds BY DEF DialogKinds
  <2> QED BY <1>0, <2>2, <2>3, <2>4, <2>6, <2>7, KeyUpdates
<1>4. CASE CloseSearch
  <2>1. /\ Key /\ opened' = opened /\ modal' = NoModal /\ cmds' = cmds \cup {}
        /\ rooms' = rooms /\ active' = active
        /\ UNCHANGED <<gen, token, conn, bucket, net, done, crossed>>
    BY <1>4 DEF CloseSearch, screen
  <2>2. Moves BY <1>0, <2>1, Nothing DEF Moves
  <2>3. Made({}) BY DEF Made
  <2>4. modal'.kind \notin DialogKinds BY <2>1, Nothing DEF DialogKinds
  <2> QED BY <1>0, <2>1, <2>2, <2>3, <2>4, KeyUpdates
<1>5. CASE SwitchActiveRoom
  <2>1. PICK load \in beginBackfill : cmds' = cmds \cup load BY <1>5 DEF SwitchActiveRoom
  <2>2. load \subseteq {Cmd(k, gen, 0) : k \in {"joined", "leave", "events", "send"}}
    BY <2>1 DEF beginBackfill, LoadEventsCmd
  <2>3. /\ Key /\ rooms' = [rooms EXCEPT !.armed = FALSE] /\ active' = rooms.owner
        /\ UNCHANGED <<gen, token, conn, modal, opened, bucket, net, done, crossed>>
    BY <1>5 DEF SwitchActiveRoom
  <2>4. rooms'.armed = FALSE BY <1>0, <2>3 DEF RoomsShape
  <2> QED BY <2>1, <2>2, <2>3, <2>4, PaneUpdates
<1>6. CASE RetryLoad
  <2>1. /\ Key /\ rooms' = [rooms EXCEPT !.loading = TRUE, !.failed = FALSE, !.armed = FALSE] /\ active' = active
        /\ cmds' = cmds \cup {Cmd("joined", gen, 0)}
        /\ UNCHANGED <<gen, token, conn, modal, opened, bucket, net, done, crossed>>
    BY <1>6 DEF RetryLoad, Dispatch, LoadJoinedRoomsCmd
  <2>2. rooms'.armed = FALSE BY <1>0, <2>1 DEF RoomsShape
  <2> QED BY <2>1, <2>2, PaneUpdates
<1>7. CASE LeaveKey
  <2>1. /\ Key /\ rooms' = [rooms EXCEPT !.armed = ~rooms.armed] /\ active' = active
        /\ UNCHANGED <<gen, token, conn, modal, opened, bucket, net, done, crossed>>
    BY <1>7 DEF LeaveKey
  <2>2. PICK new \in {{}, {Cmd("leave", gen, 0)}} : cmds' = cmds \cup new
    BY <1>7 DEF LeaveKey, LeaveRoomCmd
  <2>3. rooms'.armed = ~rooms.armed BY <1>0, <2>1 DEF RoomsShape
  <2>4. rooms' = [rooms EXCEPT !.armed = rooms'.armed] BY <2>1, <2>3
  <2>5. rooms'.armed \in BOOLEAN BY <2>3
  <2>6. new \subseteq {Cmd(k, gen, 0) : k \in {"joined", "leave", "events", "send"}} BY <2>2
  <2> QED BY <2>1, <2>2, <2>4, <2>5, <2>6, PaneUpdates
<1>8. CASE Compose \/ fetchOlder
  <2>1. PICK k \in {"events", "send"} : Dispatch(Cmd(k, gen, 0))
    BY <1>8 DEF Compose, fetchOlder, SendMessageCmd, LoadEventsCmd
  <2>2. /\ Key /\ rooms' = rooms /\ active' = active /\ cmds' = cmds \cup {Cmd(k, gen, 0)}
        /\ UNCHANGED <<gen, token, conn, modal, opened, bucket, net, done, crossed>>
    BY <1>8, <2>1 DEF Compose, fetchOlder, Dispatch
  <2>3. {Cmd(k, gen, 0)} \subseteq {Cmd(j, gen, 0) : j \in {"joined", "leave", "events", "send"}}
    BY <2>1
  <2>4. rooms'.armed \in BOOLEAN BY <1>0, <2>2 DEF RoomsShape
  <2> QED BY <2>2, <2>3, <2>4, PaneUpdates
<1> QED BY <1>1, <1>2, <1>3, <1>4, <1>5, <1>6, <1>7, <1>8 DEF Keystroke

-----------------------------------------------------------------------------
(* Messages.                                                               *)

\* A message of a session that goes on.
LEMMA AnswerUpdates ==
    ASSUME SessionInv, NEW c \in cmds, Moves, NEW new, cmds' = (cmds \ {c}) \cup new, Made(new),
           UNCHANGED <<gen, token, conn, loops, closing, keys, done>>, socks' \subseteq socks,
           c.kind = "dial" => c.gen \notin socks',
           rooms' \in RoomsShape, crossed' \in BOOLEAN, crossed => crossed',
           ~crossed' => LoggedOut', ~crossed' => Shown'
    PROVE  SessionInv'
<1>1. /\ token \in Nat /\ conn \in Nat /\ keys \in Nat /\ done \in BOOLEAN
  BY DEF SessionInv, Shapes
<1>2. done' <=> done OBVIOUS
<1>3. ~done' => ~done BY <1>2
<1>4. done' \in BOOLEAN BY <1>1
<1>5. ~crossed' => ~crossed OBVIOUS
<1>6. PICK old : old = {c} OBVIOUS
<1>7. cmds' = (cmds \ old) \cup new /\ \A e \in old : e.kind = "dial" => e.gen \notin socks' BY <1>6
<1>8. token' \in Nat /\ conn' \in Nat /\ keys' \in Nat BY <1>1
<1>9. ~crossed' => (token' = token /\ conn' = conn) \/ Ends OBVIOUS
<1> QED BY <1>3, <1>4, <1>5, <1>7, <1>8, <1>9, Updates, SMT

\* The dialog stays, and the screen does too.
LEMMA DropSteps ==
    ASSUME SessionInv, NEW c \in cmds, cmds' = cmds \ {c},
           UNCHANGED <<gen, token, conn, opened, screen, loops, closing, keys, done>>,
           socks' \subseteq socks, c.kind = "dial" => c.gen \notin socks',
           modal' = modal \/ modal' = [modal EXCEPT !.waits = FALSE],
           crossed' = crossed \/ Crossing(c)
    PROVE  SessionInv'
<1>1. /\ modal \in ModalShape /\ rooms \in RoomsShape /\ opened \in Nat /\ crossed \in BOOLEAN
  BY DEF SessionInv, Shapes, ModalShape, RoomsShape
<1>2. modal' \in ModalShape /\ modal'.id = modal.id /\ modal'.kind = modal.kind
  BY <1>1 DEF ModalShape
<1>3. Moves BY <1>1, <1>2 DEF Moves
<1>4. Made({}) BY DEF Made
<1>5. cmds' = (cmds \ {c}) \cup {} OBVIOUS
<1>6. crossed' \in BOOLEAN BY <1>1 DEF Crossing
<1>7. crossed => crossed' BY <1>1 DEF Crossing
<1>8. ~crossed => LoggedOut /\ Shown BY DEF SessionInv
<1>9. LoggedOut => LoggedOut' BY <1>2 DEF LoggedOut
<1>10. Shown => Shown' BY DEF Shown, screen
<1>11. rooms' \in RoomsShape BY <1>1 DEF screen
<1>12. (~crossed' => LoggedOut') /\ (~crossed' => Shown') BY <1>7, <1>8, <1>9, <1>10
<1> QED BY <1>3, <1>4, <1>5, <1>6, <1>7, <1>11, <1>12, AnswerUpdates, SMT

\* The answer opens another dialog of the login family: if it is not late,
\* nobody was logged in.
LEMMA OpenSteps ==
    ASSUME SessionInv, NEW c \in cmds, c.kind \in DialogAnswers, NEW kind \in DialogKinds, OpenFor(c, kind)
    PROVE  SessionInv'
<1>1. /\ modal \in ModalShape /\ rooms \in RoomsShape /\ opened \in Nat /\ crossed \in BOOLEAN
      /\ cmds \subseteq Commands /\ Numbered
  BY DEF SessionInv, Shapes, ModalShape, RoomsShape
<1>2. PICK m : m = [kind |-> kind, waits |-> FALSE, id |-> opened + 1] OBVIOUS
<1>3. m \in ModalShape /\ m.kind = kind /\ m.id = opened + 1 /\ kind # "none"
  BY <1>1, <1>2 DEF ModalShape, Dialogs, DialogKinds
<1>4. /\ opened' = opened + 1 /\ modal' = m /\ cmds' = (cmds \ {c}) \cup {} /\ rooms' = rooms
      /\ UNCHANGED <<gen, token, conn, screen, loops, closing, keys, done>> /\ socks' = socks
      /\ Crossing(c)
  BY <1>2 DEF OpenFor, Open, net, screen
<1>5. Moves BY <1>1, <1>3, <1>4 DEF Moves
<1>6. Made({}) BY DEF Made
<1>7. crossed' \in BOOLEAN BY <1>1, <1>4 DEF Crossing
<1>8. crossed => crossed' BY <1>1, <1>4 DEF Crossing
<1>9. ~crossed => LoggedOut /\ Shown BY DEF SessionInv
<1>10. ~crossed' => conn = 0
  <2>1. ~crossed' => c.from = modal.id BY <1>4 DEF Crossing
  <2>2. c.from = modal.id => modal.kind \in DialogKinds BY <1>1 DEF Numbered
  <2> QED BY <1>8, <1>9, <2>1, <2>2 DEF LoggedOut
<1>11. conn = 0 => LoggedOut' BY <1>4 DEF LoggedOut
<1>12. Shown => Shown' BY <1>4 DEF Shown, screen
<1>13. (~crossed' => LoggedOut') /\ (~crossed' => Shown') BY <1>8, <1>9, <1>10, <1>11, <1>12
<1>14. c.kind = "dial" => c.gen \notin socks' BY DEF DialogAnswers
<1>15. rooms' \in RoomsShape /\ socks' \subseteq socks BY <1>1, <1>4
<1> QED BY <1>4, <1>5, <1>6, <1>7, <1>8, <1>13, <1>14, <1>15, AnswerUpdates, SMT

\* A result of the live session changes the panes.
LEMMA PaneSteps ==
    ASSUME SessionInv, NEW c \in cmds, c.kind # "dial",
           NEW new, cmds' = (cmds \ {c}) \cup new,
           new \subseteq {Cmd(k, gen, 0) : k \in {"joined", "events"}},
           UNCHANGED <<gen, token, conn, opened, net, keys, done, crossed>>,
           \/ modal'.kind = modal.kind /\ modal'.id = modal.id /\ modal' \in ModalShape
           \/ modal' = NoModal,
           rooms' \in RoomsShape,
           {rooms'.owner, active', bucket'} \subseteq {rooms.owner, active, bucket, 0, gen},
           \/ conn # 0
           \/ rooms'.owner = rooms.owner /\ active' = active
    PROVE  SessionInv'
<1>1. /\ modal \in ModalShape /\ rooms \in RoomsShape /\ opened \in Nat /\ crossed \in BOOLEAN
      /\ gen \in Nat /\ keys \in Nat /\ socks' = socks /\ loops' = loops /\ closing' = closing
  BY DEF SessionInv, Shapes, ModalShape, RoomsShape, net
<1>2. Moves BY <1>1, Nothing DEF Moves
<1>3. \A k \in {"joined", "events"} :
         /\ Cmd(k, gen, 0) \in Commands /\ Cmd(k, gen, 0).kind = k /\ Cmd(k, gen, 0).from = 0
  BY <1>1, CmdFacts DEF Kinds, RoomCalls
<1>4. Made(new) BY <1>1, <1>3 DEF Made, DialogAnswers
<1>5. crossed' \in BOOLEAN /\ (crossed' <=> crossed) BY <1>1
<1>6. ~crossed => LoggedOut /\ Shown BY DEF SessionInv
<1>7. LoggedOut => LoggedOut' BY Nothing DEF LoggedOut, DialogKinds
<1>8. Shown => Shown' BY DEF Shown
<1>9. (~crossed' => LoggedOut') /\ (~crossed' => Shown') /\ (crossed => crossed')
  BY <1>5, <1>6, <1>7, <1>8
<1>10. socks' \subseteq socks BY <1>1
<1> QED BY <1>1, <1>2, <1>4, <1>5, <1>9, <1>10, AnswerUpdates, SMT

\* The session is over: nothing is left of it on the screen.
LEMMA EndSteps ==
    ASSUME SessionInv, NEW c \in cmds, c.kind # "dial", cmds' = cmds \ {c},
           resetSession, Open("login"), UNCHANGED <<socks, loops, keys, done, crossed>>,
           closing \subseteq closing',
           ~crossed => /\ \A e \in cmds : e.kind = "dial" => e.gen # gen
                       /\ conn \in closing' \/ conn \notin socks
    PROVE  SessionInv'
<1>1. /\ modal \in ModalShape /\ opened \in Nat /\ crossed \in BOOLEAN /\ done \in BOOLEAN /\ keys \in Nat
      /\ gen \in Nat
  BY DEF SessionInv, Shapes, ModalShape
<1>2. PICK m : m = [kind |-> "login", waits |-> FALSE, id |-> opened + 1] OBVIOUS
<1>3. m \in ModalShape /\ m.kind = "login" /\ m.id = opened + 1
  BY <1>1, <1>2 DEF ModalShape, Dialogs, DialogKinds
<1>4. /\ opened' = opened + 1 /\ modal' = m /\ gen' = gen /\ rooms' = NoRooms
      /\ token' = 0 /\ conn' = 0 /\ active' = 0 /\ bucket' = 0
  BY <1>2 DEF Open, resetSession
<1>5. Moves BY <1>1, <1>3, <1>4 DEF Moves
<1>6. Made({}) BY DEF Made
<1>7. PICK old : old = {c} OBVIOUS
<1>8. cmds' = (cmds \ old) \cup {} /\ \A e \in old : e.kind = "dial" => e.gen \notin socks' BY <1>7
<1>9. (done' <=> done) /\ (crossed' <=> crossed) OBVIOUS
<1>10. done' \in BOOLEAN /\ crossed' \in BOOLEAN BY <1>1
<1>11. (~done' => ~done) /\ (~crossed' => ~crossed) BY <1>9
<1>12. ~crossed => Ends BY <1>4 DEF Ends
<1>13. ~crossed' => (token' = token /\ conn' = conn) \/ Ends BY <1>11, <1>12
<1>14. LoggedOut' BY <1>4 DEF LoggedOut
<1>15. Shown' BY <1>4, Nothing DEF Shown
<1>16. rooms' \in RoomsShape /\ token' \in Nat /\ conn' \in Nat /\ keys' \in Nat BY <1>1, <1>4, Nothing
<1> QED BY <1>4, <1>5, <1>6, <1>8, <1>10, <1>11, <1>13, <1>14, <1>15, <1>16, Updates, SMT

\* Create-room and search dialogs of the live session ask for each other.
LEMMA SwapSteps ==
    ASSUME SessionInv, NEW c \in cmds, NEW kind, NEW from, kind # "dial", from \notin DialogKinds,
           NEW to \in {"search", "createRoom"}, SwapRoomDialog(c, kind, from, to)
    PROVE  SessionInv'
<1>1. CASE ~(hasLiveSession /\ modal.kind = from)
  <2>1. cmds' = cmds \ {c} /\ UNCHANGED <<gen, token, conn, modal, opened, screen, net, keys, done, crossed>>
    BY <1>1 DEF SwapRoomDialog, Drop, Quiet
  <2>2. /\ UNCHANGED <<gen, token, conn, opened, screen, loops, closing, keys, done>>
        /\ socks' = socks /\ modal' = modal /\ crossed' = crossed
    BY <2>1 DEF net
  <2>3. c.kind # "dial" BY DEF SwapRoomDialog, Handle
  <2> QED BY <2>1, <2>2, <2>3, DropSteps
<1>2. CASE hasLiveSession /\ modal.kind = from
  <2> DEFINE new == IF to = "search" THEN {LoadRoomsCmd(opened + 1)} ELSE {}
  <2>1. PICK m : m = [kind |-> to, waits |-> FALSE, id |-> opened + 1] OBVIOUS
  <2>2. /\ modal \in ModalShape /\ rooms \in RoomsShape /\ opened \in Nat /\ crossed \in BOOLEAN
        /\ keys \in Nat /\ gen \in Nat
    BY DEF SessionInv, Shapes, ModalShape, RoomsShape
  <2>3. m \in ModalShape /\ m.kind = to /\ m.id = opened + 1 /\ to # "none" /\ to \notin DialogKinds
    BY <2>1, <2>2 DEF ModalShape, Dialogs, DialogKinds
  <2>4. /\ opened' = opened + 1 /\ modal' = m /\ cmds' = (cmds \ {c}) \cup new
        /\ UNCHANGED <<gen, token, conn, screen, loops, closing, keys, done>> /\ socks' = socks
        /\ crossed' = crossed /\ rooms' = rooms /\ c.kind # "dial"
    BY <1>2, <2>1 DEF SwapRoomDialog, Open, Quiet, net, screen, Handle
  <2>5. Moves BY <2>2, <2>3, <2>4 DEF Moves
  <2>6. "catalogue" \in Kinds BY DEF Kinds, RoomCalls
  <2>7. Made(new) BY <2>2, <2>4, <2>6, CmdFacts DEF Made, LoadRoomsCmd, DialogAnswers
  <2> HIDE DEF new
  <2>8. ~crossed => LoggedOut /\ Shown BY DEF SessionInv
  <2>9. LoggedOut' BY <2>3, <2>4 DEF LoggedOut
  <2>10. Shown => Shown' BY <2>4 DEF Shown, screen
  <2>11. crossed' \in BOOLEAN /\ (crossed' <=> crossed) BY <2>2, <2>4
  <2>12. (~crossed' => LoggedOut') /\ (~crossed' => Shown') /\ (crossed => crossed')
    BY <2>8, <2>9, <2>10, <2>11
  <2>13. rooms' \in RoomsShape /\ socks' \subseteq socks BY <2>2, <2>4
  <2> QED BY <2>4, <2>5, <2>7, <2>11, <2>12, <2>13, AnswerUpdates, SMT
<1> QED BY <1>1, <1>2

\* A frame of the generation, and the end of the program.
LEMMA AsideSteps ==
    ASSUME SessionInv, UNCHANGED <<gen, token, conn, modal, opened, rooms, active, cmds, socks, loops, crossed>>,
           keys' \in Nat, bucket' \in {bucket, gen}, closing \subseteq closing', done' \in BOOLEAN, done => done'
    PROVE  SessionInv'
<1>1. /\ modal \in ModalShape /\ rooms \in RoomsShape /\ opened \in Nat /\ crossed \in BOOLEAN
      /\ token \in Nat /\ conn \in Nat
  BY DEF SessionInv, Shapes, ModalShape, RoomsShape
<1>2. Moves BY <1>1 DEF Moves
<1>3. Made({}) BY DEF Made
<1>4. PICK old : old = {} OBVIOUS
<1>5. cmds' = (cmds \ old) \cup {} /\ \A c \in old : c.kind = "dial" => c.gen \notin socks' BY <1>4
<1>6. crossed' \in BOOLEAN /\ (crossed' <=> crossed) BY <1>1
<1>7. ~crossed => LoggedOut /\ Shown BY DEF SessionInv
<1>8. LoggedOut => LoggedOut' BY DEF LoggedOut
<1>9. Shown => Shown' BY DEF Shown
<1>10. (~crossed' => LoggedOut') /\ (~crossed' => Shown') /\ (~crossed' => ~crossed) BY <1>6, <1>7, <1>8, <1>9
<1>11. ~done' => ~done OBVIOUS
<1>12. rooms' \in RoomsShape /\ token' \in Nat /\ conn' \in Nat /\ socks' \subseteq socks BY <1>1
<1>13. ~crossed' => (token' = token /\ conn' = conn) \/ Ends OBVIOUS
<1> QED BY <1>2, <1>3, <1>5, <1>6, <1>10, <1>11, <1>12, <1>13, Updates, SMT

-----------------------------------------------------------------------------
(* The life of a session.                                                  *)

\* A login that is not late finds nobody logged in; its handshake is the only
\* one of its number.
LEMMA LoginSteps ==
    ASSUME SessionInv, NEW c \in cmds, LoginSucceeded(c)
    PROVE  SessionInv'
<1>1. PICK d : d = DialAndAuthCmd(gen + 1, modal.id) OBVIOUS
<1>2. /\ Shapes /\ Numbered /\ modal \in ModalShape /\ modal.id \in Nat /\ opened \in Nat /\ gen \in Nat
      /\ keys \in Nat /\ rooms \in RoomsShape /\ crossed \in BOOLEAN /\ done \in BOOLEAN
      /\ modal.id <= opened /\ cmds \subseteq Commands /\ conn \in Nat
      /\ socks \subseteq 1..gen /\ loops \subseteq 1..gen
  BY DEF SessionInv, Shapes, Numbered, ModalShape, RoomsShape
<1>3. /\ gen' = gen + 1 /\ token' = gen + 1 /\ conn' = conn /\ opened' = opened /\ keys' = keys
      /\ rooms' = rooms /\ active' = active /\ bucket' = bucket /\ loops' = loops /\ closing' = closing
      /\ cmds' = (cmds \ {c}) \cup {d} /\ socks' = socks \cup {gen + 1} /\ c.kind = "login" /\ Crossing(c)
      /\ modal' = IF modal.kind = "login" THEN [modal EXCEPT !.waits = TRUE] ELSE modal
  BY <1>1 DEF LoginSucceeded, Handle, screen
<1>4. done' = done BY DEF LoginSucceeded
<1>5. modal' \in ModalShape /\ modal'.id = modal.id /\ modal'.kind = modal.kind
  BY <1>2, <1>3 DEF ModalShape
<1>6. "dial" \in Kinds BY DEF Kinds
<1>7. d \in Commands /\ d.kind = "dial" /\ d.gen = gen + 1 /\ d.from = modal.id
  BY <1>1, <1>2, <1>6, CmdFacts DEF DialAndAuthCmd
<1>8. Shapes'
  <2>1. crossed' \in BOOLEAN /\ done' \in BOOLEAN BY <1>2, <1>3, <1>4 DEF Crossing
  <2>2. socks' \subseteq 1..gen' /\ loops' \subseteq 1..gen' BY <1>2, <1>3
  <2> QED BY <1>2, <1>3, <1>5, <1>7, <2>1, <2>2 DEF Shapes, ModalShape, RoomsShape
<1>9. Numbered' BY <1>2, <1>3, <1>5, <1>7 DEF Numbered, DialogAnswers
<1> SUFFICES ASSUME ~crossed' PROVE LoggedOut' /\ Shown' /\ Handshakes' /\ SocketOwned'
  BY <1>8, <1>9 DEF SessionInv
<1>10. ~crossed /\ c.from = modal.id BY <1>3 DEF Crossing
<1>11. LoggedOut /\ Shown /\ Handshakes /\ SocketOwned BY <1>10 DEF SessionInv
<1>12. modal.kind \in DialogKinds /\ conn = 0
  BY <1>2, <1>3, <1>10, <1>11 DEF Numbered, DialogAnswers, LoggedOut
<1>13. LoggedOut' BY <1>3, <1>12 DEF LoggedOut
<1>14. Shown' BY <1>3, <1>11, <1>12 DEF Shown
<1>15. Handshakes'
  <2>1. ASSUME NEW e \in cmds', e.kind = "dial"
        PROVE  /\ e.gen \in 1..gen' /\ e.gen # conn' /\ e.gen \notin loops'
               /\ e.gen = gen' => token' = gen'
               /\ \A f \in cmds' : f.kind \in {"dial", "disconnect"} /\ f.gen = e.gen => f = e
    <3>1. \A f \in cmds : f.kind \in {"dial", "disconnect"} => f.gen \in 1..gen
      BY <1>11 DEF Handshakes
    <3>2. CASE e = d BY <1>2, <1>3, <1>7, <1>12, <3>1, <3>2
    <3>3. CASE e # d
      <4>1. e \in cmds BY <1>3, <3>3
      <4>2. /\ e.gen \in 1..gen /\ e.gen # conn /\ e.gen \notin loops
            /\ \A f \in cmds : f.kind \in {"dial", "disconnect"} /\ f.gen = e.gen => f = e
        BY <1>11, <2>1, <4>1 DEF Handshakes
      <4> QED BY <1>2, <1>3, <1>7, <4>2
    <3> QED BY <3>2, <3>3
  <2>2. ASSUME NEW e \in cmds', e.kind = "disconnect" PROVE e.gen \in 1..gen' /\ e.gen \notin socks'
    <3>1. e \in cmds BY <1>3, <1>7, <2>2
    <3>2. e.gen \in 1..gen /\ e.gen \notin socks BY <1>11, <2>2, <3>1 DEF Handshakes
    <3> QED BY <1>2, <1>3, <3>2
  <2> QED BY <2>1, <2>2 DEF Handshakes
<1>16. SocketOwned'
  <2> SUFFICES ASSUME ~done, NEW s \in socks'
               PROVE  \/ \E e \in cmds' : e.kind = "dial" /\ e.gen = s
                      \/ s \in loops /\ s \in closing
    BY <1>3, <1>4 DEF SocketOwned
  <2>1. CASE s = gen + 1 BY <1>3, <1>7, <2>1
  <2>2. CASE s \in socks
    <3>1. \/ \E e \in cmds : e.kind = "dial" /\ e.gen = s
          \/ s \in loops /\ (s = conn \/ s \in closing)
      BY <1>10, <1>11, <2>2 DEF SocketOwned
    <3>2. s # conn BY <1>2, <1>12, <2>2
    <3> QED BY <1>3, <3>1, <3>2
  <2> QED BY <1>3, <2>1, <2>2
<1> QED BY <1>13, <1>14, <1>15, <1>16

\* The socket is handed over to the only login dialog that can be open.
LEMMA HandOverSteps ==
    ASSUME SessionInv, NEW c \in cmds, WSAuthSucceeded(c)
    PROVE  SessionInv'
<1>1. PICK d : d = LoadJoinedRoomsCmd OBVIOUS
<1>2. /\ Shapes /\ Numbered /\ modal.kind = "login" /\ opened \in Nat /\ gen \in Nat
      /\ keys \in Nat /\ rooms \in RoomsShape /\ crossed \in BOOLEAN /\ done \in BOOLEAN
      /\ cmds \subseteq Commands /\ conn \in Nat /\ socks \subseteq 1..gen /\ loops \subseteq 1..gen
  BY DEF SessionInv, Shapes, RoomsShape, WSAuthSucceeded
<1>3. /\ gen' = gen /\ token' = token /\ conn' = gen /\ opened' = opened /\ keys' = keys
      /\ active' = active /\ bucket' = 0 /\ loops' = loops \cup {gen} /\ closing' = closing
      /\ cmds' = (cmds \ {c}) \cup {d} /\ socks' = socks /\ c.kind = "dial" /\ c.gen = gen
      /\ modal' = NoModal /\ rooms' = [rooms EXCEPT !.loading = TRUE]
  BY <1>1 DEF WSAuthSucceeded, Handle
<1>4. done' = done /\ crossed' = crossed BY DEF WSAuthSucceeded
<1>5. rooms' \in RoomsShape /\ rooms'.owner = rooms.owner BY <1>2, <1>3 DEF RoomsShape
<1>6. "joined" \in Kinds BY DEF Kinds, RoomCalls
<1>7. d \in Commands /\ d.kind = "joined" /\ d.from = 0
  BY <1>1, <1>2, <1>6, CmdFacts DEF LoadJoinedRoomsCmd
<1>8. Numbered' BY <1>2, <1>3, <1>7, Nothing DEF Numbered, DialogAnswers
\* The case that matters.
<1>9. ASSUME ~crossed
      PROVE  /\ conn = 0 /\ gen \in 1..gen /\ token = gen /\ Shown /\ Handshakes /\ SocketOwned
             /\ \A e \in cmds : e.kind \in {"dial", "disconnect"} /\ e.gen = gen => e = c
  <2>1. LoggedOut /\ Shown /\ Handshakes /\ SocketOwned BY <1>9 DEF SessionInv
  <2>2. conn = 0 BY <1>2, <2>1 DEF LoggedOut, DialogKinds
  <2> QED BY <1>3, <2>1, <2>2 DEF Handshakes
<1>11. (crossed' <=> crossed) /\ (done' <=> done) BY <1>4
<1>12. Shapes'
  <2>1. crossed' \in BOOLEAN /\ done' \in BOOLEAN BY <1>2, <1>4
  <2>2. loops' \subseteq 1..gen' BY <1>2, <1>3 DEF Numbered
  <2> QED BY <1>2, <1>3, <1>5, <1>7, <2>1, <2>2, Nothing DEF Shapes, ModalShape, RoomsShape
<1>13. ASSUME ~crossed PROVE LoggedOut' /\ Shown' /\ Handshakes' /\ SocketOwned'
  <2>0. /\ conn = 0 /\ gen \in 1..gen /\ token = gen /\ Shown /\ Handshakes /\ SocketOwned
        /\ \A e \in cmds : e.kind \in {"dial", "disconnect"} /\ e.gen = gen => e = c
    BY <1>9, <1>13
  <2>1. LoggedOut' BY <1>3, Nothing DEF LoggedOut, DialogKinds
  <2>2. Shown' BY <1>2, <1>3, <1>5, <2>0 DEF Shown
  <2>3. Handshakes'
    <3>1. ASSUME NEW e \in cmds', e.kind \in {"dial", "disconnect"}
          PROVE  e \in cmds /\ e # c /\ e.gen # gen
      <4>1. e \in cmds BY <1>3, <1>7, <3>1
      <4>2. e # c BY <1>3, <1>7, <3>1
      <4> QED BY <2>0, <3>1, <4>1, <4>2
    <3>2. ASSUME NEW e \in cmds', e.kind = "dial"
          PROVE  /\ e.gen \in 1..gen' /\ e.gen # conn' /\ e.gen \notin loops'
                 /\ e.gen = gen' => token' = gen'
                 /\ \A f \in cmds' : f.kind \in {"dial", "disconnect"} /\ f.gen = e.gen => f = e
      <4>1. e \in cmds /\ e.gen # gen BY <3>1, <3>2
      <4>2. e.gen \in 1..gen /\ e.gen \notin loops BY <2>0, <3>2, <4>1 DEF Handshakes
      <4>3. \A f \in cmds' : f.kind \in {"dial", "disconnect"} /\ f.gen = e.gen => f = e
        BY <2>0, <3>1, <3>2, <4>1 DEF Handshakes
      <4> QED BY <1>3, <2>0, <4>1, <4>2, <4>3
    <3>3. ASSUME NEW e \in cmds', e.kind = "disconnect" PROVE e.gen \in 1..gen' /\ e.gen \notin socks'
      BY <1>3, <2>0, <3>1, <3>3 DEF Handshakes
    <3> QED BY <3>2, <3>3 DEF Handshakes
  <2>4. SocketOwned'
    <3> SUFFICES ASSUME ~done, NEW s \in socks
                 PROVE  \/ \E e \in cmds' : e.kind = "dial" /\ e.gen = s
                        \/ s \in loops' /\ (s = gen \/ s \in closing)
      BY <1>3, <1>11 DEF SocketOwned
    <3>1. \/ \E e \in cmds : e.kind = "dial" /\ e.gen = s
          \/ s \in loops /\ (s = conn \/ s \in closing)
      BY <1>13, <2>0 DEF SocketOwned
    <3>2. s # conn BY <1>2, <2>0
    <3>3. CASE s = gen BY <1>3, <3>3
    <3>4. CASE s # gen BY <1>3, <3>1, <3>2, <3>4
    <3> QED BY <3>3, <3>4
  <2> QED BY <2>1, <2>2, <2>3, <2>4
<1> QED BY <1>8, <1>11, <1>12, <1>13 DEF SessionInv

\* The read loop closes its socket and reports.
LEMMA LoopEndSteps ==
    ASSUME SessionInv, NEW s \in loops, ReadLoopEnds(s)
    PROVE  SessionInv'
<1>1. PICK d : d = [kind |-> "disconnect", gen |-> s, from |-> 0, n |-> 0] OBVIOUS
<1>2. /\ Shapes /\ Numbered /\ opened \in Nat /\ gen \in Nat /\ s \in 1..gen /\ s \in Nat /\ s # 0
      /\ crossed \in BOOLEAN /\ done \in BOOLEAN
      /\ cmds \subseteq Commands /\ socks \subseteq 1..gen /\ loops \subseteq 1..gen
  BY DEF SessionInv, Shapes
<1>3. /\ gen' = gen /\ token' = token /\ conn' = conn /\ opened' = opened /\ keys' = keys
      /\ rooms' = rooms /\ active' = active /\ bucket' = bucket /\ modal' = modal /\ closing' = closing
      /\ loops' = loops \ {s} /\ socks' = socks \ {s} /\ cmds' = cmds \cup {d}
  BY <1>1 DEF ReadLoopEnds, screen
<1>4. (crossed' <=> crossed) /\ (done' <=> done) /\ crossed' \in BOOLEAN /\ done' \in BOOLEAN
  BY <1>2 DEF ReadLoopEnds
<1>5. d \in Commands /\ d.kind = "disconnect" /\ d.gen = s /\ d.from = 0
  BY <1>1, <1>2 DEF Commands, Kinds
<1>6. Shapes' BY <1>2, <1>3, <1>4, <1>5 DEF Shapes
<1>7. Numbered' BY <1>2, <1>3, <1>5 DEF Numbered, DialogAnswers
<1> SUFFICES ASSUME ~crossed PROVE LoggedOut' /\ Shown' /\ Handshakes' /\ SocketOwned'
  BY <1>4, <1>6, <1>7 DEF SessionInv
<1>8. LoggedOut /\ Shown /\ Handshakes /\ SocketOwned BY DEF SessionInv
<1>9. LoggedOut' /\ Shown' BY <1>3, <1>8 DEF LoggedOut, Shown
<1>10. Handshakes'
  <2>1. ASSUME NEW e \in cmds', e.kind = "dial"
        PROVE  /\ e.gen \in 1..gen' /\ e.gen # conn' /\ e.gen \notin loops'
               /\ e.gen = gen' => token' = gen'
               /\ \A f \in cmds' : f.kind \in {"dial", "disconnect"} /\ f.gen = e.gen => f = e
    <3>1. e \in cmds BY <1>3, <1>5, <2>1
    <3>2. /\ e.gen \in 1..gen /\ e.gen # conn /\ e.gen \notin loops
          /\ e.gen = gen => token = gen
          /\ \A f \in cmds : f.kind \in {"dial", "disconnect"} /\ f.gen = e.gen => f = e
      BY <1>8, <2>1, <3>1 DEF Handshakes
    <3> QED BY <1>3, <1>5, <3>2
  <2>2. ASSUME NEW e \in cmds', e.kind = "disconnect" PROVE e.gen \in 1..gen' /\ e.gen \notin socks'
    BY <1>2, <1>3, <1>5, <1>8, <2>2 DEF Handshakes
  <2> QED BY <2>1, <2>2 DEF Handshakes
<1>11. SocketOwned' BY <1>3, <1>4, <1>8 DEF SocketOwned
<1> QED BY <1>8, <1>9, <1>10, <1>11

-----------------------------------------------------------------------------
\* Every message of Update preserves the invariant.
LEMMA AnswerSteps ==
    ASSUME SessionInv, NEW c \in cmds, Answer(c)
    PROVE  SessionInv'
<1>0. /\ modal \in ModalShape /\ rooms \in RoomsShape /\ cmds \subseteq Commands /\ c.gen \in Nat
      /\ gen \in Nat /\ socks \subseteq 1..gen
  BY CommandTypes DEF SessionInv, Shapes, ModalShape, RoomsShape
<1>1. ASSUME NEW kinds, ToModal(c, kinds)
      PROVE  /\ cmds' = cmds \ {c} /\ UNCHANGED <<gen, token, conn, opened, screen>>
             /\ modal' = modal \/ modal' = [modal EXCEPT !.waits = FALSE]
  BY <1>1 DEF ToModal
<1>2. CASE \/ LoginRejected(c) \/ RegisterRejected(c) \/ VerifyRejected(c)
  <2>1. PICK kinds : ToModal(c, kinds) BY <1>2 DEF LoginRejected, RegisterRejected, VerifyRejected
  <2>2. /\ UNCHANGED <<loops, closing, keys, done>> /\ socks' = socks /\ Crossing(c) /\ c.kind # "dial"
    BY <1>2 DEF LoginRejected, RegisterRejected, VerifyRejected, net, Handle
  <2> QED BY <1>1, <2>1, <2>2, DropSteps
<1>3. CASE ResendAnswered(c) \/ StaleResult(c) \/ RoomCallReported(c)
  <2>1. /\ Drop(c) /\ c.kind # "dial" /\ UNCHANGED <<loops, closing, keys, done>> /\ socks' = socks
        /\ crossed' = crossed
    BY <1>3 DEF ResendAnswered, StaleResult, RoomCallReported, Handle, Quiet, net, RoomCalls
  <2> QED BY <2>1, DropSteps DEF Drop
<1>4. CASE RoomCallAnswered(c)
  <2>1. PICK kinds : ToModal(c, kinds) BY <1>4 DEF RoomCallAnswered
  <2>2. /\ UNCHANGED <<loops, closing, keys, done>> /\ socks' = socks /\ crossed' = crossed
        /\ c.kind # "dial"
    BY <1>4 DEF RoomCallAnswered, Quiet, net
  <2> QED BY <1>1, <2>1, <2>2, DropSteps
<1>5. CASE WSAuthStale(c) \/ WSAuthFailed(c)
  <2>1. /\ UNCHANGED <<loops, closing, keys, done>> /\ crossed' = crossed
        /\ socks' = socks \ {c.gen}
    BY <1>5 DEF WSAuthStale, WSAuthFailed
  <2>2. Drop(c) \/ ToModal(c, {"login"}) BY <1>5 DEF WSAuthStale, WSAuthFailed
  <2>3. /\ cmds' = cmds \ {c} /\ UNCHANGED <<gen, token, conn, opened, screen>>
        /\ modal' = modal \/ modal' = [modal EXCEPT !.waits = FALSE]
    BY <1>1, <2>2 DEF Drop
  <2> QED BY <2>1, <2>3, DropSteps
<1>6. CASE \/ LoginPending(c) \/ CreateAccountRequested(c) \/ Cancelled(c)
           \/ RegisterSucceeded(c) \/ VerifySucceeded(c)
  <2>1. c.kind \in DialogAnswers
    BY <1>6 DEF LoginPending, CreateAccountRequested, Cancelled, RegisterSucceeded, VerifySucceeded,
                Handle, DialogAnswers
  <2>2. PICK kind \in DialogKinds : OpenFor(c, kind)
    BY <1>6 DEF LoginPending, CreateAccountRequested, Cancelled, RegisterSucceeded, VerifySucceeded,
                DialogKinds
  <2> QED BY <2>1, <2>2, OpenSteps
<1>7. CASE LoginSucceeded(c) BY <1>7, LoginSteps
<1>8. CASE WSAuthSucceeded(c) BY <1>8, HandOverSteps
<1>9. CASE WSDisconnected(c)
  <2>1. /\ UNCHANGED <<socks, loops, closing, keys, done, crossed>> /\ c.kind = "disconnect"
    BY <1>9 DEF WSDisconnected, net, Handle
  <2>2. CASE Drop(c)
    <3>1. UNCHANGED <<loops, closing, keys, done>> /\ socks' = socks /\ crossed' = crossed BY <2>1
    <3> QED BY <2>1, <2>2, <3>1, DropSteps DEF Drop
  <2>3. CASE c.gen = gen /\ resetSession /\ Open("login") /\ cmds' = cmds \ {c}
    <3>1. ASSUME ~crossed PROVE /\ \A e \in cmds : e.kind = "dial" => e.gen # gen
                                /\ conn \in closing' \/ conn \notin socks
      <4>1. Handshakes /\ Shown BY <3>1 DEF SessionInv
      <4>2. \A e \in cmds : e.kind = "dial" => e.gen # gen BY <2>1, <2>3, <4>1 DEF Handshakes
      <4>3. conn \notin socks
        <5>1. conn = 0 \/ conn = gen BY <4>1 DEF Shown
        <5>2. gen \notin socks BY <2>1, <2>3, <4>1 DEF Handshakes
        <5> QED BY <1>0, <5>1, <5>2
      <4> QED BY <4>2, <4>3
    <3>2. closing \subseteq closing' BY <2>1
    <3>3. c.kind # "dial" BY <2>1
    <3> QED BY <2>1, <2>3, <3>1, <3>2, <3>3, EndSteps
  <2> QED BY <1>9, <2>2, <2>3 DEF WSDisconnected
<1>10. CASE Unauthorized(c)
  <2>1. /\ CloseGracefully /\ resetSession /\ Open("login") /\ cmds' = cmds \ {c}
        /\ UNCHANGED <<socks, loops, keys, done, crossed>> /\ c.kind # "dial" /\ conn # 0
    BY <1>10 DEF Unauthorized, handleSessionExpiry, RoomCalls, liveRoomResult, hasLiveSession
  <2>2. closing' = closing \cup {conn} BY <2>1 DEF CloseGracefully
  <2>3. ASSUME ~crossed PROVE \A e \in cmds : e.kind = "dial" => e.gen # gen
    <3>1. Handshakes /\ Shown BY <2>3 DEF SessionInv
    <3> QED BY <2>1, <3>1 DEF Handshakes, Shown
  <2> QED BY <2>1, <2>2, <2>3, EndSteps
<1>11. CASE JoinedRoomsLoaded(c) \/ JoinedRoomsLoadFailed(c) \/ RoomLeft(c) \/ RoomEventsLoaded(c) \/ RoomEntered(c)
  <2>1. /\ c.gen = gen /\ conn # 0 /\ c.kind # "dial" /\ Quiet /\ UNCHANGED <<gen, token, conn, opened>>
        /\ modal' = modal \/ modal' = NoModal
    BY <1>11 DEF JoinedRoomsLoaded, JoinedRoomsLoadFailed, RoomLeft, RoomEventsLoaded, RoomEntered,
                 Handle, liveRoomResult, hasLiveSession
  <2>2. rooms' \in RoomsShape /\ rooms'.owner \in {rooms.owner, gen}
    <3>1. \/ rooms' = rooms \/ rooms' = [rooms EXCEPT !.loading = FALSE, !.failed = TRUE]
          \/ rooms' = [loading |-> FALSE, failed |-> FALSE, owner |-> gen, armed |-> FALSE]
      BY <1>11, <2>1 DEF JoinedRoomsLoaded, JoinedRoomsLoadFailed, RoomLeft, RoomEventsLoaded, RoomEntered
    <3>2. CASE rooms' = rooms BY <1>0, <3>2
    <3>3. CASE rooms' = [rooms EXCEPT !.loading = FALSE, !.failed = TRUE] BY <1>0, <3>3 DEF RoomsShape
    <3>4. CASE rooms' = [loading |-> FALSE, failed |-> FALSE, owner |-> gen, armed |-> FALSE] BY <1>0, <3>4 DEF RoomsShape
    <3> QED BY <3>1, <3>2, <3>3, <3>4
  <2>3. active' \in {active, 0, gen} /\ bucket' \in {bucket, gen}
    BY <1>11, <2>1 DEF JoinedRoomsLoaded, JoinedRoomsLoadFailed, RoomLeft, RoomEventsLoaded, RoomEntered
  <2>4. PICK new \in SUBSET {Cmd("joined", gen, 0), Cmd("events", gen, 0)} : cmds' = (cmds \ {c}) \cup new
    <3> DEFINE J == {Cmd("joined", gen, 0)}
               E == {Cmd("events", gen, 0)}
    <3>1. \/ cmds' = cmds \ {c}
          \/ cmds' = (cmds \ {c}) \cup J
          \/ \E load \in {{}, E} : cmds' = (cmds \ {c}) \cup J \cup load
      BY <1>11 DEF JoinedRoomsLoaded, JoinedRoomsLoadFailed, RoomEventsLoaded, RoomLeft, RoomEntered,
                   LoadJoinedRoomsCmd, LoadEventsCmd, beginBackfill
    <3>2. \E new \in {{}, J, J \cup E} : cmds' = (cmds \ {c}) \cup new BY <3>1
    <3> QED BY <3>2
  <2>5. new \subseteq {Cmd(k, gen, 0) : k \in {"joined", "events"}} BY <2>4
  <2>6. UNCHANGED <<gen, token, conn, opened, net, keys, done, crossed>> BY <2>1 DEF Quiet
  <2>7. \/ modal'.kind = modal.kind /\ modal'.id = modal.id /\ modal' \in ModalShape
        \/ modal' = NoModal
    BY <1>0, <2>1
  <2>8. {rooms'.owner, active', bucket'} \subseteq {rooms.owner, active, bucket, 0, gen} BY <2>2, <2>3
  <2> QED BY <2>1, <2>2, <2>4, <2>5, <2>6, <2>7, <2>8, PaneSteps
<1>12. CASE CreateRoomRequested(c)
  BY <1>12, SwapSteps DEF CreateRoomRequested, DialogKinds
<1>13. CASE CreateRoomCancelled(c)
  BY <1>13, SwapSteps DEF CreateRoomCancelled, DialogKinds
<1> QED BY <1>2, <1>3, <1>4, <1>5, <1>6, <1>7, <1>8, <1>9, <1>10, <1>11, <1>12, <1>13 DEF Answer

LEMMA SessionStep == SessionInv /\ [Next]_vars => SessionInv'
<1> SUFFICES ASSUME SessionInv, [Next]_vars PROVE SessionInv' OBVIOUS
<1>0. keys \in Nat /\ done \in BOOLEAN BY DEF SessionInv, Shapes
<1>1. CASE Keystroke BY <1>1, KeySteps
<1>2. CASE Deliver BY <1>2, AnswerSteps DEF Deliver
<1>3. CASE Quit
  <2>1. /\ UNCHANGED <<gen, token, conn, modal, opened, rooms, active, cmds, socks, loops, crossed>>
        /\ keys' \in Nat /\ bucket' \in {bucket, gen} /\ closing \subseteq closing'
    BY <1>0, <1>3 DEF Quit, screen, CloseGracefully
  <2>2. done' = TRUE BY <1>3 DEF Quit
  <2>3. done' \in BOOLEAN /\ (done => done') BY <2>2
  <2> QED BY <2>1, <2>3, AsideSteps
<1>4. ASSUME NEW s \in loops, WSFrameReceived(s) PROVE SessionInv'
  <2>1. /\ UNCHANGED <<gen, token, conn, modal, opened, rooms, active, cmds, socks, loops, crossed>>
        /\ keys' \in Nat /\ bucket' \in {bucket, gen} /\ closing \subseteq closing' /\ done' = done
    BY <1>0, <1>4 DEF WSFrameReceived, net
  <2>2. done' \in BOOLEAN /\ (done => done') BY <1>0, <2>1
  <2> QED BY <2>1, <2>2, AsideSteps
<1>5. ASSUME NEW s \in loops, ReadLoopEnds(s) PROVE SessionInv' BY <1>5, LoopEndSteps
<1>6. CASE UNCHANGED vars
  <2>1. /\ UNCHANGED <<gen, token, conn, modal, opened, rooms, active, cmds, socks, loops, crossed>>
        /\ keys' \in Nat /\ bucket' \in {bucket, gen} /\ closing \subseteq closing' /\ done' = done
    BY <1>0, <1>6 DEF vars, screen, net
  <2>2. done' \in BOOLEAN /\ (done => done') BY <1>0, <2>1
  <2> QED BY <2>1, <2>2, AsideSteps
<1> QED BY <1>1, <1>2, <1>3, <1>4, <1>5, <1>6 DEF Next

LEMMA SessionInvariant == Spec => []SessionInv
<1> QED BY SessionInit, SessionStep, PTL DEF Spec

\* The rooms, the active room, the scrollback and the socket on the screen are
\* those of the live session: answers, frames and disconnects of earlier ones
\* do not get in (app/app_session.go and app/app_rooms.go, the checks of sessionGeneration).
THEOREM ScreenIsLive == Spec => []OwnSession
<1>1. SessionInv => OwnSession BY DEF SessionInv, Shown, OwnSession
<1> QED BY <1>1, SessionInvariant, PTL

\* Every open socket has an owner that closes it: the handshake on its way, or
\* a read loop that serves the live session or was told to close
\* (api/client.go, DialAndAuthCmd and ReadLoopCmd).
THEOREM SocketsOwned == Spec => []SocketOwned
<1>1. SessionInv => SocketOwned
  BY DEF SessionInv, SocketOwned
<1> QED BY <1>1, SessionInvariant, PTL
==============================================================================
