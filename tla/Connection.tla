------------------------------ MODULE Connection ------------------------------
(***************************************************************************)
(* One UserConnection actor with its WebSocket, its read and write pump    *)
(* and its timers (internal/actor/connection).  The mailbox is a sequence  *)
(* of messages, the outbound channel a bounded sequence of frames; "wire"  *)
(* is what the client has been sent.                                       *)
(*                                                                         *)
(* Time is left out: a timer that is armed may fire at any moment.  The    *)
(* RegisterConnection call blocks the handler that issued it while the     *)
(* mailbox fills; its two outcomes are left open here, module Presence     *)
(* models the other end and the re-registration policy.  A frame is        *)
(* written in one step: writeTimeout bounds it.                            *)
(***************************************************************************)
EXTENDS Naturals, Sequences

CONSTANTS
    OutboundSize,  \* outboundBufferSize
    MaxFrames,     \* bound: frames the client sends
    MaxEvents,     \* bound: room events the grain forwards
    MaxTicks,      \* bound: ping ticks
    MaxSignals     \* bound: death or retry signals, and malformed events

ASSUME OutboundPositive == OutboundSize \in Nat \ {0}
ASSUME ConnectionBounds ==
    MaxFrames \in Nat /\ MaxEvents \in Nat /\ MaxTicks \in Nat /\ MaxSignals \in Nat

VARIABLES
    phase,       \* the installed behavior; "stopped" once Stopping ran
    mailbox,     \* messages queued for the actor
    calling,     \* the handler that waits for RegisterConnection
    registered,  \* whether the grain has stored this connection
    outbound,    \* UserConnection.outbound
    readPump,    \* runReadPump
    writePump,   \* runWritePump
    cancelled,   \* the context of the pumps is cancelled
    socket,      \* the WebSocket, as far as this process closes it
    authTimer,   \* the one-shot timer of authTimeoutMiddleware
    watchdog,    \* whether heartbeatTimers.watchdogCancel is set
    ticking,     \* whether that timer has not fired yet
    wire,        \* frames the client has been sent
    frames, events, ticks, signals   \* inputs so far

actorVars == <<phase, mailbox, calling, registered, outbound>>
pumpVars == <<readPump, writePump, cancelled, socket, wire>>
timerVars == <<authTimer, watchdog, ticking>>
inputVars == <<frames, events, ticks, signals>>
vars == <<actorVars, pumpVars, timerVars, inputVars>>

Msg(k, i) == [kind |-> k, n |-> i]

ClientFrames == {"auth", "badAuth", "missingToken", "garbage", "pong"}
ReadEnds == {"connectionClosed", "readPumpPanicked"}
TearDown == ReadEnds \cup {"writePumpFailed", "writePumpClosed"}

Init ==
    /\ phase = "preAuth"
    /\ mailbox = <<>> /\ outbound = <<>> /\ wire = <<>>
    /\ calling = "none" /\ registered = FALSE
    /\ readPump = "running" /\ writePump = "running"
    /\ cancelled = FALSE /\ socket = "open"
    /\ authTimer = "armed" /\ watchdog = FALSE /\ ticking = FALSE
    /\ frames = 0 /\ events = 0 /\ ticks = 0 /\ signals = 0

\* notify, and root.Send: a message to a stopped actor is a dead letter.
Notify(m) == mailbox' = IF phase = "stopped" THEN mailbox ELSE Append(mailbox, m)

------------------------------------------------------------------------------
(* Sending and stopping.                                                   *)

Fits(q) == Len(q) < OutboundSize

\* Stopping: the timers are stopped and shutdown cancels the pumps; the
\* mailbox is lost.  CloseSocket is the rest of shutdown.
Stopping(q) ==
    /\ phase' = "stopped" /\ mailbox' = <<>> /\ outbound' = q
    /\ calling' = "none"
    /\ cancelled' = TRUE
    /\ watchdog' = FALSE /\ ticking' = FALSE
    /\ UNCHANGED <<registered, readPump, writePump, socket, wire, authTimer,
                   inputVars>>

\* mutant: a full channel drops the message
SendOutboundDropping(f, next, rest) ==
    /\ outbound' = IF Fits(outbound) THEN Append(outbound, f) ELSE outbound
    /\ phase' = next /\ mailbox' = rest /\ calling' = "none"
    /\ UNCHANGED <<registered, pumpVars, timerVars, inputVars>>

\* sendOutbound, then the rest of the handler; a full channel is a panic and
\* the guardian stops the actor.
SendOutbound(f, next, rest) ==
    \/ /\ Fits(outbound)
       /\ outbound' = Append(outbound, f)
       /\ phase' = next /\ mailbox' = rest /\ calling' = "none"
       /\ UNCHANGED <<registered, pumpVars, timerVars, inputVars>>
    \/ ~Fits(outbound) /\ Stopping(outbound)

BestEffort(f) == IF Fits(outbound) THEN Append(outbound, f) ELSE outbound

\* mutant: the close frame is queued if there is room and forgotten otherwise
ClosesBestEffort(q, rest) ==
    /\ outbound' = IF Fits(q) THEN Append(q, Msg("close", 0)) ELSE q
    /\ phase' = "closing" /\ mailbox' = rest /\ calling' = "none"
    /\ UNCHANGED <<registered, pumpVars, authTimer, inputVars>>

\* newClosingBehavior: queue the close frame, or panic and stop.  The caller
\* says what happens to the watchdog.
Closes(q, rest) ==
    \/ /\ Fits(q)
       /\ outbound' = Append(q, Msg("close", 0))
       /\ phase' = "closing" /\ mailbox' = rest /\ calling' = "none"
       /\ UNCHANGED <<registered, pumpVars, authTimer, inputVars>>
    \/ ~Fits(q) /\ Stopping(q)

KeepsWatchdog == phase' # "stopped" => UNCHANGED <<watchdog, ticking>>

Rejects(rest) == Closes(BestEffort(Msg("auth_error", 0)), rest) /\ KeepsWatchdog

------------------------------------------------------------------------------
(* Receive: the actor takes the first message of its mailbox.              *)

Receives(k) ==
    /\ phase # "stopped" /\ calling = "none"
    /\ mailbox # <<>> /\ Head(mailbox).kind = k

Drops ==
    /\ mailbox' = Tail(mailbox)
    /\ UNCHANGED <<phase, calling, registered, outbound, pumpVars, timerVars, inputVars>>

BlocksFor(h) ==
    /\ calling' = h /\ mailbox' = Tail(mailbox)
    /\ UNCHANGED <<phase, registered, outbound, pumpVars, timerVars, inputVars>>

\* InboundAuth: handleAuth validates the token and calls the grain.
InboundAuth ==
    \/ Receives("auth") /\ phase = "preAuth" /\ BlocksFor("auth")
    \/ Receives("badAuth") /\ phase = "preAuth" /\ Rejects(Tail(mailbox))
    \/ /\ Receives("auth") \/ Receives("badAuth")
       /\ phase # "preAuth" /\ Drops

\* The grain executes RegisterConnection; the answer is on its way.
GrainStores ==
    /\ calling # "none" /\ ~registered
    /\ registered' = TRUE
    /\ UNCHANGED <<phase, mailbox, calling, outbound, pumpVars, timerVars, inputVars>>

AuthSucceeds ==
    /\ calling = "auth" /\ registered
    /\ SendOutbound(Msg("auth_ok", 0), "postAuth", mailbox)

\* A transport error or an inline error of the grain.
AuthFails ==
    /\ calling = "auth"
    /\ Rejects(mailbox)

\* mutant: the deadline is ignored as if authentication had succeeded
AuthTimeoutIgnored == Receives("authTimeout") /\ Drops

AuthTimeoutExpired ==
    /\ Receives("authTimeout")
    /\ \/ phase = "preAuth" /\ Rejects(Tail(mailbox))
       \/ phase # "preAuth" /\ Drops

\* ProtocolViolation and DecodeFailed.
BadFrame ==
    \/ Receives("missingToken") /\ phase = "preAuth" /\ Rejects(Tail(mailbox))
    \/ Receives("missingToken") /\ phase # "preAuth" /\ Drops
    \/ Receives("garbage") /\ Drops

\* ForwardMessage and NotifyRoomEvent from the grain; an event whose room or
\* user has no public code is dropped.
RoomEvent ==
    \/ /\ Receives("event") /\ phase = "postAuth"
       /\ SendOutbound(Head(mailbox), "postAuth", Tail(mailbox))
    \/ Receives("event") /\ phase # "postAuth" /\ Drops
    \/ Receives("badEvent") /\ Drops

\* Terminated or ReregisterRetry: an attempt to register again, or a stale or
\* duplicate signal that is ignored.
Repair ==
    /\ Receives("repair")
    /\ (phase = "postAuth" /\ BlocksFor("repair")) \/ Drops

RepairEnds ==
    /\ calling = "repair"
    /\ \/ /\ calling' = "none"
          /\ UNCHANGED <<phase, mailbox, registered, outbound, pumpVars, timerVars, inputVars>>
       \/ Closes(outbound, mailbox) /\ KeepsWatchdog

\* resetWatchdog: a new timer replaces the old one, whose message may already
\* be in the mailbox.
ResetWatchdog == watchdog' = TRUE /\ ticking' = TRUE

EnsureWatchdog == IF watchdog THEN UNCHANGED <<watchdog, ticking>> ELSE ResetWatchdog

\* AppPingTick: the behavior sends a ping (not while closing), then Receive
\* makes sure that the watchdog runs.
AppPingTick ==
    /\ Receives("pingTick")
    /\ \/ /\ phase = "closing" \/ Fits(outbound)
          /\ outbound' = IF phase = "closing" THEN outbound
                         ELSE Append(outbound, Msg("ping", 0))
          /\ mailbox' = Tail(mailbox)
          /\ EnsureWatchdog
          /\ UNCHANGED <<phase, calling, registered, pumpVars, authTimer, inputVars>>
       \/ phase # "closing" /\ ~Fits(outbound) /\ Stopping(outbound)

AppPongReceived ==
    /\ Receives("pong")
    /\ mailbox' = Tail(mailbox)
    /\ ResetWatchdog
    /\ UNCHANGED <<phase, calling, registered, outbound, pumpVars, authTimer, inputVars>>

\* PongTimeoutExpired: whichever watchdog is running is cancelled; the
\* behavior closes.
PongTimeoutExpired ==
    /\ Receives("pongTimeout")
    /\ watchdog' = FALSE /\ ticking' = FALSE
    /\ \/ phase # "closing" /\ Closes(outbound, Tail(mailbox))
       \/ /\ phase = "closing" /\ mailbox' = Tail(mailbox)
          /\ UNCHANGED <<phase, calling, registered, outbound, pumpVars, authTimer,
                   inputVars>>

\* The pumps report that the connection is gone or that the close frame is out.
TransportGone ==
    /\ \E k \in TearDown : Receives(k)
    /\ Stopping(outbound)

------------------------------------------------------------------------------
(* Timers.                                                                 *)

AuthTimerFires ==
    /\ authTimer = "armed" /\ authTimer' = "spent"
    /\ Notify(Msg("authTimeout", 0))
    /\ UNCHANGED <<phase, calling, registered, outbound, pumpVars, watchdog, ticking,
                   inputVars>>

PingTimerFires ==
    /\ phase # "stopped" /\ ticks < MaxTicks
    /\ ticks' = ticks + 1
    /\ Notify(Msg("pingTick", 0))
    /\ UNCHANGED <<phase, calling, registered, outbound, pumpVars, timerVars, frames,
                   events, signals>>

WatchdogFires ==
    /\ ticking /\ ticking' = FALSE
    /\ Notify(Msg("pongTimeout", 0))
    /\ UNCHANGED <<phase, calling, registered, outbound, pumpVars, authTimer, watchdog,
                   inputVars>>

------------------------------------------------------------------------------
(* The pumps and the world.                                                *)

ReadFrame ==
    /\ readPump = "running" /\ ~cancelled /\ frames < MaxFrames
    /\ frames' = frames + 1
    /\ \E k \in ClientFrames : Notify(Msg(k, 0))
    /\ UNCHANGED <<phase, calling, registered, outbound, pumpVars, timerVars, events,
                   ticks, signals>>

\* A wire-level error, a close by the peer, or a recovered panic.
ReadFails ==
    /\ readPump = "running" /\ ~cancelled /\ readPump' = "done"
    /\ \E k \in ReadEnds : Notify(Msg(k, 0))
    /\ UNCHANGED <<phase, calling, registered, outbound, writePump, cancelled, socket,
                   wire, timerVars, inputVars>>

\* Once cancelled, the pump leaves when its read returns: closing the socket
\* makes it return.
ReadPumpReturns ==
    /\ readPump = "running" /\ cancelled /\ socket = "closed"
    /\ readPump' = "done"
    /\ UNCHANGED <<actorVars, writePump, cancelled, socket, wire, timerVars, inputVars>>

Draining == writePump = "running" /\ outbound # <<>>

WriteFrame ==
    /\ Draining /\ Head(outbound).kind # "close" /\ socket = "open"
    /\ wire' = Append(wire, Head(outbound)) /\ outbound' = Tail(outbound)
    /\ UNCHANGED <<phase, mailbox, calling, registered, readPump, writePump, cancelled,
                   socket, timerVars, inputVars>>

WriteFails ==
    /\ Draining /\ Head(outbound).kind # "close"
    /\ writePump' = "done" /\ outbound' = Tail(outbound)
    /\ Notify(Msg("writePumpFailed", 0))
    /\ UNCHANGED <<phase, calling, registered, readPump, cancelled, socket, wire,
                   timerVars, inputVars>>

\* CloseConnection: the pump reports WritePumpClosed whether or not the close
\* frame went out.
WriteClose ==
    /\ Draining /\ Head(outbound).kind = "close"
    /\ writePump' = "done" /\ outbound' = Tail(outbound)
    /\ \/ socket = "open" /\ wire' = Append(wire, Head(outbound))
       \/ UNCHANGED wire
    /\ Notify(Msg("writePumpClosed", 0))
    /\ UNCHANGED <<phase, calling, registered, readPump, cancelled, socket, timerVars,
                   inputVars>>

WritePumpReturns ==
    /\ writePump = "running" /\ cancelled
    /\ writePump' = "done"
    /\ UNCHANGED <<actorVars, readPump, cancelled, socket, wire, timerVars, inputVars>>

\* mutant: shutdown cancels the context and does not close the WebSocket
CloseSocketNever ==
    /\ cancelled /\ socket = "open"
    /\ UNCHANGED vars

\* The last call of shutdown.
CloseSocket ==
    /\ cancelled /\ socket = "open"
    /\ socket' = "closed"
    /\ UNCHANGED <<actorVars, readPump, writePump, cancelled, wire, timerVars, inputVars>>

GrainForwards ==
    /\ registered /\ phase # "stopped"
    /\ \/ /\ events < MaxEvents /\ events' = events + 1
          /\ Notify(Msg("event", events + 1))
          /\ UNCHANGED signals
       \/ /\ signals < MaxSignals /\ signals' = signals + 1
          /\ Notify(Msg("badEvent", 0))
          /\ UNCHANGED events
    /\ UNCHANGED <<phase, calling, registered, outbound, pumpVars, timerVars, frames,
                   ticks>>

\* The watched activation dies, or the retry timer of a repair fires.
RepairSignal ==
    /\ phase = "postAuth" /\ signals < MaxSignals
    /\ signals' = signals + 1
    /\ Notify(Msg("repair", 0))
    /\ UNCHANGED <<phase, calling, registered, outbound, pumpVars, timerVars, frames,
                   events, ticks>>

Handle ==
    \/ InboundAuth \/ AuthTimeoutExpired \/ BadFrame \/ RoomEvent \/ Repair
    \/ AppPingTick \/ AppPongReceived \/ PongTimeoutExpired \/ TransportGone

CallEnds == AuthSucceeds \/ AuthFails \/ RepairEnds

WritePump == WriteFrame \/ WriteFails \/ WriteClose \/ WritePumpReturns

Next ==
    \/ Handle \/ CallEnds \/ GrainStores
    \/ AuthTimerFires \/ PingTimerFires \/ WatchdogFires
    \/ ReadFrame \/ ReadFails \/ ReadPumpReturns
    \/ WritePump \/ CloseSocket
    \/ GrainForwards \/ RepairSignal

Spec == Init /\ [][Next]_vars

\* The mailbox is served, a call ends within the request timeout, a write
\* within writeTimeout, shutdown runs to its end and the deadline of
\* authentication fires.  Nothing is assumed of the client or of the grain.
FairSpec ==
    /\ Spec
    /\ WF_vars(Handle) /\ WF_vars(CallEnds)
    /\ WF_vars(WritePump) /\ WF_vars(ReadPumpReturns) /\ WF_vars(CloseSocket)
    /\ WF_vars(AuthTimerFires)

------------------------------------------------------------------------------
Messages ==
    [kind : ClientFrames \cup TearDown \cup
            {"authTimeout", "pingTick", "pongTimeout", "event", "badEvent", "repair"},
     n : Nat]

Frames == [kind : {"auth_ok", "auth_error", "event", "ping", "close"}, n : Nat]

\* Every variable keeps its type and the outbound channel its bound.
TypeOK ==
    /\ phase \in {"preAuth", "postAuth", "closing", "stopped"}
    /\ mailbox \in Seq(Messages)
    /\ calling \in {"none", "auth", "repair"}
    /\ registered \in BOOLEAN
    /\ outbound \in Seq(Frames) /\ Len(outbound) <= OutboundSize
    /\ readPump \in {"running", "done"} /\ writePump \in {"running", "done"}
    /\ cancelled \in BOOLEAN
    /\ socket \in {"open", "closed"}
    /\ authTimer \in {"armed", "spent"}
    /\ watchdog \in BOOLEAN
    /\ ticking \in BOOLEAN
    /\ wire \in Seq(Frames)
    /\ frames \in 0 .. MaxFrames /\ events \in 0 .. MaxEvents
    /\ ticks \in 0 .. MaxTicks /\ signals \in 0 .. MaxSignals

\* The frames the client receives follow module WireProtocol: the verdict
\* first, events in order and without a gap, nothing after the close frame.
Wire == INSTANCE WireProtocol WITH offered <- events
KeepsWireProtocol == Wire!WireSpec

\* newClosingBehavior: a connection that began to close stops, also when the
\* outbound channel is full or the peer never answers.
ClosingStops == phase = "closing" ~> phase = "stopped"

\* authTimeoutMiddleware: no connection stays unauthenticated for ever.
AuthBounded == phase = "preAuth" ~> phase # "preAuth"

\* Receive, Stopping: a stopped connection leaves no goroutine and no socket.
Released ==
    phase = "stopped" ~>
        readPump = "done" /\ writePump = "done" /\ socket = "closed"
==============================================================================
