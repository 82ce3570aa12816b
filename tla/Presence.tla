------------------------------- MODULE Presence -------------------------------
(***************************************************************************)
(* The bidirectional watch between the WebSocket connection actors of one  *)
(* user and that user's grain (internal/actor/connection and               *)
(* internal/grain/user, ADR-006 and ADR-012).  A connection registers with *)
(* the activation of the grain that answers, the grain watches the         *)
(* connection, the connection watches the activation, and each survivor    *)
(* repairs its side: the grain evicts, the connection registers again.     *)
(*                                                                         *)
(* Activations are numbered in the order the cluster makes them; at most   *)
(* one is alive.  A RegisterConnection call blocks the connection's        *)
(* handler; it may be executed, answered, lost, or executed after its      *)
(* caller gave up.  The socket side of the connection (frames, pumps,      *)
(* heartbeat) is in module Connection; here it only decides to close.      *)
(***************************************************************************)
EXTENDS Naturals

CONSTANTS
    Conns,           \* connection actors of the user, one per WebSocket
    MaxAttempts,     \* reregisterMaxAttempts
    MaxActivations,  \* bound: activations the cluster makes
    Breaks,          \* the sides that may take a broken link for a death
    MaxBreaks,       \* bound: broken links
    OldGrains        \* whether some activations answer without their PID

ASSUME AttemptsPositive == MaxAttempts \in Nat \ {0}
ASSUME PresenceBounds == MaxActivations \in Nat /\ MaxBreaks \in Nat
ASSUME BreakSides == Breaks \subseteq {"connection", "grain"}
ASSUME OldGrainsFlag == OldGrains \in BOOLEAN

VARIABLES
    phase,     \* the installed behavior of each connection
    grainPID,  \* UserConnection.grainPID: the activation it watches, 0 is nil
    attempts,  \* UserConnection.reregisterAttempts
    handle,    \* whether UserConnection.reregisterRetryCancel is set
    retries,   \* ReregisterRetry timers armed or queued for the connection
    call,      \* the RegisterConnection call its handler is waiting for
    late,      \* calls given up on that may still reach the grain
    watching,  \* the activations whose death the connection will be told of
    died,      \* Terminated messages queued for the connection
    live,      \* the live activation, 0 when there is none
    made,      \* activations made so far
    registry,  \* userState.connections of the live activation
    watched,   \* the connections the live activation watches
    gone,      \* WatchedTerminated messages queued for the live activation
    broken,    \* links broken so far
    severed    \* history: connections the live activation took for dead although they ran

connVars == <<phase, grainPID, attempts, handle, retries, call, watching, died>>
grainVars == <<live, made, registry, watched, gone>>
links == <<broken, severed>>
vars == <<connVars, grainVars, late, links>>

Activations == 1 .. MaxActivations

NoCall == [stage |-> "none", pid |-> 0]
Sent == [stage |-> "sent", pid |-> 0]
Replied(g) == [stage |-> "replied", pid |-> g]

Init ==
    /\ phase = [c \in Conns |-> "preAuth"]
    /\ grainPID = [c \in Conns |-> 0]
    /\ attempts = [c \in Conns |-> 0]
    /\ handle = [c \in Conns |-> FALSE]
    /\ retries = [c \in Conns |-> 0]
    /\ call = [c \in Conns |-> NoCall]
    /\ watching = [c \in Conns |-> {}]
    /\ died = [c \in Conns |-> {}]
    /\ live = 0 /\ made = 0
    /\ registry = {} /\ watched = {} /\ gone = {}
    /\ late = {}
    /\ broken = 0
    /\ severed = {}

------------------------------------------------------------------------------
(* The grain and the cluster runtime.                                      *)

\* A message to the user's identity activates the grain with an empty set of
\* connections.
Activate ==
    /\ live = 0 /\ made < MaxActivations
    /\ live' = made + 1 /\ made' = made + 1
    /\ registry' = {} /\ watched' = {} /\ gone' = {}
    /\ UNCHANGED <<connVars, late, links>>

\* The activation ends: passivation, relocation, or the loss of its node.
GrainDies ==
    /\ live # 0
    /\ live' = 0
    /\ died' = [c \in Conns |-> IF live \in watching[c] THEN died[c] \cup {live}
                                                        ELSE died[c]]
    /\ registry' = {} /\ watched' = {} /\ gone' = {}
    /\ severed' = {}
    /\ UNCHANGED <<phase, grainPID, attempts, handle, retries, call, watching,
                   made, late, broken>>

\* mutant: the grain stores the PID and does not watch it
RegisteredUnwatched(c) ==
    /\ live # 0
    /\ registry' = registry \cup {c}
    /\ UNCHANGED <<phase, grainPID, attempts, handle, retries, watching, died,
                   live, made, watched, gone, links>>

\* RegisterConnection: store the PID, watch it; the watch of an actor that is
\* already gone is answered at once.
Registered(c) ==
    /\ live # 0
    /\ registry' = registry \cup {c}
    /\ watched' = watched \cup {c}
    /\ gone' = IF phase[c] = "stopped" THEN gone \cup {c} ELSE gone
    /\ UNCHANGED <<phase, grainPID, attempts, handle, retries, watching, died,
                   live, made, links>>

RegisterConnection(c) ==
    /\ call[c].stage = "sent"
    /\ Registered(c)
    /\ \E g \in {live} \cup (IF OldGrains THEN {0} ELSE {}) :
          call' = [call EXCEPT ![c] = Replied(g)]
    /\ UNCHANGED late

RegisterLate(c) ==
    /\ c \in late
    /\ Registered(c)
    /\ late' = late \ {c}
    /\ UNCHANGED call

LateRequestLost(c) ==
    /\ c \in late
    /\ late' = late \ {c}
    /\ UNCHANGED <<connVars, grainVars, links>>

\* ReceiveDefault, on WatchedTerminated: removeConnection.
Evict(c) ==
    /\ live # 0 /\ c \in gone
    /\ registry' = registry \ {c}
    /\ watched' = watched \ {c}
    /\ gone' = gone \ {c}
    /\ UNCHANGED <<connVars, live, made, late, links>>

\* The remote layer reports a broken link as the death of the other end.
BreakAtConnection(c) ==
    /\ "connection" \in Breaks /\ broken < MaxBreaks
    /\ live # 0 /\ live \in watching[c]
    /\ died' = [died EXCEPT ![c] = @ \cup {live}]
    /\ broken' = broken + 1
    /\ UNCHANGED <<phase, grainPID, attempts, handle, retries, call, watching,
                   grainVars, late, severed>>

BreakAtGrain(c) ==
    /\ "grain" \in Breaks /\ broken < MaxBreaks
    /\ live # 0 /\ c \in watched
    /\ gone' = gone \cup {c}
    /\ broken' = broken + 1
    /\ severed' = severed \cup {c}
    /\ UNCHANGED <<connVars, live, made, registry, watched, late>>

------------------------------------------------------------------------------
(* The connection.                                                         *)

Idle(c) == call[c].stage = "none"

\* A handler that stops waiting leaves a request that may still be on its way.
GiveUp(c) ==
    /\ call' = [call EXCEPT ![c] = NoCall]
    /\ late' = IF call[c].stage = "sent" THEN late \cup {c} ELSE late

\* ctx.Watch: an activation that is already dead is reported at once.
Watch(c, g) ==
    /\ watching' = IF g = 0 THEN watching ELSE [watching EXCEPT ![c] = @ \cup {g}]
    /\ died' = IF g = 0 \/ g = live THEN died ELSE [died EXCEPT ![c] = @ \cup {g}]

\* preAuthBehavior, InboundAuth with a valid token: handleAuth calls the grain.
InboundAuth(c) ==
    /\ phase[c] = "preAuth" /\ Idle(c)
    /\ call' = [call EXCEPT ![c] = Sent]
    /\ UNCHANGED <<phase, grainPID, attempts, handle, retries, watching, died,
                   grainVars, late, links>>

AuthSucceeds(c) ==
    /\ phase[c] = "preAuth" /\ call[c].stage = "replied"
    /\ phase' = [phase EXCEPT ![c] = "postAuth"]
    /\ grainPID' = [grainPID EXCEPT ![c] = call[c].pid]
    /\ call' = [call EXCEPT ![c] = NoCall]
    /\ Watch(c, call[c].pid)
    /\ UNCHANGED <<attempts, handle, retries, grainVars, late, links>>

\* register_transport_error: the call timed out or its answer was lost.
AuthFails(c) ==
    /\ phase[c] = "preAuth" /\ ~Idle(c)
    /\ phase' = [phase EXCEPT ![c] = "closing"]
    /\ GiveUp(c)
    /\ UNCHANGED <<grainPID, attempts, handle, retries, watching, died,
                   grainVars, links>>

\* attemptReregister: issue the call.
Reregister(c) == call' = [call EXCEPT ![c] = Sent]

\* mutant: a second death signal starts a second chain of attempts
RepairsAlways(c, g) == phase[c] = "postAuth" /\ g = grainPID[c]

\* postAuthBehavior, Terminated: the death of the activation it registered
\* with, unless a repair is already waiting for its retry.
Repairs(c, g) == phase[c] = "postAuth" /\ g = grainPID[c] /\ ~handle[c]

Terminated(c, g) ==
    /\ phase[c] # "stopped" /\ Idle(c) /\ g \in died[c]
    /\ died' = [died EXCEPT ![c] = @ \ {g}]
    /\ \/ Repairs(c, g) /\ Reregister(c)
       \/ ~Repairs(c, g) /\ UNCHANGED call
    /\ UNCHANGED <<phase, grainPID, attempts, handle, retries, watching,
                   grainVars, late, links>>

\* ReregisterRetry: in postAuth the handle is spent and the next attempt runs;
\* the closing behavior drops the tick.
ReregisterRetry(c) ==
    /\ phase[c] # "stopped" /\ Idle(c) /\ retries[c] > 0
    /\ retries' = [retries EXCEPT ![c] = @ - 1]
    /\ \/ /\ phase[c] = "postAuth"
          /\ handle' = [handle EXCEPT ![c] = FALSE]
          /\ Reregister(c)
       \/ phase[c] # "postAuth" /\ UNCHANGED <<handle, call>>
    /\ UNCHANGED <<phase, grainPID, attempts, watching, died, grainVars, late, links>>

\* mutant: the watch armed by the first registration is taken to last
RecordReregisterSuccessStaleWatch(c) ==
    /\ phase[c] = "postAuth" /\ call[c].stage = "replied"
    /\ grainPID' = [grainPID EXCEPT ![c] = call[c].pid]
    /\ attempts' = [attempts EXCEPT ![c] = 0]
    /\ call' = [call EXCEPT ![c] = NoCall]
    /\ UNCHANGED <<phase, handle, retries, watching, died, grainVars, late, links>>

\* recordReregisterSuccess and the fresh watch.
RecordReregisterSuccess(c) ==
    /\ phase[c] = "postAuth" /\ call[c].stage = "replied"
    /\ grainPID' = [grainPID EXCEPT ![c] = call[c].pid]
    /\ attempts' = [attempts EXCEPT ![c] = 0]
    /\ call' = [call EXCEPT ![c] = NoCall]
    /\ Watch(c, call[c].pid)
    /\ UNCHANGED <<phase, handle, retries, grainVars, late, links>>

\* mutant: the budget is tested before the attempt is counted
ExhaustedLate(c) == attempts[c] >= MaxAttempts

Exhausted(c) == attempts[c] + 1 >= MaxAttempts

\* mutant: a failed attempt schedules no retry
RecordReregisterFailureNoRetry(c) ==
    /\ phase[c] = "postAuth" /\ ~Idle(c)
    /\ GiveUp(c)
    /\ attempts' = [attempts EXCEPT ![c] = @ + 1]
    /\ \/ Exhausted(c) /\ phase' = [phase EXCEPT ![c] = "closing"]
       \/ ~Exhausted(c) /\ UNCHANGED phase
    /\ UNCHANGED <<grainPID, handle, retries, watching, died, grainVars, links>>

\* recordReregisterFailure: retry while the budget lasts, then close.
RecordReregisterFailure(c) ==
    /\ phase[c] = "postAuth" /\ ~Idle(c)
    /\ GiveUp(c)
    /\ attempts' = [attempts EXCEPT ![c] = @ + 1]
    /\ \/ /\ Exhausted(c)
          /\ phase' = [phase EXCEPT ![c] = "closing"]
          /\ UNCHANGED <<handle, retries>>
       \/ /\ ~Exhausted(c)
          /\ handle' = [handle EXCEPT ![c] = TRUE]
          /\ retries' = [retries EXCEPT ![c] = @ + 1]
          /\ UNCHANGED phase
    /\ UNCHANGED <<grainPID, watching, died, grainVars, links>>

\* The socket side begins to close: rejected or late authentication, a missed
\* pong.
BeginClosing(c) ==
    /\ phase[c] \in {"preAuth", "postAuth"} /\ Idle(c)
    /\ phase' = [phase EXCEPT ![c] = "closing"]
    /\ UNCHANGED <<grainPID, attempts, handle, retries, call, watching, died,
                   grainVars, late, links>>

\* The actor is gone: its timers and mailbox go with it, its watchers learn.
Vanish(c) ==
    /\ phase' = [phase EXCEPT ![c] = "stopped"]
    /\ handle' = [handle EXCEPT ![c] = FALSE]
    /\ retries' = [retries EXCEPT ![c] = 0]
    /\ watching' = [watching EXCEPT ![c] = {}]
    /\ died' = [died EXCEPT ![c] = {}]
    /\ gone' = IF c \in watched THEN gone \cup {c} ELSE gone
    /\ GiveUp(c)
    /\ UNCHANGED <<grainPID, attempts, live, made, registry, watched, links>>

\* Stopping, after the handler in progress: cancelReregisterRetry and shutdown.
Stopping(c) ==
    /\ phase[c] # "stopped" /\ Idle(c)
    /\ Vanish(c)

\* The gateway process dies, also in the middle of a call.
GatewayDies(c) ==
    /\ phase[c] # "stopped" /\ ~Idle(c)
    /\ Vanish(c)

ConnNext(c) ==
    \/ InboundAuth(c) \/ AuthSucceeds(c) \/ AuthFails(c)
    \/ \E g \in Activations : Terminated(c, g)
    \/ ReregisterRetry(c)
    \/ RecordReregisterSuccess(c) \/ RecordReregisterFailure(c)
    \/ BeginClosing(c) \/ Stopping(c) \/ GatewayDies(c)

GrainNext(c) ==
    \/ RegisterConnection(c) \/ RegisterLate(c) \/ LateRequestLost(c)
    \/ Evict(c)
    \/ BreakAtConnection(c) \/ BreakAtGrain(c)

Next ==
    \/ Activate \/ GrainDies
    \/ \E c \in Conns : ConnNext(c) \/ GrainNext(c)

Spec == Init /\ [][Next]_vars

\* A handler waits for its call no longer than the cluster's request timeout;
\* mailboxes and timers are served.  Nothing makes an activation appear, a
\* request arrive or a connection close.
Answered(c) ==
    \/ AuthSucceeds(c) \/ AuthFails(c)
    \/ RecordReregisterSuccess(c) \/ RecordReregisterFailure(c)

Mailbox(c) == (\E g \in Activations : Terminated(c, g)) \/ ReregisterRetry(c)

FairSpec ==
    /\ Spec
    /\ \A c \in Conns : WF_vars(Answered(c)) /\ WF_vars(Mailbox(c)) /\ WF_vars(Evict(c))

------------------------------------------------------------------------------
\* Every variable keeps its type; the attempt counter stays within its budget.
TypeOK ==
    /\ phase \in [Conns -> {"preAuth", "postAuth", "closing", "stopped"}]
    /\ grainPID \in [Conns -> 0 .. MaxActivations]
    /\ attempts \in [Conns -> 0 .. MaxAttempts]
    /\ handle \in [Conns -> BOOLEAN]
    /\ retries \in [Conns -> Nat]
    /\ call \in [Conns -> [stage : {"none", "sent", "replied"}, pid : 0 .. MaxActivations]]
    /\ late \subseteq Conns
    /\ watching \in [Conns -> SUBSET Activations]
    /\ died \in [Conns -> SUBSET Activations]
    /\ live \in 0 .. MaxActivations
    /\ made \in 0 .. MaxActivations
    /\ registry \subseteq Conns
    /\ watched \subseteq Conns
    /\ gone \subseteq Conns
    /\ broken \in 0 .. MaxBreaks
    /\ severed \subseteq Conns

Receives(c) == grainPID[c] = live /\ c \in registry

\* ADR-006: an authenticated connection that is not in the connection set of
\* the live activation has the death of the activation it knows, or the retry
\* of a repair, still to process: no schedule leaves it deaf with nothing on
\* its way.  (Not covered: a connection the live activation was told is dead
\* because the link broke on the grain's side only.)
NoSilentGap ==
    \A c \in Conns \ severed :
        (phase[c] = "postAuth" /\ Idle(c) /\ grainPID[c] # 0) =>
            Receives(c) \/ grainPID[c] \in died[c] \/ handle[c]

\* ADR-012: a PID in the connection set of the live activation belongs to an
\* actor that runs, or its eviction is queued: no ghost connection stays.
NoGhost ==
    \A c \in registry : live # 0 /\ phase[c] = "stopped" => c \in gone

\* connection.go:404-408: at most one chain of attempts is in flight; a retry
\* is pending exactly when its cancel handle is kept, and never while a call
\* runs.
OneRepairChain ==
    \A c \in Conns :
        /\ phase[c] # "closing" => retries[c] = (IF handle[c] THEN 1 ELSE 0)
        /\ handle[c] /\ phase[c] = "postAuth" => Idle(c)

\* ADR-006: deliveries recover without the client, or the connection closes
\* and the client reconnects.  (Not covered: a connection that is severed or
\* does not know its activation, because that is an old one.)
Heals ==
    \A c \in Conns :
        phase[c] = "postAuth" /\ ~Receives(c) ~>
            phase[c] # "postAuth" \/ Receives(c) \/ c \in severed \/ grainPID[c] = 0

\* ADR-012: the entry of a dead connection is evicted.
GhostsEvicted ==
    \A c \in Conns : c \in registry /\ phase[c] = "stopped" ~> c \notin registry
==============================================================================
