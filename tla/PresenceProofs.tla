---------------------------- MODULE PresenceProofs ----------------------------
(***************************************************************************)
(* Proofs about module Presence, for any number of connections and         *)
(* activations and any attempt budget.                                     *)
(*                                                                         *)
(* Two inductive invariants.  ChainInv says how the repair chain and the   *)
(* grain's bookkeeping fit together and holds whatever the network does.   *)
(* GapInv adds why no authenticated connection is deaf with nothing on its *)
(* way; it excepts the connections the live activation was told are dead   *)
(* although they run.                                                      *)
(***************************************************************************)
EXTENDS Presence, TLAPS

\* A connection that can still attempt a repair has attempts left.
Budget == \A c \in Conns :
    phase[c] \in {"preAuth", "postAuth"} => attempts[c] < MaxAttempts

\* No retry is pending before authentication.
Unarmed == \A c \in Conns : phase[c] = "preAuth" => ~handle[c]

\* The activation watches every connection it keeps.
RegistryWatched == registry \subseteq watched

\* No activation number is known before it is made.
Numbered ==
    /\ live <= made
    /\ \A c \in Conns : call[c].pid <= made /\ grainPID[c] <= made

ChainInv == TypeOK /\ Budget /\ Unarmed /\ OneRepairChain /\ RegistryWatched
            /\ NoGhost /\ Numbered

\* The grain is told only of connections that are gone, or severed.
GoneStopped == \A c \in gone \ severed : phase[c] = "stopped"

\* An authenticated connection watches the activation it knows.
WatchesKnown == \A c \in Conns :
    phase[c] = "postAuth" /\ grainPID[c] # 0 => grainPID[c] \in watching[c]

\* An answer of the live activation means that the caller is in its set.
AnswerStored == \A c \in Conns \ severed :
    call[c].stage = "replied" /\ call[c].pid # 0 /\ call[c].pid = live
        => phase[c] = "stopped" \/ c \in registry

\* The activation an authenticated connection knows is the live one, or its
\* death is still to be processed, or a repair is waiting: severed or not.
KnownOrTold == \A c \in Conns :
    phase[c] = "postAuth" /\ Idle(c) /\ grainPID[c] # 0 =>
        grainPID[c] = live \/ grainPID[c] \in died[c] \/ handle[c]

GapInv == ChainInv /\ GoneStopped /\ WatchesKnown /\ AnswerStored /\ KnownOrTold
          /\ NoSilentGap

------------------------------------------------------------------------------
(* Types.                                                                   *)

Calls == [stage : {"none", "sent", "replied"}, pid : 0 .. MaxActivations]

LEMMA CallTypes ==
    /\ NoCall \in Calls /\ Sent \in Calls
    /\ \A g \in 0 .. MaxActivations : Replied(g) \in Calls
BY PresenceBounds DEF NoCall, Sent, Replied, Calls

LEMMA TypeStep == ChainInv /\ [Next]_vars => TypeOK'
<1> SUFFICES ASSUME ChainInv, [Next]_vars PROVE TypeOK'
  OBVIOUS
<1> USE PresenceBounds, AttemptsPositive DEF Activations, links
<1>t. TypeOK /\ call \in [Conns -> Calls]
  BY DEF ChainInv, TypeOK, Calls
<1>1. CASE UNCHANGED vars
  BY <1>1, <1>t DEF TypeOK, vars, connVars, grainVars
<1>2. CASE Activate
  BY <1>2, <1>t DEF TypeOK, Activate, connVars
<1>3. CASE GrainDies
  BY <1>3, <1>t DEF TypeOK, GrainDies
<1>4. ASSUME NEW c \in Conns, ConnNext(c) PROVE TypeOK'
  <2>1. CASE InboundAuth(c)
    BY <2>1, <1>t, CallTypes DEF TypeOK, InboundAuth, Calls, grainVars
  <2>2. CASE AuthSucceeds(c)
    BY <2>2, <1>t, CallTypes DEF TypeOK, AuthSucceeds, Watch, Calls, grainVars
  <2>3. CASE AuthFails(c)
    BY <2>3, <1>t, CallTypes DEF TypeOK, AuthFails, GiveUp, Calls, grainVars
  <2>4. ASSUME NEW g \in Activations, Terminated(c, g) PROVE TypeOK'
    <3>1. call' \in [Conns -> Calls]
      BY <2>4, <1>t, CallTypes DEF Terminated, Reregister
    <3>2. died' \in [Conns -> SUBSET Activations]
      BY <2>4, <1>t DEF Terminated, TypeOK
    <3> QED BY <2>4, <1>t, <3>1, <3>2 DEF TypeOK, Terminated, Calls, grainVars
  <2>5. CASE ReregisterRetry(c)
    <3>1. call' \in [Conns -> Calls]
      BY <2>5, <1>t, CallTypes DEF ReregisterRetry, Reregister
    <3>2. retries' \in [Conns -> Nat]
      BY <2>5, <1>t DEF ReregisterRetry, TypeOK
    <3>3. handle' \in [Conns -> BOOLEAN]
      BY <2>5, <1>t DEF ReregisterRetry, TypeOK
    <3> QED BY <2>5, <1>t, <3>1, <3>2, <3>3 DEF TypeOK, ReregisterRetry, Calls, grainVars
  <2>6. CASE RecordReregisterSuccess(c)
    BY <2>6, <1>t, CallTypes
       DEF TypeOK, RecordReregisterSuccess, Watch, Calls, grainVars
  <2>7. CASE RecordReregisterFailure(c)
    <3>1. call' \in [Conns -> Calls] /\ late' \subseteq Conns
      BY <2>7, <1>t, CallTypes DEF RecordReregisterFailure, GiveUp, TypeOK
    <3>2. attempts' \in [Conns -> 0 .. MaxAttempts]
      BY <2>7, <1>t DEF RecordReregisterFailure, TypeOK, ChainInv, Budget
    <3>3. retries' \in [Conns -> Nat]
      BY <2>7, <1>t DEF RecordReregisterFailure, TypeOK
    <3>4. handle' \in [Conns -> BOOLEAN]
      BY <2>7, <1>t DEF RecordReregisterFailure, TypeOK
    <3>5. phase' \in [Conns -> {"preAuth", "postAuth", "closing", "stopped"}]
      BY <2>7, <1>t DEF RecordReregisterFailure, TypeOK
    <3> QED
      BY <2>7, <1>t, <3>1, <3>2, <3>3, <3>4, <3>5 DEF TypeOK, RecordReregisterFailure, Calls, grainVars
  <2>8. CASE BeginClosing(c)
    BY <2>8, <1>t DEF TypeOK, BeginClosing, grainVars
  <2>9. CASE Stopping(c)
    BY <2>9, <1>t, CallTypes DEF TypeOK, Stopping, Vanish, GiveUp, Calls
  <2>10. CASE GatewayDies(c)
    BY <2>10, <1>t, CallTypes DEF TypeOK, GatewayDies, Vanish, GiveUp, Calls
  <2> QED
    BY <1>4, <2>1, <2>2, <2>3, <2>4, <2>5, <2>6, <2>7, <2>8, <2>9, <2>10 DEF ConnNext
<1>5. ASSUME NEW c \in Conns, GrainNext(c) PROVE TypeOK'
  <2>1. CASE RegisterConnection(c)
    BY <2>1, <1>t, CallTypes DEF TypeOK, RegisterConnection, Registered, Calls
  <2>2. CASE RegisterLate(c)
    BY <2>2, <1>t DEF TypeOK, RegisterLate, Registered
  <2>3. CASE LateRequestLost(c)
    BY <2>3, <1>t DEF TypeOK, LateRequestLost, connVars, grainVars
  <2>4. CASE Evict(c)
    BY <2>4, <1>t DEF TypeOK, Evict, connVars
  <2>5. CASE BreakAtConnection(c)
    BY <2>5, <1>t DEF TypeOK, BreakAtConnection, grainVars
  <2>6. CASE BreakAtGrain(c)
    BY <2>6, <1>t DEF TypeOK, BreakAtGrain, connVars
  <2> QED BY <1>5, <2>1, <2>2, <2>3, <2>4, <2>5, <2>6 DEF GrainNext
<1> QED BY <1>1, <1>2, <1>3, <1>4, <1>5 DEF Next

------------------------------------------------------------------------------
(* The repair chain and the bookkeeping of the grain.                       *)

LEMMA ChainStep == ChainInv /\ [Next]_vars => ChainInv'
<1> SUFFICES ASSUME ChainInv, [Next]_vars PROVE ChainInv'
  OBVIOUS
<1> USE PresenceBounds, AttemptsPositive DEF Activations, links
<1>t. TypeOK'
  BY TypeStep
<1> DEFINE Rest == Budget /\ Unarmed /\ OneRepairChain /\ RegistryWatched /\ NoGhost /\ Numbered
<1> USE DEF ChainInv, TypeOK, Budget, Unarmed, OneRepairChain, RegistryWatched, NoGhost, Numbered,
            Idle
<1>1. CASE UNCHANGED vars
  BY <1>1, <1>t DEF vars, connVars, grainVars
<1>2. CASE Activate
  BY <1>2, <1>t DEF Activate, connVars
<1>3. CASE GrainDies
  BY <1>3, <1>t DEF GrainDies
<1>4. ASSUME NEW c \in Conns, ConnNext(c) PROVE Rest'
  <2>1. CASE InboundAuth(c)
    BY <2>1, <1>t DEF InboundAuth, grainVars, Sent
  <2>2. CASE AuthSucceeds(c)
    BY <2>2, <1>t DEF AuthSucceeds, grainVars, NoCall
  <2>3. CASE AuthFails(c)
    BY <2>3, <1>t DEF AuthFails, GiveUp, grainVars, NoCall
  <2>4. ASSUME NEW g \in Activations, Terminated(c, g) PROVE Rest'
    <3>1. CASE UNCHANGED call
      BY <2>4, <3>1, <1>t DEF Terminated, grainVars
    <3>2. CASE Repairs(c, g) /\ Reregister(c)
      BY <2>4, <3>2, <1>t DEF Terminated, Reregister, Repairs, grainVars, Sent
    <3> QED BY <2>4, <3>1, <3>2 DEF Terminated
  <2>5. CASE ReregisterRetry(c)
    <3>1. CASE phase[c] # "postAuth" /\ UNCHANGED <<handle, call>>
      BY <2>5, <3>1, <1>t DEF ReregisterRetry, grainVars
    <3>2. CASE phase[c] = "postAuth" /\ Reregister(c)
      <4>1. OneRepairChain'
        BY <2>5, <3>2, <1>t DEF ReregisterRetry, Reregister, Sent
      <4>2. Budget' /\ Unarmed'
        BY <2>5, <3>2, <1>t DEF ReregisterRetry
      <4>3. RegistryWatched' /\ NoGhost' /\ Numbered'
        BY <2>5, <3>2, <1>t DEF ReregisterRetry, Reregister, grainVars, Sent
      <4> QED BY <4>1, <4>2, <4>3
    <3> QED BY <2>5, <3>1, <3>2 DEF ReregisterRetry
  <2>6. CASE RecordReregisterSuccess(c)
    BY <2>6, <1>t DEF RecordReregisterSuccess, grainVars, NoCall
  <2>7. CASE RecordReregisterFailure(c)
    BY <2>7, <1>t DEF RecordReregisterFailure, GiveUp, Exhausted, grainVars, NoCall
  <2>8. CASE BeginClosing(c)
    BY <2>8, <1>t DEF BeginClosing, grainVars
  <2>9. CASE Stopping(c) \/ GatewayDies(c)
    <3>1. Vanish(c)
      BY <2>9 DEF Stopping, GatewayDies
    <3>2. Budget' /\ Unarmed'
      BY <3>1, <1>t DEF Vanish
    <3>3. OneRepairChain'
      BY <3>1, <1>t DEF Vanish, GiveUp, NoCall
    <3>4. RegistryWatched' /\ NoGhost'
      BY <3>1, <1>t DEF Vanish
    <3>5. Numbered'
      BY <3>1, <1>t DEF Vanish, GiveUp, NoCall
    <3> QED BY <3>2, <3>3, <3>4, <3>5
  <2> QED
    BY <1>4, <2>1, <2>2, <2>3, <2>4, <2>5, <2>6, <2>7, <2>8, <2>9 DEF ConnNext
<1>5. ASSUME NEW c \in Conns, GrainNext(c) PROVE Rest'
  <2>1. CASE RegisterConnection(c)
    BY <2>1, <1>t DEF RegisterConnection, Registered, Replied
  <2>2. CASE RegisterLate(c)
    BY <2>2, <1>t DEF RegisterLate, Registered
  <2>3. CASE LateRequestLost(c)
    BY <2>3, <1>t DEF LateRequestLost, connVars, grainVars
  <2>4. CASE Evict(c)
    BY <2>4, <1>t DEF Evict, connVars
  <2>5. CASE BreakAtConnection(c)
    BY <2>5, <1>t DEF BreakAtConnection, grainVars
  <2>6. CASE BreakAtGrain(c)
    BY <2>6, <1>t DEF BreakAtGrain, connVars
  <2> QED BY <1>5, <2>1, <2>2, <2>3, <2>4, <2>5, <2>6 DEF GrainNext
<1> QED BY <1>t, <1>1, <1>2, <1>3, <1>4, <1>5 DEF Next

------------------------------------------------------------------------------
(* The gap.                                                                 *)

LEMMA GapStep == GapInv /\ [Next]_vars => GapInv'
<1> SUFFICES ASSUME GapInv, [Next]_vars PROVE GapInv'
  OBVIOUS
<1> USE PresenceBounds, AttemptsPositive DEF Activations, links
<1>t. ChainInv' /\ ChainInv /\ TypeOK /\ TypeOK'
  BY ChainStep DEF GapInv, ChainInv
<1> DEFINE Rest == GoneStopped /\ WatchesKnown /\ AnswerStored /\ KnownOrTold /\ NoSilentGap
<1> USE DEF GapInv, TypeOK, GoneStopped, WatchesKnown, AnswerStored, KnownOrTold, NoSilentGap,
            Receives, Idle
<1>1. CASE UNCHANGED vars
  BY <1>1, <1>t DEF vars, connVars, grainVars
<1>2. CASE Activate
  <2>1. GoneStopped' /\ WatchesKnown'
    BY <1>2, <1>t DEF Activate, connVars
  <2>2. AnswerStored'
    BY <1>2, <1>t DEF Activate, connVars, ChainInv, Numbered
  <2>3. KnownOrTold' /\ NoSilentGap'
    BY <1>2, <1>t DEF Activate, connVars, ChainInv, Numbered
  <2> QED BY <1>t, <2>1, <2>2, <2>3
<1>3. CASE GrainDies
  <2>1. GoneStopped' /\ WatchesKnown' /\ AnswerStored'
    BY <1>3, <1>t DEF GrainDies
  <2>2. KnownOrTold'
    BY <1>3, <1>t DEF GrainDies
  <2>3. NoSilentGap'
    BY <1>3, <1>t, <2>2 DEF GrainDies
  <2> QED BY <1>t, <2>1, <2>2, <2>3
<1>4. ASSUME NEW c \in Conns, ConnNext(c) PROVE Rest'
  <2>1. CASE InboundAuth(c)
    BY <2>1, <1>t DEF InboundAuth, grainVars, Sent
  <2>2. CASE AuthSucceeds(c)
    BY <2>2, <1>t DEF AuthSucceeds, Watch, grainVars, NoCall
  <2>3. CASE AuthFails(c)
    BY <2>3, <1>t DEF AuthFails, GiveUp, grainVars, NoCall
  <2>4. ASSUME NEW g \in Activations, Terminated(c, g) PROVE Rest'
    <3>1. CASE ~Repairs(c, g) /\ UNCHANGED call
      BY <2>4, <3>1, <1>t DEF Terminated, Repairs, grainVars
    <3>2. CASE Repairs(c, g) /\ Reregister(c)
      BY <2>4, <3>2, <1>t DEF Terminated, Reregister, Repairs, grainVars, Sent
    <3> QED BY <2>4, <3>1, <3>2 DEF Terminated
  <2>5. CASE ReregisterRetry(c)
    <3>1. CASE phase[c] # "postAuth" /\ UNCHANGED <<handle, call>>
      BY <2>5, <3>1, <1>t DEF ReregisterRetry, grainVars
    <3>2. CASE phase[c] = "postAuth" /\ Reregister(c)
      BY <2>5, <3>2, <1>t DEF ReregisterRetry, Reregister, grainVars, Sent
    <3> QED BY <2>5, <3>1, <3>2 DEF ReregisterRetry
  <2>6. CASE RecordReregisterSuccess(c)
    BY <2>6, <1>t DEF RecordReregisterSuccess, Watch, grainVars, NoCall
  <2>7. CASE RecordReregisterFailure(c)
    BY <2>7, <1>t DEF RecordReregisterFailure, GiveUp, grainVars, NoCall
  <2>8. CASE BeginClosing(c)
    BY <2>8, <1>t DEF BeginClosing, grainVars
  <2>9. CASE Stopping(c) \/ GatewayDies(c)
    <3>1. Vanish(c)
      BY <2>9 DEF Stopping, GatewayDies
    <3>2. GoneStopped' /\ WatchesKnown'
      BY <3>1, <1>t DEF Vanish
    <3>3. AnswerStored'
      BY <3>1, <1>t DEF Vanish, GiveUp, NoCall
    <3>4. KnownOrTold' /\ NoSilentGap'
      BY <3>1, <1>t DEF Vanish, GiveUp, NoCall
    <3> QED BY <3>2, <3>3, <3>4
  <2> QED
    BY <1>4, <2>1, <2>2, <2>3, <2>4, <2>5, <2>6, <2>7, <2>8, <2>9 DEF ConnNext
<1>5. ASSUME NEW c \in Conns, GrainNext(c) PROVE Rest'
  <2>1. CASE RegisterConnection(c)
    BY <2>1, <1>t DEF RegisterConnection, Registered, Replied
  <2>2. CASE RegisterLate(c)
    BY <2>2, <1>t DEF RegisterLate, Registered
  <2>3. CASE LateRequestLost(c)
    BY <2>3, <1>t DEF LateRequestLost, connVars, grainVars
  <2>4. CASE Evict(c)
    BY <2>4, <1>t DEF Evict, connVars
  <2>5. CASE BreakAtConnection(c)
    BY <2>5, <1>t DEF BreakAtConnection, grainVars
  <2>6. CASE BreakAtGrain(c)
    BY <2>6, <1>t DEF BreakAtGrain, connVars
  <2> QED BY <1>5, <2>1, <2>2, <2>3, <2>4, <2>5, <2>6 DEF GrainNext
<1> QED BY <1>t, <1>1, <1>2, <1>3, <1>4, <1>5 DEF Next

------------------------------------------------------------------------------
(* Theorems.                                                                *)

LEMMA InitGap == Init => GapInv
<1> SUFFICES ASSUME Init PROVE GapInv
  OBVIOUS
<1> USE PresenceBounds, AttemptsPositive
<1>1. call \in [Conns -> Calls]
  BY CallTypes DEF Init
<1>2. TypeOK
  BY <1>1 DEF Init, TypeOK, Calls, Activations
<1>3. Budget /\ Unarmed /\ OneRepairChain
  BY DEF Init, Budget, Unarmed, OneRepairChain, Idle, NoCall
<1>4. RegistryWatched /\ NoGhost /\ Numbered
  BY DEF Init, RegistryWatched, NoGhost, Numbered, NoCall
<1>5. GoneStopped /\ WatchesKnown /\ AnswerStored /\ KnownOrTold /\ NoSilentGap
  BY DEF Init, GoneStopped, WatchesKnown, AnswerStored, KnownOrTold, NoSilentGap, NoCall
<1> QED BY <1>2, <1>3, <1>4, <1>5 DEF GapInv, ChainInv

LEMMA ChainInvariant == Spec => []ChainInv
<1>1. Init => ChainInv
  BY InitGap DEF GapInv
<1> QED BY <1>1, ChainStep, PTL DEF Spec

\* Every variable of a connection and of the grain keeps its type; the attempt
\* counter never exceeds reregisterMaxAttempts (reregister.go:77).
THEOREM PresenceTypeCorrect == Spec => []TypeOK
<1>1. ChainInv => TypeOK
  BY DEF ChainInv
<1> QED BY <1>1, ChainInvariant, PTL

\* No ghost connection stays in the set of the live activation, whatever links
\* break (user.go:RegisterConnection, ReceiveDefault; ADR-012).
THEOREM GhostFree == Spec => []NoGhost
<1>1. ChainInv => NoGhost
  BY DEF ChainInv
<1> QED BY <1>1, ChainInvariant, PTL

\* A connection never has two repair chains in flight (connection.go:404-411),
\* however many death signals it gets.
THEOREM RepairsSerial == Spec => []OneRepairChain
<1>1. ChainInv => OneRepairChain
  BY DEF ChainInv
<1> QED BY <1>1, ChainInvariant, PTL

\* No schedule leaves an authenticated connection deaf with nothing on its way
\* (ADR-006), except while the activation takes it for dead although it runs.
THEOREM GapClosed == Spec => []NoSilentGap
<1>1. GapInv => NoSilentGap
  BY DEF GapInv
<1> QED BY <1>1, GapStep, InitGap, PTL DEF Spec
==============================================================================
