--------------------------- MODULE ConnectionProofs ---------------------------
(***************************************************************************)
(* Proofs about Connection, for any size of the outbound channel and any   *)
(* number of frames, events, ticks and signals:                             *)
(*   ConnectionTypeCorrect  every variable keeps its type and the channel   *)
(*                          its bound;                                      *)
(*   WireProtocolKept       the frames the client receives implement        *)
(*                          WireProtocol.                                   *)
(* A frame is written long after it was queued, and an event is queued long *)
(* after it was forwarded.  The invariant says of everything still on its   *)
(* way, in the channel and in the mailbox, that it may follow what is ahead *)
(* of it.                                                                   *)
(***************************************************************************)
EXTENDS Connection, TLAPS

\* The kinds and the event numbers among the first m frames of a sequence.
Kinds(s, m) == {s[i].kind : i \in 1 .. m}
Numbers(s, m) == {s[i].n : i \in {j \in 1 .. m : s[j].kind = "event"}}

\* What will have been sent before frame j of the channel is, and after all.
SeenBefore(o, j) == Kinds(wire, Len(wire)) \cup Kinds(o, j - 1)
SentBefore(o, j) == Numbers(wire, Len(wire)) \cup Numbers(o, j - 1)
Seen(o) == Kinds(wire, Len(wire)) \cup Kinds(o, Len(o))
Sent(o) == Numbers(wire, Len(wire)) \cup Numbers(o, Len(o))

MayJoin(f, seen, sent) ==
    /\ "close" \notin seen
    /\ \/ f.kind = "close"
       \/ f.kind = "ping" /\ "auth_error" \notin seen
       \/ f.kind \in {"auth_ok", "auth_error"} /\ {"auth_ok", "auth_error"} \cap seen = {}
       \/ f.kind = "event" /\ "auth_ok" \in seen /\ f.n \in 1 .. events /\ sent = 1 .. f.n - 1

\* The channel.
Queued(o) == \A j \in 1 .. Len(o) : MayJoin(o[j], SeenBefore(o, j), SentBefore(o, j))

\* The installed behavior knows what has been sent.
ByPhase ==
    /\ phase = "preAuth" => Seen(outbound) \subseteq {"ping"}
    /\ phase = "postAuth" => /\ "auth_ok" \in Seen(outbound)
                             /\ "auth_error" \notin Seen(outbound) /\ "close" \notin Seen(outbound)

\* The mailbox has the events that are still to be sent, in their order.
Forwarded ==
    phase \in {"preAuth", "postAuth"} =>
        /\ Sent(outbound) \cup Numbers(mailbox, Len(mailbox)) = 1 .. events
        /\ \A k \in 1 .. Len(mailbox) : mailbox[k].kind = "event" =>
              /\ mailbox[k].n \in 1 .. events
              /\ Sent(outbound) \cup Numbers(mailbox, k - 1) = 1 .. mailbox[k].n - 1

\* Only the grain of an authenticated connection, or of one whose call is on
\* its way back, forwards events.
Called ==
    /\ calling = "auth" => phase = "preAuth"
    /\ calling = "repair" => phase = "postAuth"
    /\ registered /\ phase = "preAuth" => calling = "auth"
    /\ ~registered => events = 0

ConnInv == TypeOK /\ Called /\ (writePump = "running" => Queued(outbound) /\ ByPhase /\ Forwarded)

------------------------------------------------------------------------------
(* Sequences of frames.                                                    *)

LEMMA AppendFacts ==
    ASSUME NEW S, NEW s \in Seq(S), NEW e \in S
    PROVE  /\ Append(s, e) \in Seq(S) /\ Len(s) \in Nat /\ Len(Append(s, e)) = Len(s) + 1
           /\ Append(s, e)[Len(s) + 1] = e /\ \A i \in 1 .. Len(s) : Append(s, e)[i] = s[i]
           /\ \A m \in 0 .. Len(s) : /\ Kinds(Append(s, e), m) = Kinds(s, m)
                                     /\ Numbers(Append(s, e), m) = Numbers(s, m)
           /\ Kinds(Append(s, e), Len(s) + 1) = Kinds(s, Len(s)) \cup {e.kind}
           /\ Numbers(Append(s, e), Len(s) + 1) =
                 Numbers(s, Len(s)) \cup (IF e.kind = "event" THEN {e.n} ELSE {})
<1>1. /\ Append(s, e) \in Seq(S) /\ Len(s) \in Nat /\ Len(Append(s, e)) = Len(s) + 1
      /\ Append(s, e)[Len(s) + 1] = e /\ \A i \in 1 .. Len(s) : Append(s, e)[i] = s[i]
  OBVIOUS
<1> PICK t : t = Append(s, e) OBVIOUS
<1>2. ASSUME NEW m \in 0 .. Len(s)
      PROVE  Kinds(t, m) = Kinds(s, m) /\ Numbers(t, m) = Numbers(s, m)
  <2>1. \A i \in 1 .. m : t[i] = s[i] BY <1>1
  <2> QED BY <2>1 DEF Kinds, Numbers
<1>3. Kinds(t, Len(s) + 1) = Kinds(s, Len(s)) \cup {e.kind}
  <2>1. \A i \in 1 .. Len(s) + 1 : i \in 1 .. Len(s) \/ i = Len(s) + 1 BY <1>1
  <2>2. \A i \in 1 .. Len(s) : i \in 1 .. Len(s) + 1 BY <1>1
  <2>3. Len(s) + 1 \in 1 .. Len(s) + 1 BY <1>1
  <2> QED BY <1>1, <2>1, <2>2, <2>3 DEF Kinds
<1>4. Numbers(t, Len(s) + 1) = Numbers(s, Len(s)) \cup (IF e.kind = "event" THEN {e.n} ELSE {})
  <2>1. \A i \in 1 .. Len(s) + 1 : i \in 1 .. Len(s) \/ i = Len(s) + 1 BY <1>1
  <2>2. \A i \in 1 .. Len(s) : i \in 1 .. Len(s) + 1 BY <1>1
  <2>3. Len(s) + 1 \in 1 .. Len(s) + 1 BY <1>1
  <2> QED BY <1>1, <2>1, <2>2, <2>3 DEF Numbers
<1> QED BY <1>1, <1>2, <1>3, <1>4

LEMMA TailFacts ==
    ASSUME NEW S, NEW s \in Seq(S), s # <<>>
    PROVE  /\ Tail(s) \in Seq(S) /\ Len(s) \in Nat /\ 1 \in 1 .. Len(s) /\ Len(Tail(s)) = Len(s) - 1
           /\ Head(s) = s[1] /\ Head(s) \in S
           /\ \A i \in 1 .. Len(Tail(s)) : Tail(s)[i] = s[i + 1] /\ i + 1 \in 1 .. Len(s)
           /\ \A m \in 0 .. Len(Tail(s)) :
                 /\ Kinds(s, m + 1) = {Head(s).kind} \cup Kinds(Tail(s), m)
                 /\ Numbers(s, m + 1) =
                       (IF Head(s).kind = "event" THEN {Head(s).n} ELSE {}) \cup Numbers(Tail(s), m)
<1>1. /\ Tail(s) \in Seq(S) /\ Len(s) \in Nat /\ 1 \in 1 .. Len(s) /\ Len(Tail(s)) = Len(s) - 1
      /\ Head(s) = s[1] /\ Head(s) \in S
      /\ \A i \in 1 .. Len(Tail(s)) : Tail(s)[i] = s[i + 1] /\ i + 1 \in 1 .. Len(s)
  OBVIOUS
<1> PICK t : t = Tail(s) OBVIOUS
<1> PICK h : h = Head(s) OBVIOUS
<1>2. ASSUME NEW m \in 0 .. Len(t)
      PROVE  /\ Kinds(s, m + 1) = {h.kind} \cup Kinds(t, m)
             /\ Numbers(s, m + 1) = (IF h.kind = "event" THEN {h.n} ELSE {}) \cup Numbers(t, m)
  <2>1. \A i \in 1 .. m + 1 : i = 1 \/ (i - 1 \in 1 .. m /\ s[i] = t[i - 1])
    <3> SUFFICES ASSUME NEW i \in 1 .. m + 1, i # 1 PROVE i - 1 \in 1 .. m /\ s[i] = t[i - 1] OBVIOUS
    <3>1. i - 1 \in 1 .. m /\ i - 1 \in 1 .. Len(t) /\ (i - 1) + 1 = i BY <1>1
    <3> QED BY <1>1, <3>1
  <2>2. \A i \in 1 .. m : i + 1 \in 1 .. m + 1 /\ s[i + 1] = t[i]
    <3> SUFFICES ASSUME NEW i \in 1 .. m PROVE i + 1 \in 1 .. m + 1 /\ s[i + 1] = t[i] OBVIOUS
    <3>1. i \in 1 .. Len(t) /\ i + 1 \in 1 .. m + 1 BY <1>1
    <3> QED BY <1>1, <3>1
  <2>3. 1 \in 1 .. m + 1 /\ s[1] = h BY <1>1
  <2>4. Kinds(s, m + 1) = {h.kind} \cup Kinds(t, m) BY <2>1, <2>2, <2>3 DEF Kinds
  <2>5. Numbers(s, m + 1) = (IF h.kind = "event" THEN {h.n} ELSE {}) \cup Numbers(t, m)
    BY <2>1, <2>2, <2>3 DEF Numbers
  <2> QED BY <2>4, <2>5
<1> QED BY <1>1, <1>2

LEMMA EmptyFacts == \A s : Kinds(s, 0) = {} /\ Numbers(s, 0) = {}
BY DEF Kinds, Numbers

------------------------------------------------------------------------------
(* The channel.                                                            *)

\* A frame that may follow everything is queued.
LEMMA JoinQueue ==
    ASSUME NEW o \in Seq(Frames), NEW f \in Frames, Queued(o), MayJoin(f, Seen(o), Sent(o))
    PROVE  /\ Queued(Append(o, f))
           /\ Seen(Append(o, f)) = Seen(o) \cup {f.kind}
           /\ Sent(Append(o, f)) = Sent(o) \cup (IF f.kind = "event" THEN {f.n} ELSE {})
<1> PICK p : p = Append(o, f) OBVIOUS
<1>1. /\ Len(o) \in Nat /\ Len(p) = Len(o) + 1 /\ p[Len(o) + 1] = f
      /\ \A i \in 1 .. Len(o) : p[i] = o[i]
      /\ \A m \in 0 .. Len(o) : Kinds(p, m) = Kinds(o, m) /\ Numbers(p, m) = Numbers(o, m)
      /\ Kinds(p, Len(o) + 1) = Kinds(o, Len(o)) \cup {f.kind}
      /\ Numbers(p, Len(o) + 1) = Numbers(o, Len(o)) \cup (IF f.kind = "event" THEN {f.n} ELSE {})
  BY AppendFacts
<1>2. Seen(p) = Seen(o) \cup {f.kind} BY <1>1 DEF Seen
<1>3. Sent(p) = Sent(o) \cup (IF f.kind = "event" THEN {f.n} ELSE {}) BY <1>1 DEF Sent
<1>4. ASSUME NEW j \in 1 .. Len(p) PROVE MayJoin(p[j], SeenBefore(p, j), SentBefore(p, j))
  <2>1. j - 1 \in 0 .. Len(o) BY <1>1
  <2>2. SeenBefore(p, j) = SeenBefore(o, j) /\ SentBefore(p, j) = SentBefore(o, j)
    BY <1>1, <2>1 DEF SeenBefore, SentBefore
  <2>3. CASE j \in 1 .. Len(o) BY <1>1, <2>2, <2>3 DEF Queued
  <2>4. CASE j = Len(o) + 1
    <3>1. j - 1 = Len(o) BY <1>1, <2>4
    <3>2. SeenBefore(o, j) = Seen(o) /\ SentBefore(o, j) = Sent(o)
      BY <3>1 DEF SeenBefore, SentBefore, Seen, Sent
    <3> QED BY <1>1, <2>2, <2>4, <3>2
  <2> QED BY <1>1, <2>3, <2>4
<1> QED BY <1>2, <1>3, <1>4 DEF Queued

\* The first frame of the channel is written.
LEMMA WriteQueue ==
    ASSUME wire \in Seq(Frames), outbound \in Seq(Frames), outbound # <<>>, Queued(outbound),
           wire' = Append(wire, Head(outbound)), outbound' = Tail(outbound), events' = events
    PROVE  /\ MayJoin(Head(outbound), Kinds(wire, Len(wire)), Numbers(wire, Len(wire)))
           /\ Queued(outbound)' /\ Seen(outbound)' = Seen(outbound) /\ Sent(outbound)' = Sent(outbound)
<1> PICK h : h = Head(outbound) OBVIOUS
<1> PICK t : t = Tail(outbound) OBVIOUS
<1> PICK w : w = Append(wire, h) OBVIOUS
<1>1. /\ Len(outbound) \in Nat /\ 1 \in 1 .. Len(outbound) /\ Len(t) = Len(outbound) - 1
      /\ h = outbound[1] /\ h \in Frames
      /\ \A i \in 1 .. Len(t) : t[i] = outbound[i + 1] /\ i + 1 \in 1 .. Len(outbound)
      /\ \A m \in 0 .. Len(t) :
            /\ Kinds(outbound, m + 1) = {h.kind} \cup Kinds(t, m)
            /\ Numbers(outbound, m + 1) = (IF h.kind = "event" THEN {h.n} ELSE {}) \cup Numbers(t, m)
  BY TailFacts
<1>2. /\ Len(wire) \in Nat /\ Len(w) = Len(wire) + 1
      /\ Kinds(w, Len(w)) = Kinds(wire, Len(wire)) \cup {h.kind}
      /\ Numbers(w, Len(w)) =
            Numbers(wire, Len(wire)) \cup (IF h.kind = "event" THEN {h.n} ELSE {})
  BY <1>1, AppendFacts
<1>3. w = wire' /\ t = outbound' OBVIOUS
<1>4. MayJoin(h, Kinds(wire, Len(wire)), Numbers(wire, Len(wire)))
  <2>1. MayJoin(h, SeenBefore(outbound, 1), SentBefore(outbound, 1)) BY <1>1 DEF Queued
  <2>2. SeenBefore(outbound, 1) = Kinds(wire, Len(wire)) /\ SentBefore(outbound, 1) = Numbers(wire, Len(wire))
    BY EmptyFacts DEF SeenBefore, SentBefore
  <2> QED BY <2>1, <2>2
<1>5. /\ Kinds(w, Len(w)) \cup Kinds(t, Len(t)) = Seen(outbound)
      /\ Numbers(w, Len(w)) \cup Numbers(t, Len(t)) = Sent(outbound)
  <2>1. Len(t) \in 0 .. Len(t) /\ Len(t) + 1 = Len(outbound) BY <1>1
  <2>2. /\ Kinds(outbound, Len(outbound)) = {h.kind} \cup Kinds(t, Len(t))
        /\ Numbers(outbound, Len(outbound)) =
              (IF h.kind = "event" THEN {h.n} ELSE {}) \cup Numbers(t, Len(t))
    BY <1>1, <2>1
  <2> QED BY <1>2, <2>2 DEF Seen, Sent
<1>6. ASSUME NEW j \in 1 .. Len(t)
      PROVE  MayJoin(t[j], Kinds(w, Len(w)) \cup Kinds(t, j - 1), Numbers(w, Len(w)) \cup Numbers(t, j - 1))
  <2>1. j - 1 \in 0 .. Len(t) /\ (j - 1) + 1 = (j + 1) - 1 BY <1>1
  <2>2. /\ Kinds(outbound, (j + 1) - 1) = {h.kind} \cup Kinds(t, j - 1)
        /\ Numbers(outbound, (j + 1) - 1) =
              (IF h.kind = "event" THEN {h.n} ELSE {}) \cup Numbers(t, j - 1)
    BY <1>1, <2>1
  <2>3. /\ Kinds(w, Len(w)) \cup Kinds(t, j - 1) = SeenBefore(outbound, j + 1)
        /\ Numbers(w, Len(w)) \cup Numbers(t, j - 1) = SentBefore(outbound, j + 1)
    BY <1>2, <2>2 DEF SeenBefore, SentBefore
  <2> QED BY <1>1, <2>3 DEF Queued
<1>7. Queued(outbound)'
  BY <1>3, <1>6 DEF Queued, SeenBefore, SentBefore, MayJoin
<1> QED BY <1>3, <1>4, <1>5, <1>7 DEF Seen, Sent

------------------------------------------------------------------------------
(* The mailbox.                                                            *)

\* The first message is taken; an event goes to the channel.
LEMMA ForwardTake ==
    ASSUME mailbox \in Seq(Messages), mailbox # <<>>, mailbox' = Tail(mailbox), events' = events,
           Forwarded, phase' \in {"preAuth", "postAuth"} => phase \in {"preAuth", "postAuth"},
           Sent(outbound)' = Sent(outbound) \cup
                 (IF Head(mailbox).kind = "event" THEN {Head(mailbox).n} ELSE {})
    PROVE  Forwarded'
<1> PICK h : h = Head(mailbox) OBVIOUS
<1> PICK t : t = Tail(mailbox) OBVIOUS
<1> PICK sent : sent = Sent(outbound)' OBVIOUS
<1>1. /\ Len(mailbox) \in Nat /\ Len(t) = Len(mailbox) - 1
      /\ \A i \in 1 .. Len(t) : t[i] = mailbox[i + 1] /\ i + 1 \in 1 .. Len(mailbox)
      /\ \A m \in 0 .. Len(t) :
            Numbers(mailbox, m + 1) = (IF h.kind = "event" THEN {h.n} ELSE {}) \cup Numbers(t, m)
  BY TailFacts
<1>2. ASSUME NEW m \in 0 .. Len(t)
      PROVE  sent \cup Numbers(t, m) = Sent(outbound) \cup Numbers(mailbox, m + 1)
  BY <1>1
<1> SUFFICES ASSUME phase \in {"preAuth", "postAuth"}
             PROVE  /\ sent \cup Numbers(t, Len(t)) = 1 .. events
                    /\ \A k \in 1 .. Len(t) : t[k].kind = "event" =>
                          t[k].n \in 1 .. events /\ sent \cup Numbers(t, k - 1) = 1 .. t[k].n - 1
  BY DEF Forwarded
<1>3. /\ Sent(outbound) \cup Numbers(mailbox, Len(mailbox)) = 1 .. events
      /\ \A k \in 1 .. Len(mailbox) : mailbox[k].kind = "event" =>
            /\ mailbox[k].n \in 1 .. events
            /\ Sent(outbound) \cup Numbers(mailbox, k - 1) = 1 .. mailbox[k].n - 1
  BY DEF Forwarded
<1>4. Len(mailbox) # 0 BY TailFacts
<1>5. sent \cup Numbers(t, Len(t)) = 1 .. events
  <2>1. Len(t) \in 0 .. Len(t) /\ Len(t) + 1 = Len(mailbox) BY <1>1, <1>4
  <2> QED BY <1>2, <1>3, <2>1
<1>6. ASSUME NEW k \in 1 .. Len(t), t[k].kind = "event"
      PROVE  t[k].n \in 1 .. events /\ sent \cup Numbers(t, k - 1) = 1 .. t[k].n - 1
  <2>1. k - 1 \in 0 .. Len(t) /\ (k - 1) + 1 = (k + 1) - 1 BY <1>1, <1>4
  <2>2. t[k] = mailbox[k + 1] /\ k + 1 \in 1 .. Len(mailbox) BY <1>1
  <2> QED BY <1>2, <1>3, <1>6, <2>1, <2>2
<1> QED BY <1>5, <1>6

\* A message is added; an event has the next number.
LEMMA ForwardAdd ==
    ASSUME mailbox \in Seq(Messages), NEW m \in Messages, mailbox' = Append(mailbox, m), events \in Nat,
           events' = IF m.kind = "event" THEN events + 1 ELSE events, m.kind = "event" => m.n = events + 1,
           Forwarded, phase' = phase, Sent(outbound)' = Sent(outbound)
    PROVE  Forwarded'
<1> PICK t : t = Append(mailbox, m) OBVIOUS
<1> PICK sent : sent = Sent(outbound) OBVIOUS
<1>1. /\ Len(mailbox) \in Nat /\ Len(t) = Len(mailbox) + 1 /\ t[Len(mailbox) + 1] = m
      /\ \A i \in 1 .. Len(mailbox) : t[i] = mailbox[i]
      /\ \A i \in 0 .. Len(mailbox) : Numbers(t, i) = Numbers(mailbox, i)
      /\ Numbers(t, Len(mailbox) + 1) =
            Numbers(mailbox, Len(mailbox)) \cup (IF m.kind = "event" THEN {m.n} ELSE {})
  BY AppendFacts
<1> SUFFICES ASSUME phase \in {"preAuth", "postAuth"}
             PROVE  /\ sent \cup Numbers(t, Len(t)) = 1 .. events'
                    /\ \A k \in 1 .. Len(t) : t[k].kind = "event" =>
                          t[k].n \in 1 .. events' /\ sent \cup Numbers(t, k - 1) = 1 .. t[k].n - 1
  BY DEF Forwarded
<1>2. /\ sent \cup Numbers(mailbox, Len(mailbox)) = 1 .. events
      /\ \A k \in 1 .. Len(mailbox) : mailbox[k].kind = "event" =>
            mailbox[k].n \in 1 .. events /\ sent \cup Numbers(mailbox, k - 1) = 1 .. mailbox[k].n - 1
  BY DEF Forwarded
<1>3. sent \cup Numbers(t, Len(t)) = 1 .. events'
  <2>1. CASE m.kind = "event"
    <3>1. 1 .. events + 1 = (1 .. events) \cup {events + 1} OBVIOUS
    <3> QED BY <1>1, <1>2, <2>1, <3>1
  <2>2. CASE m.kind # "event" BY <1>1, <1>2, <2>2
  <2> QED BY <2>1, <2>2
<1>4. ASSUME NEW k \in 1 .. Len(t), t[k].kind = "event"
      PROVE  t[k].n \in 1 .. events' /\ sent \cup Numbers(t, k - 1) = 1 .. t[k].n - 1
  <2>1. CASE k \in 1 .. Len(mailbox)
    <3>1. k - 1 \in 0 .. Len(mailbox) /\ t[k] = mailbox[k] BY <1>1, <2>1
    <3>2. Numbers(t, k - 1) = Numbers(mailbox, k - 1) BY <1>1, <3>1
    <3>3. mailbox[k].n \in 1 .. events BY <1>2, <1>4, <2>1, <3>1
    <3>4. mailbox[k].n \in 1 .. events' BY <3>3
    <3> QED BY <1>2, <1>4, <2>1, <3>1, <3>2, <3>4
  <2>2. CASE k = Len(mailbox) + 1
    <3>1. t[k] = m /\ m.n = events + 1 /\ events' = events + 1 BY <1>1, <1>4, <2>2
    <3>2. k - 1 = Len(mailbox) /\ Len(mailbox) \in 0 .. Len(mailbox) BY <1>1, <2>2
    <3>3. (events + 1) - 1 = events /\ events + 1 \in 1 .. events + 1 OBVIOUS
    <3> QED BY <1>1, <1>2, <3>1, <3>2, <3>3
  <2> QED BY <1>1, <2>1, <2>2
<1> QED BY <1>3, <1>4

------------------------------------------------------------------------------
(* Steps.                                                                  *)

LEMMA ConnInit == Init => ConnInv
<1> SUFFICES ASSUME Init PROVE ConnInv OBVIOUS
<1>1. /\ phase = "preAuth" /\ mailbox = <<>> /\ outbound = <<>> /\ wire = <<>> /\ events = 0
      /\ calling = "none" /\ registered = FALSE
  BY DEF Init
<1>2. TypeOK
  <2>1. mailbox \in Seq(Messages) /\ outbound \in Seq(Frames) /\ wire \in Seq(Frames) BY <1>1
  <2>2. Len(outbound) <= OutboundSize BY <1>1, OutboundPositive
  <2>3. /\ readPump = "running" /\ writePump = "running" /\ cancelled = FALSE /\ socket = "open"
        /\ authTimer = "armed" /\ watchdog = FALSE /\ ticking = FALSE
        /\ frames = 0 /\ events = 0 /\ ticks = 0 /\ signals = 0
    BY DEF Init
  <2>4. /\ frames \in 0 .. MaxFrames /\ events \in 0 .. MaxEvents
        /\ ticks \in 0 .. MaxTicks /\ signals \in 0 .. MaxSignals
    BY <2>3, ConnectionBounds
  <2>5. registered \in BOOLEAN /\ cancelled \in BOOLEAN /\ watchdog \in BOOLEAN /\ ticking \in BOOLEAN
    BY <1>1, <2>3
  <2> QED BY <1>1, <2>1, <2>2, <2>3, <2>4, <2>5 DEF TypeOK
<1>3. Called BY <1>1 DEF Called
<1>4. Queued(outbound) BY <1>1 DEF Queued
<1>5. Seen(outbound) = {} /\ Sent(outbound) = {} /\ Numbers(mailbox, Len(mailbox)) = {}
  BY <1>1, EmptyFacts DEF Seen, Sent
<1>6. ByPhase BY <1>1, <1>5 DEF ByPhase
<1>7. Forwarded BY <1>1, <1>5 DEF Forwarded
<1> QED BY <1>2, <1>3, <1>4, <1>6, <1>7 DEF ConnInv

\* Nothing joins the channel and nothing is written.
LEMMA QuietSteps ==
    ASSUME ConnInv, TypeOK', Called', phase' = phase, outbound' = outbound, wire' = wire, events' = events,
           writePump' \in {writePump, "done"},
           \/ mailbox' = mailbox
           \/ /\ mailbox # <<>> /\ mailbox' = Tail(mailbox)
              /\ Head(mailbox).kind = "event" => (phase = "preAuth" /\ ~registered) \/ phase = "closing"
           \/ \E m \in Messages : m.kind # "event" /\ mailbox' = Append(mailbox, m)
    PROVE  ConnInv'
<1> SUFFICES ASSUME writePump' = "running" PROVE Queued(outbound)' /\ ByPhase' /\ Forwarded'
  BY DEF ConnInv
<1>1. /\ Queued(outbound) /\ ByPhase /\ Forwarded /\ Called /\ mailbox \in Seq(Messages) /\ events \in Nat
  BY DEF ConnInv, TypeOK
<1>2. Queued(outbound)' BY <1>1 DEF Queued, SeenBefore, SentBefore, MayJoin
<1>3. Seen(outbound)' = Seen(outbound) /\ Sent(outbound)' = Sent(outbound) BY DEF Seen, Sent
<1>4. ByPhase' BY <1>1, <1>3 DEF ByPhase
<1>5. CASE mailbox' = mailbox BY <1>1, <1>2, <1>3, <1>4, <1>5 DEF Forwarded
<1>6. CASE mailbox # <<>> /\ mailbox' = Tail(mailbox) /\ Head(mailbox).kind # "event"
  BY <1>1, <1>2, <1>3, <1>4, <1>6, ForwardTake
<1>7. CASE mailbox # <<>> /\ Head(mailbox).kind = "event" /\ phase = "preAuth" /\ ~registered
  <2>1. events = 0 BY <1>1, <1>7 DEF Called
  <2>2. 1 \in 1 .. Len(mailbox) /\ Head(mailbox) = mailbox[1] BY <1>1, <1>7, TailFacts
  <2>3. mailbox[1].n \in 1 .. events BY <1>1, <1>7, <2>2 DEF Forwarded
  <2> QED BY <2>1, <2>3
<1>8. CASE phase = "closing" BY <1>2, <1>4, <1>8 DEF Forwarded
<1>9. ASSUME NEW m \in Messages, m.kind # "event", mailbox' = Append(mailbox, m) PROVE Forwarded'
  BY <1>1, <1>3, <1>9, ForwardAdd
<1> QED BY <1>2, <1>4, <1>5, <1>6, <1>7, <1>8, <1>9

LEMMA StopSteps ==
    ASSUME ConnInv, NEW q \in Seq(Frames), Len(q) <= OutboundSize, Stopping(q),
           writePump = "running" => Queued(q)
    PROVE  ConnInv'
<1>1. TypeOK'
  <2>1. mailbox' \in Seq(Messages) BY DEF Stopping
  <2> QED BY <2>1 DEF ConnInv, TypeOK, Stopping, inputVars
<1>2. Called' BY DEF ConnInv, Called, Stopping, inputVars
<1>3. /\ phase' = "stopped" /\ outbound' = q /\ wire' = wire /\ events' = events /\ writePump' = writePump
  BY DEF Stopping, inputVars
<1>4. Queued(q) => Queued(outbound)' BY <1>3 DEF Queued, SeenBefore, SentBefore, MayJoin
<1>5. ByPhase' /\ Forwarded' BY <1>3 DEF ByPhase, Forwarded
<1> QED BY <1>1, <1>2, <1>3, <1>4, <1>5 DEF ConnInv

\* The close frame is the last one.
LEMMA CloseSteps ==
    ASSUME ConnInv, NEW q \in Seq(Frames), Len(q) <= OutboundSize, NEW rest \in Seq(Messages), Closes(q, rest),
           KeepsWatchdog \/ (watchdog' = FALSE /\ ticking' = FALSE),
           writePump = "running" => Queued(q) /\ "close" \notin Seen(q)
    PROVE  ConnInv'
<1>1. CASE Stopping(q) BY <1>1, StopSteps
<1>2. CASE /\ Fits(q) /\ outbound' = Append(q, Msg("close", 0))
           /\ phase' = "closing" /\ mailbox' = rest /\ calling' = "none"
           /\ UNCHANGED <<registered, pumpVars, authTimer, inputVars>>
  <2>1. PICK f : f = Msg("close", 0) OBVIOUS
  <2>2. f \in Frames /\ f.kind = "close" BY <2>1 DEF Msg, Frames
  <2>3. outbound' \in Seq(Frames) /\ Len(outbound') <= OutboundSize
    BY <1>2, <2>1, <2>2, AppendFacts, OutboundPositive DEF Fits
  <2>4. watchdog' \in BOOLEAN /\ ticking' \in BOOLEAN
    BY <1>2 DEF KeepsWatchdog, ConnInv, TypeOK
  <2>5. TypeOK' BY <1>2, <2>3, <2>4 DEF ConnInv, TypeOK, pumpVars, inputVars
  <2>6. Called' BY <1>2 DEF ConnInv, Called, inputVars
  <2>7. wire' = wire /\ events' = events /\ writePump' = writePump BY <1>2 DEF pumpVars, inputVars
  <2>8. Queued(q) /\ "close" \notin Seen(q) => Queued(outbound)'
    <3> SUFFICES ASSUME Queued(q), "close" \notin Seen(q) PROVE Queued(outbound)' OBVIOUS
    <3>1. MayJoin(f, Seen(q), Sent(q)) BY <2>2 DEF MayJoin
    <3>2. Queued(Append(q, f)) BY <2>2, <3>1, JoinQueue
    <3>3. outbound' = Append(q, f) BY <1>2, <2>1
    <3> QED BY <2>7, <3>2, <3>3 DEF Queued, SeenBefore, SentBefore, MayJoin
  <2>9. ByPhase' /\ Forwarded' BY <1>2 DEF ByPhase, Forwarded
  <2> QED BY <2>5, <2>6, <2>7, <2>8, <2>9 DEF ConnInv
<1> QED BY <1>1, <1>2 DEF Closes

\* The verdict is best effort; the close frame is not.
LEMMA RejectSteps ==
    ASSUME ConnInv, phase = "preAuth", NEW rest \in Seq(Messages), Rejects(rest)
    PROVE  ConnInv'
<1>1. PICK f : f = Msg("auth_error", 0) OBVIOUS
<1>2. f \in Frames /\ f.kind = "auth_error" BY <1>1 DEF Msg, Frames
<1>3. outbound \in Seq(Frames) /\ Len(outbound) <= OutboundSize BY DEF ConnInv, TypeOK
<1>4. writePump = "running" => Queued(outbound) /\ Seen(outbound) \subseteq {"ping"}
  BY DEF ConnInv, ByPhase
<1>5. PICK q : q = BestEffort(f) OBVIOUS
<1>6. Closes(q, rest) /\ KeepsWatchdog BY <1>1, <1>5 DEF Rejects
<1>7. CASE ~Fits(outbound)
  <2>1. q = outbound BY <1>5, <1>7 DEF BestEffort
  <2>2. writePump = "running" => Queued(q) /\ "close" \notin Seen(q) BY <1>4, <2>1
  <2> QED BY <1>3, <1>6, <2>1, <2>2, CloseSteps
<1>8. CASE Fits(outbound)
  <2>1. q = Append(outbound, f) BY <1>5, <1>8 DEF BestEffort
  <2>2. q \in Seq(Frames) /\ Len(q) <= OutboundSize
    BY <1>2, <1>3, <1>8, <2>1, AppendFacts, OutboundPositive DEF Fits
  <2>3. ASSUME writePump = "running" PROVE Queued(q) /\ "close" \notin Seen(q)
    <3>1. MayJoin(f, Seen(outbound), Sent(outbound)) BY <1>2, <1>4, <2>3 DEF MayJoin
    <3>2. Queued(q) /\ Seen(q) = Seen(outbound) \cup {"auth_error"}
      BY <1>2, <1>3, <1>4, <2>1, <2>3, <3>1, JoinQueue
    <3> QED BY <1>4, <2>3, <3>2
  <2> QED BY <1>6, <2>2, <2>3, CloseSteps
<1> QED BY <1>7, <1>8

\* A message that changes nothing but the mailbox.
LEMMA DropSteps ==
    ASSUME ConnInv, mailbox # <<>>, Drops, calling = "none",
           Head(mailbox).kind = "event" => phase \in {"preAuth", "closing"}
    PROVE  ConnInv'
<1>1. TypeOK /\ Called /\ mailbox \in Seq(Messages) BY DEF ConnInv, TypeOK
<1>2. /\ mailbox' = Tail(mailbox) /\ phase' = phase /\ outbound' = outbound /\ wire' = wire
      /\ events' = events /\ writePump' = writePump /\ calling' = calling
      /\ UNCHANGED registered
  BY DEF Drops, pumpVars, inputVars
<1>3. TypeOK'
  <2>1. mailbox' \in Seq(Messages) BY <1>1, <1>2
  <2> QED BY <1>1, <1>2, <2>1 DEF Drops, TypeOK, pumpVars, timerVars, inputVars
<1>4. Called' BY <1>1, <1>2 DEF Called
<1>5. phase = "preAuth" => ~registered BY <1>1 DEF Called
<1> QED BY <1>2, <1>3, <1>4, <1>5, QuietSteps

\* A message other than an event arrives.
LEMMA NotifySteps ==
    ASSUME ConnInv, NEW k, Msg(k, 0) \in Messages, k # "event", Notify(Msg(k, 0)),
           phase' = phase, outbound' = outbound, wire' = wire, events' = events, calling' = calling,
           UNCHANGED registered, writePump' \in {writePump, "done"},
           mailbox' \in Seq(Messages) => TypeOK'
    PROVE  ConnInv'
<1>1. TypeOK /\ Called /\ mailbox \in Seq(Messages) BY DEF ConnInv, TypeOK
<1> PICK m : m = Msg(k, 0) OBVIOUS
<1>2. m \in Messages /\ m.kind # "event" BY DEF Msg
<1>3. mailbox' = mailbox \/ mailbox' = Append(mailbox, m) BY DEF Notify
<1>4. TypeOK' BY <1>1, <1>2, <1>3, AppendFacts
<1>5. Called' BY <1>1 DEF Called
<1> QED BY <1>2, <1>3, <1>4, <1>5, QuietSteps

\* The first message of the mailbox starts a call.
LEMMA BlockSteps ==
    ASSUME ConnInv, NEW h, mailbox # <<>>, Head(mailbox).kind # "event", BlocksFor(h),
           \/ h = "auth" /\ phase = "preAuth"
           \/ h = "repair" /\ phase = "postAuth"
    PROVE  ConnInv'
<1>1. TypeOK /\ Called /\ mailbox \in Seq(Messages) BY DEF ConnInv, TypeOK
<1>2. /\ mailbox' = Tail(mailbox) /\ phase' = phase /\ outbound' = outbound /\ wire' = wire
      /\ events' = events /\ writePump' = writePump /\ calling' = h
      /\ UNCHANGED registered
  BY DEF BlocksFor, pumpVars, inputVars
<1>3. TypeOK'
  <2>1. mailbox' \in Seq(Messages) BY <1>1, <1>2
  <2>2. calling' \in {"none", "auth", "repair"} BY <1>2
  <2> QED BY <1>1, <1>2, <2>1, <2>2 DEF BlocksFor, TypeOK, pumpVars, timerVars, inputVars
<1>4. Called' BY <1>1, <1>2 DEF Called
<1> QED BY <1>2, <1>3, <1>4, QuietSteps

\* A frame joins the channel.
LEMMA JoinSteps ==
    ASSUME outbound \in Seq(Frames), NEW f \in Frames, Queued(outbound),
           MayJoin(f, Seen(outbound), Sent(outbound)),
           outbound' = Append(outbound, f), wire' = wire, events' = events
    PROVE  /\ Queued(outbound)' /\ Seen(outbound)' = Seen(outbound) \cup {f.kind}
           /\ Sent(outbound)' = Sent(outbound) \cup (IF f.kind = "event" THEN {f.n} ELSE {})
<1> PICK q : q = Append(outbound, f) OBVIOUS
<1>1. /\ Queued(q) /\ Seen(q) = Seen(outbound) \cup {f.kind}
      /\ Sent(q) = Sent(outbound) \cup (IF f.kind = "event" THEN {f.n} ELSE {})
  BY JoinQueue
<1>2. Queued(outbound)' BY <1>1 DEF Queued, SeenBefore, SentBefore, MayJoin
<1>3. Seen(outbound)' = Seen(q) /\ Sent(outbound)' = Sent(q) BY DEF Seen, Sent
<1> QED BY <1>1, <1>2, <1>3

\* The verdict auth_ok: so far there were only pings.
LEMMA AuthOkSteps == ASSUME ConnInv, AuthSucceeds PROVE ConnInv'
<1>1. /\ TypeOK /\ Called /\ mailbox \in Seq(Messages) /\ outbound \in Seq(Frames)
      /\ Len(outbound) <= OutboundSize /\ (writePump = "running" => Queued(outbound) /\ ByPhase /\ Forwarded)
  BY DEF ConnInv, TypeOK
<1> PICK f : f = Msg("auth_ok", 0) OBVIOUS
<1>2. f \in Frames /\ f.kind = "auth_ok" BY DEF Msg, Frames
<1>3. CASE Stopping(outbound) BY <1>1, <1>3, StopSteps
<1>4. CASE /\ Fits(outbound) /\ outbound' = Append(outbound, f)
           /\ phase' = "postAuth" /\ mailbox' = mailbox /\ calling' = "none"
           /\ UNCHANGED <<registered, pumpVars, timerVars, inputVars>>
  <2>1. calling = "auth" /\ phase = "preAuth" /\ UNCHANGED registered
    BY <1>1, <1>4 DEF Called, AuthSucceeds
  <2>2. wire' = wire /\ events' = events /\ writePump' = writePump BY <1>4 DEF pumpVars, inputVars
  <2>3. TypeOK'
    <3>1. outbound' \in Seq(Frames) /\ Len(outbound') <= OutboundSize
      BY <1>1, <1>2, <1>4, AppendFacts, OutboundPositive DEF Fits
    <3> QED BY <1>1, <1>4, <3>1 DEF TypeOK, pumpVars, timerVars, inputVars
  <2>4. Called'
    <3>1. registered BY DEF AuthSucceeds
    <3> QED BY <1>4, <2>1, <3>1 DEF Called
  <2>5. ASSUME writePump = "running" PROVE Queued(outbound)' /\ ByPhase' /\ Forwarded'
    <3>1. Seen(outbound) \subseteq {"ping"} BY <1>1, <2>1, <2>5 DEF ByPhase
    <3>2. MayJoin(f, Seen(outbound), Sent(outbound)) BY <1>2, <3>1 DEF MayJoin
    <3>3. /\ Queued(outbound)' /\ Seen(outbound)' = Seen(outbound) \cup {"auth_ok"}
          /\ Sent(outbound)' = Sent(outbound)
      BY <1>1, <1>2, <1>4, <2>2, <2>5, <3>2, JoinSteps
    <3>4. ByPhase' BY <1>4, <3>1, <3>3 DEF ByPhase
    <3>5. Forwarded' BY <1>1, <1>4, <2>1, <2>2, <2>5, <3>3 DEF Forwarded
    <3> QED BY <3>3, <3>4, <3>5
  <2> QED BY <2>2, <2>3, <2>4, <2>5 DEF ConnInv
<1> QED BY <1>3, <1>4 DEF AuthSucceeds, SendOutbound

\* An event of an authenticated connection: it has the next number.
LEMMA EventSteps ==
    ASSUME ConnInv, Receives("event"), phase = "postAuth",
           SendOutbound(Head(mailbox), "postAuth", Tail(mailbox))
    PROVE  ConnInv'
<1>1. /\ TypeOK /\ Called /\ mailbox \in Seq(Messages) /\ outbound \in Seq(Frames)
      /\ Len(outbound) <= OutboundSize /\ (writePump = "running" => Queued(outbound) /\ ByPhase /\ Forwarded)
  BY DEF ConnInv, TypeOK
<1>2. calling = "none" /\ mailbox # <<>> BY DEF Receives
<1> PICK f : f = Head(mailbox) OBVIOUS
<1>3. 1 \in 1 .. Len(mailbox) /\ f = mailbox[1] /\ f \in Messages /\ f.kind = "event"
  BY <1>1, <1>2, TailFacts DEF Receives
<1>4. f \in Frames BY <1>3 DEF Messages, Frames
<1>5. CASE Stopping(outbound) BY <1>1, <1>5, StopSteps
<1>6. CASE /\ Fits(outbound) /\ outbound' = Append(outbound, f)
           /\ phase' = "postAuth" /\ mailbox' = Tail(mailbox) /\ calling' = "none"
           /\ UNCHANGED <<registered, pumpVars, timerVars, inputVars>>
  <2>1. wire' = wire /\ events' = events /\ writePump' = writePump /\ UNCHANGED registered
    BY <1>6 DEF pumpVars, inputVars
  <2>2. TypeOK'
    <3>1. outbound' \in Seq(Frames) /\ Len(outbound') <= OutboundSize
      BY <1>1, <1>4, <1>6, AppendFacts, OutboundPositive DEF Fits
    <3>2. mailbox' \in Seq(Messages) BY <1>1, <1>2, <1>6
    <3> QED BY <1>1, <1>6, <3>1, <3>2 DEF TypeOK, pumpVars, timerVars, inputVars
  <2>3. Called' BY <1>1, <1>6, <2>1 DEF Called
  <2>4. ASSUME writePump = "running" PROVE Queued(outbound)' /\ ByPhase' /\ Forwarded'
    <3>1. /\ "auth_ok" \in Seen(outbound) /\ "auth_error" \notin Seen(outbound)
          /\ "close" \notin Seen(outbound)
      BY <1>1, <2>4 DEF ByPhase
    <3>2. f.n \in 1 .. events /\ Sent(outbound) = 1 .. f.n - 1
      <4>1. /\ mailbox[1].n \in 1 .. events
            /\ Sent(outbound) \cup Numbers(mailbox, 1 - 1) = 1 .. mailbox[1].n - 1
        BY <1>1, <1>3, <2>4 DEF Forwarded
      <4>2. Numbers(mailbox, 1 - 1) = {} BY EmptyFacts
      <4> QED BY <1>3, <4>1, <4>2
    <3>3. MayJoin(f, Seen(outbound), Sent(outbound)) BY <1>3, <3>1, <3>2 DEF MayJoin
    <3>4. /\ Queued(outbound)' /\ Seen(outbound)' = Seen(outbound) \cup {"event"}
          /\ Sent(outbound)' = Sent(outbound) \cup {f.n}
      BY <1>1, <1>3, <1>4, <1>6, <2>1, <2>4, <3>3, JoinSteps
    <3>5. ByPhase' BY <1>6, <3>1, <3>4 DEF ByPhase
    <3>6. Forwarded' BY <1>1, <1>2, <1>3, <1>6, <2>1, <2>4, <3>4, ForwardTake
    <3> QED BY <3>4, <3>5, <3>6
  <2> QED BY <2>1, <2>2, <2>3, <2>4 DEF ConnInv
<1> QED BY <1>5, <1>6 DEF SendOutbound

\* A ping may go out at any time before the connection closes.
LEMMA PingSteps == ASSUME ConnInv, AppPingTick PROVE ConnInv'
<1>1. /\ TypeOK /\ Called /\ mailbox \in Seq(Messages) /\ outbound \in Seq(Frames)
      /\ Len(outbound) <= OutboundSize /\ (writePump = "running" => Queued(outbound) /\ ByPhase /\ Forwarded)
  BY DEF ConnInv, TypeOK
<1>2. mailbox # <<>> /\ phase # "stopped" /\ Head(mailbox).kind = "pingTick"
  BY DEF AppPingTick, Receives
<1> PICK f : f = Msg("ping", 0) OBVIOUS
<1>3. f \in Frames /\ f.kind = "ping" BY DEF Msg, Frames
<1>4. CASE Stopping(outbound) BY <1>1, <1>4, StopSteps
<1>5. CASE /\ phase = "closing" \/ Fits(outbound)
           /\ outbound' = IF phase = "closing" THEN outbound ELSE Append(outbound, f)
           /\ mailbox' = Tail(mailbox) /\ EnsureWatchdog
           /\ UNCHANGED <<phase, calling, registered, pumpVars, authTimer, inputVars>>
  <2>1. /\ wire' = wire /\ events' = events /\ writePump' = writePump /\ UNCHANGED registered
        /\ phase' = phase /\ calling' = calling
    BY <1>5 DEF pumpVars, inputVars
  <2>2. TypeOK'
    <3>1. outbound' \in Seq(Frames) /\ Len(outbound') <= OutboundSize
      BY <1>1, <1>3, <1>5, AppendFacts, OutboundPositive DEF Fits
    <3>2. mailbox' \in Seq(Messages) BY <1>1, <1>2, <1>5
    <3>3. watchdog' \in BOOLEAN /\ ticking' \in BOOLEAN
      BY <1>1, <1>5 DEF EnsureWatchdog, ResetWatchdog, TypeOK
    <3> QED BY <1>1, <1>5, <3>1, <3>2, <3>3 DEF TypeOK, pumpVars, inputVars
  <2>3. Called' BY <1>1, <2>1 DEF Called
  <2>4. CASE phase = "closing" BY <1>2, <1>5, <2>1, <2>2, <2>3, <2>4, QuietSteps
  <2>5. CASE phase # "closing"
    <3>1. ASSUME writePump = "running" PROVE Queued(outbound)' /\ ByPhase' /\ Forwarded'
      <4>1. phase \in {"preAuth", "postAuth"} BY <1>1, <1>2, <2>5 DEF TypeOK
      <4>2. MayJoin(f, Seen(outbound), Sent(outbound))
        BY <1>1, <1>3, <3>1, <4>1 DEF ByPhase, MayJoin
      <4>3. /\ Queued(outbound)' /\ Seen(outbound)' = Seen(outbound) \cup {"ping"}
            /\ Sent(outbound)' = Sent(outbound)
        BY <1>1, <1>3, <1>5, <2>1, <2>5, <3>1, <4>2, JoinSteps
      <4>4. ByPhase' BY <1>1, <2>1, <3>1, <4>3 DEF ByPhase
      <4>5. Forwarded' BY <1>1, <1>2, <1>5, <2>1, <3>1, <4>3, ForwardTake
      <4> QED BY <4>3, <4>4, <4>5
    <3> QED BY <2>1, <2>2, <2>3, <3>1 DEF ConnInv
  <2> QED BY <2>4, <2>5
<1> QED BY <1>4, <1>5 DEF AppPingTick

\* What a connection that can still close has in its channel.
LEMMA OpenChannel ==
    ASSUME ConnInv, phase \in {"preAuth", "postAuth"}
    PROVE  /\ outbound \in Seq(Frames) /\ Len(outbound) <= OutboundSize
           /\ writePump = "running" => Queued(outbound) /\ "close" \notin Seen(outbound)
BY DEF ConnInv, TypeOK, ByPhase

LEMMA RestOfMailbox ==
    ASSUME ConnInv, mailbox # <<>>
    PROVE  mailbox \in Seq(Messages) /\ Tail(mailbox) \in Seq(Messages)
<1>1. mailbox \in Seq(Messages) BY DEF ConnInv, TypeOK
<1> QED BY <1>1

LEMMA HandleSteps == ASSUME ConnInv, Handle PROVE ConnInv'
<1>1. ASSUME NEW k, Receives(k)
      PROVE  /\ phase # "stopped" /\ calling = "none" /\ mailbox # <<>> /\ Head(mailbox).kind = k
             /\ Tail(mailbox) \in Seq(Messages)
  BY <1>1, RestOfMailbox DEF Receives
<1>2. CASE InboundAuth
  <2>1. CASE Receives("auth") /\ phase = "preAuth" /\ BlocksFor("auth") BY <1>1, <2>1, BlockSteps
  <2>2. CASE Receives("badAuth") /\ phase = "preAuth" /\ Rejects(Tail(mailbox))
    BY <1>1, <2>2, RejectSteps
  <2>3. CASE (Receives("auth") \/ Receives("badAuth")) /\ Drops BY <1>1, <2>3, DropSteps
  <2> QED BY <1>2, <2>1, <2>2, <2>3 DEF InboundAuth
<1>3. CASE AuthTimeoutExpired
  <2>1. CASE phase = "preAuth" /\ Rejects(Tail(mailbox))
    BY <1>1, <1>3, <2>1, RejectSteps DEF AuthTimeoutExpired
  <2>2. CASE Drops BY <1>1, <1>3, <2>2, DropSteps DEF AuthTimeoutExpired
  <2> QED BY <1>3, <2>1, <2>2 DEF AuthTimeoutExpired
<1>4. CASE BadFrame
  <2>1. CASE Receives("missingToken") /\ phase = "preAuth" /\ Rejects(Tail(mailbox))
    BY <1>1, <2>1, RejectSteps
  <2>2. CASE (Receives("missingToken") \/ Receives("garbage")) /\ Drops BY <1>1, <2>2, DropSteps
  <2> QED BY <1>4, <2>1, <2>2 DEF BadFrame
<1>5. CASE RoomEvent
  <2>1. CASE /\ Receives("event") /\ phase = "postAuth"
             /\ SendOutbound(Head(mailbox), "postAuth", Tail(mailbox))
    BY <2>1, EventSteps
  <2>2. CASE Receives("event") /\ phase # "postAuth" /\ Drops
    <3>1. phase \in {"preAuth", "closing"} BY <1>1, <2>2 DEF ConnInv, TypeOK
    <3> QED BY <1>1, <2>2, <3>1, DropSteps
  <2>3. CASE Receives("badEvent") /\ Drops BY <1>1, <2>3, DropSteps
  <2> QED BY <1>5, <2>1, <2>2, <2>3 DEF RoomEvent
<1>6. CASE Repair
  <2>1. CASE phase = "postAuth" /\ BlocksFor("repair") BY <1>1, <1>6, <2>1, BlockSteps DEF Repair
  <2>2. CASE Drops BY <1>1, <1>6, <2>2, DropSteps DEF Repair
  <2> QED BY <1>6, <2>1, <2>2 DEF Repair
<1>7. CASE AppPingTick BY <1>7, PingSteps
<1>8. CASE AppPongReceived
  <2>1. Receives("pong") /\ mailbox' = Tail(mailbox) /\ ResetWatchdog BY <1>8 DEF AppPongReceived
  <2>2. /\ phase' = phase /\ outbound' = outbound /\ wire' = wire /\ events' = events
        /\ writePump' = writePump /\ calling' = calling /\ UNCHANGED registered
    BY <1>8 DEF AppPongReceived, pumpVars, inputVars
  <2>3. TypeOK'
    <3>1. mailbox' \in Seq(Messages) BY <1>1, <2>1
    <3>2. watchdog' \in BOOLEAN /\ ticking' \in BOOLEAN BY <2>1 DEF ResetWatchdog
    <3> QED BY <1>8, <3>1, <3>2 DEF AppPongReceived, ConnInv, TypeOK, pumpVars, inputVars
  <2>4. Called' BY <2>2 DEF ConnInv, Called
  <2> QED BY <1>1, <2>1, <2>2, <2>3, <2>4, QuietSteps
<1>9. CASE PongTimeoutExpired
  <2>1. Receives("pongTimeout") /\ watchdog' = FALSE /\ ticking' = FALSE BY <1>9 DEF PongTimeoutExpired
  <2>2. CASE phase # "closing" /\ Closes(outbound, Tail(mailbox))
    <3>1. phase \in {"preAuth", "postAuth"} BY <1>1, <2>1, <2>2 DEF ConnInv, TypeOK
    <3> QED BY <1>1, <2>1, <2>2, <3>1, OpenChannel, CloseSteps
  <2>3. CASE /\ phase = "closing" /\ mailbox' = Tail(mailbox)
             /\ UNCHANGED <<phase, calling, registered, outbound, pumpVars, authTimer, inputVars>>
    <3>1. /\ phase' = phase /\ outbound' = outbound /\ wire' = wire /\ events' = events
          /\ writePump' = writePump /\ calling' = calling /\ UNCHANGED registered
      BY <2>3 DEF pumpVars, inputVars
    <3>2. TypeOK'
      <4>1. mailbox' \in Seq(Messages) BY <1>1, <2>1, <2>3
      <4>2. watchdog' \in BOOLEAN /\ ticking' \in BOOLEAN BY <2>1
      <4> QED BY <2>3, <4>1, <4>2 DEF ConnInv, TypeOK, pumpVars, inputVars
    <3>3. Called' BY <3>1 DEF ConnInv, Called
    <3> QED BY <1>1, <2>1, <2>3, <3>1, <3>2, <3>3, QuietSteps
  <2> QED BY <1>9, <2>2, <2>3 DEF PongTimeoutExpired
<1>10. CASE TransportGone
  <2>1. /\ outbound \in Seq(Frames) /\ Len(outbound) <= OutboundSize
        /\ writePump = "running" => Queued(outbound)
    BY DEF ConnInv, TypeOK
  <2> QED BY <1>10, <2>1, StopSteps DEF TransportGone
<1> QED BY <1>2, <1>3, <1>4, <1>5, <1>6, <1>7, <1>8, <1>9, <1>10 DEF Handle

LEMMA CallSteps == ASSUME ConnInv, CallEnds \/ GrainStores PROVE ConnInv'
<1>1. /\ TypeOK /\ Called /\ mailbox \in Seq(Messages) BY DEF ConnInv, TypeOK
<1>2. CASE AuthSucceeds BY <1>2, AuthOkSteps
<1>3. CASE AuthFails BY <1>1, <1>3, RejectSteps DEF AuthFails, Called
<1>4. CASE RepairEnds
  <2>1. phase = "postAuth" BY <1>1, <1>4 DEF RepairEnds, Called
  <2>2. CASE Closes(outbound, mailbox) /\ KeepsWatchdog BY <1>1, <2>1, <2>2, OpenChannel, CloseSteps
  <2>3. CASE /\ calling' = "none"
             /\ UNCHANGED <<phase, mailbox, registered, outbound, pumpVars, timerVars, inputVars>>
    <3>1. /\ phase' = phase /\ outbound' = outbound /\ wire' = wire /\ events' = events
          /\ writePump' = writePump /\ mailbox' = mailbox /\ UNCHANGED registered
      BY <2>3 DEF pumpVars, inputVars
    <3>2. TypeOK' BY <1>1, <2>3 DEF TypeOK, pumpVars, timerVars, inputVars
    <3>3. Called' BY <1>1, <2>1, <2>3, <3>1 DEF Called
    <3> QED BY <3>1, <3>2, <3>3, QuietSteps
  <2> QED BY <1>4, <2>2, <2>3 DEF RepairEnds
<1>5. CASE GrainStores
  <2>1. /\ phase' = phase /\ outbound' = outbound /\ wire' = wire /\ events' = events
        /\ writePump' = writePump /\ mailbox' = mailbox /\ calling' = calling /\ registered' = TRUE
    BY <1>5 DEF GrainStores, pumpVars, inputVars
  <2>2. TypeOK' BY <1>1, <1>5, <2>1 DEF GrainStores, TypeOK, pumpVars, timerVars, inputVars
  <2>3. calling \in {"auth", "repair"} BY <1>1, <1>5 DEF GrainStores, TypeOK
  <2>4. Called' BY <1>1, <2>1, <2>3 DEF Called
  <2> QED BY <2>1, <2>2, <2>4, QuietSteps
<1> QED BY <1>2, <1>3, <1>4, <1>5 DEF CallEnds

\* The mailbox after a message other than an event was sent to the actor.
LEMMA Notified ==
    ASSUME ConnInv, NEW k, Msg(k, 0) \in Messages, Notify(Msg(k, 0))
    PROVE  mailbox' \in Seq(Messages)
<1>1. mailbox \in Seq(Messages) BY DEF ConnInv, TypeOK
<1> QED BY <1>1 DEF Notify

LEMMA TimerSteps ==
    ASSUME ConnInv, AuthTimerFires \/ PingTimerFires \/ WatchdogFires PROVE ConnInv'
<1>1. \A k \in {"authTimeout", "pingTick", "pongTimeout"} : Msg(k, 0) \in Messages /\ k # "event"
  BY DEF Msg, Messages
<1>2. PICK k \in {"authTimeout", "pingTick", "pongTimeout"} : Notify(Msg(k, 0))
  BY DEF AuthTimerFires, PingTimerFires, WatchdogFires
<1>3. mailbox' \in Seq(Messages) BY <1>1, <1>2, Notified
<1>4. /\ phase' = phase /\ outbound' = outbound /\ wire' = wire /\ events' = events
      /\ writePump' = writePump /\ calling' = calling /\ UNCHANGED registered
  BY DEF AuthTimerFires, PingTimerFires, WatchdogFires, pumpVars, timerVars, inputVars
<1>5. TypeOK'
  <2>1. TypeOK BY DEF ConnInv
  <2>2. CASE AuthTimerFires BY <1>3, <2>1, <2>2 DEF AuthTimerFires, TypeOK, pumpVars, inputVars
  <2>3. CASE PingTimerFires
    <3>1. ticks' \in 0 .. MaxTicks BY <2>1, <2>3, ConnectionBounds DEF PingTimerFires, TypeOK
    <3> QED BY <1>3, <2>1, <2>3, <3>1 DEF PingTimerFires, TypeOK, pumpVars, timerVars
  <2>4. CASE WatchdogFires BY <1>3, <2>1, <2>4 DEF WatchdogFires, TypeOK, pumpVars, inputVars
  <2> QED BY <2>2, <2>3, <2>4
<1> QED BY <1>1, <1>2, <1>4, <1>5, NotifySteps

LEMMA ReadSteps ==
    ASSUME ConnInv, ReadFrame \/ ReadFails \/ ReadPumpReturns \/ CloseSocket \/ RepairSignal
    PROVE  ConnInv'
<1>1. \A k \in ClientFrames \cup ReadEnds \cup {"repair"} : Msg(k, 0) \in Messages /\ k # "event"
  BY DEF Msg, Messages, ClientFrames, ReadEnds, TearDown
<1>2. /\ phase' = phase /\ outbound' = outbound /\ wire' = wire /\ events' = events
      /\ writePump' = writePump /\ calling' = calling /\ UNCHANGED registered
  BY DEF ReadFrame, ReadFails, ReadPumpReturns, CloseSocket, RepairSignal,
         actorVars, pumpVars, timerVars, inputVars
<1>3. TypeOK BY DEF ConnInv
<1>4. CASE ReadFrame \/ ReadFails \/ RepairSignal
  <2>1. PICK k \in ClientFrames \cup ReadEnds \cup {"repair"} : Notify(Msg(k, 0))
    BY <1>4 DEF ReadFrame, ReadFails, RepairSignal
  <2>2. mailbox' \in Seq(Messages) BY <1>1, <2>1, Notified
  <2>3. TypeOK'
    <3>1. CASE ReadFrame
      <4>1. frames' \in 0 .. MaxFrames BY <1>3, <3>1, ConnectionBounds DEF ReadFrame, TypeOK
      <4> QED BY <1>3, <2>2, <3>1, <4>1 DEF ReadFrame, TypeOK, pumpVars, timerVars
    <3>2. CASE ReadFails BY <1>3, <2>2, <3>2 DEF ReadFails, TypeOK, timerVars, inputVars
    <3>3. CASE RepairSignal
      <4>1. signals' \in 0 .. MaxSignals BY <1>3, <3>3, ConnectionBounds DEF RepairSignal, TypeOK
      <4> QED BY <1>3, <2>2, <3>3, <4>1 DEF RepairSignal, TypeOK, pumpVars, timerVars
    <3> QED BY <1>4, <3>1, <3>2, <3>3
  <2> QED BY <1>1, <1>2, <2>1, <2>3, NotifySteps
<1>5. CASE ReadPumpReturns \/ CloseSocket
  <2>1. mailbox' = mailbox BY <1>5 DEF ReadPumpReturns, CloseSocket, actorVars
  <2>2. TypeOK'
    BY <1>3, <1>5 DEF ReadPumpReturns, CloseSocket, TypeOK, actorVars, timerVars, inputVars
  <2>3. Called' BY <1>2 DEF ConnInv, Called
  <2> QED BY <1>2, <2>1, <2>2, <2>3, QuietSteps
<1> QED BY <1>4, <1>5

LEMMA WriteSteps == ASSUME ConnInv, WritePump PROVE ConnInv'
<1>1. /\ TypeOK /\ Called /\ outbound \in Seq(Frames) /\ wire \in Seq(Frames)
      /\ Len(outbound) <= OutboundSize /\ (writePump = "running" => Queued(outbound) /\ ByPhase /\ Forwarded)
  BY DEF ConnInv, TypeOK
<1>2. phase' = phase /\ calling' = calling /\ events' = events /\ UNCHANGED registered
  BY DEF WritePump, WriteFrame, WriteFails, WriteClose, WritePumpReturns, actorVars, inputVars
<1>3. Called' BY <1>1, <1>2 DEF Called
<1>4. Draining => /\ outbound # <<>> /\ Head(outbound) \in Frames
                  /\ Tail(outbound) \in Seq(Frames) /\ Len(Tail(outbound)) <= OutboundSize
  BY <1>1, TailFacts, OutboundPositive DEF Draining
<1>5. CASE WriteFrame
  <2>1. /\ Draining /\ wire' = Append(wire, Head(outbound)) /\ outbound' = Tail(outbound)
        /\ mailbox' = mailbox /\ writePump' = writePump /\ writePump = "running"
    BY <1>5 DEF WriteFrame, Draining
  <2>2. TypeOK'
    <3>1. wire' \in Seq(Frames) BY <1>1, <1>4, <2>1
    <3> QED BY <1>1, <1>4, <1>5, <2>1, <3>1 DEF WriteFrame, TypeOK, timerVars, inputVars
  <2>3. Queued(outbound)' /\ Seen(outbound)' = Seen(outbound) /\ Sent(outbound)' = Sent(outbound)
    BY <1>1, <1>2, <1>4, <2>1, WriteQueue
  <2>4. ByPhase' BY <1>1, <1>2, <2>1, <2>3 DEF ByPhase
  <2>5. Forwarded' BY <1>1, <1>2, <2>1, <2>3 DEF Forwarded
  <2> QED BY <1>3, <2>2, <2>3, <2>4, <2>5 DEF ConnInv
<1>6. CASE WriteFails \/ WriteClose
  <2>1. Draining /\ outbound' = Tail(outbound) /\ writePump' = "done"
    BY <1>6 DEF WriteFails, WriteClose
  <2>2. PICK k \in {"writePumpFailed", "writePumpClosed"} : Notify(Msg(k, 0))
    BY <1>6 DEF WriteFails, WriteClose
  <2>3. Msg(k, 0) \in Messages BY DEF Msg, Messages, TearDown
  <2>4. mailbox' \in Seq(Messages) BY <2>2, <2>3, Notified
  <2>5. wire' = wire \/ wire' = Append(wire, Head(outbound)) BY <1>6 DEF WriteFails, WriteClose
  <2>6. wire' \in Seq(Frames) BY <1>1, <1>4, <2>1, <2>5
  <2>7. TypeOK'
    BY <1>1, <1>4, <1>6, <2>1, <2>4, <2>6 DEF WriteFails, WriteClose, TypeOK, timerVars, inputVars
  <2> QED BY <1>3, <2>1, <2>7 DEF ConnInv
<1>7. CASE WritePumpReturns
  <2>1. writePump' = "done" BY <1>7 DEF WritePumpReturns
  <2>2. TypeOK' BY <1>1, <1>7 DEF WritePumpReturns, TypeOK, actorVars, timerVars, inputVars
  <2> QED BY <1>3, <2>1, <2>2 DEF ConnInv
<1> QED BY <1>5, <1>6, <1>7 DEF WritePump

LEMMA GrainSteps == ASSUME ConnInv, GrainForwards PROVE ConnInv'
<1>1. /\ TypeOK /\ Called /\ mailbox \in Seq(Messages) /\ events \in Nat
      /\ (writePump = "running" => Queued(outbound) /\ ByPhase /\ Forwarded)
  BY DEF ConnInv, TypeOK
<1>2. /\ phase' = phase /\ outbound' = outbound /\ wire' = wire /\ phase # "stopped"
      /\ writePump' = writePump /\ calling' = calling /\ registered' = registered /\ registered
  BY DEF GrainForwards, pumpVars
<1>3. CASE events < MaxEvents /\ events' = events + 1 /\ Notify(Msg("event", events + 1)) /\ UNCHANGED signals
  <2> PICK m : m = Msg("event", events + 1) OBVIOUS
  <2>1. m \in Messages /\ m.kind = "event" /\ m.n = events + 1
    BY <1>1 DEF Msg, Messages
  <2>2. mailbox' = Append(mailbox, m) BY <1>2, <1>3 DEF Notify
  <2>3. TypeOK'
    <3>1. mailbox' \in Seq(Messages) BY <1>1, <2>1, <2>2
    <3>2. events' \in 0 .. MaxEvents BY <1>1, <1>3, ConnectionBounds
    <3> QED BY <1>1, <1>2, <1>3, <3>1, <3>2 DEF GrainForwards, TypeOK, pumpVars, timerVars
  <2>4. Called' BY <1>1, <1>2 DEF Called
  <2>5. ASSUME writePump = "running" PROVE Queued(outbound)' /\ ByPhase' /\ Forwarded'
    <3>1. \A f, seen, sent : MayJoin(f, seen, sent) => MayJoin(f, seen, sent)'
      <4>1. 1 .. events \subseteq 1 .. events' BY <1>1, <1>3
      <4> QED BY <4>1 DEF MayJoin
    <3>2. Queued(outbound)' BY <1>1, <1>2, <2>5, <3>1 DEF Queued, SeenBefore, SentBefore
    <3>3. Seen(outbound)' = Seen(outbound) /\ Sent(outbound)' = Sent(outbound)
      BY <1>2 DEF Seen, Sent
    <3>4. ByPhase' BY <1>1, <1>2, <2>5, <3>3 DEF ByPhase
    <3>5. Forwarded' BY <1>1, <1>2, <1>3, <2>1, <2>2, <2>5, <3>3, ForwardAdd
    <3> QED BY <3>2, <3>4, <3>5
  <2> QED BY <1>2, <2>3, <2>4, <2>5 DEF ConnInv
<1>4. CASE signals < MaxSignals /\ signals' = signals + 1 /\ Notify(Msg("badEvent", 0)) /\ UNCHANGED events
  <2>1. Msg("badEvent", 0) \in Messages BY DEF Msg, Messages
  <2>2. mailbox' \in Seq(Messages) BY <1>4, <2>1, Notified
  <2>3. signals' \in 0 .. MaxSignals BY <1>1, <1>4, ConnectionBounds DEF TypeOK
  <2>4. TypeOK' BY <1>1, <1>2, <1>4, <2>2, <2>3 DEF GrainForwards, TypeOK, pumpVars, timerVars
  <2> QED BY <1>2, <1>4, <2>1, <2>4, NotifySteps
<1> QED BY <1>3, <1>4 DEF GrainForwards

LEMMA ConnStep == ConnInv /\ [Next]_vars => ConnInv'
<1> SUFFICES ASSUME ConnInv, [Next]_vars PROVE ConnInv' OBVIOUS
<1>1. CASE UNCHANGED vars
  <2>1. /\ phase' = phase /\ outbound' = outbound /\ wire' = wire /\ events' = events
        /\ writePump' = writePump /\ mailbox' = mailbox /\ calling' = calling /\ UNCHANGED registered
    BY <1>1 DEF vars, actorVars, pumpVars, inputVars
  <2>2. TypeOK' BY <1>1 DEF ConnInv, TypeOK, vars, actorVars, pumpVars, timerVars, inputVars
  <2>3. Called' BY <2>1 DEF ConnInv, Called
  <2> QED BY <2>1, <2>2, <2>3, QuietSteps
<1>2. CASE Next
  BY <1>2, HandleSteps, CallSteps, TimerSteps, ReadSteps, WriteSteps, GrainSteps DEF Next
<1> QED BY <1>1, <1>2

\* TypeOK: no execution puts more than OutboundSize frames in the outbound
\* channel, or a value of the wrong kind in a field of UserConnection.
THEOREM ConnectionTypeCorrect == Spec => []TypeOK
<1>1. ConnInv => TypeOK BY DEF ConnInv
<1> QED BY ConnInit, ConnStep, <1>1, PTL DEF Spec

\* A written frame is one the client may receive next.
LEMMA ArriveSteps ==
    ASSUME ConnInv, Draining, wire' = Append(wire, Head(outbound)), outbound' = Tail(outbound),
           events' = events
    PROVE  Wire!Arrive
<1>1. /\ wire \in Seq(Frames) /\ outbound \in Seq(Frames) /\ outbound # <<>> /\ Queued(outbound)
  BY DEF ConnInv, TypeOK, Draining
<1> PICK h : h = Head(outbound) OBVIOUS
<1>2. h \in Frames BY <1>1, TailFacts
<1>3. Len(wire') = Len(wire) + 1 /\ wire'[Len(wire')] = h BY <1>1, <1>2, AppendFacts
<1>4. MayJoin(h, Kinds(wire, Len(wire)), Numbers(wire, Len(wire))) BY <1>1, WriteQueue
<1>5. \A k : Wire!Has(k) <=> k \in Kinds(wire, Len(wire)) BY DEF Wire!Has, Kinds
<1>6. Wire!EventsReceived = Numbers(wire, Len(wire)) BY DEF Wire!EventsReceived, Numbers
<1>7. Wire!MayFollow(h) BY <1>4, <1>5, <1>6 DEF MayJoin, Wire!MayFollow
<1> QED BY <1>3, <1>7 DEF Wire!Arrive

LEMMA WireStep == ConnInv /\ [Next]_vars => [Wire!Offer \/ Wire!Arrive]_(Wire!wireVars)
<1> SUFFICES ASSUME ConnInv, [Next]_vars
             PROVE  Wire!Offer \/ Wire!Arrive \/ (wire' = wire /\ events' = events)
  BY DEF Wire!wireVars
<1>1. CASE UNCHANGED vars BY <1>1 DEF vars, pumpVars, inputVars
<1>2. CASE Handle
  BY <1>2 DEF Handle, InboundAuth, AuthTimeoutExpired, BadFrame, RoomEvent, Repair, AppPingTick,
              AppPongReceived, PongTimeoutExpired, TransportGone, Drops, BlocksFor, Rejects, Closes,
              SendOutbound, Stopping, pumpVars, inputVars
<1>3. CASE CallEnds \/ GrainStores
  BY <1>3 DEF CallEnds, AuthSucceeds, AuthFails, RepairEnds, GrainStores, Rejects, Closes,
              SendOutbound, Stopping, pumpVars, inputVars
<1>4. CASE AuthTimerFires \/ PingTimerFires \/ WatchdogFires
  BY <1>4 DEF AuthTimerFires, PingTimerFires, WatchdogFires, pumpVars, inputVars
<1>5. CASE ReadFrame \/ ReadFails \/ ReadPumpReturns \/ CloseSocket \/ RepairSignal
  BY <1>5 DEF ReadFrame, ReadFails, ReadPumpReturns, CloseSocket, RepairSignal, pumpVars, inputVars
<1>6. CASE WritePump
  <2>1. events' = events
    BY <1>6 DEF WritePump, WriteFrame, WriteFails, WriteClose, WritePumpReturns, inputVars
  <2>2. \/ wire' = wire
        \/ Draining /\ wire' = Append(wire, Head(outbound)) /\ outbound' = Tail(outbound)
    BY <1>6 DEF WritePump, WriteFrame, WriteFails, WriteClose, WritePumpReturns
  <2> QED BY <2>1, <2>2, ArriveSteps
<1>7. CASE GrainForwards
  <2>1. wire' = wire /\ (events' = events \/ events' = events + 1) BY <1>7 DEF GrainForwards, pumpVars
  <2> QED BY <2>1 DEF Wire!Offer
<1> QED BY <1>1, <1>2, <1>3, <1>4, <1>5, <1>6, <1>7 DEF Next

\* KeepsWireProtocol: sendOutbound, the behaviors and the pumps together
\* implement WireProtocol.  Every frame they write is one the client may
\* receive next, after whatever it has received.
THEOREM WireProtocolKept == Spec => KeepsWireProtocol
<1>1. Init => Wire!WireInit BY DEF Init, Wire!WireInit
<1> QED BY ConnInit, ConnStep, <1>1, WireStep, PTL DEF Spec, KeepsWireProtocol, Wire!WireSpec
==============================================================================
