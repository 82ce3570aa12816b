-------------------------- MODULE JoinedRoomsProofs --------------------------
(***************************************************************************)
(* Proofs about JoinedRooms, for any rooms, devices, requests and faults:   *)
(*   CacheTruthful  the cached set of joined rooms agrees with the rows,    *)
(*                  except where an outcome is open or was never learnt;    *)
(*   RetryHeals     a membership command answered with success has healed   *)
(*                  row and cache, and nothing earlier can undo it, if the  *)
(*                  room had no COMMIT in doubt when it answered.           *)
(***************************************************************************)
EXTENDS JoinedRooms, TLAPS

Req   == [id : Nat \ {0}, try : Nat, op : RoomOps, coded : BOOLEAN]
Reply == [id : Nat, try : Nat, answer : Answers \cup {"none"}, settled : BOOLEAN]
Mail  == [id : Nat, op : RoomOps \cup {"get", "notify"}, room : Rooms \cup {"none"}]
Call  == [id : Nat, try : Nat, op : RoomOps \cup {"none"}, room : Rooms \cup {"none"},
          answer : Answers \cup {"none"}, settled : BOOLEAN]
Web   == [id : Nat, op : RoomOps \cup {"get", "create", "none"}, room : Rooms \cup {"none"},
          status : {"none", "waiting", "ok"}]

Shapes ==
    /\ rooms \subseteq Rooms /\ row \subseteq rooms
    /\ pending \in [Rooms -> {"none", "join", "leave"}] /\ roster \in [Rooms -> {"down", "in", "out"}]
    /\ inbox \in [Rooms -> Seq(Req)] /\ reply \in [Rooms -> Reply]
    /\ mailbox \in Seq(Mail) /\ call \in Call /\ http \in [Devices -> Web]
    /\ requests \in Nat /\ coded \in BOOLEAN /\ up \in BOOLEAN

(* The inductive invariant.  An HTTP request is in one place at a time: in *)
(* the User grain's mailbox, in its call, or forgotten (Mailed, Calling).  *)
(* The attempt the grain listens to is the last one in the room's mailbox  *)
(* (LastAttempt), so its answer is still true when it arrives (Heard), and *)
(* what the grain has given up on is in doubt (Accounted, Agreed).  A room *)
(* without a COMMIT in doubt has the row on its roster; one with it is in  *)
(* doubt for the grain as well (Kept).                                     *)

Busy == call # NoCall

Mailed ==
    \A k \in 1..Len(mailbox) :
        /\ mailbox[k].id <= requests
        /\ mailbox[k].op \in RoomOps => mailbox[k].room \in rooms
        /\ mailbox[k].op # "notify" <=> mailbox[k].id # 0
        /\ mailbox[k].id # 0 =>
              /\ \A j \in 1..Len(mailbox) : mailbox[j].id = mailbox[k].id => j = k
              /\ mailbox[k].id # call.id
              /\ \A r \in Rooms : /\ reply[r].id # mailbox[k].id
                                  /\ \A i \in 1..Len(inbox[r]) : inbox[r][i].id # mailbox[k].id

Sent ==
    \A r \in Rooms :
        /\ reply[r].id <= requests /\ (reply[r] # NoReply => reply[r].id # 0)
        /\ \A i \in 1..Len(inbox[r]) : inbox[r][i].id <= requests /\ r \in rooms

Calling ==
    Busy =>
        /\ up /\ call.id # 0 /\ call.id <= requests /\ call.room \in rooms /\ call.op \in RoomOps
        /\ \A r \in Rooms :
              /\ reply[r].id = call.id => r = call.room /\ reply[r].try <= call.try
              /\ \A i \in 1..Len(inbox[r]) : inbox[r][i].id = call.id =>
                    /\ r = call.room /\ inbox[r][i].op = call.op /\ inbox[r][i].coded = coded
                    /\ inbox[r][i].try <= call.try

Mine(q) == q.id = call.id /\ q.try = call.try

LastAttempt ==
    Busy => \A i \in 1..Len(inbox[call.room]) : Mine(inbox[call.room][i]) => i = Len(inbox[call.room])

Truthful(a) ==
    /\ call.op = "join" /\ a \in {"ok", "already"} => call.room \in row
    /\ call.op = "join" /\ a = "error" => ~(coded /\ call.room \in row)
    /\ call.op = "leave" /\ a \in {"ok", "notMember"} => call.room \notin row
    /\ call.op = "leave" /\ a = "error" => call.room \in row

Believed(a, settled) ==
    IF settled THEN call.room \notin unsettled /\ Truthful(a) ELSE call.room \in doubt

Heard ==
    Busy =>
        /\ Mine(reply[call.room]) =>
              inbox[call.room] = <<>> /\ Believed(reply[call.room].answer, reply[call.room].settled)
        /\ call.answer # "none" => inbox[call.room] = <<>> /\ Believed(call.answer, call.settled)

Kept ==
    \A r \in Rooms :
        /\ roster[r] # "down" => r \in rooms
        /\ pending[r] # "none" => r \in unsettled /\ r \in rooms
        /\ r \in unsettled => r \in doubt
        /\ r \notin unsettled /\ roster[r] # "down" => (roster[r] = "in" <=> r \in row)

Accounted ==
    up => \A r \in Rooms \ doubt : \A i \in 1..Len(inbox[r]) :
              inbox[r][i].op \in MembershipOps => Busy /\ inbox[r][i].id = call.id

Underway(r) ==
    /\ Busy /\ call.room = r
    /\ \/ call.op = "join" /\ coded /\ r \in row
       \/ call.op = "leave" /\ r \notin row

Agreed == up => \A r \in Rooms \ doubt : (r \in joined <=> r \in row) \/ Underway(r)

SameCommand(w, op, r) == w.room = r /\ w.op \in {op, "create"}

Waiting ==
    \A d \in Devices :
        /\ http[d].id <= requests
        /\ Busy /\ http[d].id = call.id => SameCommand(http[d], call.op, call.room)
        /\ \A k \in 1..Len(mailbox) : mailbox[k].id # 0 /\ http[d].id = mailbox[k].id =>
              SameCommand(http[d], mailbox[k].op, mailbox[k].room)

CacheInv == Shapes /\ Mailed /\ Sent /\ Calling /\ LastAttempt /\ Heard /\ Accounted
            /\ Agreed /\ Waiting /\ Kept

-----------------------------------------------------------------------------
(* Sequences, constants of the model and the first state.                  *)

LEMMA AppendFacts ==
    ASSUME NEW S, NEW s \in Seq(S), NEW e \in S
    PROVE  /\ Append(s, e) \in Seq(S)
           /\ Len(s) \in Nat
           /\ Len(Append(s, e)) = Len(s) + 1
           /\ \A i \in 1..Len(s) : Append(s, e)[i] = s[i] /\ s[i] \in S
           /\ Append(s, e)[Len(s) + 1] = e
OBVIOUS

LEMMA TailFacts ==
    ASSUME NEW S, NEW s \in Seq(S), s # <<>>
    PROVE  /\ Tail(s) \in Seq(S)
           /\ Len(s) \in Nat /\ 1 \in 1..Len(s)
           /\ Len(Tail(s)) = Len(s) - 1
           /\ \A i \in 1..Len(Tail(s)) : Tail(s)[i] = s[i + 1] /\ i + 1 \in 1..Len(s)
           /\ Head(s) = s[1] /\ Head(s) \in S
OBVIOUS

LEMMA Nothing ==
    /\ NoCall \in Call /\ NoCall.id = 0 /\ NoCall.op = "none" /\ NoCall.try = 0
    /\ NoReply \in Reply /\ NoReply.id = 0
    /\ NoHTTP \in Web /\ NoHTTP.id = 0 /\ NoHTTP.op = "none" /\ NoHTTP.status = "none"
BY DEF NoCall, NoReply, NoHTTP, Call, Reply, Web

\* What Answered leaves of the request of a device.
LEMMA AnsweredFacts ==
    ASSUME http \in [Devices -> Web], NEW n \in Nat, NEW ok \in BOOLEAN
    PROVE  /\ Answered(n, ok) \in [Devices -> Web]
           /\ \A d \in Devices :
                 \/ Answered(n, ok)[d] = http[d]
                 \/ /\ n # 0 /\ http[d].id = n
                    /\ Answered(n, ok)[d].id = 0 /\ Answered(n, ok)[d].op = "none"
                    /\ Answered(n, ok)[d].status = "ok" => ok \/ http[d].op = "create"
<1> DEFINE done(d) == [NoHTTP EXCEPT !.status = IF ok \/ http[d].op = "create" THEN "ok" ELSE "none"]
<1>1. ASSUME NEW d \in Devices
      PROVE  /\ done(d) \in Web /\ done(d).id = 0 /\ done(d).op = "none"
             /\ done(d).status = "ok" => ok \/ http[d].op = "create"
  BY DEF NoHTTP, Web
<1> HIDE DEF done
<1>2. Answered(n, ok) = [d \in Devices |-> IF n = 0 \/ http[d].id # n THEN http[d] ELSE done(d)]
  BY DEF Answered, done
<1> QED BY <1>1, <1>2

\* The elements of the mailboxes.
LEMMA Typed ==
    ASSUME Shapes
    PROVE  /\ Len(mailbox) \in Nat
           /\ \A k \in 1..Len(mailbox) : mailbox[k] \in Mail /\ mailbox[k].id \in Nat
           /\ \A r \in Rooms :
                 /\ inbox[r] \in Seq(Req) /\ Len(inbox[r]) \in Nat
                 /\ \A i \in 1..Len(inbox[r]) :
                       /\ inbox[r][i] \in Req /\ inbox[r][i].id \in Nat /\ inbox[r][i].id # 0
                       /\ inbox[r][i].try \in Nat
                 /\ reply[r] \in Reply /\ reply[r].id \in Nat /\ reply[r].try \in Nat
           /\ \A d \in Devices : http[d] \in Web /\ http[d].id \in Nat
           /\ call.id \in Nat /\ call.try \in Nat
<1>1. Len(mailbox) \in Nat /\ \A k \in 1..Len(mailbox) : mailbox[k] \in Mail BY DEF Shapes
<1>2. ASSUME NEW r \in Rooms
      PROVE  /\ inbox[r] \in Seq(Req) /\ Len(inbox[r]) \in Nat
             /\ \A i \in 1..Len(inbox[r]) : inbox[r][i] \in Req
  <2>1. inbox[r] \in Seq(Req) BY DEF Shapes
  <2> QED BY <2>1
<1>3. \A r \in Rooms : reply[r] \in Reply BY DEF Shapes
<1>4. \A d \in Devices : http[d] \in Web BY DEF Shapes
<1>5. call \in Call BY DEF Shapes
<1>6. \A q \in Req : q.id \in Nat /\ q.id # 0 /\ q.try \in Nat BY DEF Req
<1>7. \A q \in Reply : q.id \in Nat /\ q.try \in Nat BY DEF Reply
<1>8. /\ \A q \in Mail : q.id \in Nat
      /\ \A q \in Web : q.id \in Nat
      /\ call.id \in Nat /\ call.try \in Nat
  BY <1>5 DEF Mail, Web, Call
<1>9. \A r \in Rooms :
         /\ inbox[r] \in Seq(Req) /\ Len(inbox[r]) \in Nat
         /\ \A i \in 1..Len(inbox[r]) :
               /\ inbox[r][i] \in Req /\ inbox[r][i].id \in Nat /\ inbox[r][i].id # 0
               /\ inbox[r][i].try \in Nat
  BY <1>2, <1>6
<1> QED BY <1>1, <1>3, <1>4, <1>7, <1>8, <1>9

LEMMA CacheInit == Init => CacheInv
<1> SUFFICES ASSUME Init PROVE CacheInv OBVIOUS
<1>1. /\ rooms \subseteq Rooms /\ row \subseteq rooms /\ requests = 0 /\ coded = FALSE /\ up = FALSE
      /\ mailbox = <<>> /\ call = NoCall /\ unsettled = {}
      /\ pending = [r \in Rooms |-> "none"] /\ roster = [r \in Rooms |-> "down"]
      /\ inbox = [r \in Rooms |-> <<>>] /\ reply = [r \in Rooms |-> NoReply]
      /\ http = [d \in Devices |-> NoHTTP]
  BY DEF Init
<1>2. Shapes
  <2>1. inbox \in [Rooms -> Seq(Req)] BY <1>1
  <2>2. mailbox \in Seq(Mail) BY <1>1
  <2> QED BY <1>1, <2>1, <2>2, Nothing DEF Shapes
<1>3. Mailed /\ LastAttempt /\ Heard /\ Calling BY <1>1 DEF Mailed, LastAttempt, Heard, Calling, Busy
<1>4. Sent BY <1>1, Nothing DEF Sent
<1>5. Accounted /\ Agreed BY <1>1 DEF Accounted, Agreed
<1>6. Waiting BY <1>1, Nothing DEF Waiting, Busy
<1>k. Kept BY <1>1 DEF Kept
<1> QED BY <1>2, <1>3, <1>4, <1>5, <1>6, <1>k DEF CacheInv

\* Steps that leave alone all the invariant speaks of.
LEMMA Unmoved ==
    ASSUME CacheInv,
           UNCHANGED <<rooms, row, pending, roster, unsettled, inbox, reply, up, coded, joined, mailbox,
                       call, http, requests, doubt>>
    PROVE  CacheInv'
BY DEF CacheInv, Shapes, Kept, Mailed, Sent, Calling, LastAttempt, Heard, Accounted, Agreed, Waiting,
       Busy, Mine, Truthful, Believed, Underway

-----------------------------------------------------------------------------
(* A new HTTP request.                                                     *)

\* Whatever else the handler commits: rooms only grow, and the row only
\* changes in a room that did not exist.
LEMMA DispatchSteps ==
    ASSUME CacheInv, NEW d \in Devices, NEW op, NEW grainOp \in RoomOps \cup {"get"},
           NEW r \in Rooms \cup {"none"}, Dispatch(d, op, grainOp, r),
           op \in {grainOp, "create"}, grainOp \in RoomOps => r \in rooms',
           rooms \subseteq rooms', rooms' \subseteq Rooms, row' \subseteq rooms',
           doubt \subseteq doubt', \A x \in Rooms : x \in rooms \/ x \in doubt' \/ (x \in row' <=> x \in row),
           \A x \in rooms : x \in row' <=> x \in row, UNCHANGED <<pending, roster, unsettled>>
    PROVE  CacheInv'
<1> DEFINE n == requests + 1
           w == [id |-> n, op |-> op, room |-> r, status |-> "waiting"]
           m == [id |-> n, op |-> grainOp, room |-> r]
<1>0. /\ Shapes /\ Mailed /\ Sent /\ Calling /\ LastAttempt /\ Heard /\ Accounted /\ Agreed /\ Waiting /\ Kept
      /\ requests \in Nat /\ requests' = n
      /\ http' = [http EXCEPT ![d] = w] /\ mailbox' = Append(mailbox, m)
      /\ inbox' = inbox /\ reply' = reply /\ up' = up /\ coded' = coded /\ joined' = joined /\ call' = call
      /\ (Busy' <=> Busy)
  BY DEF CacheInv, Dispatch, Busy, Shapes
<1>1. /\ w \in Web /\ w.id = n /\ w.room = r /\ w.op = op
      /\ m \in Mail /\ m.id = n /\ m.op = grainOp /\ m.room = r /\ n \in Nat /\ n # 0
  BY <1>0 DEF Web, Mail, RoomOps, MembershipOps
<1> HIDE DEF w, m
<1>2. /\ mailbox' \in Seq(Mail) /\ Len(mailbox) \in Nat /\ Len(mailbox') = Len(mailbox) + 1
      /\ \A i \in 1..Len(mailbox) : mailbox'[i] = mailbox[i] /\ mailbox[i] \in Mail
      /\ mailbox'[Len(mailbox) + 1] = m
  BY <1>0, <1>1, AppendFacts DEF Shapes
<1>3. Shapes' BY <1>0, <1>1, <1>2 DEF Shapes
<1>4. Mailed'
  <2> SUFFICES ASSUME NEW k \in 1..Len(mailbox')
               PROVE  /\ mailbox'[k].id <= requests'
                      /\ mailbox'[k].op \in RoomOps => mailbox'[k].room \in rooms'
                      /\ mailbox'[k].op # "notify" <=> mailbox'[k].id # 0
                      /\ mailbox'[k].id # 0 =>
                           /\ \A j \in 1..Len(mailbox') : mailbox'[j].id = mailbox'[k].id => j = k
                           /\ mailbox'[k].id # call'.id
                           /\ \A x \in Rooms : /\ reply'[x].id # mailbox'[k].id
                              /\ \A i \in 1..Len(inbox'[x]) : inbox'[x][i].id # mailbox'[k].id
    BY DEF Mailed
  <2>1. /\ call.id <= requests \/ call.id = 0
        /\ \A x \in Rooms : /\ reply[x].id <= requests
                            /\ \A i \in 1..Len(inbox[x]) : inbox[x][i].id <= requests
        /\ \A i \in 1..Len(mailbox) : mailbox[i].id <= requests
    BY <1>0, Nothing DEF Calling, Sent, Mailed, Busy
  <2>2. CASE k \in 1..Len(mailbox)
    <3>1. mailbox'[k] = mailbox[k] /\ mailbox[k].id \in Nat BY <1>2, <2>2 DEF Mail
    <3>2. /\ mailbox[k].id <= requests
          /\ mailbox[k].op \in RoomOps => mailbox[k].room \in rooms
          /\ mailbox[k].op # "notify" <=> mailbox[k].id # 0
      BY <1>0, <2>2 DEF Mailed
    <3>3. mailbox[k].id # 0 =>
            /\ mailbox[k].id # call.id
            /\ \A x \in Rooms : /\ reply[x].id # mailbox[k].id
                                /\ \A i \in 1..Len(inbox[x]) : inbox[x][i].id # mailbox[k].id
      BY <1>0, <2>2 DEF Mailed
    <3>4. ASSUME mailbox[k].id # 0, NEW j \in 1..Len(mailbox'), mailbox'[j].id = mailbox[k].id
          PROVE  j = k
      <4>1. j \in 1..Len(mailbox) BY <1>0, <1>1, <1>2, <3>1, <3>2, <3>4
      <4> QED BY <1>0, <1>2, <2>2, <3>4, <4>1 DEF Mailed
    <3> QED BY <1>0, <3>1, <3>2, <3>3, <3>4
  <2>3. CASE k = Len(mailbox) + 1
    <3>1. grainOp # "notify" BY DEF RoomOps, MembershipOps
    <3>2. \A j \in 1..Len(mailbox') : mailbox'[j].id = n => j = k
      BY <1>0, <1>1, <1>2, <2>1, <2>3
    <3> QED BY <1>0, <1>1, <1>2, <2>1, <2>3, <3>1, <3>2 
  <2> QED BY <1>2, <2>2, <2>3
<1>5. Sent'
  <2>1. ASSUME NEW x \in Rooms PROVE reply[x].id \in Nat BY <1>0 DEF Shapes, Reply
  <2>2. ASSUME NEW x \in Rooms, NEW i \in 1..Len(inbox[x]) PROVE inbox[x][i].id \in Nat
    BY <1>0, Typed
  <2> QED BY <1>0, <2>1, <2>2 DEF Sent
<1>6. Calling' BY <1>0 DEF Calling, Shapes, Call
<1>7. LastAttempt' BY <1>0 DEF LastAttempt, Mine
<1>8. Heard' BY <1>0 DEF Heard, Mine, Truthful, Believed, Calling
<1>9. Accounted' BY <1>0 DEF Accounted
<1>10. Agreed' BY <1>0 DEF Agreed, Underway
<1>11. Waiting'
  <2> SUFFICES ASSUME NEW e \in Devices
               PROVE  /\ http'[e].id <= requests'
                      /\ Busy' /\ http'[e].id = call'.id => SameCommand(http'[e], call'.op, call'.room)
                      /\ \A k \in 1..Len(mailbox') : mailbox'[k].id # 0 /\ http'[e].id = mailbox'[k].id =>
                            SameCommand(http'[e], mailbox'[k].op, mailbox'[k].room)
    BY DEF Waiting
  <2>1. \A i \in 1..Len(mailbox) : mailbox[i].id <= requests BY <1>0 DEF Mailed
  <2>2. http[e] \in Web /\ http[e].id \in Nat /\ http[e].id <= requests BY <1>0 DEF Shapes, Web, Waiting
  <2>3. CASE e = d
    <3>1. http'[e] = w BY <1>0, <2>3 DEF Shapes
    <3> QED BY <1>0, <1>1, <1>2, <2>1, <2>3, <3>1 DEF Calling, SameCommand
  <2>4. CASE e # d
    <3>1. http'[e] = http[e] BY <1>0, <2>4 DEF Shapes
    <3> QED BY <1>0, <1>1, <1>2, <2>2, <3>1 DEF Waiting
  <2> QED BY <2>3, <2>4
<1>k. Kept' BY <1>0 DEF Kept
<1> QED BY <1>3, <1>4, <1>5, <1>6, <1>7, <1>8, <1>9, <1>10, <1>11, <1>k DEF CacheInv

-----------------------------------------------------------------------------
(* Steps that leave the rooms and the grain's cache alone.                 *)

\* A handler of the gateway answers its device.
LEMMA AnswerSteps ==
    ASSUME CacheInv, NEW n \in Nat, NEW ok \in BOOLEAN, http' = Answered(n, ok),
           UNCHANGED <<rosterVars, roomVars, grainVars, requests, doubt>>
    PROVE  CacheInv'
<1>0. /\ Shapes /\ Mailed /\ Sent /\ Calling /\ LastAttempt /\ Heard /\ Accounted /\ Agreed /\ Waiting /\ Kept
      /\ rooms' = rooms /\ row' = row
      /\ pending' = pending /\ roster' = roster /\ unsettled' = unsettled
      /\ inbox' = inbox /\ reply' = reply /\ mailbox' = mailbox
      /\ up' = up /\ coded' = coded /\ joined' = joined /\ call' = call
      /\ requests' = requests /\ doubt' = doubt /\ (Busy' <=> Busy)
  BY DEF CacheInv, roomVars, rosterVars, grainVars, Busy
<1>1. /\ http' \in [Devices -> Web]
      /\ \A d \in Devices : http'[d] = http[d] \/ http'[d].id = 0
  BY <1>0, AnsweredFacts DEF Shapes
<1>2. Shapes' BY <1>0, <1>1 DEF Shapes
<1>3. Mailed' /\ Sent' BY <1>0 DEF Mailed, Sent
<1>4. Calling' /\ LastAttempt' /\ Heard' BY <1>0 DEF Calling, LastAttempt, Heard, Mine, Truthful, Believed
<1>5. Accounted' /\ Agreed' BY <1>0 DEF Accounted, Agreed, Underway
<1>6. Waiting'
  <2> SUFFICES ASSUME NEW e \in Devices
               PROVE  /\ http'[e].id <= requests
                      /\ Busy /\ http'[e].id = call.id => SameCommand(http'[e], call.op, call.room)
                      /\ \A k \in 1..Len(mailbox) : mailbox[k].id # 0 /\ http'[e].id = mailbox[k].id =>
                            SameCommand(http'[e], mailbox[k].op, mailbox[k].room)
    BY <1>0 DEF Waiting
  <2>1. CASE http'[e] = http[e] BY <1>0, <2>1 DEF Waiting
  <2>2. CASE http'[e].id = 0
    <3>1. Busy => call.id # 0 BY <1>0 DEF Calling
    <3> QED BY <1>0, <2>2, <3>1 DEF Shapes
  <2> QED BY <1>1, <2>1, <2>2
<1>k. Kept' BY <1>0 DEF Kept
<1> QED BY <1>2, <1>3, <1>4, <1>5, <1>6, <1>k DEF CacheInv

\* The grain takes the next message of its mailbox without calling a room.
LEMMA TurnSteps ==
    ASSUME CacheInv, mailbox # <<>>, mailbox' = Tail(mailbox),
           \/ http' = http
           \/ \E n \in Nat, ok \in BOOLEAN : http' = Answered(n, ok),
           UNCHANGED <<rooms, row, pending, roster, unsettled, inbox, reply, up, coded, joined, call,
                       requests, doubt>>
    PROVE  CacheInv'
<1>0. /\ Shapes /\ Mailed /\ Sent /\ Calling /\ LastAttempt /\ Heard /\ Accounted /\ Agreed /\ Waiting /\ Kept
      /\ rooms' = rooms /\ row' = row
      /\ pending' = pending /\ roster' = roster /\ unsettled' = unsettled
      /\ inbox' = inbox /\ reply' = reply
      /\ up' = up /\ coded' = coded /\ joined' = joined /\ call' = call
      /\ requests' = requests /\ doubt' = doubt /\ (Busy' <=> Busy)
  BY DEF CacheInv, Busy
<1>1. /\ http' \in [Devices -> Web]
      /\ \A d \in Devices : http'[d] = http[d] \/ http'[d].id = 0
  BY <1>0, AnsweredFacts DEF Shapes
<1>2. /\ mailbox' \in Seq(Mail) /\ Len(mailbox) \in Nat /\ Len(mailbox') = Len(mailbox) - 1
      /\ \A k \in 1..Len(mailbox') : mailbox'[k] = mailbox[k + 1] /\ k + 1 \in 1..Len(mailbox)
  <2>1. mailbox \in Seq(Mail) BY <1>0 DEF Shapes
  <2> QED BY <2>1, TailFacts
<1>3. Shapes' BY <1>0, <1>1, <1>2 DEF Shapes
<1>4. Mailed'
  <2> SUFFICES ASSUME NEW k \in 1..Len(mailbox')
               PROVE  /\ mailbox'[k].id <= requests
                      /\ mailbox'[k].op \in RoomOps => mailbox'[k].room \in rooms
                      /\ mailbox'[k].op # "notify" <=> mailbox'[k].id # 0
                      /\ mailbox'[k].id # 0 =>
                           /\ \A j \in 1..Len(mailbox') : mailbox'[j].id = mailbox'[k].id => j = k
                           /\ mailbox'[k].id # call.id
                           /\ \A x \in Rooms : /\ reply[x].id # mailbox'[k].id
                              /\ \A i \in 1..Len(inbox[x]) : inbox[x][i].id # mailbox'[k].id
    BY <1>0 DEF Mailed
  <2>1. ASSUME mailbox'[k].id # 0, NEW j \in 1..Len(mailbox'), mailbox'[j].id = mailbox'[k].id
        PROVE  j = k
    <3>1. j + 1 = k + 1 BY <1>0, <1>2, <2>1 DEF Mailed
    <3> QED BY <1>2, <3>1
  <2> QED BY <1>0, <1>2, <2>1 DEF Mailed
<1>5. Sent' BY <1>0 DEF Sent
<1>6. Calling' /\ LastAttempt' /\ Heard' BY <1>0 DEF Calling, LastAttempt, Heard, Mine, Truthful, Believed
<1>7. Accounted' /\ Agreed' BY <1>0 DEF Accounted, Agreed, Underway
<1>8. Waiting'
  <2> SUFFICES ASSUME NEW e \in Devices
               PROVE  /\ http'[e].id <= requests
                      /\ Busy /\ http'[e].id = call.id => SameCommand(http'[e], call.op, call.room)
                      /\ \A k \in 1..Len(mailbox') : mailbox'[k].id # 0 /\ http'[e].id = mailbox'[k].id =>
                            SameCommand(http'[e], mailbox'[k].op, mailbox'[k].room)
    BY <1>0 DEF Waiting
  <2>1. CASE http'[e] = http[e] BY <1>0, <1>2, <2>1 DEF Waiting
  <2>2. CASE http'[e].id = 0
    <3>1. Busy => call.id # 0 BY <1>0 DEF Calling
    <3> QED BY <1>0, <2>2, <3>1 DEF Shapes
  <2> QED BY <1>1, <2>1, <2>2
<1>k. Kept' BY <1>0 DEF Kept
<1> QED BY <1>3, <1>4, <1>5, <1>6, <1>7, <1>8, <1>k DEF CacheInv

\* The child of a room calls the grain.
LEMMA NotifySteps ==
    ASSUME CacheInv, NEW r \in Rooms, ChildNotifies(r)
    PROVE  CacheInv'
<1> DEFINE m == [id |-> 0, op |-> "notify", room |-> r]
<1>0. /\ Shapes /\ Mailed /\ Sent /\ Calling /\ LastAttempt /\ Heard /\ Accounted /\ Agreed /\ Waiting /\ Kept
      /\ rooms' = rooms /\ row' = row
      /\ pending' = pending /\ roster' = roster /\ unsettled' = unsettled
      /\ inbox' = inbox /\ reply' = reply
      /\ up' = up /\ coded' = coded /\ joined' = joined /\ call' = call /\ http' = http
      /\ requests' = requests /\ doubt' = doubt /\ (Busy' <=> Busy) /\ mailbox' = Append(mailbox, m)
  BY DEF CacheInv, Busy, ChildNotifies, rosterVars
<1>1. m \in Mail /\ m.id = 0 /\ m.op = "notify" /\ "notify" \notin RoomOps
  BY DEF Mail, RoomOps, MembershipOps
<1> HIDE DEF m
<1>2. /\ mailbox' \in Seq(Mail) /\ Len(mailbox) \in Nat /\ Len(mailbox') = Len(mailbox) + 1
      /\ \A i \in 1..Len(mailbox) : mailbox'[i] = mailbox[i] /\ mailbox[i] \in Mail
      /\ mailbox'[Len(mailbox) + 1] = m
  BY <1>0, <1>1, AppendFacts DEF Shapes
<1>3. Shapes' BY <1>0, <1>2 DEF Shapes
<1>4. \A k \in 1..Len(mailbox') : k \in 1..Len(mailbox) \/ mailbox'[k] = m BY <1>2
<1>5. Mailed'
  <2> SUFFICES ASSUME NEW k \in 1..Len(mailbox')
               PROVE  /\ mailbox'[k].id <= requests
                      /\ mailbox'[k].op \in RoomOps => mailbox'[k].room \in rooms
                      /\ mailbox'[k].op # "notify" <=> mailbox'[k].id # 0
                      /\ mailbox'[k].id # 0 =>
                           /\ \A j \in 1..Len(mailbox') : mailbox'[j].id = mailbox'[k].id => j = k
                           /\ mailbox'[k].id # call.id
                           /\ \A x \in Rooms : /\ reply[x].id # mailbox'[k].id
                              /\ \A i \in 1..Len(inbox[x]) : inbox[x][i].id # mailbox'[k].id
    BY <1>0 DEF Mailed
  <2>1. CASE k \in 1..Len(mailbox)
    <3>1. mailbox'[k] = mailbox[k] BY <1>2, <2>1
    <3>2. ASSUME mailbox[k].id # 0, NEW j \in 1..Len(mailbox'), mailbox'[j].id = mailbox[k].id
          PROVE  j = k
      <4>1. j \in 1..Len(mailbox) /\ mailbox'[j] = mailbox[j] BY <1>1, <1>2, <1>4, <3>2
      <4> QED BY <1>0, <2>1, <3>2, <4>1 DEF Mailed
    <3> QED BY <1>0, <2>1, <3>1, <3>2 DEF Mailed
  <2>2. CASE mailbox'[k] = m BY <1>0, <1>1, <2>2 DEF Shapes
  <2> QED BY <1>4, <2>1, <2>2
<1>6. Sent' BY <1>0 DEF Sent
<1>7. Calling' /\ LastAttempt' /\ Heard' BY <1>0 DEF Calling, LastAttempt, Heard, Mine, Truthful, Believed
<1>8. Accounted' /\ Agreed' BY <1>0 DEF Accounted, Agreed, Underway
<1>9. Waiting' BY <1>0, <1>1, <1>2, <1>4 DEF Waiting
<1>k. Kept' BY <1>0 DEF Kept
<1> QED BY <1>3, <1>5, <1>6, <1>7, <1>8, <1>9, <1>k DEF CacheInv

-----------------------------------------------------------------------------
(* The grain comes and goes.                                               *)

LEMMA ActivateSteps ==
    ASSUME CacheInv, Activate
    PROVE  CacheInv'
<1>0. /\ Shapes /\ Mailed /\ Sent /\ Calling /\ LastAttempt /\ Heard /\ Accounted /\ Agreed /\ Waiting /\ Kept
      /\ rooms' = rooms /\ row' = row
      /\ pending' = pending /\ roster' = roster /\ unsettled' = unsettled
      /\ inbox' = inbox /\ reply' = reply /\ mailbox' = mailbox
      /\ call' = call /\ http' = http /\ requests' = requests /\ (Busy' <=> Busy)
      /\ up' = TRUE /\ coded' \in BOOLEAN /\ joined' = row /\ doubt' = {r \in Rooms : Stray(r)} \cup unsettled /\ ~up
  BY DEF CacheInv, Busy, Activate, roomVars, rosterVars, resolveSelf, ListJoinedRooms
<1>1. ~Busy /\ ~Busy' BY <1>0 DEF Calling
<1>2. Shapes' BY <1>0 DEF Shapes
<1>3. Mailed' /\ Sent' BY <1>0 DEF Mailed, Sent
<1>4. Calling' /\ LastAttempt' /\ Heard' BY <1>1 DEF Calling, LastAttempt, Heard
<1>5. Accounted' BY <1>0 DEF Accounted, Stray
<1>6. Agreed' BY <1>0 DEF Agreed
<1>7. Waiting' BY <1>0 DEF Waiting
<1>k. Kept' BY <1>0 DEF Kept
<1> QED BY <1>2, <1>3, <1>4, <1>5, <1>6, <1>7, <1>k DEF CacheInv

LEMMA DownSteps ==
    ASSUME CacheInv, Passivate \/ CrashUser
    PROVE  CacheInv'
<1>0. /\ Shapes /\ Mailed /\ Sent /\ Waiting /\ Kept /\ doubt' = doubt
      /\ rooms' = rooms /\ row' = row
      /\ pending' = pending /\ roster' = roster /\ unsettled' = unsettled
      /\ inbox' = inbox /\ reply' = reply
      /\ http' = http /\ requests' = requests /\ mailbox' = <<>>
      /\ up' = FALSE /\ coded' = FALSE /\ call' = NoCall
  BY DEF CacheInv, Passivate, CrashUser, GoDown, roomVars, rosterVars
<1>1. ~Busy' /\ Len(mailbox') = 0 BY <1>0 DEF Busy
<1>2. Shapes'
  <2>1. mailbox' \in Seq(Mail) BY <1>0
  <2> QED BY <1>0, <2>1, Nothing DEF Shapes
<1>3. Mailed' BY <1>1 DEF Mailed
<1>4. Sent' BY <1>0 DEF Sent
<1>5. Calling' /\ LastAttempt' /\ Heard' BY <1>1 DEF Calling, LastAttempt, Heard
<1>6. Accounted' /\ Agreed' BY <1>0 DEF Accounted, Agreed
<1>7. Waiting' BY <1>0, <1>1 DEF Waiting
<1>k. Kept' BY <1>0 DEF Kept
<1> QED BY <1>2, <1>3, <1>4, <1>5, <1>6, <1>7, <1>k DEF CacheInv

-----------------------------------------------------------------------------
(* Calls of the grain to a room.                                           *)

\* What a request appended to the mailbox of room r leaves in the mailboxes.
LEMMA SendFacts ==
    ASSUME Shapes, NEW r \in Rooms, NEW q \in Req, inbox' = [inbox EXCEPT ![r] = Append(@, q)]
    PROVE  /\ inbox' \in [Rooms -> Seq(Req)]
           /\ Len(inbox'[r]) = Len(inbox[r]) + 1 /\ inbox'[r][Len(inbox'[r])] = q
           /\ \A x \in Rooms : \A i \in 1..Len(inbox'[x]) :
                 \/ i \in 1..Len(inbox[x]) /\ inbox'[x][i] = inbox[x][i]
                 \/ x = r /\ i = Len(inbox'[r]) /\ inbox'[x][i] = q
           /\ \A x \in Rooms : x # r => inbox'[x] = inbox[x]
<1>1. inbox[r] \in Seq(Req) BY DEF Shapes
<1>2. /\ Append(inbox[r], q) \in Seq(Req) /\ Len(inbox[r]) \in Nat
      /\ Len(Append(inbox[r], q)) = Len(inbox[r]) + 1
      /\ \A i \in 1..Len(inbox[r]) : Append(inbox[r], q)[i] = inbox[r][i]
      /\ Append(inbox[r], q)[Len(inbox[r]) + 1] = q
  BY <1>1, AppendFacts
<1>3. inbox'[r] = Append(inbox[r], q) /\ \A x \in Rooms : x # r => inbox'[x] = inbox[x]
  BY DEF Shapes
<1>4. inbox' \in [Rooms -> Seq(Req)] BY <1>2 DEF Shapes
<1>5. \A i \in 1..Len(inbox'[r]) :
         \/ i \in 1..Len(inbox[r]) /\ inbox'[r][i] = inbox[r][i]
         \/ i = Len(inbox'[r]) /\ inbox'[r][i] = q
  BY <1>2, <1>3
<1> QED BY <1>2, <1>3, <1>4, <1>5

LEMMA StartSteps ==
    ASSUME CacheInv, NEW op \in RoomOps, StartCall(op), joined' = joined
    PROVE  CacheInv'
<1> DEFINE m == mailbox[1]
           q == [id |-> m.id, try |-> 0, op |-> op, coded |-> coded]
<1>0. /\ Shapes /\ Mailed /\ Sent /\ Calling /\ LastAttempt /\ Heard /\ Accounted /\ Agreed /\ Waiting /\ Kept
      /\ rooms' = rooms /\ row' = row
      /\ pending' = pending /\ roster' = roster /\ unsettled' = unsettled
      /\ reply' = reply /\ up' = up /\ coded' = coded
      /\ http' = http /\ requests' = requests /\ doubt' = doubt
      /\ mailbox' = Tail(mailbox) /\ mailbox # <<>> /\ up /\ call = NoCall /\ Head(mailbox).op = op
  BY DEF CacheInv, StartCall, Turn, rosterVars
<1>1. /\ mailbox' \in Seq(Mail) /\ Len(mailbox) \in Nat /\ Len(mailbox') = Len(mailbox) - 1
      /\ \A k \in 1..Len(mailbox') : mailbox'[k] = mailbox[k + 1] /\ k + 1 \in 1..Len(mailbox)
      /\ Head(mailbox) = m /\ m \in Mail /\ 1 \in 1..Len(mailbox)
  <2>1. mailbox \in Seq(Mail) BY <1>0 DEF Shapes
  <2> QED BY <1>0, <2>1, TailFacts
<1>2. /\ m.op = op /\ m.id \in Nat /\ m.id # 0 /\ m.id <= requests /\ m.room \in rooms
      /\ \A k \in 1..Len(mailbox) : mailbox[k].id = m.id => k = 1
      /\ \A r \in Rooms : /\ reply[r].id # m.id
                          /\ \A i \in 1..Len(inbox[r]) : inbox[r][i].id # m.id
  <2>1. op # "notify" /\ m.op = op BY <1>0, <1>1 DEF RoomOps, MembershipOps
  <2>2. m.id # 0 /\ m.id \in Nat BY <1>0, <1>1, <2>1 DEF Mailed, Mail
  <2> QED BY <1>0, <1>1, <2>1, <2>2 DEF Mailed
<1>3. PICK c : c = [NoCall EXCEPT !.id = Head(mailbox).id, !.op = op, !.room = Head(mailbox).room]
  OBVIOUS
<1>4. call' = c /\ inbox' = [inbox EXCEPT ![c.room] =
                               Append(@, [id |-> c.id, try |-> c.try, op |-> c.op, coded |-> coded])]
  BY <1>3 DEF StartCall, SendRequest
<1>5. c.id = m.id /\ c.try = 0 /\ c.op = op /\ c.room = m.room /\ c.answer = "none" /\ c \in Call
  <2>1. m.id \in Nat /\ m.room \in Rooms BY <1>0, <1>2 DEF Shapes
  <2> QED BY <1>1, <1>3, <2>1 DEF NoCall, Call
<1>6. c # NoCall BY <1>2, <1>5, Nothing
<1>7. q \in Req /\ q.id = m.id /\ q.try = 0 /\ q.op = op /\ q.coded = coded
  BY <1>0, <1>2 DEF Req, Shapes
<1>8. inbox' = [inbox EXCEPT ![m.room] = Append(@, q)] BY <1>4, <1>5
<1> HIDE DEF q, m
<1>9. m.room \in Rooms BY <1>0, <1>2 DEF Shapes
<1>10. /\ inbox' \in [Rooms -> Seq(Req)]
       /\ Len(inbox'[m.room]) = Len(inbox[m.room]) + 1 /\ inbox'[m.room][Len(inbox'[m.room])] = q
       /\ \A x \in Rooms : \A i \in 1..Len(inbox'[x]) :
             \/ i \in 1..Len(inbox[x]) /\ inbox'[x][i] = inbox[x][i]
             \/ x = m.room /\ i = Len(inbox'[m.room]) /\ inbox'[x][i] = q
       /\ \A x \in Rooms : x # m.room => inbox'[x] = inbox[x]
  BY <1>0, <1>7, <1>8, <1>9, SendFacts
<1>11. Busy' /\ ~Busy BY <1>0, <1>4, <1>6 DEF Busy
<1>12. \A x \in Rooms : \A i \in 1..Len(inbox'[x]) :
          inbox'[x][i].id = m.id => x = m.room /\ i = Len(inbox'[m.room]) /\ inbox'[x][i] = q
  BY <1>2, <1>10
<1>13. Shapes' BY <1>0, <1>1, <1>4, <1>5, <1>10 DEF Shapes
<1>14. Mailed'
  <2> SUFFICES ASSUME NEW k \in 1..Len(mailbox')
               PROVE  /\ mailbox'[k].id <= requests
                      /\ mailbox'[k].op \in RoomOps => mailbox'[k].room \in rooms
                      /\ mailbox'[k].op # "notify" <=> mailbox'[k].id # 0
                      /\ mailbox'[k].id # 0 =>
                           /\ \A j \in 1..Len(mailbox') : mailbox'[j].id = mailbox'[k].id => j = k
                           /\ mailbox'[k].id # call'.id
                           /\ \A x \in Rooms : /\ reply[x].id # mailbox'[k].id
                              /\ \A i \in 1..Len(inbox'[x]) : inbox'[x][i].id # mailbox'[k].id
    BY <1>0 DEF Mailed
  <2>1. ASSUME mailbox'[k].id # 0, NEW j \in 1..Len(mailbox'), mailbox'[j].id = mailbox'[k].id
        PROVE  j = k
    <3>1. j + 1 = k + 1 BY <1>0, <1>1, <2>1 DEF Mailed
    <3> QED BY <1>1, <3>1
  <2>2. mailbox'[k].id # m.id
    <3>1. mailbox'[k] = mailbox[k + 1] /\ k + 1 \in 1..Len(mailbox) /\ k + 1 # 1 BY <1>1
    <3> QED BY <1>2, <3>1
  <2>3. mailbox'[k].id # 0 => \A x \in Rooms : \A i \in 1..Len(inbox'[x]) : inbox'[x][i].id # mailbox'[k].id
    BY <1>0, <1>1, <1>7, <1>10, <2>2 DEF Mailed
  <2>4. /\ mailbox'[k].id <= requests
        /\ mailbox'[k].op \in RoomOps => mailbox'[k].room \in rooms
        /\ mailbox'[k].op # "notify" <=> mailbox'[k].id # 0
        /\ mailbox'[k].id # 0 => \A x \in Rooms : reply[x].id # mailbox'[k].id
    BY <1>0, <1>1 DEF Mailed
  <2> QED BY <1>4, <1>5, <2>1, <2>2, <2>3, <2>4
<1>15. Sent'
  <2>1. \A x \in Rooms : \A i \in 1..Len(inbox'[x]) : inbox'[x][i].id <= requests /\ x \in rooms
    BY <1>0, <1>2, <1>7, <1>10 DEF Sent
  <2> QED BY <1>0, <2>1 DEF Sent
<1>16. Calling'
  <2>1. \A x \in Rooms : \A i \in 1..Len(inbox'[x]) : inbox'[x][i].id = m.id =>
           /\ x = m.room /\ inbox'[x][i].op = op /\ inbox'[x][i].coded = coded
           /\ inbox'[x][i].try <= 0
    BY <1>7, <1>12
  <2> QED BY <1>0, <1>2, <1>4, <1>5, <2>1 DEF Calling
<1>17. LastAttempt' BY <1>4, <1>5, <1>9, <1>12 DEF LastAttempt, Mine
<1>18. Heard' BY <1>0, <1>2, <1>4, <1>5, <1>9 DEF Heard, Mine
<1>19. Accounted' BY <1>0, <1>4, <1>5, <1>7, <1>10, <1>11 DEF Accounted
<1>20. Agreed' BY <1>0, <1>11 DEF Agreed, Underway
<1>21. Waiting'
  <2>1. \A d \in Devices : http[d].id = m.id => SameCommand(http[d], op, m.room)
    BY <1>0, <1>1, <1>2 DEF Waiting, m
  <2> QED BY <1>0, <1>1, <1>4, <1>5, <2>1 DEF Waiting
<1>k. Kept' BY <1>0 DEF Kept
<1> QED BY <1>13, <1>14, <1>15, <1>16, <1>17, <1>18, <1>19, <1>20, <1>21, <1>k DEF CacheInv

LEMMA ResendSteps ==
    ASSUME CacheInv, Resend
    PROVE  CacheInv'
<1> DEFINE r == call.room
           q == [id |-> call.id, try |-> call.try + 1, op |-> call.op, coded |-> coded]
<1>0. /\ Shapes /\ Mailed /\ Sent /\ Calling /\ LastAttempt /\ Heard /\ Accounted /\ Agreed /\ Waiting /\ Kept
      /\ rooms' = rooms /\ row' = row
      /\ pending' = pending /\ roster' = roster /\ unsettled' = unsettled
      /\ reply' = reply /\ up' = up /\ coded' = coded /\ joined' = joined
      /\ http' = http /\ requests' = requests /\ doubt' = doubt /\ mailbox' = mailbox
      /\ Busy /\ call.answer = "none" /\ call \in Call
  BY DEF CacheInv, Resend, Busy, Shapes, rosterVars
<1>1. /\ up /\ call.id \in Nat /\ call.id # 0 /\ call.id <= requests /\ r \in rooms /\ r \in Rooms
      /\ call.op \in RoomOps /\ call.try \in Nat
  BY <1>0 DEF Calling, Shapes, Call
<1>2. PICK c : c = [call EXCEPT !.try = @ + 1] OBVIOUS
<1>3. call' = c /\ inbox' = [inbox EXCEPT ![c.room] =
                               Append(@, [id |-> c.id, try |-> c.try, op |-> c.op, coded |-> coded])]
  BY <1>2 DEF Resend, SendRequest
<1>4. /\ c.id = call.id /\ c.try = call.try + 1 /\ c.op = call.op /\ c.room = r /\ c.answer = "none"
      /\ c \in Call
  BY <1>0, <1>1, <1>2 DEF Call
<1>5. c # NoCall BY <1>1, <1>4, Nothing
<1>6. q \in Req /\ q.id = call.id /\ q.try = call.try + 1 /\ q.op = call.op /\ q.coded = coded
  BY <1>0, <1>1 DEF Req, Shapes
<1>7. inbox' = [inbox EXCEPT ![r] = Append(@, q)] BY <1>3, <1>4
<1> HIDE DEF q
<1>8. /\ inbox' \in [Rooms -> Seq(Req)]
      /\ Len(inbox'[r]) = Len(inbox[r]) + 1 /\ inbox'[r][Len(inbox'[r])] = q
      /\ \A x \in Rooms : \A i \in 1..Len(inbox'[x]) :
            \/ i \in 1..Len(inbox[x]) /\ inbox'[x][i] = inbox[x][i]
            \/ x = r /\ i = Len(inbox'[r]) /\ inbox'[x][i] = q
      /\ \A x \in Rooms : x # r => inbox'[x] = inbox[x]
  BY <1>0, <1>1, <1>6, <1>7, SendFacts
<1>9. Busy' BY <1>3, <1>5 DEF Busy
<1>10. Shapes' BY <1>0, <1>3, <1>4, <1>8 DEF Shapes
<1>11. Mailed'
  <2>1. ASSUME NEW k \in 1..Len(mailbox), mailbox[k].id # 0, NEW x \in Rooms, NEW i \in 1..Len(inbox'[x])
        PROVE  inbox'[x][i].id # mailbox[k].id
    <3>1. CASE i \in 1..Len(inbox[x]) /\ inbox'[x][i] = inbox[x][i] BY <1>0, <2>1, <3>1 DEF Mailed
    <3>2. CASE inbox'[x][i] = q BY <1>0, <1>6, <2>1, <3>2 DEF Mailed
    <3> QED BY <1>8, <3>1, <3>2
  <2> QED BY <1>0, <1>3, <1>4, <2>1 DEF Mailed
<1>12. Sent'
  <2>1. \A x \in Rooms : \A i \in 1..Len(inbox'[x]) : inbox'[x][i].id <= requests /\ x \in rooms
    BY <1>0, <1>1, <1>6, <1>8 DEF Sent
  <2> QED BY <1>0, <2>1 DEF Sent
<1>13. Calling'
  <2>1. ASSUME NEW x \in Rooms, reply[x].id = call.id
        PROVE  x = r /\ reply[x].try <= call.try + 1
    <3>1. x = r /\ reply[x].try <= call.try BY <1>0, <2>1 DEF Calling
    <3>2. reply[x].try \in Nat BY <1>0, Typed
    <3> QED BY <1>1, <3>1, <3>2
  <2>2. ASSUME NEW x \in Rooms, NEW i \in 1..Len(inbox'[x]), inbox'[x][i].id = call.id
        PROVE  /\ x = r /\ inbox'[x][i].op = call.op /\ inbox'[x][i].coded = coded
               /\ inbox'[x][i].try <= call.try + 1
    <3>1. CASE inbox'[x][i] = q /\ x = r BY <1>1, <1>6, <3>1
    <3>2. CASE i \in 1..Len(inbox[x]) /\ inbox'[x][i] = inbox[x][i]
      <4>1. /\ x = r /\ inbox'[x][i].op = call.op /\ inbox'[x][i].coded = coded
            /\ inbox'[x][i].try <= call.try
        BY <1>0, <2>2, <3>2 DEF Calling
      <4>2. inbox'[x][i].try \in Nat BY <1>0, <3>2, Typed
      <4> QED BY <1>1, <4>1, <4>2
    <3> QED BY <1>8, <3>1, <3>2
  <2>3. \A x \in Rooms :
           /\ reply[x].id = call.id => x = r /\ reply[x].try <= call.try + 1
           /\ \A i \in 1..Len(inbox'[x]) : inbox'[x][i].id = call.id =>
                 /\ x = r /\ inbox'[x][i].op = call.op /\ inbox'[x][i].coded = coded
                 /\ inbox'[x][i].try <= call.try + 1
    BY <2>1, <2>2
  <2> QED BY <1>0, <1>1, <1>3, <1>4, <2>3 DEF Calling
<1>14. LastAttempt'
  <2>1. ASSUME NEW i \in 1..Len(inbox'[r]), inbox'[r][i].id = call.id, inbox'[r][i].try = call.try + 1
        PROVE  i = Len(inbox'[r])
    <3>1. CASE i \in 1..Len(inbox[r]) /\ inbox'[r][i] = inbox[r][i]
      <4>1. inbox[r][i].try <= call.try BY <1>0, <1>1, <2>1, <3>1 DEF Calling
      <4> QED BY <1>1, <2>1, <3>1, <4>1
    <3> QED BY <1>1, <1>8, <3>1
  <2> QED BY <1>3, <1>4, <2>1 DEF LastAttempt, Mine
<1>15. Heard'
  <2>1. ~(reply[r].id = call.id /\ reply[r].try = call.try + 1)
    BY <1>0, <1>1 DEF Calling
  <2> QED BY <1>0, <1>3, <1>4, <2>1 DEF Heard, Mine
<1>16. Accounted' BY <1>0, <1>3, <1>4, <1>6, <1>8, <1>9 DEF Accounted
<1>17. Agreed' BY <1>0, <1>3, <1>4, <1>9 DEF Agreed, Underway
<1>18. Waiting' BY <1>0, <1>3, <1>4 DEF Waiting
<1>k. Kept' BY <1>0 DEF Kept
<1> QED BY <1>10, <1>11, <1>12, <1>13, <1>14, <1>15, <1>16, <1>17, <1>18, <1>k DEF CacheInv

\* The grain returns to the gateway: nothing of its call may be left in the
\* mailbox of a room it does not doubt, and the cache must have the outcome.
LEMMA ReturnSteps ==
    ASSUME CacheInv, NEW ok \in BOOLEAN, Return(ok), Busy,
           doubt \ {call.room} \subseteq doubt', call.room \in unsettled => call.room \in doubt',
           \/ call.room \in doubt'
           \/ inbox[call.room] = <<>>
           \/ call.op \notin MembershipOps /\ call.room \notin doubt,
           \A r \in Rooms \ {call.room} : r \in joined' <=> r \in joined,
           call.room \notin doubt' => (call.room \in joined' <=> call.room \in row)
    PROVE  CacheInv'
<1>0. /\ Shapes /\ Mailed /\ Sent /\ Calling /\ Accounted /\ Agreed /\ Waiting /\ Kept
      /\ rooms' = rooms /\ row' = row
      /\ pending' = pending /\ roster' = roster /\ unsettled' = unsettled
      /\ reply' = reply /\ up' = up /\ coded' = coded /\ inbox' = inbox
      /\ requests' = requests /\ mailbox' = mailbox /\ call' = NoCall /\ http' = Answered(call.id, ok)
  BY DEF CacheInv, Return, roomVars, rosterVars
<1>1. ~Busy' /\ call'.id = 0 BY <1>0, Nothing DEF Busy
<1>2. /\ http' \in [Devices -> Web]
      /\ \A d \in Devices : http'[d] = http[d] \/ http'[d].id = 0
  BY <1>0, AnsweredFacts, Typed DEF Shapes
<1>3. Shapes' BY <1>0, <1>2, Nothing DEF Shapes
<1>4. Mailed' BY <1>0, <1>1 DEF Mailed
<1>5. Sent' BY <1>0 DEF Sent
<1>6. Calling' /\ LastAttempt' /\ Heard' BY <1>1 DEF Calling, LastAttempt, Heard
<1>7. Accounted'
  <2> SUFFICES ASSUME up, NEW r \in Rooms \ doubt', NEW i \in 1..Len(inbox[r]), inbox[r][i].op \in MembershipOps
               PROVE  FALSE
    BY <1>0 DEF Accounted
  <2>1. r # call.room
    <3>1. CASE inbox[call.room] = <<>> BY <3>1
    <3>2. CASE call.op \notin MembershipOps /\ call.room \notin doubt
      BY <1>0, <3>2 DEF Accounted, Calling
    <3> QED BY <3>1, <3>2
  <2> QED BY <1>0, <2>1 DEF Accounted, Calling
<1>8. Agreed'
  <2> SUFFICES ASSUME up, NEW r \in Rooms \ doubt'
               PROVE  r \in joined' <=> r \in row
    BY <1>0 DEF Agreed
  <2>1. CASE r = call.room BY <2>1
  <2>2. CASE r # call.room
    <3>1. r \in Rooms \ doubt BY <2>2
    <3>2. r \in joined' <=> r \in joined BY <2>2
    <3>3. r \in joined <=> r \in row BY <1>0, <2>2, <3>1 DEF Agreed, Underway
    <3> QED BY <3>2, <3>3
  <2> QED BY <2>1, <2>2
<1>9. Waiting'
  <2> SUFFICES ASSUME NEW e \in Devices
               PROVE  /\ http'[e].id <= requests
                      /\ \A k \in 1..Len(mailbox) : mailbox[k].id # 0 /\ http'[e].id = mailbox[k].id =>
                            SameCommand(http'[e], mailbox[k].op, mailbox[k].room)
    BY <1>0, <1>1 DEF Waiting
  <2>1. CASE http'[e] = http[e] BY <1>0, <2>1 DEF Waiting
  <2>2. CASE http'[e].id = 0 BY <1>0, <2>2 DEF Shapes
  <2> QED BY <1>2, <2>1, <2>2
<1>k. Kept' BY <1>0 DEF Kept
<1> QED BY <1>3, <1>4, <1>5, <1>6, <1>7, <1>8, <1>9, <1>k DEF CacheInv

\* Where the outcome was learnt: the answer is still true of the row.
LEMMA TailSteps ==
    ASSUME CacheInv, JoinRoomTail \/ LeaveRoomTail \/ RelayVerdict
    PROVE  CacheInv'
<1>0. /\ Shapes /\ Calling /\ Heard /\ Agreed /\ Kept /\ call.op \in RoomOps
  BY DEF CacheInv, JoinRoomTail, LeaveRoomTail, RelayVerdict, RoomOps, MembershipOps
<1>1. Busy BY <1>0, Nothing DEF Busy, RoomOps, MembershipOps
<1>2. up /\ call.room \in Rooms BY <1>0, <1>1 DEF Calling, Shapes
<1>3. call.answer # "none" => inbox[call.room] = <<>> /\ Believed(call.answer, call.settled)
  BY <1>0, <1>1 DEF Heard
<1>4. call.room \notin doubt /\ ~Underway(call.room) => (call.room \in joined <=> call.room \in row)
  BY <1>0, <1>2 DEF Agreed
<1>5. call.room \in unsettled => call.room \in doubt BY <1>0, <1>2 DEF Kept
<1>6. call.answer # "none" /\ call.room \notin Learnt => call.settled \/ call.room \notin doubt
  BY DEF Learnt
<1>7. call.answer # "none" /\ call.room \notin Learnt => Truthful(call.answer)
  BY <1>3, <1>6 DEF Believed
<1>8. call.answer # "none" /\ call.room \in unsettled => call.room \in Learnt
  BY <1>3, <1>5 DEF Believed, Learnt
<1>9. doubt \ {call.room} \subseteq Learnt BY DEF Learnt
\* A room without doubt has answered INTERNAL truthfully.
<1>10. ASSUME call.answer = "error", call.room \notin doubt, call.op \in MembershipOps
       PROVE  ~Underway(call.room)
  BY <1>3, <1>10 DEF Believed, Truthful, Underway, MembershipOps
<1>11. CASE JoinRoomTail
  <2>1. CASE /\ call.answer \in {"ok", "already"}
             /\ joined' = joined \cup {call.room} /\ doubt' = Learnt /\ Return(TRUE)
    <3>1. inbox[call.room] = <<>> /\ call.answer # "none" BY <1>3, <2>1
    <3>2. call.room \notin Learnt => call.room \in row
      BY <1>7, <1>11, <2>1 DEF JoinRoomTail, Truthful
    <3> QED BY <1>1, <1>8, <1>9, <2>1, <3>1, <3>2, ReturnSteps
  <2>2. CASE /\ call.answer = "badRef" /\ doubt' = doubt \cup {call.room} /\ joined' = joined /\ Return(FALSE)
    BY <1>1, <2>2, ReturnSteps
  <2>3. CASE call.answer = "error" /\ joined' = joined /\ doubt' = doubt /\ Return(FALSE)
    <3>1. inbox[call.room] = <<>> BY <1>3, <2>3
    <3>2. call.room \notin doubt => ~Underway(call.room)
      BY <1>10, <1>11, <2>3 DEF JoinRoomTail, MembershipOps
    <3> QED BY <1>1, <1>4, <1>5, <2>3, <3>1, <3>2, ReturnSteps
  <2> QED BY <1>11, <2>1, <2>2, <2>3 DEF JoinRoomTail
<1>12. CASE LeaveRoomTail
  <2>1. CASE /\ call.answer \in {"ok", "notMember"}
             /\ joined' = joined \ {call.room} /\ doubt' = Learnt /\ Return(TRUE)
    <3>1. inbox[call.room] = <<>> /\ call.answer # "none" BY <1>3, <2>1
    <3>2. call.room \notin Learnt => call.room \notin row
      BY <1>7, <1>12, <2>1 DEF LeaveRoomTail, Truthful
    <3> QED BY <1>1, <1>8, <1>9, <2>1, <3>1, <3>2, ReturnSteps
  <2>2. CASE call.answer = "error" /\ joined' = joined /\ doubt' = doubt /\ Return(FALSE)
    <3>1. inbox[call.room] = <<>> BY <1>3, <2>2
    <3>2. call.room \notin doubt => ~Underway(call.room)
      BY <1>10, <1>12, <2>2 DEF LeaveRoomTail, MembershipOps
    <3> QED BY <1>1, <1>4, <1>5, <2>2, <3>1, <3>2, ReturnSteps
  <2> QED BY <1>12, <2>1, <2>2 DEF LeaveRoomTail
<1>13. CASE RelayVerdict
  <2>1. ~Underway(call.room) /\ inbox[call.room] = <<>> BY <1>3, <1>13 DEF RelayVerdict, Underway
  <2>2. PICK ok \in BOOLEAN : Return(ok) BY <1>13 DEF RelayVerdict
  <2> QED BY <1>1, <1>4, <1>5, <1>13, <2>1, <2>2, ReturnSteps DEF RelayVerdict
<1> QED BY <1>11, <1>12, <1>13

\* Where it was not: the room of a membership command is in doubt.
LEMMA LostSteps ==
    ASSUME CacheInv, RoomTimeout \/ RoomUnreachable
    PROVE  CacheInv'
<1>0. Shapes /\ Calling /\ Agreed /\ Kept /\ Busy /\ TransportError
  BY DEF CacheInv, RoomTimeout, RoomUnreachable, Unanswerable, Busy
<1>1. up /\ call.room \in Rooms BY <1>0 DEF Calling, Shapes
<1>2. joined' = joined /\ Return(FALSE) BY <1>0 DEF TransportError
<1>3. CASE call.op \in MembershipOps
  <2>1. doubt' = doubt \cup {call.room} BY <1>0, <1>3 DEF TransportError
  <2> QED BY <1>0, <1>2, <2>1, ReturnSteps
<1>4. CASE call.op \notin MembershipOps
  <2>1. doubt' = doubt BY <1>0, <1>4 DEF TransportError
  <2>2. call.room \notin doubt => (call.room \in joined <=> call.room \in row)
    BY <1>0, <1>1, <1>4 DEF Agreed, Underway, MembershipOps
  <2>3. call.room \in unsettled => call.room \in doubt BY <1>0, <1>1 DEF Kept
  <2> QED BY <1>0, <1>2, <1>4, <2>1, <2>2, <2>3, ReturnSteps
<1> QED BY <1>3, <1>4

-----------------------------------------------------------------------------
(* The rooms.                                                              *)

LEMMA DeliverSteps ==
    ASSUME CacheInv, NEW r \in Rooms, reply[r] # NoReply, Deliver(r)
    PROVE  CacheInv'
<1>0. /\ Shapes /\ Mailed /\ Sent /\ Calling /\ LastAttempt /\ Heard /\ Accounted /\ Agreed /\ Waiting /\ Kept
      /\ rooms' = rooms /\ row' = row
      /\ pending' = pending /\ roster' = roster /\ unsettled' = unsettled
      /\ inbox' = inbox /\ up' = up /\ coded' = coded /\ joined' = joined
      /\ http' = http /\ requests' = requests /\ doubt' = doubt /\ mailbox' = mailbox
      /\ reply' = [reply EXCEPT ![r] = NoReply]
      /\ call' = IF Mine(reply[r])
                 THEN [call EXCEPT !.answer = reply[r].answer, !.settled = reply[r].settled] ELSE call
  BY DEF CacheInv, Deliver, Mine, rosterVars
<1>1. reply[r].id # 0 /\ reply[r] \in Reply /\ call \in Call BY <1>0 DEF Sent, Shapes
<1>2. /\ call' \in Call /\ call'.id = call.id /\ call'.try = call.try /\ call'.op = call.op
      /\ call'.room = call.room
      /\ call'.answer = IF Mine(reply[r]) THEN reply[r].answer ELSE call.answer
      /\ call'.settled = IF Mine(reply[r]) THEN reply[r].settled ELSE call.settled
  BY <1>0, <1>1 DEF Call, Reply
<1>3. Busy' <=> Busy
  <2>1. CASE Mine(reply[r])
    <3>1. call.id # 0 BY <1>1, <2>1 DEF Mine
    <3> QED BY <1>2, <3>1, Nothing DEF Busy
  <2>2. CASE ~Mine(reply[r]) BY <1>0, <2>2 DEF Busy
  <2> QED BY <2>1, <2>2
<1>4. /\ reply' \in [Rooms -> Reply]
      /\ \A x \in Rooms : reply'[x] = IF x = r THEN NoReply ELSE reply[x]
  BY <1>0, Nothing DEF Shapes
<1>5. Shapes' BY <1>0, <1>2, <1>4 DEF Shapes
<1>6. Mailed'
  <2>1. ASSUME NEW k \in 1..Len(mailbox), mailbox[k].id # 0, NEW x \in Rooms
        PROVE  reply'[x].id # mailbox[k].id
    BY <1>0, <1>4, <2>1, Nothing DEF Mailed
  <2> QED BY <1>0, <1>2, <2>1 DEF Mailed
<1>7. Sent' BY <1>0, <1>4, Nothing DEF Sent, Shapes
<1>8. Calling'
  <2>1. ASSUME Busy, NEW x \in Rooms, reply'[x].id = call.id
        PROVE  x = call.room /\ reply'[x].try <= call.try
    BY <1>0, <1>4, <2>1, Nothing DEF Calling
  <2> QED BY <1>0, <1>2, <1>3, <2>1 DEF Calling
<1>9. LastAttempt' BY <1>0, <1>2, <1>3 DEF LastAttempt, Mine
<1>10. Heard'
  <2> SUFFICES ASSUME Busy
               PROVE  /\ Mine(reply'[call.room]) =>
                            /\ inbox[call.room] = <<>>
                            /\ Believed(reply'[call.room].answer, reply'[call.room].settled)
                      /\ call'.answer # "none" =>
                            inbox[call.room] = <<>> /\ Believed(call'.answer, call'.settled)
    BY <1>0, <1>2, <1>3 DEF Heard, Mine, Truthful, Believed
  <2>1. call.room \in Rooms /\ call.id # 0 BY <1>0 DEF Calling, Shapes
  <2>2. Mine(reply'[call.room]) => reply'[call.room] = reply[call.room]
    BY <1>4, <2>1, Nothing DEF Mine
  <2>3. Mine(reply[r]) => r = call.room BY <1>0 DEF Calling, Mine
  <2> QED BY <1>0, <1>2, <2>2, <2>3 DEF Heard
<1>11. Accounted' BY <1>0, <1>2, <1>3 DEF Accounted
<1>12. Agreed' BY <1>0, <1>2, <1>3 DEF Agreed, Underway
<1>13. Waiting' BY <1>0, <1>2, <1>3 DEF Waiting
<1>k. Kept' BY <1>0 DEF Kept
<1> QED BY <1>5, <1>6, <1>7, <1>8, <1>9, <1>10, <1>11, <1>12, <1>13, <1>k DEF CacheInv

\* Steps of a room's life and of the database, which move only the row and
\* the roster of a room: the row of a settled room stays as it is.
LEMMA RosterSteps ==
    ASSUME CacheInv, Kept', row' \subseteq rooms,
           pending' \in [Rooms -> {"none", "join", "leave"}], roster' \in [Rooms -> {"down", "in", "out"}],
           unsettled' \subseteq unsettled,
           \A x \in Rooms : x \in unsettled \/ (x \in row' <=> x \in row),
           UNCHANGED <<rooms, inbox, reply, up, coded, joined, mailbox, call, http, requests, doubt>>
    PROVE  CacheInv'
<1>0. /\ Shapes /\ Mailed /\ Sent /\ Calling /\ LastAttempt /\ Heard /\ Accounted /\ Agreed /\ Waiting /\ Kept
      /\ rooms' = rooms /\ inbox' = inbox /\ reply' = reply /\ up' = up /\ coded' = coded /\ joined' = joined
      /\ mailbox' = mailbox /\ call' = call /\ http' = http /\ requests' = requests /\ doubt' = doubt
      /\ (Busy' <=> Busy)
  BY DEF CacheInv, Busy
<1>1. Shapes' BY <1>0 DEF Shapes
<1>2. Mailed' /\ Sent' BY <1>0 DEF Mailed, Sent
<1>3. Calling' /\ LastAttempt' BY <1>0 DEF Calling, LastAttempt, Mine
<1>4. Heard'
  <2>1. ASSUME NEW a, NEW b, call.room \in Rooms, Believed(a, b)
        PROVE  IF b THEN /\ call.room \notin unsettled'
                         /\ call.op = "join" /\ a \in {"ok", "already"} => call.room \in row'
                         /\ call.op = "join" /\ a = "error" => ~(coded /\ call.room \in row')
                         /\ call.op = "leave" /\ a \in {"ok", "notMember"} => call.room \notin row'
                         /\ call.op = "leave" /\ a = "error" => call.room \in row'
                    ELSE call.room \in doubt
    BY <2>1 DEF Believed, Truthful
  <2>2. Busy => call.room \in Rooms BY <1>0 DEF Calling, Shapes
  <2> QED BY <1>0, <2>1, <2>2 DEF Heard, Mine, Truthful, Believed
<1>5. Accounted' BY <1>0 DEF Accounted
<1>6. Agreed' BY <1>0 DEF Agreed, Underway, Kept
<1>7. Waiting' BY <1>0 DEF Waiting
<1> QED BY <1>1, <1>2, <1>3, <1>4, <1>5, <1>6, <1>7 DEF CacheInv

LEMMA RoomLifeSteps ==
    ASSUME CacheInv, NEW r \in Rooms, RoomActivates(r) \/ RoomPassivates(r) \/ LateCommit(r) \/ LateAbort(r)
    PROVE  CacheInv'
<1>0. Shapes /\ Sent /\ Kept BY DEF CacheInv
<1>1. UNCHANGED <<rooms, inbox, reply, up, coded, joined, mailbox, call, http, requests, doubt>>
  BY DEF RoomActivates, RoomPassivates, RoomDown, LateCommit, LateAbort, roomVars, grainVars
<1>2. CASE RoomActivates(r)
  <2>1. /\ row' = row /\ pending' = pending
        /\ roster' = [roster EXCEPT ![r] = IF r \in row THEN "in" ELSE "out"]
        /\ unsettled' = IF pending[r] = "none" THEN unsettled \ {r} ELSE unsettled
        /\ inbox[r] # <<>>
    BY <1>2 DEF RoomActivates
  <2>2. r \in rooms
    <3>1. inbox[r] \in Seq(Req) BY <1>0, Typed
    <3>2. 1 \in 1..Len(inbox[r]) BY <2>1, <3>1, TailFacts
    <3> QED BY <1>0, <3>2 DEF Sent
  <2>3. Kept' BY <1>0, <1>1, <2>1, <2>2 DEF Kept, Shapes
  <2> QED BY <1>0, <1>1, <2>1, <2>3, RosterSteps DEF Shapes
<1>3. CASE RoomPassivates(r)
  <2>1. /\ row' = row /\ pending' = pending /\ unsettled' = unsettled
        /\ roster' = [roster EXCEPT ![r] = "down"]
    BY <1>3 DEF RoomPassivates, RoomDown
  <2>2. Kept' BY <1>0, <1>1, <2>1 DEF Kept, Shapes
  <2> QED BY <1>0, <1>1, <2>1, <2>2, RosterSteps DEF Shapes
<1>4. CASE LateCommit(r) \/ LateAbort(r)
  <2>1. /\ row' \in {row, row \cup {r}, row \ {r}} /\ roster' = roster /\ unsettled' = unsettled
        /\ pending' = [pending EXCEPT ![r] = "none"] /\ pending[r] # "none"
    BY <1>4 DEF LateCommit, LateAbort
  <2>2. r \in unsettled /\ r \in rooms BY <1>0, <2>1 DEF Kept
  <2>3. Kept' BY <1>0, <1>1, <2>1, <2>2 DEF Kept, Shapes
  <2> QED BY <1>0, <1>1, <2>1, <2>2, <2>3, RosterSteps DEF Shapes
<1> QED BY <1>2, <1>3, <1>4

LEMMA CrashRoomSteps ==
    ASSUME CacheInv, NEW r \in Rooms, CrashRoom(r)
    PROVE  CacheInv'
<1>0. /\ Shapes /\ Mailed /\ Sent /\ Calling /\ LastAttempt /\ Heard /\ Accounted /\ Agreed /\ Waiting /\ Kept
      /\ rooms' = rooms /\ row' = row
      /\ pending' = pending /\ roster' = [roster EXCEPT ![r] = "down"] /\ unsettled' = unsettled
      /\ up' = up /\ coded' = coded /\ joined' = joined /\ call' = call
      /\ http' = http /\ requests' = requests /\ doubt' = doubt /\ mailbox' = mailbox
      /\ inbox' = [inbox EXCEPT ![r] = <<>>] /\ reply' = [reply EXCEPT ![r] = NoReply]
      /\ (Busy' <=> Busy)
  BY DEF CacheInv, CrashRoom, RoomDown, grainVars, Busy
<1>1. /\ reply' \in [Rooms -> Reply]
      /\ \A x \in Rooms : reply'[x] = IF x = r THEN NoReply ELSE reply[x]
  BY <1>0, Nothing DEF Shapes
<1>2. /\ inbox' \in [Rooms -> Seq(Req)]
      /\ \A x \in Rooms : inbox'[x] = IF x = r THEN <<>> ELSE inbox[x]
  BY <1>0 DEF Shapes
<1>3. \A x \in Rooms : \A i \in 1..Len(inbox'[x]) :
         i \in 1..Len(inbox[x]) /\ inbox'[x] = inbox[x] /\ x # r
  BY <1>2
<1>4. Shapes' BY <1>0, <1>1, <1>2 DEF Shapes
<1>5. Mailed'
  <2>1. ASSUME NEW k \in 1..Len(mailbox), mailbox[k].id # 0, NEW x \in Rooms
        PROVE  /\ reply'[x].id # mailbox[k].id
               /\ \A i \in 1..Len(inbox'[x]) : inbox'[x][i].id # mailbox[k].id
    BY <1>0, <1>1, <1>3, <2>1, Nothing DEF Mailed
  <2> QED BY <1>0, <2>1 DEF Mailed
<1>6. Sent' BY <1>0, <1>1, <1>3, Nothing DEF Sent, Shapes
<1>7. Calling'
  <2>1. ASSUME Busy, NEW x \in Rooms, reply'[x].id = call.id
        PROVE  x = call.room /\ reply'[x].try <= call.try
    BY <1>0, <1>1, <2>1, Nothing DEF Calling
  <2> QED BY <1>0, <1>3, <2>1 DEF Calling
<1>8. LastAttempt'
  <2>1. Busy => call.room \in Rooms BY <1>0 DEF Calling, Shapes
  <2> QED BY <1>0, <1>3, <2>1 DEF LastAttempt, Mine
<1>9. Heard'
  <2> SUFFICES ASSUME Busy
               PROVE  /\ Mine(reply'[call.room]) =>
                            /\ inbox'[call.room] = <<>>
                            /\ Believed(reply'[call.room].answer, reply'[call.room].settled)
                      /\ call.answer # "none" =>
                            inbox'[call.room] = <<>> /\ Believed(call.answer, call.settled)
    BY <1>0 DEF Heard, Mine, Truthful, Believed
  <2>1. call.room \in Rooms /\ call.id # 0 BY <1>0 DEF Calling, Shapes
  <2>2. Mine(reply'[call.room]) => reply'[call.room] = reply[call.room]
    BY <1>1, <2>1, Nothing DEF Mine
  <2> QED BY <1>0, <1>2, <2>1, <2>2 DEF Heard
<1>10. Accounted' BY <1>0, <1>3 DEF Accounted
<1>11. Agreed' BY <1>0 DEF Agreed, Underway
<1>12. Waiting' BY <1>0 DEF Waiting
<1>k. Kept' BY <1>0 DEF Kept, Shapes
<1> QED BY <1>4, <1>5, <1>6, <1>7, <1>8, <1>9, <1>10, <1>11, <1>12, <1>k DEF CacheInv

\* What a room does with request q of the user, in terms of its row.
Handled(r, q, a, known) ==
    /\ reply' = [reply EXCEPT ![r] = [id |-> q.id, try |-> q.try, answer |-> a, settled |-> known]]
    /\ a \in Answers /\ known \in BOOLEAN
    /\ row' \ {r} = row \ {r}
    /\ q.op \notin MembershipOps => row' = row
    /\ IF known THEN r \notin unsettled' /\ doubt' = doubt ELSE r \in doubt'
    /\ known =>
         \/ q.op = "join" /\ q.coded /\ r \in row' /\ a \in {"ok", "already", "badRef"}
         \/ q.op = "join" /\ row' = row /\ ~(q.coded /\ r \in row) /\ a = "error"
         \/ q.op = "leave" /\ r \notin row' /\ a \in {"ok", "notMember"}
         \/ q.op = "leave" /\ row' = row /\ r \in row /\ a = "error"
         \/ q.op \in {"post", "role"}

LEMMA HandleFacts ==
    ASSUME Shapes, Kept, NEW r \in Rooms, RoomHandles(r), r \in rooms, Head(inbox[r]) \in Req
    PROVE  /\ \E a, known : Handled(r, Head(inbox[r]), a, known)
           /\ doubt' \in {doubt, doubt \cup {r}} /\ unsettled' \in {unsettled, unsettled \cup {r}}
           /\ pending' \in [Rooms -> {"none", "join", "leave"}]
           /\ roster' \in [Rooms -> {"down", "in", "out"}]
           /\ Kept'
<1> DEFINE q == Head(inbox[r])
           as(a, known) == reply' = [reply EXCEPT ![r] = [id |-> q.id, try |-> q.try, answer |-> a,
                                                          settled |-> known]]
<1>0. q \in Req OBVIOUS
<1>1. /\ RecordsMembership(r, q) \/ CommitInDoubt(r, q) \/ AnswersOnly(r, q)
      /\ rooms' = rooms /\ roster[r] # "down"
  BY DEF RoomHandles
<1>2. q.coded \in BOOLEAN /\ q.op \in RoomOps BY <1>0 DEF Req
<1>3. r \notin unsettled => (roster[r] = "in" <=> r \in row) BY <1>1 DEF Kept
<1>4. r \in unsettled => r \in doubt BY DEF Kept
<1>5. roster[r] \in {"in", "out"} BY <1>1 DEF Shapes
<1> HIDE DEF q
<1>6. CASE RecordsMembership(r, q)
  <2>1. /\ WriteDue(r, q) /\ Writable(r, q)
        /\ row' = IF q.op = "join" THEN row \cup {r} ELSE row \ {r}
        /\ roster' = [roster EXCEPT ![r] = IF q.op = "join" THEN "in" ELSE "out"]
        /\ pending' = pending /\ unsettled' = unsettled /\ doubt' = doubt
        /\ Answer(r, q, "ok") \/ (q.op = "join" /\ Answer(r, q, "badRef"))
    BY <1>6 DEF RecordsMembership
  <2>2. (q.op = "join" /\ q.coded) \/ q.op = "leave" BY <2>1 DEF WriteDue
  <2>3. as("ok", r \notin unsettled) \/ (q.op = "join" /\ as("badRef", r \notin unsettled))
    BY <2>1 DEF Answer
  <2>4. q.op \in MembershipOps /\ row' \ {r} = row \ {r} BY <2>1, <2>2 DEF MembershipOps
  <2>5. PICK a \in {"ok", "badRef"} : as(a, r \notin unsettled) /\ (a = "badRef" => q.op = "join")
    BY <2>3
  <2>6. Handled(r, q, a, r \notin unsettled)
    BY <1>4, <2>1, <2>2, <2>4, <2>5 DEF Handled, Answers
  <2>7. Kept' BY <1>1, <2>1, <2>2 DEF Kept, Shapes
  <2> QED BY <2>1, <2>6, <2>7 DEF Shapes, q
<1>7. CASE CommitInDoubt(r, q)
  <2>1. /\ WriteDue(r, q) /\ row' = row /\ roster' = roster
        /\ pending' = [pending EXCEPT ![r] = q.op]
        /\ unsettled' = unsettled \cup {r} /\ doubt' = doubt \cup {r}
        /\ Answer(r, q, "error")
    BY <1>7 DEF CommitInDoubt
  <2>2. q.op \in {"join", "leave"} BY <2>1 DEF WriteDue
  <2>3. as("error", FALSE) BY <2>1 DEF Answer
  <2>4. Handled(r, q, "error", FALSE) BY <2>1, <2>3 DEF Handled, Answers
  <2>5. Kept' BY <1>1, <2>1 DEF Kept, Shapes
  <2> QED BY <2>1, <2>2, <2>4, <2>5 DEF Shapes, q
<1>8. CASE AnswersOnly(r, q)
  <2>1. row' = row /\ roster' = roster /\ pending' = pending /\ unsettled' = unsettled /\ doubt' = doubt
    BY <1>8 DEF AnswersOnly, rosterVars
  <2>2. \E a \in Answers :
           /\ Answer(r, q, a)
           /\ \/ q.op = "join" /\ q.coded /\ roster[r] = "in" /\ a \in {"already", "badRef"}
              \/ q.op = "join" /\ ~(q.coded /\ roster[r] = "in") /\ a = "error"
              \/ q.op = "leave" /\ roster[r] = "out" /\ a = "notMember"
              \/ q.op = "leave" /\ roster[r] = "in" /\ a = "error"
              \/ q.op \in {"post", "role"}
    <3>1. {"ok", "already", "notMember", "error", "badRef"} = Answers BY DEF Answers
    <3>2. CASE q.op = "join" /\ q.coded /\ roster[r] = "in" /\ (Answer(r, q, "already") \/ Answer(r, q, "badRef"))
      BY <3>1, <3>2
    <3>3. CASE q.op = "leave" /\ roster[r] = "out" /\ Answer(r, q, "notMember") BY <3>1, <3>3
    <3>4. CASE q.op \in {"post", "role"} /\ (Answer(r, q, "ok") \/ Answer(r, q, "error")) BY <3>1, <3>4
    <3>5. CASE WriteDue(r, q) /\ Answer(r, q, "error")
      <4>1. \/ q.op = "join" /\ q.coded /\ roster[r] = "out"
            \/ q.op = "leave" /\ roster[r] = "in"
        BY <3>5 DEF WriteDue
      <4> QED BY <3>1, <3>5, <4>1
    <3>6. CASE q.op = "join" /\ ~q.coded /\ Answer(r, q, "error") BY <3>1, <3>6
    <3> QED BY <1>8, <3>2, <3>3, <3>4, <3>5, <3>6 DEF AnswersOnly
  <2>3. PICK a \in Answers :
           /\ Answer(r, q, a)
           /\ \/ q.op = "join" /\ q.coded /\ roster[r] = "in" /\ a \in {"already", "badRef"}
              \/ q.op = "join" /\ ~(q.coded /\ roster[r] = "in") /\ a = "error"
              \/ q.op = "leave" /\ roster[r] = "out" /\ a = "notMember"
              \/ q.op = "leave" /\ roster[r] = "in" /\ a = "error"
              \/ q.op \in {"post", "role"}
    BY <2>2
  <2>4. as(a, r \notin unsettled) BY <2>1, <2>3 DEF Answer
  <2>5. Handled(r, q, a, r \notin unsettled) BY <1>2, <1>3, <1>4, <1>5, <2>1, <2>3, <2>4 DEF Handled
  <2>6. Kept' BY <1>1, <2>1 DEF Kept
  <2> QED BY <2>1, <2>5, <2>6 DEF Shapes, q
<1> QED BY <1>1, <1>6, <1>7, <1>8

LEMMA HandleSteps ==
    ASSUME CacheInv, NEW r \in Rooms, RoomHandles(r), r \in rooms
    PROVE  CacheInv'
<1> DEFINE q == Head(inbox[r])
<1>0. /\ Shapes /\ Mailed /\ Sent /\ Calling /\ LastAttempt /\ Heard /\ Accounted /\ Agreed /\ Waiting /\ Kept
      /\ rooms' = rooms /\ up' = up /\ coded' = coded /\ joined' = joined /\ call' = call
      /\ http' = http /\ requests' = requests /\ mailbox' = mailbox
      /\ inbox' = [inbox EXCEPT ![r] = Tail(@)] /\ inbox[r] # <<>> /\ reply[r] = NoReply
      /\ (Busy' <=> Busy)
  BY DEF CacheInv, RoomHandles, grainVars, Busy
<1>2. /\ Tail(inbox[r]) \in Seq(Req) /\ Len(inbox[r]) \in Nat /\ 1 \in 1..Len(inbox[r])
      /\ Len(Tail(inbox[r])) = Len(inbox[r]) - 1
      /\ \A i \in 1..Len(Tail(inbox[r])) : Tail(inbox[r])[i] = inbox[r][i + 1] /\ i + 1 \in 1..Len(inbox[r])
      /\ q = inbox[r][1] /\ q \in Req
  <2>1. inbox[r] \in Seq(Req) BY <1>0, Typed
  <2> QED BY <1>0, <2>1, TailFacts
<1>1. /\ \E a, known : Handled(r, q, a, known)
      /\ doubt' \in {doubt, doubt \cup {r}} /\ unsettled' \in {unsettled, unsettled \cup {r}}
      /\ pending' \in [Rooms -> {"none", "join", "leave"}] /\ roster' \in [Rooms -> {"down", "in", "out"}]
      /\ Kept'
  BY <1>0, <1>2, HandleFacts
<1>a. PICK a, known : Handled(r, q, a, known) BY <1>1
<1> HIDE DEF q
<1>3. /\ inbox' \in [Rooms -> Seq(Req)] /\ inbox'[r] = Tail(inbox[r])
      /\ \A x \in Rooms : x # r => inbox'[x] = inbox[x]
  BY <1>0, <1>2 DEF Shapes
<1>4. \A x \in Rooms : \A i \in 1..Len(inbox'[x]) :
         \/ x # r /\ i \in 1..Len(inbox[x]) /\ inbox'[x][i] = inbox[x][i]
         \/ x = r /\ i + 1 \in 1..Len(inbox[r]) /\ inbox'[x][i] = inbox[r][i + 1]
  BY <1>2, <1>3
<1>5. PICK p : p = [id |-> q.id, try |-> q.try, answer |-> a, settled |-> known] OBVIOUS
<1>6. /\ p \in Reply /\ p.id = q.id /\ p.try = q.try /\ p.answer = a /\ p.settled = known
      /\ q.id # 0 /\ q.id \in Nat
  BY <1>a, <1>2, <1>5 DEF Handled, Reply, Req
<1>7. /\ reply' \in [Rooms -> Reply]
      /\ \A x \in Rooms : reply'[x] = IF x = r THEN p ELSE reply[x]
  BY <1>0, <1>a, <1>5, <1>6 DEF Handled, Shapes
<1>8. row' \subseteq rooms' /\ \A x : x # r => (x \in row' <=> x \in row)
  BY <1>0, <1>a DEF Handled, Shapes
<1>9. Shapes' BY <1>0, <1>1, <1>3, <1>7, <1>8 DEF Shapes
<1>10. Mailed'
  <2>1. ASSUME NEW k \in 1..Len(mailbox), mailbox[k].id # 0, NEW x \in Rooms
        PROVE  /\ reply'[x].id # mailbox[k].id
               /\ \A i \in 1..Len(inbox'[x]) : inbox'[x][i].id # mailbox[k].id
    <3>1. \A y \in Rooms : /\ reply[y].id # mailbox[k].id
                          /\ \A i \in 1..Len(inbox[y]) : inbox[y][i].id # mailbox[k].id
      BY <1>0, <2>1 DEF Mailed
    <3>2. q.id # mailbox[k].id BY <1>2, <3>1
    <3>3. reply'[x].id # mailbox[k].id BY <1>6, <1>7, <3>1, <3>2
    <3> QED BY <1>4, <3>1, <3>3
  <2> QED BY <1>0, <2>1 DEF Mailed
<1>11. Sent'
  <2>1. \A x \in Rooms : \A i \in 1..Len(inbox'[x]) : inbox'[x][i].id <= requests /\ x \in rooms
    BY <1>0, <1>4 DEF Sent
  <2>2. ASSUME NEW x \in Rooms
        PROVE  reply'[x].id <= requests /\ (reply'[x] # NoReply => reply'[x].id # 0)
    BY <1>0, <1>2, <1>6, <1>7 DEF Sent
  <2> QED BY <1>0, <2>1, <2>2 DEF Sent
<1>12. Calling'
  <2> SUFFICES ASSUME Busy
               PROVE  \A x \in Rooms :
                         /\ reply'[x].id = call.id => x = call.room /\ reply'[x].try <= call.try
                         /\ \A i \in 1..Len(inbox'[x]) : inbox'[x][i].id = call.id =>
                               /\ x = call.room /\ inbox'[x][i].op = call.op /\ inbox'[x][i].coded = coded
                               /\ inbox'[x][i].try <= call.try
    BY <1>0 DEF Calling
  <2>1. ASSUME NEW x \in Rooms, reply'[x].id = call.id
        PROVE  x = call.room /\ reply'[x].try <= call.try
    BY <1>0, <1>2, <1>6, <1>7, <2>1 DEF Calling
  <2>2. ASSUME NEW x \in Rooms, NEW i \in 1..Len(inbox'[x]), inbox'[x][i].id = call.id
        PROVE  /\ x = call.room /\ inbox'[x][i].op = call.op /\ inbox'[x][i].coded = coded
               /\ inbox'[x][i].try <= call.try
    BY <1>0, <1>4, <2>2 DEF Calling
  <2> QED BY <2>1, <2>2
<1>13. LastAttempt'
  <2>1. Busy => call.room \in Rooms BY <1>0 DEF Calling, Shapes
  <2>2. ASSUME Busy, call.room # r PROVE \A i \in 1..Len(inbox'[call.room]) :
                  Mine(inbox'[call.room][i]) => i = Len(inbox'[call.room])
    BY <1>0, <1>3, <2>1, <2>2 DEF LastAttempt
  <2>3. ASSUME Busy, call.room = r, NEW i \in 1..Len(inbox'[r]), Mine(inbox'[r][i])
        PROVE  i = Len(inbox'[r])
    <3>1. i + 1 \in 1..Len(inbox[r]) /\ Mine(inbox[r][i + 1]) BY <1>4, <2>3 DEF Mine
    <3>2. i + 1 = Len(inbox[r]) BY <1>0, <2>3, <3>1 DEF LastAttempt
    <3> QED BY <1>2, <1>3, <3>2
  <2> QED BY <1>0, <2>2, <2>3 DEF LastAttempt, Mine
\* The request the grain listens to was the last one; it is of the call's kind.
<1>14. ASSUME Busy, q.id = call.id
       PROVE  r = call.room /\ q.op = call.op /\ q.coded = coded
  BY <1>0, <1>2, <1>14 DEF Calling
<1>15. ASSUME Busy, Mine(q) PROVE inbox'[r] = <<>>
  <2>1. r = call.room BY <1>14, <1>15 DEF Mine
  <2>2. Len(inbox[r]) = 1 BY <1>0, <1>2, <1>15, <2>1 DEF LastAttempt
  <2> QED BY <1>2, <1>3, <2>2
<1>16. Heard'
  <2> DEFINE StillTrue(b) == /\ call.op = "join" /\ b \in {"ok", "already"} => call.room \in row'
                             /\ call.op = "join" /\ b = "error" => ~(coded /\ call.room \in row')
                             /\ call.op = "leave" /\ b \in {"ok", "notMember"} => call.room \notin row'
                             /\ call.op = "leave" /\ b = "error" => call.room \in row'
             Trusted(b, k) == IF k THEN call.room \notin unsettled' /\ StillTrue(b) ELSE call.room \in doubt'
  <2> SUFFICES ASSUME Busy
               PROVE  /\ Mine(reply'[call.room]) =>
                            inbox'[call.room] = <<>> /\ Trusted(reply'[call.room].answer, reply'[call.room].settled)
                      /\ call.answer # "none" => inbox'[call.room] = <<>> /\ Trusted(call.answer, call.settled)
    BY <1>0 DEF Heard, Mine, Truthful, Believed
  <2>1. call.room \in Rooms BY <1>0 DEF Calling, Shapes
  <2>2. CASE call.room # r
    <3>1. (call.room \in row' <=> call.room \in row) /\ reply'[call.room] = reply[call.room]
          /\ inbox'[call.room] = inbox[call.room]
          /\ (call.room \in unsettled' <=> call.room \in unsettled)
          /\ (call.room \in doubt' <=> call.room \in doubt)
      BY <1>1, <1>3, <1>7, <1>8, <2>1, <2>2
    <3>2. \A b, k : Believed(b, k) => Trusted(b, k) BY <3>1 DEF Believed, Truthful
    <3> HIDE DEF Trusted
    <3> QED BY <1>0, <3>1, <3>2 DEF Heard
  <2>3. CASE call.room = r
    <3>1. call.answer = "none" BY <1>0, <2>3 DEF Heard
    <3>2. ASSUME Mine(reply'[r]) PROVE inbox'[r] = <<>> /\ Trusted(reply'[r].answer, reply'[r].settled)
      <4>1. Mine(q) BY <1>6, <1>7, <3>2 DEF Mine
      <4>2. q.op = call.op /\ q.coded = coded BY <1>14, <4>1 DEF Mine
      <4>3. reply'[r].answer = a /\ reply'[r].settled = known BY <1>6, <1>7
      <4>4. Trusted(a, known)
        <5>1. CASE known
          <6>1. StillTrue(a) BY <1>a, <2>3, <4>2, <5>1 DEF Handled
          <6> QED BY <1>a, <2>3, <5>1, <6>1 DEF Handled
        <5>2. CASE ~known BY <1>a, <2>3, <5>2 DEF Handled
        <5> QED BY <5>1, <5>2
      <4> QED BY <1>15, <4>1, <4>3, <4>4
    <3> QED BY <2>3, <3>1, <3>2
  <2> QED BY <2>2, <2>3
<1>17. Accounted' BY <1>0, <1>1, <1>4 DEF Accounted
<1>18. Agreed'
  <2> SUFFICES ASSUME up, NEW x \in Rooms \ doubt'
               PROVE  (x \in joined <=> x \in row') \/ Underway(x)'
    BY <1>0 DEF Agreed
  <2>0. x \in Rooms \ doubt BY <1>1
  <2>1. CASE x # r BY <1>0, <1>8, <2>0, <2>1 DEF Agreed, Underway
  <2>2. CASE x = r /\ q.op \in MembershipOps
    <3>1. Busy /\ q.id = call.id BY <1>0, <1>2, <2>0, <2>2 DEF Accounted
    <3>2. r = call.room /\ q.op = call.op /\ q.coded = coded BY <1>14, <3>1
    <3>3. (x \in joined <=> x \in row) \/ Underway(x) BY <1>0, <2>0 DEF Agreed
    <3>4. known BY <1>a, <2>2 DEF Handled
    <3> QED BY <1>0, <1>a, <2>2, <3>1, <3>2, <3>3, <3>4 DEF Handled, Underway, MembershipOps
  <2>3. CASE x = r /\ q.op \notin MembershipOps
    <3>1. row' = row BY <1>a, <2>3 DEF Handled
    <3> QED BY <1>0, <2>0, <3>1 DEF Agreed, Underway
  <2> QED BY <2>1, <2>2, <2>3
<1>19. Waiting' BY <1>0 DEF Waiting
<1>k. Kept' BY <1>1
<1> QED BY <1>9, <1>10, <1>11, <1>12, <1>13, <1>16, <1>17, <1>18, <1>19, <1>k DEF CacheInv

-----------------------------------------------------------------------------
\* Every step of the system preserves the invariant.
LEMMA CacheStep == CacheInv /\ [Next]_vars => CacheInv'
<1> SUFFICES ASSUME CacheInv, [Next]_vars PROVE CacheInv' OBVIOUS
<1>0. /\ Shapes /\ Mailed /\ Sent /\ Calling /\ LastAttempt /\ Heard /\ Accounted /\ Agreed /\ Waiting /\ Kept
  BY DEF CacheInv
<1>1. ASSUME NEW d \in Devices, NEW r \in Rooms, NEW op \in RoomOps, RoomCommand(d, r, op) PROVE CacheInv'
  <2>1. /\ Dispatch(d, op, op, r) /\ r \in rooms /\ UNCHANGED <<rooms, row, pending, roster, unsettled, doubt>>
        /\ rooms \subseteq Rooms /\ row \subseteq rooms
    BY <1>0, <1>1 DEF RoomCommand, requireRoomID, Shapes, rosterVars
  <2> QED BY <2>1, DispatchSteps
<1>2. ASSUME NEW d \in Devices, NEW r \in Rooms, RoleCommand(d, r) PROVE CacheInv'
  <2>1. /\ Dispatch(d, "role", "role", r) /\ r \in rooms /\ UNCHANGED <<rooms, row, pending, roster, unsettled, doubt>>
        /\ rooms \subseteq Rooms /\ row \subseteq rooms
    BY <1>0, <1>2 DEF RoleCommand, requireRoomID, Shapes, rosterVars
  <2> QED BY <2>1, DispatchSteps DEF RoomOps
<1>3. ASSUME NEW d \in Devices, NEW r \in Rooms, handleRoomCreate(d, r) PROVE CacheInv'
  <2>1. /\ Dispatch(d, "create", "join", r) /\ r \notin rooms /\ rooms' = rooms \cup {r}
        /\ row' = row \cup {r} /\ doubt' = doubt \cup {r} /\ UNCHANGED <<pending, roster, unsettled>>
        /\ rooms \subseteq Rooms /\ row \subseteq rooms
    BY <1>0, <1>3 DEF handleRoomCreate, Shapes
  <2>2. "join" \in RoomOps BY DEF RoomOps, MembershipOps
  <2> QED BY <2>1, <2>2, DispatchSteps
<1>4. ASSUME NEW d \in Devices, handleRoomJoined(d) PROVE CacheInv'
  <2>1. /\ Dispatch(d, "get", "get", "none") /\ UNCHANGED <<rooms, row, pending, roster, unsettled, doubt>>
        /\ rooms \subseteq Rooms /\ row \subseteq rooms
    BY <1>0, <1>4 DEF handleRoomJoined, Shapes, rosterVars
  <2>2. "get" \notin RoomOps BY DEF RoomOps, MembershipOps
  <2> QED BY <2>1, <2>2, DispatchSteps
<1>5. CASE JoinRoom \/ LeaveRoom \/ SendMessage \/ ChangeRole
  <2>1. {"join", "leave", "post", "role"} \subseteq RoomOps BY DEF RoomOps, MembershipOps
  <2>2. \E op \in RoomOps : StartCall(op) /\ joined' = joined
    BY <1>5, <2>1 DEF JoinRoom, LeaveRoom, SendMessage, ChangeRole
  <2> QED BY <2>2, StartSteps
<1>6. CASE GetJoinedRooms
  <2>1. /\ mailbox # <<>> /\ mailbox' = Tail(mailbox) /\ http' = Answered(Head(mailbox).id, TRUE)
        /\ UNCHANGED <<rooms, row, pending, roster, unsettled, inbox, reply, up, coded, joined, call,
                       requests, doubt>>
    BY <1>6 DEF GetJoinedRooms, Turn, roomVars, rosterVars
  <2>2. Head(mailbox).id \in Nat
    <3>1. mailbox \in Seq(Mail) BY <1>0 DEF Shapes
    <3>2. Head(mailbox) \in Mail BY <2>1, <3>1, TailFacts
    <3> QED BY <3>2 DEF Mail
  <2> QED BY <2>1, <2>2, TurnSteps
<1>7. CASE NotifyRoomEvent
  BY <1>7, TurnSteps DEF NotifyRoomEvent, Turn, rosterVars
<1>8. ASSUME NEW d \in Devices, GatewayUnreachable(d) \/ GatewayTimeout(d) PROVE CacheInv'
  <2>1. http[d].id \in Nat BY <1>0, Typed
  <2> QED BY <1>8, <2>1, AnswerSteps DEF GatewayUnreachable, GatewayTimeout
<1>9. ASSUME NEW r \in Rooms, RoomHandles(r) PROVE CacheInv'
  <2>1. r \in rooms
    <3>1. inbox[r] # <<>> /\ inbox[r] \in Seq(Req) BY <1>0, <1>9, Typed DEF RoomHandles
    <3>2. 1 \in 1..Len(inbox[r]) BY <3>1, TailFacts
    <3> QED BY <1>0, <3>2 DEF Sent
  <2> QED BY <1>9, <2>1, HandleSteps
<1>10. ASSUME NEW r \in Rooms, RoomReplies(r) PROVE CacheInv'
  BY <1>10, DeliverSteps DEF RoomReplies
<1>11. ASSUME NEW r \in Rooms, ChildSkips(r) PROVE CacheInv'
  <2>1. UNCHANGED <<rooms, row, pending, roster, unsettled, inbox, reply, up, coded, joined, mailbox,
                  call, http, requests, doubt>>
    BY <1>11 DEF ChildSkips, grainVars, rosterVars
  <2> QED BY <2>1, Unmoved
<1>12. CASE UNCHANGED vars
  <2>1. UNCHANGED <<rooms, row, pending, roster, unsettled, inbox, reply, up, coded, joined, mailbox,
                  call, http, requests, doubt>>
    BY <1>12 DEF vars, roomVars, rosterVars, grainVars
  <2> QED BY <2>1, Unmoved
<1>13. CASE Request BY <1>1, <1>2, <1>3, <1>4, <1>13 DEF Request
<1>14. CASE Grain
  BY <1>5, <1>6, <1>7, <1>14, ActivateSteps, TailSteps, LostSteps DEF Grain
<1>15. CASE Room BY <1>9, <1>10, <1>11, <1>15, NotifySteps, RoomLifeSteps DEF Room
<1>16. CASE Gateway BY <1>8, <1>16 DEF Gateway
<1>17. CASE Database \/ Idle BY <1>17, DownSteps, RoomLifeSteps DEF Database, Idle
<1>18. CASE Faults
  BY <1>8, <1>18, DownSteps, LostSteps, ResendSteps, CrashRoomSteps DEF Faults
<1> QED BY <1>12, <1>13, <1>14, <1>15, <1>16, <1>17, <1>18 DEF Next

LEMMA CacheInvariant == Spec => []CacheInv
<1> QED BY CacheInit, CacheStep, PTL DEF Spec

\* GET /rooms/joined tells the truth: the cache of an active User grain agrees
\* with the membership rows on every room except the one a call is open on and
\* those with an outcome the grain never learnt, whatever commands, crashes,
\* lost answers and reactivations came before (user_grain.go, JoinRoom,
\* LeaveRoom and hydrateJoinedRooms).
THEOREM CacheTruthful == Spec => []CacheAgrees
<1>1. CacheInv => CacheAgrees BY DEF CacheInv, Agreed, Underway, CacheAgrees
<1> QED BY <1>1, CacheInvariant, PTL

\* A PUT or DELETE of the membership answered with success has healed the row
\* and the cache, and neither an earlier request nor a transaction in doubt is
\* left that could undo it (ADR-010), if the room that answered had no COMMIT in
\* doubt since or at its activation (room.go, Join and Leave answer from the
\* roster; user.go, JoinRoom and LeaveRoom).
THEOREM RetryHeals == Spec => SuccessHeals
<1> DEFINE Heals ==
       \A d \in Devices, r \in Rooms :
          Succeeds(d, r) /\ call.settled
          => /\ r \in row' <=> http[d].op = "join"
             /\ r \in joined' <=> http[d].op = "join"
             /\ r \notin doubt'
             /\ ~Stray(r)'
             /\ pending'[r] = "none"
<1>1. CacheInv /\ [Next]_vars => [Heals]_vars
  <2> SUFFICES ASSUME CacheInv, Next, NEW d \in Devices, NEW r \in Rooms,
                      http[d].op \in MembershipOps, http[d].room = r,
                      http[d].status = "waiting", http'[d].status = "ok", call.settled
               PROVE  /\ r \in row' <=> http[d].op = "join"
                      /\ r \in joined' <=> http[d].op = "join"
                      /\ r \notin doubt'
                      /\ ~Stray(r)'
                      /\ pending'[r] = "none"
    BY DEF Succeeds
  <2>0. /\ Shapes /\ Mailed /\ Calling /\ Heard /\ Waiting /\ Kept
        /\ http \in [Devices -> Web] /\ http'[d] # http[d] /\ http[d].op # "create"
    BY DEF CacheInv, Shapes, MembershipOps
  \* The answer was a success of the request itself.
  <2>1. ASSUME NEW n \in Nat, NEW ok \in BOOLEAN, http' = Answered(n, ok)
        PROVE  ok /\ n # 0 /\ http[d].id = n
    BY <2>0, <2>1, AnsweredFacts
  <2>2. \A n \in Nat : http' # Answered(n, FALSE) BY <2>1
  <2>3. call.id \in Nat /\ \A e \in Devices : http[e].id \in Nat BY <2>0, Typed
  <2>4. PICK moved : moved = http' OBVIOUS
  <2>5. JoinRoomTail \/ LeaveRoomTail \/ RelayVerdict \/ GetJoinedRooms
    <3>1. ~Request
      <4>1. \A e \in Devices : \A op, gop, x : ~Dispatch(e, op, gop, x)
        <5> SUFFICES ASSUME NEW e \in Devices, NEW op, NEW gop, NEW x, Dispatch(e, op, gop, x)
                     PROVE  FALSE
          OBVIOUS
        <5>1. PICK w : w = [id |-> requests', op |-> op, room |-> x, status |-> "waiting"] OBVIOUS
        <5>2. http' = [http EXCEPT ![e] = w] /\ w.status = "waiting" BY <5>1 DEF Dispatch
        <5> QED BY <2>0, <5>2
      <4> QED BY <4>1 DEF Request, RoomCommand, RoleCommand, handleRoomCreate, handleRoomJoined
    <3>2. ~Gateway /\ \A e \in Devices : ~GatewayTimeout(e)
      BY <2>2, <2>3 DEF Gateway, GatewayUnreachable, GatewayTimeout
    <3>3. ~RoomTimeout /\ ~RoomUnreachable
      BY <2>2, <2>3 DEF RoomTimeout, RoomUnreachable, TransportError, Return
    <3>4. ~Room
      BY <2>0 DEF Room, RoomActivates, RoomHandles, RoomReplies, Deliver, ChildNotifies, ChildSkips
    <3>5. ~CrashUser /\ ~Resend /\ \A x \in Rooms : ~CrashRoom(x)
      BY <2>0 DEF CrashUser, Resend, CrashRoom, RoomDown
    <3>7. ~Idle /\ ~Database
      BY <2>0 DEF Idle, Database, Passivate, RoomPassivates, RoomDown, LateCommit, LateAbort
    <3>6. ~Activate /\ ~JoinRoom /\ ~LeaveRoom /\ ~SendMessage /\ ~ChangeRole /\ ~NotifyRoomEvent
      BY <2>0 DEF Activate, JoinRoom, LeaveRoom, SendMessage, ChangeRole, StartCall, NotifyRoomEvent
    <3> QED BY <3>1, <3>2, <3>3, <3>4, <3>5, <3>6, <3>7 DEF Next, Grain, Faults
  <2>6. ~GetJoinedRooms
    <3> SUFFICES ASSUME GetJoinedRooms PROVE FALSE OBVIOUS
    <3>1. /\ mailbox \in Seq(Mail) /\ mailbox # <<>> /\ Head(mailbox).op = "get"
          /\ http' = Answered(Head(mailbox).id, TRUE)
      BY <2>0 DEF GetJoinedRooms, Turn, Shapes
    <3>2. 1 \in 1..Len(mailbox) /\ Head(mailbox) = mailbox[1] /\ Head(mailbox) \in Mail
      BY <3>1, TailFacts
    <3>3. mailbox[1].id \in Nat BY <3>2 DEF Mail
    <3>4. mailbox[1].id # 0 /\ http[d].id = mailbox[1].id BY <2>1, <3>1, <3>2, <3>3
    <3>5. SameCommand(http[d], "get", mailbox[1].room) BY <2>0, <3>1, <3>2, <3>4 DEF Waiting
    <3> QED BY <3>5 DEF SameCommand, MembershipOps
  <2>7. CASE JoinRoomTail \/ LeaveRoomTail \/ RelayVerdict
    <3>1. PICK ok \in BOOLEAN : Return(ok) /\ (RelayVerdict \/ call.op = "join" \/ call.op = "leave")
      BY <2>7 DEF JoinRoomTail, LeaveRoomTail, RelayVerdict
    <3>2. /\ http' = Answered(call.id, ok) /\ row' = row /\ inbox' = inbox /\ pending' = pending
      BY <3>1 DEF Return, roomVars, rosterVars
    <3>3. call.id # 0 /\ http[d].id = call.id BY <2>1, <2>3, <3>2
    <3>4. Busy BY <3>3, Nothing DEF Busy
    <3>5. call.op = http[d].op /\ call.room = r
      BY <2>0, <3>3, <3>4 DEF Waiting, SameCommand
    <3>6. ~RelayVerdict BY <3>5 DEF RelayVerdict, MembershipOps
    <3>7. call.answer # "none" => inbox[r] = <<>> /\ r \notin unsettled /\ Truthful(call.answer)
      BY <2>0, <3>4, <3>5 DEF Heard, Believed
    <3>11. call.answer # "none" => pending'[r] = "none" BY <2>0, <3>2, <3>7 DEF Kept
    <3>8. inbox[r] = <<>> => ~Stray(r)' BY <3>2 DEF Stray
    <3>9. CASE JoinRoomTail
      <4>1. /\ call.answer \in {"ok", "already"} /\ call.op = "join"
            /\ joined' = joined \cup {r} /\ doubt' = doubt \ {r}
        BY <2>2, <2>3, <3>5, <3>9 DEF JoinRoomTail, Return, Learnt
      <4> QED BY <3>2, <3>5, <3>7, <3>8, <3>11, <4>1 DEF Truthful
    <3>10. CASE LeaveRoomTail
      <4>1. /\ call.answer \in {"ok", "notMember"} /\ call.op = "leave"
            /\ joined' = joined \ {r} /\ doubt' = doubt \ {r}
        BY <2>2, <2>3, <3>5, <3>10 DEF LeaveRoomTail, Return, Learnt
      <4> QED BY <3>2, <3>5, <3>7, <3>8, <3>11, <4>1 DEF Truthful
    <3> QED BY <2>7, <3>6, <3>9, <3>10
  <2> QED BY <2>5, <2>6, <2>7
<1> HIDE DEF Heals
<1>2. [][Heals]_vars => SuccessHeals BY DEF Heals, SuccessHeals
<1> QED BY <1>1, <1>2, CacheInvariant, PTL DEF Spec
=============================================================================
