------------------------------ MODULE Timeline ------------------------------
(***************************************************************************)
(* One room's scrollback in the terminal client against the room's journal *)
(* on the server.  The client holds a bounded bucket of events and a       *)
(* keyset cursor; events reach the bucket as live WebSocket frames and as  *)
(* pages of GET /rooms/{id}/events, and the two race with each other, with *)
(* the trim of a full bucket and with leaving and rejoining the room.      *)
(*                                                                         *)
(* Events are identified with their positions 1, 2, 3, ... in the journal, *)
(* which is the order of their ids; 0 stands for the empty cursor "".  The *)
(* bucket, a slice kept sorted by id, is represented by its set of ids.    *)
(* An update of the model by one message (Update of the root tea.Model) is *)
(* one action; an HTTP call is the step that sends it, the step that reads *)
(* the database and the step that handles the answer.                      *)
(***************************************************************************)
EXTENDS Naturals, FiniteSetsExt, SequencesExt

CONSTANTS
    PageSize,   \* roomEventsDefaultLimit
    BucketCap,  \* eventBucketCap
    Rows,       \* scrollback rows of the Main pane without the error row
    Day,        \* the calendar day of each event, 0 for a zero timestamp
    MaxEvent,   \* bound: events of the journal
    MaxOdd      \* bound: times the user leaves the room, frames that come late

ASSUME TimelineAssumption ==
    /\ PageSize \in Nat \ {0} /\ BucketCap \in Nat \ {0} /\ Rows \in Nat \ {0}
    /\ MaxEvent \in Nat /\ MaxOdd \in Nat
    /\ Day \in [1..MaxEvent -> Nat]

VARIABLES
    last,       \* the newest event of the journal
    member,     \* the user's membership row exists
    command,    \* the membership command under way: none, leaving, left, joining, joined
    leaves,     \* how often the user has left
    late,       \* how many frames came late
    wire,       \* frames sent to the client and not handled yet
    load,       \* the page load in flight
    bucket,     \* the room's scrollback
    history,    \* the room's roomHistory
    active,     \* the room is the active one
    mainError,  \* the inline error row is shown
    offset,     \* rows the view is scrolled up from the newest one
    missed,     \* events whose frame was due and has not come, and those that a late
                \* frame of an older event has overtaken (history variable)
    received    \* events the bucket has ever held (history variable)

server == <<last, member, command, leaves, late, missed>>
view == <<active, mainError, offset>>
vars == <<server, wire, load, bucket, history, view, received>>

Events == 1..MaxEvent

NoLoad == [stage |-> "none", before |-> 0, events |-> {}, next |-> 0]

Init ==
    /\ last \in 0..MaxEvent
    /\ member = TRUE
    /\ command = "none"
    /\ leaves = 0
    /\ late = 0
    /\ wire = <<>>
    /\ load = NoLoad
    /\ bucket = {}
    /\ history = [fetched |-> FALSE, loading |-> FALSE, next |-> 0, exhausted |-> FALSE]
    /\ active = FALSE
    /\ mainError = FALSE
    /\ offset = 0
    /\ missed = {}
    /\ received = {}

-----------------------------------------------------------------------------
(* The server.                                                             *)

\* The journal grows by one event; the room fans it out to its members.  The
\* delivery to one connection is best effort.
Fanout(e, delivered) ==
    /\ wire' = IF delivered THEN Append(wire, e) ELSE wire
    /\ missed' = IF delivered THEN missed ELSE missed \cup {e}

PostEvent ==
    /\ last < MaxEvent
    /\ last' = last + 1
    /\ \E delivered \in {FALSE, member} : Fanout(last + 1, delivered)
    /\ UNCHANGED <<member, command, leaves, late, load, bucket, history, view, received>>

\* A call of the fan-out that was reported lost is executed after all, or one is
\* executed twice: the frame comes behind those of newer events.
LateFrame ==
    /\ leaves + late < MaxOdd
    /\ late' = late + 1
    /\ \E e \in 1..last :
          /\ wire' = Append(wire, e)
          /\ missed' = missed \cup ((e + 1)..last \ (received \cup ToSet(wire)))
    /\ UNCHANGED <<last, member, command, leaves, load, bucket, history, view, received>>

\* The newest PageSize + 1 events below the cursor, without the look-ahead one.
PageBelow(before) ==
    LET older == {e \in 1..last : before = 0 \/ e < before} IN
    {e \in older : Cardinality({f \in older : f > e}) < PageSize}

HasMore(before) ==
    Cardinality({e \in 1..last : before = 0 \/ e < before}) > PageSize

\* handleRoomEvents for a member; next is the id of the oldest event served.
ServePage ==
    /\ load.stage = "sent"
    /\ member
    /\ LET page == PageBelow(load.before) IN
       load' = [load EXCEPT !.stage = "loaded", !.events = page,
                            !.next = IF HasMore(load.before) THEN Min(page) ELSE 0]
    /\ UNCHANGED <<server, wire, bucket, history, view, received>>

\* A non-member is refused; the database, the network or the client's timeout
\* may fail the call for anyone.
FailPage ==
    /\ load.stage = "sent"
    /\ load' = [load EXCEPT !.stage = "failed"]
    /\ UNCHANGED <<server, wire, bucket, history, view, received>>

-----------------------------------------------------------------------------
(* The scrollback rows and the scroll arithmetic.                          *)

\* The rows of a bucket, oldest first, with a separator where the day differs
\* from that of the most recent dated entry.
RowsOf(ids) ==
    LET seq == SetToSortSeq(ids, <)
        dated(i) == {j \in 1..(i - 1) : Day[seq[j]] # 0}
        separated(i) == /\ Day[seq[i]] # 0
                        /\ dated(i) # {}
                        /\ Day[seq[Max(dated(i))]] # Day[seq[i]]
        rows(i) == IF separated(i)
                   THEN << <<"day", Day[seq[i]]>>, <<"event", seq[i]>> >>
                   ELSE << <<"event", seq[i]>> >>
    IN FlattenSeq([i \in DOMAIN seq |-> rows(i)])

\* Lines, tabulated (the @@ makes TLC build the table once).
Lines == [ids \in SUBSET Events |-> RowsOf(ids)] @@ <<>>

ActiveLines(ids) == IF active THEN Lines[ids] ELSE <<>>

availableRows(error) == IF Rows - (IF error THEN 1 ELSE 0) > 1
                        THEN Rows - (IF error THEN 1 ELSE 0) ELSE 1

maxScrollOffset(total, avail) == IF total > avail THEN total - avail ELSE 0

clampOffset(o, maxOffset) == IF o > maxOffset THEN maxOffset ELSE o

pageStep(avail) == IF avail > 1 THEN avail - 1 ELSE 1

trailingLinesEqual(old, new, n) ==
    \A i \in 1..n : /\ i <= Len(old) /\ i <= Len(new)
                    /\ old[Len(old) + 1 - i] = new[Len(new) + 1 - i]

\* mutant: slides by one row per frame and forgets the date separators
SlideByOne(old, new, o) ==
    IF o = 0 \/ Len(new) <= Len(old) \/ trailingLinesEqual(old, new, Min({o, Len(old)}))
    THEN o ELSE o + 1

\* Growth below the anchor moves the offset; a shrink or growth above do not.
adjustOffset(old, new, o) ==
    IF o = 0 \/ Len(new) <= Len(old) \/ trailingLinesEqual(old, new, Min({o, Len(old)}))
    THEN o ELSE o + Len(new) - Len(old)

reanchor(ids, error) ==
    IF offset = 0 THEN 0
    ELSE LET new == ActiveLines(ids) IN
         clampOffset(adjustOffset(ActiveLines(bucket), new, offset),
                     maxScrollOffset(Len(new), availableRows(error)))

-----------------------------------------------------------------------------
(* The client: insertion.                                                  *)

\* mutant: a full bucket lets nothing newer in
TrimNewest(ids) == {e \in ids : Cardinality({f \in ids : f < e}) < BucketCap}

\* The newest BucketCap of the events, insertOrdered applied to each of them.
Trimmed(ids) == {e \in ids : Cardinality({f \in ids : f > e}) < BucketCap}

\* mutant: the cursor stays where it was
KeepCursor(h, ids) == h

healTrimmedHistory(h, ids) ==
    [h EXCEPT !.fetched = TRUE, !.next = Min(ids), !.exhausted = FALSE]

\* Every live frame and every backfilled entry: insert, dedup, trim the oldest
\* entries of a full bucket, and then heal the cursor.
appendEvents(h, ids) ==
    LET all == bucket \cup ids IN
    /\ bucket' = Trimmed(all)
    /\ history' = IF Trimmed(all) # all THEN healTrimmedHistory(h, Trimmed(all)) ELSE h
    /\ received' = received \cup ids

\* A message, joined or left frame.
WSFrameReceived ==
    /\ wire # <<>>
    /\ wire' = Tail(wire)
    /\ appendEvents(history, {Head(wire)})
    /\ offset' = reanchor(Trimmed(bucket \cup {Head(wire)}), mainError)
    /\ UNCHANGED <<server, load, active, mainError>>

\* An older page always moves the cursor; a newest page only seeds it.
RoomEventsLoaded ==
    /\ load.stage = "loaded"
    /\ LET h == [history EXCEPT !.loading = FALSE, !.fetched = TRUE]
           seeds == load.before # 0 \/ ~history.fetched
       IN appendEvents(IF seeds THEN [h EXCEPT !.next = load.next,
                                               !.exhausted = (load.next = 0)]
                                ELSE h,
                       load.events)
    /\ offset' = reanchor(Trimmed(bucket \cup load.events), mainError)
    /\ load' = NoLoad
    /\ UNCHANGED <<server, wire, active, mainError>>

\* mutant: the failure path leaves the latch set
KeepLatch ==
    /\ load.stage = "failed"
    /\ load' = NoLoad
    /\ mainError' = (mainError \/ active)
    /\ UNCHANGED <<server, wire, bucket, history, active, offset, received>>

\* Only the latch changes; the error row is shown in the active room.
RoomEventsLoadFailed ==
    /\ load.stage = "failed"
    /\ load' = NoLoad
    /\ history' = [history EXCEPT !.loading = FALSE]
    /\ mainError' = (mainError \/ active)
    /\ UNCHANGED <<server, wire, bucket, active, offset, received>>

-----------------------------------------------------------------------------
(* The client: keys and membership results.                                *)

LoadEventsCmd(before) == load' = [NoLoad EXCEPT !.stage = "sent", !.before = before]

\* A newest-page load, unless one is in flight for the room.
beginBackfill ==
    IF history.loading THEN UNCHANGED <<load, history>>
    ELSE /\ history' = [history EXCEPT !.loading = TRUE]
         /\ LoadEventsCmd(0)

activateRoom ==
    /\ active' = TRUE
    /\ mainError' = FALSE
    /\ offset' = 0

\* enter on the room in the Rooms pane, which lists a room that was just left
\* until the list is reloaded.
SelectRoom ==
    /\ activateRoom
    /\ beginBackfill
    /\ UNCHANGED <<server, wire, bucket, received>>

\* enter on another room of the Rooms pane.
SelectOtherRoom ==
    /\ active
    /\ active' = FALSE
    /\ mainError' = FALSE
    /\ offset' = 0
    /\ UNCHANGED <<server, wire, load, bucket, history, received>>

\* A message the user sent was accepted.
SendMessageSucceeded ==
    /\ active
    /\ mainError
    /\ mainError' = FALSE
    /\ UNCHANGED <<server, wire, load, bucket, history, active, offset, received>>

fetchOlder ==
    IF history.loading \/ history.exhausted \/ history.next = 0
    THEN UNCHANGED <<load, history>>
    ELSE /\ history' = [history EXCEPT !.loading = TRUE]
         /\ LoadEventsCmd(history.next)

\* The offset each scroll key asks for, before it is clamped.
ScrollTarget(key, avail, maxOffset) ==
    CASE key = "up"     -> offset + 1
      [] key = "down"   -> IF offset > 0 THEN offset - 1 ELSE 0
      [] key = "pgup"   -> offset + pageStep(avail)
      [] key = "pgdown" -> IF offset > pageStep(avail) THEN offset - pageStep(avail) ELSE 0
      [] key = "home"   -> maxOffset
      [] key = "end"    -> 0

handleScrollKey(key) ==
    LET avail == availableRows(mainError)
        maxOffset == maxScrollOffset(Len(ActiveLines(bucket)), avail)
    IN
    /\ active
    /\ offset' = clampOffset(ScrollTarget(key, avail, maxOffset), maxOffset)
    /\ IF key \in {"up", "pgup", "home"} /\ offset >= maxOffset
       THEN fetchOlder ELSE UNCHANGED <<load, history>>
    /\ UNCHANGED <<server, wire, bucket, active, mainError, received>>

\* The confirmed leave of the Rooms pane.
LeaveRoomCmd ==
    /\ command = "none"
    /\ leaves + late < MaxOdd
    /\ command' = "leaving"
    /\ leaves' = leaves + 1
    /\ UNCHANGED <<last, member, late, missed, wire, load, bucket, history, view, received>>

\* The room commits the departure: its event is the last the leaver gets.
LeaveCommits ==
    /\ command = "leaving"
    /\ last < MaxEvent
    /\ command' = "left"
    /\ member' = FALSE
    /\ last' = last + 1
    /\ \E delivered \in BOOLEAN : Fanout(last + 1, delivered)
    /\ UNCHANGED <<leaves, late, load, bucket, history, view, received>>

\* RoomLeft: the Main pane returns to its placeholder; the bucket and the
\* cursor stay.
RoomLeft ==
    /\ command = "left"
    /\ command' = "joining"
    /\ active' = FALSE
    /\ mainError' = (mainError /\ ~active)
    /\ UNCHANGED <<last, member, leaves, late, missed, wire, load, bucket, history, offset,
                   received>>

\* The user joins again from the catalogue.
JoinCommits ==
    /\ command = "joining"
    /\ last < MaxEvent
    /\ command' = "joined"
    /\ member' = TRUE
    /\ last' = last + 1
    /\ \E delivered \in BOOLEAN : Fanout(last + 1, delivered)
    /\ UNCHANGED <<leaves, late, load, bucket, history, view, received>>

RoomJoined ==
    /\ command = "joined"
    /\ command' = "none"
    /\ activateRoom
    /\ beginBackfill
    /\ UNCHANGED <<last, member, leaves, late, missed, wire, bucket, received>>

-----------------------------------------------------------------------------
Scroll == \E key \in {"up", "down", "pgup", "pgdown", "home", "end"} : handleScrollKey(key)

Answer == ServePage \/ FailPage

Handle == WSFrameReceived \/ RoomEventsLoaded \/ RoomEventsLoadFailed

Next ==
    \/ PostEvent \/ LateFrame \/ Answer \/ Handle
    \/ SelectRoom \/ SelectOtherRoom \/ SendMessageSucceeded \/ Scroll
    \/ LeaveRoomCmd \/ LeaveCommits \/ RoomLeft \/ JoinCommits \/ RoomJoined

Spec == Init /\ [][Next]_vars

-----------------------------------------------------------------------------
(* Properties.                                                             *)

\* Every variable has its type.
TypeOK ==
    /\ last \in 0..MaxEvent /\ member \in BOOLEAN /\ leaves \in 0..MaxOdd /\ late \in 0..MaxOdd
    /\ command \in {"none", "leaving", "left", "joining", "joined"}
    /\ wire \in Seq(Events)
    /\ load \in [stage : {"none", "sent", "loaded", "failed"}, before : 0..MaxEvent,
                 events : SUBSET Events, next : 0..MaxEvent]
    /\ bucket \subseteq Events /\ Cardinality(bucket) <= BucketCap
    /\ history \in [fetched : BOOLEAN, loading : BOOLEAN, next : 0..MaxEvent,
                    exhausted : BOOLEAN]
    /\ active \in BOOLEAN /\ mainError \in BOOLEAN /\ offset \in Nat
    /\ missed \subseteq Events /\ received \subseteq Events

\* An event that the next pages of a scroll-up will ask for.
BelowCursor(e) == history.fetched /\ ~history.exhausted /\ e < history.next

\* The cursor skips nothing: an event of the journal is in the bucket, on its
\* way to it, or below the cursor, where the next pages ask for it, however
\* frames (late and doubled ones too), pages of either direction, trims and
\* room switches interleave.  The exceptions are an event whose frame was lost
\* or overtaken, and, until a page is in or the bucket trims, what the client
\* has not received.  Below the cursor of a full bucket lies what the client
\* asks for again but does not show (NewestRetained).
NoHole ==
    \A e \in 1..last :
        \/ e \in bucket
        \/ BelowCursor(e)
        \/ e \in ToSet(wire)
        \/ e \in missed \ received
        \/ ~history.fetched /\ e \notin received

\* eventBucketCap: "the newest are always retained".  What the bucket has held
\* and lost is older than all it shows, whatever late frames and older pages are
\* inserted into a full bucket.  So a page that brings trimmed events again does
\* not show them again.
NewestRetained == \A e \in received \ bucket, f \in bucket : e < f

\* The row at the lower edge of a scrolled-up view.
BottomRow == LET rows == Lines[bucket] IN rows[Len(rows) - offset]

\* A scrolled-up view does not slide: while the bucket is below its cap, what
\* arrives below it (live frames) or above it (an older page) leaves the row
\* at its lower edge where it is, date separators included.
ViewStays ==
    [][ LET new == bucket' \ bucket IN
        /\ active /\ active' /\ offset > 0
        /\ new # {} /\ bucket \subseteq bucket'
        /\ offset <= maxScrollOffset(Len(Lines[bucket]), availableRows(mainError))
        /\ \/ Min(new) > Max(bucket)
           \/ Max(new) < Min(bucket)
        => BottomRow' = BottomRow ]_vars

\* The single-flight latch of the room is set only while a page is in flight, so
\* that history can be asked for again whatever the last load ended with and
\* whichever room switch, leave or rejoin came before its answer.
LatchInFlight == history.loading => load.stage # "none"
=============================================================================
