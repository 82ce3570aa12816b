--------------------------- MODULE TimelineProofs ---------------------------
(***************************************************************************)
(* Proofs about Timeline, for any page size, any capacity of the bucket and *)
(* any number of events, leaves and late frames: NoHole, that the cursor    *)
(* skips no event of the journal, unless its frame was lost or overtaken or *)
(* nothing was ever loaded.                                                 *)
(* NoHole says nothing of a page in flight, which was read from an older    *)
(* journal and will move a cursor that a trim may have moved meanwhile.     *)
(* The invariant adds what each page must bring with it, that what a trim   *)
(* removed lies below everything that is left, and that the events nobody   *)
(* has told the client of lie below all that it knows.                      *)
(***************************************************************************)
EXTENDS Timeline, FiniteSetTheorems, WellFoundedInduction, TLAPS

\* The events the client has had no chance to hear of: they were in the
\* journal before it started and no page has brought them.
Silent == {e \in 1 .. last : e \notin missed \cup received \cup ToSet(wire)}

Shapes ==
    /\ last \in Nat
    /\ wire \in Seq(Nat) /\ ToSet(wire) \subseteq 1 .. last
    /\ load \in [stage : {"none", "sent", "loaded", "failed"}, before : Nat,
                 events : SUBSET (1 .. last), next : Nat]
    /\ bucket \subseteq received /\ received \subseteq 1 .. last
    /\ history \in [fetched : BOOLEAN, loading : BOOLEAN, next : Nat, exhausted : BOOLEAN]

Cursor == history.next # 0 => history.fetched /\ history.next \in 2 .. last

\* Only a full bucket has lost entries, and they are below all it has kept.
Trims ==
    received # bucket =>
        /\ Cardinality(bucket) >= BucketCap
        /\ history.fetched /\ ~history.exhausted
        /\ \A e \in received \ bucket : e < history.next /\ \A f \in bucket : e < f

Below == \A e \in Silent : \A f \in received \cup missed \cup ToSet(wire) : e < f

Reachable == history.fetched => \A e \in Silent : ~history.exhausted /\ e < history.next

\* A request for an older page asks for everything the client has not heard of.
Asked ==
    load.stage \in {"sent", "loaded"} /\ load.before # 0 =>
        load.before \in 2 .. last /\ \A e \in Silent : e < load.before

\* A page brings all there is down to the cursor it carries.
Paged ==
    load.stage = "loaded" =>
        /\ load.next # 0 => load.next \in 2 .. last
        /\ \A e \in 1 .. last : e \in Silent \/ e < load.before =>
              \/ e \in load.events
              \/ load.next # 0 /\ e < load.next /\ \A f \in load.events : e < f
        /\ load.before # 0 => load.events # {} /\ \A f \in load.events : f < load.before

ScrollInv == Shapes /\ Cursor /\ Trims /\ Below /\ Reachable /\ Asked /\ Paged

------------------------------------------------------------------------------
(* Sets of event numbers.                                                  *)

LEMMA LessThan == \A x, y \in Nat : x < y => <<x, y>> \in OpToRel(<, Nat)
BY DEF OpToRel

LEMMA Least ==
    ASSUME NEW S \in SUBSET Nat, S # {}
    PROVE  \E x \in S : \A y \in S : x <= y
<1> DEFINE R == OpToRel(<, Nat)
<1>1. IsWellFoundedOn(R, Nat) BY NatLessThanWellFounded
<1>2. \A x, y \in Nat : x < y => <<x, y>> \in R BY LessThan
<1> HIDE DEF R
<1>3. PICK x \in S : \A y \in S : ~(<<y, x>> \in R) BY <1>1, WFMin
<1>4. ASSUME NEW y \in S PROVE x <= y
  <2>1. x \in Nat /\ y \in Nat /\ ~(<<y, x>> \in R) BY <1>3
  <2>2. ~(y < x) BY <1>2, <2>1
  <2> QED BY <2>1, <2>2
<1> QED BY <1>4

LEMMA Greatest ==
    ASSUME NEW n \in Nat, NEW S \in SUBSET (0 .. n), S # {}
    PROVE  \E x \in S : \A y \in S : y <= x
<1> PICK T : T = {n - x : x \in S} OBVIOUS
<1>1. T \in SUBSET Nat /\ T # {}
  <2>1. \A x \in S : n - x \in Nat OBVIOUS
  <2> QED BY <2>1
<1>2. PICK t \in T : \A y \in T : t <= y BY <1>1, Least
<1>3. PICK x \in S : t = n - x OBVIOUS
<1>4. \A y \in S : n - x <= n - y BY <1>2, <1>3
<1>5. \A y \in S : y <= x BY <1>4
<1> QED BY <1>5

LEMMA MinFacts ==
    ASSUME NEW S \in SUBSET Nat, S # {}
    PROVE  Min(S) \in S /\ \A y \in S : Min(S) <= y
BY Least DEF Min

\* The n greatest elements of a set: what a full bucket keeps, and a page.
Newest(S, n) == {e \in S : Cardinality({f \in S : f > e}) < n}

LEMMA FiniteEvents ==
    ASSUME NEW n \in Nat, NEW S \in SUBSET (1 .. n)
    PROVE  IsFiniteSet(S) /\ Cardinality(S) \in Nat /\ S \in SUBSET Nat
<1>1. IsFiniteSet(1 .. n) BY FS_Interval
<1>2. IsFiniteSet(S) BY <1>1, FS_Subset
<1>3. Cardinality(S) \in Nat BY <1>2, FS_CardinalityType
<1> QED BY <1>2, <1>3

LEMMA NewestFacts ==
    ASSUME NEW m \in Nat, NEW S \in SUBSET (1 .. m), NEW n \in Nat \ {0}
    PROVE  /\ Newest(S, n) \subseteq S
           /\ \A x \in S \ Newest(S, n), f \in Newest(S, n) : x < f
           /\ S # {} => Newest(S, n) # {}
           /\ Newest(S, n) = S <=> Cardinality(S) <= n
           /\ Newest(S, n) # S => Cardinality(Newest(S, n)) >= n
<1> DEFINE Above(e) == {f \in S : f > e}
<1>a. IsFiniteSet(S) /\ Cardinality(S) \in Nat /\ \A e \in S : e \in Nat BY FiniteEvents
<1>b. ASSUME NEW e PROVE Above(e) \in SUBSET S /\ IsFiniteSet(Above(e)) /\ Cardinality(Above(e)) \in Nat
  BY FiniteEvents
<1> PICK N : N = Newest(S, n) OBVIOUS
<1>c. \A e : e \in N <=> e \in S /\ Cardinality(Above(e)) < n BY DEF Newest
<1>1. N \subseteq S BY <1>c
<1>2. ASSUME NEW x \in S \ N, NEW f \in N PROVE x < f
  <2>a. x \in Nat /\ f \in Nat BY <1>a, <1>1
  <2> SUFFICES ASSUME f <= x PROVE FALSE BY <2>a
  <2>1. Above(x) \in SUBSET Above(f)
    <3>1. \A g \in S : g > x => g > f BY <1>a, <2>a
    <3> QED BY <3>1
  <2>2. Cardinality(Above(x)) <= Cardinality(Above(f)) BY <1>b, <2>1, FS_Subset
  <2>3. Cardinality(Above(f)) < n /\ ~(Cardinality(Above(x)) < n) BY <1>c
  <2> QED BY <1>b, <2>2, <2>3
<1>3. ASSUME S # {} PROVE N # {}
  <2>a. S \in SUBSET (0 .. m) OBVIOUS
  <2>1. PICK x \in S : \A y \in S : y <= x BY <1>3, <2>a, Greatest
  <2>2. Above(x) = {}
    <3>1. \A g \in S : ~(g > x) BY <1>a, <2>1
    <3> QED BY <3>1
  <2>3. Cardinality(Above(x)) = 0 BY <2>2, FS_EmptySet
  <2> QED BY <1>c, <2>3
<1>4. ASSUME Cardinality(S) <= n PROVE N = S
  <2>1. ASSUME NEW e \in S PROVE Cardinality(Above(e)) < n
    <3>1. Above(e) \in SUBSET (S \ {e}) OBVIOUS
    <3>2. IsFiniteSet(S \ {e}) /\ Cardinality(S \ {e}) = Cardinality(S) - 1 BY <1>a, FS_RemoveElement
    <3>3. Cardinality(Above(e)) <= Cardinality(S \ {e}) BY <3>1, <3>2, FS_Subset
    <3> QED BY <1>4, <1>a, <1>b, <3>2, <3>3
  <2> QED BY <1>c, <2>1
<1>5. ASSUME N = S PROVE Cardinality(S) <= n
  <2>1. CASE S = {} BY <2>1, FS_EmptySet
  <2>2. CASE S # {}
    <3>a. S \in SUBSET Nat BY <1>a
    <3>1. PICK x \in S : \A y \in S : x <= y BY <2>2, <3>a, Least
    <3>2. Cardinality(Above(x)) < n BY <1>5, <1>c
    <3>3. S \ {x} = Above(x)
      <4>1. \A g \in S : g # x <=> g > x BY <1>a, <3>1
      <4> QED BY <4>1
    <3>4. Cardinality(S \ {x}) = Cardinality(S) - 1 BY <1>a, FS_RemoveElement
    <3> QED BY <1>a, <3>2, <3>3, <3>4
  <2> QED BY <2>1, <2>2
<1>6. ASSUME N # S PROVE Cardinality(N) >= n
  <2> PICK D : D = S \ N OBVIOUS
  <2>1. D # {} /\ D \in SUBSET (0 .. m)
    <3>1. S \in SUBSET (0 .. m) OBVIOUS
    <3>2. D # {} BY <1>1, <1>6
    <3> QED BY <3>1, <3>2
  <2>2. PICK x \in D : \A y \in D : y <= x BY <2>1, Greatest
  <2>3. Above(x) \in SUBSET N
    <3>1. \A g \in S : g > x => g \notin D BY <1>a, <2>2
    <3> QED BY <3>1
  <2>4. N \in SUBSET (1 .. m) BY <1>1
  <2>b. IsFiniteSet(N) BY <2>4, FiniteEvents
  <2>5. Cardinality(Above(x)) <= Cardinality(N) BY <2>3, <2>b, FS_Subset
  <2>6. ~(Cardinality(Above(x)) < n) BY <1>c
  <2>7. Cardinality(N) \in Nat BY <2>4, FiniteEvents
  <2> QED BY <1>b, <2>5, <2>6, <2>7
<1> QED BY <1>1, <1>2, <1>3, <1>4, <1>5, <1>6

\* What is added below a full set is not among the newest.
LEMMA FullFacts ==
    ASSUME NEW m \in Nat, NEW S \in SUBSET (1 .. m), NEW n \in Nat \ {0},
           NEW B \in SUBSET S, Cardinality(B) >= n
    PROVE  /\ \A f \in Newest(S, n) : \E b \in B : b <= f
           /\ Newest(S, n) = S => S = B
<1>a. IsFiniteSet(S) /\ Cardinality(S) \in Nat /\ IsFiniteSet(B) /\ Cardinality(B) \in Nat
  BY FiniteEvents
<1>1. ASSUME NEW f \in Newest(S, n) PROVE \E b \in B : b <= f
  <2> SUFFICES ASSUME \A b \in B : ~(b <= f) PROVE FALSE OBVIOUS
  <2> PICK A : A = {g \in S : g > f} OBVIOUS
  <2>1. f \in S /\ Cardinality(A) < n BY DEF Newest
  <2>2. B \in SUBSET A
    <3>1. f \in Nat /\ \A b \in B : b \in Nat /\ b \in S BY <2>1
    <3>2. \A b \in B : b > f BY <3>1
    <3> QED BY <3>1, <3>2
  <2>3. A \in SUBSET (1 .. m) OBVIOUS
  <2>b. IsFiniteSet(A) BY <2>3, FiniteEvents
  <2>4. Cardinality(B) <= Cardinality(A) BY <2>2, <2>b, FS_Subset
  <2>5. Cardinality(A) \in Nat BY <2>b, FS_CardinalityType
  <2> QED BY <1>a, <2>1, <2>4, <2>5
<1>2. ASSUME Newest(S, n) = S PROVE S = B
  <2>1. Cardinality(S) <= n BY <1>2, NewestFacts
  <2>2. Cardinality(B) <= Cardinality(S) BY <1>a, FS_Subset
  <2>3. Cardinality(B) = Cardinality(S) BY <1>a, <2>1, <2>2
  <2> QED BY <1>a, <2>3, FS_Subset
<1> QED BY <1>1, <1>2

------------------------------------------------------------------------------
(* The frames on their way.                                                *)

LEMMA WireFacts ==
    /\ \A e \in Nat, s \in Seq(Nat) :
          Append(s, e) \in Seq(Nat) /\ ToSet(Append(s, e)) = ToSet(s) \cup {e}
    /\ \A s \in Seq(Nat) : s # <<>> =>
          Tail(s) \in Seq(Nat) /\ Head(s) \in ToSet(s) /\ ToSet(s) = {Head(s)} \cup ToSet(Tail(s))
<1>1. ASSUME NEW e \in Nat, NEW s \in Seq(Nat)
      PROVE  Append(s, e) \in Seq(Nat) /\ ToSet(Append(s, e)) = ToSet(s) \cup {e}
  <2> PICK t : t = Append(s, e) OBVIOUS
  <2>1. /\ t \in Seq(Nat) /\ Len(s) \in Nat /\ DOMAIN s = 1 .. Len(s) /\ DOMAIN t = 1 .. Len(s) + 1
        /\ t[Len(s) + 1] = e /\ \A i \in 1 .. Len(s) : t[i] = s[i]
    OBVIOUS
  <2>2. /\ \A i \in 1 .. Len(s) + 1 : i \in 1 .. Len(s) \/ i = Len(s) + 1
        /\ \A i \in 1 .. Len(s) : i \in 1 .. Len(s) + 1
        /\ Len(s) + 1 \in 1 .. Len(s) + 1
    BY <2>1
  <2> QED BY <2>1, <2>2 DEF ToSet
<1>2. ASSUME NEW s \in Seq(Nat), s # <<>>
      PROVE  Tail(s) \in Seq(Nat) /\ Head(s) \in ToSet(s) /\ ToSet(s) = {Head(s)} \cup ToSet(Tail(s))
  <2> PICK t : t = Tail(s) OBVIOUS
  <2> PICK h : h = Head(s) OBVIOUS
  <2>1. /\ t \in Seq(Nat) /\ Len(s) \in Nat \ {0} /\ DOMAIN s = 1 .. Len(s) /\ DOMAIN t = 1 .. Len(s) - 1
        /\ h = s[1] /\ \A i \in 1 .. Len(s) - 1 : t[i] = s[i + 1]
    BY <1>2
  <2>2. \A i \in 1 .. Len(s) : i = 1 \/ (i - 1 \in 1 .. Len(s) - 1 /\ s[i] = t[i - 1])
    <3> SUFFICES ASSUME NEW i \in 1 .. Len(s), i # 1
                 PROVE  i - 1 \in 1 .. Len(s) - 1 /\ s[i] = t[i - 1]
      OBVIOUS
    <3>1. i - 1 \in 1 .. Len(s) - 1 /\ (i - 1) + 1 = i BY <2>1
    <3> QED BY <2>1, <3>1
  <2>3. \A i \in 1 .. Len(s) - 1 : i + 1 \in 1 .. Len(s) BY <2>1
  <2>4. 1 \in 1 .. Len(s) BY <2>1
  <2>5. ToSet(s) = {s[i] : i \in 1 .. Len(s)} /\ ToSet(t) = {t[i] : i \in 1 .. Len(s) - 1}
    BY <2>1 DEF ToSet
  <2>6. h \in ToSet(s) BY <2>1, <2>4, <2>5
  <2>7. ToSet(t) \subseteq ToSet(s) BY <2>1, <2>3, <2>5
  <2>8. ToSet(s) \subseteq {h} \cup ToSet(t) BY <2>1, <2>2, <2>5
  <2> QED BY <2>1, <2>6, <2>7, <2>8
<1> QED BY <1>1, <1>2

------------------------------------------------------------------------------
(* Insertion, for a frame and for a page.                                  *)

HistoryType == [fetched : BOOLEAN, loading : BOOLEAN, next : Nat, exhausted : BOOLEAN]

LEMMA InsertSteps ==
    ASSUME ScrollInv, NEW ids \in SUBSET (1 .. last), NEW h \in HistoryType, appendEvents(h, ids),
           last' = last, missed' = missed, wire' \in Seq(Nat), ToSet(wire') \subseteq ToSet(wire),
           ToSet(wire) \subseteq ids \cup ToSet(wire'),
           h.next # 0 => h.fetched /\ h.next \in 2 .. last,
           h.fetched => \A e \in Silent \ ids : ~h.exhausted /\ e < h.next,
           \A e \in Silent \ ids, f \in ids : e < f,
           received # bucket /\ ids \subseteq bucket =>
               h.fetched /\ ~h.exhausted /\ \A e \in received \ bucket : e < h.next
    PROVE  /\ Cursor' /\ Trims' /\ Below' /\ Reachable' /\ Silent' \subseteq Silent
           /\ bucket' \subseteq received' /\ received' \subseteq 1 .. last
           /\ history' \in HistoryType
<1> PICK all : all = bucket \cup ids OBVIOUS
<1> PICK T : T = Trimmed(all) OBVIOUS
<1>1. /\ last \in Nat /\ bucket \subseteq received /\ received \subseteq 1 .. last
      /\ all \in SUBSET (1 .. last) /\ BucketCap \in Nat \ {0}
  BY TimelineAssumption DEF ScrollInv, Shapes
<1>2. T = Newest(all, BucketCap) BY DEF Trimmed, Newest
<1>3. /\ T \subseteq all /\ (\A x \in all \ T, f \in T : x < f)
      /\ (all # {} => T # {}) /\ (T # all => Cardinality(T) >= BucketCap)
  <2>1. /\ Newest(all, BucketCap) \subseteq all
        /\ \A x \in all \ Newest(all, BucketCap), f \in Newest(all, BucketCap) : x < f
        /\ all # {} => Newest(all, BucketCap) # {}
        /\ Newest(all, BucketCap) # all => Cardinality(Newest(all, BucketCap)) >= BucketCap
    BY <1>1, NewestFacts
  <2> QED BY <1>2, <2>1
<1>4. /\ bucket' = T /\ received' = received \cup ids
      /\ history' = IF T # all THEN healTrimmedHistory(h, T) ELSE h
  BY DEF appendEvents
<1>5. Silent' \subseteq Silent \ ids BY <1>4 DEF Silent
<1>6. Below'
  <2>1. \A e \in Silent : \A f \in received \cup missed \cup ToSet(wire) : e < f
    BY DEF ScrollInv, Below
  <2> QED BY <1>4, <1>5, <2>1 DEF Below
<1>7. bucket' \subseteq received' /\ received' \subseteq 1 .. last BY <1>1, <1>3, <1>4
<1>8. CASE T = all
  <2>1. history' = h BY <1>4, <1>8
  <2>2. Cursor' BY <2>1 DEF Cursor
  <2>3. Reachable' BY <1>5, <2>1 DEF Reachable
  <2>4. ASSUME received' # bucket'
        PROVE  /\ Cardinality(bucket') >= BucketCap /\ h.fetched /\ ~h.exhausted
               /\ \A e \in received' \ bucket' : e < h.next /\ \A f \in bucket' : e < f
    <3>1. received # bucket BY <1>4, <1>8, <2>4
    <3>2. Cardinality(bucket) >= BucketCap /\ \A e \in received \ bucket : \A f \in bucket : e < f
      BY <3>1 DEF ScrollInv, Trims
    <3>3. bucket \in SUBSET all OBVIOUS
    <3>4. all = bucket BY <1>1, <1>2, <1>8, <3>2, <3>3, FullFacts
    <3>5. ids \subseteq bucket /\ bucket' = bucket /\ received' = received BY <1>1, <1>4, <1>8, <3>4
    <3> QED BY <3>1, <3>2, <3>5
  <2>5. Trims' BY <2>1, <2>4 DEF Trims
  <2> QED BY <1>5, <1>6, <1>7, <2>1, <2>2, <2>3, <2>5
<1>9. CASE T # all
  <2> PICK m : m = Min(T) OBVIOUS
  <2>1. T \in SUBSET Nat /\ T # {}
    <3>1. \A x \in all : x \in Nat BY <1>1
    <3> QED BY <1>3, <1>9, <3>1
  <2>2. m \in T /\ \A y \in T : m <= y BY <2>1, MinFacts
  <2>3. /\ history' \in HistoryType /\ history'.fetched = TRUE /\ history'.next = m
        /\ history'.exhausted = FALSE
    <3>1. m \in Nat BY <2>1, <2>2
    <3> QED BY <1>4, <1>9, <3>1 DEF healTrimmedHistory, HistoryType
  <2>4. m \in 2 .. last
    <3>1. PICK x \in all \ T : TRUE BY <1>3, <1>9
    <3>2. x \in 1 .. last /\ m \in 1 .. last /\ x < m BY <1>1, <1>3, <2>2, <3>1
    <3> QED BY <1>1, <3>2
  <2>5. Cursor' BY <2>3, <2>4 DEF Cursor
  <2>6. Reachable'
    <3>1. \A e \in Silent' : \A f \in received' : e < f BY <1>6 DEF Below
    <3>2. m \in received' BY <1>4, <1>7, <2>2
    <3>3. \A e \in Silent' : e < m BY <3>1, <3>2
    <3> QED BY <2>3, <3>3 DEF Reachable
  <2>7. ASSUME NEW e \in received' \ bucket', NEW f \in bucket' PROVE e < f
    <3>1. CASE e \in all BY <1>3, <1>4, <3>1
    <3>2. CASE e \notin all
      <4>1. e \in received \ bucket BY <1>4, <3>2
      <4>2. Cardinality(bucket) >= BucketCap /\ \A b \in bucket : e < b
        BY <4>1 DEF ScrollInv, Trims
      <4>3. bucket \in SUBSET all OBVIOUS
      <4>4. PICK b \in bucket : b <= f
        <5>1. \A g \in Newest(all, BucketCap) : \E b \in bucket : b <= g
          BY <1>1, <4>2, <4>3, FullFacts
        <5> QED BY <1>2, <1>4, <5>1
      <4>5. e \in Nat /\ b \in Nat /\ f \in Nat
        <5>1. (\A x \in received : x \in Nat) /\ (\A x \in all : x \in Nat) BY <1>1
        <5> QED BY <1>1, <1>3, <1>4, <4>1, <5>1
      <4> QED BY <4>2, <4>4, <4>5
    <3> QED BY <3>1, <3>2
  <2>8. Trims' BY <1>3, <1>4, <1>9, <2>2, <2>3, <2>7 DEF Trims
  <2> QED BY <1>5, <1>6, <1>7, <2>3, <2>5, <2>6, <2>8
<1> QED BY <1>8, <1>9

------------------------------------------------------------------------------
(* Steps.                                                                  *)

LEMMA ScrollInit == Init => ScrollInv
<1> SUFFICES ASSUME Init PROVE ScrollInv OBVIOUS
<1>1. /\ last \in Nat /\ wire = <<>> /\ load = NoLoad /\ bucket = {} /\ missed = {} /\ received = {}
      /\ history = [fetched |-> FALSE, loading |-> FALSE, next |-> 0, exhausted |-> FALSE]
  BY TimelineAssumption DEF Init
<1>2. wire \in Seq(Nat) /\ ToSet(wire) = {} BY <1>1 DEF ToSet
<1>3. /\ load.stage = "none" /\ history.fetched = FALSE /\ history.next = 0
      /\ load \in [stage : {"none", "sent", "loaded", "failed"}, before : Nat,
                   events : SUBSET (1 .. last), next : Nat]
  BY <1>1 DEF NoLoad
<1>4. history \in [fetched : BOOLEAN, loading : BOOLEAN, next : Nat, exhausted : BOOLEAN] BY <1>1
<1>5. Shapes BY <1>1, <1>2, <1>3, <1>4 DEF Shapes
<1>6. Cursor /\ Reachable BY <1>3 DEF Cursor, Reachable
<1>7. Trims /\ Below BY <1>1, <1>2 DEF Trims, Below
<1>8. Asked /\ Paged BY <1>3 DEF Asked, Paged
<1> QED BY <1>5, <1>6, <1>7, <1>8 DEF ScrollInv

\* The fields of the records, one by one.
LEMMA Fields ==
    ASSUME ScrollInv
    PROVE  /\ load.before \in Nat /\ load.next \in Nat /\ load.events \in SUBSET (1 .. last)
           /\ history.fetched \in BOOLEAN /\ history.exhausted \in BOOLEAN /\ history.next \in Nat
           /\ last \in Nat /\ wire \in Seq(Nat) /\ ToSet(wire) \subseteq 1 .. last
           /\ bucket \subseteq received /\ received \subseteq 1 .. last /\ history \in HistoryType
BY DEF ScrollInv, Shapes, HistoryType

\* The journal grows: the new event is on the wire or lost, and not silent.
LEMMA PostSteps ==
    ASSUME ScrollInv, last' = last + 1, NEW d \in BOOLEAN, Fanout(last + 1, d),
           load' = load, bucket' = bucket, history' = history, received' = received
    PROVE  ScrollInv'
<1>1. last \in Nat /\ wire \in Seq(Nat) /\ ToSet(wire) \subseteq 1 .. last BY Fields
<1>2. \/ /\ wire' = Append(wire, last + 1) /\ missed' = missed
         /\ wire' \in Seq(Nat) /\ ToSet(wire') = ToSet(wire) \cup {last + 1}
      \/ wire' = wire /\ missed' = missed \cup {last + 1}
  <2>1. last + 1 \in Nat BY <1>1
  <2> QED BY <1>1, <2>1, WireFacts DEF Fanout
<1>3. 1 .. last + 1 = (1 .. last) \cup {last + 1} BY <1>1
<1>4. Silent' \subseteq Silent BY <1>2, <1>3 DEF Silent
<1>5. Shapes'
  <2>1. last' \in Nat /\ wire' \in Seq(Nat) /\ ToSet(wire') \subseteq 1 .. last' BY <1>1, <1>2, <1>3
  <2>2. load' \in [stage : {"none", "sent", "loaded", "failed"}, before : Nat,
                   events : SUBSET (1 .. last'), next : Nat]
    BY <1>3 DEF ScrollInv, Shapes
  <2>3. received' \subseteq 1 .. last' BY <1>3 DEF ScrollInv, Shapes
  <2> QED BY <2>1, <2>2, <2>3 DEF ScrollInv, Shapes
<1>6. 2 .. last \subseteq 2 .. last' BY <1>1
<1>7. Cursor' BY <1>6 DEF ScrollInv, Cursor
<1>8. Trims' BY DEF ScrollInv, Trims
<1>9. Below'
  <2>1. \A e \in Silent : e < last + 1 BY <1>1 DEF Silent
  <2>2. \A e \in Silent : \A f \in received \cup missed \cup ToSet(wire) : e < f
    BY DEF ScrollInv, Below
  <2>3. received' \cup missed' \cup ToSet(wire') \subseteq
            received \cup missed \cup ToSet(wire) \cup {last + 1}
    BY <1>2
  <2>4. \A e \in Silent : \A f \in received' \cup missed' \cup ToSet(wire') : e < f
    BY <2>1, <2>2, <2>3
  <2> QED BY <1>4, <2>4 DEF Below
<1>10. Reachable' BY <1>4 DEF ScrollInv, Reachable
<1>11. Asked' BY <1>4, <1>6 DEF ScrollInv, Asked
<1>12. Paged'
  <2> SUFFICES ASSUME load.stage = "loaded" PROVE Paged' BY DEF Paged
  <2>1. /\ load.next # 0 => load.next \in 2 .. last
        /\ \A e \in 1 .. last : e \in Silent \/ e < load.before =>
              \/ e \in load.events
              \/ load.next # 0 /\ e < load.next /\ \A f \in load.events : e < f
        /\ load.before # 0 => load.events # {} /\ \A f \in load.events : f < load.before
    BY DEF ScrollInv, Paged
  <2>2. \A e \in 1 .. last' : e \in Silent' \/ e < load.before => e \in 1 .. last
    <3>1. load.before # 0 => load.before \in 2 .. last BY DEF ScrollInv, Asked
    <3>2. load.before \in Nat BY Fields
    <3>3. \A e \in Silent' : e \in 1 .. last BY <1>4 DEF Silent
    <3> QED BY <1>1, <3>1, <3>2, <3>3
  <2> QED BY <1>4, <1>6, <2>1, <2>2 DEF Paged
<1> QED BY <1>5, <1>7, <1>8, <1>9, <1>10, <1>11, <1>12 DEF ScrollInv

\* A frame that comes late or twice overtakes what nobody told the client of.
LEMMA LateSteps == ASSUME ScrollInv, LateFrame PROVE ScrollInv'
<1>1. PICK e \in 1 .. last : /\ wire' = Append(wire, e)
                            /\ missed' = missed \cup ((e + 1) .. last \ (received \cup ToSet(wire)))
  BY DEF LateFrame
<1>2. /\ last' = last /\ load' = load /\ bucket' = bucket /\ history' = history
      /\ received' = received
  BY DEF LateFrame, view
<1>3. last \in Nat /\ e \in Nat BY Fields
<1>4. wire' \in Seq(Nat) /\ ToSet(wire') = ToSet(wire) \cup {e} BY <1>1, <1>3, Fields, WireFacts
<1>5. Silent' \subseteq Silent BY <1>1, <1>2, <1>4 DEF Silent
<1>6. \A g \in Silent' : g < e
  <2> SUFFICES ASSUME NEW g \in Silent' PROVE g < e OBVIOUS
  <2>1. g \in 1 .. last /\ g \notin missed' /\ g \notin received /\ g \notin ToSet(wire) /\ g # e
    BY <1>2, <1>4 DEF Silent
  <2>2. g \notin (e + 1) .. last BY <1>1, <2>1
  <2> QED BY <1>3, <2>1, <2>2
<1>7. Shapes'
  <2>1. ToSet(wire') \subseteq 1 .. last BY <1>4, Fields
  <2> QED BY <1>2, <1>4, <2>1 DEF ScrollInv, Shapes
<1>8. Cursor' BY <1>2 DEF ScrollInv, Cursor
<1>9. Trims' BY <1>2 DEF ScrollInv, Trims
<1>10. Below'
  <2> SUFFICES ASSUME NEW g \in Silent', NEW f \in received' \cup missed' \cup ToSet(wire') PROVE g < f
    BY DEF Below
  <2>1. CASE f \in received \cup missed \cup ToSet(wire) BY <1>5, <2>1 DEF ScrollInv, Below
  <2>2. CASE f = e BY <1>6, <2>2
  <2>3. CASE f \in (e + 1) .. last
    <3>1. g < e /\ g \in Nat BY <1>2, <1>6 DEF Silent
    <3> QED BY <1>3, <2>3, <3>1
  <2> QED BY <1>1, <1>2, <1>4, <2>1, <2>2, <2>3
<1>11. Reachable' BY <1>2, <1>5 DEF ScrollInv, Reachable
<1>12. Asked' BY <1>2, <1>5 DEF ScrollInv, Asked
<1>13. Paged' BY <1>2, <1>5 DEF ScrollInv, Paged
<1> QED BY <1>7, <1>8, <1>9, <1>10, <1>11, <1>12, <1>13 DEF ScrollInv

\* The next frame is handled while a page is in flight, or not.
LEMMA FrameSteps == ASSUME ScrollInv, WSFrameReceived PROVE ScrollInv'
<1>1. /\ wire # <<>> /\ wire' = Tail(wire) /\ appendEvents(history, {Head(wire)})
      /\ last' = last /\ missed' = missed /\ load' = load
  BY DEF WSFrameReceived, server
<1> PICK x : x = Head(wire) OBVIOUS
<1> PICK ids : ids = {x} OBVIOUS
<1>2. /\ wire' \in Seq(Nat) /\ x \in ToSet(wire) /\ ToSet(wire) = ids \cup ToSet(wire')
  BY <1>1, Fields, WireFacts
<1>3. ids \in SUBSET (1 .. last) /\ history \in HistoryType BY <1>2, Fields
<1>4. /\ Cursor' /\ Trims' /\ Below' /\ Reachable' /\ Silent' \subseteq Silent
      /\ bucket' \subseteq received' /\ received' \subseteq 1 .. last /\ history' \in HistoryType
  <2>1. appendEvents(history, ids) BY <1>1
  <2>2. history.next # 0 => history.fetched /\ history.next \in 2 .. last BY DEF ScrollInv, Cursor
  <2>3. history.fetched => \A e \in Silent \ ids : ~history.exhausted /\ e < history.next
    BY DEF ScrollInv, Reachable
  <2>4. \A e \in Silent \ ids, f \in ids : e < f BY <1>2 DEF ScrollInv, Below
  <2>5. received # bucket /\ ids \subseteq bucket =>
            history.fetched /\ ~history.exhausted /\ \A e \in received \ bucket : e < history.next
    BY DEF ScrollInv, Trims
  <2>6. ToSet(wire') \subseteq ToSet(wire) /\ ToSet(wire) \subseteq ids \cup ToSet(wire') BY <1>2
  <2> QED BY <1>1, <1>2, <1>3, <2>1, <2>2, <2>3, <2>4, <2>5, <2>6, InsertSteps
<1>5. Shapes'
  <2>1. ToSet(wire') \subseteq 1 .. last BY <1>2, Fields
  <2> QED BY <1>1, <1>2, <1>4, <2>1 DEF ScrollInv, Shapes, HistoryType
<1>6. Asked' BY <1>1, <1>4 DEF ScrollInv, Asked
<1>7. Paged' BY <1>1, <1>4 DEF ScrollInv, Paged
<1> QED BY <1>4, <1>5, <1>6, <1>7 DEF ScrollInv

\* A page moves the cursor by what it has read, unless the bucket trims.
LEMMA PageSteps == ASSUME ScrollInv, RoomEventsLoaded PROVE ScrollInv'
<1> DEFINE base == [history EXCEPT !.loading = FALSE, !.fetched = TRUE]
           seeds == load.before # 0 \/ ~history.fetched
           moved == [base EXCEPT !.next = load.next, !.exhausted = (load.next = 0)]
<1> PICK ids : ids = load.events OBVIOUS
<1> PICK h : h = IF seeds THEN moved ELSE base OBVIOUS
<1>1. /\ load.stage = "loaded" /\ appendEvents(h, ids) /\ load' = NoLoad
      /\ last' = last /\ missed' = missed /\ wire' = wire
  BY DEF RoomEventsLoaded, server
<1>2. h \in HistoryType /\ h.fetched = TRUE BY Fields DEF HistoryType
<1>3. /\ seeds => h.next = load.next /\ (h.exhausted <=> load.next = 0)
      /\ ~seeds => h.next = history.next /\ h.exhausted = history.exhausted
  BY Fields DEF HistoryType
<1>4. /\ load.next # 0 => load.next \in 2 .. last
      /\ \A e \in 1 .. last : e \in Silent \/ e < load.before =>
            \/ e \in ids
            \/ load.next # 0 /\ e < load.next /\ \A f \in ids : e < f
      /\ load.before # 0 => ids # {} /\ \A f \in ids : f < load.before
  BY <1>1 DEF ScrollInv, Paged
<1>5. h.next # 0 => h.fetched /\ h.next \in 2 .. last
  BY <1>2, <1>3, <1>4 DEF ScrollInv, Cursor
<1>6. \A e \in Silent : e \in 1 .. last BY DEF Silent
<1>7. \A e \in Silent \ ids : ~h.exhausted /\ e < h.next
  <2>1. CASE seeds BY <1>3, <1>4, <1>6, <2>1
  <2>2. CASE ~seeds BY <1>3, <2>2 DEF ScrollInv, Reachable
  <2> QED BY <2>1, <2>2
<1>8. \A e \in Silent \ ids, f \in ids : e < f BY <1>4, <1>6
<1>9. ASSUME received # bucket, ids \subseteq bucket
      PROVE  ~h.exhausted /\ \A e \in received \ bucket : e < h.next
  <2>1. history.fetched /\ ~history.exhausted
    BY <1>9 DEF ScrollInv, Trims
  <2>2. \A e \in received \ bucket : e < history.next /\ \A f \in bucket : e < f
    BY <1>9 DEF ScrollInv, Trims
  <2>3. CASE ~seeds BY <1>3, <2>1, <2>2, <2>3
  <2>4. CASE load.before # 0
    <3>1. seeds BY <2>4
    <3>2. PICK f \in ids : f < load.before BY <1>4, <2>4
    <3>3. ASSUME NEW e \in received \ bucket PROVE load.next # 0 /\ e < load.next
      <4>1. e < f /\ e \notin ids BY <1>9, <2>2, <3>2
      <4>2. e \in 1 .. last /\ f \in 1 .. last /\ load.before \in Nat /\ last \in Nat
        BY Fields, <1>9
      <4>3. e < load.before BY <3>2, <4>1, <4>2
      <4> QED BY <1>4, <4>1, <4>2, <4>3
    <3>4. PICK e \in received \ bucket : TRUE BY <1>9, Fields
    <3>5. load.next # 0 BY <3>3, <3>4
    <3> QED BY <1>3, <3>1, <3>3, <3>5
  <2> QED BY <2>1, <2>3, <2>4
<1>10. /\ Cursor' /\ Trims' /\ Below' /\ Reachable' /\ Silent' \subseteq Silent
       /\ bucket' \subseteq received' /\ received' \subseteq 1 .. last /\ history' \in HistoryType
  <2> HIDE DEF base, seeds, moved
  <2>1. ids \in SUBSET (1 .. last) /\ wire' \in Seq(Nat) BY <1>1, Fields
  <2>2. ToSet(wire') \subseteq ToSet(wire) /\ ToSet(wire) \subseteq ids \cup ToSet(wire') BY <1>1
  <2>3. h.fetched => \A e \in Silent \ ids : ~h.exhausted /\ e < h.next BY <1>7
  <2>4. received # bucket /\ ids \subseteq bucket =>
            h.fetched /\ ~h.exhausted /\ \A e \in received \ bucket : e < h.next
    BY <1>2, <1>9
  <2> QED BY <1>1, <1>2, <1>5, <1>8, <2>1, <2>2, <2>3, <2>4, InsertSteps
<1>11. /\ load'.stage = "none"
       /\ load' \in [stage : {"none", "sent", "loaded", "failed"}, before : Nat,
                     events : SUBSET (1 .. last), next : Nat]
  BY <1>1 DEF NoLoad
<1>12. Shapes' BY <1>1, <1>10, <1>11 DEF ScrollInv, Shapes, HistoryType
<1>13. Asked' /\ Paged' BY <1>11 DEF Asked, Paged
<1> QED BY <1>10, <1>12, <1>13 DEF ScrollInv

\* Steps that change neither the journal, the bucket nor the cursor.
LEMMA LoadSteps ==
    ASSUME ScrollInv, last' = last, missed' = missed, wire' = wire, bucket' = bucket, received' = received,
           history' \in HistoryType, history'.fetched = history.fetched, history'.next = history.next,
           history'.exhausted = history.exhausted,
           load' \in [stage : {"none", "sent", "loaded", "failed"}, before : Nat,
                      events : SUBSET (1 .. last), next : Nat],
           Asked', Paged'
    PROVE  ScrollInv'
<1>1. Silent' = Silent BY DEF Silent
<1>2. Shapes' BY DEF ScrollInv, Shapes, HistoryType
<1>3. Cursor' BY DEF ScrollInv, Cursor
<1>4. Trims' BY DEF ScrollInv, Trims
<1>5. Below' BY <1>1 DEF ScrollInv, Below
<1>6. Reachable' BY <1>1 DEF ScrollInv, Reachable
<1> QED BY <1>2, <1>3, <1>4, <1>5, <1>6 DEF ScrollInv

\* The page is read: it has all the events below its cursor, or a new one.
LEMMA ServeSteps == ASSUME ScrollInv, ServePage PROVE ScrollInv'
<1>a. PICK b : b = load.before OBVIOUS
<1>b. PICK older : older = {e \in 1 .. last : b = 0 \/ e < b} OBVIOUS
<1>c. PICK page : page = Newest(older, PageSize) OBVIOUS
<1>d. PICK next : next = IF HasMore(b) THEN Min(page) ELSE 0 OBVIOUS
<1>1. PageBelow(b) = page /\ (HasMore(b) <=> Cardinality(older) > PageSize)
  BY <1>b, <1>c DEF PageBelow, HasMore, Newest
<1>2. /\ load.stage = "sent" /\ load' = [load EXCEPT !.stage = "loaded", !.events = page, !.next = next]
      /\ UNCHANGED <<server, wire, bucket, history, view, received>>
  BY <1>1, <1>a, <1>d DEF ServePage
<1>3. last \in Nat /\ b \in Nat /\ PageSize \in Nat \ {0} /\ older \in SUBSET (1 .. last)
  BY <1>a, <1>b, Fields, TimelineAssumption
<1>4. /\ page \subseteq older /\ \A x \in older \ page, f \in page : x < f
      /\ older # {} => page # {}
      /\ page = older <=> Cardinality(older) <= PageSize
  <2>1. /\ Newest(older, PageSize) \subseteq older
        /\ \A x \in older \ Newest(older, PageSize), f \in Newest(older, PageSize) : x < f
        /\ older # {} => Newest(older, PageSize) # {}
        /\ Newest(older, PageSize) = older <=> Cardinality(older) <= PageSize
    BY <1>3, NewestFacts
  <2> QED BY <1>c, <2>1
<1>5. Cardinality(older) \in Nat BY <1>3, FiniteEvents
<1>6. HasMore(b) <=> page # older BY <1>1, <1>3, <1>4, <1>5
<1>7. ASSUME page # older
      PROVE  /\ next \in page /\ \A y \in page : next <= y
             /\ next \in 2 .. last
  <2>1. page \in SUBSET Nat /\ page # {}
    <3>1. \A x \in older : x \in Nat BY <1>3
    <3> QED BY <1>4, <1>7, <3>1
  <2>2. next \in page /\ \A y \in page : next <= y BY <1>d, <1>6, <1>7, <2>1, MinFacts
  <2>3. PICK x \in older \ page : TRUE BY <1>4, <1>7
  <2>4. x < next /\ x \in 1 .. last /\ next \in 1 .. last BY <1>3, <1>4, <2>2, <2>3
  <2> QED BY <1>3, <2>2, <2>4
<1>8. page = older => next = 0 BY <1>d, <1>6
<1>9. next \in Nat
  <2>1. CASE page = older BY <1>8, <2>1
  <2>2. CASE page # older BY <1>3, <1>7, <2>2
  <2> QED BY <2>1, <2>2
<1>10. /\ load' \in [stage : {"none", "sent", "loaded", "failed"}, before : Nat,
                     events : SUBSET (1 .. last), next : Nat]
       /\ load'.stage = "loaded" /\ load'.before = b /\ load'.events = page /\ load'.next = next
  <2>1. page \in SUBSET (1 .. last) BY <1>3, <1>4
  <2> QED BY <1>2, <1>a, <1>9, <2>1 DEF ScrollInv, Shapes
<1>11. /\ last' = last /\ missed' = missed /\ wire' = wire /\ bucket' = bucket /\ received' = received
       /\ history' = history
  BY <1>2 DEF server
<1>12. Silent' = Silent BY <1>11 DEF Silent
<1>13. b # 0 => b \in 2 .. last /\ \A e \in Silent : e < b BY <1>2, <1>a DEF ScrollInv, Asked
<1>14. Asked' BY <1>10, <1>11, <1>12, <1>13 DEF Asked
<1>15. Paged'
  <2>1. next # 0 => next \in 2 .. last BY <1>7, <1>8
  <2>2. ASSUME NEW e \in 1 .. last, e \in Silent \/ e < b
        PROVE  e \in page \/ (next # 0 /\ e < next /\ \A f \in page : e < f)
    <3>1. e \in older BY <1>b, <1>13, <2>2
    <3>2. CASE page = older BY <3>1, <3>2
    <3>3. CASE page # older /\ e \notin page
      <4>1. \A f \in page : e < f BY <1>4, <3>1, <3>3
      <4>2. next \in page /\ next # 0 BY <1>3, <1>7, <3>3
      <4> QED BY <4>1, <4>2
    <3> QED BY <3>2, <3>3
  <2>3. ASSUME b # 0 PROVE page # {} /\ \A f \in page : f < b
    <3>1. 1 \in older BY <1>3, <1>b, <1>13, <2>3
    <3> QED BY <1>4, <1>b, <2>3, <3>1
  <2> QED BY <1>10, <1>11, <1>12, <2>1, <2>2, <2>3 DEF Paged
<1>16. history' \in HistoryType BY <1>11, Fields
<1> QED BY <1>10, <1>11, <1>14, <1>15, <1>16, LoadSteps

\* A load begins, fails or is given up: what is in flight asks for enough.
LEMMA AskSteps ==
    ASSUME ScrollInv, last' = last, missed' = missed, wire' = wire, bucket' = bucket, received' = received,
           NEW latch \in BOOLEAN,
           history' = history \/ history' = [history EXCEPT !.loading = latch],
           \/ load' = NoLoad
           \/ load' = [load EXCEPT !.stage = "failed"]
           \/ load' = [NoLoad EXCEPT !.stage = "sent", !.before = 0]
           \/ /\ history.next # 0 /\ ~history.exhausted
              /\ load' = [NoLoad EXCEPT !.stage = "sent", !.before = history.next]
           \/ load' = load
    PROVE  ScrollInv'
<1>1. /\ history' \in HistoryType /\ history'.fetched = history.fetched /\ history'.next = history.next
      /\ history'.exhausted = history.exhausted
  BY Fields DEF HistoryType
<1>2. Silent' = Silent BY DEF Silent
<1>3. CASE load' = load
  <2>1. Asked' BY <1>2, <1>3 DEF ScrollInv, Asked
  <2>2. Paged' BY <1>2, <1>3 DEF ScrollInv, Paged
  <2> QED BY <1>1, <1>3, <2>1, <2>2, LoadSteps DEF ScrollInv, Shapes
<1>4. CASE load' # load
  <2>1. /\ load' \in [stage : {"none", "sent", "loaded", "failed"}, before : Nat,
                      events : SUBSET (1 .. last), next : Nat]
        /\ load'.stage # "loaded"
        /\ load'.stage = "sent" => \/ load'.before = 0
                                   \/ history.next # 0 /\ load'.before = history.next
    <3>1. history.next \in Nat BY Fields
    <3>2. load \in [stage : {"none", "sent", "loaded", "failed"}, before : Nat,
                    events : SUBSET (1 .. last), next : Nat]
      BY DEF ScrollInv, Shapes
    <3>3. CASE load' = [load EXCEPT !.stage = "failed"] BY <3>2, <3>3
    <3>4. CASE load' = NoLoad BY <3>4 DEF NoLoad
    <3>5. CASE load' = [NoLoad EXCEPT !.stage = "sent", !.before = 0] BY <3>5 DEF NoLoad
    <3>6. CASE history.next # 0 /\ load' = [NoLoad EXCEPT !.stage = "sent", !.before = history.next]
      BY <3>1, <3>6 DEF NoLoad
    <3> QED BY <1>4, <3>3, <3>4, <3>5, <3>6
  <2>2. history.next # 0 => history.next \in 2 .. last /\ \A e \in Silent : e < history.next
    BY DEF ScrollInv, Cursor, Reachable
  <2>3. Asked' BY <1>2, <2>1, <2>2 DEF Asked
  <2>4. Paged' BY <2>1 DEF Paged
  <2> QED BY <1>1, <2>1, <2>3, <2>4, LoadSteps
<1> QED BY <1>3, <1>4

LEMMA ScrollStep == ScrollInv /\ [Next]_vars => ScrollInv'
<1> SUFFICES ASSUME ScrollInv, [Next]_vars PROVE ScrollInv' OBVIOUS
<1> DEFINE Same == /\ last' = last /\ missed' = missed /\ wire' = wire
                   /\ bucket' = bucket /\ received' = received
<1>1. CASE PostEvent \/ LeaveCommits \/ JoinCommits
  <2>1. /\ last' = last + 1 /\ load' = load /\ bucket' = bucket /\ history' = history
        /\ received' = received
    BY <1>1 DEF PostEvent, LeaveCommits, JoinCommits
  <2>2. PICK d \in BOOLEAN : Fanout(last + 1, d)
    <3>1. CASE PostEvent
      <4>1. PICK d \in {FALSE, member} : Fanout(last + 1, d) BY <3>1 DEF PostEvent
      <4>2. Fanout(last + 1, TRUE) \/ Fanout(last + 1, FALSE) BY <4>1 DEF Fanout
      <4> QED BY <4>2
    <3>2. CASE LeaveCommits \/ JoinCommits BY <3>2 DEF LeaveCommits, JoinCommits
    <3> QED BY <1>1, <3>1, <3>2
  <2> QED BY <2>1, <2>2, PostSteps
<1>2. CASE ServePage BY <1>2, ServeSteps
<1>10. CASE LateFrame BY <1>10, LateSteps
<1>3. CASE WSFrameReceived BY <1>3, FrameSteps
<1>4. CASE RoomEventsLoaded BY <1>4, PageSteps
<1>5. CASE FailPage
  <2>1. Same /\ history' = history /\ load' = [load EXCEPT !.stage = "failed"]
    BY <1>5 DEF FailPage, server
  <2> QED BY <2>1, AskSteps
<1>6. CASE RoomEventsLoadFailed
  <2>1. Same /\ history' = [history EXCEPT !.loading = FALSE] /\ load' = NoLoad
    BY <1>6 DEF RoomEventsLoadFailed, server
  <2> QED BY <2>1, AskSteps
<1>7. CASE SelectRoom \/ RoomJoined
  <2>1. Same BY <1>7 DEF SelectRoom, RoomJoined, server
  <2>2. \/ load' = load /\ history' = history
        \/ /\ history' = [history EXCEPT !.loading = TRUE]
           /\ load' = [NoLoad EXCEPT !.stage = "sent", !.before = 0]
    BY <1>7 DEF SelectRoom, RoomJoined, beginBackfill, LoadEventsCmd
  <2> QED BY <2>1, <2>2, AskSteps
<1>8. CASE Scroll
  <2>1. Same BY <1>8 DEF Scroll, handleScrollKey, server
  <2>2. \/ load' = load /\ history' = history
        \/ /\ history.next # 0 /\ ~history.exhausted
           /\ history' = [history EXCEPT !.loading = TRUE]
           /\ load' = [NoLoad EXCEPT !.stage = "sent", !.before = history.next]
    BY <1>8 DEF Scroll, handleScrollKey, fetchOlder, LoadEventsCmd
  <2> QED BY <2>1, <2>2, AskSteps
<1>9. CASE SelectOtherRoom \/ SendMessageSucceeded \/ LeaveRoomCmd \/ RoomLeft \/ UNCHANGED vars
  <2>1. Same /\ history' = history /\ load' = load
    BY <1>9 DEF SelectOtherRoom, SendMessageSucceeded, LeaveRoomCmd, RoomLeft, vars, server
  <2> QED BY <2>1, AskSteps
<1> QED BY <1>1, <1>2, <1>3, <1>4, <1>5, <1>6, <1>7, <1>8, <1>9, <1>10 DEF Next, Answer, Handle

\* NoHole: however frames (late and doubled ones too), pages of either
\* direction, trims (insertOrdered, healTrimmedHistory), room switches and
\* leaves interleave, the cursor skips nothing but what was lost or overtaken:
\* an event outside the bucket is on its way or below the cursor, where the
\* next pages ask for it.  A full bucket does not keep what they bring.
THEOREM CursorSkipsNothing == Spec => []NoHole
<1>1. ASSUME ScrollInv PROVE NoHole
  <2> SUFFICES ASSUME NEW e \in 1 .. last
               PROVE  \/ e \in bucket \/ BelowCursor(e) \/ e \in ToSet(wire)
                      \/ e \in missed \ received \/ (~history.fetched /\ e \notin received)
    BY DEF NoHole
  <2>1. CASE e \in received /\ e \notin bucket BY <1>1, <2>1 DEF ScrollInv, Trims, BelowCursor
  <2>2. CASE e \in Silent BY <1>1, <2>2 DEF ScrollInv, Reachable, BelowCursor, Silent
  <2> QED BY <2>1, <2>2 DEF Silent
<1> QED BY ScrollInit, ScrollStep, <1>1, PTL DEF Spec

\* NewestRetained: insertOrdered trims a full bucket from the front, so that what
\* it has lost is older than all it shows, also when an older page or a late
\* frame is inserted into it.
THEOREM NewestKept == Spec => []NewestRetained
<1>1. ScrollInv => NewestRetained BY DEF ScrollInv, Trims, NewestRetained
<1> QED BY ScrollInit, ScrollStep, <1>1, PTL DEF Spec

\* LatchInFlight: the single-flight latch is set by the request of a page and
\* cleared by either of its endings; no trim, switch, leave or frame in between
\* leaves it set without a page to wait for.
THEOREM LatchSound == Spec => []LatchInFlight
<1> DEFINE Inv == ScrollInv /\ LatchInFlight
<1>1. Init => Inv BY ScrollInit DEF Init, LatchInFlight
<1>2. Inv /\ [Next]_vars => Inv'
  <2> SUFFICES ASSUME ScrollInv, LatchInFlight, [Next]_vars PROVE LatchInFlight'
    BY ScrollStep
  <2>t. /\ load \in [stage : {"none", "sent", "loaded", "failed"}, before : Nat,
                     events : SUBSET (1 .. last), next : Nat]
        /\ history \in [fetched : BOOLEAN, loading : BOOLEAN, next : Nat, exhausted : BOOLEAN]
    BY DEF ScrollInv, Shapes
  <2>1. CASE ServePage \/ FailPage
    <3>1. history' = history /\ load'.stage # "none"
      BY <2>1, <2>t DEF ServePage, FailPage
    <3> QED BY <2>1, <3>1 DEF ServePage, FailPage, LatchInFlight
  <2>2. CASE WSFrameReceived
    <3>1. load' = load /\ appendEvents(history, {Head(wire)})
      BY <2>2 DEF WSFrameReceived
    <3>2. history'.loading = history.loading
      BY <2>t, <3>1 DEF appendEvents, healTrimmedHistory
    <3> QED BY <3>1, <3>2 DEF LatchInFlight
  <2>3. CASE RoomEventsLoaded
    <3> DEFINE h == [history EXCEPT !.loading = FALSE, !.fetched = TRUE]
    <3>1. PICK g \in {h, [h EXCEPT !.next = load.next, !.exhausted = (load.next = 0)]} :
             appendEvents(g, load.events)
      BY <2>3 DEF RoomEventsLoaded
    <3>2. ~g.loading BY <2>t, <3>1
    <3>3. g \in [fetched : BOOLEAN, loading : BOOLEAN, next : Nat, exhausted : BOOLEAN]
      BY <2>t, <3>1
    <3>4. ~history'.loading
      BY <3>1, <3>2, <3>3 DEF appendEvents, healTrimmedHistory
    <3> QED BY <3>4 DEF LatchInFlight
  <2>4. CASE RoomEventsLoadFailed
    <3>1. ~history'.loading BY <2>4, <2>t DEF RoomEventsLoadFailed
    <3> QED BY <3>1 DEF LatchInFlight
  <2>5. CASE SelectRoom \/ RoomJoined \/ Scroll
    <3>1. \/ load' = load /\ history' = history
          \/ \E b \in Nat : load' = [NoLoad EXCEPT !.stage = "sent", !.before = b]
      BY <2>5, <2>t DEF SelectRoom, RoomJoined, Scroll, handleScrollKey, beginBackfill,
                       fetchOlder, LoadEventsCmd
    <3>2. (\E b \in Nat : load' = [NoLoad EXCEPT !.stage = "sent", !.before = b])
             => load'.stage = "sent"
      BY DEF NoLoad
    <3> QED BY <3>1, <3>2 DEF LatchInFlight
  <2>6. CASE \/ PostEvent \/ LateFrame \/ LeaveCommits \/ JoinCommits
             \/ SelectOtherRoom \/ SendMessageSucceeded \/ LeaveRoomCmd \/ RoomLeft
             \/ UNCHANGED vars
    <3>1. history' = history /\ load' = load
      BY <2>6 DEF PostEvent, LateFrame, LeaveCommits, JoinCommits, SelectOtherRoom,
                  SendMessageSucceeded, LeaveRoomCmd, RoomLeft, vars
    <3> QED BY <3>1 DEF LatchInFlight
  <2> QED BY <2>1, <2>2, <2>3, <2>4, <2>5, <2>6 DEF Next, Answer, Handle
<1> QED BY <1>1, <1>2, PTL DEF Spec
==============================================================================
