--------------------------- MODULE LogSinkProofs ---------------------------
(***************************************************************************)
(* Theorems about LogSink, for any number of lines, batches that overlap   *)
(* and statements that fail.                                               *)
(***************************************************************************)
EXTENDS LogSink, FiniteSetTheorems, TLAPS

-----------------------------------------------------------------------------
(* The inductive invariant.                                                *)

Line  == 1..MaxLines
Rows  == [Kind -> Seq(Line)]
Batch == [rows : Rows, at : Kind \cup {"done"}]

Shape ==
  /\ rows \in Rows /\ \A k \in Kind : Len(rows[k]) < BatchRows
  /\ batches \in Seq(Batch)
  /\ lines \in Nat /\ accepted \subseteq 1..lines
  /\ dropped \in Nat

Lost == accepted \ (Buffered \cup InFlight \cup inserted)

Inv == Shape /\ Cardinality(Lost) <= dropped

-----------------------------------------------------------------------------
(* What batches carry.                                                     *)

FlyingOf(b) ==
  IF b.at = "app" THEN Carried(b.rows)
  ELSE IF b.at = "access" THEN Members(b.rows["access"]) ELSE {}

FlownBy(bs) == UNION {FlyingOf(bs[i]) : i \in DOMAIN bs}

(* A sequence has no more members than places.                             *)
LEMMA MembersBound ==
  ASSUME NEW S, NEW s \in Seq(S)
  PROVE  /\ IsFiniteSet(Members(s))
         /\ Cardinality(Members(s)) \in Nat
         /\ Cardinality(Members(s)) <= Len(s)
<1>1. s \in Surjection(1..Len(s), Members(s))
  BY DEF Surjection, Members
<1>2. ExistsSurjection(1..Len(s), Members(s))
  BY <1>1 DEF ExistsSurjection
<1>3. Len(s) \in Nat
  OBVIOUS
<1>. QED
  BY <1>2, <1>3, FS_NatSurjection, FS_SurjCardinalityBound, FS_CardinalityType

(* A batch carries no more lines than its flush counts when it fails.      *)
LEMMA CountCovers ==
  ASSUME NEW b \in Batch
  PROVE  /\ IsFiniteSet(FlyingOf(b))
         /\ Cardinality(FlyingOf(b)) \in Nat
         /\ Cardinality(FlyingOf(b)) <= FailureCount(b)
         /\ FailureCount(b) \in Nat
<1>. DEFINE M == Members(b.rows["app"])
            N == Members(b.rows["access"])
<1>1. b.rows["app"] \in Seq(Line) /\ b.rows["access"] \in Seq(Line)
  BY DEF Batch, Rows, Kind
<1>2. /\ IsFiniteSet(M) /\ Cardinality(M) \in Nat /\ Cardinality(M) <= Len(b.rows["app"])
      /\ IsFiniteSet(N) /\ Cardinality(N) \in Nat /\ Cardinality(N) <= Len(b.rows["access"])
  BY <1>1, MembersBound
<1>3. /\ IsFiniteSet(M \cup N) /\ IsFiniteSet(M \cap N)
      /\ Cardinality(M \cup N) = Cardinality(M) + Cardinality(N) - Cardinality(M \cap N)
      /\ Cardinality(M \cap N) \in Nat /\ Cardinality(M \cup N) \in Nat
  BY <1>2, FS_Union, FS_Intersection, FS_CardinalityType
<1>4. FailureCount(b) = Len(b.rows["app"]) + Len(b.rows["access"])
  BY DEF FailureCount, Count
<1>5. Len(b.rows["app"]) \in Nat /\ Len(b.rows["access"]) \in Nat
  BY <1>1
<1>6. FlyingOf(b) \in {M \cup N, N, {}}
  BY DEF FlyingOf, Carried
<1>7. IsFiniteSet({}) /\ Cardinality({}) = 0
  BY FS_EmptySet
<1>. DEFINE m == Cardinality(M)
            n == Cardinality(N)
            u == Cardinality(M \cup N)
            c == Cardinality(M \cap N)
            p == Len(b.rows["app"])
            q == Len(b.rows["access"])
<1>8. u <= p + q /\ n <= p + q /\ 0 <= p + q /\ p + q \in Nat
  <2>1. m \in Nat /\ n \in Nat /\ u \in Nat /\ c \in Nat /\ p \in Nat /\ q \in Nat
    BY <1>2, <1>3, <1>5
  <2>2. m <= p /\ n <= q /\ u = m + n - c
    BY <1>2, <1>3
  <2>. HIDE DEF m, n, u, c, p, q
  <2>. QED
    BY <2>1, <2>2
<1>9. /\ IsFiniteSet(FlyingOf(b))
      /\ Cardinality(FlyingOf(b)) \in Nat
      /\ Cardinality(FlyingOf(b)) <= p + q
  <2>. HIDE DEF M, N, p, q
  <2>1. CASE FlyingOf(b) = M \cup N
    BY <2>1, <1>3, <1>8
  <2>2. CASE FlyingOf(b) = N
    BY <2>2, <1>2, <1>8
  <2>3. CASE FlyingOf(b) = {}
    BY <2>3, <1>7, <1>8
  <2>. QED
    BY <1>6, <2>1, <2>2, <2>3
<1>. QED
  BY <1>4, <1>8, <1>9

(* A batch that is appended is carried beside the others.                  *)
LEMMA FlownAppend ==
  ASSUME NEW bs \in Seq(Batch), NEW b \in Batch
  PROVE  FlownBy(Append(bs, b)) = FlownBy(bs) \cup FlyingOf(b)
<1>. DEFINE cs == Append(bs, b)
<1>1. /\ DOMAIN cs = 1..(Len(bs) + 1) /\ DOMAIN bs = 1..Len(bs) /\ Len(bs) \in Nat
      /\ \A i \in 1..Len(bs) : cs[i] = bs[i]
      /\ cs[Len(bs) + 1] = b
  OBVIOUS
<1>. HIDE DEF cs
<1>2. \A i \in DOMAIN cs : i \in DOMAIN bs \/ i = Len(bs) + 1
  BY <1>1
<1>3. DOMAIN bs \subseteq DOMAIN cs /\ Len(bs) + 1 \in DOMAIN cs
  BY <1>1
<1>. QED
  BY <1>1, <1>2, <1>3 DEF FlownBy, cs

(* A batch that moves on: what is not carried any more was its own.        *)
LEMMA FlownExcept ==
  ASSUME NEW bs \in Seq(Batch), NEW i \in DOMAIN bs, NEW b,
         NEW cs, cs = [bs EXCEPT ![i] = b]
  PROVE  /\ FlownBy(bs) \subseteq FlownBy(cs) \cup FlyingOf(bs[i])
         /\ FlyingOf(b) \subseteq FlownBy(cs)
<1>1. /\ DOMAIN cs = DOMAIN bs /\ \A j \in DOMAIN bs : j # i => cs[j] = bs[j]
      /\ cs[i] = b
  OBVIOUS
<1>. QED
  BY <1>1 DEF FlownBy

-----------------------------------------------------------------------------
(* How the count follows.                                                  *)

(* The set of lines that were lost is finite.                              *)
LEMMA LostFinite ==
  ASSUME Shape
  PROVE  IsFiniteSet(Lost) /\ Cardinality(Lost) \in Nat
<1>1. IsFiniteSet(1..lines)
  BY FS_Interval DEF Shape
<1>2. Lost \subseteq 1..lines
  BY DEF Shape, Lost
<1>. QED
  BY <1>1, <1>2, FS_Subset, FS_CardinalityType

(* A step that loses nothing keeps the count sufficient.                   *)
LEMMA NothingLost ==
  ASSUME Inv, Shape', Lost' \subseteq Lost, dropped' >= dropped
  PROVE  Inv'
<1>1. Cardinality(Lost') <= Cardinality(Lost)
  BY LostFinite, FS_Subset DEF Inv
<1>2. IsFiniteSet(Lost') /\ Cardinality(Lost') \in Nat
  BY <1>1, LostFinite, FS_Subset, FS_CardinalityType DEF Inv
<1>. QED
  BY <1>1, <1>2, LostFinite DEF Inv, Shape

(* So does one that counts what it loses.                                  *)
LEMMA LossCounted ==
  ASSUME Inv, Shape', NEW F, IsFiniteSet(F), NEW n \in Nat, Cardinality(F) <= n,
         Lost' \subseteq Lost \cup F, dropped' = dropped + n
  PROVE  Inv'
<1>1. IsFiniteSet(Lost) /\ Cardinality(Lost) \in Nat /\ Cardinality(F) \in Nat
  BY LostFinite, FS_CardinalityType DEF Inv
<1>2. /\ IsFiniteSet(Lost \cup F)
      /\ Cardinality(Lost \cup F) = Cardinality(Lost) + Cardinality(F) - Cardinality(Lost \cap F)
      /\ Cardinality(Lost \cap F) \in Nat
  BY <1>1, FS_Union, FS_Intersection, FS_CardinalityType
<1>3. IsFiniteSet(Lost') /\ Cardinality(Lost') <= Cardinality(Lost \cup F)
  BY <1>2, FS_Subset
<1>4. Cardinality(Lost') \in Nat /\ Cardinality(Lost \cup F) \in Nat
  BY <1>2, <1>3, FS_CardinalityType
<1>5. Cardinality(Lost) <= dropped /\ dropped \in Nat
  BY DEF Inv, Shape
<1>. QED
  BY <1>1, <1>2, <1>3, <1>4, <1>5 DEF Inv

-----------------------------------------------------------------------------
(* The actions.                                                            *)

(* What the model calls in flight is what its batches carry.               *)
LEMMA InFlightIsFlown ==
  /\ InFlight = FlownBy(batches)
  /\ InFlight' = FlownBy(batches')
  BY DEF InFlight, Flying, FlownBy, FlyingOf

(* No buffers are empty buffers.                                           *)
LEMMA EmptyRows ==
  /\ Empty \in Rows /\ Carried(Empty) = {}
  /\ \A k \in Kind : Len(Empty[k]) < BatchRows
<1>1. Empty["app"] = <<>> /\ Empty["access"] = <<>> /\ Empty \in Rows
  BY DEF Empty, Kind, Rows
<1>2. Members(<<>>) = {}
  BY DEF Members
<1>. QED
  BY <1>1, <1>2, SinkAssumption DEF Carried, Kind

(* An exchange of the buffers puts every line on its way.                  *)
LEMMA SwapCarries ==
  ASSUME NEW r \in Rows, Shape, Swap(r)
  PROVE  /\ batches' \in Seq(Batch)
         /\ rows' \in Rows /\ \A k \in Kind : Len(rows'[k]) < BatchRows
         /\ Carried(r) \cup InFlight \subseteq InFlight'
<1>1. rows' = Empty
  BY DEF Swap
<1>2. CASE r = Empty
  <2>1. batches' = batches
    BY <1>2 DEF Swap
  <2>. QED
    BY <1>1, <1>2, <2>1, EmptyRows, InFlightIsFlown DEF Shape
<1>3. CASE r # Empty
  <2>. DEFINE b == [rows |-> r, at |-> At(r)]
  <2>1. batches' = Append(batches, b)
    BY <1>3 DEF Swap
  <2>2. b \in Batch
    BY DEF Batch, At, Kind
  <2>3. batches \in Seq(Batch)
    BY DEF Shape
  <2>4. batches' \in Seq(Batch)
    BY <2>1, <2>2, <2>3
  <2>5. FlyingOf(b) = Carried(r)
    <3>1. CASE r["app"] # <<>>
      BY <3>1 DEF FlyingOf, At
    <3>2. CASE r["app"] = <<>>
      <4>1. Members(r["app"]) = {}
        BY <3>2 DEF Members
      <4>. QED
        BY <3>2, <4>1 DEF FlyingOf, At, Carried
    <3>. QED
      BY <3>1, <3>2
  <2>6. InFlight' = InFlight \cup Carried(r)
    BY <2>1, <2>2, <2>3, <2>5, FlownAppend, InFlightIsFlown
  <2>. QED
    BY <1>1, <2>4, <2>6, EmptyRows
<1>. QED
  BY <1>2, <1>3

(* A line that joins a buffer is in it, and so are those before it.        *)
LEMMA AppendMembers ==
  ASSUME NEW s \in Seq(Line), NEW e \in Line
  PROVE  /\ Append(s, e) \in Seq(Line)
         /\ Members(s) \cup {e} \subseteq Members(Append(s, e))
         /\ Len(Append(s, e)) = Len(s) + 1
<1>. DEFINE t == Append(s, e)
<1>1. /\ t \in Seq(Line) /\ Len(t) = Len(s) + 1 /\ Len(s) \in Nat
      /\ DOMAIN t = 1..(Len(s) + 1) /\ DOMAIN s = 1..Len(s)
      /\ \A i \in 1..Len(s) : t[i] = s[i]
      /\ t[Len(s) + 1] = e
  OBVIOUS
<1>. HIDE DEF t
<1>2. \A i \in DOMAIN s : i \in DOMAIN t /\ t[i] = s[i]
  BY <1>1
<1>3. Len(s) + 1 \in DOMAIN t
  BY <1>1
<1>. QED
  BY <1>1, <1>2, <1>3 DEF Members, t

(* A buffered line is in a buffer or on its way.                           *)
LEMMA PushInv ==
  ASSUME Inv, NEW k \in Kind, Push(k)
  PROVE  Inv'
<1>. DEFINE r == [rows EXCEPT ![k] = Append(rows[k], lines + 1)]
<1>1. /\ rows \in Rows /\ rows[k] \in Seq(Line) /\ Len(rows[k]) < BatchRows
      /\ Len(rows[k]) \in Nat
  BY DEF Inv, Shape, Rows
<1>2. Shifted(rows[k]) = rows[k]
  BY <1>1, SinkAssumption DEF Shifted
<1>3. lines \in Nat /\ lines' = lines + 1 /\ lines + 1 \in Line /\ dropped \in Nat
  BY SinkAssumption DEF Inv, Shape, Push, Line
<1>4. dropped' = dropped
  <2>1. dropped' = dropped + Len(rows[k]) - Len(rows[k])
    BY <1>2 DEF Push
  <2>. QED
    BY <2>1, <1>1, <1>3
<1>5. /\ accepted' = accepted \cup {lines + 1} /\ inserted' = inserted
      /\ IF Full(r[k]) THEN Swap(r) ELSE rows' = r /\ UNCHANGED batches
  BY <1>2 DEF Push
<1>6. accepted' \subseteq 1..lines'
  BY <1>3, <1>5 DEF Inv, Shape
<1>7. /\ Append(rows[k], lines + 1) \in Seq(Line)
      /\ Members(rows[k]) \cup {lines + 1} \subseteq Members(Append(rows[k], lines + 1))
      /\ Len(Append(rows[k], lines + 1)) = Len(rows[k]) + 1
  BY <1>1, <1>3, AppendMembers
<1>8. /\ r \in Rows /\ r[k] = Append(rows[k], lines + 1)
      /\ \A j \in Kind : j # k => r[j] = rows[j]
  BY <1>1, <1>7 DEF Rows
<1>9. Carried(rows) \cup {lines + 1} \subseteq Carried(r)
  <2>1. \A j \in Kind : Members(rows[j]) \subseteq Members(r[j])
    BY <1>7, <1>8
  <2>2. lines + 1 \in Members(r[k])
    BY <1>7, <1>8
  <2>. QED
    BY <2>1, <2>2 DEF Carried, Kind
<1>. HIDE DEF r
<1>10. CASE Full(r[k])
  <2>1. /\ batches' \in Seq(Batch)
        /\ rows' \in Rows /\ \A j \in Kind : Len(rows'[j]) < BatchRows
        /\ Carried(r) \cup InFlight \subseteq InFlight'
    BY <1>5, <1>8, <1>10, SwapCarries DEF Inv
  <2>2. Shape'
    BY <2>1, <1>3, <1>4, <1>6 DEF Shape
  <2>3. Lost' \subseteq Lost
    BY <2>1, <1>5, <1>9 DEF Lost, Buffered
  <2>. QED
    BY <2>2, <2>3, <1>3, <1>4, NothingLost
<1>11. CASE ~Full(r[k])
  <2>1. rows' = r /\ batches' = batches
    BY <1>5, <1>11
  <2>2. \A j \in Kind : Len(r[j]) < BatchRows
    <3>1. Len(r[k]) < BatchRows
      BY <1>1, <1>7, <1>8, <1>11, SinkAssumption DEF Full
    <3>2. \A j \in Kind : Len(rows[j]) < BatchRows
      BY DEF Inv, Shape
    <3>. QED
      BY <3>1, <3>2, <1>8
  <2>3. Shape'
    BY <2>1, <2>2, <1>3, <1>4, <1>6, <1>8 DEF Inv, Shape
  <2>4. InFlight' = InFlight
    BY <2>1, InFlightIsFlown
  <2>5. Lost' \subseteq Lost
    BY <2>1, <2>4, <1>5, <1>9 DEF Lost, Buffered
  <2>. QED
    BY <2>3, <2>5, <1>3, <1>4, NothingLost
<1>. QED
  BY <1>10, <1>11

(* Close and the timer exchange the buffers and do no more.                *)
LEMMA SwapInv ==
  ASSUME Inv, Swap(rows), UNCHANGED <<inserted, dropped, lines, accepted>>
  PROVE  Inv'
<1>1. rows \in Rows /\ dropped \in Nat
  BY DEF Inv, Shape
<1>2. /\ batches' \in Seq(Batch)
      /\ rows' \in Rows /\ \A j \in Kind : Len(rows'[j]) < BatchRows
      /\ Carried(rows) \cup InFlight \subseteq InFlight'
  BY <1>1, SwapCarries DEF Inv
<1>3. Shape'
  BY <1>2 DEF Inv, Shape
<1>4. Lost' \subseteq Lost
  BY <1>2 DEF Lost, Buffered
<1>. QED
  BY <1>1, <1>3, <1>4, NothingLost

(* A statement that succeeds: the lines the batch carries no more are in.  *)
LEMMA InsertedInv ==
  ASSUME Inv, NEW i \in DOMAIN batches, Inserted(i)
  PROVE  Inv'
<1>. DEFINE old == batches[i]
            to == IF old.at = "app" /\ old.rows["access"] # <<>> THEN "access" ELSE "done"
            new == [old EXCEPT !.at = to]
<1>1. batches \in Seq(Batch) /\ old \in Batch /\ dropped \in Nat
  BY DEF Inv, Shape
<1>2. /\ batches' = [batches EXCEPT ![i] = new]
      /\ inserted' = inserted \cup Members(old.rows[old.at])
      /\ old.at \in Kind
      /\ UNCHANGED <<rows, dropped, lines, accepted>>
  BY DEF Inserted
<1>3. new \in Batch /\ new.rows = old.rows /\ new.at = to
  BY <1>1 DEF Batch, Kind
<1>4. batches' \in Seq(Batch)
  BY <1>1, <1>2, <1>3
<1>5. Shape'
  BY <1>2, <1>4 DEF Inv, Shape
<1>6. FlyingOf(old) \subseteq Members(old.rows[old.at]) \cup FlyingOf(new)
  <2>1. Members(<<>>) = {}
    BY DEF Members
  <2>. HIDE DEF new
  <2>2. CASE old.at = "access"
    BY <2>2 DEF FlyingOf
  <2>3. CASE old.at = "app" /\ old.rows["access"] # <<>>
    BY <2>3, <1>3 DEF FlyingOf, Carried
  <2>4. CASE old.at = "app" /\ old.rows["access"] = <<>>
    BY <2>1, <2>4 DEF FlyingOf, Carried
  <2>. QED
    BY <2>2, <2>3, <2>4, <1>2 DEF Kind
<1>. HIDE DEF new
<1>7. InFlight \subseteq InFlight' \cup Members(old.rows[old.at])
  <2>. HIDE DEF old
  <2>1. /\ FlownBy(batches) \subseteq FlownBy(batches') \cup FlyingOf(batches[i])
        /\ FlyingOf(new) \subseteq FlownBy(batches')
    BY <1>1, <1>2, FlownExcept
  <2>2. old = batches[i]
    BY DEF old
  <2>. QED
    BY <2>1, <2>2, <1>6, InFlightIsFlown
<1>8. Lost' \subseteq Lost
  BY <1>2, <1>7 DEF Lost, Buffered
<1>. QED
  BY <1>1, <1>2, <1>5, <1>8, NothingLost

(* A statement that fails counts all that its batch carried.               *)
LEMMA FailedInv ==
  ASSUME Inv, NEW i \in DOMAIN batches, Failed(i)
  PROVE  Inv'
<1>. DEFINE old == batches[i]
            new == [old EXCEPT !.at = "done"]
<1>1. batches \in Seq(Batch) /\ old \in Batch /\ dropped \in Nat
  BY DEF Inv, Shape
<1>2. /\ batches' = [batches EXCEPT ![i] = new]
      /\ dropped' = dropped + FailureCount(old)
      /\ UNCHANGED <<rows, inserted, lines, accepted>>
  BY DEF Failed
<1>3. new \in Batch
  BY <1>1 DEF Batch, Kind
<1>4. batches' \in Seq(Batch)
  BY <1>1, <1>2, <1>3
<1>5. /\ IsFiniteSet(FlyingOf(old)) /\ FailureCount(old) \in Nat
      /\ Cardinality(FlyingOf(old)) <= FailureCount(old)
  BY <1>1, CountCovers
<1>6. dropped' \in Nat
  BY <1>1, <1>2, <1>5
<1>7. Shape'
  BY <1>2, <1>4, <1>6 DEF Inv, Shape
<1>. HIDE DEF new
<1>8. InFlight \subseteq InFlight' \cup FlyingOf(old)
  <2>. HIDE DEF old
  <2>1. /\ FlownBy(batches) \subseteq FlownBy(batches') \cup FlyingOf(batches[i])
        /\ FlyingOf(new) \subseteq FlownBy(batches')
    BY <1>1, <1>2, FlownExcept
  <2>2. old = batches[i]
    BY DEF old
  <2>. QED
    BY <2>1, <2>2, InFlightIsFlown
<1>9. Lost' \subseteq Lost \cup FlyingOf(old)
  BY <1>2, <1>8 DEF Lost, Buffered
<1>. QED
  BY <1>2, <1>5, <1>7, <1>9, LossCounted

(* A step that touches no buffer and no batch.                             *)
LEMMA IdleInv ==
  ASSUME Inv, UNCHANGED <<rows, batches, inserted, accepted>>,
         lines' \in Nat, lines' >= lines, dropped' \in Nat, dropped' >= dropped
  PROVE  Inv'
<1>1. accepted' \subseteq 1..lines'
  BY DEF Inv, Shape
<1>2. Shape'
  BY <1>1 DEF Inv, Shape
<1>3. Lost' = Lost
  BY InFlightIsFlown DEF Lost, Buffered
<1>. QED
  BY <1>2, <1>3, NothingLost

-----------------------------------------------------------------------------
(* The invariant.                                                          *)

(* Inv holds at first.                                                     *)
LEMMA InitInv == Init => Inv
<1>. SUFFICES ASSUME Init PROVE Inv
  OBVIOUS
<1>1. rows \in Rows /\ \A k \in Kind : Len(rows[k]) < BatchRows
  BY EmptyRows DEF Init
<1>2. batches \in Seq(Batch) /\ lines \in Nat /\ accepted = {} /\ dropped = 0
  BY DEF Init
<1>3. Lost = {}
  BY <1>2 DEF Lost
<1>. QED
  BY <1>1, <1>2, <1>3, FS_EmptySet DEF Inv, Shape

(* Each step keeps it.                                                     *)
LEMMA NextInv == Inv /\ [Next]_vars => Inv'
<1>. SUFFICES ASSUME Inv, [Next]_vars PROVE Inv'
  OBVIOUS
<1>0. lines \in Nat /\ dropped \in Nat
  BY DEF Inv, Shape
<1>1. CASE Malformed
  <2>1. /\ lines' = lines + 1 /\ dropped' = dropped + 1
        /\ UNCHANGED <<rows, batches, inserted, accepted>>
    BY <1>1 DEF Malformed
  <2>2. lines' \in Nat /\ lines' >= lines /\ dropped' \in Nat /\ dropped' >= dropped
    BY <2>1, <1>0
  <2>. QED
    BY <2>1, <2>2, IdleInv
<1>2. CASE PushLate
  <2>1. /\ lines' = lines + 1 /\ dropped' = dropped
        /\ UNCHANGED <<rows, batches, inserted, accepted>>
    BY <1>2 DEF PushLate
  <2>2. lines' \in Nat /\ lines' >= lines /\ dropped' \in Nat /\ dropped' >= dropped
    BY <2>1, <1>0
  <2>. QED
    BY <2>1, <2>2, IdleInv
<1>3. CASE TimerFires
  BY <1>3, SwapInv DEF TimerFires
<1>4. CASE Close
  BY <1>4, SwapInv DEF Close
<1>5. CASE End \/ Exit \/ UNCHANGED vars
  <2>1. UNCHANGED <<rows, batches, inserted, accepted>> /\ UNCHANGED <<lines, dropped>>
    BY <1>5 DEF End, Exit, vars
  <2>2. lines' \in Nat /\ lines' >= lines /\ dropped' \in Nat /\ dropped' >= dropped
    BY <2>1, <1>0
  <2>. QED
    BY <2>1, <2>2, IdleInv
<1>6. ASSUME NEW k \in Kind, Push(k) PROVE Inv'
  BY <1>6, PushInv
<1>7. ASSUME NEW i \in DOMAIN batches, Answer(i) PROVE Inv'
  BY <1>7, InsertedInv, FailedInv DEF Answer
<1>. QED
  BY <1>1, <1>2, <1>3, <1>4, <1>5, <1>6, <1>7 DEF Next

(* The counter of dropped lines never falls behind what is lost, however   *)
(* many flushes of db-sink.ts overlap and whichever statement fails.       *)
THEOREM LossIsCounted == Spec => []CountCoversLoss
<1>1. Inv => CountCoversLoss
  BY DEF Inv, Lost, CountCoversLoss
<1>. QED
  BY <1>1, InitInv, NextInv, PTL DEF Spec

-----------------------------------------------------------------------------
(* The shape of the sink.  That the count stays below the number of lines  *)
(* needs that no line is counted twice: a line is in one place of one      *)
(* buffer or of one batch, and a line that is still in one has not been    *)
(* counted.                                                                *)

NoRepeat(s) == \A i, j \in DOMAIN s : s[i] = s[j] => i = j

Apart(r) ==
  /\ \A k \in Kind : NoRepeat(r[k])
  /\ Members(r["app"]) \cap Members(r["access"]) = {}

Kept(r, bs, lns) ==
  /\ Apart(r) /\ Carried(r) \subseteq lns
  /\ \A i \in DOMAIN bs :
       /\ Apart(bs[i].rows) /\ Carried(bs[i].rows) \subseteq lns /\ bs[i].rows # Empty
       /\ Carried(bs[i].rows) \cap Carried(r) = {}
  /\ \A i, j \in DOMAIN bs : i # j => Carried(bs[i].rows) \cap Carried(bs[j].rows) = {}

PendingOf(b)   == IF b.at = "done" THEN {} ELSE Carried(b.rows)
Pending(bs)    == UNION {PendingOf(bs[i]) : i \in DOMAIN bs}
Settled(r, bs, n) == (1..n) \ (Carried(r) \cup Pending(bs))

Tidy ==
  /\ timer \in BOOLEAN /\ closing \in {"open", "flushing", "ending", "exited"}
  /\ own \in 0..Len(batches)
  /\ lines <= MaxLines
  /\ inserted \subseteq accepted
  /\ Kept(rows, batches, accepted)
  /\ dropped <= Cardinality(Settled(rows, batches, lines))

(* A sequence without repetitions has a member for every place.            *)
LEMMA MembersCount ==
  ASSUME NEW S, NEW s \in Seq(S), NoRepeat(s)
  PROVE  IsFiniteSet(Members(s)) /\ Cardinality(Members(s)) = Len(s)
<1>1. DOMAIN s = 1..Len(s) /\ Len(s) \in Nat
  OBVIOUS
<1>2. s \in Bijection(1..Len(s), Members(s))
  BY <1>1 DEF Bijection, Injection, Surjection, IsInjective, Members, NoRepeat
<1>3. ExistsBijection(1..Len(s), Members(s))
  BY <1>2 DEF ExistsBijection
<1>. QED
  BY <1>1, <1>3, FS_CountingElements, MembersBound

(* Rows that are apart hold as many lines as are counted.                  *)
LEMMA ApartCount ==
  ASSUME NEW r \in Rows, Apart(r)
  PROVE  /\ IsFiniteSet(Carried(r)) /\ Cardinality(Carried(r)) = Count(r)
         /\ Count(r) \in Nat
         /\ r # Empty => Count(r) > 0
<1>. DEFINE M == Members(r["app"])
            N == Members(r["access"])
<1>1. r["app"] \in Seq(Line) /\ r["access"] \in Seq(Line)
  BY DEF Rows, Kind
<1>2. /\ IsFiniteSet(M) /\ Cardinality(M) = Len(r["app"])
      /\ IsFiniteSet(N) /\ Cardinality(N) = Len(r["access"])
  BY <1>1, MembersCount DEF Apart, Kind
<1>3. M \cap N = {} /\ Cardinality({}) = 0
  BY FS_EmptySet DEF Apart
<1>4. Len(r["app"]) \in Nat /\ Len(r["access"]) \in Nat
  BY <1>1
<1>5. /\ IsFiniteSet(M \cup N)
      /\ Cardinality(M \cup N) = Cardinality(M) + Cardinality(N) - Cardinality(M \cap N)
  BY <1>2, FS_Union
<1>6. Cardinality(M \cap N) = 0
  BY <1>3, SMTT(30)
<1>. HIDE DEF M, N
<1>7. Cardinality(M \cup N) = Len(r["app"]) + Len(r["access"])
  BY <1>2, <1>4, <1>5, <1>6
<1>. DEFINE p == Len(r["app"])
            q == Len(r["access"])
<1>8. p \in Nat /\ q \in Nat
  BY <1>4
<1>9. ASSUME r # Empty PROVE p # 0 \/ q # 0
  <2>1. \E k \in Kind : r[k] # <<>>
    BY <1>9 DEF Rows, Empty
  <2>2. r["app"] # <<>> \/ r["access"] # <<>>
    BY <2>1 DEF Kind
  <2>. QED
    BY <1>1, <2>2
<1>10. Carried(r) = M \cup N /\ Count(r) = p + q
  BY DEF Carried, Count, M, N
<1>11. Cardinality(M \cup N) = p + q
  BY <1>7
<1>. HIDE DEF p, q
<1>12. p + q \in Nat /\ (r # Empty => p + q > 0)
  BY <1>8, <1>9
<1>. QED
  BY <1>5, <1>10, <1>11, <1>12

(* A line that is nowhere yet joins a buffer.                              *)
LEMMA JoinsApart ==
  ASSUME NEW r \in Rows, Apart(r), NEW l \in Line, l \notin Carried(r), NEW k \in Kind,
         NEW q, q = [r EXCEPT ![k] = Append(r[k], l)]
  PROVE  q \in Rows /\ Apart(q) /\ Carried(q) = Carried(r) \cup {l}
<1>1. r[k] \in Seq(Line) /\ l \notin Members(r[k])
  BY DEF Rows, Carried, Kind
<1>. DEFINE t == Append(r[k], l)
<1>2. /\ t \in Seq(Line) /\ Len(t) = Len(r[k]) + 1 /\ Len(r[k]) \in Nat
      /\ DOMAIN t = 1..(Len(r[k]) + 1) /\ DOMAIN r[k] = 1..Len(r[k])
      /\ \A i \in 1..Len(r[k]) : t[i] = r[k][i]
      /\ t[Len(r[k]) + 1] = l
  BY <1>1
<1>3. /\ q \in Rows /\ q[k] = t
      /\ \A j \in Kind : j # k => q[j] = r[j]
  BY <1>2 DEF Rows
<1>. HIDE DEF t
<1>4. Members(t) = Members(r[k]) \cup {l}
  <2>1. \A i \in DOMAIN t : i \in DOMAIN r[k] \/ i = Len(r[k]) + 1
    BY <1>2
  <2>2. DOMAIN r[k] \subseteq DOMAIN t /\ Len(r[k]) + 1 \in DOMAIN t
    BY <1>2
  <2>. QED
    BY <1>2, <2>1, <2>2 DEF Members
<1>5. NoRepeat(t)
  <2>. SUFFICES ASSUME NEW i \in DOMAIN t, NEW j \in DOMAIN t, t[i] = t[j] PROVE i = j
    BY DEF NoRepeat
  <2>0. \A m \in DOMAIN r[k] : r[k][m] # l
    BY <1>1 DEF Members
  <2>1. \A m \in DOMAIN t : \/ m \in DOMAIN r[k] /\ t[m] = r[k][m] /\ t[m] # l
                            \/ m = Len(r[k]) + 1 /\ t[m] = l
    BY <1>2, <2>0
  <2>2. NoRepeat(r[k])
    BY DEF Apart
  <2>. QED
    BY <2>1, <2>2 DEF NoRepeat
<1>6. Apart(q)
  BY <1>3, <1>4, <1>5 DEF Apart, Kind, Carried
<1>7. Carried(q) = Carried(r) \cup {l}
  BY <1>3, <1>4 DEF Carried, Kind
<1>. QED
  BY <1>3, <1>6, <1>7

(* Nothing is in empty buffers.                                            *)
LEMMA EmptyApart == Apart(Empty) /\ Carried(Empty) = {}
<1>1. Empty["app"] = <<>> /\ Empty["access"] = <<>> /\ \A k \in Kind : Empty[k] = <<>>
  BY DEF Empty, Kind
<1>2. Members(<<>>) = {} /\ NoRepeat(<<>>)
  BY DEF Members, NoRepeat
<1>. QED
  BY <1>1, <1>2 DEF Apart, Carried

(* An exchange of the buffers moves their lines to a batch of their own.   *)
LEMMA SwapKept ==
  ASSUME NEW r \in Rows, NEW lns, batches \in Seq(Batch), Kept(r, batches, lns), Swap(r)
  PROVE  /\ Kept(rows', batches', lns)
         /\ Carried(rows') \cup Pending(batches') = Carried(r) \cup Pending(batches)
         /\ Len(batches') \in Nat /\ Len(batches') >= Len(batches)
<1>1. rows' = Empty
  BY DEF Swap
<1>2. CASE r = Empty
  <2>1. batches' = batches
    BY <1>2 DEF Swap
  <2>. QED
    BY <1>1, <1>2, <2>1
<1>3. CASE r # Empty
  <2>. DEFINE b == [rows |-> r, at |-> At(r)]
              n == Len(batches)
  <2>1. batches' = Append(batches, b)
    BY <1>3 DEF Swap
  <2>2. /\ DOMAIN batches = 1..n /\ n \in Nat
        /\ DOMAIN batches' = 1..(n + 1) /\ Len(batches') = n + 1
        /\ \A i \in 1..n : batches'[i] = batches[i]
        /\ batches'[n + 1] = b
    BY <2>1
  <2>3. b.rows = r /\ PendingOf(b) = Carried(r)
    BY DEF PendingOf, At
  <2>. HIDE DEF b, n
  <2>4. \A i \in DOMAIN batches' :
          \/ i \in DOMAIN batches /\ batches'[i] = batches[i]
          \/ i = n + 1 /\ batches'[i] = b
    BY <2>2
  <2>5. DOMAIN batches \subseteq DOMAIN batches' /\ n + 1 \in DOMAIN batches'
    BY <2>2
  <2>6. Kept(Empty, batches', lns)
    <3>1. Apart(Empty) /\ Carried(Empty) = {}
      BY EmptyApart
    <3>2. \A i \in DOMAIN batches' :
            /\ Apart(batches'[i].rows) /\ Carried(batches'[i].rows) \subseteq lns
            /\ batches'[i].rows # Empty
      BY <1>3, <2>3, <2>4 DEF Kept
    <3>3. \A i, j \in DOMAIN batches' :
            i # j => Carried(batches'[i].rows) \cap Carried(batches'[j].rows) = {}
      BY <2>3, <2>4 DEF Kept
    <3>. QED
      BY <3>1, <3>2, <3>3 DEF Kept
  <2>7. Pending(batches') = Pending(batches) \cup Carried(r)
    <3>1. \A i \in DOMAIN batches : PendingOf(batches'[i]) = PendingOf(batches[i])
      BY <2>2
    <3>2. PendingOf(batches'[n + 1]) = Carried(r)
      BY <2>2, <2>3
    <3>3. \A i \in DOMAIN batches' : i \in DOMAIN batches \/ i = n + 1
      BY <2>4
    <3>. QED
      BY <2>5, <3>1, <3>2, <3>3 DEF Pending
  <2>8. Len(batches') \in Nat /\ Len(batches') >= Len(batches)
    BY <2>2 DEF n
  <2>. QED
    BY <1>1, <2>6, <2>7, <2>8, EmptyApart
<1>. QED
  BY <1>2, <1>3

(* Lines that are settled stay within the lines there are.                 *)
LEMMA SettledFinite ==
  ASSUME NEW r, NEW bs, NEW n \in Nat
  PROVE  /\ IsFiniteSet(Settled(r, bs, n)) /\ Cardinality(Settled(r, bs, n)) \in Nat
         /\ Cardinality(Settled(r, bs, n)) <= n
<1>1. IsFiniteSet(1..n) /\ Cardinality(1..n) = n
  BY FS_Interval
<1>2. Settled(r, bs, n) \subseteq 1..n
  BY DEF Settled
<1>. QED
  BY <1>1, <1>2, FS_Subset, FS_CardinalityType

(* A batch that moves on keeps its lines.                                  *)
LEMMA KeptByAnswer ==
  ASSUME NEW r, NEW lns, NEW bs, NEW i \in DOMAIN bs, NEW b, b.rows = bs[i].rows,
         NEW cs, cs = [bs EXCEPT ![i] = b], Kept(r, bs, lns)
  PROVE  Kept(r, cs, lns)
<1>1. DOMAIN cs = DOMAIN bs /\ \A j \in DOMAIN bs : cs[j].rows = bs[j].rows
  OBVIOUS
<1>. QED
  BY <1>1 DEF Kept

(* What it waits for is no more than before.                               *)
LEMMA PendingByAnswer ==
  ASSUME NEW bs, NEW i \in DOMAIN bs, NEW b, b.rows = bs[i].rows, bs[i].at # "done",
         NEW cs, cs = [bs EXCEPT ![i] = b]
  PROVE  Pending(cs) \subseteq Pending(bs)
<1>1. /\ DOMAIN cs = DOMAIN bs /\ cs[i] = b
      /\ \A j \in DOMAIN bs : j # i => cs[j] = bs[j]
  OBVIOUS
<1>2. PendingOf(bs[i]) = Carried(bs[i].rows) /\ PendingOf(b) \subseteq Carried(bs[i].rows)
  BY DEF PendingOf
<1>. QED
  BY <1>1, <1>2 DEF Pending

(* Batches that wait for some lines less, and for no others.               *)
GivesUp(bs, cs, gone) == Pending(bs) = Pending(cs) \cup gone /\ Pending(cs) \cap gone = {}

(* One that is done waits for nothing any more.                            *)
LEMMA PendingWhenDone ==
  ASSUME NEW r, NEW lns, NEW bs, NEW i \in DOMAIN bs, NEW b,
         b.at = "done", bs[i].at # "done",
         NEW cs, cs = [bs EXCEPT ![i] = b], Kept(r, bs, lns),
         NEW gone, gone = Carried(bs[i].rows)
  PROVE  GivesUp(bs, cs, gone)
<1>1. /\ DOMAIN cs = DOMAIN bs /\ cs[i] = b
      /\ \A j \in DOMAIN bs : j # i => cs[j] = bs[j]
  OBVIOUS
<1>2. PendingOf(bs[i]) = gone /\ PendingOf(b) = {}
  BY DEF PendingOf
<1>3. \A j \in DOMAIN bs : j # i => PendingOf(bs[j]) \cap gone = {}
  BY DEF Kept, PendingOf
<1>4. Pending(cs) \cap gone = {}
  BY <1>1, <1>2, <1>3 DEF Pending
<1>5. Pending(bs) = Pending(cs) \cup gone
  BY <1>1, <1>2 DEF Pending
<1>. QED
  BY <1>4, <1>5 DEF GivesUp

(* What waits is among the lines there are.                                *)
LEMMA WaitingIsPast ==
  ASSUME NEW r, NEW bs, NEW lns, Kept(r, bs, lns)
  PROVE  Carried(r) \subseteq lns /\ Pending(bs) \subseteq lns
BY DEF Kept, Pending, PendingOf

(* A step that settles no line less, and counts none.                      *)
LEMMA SettledGrows ==
  ASSUME Tidy, Inv, lines' \in Nat, dropped' = dropped,
         Settled(rows, batches, lines) \subseteq Settled(rows', batches', lines')
  PROVE  dropped' <= Cardinality(Settled(rows', batches', lines'))
<1>. DEFINE old == Settled(rows, batches, lines)
            new == Settled(rows', batches', lines')
<1>1. IsFiniteSet(new) /\ Cardinality(new) \in Nat /\ Cardinality(old) \in Nat
  BY SettledFinite DEF Inv, Shape
<1>2. Cardinality(old) <= Cardinality(new)
  BY <1>1, FS_Subset
<1>3. dropped <= Cardinality(old) /\ dropped \in Nat
  BY DEF Tidy, Inv, Shape
<1>. HIDE DEF old, new
<1>4. dropped <= Cardinality(new)
  BY <1>1, <1>2, <1>3
<1>. QED
  BY <1>4 DEF new

(* A line that is buffered.                                                *)
LEMMA PushTidy ==
  ASSUME Inv, Tidy, NEW k \in Kind, Push(k)
  PROVE  Tidy'
<1>. DEFINE l == lines + 1
            r == [rows EXCEPT ![k] = Append(rows[k], l)]
<1>1. /\ rows \in Rows /\ rows[k] \in Seq(Line) /\ Len(rows[k]) < BatchRows
      /\ Len(rows[k]) \in Nat /\ batches \in Seq(Batch)
      /\ accepted \subseteq 1..lines /\ lines \in Nat /\ dropped \in Nat
  BY DEF Inv, Shape, Rows
<1>2. Shifted(rows[k]) = rows[k]
  BY <1>1, SinkAssumption DEF Shifted
<1>3. lines' = l /\ l \in Line /\ l \notin 1..lines /\ 1..l = (1..lines) \cup {l}
      /\ l \in Nat /\ l <= MaxLines
  BY <1>1, SinkAssumption DEF Push, Line
<1>4. dropped' = dropped
  <2>1. dropped' = dropped + Len(rows[k]) - Len(rows[k])
    BY <1>2 DEF Push
  <2>. QED
    BY <2>1, <1>1
<1>5. /\ accepted' = accepted \cup {l} /\ inserted' = inserted
      /\ closing' = closing /\ own' = own
      /\ \/ Full(r[k]) /\ Swap(r)
         \/ rows' = r /\ timer' = TRUE /\ batches' = batches
  BY <1>2 DEF Push
<1>. HIDE DEF l
<1>6. /\ Kept(rows, batches, accepted)
      /\ Carried(rows) \subseteq accepted /\ Pending(batches) \subseteq accepted
  BY WaitingIsPast DEF Tidy
<1>7. r \in Rows /\ Apart(r) /\ Carried(r) = Carried(rows) \cup {l}
  BY <1>1, <1>3, <1>6, JoinsApart DEF Kept
<1>. HIDE DEF r
<1>8. Kept(r, batches, accepted')
  <2>1. \A i \in DOMAIN batches :
          /\ Carried(batches[i].rows) \subseteq accepted
          /\ Carried(batches[i].rows) \cap Carried(rows) = {}
    BY <1>6 DEF Kept
  <2>2. l \notin accepted
    BY <1>1, <1>3
  <2>3. \A i \in DOMAIN batches :
          /\ Carried(batches[i].rows) \subseteq accepted'
          /\ Carried(batches[i].rows) \cap Carried(r) = {}
    BY <2>1, <2>2, <1>5, <1>7
  <2>. QED
    BY <2>3, <1>5, <1>6, <1>7 DEF Kept
<1>9. /\ Kept(rows', batches', accepted')
      /\ Carried(rows') \cup Pending(batches') = Carried(r) \cup Pending(batches)
      /\ Len(batches') \in Nat /\ Len(batches') >= Len(batches)
      /\ timer' \in BOOLEAN
  <2>1. CASE Full(r[k]) /\ Swap(r)
    <3>1. /\ Kept(rows', batches', accepted')
          /\ Carried(rows') \cup Pending(batches') = Carried(r) \cup Pending(batches)
          /\ Len(batches') \in Nat /\ Len(batches') >= Len(batches)
      BY <2>1, <1>1, <1>7, <1>8, SwapKept
    <3>. QED
      BY <3>1, <2>1 DEF Swap
  <2>2. CASE rows' = r /\ timer' = TRUE /\ batches' = batches
    BY <2>2, <1>1, <1>8
  <2>. QED
    BY <2>1, <2>2, <1>5
<1>10. Settled(rows, batches, lines) \subseteq Settled(rows', batches', lines')
  BY <1>3, <1>7, <1>9 DEF Settled
<1>11. dropped' <= Cardinality(Settled(rows', batches', lines'))
  BY <1>3, <1>4, <1>10, SettledGrows
<1>12. own' \in 0..Len(batches')
  BY <1>1, <1>5, <1>9 DEF Tidy
<1>. QED
  BY <1>3, <1>5, <1>9, <1>11, <1>12 DEF Tidy

(* An exchange of the buffers, by the timer or by close().                 *)
LEMMA SwapTidy ==
  ASSUME Inv, Tidy, Swap(rows), UNCHANGED <<inserted, dropped, lines, accepted>>,
         closing' \in {"open", "flushing", "ending", "exited"},
         own' = own \/ own' \in {0, Len(batches')}
  PROVE  Tidy'
<1>1. rows \in Rows /\ batches \in Seq(Batch) /\ lines \in Nat /\ dropped' = dropped
  BY DEF Inv, Shape
<1>2. /\ Kept(rows', batches', accepted)
      /\ Carried(rows') \cup Pending(batches') = Carried(rows) \cup Pending(batches)
      /\ Len(batches') \in Nat /\ Len(batches') >= Len(batches)
  BY <1>1, SwapKept DEF Tidy
<1>3. Settled(rows, batches, lines) \subseteq Settled(rows', batches', lines')
  BY <1>2 DEF Settled
<1>4. dropped' <= Cardinality(Settled(rows', batches', lines'))
  BY <1>1, <1>3, SettledGrows
<1>5. own' \in 0..Len(batches')
  <2>1. own \in 0..Len(batches) /\ Len(batches) \in Nat
    BY <1>1 DEF Tidy
  <2>. QED
    BY <2>1, <1>2
<1>6. timer' \in BOOLEAN
  BY DEF Swap
<1>. QED
  BY <1>2, <1>4, <1>5, <1>6 DEF Tidy

(* A statement that succeeds.                                              *)
LEMMA InsertedTidy ==
  ASSUME Inv, Tidy, NEW i \in DOMAIN batches, Inserted(i)
  PROVE  Tidy'
<1>. DEFINE old == batches[i]
            to == IF old.at = "app" /\ old.rows["access"] # <<>> THEN "access" ELSE "done"
            new == [old EXCEPT !.at = to]
<1>1. batches \in Seq(Batch) /\ old \in Batch /\ lines \in Nat /\ dropped \in Nat
  BY DEF Inv, Shape
<1>2. /\ batches' = [batches EXCEPT ![i] = new]
      /\ inserted' = inserted \cup Members(old.rows[old.at])
      /\ old.at \in Kind
      /\ UNCHANGED <<rows, timer, dropped, closing, lines, own, accepted>>
  BY DEF Inserted
<1>3. new.rows = old.rows /\ old.at # "done"
  BY <1>1, <1>2 DEF Batch, Kind
<1>4. Len(batches') = Len(batches)
  BY <1>1, <1>2
<1>. HIDE DEF new
<1>5. Kept(rows, batches', accepted) /\ Pending(batches') \subseteq Pending(batches)
  BY <1>2, <1>3, KeptByAnswer, PendingByAnswer DEF Tidy
<1>6. inserted' \subseteq accepted'
  <2>1. Members(old.rows[old.at]) \subseteq Carried(old.rows)
    BY <1>2 DEF Carried, Kind
  <2>2. Carried(old.rows) \subseteq accepted
    BY DEF Tidy, Kept
  <2>. QED
    BY <2>1, <2>2, <1>2 DEF Tidy
<1>7. Settled(rows, batches, lines) \subseteq Settled(rows', batches', lines')
  BY <1>2, <1>5 DEF Settled
<1>8. dropped' <= Cardinality(Settled(rows', batches', lines'))
  BY <1>1, <1>2, <1>7, SettledGrows
<1>. QED
  BY <1>2, <1>4, <1>5, <1>6, <1>8 DEF Tidy

(* A statement that fails: the lines of its batch are settled from now on, *)
(* and none of them was before.                                            *)
LEMMA FailedTidy ==
  ASSUME Inv, Tidy, NEW i \in DOMAIN batches, Failed(i)
  PROVE  Tidy'
<1>. DEFINE old == batches[i]
            new == [old EXCEPT !.at = "done"]
            before == Settled(rows, batches, lines)
            after == Settled(rows', batches', lines')
            lost == Carried(old.rows)
<1>1. /\ batches \in Seq(Batch) /\ old \in Batch /\ lines \in Nat /\ dropped \in Nat
      /\ accepted \subseteq 1..lines
  BY DEF Inv, Shape
<1>2. /\ batches' = [batches EXCEPT ![i] = new]
      /\ dropped' = dropped + Count(old.rows)
      /\ old.at \in Kind
      /\ UNCHANGED <<rows, timer, inserted, closing, lines, own, accepted>>
  BY DEF Failed, FailureCount
<1>3. new.rows = old.rows /\ old.at # "done" /\ new.at = "done" /\ old.rows \in Rows
  BY <1>1, <1>2 DEF Batch, Kind
<1>4. Len(batches') = Len(batches)
  BY <1>1, <1>2
<1>. HIDE DEF new
<1>5. /\ Kept(rows, batches', accepted)
      /\ Pending(batches) = Pending(batches') \cup lost
      /\ Pending(batches') \cap lost = {}
  <2>1. Kept(rows, batches, accepted)
    BY DEF Tidy
  <2>2. Kept(rows, batches', accepted)
    BY <2>1, <1>2, <1>3, KeptByAnswer
  <2>3. Pending(batches) = Pending(batches') \cup lost /\ Pending(batches') \cap lost = {}
    <3>1. batches[i].at # "done" /\ new.at = "done" /\ lost = Carried(batches[i].rows)
      BY <1>3
    <3>2. GivesUp(batches, batches', lost)
      BY <2>1, <3>1, <1>2, PendingWhenDone
    <3>. QED
      BY <3>2 DEF GivesUp
  <2>. QED
    BY <2>2, <2>3
<1>6. lost \cap Carried(rows) = {} /\ lost \subseteq accepted /\ Apart(old.rows)
  BY DEF Tidy, Kept
<1>7. after = before \cup lost /\ before \cap lost = {}
  BY <1>1, <1>2, <1>5, <1>6 DEF Settled
<1>8. /\ IsFiniteSet(lost) /\ Cardinality(lost) = Count(old.rows) /\ Count(old.rows) \in Nat
      /\ IsFiniteSet(before) /\ Cardinality(before) \in Nat
  BY <1>1, <1>3, <1>6, ApartCount, SettledFinite
<1>9. dropped <= Cardinality(before)
  BY DEF Tidy
<1>. HIDE DEF before, after, lost
<1>10. Cardinality(after) = Cardinality(before) + Cardinality(lost)
  <2>1. Cardinality(after) = Cardinality(before) + Cardinality(lost) - Cardinality(before \cap lost)
    BY <1>7, <1>8, FS_Union
  <2>2. Cardinality(before \cap lost) = 0
    BY <1>7, FS_EmptySet
  <2>. QED
    BY <2>1, <2>2, <1>8
<1>11. dropped' <= Cardinality(after)
  BY <1>1, <1>2, <1>8, <1>9, <1>10
<1>12. dropped' <= Cardinality(Settled(rows', batches', lines'))
  BY <1>11 DEF after
<1>. QED
  BY <1>2, <1>4, <1>5, <1>12 DEF Tidy

(* A line that is lost at once is settled at once.                         *)
LEMMA LateTidy ==
  ASSUME Inv, Tidy, Malformed \/ PushLate
  PROVE  Tidy'
<1>. DEFINE before == Settled(rows, batches, lines)
            after == Settled(rows', batches', lines')
<1>1. /\ lines \in Nat /\ dropped \in Nat /\ accepted \subseteq 1..lines
      /\ Kept(rows, batches, accepted)
  BY DEF Inv, Shape, Tidy
<1>2. /\ lines' = lines + 1 /\ lines' <= MaxLines
      /\ dropped' \in {dropped, dropped + 1}
      /\ UNCHANGED <<rows, timer, batches, inserted, closing, own, accepted>>
  BY <1>1, SinkAssumption DEF Malformed, PushLate
<1>3. after = before \cup {lines + 1} /\ lines + 1 \notin before
  <2>1. Carried(rows) \subseteq 1..lines /\ Pending(batches) \subseteq 1..lines
    BY <1>1, WaitingIsPast
  <2>2. 1..(lines + 1) = (1..lines) \cup {lines + 1} /\ lines + 1 \notin 1..lines
    BY <1>1
  <2>3. after = (1..(lines + 1)) \ (Carried(rows) \cup Pending(batches))
    BY <1>2 DEF Settled
  <2>. QED
    BY <2>1, <2>2, <2>3 DEF Settled
<1>4. /\ IsFiniteSet(before) /\ Cardinality(before) \in Nat
      /\ dropped <= Cardinality(before)
  BY <1>1, SettledFinite DEF Tidy
<1>. HIDE DEF before, after
<1>5. Cardinality(after) = Cardinality(before) + 1
  BY <1>3, <1>4, FS_AddElement
<1>6. dropped' <= Cardinality(after)
  BY <1>1, <1>2, <1>4, <1>5
<1>7. dropped' <= Cardinality(Settled(rows', batches', lines'))
  BY <1>6 DEF after
<1>. QED
  BY <1>2, <1>7 DEF Tidy

(* Tidy holds at first.                                                    *)
LEMMA InitTidy == Init => Tidy
<1>. SUFFICES ASSUME Init PROVE Tidy
  OBVIOUS
<1>1. Kept(rows, batches, accepted)
  BY EmptyApart DEF Init, Kept
<1>2. 0 <= Cardinality(Settled(rows, batches, lines))
  BY SettledFinite DEF Init
<1>3. own \in 0..Len(batches)
  <2>1. own = 0 /\ Len(batches) = 0
    BY DEF Init
  <2>. QED
    BY <2>1
<1>4. inserted \subseteq accepted
  BY DEF Init
<1>5. dropped <= Cardinality(Settled(rows, batches, lines)) /\ lines <= MaxLines
  BY <1>2, SinkAssumption DEF Init
<1>6. timer \in BOOLEAN /\ closing \in {"open", "flushing", "ending", "exited"}
  BY DEF Init
<1>. QED
  BY <1>1, <1>3, <1>4, <1>5, <1>6 DEF Tidy

(* Each step keeps it.                                                     *)
LEMMA NextTidy == Inv /\ Tidy /\ [Next]_vars => Tidy'
<1>. SUFFICES ASSUME Inv, Tidy, [Next]_vars PROVE Tidy'
  OBVIOUS
<1>1. CASE Malformed \/ PushLate
  BY <1>1, LateTidy
<1>2. CASE TimerFires
  <2>1. closing' \in {"open", "flushing", "ending", "exited"} /\ own' = own
    BY <1>2 DEF TimerFires, Tidy
  <2>. QED
    BY <1>2, <2>1, SwapTidy DEF TimerFires
<1>3. CASE Close
  <2>1. closing' = "flushing" /\ own' \in {0, Len(batches')}
    BY <1>3 DEF Close
  <2>. QED
    BY <1>3, <2>1, SwapTidy DEF Close
<1>4. CASE End \/ Exit \/ UNCHANGED vars
  BY <1>4 DEF End, Exit, vars, Tidy
<1>5. ASSUME NEW k \in Kind, Push(k) PROVE Tidy'
  BY <1>5, PushTidy
<1>6. ASSUME NEW i \in DOMAIN batches, Answer(i) PROVE Tidy'
  BY <1>6, InsertedTidy, FailedTidy DEF Answer
<1>. QED
  BY <1>1, <1>2, <1>3, <1>4, <1>5, <1>6 DEF Next

(* Buffers, batches and counter of db-sink.ts keep their shape: a buffer   *)
(* stays below a batch, only what was buffered is inserted, and no line is *)
(* counted twice.                                                          *)
THEOREM TypeCorrect == Spec => []TypeOK
<1>1. ASSUME Inv, Tidy PROVE TypeOK
  <2>1. /\ rows \in Rows /\ batches \in Seq(Batch) /\ lines \in 0..MaxLines
        /\ dropped \in Nat /\ accepted \subseteq 1..lines
    BY <1>1 DEF Inv, Shape, Tidy
  <2>2. \A k \in Kind : rows[k] \in Seq(1..MaxLines) /\ Len(rows[k]) < BatchRows
    BY <1>1 DEF Inv, Shape, Rows, Line
  <2>3. dropped \in 0..MaxLines
    <3>1. Cardinality(Settled(rows, batches, lines)) <= lines
      BY <2>1, SettledFinite
    <3>2. Cardinality(Settled(rows, batches, lines)) \in Nat
      BY <2>1, SettledFinite
    <3>3. dropped <= Cardinality(Settled(rows, batches, lines))
      BY <1>1 DEF Tidy
    <3>. QED
      BY <2>1, <3>1, <3>2, <3>3, SinkAssumption
  <2>4. ASSUME NEW i \in DOMAIN batches
        PROVE  batches[i].at \in Kind \cup {"done"} /\ Count(batches[i].rows) \in 1..MaxLines
    <3>. DEFINE r == batches[i].rows
    <3>0. batches[i] \in Batch
      BY <2>1
    <3>1. r \in Rows /\ batches[i].at \in Kind \cup {"done"}
      BY <3>0 DEF Batch
    <3>2. Apart(r) /\ r # Empty /\ Carried(r) \subseteq accepted
      BY <1>1 DEF Tidy, Kept
    <3>. HIDE DEF r
    <3>3. /\ IsFiniteSet(Carried(r)) /\ Cardinality(Carried(r)) = Count(r)
          /\ Count(r) \in Nat /\ Count(r) > 0
      BY <3>1, <3>2, ApartCount
    <3>4. IsFiniteSet(1..MaxLines) /\ Cardinality(1..MaxLines) = MaxLines
      BY SinkAssumption, FS_Interval
    <3>5. Carried(r) \subseteq 1..MaxLines
      <4>1. 1..lines \subseteq 1..MaxLines
        BY <2>1, SinkAssumption
      <4>. QED
        BY <2>1, <3>2, <4>1
    <3>6. Cardinality(Carried(r)) <= MaxLines
      BY <3>4, <3>5, FS_Subset, ZenonT(30)
    <3>7. Count(r) \in 1..MaxLines
      BY <3>3, <3>6, SinkAssumption
    <3>. QED
      BY <3>1, <3>7 DEF r
  <2>. QED
    BY <1>1, <2>1, <2>2, <2>3, <2>4 DEF TypeOK, Tidy
<1>. QED
  BY <1>1, InitInv, NextInv, InitTidy, NextTidy, PTL DEF Spec

=============================================================================
