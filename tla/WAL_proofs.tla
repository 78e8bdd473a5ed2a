----------------------------- MODULE WAL_proofs -----------------------------
(***************************************************************************)
(* Proofs about WAL, for every number of records, segments and seconds:    *)
(* the type invariant; that nothing is suppressed or deleted which was not *)
(* reported as sent, whatever fails; NoLoss in an environment that tears   *)
(* no record and creates no two segments within a second; and that the log *)
(* implements RecordLog if, besides, it leaves no companion file truncated.*)
(***************************************************************************)
EXTENDS WAL, SequenceTheorems, FiniteSetTheorems, WellFoundedInduction, TLAPS

\* Earliest(S) is the least element of S.
LEMMA EarliestInSet ==
  ASSUME NEW S \in SUBSET Nat, S # {}
  PROVE  Earliest(S) \in S /\ \A j \in S : Earliest(S) <= j
<1>1. \E i \in S : \A j \in S : i <= j
  <2>1. \E x \in S : \A y \in S : ~(<<y, x>> \in OpToRel(<, Nat))
    BY WFMin, NatLessThanWellFounded
  <2>2. PICK x \in S : \A y \in S : ~(<<y, x>> \in OpToRel(<, Nat))
    BY <2>1
  <2>3. ASSUME NEW y \in S PROVE x <= y
    <3>1. x \in Nat /\ y \in Nat /\ <<y, x>> \in Nat \X Nat
      OBVIOUS
    <3>2. ~(y < x)
      BY <2>2, <2>3, <3>1 DEF OpToRel
    <3> QED BY <3>1, <3>2
  <2> QED BY <2>3
<1> QED BY <1>1 DEF Earliest

\* Dropping one element of a sequence adds none and keeps the others.
LEMMA RemoveAtKeeps ==
  ASSUME NEW S, NEW s \in Seq(S), NEW i \in 1..Len(s)
  PROVE  /\ RemoveAt(s, i) \in Seq(S)
         /\ ToSet(RemoveAt(s, i)) \subseteq ToSet(s)
         /\ ToSet(s) \ {s[i]} \subseteq ToSet(RemoveAt(s, i))
<1> DEFINE a == SubSeq(s, 1, i - 1)
           b == SubSeq(s, i + 1, Len(s))
<1>0. Len(s) \in Nat /\ DOMAIN s = 1..Len(s) /\ \A k \in 1..Len(s) : s[k] \in S
  OBVIOUS
<1>1. /\ a \in Seq(S) /\ Len(a) = i - 1
      /\ \A k \in 1..i - 1 : a[k] = s[k]
  <2>1. \A k \in 1..i - 1 : s[k] \in S
    BY <1>0
  <2>2. 1 \in Int /\ i - 1 \in Int
    BY <1>0
  <2> QED BY <2>1, <2>2, <1>0, SubSeqProperties, Z3
<1>2. /\ b \in Seq(S) /\ Len(b) = Len(s) - i
      /\ \A k \in 1..Len(s) - i : b[k] = s[i + k]
  <2>1. \A k \in i + 1..Len(s) : s[k] \in S
    BY <1>0
  <2>2. i + 1 \in Int /\ Len(s) \in Int
    BY <1>0
  <2>3. /\ b \in Seq(S)
        /\ Len(b) = IF i + 1 <= Len(s) THEN Len(s) - (i + 1) + 1 ELSE 0
        /\ \A k \in 1..Len(s) - (i + 1) + 1 : b[k] = s[(i + 1) + k - 1]
    BY <2>1, <2>2, SubSeqProperties
  <2> HIDE DEF b
  <2>4. Len(b) = Len(s) - i
    <3>1. CASE i + 1 <= Len(s)
      BY <2>3, <1>0, <3>1
    <3>2. CASE i = Len(s)
      BY <2>3, <1>0, <3>2
    <3>3. i + 1 <= Len(s) \/ i = Len(s)
      <4> DEFINE n == Len(s)
      <4>1. n \in Nat /\ i \in 1..n
        BY <1>0
      <4> HIDE DEF n
      <4>2. i + 1 <= n \/ i = n
        BY <4>1
      <4> QED BY <4>2 DEF n
    <3> QED BY <3>1, <3>2, <3>3
  <2>5. ASSUME NEW k \in 1..Len(s) - i PROVE b[k] = s[i + k]
    <3>1. k \in 1..Len(s) - (i + 1) + 1 /\ (i + 1) + k - 1 = i + k
      BY <1>0
    <3> QED BY <2>3, <3>1
  <2> QED BY <2>3, <2>4, <2>5
<1>3. /\ a \o b \in Seq(S)
      /\ Len(a \o b) = Len(s) - 1
      /\ \A k \in 1..Len(s) - 1 :
           (a \o b)[k] = IF k <= i - 1 THEN a[k] ELSE b[k - (i - 1)]
  <2> HIDE DEF a, b
  <2>1. /\ a \o b \in Seq(S)
        /\ Len(a \o b) = Len(a) + Len(b)
        /\ \A k \in 1..Len(a) + Len(b) :
             (a \o b)[k] = IF k <= Len(a) THEN a[k] ELSE b[k - Len(a)]
    BY <1>1, <1>2, ConcatProperties
  <2>2. Len(a) = i - 1 /\ Len(a) + Len(b) = Len(s) - 1
    BY <1>0, <1>1, <1>2
  <2> QED BY <2>1, <2>2
<1>4. \A k \in 1..Len(s) - 1 : (a \o b)[k] = IF k <= i - 1 THEN s[k] ELSE s[k + 1]
  <2> HIDE DEF a, b
  <2> QED BY <1>0, <1>1, <1>2, <1>3
<1>5. DOMAIN (a \o b) = 1..Len(s) - 1
  <2> HIDE DEF a, b
  <2> QED BY <1>3, <1>0
<1>6. RemoveAt(s, i) = a \o b
  BY DEF RemoveAt
<1> HIDE DEF a, b
<1>7. ToSet(a \o b) \subseteq ToSet(s)
  <2>1. ASSUME NEW k \in 1..Len(s) - 1 PROVE (a \o b)[k] \in ToSet(s)
    <3>1. k \in 1..Len(s) /\ k + 1 \in 1..Len(s)
      BY <1>0
    <3> QED BY <1>0, <1>4, <3>1 DEF ToSet
  <2> QED BY <1>5, <2>1 DEF ToSet
<1>8. ASSUME NEW x \in ToSet(s), x # s[i] PROVE x \in ToSet(a \o b)
  <2>1. PICK k \in 1..Len(s) : x = s[k] /\ k # i
    BY <1>0, <1>8 DEF ToSet
  <2>2. CASE k <= i - 1
    <3>1. k \in 1..Len(s) - 1
      BY <1>0, <2>2
    <3> QED BY <1>4, <1>5, <2>1, <2>2, <3>1 DEF ToSet
  <2>3. CASE ~(k <= i - 1)
    <3>1. k - 1 \in 1..Len(s) - 1 /\ ~(k - 1 <= i - 1) /\ (k - 1) + 1 = k
      BY <1>0, <2>1, <2>3
    <3>2. (a \o b)[k - 1] = x
      BY <1>4, <2>1, <3>1
    <3> QED BY <1>5, <3>1, <3>2 DEF ToSet
  <2> QED BY <2>2, <2>3
<1> QED BY <1>3, <1>6, <1>7, <1>8

-----------------------------------------------------------------------------
(* Types *)

\* The constructors of segments, and the index built on demand, are typed.
LEMMA FreshSegmentType ==
  ASSUME NEW s \in Seconds
  PROVE  FreshSegment(s) \in Segment
BY DEF FreshSegment, Segment

LEMMA OpenedSegmentType ==
  ASSUME TypeOK, NEW s \in Seconds
  PROVE  OpenedSegment(s) \in Segment
<1>1. recs[s] \subseteq Records /\ mtime[s] \in Seconds /\ sentFile[s] \subseteq Records
  BY DEF TypeOK
<1>2. Cardinality(recs[s]) \in Nat
  BY <1>1, WALAssumption, FS_Subset, FS_CardinalityType
<1> QED BY <1>1, <1>2 DEF OpenedSegment, Segment

LEMMA OpenedFields ==
  ASSUME NEW s
  PROVE  /\ OpenedSegment(s).id = s /\ OpenedSegment(s).sent = sentFile[s]
         /\ OpenedSegment(s).indexed = FALSE
BY DEF OpenedSegment

LEMMA IndexedType ==
  ASSUME TypeOK, NEW p \in Ptrs
  PROVE  /\ Indexed(p) \in Segment
         /\ Indexed(p).id = seg[p].id
         /\ Indexed(p).sent = seg[p].sent
         /\ Indexed(p).open = seg[p].open
<1>1. seg[p] \in Segment /\ recs \in [Seconds -> SUBSET Records]
  BY DEF TypeOK
<1>2. seg[p].id \in Seconds
  BY <1>1 DEF Segment
<1>3. recs[seg[p].id] \in SUBSET Records
  BY <1>1, <1>2
<1> QED BY <1>1, <1>3 DEF Indexed, Segment

\* The segments MarkSent may ask are those in use.
LEMMA SearchOrderType ==
  ASSUME TypeOK
  PROVE  /\ InUse \subseteq Ptrs
         /\ \A r : Holders(r) \in SUBSET Nat
         /\ \A i \in 1..Len(SearchOrder) : SearchOrder[i] \in InUse
<1>1. segments \in Seq(Ptrs) /\ active \in Ptrs
  BY DEF TypeOK
<1>2. ToSet(segments) \subseteq Ptrs
  BY <1>1 DEF ToSet
<1>3. /\ <<active>> \in Seq(Ptrs) /\ Len(<<active>>) = 1 /\ <<active>>[1] = active
  BY <1>1
<1>4. /\ SearchOrder \in Seq(Ptrs)
      /\ Len(SearchOrder) = 1 + Len(segments)
      /\ \A i \in 1..1 + Len(segments) :
           SearchOrder[i] = IF i <= 1 THEN <<active>>[i] ELSE segments[i - 1]
  <2> HIDE DEF SearchOrder
  <2>1. /\ <<active>> \o segments \in Seq(Ptrs)
        /\ Len(<<active>> \o segments) = Len(<<active>>) + Len(segments)
        /\ \A i \in 1..Len(<<active>>) + Len(segments) :
             (<<active>> \o segments)[i] =
               IF i <= Len(<<active>>) THEN <<active>>[i]
               ELSE segments[i - Len(<<active>>)]
    BY <1>1, <1>3, ConcatProperties
  <2> QED BY <2>1, <1>3 DEF SearchOrder
<1>5. ASSUME NEW i \in 1..Len(SearchOrder) PROVE SearchOrder[i] \in InUse
  <2>1. CASE i = 1
    BY <2>1, <1>3, <1>4 DEF InUse
  <2>2. CASE i # 1
    <3> DEFINE n == Len(segments)
    <3>1. n \in Nat /\ i \in 1..1 + n
      BY <1>1, <1>4
    <3>2. SearchOrder[i] = segments[i - 1]
      BY <2>2, <3>1, <1>4
    <3>3. i - 1 \in 1..n
      <4> HIDE DEF n
      <4> QED BY <3>1, <2>2
    <3> QED BY <3>2, <3>3, <1>1 DEF InUse, ToSet
  <2> QED BY <2>1, <2>2
<1> QED BY <1>1, <1>2, <1>5 DEF InUse, Holders

\* A record found is found in a segment in use.
LEMMA HoldersInUse ==
  ASSUME TypeOK, NEW r
  PROVE  \A i \in Holders(r) : SearchOrder[i] \in InUse /\ SearchOrder[i] \in Ptrs
BY SearchOrderType DEF Holders

LEMMA OwnerInUse ==
  ASSUME TypeOK, NEW r, Holders(r) # {}
  PROVE  /\ SearchOrder[Earliest(Holders(r))] \in InUse
         /\ SearchOrder[Earliest(Holders(r))] \in Ptrs
         /\ r \in KnownIds(SearchOrder[Earliest(Holders(r))])
<1>1. Earliest(Holders(r)) \in Holders(r)
  BY SearchOrderType, EarliestInSet
<1> QED BY <1>1, SearchOrderType DEF Holders

LEMMA TypeInit == Init => TypeOK
<1> SUFFICES ASSUME Init PROVE TypeOK
  OBVIOUS
<1>1. 0 \in Seconds
  BY WALAssumption DEF Seconds
<1>2. FreshSegment(0) \in Segment
  BY <1>1, FreshSegmentType
<1> QED BY <1>1, <1>2 DEF Init, TypeOK, Tails

\* What the actions on one segment leave typed.
LEMMA ActivateType ==
  ASSUME TypeOK, NEW p \in Ptrs, Activate(p)
  PROVE  /\ active' \in Ptrs
         /\ exists' \subseteq Seconds
         /\ mtime' \in [Seconds -> Seconds]
         /\ recs' \in [Seconds -> SUBSET Records]
         /\ tail' \in [Seconds -> Tails]
BY DEF TypeOK, Activate, Tails

LEMMA TornType ==
  ASSUME TypeOK, NEW k \in {"header", "partial"}, Torn(k)
  PROVE  tail' \in [Seconds -> Tails] /\ mtime' \in [Seconds -> Seconds]
BY DEF TypeOK, Torn, Tails

LEMMA DieType ==
  ASSUME TypeOK, Die
  PROVE  /\ up' \in BOOLEAN /\ seg' \in [Ptrs -> Segment]
         /\ segments' \in Seq(Ptrs) /\ active' \in Ptrs
         /\ rotations' \in Nat /\ loopWants' \in BOOLEAN
         /\ closing' \in {"no", "cancelled", "done"}
         /\ doomed' \subseteq Ptrs /\ now' \in Seconds
<1>1. FreshSegment(0) \in Segment
  BY FreshSegmentType, WALAssumption DEF Seconds
<1>2. seg' \in [Ptrs -> Segment]
  BY <1>1 DEF Die
<1>3. segments' \in Seq(Ptrs) /\ rotations' \in Nat /\ doomed' \subseteq Ptrs
  BY DEF Die
<1>4. active' \in Ptrs /\ now' \in Seconds
  BY DEF Die, TypeOK
<1> QED BY <1>2, <1>3, <1>4 DEF Die

LEMMA RotateType ==
  ASSUME TypeOK, Rotate
  PROVE  /\ seg' \in [Ptrs -> Segment]
         /\ segments' \in Seq(Ptrs) /\ active' \in Ptrs
         /\ exists' \subseteq Seconds
         /\ mtime' \in [Seconds -> Seconds]
         /\ recs' \in [Seconds -> SUBSET Records]
         /\ tail' \in [Seconds -> Tails]
<1>1. segments' \in Seq(Ptrs)
  BY AppendProperties DEF Rotate, Retire, TypeOK
<1>2. [seg EXCEPT ![active].open = FALSE] \in [Ptrs -> Segment]
  BY DEF TypeOK, Segment
<1>3. CASE \E p \in Spare :
             /\ seg' = [seg EXCEPT ![active].open = FALSE, ![p] = FreshSegment(now)]
             /\ Activate(p)
  <2>1. PICK p \in Spare :
             /\ seg' = [seg EXCEPT ![active].open = FALSE, ![p] = FreshSegment(now)]
             /\ Activate(p)
    BY <1>3
  <2>2. p \in Ptrs /\ FreshSegment(now) \in Segment
    BY FreshSegmentType DEF Spare, TypeOK
  <2>3. seg' \in [Ptrs -> Segment]
    BY <2>1, <2>2, <1>2
  <2> QED BY <1>1, <2>1, <2>2, <2>3, ActivateType
<1>4. CASE /\ seg' = [seg EXCEPT ![active].open = FALSE]
           /\ UNCHANGED <<active, exists, mtime, recs, tail>>
  BY <1>1, <1>2, <1>4 DEF TypeOK
<1> QED BY <1>3, <1>4 DEF Rotate

\* Every step preserves the type invariant.
LEMMA TypeNext == TypeOK /\ [Next]_vars => TypeOK'
<1> SUFFICES ASSUME TypeOK, [Next]_vars PROVE TypeOK'
  OBVIOUS
<1> USE DEF disk, process, history
<1>1. CASE Tick
  BY <1>1, WALAssumption DEF Tick, TypeOK, Seconds
<1>2. ASSUME NEW r \in Records, Write(r) PROVE TypeOK'
  <2> DEFINE written == [seg[active] EXCEPT
                    !.size = @ + 1,
                    !.ids  = IF seg[active].indexed THEN @ \cup {r} ELSE @]
  <2>1. seg[active] \in Segment /\ active \in Ptrs
    BY DEF TypeOK
  <2>2. written \in Segment
    <3>1. seg[active].size + 1 \in Nat
      BY <2>1 DEF Segment
    <3>2. (IF seg[active].indexed THEN seg[active].ids \cup {r} ELSE seg[active].ids)
            \in SUBSET Records
      BY <2>1 DEF Segment
    <3> QED BY <2>1, <3>1, <3>2 DEF Segment
  <2>3. seg' = [seg EXCEPT ![active] = written]
    BY <1>2 DEF Write
  <2>4. rotations' \in Nat
    BY <1>2 DEF Write, TypeOK
  <2> HIDE DEF written
  <2>5. seg' \in [Ptrs -> Segment]
    BY <2>1, <2>2, <2>3 DEF TypeOK
  <2>6. seg[active].id \in Seconds
    BY <2>1 DEF Segment
  <2>7. /\ recs' \in [Seconds -> SUBSET Records]
        /\ tail' \in [Seconds -> Tails]
        /\ mtime' \in [Seconds -> Seconds]
    BY <1>2, <2>6 DEF Write, TypeOK, Tails
  <2> QED BY <1>2, <2>4, <2>5, <2>7 DEF Write, TypeOK
<1>3. ASSUME NEW r \in Records, WriteRefused(r) PROVE TypeOK'
  BY <1>3 DEF WriteRefused, TypeOK
<1>4. ASSUME NEW r \in Records, WriteFails(r) PROVE TypeOK'
  BY <1>4, TornType DEF WriteFails, TypeOK
<1>5. ASSUME NEW r \in Records, MarkSent(r) PROVE TypeOK'
  <2> DEFINE owner == SearchOrder[Earliest(Holders(r))]
             sent == seg[owner].sent \cup {r}
  <2>1. owner \in Ptrs
    BY <1>5, OwnerInUse DEF MarkSent
  <2>2. sent \subseteq Records
    BY <2>1 DEF TypeOK, Segment
  <2> HIDE DEF owner, sent
  <2>3. [Indexed(owner) EXCEPT !.sent = sent] \in Segment
    BY <2>1, <2>2, IndexedType DEF Segment
  <2>4. \A p \in Ptrs : seg'[p] \in {[Indexed(owner) EXCEPT !.sent = sent],
                                     Indexed(p), seg[p]}
    BY <1>5 DEF MarkSent, owner, sent
  <2>5. seg' = [p \in Ptrs |-> seg'[p]]
    BY <1>5 DEF MarkSent
  <2>6. \A p \in Ptrs : seg'[p] \in Segment
    BY <2>3, <2>4, IndexedType DEF TypeOK
  <2>7. seg' \in [Ptrs -> Segment]
    BY <2>5, <2>6
  <2>8. sentFile' \in [Seconds -> SUBSET Records]
    BY <1>5, <2>2 DEF MarkSent, SavedIndex, owner, sent, TypeOK
  <2>9. asked' \subseteq used' /\ marked' \subseteq asked'
    BY <1>5 DEF MarkSent, TypeOK
  <2> QED BY <1>5, <2>7, <2>8, <2>9 DEF MarkSent, TypeOK
<1>6. ASSUME NEW r \in Records, MarkSentUnknown(r) PROVE TypeOK'
  <2>1. seg' \in [Ptrs -> Segment]
    BY <1>6, IndexedType DEF MarkSentUnknown, TypeOK
  <2> QED BY <1>6, <2>1 DEF MarkSentUnknown, TypeOK
<1>7. ASSUME NEW r \in Records, MarkSentUnsaved(r) PROVE TypeOK'
  <2>1. \A p \in Ptrs : [Indexed(p) EXCEPT !.sent = @ \cup {r}] \in Segment
    BY IndexedType DEF Segment
  <2>2. seg' \in [Ptrs -> Segment]
    BY <1>7, <2>1, IndexedType DEF MarkSentUnsaved, TypeOK
  <2>3. sentFile' \in [Seconds -> SUBSET Records]
    BY <1>7 DEF MarkSentUnsaved, TypeOK
  <2>4. asked' \subseteq used' /\ marked' \subseteq asked'
    BY <1>7 DEF MarkSentUnsaved, TypeOK
  <2> QED BY <1>7, <2>2, <2>3, <2>4 DEF MarkSentUnsaved, TypeOK
<1>20. ASSUME NEW r \in Records, MarkSentByNext(r) PROVE TypeOK'
  <2>1. \A p \in Ptrs : [Indexed(p) EXCEPT !.sent = @ \cup {r}] \in Segment
    BY IndexedType DEF Segment
  <2>2. seg' \in [Ptrs -> Segment]
    BY <1>20, <2>1, IndexedType DEF MarkSentByNext, TypeOK
  <2>3. sentFile' \in [Seconds -> SUBSET Records]
    <3>1. \A i \in Holders(r) : SearchOrder[i] \in Ptrs /\ seg[SearchOrder[i]].sent \in SUBSET Records
      BY HoldersInUse DEF TypeOK, Segment
    <3> QED BY <1>20, <3>1 DEF MarkSentByNext, TypeOK
  <2>4. asked' \subseteq used' /\ marked' \subseteq asked'
    BY <1>20 DEF MarkSentByNext, TypeOK
  <2> QED BY <1>20, <2>2, <2>3, <2>4 DEF MarkSentByNext, TypeOK
<1>8. ASSUME NEW r \in Records, CrashInWrite(r) PROVE TypeOK'
  <2>1. Die /\ Torn("header")
    BY <1>8 DEF CrashInWrite
  <2>2. exists' = exists /\ recs' = recs /\ sentFile' = sentFile
        /\ used' = used \cup {r} /\ acked' = acked /\ asked' = asked /\ marked' = marked
    BY <1>8 DEF CrashInWrite
  <2> QED BY <2>1, <2>2, DieType, TornType DEF TypeOK
<1>9. ASSUME NEW r \in Records, CrashInSave(r) PROVE TypeOK'
  <2>1. Die /\ sentFile' \in [Seconds -> SUBSET Records]
    BY <1>9 DEF CrashInSave, TypeOK
  <2>2. UNCHANGED <<exists, recs, tail, mtime, used, acked, marked>>
        /\ asked' = asked \cup {r} /\ r \in used
    BY <1>9 DEF CrashInSave
  <2> QED BY <2>1, <2>2, DieType DEF TypeOK
<1>10. CASE RotateSpawned
  <2>1. Rotate /\ rotations' \in Nat /\ loopWants' = loopWants
    BY <1>10 DEF RotateSpawned, TypeOK
  <2> QED BY <2>1, RotateType DEF Rotate, TypeOK
<1>11. CASE RotationCheck
  BY <1>11 DEF RotationCheck, TypeOK
<1>12. CASE RotateInLoop
  <2>1. Rotate /\ loopWants' \in BOOLEAN /\ rotations' = rotations
    BY <1>12 DEF RotateInLoop, TypeOK
  <2> QED BY <2>1, RotateType DEF Rotate, TypeOK
<1>13. CASE DeleteSentRecords
  BY <1>13 DEF DeleteSentRecords, ClosedSegments, TypeOK, ToSet
<1>14. ASSUME NEW p \in Ptrs, RemoveSegment(p) PROVE TypeOK'
  <2> DEFINE named == {i \in 1..Len(segments) : seg[segments[i]].id = seg[p].id}
  <2>1. segments' \in Seq(Ptrs)
    <3>1. CASE segments' = segments
      BY <3>1 DEF TypeOK
    <3>2. CASE named # {} /\ segments' = RemoveAt(segments, Earliest(named))
      <4>1. Earliest(named) \in 1..Len(segments)
        BY <3>2, EarliestInSet
      <4> QED BY <3>2, <4>1, RemoveAtKeeps DEF TypeOK
    <3> QED BY <1>14, <3>1, <3>2 DEF RemoveSegment
  <2>2. seg' \in [Ptrs -> Segment]
    BY <1>14 DEF RemoveSegment, TypeOK, Segment
  <2>3. /\ recs' \in [Seconds -> SUBSET Records]
        /\ tail' \in [Seconds -> Tails]
        /\ exists' \subseteq Seconds /\ doomed' \subseteq Ptrs
    BY <1>14 DEF RemoveSegment, TypeOK, Tails
  <2> QED BY <1>14, <2>1, <2>2, <2>3 DEF RemoveSegment, TypeOK
<1>15. CASE CloseBegin
  BY <1>15 DEF CloseBegin, TypeOK
<1>16. CASE CloseFinish
  <2>1. seg' \in [Ptrs -> Segment]
    BY <1>16 DEF CloseFinish, TypeOK, Segment
  <2> QED BY <1>16, <2>1 DEF CloseFinish, TypeOK
<1>17. CASE Crash
  BY <1>17, DieType DEF Crash, TypeOK
<1>18. CASE Start
  <2> DEFINE n == Cardinality(exists)
  <2>0. n \in Nat
    <3>1. IsFiniteSet(Seconds)
      BY FS_Interval, WALAssumption DEF Seconds
    <3> QED BY <3>1, FS_Subset, FS_CardinalityType DEF TypeOK
  <2> HIDE DEF n
  <2>1. PICK files \in [1..n -> exists], ptr \in Injection(1..n + 1, Ptrs) :
          /\ segments' = [i \in 1..n |-> ptr[i]]
          /\ seg' = [p \in Ptrs |->
                       IF \E i \in 1..n : p = ptr[i]
                       THEN OpenedSegment(files[CHOOSE i \in 1..n : p = ptr[i]])
                       ELSE FreshSegment(now)]
          /\ Activate(ptr[n + 1])
    BY <1>18 DEF Start, n
  <2>2. ptr \in [1..n + 1 -> Ptrs]
    BY DEF Injection
  <2>3. ptr[n + 1] \in Ptrs /\ \A i \in 1..n : ptr[i] \in Ptrs
    BY <2>0, <2>2
  <2>4. segments' \in Seq(Ptrs)
    BY <2>0, <2>1, <2>3
  <2>5. \A s \in Seconds : OpenedSegment(s) \in Segment /\ FreshSegment(s) \in Segment
    BY OpenedSegmentType, FreshSegmentType
  <2>6. seg' \in [Ptrs -> Segment]
    <3>1. ASSUME NEW p \in Ptrs, \E i \in 1..n : p = ptr[i]
          PROVE  files[CHOOSE i \in 1..n : p = ptr[i]] \in Seconds
      <4>1. (CHOOSE i \in 1..n : p = ptr[i]) \in 1..n
        BY <3>1
      <4> QED BY <4>1 DEF TypeOK
    <3> QED BY <2>1, <2>5, <3>1 DEF TypeOK
  <2>7. up' = TRUE /\ UNCHANGED <<now, sentFile, rotations, loopWants, closing, doomed, history>>
    BY <1>18 DEF Start
  <2> QED BY <2>1, <2>3, <2>4, <2>6, <2>7, ActivateType DEF TypeOK
<1>19. CASE UNCHANGED vars
  BY <1>19 DEF vars, TypeOK
<1> QED
  BY <1>1, <1>2, <1>3, <1>4, <1>5, <1>6, <1>7, <1>8, <1>9, <1>10, <1>11, <1>12,
     <1>13, <1>14, <1>15, <1>16, <1>17, <1>18, <1>19, <1>20 DEF Next

\* TypeOK holds of every reachable state: the states of a segment, of the
\* files and of the histories stay in their ranges whatever crashes or fails.
THEOREM TypeCorrect == Spec => []TypeOK
BY TypeInit, TypeNext, PTL DEF Spec

-----------------------------------------------------------------------------
(* Nothing is suppressed or deleted that was not reported as sent *)

\* Marking: the indexes grow by the record reported, or are truncated.
LEMMA MarkShape ==
  ASSUME TypeOK, OnlyReportedSuppressed, NEW r \in Records,
         MarkSent(r) \/ MarkSentUnknown(r) \/ MarkSentUnsaved(r) \/ MarkSentByNext(r)
  PROVE  /\ Unlocked /\ asked' = asked \cup {r}
         /\ \A p \in Ptrs : /\ seg'[p].id = seg[p].id /\ seg'[p].open = seg[p].open
                            /\ seg'[p].sent \subseteq seg[p].sent \cup {r}
         /\ \A s \in Seconds : sentFile'[s] \subseteq asked \cup {r}
         /\ UNCHANGED <<exists, recs, tail, up, segments, active, doomed, acked>>
<1>1. \A p \in Ptrs : /\ Indexed(p) \in Segment /\ Indexed(p).id = seg[p].id
                      /\ Indexed(p).sent = seg[p].sent /\ Indexed(p).open = seg[p].open
  BY IndexedType
<1>2. CASE MarkSent(r)
  <2> DEFINE owner == SearchOrder[Earliest(Holders(r))]
             sent == seg[owner].sent \cup {r}
  <2>1. owner \in Ptrs
    BY <1>2, OwnerInUse DEF MarkSent
  <2>2. sent \subseteq asked \cup {r}
    BY <2>1 DEF OnlyReportedSuppressed
  <2>3. /\ \A p \in Ptrs :
             \/ p = owner /\ seg'[p] = [Indexed(p) EXCEPT !.sent = sent]
             \/ seg'[p] \in {Indexed(p), seg[p]}
        /\ sentFile' = [sentFile EXCEPT ![seg[owner].id] = sent]
        /\ asked' = asked \cup {r} /\ Unlocked
        /\ UNCHANGED <<exists, recs, tail, up, segments, active, doomed, acked>>
    BY <1>2 DEF MarkSent, SavedIndex
  <2>4. ASSUME NEW p \in Ptrs
        PROVE  /\ seg'[p].id = seg[p].id /\ seg'[p].open = seg[p].open
               /\ seg'[p].sent \subseteq seg[p].sent \cup {r}
    <3>1. CASE p = owner /\ seg'[p] = [Indexed(p) EXCEPT !.sent = sent]
      BY <1>1, <3>1 DEF Segment
    <3>2. CASE seg'[p] \in {Indexed(p), seg[p]}
      BY <1>1, <3>2
    <3> QED BY <2>3, <3>1, <3>2
  <2>5. \A s \in Seconds : sentFile'[s] \subseteq asked \cup {r}
    <3> HIDE DEF sent
    <3> QED BY <2>2, <2>3 DEF OnlyReportedSuppressed, TypeOK
  <2> QED BY <2>3, <2>4, <2>5
<1>3. CASE MarkSentUnknown(r)
  <2>1. /\ \A p \in Ptrs : seg'[p] \in {Indexed(p), seg[p]}
        /\ asked' = asked \cup {r} /\ Unlocked
        /\ UNCHANGED <<disk, up, segments, active, doomed, acked>>
    BY <1>3 DEF MarkSentUnknown
  <2> QED BY <1>1, <2>1 DEF OnlyReportedSuppressed, disk
<1>4. CASE MarkSentUnsaved(r)
  <2>1. /\ \A p \in Ptrs :
             seg'[p] \in {[Indexed(p) EXCEPT !.sent = @ \cup {r}], Indexed(p), seg[p]}
        /\ \A s \in Seconds : sentFile'[s] \in {{}, sentFile[s]}
        /\ asked' = asked \cup {r} /\ Unlocked
        /\ UNCHANGED <<exists, recs, tail, up, segments, active, doomed, acked>>
    BY <1>4 DEF MarkSentUnsaved
  <2>2. ASSUME NEW p \in Ptrs
        PROVE  /\ seg'[p].id = seg[p].id /\ seg'[p].open = seg[p].open
               /\ seg'[p].sent \subseteq seg[p].sent \cup {r}
    BY <1>1, <2>1 DEF Segment
  <2>3. \A s \in Seconds : sentFile'[s] \subseteq asked \cup {r}
    BY <2>1 DEF OnlyReportedSuppressed
  <2> QED BY <2>1, <2>2, <2>3
<1>5. CASE MarkSentByNext(r)
  <2>1. PICK i \in Holders(r) :
          /\ \A p \in Ptrs :
               seg'[p] \in {[Indexed(p) EXCEPT !.sent = @ \cup {r}], Indexed(p), seg[p]}
          /\ \A s \in Seconds :
               sentFile'[s] \in {{}, sentFile[s], seg[SearchOrder[i]].sent \cup {r}}
          /\ asked' = asked \cup {r} /\ Unlocked
          /\ UNCHANGED <<exists, recs, tail, up, segments, active, doomed, acked>>
    BY <1>5 DEF MarkSentByNext
  <2>2. ASSUME NEW p \in Ptrs
        PROVE  /\ seg'[p].id = seg[p].id /\ seg'[p].open = seg[p].open
               /\ seg'[p].sent \subseteq seg[p].sent \cup {r}
    BY <1>1, <2>1 DEF Segment
  <2>3. \A s \in Seconds : sentFile'[s] \subseteq asked \cup {r}
    BY <2>1, HoldersInUse DEF OnlyReportedSuppressed
  <2> QED BY <2>1, <2>2, <2>3
<1> QED BY <1>2, <1>3, <1>4, <1>5

\* Starting: every listed segment is opened on a file, every other is new.
LEMMA StartShape ==
  ASSUME TypeOK, Start
  PROVE  /\ active' \in Ptrs \ ToSet(segments') /\ ToSet(segments') \subseteq Ptrs
         /\ Activate(active') /\ seg'[active'] = FreshSegment(now)
         /\ \A p \in Ptrs : \/ seg'[p] = FreshSegment(now)
                            \/ \E s \in exists : seg'[p] = OpenedSegment(s)
         /\ \A p \in ToSet(segments') : \E s \in exists : seg'[p] = OpenedSegment(s)
         /\ \A s \in exists : \E p \in ToSet(segments') : seg'[p] = OpenedSegment(s)
         /\ \A p, q \in ToSet(segments') : seg'[p].id = seg'[q].id => p = q
<1> DEFINE n == Cardinality(exists)
<1>1. n \in Nat
  <2>1. IsFiniteSet(Seconds)
    BY FS_Interval, WALAssumption DEF Seconds
  <2> QED BY <2>1, FS_Subset, FS_CardinalityType DEF TypeOK
<1> HIDE DEF n
<1>2. PICK files \in [1..n -> exists], ptr \in Injection(1..n + 1, Ptrs) :
        /\ segments' = [i \in 1..n |-> ptr[i]]
        /\ seg' = [p \in Ptrs |->
                     IF \E i \in 1..n : p = ptr[i]
                     THEN OpenedSegment(files[CHOOSE i \in 1..n : p = ptr[i]])
                     ELSE FreshSegment(now)]
        /\ Activate(ptr[n + 1])
        /\ \A i, j \in 1..n : i < j => files[i] < files[j]
  BY DEF Start, n
<1>3. /\ ptr \in [1..n + 1 -> Ptrs]
      /\ \A i \in 1..n : ptr[i] # ptr[n + 1] /\ ptr[i] \in Ptrs
      /\ active' = ptr[n + 1] /\ active' \in Ptrs
  <2>1. ptr \in [1..n + 1 -> Ptrs] /\ IsInjective(ptr)
    BY DEF Injection
  <2>2. n + 1 \in 1..n + 1 /\ \A i \in 1..n : i \in 1..n + 1 /\ i # n + 1
    BY <1>1
  <2> QED BY <2>1, <2>2, <1>2 DEF IsInjective, Activate
<1>4. ToSet(segments') = {ptr[i] : i \in 1..n}
  BY <1>1, <1>2 DEF ToSet
<1>5. ASSUME NEW p \in Ptrs, \E i \in 1..n : p = ptr[i]
      PROVE  \E s \in exists : seg'[p] = OpenedSegment(s)
  <2>1. (CHOOSE i \in 1..n : p = ptr[i]) \in 1..n
    BY <1>5
  <2> DEFINE s == files[CHOOSE i \in 1..n : p = ptr[i]]
  <2>2. s \in exists
    BY <2>1
  <2>3. seg'[p] = OpenedSegment(s)
    BY <1>2, <1>5
  <2> HIDE DEF s
  <2> QED BY <2>2, <2>3
<1>6. ASSUME NEW p \in Ptrs, ~\E i \in 1..n : p = ptr[i]
      PROVE  seg'[p] = FreshSegment(now)
  BY <1>2, <1>6
<1>7. active' \in Ptrs \ ToSet(segments') /\ ToSet(segments') \subseteq Ptrs
  BY <1>3, <1>4
<1>8. seg'[active'] = FreshSegment(now) /\ Activate(active')
  BY <1>2, <1>3, <1>6
<1>9. \A p \in ToSet(segments') : \E s \in exists : seg'[p] = OpenedSegment(s)
  BY <1>4, <1>5, <1>7
<1>10. \A p \in Ptrs : \/ seg'[p] = FreshSegment(now)
                       \/ \E s \in exists : seg'[p] = OpenedSegment(s)
  BY <1>5, <1>6
<1>11. \A i, j \in 1..n : ptr[i] = ptr[j] => i = j
  <2>1. IsInjective(ptr) /\ ptr \in [1..n + 1 -> Ptrs] /\ 1..n \subseteq 1..n + 1
    BY <1>1, <1>2 DEF Injection
  <2> QED BY <2>1 DEF IsInjective
<1>12. ASSUME NEW i \in 1..n PROVE seg'[ptr[i]] = OpenedSegment(files[i])
  <2>1. (CHOOSE j \in 1..n : ptr[i] = ptr[j]) = i
    BY <1>11
  <2> QED BY <1>2, <1>3, <2>1
<1>13. files \in Injection(1..n, exists)
  <2>1. \A i \in 1..n : files[i] \in Int
    <3>1. exists \subseteq Int
      BY WALAssumption DEF TypeOK, Seconds
    <3> QED BY <3>1
  <2>2. ASSUME NEW i \in 1..n, NEW j \in 1..n, files[i] = files[j] PROVE i = j
    <3>1. ~(i < j) /\ ~(j < i)
      BY <1>2, <2>1, <2>2
    <3> QED BY <3>1
  <2> QED BY <2>2 DEF Injection, IsInjective
<1>14. files \in Surjection(1..n, exists)
  <2>1. IsFiniteSet(exists) /\ Cardinality(exists) = n
    <3>1. IsFiniteSet(Seconds)
      BY FS_Interval, WALAssumption DEF Seconds
    <3> QED BY <3>1, FS_Subset DEF TypeOK, n
  <2>2. Cardinality(1..n) = n
    BY <1>1, FS_Interval
  <2> QED BY <1>13, <2>1, <2>2, FS_Injection
<1>15. ASSUME NEW s \in exists PROVE \E p \in ToSet(segments') : seg'[p] = OpenedSegment(s)
  <2>1. PICK i \in 1..n : files[i] = s
    BY <1>14 DEF Surjection
  <2> QED BY <1>4, <1>12, <2>1
<1>16. ASSUME NEW p \in ToSet(segments'), NEW q \in ToSet(segments'), seg'[p].id = seg'[q].id
       PROVE  p = q
  <2>1. PICK i \in 1..n, j \in 1..n : p = ptr[i] /\ q = ptr[j]
    BY <1>4
  <2>2. files[i] = files[j]
    BY <1>12, <1>16, <2>1, OpenedFields
  <2> QED BY <1>13, <2>1, <2>2 DEF Injection, IsInjective
<1> QED BY <1>7, <1>8, <1>9, <1>10, <1>15, <1>16

\* Whatever fails, no index holds a record that was not reported: an index is
\* extended by a record reported, loaded from its file, emptied or truncated.
LEMMA ReportedNext ==
  ASSUME TypeOK, OnlyReportedSuppressed, [Next]_vars
  PROVE  OnlyReportedSuppressed'
<1>0. asked \subseteq asked'
  BY DEF Next, Tick, Write, WriteRefused, WriteFails, MarkSent, MarkSentUnknown, MarkSentUnsaved,
     MarkSentByNext, CrashInWrite, CrashInSave, RotateSpawned, RotationCheck, RotateInLoop, Rotate,
     DeleteSentRecords, RemoveSegment, CloseBegin, CloseFinish, Crash, Start, Die, vars, history
<1> SUFFICES /\ \A s \in Seconds : sentFile'[s] \subseteq asked'
             /\ \A p \in Ptrs : seg'[p].sent \subseteq asked'
  BY DEF OnlyReportedSuppressed
<1>1. CASE \E r \in Records : MarkSent(r) \/ MarkSentUnknown(r) \/ MarkSentUnsaved(r) \/ MarkSentByNext(r)
  BY <1>1, MarkShape DEF OnlyReportedSuppressed
<1>2. CASE Crash \/ \E r \in Records : CrashInWrite(r) \/ CrashInSave(r)
  <2>1. /\ \A p \in Ptrs : seg'[p].sent = {}
        /\ \A s \in Seconds : sentFile'[s] \subseteq sentFile[s]
    BY <1>2 DEF Crash, CrashInWrite, CrashInSave, Die, FreshSegment, TypeOK, disk
  <2> QED BY <1>0, <2>1 DEF OnlyReportedSuppressed
<1>3. CASE Start
  <2>1. \A p \in Ptrs : \/ seg'[p] = FreshSegment(now)
                        \/ \E s \in exists : seg'[p] = OpenedSegment(s)
    BY <1>3, StartShape
  <2>2. \A p \in Ptrs : seg'[p].sent = {} \/ \E s \in Seconds : seg'[p].sent = sentFile[s]
    <3> SUFFICES ASSUME NEW p \in Ptrs
                 PROVE  seg'[p].sent = {} \/ \E s \in Seconds : seg'[p].sent = sentFile[s]
      OBVIOUS
    <3>1. CASE seg'[p] = FreshSegment(now)
      BY <3>1 DEF FreshSegment
    <3>2. CASE \E s \in exists : seg'[p] = OpenedSegment(s)
      <4>1. PICK s \in exists : seg'[p] = OpenedSegment(s)
        BY <3>2
      <4>2. s \in Seconds /\ seg'[p].sent = sentFile[s]
        BY <4>1, OpenedFields DEF TypeOK
      <4> QED BY <4>2
    <3> QED BY <2>1, <3>1, <3>2
  <2>3. sentFile' = sentFile /\ asked' = asked
    BY <1>3 DEF Start, history
  <2> QED BY <2>2, <2>3 DEF OnlyReportedSuppressed
<1>4. CASE RotateSpawned \/ RotateInLoop
  <2>1. sentFile' = sentFile /\ asked' = asked /\ active \in Ptrs
        /\ \/ \E p \in Ptrs : seg' = [seg EXCEPT ![active].open = FALSE, ![p] = FreshSegment(now)]
           \/ seg' = [seg EXCEPT ![active].open = FALSE]
    BY <1>4 DEF RotateSpawned, RotateInLoop, Rotate, Spare, history, TypeOK
  <2>2. \A q \in Ptrs : seg'[q].sent \in {{}, seg[q].sent}
    BY <2>1 DEF FreshSegment, TypeOK, Segment
  <2> QED BY <2>1, <2>2 DEF OnlyReportedSuppressed
<1>5. CASE \/ \E r \in Records : Write(r)
           \/ \E p \in Ptrs : RemoveSegment(p)
           \/ CloseFinish
  <2>1. \A q \in Ptrs : seg'[q].sent = seg[q].sent
    <3>1. CASE \E r \in Records : Write(r)
      BY <3>1 DEF Write, TypeOK, Segment
    <3>2. CASE \E p \in Ptrs : RemoveSegment(p)
      BY <3>2 DEF RemoveSegment, TypeOK, Segment
    <3>3. CASE CloseFinish
      BY <3>3 DEF CloseFinish, TypeOK, Segment
    <3> QED BY <1>5, <3>1, <3>2, <3>3
  <2>2. sentFile' = sentFile
    BY <1>5 DEF Write, RemoveSegment, CloseFinish, disk
  <2> QED BY <1>0, <2>1, <2>2 DEF OnlyReportedSuppressed
<1>6. CASE \/ Tick \/ RotationCheck \/ DeleteSentRecords \/ CloseBegin \/ UNCHANGED vars
           \/ \E r \in Records : WriteRefused(r) \/ WriteFails(r)
  <2>1. UNCHANGED <<sentFile, seg>>
    BY <1>6 DEF Tick, RotationCheck, DeleteSentRecords, CloseBegin, WriteRefused, WriteFails, vars,
       disk, process
  <2> QED BY <1>0, <2>1 DEF OnlyReportedSuppressed
<1> QED BY <1>1, <1>2, <1>3, <1>4, <1>5, <1>6 DEF Next

\* A segment stays doomed only while nothing but its deletion can happen.
LEMMA SettledNext ==
  ASSUME TypeOK, OnlyReportedSuppressed, DoomedSettled, [Next]_vars
  PROVE  DoomedSettled'
<1>1. CASE Unlocked /\ ~DeleteSentRecords
  <2>1. doomed = {} /\ doomed' = {}
    BY <1>1 DEF Unlocked, Next, Tick, Write, WriteRefused, WriteFails, MarkSent, MarkSentUnknown,
       MarkSentUnsaved, MarkSentByNext, CrashInWrite, CrashInSave, RotateSpawned, RotationCheck,
       RotateInLoop,
       Rotate, RemoveSegment, CloseBegin, CloseFinish, Crash, Start, Die, vars, process
  <2> QED BY <2>1 DEF DoomedSettled
<1>2. CASE DeleteSentRecords
  <2>1. /\ doomed' = {p \in ToSet(segments) : Deletable(p)} /\ up /\ up' = up
        /\ UNCHANGED <<recs, seg, asked>>
    BY <1>2 DEF DeleteSentRecords, ClosedSegments, Unlocked, disk, history
  <2>2. ToSet(segments) \subseteq Ptrs
    BY DEF TypeOK, ToSet
  <2>3. ASSUME NEW p \in doomed' PROVE recs[seg[p].id] \subseteq asked
    BY <2>1, <2>2, <2>3 DEF Deletable, UnsentOf, OnlyReportedSuppressed
  <2> QED BY <2>1, <2>3 DEF DoomedSettled
<1>3. CASE ~Unlocked
  <2>1. CASE \E p \in Ptrs : RemoveSegment(p)
    <3>1. PICK p \in Ptrs : RemoveSegment(p)
      BY <2>1
    <3>2. /\ doomed' \subseteq doomed /\ up' = up /\ asked' = asked
          /\ \A q \in Ptrs : seg'[q].id = seg[q].id
          /\ \A s \in Seconds : recs'[s] \subseteq recs[s]
      BY <3>1 DEF RemoveSegment, TypeOK, Segment, history
    <3>3. ASSUME NEW q \in doomed' PROVE recs'[seg'[q].id] \subseteq asked'
      <4>1. q \in doomed /\ q \in Ptrs /\ seg[q].id \in Seconds
        BY <3>2, <3>3 DEF TypeOK, Segment
      <4>2. recs[seg[q].id] \subseteq asked /\ recs'[seg[q].id] \subseteq recs[seg[q].id]
        BY <3>2, <4>1 DEF DoomedSettled
      <4> QED BY <3>2, <4>1, <4>2
    <3> QED BY <3>2, <3>3 DEF DoomedSettled
  <2>2. CASE Die
    BY <2>2 DEF Die, DoomedSettled
  <2>3. CASE Tick \/ Start \/ UNCHANGED vars
    <3>1. CASE Tick \/ UNCHANGED vars
      BY <3>1 DEF Tick, vars, disk, process, history, DoomedSettled
    <3>2. CASE Start
      BY <3>2 DEF Start, DoomedSettled
    <3> QED BY <2>3, <3>1, <3>2
  <2> QED
    BY <1>3, <2>1, <2>2, <2>3 DEF Next, Write, WriteRefused, WriteFails, MarkSent,
       MarkSentUnknown, MarkSentUnsaved, MarkSentByNext, CrashInWrite, CrashInSave,
       RotateSpawned, RotationCheck,
       RotateInLoop, DeleteSentRecords, CloseBegin, CloseFinish, Crash
<1> QED BY <1>1, <1>2, <1>3

LEMMA DeletionInit == Init => DeletionInv
<1> SUFFICES ASSUME Init PROVE DeletionInv
  OBVIOUS
<1>1. \A p \in Ptrs : seg[p].sent = {}
  BY DEF Init, FreshSegment
<1> QED BY <1>1, TypeInit DEF Init, DeletionInv, OnlyReportedSuppressed, DoomedSettled

LEMMA DeletionNext == DeletionInv /\ [Next]_vars => DeletionInv'
BY TypeNext, ReportedNext, SettledNext DEF DeletionInv

\* No index, in memory or on disk, ever suppresses a record that no caller
\* reported as sent, even when writes are torn, index files are truncated,
\* segments share a file or the process crashes.
THEOREM NothingElseIsSuppressed == Spec => []OnlyReportedSuppressed
<1>1. DeletionInv => OnlyReportedSuppressed
  BY DEF DeletionInv
<1> QED BY <1>1, DeletionInit, DeletionNext, PTL DEF Spec

\* DeleteSentRecords unlinks no file with a record that was not reported as
\* sent, in the same environment.
THEOREM NothingElseIsDeleted == Spec => OnlySentDeleted
<1>1. DeletionInv /\ [Next]_vars => [\A s \in exists \ exists' : recs[s] \subseteq asked]_vars
  <2> SUFFICES ASSUME DeletionInv, [Next]_vars, NEW s \in exists \ exists'
               PROVE  recs[s] \subseteq asked
    OBVIOUS
  <2>1. PICK p \in Ptrs : RemoveSegment(p)
    BY DEF Next, Tick, Write, WriteRefused, WriteFails, MarkSent, MarkSentUnknown, MarkSentUnsaved,
       MarkSentByNext, CrashInWrite, CrashInSave, RotateSpawned, RotationCheck, RotateInLoop, Rotate, Activate,
       DeleteSentRecords, CloseBegin, CloseFinish, Crash, Start, vars, disk
  <2> QED BY <2>1 DEF RemoveSegment, DeletionInv, DoomedSettled
<1> QED BY <1>1, DeletionInit, DeletionNext, PTL DEF Spec, OnlySentDeleted

-----------------------------------------------------------------------------
(* No record that is still owed is lost *)

\* Steps that close segments at most, and keep their names, keep the open
\* active segment apart from the listed ones and on a file that exists.
LEMMA ShapeKept ==
  ASSUME TypeOK, ActiveHasFile, ListedApart,
         \A p \in Ptrs : seg'[p].id = seg[p].id /\ (seg'[p].open => seg[p].open),
         UNCHANGED <<up, exists, segments, active, doomed>>
  PROVE  ActiveHasFile' /\ ListedApart'
<1>1. ToSet(segments) \subseteq Ptrs /\ doomed \subseteq Ptrs /\ active \in Ptrs
  BY DEF TypeOK, ToSet
<1>2. ActiveHasFile'
  BY <1>1 DEF ActiveHasFile
<1>3. ASSUME up', NEW p \in ToSet(segments') \cup doomed' PROVE Apart(p)'
  <2>1. p \in Ptrs /\ Apart(p)
    BY <1>1, <1>3 DEF ListedApart
  <2> QED BY <2>1, <1>1, <1>3 DEF Apart
<1> QED BY <1>2, <1>3 DEF ListedApart

\* A process that died has no open active segment and nothing to delete.
LEMMA DiedApart ==
  ASSUME Die
  PROVE  ActiveHasFile' /\ ListedApart'
BY DEF Die, ActiveHasFile, ListedApart

\* Creating the file of this second keeps the content of all others.
LEMMA ActivateKeeps ==
  ASSUME TypeOK, WholeFiles, InSomeFile, NEW p, now \notin exists, Activate(p),
         UNCHANGED <<acked, asked>>
  PROVE  WholeFiles' /\ InSomeFile' /\ now \in exists'
<1>1. now \in Seconds
  BY DEF TypeOK
<1>2. /\ exists' = exists \cup {now}
      /\ recs' = [recs EXCEPT ![now] = {}]
      /\ tail' = [tail EXCEPT ![now] = "whole"]
  BY DEF Activate
<1>3. WholeFiles'
  BY <1>1, <1>2 DEF WholeFiles, TypeOK
<1>4. ASSUME NEW r \in acked' \ asked' PROVE \E s \in exists' : r \in recs'[s]
  <2>1. PICK s \in exists : r \in recs[s]
    BY <1>4 DEF InSomeFile
  <2> QED BY <2>1, <1>2 DEF TypeOK
<1> QED BY <1>2, <1>3, <1>4 DEF InSomeFile

LEMMA LossInit == Init => LossInv
<1> SUFFICES ASSUME Init PROVE LossInv
  OBVIOUS
<1>1. TypeOK
  BY TypeInit
<1>2. ToSet(segments) = {}
  BY DEF Init, ToSet
<1>3. seg[active].id = 0 /\ \A p \in Ptrs : seg[p].sent = {}
  BY DEF Init, FreshSegment
<1> QED
  BY <1>1, <1>2, <1>3 DEF Init, LossInv, WholeFiles, InSomeFile,
     OnlyReportedSuppressed, ActiveHasFile, DoomedSettled, ListedApart

\* Writing: the record goes to the file of the open active segment.
LEMMA LossWrite ==
  ASSUME LossInv, NEW r \in Records, Write(r)
  PROVE  WholeFiles' /\ InSomeFile' /\ ActiveHasFile' /\ ListedApart'
<1> DEFINE file == seg[active].id
<1>0. TypeOK /\ up
  BY DEF LossInv, Write, Unlocked
<1>1. active \in Ptrs /\ seg[active] \in Segment /\ file \in Seconds
  BY <1>0 DEF TypeOK, Segment
<1>2. file \in exists /\ tail[file] = "whole"
  BY <1>1 DEF LossInv, ActiveHasFile, WholeFiles, Write, Unlocked
<1>3. recs' = [recs EXCEPT ![file] = @ \cup {r}] /\ tail' = tail /\ exists' = exists
  BY <1>2 DEF Write
<1>4. \A p \in Ptrs : /\ seg'[p].id = seg[p].id /\ seg'[p].open = seg[p].open
                      /\ seg'[p].sent = seg[p].sent
  BY <1>0, <1>1 DEF Write, TypeOK, Segment
<1>5. InSomeFile'
  <2>1. ASSUME NEW x \in acked' \ asked' PROVE \E s \in exists' : x \in recs'[s]
    <3>1. CASE x = r
      BY <3>1, <1>0, <1>1, <1>2, <1>3 DEF TypeOK
    <3>2. CASE x # r
      <4>1. x \in acked \ asked
        BY <2>1, <3>2 DEF Write
      <4>2. PICK s \in exists : x \in recs[s]
        BY <4>1 DEF LossInv, InSomeFile
      <4> QED BY <4>2, <1>0, <1>1, <1>3 DEF TypeOK
    <3> QED BY <3>1, <3>2
  <2> QED BY <2>1 DEF InSomeFile
<1>6. ActiveHasFile' /\ ListedApart'
  <2>1. UNCHANGED <<up, exists, segments, active, doomed>>
    BY DEF Write
  <2> QED BY <2>1, <1>0, <1>4, ShapeKept DEF LossInv
<1>7. WholeFiles'
  BY <1>3 DEF LossInv, WholeFiles
<1> QED BY <1>5, <1>6, <1>7

\* Marking changes neither files nor names.
LEMMA LossMark ==
  ASSUME LossInv, NEW r \in Records,
         MarkSent(r) \/ MarkSentUnknown(r) \/ MarkSentUnsaved(r) \/ MarkSentByNext(r)
  PROVE  WholeFiles' /\ InSomeFile' /\ ActiveHasFile' /\ ListedApart'
<1>1. /\ \A p \in Ptrs : seg'[p].id = seg[p].id /\ seg'[p].open = seg[p].open
      /\ asked' = asked \cup {r}
      /\ UNCHANGED <<exists, recs, tail, up, segments, active, doomed, acked>>
  BY MarkShape DEF LossInv
<1>2. ActiveHasFile' /\ ListedApart'
  BY <1>1, ShapeKept DEF LossInv
<1>3. WholeFiles' /\ InSomeFile'
  BY <1>1 DEF LossInv, WholeFiles, InSomeFile
<1> QED BY <1>2, <1>3

\* Rotating: the new segment has a name of its own, or the active one is closed.
LEMMA LossRotate ==
  ASSUME SoundEnvironment, LossInv, Unlocked, Rotate
  PROVE  WholeFiles' /\ InSomeFile' /\ ActiveHasFile' /\ ListedApart'
<1>0. /\ TypeOK /\ up /\ up' = up /\ doomed = {} /\ doomed' = {}
      /\ UNCHANGED <<now, sentFile, acked, asked>>
  BY DEF LossInv, Unlocked, Rotate, history
<1>1. /\ segments \in Seq(Ptrs) /\ active \in Ptrs
      /\ segments' = Append(segments, active) /\ now \in Seconds
  BY <1>0 DEF TypeOK, Rotate, Retire
<1>2. ToSet(segments') \subseteq ToSet(segments) \cup {active}
  BY <1>1, AppendProperties DEF ToSet
<1>3. ToSet(segments) \subseteq Ptrs
  BY <1>1 DEF ToSet
<1>5. CASE /\ SecondFree
           /\ \E p \in Spare :
                /\ seg' = [seg EXCEPT ![active].open = FALSE, ![p] = FreshSegment(now)]
                /\ Activate(p)
  <2>1. PICK p \in Spare :
                /\ seg' = [seg EXCEPT ![active].open = FALSE, ![p] = FreshSegment(now)]
                /\ Activate(p)
    BY <1>5
  <2>2. now \notin exists /\ \A q \in InUse : seg[q].id # now
    BY <1>5 DEF SecondFree, SoundEnvironment
  <2>3. p \in Ptrs /\ p \notin InUse /\ active' = p
    BY <2>1 DEF Spare, Activate
  <2>4. WholeFiles' /\ InSomeFile' /\ now \in exists'
    BY <2>1, <2>2, <1>0, ActivateKeeps DEF LossInv
  <2>5. seg'[p].id = now /\ seg'[p].sent = {}
    BY <2>1, <2>3, <1>0 DEF FreshSegment, TypeOK
  <2>6. \A q \in Ptrs \ {p} : seg'[q].id = seg[q].id /\ seg'[q].sent = seg[q].sent
    BY <2>1, <1>0, <1>1 DEF TypeOK, Segment
  <2>8. ActiveHasFile'
    BY <2>3, <2>4, <2>5 DEF ActiveHasFile
  <2>9. ASSUME NEW q \in ToSet(segments') PROVE Apart(q)'
    <3>1. q \in InUse /\ q # p /\ q \in Ptrs
      BY <2>9, <2>3, <1>1, <1>2, <1>3 DEF InUse
    <3>2. seg'[q].id = seg[q].id /\ seg[q].id # now
      BY <3>1, <2>2, <2>6
    <3> QED BY <3>1, <3>2, <2>3, <2>5 DEF Apart
  <2> QED BY <2>4, <2>8, <2>9, <1>0 DEF ListedApart
<1>6. CASE /\ seg' = [seg EXCEPT ![active].open = FALSE]
           /\ UNCHANGED <<active, exists, mtime, recs, tail>>
  <2>1. \A q \in Ptrs : seg'[q].id = seg[q].id /\ seg'[q].sent = seg[q].sent
    BY <1>6, <1>0, <1>1 DEF TypeOK, Segment
  <2>2. seg'[active].open = FALSE
    BY <1>6, <1>0, <1>1 DEF TypeOK, Segment
  <2>3. WholeFiles' /\ InSomeFile'
    BY <1>6, <1>0 DEF LossInv, WholeFiles, InSomeFile
  <2>5. ActiveHasFile'
    BY <1>6, <2>2 DEF ActiveHasFile
  <2>6. ASSUME NEW q \in ToSet(segments') PROVE Apart(q)'
    <3>1. CASE q = active
      BY <3>1, <1>6, <2>2 DEF Apart
    <3>2. CASE q # active
      <4>1. q \in ToSet(segments) /\ q \in Ptrs
        BY <3>2, <2>6, <1>2, <1>3
      <4>2. Apart(q)
        BY <4>1, <1>0 DEF LossInv, ListedApart
      <4> QED BY <4>1, <4>2, <3>2, <1>1, <1>6, <2>1 DEF Apart
    <3> QED BY <3>1, <3>2
  <2> QED BY <2>3, <2>5, <2>6, <1>0 DEF ListedApart
<1> QED BY <1>5, <1>6 DEF Rotate

\* Deleting: only files under segments with nothing owed, never the active one.
LEMMA LossRemove ==
  ASSUME LossInv, NEW p \in Ptrs, RemoveSegment(p)
  PROVE  WholeFiles' /\ InSomeFile' /\ ActiveHasFile' /\ ListedApart'
<1> DEFINE file == seg[p].id
           named == {i \in 1..Len(segments) : seg[segments[i]].id = file}
<1>0. /\ TypeOK /\ p \in doomed /\ file \in Seconds
      /\ UNCHANGED <<now, sentFile, acked, asked, up, active>>
  BY DEF LossInv, RemoveSegment, history, TypeOK, Segment
<1>1. \A q \in Ptrs : /\ seg'[q].id = seg[q].id /\ seg'[q].sent = seg[q].sent
                      /\ seg'[q].open => seg[q].open /\ q # p
  BY <1>0 DEF RemoveSegment, TypeOK, Segment
<1>2. recs[file] \subseteq asked
  BY <1>0 DEF LossInv, DoomedSettled
<1>3. /\ exists' = exists \ {file}
      /\ \A s \in Seconds : s # file => recs'[s] = recs[s] /\ tail'[s] = tail[s]
      /\ recs'[file] \subseteq recs[file]
      /\ tail'[file] = "whole" \/ tail'[file] = tail[file]
  BY <1>0 DEF RemoveSegment, TypeOK
<1>4. ToSet(segments') \subseteq ToSet(segments) /\ doomed' \subseteq doomed
  <2>1. CASE segments' = segments
    BY <2>1 DEF RemoveSegment
  <2>2. CASE named # {} /\ segments' = RemoveAt(segments, Earliest(named))
    <3>1. Earliest(named) \in 1..Len(segments)
      BY <2>2, EarliestInSet
    <3> QED BY <2>2, <3>1, <1>0, RemoveAtKeeps DEF TypeOK, RemoveSegment
  <2> QED BY <2>1, <2>2 DEF RemoveSegment
<1>5. ToSet(segments) \subseteq Ptrs /\ doomed \subseteq Ptrs /\ active \in Ptrs
  BY <1>0 DEF TypeOK, ToSet
<1> HIDE DEF file, named
<1>6. WholeFiles'
  BY <1>0, <1>3 DEF LossInv, WholeFiles
<1>7. InSomeFile'
  <2>1. ASSUME NEW r \in acked' \ asked' PROVE \E s \in exists' : r \in recs'[s]
    <3>1. PICK s \in exists : r \in recs[s]
      BY <2>1, <1>0 DEF LossInv, InSomeFile
    <3>2. s # file
      BY <2>1, <3>1, <1>0, <1>2
    <3> QED BY <3>1, <3>2, <1>0, <1>3 DEF TypeOK
  <2> QED BY <2>1 DEF InSomeFile
<1>9. ActiveHasFile'
  <2> SUFFICES ASSUME up, seg'[active].open PROVE seg[active].id \in exists'
    BY <1>0, <1>1, <1>5 DEF ActiveHasFile
  <2>1. seg[active].open /\ active # p
    BY <1>1, <1>5
  <2>2. seg[active].id \in exists
    BY <2>1 DEF LossInv, ActiveHasFile
  <2>3. Apart(p)
    BY <1>0 DEF LossInv, ListedApart
  <2> QED BY <2>1, <2>2, <2>3, <1>3 DEF Apart, file
<1>11. ListedApart'
  <2>1. ASSUME up, NEW q \in ToSet(segments') \cup doomed' PROVE Apart(q)'
    <3>1. q \in Ptrs /\ Apart(q)
      BY <2>1, <1>4, <1>5 DEF LossInv, ListedApart
    <3> QED BY <3>1, <1>0, <1>1, <1>5 DEF Apart
  <2> QED BY <2>1, <1>0 DEF ListedApart
<1> QED BY <1>6, <1>7, <1>9, <1>11

\* Starting: every file is listed, the active segment has a new one.
LEMMA LossStart ==
  ASSUME SoundEnvironment, LossInv, Start
  PROVE  WholeFiles' /\ InSomeFile' /\ ActiveHasFile' /\ ListedApart'
<1>0. /\ TypeOK /\ ~up /\ doomed' = {} /\ up' = TRUE
      /\ now \notin exists /\ UNCHANGED <<now, acked, asked>>
  BY DEF LossInv, Start, DoomedSettled, SoundEnvironment, history
<1>1. /\ active' \in Ptrs \ ToSet(segments') /\ Activate(active')
      /\ seg'[active'] = FreshSegment(now)
      /\ \A p \in ToSet(segments') : \E s \in exists : seg'[p] = OpenedSegment(s)
  BY <1>0, StartShape
<1>2. WholeFiles' /\ InSomeFile' /\ now \in exists'
  BY <1>0, <1>1, ActivateKeeps DEF LossInv
<1>3. seg'[active'].id = now
  BY <1>1 DEF FreshSegment
<1>4. ActiveHasFile'
  BY <1>2, <1>3 DEF ActiveHasFile
<1>5. ASSUME NEW q \in ToSet(segments') PROVE Apart(q)'
  <2>1. q # active' /\ seg'[q].id \in exists
    BY <1>1, <1>5, OpenedFields
  <2> QED BY <1>0, <1>3, <2>1 DEF Apart
<1> QED BY <1>0, <1>2, <1>4, <1>5 DEF ListedApart

\* Every step preserves the invariant.
LEMMA LossNext ==
  ASSUME SoundEnvironment
  PROVE  LossInv /\ [Next]_vars => LossInv'
<1> SUFFICES ASSUME LossInv, [Next]_vars
             PROVE  WholeFiles' /\ InSomeFile' /\ ActiveHasFile' /\ ListedApart'
  BY DeletionNext DEF LossInv, DeletionInv
<1>0. TypeOK
  BY DEF LossInv
<1> USE DEF disk, process, history
<1>1. CASE UNCHANGED <<disk, up, seg, segments, active, doomed, acked, asked>>
  <2>1. ActiveHasFile' /\ ListedApart'
    BY <1>0, <1>1, ShapeKept DEF LossInv
  <2> QED BY <1>1, <2>1 DEF LossInv, WholeFiles, InSomeFile
<1>2. ASSUME NEW r \in Records, Write(r)
      PROVE  WholeFiles' /\ InSomeFile' /\ ActiveHasFile' /\ ListedApart'
  BY <1>2, LossWrite
<1>3. ASSUME NEW r \in Records, MarkSent(r) \/ MarkSentUnknown(r) \/ MarkSentUnsaved(r) \/ MarkSentByNext(r)
      PROVE  WholeFiles' /\ InSomeFile' /\ ActiveHasFile' /\ ListedApart'
  BY <1>3, LossMark
<1>6. ASSUME NEW r \in Records, WriteFails(r) \/ CrashInWrite(r) PROVE FALSE
  BY <1>6 DEF WriteFails, CrashInWrite, Torn, SoundEnvironment
<1>7. CASE Crash \/ \E r \in Records : CrashInSave(r)
  <2>1. Die /\ UNCHANGED <<exists, recs, tail, acked>> /\ asked \subseteq asked'
    BY <1>0, <1>7 DEF Crash, CrashInSave, TypeOK
  <2>2. ActiveHasFile' /\ ListedApart'
    BY <2>1, DiedApart
  <2>3. WholeFiles' /\ InSomeFile'
    BY <2>1 DEF LossInv, WholeFiles, InSomeFile
  <2> QED BY <2>2, <2>3
<1>8. CASE RotateSpawned \/ RotateInLoop
  BY <1>8, LossRotate DEF RotateSpawned, RotateInLoop
<1>9. CASE DeleteSentRecords
  <2>1. /\ doomed' = {p \in ToSet(segments) : Deletable(p)} /\ up
        /\ UNCHANGED <<disk, up, seg, segments, active, acked, asked>>
    BY <1>9 DEF DeleteSentRecords, ClosedSegments, Unlocked
  <2>5. ListedApart'
    <3>1. \A p \in ToSet(segments') \cup doomed' : Apart(p)
      BY <2>1 DEF LossInv, ListedApart
    <3> QED BY <2>1, <3>1 DEF ListedApart, Apart
  <2> QED BY <2>1, <2>5 DEF LossInv, WholeFiles, InSomeFile, ActiveHasFile
<1>10. ASSUME NEW p \in Ptrs, RemoveSegment(p)
      PROVE  WholeFiles' /\ InSomeFile' /\ ActiveHasFile' /\ ListedApart'
  BY <1>10, LossRemove
<1>11. CASE CloseFinish
  <2>1. \A p \in Ptrs : /\ seg'[p].id = seg[p].id /\ seg'[p].sent = seg[p].sent
                        /\ seg'[p].open => seg[p].open
    BY <1>0, <1>11 DEF CloseFinish, TypeOK, Segment
  <2>2. UNCHANGED <<disk, up, segments, active, doomed, acked, asked>>
    BY <1>11 DEF CloseFinish
  <2>3. ActiveHasFile' /\ ListedApart'
    BY <1>0, <2>1, <2>2, ShapeKept DEF LossInv
  <2>4. WholeFiles' /\ InSomeFile'
    BY <2>2 DEF LossInv, WholeFiles, InSomeFile
  <2> QED BY <2>3, <2>4
<1>12. CASE Start
  BY <1>12, LossStart
<1>13. CASE \/ Tick \/ RotationCheck \/ CloseBegin \/ UNCHANGED vars
            \/ \E r \in Records : WriteRefused(r)
  BY <1>1, <1>13 DEF Tick, RotationCheck, CloseBegin, WriteRefused, vars
<1> QED
  BY <1>2, <1>3, <1>6, <1>7, <1>8, <1>9, <1>10, <1>11, <1>12, <1>13 DEF Next

\* A restart finds every record that was written and not reported as sent: it
\* lies in a file that can be read and no companion file suppresses it.
LEMMA LossInvImplies == LossInv => NoLoss
<1> SUFFICES ASSUME LossInv, NEW r \in acked \ asked PROVE r \in OnDisk
  BY DEF NoLoss
<1>1. PICK s \in exists : r \in recs[s]
  BY DEF LossInv, InSomeFile
<1>2. s \in Seconds /\ Readable(s)
  BY DEF LossInv, TypeOK, WholeFiles, Readable
<1>3. r \notin sentFile[s]
  BY <1>2 DEF LossInv, OnlyReportedSuppressed
<1> QED BY <1>1, <1>2, <1>3 DEF OnDisk

\* NoLoss for every size of the log: as long as no write is torn and no two
\* segments share a second, rotation, deletion, failed rotations, failed index
\* writes, closing and crashes lose no record that is still owed.
THEOREM NothingLost ==
  ASSUME SoundEnvironment
  PROVE  Spec => []NoLoss
<1>1. Init => LossInv
  BY LossInit
<1>2. LossInv /\ [Next]_vars => LossInv'
  BY LossNext
<1>3. LossInv => NoLoss
  BY LossInvImplies
<1> QED BY <1>1, <1>2, <1>3, PTL DEF Spec

-----------------------------------------------------------------------------
(* Memory and disk agree, and the log behaves as RecordLog *)

\* Whole files are read to their end.
LEMMA WholeReadable ==
  ASSUME TypeOK, WholeFiles
  PROVE  \A s \in exists : Readable(s)
BY DEF TypeOK, WholeFiles, Readable

\* What is pending on disk, file by file, before and after a step
LEMMA PendingFiles ==
  ASSUME TypeOK, WholeFiles, TypeOK', WholeFiles'
  PROVE  /\ \A r : r \in OnDisk <=> \E s \in exists : r \in recs[s] \ sentFile[s]
         /\ \A r : r \in OnDisk' <=> \E s \in exists' : r \in recs'[s] \ sentFile'[s]
<1>1. \A r : r \in OnDisk <=> \E s \in exists : r \in recs[s] \ sentFile[s]
  BY WholeReadable DEF OnDisk
<1>2. \A s \in exists' : Readable(s)'
  BY DEF TypeOK, WholeFiles, Readable
<1>3. \A r : r \in OnDisk' <=> \E s \in exists' : r \in recs'[s] \ sentFile'[s]
  BY <1>2 DEF OnDisk
<1> QED BY <1>1, <1>3

\* Everything in a file or an index was handed to Write.
LEMMA OnlyUsed ==
  ASSUME LogInv
  PROVE  /\ marked \subseteq used
         /\ \A s \in exists : recs[s] \subseteq used
         /\ \A s \in Seconds : sentFile[s] \subseteq used
         /\ \A p \in Ptrs : seg[p].sent \subseteq used
<1>1. marked \subseteq used
  BY DEF LogInv, LossInv, TypeOK
<1> QED BY <1>1 DEF LogInv, RecordsApart, MarksReturned

LEMMA ObjectsKept ==
  ASSUME EachListed, OneObject, UNCHANGED <<up, exists, segments, active>>,
         \A p \in InUse : seg'[p].id = seg[p].id
  PROVE  EachListed' /\ OneObject' /\ InUse' = InUse
<1>1. InUse' = InUse
  BY DEF InUse
<1> QED BY <1>1 DEF EachListed, OneObject

\* What lookups build is in step with the file.
LEMMA IndexedInStep ==
  ASSUME TypeOK, WholeFiles, NEW p \in Ptrs, InStep(p)
  PROVE  IF seg[p].id \in exists
         THEN Indexed(p).indexed => Indexed(p).ids = recs[seg[p].id]
         ELSE Indexed(p).indexed => Indexed(p).ids \subseteq marked
<1>0. seg[p] \in Segment
  BY DEF TypeOK
<1>1. CASE Indexed(p) = seg[p]
  BY <1>1 DEF InStep
<1>2. CASE /\ ~seg[p].indexed /\ Readable(seg[p].id)
           /\ Indexed(p) = [seg[p] EXCEPT !.indexed = TRUE, !.ids = recs[seg[p].id]]
  <2>1. seg[p].id \in exists /\ Indexed(p).ids = recs[seg[p].id]
    BY <1>0, <1>2 DEF Readable, Segment
  <2> QED BY <2>1
<1> QED BY <1>1, <1>2 DEF Indexed

\* What a lookup finds is in the file; if that is gone, it was marked.
LEMMA KnownIdsInStep ==
  ASSUME TypeOK, WholeFiles, NEW p \in Ptrs, InStep(p)
  PROVE  IF seg[p].id \in exists THEN KnownIds(p) = recs[seg[p].id]
                                 ELSE KnownIds(p) \subseteq marked
<1>1. CASE seg[p].id \in exists
  BY <1>1, WholeReadable DEF KnownIds, InStep
<1>2. CASE seg[p].id \notin exists
  BY <1>2 DEF KnownIds, InStep, Readable
<1> QED BY <1>1, <1>2

LEMMA LogInit == Init => LogInv /\ Log!LogInit
<1> SUFFICES ASSUME Init PROVE LogInv /\ Log!LogInit
  OBVIOUS
<1>1. LossInv
  BY LossInit
<1>2. /\ \A p \in Ptrs : seg[p].id = 0 /\ seg[p].sent = {} /\ seg[p].indexed = FALSE
      /\ InUse = {active} /\ active \in Ptrs
  BY DEF Init, FreshSegment, InUse, ToSet
<1>3. /\ exists = {0} /\ doomed = {} /\ marked = {}
      /\ \A s \in Seconds : recs[s] = {} /\ sentFile[s] = {}
  BY DEF Init
<1>4. 0 \in Seconds
  BY WALAssumption DEF Seconds
<1>5. RecordsApart /\ MarksReturned /\ EachListed /\ OneObject /\ AllInStep /\ DoomedSaved
  BY <1>2, <1>3, <1>4 DEF RecordsApart, MarksReturned, EachListed, OneObject, AllInStep, InStep,
     DoomedSaved
<1>6. OnDisk = {}
  BY <1>3, <1>4 DEF OnDisk
<1> QED BY <1>1, <1>3, <1>5, <1>6 DEF LogInv, Log!LogInit

\* The new record is in the file, the index and what is pending.
LEMMA LogWrite ==
  ASSUME LogInv, TypeOK', WholeFiles', NEW r \in Records, Write(r)
  PROVE  /\ RecordsApart' /\ MarksReturned' /\ EachListed' /\ OneObject' /\ AllInStep'
         /\ DoomedSaved' /\ Log!Append(r)
<1> DEFINE file == seg[active].id
<1>0. TypeOK /\ WholeFiles /\ up /\ doomed' = {} /\ r \notin used
  BY DEF LogInv, LossInv, Write, Unlocked
<1>1. active \in Ptrs /\ seg[active] \in Segment /\ file \in Seconds /\ active \in InUse
  BY <1>0 DEF TypeOK, Segment, InUse
<1>2. file \in exists /\ tail[file] = "whole"
  BY <1>0, <1>1 DEF LogInv, LossInv, ActiveHasFile, WholeFiles, Write
<1>3. /\ recs' = [recs EXCEPT ![file] = @ \cup {r}] /\ exists' = exists
      /\ used' = used \cup {r}
      /\ UNCHANGED <<up, segments, active, sentFile, marked>>
  BY <1>2 DEF Write
<1>4. /\ \A p \in Ptrs : /\ seg'[p].id = seg[p].id /\ seg'[p].sent = seg[p].sent
                         /\ seg'[p].indexed = seg[p].indexed
                         /\ p # active => seg'[p].ids = seg[p].ids
      /\ seg[active].indexed => seg'[active].ids = seg[active].ids \cup {r}
  BY <1>0, <1>1 DEF Write, TypeOK, Segment
<1>5. /\ recs'[file] = recs[file] \cup {r}
      /\ \A s \in exists : s # file => recs'[s] = recs[s]
  BY <1>0, <1>1, <1>3 DEF TypeOK
<1>6. InUse \subseteq Ptrs
  BY <1>0, SearchOrderType
<1> HIDE DEF file
<1>7. RecordsApart'
  <2>1. ASSUME NEW s \in exists', NEW t \in exists' \ {s}
        PROVE  recs'[s] \subseteq used' /\ recs'[s] \cap recs'[t] = {}
    <3>1. s \in exists /\ t \in exists /\ s # t
      BY <1>3
    <3>2. /\ recs[s] \subseteq used /\ recs[t] \subseteq used /\ recs[s] \cap recs[t] = {}
      BY <3>1 DEF LogInv, RecordsApart
    <3> QED BY <1>0, <1>3, <1>5, <3>1, <3>2
  <2>2. \A s \in exists' : recs'[s] \subseteq used'
    BY <1>3, <1>5, OnlyUsed
  <2> QED BY <2>1, <2>2 DEF RecordsApart
<1>8. MarksReturned'
  BY <1>3, <1>4 DEF LogInv, MarksReturned
<1>9. EachListed' /\ OneObject' /\ InUse' = InUse
  BY <1>3, <1>4, <1>6, ObjectsKept DEF LogInv
<1>10. ASSUME NEW p \in InUse PROVE InStep(p)'
  <2>1. InStep(p) /\ p \in Ptrs
    BY <1>0, <1>6 DEF LogInv, AllInStep
  <2>2. CASE p = active
    <3>1. r \notin seg[p].sent /\ r \notin sentFile[file]
      BY <1>0, <1>1, <2>1, OnlyUsed
    <3>2. recs[file] \ seg[p].sent = recs[file] \ sentFile[file]
      BY <1>2, <2>1, <2>2 DEF InStep, file
    <3>3. seg[p].indexed => seg[p].ids = recs[file]
      BY <1>2, <2>1, <2>2 DEF InStep, file
    <3>4. seg'[p].id = file
      BY <1>4, <2>1, <2>2 DEF file
    <3>5. recs'[file] \ seg'[p].sent = recs'[file] \ sentFile'[file]
      <4>1. seg'[p].sent = seg[p].sent /\ sentFile' = sentFile
        BY <1>3, <1>4, <2>1
      <4> QED BY <1>5, <3>1, <3>2, <4>1
    <3>6. seg'[p].indexed => seg'[p].ids = recs'[file]
      BY <1>4, <1>5, <2>1, <2>2, <3>3
    <3>7. file \in exists'
      BY <1>2, <1>3
    <3> QED BY <3>4, <3>5, <3>6, <3>7 DEF InStep
  <2>3. CASE p # active
    <3>1. seg[p].id # file
      BY <1>0, <1>1, <2>3 DEF LogInv, OneObject, file
    <3> QED BY <1>3, <1>4, <1>5, <2>1, <2>3, <3>1 DEF InStep
  <2> QED BY <2>2, <2>3
<1>11. AllInStep' /\ DoomedSaved'
  BY <1>0, <1>9, <1>10 DEF AllInStep, DoomedSaved
<1>12. Log!Append(r)
  <2>1. \A x : /\ x \in OnDisk <=> \E s \in exists : x \in recs[s] \ sentFile[s]
               /\ x \in OnDisk' <=> \E s \in exists' : x \in recs'[s] \ sentFile'[s]
    BY <1>0, PendingFiles
  <2>2. r \notin sentFile[file]
    BY <1>0, <1>1, OnlyUsed
  <2>3. \A x : x \in OnDisk' <=> x \in OnDisk \/ x = r
    BY <1>2, <1>3, <1>5, <2>1, <2>2
  <2>4. r \notin OnDisk /\ r \notin marked
    BY <1>0, <2>1, OnlyUsed
  <2>5. OnDisk' = OnDisk \cup {r}
    BY <2>3
  <2> QED BY <1>3, <2>4, <2>5 DEF Log!Append
<1> QED BY <1>7, <1>8, <1>9, <1>11, <1>12

\* MarkSent takes the record out of what is pending, or had done so before.
LEMMA LogMark ==
  ASSUME LogInv, TypeOK', WholeFiles', NEW r \in Records, MarkSent(r)
  PROVE  /\ RecordsApart' /\ MarksReturned' /\ EachListed' /\ OneObject' /\ AllInStep'
         /\ DoomedSaved' /\ (Log!Settle(r) \/ UNCHANGED Log!logVars)
<1> DEFINE o == SearchOrder[Earliest(Holders(r))]
           sent == seg[o].sent \cup {r}
           file == seg[o].id
<1>0. TypeOK /\ WholeFiles /\ up /\ doomed' = {}
  BY DEF LogInv, LossInv, MarkSent, Unlocked
<1>1. o \in InUse /\ o \in Ptrs /\ r \in KnownIds(o) /\ file \in Seconds
  BY <1>0, OwnerInUse DEF MarkSent, TypeOK, Segment
<1>2. /\ \A p \in Ptrs :
           \/ p = o /\ seg'[p] = [Indexed(p) EXCEPT !.sent = sent]
           \/ p # o /\ seg'[p] \in {Indexed(p), seg[p]}
      /\ sentFile' = [sentFile EXCEPT ![file] = sent]
      /\ marked' = marked \cup {r}
      /\ UNCHANGED <<exists, recs, up, segments, active, used>>
  BY DEF MarkSent, SavedIndex
<1>3. InUse \subseteq Ptrs
  BY <1>0, SearchOrderType
<1> HIDE DEF o, sent, file
<1>4. sentFile'[file] = sent /\ \A s \in Seconds : s # file => sentFile'[s] = sentFile[s]
  BY <1>0, <1>1, <1>2 DEF TypeOK
<1>5. ASSUME NEW p \in Ptrs
      PROVE  /\ seg'[p].id = seg[p].id
             /\ seg'[p].sent = IF p = o THEN sent ELSE seg[p].sent
             /\ \/ seg'[p].indexed = Indexed(p).indexed /\ seg'[p].ids = Indexed(p).ids
                \/ seg'[p].indexed = seg[p].indexed /\ seg'[p].ids = seg[p].ids
  <2>1. /\ Indexed(p) \in Segment /\ Indexed(p).id = seg[p].id
        /\ Indexed(p).sent = seg[p].sent
    BY <1>0, IndexedType
  <2>2. CASE p = o
    <3>1. seg'[p] = [Indexed(p) EXCEPT !.sent = sent]
      BY <1>2, <2>2
    <3> QED BY <2>1, <2>2, <3>1 DEF Segment
  <2>3. CASE p # o
    BY <1>2, <2>1, <2>3
  <2> QED BY <2>2, <2>3
<1>6. RecordsApart'
  BY <1>2 DEF LogInv, RecordsApart
<1>7. MarksReturned'
  <2>1. sent \subseteq marked'
    BY <1>1, <1>2 DEF LogInv, MarksReturned, sent
  <2>2. \A s \in Seconds : sentFile'[s] \subseteq marked'
    BY <1>2, <1>4, <2>1 DEF LogInv, MarksReturned
  <2>3. \A p \in Ptrs : seg'[p].sent \subseteq marked'
    BY <1>2, <1>5, <2>1 DEF LogInv, MarksReturned
  <2> QED BY <2>2, <2>3 DEF MarksReturned
<1>8. EachListed' /\ OneObject' /\ InUse' = InUse
  BY <1>2, <1>3, <1>5, ObjectsKept DEF LogInv
<1>9. ASSUME NEW p \in InUse PROVE InStep(p)'
  <2>0. p \in Ptrs /\ InStep(p) /\ seg[p].id \in Seconds /\ seg'[p].id = seg[p].id
    BY <1>0, <1>3, <1>5 DEF LogInv, AllInStep, TypeOK, Segment
  <2>1. IF seg[p].id \in exists THEN seg'[p].indexed => seg'[p].ids = recs[seg[p].id]
                                ELSE seg'[p].indexed => seg'[p].ids \subseteq marked
    BY <1>0, <1>5, <2>0, IndexedInStep DEF InStep
  <2>2. CASE seg[p].id \in exists
    <3>1. recs[seg[p].id] \ seg'[p].sent = recs[seg[p].id] \ sentFile'[seg[p].id]
      <4>1. CASE p = o
        BY <1>4, <1>5, <2>0, <4>1 DEF file
      <4>2. CASE p # o
        <5>1. seg[p].id # file
          BY <1>0, <1>1, <4>2 DEF LogInv, OneObject, file
        <5> QED BY <1>4, <1>5, <2>0, <2>2, <4>2, <5>1 DEF InStep
      <4> QED BY <4>1, <4>2
    <3> QED BY <1>2, <2>0, <2>1, <2>2, <3>1 DEF InStep
  <2>3. CASE seg[p].id \notin exists
    BY <1>2, <2>0, <2>1, <2>3 DEF InStep
  <2> QED BY <2>2, <2>3
<1>10. AllInStep' /\ DoomedSaved'
  BY <1>0, <1>8, <1>9 DEF AllInStep, DoomedSaved
<1>11. Log!Settle(r) \/ UNCHANGED Log!logVars
  <2>1. \A x : /\ x \in OnDisk <=> \E s \in exists : x \in recs[s] \ sentFile[s]
               /\ x \in OnDisk' <=> \E s \in exists' : x \in recs'[s] \ sentFile'[s]
    BY <1>0, PendingFiles
  <2>2. InStep(o) /\ exists \subseteq Seconds
    BY <1>0, <1>1 DEF LogInv, AllInStep, TypeOK
  <2>3. CASE file \in exists
    <3>1. r \in recs[file]
      BY <1>0, <1>1, <2>2, <2>3, KnownIdsInStep DEF file
    <3>2. recs[file] \ sentFile'[file] = (recs[file] \ sentFile[file]) \ {r}
      <4>1. recs[file] \ seg[o].sent = recs[file] \ sentFile[file]
        BY <2>2, <2>3 DEF InStep, file
      <4> QED BY <1>4, <4>1 DEF sent
    <3>3. \A s \in exists : s # file => r \notin recs[s]
      BY <2>3, <3>1 DEF LogInv, RecordsApart
    <3>4. \A x : x \in OnDisk' <=> x \in OnDisk /\ x # r
      <4> SUFFICES ASSUME NEW x PROVE x \in OnDisk' <=> x \in OnDisk /\ x # r
        OBVIOUS
      <4>1. \A s \in exists : x \in recs'[s] \ sentFile'[s] <=> x \in recs[s] \ sentFile[s] /\ x # r
        BY <1>2, <1>4, <2>2, <3>2, <3>3
      <4> QED BY <1>2, <2>1, <4>1
    <3>5. CASE r \in OnDisk
      <4>1. OnDisk' = OnDisk \ {r}
        BY <3>4
      <4> QED BY <1>2, <3>5, <4>1 DEF Log!Settle
    <3>6. CASE r \notin OnDisk
      <4>1. OnDisk' = OnDisk
        BY <3>4, <3>6
      <4>2. r \in marked
        BY <1>1, <2>1, <2>3, <3>1, <3>6 DEF LogInv, MarksReturned
      <4> QED BY <1>2, <4>1, <4>2 DEF Log!logVars
    <3> QED BY <3>5, <3>6
  <2>4. CASE file \notin exists
    <3>1. r \in marked
      BY <1>0, <1>1, <2>2, <2>4, KnownIdsInStep DEF file
    <3>2. \A x : x \in OnDisk' <=> x \in OnDisk
      BY <1>2, <1>4, <2>1, <2>2, <2>4
    <3>3. OnDisk' = OnDisk
      BY <3>2
    <3> QED BY <1>2, <3>1, <3>3 DEF Log!logVars
  <2> QED BY <2>3, <2>4
<1> QED BY <1>6, <1>7, <1>8, <1>10, <1>11

\* Steps that leave the files and the objects in use as they are, but for handles
\* and indexes, and take nothing out of what is used or marked.
LEMMA LogKept ==
  ASSUME LogInv, TypeOK', WholeFiles', used \subseteq used',
         UNCHANGED <<exists, recs, sentFile, up, active, doomed, marked>>, InUse' = InUse,
         \A p \in Ptrs :
           /\ seg'[p].id = seg[p].id /\ seg'[p].sent = seg[p].sent
           /\ \/ seg'[p].indexed = Indexed(p).indexed /\ seg'[p].ids = Indexed(p).ids
              \/ seg'[p].indexed = seg[p].indexed /\ seg'[p].ids = seg[p].ids
  PROVE  /\ RecordsApart' /\ MarksReturned' /\ EachListed' /\ OneObject' /\ AllInStep'
         /\ DoomedSaved' /\ UNCHANGED Log!logVars
<1>0. TypeOK /\ WholeFiles
  BY DEF LogInv, LossInv
<1>1. InUse \subseteq Ptrs /\ doomed \subseteq Ptrs
  BY <1>0, SearchOrderType DEF TypeOK
<1>2. RecordsApart' /\ MarksReturned'
  <2>1. RecordsApart'
    BY DEF LogInv, RecordsApart
  <2>2. MarksReturned'
    BY DEF LogInv, MarksReturned
  <2> QED BY <2>1, <2>2
<1>3. EachListed' /\ OneObject'
  <2>1. \A p \in InUse : seg'[p].id = seg[p].id
    BY <1>1
  <2> QED BY <2>1 DEF LogInv, EachListed, OneObject
<1>4. ASSUME up, NEW p \in InUse PROVE InStep(p)'
  <2>1. p \in Ptrs /\ InStep(p)
    BY <1>1, <1>4 DEF LogInv, AllInStep
  <2>2. IF seg[p].id \in exists THEN seg'[p].indexed => seg'[p].ids = recs[seg[p].id]
                                ELSE seg'[p].indexed => seg'[p].ids \subseteq marked
    BY <1>0, <2>1, IndexedInStep DEF InStep
  <2> QED BY <2>1, <2>2 DEF InStep
<1>5. AllInStep'
  BY <1>4 DEF AllInStep
<1>6. DoomedSaved'
  BY <1>1 DEF LogInv, DoomedSaved
<1>7. OnDisk' = OnDisk
  <2>1. \A x : x \in OnDisk' <=> x \in OnDisk
    BY <1>0, PendingFiles
  <2> QED BY <2>1
<1> QED BY <1>2, <1>3, <1>5, <1>6, <1>7 DEF Log!logVars

\* A new segment starts empty, under a name of its own.
LEMMA NewFile ==
  ASSUME LogInv, TypeOK', WholeFiles', now \notin exists,
         Activate(active'), UNCHANGED <<now, sentFile, marked, used>>
  PROVE  /\ RecordsApart' /\ UNCHANGED Log!logVars
         /\ exists' = exists \cup {now} /\ recs'[now] = {}
         /\ \A s \in exists : recs'[s] = recs[s]
<1>0. TypeOK /\ WholeFiles
  BY DEF LogInv, LossInv
<1>1. now \in Seconds /\ exists' = exists \cup {now} /\ recs' = [recs EXCEPT ![now] = {}]
  BY <1>0 DEF Activate, TypeOK
<1>2. recs'[now] = {} /\ \A s \in exists : recs'[s] = recs[s]
  BY <1>0, <1>1 DEF TypeOK
<1>3. RecordsApart'
  BY <1>1, <1>2 DEF LogInv, RecordsApart
<1>4. OnDisk' = OnDisk
  <2>1. \A x : /\ x \in OnDisk <=> \E s \in exists : x \in recs[s] \ sentFile[s]
               /\ x \in OnDisk' <=> \E s \in exists' : x \in recs'[s] \ sentFile'[s]
    BY <1>0, PendingFiles
  <2>2. \A x : x \in OnDisk' <=> x \in OnDisk
    BY <1>1, <1>2, <2>1
  <2> QED BY <2>2
<1> QED BY <1>1, <1>2, <1>3, <1>4 DEF Log!logVars

\* Rotating lists the active segment, and opens a new one or none.
LEMMA LogRotate ==
  ASSUME QuietEnvironment, LogInv, TypeOK', WholeFiles', Unlocked, Rotate
  PROVE  /\ RecordsApart' /\ MarksReturned' /\ EachListed' /\ OneObject' /\ AllInStep'
         /\ DoomedSaved' /\ UNCHANGED Log!logVars
<1>0. /\ TypeOK /\ up /\ up' = up /\ doomed' = {} /\ doomed = {}
      /\ UNCHANGED <<now, sentFile, used, marked>>
  BY DEF LogInv, LossInv, Unlocked, Rotate, history
<1>1. InUse \subseteq Ptrs /\ active \in InUse /\ active \in Ptrs
  BY <1>0, SearchOrderType DEF InUse, TypeOK
<1>2. ToSet(segments') = ToSet(segments) \cup {active}
  <2>1. segments \in Seq(Ptrs) /\ active \in Ptrs /\ segments' = Append(segments, active)
    BY <1>0 DEF TypeOK, Rotate, Retire
  <2>2. /\ DOMAIN segments = 1..Len(segments) /\ Len(segments) \in Nat
        /\ DOMAIN segments' = 1..Len(segments) + 1
        /\ segments'[Len(segments) + 1] = active
        /\ \A i \in 1..Len(segments) : segments'[i] = segments[i]
    BY <2>1, AppendProperties
  <2> DEFINE n == Len(segments)
  <2>3. 1..n + 1 = 1..n \cup {n + 1}
    <3> HIDE DEF n
    <3>1. n \in Nat => 1..n + 1 = 1..n \cup {n + 1}
      OBVIOUS
    <3> QED BY <2>2, <3>1 DEF n
  <2> HIDE DEF n
  <2> QED BY <2>2, <2>3 DEF ToSet, n
<1>3. CASE /\ SecondFree
           /\ \E p \in Spare :
                /\ seg' = [seg EXCEPT ![active].open = FALSE, ![p] = FreshSegment(now)]
                /\ Activate(p)
  <2>1. PICK p \in Spare :
                /\ seg' = [seg EXCEPT ![active].open = FALSE, ![p] = FreshSegment(now)]
                /\ Activate(p)
    BY <1>3
  <2>2. now \notin exists /\ \A q \in InUse : seg[q].id # now
    BY <1>3 DEF SecondFree, QuietEnvironment, SoundEnvironment
  <2>3. p \in Ptrs /\ p \notin InUse /\ active' = p
    BY <2>1 DEF Spare, Activate
  <2>4. seg'[p].id = now /\ seg'[p].sent = {} /\ seg'[p].indexed = FALSE
    BY <1>0, <2>1, <2>3 DEF FreshSegment, TypeOK
  <2>5. \A q \in Ptrs \ {p} : /\ seg'[q].id = seg[q].id /\ seg'[q].sent = seg[q].sent
                              /\ seg'[q].indexed = seg[q].indexed /\ seg'[q].ids = seg[q].ids
    BY <1>0, <1>1, <2>1 DEF TypeOK, Segment
  <2>6. InUse' = InUse \cup {p}
    BY <1>2, <2>3 DEF InUse
  <2>7. /\ RecordsApart' /\ UNCHANGED Log!logVars
        /\ exists' = exists \cup {now} /\ recs'[now] = {}
        /\ \A s \in exists : recs'[s] = recs[s]
    BY <1>0, <2>1, <2>2, <2>3, NewFile
  <2>8. MarksReturned'
    BY <1>0, <2>4, <2>5 DEF LogInv, MarksReturned
  <2>9. EachListed' /\ OneObject'
    <3>1. \A q \in InUse : q \in Ptrs \ {p} /\ seg'[q].id = seg[q].id
      BY <1>1, <2>3, <2>5
    <3> QED BY <1>0, <2>2, <2>4, <2>6, <2>7, <3>1 DEF LogInv, EachListed, OneObject
  <2>10. ASSUME NEW q \in InUse' PROVE InStep(q)'
    <3>1. CASE q = p
      BY <2>4, <2>7, <3>1 DEF InStep
    <3>2. CASE q # p
      <4>1. q \in Ptrs \ {p} /\ InStep(q) /\ seg[q].id # now
        BY <1>0, <1>1, <2>2, <2>6, <3>2 DEF LogInv, AllInStep
      <4> QED BY <1>0, <2>5, <2>7, <4>1 DEF InStep
    <3> QED BY <3>1, <3>2
  <2> QED BY <1>0, <2>7, <2>8, <2>9, <2>10 DEF AllInStep, DoomedSaved
<1>4. CASE /\ seg' = [seg EXCEPT ![active].open = FALSE]
           /\ UNCHANGED <<active, exists, mtime, recs, tail>>
  <2>1. InUse' = InUse
    BY <1>2, <1>4 DEF InUse
  <2>2. \A q \in Ptrs : /\ seg'[q].id = seg[q].id /\ seg'[q].sent = seg[q].sent
                        /\ seg'[q].indexed = seg[q].indexed /\ seg'[q].ids = seg[q].ids
    BY <1>0, <1>1, <1>4 DEF TypeOK, Segment
  <2> QED BY <1>0, <1>4, <2>1, <2>2, LogKept
<1> QED BY <1>3, <1>4 DEF Rotate

\* What is chosen for deletion is sent according to the disk, too.
LEMMA LogDelete ==
  ASSUME LogInv, TypeOK', WholeFiles', DeleteSentRecords
  PROVE  /\ RecordsApart' /\ MarksReturned' /\ EachListed' /\ OneObject' /\ AllInStep'
         /\ DoomedSaved' /\ UNCHANGED Log!logVars
<1>0. /\ doomed' = {p \in ToSet(segments) : Deletable(p)} /\ up /\ TypeOK
      /\ UNCHANGED <<exists, recs, tail, sentFile, up, seg, segments, active, used, marked>>
  BY DEF DeleteSentRecords, ClosedSegments, Unlocked, disk, history, LogInv, LossInv
<1>1. DoomedSaved'
  <2> SUFFICES ASSUME NEW p \in doomed' PROVE recs[seg[p].id] \subseteq sentFile[seg[p].id]
    BY <1>0 DEF DoomedSaved
  <2>1. p \in InUse /\ Deletable(p)
    BY <1>0 DEF InUse
  <2>2. Readable(seg[p].id) /\ recs[seg[p].id] \ seg[p].sent = {}
    BY <2>1 DEF Deletable, UnsentOf
  <2>3. recs[seg[p].id] \ seg[p].sent = recs[seg[p].id] \ sentFile[seg[p].id]
    BY <1>0, <2>1, <2>2 DEF LogInv, AllInStep, InStep, Readable
  <2> QED BY <2>2, <2>3
<1>2. InUse' = InUse /\ OnDisk' = OnDisk
  BY <1>0 DEF InUse, OnDisk, Readable
<1>3. EachListed' /\ OneObject' /\ AllInStep'
  BY <1>0, <1>2 DEF LogInv, EachListed, OneObject, AllInStep, InStep
<1>4. RecordsApart' /\ MarksReturned'
  BY <1>0 DEF LogInv, RecordsApart, MarksReturned
<1> QED BY <1>0, <1>1, <1>2, <1>3, <1>4 DEF Log!logVars

\* Removing a file takes nothing pending away, and its object off the list.
LEMMA LogRemove ==
  ASSUME LogInv, TypeOK', WholeFiles', NEW p \in Ptrs, RemoveSegment(p)
  PROVE  /\ RecordsApart' /\ MarksReturned' /\ EachListed' /\ OneObject' /\ AllInStep'
         /\ DoomedSaved' /\ UNCHANGED Log!logVars
<1> DEFINE file == seg[p].id
           named == {i \in 1..Len(segments) : seg[segments[i]].id = file}
<1>0. /\ TypeOK /\ WholeFiles /\ p \in doomed /\ file \in Seconds
      /\ UNCHANGED <<sentFile, used, marked, up, active>>
      /\ doomed' \subseteq doomed /\ doomed \subseteq Ptrs
  BY DEF LogInv, LossInv, RemoveSegment, history, TypeOK, Segment
<1>1. up
  BY <1>0 DEF LogInv, LossInv, DoomedSettled
<1>2. \A q \in Ptrs : /\ seg'[q].id = seg[q].id /\ seg'[q].sent = seg[q].sent
                      /\ seg'[q].indexed = seg[q].indexed /\ seg'[q].ids = seg[q].ids
  BY <1>0 DEF RemoveSegment, TypeOK, Segment
<1>3. /\ exists' = exists \ {file}
      /\ \A s \in Seconds : s # file => recs'[s] = recs[s]
      /\ recs'[file] \subseteq recs[file]
  BY <1>0 DEF RemoveSegment, TypeOK
<1>4. /\ ToSet(segments') \subseteq ToSet(segments)
      /\ \A q \in ToSet(segments) : seg[q].id # file => q \in ToSet(segments')
  <2>1. CASE segments' = segments
    BY <2>1
  <2>2. CASE named # {} /\ segments' = RemoveAt(segments, Earliest(named))
    <3>1. Earliest(named) \in named
      <4>1. Len(segments) \in Nat
        BY <1>0 DEF TypeOK
      <4>2. named \in SUBSET Nat
        BY <4>1
      <4> HIDE DEF named
      <4> QED BY <2>2, <4>2, EarliestInSet
    <3>2. PICK i \in 1..Len(segments) : i = Earliest(named) /\ seg[segments[i]].id = file
      BY <3>1
    <3>3. /\ ToSet(RemoveAt(segments, i)) \subseteq ToSet(segments)
          /\ ToSet(segments) \ {segments[i]} \subseteq ToSet(RemoveAt(segments, i))
      BY <1>0, RemoveAtKeeps DEF TypeOK
    <3> QED BY <2>2, <3>2, <3>3
  <2> QED BY <2>1, <2>2 DEF RemoveSegment
<1>5. /\ InUse' \subseteq InUse /\ InUse \subseteq Ptrs
      /\ \A q \in InUse : seg[q].id # file => q \in InUse'
  <2>1. InUse' = {active} \cup ToSet(segments')
    BY <1>0 DEF InUse
  <2> QED BY <1>0, <1>4, <2>1, SearchOrderType DEF InUse
<1>6. recs[file] \subseteq sentFile[file]
  BY <1>0 DEF LogInv, DoomedSaved
<1> HIDE DEF file, named
<1>7. RecordsApart'
  <2>1. \A s \in exists' : s \in exists /\ recs'[s] = recs[s]
    BY <1>0, <1>3 DEF TypeOK
  <2> QED BY <1>0, <2>1 DEF LogInv, RecordsApart
<1>8. MarksReturned'
  BY <1>0, <1>2 DEF LogInv, MarksReturned
<1>9. EachListed' /\ OneObject'
  <2>1. \A q \in InUse' : q \in InUse /\ seg'[q].id = seg[q].id
    BY <1>2, <1>5
  <2>2. OneObject'
    BY <1>0, <2>1 DEF LogInv, OneObject
  <2>3. ASSUME NEW s \in exists' PROVE \E q \in InUse' : seg'[q].id = s
    <3>1. s \in exists /\ s # file
      BY <1>3
    <3>2. PICK q \in InUse : seg[q].id = s
      BY <1>1, <3>1 DEF LogInv, EachListed
    <3> QED BY <1>2, <1>5, <3>1, <3>2
  <2> QED BY <2>2, <2>3 DEF EachListed
<1>10. ASSUME NEW q \in InUse' PROVE InStep(q)'
  <2>1. q \in Ptrs /\ InStep(q)
    BY <1>1, <1>5 DEF LogInv, AllInStep
  <2>2. CASE seg[q].id = file
    <3>1. seg[q].indexed => seg[q].ids \subseteq marked
      <4>1. sentFile[file] \subseteq marked
        BY <1>0 DEF LogInv, MarksReturned
      <4> QED BY <1>6, <2>1, <2>2, <4>1 DEF InStep
    <3> QED BY <1>0, <1>2, <1>3, <2>1, <2>2, <3>1 DEF InStep
  <2>3. CASE seg[q].id # file
    <3>1. seg[q].id \in Seconds
      BY <1>0, <2>1 DEF TypeOK, Segment
    <3> QED BY <1>0, <1>2, <1>3, <2>1, <2>3, <3>1 DEF InStep
  <2> QED BY <2>2, <2>3
<1>11. DoomedSaved'
  <2>1. ASSUME NEW q \in doomed' PROVE recs'[seg'[q].id] \subseteq sentFile'[seg'[q].id]
    <3>1. q \in doomed /\ q \in Ptrs /\ seg[q].id \in Seconds
      BY <1>0, <2>1 DEF TypeOK, Segment
    <3>2. recs[seg[q].id] \subseteq sentFile[seg[q].id] /\ recs'[seg[q].id] \subseteq recs[seg[q].id]
      BY <1>3, <3>1 DEF LogInv, DoomedSaved
    <3> QED BY <1>0, <1>2, <3>1, <3>2
  <2> QED BY <2>1 DEF DoomedSaved
<1>12. OnDisk' = OnDisk
  <2>1. \A x : /\ x \in OnDisk <=> \E s \in exists : x \in recs[s] \ sentFile[s]
               /\ x \in OnDisk' <=> \E s \in exists' : x \in recs'[s] \ sentFile'[s]
    BY <1>0, PendingFiles
  <2>2. exists \subseteq Seconds
    BY <1>0 DEF TypeOK
  <2>3. \A x : x \in OnDisk' <=> x \in OnDisk
    BY <1>0, <1>3, <1>6, <2>1, <2>2
  <2> QED BY <2>3
<1> QED BY <1>0, <1>7, <1>8, <1>9, <1>10, <1>11, <1>12 DEF AllInStep, Log!logVars

\* A start has one object for every file, which has loaded its companion file.
LEMMA LogStart ==
  ASSUME QuietEnvironment, LogInv, TypeOK', WholeFiles', Start
  PROVE  /\ RecordsApart' /\ MarksReturned' /\ EachListed' /\ OneObject' /\ AllInStep'
         /\ DoomedSaved' /\ UNCHANGED Log!logVars
<1>0. /\ TypeOK /\ doomed' = {} /\ now \notin exists
      /\ UNCHANGED <<now, sentFile, used, marked>>
  BY DEF LogInv, LossInv, Start, DoomedSettled, QuietEnvironment, SoundEnvironment, history
<1>1. /\ active' \in Ptrs \ ToSet(segments') /\ ToSet(segments') \subseteq Ptrs
      /\ Activate(active') /\ seg'[active'] = FreshSegment(now)
      /\ \A p \in Ptrs : \/ seg'[p] = FreshSegment(now)
                         \/ \E s \in exists : seg'[p] = OpenedSegment(s)
      /\ \A p \in ToSet(segments') : \E s \in exists : seg'[p] = OpenedSegment(s)
      /\ \A s \in exists : \E p \in ToSet(segments') : seg'[p] = OpenedSegment(s)
      /\ \A p, q \in ToSet(segments') : seg'[p].id = seg'[q].id => p = q
  BY <1>0, StartShape
<1>2. /\ RecordsApart' /\ UNCHANGED Log!logVars
      /\ exists' = exists \cup {now} /\ recs'[now] = {}
      /\ \A s \in exists : recs'[s] = recs[s]
  BY <1>0, <1>1, NewFile
<1>3. seg'[active'].id = now /\ seg'[active'].sent = {} /\ seg'[active'].indexed = FALSE
  BY <1>1 DEF FreshSegment
<1>4. InUse' = {active'} \cup ToSet(segments')
  BY DEF InUse
<1>5. ASSUME NEW p \in ToSet(segments')
      PROVE  \E s \in exists :
               seg'[p].id = s /\ seg'[p].sent = sentFile[s] /\ seg'[p].indexed = FALSE
  <2>1. PICK s \in exists : seg'[p] = OpenedSegment(s)
    BY <1>1
  <2>2. seg'[p].id = s /\ seg'[p].sent = sentFile[s] /\ seg'[p].indexed = FALSE
    BY <2>1, OpenedFields
  <2> QED BY <2>2
<1>6. EachListed' /\ OneObject'
  <2>1. ASSUME NEW s \in exists PROVE \E p \in ToSet(segments') : seg'[p].id = s
    <3>1. PICK p \in ToSet(segments') : seg'[p] = OpenedSegment(s)
      BY <1>1
    <3>2. seg'[p].id = s
      BY <3>1, OpenedFields
    <3> QED BY <3>2
  <2>2. EachListed'
    BY <1>2, <1>3, <1>4, <2>1 DEF EachListed
  <2>3. \A p \in ToSet(segments') : seg'[p].id # seg'[active'].id
    BY <1>0, <1>3, <1>5
  <2>4. OneObject'
    BY <1>1, <1>4, <2>3 DEF OneObject
  <2> QED BY <2>2, <2>4
<1>7. AllInStep'
  <2>1. ASSUME NEW p \in Ptrs, p = active' PROVE InStep(p)'
    <3>1. seg'[p].id = now /\ now \in exists' /\ recs'[now] = {} /\ ~seg'[p].indexed
      BY <1>2, <1>3, <2>1
    <3> QED BY <3>1 DEF InStep
  <2>2. ASSUME NEW p \in ToSet(segments') PROVE InStep(p)'
    <3>1. PICK s \in exists :
            seg'[p].id = s /\ seg'[p].sent = sentFile[s] /\ seg'[p].indexed = FALSE
      BY <1>5
    <3>2. s \in exists' /\ sentFile' = sentFile /\ ~seg'[p].indexed
      BY <1>0, <1>2, <3>1
    <3> QED BY <3>1, <3>2 DEF InStep
  <2>3. ASSUME NEW p \in InUse' PROVE InStep(p)'
    <3>1. CASE p = active'
      BY <1>1, <2>1, <3>1
    <3>2. CASE p \in ToSet(segments')
      BY <2>2, <3>2
    <3> QED BY <1>4, <3>1, <3>2
  <2> QED BY <2>3 DEF AllInStep
<1>8. MarksReturned'
  <2>1. \A s \in Seconds : sentFile'[s] \subseteq marked'
    BY <1>0 DEF LogInv, MarksReturned
  <2>2. ASSUME NEW p \in Ptrs PROVE seg'[p].sent \subseteq marked'
    <3>1. CASE seg'[p] = FreshSegment(now)
      BY <3>1 DEF FreshSegment
    <3>2. CASE \E s \in exists : seg'[p] = OpenedSegment(s)
      <4>1. PICK s \in exists : seg'[p] = OpenedSegment(s)
        BY <3>2
      <4>2. s \in Seconds /\ seg'[p].sent = sentFile[s]
        BY <1>0, <4>1, OpenedFields DEF TypeOK
      <4> QED BY <1>0, <2>1, <4>2
    <3> QED BY <1>1, <3>1, <3>2
  <2> QED BY <2>1, <2>2 DEF MarksReturned
<1> QED BY <1>0, <1>2, <1>6, <1>7, <1>8 DEF DoomedSaved

\* A process that dies takes nothing on disk with it.
LEMMA LogDie ==
  ASSUME LogInv, Crash
  PROVE  /\ RecordsApart' /\ MarksReturned' /\ EachListed' /\ OneObject' /\ AllInStep'
         /\ DoomedSaved' /\ UNCHANGED Log!logVars
<1>1. /\ ~up' /\ doomed' = {} /\ UNCHANGED <<exists, recs, tail, sentFile, used, marked>>
      /\ \A p \in Ptrs : seg'[p].sent = {}
  BY DEF Crash, Die, disk, history, FreshSegment
<1>2. OnDisk' = OnDisk
  BY <1>1 DEF OnDisk, Readable
<1>3. RecordsApart' /\ MarksReturned'
  BY <1>1 DEF LogInv, RecordsApart, MarksReturned
<1> QED BY <1>1, <1>2, <1>3 DEF EachListed, OneObject, AllInStep, DoomedSaved, Log!logVars

\* Every step keeps memory and disk in step, and is one of RecordLog or none.
LEMMA LogNext ==
  ASSUME QuietEnvironment, LogInv, [Next]_vars
  PROVE  LogInv' /\ [Log!LogNext]_(Log!logVars)
<1>0. /\ LossInv' /\ TypeOK /\ TypeOK' /\ WholeFiles'
  <2>1. LossInv'
    BY LossNext DEF LogInv, QuietEnvironment
  <2> QED BY <2>1 DEF LogInv, LossInv
<1> SUFFICES /\ RecordsApart' /\ MarksReturned' /\ EachListed' /\ OneObject' /\ AllInStep'
             /\ DoomedSaved' /\ [Log!LogNext]_(Log!logVars)
  BY <1>0 DEF LogInv
<1>1. CASE \E r \in Records : Write(r)
  BY <1>0, <1>1, LogWrite DEF Log!LogNext
<1>2. CASE \E r \in Records : MarkSent(r)
  BY <1>0, <1>2, LogMark DEF Log!LogNext
<1>3. CASE \E r \in Records : MarkSentUnknown(r)
  <2>1. PICK r \in Records : MarkSentUnknown(r)
    BY <1>3
  <2>2. /\ UNCHANGED <<exists, recs, sentFile, up, segments, active, doomed, marked, used>>
        /\ \A p \in Ptrs : seg'[p] \in {Indexed(p), seg[p]}
    BY <2>1 DEF MarkSentUnknown, disk
  <2>3. \A p \in Ptrs : Indexed(p).id = seg[p].id /\ Indexed(p).sent = seg[p].sent
    BY <1>0, IndexedType
  <2>4. InUse' = InUse
    BY <2>2 DEF InUse
  <2> QED BY <1>0, <2>2, <2>3, <2>4, LogKept
<1>4. CASE \/ Tick \/ RotationCheck \/ CloseBegin \/ CloseFinish \/ UNCHANGED vars
           \/ \E r \in Records : WriteRefused(r)
  <2>1. /\ UNCHANGED <<exists, recs, sentFile, up, segments, active, doomed, marked>>
        /\ used \subseteq used'
    BY <1>4 DEF Tick, RotationCheck, CloseBegin, CloseFinish, WriteRefused, vars, disk, process,
       history
  <2>2. \A p \in Ptrs : /\ seg'[p].id = seg[p].id /\ seg'[p].sent = seg[p].sent
                        /\ seg'[p].indexed = seg[p].indexed /\ seg'[p].ids = seg[p].ids
    <3>1. CASE CloseFinish
      BY <1>0, <3>1 DEF CloseFinish, TypeOK, Segment
    <3>2. CASE seg' = seg
      BY <3>2
    <3> QED BY <1>4, <3>1, <3>2 DEF Tick, RotationCheck, CloseBegin, WriteRefused, vars, process
  <2>3. InUse' = InUse
    BY <2>1 DEF InUse
  <2> QED BY <1>0, <2>1, <2>2, <2>3, LogKept
<1>5. CASE RotateSpawned \/ RotateInLoop
  BY <1>0, <1>5, LogRotate DEF RotateSpawned, RotateInLoop
<1>6. CASE DeleteSentRecords \/ \E p \in Ptrs : RemoveSegment(p)
  BY <1>0, <1>6, LogDelete, LogRemove
<1>7. CASE Crash \/ Start
  BY <1>0, <1>7, LogDie, LogStart
<1>8. CASE \E r \in Records : \/ WriteFails(r) \/ CrashInWrite(r) \/ CrashInSave(r)
                              \/ MarkSentUnsaved(r) \/ MarkSentByNext(r)
  BY <1>8 DEF WriteFails, CrashInWrite, Torn, MarkSentUnsaved, MarkSentByNext, CrashInSave, QuietEnvironment,
     SoundEnvironment
<1> QED BY <1>1, <1>2, <1>3, <1>4, <1>5, <1>6, <1>7, <1>8 DEF Next

\* The running process and a restart hand out the same records.
LEMMA LogInvImplies == LogInv => IndexAgrees
<1> SUFFICES ASSUME LogInv, up, NEW r PROVE r \in GetUnsentRecords <=> r \in OnDisk
  BY DEF IndexAgrees
<1>1. TypeOK /\ WholeFiles
  BY DEF LogInv, LossInv
<1>2. \A p \in InUse : InStep(p)
  BY DEF LogInv, AllInStep
<1>3. r \in OnDisk <=> \E s \in exists : r \in recs[s] \ sentFile[s]
  BY <1>1, WholeReadable DEF OnDisk
<1>4. r \in GetUnsentRecords <=>
        \E p \in InUse : seg[p].id \in exists /\ r \in recs[seg[p].id] \ seg[p].sent
  <2>1. \A p \in InUse : UnsentOf(p) = IF seg[p].id \in exists
                                       THEN recs[seg[p].id] \ seg[p].sent ELSE {}
    BY <1>1, WholeReadable DEF UnsentOf, Readable
  <2> QED BY <2>1 DEF GetUnsentRecords
<1>5. \A p \in InUse : seg[p].id \in exists =>
        recs[seg[p].id] \ seg[p].sent = recs[seg[p].id] \ sentFile[seg[p].id]
  BY <1>2 DEF InStep
<1>6. \A s \in exists : \E p \in InUse : seg[p].id = s
  BY DEF LogInv, EachListed
<1> QED BY <1>3, <1>4, <1>5, <1>6

\* As long as, besides, no companion file is left truncated, the indexes in
\* memory and those on disk say the same of every record, ...
THEOREM MemoryAgreesWithDisk ==
  ASSUME QuietEnvironment
  PROVE  Spec => []IndexAgrees
<1>1. Init => LogInv
  BY LogInit
<1>2. LogInv /\ [Next]_vars => LogInv'
  BY LogNext
<1> QED BY <1>1, <1>2, LogInvImplies, PTL DEF Spec

\* ... and the log keeps its promise to the callers: a record is pending from its
\* Write to its MarkSent, through rotations, deletions and restarts.
THEOREM RefinesRecordLog ==
  ASSUME QuietEnvironment
  PROVE  Spec => LogSpec
<1>1. Init => LogInv /\ Log!LogInit
  BY LogInit
<1>2. LogInv /\ [Next]_vars => LogInv' /\ [Log!LogNext]_(Log!logVars)
  BY LogNext
<1> QED BY <1>1, <1>2, PTL DEF Spec, LogSpec, Log!LogSpec

\* So no record comes back once MarkSent has returned for it: in RecordLog what is done
\* stays done, and only what is not is written.
THEOREM NothingComesBack ==
  ASSUME QuietEnvironment
  PROVE  Spec => []NoneComesBack
<1>1. Log!LogInit => NoneComesBack
  BY DEF Log!LogInit, NoneComesBack
<1>2. NoneComesBack /\ [Log!LogNext]_(Log!logVars) => NoneComesBack'
  BY DEF NoneComesBack, Log!LogNext, Log!Append, Log!Settle, Log!logVars
<1>3. LogSpec => []NoneComesBack
  BY <1>1, <1>2, PTL DEF LogSpec, Log!LogSpec
<1> QED BY <1>3, RefinesRecordLog, PTL
=============================================================================
