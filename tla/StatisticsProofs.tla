-------------------------- MODULE StatisticsProofs --------------------------
(***************************************************************************)
(* Proofs about the statistics that customers and admins are shown         *)
(* (Statistics), for any contents of the databases, any windows and any    *)
(* writes between the queries of a request.                                *)
(***************************************************************************)
EXTENDS Statistics, CollectionTheorems, SequenceTheorems

----------------------------------------------------------------------------
\* The tables and their sums.

TablesFit ==
    /\ storage \in Seq(StorageRow)
    /\ bandwidth \in Seq(BandwidthRow)
    /\ buckets \in [Buckets -> BucketRow]
    /\ users \in [Users -> Account]

(* Days and the midnights that begin them are numbers.                      *)
LEMMA DayNumber ==
    ASSUME NEW t \in Nat
    PROVE  /\ Day(t) \in Nat
           /\ \E r \in 0..(SlotsPerDay - 1) : t = Midnight(Day(t)) + r
<1>1. SlotsPerDay \in Nat /\ SlotsPerDay >= 1
  BY ClockAssumption
<1>2. PICK d \in Nat : d = t \div SlotsPerDay
  BY <1>1, Division
<1>3. PICK r \in 0..(SlotsPerDay - 1) : t = SlotsPerDay * d + r
  BY <1>1, <1>2, Division, ZenonT(60)
<1>4. t = d * SlotsPerDay + r
  BY <1>1, <1>3
<1> QED BY <1>2, <1>4 DEF Day, Midnight

(* A midnight belongs to the day that it begins.                            *)
LEMMA MidnightDay ==
    ASSUME NEW d \in Nat, NEW r \in 0..(SlotsPerDay - 1)
    PROVE  Midnight(d) \in Nat /\ Day(Midnight(d) + r) = d
<1>1. SlotsPerDay \in Nat /\ SlotsPerDay >= 1
  BY ClockAssumption
<1>2. PICK m \in Nat : m = d * SlotsPerDay
  BY <1>1
<1>3. PICK t \in Nat : t = d * SlotsPerDay + r
  BY <1>1, <1>2
<1>4. t \div SlotsPerDay = d
  BY <1>1, <1>3, Quotient
<1> QED BY <1>2, <1>3, <1>4 DEF Day, Midnight

(* The next midnight comes after all instants of a day.                     *)
LEMMA MidnightOrder ==
    ASSUME NEW d \in Nat, NEW e \in Nat, d < e
    PROVE  Midnight(d) + SlotsPerDay <= Midnight(e)
<1>1. SlotsPerDay \in Nat /\ SlotsPerDay >= 1
  BY ClockAssumption
<1>2. PICK k \in Nat : e = d + 1 + k
  <2>1. e - d - 1 \in Nat /\ e = d + 1 + (e - d - 1)
    OBVIOUS
  <2> QED BY <2>1
<1>3. e * SlotsPerDay = d * SlotsPerDay + SlotsPerDay + k * SlotsPerDay
  BY <1>1, <1>2
<1>4. k * SlotsPerDay \in Nat /\ d * SlotsPerDay \in Nat
  BY <1>1, <1>2
<1> QED BY <1>1, <1>3, <1>4 DEF Midnight

(* Days follow each other as their instants do.                             *)
LEMMA DaysInOrder ==
    ASSUME NEW s \in Nat, NEW t \in Nat, s <= t
    PROVE  Day(s) <= Day(t)
<1>1. PICK d \in Nat : d = Day(s)
  BY DayNumber
<1>2. PICK e \in Nat : e = Day(t)
  BY DayNumber
<1>3. PICK q \in 0..(SlotsPerDay - 1) : s = Midnight(d) + q
  BY <1>1, DayNumber
<1>4. PICK r \in 0..(SlotsPerDay - 1) : t = Midnight(e) + r
  BY <1>2, DayNumber
<1>5. Midnight(d) \in Nat /\ Midnight(e) \in Nat
  BY ClockAssumption, MidnightDay
<1>6. SlotsPerDay \in Nat
  BY ClockAssumption
<1>7. ASSUME e < d
      PROVE  FALSE
  <2>1. Midnight(e) + SlotsPerDay <= Midnight(d)
    BY <1>7, MidnightOrder
  <2> QED BY <2>1, <1>3, <1>4, <1>5, <1>6
<1> QED BY <1>1, <1>2, <1>7

\* The fields of the contents of a bucket.
Columns == {"files", "folders", "versions", "bytes"}

(* A bucket has numbers of everything.                                      *)
LEMMA ContentsTyped ==
    ASSUME TablesFit, NEW b \in Buckets, NEW column \in Columns
    PROVE  buckets[b].contents[column] \in Nat
<1>1. PICK c \in [files : Nat, folders : Nat, versions : Nat, bytes : Nat] :
          c = buckets[b].contents
  BY DEF TablesFit, BucketRow, Contents
<1> QED BY <1>1 DEF Columns

(* So has any set of buckets.                                               *)
LEMMA SumTyped ==
    ASSUME TablesFit, NEW column \in Columns, NEW names, names \subseteq Buckets
    PROVE  Sum(column, names) \in Nat
<1>1. PICK f : f = [b \in Buckets |-> buckets[b].contents[column]]
  OBVIOUS
<1>2. \A b \in names : f[b] \in Nat
  BY <1>1, ContentsTyped
<1>3. IsFiniteSet(names)
  BY NamesAssumption, FS_Subset
<1>4. SumOver(f, names) \in Nat
  BY <1>2, <1>3, SumNat
<1> QED BY <1>1, <1>4 DEF Sum

(* Rows of a table are finitely many.                                       *)
LEMMA RowsFinite ==
    ASSUME NEW R, NEW table \in Seq(R), NEW I, I \subseteq DOMAIN table
    PROVE  IsFiniteSet(I)
<1>1. DOMAIN table = 1..Len(table) /\ Len(table) \in Nat
  OBVIOUS
<1>2. IsFiniteSet(1..Len(table))
  BY <1>1, FS_Interval
<1> QED BY <1>1, <1>2, FS_Subset

(* Traffic is a number.                                                     *)
LEMMA TrafficTyped ==
    ASSUME TablesFit, NEW I, I \subseteq DOMAIN bandwidth
    PROVE  IsFiniteSet(I) /\ Traffic(I) \in Nat
<1>1. PICK f : f = [i \in DOMAIN bandwidth |-> bandwidth[i].size]
  OBVIOUS
<1>2. \A i \in DOMAIN bandwidth : bandwidth[i] \in BandwidthRow
  BY DEF TablesFit
<1>3. \A i \in I : f[i] \in Nat
  BY <1>1, <1>2 DEF BandwidthRow
<1>4. IsFiniteSet(I)
  BY RowsFinite DEF TablesFit
<1>5. SumOver(f, I) \in Nat
  BY <1>3, <1>4, SumNat
<1> QED BY <1>1, <1>4, <1>5 DEF Traffic

(* So is the number of some names.                                          *)
LEMMA NamesCounted ==
    ASSUME NEW names, names \subseteq Buckets \/ names \subseteq Users
    PROVE  IsFiniteSet(names) /\ Cardinality(names) \in Nat
  BY NamesAssumption, FS_Subset, FS_CardinalityType

----------------------------------------------------------------------------
\* The loop that merges the groups of a day.

UsageRecord == [day : Nat, upload : Nat, download : Nat]
GroupRow == [day : Nat, type : Direction, bandwidth : Nat]

\* The record that a group leaves of another one.
Joined(record, row) == [record EXCEPT ![row.type] = row.bandwidth]

(* It keeps the day and the other type.                                     *)
LEMMA JoinedRecord ==
    ASSUME NEW record \in UsageRecord, NEW row \in GroupRow
    PROVE  /\ Joined(record, row) \in UsageRecord
           /\ Joined(record, row).day = record.day
           /\ Joined(record, row)[row.type] = row.bandwidth
           /\ \A t \in Direction : t # row.type => Joined(record, row)[t] = record[t]
<1>1. PICK d \in Nat, a \in Nat, b \in Nat : record = [day |-> d, upload |-> a, download |-> b]
  BY DEF UsageRecord
<1>2. row.bandwidth \in Nat /\ row.type \in Direction
  BY DEF GroupRow
<1>3. CASE row.type = "upload"
  <2>1. Joined(record, row) = [day |-> d, upload |-> row.bandwidth, download |-> b]
    BY <1>1, <1>3 DEF Joined
  <2> QED BY <2>1, <1>1, <1>2, <1>3 DEF UsageRecord, Direction
<1>4. CASE row.type = "download"
  <2>1. Joined(record, row) = [day |-> d, upload |-> a, download |-> row.bandwidth]
    BY <1>1, <1>4 DEF Joined
  <2> QED BY <2>1, <1>1, <1>2, <1>4 DEF UsageRecord, Direction
<1> QED BY <1>2, <1>3, <1>4 DEF Direction

\* Whether a group goes into the last record.
Joins(R, row) == R # <<>> /\ Last(R).day = row.day

\* Records of these groups, up to the k-th.
Merged(R, groups, k) ==
    /\ R \in Seq(UsageRecord)
    /\ k = 0 => R = <<>>
    /\ k > 0 => R # <<>> /\ R[Len(R)].day = groups[k].day
    /\ \A i, j \in 1..Len(R) : i < j => R[i].day < R[j].day
    /\ \A g \in 1..k : \E i \in 1..Len(R) : R[i].day = groups[g].day
    /\ \A i \in 1..Len(R) : \E g \in 1..k : groups[g].day = R[i].day
    /\ \A i \in 1..Len(R), g \in 1..k :
          groups[g].day = R[i].day => R[i][groups[g].type] = groups[g].bandwidth
    /\ \A i \in 1..Len(R), t \in Direction :
          (\A g \in 1..k : groups[g].day = R[i].day => groups[g].type # t) => R[i][t] = 0

\* Groups as the query returns them.
Grouped(groups) ==
    /\ groups \in Seq(GroupRow)
    /\ \A g, h \in 1..Len(groups) : g < h => groups[g].day <= groups[h].day
    /\ \A g, h \in 1..Len(groups) :
          groups[g].day = groups[h].day /\ groups[g].type = groups[h].type => g = h

(* A group that joins the last record.                                      *)
LEMMA MergeJoins ==
    ASSUME NEW groups, Grouped(groups), NEW k \in 1..Len(groups),
           NEW R, Merged(R, groups, k - 1), Joins(R, groups[k])
    PROVE  Merged(Merge(R, groups[k]), groups, k)
<1>1. PICK n \in Nat : n = Len(R) /\ n >= 1
  BY DEF Merged, Joins
<1>2. PICK row \in GroupRow : row = groups[k]
  BY DEF Grouped
<1>3. R \in Seq(UsageRecord) /\ R[n] \in UsageRecord /\ R[n].day = row.day
  BY <1>1, <1>2 DEF Merged, Joins, Last
<1>4. PICK new \in UsageRecord : new = Joined(R[n], row)
  BY <1>3, JoinedRecord
<1>5. /\ new.day = row.day /\ new[row.type] = row.bandwidth
      /\ \A t \in Direction : t # row.type => new[t] = R[n][t]
  BY <1>3, <1>4, JoinedRecord
<1>6. PICK M : M = Merge(R, row)
  OBVIOUS
<1>7. M = Append(SubSeq(R, 1, n - 1), new)
  BY <1>1, <1>2, <1>4, <1>6 DEF Merge, Joins, Joined, Front, Last
<1>8. M \in Seq(UsageRecord) /\ Len(M) = n /\ M[n] = new /\ \A i \in 1..(n - 1) : M[i] = R[i]
  BY <1>1, <1>3, <1>7
<1>9. k \in Nat /\ k >= 1 /\ k - 1 \in Nat /\ Len(groups) \in Nat
  BY DEF Grouped
<1>10. \A i \in 1..n : M[i].day = R[i].day
  BY <1>1, <1>3, <1>5, <1>8
<1>11. \A i \in 1..n : R[i].day \in Nat
  <2> SUFFICES ASSUME NEW i \in 1..n PROVE R[i].day \in Nat
    OBVIOUS
  <2>1. R[i] \in UsageRecord
    BY <1>1, <1>3
  <2> QED BY <2>1 DEF UsageRecord
<1>12. \A i, j \in 1..n : i < j => M[i].day < M[j].day
  BY <1>1, <1>10 DEF Merged
<1>13. \A g \in 1..k : \E i \in 1..n : M[i].day = groups[g].day
  <2> SUFFICES ASSUME NEW g \in 1..k
               PROVE  \E i \in 1..n : M[i].day = groups[g].day
    OBVIOUS
  <2>1. CASE g = k
    BY <2>1, <1>1, <1>2, <1>5, <1>8
  <2>2. CASE g # k
    <3>1. g \in 1..(k - 1)
      BY <2>2, <1>9
    <3>2. PICK i \in 1..n : R[i].day = groups[g].day
      BY <3>1, <1>1 DEF Merged
    <3> QED BY <3>2, <1>10
  <2> QED BY <2>1, <2>2
<1>14. \A i \in 1..n : \E g \in 1..k : groups[g].day = M[i].day
  <2> SUFFICES ASSUME NEW i \in 1..n
               PROVE  \E g \in 1..k : groups[g].day = M[i].day
    OBVIOUS
  <2>1. PICK g \in 1..(k - 1) : groups[g].day = R[i].day
    BY <1>1 DEF Merged
  <2>2. g \in 1..k
    BY <1>9
  <2> QED BY <2>1, <2>2, <1>10
<1>15. ASSUME NEW i \in 1..n, NEW g \in 1..k, groups[g].day = M[i].day
       PROVE  M[i][groups[g].type] = groups[g].bandwidth
  <2>1. groups[g].day = R[i].day
    BY <1>15, <1>10
  <2>2. g \in 1..Len(groups) /\ k \in 1..Len(groups)
    BY <1>9
  <2>3. groups[g] \in GroupRow
    BY <2>2 DEF Grouped
  <2>4. CASE i = n
    <3>1. CASE g = k
      BY <2>4, <3>1, <1>2, <1>5, <1>8
    <3>2. CASE g # k
      <4>1. g \in 1..(k - 1)
        BY <3>2, <1>9
      <4>2. groups[g].type # row.type
        BY <2>1, <2>2, <2>4, <3>2, <1>2, <1>3 DEF Grouped
      <4>3. R[n][groups[g].type] = groups[g].bandwidth
        BY <4>1, <2>1, <2>4, <1>1 DEF Merged
      <4>4. groups[g].type \in Direction
        BY <2>3 DEF GroupRow
      <4> QED BY <4>2, <4>3, <4>4, <2>4, <1>5, <1>8
    <3> QED BY <3>1, <3>2
  <2>5. CASE i # n
    <3>1. i \in 1..(n - 1)
      BY <2>5, <1>1
    <3>2. g # k
      <4>0. i \in 1..n /\ n \in 1..n /\ i < n
        BY <3>1, <1>1
      <4>1. R[i].day < R[n].day
        BY <4>0, <1>1 DEF Merged
      <4> QED BY <4>1, <2>1, <1>2, <1>3, <1>11, <1>1
    <3>3. g \in 1..(k - 1)
      BY <3>2, <1>9
    <3>4. R[i][groups[g].type] = groups[g].bandwidth
      BY <3>3, <2>1, <1>1 DEF Merged
    <3> QED BY <3>1, <3>4, <1>8
  <2> QED BY <2>4, <2>5
<1>16. ASSUME NEW i \in 1..n, NEW t \in Direction,
              \A g \in 1..k : groups[g].day = M[i].day => groups[g].type # t
       PROVE  M[i][t] = 0
  <2>1. \A g \in 1..(k - 1) : groups[g].day = R[i].day => groups[g].type # t
    BY <1>9, <1>10, <1>16
  <2>2. R[i][t] = 0
    BY <2>1, <1>1 DEF Merged
  <2>3. CASE i = n
    <3>1. row.type # t
      <4>1. k \in 1..k /\ groups[k].day = M[n].day
        BY <1>2, <1>5, <1>8, <1>9
      <4> QED BY <4>1, <2>3, <1>2, <1>16
    <3> QED BY <3>1, <2>2, <2>3, <1>5, <1>8
  <2>4. CASE i # n
    BY <2>2, <2>4, <1>1, <1>8
  <2> QED BY <2>3, <2>4
<1>17. M # <<>> /\ M[Len(M)].day = groups[k].day
  BY <1>1, <1>2, <1>5, <1>8
<1>18. Merged(M, groups, k)
  BY <1>8, <1>9, <1>12, <1>13, <1>14, <1>15, <1>16, <1>17 DEF Merged
<1> QED BY <1>2, <1>6, <1>18

(* A group that begins a record.                                            *)
LEMMA MergeAppends ==
    ASSUME NEW groups, Grouped(groups), NEW k \in 1..Len(groups),
           NEW R, Merged(R, groups, k - 1), ~ Joins(R, groups[k])
    PROVE  Merged(Merge(R, groups[k]), groups, k)
<1>1. PICK n \in Nat : n = Len(R)
  BY DEF Merged
<1>2. PICK row \in GroupRow : row = groups[k]
  BY DEF Grouped
<1>3. R \in Seq(UsageRecord)
  BY DEF Merged
<1>4. row.day \in Nat /\ row.type \in Direction
  BY <1>2 DEF GroupRow
<1>5. NoTraffic(row.day) \in UsageRecord
  BY <1>4 DEF NoTraffic, UsageRecord
<1>6. PICK new \in UsageRecord : new = Joined(NoTraffic(row.day), row)
  BY <1>5, JoinedRecord
<1>7. /\ new.day = row.day /\ new[row.type] = row.bandwidth
      /\ \A t \in Direction : t # row.type => new[t] = 0
  <2>1. NoTraffic(row.day).day = row.day /\ \A t \in Direction : NoTraffic(row.day)[t] = 0
    BY DEF NoTraffic, Direction
  <2> QED BY <2>1, <1>5, <1>6, JoinedRecord
<1>8. PICK M : M = Merge(R, row)
  OBVIOUS
<1>9. M = Append(R, new)
  BY <1>2, <1>6, <1>8 DEF Merge, Joins, Joined
<1>10. M \in Seq(UsageRecord) /\ Len(M) = n + 1 /\ M[n + 1] = new /\ \A i \in 1..n : M[i] = R[i]
  BY <1>1, <1>3, <1>9
<1>11. k \in Nat /\ k >= 1 /\ k - 1 \in Nat /\ Len(groups) \in Nat /\ k <= Len(groups)
  BY DEF Grouped
<1>12. \A i \in 1..n : R[i].day \in Nat
  <2> SUFFICES ASSUME NEW i \in 1..n PROVE R[i].day \in Nat
    OBVIOUS
  <2>1. R[i] \in UsageRecord
    BY <1>1, <1>3
  <2> QED BY <2>1 DEF UsageRecord
<1>13. \A i \in 1..n : R[i].day < row.day
  <2> SUFFICES ASSUME NEW i \in 1..n
               PROVE  R[i].day < row.day
    OBVIOUS
  <2>1. n >= 1 /\ R # <<>> /\ k - 1 > 0
    BY <1>1, <1>11 DEF Merged
  <2>2. R[n].day = groups[k - 1].day
    BY <2>1, <1>1 DEF Merged
  <2>3. R[n].day # row.day
    BY <2>1, <1>1, <1>2 DEF Joins, Last
  <2>4. k - 1 \in 1..Len(groups) /\ k \in 1..Len(groups)
    BY <2>1, <1>11
  <2>5. groups[k - 1].day <= row.day
    BY <2>4, <1>2 DEF Grouped
  <2>6. i = n \/ R[i].day < R[n].day
    <3>1. n \in 1..n /\ (i = n \/ i < n)
      BY <1>1, <2>1
    <3> QED BY <3>1, <1>1 DEF Merged
  <2>7. R[i].day \in Nat /\ R[n].day \in Nat
    BY <1>12, <2>1
  <2> QED BY <2>2, <2>3, <2>5, <2>6, <2>7, <1>4
<1>14. \A i, j \in 1..(n + 1) : i < j => M[i].day < M[j].day
  <2> SUFFICES ASSUME NEW i \in 1..(n + 1), NEW j \in 1..(n + 1), i < j
               PROVE  M[i].day < M[j].day
    OBVIOUS
  <2>1. i \in 1..n
    OBVIOUS
  <2>2. CASE j = n + 1
    BY <2>1, <2>2, <1>7, <1>10, <1>13
  <2>3. CASE j # n + 1
    <3>1. j \in 1..n
      BY <2>3
    <3>2. R[i].day < R[j].day
      BY <2>1, <3>1, <1>1 DEF Merged
    <3> QED BY <2>1, <3>1, <3>2, <1>10
  <2> QED BY <2>2, <2>3
<1>15. \A g \in 1..k : \E i \in 1..(n + 1) : M[i].day = groups[g].day
  <2> SUFFICES ASSUME NEW g \in 1..k
               PROVE  \E i \in 1..(n + 1) : M[i].day = groups[g].day
    OBVIOUS
  <2>1. CASE g = k
    BY <2>1, <1>2, <1>7, <1>10
  <2>2. CASE g # k
    <3>1. g \in 1..(k - 1)
      BY <2>2, <1>11
    <3>2. PICK i \in 1..n : R[i].day = groups[g].day
      BY <3>1, <1>1 DEF Merged
    <3>3. i \in 1..(n + 1)
      OBVIOUS
    <3> QED BY <3>2, <3>3, <1>10
  <2> QED BY <2>1, <2>2
<1>16. \A i \in 1..(n + 1) : \E g \in 1..k : groups[g].day = M[i].day
  <2> SUFFICES ASSUME NEW i \in 1..(n + 1)
               PROVE  \E g \in 1..k : groups[g].day = M[i].day
    OBVIOUS
  <2>1. CASE i = n + 1
    BY <2>1, <1>2, <1>7, <1>10, <1>11
  <2>2. CASE i # n + 1
    <3>1. i \in 1..n
      BY <2>2
    <3>2. PICK g \in 1..(k - 1) : groups[g].day = R[i].day
      BY <3>1, <1>1 DEF Merged
    <3>3. g \in 1..k
      BY <1>11
    <3> QED BY <3>1, <3>2, <3>3, <1>10
  <2> QED BY <2>1, <2>2
<1>17. \A g \in 1..(k - 1) : groups[g].day # row.day
  <2> SUFFICES ASSUME NEW g \in 1..(k - 1)
               PROVE  groups[g].day # row.day
    OBVIOUS
  <2>1. PICK i \in 1..n : R[i].day = groups[g].day
    BY <1>1 DEF Merged
  <2> QED BY <2>1, <1>4, <1>12, <1>13
<1>18. ASSUME NEW i \in 1..(n + 1), NEW g \in 1..k, groups[g].day = M[i].day
       PROVE  M[i][groups[g].type] = groups[g].bandwidth
  <2>1. CASE i = n + 1
    <3>1. groups[g].day = row.day
      BY <2>1, <1>7, <1>10, <1>18
    <3>2. g = k
      BY <3>1, <1>11, <1>17
    <3> QED BY <3>2, <2>1, <1>2, <1>7, <1>10
  <2>2. CASE i # n + 1
    <3>1. i \in 1..n
      BY <2>2
    <3>2. groups[g].day = R[i].day
      BY <3>1, <1>10, <1>18
    <3>3. g # k
      BY <3>1, <3>2, <1>2, <1>4, <1>12, <1>13
    <3>4. g \in 1..(k - 1)
      BY <3>3, <1>11
    <3>5. R[i][groups[g].type] = groups[g].bandwidth
      BY <3>1, <3>2, <3>4, <1>1 DEF Merged
    <3> QED BY <3>1, <3>5, <1>10
  <2> QED BY <2>1, <2>2
<1>19. ASSUME NEW i \in 1..(n + 1), NEW t \in Direction,
              \A g \in 1..k : groups[g].day = M[i].day => groups[g].type # t
       PROVE  M[i][t] = 0
  <2>1. CASE i = n + 1
    <3>1. k \in 1..k /\ groups[k].day = M[i].day
      BY <2>1, <1>2, <1>7, <1>10, <1>11
    <3>2. t # row.type
      BY <3>1, <1>2, <1>19
    <3> QED BY <3>2, <2>1, <1>7, <1>10
  <2>2. CASE i # n + 1
    <3>1. i \in 1..n
      BY <2>2
    <3>2. \A g \in 1..(k - 1) : groups[g].day = R[i].day => groups[g].type # t
      BY <3>1, <1>10, <1>11, <1>19
    <3>3. R[i][t] = 0
      BY <3>1, <3>2, <1>1 DEF Merged
    <3> QED BY <3>1, <3>3, <1>10
  <2> QED BY <2>1, <2>2
<1>20. M # <<>> /\ M[Len(M)].day = groups[k].day
  BY <1>2, <1>7, <1>10
<1>21. Merged(M, groups, k)
  BY <1>10, <1>11, <1>14, <1>15, <1>16, <1>18, <1>19, <1>20 DEF Merged
<1> QED BY <1>2, <1>8, <1>21

(* What the loop makes of all groups.                                       *)
LEMMA MergedAll ==
    ASSUME NEW groups, Grouped(groups)
    PROVE  Merged(MergedByDay(groups), groups, Len(groups))
<1>1. PICK N \in Nat : N = Len(groups)
  BY DEF Grouped
<1>2. PICK V : V = Seq(UsageRecord)
  OBVIOUS
<1>3. PICK next : next = [n \in 1..N |-> [R \in V |-> Merge(R, groups[n])]]
  OBVIOUS
<1>4. ASSUME NEW n \in 1..N, NEW R \in V
      PROVE  Merge(R, groups[n]) \in V
  <2>1. groups[n] \in GroupRow
    BY <1>1, <1>4 DEF Grouped
  <2>2. NoTraffic(groups[n].day) \in UsageRecord
    BY <2>1 DEF GroupRow, NoTraffic, UsageRecord
  <2>3. Joined(NoTraffic(groups[n].day), groups[n]) \in UsageRecord
    BY <2>1, <2>2, JoinedRecord
  <2>4. CASE Joins(R, groups[n])
    <3>1. Len(R) \in Nat /\ Len(R) >= 1 /\ R \in Seq(UsageRecord)
      BY <2>4, <1>2 DEF Joins
    <3>2. Last(R) \in UsageRecord /\ Front(R) \in Seq(UsageRecord)
      BY <3>1 DEF Last, Front
    <3>3. Joined(Last(R), groups[n]) \in UsageRecord
      BY <3>2, <2>1, JoinedRecord
    <3>4. Merge(R, groups[n]) = Append(Front(R), Joined(Last(R), groups[n]))
      BY <2>4 DEF Merge, Joins, Joined
    <3> QED BY <3>2, <3>3, <3>4, <1>2
  <2>5. CASE ~ Joins(R, groups[n])
    <3>1. Merge(R, groups[n]) = Append(R, Joined(NoTraffic(groups[n].day), groups[n]))
      BY <2>5 DEF Merge, Joins, Joined
    <3> QED BY <3>1, <2>3, <1>2
  <2> QED BY <2>4, <2>5
<1>5. next \in [1..N -> [V -> V]]
  BY <1>3, <1>4
<1>6. <<>> \in V
  BY <1>2
<1>7. PICK it : IsLoop(it, N, V, <<>>, next)
  BY <1>5, <1>6, LoopExists
<1>8. it = [n \in 0..N |-> IF n = 0 THEN <<>> ELSE Merge(it[n - 1], groups[n])]
  <2>1. \A n \in 1..N : it[n] = Merge(it[n - 1], groups[n])
    <3> SUFFICES ASSUME NEW n \in 1..N
                 PROVE  it[n] = Merge(it[n - 1], groups[n])
      OBVIOUS
    <3>1. n - 1 \in 0..N
      OBVIOUS
    <3>2. it[n - 1] \in V
      BY <3>1, <1>7 DEF IsLoop
    <3> QED BY <3>2, <1>3, <1>7 DEF IsLoop
  <2> QED BY <2>1, <1>7 DEF IsLoop
<1>9. PICK res : /\ res = [n \in 0..N |-> IF n = 0 THEN <<>> ELSE Merge(res[n - 1], groups[n])]
                 /\ MergedByDay(groups) = res[N]
  <2>1. PICK res : res = CHOOSE result : result =
            [n \in 0..Len(groups) |-> IF n = 0 THEN <<>> ELSE Merge(result[n - 1], groups[n])]
    OBVIOUS
  <2>2. res = [n \in 0..Len(groups) |-> IF n = 0 THEN <<>> ELSE Merge(res[n - 1], groups[n])]
    BY <2>1, <1>1, <1>8
  <2>3. MergedByDay(groups) = res[Len(groups)]
    BY <2>1 DEF MergedByDay
  <2> QED BY <2>2, <2>3, <1>1
<1>10. Merged(res[N], groups, N)
  <2> SUFFICES ASSUME ~ Merged(res[N], groups, N)
               PROVE  FALSE
    OBVIOUS
  <2>1. PICK F : F = {k \in 0..N : ~ Merged(res[k], groups, k)}
    OBVIOUS
  <2>2. PICK k \in F : \A m \in F : k <= m
    <3>1. F \subseteq Nat /\ N \in F
      BY <2>1
    <3> QED BY <3>1, Least
  <2>3. k \in 0..N /\ ~ Merged(res[k], groups, k)
    BY <2>1, <2>2
  <2>4. k # 0
    <3>1. res[0] = <<>>
      BY <1>9
    <3>2. Merged(<<>>, groups, 0)
      BY DEF Merged
    <3> QED BY <3>1, <3>2, <2>3
  <2>5. k \in 1..N /\ k - 1 \in 0..N /\ k - 1 \notin F
    BY <2>2, <2>3, <2>4
  <2>6. Merged(res[k - 1], groups, k - 1)
    BY <2>1, <2>5
  <2>7. res[k] = Merge(res[k - 1], groups[k])
    BY <2>5, <1>9
  <2>8. k \in 1..Len(groups)
    BY <2>5, <1>1
  <2>9. Merged(Merge(res[k - 1], groups[k]), groups, k)
    BY <2>6, <2>8, MergeJoins, MergeAppends
  <2> QED BY <2>3, <2>7, <2>9
<1> QED BY <1>1, <1>9, <1>10

----------------------------------------------------------------------------
\* The query that groups the traffic of a user.

Found(u, w) == {i \in RowsOf(bandwidth, u) : InWindow(bandwidth[i], w)}
KeyOf(i) == <<Day(bandwidth[i].at), bandwidth[i].type>>
KeysOf(I) == {KeyOf(i) : i \in I}
Numbers(keys, first) == [k \in keys |-> 2 * k[1] + IF k[2] = first THEN 0 ELSE 1]
OfDay(u, w, d, type) ==
    {i \in Found(u, w) : Day(bandwidth[i].at) = d /\ bandwidth[i].type = type}

\* Groups are those of the rows found.
GroupsOf(groups, u, w) ==
    /\ Grouped(groups)
    /\ \A g \in 1..Len(groups) :
          groups[g].bandwidth = Traffic(OfDay(u, w, groups[g].day, groups[g].type))
    /\ \A i \in Found(u, w) : \E g \in 1..Len(groups) :
          groups[g].day = Day(bandwidth[i].at) /\ groups[g].type = bandwidth[i].type
    /\ \A g \in 1..Len(groups) : \E i \in Found(u, w) :
          groups[g].day = Day(bandwidth[i].at) /\ groups[g].type = bandwidth[i].type

(* A row of traffic.                                                        *)
LEMMA TrafficRow ==
    ASSUME TablesFit, NEW i \in DOMAIN bandwidth
    PROVE  /\ bandwidth[i] \in BandwidthRow
           /\ bandwidth[i].at \in Nat /\ Day(bandwidth[i].at) \in Nat
           /\ bandwidth[i].type \in Direction /\ bandwidth[i].user \in Users
<1>1. bandwidth[i] \in BandwidthRow
  BY DEF TablesFit
<1>2. bandwidth[i].at \in Nat
  BY <1>1, ClockAssumption DEF BandwidthRow
<1> QED BY <1>1, <1>2, DayNumber DEF BandwidthRow

(* The keys of some rows have numbers that order them by days.              *)
LEMMA KeysNumbered ==
    ASSUME TablesFit, NEW I, I \subseteq DOMAIN bandwidth, NEW first \in Direction
    PROVE  /\ IsFiniteSet(KeysOf(I))
           /\ KeysOf(I) \subseteq Nat \X Direction
           /\ Numbered(KeysOf(I), Numbers(KeysOf(I), first))
           /\ \A k, l \in KeysOf(I) :
                 Numbers(KeysOf(I), first)[k] < Numbers(KeysOf(I), first)[l] => k[1] <= l[1]
<1>1. PICK K : K = KeysOf(I)
  OBVIOUS
<1>2. IsFiniteSet(I)
  BY TrafficTyped
<1>3. IsFiniteSet(K)
  <2>1. PICK h : h = [i \in I |-> KeyOf(i)]
    OBVIOUS
  <2>2. h \in Surjection(I, K)
    BY <2>1, <1>1 DEF Surjection, KeysOf
  <2> QED BY <2>2, <1>2, FS_Surjection
<1>4. K \subseteq Nat \X Direction
  <2> SUFFICES ASSUME NEW i \in I
               PROVE  KeyOf(i) \in Nat \X Direction
    BY <1>1 DEF KeysOf
  <2>1. Day(bandwidth[i].at) \in Nat /\ bandwidth[i].type \in Direction
    BY TrafficRow
  <2> QED BY <2>1 DEF KeyOf
<1>5. PICK number : number = Numbers(K, first)
  OBVIOUS
<1>6. ASSUME NEW k \in K, NEW l \in K
      PROVE  /\ number[k] \in Nat
             /\ number[k] = number[l] => k = l
             /\ number[k] < number[l] => k[1] <= l[1]
  <2>1. PICK a \in Nat, s \in Direction : k = <<a, s>>
    BY <1>4
  <2>2. PICK b \in Nat, t \in Direction : l = <<b, t>>
    BY <1>4
  <2>3. PICK x \in 0..1 : x = (IF s = first THEN 0 ELSE 1) /\ (x = 0 <=> s = first)
    OBVIOUS
  <2>4. PICK y \in 0..1 : y = (IF t = first THEN 0 ELSE 1) /\ (y = 0 <=> t = first)
    OBVIOUS
  <2>5. number[k] = 2 * a + x
    <3>1. number[k] = 2 * k[1] + IF k[2] = first THEN 0 ELSE 1
      BY <1>5 DEF Numbers
    <3> QED BY <3>1, <2>1, <2>3
  <2>6. number[l] = 2 * b + y
    <3>1. number[l] = 2 * l[1] + IF l[2] = first THEN 0 ELSE 1
      BY <1>5 DEF Numbers
    <3> QED BY <3>1, <2>2, <2>4
  <2>7. number[k] \in Nat
    BY <2>3, <2>5
  <2>8. ASSUME number[k] = number[l]
        PROVE  k = l
    <3>0. 2 * a + x = 2 * b + y
      BY <2>8, <2>5, <2>6
    <3>1. a = b /\ x = y
      BY <3>0
    <3>2. s = first <=> t = first
      BY <3>1, <2>3, <2>4
    <3>3. s = t
      BY <3>2 DEF Direction
    <3> QED BY <3>1, <3>3, <2>1, <2>2
  <2>9. ASSUME number[k] < number[l]
        PROVE  k[1] <= l[1]
    <3>1. a <= b
      BY <2>9, <2>5, <2>6, <2>3, <2>4
    <3> QED BY <3>1, <2>1, <2>2
  <2> QED BY <2>7, <2>8, <2>9
<1>7. Numbered(K, number)
  BY <1>6 DEF Numbered
<1> QED BY <1>1, <1>3, <1>4, <1>5, <1>6, <1>7

(* What the query returns.                                                  *)
LEMMA GroupsFound ==
    ASSUME TablesFit, NEW u, NEW w, NEW first \in Direction
    PROVE  GroupsOf(Groups(u, w, first), u, w)
<1>1. PICK I : I = Found(u, w)
  OBVIOUS
<1>2. I \subseteq DOMAIN bandwidth
  BY <1>1 DEF Found, RowsOf
<1>3. PICK K : K = KeysOf(I)
  OBVIOUS
<1>4. PICK number : number = Numbers(K, first)
  OBVIOUS
<1>5. IsFiniteSet(K) /\ K \subseteq Nat \X Direction /\ Numbered(K, number)
  BY <1>2, <1>3, <1>4, KeysNumbered
<1>6. \A k, l \in K : number[k] < number[l] => k[1] <= l[1]
  BY <1>2, <1>3, <1>4, KeysNumbered
<1>7. PICK n \in Nat : n = Cardinality(K)
  BY <1>5, FS_CardinalityType
<1>8. PICK order : order = InOrder(K, number)
  OBVIOUS
<1>9. IsOrder(K, number, order)
  BY <1>5, <1>8, InOrderLists
<1>10. order \in [1..n -> K] /\ \A i, j \in 1..n : i < j => number[order[i]] < number[order[j]]
  BY <1>7, <1>9 DEF IsOrder
<1>11. \A k \in K : \E i \in 1..n : order[i] = k
  BY <1>5, <1>7, <1>9, OrderPlaces
<1>12. PICK G : G = Groups(u, w, first)
  OBVIOUS
<1>13. G = [g \in 1..n |-> [day |-> order[g][1], type |-> order[g][2],
               bandwidth |-> Traffic({i \in I : KeyOf(i) = order[g]})]]
  BY <1>1, <1>3, <1>4, <1>8, <1>10, <1>12
  DEF Groups, Found, KeysOf, KeyOf, Numbers
<1>14. ASSUME NEW g \in 1..n
       PROVE  /\ G[g] \in GroupRow
              /\ G[g].day = order[g][1] /\ G[g].type = order[g][2]
              /\ G[g].bandwidth = Traffic(OfDay(u, w, G[g].day, G[g].type))
  <2>1. order[g] \in Nat \X Direction
    BY <1>5, <1>10
  <2>2. PICK d \in Nat, t \in Direction : order[g] = <<d, t>>
    BY <2>1
  <2>3. PICK J : J = {i \in I : KeyOf(i) = <<d, t>>}
    OBVIOUS
  <2>4. J = OfDay(u, w, d, t)
    BY <2>3, <1>1 DEF OfDay, KeyOf
  <2>5. G[g] = [day |-> d, type |-> t, bandwidth |-> Traffic(J)]
    <3>1. order[g][1] = d /\ order[g][2] = t
      BY <2>2
    <3>2. {i \in I : KeyOf(i) = order[g]} = J
      BY <2>2, <2>3
    <3>3. G[g] = [day |-> order[g][1], type |-> order[g][2],
                  bandwidth |-> Traffic({i \in I : KeyOf(i) = order[g]})]
      BY <1>13
    <3> QED BY <3>1, <3>2, <3>3
  <2>6. Traffic(J) \in Nat
    BY <2>3, <1>2, TrafficTyped
  <2> QED BY <2>2, <2>4, <2>5, <2>6 DEF GroupRow
<1>15. G \in Seq(GroupRow) /\ Len(G) = n
  BY <1>13, <1>14
<1>16. ASSUME NEW g \in 1..n, NEW h \in 1..n
       PROVE  /\ g < h => G[g].day <= G[h].day
              /\ G[g].day = G[h].day /\ G[g].type = G[h].type => g = h
  <2>1. order[g] \in K /\ order[h] \in K
    BY <1>10
  <2>2. g < h => G[g].day <= G[h].day
    BY <2>1, <1>6, <1>10, <1>14
  <2>3. ASSUME G[g].day = G[h].day /\ G[g].type = G[h].type
        PROVE  g = h
    <3>1. order[g] = order[h]
      BY <2>1, <2>3, <1>5, <1>14
    <3>2. number[order[g]] \in Nat
      BY <2>1, <1>5 DEF Numbered
    <3>3. ~ (number[order[g]] < number[order[h]]) /\ ~ (number[order[h]] < number[order[g]])
      BY <3>1, <3>2
    <3>4. ~ (g < h) /\ ~ (h < g)
      BY <3>3, <1>10
    <3> QED BY <3>4
  <2> QED BY <2>2, <2>3
<1>17. Grouped(G)
  BY <1>15, <1>16 DEF Grouped
<1>18. ASSUME NEW i \in Found(u, w)
       PROVE  \E g \in 1..n : G[g].day = Day(bandwidth[i].at) /\ G[g].type = bandwidth[i].type
  <2>1. KeyOf(i) \in K
    BY <1>1, <1>3, <1>18 DEF KeysOf
  <2>2. PICK g \in 1..n : order[g] = KeyOf(i)
    BY <2>1, <1>11
  <2> QED BY <2>2, <1>14 DEF KeyOf
<1>19. ASSUME NEW g \in 1..n
       PROVE  \E i \in Found(u, w) :
                  G[g].day = Day(bandwidth[i].at) /\ G[g].type = bandwidth[i].type
  <2>1. order[g] \in K
    BY <1>10
  <2>2. PICK i \in I : order[g] = KeyOf(i)
    BY <2>1, <1>3 DEF KeysOf
  <2> QED BY <2>2, <1>1, <1>14 DEF KeyOf
<1>20. GroupsOf(G, u, w)
  BY <1>14, <1>15, <1>17, <1>18, <1>19 DEF GroupsOf
<1> QED BY <1>12, <1>20

----------------------------------------------------------------------------
\* The days of a chart.

(* A time of day is passed on each day before the last.                     *)
LEMMA DayFilled ==
    ASSUME NEW from \in Nat, NEW to \in Nat, NEW d \in Nat, Day(from) <= d, d < Day(to)
    PROVE  d \in FilledDays(from, to)
<1>1. PICK a \in Nat : a = Day(from)
  BY DayNumber
<1>2. PICK b \in Nat : b = Day(to)
  BY DayNumber
<1>3. PICK q \in 0..(SlotsPerDay - 1) : from = Midnight(a) + q
  BY <1>1, DayNumber
<1>4. PICK r \in 0..(SlotsPerDay - 1) : to = Midnight(b) + r
  BY <1>2, DayNumber
<1>5. SlotsPerDay \in Nat
  BY ClockAssumption
<1>6. Midnight(d) + SlotsPerDay <= Midnight(b)
  BY <1>2, MidnightOrder
<1>7. PICK k \in Nat : k = d - a
  BY <1>1
<1>8. Midnight(a) + Midnight(k) = Midnight(d)
  <2>1. d = a + k
    BY <1>1, <1>7
  <2>2. d * SlotsPerDay = a * SlotsPerDay + k * SlotsPerDay
    BY <2>1, <1>1, <1>5, <1>7
  <2> QED BY <2>2 DEF Midnight
<1>9. Midnight(a) \in Nat /\ Midnight(k) \in Nat /\ Midnight(b) \in Nat /\ Midnight(d) \in Nat
  BY <1>1, <1>2, <1>5, <1>7 DEF Midnight
<1>10. from + Midnight(k) <= to
  BY <1>3, <1>4, <1>5, <1>6, <1>8, <1>9
<1> QED BY <1>1, <1>2, <1>7, <1>10 DEF FilledDays

(* The days that are filled, and those that have records, leave no gap.     *)
LEMMA DaysFollow ==
    ASSUME NEW from \in Nat, NEW to \in Nat, NEW D, D \subseteq Day(from)..Day(to)
    PROVE  \E m \in Int : /\ Day(from) <= m + 1
                          /\ FilledDays(from, to) \cup D = Day(from)..m
<1>1. PICK a \in Nat : a = Day(from)
  BY DayNumber
<1>2. PICK b \in Nat : b = Day(to)
  BY DayNumber
<1>3. PICK S : S = FilledDays(from, to) \cup D
  OBVIOUS
<1>4. S \subseteq a..b
  BY <1>1, <1>2, <1>3 DEF FilledDays
<1>5. \A d \in a..(b - 1) : d \in S
  BY <1>1, <1>2, <1>3, DayFilled
<1>6. CASE b < a
  <2>1. S = a..(a - 1)
    <3>1. a..b = {} /\ a..(a - 1) = {}
      BY <1>6
    <3> QED BY <3>1, <1>4
  <2> QED BY <2>1, <1>1, <1>3
<1>7. CASE a <= b /\ b \in S
  <2>1. S = a..b
    <3>1. \A d \in a..b : d = b \/ d \in a..(b - 1)
      OBVIOUS
    <3>2. a..b \subseteq S
      BY <3>1, <1>5, <1>7
    <3> QED BY <3>2, <1>4
  <2> QED BY <2>1, <1>1, <1>2, <1>3, <1>7
<1>8. CASE a <= b /\ b \notin S
  <2>1. S = a..(b - 1)
    <3>1. \A d \in a..b : d # b => d \in a..(b - 1)
      OBVIOUS
    <3>2. S \subseteq a..(b - 1)
      BY <3>1, <1>4, <1>8
    <3> QED BY <3>2, <1>5
  <2> QED BY <2>1, <1>1, <1>2, <1>3, <1>8
<1> QED BY <1>1, <1>2, <1>6, <1>7, <1>8

\* The first instant that a chart of traffic is about.
Start(u, w) == IF w.from # None THEN w.from ELSE users[u].created

\* A chart that shows the traffic of the user, day by day.
ChartOf(chart, u, w) ==
    /\ chart \in Seq(UsageRecord)
    /\ \A i \in 1..Len(chart) :
          /\ chart[i].day = Day(Start(u, w)) + i - 1
          /\ \A type \in Direction : chart[i][type] = Traffic(OfDay(u, w, chart[i].day, type))
    /\ \A i \in Found(u, w) : \E k \in 1..Len(chart) : chart[k].day = Day(bandwidth[i].at)

(* The ends of a window are instants.                                       *)
LEMMA WindowTyped ==
    ASSUME NEW w \in Window
    PROVE  /\ w.from # None => w.from \in Nat
           /\ w.to # None => w.to \in Nat
  BY ClockAssumption DEF Window

(* Whatever is found has happened between the ends of the window.           *)
LEMMA FoundInTime ==
    ASSUME TablesFit, TrafficOfUsers(bandwidth, users), NEW u \in Users, NEW w \in Window,
           NEW i \in Found(u, w)
    PROVE  /\ Start(u, w) \in Nat /\ Day(Start(u, w)) <= Day(bandwidth[i].at)
           /\ w.to # None => Day(bandwidth[i].at) <= Day(w.to)
<1>1. i \in DOMAIN bandwidth /\ bandwidth[i].user = u /\ InWindow(bandwidth[i], w)
  BY DEF Found, RowsOf
<1>2. PICK t \in Nat : t = bandwidth[i].at
  BY <1>1, TrafficRow
<1>3. users[u].created \in Nat
  BY ClockAssumption DEF TablesFit, Account
<1>4. PICK s \in Nat : s = Start(u, w) /\ s <= t
  <2>1. CASE w.from # None
    BY <2>1, <1>1, <1>2, WindowTyped DEF InWindow, Start
  <2>2. CASE w.from = None
    BY <2>2, <1>1, <1>2, <1>3 DEF TrafficOfUsers, Start
  <2> QED BY <2>1, <2>2
<1>5. Day(s) <= Day(t)
  BY <1>4, DaysInOrder
<1>6. ASSUME w.to # None
      PROVE  Day(t) <= Day(w.to)
  <2>1. PICK e \in Nat : e = w.to /\ t < e
    BY <1>1, <1>2, <1>6, WindowTyped DEF InWindow
  <2>2. t <= e
    BY <2>1
  <2> QED BY <2>1, <2>2, DaysInOrder
<1> QED BY <1>2, <1>4, <1>5, <1>6

(* The answer about the traffic of a user.                                  *)
LEMMA ChartShown ==
    ASSUME TablesFit, TrafficOfUsers(bandwidth, users), NEW u \in Users, NEW w \in Window,
           NEW first \in Direction
    PROVE  ChartOf(addDaysWithZeroBandwidth(
                       aggregateByDays(u, w, first), w, users[u].created), u, w)
<1>1. PICK groups : groups = Groups(u, w, first)
  OBVIOUS
<1>2. GroupsOf(groups, u, w)
  BY <1>1, GroupsFound
<1>3. PICK R : R = aggregateByDays(u, w, first)
  OBVIOUS
<1>4. Merged(R, groups, Len(groups))
  BY <1>1, <1>2, <1>3, MergedAll DEF aggregateByDays, GroupsOf
<1>5. R \in Seq(UsageRecord) /\ \A i, j \in 1..Len(R) : i < j => R[i].day < R[j].day
  BY <1>4 DEF Merged
<1>6. PICK from \in Nat : from = Start(u, w)
  <2>1. users[u].created \in Nat
    BY ClockAssumption DEF TablesFit, Account
  <2> QED BY <2>1, WindowTyped DEF Start
<1>7. \A i \in 1..Len(R) : \E k \in Found(u, w) : R[i].day = Day(bandwidth[k].at)
  <2> SUFFICES ASSUME NEW i \in 1..Len(R)
               PROVE  \E k \in Found(u, w) : R[i].day = Day(bandwidth[k].at)
    OBVIOUS
  <2>1. PICK g \in 1..Len(groups) : groups[g].day = R[i].day
    BY <1>4 DEF Merged
  <2> QED BY <2>1, <1>2 DEF GroupsOf
<1>8. PICK to : to = CASE w.to # None -> w.to
                       [] w.to = None /\ R # <<>> -> Midnight(Last(R).day)
                       [] OTHER -> from
  OBVIOUS
<1>9. to \in Nat /\ \A i \in 1..Len(R) : R[i].day \in Day(from)..Day(to)
  <2>1. \A i \in 1..Len(R) : R[i].day \in Nat /\ Day(from) <= R[i].day
    <3> SUFFICES ASSUME NEW i \in 1..Len(R)
                 PROVE  R[i].day \in Nat /\ Day(from) <= R[i].day
      OBVIOUS
    <3>1. PICK k \in Found(u, w) : R[i].day = Day(bandwidth[k].at)
      BY <1>7
    <3>2. R[i] \in UsageRecord
      BY <1>5
    <3> QED BY <3>1, <3>2, <1>6, FoundInTime DEF UsageRecord
  <2>2. CASE w.to # None
    <3>1. to = w.to /\ to \in Nat
      BY <2>2, <1>8, WindowTyped
    <3>2. ASSUME NEW i \in 1..Len(R)
          PROVE  R[i].day <= Day(to)
      <4>1. PICK k \in Found(u, w) : R[i].day = Day(bandwidth[k].at)
        BY <1>7
      <4> QED BY <4>1, <3>1, <2>2, FoundInTime
    <3>3. Day(from) \in Nat /\ Day(to) \in Nat
      BY <3>1, DayNumber
    <3> QED BY <3>1, <3>2, <3>3, <2>1
  <2>3. CASE w.to = None /\ R # <<>>
    <3>1. PICK n \in Nat : n = Len(R) /\ n >= 1 /\ n \in 1..Len(R)
      BY <2>3, <1>5
    <3>2. to = Midnight(R[n].day)
      BY <2>3, <3>1, <1>8 DEF Last
    <3>3. R[n].day \in Nat /\ 0 \in 0..(SlotsPerDay - 1)
      BY <2>1, <3>1, ClockAssumption
    <3>4. to \in Nat /\ Day(to) = R[n].day
      <4>1. Midnight(R[n].day) \in Nat /\ Day(Midnight(R[n].day) + 0) = R[n].day
        BY <3>3, MidnightDay
      <4>2. to \in Nat /\ to + 0 = to
        BY <4>1, <3>2
      <4> QED BY <4>1, <4>2, <3>2
    <3>5. ASSUME NEW i \in 1..Len(R)
          PROVE  R[i].day <= R[n].day
      <4>1. i = n \/ i < n
        BY <3>1
      <4>2. i = n \/ R[i].day < R[n].day
        BY <4>1, <3>1, <1>5
      <4> QED BY <4>2, <2>1, <3>3
    <3>6. Day(from) \in Nat /\ Day(to) \in Nat
      BY <3>4, DayNumber
    <3> QED BY <3>4, <3>5, <3>6, <2>1
  <2>4. CASE w.to = None /\ R = <<>>
    BY <2>4, <1>6, <1>8
  <2> QED BY <2>2, <2>3, <2>4
<1>10. PICK D : D = {r.day : r \in Range(R)}
  OBVIOUS
<1>11. Range(R) = {R[i] : i \in 1..Len(R)}
  BY <1>5 DEF Range
<1>12. D \subseteq Day(from)..Day(to)
  BY <1>9, <1>10, <1>11
<1>13. PICK m \in Int : Day(from) <= m + 1 /\ FilledDays(from, to) \cup D = Day(from)..m
  <2>1. from \in Nat /\ to \in Nat
    BY <1>6, <1>9
  <2> QED BY <2>1, <1>12, DaysFollow, ZenonT(60)
<1>14. PICK a \in Nat : a = Day(from)
  BY DayNumber
<1>15. PICK n \in Nat : n = m - a + 1
  BY <1>13, <1>14
<1>16. PICK order : order = [i \in 1..n |-> a + i - 1]
  OBVIOUS
<1>17. Ascending(FilledDays(from, to) \cup D) = order
  BY <1>13, <1>14, <1>15, <1>16, AscendingInterval
<1>18. PICK Shown : Shown = [d \in a..m |->
          IF \E r \in Range(R) : r.day = d THEN CHOOSE r \in Range(R) : r.day = d
                                           ELSE NoTraffic(d)]
  OBVIOUS
<1>19. PICK chart : chart = addDaysWithZeroBandwidth(R, w, users[u].created)
  OBVIOUS
<1>20. chart = [i \in 1..n |-> Shown[a + i - 1]]
  <2>1. chart = [i \in DOMAIN order |->
            IF \E r \in Range(R) : r.day = order[i]
            THEN CHOOSE r \in Range(R) : r.day = order[i]
            ELSE NoTraffic(order[i])]
    BY <1>6, <1>8, <1>10, <1>17, <1>19, ZenonT(60) DEF addDaysWithZeroBandwidth, Start
  <2>2. \A i \in 1..n : a + i - 1 \in a..m
    BY <1>15
  <2> QED BY <2>1, <2>2, <1>16, <1>18
<1>21. ASSUME NEW d \in a..m
       PROVE  /\ Shown[d] \in UsageRecord /\ Shown[d].day = d
              /\ \A type \in Direction : Shown[d][type] = Traffic(OfDay(u, w, d, type))
  <2>1. d \in Nat
    BY <1>14
  <2>2. CASE \E r \in Range(R) : r.day = d
    <3>1. PICK r : r = Shown[d]
      OBVIOUS
    <3>2. r \in Range(R) /\ r.day = d
      BY <2>2, <3>1, <1>18
    <3>3. PICK i \in 1..Len(R) : r = R[i]
      BY <3>2, <1>11
    <3>4. r \in UsageRecord
      BY <3>3, <1>5
    <3>5. ASSUME NEW type \in Direction
          PROVE  r[type] = Traffic(OfDay(u, w, d, type))
      <4>1. CASE \E g \in 1..Len(groups) : groups[g].day = d /\ groups[g].type = type
        <5>1. PICK g \in 1..Len(groups) : groups[g].day = d /\ groups[g].type = type
          BY <4>1
        <5>2. r[type] = groups[g].bandwidth
          BY <5>1, <3>2, <3>3, <1>4 DEF Merged
        <5> QED BY <5>1, <5>2, <1>2 DEF GroupsOf
      <4>2. CASE \A g \in 1..Len(groups) : groups[g].day = d => groups[g].type # type
        <5>1. r[type] = 0
          BY <4>2, <3>2, <3>3, <1>4 DEF Merged
        <5>2. OfDay(u, w, d, type) = {}
          BY <4>2, <1>2 DEF GroupsOf, OfDay
        <5>3. Traffic({}) = 0
          BY SumOfNone DEF Traffic
        <5> QED BY <5>1, <5>2, <5>3
      <4> QED BY <4>1, <4>2
    <3> QED BY <3>1, <3>2, <3>4, <3>5
  <2>3. CASE ~ \E r \in Range(R) : r.day = d
    <3>1. Shown[d] = NoTraffic(d)
      BY <2>3, <1>18
    <3>2. ASSUME NEW type \in Direction
          PROVE  OfDay(u, w, d, type) = {}
      <4> SUFFICES ASSUME NEW i \in OfDay(u, w, d, type)
                   PROVE  FALSE
        OBVIOUS
      <4>1. i \in Found(u, w) /\ Day(bandwidth[i].at) = d
        BY DEF OfDay
      <4>2. PICK g \in 1..Len(groups) : groups[g].day = d
        BY <4>1, <1>2 DEF GroupsOf
      <4>3. PICK k \in 1..Len(R) : R[k].day = groups[g].day
        BY <1>4 DEF Merged
      <4> QED BY <4>2, <4>3, <2>3, <1>11
    <3>3. Traffic({}) = 0
      BY SumOfNone DEF Traffic
    <3>4. \A type \in Direction : NoTraffic(d)[type] = 0
      BY DEF NoTraffic, Direction
    <3>5. NoTraffic(d) \in UsageRecord /\ NoTraffic(d).day = d
      BY <2>1 DEF NoTraffic, UsageRecord
    <3> QED BY <3>1, <3>2, <3>3, <3>4, <3>5
  <2> QED BY <2>2, <2>3
<1>22. \A i \in 1..n : a + i - 1 \in a..m
  BY <1>15
<1>23. chart \in Seq(UsageRecord) /\ Len(chart) = n
  BY <1>20, <1>21, <1>22
<1>24. ASSUME NEW i \in Found(u, w)
       PROVE  \E k \in 1..n : chart[k].day = Day(bandwidth[i].at)
  <2>1. PICK g \in 1..Len(groups) : groups[g].day = Day(bandwidth[i].at)
    BY <1>2 DEF GroupsOf
  <2>2. PICK k \in 1..Len(R) : R[k].day = groups[g].day
    BY <1>4 DEF Merged
  <2>3. PICK d : d = Day(bandwidth[i].at)
    OBVIOUS
  <2>4. d \in D
    BY <2>1, <2>2, <2>3, <1>10, <1>11
  <2>5. d \in a..m
    BY <2>4, <1>13, <1>14
  <2>6. PICK j \in 1..n : a + j - 1 = d
    <3>1. d - a + 1 \in 1..n /\ a + (d - a + 1) - 1 = d
      BY <2>5, <1>14, <1>15, SMTT(30)
    <3> QED BY <3>1
  <2> QED BY <2>3, <2>5, <2>6, <1>20, <1>21
<1>25. \A i \in 1..n : /\ chart[i].day = a + i - 1
                       /\ \A type \in Direction :
                             chart[i][type] = Traffic(OfDay(u, w, chart[i].day, type))
  <2> SUFFICES ASSUME NEW i \in 1..n
               PROVE  /\ chart[i].day = a + i - 1
                      /\ \A type \in Direction :
                            chart[i][type] = Traffic(OfDay(u, w, chart[i].day, type))
    OBVIOUS
  <2>1. PICK d \in a..m : d = a + i - 1
    BY <1>22
  <2>2. chart[i] = Shown[d]
    BY <2>1, <1>20
  <2>3. chart[i].day = d /\ \A type \in Direction : chart[i][type] = Traffic(OfDay(u, w, d, type))
    BY <2>2, <1>21
  <2> QED BY <2>1, <2>3
<1>26. ChartOf(chart, u, w)
  BY <1>6, <1>14, <1>23, <1>24, <1>25 DEF ChartOf
<1> QED BY <1>3, <1>19, <1>26

----------------------------------------------------------------------------
\* What is stored on a day.

\* Some rows have one of that day among them.
Measured(table, I, d) == \E i \in I : Day(table[i].at) = d

(* A row of storage.                                                        *)
LEMMA StoredRow ==
    ASSUME NEW table \in Seq(StorageRow), NEW i \in DOMAIN table
    PROVE  /\ table[i].at \in Nat /\ table[i].at <= Now /\ Day(table[i].at) \in Nat
           /\ table[i].size \in Nat
<1>1. table[i] \in StorageRow
  OBVIOUS
<1>2. table[i].at \in 0..Now /\ table[i].size \in Nat
  BY <1>1 DEF StorageRow
<1>3. table[i].at \in Nat
  BY <1>2, ClockAssumption
<1>4. Day(table[i].at) \in Nat
  BY <1>3, DayNumber
<1> QED BY <1>2, <1>3, <1>4

(* The greatest of some numbers.                                            *)
LEMMA MaxChosen ==
    ASSUME NEW S, S \subseteq Nat, NEW m \in S, \A k \in S : m >= k
    PROVE  Max(S) = m
<1>1. \A x \in S : (\A k \in S : x >= k) => x = m
  <2> SUFFICES ASSUME NEW x \in S, \A k \in S : x >= k
               PROVE  x = m
    OBVIOUS
  <2>1. x >= m /\ m >= x /\ x \in Nat /\ m \in Nat
    OBVIOUS
  <2> QED BY <2>1
<1> QED BY <1>1 DEF Max

(* The least of them.                                                       *)
LEMMA MinChosen ==
    ASSUME NEW S, S \subseteq Nat, NEW m \in S, \A k \in S : m <= k
    PROVE  Min(S) = m
<1>1. \A x \in S : (\A k \in S : x <= k) => x = m
  <2> SUFFICES ASSUME NEW x \in S, \A k \in S : x <= k
               PROVE  x = m
    OBVIOUS
  <2>1. x <= m /\ m <= x /\ x \in Nat /\ m \in Nat
    OBVIOUS
  <2> QED BY <2>1
<1> QED BY <1>1 DEF Min

(* The keys of finitely many rows are finitely many.                        *)
LEMMA ImageFinite ==
    ASSUME NEW J, IsFiniteSet(J), NEW h
    PROVE  IsFiniteSet(ImageOf(h, J))
<1>1. PICK p : p = [j \in J |-> h[j]]
  OBVIOUS
<1>2. p \in Surjection(J, ImageOf(h, J))
  BY <1>1 DEF Surjection, ImageOf
<1> QED BY <1>2, FS_Surjection

(* Nothing adds up to nothing.                                              *)
LEMMA SumOfZeros ==
    ASSUME NEW J, IsFiniteSet(J), NEW f, \A j \in J : f[j] = 0
    PROVE  SumOver(f, J) = 0
<1>1. PICK A : A = {}
  OBVIOUS
<1>2. IsFiniteSet(A) /\ Cardinality(A) = 0
  BY <1>1, FS_EmptySet
<1>3. \A j \in J : OfKind(A, f, j) = A
  BY <1>1 DEF OfKind
<1>4. \A j \in J : f[j] = Cardinality(OfKind(A, f, j))
  BY <1>2, <1>3
<1>5. \A a \in A : f[a] \in J
  BY <1>1
<1>6. SumOver(f, J) = Cardinality(A)
  BY <1>2, <1>4, <1>5, SumOfCounts
<1> QED BY <1>2, <1>6

\* For each of their keys, g has the greatest size of some rows.
Peaks(g, J, key, size) ==
    \A j \in J : /\ \E i \in J : key[i] = key[j] /\ g[key[j]] = size[i]
                 /\ size[j] <= g[key[j]]

(* That is the maximum over the rows of a key.                              *)
LEMMA GroupPeaks ==
    ASSUME NEW J, IsFiniteSet(J), NEW key, NEW size, \A j \in J : size[j] \in Nat,
           NEW g, \A j \in J : g[key[j]] = Max({size[i] : i \in {k \in J : key[k] = key[j]}})
    PROVE  Peaks(g, J, key, size)
<1> SUFFICES ASSUME NEW j \in J
             PROVE  /\ \E i \in J : key[i] = key[j] /\ g[key[j]] = size[i]
                    /\ size[j] <= g[key[j]]
  BY DEF Peaks
<1>1. PICK I : I = {k \in J : key[k] = key[j]}
  OBVIOUS
<1>2. PICK S : S = {size[i] : i \in I}
  OBVIOUS
<1>3. g[key[j]] = Max(S)
  BY <1>1, <1>2
<1>4. I \subseteq J /\ j \in I
  BY <1>1
<1>5. S = ImageOf(size, I)
  BY <1>2 DEF ImageOf
<1>6. IsFiniteSet(S) /\ S \subseteq Nat /\ S # {}
  BY <1>2, <1>4, <1>5, ImageFinite, FS_Subset
<1>7. PICK m \in S : \A k \in S : m >= k
  BY <1>6, Greatest
<1>8. Max(S) = m
  BY <1>6, <1>7, MaxChosen
<1>9. PICK i \in I : m = size[i]
  BY <1>2, <1>7
<1>10. size[j] \in S
  BY <1>2, <1>4
<1>11. size[j] <= m
  BY <1>6, <1>7, <1>10
<1> QED BY <1>1, <1>3, <1>8, <1>9, <1>11

(* The greatest sizes are numbers.                                          *)
LEMMA PeaksTyped ==
    ASSUME NEW J, IsFiniteSet(J), NEW key, NEW size, \A j \in J : size[j] \in Nat,
           NEW g, Peaks(g, J, key, size)
    PROVE  /\ IsFiniteSet(ImageOf(key, J))
           /\ \A k \in ImageOf(key, J) : g[k] \in Nat
           /\ SumOver(g, ImageOf(key, J)) \in Nat
<1>1. PICK K : K = ImageOf(key, J)
  OBVIOUS
<1>2. IsFiniteSet(K)
  BY <1>1, ImageFinite
<1>3. \A k \in K : g[k] \in Nat
  BY <1>1 DEF Peaks, ImageOf
<1>4. SumOver(g, K) \in Nat
  BY <1>2, <1>3, SumNat
<1> QED BY <1>1, <1>2, <1>3, <1>4

(* The fewer keys tell rows apart, the less their greatest sizes add up to. *)
LEMMA CoarserSum ==
    ASSUME NEW J, IsFiniteSet(J), NEW fine, NEW coarse,
           \A i, j \in J : fine[i] = fine[j] => coarse[i] = coarse[j],
           NEW size, \A j \in J : size[j] \in Nat,
           NEW f, Peaks(f, J, fine, size), NEW c, Peaks(c, J, coarse, size)
    PROVE  SumOver(c, ImageOf(coarse, J)) <= SumOver(f, ImageOf(fine, J))
<1>1. PICK C : C = ImageOf(coarse, J)
  OBVIOUS
<1>2. PICK F : F = ImageOf(fine, J)
  OBVIOUS
<1>3. IsFiniteSet(C) /\ IsFiniteSet(F)
  BY <1>1, <1>2, ImageFinite
<1>4. \A k \in F : f[k] \in Nat
  BY <1>2, PeaksTyped
<1>5. PICK row : row = [k \in C |-> CHOOSE i \in J : coarse[i] = k /\ c[k] = size[i]]
  OBVIOUS
<1>6. ASSUME NEW k \in C
      PROVE  row[k] \in J /\ coarse[row[k]] = k /\ c[k] = size[row[k]]
  <2>1. PICK j \in J : k = coarse[j]
    BY <1>1 DEF ImageOf
  <2>2. \E i \in J : coarse[i] = k /\ c[k] = size[i]
    BY <2>1 DEF Peaks
  <2>3. row[k] = CHOOSE i \in J : coarse[i] = k /\ c[k] = size[i]
    BY <1>5
  <2> QED BY <2>2, <2>3
<1>7. PICK p : p = [k \in C |-> fine[row[k]]]
  OBVIOUS
<1>8. PICK q : q = [k \in C |-> f[p[k]]]
  OBVIOUS
<1>9. ASSUME NEW k \in C
      PROVE  p[k] \in F /\ c[k] \in Nat /\ c[k] <= q[k] /\ q[k] = f[p[k]] /\ q[k] \in Nat
  <2>1. row[k] \in J /\ c[k] = size[row[k]] /\ p[k] = fine[row[k]]
    BY <1>6, <1>7
  <2>2. p[k] \in F
    BY <2>1, <1>2 DEF ImageOf
  <2>3. size[row[k]] <= f[fine[row[k]]]
    BY <2>1 DEF Peaks
  <2>4. q[k] = f[p[k]]
    BY <1>8
  <2> QED BY <2>1, <2>2, <2>3, <2>4, <1>4
<1>10. \A k, l \in C : p[k] = p[l] => k = l
  <2> SUFFICES ASSUME NEW k \in C, NEW l \in C, p[k] = p[l]
               PROVE  k = l
    OBVIOUS
  <2>1. fine[row[k]] = fine[row[l]]
    BY <1>7
  <2>2. coarse[row[k]] = coarse[row[l]]
    BY <2>1, <1>6
  <2> QED BY <2>2, <1>6
<1>11. PICK n \in Nat : n = SumOver(c, C)
  BY <1>3, <1>9, SumNat
<1>12. PICK x \in Nat : x = SumOver(q, C)
  BY <1>3, <1>9, SumNat
<1>13. n <= x
  BY <1>3, <1>9, <1>11, <1>12, SumMonotone
<1>14. PICK P : P = ImageOf(p, C)
  OBVIOUS
<1>15. x = SumOver(f, P)
  BY <1>3, <1>9, <1>10, <1>12, <1>14, SumReindexed
<1>16. P \subseteq F
  BY <1>9, <1>14 DEF ImageOf
<1>17. \A k \in P : f[k] \in Nat /\ f[k] <= f[k]
  BY <1>4, <1>16
<1>18. SumOver(f, P) <= SumOver(f, F)
  BY <1>3, <1>4, <1>16, <1>17, SumMonotone
<1>19. SumOver(f, F) \in Nat
  BY <1>3, <1>4, SumNat
<1> QED BY <1>1, <1>2, <1>11, <1>12, <1>13, <1>15, <1>18, <1>19

(* If they add up to nothing, so do all sizes.                              *)
LEMMA NothingLost ==
    ASSUME NEW J, IsFiniteSet(J), NEW key, NEW size, \A j \in J : size[j] \in Nat,
           NEW g, Peaks(g, J, key, size), SumOver(g, ImageOf(key, J)) = 0
    PROVE  SumOver(size, J) = 0
<1>1. PICK K : K = ImageOf(key, J)
  OBVIOUS
<1>2. IsFiniteSet(K) /\ \A k \in K : g[k] \in Nat
  BY <1>1, PeaksTyped
<1>3. ASSUME NEW j \in J
      PROVE  size[j] = 0
  <2>1. PICK k \in K : k = key[j]
    BY <1>1 DEF ImageOf
  <2>2. SumOver(g, K) = g[k] + SumOver(g, K \ {k})
    BY <1>2, SumWithout
  <2>3. SumOver(g, K \ {k}) \in Nat
    <3>1. IsFiniteSet(K \ {k})
      BY <1>2, FS_Subset
    <3>2. \A x \in K \ {k} : g[x] \in Nat
      BY <1>2
    <3> QED BY <3>1, <3>2, SumNat
  <2>4. g[k] = 0
    BY <2>2, <2>3, <1>1, <1>2
  <2>5. size[j] <= g[k]
    BY <2>1 DEF Peaks
  <2> QED BY <2>4, <2>5
<1> QED BY <1>3, SumOfZeros

\* The sizes of all rows, and the buckets of some.
SizesOf(table) == [i \in DOMAIN table |-> table[i].size]
NamesOf(table, J) == [i \in J |-> table[i].bucket]

(* What a total is made of.                                                 *)
LEMMA TotalIs ==
    ASSUME NEW table \in Seq(StorageRow), NEW I, I \subseteq DOMAIN table, NEW d
    PROVE  /\ RowsOn(table, I, d) \subseteq DOMAIN table /\ IsFiniteSet(RowsOn(table, I, d))
           /\ \A j \in RowsOn(table, I, d) : SizesOf(table)[j] \in Nat
           /\ TotalOn(table, I, d) = SumOver(SizesOf(table), RowsOn(table, I, d))
           /\ TotalOn(table, I, d) \in Nat
           /\ ~ Measured(table, I, d) => TotalOn(table, I, d) = 0
<1>1. PICK J : J = RowsOn(table, I, d)
  OBVIOUS
<1>2. PICK size : size = SizesOf(table)
  OBVIOUS
<1>3. J \subseteq DOMAIN table
  BY <1>1 DEF RowsOn
<1>4. IsFiniteSet(J)
  BY <1>3, RowsFinite
<1>5. \A j \in J : size[j] \in Nat
  BY <1>2, <1>3, StoredRow DEF SizesOf
<1>6. TotalOn(table, I, d) = SumOver(size, J)
  BY <1>1, <1>2 DEF TotalOn, SizesOf
<1>7. SumOver(size, J) \in Nat
  BY <1>4, <1>5, SumNat
<1>8. ASSUME ~ Measured(table, I, d)
      PROVE  SumOver(size, J) = 0
  <2>1. J = {}
    BY <1>1, <1>8 DEF Measured, RowsOn
  <2> QED BY <2>1, SumOfNone
<1> QED BY <1>1, <1>2, <1>3, <1>4, <1>5, <1>6, <1>7, <1>8

(* The greatest sizes of the buckets.                                       *)
LEMMA PeakIs ==
    ASSUME NEW table \in Seq(StorageRow), NEW I, I \subseteq DOMAIN table, NEW d,
           NEW J, J = RowsOn(table, I, d)
    PROVE  \E p : /\ Peaks(p, J, NamesOf(table, J), SizesOf(table))
                  /\ PeakOn(table, I, d) = SumOver(p, ImageOf(NamesOf(table, J), J))
<1>1. PICK size : size = SizesOf(table)
  OBVIOUS
<1>2. PICK name : name = NamesOf(table, J)
  OBVIOUS
<1>3. J \subseteq DOMAIN table /\ IsFiniteSet(J) /\ \A j \in J : size[j] \in Nat
  BY <1>1, TotalIs
<1>4. PICK named : named = {table[i].bucket : i \in J}
  OBVIOUS
<1>5. PICK p : p = [b \in named |-> Max({table[i].size : i \in {k \in J : table[k].bucket = b}})]
  OBVIOUS
<1>6. PeakOn(table, I, d) = SumOver(p, named)
  BY <1>4, <1>5 DEF PeakOn
<1>7. \A j \in J : name[j] = table[j].bucket /\ size[j] = table[j].size
  BY <1>1, <1>2, <1>3 DEF SizesOf, NamesOf
<1>8. named = ImageOf(name, J)
  BY <1>4, <1>7 DEF ImageOf
<1>9. \A j \in J : p[name[j]] = Max({size[i] : i \in {k \in J : name[k] = name[j]}})
  <2> SUFFICES ASSUME NEW j \in J
               PROVE  p[name[j]] = Max({size[i] : i \in {k \in J : name[k] = name[j]}})
    OBVIOUS
  <2>1. name[j] \in named
    BY <1>4, <1>7
  <2>2. PICK K : K = {k \in J : table[k].bucket = name[j]}
    OBVIOUS
  <2>3. {k \in J : name[k] = name[j]} = K
    BY <2>2, <1>7
  <2>4. {size[i] : i \in K} = {table[i].size : i \in K}
    BY <2>2, <1>7
  <2>5. p[name[j]] = Max({table[i].size : i \in K})
    BY <2>1, <2>2, <1>5
  <2> QED BY <2>3, <2>4, <2>5
<1>10. Peaks(p, J, name, size)
  BY <1>3, <1>9, GroupPeaks
<1> QED BY <1>1, <1>2, <1>6, <1>8, <1>10

\* n is what a day has stored, as far as several measurements of a bucket tell.
Within(n, table, I, d) ==
    /\ n \in PeakOn(table, I, d)..TotalOn(table, I, d)
    /\ TotalOn(table, I, d) # 0 => n # 0

(* The greatest sizes add up to a number, the same if measured once.        *)
LEMMA PeakTyped ==
    ASSUME NEW table \in Seq(StorageRow), NEW I, I \subseteq DOMAIN table, NEW d
    PROVE  PeakOn(table, I, d) \in Nat
<1>1. PICK J : J = RowsOn(table, I, d)
  OBVIOUS
<1>2. PICK size : size = SizesOf(table)
  OBVIOUS
<1>3. PICK name : name = NamesOf(table, J)
  OBVIOUS
<1>4. PICK p : Peaks(p, J, name, size) /\ PeakOn(table, I, d) = SumOver(p, ImageOf(name, J))
  BY <1>1, <1>2, <1>3, PeakIs
<1>5. IsFiniteSet(J) /\ \A j \in J : size[j] \in Nat
  BY <1>1, <1>2, TotalIs
<1> QED BY <1>4, <1>5, PeaksTyped

(* The size of a day in the answer.                                         *)
LEMMA DayTotalWithin ==
    ASSUME storage \in Seq(StorageRow), NEW I, I \subseteq DOMAIN storage, NEW d
    PROVE  /\ DayTotal(RowsOn(storage, I, d)) \in Nat
           /\ Within(DayTotal(RowsOn(storage, I, d)), storage, I, d)
<1>1. PICK J : J = RowsOn(storage, I, d)
  OBVIOUS
<1>2. PICK size : size = SizesOf(storage)
  OBVIOUS
<1>3. PICK name : name = NamesOf(storage, J)
  OBVIOUS
<1>4. PICK p : Peaks(p, J, name, size) /\ PeakOn(storage, I, d) = SumOver(p, ImageOf(name, J))
  BY <1>1, <1>2, <1>3, PeakIs
<1>5. /\ J \subseteq DOMAIN storage /\ IsFiniteSet(J) /\ \A j \in J : size[j] \in Nat
      /\ TotalOn(storage, I, d) = SumOver(size, J) /\ TotalOn(storage, I, d) \in Nat
  BY <1>1, <1>2, TotalIs
<1>6. PICK key : key = [i \in J |-> <<storage[i].at, storage[i].bucket>>]
  OBVIOUS
<1>7. PICK K : K = {<<storage[i].at, storage[i].bucket>> : i \in J}
  OBVIOUS
<1>8. PICK g : g = [k \in K |-> Max(Sizes({i \in J : <<storage[i].at, storage[i].bucket>> = k}))]
  OBVIOUS
<1>9. DayTotal(J) = SumOver(g, K)
  BY <1>7, <1>8 DEF DayTotal
<1>10. K = ImageOf(key, J)
  BY <1>6, <1>7 DEF ImageOf
<1>11. \A j \in J : g[key[j]] = Max({size[i] : i \in {k \in J : key[k] = key[j]}})
  <2> SUFFICES ASSUME NEW j \in J
               PROVE  g[key[j]] = Max({size[i] : i \in {k \in J : key[k] = key[j]}})
    OBVIOUS
  <2>1. key[j] \in K
    BY <1>6, <1>7
  <2>2. PICK I2 : I2 = {k \in J : <<storage[k].at, storage[k].bucket>> = key[j]}
    OBVIOUS
  <2>3. {k \in J : key[k] = key[j]} = I2
    BY <2>2, <1>6
  <2>4. Sizes(I2) = {size[i] : i \in I2}
    BY <2>2, <1>2, <1>5 DEF Sizes, SizesOf
  <2>5. g[key[j]] = Max(Sizes(I2))
    BY <2>1, <2>2, <1>8
  <2> QED BY <2>3, <2>4, <2>5
<1>12. Peaks(g, J, key, size)
  BY <1>5, <1>11, GroupPeaks
<1>13. PICK self : self = [i \in J |-> i]
  OBVIOUS
<1>14. Peaks(size, J, self, size) /\ ImageOf(self, J) = J
  <2>1. ImageOf(self, J) = J
    BY <1>13 DEF ImageOf
  <2>2. \A j \in J : self[j] = j /\ size[j] <= size[j]
    BY <1>5, <1>13
  <2> QED BY <2>1, <2>2 DEF Peaks
<1>15. SumOver(g, K) <= SumOver(size, J)
  <2>1. \A i, j \in J : self[i] = self[j] => key[i] = key[j]
    BY <1>13
  <2>2. SumOver(g, ImageOf(key, J)) <= SumOver(size, ImageOf(self, J))
    BY <2>1, <1>5, <1>12, <1>14, CoarserSum
  <2> QED BY <2>2, <1>10, <1>14
<1>16. SumOver(p, ImageOf(name, J)) <= SumOver(g, K)
  <2>1. \A i, j \in J : key[i] = key[j] => name[i] = name[j]
    BY <1>3, <1>6 DEF NamesOf
  <2>2. SumOver(p, ImageOf(name, J)) <= SumOver(g, ImageOf(key, J))
    BY <2>1, <1>4, <1>5, <1>12, CoarserSum
  <2> QED BY <2>2, <1>10
<1>17. SumOver(g, K) \in Nat /\ SumOver(p, ImageOf(name, J)) \in Nat
  BY <1>4, <1>5, <1>10, <1>12, PeaksTyped
<1>18. SumOver(g, K) = 0 => SumOver(size, J) = 0
  BY <1>5, <1>10, <1>12, NothingLost
<1>19. PICK n \in Nat : n = DayTotal(J)
  BY <1>9, <1>17
<1>20. n \in PeakOn(storage, I, d)..TotalOn(storage, I, d)
  BY <1>4, <1>5, <1>9, <1>15, <1>16, <1>17, <1>19
<1>21. TotalOn(storage, I, d) # 0 => n # 0
  BY <1>5, <1>9, <1>18, <1>19
<1> QED BY <1>1, <1>19, <1>20, <1>21 DEF Within

----------------------------------------------------------------------------
\* The days of an answer about storage.

\* From day a to day m, each with what was measured on it.
DaysFit(days, table, u, w, a, m) ==
    /\ days.from \in Nat /\ a = Day(days.from) /\ m \in Int
    /\ DOMAIN days.results = a..m
    /\ \A d \in a..m :
          /\ days.results[d].used \in Nat
          /\ days.results[d].filler <=> ~ Measured(table, FoundIn(table, u, w), d)
          /\ IF Measured(table, FoundIn(table, u, w), d)
             THEN Within(days.results[d].used, table, FoundIn(table, u, w), d)
             ELSE days.results[d].used = 0

\* None of the rows found is of a day before them.
BeginFits(table, u, w, a) ==
    \A i \in FoundIn(table, u, w) : a <= Day(table[i].at)

\* Whether they show all that was found.
AllShown(table, u, w, a, m) ==
    Whole(w.from) /\ Whole(w.to) =>
        \A i \in FoundIn(table, u, w) : Day(table[i].at) \in a..m

(* A whole number of days is a midnight.                                    *)
LEMMA WholeMidnight ==
    ASSUME NEW t \in Nat, t % SlotsPerDay = 0
    PROVE  t = Midnight(Day(t))
<1>1. SlotsPerDay \in Nat /\ SlotsPerDay >= 1
  BY ClockAssumption
<1>2. t = SlotsPerDay * (t \div SlotsPerDay) + (t % SlotsPerDay) /\ t \div SlotsPerDay \in Nat
  BY <1>1, Division
<1>3. t = (t \div SlotsPerDay) * SlotsPerDay
  BY <1>1, <1>2
<1> QED BY <1>3 DEF Day, Midnight

(* A midnight is the first instant of its day.                              *)
LEMMA MidnightFirst ==
    ASSUME NEW d \in Nat
    PROVE  Midnight(d) \in Nat /\ Day(Midnight(d)) = d
<1>1. 0 \in 0..(SlotsPerDay - 1)
  BY ClockAssumption
<1>2. Midnight(d) \in Nat /\ Day(Midnight(d) + 0) = d
  BY <1>1, MidnightDay
<1> QED BY <1>2

(* A day that begins before the end is filled, from a midnight on.          *)
LEMMA MidnightFilled ==
    ASSUME NEW a \in Nat, NEW d \in Nat, a <= d, NEW to \in Nat, Midnight(d) <= to
    PROVE  d \in FilledDays(Midnight(a), to)
<1>1. Midnight(a) \in Nat /\ Day(Midnight(a)) = a /\ Midnight(d) \in Nat /\ Day(Midnight(d)) = d
  BY MidnightFirst
<1>2. PICK b \in Nat : b = Day(to)
  BY DayNumber
<1>3. d <= b
  BY <1>1, <1>2, DaysInOrder
<1>4. PICK k \in Nat : k = d - a
  OBVIOUS
<1>5. Midnight(a) + Midnight(k) = Midnight(d)
  <2>1. d = a + k /\ SlotsPerDay \in Nat
    BY <1>4, ClockAssumption
  <2>2. d * SlotsPerDay = a * SlotsPerDay + k * SlotsPerDay
    BY <2>1, <1>4
  <2> QED BY <2>2 DEF Midnight
<1> QED BY <1>1, <1>2, <1>3, <1>4, <1>5 DEF FilledDays

\* The totals of the days of some rows.
\* The sizes of the days of some rows.
Totals(I) == [d \in {Day(storage[i].at) : i \in I} |-> DayTotal(RowsOn(storage, I, d))]

(* The sizes of the days that the query returns.                            *)
LEMMA AnalyticsRead ==
    ASSUME NEW u, NEW w, NEW F, F = FoundIn(storage, u, w)
    PROVE  aggregateStorageUsage(u, w) = Totals(F)
  BY DEF aggregateStorageUsage, RowsOn, FoundIn, Totals

(* What the first query leaves of a request about storage.                  *)
LEMMA DaysRead ==
    ASSUME storage \in Seq(StorageRow), NEW u, NEW w \in Window,
           NEW days, days = StorageDays(aggregateStorageUsage(u, w), w)
    PROVE  \E a \in Nat, m \in Int :
               /\ a <= m + 1
               /\ DaysFit(days, storage, u, w, a, m)
               /\ BeginFits(storage, u, w, a)
               /\ AllShown(storage, u, w, a, m)
<1>1. PICK F : F = FoundIn(storage, u, w)
  OBVIOUS
<1>2. F \subseteq DOMAIN storage /\ \A i \in F : InWindow(storage[i], w)
  BY <1>1 DEF FoundIn, RowsOf
<1>3. PICK D : D = {Day(storage[i].at) : i \in F}
  OBVIOUS
<1>4. PICK A : A = [d \in D |-> DayTotal(RowsOn(storage, F, d))]
  OBVIOUS
<1>5. days = StorageDays(A, w)
  <2>1. aggregateStorageUsage(u, w) = Totals(F)
    BY <1>1, AnalyticsRead
  <2> QED BY <2>1, <1>3, <1>4 DEF Totals
<1>6. D \subseteq Nat /\ IsFiniteSet(D)
  <2>1. D \subseteq Nat
    BY <1>2, <1>3, StoredRow
  <2>2. PICK h : h = [i \in F |-> Day(storage[i].at)]
    OBVIOUS
  <2>3. h \in Surjection(F, D)
    BY <2>2, <1>3 DEF Surjection
  <2>4. IsFiniteSet(F)
    BY <1>2, RowsFinite
  <2> QED BY <2>1, <2>3, <2>4, FS_Surjection
<1>7. D # {} => /\ Min(D) \in D /\ \A d \in D : Min(D) <= d
                /\ Max(D) \in D /\ \A d \in D : d <= Max(D)
  <2> SUFFICES ASSUME D # {}
               PROVE  /\ Min(D) \in D /\ \A d \in D : Min(D) <= d
                      /\ Max(D) \in D /\ \A d \in D : d <= Max(D)
    OBVIOUS
  <2>1. PICK x \in D : \A d \in D : x <= d
    BY <1>6, Least
  <2>2. Min(D) = x
    BY <2>1, <1>6, MinChosen
  <2>3. PICK y \in D : \A d \in D : y >= d
    BY <1>6, Greatest
  <2>4. Max(D) = y
    BY <2>3, <1>6, MaxChosen
  <2>5. \A d \in D : d <= y
    BY <2>3, <1>6
  <2> QED BY <2>1, <2>2, <2>4, <2>5
<1>a. DOMAIN A = D
  BY <1>4
<1>8. PICK from : from = CASE w.from # None -> w.from
                           [] w.from = None /\ DOMAIN A # {} -> Midnight(Min(DOMAIN A))
                           [] OTHER -> Now - SlotsPerDay
  OBVIOUS
<1>9. PICK to : to = CASE w.to # None -> w.to
                       [] w.to = None /\ DOMAIN A # {} -> Midnight(Max(DOMAIN A))
                       [] OTHER -> Now
  OBVIOUS
<1>10. /\ w.from # None => from = w.from
       /\ w.from = None /\ D # {} => from = Midnight(Min(D))
       /\ w.from = None /\ D = {} => from = Now - SlotsPerDay
  BY <1>8, <1>a
<1>11. /\ w.to # None => to = w.to
       /\ w.to = None /\ D # {} => to = Midnight(Max(D))
       /\ w.to = None /\ D = {} => to = Now
  BY <1>9, <1>a
<1>12. from \in Nat /\ to \in Nat
  <2>1. D # {} => Midnight(Min(D)) \in Nat /\ Midnight(Max(D)) \in Nat
    BY <1>6, <1>7, MidnightFirst
  <2>2. Now - SlotsPerDay \in Nat /\ Now \in Nat
    BY ClockAssumption
  <2> QED BY <2>1, <2>2, <1>10, <1>11, WindowTyped
<1>13. /\ days.from = from
       /\ days.results = [d \in FilledDays(from, to) |->
             IF d \in D THEN [used |-> A[d], filler |-> FALSE]
                        ELSE [used |-> 0, filler |-> TRUE]]
  <2>1. StorageDays(A, w) =
            [from |-> from,
             results |-> [d \in FilledDays(from, to) |->
                 IF d \in DOMAIN A THEN [used |-> A[d], filler |-> FALSE]
                                   ELSE [used |-> 0, filler |-> TRUE]]]
    BY <1>8, <1>9 DEF StorageDays
  <2> QED BY <2>1, <1>5, <1>a
<1>14. PICK a \in Nat : a = Day(from)
  BY <1>12, DayNumber
<1>15. PICK m \in Int : a <= m + 1 /\ FilledDays(from, to) = a..m
  <2>1. PICK E : E = {}
    OBVIOUS
  <2>2. E \subseteq Day(from)..Day(to)
    BY <2>1
  <2>3. \E m \in Int : Day(from) <= m + 1 /\ FilledDays(from, to) \cup E = Day(from)..m
    BY <2>2, <1>12, DaysFollow, ZenonT(60)
  <2>4. FilledDays(from, to) \cup E = FilledDays(from, to)
    BY <2>1
  <2> QED BY <2>3, <2>4, <1>14
<1>16. DaysFit(days, storage, u, w, a, m)
  <2>1. ASSUME NEW d \in a..m
        PROVE  /\ days.results[d].used \in Nat
               /\ days.results[d].filler <=> ~ Measured(storage, F, d)
               /\ IF Measured(storage, F, d) THEN Within(days.results[d].used, storage, F, d)
                  ELSE days.results[d].used = 0
    <3>1. d \in D <=> Measured(storage, F, d)
      BY <1>3 DEF Measured
    <3>2. days.results[d] = IF d \in D THEN [used |-> A[d], filler |-> FALSE]
                                       ELSE [used |-> 0, filler |-> TRUE]
      BY <1>13, <1>15
    <3>3. PICK n \in Nat : n = DayTotal(RowsOn(storage, F, d)) /\ Within(n, storage, F, d)
      BY <1>2, DayTotalWithin
    <3>4. CASE d \in D
      <4>1. days.results[d] = [used |-> n, filler |-> FALSE]
        BY <3>2, <3>3, <3>4, <1>4
      <4> QED BY <4>1, <3>1, <3>3, <3>4
    <3>5. CASE d \notin D
      <4>1. days.results[d] = [used |-> 0, filler |-> TRUE]
        BY <3>2, <3>5
      <4> QED BY <4>1, <3>1, <3>5
    <3> QED BY <3>4, <3>5
  <2>2. days.from \in Nat /\ a = Day(days.from) /\ DOMAIN days.results = a..m
    BY <1>12, <1>13, <1>14, <1>15
  <2> QED BY <2>1, <2>2, <1>1, <1>15 DEF DaysFit
<1>17. \A i \in F : storage[i].at \in Nat /\ Day(storage[i].at) \in D
  BY <1>2, <1>3, StoredRow
<1>18. F # {} <=> D # {}
  BY <1>3
<1>19. ASSUME w.from = None, F # {}
       PROVE  a = Min(D) /\ from = Midnight(a)
  <2>1. from = Midnight(Min(D)) /\ Min(D) \in D
    BY <1>7, <1>10, <1>18, <1>19
  <2> QED BY <2>1, <1>6, <1>14, MidnightFirst
<1>20. BeginFits(storage, u, w, a)
  <2> SUFFICES ASSUME NEW i \in F
               PROVE  a <= Day(storage[i].at)
    BY <1>1 DEF BeginFits
  <2>1. CASE w.from = None
    <3>1. Day(storage[i].at) \in D /\ a = Min(D)
      BY <2>1, <1>17, <1>19
    <3> QED BY <3>1, <1>7
  <2>2. CASE w.from # None
    <3>1. PICK t \in Nat : t = storage[i].at /\ from <= t
      BY <2>2, <1>2, <1>10, <1>12, <1>17 DEF InWindow
    <3> QED BY <3>1, <1>12, <1>14, DaysInOrder
  <2> QED BY <2>1, <2>2
<1>21. AllShown(storage, u, w, a, m)
  <2> SUFFICES ASSUME Whole(w.from), Whole(w.to), NEW i \in F
               PROVE  Day(storage[i].at) \in a..m
    BY <1>1 DEF AllShown
  <2>1. PICK t \in Nat : t = storage[i].at
    BY <1>17
  <2>2. PICK d \in Nat : d = Day(t) /\ d \in D
    BY <2>1, <1>6, <1>17
  <2>3. PICK r \in 0..(SlotsPerDay - 1) : t = Midnight(d) + r
    BY <2>2, DayNumber
  <2>4. SlotsPerDay \in Nat /\ Midnight(d) \in Nat /\ Midnight(d) <= t
    BY <2>3, MidnightFirst, ClockAssumption
  <2>5. from = Midnight(a) /\ a <= d
    <3>1. CASE w.from # None
      <4>1. from = w.from /\ from % SlotsPerDay = 0
        BY <3>1, <1>10 DEF Whole
      <4>2. from <= t
        BY <3>1, <4>1, <2>1, <1>2 DEF InWindow
      <4>3. from = Midnight(a)
        BY <4>1, <1>12, <1>14, WholeMidnight
      <4>4. a <= d
        BY <4>2, <2>2, <1>12, <1>14, DaysInOrder
      <4> QED BY <4>3, <4>4
    <3>2. CASE w.from = None
      <4>1. F # {}
        OBVIOUS
      <4> QED BY <3>2, <4>1, <2>2, <1>7, <1>19
    <3> QED BY <3>1, <3>2
  <2>6. Midnight(d) <= to
    <3>1. CASE w.to # None
      <4>1. t < to
        BY <3>1, <2>1, <1>2, <1>11 DEF InWindow
      <4> QED BY <4>1, <2>4, <1>12
    <3>2. CASE w.to = None
      <4>1. to = Midnight(Max(D)) /\ Max(D) \in Nat /\ d <= Max(D)
        BY <2>2, <3>2, <1>6, <1>7, <1>11
      <4>2. d = Max(D) \/ d < Max(D)
        BY <4>1
      <4>3. d < Max(D) => Midnight(d) + SlotsPerDay <= Midnight(Max(D))
        BY <4>1, MidnightOrder
      <4>4. Midnight(Max(D)) \in Nat
        BY <4>1, MidnightFirst
      <4> QED BY <4>1, <4>2, <4>3, <4>4, <2>4
    <3> QED BY <3>1, <3>2
  <2>7. d \in FilledDays(Midnight(a), to)
    BY <2>5, <2>6, <1>12, MidnightFilled
  <2> QED BY <2>1, <2>2, <2>5, <2>7, <1>15
<1> QED BY <1>15, <1>16, <1>20, <1>21

----------------------------------------------------------------------------
\* The sizes that days take over.

\* used shows the days from a to m.
IsCarried(used, results, last, a, m) ==
    /\ used \in [a..m -> Nat]
    /\ a <= m => used[a] = IF results[a].filler /\ last # None THEN last ELSE results[a].used
    /\ \A d \in (a + 1)..m :
          used[d] = IF results[d].used = 0 THEN used[d - 1] ELSE results[d].used

(* The loop over the days.                                                  *)
LEMMA CarriedOn ==
    ASSUME NEW a \in Nat, NEW m \in Int, a <= m + 1, NEW results, DOMAIN results = a..m,
           \A d \in a..m : results[d].used \in Nat, NEW last \in Nat \cup {None}
    PROVE  IsCarried(Carried(results, last), results, last, a, m)
<1>1. PICK base : base = IF results[a].filler /\ last # None THEN last ELSE results[a].used
  OBVIOUS
<1>2. PICK E : E = [used \in [a..m -> Nat] |-> [d \in a..m |->
          IF d = a THEN base
          ELSE IF results[d].used = 0 THEN used[d - 1] ELSE results[d].used]]
  OBVIOUS
<1>3. a <= m => base \in Nat /\ Min(a..m) = a /\ a \in a..m
  <2> SUFFICES ASSUME a <= m
               PROVE  base \in Nat /\ Min(a..m) = a /\ a \in a..m
    OBVIOUS
  <2>1. a \in a..m /\ a..m \subseteq Nat /\ \A k \in a..m : a <= k
    OBVIOUS
  <2>2. Min(a..m) = a
    BY <2>1, MinChosen
  <2>3. base \in Nat
    BY <2>1, <1>1
  <2> QED BY <2>1, <2>2, <2>3
<1>4. \E used \in [a..m -> Nat] : used = E[used]
  <2>1. CASE m < a
    <3>1. PICK used : used = [d \in a..m |-> 0]
      OBVIOUS
    <3>2. a..m = {}
      BY <2>1
    <3>3. used \in [a..m -> Nat]
      BY <3>1
    <3>4. E[used] = [d \in a..m |->
              IF d = a THEN base
              ELSE IF results[d].used = 0 THEN used[d - 1] ELSE results[d].used]
      BY <3>3, <1>2
    <3>5. E[used] = used
      BY <3>1, <3>2, <3>4
    <3> QED BY <3>3, <3>5
  <2>2. CASE a <= m
    <3>1. PICK N \in Nat : N = m - a
      BY <2>2
    <3>2. PICK next : next = [n \in 1..N |-> [x \in Nat |->
              IF results[a + n].used = 0 THEN x ELSE results[a + n].used]]
      OBVIOUS
    <3>3. next \in [1..N -> [Nat -> Nat]]
      <4>1. \A n \in 1..N : a + n \in a..m
        BY <3>1
      <4> QED BY <4>1, <3>2
    <3>4. PICK it : IsLoop(it, N, Nat, base, next)
      BY <3>3, <2>2, <1>3, LoopExists
    <3>5. it \in [0..N -> Nat] /\ it[0] = base /\ \A n \in 1..N : it[n] = next[n][it[n - 1]]
      BY <3>4 DEF IsLoop
    <3>6. PICK used : used = [d \in a..m |-> it[d - a]]
      OBVIOUS
    <3>7. \A d \in a..m : d - a \in 0..N
      BY <3>1
    <3>8. used \in [a..m -> Nat]
      BY <3>5, <3>6, <3>7
    <3>9. ASSUME NEW d \in a..m
          PROVE  used[d] = IF d = a THEN base
                           ELSE IF results[d].used = 0 THEN used[d - 1] ELSE results[d].used
      <4>1. CASE d = a
        <5>1. d - a = 0
          BY <4>1
        <5> QED BY <5>1, <4>1, <3>5, <3>6
      <4>2. CASE d # a
        <5>0. PICK n \in Nat : n = d - a
          BY <4>2, <3>1
        <5>a. d \in Int /\ a <= d /\ d <= m /\ d # a
          BY <4>2
        <5>b. d = a + n /\ n - 1 = d - 1 - a
          BY <5>0, <5>a
        <5>c. n \in 1..N
          BY <5>0, <5>a, <3>1
        <5>1. n \in 1..N /\ d = a + n /\ n - 1 = d - 1 - a
          BY <5>b, <5>c
        <5>2. d - 1 \in a..m
          BY <4>2
        <5>3. used[d] = it[n] /\ used[d - 1] = it[n - 1]
          BY <5>1, <5>2, <3>6
        <5>4. n - 1 \in 0..N /\ it[n - 1] \in Nat
          BY <5>c, <3>5
        <5>d. it[n] = next[n][it[n - 1]]
          BY <5>c, <3>5
        <5>5. it[n] = IF results[a + n].used = 0 THEN it[n - 1] ELSE results[a + n].used
          BY <5>c, <5>d, <5>4, <3>2
        <5> QED BY <5>1, <5>3, <5>5, <4>2
      <4> QED BY <4>1, <4>2
    <3>10. used = E[used]
      BY <3>6, <3>8, <3>9, <1>2
    <3> QED BY <3>8, <3>10
  <2> QED BY <2>1, <2>2
<1> DEFINE Turn(f, d) ==
              IF d # Min(DOMAIN results)
              THEN IF results[d].used = 0 THEN f[d - 1] ELSE results[d].used
              ELSE IF NeedsLast(results) /\ last # None THEN last ELSE results[d].used
           Value(f, d) ==
              IF d = a THEN base ELSE IF results[d].used = 0 THEN f[d - 1] ELSE results[d].used
<1>5. ASSUME NEW f, NEW d \in a..m
      PROVE  Turn(f, d) = Value(f, d)
  <2>0. a <= m
    OBVIOUS
  <2>1. a <= m /\ Min(DOMAIN results) = a /\ DOMAIN results # {}
    BY <2>0, <1>3
  <2>2. NeedsLast(results) <=> results[a].filler
    BY <2>1 DEF NeedsLast
  <2>3. CASE d = a
    BY <2>1, <2>2, <2>3, <1>1
  <2>4. CASE d # a
    BY <2>1, <2>4
  <2> QED BY <2>3, <2>4
<1>6. PICK res : res = CHOOSE used : used = [d \in DOMAIN results |-> Turn(used, d)]
  OBVIOUS
<1>11. Carried(results, last) = res
  BY <1>6 DEF Carried
<1>7. PICK used \in [a..m -> Nat] : used = E[used]
  BY <1>4
<1>a. used = [d \in a..m |-> Value(used, d)]
  BY <1>2, <1>7
<1>b. \A d \in a..m : Turn(used, d) = Value(used, d)
  BY <1>5
<1>c. \A d \in a..m : Turn(res, d) = Value(res, d)
  BY <1>5
<1> HIDE DEF Turn, Value
<1>8. used = [d \in DOMAIN results |-> Turn(used, d)]
  BY <1>a, <1>b
<1>9. res = [d \in DOMAIN results |-> Turn(res, d)]
  BY <1>6, <1>8
<1>d. res = [d \in a..m |-> Value(res, d)]
  BY <1>9, <1>c
<1>10. res = [d \in a..m |->
          IF d = a THEN base
          ELSE IF results[d].used = 0 THEN res[d - 1] ELSE results[d].used]
  BY <1>d DEF Value
<1>12. res \in [a..m -> Nat]
  <2> SUFFICES ASSUME ~ \A d \in a..m : res[d] \in Nat
               PROVE  FALSE
    BY <1>10
  <2>1. PICK F : F = {d \in a..m : res[d] \notin Nat}
    OBVIOUS
  <2>2. F \subseteq Nat /\ F # {}
    BY <2>1
  <2>3. PICK d \in F : \A k \in F : d <= k
    BY <2>2, Least
  <2>4. d \in a..m /\ res[d] \notin Nat
    BY <2>1, <2>3
  <2>5. d # a
    BY <2>4, <1>3, <1>10
  <2>6. d - 1 \in a..m /\ d - 1 \notin F
    <3>1. ~ (d <= d - 1)
      BY <2>4
    <3> QED BY <3>1, <2>3, <2>4, <2>5
  <2>7. res[d - 1] \in Nat
    BY <2>1, <2>6
  <2> QED BY <2>4, <2>5, <2>7, <1>10
<1>13. a <= m => res[a] = base
  BY <1>3, <1>10
<1>14. \A d \in (a + 1)..m :
          res[d] = IF results[d].used = 0 THEN res[d - 1] ELSE results[d].used
  <2>1. \A d \in (a + 1)..m : d \in a..m /\ d # a
    OBVIOUS
  <2> QED BY <2>1, <1>10
<1> QED BY <1>1, <1>11, <1>12, <1>13, <1>14 DEF IsCarried

\* The answer, a row for each day.
ShownDays(chart, used, a, m) ==
    chart = [i \in 1..(m - a + 1) |-> [day |-> a + i - 1, used |-> used[a + i - 1]]]

(* The days are in order.                                                   *)
LEMMA DaysFormatted ==
    ASSUME NEW a \in Nat, NEW m \in Int, a <= m + 1, NEW used, DOMAIN used = a..m
    PROVE  ShownDays(StorageAnalyticsFormat(used), used, a, m)
<1>1. PICK order : order = [i \in 1..(m - a + 1) |-> a + i - 1]
  OBVIOUS
<1>2. Ascending(DOMAIN used) = order
  BY <1>1, AscendingInterval
<1>3. StorageAnalyticsFormat(used) =
          [i \in DOMAIN order |-> [day |-> order[i], used |-> used[order[i]]]]
  BY <1>2 DEF StorageAnalyticsFormat
<1> QED BY <1>1, <1>3 DEF ShownDays

----------------------------------------------------------------------------
\* The answer about storage.

\* e is the last day up to d on which anything is stored.
Lastly(table, I, d, e) ==
    /\ e <= d /\ TotalOn(table, I, e) # 0 /\ Measured(table, I, e)
    /\ \A i \in I : /\ Day(table[i].at) <= d
                    /\ TotalOn(table, I, Day(table[i].at)) # 0
                    => Day(table[i].at) <= e

\* Up to d nothing is stored.
NothingUpTo(table, I, d) ==
    \A i \in I : Day(table[i].at) <= d => TotalOn(table, I, Day(table[i].at)) = 0

\* n is what the last day up to d has stored, and what has been shown before it.
ShownOn(table, I, d, n, begin) ==
    \/ \E e \in Nat : Lastly(table, I, d, e) /\ n \in PeakOn(table, I, e)..TotalOn(table, I, e)
    \/ NothingUpTo(table, I, d) /\ n = begin

(* A day that has no size shows that of the day before.                     *)
LEMMA DaysCarried ==
    ASSUME NEW table \in Seq(StorageRow), NEW u, NEW w,
           NEW F, F = FoundIn(table, u, w),
           NEW days, NEW a \in Nat, NEW m \in Int, a <= m + 1,
           DaysFit(days, table, u, w, a, m), BeginFits(table, u, w, a),
           NEW last \in Nat \cup {None},
           NEW used, IsCarried(used, days.results, last, a, m),
           NEW begin, begin = IF Measured(table, F, a) \/ last = None THEN 0 ELSE last
    PROVE  \A d \in a..m : ShownOn(table, F, d, used[d], begin)
<1> SUFFICES ASSUME ~ \A d \in a..m : ShownOn(table, F, d, used[d], begin)
             PROVE  FALSE
  OBVIOUS
<1>1. PICK S : S = {d \in a..m : ~ ShownOn(table, F, d, used[d], begin)}
  OBVIOUS
<1>2. S \subseteq Nat /\ S # {}
  BY <1>1
<1>3. PICK d \in S : \A k \in S : d <= k
  BY <1>2, Least
<1>4. d \in a..m /\ d \in Nat /\ ~ ShownOn(table, F, d, used[d], begin)
  BY <1>1, <1>2, <1>3
<1>5. F \subseteq DOMAIN table
  BY DEF FoundIn, RowsOf
<1>6. \A i \in F : Day(table[i].at) \in Nat /\ a <= Day(table[i].at)
  BY <1>5, StoredRow DEF BeginFits
<1>7. PICK r : r = days.results
  OBVIOUS
<1>8. /\ r[d].used \in Nat /\ (r[d].filler <=> ~ Measured(table, F, d))
      /\ Measured(table, F, d) => Within(r[d].used, table, F, d)
      /\ ~ Measured(table, F, d) => r[d].used = 0
  BY <1>4, <1>7 DEF DaysFit
<1>9. /\ TotalOn(table, F, d) \in Nat /\ PeakOn(table, F, d) \in Nat
      /\ ~ Measured(table, F, d) => TotalOn(table, F, d) = 0
  BY <1>5, TotalIs, PeakTyped
<1>10. TotalOn(table, F, d) = 0 <=> r[d].used = 0
  BY <1>8, <1>9 DEF Within
<1>11. d # a => used[d] = IF r[d].used = 0 THEN used[d - 1] ELSE r[d].used
  <2>1. d # a => d \in (a + 1)..m
    BY <1>4
  <2> QED BY <2>1, <1>7 DEF IsCarried
<1>12. d = a => used[d] = IF r[a].filler /\ last # None THEN last ELSE r[a].used
  BY <1>4, <1>7 DEF IsCarried
<1>13. CASE TotalOn(table, F, d) # 0
  <2>1. Measured(table, F, d) /\ r[d].used # 0
    BY <1>9, <1>10, <1>13
  <2>2. used[d] = r[d].used
    BY <2>1, <1>8, <1>11, <1>12
  <2>3. Lastly(table, F, d, d)
    BY <2>1, <1>4, <1>13 DEF Lastly
  <2>4. used[d] \in PeakOn(table, F, d)..TotalOn(table, F, d)
    BY <2>1, <2>2, <1>8 DEF Within
  <2> QED BY <2>3, <2>4, <1>4 DEF ShownOn
<1>14. CASE TotalOn(table, F, d) = 0 /\ d = a
  <2>1. r[a].used = 0
    BY <1>10, <1>14
  <2>2. used[d] = begin
    <3>1. CASE Measured(table, F, a)
      BY <3>1, <2>1, <1>8, <1>12, <1>14
    <3>2. CASE ~ Measured(table, F, a)
      BY <3>2, <2>1, <1>8, <1>12, <1>14
    <3> QED BY <3>1, <3>2
  <2>3. NothingUpTo(table, F, d)
    <3> SUFFICES ASSUME NEW i \in F, Day(table[i].at) <= d
                 PROVE  TotalOn(table, F, Day(table[i].at)) = 0
      BY DEF NothingUpTo
    <3>1. PICK e \in Nat : e = Day(table[i].at) /\ a <= e
      BY <1>6
    <3>2. e = d
      BY <3>1, <1>14
    <3> QED BY <3>1, <3>2, <1>14
  <2> QED BY <2>2, <2>3, <1>4 DEF ShownOn
<1>15. CASE TotalOn(table, F, d) = 0 /\ d # a
  <2>1. used[d] = used[d - 1]
    BY <1>10, <1>11, <1>15
  <2>2. d - 1 \in a..m
    BY <1>4, <1>15
  <2>3. d - 1 \notin S
    <3>1. ~ (d <= d - 1)
      BY <1>4
    <3> QED BY <3>1, <1>3
  <2>4. ShownOn(table, F, d - 1, used[d - 1], begin)
    BY <2>2, <2>3, <1>1
  <2>5. \A i \in F : Day(table[i].at) <= d /\ TotalOn(table, F, Day(table[i].at)) # 0
                        => Day(table[i].at) <= d - 1
    <3> SUFFICES ASSUME NEW i \in F, Day(table[i].at) <= d,
                        TotalOn(table, F, Day(table[i].at)) # 0
                 PROVE  Day(table[i].at) <= d - 1
      OBVIOUS
    <3>1. PICK e \in Nat : e = Day(table[i].at)
      BY <1>6
    <3>2. e # d
      BY <3>1, <1>15
    <3> QED BY <3>1, <3>2, <1>4
  <2>6. CASE NothingUpTo(table, F, d - 1) /\ used[d - 1] = begin
    <3>1. NothingUpTo(table, F, d)
      BY <2>5, <2>6 DEF NothingUpTo
    <3> QED BY <3>1, <2>1, <2>6, <1>4 DEF ShownOn
  <2>7. ASSUME NEW e \in Nat, Lastly(table, F, d - 1, e),
               used[d - 1] \in PeakOn(table, F, e)..TotalOn(table, F, e)
        PROVE  FALSE
    <3>1. e <= d
      BY <2>7, <1>4 DEF Lastly
    <3>2. Lastly(table, F, d, e)
      BY <3>1, <2>5, <2>7 DEF Lastly
    <3> QED BY <3>2, <2>1, <2>7, <1>4 DEF ShownOn
  <2> QED BY <2>4, <2>6, <2>7 DEF ShownOn
<1> QED BY <1>13, <1>14, <1>15

\* Rows are only added, of now.
Extends(more, table) ==
    /\ Len(table) <= Len(more)
    /\ \A i \in DOMAIN table : more[i] = table[i]
    /\ \A i \in DOMAIN more : i \notin DOMAIN table => more[i].at = Now

(* A table extends itself.                                                  *)
LEMMA ExtendsItself ==
    ASSUME NEW table \in Seq(StorageRow)
    PROVE  Extends(table, table)
  BY DEF Extends

\* The rows of a user before an instant, and the last day of them.
Earlier(table, u, before) == {i \in RowsOf(table, u) : table[i].at < before}
LastOf(table, u, before) == Day(Max({table[i].at : i \in Earlier(table, u, before)}))

(* The last of them.                                                        *)
LEMMA LastDayIs ==
    ASSUME NEW table \in Seq(StorageRow), NEW u, NEW before \in Nat,
           Earlier(table, u, before) # {}
    PROVE  /\ LastOf(table, u, before) \in Nat
           /\ \E k \in Earlier(table, u, before) : Day(table[k].at) = LastOf(table, u, before)
           /\ \A k \in Earlier(table, u, before) : Day(table[k].at) <= LastOf(table, u, before)
           /\ SizeBefore(table, u, before) =
                  PeakOn(table, RowsOf(table, u), LastOf(table, u, before))
<1>1. PICK E : E = Earlier(table, u, before)
  OBVIOUS
<1>2. E \subseteq DOMAIN table /\ E # {}
  BY <1>1 DEF Earlier, RowsOf
<1>3. \A i \in E : table[i].at \in Nat /\ Day(table[i].at) \in Nat
  BY <1>2, StoredRow
<1>4. PICK times : times = {table[i].at : i \in E}
  OBVIOUS
<1>5. PICK at : at = [i \in E |-> table[i].at]
  OBVIOUS
<1>6. times = ImageOf(at, E)
  BY <1>4, <1>5 DEF ImageOf
<1>7. times \subseteq Nat /\ times # {} /\ IsFiniteSet(times)
  BY <1>2, <1>3, <1>4, <1>6, RowsFinite, ImageFinite
<1>8. PICK t \in times : \A s \in times : t >= s
  BY <1>7, Greatest
<1>9. Max(times) = t /\ t \in Nat
  BY <1>7, <1>8, MaxChosen
<1>10. PICK k \in E : t = table[k].at
  BY <1>4, <1>8
<1>11. PICK d \in Nat : d = Day(t)
  BY <1>9, DayNumber
<1>12. LastOf(table, u, before) = d
  BY <1>1, <1>4, <1>9, <1>11 DEF LastOf
<1>13. \A i \in E : Day(table[i].at) <= d
  <2> SUFFICES ASSUME NEW i \in E
               PROVE  Day(table[i].at) <= d
    OBVIOUS
  <2>1. PICK s \in Nat : s = table[i].at /\ s <= t
    BY <1>3, <1>4, <1>8, <1>9
  <2> QED BY <2>1, <1>9, <1>11, DaysInOrder
<1>14. PICK days : days = {Day(table[i].at) : i \in E}
  OBVIOUS
<1>15. d \in days /\ days \subseteq Nat /\ \A x \in days : d >= x
  BY <1>3, <1>10, <1>11, <1>13, <1>14
<1>16. Max(days) = d
  BY <1>15, MaxChosen
<1>17. SizeBefore(table, u, before) =
           IF days = {} THEN 0 ELSE PeakOn(table, RowsOf(table, u), Max(days))
  BY <1>1, <1>14 DEF SizeBefore, Earlier
<1>18. SizeBefore(table, u, before) = PeakOn(table, RowsOf(table, u), d)
  BY <1>15, <1>16, <1>17
<1> QED BY <1>1, <1>10, <1>11, <1>12, <1>13, <1>18

(* Without rows before it, nothing is known to have been stored.            *)
LEMMA NothingBefore ==
    ASSUME NEW table, NEW u, NEW before, Earlier(table, u, before) = {}
    PROVE  SizeBefore(table, u, before) = 0
<1>1. PICK E : E = Earlier(table, u, before)
  OBVIOUS
<1>2. PICK days : days = {Day(table[i].at) : i \in E}
  OBVIOUS
<1>3. SizeBefore(table, u, before) =
          IF days = {} THEN 0 ELSE PeakOn(table, RowsOf(table, u), Max(days))
  BY <1>1, <1>2 DEF SizeBefore, Earlier
<1>4. days = {}
  BY <1>1, <1>2
<1> QED BY <1>3, <1>4

(* The size of a day that another query reads.                              *)
LEMMA SizeOfDayIs ==
    ASSUME NEW d, NEW u
    PROVE  SizeOfDay(d, u) = PeakOn(storage, RowsOf(storage, u), d)
  BY DEF SizeOfDay, PeakOn, RowsOn, Sizes

(* Greatest sizes agree where the rows do.                                  *)
LEMMA PeaksAgree ==
    ASSUME NEW table, NEW more, NEW I, NEW K, NEW d,
           RowsOn(more, K, d) = RowsOn(table, I, d),
           \A i \in RowsOn(table, I, d) : more[i] = table[i]
    PROVE  PeakOn(more, K, d) = PeakOn(table, I, d)
<1>1. PICK J : J = RowsOn(table, I, d)
  OBVIOUS
<1>2. PICK named : named = {table[i].bucket : i \in J}
  OBVIOUS
<1>3. PICK p : p = [b \in named |-> Max({table[i].size : i \in {k \in J : table[k].bucket = b}})]
  OBVIOUS
<1>4. PICK q : q = [b \in named |-> Max({more[i].size : i \in {k \in J : more[k].bucket = b}})]
  OBVIOUS
<1>5. \A i \in J : more[i] = table[i]
  BY <1>1
<1>6. ASSUME NEW b \in named
      PROVE  p[b] = q[b]
  <2>1. PICK K2 : K2 = {k \in J : table[k].bucket = b}
    OBVIOUS
  <2>2. {k \in J : more[k].bucket = b} = K2
    BY <2>1, <1>5
  <2>3. {more[i].size : i \in K2} = {table[i].size : i \in K2}
    BY <2>1, <1>5
  <2>4. p[b] = Max({table[i].size : i \in K2})
    BY <2>1, <1>3
  <2>5. q[b] = Max({more[i].size : i \in K2})
    BY <2>2, <1>4
  <2> QED BY <2>3, <2>4, <2>5
<1>7. p = q
  BY <1>3, <1>4, <1>6
<1>8. {more[i].bucket : i \in J} = named
  BY <1>2, <1>5
<1>9. PeakOn(table, I, d) = SumOver(p, named)
  BY <1>1, <1>2, <1>3 DEF PeakOn
<1>10. PeakOn(more, K, d) = SumOver(q, named)
  <2>1. RowsOn(more, K, d) = J
    BY <1>1
  <2> QED BY <2>1, <1>4, <1>8 DEF PeakOn
<1> QED BY <1>7, <1>9, <1>10

(* The size read is that of the last day, as of the query for the day or of *)
(* that for its size.                                                       *)
LEMMA LastSize ==
    ASSUME storage \in Seq(StorageRow), NEW table \in Seq(StorageRow), Extends(storage, table),
           NEW u, NEW before \in Nat, Earlier(table, u, before) # {},
           NEW last, last = LastOf(table, u, before)
    PROVE  SizeOfDay(last, u) \in
               {SizeBefore(table, u, before), SizeBefore(storage, u, before)}
<1>1. last \in Nat /\ SizeBefore(table, u, before) = PeakOn(table, RowsOf(table, u), last)
  BY LastDayIs
<1>2. PICK k \in Earlier(table, u, before) : Day(table[k].at) = last
  BY LastDayIs
<1>3. k \in RowsOf(table, u) /\ table[k].at < before
  BY DEF Earlier
<1>4. \A i \in DOMAIN table : i \in DOMAIN storage /\ storage[i] = table[i]
  <2>1. Len(table) \in Nat /\ Len(storage) \in Nat /\ Len(table) <= Len(storage)
    BY DEF Extends
  <2> QED BY <2>1 DEF Extends
<1>5. k \in Earlier(storage, u, before) /\ Day(storage[k].at) = last
  BY <1>2, <1>3, <1>4 DEF Earlier, RowsOf
<1>6. SizeOfDay(last, u) = PeakOn(storage, RowsOf(storage, u), last)
  BY SizeOfDayIs
<1>7. PICK today \in Nat : today = Day(Now)
  BY ClockAssumption, DayNumber
<1>8. CASE last # today
  <2>1. RowsOn(storage, RowsOf(storage, u), last) = RowsOn(table, RowsOf(table, u), last)
    <3>1. ASSUME NEW i \in RowsOn(storage, RowsOf(storage, u), last)
          PROVE  i \in RowsOn(table, RowsOf(table, u), last)
      <4>1. i \in DOMAIN storage /\ storage[i].user = u /\ Day(storage[i].at) = last
        BY DEF RowsOn, RowsOf
      <4>2. i \in DOMAIN table
        BY <4>1, <1>7, <1>8 DEF Extends
      <4> QED BY <4>1, <4>2, <1>4 DEF RowsOn, RowsOf
    <3>2. ASSUME NEW i \in RowsOn(table, RowsOf(table, u), last)
          PROVE  i \in RowsOn(storage, RowsOf(storage, u), last)
      BY <1>4 DEF RowsOn, RowsOf
    <3> QED BY <3>1, <3>2
  <2>2. \A i \in RowsOn(table, RowsOf(table, u), last) : storage[i] = table[i]
    BY <1>4 DEF RowsOn, RowsOf
  <2>3. PeakOn(storage, RowsOf(storage, u), last) = PeakOn(table, RowsOf(table, u), last)
    BY <2>1, <2>2, PeaksAgree
  <2> QED BY <2>3, <1>1, <1>6
<1>9. CASE last = today
  <2>1. /\ LastOf(storage, u, before) \in Nat /\ last <= LastOf(storage, u, before)
        /\ SizeBefore(storage, u, before) =
               PeakOn(storage, RowsOf(storage, u), LastOf(storage, u, before))
        /\ \E i \in Earlier(storage, u, before) : Day(storage[i].at) = LastOf(storage, u, before)
    BY <1>5, LastDayIs
  <2>2. PICK i \in Earlier(storage, u, before) : Day(storage[i].at) = LastOf(storage, u, before)
    BY <2>1
  <2>3. PICK t \in Nat : t = storage[i].at /\ t <= Now
    BY StoredRow DEF Earlier, RowsOf
  <2>4. Day(t) <= today
    BY <2>3, <1>7, ClockAssumption, DaysInOrder
  <2>5. LastOf(storage, u, before) = last
    BY <2>1, <2>2, <2>3, <2>4, <1>7, <1>9
  <2> QED BY <2>1, <2>5, <1>6
<1> QED BY <1>8, <1>9

----------------------------------------------------------------------------
\* The chart of a request about storage.

\* What may be shown before the first day on which anything is stored.
Began(given, earlier, u, from) ==
    given \in {SizeBefore(earlier, u, from), SizeBefore(storage, u, from)}

\* The chart is made of days that show what one table says of them.
ChartShows(chart, table, earlier, u, w, from) ==
    \E a \in Nat, m \in Int : \E used \in [a..m -> Nat], given \in Nat :
        /\ a <= m + 1
        /\ ShownDays(chart, used, a, m)
        /\ AllShown(table, u, w, a, m)
        /\ \A d \in a..m :
              ShownOn(table, FoundIn(table, u, w), d, used[d],
                      IF Measured(table, FoundIn(table, u, w), a) THEN 0 ELSE given)
        /\ a <= m /\ ~ Measured(table, FoundIn(table, u, w), a) => Began(given, earlier, u, from)

\* The days that a request has read, from day a to day m, of a table.
DaysOf(days, table, u, w, a, m) ==
    /\ a <= m + 1
    /\ DaysFit(days, table, u, w, a, m)
    /\ BeginFits(table, u, w, a)
    /\ AllShown(table, u, w, a, m)

(* A second query is needed if the first day has no record.                 *)
LEMMA LastNeeded ==
    ASSUME NEW a \in Nat, NEW m \in Int, a <= m + 1, NEW results, DOMAIN results = a..m
    PROVE  NeedsLast(results) <=> a <= m /\ results[a].filler
<1>1. CASE a <= m
  <2>0. a \in a..m
    BY <1>1
  <2>1. a \in a..m /\ a..m # {} /\ \A k \in a..m : a <= k
    <3>1. a..m # {}
      BY <2>0, Zenon
    <3>2. \A k \in a..m : a <= k
      OBVIOUS
    <3> QED BY <2>0, <3>1, <3>2
  <2>2. a..m \subseteq Nat
    OBVIOUS
  <2>3. Min(a..m) = a
    BY <2>1, <2>2, MinChosen
  <2> QED BY <1>1, <2>1, <2>3 DEF NeedsLast
<1>2. CASE ~ (a <= m)
  <2>1. a..m = {}
    BY <1>2
  <2> QED BY <1>2, <2>1 DEF NeedsLast
<1> QED BY <1>1, <1>2

(* The answer of the first query alone.                                     *)
(* The answer, with what is carried into its first day.                     *)
LEMMA DaysShown ==
    ASSUME NEW table \in Seq(StorageRow), NEW earlier, NEW u, NEW w, NEW days,
           NEW a \in Nat, NEW m \in Int, DaysOf(days, table, u, w, a, m),
           NEW last \in Nat \cup {None},
           a <= m /\ ~ Measured(table, FoundIn(table, u, w), a) =>
              Began(IF last = None THEN 0 ELSE last, earlier, u, days.from)
    PROVE  ChartShows(StorageAnalyticsFormat(Carried(days.results, last)),
                      table, earlier, u, w, days.from)
<1>1. PICK results : results = days.results
  OBVIOUS
<1>2. DOMAIN results = a..m /\ a <= m + 1 /\ \A d \in a..m : results[d].used \in Nat
  BY <1>1 DEF DaysOf, DaysFit
<1>3. PICK used : used = Carried(results, last)
  OBVIOUS
<1>4. IsCarried(used, results, last, a, m)
  BY <1>2, <1>3, CarriedOn
<1>5. used \in [a..m -> Nat]
  BY <1>4 DEF IsCarried
<1>6. ShownDays(StorageAnalyticsFormat(used), used, a, m)
  BY <1>2, <1>5, DaysFormatted
<1>7. PICK F : F = FoundIn(table, u, w)
  OBVIOUS
<1>8. PICK given \in Nat : given = IF last = None THEN 0 ELSE last
  BY NamesAssumption
<1>9. PICK begin : begin = IF Measured(table, F, a) \/ last = None THEN 0 ELSE last
  OBVIOUS
<1>10. begin = IF Measured(table, F, a) THEN 0 ELSE given
  BY <1>8, <1>9
<1>11. \A d \in a..m : ShownOn(table, F, d, used[d], begin)
  <2>1. DaysFit(days, table, u, w, a, m) /\ BeginFits(table, u, w, a) /\ a <= m + 1
    BY DEF DaysOf
  <2>2. IsCarried(used, days.results, last, a, m)
    BY <1>1, <1>4
  <2> QED BY <2>1, <2>2, <1>7, <1>9, DaysCarried
<1>12. AllShown(table, u, w, a, m)
  BY DEF DaysOf
<1>13. a <= m /\ ~ Measured(table, F, a) => Began(given, earlier, u, days.from)
  BY <1>7, <1>8
<1> QED BY <1>1, <1>2, <1>3, <1>5, <1>6, <1>7, <1>8, <1>10, <1>11, <1>12, <1>13 DEF ChartShows

\* What StorageByDay says of a chart.
ChartOfDays(chart, rows, earlier, u, w, from) ==
    LET found == FoundIn(rows, u, w)
        upTo(d) == {e \in {Day(rows[i].at) : i \in found} :
                       e <= d /\ TotalOn(rows, found, e) # 0}
    IN  /\ \A i \in DOMAIN chart :
              /\ chart[i].day = chart[1].day + i - 1
              /\ IF upTo(chart[i].day) # {}
                 THEN LET last == Max(upTo(chart[i].day))
                      IN  chart[i].used \in
                              PeakOn(rows, found, last)..TotalOn(rows, found, last)
                 ELSE IF RowsOn(rows, found, chart[1].day) # {}
                 THEN chart[i].used = 0
                 ELSE \E table \in {earlier, storage} :
                          chart[i].used = SizeBefore(table, u, from)
        /\ Whole(w.from) /\ Whole(w.to) =>
              \A i \in found : \E k \in DOMAIN chart : chart[k].day = Day(rows[i].at)

(* The charts shown are such.                                               *)
LEMMA ChartIs ==
    ASSUME NEW rows \in Seq(StorageRow), NEW chart, NEW earlier, NEW u, NEW w, NEW from,
           ChartShows(chart, rows, earlier, u, w, from)
    PROVE  ChartOfDays(chart, rows, earlier, u, w, from)
<1> DEFINE found == FoundIn(rows, u, w)
           days == {Day(rows[i].at) : i \in found}
           upTo(d) == {e \in days : e <= d /\ TotalOn(rows, found, e) # 0}
           Shows(i) ==
              IF upTo(chart[i].day) # {}
              THEN LET latest == Max(upTo(chart[i].day))
                   IN  chart[i].used \in
                           PeakOn(rows, found, latest)..TotalOn(rows, found, latest)
              ELSE IF RowsOn(rows, found, chart[1].day) # {}
              THEN chart[i].used = 0
              ELSE \E table \in {earlier, storage} :
                       chart[i].used = SizeBefore(table, u, from)
           Complete ==
              Whole(w.from) /\ Whole(w.to) =>
                  \A i \in found : \E k \in DOMAIN chart : chart[k].day = Day(rows[i].at)
<1>1. ChartOfDays(chart, rows, earlier, u, w, from) <=>
          /\ \A i \in DOMAIN chart : chart[i].day = chart[1].day + i - 1 /\ Shows(i)
          /\ Complete
  BY ZenonT(30) DEF ChartOfDays
<1>2. found \subseteq DOMAIN rows /\ \A i \in found : Day(rows[i].at) \in Nat
  <2>1. found \subseteq DOMAIN rows
    BY DEF FoundIn, RowsOf
  <2> QED BY <2>1, StoredRow
<1>3. days \subseteq Nat
  BY <1>2
<1> HIDE DEF found, days, Complete
<1>8. PICK a \in Nat, m \in Int : \E used \in [a..m -> Nat], given \in Nat :
        /\ a <= m + 1
        /\ ShownDays(chart, used, a, m)
        /\ AllShown(rows, u, w, a, m)
        /\ \A d \in a..m :
              ShownOn(rows, found, d, used[d], IF Measured(rows, found, a) THEN 0 ELSE given)
        /\ a <= m /\ ~ Measured(rows, found, a) => Began(given, earlier, u, from)
  BY DEF ChartShows, found
<1>9. PICK used \in [a..m -> Nat], given \in Nat :
        /\ a <= m + 1
        /\ ShownDays(chart, used, a, m)
        /\ AllShown(rows, u, w, a, m)
        /\ \A d \in a..m :
              ShownOn(rows, found, d, used[d], IF Measured(rows, found, a) THEN 0 ELSE given)
        /\ a <= m /\ ~ Measured(rows, found, a) => Began(given, earlier, u, from)
  BY <1>8
<1>10. /\ DOMAIN chart = 1..(m - a + 1)
       /\ \A i \in 1..(m - a + 1) : chart[i].day = a + i - 1 /\ chart[i].used = used[a + i - 1]
  BY <1>9 DEF ShownDays
<1>14. ASSUME NEW i \in DOMAIN chart
       PROVE  chart[i].day = chart[1].day + i - 1 /\ Shows(i)
  <2>1. i \in 1..(m - a + 1) /\ 1 \in 1..(m - a + 1) /\ a <= m
    BY <1>10
  <2>2. chart[1].day = a
    BY <2>1, <1>10
  <2>3. PICK d \in a..m : d = a + i - 1
    BY <2>1
  <2>4. chart[i].day = d /\ chart[i].used = used[d] /\ d \in Nat
    BY <2>1, <2>3, <1>10
  <2>5. ShownOn(rows, found, d, used[d], IF Measured(rows, found, a) THEN 0 ELSE given)
    BY <1>9
  <2>6. ASSUME NEW e \in Nat, Lastly(rows, found, d, e),
               used[d] \in PeakOn(rows, found, e)..TotalOn(rows, found, e)
        PROVE  Shows(i)
    <3>1. PICK U : U = upTo(d)
      OBVIOUS
    <3>2. e \in U
      BY <2>6, <3>1, <1>2 DEF Lastly, Measured, days
    <3>3. \A x \in U : e >= x
      BY <2>6, <3>1, <1>3 DEF Lastly, days
    <3>4. U \subseteq Nat
      BY <3>1, <1>3
    <3>5. Max(U) = e
      BY <3>2, <3>3, <3>4, MaxChosen
    <3>6. upTo(chart[i].day) = U /\ U # {}
      BY <3>1, <3>2, <2>4
    <3>7. chart[i].used \in PeakOn(rows, found, Max(U))..TotalOn(rows, found, Max(U))
      BY <2>4, <2>6, <3>5
    <3> QED BY <3>6, <3>7
  <2>7. ASSUME NothingUpTo(rows, found, d),
               used[d] = IF Measured(rows, found, a) THEN 0 ELSE given
        PROVE  Shows(i)
    <3>1. upTo(chart[i].day) = {}
      BY <2>4, <2>7, <1>2 DEF NothingUpTo, days
    <3>2. RowsOn(rows, found, chart[1].day) # {} <=> Measured(rows, found, a)
      BY <2>2 DEF RowsOn, Measured
    <3>3. CASE Measured(rows, found, a)
      BY <3>1, <3>2, <3>3, <2>4, <2>7
    <3>4. CASE ~ Measured(rows, found, a)
      <4>1. chart[i].used = given
        BY <3>4, <2>4, <2>7
      <4>2. given \in {SizeBefore(earlier, u, from), SizeBefore(storage, u, from)}
        BY <3>4, <2>1, <1>9 DEF Began
      <4>3. \E table \in {earlier, storage} : chart[i].used = SizeBefore(table, u, from)
        BY <4>1, <4>2
      <4> QED BY <3>1, <3>2, <3>4, <4>3
    <3> QED BY <3>3, <3>4
  <2>8. Shows(i)
    BY <2>5, <2>6, <2>7 DEF ShownOn
  <2>9. chart[i].day = chart[1].day + i - 1
    BY <2>2, <2>3, <2>4
  <2> HIDE DEF Shows
  <2> QED BY <2>8, <2>9
<1>15. Complete
  <2> SUFFICES ASSUME Whole(w.from), Whole(w.to), NEW i \in found
               PROVE  \E k \in DOMAIN chart : chart[k].day = Day(rows[i].at)
    BY DEF Complete
  <2>1. PICK d \in a..m : d = Day(rows[i].at)
    BY <1>9 DEF AllShown, found
  <2>2. d - a + 1 \in 1..(m - a + 1) /\ a + (d - a + 1) - 1 = d
    OBVIOUS
  <2> QED BY <2>1, <2>2, <1>10
<1> HIDE DEF Shows
<1> QED BY <1>1, <1>14, <1>15

(* This is the property.                                                    *)
LEMMA StorageShown ==
    ASSUME request.rows \in Seq(StorageRow),
           ChartShows(request.chart, request.rows, request.earlier, request.user,
                      request.window, request.days.from)
    PROVE  StorageByDay
<1>1. ChartOfDays(request.chart, request.rows, request.earlier, request.user,
                  request.window, request.days.from)
  BY ChartIs
<1>2. StorageByDay <=>
          (AnswerTo("storage") =>
              ChartOfDays(request.chart, request.rows, request.earlier, request.user,
                          request.window, request.days.from))
  BY ZenonT(30) DEF StorageByDay, ChartOfDays
<1> QED BY <1>1, <1>2

----------------------------------------------------------------------------
\* The request in flight.

FigureNames ==
    {"buckets", "files", "bytes", "bandwidth", "objects", "users", "active", "unpaid", "suspended"}

(* The figures have these names.                                            *)
LEMMA FiguresNamed == DOMAIN NoFigures = FigureNames /\ NoFigures \in [FigureNames -> Nat]
  BY DEF NoFigures, FigureNames

\* Those of a user.
Four == {"buckets", "files", "bytes", "bandwidth"}

(* What they are.                                                           *)
LEMMA FiguresRead ==
    ASSUME TablesFit, NEW u
    PROVE  /\ FiguresOf(u) \in [Four -> Nat]
           /\ FiguresOf(u).buckets = Cardinality(getByOwnerUserId(u))
           /\ FiguresOf(u).files = Sum("files", getByOwnerUserId(u))
           /\ FiguresOf(u).bytes = Sum("bytes", getByOwnerUserId(u))
           /\ FiguresOf(u).bandwidth = Traffic(RowsOf(bandwidth, u))
<1>1. getByOwnerUserId(u) \subseteq Buckets
  BY DEF getByOwnerUserId
<1>2. PICK n \in Nat : n = Cardinality(getByOwnerUserId(u))
  BY <1>1, NamesCounted
<1>3. PICK f \in Nat : f = Sum("files", getByOwnerUserId(u))
  BY <1>1, SumTyped DEF Columns
<1>4. PICK b \in Nat : b = Sum("bytes", getByOwnerUserId(u))
  BY <1>1, SumTyped DEF Columns
<1>5. PICK t \in Nat : t = Traffic(RowsOf(bandwidth, u))
  <2>1. RowsOf(bandwidth, u) \subseteq DOMAIN bandwidth
    BY DEF RowsOf
  <2> QED BY <2>1, TrafficTyped
<1>6. FiguresOf(u) = [buckets |-> n, files |-> f, bytes |-> b, bandwidth |-> t]
  BY <1>2, <1>3, <1>4, <1>5 DEF FiguresOf
<1> QED BY <1>2, <1>3, <1>4, <1>5, <1>6 DEF Four

IsRequest(r) ==
    r = [at |-> r.at, kind |-> r.kind, role |-> r.role, user |-> r.user, window |-> r.window,
         found |-> r.found, days |-> r.days, last |-> r.last, chart |-> r.chart,
         figures |-> r.figures, seen |-> r.seen, moved |-> r.moved, rows |-> r.rows,
         earlier |-> r.earlier]

\* Where a request of each kind may be.
OnRoute(r) ==
    \/ r.kind = "none" /\ r.at = "idle"
    \/ /\ r.kind = "statistics" /\ r.user \in Users
       /\ r.at \in {"buckets", "objects", "versions", "traffic", "answered"}
    \/ r.kind = "bandwidth" /\ r.user \in Users /\ r.at \in {"user", "bandwidth", "answered"}
    \/ /\ r.kind = "storage" /\ r.user \in Users
       /\ r.at \in {"storage", "lastRow", "lastDay", "format", "answered"}
    \/ r.kind = "landing" /\ r.at \in {"totals", "usersCount", "answered"}
    \/ /\ r.kind = "common"
       /\ r.at \in {"totals", "usersCount", "active", "unpaid", "suspended", "answered"}

RequestFits(r) ==
    /\ IsRequest(r) /\ OnRoute(r)
    /\ r.window \in Window
    /\ r.figures \in [FigureNames -> Nat \cup {None}]
    /\ r.found \subseteq Buckets \X Nat
    /\ r.rows \in Seq(StorageRow) /\ r.earlier \in Seq(StorageRow)
    /\ r.moved \in BOOLEAN

AllowanceFits ==
    /\ allowance = [requests |-> allowance.requests, tables |-> allowance.tables,
                    writes |-> allowance.writes]
    /\ allowance.writes \in Nat

(* Without a request there is the empty one.                                *)
LEMMA NoRequestFits == RequestFits(NoRequest)
<1>1. NoRequest.window \in Window
  BY DEF NoRequest, Window
<1>2. IsRequest(NoRequest)
  BY DEF NoRequest, IsRequest
<1>3. OnRoute(NoRequest)
  BY DEF NoRequest, OnRoute
<1>4. <<>> \in Seq(StorageRow)
  OBVIOUS
<1>5. NoRequest.figures = NoFigures /\ NoRequest.rows = <<>> /\ NoRequest.earlier = <<>>
      /\ NoRequest.moved = FALSE /\ NoRequest.found = {}
  BY DEF NoRequest
<1> QED BY <1>1, <1>2, <1>3, <1>4, <1>5, FiguresNamed DEF RequestFits

\* A place where a request of a kind begins.
Begins(kind, u, place) ==
    \/ kind = "statistics" /\ u \in Users /\ place = "buckets"
    \/ kind = "bandwidth" /\ u \in Users /\ place \in {"user", "bandwidth"}
    \/ kind = "storage" /\ u \in Users /\ place = "storage"
    \/ kind \in {"landing", "common"} /\ u = None /\ place = "totals"

\* The request that is then in flight.
Asked(r, kind, role, u, w, place) ==
    r = [at |-> place, kind |-> kind, role |-> role, user |-> u, window |-> w, found |-> {},
         days |-> [from |-> 0, results |-> <<>>], last |-> None, chart |-> <<>>,
         figures |-> NoFigures, seen |-> {FiguresOf(u)}, moved |-> FALSE, rows |-> <<>>,
         earlier |-> <<>>]

(* All requests begin there.                                                *)
LEMMA RequestsBegin ==
    ASSUME CustomerAsks \/ AdminAsks
    PROVE  \E kind, role, u, w, place :
               /\ u \in Users \cup {None} /\ w \in Window /\ Begins(kind, u, place)
               /\ Ask(kind, role, u, w, place)
<1>1. NoRequest.window \in Window
  BY DEF NoRequest, Window
<1>2. CASE CustomerAsks
  BY <1>1, <1>2 DEF CustomerAsks, Begins
<1>3. CASE AdminAsks
  BY <1>1, <1>3 DEF AdminAsks, Begins
<1> QED BY <1>2, <1>3

(* And fit.                                                                 *)
LEMMA AskedFits ==
    ASSUME TablesFit, NEW kind, NEW role, NEW u \in Users \cup {None}, NEW w \in Window, NEW place,
           Begins(kind, u, place), Ask(kind, role, u, w, place)
    PROVE  Asked(request', kind, role, u, w, place) /\ RequestFits(request')
<1>1. Asked(request', kind, role, u, w, place)
  BY DEF Ask, Asked, NoRequest
<1>2. PICK r : r = request'
  OBVIOUS
<1>3. IsRequest(r)
  BY <1>1, <1>2 DEF IsRequest, Asked
<1>4. OnRoute(r)
  BY <1>1, <1>2 DEF OnRoute, Asked, Begins
<1>5. /\ r.window = w /\ r.figures = NoFigures /\ r.found = {} /\ r.moved = FALSE
      /\ r.rows = <<>> /\ r.earlier = <<>>
  BY <1>1, <1>2 DEF Asked
<1>6. <<>> \in Seq(StorageRow)
  OBVIOUS
<1> QED BY <1>1, <1>2, <1>3, <1>4, <1>5, <1>6, FiguresNamed DEF RequestFits

(* A figure that is read.                                                   *)
LEMMA FigureFits ==
    ASSUME RequestFits(request), NEW name \in FigureNames, NEW v \in Nat \cup {None}, NEW next,
           OnRoute([request EXCEPT !.at = next]), Figure(name, v, next)
    PROVE  RequestFits(request')
<1>1. PICK f : f = [request.figures EXCEPT ![name] = v]
  OBVIOUS
<1>2. f \in [FigureNames -> Nat \cup {None}]
  BY <1>1 DEF RequestFits
<1>3. PICK r : r = request'
  OBVIOUS
<1>4. r = [request EXCEPT !.figures = f, !.at = next]
  BY <1>1, <1>3 DEF Figure, RequestFits, IsRequest
<1>5. IsRequest(r)
  BY <1>4 DEF RequestFits, IsRequest
<1>6. OnRoute(r)
  BY <1>4 DEF RequestFits, IsRequest, OnRoute
<1>7. /\ r.window = request.window /\ r.figures = f /\ r.earlier = request.earlier
      /\ r.found = request.found /\ r.rows = request.rows /\ r.moved = request.moved
  BY <1>4 DEF RequestFits, IsRequest
<1> QED BY <1>2, <1>3, <1>5, <1>6, <1>7 DEF RequestFits

(* The figures that the queries return.                                     *)
LEMMA ValuesRead ==
    ASSUME TablesFit, RequestFits(request), NEW u
    PROVE  /\ Cardinality(getByOwnerUserId(u)) \in Nat
           /\ getOverallObjectsCount({id[1] : id \in request.found}) \in Nat
           /\ getObjectVersionsSizeSum(request.found) \in Nat \cup {None}
           /\ getBandwidthUsageOfUser(u) \in Nat \cup {None}
           /\ getAllObjectVersionsCountAndSizeSum.objects \in Nat
           /\ getAllObjectVersionsCountAndSizeSum.bytes \in Nat
           /\ Cardinality(Users) \in Nat
           /\ \A status : Cardinality({a \in Users : users[a].status = status}) \in Nat
<1>1. getByOwnerUserId(u) \subseteq Buckets
  BY DEF getByOwnerUserId
<1>2. {id[1] : id \in request.found} \subseteq Buckets
  BY DEF RequestFits
<1>3. {b \in Buckets : <<b, buckets[b].id>> \in request.found} \subseteq Buckets
  OBVIOUS
<1>4. Cardinality(getByOwnerUserId(u)) \in Nat /\ Cardinality(Users) \in Nat
  BY <1>1, NamesCounted
<1>5. \A status : Cardinality({a \in Users : users[a].status = status}) \in Nat
  <2> SUFFICES ASSUME NEW status
               PROVE  Cardinality({a \in Users : users[a].status = status}) \in Nat
    OBVIOUS
  <2>1. {a \in Users : users[a].status = status} \subseteq Users
    OBVIOUS
  <2> QED BY <2>1, NamesCounted
<1>6. getOverallObjectsCount({id[1] : id \in request.found}) \in Nat
  BY <1>2, SumTyped DEF getOverallObjectsCount, Columns
<1>7. getObjectVersionsSizeSum(request.found) \in Nat \cup {None}
  <2>1. Sum("bytes", {b \in Buckets : <<b, buckets[b].id>> \in request.found}) \in Nat
    BY <1>3, SumTyped DEF Columns
  <2> QED BY <2>1 DEF getObjectVersionsSizeSum
<1>8. getBandwidthUsageOfUser(u) \in Nat \cup {None}
  <2>1. RowsOf(bandwidth, u) \subseteq DOMAIN bandwidth
    BY DEF RowsOf
  <2> QED BY <2>1, TrafficTyped DEF getBandwidthUsageOfUser
<1>9. /\ getAllObjectVersionsCountAndSizeSum.objects \in Nat
      /\ getAllObjectVersionsCountAndSizeSum.bytes \in Nat
  <2>1. Sum("versions", Buckets) \in Nat /\ Sum("bytes", Buckets) \in Nat
    BY SumTyped DEF Columns
  <2> QED BY <2>1 DEF getAllObjectVersionsCountAndSizeSum
<1> QED BY <1>4, <1>5, <1>6, <1>7, <1>8, <1>9

(* The four queries of the statistics of a user.                            *)
LEMMA StatisticsStepFits ==
    ASSUME TablesFit, RequestFits(request), NEW role, GetStatistics(role)
    PROVE  RequestFits(request')
<1>1. CASE ReadBuckets
  <2>1. PICK n \in Nat : n = Cardinality(getByOwnerUserId(request.user))
    BY ValuesRead
  <2>2. PICK found : found = {<<b, buckets[b].id>> : b \in getByOwnerUserId(request.user)}
    OBVIOUS
  <2>3. found \subseteq Buckets \X Nat
    BY <2>2 DEF getByOwnerUserId, TablesFit, BucketRow
  <2>4. PICK f : f = [request.figures EXCEPT !.buckets = n]
    OBVIOUS
  <2>5. f \in [FigureNames -> Nat \cup {None}]
    BY <2>4 DEF RequestFits, FigureNames
  <2>6. PICK r : r = request'
    OBVIOUS
  <2>7. r = [request EXCEPT !.at = "objects", !.found = found, !.figures = f]
    BY <1>1, <2>1, <2>2, <2>4, <2>6 DEF ReadBuckets, RequestFits, IsRequest
  <2>8. IsRequest(r)
    BY <2>7 DEF RequestFits, IsRequest
  <2>9. OnRoute(r)
    BY <1>1, <2>7 DEF RequestFits, IsRequest, OnRoute, ReadBuckets, At
  <2>10. /\ r.window = request.window /\ r.figures = f /\ r.earlier = request.earlier
         /\ r.found = found /\ r.rows = request.rows /\ r.moved = request.moved
    BY <2>7 DEF RequestFits, IsRequest
  <2> QED BY <2>3, <2>5, <2>6, <2>8, <2>9, <2>10 DEF RequestFits
<1>2. CASE CountObjects
  <2>1. PICK v \in Nat : v = getOverallObjectsCount({id[1] : id \in request.found})
    BY ValuesRead
  <2>2. Figure("files", v, "versions") /\ OnRoute([request EXCEPT !.at = "versions"])
    BY <1>2, <2>1 DEF CountObjects, OnRoute, RequestFits, IsRequest, At
  <2> QED BY <2>2, FigureFits DEF FigureNames
<1>3. CASE SumVersions
  <2>1. PICK v \in Nat \cup {None} : v = getObjectVersionsSizeSum(request.found)
    BY ValuesRead
  <2>2. Figure("bytes", v, "traffic") /\ OnRoute([request EXCEPT !.at = "traffic"])
    BY <1>3, <2>1 DEF SumVersions, OnRoute, RequestFits, IsRequest, At
  <2> QED BY <2>2, FigureFits DEF FigureNames
<1>4. CASE SumTraffic
  <2>1. PICK v \in Nat \cup {None} : v = getBandwidthUsageOfUser(request.user)
    BY ValuesRead
  <2>2. Figure("bandwidth", v, "answered") /\ OnRoute([request EXCEPT !.at = "answered"])
    BY <1>4, <2>1 DEF SumTraffic, OnRoute, RequestFits, IsRequest, At
  <2> QED BY <2>2, FigureFits DEF FigureNames
<1> QED BY <1>1, <1>2, <1>3, <1>4 DEF GetStatistics

(* Those of the totals, for the landing page or an admin.                   *)
LEMMA TotalsStepFits ==
    ASSUME TablesFit, RequestFits(request),
           (\E role : GetStatsForLandingPage(role)) \/ getCommonStatistics
    PROVE  RequestFits(request')
<1>1. CASE SumAllVersions /\ request.kind \in {"landing", "common"}
  <2>1. PICK all : all = getAllObjectVersionsCountAndSizeSum
    OBVIOUS
  <2>2. all.objects \in Nat /\ all.bytes \in Nat
    BY <2>1, ValuesRead
  <2>3. PICK f : f = [request.figures EXCEPT !.objects = all.objects, !.bytes = all.bytes]
    OBVIOUS
  <2>4. f \in [FigureNames -> Nat \cup {None}]
    BY <2>2, <2>3 DEF RequestFits, FigureNames
  <2>5. PICK r : r = request'
    OBVIOUS
  <2>6. r = [request EXCEPT !.at = "usersCount", !.figures = f]
    BY <1>1, <2>1, <2>3, <2>5 DEF SumAllVersions, RequestFits, IsRequest
  <2>7. IsRequest(r)
    BY <2>6 DEF RequestFits, IsRequest
  <2>8. OnRoute(r)
    BY <1>1, <2>6 DEF RequestFits, IsRequest, OnRoute
  <2>9. /\ r.window = request.window /\ r.figures = f /\ r.earlier = request.earlier
        /\ r.found = request.found /\ r.rows = request.rows /\ r.moved = request.moved
    BY <2>6 DEF RequestFits, IsRequest
  <2> QED BY <2>4, <2>5, <2>7, <2>8, <2>9 DEF RequestFits
<1>2. ASSUME NEW next, CountUsers(next), OnRoute([request EXCEPT !.at = next])
      PROVE  RequestFits(request')
  <2>1. PICK v \in Nat : v = Cardinality(Users)
    BY ValuesRead
  <2>2. Figure("users", v, next)
    BY <1>2, <2>1 DEF CountUsers
  <2> QED BY <1>2, <2>2, FigureFits DEF FigureNames
<1>3. ASSUME NEW place, NEW status, NEW name \in FigureNames, NEW next,
             CountStatus(place, status, name, next), OnRoute([request EXCEPT !.at = next])
      PROVE  RequestFits(request')
  <2>1. PICK v \in Nat : v = Cardinality({u \in Users : users[u].status = status})
    BY ValuesRead
  <2>2. Figure(name, v, next)
    BY <1>3, <2>1 DEF CountStatus
  <2> QED BY <1>3, <2>2, FigureFits
<1>4. CASE \E role : GetStatsForLandingPage(role)
  <2>1. request.kind = "landing" /\ (SumAllVersions \/ CountUsers("answered"))
    BY <1>4 DEF GetStatsForLandingPage
  <2>2. OnRoute([request EXCEPT !.at = "answered"])
    BY <2>1 DEF RequestFits, IsRequest, OnRoute
  <2> QED BY <1>1, <1>2, <2>1, <2>2
<1>5. CASE getCommonStatistics
  <2>1. request.kind = "common"
    BY <1>5 DEF getCommonStatistics
  <2>2. \A next \in {"active", "unpaid", "suspended", "answered"} :
            OnRoute([request EXCEPT !.at = next])
    BY <2>1 DEF RequestFits, IsRequest, OnRoute
  <2>3. {"active", "unpaid", "suspended"} \subseteq FigureNames
    BY DEF FigureNames
  <2> QED BY <1>1, <1>2, <1>3, <1>5, <2>1, <2>2, <2>3 DEF getCommonStatistics
<1> QED BY <1>4, <1>5

ChartStep(next, chart, days, last, rows, earlier) ==
    request' = [request EXCEPT !.at = next, !.days = days, !.last = last, !.chart = chart,
                               !.rows = rows, !.earlier = earlier]

(* A step on the way to a chart.                                            *)
LEMMA ChartFits ==
    ASSUME TablesFit, RequestFits(request), NEW next, NEW chart, NEW days, NEW last, NEW rows,
           NEW earlier, rows \in {request.rows, storage}, earlier \in {request.earlier, storage},
           OnRoute([request EXCEPT !.at = next]),
           ChartStep(next, chart, days, last, rows, earlier)
    PROVE  RequestFits(request')
<1>1. PICK r : r = request'
  OBVIOUS
<1>2. IsRequest(r) /\ r.at = next
  BY <1>1 DEF RequestFits, IsRequest, ChartStep
<1>3. OnRoute(r)
  BY <1>1 DEF RequestFits, IsRequest, OnRoute, ChartStep
<1>4. /\ r.window = request.window /\ r.figures = request.figures /\ r.found = request.found
      /\ r.rows = rows /\ r.earlier = earlier /\ r.moved = request.moved
  BY <1>1 DEF RequestFits, IsRequest, ChartStep
<1>5. rows \in Seq(StorageRow) /\ earlier \in Seq(StorageRow)
  BY DEF RequestFits, TablesFit
<1> QED BY <1>1, <1>2, <1>3, <1>4, <1>5 DEF RequestFits

(* The steps of the charts.                                                 *)
LEMMA ChartStepFits ==
    ASSUME TablesFit, RequestFits(request),
           \/ getBandwidthAnalytics \/ adminGetBandwidthAnalytics \/ adminGetUser
           \/ \E role : GetStorageAnalytics(role)
    PROVE  RequestFits(request')
<1>2. CASE getBandwidthAnalytics \/ adminGetBandwidthAnalytics
  <2>1. At("bandwidth") /\ \E chart : BandwidthChart(chart)
    BY <1>2 DEF getBandwidthAnalytics, adminGetBandwidthAnalytics
  <2>2. PICK chart : request' = [request EXCEPT !.at = "answered", !.chart = chart]
    BY <2>1 DEF BandwidthChart
  <2>3. ChartStep("answered", chart, request.days, request.last, request.rows,
                  request.earlier)
    BY <2>2 DEF RequestFits, IsRequest, ChartStep
  <2>4. OnRoute([request EXCEPT !.at = "answered"])
    BY <2>1 DEF RequestFits, IsRequest, OnRoute, At
  <2> QED BY <2>3, <2>4, ChartFits
<1>3. CASE adminGetUser
  <2>1. At("user") /\ request' = [request EXCEPT !.at = "bandwidth"]
    BY <1>3 DEF adminGetUser
  <2>2. ChartStep("bandwidth", request.chart, request.days, request.last, request.rows,
                  request.earlier)
    BY <2>1 DEF RequestFits, IsRequest, ChartStep
  <2>3. OnRoute([request EXCEPT !.at = "bandwidth"])
    BY <2>1 DEF RequestFits, IsRequest, OnRoute, At
  <2> QED BY <2>2, <2>3, ChartFits
<1>4. CASE \E role : GetStorageAnalytics(role)
  <2>1. AggregateStorage \/ FindLastRow \/ SumLastDay \/ FormatStorage
    BY <1>4 DEF GetStorageAnalytics
  <2>2. request.at \in {"storage", "lastRow", "lastDay", "format"}
    BY <2>1 DEF AggregateStorage, FindLastRow, SumLastDay, FormatStorage, At
  <2>3. \A next \in {"lastRow", "lastDay", "format", "answered"} :
            OnRoute([request EXCEPT !.at = next])
    BY <2>2 DEF RequestFits, IsRequest, OnRoute
  <2>4. CASE AggregateStorage
    <3>1. PICK days : days = StorageDays(
              aggregateStorageUsage(request.user, request.window), request.window)
      OBVIOUS
    <3>2. PICK next \in {"lastRow", "format"} :
              next = IF NeedsLast(days.results) THEN "lastRow" ELSE "format"
      OBVIOUS
    <3>3. request' = [request EXCEPT !.at = next, !.days = days, !.rows = storage]
      BY <2>4, <3>1, <3>2 DEF AggregateStorage
    <3>4. ChartStep(next, request.chart, days, request.last, storage, request.earlier)
      BY <3>3 DEF RequestFits, IsRequest, ChartStep
    <3> QED BY <2>3, <3>2, <3>4, ChartFits
  <2>5. CASE FindLastRow
    <3>1. PICK last : last = LastDayBefore(request.days.from, request.user)
      OBVIOUS
    <3>2. PICK next \in {"lastDay", "format"} : next = IF last = None THEN "format" ELSE "lastDay"
      OBVIOUS
    <3>3. request' = [request EXCEPT !.at = next, !.last = last, !.earlier = storage]
      BY <2>5, <3>1, <3>2 DEF FindLastRow
    <3>4. ChartStep(next, request.chart, request.days, last, request.rows, storage)
      BY <3>3 DEF RequestFits, IsRequest, ChartStep
    <3> QED BY <2>3, <3>2, <3>4, ChartFits
  <2>6. CASE SumLastDay \/ FormatStorage
    <3>1. PICK chart : request' = [request EXCEPT !.at = "answered", !.chart = chart]
      BY <2>6 DEF SumLastDay, FormatStorage, StorageChart
    <3>2. ChartStep("answered", chart, request.days, request.last, request.rows,
                    request.earlier)
      BY <3>1 DEF RequestFits, IsRequest, ChartStep
    <3> QED BY <2>3, <3>2, ChartFits
  <2> QED BY <2>1, <2>4, <2>5, <2>6
<1> QED BY <1>2, <1>3, <1>4

\* Of a request only the history of the figures has changed.
OnlyNoted ==
    /\ request' = [request EXCEPT !.seen = request'.seen, !.moved = request'.moved]
    /\ request.seen \subseteq request'.seen
    /\ request.moved => request'.moved

(* A write that is noted.                                                   *)
LEMMA NotedFits ==
    ASSUME RequestFits(request), NEW moved \in BOOLEAN, Noted(moved)
    PROVE  /\ RequestFits(request') /\ OnlyNoted
           /\ \E u \in {request.user} : FiguresOf(u)' \in request'.seen
           /\ moved => request'.moved
<1>1. PICK u \in {request.user} :
          request' = [request EXCEPT !.seen = @ \cup {FiguresOf(u)'}, !.moved = @ \/ moved]
  BY DEF Noted
<1>2. PICK now : now = FiguresOf(u)'
  OBVIOUS
<1>3. PICK seen : seen = request.seen \cup {now}
  OBVIOUS
<1>4. PICK m \in BOOLEAN : m <=> request.moved \/ moved
  OBVIOUS
<1>a. (request.moved \/ moved) = m
  BY <1>4 DEF RequestFits
<1>5. PICK r : r = request'
  OBVIOUS
<1>b. request' = [request EXCEPT !.seen = request.seen \cup {now}, !.moved = request.moved \/ moved]
  BY <1>1, <1>2, Zenon
<1>6. r = [request EXCEPT !.seen = seen, !.moved = m]
  BY <1>b, <1>a, <1>3, <1>5, Zenon
<1>7. IsRequest(r)
  BY <1>6 DEF RequestFits, IsRequest
<1>8. OnRoute(r)
  BY <1>6 DEF RequestFits, IsRequest, OnRoute
<1>9. /\ r.window = request.window /\ r.figures = request.figures /\ r.found = request.found
      /\ r.rows = request.rows /\ r.earlier = request.earlier /\ r.moved = m /\ r.seen = seen
  BY <1>6 DEF RequestFits, IsRequest
<1>10. RequestFits(r)
  BY <1>7, <1>8, <1>9 DEF RequestFits
<1>11. request' = [request EXCEPT !.seen = request'.seen, !.moved = request'.moved]
  BY <1>5, <1>6, <1>9
<1>12. request.seen \subseteq request'.seen /\ now \in request'.seen
  BY <1>3, <1>5, <1>9
<1>13. (request.moved => request'.moved) /\ (moved => request'.moved)
  BY <1>4, <1>5, <1>9
<1> QED BY <1>2, <1>5, <1>10, <1>11, <1>12, <1>13 DEF OnlyNoted

(* What filenode and billing write changes nothing else of a request.       *)
LEMMA WritesFit ==
    ASSUME RequestFits(request),
           Filenode \/ \E u \in Users : \E status : ChangeStatus(u, status)
    PROVE  RequestFits(request') /\ ~At("answered") /\ OnlyNoted
<1>1. CASE ~At("answered") /\ \E moved \in BOOLEAN : Noted(moved)
  BY <1>1, NotedFits
<1>2. CASE request' = request /\ ~At("answered")
  <2>1. request = [request EXCEPT !.seen = request.seen, !.moved = request.moved]
    BY DEF RequestFits, IsRequest
  <2> QED BY <2>1, <1>2 DEF OnlyNoted
<1>3. CASE Filenode
  <2>1. CASE \E b \in Buckets : \E contents : Stores(b, contents)
    BY <2>1, <1>1 DEF Stores, Write
  <2>2. CASE \E b \in Buckets : \E from, to : Rehouse(b, from, to)
    <3>1. PICK from, to : Noted(request.user \in {from, to}) /\ ~At("answered")
      BY <2>2 DEF Rehouse, Write
    <3>2. (request.user \in {from, to}) \in BOOLEAN
      OBVIOUS
    <3> QED BY <3>1, <3>2, <1>1
  <2>3. CASE \E u \in Users, type \in Direction : MeasureTraffic(u, type)
    BY <2>3, <1>1 DEF MeasureTraffic, Write
  <2>4. CASE \E b \in Buckets : MeasureBucket(b)
    BY <2>4, <1>2 DEF MeasureBucket, Write
  <2> QED BY <1>3, <2>1, <2>2, <2>3, <2>4 DEF Filenode, PutFile, PutFolder, DeleteFile,
                                              CreateBucket, DeleteBucket
<1>4. CASE \E u \in Users : \E status : ChangeStatus(u, status)
  BY <1>2, <1>4 DEF ChangeStatus, Write
<1> QED BY <1>3, <1>4

(* Every step leaves a request that fits.                                   *)
LEMMA RequestKept ==
    ASSUME TablesFit, RequestFits(request), [StatisticsNext]_statisticsVars
    PROVE  RequestFits(request')
<1>1. CASE CustomerAsks \/ AdminAsks
  BY <1>1, RequestsBegin, AskedFits
<1>2. CASE getStatistics \/ adminGetStatistics
  BY <1>2, StatisticsStepFits DEF getStatistics, adminGetStatistics
<1>3. CASE getStatsForLandingPage \/ adminGetStatsForLandingPage \/ getCommonStatistics
  BY <1>3, TotalsStepFits DEF getStatsForLandingPage, adminGetStatsForLandingPage
<1>4. CASE \/ getBandwidthAnalytics \/ adminGetBandwidthAnalytics \/ adminGetUser
           \/ getStorageAnalytics \/ adminGetStorageAnalytics
  BY <1>4, ChartStepFits DEF getStorageAnalytics, adminGetStorageAnalytics
<1>5. CASE adminGetUserFails \/ Answered
  <2>1. request' = NoRequest
    BY <1>5 DEF adminGetUserFails, Answered
  <2> QED BY <2>1, NoRequestFits
<1>6. CASE Filenode \/ \E u \in Users : \E status : ChangeStatus(u, status)
  BY <1>6, WritesFit
<1>7. CASE UNCHANGED statisticsVars
  BY <1>7 DEF statisticsVars
<1> QED BY <1>1, <1>2, <1>3, <1>4, <1>5, <1>6, <1>7 DEF StatisticsNext

----------------------------------------------------------------------------
----------------------------------------------------------------------------
\* The tables as filenode and billing write them.

TablesInv ==
    /\ TablesFit /\ AllowanceFits
    /\ TrafficOfUsers(bandwidth, users)

\* A bucket keeps its owner and its id.
Stays(b) ==
    buckets'[b].owner = buckets[b].owner /\ buckets'[b].id = buckets[b].id

(* The contents of a bucket change.                                         *)
LEMMA ContentsStored ==
    ASSUME TablesFit, NEW b \in Buckets, NEW n \in Contents, Stores(b, n)
    PROVE  /\ buckets' \in [Buckets -> BucketRow]
           /\ \A c \in Buckets : Stays(c)
           /\ UNCHANGED <<storage, bandwidth, users>> /\ Write("buckets") /\ Noted(FALSE)
<1>1. PICK row \in BucketRow : row = buckets[b]
  BY DEF TablesFit
<1>2. PICK new : new = [id |-> row.id, owner |-> row.owner, contents |-> n]
  OBVIOUS
<1>3. new \in BucketRow
  BY <1>1, <1>2 DEF BucketRow
<1>4. buckets' = [buckets EXCEPT ![b] = new]
  <2>1. buckets' = [buckets EXCEPT ![b] = [row EXCEPT !.contents = n]]
    BY <1>1 DEF Stores
  <2>2. [row EXCEPT !.contents = n] = new
    BY <1>1, <1>2 DEF BucketRow
  <2> QED BY <2>1, <2>2
<1>5. buckets' \in [Buckets -> BucketRow]
  BY <1>3, <1>4 DEF TablesFit
<1>6. ASSUME NEW c \in Buckets
      PROVE  Stays(c)
  <2>1. CASE c = b
    <3>1. buckets'[c] = new
      BY <2>1, <1>4 DEF TablesFit
    <3> QED BY <2>1, <3>1, <1>1, <1>2 DEF Stays
  <2>2. CASE c # b
    <3>1. buckets'[c] = buckets[c]
      BY <2>2, <1>4 DEF TablesFit
    <3> QED BY <3>1 DEF Stays
  <2> QED BY <2>1, <2>2
<1> QED BY <1>5, <1>6 DEF Stores

(* Files and folders are added, and files deleted.                          *)
LEMMA FilesChanged ==
    ASSUME TablesFit, NEW b \in Buckets, PutFile(b) \/ PutFolder(b) \/ DeleteFile(b)
    PROVE  /\ buckets' \in [Buckets -> BucketRow]
           /\ \A c \in Buckets : Stays(c)
           /\ UNCHANGED <<storage, bandwidth, users>> /\ Write("buckets") /\ Noted(FALSE)
<1>1. PICK c \in [files : Nat, folders : Nat, versions : Nat, bytes : Nat] :
          c = buckets[b].contents /\ (c.versions = 0 => c.bytes = 0)
  BY DEF TablesFit, BucketRow, Contents
<1>2. c = [files |-> c.files, folders |-> c.folders, versions |-> c.versions, bytes |-> c.bytes]
  OBVIOUS
<1>3. \E n \in Contents : Stores(b, n)
  <2>1. CASE PutFile(b)
    <3>1. PICK n : n = [c EXCEPT !.files = @ + 1, !.versions = @ + 1, !.bytes = @ + 1]
                   /\ Stores(b, n)
      BY <1>1, <2>1 DEF PutFile
    <3>2. n = [files |-> c.files + 1, folders |-> c.folders, versions |-> c.versions + 1,
               bytes |-> c.bytes + 1]
      BY <3>1, <1>2
    <3>3. n \in [files : Nat, folders : Nat, versions : Nat, bytes : Nat] /\ n.versions # 0
      BY <3>2
    <3>4. n \in Contents
      BY <3>3 DEF Contents
    <3> QED BY <3>1, <3>4
  <2>2. CASE PutFolder(b)
    <3>1. PICK n : n = [c EXCEPT !.folders = @ + 1] /\ Stores(b, n)
      BY <1>1, <2>2 DEF PutFolder
    <3>2. n = [files |-> c.files, folders |-> c.folders + 1, versions |-> c.versions,
               bytes |-> c.bytes]
      BY <3>1, <1>2
    <3>3. n \in [files : Nat, folders : Nat, versions : Nat, bytes : Nat]
          /\ (n.versions = 0 => n.bytes = 0)
      BY <3>2, <1>1
    <3>4. n \in Contents
      BY <3>3 DEF Contents
    <3> QED BY <3>1, <3>4
  <2>3. CASE DeleteFile(b)
    <3>1. PICK left, n :
              /\ left \in 0..c.bytes
              /\ n = [c EXCEPT !.files = @ - 1, !.versions = @ - 1, !.bytes = left]
              /\ Stores(b, n) /\ c.files > 0 /\ c.versions > 0
              /\ c.versions = 1 => left = 0
      BY <1>1, <2>3 DEF DeleteFile
    <3>2. n = [files |-> c.files - 1, folders |-> c.folders, versions |-> c.versions - 1,
               bytes |-> left]
      BY <3>1, <1>2
    <3>3. n \in [files : Nat, folders : Nat, versions : Nat, bytes : Nat]
          /\ (n.versions = 0 => n.bytes = 0)
      BY <3>1, <3>2
    <3>4. n \in Contents
      BY <3>3 DEF Contents
    <3> QED BY <3>1, <3>4
  <2> QED BY <2>1, <2>2, <2>3
<1> QED BY <1>3, ContentsStored

(* A bucket comes or goes.                                                  *)
LEMMA BucketMoved ==
    ASSUME TablesFit, NEW b \in Buckets, NEW from, NEW to \in Users \cup {None},
           Rehouse(b, from, to)
    PROVE  /\ buckets' \in [Buckets -> BucketRow]
           /\ \A c \in Buckets : c # b => Stays(c)
           /\ buckets[b].owner = from /\ buckets'[b].owner = to
           /\ UNCHANGED <<storage, bandwidth, users>> /\ Write("buckets")
           /\ Noted(request.user \in {from, to})
<1>1. PICK row \in BucketRow : row = buckets[b]
  BY DEF TablesFit
<1>2. PICK new : new = [id |-> row.id + 1, owner |-> to, contents |-> Empty]
  OBVIOUS
<1>3. new \in BucketRow
  <2>1. Empty \in Contents
    BY DEF Empty, Contents
  <2> QED BY <2>1, <1>1, <1>2 DEF BucketRow
<1>4. buckets' = [buckets EXCEPT ![b] = new]
  BY <1>1, <1>2 DEF Rehouse
<1>5. buckets' \in [Buckets -> BucketRow] /\ buckets'[b] = new
  BY <1>3, <1>4 DEF TablesFit
<1>6. ASSUME NEW c \in Buckets, c # b
      PROVE  Stays(c)
  <2>1. buckets'[c] = buckets[c]
    BY <1>4, <1>6 DEF TablesFit
  <2> QED BY <2>1 DEF Stays
<1> QED BY <1>2, <1>5, <1>6 DEF Rehouse

(* Traffic is measured.                                                     *)
LEMMA TrafficMeasured ==
    ASSUME TablesFit, TrafficOfUsers(bandwidth, users), NEW u \in Users, NEW type \in Direction,
           MeasureTraffic(u, type)
    PROVE  /\ bandwidth' \in Seq(BandwidthRow)
           /\ TrafficOfUsers(bandwidth', users)
           /\ UNCHANGED <<storage, buckets, users>> /\ Write("bandwidth") /\ Noted(FALSE)
<1>1. PICK row : row = [at |-> Now, user |-> u, type |-> type, size |-> 1]
  OBVIOUS
<1>2. row \in BandwidthRow
  BY <1>1, ClockAssumption DEF BandwidthRow
<1>3. bandwidth' = Append(bandwidth, row) /\ bandwidth \in Seq(BandwidthRow)
  BY <1>1 DEF MeasureTraffic, TablesFit
<1>4. /\ Len(bandwidth') = Len(bandwidth) + 1 /\ Len(bandwidth) \in Nat
      /\ bandwidth'[Len(bandwidth) + 1] = row
      /\ \A i \in 1..Len(bandwidth) : bandwidth'[i] = bandwidth[i]
      /\ DOMAIN bandwidth = 1..Len(bandwidth) /\ DOMAIN bandwidth' = 1..Len(bandwidth')
  BY <1>3
<1>5. bandwidth' \in Seq(BandwidthRow)
  BY <1>2, <1>3
<1>6. users[u].created <= Now
  BY ClockAssumption DEF TablesFit, Account
<1>7. ASSUME NEW i \in DOMAIN bandwidth'
      PROVE  users[bandwidth'[i].user].created <= bandwidth'[i].at
  <2>1. CASE i \in DOMAIN bandwidth
    BY <2>1, <1>4 DEF TrafficOfUsers
  <2>2. CASE i \notin DOMAIN bandwidth
    <3>1. i = Len(bandwidth) + 1
      BY <2>2, <1>4
    <3> QED BY <3>1, <1>1, <1>4, <1>6
  <2> QED BY <2>1, <2>2
<1> QED BY <1>5, <1>7 DEF MeasureTraffic, TrafficOfUsers

(* A bucket is measured.                                                    *)
LEMMA StorageMeasured ==
    ASSUME TablesFit, NEW b \in Buckets, MeasureBucket(b)
    PROVE  /\ storage' \in Seq(StorageRow)
           /\ \A table \in Seq(StorageRow) : Extends(storage, table) => Extends(storage', table)
           /\ UNCHANGED <<bandwidth, buckets, users, request>> /\ Write("storage")
<1>1. PICK row : row = [at |-> Now, bucket |-> b, user |-> buckets[b].owner,
                        size |-> buckets[b].contents.bytes]
  OBVIOUS
<1>2. row \in StorageRow
  <2>1. buckets[b].owner \in Users
    BY DEF MeasureBucket, TablesFit, BucketRow
  <2>2. buckets[b].contents["bytes"] \in Nat
    BY ContentsTyped DEF Columns
  <2> QED BY <2>1, <2>2, <1>1, ClockAssumption DEF StorageRow
<1>3. storage' = Append(storage, row) /\ storage \in Seq(StorageRow)
  BY <1>1 DEF MeasureBucket, TablesFit
<1>4. /\ Len(storage') = Len(storage) + 1 /\ Len(storage) \in Nat
      /\ storage'[Len(storage) + 1] = row
      /\ \A i \in 1..Len(storage) : storage'[i] = storage[i]
      /\ DOMAIN storage = 1..Len(storage) /\ DOMAIN storage' = 1..Len(storage')
  BY <1>3
<1>5. storage' \in Seq(StorageRow)
  BY <1>2, <1>3
<1>6. \A i \in DOMAIN storage' : i \in DOMAIN storage \/ i = Len(storage) + 1
  BY <1>4
<1>7. ASSUME NEW table \in Seq(StorageRow), Extends(storage, table)
      PROVE  Extends(storage', table)
  <2>1. /\ Len(table) \in Nat /\ Len(table) <= Len(storage) /\ DOMAIN table = 1..Len(table)
        /\ \A i \in DOMAIN table : storage[i] = table[i]
        /\ \A i \in DOMAIN storage : i \notin DOMAIN table => storage[i].at = Now
    <3>1. Len(table) \in Nat /\ DOMAIN table = 1..Len(table)
      OBVIOUS
    <3>2. /\ Len(table) <= Len(storage)
          /\ \A i \in DOMAIN table : storage[i] = table[i]
          /\ \A i \in DOMAIN storage : i \notin DOMAIN table => storage[i].at = Now
      BY <1>7 DEF Extends
    <3> QED BY <3>1, <3>2
  <2>2. Len(table) <= Len(storage') /\ DOMAIN table \subseteq DOMAIN storage
    BY <2>1, <1>4
  <2>3. \A i \in DOMAIN table : storage'[i] = table[i]
    BY <2>1, <2>2, <1>4
  <2>4. storage'[Len(storage) + 1].at = Now
    BY <1>1, <1>4
  <2>5. \A i \in DOMAIN storage' : i \notin DOMAIN table => storage'[i].at = Now
    BY <2>1, <2>4, <1>4, <1>6
  <2> QED BY <2>2, <2>3, <2>5 DEF Extends
<1> QED BY <1>5, <1>7 DEF MeasureBucket

(* What a step leaves of the tables.                                        *)
LEMMA TablesKept ==
    ASSUME TablesInv, [StatisticsNext]_statisticsVars
    PROVE  TablesInv'
<1>1. ASSUME AllowanceFits, \/ UNCHANGED allowance
                            \/ \E kind, role, u, w, place : Ask(kind, role, u, w, place)
                            \/ \E table : Write(table)
      PROVE  AllowanceFits'
  <2>1. CASE UNCHANGED allowance
    BY <2>1, <1>1 DEF AllowanceFits
  <2>2. CASE \E kind, role, u, w, place : Ask(kind, role, u, w, place)
    <3>1. PICK requests : allowance' = [allowance EXCEPT !.requests = requests]
      BY <2>2 DEF Ask
    <3> QED BY <3>1, <1>1 DEF AllowanceFits
  <2>3. CASE \E table : Write(table)
    <3>1. allowance' = [allowance EXCEPT !.writes = @ - 1] /\ allowance.writes > 0
      BY <2>3 DEF Write
    <3> QED BY <3>1, <1>1 DEF AllowanceFits
  <2> QED BY <2>1, <2>2, <2>3, <1>1
<1>2. ASSUME UNCHANGED tables, AllowanceFits'
      PROVE  TablesInv'
  BY <1>2 DEF TablesInv, TablesFit, tables
<1>3. CASE CustomerAsks \/ AdminAsks
  <2>1. \E kind, role, u, w, place : Ask(kind, role, u, w, place)
    BY <1>3, RequestsBegin
  <2>2. UNCHANGED tables
    BY <2>1 DEF Ask
  <2> QED BY <2>1, <2>2, <1>1, <1>2 DEF TablesInv
<1>4. CASE Unchanged
  <2>1. UNCHANGED tables /\ UNCHANGED allowance
    BY <1>4 DEF Unchanged
  <2> QED BY <2>1, <1>1, <1>2 DEF TablesInv
<1>5. CASE \E b \in Buckets : PutFile(b) \/ PutFolder(b) \/ DeleteFile(b)
  <2>1. /\ buckets' \in [Buckets -> BucketRow]
        /\ UNCHANGED <<storage, bandwidth, users>> /\ \E table : Write(table)
    BY <1>5, FilesChanged DEF TablesInv
  <2>2. AllowanceFits'
    BY <2>1, <1>1 DEF TablesInv
  <2> QED BY <2>1, <2>2 DEF TablesInv, TablesFit
<1>6. CASE \E b \in Buckets, u \in Users : CreateBucket(b, u) \/ DeleteBucket(b, u)
  <2>1. \E b \in Buckets : \E from, to \in Users \cup {None} : Rehouse(b, from, to)
    BY <1>6 DEF CreateBucket, DeleteBucket
  <2>2. /\ buckets' \in [Buckets -> BucketRow]
        /\ UNCHANGED <<storage, bandwidth, users>> /\ \E table : Write(table)
    BY <2>1, BucketMoved DEF TablesInv
  <2>3. AllowanceFits'
    BY <2>2, <1>1 DEF TablesInv
  <2> QED BY <2>2, <2>3 DEF TablesInv, TablesFit
<1>7. CASE \E u \in Users, type \in Direction : MeasureTraffic(u, type)
  <2>1. /\ bandwidth' \in Seq(BandwidthRow) /\ TrafficOfUsers(bandwidth', users)
        /\ UNCHANGED <<storage, buckets, users>> /\ \E table : Write(table)
    BY <1>7, TrafficMeasured DEF TablesInv
  <2>2. AllowanceFits'
    BY <2>1, <1>1 DEF TablesInv
  <2> QED BY <2>1, <2>2 DEF TablesInv, TablesFit
<1>8. CASE \E b \in Buckets : MeasureBucket(b)
  <2>1. /\ storage' \in Seq(StorageRow)
        /\ UNCHANGED <<bandwidth, buckets, users>> /\ \E table : Write(table)
    BY <1>8, StorageMeasured DEF TablesInv
  <2>2. AllowanceFits'
    BY <2>1, <1>1 DEF TablesInv
  <2> QED BY <2>1, <2>2 DEF TablesInv, TablesFit
<1>9. CASE \E u \in Users, status \in {"active", "payment_required", "suspended"} :
              ChangeStatus(u, status)
  <2>1. PICK u \in Users, status \in {"active", "payment_required", "suspended"} :
            /\ users' = [users EXCEPT ![u].status = status] /\ Write("users")
            /\ UNCHANGED <<storage, bandwidth, buckets>>
    BY <1>9 DEF ChangeStatus
  <2>2. PICK row \in Account : row = users[u]
    BY DEF TablesInv, TablesFit
  <2>3. PICK new : new = [created |-> row.created, status |-> status]
    OBVIOUS
  <2>4. new \in Account
    BY <2>2, <2>3 DEF Account
  <2>5. users' = [users EXCEPT ![u] = new]
    <3>1. users' = [users EXCEPT ![u] = [row EXCEPT !.status = status]]
      BY <2>1, <2>2
    <3>2. [row EXCEPT !.status = status] = new
      BY <2>2, <2>3 DEF Account
    <3> QED BY <3>1, <3>2
  <2>6. users' \in [Users -> Account]
    BY <2>4, <2>5 DEF TablesInv, TablesFit
  <2>7. \A a \in Users : users'[a].created = users[a].created
    BY <2>2, <2>3, <2>5 DEF TablesInv, TablesFit
  <2>8. \A i \in DOMAIN bandwidth : bandwidth[i].user \in Users
    BY TrafficRow DEF TablesInv
  <2>9. TrafficOfUsers(bandwidth, users')
    BY <2>7, <2>8 DEF TablesInv, TrafficOfUsers
  <2>10. AllowanceFits'
    BY <2>1, <1>1 DEF TablesInv
  <2> QED BY <2>1, <2>6, <2>9, <2>10 DEF TablesInv, TablesFit
<1>10. CASE UNCHANGED statisticsVars
  <2>1. UNCHANGED tables /\ UNCHANGED allowance
    BY <1>10 DEF statisticsVars
  <2> QED BY <2>1, <1>1, <1>2 DEF TablesInv
<1>11. Filenode => \/ \E b \in Buckets : PutFile(b) \/ PutFolder(b) \/ DeleteFile(b)
                   \/ \E b \in Buckets, u \in Users : CreateBucket(b, u) \/ DeleteBucket(b, u)
                   \/ \E u \in Users, type \in Direction : MeasureTraffic(u, type)
                   \/ \E b \in Buckets : MeasureBucket(b)
  BY DEF Filenode
<1>12. (\/ getStatistics \/ adminGetStatistics \/ getBandwidthAnalytics
        \/ adminGetBandwidthAnalytics \/ getStorageAnalytics \/ adminGetStorageAnalytics
        \/ getStatsForLandingPage \/ adminGetStatsForLandingPage \/ adminGetUser
        \/ adminGetUserFails \/ getCommonStatistics \/ Answered) => Unchanged
  BY DEF getStatistics, adminGetStatistics, GetStatistics, getBandwidthAnalytics,
         adminGetBandwidthAnalytics, getStorageAnalytics, adminGetStorageAnalytics,
         GetStorageAnalytics, getStatsForLandingPage, adminGetStatsForLandingPage,
         GetStatsForLandingPage, adminGetUser, adminGetUserFails, getCommonStatistics, Answered
<1> QED BY <1>3, <1>4, <1>5, <1>6, <1>7, <1>8, <1>9, <1>10, <1>11, <1>12 DEF StatisticsNext

----------------------------------------------------------------------------
\* What the charts show.

\* The days that a request has read.
HasRead(days, rows, u, w) == \E a \in Nat, m \in Int : DaysOf(days, rows, u, w, a, m)

\* The last day before them, that a request has found.
HasFound(last, earlier, u, from) ==
    /\ Extends(storage, earlier) /\ Earlier(earlier, u, from) # {}
    /\ last = LastOf(earlier, u, from)

\* The days that can be shown without a day before them.
HasAll(days, rows, earlier, u, w) ==
    \E a \in Nat, m \in Int :
        /\ DaysOf(days, rows, u, w, a, m)
        /\ a <= m /\ ~ Measured(rows, FoundIn(rows, u, w), a) =>
              SizeBefore(earlier, u, days.from) = 0

\* What a request knows at each of its places.
Knows(r) ==
    /\ r.at \in {"lastRow", "lastDay"} => HasRead(r.days, r.rows, r.user, r.window)
    /\ r.at = "lastDay" => HasFound(r.last, r.earlier, r.user, r.days.from)
    /\ r.at = "format" => HasAll(r.days, r.rows, r.earlier, r.user, r.window)

Answers ==
    /\ ~At("answered") => request.chart = <<>>
    /\ AnswerTo("bandwidth") => ChartOf(request.chart, request.user, request.window)
    /\ AnswerTo("storage") =>
          ChartShows(request.chart, request.rows, request.earlier, request.user,
                     request.window, request.days.from)
    /\ Knows(request)

(* A chart of traffic stays right as long as the traffic does.              *)
LEMMA ChartKept ==
    ASSUME UNCHANGED <<bandwidth, users>>, NEW chart, NEW u, NEW w, ChartOf(chart, u, w)
    PROVE  ChartOf(chart, u, w)'
<1>1. Found(u, w)' = Found(u, w)
  BY DEF Found, RowsOf, InWindow
<1>2. Start(u, w)' = Start(u, w)
  BY DEF Start
<1>3. \A I : Traffic(I)' = Traffic(I)
  BY DEF Traffic
<1>4. \A d, type : OfDay(u, w, d, type)' = OfDay(u, w, d, type)
  BY <1>1 DEF OfDay, KeyOf
<1> QED BY <1>1, <1>2, <1>3, <1>4 DEF ChartOf

(* The answer about traffic.                                                *)
LEMMA BandwidthAnswered ==
    ASSUME TablesInv, RequestFits(request), getBandwidthAnalytics \/ adminGetBandwidthAnalytics
    PROVE  Answers'
<1>1. PICK u : u = request.user
  OBVIOUS
<1>2. PICK w \in Window : w = request.window
  BY DEF RequestFits
<1>3. At("bandwidth") /\ request.kind = "bandwidth" /\ u \in Users
  BY <1>1 DEF getBandwidthAnalytics, adminGetBandwidthAnalytics, RequestFits, OnRoute, At
<1>4. PICK first \in Direction : BandwidthChart(addDaysWithZeroBandwidth(
          aggregateByDays(u, w, first), w, users[u].created))
  BY <1>1, <1>2 DEF getBandwidthAnalytics, adminGetBandwidthAnalytics, Usage,
                    adminAddDaysWithZeroBandwidth
<1>5. PICK chart : chart = addDaysWithZeroBandwidth(
          aggregateByDays(u, w, first), w, users[u].created)
  OBVIOUS
<1>6. ChartOf(chart, u, w)
  BY <1>3, <1>5, ChartShown DEF TablesInv
<1>7. UNCHANGED <<bandwidth, users>>
  BY DEF getBandwidthAnalytics, adminGetBandwidthAnalytics, Unchanged, tables
<1>8. ChartOf(chart, u, w)'
  BY <1>6, <1>7, ChartKept
<1>9. request' = [request EXCEPT !.at = "answered", !.chart = chart]
  BY <1>4, <1>5 DEF BandwidthChart
<1>10. /\ request'.at = "answered" /\ request'.kind = "bandwidth"
       /\ request'.chart = chart /\ request'.user = u /\ request'.window = w
  BY <1>1, <1>2, <1>3, <1>9 DEF RequestFits, IsRequest
<1> QED BY <1>8, <1>10 DEF Answers, At, AnswerTo, Knows

(* The days of the first query of a chart.                                  *)
LEMMA FirstRead ==
    ASSUME TablesFit, RequestFits(request), Answers, AggregateStorage, UNCHANGED storage
    PROVE  Answers'
<1>1. PICK u : u = request.user
  OBVIOUS
<1>2. PICK w \in Window : w = request.window
  BY DEF RequestFits
<1>3. PICK days : days = StorageDays(aggregateStorageUsage(u, w), w)
  OBVIOUS
<1>4. storage \in Seq(StorageRow)
  BY DEF TablesFit
<1>5. PICK a \in Nat, m \in Int : DaysOf(days, storage, u, w, a, m)
  BY <1>3, <1>4, DaysRead DEF DaysOf
<1>6. NeedsLast(days.results) <=> a <= m /\ days.results[a].filler
  BY <1>5, LastNeeded DEF DaysOf, DaysFit
<1>7. PICK next \in {"lastRow", "format"} :
          next = IF NeedsLast(days.results) THEN "lastRow" ELSE "format"
  OBVIOUS
<1>8. request' = [request EXCEPT !.at = next, !.days = days, !.rows = storage]
  BY <1>1, <1>2, <1>3, <1>7 DEF AggregateStorage
<1>9. /\ request'.at = next /\ request'.days = days /\ request'.rows = storage
      /\ request'.chart = request.chart /\ request'.user = u /\ request'.window = w
      /\ request'.earlier = request.earlier
  BY <1>8, <1>1, <1>2 DEF RequestFits, IsRequest
<1>10. request.chart = <<>>
  BY DEF Answers, AggregateStorage, At
<1>11. HasRead(days, storage, u, w)
  BY <1>5 DEF HasRead
<1>12. next = "format" => HasAll(days, storage, request.earlier, u, w)
  <2>1. ASSUME next = "format", a <= m
        PROVE  Measured(storage, FoundIn(storage, u, w), a)
    <3>1. a \in a..m
      BY <2>1
    <3>2. days.results[a].filler <=> ~ Measured(storage, FoundIn(storage, u, w), a)
      BY <3>1, <1>5 DEF DaysOf, DaysFit
    <3> QED BY <3>2, <2>1, <1>6, <1>7
  <2> QED BY <2>1, <1>5 DEF HasAll
<1>13. Knows(request')
  BY <1>9, <1>11, <1>12 DEF Knows
<1>14. Knows(request)'
  BY <1>13 DEF Knows, HasRead, HasFound, HasAll
<1> QED BY <1>9, <1>10, <1>14 DEF Answers, At, AnswerTo

(* The last day before an instant is that of the rows before it.            *)
LEMMA LastFound ==
    ASSUME storage \in Seq(StorageRow), NEW u, NEW before \in Nat,
           NEW last, last = LastDayBefore(before, u)
    PROVE  IF last = None THEN Earlier(storage, u, before) = {}
           ELSE Earlier(storage, u, before) # {} /\ last = LastOf(storage, u, before)
<1>1. last = IF Earlier(storage, u, before) = {} THEN None ELSE LastOf(storage, u, before)
  BY DEF LastDayBefore, Earlier, LastOf
<1>2. Earlier(storage, u, before) # {} => LastOf(storage, u, before) # None
  BY LastDayIs, NamesAssumption
<1> QED BY <1>1, <1>2

(* The second query.                                                        *)
LEMMA LastRowFound ==
    ASSUME TablesFit, RequestFits(request), Answers, FindLastRow, UNCHANGED storage
    PROVE  Answers'
<1>1. PICK u, w, days, rows : /\ u = request.user /\ w = request.window
                              /\ days = request.days /\ rows = request.rows
  OBVIOUS
<1>2. HasRead(days, rows, u, w)
  BY <1>1 DEF Answers, Knows, FindLastRow, At
<1>3. PICK a \in Nat, m \in Int : DaysOf(days, rows, u, w, a, m)
  BY <1>2 DEF HasRead
<1>4. days.from \in Nat
  BY <1>3 DEF DaysOf, DaysFit
<1>5. storage \in Seq(StorageRow)
  BY DEF TablesFit
<1>6. PICK last : last = LastDayBefore(days.from, u)
  OBVIOUS
<1>7. IF last = None THEN Earlier(storage, u, days.from) = {}
      ELSE Earlier(storage, u, days.from) # {} /\ last = LastOf(storage, u, days.from)
  BY <1>4, <1>5, <1>6, LastFound
<1>8. PICK next \in {"format", "lastDay"} : next = IF last = None THEN "format" ELSE "lastDay"
  OBVIOUS
<1>9. request' = [request EXCEPT !.at = next, !.last = last, !.earlier = storage]
  BY <1>1, <1>6, <1>8 DEF FindLastRow
<1>10. /\ request'.at = next /\ request'.days = days /\ request'.rows = rows
       /\ request'.last = last /\ request'.earlier = storage
       /\ request'.chart = request.chart /\ request'.user = u /\ request'.window = w
  BY <1>9, <1>1 DEF RequestFits, IsRequest
<1>11. request.chart = <<>>
  BY DEF Answers, FindLastRow, At
<1>12. next = "format" => HasAll(days, rows, storage, u, w)
  <2>1. next = "format" => SizeBefore(storage, u, days.from) = 0
    BY <1>7, <1>8, NothingBefore
  <2> QED BY <2>1, <1>3 DEF HasAll
<1>13. next = "lastDay" => HasFound(last, storage, u, days.from)
  <2>1. Extends(storage, storage)
    BY <1>5, ExtendsItself
  <2> QED BY <2>1, <1>7, <1>8 DEF HasFound
<1>14. Knows(request')
  BY <1>2, <1>10, <1>12, <1>13 DEF Knows
<1>15. Knows(request)'
  BY <1>14 DEF Knows, HasRead, HasFound, HasAll
<1> QED BY <1>10, <1>11, <1>15 DEF Answers, At, AnswerTo

(* The chart is made of what the request knows.                             *)
LEMMA ChartMade ==
    ASSUME RequestFits(request), request.kind = "storage", UNCHANGED storage,
           NEW last, StorageChart(Carried(request.days.results, last)),
           ChartShows(StorageAnalyticsFormat(Carried(request.days.results, last)),
                      request.rows, request.earlier, request.user, request.window,
                      request.days.from)
    PROVE  Answers'
<1>1. PICK u, w, days, rows, earlier :
          /\ u = request.user /\ w = request.window /\ days = request.days
          /\ rows = request.rows /\ earlier = request.earlier
  OBVIOUS
<1>2. PICK chart : chart = StorageAnalyticsFormat(Carried(days.results, last))
  OBVIOUS
<1>3. ChartShows(chart, rows, earlier, u, w, days.from)
  BY <1>1, <1>2
<1>4. ChartShows(chart, rows, earlier, u, w, days.from)'
  BY <1>3 DEF ChartShows, Began
<1>5. request' = [request EXCEPT !.at = "answered", !.chart = chart]
  BY <1>1, <1>2 DEF StorageChart
<1>6. /\ request'.at = "answered" /\ request'.rows = rows /\ request'.kind = "storage"
      /\ request'.chart = chart /\ request'.user = u /\ request'.window = w
      /\ request'.days = days /\ request'.earlier = earlier
  BY <1>5, <1>1 DEF RequestFits, IsRequest
<1> QED BY <1>4, <1>6 DEF Answers, At, AnswerTo, Knows

(* With the size of the last day.                                           *)
LEMMA LastDaySummed ==
    ASSUME TablesFit, RequestFits(request), Answers, SumLastDay, UNCHANGED storage
    PROVE  Answers'
<1>1. PICK u, w, days, last, rows, earlier :
          /\ rows \in Seq(StorageRow) /\ earlier \in Seq(StorageRow)
          /\ u = request.user /\ w = request.window /\ days = request.days
          /\ last = request.last /\ rows = request.rows /\ earlier = request.earlier
  BY DEF RequestFits
<1>2. HasRead(days, rows, u, w) /\ HasFound(last, earlier, u, days.from)
  BY <1>1 DEF Answers, Knows, SumLastDay, At
<1>3. PICK a \in Nat, m \in Int : DaysOf(days, rows, u, w, a, m)
  BY <1>2 DEF HasRead
<1>4. days.from \in Nat
  BY <1>3 DEF DaysOf, DaysFit
<1>5. storage \in Seq(StorageRow)
  BY DEF TablesFit
<1>6. PICK size : size = SizeOfDay(last, u)
  OBVIOUS
<1>7. size \in {SizeBefore(earlier, u, days.from), SizeBefore(storage, u, days.from)}
  BY <1>1, <1>2, <1>4, <1>5, <1>6, LastSize DEF HasFound
<1>8. size \in Nat /\ size # None
  <2>1. RowsOf(storage, u) \subseteq DOMAIN storage
    BY DEF RowsOf
  <2>2. PeakOn(storage, RowsOf(storage, u), last) \in Nat
    BY <2>1, <1>5, PeakTyped
  <2> QED BY <2>2, <1>6, SizeOfDayIs, NamesAssumption
<1>9. Began(IF size = None THEN 0 ELSE size, earlier, u, days.from)
  BY <1>7, <1>8 DEF Began
<1>10. ChartShows(StorageAnalyticsFormat(Carried(days.results, size)),
                  rows, earlier, u, w, days.from)
  BY <1>1, <1>3, <1>8, <1>9, DaysShown
<1>11. request.kind = "storage" /\ StorageChart(Carried(days.results, size))
  BY <1>1, <1>6 DEF SumLastDay, At, RequestFits, OnRoute
<1> QED BY <1>1, <1>10, <1>11, ChartMade

(* Or without any.                                                          *)
LEMMA DaysAlone ==
    ASSUME TablesFit, RequestFits(request), Answers, FormatStorage, UNCHANGED storage
    PROVE  Answers'
<1>1. PICK u, w, days, rows, earlier :
          /\ rows \in Seq(StorageRow) /\ earlier \in Seq(StorageRow)
          /\ u = request.user /\ w = request.window /\ days = request.days
          /\ rows = request.rows /\ earlier = request.earlier
  BY DEF RequestFits
<1>2. HasAll(days, rows, earlier, u, w)
  BY <1>1 DEF Answers, Knows, FormatStorage, At
<1>3. PICK a \in Nat, m \in Int :
          /\ DaysOf(days, rows, u, w, a, m)
          /\ a <= m /\ ~ Measured(rows, FoundIn(rows, u, w), a) =>
                SizeBefore(earlier, u, days.from) = 0
  BY <1>2 DEF HasAll
<1>4. a <= m /\ ~ Measured(rows, FoundIn(rows, u, w), a) =>
          Began(IF None = None THEN 0 ELSE None, earlier, u, days.from)
  BY <1>3 DEF Began
<1>5. ChartShows(StorageAnalyticsFormat(Carried(days.results, None)),
                 rows, earlier, u, w, days.from)
  BY <1>1, <1>3, <1>4, DaysShown
<1>6. request.kind = "storage" /\ StorageChart(Carried(days.results, None))
  BY <1>1 DEF FormatStorage, At, RequestFits, OnRoute
<1> QED BY <1>1, <1>5, <1>6, ChartMade

(* A step of a request about storage.                                       *)
LEMMA StorageAnswered ==
    ASSUME TablesFit, RequestFits(request), Answers, NEW role, GetStorageAnalytics(role)
    PROVE  Answers'
<1>1. UNCHANGED storage
  BY DEF GetStorageAnalytics, Unchanged, tables
<1> QED BY <1>1, FirstRead, LastRowFound, LastDaySummed, DaysAlone DEF GetStorageAnalytics

(* The steps of other requests show no chart.                               *)
LEMMA NoChart ==
    ASSUME RequestFits(request), Answers,
           \/ getStatistics \/ adminGetStatistics \/ adminGetUser
           \/ getStatsForLandingPage \/ adminGetStatsForLandingPage \/ getCommonStatistics
    PROVE  Answers'
<1>1. /\ ~At("answered") /\ request'.chart = request.chart
      /\ request'.at \notin {"lastRow", "lastDay", "format"} /\ request'.kind = request.kind
      /\ request.kind \in {"bandwidth", "storage"} => request'.at # "answered"
  <2>1. CASE getStatistics \/ adminGetStatistics
    BY <2>1 DEF getStatistics, adminGetStatistics, GetStatistics, ReadBuckets, CountObjects,
                SumVersions, SumTraffic, Figure, At, RequestFits, IsRequest, OnRoute
  <2>2. CASE adminGetUser
    BY <2>2 DEF adminGetUser, At, RequestFits, IsRequest, OnRoute
  <2>3. CASE getStatsForLandingPage \/ adminGetStatsForLandingPage
    BY <2>3 DEF getStatsForLandingPage, adminGetStatsForLandingPage, GetStatsForLandingPage,
                SumAllVersions, CountUsers, Figure, At, RequestFits, IsRequest, OnRoute
  <2>4. CASE getCommonStatistics
    BY <2>4 DEF getCommonStatistics, SumAllVersions, CountUsers, CountStatus, Figure, At,
                RequestFits, IsRequest, OnRoute
  <2> QED BY <2>1, <2>2, <2>3, <2>4
<1> QED BY <1>1 DEF Answers, AnswerTo, At, Knows

(* Nor does what filenode writes change an answer.                          *)
LEMMA WritesAnswer ==
    ASSUME TablesInv, RequestFits(request), Answers,
           Filenode \/ \E u \in Users : \E status : ChangeStatus(u, status)
    PROVE  Answers'
<1>1. ~At("answered") /\ OnlyNoted
  BY WritesFit
<1>2. PICK u, w, days, last, rows, earlier :
          /\ rows \in Seq(StorageRow) /\ earlier \in Seq(StorageRow)
          /\ u = request.user /\ w = request.window /\ days = request.days
          /\ last = request.last /\ rows = request.rows /\ earlier = request.earlier
  BY DEF RequestFits
<1>3. /\ request'.at = request.at /\ request'.chart = request.chart
      /\ request'.days = days /\ request'.rows = rows /\ request'.last = last
      /\ request'.user = u /\ request'.window = w /\ request'.earlier = earlier
  BY <1>1, <1>2 DEF OnlyNoted, RequestFits, IsRequest
<1>4. Extends(storage, earlier) => Extends(storage', earlier)
  <2>1. \/ \E b \in Buckets : MeasureBucket(b)
        \/ storage' = storage
    BY DEF Filenode, PutFile, PutFolder, DeleteFile, Stores, CreateBucket, DeleteBucket,
           Rehouse, MeasureTraffic, ChangeStatus
  <2> QED BY <2>1, <1>2, StorageMeasured DEF TablesInv
<1>5. HasFound(last, earlier, u, days.from) => HasFound(last, earlier, u, days.from)'
  BY <1>4 DEF HasFound, Earlier, LastOf, RowsOf
<1>6. HasRead(days, rows, u, w)' = HasRead(days, rows, u, w)
  BY DEF HasRead
<1>7. HasAll(days, rows, earlier, u, w)' = HasAll(days, rows, earlier, u, w)
  BY DEF HasAll
<1>8. Knows(request)'
  BY <1>2, <1>3, <1>5, <1>6, <1>7 DEF Knows, Answers
<1> QED BY <1>1, <1>3, <1>8 DEF Answers, AnswerTo, At

(* The charts are right when they are shown.                                *)
LEMMA AnswersKept ==
    ASSUME TablesInv, RequestFits(request), Answers, [StatisticsNext]_statisticsVars
    PROVE  Answers'
<1>1. CASE CustomerAsks \/ AdminAsks
  <2>1. PICK kind, role, u, w, place :
            /\ u \in Users \cup {None} /\ w \in Window /\ Begins(kind, u, place)
            /\ Ask(kind, role, u, w, place)
    BY <1>1, RequestsBegin
  <2>2. Asked(request', kind, role, u, w, place)
    BY <2>1, AskedFits DEF TablesInv
  <2>3. request'.at = place /\ request'.chart = <<>>
    BY <2>2 DEF Asked
  <2>4. place \notin {"answered", "lastRow", "lastDay", "format"}
    BY <2>1 DEF Begins
  <2> QED BY <2>3, <2>4 DEF Answers, AnswerTo, At, Knows
<1>2. CASE \/ getStatistics \/ adminGetStatistics \/ adminGetUser
           \/ getStatsForLandingPage \/ adminGetStatsForLandingPage \/ getCommonStatistics
  BY <1>2, NoChart
<1>3. CASE getBandwidthAnalytics \/ adminGetBandwidthAnalytics
  BY <1>3, BandwidthAnswered
<1>4. CASE getStorageAnalytics \/ adminGetStorageAnalytics
  BY <1>4, StorageAnswered DEF getStorageAnalytics, adminGetStorageAnalytics, TablesInv
<1>5. CASE adminGetUserFails \/ Answered
  <2>1. request' = NoRequest
    BY <1>5 DEF adminGetUserFails, Answered
  <2> QED BY <2>1 DEF NoRequest, Answers, AnswerTo, At, Knows
<1>6. CASE Filenode \/ \E u \in Users : \E status : ChangeStatus(u, status)
  BY <1>6, WritesAnswer
<1>7. CASE UNCHANGED statisticsVars
  <2>1. UNCHANGED <<bandwidth, users, storage, request>>
    BY <1>7 DEF statisticsVars, tables
  <2>2. ChartOf(request.chart, request.user, request.window)
           => ChartOf(request.chart, request.user, request.window)'
    <3>1. PICK chart, u, w : chart = request.chart /\ u = request.user /\ w = request.window
      OBVIOUS
    <3>2. ChartOf(chart, u, w) => ChartOf(chart, u, w)'
      BY <2>1, ChartKept
    <3> QED BY <2>1, <3>1, <3>2
  <2>3. ChartShows(request.chart, request.rows, request.earlier, request.user,
                   request.window, request.days.from)
           => ChartShows(request.chart, request.rows, request.earlier, request.user,
                         request.window, request.days.from)'
    <3>1. PICK chart, rows, earlier, u, w, from :
              /\ chart = request.chart /\ rows = request.rows /\ earlier = request.earlier
              /\ u = request.user /\ w = request.window /\ from = request.days.from
      OBVIOUS
    <3>2. ChartShows(chart, rows, earlier, u, w, from)'
             = ChartShows(chart, rows, earlier, u, w, from)
      BY <2>1 DEF ChartShows, Began
    <3> QED BY <2>1, <3>1, <3>2
  <2>4. Knows(request) => Knows(request)'
    BY <2>1 DEF Knows, HasRead, HasFound, HasAll
  <2> QED BY <2>1, <2>2, <2>3, <2>4 DEF Answers, AnswerTo, At
<1> QED BY <1>1, <1>2, <1>3, <1>4, <1>5, <1>6, <1>7 DEF StatisticsNext

----------------------------------------------------------------------------
\* The figures of a user.

Idents(u) == {<<b, buckets[b].id>> : b \in getByOwnerUserId(u)}

\* A figure was true at a time when the figures of the user were among these.
WasTrue(figures, seen, name) ==
    \E true \in seen : (IF figures[name] = None THEN 0 ELSE figures[name]) = true[name]

\* The queries so far have read what was true, if no bucket moved.
FiguresHold(r) ==
    r.kind = "statistics" /\ ~r.moved =>
        /\ FiguresOf(r.user) \in r.seen
        /\ r.at # "buckets" =>
              r.found = Idents(r.user) /\ WasTrue(r.figures, r.seen, "buckets")
        /\ r.at \in {"versions", "traffic", "answered"} => WasTrue(r.figures, r.seen, "files")
        /\ r.at \in {"traffic", "answered"} => WasTrue(r.figures, r.seen, "bytes")
        /\ r.at = "answered" => WasTrue(r.figures, r.seen, "bandwidth")

(* The queries return the figures of the user, null standing for 0.         *)
LEMMA QueriesRight ==
    ASSUME TablesFit, NEW u \in Users
    PROVE  /\ getOverallObjectsCount({id[1] : id \in Idents(u)}) = FiguresOf(u).files
           /\ \/ getObjectVersionsSizeSum(Idents(u)) = FiguresOf(u).bytes
              \/ getObjectVersionsSizeSum(Idents(u)) = None /\ FiguresOf(u).bytes = 0
           /\ \/ getBandwidthUsageOfUser(u) = FiguresOf(u).bandwidth
              \/ getBandwidthUsageOfUser(u) = None /\ FiguresOf(u).bandwidth = 0
<1>1. PICK names : names = getByOwnerUserId(u)
  OBVIOUS
<1>2. names \subseteq Buckets /\ IsFiniteSet(names)
  <2>1. names \subseteq Buckets
    BY <1>1 DEF getByOwnerUserId
  <2> QED BY <2>1, NamesAssumption, FS_Subset
<1>3. /\ FiguresOf(u).files = Sum("files", names) /\ FiguresOf(u).bytes = Sum("bytes", names)
      /\ FiguresOf(u).bandwidth = Traffic(RowsOf(bandwidth, u))
  BY <1>1, FiguresRead
<1>4. {id[1] : id \in Idents(u)} = names
  <2>1. Idents(u) = {<<b, buckets[b].id>> : b \in names}
    BY <1>1 DEF Idents
  <2>2. \A id \in Idents(u) : id[1] \in names
    BY <2>1
  <2>3. \A b \in names : \E id \in Idents(u) : id[1] = b
    <3> SUFFICES ASSUME NEW b \in names
                 PROVE  \E id \in Idents(u) : id[1] = b
      OBVIOUS
    <3>1. <<b, buckets[b].id>> \in Idents(u) /\ <<b, buckets[b].id>>[1] = b
      BY <2>1
    <3> QED BY <3>1
  <2> QED BY <2>2, <2>3
<1>5. {b \in Buckets : <<b, buckets[b].id>> \in Idents(u)} = names
  BY <1>1, <1>2 DEF Idents
<1>6. ASSUME Sum("versions", names) = 0
      PROVE  Sum("bytes", names) = 0
  <2>1. PICK f : f = [b \in Buckets |-> buckets[b].contents["versions"]]
    OBVIOUS
  <2>2. PICK g : g = [b \in Buckets |-> buckets[b].contents["bytes"]]
    OBVIOUS
  <2>3. \A b \in names : f[b] \in Nat /\ g[b] \in Nat
    BY <1>2, <2>1, <2>2, ContentsTyped DEF Columns
  <2>4. SumOver(f, names) = 0
    BY <2>1, <1>6 DEF Sum
  <2>5. ASSUME NEW b \in names
        PROVE  g[b] = 0
    <3>1. PICK rest : rest = names \ {b}
      OBVIOUS
    <3>2. IsFiniteSet(rest) /\ rest \subseteq names
      BY <3>1, <1>2, FS_Subset
    <3>3. SumOver(f, rest) \in Nat
      BY <3>2, <2>3, SumNat
    <3>4. SumOver(f, names) = f[b] + SumOver(f, rest)
      BY <3>1, <1>2, <2>3, SumWithout
    <3>5. f[b] = 0
      BY <3>3, <3>4, <2>3, <2>4
    <3>6. PICK c : c = buckets[b].contents /\ (c.versions = 0 => c.bytes = 0)
      BY <1>2 DEF TablesFit, BucketRow, Contents
    <3>7. c.versions = 0
      BY <3>5, <3>6, <2>1, <1>2
    <3> QED BY <3>6, <3>7, <2>2, <1>2
  <2>6. \A b \in names : g[b] \in Nat /\ g[b] <= f[b]
    BY <2>3, <2>5
  <2>7. SumOver(g, names) <= SumOver(f, names)
    BY <2>3, <2>6, <1>2, SumMonotone
  <2>8. SumOver(g, names) \in Nat
    BY <2>3, <1>2, SumNat
  <2>9. SumOver(g, names) = 0
    BY <2>4, <2>7, <2>8
  <2> QED BY <2>2, <2>9 DEF Sum
<1>7. \/ getObjectVersionsSizeSum(Idents(u)) = Sum("bytes", names)
      \/ getObjectVersionsSizeSum(Idents(u)) = None /\ Sum("bytes", names) = 0
  BY <1>5, <1>6 DEF getObjectVersionsSizeSum
<1>8. \/ getBandwidthUsageOfUser(u) = Traffic(RowsOf(bandwidth, u))
      \/ getBandwidthUsageOfUser(u) = None /\ Traffic(RowsOf(bandwidth, u)) = 0
  BY SumOfNone DEF getBandwidthUsageOfUser, Traffic
<1> QED BY <1>3, <1>4, <1>7, <1>8 DEF getOverallObjectsCount

(* Without a write nothing changes of them.                                 *)
LEMMA FiguresStay ==
    ASSUME UNCHANGED tables, NEW u
    PROVE  FiguresOf(u)' = FiguresOf(u) /\ Idents(u)' = Idents(u)
  BY DEF tables, FiguresOf, Idents, getByOwnerUserId, Sum, Traffic, RowsOf

(* One of the four queries.                                                 *)
LEMMA FigureRead ==
    ASSUME TablesFit, RequestFits(request), FiguresHold(request), NEW role, GetStatistics(role)
    PROVE  FiguresHold(request)'
<1>1. /\ UNCHANGED tables /\ request'.user = request.user /\ request'.seen = request.seen
      /\ request'.kind = request.kind /\ request'.moved = request.moved
      /\ request.kind = "statistics" /\ request.user \in Users
  BY DEF GetStatistics, Unchanged, ReadBuckets, CountObjects, SumVersions, SumTraffic, Figure,
         At, RequestFits, IsRequest, OnRoute
<1>2. PICK u \in Users : u = request.user
  BY <1>1
<1>3. FiguresOf(u)' = FiguresOf(u) /\ Idents(u)' = Idents(u)
  BY <1>1, FiguresStay
<1>4. PICK now : now = FiguresOf(u)
  OBVIOUS
<1>5. PICK seen : seen = request.seen
  OBVIOUS
<1>6. PICK old : old = request.figures
  OBVIOUS
<1>7. PICK new : new = request'.figures
  OBVIOUS
<1>8. now \in [Four -> Nat] /\ old \in [FigureNames -> Nat \cup {None}]
  BY <1>4, <1>6, FiguresRead DEF RequestFits
<1> SUFFICES ASSUME ~request.moved
             PROVE  FiguresHold(request)'
  BY <1>1 DEF FiguresHold
<1>9. now \in seen
  BY <1>1, <1>2, <1>4, <1>5 DEF FiguresHold
<1>10. /\ request.at # "buckets" => request.found = Idents(u) /\ WasTrue(old, seen, "buckets")
       /\ request.at \in {"versions", "traffic", "answered"} => WasTrue(old, seen, "files")
       /\ request.at \in {"traffic", "answered"} => WasTrue(old, seen, "bytes")
  BY <1>1, <1>2, <1>5, <1>6 DEF FiguresHold
<1>11. \A name \in Four : name \in FigureNames
  BY DEF Four, FigureNames
<1>12. SUFFICES /\ request'.at # "buckets" =>
                       request'.found = Idents(u) /\ WasTrue(new, seen, "buckets")
                /\ request'.at \in {"versions", "traffic", "answered"} =>
                       WasTrue(new, seen, "files")
                /\ request'.at \in {"traffic", "answered"} => WasTrue(new, seen, "bytes")
                /\ request'.at = "answered" => WasTrue(new, seen, "bandwidth")
  <2>1. /\ request'.at # "buckets" =>
               request'.found = Idents(u)' /\ WasTrue(new, seen, "buckets")
        /\ request'.at \in {"versions", "traffic", "answered"} => WasTrue(new, seen, "files")
        /\ request'.at \in {"traffic", "answered"} => WasTrue(new, seen, "bytes")
        /\ request'.at = "answered" => WasTrue(new, seen, "bandwidth")
    BY <1>3, <1>12
  <2>2. FiguresOf(u)' \in seen
    BY <1>3, <1>4, <1>9
  <2>3. request'.user = u /\ request'.seen = seen /\ request'.figures = new
    BY <1>1, <1>2, <1>5, <1>7
  <2> QED BY <2>1, <2>2, <2>3 DEF FiguresHold
<1>13. ASSUME NEW name \in Four, NEW v, NEW next, Figure(name, v, next),
              v = now[name] \/ (v = None /\ now[name] = 0)
       PROVE  /\ WasTrue(new, seen, name)
              /\ \A other \in Four : other # name => new[other] = old[other]
              /\ request'.at = next /\ request'.found = request.found
  <2>1. new = [old EXCEPT ![name] = v] /\ request'.at = next /\ request'.found = request.found
    BY <1>6, <1>7, <1>13 DEF Figure, RequestFits, IsRequest
  <2>2. new[name] = v /\ \A other \in Four : other # name => new[other] = old[other]
    BY <2>1, <1>8, <1>11, <1>13
  <2>3. now[name] \in Nat /\ now[name] # None
    BY <1>8, NamesAssumption
  <2>4. (IF v = None THEN 0 ELSE v) = now[name]
    BY <2>3, <1>13
  <2> QED BY <2>1, <2>2, <2>4, <1>9 DEF WasTrue
<1>14. CASE ReadBuckets
  <2>1. PICK found : found = getByOwnerUserId(u)
    OBVIOUS
  <2>2. PICK n : n = Cardinality(found)
    OBVIOUS
  <2>3. n = now.buckets /\ n \in Nat
    BY <2>1, <2>2, <1>4, FiguresRead, ValuesRead
  <2>4. /\ request'.at = "objects" /\ request'.found = Idents(u)
        /\ new = [old EXCEPT !.buckets = n]
    BY <2>1, <2>2, <1>2, <1>6, <1>7, <1>14 DEF ReadBuckets, Idents, RequestFits, IsRequest
  <2>5. new["buckets"] = n
    BY <2>4, <1>8 DEF FigureNames
  <2>6. (IF new["buckets"] = None THEN 0 ELSE new["buckets"]) = now["buckets"]
    BY <2>3, <2>5, NamesAssumption
  <2>7. WasTrue(new, seen, "buckets")
    BY <2>6, <1>9 DEF WasTrue
  <2> QED BY <2>4, <2>7
<1>15. CASE CountObjects
  <2>1. request.at = "objects" /\ request.found = Idents(u)
    BY <1>10, <1>15 DEF CountObjects, At
  <2>2. Figure("files", now["files"], "versions")
    BY <2>1, <1>4, <1>15, QueriesRight DEF CountObjects
  <2>3. /\ WasTrue(new, seen, "files")
        /\ \A other \in Four : other # "files" => new[other] = old[other]
        /\ request'.at = "versions" /\ request'.found = request.found
    BY <2>2, <1>13 DEF Four
  <2>4. WasTrue(new, seen, "buckets")
    BY <2>1, <2>3, <1>10 DEF Four, WasTrue
  <2> QED BY <2>1, <2>3, <2>4
<1>16. CASE SumVersions
  <2>1. request.at = "versions" /\ request.found = Idents(u)
    BY <1>10, <1>16 DEF SumVersions, At
  <2>2. PICK v : v = getObjectVersionsSizeSum(Idents(u))
    OBVIOUS
  <2>3. Figure("bytes", v, "traffic") /\ (v = now["bytes"] \/ (v = None /\ now["bytes"] = 0))
    BY <2>1, <2>2, <1>4, <1>16, QueriesRight DEF SumVersions
  <2>4. /\ WasTrue(new, seen, "bytes")
        /\ \A other \in Four : other # "bytes" => new[other] = old[other]
        /\ request'.at = "traffic" /\ request'.found = request.found
    BY <2>3, <1>13 DEF Four
  <2>5. WasTrue(new, seen, "buckets") /\ WasTrue(new, seen, "files")
    BY <2>1, <2>4, <1>10 DEF Four, WasTrue
  <2> QED BY <2>1, <2>4, <2>5
<1>17. CASE SumTraffic
  <2>1. request.at = "traffic" /\ request.found = Idents(u)
    BY <1>10, <1>17 DEF SumTraffic, At
  <2>2. PICK v : v = getBandwidthUsageOfUser(u)
    OBVIOUS
  <2>3. Figure("bandwidth", v, "answered")
        /\ (v = now["bandwidth"] \/ (v = None /\ now["bandwidth"] = 0))
    BY <2>1, <2>2, <1>2, <1>4, <1>17, QueriesRight DEF SumTraffic
  <2>4. /\ WasTrue(new, seen, "bandwidth")
        /\ \A other \in Four : other # "bandwidth" => new[other] = old[other]
        /\ request'.at = "answered" /\ request'.found = request.found
    BY <2>3, <1>13 DEF Four
  <2>5. \A name \in Four : name # "bandwidth" => WasTrue(new, seen, name)
    BY <2>1, <2>4, <1>10 DEF Four, WasTrue
  <2> QED BY <2>1, <2>4, <2>5 DEF Four
<1> QED BY <1>14, <1>15, <1>16, <1>17 DEF GetStatistics

(* Figures that do not change leave those of a user.                        *)
LEMMA FiguresAgree ==
    ASSUME UNCHANGED <<buckets, bandwidth>>, NEW u
    PROVE  FiguresOf(u)' = FiguresOf(u) /\ Idents(u)' = Idents(u)
  BY DEF FiguresOf, Idents, getByOwnerUserId, Sum, Traffic, RowsOf

(* What filenode writes while no bucket of the user moves is noted.         *)
LEMMA FiguresAdded ==
    ASSUME TablesFit, RequestFits(request), TrafficOfUsers(bandwidth, users),
           FiguresHold(request), Filenode \/ \E u \in Users : \E status : ChangeStatus(u, status)
    PROVE  FiguresHold(request)'
<1>1. OnlyNoted
  BY WritesFit
<1>2. /\ request'.at = request.at /\ request'.kind = request.kind
      /\ request'.user = request.user
      /\ request'.found = request.found /\ request'.figures = request.figures
  BY <1>1 DEF OnlyNoted, RequestFits, IsRequest
<1> SUFFICES ASSUME request.kind = "statistics", ~request'.moved
             PROVE  FiguresHold(request)'
  BY <1>2 DEF FiguresHold
<1>3. PICK u \in Users : u = request.user
  BY DEF RequestFits, OnRoute
<1>4. ~request.moved /\ request.seen \subseteq request'.seen
  BY <1>1 DEF OnlyNoted
<1>5. FiguresOf(u) \in request.seen
  BY <1>3, <1>4 DEF FiguresHold
<1>6. ASSUME NEW moved \in BOOLEAN, Noted(moved)
      PROVE  FiguresOf(u)' \in request'.seen /\ (moved => request'.moved)
  BY <1>3, <1>6, NotedFits
<1>7. FiguresOf(u)' \in request'.seen /\ Idents(u)' = Idents(u)
  <2>1. CASE \E b \in Buckets : PutFile(b) \/ PutFolder(b) \/ DeleteFile(b)
    <3>1. (\A c \in Buckets : Stays(c)) /\ Noted(FALSE)
      BY <2>1, FilesChanged
    <3>2. Idents(u)' = Idents(u)
      BY <3>1 DEF Idents, getByOwnerUserId, Stays
    <3> QED BY <3>1, <3>2, <1>6
  <2>2. CASE \E b \in Buckets, a \in Users : CreateBucket(b, a) \/ DeleteBucket(b, a)
    <3>1. PICK b \in Buckets : \E from, to \in Users \cup {None} : Rehouse(b, from, to)
      BY <2>2 DEF CreateBucket, DeleteBucket
    <3>2. PICK from \in Users \cup {None}, to \in Users \cup {None} : Rehouse(b, from, to)
      BY <3>1
    <3>3. /\ \A c \in Buckets : c # b => Stays(c)
          /\ buckets[b].owner = from /\ buckets'[b].owner = to
          /\ Noted(request.user \in {from, to})
      BY <3>2, BucketMoved
    <3>4. (request.user \in {from, to}) \in BOOLEAN
      OBVIOUS
    <3>5. FiguresOf(u)' \in request'.seen /\ ~(request.user \in {from, to})
      BY <3>3, <3>4, <1>6
    <3>6. b \notin getByOwnerUserId(u) /\ b \notin getByOwnerUserId(u)'
      BY <3>3, <3>5, <1>3 DEF getByOwnerUserId
    <3>7. /\ getByOwnerUserId(u)' = getByOwnerUserId(u)
          /\ \A c \in getByOwnerUserId(u) : buckets'[c].id = buckets[c].id
      BY <3>3, <3>6 DEF getByOwnerUserId, Stays
    <3>8. Idents(u)' = Idents(u)
      BY <3>7 DEF Idents
    <3> QED BY <3>5, <3>8
  <2>3. CASE \E a \in Users, type \in Direction : MeasureTraffic(a, type)
    <3>1. buckets' = buckets /\ Noted(FALSE)
      BY <2>3, TrafficMeasured
    <3>2. Idents(u)' = Idents(u)
      BY <3>1 DEF Idents, getByOwnerUserId
    <3> QED BY <3>1, <3>2, <1>6
  <2>4. CASE \/ \E b \in Buckets : MeasureBucket(b)
             \/ \E a \in Users : \E status : ChangeStatus(a, status)
    <3>1. buckets' = buckets /\ bandwidth' = bandwidth
      BY <2>4 DEF MeasureBucket, ChangeStatus
    <3> QED BY <3>1, <1>4, <1>5, FiguresAgree
  <2> QED BY <2>1, <2>2, <2>3, <2>4 DEF Filenode
<1>8. \A name \in Four : WasTrue(request.figures, request.seen, name) =>
                              WasTrue(request.figures, request'.seen, name)
  BY <1>4 DEF WasTrue
<1>9. /\ request.at # "buckets" =>
            request.found = Idents(u) /\ WasTrue(request.figures, request.seen, "buckets")
      /\ request.at \in {"versions", "traffic", "answered"} =>
            WasTrue(request.figures, request.seen, "files")
      /\ request.at \in {"traffic", "answered"} =>
            WasTrue(request.figures, request.seen, "bytes")
      /\ request.at = "answered" => WasTrue(request.figures, request.seen, "bandwidth")
  BY <1>3, <1>4 DEF FiguresHold
<1>10. PICK figures, seen : figures = request.figures /\ seen = request'.seen
  OBVIOUS
<1>11. /\ request'.at # "buckets" =>
             request'.found = Idents(u)' /\ WasTrue(figures, seen, "buckets")
       /\ request'.at \in {"versions", "traffic", "answered"} => WasTrue(figures, seen, "files")
       /\ request'.at \in {"traffic", "answered"} => WasTrue(figures, seen, "bytes")
       /\ request'.at = "answered" => WasTrue(figures, seen, "bandwidth")
  BY <1>2, <1>7, <1>8, <1>9, <1>10 DEF Four
<1>12. FiguresOf(u)' \in seen
  BY <1>7, <1>10
<1>13. request'.user = u /\ request'.seen = seen /\ request'.figures = figures
  BY <1>2, <1>3, <1>10
<1> QED BY <1>11, <1>12, <1>13 DEF FiguresHold

(* Every step leaves them right.                                            *)
LEMMA FiguresKept ==
    ASSUME TablesInv, TablesInv', RequestFits(request), FiguresHold(request),
           [StatisticsNext]_statisticsVars
    PROVE  FiguresHold(request)'
<1>1. CASE CustomerAsks \/ AdminAsks
  <2>1. PICK kind, role, u, w, place :
            /\ u \in Users \cup {None} /\ w \in Window /\ Begins(kind, u, place)
            /\ Ask(kind, role, u, w, place)
    BY <1>1, RequestsBegin
  <2>2. Asked(request', kind, role, u, w, place) /\ UNCHANGED tables
    BY <2>1, AskedFits DEF TablesInv, Ask
  <2>3. /\ request'.at = place /\ request'.kind = kind /\ request'.user = u
        /\ FiguresOf(u) \in request'.seen
    BY <2>2 DEF Asked
  <2>4. kind = "statistics" => place = "buckets"
    BY <2>1 DEF Begins
  <2>5. FiguresOf(u)' = FiguresOf(u)
    BY <2>2, FiguresStay
  <2>6. FiguresOf(u)' \in request'.seen
    BY <2>3, <2>5
  <2> QED BY <2>3, <2>4, <2>6 DEF FiguresHold
<1>2. CASE getStatistics \/ adminGetStatistics
  BY <1>2, FigureRead DEF getStatistics, adminGetStatistics, TablesInv
<1>3. CASE \/ getBandwidthAnalytics \/ adminGetBandwidthAnalytics \/ adminGetUser
           \/ getStorageAnalytics \/ adminGetStorageAnalytics
           \/ getStatsForLandingPage \/ adminGetStatsForLandingPage \/ getCommonStatistics
  <2>1. request'.kind = request.kind /\ request.kind # "statistics"
    <3>1. CASE getBandwidthAnalytics \/ adminGetBandwidthAnalytics \/ adminGetUser
      BY <3>1 DEF getBandwidthAnalytics, adminGetBandwidthAnalytics, adminGetUser,
                  BandwidthChart, At, RequestFits, IsRequest, OnRoute
    <3>2. CASE getStorageAnalytics \/ adminGetStorageAnalytics
      <4>1. AggregateStorage \/ FindLastRow \/ SumLastDay \/ FormatStorage
        BY <3>2 DEF getStorageAnalytics, adminGetStorageAnalytics, GetStorageAnalytics
      <4>2. request.at \in {"storage", "lastRow", "lastDay", "format"}
        BY <4>1 DEF AggregateStorage, FindLastRow, SumLastDay, FormatStorage, At
      <4>3. request'.kind = request.kind
        BY <4>1 DEF AggregateStorage, FindLastRow, SumLastDay, FormatStorage, StorageChart,
                    RequestFits, IsRequest
      <4> QED BY <4>2, <4>3 DEF RequestFits, OnRoute
    <3>3. CASE getStatsForLandingPage \/ adminGetStatsForLandingPage
      BY <3>3 DEF getStatsForLandingPage, adminGetStatsForLandingPage, GetStatsForLandingPage,
                  SumAllVersions, CountUsers, Figure, RequestFits, IsRequest
    <3>4. CASE getCommonStatistics
      BY <3>4 DEF getCommonStatistics, SumAllVersions, CountUsers, CountStatus, Figure,
                  RequestFits, IsRequest
    <3> QED BY <1>3, <3>1, <3>2, <3>3, <3>4
  <2> QED BY <2>1 DEF FiguresHold
<1>4. CASE adminGetUserFails \/ Answered
  <2>1. request' = NoRequest
    BY <1>4 DEF adminGetUserFails, Answered
  <2> QED BY <2>1 DEF NoRequest, FiguresHold
<1>5. CASE Filenode \/ \E u \in Users : \E status : ChangeStatus(u, status)
  BY <1>5, FiguresAdded DEF TablesInv
<1>6. CASE UNCHANGED statisticsVars
  <2>1. UNCHANGED tables /\ request' = request
    BY <1>6 DEF statisticsVars
  <2>2. PICK u : u = request.user
    OBVIOUS
  <2>3. FiguresOf(u)' = FiguresOf(u) /\ Idents(u)' = Idents(u)
    BY <2>1, FiguresStay
  <2>4. request.user = u /\ request'.user = u
    BY <2>1, <2>2
  <2> QED BY <2>1, <2>3, <2>4 DEF FiguresHold
<1> QED BY <1>1, <1>2, <1>3, <1>4, <1>5, <1>6 DEF StatisticsNext

----------------------------------------------------------------------------
\* The theorems.

StatisticsInv ==
    /\ TablesInv
    /\ RequestFits(request)
    /\ Answers
    /\ FiguresHold(request)

(* It holds at the beginning.                                               *)
LEMMA InvBegins == StatisticsInit => StatisticsInv
<1> SUFFICES ASSUME StatisticsInit
             PROVE  StatisticsInv
  OBVIOUS
<1>1. PICK s \in Situations :
          /\ storage = s.storage /\ bandwidth = s.bandwidth
          /\ buckets = s.buckets /\ users = s.users
          /\ allowance = [requests |-> s.requests, tables |-> s.tables, writes |-> s.writes]
  BY DEF StatisticsInit
<1>2. s \in Situation /\ TrafficOfUsers(s.bandwidth, s.users)
  BY SituationsAssumption
<1>3. TablesFit /\ s.writes \in Nat
  BY <1>1, <1>2 DEF Situation, TablesFit
<1>4. AllowanceFits
  BY <1>1, <1>3 DEF AllowanceFits
<1>5. request = NoRequest
  BY DEF StatisticsInit
<1>6. Answers /\ FiguresHold(request)
  BY <1>5 DEF Answers, AnswerTo, At, Knows, FiguresHold, NoRequest
<1> QED BY <1>1, <1>2, <1>3, <1>4, <1>5, <1>6, NoRequestFits DEF StatisticsInv, TablesInv

(* And always.                                                              *)
LEMMA InvAlways == StatisticsSpec => []StatisticsInv
<1>1. StatisticsInv /\ [StatisticsNext]_statisticsVars => StatisticsInv'
  <2> SUFFICES ASSUME StatisticsInv, [StatisticsNext]_statisticsVars
               PROVE  StatisticsInv'
    OBVIOUS
  <2>1. TablesInv'
    BY TablesKept DEF StatisticsInv
  <2>2. RequestFits(request)'
    BY RequestKept DEF StatisticsInv, TablesInv
  <2>3. Answers'
    BY AnswersKept DEF StatisticsInv
  <2>4. FiguresHold(request)'
    BY <2>1, FiguresKept DEF StatisticsInv
  <2> QED BY <2>1, <2>2, <2>3, <2>4 DEF StatisticsInv
<1> QED BY <1>1, InvBegins, PTL DEF StatisticsSpec

(* The tables keep their rows, the request its fields, and the charts of    *)
(* the answers are made of numbers of days and of bytes.                    *)
THEOREM StatisticsTypes == StatisticsSpec => []StatisticsTypeOK
<1>1. StatisticsInv => StatisticsTypeOK
  <2> SUFFICES ASSUME StatisticsInv
               PROVE  StatisticsTypeOK
    OBVIOUS
  <2>1. TablesFit /\ allowance.writes \in Nat
    BY DEF StatisticsInv, TablesInv, AllowanceFits
  <2>2. DOMAIN request = DOMAIN NoRequest
    BY DEF StatisticsInv, RequestFits, IsRequest, NoRequest
  <2>3. request.window \in Window /\ request.figures \in [DOMAIN NoFigures -> Nat \cup {None}]
    BY FiguresNamed DEF StatisticsInv, RequestFits
  <2>4. request.kind = "bandwidth" => Range(request.chart) \subseteq UsageRecord
    <3>1. CASE ~At("answered")
      BY <3>1 DEF StatisticsInv, Answers, Range
    <3>2. CASE At("answered")
      <4> SUFFICES ASSUME request.kind = "bandwidth"
                   PROVE  Range(request.chart) \subseteq UsageRecord
        OBVIOUS
      <4>1. request.chart \in Seq(UsageRecord)
        BY <3>2 DEF StatisticsInv, Answers, AnswerTo, ChartOf
      <4> QED BY <4>1 DEF Range
    <3> QED BY <3>1, <3>2
  <2>5. request.kind = "storage" => Range(request.chart) \subseteq [day : Nat, used : Nat]
    <3>1. CASE ~At("answered")
      BY <3>1 DEF StatisticsInv, Answers, Range
    <3>2. CASE At("answered")
      <4> SUFFICES ASSUME request.kind = "storage"
                   PROVE  Range(request.chart) \subseteq [day : Nat, used : Nat]
        OBVIOUS
      <4>1. PICK chart : chart = request.chart
        OBVIOUS
      <4>2. PICK rows, earlier, u, w, from : ChartShows(chart, rows, earlier, u, w, from)
        BY <3>2, <4>1 DEF StatisticsInv, Answers, AnswerTo
      <4>3. PICK a \in Nat, m \in Int :
                \E used \in [a..m -> Nat] : ShownDays(chart, used, a, m)
        BY <4>2 DEF ChartShows
      <4>5. PICK used \in [a..m -> Nat] : ShownDays(chart, used, a, m)
        BY <4>3
      <4>4. \A i \in DOMAIN chart : chart[i] \in [day : Nat, used : Nat]
        <5> SUFFICES ASSUME NEW i \in DOMAIN chart
                     PROVE  chart[i] \in [day : Nat, used : Nat]
          OBVIOUS
        <5>1. i \in 1..(m - a + 1)
          BY <4>5 DEF ShownDays
        <5>2. PICK d \in a..m : d = a + i - 1
          BY <5>1
        <5>3. chart[i] = [day |-> d, used |-> used[d]]
          BY <4>5, <5>1, <5>2 DEF ShownDays
        <5>4. d \in Nat /\ used[d] \in Nat
          BY <4>5, <5>2
        <5> QED BY <5>3, <5>4
      <4> QED BY <4>1, <4>4 DEF Range
    <3> QED BY <3>1, <3>2
  <2> QED BY <2>1, <2>2, <2>3, <2>4, <2>5 DEF StatisticsTypeOK, TablesFit, UsageRecord
<1> QED BY <1>1, InvAlways, PTL

(* A chart of traffic shows, day by day and without a gap, the uploads and  *)
(* downloads of the user in the window and leaves nothing out: grouping,    *)
(* merging and filling the days lose and double nothing.                    *)
THEOREM BandwidthShown == StatisticsSpec => []BandwidthByDay
<1>1. StatisticsInv => BandwidthByDay
  <2> SUFFICES ASSUME StatisticsInv, AnswerTo("bandwidth")
               PROVE  BandwidthByDay
    BY DEF BandwidthByDay
  <2>1. PICK u, w, chart : u = request.user /\ w = request.window /\ chart = request.chart
    OBVIOUS
  <2>2. ChartOf(chart, u, w)
    BY <2>1 DEF StatisticsInv, Answers
  <2>3. DOMAIN chart = 1..Len(chart)
    BY <2>2 DEF ChartOf
  <2>4. PICK found : found = {i \in RowsOf(bandwidth, u) : InWindow(bandwidth[i], w)}
    OBVIOUS
  <2>5. PICK from : from = IF w.from # None THEN w.from ELSE users[u].created
    OBVIOUS
  <2>6. Found(u, w) = found /\ Start(u, w) = from
    BY <2>4, <2>5 DEF Found, Start
  <2>7. ASSUME NEW i \in DOMAIN chart
        PROVE  /\ chart[i].day = Day(from) + i - 1
               /\ \A type \in Direction : chart[i][type] =
                     Traffic({k \in found : /\ Day(bandwidth[k].at) = chart[i].day
                                            /\ bandwidth[k].type = type})
    BY <2>2, <2>3, <2>6 DEF ChartOf, OfDay
  <2>8. \A i \in found : \E k \in DOMAIN chart : chart[k].day = Day(bandwidth[i].at)
    BY <2>2, <2>3, <2>6 DEF ChartOf
  <2> QED BY <2>1, <2>4, <2>5, <2>7, <2>8 DEF BandwidthByDay
<1> QED BY <1>1, InvAlways, PTL

(* A chart of storage shows each day what the last day of statistics in    *)
(* the window says of the user, however often buckets are measured, before *)
(* the first such day what the last day before the window says, and leaves *)
(* no day of a window of whole days out, though filenode goes on measuring *)
(* between the three queries.                                               *)
THEOREM StorageAsMeasured == StatisticsSpec => []StorageByDay
<1>1. StatisticsInv => StorageByDay
  <2> SUFFICES ASSUME StatisticsInv, AnswerTo("storage")
               PROVE  StorageByDay
    BY DEF StorageByDay
  <2>1. request.rows \in Seq(StorageRow)
    BY DEF StatisticsInv, RequestFits
  <2>2. ChartShows(request.chart, request.rows, request.earlier, request.user,
                   request.window, request.days.from)
    BY DEF StatisticsInv, Answers
  <2> QED BY <2>1, <2>2, StorageShown
<1> QED BY <1>1, InvAlways, PTL

(* Each of the four figures of a user was true at some time of the request, *)
(* though objects and traffic were added and objects deleted between its    *)
(* queries, as long as no bucket of the user came or went.                  *)
THEOREM FiguresTrue == StatisticsSpec => []FiguresOfTheRequest
<1>1. StatisticsInv => FiguresOfTheRequest
  <2> SUFFICES ASSUME StatisticsInv, AnswerTo("statistics"), ~request.moved
               PROVE  FiguresOfTheRequest
    BY DEF FiguresOfTheRequest
  <2>1. \A name \in {"buckets", "files", "bytes", "bandwidth"} :
            WasTrue(request.figures, request.seen, name)
    BY DEF StatisticsInv, FiguresHold, AnswerTo, At
  <2> QED BY <2>1 DEF FiguresOfTheRequest, WasTrue
<1> QED BY <1>1, InvAlways, PTL
=============================================================================
