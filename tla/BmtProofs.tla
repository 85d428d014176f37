----------------------------- MODULE BmtProofs -----------------------------
(***************************************************************************)
(* What holds of the bad block management for a flash of any size and any  *)
(* number of failures: the mapping never shares a block, and the tables    *)
(* are never written over data.                                            *)
(***************************************************************************)
EXTENDS Bmt, FiniteSetTheorems, TLAPS

-----------------------------------------------------------------------------
(* Sets of blocks.                                                         *)

\* A set of blocks is finite.
LEMMA BlocksFinite ==
  ASSUME NEW S \in SUBSET Phys
  PROVE  IsFiniteSet(S) /\ Cardinality(S) \in Nat /\ Cardinality(S) <= TotalBlks
<1>1. TotalBlks - 1 \in Int /\ 0 \in Int /\ TotalBlks \in Nat /\ TotalBlks > 0
  BY BmtAssumption
<1>2. IsFiniteSet(Phys) /\ Cardinality(Phys) = TotalBlks
  <2>1. /\ IsFiniteSet(0..(TotalBlks - 1))
        /\ Cardinality(0..(TotalBlks - 1)) =
             IF 0 > TotalBlks - 1 THEN 0 ELSE (TotalBlks - 1) - 0 + 1
    BY <1>1, FS_Interval
  <2>2. Phys = 0..(TotalBlks - 1)
    BY DEF Phys
  <2>3. QED
    BY <1>1, <2>1, <2>2
<1>3. QED
  BY <1>2, FS_Subset, FS_CardinalityType

\* The k-th block of a set with more than k blocks exists: the number of
\* smaller blocks is a one-to-one map onto the numbers below the cardinality.
LEMMA NthFacts ==
  ASSUME NEW S \in SUBSET Phys, NEW k \in Nat, k < Cardinality(S)
  PROVE  Nth(S, k) \in S /\ Cardinality({c \in S : c < Nth(S, k)}) = k
<1> DEFINE n == Cardinality(S)
           Below(b) == {c \in S : c < b}
           T == 0..(n - 1)
           rank == [b \in S |-> Cardinality(Below(b))]
<1>1. IsFiniteSet(S) /\ n \in Nat
  BY BlocksFinite
<1>2. \A b \in S : b \in Int
  BY DEF Phys
<1>3. \A b \in S : Below(b) \in SUBSET Phys /\ IsFiniteSet(Below(b))
                     /\ Cardinality(Below(b)) \in Nat
  BY BlocksFinite
<1>4. ASSUME NEW b \in S PROVE Cardinality(Below(b)) <= n - 1
  <2>1. IsFiniteSet(S \ {b}) /\ Cardinality(S \ {b}) = n - 1
    BY <1>1, FS_RemoveElement
  <2>2. Below(b) \in SUBSET (S \ {b})
    BY <1>2
  <2>3. QED
    BY <2>1, <2>2, FS_Subset
<1>5. ASSUME NEW a \in S, NEW b \in S, a < b
      PROVE  Cardinality(Below(a)) < Cardinality(Below(b))
  <2>1. a \notin Below(a) /\ Below(a) \cup {a} \in SUBSET Below(b)
    BY <1>2, <1>5
  <2>2. Cardinality(Below(a) \cup {a}) = Cardinality(Below(a)) + 1
    BY <1>3, <2>1, FS_AddElement
  <2>3. Cardinality(Below(a) \cup {a}) <= Cardinality(Below(b))
    BY <1>3, <2>1, FS_Subset
  <2>4. Cardinality(Below(a)) \in Nat /\ Cardinality(Below(b)) \in Nat
    BY <1>3
  <2> HIDE DEF Below
  <2>5. QED
    BY <2>2, <2>3, <2>4
<1>6. rank \in [S -> T]
  <2>1. \A b \in S : Cardinality(Below(b)) \in T
    <3> HIDE DEF Below
    <3>1. QED
      BY <1>1, <1>3, <1>4
  <2>2. QED
    BY <2>1
<1>7. \A a, b \in S : rank[a] = rank[b] => a = b
  <2>1. SUFFICES ASSUME NEW a \in S, NEW b \in S, rank[a] = rank[b], a # b
                 PROVE  FALSE
    OBVIOUS
  <2>2. a < b \/ b < a
    BY <1>2, <2>1
  <2>3. Cardinality(Below(a)) = Cardinality(Below(b))
    BY <2>1
  <2>4. Cardinality(Below(a)) \in Nat /\ Cardinality(Below(b)) \in Nat
    BY <1>3
  <2>5. Cardinality(Below(a)) < Cardinality(Below(b)) \/ Cardinality(Below(b)) < Cardinality(Below(a))
    BY <1>5, <2>2
  <2> HIDE DEF Below
  <2>6. QED
    BY <2>3, <2>4, <2>5
<1>8. IsFiniteSet(T) /\ Cardinality(T) = n
  <2> HIDE DEF n
  <2>1. 0 \in Int /\ n - 1 \in Int /\ n \in Nat
    BY <1>1
  <2>2. /\ IsFiniteSet(0..(n - 1))
        /\ Cardinality(0..(n - 1)) = IF 0 > n - 1 THEN 0 ELSE (n - 1) - 0 + 1
    BY <2>1, FS_Interval
  <2>3. QED
    BY <2>1, <2>2
<1>9. rank \in Surjection(S, T)
  <2> HIDE DEF rank, T
  <2>1. rank \in Injection(S, T)
    BY <1>6, <1>7 DEF Injection, IsInjective
  <2>2. QED
    BY <1>8, <2>1, FS_Injection
<1>10. k \in T
  BY <1>1
<1>11. PICK b \in S : rank[b] = k
  BY <1>9, <1>10 DEF Surjection
<1>12. Cardinality({c \in S : c < b}) = k
  BY <1>11
<1>13. QED
  BY <1>12 DEF Nth

\* Different places in the order are different blocks, and block 0 is first.
LEMMA NthDistinct ==
  ASSUME NEW S \in SUBSET Phys, NEW j \in Nat, NEW k \in Nat,
         j < Cardinality(S), k < Cardinality(S)
  PROVE  /\ Nth(S, j) = Nth(S, k) => j = k
         /\ k > 0 => Nth(S, k) # 0
<1> DEFINE B(b) == {c \in S : c < b}
<1>0. Cardinality(B(Nth(S, j))) = j /\ Cardinality(B(Nth(S, k))) = k
  BY NthFacts
<1>1. Nth(S, j) = Nth(S, k) => j = k
  <2> HIDE DEF B
  <2>1. QED
    BY <1>0
<1>2. ASSUME k > 0, Nth(S, k) = 0 PROVE FALSE
  <2>1. \A c \in S : c \in Int /\ c >= 0
    BY DEF Phys
  <2>2. B(0) = {}
    BY <2>1
  <2>3. Cardinality(B(0)) = k
    <3> HIDE DEF B
    <3>1. QED
      BY <1>0, <1>2
  <2>4. QED
    BY <1>2, <2>2, <2>3, FS_EmptySet
<1>3. QED
  BY <1>1, <1>2

\* A set of blocks that is not empty has a last and a first one.
LEMMA LastBlock ==
  ASSUME NEW S \in SUBSET Phys, S # {}
  PROVE  Foremost(S) \in S /\ \A c \in S : c <= Foremost(S)
<1> DEFINE n == Cardinality(S)
           b == Nth(S, n - 1)
<1>1. IsFiniteSet(S) /\ n \in Nat /\ n > 0
  BY BlocksFinite, FS_EmptySet
<1>2. b \in S /\ Cardinality({c \in S : c < b}) = n - 1
  BY <1>1, NthFacts
<1>3. IsFiniteSet(S \ {b}) /\ Cardinality(S \ {b}) = n - 1
  BY <1>1, <1>2, FS_RemoveElement
<1>4. {c \in S : c < b} \in SUBSET (S \ {b})
  <2> HIDE DEF b
  <2>1. \A c \in S : c < b => c # b
    BY <1>2 DEF Phys
  <2>2. QED
    BY <2>1
<1>5. {c \in S : c < b} = S \ {b}
  BY <1>2, <1>3, <1>4, FS_Subset
<1>6. \A c \in S : c <= b
  <2> HIDE DEF b
  <2>1. QED
    BY <1>2, <1>5 DEF Phys
<1>7. QED
  BY <1>2, <1>6 DEF Foremost

\* The first one.
LEMMA FirstBlock ==
  ASSUME NEW S \in SUBSET Phys, S # {}
  PROVE  \E b \in S : \A c \in S : b <= c
<1> DEFINE b == Nth(S, 0)
<1>1. IsFiniteSet(S) /\ Cardinality(S) \in Nat /\ Cardinality(S) > 0
  BY BlocksFinite, FS_EmptySet
<1>2. b \in S /\ Cardinality({c \in S : c < b}) = 0
  BY <1>1, NthFacts
<1>3. {c \in S : c < b} = {}
  <2>1. {c \in S : c < b} \in SUBSET S
    OBVIOUS
  <2>2. QED
    BY <1>1, <1>2, <2>1, FS_Subset, FS_EmptySet
<1>4. \A c \in S : b <= c
  <2> HIDE DEF b
  <2>1. QED
    BY <1>2, <1>3 DEF Phys
<1>5. QED
  BY <1>2, <1>4

-----------------------------------------------------------------------------
(* Type correctness.                                                       *)

MapsType == [Logical -> Phys]
PoolType == [Entries -> [block : Phys, mapped : {"free", "used", "bmt"}]]
TableType == [sig : {"none", "torn", "whole"}, bb : MapsType, bmt : PoolType]
FlashType == [Phys -> [Pages -> Content]]
JobType == [op : {"none", "init", "read", "write", "erase", "mark"}, l : Logical, old : Phys,
            len : 0..BlkPages, n : Entries \cup {-1}, tries : 0..MaxRetry]

\* The sets of numbers the types are made of.
LEMMA Numbers ==
  /\ Logical \subseteq Phys /\ Entries \subseteq Phys
  /\ 0 \in Phys /\ 0 \in Logical /\ 0 \in Entries
  /\ Phys \subseteq Int /\ -1 \notin Phys
  /\ 0 \in 0..BlkPages /\ 0 \in 0..MaxRetry /\ BlkPages \in 0..BlkPages
BY BmtAssumption DEF Logical, Phys, Entries

\* The constant records have their types.
LEMMA NoTableType == NoTable \in TableType /\ Torn \in TableType /\ NoJob \in JobType
BY Numbers DEF NoTable, Torn, Unsigned, NoEntry, NoJob, TableType, MapsType, PoolType, JobType

\* Outdating, erasing and writing over pages makes contents of them.
LEMMA OutdatedType ==
  ASSUME flash \in FlashType, NEW l, NEW ps
  PROVE  Outdated(l, ps) \in FlashType
BY DEF Outdated, FlashType, Content

LEMMA BlankType == Blank \in [Pages -> Content]
BY DEF Blank, Content

LEMMA OverType ==
  ASSUME NEW d \in Content, NEW v \in Content
  PROVE  Over(d, v) \in Content
BY DEF Over, Content

LEMMA LeftType ==
  ASSUME flash \in FlashType, NEW b \in Phys, NEW gone
  PROVE  Left(b, gone) \in [Pages -> Content]
BY DEF Left, FlashType, Content

\* A page of one block changes: the flash is still one.
LEMMA PageType ==
  ASSUME NEW F \in FlashType, NEW b \in Phys, NEW p, NEW v \in Content
  PROVE  /\ [F EXCEPT ![b][p] = v] \in FlashType
         /\ [F EXCEPT ![b][p] = v] = [F EXCEPT ![b] = [F[b] EXCEPT ![p] = v]]
<1>1. [F EXCEPT ![b][p] = v] = [F EXCEPT ![b] = [F[b] EXCEPT ![p] = v]]
  OBVIOUS
<1>2. [F[b] EXCEPT ![p] = v] \in [Pages -> Content]
  BY DEF FlashType
<1>3. QED
  BY <1>1, <1>2 DEF FlashType

\* What remains of a table in a block that was tampered with is a table like those
\* in the flash, and it has a signature only if the block had one.
LEMMA RemainsType ==
  ASSUME table \in [Phys -> TableType], NEW b \in Phys, NEW t \in Remains(b)
  PROVE  /\ t \in TableType
         /\ table[b].sig = "none" => t.sig = "none"
<1>1. table[b] \in TableType
  OBVIOUS
<1>2. t = NoTable \/ t = table[b] \/ (table[b].sig # "none" /\ t = Torn)
  BY DEF Remains
<1>3. NoTable.sig = "none"
  BY DEF NoTable, Unsigned
<1>4. QED
  BY <1>1, <1>2, <1>3, NoTableType

\* What a scan makes of the blocks that are not marked.
LEMMA ScanType ==
  ASSUME marked \subseteq Phys, Enough
  PROVE  /\ Mapping \in MapsType /\ Scanned \in PoolType
         /\ PoolSize \in Nat /\ PoolSize - 1 \in Entries
         /\ PoolSize = Cardinality(Good) - PoolLba
<1>1. Good \in SUBSET Phys
  BY DEF Good
<1>2. /\ Cardinality(Good) \in Nat /\ Cardinality(Good) <= TotalBlks
      /\ PoolSize = Cardinality(Good) - PoolLba /\ PoolSize > 0
      /\ PoolLba \in Nat /\ TotalBlks \in Nat
  BY <1>1, BlocksFinite, BmtAssumption DEF Enough, PoolSize
<1>3. PoolSize \in Nat /\ PoolSize - 1 \in Entries
  BY <1>2 DEF Entries
<1>4. \A k \in Nat : k < Cardinality(Good) => Nth(Good, k) \in Phys
  BY <1>1, NthFacts
<1>5. Mapping \in MapsType
  <2>1. \A l \in Logical : l \in Nat /\ l < Cardinality(Good)
    BY <1>2 DEF Logical
  <2>2. QED
    BY <1>4, <2>1 DEF Mapping, MapsType
<1>6. Scanned \in PoolType
  <2>1. \A i \in Entries : i < PoolSize => PoolLba + i \in Nat /\ PoolLba + i < Cardinality(Good)
    BY <1>2 DEF Entries
  <2>2. \A i \in Entries : (IF i < PoolSize THEN Nth(Good, PoolLba + i) ELSE 0) \in Phys
    BY <1>4, <2>1, Numbers
  <2>3. \A i \in Entries : Scanned[i] \in [block : Phys, mapped : {"free", "used", "bmt"}]
    BY <2>2 DEF Scanned
  <2>4. QED
    BY <2>3 DEF Scanned, PoolType
<1>7. QED
  BY <1>2, <1>3, <1>5, <1>6

\* The entry a table is found by.
LEMMA IndexFacts ==
  ASSUME NEW bmt \in PoolType
  PROVE  /\ BmtIndex(bmt) \in Entries
         /\ BmtIndex(bmt) # 0 =>
              /\ bmt[BmtIndex(bmt)].mapped = "bmt"
              /\ \A j \in Entries : j <= BmtIndex(bmt) => bmt[j].block # 0
<1> DEFINE found == {i \in Entries : bmt[i].mapped = "bmt" /\ \A j \in 0..i : bmt[j].block # 0}
<1>1. CASE found = {}
  BY <1>1, Numbers DEF BmtIndex
<1>2. CASE found # {}
  <2>1. found \in SUBSET Phys
    BY Numbers
  <2>2. \E b \in found : \A c \in found : b <= c
    <3> HIDE DEF found
    <3>1. QED
      BY <1>2, <2>1, FirstBlock
  <2>3. BmtIndex(bmt) = CHOOSE i \in found : \A j \in found : i <= j
    BY <1>2 DEF BmtIndex
  <2>4. BmtIndex(bmt) \in found
    <3> HIDE DEF found
    <3>1. QED
      BY <2>2, <2>3
  <2>5. \A j \in Entries : j <= BmtIndex(bmt) => j \in 0..BmtIndex(bmt)
    BY <2>4 DEF Entries
  <2>6. QED
    BY <2>4, <2>5
<1>3. QED
  BY <1>1, <1>2

\* The parts of the type invariant, here and in the next state.
FlashOK == flash \in FlashType /\ table \in [Phys -> TableType] /\ marked \subseteq Phys
TblOK == bbTbl \in MapsType /\ bmtTbl \in PoolType /\ blkIdx \in Entries \cup {Gone}
StepOK ==
  /\ step \in {"off", "idle", "remap", "upload", "program", "again", "failed", "beyond"}
  /\ job \in JobType
HistoryOK ==
  /\ faults \in 0..MaxFaults /\ written \in [Logical -> 0..BlkPages]
  /\ hurt \subseteq Logical /\ raw \subseteq Logical
  /\ why \subseteq {"worn", "window", "unread"}

\* The type invariant is the conjunction of its parts.
LEMMA TypeParts ==
  /\ BmtTypeOK <=> FlashOK /\ TblOK /\ StepOK /\ HistoryOK
  /\ BmtTypeOK' <=> FlashOK' /\ TblOK' /\ StepOK' /\ HistoryOK'
BY DEF BmtTypeOK, FlashOK, TblOK, StepOK, HistoryOK, FlashType, TableType, MapsType, PoolType,
       JobType

\* A failed access leaves a well-typed job behind.
LEMMA ReplaceType ==
  ASSUME BmtTypeOK, NEW op \in {"none", "read", "write", "erase", "mark"}, NEW l \in Logical,
         NEW len \in 0..BlkPages, Replace(op, l, len)
  PROVE  step' = "remap" /\ job' \in JobType
BY Numbers DEF Replace, Tries, JobType, BmtTypeOK

\* So does the end of a remap.
LEMMA ReturnsType ==
  ASSUME BmtTypeOK, NEW ok \in BOOLEAN, Returns(ok)
  PROVE  step' \in {"again", "idle"} /\ job' \in JobType /\ marked' \subseteq Phys
<1>1. job \in JobType /\ marked \subseteq Phys
  BY TypeParts DEF FlashOK, StepOK
<1>2. marked' \subseteq Phys
  BY <1>1 DEF Returns, JobType
<1>3. CASE ok /\ job.op \in {"read", "write", "erase"} /\ job.tries < MaxRetry
  <2>1. job.tries + 1 \in 0..MaxRetry
    BY <1>1, <1>3, BmtAssumption DEF JobType
  <2>2. job' = [job EXCEPT !.tries = @ + 1, !.n = 0] /\ step' = "again"
    BY <1>3 DEF Returns
  <2>3. job' \in JobType
    BY <1>1, <2>1, <2>2, Numbers DEF JobType
  <2>4. QED
    BY <1>2, <2>2, <2>3
<1>4. CASE ~(ok /\ job.op \in {"read", "write", "erase"} /\ job.tries < MaxRetry)
  BY <1>2, <1>4, NoTableType DEF Returns
<1>5. QED
  BY <1>3, <1>4

\* The faults are MaxFaults at most.
LEMMA FaultType ==
  ASSUME BmtTypeOK, NEW n \in Nat, Faults(n)
  PROVE  faults' \in 0..MaxFaults /\ faults' = faults + n
BY BmtAssumption DEF Faults, BmtTypeOK

\* What an access makes of the table in the block it goes to.
LEMMA AccessTable ==
  ASSUME BmtTypeOK, NEW l \in Logical,
         \/ Write(l) \/ WriteFails(l) \/ Erase(l) \/ EraseFails(l)
         \/ ReadFails(l) \/ ReadFlips(l) \/ MarkBad(l) \/ IsBad(l) \/ ReadAgain
  PROVE  /\ \E t \in Remains(bbTbl[l]) : table' = [table EXCEPT ![bbTbl[l]] = t]
         /\ table' \in [Phys -> TableType]
<1>1. table \in [Phys -> TableType] /\ bbTbl[l] \in Phys
  BY TypeParts DEF FlashOK, TblOK, MapsType
<1>2. \E t \in Remains(bbTbl[l]) : table' = [table EXCEPT ![bbTbl[l]] = t]
  <2>1. CASE Write(l) \/ WriteFails(l) \/ EraseFails(l)
    BY <2>1 DEF Write, WriteFails, Writes, EraseFails
  <2>2. CASE Erase(l)
    BY <2>2 DEF Erase, Remains
  <2>3. CASE ReadFails(l) \/ ReadFlips(l) \/ MarkBad(l) \/ IsBad(l) \/ ReadAgain
    <3>1. table' = table
      BY <2>3 DEF ReadFails, ReadFlips, MarkBad, IsBad, ReadAgain, flashVars
    <3>2. table[bbTbl[l]] \in Remains(bbTbl[l])
      BY DEF Remains
    <3>3. table' = [table EXCEPT ![bbTbl[l]] = table[bbTbl[l]]]
      BY <1>1, <3>1
    <3>4. QED
      BY <3>2, <3>3
  <2>4. QED
    BY <2>1, <2>2, <2>3
<1>3. QED
  BY <1>1, <1>2, RemainsType

\* Accesses keep the types.
LEMMA WriteType ==
  ASSUME BmtTypeOK, NEW l \in Logical, Write(l) \/ WriteFails(l)
  PROVE  BmtTypeOK'
<1>1. FlashOK /\ TblOK /\ StepOK /\ HistoryOK
  BY TypeParts
<1>2. /\ written[l] \in 0..BlkPages /\ written[l] < BlkPages
      /\ bbTbl[l] \in Phys /\ BlkPages \in Nat
  BY <1>1, BmtAssumption DEF HistoryOK, TblOK, MapsType, Write, WriteFails, Writes
<1>3. written[l] + 1 \in 0..BlkPages /\ written[l] \in Pages
  BY <1>2 DEF Pages
<1>4. table' \in [Phys -> TableType]
  BY AccessTable
<1>5. CASE Write(l)
  <2>1. FlashOK'
    <3>1. Outdated(l, {written[l]}) \in FlashType
      BY <1>1, OutdatedType DEF FlashOK
    <3>2. Over(Target(l), l) \in Content
      <4>1. Target(l) \in Content /\ l \in Content
        BY <1>1, <1>2, <1>3 DEF FlashOK, FlashType, Target, Content
      <4>2. QED
        BY <4>1, OverType
    <3>3. flash' = [Outdated(l, {written[l]}) EXCEPT ![bbTbl[l]][written[l]] = Over(Target(l), l)]
      BY <1>5 DEF Write
    <3>4. flash' \in FlashType
      BY <1>2, <3>1, <3>2, <3>3, PageType
    <3>5. QED
      BY <1>1, <1>4, <1>5, <3>4 DEF FlashOK, Write
  <2>2. TblOK'
    BY <1>1, <1>5 DEF Write, TblOK, tblVars
  <2>3. StepOK'
    BY <1>5, NoTableType DEF Write, StepOK
  <2>4. HistoryOK'
    BY <1>1, <1>3, <1>5 DEF Write, HistoryOK
  <2>5. QED
    BY <2>1, <2>2, <2>3, <2>4, TypeParts
<1>6. CASE WriteFails(l)
  <2>1. FlashOK'
    <3>1. flash' = [flash EXCEPT ![bbTbl[l]][written[l]] = Half]
      BY <1>6 DEF WriteFails
    <3>2. flash' \in FlashType
      <4>1. Half \in Content
        BY DEF Content
      <4>2. QED
        BY <1>1, <1>2, <3>1, <4>1, PageType DEF FlashOK
    <3>3. QED
      BY <1>1, <1>4, <1>6, <3>2 DEF FlashOK, WriteFails
  <2>2. TblOK'
    BY <1>1, <1>6 DEF WriteFails, TblOK, tblVars
  <2>3. StepOK'
    BY <1>2, <1>6, ReplaceType DEF WriteFails, StepOK
  <2>4. HistoryOK'
    BY <1>1, <1>6, FaultType DEF WriteFails, Fault, HistoryOK
  <2>5. QED
    BY <2>1, <2>2, <2>3, <2>4, TypeParts
<1>7. QED
  BY <1>5, <1>6

\* So do the erasures.
LEMMA EraseType ==
  ASSUME BmtTypeOK, NEW l \in Logical, Erase(l) \/ EraseFails(l)
  PROVE  BmtTypeOK'
<1>1. FlashOK /\ TblOK /\ StepOK /\ HistoryOK
  BY TypeParts
<1>2. Outdated(l, Pages) \in FlashType /\ bbTbl[l] \in Phys
  BY <1>1, OutdatedType DEF FlashOK, TblOK, MapsType
<1>3. table' \in [Phys -> TableType]
  BY AccessTable
<1>4. FlashOK'
  <2>1. CASE Erase(l)
    <3>1. flash' = [Outdated(l, Pages) EXCEPT ![bbTbl[l]] = Blank]
      BY <2>1 DEF Erase
    <3>2. flash' \in FlashType
      BY <1>2, <3>1, BlankType DEF FlashType
    <3>3. QED
      BY <1>1, <1>3, <2>1, <3>2 DEF FlashOK, Erase
  <2>2. CASE EraseFails(l)
    <3>1. PICK gone \in SUBSET Pages : flash' = [flash EXCEPT ![bbTbl[l]] = Left(bbTbl[l], gone)]
      BY <2>2 DEF EraseFails
    <3>2. Left(bbTbl[l], gone) \in [Pages -> Content]
      BY <1>1, <1>2, LeftType DEF FlashOK
    <3>3. flash' \in FlashType
      BY <1>1, <3>1, <3>2 DEF FlashOK, FlashType
    <3>4. QED
      BY <1>1, <1>3, <2>2, <3>3 DEF FlashOK, EraseFails
  <2>3. QED
    BY <2>1, <2>2
<1>5. TblOK'
  BY <1>1 DEF Erase, EraseFails, TblOK, tblVars
<1>6. StepOK'
  BY NoTableType, Numbers, ReplaceType DEF Erase, EraseFails, StepOK
<1>7. HistoryOK'
  <2>1. CASE Erase(l)
    BY <1>1, <2>1, Numbers DEF Erase, HistoryOK
  <2>2. CASE EraseFails(l)
    BY <1>1, <2>2, FaultType DEF EraseFails, Fault, HistoryOK
  <2>3. QED
    BY <2>1, <2>2
<1>8. QED
  BY <1>4, <1>5, <1>6, <1>7, TypeParts

\* And the reads, and the questions and orders about bad blocks.
LEMMA ReadType ==
  ASSUME BmtTypeOK, NEW l \in Logical,
         ReadFails(l) \/ ReadFlips(l) \/ MarkBad(l) \/ IsBad(l) \/ ReadAgain
  PROVE  BmtTypeOK'
<1>1. FlashOK /\ TblOK /\ StepOK /\ HistoryOK
  BY TypeParts
<1>2. FlashOK' /\ TblOK'
  BY <1>1 DEF ReadFails, ReadFlips, MarkBad, IsBad, ReadAgain, FlashOK, TblOK, flashVars, tblVars
<1>3. StepOK'
  BY NoTableType, Numbers, ReplaceType
  DEF ReadFails, ReadFlips, MarkBad, IsBad, ReadAgain, StepOK
<1>4. HistoryOK'
  <2>1. faults' \in 0..MaxFaults
    BY <1>1, FaultType DEF Fault, ReadFails, ReadFlips, MarkBad, IsBad, ReadAgain, HistoryOK
  <2>2. QED
    BY <1>1, <2>1 DEF ReadFails, ReadFlips, MarkBad, IsBad, ReadAgain, HistoryOK
<1>5. QED
  BY <1>2, <1>3, <1>4, TypeParts

\* What is copied to a new block are contents of pages.
LEMMA CopyType ==
  ASSUME flash \in FlashType, NEW new \in Phys, job.old \in Phys, NEW k, NEW torn, NEW gone
  PROVE  Copy(new, k, torn, gone) \in [Pages -> Content]
<1>1. ASSUME NEW p \in Pages
      PROVE  Left(new, gone)[p] \in Content /\ flash[job.old][p] \in Content
  BY LeftType DEF FlashType
<1>2. \A p \in Pages : Over(Left(new, gone)[p], flash[job.old][p]) \in Content
  BY <1>1, OverType
<1>3. Junk \in Content
  BY DEF Content
<1>4. QED
  BY <1>1, <1>2, <1>3 DEF Copy

\* The replacement of a block keeps the types.
LEMMA RemapType ==
  ASSUME BmtTypeOK, RemapRefused \/ Remap \/ RemapBeyond
  PROVE  BmtTypeOK'
<1>1. FlashOK /\ TblOK /\ StepOK /\ HistoryOK
  BY TypeParts
<1>2. CASE RemapRefused
  <2>1. FlashOK' /\ StepOK'
    BY <1>1, <1>2, ReturnsType DEF RemapRefused, FlashOK, StepOK
  <2>2. TblOK' /\ HistoryOK'
    BY <1>1, <1>2 DEF RemapRefused, TblOK, HistoryOK, tblVars
  <2>3. QED
    BY <2>1, <2>2, TypeParts
<1>3. CASE RemapBeyond
  <2>1. FlashOK' /\ StepOK'
    BY <1>1, <1>3, NoTableType DEF RemapBeyond, FlashOK, StepOK, flashVars
  <2>2. TblOK' /\ HistoryOK'
    BY <1>1, <1>3 DEF RemapBeyond, TblOK, HistoryOK, tblVars
  <2>3. QED
    BY <2>1, <2>2, TypeParts
<1>4. CASE Remap
  <2>1. PICK i \in Available, k \in 0..job.len, torn \in BOOLEAN, gone \in SUBSET Pages :
          RemapTo(i, k, torn, gone)
    BY <1>4 DEF Remap
  <2> DEFINE new == bmtTbl[i].block
             copied == Copy(new, k, torn, gone)
  <2>2. i \in Entries /\ new \in Phys /\ job.l \in Logical /\ job.old \in Phys
    BY <1>1 DEF Available, TblOK, PoolType, StepOK, JobType
  <2> HIDE DEF new
  <2>3. FlashOK'
    <3>1. copied \in [Pages -> Content]
      BY <1>1, <2>2, CopyType DEF FlashOK
    <3>2. flash' \in FlashType
      BY <1>1, <2>1, <2>2, <3>1 DEF FlashOK, FlashType, RemapTo, new
    <3>3. PICK t \in IF gone = Pages THEN {NoTable} ELSE Remains(new) :
             table' = [table EXCEPT ![new] = t]
      BY <2>1 DEF RemapTo, new
    <3>4. t \in TableType
      BY <1>1, <2>2, <3>3, NoTableType, RemainsType DEF FlashOK
    <3>5. table' \in [Phys -> TableType]
      BY <1>1, <2>2, <3>3, <3>4 DEF FlashOK
    <3>6. QED
      BY <1>1, <2>1, <3>2, <3>5 DEF FlashOK, RemapTo
  <2>4. TblOK'
    BY <1>1, <2>1, <2>2 DEF TblOK, MapsType, PoolType, RemapTo, new
  <2>5. StepOK'
    BY <1>1, <2>1 DEF StepOK, JobType, TblOK, RemapTo
  <2>6. HistoryOK'
    <3>1. PICK n \in {0, 1, 2} : Faults(n)
      BY <2>1 DEF RemapTo
    <3>2. faults' \in 0..MaxFaults
      BY <3>1, FaultType
    <3>3. QED
      BY <1>1, <2>1, <2>2, <3>2 DEF HistoryOK, RemapTo
  <2>7. QED
    BY <2>3, <2>4, <2>5, <2>6, TypeParts
<1>5. QED
  BY <1>2, <1>3, <1>4

\* A table that is written takes the whole of its block.
LEMMA TabledType ==
  ASSUME FlashOK, Place \in Phys, NEW t \in TableType, Tabled(t)
  PROVE  flash' \in FlashType /\ table' \in [Phys -> TableType]
BY DEF FlashOK, FlashType, Tabled, Content

\* So does the writing of the tables, whatever fails of it.
LEMMA UploadType ==
  ASSUME BmtTypeOK, step = "program" => job.n \in Entries,
         UploadErase \/ UploadEraseFails \/ UploadProgram \/ UploadProgramFails \/ UploadFails
  PROVE  BmtTypeOK'
<1>1. FlashOK /\ TblOK /\ StepOK /\ HistoryOK
  BY TypeParts
<1>2. CASE UploadFails
  <2>1. FlashOK' /\ StepOK'
    BY <1>1, <1>2, ReturnsType, NoTableType DEF UploadFails, FlashOK, StepOK
  <2>2. TblOK' /\ HistoryOK'
    BY <1>1, <1>2 DEF UploadFails, TblOK, HistoryOK
  <2>3. QED
    BY <2>1, <2>2, TypeParts
<1>3. CASE ~UploadFails
  <2>1. job.n \in Entries
    <3>1. job.n \in Entries \cup {-1}
      BY <1>1 DEF StepOK, JobType
    <3>2. -1 >= 0 => FALSE
      OBVIOUS
    <3>3. step = "program" \/ job.n >= 0
      BY <1>3 DEF UploadErase, UploadEraseFails, UploadProgram, UploadProgramFails, PlaceLeft
    <3>4. QED
      BY <3>1, <3>2, <3>3
  <2>2. Place \in Phys
    BY <1>1, <2>1 DEF Place, TblOK, PoolType
  <2>3. table[Place] \in TableType
    BY <1>1, <2>2 DEF FlashOK
  <2>4. ASSUME NextPlace PROVE TblOK' /\ StepOK'
    <3>1. TblOK'
      BY <1>1, <2>1, <2>4, Numbers DEF NextPlace, TblOK, PoolType
    <3>2. job.n - 1 \in Entries \cup {-1}
      BY <2>1, BmtAssumption DEF Entries
    <3>3. StepOK'
      BY <1>1, <2>4, <3>2 DEF NextPlace, StepOK, JobType
    <3>4. QED
      BY <3>1, <3>3
  <2>5. ASSUME NextPlace, Fault, written' = written, hurt' = hurt, raw' = raw PROVE HistoryOK'
    BY <1>1, <2>5, FaultType DEF NextPlace, Fault, HistoryOK
  <2>6. CASE UploadErase
    <3>2. FlashOK'
      BY <1>1, <2>2, <2>6, BlankType, NoTableType DEF UploadErase, FlashOK, FlashType
    <3>3. TblOK' /\ StepOK' /\ HistoryOK'
      BY <1>1, <2>6 DEF UploadErase, TblOK, StepOK, HistoryOK, tblVars
    <3>4. QED
      BY <3>2, <3>3, TypeParts
  <2>7. CASE UploadEraseFails
    <3>1. FlashOK'
      <4>1. PICK gone \in SUBSET Pages : flash' = [flash EXCEPT ![Place] = Left(Place, gone)]
        BY <2>7 DEF UploadEraseFails
      <4>2. flash' \in FlashType
        BY <1>1, <2>2, <4>1, LeftType DEF FlashOK, FlashType
      <4>3. table' \in [Phys -> TableType]
        BY <1>1, <2>2, <2>7, RemainsType DEF UploadEraseFails, FlashOK
      <4>4. QED
        BY <1>1, <2>7, <4>2, <4>3 DEF UploadEraseFails, FlashOK
    <3>2. QED
      BY <2>4, <2>5, <2>7, <3>1, TypeParts DEF UploadEraseFails
  <2>8. CASE UploadProgramFails
    <3>1. FlashOK'
      BY <1>1, <2>2, <2>8, NoTableType, TabledType DEF UploadProgramFails, FlashOK
    <3>2. QED
      BY <2>4, <2>5, <2>8, <3>1, TypeParts DEF UploadProgramFails
  <2>9. CASE UploadProgram
    <3>1. [sig |-> "whole", bb |-> bbTbl, bmt |-> bmtTbl] \in TableType
      BY <1>1 DEF TblOK, TableType
    <3>2. FlashOK' /\ StepOK'
      BY <1>1, <2>2, <2>9, <3>1, ReturnsType, TabledType DEF UploadProgram, FlashOK, StepOK
    <3>3. TblOK' /\ HistoryOK'
      BY <1>1, <2>1, <2>9 DEF UploadProgram, TblOK, HistoryOK
    <3>4. QED
      BY <3>2, <3>3, TypeParts
  <2>10. QED
    BY <1>3, <2>6, <2>7, <2>8, <2>9
<1>4. QED
  BY <1>2, <1>3

\* A power cut and the start after it keep them too.
LEMMA BootType ==
  ASSUME BmtTypeOK, step = "program" => job.n \in Entries, PowerFails \/ Boot
  PROVE  BmtTypeOK'
<1>1. FlashOK /\ TblOK /\ StepOK /\ HistoryOK
  BY TypeParts
<1>2. CASE PowerFails
  <2>1. FlashOK'
    <3>1. CASE step = "program"
      <4>1. Place \in Phys
        BY <1>1, <3>1 DEF Place, TblOK, PoolType
      <4>2. QED
        BY <1>1, <1>2, <3>1, <4>1, NoTableType, TabledType DEF PowerFails, FlashOK
    <3>2. CASE step # "program"
      BY <1>1, <1>2, <3>2 DEF PowerFails, FlashOK
    <3>3. QED
      BY <3>1, <3>2
  <2>2. TblOK'
    BY <1>2, NoTableType, Numbers DEF PowerFails, NoTables, TblOK, TableType
  <2>3. StepOK' /\ HistoryOK'
    BY <1>1, <1>2, NoTableType DEF PowerFails, StepOK, HistoryOK
  <2>4. QED
    BY <2>1, <2>2, <2>3, TypeParts
<1>3. CASE Boot
  <2>1. PICK skip \in SUBSET Tables :
          /\ Faults(Cardinality(skip))
          /\ why' = why \/ why' = why \cup {"unread"}
          /\ \/ Rescan
             \/ Tables \ skip # {} /\ (Load(Foremost(Tables \ skip)) \/ LoadTorn(Foremost(Tables \ skip)))
          /\ UNCHANGED <<flashVars, written, hurt, raw>>
    BY <1>3, Zenon DEF Boot
  <2>2. FlashOK'
    BY <1>1, <2>1 DEF FlashOK, flashVars
  <2>3. HistoryOK'
    <3>1. Cardinality(skip) \in Nat
      <4>1. skip \in SUBSET Phys
        BY DEF Tables
      <4>2. QED
        BY <4>1, BlocksFinite
    <3>2. faults' \in 0..MaxFaults
      BY <2>1, <3>1, FaultType
    <3>3. QED
      BY <1>1, <2>1, <3>2 DEF HistoryOK
  <2>4. CASE Rescan
    <3>1. CASE Enough
      <4>1. /\ Mapping \in MapsType /\ Scanned \in PoolType /\ PoolSize - 1 \in Entries
        BY <1>1, <3>1, ScanType DEF FlashOK
      <4>2. /\ bbTbl' = Mapping /\ bmtTbl' = Scanned /\ blkIdx' = PoolSize - 1
            /\ step' = "upload"
            /\ job' = [NoJob EXCEPT !.op = "init", !.n = PoolSize - 1]
        BY <2>4, <3>1 DEF Rescan
      <4>3. TblOK'
        BY <4>1, <4>2 DEF TblOK
      <4>4. StepOK'
        BY <4>1, <4>2, NoTableType DEF StepOK, JobType
      <4>5. QED
        BY <2>2, <2>3, <4>3, <4>4, TypeParts
    <3>2. CASE ~Enough
      <4>1. TblOK' /\ StepOK'
        BY <1>1, <2>4, <3>2 DEF Rescan, TblOK, StepOK, tblVars
      <4>2. QED
        BY <2>2, <2>3, <4>1, TypeParts
    <3>3. QED
      BY <3>1, <3>2
  <2>5. CASE Tables \ skip # {} /\ Load(Foremost(Tables \ skip))
    <3> DEFINE b == Foremost(Tables \ skip)
    <3>1. b \in Phys
      <4>1. Tables \ skip \in SUBSET Phys
        BY DEF Tables
      <4>2. QED
        BY <2>5, <4>1, LastBlock
    <3>2. table[b] \in TableType
      BY <1>1, <3>1 DEF FlashOK
    <3> HIDE DEF b
    <3>3. table[b].bb \in MapsType /\ table[b].bmt \in PoolType
      BY <3>2 DEF TableType
    <3>4. BmtIndex(table[b].bmt) \in Entries
      BY <3>3, IndexFacts
    <3>5. Load(b)
      BY <2>5 DEF b
    <3>6. TblOK' /\ StepOK'
      BY <1>1, <3>3, <3>4, <3>5 DEF Load, TblOK, StepOK
    <3>7. QED
      BY <2>2, <2>3, <3>6, TypeParts
  <2>6. CASE LoadTorn(Foremost(Tables \ skip))
    <3>1. TblOK' /\ StepOK'
      BY <1>1, <2>6 DEF LoadTorn, TblOK, StepOK, tblVars
    <3>2. QED
      BY <2>2, <2>3, <3>1, TypeParts
  <2>7. QED
    BY <2>1, <2>4, <2>5, <2>6
<1>4. QED
  BY <1>2, <1>3

-----------------------------------------------------------------------------
(* The mapping.  A mapping and a pool are sound if no block is in them     *)
(* twice: not in the mapping, not in the pool, and no block of the pool is *)
(* in the mapping unless its entry is used.  The tables in memory and all  *)
(* those in the flash are sound.                                           *)

Sound(bb, bmt) ==
  /\ \A l, m \in Logical : bb[l] = bb[m] => l = m
  /\ \A l \in Logical, i \in Entries :
       bmt[i].block # 0 /\ bmt[i].mapped # "used" => bb[l] # bmt[i].block
  /\ \A i, j \in Entries : bmt[i].block # 0 /\ bmt[i].block = bmt[j].block => i = j

Stored == \A b \in Phys : Sound(table[b].bb, table[b].bmt)

(* The entries up to the one of the tables have blocks; the tables are     *)
(* only programmed into a block that is not used.                          *)
Filled ==
  /\ step \in {"idle", "again", "remap"} /\ blkIdx # Gone =>
       \A i \in Entries : i <= blkIdx => bmtTbl[i].block # 0
  /\ step \in {"upload", "program"} =>
       \A i \in Entries : i <= job.n => bmtTbl[i].block # 0

BmtInv == BmtTypeOK /\ Sound(bbTbl, bmtTbl) /\ Stored /\ Filled
            /\ (step = "program" => PlaceLeft)

\* The empty tables are sound.
LEMMA NoTableSound == Sound(NoTable.bb, NoTable.bmt) /\ Sound(Torn.bb, Torn.bmt)
BY DEF Sound, NoTable, Torn, Unsigned, NoEntry

\* So is what a scan of the flash makes, and all its entries have blocks.
LEMMA ScanSound ==
  ASSUME marked \subseteq Phys, Enough
  PROVE  /\ Sound(Mapping, Scanned)
         /\ \A i \in Entries : i <= PoolSize - 1 => Scanned[i].block # 0
         /\ Scanned[PoolSize - 1].mapped # "used"
<1>1. Good \in SUBSET Phys
  BY DEF Good
<1>2. /\ PoolSize \in Nat /\ PoolSize = Cardinality(Good) - PoolLba /\ PoolSize - 1 \in Entries
      /\ Cardinality(Good) \in Nat /\ PoolLba \in Nat /\ PoolLba > 0
  BY <1>1, ScanType, BlocksFinite, BmtAssumption
<1>3. \A l \in Logical : l \in Nat /\ l < Cardinality(Good) /\ l < PoolLba
  BY <1>2 DEF Logical, Entries
<1>4. \A i \in Entries : /\ i \in Nat /\ PoolLba + i \in Nat /\ PoolLba + i > 0
                         /\ i < PoolSize => PoolLba + i < Cardinality(Good)
  BY <1>2 DEF Entries
<1>5. \A j, k \in Nat : j < Cardinality(Good) /\ k < Cardinality(Good) =>
        /\ Nth(Good, j) = Nth(Good, k) => j = k
        /\ k > 0 => Nth(Good, k) # 0
  BY <1>1, NthDistinct
<1>6. \A l, m \in Logical : Mapping[l] = Mapping[m] => l = m
  BY <1>3, <1>5 DEF Mapping
<1>7. \A i \in Entries : /\ i < PoolSize => Scanned[i].block = Nth(Good, PoolLba + i)
                         /\ ~(i < PoolSize) => Scanned[i].block = 0
  BY DEF Scanned
<1>8. \A i \in Entries : i < PoolSize => Scanned[i].block # 0
  BY <1>4, <1>5, <1>7
<1>9. \A l \in Logical, i \in Entries : Scanned[i].block # 0 => Mapping[l] # Scanned[i].block
  <2>1. SUFFICES ASSUME NEW l \in Logical, NEW i \in Entries, Scanned[i].block # 0,
                        Mapping[l] = Scanned[i].block
                 PROVE  FALSE
    OBVIOUS
  <2>2. i < PoolSize
    BY <1>7, <2>1
  <2>3. Nth(Good, l) = Nth(Good, PoolLba + i)
    BY <1>7, <2>1, <2>2 DEF Mapping
  <2>4. l = PoolLba + i
    BY <1>3, <1>4, <1>5, <2>2, <2>3
  <2>5. QED
    BY <1>2, <1>3, <1>4, <2>4
<1>10. \A i, j \in Entries : Scanned[i].block # 0 /\ Scanned[i].block = Scanned[j].block => i = j
  <2>1. SUFFICES ASSUME NEW i \in Entries, NEW j \in Entries, Scanned[i].block # 0,
                        Scanned[i].block = Scanned[j].block
                 PROVE  i = j
    OBVIOUS
  <2>2. i < PoolSize /\ j < PoolSize
    BY <1>7, <2>1
  <2>3. Nth(Good, PoolLba + i) = Nth(Good, PoolLba + j)
    BY <1>7, <2>1, <2>2
  <2>4. PoolLba + i = PoolLba + j
    BY <1>4, <1>5, <2>2, <2>3
  <2>5. QED
    BY <1>2, <1>4, <2>4
<1>11. Scanned[PoolSize - 1].mapped # "used"
  BY <1>2 DEF Scanned
<1>12. \A i \in Entries : i <= PoolSize - 1 => i < PoolSize
  BY <1>2, <1>4
<1>13. QED
  BY <1>6, <1>8, <1>9, <1>10, <1>11, <1>12 DEF Sound

\* So is what remains of the table in a block that was tampered with.
LEMMA RemainsSound ==
  ASSUME Stored, NEW b \in Phys, NEW t \in Remains(b)
  PROVE  Sound(t.bb, t.bmt)
<1>1. t = NoTable \/ t = table[b] \/ t = Torn
  BY DEF Remains
<1>2. QED
  BY <1>1, NoTableSound DEF Stored

\* A table put in one block keeps the tables sound.
LEMMA StoredKept ==
  ASSUME Stored, table \in [Phys -> TableType], NEW b \in Phys, NEW t,
         Sound(t.bb, t.bmt), table' = [table EXCEPT ![b] = t]
  PROVE  Stored'
<1>1. \A c \in Phys : Sound(table'[c].bb, table'[c].bmt)
  BY DEF Stored
<1>2. QED
  BY <1>1 DEF Stored, Sound

\* The accesses touch neither the mapping nor the tables, but for one in their own block.
LEMMA AccessInv ==
  ASSUME BmtInv, NEW l \in Logical,
         \/ Write(l) \/ WriteFails(l) \/ Erase(l) \/ EraseFails(l)
         \/ ReadFails(l) \/ ReadFlips(l) \/ MarkBad(l) \/ IsBad(l) \/ ReadAgain
  PROVE  BmtInv'
<1>1. BmtTypeOK'
  BY WriteType, EraseType, ReadType DEF BmtInv
<1>2. /\ UNCHANGED tblVars
      /\ step \in {"idle", "again"} /\ step' \in {"idle", "remap"}
  <2>1. \A op \in {"none", "read", "write", "erase", "mark"}, n \in Int :
          Replace(op, l, n) => step' = "remap"
    BY DEF Replace
  <2>2. written[l] \in Int /\ BlkPages \in Int
    BY BmtAssumption DEF BmtInv, BmtTypeOK
  <2>3. QED
    BY <2>1, <2>2 DEF Write, WriteFails, Erase, EraseFails, ReadFails, ReadFlips, MarkBad, IsBad, ReadAgain,
          Writes, Accesses, flashVars
<1>3. Stored'
  <2>1. PICK t \in Remains(bbTbl[l]) : table' = [table EXCEPT ![bbTbl[l]] = t]
    BY AccessTable DEF BmtInv
  <2>2. table \in [Phys -> TableType] /\ bbTbl[l] \in Phys
    BY TypeParts DEF BmtInv, FlashOK, TblOK, MapsType
  <2>3. QED
    BY <2>1, <2>2, RemainsSound, StoredKept DEF BmtInv
<1>4. QED
  BY <1>1, <1>2, <1>3 DEF BmtInv, Sound, Filled, tblVars

\* A replacement moves the block from the pool to the mapping.
LEMMA RemapInv ==
  ASSUME BmtInv, RemapRefused \/ Remap \/ RemapBeyond
  PROVE  BmtInv'
<1>1. BmtTypeOK'
  BY RemapType DEF BmtInv
<1>2. CASE RemapRefused
  <2>1. step' = "idle"
    BY <1>2 DEF RemapRefused, Returns
  <2>2. QED
    BY <1>1, <1>2, <2>1 DEF RemapRefused, BmtInv, Stored, Sound, Filled, tblVars
<1>3. CASE RemapBeyond
  BY <1>1, <1>3 DEF RemapBeyond, BmtInv, Stored, Sound, Filled, tblVars, flashVars
<1>4. CASE Remap
  <2>1. PICK i \in Available, k \in 0..job.len, torn \in BOOLEAN, gone \in SUBSET Pages :
          RemapTo(i, k, torn, gone)
    BY <1>4 DEF Remap
  <2>0. /\ step = "remap" /\ blkIdx # Gone
        /\ bmtTbl' = [bmtTbl EXCEPT ![i].mapped = "used"]
        /\ bbTbl' = [bbTbl EXCEPT ![job.l] = bmtTbl[i].block]
        /\ \E t \in {NoTable} \cup Remains(bmtTbl[i].block) :
             table' = [table EXCEPT ![bmtTbl[i].block] = t]
        /\ step' = "upload"
        /\ job' = [job EXCEPT !.n = blkIdx]
        /\ UNCHANGED blkIdx
    BY <2>1 DEF RemapTo
  <2>2. /\ FlashOK /\ TblOK /\ StepOK /\ i \in Entries /\ job.l \in Logical
        /\ bmtTbl[i].block # 0 /\ bmtTbl[i].mapped = "free"
        /\ bmtTbl[i] \in [block : Phys, mapped : {"free", "used", "bmt"}]
    BY TypeParts DEF BmtInv, Available, StepOK, JobType, TblOK, PoolType
  <2>3. /\ \A j \in Entries : bmtTbl'[j].block = bmtTbl[j].block
        /\ \A j \in Entries : j # i => bmtTbl'[j] = bmtTbl[j]
        /\ bmtTbl'[i].mapped = "used"
    BY <2>0, <2>2 DEF TblOK, PoolType
  <2>4. \A m \in Logical : bbTbl'[m] = IF m = job.l THEN bmtTbl[i].block ELSE bbTbl[m]
    BY <2>0, <2>2 DEF TblOK, MapsType
  <2>5. Sound(bbTbl', bmtTbl')
    BY <2>2, <2>3, <2>4 DEF BmtInv, Sound
  <2>6. Stored'
    BY <2>0, <2>2, NoTableSound, RemainsSound, StoredKept DEF BmtInv, FlashOK
  <2>7. job'.n = blkIdx
    BY <2>0, <2>2 DEF StepOK, JobType
  <2>8. Filled'
    BY <2>0, <2>3, <2>7 DEF BmtInv, Filled
  <2>9. QED
    BY <1>1, <2>0, <2>5, <2>6, <2>8 DEF BmtInv
<1>5. QED
  BY <1>2, <1>3, <1>4

\* Writing the tables drops the entries whose block fails.
LEMMA UploadInv ==
  ASSUME BmtInv,
         UploadErase \/ UploadEraseFails \/ UploadProgram \/ UploadProgramFails \/ UploadFails
  PROVE  BmtInv'
<1>1. FlashOK /\ TblOK /\ StepOK
  BY TypeParts DEF BmtInv
<1>2. step = "program" => job.n \in Entries
  BY <1>1 DEF BmtInv, PlaceLeft, StepOK, JobType
<1>3. BmtTypeOK'
  BY <1>2, UploadType DEF BmtInv
<1>4. CASE UploadFails
  <2>1. /\ step' \in {"failed", "again", "idle"} /\ blkIdx' = Gone
        /\ UNCHANGED <<table, bbTbl, bmtTbl>>
    BY <1>4 DEF UploadFails, Returns
  <2>2. QED
    BY <1>3, <2>1 DEF BmtInv, Stored, Sound, Filled
<1>5. CASE ~UploadFails
  <2>1. job.n \in Entries
    <3>1. job.n \in Entries \cup {-1}
      BY <1>1 DEF StepOK, JobType
    <3>2. -1 >= 0 => FALSE
      OBVIOUS
    <3>3. step = "program" \/ job.n >= 0
      BY <1>5 DEF UploadErase, UploadEraseFails, UploadProgram, UploadProgramFails, PlaceLeft
    <3>4. QED
      BY <1>2, <3>1, <3>2, <3>3
  <2>2. Place \in Phys
    BY <1>1, <2>1 DEF Place, TblOK, PoolType
  <2>3. ASSUME NextPlace, step \in {"upload", "program"}
        PROVE  /\ Sound(bbTbl', bmtTbl') /\ Filled' /\ step' = "upload"
    <3>1. /\ bmtTbl' = [bmtTbl EXCEPT ![job.n].block = 0] /\ bbTbl' = bbTbl
          /\ job' = [job EXCEPT !.n = @ - 1] /\ step' = "upload"
      BY <2>3 DEF NextPlace
    <3>2. /\ \A j \in Entries : j # job.n => bmtTbl'[j] = bmtTbl[j]
          /\ bmtTbl'[job.n].block = 0 /\ bmtTbl'[job.n].mapped = bmtTbl[job.n].mapped
      BY <1>1, <2>1, <3>1 DEF TblOK, PoolType
    <3>3. Sound(bbTbl', bmtTbl')
      BY <2>1, <3>1, <3>2 DEF BmtInv, Sound
    <3>4. job'.n = job.n - 1
      BY <1>1, <3>1 DEF StepOK, JobType
    <3>5. \A j \in Entries : j <= job'.n => j <= job.n /\ j # job.n
      BY <2>1, <3>4, BmtAssumption DEF Entries
    <3>6. Filled'
      BY <2>3, <3>1, <3>2, <3>5 DEF BmtInv, Filled
    <3>7. QED
      BY <3>1, <3>3, <3>6
  <2>4. ASSUME NEW t, table' = [table EXCEPT ![Place] = t], Sound(t.bb, t.bmt)
        PROVE  Stored'
    BY <1>1, <2>2, <2>4 DEF BmtInv, Stored, FlashOK
  <2>5. CASE UploadErase
    <3>1. Stored'
      BY <2>4, <2>5, NoTableSound DEF UploadErase
    <3>2. step = "upload" /\ step' = "program" /\ UNCHANGED <<tblVars, job>> /\ PlaceLeft
      BY <2>5 DEF UploadErase
    <3>3. QED
      BY <1>3, <3>1, <3>2 DEF BmtInv, Sound, Filled, PlaceLeft, tblVars
  <2>6. CASE UploadEraseFails
    <3>1. Stored'
      BY <2>2, <2>4, <2>6, RemainsSound DEF UploadEraseFails, BmtInv
    <3>2. NextPlace /\ step = "upload"
      BY <2>6 DEF UploadEraseFails
    <3>3. QED
      BY <1>3, <2>3, <3>1, <3>2 DEF BmtInv
  <2>7. CASE UploadProgramFails
    <3>1. Stored'
      BY <2>4, <2>7, NoTableSound DEF UploadProgramFails, Tabled
    <3>2. NextPlace /\ step = "program"
      BY <2>7 DEF UploadProgramFails
    <3>3. QED
      BY <1>3, <2>3, <3>1, <3>2 DEF BmtInv
  <2>8. CASE UploadProgram
    <3>1. Stored'
      BY <2>4, <2>8 DEF UploadProgram, Tabled, BmtInv
    <3>2. /\ step = "program" /\ step' \in {"again", "idle"} /\ blkIdx' = job.n
          /\ UNCHANGED <<bbTbl, bmtTbl>>
      BY <2>8 DEF UploadProgram, Returns
    <3>3. QED
      BY <1>3, <3>1, <3>2 DEF BmtInv, Sound, Filled
  <2>9. QED
    BY <1>5, <2>5, <2>6, <2>7, <2>8
<1>6. QED
  BY <1>4, <1>5

\* A start takes tables that are sound, or makes them.
LEMMA BootInv ==
  ASSUME BmtInv, PowerFails \/ Boot
  PROVE  BmtInv'
<1>1. FlashOK /\ TblOK /\ StepOK
  BY TypeParts DEF BmtInv
<1>2. step = "program" => job.n \in Entries
  BY <1>1 DEF BmtInv, PlaceLeft, StepOK, JobType
<1>3. BmtTypeOK'
  BY <1>2, BootType DEF BmtInv
<1>4. CASE PowerFails
  <2>1. Stored'
    <3>1. CASE step = "program"
      <4>1. Place \in Phys
        BY <1>1, <1>2, <3>1 DEF Place, TblOK, PoolType
      <4>2. QED
        BY <1>1, <1>4, <3>1, <4>1, NoTableSound, StoredKept DEF PowerFails, Tabled, BmtInv, FlashOK
    <3>2. CASE step # "program"
      BY <1>4, <3>2 DEF PowerFails, BmtInv, Stored, Sound
    <3>3. QED
      BY <3>1, <3>2
  <2>2. bbTbl' = NoTable.bb /\ bmtTbl' = NoTable.bmt /\ step' = "off"
    BY <1>4 DEF PowerFails, NoTables
  <2>3. QED
    BY <1>3, <2>1, <2>2, NoTableSound DEF BmtInv, Filled
<1>5. CASE Boot
  <2>1. PICK skip \in SUBSET Tables :
          /\ \/ Rescan
             \/ Tables \ skip # {} /\ (Load(Foremost(Tables \ skip)) \/ LoadTorn(Foremost(Tables \ skip)))
          /\ UNCHANGED <<flashVars, written, hurt, raw>>
    BY <1>5, Zenon DEF Boot
  <2>2. Stored'
    BY <2>1 DEF BmtInv, Stored, Sound, flashVars
  <2>3. CASE Rescan /\ Enough
    <3>1. /\ Sound(Mapping, Scanned)
          /\ \A i \in Entries : i <= PoolSize - 1 => Scanned[i].block # 0
      BY <1>1, <2>3, ScanSound DEF FlashOK
    <3>2. /\ bbTbl' = Mapping /\ bmtTbl' = Scanned /\ step' = "upload"
          /\ job'.n = PoolSize - 1
      BY <2>3 DEF Rescan, NoJob
    <3>3. QED
      BY <1>3, <2>2, <3>1, <3>2 DEF BmtInv, Filled
  <2>4. CASE Rescan /\ ~Enough
    BY <1>3, <2>2, <2>4 DEF Rescan, BmtInv, Filled, Sound, tblVars
  <2>5. CASE Tables \ skip # {} /\ Load(Foremost(Tables \ skip))
    <3> DEFINE b == Foremost(Tables \ skip)
    <3>1. b \in Phys
      <4>1. Tables \ skip \in SUBSET Phys
        BY DEF Tables
      <4>2. QED
        BY <2>5, <4>1, LastBlock
    <3> HIDE DEF b
    <3>2. table[b].bmt \in PoolType /\ Sound(table[b].bb, table[b].bmt)
      BY <1>1, <3>1 DEF FlashOK, TableType, BmtInv, Stored
    <3>3. /\ BmtIndex(table[b].bmt) # 0
          /\ bbTbl' = table[b].bb /\ bmtTbl' = table[b].bmt /\ blkIdx' = BmtIndex(table[b].bmt)
          /\ step' = "idle"
      BY <2>5 DEF b, Load
    <3>4. \A j \in Entries : j <= BmtIndex(table[b].bmt) => table[b].bmt[j].block # 0
      BY <3>2, <3>3, IndexFacts
    <3>5. QED
      BY <1>3, <2>2, <3>2, <3>3, <3>4 DEF BmtInv, Filled
  <2>6. CASE LoadTorn(Foremost(Tables \ skip))
    BY <1>3, <2>2, <2>6 DEF LoadTorn, BmtInv, Filled, Sound, tblVars
  <2>7. QED
    BY <2>1, <2>3, <2>4, <2>5, <2>6
<1>6. QED
  BY <1>4, <1>5

\* A new device satisfies the invariant.
LEMMA BmtInitInv == BmtInit => BmtInv
<1>1. SUFFICES ASSUME BmtInit PROVE BmtInv
  OBVIOUS
<1>2. BmtTypeOK
  <2>1. FlashOK
    BY <1>1, NoTableType, BlankType, BmtAssumption DEF BmtInit, FlashOK, FlashType
  <2>2. TblOK /\ StepOK
    BY <1>1, NoTableType, Numbers DEF BmtInit, NoTables, TblOK, StepOK, TableType
  <2>3. HistoryOK
    BY <1>1, Numbers, BmtAssumption DEF BmtInit, HistoryOK
  <2>4. QED
    BY <2>1, <2>2, <2>3, TypeParts
<1>3. QED
  BY <1>1, <1>2, NoTableSound DEF BmtInit, NoTables, BmtInv, Stored, Filled

\* Every step keeps it.
LEMMA BmtStepInv == BmtInv /\ [BmtNext]_bmtVars => BmtInv'
<1>1. SUFFICES ASSUME BmtInv, [BmtNext]_bmtVars PROVE BmtInv'
  OBVIOUS
<1>2. CASE BmtNext
  BY <1>1, <1>2, AccessInv, RemapInv, UploadInv, BootInv, Numbers DEF BmtNext
<1>3. CASE UNCHANGED bmtVars
  <2>1. BmtTypeOK'
    BY <1>1, <1>3 DEF bmtVars, flashVars, tblVars, BmtInv, BmtTypeOK
  <2>2. UNCHANGED <<table, bbTbl, bmtTbl, blkIdx, step, job>>
    BY <1>3 DEF bmtVars, flashVars, tblVars
  <2>3. QED
    BY <1>1, <2>1, <2>2 DEF BmtInv, Stored, Sound, Filled, PlaceLeft
<1>4. QED
  BY <1>1, <1>2, <1>3

\* The invariant of the mapping holds in every behaviour.
THEOREM BmtInvariance == BmtSpec => []BmtInv
BY BmtInitInv, BmtStepInv, PTL DEF BmtSpec

\* Every variable keeps its type; a job is tried again MaxRetry times at most.
THEOREM BmtTypeCorrect == BmtSpec => []BmtTypeOK
<1>1. BmtInv => BmtTypeOK
  BY DEF BmtInv
<1>2. QED
  BY <1>1, BmtInvariance, PTL

\* No two logical blocks ever share a physical one: not after any number of
\* failures, remaps, power cuts and scans.
THEOREM MappingIsOneToOne == BmtSpec => []NoAlias
<1>1. BmtInv => NoAlias
  BY DEF BmtInv, Sound, NoAlias
<1>2. QED
  BY <1>1, BmtInvariance, PTL

\* upload_bmt never programs the tables into a block that data is mapped to.
THEOREM TablesAvoidData == BmtSpec => []TableApart
<1>1. BmtInv => TableApart
  <2>1. SUFFICES ASSUME BmtInv, step = "program", NEW l \in Logical PROVE bbTbl[l] # Place
    BY DEF TableApart
  <2>2. job.n \in Entries
    BY <2>1 DEF BmtInv, PlaceLeft, BmtTypeOK
  <2>3. bmtTbl[job.n].block # 0 /\ bmtTbl[job.n].mapped # "used"
    <3>1. job.n <= job.n
      BY <2>2 DEF Entries
    <3>2. QED
      BY <2>1, <2>2, <3>1 DEF BmtInv, Filled, PlaceLeft
  <2>4. QED
    BY <2>1, <2>2, <2>3 DEF BmtInv, Sound, Place
<1>2. QED
  BY <1>1, BmtInvariance, PTL

-----------------------------------------------------------------------------
(* The data.  As long as nothing has happened to the only copy of the      *)
(* tables, it is where it will be found, and the mapping in it leads to    *)
(* the data: the one in memory, but for the replacement on its way.        *)

\* The pages f hold the first n of block l, then perhaps the one that could not be
\* written, and nothing else.
Whole(f, l, n) == \A p \in Pages :
  /\ p < n => f[p] = l
  /\ p = n => f[p] \in {None, Half}
  /\ p > n => f[p] = None

Kept(bb) == \A l \in Logical \ (hurt \cup raw) : Whole(flash[bb[l]], l, written[l])

\* The block a table is in is the one it will be found by.
Indexed(bmt, b) == BmtIndex(bmt) # 0 /\ bmt[BmtIndex(bmt)].block = b

\* The tables of a scan that leaves a pool of one block: the index 0 of that block
\* is the one get_bmt_index returns for none, so every start makes them anew.
LoneTables ==
  /\ job.op = "init" /\ job.n = 0 /\ Enough /\ PoolSize = 1
  /\ bbTbl = Mapping /\ bmtTbl = Scanned

\* The tables about to be written will be found again, or made again.
Ready ==
  \/ job.n = BmtIndex(bmtTbl) /\ Indexed(bmtTbl, Place) /\ Place >= PoolLba
  \/ LoneTables

\* A new device: there is no data and no table yet.
Unwritten ==
  /\ Tables = {} /\ \A l \in Logical : written[l] = 0
  /\ \A b \in Phys : flash[b] = Blank
  /\ step \in {"off", "failed", "upload"}
  /\ step = "upload" => Ready

\* There is one table, in b; if the driver runs, it is the one in memory,
\* or the one it was before the replacement that is about to be recorded.
Settled(b) ==
  /\ Tables = {b} /\ table[b].sig = "whole"
  /\ Kept(table[b].bb) /\ Indexed(table[b].bmt, b)
  /\ step \in {"idle", "again", "remap"} =>
       bbTbl = table[b].bb /\ bmtTbl = table[b].bmt /\ blkIdx = BmtIndex(bmtTbl)
  /\ step = "upload" => job.n = BmtIndex(bmtTbl) /\ Indexed(bmtTbl, b)
  /\ step # "program"

\* There is one table, in the only block of the pool, and no start finds it: but
\* a scan makes the same mapping, as no block was ever replaced, or fails,
\* as one of the others has been marked since.
Lone(b) ==
  /\ Tables = {b} /\ table[b].sig = "whole"
  /\ Kept(table[b].bb) /\ BmtIndex(table[b].bmt) = 0
  /\ \A l \in Logical : table[b].bb[l] # b
  /\ \/ Cardinality(Good) <= PoolLba
     \/ Enough /\ PoolSize = 1 /\ Mapping = table[b].bb /\ Scanned[0].block = b
  /\ step \in {"idle", "again", "remap"} => bbTbl = table[b].bb /\ blkIdx = 0
  /\ step = "upload" => LoneTables
  /\ step # "program"

\* The table is erased and not yet written again.
Rewriting == step = "program" /\ Tables = {} /\ Ready

Recorded == Unwritten \/ (\E b \in Phys : Settled(b) \/ Lone(b)) \/ Rewriting

\* A replacement copies all that was written, unless the block is to be erased, and
\* not more than that if a page could not be written.
Copying ==
  step = "remap" =>
    /\ job.old = bbTbl[job.l]
    /\ written[job.l] <= job.len \/ job.l \in raw
    /\ job.op = "write" => job.len = written[job.l] /\ written[job.l] < BlkPages

\* That page is written again where nothing was written yet.
Fresh ==
  step \in {"upload", "program", "again"} /\ job.op = "write" /\ job.l \notin hurt \cup raw =>
    written[job.l] < BlkPages /\ Target(job.l) = None

IntactInv ==
  /\ BmtInv /\ Copying /\ Fresh
  /\ why = {} => (Running => Kept(bbTbl)) /\ Recorded

\* The k-th of some blocks has k blocks below it.
LEMMA NthAtLeast ==
  ASSUME NEW S \in SUBSET Phys, NEW k \in Nat, k < Cardinality(S)
  PROVE  Nth(S, k) >= k
<1> DEFINE b == Nth(S, k)
<1>1. b \in S /\ Cardinality({c \in S : c < b}) = k
  BY NthFacts
<1> HIDE DEF b
<1>2. b \in Nat /\ b - 1 \in Int /\ 0 \in Int
  BY <1>1 DEF Phys
<1>3. /\ IsFiniteSet(0..(b - 1))
      /\ Cardinality(0..(b - 1)) = IF 0 > b - 1 THEN 0 ELSE (b - 1) - 0 + 1
  BY <1>2, FS_Interval
<1>4. Cardinality(0..(b - 1)) = b
  BY <1>2, <1>3
<1>5. {c \in S : c < b} \in SUBSET (0..(b - 1))
  <2>1. \A c \in S : c \in Int /\ c >= 0
    BY DEF Phys
  <2>2. \A c \in S : c < b => c \in 0..(b - 1)
    BY <1>2, <2>1
  <2>3. QED
    BY <2>2
<1>6. k <= Cardinality(0..(b - 1))
  BY <1>1, <1>3, <1>5, FS_Subset
<1>7. QED
  BY <1>4, <1>6 DEF b

\* A scan puts the table in the last block of the pool.
LEMMA ScanIndexed ==
  ASSUME marked \subseteq Phys, Enough
  PROVE  /\ BmtIndex(Scanned) = PoolSize - 1
         /\ Scanned[PoolSize - 1].mapped = "bmt" /\ Scanned[PoolSize - 1].block # 0
         /\ Scanned[PoolSize - 1].block >= PoolLba
<1>1. Good \in SUBSET Phys
  BY DEF Good
<1>2. /\ PoolSize \in Nat /\ PoolSize > 0 /\ PoolSize - 1 \in Entries /\ Scanned \in PoolType
      /\ PoolSize = Cardinality(Good) - PoolLba
  BY ScanType DEF Enough
<1>3. Cardinality(Good) \in Nat /\ TotalBlks \in Nat /\ PoolLba \in Nat
  BY <1>1, BlocksFinite, BmtAssumption
<1>4. \A i \in Entries : i <= PoolSize - 1 => Scanned[i].block # 0
  BY ScanSound
<1> DEFINE found == {i \in Entries : Scanned[i].mapped = "bmt"
                                       /\ \A j \in 0..i : Scanned[j].block # 0}
<1>5. found = {PoolSize - 1}
  <2>1. \A i \in Entries : Scanned[i].mapped = "bmt" <=> i = PoolSize - 1
    BY DEF Scanned
  <2>2. \A j \in 0..(PoolSize - 1) : j \in Entries /\ j <= PoolSize - 1
    BY <1>2, <1>3 DEF Entries
  <2>3. \A j \in 0..(PoolSize - 1) : Scanned[j].block # 0
    BY <1>4, <2>2
  <2>4. QED
    BY <1>2, <2>1, <2>3
<1>6. BmtIndex(Scanned) = CHOOSE i \in found : \A j \in found : i <= j
  BY <1>5 DEF BmtIndex
<1>7. BmtIndex(Scanned) = PoolSize - 1
  <2>1. \A i \in {PoolSize - 1} : i <= PoolSize - 1
    BY <1>2
  <2>2. (CHOOSE i \in {PoolSize - 1} : \A j \in {PoolSize - 1} : i <= j) = PoolSize - 1
    BY <2>1
  <2> HIDE DEF found
  <2>3. QED
    BY <1>5, <1>6, <2>2
<1>8. Scanned[PoolSize - 1].block >= PoolLba
  <2>1. /\ PoolLba + (PoolSize - 1) \in Nat /\ PoolLba + (PoolSize - 1) < Cardinality(Good)
        /\ PoolLba + (PoolSize - 1) >= PoolLba /\ PoolSize - 1 < PoolSize
    BY <1>2, <1>3
  <2>2. Nth(Good, PoolLba + (PoolSize - 1)) >= PoolLba + (PoolSize - 1)
    BY <1>1, <2>1, NthAtLeast
  <2>3. Scanned[PoolSize - 1].block = Nth(Good, PoolLba + (PoolSize - 1))
    BY <1>2, <2>1 DEF Scanned
  <2>4. Nth(Good, PoolLba + (PoolSize - 1)) \in Int
    <3>1. Nth(Good, PoolLba + (PoolSize - 1)) \in Good
      BY <1>1, <2>1, NthFacts
    <3>2. \A b \in Good : b \in Int
      BY <1>1 DEF Phys
    <3>3. QED
      BY <3>1, <3>2
  <2>5. QED
    BY <1>3, <2>1, <2>2, <2>3, <2>4
<1>9. Scanned[PoolSize - 1].mapped = "bmt" /\ Scanned[PoolSize - 1].block # 0
  <2>1. PoolSize - 1 <= PoolSize - 1
    BY <1>2
  <2>2. QED
    BY <1>2, <1>4, <2>1 DEF Scanned
<1>10. QED
  BY <1>7, <1>8, <1>9

\* A scan depends on the bad block marks alone.
LEMMA ScanSame ==
  ASSUME marked' = marked
  PROVE  /\ Good' = Good /\ Mapping' = Mapping /\ Scanned' = Scanned
         /\ PoolSize' = PoolSize /\ Enough' = Enough
BY DEF Good, Bad, Mapping, Scanned, PoolSize, Enough

\* Marking one of the blocks a scan has found, but for block 0, takes it from the
\* next scan and gives nothing in its place.
LEMMA ScanLoses ==
  ASSUME marked \subseteq Phys, NEW b \in Phys, marked' = marked \cup {b}
  PROVE  /\ b = 0 => Good' = Good
         /\ Cardinality(Good') <= Cardinality(Good)
         /\ b # 0 /\ b \in Good => Cardinality(Good') < Cardinality(Good)
<1>1. \A c : Bad(c) => Bad(c)'
  BY DEF Bad
<1>2. Good' \subseteq Good
  BY <1>1 DEF Good
<1>3. ASSUME b = 0 PROVE Good' = Good
  <2>1. \A c : Bad(c) <=> Bad(c)'
    BY <1>3 DEF Bad
  <2>2. QED
    BY <2>1 DEF Good
<1>4. Good \in SUBSET Phys /\ Good' \in SUBSET Phys
  BY DEF Good
<1>5. /\ IsFiniteSet(Good) /\ Cardinality(Good) \in Nat
      /\ IsFiniteSet(Good') /\ Cardinality(Good') \in Nat
  BY <1>4, BlocksFinite
<1>6. Cardinality(Good') <= Cardinality(Good)
  BY <1>2, <1>5, FS_Subset
<1>7. ASSUME b # 0, b \in Good PROVE Cardinality(Good') < Cardinality(Good)
  <2>1. b \notin Good'
    BY <1>7 DEF Good, Bad
  <2>2. IsFiniteSet(Good \ {b}) /\ Cardinality(Good \ {b}) = Cardinality(Good) - 1
    BY <1>5, <1>7, FS_RemoveElement
  <2>3. Good' \subseteq Good \ {b}
    BY <1>2, <2>1
  <2>4. Cardinality(Good') <= Cardinality(Good \ {b})
    BY <2>2, <2>3, FS_Subset
  <2>5. QED
    BY <1>5, <2>2, <2>4
<1>8. QED
  BY <1>3, <1>6, <1>7

\* Taking a free block from the pool does not change where its table is.
LEMMA IndexKept ==
  ASSUME NEW bmt \in PoolType, NEW i \in Entries, bmt[i].mapped = "free"
  PROVE  BmtIndex([bmt EXCEPT ![i].mapped = "used"]) = BmtIndex(bmt)
<1> DEFINE new == [bmt EXCEPT ![i].mapped = "used"]
           found(t) == {k \in Entries : t[k].mapped = "bmt" /\ \A j \in 0..k : t[j].block # 0}
           first(ks) == IF ks = {} THEN 0 ELSE CHOOSE k \in ks : \A j \in ks : k <= j
<1>1. \A k \in Entries : new[k].block = bmt[k].block /\ (new[k].mapped = "bmt" <=> bmt[k].mapped = "bmt")
  BY DEF PoolType
<1>2. \A k \in Entries : \A j \in 0..k : j \in Entries
  BY BmtAssumption DEF Entries
<1>3. found(new) = found(bmt)
  <2> HIDE DEF new
  <2>1. QED
    BY <1>1, <1>2
<1>4. BmtIndex(new) = first(found(new)) /\ BmtIndex(bmt) = first(found(bmt))
  <2> HIDE DEF new
  <2>1. QED
    BY Zenon DEF BmtIndex
<1>5. QED
  <2> HIDE DEF found, first, new
  <2>1. BmtIndex(new) = BmtIndex(bmt)
    BY <1>3, <1>4
  <2>2. QED
    BY <2>1 DEF new

\* A page with old data of one block is none of another's.
LEMMA OutdatedWhole ==
  ASSUME NEW l \in Logical, NEW m \in Logical, m # l, NEW ps, NEW b \in Phys, NEW n,
         Whole(flash[b], m, n)
  PROVE  Whole(Outdated(l, ps)[b], m, n)
<1>1. l # None /\ l # Half
  BY DEF Logical, None, Half
<1>2. \A p \in Pages : Outdated(l, ps)[b][p] =
                         IF flash[b][p] = l /\ p \in ps THEN Junk ELSE flash[b][p]
  BY DEF Outdated
<1>3. QED
  BY <1>1, <1>2 DEF Whole

\* An erased block holds nothing of whoever it belongs to.
LEMMA BlankWhole == \A l : Whole(Blank, l, 0)
BY DEF Whole, Blank, Pages

\* Whatever the accesses do to a block, the data of the others stays, and
\* the data of its own that was written.
LEMMA AccessKept ==
  ASSUME BmtInv, Fresh, NEW l \in Logical, Kept(bbTbl),
         \/ Write(l) \/ WriteFails(l) \/ Erase(l) \/ EraseFails(l)
         \/ ReadFails(l) \/ ReadFlips(l) \/ MarkBad(l) \/ IsBad(l) \/ ReadAgain
  PROVE  Kept(bbTbl)'
<1>1. FlashOK /\ TblOK /\ HistoryOK /\ Sound(bbTbl, bmtTbl)
  BY TypeParts DEF BmtInv
<1>2. /\ \A m \in Logical : bbTbl[m] \in Phys /\ written[m] \in 0..BlkPages
      /\ bbTbl[l] \in Phys /\ BlkPages \in Nat
  BY <1>1, BmtAssumption DEF TblOK, MapsType, HistoryOK
<1>3. bbTbl' = bbTbl
  BY DEF Write, WriteFails, Erase, EraseFails, ReadFails, ReadFlips, MarkBad, IsBad, ReadAgain, tblVars
<1>4. SUFFICES ASSUME NEW m \in Logical, m \notin hurt', m \notin raw'
               PROVE  Whole(flash'[bbTbl[m]], m, written'[m])
  BY <1>3 DEF Kept
<1>5. m # l => bbTbl[m] # bbTbl[l]
  BY <1>1 DEF Sound
<1>6. m \notin hurt /\ m \notin raw => Whole(flash[bbTbl[m]], m, written[m])
  BY DEF Kept
<1>7. CASE Write(l)
  <2> DEFINE F == Outdated(l, {written[l]})
             v == Over(Target(l), l)
  <2>1. /\ flash' = [F EXCEPT ![bbTbl[l]][written[l]] = v]
        /\ written' = [written EXCEPT ![l] = @ + 1] /\ hurt' = hurt /\ raw' = raw
        /\ written[l] < BlkPages /\ (step = "idle" => Target(l) # Half)
        /\ step = "again" => job.op = "write" /\ job.l = l
        /\ step \in {"idle", "again"}
    BY <1>7 DEF Write, Writes, Accesses, Doing
  <2>2. F \in FlashType
    BY <1>1, OutdatedType DEF FlashOK
  <2>3. Whole(flash[bbTbl[m]], m, written[m])
    BY <1>4, <1>6, <2>1
  <2>4. m # l => Whole(F[bbTbl[m]], m, written[m])
    BY <1>2, <2>3, OutdatedWhole
  <2>5. \A p \in Pages : p # written[l] => F[bbTbl[l]][p] = flash[bbTbl[l]][p]
    BY <1>2 DEF Outdated
  <2>6. Target(l) = flash[bbTbl[l]][written[l]]
    BY DEF Target
  <2>7. v = IF Target(l) = None THEN l ELSE v
    BY DEF Over
  <2> HIDE DEF F, v
  <2>8. written[l] \in Pages
    BY <1>2, <2>1 DEF Pages
  <2>9. flash' = [F EXCEPT ![bbTbl[l]] = [F[bbTbl[l]] EXCEPT ![written[l]] = v]]
    BY <2>1
  <2>10. CASE m # l
    <3>1. flash'[bbTbl[m]] = F[bbTbl[m]] /\ written'[m] = written[m]
      BY <1>1, <1>2, <1>5, <2>1, <2>2, <2>9, <2>10 DEF FlashType, HistoryOK
    <3>2. QED
      BY <2>4, <2>10, <3>1
  <2>11. CASE m = l
    <3>1. Target(l) = None
      <4>1. Target(l) \in {None, Half}
        BY <1>2, <2>3, <2>6, <2>8, <2>11 DEF Whole
      <4>2. step = "again" => Target(l) = None
        BY <1>4, <2>1, <2>11 DEF Fresh
      <4>3. QED
        BY <2>1, <4>1, <4>2
    <3>2. v = l
      BY <2>7, <3>1
    <3>3. \A p \in Pages : flash'[bbTbl[l]][p] = IF p = written[l] THEN l ELSE flash[bbTbl[l]][p]
      BY <1>2, <2>2, <2>5, <2>8, <2>9, <3>2 DEF FlashType
    <3>4. written'[l] = written[l] + 1
      BY <1>1, <2>1 DEF HistoryOK
    <3>5. ASSUME NEW p \in Pages
          PROVE  /\ p < written[l] + 1 <=> p < written[l] \/ p = written[l]
                 /\ p = written[l] + 1 => p > written[l]
                 /\ p > written[l] + 1 => p > written[l]
                 /\ p > written[l] => p # written[l]
      BY <1>2 DEF Pages
    <3>6. QED
      BY <2>3, <2>11, <3>3, <3>4, <3>5 DEF Whole
  <2>12. QED
    BY <2>10, <2>11
<1>8. CASE WriteFails(l)
  <2>1. /\ flash' = [flash EXCEPT ![bbTbl[l]][written[l]] = Half]
        /\ written' = written /\ hurt' = hurt /\ raw' = raw /\ written[l] < BlkPages
    BY <1>8 DEF WriteFails, Writes
  <2>2. written[l] \in Pages
    BY <1>2, <2>1 DEF Pages
  <2>3. flash' = [flash EXCEPT ![bbTbl[l]] = [flash[bbTbl[l]] EXCEPT ![written[l]] = Half]]
    BY <2>1
  <2>4. Whole(flash[bbTbl[m]], m, written[m])
    BY <1>4, <1>6, <2>1
  <2>5. CASE m # l
    BY <1>1, <1>2, <1>5, <2>1, <2>3, <2>4, <2>5 DEF FlashOK, FlashType
  <2>6. CASE m = l
    <3>1. \A p \in Pages : flash'[bbTbl[l]][p] = IF p = written[l] THEN Half ELSE flash[bbTbl[l]][p]
      BY <1>1, <1>2, <2>2, <2>3 DEF FlashOK, FlashType
    <3>2. \A p \in Pages : (p < written[l] => p # written[l]) /\ (p > written[l] => p # written[l])
      BY <1>2 DEF Pages
    <3>3. QED
      BY <2>1, <2>4, <2>6, <3>1, <3>2 DEF Whole
  <2>7. QED
    BY <2>5, <2>6
<1>9. CASE Erase(l)
  <2>1. /\ written' = [written EXCEPT ![l] = 0] /\ hurt' = hurt \ {l} /\ raw' = raw \ {l}
        /\ flash' = [Outdated(l, Pages) EXCEPT ![bbTbl[l]] = Blank]
    BY <1>9 DEF Erase
  <2>2. Outdated(l, Pages) \in FlashType
    BY <1>1, OutdatedType DEF FlashOK
  <2>3. CASE m = l
    <3>1. flash'[bbTbl[l]] = Blank /\ written'[l] = 0
      BY <1>1, <1>2, <2>1, <2>2 DEF FlashType, HistoryOK
    <3>2. QED
      BY <2>3, <3>1, BlankWhole
  <2>4. CASE m # l
    <3>1. Whole(flash[bbTbl[m]], m, written[m])
      BY <1>4, <1>6, <2>1, <2>4
    <3>2. flash'[bbTbl[m]] = Outdated(l, Pages)[bbTbl[m]] /\ written'[m] = written[m]
      BY <1>1, <1>2, <1>5, <2>1, <2>2, <2>4 DEF FlashType, HistoryOK
    <3>3. Whole(Outdated(l, Pages)[bbTbl[m]], m, written[m])
      BY <1>2, <2>4, <3>1, OutdatedWhole
    <3>4. QED
      BY <3>2, <3>3
  <2>5. QED
    BY <2>3, <2>4
<1>10. CASE EraseFails(l)
  <2>1. PICK gone \in SUBSET Pages : flash' = [flash EXCEPT ![bbTbl[l]] = Left(bbTbl[l], gone)]
    BY <1>10 DEF EraseFails
  <2>2. written' = written /\ hurt' = hurt /\ raw' = raw \cup {l}
    BY <1>10 DEF EraseFails
  <2>3. m # l
    BY <1>4, <2>2
  <2>4. flash'[bbTbl[m]] = flash[bbTbl[m]]
    BY <1>1, <1>2, <1>5, <2>1, <2>3 DEF FlashOK, FlashType
  <2>5. QED
    BY <1>4, <1>6, <2>2, <2>4
<1>11. CASE ReadFails(l) \/ ReadFlips(l) \/ MarkBad(l) \/ IsBad(l) \/ ReadAgain
  BY <1>4, <1>6, <1>11 DEF ReadFails, ReadFlips, MarkBad, IsBad, ReadAgain, flashVars
<1>12. QED
  BY <1>7, <1>8, <1>9, <1>10, <1>11

\* An access leaves the table that will be found as it is.
LEMMA AccessTables ==
  ASSUME BmtInv, NEW l \in Logical, NEW b \in Phys, Tables = {b}, bbTbl[l] # b,
         \/ Write(l) \/ WriteFails(l) \/ Erase(l) \/ EraseFails(l)
         \/ ReadFails(l) \/ ReadFlips(l) \/ MarkBad(l) \/ IsBad(l) \/ ReadAgain
  PROVE  Tables' = {b} /\ table'[b] = table[b]
<1>1. table \in [Phys -> TableType] /\ bbTbl[l] \in Phys
  BY TypeParts DEF BmtInv, FlashOK, TblOK, MapsType
<1>2. PICK t \in Remains(bbTbl[l]) : table' = [table EXCEPT ![bbTbl[l]] = t]
  BY AccessTable DEF BmtInv
<1>3. \A c \in Phys : table'[c] = IF c = bbTbl[l] THEN t ELSE table[c]
  BY <1>1, <1>2
<1>4. bbTbl[l] >= PoolLba => t.sig = "none"
  BY <1>1, RemainsType DEF Tables
<1>5. QED
  BY <1>1, <1>3, <1>4 DEF Tables

\* An access leaves the tables as they are, and copies what was written.
LEMMA AccessIntact ==
  ASSUME IntactInv, NEW l \in Logical,
         \/ Write(l) \/ WriteFails(l) \/ Erase(l) \/ EraseFails(l)
         \/ ReadFails(l) \/ ReadFlips(l) \/ MarkBad(l) \/ IsBad(l) \/ ReadAgain
  PROVE  IntactInv'
<1>1. BmtInv /\ BmtInv'
  BY AccessInv DEF IntactInv
<1>2. TblOK /\ HistoryOK /\ Sound(bbTbl, bmtTbl)
  BY <1>1, TypeParts DEF BmtInv
<1>3. UNCHANGED <<marked, tblVars, why>> /\ step \in {"idle", "again"}
  BY DEF Write, WriteFails, Writes, Erase, EraseFails, ReadFails, ReadFlips, MarkBad, IsBad, ReadAgain,
         Accesses, flashVars
<1>4. Copying' /\ step' \in {"idle", "remap"}
  <2>1. \A op \in {"none", "read", "write", "erase", "mark"}, n \in Int :
          Replace(op, l, n) => /\ step' = "remap" /\ job'.old = bbTbl[l] /\ job'.l = l
                               /\ job'.len = n /\ job'.op = op
    BY DEF Replace
  <2>2. written[l] \in Int /\ BlkPages \in Int /\ written[l] <= BlkPages
    BY <1>2, BmtAssumption DEF HistoryOK
  <2>3. CASE Write(l) \/ Erase(l) \/ ReadAgain
    BY <2>3 DEF Write, Erase, ReadAgain, Copying
  <2>4. CASE WriteFails(l)
    BY <1>3, <2>1, <2>2, <2>4 DEF WriteFails, Writes, Copying, tblVars
  <2>5. CASE EraseFails(l)
    <3>1. l \in raw'
      BY <2>5 DEF EraseFails
    <3>2. QED
      BY <1>3, <2>1, <2>5, <3>1 DEF EraseFails, Copying, tblVars
  <2>6. CASE ReadFails(l) \/ ReadFlips(l) \/ MarkBad(l) \/ IsBad(l)
    BY <1>3, <2>1, <2>2, <2>6 DEF ReadFails, ReadFlips, MarkBad, IsBad, Copying, tblVars
  <2>7. QED
    BY <2>3, <2>4, <2>5, <2>6
<1>5. ASSUME why = {} PROVE (Running' => Kept(bbTbl)') /\ Recorded'
  <2>1. Kept(bbTbl)'
    BY <1>1, <1>3, <1>5, AccessKept DEF IntactInv, Running
  <2>2. PICK b \in Phys : Settled(b) \/ Lone(b)
    BY <1>3, <1>5 DEF IntactInv, Recorded, Unwritten, Rewriting
  <2>3. UNCHANGED <<bbTbl, bmtTbl, blkIdx>>
    BY <1>3 DEF tblVars
  <2>4. Tables = {b} /\ bbTbl = table[b].bb
    BY <1>3, <2>2 DEF Settled, Lone
  <2>5. bbTbl[l] # b
    <3>1. CASE Settled(b)
      <4>1. bmtTbl = table[b].bmt /\ Indexed(bmtTbl, b)
        BY <1>3, <3>1 DEF Settled
      <4>2. /\ BmtIndex(bmtTbl) \in Entries /\ bmtTbl[BmtIndex(bmtTbl)].mapped = "bmt"
            /\ bmtTbl[BmtIndex(bmtTbl)].block = b
        BY <1>2, <4>1, IndexFacts DEF Indexed, TblOK
      <4>3. b # 0
        BY <2>4, BmtAssumption DEF Tables
      <4>4. QED
        BY <1>2, <4>2, <4>3 DEF Sound
    <3>2. CASE Lone(b)
      BY <2>4, <3>2 DEF Lone
    <3>3. QED
      BY <2>2, <3>1, <3>2
  <2>6. Tables' = {b} /\ table'[b] = table[b]
    BY <1>1, <2>4, <2>5, AccessTables
  <2>7. Kept(table[b].bb)'
    BY <2>1, <2>3, <2>4, <2>6 DEF Kept
  <2>8. CASE Settled(b)
    <3>1. Settled(b)'
      BY <1>3, <1>4, <2>3, <2>6, <2>7, <2>8 DEF Settled, Indexed
    <3>2. QED
      BY <2>1, <3>1 DEF Recorded
  <2>9. CASE Lone(b)
    <3>1. Lone(b)'
      BY <1>3, <1>4, <2>3, <2>6, <2>7, <2>9, ScanSame DEF Lone
    <3>2. QED
      BY <2>1, <3>1 DEF Recorded
  <2>10. QED
    BY <2>2, <2>8, <2>9
<1>6. Fresh'
  BY <1>4 DEF Fresh
<1>7. QED
  BY <1>1, <1>3, <1>4, <1>5, <1>6 DEF IntactInv

\* With a pool of one block nothing is ever replaced.
LEMMA LoneRefuses ==
  ASSUME NEW b \in Phys, Lone(b), step = "remap"
  PROVE  blkIdx # Gone /\ Available = {} /\ ~Remap /\ ~RemapBeyond
<1>1. blkIdx = 0
  BY DEF Lone
<1>2. \A i \in Entries : ~(i < 0)
  BY DEF Entries
<1>3. blkIdx # Gone /\ Available = {}
  BY <1>1, <1>2 DEF Gone, Available
<1>4. QED
  BY <1>3 DEF Remap, RemapBeyond

\* A block that is marked without having been replaced was in the mapping: a
\* later scan that still finds enough blocks makes the same one.
LEMMA LoneMarked ==
  ASSUME BmtInv, NEW b \in Phys, Lone(b), step = "remap", job.old = bbTbl[job.l],
         marked' = marked \/ marked' = marked \cup {job.old}
  PROVE  \/ Cardinality(Good') <= PoolLba
         \/ Enough' /\ PoolSize' = 1 /\ Mapping' = table[b].bb /\ Scanned[0].block' = b
<1>1. /\ marked \subseteq Phys /\ job.old \in Phys /\ job.l \in Logical
  BY TypeParts DEF BmtInv, FlashOK, StepOK, JobType
<1>2. CASE marked' = marked
  BY <1>2, ScanSame DEF Lone
<1>3. CASE marked' = marked \cup {job.old}
  <2>1. Good \in SUBSET Phys /\ Good' \in SUBSET Phys
    BY DEF Good
  <2>2. Cardinality(Good) \in Nat /\ Cardinality(Good') \in Nat /\ PoolLba \in Nat
    BY <2>1, BlocksFinite, BmtAssumption
  <2>3. CASE Cardinality(Good) <= PoolLba
    BY <1>1, <1>3, <2>2, <2>3, ScanLoses
  <2>4. CASE Enough /\ PoolSize = 1 /\ Mapping = table[b].bb /\ Scanned[0].block = b
    <3>1. CASE job.old = 0
      <4>1. Good' = Good
        BY <1>1, <1>3, <3>1, ScanLoses
      <4>2. Mapping' = Mapping /\ Scanned' = Scanned /\ PoolSize' = PoolSize /\ Enough' = Enough
        BY <4>1 DEF Mapping, Scanned, PoolSize, Enough
      <4>3. QED
        BY <2>4, <4>2
    <3>2. CASE job.old # 0
      <4>1. Cardinality(Good) = PoolLba + 1
        BY <2>2, <2>4 DEF PoolSize
      <4>2. job.l \in Nat /\ job.l < Cardinality(Good)
        BY <1>1, <2>2, <4>1 DEF Logical
      <4>3. job.old = Nth(Good, job.l)
        BY <1>1, <2>4 DEF Lone, Mapping
      <4>4. job.old \in Good
        BY <2>1, <4>2, <4>3, NthFacts
      <4>5. Cardinality(Good') < Cardinality(Good)
        BY <1>1, <1>3, <3>2, <4>4, ScanLoses
      <4>6. QED
        BY <2>2, <4>1, <4>5
    <3>3. QED
      BY <3>1, <3>2
  <2>5. QED
    BY <2>3, <2>4 DEF Lone
<1>4. QED
  BY <1>2, <1>3

\* What is copied to an erased block from one that holds a block's data holds it too.
LEMMA CopyWhole ==
  ASSUME BmtTypeOK, NEW new \in Phys, NEW k \in Int, NEW gone, NEW l, NEW n \in Int, n <= k,
         Left(new, gone) = Blank, Whole(flash[job.old], l, n)
  PROVE  Whole(Copy(new, k, FALSE, gone), l, n)
<1>1. \A p \in Pages : /\ p \in Int
                       /\ Left(new, gone)[p] = None
  BY DEF Blank, Pages
<1>2. \A v : Over(None, v) = v
  BY DEF Over
<1>3. \A p \in Pages :
        Copy(new, k, FALSE, gone)[p] = IF p < k THEN flash[job.old][p] ELSE None
  BY <1>1, <1>2 DEF Copy
<1>4. ASSUME NEW p \in Pages
      PROVE  /\ p < n => Copy(new, k, FALSE, gone)[p] = l
             /\ p = n => Copy(new, k, FALSE, gone)[p] \in {None, Half}
             /\ p > n => Copy(new, k, FALSE, gone)[p] = None
  <2>1. /\ p < n => flash[job.old][p] = l
        /\ p = n => flash[job.old][p] \in {None, Half}
        /\ p > n => flash[job.old][p] = None
    BY DEF Whole
  <2>2. p < n => p < k
    BY <1>1
  <2>3. QED
    BY <1>3, <2>1, <2>2
<1>5. QED
  BY <1>4 DEF Whole

\* A replacement leads to the new block, with the old data: what the table
\* in the flash leads to is still there too.
LEMMA RemapIntact ==
  ASSUME IntactInv, RemapRefused \/ Remap \/ RemapBeyond
  PROVE  IntactInv'
<1>1. BmtInv /\ BmtInv'
  BY RemapInv DEF IntactInv
<1>2. FlashOK /\ TblOK /\ StepOK /\ HistoryOK
  BY <1>1, TypeParts DEF BmtInv
<1>3. CASE RemapRefused
  <2>1. /\ step = "remap" /\ step' = "idle"
        /\ UNCHANGED <<flash, table, bbTbl, bmtTbl, blkIdx, written, hurt, raw, why>> /\ Tables' = Tables
    BY <1>3 DEF RemapRefused, Returns, tblVars, Tables
  <2>2. Copying' /\ Fresh'
    BY <2>1 DEF Copying, Fresh
  <2>3. ASSUME why = {} PROVE (Running' => Kept(bbTbl)') /\ Recorded'
    <3>1. PICK b \in Phys : Settled(b) \/ Lone(b)
      BY <2>1, <2>3 DEF IntactInv, Recorded, Unwritten, Rewriting
    <3>2. Settled(b) => Settled(b)'
      BY <2>1 DEF Settled, Kept, Indexed
    <3>3. Lone(b) => Lone(b)'
      <4>1. SUFFICES ASSUME Lone(b) PROVE Lone(b)'
        OBVIOUS
      <4>2. marked' = marked \/ marked' = marked \cup {job.old}
        BY <1>3 DEF RemapRefused, Returns
      <4>3. job.old = bbTbl[job.l]
        BY <2>1 DEF IntactInv, Copying
      <4>4. \/ Cardinality(Good') <= PoolLba
            \/ Enough' /\ PoolSize' = 1 /\ Mapping' = table[b].bb /\ Scanned[0].block' = b
        BY <1>1, <2>1, <4>1, <4>2, <4>3, LoneMarked
      <4>5. QED
        BY <2>1, <4>1, <4>4 DEF Lone, Kept
    <3>4. Kept(bbTbl)'
      BY <2>1, <2>3 DEF IntactInv, Running, Kept
    <3>5. QED
      BY <3>1, <3>2, <3>3, <3>4 DEF Recorded
  <2>4. QED
    BY <1>1, <2>1, <2>2, <2>3 DEF IntactInv
<1>4. CASE RemapBeyond
  <2>1. /\ step = "remap" /\ step' = "beyond"
        /\ UNCHANGED <<flash, table, written, hurt, raw, why>> /\ Tables' = Tables
    BY <1>4 DEF RemapBeyond, flashVars, Tables
  <2>2. Copying' /\ Fresh'
    BY <2>1 DEF Copying, Fresh
  <2>3. ASSUME why = {} PROVE (Running' => Kept(bbTbl)') /\ Recorded'
    <3>1. PICK b \in Phys : Settled(b)
      BY <1>4, <2>1, <2>3, LoneRefuses DEF IntactInv, Recorded, Unwritten, Rewriting
    <3>2. Settled(b)'
      BY <2>1, <3>1 DEF Settled, Kept, Indexed
    <3>3. QED
      BY <2>1, <3>2 DEF Recorded, Running
  <2>4. QED
    BY <1>1, <2>1, <2>2, <2>3 DEF IntactInv
<1>5. CASE Remap
  <2> DEFINE new(i) == bmtTbl[i].block
  <2>1. PICK i \in Available, k \in 0..job.len, torn \in BOOLEAN, gone \in SUBSET Pages :
          RemapTo(i, k, torn, gone)
    BY <1>5 DEF Remap
  <2>2. /\ step = "remap" /\ blkIdx # Gone
        /\ torn => k < job.len
        /\ bmtTbl' = [bmtTbl EXCEPT ![i].mapped = "used"]
        /\ bbTbl' = [bbTbl EXCEPT ![job.l] = new(i)]
        /\ flash' = [flash EXCEPT ![new(i)] = Copy(new(i), k, torn, gone)]
        /\ hurt' = IF k < job.len THEN hurt \cup {job.l} ELSE hurt
        /\ raw' = IF Left(new(i), gone) = Blank THEN raw ELSE raw \cup {job.l}
        /\ step' = "upload"
        /\ job' = [job EXCEPT !.n = blkIdx]
        /\ UNCHANGED <<marked, blkIdx, written, why>>
    BY <2>1 DEF RemapTo
  <2>3. PICK t : /\ t \in {NoTable} \cup Remains(new(i))
                 /\ table' = [table EXCEPT ![new(i)] = t]
    BY <2>1 DEF RemapTo
  <2>4. /\ i \in Entries /\ new(i) \in Phys /\ new(i) # 0 /\ bmtTbl[i].mapped = "free"
        /\ job.l \in Logical /\ job.old \in Phys /\ k \in Int /\ job.len \in Int
        /\ written[job.l] \in Nat /\ BlkPages \in Nat
        /\ job'.l = job.l /\ job'.op = job.op /\ job'.n = blkIdx
    BY <1>2, <2>2, BmtAssumption DEF Available, TblOK, PoolType, StepOK, JobType, HistoryOK
  <2> HIDE DEF new
  <2>5. \A m \in Logical : bbTbl[m] # new(i) /\ bbTbl[m] \in Phys
    BY <1>1, <1>2, <2>4 DEF BmtInv, Sound, TblOK, MapsType, new
  <2>6. /\ bbTbl'[job.l] = new(i) /\ \A m \in Logical : m # job.l => bbTbl'[m] = bbTbl[m]
        /\ flash'[new(i)] = Copy(new(i), k, torn, gone)
        /\ \A m \in Logical : flash'[bbTbl[m]] = flash[bbTbl[m]]
    BY <1>2, <2>2, <2>4, <2>5 DEF FlashOK, FlashType, TblOK, MapsType
  <2>7. Copying'
    BY <2>2 DEF Copying
  <2>8. /\ job.old = bbTbl[job.l]
        /\ written[job.l] <= job.len \/ job.l \in raw
        /\ job.op = "write" => job.len = written[job.l] /\ written[job.l] < BlkPages
        /\ hurt \subseteq hurt' /\ raw \subseteq raw'
    BY <2>2 DEF IntactInv, Copying
  <2>9. job.l \notin hurt' \cup raw' =>
          /\ k = job.len /\ torn = FALSE /\ Left(new(i), gone) = Blank
          /\ written[job.l] \in Int /\ written[job.l] <= k
    BY <2>2, <2>4, <2>8
  <2>10. Fresh'
    <3>1. SUFFICES ASSUME job.op = "write", job.l \notin hurt' \cup raw'
                   PROVE  written[job.l] < BlkPages /\ flash'[bbTbl'[job.l]][written[job.l]] = None
      BY <2>2, <2>4 DEF Fresh, Target
    <3>2. /\ written[job.l] = k /\ written[job.l] < BlkPages
          /\ torn = FALSE /\ Left(new(i), gone) = Blank
      BY <2>8, <2>9, <3>1
    <3>3. k \in Pages /\ ~(k < k)
      BY <2>4, <3>2 DEF Pages
    <3>4. Copy(new(i), k, torn, gone)[k] = Left(new(i), gone)[k]
      BY <3>2, <3>3 DEF Copy
    <3>5. QED
      BY <2>6, <3>2, <3>3, <3>4 DEF Blank
  <2>11. ASSUME why = {} PROVE (Running' => Kept(bbTbl)') /\ Recorded'
    <3>1. PICK b \in Phys : Settled(b)
      BY <1>5, <2>2, <2>11, LoneRefuses DEF IntactInv, Recorded, Unwritten, Rewriting
    <3>2. /\ bbTbl = table[b].bb /\ bmtTbl = table[b].bmt /\ blkIdx = BmtIndex(bmtTbl)
          /\ Kept(bbTbl) /\ Tables = {b} /\ Indexed(bmtTbl, b) /\ table[b].sig = "whole"
      BY <2>2, <3>1 DEF Settled
    <3>3. b # new(i)
      <4>1. bmtTbl[BmtIndex(bmtTbl)].mapped = "bmt" /\ BmtIndex(bmtTbl) \in Entries
        BY <1>2, <3>2, IndexFacts DEF Indexed, TblOK
      <4>2. bmtTbl[i].block # 0 /\ bmtTbl[BmtIndex(bmtTbl)].block = b
        BY <2>4, <3>2 DEF Indexed, new
      <4>3. i # BmtIndex(bmtTbl)
        BY <2>4, <4>1
      <4>4. QED
        BY <1>1, <2>4, <4>1, <4>2, <4>3 DEF BmtInv, Sound, new
    <3>4. table'[b] = table[b] /\ Tables' = {b}
      <4>1. NoTable.sig = "none"
        BY DEF NoTable, Unsigned
      <4>2. new(i) >= PoolLba => t.sig = "none"
        BY <1>2, <2>3, <2>4, <3>2, <3>3, <4>1, RemainsType DEF FlashOK, Tables
      <4>3. /\ table'[b] = table[b] /\ table'[new(i)] = t
            /\ \A c \in Phys : c # new(i) => table'[c] = table[c]
        BY <1>2, <2>3, <2>4, <3>3 DEF FlashOK
      <4>4. QED
        BY <3>2, <3>3, <4>2, <4>3 DEF Tables
    <3>5. Kept(table[b].bb)'
      BY <2>2, <2>6, <2>8, <3>2, <3>4 DEF Kept
    <3>6. Kept(bbTbl)'
      <4>1. SUFFICES ASSUME NEW m \in Logical, m \notin hurt' \cup raw'
                     PROVE  Whole(flash'[bbTbl'[m]], m, written[m])
        BY <2>2 DEF Kept
      <4>2. Whole(flash[bbTbl[m]], m, written[m])
        BY <2>8, <3>2, <4>1 DEF Kept
      <4>3. CASE m # job.l
        BY <2>6, <4>2, <4>3
      <4>4. CASE m = job.l
        <5>1. /\ torn = FALSE /\ Left(new(i), gone) = Blank
              /\ written[m] \in Int /\ written[m] <= k
          BY <2>9, <4>1, <4>4
        <5>2. Whole(flash[job.old], m, written[m])
          BY <2>8, <4>2, <4>4
        <5>3. BmtTypeOK
          BY <1>1 DEF BmtInv
        <5>4. Whole(Copy(new(i), k, FALSE, gone), m, written[m])
          BY <2>4, <5>1, <5>2, <5>3, CopyWhole
        <5>5. QED
          BY <2>6, <4>4, <5>1, <5>4
      <4>5. QED
        BY <4>3, <4>4
    <3>7. BmtIndex(bmtTbl') = BmtIndex(bmtTbl)
      BY <1>2, <2>2, <2>4, IndexKept DEF TblOK
    <3>8. bmtTbl'[BmtIndex(bmtTbl)].block = b
      <4>1. \A j \in Entries : bmtTbl'[j].block = bmtTbl[j].block
        BY <1>2, <2>2, <2>4 DEF TblOK, PoolType
      <4>2. BmtIndex(bmtTbl) \in Entries
        BY <1>2, IndexFacts DEF TblOK
      <4>3. QED
        BY <3>2, <4>1, <4>2 DEF Indexed
    <3>9. Indexed(bmtTbl, b)'
      BY <3>2, <3>7, <3>8 DEF Indexed
    <3>10. Indexed(table[b].bmt, b)'
      BY <3>2, <3>4 DEF Indexed
    <3>11. Settled(b)'
      BY <2>2, <2>4, <3>2, <3>4, <3>5, <3>7, <3>9, <3>10 DEF Settled
    <3>12. QED
      BY <3>6, <3>11 DEF Recorded
  <2>12. QED
    BY <1>1, <2>2, <2>7, <2>10, <2>11 DEF IntactInv
<1>6. QED
  BY <1>3, <1>4, <1>5

\* Where the table is written, as long as nothing has failed: where it was found, or
\* where the scan has put it.
LEMMA UploadReady ==
  ASSUME IntactInv, why = {}, step \in {"upload", "program"}
  PROVE  /\ Kept(bbTbl) /\ Ready
         /\ step = "upload" => Tables \subseteq {Place}
         /\ step = "program" => Tables = {}
         /\ job.n \in Entries /\ Place \in Phys /\ Place >= PoolLba
         /\ bmtTbl[job.n].mapped = "bmt" /\ bmtTbl[job.n].block # 0
         /\ ~UploadFails
<1>1. FlashOK /\ TblOK
  BY TypeParts DEF IntactInv, BmtInv
<1>2. Kept(bbTbl) /\ Recorded
  BY DEF IntactInv, Running
<1>3. ASSUME LoneTables
      PROVE  /\ job.n \in Entries /\ Place \in Phys /\ Place >= PoolLba
             /\ bmtTbl[job.n].mapped = "bmt" /\ bmtTbl[job.n].block # 0
  <2>1. job.n = PoolSize - 1 /\ bmtTbl = Scanned /\ Enough
    BY <1>3 DEF LoneTables
  <2>2. job.n \in Entries
    BY <1>1, <2>1, ScanType DEF FlashOK
  <2>3. QED
    BY <1>1, <2>1, <2>2, ScanIndexed DEF FlashOK, TblOK, PoolType, Place
<1>4. ASSUME job.n = BmtIndex(bmtTbl), BmtIndex(bmtTbl) # 0
      PROVE  /\ job.n \in Entries /\ Place \in Phys
             /\ bmtTbl[job.n].mapped = "bmt" /\ bmtTbl[job.n].block # 0
  <2>1. /\ BmtIndex(bmtTbl) \in Entries /\ bmtTbl[BmtIndex(bmtTbl)].mapped = "bmt"
        /\ \A j \in Entries : j <= BmtIndex(bmtTbl) => bmtTbl[j].block # 0
    BY <1>1, <1>4, IndexFacts DEF TblOK
  <2>2. BmtIndex(bmtTbl) <= BmtIndex(bmtTbl)
    BY <2>1 DEF Entries
  <2>3. QED
    BY <1>1, <1>4, <2>1, <2>2 DEF TblOK, PoolType, Place
<1>5. /\ Ready
      /\ step = "upload" => Tables \subseteq {Place}
      /\ step = "program" => Tables = {}
  <2>1. CASE Unwritten \/ Rewriting
    BY <2>1 DEF Unwritten, Rewriting
  <2>2. CASE \E b \in Phys : Settled(b)
    <3>1. PICK b \in Phys : Settled(b)
      BY <2>2
    <3>2. step = "upload" /\ Tables = {b} /\ job.n = BmtIndex(bmtTbl) /\ Indexed(bmtTbl, b)
      BY <3>1 DEF Settled
    <3>3. b >= PoolLba
      BY <3>2 DEF Tables
    <3>4. Place = b
      BY <3>2 DEF Indexed, Place
    <3>5. QED
      BY <3>2, <3>3, <3>4 DEF Ready
  <2>3. CASE \E b \in Phys : Lone(b)
    <3>1. PICK b \in Phys : Lone(b)
      BY <2>3
    <3>2. step = "upload" /\ Tables = {b} /\ LoneTables
      BY <3>1 DEF Lone
    <3>3. ~(Cardinality(Good) <= PoolLba)
      <4>1. Good \in SUBSET Phys
        BY DEF Good
      <4>2. Cardinality(Good) \in Nat /\ PoolLba \in Nat
        BY <4>1, BlocksFinite, BmtAssumption
      <4>3. QED
        BY <3>2, <4>2 DEF LoneTables, PoolSize
    <3>4. Place = b
      BY <3>1, <3>2, <3>3 DEF Lone, LoneTables, Place
    <3>5. QED
      BY <3>2, <3>4 DEF Ready
  <2>4. QED
    BY <1>2, <2>1, <2>2, <2>3 DEF Recorded
<1>6. /\ job.n \in Entries /\ Place \in Phys /\ Place >= PoolLba
      /\ bmtTbl[job.n].mapped = "bmt" /\ bmtTbl[job.n].block # 0
  BY <1>3, <1>4, <1>5 DEF Ready, Indexed
<1>7. ~UploadFails
  <2>1. job.n >= 0
    BY <1>6 DEF Entries
  <2>2. QED
    BY <1>6, <2>1 DEF UploadFails, PlaceLeft
<1>8. QED
  BY <1>2, <1>5, <1>6, <1>7

\* The table is written where nothing is mapped: the data stays.
LEMMA UploadApart ==
  ASSUME BmtInv,
         UploadErase \/ UploadEraseFails \/ UploadProgram \/ UploadProgramFails \/ UploadFails
  PROVE  \A l \in Logical : bbTbl'[l] = bbTbl[l] /\ flash'[bbTbl[l]] = flash[bbTbl[l]]
<1>1. FlashOK /\ TblOK /\ StepOK
  BY TypeParts DEF BmtInv
<1>2. CASE UploadFails
  BY <1>2 DEF UploadFails
<1>3. CASE UploadErase \/ UploadEraseFails \/ UploadProgram \/ UploadProgramFails
  <2>1. step \in {"upload", "program"} /\ PlaceLeft
    BY <1>3 DEF UploadErase, UploadEraseFails, UploadProgram, UploadProgramFails, BmtInv
  <2>2. job.n \in Entries /\ bmtTbl[job.n].block # 0
    <3>1. job.n \in Entries
      BY <1>1, <2>1, Numbers DEF PlaceLeft, StepOK, JobType
    <3>2. job.n <= job.n
      BY <3>1 DEF Entries
    <3>3. QED
      BY <2>1, <3>1, <3>2 DEF BmtInv, Filled
  <2>3. /\ \A l \in Logical : bbTbl[l] \in Phys
        /\ \A l \in Logical : bbTbl[l] # Place
    <3>1. \A l \in Logical : bbTbl[l] \in Phys
      BY <1>1 DEF TblOK, MapsType
    <3>2. Sound(bbTbl, bmtTbl)
      BY DEF BmtInv
    <3>3. QED
      BY <2>1, <2>2, <3>1, <3>2 DEF Sound, Place, PlaceLeft
  <2>4. bbTbl' = bbTbl /\ \A c \in Phys : c # Place => flash'[c] = flash[c]
    <3>1. flash \in FlashType
      BY <1>1 DEF FlashOK
    <3>2. CASE UploadErase
      BY <3>1, <3>2 DEF UploadErase, FlashType, tblVars
    <3>3. CASE UploadEraseFails
      BY <3>1, <3>3 DEF UploadEraseFails, FlashType, NextPlace
    <3>4. CASE UploadProgram
      BY <3>1, <3>4 DEF UploadProgram, FlashType, Tabled
    <3>5. CASE UploadProgramFails
      BY <3>1, <3>5 DEF UploadProgramFails, FlashType, Tabled, NextPlace
    <3>6. QED
      BY <1>3, <3>2, <3>3, <3>4, <3>5
  <2>5. QED
    BY <2>3, <2>4
<1>4. QED
  BY <1>2, <1>3

\* The table is erased where it was found and written there again, unless
\* something fails.
LEMMA UploadIntact ==
  ASSUME IntactInv,
         UploadErase \/ UploadEraseFails \/ UploadProgram \/ UploadProgramFails \/ UploadFails
  PROVE  IntactInv'
<1>1. BmtInv /\ BmtInv'
  BY UploadInv DEF IntactInv
<1>2. FlashOK /\ TblOK /\ StepOK /\ HistoryOK
  BY <1>1, TypeParts DEF BmtInv
<1>3. Copying' /\ Fresh' /\ step \in {"upload", "program"}
  <2>1. /\ step \in {"upload", "program"} /\ step' # "remap"
        /\ UNCHANGED <<written, hurt, raw>>
    BY DEF UploadErase, UploadEraseFails, UploadProgram, UploadProgramFails, UploadFails,
           NextPlace, Returns
  <2>2. step' \in {"upload", "program", "again"} => job'.op = job.op /\ job'.l = job.l
    BY <1>2 DEF UploadErase, UploadEraseFails, UploadProgram, UploadProgramFails, UploadFails,
                NextPlace, Returns, StepOK, JobType
  <2>3. job.l \in Logical
    BY <1>2 DEF StepOK, JobType
  <2>4. flash'[bbTbl'[job.l]] = flash[bbTbl[job.l]]
    BY <1>1, <2>3, UploadApart
  <2>5. Fresh'
    BY <2>1, <2>2, <2>4 DEF IntactInv, Fresh, Target
  <2>6. QED
    BY <2>1, <2>5 DEF Copying
<1>4. CASE UploadEraseFails \/ UploadProgramFails
  <2>1. why' # {}
    BY <1>4 DEF UploadEraseFails, UploadProgramFails, NextPlace
  <2>2. QED
    BY <1>1, <1>3, <2>1 DEF IntactInv
<1>5. ASSUME ~(UploadEraseFails \/ UploadProgramFails), why = {}
      PROVE  (Running' => Kept(bbTbl)') /\ Recorded'
  <2>1. UploadErase \/ UploadProgram \/ UploadFails
    BY <1>5
  <2>2. /\ Kept(bbTbl) /\ Ready
        /\ step = "upload" => Tables \subseteq {Place}
        /\ step = "program" => Tables = {}
    BY <1>3, <1>5, UploadReady
  <2>3. /\ job.n \in Entries /\ Place \in Phys /\ Place >= PoolLba
        /\ bmtTbl[job.n].mapped = "bmt" /\ bmtTbl[job.n].block # 0
    BY <1>3, <1>5, UploadReady
  <2>4. ~UploadFails
    BY <1>3, <1>5, UploadReady
  <2>5. CASE UploadErase
    <3>1. /\ step = "upload" /\ step' = "program"
          /\ UNCHANGED <<marked, bbTbl, bmtTbl, blkIdx, job, written, hurt, raw>>
          /\ table' = [table EXCEPT ![Place] = NoTable]
      BY <2>5 DEF UploadErase, tblVars
    <3>3. Kept(bbTbl)'
      BY <1>1, <2>2, <3>1, UploadApart DEF Kept
    <3>4. Tables' = {}
      <4>1. table'[Place].sig = "none" /\ \A c \in Phys : c # Place => table'[c] = table[c]
        BY <1>2, <2>3, <3>1 DEF FlashOK, NoTable, Unsigned
      <4>2. QED
        BY <2>2, <3>1, <4>1 DEF Tables
    <3>5. Place' = Place
      BY <3>1 DEF Place
    <3>6. Rewriting'
      BY <2>2, <3>1, <3>4, <3>5, ScanSame DEF Rewriting, Ready, LoneTables, Indexed
    <3>7. QED
      BY <3>3, <3>6 DEF Recorded
  <2>6. CASE UploadProgram
    <3>1. /\ step = "program" /\ step' \in {"again", "idle"} /\ blkIdx' = job.n
          /\ table' = [table EXCEPT ![Place] = [sig |-> "whole", bb |-> bbTbl, bmt |-> bmtTbl]]
          /\ UNCHANGED <<bbTbl, bmtTbl, written, hurt, raw>>
      BY <2>6 DEF UploadProgram, Returns, Tabled
    <3>2. /\ table'[Place] = [sig |-> "whole", bb |-> bbTbl, bmt |-> bmtTbl]
          /\ \A c \in Phys : c # Place => table'[c] = table[c]
      BY <1>2, <2>3, <3>1 DEF FlashOK
    <3>3. Tables' = {Place}
      <4>1. table'[Place].sig # "none"
        BY <3>2
      <4>2. QED
        BY <2>2, <2>3, <3>1, <3>2, <4>1 DEF Tables
    <3>4. Kept(bbTbl)'
      BY <1>1, <2>2, <3>1, <2>6, UploadApart DEF Kept
    <3>5. PICK b \in Phys : b = Place
      BY <2>3
    <3>6. /\ table'[b].sig = "whole" /\ table'[b].bb = bbTbl /\ table'[b].bmt = bmtTbl
      BY <3>2, <3>5
    <3>7. Kept(table[b].bb)'
      BY <3>1, <3>4, <3>6 DEF Kept
    <3>8. CASE job.n = BmtIndex(bmtTbl) /\ Indexed(bmtTbl, Place)
      <4>1. Indexed(table[b].bmt, b)'
        BY <3>5, <3>6, <3>8 DEF Indexed
      <4>2. Settled(b)'
        BY <3>1, <3>3, <3>5, <3>6, <3>7, <3>8, <4>1 DEF Settled
      <4>3. QED
        BY <3>4, <4>2 DEF Recorded
    <3>9. CASE LoneTables
      <4>1. marked' = marked /\ step' = "idle"
        BY <2>6, <3>9 DEF LoneTables, UploadProgram, Returns
      <4>2. BmtIndex(bmtTbl) = 0
        BY <1>2, <3>9, ScanIndexed DEF LoneTables, FlashOK
      <4>3. Place = Scanned[0].block
        BY <3>9 DEF LoneTables, Place
      <4>4. Enough' /\ PoolSize' = 1 /\ Mapping' = bbTbl /\ Scanned[0].block' = Place
        BY <3>9, <4>1, <4>3, ScanSame DEF LoneTables
      <4>5. blkIdx' = 0
        BY <3>1, <3>9 DEF LoneTables
      <4>6. \A l \in Logical : table'[b].bb[l] # b
        BY <1>1, <2>3, <3>5, <3>6 DEF BmtInv, Sound, Place
      <4>7. Lone(b)'
        BY <3>1, <3>3, <3>5, <3>6, <3>7, <4>1, <4>2, <4>4, <4>5, <4>6 DEF Lone
      <4>8. QED
        BY <3>4, <4>7 DEF Recorded
    <3>10. QED
      BY <2>2, <3>8, <3>9 DEF Ready
  <2>7. QED
    BY <2>1, <2>4, <2>5, <2>6
<1>6. ASSUME ~(UploadEraseFails \/ UploadProgramFails) PROVE why' = why
  BY <1>6 DEF UploadErase, UploadProgram, UploadFails
<1>7. QED
  BY <1>1, <1>3, <1>4, <1>5, <1>6 DEF IntactInv

\* What a scan makes is ready to be written.
LEMMA ScanReady ==
  ASSUME marked \subseteq Phys, Enough, Rescan, marked' = marked
  PROVE  step' = "upload" /\ Ready'
<1>1. /\ bbTbl' = Mapping /\ bmtTbl' = Scanned /\ step' = "upload"
      /\ job'.op = "init" /\ job'.n = PoolSize - 1
  BY DEF Rescan, NoJob
<1>2. Place' = Scanned[PoolSize - 1].block
  BY <1>1 DEF Place
<1>3. PoolSize \in Nat /\ PoolSize > 0
  BY ScanType DEF Enough
<1>4. CASE PoolSize = 1
  <2>1. LoneTables'
    BY <1>1, <1>4, ScanSame DEF LoneTables
  <2>2. QED
    BY <1>1, <2>1 DEF Ready
<1>5. CASE PoolSize # 1
  <2>1. PoolSize - 1 # 0
    BY <1>3, <1>5
  <2>2. /\ BmtIndex(bmtTbl') = PoolSize - 1 /\ Place' >= PoolLba
    BY <1>1, <1>2, ScanIndexed
  <2>3. Indexed(bmtTbl, Place)'
    BY <1>1, <1>2, <2>1, <2>2 DEF Indexed
  <2>4. QED
    BY <1>1, <2>2, <2>3 DEF Ready
<1>6. QED
  BY <1>4, <1>5

\* With a pool of one block a scan makes the mapping there was.
LEMMA LoneAgain ==
  ASSUME marked \subseteq Phys, NEW b \in Phys, Lone(b), Enough, Rescan, marked' = marked
  PROVE  step' = "upload" /\ LoneTables' /\ bbTbl' = table[b].bb
<1>1. ~(Cardinality(Good) <= PoolLba)
  <2>1. Good \in SUBSET Phys
    BY DEF Good
  <2>2. Cardinality(Good) \in Nat /\ PoolLba \in Nat
    BY <2>1, BlocksFinite, BmtAssumption
  <2>3. QED
    BY <2>2 DEF Enough, PoolSize
<1>2. PoolSize = 1 /\ Mapping = table[b].bb
  BY <1>1 DEF Lone
<1>3. /\ bbTbl' = Mapping /\ bmtTbl' = Scanned /\ step' = "upload"
      /\ job'.op = "init" /\ job'.n = 0
  <2>1. PoolSize - 1 = 0
    BY <1>2
  <2>2. /\ bbTbl' = Mapping /\ bmtTbl' = Scanned /\ step' = "upload"
        /\ job' = [NoJob EXCEPT !.op = "init", !.n = PoolSize - 1]
    BY DEF Rescan
  <2>3. QED
    BY <2>1, <2>2 DEF NoJob
<1>4. QED
  BY <1>2, <1>3, ScanSame DEF LoneTables

\* A start finds the table where it was left, makes it again, or makes the first one.
LEMMA BootIntact ==
  ASSUME IntactInv, PowerFails \/ Boot
  PROVE  IntactInv'
<1>1. BmtInv /\ BmtInv'
  BY BootInv DEF IntactInv
<1>2. FlashOK /\ TblOK /\ StepOK /\ HistoryOK
  BY <1>1, TypeParts DEF BmtInv
<1>3. CASE PowerFails
  <2>1. step' = "off" /\ UNCHANGED <<marked, written, hurt, raw>> /\ why \subseteq why'
    BY <1>3 DEF PowerFails
  <2>2. Copying' /\ Fresh' /\ ~Running'
    BY <2>1 DEF Copying, Fresh, Running
  <2>3. ASSUME why' = {} PROVE Recorded'
    <3>1. /\ step # "program" /\ table' = table /\ flash' = flash
          /\ why = {} /\ Tables' = Tables
      BY <1>3, <2>3 DEF PowerFails, Tables
    <3>2. CASE Unwritten
      BY <2>1, <3>1, <3>2 DEF Unwritten, Recorded
    <3>3. CASE \E b \in Phys : Settled(b)
      <4>1. PICK b \in Phys : Settled(b)
        BY <3>3
      <4>2. Settled(b)'
        BY <2>1, <3>1, <4>1 DEF Settled, Kept, Indexed
      <4>3. QED
        BY <4>2 DEF Recorded
    <3>4. CASE \E b \in Phys : Lone(b)
      <4>1. PICK b \in Phys : Lone(b)
        BY <3>4
      <4>2. Lone(b)'
        BY <2>1, <3>1, <4>1, ScanSame DEF Lone, Kept
      <4>3. QED
        BY <4>2 DEF Recorded
    <3>5. QED
      BY <3>1, <3>2, <3>3, <3>4 DEF IntactInv, Recorded, Rewriting
  <2>4. QED
    BY <1>1, <2>2, <2>3 DEF IntactInv
<1>4. CASE Boot
  <2>1. PICK skip \in SUBSET Tables :
          /\ step = "off"
          /\ why' = IF skip = {} THEN why ELSE why \cup {"unread"}
          /\ LET left == Tables \ skip IN
             IF left = {} THEN Rescan
             ELSE \/ Load(Foremost(left))
                  \/ LoadTorn(Foremost(left))
                  \/ /\ table[Foremost(left)].sig = "whole"
                     /\ BmtIndex(table[Foremost(left)].bmt) = 0
                     /\ Rescan
          /\ UNCHANGED <<flashVars, written, hurt, raw>>
    BY <1>4, Zenon DEF Boot
  <2>2. Copying' /\ Fresh' /\ Tables' = Tables
    <3>1. step' # "remap" /\ (step' = "upload" => job'.op # "write")
          /\ step' \notin {"program", "again"}
      BY <2>1 DEF Load, LoadTorn, Rescan, NoJob
    <3>2. QED
      BY <2>1, <3>1 DEF Copying, Fresh, Tables, flashVars
  <2>3. ASSUME why' = {} PROVE (Running' => Kept(bbTbl)') /\ Recorded'
    <3>1. skip = {} /\ why = {}
      BY <2>1, <2>3
    <3>2. CASE Unwritten
      <4>1. Rescan
        BY <2>1, <3>1, <3>2 DEF Unwritten
      <4>2. /\ \A l \in Logical : written'[l] = 0
            /\ \A b \in Phys : flash'[b] = Blank
        BY <2>1, <3>2 DEF Unwritten, flashVars
      <4>3. Kept(bbTbl)'
        <5>1. \A l \in Logical : bbTbl'[l] \in Phys
          BY <1>1, TypeParts DEF BmtInv, BmtTypeOK
        <5>2. QED
          BY <4>2, <5>1, BlankWhole DEF Kept
      <4>4. CASE Enough
        <5>1. step' = "upload" /\ Ready'
          BY <1>2, <2>1, <4>1, <4>4, ScanReady DEF FlashOK, flashVars
        <5>2. Unwritten'
          BY <2>2, <3>2, <4>2, <5>1 DEF Unwritten
        <5>3. QED
          BY <4>3, <5>2 DEF Recorded
      <4>5. CASE ~Enough
        <5>1. Unwritten'
          BY <2>1, <2>2, <3>2, <4>1, <4>2, <4>5 DEF Rescan, Unwritten, flashVars
        <5>2. QED
          BY <4>3, <5>1 DEF Recorded
      <4>6. QED
        BY <4>4, <4>5
    <3>3. CASE \E b \in Phys : Settled(b)
      <4>1. PICK b \in Phys : Settled(b)
        BY <3>3
      <4>2. Tables = {b} /\ table[b].sig = "whole" /\ BmtIndex(table[b].bmt) # 0
        BY <4>1 DEF Settled, Indexed
      <4>3. Foremost(Tables \ skip) = b
        <5>1. {b} \in SUBSET Phys /\ {b} # {} /\ Tables \ skip = {b}
          BY <3>1, <4>2
        <5>2. Foremost({b}) \in {b}
          BY <5>1, LastBlock
        <5>3. QED
          BY <5>1, <5>2
      <4>4. Load(b)
        BY <2>1, <3>1, <4>2, <4>3 DEF LoadTorn
      <4>5. /\ bbTbl' = table[b].bb /\ bmtTbl' = table[b].bmt /\ blkIdx' = BmtIndex(table[b].bmt)
            /\ step' = "idle" /\ UNCHANGED <<flash, table, written, hurt, raw>>
        BY <2>1, <4>4 DEF Load, flashVars
      <4>6. Kept(bbTbl)'
        BY <4>1, <4>5 DEF Settled, Kept
      <4>7. Settled(b)'
        BY <2>2, <4>1, <4>5 DEF Settled, Kept, Indexed
      <4>8. QED
        BY <4>6, <4>7 DEF Recorded
    <3>4. CASE \E b \in Phys : Lone(b)
      <4>1. PICK b \in Phys : Lone(b)
        BY <3>4
      <4>2. Tables = {b} /\ table[b].sig = "whole" /\ BmtIndex(table[b].bmt) = 0
        BY <4>1 DEF Lone
      <4>3. Foremost(Tables \ skip) = b
        <5>1. {b} \in SUBSET Phys /\ {b} # {} /\ Tables \ skip = {b}
          BY <3>1, <4>2
        <5>2. Foremost({b}) \in {b}
          BY <5>1, LastBlock
        <5>3. QED
          BY <5>1, <5>2
      <4>4. Rescan
        BY <2>1, <3>1, <4>2, <4>3 DEF LoadTorn, Load
      <4>5. UNCHANGED <<flash, table, marked, written, hurt, raw>>
        BY <2>1 DEF flashVars
      <4>6. CASE Enough
        <5>1. step' = "upload" /\ LoneTables' /\ bbTbl' = table[b].bb
          BY <1>2, <4>1, <4>4, <4>5, <4>6, LoneAgain DEF FlashOK
        <5>2. Lone(b)'
          BY <2>2, <4>1, <4>5, <5>1, ScanSame DEF Lone, Kept
        <5>3. Kept(bbTbl)'
          BY <4>1, <4>5, <5>1 DEF Lone, Kept
        <5>4. QED
          BY <5>2, <5>3 DEF Recorded
      <4>7. CASE ~Enough
        <5>1. step' = "failed"
          BY <4>4, <4>7 DEF Rescan
        <5>2. Lone(b)'
          BY <2>2, <4>1, <4>5, <5>1, ScanSame DEF Lone, Kept
        <5>3. QED
          BY <5>1, <5>2 DEF Recorded, Running
      <4>8. QED
        BY <4>6, <4>7
    <3>5. QED
      BY <2>1, <3>1, <3>2, <3>3, <3>4 DEF IntactInv, Recorded, Rewriting
  <2>4. QED
    BY <1>1, <2>2, <2>3 DEF IntactInv
<1>5. QED
  BY <1>3, <1>4

\* The invariant is one of the state.
LEMMA IntactSame ==
  ASSUME IntactInv, BmtInv',
         UNCHANGED <<flash, table, marked, bbTbl, bmtTbl, blkIdx, step, job,
                     written, hurt, raw, why>>
  PROVE  IntactInv'
<1>1. Tables' = Tables /\ Place' = Place /\ Target(job.l)' = Target(job.l)
  BY DEF Tables, Place, Target
<1>2. /\ \A b \in Phys : Settled(b) => Settled(b)'
      /\ \A b \in Phys : Lone(b) => Lone(b)'
      /\ Ready => Ready'
  BY <1>1, ScanSame DEF Settled, Lone, Ready, LoneTables, Kept, Indexed
<1>3. Recorded => Recorded'
  BY <1>1, <1>2 DEF Recorded, Unwritten, Rewriting
<1>4. Copying' /\ Fresh'
  BY <1>1 DEF IntactInv, Copying, Fresh
<1>5. QED
  BY <1>3, <1>4 DEF IntactInv, Kept, Running

\* Written data, and nothing of the past above it, is found where the mapping says
\* through failures, remaps and power cuts, unless the copy of the block broke off,
\* the block or its replacement could not be erased, or the table's own block has
\* failed, been caught half written or been unreadable.
THEOREM DataSurvives == BmtSpec => []Intact
<1>1. BmtInit => IntactInv
  <2>1. SUFFICES ASSUME BmtInit PROVE IntactInv
    OBVIOUS
  <2>2. BmtInv
    BY <2>1, BmtInitInv
  <2>3. Tables = {} /\ step = "off"
    BY <2>1 DEF BmtInit, Tables, NoTable, Unsigned
  <2>4. Unwritten
    BY <2>1, <2>3 DEF BmtInit, Unwritten
  <2>5. QED
    BY <2>2, <2>3, <2>4 DEF IntactInv, Recorded, Copying, Fresh, Running
<1>2. IntactInv /\ [BmtNext]_bmtVars => IntactInv'
  <2>1. SUFFICES ASSUME IntactInv, [BmtNext]_bmtVars PROVE IntactInv'
    OBVIOUS
  <2>2. CASE BmtNext
    BY <2>1, <2>2, AccessIntact, RemapIntact, UploadIntact, BootIntact, Numbers DEF BmtNext
  <2>3. CASE UNCHANGED bmtVars
    <3>1. BmtInv'
      BY <2>1, <2>3, BmtStepInv DEF IntactInv
    <3>2. /\ UNCHANGED <<flash, table, marked, bbTbl, bmtTbl, blkIdx, step, job,
                     written, hurt, raw, why>>
      BY <2>3 DEF bmtVars, flashVars, tblVars
    <3>3. QED
      BY <2>1, <3>1, <3>2, IntactSame
  <2>4. QED
    BY <2>1, <2>2, <2>3
<1>3. IntactInv => Intact
  <2>1. SUFFICES ASSUME IntactInv, step \in {"idle", "again"}, why = {},
                        NEW l \in Logical \ (hurt \cup raw), NEW p \in Pages
                 PROVE  /\ p < written[l] => flash[bbTbl[l]][p] = l
                        /\ p = written[l] => flash[bbTbl[l]][p] \in {None, Half}
                        /\ p > written[l] => flash[bbTbl[l]][p] = None
    BY DEF Intact
  <2>2. Kept(bbTbl)
    BY <2>1 DEF IntactInv, Running
  <2>3. QED
    BY <2>1, <2>2 DEF Kept, Whole
<1>4. QED
  BY <1>1, <1>2, <1>3, PTL DEF BmtSpec
=============================================================================
