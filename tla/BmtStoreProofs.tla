--------------------------- MODULE BmtStoreProofs --------------------------
(***************************************************************************)
(* The bad block management implements FlashStore: for a flash of any size *)
(* and any number of failures and power cuts, what a reader gets of each   *)
(* block changes as FlashStore says and in no other way.                   *)
(***************************************************************************)
EXTENDS BmtProofs

\* What a reader of block l gets of a page that holds c.
See(c, l) == IF c = l THEN "data" ELSE IF c = None THEN "blank" ELSE "junk"

BeingReplaced == step \in {"upload", "program"} /\ job.op # "init"

\* The tables are not written over the block that is being replaced.
OldApart ==
  BeingReplaced =>
    \A i \in Entries : bmtTbl[i].block # 0 /\ bmtTbl[i].mapped # "used" => job.old # bmtTbl[i].block

\* The new block holds the first k pages of the old one, then perhaps what is left of
\* the write of one page, and nothing else; all that was written, unless the copy
\* has broken off; anything if one of the two could not be erased.
Begins(b, c, l, k, page) == \A p \in Pages :
  See(flash[b][p], l) = IF p < k THEN See(flash[c][p], l) ELSE IF p = k THEN page ELSE "blank"
Copied ==
  BeingReplaced /\ job.l \notin raw =>
    \E k \in 0..BlkPages, page \in {"blank", "junk"} :
      /\ job.l \notin hurt => k >= written[job.l] /\ page = "blank"
      /\ Begins(bbTbl[job.l], job.old, job.l, k, page)

\* A block is replaced for an access, and for a read only after a read has failed.
ReadFailed == step = "remap" => job.op # "init" /\ (job.op = "read" => faults > 0)

\* The stored table is behind the one in memory by the replacement alone, and a
\* scan is only made where there is no table that will be found.
Behind ==
  /\ step = "upload" /\ job.op # "init" =>
       \A b \in Phys : Settled(b) => table[b].bb = [bbTbl EXCEPT ![job.l] = job.old]
  /\ step = "upload" /\ job.op = "init" => \A b \in Phys : ~Settled(b)

StoreInv ==
  /\ IntactInv /\ ReadFailed
  /\ why = {} => OldApart /\ Copied /\ Behind

-----------------------------------------------------------------------------
(* The invariant.                                                          *)

\* The parts of the type invariant the proofs use.
LEMMA StoreTypes ==
  ASSUME BmtInv
  PROVE  /\ FlashOK /\ TblOK /\ StepOK /\ HistoryOK
         /\ \A l \in Logical : /\ bbTbl[l] \in Phys /\ written[l] \in Nat /\ written[l] \in Int
                               /\ written[l] <= BlkPages
                               /\ l # None /\ l # Junk /\ l # Half
         /\ job.l \in Logical /\ job.old \in Phys /\ job.len \in Int /\ job.len <= BlkPages
         /\ BlkPages \in Nat /\ faults \in Nat
         /\ None # Junk /\ None # Half
         /\ \A p \in Pages : p \in Int
<1>1. FlashOK /\ TblOK /\ StepOK /\ HistoryOK
  BY TypeParts DEF BmtInv
<1>2. BlkPages \in Nat /\ \A l \in Logical : l # None /\ l # Junk /\ l # Half
  BY BmtAssumption DEF Logical, None, Junk, Half
<1>3. /\ \A l \in Logical : bbTbl[l] \in Phys /\ written[l] \in 0..BlkPages
      /\ job.l \in Logical /\ job.old \in Phys /\ job.len \in 0..BlkPages
      /\ faults \in 0..MaxFaults
  BY <1>1 DEF TblOK, MapsType, HistoryOK, StepOK, JobType
<1>4. \A p \in Pages : p \in Int
  BY DEF Pages
<1>5. None # Junk /\ None # Half
  BY DEF None, Junk, Half
<1>6. QED
  BY <1>1, <1>2, <1>3, <1>4, <1>5

\* A failure that is counted has happened.
LEMMA FaultCounted ==
  ASSUME faults \in Nat, NEW n \in Nat, Faults(n)
  PROVE  (faults' = faults \/ faults' > 0) /\ (faults > 0 => faults' > 0) /\ (n > 0 => faults' > 0)
BY DEF Faults

\* Accesses keep the invariant: they begin a replacement at most.
LEMMA AccessStore ==
  ASSUME StoreInv, NEW l \in Logical,
         \/ Write(l) \/ WriteFails(l) \/ Erase(l) \/ EraseFails(l)
         \/ ReadFails(l) \/ ReadFlips(l) \/ MarkBad(l) \/ IsBad(l) \/ ReadAgain
  PROVE  StoreInv'
<1>1. IntactInv /\ IntactInv' /\ BmtInv
  BY AccessIntact DEF StoreInv, IntactInv
<1>2. written[l] \in Int /\ BlkPages \in Int /\ faults \in Nat
  BY <1>1, StoreTypes
<1>3. step' \in {"idle", "remap"} /\ ReadFailed'
  <2>1. \A op \in {"none", "read", "write", "erase", "mark"}, n \in Int :
          Replace(op, l, n) => step' = "remap" /\ job'.op = op
    BY DEF Replace
  <2>2. Fault => faults' > 0
    BY <1>2, FaultCounted DEF Fault
  <2>3. QED
    BY <1>2, <2>1, <2>2
    DEF ReadFailed, Write, WriteFails, Erase, EraseFails, ReadFails, ReadFlips, MarkBad, IsBad, ReadAgain
<1>4. ~BeingReplaced' /\ Behind'
  BY <1>3 DEF BeingReplaced, Behind
<1>5. QED
  BY <1>1, <1>3, <1>4 DEF StoreInv, OldApart, Copied

\* A replacement in terms of the pages: the new block, which nobody has, gets the
\* first k pages of the old one.
LEMMA RemapPages ==
  ASSUME StoreInv, Remap
  PROVE  \E new \in Phys, k \in 0..job.len, page \in {"blank", "junk"} :
           /\ step = "remap" /\ step' = "upload" /\ job.op # "init"
           /\ job'.op = job.op /\ job'.l = job.l /\ job'.old = job.old
           /\ job.old = bbTbl[job.l] /\ new # job.old /\ \A m \in Logical : bbTbl[m] # new
           /\ bbTbl' = [bbTbl EXCEPT ![job.l] = new]
           /\ bbTbl'[job.l] = new /\ \A m \in Logical : m # job.l => bbTbl'[m] = bbTbl[m]
           /\ \A b \in Phys : b # new => flash'[b] = flash[b]
           /\ job.l \notin raw' => Begins(new, job.old, job.l, k, page)'
           /\ job.l \notin hurt' => k = job.len /\ page = "blank"
           /\ \A b \in Phys : b # new => table'[b] = table[b]
           /\ \A i \in Entries : bmtTbl[i].block = new => bmtTbl[i].mapped = "free"
           /\ \A i \in Entries : bmtTbl'[i].block # 0 /\ bmtTbl'[i].mapped # "used" =>
                bmtTbl[i].block = bmtTbl'[i].block /\ bmtTbl[i].mapped # "used"
           /\ hurt' \in {hurt, hurt \cup {job.l}} /\ raw' \in {raw, raw \cup {job.l}}
           /\ faults' = faults \/ faults' > 0
           /\ hurt' # hurt \/ raw' # raw => faults' > 0
           /\ faults > 0 => faults' > 0
           /\ UNCHANGED <<written, why>>
<1>1. BmtInv /\ Copying /\ ReadFailed
  BY DEF StoreInv, IntactInv
<1>2. PICK i \in Available, k \in 0..job.len, torn \in BOOLEAN, gone \in SUBSET Pages :
        RemapTo(i, k, torn, gone)
  BY DEF Remap
<1>3. PICK new \in Phys : new = bmtTbl[i].block
  <2>1. i \in Entries
    BY DEF Available
  <2>2. TblOK
    BY <1>1, StoreTypes
  <2>3. QED
    BY <2>1, <2>2 DEF TblOK, PoolType
<1>4. PICK page \in {"blank", "junk"} : page = IF torn THEN "junk" ELSE "blank"
  OBVIOUS
<1>5. /\ step = "remap" /\ blkIdx # Gone
      /\ torn => k < job.len
      /\ Faults((IF gone # Pages THEN 1 ELSE 0)
                  + (IF torn \/ (k < job.len /\ job.op # "read") THEN 1 ELSE 0))
      /\ bmtTbl' = [bmtTbl EXCEPT ![i].mapped = "used"]
      /\ bbTbl' = [bbTbl EXCEPT ![job.l] = new]
      /\ flash' = [flash EXCEPT ![new] = Copy(new, k, torn, gone)]
      /\ \E t : table' = [table EXCEPT ![new] = t]
      /\ hurt' = IF k < job.len THEN hurt \cup {job.l} ELSE hurt
      /\ raw' = IF Left(new, gone) = Blank THEN raw ELSE raw \cup {job.l}
      /\ step' = "upload"
      /\ job' = [job EXCEPT !.n = blkIdx]
      /\ UNCHANGED <<written, why>>
  BY <1>3, <1>2 DEF RemapTo
<1>6. /\ FlashOK /\ TblOK /\ StepOK /\ job.l \in Logical /\ job.old \in Phys /\ faults \in Nat
      /\ (\A m \in Logical : bbTbl[m] \in Phys) /\ job.len \in Int /\ k \in Int
      /\ job.l # Junk /\ job.l # None /\ None # Junk /\ \A p \in Pages : p \in Int
  BY <1>1, StoreTypes
<1>7. i \in Entries /\ new # 0 /\ bmtTbl[i].mapped = "free"
  BY <1>3 DEF Available
<1>8. \A m \in Logical : bbTbl[m] # new
  BY <1>3, <1>1, <1>7 DEF BmtInv, Sound
<1>9. job.op # "init" /\ job.old = bbTbl[job.l] /\ new # job.old
  BY <1>1, <1>5, <1>6, <1>8 DEF Copying, ReadFailed
<1>10. bbTbl'[job.l] = new /\ \A m \in Logical : m # job.l => bbTbl'[m] = bbTbl[m]
  BY <1>5, <1>6 DEF TblOK, MapsType
<1>11. flash'[new] = Copy(new, k, torn, gone) /\ \A b \in Phys : b # new => flash'[b] = flash[b]
  BY <1>5, <1>6, <1>7 DEF FlashOK, FlashType
<1>12. ASSUME job.l \notin raw' PROVE Begins(new, job.old, job.l, k, page)'
  <2>1. Left(new, gone) = Blank
    BY <1>5, <1>12
  <2>2. \A v : Over(None, v) = v
    BY DEF Over
  <2>3. \A p \in Pages : Left(new, gone)[p] = None
    BY <2>1 DEF Blank
  <2>4. \A p \in Pages : flash'[new][p] = IF p < k THEN flash[job.old][p]
                                          ELSE IF p = k /\ torn THEN Junk ELSE None
    BY <1>11, <2>2, <2>3 DEF Copy
  <2>5. flash'[job.old] = flash[job.old]
    BY <1>6, <1>9, <1>11
  <2>6. See(None, job.l) = "blank" /\ See(Junk, job.l) = "junk"
    BY <1>6 DEF See
  <2>7. ASSUME NEW p \in Pages
        PROVE  See(flash'[new][p], job.l) =
                 IF p < k THEN See(flash'[job.old][p], job.l) ELSE IF p = k THEN page ELSE "blank"
    <3>1. CASE p < k
      BY <2>4, <2>5, <3>1
    <3>2. CASE ~(p < k) /\ p = k
      BY <1>4, <1>5, <2>4, <2>6, <3>2
    <3>3. CASE ~(p < k) /\ p # k
      BY <2>4, <2>6, <3>3
    <3>4. QED
      BY <3>1, <3>2, <3>3
  <2>8. job'.l = job.l /\ job'.old = job.old
    BY <1>5, <1>6 DEF StepOK, JobType
  <2>9. QED
    BY <2>7, <2>8 DEF Begins
<1>13. \A b \in Phys : b # new => table'[b] = table[b]
  BY <1>5, <1>6, <1>7 DEF FlashOK
<1>14. \A j \in Entries : bmtTbl'[j].block # 0 /\ bmtTbl'[j].mapped # "used" =>
         bmtTbl[j].block = bmtTbl'[j].block /\ bmtTbl[j].mapped # "used"
  BY <1>5, <1>6, <1>7 DEF TblOK, PoolType
<1>15. /\ faults' = faults \/ faults' > 0
       /\ hurt' # hurt \/ raw' # raw => faults' > 0
       /\ faults > 0 => faults' > 0
  <2> DEFINE n == (IF gone # Pages THEN 1 ELSE 0)
                    + (IF torn \/ (k < job.len /\ job.op # "read") THEN 1 ELSE 0)
  <2>1. n \in Nat /\ (gone # Pages => n > 0) /\ (k < job.len /\ job.op # "read" => n > 0)
    OBVIOUS
  <2>2. Faults(n)
    BY <1>5
  <2> HIDE DEF n
  <2>3. raw' # raw => gone # Pages
    <3>1. gone = Pages => Left(new, gone) = Blank
      BY DEF Left, Blank
    <3>2. QED
      BY <1>5, <3>1
  <2>4. hurt' # hurt => k < job.len
    BY <1>5
  <2>5. job.op = "read" => faults > 0
    BY <1>1, <1>5 DEF ReadFailed
  <2>6. QED
    BY <1>6, <2>1, <2>2, <2>3, <2>4, <2>5, FaultCounted
<1>16. /\ job'.op = job.op /\ job'.l = job.l /\ job'.old = job.old
       /\ job.l \notin hurt' => k = job.len /\ page = "blank"
       /\ hurt' \in {hurt, hurt \cup {job.l}} /\ raw' \in {raw, raw \cup {job.l}}
  BY <1>4, <1>5, <1>6 DEF StepOK, JobType
<1>17. \A j \in Entries : bmtTbl[j].block = new => bmtTbl[j].mapped = "free"
  BY <1>1, <1>3, <1>7 DEF BmtInv, Sound
<1>18. QED
  BY <1>5, <1>8, <1>9, <1>10, <1>11, <1>12, <1>13, <1>14, <1>15, <1>16, <1>17, Zenon

\* A replacement keeps the invariant: the old block stays as it is, and the table in
\* the flash is the one before.
LEMMA RemapStore ==
  ASSUME StoreInv, RemapRefused \/ Remap \/ RemapBeyond
  PROVE  StoreInv'
<1>1. IntactInv /\ IntactInv' /\ BmtInv
  BY RemapIntact DEF StoreInv, IntactInv
<1>2. CASE RemapRefused \/ RemapBeyond
  <2>1. step' \in {"idle", "beyond"}
    BY <1>2 DEF RemapRefused, RemapBeyond, Returns
  <2>2. QED
    BY <1>1, <2>1 DEF StoreInv, OldApart, Copied, BeingReplaced, ReadFailed, Behind
<1>3. CASE Remap
  <2>1. PICK new \in Phys, k \in 0..job.len, page \in {"blank", "junk"} :
           /\ step = "remap" /\ step' = "upload" /\ job.op # "init"
           /\ job'.op = job.op /\ job'.l = job.l /\ job'.old = job.old
           /\ job.old = bbTbl[job.l] /\ new # job.old /\ \A m \in Logical : bbTbl[m] # new
           /\ bbTbl' = [bbTbl EXCEPT ![job.l] = new]
           /\ bbTbl'[job.l] = new
           /\ job.l \notin raw' => Begins(new, job.old, job.l, k, page)'
           /\ job.l \notin hurt' => k = job.len /\ page = "blank"
           /\ \A b \in Phys : b # new => table'[b] = table[b]
           /\ \A i \in Entries : bmtTbl[i].block = new => bmtTbl[i].mapped = "free"
           /\ \A i \in Entries : bmtTbl'[i].block # 0 /\ bmtTbl'[i].mapped # "used" =>
                bmtTbl[i].block = bmtTbl'[i].block /\ bmtTbl[i].mapped # "used"
           /\ raw' \in {raw, raw \cup {job.l}}
           /\ UNCHANGED <<written, why>>
    BY <1>3, RemapPages, Zenon
  <2>2. /\ job.l \in Logical /\ job.old \in Phys /\ job.len \in Int /\ job.len <= BlkPages
        /\ BlkPages \in Nat /\ k \in Nat /\ k <= job.len /\ TblOK
        /\ written[job.l] <= job.len \/ job.l \in raw
    BY <1>1, <2>1, StoreTypes DEF IntactInv, Copying
  <2>3. OldApart'
    <3>1. SUFFICES ASSUME NEW i \in Entries, bmtTbl'[i].block # 0, bmtTbl'[i].mapped # "used"
                   PROVE  job.old # bmtTbl'[i].block
      BY <2>1 DEF OldApart
    <3>2. bmtTbl[i].block = bmtTbl'[i].block /\ bmtTbl[i].mapped # "used"
      BY <2>1, <3>1
    <3>3. QED
      BY <1>1, <2>1, <2>2, <3>1, <3>2 DEF BmtInv, Sound
  <2>4. Copied'
    <3>1. SUFFICES ASSUME job.l \notin raw'
                   PROVE  \E n \in 0..BlkPages, c \in {"blank", "junk"} :
                            /\ job.l \notin hurt' => n >= written'[job.l] /\ c = "blank"
                            /\ Begins(bbTbl[job.l], job.old, job.l, n, c)'
      BY <2>1 DEF Copied
    <3>2. k \in 0..BlkPages
      BY <2>2
    <3>3. job.l \notin hurt' => k >= written'[job.l] /\ page = "blank"
      BY <2>1, <2>2, <3>1
    <3>4. Begins(bbTbl[job.l], job.old, job.l, k, page)'
      BY <2>1, <3>1 DEF Begins
    <3>5. QED
      BY <3>2, <3>3, <3>4
  <2>5. ASSUME why = {}, NEW c \in Phys, Settled(c)'
        PROVE  table'[c].bb = [bbTbl' EXCEPT ![job.l] = job.old]
    <3>1. PICK b \in Phys : Settled(b)
      BY <1>3, <2>1, <2>5, LoneRefuses DEF StoreInv, IntactInv, Recorded, Unwritten, Rewriting
    <3>2. Tables = {b} /\ bbTbl = table[b].bb /\ bmtTbl = table[b].bmt /\ Indexed(bmtTbl, b)
      BY <2>1, <3>1 DEF Settled
    <3>3. b # new
      BY <2>1, <2>2, <3>2, IndexFacts DEF Indexed, TblOK
    <3>4. table'[b] = table[b] /\ b \in Tables'
      BY <2>1, <3>2, <3>3 DEF Tables
    <3>5. c = b
      BY <2>5, <3>4 DEF Settled
    <3>6. [bbTbl' EXCEPT ![job.l] = job.old] = bbTbl
      BY <2>1, <2>2 DEF TblOK, MapsType
    <3>7. QED
      BY <3>2, <3>4, <3>5, <3>6
  <2>6. why' = {} => Behind'
    BY <2>1, <2>5 DEF Behind
  <2>7. ReadFailed'
    BY <2>1 DEF ReadFailed
  <2>8. QED
    BY <1>1, <2>3, <2>4, <2>6, <2>7 DEF StoreInv
<1>4. QED
  BY <1>2, <1>3

\* The block the tables are written to holds no data that is mapped or replaced.
LEMMA PlaceFree ==
  ASSUME StoreInv, why = {}, step \in {"upload", "program"}, PlaceLeft
  PROVE  /\ \A l \in Logical : bbTbl[l] # Place
         /\ job.op # "init" => job.old # Place
<1>1. BmtInv /\ OldApart
  BY DEF StoreInv, IntactInv
<1>2. StepOK
  BY <1>1, StoreTypes
<1>3. job.n \in Entries
  <2>1. job.n \in Entries \cup {-1} /\ job.n >= 0
    BY <1>2 DEF StepOK, JobType, PlaceLeft
  <2>2. ~(-1 >= 0)
    OBVIOUS
  <2>3. QED
    BY <2>1, <2>2
<1>4. bmtTbl[job.n].block # 0 /\ bmtTbl[job.n].mapped # "used"
  <2>1. job.n <= job.n
    BY <1>3 DEF Entries
  <2>2. QED
    BY <1>1, <1>3, <2>1 DEF BmtInv, Filled, PlaceLeft
<1>5. QED
  BY <1>1, <1>3, <1>4 DEF BmtInv, Sound, Place, OldApart, BeingReplaced

\* What an upload that does not fail does to the pages: nothing to any that is read,
\* before the table is written or after.
LEMMA UploadPages ==
  ASSUME StoreInv, why = {}, UploadErase \/ UploadProgram
  PROVE  /\ step \in {"upload", "program"}
         /\ \A l \in Logical : bbTbl'[l] = bbTbl[l] /\ flash'[bbTbl[l]] = flash[bbTbl[l]]
         /\ job.op # "init" => flash'[job.old] = flash[job.old]
         /\ UNCHANGED <<bbTbl, bmtTbl, faults, written, hurt, raw, why>>
<1>1. /\ FlashOK /\ job.old \in Phys /\ \A m \in Logical : bbTbl[m] \in Phys
  BY StoreTypes DEF StoreInv, IntactInv
<1>2. step \in {"upload", "program"} /\ PlaceLeft
  BY DEF UploadErase, UploadProgram, StoreInv, IntactInv, BmtInv
<1>3. UNCHANGED <<bbTbl, bmtTbl, faults, written, hurt, raw, why>>
  BY DEF UploadErase, UploadProgram, tblVars
<1>4. \A b \in Phys : b # Place => flash'[b] = flash[b]
  <2>1. CASE UploadErase
    BY <1>1, <2>1 DEF UploadErase, FlashOK, FlashType
  <2>2. CASE UploadProgram
    BY <1>1, <2>2 DEF UploadProgram, Tabled, FlashOK, FlashType
  <2>3. QED
    BY <2>1, <2>2
<1>5. QED
  BY <1>1, <1>2, <1>3, <1>4, PlaceFree

\* Writing the tables keeps the invariant.
LEMMA UploadStore ==
  ASSUME StoreInv,
         UploadErase \/ UploadEraseFails \/ UploadProgram \/ UploadProgramFails \/ UploadFails
  PROVE  StoreInv'
<1>1. IntactInv /\ IntactInv' /\ BmtInv
  BY UploadIntact DEF StoreInv, IntactInv
<1>2. ReadFailed'
  BY DEF UploadErase, UploadEraseFails, UploadProgram, UploadProgramFails, UploadFails, NextPlace,
         Returns, ReadFailed
<1>3. CASE UploadEraseFails \/ UploadProgramFails
  <2>1. why' # {}
    BY <1>3 DEF UploadEraseFails, UploadProgramFails, NextPlace
  <2>2. QED
    BY <1>1, <1>2, <2>1 DEF StoreInv
<1>4. CASE UploadErase
  <2>1. step = "upload" /\ step' = "program" /\ job' = job
    BY <1>4 DEF UploadErase
  <2>2. ASSUME why' = {} PROVE OldApart' /\ Copied' /\ Behind'
    <3>1. /\ UNCHANGED <<bbTbl, bmtTbl, written, hurt, raw, why>>
          /\ \A l \in Logical : flash'[bbTbl[l]] = flash[bbTbl[l]]
          /\ job.op # "init" => flash'[job.old] = flash[job.old]
      <4>1. why = {}
        BY <1>4, <2>2 DEF UploadErase
      <4>2. QED
        BY <1>4, <4>1, UploadPages
    <3>2. job.l \in Logical /\ OldApart /\ Copied
      BY <1>1, <2>2, <3>1, StoreTypes DEF StoreInv
    <3>3. OldApart'
      BY <2>1, <3>1, <3>2 DEF OldApart, BeingReplaced
    <3>4. Copied'
      <4>1. SUFFICES ASSUME job.op # "init", job.l \notin raw
                     PROVE  \E k \in 0..BlkPages, page \in {"blank", "junk"} :
                              /\ job.l \notin hurt => k >= written[job.l] /\ page = "blank"
                              /\ Begins(bbTbl[job.l], job.old, job.l, k, page)'
        BY <2>1, <3>1 DEF Copied, BeingReplaced
      <4>2. PICK k \in 0..BlkPages, page \in {"blank", "junk"} :
              /\ job.l \notin hurt => k >= written[job.l] /\ page = "blank"
              /\ Begins(bbTbl[job.l], job.old, job.l, k, page)
        BY <2>1, <3>2, <4>1 DEF Copied, BeingReplaced
      <4>3. Begins(bbTbl[job.l], job.old, job.l, k, page)'
        BY <2>1, <3>1, <3>2, <4>1, <4>2 DEF Begins
      <4>4. QED
        BY <4>2, <4>3
    <3>5. Behind'
      BY <2>1 DEF Behind
    <3>6. QED
      BY <3>3, <3>4, <3>5
  <2>3. QED
    BY <1>1, <1>2, <2>2 DEF StoreInv
<1>5. CASE UploadProgram \/ UploadFails
  <2>1. step' \in {"idle", "again", "failed"}
    BY <1>5 DEF UploadProgram, UploadFails, Returns
  <2>2. QED
    BY <1>1, <1>2, <2>1 DEF StoreInv, OldApart, Copied, BeingReplaced, Behind
<1>6. QED
  BY <1>3, <1>4, <1>5

\* A start, unless it fails to read a table: there is no data yet, or the table is
\* found, or made again.
LEMMA BootFinds ==
  ASSUME StoreInv, Boot, why' = {}
  PROVE  /\ step = "off" /\ why = {} /\ UNCHANGED <<flash, table, written, hurt, raw, faults>>
         /\ Unwritten \/ \E c \in Phys : (Settled(c) /\ Load(c)) \/ (Lone(c) /\ Rescan)
<1>1. PICK skip \in SUBSET Tables :
        /\ step = "off"
        /\ faults' = faults + Cardinality(skip)
        /\ why' = IF skip = {} THEN why ELSE why \cup {"unread"}
        /\ LET left == Tables \ skip IN
           IF left = {} THEN Rescan
           ELSE \/ Load(Foremost(left))
                \/ LoadTorn(Foremost(left))
                \/ /\ table[Foremost(left)].sig = "whole"
                   /\ BmtIndex(table[Foremost(left)].bmt) = 0
                   /\ Rescan
        /\ UNCHANGED <<flash, table, written, hurt, raw>>
  BY Zenon DEF Boot, Faults, flashVars
<1>2. skip = {} /\ why = {}
  BY <1>1
<1>3. faults' = faults
  <2>1. Cardinality(skip) = 0
    BY <1>2, FS_EmptySet
  <2>2. faults \in Nat
    BY StoreTypes DEF StoreInv, IntactInv
  <2>3. QED
    BY <1>1, <2>1, <2>2
<1>4. ASSUME NEW c \in Phys, Settled(c) PROVE Load(c)
  <2>1. Tables = {c} /\ table[c].sig = "whole" /\ BmtIndex(table[c].bmt) # 0
    BY <1>4 DEF Settled, Indexed
  <2>2. Foremost({c}) = c
    <3>1. {c} \in SUBSET Phys /\ {c} # {}
      OBVIOUS
    <3>2. Foremost({c}) \in {c}
      BY <3>1, LastBlock
    <3>3. QED
      BY <3>2
  <2>3. Tables \ skip = {c}
    BY <1>2, <2>1
  <2>4. QED
    BY <1>1, <2>1, <2>2, <2>3 DEF LoadTorn
<1>5. ASSUME NEW c \in Phys, Lone(c) PROVE Rescan
  <2>1. Tables = {c} /\ table[c].sig = "whole" /\ BmtIndex(table[c].bmt) = 0
    BY <1>5 DEF Lone
  <2>2. Foremost({c}) = c
    <3>1. {c} \in SUBSET Phys /\ {c} # {}
      OBVIOUS
    <3>2. Foremost({c}) \in {c}
      BY <3>1, LastBlock
    <3>3. QED
      BY <3>2
  <2>3. Tables \ skip = {c}
    BY <1>2, <2>1
  <2>4. QED
    BY <1>1, <2>1, <2>2, <2>3 DEF LoadTorn, Load
<1>6. Unwritten \/ \E c \in Phys : Settled(c) \/ Lone(c)
  BY <1>1, <1>2 DEF StoreInv, IntactInv, Recorded, Rewriting
<1>7. QED
  BY <1>1, <1>2, <1>3, <1>4, <1>5, <1>6

\* The power and a start keep the invariant: tables are only made where none is found.
LEMMA BootStore ==
  ASSUME StoreInv, PowerFails \/ Boot
  PROVE  StoreInv'
<1>1. IntactInv /\ IntactInv'
  BY BootIntact DEF StoreInv, IntactInv
<1>2. step' = "upload" => job'.op = "init"
  BY DEF PowerFails, Boot, Load, LoadTorn, Rescan, NoJob
<1>3. step' \notin {"remap", "program"}
  BY DEF PowerFails, Boot, Load, LoadTorn, Rescan
<1>4. ASSUME why' = {}, step' = "upload", NEW b \in Phys PROVE ~Settled(b)'
  <2>1. Boot
    BY <1>4 DEF PowerFails
  <2>2. \A c \in Phys : ~Load(c)
    BY <1>4 DEF Load
  <2>3. table' = table /\ (Unwritten \/ \E c \in Phys : Lone(c))
    BY <1>4, <2>1, <2>2, BootFinds
  <2>4. Tables' = Tables
    BY <2>3 DEF Tables
  <2>5. \A c \in Phys : Lone(c) => Tables = {c} /\ BmtIndex(table[c].bmt) = 0
    BY DEF Lone
  <2>6. Settled(b)' => Tables' = {b} /\ BmtIndex(table'[b].bmt) # 0
    BY DEF Settled, Indexed
  <2>7. QED
    BY <2>3, <2>4, <2>5, <2>6 DEF Unwritten
<1>5. why' = {} => Behind'
  BY <1>2, <1>4 DEF Behind
<1>6. QED
  BY <1>1, <1>2, <1>3, <1>5 DEF StoreInv, OldApart, Copied, BeingReplaced, ReadFailed

-----------------------------------------------------------------------------
(* What a step does to the pages a reader gets.                            *)

\* What is read of a block is what its home holds.
LEMMA ReadsAre ==
  /\ Reads = [l \in Logical |-> [p \in Pages |-> See(flash[Home(l)][p], l)]]
  /\ Reads' = [l \in Logical |-> [p \in Pages |-> See(flash'[Home(l)'][p], l)]]
BY DEF Reads, See

LEMMA ReadsSame ==
  ASSUME \A l \in Logical, p \in Pages : See(flash'[Home(l)'][p], l) = See(flash[Home(l)][p], l)
  PROVE  Reads' = Reads
BY ReadsAre

\* A step that changes what is read of one block.
LEMMA ReadsOfOne ==
  ASSUME NEW l \in Logical, NEW S,
         \A m \in Logical \ {l} : \A p \in Pages :
           See(flash'[Home(m)'][p], m) = See(flash[Home(m)][p], m),
         [p \in Pages |-> See(flash'[Home(l)'][p], l)] = S
  PROVE  Reads' = [Reads EXCEPT ![l] = S]
<1>1. \A m \in Logical : Reads'[m] = IF m = l THEN S ELSE Reads[m]
  <2>1. Reads'[l] = S
    BY ReadsAre
  <2>2. ASSUME NEW m \in Logical \ {l} PROVE Reads'[m] = Reads[m]
    BY <2>2, ReadsAre
  <2>3. QED
    BY <2>1, <2>2
<1>2. Reads = [m \in Logical |-> Reads[m]] /\ Reads' = [m \in Logical |-> Reads'[m]]
  BY ReadsAre
<1>3. [Reads EXCEPT ![l] = S] = [m \in Logical |-> IF m = l THEN S ELSE Reads[m]]
  BY <1>2
<1>4. Reads' = [m \in Logical |-> IF m = l THEN S ELSE Reads[m]]
  BY <1>1, <1>2
<1>5. QED
  BY <1>3, <1>4

\* The pages of the store are those of a block.
LEMMA StorePages ==
  /\ Store!PageNos = Pages /\ Store!Erased = [p \in Pages |-> "blank"]
  /\ \A l \in Logical : Reads[l] \in [Pages -> {"data", "blank", "junk"}]
BY ReadsAre DEF Store!PageNos, Store!Erased, Pages, See

\* The home of a block is a block of the flash.
LEMMA HomeType == BmtInv => \A l \in Logical : Home(l) \in Phys
<1> SUFFICES ASSUME BmtInv, NEW l \in Logical PROVE Home(l) \in Phys
  OBVIOUS
<1>1. bbTbl[l] \in Phys /\ job.old \in Phys /\ FlashOK
  BY StoreTypes
<1>2. Tables # {} => table[Foremost(Tables)].bb[l] \in Phys
  <2>1. SUFFICES ASSUME Tables # {} PROVE table[Foremost(Tables)].bb[l] \in Phys
    OBVIOUS
  <2>2. Foremost(Tables) \in Phys
    <3>1. Tables \in SUBSET Phys
      BY DEF Tables
    <3>2. QED
      BY <2>1, <3>1, LastBlock
  <2>3. QED
    BY <1>1, <2>2 DEF FlashOK, TableType, MapsType
<1>3. QED
  BY <1>1, <1>2 DEF Home

\* Where the homes are, under a table that is settled.
LEMMA HomeSettled ==
  ASSUME StoreInv, why = {}, NEW b \in Phys, Settled(b), NEW l \in Logical
  PROVE  Home(l) = table[b].bb[l]
<1>1. Tables = {b}
  BY DEF Settled
<1>2. Foremost(Tables) = b
  <2>1. {b} \in SUBSET Phys /\ {b} # {}
    OBVIOUS
  <2>2. Foremost({b}) \in {b}
    BY <2>1, LastBlock
  <2>3. QED
    BY <1>1, <2>2
<1>3. BmtInv /\ TblOK /\ StepOK /\ job.l \in Logical
  BY StoreTypes DEF StoreInv, IntactInv
<1>4. CASE ~Running
  BY <1>1, <1>2, <1>4 DEF Home, Replacing, Running
<1>5. CASE step \in {"idle", "again", "remap"}
  BY <1>5 DEF Settled, Home, Replacing, Running
<1>6. CASE step = "upload" /\ job.op = "init"
  BY <1>6 DEF StoreInv, Behind
<1>7. CASE step = "upload" /\ job.op # "init"
  <2>1. table[b].bb = [bbTbl EXCEPT ![job.l] = job.old]
    BY <1>7 DEF StoreInv, Behind
  <2>2. table[b].bb[l] = IF l = job.l THEN job.old ELSE bbTbl[l]
    BY <1>3, <2>1 DEF TblOK, MapsType
  <2>3. QED
    BY <1>7, <2>2 DEF Home, Replacing, Running
<1>8. QED
  BY <1>3, <1>4, <1>5, <1>6, <1>7 DEF Settled, StepOK, Running

\* With a pool of one block they are where the next scan puts them.
LEMMA HomeLone ==
  ASSUME BmtInv, NEW b \in Phys, Lone(b), NEW l \in Logical
  PROVE  Home(l) = table[b].bb[l]
<1>1. Tables = {b} /\ StepOK
  BY StoreTypes DEF Lone
<1>2. Foremost(Tables) = b
  <2>1. {b} \in SUBSET Phys /\ {b} # {}
    OBVIOUS
  <2>2. Foremost({b}) \in {b}
    BY <2>1, LastBlock
  <2>3. QED
    BY <1>1, <2>2
<1>3. CASE ~Running
  BY <1>1, <1>2, <1>3 DEF Home, Replacing, Running
<1>4. CASE step \in {"idle", "again", "remap"}
  BY <1>4 DEF Lone, Home, Replacing, Running
<1>5. CASE step = "upload"
  <2>1. LoneTables
    BY <1>5 DEF Lone
  <2>2. ~(Cardinality(Good) <= PoolLba)
    <3>1. Good \in SUBSET Phys
      BY DEF Good
    <3>2. Cardinality(Good) \in Nat /\ PoolLba \in Nat
      BY <3>1, BlocksFinite, BmtAssumption
    <3>3. QED
      BY <2>1, <3>2 DEF LoneTables, PoolSize
  <2>3. bbTbl = table[b].bb
    BY <2>1, <2>2 DEF Lone, LoneTables
  <2>4. QED
    BY <1>5, <2>1, <2>3 DEF LoneTables, Home, Replacing, Running
<1>6. QED
  BY <1>1, <1>3, <1>4, <1>5 DEF Lone, StepOK, Running

\* A step that changes nothing a user of the flash would see, but may fail.
Keeps == /\ Reads' = Reads /\ UNCHANGED <<written, hurt, raw, why>>
         /\ faults' = faults \/ faults' > 0

\* It is one of FlashStore.
LEMMA KeepsStep ==
  ASSUME Keeps, why = {}
  PROVE  [Store!StoreNext]_(Store!store)
<1>1. CASE faults' = faults
  BY <1>1 DEF Keeps, Store!store
<1>2. CASE faults' > 0
  <2>1. Store!Fail
    BY <1>2 DEF Keeps, Store!Fail
  <2>2. QED
    BY <1>2, <2>1 DEF Keeps, Store!StoreNext, Store!Use
<1>3. QED
  BY <1>1, <1>2 DEF Keeps

\* What a write and an erase do to the pages of the flash.
LEMMA AccessPages ==
  ASSUME BmtInv, NEW l \in Logical, NEW b \in Phys, NEW p \in Pages
  PROVE  /\ Write(l) =>
              flash'[b][p] = IF b = bbTbl[l] /\ p = written[l] THEN Over(Target(l), l)
                             ELSE IF flash[b][p] = l /\ p = written[l] THEN Junk ELSE flash[b][p]
         /\ WriteFails(l) =>
              flash'[b][p] = IF b = bbTbl[l] /\ p = written[l] THEN Half ELSE flash[b][p]
         /\ Erase(l) =>
              flash'[b][p] = IF b = bbTbl[l] THEN None
                             ELSE IF flash[b][p] = l THEN Junk ELSE flash[b][p]
<1>1. /\ FlashOK /\ bbTbl[l] \in Phys /\ written[l] \in Nat /\ BlkPages \in Nat /\ p \in Int
  BY StoreTypes
<1>2. \A ps : Outdated(l, ps)[b][p] = IF flash[b][p] = l /\ p \in ps THEN Junk ELSE flash[b][p]
  BY DEF Outdated
<1>3. \A ps : Outdated(l, ps) \in FlashType
  BY <1>1, OutdatedType DEF FlashOK
<1>4. written[l] < BlkPages => written[l] \in Pages
  BY <1>1 DEF Pages
<1>5. ASSUME Write(l)
      PROVE  flash'[b][p] = IF b = bbTbl[l] /\ p = written[l] THEN Over(Target(l), l)
                            ELSE IF flash[b][p] = l /\ p = written[l] THEN Junk ELSE flash[b][p]
  <2> DEFINE F == Outdated(l, {written[l]})
             v == Over(Target(l), l)
  <2>1. written[l] < BlkPages /\ flash' = [F EXCEPT ![bbTbl[l]][written[l]] = v]
    BY <1>5 DEF Write, Writes
  <2>2. F \in FlashType /\ F[b][p] = IF flash[b][p] = l /\ p = written[l] THEN Junk ELSE flash[b][p]
    BY <1>2, <1>3
  <2> HIDE DEF F, v
  <2>3. flash' = [F EXCEPT ![bbTbl[l]] = [F[bbTbl[l]] EXCEPT ![written[l]] = v]]
    BY <2>1
  <2>4. flash'[b][p] = IF b = bbTbl[l] /\ p = written[l] THEN v ELSE F[b][p]
    BY <1>1, <1>4, <2>1, <2>2, <2>3 DEF FlashType
  <2>5. QED
    BY <2>2, <2>4 DEF v
<1>6. ASSUME WriteFails(l)
      PROVE  flash'[b][p] = IF b = bbTbl[l] /\ p = written[l] THEN Half ELSE flash[b][p]
  <2>1. written[l] < BlkPages /\ flash' = [flash EXCEPT ![bbTbl[l]][written[l]] = Half]
    BY <1>6 DEF WriteFails, Writes
  <2>2. flash' = [flash EXCEPT ![bbTbl[l]] = [flash[bbTbl[l]] EXCEPT ![written[l]] = Half]]
    BY <2>1
  <2>3. QED
    BY <1>1, <1>4, <2>1, <2>2 DEF FlashOK, FlashType
<1>7. ASSUME Erase(l)
      PROVE  flash'[b][p] = IF b = bbTbl[l] THEN None
                            ELSE IF flash[b][p] = l THEN Junk ELSE flash[b][p]
  <2> DEFINE F == Outdated(l, Pages)
  <2>1. flash' = [F EXCEPT ![bbTbl[l]] = Blank]
    BY <1>7 DEF Erase
  <2>2. F \in FlashType /\ F[b][p] = IF flash[b][p] = l THEN Junk ELSE flash[b][p]
    BY <1>2, <1>3
  <2> HIDE DEF F
  <2>3. flash'[b][p] = IF b = bbTbl[l] THEN None ELSE F[b][p]
    BY <1>1, <2>1, <2>2 DEF FlashType, Blank
  <2>4. QED
    BY <2>2, <2>3
<1>8. QED
  BY <1>5, <1>6, <1>7

\* An access writes a page of its block or erases it, fails to, or changes nothing.
LEMMA AccessUses ==
  ASSUME StoreInv, why = {}, NEW l \in Logical,
         \/ Write(l) \/ WriteFails(l) \/ Erase(l) \/ EraseFails(l)
         \/ ReadFails(l) \/ ReadFlips(l) \/ MarkBad(l) \/ IsBad(l) \/ ReadAgain
  PROVE  [Store!StoreNext]_(Store!store)
<1>1. BmtInv
  BY DEF StoreInv, IntactInv
<1>2. /\ faults \in Nat /\ BlkPages \in Nat /\ \A p \in Pages : p \in Int
      /\ \A m \in Logical : bbTbl[m] \in Phys /\ written[m] \in Nat
                            /\ m # None /\ m # Junk /\ m # Half
      /\ None # Junk /\ None # Half /\ FlashOK
  BY <1>1, StoreTypes
<1>3. step \in {"idle", "again"} /\ step' \in {"idle", "remap"} /\ UNCHANGED <<bbTbl, why>>
  <2>1. \A op \in {"none", "read", "write", "erase", "mark"}, n \in Int :
          Replace(op, l, n) => step' = "remap"
    BY DEF Replace
  <2>2. written[l] \in Int /\ BlkPages \in Int
    BY <1>2
  <2>3. QED
    BY <2>1, <2>2
    DEF Write, WriteFails, Writes, Erase, EraseFails, ReadFails, ReadFlips, MarkBad, IsBad, ReadAgain,
        Accesses, tblVars
<1>4. \A m \in Logical : Home(m) = bbTbl[m] /\ Home(m)' = bbTbl[m]
  BY <1>3 DEF Home, Replacing, Running
<1>5. \A m, n \in Logical : bbTbl[m] = bbTbl[n] => m = n
  BY <1>1 DEF BmtInv, Sound
<1>6. /\ faults' = faults \/ faults' > 0
      /\ faults > 0 => faults' > 0
      /\ WriteFails(l) \/ EraseFails(l) => faults' > 0
  <2>1. Fault => faults' > 0
    BY <1>2, FaultCounted DEF Fault
  <2>2. QED
    BY <2>1 DEF Write, WriteFails, Erase, EraseFails, ReadFails, ReadFlips, MarkBad, IsBad, ReadAgain
<1>7. \A m \in Logical : /\ See(m, m) = "data" /\ See(None, m) = "blank"
                         /\ See(Junk, m) = "junk" /\ See(Half, m) = "junk"
                         /\ \A n \in Logical : n # m => See(n, m) = "junk"
  BY <1>2 DEF See
<1>8. CASE Write(l)
  <2> DEFINE S == [Reads[l] EXCEPT ![written[l]] = IF Reads[l][written[l]] = "junk" THEN "junk" ELSE "data"]
  <2>1. /\ written[l] < BlkPages /\ written' = [written EXCEPT ![l] = @ + 1]
        /\ UNCHANGED <<hurt, raw, faults>> /\ written[l] \in Pages
    BY <1>2, <1>8 DEF Write, Writes, Pages
  <2>2. ASSUME NEW m \in Logical \ {l}, NEW p \in Pages
        PROVE  See(flash'[bbTbl[m]][p], m) = See(flash[bbTbl[m]][p], m)
    <3>1. flash'[bbTbl[m]][p] = IF flash[bbTbl[m]][p] = l /\ p = written[l] THEN Junk
                                ELSE flash[bbTbl[m]][p]
      BY <1>1, <1>2, <1>5, <1>8, <2>2, AccessPages
    <3>2. QED
      BY <1>7, <2>2, <3>1
  <2>3. ASSUME NEW p \in Pages PROVE See(flash'[bbTbl[l]][p], l) = S[p]
    <3>1. Reads[l] \in [Pages -> {"data", "blank", "junk"}]
      BY StorePages
    <3>2. S[p] = IF p = written[l] THEN (IF Reads[l][p] = "junk" THEN "junk" ELSE "data")
                 ELSE Reads[l][p]
      BY <2>1, <3>1
    <3>3. Reads[l][p] = See(flash[bbTbl[l]][p], l)
      BY <1>4, ReadsAre
    <3>4. CASE p = written[l]
      <4>1. flash'[bbTbl[l]][p] = Over(flash[bbTbl[l]][p], l)
        BY <1>1, <1>2, <1>8, <3>4, AccessPages DEF Target
      <4>2. QED
        BY <1>2, <3>2, <3>3, <3>4, <4>1 DEF Over, See
    <3>5. CASE p # written[l]
      <4>1. flash'[bbTbl[l]][p] = flash[bbTbl[l]][p]
        BY <1>1, <1>2, <1>8, <3>5, AccessPages
      <4>2. QED
        BY <3>2, <3>3, <3>5, <4>1
    <3>6. QED
      BY <3>4, <3>5
  <2>4. Reads' = [Reads EXCEPT ![l] = S]
    <3>1. S = [p \in Pages |-> S[p]]
      BY StorePages
    <3> HIDE DEF S
    <3>2. [p \in Pages |-> See(flash'[Home(l)'][p], l)] = S
      BY <1>4, <2>3, <3>1
    <3>3. \A m \in Logical \ {l} : \A p \in Pages :
            See(flash'[Home(m)'][p], m) = See(flash[Home(m)][p], m)
      BY <1>4, <2>2
    <3>4. QED
      BY <3>2, <3>3, ReadsOfOne
  <2>5. Store!WritePage(l)
    <3>1. Reads' = [Reads EXCEPT ![l][written[l]] = IF @ = "junk" THEN "junk" ELSE "data"]
      BY <2>4
    <3>2. QED
      BY <2>1, <3>1 DEF Store!WritePage
  <2>6. QED
    BY <1>3, <2>1, <2>5 DEF Store!StoreNext, Store!Use
<1>9. CASE WriteFails(l)
  <2> DEFINE S == [Reads[l] EXCEPT ![written[l]] = "junk"]
  <2>1. /\ written[l] < BlkPages /\ UNCHANGED <<written, hurt, raw>> /\ written[l] \in Pages
    BY <1>2, <1>9 DEF WriteFails, Writes, Pages
  <2>2. ASSUME NEW m \in Logical, NEW p \in Pages
        PROVE  flash'[bbTbl[m]][p] = IF m = l /\ p = written[l] THEN Half ELSE flash[bbTbl[m]][p]
    BY <1>1, <1>2, <1>5, <1>9, <2>2, AccessPages
  <2>3. ASSUME NEW p \in Pages PROVE See(flash'[bbTbl[l]][p], l) = S[p]
    <3>1. Reads[l] \in [Pages -> {"data", "blank", "junk"}]
      BY StorePages
    <3>2. S[p] = IF p = written[l] THEN "junk" ELSE Reads[l][p]
      BY <2>1, <3>1
    <3>3. Reads[l][p] = See(flash[bbTbl[l]][p], l)
      BY <1>4, ReadsAre
    <3>4. QED
      BY <1>7, <2>2, <3>2, <3>3
  <2>4. Reads' = [Reads EXCEPT ![l] = S]
    <3>1. S = [p \in Pages |-> S[p]]
      BY StorePages
    <3> HIDE DEF S
    <3>2. [p \in Pages |-> See(flash'[Home(l)'][p], l)] = S
      BY <1>4, <2>3, <3>1
    <3>3. \A m \in Logical \ {l} : \A p \in Pages :
            See(flash'[Home(m)'][p], m) = See(flash[Home(m)][p], m)
      BY <1>4, <2>2
    <3>4. QED
      BY <3>2, <3>3, ReadsOfOne
  <2>5. Store!FailWrite(l)
    <3>1. Reads' = [Reads EXCEPT ![l][written[l]] = "junk"]
      BY <2>4
    <3>2. QED
      BY <1>6, <1>9, <2>1, <3>1 DEF Store!FailWrite
  <2>6. QED
    BY <1>3, <1>6, <1>9, <2>5 DEF Store!StoreNext, Store!Use
<1>10. CASE Erase(l)
  <2>1. written' = [written EXCEPT ![l] = 0] /\ hurt' = hurt \ {l} /\ raw' = raw \ {l}
    BY <1>10 DEF Erase
  <2>2. ASSUME NEW m \in Logical \ {l}, NEW p \in Pages
        PROVE  See(flash'[bbTbl[m]][p], m) = See(flash[bbTbl[m]][p], m)
    <3>1. flash'[bbTbl[m]][p] = IF flash[bbTbl[m]][p] = l THEN Junk ELSE flash[bbTbl[m]][p]
      BY <1>1, <1>2, <1>5, <1>10, <2>2, AccessPages
    <3>2. QED
      BY <1>7, <2>2, <3>1
  <2>3. ASSUME NEW p \in Pages PROVE See(flash'[bbTbl[l]][p], l) = "blank"
    BY <1>1, <1>2, <1>7, <1>10, AccessPages
  <2>4. Reads' = [Reads EXCEPT ![l] = Store!Erased]
    <3>1. [p \in Pages |-> See(flash'[Home(l)'][p], l)] = Store!Erased
      BY <1>4, <2>3, StorePages
    <3>2. \A m \in Logical \ {l} : \A p \in Pages :
            See(flash'[Home(m)'][p], m) = See(flash[Home(m)][p], m)
      BY <1>4, <2>2
    <3>3. QED
      BY <3>1, <3>2, ReadsOfOne
  <2>5. Store!EraseBlock(l)
    BY <2>1, <2>4 DEF Store!EraseBlock
  <2>6. QED
    BY <1>3, <1>6, <2>5 DEF Store!StoreNext, Store!Use
<1>11. CASE EraseFails(l)
  <2>1. PICK gone \in SUBSET Pages : flash' = [flash EXCEPT ![bbTbl[l]] = Left(bbTbl[l], gone)]
    BY <1>11 DEF EraseFails
  <2> DEFINE S == [p \in Pages |-> IF p \in gone THEN "blank" ELSE Reads[l][p]]
  <2>2. raw' = raw \cup {l} /\ UNCHANGED <<written, hurt>>
    BY <1>11 DEF EraseFails
  <2>3. /\ flash'[bbTbl[l]] = Left(bbTbl[l], gone)
        /\ \A m \in Logical \ {l} : flash'[bbTbl[m]] = flash[bbTbl[m]]
    BY <1>2, <1>5, <2>1 DEF FlashOK, FlashType
  <2>4. ASSUME NEW p \in Pages PROVE See(flash'[bbTbl[l]][p], l) = S[p]
    <3>1. Reads[l][p] = See(flash[bbTbl[l]][p], l)
      BY <1>4, ReadsAre
    <3>2. flash'[bbTbl[l]][p] = IF p \in gone THEN None ELSE flash[bbTbl[l]][p]
      BY <2>3 DEF Left
    <3>3. QED
      BY <1>7, <3>1, <3>2
  <2>5. Reads' = [Reads EXCEPT ![l] = S]
    <3>1. [p \in Pages |-> See(flash'[Home(l)'][p], l)] = S
      BY <1>4, <2>4
    <3>2. \A m \in Logical \ {l} : \A p \in Pages :
            See(flash'[Home(m)'][p], m) = See(flash[Home(m)][p], m)
      BY <1>4, <2>3
    <3> HIDE DEF S
    <3>3. QED
      BY <3>1, <3>2, ReadsOfOne
  <2>6. Store!FailErase(l)
    <3>1. Reads' = [Reads EXCEPT ![l] = [p \in Store!PageNos |-> IF p \in gone THEN "blank" ELSE @[p]]]
      BY <2>5, StorePages
    <3>2. gone \in SUBSET Store!PageNos
      BY StorePages
    <3>3. QED
      BY <1>6, <1>11, <2>2, <3>1, <3>2 DEF Store!FailErase
  <2>7. QED
    BY <1>3, <1>6, <1>11, <2>6 DEF Store!StoreNext, Store!Use
<1>12. CASE ReadFails(l) \/ ReadFlips(l) \/ MarkBad(l) \/ IsBad(l) \/ ReadAgain
  <2>1. UNCHANGED <<flash, written, hurt, raw>>
    BY <1>12 DEF ReadFails, ReadFlips, MarkBad, IsBad, ReadAgain, flashVars
  <2>2. Reads' = Reads
    BY <1>4, <2>1, ReadsSame
  <2>3. QED
    BY <1>3, <1>6, <2>1, <2>2, KeepsStep DEF Keeps
<1>13. QED
  BY <1>8, <1>9, <1>10, <1>11, <1>12

\* A replacement is not seen, except that it may harm its block.
LEMMA RemapUses ==
  ASSUME StoreInv, why = {}, RemapRefused \/ Remap \/ RemapBeyond
  PROVE  [Store!StoreNext]_(Store!store)
<1>1. /\ BmtInv /\ TblOK /\ job.l \in Logical
      /\ \A m \in Logical : bbTbl[m] \in Phys
  BY StoreTypes DEF StoreInv, IntactInv
<1>2. CASE RemapRefused
  <2>1. /\ step = "remap" /\ step' = "idle"
        /\ UNCHANGED <<flash, bbTbl, faults, written, hurt, raw, why>>
    BY <1>2 DEF RemapRefused, Returns, tblVars
  <2>2. \A m \in Logical : Home(m) = bbTbl[m] /\ Home(m)' = bbTbl[m]
    BY <2>1 DEF Home, Replacing, Running
  <2>3. Reads' = Reads
    BY <2>1, <2>2, ReadsSame
  <2>4. QED
    BY <2>1, <2>3, KeepsStep DEF Keeps
<1>3. CASE Remap
  <2>1. PICK new \in Phys, k \in 0..job.len, page \in {"blank", "junk"} :
           /\ step = "remap" /\ step' = "upload" /\ job.op # "init"
           /\ job'.op = job.op /\ job'.l = job.l /\ job'.old = job.old
           /\ job.old = bbTbl[job.l] /\ \A m \in Logical : bbTbl[m] # new
           /\ bbTbl'[job.l] = new /\ \A m \in Logical : m # job.l => bbTbl'[m] = bbTbl[m]
           /\ \A b \in Phys : b # new => flash'[b] = flash[b]
           /\ hurt' \in {hurt, hurt \cup {job.l}} /\ raw' \in {raw, raw \cup {job.l}}
           /\ faults' = faults \/ faults' > 0
           /\ hurt' # hurt \/ raw' # raw => faults' > 0
           /\ faults > 0 => faults' > 0
           /\ UNCHANGED <<written, why>>
    BY <1>3, RemapPages, Zenon
  <2>2. \A m \in Logical : Home(m) = bbTbl[m] /\ Home(m)' = bbTbl[m]
    BY <2>1 DEF Home, Replacing, Running
  <2>3. Reads' = Reads
    BY <1>1, <2>1, <2>2, ReadsSame
  <2>4. CASE hurt' = hurt /\ raw' = raw
    <3>1. Keeps
      BY <2>1, <2>3, <2>4 DEF Keeps
    <3>2. QED
      BY <3>1, KeepsStep
  <2>5. CASE hurt' # hurt \/ raw' # raw
    <3>1. Store!Harm(job.l)
      BY <2>1, <2>3, <2>5 DEF Store!Harm
    <3>2. QED
      BY <1>1, <2>1, <3>1 DEF Store!StoreNext, Store!Use
  <2>6. QED
    BY <2>4, <2>5
<1>4. CASE RemapBeyond
  <2>1. step = "remap" /\ blkIdx = Gone
    BY <1>4 DEF RemapBeyond
  <2>2. PICK b \in Phys : Settled(b)
    BY <1>4, <2>1, LoneRefuses DEF StoreInv, IntactInv, Recorded, Unwritten, Rewriting
  <2>3. blkIdx = BmtIndex(bmtTbl) /\ BmtIndex(bmtTbl) # 0
    BY <2>1, <2>2 DEF Settled, Indexed
  <2>4. blkIdx \in Entries
    BY <1>1, <2>3, IndexFacts DEF TblOK
  <2>5. QED
    BY <2>1, <2>4 DEF Entries, Gone
<1>5. QED
  BY <1>2, <1>3, <1>4

\* The table that is written makes the replacement take over; nothing else is seen, as
\* long as nothing fails.
LEMMA UploadUses ==
  ASSUME StoreInv, why = {},
         UploadErase \/ UploadEraseFails \/ UploadProgram \/ UploadProgramFails \/ UploadFails
  PROVE  [Store!StoreNext]_(Store!store)
<1>1. /\ BmtInv /\ job.l \in Logical /\ job.old \in Phys
      /\ \A m \in Logical : bbTbl[m] \in Phys
  BY StoreTypes DEF StoreInv, IntactInv
<1>2. step \in {"upload", "program"}
  BY DEF UploadErase, UploadEraseFails, UploadProgram, UploadProgramFails, UploadFails
<1>3. \A m \in Logical : Home(m) = IF job.op # "init" /\ m = job.l THEN job.old ELSE bbTbl[m]
  BY <1>2 DEF Home, Replacing, Running
<1>4. CASE UploadEraseFails \/ UploadProgramFails
  <2>1. why' # {}
    BY <1>4 DEF UploadEraseFails, UploadProgramFails, NextPlace
  <2>2. QED
    BY <2>1 DEF Store!StoreNext, Store!LoseTrack
<1>5. ~UploadFails
  BY <1>2, UploadReady DEF StoreInv
<1>6. CASE UploadErase
  <2>1. step = "upload" /\ step' = "program" /\ job' = job
    BY <1>6 DEF UploadErase
  <2>2. /\ \A l \in Logical : bbTbl'[l] = bbTbl[l] /\ flash'[bbTbl[l]] = flash[bbTbl[l]]
        /\ job.op # "init" => flash'[job.old] = flash[job.old]
        /\ UNCHANGED <<bbTbl, faults, written, hurt, raw, why>>
    BY <1>6, UploadPages
  <2>3. \A m \in Logical : Home(m)' = Home(m) /\ flash'[Home(m)] = flash[Home(m)]
    BY <1>3, <2>1, <2>2 DEF Home, Replacing, Running
  <2>4. Reads' = Reads
    BY <2>3, ReadsSame
  <2>5. QED
    BY <2>2, <2>4, KeepsStep DEF Keeps
<1>7. CASE UploadProgram
  <2>1. step = "program" /\ step' \in {"idle", "again"}
    BY <1>7 DEF UploadProgram, Returns
  <2>2. /\ \A l \in Logical : bbTbl'[l] = bbTbl[l] /\ flash'[bbTbl[l]] = flash[bbTbl[l]]
        /\ job.op # "init" => flash'[job.old] = flash[job.old]
        /\ UNCHANGED <<bbTbl, faults, written, hurt, raw, why>>
    BY <1>7, UploadPages
  <2>3. \A m \in Logical : Home(m)' = bbTbl[m]
    BY <2>1, <2>2 DEF Home, Replacing, Running
  <2>4. CASE job.op = "init"
    <3>1. Reads' = Reads
      BY <1>3, <2>2, <2>3, <2>4, ReadsSame
    <3>2. QED
      BY <2>2, <3>1, KeepsStep DEF Keeps
  <2>5. CASE job.op # "init"
    <3>1. PICK l \in Logical : l = job.l
      BY <1>1
    <3> DEFINE S == [p \in Pages |-> See(flash[bbTbl[l]][p], l)]
    <3>2. Reads' = [Reads EXCEPT ![l] = S]
      <4>1. \A m \in Logical \ {l} : \A p \in Pages :
              See(flash'[Home(m)'][p], m) = See(flash[Home(m)][p], m)
        BY <1>3, <2>2, <2>3, <3>1
      <4>2. [p \in Pages |-> See(flash'[Home(l)'][p], l)] = S
        BY <2>2, <2>3
      <4> HIDE DEF S
      <4>3. QED
        BY <4>1, <4>2, ReadsOfOne
    <3>3. CASE l \in raw
      <4>1. S \in [Store!PageNos -> {"data", "blank", "junk"}]
        BY StorePages DEF See
      <4> HIDE DEF S
      <4>2. Store!TakeOverSpoiled(l)
        BY <2>2, <3>2, <3>3, <4>1 DEF Store!TakeOverSpoiled
      <4>3. QED
        BY <2>2, <3>1, <4>2 DEF Store!StoreNext, Store!Use
    <3>4. CASE l \notin raw
      <4>1. PICK k \in 0..BlkPages, page \in {"blank", "junk"} :
              /\ l \notin hurt => k >= written[l] /\ page = "blank"
              /\ Begins(bbTbl[l], job.old, l, k, page)
        BY <2>1, <2>5, <3>1, <3>4 DEF StoreInv, Copied, BeingReplaced
      <4>2. \A p \in Pages : Reads[l][p] = See(flash[job.old][p], l)
        BY <1>3, <2>5, <3>1, ReadsAre
      <4>3. S = [p \in Store!PageNos |-> IF p < k THEN Reads[l][p] ELSE IF p = k THEN page ELSE "blank"]
        BY <4>1, <4>2, StorePages DEF Begins
      <4> HIDE DEF S
      <4>4. Reads' = [Reads EXCEPT ![l] = [p \in Store!PageNos |->
                        IF p < k THEN @[p] ELSE IF p = k THEN page ELSE "blank"]]
        BY <3>2, <4>3
      <4>5. Store!TakeOver(l)
        BY <2>2, <4>1, <4>4 DEF Store!TakeOver
      <4>6. QED
        BY <2>2, <3>1, <4>5 DEF Store!StoreNext, Store!Use
    <3>5. QED
      BY <3>3, <3>4
  <2>6. QED
    BY <2>4, <2>5
<1>8. QED
  BY <1>4, <1>5, <1>6, <1>7

\* While nothing is written, a step that writes nothing is not seen.
LEMMA UnwrittenKeeps ==
  ASSUME BmtInv, BmtInv', Unwritten, UNCHANGED <<flash, written, hurt, raw, why, faults>>
  PROVE  Keeps
<1>1. (\A l \in Logical : Home(l) \in Phys) /\ (\A l \in Logical : Home(l) \in Phys)'
  BY HomeType, PTL
<1>2. \A b \in Phys : flash[b] = Blank /\ flash'[b] = Blank
  BY DEF Unwritten
<1>3. Reads' = Reads
  BY <1>1, <1>2, ReadsSame
<1>4. QED
  BY <1>3 DEF Keeps

\* What is read after a start is what was read before the power failed.
LEMMA BootUses ==
  ASSUME StoreInv, why = {}, PowerFails \/ Boot
  PROVE  [Store!StoreNext]_(Store!store)
<1>1. BmtInv /\ BmtInv'
  BY BootStore DEF StoreInv, IntactInv
<1>2. CASE why' # {}
  BY <1>2 DEF Store!StoreNext, Store!LoseTrack
<1>3. CASE PowerFails /\ why' = {}
  <2>1. /\ step # "program" /\ step' = "off"
        /\ UNCHANGED <<flash, table, faults, written, hurt, raw, why>> /\ Tables' = Tables
    BY <1>3 DEF PowerFails, Tables
  <2>2. CASE Unwritten
    <3>1. Keeps
      BY <1>1, <2>1, <2>2, UnwrittenKeeps
    <3>2. QED
      BY <3>1, KeepsStep
  <2>3. CASE \E b \in Phys : Settled(b) \/ Lone(b)
    <3>1. PICK b \in Phys : Settled(b) \/ Lone(b)
      BY <2>3
    <3>2. \A l \in Logical : Home(l) = table[b].bb[l]
      BY <1>1, <3>1, HomeSettled, HomeLone
    <3>3. Tables = {b} /\ Foremost({b}) = b
      <4>1. {b} \in SUBSET Phys /\ {b} # {}
        OBVIOUS
      <4>2. Foremost({b}) \in {b}
        BY <4>1, LastBlock
      <4>3. QED
        BY <3>1, <4>2 DEF Settled, Lone
    <3>4. \A l \in Logical : Home(l)' = table[b].bb[l]
      BY <2>1, <3>3 DEF Home, Replacing, Running
    <3>5. Reads' = Reads
      BY <2>1, <3>2, <3>4, ReadsSame
    <3>6. QED
      BY <2>1, <3>5, KeepsStep DEF Keeps
  <2>4. QED
    BY <2>1, <2>2, <2>3 DEF StoreInv, IntactInv, Recorded, Rewriting
<1>4. CASE Boot /\ why' = {}
  <2>1. step = "off" /\ UNCHANGED <<flash, table, written, hurt, raw, faults, why>>
    BY <1>4, BootFinds
  <2>2. CASE Unwritten
    <3>1. Keeps
      BY <1>1, <2>1, <2>2, UnwrittenKeeps
    <3>2. QED
      BY <3>1, KeepsStep
  <2>3. CASE \E c \in Phys : Settled(c) /\ Load(c)
    <3>1. PICK c \in Phys : Settled(c) /\ Load(c)
      BY <2>3
    <3>2. \A l \in Logical : Home(l) = table[c].bb[l]
      BY <2>1, <3>1, HomeSettled
    <3>3. \A l \in Logical : Home(l)' = table[c].bb[l]
      BY <3>1 DEF Load, Home, Replacing, Running
    <3>4. Reads' = Reads
      BY <2>1, <3>2, <3>3, ReadsSame
    <3>5. QED
      BY <2>1, <3>4, KeepsStep DEF Keeps
  <2>4. CASE \E c \in Phys : Lone(c) /\ Rescan
    <3>1. PICK c \in Phys : Lone(c) /\ Rescan
      BY <2>4
    <3>2. \A l \in Logical : Home(l) = table[c].bb[l]
      BY <1>1, <3>1, HomeLone
    <3>3. \A l \in Logical : Home(l)' = table[c].bb[l]
      <4>1. CASE Enough
        <5>1. marked' = marked /\ marked \subseteq Phys
          BY <1>1, <1>4, StoreTypes DEF Boot, flashVars, FlashOK
        <5>2. step' = "upload" /\ LoneTables' /\ bbTbl' = table[c].bb
          BY <3>1, <4>1, <5>1, LoneAgain
        <5>3. QED
          BY <5>2 DEF LoneTables, Home, Replacing, Running
      <4>2. CASE ~Enough
        <5>1. step' = "failed" /\ UNCHANGED <<bbTbl, job>> /\ Tables' = Tables
          BY <2>1, <3>1, <4>2 DEF Rescan, tblVars, Tables
        <5>2. \A l \in Logical : Home(l)' = Home(l)
          BY <2>1, <5>1 DEF Home, Replacing, Running
        <5>3. QED
          BY <3>2, <5>2
      <4>3. QED
        BY <4>1, <4>2
    <3>4. Reads' = Reads
      BY <2>1, <3>2, <3>3, ReadsSame
    <3>5. QED
      BY <2>1, <3>4, KeepsStep DEF Keeps
  <2>5. QED
    BY <1>4, <2>2, <2>3, <2>4, BootFinds
<1>5. QED
  BY <1>2, <1>3, <1>4

-----------------------------------------------------------------------------
(* The theorems.                                                           *)

\* Every step of the driver keeps the invariant and is one of FlashStore, or is not seen.
LEMMA StoreStep ==
  ASSUME StoreInv, [BmtNext]_bmtVars
  PROVE  StoreInv' /\ [Store!StoreNext]_(Store!store)
<1>1. CASE BmtNext /\ why = {}
  BY <1>1, AccessStore, RemapStore, UploadStore, BootStore,
     AccessUses, RemapUses, UploadUses, BootUses, Numbers DEF BmtNext
<1>2. CASE BmtNext /\ why # {}
  <2>1. why' # {}
    <3>1. ASSUME NEW l \in Logical,
                 \/ Write(l) \/ WriteFails(l) \/ Erase(l) \/ EraseFails(l)
                 \/ ReadFails(l) \/ ReadFlips(l) \/ MarkBad(l) \/ IsBad(l)
          PROVE  why' = why
      BY <3>1 DEF Write, WriteFails, Erase, EraseFails, ReadFails, ReadFlips, MarkBad, IsBad
    <3>2. ASSUME ReadAgain \/ RemapRefused \/ RemapBeyond \/ UploadErase \/ UploadProgram \/ UploadFails
          PROVE  why' = why
      BY <3>2 DEF ReadAgain, RemapRefused, RemapBeyond, UploadErase, UploadProgram, UploadFails
    <3>3. ASSUME Remap PROVE why' = why
      BY <3>3 DEF Remap, RemapTo
    <3>4. ASSUME UploadEraseFails \/ UploadProgramFails \/ PowerFails \/ Boot
          PROVE  why \subseteq why'
      BY <3>4 DEF UploadEraseFails, UploadProgramFails, NextPlace, PowerFails, Boot
    <3>5. QED
      BY <1>2, <3>1, <3>2, <3>3, <3>4 DEF BmtNext
  <2>2. StoreInv'
    BY <1>2, AccessStore, RemapStore, UploadStore, BootStore, Numbers DEF BmtNext
  <2>3. QED
    BY <2>1, <2>2 DEF Store!StoreNext, Store!LoseTrack
<1>3. CASE UNCHANGED bmtVars
  <2>1. UNCHANGED <<flash, table, bbTbl, bmtTbl, blkIdx, marked, step, job, faults,
                  written, hurt, raw, why>>
    BY <1>3 DEF bmtVars, flashVars, tblVars
  <2>2. Tables' = Tables /\ Place' = Place
    BY <2>1 DEF Tables, Place
  <2>3. IntactInv'
    <3>1. BmtInv'
      BY <1>3, BmtStepInv DEF StoreInv, IntactInv
    <3>2. QED
      BY <2>1, <3>1, IntactSame DEF StoreInv
  <2>4. /\ \A b \in Phys : Settled(b)' <=> Settled(b)
        /\ \A l \in Logical : Home(l)' = Home(l)
    BY <2>1, <2>2 DEF Settled, Kept, Indexed, Home, Replacing, Running
  <2>5. StoreInv'
    <3>1. (OldApart => OldApart') /\ (ReadFailed => ReadFailed')
      BY <2>1 DEF OldApart, BeingReplaced, ReadFailed
    <3>2. Copied => Copied'
      BY <2>1 DEF Copied, BeingReplaced, Begins
    <3>3. Behind => Behind'
      BY <2>1, <2>4 DEF Behind
    <3>4. QED
      BY <2>1, <2>3, <3>1, <3>2, <3>3 DEF StoreInv
  <2>6. Reads' = Reads
    BY <2>1, <2>4, ReadsSame
  <2>7. QED
    BY <2>1, <2>5, <2>6 DEF Store!store
<1>4. QED
  BY <1>1, <1>2, <1>3

\* A new device starts as an empty flash.
LEMMA StoreBegins == BmtInit => StoreInv /\ Store!StoreInit
<1> SUFFICES ASSUME BmtInit PROVE StoreInv /\ Store!StoreInit
  OBVIOUS
<1>1. IntactInv
  <2>1. Tables = {} /\ step = "off"
    BY DEF BmtInit, Tables, NoTable, Unsigned
  <2>2. Unwritten
    BY <2>1 DEF BmtInit, Unwritten
  <2>3. QED
    BY <2>1, <2>2, BmtInitInv DEF BmtInit, IntactInv, Recorded, Copying, Fresh, Running
<1>2. StoreInv
  BY <1>1 DEF BmtInit, StoreInv, OldApart, Copied, BeingReplaced, ReadFailed, Behind
<1>3. Reads = [l \in Logical |-> Store!Erased]
  <2>1. \A l \in Logical : Home(l) \in Phys /\ l # None
    BY <1>1, HomeType DEF IntactInv, Logical, None
  <2>2. \A b \in Phys, p \in Pages : flash[b][p] = None
    BY DEF BmtInit, Blank
  <2>3. QED
    BY <2>1, <2>2, ReadsAre, StorePages DEF See
<1>4. QED
  BY <1>2, <1>3 DEF BmtInit, Store!StoreInit

\* The driver implements FlashStore: what is read of a block changes only when the
\* block is written, erased, or taken over by a replacement that holds all of it unless
\* the block is damaged or spoiled, for any number of failures, replacements, power
\* cuts and starts.
THEOREM ImplementsStore == BmtSpec => Store!StoreSpec /\ KeepsItsPromise
<1>1. BmtInit => StoreInv /\ Store!StoreInit
  BY StoreBegins
<1>2. StoreInv /\ [BmtNext]_bmtVars => StoreInv' /\ [Store!StoreNext]_(Store!store)
  BY StoreStep
<1>3. [Store!StoreNext]_(Store!store) =>
        [UNCHANGED bmtVars \/ Store!StoreNext]_(Store!store)
  OBVIOUS
<1>4. QED
  BY <1>1, <1>2, <1>3, PTL DEF BmtSpec, KeepsItsPromise, Store!StoreSpec
=============================================================================
