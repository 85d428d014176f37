-------------------------------- MODULE Bmt --------------------------------
(***************************************************************************)
(* The bad block management of the NAND flash (mtk_bmt.c with the          *)
(* algorithm of mtk_bmt_v2.c): logical blocks are mapped to physical ones, *)
(* a block that fails is replaced by one of a pool, and the mapping is     *)
(* kept in a single block of that pool.  A read, write or erase of a user  *)
(* may fail, and so may the erase of a new block, the copy to it, and the  *)
(* erase, the write and the read of a table; the power may fail between    *)
(* any two of them, and the tables are then looked for, or made anew.      *)
(* This is about the data of a page: its spare (OOB) bytes, which the copy *)
(* leaves behind, are no part of the model.                                *)
(***************************************************************************)
EXTENDS Integers, FiniteSets

CONSTANTS
  TotalBlks,   \* total_blks
  PoolLba,     \* pool_lba: the logical blocks are those below
  BlkPages,    \* the pages of a block
  BbMax,       \* bb_max: the blocks that may be bad from the factory
  MaxRetry,    \* the remaps after which an access is given up (10)
  MaxFaults    \* how many accesses to the flash fail

ASSUME BmtAssumption ==
  /\ PoolLba \in Nat \ {0}
  /\ TotalBlks \in Nat /\ TotalBlks > PoolLba + 2
  /\ BlkPages \in Nat \ {0}
  /\ BbMax \in Nat /\ MaxRetry \in Nat /\ MaxFaults \in Nat

VARIABLES
  flash,      \* flash[b][p]: whose current data the page holds, or what else
  table,      \* the tables written in a block, with their signature
  marked,     \* the blocks with a bad block mark
  bbTbl, bmtTbl, blkIdx,   \* bb_tbl, bmt_tbl and bmt_blk_idx, in memory
  step, job,  \* where the driver is and for what
  faults,     \* the failures so far
  written,    \* history: the pages of a logical block written since its last erase
  hurt,       \* history: logical blocks whose replacement was not copied to the end
  raw,        \* history: logical blocks that lie on what could not be erased
  why         \* history: what may have made the stored mapping useless

flashVars == <<flash, table, marked>>
tblVars == <<bbTbl, bmtTbl, blkIdx>>
bmtVars == <<flashVars, tblVars, step, job, faults, written, hurt, raw, why>>

None == -1   \* an erased page
Junk == -2   \* data of the past, of two writes on top of each other, or a table's
Half == -3   \* a page a user was told could not be written
Phys == 0..(TotalBlks - 1)
Logical == 0..(PoolLba - 1)
Content == Logical \cup {None, Junk, Half}
Pages == 0..(BlkPages - 1)
Entries == 0..(TotalBlks - PoolLba - 1)

NoEntry == [block |-> 0, mapped |-> "free"]

Unsigned(sig) == [sig |-> sig, bb |-> [l \in Logical |-> l], bmt |-> [i \in Entries |-> NoEntry]]
NoTable == Unsigned("none")
Torn == Unsigned("torn")      \* the signature of a table that is not all there

NoJob == [op |-> "none", l |-> 0, old |-> 0, len |-> 0, n |-> 0, tries |-> 0]
Gone == -1          \* (u16)-1, what upload_bmt returns when it has found no place

(* So many accesses fail now: the failures are counted.                    *)
Faults(n) == faults + n <= MaxFaults /\ faults' = faults + n
Fault == Faults(1)

(* The page p of the logical block l is written, or all of it is erased:   *)
(* whatever else holds that data holds data of the past.                   *)
Outdated(l, ps) == [b \in Phys |-> [p \in Pages |->
  IF flash[b][p] = l /\ p \in ps THEN Junk ELSE flash[b][p]]]

Blank == [p \in Pages |-> None]

(* What a page that holds d holds when v is written to it.                 *)
Over(d, v) == IF d = None THEN v ELSE IF v \in {None, d} THEN d ELSE Junk

(* What is left of a block of which an erase got at the pages gone.        *)
Left(b, gone) == [p \in Pages |-> IF p \in gone THEN None ELSE flash[b][p]]

(* The table that is in a block after an erase of it has failed, or after  *)
(* a page has been written to it: as before, or none, or not all of it.    *)
Remains(b) == {NoTable, table[b]} \cup IF table[b].sig = "none" THEN {} ELSE {Torn}

-----------------------------------------------------------------------------
(* Accesses: the flash is asked, and a failure remaps the block and tries  *)
(* again.                                                                  *)

Accesses(l) == step = "idle" \/ (step = "again" /\ job.l = l)
Tries == IF step = "again" THEN job.tries ELSE 0

\* Mutant of Replace: one page is forgotten.
ReplaceShort(op, l, len) ==
  /\ step' = "remap"
  /\ job' = [op |-> op, l |-> l, old |-> bbTbl[l], len |-> IF len > 0 THEN len - 1 ELSE 0,
             n |-> 0, tries |-> Tries]

(* An access to l fails; len pages are to be copied.                       *)
Replace(op, l, len) ==
  /\ step' = "remap"
  /\ job' = [op |-> op, l |-> l, old |-> bbTbl[l], len |-> len, n |-> 0, tries |-> Tries]

Doing(op) == step = "again" => job.op = op

Target(l) == flash[bbTbl[l]][written[l]]

(* mtk_bmt_write, a page after the other.  A page whose write was given up *)
(* is not written again before an erase: no user of an MTD does that.      *)
Writes(l) ==
  /\ Accesses(l) /\ Doing("write") /\ written[l] < BlkPages
  /\ step = "idle" => Target(l) # Half
  /\ \E t \in Remains(bbTbl[l]) : table' = [table EXCEPT ![bbTbl[l]] = t]

Write(l) ==
  /\ Writes(l)
  /\ flash' = [Outdated(l, {written[l]}) EXCEPT ![bbTbl[l]][written[l]] = Over(Target(l), l)]
  /\ written' = [written EXCEPT ![l] = @ + 1]
  /\ step' = "idle" /\ job' = NoJob
  /\ UNCHANGED <<marked, tblVars, faults, hurt, raw, why>>

WriteFails(l) ==
  /\ Writes(l)
  /\ Fault
  /\ flash' = [flash EXCEPT ![bbTbl[l]][written[l]] = Half]
  /\ Replace("write", l, written[l])
  /\ UNCHANGED <<marked, tblVars, written, hurt, raw, why>>

(* mtk_bmt_mtd_erase.  It may fail with the old data, or part of it, still *)
(* there to be read.                                                       *)
Erase(l) ==
  /\ Accesses(l) /\ Doing("erase")
  /\ flash' = [Outdated(l, Pages) EXCEPT ![bbTbl[l]] = Blank]
  /\ table' = [table EXCEPT ![bbTbl[l]] = NoTable]
  /\ written' = [written EXCEPT ![l] = 0]
  /\ hurt' = hurt \ {l} /\ raw' = raw \ {l}
  /\ step' = "idle" /\ job' = NoJob
  /\ UNCHANGED <<marked, tblVars, faults, why>>

EraseFails(l) ==
  /\ Accesses(l) /\ Doing("erase")
  /\ Fault
  /\ \E gone \in SUBSET Pages : flash' = [flash EXCEPT ![bbTbl[l]] = Left(bbTbl[l], gone)]
  /\ \E t \in Remains(bbTbl[l]) : table' = [table EXCEPT ![bbTbl[l]] = t]
  /\ raw' = raw \cup {l}
  /\ Replace("erase", l, 0)
  /\ UNCHANGED <<marked, tblVars, written, hurt, why>>

(* mtk_bmt_read: a page that cannot be corrected, or one with so many      *)
(* flipped bits that the block is replaced although the data were read.    *)
ReadFails(l) ==
  /\ Accesses(l) /\ Doing("read") /\ written[l] > 0
  /\ Fault
  /\ Replace("read", l, BlkPages)
  /\ UNCHANGED <<flashVars, tblVars, written, hurt, raw, why>>

ReadFlips(l) ==
  /\ step = "idle" /\ written[l] > 0
  /\ Fault
  /\ Replace("none", l, BlkPages)
  /\ UNCHANGED <<flashVars, tblVars, written, hurt, raw, why>>

ReadAgain ==
  /\ step = "again" /\ job.op = "read"
  /\ step' = "idle" /\ job' = NoJob
  /\ UNCHANGED <<flashVars, tblVars, faults, written, hurt, raw, why>>

(* mtk_bmt_block_markbad: the block is replaced, then the old one marked.  *)
MarkBad(l) ==
  /\ step = "idle" /\ bbTbl[l] \notin marked
  /\ Fault
  /\ Replace("mark", l, BlkPages)
  /\ UNCHANGED <<flashVars, tblVars, written, hurt, raw, why>>

(* mtk_bmt_block_isbad replaces a block that is marked.                    *)
IsBad(l) ==
  /\ step = "idle" /\ bbTbl[l] \in marked
  /\ Replace("none", l, BlkPages)
  /\ UNCHANGED <<flashVars, tblVars, faults, written, hurt, raw, why>>

-----------------------------------------------------------------------------
(* remap_block_v2.                                                         *)

\* Mutant of Returns: the retries are not counted out.
ReturnsUncounted(ok) ==
  /\ IF ok /\ job.op \in {"read", "write", "erase"}
       THEN step' = "again" /\ job' = [job EXCEPT !.tries = @ + 1, !.n = 0]
       ELSE step' = "idle" /\ job' = NoJob
  /\ marked' = IF job.op = "mark" THEN marked \cup {job.old} ELSE marked

(* The return of mtk_bmt_remap_block.                                      *)
Returns(ok) ==
  /\ IF ok /\ job.op \in {"read", "write", "erase"} /\ job.tries < MaxRetry
       THEN step' = "again" /\ job' = [job EXCEPT !.tries = @ + 1, !.n = 0]
       ELSE step' = "idle" /\ job' = NoJob
  /\ marked' = IF job.op = "mark" THEN marked \cup {job.old} ELSE marked

\* Mutant of Available: a used block is taken again.
AvailableUsed == {i \in Entries : i < blkIdx /\ bmtTbl[i].block # 0}

(* find_valid_block_in_pool.                                               *)
Available == {i \in Entries : /\ i < blkIdx
                              /\ bmtTbl[i].block # 0 /\ bmtTbl[i].mapped = "free"}

RemapRefused ==
  /\ step = "remap" /\ blkIdx # Gone /\ Available = {}
  /\ Returns(FALSE)
  /\ UNCHANGED <<flash, table, tblVars, faults, written, hurt, raw, why>>

(* What bbt_nand_copy leaves in a new block of which the erase got at the  *)
(* pages gone: the first k pages are copied, and the next one is half done *)
(* if it is its write that failed.                                         *)
Copy(new, k, torn, gone) == [p \in Pages |->
  IF p < k THEN Over(Left(new, gone)[p], flash[job.old][p])
  ELSE IF p = k /\ torn THEN Junk ELSE Left(new, gone)[p]]

(* The new block is erased and filled.  Nobody looks at the result of the  *)
(* erase, which may have left pages that are then written over, nor at     *)
(* that of the copy, which stops at the first page it cannot read or write.*)
RemapTo(i, k, torn, gone) ==
  LET new == bmtTbl[i].block
      broken == k < job.len
  IN
  /\ step = "remap" /\ blkIdx # Gone
  /\ torn => broken
  /\ Faults((IF gone # Pages THEN 1 ELSE 0) + (IF torn \/ (broken /\ job.op # "read") THEN 1 ELSE 0))
  /\ bmtTbl' = [bmtTbl EXCEPT ![i].mapped = "used"]
  /\ bbTbl' = [bbTbl EXCEPT ![job.l] = new]
  /\ flash' = [flash EXCEPT ![new] = Copy(new, k, torn, gone)]
  /\ \E t \in IF gone = Pages THEN {NoTable} ELSE Remains(new) :
       table' = [table EXCEPT ![new] = t]
  /\ hurt' = IF broken THEN hurt \cup {job.l} ELSE hurt
  /\ raw' = IF Left(new, gone) = Blank THEN raw ELSE raw \cup {job.l}
  /\ step' = "upload"
  /\ job' = [job EXCEPT !.n = blkIdx]
  /\ UNCHANGED <<marked, blkIdx, written, why>>

Remap == \E i \in Available, k \in 0..job.len, torn \in BOOLEAN, gone \in SUBSET Pages :
  (\A j \in Available : i <= j) /\ RemapTo(i, k, torn, gone)

(* With bmt_blk_idx gone the loops run past the tables: what the driver    *)
(* does then is not modelled.                                              *)
RemapBeyond ==
  /\ step = "remap" /\ blkIdx = Gone
  /\ step' = "beyond" /\ job' = NoJob
  /\ UNCHANGED <<flashVars, tblVars, faults, written, hurt, raw, why>>

-----------------------------------------------------------------------------
(* upload_bmt.                                                             *)

Place == bmtTbl[job.n].block
\* Mutant of PlaceLeft: used blocks are not spared.
PlaceAny == job.n >= 0

PlaceLeft == job.n >= 0 /\ bmtTbl[job.n].mapped # "used"

(* An erase or a write fails: the entry is dropped and the one before it   *)
(* tried.                                                                  *)
NextPlace ==
  /\ bmtTbl' = [bmtTbl EXCEPT ![job.n].block = 0]
  /\ job' = [job EXCEPT !.n = @ - 1]
  /\ step' = "upload"
  /\ why' = why \cup {"worn"}
  /\ UNCHANGED <<bbTbl, blkIdx>>

UploadErase ==
  /\ step = "upload" /\ PlaceLeft
  /\ table' = [table EXCEPT ![Place] = NoTable]
  /\ flash' = [flash EXCEPT ![Place] = Blank]
  /\ step' = "program"
  /\ UNCHANGED <<marked, tblVars, job, faults, written, hurt, raw, why>>

(* What was in the block may still be there, or part of it.                *)
UploadEraseFails ==
  /\ step = "upload" /\ PlaceLeft
  /\ Fault
  /\ \E gone \in SUBSET Pages : flash' = [flash EXCEPT ![Place] = Left(Place, gone)]
  /\ \E t \in Remains(Place) : table' = [table EXCEPT ![Place] = t]
  /\ NextPlace
  /\ UNCHANGED <<marked, written, hurt, raw>>

(* A reader who comes across a table takes it for data.                    *)
Tabled(t) ==
  /\ table' = [table EXCEPT ![Place] = t]
  /\ flash' = [flash EXCEPT ![Place] = [p \in Pages |-> Junk]]

\* Mutant of UploadProgram: the table is made before the new block is entered.
UploadProgramStale ==
  /\ step = "program"
  /\ Tabled([sig |-> "whole", bb |-> [bbTbl EXCEPT ![job.l] = job.old], bmt |-> bmtTbl])
  /\ blkIdx' = job.n
  /\ Returns(TRUE)
  /\ UNCHANGED <<bbTbl, bmtTbl, faults, written, hurt, raw, why>>

UploadProgram ==
  /\ step = "program"
  /\ Tabled([sig |-> "whole", bb |-> bbTbl, bmt |-> bmtTbl])
  /\ blkIdx' = job.n
  /\ Returns(TRUE)
  /\ UNCHANGED <<bbTbl, bmtTbl, faults, written, hurt, raw, why>>

(* The signature is in the first page: a table may be accepted that has    *)
(* not been written to its end.                                            *)
UploadProgramFails ==
  /\ step = "program"
  /\ Fault
  /\ Tabled(NoTable) \/ Tabled(Torn)
  /\ NextPlace
  /\ UNCHANGED <<marked, written, hurt, raw>>

UploadFails ==
  /\ step = "upload" /\ ~PlaceLeft
  /\ blkIdx' = Gone
  /\ IF job.op = "init" THEN step' = "failed" /\ job' = NoJob /\ UNCHANGED marked
                        ELSE Returns(TRUE)
  /\ UNCHANGED <<flash, table, bbTbl, bmtTbl, faults, written, hurt, raw, why>>

-----------------------------------------------------------------------------
(* The power fails, mtk_bmt_init_v2 runs.                                  *)

(* The tables in memory before the driver has found or made any.           *)
NoTables(bb, bmt, idx) ==
  bb = NoTable.bb /\ bmt = NoTable.bmt /\ idx = 0

PowerFails ==
  /\ step \notin {"off", "beyond"}
  /\ IF step = "program"
       THEN /\ Tabled(NoTable) \/ Tabled(Torn)
            /\ why' = why \cup {"window"}
       ELSE UNCHANGED <<flash, table, why>>
  /\ NoTables(bbTbl', bmtTbl', blkIdx')
  /\ step' = "off" /\ job' = NoJob
  /\ UNCHANGED <<marked, faults, written, hurt, raw>>

(* get_bmt_index: 0 if there is none before the first empty entry.         *)
BmtIndex(bmt) ==
  LET found == {i \in Entries : bmt[i].mapped = "bmt" /\ \A j \in 0..i : bmt[j].block # 0}
  IN IF found = {} THEN 0 ELSE CHOOSE i \in found : \A j \in found : i <= j

Tables == {b \in Phys : b >= PoolLba /\ table[b].sig # "none"}

(* The block read first, from the end of the flash, whose table is valid.  *)
Foremost(bs) == CHOOSE b \in bs : \A c \in bs : c <= b

(* The k-th block of a set.                                                *)
Nth(bs, k) == CHOOSE b \in bs : Cardinality({c \in bs : c < b}) = k

(* scan_bad_blocks: block 0 is not looked at, and find_valid_block gives   *)
(* up after more than bb_max bad blocks in a row.                          *)
Bad(b) == b # 0 /\ b \in marked
Good == {b \in Phys : /\ ~Bad(b)
                     /\ \A c \in Phys : c + BbMax < b => \E d \in c..(c + BbMax) : ~Bad(d)}
Mapping == [l \in Logical |-> Nth(Good, l)]
PoolSize == Cardinality(Good) - PoolLba
Scanned == [i \in Entries |->
  [block |-> IF i < PoolSize THEN Nth(Good, PoolLba + i) ELSE 0,
   mapped |-> IF i = PoolSize - 1 THEN "bmt" ELSE "free"]]

(* Three blocks at least follow the last one that is mapped.               *)
Enough == PoolSize > 0 /\ Nth(Good, PoolLba - 1) + 1 < TotalBlks - 2

Load(b) ==
  /\ table[b].sig = "whole" /\ BmtIndex(table[b].bmt) # 0
  /\ bbTbl' = table[b].bb /\ bmtTbl' = table[b].bmt
  /\ blkIdx' = BmtIndex(table[b].bmt)
  /\ step' = "idle" /\ UNCHANGED job

(* A torn table is taken for a whole one; what follows is not modelled.    *)
LoadTorn(b) ==
  /\ table[b].sig = "torn"
  /\ step' = "beyond"
  /\ UNCHANGED <<job, tblVars>>

Rescan ==
  /\ IF Enough
       THEN /\ bbTbl' = Mapping /\ bmtTbl' = Scanned /\ blkIdx' = PoolSize - 1
            /\ step' = "upload"
            /\ job' = [NoJob EXCEPT !.op = "init", !.n = PoolSize - 1]
       ELSE step' = "failed" /\ UNCHANGED <<tblVars, job>>

(* The tables that cannot be read are passed over.                         *)
Boot == \E skip \in SUBSET Tables :
  /\ step = "off"
  /\ Faults(Cardinality(skip))
  /\ why' = IF skip = {} THEN why ELSE why \cup {"unread"}
  /\ LET left == Tables \ skip IN
     IF left = {} THEN Rescan
     ELSE \/ Load(Foremost(left))
          \/ LoadTorn(Foremost(left))
          \/ /\ table[Foremost(left)].sig = "whole"
             /\ BmtIndex(table[Foremost(left)].bmt) = 0
             /\ Rescan
  /\ UNCHANGED <<flashVars, written, hurt, raw>>

-----------------------------------------------------------------------------
(* A new device: some blocks are bad from the factory, block 0 is not.     *)
BmtInit ==
  /\ flash = [b \in Phys |-> Blank]
  /\ table = [b \in Phys |-> NoTable]
  /\ marked \in SUBSET (Phys \ {0})
  /\ Cardinality(marked) <= BbMax /\ Enough
  /\ NoTables(bbTbl, bmtTbl, blkIdx)
  /\ step = "off" /\ job = NoJob
  /\ faults = 0
  /\ written = [l \in Logical |-> 0]
  /\ hurt = {} /\ raw = {} /\ why = {}

BmtNext ==
  \/ \E l \in Logical :
       \/ Write(l) \/ WriteFails(l) \/ Erase(l) \/ EraseFails(l)
       \/ ReadFails(l) \/ ReadFlips(l) \/ MarkBad(l) \/ IsBad(l)
  \/ ReadAgain
  \/ RemapRefused \/ Remap \/ RemapBeyond
  \/ UploadErase \/ UploadEraseFails \/ UploadProgram \/ UploadProgramFails \/ UploadFails
  \/ PowerFails \/ Boot

BmtSpec == BmtInit /\ [][BmtNext]_bmtVars

-----------------------------------------------------------------------------
(* The type invariant.                                                     *)
BmtTypeOK ==
  /\ flash \in [Phys -> [Pages -> Content]]
  /\ table \in [Phys -> [sig : {"none", "torn", "whole"}, bb : [Logical -> Phys],
                         bmt : [Entries -> [block : Phys, mapped : {"free", "used", "bmt"}]]]]
  /\ marked \subseteq Phys
  /\ bbTbl \in [Logical -> Phys]
  /\ bmtTbl \in [Entries -> [block : Phys, mapped : {"free", "used", "bmt"}]]
  /\ blkIdx \in Entries \cup {Gone}
  /\ step \in {"off", "idle", "remap", "upload", "program", "again", "failed", "beyond"}
  /\ job \in [op : {"none", "init", "read", "write", "erase", "mark"}, l : Logical, old : Phys,
              len : 0..BlkPages, n : Entries \cup {-1}, tries : 0..MaxRetry]
  /\ faults \in 0..MaxFaults
  /\ written \in [Logical -> 0..BlkPages]
  /\ hurt \subseteq Logical /\ raw \subseteq Logical
  /\ why \subseteq {"worn", "window", "unread"}

Running == step \notin {"off", "failed", "beyond"}

(* No two logical blocks share a physical one, whatever has failed.        *)
NoAlias ==
  Running => \A l, m \in Logical : bbTbl[l] = bbTbl[m] => l = m

(* The tables are never written over a block that is in use.               *)
TableApart ==
  step = "program" => \A l \in Logical : bbTbl[l] # Place

(* What was written is where the mapping says, and above it nothing but    *)
(* the page whose write has failed: no data of the past, through failures, *)
(* remaps and power cuts.  It is otherwise only if the copy to the new     *)
(* block broke off, if the block or the new block could not be erased and  *)
(* still held pages, or if the only table could not be found again.        *)
Intact ==
  step \in {"idle", "again"} /\ why = {} =>
    \A l \in Logical \ (hurt \cup raw), p \in Pages :
      LET page == flash[bbTbl[l]][p] IN
      /\ p < written[l] => page = l
      /\ p = written[l] => page \in {None, Half}
      /\ p > written[l] => page = None

-----------------------------------------------------------------------------
(* What the flash promises.                                                *)

(* The block a logical block is read from: by the mapping in memory, but   *)
(* by the one that is still in force until a replacement is recorded, and, *)
(* while the driver does not run, by the one it will find.                 *)
Replacing(l) == step \in {"upload", "program"} /\ job.op # "init" /\ job.l = l
Home(l) ==
  IF Replacing(l) THEN job.old
  ELSE IF Running \/ Tables = {} THEN bbTbl[l]
  ELSE table[Foremost(Tables)].bb[l]

(* What a reader of each page gets.                                        *)
Reads == [l \in Logical |-> LET home == flash[Home(l)] IN [p \in Pages |->
  IF home[p] = l THEN "data" ELSE IF home[p] = None THEN "blank" ELSE "junk"]]

Store == INSTANCE FlashStore WITH
  Blocks <- Logical, Size <- BlkPages, read <- Reads, end <- written,
  damaged <- hurt, spoiled <- raw, failed <- faults > 0, tracked <- why = {}

(* Every run of the driver is one of FlashStore: a failed access, a        *)
(* replacement, a power cut or a start changes what is read of no block,   *)
(* but for the damaged one, which keeps what was copied, and the spoiled   *)
(* one; data of the past is read of no other block.  Tracked is the flash  *)
(* until its table fails, cannot be read, or is caught between its erase   *)
(* and its write.  (This is Store!StoreSpec: a step that leaves the driver  *)
(* alone leaves the store alone, and TLC sees the former sooner.)          *)
KeepsItsPromise ==
  Store!StoreInit /\ [][UNCHANGED bmtVars \/ Store!StoreNext]_(Store!store)
=============================================================================
