----------------------------- MODULE FlashStore ----------------------------
(***************************************************************************)
(* What a flash with bad block management promises those who use it: a     *)
(* page reads as erased until it is written, then as what was written,     *)
(* until the block is erased.  Three things go beyond that.  A block is    *)
(* damaged when the copy to its replacement breaks off, and then keeps the *)
(* pages before the break.  It is spoiled when it, or the block that is to *)
(* replace it, could not be erased.  And the flash may lose track of where *)
(* its blocks are.                                                         *)
(***************************************************************************)
EXTENDS Naturals

CONSTANTS Blocks, Size   \* the blocks of a flash, the pages of a block

VARIABLES
  read,      \* read[l][p]: what a reader of page p of block l gets
  end,       \* end[l]: the pages written since the block was erased
  damaged,   \* the blocks of which a copy has broken off since then
  spoiled,   \* the blocks that are to be erased before they can be relied on
  failed,    \* an access has failed
  tracked    \* the flash knows where its blocks are

store == <<read, end, damaged, spoiled, failed, tracked>>

PageNos == 0..(Size - 1)
Erased == [p \in PageNos |-> "blank"]

StoreInit ==
  /\ read = [l \in Blocks |-> Erased]
  /\ end = [l \in Blocks |-> 0]
  /\ damaged = {} /\ spoiled = {} /\ failed = FALSE /\ tracked = TRUE

\* A page that is not erased cannot be written.
WritePage(l) ==
  /\ end[l] < Size
  /\ end' = [end EXCEPT ![l] = @ + 1]
  /\ read' = [read EXCEPT ![l][end[l]] = IF @ = "junk" THEN "junk" ELSE "data"]
  /\ UNCHANGED <<damaged, spoiled>>

FailWrite(l) ==
  /\ failed' /\ end[l] < Size
  /\ read' = [read EXCEPT ![l][end[l]] = "junk"]
  /\ UNCHANGED <<end, damaged, spoiled>>

EraseBlock(l) ==
  /\ end' = [end EXCEPT ![l] = 0]
  /\ damaged' = damaged \ {l} /\ spoiled' = spoiled \ {l}
  /\ read' = [read EXCEPT ![l] = Erased]

FailErase(l) ==
  /\ failed'
  /\ \E gone \in SUBSET PageNos :
       read' = [read EXCEPT ![l] = [p \in PageNos |-> IF p \in gone THEN "blank" ELSE @[p]]]
  /\ spoiled' = spoiled \cup {l}
  /\ UNCHANGED <<end, damaged>>

\* Only a flash that fails harms a block.
Harm(l) ==
  /\ failed'
  /\ damaged' \in {damaged, damaged \cup {l}}
  /\ spoiled' \in {spoiled, spoiled \cup {l}}
  /\ UNCHANGED <<read, end>>

\* A page whose write had failed is left behind by a replacement.
TakeOver(l) ==
  /\ \E k \in 0..Size, page \in {"blank", "junk"} :
       /\ l \notin damaged => k >= end[l] /\ page = "blank"
       /\ read' = [read EXCEPT ![l] = [p \in PageNos |->
                    IF p < k THEN @[p] ELSE IF p = k THEN page ELSE "blank"]]
  /\ UNCHANGED <<end, damaged, spoiled>>

TakeOverSpoiled(l) ==
  /\ l \in spoiled
  /\ \E pages \in [PageNos -> {"data", "blank", "junk"}] : read' = [read EXCEPT ![l] = pages]
  /\ UNCHANGED <<end, damaged, spoiled>>

Fail == failed' /\ UNCHANGED <<read, end, damaged, spoiled>>

Use == \/ \E l \in Blocks :
            \/ WritePage(l) \/ FailWrite(l) \/ EraseBlock(l) \/ FailErase(l)
            \/ Harm(l) \/ TakeOver(l) \/ TakeOverSpoiled(l)
       \/ Fail

\* From here on nothing is promised.
LoseTrack == ~tracked'

StoreNext == \/ tracked /\ tracked' /\ (failed => failed') /\ Use
             \/ LoseTrack

StoreSpec == StoreInit /\ [][StoreNext]_store
=============================================================================
