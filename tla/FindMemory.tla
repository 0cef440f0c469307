----------------------------- MODULE FindMemory -----------------------------
(***************************************************************************)
(* The loop of mbi_find_memory (standalone/mbi.c): one action per path     *)
(* through its body.  Two of the paths `continue' without going to the     *)
(* next entry of the map.                                                  *)
(***************************************************************************)
EXTENDS FreeMemory

CONSTANTS Maps,      \* memory maps a boot loader may leave
          Lengths,   \* sizes asked for
          Limits     \* limits asked for

VARIABLE i     \* the entry of the map the loop is at

args == <<mmap, len, highest, limit>>
vars == <<args, step, i, found, block>>

Init ==
  /\ mmap \in Maps /\ len \in Lengths /\ limit \in Limits /\ highest \in BOOLEAN
  /\ step = "enter" /\ i = 1 /\ found = FALSE /\ block = 0

(* "be paranoid"                                                            *)
Enter ==
  /\ step = "enter"
  /\ step' = IF limit <= len THEN "done" ELSE "loop"
  /\ UNCHANGED <<args, i, found, block>>

InLoop == step = "loop" /\ i <= Len(mmap)

(* continue, the rounded address is behind the block: i does not change     *)
BehindBlock ==
  /\ InLoop /\ ~HasPageBoundary(mmap[i])
  /\ UNCHANGED vars

(* continue, what was found lies higher than this block: i does not change  *)
LowerBlock ==
  /\ InLoop /\ CanHold(mmap[i], len, limit)
  /\ found /\ block > PagesFrom(mmap[i])
  /\ UNCHANGED vars

(* Mutant: the end of the block is taken although it is above the limit.    *)
TakeBlockUnlimited ==
  /\ InLoop /\ CanHold(mmap[i], len, limit)
  /\ ~(found /\ block > PagesFrom(mmap[i]))
  /\ found' = TRUE /\ block' = PagesEnd(mmap[i]) - len
  /\ IF highest THEN i' = i + 1 /\ UNCHANGED step
               ELSE step' = "done" /\ UNCHANGED i
  /\ UNCHANGED args

TakeBlock ==
  /\ InLoop /\ CanHold(mmap[i], len, limit)
  /\ ~(found /\ block > PagesFrom(mmap[i]))
  /\ found' = TRUE /\ block' = TopIn(mmap[i], len, limit)
  /\ IF highest THEN i' = i + 1 /\ UNCHANGED step
               ELSE step' = "done" /\ UNCHANGED i
  /\ UNCHANGED args

(* Mutant: a block that does not fit does not advance the loop either.      *)
NextBlockStays ==
  /\ InLoop /\ HasPageBoundary(mmap[i]) /\ ~CanHold(mmap[i], len, limit)
  /\ UNCHANGED vars

NextBlock ==
  /\ InLoop /\ HasPageBoundary(mmap[i]) /\ ~CanHold(mmap[i], len, limit)
  /\ i' = i + 1
  /\ UNCHANGED <<args, step, found, block>>

EndOfMap ==
  /\ step = "loop" /\ i > Len(mmap) /\ step' = "done"
  /\ UNCHANGED <<args, i, found, block>>

Next == Enter \/ BehindBlock \/ LowerBlock \/ TakeBlock \/ NextBlock \/ EndOfMap

Spec == Init /\ [][Next]_vars /\ WF_vars(Next)

-----------------------------------------------------------------------------
Ascending == \A j \in 1..(Len(mmap) - 1) : mmap[j + 1].addr >= EndOf(mmap[j])

(* "Memory blocks may not be page aligned. Round length and address to page *)
(* granularity": unaligned blocks are handled, so that the function returns *)
(* on every ascending map.                                                  *)
ReturnsOnUnalignedBlocks == Ascending ~> step = "done"
=============================================================================
