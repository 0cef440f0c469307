----------------------------- MODULE FreeMemory -----------------------------
(***************************************************************************)
(* What mbi_find_memory (standalone/mbi.c) promises its callers, apart     *)
(* from the loop that keeps the promise, which is FindMemory.              *)
(***************************************************************************)
EXTENDS MbiMemory

VARIABLES mmap, len, highest, limit,   \* the arguments
          step,                        \* how far the call is
          found, block                 \* what it returns, block_start_out

(* Every place where len bytes of whole pages are free below the limit.     *)
Starts(b) ==
  IF b.avail /\ HasPageBoundary(b)
    THEN {s \in PagesFrom(b)..PagesEnd(b) : s + len <= PagesEnd(b) /\ s + len <= limit}
    ELSE {}
AllStarts == UNION {Starts(mmap[j]) : j \in 1..Len(mmap)}

(* "Find a sufficiently large block of free memory": when the function      *)
(* returns, it found memory exactly if there is some, and the highest there *)
(* is in the whole map if asked for it.  A limit of len or less finds none. *)
FindsTheHighest ==
  step = "done" =>
    /\ found <=> limit > len /\ AllStarts # {}
    /\ found => block \in AllStarts
    /\ found /\ highest => \A s \in AllStarts : s <= block
=============================================================================
