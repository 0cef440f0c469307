----------------------------- MODULE MbiMemory ------------------------------
(***************************************************************************)
(* The multiboot memory map and the two ways to take memory from it        *)
(* (standalone/mbi.c).  A block is a record [addr, len, avail]; addresses  *)
(* and lengths are natural numbers.                                        *)
(***************************************************************************)
EXTENDS Naturals, Sequences

CONSTANTS Page,      \* page size                       (mbi.c: 0x1000)
          Limit32    \* first address above 32 bits     (mbi.c: 1 << 32)

ASSUME MbiMemoryAssumption == Page \in Nat \ {0} /\ Limit32 \in Nat \ {0}

Block == [addr : Nat, len : Nat, avail : BOOLEAN]
EndOf(b) == b.addr + b.len

RoundDown(a, n) == n * (a \div n)
RoundUp(a, n)   == RoundDown(a + n - 1, n)

-----------------------------------------------------------------------------
(* mbi_alloc_protected_memory: the first block that is large enough gives   *)
(* up its end.  align is a power of two here, the code passes its exponent. *)

AllocAddr(b, len, align) == RoundDown(EndOf(b) - len, align)

CanAlloc(b, len, align) ==
  /\ b.avail /\ b.len >= len /\ EndOf(b) < Limit32
  /\ AllocAddr(b, len, align) > b.addr

CanAllocIn(mmap, i, len, align) ==
  /\ i \in 1..Len(mmap) /\ CanAlloc(mmap[i], len, align)
  /\ \A j \in 1..(i - 1) : ~CanAlloc(mmap[j], len, align)

(* The map after block i was shortened.                                     *)
Shortened(mmap, i, len, align) ==
  [mmap EXCEPT ![i].len = AllocAddr(mmap[i], len, align) - mmap[i].addr]

-----------------------------------------------------------------------------
(* mbi_find_memory looks at whole pages of a block, below a limit.          *)

PagesFrom(b) == RoundUp(b.addr, Page)
PagesEnd(b)  == PagesFrom(b) + RoundDown(EndOf(b) - PagesFrom(b), Page)

(* A block that ends before its first page boundary has no such pages.      *)
HasPageBoundary(b) == PagesFrom(b) <= EndOf(b)

CanHold(b, len, limit) ==
  /\ b.avail /\ HasPageBoundary(b)
  /\ PagesEnd(b) - PagesFrom(b) >= len /\ PagesFrom(b) + len <= limit

TopIn(b, len, limit) ==
  (IF PagesEnd(b) > limit THEN limit ELSE PagesEnd(b)) - len
=============================================================================
