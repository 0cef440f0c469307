---------------------------- MODULE MCBootChain -----------------------------
(* Up to three loaders, a kernel and a data module, over 80 bytes of memory *)
(* with pages of four.  Loaders are linked to the page at 24, kernels need  *)
(* two and a half pages from there on.                                      *)
EXTENDS BootChain

Loaders == {"unzip", "farnsworth", "bender", "morbo", "zapp"}
Others  == {"kernel", "gzkernel", "data"}
MCKernels == {"kernel", "gzkernel"}
MCAllocs == [k \in Loaders \cup Others |->
               CASE k = "morbo" -> <<[len |-> 1, align |-> 2], [len |-> 2, align |-> 4]>>
                 [] k = "zapp"  -> <<[len |-> 1, align |-> 1]>>
                 [] OTHER       -> <<>>]
MCPhysMax == [k \in Loaders |-> IF k = "bender" THEN 58 ELSE Limit32]

Seg(to, off, file, size) == [to |-> to, off |-> off, file |-> file, mem |-> size]
MCImage == [k \in Loaders \cup MCKernels |->
              IF k \in Loaders THEN <<Seg(24, 1, 2, 4)>>
                               ELSE <<Seg(24, 2, 3, 8), Seg(32, 0, 2, 2)>>]

MCRawLen  == [k \in Loaders \cup Others |->
                CASE k = "kernel" -> 5 [] k \in {"gzkernel", "data"} -> 2 [] OTHER -> 3]
MCFullLen == [k \in Loaders \cup Others |->
                IF k \in {"kernel", "gzkernel", "data"} THEN 5 ELSE 3]

Prefixes == {<<a>> : a \in Loaders} \cup {<<a, b>> : a, b \in Loaders}
              \cup {<<a, b, c>> : a \in {"unzip", "bender"}, b \in Loaders, c \in Loaders}
MCChains == {p \o <<k, "data">> : p \in Prefixes, k \in MCKernels}

Ram(a, n) == [addr |-> a, len |-> n, avail |-> TRUE]
Hole(a, n) == [addr |-> a, len |-> n, avail |-> FALSE]

(* Low memory, a hole, and extended memory of several sizes, as PCs have.   *)
TwoBlocks == {<<Ram(0, 23), Hole(23, 1), Ram(24, n)>> :
                n \in {16, 22, 25} \cup 27..38 \cup {41, 46, 51, 56}}

(* What the theorem ModulesMoveOnce assumes of them.                        *)
ASSUME MapAssumption == OneBlockAbove
=============================================================================
