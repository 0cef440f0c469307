--------------------------- MODULE BootChainProofs --------------------------
(***************************************************************************)
(* Proofs about the chain of boot loaders, for all memory maps, chains and *)
(* images that a boot loader has laid out as Layout says.  The invariant   *)
(* follows each loader through its work: modules never overlap and only    *)
(* move up (Placed, Raised), the room they are copied to is above all that *)
(* are not copied yet (Copying), and what low memory still has suffices    *)
(* for what is still to be protected (Low), which keeps the protected      *)
(* areas off the trampoline (Areas).                                       *)
(***************************************************************************)
EXTENDS BootChain, Integers, SequenceTheorems, WellFoundedInduction, TLAPS

LowEnd == CHOOSE low \in 0..MemSize : Layout(low)

Stages == KernelAt(chain)      \* how many programs are started
Kernel == chain[Stages]
Loading == {"alloc", "copy", "start"}

Module == [start : Nat, end : Nat, string : Nat, id : Nat]

Types ==
  /\ chain \in Chains /\ mmap \in Seq(Block) /\ mods \in Seq(Module)
  /\ stage \in 1..Stages /\ Len(mods) = Len(chain) - stage
  /\ pc \in {"load", "kernel", "exit"} \cup Loading /\ (pc \in Loading => stage < Stages)
  /\ DOMAIN mem = 0..(MemSize - 1) /\ todo \in Nat /\ top \in Int
  /\ (pc = "alloc" => todo <= Len(Allocs[Kind])) /\ (pc = "copy" => todo <= Len(mods))

(* What the stages from here on may still take of low memory.               *)
Owed ==
  LET taken == IF pc = "load" THEN Total(chain)[stage - 1] ELSE Total(chain)[stage]
  IN Total(chain)[Stages - 1] - taken + (IF pc = "alloc" THEN Needed(Kind)[todo] ELSE 0)

Low ==
  /\ Len(mmap) > 0 /\ mmap[1].avail /\ mmap[1].addr <= Code /\ EndOf(mmap[1]) <= LowEnd
  /\ \A i \in 1..Len(mmap) : EndOf(mmap[i]) <= MemSize
  /\ pc \in Loading \cup {"load"} =>
       \A s \in 2..Stages : Code + Len(Image[chain[s]]) + 1 + Owed <= EndOf(mmap[1])

Areas ==
  /\ ProtectedIntact
  /\ \A a \in areas :
       /\ a.addr \in Nat /\ a.len \in Nat /\ EndOf(mmap[1]) <= a.addr /\ a.addr + a.len <= LowEnd
       /\ \A s \in 2..Stages : Code + Len(Image[chain[s]]) < a.addr

(* Module n, and those behind it in the list.                               *)
Placed ==
  \A n \in 1..Len(mods) : LET m == mods[n] IN
    /\ m.id = stage - 1 + n
    /\ m.end = m.start + RawLen[KindOf(m.id)] \/ m.end = m.start + FullLen[KindOf(m.id)]
    /\ LowEnd <= m.start /\ m.end <= MemSize
    /\ m.string = m.id - 1 \/ (m.string = m.end /\ m.end < MemSize)
    /\ \A k \in (n + 1)..Len(mods) : m.end <= mods[k].start /\ m.string < mods[k].start
    /\ \A s \in 1..(Stages - 1) : Below(Image[chain[s]], m.start)

(* The kernel's memory is below the end of the modules, and below all of    *)
(* them once they were moved.                                               *)
Raised ==
  /\ Below(Image[Kernel], mods[Len(mods)].end)
  /\ \A n \in 1..Len(mods) :
       relocated # 0 \/ (pc = "copy" /\ n > todo) => Below(Image[Kernel], mods[n].start)

(* Modules that are still to be copied are below the room for them.         *)
Bottom == top - Sums(Sizes)[todo]
Copying ==
  pc = "copy" =>
    /\ top <= MemSize /\ Below(Image[Kernel], Bottom)
    /\ \A n \in 1..todo : mods[n].end <= Bottom /\ (n < Len(mods) => mods[n].string < Bottom)
    /\ \A n \in (todo + 1)..Len(mods) : top <= mods[n].start

(* Module m of chain c as it was loaded, or inflated.                       *)
RawByte(c, i, k) == <<IF RawLen[c[i + 1]] # FullLen[c[i + 1]] THEN "packed" ELSE "plain", i, k>>
IsRaw(c, memory, m) ==
  /\ m.end - m.start = RawLen[c[m.id + 1]]
  /\ \A k \in 0..(RawLen[c[m.id + 1]] - 1) : memory[m.start + k] = RawByte(c, m.id, k)
IsFull(c, memory, m) ==
  /\ m.end - m.start = FullLen[c[m.id + 1]]
  /\ \A k \in 0..(FullLen[c[m.id + 1]] - 1) : memory[m.start + k] = Inflated(m.id, k)
IsIntact(c, memory, m) ==
  memory[m.string] = String(m.id) /\ (IsRaw(c, memory, m) \/ IsFull(c, memory, m))

Contents == Harmless => \A n \in 1..Len(mods) : IsIntact(chain, mem, mods[n])

(* A segment of module m is in place.  The trampoline has put the first     *)
(* segments there, and will copy the others from the module at a.           *)
InPlace(memory, m, seg) ==
  \A x \in seg.to..(seg.to + seg.mem - 1) : memory[x] = ImageByte(m, seg, x)
Copy(seg, a) == [to |-> seg.to, src |-> a + seg.off, file |-> seg.file, mem |-> seg.mem]
Done == Len(Image[Kind]) - Len(code)
Trampoline ==
  pc = "load" => \E a \in 0..MemSize :
    /\ 1 < stage /\ code \in Seq([to : Nat, src : Nat, file : Nat, mem : Nat]) /\ Done \in Nat
    /\ \A i \in 1..Len(code) : code[i] = Copy(Image[Kind][Done + i], a)
    /\ Harmless =>
         /\ Below(Image[Kind], a) /\ a + FullLen[Kind] <= MemSize
         /\ \A k \in 0..(FullLen[Kind] - 1) : mem[a + k] = Inflated(stage - 1, k)
         /\ \A i \in 1..Done : InPlace(mem, stage - 1, Image[Kind][i])

IInv == /\ Types /\ Low /\ Areas /\ Placed /\ Raised /\ Copying
        /\ Contents /\ Trampoline /\ StageIsLoaded
-----------------------------------------------------------------------------
(* Induction, and the sums of the first numbers of a sequence.              *)
Less == {p \in Nat \X Nat : p[1] < p[2]}

LEMMA LessWellFounded == IsWellFoundedOn(Less, Nat)
<1>1. Less \cap (Nat \X Nat) \subseteq OpToRel(<, Nat)
  BY Zenon DEF Less, OpToRel
<1> QED
  BY <1>1, NatLessThanWellFounded, IsWellFoundedOnSubrelation, Zenon

LEMMA Least ==
  ASSUME NEW T, T \subseteq Nat, T # {}
  PROVE  \E x \in T : \A y \in T : x <= y
<1>1. PICK x \in T : \A y \in T : ~(<<y, x>> \in Less)
  BY LessWellFounded, WFMin, Zenon
<1>2. ASSUME NEW y \in T PROVE x <= y
  <2>1. <<y, x>> \notin Less /\ x \in Nat /\ y \in Nat
    BY <1>1
  <2> QED
    BY <2>1 DEF Less
<1> QED
  BY <1>2

LEMMA Induction ==
  ASSUME NEW S, S \subseteq Nat, 0 \in S, \A n \in S : n + 1 \in S PROVE \A n \in Nat : n \in S
<1> SUFFICES ASSUME NEW n \in Nat, n \notin S PROVE FALSE
  OBVIOUS
<1> DEFINE T == Nat \ S
<1>1. PICK x \in T : \A y \in T : x <= y
  <2>1. T \subseteq Nat /\ T # {}
    OBVIOUS
  <2> HIDE DEF T
  <2> QED
    BY <2>1, Least
<1>2. x \in Nat /\ x # 0
  OBVIOUS
<1>3. x - 1 \in Nat /\ ~(x <= x - 1)
  BY <1>2
<1>4. x - 1 \in S
  BY <1>1, <1>3
<1>5. (x - 1) + 1 = x
  BY <1>2
<1> QED
  BY <1>4, <1>5

LEMMA LastOfSome ==
  ASSUME NEW n \in Nat, NEW S, S \subseteq 1..n, S # {}
  PROVE  Max(S) \in S /\ \A y \in S : y <= Max(S)
<1> DEFINE T == {x \in Nat : \A y \in S : y <= x}
<1>1. PICK x \in T : \A y \in T : x <= y
  <2>1. T \subseteq Nat /\ n \in T
    OBVIOUS
  <2> HIDE DEF T
  <2> QED
    BY <2>1, Least
<1>2. x \in S
  <2> SUFFICES ASSUME x \notin S PROVE FALSE
    OBVIOUS
  <2>1. x \in Nat /\ \A y \in S : y \in Nat /\ 1 <= y /\ y <= x /\ y # x
    OBVIOUS
  <2>2. ASSUME NEW y \in S PROVE x - 1 \in Nat /\ y <= x - 1
    <3>1. y \in Nat /\ 1 <= y /\ y <= x /\ y # x /\ x \in Nat
      BY <2>1
    <3> QED
      BY <3>1
  <2>3. x - 1 \in Nat /\ x \in Nat
    BY <2>1, <2>2
  <2>4. x - 1 \in T
    BY <2>2, <2>3
  <2> HIDE DEF T
  <2>5. x <= x - 1
    BY <1>1, <2>4
  <2> QED
    BY <2>3, <2>5
<1>3. \A y \in S : x >= y
  OBVIOUS
<1>4. \E z \in S : \A y \in S : z >= y
  BY <1>2, <1>3
<1>5. Max(S) \in S /\ \A y \in S : Max(S) >= y
  BY <1>4, Zenon DEF Max
<1> QED
  BY <1>5

IsSum(s, f, n) ==
  /\ f \in [0..n -> Nat] /\ f[0] = 0
  /\ \A k \in 1..n : f[k] = f[k - 1] + s[k]

LEMMA SumExists ==
  ASSUME NEW s \in Seq(Nat) PROVE \E f : IsSum(s, f, Len(s))
<1> DEFINE S == {n \in Nat : n <= Len(s) => \E f : IsSum(s, f, n)}
<1>1. 0 \in S
  <2>1. IsSum(s, [k \in 0..0 |-> 0], 0)
    BY DEF IsSum
  <2> QED
    BY <2>1
<1>2. ASSUME NEW n \in S PROVE n + 1 \in S
  <2> SUFFICES ASSUME n + 1 <= Len(s) PROVE \E f : IsSum(s, f, n + 1)
    OBVIOUS
  <2>1. PICK f : IsSum(s, f, n)
    OBVIOUS
  <2> DEFINE g == [k \in 0..(n + 1) |-> IF k <= n THEN f[k] ELSE f[n] + s[n + 1]]
  <2>2. n \in Nat /\ s[n + 1] \in Nat /\ f[n] \in Nat
    BY <2>1 DEF IsSum
  <2>3. g \in [0..(n + 1) -> Nat] /\ g[0] = 0
    BY <2>1, <2>2 DEF IsSum
  <2>4. ASSUME NEW k \in 1..(n + 1) PROVE g[k] = g[k - 1] + s[k]
    <3>1. CASE k = n + 1
      BY <2>2, <3>1
    <3>2. CASE k <= n
      <4>1. k \in 1..n /\ k - 1 \in 0..(n + 1) /\ k - 1 <= n /\ k \in 0..(n + 1)
        BY <2>2, <3>2
      <4> QED
        BY <2>1, <3>2, <4>1 DEF IsSum
    <3> QED
      BY <2>2, <3>1, <3>2
  <2>5. IsSum(s, g, n + 1)
    BY <2>3, <2>4 DEF IsSum
  <2> QED
    BY <2>5
<1>3. Len(s) \in Nat
  OBVIOUS
<1>4. \A n \in Nat : n \in S
  <2>1. S \subseteq Nat
    OBVIOUS
  <2> HIDE DEF S
  <2> QED
    BY <1>1, <1>2, <2>1, Induction
<1> QED
  BY <1>3, <1>4

LEMMA SumsAre == ASSUME NEW s \in Seq(Nat) PROVE IsSum(s, Sums(s), Len(s))
<1> DEFINE Is(f) == f = [n \in 0..Len(s) |-> IF n = 0 THEN 0 ELSE f[n - 1] + s[n]]
<1>1. PICK g : IsSum(s, g, Len(s))
  BY SumExists
<1>2. Is(g)
  <2>1. \A n \in 0..Len(s) : g[n] = IF n = 0 THEN 0 ELSE g[n - 1] + s[n]
    BY <1>1 DEF IsSum
  <2>2. g = [n \in 0..Len(s) |-> g[n]]
    BY <1>1 DEF IsSum
  <2> QED
    BY <2>1, <2>2
<1>3. Sums(s) = CHOOSE f : Is(f)
  BY DEF Sums
<1>4. Is(Sums(s))
  <2> HIDE DEF Is
  <2> QED
    BY <1>2, <1>3, Zenon
<1> DEFINE f == Sums(s)
<1>5. /\ f[0] = 0 /\ \A n \in 1..Len(s) : f[n] = f[n - 1] + s[n]
      /\ f = [n \in 0..Len(s) |-> f[n]]
  <2> HIDE DEF f
  <2>1. Is(f)
    BY <1>4 DEF f
  <2>2. Len(s) \in Nat
    OBVIOUS
  <2>3. \A n \in 0..Len(s) : f[n] = IF n = 0 THEN 0 ELSE f[n - 1] + s[n]
    BY <2>1
  <2>4. f = [n \in 0..Len(s) |-> f[n]]
    BY <2>1, <2>3
  <2> QED
    BY <2>2, <2>3, <2>4
<1> DEFINE S == {n \in Nat : n <= Len(s) => f[n] \in Nat}
<1>6. 0 \in S
  BY <1>5
<1>7. ASSUME NEW n \in S PROVE n + 1 \in S
  <2> SUFFICES ASSUME n + 1 <= Len(s) PROVE f[n + 1] \in Nat
    OBVIOUS
  <2> HIDE DEF f
  <2>1. n + 1 \in 1..Len(s) /\ (n + 1) - 1 = n /\ f[n] \in Nat /\ s[n + 1] \in Nat
    OBVIOUS
  <2>2. f[n + 1] = f[n] + s[n + 1]
    BY <1>5, <2>1
  <2> QED
    BY <2>1, <2>2
<1>8. \A n \in Nat : n \in S
  <2>1. S \subseteq Nat
    OBVIOUS
  <2> HIDE DEF S
  <2> QED
    BY <1>6, <1>7, <2>1, Induction
<1>9. \A n \in 0..Len(s) : f[n] \in Nat
  BY <1>8
<1> HIDE DEF f
<1>10. f \in [0..Len(s) -> Nat]
  BY <1>5, <1>9
<1> QED
  BY <1>5, <1>10 DEF IsSum, f

LEMMA SumsUpTo ==
  ASSUME NEW s \in Seq(Nat), NEW t \in Seq(Nat), NEW k \in Nat, k <= Len(s), k <= Len(t),
         \A j \in 1..k : s[j] = t[j]
  PROVE  Sums(s)[k] = Sums(t)[k]
<1> DEFINE S == {n \in Nat : n <= k => Sums(s)[n] = Sums(t)[n]}
<1>0. IsSum(s, Sums(s), Len(s)) /\ IsSum(t, Sums(t), Len(t))
  BY SumsAre
<1>1. 0 \in S
  BY <1>0 DEF IsSum
<1>2. ASSUME NEW n \in S PROVE n + 1 \in S
  <2> SUFFICES ASSUME n + 1 <= k PROVE Sums(s)[n + 1] = Sums(t)[n + 1]
    OBVIOUS
  <2>1. /\ n + 1 \in 1..Len(s) /\ n + 1 \in 1..Len(t) /\ n + 1 \in 1..k /\ (n + 1) - 1 = n
        /\ Sums(s)[n] = Sums(t)[n]
    OBVIOUS
  <2> QED
    BY <1>0, <2>1 DEF IsSum
<1>3. \A n \in Nat : n \in S
  <2>1. S \subseteq Nat
    OBVIOUS
  <2> HIDE DEF S
  <2> QED
    BY <1>1, <1>2, <2>1, Induction
<1> QED
  BY <1>3

LEMMA SumsGrow ==
  ASSUME NEW s \in Seq(Nat), NEW i \in 0..Len(s), NEW j \in i..Len(s)
  PROVE  Sums(s)[i] <= Sums(s)[j]
<1> DEFINE S == {n \in Nat : i + n <= Len(s) => Sums(s)[i] <= Sums(s)[i + n]}
<1>0. IsSum(s, Sums(s), Len(s))
  BY SumsAre
<1>1. 0 \in S
  <2>1. i + 0 = i /\ Sums(s)[i] \in Nat
    BY <1>0 DEF IsSum
  <2> QED
    BY <2>1
<1>2. ASSUME NEW n \in S PROVE n + 1 \in S
  <2> SUFFICES ASSUME i + (n + 1) <= Len(s) PROVE Sums(s)[i] <= Sums(s)[i + (n + 1)]
    OBVIOUS
  <2>1. /\ i + (n + 1) \in 1..Len(s) /\ (i + (n + 1)) - 1 = i + n /\ i + n \in 0..Len(s)
        /\ Sums(s)[i] <= Sums(s)[i + n]
    OBVIOUS
  <2>2. Sums(s)[i + (n + 1)] = Sums(s)[i + n] + s[i + (n + 1)]
    BY <1>0, <2>1 DEF IsSum
  <2>3. Sums(s)[i] \in Nat /\ Sums(s)[i + n] \in Nat
    BY <1>0, <2>1 DEF IsSum
  <2>4. s[i + (n + 1)] \in Nat
    BY <2>1
  <2> QED
    BY <2>1, <2>2, <2>3, <2>4
<1>3. \A n \in Nat : n \in S
  <2>1. S \subseteq Nat
    OBVIOUS
  <2> HIDE DEF S
  <2> QED
    BY <1>1, <1>2, <2>1, Induction
<1>4. j - i \in Nat /\ i + (j - i) = j /\ j <= Len(s)
  BY LenProperties
<1> QED
  BY <1>3, <1>4

-----------------------------------------------------------------------------
(* Rounding.                                                                *)
LEMMA RoundsDown ==
  ASSUME NEW a \in Nat, NEW n \in Nat \ {0}
  PROVE  RoundDown(a, n) \in Nat /\ RoundDown(a, n) <= a /\ a < RoundDown(a, n) + n
<1>1. a \div n \in Nat /\ a % n \in 0..(n - 1) /\ a = n * (a \div n) + (a % n)
  OBVIOUS
<1>2. n * (a \div n) \in Nat
  BY <1>1
<1> DEFINE q == n * (a \div n)
           r == a % n
<1>3. q \in Nat /\ r \in 0..(n - 1) /\ a = q + r
  BY <1>1, <1>2
<1> HIDE DEF q, r
<1>4. q \in Nat /\ q <= a /\ a < q + n
  BY <1>3
<1> QED
  BY <1>4 DEF RoundDown, q

LEMMA RoundsUp ==
  ASSUME NEW a \in Nat, NEW n \in Nat \ {0} PROVE RoundUp(a, n) \in Nat /\ a <= RoundUp(a, n)
<1>1. a + n - 1 \in Nat
  OBVIOUS
<1>2. /\ RoundDown(a + n - 1, n) \in Nat
      /\ a + n - 1 < RoundDown(a + n - 1, n) + n
  BY <1>1, RoundsDown
<1> QED
  BY <1>2 DEF RoundUp

LEMMA PagedIs == ASSUME NEW n \in Nat PROVE Paged(n) \in Nat /\ n <= Paged(n)
  BY MbiMemoryAssumption, RoundsUp DEF Paged

LEMMA PagesEndInBlock ==
  ASSUME NEW b \in Block, HasPageBoundary(b) PROVE PagesEnd(b) \in Nat /\ PagesEnd(b) <= EndOf(b)
<1>1. b.addr \in Nat /\ EndOf(b) \in Nat
  BY DEF Block, EndOf
<1>2. PagesFrom(b) \in Nat /\ PagesFrom(b) <= EndOf(b)
  BY <1>1, MbiMemoryAssumption, RoundsUp DEF PagesFrom, HasPageBoundary
<1>3. EndOf(b) - PagesFrom(b) \in Nat
  BY <1>1, <1>2
<1>4. /\ RoundDown(EndOf(b) - PagesFrom(b), Page) \in Nat
      /\ RoundDown(EndOf(b) - PagesFrom(b), Page) <= EndOf(b) - PagesFrom(b)
  BY <1>3, MbiMemoryAssumption, RoundsDown
<1> QED
  BY <1>1, <1>2, <1>4 DEF PagesEnd
-----------------------------------------------------------------------------
(* What the layout says of the chain at hand.                               *)
LEMMA LowEndIs == LowEnd \in 0..MemSize /\ Layout(LowEnd)
  BY BootChainAssumption, Zenon DEF LowEnd

LEMMA NumbersAre ==
  Code \in Nat /\ MemSize \in Nat /\ LowEnd \in Nat /\ LowEnd <= MemSize /\ LowEnd < Limit32
<1>1. Code \in Nat /\ MemSize \in Nat /\ LowEnd \in 0..MemSize
  BY LowEndIs, BootChainAssumption
<1>2. LowEnd < Limit32
  BY LowEndIs DEF Layout
<1> QED
  BY <1>1, <1>2

LEMMA ChainIs ==
  ASSUME NEW c \in Chains
  PROVE  /\ Len(c) \in 3..(Code + 1) /\ KernelAt(c) \in 2..(Len(c) - 1)
         /\ c[KernelAt(c)] \in Kernels /\ \A s \in 1..(KernelAt(c) - 1) : c[s] \notin Kernels
<1>1. IsChain(c, LowEnd)
  BY LowEndIs DEF Layout
<1>2. Len(c) \in 3..(Code + 1) /\ \E k \in 2..(Len(c) - 1) : IsKernelAt(c, k)
  BY <1>1, Zenon DEF IsChain
<1>3. KernelAt(c) \in 2..(Len(c) - 1) /\ IsKernelAt(c, KernelAt(c))
  BY <1>2, Zenon DEF KernelAt
<1> QED
  BY <1>2, <1>3, Zenon DEF IsKernelAt

LEMMA KindsAre ==
  ASSUME NEW c \in Chains
  PROVE  /\ \A s \in 1..Len(c) : RawLen[c[s]] \in Nat \ {0} /\ FullLen[c[s]] \in Nat \ {0}
         /\ \A s \in 1..KernelAt(c) : IsImage(Image[c[s]], FullLen[c[s]], LowEnd)
         /\ \A s \in 1..(KernelAt(c) - 1) :
              /\ PhysMax[c[s]] \in Nat \ {0}
              /\ Allocs[c[s]] \in Seq([len : Nat, align : Nat \ {0}])
              /\ \A b \in Bases : Below(Image[c[s]], b)
<1>1. IsChain(c, LowEnd)
  BY LowEndIs DEF Layout
<1> QED
  BY <1>1, Zenon DEF IsChain

LEMMA ImagesAre ==
  ASSUME NEW segs, NEW n, IsImage(segs, n, LowEnd)
  PROVE  /\ Len(segs) \in Nat
         /\ \A i \in 1..Len(segs) :
              /\ segs[i].to \in Nat /\ segs[i].off \in Nat /\ segs[i].file \in Nat /\ segs[i].mem \in Nat
              /\ LowEnd <= segs[i].to /\ segs[i].file <= segs[i].mem
              /\ segs[i].off + segs[i].file <= n
<1>1. segs \in Seq(Segment)
  BY DEF IsImage
<1>2. Len(segs) \in Nat /\ \A i \in 1..Len(segs) : segs[i] \in Segment
  <2> HIDE DEF Segment
  <2> QED
    BY <1>1
<1> QED
  BY <1>2, Zenon DEF IsImage, Segment

(* What low memory has to have room for.                                    *)
Shares(k) == [t \in 1..Len(Allocs[k]) |-> Allocs[k][t].len + Allocs[k][t].align - 1]

LEMMA NeedsAre ==
  ASSUME NEW c \in Chains, NEW s \in 1..(KernelAt(c) - 1)
  PROVE  LET k == c[s] IN
         /\ Len(Allocs[k]) \in Nat
         /\ \A t \in 1..Len(Allocs[k]) : Allocs[k][t].len \in Nat /\ Allocs[k][t].align \in Nat \ {0}
         /\ \A t \in 0..Len(Allocs[k]) : Needed(k)[t] \in Nat
         /\ Needed(k)[0] = 0
         /\ \A t \in 1..Len(Allocs[k]) :
              Needed(k)[t] = Needed(k)[t - 1] + (Allocs[k][t].len + Allocs[k][t].align - 1)
<1> DEFINE k == c[s]
           Request == [len : Nat, align : Nat \ {0}]
<1>1. Allocs[k] \in Seq(Request)
  BY KindsAre
<1>2. Len(Allocs[k]) \in Nat /\ \A t \in 1..Len(Allocs[k]) : Allocs[k][t] \in Request
  <2> HIDE DEF Request, k
  <2> QED
    BY <1>1
<1> HIDE DEF k
<1>3. \A t \in 1..Len(Allocs[k]) : Allocs[k][t].len \in Nat /\ Allocs[k][t].align \in Nat \ {0}
  BY <1>2
<1>4. Shares(k) \in Seq(Nat) /\ Len(Shares(k)) = Len(Allocs[k])
  <2>1. \A t \in 1..Len(Allocs[k]) : Allocs[k][t].len + Allocs[k][t].align - 1 \in Nat
    BY <1>3
  <2>2. Shares(k) \in [1..Len(Allocs[k]) -> Nat]
    BY <2>1 DEF Shares
  <2> HIDE DEF Request
  <2> QED
    BY <1>2, <2>2
<1>5. IsSum(Shares(k), Needed(k), Len(Allocs[k]))
  BY <1>4, SumsAre DEF Needed, Shares
<1>6. \A t \in 1..Len(Allocs[k]) : Shares(k)[t] = Allocs[k][t].len + Allocs[k][t].align - 1
  BY DEF Shares
<1>7. \A t \in 0..Len(Allocs[k]) : Needed(k)[t] \in Nat
  BY <1>5 DEF IsSum
<1>8. Needed(k)[0] = 0 /\ \A t \in 1..Len(Allocs[k]) : Needed(k)[t] = Needed(k)[t - 1] + Shares(k)[t]
  BY <1>5 DEF IsSum
<1> QED
  BY <1>2, <1>3, <1>6, <1>7, <1>8 DEF k

LEMMA TotalsAre ==
  ASSUME NEW c \in Chains
  PROVE  /\ Total(c)[0] = 0
         /\ \A s \in 0..(KernelAt(c) - 1) :
              Total(c)[s] \in Nat /\ Total(c)[s] <= Total(c)[KernelAt(c) - 1]
         /\ \A s \in 1..(KernelAt(c) - 1) :
              Total(c)[s] = Total(c)[s - 1] + Needed(c[s])[Len(Allocs[c[s]])]
<1> DEFINE N == KernelAt(c) - 1
           f == [s \in 1..N |-> Needed(c[s])[Len(Allocs[c[s]])]]
<1>1. N \in Nat
  BY ChainIs, NumbersAre
<1>2. \A s \in 1..N : Needed(c[s])[Len(Allocs[c[s]])] \in Nat
  BY NeedsAre
<1> HIDE DEF N
<1>3. f \in Seq(Nat) /\ Len(f) = N
  <2>1. f \in [1..N -> Nat]
    BY <1>2
  <2> HIDE DEF f
  <2> QED
    BY <1>1, <2>1
<1>4. Total(c) = Sums(f)
  BY DEF Total, N
<1>5. \A s \in 1..N : f[s] = Needed(c[s])[Len(Allocs[c[s]])]
  OBVIOUS
<1> HIDE DEF f
<1>6. IsSum(f, Total(c), N)
  BY <1>3, <1>4, SumsAre
<1>7. Total(c)[0] = 0 /\ \A s \in 1..N : Total(c)[s] = Total(c)[s - 1] + f[s]
  BY <1>6 DEF IsSum
<1>8. \A s \in 0..N : Total(c)[s] \in Nat
  BY <1>6 DEF IsSum
<1>9. ASSUME NEW s \in 0..N PROVE Total(c)[s] <= Total(c)[N]
  <2>1. N \in s..Len(f) /\ s \in 0..Len(f)
    BY <1>1, <1>3
  <2> QED
    BY <1>3, <1>4, <2>1, SumsGrow
<1> QED
  BY <1>5, <1>7, <1>8, <1>9 DEF N

LEMMA OwedIs ==
  ASSUME Types, pc \in Loading \cup {"load"} PROVE Owed \in Nat
<1>1. chain \in Chains /\ stage \in 1..Stages /\ Stages \in Nat
  BY ChainIs, NumbersAre DEF Types, Stages
<1>2. CASE pc = "load"
  <2>1. stage - 1 \in 0..(Stages - 1) /\ Stages - 1 \in 0..(Stages - 1)
    BY <1>1
  <2>2. /\ Total(chain)[stage - 1] \in Nat /\ Total(chain)[Stages - 1] \in Nat
        /\ Total(chain)[stage - 1] <= Total(chain)[Stages - 1]
    BY <1>1, <2>1, TotalsAre DEF Stages
  <2> QED
    BY <1>2, <2>2 DEF Owed
<1>3. CASE pc # "load"
  <2>1. stage < Stages
    BY <1>3 DEF Types
  <2>2. stage \in 0..(Stages - 1) /\ Stages - 1 \in 0..(Stages - 1) /\ stage \in 1..(Stages - 1)
    BY <1>1, <2>1
  <2>3. /\ Total(chain)[stage] \in Nat /\ Total(chain)[Stages - 1] \in Nat
        /\ Total(chain)[stage] <= Total(chain)[Stages - 1]
    BY <1>1, <2>2, TotalsAre DEF Stages
  <2>4. pc = "alloc" => Needed(Kind)[todo] \in Nat
    <3>1. pc = "alloc" => todo \in 0..Len(Allocs[Kind])
      BY <1>1, <2>2, NeedsAre DEF Types, Stages, Kind
    <3> QED
      BY <1>1, <2>2, <3>1, NeedsAre DEF Stages, Kind
  <2> QED
    BY <1>3, <2>3, <2>4 DEF Owed
<1> QED
  BY <1>2, <1>3
-----------------------------------------------------------------------------
(* What the state holds.                                                    *)
LEMMA StageIs ==
  ASSUME Types
  PROVE  /\ chain \in Chains /\ stage \in 1..Stages /\ Stages \in 2..(Len(chain) - 1)
         /\ Len(chain) \in 3..(Code + 1) /\ Len(mods) = Len(chain) - stage /\ Len(mods) \in Nat \ {0}
         /\ (stage < Stages => Kind \notin Kernels) /\ (stage = Stages => Kind \in Kernels)
         /\ (Harmless <=> relocated # 0 \/ stage < Stages)
<1>1. /\ chain \in Chains /\ stage \in 1..Stages /\ Stages \in 2..(Len(chain) - 1)
      /\ Len(chain) \in 3..(Code + 1) /\ Len(mods) = Len(chain) - stage
  BY ChainIs DEF Types, Stages
<1>2. Len(mods) \in Nat \ {0}
  BY <1>1, NumbersAre
<1>3. (stage < Stages => Kind \notin Kernels) /\ (stage = Stages => Kind \in Kernels)
  <2>1. stage < Stages => stage \in 1..(Stages - 1)
    BY <1>1, NumbersAre
  <2> QED
    BY <1>1, <2>1, ChainIs DEF Stages, Kind
<1>4. stage < Stages \/ stage = Stages
  BY <1>1, NumbersAre
<1> QED
  BY <1>1, <1>2, <1>3, <1>4 DEF Harmless

LEMMA ModuleIs ==
  ASSUME Types, Placed, NEW n \in 1..Len(mods)
  PROVE  /\ mods[n].start \in Nat /\ mods[n].end \in Nat /\ mods[n].string \in Nat /\ mods[n].id \in Nat
         /\ mods[n].id = stage - 1 + n /\ mods[n].id + 1 \in 2..Len(chain)
         /\ RawLen[chain[mods[n].id + 1]] \in Nat \ {0} /\ FullLen[chain[mods[n].id + 1]] \in Nat \ {0}
         /\ LowEnd <= mods[n].start /\ mods[n].start < mods[n].end /\ mods[n].end <= MemSize
<1>1. mods[n] \in Module
  <2> HIDE DEF Module
  <2> QED
    BY DEF Types
<1>2. /\ mods[n].start \in Nat /\ mods[n].end \in Nat /\ mods[n].string \in Nat /\ mods[n].id \in Nat
  BY <1>1 DEF Module
<1>3. /\ mods[n].id = stage - 1 + n
      /\ LowEnd <= mods[n].start /\ mods[n].end <= MemSize
      /\ \/ mods[n].end = mods[n].start + RawLen[chain[mods[n].id + 1]]
         \/ mods[n].end = mods[n].start + FullLen[chain[mods[n].id + 1]]
  BY Zenon DEF Placed, KindOf
<1>4. mods[n].id + 1 \in 2..Len(chain)
  <2>1. stage \in Nat /\ 1 <= stage /\ Len(chain) \in Nat /\ Len(mods) = Len(chain) - stage
    BY StageIs, NumbersAre
  <2> QED
    BY <1>3, <2>1
<1>5. RawLen[chain[mods[n].id + 1]] \in Nat \ {0} /\ FullLen[chain[mods[n].id + 1]] \in Nat \ {0}
  <2>1. mods[n].id + 1 \in 1..Len(chain)
    BY <1>4
  <2> QED
    BY <2>1, StageIs, KindsAre
<1>6. mods[n].start < mods[n].end
  BY <1>2, <1>3, <1>5
<1> QED
  BY <1>2, <1>3, <1>4, <1>5, <1>6

LEMMA StringIs ==
  ASSUME Types, Placed, NEW n \in 1..Len(mods)
  PROVE  /\ mods[n].string < Code \/ (mods[n].string = mods[n].end /\ mods[n].string < MemSize)
         /\ \A k \in (n + 1)..Len(mods) : mods[n].end <= mods[k].start /\ mods[n].string < mods[k].start
<1>1. mods[n].string = mods[n].id - 1 \/ (mods[n].string = mods[n].end /\ mods[n].end < MemSize)
  BY Zenon DEF Placed
<1>2. mods[n].id - 1 < Code
  BY ModuleIs, StageIs, NumbersAre, SMTT(30)
<1> QED
  BY <1>1, <1>2, Zenon DEF Placed

LEMMA Untouched ==
  ASSUME NEW c, NEW memory, NEW after, NEW m,
         m.start \in Nat, m.end \in Nat, RawLen[c[m.id + 1]] \in Nat, FullLen[c[m.id + 1]] \in Nat,
         \A x \in m.start..(m.end - 1) : after[x] = memory[x],
         after[m.string] = memory[m.string], IsIntact(c, memory, m)
  PROVE  IsIntact(c, after, m)
<1>1. ASSUME IsRaw(c, memory, m) PROVE IsRaw(c, after, m)
  <2>1. \A k \in 0..(RawLen[c[m.id + 1]] - 1) : m.start + k \in m.start..(m.end - 1)
    BY <1>1 DEF IsRaw
  <2> QED
    BY <1>1, <2>1 DEF IsRaw
<1>2. ASSUME IsFull(c, memory, m) PROVE IsFull(c, after, m)
  <2>1. \A k \in 0..(FullLen[c[m.id + 1]] - 1) : m.start + k \in m.start..(m.end - 1)
    BY <1>2 DEF IsFull
  <2> QED
    BY <1>2, <2>1 DEF IsFull
<1> QED
  BY <1>1, <1>2 DEF IsIntact

LEMMA FirstBlockIs ==
  ASSUME Types, Low
  PROVE  mmap[1] \in Block /\ mmap[1].addr \in Nat /\ mmap[1].len \in Nat /\ EndOf(mmap[1]) \in Nat
<1>1. mmap[1] \in Block
  <2>1. 1 \in 1..Len(mmap)
    <3> HIDE DEF Block
    <3> QED
      BY DEF Types, Low
  <2> HIDE DEF Block
  <2> QED
    BY <2>1 DEF Types
<1> QED
  BY <1>1 DEF Block, EndOf

LEMMA CodesAre ==
  ASSUME Types PROVE \A s \in 2..Stages : Len(Image[chain[s]]) \in Nat
<1>1. \A s \in 2..Stages : s \in 1..Stages
  BY StageIs, NumbersAre
<1> QED
  BY <1>1, StageIs, KindsAre, ImagesAre DEF Stages

Running == Loading \cup {"load"}
IsRunning == pc \in Running
OwesSome  == Owed \in Nat

LEMMA CodeIsLow == ASSUME Types, Low, pc \in Running PROVE Code < LowEnd
<1>1. 2 \in 2..Stages
  BY StageIs, NumbersAre
<1>2. Code + Len(Image[chain[2]]) + 1 + Owed <= EndOf(mmap[1]) /\ EndOf(mmap[1]) <= LowEnd
  BY <1>1 DEF Low, Running
<1> QED
  BY <1>1, <1>2, CodesAre, OwedIs, FirstBlockIs, NumbersAre DEF Running

LEMMA OwesWhileRunning == Types /\ IsRunning => OwesSome
  BY OwedIs DEF IsRunning, OwesSome, Running

LEMMA OwedIsNext == ASSUME Types', pc' \in Running PROVE Owed' \in Nat
<1>1. Types' /\ IsRunning' => OwesSome'
  BY OwesWhileRunning, PTL
<1> QED
  BY <1>1 DEF IsRunning, OwesSome, Running, Loading

(* A step that leaves memory, map and modules as they are.                  *)
LEMMA Quiet ==
  ASSUME Types, Types', Low, Areas, Placed, Raised, Contents,
         UNCHANGED <<mmap, chain, stage, mods, mem, areas>>,
         pc' \in Running => pc \in Running /\ Owed' <= Owed,
         \/ relocated' = relocated /\ (pc' = "copy" => todo' = Len(mods))
         \/ relocated' # 0 /\ pc = "copy" /\ todo = 0 /\ pc' # "copy" /\ stage < Stages
  PROVE  Low' /\ Areas' /\ Placed' /\ Raised' /\ Contents'
<1>1. Stages' = Stages /\ Kind' = Kind /\ Kernel' = Kernel
  BY DEF Stages, Kind, Kernel
<1>2. Low'
  <2>1. pc' \in Running =>
          \A s \in 2..Stages : Code + Len(Image[chain[s]]) + 1 + Owed' <= EndOf(mmap[1])
    <3> SUFFICES ASSUME pc' \in Running, NEW s \in 2..Stages
                 PROVE  Code + Len(Image[chain[s]]) + 1 + Owed' <= EndOf(mmap[1])
      OBVIOUS
    <3>1. Len(Image[chain[s]]) \in Nat /\ EndOf(mmap[1]) \in Nat /\ Code \in Nat
      BY CodesAre, FirstBlockIs, NumbersAre
    <3>2. Owed \in Nat
      BY OwedIs DEF Running
    <3>3. Owed' \in Nat
      BY OwedIsNext
    <3>4. Code + Len(Image[chain[s]]) + 1 + Owed <= EndOf(mmap[1])
      BY DEF Low, Running
    <3> QED
      BY <3>1, <3>2, <3>3, <3>4
  <2> QED
    BY <1>1, <2>1 DEF Low, Running, Loading
<1>3. Areas'
  BY <1>1 DEF Areas, ProtectedIntact
<1>4. Placed'
  BY <1>1 DEF Placed, KindOf
<1>5. Raised'
  BY <1>1, StageIs DEF Raised
<1>6. Contents'
  <2>1. Harmless' => Harmless
    BY <1>1, StageIs DEF Harmless
  <2> QED
    BY <2>1 DEF Contents
<1> QED
  BY <1>2, <1>3, <1>4, <1>5, <1>6
-----------------------------------------------------------------------------
(* The sizes of the modules, and the room that is found for all of them.    *)
LEMMA BlocksAre == ASSUME Types PROVE Len(mmap) \in Nat /\ \A i \in 1..Len(mmap) : mmap[i] \in Block
<1> HIDE DEF Block
<1> QED
  BY DEF Types

LEMMA SizesAre ==
  ASSUME Types, Placed
  PROVE  /\ \A n \in 1..Len(mods) : NewLen(n) \in Nat /\ NewLen(n) + 1 <= Sizes[n] /\ Sizes[n] \in Nat
         /\ Sizes \in Seq(Nat) /\ Len(Sizes) = Len(mods) /\ IsSum(Sizes, Sums(Sizes), Len(mods))
<1>1. ASSUME NEW n \in 1..Len(mods) PROVE NewLen(n) \in Nat
  <2>1. mods[n].end - mods[n].start \in Nat /\ FullLen[chain[mods[n].id + 1]] \in Nat
    BY ModuleIs
  <2> QED
    BY <2>1 DEF NewLen, ModLen, KindOf
<1>2. ASSUME NEW n \in 1..Len(mods) PROVE NewLen(n) + 1 <= Sizes[n] /\ Sizes[n] \in Nat
  BY <1>1, PagedIs, SMTT(30) DEF Sizes
<1>3. Len(mods) \in Nat
  BY StageIs
<1>4. Sizes \in [1..Len(mods) -> Nat]
  BY <1>2 DEF Sizes
<1>5. Sizes \in Seq(Nat) /\ Len(Sizes) = Len(mods)
  BY <1>3, <1>4
<1> QED
  BY <1>1, <1>2, <1>5, SumsAre

LEMMA RunnerIs ==
  ASSUME Types, stage < Stages
  PROVE  /\ PhysMax[Kind] \in Nat \ {0} /\ \A b \in Bases : Below(Image[Kind], b)
         /\ Kind \notin Kernels /\ Harmless
<1>1. stage \in 1..(KernelAt(chain) - 1)
  BY StageIs, NumbersAre DEF Stages
<1> QED
  BY <1>1, StageIs, KindsAre DEF Kind

LEMMA KernelIs ==
  ASSUME Types
  PROVE  /\ \A s \in 1..Stages : IsImage(Image[chain[s]], FullLen[chain[s]], LowEnd)
         /\ IsImage(Image[Kernel], FullLen[Kernel], LowEnd)
<1>1. Stages \in 1..Stages
  BY StageIs, NumbersAre
<1> QED
  BY <1>1, StageIs, KindsAre DEF Kernel, Stages

LEMMA BelowMore ==
  ASSUME NEW segs, NEW n, IsImage(segs, n, LowEnd), NEW x \in Int, NEW y \in Int, x <= y, Below(segs, x)
  PROVE  Below(segs, y)
BY ImagesAre DEF Below

LEMMA RoomIs ==
  ASSUME Types, Low, Placed, stage < Stages, Fitting(Size) # {}
  PROVE  LET start == TopIn(mmap[Max(Fitting(Size))], Size, PhysMax[Kind])
         IN start \in Nat /\ Size \in Nat /\ start + Size <= MemSize
<1> DEFINE i == Max(Fitting(Size))
           b == mmap[i]
<1>1. i \in Fitting(Size)
  <2>1. Fitting(Size) \subseteq 1..Len(mmap) /\ Len(mmap) \in Nat
    BY BlocksAre DEF Fitting
  <2> QED
    BY <2>1, LastOfSome
<1>2. i \in 1..Len(mmap) /\ CanHold(b, Size, PhysMax[Kind])
  BY <1>1 DEF Fitting
<1> HIDE DEF i
<1>3. b \in Block /\ EndOf(b) <= MemSize
  BY <1>2, BlocksAre DEF Low
<1>4. PagesEnd(b) \in Nat /\ PagesEnd(b) <= EndOf(b)
  BY <1>2, <1>3, PagesEndInBlock DEF CanHold
<1>5. PagesFrom(b) \in Nat /\ EndOf(b) \in Nat
  <2>1. b.addr \in Nat /\ EndOf(b) \in Nat
    BY <1>3 DEF Block, EndOf
  <2> QED
    BY <2>1, RoundsUp, MbiMemoryAssumption DEF PagesFrom
<1>6. PhysMax[Kind] \in Nat
  BY RunnerIs
<1>7. Size \in Nat
  <2>1. Len(mods) \in 0..Len(mods)
    BY StageIs
  <2> QED
    BY <2>1, SizesAre DEF Size, IsSum
<1>8. PagesEnd(b) - PagesFrom(b) >= Size /\ PagesFrom(b) + Size <= PhysMax[Kind]
  BY <1>2 DEF CanHold
<1> HIDE DEF b
<1>9. /\ TopIn(b, Size, PhysMax[Kind]) \in Nat
      /\ TopIn(b, Size, PhysMax[Kind]) + Size <= PagesEnd(b)
  BY <1>4, <1>5, <1>6, <1>7, <1>8 DEF TopIn
<1>10. TopIn(b, Size, PhysMax[Kind]) + Size <= MemSize
  BY <1>3, <1>4, <1>5, <1>7, <1>9, NumbersAre
<1> QED
  BY <1>7, <1>9, <1>10 DEF b, i
-----------------------------------------------------------------------------
LEMMA RelocateKeeps == ASSUME IInv, Relocate PROVE IInv'
<1> USE DEF IInv
<1>1. /\ pc = "alloc" /\ todo = 0 /\ UNCHANGED <<mmap, chain, stage, mods, mem, code, history>>
      /\ pc' \in {"copy", "start", "exit"}
  BY Zenon DEF Relocate, GiveUp
<1>2. stage < Stages /\ Stages' = Stages /\ Kind' = Kind /\ Kernel' = Kernel /\ Sizes' = Sizes
  <2>1. stage < Stages
    BY <1>1 DEF Types, Loading
  <2>2. Stages' = Stages /\ Kind' = Kind /\ Kernel' = Kernel
    BY <1>1 DEF Stages, Kind, Kernel
  <2> QED
    BY <1>1, <2>1, <2>2 DEF Sizes, NewLen, Inflates, ModLen, KindOf, IsPacked, Packed
<1> DEFINE start == TopIn(mmap[Max(Fitting(Size))], Size, PhysMax[Kind])
<1>3. pc' = "copy" =>
        /\ Fitting(Size) # {} /\ {n \in 1..Len(mods) : mods[n].end > start} = {}
        /\ todo' = Len(mods) /\ top' = start + Size
  BY Zenon DEF Relocate, GiveUp
<1>4. pc' # "copy" => UNCHANGED <<todo, top>>
  BY Zenon DEF Relocate, GiveUp
<1>5. pc' = "copy" => start \in Nat /\ Size \in Nat /\ start + Size <= MemSize
  BY <1>2, <1>3, RoomIs
<1> HIDE DEF start
<1>6. Types'
  <2>1. Len(mods) \in Nat
    BY StageIs
  <2>2. todo' \in Nat /\ top' \in Int /\ (pc' = "copy" => todo' <= Len(mods))
    BY <1>1, <1>3, <1>4, <1>5, <2>1 DEF Types
  <2> QED
    BY <1>1, <1>2, <2>2 DEF Types, Loading
<1>7. Low' /\ Areas' /\ Placed' /\ Raised' /\ Contents'
  <2>1. pc' \in Running => pc \in Running /\ Owed' <= Owed
    <3>1. Needed(Kind)[0] = 0
      BY <1>2, StageIs, NeedsAre, NumbersAre DEF Kind, Stages
    <3>2. Total(chain)[Stages - 1] - Total(chain)[stage] \in Int
      <4>1. stage \in 0..(Stages - 1) /\ Stages - 1 \in 0..(Stages - 1)
        BY <1>2, StageIs
      <4> QED
        BY <4>1, StageIs, TotalsAre DEF Stages
    <3>3. Owed = Total(chain)[Stages - 1] - Total(chain)[stage]
      BY <1>1, <3>1, <3>2 DEF Owed
    <3>4. Owed' = Total(chain)[Stages - 1] - Total(chain)[stage]
      BY <1>1, <1>2, <3>2 DEF Owed
    <3> QED
      BY <1>1, <3>2, <3>3, <3>4 DEF Running, Loading
  <2>2. relocated' = relocated /\ (pc' = "copy" => todo' = Len(mods))
    BY <1>1, <1>3 DEF history
  <2>3. UNCHANGED <<mmap, chain, stage, mods, mem, areas>>
    BY <1>1 DEF history
  <2> QED
    BY <1>6, <2>1, <2>2, <2>3, Quiet
<1>8. Copying'
  <2> SUFFICES ASSUME pc' = "copy"
               PROVE  /\ top' <= MemSize /\ Below(Image[Kernel], Bottom')
                      /\ \A n \in 1..Len(mods) :
                           mods[n].end <= Bottom' /\ (n < Len(mods) => mods[n].string < Bottom')
                      /\ \A n \in (Len(mods) + 1)..Len(mods) : top' <= mods[n].start
    BY <1>1, <1>2, <1>3 DEF Copying
  <2>1. start \in Nat /\ Size \in Nat /\ top' = start + Size /\ top' <= MemSize
    BY <1>3, <1>5
  <2>2. Bottom' = start
    <3>1. Bottom' = top' - Size
      BY <1>1, <1>2, <1>3 DEF Bottom, Size
    <3> QED
      BY <2>1, <3>1
  <2>3. ASSUME NEW n \in 1..Len(mods) PROVE mods[n].end <= start /\ mods[n].end \in Nat
    BY <1>3, <2>1, ModuleIs
  <2>4. ASSUME NEW n \in 1..Len(mods), n < Len(mods) PROVE mods[n].string < start
    <3>1. Len(mods) \in (n + 1)..Len(mods) /\ Len(mods) \in 1..Len(mods)
      BY <2>4, StageIs
    <3>2. mods[n].string < mods[Len(mods)].start
      BY <3>1, StringIs
    <3>3. mods[Len(mods)].start < mods[Len(mods)].end /\ mods[Len(mods)].start \in Nat
      BY <3>1, ModuleIs
    <3>4. mods[Len(mods)].end <= start /\ mods[Len(mods)].end \in Nat
      BY <2>3, <3>1
    <3> QED
      BY <2>1, <3>2, <3>3, <3>4, ModuleIs
  <2>5. Below(Image[Kernel], start)
    <3>1. Below(Image[Kernel], mods[Len(mods)].end) /\ Len(mods) \in 1..Len(mods)
      BY StageIs DEF Raised
    <3>2. mods[Len(mods)].end <= start /\ mods[Len(mods)].end \in Nat
      BY <2>3, <3>1
    <3> QED
      BY <2>1, <3>1, <3>2, KernelIs, BelowMore
  <2>6. (Len(mods) + 1)..Len(mods) = {}
    BY StageIs
  <2> QED
    BY <2>1, <2>2, <2>3, <2>4, <2>5, <2>6
<1>9. Trampoline'
  BY <1>1 DEF Trampoline
<1>10. StageIsLoaded'
  <2>1. Harmless' <=> Harmless
    BY <1>1, <1>2 DEF Harmless, history
  <2> QED
    BY <1>1, <1>2, <2>1 DEF StageIsLoaded, ImageByte
<1> QED
  BY <1>6, <1>7, <1>8, <1>9, <1>10

LEMMA CopiedKeeps == ASSUME IInv, Copied PROVE IInv'
<1> USE DEF IInv
<1>1. /\ pc = "copy" /\ todo = 0 /\ pc' = "start" /\ relocated' = PhysMax[Kind]
      /\ UNCHANGED <<mmap, chain, stage, mods, mem, code, areas, todo, top>>
  BY DEF Copied
<1>2. stage < Stages /\ Stages' = Stages /\ Kind' = Kind
  BY <1>1 DEF Types, Loading, Stages, Kind
<1>3. Types'
  BY <1>1, <1>2 DEF Types, Loading
<1>4. Low' /\ Areas' /\ Placed' /\ Raised' /\ Contents'
  <2>1. pc' \in Running => pc \in Running /\ Owed' <= Owed
    <3>1. Owed' = Owed /\ pc \in Running
      BY <1>1, <1>2 DEF Owed, Running, Loading
    <3> QED
      BY <3>1, OwedIs DEF Running
  <2>2. relocated' # 0 /\ pc' # "copy"
    BY <1>1, <1>2, RunnerIs
  <2> QED
    BY <1>1, <1>2, <1>3, <2>1, <2>2, Quiet
<1>5. Copying' /\ Trampoline'
  BY <1>1 DEF Copying, Trampoline
<1>6. StageIsLoaded'
  <2>1. Harmless
    BY <1>2, RunnerIs
  <2> QED
    BY <1>1, <1>2, <2>1 DEF StageIsLoaded, ImageByte
<1> QED
  BY <1>3, <1>4, <1>5, <1>6

LEMMA EnterStageKeeps == ASSUME IInv, EnterStage PROVE IInv'
<1> USE DEF IInv
<1>1. /\ pc = "load" /\ code = <<>>
      /\ UNCHANGED <<mmap, chain, stage, mods, mem, code, history, top>>
      /\ IF Kind \in Kernels THEN pc' = "kernel" /\ UNCHANGED todo
                             ELSE pc' = "alloc" /\ todo' = Len(Allocs[Kind])
  BY DEF EnterStage
<1>2. Stages' = Stages /\ Kind' = Kind /\ Harmless' = Harmless
  BY <1>1 DEF Stages, Kind, Harmless, history
<1>3. pc' = "alloc" => stage < Stages /\ stage \in 1..(KernelAt(chain) - 1)
  <2>1. pc' = "alloc" => stage < Stages
    BY <1>1, StageIs, NumbersAre
  <2> QED
    BY <2>1, StageIs, NumbersAre DEF Stages
<1>4. Types'
  <2>1. pc' = "alloc" => todo' \in Nat /\ todo' <= Len(Allocs[Kind])
    BY <1>1, <1>3, StageIs, NeedsAre DEF Kind
  <2>2. todo' \in Nat /\ pc' \in {"alloc", "kernel"}
    BY <1>1, <2>1 DEF Types
  <2> QED
    BY <1>1, <1>2, <1>3, <2>1, <2>2 DEF Types, Loading
<1>5. Low' /\ Areas' /\ Placed' /\ Raised' /\ Contents'
  <2>1. pc' \in Running => pc \in Running /\ Owed' <= Owed
    <3> SUFFICES ASSUME pc' \in Running PROVE Owed' <= Owed
      BY <1>1 DEF Running
    <3>1. pc' = "alloc" /\ stage < Stages /\ stage \in 1..(KernelAt(chain) - 1)
      BY <1>1, <1>3 DEF Running, Loading
    <3>2. /\ Total(chain)[stage - 1] \in Nat /\ Total(chain)[stage] \in Nat
          /\ Total(chain)[Stages - 1] \in Nat
          /\ Total(chain)[stage] = Total(chain)[stage - 1] + Needed(Kind)[Len(Allocs[Kind])]
      <4>1. /\ stage - 1 \in 0..(KernelAt(chain) - 1) /\ stage \in 0..(KernelAt(chain) - 1)
            /\ KernelAt(chain) - 1 \in 0..(KernelAt(chain) - 1)
        BY <3>1, StageIs, NumbersAre DEF Stages
      <4> QED
        BY <3>1, <4>1, StageIs, TotalsAre DEF Kind, Stages
    <3>3. Needed(Kind)[Len(Allocs[Kind])] \in Nat
      <4>1. Len(Allocs[Kind]) \in 0..Len(Allocs[Kind])
        BY <3>1, StageIs, NeedsAre DEF Kind
      <4> QED
        BY <3>1, <4>1, StageIs, NeedsAre DEF Kind
    <3>4. Owed = Total(chain)[Stages - 1] - Total(chain)[stage - 1]
      BY <1>1, <3>2 DEF Owed
    <3>5. Owed' = Total(chain)[Stages - 1] - Total(chain)[stage] + Needed(Kind)[Len(Allocs[Kind])]
      BY <1>1, <1>2, <3>1, <3>2 DEF Owed
    <3> QED
      BY <3>2, <3>3, <3>4, <3>5
  <2>2. relocated' = relocated /\ pc' # "copy" /\ UNCHANGED areas
    BY <1>1 DEF history
  <2> QED
    BY <1>1, <1>4, <2>1, <2>2, Quiet
<1>6. Copying' /\ Trampoline'
  BY <1>1 DEF Copying, Trampoline
<1>7. StageIsLoaded'
  <2>1. Harmless => \A i \in 1..Len(Image[Kind]) : InPlace(mem, stage - 1, Image[Kind][i])
    <3>1. Done = Len(Image[Kind])
      BY <1>1, StageIs, KernelIs, ImagesAre DEF Done, Kind, Stages
    <3> QED
      BY <1>1, <3>1 DEF Trampoline
  <2>2. Harmless' => Harmless
    BY <1>2
  <2> QED
    BY <1>1, <1>2, <2>1, <2>2 DEF StageIsLoaded, InPlace, ImageByte, Inflated
<1> QED
  BY <1>4, <1>5, <1>6, <1>7

SizesFit == Sizes \in Seq(Nat) /\ Len(Sizes) = Len(mods)
LEMMA SizesFitAlways == Types /\ Placed => SizesFit
  BY SizesAre DEF SizesFit

LEMMA SizesAreNext == ASSUME Types', Placed' PROVE Sizes' \in Seq(Nat) /\ Len(Sizes') = Len(mods')
<1>1. Types' /\ Placed' => SizesFit'
  BY SizesFitAlways, PTL
<1> QED
  BY <1>1 DEF SizesFit

(* One module is copied: everything below its new place, and everything     *)
(* behind the page its string is on, stays as it is.                        *)
LEMMA CopyIs ==
  ASSUME IInv, CopyModule
  PROVE  LET m == mods[todo] l == NewLen(todo) IN
         /\ todo \in 1..Len(mods) /\ stage < Stages /\ l \in Nat /\ top' \in Nat
         /\ top' = Bottom + Sums(Sizes)[todo - 1] /\ Bottom \in Int /\ Bottom <= top'
         /\ m.end <= Bottom /\ m.string < top' /\ LowEnd <= m.start /\ Code < top'
         /\ top' + l < top /\ top <= MemSize /\ top \in Int /\ LowEnd < top'
         /\ DOMAIN mem' = DOMAIN mem
         /\ mem'[top' + l] = mem[m.string]
         /\ \A x \in 0..(MemSize - 1) : x < top' \/ top <= x => mem'[x] = mem[x]
         /\ \A k \in 0..(l - 1) :
              mem'[top' + k] = IF Inflates(todo) THEN Inflated(m.id, k) ELSE mem[m.start + k]
         /\ mods' = [mods EXCEPT ![todo] = [start |-> top', end |-> top' + l,
                                            string |-> top' + l, id |-> m.id]]
<1> USE DEF IInv
<1> DEFINE m == mods[todo]
           l == NewLen(todo)
           to == top - Paged(l + 1)
           moved == Fill(mem, to, l,
                         LAMBDA k : IF Inflates(todo) THEN Inflated(m.id, k) ELSE mem[m.start + k])
<1>1. /\ pc = "copy" /\ todo > 0 /\ top' = to
      /\ mem' = [moved EXCEPT ![to + l] = moved[m.string]]
      /\ mods' = [mods EXCEPT ![todo] = [start |-> to, end |-> to + l,
                                         string |-> to + l, id |-> m.id]]
  BY DEF CopyModule
<1>2. todo \in 1..Len(mods) /\ stage < Stages /\ top \in Int /\ top <= MemSize
  BY <1>1, StageIs DEF Types, Loading, Copying
<1>3. l \in Nat /\ l + 1 <= Sizes[todo] /\ Sizes[todo] \in Nat /\ Sizes[todo] = Paged(l + 1)
  BY <1>2, SizesAre DEF Sizes
<1>4. /\ Sums(Sizes)[todo] = Sums(Sizes)[todo - 1] + Sizes[todo]
      /\ Sums(Sizes)[todo - 1] \in Nat /\ Sums(Sizes)[todo] \in Nat
  <2>1. todo - 1 \in 0..Len(mods) /\ todo \in 0..Len(mods)
    BY <1>2, StageIs
  <2> QED
    BY <1>2, <2>1, SizesAre DEF IsSum
<1> HIDE DEF l
<1>5. Bottom \in Int /\ to = Bottom + Sums(Sizes)[todo - 1] /\ Bottom <= to /\ to \in Int
      /\ to + Sizes[todo] = top
  <2>1. to = top - Sizes[todo]
    BY <1>3
  <2> HIDE DEF to
  <2> DEFINE a == Sums(Sizes)[todo - 1]
             b == Sums(Sizes)[todo]
             size == Sizes[todo]
  <2>2. a \in Nat /\ size \in Nat /\ top \in Int /\ to = top - size /\ b = a + size
    BY <1>2, <1>3, <1>4, <2>1
  <2>3. Bottom = top - b
    BY DEF Bottom
  <2> HIDE DEF a, b, size
  <2>4. Bottom \in Int /\ to = Bottom + a /\ Bottom <= to /\ to \in Int /\ to + size = top
    BY <2>2, <2>3
  <2> QED
    BY <2>4 DEF a, size
<1> HIDE DEF to
<1>6. /\ m.start \in Nat /\ m.end \in Nat /\ m.string \in Nat /\ LowEnd <= m.start /\ m.start < m.end
      /\ m.end <= Bottom
  BY <1>1, <1>2, StageIs, ModuleIs DEF Copying
<1>7. to \in Nat /\ LowEnd < to /\ to + l < top
  <2> DEFINE start == m.start
             end == m.end
             size == Sizes[todo]
  <2>1. /\ start \in Nat /\ end \in Nat /\ LowEnd <= start /\ start < end /\ end <= Bottom
        /\ Bottom \in Int /\ Bottom <= to /\ to \in Int /\ to + size = top /\ l + 1 <= size
        /\ size \in Nat /\ l \in Nat /\ LowEnd \in Nat
    BY <1>3, <1>5, <1>6, NumbersAre
  <2> HIDE DEF start, end, size
  <2> QED
    BY <2>1
<1>8. Code < LowEnd
  BY <1>1, CodeIsLow DEF Loading, Running
<1>9. m.string < to
  <2>1. CASE todo < Len(mods)
    <3>1. m.string < Bottom
      BY <1>1, <1>2, <2>1, StageIs DEF Copying
    <3> QED
      BY <1>5, <1>6, <3>1
  <2>2. CASE todo = Len(mods)
    <3>1. m.string < Code \/ m.string = m.end
      BY <1>2, StringIs
    <3>2. todo - 1 \in 1..Len(mods) /\ 1 \in 1..Len(mods) /\ 1 \in 0..Len(mods)
      BY <1>2, <2>2, StageIs, NumbersAre
    <3>3. Sums(Sizes)[0] = 0 /\ Sums(Sizes)[1] = Sums(Sizes)[0] + Sizes[1]
      BY <3>2, SizesAre DEF IsSum
    <3>4. Sizes[1] \in Nat /\ 0 < Sizes[1]
      BY <3>2, SizesAre
    <3>5. Sums(Sizes)[1] <= Sums(Sizes)[todo - 1]
      <4>1. 1 \in 0..Len(Sizes) /\ todo - 1 \in 1..Len(Sizes) /\ Sizes \in Seq(Nat)
        BY <3>2, SizesAre
      <4> QED
        BY <4>1, SumsGrow
    <3>6. Bottom < to
      BY <1>4, <1>5, <3>3, <3>4, <3>5
    <3> QED
      BY <1>5, <1>6, <1>7, <1>8, <3>1, <3>6, NumbersAre
  <2> QED
    BY <1>2, <2>1, <2>2, StageIs
<1>10. DOMAIN mem = 0..(MemSize - 1) /\ DOMAIN moved = DOMAIN mem /\ DOMAIN mem' = DOMAIN mem
  BY <1>1 DEF Types, Fill
<1> DEFINE at(k) == IF Inflates(todo) THEN Inflated(m.id, k) ELSE mem[m.start + k]
<1>11. \A x \in 0..(MemSize - 1) : moved[x] = IF x \in to..(to + l - 1) THEN at(x - to) ELSE mem[x]
  BY <1>10 DEF Fill
<1> HIDE DEF moved, at
<1>12. to + l \in 0..(MemSize - 1) /\ \A k \in 0..(l - 1) : to + k \in 0..(MemSize - 1)
  BY <1>2, <1>3, <1>7, NumbersAre
<1>13. mem'[to + l] = mem[m.string]
  <2> DEFINE x == m.string
  <2>1. x \in Nat /\ x < to
    BY <1>6, <1>9
  <2> HIDE DEF x
  <2>2. x \in 0..(MemSize - 1) /\ x \notin to..(to + l - 1)
    BY <1>2, <1>3, <1>7, <2>1, NumbersAre
  <2>3. m.string \in 0..(MemSize - 1) /\ m.string \notin to..(to + l - 1)
    BY <2>2 DEF x
  <2>4. moved[m.string] = mem[m.string]
    BY <1>11, <2>3
  <2> QED
    BY <1>1, <1>10, <1>12, <2>4
<1>14. \A x \in 0..(MemSize - 1) : x # to + l => mem'[x] = moved[x]
  BY <1>1, <1>10
<1>15. \A x \in 0..(MemSize - 1) : x < to \/ top <= x => mem'[x] = mem[x]
  <2>1. \A x \in 0..(MemSize - 1) : x < to \/ top <= x => x # to + l /\ x \notin to..(to + l - 1)
    BY <1>2, <1>3, <1>7
  <2> QED
    BY <1>11, <1>14, <2>1
<1>16. \A k \in 0..(l - 1) : mem'[to + k] = at(k)
  <2>1. \A k \in 0..(l - 1) : to + k # to + l /\ to + k \in to..(to + l - 1) /\ (to + k) - to = k
    BY <1>3, <1>7
  <2> QED
    BY <1>11, <1>12, <1>14, <2>1
<1>17. Code < to
  BY <1>7, <1>8, NumbersAre
<1>18. \A k \in 0..(l - 1) : mem'[top' + k] = IF Inflates(todo) THEN Inflated(m.id, k) ELSE mem[m.start + k]
  BY <1>1, <1>16 DEF at
<1> QED
  BY <1>1, <1>2, <1>3, <1>5, <1>6, <1>7, <1>9, <1>10, <1>13, <1>15, <1>17, <1>18 DEF l

LEMMA CopyModuleKeeps == ASSUME IInv, CopyModule PROVE IInv' /\ Bottom' = Bottom
<1> USE DEF IInv
<1> DEFINE j == todo
           m == mods[j]
           l == NewLen(j)
           to == top'
<1>1. /\ pc = "copy" /\ pc' = "copy" /\ todo' = j - 1
      /\ UNCHANGED <<mmap, chain, stage, code, history>>
  BY DEF CopyModule
<1>2. /\ j \in 1..Len(mods) /\ stage < Stages /\ l \in Nat /\ to \in Nat
      /\ to = Bottom + Sums(Sizes)[j - 1] /\ Bottom \in Int /\ Bottom <= to
      /\ m.end <= Bottom /\ m.string < to /\ LowEnd <= m.start /\ Code < to
      /\ to + l < top /\ top <= MemSize /\ top \in Int /\ LowEnd < to
  BY CopyIs
<1>a. /\ Bottom \in Int /\ Bottom <= to /\ to \in Nat /\ to <= MemSize /\ LowEnd \in Nat
      /\ LowEnd <= to /\ Code <= to /\ Code \in Nat /\ top \in Int /\ top <= MemSize
  BY <1>2, NumbersAre
<1>3. DOMAIN mem' = DOMAIN mem /\ mem'[to + l] = mem[m.string]
  BY CopyIs
<1>4. \A x \in 0..(MemSize - 1) : x < to \/ top <= x => mem'[x] = mem[x]
  BY CopyIs
<1>5. \A k \in 0..(l - 1) :
        mem'[to + k] = IF Inflates(j) THEN Inflated(m.id, k) ELSE mem[m.start + k]
  BY CopyIs
<1> DEFINE new == [start |-> to, end |-> to + l, string |-> to + l, id |-> m.id]
<1>6. mods' = [mods EXCEPT ![j] = new]
  BY CopyIs
<1>7. /\ Len(mods') = Len(mods) /\ mods' \in Seq(Module) /\ mods'[j] = new
      /\ \A n \in 1..Len(mods) : n # j => mods'[n] = mods[n]
  <2>1. m.id \in Nat
    BY <1>2, ModuleIs
  <2>2. new \in Module
    BY <1>2, <2>1 DEF Module
  <2> HIDE DEF Module, new
  <2> QED
    BY <1>2, <1>6, <2>2 DEF Types
<1>8. Stages' = Stages /\ Kind' = Kind /\ Kernel' = Kernel /\ Harmless' /\ Harmless
  <2>1. Harmless' <=> Harmless
    BY <1>1 DEF Harmless, Kind, history
  <2> QED
    BY <1>1, <1>2, <2>1, RunnerIs DEF Stages, Kind, Kernel
<1> HIDE DEF j, to, l, m, new
<1>9. Types'
  <2>1. todo' \in Nat /\ todo' <= Len(mods) /\ top' \in Int
    BY <1>1, <1>2, StageIs DEF to
  <2> QED
    BY <1>1, <1>3, <1>7, <1>8, <2>1 DEF Types
<1>10. Low'
  <2>1. Owed' = Owed
    BY <1>1, <1>8 DEF Owed
  <2> QED
    BY <1>1, <1>8, <2>1 DEF Low
<1>11. Areas'
  <2>1. ASSUME NEW a \in areas, NEW x \in a.addr..(a.addr + a.len - 1) PROVE mem'[x] = mem[x]
    <3>1. a.addr \in Nat /\ a.len \in Nat /\ a.addr + a.len <= LowEnd
      BY DEF Areas
    <3>2. x \in 0..(MemSize - 1) /\ x < to
      <4> DEFINE from == a.addr
                 end  == a.addr + a.len
      <4>1. from \in Nat /\ end \in Int /\ end <= to /\ x \in Int /\ from <= x /\ x < end
        BY <1>a, <3>1
      <4> HIDE DEF from, end
      <4> QED
        BY <1>a, <4>1, NumbersAre
    <3> QED
      BY <1>4, <3>2
  <2>2. areas' = areas /\ mmap' = mmap
    BY <1>1 DEF history
  <2>3. ProtectedIntact'
    BY <2>1, <2>2 DEF Areas, ProtectedIntact
  <2> QED
    BY <1>1, <1>8, <2>2, <2>3 DEF Areas
<1>12. Placed'
  <2>1. ASSUME NEW n \in 1..Len(mods), n # j
        PROVE  /\ mods'[n] = mods[n]
               /\ \A k \in (n + 1)..Len(mods) :
                    mods[n].end <= mods'[k].start /\ mods[n].string < mods'[k].start
    <3>1. ASSUME NEW k \in (n + 1)..Len(mods), k # j
          PROVE  mods[n].end <= mods'[k].start /\ mods[n].string < mods'[k].start
      <4>1. k \in 1..Len(mods) /\ mods'[k] = mods[k]
        BY <1>7, <3>1, StageIs
      <4> QED
        BY <4>1, StringIs
    <3>2. ASSUME j \in (n + 1)..Len(mods)
          PROVE  mods[n].end <= mods'[j].start /\ mods[n].string < mods'[j].start
      <4>1. n \in 1..todo /\ n < Len(mods)
        BY <3>2, <1>2, StageIs DEF j
      <4>2. mods[n].end <= Bottom /\ mods[n].string < Bottom
        BY <1>1, <4>1 DEF Copying
      <4>3. mods[n].end <= to /\ mods[n].string < to
        BY <1>2, <4>2, ModuleIs, SMTT(30)
      <4> QED
        BY <1>7, <4>3 DEF new
    <3> QED
      BY <1>7, <2>1, <3>1, <3>2
  <2>2. /\ m.id = stage - 1 + j
        /\ to + l = to + RawLen[KindOf(m.id)] \/ to + l = to + FullLen[KindOf(m.id)]
    <3>1. /\ m.id = stage - 1 + j
          /\ m.end = m.start + RawLen[KindOf(m.id)] \/ m.end = m.start + FullLen[KindOf(m.id)]
      BY <1>2 DEF Placed, m
    <3>2. l = m.end - m.start \/ l = FullLen[KindOf(m.id)]
      BY DEF l, m, NewLen, ModLen
    <3>3. m.start \in Nat /\ RawLen[KindOf(m.id)] \in Nat /\ FullLen[KindOf(m.id)] \in Nat
      BY <1>2, ModuleIs DEF m, KindOf
    <3> QED
      BY <1>2, <3>1, <3>2, <3>3, SMTT(30)
  <2>3. ASSUME NEW k \in (j + 1)..Len(mods)
        PROVE  to + l <= mods'[k].start /\ to + l < mods'[k].start
    <3>1. k \in 1..Len(mods) /\ k # j /\ k \in (todo + 1)..Len(mods)
      BY <1>2, StageIs DEF j
    <3>2. top <= mods[k].start /\ mods[k].start \in Nat
      BY <1>1, <3>1, ModuleIs DEF Copying
    <3> QED
      BY <1>2, <1>7, <3>1, <3>2
  <2>4. \A s \in 1..(Stages - 1) : Below(Image[chain[s]], to)
    <3> SUFFICES ASSUME NEW s \in 1..(Stages - 1) PROVE Below(Image[chain[s]], to)
      OBVIOUS
    <3>1. Below(Image[chain[s]], m.start)
      BY <1>2 DEF Placed, m
    <3>2. m.start \in Nat /\ m.start < m.end /\ m.end \in Nat
      BY <1>2, ModuleIs DEF m
    <3>3. m.start <= to
      BY <1>2, <3>2
    <3>4. s \in 1..Stages
      BY StageIs, NumbersAre
    <3> QED
      BY <1>2, <3>1, <3>2, <3>3, <3>4, KernelIs, BelowMore
  <2>5. to + l <= MemSize /\ to + l < MemSize /\ LowEnd <= to
    BY <1>2, NumbersAre
  <2>6. ASSUME NEW n \in 1..Len(mods)
        PROVE  LET c == mods'[n] IN
               /\ c.id = stage - 1 + n
               /\ c.end = c.start + RawLen[KindOf(c.id)] \/ c.end = c.start + FullLen[KindOf(c.id)]
               /\ LowEnd <= c.start /\ c.end <= MemSize
               /\ c.string = c.id - 1 \/ (c.string = c.end /\ c.end < MemSize)
               /\ \A k \in (n + 1)..Len(mods) : c.end <= mods'[k].start /\ c.string < mods'[k].start
               /\ \A s \in 1..(Stages - 1) : Below(Image[chain[s]], c.start)
    <3>1. CASE n = j
      BY <1>7, <2>2, <2>3, <2>4, <2>5, <3>1 DEF new
    <3>2. CASE n # j
      BY <2>1, <3>2 DEF Placed
    <3> QED
      BY <3>1, <3>2
  <2> QED
    BY <1>1, <1>7, <1>8, <2>6 DEF Placed, KindOf
<1>13. /\ Below(Image[Kernel], Bottom) /\ Below(Image[Kernel], to) /\ Below(Image[Kernel], to + l)
  <2>1. Below(Image[Kernel], Bottom)
    BY <1>1 DEF Copying
  <2>2. Bottom <= to + l /\ to + l \in Int
    BY <1>2
  <2> QED
    BY <1>2, <2>1, <2>2, KernelIs, BelowMore
<1>14. Raised'
  <2>1. Below(Image[Kernel], mods'[Len(mods)].end)
    <3>1. Len(mods) \in 1..Len(mods)
      BY StageIs
    <3>2. CASE j = Len(mods)
      BY <1>7, <1>13, <3>2 DEF new
    <3>3. CASE j # Len(mods)
      BY <1>7, <3>1, <3>3 DEF Raised
    <3> QED
      BY <3>2, <3>3
  <2>2. ASSUME NEW n \in 1..Len(mods), relocated # 0 \/ n > todo'
        PROVE  Below(Image[Kernel], mods'[n].start)
    <3>1. CASE n = j
      BY <1>7, <1>13, <3>1 DEF new
    <3>2. CASE n # j
      <4>1. relocated # 0 \/ n > todo
        BY <1>1, <1>2, <2>2, <3>2 DEF j
      <4> QED
        BY <1>1, <1>7, <3>2, <4>1 DEF Raised
    <3> QED
      BY <3>1, <3>2
  <2>3. relocated' = relocated
    BY <1>1 DEF history
  <2> QED
    BY <1>7, <1>8, <2>1, <2>2, <2>3 DEF Raised
<1>15. Copying' /\ Bottom' = Bottom
  <2>1. ASSUME NEW n \in 1..(j - 1)
        PROVE  /\ n \in 1..Len(mods) /\ n # j /\ mods'[n] = mods[n]
               /\ mods[n].end <= Bottom /\ mods[n].string < Bottom /\ Sizes'[n] = Sizes[n]
    <3>1. n \in 1..Len(mods) /\ n \in 1..todo /\ n # j /\ n < Len(mods)
      BY <1>2, StageIs DEF j
    <3>2. mods'[n] = mods[n] /\ mods[n].end <= Bottom /\ mods[n].string < Bottom
      BY <1>1, <1>7, <3>1 DEF Copying
    <3>3. mods[n].start \in Nat /\ mods[n].start < mods[n].end /\ mods[n].end \in Nat /\ mods[n].end <= MemSize
      BY <3>1, ModuleIs
    <3>4. mods[n].start \in 0..(MemSize - 1) /\ mods[n].start < to
      <4> DEFINE from == mods[n].start
                 end  == mods[n].end
      <4>1. from \in Nat /\ end \in Int /\ end <= to /\ from < end
        BY <1>a, <3>2, <3>3
      <4> HIDE DEF from, end
      <4>2. from \in 0..(MemSize - 1) /\ from < to
        BY <1>a, <4>1, NumbersAre
      <4> QED
        BY <4>2 DEF from
    <3>5. mem'[mods[n].start] = mem[mods[n].start]
      BY <1>4, <3>4
    <3>6. Sizes'[n] = Sizes[n]
      BY <1>1, <1>7, <1>8, <3>1, <3>2, <3>5 DEF Sizes, NewLen, Inflates, ModLen, KindOf, IsPacked, Packed
    <3> QED
      BY <3>1, <3>2, <3>6
  <2>2. Bottom' = Bottom
    <3>1. Sizes' \in Seq(Nat) /\ Len(Sizes') = Len(mods)
      <4>1. Sizes' \in Seq(Nat) /\ Len(Sizes') = Len(mods')
        BY <1>9, <1>12, SizesAreNext
      <4> QED
        BY <1>7, <4>1
    <3>2. Sums(Sizes')[j - 1] = Sums(Sizes)[j - 1]
      <4>1. j - 1 \in Nat /\ j - 1 <= Len(mods)
        BY <1>2, StageIs
      <4>2. j - 1 <= Len(Sizes) /\ j - 1 <= Len(Sizes')
        BY <3>1, <4>1, SizesAre
      <4> QED
        BY <2>1, <3>1, <4>1, <4>2, SizesAre, SumsUpTo
    <3>3. Sums(Sizes)[j - 1] \in Nat
      <4>1. j - 1 \in 0..Len(mods)
        BY <1>2, StageIs
      <4> QED
        BY <4>1, SizesAre DEF IsSum
    <3>4. Bottom' = to - Sums(Sizes')[j - 1]
      BY <1>1 DEF Bottom, to
    <3> QED
      BY <1>2, <3>2, <3>3, <3>4
  <2>3. ASSUME NEW n \in j..Len(mods) PROVE to <= mods'[n].start
    <3>1. CASE n = j
      BY <1>2, <1>7, <3>1 DEF new
    <3>2. CASE n # j
      <4>1. n \in (todo + 1)..Len(mods) /\ n \in 1..Len(mods)
        BY <1>2, <3>2, StageIs DEF j
      <4>2. top <= mods[n].start /\ mods[n].start \in Nat
        BY <1>1, <4>1, ModuleIs DEF Copying
      <4> QED
        BY <1>2, <1>7, <3>2, <4>1, <4>2
    <3> QED
      BY <3>1, <3>2
  <2>4. to <= MemSize
    BY <1>2, NumbersAre
  <2>5. (j - 1) + 1 = j
    BY <1>2
  <2> QED
    BY <1>1, <1>7, <1>8, <1>13, <2>1, <2>2, <2>3, <2>4, <2>5 DEF Copying, to
<1>16. Contents'
  <2>1. ASSUME NEW n \in 1..Len(mods), n # j PROVE IsIntact(chain, mem', mods[n])
    <3>1. IsIntact(chain, mem, mods[n])
      BY <1>8 DEF Contents
    <3>2. /\ mods[n].start \in Nat /\ mods[n].end \in Nat /\ mods[n].string \in Nat
          /\ RawLen[chain[mods[n].id + 1]] \in Nat /\ FullLen[chain[mods[n].id + 1]] \in Nat
          /\ mods[n].start < mods[n].end /\ mods[n].end <= MemSize
      BY ModuleIs
    <3>3. CASE n < j
      <4>1. n \in 1..todo /\ n < Len(mods)
        BY <1>2, <3>3, StageIs DEF j
      <4>2. mods[n].end <= Bottom /\ mods[n].string < Bottom
        BY <1>1, <4>1 DEF Copying
      <4> DEFINE from == mods[n].start
                 end  == mods[n].end
                 text == mods[n].string
      <4>a. from \in Nat /\ end \in Int /\ end <= to /\ text \in Nat /\ text < Bottom
        BY <1>a, <3>2, <4>2
      <4> HIDE DEF from, end, text
      <4>b. \A x \in from..(end - 1) : x \in 0..(MemSize - 1) /\ x < to
        BY <1>a, <4>a, NumbersAre
      <4>c. text \in 0..(MemSize - 1) /\ text < to
        BY <1>a, <4>a, NumbersAre
      <4>3. \A x \in mods[n].start..(mods[n].end - 1) : x \in 0..(MemSize - 1) /\ x < to
        BY <4>b DEF from, end
      <4>4. mods[n].string \in 0..(MemSize - 1) /\ mods[n].string < to
        BY <4>c DEF text
      <4>5. mem'[mods[n].string] = mem[mods[n].string]
        BY <1>4, <4>4
      <4>6. \A x \in mods[n].start..(mods[n].end - 1) : mem'[x] = mem[x]
        BY <1>4, <4>3
      <4> QED
        BY <3>1, <3>2, <4>5, <4>6, Untouched
    <3>4. CASE n > j
      <4>1. n \in (todo + 1)..Len(mods)
        BY <1>2, <3>4, StageIs DEF j
      <4>2. top <= mods[n].start
        BY <1>1, <4>1 DEF Copying
      <4> DEFINE from == mods[n].start
                 end  == mods[n].end
                 text == mods[n].string
      <4>a. /\ from \in Nat /\ end \in Int /\ end <= MemSize /\ top <= from /\ text \in Nat
            /\ text < Code \/ (text < MemSize /\ from <= text)
        BY <3>2, <4>2, StringIs
      <4> HIDE DEF from, end, text
      <4>b. \A x \in from..(end - 1) : x \in 0..(MemSize - 1) /\ top <= x
        BY <1>a, <4>a, NumbersAre
      <4>c. text \in 0..(MemSize - 1) /\ (text < to \/ top <= text)
        <5>1. CASE text < Code
          BY <1>a, <4>a, <5>1, NumbersAre
        <5>2. CASE text < MemSize /\ from <= text
          BY <1>a, <4>a, <5>2, NumbersAre
        <5> QED
          BY <4>a, <5>1, <5>2
      <4>3. \A x \in mods[n].start..(mods[n].end - 1) : x \in 0..(MemSize - 1) /\ top <= x
        BY <4>b DEF from, end
      <4>5. /\ mods[n].string \in 0..(MemSize - 1)
            /\ mods[n].string < to \/ top <= mods[n].string
        BY <4>c DEF text
      <4>6. mem'[mods[n].string] = mem[mods[n].string]
        BY <1>4, <4>5
      <4>7. \A x \in mods[n].start..(mods[n].end - 1) : mem'[x] = mem[x]
        BY <1>4, <4>3
      <4> QED
        BY <3>1, <3>2, <4>6, <4>7, Untouched
    <3> QED
      BY <1>2, <2>1, <3>3, <3>4
  <2>2. IsIntact(chain, mem', new)
    <3>1. IsIntact(chain, mem, m)
      BY <1>2, <1>8 DEF Contents, m
    <3>2. mem'[new.string] = String(new.id)
      BY <1>3, <3>1 DEF new, IsIntact, String
    <3>3. new.end - new.start = l
      BY <1>2 DEF new
    <3>4. CASE Inflates(j)
      <4>1. l = FullLen[chain[m.id + 1]]
        BY <3>4 DEF l, m, NewLen, KindOf
      <4>2. IsFull(chain, mem', new)
        BY <1>5, <3>3, <3>4, <4>1 DEF IsFull, new
      <4> QED
        BY <3>2, <4>2 DEF IsIntact
    <3>5. CASE ~Inflates(j)
      <4>1. l = m.end - m.start
        BY <3>5 DEF l, m, NewLen, ModLen
      <4>2. \A k \in 0..(l - 1) : mem'[to + k] = mem[m.start + k]
        BY <1>5, <3>5
      <4>3. IsRaw(chain, mem, m) => IsRaw(chain, mem', new)
        BY <3>3, <4>1, <4>2 DEF IsRaw, new
      <4>4. IsFull(chain, mem, m) => IsFull(chain, mem', new)
        BY <3>3, <4>1, <4>2 DEF IsFull, new
      <4> QED
        BY <3>1, <3>2, <4>3, <4>4 DEF IsIntact
    <3> QED
      BY <3>4, <3>5
  <2>3. ASSUME NEW n \in 1..Len(mods) PROVE IsIntact(chain, mem', mods'[n])
    BY <1>7, <2>1, <2>2
  <2> QED
    BY <1>1, <1>7, <2>3 DEF Contents
<1>17. Trampoline'
  BY <1>1 DEF Trampoline
<1>18. StageIsLoaded'
  <2>1. stage \in 1..(Stages - 1) /\ stage \in 1..Stages
    BY <1>2, StageIs
  <2>2. Below(Image[Kind], to)
    <3>1. Below(Image[Kind], m.start)
      BY <1>2, <2>1 DEF Placed, m, Kind
    <3>2. m.start \in Nat /\ m.start < m.end /\ m.end \in Nat
      BY <1>2, ModuleIs DEF m
    <3>3. m.start <= to
      BY <1>2, <3>2
    <3> QED
      BY <1>2, <2>1, <3>1, <3>2, <3>3, KernelIs, BelowMore DEF Kind
  <2>3. ASSUME NEW i \in 1..Len(Image[Kind]),
               NEW x \in Image[Kind][i].to..(Image[Kind][i].to + Image[Kind][i].mem - 1)
        PROVE  mem'[x] = mem[x]
    <3>1. LowEnd <= Image[Kind][i].to /\ Image[Kind][i].to \in Nat /\ Image[Kind][i].mem \in Nat
      BY <2>1, KernelIs, ImagesAre DEF Kind
    <3>2. Image[Kind][i].to + Image[Kind][i].mem <= to
      BY <2>2 DEF Below
    <3>3. x \in 0..(MemSize - 1) /\ x < to
      <4> DEFINE from == Image[Kind][i].to
                 end  == Image[Kind][i].to + Image[Kind][i].mem
      <4>1. from \in Nat /\ end \in Int /\ end <= to /\ x \in Int /\ from <= x /\ x < end
        BY <3>1, <3>2
      <4> HIDE DEF from, end
      <4> QED
        BY <1>a, <4>1, NumbersAre
    <3> QED
      BY <1>4, <3>3
  <2> QED
    BY <1>1, <1>8, <2>3 DEF StageIsLoaded, ImageByte, Inflated
<1> QED
  BY <1>9, <1>10, <1>11, <1>12, <1>14, <1>15, <1>16, <1>17, <1>18

(* Low memory has room for the request, so its first block is the one that  *)
(* is shortened.                                                            *)
LEMMA AllocIs ==
  ASSUME IInv, Alloc
  PROVE  LET r == Allocs[Kind][todo]
             a == AllocAddr(mmap[1], r.len, r.align)
         IN /\ stage < Stages /\ todo \in 1..Len(Allocs[Kind]) /\ r.len \in Nat
            /\ a \in Nat /\ mmap[1].addr < a /\ Code < a /\ a + r.len <= EndOf(mmap[1])
            /\ \A s \in 2..Stages : Code + Len(Image[chain[s]]) + 1 + Owed' <= a
            /\ mmap' = Shortened(mmap, 1, r.len, r.align)
            /\ areas' = areas \cup {[addr |-> a, len |-> r.len, for |-> << stage, todo >>]}
            /\ mem' = Fill(mem, a, r.len, LAMBDA k : Area)
            /\ todo' = todo - 1 /\ pc' = "alloc"
<1> USE DEF IInv
<1> DEFINE r == Allocs[Kind][todo]
           b == mmap[1]
           E == EndOf(b)
           a == AllocAddr(b, r.len, r.align)
           rest == Total(chain)[Stages - 1] - Total(chain)[stage]
<1>1. pc = "alloc" /\ todo > 0 /\ UNCHANGED <<chain, stage, mods, code, relocated, top, said>>
  BY DEF Alloc
<1>2. stage < Stages /\ stage \in 1..(KernelAt(chain) - 1)
  <2>1. stage < Stages
    BY <1>1 DEF Types, Loading
  <2> QED
    BY <2>1, StageIs, NumbersAre DEF Stages
<1>3. /\ todo \in 1..Len(Allocs[Kind]) /\ r.len \in Nat /\ r.align \in Nat \ {0}
      /\ Needed(Kind)[todo - 1] \in Nat /\ Needed(Kind)[todo] \in Nat
      /\ Needed(Kind)[todo] = Needed(Kind)[todo - 1] + (r.len + r.align - 1)
  <2>1. Len(Allocs[Kind]) \in Nat
    BY <1>2, StageIs, NeedsAre DEF Kind
  <2>2. todo \in 1..Len(Allocs[Kind]) /\ todo \in 0..Len(Allocs[Kind]) /\ todo - 1 \in 0..Len(Allocs[Kind])
    BY <1>1, <2>1 DEF Types
  <2> QED
    BY <1>2, <2>2, StageIs, NeedsAre DEF Kind
<1>4. rest \in Nat
  <2>1. stage \in 0..(Stages - 1) /\ Stages - 1 \in 0..(Stages - 1)
    BY <1>2, StageIs
  <2>2. /\ Total(chain)[stage] \in Nat /\ Total(chain)[Stages - 1] \in Nat
        /\ Total(chain)[stage] <= Total(chain)[Stages - 1]
    BY <2>1, StageIs, TotalsAre DEF Stages
  <2> QED
    BY <2>2
<1>5. Owed = rest + Needed(Kind)[todo]
  BY <1>1 DEF Owed
<1>6. /\ b \in Block /\ b.addr \in Nat /\ b.len \in Nat /\ E \in Nat /\ b.avail /\ b.addr <= Code
      /\ E <= LowEnd /\ E < Limit32 /\ 1 \in 1..Len(mmap) /\ E = b.addr + b.len
  <2>1. b \in Block /\ b.addr \in Nat /\ b.len \in Nat /\ E \in Nat
    BY FirstBlockIs
  <2>2. b.avail /\ b.addr <= Code /\ E <= LowEnd /\ 1 \in 1..Len(mmap)
    BY BlocksAre DEF Low
  <2>3. E < Limit32
    BY <2>1, <2>2, NumbersAre, MbiMemoryAssumption
  <2> QED
    BY <2>1, <2>2, <2>3 DEF EndOf
<1>7. \A s \in 2..Stages : Code + Len(Image[chain[s]]) + 1 + Owed <= E /\ Len(Image[chain[s]]) \in Nat
  BY <1>1, CodesAre DEF Low, Loading
<1> HIDE DEF r, b, E, rest
<1> DEFINE left == Needed(Kind)[todo - 1]
           room == E - r.len
<1>8. ASSUME NEW s \in 2..Stages
      PROVE  /\ Code + Len(Image[chain[s]]) + 1 + (rest + left) <= room - (r.align - 1)
             /\ room \in Nat /\ Code + 1 <= room - (r.align - 1)
  <2> DEFINE len == r.len
             align == r.align
             n == Len(Image[chain[s]])
             all == Needed(Kind)[todo]
  <2>1. /\ len \in Nat /\ align \in Nat \ {0} /\ left \in Nat /\ all = left + (len + align - 1)
        /\ Owed = rest + all /\ rest \in Nat /\ n \in Nat /\ Code + n + 1 + Owed <= E
        /\ E \in Nat /\ Code \in Nat /\ room = E - len
    BY <1>3, <1>4, <1>5, <1>6, <1>7, NumbersAre
  <2> HIDE DEF len, align, n, left, all, room
  <2>2. Code + n + 1 + (rest + left) <= room - (align - 1)
    BY <2>1
  <2>3. room \in Nat /\ Code + 1 <= room - (align - 1)
    BY <2>1
  <2> QED
    BY <2>2, <2>3 DEF n, align
<1>9. room \in Nat /\ Code + 1 <= room - (r.align - 1)
  <2>1. 2 \in 2..Stages
    BY StageIs, NumbersAre
  <2> QED
    BY <1>8, <2>1
<1> HIDE DEF left, room
<1>10. a \in Nat /\ a <= room /\ room - (r.align - 1) <= a
  <2>2. /\ RoundDown(room, r.align) \in Nat /\ RoundDown(room, r.align) <= room
        /\ room < RoundDown(room, r.align) + r.align
    BY <1>3, <1>9, RoundsDown
  <2>3. a = RoundDown(room, r.align)
    BY DEF AllocAddr, room, E
  <2> HIDE DEF a
  <2> QED
    BY <1>3, <1>9, <2>2, <2>3
<1> HIDE DEF a
<1>11. a + r.len <= E /\ b.addr < a /\ Code < a /\ b.len >= r.len
  <2> DEFINE len == r.len
             align == r.align
             from == b.addr
             size == b.len
  <2>1. /\ len \in Nat /\ align \in Nat \ {0} /\ from \in Nat /\ size \in Nat /\ E = from + size
        /\ from <= Code /\ E \in Nat /\ Code \in Nat /\ room = E - len /\ room \in Nat
        /\ Code + 1 <= room - (align - 1) /\ a \in Nat /\ a <= room /\ room - (align - 1) <= a
    BY <1>3, <1>6, <1>9, <1>10, NumbersAre DEF room
  <2> HIDE DEF len, align, from, size
  <2>2. a + len <= E /\ from < a /\ Code < a /\ size >= len
    BY <2>1
  <2> QED
    BY <2>2 DEF len, from, size
<1>12. CanAlloc(b, r.len, r.align)
  BY <1>6, <1>11 DEF CanAlloc, a, E
<1>13. CanAllocIn(mmap, 1, r.len, r.align)
  BY <1>6, <1>12 DEF CanAllocIn, b
<1>14. ASSUME NEW i \in 1..Len(mmap), CanAllocIn(mmap, i, r.len, r.align) PROVE i = 1
  <2>1. i # 1 => 1 \in 1..(i - 1)
    BY <1>6, BlocksAre
  <2> QED
    BY <1>12, <1>14, <2>1 DEF CanAllocIn, b
<1>15. /\ mmap' = Shortened(mmap, 1, r.len, r.align)
       /\ areas' = areas \cup {[addr |-> a, len |-> r.len, for |-> << stage, todo >>]}
       /\ mem' = Fill(mem, a, r.len, LAMBDA k : Area)
       /\ todo' = todo - 1 /\ pc' = "alloc"
  <2>1. PICK i \in 1..Len(mmap) :
          LET at == AllocAddr(mmap[i], r.len, r.align) IN
          /\ CanAllocIn(mmap, i, r.len, r.align)
          /\ mmap' = Shortened(mmap, i, r.len, r.align)
          /\ areas' = areas \cup {[addr |-> at, len |-> r.len, for |-> << stage, todo >>]}
          /\ mem' = Fill(mem, at, r.len, LAMBDA k : Area)
          /\ todo' = todo - 1 /\ UNCHANGED pc
    BY <1>6, <1>13 DEF Alloc, r
  <2>2. i = 1
    BY <1>14, <2>1
  <2> QED
    BY <1>1, <2>1, <2>2 DEF a, b
<1>16. Owed' = rest + left
  BY <1>1, <1>15 DEF Owed, rest, Stages, Kind, left
<1>17. \A s \in 2..Stages : Code + Len(Image[chain[s]]) + 1 + Owed' <= a
  <2> SUFFICES ASSUME NEW s \in 2..Stages PROVE Code + Len(Image[chain[s]]) + 1 + Owed' <= a
    OBVIOUS
  <2> DEFINE n == Len(Image[chain[s]])
             align == r.align
  <2>1. /\ n \in Nat /\ Code \in Nat /\ rest \in Nat /\ left \in Nat /\ a \in Nat /\ room \in Nat
        /\ align \in Nat /\ Owed' = rest + left /\ room - (align - 1) <= a
        /\ Code + n + 1 + (rest + left) <= room - (align - 1)
    BY <1>3, <1>4, <1>7, <1>8, <1>9, <1>10, <1>16, NumbersAre DEF left
  <2> HIDE DEF n, align
  <2>2. Code + n + 1 + Owed' <= a
    BY <2>1
  <2> QED
    BY <2>2 DEF n
<1> QED
  BY <1>2, <1>3, <1>10, <1>11, <1>15, <1>17 DEF a, b, r, E

(* A step that writes only to low memory, from the trampoline on.           *)
LEMMA LowWrite ==
  ASSUME Types, Low, Placed, pc \in Running,
         \A x \in 0..(MemSize - 1) : x < Code \/ LowEnd <= x => mem'[x] = mem[x]
  PROVE  /\ \A n \in 1..Len(mods) : IsIntact(chain, mem, mods[n]) => IsIntact(chain, mem', mods[n])
         /\ \A s \in 1..Stages : \A i \in 1..Len(Image[chain[s]]) :
              Below(Image[chain[s]], MemSize) =>
                \A x \in Image[chain[s]][i].to..(Image[chain[s]][i].to + Image[chain[s]][i].mem - 1) :
                  mem'[x] = mem[x]
<1>1. ASSUME NEW n \in 1..Len(mods), IsIntact(chain, mem, mods[n]) PROVE IsIntact(chain, mem', mods[n])
  <2> DEFINE from == mods[n].start
             end  == mods[n].end
             text == mods[n].string
  <2>1. /\ from \in Nat /\ end \in Nat /\ text \in Nat /\ LowEnd <= from /\ from < end /\ end <= MemSize
        /\ RawLen[chain[mods[n].id + 1]] \in Nat /\ FullLen[chain[mods[n].id + 1]] \in Nat
        /\ text < Code \/ (text = end /\ text < MemSize)
    BY ModuleIs, StringIs
  <2> HIDE DEF from, end, text
  <2>2. \A x \in from..(end - 1) : x \in 0..(MemSize - 1) /\ LowEnd <= x
    BY <2>1, NumbersAre
  <2>3. text \in 0..(MemSize - 1) /\ (text < Code \/ LowEnd <= text)
    BY <2>1, CodeIsLow, NumbersAre
  <2>4. \A x \in from..(end - 1) : mem'[x] = mem[x]
    BY <2>2
  <2>5. mem'[text] = mem[text]
    BY <2>3
  <2> QED
    BY <1>1, <2>1, <2>4, <2>5, Untouched DEF from, end, text
<1>2. ASSUME NEW s \in 1..Stages, NEW i \in 1..Len(Image[chain[s]]), Below(Image[chain[s]], MemSize),
             NEW x \in Image[chain[s]][i].to..(Image[chain[s]][i].to + Image[chain[s]][i].mem - 1)
      PROVE  mem'[x] = mem[x]
  <2> DEFINE from == Image[chain[s]][i].to
             size == Image[chain[s]][i].mem
  <2>1. from \in Nat /\ size \in Nat /\ LowEnd <= from /\ from + size <= MemSize /\ x \in from..(from + size - 1)
    BY <1>2, KernelIs, ImagesAre DEF Below
  <2> HIDE DEF from, size
  <2>2. x \in 0..(MemSize - 1) /\ LowEnd <= x
    BY <2>1, NumbersAre
  <2> QED
    BY <2>2
<1> QED
  BY <1>1, <1>2

(* The image of the stage that runs ends in memory.                         *)
LEMMA ImageInMemory == ASSUME Types, Placed, Harmless, Raised, pc # "copy" PROVE Below(Image[Kind], MemSize)
<1>1. /\ Len(mods) \in 1..Len(mods) /\ mods[Len(mods)].start \in Nat /\ mods[Len(mods)].end \in Nat
      /\ mods[Len(mods)].start <= MemSize
  <2>1. Len(mods) \in 1..Len(mods)
    BY StageIs
  <2> DEFINE from == mods[Len(mods)].start
             end  == mods[Len(mods)].end
  <2>2. from \in Nat /\ end \in Nat /\ from < end /\ end <= MemSize
    BY <2>1, ModuleIs
  <2> HIDE DEF from, end
  <2>3. from <= MemSize
    BY <2>2, NumbersAre
  <2> QED
    BY <2>1, <2>2, <2>3 DEF from, end
<1>2. Below(Image[Kind], mods[Len(mods)].start)
  <2>1. CASE stage < Stages
    <3>1. stage \in 1..(Stages - 1)
      BY <2>1, StageIs
    <3> QED
      BY <1>1, <3>1 DEF Placed, Kind
  <2>2. CASE stage = Stages
    <3>1. relocated # 0
      BY <2>2, StageIs
    <3> QED
      BY <1>1, <2>2, <3>1 DEF Raised, Kind, Kernel
  <2> QED
    BY <2>1, <2>2, StageIs
<1>3. stage \in 1..Stages /\ MemSize \in Int
  BY StageIs, NumbersAre
<1> QED
  BY <1>1, <1>2, <1>3, KernelIs, BelowMore DEF Kind

LEMMA AllocKeeps == ASSUME IInv, Alloc PROVE IInv'
<1> USE DEF IInv
<1> DEFINE r == Allocs[Kind][todo]
           a == AllocAddr(mmap[1], r.len, r.align)
           new == [addr |-> a, len |-> r.len, for |-> << stage, todo >>]
<1>1. /\ pc = "alloc" /\ UNCHANGED <<chain, stage, mods, code, relocated, top, said>>
  BY DEF Alloc
<1>2. /\ stage < Stages /\ todo \in 1..Len(Allocs[Kind]) /\ r.len \in Nat
      /\ a \in Nat /\ mmap[1].addr < a /\ Code < a /\ a + r.len <= EndOf(mmap[1])
      /\ \A s \in 2..Stages : Code + Len(Image[chain[s]]) + 1 + Owed' <= a
      /\ mmap' = Shortened(mmap, 1, r.len, r.align)
      /\ areas' = areas \cup {new}
      /\ mem' = Fill(mem, a, r.len, LAMBDA k : Area)
      /\ todo' = todo - 1 /\ pc' = "alloc"
  BY AllocIs
<1>3. Stages' = Stages /\ Kind' = Kind /\ Kernel' = Kernel /\ Harmless /\ Harmless'
  <2>1. Harmless' <=> Harmless
    BY <1>1 DEF Harmless, Kind
  <2> QED
    BY <1>1, <1>2, <2>1, RunnerIs DEF Stages, Kind, Kernel
<1>4. /\ mmap[1] \in Block /\ mmap[1].addr \in Nat /\ EndOf(mmap[1]) \in Nat
      /\ EndOf(mmap[1]) <= LowEnd /\ 1 \in 1..Len(mmap)
  BY FirstBlockIs, BlocksAre DEF Low
<1> DEFINE new1 == [mmap[1] EXCEPT !.len = a - mmap[1].addr]
<1>5. /\ mmap' \in Seq(Block) /\ Len(mmap') = Len(mmap) /\ mmap'[1] = new1
      /\ \A i \in 1..Len(mmap) : i # 1 => mmap'[i] = mmap[i]
  <2>1. mmap' = [mmap EXCEPT ![1] = new1]
    BY <1>2 DEF Shortened
  <2>2. a - mmap[1].addr \in Nat
    BY <1>2, <1>4
  <2>3. new1 \in Block
    BY <1>4, <2>2 DEF Block
  <2> HIDE DEF Block, new1, a
  <2> QED
    BY <1>4, <2>1, <2>3 DEF Types
<1>6. EndOf(mmap'[1]) = a /\ mmap'[1].addr = mmap[1].addr /\ mmap'[1].avail = mmap[1].avail
  <2> DEFINE from == mmap[1].addr
  <2>1. new1.addr = from /\ new1.len = a - from /\ new1.avail = mmap[1].avail
    BY <1>4 DEF Block
  <2>2. a \in Nat /\ from \in Nat
    BY <1>2, <1>4
  <2> HIDE DEF a, from, new1
  <2>3. from + (a - from) = a
    BY <2>2
  <2> QED
    BY <1>5, <2>1, <2>3 DEF EndOf, from
<1>7. DOMAIN mem' = DOMAIN mem /\ DOMAIN mem = 0..(MemSize - 1)
  BY <1>2 DEF Types, Fill
<1>8. \A x \in 0..(MemSize - 1) : mem'[x] = IF x \in a..(a + r.len - 1) THEN Area ELSE mem[x]
  BY <1>2, <1>7 DEF Fill
<1> HIDE DEF a, r, new, new1
<1>9. \A x \in 0..(MemSize - 1) : x < Code \/ EndOf(mmap[1]) <= x => mem'[x] = mem[x]
  <2>1. \A x \in 0..(MemSize - 1) : x < Code \/ EndOf(mmap[1]) <= x => x \notin a..(a + r.len - 1)
    <3> DEFINE end == EndOf(mmap[1])
               len == r.len
    <3>1. end \in Nat /\ len \in Nat /\ a \in Nat /\ Code < a /\ a + len <= end /\ Code \in Nat
      BY <1>2, <1>4, NumbersAre
    <3> HIDE DEF end, len
    <3>2. \A x \in 0..(MemSize - 1) : x < Code \/ end <= x => x \notin a..(a + len - 1)
      BY <3>1
    <3> QED
      BY <3>2 DEF end, len
  <2> QED
    BY <1>8, <2>1
<1>10. \A x \in 0..(MemSize - 1) : x < Code \/ LowEnd <= x => mem'[x] = mem[x]
  BY <1>4, <1>9, NumbersAre
<1>11. Types'
  <2>1. todo' \in Nat /\ todo' <= Len(Allocs[Kind])
    BY <1>1, <1>2 DEF Types
  <2> QED
    BY <1>1, <1>2, <1>3, <1>5, <1>7, <2>1 DEF Types, Loading
<1>12. Low'
  <2>1. a <= EndOf(mmap[1])
    BY <1>2, <1>4
  <2>2. EndOf(mmap'[1]) <= LowEnd /\ EndOf(mmap'[1]) <= MemSize
    BY <1>2, <1>4, <1>6, <2>1, NumbersAre
  <2>3. \A i \in 1..Len(mmap) : EndOf(mmap'[i]) <= MemSize
    BY <1>5, <2>2 DEF Low
  <2> QED
    BY <1>1, <1>2, <1>3, <1>5, <1>6, <2>2, <2>3 DEF Low
<1>13. Areas'
  <2>1. ASSUME NEW b \in areas
        PROVE  /\ b.addr \in Nat /\ b.len \in Nat /\ a <= b.addr /\ b.addr + b.len <= LowEnd
               /\ new.addr + new.len <= b.addr /\ b.addr + b.len <= MemSize
               /\ \A x \in b.addr..(b.addr + b.len - 1) : mem'[x] = Area
    <3> DEFINE from == b.addr
               len == b.len
               end == EndOf(mmap[1])
               n == r.len
    <3>1. /\ from \in Nat /\ len \in Nat /\ end <= from /\ from + len <= LowEnd /\ end \in Nat
          /\ n \in Nat /\ a + n <= end /\ a \in Nat
      BY <1>2, <1>4 DEF Areas
    <3> HIDE DEF from, len, end, n
    <3>2. a <= from /\ a + n <= from /\ from + len <= MemSize
      BY <3>1, NumbersAre
    <3>3. \A x \in from..(from + len - 1) : x \in 0..(MemSize - 1) /\ end <= x
      BY <3>1, NumbersAre
    <3>4. \A x \in from..(from + len - 1) : mem[x] = Area
      BY DEF Areas, ProtectedIntact, from, len
    <3>5. \A x \in from..(from + len - 1) : mem'[x] = Area
      BY <1>9, <3>3, <3>4 DEF end
    <3> QED
      BY <3>1, <3>2, <3>5 DEF from, len, n, new
  <2>2. /\ new.addr \in Nat /\ new.len \in Nat /\ new.addr = a /\ new.addr + new.len <= LowEnd
        /\ \A x \in new.addr..(new.addr + new.len - 1) : mem'[x] = Area
    <3> DEFINE n == r.len
    <3>1. a \in Nat /\ n \in Nat /\ a + n <= LowEnd /\ a + n <= MemSize
      BY <1>2, <1>4, NumbersAre
    <3>2. new.addr = a /\ new.len = n
      BY DEF new
    <3> HIDE DEF n
    <3>3. \A x \in a..(a + n - 1) : x \in 0..(MemSize - 1)
      BY <3>1, NumbersAre
    <3>4. \A x \in a..(a + n - 1) : mem'[x] = Area
      BY <1>8, <3>3 DEF n
    <3> QED
      BY <3>1, <3>2, <3>4
  <2>3. ProtectedIntact'
    <3>1. ASSUME NEW b \in areas, NEW c \in areas \ {b}
          PROVE  b.addr + b.len <= c.addr \/ c.addr + c.len <= b.addr
      BY <3>1 DEF Areas, ProtectedIntact
    <3> QED
      BY <1>2, <2>1, <2>2, <3>1 DEF ProtectedIntact
  <2>4. \A s \in 2..Stages : Code + Len(Image[chain[s]]) < a
    <3> SUFFICES ASSUME NEW s \in 2..Stages PROVE Code + Len(Image[chain[s]]) < a
      OBVIOUS
    <3> DEFINE n == Len(Image[chain[s]])
    <3>1. n \in Nat /\ Code + n + 1 + Owed' <= a
      BY <1>2, CodesAre
    <3>2. Owed' \in Nat
      BY <1>2, <1>11, OwedIsNext DEF Running, Loading
    <3> HIDE DEF n
    <3>3. Code + n < a
      BY <1>2, <3>1, <3>2, NumbersAre
    <3> QED
      BY <3>3 DEF n
  <2>5. \A b \in areas : \A s \in 2..Stages : Code + Len(Image[chain[s]]) < b.addr
    BY DEF Areas
  <2>6. ASSUME NEW b \in areas'
        PROVE  /\ b.addr \in Nat /\ b.len \in Nat /\ EndOf(mmap'[1]) <= b.addr /\ b.addr + b.len <= LowEnd
               /\ \A s \in 2..Stages : Code + Len(Image[chain[s]]) < b.addr
    <3>1. CASE b \in areas
      BY <1>6, <2>1, <2>5, <3>1
    <3>2. CASE b = new
      BY <1>2, <1>6, <2>2, <2>4, <3>2
    <3> QED
      BY <1>2, <2>6, <3>1, <3>2
  <2> QED
    BY <1>1, <1>3, <2>3, <2>6 DEF Areas
<1>14. Placed' /\ Raised' /\ Copying' /\ Trampoline'
  BY <1>1, <1>2, <1>3 DEF Placed, Raised, Copying, Trampoline, KindOf
<1>15. Contents'
  <2>1. \A n \in 1..Len(mods) : IsIntact(chain, mem', mods[n])
    BY <1>1, <1>3, <1>10, LowWrite DEF Contents, Running, Loading
  <2> QED
    BY <1>1, <2>1 DEF Contents
<1>16. StageIsLoaded'
  <2>1. ASSUME NEW i \in 1..Len(Image[Kind]),
               NEW x \in Image[Kind][i].to..(Image[Kind][i].to + Image[Kind][i].mem - 1)
        PROVE  mem'[x] = mem[x]
    <3>1. Below(Image[Kind], MemSize) /\ stage \in 1..Stages
      BY <1>1, <1>3, ImageInMemory, StageIs
    <3> QED
      BY <1>1, <1>10, <3>1, LowWrite DEF Kind, Running, Loading
  <2> QED
    BY <1>1, <1>3, <2>1 DEF StageIsLoaded, ImageByte, Inflated
<1> QED
  BY <1>11, <1>12, <1>13, <1>14, <1>15, <1>16

(* The first module leaves the list, and the next image is its own.         *)
LEMMA StartIs ==
  ASSUME IInv, StartModule
  PROVE  /\ pc = "start" /\ stage < Stages /\ stage' = stage + 1 /\ stage + 1 \in 2..Stages
         /\ mods' = Tail(mods) /\ Len(mods') = Len(mods) - 1 /\ Len(mods) \in Nat
         /\ 1 \in 1..Len(mods) /\ Len(mods') \in 1..Len(mods')
         /\ \A n \in 1..Len(mods') : n + 1 \in 1..Len(mods) /\ mods'[n] = mods[n + 1]
         /\ mods[1].id = stage /\ KindOf(mods[1].id) = chain[stage + 1] /\ Kind' = chain[stage + 1]
         /\ Stages' = Stages /\ Kernel' = Kernel /\ Harmless
         /\ UNCHANGED <<mmap, chain, history, todo, top>>
<1> USE DEF IInv
<1>1. /\ pc = "start" /\ mods' = Tail(mods) /\ stage' = stage + 1
      /\ UNCHANGED <<mmap, chain, history, todo, top>>
  BY DEF StartModule
<1>2. stage < Stages /\ stage + 1 \in 2..Stages /\ Harmless
  <2>1. stage < Stages
    BY <1>1 DEF Types, Loading
  <2> QED
    BY <2>1, StageIs, RunnerIs
<1>3. Len(mods) \in Nat /\ 2 <= Len(mods)
  BY <1>2, StageIs, NumbersAre
<1>4. /\ Len(mods') = Len(mods) - 1 /\ \A n \in 1..Len(mods') : mods'[n] = mods[n + 1]
  <2> HIDE DEF Module
  <2> QED
    BY <1>1, <1>3 DEF Types
<1>5. 1 \in 1..Len(mods) /\ Len(mods') \in 1..Len(mods') /\ \A n \in 1..Len(mods') : n + 1 \in 1..Len(mods)
  BY <1>3, <1>4
<1>6. mods[1].id = stage
  BY <1>5, ModuleIs, StageIs
<1> QED
  BY <1>1, <1>2, <1>3, <1>4, <1>5, <1>6 DEF KindOf, Kind, Stages, Kernel

LEMMA StartModuleKeeps == ASSUME IInv, StartModule PROVE IInv'
<1> USE DEF IInv
<1>1. /\ pc = "start" /\ stage < Stages /\ stage' = stage + 1 /\ stage + 1 \in 2..Stages
      /\ mods' = Tail(mods) /\ Len(mods') = Len(mods) - 1 /\ Len(mods) \in Nat
      /\ 1 \in 1..Len(mods) /\ Len(mods') \in 1..Len(mods')
      /\ \A n \in 1..Len(mods') : n + 1 \in 1..Len(mods) /\ mods'[n] = mods[n + 1]
      /\ mods[1].id = stage /\ KindOf(mods[1].id) = chain[stage + 1] /\ Kind' = chain[stage + 1]
      /\ Stages' = Stages /\ Kernel' = Kernel /\ Harmless
      /\ UNCHANGED <<mmap, chain, history, todo, top>>
  BY StartIs
<1> DEFINE segs == Image[chain[stage + 1]]
           m == mods[1]
<1>2. \/ pc' = "exit" /\ UNCHANGED <<code, mem>>
      \/ /\ pc' = "load" /\ code' = Copies(m) /\ mem[m.start] = Inflated(m.id, 0)
         /\ mem' = Fill(mem, Code, Len(code') + 1, LAMBDA k : <<"code", stage', k>>)
  BY DEF StartModule
<1>3. IsImage(segs, FullLen[chain[stage + 1]], LowEnd) /\ Len(segs) \in Nat /\ stage + 1 \in 1..Stages
  <2>1. stage + 1 \in 1..Stages
    BY <1>1, StageIs
  <2> QED
    BY <2>1, KernelIs, ImagesAre
<1>4. pc' = "load" => /\ Len(code') = Len(segs)
                      /\ \A i \in 1..Len(segs) : code'[i] = Copy(segs[i], m.start)
                      /\ code' \in Seq([to : Nat, src : Nat, file : Nat, mem : Nat])
  <2> SUFFICES ASSUME pc' = "load"
               PROVE  /\ Len(code') = Len(segs)
                      /\ \A i \in 1..Len(segs) : code'[i] = Copy(segs[i], m.start)
                      /\ code' \in Seq([to : Nat, src : Nat, file : Nat, mem : Nat])
    OBVIOUS
  <2> DEFINE Item == [to : Nat, src : Nat, file : Nat, mem : Nat]
  <2>1. code' = [i \in 1..Len(segs) |-> Copy(segs[i], m.start)]
    BY <1>1, <1>2 DEF Copies, Copy
  <2>2. \A i \in 1..Len(segs) : Copy(segs[i], m.start) \in Item
    <3> SUFFICES ASSUME NEW i \in 1..Len(segs) PROVE Copy(segs[i], m.start) \in Item
      OBVIOUS
    <3> DEFINE a == m.start
               seg == segs[i]
    <3>1. a \in Nat /\ seg.to \in Nat /\ seg.off \in Nat /\ seg.file \in Nat /\ seg.mem \in Nat
      BY <1>1, <1>3, ModuleIs, ImagesAre
    <3> HIDE DEF a, seg
    <3>2. Copy(seg, a) \in Item
      BY <3>1 DEF Copy
    <3> QED
      BY <3>2 DEF a, seg
  <2> HIDE DEF Item, segs, m
  <2>3. code' \in [1..Len(segs) -> Item]
    BY <2>1, <2>2
  <2>4. code' \in Seq(Item) /\ Len(code') = Len(segs)
    BY <1>3, <2>3
  <2> QED
    BY <2>1, <2>4 DEF Item
<1>5. DOMAIN mem' = DOMAIN mem /\ DOMAIN mem = 0..(MemSize - 1)
  BY <1>2 DEF Types, Fill
<1> HIDE DEF segs
<1>6. \A x \in 0..(MemSize - 1) : x \notin Code..(Code + Len(segs)) => mem'[x] = mem[x]
  <2>1. CASE UNCHANGED mem
    BY <2>1
  <2>2. CASE pc' = "load" /\ mem' = Fill(mem, Code, Len(code') + 1, LAMBDA k : <<"code", stage', k>>)
    <3>1. \A x \in 0..(MemSize - 1) : x \notin Code..(Code + (Len(segs) + 1) - 1) => mem'[x] = mem[x]
      BY <1>4, <1>5, <2>2 DEF Fill
    <3>2. Code + (Len(segs) + 1) - 1 = Code + Len(segs)
      BY <1>3, NumbersAre
    <3> QED
      BY <3>1, <3>2
  <2> QED
    BY <1>2, <2>1, <2>2
<1>7. Code + Len(segs) < LowEnd /\ \A a \in areas : Code + Len(segs) < a.addr
  <2>1. Code + Len(segs) + 1 + Owed <= EndOf(mmap[1]) /\ EndOf(mmap[1]) <= LowEnd
    BY <1>1 DEF Low, Loading, segs
  <2>2. Owed \in Nat /\ EndOf(mmap[1]) \in Nat
    BY <1>1, OwedIs, FirstBlockIs DEF Loading
  <2>3. Code + Len(segs) < LowEnd
    BY <1>3, <2>1, <2>2, NumbersAre
  <2>4. \A a \in areas : Code + Len(segs) < a.addr
    BY <1>1 DEF Areas, segs
  <2> QED
    BY <2>3, <2>4
<1>8. \A x \in 0..(MemSize - 1) : x < Code \/ LowEnd <= x => mem'[x] = mem[x]
  <2>1. \A x \in 0..(MemSize - 1) : x < Code \/ LowEnd <= x => x \notin Code..(Code + Len(segs))
    BY <1>3, <1>7, NumbersAre
  <2> QED
    BY <1>6, <2>1
<1>9. Types'
  <2>1. mods' \in Seq(Module)
    <3> HIDE DEF Module
    <3> QED
      BY <1>1, StageIs DEF Types
  <2>2. Len(mods') = Len(chain) - stage' /\ stage' \in 1..Stages
    BY <1>1, <1>3, StageIs, NumbersAre
  <2>3. pc' \in {"load", "exit"}
    BY <1>2
  <2> QED
    BY <1>1, <1>5, <2>1, <2>2, <2>3 DEF Types, Loading
<1>10. Low'
  <2>1. pc' = "load" => Owed' = Owed
    <3>1. pc' = "load" => Owed' = Total(chain)[Stages - 1] - Total(chain)[(stage + 1) - 1] + 0
      BY <1>1 DEF Owed
    <3>2. Owed = Total(chain)[Stages - 1] - Total(chain)[stage] + 0
      BY <1>1 DEF Owed
    <3>3. (stage + 1) - 1 = stage
      BY StageIs
    <3> QED
      BY <3>1, <3>2, <3>3
  <2> QED
    BY <1>1, <1>2, <2>1 DEF Low, Loading
<1>11. Areas'
  <2>1. ASSUME NEW a \in areas, NEW x \in a.addr..(a.addr + a.len - 1) PROVE mem'[x] = mem[x]
    <3> DEFINE from == a.addr
               len == a.len
               n == Len(segs)
    <3>1. /\ from \in Nat /\ len \in Nat /\ from + len <= LowEnd /\ Code + n < from /\ n \in Nat
          /\ x \in from..(from + len - 1)
      BY <1>3, <1>7 DEF Areas
    <3> HIDE DEF from, len, n
    <3>2. x \in 0..(MemSize - 1) /\ x \notin Code..(Code + n)
      BY <3>1, NumbersAre
    <3> QED
      BY <1>6, <3>2 DEF n
  <2>2. areas' = areas /\ mmap' = mmap
    BY <1>1 DEF history
  <2>3. ProtectedIntact'
    BY <2>1, <2>2 DEF Areas, ProtectedIntact
  <2> QED
    BY <1>1, <2>2, <2>3 DEF Areas
<1>12. Placed'
  <2>1. ASSUME NEW n \in 1..Len(mods')
        PROVE  LET c == mods'[n] IN
               /\ c.id = stage' - 1 + n
               /\ c.end = c.start + RawLen[KindOf(c.id)] \/ c.end = c.start + FullLen[KindOf(c.id)]
               /\ LowEnd <= c.start /\ c.end <= MemSize
               /\ c.string = c.id - 1 \/ (c.string = c.end /\ c.end < MemSize)
               /\ \A k \in (n + 1)..Len(mods') : c.end <= mods'[k].start /\ c.string < mods'[k].start
               /\ \A s \in 1..(Stages - 1) : Below(Image[chain[s]], c.start)
    <3>1. n + 1 \in 1..Len(mods) /\ mods'[n] = mods[n + 1]
      BY <1>1
    <3>2. stage - 1 + (n + 1) = stage' - 1 + n
      <4>1. stage' = stage + 1 /\ stage \in Int
        BY <1>1, StageIs
      <4> QED
        BY <4>1
    <3>3. \A k \in (n + 1)..Len(mods') :
            k + 1 \in (n + 1 + 1)..Len(mods) /\ k \in 1..Len(mods') /\ mods'[k] = mods[k + 1]
      BY <1>1
    <3> QED
      BY <3>1, <3>2, <3>3 DEF Placed
  <2> QED
    BY <1>1, <2>1 DEF Placed, KindOf
<1>13. Raised'
  <2>1. mods'[Len(mods')] = mods[Len(mods)]
    BY <1>1
  <2> QED
    BY <1>1, <1>2, <2>1 DEF Raised, history
<1>14. Copying' /\ StageIsLoaded'
  BY <1>2 DEF Copying, StageIsLoaded
<1>15. Contents'
  <2>1. \A n \in 1..Len(mods) : IsIntact(chain, mem', mods[n])
    BY <1>1, <1>8, LowWrite DEF Contents, Running, Loading
  <2> QED
    BY <1>1, <2>1 DEF Contents
<1>16. Trampoline'
  <2> SUFFICES ASSUME pc' = "load"
      PROVE  \E a \in 0..MemSize :
               /\ 1 < stage' /\ code' \in Seq([to : Nat, src : Nat, file : Nat, mem : Nat]) /\ Done' \in Nat
               /\ \A i \in 1..Len(code') : code'[i] = Copy(Image[Kind'][Done' + i], a)
               /\ Harmless' =>
                    /\ Below(Image[Kind'], a) /\ a + FullLen[Kind'] <= MemSize
                    /\ \A k \in 0..(FullLen[Kind'] - 1) : mem'[a + k] = Inflated(stage' - 1, k)
                    /\ \A i \in 1..Done' : InPlace(mem', stage' - 1, Image[Kind'][i])
    BY DEF Trampoline, InPlace, ImageByte, Inflated
  <2> DEFINE a == m.start
  <2>1. a \in Nat /\ a <= MemSize /\ LowEnd <= a
    <3> DEFINE end == m.end
    <3>1. a \in Nat /\ end \in Nat /\ LowEnd <= a /\ a < end /\ end <= MemSize
      BY <1>1, ModuleIs
    <3> HIDE DEF a, end
    <3> QED
      BY <3>1, NumbersAre
  <2>2. Done' = 0 /\ Kind' = chain[stage + 1] /\ Image[Kind'] = segs
    BY <1>1, <1>3, <1>4 DEF Done, segs
  <2>3. \A i \in 1..Len(code') : code'[i] = Copy(Image[Kind'][Done' + i], a)
    BY <1>4, <2>2
  <2>4. 1 < stage' /\ stage' - 1 = stage
    BY <1>1, StageIs
  <2>5. ASSUME Harmless' PROVE Below(segs, a)
    <3>1. CASE stage' < Stages
      <4>1. stage' \in 1..(Stages - 1)
        BY <1>1, <3>1, StageIs
      <4> QED
        BY <1>1, <4>1 DEF Placed, segs
    <3>2. CASE stage' = Stages
      <4>1. Kind' = Kernel /\ Kernel \in Kernels
        BY <1>1, <3>2, StageIs, ChainIs DEF Kernel, Stages
      <4>2. relocated # 0
        BY <1>1, <2>5, <4>1 DEF Harmless, history
      <4> QED
        BY <1>1, <2>2, <4>1, <4>2 DEF Raised
    <3> QED
      BY <1>1, <3>1, <3>2, StageIs
  <2>6. IsFull(chain, mem, m)
    <3>1. IsIntact(chain, mem, m) /\ mem[m.start] = Inflated(m.id, 0)
      BY <1>1, <1>2 DEF Contents
    <3>2. CASE IsRaw(chain, mem, m)
      <4>1. RawLen[chain[m.id + 1]] \in Nat \ {0} /\ m.start \in Nat
        BY <1>1, ModuleIs
      <4>2. mem[m.start] = RawByte(chain, m.id, 0)
        <5>1. 0 \in 0..(RawLen[chain[m.id + 1]] - 1) /\ m.start + 0 = m.start
          BY <4>1
        <5> QED
          BY <3>2, <5>1 DEF IsRaw
      <4>3. RawLen[chain[m.id + 1]] = FullLen[chain[m.id + 1]]
        BY <3>1, <4>2 DEF RawByte, Inflated
      <4>4. \A k : RawByte(chain, m.id, k) = Inflated(m.id, k)
        BY <4>3 DEF RawByte, Inflated
      <4> QED
        BY <3>2, <4>3, <4>4 DEF IsRaw, IsFull
    <3> QED
      BY <3>1, <3>2 DEF IsIntact
  <2>7. a + FullLen[Kind'] <= MemSize /\ \A k \in 0..(FullLen[Kind'] - 1) : mem'[a + k] = Inflated(stage, k)
    <3> DEFINE len == FullLen[Kind']
               end == m.end
    <3>1. /\ len \in Nat /\ end \in Nat /\ end - a = len /\ end <= MemSize
          /\ \A k \in 0..(len - 1) : mem[a + k] = Inflated(stage, k)
      BY <1>1, <2>6, ModuleIs DEF IsFull
    <3> HIDE DEF len, end, a
    <3>2. a + len <= MemSize
      BY <2>1, <3>1, NumbersAre
    <3>3. \A k \in 0..(len - 1) : a + k \in 0..(MemSize - 1) /\ LowEnd <= a + k
      BY <2>1, <3>1, <3>2, NumbersAre
    <3>4. \A k \in 0..(len - 1) : mem'[a + k] = Inflated(stage, k)
      BY <1>8, <3>1, <3>3
    <3> QED
      BY <3>2, <3>4 DEF len
  <2>8. a \in 0..MemSize
    BY <2>1, NumbersAre
  <2>9. \A i \in 1..Done' : InPlace(mem', stage' - 1, Image[Kind'][i])
    BY <2>2
  <2> HIDE DEF a
  <2> QED
    BY <1>4, <2>2, <2>3, <2>4, <2>5, <2>7, <2>8, <2>9
<1> QED
  BY <1>9, <1>10, <1>11, <1>12, <1>13, <1>14, <1>15, <1>16

(* A segment is copied from above it: no byte is read after it was written. *)
LEMMA LoadedIs ==
  ASSUME NEW memory, DOMAIN memory = 0..(MemSize - 1), NEW c,
         c.to \in Nat, c.src \in Nat, c.file \in Nat, c.mem \in Nat, c.file <= c.mem
  PROVE  /\ DOMAIN Loaded(memory, c) = DOMAIN memory
         /\ \A x \in 0..(MemSize - 1) :
              x < c.to \/ c.to + c.mem <= x => Loaded(memory, c)[x] = memory[x]
         /\ c.to <= c.src => \A x \in 0..(MemSize - 1) :
              /\ c.to <= x /\ x < c.to + c.file => Loaded(memory, c)[x] = memory[c.src + (x - c.to)]
              /\ c.to + c.file <= x /\ x < c.to + c.mem => Loaded(memory, c)[x] = Zero
<1> DEFINE from(k) == IF c.to > c.src THEN k % (c.to - c.src) ELSE k
           byte(k) == memory[c.src + from(k)]
           data == Fill(memory, c.to, c.file, byte)
           to == c.to
           file == c.file
           size == c.mem
           rest == c.mem - c.file
<1>1. Loaded(memory, c) = Fill(data, c.to + c.file, c.mem - c.file, LAMBDA k : Zero)
  BY DEF Loaded
<1>2. DOMAIN data = DOMAIN memory /\ DOMAIN Loaded(memory, c) = DOMAIN memory
  BY <1>1 DEF Fill
<1>3. \A x \in 0..(MemSize - 1) : data[x] = IF x \in to..(to + file - 1) THEN byte(x - to) ELSE memory[x]
  BY DEF Fill
<1> HIDE DEF byte
<1>4. \A x \in 0..(MemSize - 1) :
        Loaded(memory, c)[x] = IF x \in (to + file)..((to + file) + rest - 1) THEN Zero ELSE data[x]
  <2> HIDE DEF data
  <2> QED
    BY <1>1, <1>2 DEF Fill
<1>5. to \in Nat /\ file \in Nat /\ size \in Nat /\ file <= size /\ rest = size - file
  OBVIOUS
<1> HIDE DEF data, to, file, size, rest
<1>6. ASSUME NEW x \in 0..(MemSize - 1), x < to \/ to + size <= x PROVE Loaded(memory, c)[x] = memory[x]
  <2>1. x \notin to..(to + file - 1) /\ x \notin (to + file)..((to + file) + rest - 1)
    BY <1>5, <1>6
  <2> QED
    BY <1>3, <1>4, <2>1
<1>7. ASSUME NEW x \in 0..(MemSize - 1), to <= x, x < to + file PROVE Loaded(memory, c)[x] = byte(x - to)
  <2>1. x \in to..(to + file - 1) /\ x \notin (to + file)..((to + file) + rest - 1)
    BY <1>5, <1>7
  <2> QED
    BY <1>3, <1>4, <2>1
<1>8. ASSUME NEW x \in 0..(MemSize - 1), to + file <= x, x < to + size PROVE Loaded(memory, c)[x] = Zero
  <2>1. x \in (to + file)..((to + file) + rest - 1)
    BY <1>5, <1>8
  <2> QED
    BY <1>4, <2>1
<1>9. c.to <= c.src => \A k : byte(k) = memory[c.src + k]
  BY DEF byte
<1> QED
  BY <1>2, <1>6, <1>7, <1>8, <1>9 DEF to, file, size

LEMMA LoadSegmentKeeps == ASSUME IInv, LoadSegment PROVE IInv'
<1> USE DEF IInv
<1>1. /\ pc = "load" /\ pc' = "load" /\ code # <<>> /\ mem' = Loaded(mem, Head(code)) /\ code' = Tail(code)
      /\ UNCHANGED <<mmap, chain, stage, mods, history, todo, top>>
  BY DEF LoadSegment
<1>2. Stages' = Stages /\ Kind' = Kind /\ Kernel' = Kernel /\ Harmless' = Harmless
  BY <1>1 DEF Stages, Kind, Kernel, Harmless, history
<1>3. PICK a \in 0..MemSize :
        /\ 1 < stage /\ code \in Seq([to : Nat, src : Nat, file : Nat, mem : Nat]) /\ Done \in Nat
        /\ \A i \in 1..Len(code) : code[i] = Copy(Image[Kind][Done + i], a)
        /\ Harmless =>
             /\ Below(Image[Kind], a) /\ a + FullLen[Kind] <= MemSize
             /\ \A k \in 0..(FullLen[Kind] - 1) : mem[a + k] = Inflated(stage - 1, k)
             /\ \A i \in 1..Done : InPlace(mem, stage - 1, Image[Kind][i])
  BY <1>1 DEF Trampoline
<1> DEFINE segs == Image[Kind]
           d == Done + 1
           seg == segs[d]
           Item == [to : Nat, src : Nat, file : Nat, mem : Nat]
<1>4. IsImage(segs, FullLen[Kind], LowEnd) /\ Len(segs) \in Nat
  BY StageIs, KernelIs, ImagesAre DEF Kind
<1>5. /\ code' \in Seq(Item) /\ Len(code) \in Nat \ {0} /\ Len(code') = Len(code) - 1
      /\ \A i \in 1..Len(code') : code'[i] = code[i + 1] /\ i + 1 \in 1..Len(code)
      /\ Head(code) = code[1] /\ 1 \in 1..Len(code)
  <2>1. code \in Seq(Item) /\ code # <<>>
    BY <1>1, <1>3
  <2> HIDE DEF Item
  <2> QED
    BY <1>1, <2>1
<1> HIDE DEF segs
<1>6. d \in 1..Len(segs) /\ Done' = d /\ Done \in Nat
  <2>1. Done = Len(segs) - Len(code) /\ Done' = Len(segs) - Len(code')
    BY <1>2 DEF Done, segs
  <2> HIDE DEF Done
  <2> QED
    BY <1>3, <1>4, <1>5, <2>1
<1> DEFINE to == seg.to
           file == seg.file
           size == seg.mem
           off == seg.off
<1>7. /\ to \in Nat /\ off \in Nat /\ file \in Nat /\ size \in Nat
      /\ LowEnd <= to /\ file <= size /\ off + file <= FullLen[Kind]
  BY <1>4, <1>6, ImagesAre
<1>8. Head(code) = [to |-> to, src |-> a + off, file |-> file, mem |-> size]
  <2>1. code[1] = Copy(seg, a)
    BY <1>3, <1>5 DEF segs
  <2> QED
    BY <1>5, <2>1 DEF Copy
<1> HIDE DEF d, seg
<1> HIDE DEF to, file, size, off
<1>9. /\ DOMAIN mem = 0..(MemSize - 1) /\ DOMAIN mem' = DOMAIN mem
      /\ \A x \in 0..(MemSize - 1) : x < to \/ to + size <= x => mem'[x] = mem[x]
      /\ to <= a + off => \A x \in 0..(MemSize - 1) :
           /\ to <= x /\ x < to + file => mem'[x] = mem[(a + off) + (x - to)]
           /\ to + file <= x /\ x < to + size => mem'[x] = Zero
  <2>1. DOMAIN mem = 0..(MemSize - 1)
    BY DEF Types
  <2>2. a + off \in Nat
    BY <1>7, NumbersAre
  <2> DEFINE c == Head(code)
  <2>3. c.to = to /\ c.src = a + off /\ c.file = file /\ c.mem = size
    BY <1>8
  <2>4. mem' = Loaded(mem, c)
    BY <1>1
  <2> HIDE DEF c
  <2>5. c.to \in Nat /\ c.src \in Nat /\ c.file \in Nat /\ c.mem \in Nat /\ c.file <= c.mem
    BY <1>7, <2>2, <2>3
  <2>6. /\ DOMAIN mem' = DOMAIN mem
        /\ \A x \in 0..(MemSize - 1) : x < c.to \/ c.to + c.mem <= x => mem'[x] = mem[x]
        /\ c.to <= c.src => \A x \in 0..(MemSize - 1) :
             /\ c.to <= x /\ x < c.to + c.file => mem'[x] = mem[c.src + (x - c.to)]
             /\ c.to + c.file <= x /\ x < c.to + c.mem => mem'[x] = Zero
    <3>1. /\ DOMAIN Loaded(mem, c) = DOMAIN mem
          /\ \A x \in 0..(MemSize - 1) :
               x < c.to \/ c.to + c.mem <= x => Loaded(mem, c)[x] = mem[x]
          /\ c.to <= c.src => \A x \in 0..(MemSize - 1) :
               /\ c.to <= x /\ x < c.to + c.file => Loaded(mem, c)[x] = mem[c.src + (x - c.to)]
               /\ c.to + c.file <= x /\ x < c.to + c.mem => Loaded(mem, c)[x] = Zero
      BY <2>1, <2>5, LoadedIs, Zenon
    <3> QED
      BY <2>4, <3>1, Zenon
  <2> QED
    BY <2>1, <2>3, <2>6
<1>10. Types'
  BY <1>1, <1>2, <1>9 DEF Types, Loading
<1>11. Low'
  <2>1. Owed' = Owed
    BY <1>1, <1>2 DEF Owed
  <2> QED
    BY <1>1, <1>2, <2>1 DEF Low
<1>12. Areas'
  <2>1. ASSUME NEW b \in areas, NEW x \in b.addr..(b.addr + b.len - 1) PROVE mem'[x] = mem[x]
    <3> DEFINE from == b.addr
               len == b.len
    <3>1. from \in Nat /\ len \in Nat /\ from + len <= LowEnd /\ x \in from..(from + len - 1)
      BY DEF Areas
    <3> HIDE DEF from, len
    <3>2. x \in 0..(MemSize - 1) /\ x < to
      BY <1>7, <3>1, NumbersAre
    <3> QED
      BY <1>9, <3>2
  <2>2. areas' = areas /\ mmap' = mmap
    BY <1>1 DEF history
  <2>3. ProtectedIntact'
    BY <2>1, <2>2 DEF Areas, ProtectedIntact
  <2> QED
    BY <1>1, <1>2, <2>2, <2>3 DEF Areas
<1>13. Placed' /\ Raised' /\ Copying' /\ StageIsLoaded'
  BY <1>1, <1>2 DEF Placed, Raised, Copying, StageIsLoaded, KindOf, history
<1>14. ASSUME NEW y \in Int, Below(segs, y) PROVE to + size <= y
  BY <1>6, <1>14 DEF Below, to, size, seg
<1>15. Contents'
  <2> SUFFICES ASSUME Harmless, NEW n \in 1..Len(mods) PROVE IsIntact(chain, mem', mods[n])
    BY <1>1, <1>2 DEF Contents
  <2> DEFINE from == mods[n].start
             end  == mods[n].end
             text == mods[n].string
  <2>1. /\ from \in Nat /\ end \in Nat /\ text \in Nat /\ LowEnd <= from /\ from < end /\ end <= MemSize
        /\ RawLen[chain[mods[n].id + 1]] \in Nat /\ FullLen[chain[mods[n].id + 1]] \in Nat
        /\ text < Code \/ (text = end /\ text < MemSize)
    BY ModuleIs, StringIs
  <2>2. Below(segs, from)
    <3>1. CASE stage < Stages
      <4>1. stage \in 1..(Stages - 1)
        BY <3>1, StageIs
      <4> QED
        BY <4>1 DEF Placed, Kind, segs
    <3>2. CASE stage = Stages
      BY <3>2, StageIs DEF Raised, Kind, Kernel, segs
    <3> QED
      BY <3>1, <3>2, StageIs
  <2>3. to + size <= from
    BY <1>14, <2>1, <2>2
  <2>4. Code < LowEnd
    BY <1>1, CodeIsLow DEF Running
  <2>5. IsIntact(chain, mem, mods[n])
    BY DEF Contents
  <2> HIDE DEF from, end, text
  <2>6. \A x \in from..(end - 1) : x \in 0..(MemSize - 1) /\ to + size <= x
    BY <1>7, <2>1, <2>3, NumbersAre
  <2>7. text \in 0..(MemSize - 1) /\ (text < to \/ to + size <= text)
    BY <1>7, <2>1, <2>3, <2>4, NumbersAre
  <2>8. \A x \in from..(end - 1) : mem'[x] = mem[x]
    BY <1>9, <2>6
  <2>9. mem'[text] = mem[text]
    BY <1>9, <2>7
  <2> QED
    BY <2>1, <2>5, <2>8, <2>9, Untouched DEF from, end, text
<1>16. ASSUME Harmless
       PROVE  /\ Below(segs, a) /\ a + FullLen[Kind] <= MemSize
              /\ \A k \in 0..(FullLen[Kind] - 1) : mem'[a + k] = Inflated(stage - 1, k)
              /\ \A i \in 1..d : InPlace(mem', stage - 1, segs[i])
  <2>1. /\ Below(segs, a) /\ a + FullLen[Kind] <= MemSize
        /\ \A k \in 0..(FullLen[Kind] - 1) : mem[a + k] = Inflated(stage - 1, k)
        /\ \A i \in 1..Done : InPlace(mem, stage - 1, segs[i])
    BY <1>3, <1>16 DEF segs
  <2> DEFINE len == FullLen[Kind]
  <2>2. len \in Nat /\ a \in Nat /\ a + len <= MemSize /\ to + size <= a /\ a <= MemSize
    <3>1. stage \in 1..Len(chain)
      BY StageIs, NumbersAre
    <3>2. len \in Nat
      BY <3>1, StageIs, KindsAre DEF Kind
    <3> QED
      BY <1>14, <2>1, <3>2, NumbersAre
  <2>3. off + file <= len
    BY <1>7
  <2> HIDE DEF len
  <2>4. \A k \in 0..(len - 1) : a + k \in 0..(MemSize - 1) /\ to + size <= a + k
    BY <1>7, <2>2, NumbersAre
  <2>5. \A k \in 0..(len - 1) : mem'[a + k] = Inflated(stage - 1, k)
    BY <1>9, <2>1, <2>4 DEF len
  <2>6. ASSUME NEW i \in 1..Done PROVE InPlace(mem', stage - 1, segs[i])
    <3>1. i \in 1..Len(segs) /\ i < d /\ d \in 1..Len(segs)
      BY <1>6, <2>6 DEF d
    <3>2. \/ segs[i].to + segs[i].mem <= to
          \/ to + size <= segs[i].to
      BY <1>4, <3>1 DEF IsImage, to, size, seg
    <3>3. segs[i].to + segs[i].mem <= a
      BY <2>1, <3>1 DEF Below
    <3> DEFINE ito == segs[i].to
               imem == segs[i].mem
    <3>4. /\ ito \in Nat /\ imem \in Nat /\ ito + imem <= a /\ (ito + imem <= to \/ to + size <= ito)
      BY <1>4, <3>1, <3>2, <3>3, ImagesAre
    <3> HIDE DEF ito, imem
    <3>5. \A x \in ito..(ito + imem - 1) : x \in 0..(MemSize - 1) /\ (x < to \/ to + size <= x)
      BY <1>7, <2>2, <3>4, NumbersAre
    <3>6. \A x \in ito..(ito + imem - 1) : mem'[x] = mem[x]
      BY <1>9, <3>5
    <3> QED
      BY <2>1, <3>6 DEF InPlace, ito, imem
  <2>7. InPlace(mem', stage - 1, seg)
    <3>1. to <= a + off
      BY <1>7, <2>2
    <3>2. ASSUME NEW x \in to..(to + size - 1) PROVE mem'[x] = ImageByte(stage - 1, seg, x)
      <4>1. x \in 0..(MemSize - 1) /\ to <= x /\ x < to + size
        BY <1>7, <2>2, <3>2, NumbersAre
      <4>2. CASE x < to + file
        <5> DEFINE k == off + x - to
        <5>1. k \in 0..(len - 1) /\ a + k = (a + off) + (x - to)
          BY <1>7, <2>2, <2>3, <4>1, <4>2
        <5> HIDE DEF k
        <5>2. mem'[x] = mem[(a + off) + (x - to)]
          BY <1>9, <3>1, <4>1, <4>2
        <5>3. mem'[x] = Inflated(stage - 1, k)
          BY <2>1, <5>1, <5>2 DEF len
        <5>4. ImageByte(stage - 1, seg, x) = Inflated(stage - 1, k)
          BY <4>2 DEF ImageByte, to, file, off, k
        <5> QED
          BY <5>3, <5>4
      <4>3. CASE ~(x < to + file)
        <5>1. mem'[x] = Zero
          BY <1>7, <1>9, <3>1, <4>1, <4>3
        <5>2. ImageByte(stage - 1, seg, x) = Zero
          BY <4>3 DEF ImageByte, to, file
        <5> QED
          BY <5>1, <5>2
      <4> QED
        BY <4>2, <4>3
    <3> QED
      BY <3>2 DEF InPlace, to, size
  <2>8. \A i \in 1..d : i \in 1..Done \/ i = d
    BY <1>6 DEF d
  <2> QED
    BY <2>1, <2>5, <2>6, <2>7, <2>8 DEF len, seg
<1>17. Trampoline'
  <2>1. \A i \in 1..Len(code') : code'[i] = Copy(Image[Kind][d + i], a)
    <3>1. \A i \in 1..Len(code') : Done + (i + 1) = d + i
      BY <1>5, <1>6 DEF d
    <3> QED
      BY <1>3, <1>5, <3>1
  <2> SUFFICES ASSUME TRUE
      PROVE  \E b \in 0..MemSize :
               /\ 1 < stage' /\ code' \in Seq([to : Nat, src : Nat, file : Nat, mem : Nat]) /\ Done' \in Nat
               /\ \A i \in 1..Len(code') : code'[i] = Copy(Image[Kind'][Done' + i], b)
               /\ Harmless' =>
                    /\ Below(Image[Kind'], b) /\ b + FullLen[Kind'] <= MemSize
                    /\ \A k \in 0..(FullLen[Kind'] - 1) : mem'[b + k] = Inflated(stage' - 1, k)
                    /\ \A i \in 1..Done' : InPlace(mem', stage' - 1, Image[Kind'][i])
    BY DEF Trampoline, InPlace, ImageByte, Inflated
  <2>2. Done' \in Nat /\ Done' = d /\ stage' = stage
    BY <1>1, <1>6 DEF d
  <2> QED
    BY <1>2, <1>3, <1>5, <1>16, <2>1, <2>2 DEF segs
<1> QED
  BY <1>10, <1>11, <1>12, <1>13, <1>15, <1>17
-----------------------------------------------------------------------------
(* How the boot loader leaves them.                                         *)
LEMMA LoadedAtIs ==
  ASSUME NEW c \in Chains, NEW base \in Nat, NEW n \in 1..(Len(c) - 1)
  PROVE  /\ LoadedAt(c, base, n) \in Nat /\ base <= LoadedAt(c, base, n) /\ RawLen[c[n + 1]] \in Nat \ {0}
         /\ \A k \in (n + 1)..(Len(c) - 1) : LoadedAt(c, base, n) + RawLen[c[n + 1]] <= LoadedAt(c, base, k)
<1> DEFINE N == Len(c) - 1
           f == [j \in 1..N |-> Paged(RawLen[c[j + 1]])]
           s == Sums(f)
<1>1. N \in Nat /\ n \in 1..N
  BY ChainIs, NumbersAre
<1>2. \A j \in 1..N : RawLen[c[j + 1]] \in Nat \ {0}
  <2>1. \A j \in 1..N : j + 1 \in 1..Len(c)
    BY ChainIs, NumbersAre
  <2> QED
    BY <2>1, KindsAre
<1>3. \A j \in 1..N : f[j] \in Nat /\ RawLen[c[j + 1]] <= f[j]
  BY <1>2, PagedIs
<1> HIDE DEF N
<1>4. f \in Seq(Nat) /\ Len(f) = N
  <2>1. f \in [1..N -> Nat]
    BY <1>3
  <2> HIDE DEF f
  <2> QED
    BY <1>1, <2>1
<1>5. \A j : LoadedAt(c, base, j) = base + s[j - 1]
  BY DEF LoadedAt, N
<1> HIDE DEF f
<1>6. /\ \A j \in 0..N : s[j] \in Nat
      /\ \A j \in 1..N : s[j] = s[j - 1] + f[j]
  <2>1. IsSum(f, s, N)
    BY <1>4, SumsAre
  <2> HIDE DEF s
  <2> QED
    BY <2>1 DEF IsSum
<1>7. ASSUME NEW k \in (n + 1)..N PROVE s[n] <= s[k - 1]
  <2>1. n \in 0..Len(f) /\ k - 1 \in n..Len(f)
    BY <1>1, <1>4, <1>7
  <2> QED
    BY <1>4, <2>1, SumsGrow
<1> HIDE DEF s
<1>8. s[n - 1] \in Nat /\ s[n] \in Nat /\ s[n] = s[n - 1] + f[n] /\ f[n] \in Nat
  <2>1. n - 1 \in 0..N /\ n \in 0..N
    BY <1>1
  <2> QED
    BY <1>1, <1>3, <1>6, <2>1
<1>9. LoadedAt(c, base, n) \in Nat /\ base <= LoadedAt(c, base, n)
  BY <1>5, <1>8
<1>10. ASSUME NEW k \in (n + 1)..N PROVE LoadedAt(c, base, n) + RawLen[c[n + 1]] <= LoadedAt(c, base, k)
  <2>1. k - 1 \in 0..N
    BY <1>1, <1>10
  <2>2. s[k - 1] \in Nat /\ s[n] <= s[k - 1]
    BY <1>6, <1>7, <2>1
  <2>3. RawLen[c[n + 1]] \in Nat /\ RawLen[c[n + 1]] <= f[n]
    BY <1>1, <1>2, <1>3
  <2> DEFINE raw == RawLen[c[n + 1]]
             at == LoadedAt(c, base, n)
             next == LoadedAt(c, base, k)
             a == s[n - 1]
             b == s[n]
             e == s[k - 1]
             size == f[n]
  <2>4. /\ raw \in Nat /\ raw <= size /\ size \in Nat /\ a \in Nat /\ b \in Nat /\ b = a + size
        /\ e \in Nat /\ b <= e /\ at = base + a /\ next = base + e /\ base \in Nat
    BY <1>5, <1>8, <2>2, <2>3
  <2> HIDE DEF raw, at, next, a, b, e, size
  <2>5. at + raw <= next
    BY <2>4
  <2> QED
    BY <2>5 DEF at, raw, next
<1> QED
  BY <1>1, <1>2, <1>9, <1>10 DEF N

LEMMA OneOf == ASSUME NEW x \in Int PROVE Max({x}) = x
BY DEF Max

LEMMA InitIs ==
  ASSUME Init
  PROVE  /\ mmap \in Maps /\ chain \in Chains /\ stage = 1 /\ 1 < Stages /\ Modules = 1..(Len(chain) - 1)
         /\ Kind = chain[1] /\ 1 \in 1..(KernelAt(chain) - 1) /\ Len(mods) = Len(chain) - 1
         /\ mods \in Seq(Module) /\ Len(mods) \in Nat
         /\ \E base \in Bases : \A m \in 1..Len(mods) :
              mods[m] = [start |-> LoadedAt(chain, base, m),
                         end |-> LoadedAt(chain, base, m) + RawLen[chain[m + 1]],
                         string |-> m - 1, id |-> m]
         /\ code = <<>> /\ areas = {} /\ relocated = 0
         /\ pc = "alloc" /\ todo = Len(Allocs[Kind]) /\ top = 0
<1>1. /\ mmap \in Maps /\ chain \in Chains /\ stage = 1
      /\ code = <<>> /\ areas = {} /\ relocated = 0
      /\ pc = "alloc" /\ todo = Len(Allocs[Kind]) /\ top = 0
  BY DEF Init
<1>2. KernelAt(chain) \in 2..(Len(chain) - 1) /\ Len(chain) \in Nat /\ Len(chain) - 1 \in Nat
  BY <1>1, ChainIs, NumbersAre
<1>3. 1 < Stages /\ 1 \in 1..(KernelAt(chain) - 1)
  BY <1>2 DEF Stages
<1>4. PICK base \in Bases :
        mods = [m \in 1..(Len(chain) - 1) |->
                  [start |-> LoadedAt(chain, base, m), end |-> LoadedAt(chain, base, m) + RawLen[chain[m + 1]],
                   string |-> m - 1, id |-> m]]
  BY DEF Init, Modules, KindOf
<1>5. base \in Nat
  BY LowEndIs DEF Layout
<1>6. \A m \in 1..(Len(chain) - 1) :
        [start |-> LoadedAt(chain, base, m), end |-> LoadedAt(chain, base, m) + RawLen[chain[m + 1]],
         string |-> m - 1, id |-> m] \in Module
  <2> SUFFICES ASSUME NEW m \in 1..(Len(chain) - 1)
      PROVE  [start |-> LoadedAt(chain, base, m),
              end |-> LoadedAt(chain, base, m) + RawLen[chain[m + 1]], string |-> m - 1, id |-> m] \in Module
    OBVIOUS
  <2> DEFINE from == LoadedAt(chain, base, m)
             len == RawLen[chain[m + 1]]
  <2>1. from \in Nat /\ len \in Nat /\ m \in Nat /\ m - 1 \in Nat
    <3>1. from \in Nat /\ len \in Nat
      BY <1>1, <1>5, LoadedAtIs
    <3>2. m \in Nat /\ m - 1 \in Nat
      BY <1>2
    <3> QED
      BY <3>1, <3>2
  <2> HIDE DEF from, len
  <2>2. [start |-> from, end |-> from + len, string |-> m - 1, id |-> m] \in Module
    BY <2>1 DEF Module
  <2> QED
    BY <2>2 DEF from, len
<1>7. mods \in [1..(Len(chain) - 1) -> Module]
  <2> HIDE DEF Module
  <2> QED
    BY <1>4, <1>6
<1>8. mods \in Seq(Module) /\ Len(mods) = Len(chain) - 1
  <2> HIDE DEF Module
  <2> QED
    BY <1>2, <1>7
<1> QED
  BY <1>1, <1>2, <1>3, <1>4, <1>8 DEF Modules, Kind

(* Byte x of memory, as the boot loader leaves it.                          *)
LEMMA InitMemory ==
  ASSUME Init, NEW x \in 0..(MemSize - 1)
  PROVE  LET here == {m \in 1..Len(mods) : x \in mods[m].start..(mods[m].end - 1)}
             segs == {i \in 1..Len(Image[Kind]) :
                        x \in Image[Kind][i].to..(Image[Kind][i].to + Image[Kind][i].mem - 1)}
         IN mem[x] = IF x + 1 \in 1..Len(mods) THEN String(x + 1)
                     ELSE IF here # {} THEN Packed(Max(here), x - mods[Max(here)].start)
                     ELSE IF segs # {} THEN ImageByte(0, Image[Kind][Max(segs)], x) ELSE Free
<1>1. Modules = 1..Len(mods)
  BY InitIs
<1> QED
  BY <1>1, Zenon DEF Init

LEMMA InitEstablishes == ASSUME Init PROVE IInv
<1>1. /\ mmap \in Maps /\ chain \in Chains /\ stage = 1 /\ 1 < Stages /\ Modules = 1..(Len(chain) - 1)
      /\ Kind = chain[1] /\ 1 \in 1..(KernelAt(chain) - 1) /\ Len(mods) = Len(chain) - 1
      /\ mods \in Seq(Module) /\ Len(mods) \in Nat
      /\ code = <<>> /\ areas = {} /\ relocated = 0
      /\ pc = "alloc" /\ todo = Len(Allocs[Kind]) /\ top = 0
  BY InitIs
<1>2. PICK base \in Bases : \A m \in 1..Len(mods) :
        mods[m] = [start |-> LoadedAt(chain, base, m),
                   end |-> LoadedAt(chain, base, m) + RawLen[chain[m + 1]],
                   string |-> m - 1, id |-> m]
  BY InitIs
<1>3. /\ IsMap(mmap, LowEnd) /\ Behind(chain) /\ RoomFor(mmap, chain)
      /\ base \in Nat /\ LowEnd <= base
  BY <1>1, LowEndIs DEF Layout
<1>4. DOMAIN mem = 0..(MemSize - 1)
  BY DEF Init
<1>5. Types
  <2>1. Len(Allocs[Kind]) \in Nat
    BY <1>1, NeedsAre
  <2>2. mmap \in Seq(Block)
    BY <1>3 DEF IsMap
  <2>3. stage \in 1..Stages
    BY <1>1, ChainIs, NumbersAre DEF Stages
  <2> QED
    BY <1>1, <1>4, <2>1, <2>2, <2>3 DEF Types, Loading
<1>6. Low
  <2>1. Owed = Total(chain)[Stages - 1]
    <3>1. /\ Total(chain)[1] = Total(chain)[1 - 1] + Needed(chain[1])[Len(Allocs[chain[1]])]
          /\ Total(chain)[0] = 0
      BY <1>1, TotalsAre
    <3>2. Needed(chain[1])[Len(Allocs[chain[1]])] \in Nat
      <4>1. Len(Allocs[chain[1]]) \in 0..Len(Allocs[chain[1]])
        BY <1>1, NeedsAre
      <4> QED
        BY <1>1, <4>1, NeedsAre
    <3>3. Total(chain)[Stages - 1] \in Nat
      <4>1. Stages - 1 \in 0..(KernelAt(chain) - 1)
        BY <1>1, ChainIs, NumbersAre DEF Stages
      <4> QED
        BY <1>1, <4>1, TotalsAre DEF Stages
    <3>4. Owed = Total(chain)[Stages - 1] - Total(chain)[1] + Needed(chain[1])[Len(Allocs[chain[1]])]
      BY <1>1 DEF Owed
    <3>5. Total(chain)[1] = Needed(chain[1])[Len(Allocs[chain[1]])]
      BY <3>1, <3>2
    <3> QED
      BY <3>2, <3>3, <3>4, <3>5
  <2> QED
    BY <1>1, <1>3, <2>1 DEF Low, IsMap, RoomFor, Stages
<1>7. Areas
  BY <1>1 DEF Areas, ProtectedIntact
<1>8. Code < LowEnd
  BY <1>1, <1>5, <1>6, CodeIsLow DEF Running, Loading
<1>9. ASSUME NEW n \in 1..Len(mods)
      PROVE  /\ mods[n].start = LoadedAt(chain, base, n) /\ mods[n].start \in Nat
             /\ mods[n].end = mods[n].start + RawLen[chain[n + 1]] /\ RawLen[chain[n + 1]] \in Nat \ {0}
             /\ base <= mods[n].start /\ mods[n].string = n - 1 /\ mods[n].id = n
             /\ mods[n].end <= MemSize /\ n - 1 < Code /\ mods[n].end \in Nat
             /\ \A k \in (n + 1)..Len(mods) : mods[n].end <= mods[k].start
  <2>1. n \in 1..(Len(chain) - 1)
    BY <1>1
  <2>2. /\ LoadedAt(chain, base, n) \in Nat /\ base <= LoadedAt(chain, base, n)
        /\ RawLen[chain[n + 1]] \in Nat \ {0}
        /\ \A k \in (n + 1)..(Len(chain) - 1) :
             LoadedAt(chain, base, n) + RawLen[chain[n + 1]] <= LoadedAt(chain, base, k)
    BY <1>1, <1>3, <2>1, LoadedAtIs
  <2> DEFINE from == LoadedAt(chain, base, n)
             len == RawLen[chain[n + 1]]
  <2>a. mods[n] = [start |-> from, end |-> from + len, string |-> n - 1, id |-> n]
    BY <1>2
  <2>b. from \in Nat /\ base <= from /\ len \in Nat \ {0}
    BY <2>2
  <2> HIDE DEF from, len
  <2>c. /\ mods[n].start = from /\ mods[n].end = from + len /\ mods[n].string = n - 1 /\ mods[n].id = n
        /\ mods[n].end \in Nat
    BY <2>a, <2>b
  <2>3. mods[n].end <= MemSize
    <3>1. PICK i \in 1..Len(mmap) : \A m \in Modules : mods[m].end <= EndOf(mmap[i])
      BY DEF Init
    <3>2. mods[n].end <= EndOf(mmap[i]) /\ EndOf(mmap[i]) <= MemSize
      BY <1>1, <1>3, <2>1, <3>1 DEF IsMap
    <3>3. EndOf(mmap[i]) \in Nat
      <4>1. mmap[i] \in Block
        BY <1>5, BlocksAre
      <4> QED
        BY <4>1 DEF Block, EndOf
    <3> QED
      BY <2>c, <3>2, <3>3, NumbersAre
  <2>4. n - 1 < Code
    BY <1>1, <2>1, ChainIs, NumbersAre
  <2>5. ASSUME NEW k \in (n + 1)..Len(mods) PROVE mods[n].end <= mods[k].start
    <3>1. k \in 1..Len(mods) /\ k \in (n + 1)..(Len(chain) - 1)
      BY <1>1
    <3>2. mods[k].start = LoadedAt(chain, base, k)
      <4>1. mods[k] = [start |-> LoadedAt(chain, base, k),
                       end |-> LoadedAt(chain, base, k) + RawLen[chain[k + 1]],
                       string |-> k - 1, id |-> k]
        BY <1>2, <3>1
      <4> QED
        BY <4>1
    <3>3. from + len <= LoadedAt(chain, base, k)
      BY <2>2, <3>1 DEF from, len
    <3> QED
      BY <2>c, <3>2, <3>3
  <2> QED
    BY <2>b, <2>c, <2>3, <2>4, <2>5 DEF from, len
<1>10. ASSUME NEW n \in 1..Len(mods), NEW s \in 1..(Stages - 1) PROVE Below(Image[chain[s]], mods[n].start)
  <2>1. s \in 1..(KernelAt(chain) - 1) /\ s \in 1..Stages
    BY <1>1, ChainIs, NumbersAre DEF Stages
  <2>2. Below(Image[chain[s]], base)
    BY <1>1, <2>1, KindsAre
  <2> QED
    BY <1>3, <1>5, <1>9, <2>1, <2>2, KernelIs, BelowMore
<1>11. Placed
  <2> SUFFICES ASSUME NEW n \in 1..Len(mods)
               PROVE  LET m == mods[n] IN
                      /\ m.id = stage - 1 + n
                      /\ m.end = m.start + RawLen[KindOf(m.id)] \/ m.end = m.start + FullLen[KindOf(m.id)]
                      /\ LowEnd <= m.start /\ m.end <= MemSize
                      /\ m.string = m.id - 1 \/ (m.string = m.end /\ m.end < MemSize)
                      /\ \A k \in (n + 1)..Len(mods) : m.end <= mods[k].start /\ m.string < mods[k].start
                      /\ \A s \in 1..(Stages - 1) : Below(Image[chain[s]], m.start)
    BY DEF Placed
  <2>1. ASSUME NEW k \in 1..Len(mods) PROVE LowEnd <= mods[k].start /\ n - 1 < mods[k].start
    BY <1>3, <1>8, <1>9, NumbersAre
  <2>2. mods[n].id = stage - 1 + n
    <3>1. mods[n].id = n
      BY <1>9
    <3>2. stage - 1 + n = n
      BY <1>1
    <3> QED
      BY <3>1, <3>2
  <2>3. \A k \in (n + 1)..Len(mods) : k \in 1..Len(mods)
    BY <1>1
  <2> QED
    BY <1>9, <1>10, <2>1, <2>2, <2>3 DEF KindOf
<1>12. Raised
  <2>1. Len(mods) \in 1..Len(mods) /\ Len(mods) = Len(chain) - 1 /\ (Len(chain) - 1) + 1 = Len(chain)
    BY <1>1, ChainIs, NumbersAre
  <2>2. Below(Image[chain[KernelAt(chain)]], LoadedAt(chain, base, Len(chain) - 1) + RawLen[chain[Len(chain)]])
    BY <1>3 DEF Behind
  <2>3. Below(Image[Kernel], mods[Len(mods)].end)
    BY <1>9, <2>1, <2>2 DEF Kernel, Stages
  <2> QED
    BY <1>1, <2>3 DEF Raised
<1>13. Copying /\ Trampoline
  BY <1>1 DEF Copying, Trampoline
<1>14. ASSUME NEW x \in 0..(MemSize - 1), LowEnd <= x PROVE x + 1 \notin 1..Len(mods)
  BY <1>1, <1>8, <1>14, ChainIs, NumbersAre
<1>15. ASSUME NEW n \in 1..Len(mods) PROVE IsIntact(chain, mem, mods[n])
  <2>1. mem[mods[n].string] = String(mods[n].id)
    <3>1. n - 1 \in 0..(MemSize - 1) /\ (n - 1) + 1 = n
      BY <1>8, <1>9, NumbersAre
    <3>2. mem[n - 1] = String(n)
      BY <3>1, InitMemory
    <3> QED
      BY <1>9, <3>2
  <2>2. ASSUME NEW k \in 0..(RawLen[chain[n + 1]] - 1) PROVE mem[mods[n].start + k] = RawByte(chain, n, k)
    <3> DEFINE x == mods[n].start + k
               here == {m \in 1..Len(mods) : x \in mods[m].start..(mods[m].end - 1)}
    <3>1. x \in 0..(MemSize - 1) /\ LowEnd <= x /\ x - mods[n].start = k /\ x \in Int
      <4> DEFINE from == mods[n].start
                 end == mods[n].end
                 len == RawLen[chain[n + 1]]
      <4>1. /\ from \in Nat /\ len \in Nat /\ end = from + len /\ end <= MemSize /\ LowEnd <= from
            /\ k \in 0..(len - 1)
        BY <1>3, <1>9, NumbersAre
      <4> HIDE DEF from, end, len
      <4>2. from + k \in 0..(MemSize - 1) /\ LowEnd <= from + k /\ (from + k) - from = k
        BY <4>1, NumbersAre
      <4> QED
        BY <4>2 DEF from
    <3>2. x \in mods[n].start..(mods[n].end - 1)
      <4> DEFINE from == mods[n].start
                 end == mods[n].end
                 len == RawLen[chain[n + 1]]
      <4>1. from \in Nat /\ len \in Nat /\ end = from + len /\ k \in 0..(len - 1)
        BY <1>9
      <4> HIDE DEF from, end, len
      <4>2. from + k \in from..(end - 1)
        BY <4>1
      <4> QED
        BY <4>2 DEF from, end
    <3> HIDE DEF x
    <3>3. ASSUME NEW m \in here PROVE m = n
      <4>1. m \in 1..Len(mods) /\ x \in mods[m].start..(mods[m].end - 1)
        BY <3>3
      <4>2. mods[m].start \in Nat /\ mods[m].end \in Nat /\ mods[n].start \in Nat /\ mods[n].end \in Nat
        BY <1>9, <4>1, Zenon
      <4>3. ~(m < n)
        <5>1. m < n => mods[m].end <= mods[n].start
          BY <1>9, <4>1
        <5> QED
          BY <3>1, <3>2, <4>1, <4>2, <5>1
      <4>4. ~(n < m)
        <5>1. n < m => mods[n].end <= mods[m].start
          BY <1>9, <4>1
        <5> QED
          BY <3>1, <3>2, <4>1, <4>2, <5>1
      <4> QED
        BY <4>1, <4>3, <4>4
    <3>4. here = {n}
      BY <3>2, <3>3
    <3> HIDE DEF here
    <3>5. Max(here) = n
      BY <3>4, OneOf
    <3>6. x + 1 \notin 1..Len(mods)
      BY <1>14, <3>1
    <3>7. mem[x] = Packed(n, x - mods[n].start)
      BY <3>1, <3>4, <3>5, <3>6, InitMemory DEF here
    <3>8. Packed(n, k) = RawByte(chain, n, k)
      BY DEF Packed, IsPacked, KindOf, RawByte
    <3> QED
      BY <3>1, <3>7, <3>8 DEF x
  <2>3. mods[n].end - mods[n].start = RawLen[chain[n + 1]]
    BY <1>9
  <2>4. IsRaw(chain, mem, mods[n])
    BY <1>9, <2>2, <2>3 DEF IsRaw
  <2> QED
    BY <2>1, <2>4 DEF IsIntact
<1>16. StageIsLoaded
  <2> SUFFICES ASSUME NEW i \in 1..Len(Image[Kind]),
                      NEW x \in Image[Kind][i].to..(Image[Kind][i].to + Image[Kind][i].mem - 1)
               PROVE  mem[x] = ImageByte(0, Image[Kind][i], x)
    BY <1>1 DEF StageIsLoaded
  <2> DEFINE segs == Image[Kind]
             here == {m \in 1..Len(mods) : x \in mods[m].start..(mods[m].end - 1)}
             in == {j \in 1..Len(segs) : x \in segs[j].to..(segs[j].to + segs[j].mem - 1)}
  <2>1. IsImage(segs, FullLen[Kind], LowEnd) /\ Below(segs, base) /\ Len(segs) \in Nat
    <3>1. 1 \in 1..Stages
      BY <1>1, ChainIs, NumbersAre DEF Stages
    <3> QED
      BY <1>1, <1>5, <3>1, KernelIs, KindsAre, ImagesAre
  <2>2. /\ x \in Int /\ x < base /\ LowEnd <= x
    <3> DEFINE from == segs[i].to
               size == segs[i].mem
    <3>1. from \in Nat /\ size \in Nat /\ LowEnd <= from /\ from + size <= base /\ x \in from..(from + size - 1)
      BY <2>1, ImagesAre DEF Below
    <3> HIDE DEF from, size
    <3> QED
      BY <1>3, <3>1, NumbersAre
  <2>3. x \in 0..(MemSize - 1)
    <3>1. Len(mods) \in 1..Len(mods)
      BY <1>5, StageIs
    <3>2. base <= mods[Len(mods)].start /\ mods[Len(mods)].start < mods[Len(mods)].end
          /\ mods[Len(mods)].end <= MemSize /\ mods[Len(mods)].start \in Nat /\ mods[Len(mods)].end \in Nat
      BY <1>9, <3>1
    <3>3. base <= MemSize
      BY <1>3, <3>2, NumbersAre
    <3> QED
      BY <1>3, <2>2, <3>3, NumbersAre
  <2>4. here = {}
    <3>1. \A m \in 1..Len(mods) : base <= mods[m].start /\ mods[m].start \in Nat
      BY <1>9
    <3> QED
      BY <1>3, <2>2, <3>1
  <2>5. in = {i}
    <3>1. \A j \in 1..Len(segs) : segs[j].to \in Nat /\ segs[j].mem \in Nat
      BY <2>1, ImagesAre
    <3>2. ASSUME NEW j \in in PROVE j = i
      <4>1. j \in 1..Len(segs) /\ x \in segs[j].to..(segs[j].to + segs[j].mem - 1)
        BY <3>2
      <4>2. j # i => \/ segs[i].to + segs[i].mem <= segs[j].to
                     \/ segs[j].to + segs[j].mem <= segs[i].to
        <5>1. j < i \/ i < j \/ j = i
          BY <4>1
        <5> QED
          BY <2>1, <4>1, <5>1 DEF IsImage
      <4> DEFINE ito == segs[i].to
                 imem == segs[i].mem
                 jto == segs[j].to
                 jmem == segs[j].mem
      <4>3. /\ ito \in Nat /\ imem \in Nat /\ jto \in Nat /\ jmem \in Nat
            /\ x \in ito..(ito + imem - 1) /\ x \in jto..(jto + jmem - 1)
            /\ j # i => ito + imem <= jto \/ jto + jmem <= ito
        BY <3>1, <4>1, <4>2
      <4> HIDE DEF ito, imem, jto, jmem
      <4> QED
        BY <4>3
    <3> QED
      BY <3>2
  <2>6. Max(in) = i
    <3> HIDE DEF in
    <3> QED
      BY <2>5, OneOf
  <2>7. x + 1 \notin 1..Len(mods)
    BY <1>14, <2>2, <2>3
  <2> HIDE DEF here, in
  <2>8. mem[x] = IF x + 1 \in 1..Len(mods) THEN String(x + 1)
                 ELSE IF here # {} THEN Packed(Max(here), x - mods[Max(here)].start)
                 ELSE IF in # {} THEN ImageByte(0, segs[Max(in)], x) ELSE Free
    BY <2>3, InitMemory, Zenon DEF here, in
  <2> QED
    BY <2>4, <2>5, <2>6, <2>7, <2>8
<1>17. Contents
  BY <1>15 DEF Contents
<1> QED
  BY <1>5, <1>6, <1>7, <1>11, <1>12, <1>13, <1>16, <1>17 DEF IInv

LEMMA StutterKeeps == ASSUME IInv, UNCHANGED vars PROVE IInv'
<1> USE DEF IInv
<1>1. /\ UNCHANGED <<mmap, chain, stage, mods, mem, code, areas>>
      /\ UNCHANGED <<relocated, pc, todo, top>>
  BY DEF vars, history
<1>2. Stages' = Stages /\ Kind' = Kind /\ Kernel' = Kernel /\ Harmless' = Harmless /\ Owed' = Owed
  BY <1>1 DEF Stages, Kind, Kernel, Harmless, Owed
<1>3. Types' /\ Low' /\ Areas'
  BY <1>1, <1>2 DEF Types, Low, Areas, ProtectedIntact
<1>4. Placed' /\ Raised' /\ Contents'
  BY <1>1, <1>2 DEF Placed, Raised, Contents, KindOf
<1>5. Copying'
  <2>1. Sizes' = Sizes
    BY <1>1, <1>2 DEF Sizes, NewLen, Inflates, ModLen, KindOf, IsPacked, Packed
  <2>2. Bottom' = Bottom
    BY <1>1, <2>1 DEF Bottom
  <2> QED
    BY <1>1, <1>2, <2>2 DEF Copying
<1>6. Trampoline'
  <2>1. Done' = Done
    BY <1>1, <1>2 DEF Done
  <2> QED
    BY <1>1, <1>2, <2>1 DEF Trampoline, InPlace, ImageByte, Inflated
<1>7. StageIsLoaded'
  BY <1>1, <1>2 DEF StageIsLoaded, ImageByte, Inflated
<1> QED
  BY <1>3, <1>4, <1>5, <1>6, <1>7
-----------------------------------------------------------------------------
THEOREM Invariance == Spec => []IInv
<1>1. Init => IInv
  BY InitEstablishes
<1>2. IInv /\ [Next]_vars => IInv'
  <2> SUFFICES ASSUME IInv, [Next]_vars PROVE IInv'
    OBVIOUS
  <2>1. CASE Alloc
    BY <2>1, AllocKeeps
  <2>2. CASE Relocate
    BY <2>2, RelocateKeeps
  <2>3. CASE CopyModule
    BY <2>3, CopyModuleKeeps
  <2>4. CASE Copied
    BY <2>4, CopiedKeeps
  <2>5. CASE StartModule
    BY <2>5, StartModuleKeeps
  <2>6. CASE LoadSegment
    BY <2>6, LoadSegmentKeeps
  <2>7. CASE EnterStage
    BY <2>7, EnterStageKeeps
  <2>8. CASE UNCHANGED vars
    BY <2>8, StutterKeeps
  <2> QED
    BY <2>1, <2>2, <2>3, <2>4, <2>5, <2>6, <2>7, <2>8 DEF Next
<1> QED
  BY <1>1, <1>2, PTL DEF Spec

(* Whatever the map, the chain and the images: no two requests get the same *)
(* low memory, and no copy, trampoline or segment of a later stage writes   *)
(* to what one of them got (mbi_alloc_protected_memory).                    *)
THEOREM ProtectedStays == Spec => []ProtectedIntact
<1>1. IInv => ProtectedIntact
  BY DEF IInv, Areas
<1> QED
  BY <1>1, Invariance, PTL

(* Every module that is not started yet is as it was loaded or inflated,    *)
(* and so is its string, however often the stages moved it                  *)
(* (mbi_relocate_modules, start_module).                                    *)
THEOREM ModulesStay == Spec => []ModulesIntact
<1>1. IInv => ModulesIntact
  <2> SUFFICES ASSUME IInv, Harmless, NEW n \in 1..Len(mods)
               PROVE  LET m == mods[n] Holds(len, byte(_, _)) ==
                            /\ m.end - m.start = len
                            /\ \A k \in 0..(len - 1) : mem[m.start + k] = byte(m.id, k)
                      IN /\ mem[m.string] = String(m.id)
                         /\ Holds(RawLen[KindOf(m.id)], Packed) \/ Holds(FullLen[KindOf(m.id)], Inflated)
    BY DEF ModulesIntact
  <2>1. IsIntact(chain, mem, mods[n])
    BY DEF IInv, Contents
  <2>2. \A k : RawByte(chain, mods[n].id, k) = Packed(mods[n].id, k)
    BY DEF RawByte, Packed, IsPacked, KindOf
  <2> QED
    BY <2>1, <2>2 DEF IsIntact, IsRaw, IsFull, KindOf
<1> QED
  BY <1>1, Invariance, PTL

(* Every stage that runs, and the kernel if the modules were moved before,  *)
(* is in memory as its program headers say (the trampoline of               *)
(* start_module).                                                           *)
THEOREM StagesAreLoaded == Spec => []StageIsLoaded
<1>1. IInv => StageIsLoaded
  BY DEF IInv
<1> QED
  BY <1>1, Invariance, PTL
-----------------------------------------------------------------------------
(* Modules are moved once.  A stage stacks them below the end of the one    *)
(* usable block above low memory, or below its limit.  The stages after it  *)
(* take low memory only, so that they find the room as it was, and in it    *)
(* the rest of the stack.                                                   *)
Span(m)          == Paged(m.end - m.start + 1)
IsStack(list, k) == \A n \in k..(Len(list) - 1) : list[n + 1].start = list[n].start + Span(list[n])
TopOf(list)      == list[Len(list)].start + Span(list[Len(list)])
UpTo(b, limit)   == IF PagesEnd(b) > limit THEN limit ELSE PagesEnd(b)
IsRoom(m, from, to, limit) ==
  \E i \in 2..Len(m) : CanHold(m[i], to - from, limit) /\ to = UpTo(m[i], limit)

OneAbove == \A i, j \in 2..Len(mmap) : mmap[i].avail /\ mmap[j].avail => i = j
Moved ==
  relocated # 0 /\ pc # "copy" => IsStack(mods, 1) /\ IsRoom(mmap, mods[1].start, TopOf(mods), relocated)
Moving ==
  pc = "copy" =>
    /\ IsStack(mods, todo + 1) /\ (todo < Len(mods) => top = mods[todo + 1].start)
    /\ IsRoom(mmap, Bottom, IF todo = Len(mods) THEN top ELSE TopOf(mods), PhysMax[Kind])
MInv == OneAbove /\ relocated \in Nat /\ Moved /\ Moving

LEMMA PageFits ==
  ASSUME NEW a \in Nat, NEW n \in Nat \ {0}, n <= a PROVE n <= RoundDown(a, n)
<1> DEFINE q == a \div n
<1>1. q \in Nat /\ a % n \in 0..(n - 1) /\ a = n * q + (a % n)
  OBVIOUS
<1> HIDE DEF q
<1>2. q # 0
  BY <1>1
<1>3. q - 1 \in Nat /\ n * (q - 1) \in Nat /\ n * q = n * (q - 1) + n
  BY <1>1, <1>2
<1>4. n <= n * q
  BY <1>3
<1> QED
  BY <1>4 DEF RoundDown, q

LEMMA SpanIs ==
  ASSUME NEW n \in Nat
  PROVE  Paged(n + 1) \in Nat /\ Page <= Paged(n + 1) /\ Paged(n + 1) <= n + Page
<1>1. Page \in Nat \ {0} /\ n + 1 \in Nat /\ (n + 1) + Page - 1 = n + Page /\ n + Page \in Nat /\ Page <= n + Page
  BY MbiMemoryAssumption
<1>2. RoundDown(n + Page, Page) \in Nat /\ RoundDown(n + Page, Page) <= n + Page
  BY <1>1, RoundsDown
<1>3. Page <= RoundDown(n + Page, Page)
  BY <1>1, PageFits
<1>4. Paged(n + 1) = RoundDown(n + Page, Page)
  BY <1>1 DEF Paged, RoundUp
<1> QED
  BY <1>2, <1>3, <1>4

LEMMA PagesAre ==
  ASSUME NEW b \in Block, HasPageBoundary(b)
  PROVE  PagesFrom(b) \in Nat /\ PagesEnd(b) \in Nat /\ PagesEnd(b) <= EndOf(b) /\ EndOf(b) \in Nat
<1>1. b.addr \in Nat /\ EndOf(b) \in Nat
  BY DEF Block, EndOf
<1>2. PagesFrom(b) \in Nat
  BY <1>1, RoundsUp, MbiMemoryAssumption DEF PagesFrom
<1> QED
  BY <1>1, <1>2, PagesEndInBlock

(* Less fits where more does, and the top is the same.                      *)
LEMMA SmallerRoom ==
  ASSUME NEW m \in Seq(Block), NEW from \in Int, NEW to \in Int, NEW limit \in Nat, NEW later \in Int,
         from <= later, IsRoom(m, from, to, limit)
  PROVE  IsRoom(m, later, to, limit)
<1>1. PICK i \in 2..Len(m) : CanHold(m[i], to - from, limit) /\ to = UpTo(m[i], limit)
  BY DEF IsRoom
<1>2. m[i] \in Block
  <2> HIDE DEF Block
  <2>1. i \in 1..Len(m)
    BY <1>1
  <2> QED
    BY <2>1
<1>3. PagesFrom(m[i]) \in Nat /\ PagesEnd(m[i]) \in Nat
  BY <1>1, <1>2, PagesAre DEF CanHold
<1>4. CanHold(m[i], to - later, limit)
  <2> DEFINE a == PagesFrom(m[i])
             e == PagesEnd(m[i])
  <2>1. a \in Nat /\ e \in Nat /\ e - a >= to - from /\ a + (to - from) <= limit
    BY <1>1, <1>3 DEF CanHold
  <2> HIDE DEF a, e
  <2>2. e - a >= to - later /\ a + (to - later) <= limit
    BY <2>1
  <2> QED
    BY <1>1, <2>2 DEF CanHold, a, e
<1> QED
  BY <1>1, <1>4 DEF IsRoom

LEMMA SpansAre ==
  ASSUME Types, Placed, NEW n \in 1..Len(mods)
  PROVE  /\ ModLen(n) \in Nat /\ Span(mods[n]) = Paged(ModLen(n) + 1)
         /\ Span(mods[n]) \in Nat /\ Page <= Span(mods[n]) /\ mods[n].start \in Nat
         /\ mods[n].start + Span(mods[n]) <= mods[n].end + Page
<1>1. mods[n].start \in Nat /\ mods[n].end \in Nat /\ mods[n].start < mods[n].end
  BY ModuleIs
<1> DEFINE l == ModLen(n)
<1>2. l \in Nat /\ mods[n].end = mods[n].start + l /\ Span(mods[n]) = Paged(l + 1)
  BY <1>1 DEF ModLen, Span
<1> HIDE DEF l
<1>3. Paged(l + 1) \in Nat /\ Page <= Paged(l + 1) /\ Paged(l + 1) <= l + Page
  BY <1>2, SpanIs
<1>4. mods[n].start + Paged(l + 1) <= mods[n].end + Page
  BY <1>1, <1>2, <1>3, MbiMemoryAssumption
<1> QED
  BY <1>1, <1>2, <1>3, <1>4 DEF l

(* The room that is found for the modules.                                  *)
LEMMA FoundIs ==
  ASSUME IInv, stage < Stages, Fitting(Size) # {}
  PROVE  LET i == Max(Fitting(Size)) IN
         /\ i \in 1..Len(mmap) /\ CanHold(mmap[i], Size, PhysMax[Kind])
         /\ \A j \in Fitting(Size) : j <= i
         /\ TopIn(mmap[i], Size, PhysMax[Kind]) \in Nat /\ Size \in Nat
         /\ TopIn(mmap[i], Size, PhysMax[Kind]) + Size = UpTo(mmap[i], PhysMax[Kind])
         /\ UpTo(mmap[i], PhysMax[Kind]) \in Nat /\ UpTo(mmap[i], PhysMax[Kind]) <= EndOf(mmap[i])
<1> USE DEF IInv
<1> DEFINE F == Fitting(Size)
           i == Max(F)
<1>1. F \subseteq 1..Len(mmap) /\ Len(mmap) \in Nat /\ F # {}
  BY BlocksAre DEF Fitting
<1>2. i \in F /\ \A j \in F : j <= i
  <2> HIDE DEF F
  <2> QED
    BY <1>1, LastOfSome
<1>3. i \in 1..Len(mmap) /\ CanHold(mmap[i], Size, PhysMax[Kind])
  BY <1>2 DEF Fitting
<1> HIDE DEF F, i
<1>4. PagesEnd(mmap[i]) \in Nat /\ PagesEnd(mmap[i]) <= EndOf(mmap[i]) /\ EndOf(mmap[i]) \in Nat
  BY <1>3, BlocksAre, PagesAre DEF CanHold
<1>5. PhysMax[Kind] \in Nat
  BY RunnerIs
<1>6. TopIn(mmap[i], Size, PhysMax[Kind]) \in Nat /\ Size \in Nat
  BY RoomIs DEF i, F
<1>7. /\ TopIn(mmap[i], Size, PhysMax[Kind]) = UpTo(mmap[i], PhysMax[Kind]) - Size
      /\ UpTo(mmap[i], PhysMax[Kind]) \in Nat /\ UpTo(mmap[i], PhysMax[Kind]) <= EndOf(mmap[i])
  BY <1>4, <1>5, <1>6 DEF TopIn, UpTo
<1>8. TopIn(mmap[i], Size, PhysMax[Kind]) + Size = UpTo(mmap[i], PhysMax[Kind])
  BY <1>6, <1>7
<1> QED
  BY <1>2, <1>3, <1>6, <1>7, <1>8 DEF i, F

(* All modules and their strings need more than a page and a byte.          *)
LEMMA SizeIs ==
  ASSUME IInv, stage < Stages
  PROVE  /\ 2 <= Len(mods) /\ 1 \in 1..Len(mods) /\ Len(mods) \in 1..Len(mods)
         /\ Size \in Nat /\ Page + 1 <= Size
<1> USE DEF IInv
<1>1. Len(mods) \in Nat /\ 2 <= Len(mods)
  BY StageIs, NumbersAre
<1>2. /\ Sums(Sizes)[0] = 0 /\ Sums(Sizes)[1] = Sums(Sizes)[0] + Sizes[1]
      /\ Sums(Sizes)[Len(mods)] = Sums(Sizes)[Len(mods) - 1] + Sizes[Len(mods)]
      /\ Sums(Sizes)[Len(mods) - 1] \in Nat
  <2>1. 1 \in 1..Len(mods) /\ Len(mods) \in 1..Len(mods) /\ Len(mods) - 1 \in 0..Len(mods)
    BY <1>1
  <2>2. /\ Sums(Sizes) \in [0..Len(mods) -> Nat] /\ Sums(Sizes)[0] = 0
        /\ \A k \in 1..Len(mods) : Sums(Sizes)[k] = Sums(Sizes)[k - 1] + Sizes[k]
    BY SizesAre DEF IsSum
  <2>3. 1 - 1 = 0
    OBVIOUS
  <2> QED
    BY <2>1, <2>2, <2>3
<1>3. Sums(Sizes)[1] <= Sums(Sizes)[Len(mods) - 1]
  <2>1. 1 \in 0..Len(Sizes) /\ Len(mods) - 1 \in 1..Len(Sizes) /\ Sizes \in Seq(Nat)
    BY <1>1, SizesAre
  <2> QED
    BY <2>1, SumsGrow
<1>4. Sizes[1] \in Nat /\ 1 <= Sizes[1]
  <2>1. 1 \in 1..Len(mods)
    BY <1>1
  <2>2. NewLen(1) \in Nat /\ NewLen(1) + 1 <= Sizes[1] /\ Sizes[1] \in Nat
    BY <2>1, SizesAre
  <2> QED
    BY <2>2
<1>5. Sizes[Len(mods)] \in Nat /\ Page <= Sizes[Len(mods)]
  <2>1. Len(mods) \in 1..Len(mods)
    BY <1>1
  <2>2. NewLen(Len(mods)) \in Nat /\ Sizes[Len(mods)] = Paged(NewLen(Len(mods)) + 1)
    BY <2>1, SizesAre DEF Sizes
  <2> QED
    BY <2>2, SpanIs
<1> DEFINE a == Sums(Sizes)[Len(mods) - 1]
           b == Sizes[Len(mods)]
           c == Sizes[1]
           d == Sums(Sizes)[1]
<1>6. Size = a + b
  BY <1>2 DEF Size
<1>7. a \in Nat /\ b \in Nat /\ c \in Nat /\ 1 <= c /\ d = c /\ d <= a /\ Page <= b /\ Page \in Nat
  BY <1>2, <1>3, <1>4, <1>5, MbiMemoryAssumption
<1> HIDE DEF a, b, c, d
<1>8. Size \in Nat /\ Page + 1 <= Size
  BY <1>6, <1>7
<1> QED
  BY <1>1, <1>8

(* A stack of modules that are not to be inflated has the size that is      *)
(* computed for it.                                                         *)
LEMMA StackIs ==
  ASSUME IInv, stage < Stages, IsStack(mods, 1), ~NeedInflate
  PROVE  TopOf(mods) = mods[1].start + Size
<1> USE DEF IInv
<1>1. Len(mods) \in Nat /\ 2 <= Len(mods) /\ 1 \in 1..Len(mods) /\ Len(mods) \in 1..Len(mods)
  BY SizeIs, StageIs
<1>2. /\ IsSum(Sizes, Sums(Sizes), Len(mods))
      /\ \A n \in 1..Len(mods) : Sizes[n] = Span(mods[n]) /\ mods[n].start \in Nat /\ Sizes[n] \in Nat
  <2>1. ASSUME NEW n \in 1..Len(mods) PROVE Sizes[n] = Paged(ModLen(n) + 1)
    BY <2>1 DEF NeedInflate, Sizes, NewLen
  <2> QED
    BY <2>1, SizesAre, SpansAre
<1> DEFINE S == {n \in Nat : n < Len(mods) => mods[n + 1].start = mods[1].start + Sums(Sizes)[n]}
<1>3. 0 \in S
  <2>1. Sums(Sizes)[0] = 0 /\ mods[1].start \in Nat /\ 0 + 1 = 1
    BY <1>1, <1>2 DEF IsSum
  <2>2. mods[0 + 1].start = mods[1].start + Sums(Sizes)[0]
    BY <2>1
  <2> QED
    BY <2>2
<1>4. ASSUME NEW n \in S PROVE n + 1 \in S
  <2> SUFFICES ASSUME n + 1 < Len(mods)
               PROVE  mods[(n + 1) + 1].start = mods[1].start + Sums(Sizes)[n + 1]
    OBVIOUS
  <2>1. /\ n \in Nat /\ n < Len(mods) /\ n + 1 \in 1..(Len(mods) - 1) /\ n + 1 \in 1..Len(mods)
        /\ n \in 0..Len(mods) /\ (n + 1) - 1 = n
    BY <1>1
  <2>2. mods[n + 1].start = mods[1].start + Sums(Sizes)[n]
    BY <2>1
  <2>3. mods[(n + 1) + 1].start = mods[n + 1].start + Span(mods[n + 1])
    BY <2>1 DEF IsStack
  <2>4. /\ Sums(Sizes)[n + 1] = Sums(Sizes)[n] + Sizes[n + 1] /\ Sums(Sizes)[n] \in Nat
        /\ Sizes[n + 1] \in Nat /\ Sizes[n + 1] = Span(mods[n + 1])
    BY <1>2, <2>1 DEF IsSum
  <2>5. mods[1].start \in Nat
    BY <1>1, <1>2
  <2> QED
    BY <2>2, <2>3, <2>4, <2>5
<1>5. \A n \in Nat : n \in S
  <2>1. S \subseteq Nat
    OBVIOUS
  <2> HIDE DEF S
  <2> QED
    BY <1>3, <1>4, <2>1, Induction
<1> DEFINE L == Len(mods)
<1>6. L - 1 \in Nat /\ L - 1 < L /\ (L - 1) + 1 = L /\ L - 1 \in 0..L
  BY <1>1
<1>7. mods[L].start = mods[1].start + Sums(Sizes)[L - 1]
  BY <1>5, <1>6
<1>8. /\ Size = Sums(Sizes)[L - 1] + Sizes[L] /\ Sums(Sizes)[L - 1] \in Nat /\ Sizes[L] \in Nat
      /\ Sizes[L] = Span(mods[L]) /\ mods[1].start \in Nat
  BY <1>1, <1>2, <1>6 DEF IsSum, Size
<1> QED
  BY <1>7, <1>8 DEF TopOf

(* What is chosen to move modules to is the room that they were moved to    *)
(* before, and it is not above them.                                        *)
LEMMA MovesUp ==
  ASSUME IInv, Relocate, said' = "moved"
  PROVE  /\ pc = "alloc" /\ pc' = "copy" /\ todo' = Len(mods) /\ stage < Stages
         /\ UNCHANGED <<mmap, chain, stage, mods, mem, relocated>>
         /\ IsRoom(mmap, top' - Size, top', PhysMax[Kind])
         /\ \A n \in 1..Len(mods) : mods[n].end <= top' - Size
<1> USE DEF IInv
<1>1. /\ pc = "alloc" /\ todo = 0 /\ pc' = "copy" /\ todo' = Len(mods)
      /\ UNCHANGED <<mmap, chain, stage, mods, mem, relocated>>
      /\ Fitting(Size) # {}
  BY Zenon DEF Relocate, GiveUp, history
<1>2. stage < Stages
  BY <1>1 DEF Types, Loading
<1> DEFINE i == Max(Fitting(Size))
           start == TopIn(mmap[i], Size, PhysMax[Kind])
<1>3. {n \in 1..Len(mods) : mods[n].end > start} = {} /\ top' = start + Size
  BY Zenon DEF Relocate, GiveUp
<1>4. /\ i \in 1..Len(mmap) /\ CanHold(mmap[i], Size, PhysMax[Kind])
      /\ start \in Nat /\ Size \in Nat /\ start + Size = UpTo(mmap[i], PhysMax[Kind])
      /\ UpTo(mmap[i], PhysMax[Kind]) <= EndOf(mmap[i]) /\ UpTo(mmap[i], PhysMax[Kind]) \in Nat
  BY <1>1, <1>2, FoundIs
<1> HIDE DEF i, start
<1>5. top' - Size = start /\ top' - start = Size
  BY <1>3, <1>4
<1>6. ASSUME NEW n \in 1..Len(mods) PROVE mods[n].end <= start
  <2>1. mods[n].end \in Nat
    BY ModuleIs
  <2>2. ~(mods[n].end > start)
    BY <1>3
  <2> QED
    BY <1>4, <2>1, <2>2
<1>7. i # 1
  <2> SUFFICES ASSUME i = 1 PROVE FALSE
    OBVIOUS
  <2>1. start <= EndOf(mmap[1]) /\ EndOf(mmap[1]) <= LowEnd /\ EndOf(mmap[1]) \in Nat
    BY <1>4, FirstBlockIs DEF Low
  <2>2. 1 \in 1..Len(mods)
    BY <1>2, SizeIs
  <2>3. LowEnd <= mods[1].start /\ mods[1].start < mods[1].end /\ mods[1].start \in Nat /\ mods[1].end \in Nat
    BY <2>2, ModuleIs
  <2> QED
    BY <1>4, <1>6, <2>1, <2>2, <2>3, NumbersAre
<1>8. i \in 2..Len(mmap)
  BY <1>4, <1>7, BlocksAre
<1>9. IsRoom(mmap, start, top', PhysMax[Kind])
  BY <1>3, <1>4, <1>5, <1>8 DEF IsRoom
<1> QED
  BY <1>1, <1>2, <1>5, <1>6, <1>9

(* With a limit that is not above the last one, nothing is moved.           *)
LEMMA NoHigher ==
  ASSUME IInv, MInv, Relocate, relocated # 0, said' = "moved"
  PROVE  PhysMax[Kind] > relocated
<1> USE DEF IInv
<1> DEFINE L == Len(mods)
           limit == PhysMax[Kind]
           start == top' - Size
<1>1. /\ pc = "alloc" /\ stage < Stages /\ IsRoom(mmap, start, top', limit)
      /\ \A n \in 1..L : mods[n].end <= start
  BY MovesUp
<1>2. L \in 1..L /\ Size \in Nat /\ Page + 1 <= Size /\ limit \in Nat /\ relocated \in Nat
  BY <1>1, SizeIs, RunnerIs DEF MInv
<1>3. PICK i \in 2..Len(mmap) : CanHold(mmap[i], top' - start, limit) /\ top' = UpTo(mmap[i], limit)
  BY <1>1 DEF IsRoom
<1>4. PICK j \in 2..Len(mmap) : mmap[j].avail /\ TopOf(mods) = UpTo(mmap[j], relocated)
  BY <1>1 DEF MInv, Moved, IsRoom, CanHold
<1>5. i = j /\ i \in 1..Len(mmap)
  BY <1>3, <1>4 DEF MInv, OneAbove, CanHold
<1>6. PagesEnd(mmap[i]) \in Nat
  BY <1>3, <1>5, BlocksAre, PagesAre DEF CanHold
<1>7. mods[L].end \in Nat /\ mods[L].end <= start /\ TopOf(mods) <= mods[L].end + Page
  BY <1>1, <1>2, ModuleIs, SpansAre DEF TopOf
<1>8. top' \in Nat /\ start = top' - Size
  BY <1>2, <1>3, <1>6 DEF UpTo
<1> HIDE DEF start, L, limit
<1>9. top' > TopOf(mods) /\ TopOf(mods) \in Nat
  BY <1>2, <1>4, <1>5, <1>6, <1>7, <1>8, MbiMemoryAssumption DEF UpTo
<1>10. limit > relocated
  BY <1>2, <1>3, <1>4, <1>5, <1>6, <1>9 DEF UpTo
<1> QED
  BY <1>10 DEF limit

(* With the same limit, the modules are where they would be moved to.       *)
LEMMA FoundAgain ==
  ASSUME IInv, MInv, Relocate, relocated # 0, ~NeedInflate, PhysMax[Kind] = relocated
  PROVE  said' = "already"
<1> USE DEF IInv
<1> DEFINE L == Len(mods)
           limit == PhysMax[Kind]
           from == mods[1].start
<1>1. pc = "alloc" /\ stage < Stages
  BY DEF Relocate, Types, Loading
<1>2. /\ IsStack(mods, 1) /\ IsRoom(mmap, from, TopOf(mods), limit)
      /\ TopOf(mods) = from + Size
  BY <1>1, StackIs DEF MInv, Moved
<1>3. 1 \in 1..L /\ Size \in Nat /\ from \in Nat /\ mods[1].end \in Nat /\ from < mods[1].end
      /\ L \in Nat
  BY <1>1, SizeIs, ModuleIs, StageIs
<1>4. PICK j \in 2..Len(mmap) : CanHold(mmap[j], Size, limit) /\ from + Size = UpTo(mmap[j], limit)
  <2>1. (from + Size) - from = Size
    BY <1>3
  <2> QED
    BY <1>2, <2>1 DEF IsRoom
<1>5. j \in Fitting(Size)
  BY <1>4 DEF Fitting
<1> DEFINE i == Max(Fitting(Size))
<1>6. /\ i \in 1..Len(mmap) /\ CanHold(mmap[i], Size, limit) /\ j <= i
      /\ TopIn(mmap[i], Size, limit) + Size = UpTo(mmap[i], limit) /\ TopIn(mmap[i], Size, limit) \in Nat
  BY <1>1, <1>5, FoundIs
<1> HIDE DEF i
<1>7. i = j
  <2>1. i \in 2..Len(mmap)
    BY <1>4, <1>6
  <2> QED
    BY <1>4, <1>6, <2>1 DEF MInv, OneAbove, CanHold
<1>8. TopIn(mmap[i], Size, limit) = from
  <2> DEFINE a == TopIn(mmap[i], Size, limit)
  <2>1. a \in Nat /\ a + Size = from + Size
    BY <1>4, <1>6, <1>7
  <2> HIDE DEF a
  <2>2. a = from
    BY <1>3, <2>1
  <2> QED
    BY <2>2 DEF a
<1> DEFINE A == {n \in 1..L : mods[n].end > from}
<1>9. 1 \in A /\ A \subseteq Nat /\ \A n \in A : 1 <= n
  BY <1>3
<1>10. Min(A) = 1
  <2> HIDE DEF A
  <2>1. ASSUME NEW x \in A, \A y \in A : x <= y PROVE x = 1
    <3>1. x \in Nat /\ x <= 1 /\ 1 <= x
      BY <1>9, <2>1
    <3> QED
      BY <3>1
  <2>2. Min(A) = CHOOSE x \in A : \A y \in A : x <= y
    BY Zenon DEF Min
  <2>3. \A y \in A : 1 <= y
    BY <1>9
  <2> QED
    BY <1>9, <2>1, <2>2, <2>3, Zenon
<1>11. A # {}
  BY <1>9
<1> HIDE DEF A
<1>12. Fitting(Size) # {} /\ mods[Min(A)].start = from
  BY <1>5, <1>10
<1>13. A = {n \in 1..Len(mods) : mods[n].end > TopIn(mmap[Max(Fitting(Size))], Size, PhysMax[Kind])}
  BY <1>8 DEF A, i
<1>14. TopIn(mmap[Max(Fitting(Size))], Size, PhysMax[Kind]) = from
  BY <1>8 DEF i
<1> HIDE DEF from, L, limit
<1> QED
  BY <1>11, <1>12, <1>13, <1>14, Zenon DEF Relocate, GiveUp

(* The parts of the invariant, step by step.                                *)
LEMMA MapStays ==
  ASSUME IInv, [Next]_vars
  PROVE  /\ Len(mmap') = Len(mmap) /\ \A i \in 2..Len(mmap) : mmap'[i] = mmap[i]
<1> USE DEF IInv
<1>1. CASE Alloc
  <2> DEFINE r == Allocs[Kind][todo]
  <2>1. mmap' = Shortened(mmap, 1, r.len, r.align)
    BY <1>1, AllocIs
  <2>2. Len(mmap') = Len(mmap) /\ Len(mmap) \in Nat
    <3> HIDE DEF Block
    <3> QED
      BY <2>1 DEF Shortened, Types
  <2>3. ASSUME NEW i \in 2..Len(mmap) PROVE mmap'[i] = mmap[i]
    <3> HIDE DEF Block, r
    <3> QED
      BY <2>1, <2>2 DEF Shortened, Types
  <2> QED
    BY <2>2, <2>3
<1>2. CASE UNCHANGED mmap
  BY <1>2
<1> QED
  BY <1>1, <1>2 DEF Next, vars, Relocate, CopyModule, Copied, StartModule, LoadSegment, EnterStage

LEMMA RoomStays ==
  ASSUME IInv, [Next]_vars, NEW from, NEW to, NEW limit
  PROVE  IsRoom(mmap, from, to, limit) => IsRoom(mmap', from, to, limit)
BY MapStays DEF IsRoom

LEMMA StepKeepsOneAbove == ASSUME IInv, MInv, [Next]_vars PROVE OneAbove'
BY MapStays DEF MInv, OneAbove

(* Steps that leave the modules where they are.                             *)
LEMMA RestMoves ==
  ASSUME IInv, MInv, [Next]_vars, UNCHANGED <<mods, relocated>>, pc # "copy", pc' # "copy"
  PROVE  relocated' \in Nat /\ Moved' /\ Moving'
BY RoomStays DEF MInv, Moved, Moving

LEMMA RelocateMoves == ASSUME IInv, MInv, Relocate PROVE relocated' \in Nat /\ Moved' /\ Moving'
<1>1. pc = "alloc" /\ UNCHANGED <<mods, relocated>> /\ (pc' = "copy" => said' = "moved")
  BY Zenon DEF Relocate, GiveUp, history
<1>2. CASE pc' # "copy"
  BY <1>1, <1>2, RestMoves DEF Next
<1>3. CASE pc' = "copy"
  <2>1. /\ todo' = Len(mods) /\ UNCHANGED <<mmap, chain, stage, mods, mem, relocated>>
        /\ IsRoom(mmap, top' - Size, top', PhysMax[Kind])
    BY <1>1, <1>3, MovesUp
  <2>2. Kind' = Kind /\ Sizes' = Sizes
    BY <2>1 DEF Kind, Sizes, NewLen, Inflates, ModLen, KindOf, IsPacked, Packed
  <2>3. Bottom' = top' - Size
    BY <2>1, <2>2 DEF Bottom, Size
  <2>4. IsStack(mods', todo' + 1)
    BY <2>1, StageIs DEF IsStack, IInv
  <2> QED
    BY <1>3, <2>1, <2>2, <2>3, <2>4 DEF MInv, Moved, Moving
<1> QED
  BY <1>2, <1>3

LEMMA CopyMoves == ASSUME IInv, MInv, CopyModule PROVE relocated' \in Nat /\ Moved' /\ Moving'
<1> USE DEF IInv
<1> DEFINE l == NewLen(todo)
           L == Len(mods)
           new == [start |-> top', end |-> top' + l, string |-> top' + l, id |-> mods[todo].id]
<1>1. /\ pc = "copy" /\ pc' = "copy" /\ todo' = todo - 1 /\ top' = top - Paged(l + 1)
      /\ UNCHANGED <<mmap, chain, stage, relocated>>
  BY DEF CopyModule, history
<1>2. /\ todo \in 1..L /\ l \in Nat /\ top' \in Nat /\ top \in Int /\ L \in Nat /\ Paged(l + 1) \in Nat
      /\ mods' = [mods EXCEPT ![todo] = new]
  <2>1. /\ todo \in 1..L /\ l \in Nat /\ top' \in Nat /\ top \in Int
        /\ mods' = [mods EXCEPT ![todo] = new]
    BY CopyIs
  <2> QED
    BY <2>1, StageIs, SpanIs
<1>3. Bottom' = Bottom /\ Kind' = Kind
  BY <1>1, CopyModuleKeeps DEF Kind
<1> HIDE DEF l
<1>4. Len(mods') = L /\ mods'[todo] = new /\ \A n \in 1..L : n # todo => mods'[n] = mods[n]
  <2> HIDE DEF Module, new
  <2> QED
    BY <1>2 DEF Types
<1>5. Span(new) = Paged(l + 1) /\ new.start = top' /\ top' + Paged(l + 1) = top
  <2>1. (top' + l) - top' + 1 = l + 1
    BY <1>2
  <2> QED
    BY <1>1, <1>2, <2>1 DEF Span
<1> HIDE DEF new, L
<1>6. /\ IsStack(mods, todo + 1) /\ (todo < L => top = mods[todo + 1].start)
      /\ IsRoom(mmap, Bottom, IF todo = L THEN top ELSE TopOf(mods), PhysMax[Kind])
  BY <1>1 DEF MInv, Moving, L
<1>7. IsStack(mods', todo)
  <2> SUFFICES ASSUME NEW n \in todo..(L - 1) PROVE mods'[n + 1].start = mods'[n].start + Span(mods'[n])
    BY <1>4 DEF IsStack
  <2>1. n + 1 \in 1..L /\ n + 1 # todo /\ n \in 1..L
    BY <1>2
  <2>2. CASE n = todo
    BY <1>2, <1>4, <1>5, <1>6, <2>1, <2>2
  <2>3. CASE n # todo
    <3>1. n \in (todo + 1)..(L - 1)
      BY <1>2, <2>3
    <3> QED
      BY <1>4, <1>6, <2>1, <2>3, <3>1 DEF IsStack, L
  <2> QED
    BY <2>2, <2>3
<1>8. TopOf(mods') = IF todo = L THEN top ELSE TopOf(mods)
  <2>1. TopOf(mods') = mods'[L].start + Span(mods'[L])
    BY <1>4 DEF TopOf
  <2>2. CASE todo = L
    BY <1>4, <1>5, <2>1, <2>2
  <2>3. CASE todo # L
    <3>1. mods'[L] = mods[L]
      BY <1>2, <1>4, <2>3
    <3> QED
      BY <2>1, <2>3, <3>1 DEF TopOf, L
  <2> QED
    BY <2>2, <2>3
<1>9. todo' + 1 = todo /\ todo' # L /\ mods'[todo].start = top'
  BY <1>1, <1>2, <1>4, <1>5
<1> QED
  BY <1>1, <1>3, <1>4, <1>6, <1>7, <1>8, <1>9 DEF MInv, Moved, Moving

LEMMA CopiedMoves == ASSUME IInv, MInv, Copied PROVE relocated' \in Nat /\ Moved' /\ Moving'
<1> USE DEF IInv
<1>1. /\ pc = "copy" /\ todo = 0 /\ pc' = "start" /\ relocated' = PhysMax[Kind]
      /\ UNCHANGED <<mmap, chain, stage, mods, mem, top>>
  BY DEF Copied
<1>2. stage < Stages /\ Len(mods) \in Nat \ {0}
  BY <1>1, StageIs DEF Types, Loading
<1>3. relocated' \in Nat
  BY <1>1, <1>2, RunnerIs
<1>4. Bottom = top
  <2>1. Sums(Sizes)[0] = 0 /\ top \in Int
    BY SizesAre DEF IsSum, Types
  <2> QED
    BY <1>1, <2>1 DEF Bottom
<1>5. /\ IsStack(mods, 1) /\ top = mods[1].start
      /\ IsRoom(mmap, top, TopOf(mods), PhysMax[Kind])
  BY <1>1, <1>2, <1>4 DEF MInv, Moving
<1> QED
  BY <1>1, <1>3, <1>5 DEF Moved, Moving

LEMMA StartMoves == ASSUME IInv, MInv, StartModule PROVE relocated' \in Nat /\ Moved' /\ Moving'
<1> USE DEF IInv
<1>1. /\ pc = "start" /\ pc' # "copy" /\ UNCHANGED <<mmap, relocated>> /\ relocated \in Nat
  BY DEF StartModule, MInv, history
<1>2. /\ Len(mods') = Len(mods) - 1 /\ Len(mods) \in Nat /\ 1 \in 1..Len(mods)
      /\ Len(mods') \in 1..Len(mods')
      /\ \A n \in 1..Len(mods') : n + 1 \in 1..Len(mods) /\ mods'[n] = mods[n + 1]
  BY StartIs
<1>3. ASSUME relocated # 0 PROVE IsStack(mods', 1) /\ IsRoom(mmap, mods'[1].start, TopOf(mods'), relocated)
  <2>1. IsStack(mods, 1) /\ IsRoom(mmap, mods[1].start, TopOf(mods), relocated)
    BY <1>1, <1>3 DEF MInv, Moved
  <2>2. IsStack(mods', 1)
    <3> SUFFICES ASSUME NEW n \in 1..(Len(mods') - 1)
                 PROVE  mods'[n + 1].start = mods'[n].start + Span(mods'[n])
      BY DEF IsStack
    <3>1. n \in 1..Len(mods') /\ n + 1 \in 1..Len(mods') /\ n + 1 \in 1..(Len(mods) - 1)
      BY <1>2
    <3> QED
      BY <1>2, <2>1, <3>1 DEF IsStack
  <2>3. TopOf(mods') = TopOf(mods)
    <3>1. Len(mods') + 1 = Len(mods)
      BY <1>2
    <3> QED
      BY <1>2, <3>1 DEF TopOf
  <2>4. /\ mods[1].start \in Nat /\ mods'[1].start \in Nat /\ TopOf(mods) \in Nat
        /\ mods[1].start <= mods'[1].start
    <3>1. 1 \in 1..Len(mods') /\ 2 \in 1..Len(mods) /\ 1 \in 1..(Len(mods) - 1) /\ Len(mods) \in 1..Len(mods)
      BY <1>2
    <3>2. mods'[1] = mods[2] /\ mods[2].start = mods[1].start + Span(mods[1])
      BY <1>2, <2>1, <3>1 DEF IsStack
    <3>3. /\ mods[1].start \in Nat /\ Span(mods[1]) \in Nat /\ mods[Len(mods)].start \in Nat
          /\ Span(mods[Len(mods)]) \in Nat
      BY <1>2, <3>1, SpansAre
    <3> QED
      BY <3>2, <3>3 DEF TopOf
  <2>5. mmap \in Seq(Block)
    BY DEF Types
  <2>6. IsRoom(mmap, mods'[1].start, TopOf(mods), relocated)
    BY <1>1, <2>1, <2>4, <2>5, SmallerRoom
  <2> QED
    BY <2>2, <2>3, <2>6
<1> QED
  BY <1>1, <1>3 DEF Moved, Moving

LEMMA MovedKeeps == ASSUME IInv, MInv, [Next]_vars PROVE MInv'
<1>1. relocated' \in Nat /\ Moved' /\ Moving'
  <2>1. CASE Alloc
    <3>1. pc = "alloc" /\ pc' = "alloc" /\ UNCHANGED <<mods, relocated>>
      BY <2>1, AllocIs DEF Alloc
    <3> QED
      BY <3>1, RestMoves
  <2>2. CASE Relocate
    BY <2>2, RelocateMoves
  <2>3. CASE CopyModule
    BY <2>3, CopyMoves
  <2>4. CASE Copied
    BY <2>4, CopiedMoves
  <2>5. CASE StartModule
    BY <2>5, StartMoves
  <2>6. CASE LoadSegment
    <3>1. pc = "load" /\ pc' = "load" /\ UNCHANGED <<mods, relocated>>
      BY <2>6 DEF LoadSegment, history
    <3> QED
      BY <3>1, RestMoves
  <2>7. CASE EnterStage
    <3>1. pc = "load" /\ pc' # "copy" /\ UNCHANGED <<mods, relocated>>
      BY <2>7 DEF EnterStage, history
    <3> QED
      BY <3>1, RestMoves
  <2>8. CASE UNCHANGED vars
    <3>1. UNCHANGED <<mmap, chain, stage, mods, mem, relocated, pc, todo, top>>
      BY <2>8 DEF vars, history
    <3>2. Kind' = Kind /\ Sizes' = Sizes
      BY <3>1 DEF Kind, Sizes, NewLen, Inflates, ModLen, KindOf, IsPacked, Packed
    <3>3. Bottom' = Bottom
      BY <3>1, <3>2 DEF Bottom
    <3> QED
      BY <3>1, <3>2, <3>3 DEF MInv, Moved, Moving
  <2> QED
    BY <2>1, <2>2, <2>3, <2>4, <2>5, <2>6, <2>7, <2>8 DEF Next
<1> QED
  BY <1>1, StepKeepsOneAbove DEF MInv

(* With one usable block above low memory: a later stage that may not move  *)
(* modules higher does not move them, and one with the same limit, which    *)
(* inflates nothing, finds that they are relocated already, for any map,    *)
(* chain and request (mbi_relocate_modules).                                *)
THEOREM ModulesMoveOnce == ASSUME OneBlockAbove PROVE Spec => MovedOnce
<1>1. Init => MInv
  BY InitIs DEF Init, MInv, OneAbove, OneBlockAbove, Moved, Moving
<1>2. IInv /\ MInv /\ [Next]_vars => MInv'
  BY MovedKeeps
<1>3. IInv /\ MInv /\ [Next]_vars =>
        [pc = "alloc" /\ pc' \in {"copy", "start"} /\ relocated # 0 =>
           /\ said' = "moved" => PhysMax[Kind] > relocated
           /\ ~NeedInflate /\ PhysMax[Kind] = relocated => said' = "already"]_vars
  <2> SUFFICES ASSUME IInv, MInv, Next, pc = "alloc", pc' \in {"copy", "start"}, relocated # 0
               PROVE  /\ said' = "moved" => PhysMax[Kind] > relocated
                      /\ ~NeedInflate /\ PhysMax[Kind] = relocated => said' = "already"
    OBVIOUS
  <2>1. Relocate
    <3>1. ~Alloc
      BY AllocIs
    <3> QED
      BY <3>1 DEF Next, CopyModule, Copied, StartModule, LoadSegment, EnterStage
  <2> QED
    BY <2>1, NoHigher, FoundAgain
<1> QED
  BY <1>1, <1>2, <1>3, Invariance, PTL DEF Spec, MovedOnce
=============================================================================
