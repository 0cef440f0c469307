----------------------------- MODULE BootChain ------------------------------
(***************************************************************************)
(* A chain of boot loaders of this repository: each one may take protected *)
(* memory, relocates (unzip: and inflates) the modules to the top of       *)
(* memory, and starts the first module with the rest of them               *)
(* (start_module in standalone/elf.c, mbi_relocate_modules in mbi.c): it   *)
(* generates a trampoline that copies the segments of the module to their  *)
(* place, where the program that generates it is running.                  *)
(* Memory is modelled byte by byte, so that overlapping copies show.       *)
(***************************************************************************)
EXTENDS MbiMemory, FiniteSetsExt

CONSTANTS Maps,     \* memory maps: ascending blocks, each with a page boundary
          Chains,   \* sequences of kinds: stages up to a kernel, then data;
                    \* stage 1 was started by the boot loader
          Kernels,  \* kinds that end the chain
          Allocs,   \* kind -> the [len, align] it allocates, the last one first
          PhysMax,  \* kind -> modules are relocated below this address
          Image,    \* kind -> its ELF segments, [to, off, file, mem]
          RawLen,   \* kind -> length as loaded
          FullLen,  \* kind -> length after inflation, RawLen if not compressed
          Bases,    \* where the boot loader puts the first module
          Code,     \* where the trampoline is generated     (elf.c: 0x7C00)
          MemSize   \* bytes of memory

VARIABLES
  mmap, chain, stage,  \* the memory map, the chain and where it is
  mods,                \* module list: [start, end, string, id]
  mem,                 \* memory: what each byte holds
  code,                \* trampoline: copies to be done, [to, src, file, mem]
  areas,               \* history: protected memory, for which request
  relocated,           \* history: below which address modules were moved (0:
                       \* they were not)
  pc, todo, top,       \* step; allocations, or modules, still to do; block end
  said                 \* what mbi_relocate_modules told the user

history == <<areas, relocated>>
vars == <<mmap, chain, stage, mods, mem, code, history, pc, todo, top, said>>

Kind == chain[stage]
Modules == 1..(Len(chain) - 1)
KindOf(m) == chain[m + 1]
IsPacked(m) == RawLen[KindOf(m)] # FullLen[KindOf(m)]
Paged(n) == RoundUp(n, Page)

(* Byte k of module m; the string is one byte.                              *)
Packed(m, k)   == <<IF IsPacked(m) THEN "packed" ELSE "plain", m, k>>
Inflated(m, k) == <<"plain", m, k>>
String(m)      == <<"string", m, 0>>
Area           == <<"area", 0, 0>>
Free           == <<"free", 0, 0>>
Zero           == <<"zero", 0, 0>>

(* What the program header of a segment promises for address x.             *)
ImageByte(m, seg, x) ==
  IF x < seg.to + seg.file THEN Inflated(m, seg.off + x - seg.to) ELSE Zero

(* mem with n bytes from a on holding byte(0), byte(1), ...                 *)
Fill(memory, a, n, byte(_)) ==
  [x \in DOMAIN memory |-> IF x \in a..(a + n - 1) THEN byte(x - a) ELSE memory[x]]

(* Mutant: the memory behind the file's bytes is not zeroed.                *)
LoadedWithoutZeros(memory, c) ==
  LET from(k) == IF c.to > c.src THEN k % (c.to - c.src) ELSE k
  IN Fill(memory, c.to, c.file, LAMBDA k : memory[c.src + from(k)])

(* A copy of file bytes from src, then zeros, as REP MOVSB and REP STOSB do *)
(* it: a source that lies less than its length below repeats itself.        *)
Loaded(memory, c) ==
  LET from(k) == IF c.to > c.src THEN k % (c.to - c.src) ELSE k
      data == Fill(memory, c.to, c.file, LAMBDA k : memory[c.src + from(k)])
  IN Fill(data, c.to + c.file, c.mem - c.file, LAMBDA k : Zero)

(* The sums of the first 0, 1, ... numbers of a sequence.                   *)
Sums(s) == LET sum[n \in 0..Len(s)] == IF n = 0 THEN 0 ELSE sum[n - 1] + s[n] IN sum

LoadedAt(c, base, m) ==
  base + Sums([j \in 1..(Len(c) - 1) |-> Paged(RawLen[c[j + 1]])])[m - 1]

-----------------------------------------------------------------------------
(* Where things are in memory, when the boot loader has put them there.     *)
(* Low memory is the first block; the programs and modules are above it.    *)
Segment == [to : Nat, off : Nat, file : Nat, mem : Nat]
Below(segs, x) == \A i \in 1..Len(segs) : segs[i].to + segs[i].mem <= x
IsImage(segs, len, low) ==
  /\ segs \in Seq(Segment)
  /\ \A i \in 1..Len(segs) :
       low <= segs[i].to /\ segs[i].file <= segs[i].mem /\ segs[i].off + segs[i].file <= len
  /\ \A i, j \in 1..Len(segs) :
       i < j => \/ segs[i].to + segs[i].mem <= segs[j].to
                \/ segs[j].to + segs[j].mem <= segs[i].to

(* The kernel ends the chain; there are modules for it.                     *)
IsKernelAt(c, k) == c[k] \in Kernels /\ \A s \in 1..(k - 1) : c[s] \notin Kernels
KernelAt(c) == CHOOSE k \in 2..(Len(c) - 1) : IsKernelAt(c, k)

(* What the last t requests of a stage, and what stages 1 to s, take at     *)
(* most.                                                                    *)
Needed(k) == Sums([t \in 1..Len(Allocs[k]) |-> Allocs[k][t].len + Allocs[k][t].align - 1])
Total(c)  == Sums([s \in 1..(KernelAt(c) - 1) |-> Needed(c[s])[Len(Allocs[c[s]])]])

IsMap(m, low) ==
  /\ m \in Seq(Block) /\ Len(m) > 0 /\ m[1].avail /\ m[1].addr <= Code /\ EndOf(m[1]) <= low
  /\ \A i \in 1..Len(m) : EndOf(m[i]) <= MemSize

IsChain(c, low) ==
  /\ \E k \in 2..(Len(c) - 1) : IsKernelAt(c, k)
  /\ Len(c) \in 3..(Code + 1)
  /\ \A s \in 1..Len(c) : RawLen[c[s]] \in Nat \ {0} /\ FullLen[c[s]] \in Nat \ {0}
  /\ \A s \in 1..KernelAt(c) : IsImage(Image[c[s]], FullLen[c[s]], low)
  /\ \A s \in 1..(KernelAt(c) - 1) :
       /\ PhysMax[c[s]] \in Nat \ {0} /\ Allocs[c[s]] \in Seq([len : Nat, align : Nat \ {0}])
       /\ \A b \in Bases : Below(Image[c[s]], b)

(* The kernel's memory ends before the last module does, wherever it is.    *)
Behind(c) ==
  \A b \in Bases : Below(Image[c[KernelAt(c)]],
                         LoadedAt(c, b, Len(c) - 1) + RawLen[c[Len(c)]])

(* Low memory has room for all that is protected, above the trampoline.     *)
RoomFor(m, c) ==
  \A s \in 2..KernelAt(c) :
    Code + Len(Image[c[s]]) + 1 + Total(c)[KernelAt(c) - 1] <= EndOf(m[1])

Layout(low) ==
  /\ low < Limit32 /\ Bases \subseteq Nat /\ \A b \in Bases : low <= b
  /\ \A m \in Maps : IsMap(m, low)
  /\ \A c \in Chains : IsChain(c, low) /\ Behind(c) /\ \A m \in Maps : RoomFor(m, c)

ASSUME BootChainAssumption ==
  /\ MemSize \in Nat /\ MemSize <= Limit32 /\ Code \in Nat
  /\ \E low \in 0..MemSize : Layout(low)

-----------------------------------------------------------------------------
(* Modules one after the other from a page on, strings at the very bottom,  *)
(* the first stage (module 0) where it wants to be.                         *)
Init ==
  /\ mmap \in Maps /\ chain \in Chains /\ stage = 1
  /\ \E base \in Bases :
       mods = [m \in Modules |->
                 [start |-> LoadedAt(chain, base, m),
                  end |-> LoadedAt(chain, base, m) + RawLen[KindOf(m)],
                  string |-> m - 1, id |-> m]]
  /\ \E i \in 1..Len(mmap) : mmap[i].avail /\ \A m \in Modules :
       mmap[i].addr <= mods[m].start /\ mods[m].end <= EndOf(mmap[i])
  /\ mem = [x \in 0..(MemSize - 1) |->
       LET here == {m \in Modules : x \in mods[m].start..(mods[m].end - 1)}
           segs == {i \in 1..Len(Image[Kind]) :
                      x \in Image[Kind][i].to..(Image[Kind][i].to + Image[Kind][i].mem - 1)}
       IN IF x + 1 \in Modules THEN String(x + 1)
          ELSE IF here # {} THEN Packed(Max(here), x - mods[Max(here)].start)
          ELSE IF segs # {} THEN ImageByte(0, Image[Kind][Max(segs)], x) ELSE Free]
  /\ code = <<>> /\ areas = {} /\ relocated = 0
  /\ pc = "alloc" /\ todo = Len(Allocs[Kind]) /\ top = 0 /\ said = "nothing"

-----------------------------------------------------------------------------
(* Mutant: the block is handed out but not shortened.                       *)
AllocKeepsBlock ==
  /\ pc = "alloc" /\ todo > 0
  /\ LET r == Allocs[Kind][todo] IN
     \/ \E i \in 1..Len(mmap) :
          LET a == AllocAddr(mmap[i], r.len, r.align) IN
          /\ CanAllocIn(mmap, i, r.len, r.align)
          /\ areas' = areas \cup {[addr |-> a, len |-> r.len, for |-> <<stage, todo>>]}
          /\ mem' = Fill(mem, a, r.len, LAMBDA k : Area)
          /\ todo' = todo - 1 /\ UNCHANGED <<pc, mmap>>
     \/ /\ \A i \in 1..Len(mmap) : ~CanAllocIn(mmap, i, r.len, r.align)
        /\ pc' = "exit" /\ UNCHANGED <<areas, mem, todo, mmap>>
  /\ UNCHANGED <<chain, stage, mods, code, relocated, top, said>>

(* mbi_alloc_protected_memory, and the stage that uses what it got; "No     *)
(* space" reboots.                                                          *)
Alloc ==
  /\ pc = "alloc" /\ todo > 0
  /\ LET r == Allocs[Kind][todo] IN
     \/ \E i \in 1..Len(mmap) :
          LET a == AllocAddr(mmap[i], r.len, r.align) IN
          /\ CanAllocIn(mmap, i, r.len, r.align)
          /\ mmap' = Shortened(mmap, i, r.len, r.align)
          /\ areas' = areas \cup {[addr |-> a, len |-> r.len, for |-> <<stage, todo>>]}
          /\ mem' = Fill(mem, a, r.len, LAMBDA k : Area)
          /\ todo' = todo - 1 /\ UNCHANGED pc
     \/ /\ \A i \in 1..Len(mmap) : ~CanAllocIn(mmap, i, r.len, r.align)
        /\ pc' = "exit" /\ UNCHANGED <<areas, mem, todo, mmap>>
  /\ UNCHANGED <<chain, stage, mods, code, relocated, top, said>>

(* The length of module n before and after, and the room all of them need.  *)
ModLen(n)   == mods[n].end - mods[n].start
Inflates(n) == /\ Kind = "unzip" /\ IsPacked(mods[n].id)
               /\ mem[mods[n].start] = Packed(mods[n].id, 0)
NewLen(n)   == IF Inflates(n) THEN FullLen[KindOf(mods[n].id)] ELSE ModLen(n)
Sizes       == [n \in 1..Len(mods) |-> Paged(NewLen(n) + 1)]
Size        == Sums(Sizes)[Len(mods)]
NeedInflate == \E n \in 1..Len(mods) : Inflates(n)

(* What mbi_find_memory returns for these maps: the last block that fits.   *)
Fitting(size) == {i \in 1..Len(mmap) : CanHold(mmap[i], size, PhysMax[Kind])}

GiveUp(message) ==
  /\ said' = message
  /\ pc' = IF NeedInflate THEN "exit" ELSE "start"
  /\ UNCHANGED <<todo, top>>

(* Mutant: nobody checks whether a module reaches into the room.            *)
RelocateUnchecked ==
  /\ pc = "alloc" /\ todo = 0
  /\ LET size == Size
     IN \/ Fitting(size) = {} /\ GiveUp("cannot")
        \/ /\ Fitting(size) # {}
           /\ said' = "moved" /\ pc' = "copy" /\ todo' = Len(mods)
           /\ top' = TopIn(mmap[Max(Fitting(size))], size, PhysMax[Kind]) + size
  /\ UNCHANGED <<mmap, chain, stage, mods, mem, code, history>>

(* Room for the modules, and the check that none of them reaches into it.   *)
Relocate ==
  /\ pc = "alloc" /\ todo = 0
  /\ LET size  == Size
         start == TopIn(mmap[Max(Fitting(size))], size, PhysMax[Kind])
         above == {n \in 1..Len(mods) : mods[n].end > start}
     IN \/ Fitting(size) = {} /\ GiveUp("cannot")
        \/ /\ Fitting(size) # {} /\ above # {}
           /\ IF mods[Min(above)].start = start
                THEN GiveUp("already") ELSE GiveUp("overlap")
        \/ /\ Fitting(size) # {} /\ above = {}
           /\ said' = "moved" /\ pc' = "copy"
           /\ todo' = Len(mods) /\ top' = start + size
  /\ UNCHANGED <<mmap, chain, stage, mods, mem, code, history>>

(* Mutant: the copies are laid out without rounding to pages.               *)
CopyModuleUnrounded ==
  /\ pc = "copy" /\ todo > 0
  /\ LET m == mods[todo]
         to == top - (NewLen(todo) + 1)
         moved == Fill(mem, to, NewLen(todo),
                       LAMBDA k : IF Inflates(todo) THEN Inflated(m.id, k) ELSE mem[m.start + k])
     IN /\ mem' = [moved EXCEPT ![to + NewLen(todo)] = moved[m.string]]
        /\ mods' = [mods EXCEPT ![todo] = [start |-> to, end |-> to + NewLen(todo),
                                           string |-> to + NewLen(todo), id |-> m.id]]
        /\ top' = to
  /\ todo' = todo - 1
  /\ UNCHANGED <<mmap, chain, stage, code, history, pc, said>>

(* One module, from the last to the first: the data, then the string.       *)
CopyModule ==
  /\ pc = "copy" /\ todo > 0
  /\ LET m == mods[todo]
         to == top - Paged(NewLen(todo) + 1)
         moved == Fill(mem, to, NewLen(todo),
                       LAMBDA k : IF Inflates(todo) THEN Inflated(m.id, k) ELSE mem[m.start + k])
     IN /\ mem' = [moved EXCEPT ![to + NewLen(todo)] = moved[m.string]]
        /\ mods' = [mods EXCEPT ![todo] = [start |-> to, end |-> to + NewLen(todo),
                                           string |-> to + NewLen(todo), id |-> m.id]]
        /\ top' = to
  /\ todo' = todo - 1
  /\ UNCHANGED <<mmap, chain, stage, code, history, pc, said>>

Copied ==
  /\ pc = "copy" /\ todo = 0 /\ pc' = "start"
  /\ relocated' = PhysMax[Kind]
  /\ UNCHANGED <<mmap, chain, stage, mods, mem, code, areas, todo, top, said>>

(* The first module leaves the list.  It has to be an ELF file, of which    *)
(* the trampoline will copy one segment after the other.                    *)
Copies(m) ==
  [i \in 1..Len(Image[KindOf(m.id)]) |->
     LET seg == Image[KindOf(m.id)][i]
     IN [to |-> seg.to, src |-> m.start + seg.off, file |-> seg.file, mem |-> seg.mem]]

StartModule ==
  /\ pc = "start"
  /\ mods' = Tail(mods) /\ stage' = stage + 1
  /\ IF mem[mods[1].start] # Inflated(mods[1].id, 0)
       THEN pc' = "exit" /\ UNCHANGED <<code, mem>>
       ELSE /\ pc' = "load" /\ code' = Copies(mods[1])
            /\ mem' = Fill(mem, Code, Len(code') + 1, LAMBDA k : <<"code", stage', k>>)
  /\ UNCHANGED <<mmap, chain, history, todo, top, said>>

(* The trampoline runs: a segment, and the jump to the entry point.         *)
LoadSegment ==
  /\ pc = "load" /\ code # <<>>
  /\ mem' = Loaded(mem, Head(code)) /\ code' = Tail(code)
  /\ UNCHANGED <<mmap, chain, stage, mods, history, pc, todo, top, said>>

EnterStage ==
  /\ pc = "load" /\ code = <<>>
  /\ IF Kind \in Kernels THEN pc' = "kernel" /\ UNCHANGED todo
                         ELSE pc' = "alloc" /\ todo' = Len(Allocs[Kind])
  /\ UNCHANGED <<mmap, chain, stage, mods, mem, code, history, top, said>>

Next == Alloc \/ Relocate \/ CopyModule \/ Copied \/ StartModule \/ LoadSegment
        \/ EnterStage

Spec == Init /\ [][Next]_vars /\ WF_vars(Next)

-----------------------------------------------------------------------------
(* A loader is linked to the memory before the modules; a kernel may need   *)
(* the memory the boot loader gave them, unless they were moved.            *)
Harmless == relocated # 0 \/ Kind \notin Kernels

(* Every module that is still to be started, and its string, is as it was   *)
(* loaded or inflated, wherever the stages moved it (the copy loop of       *)
(* mbi_relocate_modules, allocations of later stages, segments of started   *)
(* modules).                                                                *)
ModulesIntact ==
  pc # "copy" /\ Harmless =>
    \A n \in 1..Len(mods) :
      LET m == mods[n] Holds(len, byte(_, _)) ==
            /\ m.end - m.start = len
            /\ \A k \in 0..(len - 1) : mem[m.start + k] = byte(m.id, k)
      IN /\ mem[m.string] = String(m.id)
         /\ Holds(RawLen[KindOf(m.id)], Packed) \/ Holds(FullLen[KindOf(m.id)], Inflated)

(* While a stage runs, its segments are in memory as its program headers    *)
(* say: the trampoline copied and zeroed them right although they replace   *)
(* the program that generated it, and the stage's own copies spare them.    *)
StageIsLoaded ==
  pc \in {"alloc", "copy", "start", "kernel"} /\ Harmless =>
    \A i \in 1..Len(Image[Kind]) :
      LET seg == Image[Kind][i]
      IN \A x \in seg.to..(seg.to + seg.mem - 1) : mem[x] = ImageByte(stage - 1, seg, x)

(* Protected memory is never handed out twice, and no relocation of this or *)
(* a later stage, no trampoline and no segment writes to it                 *)
(* (mbi_alloc_protected_memory).                                            *)
ProtectedIntact ==
  \A a \in areas :
    /\ \A x \in a.addr..(a.addr + a.len - 1) : mem[x] = Area
    /\ \A b \in areas \ {a} : a.addr + a.len <= b.addr \/ b.addr + b.len <= a.addr

(* PCs have one usable block above low memory, below 4 GB.                  *)
OneBlockAbove ==
  \A m \in Maps : \A i, j \in 2..Len(m) : m[i].avail /\ m[j].avail => i = j

(* "Modules seem to be relocated. Good.": a stage moves them only if it may *)
(* move them higher than the one before; a stage with the same limit finds  *)
(* them where it would have put them, whatever memory was taken since.  (If *)
(* OneBlockAbove holds of the maps.)                                        *)
MovedOnce ==
  [][pc = "alloc" /\ pc' \in {"copy", "start"} /\ relocated # 0 =>
       /\ said' = "moved" => PhysMax[Kind] > relocated
       /\ ~NeedInflate /\ PhysMax[Kind] = relocated => said' = "already"]_vars
=============================================================================
