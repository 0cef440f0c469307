----------------------------- MODULE ZappProofs -----------------------------
(***************************************************************************)
(* Proofs about zapp, for all tables, buses and command lines.  All of the *)
(* properties follow from one invariant.  It says which slot of the RSDT   *)
(* zapp works on (Slot), which checksums may be wrong meanwhile (Sums),    *)
(* what the XSDT names (Agreement), how many entries are still owed to the *)
(* new table (Space), and which entries are repaired already (Changed,     *)
(* AddedSoFar, Source).                                                    *)
(***************************************************************************)
EXTENDS Zapp, SequenceTheorems, WellFoundedInduction, TLAPS

Bridging == {"bridges", "bridgeCap"}
Adding   == {"device", "deviceCap", "add"} \cup Bridging
Working  == {"walk", "dup", "xsdt"} \cup Adding
Unsummed == {"walk"} \cup Adding
PCs      == {"find", "next", "started", "exit"} \cup Working

IsDmar(tabs, t) == tabs[t].ok /\ tabs[t].sig = "DMAR"
AllLow == \A k \in 1..Len(xsdt.list) : ~xsdt.list[k].high

Types ==
  /\ rev2 \in BOOLEAN /\ IsBus(pci) /\ cmds \in Seq(Command)
  /\ tables \in Seq(AcpiTable) /\ rsdt \in Rsdt /\ xsdt \in Xsdt
  /\ \A k \in 1..Len(rsdt.list) : rsdt.list[k] \in 1..Len(tables)
  /\ \A k \in 1..Len(xsdt.list) : xsdt.list[k].tab \in 1..Len(tables)
  /\ stage \in 1..Len(cmds) /\ pc \in PCs
  /\ ptr \in Nat /\ e \in Nat \ {0} /\ new \in Nat /\ room \in Nat /\ adding \in Nat \ {0}
  /\ bdf \in Address /\ cap \in Nat /\ rest \in SUBSET RootBus(pci)

Slot ==
  /\ pc \in Working => ptr # 0
  /\ Leaves /\ ptr = 0 => GetTablePtr = 0
  /\ (pc \in Working \/ Leaves) /\ ptr # 0 =>
       /\ ptr \in 1..Len(rsdt.list) /\ tables[Dmar].sig = "DMAR"
       /\ \A j \in 1..(ptr - 1) : rsdt.list[j] # Dmar /\ ~IsDmar(tables, rsdt.list[j])
       /\ pc \notin Unsummed => tables[Dmar].ok
       /\ pc \in Adding \cup {"xsdt"} => new = Dmar

Sums ==
  /\ rsdt.ok /\ (pc # "xsdt" => xsdt.ok)
  /\ \A t \in 1..Len(tables) :
       tables[t].ok \/ tables[t].broken \/ (pc \in Unsummed \cup {"exit"} /\ t = Dmar)

Agreement ==
  rev2 /\ AllLow =>
    /\ pc = "find" \/ Leaves => SameDmar(tables, rsdt.list, xsdt.list)
    /\ pc \in {"walk", "dup"} =>
         /\ \E k \in 1..Len(xsdt.list) : xsdt.list[k].tab = Dmar
         /\ \A k \in 1..Len(xsdt.list) :
              IsDmar(tables, xsdt.list[k].tab) => xsdt.list[k].tab = Dmar
    /\ pc \in Adding \cup {"xsdt"} =>
         \E k \in 1..Len(xsdt.list) : tables[xsdt.list[k].tab].sig = "DMAR"
    /\ pc = "xsdt" =>
         \A k \in 1..Len(xsdt.list) :
           k < e /\ tables[xsdt.list[k].tab].sig = "DMAR" => xsdt.list[k].tab = Dmar

Counts ==
  /\ pc \in Adding => adding <= Len(Cmd.add) + 1
  /\ pc \in Adding \ {"device"} => /\ adding <= Len(Cmd.add)
                                   /\ OfClass(pci, Cmd.add[adding].class) # {}
  /\ pc = "bridgeCap" => rest # {} /\ Forwards(AtBridge)

(* What may still be added for the additions at hand and to come.           *)
Owed ==
  CASE pc \in {"device", "deviceCap"} -> 2 * (Len(Cmd.add) - adding + 1)
    [] pc \in Bridging -> 2 * (Len(Cmd.add) - adding) + (IF \E x \in rest : Forwards(x) THEN 2 ELSE 1)
    [] pc = "add" -> 2 * (Len(Cmd.add) - adding) + 1
    [] OTHER -> 0

Space ==
  Configured(pci) /\ new # 0 => new \in 1..Len(tables) /\ Len(tables[new].entries) + Owed <= room

Entries == tables[Dmar].entries
Started == pc \in Working \/ (Leaves /\ ptr # 0)

Changed ==
  Started => \A k \in 1..Len(Entries) : (pc = "walk" => k < e) => Repaired(Cmd, Entries[k])

AddedSoFar ==
  Configured(pci) /\ Started /\ pc \notin {"walk", "dup"} =>
    \A a \in 1..Len(Cmd.add) : (pc \in Adding => a < adding) => Added(pci, Cmd, a, Entries)

Wanted == LastOf(OfClass(pci, Cmd.add[adding].class))
HasRegion(id) == Has(Entries, id, Cmd.add[adding].base)

(* The bridge above the device is still to be scanned, or has been met.     *)
BridgeMet ==
  \/ /\ bdf = Wanted.at
     /\ \A b \in Above(pci, Wanted) :
          b \in rest \/ (b.pcie = "toPci" /\ HasRegion(<<b.sec, 0, 0>>))
  \/ \E b \in Above(pci, Wanted) : b.pcie # "toPci" /\ bdf = b.at

OnList(x, c) == c \in 0..Len(x.caps) /\ \E w \in KindsAlong(x) : w[c] = x.pcie

Source ==
  /\ pc = "deviceCap" => bdf = Wanted.at /\ OnList(Wanted, cap)
  /\ pc = "bridgeCap" => OnList(AtBridge, cap)
  /\ pc \in Bridging /\ Configured(pci) => Wanted.pcie = "none" /\ BridgeMet
  /\ pc = "add" /\ Configured(pci) => \A id \in SourceIds(pci, Wanted) : id = bdf \/ HasRegion(id)

IInv == /\ Types /\ Slot /\ Sums /\ Counts /\ Space /\ Changed /\ AddedSoFar /\ Source
-----------------------------------------------------------------------------
(* A set of numbers has a least one.                                        *)
Less == {p \in Nat \X Nat : p[1] < p[2]}

LEMMA LessWellFounded == IsWellFoundedOn(Less, Nat)
<1>1. Less \cap (Nat \X Nat) \subseteq OpToRel(<, Nat)
  BY Zenon DEF Less, OpToRel
<1> QED
  BY <1>1, NatLessThanWellFounded, IsWellFoundedOnSubrelation, Zenon

LEMMA Least ==
  ASSUME NEW T, T \subseteq Nat, T # {}
  PROVE  Min(T) \in T /\ \A y \in T : Min(T) <= y
<1>1. PICK x \in T : \A y \in T : ~(<<y, x>> \in Less)
  BY LessWellFounded, WFMin, Zenon
<1>2. ASSUME NEW y \in T PROVE x <= y
  <2>1. <<y, x>> \notin Less /\ x \in Nat /\ y \in Nat
    BY <1>1
  <2> QED
    BY <2>1 DEF Less
<1> QED
  BY <1>2 DEF Min

(* acpi_get_table_ptr: what it finds, and how to know that it found p.      *)
LEMMA FirstDmarIs ==
  ASSUME NEW tabs, NEW list, Len(list) \in Nat
  PROVE  \/ /\ FirstDmar(tabs, list) = 0
            /\ \A k \in 1..Len(list) : ~IsDmar(tabs, list[k])
         \/ /\ FirstDmar(tabs, list) \in 1..Len(list)
            /\ IsDmar(tabs, list[FirstDmar(tabs, list)])
            /\ \A k \in 1..(FirstDmar(tabs, list) - 1) : ~IsDmar(tabs, list[k])
<1> DEFINE I == {k \in 1..Len(list) : IsDmar(tabs, list[k])}
<1>1. FirstDmar(tabs, list) = IF I # {} THEN Min(I) ELSE 0
  BY DEF FirstDmar, SelectInSeq, IsDmar
<1>2. CASE I = {}
  BY <1>1, <1>2
<1>3. CASE I # {}
  <2>1. I \subseteq Nat
    OBVIOUS
  <2>2. Min(I) \in I /\ \A y \in I : Min(I) <= y
    BY <1>3, <2>1, Least
  <2>3. FirstDmar(tabs, list) = Min(I)
    BY <1>1, <1>3
  <2>4. ASSUME NEW k \in 1..(Min(I) - 1) PROVE ~IsDmar(tabs, list[k])
    <3>1. k \notin I /\ k \in 1..Len(list)
      BY <2>2
    <3> QED
      BY <3>1
  <2> QED
    BY <2>2, <2>3, <2>4
<1> QED
  BY <1>2, <1>3

LEMMA FirstDmarAt ==
  ASSUME NEW tabs, NEW list, Len(list) \in Nat, NEW p \in 1..Len(list), IsDmar(tabs, list[p]),
         \A j \in 1..(p - 1) : ~IsDmar(tabs, list[j])
  PROVE  FirstDmar(tabs, list) = p
<1>1. CASE FirstDmar(tabs, list) = 0
  BY <1>1, FirstDmarIs
<1>2. CASE FirstDmar(tabs, list) # 0
  <2>1. /\ FirstDmar(tabs, list) \in 1..Len(list)
        /\ IsDmar(tabs, list[FirstDmar(tabs, list)])
        /\ \A k \in 1..(FirstDmar(tabs, list) - 1) : ~IsDmar(tabs, list[k])
    BY <1>2, FirstDmarIs
  <2> QED
    BY <2>1
<1> QED
  BY <1>1, <1>2

LEMMA FixForIs ==
  ASSUME NEW cmd, Len(cmd.fix) \in Nat, NEW who
  PROVE  FixFor(cmd, who) \in 0..Len(cmd.fix)
<1> DEFINE I == {k \in 1..Len(cmd.fix) : cmd.fix[k].who = who}
<1>1. FixFor(cmd, who) = IF I # {} THEN Min(I) ELSE 0
  BY DEF FixFor, SelectInSeq
<1>2. I \subseteq Nat
  OBVIOUS
<1>3. I # {} => Min(I) \in I
  BY <1>2, Least
<1> QED
  BY <1>1, <1>3

(* The addresses of functions are ordered, so that a scan has a first and a *)
(* last match.                                                              *)
LEMMA Smallest ==
  ASSUME NEW S, S # {}, NEW r \in [S -> Nat]
  PROVE  \E x \in S : \A y \in S : r[x] <= r[y]
<1> DEFINE T == {r[x] : x \in S}
<1>1. T \subseteq Nat /\ T # {}
  OBVIOUS
<1>2. Min(T) \in T /\ \A n \in T : Min(T) <= n
  BY <1>1, Least
<1> QED
  BY <1>2

Leads(x, S, a, b, c) ==
  \A y \in S : \/ a[x] < a[y]
               \/ a[x] = a[y] /\ b[x] < b[y]
               \/ a[x] = a[y] /\ b[x] = b[y] /\ c[x] <= c[y]

LEMMA Lexicographic ==
  ASSUME NEW S, S # {}, NEW a \in [S -> Nat], NEW b \in [S -> Nat], NEW c \in [S -> Nat]
  PROVE  \E x \in S : Leads(x, S, a, b, c)
<1>1. PICK u \in S : \A y \in S : a[u] <= a[y]
  BY Smallest
<1> DEFINE A == {x \in S : a[x] = a[u]}
<1>2. PICK v \in A : \A y \in A : b[v] <= b[y]
  <2>1. [x \in A |-> b[x]] \in [A -> Nat] /\ A # {}
    OBVIOUS
  <2> QED
    BY <2>1, Smallest
<1> DEFINE B == {x \in A : b[x] = b[v]}
<1>3. PICK w \in B : \A y \in B : c[w] <= c[y]
  <2>1. [x \in B |-> c[x]] \in [B -> Nat] /\ B # {}
    OBVIOUS
  <2> QED
    BY <2>1, Smallest
<1>4. Leads(w, S, a, b, c)
  <2> SUFFICES ASSUME NEW y \in S
               PROVE  \/ a[w] < a[y]
                      \/ a[w] = a[y] /\ b[w] < b[y]
                      \/ a[w] = a[y] /\ b[w] = b[y] /\ c[w] <= c[y]
    BY DEF Leads
  <2>1. a[w] = a[u] /\ b[w] = b[v] /\ a[u] <= a[y]
    BY <1>1
  <2>2. CASE y \notin A
    BY <2>1, <2>2
  <2>3. CASE y \in A /\ y \notin B
    BY <1>2, <2>1, <2>3
  <2>4. CASE y \in B
    BY <1>3, <2>1, <2>4
  <2> QED
    BY <2>2, <2>3, <2>4
<1>5. w \in S
  OBVIOUS
<1> QED
  BY <1>4, <1>5

LEMMA Numbers ==
  ASSUME NEW x \in PciFunction
  PROVE  /\ x.at = <<x.at[1], x.at[2], x.at[3]>>
         /\ x.at[1] \in 0..255 /\ x.at[2] \in 0..31 /\ x.at[3] \in 0..7
BY DEF PciFunction, Address

LEMMA FirstIsIn ==
  ASSUME NEW bus, IsBus(bus), NEW S \in SUBSET bus, S # {}
  PROVE  FirstOf(S) \in S
<1>1. S \subseteq PciFunction /\ \A x, y \in S : x.at = y.at => x = y
  BY DEF IsBus
<1>a. PICK a \in [S -> Nat] : \A x \in S : a[x] = x.at[1]
  <2>1. [x \in S |-> x.at[1]] \in [S -> Nat]
    BY <1>1, Numbers
  <2> QED
    BY <2>1
<1>b. PICK b \in [S -> Nat] : \A x \in S : b[x] = x.at[2]
  <2>1. [x \in S |-> x.at[2]] \in [S -> Nat]
    BY <1>1, Numbers
  <2> QED
    BY <2>1
<1>c. PICK c \in [S -> Nat] : \A x \in S : c[x] = x.at[3]
  <2>1. [x \in S |-> x.at[3]] \in [S -> Nat]
    BY <1>1, Numbers
  <2> QED
    BY <2>1
<1>3. PICK x \in S : Leads(x, S, a, b, c)
  BY Lexicographic
<1>4. ASSUME NEW y \in S PROVE y = x \/ Before(x.at, y.at)
  <2>1. \/ x.at[1] < y.at[1]
        \/ x.at[1] = y.at[1] /\ x.at[2] < y.at[2]
        \/ x.at[1] = y.at[1] /\ x.at[2] = y.at[2] /\ x.at[3] <= y.at[3]
    BY <1>3, <1>a, <1>b, <1>c DEF Leads
  <2>2. /\ x.at = <<x.at[1], x.at[2], x.at[3]>> /\ y.at = <<y.at[1], y.at[2], y.at[3]>>
        /\ x.at[3] \in Nat /\ y.at[3] \in Nat
    BY <1>1, Numbers
  <2>3. CASE x.at[3] = y.at[3] /\ x.at[1] = y.at[1] /\ x.at[2] = y.at[2]
    BY <1>1, <2>2, <2>3
  <2>4. CASE ~(x.at[3] = y.at[3] /\ x.at[1] = y.at[1] /\ x.at[2] = y.at[2])
    BY <2>1, <2>2, <2>4 DEF Before
  <2> QED
    BY <2>3, <2>4
<1> QED
  BY <1>4 DEF FirstOf

LEMMA LastIsIn ==
  ASSUME NEW bus, IsBus(bus), NEW S \in SUBSET bus, S # {}
  PROVE  LastOf(S) \in S
<1>1. S \subseteq PciFunction /\ \A x, y \in S : x.at = y.at => x = y
  BY DEF IsBus
<1>a. PICK a \in [S -> Nat] : \A x \in S : a[x] = 255 - x.at[1]
  <2>1. [x \in S |-> 255 - x.at[1]] \in [S -> Nat]
    BY <1>1, Numbers
  <2> QED
    BY <2>1
<1>b. PICK b \in [S -> Nat] : \A x \in S : b[x] = 31 - x.at[2]
  <2>1. [x \in S |-> 31 - x.at[2]] \in [S -> Nat]
    BY <1>1, Numbers
  <2> QED
    BY <2>1
<1>c. PICK c \in [S -> Nat] : \A x \in S : c[x] = 7 - x.at[3]
  <2>1. [x \in S |-> 7 - x.at[3]] \in [S -> Nat]
    BY <1>1, Numbers
  <2> QED
    BY <2>1
<1>3. PICK x \in S : Leads(x, S, a, b, c)
  BY Lexicographic
<1>4. ASSUME NEW y \in S PROVE y = x \/ Before(y.at, x.at)
  <2>1. /\ x.at = <<x.at[1], x.at[2], x.at[3]>> /\ y.at = <<y.at[1], y.at[2], y.at[3]>>
        /\ x.at[1] \in Nat /\ x.at[2] \in Nat /\ x.at[3] \in Nat
        /\ y.at[1] \in Nat /\ y.at[2] \in Nat /\ y.at[3] \in Nat
    <3>1. x \in PciFunction /\ y \in PciFunction
      BY <1>1
    <3>2. x.at = <<x.at[1], x.at[2], x.at[3]>> /\ y.at = <<y.at[1], y.at[2], y.at[3]>>
      BY <3>1, Numbers
    <3>3. x.at[1] \in 0..255 /\ x.at[2] \in 0..31 /\ x.at[3] \in 0..7
      BY <3>1, Numbers
    <3>4. y.at[1] \in 0..255 /\ y.at[2] \in 0..31 /\ y.at[3] \in 0..7
      BY <3>1, Numbers
    <3> QED
      BY <3>2, <3>3, <3>4
  <2>2. \/ y.at[1] < x.at[1]
        \/ x.at[1] = y.at[1] /\ y.at[2] < x.at[2]
        \/ x.at[1] = y.at[1] /\ x.at[2] = y.at[2] /\ y.at[3] <= x.at[3]
    BY <1>3, <1>a, <1>b, <1>c, <2>1 DEF Leads
  <2>3. CASE x.at[3] = y.at[3] /\ x.at[1] = y.at[1] /\ x.at[2] = y.at[2]
    BY <1>1, <2>1, <2>3
  <2>4. CASE ~(x.at[3] = y.at[3] /\ x.at[1] = y.at[1] /\ x.at[2] = y.at[2])
    BY <2>1, <2>2, <2>4 DEF Before
  <2> QED
    BY <2>3, <2>4
<1> QED
  BY <1>4 DEF LastOf
-----------------------------------------------------------------------------
(* Bridges as firmware configures them: at most one leads to a bus, none to *)
(* bus 0; and the requester IDs that follow.                                *)
LEMMA BridgeRanges ==
  ASSUME NEW bus, IsBus(bus), NEW b \in Bridges(bus)
  PROVE  b \in PciFunction /\ b.sec \in 0..255 /\ b.sub \in 0..255
BY DEF IsBus, Bridges, PciFunction

LEMMA OneBridgeAbove ==
  ASSUME NEW bus, IsBus(bus), Configured(bus), NEW d, d.at[1] \in Nat,
         NEW x \in Above(bus, d), NEW y \in Above(bus, d)
  PROVE  x = y
<1>1. /\ x \in Bridges(bus) /\ y \in Bridges(bus)
      /\ x.sec <= d.at[1] /\ d.at[1] <= x.sub /\ y.sec <= d.at[1] /\ d.at[1] <= y.sub
  BY DEF Above
<1>2. /\ x.sec \in Nat /\ x.sub \in Nat /\ y.sec \in Nat /\ y.sub \in Nat
  <2>1. /\ x.sec \in 0..255 /\ x.sub \in 0..255 /\ y.sec \in 0..255 /\ y.sub \in 0..255
    BY <1>1, BridgeRanges, Zenon
  <2> QED
    BY <2>1
<1>3. x # y => x.sub < y.sec \/ y.sub < x.sec
  BY <1>1 DEF Configured
<1> QED
  BY <1>1, <1>2, <1>3

LEMMA NoneToBusZero ==
  ASSUME NEW bus, IsBus(bus), Configured(bus), NEW d, d.at[1] = 0
  PROVE  Above(bus, d) = {}
<1> SUFFICES ASSUME NEW b \in Above(bus, d) PROVE FALSE
  OBVIOUS
<1>1. b \in Bridges(bus) /\ b.sec <= 0
  BY DEF Above
<1>2. b.sec \in Nat /\ b.sec >= 1
  BY <1>1, BridgeRanges DEF Configured
<1> QED
  BY <1>1, <1>2

LEMMA IdsWithoutBridge ==
  ASSUME NEW bus, NEW d, d.pcie # "none" \/ Above(bus, d) = {}
  PROVE  SourceIds(bus, d) = {d.at}
BY DEF SourceIds

LEMMA IdsBelowBridge ==
  ASSUME NEW bus, IsBus(bus), Configured(bus), NEW d, d.at[1] \in Nat, d.pcie = "none",
         NEW b \in Above(bus, d)
  PROVE  SourceIds(bus, d) = IF b.pcie = "toPci" THEN {d.at, <<b.sec, 0, 0>>} ELSE {b.at}
<1>1. \A x \in Above(bus, d) : x = b
  BY OneBridgeAbove
<1> DEFINE Ids(x) == IF x.pcie = "toPci" THEN {d.at, <<x.sec, 0, 0>>} ELSE {x.at}
<1>2. SourceIds(bus, d) = UNION {Ids(x) : x \in Above(bus, d)}
  BY DEF SourceIds
<1>3. {Ids(x) : x \in Above(bus, d)} = {Ids(b)}
  BY <1>1
<1> HIDE DEF Ids
<1>4. SourceIds(bus, d) = Ids(b)
  BY <1>2, <1>3
<1> USE DEF Ids
<1> QED
  BY <1>4

(* The walk along a capability list ends at the kind the function has.      *)
LEMMA ListStarts ==
  ASSUME NEW bus, IsBus(bus), NEW x \in bus
  PROVE  OnList(x, FirstCap(x)) /\ Len(x.caps) \in Nat
<1>1. x.capPtr \in 0..Len(x.caps) /\ KindsAlong(x) # {} /\ Len(x.caps) \in Nat
  BY DEF IsBus, PciFunction
<1>2. FirstCap(x) \in 0..Len(x.caps)
  BY <1>1 DEF FirstCap
<1>3. \A w \in KindsAlong(x) : w[FirstCap(x)] = x.pcie
  BY DEF KindsAlong
<1> QED
  BY <1>1, <1>2, <1>3 DEF OnList

LEMMA ListGoesOn ==
  ASSUME NEW bus, IsBus(bus), NEW x \in bus, NEW c, OnList(x, c), c # 0, ~IsExp(x, c)
  PROVE  OnList(x, NextCap(x, c))
<1>1. c \in 1..Len(x.caps) /\ NextCap(x, c) \in 0..Len(x.caps)
  BY DEF OnList, IsBus
<1>2. PICK w \in KindsAlong(x) : w[c] = x.pcie
  BY DEF OnList
<1>3. w[c] = w[NextCap(x, c)]
  BY <1>1 DEF KindsAlong
<1> QED
  BY <1>1, <1>2, <1>3 DEF OnList

LEMMA ListEnds ==
  ASSUME NEW bus, IsBus(bus), NEW x \in bus, NEW c, OnList(x, c)
  PROVE  /\ c = 0 => x.pcie = "none"
         /\ c # 0 /\ IsExp(x, c) => x.pcie = x.caps[c].type /\ x.pcie # "none"
<1>1. PICK w \in KindsAlong(x) : w[c] = x.pcie
  BY DEF OnList
<1>2. c = 0 => x.pcie = "none"
  BY <1>1 DEF KindsAlong
<1>3. ASSUME c # 0, IsExp(x, c)
      PROVE  x.pcie = x.caps[c].type /\ x.pcie # "none"
  <2>1. c \in 1..Len(x.caps)
    BY <1>3 DEF OnList
  <2>2. w[c] = x.caps[c].type
    BY <1>3, <2>1 DEF KindsAlong
  <2>3. x.caps[c].type \in Kinds \ {"none"}
    BY <1>3, <2>1 DEF IsBus
  <2> QED
    BY <1>1, <2>2, <2>3
<1> QED
  BY <1>2, <1>3

(* An entry more takes nothing away.                                        *)
LEMMA OneMore ==
  ASSUME NEW s \in Seq(DmarEntry), NEW x \in DmarEntry
  PROVE  /\ Append(s, x) \in Seq(DmarEntry) /\ Len(Append(s, x)) = Len(s) + 1
         /\ Append(s, x)[Len(s) + 1] = x
         /\ \A k \in 1..Len(s) : Append(s, x)[k] = s[k]
OBVIOUS

LEMMA StillHas ==
  ASSUME NEW s \in Seq(DmarEntry), NEW x \in DmarEntry, NEW who, NEW base, Has(s, who, base)
  PROVE  Has(Append(s, x), who, base)
<1>1. PICK k \in 1..Len(s) : s[k] = [type |-> "rmrr", who |-> who, base |-> base]
  BY DEF Has
<1>2. k \in 1..Len(Append(s, x)) /\ Append(s, x)[k] = s[k]
  BY OneMore
<1> QED
  BY <1>1, <1>2 DEF Has

LEMMA HasNow ==
  ASSUME NEW s \in Seq(DmarEntry), NEW who, NEW base,
         [type |-> "rmrr", who |-> who, base |-> base] \in DmarEntry
  PROVE  Has(Append(s, [type |-> "rmrr", who |-> who, base |-> base]), who, base)
<1> DEFINE x == [type |-> "rmrr", who |-> who, base |-> base]
<1>1. Len(s) + 1 \in 1..Len(Append(s, x)) /\ Append(s, x)[Len(s) + 1] = x
  BY OneMore
<1> QED
  BY <1>1 DEF Has
-----------------------------------------------------------------------------
(* Commands and tables, with what Types says of them.                       *)
LEMMA CmdIs ==
  ASSUME Types
  PROVE  /\ Cmd \in Command /\ Cmd.fix \in Seq(Fixup)
         /\ Cmd.add \in Seq(Extra)
         /\ Len(Cmd.fix) \in Nat /\ Len(Cmd.add) \in Nat
         /\ \A a \in 1..Len(Cmd.add) : Cmd.add[a].base \in Regions
<1>1. Cmd \in Command
  BY DEF Types, Cmd
<1>2. /\ Cmd.fix \in Seq(Fixup)
      /\ Cmd.add \in Seq(Extra)
  BY <1>1 DEF Command
<1>3. Len(Cmd.fix) \in Nat /\ Len(Cmd.add) \in Nat
  BY <1>2
<1>4. \A a \in 1..Len(Cmd.add) : Cmd.add[a] \in Extra
  BY <1>2
<1> QED
  BY <1>1, <1>2, <1>3, <1>4 DEF Extra

LEMMA DmarIs ==
  ASSUME Types, Slot, Started
  PROVE  /\ ptr \in 1..Len(rsdt.list) /\ Dmar \in 1..Len(tables) /\ Len(tables) \in Nat
         /\ Len(rsdt.list) \in Nat
         /\ tables[Dmar] \in AcpiTable /\ tables[Dmar].sig = "DMAR"
         /\ Entries \in Seq(DmarEntry) /\ Len(Entries) \in Nat
<1>1. ptr \in 1..Len(rsdt.list) /\ tables[Dmar].sig = "DMAR"
  BY DEF Slot, Started
<1>2. /\ Dmar \in 1..Len(tables) /\ Len(tables) \in Nat /\ Len(rsdt.list) \in Nat
      /\ tables[Dmar] \in AcpiTable
  BY <1>1 DEF Types, Dmar, Rsdt
<1>3. Entries \in Seq(DmarEntry)
  BY <1>2 DEF AcpiTable, Entries
<1> QED
  BY <1>1, <1>2, <1>3

LEMMA InvInit == Init => IInv
<1> SUFFICES ASSUME Init PROVE IInv
  OBVIOUS
<1>1. PICK f \in Firmwares : rev2 = f.rev2 /\ tables = f.tables /\ rsdt = f.rsdt /\ xsdt = f.xsdt
  BY DEF Init
<1>2. Types
  <2>1. /\ f \in [rev2 : BOOLEAN, tables : Seq(AcpiTable), rsdt : Rsdt, xsdt : Xsdt]
        /\ \A k \in 1..Len(f.rsdt.list) : f.rsdt.list[k] \in 1..Len(f.tables)
        /\ \A k \in 1..Len(f.xsdt.list) : f.xsdt.list[k].tab \in 1..Len(f.tables)
    BY FirmwareAssumption
  <2>2. IsBus(pci) /\ cmds \in Seq(Command) /\ Len(cmds) > 0
    BY BusAssumption, CmdAssumption DEF Init
  <2>3. stage \in 1..Len(cmds) /\ pc \in PCs /\ bdf \in Address /\ rest \in SUBSET RootBus(pci)
    BY <2>2 DEF Init, PCs, Address
  <2> QED
    BY <1>1, <2>1, <2>2, <2>3 DEF Init, Types
<1>3. Slot /\ Counts /\ Space /\ Changed /\ AddedSoFar /\ Source
  BY DEF Init, Slot, Counts, Space, Changed, AddedSoFar, Source, Working, Adding, Bridging,
         Leaves, Started
<1>4. Sums
  BY <1>1, FirmwareAssumption DEF Init, Sums
<1> QED
  BY <1>2, <1>3, <1>4 DEF IInv

(* The walk: one entry is looked at, and perhaps changed.                   *)
LEMMA Walking ==
  ASSUME IInv, pc = "walk", e <= Len(Entries), e' = e + 1,
         UNCHANGED <<input, rsdt, xsdt, stage, pc, ptr, addVars>>,
         NEW x \in DmarEntry, Repaired(Cmd, x),
         SetEntry(x) \/ (x = AtEntry /\ UNCHANGED tables)
  PROVE  IInv'
<1>1. /\ rev2' = rev2 /\ pci' = pci /\ cmds' = cmds /\ rsdt' = rsdt /\ xsdt' = xsdt
      /\ stage' = stage /\ pc' = "walk" /\ ptr' = ptr /\ new' = new /\ room' = room
      /\ adding' = adding /\ bdf' = bdf /\ cap' = cap /\ rest' = rest
      /\ Dmar' = Dmar /\ Cmd' = Cmd
  BY DEF input, addVars, Dmar, Cmd
<1>2. /\ Types /\ Slot /\ Started
      /\ ptr \in 1..Len(rsdt.list) /\ Dmar \in 1..Len(tables)
      /\ tables[Dmar].sig = "DMAR" /\ tables[Dmar] \in AcpiTable
      /\ Entries \in Seq(DmarEntry) /\ e \in 1..Len(Entries) /\ Len(tables) \in Nat
      /\ Len(rsdt.list) \in Nat
  BY DmarIs DEF IInv, Types, Slot, Started, Working
<1>3. /\ tables' \in Seq(AcpiTable) /\ Len(tables') = Len(tables)
      /\ \A t \in 1..Len(tables) :
           /\ t # Dmar => tables'[t] = tables[t]
           /\ tables'[t].sig = tables[t].sig /\ tables'[t].broken = tables[t].broken
           /\ Len(tables'[t].entries) = Len(tables[t].entries)
      /\ Entries' \in Seq(DmarEntry) /\ Len(Entries') = Len(Entries)
      /\ \A k \in 1..Len(Entries) : Entries'[k] = IF k = e THEN x ELSE Entries[k]
  <2>1. CASE SetEntry(x)
    <3> DEFINE s == [Entries EXCEPT ![e] = x]
    <3>1. s \in Seq(DmarEntry) /\ Len(s) = Len(Entries)
          /\ \A k \in 1..Len(Entries) : s[k] = IF k = e THEN x ELSE Entries[k]
      BY <1>2
    <3>2. tables' = [tables EXCEPT ![Dmar] = [tables[Dmar] EXCEPT !.entries = s, !.ok = FALSE]]
      BY <1>2, <2>1 DEF SetEntry, Entries, Types, AcpiTable
    <3> HIDE DEF s
    <3>3. [tables[Dmar] EXCEPT !.entries = s, !.ok = FALSE] \in AcpiTable
      BY <1>2, <3>1 DEF AcpiTable
    <3>4. tables \in Seq(AcpiTable) /\ \A t \in 1..Len(tables) : tables[t] \in AcpiTable
      BY <1>2 DEF Types
    <3>5. tables' \in Seq(AcpiTable) /\ Len(tables') = Len(tables)
      BY <1>2, <3>2, <3>3, <3>4
    <3>6. Entries' = s
      BY <1>1, <1>2, <3>2, <3>4 DEF Entries, AcpiTable
    <3>7. \A t \in 1..Len(tables) :
            /\ t # Dmar => tables'[t] = tables[t]
            /\ tables'[t].sig = tables[t].sig /\ tables'[t].broken = tables[t].broken
            /\ Len(tables'[t].entries) = Len(tables[t].entries)
      BY <1>2, <3>1, <3>2, <3>4 DEF AcpiTable, Entries
    <3> QED
      BY <3>1, <3>5, <3>6, <3>7
  <2>2. CASE x = AtEntry /\ UNCHANGED tables
    BY <1>1, <1>2, <2>2 DEF Types, Entries, AtEntry
  <2> QED
    BY <2>1, <2>2
<1>4. Types'
  BY <1>1, <1>2, <1>3 DEF Types
<1>5. Slot'
  <2>1. \A j \in 1..(ptr - 1) : rsdt.list[j] # Dmar /\ ~IsDmar(tables, rsdt.list[j])
    BY <1>2 DEF Slot, Started
  <2>2. \A j \in 1..(ptr - 1) : rsdt.list[j] \in 1..Len(tables)
    BY <1>2 DEF Types
  <2>3. \A j \in 1..(ptr - 1) : ~IsDmar(tables', rsdt.list[j])
    BY <1>3, <2>1, <2>2 DEF IsDmar
  <2>4. ptr # 0 /\ tables'[Dmar].sig = "DMAR"
    BY <1>2, <1>3
  <2> QED
    BY <1>1, <1>2, <2>1, <2>3, <2>4 DEF Slot, Working, Adding, Bridging, Unsummed, Leaves
<1>6. Sums'
  BY <1>1, <1>3 DEF IInv, Sums, Unsummed
<1>7. Counts' /\ AddedSoFar' /\ Source'
  BY <1>1 DEF Counts, AddedSoFar, Source, Adding, Bridging
<1>8. Space'
  <2>1. Owed = 0 /\ Owed' = 0
    BY <1>1 DEF Owed, Bridging
  <2> QED
    BY <1>1, <1>3, <2>1 DEF IInv, Space
<1>9. Changed'
  <2>1. \A k \in 1..Len(Entries) : k < e => Repaired(Cmd, Entries[k])
    BY <1>2 DEF IInv, Changed
  <2> QED
    BY <1>1, <1>2, <1>3, <2>1 DEF Changed
<1> QED
  BY <1>4, <1>5, <1>6, <1>7, <1>8, <1>9 DEF IInv

LEMMA UnitStep == IInv /\ WalkUnit => IInv'
<1> SUFFICES ASSUME IInv, WalkUnit PROVE IInv'
  OBVIOUS
<1> DEFINE x == IF AtEntry.who \in Cmd.disable THEN [AtEntry EXCEPT !.type = "invalid"] ELSE AtEntry
<1>1. AtEntry \in DmarEntry /\ AtEntry.type = "unit"
  <2>1. Entries \in Seq(DmarEntry) /\ e \in 1..Len(Entries)
    BY DmarIs DEF IInv, Types, Started, Working, WalkUnit, Walks, Entries
  <2> QED
    BY <2>1 DEF WalkUnit, Walks, AtEntry, Entries
<1>2. x \in DmarEntry /\ Repaired(Cmd, x)
  BY <1>1 DEF DmarEntry, Repaired
<1>3. SetEntry(x) \/ (x = AtEntry /\ UNCHANGED tables)
  BY DEF WalkUnit
<1> HIDE DEF x
<1> QED
  BY <1>2, <1>3, Walking DEF WalkUnit, Walks, Entries

LEMMA RmrrStep == IInv /\ WalkRmrr => IInv'
<1> SUFFICES ASSUME IInv, WalkRmrr PROVE IInv'
  OBVIOUS
<1> DEFINE k == FixFor(Cmd, AtEntry.who)
           x == IF k # 0 THEN [AtEntry EXCEPT !.base = Cmd.fix[k].base] ELSE AtEntry
<1>1. AtEntry \in DmarEntry /\ AtEntry.type = "rmrr"
  <2>1. Entries \in Seq(DmarEntry) /\ e \in 1..Len(Entries)
    BY DmarIs DEF IInv, Types, Started, Working, WalkRmrr, Walks, Entries
  <2> QED
    BY <2>1 DEF WalkRmrr, Walks, AtEntry, Entries
<1>2. Cmd.fix \in Seq(Fixup) /\ k \in 0..Len(Cmd.fix)
  BY CmdIs, FixForIs DEF IInv
<1>3. k # 0 => Cmd.fix[k].base \in Regions
  <2>1. k # 0 => Cmd.fix[k] \in Fixup
    BY <1>2
  <2> QED
    BY <2>1 DEF Fixup
<1>4. x.who = AtEntry.who /\ x.type = "rmrr"
  BY <1>1 DEF DmarEntry
<1>5. k # 0 => x.base = Cmd.fix[k].base
  BY <1>1 DEF DmarEntry
<1>6. x \in DmarEntry
  BY <1>1, <1>3 DEF DmarEntry
<1>7. SetEntry(x) \/ (x = AtEntry /\ UNCHANGED tables)
  BY DEF WalkRmrr
<1> HIDE DEF x
<1>8. Repaired(Cmd, x)
  BY <1>4, <1>5 DEF Repaired
<1> QED
  BY <1>6, <1>7, <1>8, Walking DEF WalkRmrr, Walks, Entries

LEMMA OtherStep == IInv /\ WalkOther => IInv'
<1> SUFFICES ASSUME IInv, WalkOther PROVE IInv'
  OBVIOUS
<1>1. AtEntry \in DmarEntry /\ AtEntry.type = "invalid"
  <2>1. Entries \in Seq(DmarEntry) /\ e \in 1..Len(Entries)
    BY DmarIs DEF IInv, Types, Started, Working, WalkOther, Walks, Entries
  <2> QED
    BY <2>1 DEF WalkOther, Walks, AtEntry, Entries
<1>2. Repaired(Cmd, AtEntry)
  BY <1>1 DEF Repaired
<1> QED
  BY <1>1, <1>2, Walking DEF WalkOther, Walks, Entries

(* A right checksum is put into the table at hand.                          *)
LEMMA Summed ==
  ASSUME Types, Slot, Started, UNCHANGED <<rsdt, ptr>>,
         tables' = [tables EXCEPT ![Dmar].ok = TRUE]
  PROVE  /\ tables' \in Seq(AcpiTable) /\ Len(tables') = Len(tables) /\ Dmar' = Dmar
         /\ \A t \in 1..Len(tables) :
              /\ t # Dmar => tables'[t] = tables[t]
              /\ tables'[t].sig = tables[t].sig /\ tables'[t].broken = tables[t].broken
              /\ tables'[t].entries = tables[t].entries
         /\ tables'[Dmar].ok /\ Entries' = Entries
<1>1. /\ Dmar \in 1..Len(tables) /\ tables[Dmar] \in AcpiTable /\ Len(tables) \in Nat
      /\ tables \in Seq(AcpiTable) /\ Dmar' = Dmar
  BY DmarIs DEF Types, Dmar
<1>2. tables' = [tables EXCEPT ![Dmar] = [tables[Dmar] EXCEPT !.ok = TRUE]]
  OBVIOUS
<1>3. [tables[Dmar] EXCEPT !.ok = TRUE] \in AcpiTable
  BY <1>1 DEF AcpiTable
<1>4. tables' \in Seq(AcpiTable) /\ Len(tables') = Len(tables)
  BY <1>1, <1>2, <1>3
<1>5. \A t \in 1..Len(tables) :
        /\ t # Dmar => tables'[t] = tables[t]
        /\ tables'[t].sig = tables[t].sig /\ tables'[t].broken = tables[t].broken
        /\ tables'[t].entries = tables[t].entries
  BY <1>1, <1>2 DEF AcpiTable
<1>6. tables'[Dmar].ok
  BY <1>1, <1>2 DEF AcpiTable
<1> QED
  BY <1>1, <1>4, <1>5, <1>6 DEF Entries

LEMMA FindStep == IInv /\ FindDmar => IInv'
<1> SUFFICES ASSUME IInv, FindDmar PROVE IInv'
  OBVIOUS
<1>1. /\ rev2' = rev2 /\ pci' = pci /\ cmds' = cmds /\ tables' = tables /\ rsdt' = rsdt
      /\ xsdt' = xsdt /\ stage' = stage /\ new' = new /\ room' = room /\ adding' = adding
      /\ bdf' = bdf /\ cap' = cap /\ rest' = rest
      /\ pc = "find" /\ ptr' = GetTablePtr
      /\ \/ GetTablePtr = 0 /\ pc' = "next" /\ e' = e
         \/ GetTablePtr # 0 /\ pc' = "walk" /\ e' = 1
  BY DEF FindDmar, input, memory, addVars
<1>2. Types /\ Len(rsdt.list) \in Nat
  BY DEF IInv, Types, Rsdt
<1>3. \/ GetTablePtr = 0
      \/ /\ GetTablePtr \in 1..Len(rsdt.list)
         /\ IsDmar(tables, rsdt.list[GetTablePtr])
         /\ \A j \in 1..(GetTablePtr - 1) : ~IsDmar(tables, rsdt.list[j])
  BY <1>2, FirstDmarIs DEF GetTablePtr
<1>4. GetTablePtr \in Nat /\ GetTablePtr' = GetTablePtr
  BY <1>1, <1>2, <1>3 DEF GetTablePtr
<1>5. Types'
  BY <1>1, <1>2, <1>4 DEF Types, PCs, Working
<1>6. Slot'
  <2>1. CASE GetTablePtr = 0
    BY <1>1, <1>4, <2>1 DEF Slot, Working, Adding, Bridging
  <2>2. CASE GetTablePtr # 0
    <3>1. Dmar' = rsdt.list[GetTablePtr] /\ tables[Dmar'].sig = "DMAR"
      BY <1>1, <1>3, <2>2 DEF Dmar, IsDmar
    <3>2. \A j \in 1..(GetTablePtr - 1) :
            rsdt.list[j] # Dmar' /\ ~IsDmar(tables, rsdt.list[j])
      BY <1>3, <2>2, <3>1
    <3> QED
      BY <1>1, <1>3, <2>2, <3>1, <3>2 DEF Slot, Unsummed, Adding, Bridging, Leaves
  <2> QED
    BY <2>1, <2>2
<1>7. Sums'
  BY <1>1 DEF IInv, Sums, Unsummed, Adding, Bridging
<1>8. Counts' /\ AddedSoFar' /\ Source'
  BY <1>1 DEF Counts, AddedSoFar, Source, Started, Working, Leaves, Adding, Bridging
<1>9. Space'
  <2>1. Owed = 0 /\ Owed' = 0
    BY <1>1 DEF Owed, Bridging
  <2> QED
    BY <1>1, <2>1 DEF IInv, Space
<1>10. Changed'
  BY <1>1 DEF Changed, Started, Working, Leaves, Adding, Bridging
<1> QED
  BY <1>5, <1>6, <1>7, <1>8, <1>9, <1>10 DEF IInv

(* The checksum after the walk, or after the additions.                     *)
LEMMA Summing ==
  ASSUME IInv, UNCHANGED <<rev2, pci, cmds, rsdt, xsdt, stage, ptr, new, room, adding, bdf, cap, rest>>,
         e' \in Nat \ {0},
         tables' = [tables EXCEPT ![Dmar].ok = TRUE],
         \/ pc = "walk" /\ e > Len(Entries) /\ pc' = (IF Cmd.add = <<>> THEN "next" ELSE "dup")
         \/ pc = "device" /\ ~Addition /\ pc' = (IF rev2 THEN "xsdt" ELSE "next")
  PROVE  IInv'
<1>1. /\ rev2' = rev2 /\ pci' = pci /\ cmds' = cmds /\ rsdt' = rsdt /\ xsdt' = xsdt
      /\ stage' = stage /\ ptr' = ptr /\ new' = new /\ room' = room
      /\ adding' = adding /\ bdf' = bdf /\ cap' = cap /\ rest' = rest
      /\ Cmd' = Cmd
  BY DEF Cmd
<1>2. /\ Types /\ Slot /\ Started /\ Len(Cmd.add) \in Nat
      /\ ptr \in 1..Len(rsdt.list) /\ Dmar \in 1..Len(tables) /\ Len(rsdt.list) \in Nat
      /\ tables[Dmar].sig = "DMAR" /\ Len(tables) \in Nat
      /\ Entries \in Seq(DmarEntry) /\ Len(Entries) \in Nat
  BY DmarIs, CmdIs DEF IInv, Started, Working, Adding
<1>3. /\ tables' \in Seq(AcpiTable) /\ Len(tables') = Len(tables) /\ Dmar' = Dmar
      /\ \A t \in 1..Len(tables) :
           /\ t # Dmar => tables'[t] = tables[t]
           /\ tables'[t].sig = tables[t].sig /\ tables'[t].broken = tables[t].broken
           /\ tables'[t].entries = tables[t].entries
      /\ tables'[Dmar].ok /\ Entries' = Entries
  BY <1>1, <1>2, Summed
<1>4. /\ pc \in {"walk", "device"} /\ pc' \in {"next", "dup", "xsdt"}
      /\ pc \in Unsummed /\ pc' \notin Unsummed /\ pc' \notin Adding
  BY DEF Unsummed, Adding, Bridging
<1>5. Types'
  BY <1>1, <1>2, <1>3, <1>4 DEF Types, PCs, Working
<1>6. Slot'
  <2>1. \A j \in 1..(ptr - 1) : rsdt.list[j] # Dmar /\ ~IsDmar(tables, rsdt.list[j])
    BY <1>2 DEF Slot, Started
  <2>2. \A j \in 1..(ptr - 1) : rsdt.list[j] \in 1..Len(tables)
    BY <1>2, SMTT(30) DEF Types
  <2>3. \A j \in 1..(ptr - 1) : ~IsDmar(tables', rsdt.list[j])
    BY <1>3, <2>1, <2>2 DEF IsDmar
  <2>4. ptr # 0 /\ tables'[Dmar].sig = "DMAR"
    BY <1>2, <1>3
  <2>5. pc' = "xsdt" => new = Dmar
    BY <1>2 DEF Slot, Started, Adding
  <2> QED
    BY <1>1, <1>2, <1>3, <1>4, <2>1, <2>3, <2>4, <2>5 DEF Slot, Leaves
<1>7. Sums'
  BY <1>1, <1>3, <1>4 DEF IInv, Sums
<1>8. Counts' /\ Source'
  BY <1>4 DEF Counts, Source, Adding, Bridging
<1>9. Space'
  <2>1. Owed' = 0
    BY <1>4 DEF Owed, Bridging
  <2>2. Owed \in Nat
    <3>1. pc = "device" => adding <= Len(Cmd.add) + 1
      BY DEF IInv, Counts, Adding
    <3>2. CASE pc = "walk"
      BY <3>2 DEF Owed, Bridging
    <3>3. CASE pc = "device"
      <4>1. Owed = 2 * (Len(Cmd.add) - adding + 1) /\ adding \in Nat
        BY <1>2, <3>3 DEF Owed, Types, Bridging
      <4>2. Len(Cmd.add) \in Nat /\ adding <= Len(Cmd.add) + 1
        BY <1>2, <3>1, <3>3
      <4> QED
        BY <4>1, <4>2
    <3> QED
      BY <1>4, <3>2, <3>3
  <2>3. ASSUME new \in 1..Len(tables) PROVE Len(tables[new].entries) \in Nat
    <3>1. tables[new] \in AcpiTable
      BY <1>2, <2>3 DEF Types
    <3> QED
      BY <3>1 DEF AcpiTable
  <2> QED
    BY <1>1, <1>2, <1>3, <2>1, <2>2, <2>3 DEF IInv, Space, Types
<1>10. Changed'
  <2>1. \A k \in 1..Len(Entries) : Repaired(Cmd, Entries[k])
    <3>1. Changed /\ Started /\ (pc = "walk" => e > Len(Entries))
      BY <1>2, <1>4 DEF IInv
    <3> QED
      BY <1>2, <3>1 DEF Changed, Types
  <2> QED
    BY <1>1, <1>3, <2>1 DEF Changed
<1>11. AddedSoFar'
  <2>1. CASE pc = "walk"
    <3>1. pc' = "next" => Len(Cmd.add) = 0
      BY <2>1
    <3> QED
      BY <1>1, <1>2, <1>4, <2>1, <3>1 DEF AddedSoFar
  <2>2. CASE pc = "device"
    <3>1. \A a \in 1..Len(Cmd.add) : a < adding
      BY <1>2, <2>2 DEF Addition, Types
    <3> QED
      BY <1>1, <1>2, <1>3, <1>4, <2>2, <3>1 DEF IInv, AddedSoFar
  <2> QED
    BY <1>4, <2>1, <2>2
<1> QED
  BY <1>5, <1>6, <1>7, <1>8, <1>9, <1>10, <1>11 DEF IInv

LEMMA FixDmarStep == IInv /\ FixDmar => IInv'
<1> SUFFICES ASSUME IInv, FixDmar PROVE IInv'
  OBVIOUS
<1>1. e' \in Nat \ {0}
  BY DEF FixDmar, IInv, Types
<1> QED
  BY <1>1, Summing DEF FixDmar, Goto, input, addVars, Entries

LEMMA FixNewStep == IInv /\ FixNew => IInv'
<1> SUFFICES ASSUME IInv, FixNew PROVE IInv'
  OBVIOUS
<1>1. new = Dmar
  BY DEF FixNew, Goto, IInv, Slot, Working, Adding
<1> QED
  BY <1>1, Summing DEF FixNew, Goto, input, addVars

(* The table that is duplicated is the one that was walked.                 *)
LEMMA DupFinds ==
  ASSUME IInv, pc = "dup"
  PROVE  GetTablePtr = ptr
<1>1. /\ ptr \in 1..Len(rsdt.list) /\ Len(rsdt.list) \in Nat /\ IsDmar(tables, rsdt.list[ptr])
      /\ \A j \in 1..(ptr - 1) : ~IsDmar(tables, rsdt.list[j])
  BY DmarIs DEF IInv, Slot, Started, Working, Unsummed, Adding, Bridging, IsDmar, Dmar
<1> QED
  BY <1>1, FirstDmarAt DEF GetTablePtr

LEMMA DupStep == IInv /\ Dup => IInv'
<1> SUFFICES ASSUME IInv, Dup PROVE IInv'
  OBVIOUS
<1>1. /\ rev2' = rev2 /\ pci' = pci /\ cmds' = cmds /\ xsdt' = xsdt /\ stage' = stage
      /\ ptr' = ptr /\ e' = e /\ bdf' = bdf /\ cap' = cap /\ rest' = rest
      /\ adding' = 1 /\ pc = "dup" /\ Cmd' = Cmd
  BY DEF Dup, Goto, input, Cmd
<1>2. /\ Types /\ Slot /\ Started /\ Len(Cmd.add) \in Nat
      /\ ptr \in 1..Len(rsdt.list) /\ Dmar \in 1..Len(tables) /\ Len(rsdt.list) \in Nat
      /\ tables[Dmar].sig = "DMAR" /\ Len(tables) \in Nat /\ tables[Dmar] \in AcpiTable
      /\ Entries \in Seq(DmarEntry) /\ Len(Entries) \in Nat
  BY <1>1, DmarIs, CmdIs DEF IInv, Started, Working
<1>3. CASE pc' = "exit"
  <2>1. tables' = tables /\ new' = new /\ rsdt' = rsdt /\ room' = room /\ Dmar' = Dmar
    BY <1>1, <1>3 DEF Dup, Goto, Dmar
  <2>2. Types'
    BY <1>1, <1>2, <1>3, <2>1 DEF Types, PCs
  <2>3. Slot' /\ Counts' /\ Changed' /\ AddedSoFar' /\ Source'
    BY <1>3 DEF Slot, Counts, Changed, AddedSoFar, Source, Started, Working, Adding, Bridging,
                Leaves
  <2>4. Sums'
    BY <1>1, <1>3, <2>1 DEF IInv, Sums
  <2>5. Owed = 0 /\ Owed' = 0
    BY <1>1, <1>3 DEF Owed, Bridging
  <2>6. Space'
    BY <1>1, <2>1, <2>5 DEF IInv, Space
  <2> QED
    BY <2>2, <2>3, <2>4, <2>6 DEF IInv
<1>4. CASE pc' = "device"
  <2>1. /\ tables' = Append(tables, tables[Dmar]) /\ new' = Len(tables) + 1
        /\ rsdt' = [list |-> [rsdt.list EXCEPT ![ptr] = new'], ok |-> TRUE]
        /\ room' = Len(Entries) + 2 * Len(Cmd.add)
    BY <1>1, <1>4, DupFinds DEF Dup, Goto, Dmar, Entries
  <2>2. /\ tables' \in Seq(AcpiTable) /\ Len(tables') = Len(tables) + 1
        /\ tables'[Len(tables) + 1] = tables[Dmar]
        /\ \A t \in 1..Len(tables) : tables'[t] = tables[t]
    BY <1>2, <2>1 DEF Types
  <2>3. /\ rsdt'.ok /\ rsdt'.list \in Seq(Nat) /\ Len(rsdt'.list) = Len(rsdt.list)
        /\ rsdt'.list[ptr] = new'
        /\ \A j \in 1..Len(rsdt.list) : j # ptr => rsdt'.list[j] = rsdt.list[j]
    <3>1. rsdt.list \in Seq(Nat) /\ ptr \in 1..Len(rsdt.list) /\ new' \in Nat
      BY <1>2, <2>1 DEF Types, Rsdt
    <3>2. rsdt'.list = [rsdt.list EXCEPT ![ptr] = new'] /\ rsdt'.ok
      BY <2>1
    <3> QED
      BY <3>1, <3>2
  <2>4. Dmar' = Len(tables) + 1 /\ Entries' = Entries
    BY <1>1, <2>1, <2>2, <2>3 DEF Dmar, Entries
  <2>5. Types'
    <3>1. rsdt' \in Rsdt
      BY <2>1, <2>3 DEF Rsdt
    <3>2. ASSUME NEW k \in 1..Len(rsdt.list) PROVE rsdt'.list[k] \in 1..Len(tables')
      <4>1. rsdt.list[k] \in 1..Len(tables)
        BY <1>2 DEF Types
      <4> QED
        BY <1>2, <2>1, <2>2, <2>3, <4>1, SMTT(30)
    <3>3. \A k \in 1..Len(xsdt.list) : xsdt.list[k].tab \in 1..Len(tables')
      BY <1>2, <2>2 DEF Types
    <3>4. new' \in Nat /\ room' \in Nat /\ adding' \in Nat \ {0} /\ pc' \in PCs
      BY <1>1, <1>2, <1>4, <2>1 DEF PCs, Working, Adding
    <3> QED
      BY <1>1, <1>2, <2>2, <2>3, <3>1, <3>2, <3>3, <3>4 DEF Types
  <2>6. Slot'
    <3>1. \A j \in 1..(ptr - 1) : ~IsDmar(tables, rsdt.list[j])
      BY <1>2 DEF Slot, Started
    <3>2. \A j \in 1..(ptr - 1) : rsdt.list[j] \in 1..Len(tables) /\ rsdt'.list[j] = rsdt.list[j]
      <4>1. \A j \in 1..(ptr - 1) : j \in 1..Len(rsdt.list) /\ j # ptr
        BY <1>2
      <4>2. \A j \in 1..Len(rsdt.list) : rsdt.list[j] \in 1..Len(tables)
        BY <1>2 DEF Types
      <4> QED
        BY <2>3, <4>1, <4>2
    <3>3. \A j \in 1..(ptr - 1) : rsdt'.list[j] # Dmar' /\ ~IsDmar(tables', rsdt'.list[j])
      <4>1. \A t \in 1..Len(tables) : t # Len(tables) + 1 /\ tables'[t] = tables[t]
        BY <1>2, <2>2
      <4> QED
        BY <2>4, <3>1, <3>2, <4>1 DEF IsDmar
    <3> QED
      BY <1>1, <1>2, <1>4, <2>1, <2>2, <2>3, <2>4, <3>3 DEF Slot, Leaves, Unsummed, Adding
  <2>7. Sums'
    <3>1. \A t \in 1..Len(tables) : tables[t].ok \/ tables[t].broken
      BY <1>1 DEF IInv, Sums, Unsummed, Adding, Bridging
    <3>2. \A t \in 1..Len(tables') : tables'[t].ok \/ tables'[t].broken \/ t = Dmar'
      BY <1>2, <2>2, <2>4, <3>1
    <3>3. rsdt'.ok /\ xsdt'.ok /\ pc' \in Unsummed
      BY <1>1, <1>4, <2>3 DEF IInv, Sums, Unsummed, Adding
    <3> QED
      BY <3>2, <3>3 DEF Sums
  <2>8. Counts' /\ Source'
    BY <1>1, <1>2, <1>4 DEF Counts, Source, Adding, Bridging
  <2>9. Space'
    <3>1. Owed' = 2 * (Len(Cmd.add) - 1 + 1)
      BY <1>1, <1>4 DEF Owed, Bridging
    <3> QED
      BY <1>2, <2>1, <2>2, <3>1 DEF Space, Entries
  <2>10. Changed'
    BY <1>1, <1>2, <1>4, <2>4 DEF IInv, Changed
  <2>11. AddedSoFar'
    BY <1>1, <1>2, <1>4 DEF AddedSoFar, Adding
  <2> QED
    BY <2>5, <2>6, <2>7, <2>8, <2>9, <2>10, <2>11 DEF IInv
<1> QED
  BY <1>3, <1>4 DEF Dup, Goto

LEMMA XsdtStep == IInv /\ XsdtEntry => IInv'
<1> SUFFICES ASSUME IInv, XsdtEntry PROVE IInv'
  OBVIOUS
<1>1. /\ rev2' = rev2 /\ pci' = pci /\ cmds' = cmds /\ tables' = tables /\ rsdt' = rsdt
      /\ stage' = stage /\ pc = "xsdt" /\ pc' = pc /\ ptr' = ptr /\ new' = new /\ room' = room
      /\ adding' = adding /\ bdf' = bdf /\ cap' = cap /\ rest' = rest
      /\ Cmd' = Cmd /\ Dmar' = Dmar /\ Entries' = Entries /\ e' = e + 1
      /\ e \in 1..Len(xsdt.list)
  BY DEF XsdtEntry, input, addVars, Cmd, Dmar, Entries, IInv, Types
<1>2. /\ Types /\ new \in 1..Len(tables)
  BY <1>1, DmarIs DEF IInv, Slot, Started, Working
<1>3. /\ xsdt' \in Xsdt
      /\ \A k \in 1..Len(xsdt'.list) : xsdt'.list[k].tab \in 1..Len(tables)
  <2>1. CASE xsdt' = xsdt
    BY <1>2, <2>1 DEF Types
  <2>2. CASE xsdt' = [list |-> [xsdt.list EXCEPT ![e].tab = new], ok |-> FALSE]
    <3> DEFINE X == [tab : Nat, high : BOOLEAN]
    <3>1. xsdt.list \in Seq(X) /\ Len(xsdt.list) \in Nat
      BY <1>2 DEF Types, Xsdt
    <3>2. [xsdt.list[e] EXCEPT !.tab = new] \in X
      <4>1. xsdt.list[e] \in X /\ new \in Nat
        <5> HIDE DEF X
        <5> QED
          BY <1>1, <1>2, <3>1 DEF Types
      <4> QED
        BY <4>1
    <3>3. xsdt'.list = [xsdt.list EXCEPT ![e] = [xsdt.list[e] EXCEPT !.tab = new]]
      BY <2>2
    <3>4. xsdt'.list \in Seq(X) /\ Len(xsdt'.list) = Len(xsdt.list)
      BY <1>1, <3>1, <3>2, <3>3
    <3>5. xsdt' \in Xsdt
      BY <2>2, <3>4 DEF Xsdt
    <3>6. ASSUME NEW k \in 1..Len(xsdt.list) PROVE xsdt'.list[k].tab \in 1..Len(tables)
      <4>1. xsdt.list[e] \in X /\ k \in DOMAIN xsdt.list
        <5> HIDE DEF X
        <5> QED
          BY <1>1, <3>1
      <4>2. CASE k = e
        <5>1. xsdt'.list[k] = [xsdt.list[e] EXCEPT !.tab = new]
          BY <3>3, <4>1, <4>2, Zenon
        <5>2. [xsdt.list[e] EXCEPT !.tab = new].tab = new
          BY <4>1
        <5> QED
          BY <1>2, <5>1, <5>2
      <4>3. CASE k # e
        <5>1. xsdt'.list[k] = xsdt.list[k]
          BY <3>3, <4>1, <4>3, Zenon
        <5> QED
          BY <1>2, <5>1 DEF Types
      <4> QED
        BY <4>2, <4>3
    <3> QED
      BY <3>4, <3>5, <3>6
  <2> QED
    BY <2>1, <2>2 DEF XsdtEntry
<1>4. Types'
  BY <1>1, <1>2, <1>3 DEF Types
<1>5. Slot' /\ Sums' /\ Counts' /\ Changed' /\ AddedSoFar' /\ Source'
  BY <1>1 DEF IInv, Slot, Sums, Counts, Changed, AddedSoFar, Source, Started, Leaves, Working,
              Adding, Bridging, Unsummed
<1>6. Space'
  <2>1. Owed = 0 /\ Owed' = 0
    BY <1>1 DEF Owed, Bridging
  <2> QED
    BY <1>1, <2>1 DEF IInv, Space
<1> QED
  BY <1>4, <1>5, <1>6 DEF IInv

LEMMA FixXsdtStep == IInv /\ FixXsdt => IInv'
<1> SUFFICES ASSUME IInv, FixXsdt PROVE IInv'
  OBVIOUS
<1>1. /\ rev2' = rev2 /\ pci' = pci /\ cmds' = cmds /\ tables' = tables /\ rsdt' = rsdt
      /\ stage' = stage /\ pc = "xsdt" /\ pc' = "next" /\ ptr' = ptr /\ e' = e
      /\ new' = new /\ room' = room
      /\ adding' = adding /\ bdf' = bdf /\ cap' = cap /\ rest' = rest
      /\ Cmd' = Cmd /\ Dmar' = Dmar /\ Entries' = Entries
      /\ xsdt' = [xsdt EXCEPT !.ok = TRUE]
  BY DEF FixXsdt, Goto, input, addVars, Cmd, Dmar, Entries
<1>2. xsdt' \in Xsdt /\ xsdt'.list = xsdt.list /\ xsdt'.ok
  BY <1>1 DEF IInv, Types, Xsdt
<1>3. Types'
  BY <1>1, <1>2 DEF IInv, Types, PCs
<1>4. Slot' /\ Sums' /\ Counts' /\ Changed' /\ AddedSoFar' /\ Source'
  BY <1>1, <1>2 DEF IInv, Slot, Sums, Counts, Changed, AddedSoFar, Source, Started, Leaves,
                    Working, Adding, Bridging, Unsummed
<1>5. Space'
  <2>1. Owed = 0 /\ Owed' = 0
    BY <1>1 DEF Owed, Bridging
  <2> QED
    BY <1>1, <2>1 DEF IInv, Space
<1> QED
  BY <1>3, <1>4, <1>5 DEF IInv

LEMMA StartStep == IInv /\ StartNext => IInv'
<1> SUFFICES ASSUME IInv, StartNext PROVE IInv'
  OBVIOUS
<1>1. /\ rev2' = rev2 /\ pci' = pci /\ cmds' = cmds /\ tables' = tables /\ rsdt' = rsdt
      /\ xsdt' = xsdt /\ pc = "next"
  BY DEF StartNext, Goto, input, memory
<1>2. CASE pc' = "find"
  <2>1. /\ stage' = stage + 1 /\ stage < Len(cmds) /\ ptr' = 0 /\ e' = 1 /\ new' = 0 /\ room' = 0
        /\ adding' = 1 /\ bdf' = <<0, 0, 0>> /\ cap' = 0 /\ rest' = rest
    BY <1>2 DEF StartNext, Goto
  <2>2. Types'
    BY <1>1, <1>2, <2>1 DEF IInv, Types, PCs, Address
  <2>3. Slot' /\ Counts' /\ Space' /\ Changed' /\ AddedSoFar' /\ Source'
    BY <1>2, <2>1 DEF Slot, Counts, Space, Changed, AddedSoFar, Source, Started, Working, Adding,
                      Bridging, Leaves
  <2>4. Sums'
    BY <1>1, <1>2 DEF IInv, Sums, Unsummed, Adding, Bridging
  <2> QED
    BY <2>2, <2>3, <2>4 DEF IInv
<1>3. CASE pc' = "started"
  <2>1. /\ stage' = stage /\ ptr' = ptr /\ e' = e /\ new' = new /\ room' = room
        /\ adding' = adding /\ bdf' = bdf /\ cap' = cap /\ rest' = rest
        /\ Cmd' = Cmd /\ Dmar' = Dmar /\ Entries' = Entries /\ GetTablePtr' = GetTablePtr
    BY <1>1, <1>3 DEF StartNext, Goto, addVars, Cmd, Dmar, Entries, GetTablePtr
  <2>2. Types'
    BY <1>1, <1>3, <2>1 DEF IInv, Types, PCs
  <2>3. Slot' /\ Sums' /\ Counts' /\ Changed' /\ AddedSoFar' /\ Source'
    BY <1>1, <1>3, <2>1 DEF IInv, Slot, Sums, Counts, Changed, AddedSoFar, Source, Started,
                            Leaves, Working, Adding, Bridging, Unsummed
  <2>4. Owed = 0 /\ Owed' = 0
    BY <1>1, <1>3 DEF Owed, Bridging
  <2>5. Space'
    BY <1>1, <2>1, <2>4 DEF IInv, Space
  <2> QED
    BY <2>2, <2>3, <2>5 DEF IInv
<1> QED
  BY <1>2, <1>3 DEF StartNext, Goto
-----------------------------------------------------------------------------
(* The additions: the device and the bridge at hand.                        *)
LEMMA WantedIs ==
  ASSUME Types, Counts, pc \in Adding \ {"device"}
  PROVE  /\ Wanted \in pci /\ Wanted \in PciFunction /\ Wanted.at \in Address
         /\ Wanted.at[1] \in Nat
         /\ adding \in 1..Len(Cmd.add) /\ Len(Cmd.add) \in Nat
         /\ Cmd.add[adding].base \in Regions
<1>1. OfClass(pci, Cmd.add[adding].class) \in SUBSET pci
  BY DEF OfClass
<1>2. OfClass(pci, Cmd.add[adding].class) # {} /\ adding <= Len(Cmd.add)
  BY DEF Counts
<1>3. Wanted \in pci
  BY <1>1, <1>2, LastIsIn DEF Types, Wanted
<1>4. Wanted \in PciFunction
  BY <1>3 DEF Types, IsBus
<1>5. Wanted.at \in Address /\ Wanted.at[1] \in Nat
  <2>1. Wanted.at[1] \in 0..255
    BY <1>4, Numbers
  <2>2. Wanted.at \in Address
    BY <1>4 DEF PciFunction
  <2> QED
    BY <2>1, <2>2
<1>6. adding \in 1..Len(Cmd.add)
  BY <1>2, CmdIs DEF Types
<1> QED
  BY <1>3, <1>4, <1>5, <1>6, CmdIs

LEMMA DeviceIsWanted ==
  ASSUME IInv, pc = "deviceCap"
  PROVE  Device = Wanted
<1>1. Wanted \in pci /\ Wanted.at = bdf
  BY WantedIs DEF IInv, Source, Adding
<1>2. \A x \in pci : x.at = bdf => x = Wanted
  BY <1>1 DEF IInv, Types, IsBus
<1> QED
  BY <1>1, <1>2 DEF Device

LEMMA BridgeIs ==
  ASSUME Types, rest # {}
  PROVE  /\ AtBridge \in rest /\ AtBridge \in pci /\ AtBridge \in PciFunction
         /\ AtBridge.at \in Address /\ AtBridge.at[1] = 0 /\ AtBridge.sec \in 0..255
<1>1. rest \in SUBSET RootBus(pci) /\ RootBus(pci) \in SUBSET pci
  BY DEF Types, RootBus
<1>2. AtBridge \in rest
  <2>1. rest \in SUBSET pci
    BY <1>1
  <2> QED
    BY <2>1, FirstIsIn DEF Types, AtBridge
<1>3. AtBridge \in pci /\ AtBridge.at[1] = 0
  BY <1>1, <1>2 DEF RootBus
<1>4. AtBridge \in PciFunction
  BY <1>3 DEF Types, IsBus
<1> QED
  BY <1>2, <1>3, <1>4 DEF PciFunction

(* Steps that leave the tables alone.                                       *)
LEMMA Quiet ==
  ASSUME IInv, pc \in Adding, pc' \in Adding,
         UNCHANGED <<rev2, pci, cmds, tables, rsdt, xsdt, stage, ptr, e, new, room, adding>>
  PROVE  Slot' /\ Sums' /\ Changed' /\ AddedSoFar'
<1>1. /\ pci' = pci /\ tables' = tables /\ rsdt' = rsdt /\ xsdt' = xsdt /\ ptr' = ptr /\ e' = e
      /\ new' = new /\ adding' = adding /\ Cmd' = Cmd /\ Dmar' = Dmar /\ Entries' = Entries
  BY DEF Cmd, Dmar, Entries
<1>2. /\ pc \in Working /\ pc' \in Working /\ pc \in Unsummed /\ pc' \in Unsummed
      /\ pc \notin {"walk", "dup", "xsdt", "exit", "next", "started"}
      /\ pc' \notin {"walk", "dup", "xsdt", "exit", "next", "started"}
  BY DEF Working, Unsummed, Adding, Bridging
<1>3. Slot'
  BY <1>1, <1>2 DEF IInv, Slot, Leaves
<1>4. Sums'
  BY <1>1, <1>2 DEF IInv, Sums
<1>5. Changed' /\ AddedSoFar'
  BY <1>1, <1>2 DEF IInv, Changed, AddedSoFar, Started
<1> QED
  BY <1>3, <1>4, <1>5

LEMMA QuietSpace ==
  ASSUME IInv, UNCHANGED <<pci, tables, new, room>>, Owed' \in Int, Owed \in Int, Owed' <= Owed
  PROVE  Space'
<1> SUFFICES ASSUME Configured(pci), new # 0
             PROVE  new \in 1..Len(tables) /\ Len(tables[new].entries) + Owed' <= room
  BY DEF Space
<1>1. new \in 1..Len(tables) /\ Len(tables[new].entries) + Owed <= room /\ room \in Nat
  BY DEF IInv, Space, Types
<1>2. tables[new] \in AcpiTable
  BY <1>1 DEF IInv, Types
<1>3. Len(tables[new].entries) \in Nat
  BY <1>2 DEF AcpiTable
<1> QED
  BY <1>1, <1>3

LEMMA DeviceStep == IInv /\ FindDevice => IInv'
<1> SUFFICES ASSUME IInv, FindDevice PROVE IInv'
  OBVIOUS
<1> DEFINE S == OfClass(pci, Cmd.add[adding].class)
<1>1. /\ rev2' = rev2 /\ pci' = pci /\ cmds' = cmds /\ tables' = tables /\ rsdt' = rsdt
      /\ xsdt' = xsdt /\ stage' = stage /\ pc = "device" /\ ptr' = ptr /\ e' = e
      /\ new' = new /\ room' = room /\ adding' = adding /\ rest' = rest
      /\ Cmd' = Cmd /\ Dmar' = Dmar /\ Addition
  BY DEF FindDevice, input, memory, Cmd, Dmar
<1>2. /\ Types /\ adding \in 1..Len(Cmd.add) /\ Len(Cmd.add) \in Nat
      /\ Owed = 2 * (Len(Cmd.add) - adding + 1) /\ Owed \in Nat
  <2>1. Types /\ adding \in 1..Len(Cmd.add) /\ Len(Cmd.add) \in Nat
    BY <1>1, CmdIs DEF IInv, Types, Addition
  <2>2. Owed = 2 * (Len(Cmd.add) - adding + 1)
    BY <1>1 DEF Owed, Bridging
  <2> QED
    BY <2>1, <2>2
<1>3. CASE S = {}
  <2>1. pc' = "exit" /\ bdf' = bdf /\ cap' = cap
    BY <1>3 DEF FindDevice
  <2>2. Types'
    BY <1>1, <1>2, <2>1 DEF Types, PCs
  <2>3. Slot' /\ Counts' /\ Changed' /\ AddedSoFar' /\ Source'
    BY <2>1 DEF Slot, Counts, Changed, AddedSoFar, Source, Started, Working, Adding, Bridging,
                Leaves
  <2>4. Sums'
    BY <1>1, <2>1 DEF IInv, Sums
  <2>5. Owed' = 0
    BY <2>1 DEF Owed, Bridging
  <2>6. Space'
    BY <1>1, <1>2, <2>5, QuietSpace
  <2> QED
    BY <2>2, <2>3, <2>4, <2>6 DEF IInv
<1>4. CASE S # {}
  <2>1. pc' = "deviceCap" /\ bdf' = LastOf(S).at /\ cap' = FirstCap(LastOf(S))
    BY <1>4 DEF FindDevice
  <2>2. Counts'
    BY <1>1, <1>2, <1>4, <2>1 DEF Counts, Adding
  <2>3. LastOf(S) \in pci
    <3>1. S \in SUBSET pci
      BY DEF OfClass
    <3> HIDE DEF S
    <3> QED
      BY <1>2, <1>4, <3>1, LastIsIn DEF Types
  <2>4. OnList(LastOf(S), FirstCap(LastOf(S))) /\ Len(LastOf(S).caps) \in Nat
    BY <1>2, <2>3, ListStarts DEF Types
  <2>5. LastOf(S).at \in Address /\ FirstCap(LastOf(S)) \in Nat
    BY <1>2, <2>3, <2>4 DEF Types, IsBus, PciFunction, OnList
  <2>6. Types'
    BY <1>1, <1>2, <2>1, <2>5 DEF Types, PCs, Working, Adding
  <2>7. Source'
    BY <1>1, <2>1, <2>4 DEF Source, Wanted, Bridging
  <2>8. Owed' = Owed
    BY <1>1, <1>2, <2>1 DEF Owed, Bridging
  <2>9. Space'
    BY <1>1, <1>2, <2>8, QuietSpace
  <2> QED
    BY <1>1, <2>1, <2>2, <2>6, <2>7, <2>9, Quiet DEF IInv, Adding
<1> QED
  BY <1>3, <1>4

(* One step along the capability list of function x.                        *)
LEMMA Following ==
  ASSUME IInv, pc \in {"deviceCap", "bridgeCap"}, NEW x \in pci, Follow(x), OnList(x, cap)
  PROVE  Types' /\ OnList(x, cap') /\ Slot' /\ Sums' /\ Changed' /\ AddedSoFar' /\ Counts' /\ Space'
<1>1. /\ rev2' = rev2 /\ pci' = pci /\ cmds' = cmds /\ tables' = tables /\ rsdt' = rsdt
      /\ xsdt' = xsdt /\ stage' = stage /\ pc' = pc /\ ptr' = ptr /\ e' = e
      /\ new' = new /\ room' = room /\ adding' = adding /\ bdf' = bdf /\ rest' = rest
      /\ Cmd' = Cmd /\ AtBridge' = AtBridge
      /\ cap # 0 /\ ~IsExp(x, cap) /\ cap' = NextCap(x, cap)
  BY DEF Follow, CapKnown, input, memory, Cmd, AtBridge
<1>2. Types /\ IsBus(pci)
  BY DEF IInv, Types
<1>3. OnList(x, cap') /\ cap' \in Nat
  <2>1. OnList(x, cap')
    BY <1>1, <1>2, ListGoesOn
  <2>2. Len(x.caps) \in Nat
    BY <1>2, ListStarts
  <2> QED
    BY <2>1, <2>2 DEF OnList
<1>4. Types'
  BY <1>1, <1>2, <1>3 DEF Types
<1>5. Slot' /\ Sums' /\ Changed' /\ AddedSoFar'
  BY <1>1, Quiet DEF Adding, Bridging
<1>6. Counts'
  BY <1>1 DEF IInv, Counts, Forwards
<1>7. Owed' = Owed
  BY <1>1 DEF Owed, Forwards
<1>8. Space'
  BY <1>1, <1>7 DEF IInv, Space
<1> QED
  BY <1>3, <1>4, <1>5, <1>6, <1>8

LEMMA DeviceCapStep == IInv /\ DeviceCap => IInv'
<1> SUFFICES ASSUME IInv, DeviceCap PROVE IInv'
  OBVIOUS
<1>1. /\ pc = "deviceCap" /\ Device = Wanted /\ Types /\ IsBus(pci)
      /\ bdf = Wanted.at /\ OnList(Wanted, cap)
  BY DeviceIsWanted DEF DeviceCap, IInv, Source, Types
<1>2. /\ Wanted \in pci /\ adding \in 1..Len(Cmd.add) /\ Len(Cmd.add) \in Nat
      /\ Wanted.at[1] \in Nat
  BY <1>1, WantedIs DEF IInv, Adding
<1>3. CASE Follow(Wanted)
  <2>1. Types' /\ OnList(Wanted, cap') /\ Slot' /\ Sums' /\ Changed' /\ AddedSoFar' /\ Counts'
        /\ Space'
    BY <1>1, <1>2, <1>3, Following
  <2>2. /\ Wanted' = Wanted /\ bdf' = bdf /\ pc' = pc
    BY <1>3 DEF Follow, Wanted, input, Cmd
  <2>3. Source'
    BY <1>1, <2>1, <2>2 DEF Source, Bridging
  <2> QED
    BY <2>1, <2>3 DEF IInv
<1>4. CASE ~Follow(Wanted)
  <2>1. /\ rev2' = rev2 /\ pci' = pci /\ cmds' = cmds /\ tables' = tables /\ rsdt' = rsdt
        /\ xsdt' = xsdt /\ stage' = stage /\ ptr' = ptr /\ e' = e
        /\ new' = new /\ room' = room /\ adding' = adding /\ bdf' = bdf /\ cap' = cap
        /\ Cmd' = Cmd /\ Wanted' = Wanted /\ Entries' = Entries
        /\ CapKnown(Wanted)
        /\ \/ cap = 0 /\ pc' = "bridges" /\ rest' = RootBus(pci)
           \/ cap # 0 /\ pc' = "add" /\ rest' = rest
    BY <1>1, <1>4 DEF DeviceCap, input, memory, Cmd, Wanted, Entries, Dmar
  <2>2. Types'
    BY <1>1, <2>1 DEF Types, PCs, Working, Adding, Bridging
  <2>3. Slot' /\ Sums' /\ Changed' /\ AddedSoFar'
    BY <1>1, <2>1, Quiet DEF Adding, Bridging
  <2>4. Counts'
    BY <1>1, <2>1 DEF IInv, Counts, Adding, Bridging
  <2>5. Space'
    <3>1. Owed = 2 * (Len(Cmd.add) - adding + 1)
      BY <1>1 DEF Owed, Bridging
    <3>2. Owed' \in {2 * (Len(Cmd.add) - adding) + 2, 2 * (Len(Cmd.add) - adding) + 1}
      BY <2>1 DEF Owed, Bridging
    <3>3. Owed \in Int /\ Owed' \in Int /\ Owed' <= Owed
      BY <1>2, <3>1, <3>2
    <3> QED
      BY <2>1, <3>3, QuietSpace
  <2>6. Source'
    <3>1. CASE cap = 0
      <4>1. Wanted.pcie = "none" /\ pc' = "bridges"
        BY <1>1, <1>2, <2>1, <3>1, ListEnds
      <4>2. ASSUME Configured(pci) PROVE BridgeMet'
        <5>1. \A b \in Above(pci, Wanted) : b \in RootBus(pci)
          BY <4>2 DEF Configured, Above, Bridges, RootBus
        <5> QED
          BY <1>1, <2>1, <3>1, <5>1 DEF BridgeMet
      <4> QED
        BY <2>1, <4>1, <4>2 DEF Source
    <3>2. CASE cap # 0
      <4>1. Wanted.pcie # "none" /\ pc' = "add"
        BY <1>1, <1>2, <2>1, <3>2, ListEnds DEF CapKnown
      <4>2. SourceIds(pci, Wanted) = {bdf}
        BY <1>1, <4>1, IdsWithoutBridge
      <4> QED
        BY <2>1, <4>1, <4>2 DEF Source, Bridging
    <3> QED
      BY <3>1, <3>2
  <2> QED
    BY <2>2, <2>3, <2>4, <2>5, <2>6 DEF IInv
<1> QED
  BY <1>3, <1>4

(* The bridge above the device, if firmware configured the bridges: once it *)
(* has been met no other one forwards the bus.                              *)
LEMMA ForwardsIsAbove ==
  ASSUME IInv, pc \in Bridging, Configured(pci), NEW x \in rest, Forwards(x)
  PROVE  /\ x \in Above(pci, Wanted) /\ bdf = Wanted.at
         /\ \A y \in Above(pci, Wanted) : y = x
<1>1. /\ Types /\ IsBus(pci) /\ Wanted.at[1] \in Nat
  BY WantedIs DEF IInv, Types, Adding, Bridging
<1>2. x \in pci /\ x.at[1] = 0 /\ x \in Bridges(pci)
  BY <1>1 DEF Types, RootBus, Forwards, Bridges
<1>3. x.sec \in Nat /\ x.sec >= 1
  BY <1>1, <1>2, BridgeRanges DEF Configured
<1>4. bdf = Wanted.at
  <2>1. ASSUME NEW b \in Above(pci, Wanted), bdf = b.at PROVE FALSE
    <3>1. b.at[1] = 0
      BY DEF Above, Bridges
    <3> QED
      BY <1>3, <2>1, <3>1 DEF Forwards
  <2> QED
    BY <2>1 DEF IInv, Source, BridgeMet
<1>5. x \in Above(pci, Wanted)
  BY <1>2, <1>4 DEF Forwards, Above
<1> QED
  BY <1>1, <1>4, <1>5, OneBridgeAbove

LEMMA BridgeStep == IInv /\ ScanBridge => IInv'
<1> SUFFICES ASSUME IInv, ScanBridge PROVE IInv'
  OBVIOUS
<1>1. /\ rev2' = rev2 /\ pci' = pci /\ cmds' = cmds /\ tables' = tables /\ rsdt' = rsdt
      /\ xsdt' = xsdt /\ stage' = stage /\ pc = "bridges" /\ rest # {} /\ ptr' = ptr /\ e' = e
      /\ new' = new /\ room' = room /\ adding' = adding /\ bdf' = bdf
      /\ Cmd' = Cmd /\ Wanted' = Wanted /\ Entries' = Entries
  BY DEF ScanBridge, input, memory, Cmd, Wanted, Entries, Dmar
<1>2. /\ Types /\ IsBus(pci) /\ AtBridge \in rest /\ AtBridge \in pci
      /\ adding \in 1..Len(Cmd.add) /\ Len(Cmd.add) \in Nat
  BY <1>1, BridgeIs, WantedIs DEF IInv, Types, Adding, Bridging
<1>3. CASE ~Forwards(AtBridge)
  <2>1. rest' = rest \ {AtBridge} /\ pc' = pc /\ cap' = cap
    BY <1>3 DEF ScanBridge
  <2>2. Types'
    BY <1>1, <1>2, <2>1 DEF Types
  <2>3. Slot' /\ Sums' /\ Changed' /\ AddedSoFar'
    BY <1>1, <2>1, Quiet DEF Adding, Bridging
  <2>4. Counts'
    BY <1>1, <2>1 DEF IInv, Counts
  <2>5. Space'
    <3>1. (\E x \in rest' : Forwards(x)') <=> (\E x \in rest : Forwards(x))
      BY <1>1, <1>3, <2>1 DEF Forwards
    <3>2. Owed' = Owed
      BY <1>1, <2>1, <3>1 DEF Owed
    <3> QED
      BY <1>1, <3>2 DEF IInv, Space
  <2>6. Source'
    <3>1. ASSUME Configured(pci) PROVE Wanted.pcie = "none" /\ BridgeMet'
      <4>1. Wanted.pcie = "none" /\ BridgeMet
        BY <1>1, <3>1 DEF IInv, Source, Bridging
      <4>2. CASE bdf = Wanted.at
        <5>1. AtBridge \notin Above(pci, Wanted)
          BY <1>3, <4>2 DEF Above, Bridges, Forwards
        <5> QED
          BY <1>1, <2>1, <4>1, <5>1 DEF BridgeMet, HasRegion
      <4>3. CASE bdf # Wanted.at
        BY <1>1, <2>1, <4>1, <4>3 DEF BridgeMet
      <4> QED
        BY <4>1, <4>2, <4>3
    <3> QED
      BY <1>1, <2>1, <3>1 DEF Source, Bridging
  <2> QED
    BY <2>2, <2>3, <2>4, <2>5, <2>6 DEF IInv
<1>4. CASE Forwards(AtBridge)
  <2>1. rest' = rest /\ pc' = "bridgeCap" /\ cap' = FirstCap(AtBridge) /\ AtBridge' = AtBridge
    BY <1>4 DEF ScanBridge, AtBridge
  <2>2. OnList(AtBridge, cap') /\ cap' \in Nat
    BY <1>2, <2>1, ListStarts DEF OnList
  <2>3. Types'
    BY <1>1, <1>2, <2>1, <2>2 DEF Types, PCs, Working, Adding, Bridging
  <2>4. Slot' /\ Sums' /\ Changed' /\ AddedSoFar'
    BY <1>1, <2>1, Quiet DEF Adding, Bridging
  <2>5. Counts'
    BY <1>1, <1>4, <2>1 DEF IInv, Counts, Adding, Bridging, Forwards
  <2>6. Space'
    <3>1. (\E x \in rest' : Forwards(x)') <=> (\E x \in rest : Forwards(x))
      BY <1>1, <2>1 DEF Forwards
    <3>2. Owed' = Owed
      BY <1>1, <2>1, <3>1 DEF Owed, Bridging
    <3> QED
      BY <1>1, <3>2 DEF IInv, Space
  <2>7. Source'
    <3>1. ASSUME Configured(pci) PROVE Wanted.pcie = "none" /\ BridgeMet'
      BY <1>1, <2>1, <3>1 DEF IInv, Source, Bridging, BridgeMet, HasRegion
    <3> QED
      BY <1>1, <2>1, <2>2, <3>1 DEF Source, Bridging
  <2> QED
    BY <2>3, <2>4, <2>5, <2>6, <2>7 DEF IInv
<1> QED
  BY <1>3, <1>4

LEMMA BridgeCapStep == IInv /\ BridgeCap => IInv'
<1> SUFFICES ASSUME IInv, BridgeCap PROVE IInv'
  OBVIOUS
<1>1. /\ pc = "bridgeCap" /\ Follow(AtBridge) /\ AtBridge \in pci /\ OnList(AtBridge, cap)
  BY BridgeIs DEF BridgeCap, IInv, Source, Counts
<1>2. Types' /\ OnList(AtBridge, cap') /\ Slot' /\ Sums' /\ Changed' /\ AddedSoFar' /\ Counts'
      /\ Space'
  BY <1>1, Following
<1>3. /\ pci' = pci /\ pc' = pc /\ bdf' = bdf /\ rest' = rest
      /\ Wanted' = Wanted /\ Entries' = Entries /\ AtBridge' = AtBridge
      /\ Cmd' = Cmd /\ adding' = adding
  BY <1>1 DEF Follow, input, memory, Wanted, Entries, AtBridge, Cmd, Dmar
<1>4. Source'
  BY <1>1, <1>2, <1>3 DEF IInv, Source, Bridging, BridgeMet, HasRegion
<1> QED
  BY <1>2, <1>4 DEF IInv

LEMMA ScannedStep == IInv /\ BridgesScanned => IInv'
<1> SUFFICES ASSUME IInv, BridgesScanned PROVE IInv'
  OBVIOUS
<1>1. /\ rev2' = rev2 /\ pci' = pci /\ cmds' = cmds /\ tables' = tables /\ rsdt' = rsdt
      /\ xsdt' = xsdt /\ stage' = stage /\ pc = "bridges" /\ pc' = "add" /\ rest = {}
      /\ ptr' = ptr /\ e' = e /\ rest' = rest /\ cap' = cap
      /\ new' = new /\ room' = room /\ adding' = adding /\ bdf' = bdf
      /\ Cmd' = Cmd /\ Wanted' = Wanted /\ Entries' = Entries
  BY DEF BridgesScanned, Goto, input, memory, addVars, Cmd, Wanted, Entries, Dmar
<1>2. Types'
  BY <1>1 DEF IInv, Types, PCs, Working, Adding
<1>3. Slot' /\ Sums' /\ Changed' /\ AddedSoFar'
  BY <1>1, Quiet DEF Adding, Bridging
<1>4. Counts'
  BY <1>1 DEF IInv, Counts, Adding, Bridging
<1>5. Space'
  <2>1. Owed' = 2 * (Len(Cmd.add) - adding) + 1 /\ Owed = 2 * (Len(Cmd.add) - adding) + 1
    BY <1>1 DEF Owed, Bridging
  <2> QED
    BY <1>1, <2>1 DEF IInv, Space
<1>6. Source'
  <2>1. ASSUME Configured(pci), NEW id \in SourceIds(pci, Wanted)
        PROVE  id = bdf \/ HasRegion(id)
    <3>1. Wanted.pcie = "none" /\ BridgeMet /\ Wanted.at[1] \in Nat /\ IsBus(pci)
      BY <1>1, <2>1, WantedIs DEF IInv, Source, Bridging, Adding, Types
    <3>2. CASE Above(pci, Wanted) = {}
      BY <2>1, <3>1, <3>2, IdsWithoutBridge DEF BridgeMet
    <3>3. ASSUME NEW b \in Above(pci, Wanted) PROVE id = bdf \/ HasRegion(id)
      <4>1. \A x \in Above(pci, Wanted) : x = b
        BY <2>1, <3>1, OneBridgeAbove
      <4>2. id \in IF b.pcie = "toPci" THEN {Wanted.at, <<b.sec, 0, 0>>} ELSE {b.at}
        BY <2>1, <3>1, IdsBelowBridge
      <4>3. \/ bdf = Wanted.at /\ b.pcie = "toPci" /\ HasRegion(<<b.sec, 0, 0>>)
            \/ b.pcie # "toPci" /\ bdf = b.at
        BY <1>1, <3>1, <4>1 DEF BridgeMet
      <4> QED
        BY <4>2, <4>3
    <3> QED
      BY <3>2, <3>3
  <2> QED
    BY <1>1, <2>1 DEF Source, Bridging, HasRegion
<1> QED
  BY <1>2, <1>3, <1>4, <1>5, <1>6 DEF IInv

(* One more entry for the addition at hand.                                 *)
NewEntry(who) == [type |-> "rmrr", who |-> who, base |-> Cmd.add[adding].base]

LEMMA Appending ==
  ASSUME IInv, pc \in Adding \ {"device"}, pc' \in Adding, NEW who \in Address, AddEntry(who),
         UNCHANGED <<pci, cmds, rsdt, stage, xsdt, ptr, new, room>>
  PROVE  /\ tables' \in Seq(AcpiTable) /\ Len(tables') = Len(tables)
         /\ Entries' = Append(Entries, NewEntry(who)) /\ Entries \in Seq(DmarEntry)
         /\ NewEntry(who) \in DmarEntry
         /\ Slot' /\ Sums' /\ Changed'
         /\ Configured(pci) =>
              new \in 1..Len(tables) /\ Len(tables'[new].entries) + Owed - 1 <= room
<1> DEFINE x == NewEntry(who)
           s == Append(Entries, x)
<1>1. /\ Types /\ Slot /\ Started /\ new = Dmar
      /\ pc \in Unsummed /\ pc \in Working /\ pc' \in Unsummed /\ pc' \in Working
      /\ pc \notin {"walk", "dup", "xsdt", "exit", "next", "started"}
      /\ pc' \notin {"walk", "dup", "xsdt", "exit", "next", "started"}
  BY DEF IInv, Slot, Started, Working, Unsummed, Adding, Bridging
<1>2. /\ ptr \in 1..Len(rsdt.list) /\ Dmar \in 1..Len(tables) /\ Len(tables) \in Nat
      /\ Len(rsdt.list) \in Nat
      /\ tables[Dmar] \in AcpiTable /\ tables[Dmar].sig = "DMAR"
      /\ Entries \in Seq(DmarEntry) /\ Len(Entries) \in Nat
  BY <1>1, DmarIs
<1>3. /\ adding \in 1..Len(Cmd.add) /\ Cmd.add[adding].base \in Regions
      /\ Len(Cmd.add) \in Nat
  BY <1>1, WantedIs DEF IInv
<1>4. x \in DmarEntry
  BY <1>3 DEF DmarEntry, NewEntry
<1>5. Repaired(Cmd, x)
  BY <1>3 DEF Repaired, NewEntry
<1>6. /\ s \in Seq(DmarEntry) /\ Len(s) = Len(Entries) + 1
      /\ s[Len(Entries) + 1] = x /\ \A k \in 1..Len(Entries) : s[k] = Entries[k]
  BY <1>2, <1>4, OneMore
<1>7. tables' = [tables EXCEPT ![Dmar] = [tables[Dmar] EXCEPT !.entries = s, !.ok = FALSE]]
  BY <1>1, <1>2 DEF AddEntry, NewEntry, Entries, Types, AcpiTable
<1> HIDE DEF s, x
<1>8. [tables[Dmar] EXCEPT !.entries = s, !.ok = FALSE] \in AcpiTable
  BY <1>2, <1>6 DEF AcpiTable
<1>9. tables \in Seq(AcpiTable) /\ \A t \in 1..Len(tables) : tables[t] \in AcpiTable
  BY <1>1 DEF Types
<1>10. tables' \in Seq(AcpiTable) /\ Len(tables') = Len(tables) /\ Dmar' = Dmar /\ Cmd' = Cmd
  BY <1>2, <1>7, <1>8, <1>9 DEF Dmar, Cmd
<1>11. Entries' = s
  BY <1>2, <1>7, <1>9, <1>10 DEF Entries, AcpiTable
<1>12. \A t \in 1..Len(tables) :
         /\ t # Dmar => tables'[t] = tables[t]
         /\ tables'[t].sig = tables[t].sig /\ tables'[t].broken = tables[t].broken
  BY <1>2, <1>7, <1>9 DEF AcpiTable
<1>13. Slot'
  <2>1. \A j \in 1..(ptr - 1) : rsdt.list[j] # Dmar /\ ~IsDmar(tables, rsdt.list[j])
    BY <1>1 DEF Slot, Started
  <2>2. \A j \in 1..(ptr - 1) : rsdt.list[j] \in 1..Len(tables)
    BY <1>1, <1>2 DEF Types
  <2>3. \A j \in 1..(ptr - 1) : ~IsDmar(tables', rsdt.list[j])
    BY <1>12, <2>1, <2>2 DEF IsDmar
  <2>4. ptr # 0 /\ tables'[Dmar].sig = "DMAR"
    BY <1>2, <1>12
  <2> QED
    BY <1>1, <1>2, <1>10, <2>1, <2>3, <2>4 DEF Slot, Leaves
<1>14. Sums'
  BY <1>1, <1>10, <1>12 DEF IInv, Sums
<1>15. Changed'
  <2>1. \A k \in 1..Len(Entries) : Repaired(Cmd, Entries[k])
    BY <1>1 DEF IInv, Changed
  <2>2. \A k \in 1..Len(s) : Repaired(Cmd, s[k])
    BY <1>2, <1>5, <1>6, <2>1
  <2> QED
    BY <1>10, <1>11, <2>2 DEF Changed
<1>16. Configured(pci) =>
         new \in 1..Len(tables) /\ Len(tables'[new].entries) + Owed - 1 <= room
  <2>1. Configured(pci) => Len(Entries) + Owed <= room
    BY <1>1, <1>2 DEF IInv, Space, Entries
  <2>2. Owed \in Int
    <3>1. pc = "deviceCap" => Owed = 2 * (Len(Cmd.add) - adding + 1)
      BY DEF Owed, Bridging
    <3>2. pc \in Bridging => Owed \in {2 * (Len(Cmd.add) - adding) + 2,
                                      2 * (Len(Cmd.add) - adding) + 1}
      BY DEF Owed, Bridging
    <3>3. pc = "add" => Owed = 2 * (Len(Cmd.add) - adding) + 1
      BY DEF Owed, Bridging
    <3> QED
      BY <1>3, <3>1, <3>2, <3>3 DEF Adding
  <2>3. tables'[new].entries = s /\ room \in Nat
    BY <1>1, <1>10, <1>11 DEF Entries, Types
  <2> QED
    BY <1>1, <1>2, <1>6, <2>1, <2>2, <2>3
<1> QED
  BY <1>2, <1>4, <1>10, <1>11, <1>13, <1>14, <1>15, <1>16 DEF s, x

LEMMA UseStep == IInv /\ UseBridge => IInv'
<1> SUFFICES ASSUME IInv, UseBridge PROVE IInv'
  OBVIOUS
<1>1. /\ rev2' = rev2 /\ pci' = pci /\ cmds' = cmds /\ rsdt' = rsdt
      /\ xsdt' = xsdt /\ stage' = stage /\ pc = "bridgeCap" /\ pc' = "bridges"
      /\ ptr' = ptr /\ e' = e /\ cap' = cap /\ rest' = rest \ {AtBridge}
      /\ new' = new /\ room' = room /\ adding' = adding
      /\ Cmd' = Cmd /\ Wanted' = Wanted
  BY DEF UseBridge, Goto, input, Cmd, Wanted
<1>2. /\ Types /\ IsBus(pci) /\ rest # {} /\ Forwards(AtBridge) /\ OnList(AtBridge, cap)
      /\ CapKnown(AtBridge)
  BY <1>1 DEF IInv, Types, Counts, Source, UseBridge
<1>3. /\ AtBridge \in rest /\ AtBridge \in pci /\ AtBridge.at \in Address
      /\ AtBridge.at[1] = 0 /\ AtBridge.sec \in 0..255
      /\ adding \in 1..Len(Cmd.add) /\ Len(Cmd.add) \in Nat
      /\ <<AtBridge.sec, 0, 0>> \in Address
  <2>1. /\ AtBridge \in rest /\ AtBridge \in pci /\ AtBridge.at \in Address
        /\ AtBridge.at[1] = 0 /\ AtBridge.sec \in 0..255
    BY <1>2, BridgeIs
  <2>2. adding \in 1..Len(Cmd.add) /\ Len(Cmd.add) \in Nat
    BY <1>1, WantedIs DEF IInv, Adding, Bridging
  <2>3. <<AtBridge.sec, 0, 0>> \in Address
    BY <2>1 DEF Address
  <2> QED
    BY <2>1, <2>2, <2>3
<1>4. Counts'
  BY <1>1 DEF IInv, Counts, Adding, Bridging
<1>5. ASSUME Configured(pci)
      PROVE  /\ Wanted.pcie = "none" /\ bdf = Wanted.at
             /\ AtBridge \in Above(pci, Wanted)
             /\ \A y \in Above(pci, Wanted) : y = AtBridge
  BY <1>1, <1>2, <1>3, <1>5, ForwardsIsAbove DEF IInv, Source, Bridging
<1>6. Owed = 2 * (Len(Cmd.add) - adding) + 2
  BY <1>1, <1>2, <1>3 DEF Owed, Bridging
<1>7. ASSUME Configured(pci), bdf' = bdf \/ bdf'[1] = 0
      PROVE  Owed' = 2 * (Len(Cmd.add) - adding) + 1
  <2>1. ASSUME NEW x \in rest', Forwards(x)' PROVE FALSE
    <3>1. x \in pci /\ x.at[1] = 0 /\ x # AtBridge /\ x.class = "bridge"
      BY <1>1, <1>2, <2>1 DEF Types, RootBus, Forwards
    <3>2. x \in Bridges(pci)
      BY <3>1 DEF Bridges
    <3>3. x.sec \in Nat /\ x.sec >= 1
      BY <1>2, <1>7, <3>2, BridgeRanges DEF Configured
    <3>4. CASE bdf' = bdf
      <4>1. x \in Above(pci, Wanted)
        BY <1>5, <1>7, <2>1, <3>2, <3>4 DEF Above, Forwards
      <4> QED
        BY <1>5, <1>7, <3>1, <4>1
    <3>5. CASE bdf'[1] = 0
      BY <2>1, <3>3, <3>5 DEF Forwards
    <3> QED
      BY <1>7, <3>4, <3>5
  <2> QED
    BY <1>1, <2>1 DEF Owed, Bridging
<1>8. CASE ToPci /\ AddEntry(<<AtBridge.sec, 0, 0>>) /\ bdf' = bdf
  <2> DEFINE id == <<AtBridge.sec, 0, 0>>
  <2>1. /\ tables' \in Seq(AcpiTable) /\ Len(tables') = Len(tables)
        /\ Entries' = Append(Entries, NewEntry(id)) /\ Entries \in Seq(DmarEntry)
        /\ NewEntry(id) \in DmarEntry
        /\ Slot' /\ Sums' /\ Changed'
        /\ Configured(pci) =>
             new \in 1..Len(tables) /\ Len(tables'[new].entries) + Owed - 1 <= room
    BY <1>1, <1>3, <1>8, Appending DEF Adding, Bridging
  <2>2. Types'
    BY <1>1, <1>2, <1>8, <2>1 DEF Types, PCs, Working, Adding, Bridging
  <2>3. Space'
    <3> SUFFICES ASSUME Configured(pci)
                 PROVE  new \in 1..Len(tables) /\ Len(tables'[new].entries) + Owed' <= room
      BY <1>1, <2>1 DEF Space
    <3>1. Owed' = Owed - 1
      BY <1>3, <1>6, <1>7, <1>8
    <3>2. Owed \in Int /\ Len(tables'[new].entries) \in Int
      <4>1. tables'[new] \in AcpiTable
        BY <2>1
      <4> QED
        BY <1>3, <1>6, <4>1 DEF AcpiTable
    <3> QED
      BY <2>1, <3>1, <3>2
  <2>4. AddedSoFar'
    <3>1. ASSUME Configured(pci), NEW a \in 1..Len(Cmd.add), a < adding
          PROVE  Added(pci, Cmd, a, Entries')
      <4>1. Added(pci, Cmd, a, Entries)
        BY <1>1, <3>1 DEF IInv, AddedSoFar, Started, Working, Adding, Bridging
      <4> QED
        BY <2>1, <4>1, StillHas DEF Added
    <3> QED
      BY <1>1, <3>1 DEF AddedSoFar, Adding, Bridging
  <2>5. Source'
    <3>1. ASSUME Configured(pci) PROVE BridgeMet'
      <4>1. AtBridge.pcie = "toPci"
        BY <1>2, <1>3, <1>8, ListEnds DEF ToPci
      <4>2. Has(Entries', id, Cmd.add[adding].base)
        BY <2>1, HasNow DEF NewEntry
      <4>3. ASSUME NEW b \in Above(pci, Wanted)
            PROVE  b.pcie = "toPci" /\ HasRegion(<<b.sec, 0, 0>>)'
        BY <1>1, <1>5, <3>1, <4>1, <4>2 DEF HasRegion
      <4> QED
        BY <1>1, <1>5, <1>8, <3>1, <4>3 DEF BridgeMet
    <3> QED
      BY <1>1, <1>5, <3>1 DEF Source, Bridging
  <2> QED
    BY <1>4, <2>1, <2>2, <2>3, <2>4, <2>5 DEF IInv
<1>9. CASE ~ToPci /\ bdf' = AtBridge.at /\ tables' = tables
  <2>1. Types'
    BY <1>1, <1>2, <1>3, <1>9 DEF Types, PCs, Working, Adding, Bridging
  <2>2. Slot' /\ Sums' /\ Changed' /\ AddedSoFar'
    BY <1>1, <1>9, Quiet DEF Adding, Bridging
  <2>3. Space'
    <3> SUFFICES ASSUME Configured(pci), new # 0
                 PROVE  new \in 1..Len(tables) /\ Len(tables[new].entries) + Owed' <= room
      BY <1>1, <1>9 DEF Space
    <3>1. Owed' = Owed - 1
      BY <1>3, <1>6, <1>7, <1>9
    <3>2. new \in 1..Len(tables) /\ Len(tables[new].entries) + Owed <= room
      BY DEF IInv, Space
    <3>3. Owed \in Int /\ Len(tables[new].entries) \in Int /\ room \in Int
      <4>1. tables[new] \in AcpiTable
        BY <1>2, <3>2 DEF Types
      <4> QED
        BY <1>2, <1>3, <1>6, <4>1 DEF AcpiTable, Types
    <3> QED
      BY <3>1, <3>2, <3>3
  <2>4. Source'
    <3>1. ASSUME Configured(pci) PROVE BridgeMet'
      <4>1. AtBridge.pcie # "toPci"
        BY <1>2, <1>3, <1>9, ListEnds DEF ToPci, CapKnown
      <4> QED
        BY <1>1, <1>5, <1>9, <3>1, <4>1 DEF BridgeMet
    <3> QED
      BY <1>1, <1>5, <3>1 DEF Source, Bridging
  <2> QED
    BY <1>4, <2>1, <2>2, <2>3, <2>4 DEF IInv
<1> QED
  BY <1>8, <1>9 DEF UseBridge

LEMMA AddStep == IInv /\ AddDevice => IInv'
<1> SUFFICES ASSUME IInv, AddDevice PROVE IInv'
  OBVIOUS
<1>1. /\ rev2' = rev2 /\ pci' = pci /\ cmds' = cmds /\ rsdt' = rsdt
      /\ xsdt' = xsdt /\ stage' = stage /\ pc = "add" /\ pc' = "device"
      /\ ptr' = ptr /\ e' = e /\ cap' = cap /\ rest' = rest /\ bdf' = bdf
      /\ new' = new /\ room' = room /\ adding' = adding + 1
      /\ Cmd' = Cmd /\ AddEntry(bdf)
  BY DEF AddDevice, Goto, input, Cmd
<1>2. /\ Types /\ bdf \in Address /\ adding \in 1..Len(Cmd.add) /\ Len(Cmd.add) \in Nat
  BY <1>1, WantedIs DEF IInv, Types, Adding
<1>3. /\ tables' \in Seq(AcpiTable) /\ Len(tables') = Len(tables)
      /\ Entries' = Append(Entries, NewEntry(bdf)) /\ Entries \in Seq(DmarEntry)
      /\ NewEntry(bdf) \in DmarEntry
      /\ Slot' /\ Sums' /\ Changed'
      /\ Configured(pci) =>
           new \in 1..Len(tables) /\ Len(tables'[new].entries) + Owed - 1 <= room
  BY <1>1, <1>2, Appending DEF Adding
<1>4. Types'
  BY <1>1, <1>2, <1>3 DEF Types, PCs, Working, Adding
<1>5. Counts' /\ Source'
  BY <1>1, <1>2 DEF Counts, Source, Adding, Bridging
<1>6. Space'
  <2> SUFFICES ASSUME Configured(pci)
               PROVE  new \in 1..Len(tables) /\ Len(tables'[new].entries) + Owed' <= room
    BY <1>1, <1>3 DEF Space
  <2>1. Owed = 2 * (Len(Cmd.add) - adding) + 1
    BY <1>1 DEF Owed, Bridging
  <2>2. Owed' = 2 * (Len(Cmd.add) - (adding + 1) + 1)
    BY <1>1 DEF Owed, Bridging
  <2>3. new \in 1..Len(tables) /\ tables'[new] \in AcpiTable /\ room \in Nat
    BY <1>2, <1>3 DEF Types
  <2>4. Len(tables'[new].entries) \in Nat
    BY <2>3 DEF AcpiTable
  <2>5. Owed' = Owed - 1 /\ Owed \in Int
    BY <1>2, <2>1, <2>2
  <2>6. Len(tables'[new].entries) + Owed - 1 <= room
    BY <1>3
  <2> QED
    BY <2>3, <2>4, <2>5, <2>6
<1>7. AddedSoFar'
  <2>1. ASSUME Configured(pci), NEW a \in 1..Len(Cmd.add), a < adding + 1
        PROVE  Added(pci, Cmd, a, Entries')
    <3>1. CASE a < adding
      <4>1. Added(pci, Cmd, a, Entries)
        BY <1>1, <2>1, <3>1 DEF IInv, AddedSoFar, Started, Working, Adding
      <4> QED
        BY <1>3, <4>1, StillHas DEF Added
    <3>2. CASE a = adding
      <4>1. \A id \in SourceIds(pci, Wanted) : id = bdf \/ Has(Entries, id, Cmd.add[a].base)
        BY <1>1, <2>1, <3>2 DEF IInv, Source, HasRegion
      <4>2. Has(Entries', bdf, Cmd.add[a].base)
        BY <1>3, <3>2, HasNow DEF NewEntry
      <4>3. \A id \in SourceIds(pci, Wanted) : Has(Entries', id, Cmd.add[a].base)
        BY <1>3, <4>1, <4>2, StillHas
      <4> QED
        BY <3>2, <4>3 DEF Added, Wanted
    <3> QED
      BY <1>2, <2>1, <3>1, <3>2
  <2> QED
    BY <1>1, <2>1 DEF AddedSoFar, Adding
<1> QED
  BY <1>3, <1>4, <1>5, <1>6, <1>7 DEF IInv

-----------------------------------------------------------------------------
LEMMA InvNext == IInv /\ [Next]_vars => IInv'
<1> SUFFICES ASSUME IInv, [Next]_vars PROVE IInv'
  OBVIOUS
<1>1. CASE UNCHANGED vars
  <2>1. /\ UNCHANGED <<rev2, pci, cmds, tables, rsdt, xsdt, stage, pc, ptr, e, new, room, adding,
                       bdf, cap, rest>>
    BY <1>1 DEF vars, input, memory, addVars
  <2>2. Types' /\ Slot' /\ Sums'
    BY <2>1 DEF IInv, Types, Slot, Sums, Dmar, GetTablePtr, Leaves
  <2>3. Counts' /\ Changed' /\ AddedSoFar'
    BY <2>1 DEF IInv, Counts, Changed, AddedSoFar, Started, Leaves, Cmd, Entries, Dmar, Forwards,
                AtBridge
  <2>4. Space'
    BY <2>1 DEF IInv, Space, Owed, Cmd, Forwards
  <2>5. Source'
    BY <2>1 DEF IInv, Source, Wanted, AtBridge, BridgeMet, HasRegion, Entries, Dmar, Cmd
  <2> QED
    BY <2>2, <2>3, <2>4, <2>5 DEF IInv
<1>2. CASE Next
  BY <1>2, FindStep, UnitStep, RmrrStep, OtherStep, FixDmarStep, DupStep, DeviceStep,
     DeviceCapStep, BridgeStep, BridgeCapStep, UseStep, ScannedStep, AddStep, FixNewStep,
     XsdtStep, FixXsdtStep, StartStep DEF Next
<1> QED
  BY <1>1, <1>2

(* Whatever zapp does, its state is the one the invariant describes.        *)
THEOREM Invariance == Spec => []IInv
BY InvInit, InvNext, PTL DEF Spec

(* In the table zapp works on, the slot it found is the first good DMAR.    *)
LEMMA LeavingSlot ==
  ASSUME IInv, Leaves, GetTablePtr # 0
  PROVE  ptr # 0 /\ GetTablePtr = ptr /\ Started
<1>1. ptr # 0
  BY DEF IInv, Slot
<1>2. /\ ptr \in 1..Len(rsdt.list) /\ Len(rsdt.list) \in Nat /\ IsDmar(tables, rsdt.list[ptr])
      /\ \A j \in 1..(ptr - 1) : ~IsDmar(tables, rsdt.list[j])
  BY <1>1 DEF IInv, Types, Rsdt, Slot, Leaves, Unsummed, Adding, Bridging, IsDmar, Dmar
<1> QED
  BY <1>1, <1>2, FirstDmarAt DEF GetTablePtr, Started

(* The next module finds right checksums in both root tables and in every   *)
(* table they name (acpi_fix_checksum after every change).                  *)
THEOREM ChecksumsAreRight == Spec => []TablesRight
<1>1. IInv => TablesRight
  <2> SUFFICES ASSUME IInv, Leaves PROVE TablesRight
    BY DEF TablesRight
  <2>1. rsdt.ok /\ xsdt.ok
    BY DEF IInv, Sums, Leaves
  <2>2. \A t \in 1..Len(tables) : tables[t].ok \/ tables[t].broken
    BY DEF IInv, Sums, Leaves, Unsummed, Adding, Bridging
  <2>3. NamedByRsdt \cup NamedByXsdt \subseteq 1..Len(tables)
    BY DEF IInv, Types, NamedByRsdt, NamedByXsdt
  <2> QED
    BY <2>1, <2>2, <2>3 DEF TablesRight
<1> QED
  BY <1>1, Invariance, PTL

(* acpi_dup_table duplicates the table that main() has repaired.            *)
THEOREM DuplicateIsRepaired == Spec => []DupTakesTheRepaired
<1>1. IInv => DupTakesTheRepaired
  BY DupFinds DEF DupTakesTheRepaired
<1> QED
  BY <1>1, Invariance, PTL

(* The space for two entries per addition is enough, however many devices   *)
(* are added and whatever bridges are above them.                           *)
THEOREM RoomSuffices == Spec => []RoomIsEnough
<1>1. IInv => RoomIsEnough
  <2> SUFFICES ASSUME IInv, Configured(pci), new # 0
               PROVE  Len(tables[new].entries) <= room
    BY DEF RoomIsEnough
  <2>1. new \in 1..Len(tables) /\ Len(tables[new].entries) + Owed <= room
    BY DEF IInv, Space
  <2>2. Len(tables[new].entries) \in Nat /\ room \in Nat
    <3>1. tables[new] \in AcpiTable
      BY <2>1 DEF IInv, Types
    <3> QED
      BY <3>1 DEF IInv, Types, AcpiTable
  <2>3. Owed \in Nat
    <3>1. adding \in Nat \ {0} /\ Len(Cmd.add) \in Nat
      BY CmdIs DEF IInv, Types
    <3>2. CASE pc \in {"device", "deviceCap"}
      <4>1. adding <= Len(Cmd.add) + 1 /\ Owed = 2 * (Len(Cmd.add) - adding + 1)
        BY <3>2 DEF IInv, Counts, Adding, Owed, Bridging
      <4> QED
        BY <3>1, <4>1
    <3>3. CASE pc \in Bridging \cup {"add"}
      <4>1. /\ adding <= Len(Cmd.add)
            /\ Owed \in {2 * (Len(Cmd.add) - adding) + 2, 2 * (Len(Cmd.add) - adding) + 1}
        BY <3>3 DEF IInv, Counts, Adding, Owed, Bridging
      <4> QED
        BY <3>1, <4>1
    <3>4. CASE pc \notin {"device", "deviceCap", "add"} \cup Bridging
      BY <3>4 DEF Owed, Bridging
    <3> QED
      BY <3>2, <3>3, <3>4
  <2> QED
    BY <2>1, <2>2, <2>3
<1> QED
  BY <1>1, Invariance, PTL

(* What the command line asks for is in the table the next module finds:    *)
(* a region for every source ID of every added device, the changed regions, *)
(* and no unit that was to be disabled (main()).                            *)
THEOREM RepairsHold == Spec => []RepairsInForce
<1>1. IInv => RepairsInForce
  <2> SUFFICES ASSUME IInv, Leaves, Configured(pci), GetTablePtr # 0
               PROVE  /\ \A a \in 1..Len(Cmd.add) :
                           Added(pci, Cmd, a, tables[rsdt.list[GetTablePtr]].entries)
                      /\ \A k \in 1..Len(tables[rsdt.list[GetTablePtr]].entries) :
                           Repaired(Cmd, tables[rsdt.list[GetTablePtr]].entries[k])
    BY DEF RepairsInForce
  <2>1. tables[rsdt.list[GetTablePtr]].entries = Entries /\ Started
    BY LeavingSlot DEF Entries, Dmar
  <2>2. pc \notin {"walk", "dup"} \cup Adding
    BY DEF Leaves, Adding, Bridging
  <2>3. \A a \in 1..Len(Cmd.add) : Added(pci, Cmd, a, Entries)
    BY <2>1, <2>2 DEF IInv, AddedSoFar
  <2>4. \A k \in 1..Len(Entries) : Repaired(Cmd, Entries[k])
    BY <2>1, <2>2 DEF IInv, Changed
  <2> QED
    BY <2>1, <2>3, <2>4
<1> QED
  BY <1>1, Invariance, PTL

-----------------------------------------------------------------------------
(* Both root tables name one DMAR: an invariant of its own, on top of IInv. *)
LEMMA SameGives ==
  ASSUME NEW tabs, NEW list, NEW xlist, SameDmar(tabs, list, xlist), FirstDmar(tabs, list) # 0
  PROVE  LET d == list[FirstDmar(tabs, list)]
         IN /\ \E k \in 1..Len(xlist) : xlist[k].tab = d
            /\ \A k \in 1..Len(xlist) : IsDmar(tabs, xlist[k].tab) => xlist[k].tab = d
<1> DEFINE d == list[FirstDmar(tabs, list)]
           N == {xlist[k].tab : k \in 1..Len(xlist)}
<1>1. {t \in N : tabs[t].sig = "DMAR" /\ tabs[t].ok} = {d}
  BY DEF SameDmar
<1>2. d \in N /\ \A t \in N : IsDmar(tabs, t) => t = d
  BY <1>1 DEF IsDmar
<1> QED
  BY <1>2

LEMMA SameFrom ==
  ASSUME NEW tabs, NEW list, NEW xlist, NEW d, d = list[FirstDmar(tabs, list)], IsDmar(tabs, d),
         \E k \in 1..Len(xlist) : xlist[k].tab = d,
         \A k \in 1..Len(xlist) : IsDmar(tabs, xlist[k].tab) => xlist[k].tab = d
  PROVE  SameDmar(tabs, list, xlist)
<1> DEFINE N == {xlist[k].tab : k \in 1..Len(xlist)}
<1>1. d \in N /\ \A t \in N : IsDmar(tabs, t) => t = d
  OBVIOUS
<1>2. {t \in N : tabs[t].sig = "DMAR" /\ tabs[t].ok} = {d}
  BY <1>1 DEF IsDmar
<1> QED
  BY <1>2 DEF SameDmar

(* When zapp leaves a table it has repaired, that is the first good DMAR.   *)
FirstGood == Dmar = rsdt.list[FirstDmar(tables, rsdt.list)] /\ IsDmar(tables, Dmar)

LEMMA LeavingDmar == IInv /\ Leaves /\ ptr # 0 => FirstGood
<1> SUFFICES ASSUME IInv, Leaves, ptr # 0 PROVE FirstGood
  OBVIOUS
<1>1. /\ ptr \in 1..Len(rsdt.list) /\ Len(rsdt.list) \in Nat
      /\ \A j \in 1..(ptr - 1) : ~IsDmar(tables, rsdt.list[j])
  BY DmarIs DEF IInv, Slot, Started
<1>2. IsDmar(tables, Dmar)
  BY DEF IInv, Slot, Leaves, Unsummed, Adding, Bridging, IsDmar
<1> QED
  BY <1>1, <1>2, FirstDmarAt DEF FirstGood, Dmar

LEMMA LeavingDmarNext == IInv' /\ Leaves' /\ (ptr # 0)' => FirstGood'
<1>1. IInv /\ Leaves /\ ptr # 0 => FirstGood
  BY LeavingDmar
<1> QED
  BY <1>1, PTL

LEMMA AgreementInit == Init => Agreement
<1> SUFFICES ASSUME Init, rev2, AllLow PROVE SameDmar(tables, rsdt.list, xsdt.list)
  BY DEF Init, Agreement, Leaves, Adding, Bridging
<1>1. PICK f \in Firmwares : rev2 = f.rev2 /\ tables = f.tables /\ rsdt = f.rsdt /\ xsdt = f.xsdt
  BY DEF Init
<1> QED
  BY <1>1, AgreementAssumption DEF AllLow

(* The table at hand may change while the others stay.                      *)
LEMMA AgreeWalk ==
  ASSUME IInv, Agreement, pc \in {"walk", "dup"}, pc' \in {"walk", "dup"},
         UNCHANGED <<rev2, rsdt, xsdt, ptr>>,
         \A t \in 1..Len(tables) : t # Dmar => tables'[t] = tables[t]
  PROVE  Agreement'
<1>1. /\ Dmar' = Dmar /\ (AllLow' <=> AllLow)
      /\ \A k \in 1..Len(xsdt.list) : xsdt.list[k].tab \in 1..Len(tables)
  BY DEF Dmar, AllLow, IInv, Types
<1> QED
  BY <1>1 DEF Agreement, Leaves, Adding, Bridging, IsDmar

LEMMA AgreeAdding ==
  ASSUME IInv, Agreement, pc \in Adding, pc' \in Adding, UNCHANGED <<rev2, xsdt>>,
         UNCHANGED tables \/ \E who : AddEntry(who)
  PROVE  Agreement'
<1>1. AllLow' <=> AllLow
  BY DEF AllLow
<1>2. \A t \in 1..Len(tables) : tables'[t].sig = tables[t].sig
  <2>1. CASE \E who : AddEntry(who)
    <3>1. PICK who : AddEntry(who)
      BY <2>1
    <3>2. \A t \in 1..Len(tables) : tables[t] \in AcpiTable
      BY DEF IInv, Types
    <3> QED
      BY <3>1, <3>2 DEF AddEntry, AcpiTable, IInv, Types
  <2> QED
    BY <2>1
<1>3. \A k \in 1..Len(xsdt.list) : xsdt.list[k].tab \in 1..Len(tables)
  BY DEF IInv, Types
<1> QED
  BY <1>1, <1>2, <1>3 DEF Agreement, Leaves, Adding, Bridging

LEMMA AgreementNext == IInv /\ IInv' /\ Agreement /\ [Next]_vars => Agreement'
<1> SUFFICES ASSUME IInv, IInv', Agreement, [Next]_vars PROVE Agreement'
  OBVIOUS
<1>1. CASE UNCHANGED vars
  BY <1>1 DEF Agreement, vars, input, memory, AllLow, Dmar, Leaves, IsDmar
<1>2. CASE FindDmar
  <2>1. /\ rev2' = rev2 /\ tables' = tables /\ rsdt' = rsdt /\ xsdt' = xsdt /\ pc = "find"
        /\ (AllLow' <=> AllLow)
        /\ ptr' = FirstDmar(tables, rsdt.list) /\ Dmar' = rsdt.list[ptr']
        /\ \/ FirstDmar(tables, rsdt.list) = 0 /\ pc' = "next"
           \/ FirstDmar(tables, rsdt.list) # 0 /\ pc' = "walk"
    BY <1>2 DEF FindDmar, input, memory, AllLow, GetTablePtr, Dmar
  <2>2. rev2 /\ AllLow => SameDmar(tables, rsdt.list, xsdt.list)
    BY <2>1 DEF Agreement
  <2> QED
    BY <2>1, <2>2, SameGives DEF Agreement, Leaves, Adding, Bridging
<1>3. CASE WalkUnit \/ WalkRmrr \/ WalkOther
  <2>1. pc = "walk" /\ pc' = "walk" /\ UNCHANGED <<rev2, rsdt, xsdt, ptr>>
    BY <1>3 DEF WalkUnit, WalkRmrr, WalkOther, Walks, input
  <2>2. \A t \in 1..Len(tables) : t # Dmar => tables'[t] = tables[t]
    BY <1>3, SMTT(30) DEF WalkUnit, WalkRmrr, WalkOther, SetEntry, IInv, Types
  <2> QED
    BY <2>1, <2>2, AgreeWalk
<1>4. CASE FixDmar
  <2>1. /\ pc = "walk" /\ UNCHANGED <<rev2, rsdt, xsdt, ptr>> /\ pc' \in {"next", "dup"}
        /\ tables' = [tables EXCEPT ![Dmar].ok = TRUE]
    BY <1>4 DEF FixDmar, Goto, input
  <2>2. \A t \in 1..Len(tables) : t # Dmar => tables'[t] = tables[t]
    BY <2>1 DEF IInv, Types
  <2>3. CASE pc' = "dup"
    BY <2>1, <2>2, <2>3, AgreeWalk
  <2>4. CASE pc' = "next"
    <3>1. ptr' # 0
      BY <2>1 DEF IInv, Slot, Working
    <3>2. Dmar' = rsdt'.list[FirstDmar(tables', rsdt'.list)] /\ IsDmar(tables', Dmar')
      BY <2>4, <3>1, LeavingDmarNext DEF Leaves, FirstGood
    <3>3. Dmar' = Dmar /\ (AllLow' <=> AllLow)
      BY <2>1 DEF Dmar, AllLow
    <3>4. ASSUME rev2, AllLow
          PROVE  /\ \E k \in 1..Len(xsdt'.list) : xsdt'.list[k].tab = Dmar'
                 /\ \A k \in 1..Len(xsdt'.list) :
                      IsDmar(tables', xsdt'.list[k].tab) => xsdt'.list[k].tab = Dmar'
      <4>1. /\ \E k \in 1..Len(xsdt.list) : xsdt.list[k].tab = Dmar
            /\ \A k \in 1..Len(xsdt.list) :
                 IsDmar(tables, xsdt.list[k].tab) => xsdt.list[k].tab = Dmar
        BY <2>1, <3>4 DEF Agreement
      <4>2. \A k \in 1..Len(xsdt.list) : xsdt.list[k].tab \in 1..Len(tables)
        BY DEF IInv, Types
      <4>3. \A k \in 1..Len(xsdt.list) :
              IsDmar(tables', xsdt.list[k].tab) => xsdt.list[k].tab = Dmar
        BY <2>2, <4>1, <4>2 DEF IsDmar
      <4> QED
        BY <2>1, <3>3, <4>1, <4>3
    <3>5. ASSUME rev2, AllLow PROVE SameDmar(tables', rsdt'.list, xsdt'.list)
      BY <3>2, <3>4, <3>5, SameFrom
    <3> QED
      BY <2>1, <2>4, <3>3, <3>5 DEF Agreement, Adding, Bridging
  <2> QED
    BY <2>1, <2>3, <2>4
<1>5. CASE Dup
  <2>1. pc = "dup" /\ UNCHANGED <<rev2, xsdt>> /\ (AllLow' <=> AllLow) /\ pc' \in {"device", "exit"}
    BY <1>5 DEF Dup, Goto, input, AllLow
  <2>2. CASE pc' = "exit"
    BY <2>2 DEF Agreement, Leaves, Adding, Bridging
  <2>3. CASE pc' = "device"
    <3>1. tables' = Append(tables, tables[Dmar])
      BY <1>5, <2>1, <2>3, DupFinds DEF Dup, Goto, Dmar
    <3>2. \A t \in 1..Len(tables) : tables'[t] = tables[t]
      BY <3>1 DEF IInv, Types
    <3>3. /\ \A k \in 1..Len(xsdt.list) : xsdt.list[k].tab \in 1..Len(tables)
          /\ tables[Dmar].sig = "DMAR"
      BY <2>1, DmarIs DEF IInv, Types, Started, Working
    <3>4. ASSUME rev2, AllLow
          PROVE  \E k \in 1..Len(xsdt.list) : tables'[xsdt.list[k].tab].sig = "DMAR"
      BY <2>1, <3>2, <3>3, <3>4 DEF Agreement
    <3> QED
      BY <2>1, <2>3, <3>4 DEF Agreement, Leaves, Adding, Bridging
  <2> QED
    BY <2>1, <2>2, <2>3
<1>6. CASE FindDevice \/ DeviceCap \/ ScanBridge \/ BridgeCap \/ BridgesScanned
  <2>1. /\ pc \in Adding /\ pc' \in Adding \cup {"exit"} /\ UNCHANGED <<rev2, xsdt, tables>>
    BY <1>6 DEF FindDevice, DeviceCap, ScanBridge, BridgeCap, BridgesScanned, Follow, Goto, input,
                memory, Adding, Bridging
  <2>2. CASE pc' = "exit"
    BY <2>2 DEF Agreement, Leaves, Adding, Bridging
  <2> QED
    BY <2>1, <2>2, AgreeAdding
<1>7. CASE UseBridge \/ AddDevice
  <2>1. pc \in Adding /\ pc' \in Adding /\ UNCHANGED <<rev2, xsdt>>
    BY <1>7 DEF UseBridge, AddDevice, Goto, input, Adding, Bridging
  <2>2. UNCHANGED tables \/ \E who : AddEntry(who)
    BY <1>7 DEF UseBridge, AddDevice
  <2> QED
    BY <2>1, <2>2, AgreeAdding
<1>8. CASE FixNew
  <2>1. /\ pc = "device" /\ UNCHANGED <<rev2, rsdt, xsdt, ptr>> /\ (AllLow' <=> AllLow) /\ e' = 1
        /\ pc' = (IF rev2 THEN "xsdt" ELSE "next") /\ new = Dmar
        /\ tables' = [tables EXCEPT ![Dmar].ok = TRUE]
    BY <1>8 DEF FixNew, Goto, input, AllLow, IInv, Slot, Working, Adding
  <2>2. CASE ~rev2
    BY <2>1, <2>2 DEF Agreement
  <2>3. CASE rev2
    <3>1. \A t \in 1..Len(tables) : tables'[t].sig = tables[t].sig
      BY <2>1, Summed DEF IInv, Started, Working, Adding
    <3>2. \A k \in 1..Len(xsdt.list) : xsdt.list[k].tab \in 1..Len(tables) /\ ~(k < 1)
      BY DEF IInv, Types, Xsdt
    <3>3. AllLow => \E k \in 1..Len(xsdt.list) : tables[xsdt.list[k].tab].sig = "DMAR"
      BY <2>1, <2>3 DEF Agreement, Adding
    <3> QED
      BY <2>1, <2>3, <3>1, <3>2, <3>3 DEF Agreement, Leaves, Adding, Bridging
  <2> QED
    BY <2>2, <2>3
<1>9. CASE XsdtEntry
  <2>1. /\ pc = "xsdt" /\ pc' = "xsdt" /\ UNCHANGED <<rev2, rsdt, tables, ptr>> /\ e' = e + 1
        /\ e \in 1..Len(xsdt.list) /\ Dmar' = Dmar
    BY <1>9 DEF XsdtEntry, input, IInv, Types, Dmar
  <2>2. new = Dmar /\ tables[Dmar].sig = "DMAR"
    BY <2>1, DmarIs DEF IInv, Slot, Started, Working
  <2>3. /\ Len(xsdt'.list) = Len(xsdt.list)
        /\ \A k \in 1..Len(xsdt.list) :
             /\ xsdt'.list[k].high = xsdt.list[k].high
             /\ k # e => xsdt'.list[k] = xsdt.list[k]
        /\ ~xsdt.list[e].high =>
             xsdt'.list[e].tab =
               IF tables[xsdt.list[e].tab].sig = "DMAR" THEN Dmar ELSE xsdt.list[e].tab
    <3> DEFINE X == [tab : Nat, high : BOOLEAN]
    <3>1. xsdt.list \in Seq(X)
      BY DEF IInv, Types, Xsdt
    <3>2. CASE xsdt' = xsdt
      BY <1>9, <2>1, <2>2, <3>2 DEF XsdtEntry
    <3>3. CASE xsdt' = [list |-> [xsdt.list EXCEPT ![e].tab = new], ok |-> FALSE]
      <4>1. xsdt'.list = [xsdt.list EXCEPT ![e] = [xsdt.list[e] EXCEPT !.tab = new]]
        BY <3>3
      <4>2. xsdt.list[e] \in X
        <5> HIDE DEF X
        <5> QED
          BY <2>1, <3>1
      <4>3. /\ [xsdt.list[e] EXCEPT !.tab = new].tab = new
            /\ [xsdt.list[e] EXCEPT !.tab = new].high = xsdt.list[e].high
        BY <4>2
      <4> QED
        BY <1>9, <2>1, <2>2, <3>1, <3>3, <4>1, <4>3 DEF XsdtEntry
    <3> QED
      BY <1>9, <3>2, <3>3 DEF XsdtEntry
  <2>4. AllLow' <=> AllLow
    BY <2>3 DEF AllLow
  <2>5. ASSUME rev2, AllLow
        PROVE  /\ \E k \in 1..Len(xsdt.list) : tables[xsdt'.list[k].tab].sig = "DMAR"
               /\ \A k \in 1..Len(xsdt.list) :
                    k < e + 1 /\ tables[xsdt'.list[k].tab].sig = "DMAR" => xsdt'.list[k].tab = Dmar
    <3>1. PICK k \in 1..Len(xsdt.list) : tables[xsdt.list[k].tab].sig = "DMAR"
      BY <2>1, <2>5 DEF Agreement
    <3>2. tables[xsdt'.list[k].tab].sig = "DMAR"
      BY <2>1, <2>2, <2>3, <2>5, <3>1 DEF AllLow
    <3>3. ASSUME NEW j \in 1..Len(xsdt.list), j < e + 1, tables[xsdt'.list[j].tab].sig = "DMAR"
          PROVE  xsdt'.list[j].tab = Dmar
      <4>1. CASE j = e
        BY <2>1, <2>3, <2>5, <3>3, <4>1 DEF AllLow
      <4>2. CASE j # e
        BY <2>1, <2>3, <2>5, <3>3, <4>2 DEF Agreement
      <4> QED
        BY <4>1, <4>2
    <3> QED
      BY <3>2, <3>3
  <2> QED
    BY <2>1, <2>3, <2>4, <2>5 DEF Agreement, Leaves
<1>10. CASE FixXsdt
  <2>1. /\ pc = "xsdt" /\ pc' = "next" /\ UNCHANGED <<rev2, rsdt, tables, ptr>> /\ Dmar' = Dmar
        /\ e \in Nat /\ e > Len(xsdt.list) /\ Len(xsdt.list) \in Nat
        /\ xsdt'.list = xsdt.list /\ (AllLow' <=> AllLow)
    BY <1>10 DEF FixXsdt, Goto, input, AllLow, IInv, Types, Xsdt, Dmar
  <2>2. Dmar = rsdt.list[FirstDmar(tables, rsdt.list)] /\ IsDmar(tables, Dmar)
    <3>1. ptr' # 0
      BY <2>1 DEF IInv, Slot, Working
    <3> QED
      BY <2>1, <3>1, LeavingDmarNext DEF Leaves, FirstGood
  <2>3. ASSUME rev2, AllLow PROVE SameDmar(tables, rsdt.list, xsdt.list)
    <3>1. \A k \in 1..Len(xsdt.list) :
            tables[xsdt.list[k].tab].sig = "DMAR" => xsdt.list[k].tab = Dmar
      BY <2>1, <2>3 DEF Agreement
    <3>2. \E k \in 1..Len(xsdt.list) : xsdt.list[k].tab = Dmar
      BY <2>1, <2>3, <3>1 DEF Agreement
    <3> QED
      BY <2>2, <3>1, <3>2, SameFrom DEF IsDmar
  <2> QED
    BY <2>1, <2>3 DEF Agreement, Adding, Bridging
<1>11. CASE StartNext
  <2>1. /\ pc = "next" /\ pc' \in {"find", "started"} /\ UNCHANGED <<rev2, rsdt, xsdt, tables>>
        /\ (AllLow' <=> AllLow)
    BY <1>11 DEF StartNext, Goto, input, memory, AllLow
  <2> QED
    BY <2>1 DEF Agreement, Leaves, Adding, Bridging
<1> QED
  BY <1>1, <1>2, <1>3, <1>4, <1>5, <1>6, <1>7, <1>8, <1>9, <1>10, <1>11 DEF Next

(* If the firmware's root tables name the same DMAR, they still do when the *)
(* next module starts (acpi_dup_table and the loop over the XSDT).          *)
THEOREM RootTablesStayTogether == Spec => []RootTablesAgree
<1>1. Agreement => RootTablesAgree
  BY DEF Agreement, RootTablesAgree, AllLow
<1>2. Spec => []Agreement
  BY AgreementInit, AgreementNext, Invariance, PTL DEF Spec
<1> QED
  BY <1>1, <1>2, PTL
=============================================================================
