-------------------------------- MODULE Pci ---------------------------------
(***************************************************************************)
(* Configuration space as pci.c reads it.  A function of the bus is a      *)
(* record: `at' is its address <<bus, device, function>>, `class' its class*)
(* and subclass, `multi' the multi-function bit of its header type;        *)
(* `hasCaps' is the bit of the status register and `capPtr' the head of the*)
(* capability list `caps', which maps an offset to an id and the next      *)
(* offset.                                                                 *)
(***************************************************************************)
EXTENDS Naturals, Sequences, SequencesExt

FunctionAt(pci, b, d, f) == {x \in pci : x.at = <<b, d, f>>}

(* Functions 1 to 7 are looked at if function 0 is a multi-function device, *)
(* or if there is none: its header type then reads as all ones.             *)
Scanned(pci, x) ==
  x.at[3] = 0 \/ \A y \in FunctionAt(pci, x.at[1], x.at[2], 0) : y.multi

Before(a, b) == \/ a[1] < b[1]
                \/ a[1] = b[1] /\ a[2] < b[2]
                \/ a[1] = b[1] /\ a[2] = b[2] /\ a[3] < b[3]

(* pci_find_device_by_class: the last match in the order of the scan.       *)
OfClass(pci, class) == {x \in pci : Scanned(pci, x) /\ x.class = class}
LastOf(S)  == CHOOSE x \in S : \A y \in S : y = x \/ Before(y.at, x.at)
FirstOf(S) == CHOOSE x \in S : \A y \in S : y = x \/ Before(x.at, y.at)

(* What zapp scans of bus 0.                                                *)
RootBus(pci) == {x \in pci : x.at[1] = 0 /\ Scanned(pci, x)}

(* pci_find_cap: where it starts, the PCIe capability, and where it goes on.*)
FirstCap(x)   == IF x.hasCaps THEN x.capPtr ELSE 0
IsExp(x, o)   == x.caps[o].id = "exp"
NextCap(x, o) == x.caps[o].next

-----------------------------------------------------------------------------
(* Bridges of bus 0 as firmware configures them: a scan finds them, and the *)
(* ranges of buses below them are disjoint.                                 *)
Bridges(pci) == {x \in pci : x.class = "bridge" /\ x.at[1] = 0}
Configured(pci) ==
  \A x \in Bridges(pci) :
    /\ Scanned(pci, x) /\ x.sec >= 1
    /\ \A y \in Bridges(pci) \ {x} : x.sub < y.sec \/ y.sub < x.sec

(* The requester IDs a remapping unit sees for DMA of a device on bus 0, or *)
(* one bridge below it.                                                     *)
Above(pci, x) == {b \in Bridges(pci) : b.sec <= x.at[1] /\ x.at[1] <= b.sub}
SourceIds(pci, x) ==
  IF x.pcie # "none" \/ Above(pci, x) = {} THEN {x.at}
  ELSE UNION {IF b.pcie = "toPci" THEN {x.at, <<b.sec, 0, 0>>} ELSE {b.at} : b \in Above(pci, x)}

(* What hardware shows: a function is at one address, the capability list   *)
(* stays within the offsets it has, and `pcie' is the kind of the first     *)
(* PCIe capability on the list, "none" without one.                         *)
Address     == (0..255) \X (0..31) \X (0..7)
Kinds       == {"none", "root", "endpoint", "toPci"}
Capability  == [id : STRING, next : Nat, type : STRING]
PciFunction == [at : Address, class : STRING, multi : BOOLEAN, sec : 0..255, sub : 0..255,
                hasCaps : BOOLEAN, capPtr : Nat, caps : Seq(Capability), pcie : Kinds]

KindsAlong(x) ==
  {w \in [0..Len(x.caps) -> Kinds] :
     /\ w[0] = "none" /\ w[FirstCap(x)] = x.pcie
     /\ \A c \in 1..Len(x.caps) :
          w[c] = IF IsExp(x, c) THEN x.caps[c].type ELSE w[NextCap(x, c)]}

IsBus(bus) ==
  /\ bus \in SUBSET PciFunction
  /\ \A x, y \in bus : x.at = y.at => x = y
  /\ \A x \in bus :
       /\ x.capPtr \in 0..Len(x.caps) /\ KindsAlong(x) # {}
       /\ \A c \in 1..Len(x.caps) :
            /\ NextCap(x, c) \in 0..Len(x.caps)
            /\ IsExp(x, c) => x.caps[c].type \in Kinds \ {"none"}
=============================================================================
