-------------------------------- MODULE Zapp --------------------------------
(***************************************************************************)
(* zapp (standalone/zapp.c with acpi.c and pci.c): repairs the DMAR table  *)
(* of the firmware before the next module starts.  It changes RMRRs and    *)
(* hides remapping units in place, then moves the table to new memory to   *)
(* add RMRRs for devices it finds by class, and makes the RSDT and the     *)
(* XSDT name the new table.  Several zapps may follow each other in the    *)
(* boot chain; each finds the tables as the one before left them.          *)
(*                                                                         *)
(* A table is named by its index in `tables'; its checksum is right or it  *)
(* is not.  A requester ID (bdf) is <<bus, device, function>>.             *)
(***************************************************************************)
EXTENDS Pci

CONSTANTS Firmwares, \* tables as the firmware left them
          Buses,     \* sets of PCI functions, as in Pci.tla
          CmdLines,  \* sequences of command lines, one per zapp
          Units,     \* remapping units
          Regions    \* regions of memory an RMRR may name

DmarEntry == [type : {"unit", "rmrr", "invalid"}, who : Units \cup Address, base : Regions]
AcpiTable == [sig : STRING, entries : Seq(DmarEntry), ok : BOOLEAN, broken : BOOLEAN]
Rsdt  == [list : Seq(Nat), ok : BOOLEAN]
Xsdt  == [list : Seq([tab : Nat, high : BOOLEAN]), ok : BOOLEAN]
Fixup   == [who : Address, base : Regions]
Extra   == [class : STRING, base : Regions]
Command == [fix : Seq(Fixup), add : Seq(Extra), disable : SUBSET Units]

(* Both root tables are right and name tables there are; of the others the  *)
(* firmware may have left some with a wrong checksum.                       *)
ASSUME FirmwareAssumption ==
  \A f \in Firmwares :
    /\ f \in [rev2 : BOOLEAN, tables : Seq(AcpiTable), rsdt : Rsdt, xsdt : Xsdt]
    /\ f.rsdt.ok /\ f.xsdt.ok
    /\ \A k \in 1..Len(f.rsdt.list) : f.rsdt.list[k] \in 1..Len(f.tables)
    /\ \A k \in 1..Len(f.xsdt.list) : f.xsdt.list[k].tab \in 1..Len(f.tables)
    /\ \A t \in 1..Len(f.tables) : f.tables[t].ok \/ f.tables[t].broken

(* The first table of the list that has the signature and a right checksum; *)
(* 0 if there is none.                                                      *)
FirstDmar(tabs, list) == SelectInSeq(list, LAMBDA t : tabs[t].ok /\ tabs[t].sig = "DMAR")

(* The RSDT and the XSDT name the same DMAR.                                *)
SameDmar(tabs, list, xlist) ==
  FirstDmar(tabs, list) # 0 =>
    {t \in {xlist[k].tab : k \in 1..Len(xlist)} : tabs[t].sig = "DMAR" /\ tabs[t].ok}
      = {list[FirstDmar(tabs, list)]}

ASSUME AgreementAssumption ==
  \A f \in Firmwares :
    f.rev2 /\ (\A k \in 1..Len(f.xsdt.list) : ~f.xsdt.list[k].high) =>
      SameDmar(f.tables, f.rsdt.list, f.xsdt.list)

ASSUME BusAssumption == \A bus \in Buses : IsBus(bus)

ASSUME CmdAssumption ==
  \A c \in CmdLines : c \in Seq(Command) /\ Len(c) > 0

VARIABLES
  rev2, pci, cmds,    \* is there an XSDT, PCI functions, command lines
  tables, rsdt, xsdt, \* memory: [sig, entries, ok], [list, ok]
  stage, pc,          \* which zapp, and where main() is
  ptr, e,             \* RSDT slot of the DMAR, position in a walk
  new, room,          \* the duplicate, and for how many entries there is room
  adding, bdf, cap,   \* the addition at hand, its requester ID, a PCI capability
  rest                \* what is still to be scanned of bus 0

input   == <<rev2, pci, cmds>>
memory  == <<tables, rsdt, xsdt>>
addVars == <<new, room, adding, bdf, cap, rest>>
vars == <<input, memory, stage, pc, ptr, e, addVars>>

Cmd == cmds[stage]

Init ==
  /\ \E f \in Firmwares : rev2 = f.rev2 /\ tables = f.tables
                          /\ rsdt = f.rsdt /\ xsdt = f.xsdt
  /\ pci \in Buses /\ cmds \in CmdLines
  /\ stage = 1 /\ pc = "find" /\ ptr = 0 /\ e = 1
  /\ new = 0 /\ room = 0 /\ adding = 1 /\ bdf = <<0, 0, 0>> /\ cap = 0
  /\ rest = {}

Goto(from, to) == pc = from /\ pc' = to

-----------------------------------------------------------------------------
(* acpi_get_table_ptr.                                                      *)
GetTablePtr == FirstDmar(tables, rsdt.list)

-----------------------------------------------------------------------------
(* The walk over the DMAR entries.                                          *)

FindDmar ==
  /\ pc = "find" /\ ptr' = GetTablePtr
  /\ IF GetTablePtr = 0 THEN pc' = "next" /\ UNCHANGED e
                        ELSE pc' = "walk" /\ e' = 1
  /\ UNCHANGED <<input, memory, stage, addVars>>

Dmar == rsdt.list[ptr]
AtEntry == tables[Dmar].entries[e]
SetEntry(x) == tables' = [tables EXCEPT ![Dmar].entries[e] = x, ![Dmar].ok = FALSE]
Walks(type) ==
  /\ pc = "walk" /\ e <= Len(tables[Dmar].entries) /\ AtEntry.type = type
  /\ e' = e + 1
  /\ UNCHANGED <<input, rsdt, xsdt, stage, pc, ptr, addVars>>

(* A remapping unit that was to be disabled gets an invalid type.           *)
WalkUnit ==
  /\ Walks("unit")
  /\ IF AtEntry.who \in Cmd.disable THEN SetEntry([AtEntry EXCEPT !.type = "invalid"])
                                  ELSE UNCHANGED tables

(* The first fixrmrr that names the device gives the region.                *)
FixFor(cmd, who) == SelectInSeq(cmd.fix, LAMBDA f : f.who = who)
WalkRmrr ==
  /\ Walks("rmrr")
  /\ LET k == FixFor(Cmd, AtEntry.who) IN
     IF k # 0 THEN SetEntry([AtEntry EXCEPT !.base = Cmd.fix[k].base])
              ELSE UNCHANGED tables

WalkOther == Walks("invalid") /\ UNCHANGED tables

(* Mutant: the checksum is left for the end of main().                      *)
FixDmarLater ==
  /\ Goto("walk", IF Cmd.add = <<>> THEN "next" ELSE "dup")
  /\ e > Len(tables[Dmar].entries)
  /\ UNCHANGED <<input, memory, stage, ptr, e, addVars>>

(* acpi_fix_checksum, which Dup relies on.                                  *)
FixDmar ==
  /\ Goto("walk", IF Cmd.add = <<>> THEN "next" ELSE "dup")
  /\ e > Len(tables[Dmar].entries)
  /\ tables' = [tables EXCEPT ![Dmar].ok = TRUE]
  /\ UNCHANGED <<input, rsdt, xsdt, stage, ptr, e, addVars>>

-----------------------------------------------------------------------------
(* New entries.                                                             *)

(* Mutant: room for one entry per addition.                                 *)
DupTight ==
  /\ \/ /\ Goto("dup", "device") /\ GetTablePtr # 0
        /\ tables' = Append(tables, tables[rsdt.list[GetTablePtr]])
        /\ new' = Len(tables) + 1
        /\ rsdt' = [list |-> [rsdt.list EXCEPT ![GetTablePtr] = new'], ok |-> TRUE]
        /\ room' = Len(tables[rsdt.list[GetTablePtr]].entries) + Len(Cmd.add)
     \/ Goto("dup", "exit") /\ UNCHANGED <<tables, new, rsdt, room>>
  /\ adding' = 1
  /\ UNCHANGED <<input, xsdt, stage, ptr, e, bdf, cap, rest>>

(* acpi_dup_table: a copy with room for two entries per addition, which the *)
(* RSDT names from now on.  The memory map may have no room: zapp reboots.  *)
Dup ==
  /\ \/ /\ Goto("dup", "device") /\ GetTablePtr # 0
        /\ tables' = Append(tables, tables[rsdt.list[GetTablePtr]])
        /\ new' = Len(tables) + 1
        /\ rsdt' = [list |-> [rsdt.list EXCEPT ![GetTablePtr] = new'], ok |-> TRUE]
        /\ room' = Len(tables[rsdt.list[GetTablePtr]].entries) + 2 * Len(Cmd.add)
     \/ Goto("dup", "exit") /\ UNCHANGED <<tables, new, rsdt, room>>
  /\ adding' = 1
  /\ UNCHANGED <<input, xsdt, stage, ptr, e, bdf, cap, rest>>

AddEntry(who) ==
  tables' = [tables EXCEPT ![new].ok = FALSE,
               ![new].entries = Append(@, [type |-> "rmrr", who |-> who,
                                           base |-> Cmd.add[adding].base])]

Addition == adding <= Len(Cmd.add)

(* The device of an addition must exist.  One without a PCIe capability may *)
(* sit behind a bridge of bus 0, which main() then scans.                   *)
FindDevice ==
  /\ pc = "device" /\ Addition
  /\ LET S == OfClass(pci, Cmd.add[adding].class) IN
     IF S = {} THEN pc' = "exit" /\ UNCHANGED <<bdf, cap>>
     ELSE /\ bdf' = LastOf(S).at
          /\ pc' = "deviceCap" /\ cap' = FirstCap(LastOf(S))
  /\ UNCHANGED <<input, memory, stage, ptr, e, new, room, adding, rest>>

(* pci_find_cap: the list of function x ended, or its PCIe capability is    *)
(* found; and one step along the list.                                      *)
CapKnown(x) == cap # 0 => IsExp(x, cap)
Follow(x) ==
  /\ ~CapKnown(x) /\ cap' = NextCap(x, cap)
  /\ UNCHANGED <<input, memory, stage, pc, ptr, e, new, room, adding, bdf, rest>>

Device == CHOOSE x \in pci : x.at = bdf

(* Mutant: the walk starts again at the header.                             *)
DeviceCapAgain ==
  /\ pc = "deviceCap"
  /\ \/ /\ ~CapKnown(Device) /\ cap' = FirstCap(Device)
        /\ UNCHANGED <<input, memory, stage, pc, ptr, e, new, room, adding, bdf, rest>>
     \/ /\ CapKnown(Device)
        /\ IF cap = 0 THEN pc' = "bridges" /\ rest' = RootBus(pci)
                      ELSE pc' = "add" /\ UNCHANGED rest
        /\ UNCHANGED <<input, memory, stage, ptr, e, new, room, adding, bdf, cap>>

DeviceCap ==
  /\ pc = "deviceCap"
  /\ \/ Follow(Device)
     \/ /\ CapKnown(Device)
        /\ IF cap = 0 THEN pc' = "bridges" /\ rest' = RootBus(pci)
                      ELSE pc' = "add" /\ UNCHANGED rest
        /\ UNCHANGED <<input, memory, stage, ptr, e, new, room, adding, bdf, cap>>

(* Is our bus behind this bridge?  bdf changes when a legacy bridge is met. *)
Forwards(x) == x.class = "bridge" /\ x.sec <= bdf[1] /\ bdf[1] <= x.sub
AtBridge == FirstOf(rest)

(* One function of bus 0.                                                   *)
ScanBridge ==
  /\ pc = "bridges" /\ rest # {}
  /\ \/ ~Forwards(AtBridge) /\ rest' = rest \ {AtBridge} /\ UNCHANGED <<pc, cap>>
     \/ Forwards(AtBridge) /\ pc' = "bridgeCap" /\ cap' = FirstCap(AtBridge) /\ UNCHANGED rest
  /\ UNCHANGED <<input, memory, stage, ptr, e, new, room, adding, bdf>>

BridgeCap == pc = "bridgeCap" /\ Follow(AtBridge)
ToPci == cap # 0 /\ IsExp(AtBridge, cap) /\ AtBridge.caps[cap].type = "toPci"

(* Mutant: the secondary bus of a PCIe bridge replaces the device.          *)
UseBridgeReplaces ==
  /\ Goto("bridgeCap", "bridges") /\ CapKnown(AtBridge) /\ rest' = rest \ {AtBridge}
  /\ bdf' = IF ToPci THEN <<AtBridge.sec, 0, 0>> ELSE AtBridge.at
  /\ UNCHANGED <<input, memory, stage, ptr, e, new, room, adding, cap>>

(* Another RMRR for the secondary bus of a PCIe-to-PCI bridge, the bridge   *)
(* itself for a legacy one.                                                 *)
UseBridge ==
  /\ Goto("bridgeCap", "bridges") /\ CapKnown(AtBridge) /\ rest' = rest \ {AtBridge}
  /\ \/ ToPci /\ AddEntry(<<AtBridge.sec, 0, 0>>) /\ UNCHANGED bdf
     \/ ~ToPci /\ bdf' = AtBridge.at /\ UNCHANGED tables
  /\ UNCHANGED <<input, rsdt, xsdt, stage, ptr, e, new, room, adding, cap>>

BridgesScanned ==
  /\ Goto("bridges", "add") /\ rest = {}
  /\ UNCHANGED <<input, memory, stage, ptr, e, addVars>>

AddDevice ==
  /\ Goto("add", "device") /\ AddEntry(bdf) /\ adding' = adding + 1
  /\ UNCHANGED <<input, rsdt, xsdt, stage, ptr, e, new, room, bdf, cap, rest>>

(* Mutant: the checksum of the new table is forgotten.                      *)
FixNewForgotten ==
  /\ Goto("device", IF rev2 THEN "xsdt" ELSE "next") /\ ~Addition
  /\ e' = 1
  /\ UNCHANGED <<input, memory, stage, ptr, addVars>>

FixNew ==
  /\ Goto("device", IF rev2 THEN "xsdt" ELSE "next") /\ ~Addition
  /\ tables' = [tables EXCEPT ![new].ok = TRUE] /\ e' = 1
  /\ UNCHANGED <<input, rsdt, xsdt, stage, ptr, addVars>>

(* Mutant: only the first pointer of the XSDT is looked at.                 *)
XsdtEntryFirst ==
  /\ pc = "xsdt" /\ e <= Len(xsdt.list) /\ e' = e + 1
  /\ xsdt' = IF e = 1 /\ tables[xsdt.list[e].tab].sig = "DMAR"
               THEN [list |-> [xsdt.list EXCEPT ![e].tab = new], ok |-> FALSE]
               ELSE xsdt
  /\ UNCHANGED <<input, tables, rsdt, stage, pc, ptr, addVars>>

(* Every DMAR pointer of the XSDT, except those above 4 GB.                 *)
XsdtEntry ==
  /\ pc = "xsdt" /\ e <= Len(xsdt.list) /\ e' = e + 1
  /\ xsdt' = IF ~xsdt.list[e].high /\ tables[xsdt.list[e].tab].sig = "DMAR"
               THEN [list |-> [xsdt.list EXCEPT ![e].tab = new], ok |-> FALSE]
               ELSE xsdt
  /\ UNCHANGED <<input, tables, rsdt, stage, pc, ptr, addVars>>

FixXsdt ==
  /\ Goto("xsdt", "next") /\ e > Len(xsdt.list)
  /\ xsdt' = [xsdt EXCEPT !.ok = TRUE]
  /\ UNCHANGED <<input, tables, rsdt, stage, ptr, e, addVars>>

(* start_module: the next module may be another zapp.                       *)
StartNext ==
  /\ \/ /\ stage < Len(cmds) /\ Goto("next", "find") /\ stage' = stage + 1
        /\ ptr' = 0 /\ e' = 1 /\ new' = 0 /\ room' = 0 /\ adding' = 1 /\ bdf' = <<0, 0, 0>>
        /\ cap' = 0 /\ UNCHANGED rest
     \/ /\ stage = Len(cmds) /\ Goto("next", "started")
        /\ UNCHANGED <<stage, ptr, e, addVars>>
  /\ UNCHANGED <<input, memory>>

Next ==
  \/ FindDmar \/ WalkUnit \/ WalkRmrr \/ WalkOther \/ FixDmar
  \/ Dup \/ FindDevice \/ DeviceCap \/ ScanBridge \/ BridgeCap \/ UseBridge \/ BridgesScanned
  \/ AddDevice \/ FixNew
  \/ XsdtEntry \/ FixXsdt \/ StartNext

Spec == Init /\ [][Next]_vars /\ WF_vars(Next)
-----------------------------------------------------------------------------
Leaves == pc \in {"next", "started"}
NamedByRsdt == {rsdt.list[k] : k \in 1..Len(rsdt.list)}
NamedByXsdt == {x.tab : x \in {xsdt.list[k] : k \in 1..Len(xsdt.list)}}

(* What one zapp was asked to do, in the entries of a DMAR: a region for    *)
(* every source ID of an added device, and the changes of -s and -d.        *)
Has(entries, who, base) ==
  \E k \in 1..Len(entries) : entries[k] = [type |-> "rmrr", who |-> who, base |-> base]
Added(bus, cmd, a, entries) ==
  \A id \in SourceIds(bus, LastOf(OfClass(bus, cmd.add[a].class))) :
    Has(entries, id, cmd.add[a].base)
Repaired(cmd, x) ==
  LET f == FixFor(cmd, x.who) IN
  /\ x.type = "unit" => x.who \notin cmd.disable
  /\ x.type = "rmrr" /\ f # 0 =>
       x.base \in {cmd.fix[f].base} \cup {cmd.add[a].base : a \in 1..Len(cmd.add)}

(* The next module finds right checksums: the root tables', and those of    *)
(* all tables they name, unless the firmware's was wrong and zapp had no    *)
(* reason to touch it (the three places that call acpi_fix_checksum).       *)
TablesRight ==
  Leaves => /\ rsdt.ok /\ (rev2 => xsdt.ok)
            /\ \A t \in NamedByRsdt \cup NamedByXsdt : tables[t].ok \/ tables[t].broken

(* The RSDT and the XSDT name the same DMAR, whichever of them the next     *)
(* module believes, unless the XSDT had a pointer above 4 GB (acpi_dup_table*)
(* and the "crude" loop over the XSDT).                                     *)
RootTablesAgree ==
  Leaves /\ rev2 /\ (\A k \in 1..Len(xsdt.list) : ~xsdt.list[k].high) =>
    SameDmar(tables, rsdt.list, xsdt.list)

(* acpi_dup_table looks the DMAR up again, by signature and checksum: it    *)
(* duplicates the table whose entries were just repaired.                   *)
DupTakesTheRepaired == pc = "dup" => GetTablePtr = ptr

(* "Leave space for new entries.": two per addition are enough, whatever    *)
(* the bridges on the way to the devices are.                               *)
RoomIsEnough == Configured(pci) /\ new # 0 => Len(tables[new].entries) <= room

(* What the user asked for is in force when the next module starts, in the  *)
(* table it will find: regions of all source IDs of added devices, changed  *)
(* regions, disabled units (main()).                                        *)
RepairsInForce ==
  Leaves /\ Configured(pci) /\ GetTablePtr # 0 =>
    LET entries == tables[rsdt.list[GetTablePtr]].entries
    IN /\ \A a \in 1..Len(Cmd.add) : Added(pci, Cmd, a, entries)
       /\ \A k \in 1..Len(entries) : Repaired(Cmd, entries[k])

(* The walks of pci_find_cap end, and with them zapp: it starts the next    *)
(* module or says why not.                                                  *)
Finishes == <>(pc \in {"started", "exit"})
=============================================================================
