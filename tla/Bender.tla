------------------------------- MODULE Bender -------------------------------
(***************************************************************************)
(* bender (standalone/bender.c) and the program it starts.  bender looks   *)
(* for a serial controller on the PCI bus and writes its I/O port into the *)
(* BIOS data area, where serial_init of every later program finds it.  A   *)
(* main() that returns, or an assertion that fails, ends in __exit of      *)
(* Console.tla (standalone/start.asm).                                     *)
(*                                                                         *)
(* A PCI function is a record as in Pci.tla with a class <<class, sub>>,   *)
(* the chip and its six base address registers, each [io, addr].           *)
(***************************************************************************)
EXTENDS Console, Pci

CONSTANTS Buses,      \* sets of PCI functions
          BiosAreas,  \* [com0, ports]: as the BIOS left its data area
          Quirk       \* offset of the XR16850 (bender.c: 0xc0)

ASSUME BusAssumption ==
  /\ Quirk \in Nat
  /\ \A bus \in Buses : \A x \in bus :
       x.at \in Address /\ x.bars \in Seq([io : BOOLEAN, addr : Nat])

VARIABLES
  pci, promisc,   \* the bus, is every class 7 device taken
  bda,            \* [com0, ports]: first COM port, number of ports
  dev,            \* the controller that was found
  program         \* which of the two programs runs

mainVars == <<pci, promisc, bda, dev, program>>
vars == <<pc, ret, timeVars, lineVars, bootVars, hardware, mainVars>>

NoDevice == [bars |-> <<>>]

Init ==
  /\ ConsoleInit /\ pc = "main"
  /\ pci \in Buses /\ promisc \in BOOLEAN /\ bda \in BiosAreas
  /\ dev = NoDevice /\ program = "bender"

-----------------------------------------------------------------------------
(* Nothing is put out before serial_init.  Without the magic number of a    *)
(* boot loader main() only says so and returns.                             *)
Banner ==
  /\ pc = "main" /\ program = "bender"
  /\ \E then \in {"find", "exit"} : Printing(Line("banner"), then)
  /\ UNCHANGED <<timeVars, com, enabled, tries, lost, bootVars, hardware, mainVars>>

Comm(sub) == <<"comm", sub>>
Classes(any) == IF any THEN {x.class : x \in {y \in pci : y.class[1] = "comm"}}
                       ELSE {Comm("serial")}

FindController ==
  /\ pc = "find"
  /\ LET S == UNION {OfClass(pci, c) : c \in Classes(promisc)} IN
     IF S = {} THEN pc' = "bootNext" /\ UNCHANGED dev
               ELSE pc' = "patch" /\ dev' = LastOf(S)
  /\ UNCHANGED <<ret, timeVars, lineVars, bootVars, hardware, pci, promisc, bda, program>>

(* The first I/O port among the base address registers, 0 without one.      *)
FirstIo(x) == LET k == SelectInSeq(x.bars, LAMBDA b : b.io)
              IN IF k = 0 THEN 0 ELSE x.bars[k].addr
Iobase(x) == FirstIo(x) + (IF x.chip = "xr16850" THEN Quirk ELSE 0)

(* Mutant: the last I/O port wins.                                          *)
PatchBdaLast ==
  /\ pc = "patch" /\ pc' = "bootNext"
  /\ LET k == SelectLastInSeq(dev.bars, LAMBDA b : b.io)
         io == IF k = 0 THEN 0 ELSE dev.bars[k].addr IN
     bda' = IF io = 0 THEN bda ELSE [com0 |-> io, ports |-> 1]
  /\ UNCHANGED <<ret, timeVars, lineVars, bootVars, hardware, pci, promisc, dev, program>>

PatchBda ==
  /\ pc = "patch" /\ pc' = "bootNext"
  /\ bda' = IF Iobase(dev) = 0 THEN bda ELSE [com0 |-> Iobase(dev), ports |-> 1]
  /\ UNCHANGED <<ret, timeVars, lineVars, bootVars, hardware, pci, promisc, dev, program>>

(* "boot_next": bender itself speaks only if there is a COM port.           *)
BootNext ==
  /\ pc = "bootNext" /\ Printing(Line("hello"), "startModule")
  /\ IF bda.ports # 0 THEN SerialInit(bda.com0) ELSE UNCHANGED <<com, enabled>>
  /\ UNCHANGED <<timeVars, tries, lost, bootVars, hardware, mainVars>>

(* start_module: the static variables of the next program are fresh; it     *)
(* returns if there is no module.                                           *)
StartModule ==
  /\ pc = "startModule"
  /\ \/ /\ pc' = "main" /\ program' = "next" /\ com' = 0 /\ enabled' = FALSE /\ lost' = FALSE
     \/ pc' = "exit" /\ UNCHANGED <<program, com, enabled, lost>>
  /\ UNCHANGED <<ret, timeVars, tries, todo, bootVars, hardware, pci, promisc, bda, dev>>

(* The beginning of the other mains.                                        *)
NextMain ==
  /\ pc = "main" /\ program = "next" /\ SerialInit(bda.com0)
  /\ Printing(Line("banner"), "work")
  /\ UNCHANGED <<timeVars, tries, lost, bootVars, hardware, mainVars>>

(* It starts a kernel, main() returns or an assertion fails.                *)
Work ==
  /\ pc = "work"
  /\ \/ pc' \in {"started", "exit"} /\ UNCHANGED <<ret, todo>>
     \/ Printing(Line("assertion"), "exit")
  /\ UNCHANGED <<timeVars, com, enabled, tries, lost, bootVars, hardware, mainVars>>

Program ==
  \/ Service /\ UNCHANGED mainVars
  \/ Banner \/ FindController \/ PatchBda \/ BootNext \/ StartModule \/ NextMain \/ Work
TimerRuns == Tick /\ UNCHANGED mainVars
Next == Program \/ TimerRuns

(* Programs do not block, and neither does the timer.                       *)
Spec == Init /\ [][Next]_vars /\ WF_vars(Program) /\ WF_vars(TimerRuns)
-----------------------------------------------------------------------------
TypeOK ==
  /\ counter \in 0..(Period - 1) /\ old \in 0..(Period - 1) /\ left \in Int
  /\ gap \in Nat /\ asked \in Nat /\ elapsed \in Nat /\ maxGap \in MaxGaps
  /\ enabled \in BOOLEAN /\ lost \in BOOLEAN /\ promisc \in BOOLEAN
  /\ tries \in 0..Tries /\ count \in Nat /\ kb \in Nat

(* "Wait roughly a given number of milliseconds" (wait): never less,        *)
(* however long the pauses between two reads of the timer are.              *)
NeverEarly == pc = "wait" /\ left <= 0 => elapsed >= asked

(* No wrap of the 8-bit timer is missed: on a machine that reads it at      *)
(* least once a period, wait() returns with the first read that is late     *)
(* enough.                                                                  *)
InTime ==
  pc = "wait" /\ left <= 0 /\ maxGap < Period => elapsed < asked + maxGap \/ asked = 0

(* A program starts a kernel or, if it gives up (assert, __exit), pulses the*)
(* reset line, whatever the serial port and the keyboard controller do.     *)
StartsOrReboots == maxGap < Period => <>(pc \in {"started", "reset", "hung"})

(* The output of the program that bender starts gets out at the controller  *)
(* bender found, the last one of the scan, if that has an I/O port and its  *)
(* transmitter works: the port survives bender in the BIOS data area (main  *)
(* of bender, serial_init).                                                 *)
Candidates == {x \in pci : Scanned(pci, x) /\ x.class[1] = "comm"
                           /\ (promisc \/ x.class = Comm("serial"))}
OutputReachesPort ==
  \A x \in Candidates :
    (\A y \in Candidates : y = x \/ Before(y.at, x.at)) /\ FirstIo(x) # 0
      /\ uart[Iobase(x)] = "works" /\ program = "next" => ~lost
=============================================================================
