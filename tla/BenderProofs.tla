---------------------------- MODULE BenderProofs ----------------------------
(***************************************************************************)
(* Proofs about bender and the program it starts, for every period, delay  *)
(* and machine.  wait() sees only differences of an 8-bit timer; the       *)
(* argument is that what it has counted down never exceeds the ticks up to *)
(* its last reading, and equals them as long as the pauses are shorter     *)
(* than a period.  That output arrives is followed from the bus through    *)
(* the BIOS data area to the line.                                         *)
(***************************************************************************)
EXTENDS Bender, WellFoundedInduction, TLAPS

(* What wait() knows at its last reading, `gap' ticks ago.                  *)
Counting ==
  pc = "wait" =>
    /\ Difference <= gap /\ gap <= maxGap
    /\ asked - left <= elapsed - gap
    /\ maxGap < Period => gap = Difference /\ asked - left = elapsed - gap

(* No service returns into the middle of a wait().                          *)
Returns == ret # "wait"

WaitInv == Returns /\ Counting /\ InTime

LEMMA GapsAreNumbers == ASSUME maxGap \in MaxGaps PROVE maxGap \in Nat /\ maxGap > 0
  BY ConsoleAssumption

(* The parts of the type invariant: the flags and the numbers.              *)
Flags == enabled \in BOOLEAN /\ lost \in BOOLEAN /\ promisc \in BOOLEAN
Numbers ==
  /\ counter \in 0..(Period - 1) /\ old \in 0..(Period - 1) /\ left \in Int
  /\ gap \in Nat /\ asked \in Nat /\ elapsed \in Nat /\ maxGap \in MaxGaps
  /\ tries \in 0..Tries /\ count \in Nat /\ kb \in Nat

LEMMA NumbersStay == ASSUME Numbers, [Next]_vars PROVE Numbers'
<1> USE ConsoleAssumption DEF Numbers, timeVars, lineVars, bootVars, hardware, mainVars
<1>1. CASE ReadTimer /\ UNCHANGED mainVars
  BY <1>1 DEF ReadTimer, Difference
<1>2. CASE WaitDone /\ UNCHANGED mainVars
  BY <1>2 DEF WaitDone
<1>3. CASE SerialSend /\ UNCHANGED mainVars
  <2>1. tries' = Tries \/ (tries > 0 /\ tries' = tries - 1) \/ tries' = tries
    BY <1>3, Zenon DEF SerialSend, NextChar
  <2>2. UNCHANGED <<timeVars, bootVars, hardware>>
    BY <1>3, Zenon DEF SerialSend
  <2> QED
    BY <2>1, <2>2
<1>4. CASE Printed /\ UNCHANGED mainVars
  BY <1>4 DEF Printed
<1>5. CASE Exit /\ UNCHANGED mainVars
  BY <1>5 DEF Exit, Printing
<1>6. CASE NextDot /\ UNCHANGED mainVars
  BY <1>6 DEF NextDot, Wait
<1>7. CASE Dot /\ UNCHANGED mainVars
  BY <1>7 DEF Dot, Printing
<1>8. CASE Reboot /\ UNCHANGED mainVars
  BY <1>8 DEF Reboot, Printing
<1>9. CASE NextPulse /\ UNCHANGED mainVars
  BY <1>9 DEF NextPulse
<1>10. CASE KbBusy /\ UNCHANGED mainVars
  BY <1>10 DEF KbBusy, Wait
<1>11. CASE KbReady /\ UNCHANGED mainVars
  BY <1>11 DEF KbReady
<1>12. CASE Pulse /\ UNCHANGED mainVars
  BY <1>12 DEF Pulse, Wait
<1>13. CASE Hang /\ UNCHANGED mainVars
  BY <1>13 DEF Hang, Printing
<1>14. CASE Banner
  BY <1>14 DEF Banner, Printing
<1>15. CASE FindController
  BY <1>15 DEF FindController
<1>16. CASE PatchBda
  BY <1>16 DEF PatchBda
<1>17. CASE BootNext
  BY <1>17 DEF BootNext, Printing, SerialInit
<1>18. CASE StartModule
  BY <1>18 DEF StartModule
<1>19. CASE NextMain
  BY <1>19 DEF NextMain, Printing, SerialInit
<1>20. CASE Work
  BY <1>20 DEF Work, Printing
<1>21. CASE Tick /\ UNCHANGED mainVars
  BY <1>21 DEF Tick
<1>22. CASE UNCHANGED vars
  BY <1>22 DEF vars
<1> QED
  BY <1>1, <1>2, <1>3, <1>4, <1>5, <1>6, <1>7, <1>8, <1>9, <1>10, <1>11, <1>12, <1>13,
     <1>14, <1>15, <1>16, <1>17, <1>18, <1>19, <1>20, <1>21, <1>22
     DEF Next, Program, Service, TimerRuns

LEMMA FlagsStay == ASSUME Flags, [Next]_vars PROVE Flags'
<1> USE DEF Flags, timeVars, lineVars, bootVars, hardware, mainVars
<1>1. CASE ReadTimer /\ UNCHANGED mainVars
  BY <1>1 DEF ReadTimer
<1>2. CASE WaitDone /\ UNCHANGED mainVars
  BY <1>2 DEF WaitDone
<1>3. CASE SerialSend /\ UNCHANGED mainVars
  BY <1>3 DEF SerialSend, NextChar
<1>4. CASE Printed /\ UNCHANGED mainVars
  BY <1>4 DEF Printed
<1>5. CASE Exit /\ UNCHANGED mainVars
  BY <1>5 DEF Exit, Printing
<1>6. CASE NextDot /\ UNCHANGED mainVars
  BY <1>6 DEF NextDot, Wait
<1>7. CASE Dot /\ UNCHANGED mainVars
  BY <1>7 DEF Dot, Printing
<1>8. CASE Reboot /\ UNCHANGED mainVars
  BY <1>8 DEF Reboot, Printing
<1>9. CASE NextPulse /\ UNCHANGED mainVars
  BY <1>9 DEF NextPulse
<1>10. CASE KbBusy /\ UNCHANGED mainVars
  BY <1>10 DEF KbBusy, Wait
<1>11. CASE KbReady /\ UNCHANGED mainVars
  BY <1>11 DEF KbReady
<1>12. CASE Pulse /\ UNCHANGED mainVars
  BY <1>12 DEF Pulse, Wait
<1>13. CASE Hang /\ UNCHANGED mainVars
  BY <1>13 DEF Hang, Printing
<1>14. CASE Banner
  BY <1>14 DEF Banner, Printing
<1>15. CASE FindController
  BY <1>15 DEF FindController
<1>16. CASE PatchBda
  BY <1>16 DEF PatchBda
<1>17. CASE BootNext
  BY <1>17 DEF BootNext, Printing, SerialInit
<1>18. CASE StartModule
  BY <1>18 DEF StartModule
<1>19. CASE NextMain
  BY <1>19 DEF NextMain, Printing, SerialInit
<1>20. CASE Work
  BY <1>20 DEF Work, Printing
<1>21. CASE Tick /\ UNCHANGED mainVars
  BY <1>21 DEF Tick
<1>22. CASE UNCHANGED vars
  BY <1>22 DEF vars
<1> QED
  BY <1>1, <1>2, <1>3, <1>4, <1>5, <1>6, <1>7, <1>8, <1>9, <1>10, <1>11, <1>12, <1>13,
     <1>14, <1>15, <1>16, <1>17, <1>18, <1>19, <1>20, <1>21, <1>22
     DEF Next, Program, Service, TimerRuns

(* Nothing but wait() and the ticks change the timer, and every number stays *)
(* in its range (TypeOK).                                                   *)
THEOREM TypeCorrect == Spec => []TypeOK
<1>1. Init => Numbers
  BY ConsoleAssumption DEF Init, ConsoleInit, Numbers
<1>2. Init => Flags
  BY DEF Init, ConsoleInit, Flags
<1>3. Numbers /\ Flags <=> TypeOK
  BY Zenon DEF Numbers, Flags, TypeOK
<1> QED
  BY <1>1, <1>2, <1>3, NumbersStay, FlagsStay, PTL DEF Spec

(* A step that neither is nor begins a wait().                              *)
LEMMA OutsideWait == ASSUME pc' # "wait", ret' # "wait" PROVE WaitInv'
  BY DEF WaitInv, Returns, Counting, InTime

LEMMA WaitBegins ==
  ASSUME TypeOK, NEW ms \in Nat, NEW then, then # "wait", Wait(ms, then), UNCHANGED hardware
  PROVE  WaitInv'
<1>1. Ms * ms \in Nat /\ maxGap \in Nat
  BY ConsoleAssumption, GapsAreNumbers DEF TypeOK
<1>2. Difference' = 0
  BY DEF Wait, Difference
<1>3. Counting'
  BY <1>1, <1>2 DEF Counting, Wait, hardware
<1>4. InTime'
  BY <1>1 DEF InTime, Wait, hardware
<1> QED
  BY <1>3, <1>4 DEF WaitInv, Returns, Wait

(* A tick: the timer and the ticks since the last reading move together,    *)
(* and only a wrap makes the difference smaller.                            *)
LEMMA TickCounts == ASSUME TypeOK, WaitInv, Tick PROVE WaitInv'
<1>1. maxGap \in Nat
  BY GapsAreNumbers DEF TypeOK
<1>2. UNCHANGED <<pc, ret, old, left, asked, maxGap>> /\ pc = "wait" /\ left > 0 /\ gap < maxGap
  BY DEF Tick, hardware
<1>3. /\ counter \in 0..(Period - 1) /\ old \in 0..(Period - 1) /\ left \in Int
      /\ gap \in Nat /\ asked \in Nat /\ elapsed \in Nat /\ Period \in Nat /\ Period > 0
  BY ConsoleAssumption DEF TypeOK
<1>4. counter' = IF counter = 0 THEN Period - 1 ELSE counter - 1
  BY DEF Tick
<1>5. gap' = gap + 1 /\ elapsed' = elapsed + 1
  BY DEF Tick
<1>6. Difference' = IF Difference = Period - 1 THEN 0 ELSE Difference + 1
  BY <1>2, <1>3, <1>4 DEF Difference
<1>7. Difference \in 0..(Period - 1)
  BY <1>3 DEF Difference
<1>8. Counting'
  BY <1>1, <1>2, <1>3, <1>5, <1>6, <1>7 DEF WaitInv, Counting
<1>9. InTime'
  BY <1>2, <1>3 DEF InTime
<1> QED
  BY <1>2, <1>8, <1>9 DEF WaitInv, Returns

(* A reading: the difference is added to what has been counted; a reading   *)
(* that ends the wait comes at most one pause after the time was over.      *)
LEMMA ReadCounts == ASSUME TypeOK, WaitInv, ReadTimer PROVE WaitInv'
<1>1. maxGap \in Nat
  BY GapsAreNumbers DEF TypeOK
<1>2. UNCHANGED <<pc, ret, counter, asked, elapsed, maxGap>> /\ pc = "wait" /\ left > 0
  BY DEF ReadTimer, hardware
<1>3. /\ counter \in 0..(Period - 1) /\ old \in 0..(Period - 1) /\ left \in Int
      /\ gap \in Nat /\ asked \in Nat /\ elapsed \in Nat /\ Period \in Nat /\ Period > 0
  BY ConsoleAssumption DEF TypeOK
<1>4. left' = left - Difference /\ old' = counter /\ gap' = 0
  BY DEF ReadTimer
<1>5. Difference' = 0 /\ Difference \in 0..(Period - 1)
  BY <1>2, <1>3, <1>4 DEF Difference
<1>6. Counting'
  BY <1>1, <1>2, <1>3, <1>4, <1>5 DEF WaitInv, Counting
<1>7. InTime'
  BY <1>1, <1>2, <1>3, <1>4, <1>5 DEF WaitInv, Counting, InTime
<1> QED
  BY <1>2, <1>6, <1>7 DEF WaitInv, Returns

LEMMA WaitInvStays == ASSUME TypeOK, WaitInv, [Next]_vars PROVE WaitInv'
<1> USE DEF WaitInv, Returns
<1>1. CASE ReadTimer
  BY <1>1, ReadCounts
<1>2. CASE Tick
  BY <1>2, TickCounts
<1>3. CASE WaitDone
  BY <1>3, OutsideWait DEF WaitDone
<1>4. CASE SerialSend
  BY <1>4, OutsideWait DEF SerialSend
<1>5. CASE Printed
  BY <1>5, OutsideWait DEF Printed
<1>6. CASE Exit
  BY <1>6, OutsideWait DEF Exit, Printing
<1>7. CASE Dot
  BY <1>7, OutsideWait DEF Dot, Printing
<1>8. CASE Reboot
  BY <1>8, OutsideWait DEF Reboot, Printing
<1>9. CASE NextPulse
  BY <1>9, OutsideWait DEF NextPulse
<1>10. CASE KbReady
  BY <1>10, OutsideWait DEF KbReady
<1>11. CASE Hang
  BY <1>11, OutsideWait DEF Hang, Printing
<1>12. CASE NextDot
  BY <1>12, ConsoleAssumption, WaitBegins DEF NextDot
<1>13. CASE KbBusy
  BY <1>13, WaitBegins DEF KbBusy
<1>14. CASE Pulse
  BY <1>14, WaitBegins, OutsideWait DEF Pulse
<1>15. CASE Banner
  BY <1>15, OutsideWait DEF Banner, Printing
<1>16. CASE FindController
  BY <1>16, OutsideWait DEF FindController
<1>17. CASE PatchBda
  BY <1>17, OutsideWait DEF PatchBda
<1>18. CASE BootNext
  BY <1>18, OutsideWait DEF BootNext, Printing
<1>19. CASE StartModule
  BY <1>19, OutsideWait DEF StartModule
<1>20. CASE NextMain
  BY <1>20, OutsideWait DEF NextMain, Printing
<1>21. CASE Work
  BY <1>21, OutsideWait DEF Work, Printing
<1>22. CASE UNCHANGED vars
  BY <1>22 DEF vars, timeVars, hardware, Counting, InTime, Difference
<1> QED
  BY <1>1, <1>2, <1>3, <1>4, <1>5, <1>6, <1>7, <1>8, <1>9, <1>10, <1>11, <1>12, <1>13, <1>14, <1>15, <1>16, <1>17, <1>18, <1>19, <1>20, <1>21, <1>22
     DEF Next, Program, Service, TimerRuns

LEMMA WaitInvariant == Spec => []WaitInv
<1>1. Init => WaitInv
  BY DEF Init, ConsoleInit, WaitInv, Returns, Counting, InTime
<1> QED
  BY <1>1, TypeCorrect, WaitInvStays, PTL DEF Spec

(* wait() never returns before the time is over, whatever the pauses        *)
(* between two readings: wraps that it misses only make it wait longer.     *)
THEOREM NotEarly == Spec => []NeverEarly
<1>1. TypeOK /\ WaitInv => NeverEarly
  BY DEF TypeOK, WaitInv, Counting, NeverEarly
<1> QED
  BY <1>1, TypeCorrect, WaitInvariant, PTL

(* If the timer is read at least once a period, wait() ends with the first  *)
(* reading after the time is over.                                          *)
THEOREM EndsInTime == Spec => []InTime
  BY WaitInvariant, PTL DEF WaitInv
-----------------------------------------------------------------------------
(* The output of the next program.  bender's main() is followed through its *)
(* calls of printf; `At' is where the program is, or where it goes on when  *)
(* a service is done.                                                       *)
At == IF pc \in {"print", "wait"} THEN ret ELSE pc
Leaving == {"work", "started", "exit", "dots", "dot", "pulses", "kbWait", "pulse", "reset", "hung"}

Positions ==
  /\ ret \notin {"print", "wait"}
  /\ program = "next" => At \in {"main"} \cup Leaving

IsLast(x) == x \in Candidates /\ \A y \in Candidates : y = x \/ Before(y.at, x.at)

(* The last controller is chosen, and its port stays in the data area.      *)
Patched ==
  \A x \in pci : IsLast(x) /\ FirstIo(x) # 0 =>
    /\ At = "patch" => dev = x
    /\ At \in {"bootNext", "startModule"} \/ program = "next" => bda.com0 = Iobase(x)

(* The next program opens that port and never gives it up.                  *)
Opened ==
  \A x \in pci : IsLast(x) /\ FirstIo(x) # 0 /\ uart[Iobase(x)] = "works" /\ program = "next" =>
    ~lost /\ (pc = "main" \/ (enabled /\ com = Iobase(x)))

OutputInv == pci \in Buses /\ Positions /\ Patched /\ Opened
-----------------------------------------------------------------------------
(* The first of a set of positions is one of them.                          *)
Less == {p \in Nat \X Nat : p[1] < p[2]}

LEMMA LessWellFounded == IsWellFoundedOn(Less, Nat)
<1>1. Less \cap (Nat \X Nat) \subseteq OpToRel(<, Nat)
  BY Zenon DEF Less, OpToRel
<1> QED
  BY <1>1, NatLessThanWellFounded, IsWellFoundedOnSubrelation, Zenon

LEMMA LeastIsIn == ASSUME NEW T, T \subseteq Nat, T # {} PROVE Min(T) \in T
<1>1. PICK x \in T : \A y \in T : ~(<<y, x>> \in Less)
  BY LessWellFounded, WFMin, Zenon
<1>2. ASSUME NEW y \in T PROVE x <= y
  <2>1. <<y, x>> \notin Less /\ x \in Nat /\ y \in Nat
    BY <1>1
  <2> QED
    BY <2>1 DEF Less
<1> QED
  BY <1>2 DEF Min

(* The port in a base address register is a number, and with a chip whose   *)
(* port is elsewhere it is still not 0.                                     *)
LEMMA PortIsSome ==
  ASSUME pci \in Buses, NEW x \in pci, FirstIo(x) # 0 PROVE Iobase(x) # 0
<1> DEFINE Bar == [io : BOOLEAN, addr : Nat]
<1>0. x.bars \in Seq(Bar) /\ Quirk \in Nat
  BY BusAssumption
<1> HIDE DEF Bar
<1>1. Len(x.bars) \in Nat /\ \A k \in 1..Len(x.bars) : x.bars[k] \in Bar
  BY <1>0
<1> DEFINE I == {i \in 1..Len(x.bars) : x.bars[i].io}
<1>2. PICK k : k = SelectInSeq(x.bars, LAMBDA b : b.io) /\ k = (IF I # {} THEN Min(I) ELSE 0)
  BY DEF SelectInSeq
<1>3. I # {} => Min(I) \in I
  <2>1. I \subseteq Nat
    BY <1>1
  <2> HIDE DEF I
  <2> QED
    BY <2>1, LeastIsIn
<1>4. k = 0 \/ k \in 1..Len(x.bars)
  BY <1>2, <1>3
<1>5. FirstIo(x) = IF k = 0 THEN 0 ELSE x.bars[k].addr
  BY <1>2 DEF FirstIo
<1>6. FirstIo(x) \in Nat
  BY <1>1, <1>4, <1>5 DEF Bar
<1> QED
  BY <1>0, <1>6 DEF Iobase

(* FindController takes the controller the scan comes to last.              *)
LEMMA LastIsOnlyOne ==
  ASSUME pci \in Buses, NEW x, IsLast(x) PROVE LastOf(Candidates) = x
<1> DEFINE z == LastOf(Candidates)
<1>1. x \in Candidates /\ \A y \in Candidates : y = x \/ Before(y.at, x.at)
  BY DEF IsLast
<1>2. z \in Candidates /\ \A y \in Candidates : y = z \/ Before(y.at, z.at)
  BY <1>1, Zenon DEF LastOf
<1>3. x.at \in Address /\ z.at \in Address
  BY <1>1, <1>2, BusAssumption DEF Candidates
<1>4. ~(Before(x.at, z.at) /\ Before(z.at, x.at))
  <2>1. \A a \in Address : a[1] \in Int /\ a[2] \in Int /\ a[3] \in Int
    BY DEF Address
  <2> HIDE DEF z
  <2> QED
    BY <1>3, <2>1 DEF Before
<1> QED
  BY <1>1, <1>2, <1>4, Zenon

LEMMA WhatIsFound == UNION {OfClass(pci, c) : c \in Classes(promisc)} = Candidates
<1>1. \A x \in pci : x.class \in Classes(promisc) <=>
        IF promisc THEN \E y \in pci : y.class[1] = "comm" /\ x.class = y.class
                   ELSE x.class = Comm("serial")
  BY DEF Classes
<1>2. Comm("serial")[1] = "comm"
  BY DEF Comm
<1>3. \A x \in pci : x.class \in Classes(promisc) <=>
        x.class[1] = "comm" /\ (promisc \/ x.class = Comm("serial"))
  BY <1>1, <1>2, Zenon
<1> QED
  <2>1. \A x : x \in UNION {OfClass(pci, c) : c \in Classes(promisc)} <=>
              x \in pci /\ Scanned(pci, x) /\ x.class \in Classes(promisc)
    <3> TAKE x
    <3>1. x \in UNION {OfClass(pci, c) : c \in Classes(promisc)}
            <=> \E c \in Classes(promisc) : x \in OfClass(pci, c)
      OBVIOUS
    <3> QED
      BY <3>1, Zenon DEF OfClass
  <2> QED
    BY <1>3, <2>1, Zenon DEF Candidates

LEMMA SameLast == ASSUME UNCHANGED <<pci, promisc>> PROVE \A x : IsLast(x)' <=> IsLast(x)
<1>1. Candidates' = Candidates
  BY DEF Candidates
<1> QED
  BY <1>1, Zenon DEF IsLast

(* Steps that leave bender's data and the line alone, and go nowhere new.   *)
LEMMA Unmoved ==
  ASSUME OutputInv, UNCHANGED <<mainVars, uart, com, enabled, lost>>,
         ret' \notin {"print", "wait"}, pc = "main" => pc' = "main" \/ program # "next",
         At' = At \/ At' \in Leaving \/ (At' = "find" /\ program # "next")
  PROVE  OutputInv'
<1> USE DEF mainVars
<1>1. Positions'
  BY DEF OutputInv, Positions
<1>2. Leaving \cap {"patch", "bootNext", "startModule"} = {}
  BY DEF Leaving
<1>3. \A x : IsLast(x)' <=> IsLast(x)
  BY SameLast
<1>4. Patched'
  BY <1>2, <1>3 DEF OutputInv, Patched
<1>5. Opened'
  BY <1>3 DEF OutputInv, Opened
<1> QED
  BY <1>1, <1>4, <1>5 DEF OutputInv

(* A character: a port that works takes it before the tries are over.       *)
LEMMA SendKeeps == ASSUME OutputInv, SerialSend, UNCHANGED mainVars PROVE OutputInv'
<1>1. UNCHANGED <<pc, ret, com, uart, pci, promisc, bda, dev, program>> /\ pc = "print"
  BY DEF SerialSend, hardware, mainVars
<1>2. At' = At
  BY <1>1 DEF At
<1>3. \A x : IsLast(x)' <=> IsLast(x)
  BY <1>1, SameLast
<1>4. Positions' /\ Patched' /\ (pci \in Buses)'
  BY <1>1, <1>2, <1>3 DEF OutputInv, Positions, Patched
<1>5. ASSUME enabled, uart[com] = "works" PROVE enabled' /\ (lost' => lost)
  <2>1. ~(FALSE \in Ready /\ tries = 0)
    BY <1>5 DEF Ready
  <2>2. uart[com] \in {"works", "slow"}
    BY <1>5
  <2>3. CASE NextChar /\ UNCHANGED enabled /\ lost' = (lost \/ uart[com] \notin {"works", "slow"})
    BY <1>5, <2>2, <2>3
  <2>4. CASE UNCHANGED <<todo, lost, enabled>>
    BY <1>5, <2>4
  <2> QED
    BY <1>5, <2>1, <2>3, <2>4, Zenon DEF SerialSend
<1>6. Opened'
  BY <1>1, <1>3, <1>5 DEF OutputInv, Opened
<1> QED
  BY <1>4, <1>6 DEF OutputInv

LEMMA FindKeeps == ASSUME OutputInv, FindController PROVE OutputInv'
<1>1. UNCHANGED <<ret, com, enabled, lost, uart, pci, promisc, bda, program>> /\ pc = "find"
  BY DEF FindController, lineVars, hardware
<1>2. At = "find" /\ program # "next"
  BY <1>1 DEF At, OutputInv, Positions, Leaving
<1>3. \A x : IsLast(x)' <=> IsLast(x)
  BY <1>1, SameLast
<1>4. IF Candidates = {} THEN pc' = "bootNext" ELSE pc' = "patch" /\ dev' = LastOf(Candidates)
  BY WhatIsFound DEF FindController
<1>5. At' = pc'
  BY <1>4 DEF At
<1>6. Patched'
  <2> SUFFICES ASSUME NEW x \in pci, IsLast(x) PROVE pc' = "patch" /\ dev' = x
    BY <1>1, <1>2, <1>3, <1>5 DEF Patched
  <2> QED
    BY <1>4, LastIsOnlyOne DEF IsLast, OutputInv
<1>7. Positions' /\ Opened' /\ (pci \in Buses)'
  BY <1>1, <1>2 DEF OutputInv, Positions, Opened
<1> QED
  BY <1>6, <1>7 DEF OutputInv

LEMMA PatchKeeps == ASSUME OutputInv, PatchBda PROVE OutputInv'
<1>1. UNCHANGED <<ret, com, enabled, lost, uart, pci, promisc, dev, program>>
      /\ pc = "patch" /\ pc' = "bootNext"
  BY DEF PatchBda, lineVars, hardware
<1>2. At = "patch" /\ At' = "bootNext" /\ program # "next"
  BY <1>1 DEF At, OutputInv, Positions, Leaving
<1>3. \A x : IsLast(x)' <=> IsLast(x)
  BY <1>1, SameLast
<1>4. Patched'
  <2> SUFFICES ASSUME NEW x \in pci, IsLast(x), FirstIo(x) # 0 PROVE bda'.com0 = Iobase(x)
    BY <1>1, <1>2, <1>3 DEF Patched
  <2>1. dev = x /\ Iobase(x) # 0
    BY <1>2, PortIsSome DEF OutputInv, Patched
  <2> QED
    BY <2>1 DEF PatchBda
<1>5. Positions' /\ Opened' /\ (pci \in Buses)'
  BY <1>1, <1>2 DEF OutputInv, Positions, Opened
<1> QED
  BY <1>4, <1>5 DEF OutputInv

(* bender opens the port it found, or none: what it loses is not looked at. *)
LEMMA BootNextKeeps == ASSUME OutputInv, BootNext PROVE OutputInv'
<1>1. UNCHANGED <<uart, mainVars>> /\ pc = "bootNext" /\ pc' = "print" /\ ret' = "startModule"
  BY DEF BootNext, Printing, hardware
<1>2. At = "bootNext" /\ At' = "startModule" /\ program # "next"
  BY <1>1 DEF At, OutputInv, Positions, Leaving
<1>3. \A x : IsLast(x)' <=> IsLast(x)
  BY <1>1, SameLast DEF mainVars
<1>4. Patched'
  BY <1>1, <1>2, <1>3 DEF OutputInv, Patched, mainVars
<1>5. Positions' /\ Opened' /\ (pci \in Buses)'
  BY <1>1, <1>2 DEF OutputInv, Positions, Opened, mainVars
<1> QED
  BY <1>4, <1>5 DEF OutputInv

LEMMA StartKeeps == ASSUME OutputInv, StartModule PROVE OutputInv'
<1>1. UNCHANGED <<ret, uart, pci, promisc, bda, dev>> /\ pc = "startModule"
      /\ ((pc' = "main" /\ program' = "next" /\ lost' = FALSE)
          \/ (pc' = "exit" /\ UNCHANGED program))
  BY DEF StartModule, hardware
<1>2. At = "startModule" /\ At' = pc' /\ program # "next"
  BY <1>1 DEF At, OutputInv, Positions, Leaving
<1>3. \A x : IsLast(x)' <=> IsLast(x)
  BY <1>1, SameLast
<1>4. Patched'
  BY <1>1, <1>2, <1>3 DEF OutputInv, Patched
<1>5. Positions' /\ Opened' /\ (pci \in Buses)'
  BY <1>1, <1>2 DEF OutputInv, Positions, Opened, Leaving
<1> QED
  BY <1>4, <1>5 DEF OutputInv

LEMMA NextMainKeeps == ASSUME OutputInv, NextMain PROVE OutputInv'
<1>1. UNCHANGED <<lost, uart, mainVars>> /\ pc = "main" /\ program = "next"
      /\ pc' = "print" /\ ret' = "work" /\ com' = bda.com0 /\ enabled' = TRUE
  BY DEF NextMain, Printing, SerialInit, hardware
<1>2. At = "main" /\ At' = "work"
  BY <1>1 DEF At
<1>3. \A x : IsLast(x)' <=> IsLast(x)
  BY <1>1, SameLast DEF mainVars
<1>4. Patched'
  BY <1>1, <1>2, <1>3 DEF OutputInv, Patched, mainVars
<1>5. Opened'
  BY <1>1, <1>3 DEF OutputInv, Patched, Opened, mainVars
<1>6. Positions' /\ (pci \in Buses)'
  BY <1>1, <1>2 DEF OutputInv, Positions, Leaving, mainVars
<1> QED
  BY <1>4, <1>5, <1>6 DEF OutputInv

LEMMA OutputStays == ASSUME OutputInv, [Next]_vars PROVE OutputInv'
<1> USE Unmoved DEF At, Leaving, timeVars, lineVars, hardware
<1>0. ret \notin {"print", "wait"}
  BY DEF OutputInv, Positions
<1>1. CASE ReadTimer /\ UNCHANGED mainVars
  BY <1>0, <1>1 DEF ReadTimer
<1>2. CASE WaitDone /\ UNCHANGED mainVars
  BY <1>0, <1>2 DEF WaitDone
<1>3. CASE SerialSend /\ UNCHANGED mainVars
  BY <1>3, SendKeeps
<1>4. CASE Printed /\ UNCHANGED mainVars
  BY <1>0, <1>4 DEF Printed
<1>5. CASE Exit /\ UNCHANGED mainVars
  BY <1>5 DEF Exit, Printing
<1>6. CASE NextDot /\ UNCHANGED mainVars
  BY <1>6 DEF NextDot, Wait
<1>7. CASE Dot /\ UNCHANGED mainVars
  BY <1>7 DEF Dot, Printing
<1>8. CASE Reboot /\ UNCHANGED mainVars
  BY <1>8 DEF Reboot, Printing
<1>9. CASE NextPulse /\ UNCHANGED mainVars
  BY <1>0, <1>9 DEF NextPulse
<1>10. CASE KbBusy /\ UNCHANGED mainVars
  BY <1>10 DEF KbBusy, Wait
<1>11. CASE KbReady /\ UNCHANGED mainVars
  BY <1>0, <1>11 DEF KbReady
<1>12. CASE Pulse /\ UNCHANGED mainVars
  BY <1>0, <1>12 DEF Pulse, Wait
<1>13. CASE Hang /\ UNCHANGED mainVars
  BY <1>13 DEF Hang, Printing
<1>14. CASE Banner
  BY <1>14 DEF Banner, Printing
<1>15. CASE FindController
  BY <1>15, FindKeeps
<1>16. CASE PatchBda
  BY <1>16, PatchKeeps
<1>17. CASE BootNext
  BY <1>17, BootNextKeeps
<1>18. CASE StartModule
  BY <1>18, StartKeeps
<1>19. CASE NextMain
  BY <1>19, NextMainKeeps
<1>20. CASE Work
  BY <1>0, <1>20 DEF Work, Printing
<1>21. CASE Tick /\ UNCHANGED mainVars
  BY <1>0, <1>21 DEF Tick
<1>22. CASE UNCHANGED vars
  BY <1>0, <1>22 DEF vars
<1> QED
  BY <1>1, <1>2, <1>3, <1>4, <1>5, <1>6, <1>7, <1>8, <1>9, <1>10, <1>11, <1>12, <1>13,
     <1>14, <1>15, <1>16, <1>17, <1>18, <1>19, <1>20, <1>21, <1>22
     DEF Next, Program, Service, TimerRuns

(* The port of the last serial controller survives bender in the BIOS data  *)
(* area: what the next program prints gets out there, if its transmitter    *)
(* works.                                                                   *)
THEOREM OutputArrives == Spec => []OutputReachesPort
<1>1. Init => OutputInv
  BY DEF Init, ConsoleInit, OutputInv, Positions, Patched, Opened, At
<1>2. OutputInv => OutputReachesPort
  BY DEF OutputInv, Opened, OutputReachesPort, IsLast, Candidates
<1> QED
  BY <1>1, <1>2, OutputStays, PTL DEF Spec
=============================================================================
