----------------------------- MODULE OhciProofs -----------------------------
(***************************************************************************)
(* Proofs about Ohci.tla, for every value of its constants.  The argument  *)
(* is layered; each layer is inductive given the ones before:              *)
(*   RegistersOK, CountersOK /\ LpsCounts   together imply TypeOK          *)
(*   ClockInv    the PHY is used only while its clock runs                 *)
(*   LinkInv     no bus reset is lost: HandlerCanFinish, ClosedFilterIsSeen*)
(*   GenInv      what the generation tells after the forced reset          *)
(* and on LinkInv rests that every step is a step of RemoteDma.            *)
(***************************************************************************)
EXTENDS Ohci, TLAPS

(* The LPS loop is entered with an attempt left.                            *)
LpsCounts == pc \in LpsPc => lpsRetries > 0

(* LPS is never off while SCLK runs, and a probe of the PHY that did not    *)
(* fail at once was sent to a running clock.                                *)
ClockInv ==
  /\ sclk => lps
  /\ pc = "lpsSample" /\ phyRead \in {"pending", "done"} => sclk
  /\ PhyHasClock

(* Where the driver may be while the link is up.                            *)
LinkPc == ForcePc \cup {"initPoll", "check", "mainPoll"} \cup HandlerPc \cup StoppedPc

(* The link comes up with self-IDs received and every filter open, and only *)
(* a controller with its link up reports bus resets; before the soft reset  *)
(* nothing is known.                                                        *)
LinkInv ==
  /\ SoftResetDone /\ linkEnable => pc \in LinkPc /\ rcvSelfID
  /\ SoftResetDone /\ "busReset" \in intEvent => linkEnable
  /\ SoftResetDone /\ pc \in {"crom", "linkOn"} => rcvSelfID
  /\ SoftResetDone /\ pc \in {"selfIdBuf", "crom", "linkOn"} => filter = Open
  /\ HandlerCanFinish /\ ClosedFilterIsSeen

(* From the saved generation to the check: how many resets the generation   *)
(* shows, and how many there can have been.                                 *)
Initializing == pc \in {"force", "initPoll", "check"}
                \/ (pc \in HandlerPc /\ caller = "initPoll")
ForcedDone == pc # "force" /\ ~ibr
ResetsShown == IF generation >= savedGen THEN generation - savedGen
                                         ELSE generation - savedGen + GenMod
GenInv ==
  /\ pc \in {"checkVersion", "softReset", "linkOff"} \cup LpsPc \cup SetupPc \cup ForcePc
       => ~ibr /\ ~warned
  /\ Initializing => ~warned
  /\ Initializing =>
       \/ resets >= GenMod - 1
       \/ /\ ResetsShown <= resets + (IF ForcedDone THEN 1 ELSE 0)
          /\ ForcedDone => ResetsShown >= 1

-----------------------------------------------------------------------------
(* Types.                                                                   *)

LEMMA RegistersInit == Init => RegistersOK
BY DEF Init, RegistersOK, Pc, Closed, Open, Events

(* Every action leaves registers and program counter in their types.        *)
LEMMA RegistersStep == RegistersOK /\ [Next]_vars => RegistersOK'
<1> SUFFICES ASSUME RegistersOK, [Next]_vars PROVE RegistersOK'
  OBVIOUS
<1> USE DEF RegistersOK, clockVars, linkVars, busVars, initVars, Pc, LpsPc,
   SetupPc, ForcePc, HandlerPc, StoppedPc
<1>0. CASE CheckVersion
  BY <1>0 DEF CheckVersion, Goto
<1>1. CASE SoftReset
  BY <1>1 DEF SoftReset, Goto, Closed
<1>2. CASE LinkOff
  BY <1>2 DEF LinkOff, Goto
<1>3. CASE LpsOn
  BY <1>3 DEF LpsOn, Goto
<1>4. CASE LpsProbe
  BY <1>4 DEF LpsProbe, Goto, Events
<1>5. CASE LpsSample
  BY <1>5 DEF LpsSample, ProbeAnswered
<1>6. CASE LpsNext
  BY <1>6 DEF LpsNext
<1>7. CASE PhySetup
  BY <1>7 DEF PhySetup, Goto
<1>8. CASE AcceptRequests
  BY <1>8 DEF AcceptRequests, Goto, Open
<1>9. CASE SetSelfIdBuffer
  BY <1>9 DEF SetSelfIdBuffer, Goto
<1>10. CASE LoadCrom
  BY <1>10 DEF LoadCrom, Goto
<1>11. CASE LinkOn
  BY <1>11 DEF LinkOn, Goto
<1>12. CASE SaveGeneration
  BY <1>12 DEF SaveGeneration, Goto
<1>13. CASE ForceBusReset
  BY <1>13 DEF ForceBusReset, Goto
<1>14. CASE InitPolled
  BY <1>14 DEF InitPolled, Goto
<1>15. CASE CheckGeneration
  BY <1>15 DEF CheckGeneration, Goto
<1>16. CASE Poll
  BY <1>16 DEF Poll
<1>17. CASE StopAT
  BY <1>17 DEF StopAT, Goto
<1>18. CASE WaitSelfId
  BY <1>18 DEF WaitSelfId, Goto
<1>19. CASE ClearEvents
  BY <1>19 DEF ClearEvents, Goto
<1>20. CASE OpenAsReqHi
  <2>1. filter' \in [FilterRegs -> BOOLEAN]
    BY <1>20 DEF OpenAsReqHi, OpenFilter
  <2>2. pc' \in Pc
    BY <1>20 DEF OpenAsReqHi, OpenFilter, Goto
  <2>3. UNCHANGED <<supported, caller, warned, clockVars, linkVars, intEvent, selfIdPhase, ibr>>
    BY <1>20 DEF OpenAsReqHi, OpenFilter
  <2> QED
    BY <2>1, <2>2, <2>3
<1>21. CASE OpenAsReqLo
  <2>1. filter' \in [FilterRegs -> BOOLEAN]
    BY <1>21 DEF OpenAsReqLo, OpenFilter
  <2>2. pc' \in Pc
    BY <1>21 DEF OpenAsReqLo, OpenFilter, Goto
  <2>3. UNCHANGED <<supported, caller, warned, clockVars, linkVars, intEvent, selfIdPhase, ibr>>
    BY <1>21 DEF OpenAsReqLo, OpenFilter
  <2> QED
    BY <2>1, <2>2, <2>3
<1>22. CASE OpenPhyReqHi
  <2>1. filter' \in [FilterRegs -> BOOLEAN]
    BY <1>22 DEF OpenPhyReqHi, OpenFilter
  <2>2. pc' \in Pc
    BY <1>22 DEF OpenPhyReqHi, OpenFilter, Goto
  <2>3. UNCHANGED <<supported, caller, warned, clockVars, linkVars, intEvent, selfIdPhase, ibr>>
    BY <1>22 DEF OpenPhyReqHi, OpenFilter
  <2> QED
    BY <2>1, <2>2, <2>3
<1>23. CASE OpenPhyReqLo
  <2>1. filter' \in [FilterRegs -> BOOLEAN]
    BY <1>23 DEF OpenPhyReqLo, OpenFilter
  <2>2. pc' \in Pc
    BY <1>23 DEF OpenPhyReqLo, OpenFilter, Goto
  <2>3. UNCHANGED <<supported, caller, warned, clockVars, linkVars, intEvent, selfIdPhase, ibr>>
    BY <1>23 DEF OpenPhyReqLo, OpenFilter
  <2> QED
    BY <2>1, <2>2, <2>3
<1>24. CASE Exit
  BY <1>24 DEF Exit, WaitPc
<1>25. CASE MainFailed
  BY <1>25 DEF MainFailed, Goto
<1>26. CASE MainLeaves
  BY <1>26 DEF MainLeaves, Goto
<1>27. CASE SclkStarts
  BY <1>27 DEF SclkStarts
<1>28. CASE PhyReadDone
  BY <1>28 DEF PhyReadDone
<1>29. CASE BusReset
  <2>1. filter' \in [FilterRegs -> BOOLEAN]
    BY <1>29 DEF BusReset, Closed
  <2>2. intEvent' \in SUBSET Events
    BY <1>29 DEF BusReset, Events
  <2>3. selfIdPhase' \in BOOLEAN /\ ibr' \in BOOLEAN
    BY <1>29 DEF BusReset
  <2>4. UNCHANGED <<supported, pc, caller, warned, clockVars, linkVars>>
    BY <1>29 DEF BusReset
  <2> QED
    BY <2>1, <2>2, <2>3, <2>4
<1>30. CASE SelfIdDone
  <2>1. intEvent' \in SUBSET Events
    BY <1>30 DEF SelfIdDone, Events
  <2>2. UNCHANGED <<supported, pc, caller, warned, clockVars, linkVars, filter, ibr>>
    BY <1>30 DEF SelfIdDone
  <2>3. selfIdPhase' \in BOOLEAN
    BY <1>30 DEF SelfIdDone
  <2> QED
    BY <2>1, <2>2, <2>3
<1>31. CASE ErrorEvent
  BY <1>31 DEF ErrorEvent, Events
<1>32. CASE UNCHANGED vars
  BY <1>32 DEF vars
<1> QED
  BY <1>0, <1>1, <1>2, <1>3, <1>4, <1>5, <1>6, <1>7, <1>8, <1>9, <1>10,
     <1>11, <1>12, <1>13, <1>14, <1>15, <1>16, <1>17, <1>18, <1>19, <1>20, <1>21,
     <1>22, <1>23, <1>24, <1>25, <1>26, <1>27, <1>28, <1>29, <1>30, <1>31,
     <1>32 DEF Next, Driver, Initialize, HandleBusReset, Controller

LEMMA RegistersCorrect == Spec => []RegistersOK
BY RegistersInit, RegistersStep, PTL DEF Spec

LEMMA CountersInit == Init => CountersOK /\ LpsCounts
BY OhciAssumption DEF Init, CountersOK, LpsCounts, LpsPc

(* Every loop counter stays in its range: it is tested before it is changed. *)
LEMMA CountersStep ==
  RegistersOK /\ CountersOK /\ LpsCounts /\ [Next]_vars => CountersOK' /\ LpsCounts'
<1> SUFFICES ASSUME RegistersOK, CountersOK, LpsCounts, [Next]_vars
             PROVE  CountersOK' /\ LpsCounts'
  OBVIOUS
<1> USE OhciAssumption DEF CountersOK, LpsCounts, lpsVars, initVars, busVars,
   LpsPc
<1>0. CASE CheckVersion
  BY <1>0 DEF CheckVersion, Goto
<1>1. CASE SoftReset
  BY <1>1 DEF SoftReset, Goto
<1>2. CASE LinkOff
  BY <1>2 DEF LinkOff, Goto
<1>3. CASE LpsOn
  BY <1>3 DEF LpsOn, Goto
<1>4. CASE LpsProbe
  BY <1>4 DEF LpsProbe, Goto
<1>5. CASE LpsSample
  BY <1>5 DEF LpsSample, ProbeAnswered
<1>6. CASE LpsNext
  BY <1>6 DEF LpsNext
<1>7. CASE PhySetup
  BY <1>7 DEF PhySetup, Goto
<1>8. CASE AcceptRequests
  BY <1>8 DEF AcceptRequests, Goto
<1>9. CASE SetSelfIdBuffer
  BY <1>9 DEF SetSelfIdBuffer, Goto
<1>10. CASE LoadCrom
  BY <1>10 DEF LoadCrom, Goto
<1>11. CASE LinkOn
  BY <1>11 DEF LinkOn, Goto
<1>12. CASE SaveGeneration
  BY <1>12 DEF SaveGeneration, Goto
<1>13. CASE ForceBusReset
  BY <1>13 DEF ForceBusReset, Goto
<1>14. CASE InitPolled
  BY <1>14 DEF InitPolled, Goto
<1>15. CASE CheckGeneration
  BY <1>15 DEF CheckGeneration, Goto
<1>16. CASE Poll
  BY <1>16 DEF Poll, HandlerPc
<1>17. CASE StopAT
  BY <1>17 DEF StopAT, Goto
<1>18. CASE WaitSelfId
  BY <1>18 DEF WaitSelfId, Goto
<1>19. CASE ClearEvents
  BY <1>19 DEF ClearEvents, Goto
<1>20. CASE OpenAsReqHi
  BY <1>20 DEF OpenAsReqHi, OpenFilter, Goto
<1>21. CASE OpenAsReqLo
  BY <1>21 DEF OpenAsReqLo, OpenFilter, Goto
<1>22. CASE OpenPhyReqHi
  BY <1>22 DEF OpenPhyReqHi, OpenFilter, Goto
<1>23. CASE OpenPhyReqLo
  BY <1>23 DEF OpenPhyReqLo, OpenFilter, Goto, RegistersOK
<1>24. CASE Exit
  BY <1>24 DEF Exit, WaitPc
<1>25. CASE MainFailed
  BY <1>25 DEF MainFailed, Goto
<1>26. CASE MainLeaves
  BY <1>26 DEF MainLeaves, Goto
<1>27. CASE SclkStarts
  BY <1>27 DEF SclkStarts
<1>28. CASE PhyReadDone
  BY <1>28 DEF PhyReadDone
<1>29. CASE BusReset
  BY <1>29 DEF BusReset
<1>30. CASE SelfIdDone
  BY <1>30 DEF SelfIdDone
<1>31. CASE ErrorEvent
  BY <1>31 DEF ErrorEvent
<1>32. CASE UNCHANGED vars
  BY <1>32 DEF vars
<1> QED
  BY <1>0, <1>1, <1>2, <1>3, <1>4, <1>5, <1>6, <1>7, <1>8, <1>9, <1>10,
     <1>11, <1>12, <1>13, <1>14, <1>15, <1>16, <1>17, <1>18, <1>19, <1>20, <1>21,
     <1>22, <1>23, <1>24, <1>25, <1>26, <1>27, <1>28, <1>29, <1>30, <1>31,
     <1>32 DEF Next, Driver, Initialize, HandleBusReset, Controller

(* Every loop of the driver is bounded and every register keeps its type:   *)
(* the retries of the LPS loop and the polls of ohci_initialize end.        *)
THEOREM TypeCorrect == Spec => []TypeOK
<1>1. Init => CountersOK /\ LpsCounts
  BY CountersInit
<1>2. RegistersOK /\ CountersOK /\ LpsCounts /\ [Next]_vars => CountersOK' /\ LpsCounts'
  BY CountersStep
<1>3. CountersOK /\ RegistersOK => TypeOK
  BY DEF TypeOK
<1> QED
  BY <1>1, <1>2, <1>3, RegistersCorrect, PTL DEF Spec

-----------------------------------------------------------------------------
(* The clock of the PHY.                                                    *)

LEMMA ClockInit == Init => ClockInv
BY DEF Init, ClockInv, PhyHasClock, SetupPc, ForcePc

(* SCLK stops only with LPS, which the driver clears before another attempt. *)
LEMMA ClockStep == RegistersOK /\ ClockInv /\ [Next]_vars => ClockInv'
<1> SUFFICES ASSUME RegistersOK, ClockInv, [Next]_vars PROVE ClockInv'
  OBVIOUS
<1> USE DEF ClockInv, PhyHasClock, clockVars, SetupPc, ForcePc
<1>0. CASE CheckVersion
  BY <1>0 DEF CheckVersion, Goto
<1>1. CASE SoftReset
  BY <1>1 DEF SoftReset, Goto
<1>2. CASE LinkOff
  BY <1>2 DEF LinkOff, Goto
<1>3. CASE LpsOn
  BY <1>3 DEF LpsOn, Goto
<1>4. CASE LpsProbe
  BY <1>4 DEF LpsProbe, Goto
<1>5. CASE LpsSample
  BY <1>5 DEF LpsSample, ProbeAnswered
<1>6. CASE LpsNext
  BY <1>6 DEF LpsNext
<1>7. CASE PhySetup
  BY <1>7 DEF PhySetup, Goto
<1>8. CASE AcceptRequests
  BY <1>8 DEF AcceptRequests, Goto
<1>9. CASE SetSelfIdBuffer
  BY <1>9 DEF SetSelfIdBuffer, Goto
<1>10. CASE LoadCrom
  BY <1>10 DEF LoadCrom, Goto
<1>11. CASE LinkOn
  BY <1>11 DEF LinkOn, Goto
<1>12. CASE SaveGeneration
  BY <1>12 DEF SaveGeneration, Goto
<1>13. CASE ForceBusReset
  BY <1>13 DEF ForceBusReset, Goto
<1>14. CASE InitPolled
  BY <1>14 DEF InitPolled, Goto
<1>15. CASE CheckGeneration
  BY <1>15 DEF CheckGeneration, Goto
<1>16. CASE Poll
  BY <1>16 DEF Poll, HandlerPc
<1>17. CASE StopAT
  BY <1>17 DEF StopAT, Goto
<1>18. CASE WaitSelfId
  BY <1>18 DEF WaitSelfId, Goto
<1>19. CASE ClearEvents
  BY <1>19 DEF ClearEvents, Goto
<1>20. CASE OpenAsReqHi
  BY <1>20 DEF OpenAsReqHi, OpenFilter, Goto
<1>21. CASE OpenAsReqLo
  BY <1>21 DEF OpenAsReqLo, OpenFilter, Goto
<1>22. CASE OpenPhyReqHi
  BY <1>22 DEF OpenPhyReqHi, OpenFilter, Goto
<1>23. CASE OpenPhyReqLo
  BY <1>23 DEF OpenPhyReqLo, OpenFilter, Goto, RegistersOK
<1>24. CASE Exit
  BY <1>24 DEF Exit, WaitPc
<1>25. CASE MainFailed
  BY <1>25 DEF MainFailed, Goto
<1>26. CASE MainLeaves
  BY <1>26 DEF MainLeaves, Goto
<1>27. CASE SclkStarts
  BY <1>27 DEF SclkStarts
<1>28. CASE PhyReadDone
  BY <1>28 DEF PhyReadDone
<1>29. CASE BusReset
  BY <1>29 DEF BusReset
<1>30. CASE SelfIdDone
  BY <1>30 DEF SelfIdDone
<1>31. CASE ErrorEvent
  BY <1>31 DEF ErrorEvent
<1>32. CASE UNCHANGED vars
  BY <1>32 DEF vars
<1> QED
  BY <1>0, <1>1, <1>2, <1>3, <1>4, <1>5, <1>6, <1>7, <1>8, <1>9, <1>10,
     <1>11, <1>12, <1>13, <1>14, <1>15, <1>16, <1>17, <1>18, <1>19, <1>20, <1>21,
     <1>22, <1>23, <1>24, <1>25, <1>26, <1>27, <1>28, <1>29, <1>30, <1>31,
     <1>32 DEF Next, Driver, Initialize, HandleBusReset, Controller

(* No PHY access after the LPS loop can hang for want of a clock.           *)
THEOREM PhyAlwaysHasClock == Spec => []PhyHasClock
<1>1. ClockInv => PhyHasClock
  BY DEF ClockInv
<1> QED
  BY <1>1, ClockInit, ClockStep, RegistersCorrect, PTL DEF Spec

-----------------------------------------------------------------------------
(* Bus resets.                                                              *)

LEMMA LinkInit == Init => LinkInv
BY DEF Init, LinkInv, HandlerCanFinish, ClosedFilterIsSeen, SoftResetDone

(* A bus reset in the middle of the handler sets busReset again: the events *)
(* are cleared before the first filter is set.                              *)
LEMMA LinkStep == RegistersOK /\ LinkInv /\ [Next]_vars => LinkInv'
<1> SUFFICES ASSUME RegistersOK, LinkInv, [Next]_vars PROVE LinkInv'
  OBVIOUS
<1> USE DEF RegistersOK, LinkInv, LinkPc, HandlerCanFinish, SoftResetDone,
   ClosedFilterIsSeen, YetToOpen, linkVars, LpsPc, SetupPc, ForcePc,
   HandlerPc, StoppedPc, FilterRegs
<1>0. CASE CheckVersion
  BY <1>0 DEF CheckVersion, Goto
<1>1. CASE SoftReset
  BY <1>1 DEF SoftReset, Goto
<1>2. CASE LinkOff
  BY <1>2 DEF LinkOff, Goto
<1>3. CASE LpsOn
  BY <1>3 DEF LpsOn, Goto
<1>4. CASE LpsProbe
  BY <1>4 DEF LpsProbe, Goto
<1>5. CASE LpsSample
  BY <1>5 DEF LpsSample, ProbeAnswered
<1>6. CASE LpsNext
  BY <1>6 DEF LpsNext
<1>7. CASE PhySetup
  BY <1>7 DEF PhySetup, Goto
<1>8. CASE AcceptRequests
  BY <1>8 DEF AcceptRequests, Goto
<1>9. CASE SetSelfIdBuffer
  BY <1>9 DEF SetSelfIdBuffer, Goto
<1>10. CASE LoadCrom
  BY <1>10 DEF LoadCrom, Goto
<1>11. CASE LinkOn
  BY <1>11 DEF LinkOn, Goto, Open
<1>12. CASE SaveGeneration
  BY <1>12 DEF SaveGeneration, Goto
<1>13. CASE ForceBusReset
  BY <1>13 DEF ForceBusReset, Goto
<1>14. CASE InitPolled
  BY <1>14 DEF InitPolled, Goto
<1>15. CASE CheckGeneration
  BY <1>15 DEF CheckGeneration, Goto
<1>16. CASE Poll
  BY <1>16 DEF Poll
<1>17. CASE StopAT
  BY <1>17 DEF StopAT, Goto
<1>18. CASE WaitSelfId
  BY <1>18 DEF WaitSelfId, Goto
<1>19. CASE ClearEvents
  BY <1>19 DEF ClearEvents, Goto
<1>20. CASE OpenAsReqHi
  BY <1>20 DEF OpenAsReqHi, OpenFilter, Goto
<1>21. CASE OpenAsReqLo
  BY <1>21 DEF OpenAsReqLo, OpenFilter, Goto
<1>22. CASE OpenPhyReqHi
  BY <1>22 DEF OpenPhyReqHi, OpenFilter, Goto
<1>23. CASE OpenPhyReqLo
  BY <1>23 DEF OpenPhyReqLo, OpenFilter, Goto
<1>24. CASE Exit
  BY <1>24 DEF Exit, WaitPc, WaitPc
<1>25. CASE MainFailed
  BY <1>25 DEF MainFailed, Goto
<1>26. CASE MainLeaves
  BY <1>26 DEF MainLeaves, Goto
<1>27. CASE SclkStarts
  BY <1>27 DEF SclkStarts
<1>28. CASE PhyReadDone
  BY <1>28 DEF PhyReadDone
<1>29. CASE BusReset
  <2>1. linkEnable /\ "busReset" \in intEvent'
    BY <1>29 DEF BusReset
  <2>2. pc \notin {"selfIdBuf", "crom", "linkOn"} \/ ~SoftResetDone
    BY <2>1
  <2>3. UNCHANGED <<supported, pc, linkVars>>
    BY <1>29 DEF BusReset
  <2> QED
    BY <2>1, <2>2, <2>3
<1>30. CASE SelfIdDone
  BY <1>30 DEF SelfIdDone
<1>31. CASE ErrorEvent
  BY <1>31 DEF ErrorEvent
<1>32. CASE UNCHANGED vars
  BY <1>32 DEF vars
<1> QED
  BY <1>0, <1>1, <1>2, <1>3, <1>4, <1>5, <1>6, <1>7, <1>8, <1>9, <1>10,
     <1>11, <1>12, <1>13, <1>14, <1>15, <1>16, <1>17, <1>18, <1>19, <1>20, <1>21,
     <1>22, <1>23, <1>24, <1>25, <1>26, <1>27, <1>28, <1>29, <1>30, <1>31,
     <1>32 DEF Next, Driver, Initialize, HandleBusReset, Controller

LEMMA LinkCorrect == Spec => []LinkInv
BY LinkInit, LinkStep, RegistersCorrect, PTL DEF Spec

(* However many bus resets arrive, and between whichever register writes of *)
(* the driver: once Morbo has set the controller up, a closed filter is     *)
(* always one that will be set.                                             *)
THEOREM NoResetIsLost == Spec => []ClosedFilterIsSeen
<1>1. LinkInv => ClosedFilterIsSeen
  BY DEF LinkInv
<1> QED
  BY <1>1, LinkCorrect, PTL

(* On a controller that was soft-reset, the assertion of                    *)
(* ohci_handle_bus_reset never fails.                                       *)
THEOREM HandlerAlwaysCanFinish == Spec => []HandlerCanFinish
<1>1. LinkInv => HandlerCanFinish
  BY DEF LinkInv
<1> QED
  BY <1>1, LinkCorrect, PTL

-----------------------------------------------------------------------------
(* The generation count.                                                    *)

LEMMA ModStep ==
  ASSUME NEW M \in Nat \ {0}, NEW g \in 0..(M - 1)
  PROVE  (g + 1) % M = IF g + 1 = M THEN 0 ELSE g + 1
<1>1. CASE g + 1 = M
  BY <1>1
<1>2. CASE g + 1 # M
  BY <1>2
<1> QED
  BY <1>1, <1>2

LEMMA GenInit == Init => GenInv
BY DEF Init, GenInv, Initializing, HandlerPc

(* A reset adds one to what the generation shows, until it wraps around,    *)
(* which takes GenMod resets.                                               *)
LEMMA GenStep == RegistersOK /\ CountersOK /\ GenInv /\ [Next]_vars => GenInv'
<1> SUFFICES ASSUME RegistersOK, CountersOK, GenInv, [Next]_vars PROVE GenInv'
  OBVIOUS
<1> USE OhciAssumption DEF RegistersOK, CountersOK, GenInv, Initializing,
   ForcedDone, ResetsShown, busVars, initVars, LpsPc, SetupPc, ForcePc,
   HandlerPc, StoppedPc
<1>0. CASE CheckVersion
  BY <1>0 DEF CheckVersion, Goto
<1>1. CASE SoftReset
  BY <1>1 DEF SoftReset, Goto
<1>2. CASE LinkOff
  BY <1>2 DEF LinkOff, Goto
<1>3. CASE LpsOn
  BY <1>3 DEF LpsOn, Goto
<1>4. CASE LpsProbe
  BY <1>4 DEF LpsProbe, Goto
<1>5. CASE LpsSample
  BY <1>5 DEF LpsSample, ProbeAnswered
<1>6. CASE LpsNext
  BY <1>6 DEF LpsNext
<1>7. CASE PhySetup
  BY <1>7 DEF PhySetup, Goto
<1>8. CASE AcceptRequests
  BY <1>8 DEF AcceptRequests, Goto
<1>9. CASE SetSelfIdBuffer
  BY <1>9 DEF SetSelfIdBuffer, Goto
<1>10. CASE LoadCrom
  BY <1>10 DEF LoadCrom, Goto
<1>11. CASE LinkOn
  BY <1>11 DEF LinkOn, Goto
<1>12. CASE SaveGeneration
  BY <1>12 DEF SaveGeneration, Goto
<1>13. CASE ForceBusReset
  BY <1>13 DEF ForceBusReset, Goto
<1>14. CASE InitPolled
  BY <1>14 DEF InitPolled, Goto
<1>15. CASE CheckGeneration
  BY <1>15 DEF CheckGeneration, Goto
<1>16. CASE Poll
  BY <1>16 DEF Poll
<1>17. CASE StopAT
  BY <1>17 DEF StopAT, Goto
<1>18. CASE WaitSelfId
  BY <1>18 DEF WaitSelfId, Goto
<1>19. CASE ClearEvents
  BY <1>19 DEF ClearEvents, Goto
<1>20. CASE OpenAsReqHi
  BY <1>20 DEF OpenAsReqHi, OpenFilter, Goto
<1>21. CASE OpenAsReqLo
  BY <1>21 DEF OpenAsReqLo, OpenFilter, Goto
<1>22. CASE OpenPhyReqHi
  BY <1>22 DEF OpenPhyReqHi, OpenFilter, Goto
<1>23. CASE OpenPhyReqLo
  BY <1>23 DEF OpenPhyReqLo, OpenFilter, Goto
<1>24. CASE Exit
  BY <1>24 DEF Exit, WaitPc
<1>25. CASE MainFailed
  BY <1>25 DEF MainFailed, Goto
<1>26. CASE MainLeaves
  BY <1>26 DEF MainLeaves, Goto
<1>27. CASE SclkStarts
  BY <1>27 DEF SclkStarts
<1>28. CASE PhyReadDone
  BY <1>28 DEF PhyReadDone
<1>29. CASE BusReset
  <2>1. generation' = IF generation + 1 = GenMod THEN 0 ELSE generation + 1
    BY <1>29, ModStep DEF BusReset
  <2>2. UNCHANGED <<pc, caller, savedGen, warned>>
    BY <1>29 DEF BusReset, initVars
  <2>3. \/ ibr /\ ~ibr' /\ resets' = resets
        \/ resets' = resets + 1 /\ ibr' = ibr
    BY <1>29 DEF BusReset
  <2> QED
    BY <2>1, <2>2, <2>3
<1>30. CASE SelfIdDone
  BY <1>30 DEF SelfIdDone
<1>31. CASE ErrorEvent
  BY <1>31 DEF ErrorEvent
<1>32. CASE UNCHANGED vars
  BY <1>32 DEF vars
<1> QED
  BY <1>0, <1>1, <1>2, <1>3, <1>4, <1>5, <1>6, <1>7, <1>8, <1>9, <1>10,
     <1>11, <1>12, <1>13, <1>14, <1>15, <1>16, <1>17, <1>18, <1>19, <1>20, <1>21,
     <1>22, <1>23, <1>24, <1>25, <1>26, <1>27, <1>28, <1>29, <1>30, <1>31,
     <1>32 DEF Next, Driver, Initialize, HandleBusReset, Controller

LEMMA NextKeepsWarned == [Next]_vars /\ ~CheckGeneration => warned' = warned
  BY DEF Next, Driver, Initialize, HandleBusReset, Controller, vars, initVars,
     CheckVersion, SoftReset, LinkOff, LpsOn, LpsProbe, LpsSample, LpsNext, PhySetup,
     AcceptRequests, SetSelfIdBuffer, LoadCrom, LinkOn, SaveGeneration,
     ForceBusReset, InitPolled, Poll, StopAT, WaitSelfId, ClearEvents,
     OpenAsReqHi, OpenAsReqLo, OpenPhyReqHi, OpenPhyReqLo, OpenFilter, Exit,
     MainFailed, MainLeaves, SclkStarts, PhyReadDone, BusReset, SelfIdDone,
     ErrorEvent

(* The warning at the end of ohci_initialize is right, unless the bus was   *)
(* reset so often that the count came back to where it was.                 *)
THEOREM WarningIsRight == Spec => WarningMeansNoReset
<1>1. ASSUME TypeOK, GenInv, [Next]_vars
      PROVE  [pc = "check" /\ warned' => ibr \/ resets >= GenMod - 1]_vars
  <2>1. CASE CheckGeneration
    <3>1. pc = "check" /\ (warned' => savedGen = generation)
      BY <2>1 DEF CheckGeneration, Goto
    <3>2. savedGen = generation /\ pc = "check" /\ ~ibr => resets >= GenMod - 1
      BY <1>1 DEF GenInv, Initializing, ForcedDone, ResetsShown, TypeOK, CountersOK
    <3> QED
      BY <3>1, <3>2
  <2>2. CASE ~CheckGeneration
    <3>1. warned' = warned
      BY <1>1, <2>2, NextKeepsWarned
    <3> QED
      BY <1>1, <3>1 DEF GenInv, Initializing
  <2> QED
    BY <2>1, <2>2
<1>2. CountersOK /\ RegistersOK <=> TypeOK
  BY DEF TypeOK
<1> QED
  BY <1>1, <1>2, TypeCorrect, GenInit, GenStep, PTL DEF Spec, WarningMeansNoReset

-----------------------------------------------------------------------------
(* Refinement.                                                              *)

LEMMA DmaInit == Init => RemoteDma!Init
BY DEF Init, RemoteDma!Init, dma, StoppedPc, SoftResetDone

(* Every step of driver and controller maps to a step of RemoteDma or to a  *)
(* stutter.                                                                 *)
LEMMA DmaStep ==
  RegistersOK /\ LinkInv /\ LinkInv' /\ [Next]_vars => [RemoteDma!Next]_dma
<1> SUFFICES ASSUME RegistersOK, LinkInv, LinkInv', [Next]_vars PROVE [RemoteDma!Next]_dma
  OBVIOUS
<1> USE DEF RegistersOK, dma, SoftResetDone, RemoteDma!Next, RemoteDma!LinkUp,
   RemoteDma!Close, RemoteDma!Reopen, RemoteDma!Stop, linkVars, LpsPc,
   SetupPc, ForcePc, HandlerPc, StoppedPc, FilterRegs
<1>0. CASE CheckVersion
  BY <1>0 DEF CheckVersion, Goto
<1>1. CASE SoftReset
  BY <1>1 DEF SoftReset, Goto, LinkInv, LinkPc
<1>2. CASE LinkOff
  BY <1>2 DEF LinkOff, Goto, LinkInv, LinkPc
<1>3. CASE LpsOn
  BY <1>3 DEF LpsOn, Goto
<1>4. CASE LpsProbe
  BY <1>4 DEF LpsProbe, Goto
<1>5. CASE LpsSample
  BY <1>5 DEF LpsSample, ProbeAnswered
<1>6. CASE LpsNext
  BY <1>6 DEF LpsNext
<1>7. CASE PhySetup
  BY <1>7 DEF PhySetup, Goto
<1>8. CASE AcceptRequests
  BY <1>8 DEF AcceptRequests, Goto
<1>9. CASE SetSelfIdBuffer
  BY <1>9 DEF SetSelfIdBuffer, Goto
<1>10. CASE LoadCrom
  BY <1>10 DEF LoadCrom, Goto
<1>11. CASE LinkOn
  BY <1>11 DEF LinkOn, Goto, LinkInv, Open
<1>12. CASE SaveGeneration
  BY <1>12 DEF SaveGeneration, Goto
<1>13. CASE ForceBusReset
  BY <1>13 DEF ForceBusReset, Goto
<1>14. CASE InitPolled
  BY <1>14 DEF InitPolled, Goto
<1>15. CASE CheckGeneration
  BY <1>15 DEF CheckGeneration, Goto
<1>16. CASE Poll
  BY <1>16 DEF Poll
<1>17. CASE StopAT
  BY <1>17 DEF StopAT, Goto
<1>18. CASE WaitSelfId
  BY <1>18 DEF WaitSelfId, Goto
<1>19. CASE ClearEvents
  BY <1>19 DEF ClearEvents, Goto
<1>20. CASE OpenAsReqHi
  BY <1>20 DEF OpenAsReqHi, OpenFilter, Goto
<1>21. CASE OpenAsReqLo
  BY <1>21 DEF OpenAsReqLo, OpenFilter, Goto
<1>22. CASE OpenPhyReqHi
  BY <1>22 DEF OpenPhyReqHi, OpenFilter, Goto
<1>23. CASE OpenPhyReqLo
  BY <1>23 DEF OpenPhyReqLo, OpenFilter, Goto
<1>24. CASE Exit
  BY <1>24 DEF Exit, WaitPc
<1>25. CASE MainFailed
  BY <1>25 DEF MainFailed, Goto
<1>26. CASE MainLeaves
  BY <1>26 DEF MainLeaves, Goto
<1>27. CASE SclkStarts
  BY <1>27 DEF SclkStarts
<1>28. CASE PhyReadDone
  BY <1>28 DEF PhyReadDone
<1>29. CASE BusReset
  BY <1>29 DEF BusReset, Closed
<1>30. CASE SelfIdDone
  BY <1>30 DEF SelfIdDone
<1>31. CASE ErrorEvent
  BY <1>31 DEF ErrorEvent
<1>32. CASE UNCHANGED vars
  BY <1>32 DEF vars
<1> QED
  BY <1>0, <1>1, <1>2, <1>3, <1>4, <1>5, <1>6, <1>7, <1>8, <1>9, <1>10,
     <1>11, <1>12, <1>13, <1>14, <1>15, <1>16, <1>17, <1>18, <1>19, <1>20, <1>21,
     <1>22, <1>23, <1>24, <1>25, <1>26, <1>27, <1>28, <1>29, <1>30, <1>31,
     <1>32 DEF Next, Driver, Initialize, HandleBusReset, Controller

(* The safety part of RemoteDma: a node's memory becomes reachable, is taken *)
(* away by bus resets and given back, and stays away only after a stop.     *)
THEOREM DriverImplementsRemoteDma == Spec => RemoteDma!Init /\ [][RemoteDma!Next]_dma
<1>1. LinkInv /\ RegistersOK /\ LinkInv' /\ [Next]_vars => [RemoteDma!Next]_dma
  BY DmaStep
<1> QED
  BY <1>1, DmaInit, LinkCorrect, RegistersCorrect, PTL DEF Spec
=============================================================================
