-------------------------------- MODULE Ohci --------------------------------
(***************************************************************************)
(* The OHCI driver of Morbo (standalone/ohci.c), one register access or    *)
(* one busy wait per action, interleaved with the controller it drives.    *)
(* `pc' names the next access of the driver.  The controller (clock, PHY,  *)
(* bus resets, self-ID phase, error events) is external: its actions are   *)
(* written from how the driver uses its registers.                         *)
(***************************************************************************)
EXTENDS Naturals, FiniteSets

CONSTANTS LpsRetries,    \* attempts to start the PHY clock       (ohci.c: 10)
          WaitMore,      \* extra waits on regAccessFail          (ohci.c: 10)
          PollRounds,    \* polls before initialisation returns (ohci.c: 1000)
          GenMod,        \* generations of SelfIDCount              (8 bits)
          MaxResets,     \* bound: bus resets the other nodes cause, before
                         \* the soft reset of the controller and after it
          MaxErrors,     \* bound: error events of the controller, likewise
          PostedWrites,  \* command line: posted writes are enabled
          KeepGoing      \* command line: poll even if initialisation failed

ASSUME OhciAssumption ==
  /\ LpsRetries \in Nat \ {0} /\ WaitMore \in Nat /\ PollRounds \in Nat
  /\ GenMod \in Nat \ {0} /\ MaxResets \in Nat /\ MaxErrors \in Nat
  /\ PostedWrites \in BOOLEAN /\ KeepGoing \in BOOLEAN

VARIABLES
  supported,                         \* Version register: 1.10 or later
  pc, caller,                        \* driver: next step, who called poll
  lpsRetries, waitMore, polls,       \* driver: loop counters
  savedGen, warned,                  \* driver: generation before the forced reset
  lps, sclk, phyRead,                \* link power status, PHY clock, PhyControl
  linkEnable, rcvSelfID, romMapped,  \* HCControl, LinkControl, ConfigROMmap
  intEvent, filter,                  \* IntEvent, the four request filters
  selfIdPhase, generation, ibr,      \* bus: self-ID phase, its count, forced reset
  resets, errors                     \* budget spent by the environment

lpsVars   == <<lpsRetries, waitMore>>
initVars  == <<polls, savedGen, warned>>
clockVars == <<lps, sclk, phyRead>>
linkVars  == <<linkEnable, rcvSelfID, romMapped>>
busVars   == <<selfIdPhase, generation, ibr, resets>>
vars == <<supported, pc, caller, lpsVars, initVars, clockVars, linkVars, intEvent, filter,
          busVars, errors>>

FilterRegs == {"AsReqHi", "AsReqLo", "PhyReqHi", "PhyReqLo"}
Events == {"busReset", "selfIDComplete2", "postedWriteErr",
           "unrecoverableError", "regAccessFail"}

(* ohci_initialize, then ohci_poll_events and ohci_handle_bus_reset, then   *)
(* the two ways the driver stops being used.                              *)
LpsPc     == {"lpsOn", "lpsProbe", "lpsSample", "lpsNext"}
SetupPc   == {"phySetup", "requests", "selfIdBuf", "crom", "linkOn"}
ForcePc   == {"saveGen", "force"}
HandlerPc == {"hStopAT", "hWaitSelfId", "hClear", "hAsReqHi", "hAsReqLo",
              "hPhyReqHi", "hPhyReqLo"}
StoppedPc == {"exit", "left"}
Pc == {"checkVersion", "softReset", "linkOff", "failed", "initPoll", "check", "mainPoll"}
      \cup LpsPc \cup SetupPc \cup ForcePc \cup HandlerPc \cup StoppedPc

Closed == [r \in FilterRegs |-> FALSE]
Open   == [r \in FilterRegs |-> TRUE]

(* Nothing is known of the controller but what the firmware and the boot    *)
(* loader left: it may be in use, with bus resets and errors to report.     *)
Init ==
  /\ supported \in BOOLEAN
  /\ pc = "checkVersion" /\ caller = "initPoll"
  /\ lpsRetries = LpsRetries /\ waitMore = WaitMore
  /\ polls = 0 /\ savedGen = 0 /\ warned = FALSE
  /\ lps \in BOOLEAN /\ sclk = lps /\ phyRead = "none"
  /\ linkEnable \in BOOLEAN /\ (linkEnable => lps)
  /\ rcvSelfID \in BOOLEAN /\ romMapped \in BOOLEAN
  /\ intEvent \in SUBSET Events /\ filter \in {Closed, Open}
  /\ selfIdPhase \in BOOLEAN /\ generation = 0 /\ ibr = FALSE
  /\ resets = 0 /\ errors = 0

Goto(from, to) == pc = from /\ pc' = to

-----------------------------------------------------------------------------
(* Driver: ohci_initialize up to the running PHY clock.                     *)

(* ohci_check_version: "we require at least 1.10".                          *)
CheckVersion ==
  /\ Goto("checkVersion", IF supported THEN "softReset" ELSE "failed")
  /\ UNCHANGED <<supported, caller, lpsVars, initVars, clockVars, linkVars, intEvent,
                 filter, busVars, errors>>

(* ohci_softreset: every register goes to its reset value.  The budgets of  *)
(* the environment are counted from here.                                   *)
SoftReset ==
  /\ Goto("softReset", "linkOff")
  /\ lps' = FALSE /\ sclk' = FALSE /\ phyRead' = "none"
  /\ linkEnable' = FALSE /\ rcvSelfID' = FALSE /\ romMapped' = FALSE
  /\ intEvent' = {} /\ filter' = Closed /\ selfIdPhase' = FALSE
  /\ resets' = 0 /\ errors' = 0
  /\ UNCHANGED <<supported, caller, lpsVars, initVars, generation, ibr>>

(* Clear linkEnable and wait for it, set the byte order and posted writes,  *)
(* enter the LPS loop.                                                      *)
LinkOff ==
  /\ Goto("linkOff", "lpsOn")
  /\ linkEnable' = FALSE
  /\ lpsRetries' = LpsRetries
  /\ UNCHANGED <<supported, caller, waitMore, initVars, clockVars, rcvSelfID, romMapped,
                 intEvent, filter, busVars, errors>>

(* One attempt: raise LPS, wait for the bit, wait 50 ms for SCLK.           *)
LpsOn ==
  /\ Goto("lpsOn", "lpsProbe")
  /\ lps' = TRUE /\ waitMore' = WaitMore
  /\ UNCHANGED <<supported, caller, lpsRetries, initVars, sclk, phyRead, linkVars,
                 intEvent, filter, busVars, errors>>

(* Clear all events and ask the PHY for register 1.  Without SCLK the       *)
(* controller should set regAccessFail, "but this does not seem to work":   *)
(* both outcomes are possible.                                              *)
LpsProbe ==
  /\ Goto("lpsProbe", "lpsSample")
  /\ \/ sclk /\ phyRead' = "pending" /\ intEvent' = {}
     \/ ~sclk /\ phyRead' = "lost" /\ intEvent' \in {{}, {"regAccessFail"}}
  /\ UNCHANGED <<supported, caller, lpsVars, initVars, lps, sclk, linkVars, filter,
                 busVars, errors>>

ProbeAnswered == phyRead = "done" \/ "regAccessFail" \in intEvent

(* Mutant: a read that has not completed passes for one that has.           *)
LpsSampleTrusting ==
  /\ pc = "lpsSample"
  /\ \/ /\ "regAccessFail" \in intEvent /\ waitMore = 0
        /\ pc' = "failed" /\ UNCHANGED waitMore
     \/ /\ "regAccessFail" \in intEvent /\ waitMore > 0
        /\ pc' = "lpsSample" /\ waitMore' = waitMore - 1
     \/ /\ "regAccessFail" \notin intEvent
        /\ pc' = "phySetup" /\ UNCHANGED waitMore
  /\ UNCHANGED <<supported, caller, lpsRetries, initVars, clockVars, linkVars, intEvent,
                 filter, busVars, errors>>

(* After another 50 ms: nothing happened, regAccessFail, or the read is done *)
LpsSample ==
  /\ pc = "lpsSample"
  /\ \/ /\ ~ProbeAnswered
        /\ pc' = "lpsNext" /\ UNCHANGED waitMore
     \/ /\ "regAccessFail" \in intEvent /\ waitMore > 0
        /\ pc' = "lpsSample" /\ waitMore' = waitMore - 1
     \/ /\ "regAccessFail" \in intEvent /\ waitMore = 0
        /\ pc' = "failed" /\ UNCHANGED waitMore
     \/ /\ "regAccessFail" \notin intEvent /\ phyRead = "done"
        /\ pc' = "phySetup" /\ UNCHANGED waitMore
  /\ UNCHANGED <<supported, caller, lpsRetries, initVars, clockVars, linkVars, intEvent,
                 filter, busVars, errors>>

(* Mutant: the retries are counted but never run out.                       *)
LpsNextForever ==
  /\ Goto("lpsNext", "lpsOn")
  /\ lpsRetries' = lpsRetries - 1
  /\ lps' = FALSE /\ sclk' = FALSE
  /\ UNCHANGED <<supported, caller, waitMore, initVars, phyRead, linkVars, intEvent,
                 filter, busVars, errors>>

(* Not answered: clear LPS, which stops SCLK, and try again or give up.     *)
LpsNext ==
  /\ pc = "lpsNext"
  /\ pc' = IF lpsRetries = 1 THEN "failed" ELSE "lpsOn"
  /\ lpsRetries' = lpsRetries - 1
  /\ lps' = FALSE /\ sclk' = FALSE
  /\ UNCHANGED <<supported, caller, waitMore, initVars, phyRead, linkVars, intEvent,
                 filter, busVars, errors>>

-----------------------------------------------------------------------------
(* Driver: the rest of ohci_initialize.                                     *)

(* phy_read, phy_write: an access is answered only if the clock runs.       *)
PhyAnswers == sclk

(* Contender bit, PHY map, ports and IEEE1394a enhancements: PHY accesses.  *)
PhySetup ==
  /\ Goto("phySetup", "requests")
  /\ PhyAnswers
  /\ UNCHANGED <<supported, caller, lpsVars, initVars, clockVars, linkVars, intEvent,
                 filter, busVars, errors>>

(* Clear LinkControl, accept requests from every node.                      *)
AcceptRequests ==
  /\ Goto("requests", "selfIdBuf")
  /\ rcvSelfID' = FALSE /\ filter' = Open
  /\ UNCHANGED <<supported, caller, lpsVars, initVars, clockVars, linkEnable, romMapped,
                 intEvent, busVars, errors>>

(* Mutant: rcvSelfID is left cleared.                                       *)
SetSelfIdBufferOnly ==
  /\ Goto("selfIdBuf", "crom")
  /\ UNCHANGED <<supported, caller, lpsVars, initVars, clockVars, linkVars, intEvent,
                 filter, busVars, errors>>

(* Allocate the self-ID buffer, hand it over, receive self-IDs.             *)
SetSelfIdBuffer ==
  /\ Goto("selfIdBuf", "crom")
  /\ rcvSelfID' = TRUE
  /\ UNCHANGED <<supported, caller, lpsVars, initVars, clockVars, linkEnable, romMapped,
                 intEvent, filter, busVars, errors>>

(* ohci_generate_crom, ohci_load_crom: the ROM that points to the multiboot *)
(* information is complete before the controller sees it.                   *)
LoadCrom ==
  /\ Goto("crom", "linkOn")
  /\ romMapped' = TRUE
  /\ UNCHANGED <<supported, caller, lpsVars, initVars, clockVars, linkEnable, rcvSelfID,
                 intEvent, filter, busVars, errors>>

LinkOn ==
  /\ Goto("linkOn", "saveGen")
  /\ linkEnable' = TRUE
  /\ UNCHANGED <<supported, caller, lpsVars, initVars, clockVars, rcvSelfID, romMapped,
                 intEvent, filter, busVars, errors>>

SaveGeneration ==
  /\ Goto("saveGen", "force")
  /\ savedGen' = generation /\ polls' = 0
  /\ UNCHANGED <<supported, caller, lpsVars, warned, clockVars, linkVars, intEvent,
                 filter, busVars, errors>>

(* ohci_force_bus_reset: set IBR in PHY register 1.  The reset comes later. *)
ForceBusReset ==
  /\ Goto("force", "initPoll")
  /\ PhyAnswers
  /\ ibr' = TRUE
  /\ UNCHANGED <<supported, caller, lpsVars, initVars, clockVars, linkVars, intEvent,
                 filter, selfIdPhase, generation, resets, errors>>

(* Mutant: the comparison of the generations is reversed.                   *)
CheckGenerationReversed ==
  /\ Goto("check", "mainPoll")
  /\ warned' = (savedGen # generation)
  /\ UNCHANGED <<supported, caller, lpsVars, polls, savedGen, clockVars, linkVars,
                 intEvent, filter, busVars, errors>>

(* The warning at the end of ohci_initialize.                               *)
CheckGeneration ==
  /\ Goto("check", "mainPoll")
  /\ warned' = (savedGen = generation)
  /\ UNCHANGED <<supported, caller, lpsVars, polls, savedGen, clockVars, linkVars,
                 intEvent, filter, busVars, errors>>

-----------------------------------------------------------------------------
(* Driver: ohci_poll_events, called from ohci_initialize and from main.     *)

(* Mutant: a posted write error is reported but not cleared.                *)
PollKeepsWriteError ==
  /\ \/ pc = "initPoll" /\ polls < PollRounds /\ polls' = polls + 1
     \/ pc = "mainPoll" /\ polls' = polls
  /\ caller' = pc
  /\ IF "busReset" \in intEvent
       THEN pc' = "hStopAT" /\ UNCHANGED intEvent
       ELSE /\ pc' = pc
            /\ intEvent' = IF "postedWriteErr" \in intEvent THEN intEvent
                           ELSE intEvent \ {"unrecoverableError"}
  /\ UNCHANGED <<supported, lpsVars, savedGen, warned, clockVars, linkVars, filter,
                 busVars, errors>>

(* The call and the caller's loop: at most one event is handled.            *)
Poll ==
  /\ \/ pc = "initPoll" /\ polls < PollRounds /\ polls' = polls + 1
     \/ pc = "mainPoll" /\ polls' = polls
  /\ caller' = pc
  /\ IF "busReset" \in intEvent
       THEN pc' = "hStopAT" /\ UNCHANGED intEvent
       ELSE /\ pc' = pc
            /\ intEvent' = intEvent \
                 (IF "postedWriteErr" \in intEvent THEN {"postedWriteErr"}
                                                   ELSE {"unrecoverableError"})
  /\ UNCHANGED <<supported, lpsVars, savedGen, warned, clockVars, linkVars, filter,
                 busVars, errors>>

InitPolled ==
  /\ Goto("initPoll", "check") /\ polls = PollRounds
  /\ UNCHANGED <<supported, caller, lpsVars, initVars, clockVars, linkVars, intEvent,
                 filter, busVars, errors>>

(* ohci_handle_bus_reset: stop the AT contexts.  Morbo never runs them, but *)
(* on a controller it did not reset they may be active.                     *)
StopAT ==
  /\ Goto("hStopAT", "hWaitSelfId")
  /\ UNCHANGED <<supported, caller, lpsVars, initVars, clockVars, linkVars, intEvent,
                 filter, busVars, errors>>

(* assert(rcvSelfID), then wait for the end of the self-ID phase.           *)
WaitSelfId ==
  /\ Goto("hWaitSelfId", "hClear")
  /\ rcvSelfID /\ "selfIDComplete2" \in intEvent
  /\ UNCHANGED <<supported, caller, lpsVars, initVars, clockVars, linkVars, intEvent,
                 filter, busVars, errors>>

ClearEvents ==
  /\ Goto("hClear", "hAsReqHi")
  /\ intEvent' = intEvent \ {"busReset", "selfIDComplete2"}
  /\ UNCHANGED <<supported, caller, lpsVars, initVars, clockVars, linkVars, filter,
                 busVars, errors>>

OpenFilter(from, r, to) ==
  /\ Goto(from, to)
  /\ filter' = [filter EXCEPT ![r] = TRUE]
  /\ UNCHANGED <<supported, caller, lpsVars, initVars, clockVars, linkVars, intEvent,
                 busVars, errors>>

(* Mutants: one filter is forgotten; the events are cleared once more after *)
(* the filters were set.                                                    *)
PhyReqHiForgotten ==
  /\ Goto("hPhyReqHi", "hPhyReqLo")
  /\ UNCHANGED <<supported, caller, lpsVars, initVars, clockVars, linkVars, intEvent,
                 filter, busVars, errors>>
OpenThenClear ==
  /\ Goto("hPhyReqLo", caller)
  /\ filter' = [filter EXCEPT !["PhyReqLo"] = TRUE]
  /\ intEvent' = intEvent \ {"busReset", "selfIDComplete2"}
  /\ UNCHANGED <<supported, caller, lpsVars, initVars, clockVars, linkVars, busVars, errors>>

OpenAsReqHi  == OpenFilter("hAsReqHi", "AsReqHi", "hAsReqLo")
OpenAsReqLo  == OpenFilter("hAsReqLo", "AsReqLo", "hPhyReqHi")
OpenPhyReqHi == OpenFilter("hPhyReqHi", "PhyReqHi", "hPhyReqLo")
OpenPhyReqLo == OpenFilter("hPhyReqLo", "PhyReqLo", caller)

(* A wait_loop that runs out of ticks, an allocation that fails and a       *)
(* failed assertion (registers that read as ~0, rcvSelfID) reboot.          *)
WaitPc == {"checkVersion", "softReset", "linkOff", "lpsOn", "lpsNext",
           "phySetup", "selfIdBuf", "crom", "linkOn", "force"}
Exit ==
  /\ \/ pc \in WaitPc
     \/ pc = "hStopAT" /\ ~supported
     \/ pc = "hWaitSelfId" /\ (rcvSelfID => "selfIDComplete2" \notin intEvent)
  /\ pc' = "exit"
  /\ UNCHANGED <<supported, caller, lpsVars, initVars, clockVars, linkVars, intEvent,
                 filter, busVars, errors>>

(* main: initialisation failed.                                             *)
MainFailed ==
  /\ Goto("failed", IF KeepGoing THEN "mainPoll" ELSE "exit")
  /\ UNCHANGED <<supported, caller, lpsVars, initVars, clockVars, linkVars, intEvent,
                 filter, busVars, errors>>

(* main: there is something to start, Morbo polls no more.                  *)
MainLeaves ==
  /\ Goto("mainPoll", "left")
  /\ UNCHANGED <<supported, caller, lpsVars, initVars, clockVars, linkVars, intEvent,
                 filter, busVars, errors>>

Initialize ==
  \/ CheckVersion \/ SoftReset \/ LinkOff
  \/ LpsOn \/ LpsProbe \/ LpsSample \/ LpsNext
  \/ PhySetup \/ AcceptRequests \/ SetSelfIdBuffer \/ LoadCrom \/ LinkOn
  \/ SaveGeneration \/ ForceBusReset \/ InitPolled \/ CheckGeneration
HandleBusReset ==
  \/ StopAT \/ WaitSelfId \/ ClearEvents
  \/ OpenAsReqHi \/ OpenAsReqLo \/ OpenPhyReqHi \/ OpenPhyReqLo
Driver == Initialize \/ Poll \/ HandleBusReset \/ Exit \/ MainFailed

-----------------------------------------------------------------------------
(* The controller and the bus.                                              *)

SclkStarts ==
  /\ lps /\ ~sclk /\ sclk' = TRUE
  /\ UNCHANGED <<supported, pc, caller, lpsVars, initVars, lps, phyRead, linkVars,
                 intEvent, filter, busVars, errors>>

PhyReadDone ==
  /\ sclk /\ phyRead = "pending" /\ phyRead' = "done"
  /\ UNCHANGED <<supported, pc, caller, lpsVars, initVars, lps, sclk, linkVars, intEvent,
                 filter, busVars, errors>>

(* "They are cleared on bus reset": the filters close, a self-ID phase      *)
(* begins.  selfIDComplete2 keeps its value, only software clears it.       *)
BusReset ==
  /\ linkEnable
  /\ \/ ibr /\ ibr' = FALSE /\ UNCHANGED resets
     \/ resets < MaxResets /\ resets' = resets + 1 /\ UNCHANGED ibr
  /\ filter' = Closed /\ selfIdPhase' = TRUE
  /\ intEvent' = intEvent \cup {"busReset"}
  /\ generation' = (generation + 1) % GenMod
  /\ UNCHANGED <<supported, pc, caller, lpsVars, initVars, clockVars, linkVars, errors>>

(* The self-IDs are in the buffer.                                          *)
SelfIdDone ==
  /\ selfIdPhase /\ selfIdPhase' = FALSE
  /\ intEvent' = IF rcvSelfID THEN intEvent \cup {"selfIDComplete2"} ELSE intEvent
  /\ UNCHANGED <<supported, pc, caller, lpsVars, initVars, clockVars, linkVars, filter,
                 generation, ibr, resets, errors>>

ErrorEvent ==
  /\ linkEnable /\ errors < MaxErrors /\ errors' = errors + 1
  /\ \E e \in {"unrecoverableError"}
              \cup (IF PostedWrites THEN {"postedWriteErr"} ELSE {}) :
       intEvent' = intEvent \cup {e}
  /\ UNCHANGED <<supported, pc, caller, lpsVars, initVars, clockVars, linkVars, filter,
                 busVars>>

Controller == SclkStarts \/ PhyReadDone \/ BusReset \/ SelfIdDone \/ ErrorEvent

Next == Driver \/ MainLeaves \/ Controller

(* The driver's loop runs; a PHY that was told to reset the bus does so, a  *)
(* self-ID phase ends.  Nothing is assumed of SCLK, of the other nodes, or  *)
(* of the moment Morbo is told to stop polling.                             *)
Fairness == WF_vars(Driver) /\ WF_vars(BusReset /\ ibr) /\ WF_vars(SelfIdDone)
Spec == Init /\ [][Next]_vars /\ Fairness

-----------------------------------------------------------------------------
CountersOK ==
  /\ lpsRetries \in 0..LpsRetries /\ waitMore \in 0..WaitMore
  /\ polls \in 0..PollRounds /\ savedGen \in 0..(GenMod - 1)
  /\ generation \in 0..(GenMod - 1)
  /\ resets \in 0..MaxResets /\ errors \in 0..MaxErrors

RegistersOK ==
  /\ supported \in BOOLEAN /\ pc \in Pc /\ caller \in {"initPoll", "mainPoll"}
  /\ warned \in BOOLEAN /\ lps \in BOOLEAN /\ sclk \in BOOLEAN
  /\ phyRead \in {"none", "pending", "lost", "done"}
  /\ linkEnable \in BOOLEAN /\ rcvSelfID \in BOOLEAN /\ romMapped \in BOOLEAN
  /\ intEvent \in SUBSET Events /\ filter \in [FilterRegs -> BOOLEAN]
  /\ selfIdPhase \in BOOLEAN /\ ibr \in BOOLEAN

(* Every loop of the driver is bounded, every register holds what it can    *)
(* hold (ohci.c).                                                           *)
TypeOK == CountersOK /\ RegistersOK

(* The filters a running handler has yet to set.                            *)
YetToOpen ==
  CASE pc = "hAsReqHi"  -> FilterRegs
    [] pc = "hAsReqLo"  -> {"AsReqLo", "PhyReqHi", "PhyReqLo"}
    [] pc = "hPhyReqHi" -> {"PhyReqHi", "PhyReqLo"}
    [] pc = "hPhyReqLo" -> {"PhyReqLo"}
    [] OTHER            -> {}

(* The driver has gone on after ohci_softreset: the registers hold what it  *)
(* and the bus wrote since then.                                            *)
SoftResetDone == supported /\ pc \notin {"checkVersion", "softReset", "exit"}

(* No bus reset is lost: on a controller that Morbo set up, a filter that   *)
(* is closed while the link is up is one the handler is about to set, or    *)
(* IntEvent still shows the bus reset that closed it (ohci_poll_events,     *)
(* ohci_handle_bus_reset).                                                  *)
ClosedFilterIsSeen ==
  SoftResetDone /\ linkEnable =>
    \A r \in FilterRegs : filter[r] \/ r \in YetToOpen \/ "busReset" \in intEvent

(* On a controller that was soft-reset "selfID receive borken" is never     *)
(* printed: whenever the handler runs, self-IDs are received, even if main  *)
(* polls a controller whose initialisation failed after the soft reset      *)
(* (assertion in ohci_handle_bus_reset).  It says nothing of a controller   *)
(* that ohci_check_version refused and main polls because of keepgoing:     *)
(* there the assertion can fail.                                            *)
HandlerCanFinish ==
  SoftResetDone /\ pc \in HandlerPc => linkEnable /\ rcvSelfID

(* The PHY is spoken to only while its clock runs (the LPS loop of          *)
(* ohci_initialize): no PHY access after the loop can hang.                 *)
PhyHasClock == pc \in SetupPc \cup ForcePc => lps /\ sclk

(* "Wait for completion of SelfID phase.": what follows runs with no        *)
(* self-ID phase in progress, on a controller that was soft-reset.          *)
WaitedForSelfId ==
  [][SoftResetDone /\ pc = "hWaitSelfId" /\ pc' = "hClear" => ~selfIdPhase]_vars

(* "No bus reset (or a lot of them)?": the warning is printed only if the   *)
(* forced reset has not happened yet, or the 8-bit count wrapped around.    *)
WarningMeansNoReset ==
  [][pc = "check" /\ warned' => ibr \/ resets >= GenMod - 1]_vars

(* Every event a poll can see is handled, or Morbo stops polling: the       *)
(* else-if chain of ohci_poll_events starves none of them.                  *)
EventsAreHandled ==
  \A e \in {"busReset", "postedWriteErr", "unrecoverableError"} :
    linkEnable /\ e \in intEvent ~> e \notin intEvent \/ pc \in StoppedPc

dma == IF pc \in StoppedPc THEN "stopped"
       ELSE IF ~(SoftResetDone /\ linkEnable) THEN "off"
       ELSE IF \A r \in FilterRegs : filter[r] THEN "open" ELSE "closed"
RemoteDma == INSTANCE RemoteDma WITH dma <- dma

(* Once Morbo has set a controller up, remote DMA comes back after every    *)
(* bus reset, whatever the driver was doing when the reset came.            *)
RemoteDmaSpec == RemoteDma!Spec
=============================================================================
