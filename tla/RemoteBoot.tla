----------------------------- MODULE RemoteBoot -----------------------------
(***************************************************************************)
(* Booting a node by remote DMA: main() of Morbo on the target             *)
(* (standalone/morbo.c) and boot/morbo.py on the host, which share the     *)
(* target's multiboot information.  mods_count is their only               *)
(* synchronisation: the target sets it to zero and polls it, the host      *)
(* checks that it is zero, writes the modules, the module list and the     *)
(* multiboot header block by block, and writes mods_count last.            *)
(*                                                                         *)
(* The host may die in between and be run again; a write may fail, or be   *)
(* done and still be reported as failed; a bus reset may close the target  *)
(* for remote DMA (RemoteDma), which ends the run of the host.             *)
(***************************************************************************)
EXTENDS Naturals, Sequences

CONSTANTS Modules,      \* number of modules the host loads
          Blocks,       \* blocks of fw_poke for the modules and their list
          Setups,       \* what the boot loader may tell Morbo (SetupType)
          MaxRuns,      \* bound: runs of the host's script
          MaxFailures,  \* bound: transactions that fail on an open target
          MaxResets,    \* bound: bus resets
          MaxPosted     \* bound: depth of the controller's posted-write queue

(* mods_count as the boot loader left it, and the command line: wait even if *)
(* there are modules, go on without a controller, let writes be posted.     *)
SetupType == [modules : Nat, wait : BOOLEAN, keepgoing : BOOLEAN, posted : BOOLEAN]

ASSUME RemoteBootAssumption ==
  /\ Modules \in Nat \ {0} /\ Blocks \in Nat \ {0}
  /\ Setups \subseteq SetupType
  /\ MaxRuns \in Nat \ {0} /\ MaxFailures \in Nat /\ MaxResets \in Nat
  /\ MaxPosted \in Nat \ {0}

(* What the host writes, in this order: module blocks and list, the header, *)
(* the count.                                                               *)
Header == Blocks + 1
Count  == Blocks + 2
Places == 1..Header

VARIABLES
  setup,    \* target: module count and options it was loaded with
  tpc,      \* target: where main() is
  dma,      \* target: can other nodes reach its memory (RemoteDma)
  count,    \* shared: mods_count
  countBy,  \* history: run of the host that wrote mods_count, 0: nobody
  written,  \* shared: which run wrote a place last, 0: none
  startBy,  \* history: whose modules were started, 0: the boot loader's
  posted,   \* controller: posted writes on their way to memory
  hpc,      \* host: where boot/morbo.py is
  run,      \* host: number of this run
  next,     \* host: next place to write
  mbiCount, \* host: mods_count in the header it read
  failures, resets

hostVars   == <<hpc, run, next, mbiCount>>
memVars    == <<count, countBy, written, posted>>
targetVars == <<tpc, startBy, setup>>
envVars    == <<failures, resets>>
vars == <<targetVars, dma, memVars, hostVars, envVars>>

TargetPc == {"init", "initPoll", "decide", "zero", "poll", "start",
             "running", "returned", "exit"}
HostPc == {"scanRom", "scanCount", "bootRom", "bootCount", "bootCheck", "guid",
           "push", "readMbi", "writeMbi", "writeCount", "done", "dead"}

RemoteDma == INSTANCE RemoteDma WITH dma <- dma

Init ==
  /\ setup \in Setups /\ tpc = "init" /\ dma = "off" /\ startBy = 0
  /\ count = setup.modules /\ countBy = 0
  /\ written = [p \in Places |-> 0] /\ posted = <<>>
  /\ hpc \in {"scanRom", "bootRom"} /\ run = 1 /\ next = 1 /\ mbiCount = 0
  /\ failures = 0 /\ resets = 0

-----------------------------------------------------------------------------
(* Target: main().                                                          *)

TGoto(from, to) == tpc = from /\ tpc' = to

(* ohci_initialize enables the link, then keeps polling for a while.        *)
InitLinkUp ==
  /\ TGoto("init", "initPoll") /\ RemoteDma!LinkUp
  /\ UNCHANGED <<setup, startBy, memVars, hostVars, envVars>>

InitDone ==
  /\ TGoto("initPoll", "decide")
  /\ UNCHANGED <<setup, startBy, dma, memVars, hostVars, envVars>>

(* No controller, or one that does not initialise: main exits, unless it    *)
(* has been told to keep going.                                             *)
OnError ==
  /\ TGoto("init", IF setup.keepgoing THEN "decide" ELSE "exit")
  /\ UNCHANGED <<setup, startBy, dma, memVars, hostVars, envVars>>
NoController == OnError
InitFails    == OnError

(* if ((mbi->mods_count == 0) || do_wait)                                   *)
Decide ==
  /\ TGoto("decide", IF count = 0 \/ setup.wait THEN "zero" ELSE "start")
  /\ UNCHANGED <<setup, startBy, dma, memVars, hostVars, envVars>>

(* Ready to be booted: mods_count is set to zero.                           *)
ZeroCount ==
  /\ TGoto("zero", "poll")
  /\ count' = 0 /\ countBy' = 0
  /\ UNCHANGED <<setup, startBy, dma, written, posted, hostVars, envVars>>

(* The loop until mods_count is no longer zero: the poll that reopens the   *)
(* node for remote DMA, and the check that ends the loop.                   *)
Reopen ==
  /\ tpc \in {"initPoll", "poll"} /\ RemoteDma!Reopen
  /\ UNCHANGED <<targetVars, memVars, hostVars, envVars>>

SeeCount ==
  /\ TGoto("poll", "start") /\ count # 0
  /\ UNCHANGED <<setup, startBy, dma, memVars, hostVars, envVars>>

HasModules == setup.modules # 0 \/ written[Header] # 0

(* Mutant: the module that is started takes the others along.               *)
StartModuleAlone ==
  /\ tpc = "start"
  /\ IF HasModules /\ count # 0
       THEN tpc' = "running" /\ count' = 0 /\ startBy' = countBy
       ELSE tpc' = "returned" /\ UNCHANGED <<count, startBy>>
  /\ dma' = IF dma = "off" THEN "off" ELSE "stopped"
  /\ UNCHANGED <<setup, countBy, written, posted, hostVars, envVars>>

(* start_module: nothing to start, or one module fewer and off it goes.     *)
(* MBI_FLAG_MODS was set by the boot loader or comes with the header.       *)
StartModule ==
  /\ tpc = "start"
  /\ IF HasModules /\ count # 0
       THEN /\ tpc' = "running" /\ count' = count - 1 /\ startBy' = countBy
       ELSE tpc' = "returned" /\ UNCHANGED <<count, startBy>>
  /\ dma' = IF dma = "off" THEN "off" ELSE "stopped"
  /\ UNCHANGED <<setup, countBy, written, posted, hostVars, envVars>>

(* A wait_loop timed out or an assertion failed: the machine reboots.  Main *)
(* polling a controller that was never found may do the same.               *)
TargetExits ==
  /\ tpc \in {"init", "initPoll", "poll"}
  /\ tpc' = "exit" /\ RemoteDma!Stop
  /\ UNCHANGED <<setup, startBy, memVars, hostVars, envVars>>

BusReset ==
  /\ resets < MaxResets /\ resets' = resets + 1
  /\ RemoteDma!Close
  /\ UNCHANGED <<targetVars, memVars, hostVars, failures>>

-----------------------------------------------------------------------------
(* Transactions on the bus.  A node whose modules run still has its link    *)
(* up, until the modules do something about it.                             *)

Reachable ==
  dma = "open" \/ (dma = "stopped" /\ tpc \in {"running", "returned"})

(* A failure: the target cannot be reached, or a transaction went wrong.    *)
Fails ==
  \/ dma # "open" /\ UNCHANGED failures
  \/ failures < MaxFailures /\ failures' = failures + 1

(* A physical read, which waits for the writes posted before it.            *)
Reads == Reachable /\ posted = <<>> /\ UNCHANGED failures

(* The ROM is served as soon as the link is up, whatever the filters say.   *)
ReadsRom == dma # "off" /\ tpc # "exit" /\ UNCHANGED failures

(* The effect of the host's write to a place on the target's memory.  The   *)
(* header holds mods_count: the host writes back the value it has read.     *)
Effect(w) ==
  /\ written' = IF w.place = Count THEN written
                ELSE [written EXCEPT ![w.place] = w.run]
  /\ count' = CASE w.place = Count  -> Modules
                [] w.place = Header -> w.val
                [] OTHER            -> count
  /\ countBy' = IF w.place = Count THEN w.run
                ELSE IF w.place = Header THEN 0 ELSE countBy

Request(p) == [place |-> p, run |-> run, val |-> mbiCount]

(* A block arrives at the controller: it is written, or it is posted.       *)
Arrives(p) ==
  IF setup.posted
    THEN /\ Len(posted) < MaxPosted
         /\ posted' = Append(posted, Request(p))
         /\ UNCHANGED <<count, countBy, written>>
    ELSE Effect(Request(p)) /\ UNCHANGED posted

(* fw_poke sends a block once: it is written, or the run of the host fails, *)
(* with the block lost or with only its acknowledgement lost.               *)
Written(p) == Reachable /\ Arrives(p) /\ UNCHANGED failures
WriteFails(p) ==
  /\ Fails
  /\ \/ UNCHANGED memVars
     \/ Reachable /\ Arrives(p)

PostedLands ==
  /\ posted # <<>> /\ posted' = Tail(posted) /\ Effect(Head(posted))
  /\ UNCHANGED <<targetVars, dma, hostVars, envVars>>

(* A posted write error: the host has been told that the write was done,    *)
(* the target prints a message.                                             *)
PostedIsLost ==
  /\ posted # <<>> /\ posted' = Tail(posted)
  /\ failures < MaxFailures /\ failures' = failures + 1
  /\ UNCHANGED <<targetVars, dma, count, countBy, written, hostVars, resets>>

-----------------------------------------------------------------------------
(* Host: boot/morbo.py.  A failed transaction raises FirewireException.     *)

HGoto(from, to) == hpc = from /\ hpc' = to
HostOnly == UNCHANGED <<targetVars, dma, memVars, run, next, mbiCount, resets>>

(* is_morbo: three reads of the ROM, a failure means "not a Morbo node".    *)
ScanRom == HGoto("scanRom", "scanCount") /\ ReadsRom /\ HostOnly

(* Mutant: what was read is not compared.                                   *)
ReadsAnything == TRUE
ReadsNoModules == count = 0

(* ... and the read of mods_count, which is outside of the try block.       *)
ScanCount ==
  /\ hpc = "scanCount"
  /\ \/ Reads /\ hpc' = IF ReadsNoModules THEN "bootRom" ELSE "scanRom"
     \/ Fails /\ hpc' = "dead"
  /\ HostOnly

(* boot() calls is_morbo again and asserts what it says, ...                *)
BootRom ==
  /\ hpc = "bootRom"
  /\ \/ ReadsRom /\ hpc' = "bootCount"
     \/ Fails /\ hpc' = "dead"
  /\ HostOnly

(* ... reads mods_count once more and asserts "Already booted.",            *)
BootCount ==
  /\ \/ HGoto("bootCount", "bootCheck") /\ Reads /\ ReadsNoModules
     \/ HGoto("bootCheck", "guid") /\ Reads /\ ReadsNoModules
     \/ hpc \in {"bootCount", "bootCheck"} /\ Reads /\ ~ReadsNoModules /\ hpc' = "dead"
     \/ hpc \in {"bootCount", "bootCheck"} /\ Fails /\ hpc' = "dead"
  /\ HostOnly

(* reads the GUID,                                                          *)
ReadGuid ==
  /\ hpc = "guid"
  /\ \/ ReadsRom /\ hpc' = "push"
     \/ Fails /\ hpc' = "dead"
  /\ HostOnly

(* Mutant: the last block of the modules is not waited for.                 *)
PushOneLess ==
  /\ hpc = "push"
  /\ \/ /\ Written(next) /\ next' = next + 1
        /\ hpc' = IF next >= Blocks - 1 THEN "readMbi" ELSE "push"
     \/ WriteFails(next) /\ hpc' = "dead" /\ UNCHANGED next
  /\ UNCHANGED <<targetVars, dma, run, mbiCount, resets>>

(* Mutant: the loop never ends.                                             *)
PushForever ==
  /\ hpc = "push"
  /\ \/ Written(next) /\ next' = next + 1 /\ UNCHANGED hpc
     \/ WriteFails(next) /\ hpc' = "dead" /\ UNCHANGED next
  /\ UNCHANGED <<targetVars, dma, run, mbiCount, resets>>

(* writes the modules, their list,                                          *)
Push ==
  /\ hpc = "push"
  /\ \/ /\ Written(next) /\ next' = next + 1
        /\ hpc' = IF next = Blocks THEN "readMbi" ELSE "push"
     \/ WriteFails(next) /\ hpc' = "dead" /\ UNCHANGED next
  /\ UNCHANGED <<targetVars, dma, run, mbiCount, resets>>

(* reads the header, writes it with the new mods_addr and flag,             *)
ReadMbi ==
  /\ hpc = "readMbi"
  /\ \/ Reads /\ mbiCount' = count /\ hpc' = "writeMbi"
     \/ Fails /\ UNCHANGED mbiCount /\ hpc' = "dead"
  /\ UNCHANGED <<targetVars, dma, memVars, run, next, resets>>

WriteMbi ==
  /\ hpc = "writeMbi"
  /\ \/ Written(Header) /\ next' = Count /\ hpc' = "writeCount"
     \/ WriteFails(Header) /\ UNCHANGED next /\ hpc' = "dead"
  /\ UNCHANGED <<targetVars, dma, run, mbiCount, resets>>

(* Mutant: the result of the last write is not looked at.                   *)
WriteCountUnchecked ==
  /\ HGoto("writeCount", "done")
  /\ Written(Count) \/ WriteFails(Count)
  /\ UNCHANGED <<targetVars, dma, run, next, mbiCount, resets>>

(* and, after the rest, mods_count.                                         *)
WriteCount ==
  /\ hpc = "writeCount"
  /\ \/ Written(Count) /\ hpc' = "done"
     \/ WriteFails(Count) /\ hpc' = "dead"
  /\ UNCHANGED <<targetVars, dma, run, next, mbiCount, resets>>

(* The user interrupts the script, and starts it again, with or without     *)
(* --once.                                                                  *)
HostDies ==
  /\ hpc # "dead" /\ hpc' = "dead" /\ run < MaxRuns
  /\ UNCHANGED failures /\ HostOnly

HostRestarts ==
  /\ hpc \in {"dead", "done"} /\ run < MaxRuns
  /\ run' = run + 1 /\ hpc' \in {"scanRom", "bootRom"}
  /\ next' = 1 /\ mbiCount' = 0
  /\ UNCHANGED <<targetVars, dma, memVars, envVars>>

-----------------------------------------------------------------------------
Target == InitLinkUp \/ InitDone \/ NoController \/ InitFails \/ Decide \/ ZeroCount
          \/ Reopen \/ SeeCount \/ StartModule
Bus == BusReset \/ PostedLands \/ PostedIsLost
HostWrites == Push \/ WriteMbi \/ WriteCount
Host == ScanRom \/ ScanCount \/ BootRom \/ BootCount \/ ReadGuid \/ ReadMbi
        \/ HostWrites
Next == Target \/ TargetExits \/ Bus \/ Host \/ HostDies \/ HostRestarts

(* The target's loop runs, posted writes land or are lost, and a script     *)
(* that is not interrupted goes on.                                         *)
Fairness ==
  /\ WF_vars(InitLinkUp \/ InitDone \/ Decide \/ ZeroCount \/ StartModule)
  /\ WF_vars(Reopen) /\ WF_vars(SeeCount) /\ WF_vars(PostedLands) /\ WF_vars(Host)
Spec == Init /\ [][Next]_vars /\ Fairness

-----------------------------------------------------------------------------
TypeOK ==
  /\ setup \in Setups
  /\ tpc \in TargetPc /\ RemoteDma!DmaTypeOK
  /\ count \in Nat /\ countBy \in 0..run /\ startBy \in 0..run
  /\ written \in [Places -> 0..run]
  /\ posted \in Seq([place : 1..Count, run : 1..run, val : Nat])
  /\ hpc \in HostPc /\ run \in 1..MaxRuns /\ next \in 1..Count
  /\ mbiCount \in Nat
  /\ failures \in 0..MaxFailures /\ resets \in 0..MaxResets

(* "Update it after the rest of the multiboot info is written": modules     *)
(* that a host's mods_count starts are complete, with the list and the      *)
(* header of the same run, whatever an earlier run left behind, unless      *)
(* writes are posted (boot/morbo.py, boot(); morbo.c, main()).  They stay   *)
(* so while they run if there is more than one of them (NoDmaToRunning).    *)
StartedIsComplete ==
  Modules > 1 /\ ~setup.posted /\ startBy # 0 =>
    \A p \in Places : written[p] = startBy

(* "Indicate that we are ready to be booted by setting mbi->mods_count to   *)
(* zero": the zero of main() replaces no count that a host wrote (morbo.c). *)
ZeroErasesNoBoot == [][tpc = "zero" /\ tpc' = "poll" => countBy = 0]_vars

(* The same for a Morbo that was given modules: until main() zeroes the     *)
(* count, it keeps hosts away, with posted writes or without.               *)
NoLostBoot ==
  [][setup.modules # 0 /\ tpc = "zero" /\ tpc' = "poll" => countBy = 0]_vars

(* "Check if the node is ready to receive something": no run of the host    *)
(* writes to a node that already runs its modules, if there is more than    *)
(* one of them and the node began with none or more than one.               *)
NoDmaToRunning ==
  [][Modules > 1 /\ setup.modules # 1 /\ HostWrites =>
       tpc \notin {"running", "returned"}]_vars

(* A host that printed "Boot!" and ended well has booted the node, unless   *)
(* the node rebooted or erased the boot (ZeroErasesNoBoot), or writes are   *)
(* posted.                                                                  *)
DoneIsStarted ==
  ~setup.posted /\ setup.modules # 0 /\ hpc = "done" ~> tpc \in {"running", "exit"}
=============================================================================
