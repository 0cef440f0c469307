-------------------------- MODULE RemoteBootProofs --------------------------
(***************************************************************************)
(* Proofs about RemoteBoot.tla, for every number of modules and blocks,    *)
(* runs of the host, failures and resets.                                  *)
(*   KeptAway      a Morbo with modules of its own keeps hosts away until  *)
(*                 main() has zeroed mods_count: NoLostBoot                *)
(*   HostInv       a host that passed its checks is alone with mods_count, *)
(*                 and has written what comes before `next'                *)
(*   BootInv       a mods_count that a host wrote has its modules below it *)
(* and the last two together give StartedIsComplete.                       *)
(*   QueueInv      posted writes land in order, mods_count last: while it  *)
(*                 is not zero nothing is posted and no host writes,       *)
(*                 which gives NoDmaToRunning                              *)
(***************************************************************************)
EXTENDS RemoteBoot, TLAPS

(* Before main() zeroed mods_count, and where a host is then.               *)
EarlyPc  == {"init", "initPoll", "decide", "zero"}
Outside  == {"scanRom", "scanCount", "bootRom", "bootCount", "dead"}
KeptAway ==
  setup.modules # 0 /\ tpc \in EarlyPc =>
    count # 0 /\ countBy = 0 /\ posted = <<>> /\ hpc \in Outside

(* A host between its last check of mods_count and its own write of it.     *)
Writing == {"bootCheck", "guid", "push", "readMbi", "writeMbi", "writeCount"}
HostInv ==
  /\ posted = <<>> /\ written \in [Places -> Nat]
  /\ run \in Nat \ {0} /\ next \in Nat \ {0}
  /\ hpc \in {"scanRom", "scanCount", "bootRom", "bootCount", "bootCheck", "guid"}
       => next = 1
  /\ hpc \in Writing => count = 0
  /\ hpc \in {"writeMbi", "writeCount"} => mbiCount = 0
  /\ hpc = "push" => next <= Blocks /\ \A p \in 1..(next - 1) : written[p] = run
  /\ hpc \in {"readMbi", "writeMbi"} => \A p \in 1..Blocks : written[p] = run
  /\ hpc = "writeCount" => \A p \in Places : written[p] = run

(* start_module takes one module off a count the host has written.          *)
BootInv ==
  /\ countBy # 0 => /\ count = IF startBy = 0 THEN Modules ELSE Modules - 1
                    /\ \A p \in Places : written[p] = countBy
  /\ startBy # 0 => startBy = countBy
  /\ tpc # "running" => startBy = 0

RunInv == HostInv /\ BootInv

(* Writes that are posted or not: those on their way, and mods_count.       *)
Posting ==
  /\ posted \in Seq([place : Nat, run : Nat, val : Nat])
  /\ ~setup.posted => posted = <<>>
  /\ \A i \in 1..Len(posted) :
       /\ posted[i].place = Header => posted[i].val = 0
       /\ posted[i].place = Count  => i = Len(posted) /\ hpc \notin Writing
QueueInv ==
  /\ setup \in SetupType /\ count \in Nat /\ run \in Nat /\ mbiCount \in Nat
  /\ next \in Nat \ {0} /\ (hpc = "push" => next <= Blocks)
  /\ hpc \in {"scanRom", "scanCount", "bootRom", "bootCount", "bootCheck", "guid"}
       => next = 1
  /\ Posting
  /\ hpc \in {"writeMbi", "writeCount"} => mbiCount = 0
  /\ count # 0 => posted = <<>> /\ hpc \notin Writing

(* The target starts something only if the count says so, and leaves some.  *)
CountInv ==
  /\ tpc \in {"start", "running", "returned"} => count # 0
  /\ tpc \notin {"running", "returned"} => count \in {0, setup.modules, Modules}

-----------------------------------------------------------------------------
LEMMA KeptAwayInit == Init => KeptAway
BY DEF Init, KeptAway, Outside

(* Whatever the target, the bus and hosts do.                               *)
LEMMA KeptAwayStep == KeptAway /\ [Next]_vars => KeptAway'
<1> SUFFICES ASSUME KeptAway, [Next]_vars,
                    (setup.modules # 0 /\ tpc \in EarlyPc)'
             PROVE  (count # 0 /\ countBy = 0 /\ posted = <<>> /\ hpc \in Outside)'
  BY DEF KeptAway
<1> USE DEF KeptAway, EarlyPc, Outside
<1>1. CASE InitLinkUp \/ InitDone \/ NoController \/ InitFails \/ Decide
  BY <1>1 DEF InitLinkUp, InitDone, NoController, InitFails, OnError, Decide, TGoto,
              memVars, hostVars, envVars
<1>2. CASE ZeroCount \/ SeeCount \/ StartModule \/ TargetExits
  BY <1>2 DEF ZeroCount, SeeCount, StartModule, TargetExits, TGoto
<1>3. CASE Reopen \/ BusReset
  BY <1>3 DEF Reopen, BusReset, targetVars, memVars, hostVars, envVars
<1>4. CASE PostedLands \/ PostedIsLost
  BY <1>4 DEF PostedLands, PostedIsLost, targetVars
<1>5. CASE ScanRom \/ ScanCount \/ BootRom \/ BootCount
  BY <1>5 DEF ScanRom, ScanCount, BootRom, BootCount, HGoto, HostOnly, ReadsNoModules,
              Fails, Reads, targetVars, memVars
<1>6. CASE ReadGuid \/ ReadMbi \/ HostWrites
  BY <1>6 DEF ReadGuid, ReadMbi, HostWrites, Push, WriteMbi, WriteCount, HostOnly,
              targetVars
<1>7. CASE HostDies \/ HostRestarts
  BY <1>7 DEF HostDies, HostRestarts, HostOnly, targetVars, memVars
<1>8. CASE UNCHANGED vars
  BY <1>8 DEF vars, targetVars, memVars, hostVars, envVars
<1>9. QED
  BY <1>1, <1>2, <1>3, <1>4, <1>5, <1>6, <1>7, <1>8 DEF Next, Target, Bus, Host

LEMMA KeptAwayCorrect == Spec => []KeptAway
BY KeptAwayInit, KeptAwayStep, PTL DEF Spec

(* The zero that main() writes replaces no count of a host, if Morbo was    *)
(* given modules: until then the count it was given keeps hosts away.       *)
THEOREM ZeroIsHarmless == Spec => NoLostBoot
<1>1. KeptAway => (setup.modules # 0 /\ tpc = "zero" /\ tpc' = "poll" => countBy = 0)
  BY DEF KeptAway, EarlyPc
<1>2. QED
  BY <1>1, KeptAwayCorrect, PTL DEF NoLostBoot

-----------------------------------------------------------------------------
(* What a block does that is not posted.                                    *)
LEMMA ArrivesAtOnce ==
  ASSUME NEW p \in 1..Count, ~setup.posted, Arrives(p)
  PROVE  /\ posted' = posted
         /\ p = Count  => written' = written /\ count' = Modules /\ countBy' = run
         /\ p # Count  => written' = [written EXCEPT ![p] = run]
         /\ p = Header => count' = mbiCount /\ countBy' = 0
         /\ p \notin {Header, Count} => count' = count /\ countBy' = countBy
<1>1. Header # Count
  BY RemoteBootAssumption DEF Header, Count
<1>2. QED
  BY <1>1 DEF Arrives, Effect, Request

LEMMA RunInvInit == Init => RunInv
BY DEF Init, RunInv, HostInv, BootInv, Writing, Places

(* The target, as long as nothing is posted.                                *)
LEMMA TargetKeepsRunInv ==
  ASSUME Modules > 1, ~setup.posted, RunInv, Target \/ TargetExits \/ Bus
  PROVE  RunInv'
<1> USE DEF RunInv, HostInv, BootInv, Writing
<1>1. CASE InitLinkUp \/ InitDone \/ NoController \/ InitFails \/ Decide
  BY <1>1 DEF InitLinkUp, InitDone, NoController, InitFails, OnError, Decide, TGoto,
              memVars, hostVars
<1>2. CASE SeeCount \/ Reopen \/ BusReset \/ TargetExits
  BY <1>2 DEF SeeCount, Reopen, BusReset, TargetExits, TGoto, memVars, hostVars, targetVars
<1>3. CASE ZeroCount
  BY <1>3 DEF ZeroCount, TGoto, hostVars
<1>4. CASE StartModule
  <2>1. HostInv'
    BY <1>4 DEF StartModule, hostVars
  <2>2. BootInv'
    BY <1>4, RemoteBootAssumption DEF StartModule
  <2>3. QED
    BY <2>1, <2>2
<1>5. CASE PostedLands \/ PostedIsLost
  BY <1>5 DEF PostedLands, PostedIsLost
<1>6. QED
  BY <1>1, <1>2, <1>3, <1>4, <1>5 DEF Target, Bus

(* A host up to its first write, and between two runs.                      *)
LEMMA CheckingKeepsRunInv ==
  ASSUME ~setup.posted, RunInv,
         ScanRom \/ ScanCount \/ BootRom \/ BootCount \/ ReadGuid \/ ReadMbi
           \/ HostDies \/ HostRestarts
  PROVE  RunInv'
<1> USE DEF RunInv, HostInv, BootInv, Writing, HostOnly, HGoto, targetVars, memVars
<1>1. CASE ScanRom \/ ScanCount \/ BootRom
  BY <1>1 DEF ScanRom, ScanCount, BootRom, ReadsNoModules
<1>2. CASE BootCount
  BY <1>2 DEF BootCount, ReadsNoModules
<1>3. CASE ReadGuid
  BY <1>3, RemoteBootAssumption DEF ReadGuid
<1>4. CASE ReadMbi
  BY <1>4 DEF ReadMbi
<1>5. CASE HostDies \/ HostRestarts
  BY <1>5 DEF HostDies, HostRestarts
<1>6. QED
  BY <1>1, <1>2, <1>3, <1>4, <1>5

(* A host that writes.                                                      *)
LEMMA WritingKeepsRunInv ==
  ASSUME Modules > 1, ~setup.posted, RunInv, HostWrites
  PROVE  RunInv'
<1> USE DEF RunInv, HostInv, BootInv, Writing, targetVars
<1>0. Blocks \in Nat \ {0} /\ Modules \in Nat /\ Header = Blocks + 1 /\ Count = Blocks + 2
      /\ Places = 1..(Blocks + 1)
  BY RemoteBootAssumption DEF Header, Count, Places
<1>a. countBy = 0
  BY <1>0 DEF HostWrites, Push, WriteMbi, WriteCount, HGoto
<1>1. CASE Push
  <2>1. next \in 1..Blocks /\ hpc = "push" /\ count = 0
    BY <1>1, <1>0 DEF Push
  <2>2. CASE Arrives(next)
    <3>1. /\ posted' = posted /\ count' = count /\ countBy' = countBy
          /\ written' = [written EXCEPT ![next] = run]
      BY <2>1, <2>2, <1>0, ArrivesAtOnce
    <3>2. BootInv'
      BY <3>1, <1>1, <1>a DEF Push
    <3>3. HostInv'
      BY <3>1, <2>1, <1>1, <1>0 DEF Push
    <3>4. QED
      BY <3>2, <3>3
  <2>3. CASE UNCHANGED memVars /\ hpc' = "dead"
    BY <2>3, <1>1 DEF Push, memVars
  <2>4. QED
    BY <1>1, <2>2, <2>3 DEF Push, Written, WriteFails
<1>2. CASE WriteMbi
  <2>1. hpc = "writeMbi" /\ count = 0 /\ mbiCount = 0
    BY <1>2 DEF WriteMbi
  <2>2. CASE Arrives(Header)
    <3>1. /\ posted' = posted /\ count' = 0 /\ countBy' = 0
          /\ written' = [written EXCEPT ![Header] = run]
      BY <2>1, <2>2, <1>0, ArrivesAtOnce
    <3>2. BootInv'
      BY <3>1, <1>2, <1>a DEF WriteMbi
    <3>3. HostInv'
      BY <3>1, <2>1, <1>2, <1>0 DEF WriteMbi
    <3>4. QED
      BY <3>2, <3>3
  <2>3. CASE UNCHANGED memVars /\ hpc' = "dead"
    BY <2>3, <1>2 DEF WriteMbi, memVars
  <2>4. QED
    BY <1>2, <2>2, <2>3 DEF WriteMbi, Written, WriteFails
<1>3. CASE WriteCount
  <2>1. hpc = "writeCount" /\ hpc' \in {"done", "dead"}
    BY <1>3 DEF WriteCount
  <2>2. CASE Arrives(Count)
    <3>1. /\ posted' = posted /\ count' = Modules /\ countBy' = run
          /\ written' = written
      BY <2>1, <2>2, <1>0, ArrivesAtOnce
    <3>2. startBy = 0
      BY <1>a
    <3>3. BootInv'
      BY <3>1, <3>2, <2>1, <1>3 DEF WriteCount
    <3>4. HostInv'
      BY <3>1, <2>1, <1>3 DEF WriteCount
    <3>5. QED
      BY <3>3, <3>4
  <2>3. CASE UNCHANGED memVars
    BY <2>3, <2>1, <1>3 DEF WriteCount, memVars
  <2>4. QED
    BY <1>3, <2>2, <2>3 DEF WriteCount, Written, WriteFails
<1>4. QED
  BY <1>1, <1>2, <1>3 DEF HostWrites

RunInvUnposted == Modules > 1 /\ ~setup.posted => RunInv

LEMMA RunInvStep == RunInvUnposted /\ [Next]_vars => RunInvUnposted'
<1> SUFFICES ASSUME Modules > 1, RunInvUnposted, [Next]_vars, (~setup.posted)'
             PROVE  RunInv'
  BY DEF RunInvUnposted
<1> USE DEF RunInvUnposted
<1>1. CASE UNCHANGED vars
  BY <1>1 DEF vars, targetVars, memVars, hostVars, RunInv, HostInv, BootInv
<1>2. CASE Next
  <2>1. setup' = setup
    BY <1>2 DEF Next, Target, Bus, Host, HostWrites, InitLinkUp, InitDone, NoController,
       InitFails, OnError, Decide, ZeroCount, Reopen, SeeCount, StartModule, TargetExits,
       BusReset, PostedLands, PostedIsLost, ScanRom, ScanCount, BootRom, BootCount,
       ReadGuid, ReadMbi, Push, WriteMbi, WriteCount, HostDies, HostRestarts, HostOnly,
       targetVars
  <2>2. QED
    BY <1>2, <2>1, TargetKeepsRunInv, CheckingKeepsRunInv, WritingKeepsRunInv
       DEF Next, Host
<1>3. QED
  BY <1>1, <1>2

(* What a host's mods_count starts is complete and of one run, however many *)
(* runs failed or died before, if a node that runs has modules left over.   *)
THEOREM StartsOnlyComplete == Spec => []StartedIsComplete
<1>1. RunInvUnposted => StartedIsComplete
  BY DEF RunInvUnposted, RunInv, BootInv, StartedIsComplete
<1>2. Init => RunInvUnposted
  BY RunInvInit DEF RunInvUnposted
<1>3. QED
  BY <1>1, <1>2, RunInvStep, PTL DEF Spec

-----------------------------------------------------------------------------
(* The effect of a write on mods_count.                                     *)
LEMMA EffectOnCount ==
  ASSUME NEW w, Effect(w)
  PROVE  /\ w.place = Count => count' = Modules
         /\ w.place = Header => count' = w.val
         /\ w.place \notin {Header, Count} => count' = count
<1>1. Header # Count
  BY RemoteBootAssumption DEF Header, Count
<1>2. QED
  BY <1>1 DEF Effect

LEMMA QueueInvInit == Init => QueueInv /\ CountInv
<1> SUFFICES ASSUME Init PROVE QueueInv /\ CountInv
  OBVIOUS
<1>1. setup \in SetupType
  BY RemoteBootAssumption DEF Init
<1>2. QED
  BY <1>1 DEF Init, QueueInv, CountInv, Posting, Writing, SetupType

LEMMA TargetKeepsQueue ==
  ASSUME Modules > 1, setup.modules # 1, QueueInv, CountInv, Target \/ TargetExits
  PROVE  QueueInv' /\ CountInv'
<1> USE RemoteBootAssumption DEF QueueInv, CountInv, Posting, Writing, SetupType
<1>1. CASE InitLinkUp \/ InitDone \/ NoController \/ InitFails \/ Decide
  BY <1>1 DEF InitLinkUp, InitDone, NoController, InitFails, OnError, Decide, TGoto,
              memVars, hostVars
<1>2. CASE SeeCount \/ Reopen \/ TargetExits
  BY <1>2 DEF SeeCount, Reopen, TargetExits, TGoto, memVars, hostVars, targetVars
<1>3. CASE ZeroCount
  BY <1>3 DEF ZeroCount, TGoto, hostVars
<1>4. CASE StartModule
  <2>1. count \in Nat \ {0} /\ count # 1 /\ tpc = "start" /\ tpc' \in {"running", "returned"}
    BY <1>4 DEF StartModule
  <2>2. count' \in Nat \ {0} /\ UNCHANGED <<setup, posted, hostVars>>
    BY <1>4, <2>1 DEF StartModule
  <2>3. QED
    BY <2>1, <2>2 DEF hostVars
<1>5. QED
  BY <1>1, <1>2, <1>3, <1>4 DEF Target

(* A posted write lands or is lost: the rest of the queue moves up.         *)
LEMMA BusKeepsQueue ==
  ASSUME Modules > 1, QueueInv, CountInv, Bus
  PROVE  QueueInv' /\ CountInv'
<1>1. CASE BusReset
  BY <1>1 DEF BusReset, targetVars, memVars, hostVars, QueueInv, CountInv, Posting
<1>2. CASE PostedLands \/ PostedIsLost
  <2>1. /\ posted # <<>> /\ posted' = Tail(posted) /\ count = 0
        /\ UNCHANGED <<targetVars, hostVars>>
    BY <1>2 DEF PostedLands, PostedIsLost, QueueInv
  <2>2. posted \in Seq([place : Nat, run : Nat, val : Nat])
    BY DEF QueueInv, Posting
  <2>3. /\ Len(posted) \in Nat \ {0} /\ Len(posted') = Len(posted) - 1
        /\ posted' \in Seq([place : Nat, run : Nat, val : Nat])
        /\ \A i \in 1..Len(posted') : posted'[i] = posted[i + 1]
    BY <2>1, <2>2
  <2>4. Posting'
    <3>1. ASSUME NEW i \in 1..Len(posted')
          PROVE  /\ posted'[i].place = Header => posted'[i].val = 0
                 /\ posted'[i].place = Count => i = Len(posted') /\ hpc' \notin Writing
      <4>1. i + 1 \in 1..Len(posted) /\ posted'[i] = posted[i + 1] /\ hpc' = hpc
        BY <2>1, <2>3 DEF hostVars
      <4>2. /\ posted[i + 1].place = Header => posted[i + 1].val = 0
            /\ posted[i + 1].place = Count => i + 1 = Len(posted) /\ hpc \notin Writing
        BY <4>1 DEF QueueInv, Posting
      <4>3. i + 1 = Len(posted) => i = Len(posted')
        BY <2>3
      <4>4. QED
        BY <4>1, <4>2, <4>3
    <3>2. setup' = setup /\ setup.posted
      BY <2>1 DEF QueueInv, Posting, targetVars
    <3>3. QED
      BY <3>1, <3>2, <2>3 DEF Posting
  <2>5. count' = 0 \/ (count' = Modules /\ posted' = <<>> /\ hpc \notin Writing)
    <3>1. CASE PostedIsLost
      BY <3>1, <2>1 DEF PostedIsLost
    <3>2. CASE PostedLands
      <4>1. Effect(posted[1])
        BY <3>2 DEF PostedLands
      <4>2. posted[1].place = Header => posted[1].val = 0
        BY <2>3 DEF QueueInv, Posting
      <4>3. posted[1].place = Count => posted' = <<>> /\ hpc \notin Writing
        BY <2>3 DEF QueueInv, Posting
      <4>4. QED
        BY <2>1, <4>1, <4>2, <4>3, EffectOnCount
    <3>3. QED
      BY <1>2, <3>1, <3>2
  <2>6. QueueInv'
    BY <2>1, <2>4, <2>5, RemoteBootAssumption DEF QueueInv, targetVars, hostVars, Writing
  <2>7. CountInv'
    BY <2>1, <2>5 DEF CountInv, targetVars
  <2>8. QED
    BY <2>6, <2>7
<1>3. QED
  BY <1>1, <1>2 DEF Bus

LEMMA CheckingKeepsQueue ==
  ASSUME QueueInv, CountInv,
         ScanRom \/ ScanCount \/ BootRom \/ BootCount \/ ReadGuid \/ ReadMbi
           \/ HostDies \/ HostRestarts
  PROVE  QueueInv' /\ CountInv'
<1>1. UNCHANGED <<setup, tpc, count, posted>>
  BY DEF ScanRom, ScanCount, BootRom, BootCount, ReadGuid, ReadMbi, HostDies,
         HostRestarts, HostOnly, targetVars, memVars
<1>2. CountInv'
  BY <1>1 DEF CountInv
<1>3. hpc' \in Writing => hpc \in Writing \/ (posted = <<>> /\ count = 0)
  BY DEF ScanRom, ScanCount, BootRom, BootCount, ReadGuid, ReadMbi, HostDies,
         HostRestarts, HGoto, Reads, ReadsNoModules, Writing
<1>4. Posting'
  BY <1>1, <1>3 DEF QueueInv, Posting
<1>5. count' # 0 => posted' = <<>> /\ hpc' \notin Writing
  BY <1>1, <1>3 DEF QueueInv
<1>6. /\ run' \in Nat /\ mbiCount' \in Nat /\ next' \in Nat \ {0}
      /\ hpc' \in {"writeMbi", "writeCount"} => mbiCount' = 0
      /\ hpc' = "push" => next' <= Blocks
      /\ hpc' \in {"scanRom", "scanCount", "bootRom", "bootCount", "bootCheck", "guid"}
           => next' = 1
  <2> USE RemoteBootAssumption DEF QueueInv, Writing
  <2>1. CASE ScanRom \/ ScanCount \/ BootRom \/ HostDies
    BY <2>1 DEF ScanRom, ScanCount, BootRom, HostDies, HGoto, HostOnly
  <2>2. CASE BootCount
    BY <2>2 DEF BootCount, HGoto, HostOnly
  <2>3. CASE ReadGuid
    BY <2>3 DEF ReadGuid, HostOnly
  <2>4. CASE ReadMbi
    BY <2>4 DEF ReadMbi
  <2>5. CASE HostRestarts
    BY <2>5 DEF HostRestarts
  <2>6. QED
    BY <2>1, <2>2, <2>3, <2>4, <2>5
<1>7. QueueInv'
  BY <1>1, <1>4, <1>5, <1>6 DEF QueueInv
<1>8. QED
  BY <1>2, <1>7

(* A write of a host joins the queue, or takes effect.                      *)
LEMMA ArrivalKeepsPosting ==
  ASSUME Posting, count = 0, hpc \in Writing, NEW p \in 1..Count, Arrives(p),
         run \in Nat, mbiCount \in Nat, p = Header => mbiCount = 0,
         p = Count => hpc' \notin Writing, setup' = setup
  PROVE  Posting' /\ (count' = 0 \/ (p = Count /\ count' = Modules /\ posted' = <<>>))
<1>0. Header \in Nat /\ Count \in Nat /\ Header # Count
  BY RemoteBootAssumption DEF Header, Count
<1>1. posted \in Seq([place : Nat, run : Nat, val : Nat])
  BY DEF Posting
<1>2. \A i \in 1..Len(posted) :
        posted[i].place # Count /\ (posted[i].place = Header => posted[i].val = 0)
  BY DEF Posting
<1>3. CASE setup.posted
  <2>1. posted' = Append(posted, Request(p)) /\ count' = count
    BY <1>3 DEF Arrives
  <2>2. Request(p) \in [place : Nat, run : Nat, val : Nat]
    BY <1>0 DEF Request
  <2>3. /\ posted' \in Seq([place : Nat, run : Nat, val : Nat])
        /\ Len(posted') = Len(posted) + 1 /\ posted'[Len(posted')] = Request(p)
        /\ \A i \in 1..Len(posted) : posted'[i] = posted[i]
    BY <1>1, <2>1, <2>2
  <2>4. ASSUME NEW i \in 1..Len(posted')
        PROVE  /\ posted'[i].place = Header => posted'[i].val = 0
               /\ posted'[i].place = Count => i = Len(posted') /\ hpc' \notin Writing
    <3>1. CASE i = Len(posted')
      BY <3>1, <2>3 DEF Request
    <3>2. CASE i # Len(posted')
      <4>1. i \in 1..Len(posted)
        BY <3>2, <2>3, <1>1
      <4>2. QED
        BY <4>1, <2>3, <1>2
    <3>3. QED
      BY <3>1, <3>2
  <2>5. QED
    BY <1>3, <2>1, <2>3, <2>4 DEF Posting
<1>4. CASE ~setup.posted
  <2>1. posted' = posted /\ Effect(Request(p))
    BY <1>4 DEF Arrives
  <2>2. posted = <<>>
    BY <1>4 DEF Posting
  <2>3. Posting'
    BY <2>1, <2>2, <1>1 DEF Posting
  <2>4. count' = 0 \/ (p = Count /\ count' = Modules)
    BY <2>1, <1>0, EffectOnCount DEF Request
  <2>5. QED
    BY <2>1, <2>2, <2>3, <2>4
<1>5. QED
  BY <1>3, <1>4

LEMMA HostWritesKeepsQueue ==
  ASSUME Modules > 1, QueueInv, CountInv, HostWrites
  PROVE  QueueInv' /\ CountInv'
<1>0. /\ Blocks \in Nat \ {0} /\ Modules \in Nat \ {0}
      /\ Header = Blocks + 1 /\ Count = Blocks + 2
  BY RemoteBootAssumption DEF Header, Count
<1>1. hpc \in {"push", "writeMbi", "writeCount"}
  BY DEF HostWrites, Push, WriteMbi, WriteCount, HGoto
<1>2. /\ count = 0 /\ Posting /\ hpc \in Writing /\ setup \in SetupType
      /\ run \in Nat /\ mbiCount \in Nat /\ next \in Nat \ {0}
  BY <1>1 DEF QueueInv, Writing
<1>3. /\ hpc = "push" => next \in 1..Blocks
      /\ hpc # "push" => mbiCount = 0
  BY <1>0, <1>1 DEF QueueInv
<1>4. /\ UNCHANGED <<setup, tpc, run, mbiCount>>
      /\ next' \in Nat \ {0} /\ (hpc' = "push" => next' <= Blocks)
      /\ hpc' \in {"push", "readMbi", "writeCount", "done", "dead"}
      /\ hpc' = "writeCount" => hpc = "writeMbi"
  <2>1. CASE Push
    <3>1. hpc = "push" /\ next \in 1..Blocks /\ UNCHANGED <<setup, tpc, run, mbiCount>>
      BY <2>1, <1>3 DEF Push, targetVars
    <3>2. \/ next' = next + 1 /\ hpc' = IF next = Blocks THEN "readMbi" ELSE "push"
          \/ next' = next /\ hpc' = "dead"
      BY <2>1 DEF Push
    <3>3. QED
      BY <3>1, <3>2, <1>0
  <2>2. CASE WriteMbi
    BY <2>2, <1>0, <1>2 DEF WriteMbi, targetVars
  <2>3. CASE WriteCount
    BY <2>3, <1>2 DEF WriteCount, HGoto, targetVars
  <2>4. QED
    BY <2>1, <2>2, <2>3 DEF HostWrites
<1>5. \/ hpc = "push" /\ Arrives(next)
      \/ hpc = "writeMbi" /\ Arrives(Header)
      \/ hpc = "writeCount" /\ Arrives(Count) /\ hpc' \notin Writing
      \/ UNCHANGED memVars
  BY DEF HostWrites, Push, WriteMbi, WriteCount, Written, WriteFails, HGoto, Writing
<1>6. Posting' /\ (count' = 0 \/ (count' = Modules /\ posted' = <<>> /\ hpc' \notin Writing))
  <2>1. CASE hpc = "push" /\ Arrives(next)
    <3>1. next \in 1..Count /\ next # Header /\ next # Count
      BY <2>1, <1>0, <1>3
    <3>2. QED
      BY <2>1, <3>1, <1>2, <1>4, ArrivalKeepsPosting
  <2>2. CASE hpc = "writeMbi" /\ Arrives(Header)
    <3>1. Header \in 1..Count /\ Header # Count /\ mbiCount = 0
      BY <2>2, <1>0, <1>3
    <3>2. QED
      BY <2>2, <3>1, <1>2, <1>4, ArrivalKeepsPosting
  <2>3. CASE hpc = "writeCount" /\ Arrives(Count) /\ hpc' \notin Writing
    <3>1. Count \in 1..Count /\ Header # Count
      BY <1>0
    <3>2. QED
      BY <2>3, <3>1, <1>2, <1>4, ArrivalKeepsPosting
  <2>4. CASE UNCHANGED memVars
    <3>1. posted' = posted /\ count' = count /\ setup' = setup
      BY <2>4, <1>4 DEF memVars
    <3>2. \A i \in 1..Len(posted) : posted[i].place # Count
      BY <1>2 DEF Posting
    <3>3. QED
      BY <3>1, <3>2, <1>2 DEF Posting
  <2>5. QED
    BY <2>1, <2>2, <2>3, <2>4, <1>5
<1>7. QueueInv'
  BY <1>0, <1>2, <1>3, <1>4, <1>6 DEF QueueInv
<1>8. CountInv'
  <2>1. tpc' = tpc /\ setup' = setup /\ tpc \notin {"start", "running", "returned"}
    BY <1>2, <1>4 DEF CountInv
  <2>2. QED
    BY <2>1, <1>6 DEF CountInv
<1>9. QED
  BY <1>7, <1>8

(* Both invariants, where a node that is started keeps a module.            *)
LeftOver == Modules > 1 /\ setup.modules # 1 => QueueInv /\ CountInv

LEMMA LeftOverStep == LeftOver /\ [Next]_vars => LeftOver'
<1> SUFFICES ASSUME Modules > 1, LeftOver, [Next]_vars, (setup.modules # 1)'
             PROVE  QueueInv' /\ CountInv'
  BY DEF LeftOver
<1>1. CASE UNCHANGED vars
  BY <1>1 DEF LeftOver, vars, targetVars, memVars, hostVars, QueueInv, CountInv, Posting
<1>2. CASE Next
  <2>1. setup' = setup
    BY <1>2 DEF Next, Target, Bus, Host, HostWrites, InitLinkUp, InitDone, NoController,
       InitFails, OnError, Decide, ZeroCount, Reopen, SeeCount, StartModule, TargetExits,
       BusReset, PostedLands, PostedIsLost, ScanRom, ScanCount, BootRom, BootCount,
       ReadGuid, ReadMbi, Push, WriteMbi, WriteCount, HostDies, HostRestarts, HostOnly,
       targetVars
  <2>2. setup.modules # 1 /\ QueueInv /\ CountInv
    BY <2>1 DEF LeftOver
  <2>3. QED
    BY <1>2, <2>2, TargetKeepsQueue, BusKeepsQueue, CheckingKeepsQueue, HostWritesKeepsQueue
       DEF Next, Host
<1>3. QED
  BY <1>1, <1>2

(* No host writes to a node that runs: while it runs mods_count is not zero *)
(* and no write is under way.                                               *)
THEOREM NoWriteToRunning == Spec => NoDmaToRunning
<1>1. ASSUME LeftOver, Modules > 1, setup.modules # 1, HostWrites
      PROVE  tpc \notin {"running", "returned"}
  <2>1. hpc \in Writing
    BY <1>1 DEF HostWrites, Push, WriteMbi, WriteCount, HGoto, Writing
  <2>2. QED
    BY <1>1, <2>1 DEF LeftOver, QueueInv, CountInv
<1>2. LeftOver => (Modules > 1 /\ setup.modules # 1 /\ HostWrites =>
                     tpc \notin {"running", "returned"})
  BY <1>1
<1>3. Init => LeftOver
  BY QueueInvInit DEF LeftOver
<1>4. QED
  BY <1>2, <1>3, LeftOverStep, PTL DEF Spec, NoDmaToRunning
-----------------------------------------------------------------------------
(* Types: `next' stays a place only because the pushing of blocks ends.     *)
Pushing == {"scanRom", "scanCount", "bootRom", "bootCount", "bootCheck", "guid", "push"}
TypeInv == TypeOK /\ (hpc \in Pushing => next \in 1..Blocks)
Requests(r) == [place : 1..Count, run : 1..r, val : Nat]

LEMMA PlacesAreNumbers ==
  /\ Blocks \in Nat \ {0} /\ Modules \in Nat /\ Header = Blocks + 1 /\ Count = Blocks + 2
  /\ Header \in Places /\ Header \in 1..Count /\ Count \in 1..Count /\ Count # Header
  /\ 1..Blocks \subseteq Places /\ Places \subseteq 1..Count
  /\ \A p \in 1..Count : p # Count => p \in Places
BY RemoteBootAssumption DEF Header, Count, Places

LEMMA TypeInit == Init => TypeInv
<1> SUFFICES ASSUME Init PROVE TypeInv
  OBVIOUS
<1>1. setup \in Setups /\ setup.modules \in Nat
  BY RemoteBootAssumption DEF Init, SetupType
<1>2. 1 \in 1..Blocks /\ 1 \in 1..Count /\ 1 \in 1..MaxRuns /\ 0 \in 0..MaxFailures
      /\ 0 \in 0..MaxResets /\ 0 \in 0..1
  BY RemoteBootAssumption, PlacesAreNumbers
<1>3. written \in [Places -> 0..run] /\ posted \in Seq(Requests(run))
  BY <1>2 DEF Init
<1> QED
  BY <1>1, <1>2, <1>3
  DEF Init, TypeInv, TypeOK, TargetPc, HostPc, RemoteDma!DmaTypeOK, Requests

(* A write takes effect, or waits.                                          *)
LEMMA EffectTypes ==
  ASSUME TypeOK, NEW w \in Requests(run), Effect(w)
  PROVE  count' \in Nat /\ countBy' \in 0..run /\ written' \in [Places -> 0..run]
<1>1. w.place \in 1..Count /\ w.run \in 1..run /\ w.val \in Nat /\ run \in Nat
  BY DEF Requests, TypeOK
<1>2. count' \in Nat
  BY <1>1, PlacesAreNumbers DEF Effect, TypeOK
<1>3. countBy' \in 0..run
  BY <1>1 DEF Effect, TypeOK
<1>4. w.run \in 0..run
  BY <1>1
<1>5. written' \in [Places -> 0..run]
  BY <1>1, <1>4, PlacesAreNumbers DEF Effect, TypeOK
<1> QED
  BY <1>2, <1>3, <1>5

LEMMA ArrivesTypes ==
  ASSUME TypeOK, NEW p \in 1..Count, Arrives(p)
  PROVE  /\ count' \in Nat /\ countBy' \in 0..run /\ written' \in [Places -> 0..run]
         /\ posted' \in Seq(Requests(run))
<1>1. Request(p) \in Requests(run)
  BY DEF Request, Requests, TypeOK
<1>2. posted \in Seq(Requests(run))
  BY DEF TypeOK, Requests
<1>3. CASE setup.posted
  <2>1. posted' = Append(posted, Request(p)) /\ UNCHANGED <<count, countBy, written>>
    BY <1>3 DEF Arrives
  <2>2. posted' \in Seq(Requests(run))
    BY <1>1, <1>2, <2>1
  <2> QED
    BY <2>1, <2>2 DEF TypeOK
<1>4. CASE ~setup.posted
  BY <1>1, <1>2, <1>4, EffectTypes DEF Arrives
<1> QED
  BY <1>3, <1>4

LEMMA TypeStep == TypeInv /\ [Next]_vars => TypeInv'
<1> SUFFICES ASSUME TypeInv, [Next]_vars PROVE TypeInv'
  OBVIOUS
<1> DEFINE NewTarget == setup' \in Setups /\ tpc' \in TargetPc /\ dma' \in {"off", "open", "closed", "stopped"}
           NewMemory == /\ count' \in Nat /\ countBy' \in 0..run' /\ startBy' \in 0..run'
                      /\ written' \in [Places -> 0..run'] /\ posted' \in Seq(Requests(run'))
           NewHost   == /\ hpc' \in HostPc /\ run' \in 1..MaxRuns /\ next' \in 1..Count
                      /\ mbiCount' \in Nat /\ (hpc' \in Pushing => next' \in 1..Blocks)
           NewEnv    == failures' \in 0..MaxFailures /\ resets' \in 0..MaxResets
<1>0. SUFFICES NewTarget /\ NewMemory /\ NewHost /\ NewEnv
  BY DEF TypeInv, TypeOK, RemoteDma!DmaTypeOK, Requests
<1> USE DEF hostVars, memVars, targetVars, envVars, HostOnly
<1>1. /\ setup \in Setups /\ tpc \in TargetPc /\ dma \in {"off", "open", "closed", "stopped"}
      /\ count \in Nat /\ countBy \in 0..run /\ startBy \in 0..run
      /\ written \in [Places -> 0..run] /\ posted \in Seq(Requests(run))
      /\ hpc \in HostPc /\ run \in 1..MaxRuns /\ next \in 1..Count
      /\ mbiCount \in Nat /\ (hpc \in Pushing => next \in 1..Blocks)
      /\ failures \in 0..MaxFailures /\ resets \in 0..MaxResets
      /\ MaxRuns \in Nat /\ MaxFailures \in Nat /\ MaxResets \in Nat
  BY RemoteBootAssumption DEF TypeInv, TypeOK, RemoteDma!DmaTypeOK, Requests
<1> HIDE DEF NewTarget, NewMemory, NewHost, NewEnv
<1>2. ASSUME Fails \/ UNCHANGED failures, resets' = resets PROVE NewEnv
  BY <1>1, <1>2 DEF Fails, NewEnv
<1>3. ASSUME UNCHANGED memVars, UNCHANGED <<run, startBy>> PROVE NewMemory
  BY <1>1, <1>3 DEF NewMemory
<1>4. ASSUME UNCHANGED <<setup, tpc, dma>> PROVE NewTarget
  BY <1>1, <1>4 DEF NewTarget
<1>5. ASSUME UNCHANGED hostVars PROVE NewHost
  BY <1>1, <1>5 DEF NewHost
<1>6. CASE InitLinkUp \/ InitDone \/ NoController \/ InitFails \/ Decide \/ Reopen \/ SeeCount
           \/ TargetExits
  <2>1. NewTarget
    BY <1>1, <1>6 DEF InitLinkUp, InitDone, NoController, InitFails, OnError, Decide, Reopen, SeeCount,
                      TargetExits, TGoto, RemoteDma!LinkUp, RemoteDma!Reopen, RemoteDma!Stop,
                      TargetPc, NewTarget
  <2>2. UNCHANGED <<memVars, startBy, hostVars, envVars>>
    BY <1>6 DEF InitLinkUp, InitDone, NoController, InitFails, OnError, Decide, Reopen, SeeCount,
                TargetExits
  <2> QED
    BY <1>2, <1>3, <1>5, <2>1, <2>2
<1>7. CASE ZeroCount \/ StartModule
  <2>1. NewTarget
    BY <1>1, <1>7 DEF ZeroCount, StartModule, TGoto, TargetPc, NewTarget
  <2>2. UNCHANGED <<hostVars, envVars, written, posted>>
    BY <1>7 DEF ZeroCount, StartModule
  <2>3. count' \in Nat /\ countBy' \in 0..run /\ startBy' \in 0..run
    BY <1>1, <1>7 DEF ZeroCount, StartModule
  <2> QED
    BY <1>1, <1>2, <1>5, <2>1, <2>2, <2>3 DEF NewMemory
<1>8. CASE BusReset
  BY <1>1, <1>3, <1>5, <1>8 DEF BusReset, RemoteDma!Close, NewTarget, NewEnv
<1>9. CASE PostedLands \/ PostedIsLost
  <2>1. /\ UNCHANGED <<targetVars, dma, hostVars, resets>> /\ (Fails \/ UNCHANGED failures)
        /\ posted # <<>> /\ posted' = Tail(posted)
        /\ Effect(Head(posted)) \/ UNCHANGED <<count, countBy, written>>
    BY <1>9 DEF PostedLands, PostedIsLost, Fails
  <2>2. Head(posted) \in Requests(run) /\ Tail(posted) \in Seq(Requests(run))
    BY <1>1, <2>1
  <2>3. count' \in Nat /\ countBy' \in 0..run /\ written' \in [Places -> 0..run]
    BY <1>1, <2>1, <2>2, EffectTypes DEF TypeInv
  <2> QED
    BY <1>1, <1>2, <1>4, <1>5, <2>1, <2>2, <2>3 DEF NewMemory
<1>10. CASE ScanRom \/ ScanCount \/ BootRom \/ BootCount \/ ReadGuid \/ HostDies
  <2>1. /\ UNCHANGED <<targetVars, dma, memVars, run, next, mbiCount, resets>>
        /\ Fails \/ UNCHANGED failures
    BY <1>10 DEF ScanRom, ScanCount, BootRom, BootCount, ReadGuid, HostDies, Reads, ReadsRom
  <2>2. hpc' \in HostPc /\ (hpc' \in Pushing => hpc \in Pushing)
    BY <1>10 DEF ScanRom, ScanCount, BootRom, BootCount, ReadGuid, HostDies, HGoto, HostPc, Pushing
  <2> QED
    BY <1>1, <1>2, <1>3, <1>4, <2>1, <2>2 DEF NewHost
<1>11. CASE ReadMbi
  <2>1. /\ UNCHANGED <<targetVars, dma, memVars, run, next, resets>> /\ mbiCount' \in Nat
        /\ Fails \/ UNCHANGED failures
        /\ hpc' \in {"writeMbi", "dead"}
    BY <1>1, <1>11 DEF ReadMbi, Reads
  <2> QED
    BY <1>1, <1>2, <1>3, <1>4, <2>1 DEF NewHost, HostPc, Pushing
<1>12. CASE HostWrites
  <2>1. PICK p \in {next, Header, Count} :
          /\ Written(p) \/ WriteFails(p)
          /\ UNCHANGED <<targetVars, dma, run, mbiCount, resets>>
    BY <1>12 DEF HostWrites, Push, WriteMbi, WriteCount
  <2>2. /\ UNCHANGED memVars \/ Arrives(p)
        /\ Fails \/ UNCHANGED failures
    BY <2>1 DEF Written, WriteFails
  <2>3. NewMemory
    <3>1. CASE UNCHANGED memVars
      BY <1>3, <2>1, <3>1
    <3>2. CASE Arrives(p)
      <4>1. p \in 1..Count
        BY <1>1, <2>1, PlacesAreNumbers
      <4> QED
        BY <1>1, <2>1, <3>2, <4>1, ArrivesTypes DEF TypeInv, NewMemory
    <3> QED
      BY <2>2, <3>1, <3>2
  <2>4. NewHost
    <3>1. hpc' \in HostPc
      BY <1>12 DEF HostWrites, Push, WriteMbi, WriteCount, HGoto, HostPc
    <3>2. next' \in 1..Count /\ (hpc' \in Pushing => next' \in 1..Blocks)
      <4>1. CASE Push
        BY <1>1, <4>1, PlacesAreNumbers DEF Push, Pushing
      <4>2. CASE WriteMbi \/ WriteCount
        BY <1>1, <4>2, PlacesAreNumbers DEF WriteMbi, WriteCount, Pushing
      <4> QED
        BY <1>12, <4>1, <4>2 DEF HostWrites
    <3> QED
      BY <1>1, <2>1, <3>1, <3>2 DEF NewHost
  <2> QED
    BY <1>2, <1>4, <2>1, <2>2, <2>3, <2>4
<1>13. CASE HostRestarts
  <2>1. /\ UNCHANGED <<targetVars, dma, memVars, envVars>> /\ run' = run + 1
        /\ run < MaxRuns /\ hpc' \in HostPc /\ next' = 1 /\ mbiCount' = 0
    BY <1>13 DEF HostRestarts, HostPc
  <2>2. run' \in 1..MaxRuns /\ 0..run \subseteq 0..run' /\ 1..run \subseteq 1..run'
    BY <1>1, <2>1
  <2>3. posted \in Seq(Requests(run'))
    <3>1. Requests(run) \subseteq Requests(run')
      BY <2>2 DEF Requests
    <3> QED
      BY <1>1, <3>1
  <2>4. written \in [Places -> 0..run']
    BY <1>1, <2>2
  <2>5. NewMemory
    BY <1>1, <2>1, <2>2, <2>3, <2>4 DEF NewMemory
  <2>6. NewHost
    BY <2>1, <2>2, PlacesAreNumbers DEF NewHost
  <2> QED
    BY <1>2, <1>4, <2>1, <2>5, <2>6
<1>14. CASE UNCHANGED vars
  BY <1>2, <1>3, <1>4, <1>5, <1>14 DEF vars
<1> QED
  BY <1>6, <1>7, <1>8, <1>9, <1>10, <1>11, <1>12, <1>13, <1>14 DEF Next, Target, Bus, Host

(* Every variable stays in its range; the host writes no place behind the   *)
(* count, and the count is taken down only when it is not zero (main()).    *)
THEOREM TypeCorrect == Spec => []TypeOK
<1>1. TypeInv => TypeOK
  BY DEF TypeInv
<1> QED
  BY <1>1, TypeInit, TypeStep, PTL DEF Spec
=============================================================================
