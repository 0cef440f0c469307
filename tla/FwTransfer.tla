----------------------------- MODULE FwTransfer -----------------------------
(***************************************************************************)
(* One transfer of a host: the script (RemoteFw in boot/firewire.py, or    *)
(* whoever feeds the pipe) and the program it starts (fw_peek or fw_poke,  *)
(* tools/fw_peek.cpp), which reads or writes the memory of a node block by *)
(* block, while the bus is reset and the node's memory changes.  A unit of *)
(* the data is a quadlet, a number that names its place in the data        *)
(* (fw_poke) or the version of the node's memory it belongs to (fw_peek).  *)
(***************************************************************************)
EXTENDS Naturals, Sequences, FiniteSetsExt

CONSTANTS Step,      \* block size                        (option -b, 128 bytes)
          Tries,     \* repeated reads of a block                            (5)
          MaxNodes,  \* node numbers tried for a GUID                       (63)
          Room,      \* capacity of the pipe
          Buses,     \* numberings of the devices: sequences, number 0 first
          Guid,      \* the two halves of each device's GUID
          Cmds,      \* [op, target, len, chunk], chunk for the feeding script
          MaxResets, MaxChanges   \* bounds: bus resets, changes of the memory

ASSUME FwTransferAssumption ==
  /\ Step \in Nat \ {0} /\ Tries \in Nat /\ MaxNodes \in Nat \ {0} /\ Room \in Nat
  /\ \A c \in Cmds : /\ c.op \in {"poke", "peek"} /\ c.len \in Nat /\ c.chunk \in 1..Room
                     /\ Len(c.target) = 1 => c.target[1] \in 0..MaxNodes
  /\ Buses \subseteq Seq(DOMAIN Guid)
  /\ \A d \in DOMAIN Guid : Guid[d] = <<Guid[d][1], Guid[d][2]>>
  /\ MaxResets \in Nat /\ MaxChanges \in Nat

Devices == DOMAIN Guid

VARIABLES
  cmd, pc,           \* the command line, what the program does next
  no, lo,            \* node number at hand, the half of the GUID that was read
  cur, size, tries,  \* the transfer loop
  sent, closed, taken,   \* the pipe to fw_poke: units put in, end, units taken
  out,               \* what fw_peek has written
  bus, mem,          \* devices by node number, their memory
  resets, changes    \* what the bounds have left

pipeVars == <<sent, closed, taken>>
busVars  == <<bus, resets>>
memVars  == <<mem, changes>>
vars == <<cmd, pc, no, lo, cur, size, tries, pipeVars, out, busVars, memVars>>

Present(n) == n < Len(bus)
DeviceAt(n) == bus[n + 1]

(* main() up to its loops: a small number is a node number, <<n>>, another  *)
(* one a GUID, which is searched for.                                       *)
ByNode == Len(cmd.target) = 1
Loop == IF cmd.op = "poke" THEN "take" ELSE "peek"

Init ==
  /\ cmd \in Cmds /\ pc = (IF ByNode THEN Loop ELSE "guidLo")
  /\ no = (IF ByNode THEN cmd.target[1] ELSE 0) /\ lo = 0
  /\ cur = 0 /\ size = 0 /\ tries = Tries
  /\ sent = 0 /\ closed = FALSE /\ taken = 0 /\ out = <<>>
  /\ bus \in Buses /\ resets = 0 /\ changes = 0
  /\ mem = [d \in Devices |-> [a \in 0..(cmd.len - 1) |-> 0]]

Ended == pc \in {"ok", "failed"}
-----------------------------------------------------------------------------
(* The search for a GUID: two reads of each node's configuration ROM.       *)

ReadLo ==
  /\ pc = "guidLo" /\ Present(no)
  /\ lo' = Guid[DeviceAt(no)][2] /\ pc' = "guidHi"
  /\ UNCHANGED <<cmd, no, cur, size, tries, pipeVars, out, busVars, memVars>>

ReadHi ==
  /\ pc = "guidHi" /\ Present(no)
  /\ IF <<Guid[DeviceAt(no)][1], lo>> = cmd.target
       THEN pc' = Loop /\ UNCHANGED no
       ELSE /\ no' = no + 1
            /\ pc' = IF no + 1 < MaxNodes THEN "guidLo" ELSE "failed"
  /\ UNCHANGED <<cmd, lo, cur, size, tries, pipeVars, out, busVars, memVars>>

-----------------------------------------------------------------------------
(* fw_poke.                                                                 *)

(* RemoteFw.write: communicate() puts pieces into the pipe and closes it.   *)
Feed ==
  /\ cmd.op = "poke" /\ ~Ended /\ sent < cmd.len
  /\ sent + Min({cmd.chunk, cmd.len - sent}) - taken <= Room
  /\ sent' = sent + Min({cmd.chunk, cmd.len - sent})
  /\ UNCHANGED <<cmd, pc, no, lo, cur, size, tries, closed, taken, out, busVars, memVars>>
Close ==
  /\ cmd.op = "poke" /\ ~Ended /\ sent = cmd.len /\ ~closed /\ closed' = TRUE
  /\ UNCHANGED <<cmd, pc, no, lo, cur, size, tries, sent, taken, out, busVars, memVars>>

(* Mutant: the end of the data is not noticed.                              *)
TakeEndless ==
  /\ pc = "take" /\ sent > taken /\ pc' = "write"
  /\ size' = Min({Step, sent - taken}) /\ taken' = taken + size'
  /\ UNCHANGED <<cmd, no, lo, cur, tries, sent, closed, out, busVars, memVars>>

(* read() from the pipe: what is there, up to a block; 0 at the end.        *)
Take ==
  /\ pc = "take"
  /\ \/ sent > taken /\ pc' = "write"
        /\ size' = Min({Step, sent - taken}) /\ taken' = taken + size'
     \/ sent = taken /\ closed /\ pc' = "ok" /\ UNCHANGED <<size, taken>>
  /\ UNCHANGED <<cmd, no, lo, cur, tries, sent, closed, out, busVars, memVars>>

(* Mutant: every block goes to the address of the first one.                *)
WrittenAtStart ==
  [mem EXCEPT ![DeviceAt(no)] =
     [a \in DOMAIN @ |-> IF a < size THEN taken - size + a + 1 ELSE @[a]]]

(* The block of the data that was taken last, at cur.                       *)
Written ==
  [mem EXCEPT ![DeviceAt(no)] =
     [a \in DOMAIN @ |-> IF a \in cur..(cur + size - 1)
                           THEN taken - size + (a - cur) + 1 ELSE @[a]]]

(* Mutant: a full block ends the transfer as well.                          *)
WriteBlockOnce ==
  /\ pc = "write" /\ Present(no) /\ mem' = Written
  /\ IF size <= Step THEN pc' = "ok" /\ UNCHANGED cur
                     ELSE pc' = "take" /\ cur' = cur + Step
  /\ UNCHANGED <<cmd, no, lo, size, tries, pipeVars, out, busVars, changes>>

(* A block that is not full is the last one.                                *)
WriteBlock ==
  /\ pc = "write" /\ Present(no) /\ mem' = Written
  /\ IF size < Step THEN pc' = "ok" /\ UNCHANGED cur
                    ELSE pc' = "take" /\ cur' = cur + Step
  /\ UNCHANGED <<cmd, no, lo, size, tries, pipeVars, out, busVars, changes>>

(* No acknowledgement: the block may have been written all the same.        *)
WriteFails ==
  /\ pc = "write" /\ pc' = "failed"
  /\ \/ UNCHANGED mem
     \/ Present(no) /\ mem' = Written
  /\ UNCHANGED <<cmd, no, lo, cur, size, tries, pipeVars, out, busVars, changes>>

-----------------------------------------------------------------------------
(* fw_peek.                                                                 *)

BlockOf(n) == [k \in 1..n |-> mem[DeviceAt(no)][cur + k - 1]]

(* Mutant: the last block is read whole.                                    *)
PeekBlockWhole ==
  /\ pc = "peek" /\ cur < cmd.len /\ Present(no)
  /\ size' = Step
  /\ out' = out \o [k \in 1..Step |-> mem[DeviceAt(no)][(cur + k - 1) % cmd.len]]
  /\ cur' = cur + Step /\ tries' = Tries
  /\ UNCHANGED <<cmd, pc, no, lo, pipeVars, busVars, memVars>>

(* One transaction reads the block, which goes to standard output.  That    *)
(* the block is read at one moment is the model's, not the code's.          *)
PeekBlock ==
  /\ pc = "peek" /\ cur < cmd.len /\ Present(no)
  /\ size' = Min({Step, cmd.len - cur}) /\ out' = out \o BlockOf(size')
  /\ cur' = cur + Step /\ tries' = Tries
  /\ UNCHANGED <<cmd, pc, no, lo, pipeVars, busVars, memVars>>

(* Mutant: the tries are counted, but not limited.                          *)
PeekRetryForever ==
  /\ pc = "peek" /\ cur < cmd.len /\ tries' = tries - 1
  /\ UNCHANGED <<cmd, pc, no, lo, cur, size, pipeVars, out, busVars, memVars>>

PeekRetry ==
  /\ pc = "peek" /\ cur < cmd.len /\ tries > 0 /\ tries' = tries - 1
  /\ UNCHANGED <<cmd, pc, no, lo, cur, size, pipeVars, out, busVars, memVars>>

PeekDone ==
  /\ pc = "peek" /\ cur >= cmd.len /\ pc' = "ok"
  /\ UNCHANGED <<cmd, no, lo, cur, size, tries, pipeVars, out, busVars, memVars>>

(* read() from the pipe returns an error.                                   *)
TakeFails ==
  /\ pc = "take" /\ pc' = "failed"
  /\ UNCHANGED <<cmd, no, lo, cur, size, tries, pipeVars, out, busVars, memVars>>

(* A read of the ROM, the last try of a block, or the write to standard     *)
(* output fails.                                                            *)
Fails ==
  /\ pc \in {"guidLo", "guidHi"} \/ (pc = "peek" /\ cur < cmd.len)
  /\ pc' = "failed"
  /\ UNCHANGED <<cmd, no, lo, cur, size, tries, pipeVars, out, busVars, memVars>>

-----------------------------------------------------------------------------
(* The bus and the node.                                                    *)

BusReset ==
  /\ ~Ended /\ resets < MaxResets /\ resets' = resets + 1 /\ bus' \in Buses
  /\ UNCHANGED <<cmd, pc, no, lo, cur, size, tries, pipeVars, out, memVars>>

(* The node's processor gives its memory new contents.                      *)
MemoryChanges ==
  /\ ~Ended /\ cmd.op = "peek" /\ changes < MaxChanges /\ changes' = changes + 1
  /\ mem' = [d \in Devices |-> [a \in DOMAIN mem[d] |-> changes']]
  /\ UNCHANGED <<cmd, pc, no, lo, cur, size, tries, pipeVars, out, busVars>>

Program == \/ ReadLo \/ ReadHi \/ Take \/ WriteBlock \/ WriteFails
           \/ PeekBlock \/ PeekRetry \/ PeekDone \/ Fails
Script == Feed \/ Close
Next == Program \/ TakeFails \/ Script \/ BusReset \/ MemoryChanges

(* Both processes run; a transaction is answered or times out; nothing      *)
(* makes the pipe fail.                                                     *)
Spec == Init /\ [][Next]_vars /\ WF_vars(Program) /\ WF_vars(Script)
-----------------------------------------------------------------------------
TypeOK ==
  /\ pc \in {"guidLo", "guidHi", "take", "write", "peek", "ok", "failed"}
  /\ no \in 0..MaxNodes /\ tries \in 0..Tries /\ size \in 0..Step
  /\ taken \in 0..sent /\ sent \in 0..cmd.len /\ sent - taken <= Room
  /\ bus \in Buses /\ mem \in [Devices -> [0..(cmd.len - 1) -> Nat]]

(* The device the user means, for a bus that is not reset.                  *)
Meant == {d \in Devices : IF ByNode THEN \E n \in 1..Len(bus) : n = cmd.target[1] + 1 /\ bus[n] = d
                                    ELSE Guid[d] = cmd.target}

(* What boot() of morbo.py relies on: a fw_poke that succeeds has written   *)
(* all of the data, if the pipe is fed in multiples of a block (as          *)
(* communicate() does), so that no short read ends the loop too early.  A   *)
(* transfer of nothing succeeds without a node.                             *)
SuccessIsComplete ==
  pc = "ok" /\ cmd.op = "poke" /\ cmd.len > 0 /\ cmd.chunk % Step = 0 /\ resets = 0 =>
    \E d \in Meant : \A a \in 0..(cmd.len - 1) : mem[d][a] = a + 1

(* However a fw_poke ends, what it has written is in its place, and, if the *)
(* bus was not reset, a first part of the data in the node that was meant.  *)
NoHoles ==
  cmd.op = "poke" =>
    /\ \A d \in Devices : \A a \in 0..(cmd.len - 1) : mem[d][a] \in {0, a + 1}
    /\ resets = 0 =>
         \A d \in Devices : \E k \in 0..cmd.len :
           /\ \A a \in 0..(cmd.len - 1) : mem[d][a] # 0 <=> a < k
           /\ d \notin Meant => k = 0

(* "fw_peek seems confused" is never raised: a read that succeeds gave all  *)
(* that was asked for, whatever was retried, and its blocks come in the     *)
(* order of time: nothing shows an older memory than a block before it.     *)
PeekShowsMemory ==
  cmd.op = "peek" /\ pc = "ok" =>
    /\ Len(out) = cmd.len
    /\ \A i, j \in 1..Len(out) :
         (i - 1) \div Step < (j - 1) \div Step => out[i] <= out[j]

(* The script is never left waiting for its program.                        *)
Ends == <>Ended
=============================================================================
