------------------------------- MODULE FwScan -------------------------------
(***************************************************************************)
(* fw_scan (fw_scan/fw_scan.c): once a second it reads the configuration   *)
(* ROM of every node of the bus and shows the list.  The records of the    *)
(* nodes are static, indexed by node number; a bus reset may give the      *)
(* numbers to other devices at any moment, also between two reads.         *)
(* Signals arrive at any moment.                                           *)
(***************************************************************************)
EXTENDS ConfigRom

CONSTANTS Devices,    \* devices of the bus
          Rom,        \* device -> the words of its ROM, as the bus gives them
          Buses,      \* sequences of devices, by node number
          Retries,    \* repeated reads on EAGAIN      (fw_b0rken.c: 5)
          MaxChanges, \* bound: bus resets that renumber the bus
          MaxSignals  \* bound: signals

Word == [1..4 -> 0..255]
None == <<>>   \* no text, no GUID, no pointer
MaxNodes == CHOOSE n \in {Len(b) : b \in Buses} : \A b \in Buses : Len(b) <= n

ASSUME FwScanAssumption ==
  /\ \A d \in Devices : Rom[d] \in Seq(Word) /\ Len(Rom[d]) = RomWords
  /\ Buses \subseteq Seq(Devices) /\ MaxNodes \in Nat /\ \A b \in Buses : Len(b) <= MaxNodes
  /\ Retries \in Nat /\ MaxChanges \in Nat /\ MaxSignals \in Nat

VARIABLES
  pc, done, resized,     \* main loop, the flags the signal handlers set
  onSigint, interrupted, \* handler of SIGINT, its count
  count, node, tries,    \* nodes of this round, the node read, retries left
  crom,                  \* crom_buf, as far as it has been read
  info,                  \* node number -> what is known of the node
  bus,                   \* the devices, by node number
  changed,               \* history: the bus changed in this round
  changes,               \* budget of bus resets spent
  sigints, winches       \* history: signals sent

sigVars == <<resized, onSigint, interrupted>>
envVars == <<bus, changed, changes, sigints, winches>>
vars == <<pc, done, sigVars, count, node, tries, crom, info, envVars>>

Unknown  == [status |-> "UNDEF", bootable |-> FALSE, guid |-> None, text |-> None,
             multiboot |-> None]

Init ==
  /\ pc = "loop" /\ done = FALSE /\ resized = FALSE
  /\ onSigint = "sigint_handler" /\ interrupted = 0
  /\ count = 0 /\ node = 0 /\ tries = Retries /\ crom = None
  /\ info = [n \in 1..MaxNodes |-> Unknown]
  /\ bus \in Buses /\ changed = FALSE /\ changes = 0 /\ sigints = 0 /\ winches = 0

-----------------------------------------------------------------------------
(* main                                                                     *)

Loop ==
  /\ pc = "loop"
  /\ IF done THEN pc' = "exit" /\ UNCHANGED resized
             ELSE pc' = "connect" /\ resized' = FALSE
  /\ UNCHANGED <<done, onSigint, interrupted, count, node, tries, crom, info, envVars>>

(* A new handle, and the number of nodes: collect_all_info goes from the    *)
(* last node to the first.                                                  *)
Connect ==
  /\ pc = "connect"
  /\ \/ /\ count' = Len(bus) /\ node' = Len(bus) /\ changed' = FALSE
        /\ pc' = IF bus = <<>> THEN "show" ELSE "head"
     \/ pc' = "exit" /\ UNCHANGED <<count, node, changed>>
  /\ UNCHANGED <<done, sigVars, tries, crom, info, bus, changes, sigints, winches>>

Show ==
  /\ pc = "show" /\ pc' = "input"
  /\ UNCHANGED <<done, sigVars, count, node, tries, crom, info, envVars>>

(* Wait a second for a key; q quits.                                        *)
Input ==
  /\ pc = "input" /\ pc' = "loop"
  /\ done' \in {done, TRUE}
  /\ UNCHANGED <<sigVars, count, node, tries, crom, info, envVars>>

-----------------------------------------------------------------------------
(* collect_node_info: the first words of the ROM, then the others.          *)

NextNode == node' = node - 1 /\ pc' = IF node = 1 THEN "show" ELSE "head"

Present(d) == node <= Len(bus) /\ bus[node] = d

(* What word 0 says; 1 << 24 is a minimal ROM.                              *)
Full(rom) == rom[1] # <<0, 0, 0, 0>> /\ rom[1][1] # 1
EarlyStatus(rom) == IF rom[1] = <<0, 0, 0, 0>> THEN "INIT" ELSE "DUMB"

(* raw1394_read_retry: a read that fails with EAGAIN is repeated; any other *)
(* failure, and the one after the last retry, is the caller's.              *)
\* Mutant: the retries are not limited.
RetryForever == tries' = tries - 1
Retry == tries > 0 /\ tries' = tries - 1
ReadDone == tries' = Retries
ReadFails ==
  /\ pc \in {"head", "dir"}
  /\ \/ Retry /\ UNCHANGED <<pc, node, info>>
     \/ /\ ReadDone /\ NextNode
        /\ info' = [info EXCEPT ![node].status = "BROKEN", ![node].bootable = FALSE]
  /\ UNCHANGED <<done, sigVars, count, crom, envVars>>

(* Word 0 may end it.                                                       *)
ReadHead ==
  /\ pc = "head"
  /\ \E d \in Devices :
       /\ Present(d) /\ crom' = <<Rom[d][1]>>
       /\ \/ Full(Rom[d]) /\ pc' = "dir" /\ UNCHANGED <<node, info>>
          \/ /\ ~Full(Rom[d]) /\ NextNode
             /\ info' = [info EXCEPT ![node].status = EarlyStatus(Rom[d]),
                                     ![node].bootable = FALSE]
  /\ ReadDone
  /\ UNCHANGED <<done, sigVars, count, envVars>>

(* The other words are read one by one; here up to the GUID, or the rest,   *)
(* at a time.                                                               *)
Fetched(d, k) == crom \o SubSeq(Rom[d], Len(crom) + 1, k)
ReadWords ==
  /\ pc = "dir" /\ Len(crom) < 5
  /\ \E d \in Devices : Present(d) /\ crom' = Fetched(d, 5)
  /\ ReadDone
  /\ UNCHANGED <<pc, done, sigVars, count, node, info, envVars>>

(* The directory.  The text and the multiboot pointer are written only if   *)
(* there are such entries; nothing clears them.                             *)
Shown(r, rom) ==
  [r EXCEPT !.status = "RUN", !.guid = SubSeq(rom, 4, 5), !.bootable = Bootable(rom),
            !.text = IF HasText(rom) THEN InfoStr(rom) ELSE @,
            !.multiboot = IF InfoEntries(rom) # {} THEN MultibootPtr(rom) ELSE @]
ReadDir ==
  /\ pc = "dir"
  /\ \E d \in Devices :
       Present(d) /\ info' = [info EXCEPT ![node] = Shown(@, Fetched(d, RomWords))]
  /\ NextNode /\ ReadDone
  /\ UNCHANGED <<done, sigVars, count, crom, envVars>>

-----------------------------------------------------------------------------
(* Signals.                                                                 *)

Signal == sigints + winches < MaxSignals /\ pc # "exit"
SignalOnly == UNCHANGED <<count, node, tries, crom, info, bus, changed, changes>>
IsSigint   == Signal /\ sigints' = sigints + 1 /\ UNCHANGED winches /\ SignalOnly
IsSigwinch == Signal /\ winches' = winches + 1 /\ UNCHANGED sigints /\ SignalOnly

(* sigwinch_handler                                                         *)
Resize == resized' = TRUE /\ UNCHANGED <<pc, done, onSigint, interrupted>>

(* Mutant: the first interrupt already finds the other handler.             *)
SigintResizes == onSigint = "sigint_handler" /\ Resize /\ IsSigint

(* sigint_handler: its last line gives SIGINT to sigwinch_handler.          *)
Sigint ==
  /\ onSigint = "sigint_handler" /\ IsSigint
  /\ interrupted' = interrupted + 1
  /\ IF interrupted = 0
       THEN done' = TRUE /\ onSigint' = "sigwinch_handler" /\ UNCHANGED pc
       ELSE pc' = "exit" /\ UNCHANGED <<done, onSigint>>
  /\ UNCHANGED resized

LaterSigint == onSigint = "sigwinch_handler" /\ Resize /\ IsSigint
Sigwinch    == Resize /\ IsSigwinch

BusChange ==
  /\ changes < MaxChanges /\ changes' = changes + 1
  /\ bus' \in Buses /\ changed' = TRUE
  /\ UNCHANGED <<pc, done, sigVars, count, node, tries, crom, info, sigints, winches>>

Main == Loop \/ Connect \/ Show \/ Input \/ ReadFails \/ ReadHead \/ ReadWords \/ ReadDir
Next == Main \/ Sigint \/ LaterSigint \/ Sigwinch \/ BusChange

(* Reads end, and do not fail for ever with retries left.                   *)
Spec == Init /\ [][Next]_vars /\ WF_vars(Main)

-----------------------------------------------------------------------------
TypeOK ==
  /\ pc \in {"loop", "connect", "head", "dir", "show", "input", "exit"}
  /\ done \in BOOLEAN /\ resized \in BOOLEAN /\ interrupted \in 0..1
  /\ onSigint \in {"sigint_handler", "sigwinch_handler"}
  /\ count \in 0..MaxNodes /\ node \in 0..MaxNodes /\ tries \in 0..Retries
  /\ sigints + winches \in 0..MaxSignals /\ changes \in 0..MaxChanges
  /\ crom \in Seq(Word) /\ bus \in Buses /\ changed \in BOOLEAN
  /\ DOMAIN info = 1..MaxNodes
  /\ \A n \in 1..MaxNodes :
       /\ info[n].status \in {"UNDEF", "BROKEN", "INIT", "RUN", "DUMB"}
       /\ info[n].bootable \in BOOLEAN

(* The list shows the bus: if no node was renumbered in this round, every   *)
(* node that could be read has the state and the GUID of the device behind  *)
(* it, whatever its record held from earlier rounds, and BOOT and a pointer *)
(* stand before the nodes, and only those, that morbo.py would boot if they *)
(* wait (mods_count = 0, which fw_scan does not look at), with the pointer  *)
(* it would use: the ROM that ohci_generate_crom writes means the same to   *)
(* both readers (collect_node_info, is_morbo).                              *)
ListShowsTheBus ==
  pc = "show" /\ ~changed =>
    \A n \in 1..count :
      LET rom == Rom[bus[n]] r == info[n] IN
      /\ r.bootable => Full(rom) /\ IsMorbo(rom, 0) /\ r.multiboot = Rmbi(rom)
      /\ r.status # "BROKEN" =>
           /\ r.status = IF Full(rom) THEN "RUN" ELSE EarlyStatus(rom)
           /\ r.status = "RUN" => r.guid = SubSeq(rom, 4, 5) /\ (IsMorbo(rom, 0) => r.bootable)

(* "Is an empty string, when no info is available.": the text shown for a   *)
(* node is its own or none.                                                 *)
TextIsOwnOrEmpty ==
  pc = "show" /\ ~changed =>
    \A n \in 1..count :
      LET rom == Rom[bus[n]] IN
      info[n].text # None => Full(rom) /\ HasText(rom) /\ info[n].text = InfoStr(rom)

(* The first interrupt, and the key q, end the program.                     *)
InterruptEnds == sigints > 0 \/ done ~> pc = "exit"
=============================================================================
