----------------------------- MODULE ConfigRom ------------------------------
(***************************************************************************)
(* The configuration ROM, between the programs that agree about it: Morbo  *)
(* writes it (ohci_generate_crom, ohci_load_crom), fw_scan parses it       *)
(* (collect_node_info), and morbo.py looks at three fixed words, and       *)
(* through the last of them into the node's memory (is_morbo).             *)
(* A word is the sequence of its four bytes, the most significant first;   *)
(* field[k] of the code is element k + 1.                                  *)
(***************************************************************************)
EXTENDS Naturals, Sequences, SequencesExt

CONSTANT Crc16(_)   \* the two bytes of crc16() of some words; no reader looks

RomWords  == 32     \* what fw_scan reads of it
VendorId  == <<202, 255, 238>>
ModelId   == <<0, 0, 2>>
SpeedMax  == 255    \* ~0U, no speed asked for
InfoDir   == 184
Value(w)  == (w[2] * 256 + w[3]) * 256 + w[4]
Length(w) == w[1] * 256 + w[2]

(* "We dont want to be bus master."; a speed the controller has is set.     *)
BusOptionsFor(options, speed) ==
  LET mine == [options EXCEPT ![1] = @ % 16] IN
  IF speed = SpeedMax \/ speed > options[4] % 16 THEN mine
  ELSE [mine EXCEPT ![4] = (@ \div 16) * 16 + speed]

Directory(words) == <<<<0, Len(words)>> \o Crc16(words)>> \o words

(* The text, "Morbo - OHCI v2", after two words for its encoding.           *)
TextLeaf == <<<<0, 0, 0, 0>>, <<0, 0, 0, 0>>, <<77, 111, 114, 98>>, <<111, 32, 45, 32>>,
              <<79, 72, 67, 73>>, <<32, 118, 50, 0>>>>

GenerateCrom(regs, speed, mbi) ==
  LET bus  == <<regs.busId, BusOptionsFor(regs.busOptions, speed), regs.guidHi, regs.guidLo>>
      root == <<<<3>> \o VendorId, <<23>> \o ModelId, <<129, 0, 0, 2>>, <<InfoDir, 0, 0, 8>>>>
      rom  == <<<<4, 4>> \o Crc16(bus)>> \o bus \o Directory(root) \o Directory(TextLeaf)
              \o Directory(<<mbi>>)
  IN [k \in 1..RomWords |-> IF k <= Len(rom) THEN rom[k] ELSE <<0, 0, 0, 0>>]

(* Mutant: these two words stay in network byte order.                      *)
LoadCromSwapped(rom, regs) ==
  [hdr |-> IF regs.linkEnable THEN regs.hdr ELSE rom[1],
   busOptions |-> IF regs.linkEnable THEN regs.busOptions ELSE rom[3],
   memory |-> [k \in 1..RomWords |-> rom[k]]]

(* What the controller gets: its registers, and the bytes in memory in the  *)
(* order of their addresses.  Words 0 and 2 are swapped twice.              *)
LoadCrom(rom, regs) ==
  [hdr |-> IF regs.linkEnable THEN regs.hdr ELSE rom[1],
   busOptions |-> IF regs.linkEnable THEN regs.busOptions ELSE rom[3],
   memory |-> [k \in 1..RomWords |-> IF k \in {1, 3} THEN Reverse(rom[k]) ELSE rom[k]]]

(* The answers of a controller to quadlet reads: words 0 and 2 come from    *)
(* its registers, which some chips "seem to reload [...] from memory" with  *)
(* the wrong byte order, the others from memory.                            *)
QuadletReads(chip, image) ==
  [k \in 1..RomWords |->
     IF k \notin {1, 3} THEN image.memory[k]
     ELSE IF chip = "reloads" THEN Reverse(image.memory[k])
     ELSE IF k = 1 THEN image.hdr ELSE image.busOptions]

-----------------------------------------------------------------------------
(* collect_node_info, for a complete buffer.                                *)
RootDir(rom) == SubSeq(rom, rom[1][1] + 2, Len(rom))
Garbage(rom) == rom[1][1] > 32 \/ Length(RootDir(rom)[1]) > 32

(* root_dir[i], i = 1..root_dir_length; element i + 1 of RootDir.           *)
Entries(rom) == IF Garbage(rom) THEN {} ELSE 1..Length(RootDir(rom)[1])
Keyed(rom, key) == {i \in Entries(rom) : RootDir(rom)[i + 1][1] = key}
Latest(S) == CHOOSE i \in S : \A k \in S : k <= i
First(S)  == CHOOSE i \in S : \A k \in S : i <= k
Target(rom, i) == i + Value(RootDir(rom)[i + 1])

(* Every entry overwrites what an earlier one of its kind said.             *)
Says(rom, key, value) ==
  Keyed(rom, key) # {} /\ Tail(RootDir(rom)[Latest(Keyed(rom, key)) + 1]) = value

InfoEntries(rom) == {i \in Keyed(rom, InfoDir) : Target(rom, i) <= 32}

Bootable(rom) == Says(rom, 3, VendorId) /\ Says(rom, 23, ModelId) /\ InfoEntries(rom) # {}

(* "Pointer to pointer".                                                    *)
MultibootPtr(rom) == RootDir(rom)[Target(rom, Latest(InfoEntries(rom))) + 2]

(* The first text that is short enough, its characters up to a NUL; the     *)
(* string is given the length of the leaf, which its encoding is part of,   *)
(* and the words behind the leaf have not been swapped.                     *)
GoodTexts(rom) == {i \in Keyed(rom, 129) : Target(rom, i) <= 32
                                           /\ Length(RootDir(rom)[Target(rom, i) + 1]) <= 20}
HasText(rom) == GoodTexts(rom) # {}
InfoStr(rom) ==
  LET off   == Target(rom, First(GoodTexts(rom)))
      n     == Length(RootDir(rom)[off + 1])
      chars == FlattenSeq([k \in 1..n |-> LET w == RootDir(rom)[off + 3 + k] IN
                             IF k + 2 <= n THEN w ELSE Reverse(w)])
      shown == SubSeq(chars, 1, IF Len(chars) < 32 THEN Len(chars) ELSE 32)
  IN SubSeq(shown, 1, SelectInSeq(Append(shown, 0), LAMBDA c : c = 0) - 1)

-----------------------------------------------------------------------------
(* is_morbo: "These indices are hardcoded for Morbo's ConfigROM."  Through  *)
(* the pointer it also reads mods_count: a Morbo that was given modules, or *)
(* runs them, is refused.                                                   *)
IsMorbo(rom, modsCount) ==
  Tail(rom[7]) = VendorId /\ Tail(rom[8]) = ModelId /\ modsCount = 0
Rmbi(rom)    == rom[19]
=============================================================================
