---------------------------- MODULE FwScanProofs ----------------------------
(***************************************************************************)
(* Proofs about fw_scan, for every bus and every set of devices, and about *)
(* the ROM that Morbo generates, for every GUID and pointer.  A round that *)
(* no bus reset disturbs reads the nodes from the last to the first; the   *)
(* records behind `node' show their devices, and what has been read of a   *)
(* ROM is a first part of one and the same ROM (Round).                    *)
(***************************************************************************)
EXTENDS FwScan, SequenceTheorems, TLAPS

(* What the readers have to agree about.                                    *)
RomsAgree ==
  \A d \in Devices :
    Full(Rom[d]) =>
      /\ Bootable(Rom[d]) <=> IsMorbo(Rom[d], 0)
      /\ Bootable(Rom[d]) => MultibootPtr(Rom[d]) = Rmbi(Rom[d])

IsRecord(r) == DOMAIN r = {"status", "bootable", "guid", "text", "multiboot"}

Shows(r, rom) ==
  /\ r.bootable => Full(rom) /\ IsMorbo(rom, 0) /\ r.multiboot = Rmbi(rom)
  /\ r.status # "BROKEN" =>
       /\ r.status = IF Full(rom) THEN "RUN" ELSE EarlyStatus(rom)
       /\ r.status = "RUN" => r.guid = SubSeq(rom, 4, 5) /\ (IsMorbo(rom, 0) => r.bootable)

Records ==
  /\ info = [n \in 1..MaxNodes |-> info[n]]
  /\ \A n \in 1..MaxNodes : IsRecord(info[n])

Reading == pc \in {"head", "dir"}
Places  == bus \in Buses /\ count \in 0..MaxNodes /\ node \in 0..MaxNodes
           /\ (Reading => node > 0) /\ (pc = "show" => node = 0)

Round ==
  ~changed /\ (Reading \/ pc = "show") =>
    /\ count = Len(bus) /\ node <= count
    /\ \A n \in (node + 1)..count : Shows(info[n], Rom[bus[n]])
    /\ pc = "dir" => /\ Full(Rom[bus[node]])
                     /\ \E m \in 0..RomWords : crom = SubSeq(Rom[bus[node]], 1, m)

IInv == Records /\ Places /\ Round
-----------------------------------------------------------------------------
LEMMA DeviceOfNode ==
  ASSUME Places, NEW n \in 1..Len(bus)
  PROVE  bus[n] \in Devices /\ Len(bus) \in Nat /\ Len(bus) <= MaxNodes
BY FwScanAssumption DEF Places

LEMMA RomOfDevice ==
  ASSUME NEW d \in Devices
  PROVE  Rom[d] \in Seq(Word) /\ Len(Rom[d]) = RomWords
BY FwScanAssumption

LEMMA FirstWords ==
  ASSUME NEW d \in Devices, NEW m \in 0..RomWords
  PROVE  Len(SubSeq(Rom[d], 1, m)) = m
BY RomOfDevice DEF RomWords

(* As long as the bus is the same, the words read one after the other are   *)
(* the first words of one ROM.                                              *)
LEMMA WordsOfOneRom ==
  ASSUME NEW d \in Devices, NEW m \in 0..RomWords, NEW k \in m..RomWords,
         crom = SubSeq(Rom[d], 1, m)
  PROVE  Fetched(d, k) = SubSeq(Rom[d], 1, k)
<1>1. Rom[d] \in Seq(Word) /\ Len(Rom[d]) = RomWords
  BY RomOfDevice
<1>2. 1 \in 1..(RomWords + 1) /\ m \in (1 - 1)..RomWords
  BY DEF RomWords
<1>3. SubSeq(Rom[d], 1, m) \o SubSeq(Rom[d], m + 1, k) = SubSeq(Rom[d], 1, k)
  BY <1>1, <1>2, ConcatAdjacentSubSeq
<1> QED
  BY <1>3, FirstWords DEF Fetched

(* The two fields that end the reading of a ROM early.                      *)
LEMMA EarlyRecord ==
  ASSUME NEW x, IsRecord(x), NEW s
  PROVE  LET r == [x EXCEPT !.status = s, !.bootable = FALSE]
         IN IsRecord(r) /\ r.status = s /\ ~r.bootable
BY DEF IsRecord

LEMMA InvInit == Init => IInv
<1> SUFFICES ASSUME Init PROVE IInv
  OBVIOUS
<1>1. Records
  BY DEF Init, Records, IsRecord, Unknown
<1>2. Places
  BY FwScanAssumption DEF Init, Places, Reading
<1>3. Round
  BY DEF Init, Round, Reading
<1> QED
  BY <1>1, <1>2, <1>3 DEF IInv

(* A node whose record has been written: the round goes on with the next.   *)
LEMMA NodeDone ==
  ASSUME IInv, Reading, NextNode, NEW r, IsRecord(r),
         info' = [info EXCEPT ![node] = r],
         UNCHANGED <<bus, count, changed>>,
         ~changed => Shows(r, Rom[bus[node]])
  PROVE  IInv'
<1>1. /\ node \in 1..MaxNodes /\ MaxNodes \in Nat /\ count \in Nat
      /\ node' = node - 1 /\ pc' = IF node = 1 THEN "show" ELSE "head"
  BY FwScanAssumption DEF IInv, Places, NextNode
<1>2. info' = [n \in 1..MaxNodes |-> IF n = node THEN r ELSE info[n]]
  BY <1>1 DEF IInv, Records
<1>3. Records'
  BY <1>2 DEF IInv, Records, IsRecord
<1>4. Places'
  BY <1>1 DEF IInv, Places, Reading
<1>5. Round'
  <2> SUFFICES ASSUME ~changed
               PROVE  /\ count = Len(bus) /\ node' <= count
                      /\ \A n \in node..count : Shows(info'[n], Rom[bus[n]])
    BY <1>1 DEF Round, Reading
  <2>1. /\ count = Len(bus) /\ node <= count /\ count <= MaxNodes
        /\ \A n \in (node + 1)..count : Shows(info[n], Rom[bus[n]])
    BY DEF IInv, Round, Places
  <2>2. ASSUME NEW n \in node..count PROVE Shows(info'[n], Rom[bus[n]])
    <3>1. CASE n = node
      BY <1>1, <1>2, <3>1
    <3>2. CASE n # node
      BY <1>1, <1>2, <2>1, <3>2
    <3> QED
      BY <3>1, <3>2
  <2> QED
    BY <1>1, <2>1, <2>2
<1> QED
  BY <1>3, <1>4, <1>5 DEF IInv

(* What a step keeps that leaves the nodes and their records alone.         *)
LEMMA NothingRead ==
  ASSUME IInv, UNCHANGED <<node, count, crom, info, bus, changed>>,
         \/ pc' = pc
         \/ pc' \notin {"head", "dir", "show"}
  PROVE  IInv'
<1>1. Records'
  BY DEF IInv, Records, IsRecord
<1>2. Places'
  BY DEF IInv, Places, Reading
<1>3. Round'
  BY DEF IInv, Round, Reading, Shows
<1> QED
  BY <1>1, <1>2, <1>3 DEF IInv
-----------------------------------------------------------------------------
LEMMA InvStep == ASSUME RomsAgree PROVE IInv /\ [Next]_vars => IInv'
<1> SUFFICES ASSUME IInv, [Next]_vars PROVE IInv'
  OBVIOUS
<1> USE DEF envVars, sigVars
<1>1. CASE Loop \/ Input \/ (Resize /\ SignalOnly) \/ Sigint
  BY <1>1, NothingRead DEF Loop, Input, Resize, SignalOnly, Sigint, IsSigint
<1>2. CASE Connect
  <2>1. CASE pc' = "exit" /\ UNCHANGED <<count, node, changed>>
    BY <1>2, <2>1, NothingRead DEF Connect
  <2>2. CASE /\ count' = Len(bus) /\ node' = Len(bus) /\ changed' = FALSE
             /\ pc' = IF bus = <<>> THEN "show" ELSE "head"
    <3>1. bus \in Seq(Devices) /\ Len(bus) \in 0..MaxNodes /\ MaxNodes \in Nat
      BY FwScanAssumption DEF IInv, Places
    <3>2. bus = <<>> <=> Len(bus) = 0
      BY <3>1
    <3>3. UNCHANGED <<bus, info>>
      BY <1>2 DEF Connect
    <3>4. Records'
      BY <3>3 DEF IInv, Records, IsRecord
    <3>5. Places'
      BY <2>2, <3>1, <3>2, <3>3 DEF IInv, Places, Reading
    <3>6. Round'
      BY <2>2, <3>1, <3>3 DEF Round, Reading
    <3> QED
      BY <3>4, <3>5, <3>6 DEF IInv
  <2> QED
    BY <1>2, <2>1, <2>2 DEF Connect
<1>3. CASE Show
  BY <1>3, NothingRead DEF Show
<1>4. CASE ReadFails
  <2>1. Reading /\ UNCHANGED <<bus, count, changed, crom>>
    BY <1>4 DEF ReadFails, Reading
  <2>2. CASE UNCHANGED <<pc, node, info>>
    BY <2>1, <2>2, NothingRead
  <2>3. CASE NextNode /\ info' = [info EXCEPT ![node].status = "BROKEN", ![node].bootable = FALSE]
    <3> DEFINE r == [info[node] EXCEPT !.status = "BROKEN", !.bootable = FALSE]
    <3>1. node \in 1..MaxNodes
      BY <2>1, FwScanAssumption DEF IInv, Places
    <3>2. IsRecord(r) /\ r.status = "BROKEN" /\ ~r.bootable
      BY <3>1, EarlyRecord DEF IInv, Records
    <3>3. info' = [info EXCEPT ![node] = r]
      BY <2>3, <3>1 DEF IInv, Records
    <3>4. IsRecord(r) /\ Shows(r, Rom[bus[node]])
      BY <3>2 DEF Shows
    <3> HIDE DEF r
    <3> QED
      BY <2>1, <2>3, <3>3, <3>4, NodeDone
  <2> QED
    BY <1>4, <2>2, <2>3 DEF ReadFails
<1>5. CASE ReadHead
  <2>1. PICK d \in Devices :
          /\ Present(d) /\ crom' = <<Rom[d][1]>>
          /\ \/ Full(Rom[d]) /\ pc' = "dir" /\ UNCHANGED <<node, info>>
             \/ /\ ~Full(Rom[d]) /\ NextNode
                /\ info' = [info EXCEPT ![node].status = EarlyStatus(Rom[d]),
                                        ![node].bootable = FALSE]
    BY <1>5 DEF ReadHead
  <2>2. Reading /\ UNCHANGED <<bus, count, changed>> /\ bus[node] = d
    BY <1>5, <2>1 DEF ReadHead, Reading, Present
  <2>3. node \in 1..MaxNodes
    BY <2>2, FwScanAssumption DEF IInv, Places
  <2>4. CASE Full(Rom[d]) /\ pc' = "dir" /\ UNCHANGED <<node, info>>
    <3>1. Rom[d] \in Seq(Word) /\ Len(Rom[d]) = 32
      BY RomOfDevice DEF RomWords
    <3>2. crom' = SubSeq(Rom[d], 1, 1) /\ 1 \in 0..RomWords
      BY <2>1, <3>1 DEF RomWords
    <3>3. Records'
      BY <2>4 DEF IInv, Records, IsRecord
    <3>4. Places'
      BY <2>2, <2>3, <2>4 DEF IInv, Places, Reading
    <3>5. Round'
      BY <2>2, <2>4, <3>2 DEF IInv, Round, Reading
    <3> QED
      BY <3>3, <3>4, <3>5 DEF IInv
  <2>5. CASE /\ ~Full(Rom[d]) /\ NextNode
             /\ info' = [info EXCEPT ![node].status = EarlyStatus(Rom[d]),
                                     ![node].bootable = FALSE]
    <3> DEFINE r == [info[node] EXCEPT !.status = EarlyStatus(Rom[d]), !.bootable = FALSE]
    <3>1. IsRecord(r) /\ r.status = EarlyStatus(Rom[d]) /\ ~r.bootable
      BY <2>3, EarlyRecord DEF IInv, Records
    <3>2. info' = [info EXCEPT ![node] = r]
      BY <2>3, <2>5 DEF IInv, Records
    <3>3. EarlyStatus(Rom[d]) # "RUN"
      BY DEF EarlyStatus
    <3>4. IsRecord(r) /\ Shows(r, Rom[bus[node]])
      BY <2>2, <2>5, <3>1, <3>3 DEF Shows
    <3> HIDE DEF r
    <3> QED
      BY <2>2, <2>5, <3>2, <3>4, NodeDone
  <2> QED
    BY <2>1, <2>4, <2>5
<1>6. CASE ReadWords
  <2>1. PICK d \in Devices : Present(d) /\ crom' = Fetched(d, 5)
    BY <1>6 DEF ReadWords
  <2>2. pc = "dir" /\ Len(crom) < 5 /\ UNCHANGED <<pc, node, count, info, bus, changed>>
    BY <1>6 DEF ReadWords
  <2>3. Records' /\ Places'
    BY <2>2 DEF IInv, Records, IsRecord, Places, Reading
  <2>4. Round'
    <3> SUFFICES ASSUME ~changed
                 PROVE  \E m \in 0..RomWords : crom' = SubSeq(Rom[bus[node]], 1, m)
      BY <2>2 DEF IInv, Round, Reading, Shows
    <3>1. bus[node] = d /\ \E m \in 0..RomWords : crom = SubSeq(Rom[d], 1, m)
      BY <2>1, <2>2 DEF Present, IInv, Round, Reading
    <3>2. PICK m \in 0..RomWords : crom = SubSeq(Rom[d], 1, m)
      BY <3>1
    <3>3. 5 \in m..RomWords /\ 5 \in 0..RomWords
      BY <2>2, <3>2, FirstWords DEF RomWords
    <3>4. crom' = SubSeq(Rom[d], 1, 5)
      BY <2>1, <3>2, <3>3, WordsOfOneRom
    <3> QED
      BY <3>1, <3>3, <3>4
  <2> QED
    BY <2>3, <2>4 DEF IInv
<1>7. CASE ReadDir
  <2>1. PICK d \in Devices :
          Present(d) /\ info' = [info EXCEPT ![node] = Shown(@, Fetched(d, RomWords))]
    BY <1>7 DEF ReadDir
  <2>2. /\ Reading /\ pc = "dir" /\ NextNode /\ UNCHANGED <<bus, count, changed>>
        /\ bus[node] = d
    BY <1>7, <2>1 DEF ReadDir, Reading, Present
  <2>3. node \in 1..MaxNodes
    BY <2>2, FwScanAssumption DEF IInv, Places
  <2> DEFINE rom == Fetched(d, RomWords)
             r   == Shown(info[node], rom)
  <2>4. info' = [info EXCEPT ![node] = r]
    BY <2>1, <2>3 DEF IInv, Records
  <2>5. /\ IsRecord(r) /\ r.status = "RUN" /\ r.guid = SubSeq(rom, 4, 5)
        /\ r.bootable = Bootable(rom)
        /\ InfoEntries(rom) # {} => r.multiboot = MultibootPtr(rom)
    <3>1. IsRecord(info[node])
      BY <2>3 DEF IInv, Records
    <3> HIDE DEF rom
    <3> QED
      BY <3>1 DEF IsRecord, Shown
  <2>6. ASSUME ~changed PROVE Shows(r, Rom[bus[node]])
    <3>1. Full(Rom[d]) /\ \E m \in 0..RomWords : crom = SubSeq(Rom[d], 1, m)
      BY <2>2, <2>6 DEF IInv, Round, Reading
    <3>2. PICK m \in 0..RomWords : crom = SubSeq(Rom[d], 1, m)
      BY <3>1
    <3>3. rom = Rom[d]
      <4>1. RomWords \in m..RomWords
        BY <3>2 DEF RomWords
      <4>2. rom = SubSeq(Rom[d], 1, RomWords)
        BY <3>2, <4>1, WordsOfOneRom
      <4> QED
        BY <4>2, RomOfDevice, SubSeqFull
    <3>4. /\ Bootable(rom) <=> IsMorbo(rom, 0)
          /\ Bootable(rom) => MultibootPtr(rom) = Rmbi(rom) /\ InfoEntries(rom) # {}
      BY <3>1, <3>3 DEF RomsAgree, Bootable
    <3> HIDE DEF rom, r
    <3> QED
      BY <2>2, <2>5, <3>1, <3>3, <3>4 DEF Shows
  <2> HIDE DEF r
  <2> QED
    BY <2>2, <2>4, <2>5, <2>6, NodeDone
<1>8. CASE BusChange
  <2>1. bus' \in Buses /\ changed' /\ UNCHANGED <<pc, count, node, info>>
    BY <1>8 DEF BusChange
  <2> QED
    BY <2>1 DEF IInv, Records, IsRecord, Places, Reading, Round
<1>9. CASE UNCHANGED vars
  BY <1>9, NothingRead DEF vars
<1>10. CASE LaterSigint \/ Sigwinch
  BY <1>1, <1>10 DEF LaterSigint, Sigwinch, IsSigint, IsSigwinch
<1> QED
  BY <1>1, <1>2, <1>3, <1>4, <1>5, <1>6, <1>7, <1>8, <1>9, <1>10 DEF Next, Main

(* If the two readers agree about the ROMs, then after a round that no bus  *)
(* reset disturbed the list of fw_scan (collect_all_info, print_info) shows *)
(* the devices of the bus, whatever the static records held before.         *)
THEOREM ListIsRight == ASSUME RomsAgree PROVE Spec => []ListShowsTheBus
<1>1. IInv => ListShowsTheBus
  BY DEF IInv, Round, Places, ListShowsTheBus, Shows
<1>2. IInv /\ [Next]_vars => IInv'
  BY InvStep
<1> QED
  BY <1>1, <1>2, InvInit, PTL DEF Spec
-----------------------------------------------------------------------------
(* The ROM that Morbo generates.                                            *)

IsTuple(s, n) == n \in Nat /\ Len(s) = n /\ \E S : s \in Seq(S)

(* \o by a name: the solver has rules of its own for the symbol.            *)
Cat(s, t) == s \o t

LEMMA ConcatIndex ==
  ASSUME NEW s, NEW t, NEW m \in Nat, NEW n \in Nat, IsTuple(s, m), IsTuple(t, n)
  PROVE  /\ IsTuple(Cat(s, t), m + n)
         /\ \A k \in 1..m : Cat(s, t)[k] = s[k]
         /\ \A k \in 1..n : Cat(s, t)[m + k] = t[k]
<1>1. PICK S1 : s \in Seq(S1)
  BY DEF IsTuple
<1>2. PICK S2 : t \in Seq(S2)
  BY DEF IsTuple
<1> DEFINE S == S1 \cup S2
           r == Cat(s, t)
<1>3. s \in Seq(S) /\ t \in Seq(S)
  BY <1>1, <1>2
<1> HIDE DEF S
<1>4. /\ r \in Seq(S) /\ Len(r) = Len(s) + Len(t)
      /\ \A k \in 1..(Len(s) + Len(t)) : r[k] = IF k <= Len(s) THEN s[k] ELSE t[k - Len(s)]
  BY <1>3, ConcatProperties DEF Cat
<1> HIDE DEF r
<1>5. m \in Nat /\ n \in Nat /\ Len(s) = m /\ Len(t) = n
  BY DEF IsTuple
<1>6. /\ r \in Seq(S) /\ Len(r) = m + n
      /\ \A k \in 1..(m + n) : r[k] = IF k <= m THEN s[k] ELSE t[k - m]
  BY <1>4, <1>5
<1>7. IsTuple(r, m + n)
  BY <1>5, <1>6 DEF IsTuple
<1>8. ASSUME NEW k \in 1..m PROVE r[k] = s[k]
  BY <1>5, <1>6
<1>9. ASSUME NEW k \in 1..n PROVE r[m + k] = t[k]
  <2>1. m + k \in 1..(m + n) /\ ~(m + k <= m) /\ (m + k) - m = k
    BY <1>5
  <2> QED
    BY <1>6, <2>1
<1> QED
  BY <1>7, <1>8, <1>9 DEF r

LEMMA Tuples ==
  /\ \A a : IsTuple(<<a>>, 1)
  /\ \A a, b : IsTuple(<<a, b>>, 2)
  /\ \A a, b, c, d : IsTuple(<<a, b, c, d>>, 4)
<1>1. ASSUME NEW a PROVE IsTuple(<<a>>, 1)
  <2>1. <<a>> \in Seq({a}) /\ Len(<<a>>) = 1
    OBVIOUS
  <2> QED
    BY <2>1 DEF IsTuple
<1>2. ASSUME NEW a, NEW b PROVE IsTuple(<<a, b>>, 2)
  <2>1. <<a, b>> \in Seq({a, b}) /\ Len(<<a, b>>) = 2
    OBVIOUS
  <2> QED
    BY <2>1 DEF IsTuple
<1>3. ASSUME NEW a, NEW b, NEW c, NEW d PROVE IsTuple(<<a, b, c, d>>, 4)
  <2>1. <<a, b, c, d>> \in Seq({a, b, c, d}) /\ Len(<<a, b, c, d>>) = 4
    OBVIOUS
  <2> QED
    BY <2>1 DEF IsTuple
<1> QED
  BY <1>1, <1>2, <1>3

LEMMA DirectoryIndex ==
  ASSUME NEW n \in Nat, NEW words, IsTuple(words, n)
  PROVE  /\ IsTuple(Directory(words), 1 + n)
         /\ Directory(words)[1] = <<0, n>> \o Crc16(words)
         /\ \A k \in 1..n : Directory(words)[1 + k] = words[k]
<1> DEFINE h == <<0, n>> \o Crc16(words)
           first == <<h>>
<1>1. Directory(words) = Cat(first, words)
  BY DEF Directory, IsTuple, Cat
<1>2. IsTuple(first, 1) /\ first[1] = h
  <2> HIDE DEF h
  <2> QED
    BY Tuples
<1> HIDE DEF first
<1>3. /\ IsTuple(Cat(first, words), 1 + n)
      /\ \A k \in 1..1 : Cat(first, words)[k] = first[k]
      /\ \A k \in 1..n : Cat(first, words)[1 + k] = words[k]
  BY <1>2, ConcatIndex
<1> QED
  BY <1>1, <1>2, <1>3

Crc16Type == \A words : IsTuple(Crc16(words), 2)

LEMMA HeadWord ==
  ASSUME Crc16Type, NEW a, NEW b, NEW words
  PROVE  /\ IsTuple(<<a, b>> \o Crc16(words), 4)
         /\ (<<a, b>> \o Crc16(words))[1] = a /\ (<<a, b>> \o Crc16(words))[2] = b
<1> DEFINE c == Crc16(words)
           h == <<a, b>>
<1>1. IsTuple(c, 2) /\ IsTuple(h, 2) /\ h[1] = a /\ h[2] = b
  BY Tuples DEF Crc16Type
<1> HIDE DEF c, h
<1>2. IsTuple(Cat(h, c), 2 + 2) /\ \A k \in 1..2 : Cat(h, c)[k] = h[k]
  BY <1>1, ConcatIndex
<1>3. IsTuple(Cat(h, c), 4) /\ Cat(h, c)[1] = a /\ Cat(h, c)[2] = b
  BY <1>1, <1>2
<1> QED
  BY <1>3 DEF c, h, Cat

(* The words that the readers look at, by their places.                     *)
LEMMA GeneratedWords ==
  ASSUME Crc16Type, NEW regs, NEW speed, NEW mbi
  PROVE  LET rom == GenerateCrom(regs, speed, mbi) IN
         /\ IsTuple(rom[1], 4) /\ rom[1][1] = 4
         /\ rom[6][1] = 0 /\ rom[6][2] = 4
         /\ rom[7] = <<3, 202, 255, 238>> /\ rom[8] = <<23, 0, 0, 2>>
         /\ rom[9] = <<129, 0, 0, 2>> /\ rom[10] = <<184, 0, 0, 8>> /\ rom[19] = mbi
<1> DEFINE opt  == BusOptionsFor(regs.busOptions, speed)
           bus4 == <<regs.busId, opt, regs.guidHi, regs.guidLo>>
           head == <<4, 4>> \o Crc16(bus4)
           root == <<<<3>> \o VendorId, <<23>> \o ModelId, <<129, 0, 0, 2>>, <<InfoDir, 0, 0, 8>>>>
           dir1 == Directory(root)
           dir2 == Directory(TextLeaf)
           dir3 == Directory(<<mbi>>)
           s1   == Cat(<<head>>, bus4)
           s2   == Cat(s1, dir1)
           s3   == Cat(s2, dir2)
           s4   == Cat(s3, dir3)
<1>1. GenerateCrom(regs, speed, mbi) =
        [k \in 1..RomWords |-> IF k <= Len(s4) THEN s4[k] ELSE <<0, 0, 0, 0>>]
  BY DEF GenerateCrom, Cat
<1>2. IsTuple(bus4, 4)
  <2> HIDE DEF opt
  <2> QED
    BY Tuples
<1>3. IsTuple(head, 4) /\ head[1] = 4
  <2> HIDE DEF opt, bus4
  <2> QED
    BY HeadWord
<1>4. root = <<<<3, 202, 255, 238>>, <<23, 0, 0, 2>>, <<129, 0, 0, 2>>, <<184, 0, 0, 8>>>>
  <2>1. ASSUME NEW x, x = << 3 >> \o VendorId PROVE x = <<3, 202, 255, 238>>
    <3>1. x \in Seq(Nat) /\ Len(x) = 4 /\ x[1] = 3 /\ x[2] = 202 /\ x[3] = 255 /\ x[4] = 238
      BY <2>1 DEF VendorId
    <3> QED
      BY <3>1
  <2>2. ASSUME NEW x, x = << 23 >> \o ModelId PROVE x = <<23, 0, 0, 2>>
    <3>1. x \in Seq(Nat) /\ Len(x) = 4 /\ x[1] = 23 /\ x[2] = 0 /\ x[3] = 0 /\ x[4] = 2
      BY <2>2 DEF ModelId
    <3> QED
      BY <3>1
  <2>3. <<3>> \o VendorId = <<3, 202, 255, 238>> /\ <<23>> \o ModelId = <<23, 0, 0, 2>>
    BY <2>1, <2>2, Zenon
  <2>4. <<InfoDir, 0, 0, 8>> = <<184, 0, 0, 8>>
    BY DEF InfoDir
  <2> QED
    BY <2>3, <2>4, Zenon
<1>5. IsTuple(root, 4) /\ IsTuple(<<mbi>>, 1)
  BY Tuples
<1>6. IsTuple(TextLeaf, 6)
  <2>1. TextLeaf \in Seq(Seq(Nat)) /\ Len(TextLeaf) = 6
    BY DEF TextLeaf
  <2> QED
    BY <2>1 DEF IsTuple
<1> HIDE DEF bus4, head, root, opt
<1>7. IsTuple(s1, 5) /\ s1[1] = head
  <2> DEFINE first == <<head>>
  <2>1. IsTuple(first, 1) /\ first[1] = head
    BY Tuples
  <2> HIDE DEF first
  <2>2. IsTuple(Cat(first, bus4), 1 + 4) /\ \A k \in 1..1 : Cat(first, bus4)[k] = first[k]
    BY <1>2, <2>1, ConcatIndex
  <2> QED
    BY <2>1, <2>2 DEF first
<1>8. /\ IsTuple(dir1, 1 + 4) /\ dir1[1][1] = 0 /\ dir1[1][2] = 4
      /\ \A k \in 1..4 : dir1[1 + k] = root[k]
  <2>1. /\ IsTuple(dir1, 1 + 4) /\ dir1[1] = <<0, 4>> \o Crc16(root)
        /\ \A k \in 1..4 : dir1[1 + k] = root[k]
    BY <1>5, DirectoryIndex
  <2> HIDE DEF dir1
  <2> QED
    BY <2>1, HeadWord
<1>9. IsTuple(dir2, 1 + 6)
  BY <1>6, DirectoryIndex
<1>10. IsTuple(dir3, 1 + 1) /\ \A k \in 1..1 : dir3[1 + k] = <<mbi>>[k]
  BY <1>5, DirectoryIndex
<1> HIDE DEF s1, dir1, dir2, dir3
<1>11. IsTuple(s2, 5 + 5) /\ (\A k \in 1..5 : s2[k] = s1[k]) /\ (\A k \in 1..5 : s2[5 + k] = dir1[k])
  <2>1. IsTuple(dir1, 5)
    BY <1>8
  <2> QED
    BY <1>7, <2>1, ConcatIndex
<1> HIDE DEF s2
<1>12. IsTuple(s3, 10 + 7) /\ (\A k \in 1..10 : s3[k] = s2[k])
  <2>1. IsTuple(s2, 10) /\ IsTuple(dir2, 7)
    BY <1>9, <1>11
  <2> QED
    BY <2>1, ConcatIndex
<1> HIDE DEF s3
<1>13. /\ IsTuple(s4, 17 + 2) /\ (\A k \in 1..17 : s4[k] = s3[k])
       /\ \A k \in 1..2 : s4[17 + k] = dir3[k]
  <2>1. IsTuple(s3, 17) /\ IsTuple(dir3, 2)
    BY <1>10, <1>12
  <2> QED
    BY <2>1, ConcatIndex
<1> HIDE DEF s4
<1>14. s4[19] = mbi
  <2>1. s4[19] = dir3[2]
    BY <1>13
  <2>2. dir3[2] = <<mbi>>[1]
    BY <1>10
  <2> QED
    BY <2>1, <2>2
<1>15. s4[1] = head /\ \A k \in 6..10 : s4[k] = s2[k]
  BY <1>7, <1>11, <1>12, <1>13
<1>16. s2[6] = dir1[1] /\ s2[7] = dir1[2] /\ s2[8] = dir1[3] /\ s2[9] = dir1[4] /\ s2[10] = dir1[5]
  BY <1>11
<1>17. dir1[2] = root[1] /\ dir1[3] = root[2] /\ dir1[4] = root[3] /\ dir1[5] = root[4]
  BY <1>8
<1> DEFINE rom == GenerateCrom(regs, speed, mbi)
<1>18. \A k \in 1..19 : rom[k] = s4[k]
  <2>1. Len(s4) = 19
    BY <1>13 DEF IsTuple
  <2>2. rom = [k \in 1..32 |-> IF k <= 19 THEN s4[k] ELSE <<0, 0, 0, 0>>]
    BY <1>1, <2>1 DEF RomWords
  <2> HIDE DEF rom
  <2> QED
    BY <2>2
<1> HIDE DEF rom
<1>19. /\ rom[1] = head /\ rom[6] = dir1[1] /\ rom[19] = mbi
       /\ rom[7] = root[1] /\ rom[8] = root[2] /\ rom[9] = root[3] /\ rom[10] = root[4]
  BY <1>14, <1>15, <1>16, <1>17, <1>18
<1>20. /\ root[1] = <<3, 202, 255, 238>> /\ root[2] = <<23, 0, 0, 2>>
       /\ root[3] = <<129, 0, 0, 2>> /\ root[4] = <<184, 0, 0, 8>>
  BY <1>4
<1> QED
  BY <1>3, <1>8, <1>19, <1>20 DEF rom

(* What the bus gives of such a ROM, by a controller of either kind.        *)
LEMMA WordsOnTheBus ==
  ASSUME NEW rom, NEW regs, ~regs.linkEnable, NEW chip, IsTuple(rom[1], 4)
  PROVE  LET read == QuadletReads(chip, LoadCrom(rom, regs)) IN
         /\ read[1][1] = rom[1][1]
         /\ \A k \in (1..RomWords) \ {1, 3} : read[k] = rom[k]
<1> DEFINE image == LoadCrom(rom, regs)
           read  == QuadletReads(chip, image)
<1>1. /\ image.hdr = rom[1]
      /\ image.memory = [k \in 1..32 |-> IF k \in {1, 3} THEN Reverse(rom[k]) ELSE rom[k]]
  BY DEF LoadCrom, RomWords
<1> HIDE DEF image
<1>2. read = [k \in 1..32 |-> IF k \notin {1, 3} THEN image.memory[k]
                              ELSE IF chip = "reloads" THEN Reverse(image.memory[k])
                              ELSE IF k = 1 THEN image.hdr ELSE image.busOptions]
  BY DEF QuadletReads, RomWords
<1> HIDE DEF read
<1>3. \A k \in (1..32) \ {1, 3} : read[k] = rom[k]
  BY <1>1, <1>2
<1>4. read[1] = IF chip = "reloads" THEN Reverse(Reverse(rom[1])) ELSE rom[1]
  BY <1>1, <1>2
<1>5. Reverse(Reverse(rom[1]))[1] = rom[1][1]
  <2>1. \A w : Len(w) = 4 => Len(Reverse(w)) = 4 /\ Reverse(w)[4] = w[1] /\ Reverse(w)[1] = w[4]
    BY DEF Reverse
  <2> QED
    BY <2>1 DEF IsTuple
<1> QED
  BY <1>3, <1>4, <1>5 DEF read, image, RomWords

(* Whatever the GUID, the speed, the pointer and the kind of the controller *)
(* are: the ROM that ohci_generate_crom writes and ohci_load_crom loads     *)
(* means "bootable" to collect_node_info of fw_scan and, while mods_count   *)
(* is zero, to is_morbo of morbo.py, and both find the same pointer in it.  *)
THEOREM MorboIsFound ==
  ASSUME Crc16Type, NEW regs, ~regs.linkEnable, NEW speed, NEW mbi, NEW chip
  PROVE  LET rom == QuadletReads(chip, LoadCrom(GenerateCrom(regs, speed, mbi), regs)) IN
         /\ Full(rom) /\ IsMorbo(rom, 0) /\ Bootable(rom)
         /\ MultibootPtr(rom) = mbi /\ Rmbi(rom) = mbi
<1> DEFINE gen == GenerateCrom(regs, speed, mbi)
           rom == QuadletReads(chip, LoadCrom(gen, regs))
<1>1. /\ IsTuple(gen[1], 4) /\ gen[1][1] = 4 /\ gen[6][1] = 0 /\ gen[6][2] = 4
      /\ gen[7] = <<3, 202, 255, 238>> /\ gen[8] = <<23, 0, 0, 2>>
      /\ gen[9] = <<129, 0, 0, 2>> /\ gen[10] = <<184, 0, 0, 8>> /\ gen[19] = mbi
  BY GeneratedWords
<1> HIDE DEF gen
<1>2. rom[1][1] = gen[1][1] /\ \A k \in (1..RomWords) \ {1, 3} : rom[k] = gen[k]
  BY <1>1, WordsOnTheBus
<1>3. rom = [k \in 1..32 |-> rom[k]]
  BY DEF QuadletReads, RomWords
<1> HIDE DEF rom
<1>4. /\ rom[1][1] = 4 /\ rom[6][1] = 0 /\ rom[6][2] = 4
      /\ rom[7] = <<3, 202, 255, 238>> /\ rom[8] = <<23, 0, 0, 2>>
      /\ rom[9] = <<129, 0, 0, 2>> /\ rom[10] = <<184, 0, 0, 8>> /\ rom[19] = mbi
  BY <1>1, <1>2 DEF RomWords
<1>5. Len(rom) = 32
  BY <1>3
<1> DEFINE dir == RootDir(rom)
<1>6. /\ dir[1] = rom[6] /\ dir[2] = rom[7] /\ dir[3] = rom[8] /\ dir[4] = rom[9]
      /\ dir[5] = rom[10] /\ dir[14] = rom[19]
  BY <1>4, <1>5 DEF RootDir
<1> HIDE DEF dir
<1>7. Length(dir[1]) = 4
  BY <1>4, <1>6 DEF Length
<1>8. Entries(rom) = 1..4
  BY <1>4, <1>7 DEF Entries, Garbage, dir
<1>9. /\ dir[2][1] = 3 /\ dir[3][1] = 23 /\ dir[4][1] = 129 /\ dir[5][1] = 184
  BY <1>4, <1>6
<1>10. ASSUME NEW i \in 1..4, NEW key, \A j \in 1..4 : dir[j + 1][1] = key <=> j = i
       PROVE  Keyed(rom, key) = {i} /\ Latest(Keyed(rom, key)) = i
  <2>1. Keyed(rom, key) = {i}
    BY <1>8, <1>10 DEF Keyed, dir
  <2> QED
    BY <2>1 DEF Latest
<1>11. \A j \in 1..4 : dir[j + 1][1] = IF j = 1 THEN 3 ELSE IF j = 2 THEN 23 ELSE IF j = 3 THEN 129 ELSE 184
  BY <1>9
<1>12. /\ Keyed(rom, 3) = {1} /\ Latest(Keyed(rom, 3)) = 1
       /\ Keyed(rom, 23) = {2} /\ Latest(Keyed(rom, 23)) = 2
       /\ Keyed(rom, 184) = {4} /\ Latest({4}) = 4
  BY <1>10, <1>11
<1>13. Target(rom, 4) = 12
  <2>1. Value(<<184, 0, 0, 8>>) = 8
    BY DEF Value
  <2> QED
    BY <1>4, <1>6, <2>1 DEF Target, dir
<1>14. InfoEntries(rom) = {4}
  BY <1>12, <1>13 DEF InfoEntries, InfoDir
<1>15. MultibootPtr(rom) = mbi /\ Rmbi(rom) = mbi
  BY <1>4, <1>6, <1>12, <1>13, <1>14 DEF MultibootPtr, Rmbi, dir
<1>16. Tail(<<3, 202, 255, 238>>) = VendorId /\ Tail(<<23, 0, 0, 2>>) = ModelId
  BY DEF VendorId, ModelId
<1>17. IsMorbo(rom, 0)
  BY <1>4, <1>16 DEF IsMorbo
<1>18. Bootable(rom)
  <2>1. RootDir(rom)[1 + 1] = <<3, 202, 255, 238>> /\ RootDir(rom)[2 + 1] = <<23, 0, 0, 2>>
    BY <1>4, <1>6 DEF dir
  <2>2. Says(rom, 3, VendorId)
    BY <1>12, <1>16, <2>1 DEF Says
  <2>3. Says(rom, 23, ModelId)
    BY <1>12, <1>16, <2>1 DEF Says
  <2> QED
    BY <1>14, <2>2, <2>3 DEF Bootable
<1>19. Full(rom)
  <2>1. <<0, 0, 0, 0>>[1] = 0
    OBVIOUS
  <2> QED
    BY <1>4, <2>1 DEF Full
<1> QED
  BY <1>15, <1>17, <1>18, <1>19 DEF rom, gen
-----------------------------------------------------------------------------
(* Types, whatever the ROMs are like.                                       *)
States    == {"UNDEF", "BROKEN", "INIT", "RUN", "DUMB"}
GoodRecord(r) == IsRecord(r) /\ r.status \in States /\ r.bootable \in BOOLEAN

(* The handler of SIGINT is replaced by the first interrupt, and a round    *)
(* reads only nodes that there are records for.                             *)
TypeInv ==
  /\ TypeOK /\ info = [n \in 1..MaxNodes |-> info[n]]
  /\ \A n \in 1..MaxNodes : GoodRecord(info[n])
  /\ Reading => node > 0
  /\ onSigint = "sigint_handler" => interrupted = 0
  /\ sigints \in Nat /\ winches \in Nat

LEMMA TypeInit == Init => TypeInv
<1> SUFFICES ASSUME Init PROVE TypeInv
  OBVIOUS
<1>1. /\ info = [n \in 1..MaxNodes |-> info[n]]
      /\ \A n \in 1..MaxNodes : info[n] = Unknown
  BY DEF Init
<1>2. GoodRecord(Unknown)
  BY DEF GoodRecord, IsRecord, Unknown, States
<1>3. crom \in Seq(Word)
  BY DEF Init, None
<1>4. /\ 0 \in 0..MaxNodes /\ Retries \in 0..Retries /\ 0 \in 0..1 /\ 0 + 0 \in 0..MaxSignals
      /\ 0 \in 0..MaxChanges
  BY FwScanAssumption
<1>5. /\ pc = "loop" /\ done = FALSE /\ resized = FALSE /\ onSigint = "sigint_handler"
      /\ interrupted = 0 /\ count = 0 /\ node = 0 /\ tries = Retries /\ bus \in Buses
      /\ changed = FALSE /\ changes = 0 /\ sigints = 0 /\ winches = 0
  BY DEF Init
<1>6. TypeOK
  BY <1>1, <1>2, <1>3, <1>4, <1>5 DEF TypeOK, GoodRecord, States
<1> QED
  BY <1>1, <1>2, <1>5, <1>6 DEF TypeInv, Reading

(* Another record is written.                                               *)
LEMMA NodeDoneTypes ==
  ASSUME TypeInv, Reading, NextNode, NEW r, GoodRecord(r),
         info' = [info EXCEPT ![node] = r],
         UNCHANGED <<done, sigVars, count, envVars>>, tries' = Retries, crom' \in Seq(Word)
  PROVE  TypeInv'
<1>1. /\ node \in 1..MaxNodes /\ MaxNodes \in Nat /\ Retries \in Nat
      /\ node' = node - 1 /\ pc' = IF node = 1 THEN "show" ELSE "head"
  BY FwScanAssumption DEF TypeInv, TypeOK, NextNode
<1>2. info' = [n \in 1..MaxNodes |-> IF n = node THEN r ELSE info[n]]
  BY <1>1 DEF TypeInv
<1>3. /\ info' = [n \in 1..MaxNodes |-> info'[n]] /\ DOMAIN info' = 1..MaxNodes
      /\ \A n \in 1..MaxNodes : GoodRecord(info'[n])
  BY <1>2 DEF TypeInv
<1>4. /\ node' \in 0..MaxNodes /\ tries' \in 0..Retries /\ (Reading' => node' > 0)
      /\ pc' \in {"show", "head"}
  BY <1>1 DEF Reading
<1> QED
  BY <1>3, <1>4 DEF TypeInv, TypeOK, GoodRecord, IsRecord, States, sigVars, envVars

LEMMA TypeStep == TypeInv /\ [Next]_vars => TypeInv'
<1> SUFFICES ASSUME TypeInv, [Next]_vars PROVE TypeInv'
  OBVIOUS
<1> USE DEF envVars, sigVars
<1>1. /\ MaxNodes \in Nat /\ Retries \in Nat /\ MaxChanges \in Nat /\ MaxSignals \in Nat
      /\ node \in 0..MaxNodes /\ count \in 0..MaxNodes /\ tries \in 0..Retries
      /\ crom \in Seq(Word) /\ bus \in Buses
  BY FwScanAssumption DEF TypeInv, TypeOK
<1>2. ASSUME info' = info PROVE /\ info' = [n \in 1..MaxNodes |-> info'[n]]
                                /\ DOMAIN info' = 1..MaxNodes
                                /\ \A n \in 1..MaxNodes : GoodRecord(info'[n])
  BY <1>2 DEF TypeInv
<1>3. CASE Loop \/ Show \/ Input
  <2>1. /\ pc' \in {"loop", "connect", "input", "exit"} /\ done' \in BOOLEAN /\ resized' \in BOOLEAN
        /\ UNCHANGED <<onSigint, interrupted, count, node, tries, crom, info, envVars>>
    BY <1>3 DEF Loop, Show, Input, TypeInv, TypeOK
  <2> QED
    BY <1>2, <2>1 DEF TypeInv, TypeOK, Reading, GoodRecord, States
<1>4. CASE Connect
  <2>1. bus \in Seq(Devices) /\ Len(bus) \in 0..MaxNodes
    BY <1>1, FwScanAssumption
  <2>2. bus = <<>> <=> Len(bus) = 0
    BY <2>1
  <2>3. /\ UNCHANGED <<done, sigVars, tries, crom, info, bus, changes, sigints, winches>>
        /\ count' \in 0..MaxNodes /\ node' \in 0..MaxNodes /\ changed' \in BOOLEAN
        /\ pc' \in {"show", "head", "exit"} /\ (pc' = "head" => node' > 0)
    <3>1. UNCHANGED <<done, sigVars, tries, crom, info, bus, changes, sigints, winches>>
      BY <1>4 DEF Connect
    <3>2. CASE pc' = "exit" /\ UNCHANGED <<count, node, changed>>
      BY <1>1, <3>1, <3>2 DEF TypeInv, TypeOK
    <3>3. CASE /\ count' = Len(bus) /\ node' = Len(bus) /\ changed' = FALSE
               /\ pc' = IF bus = <<>> THEN "show" ELSE "head"
      <4>1. count' \in 0..MaxNodes /\ node' \in 0..MaxNodes /\ changed' \in BOOLEAN
        BY <2>1, <3>3
      <4>2. pc' \in {"show", "head"} /\ (pc' = "head" => Len(bus) # 0)
        BY <2>2, <3>3
      <4> QED
        BY <2>1, <3>1, <3>3, <4>1, <4>2
    <3> QED
      BY <1>4, <3>2, <3>3 DEF Connect
  <2> QED
    BY <1>2, <2>3 DEF TypeInv, TypeOK, Reading, GoodRecord, States
<1>5. CASE ReadFails
  <2>1. Reading /\ UNCHANGED <<done, sigVars, count, crom, envVars>>
    BY <1>5 DEF ReadFails, Reading
  <2>2. CASE Retry /\ UNCHANGED <<pc, node, info>>
    <3>1. tries' \in 0..Retries
      BY <1>1, <2>2 DEF Retry
    <3> QED
      BY <1>2, <2>1, <2>2, <3>1 DEF TypeInv, TypeOK, Reading, GoodRecord, States
  <2>3. CASE /\ ReadDone /\ NextNode
             /\ info' = [info EXCEPT ![node].status = "BROKEN", ![node].bootable = FALSE]
    <3> DEFINE r == [info[node] EXCEPT !.status = "BROKEN", !.bootable = FALSE]
    <3>1. node \in 1..MaxNodes
      BY <1>1, <2>1 DEF TypeInv
    <3>2. GoodRecord(r)
      <4>1. IsRecord(info[node])
        BY <3>1 DEF TypeInv, GoodRecord
      <4>2. IsRecord(r) /\ r.status = "BROKEN" /\ ~r.bootable
        BY <4>1, EarlyRecord
      <4>3. r.bootable = FALSE
        BY <4>1 DEF IsRecord
      <4> QED
        BY <4>2, <4>3 DEF GoodRecord, States
    <3>3. info' = [info EXCEPT ![node] = r]
      BY <2>3, <3>1 DEF TypeInv
    <3> HIDE DEF r
    <3> QED
      BY <1>1, <2>1, <2>3, <3>2, <3>3, NodeDoneTypes DEF ReadDone
  <2> QED
    BY <1>5, <2>2, <2>3 DEF ReadFails
<1>6. CASE ReadHead
  <2>1. PICK d \in Devices :
          /\ crom' = <<Rom[d][1]>>
          /\ \/ pc' = "dir" /\ UNCHANGED <<node, info>>
             \/ /\ NextNode
                /\ info' = [info EXCEPT ![node].status = EarlyStatus(Rom[d]),
                                        ![node].bootable = FALSE]
    BY <1>6 DEF ReadHead
  <2>2. Reading /\ ReadDone /\ UNCHANGED <<done, sigVars, count, envVars>>
    BY <1>6 DEF ReadHead, Reading
  <2>3. node \in 1..MaxNodes
    BY <1>1, <2>2 DEF TypeInv
  <2>4. crom' \in Seq(Word)
    <3>1. Rom[d] \in Seq(Word) /\ Len(Rom[d]) = 32
      BY RomOfDevice DEF RomWords
    <3>2. Rom[d][1] \in Word
      <4>1. 1 \in 1..Len(Rom[d])
        BY <3>1
      <4> QED
        BY <3>1, <4>1, ElementOfSeq
    <3> QED
      BY <2>1, <3>2
  <2>5. CASE pc' = "dir" /\ UNCHANGED <<node, info>>
    <3>1. tries' \in 0..Retries
      BY <1>1, <2>2 DEF ReadDone
    <3> QED
      BY <1>2, <2>2, <2>3, <2>4, <2>5, <3>1 DEF TypeInv, TypeOK, Reading, GoodRecord, States
  <2>6. CASE /\ NextNode
             /\ info' = [info EXCEPT ![node].status = EarlyStatus(Rom[d]),
                                     ![node].bootable = FALSE]
    <3> DEFINE r == [info[node] EXCEPT !.status = EarlyStatus(Rom[d]), !.bootable = FALSE]
    <3>1. GoodRecord(r)
      <4>1. IsRecord(info[node])
        BY <2>3 DEF TypeInv, GoodRecord
      <4>2. IsRecord(r) /\ r.status = EarlyStatus(Rom[d])
        BY <4>1, EarlyRecord
      <4>3. r.bootable = FALSE
        BY <4>1 DEF IsRecord
      <4> QED
        BY <4>2, <4>3 DEF GoodRecord, States, EarlyStatus
    <3>2. info' = [info EXCEPT ![node] = r]
      BY <2>3, <2>6 DEF TypeInv
    <3> HIDE DEF r
    <3> QED
      BY <2>2, <2>4, <2>6, <3>1, <3>2, NodeDoneTypes DEF ReadDone
  <2> QED
    BY <2>1, <2>5, <2>6
<1>7. CASE ReadWords
  <2>1. PICK d \in Devices : crom' = Fetched(d, 5)
    BY <1>7 DEF ReadWords
  <2>2. ReadDone /\ UNCHANGED <<pc, done, sigVars, count, node, info, envVars>> /\ Len(crom) < 5
    BY <1>7 DEF ReadWords
  <2>3. crom' \in Seq(Word)
    <3>1. Rom[d] \in Seq(Word) /\ Len(Rom[d]) = 32 /\ Len(crom) \in Nat
      BY <1>1, RomOfDevice DEF RomWords
    <3>2. SubSeq(Rom[d], Len(crom) + 1, 5) \in Seq(Word)
      <4> DEFINE a == Len(crom) + 1
      <4>1. a \in Int /\ 5 \in Int /\ a >= 1
        BY <3>1
      <4> HIDE DEF a
      <4>2. ASSUME NEW i \in a..5 PROVE Rom[d][i] \in Word
        <5>1. i \in 1..Len(Rom[d])
          BY <3>1, <4>1
        <5> QED
          BY <3>1, <5>1, ElementOfSeq
      <4> QED
        BY <4>1, <4>2, SubSeqProperties DEF a
    <3> QED
      BY <1>1, <2>1, <3>2 DEF Fetched
  <2>4. tries' \in 0..Retries
    BY <1>1, <2>2 DEF ReadDone
  <2> QED
    BY <1>2, <2>2, <2>3, <2>4 DEF TypeInv, TypeOK, Reading, GoodRecord, States
<1>8. CASE ReadDir
  <2>1. PICK d \in Devices : info' = [info EXCEPT ![node] = Shown(@, Fetched(d, RomWords))]
    BY <1>8 DEF ReadDir
  <2>2. Reading /\ NextNode /\ ReadDone /\ UNCHANGED <<done, sigVars, count, crom, envVars>>
    BY <1>8 DEF ReadDir, Reading
  <2>3. node \in 1..MaxNodes
    BY <1>1, <2>2 DEF TypeInv
  <2> DEFINE rom == Fetched(d, RomWords)
             r   == Shown(info[node], rom)
  <2>4. info' = [info EXCEPT ![node] = r]
    BY <2>1, <2>3 DEF TypeInv
  <2>5. GoodRecord(r)
    <3>1. IsRecord(info[node])
      BY <2>3 DEF TypeInv, GoodRecord
    <3> HIDE DEF rom
    <3>2. IsRecord(r) /\ r.status = "RUN" /\ r.bootable = Bootable(rom)
      BY <3>1 DEF IsRecord, Shown
    <3>3. Bootable(rom) \in BOOLEAN
      BY DEF Bootable
    <3> QED
      BY <3>2, <3>3 DEF GoodRecord, States
  <2> HIDE DEF r
  <2> QED
    BY <1>1, <2>2, <2>4, <2>5, NodeDoneTypes DEF ReadDone
<1>9. CASE Sigint \/ LaterSigint \/ Sigwinch
  <2>1. SignalOnly /\ Signal /\ sigints' \in {sigints, sigints + 1} /\ winches' \in {winches, winches + 1}
        /\ (sigints' = sigints \/ winches' = winches)
    BY <1>9 DEF Sigint, LaterSigint, Sigwinch, IsSigint, IsSigwinch
  <2>2. sigints' \in Nat /\ winches' \in Nat /\ sigints' + winches' \in 0..MaxSignals
    BY <1>1, <2>1 DEF Signal, TypeInv
  <2>3. /\ pc' = pc \/ pc' = "exit"
        /\ done' \in BOOLEAN /\ resized' \in BOOLEAN /\ interrupted' \in 0..1
        /\ onSigint' \in {"sigint_handler", "sigwinch_handler"}
        /\ onSigint' = "sigint_handler" => interrupted' = 0
    <3>1. /\ done \in BOOLEAN /\ resized \in BOOLEAN /\ interrupted \in 0..1
          /\ onSigint \in {"sigint_handler", "sigwinch_handler"}
          /\ onSigint = "sigint_handler" => interrupted = 0
      BY DEF TypeInv, TypeOK
    <3>2. CASE Sigint
      BY <3>1, <3>2 DEF Sigint
    <3>3. CASE LaterSigint \/ Sigwinch
      BY <3>1, <3>3 DEF LaterSigint, Sigwinch, Resize
    <3> QED
      BY <1>9, <3>2, <3>3
  <2> QED
    BY <1>2, <2>1, <2>2, <2>3 DEF SignalOnly, TypeInv, TypeOK, Reading, GoodRecord, States
<1>10. CASE BusChange
  <2>1. /\ UNCHANGED <<pc, done, sigVars, count, node, tries, crom, info, sigints, winches>>
        /\ bus' \in Buses /\ changed' = TRUE /\ changes' \in 0..MaxChanges
    BY <1>1, <1>10 DEF BusChange, TypeInv, TypeOK
  <2> QED
    BY <1>2, <2>1 DEF TypeInv, TypeOK, Reading, GoodRecord, States
<1>11. CASE UNCHANGED vars
  BY <1>2, <1>11 DEF vars, TypeInv, TypeOK, Reading, GoodRecord, States
<1> QED
  BY <1>3, <1>4, <1>5, <1>6, <1>7, <1>8, <1>9, <1>10, <1>11 DEF Next, Main

(* Node numbers, retries and states of nodes stay in their ranges, for any  *)
(* ROMs: no node is read that the static array has no record for            *)
(* (collect_all_info), and a second interrupt never finds sigint_handler.   *)
THEOREM TypeCorrect == Spec => []TypeOK
<1>1. TypeInv => TypeOK
  BY DEF TypeInv
<1> QED
  BY <1>1, TypeInit, TypeStep, PTL DEF Spec
=============================================================================
