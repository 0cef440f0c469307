-------------------------- MODULE FwTransferProofs --------------------------
(***************************************************************************)
(* Proofs about FwTransfer, for every block size, pipe, bus and transfer.  *)
(* fw_poke keeps two counts, the units it has taken out of the pipe and    *)
(* the address it writes at; a block goes to its place because they agree  *)
(* (Counts).  As long as the bus is not reset, node number `no' is one     *)
(* device, the one that was meant (Aimed), and its memory is filled up to  *)
(* `cur' (Filling).  What is in the pipe never ends within a block before  *)
(* the last one (Bounds, WholeBlocks), so that a short read is the end of  *)
(* the data.  No block fw_peek printed has an older version of the memory  *)
(* than a block before it (Versions).                                      *)
(***************************************************************************)
EXTENDS FwTransfer, TLAPS

Units == 0..(cmd.len - 1)

Types ==
  /\ cmd \in Cmds /\ bus \in Buses /\ no \in Nat /\ cur \in Nat /\ size \in 0..Step
  /\ sent \in 0..cmd.len /\ taken \in 0..sent /\ resets \in Nat
  /\ cmd.op = "poke" => mem \in [Devices -> [Units -> Nat]]

Counts ==
  cmd.op = "poke" =>
    /\ pc = "take" => taken = cur
    /\ pc = "write" => taken = cur + size

(* The memory is filled with the data up to k.                              *)
Filled(d, k) == \A a \in Units : mem[d][a] = IF a < k THEN a + 1 ELSE 0

InPlace == cmd.op = "poke" => \A d \in Devices : \A a \in Units : mem[d][a] \in {0, a + 1}

Searching == pc \in {"guidLo", "guidHi"}
Loading   == pc \in {"take", "write"}

Aimed ==
  resets = 0 =>
    /\ ByNode => ~Searching /\ no = cmd.target[1]
    /\ pc = "guidHi" => Present(no) /\ lo = Guid[DeviceAt(no)][2]
    /\ Loading /\ Present(no) => DeviceAt(no) \in Meant

(* How far each device is filled.                                           *)
Filling ==
  cmd.op = "poke" /\ resets = 0 =>
    \A d \in Devices :
      /\ Searching => Filled(d, 0)
      /\ Loading => Filled(d, IF Present(no) /\ d = DeviceAt(no) THEN cur ELSE 0)
      /\ \E k \in 0..cmd.len : Filled(d, k) /\ (d \notin Meant => k = 0)

Labels == /\ pc \in {"guidLo", "guidHi", "take", "write", "peek", "ok", "failed"}
          /\ pc = "peek" => cmd.op # "poke"
          /\ Loading => cmd.op = "poke"
          /\ Searching /\ cmd.op = "poke" => cur = 0 /\ taken = 0

IInv == Types /\ Labels /\ Counts /\ InPlace /\ Aimed /\ Filling
-----------------------------------------------------------------------------
(* What bounds the rest of the state.                                       *)
Bounds ==
  /\ no \in 0..MaxNodes /\ (Searching => no < MaxNodes)
  /\ tries \in 0..Tries /\ sent - taken <= Room /\ changes \in Nat
  /\ mem \in [Devices -> [Units -> Nat]]

(* A pipe that is fed in multiples of a block gives whole blocks up to the  *)
(* last one, and the loop goes on only after a node has taken one.          *)
WholeBlocks ==
  cmd.op = "poke" /\ cmd.chunk % Step = 0 =>
    /\ sent % Step = 0 \/ sent = cmd.len
    /\ taken % Step = 0 \/ taken = cmd.len
    /\ closed => sent = cmd.len
    /\ pc = "write" => size = Step \/ taken = cmd.len
    /\ pc = "take" /\ cur > 0 /\ resets = 0 => Present(no)
    /\ pc = "ok" /\ cmd.len > 0 /\ resets = 0 => \E d \in Meant : Filled(d, cmd.len)

(* fw_peek has written all up to `cur', the older versions first.           *)
InBlocks(s) ==
  \A i, j \in 1..Len(s) : (i - 1) \div Step < (j - 1) \div Step => s[i] <= s[j]
Versions ==
  cmd.op = "peek" =>
    /\ \A d \in Devices : \A a \in Units : mem[d][a] = changes
    /\ cur % Step = 0 /\ (pc = "ok" => cur >= cmd.len)
    /\ out \in Seq(Nat) /\ Len(out) = IF cur < cmd.len THEN cur ELSE cmd.len
    /\ \A i \in 1..Len(out) : out[i] <= changes
    /\ InBlocks(out)
-----------------------------------------------------------------------------
LEMMA SmallerOfTwo ==
  ASSUME NEW a \in Nat, NEW b \in Nat
  PROVE  /\ Min({a, b}) \in Nat /\ Min({a, b}) <= a /\ Min({a, b}) <= b
         /\ Min({a, b}) \in {a, b}
<1>1. PICK m \in {a, b} : \A y \in {a, b} : m <= y
  BY SMT
<1> QED
  BY <1>1 DEF Min

LEMMA NumbersAreNumbers ==
  ASSUME Types
  PROVE  /\ cmd.op \in {"poke", "peek"} /\ cmd.len \in Nat /\ Step \in Nat \ {0}
         /\ bus \in Seq(Devices) /\ no \in Nat /\ cur \in Nat /\ size \in Nat /\ size <= Step
         /\ sent \in Nat /\ taken \in Nat /\ taken <= sent /\ sent <= cmd.len
<1>1. cmd.op \in {"poke", "peek"} /\ cmd.len \in Nat
  <2>1. cmd \in Cmds
    BY DEF Types
  <2> QED
    BY <2>1, FwTransferAssumption, Zenon
<1>2. Step \in Nat \ {0} /\ bus \in Seq(Devices)
  BY FwTransferAssumption DEF Types, Devices
<1> QED
  BY <1>1, <1>2 DEF Types

LEMMA PieceFits ==
  ASSUME Types, sent < cmd.len
  PROVE  /\ Min({cmd.chunk, cmd.len - sent}) \in Nat
         /\ Min({cmd.chunk, cmd.len - sent}) <= cmd.len - sent
<1>1. cmd.chunk \in Nat
  <2>1. cmd.chunk \in 1..Room
    <3>1. cmd \in Cmds
      BY DEF Types
    <3> QED
      BY <3>1, FwTransferAssumption, Zenon
  <2> QED
    BY <2>1
<1>2. cmd.len - sent \in Nat
  BY NumbersAreNumbers
<1> QED
  BY <1>1, <1>2, SmallerOfTwo

(* The block that was taken last goes to its place, and nowhere else.       *)
LEMMA BlockIsPut ==
  ASSUME Types, Counts, Labels, pc = "write", Present(no), mem' = Written
  PROVE  /\ DeviceAt(no) \in Devices
         /\ mem' \in [Devices -> [Units -> Nat]]
         /\ \A d \in Devices : \A a \in Units :
              mem'[d][a] = IF d = DeviceAt(no) /\ cur <= a /\ a < cur + size
                             THEN a + 1 ELSE mem[d][a]
<1>1. bus \in Seq(Devices) /\ no \in Nat /\ no < Len(bus)
  BY NumbersAreNumbers DEF Present
<1>2. DeviceAt(no) \in Devices
  BY <1>1 DEF DeviceAt
<1>3. cmd.op = "poke" /\ taken = cur + size /\ cur \in Nat /\ size \in Nat /\ cmd.len \in Nat
  BY NumbersAreNumbers DEF Counts, Labels, Loading
<1>4. mem \in [Devices -> [Units -> Nat]]
  BY <1>3 DEF Types
<1> DEFINE Block == [a \in Units |-> IF a \in cur..(cur + size - 1)
                           THEN taken - size + (a - cur) + 1 ELSE mem[DeviceAt(no)][a]]
<1>5. mem' = [mem EXCEPT ![DeviceAt(no)] = Block]
  <2>1. DOMAIN mem[DeviceAt(no)] = Units
    BY <1>2, <1>4
  <2> QED
    BY <2>1 DEF Written
<1>6. \A a \in Units : Block[a] = IF cur <= a /\ a < cur + size THEN a + 1
                                                             ELSE mem[DeviceAt(no)][a]
  BY <1>3 DEF Units
<1>7. Block \in [Units -> Nat]
  <2>1. ASSUME NEW a \in Units PROVE Block[a] \in Nat
    <3>1. a + 1 \in Nat /\ mem[DeviceAt(no)][a] \in Nat
      BY <1>2, <1>3, <1>4 DEF Units
    <3> HIDE DEF Block
    <3> QED
      BY <1>6, <3>1
  <2> QED
    BY <2>1
<1> HIDE DEF Block
<1> QED
  BY <1>2, <1>4, <1>5, <1>6, <1>7

(* A device is filled up to k after the step.                               *)
FilledNext(d, k) == \A a \in Units : mem'[d][a] = IF a < k THEN a + 1 ELSE 0

(* The block fits, and moves the end of the data by its size.               *)
LEMMA BlockFills ==
  ASSUME IInv, pc = "write", Present(no), mem' = Written, resets = 0
  PROVE  /\ cur + size \in 0..cmd.len
         /\ \A d \in Devices : FilledNext(d, IF d = DeviceAt(no) THEN cur + size ELSE 0)
<1>1. /\ cmd.op = "poke" /\ taken = cur + size /\ cur \in Nat /\ size \in Nat
      /\ cmd.len \in Nat /\ sent \in 0..cmd.len /\ taken \in 0..sent
  BY NumbersAreNumbers DEF IInv, Types, Counts, Labels, Loading
<1>2. \A d \in Devices : \A a \in Units :
        /\ mem'[d][a] = IF d = DeviceAt(no) /\ cur <= a /\ a < cur + size
                          THEN a + 1 ELSE mem[d][a]
        /\ mem[d][a] = IF a < (IF d = DeviceAt(no) THEN cur ELSE 0) THEN a + 1 ELSE 0
  BY BlockIsPut, <1>1 DEF IInv, Filling, Filled, Loading
<1>3. cur + size \in 0..cmd.len
  BY <1>1
<1>4. ASSUME NEW d \in Devices, NEW a \in Units
      PROVE  mem'[d][a] = IF a < (IF d = DeviceAt(no) THEN cur + size ELSE 0) THEN a + 1 ELSE 0
  <2>1. a \in Nat
    BY <1>1 DEF Units
  <2>2. CASE d = DeviceAt(no)
    BY <1>1, <1>2, <2>1, <2>2
  <2>3. CASE d # DeviceAt(no)
    BY <1>2, <2>1, <2>3
  <2> QED
    BY <2>2, <2>3
<1> QED
  BY <1>3, <1>4 DEF FilledNext
-----------------------------------------------------------------------------
LEMMA InvInit == Init => IInv
<1> SUFFICES ASSUME Init PROVE IInv
  OBVIOUS
<1>1. /\ cmd \in Cmds /\ cmd.op \in {"poke", "peek"} /\ cmd.len \in Nat
      /\ ByNode => cmd.target[1] \in Nat
      /\ bus \in Seq(Devices)
  <2>1. cmd \in Cmds /\ bus \in Buses
    BY DEF Init
  <2>2. cmd.op \in {"poke", "peek"} /\ cmd.len \in Nat /\ (ByNode => cmd.target[1] \in 0..MaxNodes)
    BY <2>1, FwTransferAssumption, Zenon DEF ByNode
  <2>3. bus \in Seq(Devices)
    BY <2>1, FwTransferAssumption DEF Devices
  <2> QED
    BY <2>1, <2>2, <2>3
<1>2. /\ mem \in [Devices -> [Units -> Nat]]
      /\ \A d \in Devices : \A a \in Units : mem[d][a] = 0
  BY <1>1 DEF Init, Units
<1>3. Types
  BY <1>1, <1>2, FwTransferAssumption DEF Init, Types
<1>4. Labels /\ Counts
  BY <1>1 DEF Init, Labels, Counts, Loop, Searching, Loading
<1>5. InPlace
  BY <1>2 DEF InPlace
<1>6. Aimed
  <2>1. ByNode => ~Searching /\ no = cmd.target[1]
    BY DEF Init, Searching, Loop
  <2>2. pc # "guidHi" /\ (Loading => ByNode)
    BY DEF Init, Loading, Loop
  <2>3. ASSUME ByNode, Present(no) PROVE DeviceAt(no) \in Meant
    <3>1. no \in Nat /\ no + 1 \in 1..Len(bus) /\ no = cmd.target[1]
      BY <1>1, <2>1, <2>3 DEF Present
    <3>2. DeviceAt(no) \in Devices
      BY <1>1, <3>1 DEF DeviceAt
    <3> QED
      BY <2>3, <3>1, <3>2 DEF Meant, DeviceAt
  <2> QED
    BY <2>1, <2>2, <2>3 DEF Aimed
<1>7. Filling
  <2>1. \A d \in Devices : Filled(d, 0)
    BY <1>2 DEF Filled, Units
  <2>2. cur = 0 /\ 0 \in 0..cmd.len
    BY <1>1 DEF Init
  <2> QED
    BY <2>1, <2>2 DEF Filling
<1> QED
  BY <1>3, <1>4, <1>5, <1>6, <1>7 DEF IInv

(* What a step that writes nothing and leaves the search alone has to keep. *)
LEMMA MemoryStays ==
  ASSUME IInv, UNCHANGED <<cmd, no, lo, bus, resets, mem>>,
         \/ pc' = pc /\ cur' = cur
         \/ pc' \in {"ok", "failed"}
         \/ pc = "take" /\ pc' = "write" /\ cur' = cur
         \/ cmd.op # "poke" /\ pc' = pc
  PROVE  (InPlace /\ Aimed /\ Filling)'
<1>1. Loading' => Loading /\ cur' = cur
  BY DEF Loading, IInv, Labels
<1>2. Searching' => Searching /\ pc' = pc
  BY DEF Searching
<1>3. InPlace'
  BY DEF IInv, InPlace, Units, Devices
<1>4. Aimed'
  BY <1>1, <1>2 DEF IInv, Aimed, ByNode, Present, DeviceAt, Meant, Searching
<1>5. Filling'
  BY <1>1, <1>2 DEF IInv, Filling, Filled, Units, Present, DeviceAt, Meant, ByNode
<1> QED
  BY <1>3, <1>4, <1>5

(* A block that is written, whether fw_poke learns of it or not.            *)
LEMMA BlockKeeps ==
  ASSUME IInv, pc = "write", Present(no), mem' = Written,
         UNCHANGED <<cmd, no, lo, bus, resets, size, sent, taken>>,
         \/ pc' \in {"ok", "failed"} /\ cur' = cur
         \/ pc' = "take" /\ size = Step /\ cur' = cur + Step
  PROVE  IInv'
<1>1. /\ cmd.op = "poke" /\ taken = cur + size /\ cur \in Nat /\ size \in Nat
      /\ Step \in Nat
  BY NumbersAreNumbers DEF IInv, Counts, Labels, Loading
<1>2. Types'
  <2>1. mem' \in [Devices -> [Units -> Nat]]
    BY BlockIsPut DEF IInv
  <2> QED
    BY <1>1, <2>1 DEF IInv, Types, Units, Devices
<1>3. (Labels /\ Counts)'
  BY <1>1 DEF Labels, Counts, Searching, Loading
<1>4. InPlace'
  <2>1. \A d \in Devices : \A a \in Units : mem[d][a] \in {0, a + 1}
    BY <1>1 DEF IInv, InPlace
  <2>2. \A d \in Devices : \A a \in Units : mem'[d][a] \in {0, a + 1}
    BY <2>1, BlockIsPut DEF IInv
  <2> QED
    BY <2>2 DEF InPlace, Units, Devices
<1>5. Aimed'
  BY DEF IInv, Aimed, ByNode, Present, DeviceAt, Meant, Searching, Loading
<1>6. Filling'
  <2> SUFFICES ASSUME resets = 0, NEW d \in Devices
               PROVE  /\ Loading' => FilledNext(d, IF Present(no) /\ d = DeviceAt(no) THEN cur' ELSE 0)
                      /\ \E k \in 0..cmd.len : FilledNext(d, k) /\ (d \notin Meant => k = 0)
    <3>1. ~Searching'
      BY DEF Searching
    <3> QED
      BY <3>1 DEF Filling, Filled, FilledNext, Units, Present, DeviceAt, Meant, ByNode, Devices
  <2> DEFINE end == IF d = DeviceAt(no) THEN cur + size ELSE 0
  <2>1. FilledNext(d, end) /\ cur + size \in 0..cmd.len
    BY BlockFills
  <2>2. Loading' => cur' = cur + size
    BY <1>1 DEF Loading
  <2>3. d \notin Meant => d # DeviceAt(no)
    BY DEF IInv, Aimed, Loading
  <2>4. end \in 0..cmd.len /\ (d \notin Meant => end = 0)
    BY <2>1, <2>3, NumbersAreNumbers DEF IInv
  <2> HIDE DEF end
  <2>5. \E k \in 0..cmd.len : FilledNext(d, k) /\ (d \notin Meant => k = 0)
    BY <2>1, <2>4
  <2>6. Loading' => FilledNext(d, IF Present(no) /\ d = DeviceAt(no) THEN cur' ELSE 0)
    BY <2>1, <2>2 DEF end
  <2> QED
    BY <2>5, <2>6
<1> QED
  BY <1>2, <1>3, <1>4, <1>5, <1>6 DEF IInv
-----------------------------------------------------------------------------
LEMMA InvStep == IInv /\ [Next]_vars => IInv'
<1> SUFFICES ASSUME IInv, [Next]_vars PROVE IInv'
  OBVIOUS
<1> USE DEF pipeVars, busVars, memVars
<1>0. /\ cmd.op \in {"poke", "peek"} /\ cmd.len \in Nat /\ Step \in Nat \ {0}
      /\ no \in Nat /\ cur \in Nat /\ size \in Nat /\ size <= Step /\ resets \in Nat
      /\ sent \in Nat /\ taken \in Nat /\ taken <= sent /\ sent <= cmd.len
  BY NumbersAreNumbers DEF IInv, Types
<1>1. CASE ReadLo
  <2>1. (Types /\ Labels /\ Counts /\ InPlace)'
    BY <1>1 DEF ReadLo, IInv, Types, Labels, Counts, InPlace, Searching, Loading, Units, Devices
  <2>2. Aimed'
    BY <1>1 DEF ReadLo, IInv, Aimed, Searching, Loading, ByNode, Present, DeviceAt
  <2>3. Filling'
    BY <1>1 DEF ReadLo, IInv, Filling, Filled, Searching, Loading, Units, Meant, ByNode
  <2> QED
    BY <2>1, <2>2, <2>3 DEF IInv
<1>2. CASE ReadHi
  <2>1. pc = "guidHi" /\ pc' \in {"guidLo", "failed", "take", "peek"}
        /\ (Loading' => pc' = "take" /\ no' = no /\ cmd.op = "poke" /\ cur = 0 /\ taken = 0
                        /\ <<Guid[DeviceAt(no)][1], lo>> = cmd.target)
        /\ (pc' = "peek" => cmd.op # "poke") /\ no' \in {no, no + 1}
    BY <1>2 DEF ReadHi, IInv, Labels, Loading, Loop, Searching
  <2>2. UNCHANGED <<cmd, lo, cur, size, sent, taken, bus, mem, resets>>
    BY <1>2 DEF ReadHi
  <2>3. (Types /\ Labels /\ Counts /\ InPlace)'
    BY <1>0, <2>1, <2>2 DEF IInv, Types, Labels, Counts, InPlace, Searching, Loading, Units, Devices
  <2>4. Aimed'
    <3> SUFFICES ASSUME resets = 0
                 PROVE  ~ByNode /\ (Loading' => DeviceAt(no) \in Meant)
      BY <2>1, <2>2 DEF Aimed, ByNode, Present, DeviceAt, Meant, Loading
    <3>1. ~ByNode /\ Present(no) /\ lo = Guid[DeviceAt(no)][2]
      BY <2>1 DEF IInv, Aimed, Searching
    <3>2. DeviceAt(no) \in Devices
      BY <3>1, NumbersAreNumbers DEF IInv, Present, DeviceAt
    <3>3. Guid[DeviceAt(no)] = <<Guid[DeviceAt(no)][1], Guid[DeviceAt(no)][2]>>
      BY <3>2, FwTransferAssumption, Zenon DEF Devices
    <3> QED
      BY <2>1, <3>1, <3>2, <3>3 DEF Meant
  <2>5. Filling'
    BY <1>0, <2>1, <2>2 DEF IInv, Filling, Filled, Searching, Loading, Units, Meant, ByNode
  <2> QED
    BY <2>3, <2>4, <2>5 DEF IInv
<1>3. CASE Feed
  <2>1. /\ sent' \in Nat /\ taken' <= sent' /\ sent' <= cmd.len
        /\ UNCHANGED <<cmd, pc, no, lo, cur, size, taken, bus, mem, resets>>
    <3>1. sent < cmd.len /\ sent' = sent + Min({cmd.chunk, cmd.len - sent})
      BY <1>3 DEF Feed
    <3>2. Min({cmd.chunk, cmd.len - sent}) \in Nat
          /\ Min({cmd.chunk, cmd.len - sent}) <= cmd.len - sent
      BY <3>1, PieceFits DEF IInv
    <3> QED
      BY <1>0, <1>3, <3>1, <3>2 DEF Feed
  <2>2. (Types /\ Labels /\ Counts)'
    BY <1>0, <2>1 DEF IInv, Types, Labels, Counts, Searching, Loading, Units
  <2>3. (InPlace /\ Aimed /\ Filling)'
    BY <2>1, <2>2, MemoryStays
  <2> QED
    BY <2>2, <2>3 DEF IInv
<1>4. CASE Close
  <2>1. (Types /\ Labels /\ Counts)'
    BY <1>4 DEF Close, IInv, Types, Labels, Counts, Searching, Loading, Units
  <2>2. (InPlace /\ Aimed /\ Filling)'
    BY <1>4, <2>1, MemoryStays DEF Close
  <2> QED
    BY <2>1, <2>2 DEF IInv
<1>5. CASE Take
  <2>1. UNCHANGED <<cmd, no, lo, cur, sent, bus, mem, resets>> /\ pc = "take"
    BY <1>5 DEF Take
  <2>2. \/ pc' = "write" /\ taken' = taken + size' /\ size' \in 0..Step /\ taken' <= sent
        \/ pc' = "ok" /\ UNCHANGED <<size, taken>>
    <3>1. CASE sent > taken /\ pc' = "write" /\ size' = Min({Step, sent - taken})
               /\ taken' = taken + size'
      <4>1. sent - taken \in Nat
        BY <1>0, <3>1
      <4> QED
        BY <1>0, <3>1, <4>1, SmallerOfTwo
    <3> QED
      BY <1>5, <3>1 DEF Take
  <2>3. taken = cur
    BY <2>1 DEF IInv, Counts, Labels, Loading
  <2>4. (Types /\ Labels /\ Counts)'
    BY <1>0, <2>1, <2>2, <2>3 DEF IInv, Types, Labels, Counts, Searching, Loading, Units
  <2>5. (InPlace /\ Aimed /\ Filling)'
    BY <2>1, <2>2, <2>4, MemoryStays
  <2> QED
    BY <2>4, <2>5 DEF IInv
<1>6. CASE WriteBlock
  <2>1. size # Step => size < Step
    BY <1>0
  <2> QED
    BY <1>0, <1>6, <2>1, BlockKeeps DEF WriteBlock
<1>7. CASE WriteFails
  <2>1. CASE Present(no) /\ mem' = Written
    BY <1>7, <2>1, BlockKeeps DEF WriteFails
  <2>2. CASE UNCHANGED mem
    <3>1. (Types /\ Labels /\ Counts)'
      BY <1>7, <2>2 DEF WriteFails, IInv, Types, Labels, Counts, Searching, Loading, Units
    <3>2. (InPlace /\ Aimed /\ Filling)'
      BY <1>7, <2>2, <3>1, MemoryStays DEF WriteFails
    <3> QED
      BY <3>1, <3>2 DEF IInv
  <2> QED
    BY <1>7, <2>1, <2>2 DEF WriteFails
<1>8. CASE PeekBlock
  <2>1. /\ pc = "peek" /\ cmd.op # "poke" /\ size' \in 0..Step /\ cur' \in Nat
        /\ UNCHANGED <<cmd, pc, no, lo, sent, taken, bus, mem, resets>>
    <3>1. cur < cmd.len /\ size' = Min({Step, cmd.len - cur}) /\ cur' = cur + Step
      BY <1>8 DEF PeekBlock
    <3>2. cmd.len - cur \in Nat
      BY <1>0, <3>1
    <3> QED
      BY <1>0, <1>8, <3>1, <3>2, SmallerOfTwo DEF PeekBlock, IInv, Labels
  <2>2. (Types /\ Labels /\ Counts)'
    BY <1>0, <2>1 DEF IInv, Types, Labels, Counts, Searching, Loading, Units
  <2>3. (InPlace /\ Aimed /\ Filling)'
    BY <2>1, <2>2, MemoryStays
  <2> QED
    BY <2>2, <2>3 DEF IInv
<1>9. CASE PeekRetry \/ PeekDone \/ TakeFails \/ Fails
  <2>1. /\ pc' = pc \/ pc' \in {"ok", "failed"}
        /\ UNCHANGED <<cmd, no, lo, cur, size, sent, taken, bus, mem, resets>>
    BY <1>9 DEF PeekRetry, PeekDone, TakeFails, Fails
  <2>2. (Types /\ Labels /\ Counts)'
    BY <2>1 DEF IInv, Types, Labels, Counts, Searching, Loading, Units
  <2>3. (InPlace /\ Aimed /\ Filling)'
    BY <2>1, <2>2, MemoryStays
  <2> QED
    BY <2>2, <2>3 DEF IInv
<1>10. CASE BusReset
  <2>1. resets' # 0
    BY <1>0, <1>10 DEF BusReset
  <2>2. (Types /\ Labels /\ Counts /\ InPlace)'
    BY <1>0, <1>10 DEF BusReset, IInv, Types, Labels, Counts, InPlace, Searching, Loading,
                       Units, Devices
  <2> QED
    BY <2>1, <2>2 DEF IInv, Aimed, Filling
<1>11. CASE MemoryChanges
  <2>1. cmd.op # "poke" /\ UNCHANGED <<cmd, pc, no, lo, cur, size, sent, taken, bus, resets>>
    BY <1>11 DEF MemoryChanges
  <2>3. (Types /\ Labels /\ Counts)'
    BY <2>1 DEF IInv, Types, Labels, Counts, Searching, Loading, Units, Devices
  <2>4. Aimed'
    BY <2>1 DEF IInv, Aimed, ByNode, Present, DeviceAt, Meant, Searching, Loading
  <2> QED
    BY <2>1, <2>3, <2>4 DEF IInv, InPlace, Filling
<1>12. CASE UNCHANGED vars
  <2>1. (Types /\ Labels /\ Counts)'
    BY <1>12 DEF vars, IInv, Types, Labels, Counts, Searching, Loading, Units, Devices
  <2>2. (InPlace /\ Aimed /\ Filling)'
    BY <1>12, <2>1, MemoryStays DEF vars
  <2> QED
    BY <2>1, <2>2 DEF IInv
<1> QED
  BY <1>1, <1>2, <1>3, <1>4, <1>5, <1>6, <1>7, <1>8, <1>9, <1>10, <1>11, <1>12
  DEF Next, Program, Script

(* The counts of the pipe and of the address agree, and the memory is       *)
(* filled as far as the loop of fw_poke has come.                           *)
THEOREM PokeInvariant == Spec => []IInv
<1> QED
  BY InvInit, InvStep, PTL DEF Spec

LEMMA InvGivesNoHoles == IInv => NoHoles
<1> SUFFICES ASSUME IInv, cmd.op = "poke" PROVE NoHoles
  BY DEF NoHoles
<1>1. \A d \in Devices : \A a \in 0..(cmd.len - 1) : mem[d][a] \in {0, a + 1}
  BY DEF IInv, InPlace, Units
<1>2. ASSUME resets = 0, NEW d \in Devices
      PROVE  \E k \in 0..cmd.len :
               /\ \A a \in 0..(cmd.len - 1) : mem[d][a] # 0 <=> a < k
               /\ d \notin Meant => k = 0
  <2>1. PICK k \in 0..cmd.len : Filled(d, k) /\ (d \notin Meant => k = 0)
    BY <1>2 DEF IInv, Filling
  <2>2. \A a \in 0..(cmd.len - 1) : mem[d][a] # 0 <=> a < k
    BY <2>1, NumbersAreNumbers DEF Filled, Units, IInv
  <2> QED
    BY <2>1, <2>2
<1> QED
  BY <1>1, <1>2 DEF NoHoles

(* What fw_poke (tools/fw_peek.cpp, main's loop) writes is in its place,    *)
(* and a first part of the data in the device that was meant, however the   *)
(* transfer ends and for every size of a block, a pipe and a bus.           *)
THEOREM WrittenInPlace == Spec => []NoHoles
<1> QED
  BY PokeInvariant, InvGivesNoHoles, PTL
-----------------------------------------------------------------------------
(* Division with a remainder.                                               *)
LEMMA DivMod ==
  ASSUME NEW n \in Nat, NEW s \in Nat \ {0}
  PROVE  n \div s \in Nat /\ n % s \in 0..(s - 1) /\ n = s * (n \div s) + (n % s)
OBVIOUS

LEMMA PartsAreUnique ==
  ASSUME NEW s \in Nat \ {0}, NEW p \in Nat, NEW q \in Nat,
         NEW r \in 0..(s - 1), NEW t \in 0..(s - 1), s * p + r = s * q + t
  PROVE  p = q /\ r = t
OBVIOUS

LEMMA SelfMultiple == ASSUME NEW s \in Nat \ {0} PROVE s % s = 0
<1> DEFINE r == s % s
           p == s \div s
<1>1. r \in 0..(s - 1) /\ p \in Nat /\ s * p + r = s * 1 + 0
  <2>1. r \in 0..(s - 1) /\ p \in Nat /\ s = s * p + r
    BY DivMod
  <2> QED
    BY <2>1
<1>2. 0 \in 0..(s - 1) /\ 1 \in Nat
  OBVIOUS
<1> HIDE DEF r, p
<1>3. r = 0
  BY <1>1, <1>2, PartsAreUnique
<1> QED
  BY <1>3 DEF r

LEMMA NextMultiple ==
  ASSUME NEW s \in Nat \ {0}, NEW p \in Nat, NEW q \in Nat, p < q
  PROVE  s * p + s <= s * q
<1>1. p + 1 <= q
  OBVIOUS
<1> QED
  BY <1>1

(* Multiples of a block: their sum, their distance, and the block a number  *)
(* below or above one belongs to.                                           *)
LEMMA Multiples ==
  ASSUME NEW s \in Nat \ {0}, NEW a \in Nat, a % s = 0, NEW b \in Nat, b % s = 0
  PROVE  (a + b) % s = 0 /\ (b < a => b + s <= a)
<1>1. a = s * (a \div s) /\ b = s * (b \div s) /\ a \div s \in Nat /\ b \div s \in Nat
  BY DivMod
<1>2. (a + b) % s = 0
  <2>1. a + b = s * (a \div s + b \div s) + 0 /\ a \div s + b \div s \in Nat
    BY <1>1
  <2>2. /\ a + b = s * ((a + b) \div s) + ((a + b) % s)
        /\ (a + b) \div s \in Nat /\ (a + b) % s \in 0..(s - 1)
    <3>1. a + b \in Nat
      OBVIOUS
    <3> QED
      BY <3>1, DivMod
  <2>3. 0 \in 0..(s - 1)
    OBVIOUS
  <2> DEFINE r == (a + b) % s
             p == (a + b) \div s
             q == a \div s + b \div s
  <2>4. r \in 0..(s - 1) /\ p \in Nat /\ q \in Nat /\ s * p + r = s * q + 0
    BY <2>1, <2>2
  <2> HIDE DEF r, p, q
  <2>5. r = 0
    BY <2>3, <2>4, PartsAreUnique
  <2> QED
    BY <2>5 DEF r
<1>3. ASSUME b < a PROVE b + s <= a
  <2>1. b \div s < a \div s
    <3>1. ASSUME a \div s <= b \div s PROVE FALSE
      <4>1. s * (a \div s) <= s * (b \div s)
        BY <1>1, <3>1
      <4> QED
        BY <1>1, <1>3, <4>1
    <3> QED
      BY <1>1, <3>1
  <2> QED
    BY <1>1, <2>1, NextMultiple
<1> QED
  BY <1>2, <1>3

LEMMA BlockOfNumber ==
  ASSUME NEW s \in Nat \ {0}, NEW a \in Nat, a % s = 0, NEW n \in Nat
  PROVE  /\ n < a => n \div s < a \div s
         /\ a <= n /\ n < a + s => n \div s = a \div s
<1>1. /\ a = s * (a \div s) /\ a \div s \in Nat
      /\ n = s * (n \div s) + (n % s) /\ n \div s \in Nat /\ n % s \in 0..(s - 1)
  BY DivMod
<1>2. ASSUME n < a PROVE n \div s < a \div s
  <2>1. ASSUME a \div s <= n \div s PROVE FALSE
    <3>1. s * (a \div s) <= s * (n \div s)
      BY <1>1, <2>1
    <3> QED
      BY <1>1, <1>2, <3>1
  <2> QED
    BY <1>1, <2>1
<1>3. ASSUME a <= n, n < a + s PROVE n \div s = a \div s
  <2>1. n - a \in 0..(s - 1) /\ n = s * (a \div s) + (n - a)
    BY <1>1, <1>3
  <2> QED
    BY <1>1, <2>1, PartsAreUnique
<1> QED
  BY <1>2, <1>3

-----------------------------------------------------------------------------
LEMMA BoundsInit == Init => Bounds
<1> SUFFICES ASSUME Init PROVE Bounds
  OBVIOUS
<1>1. cmd \in Cmds /\ cmd.len \in Nat /\ (ByNode => cmd.target[1] \in 0..MaxNodes)
  <2>1. cmd \in Cmds
    BY DEF Init
  <2> QED
    BY <2>1, FwTransferAssumption, Zenon DEF ByNode
<1>2. no \in 0..MaxNodes /\ (Searching => no < MaxNodes)
  BY <1>1, FwTransferAssumption DEF Init, Searching, Loop
<1>3. mem \in [Devices -> [Units -> Nat]]
  BY <1>1 DEF Init, Units
<1> QED
  BY <1>2, <1>3, FwTransferAssumption DEF Init, Bounds

LEMMA BoundsNext == IInv /\ Bounds /\ [Next]_vars => Bounds'
<1> SUFFICES ASSUME IInv, Bounds, [Next]_vars PROVE Bounds'
  OBVIOUS
<1> USE DEF pipeVars, busVars, memVars
<1>0. /\ cmd.len \in Nat /\ Step \in Nat \ {0} /\ Tries \in Nat /\ MaxNodes \in Nat /\ Room \in Nat
      /\ sent \in Nat /\ taken \in Nat /\ taken <= sent /\ tries \in Nat /\ no \in Nat
  BY NumbersAreNumbers, FwTransferAssumption DEF IInv, Bounds
<1>1. ASSUME UNCHANGED <<cmd, no, tries, sent, taken, mem, changes>>, Searching' => Searching
      PROVE  Bounds'
  BY <1>1 DEF Bounds, Units, Devices
<1>2. CASE UNCHANGED vars
  BY <1>1, <1>2 DEF vars, Searching
<1>3. CASE ReadLo \/ PeekDone \/ TakeFails \/ Fails \/ Close \/ BusReset
  BY <1>1, <1>3 DEF ReadLo, PeekDone, TakeFails, Fails, Close, BusReset, Searching
<1>4. CASE ReadHi
  <2>1. no < MaxNodes
    BY <1>4 DEF ReadHi, Bounds, Searching
  <2>2. no' \in 0..MaxNodes /\ (Searching' => no' < MaxNodes)
    BY <1>0, <1>4, <2>1 DEF ReadHi, Searching, Loop
  <2> QED
    BY <1>4, <2>2 DEF ReadHi, Bounds, Units, Devices
<1>5. CASE Feed
  <2> DEFINE piece == Min({cmd.chunk, cmd.len - sent})
  <2>1. /\ UNCHANGED <<cmd, pc, no, tries, taken, mem, changes>>
        /\ sent' = sent + piece /\ sent + piece - taken <= Room
    BY <1>5 DEF Feed
  <2>2. piece \in Nat
    BY <1>5, PieceFits DEF IInv, Feed
  <2> HIDE DEF piece
  <2>3. sent' - taken <= Room
    BY <1>0, <2>1, <2>2
  <2> QED
    BY <2>1, <2>3 DEF Bounds, Units, Devices, Searching
<1>6. CASE Take
  <2>1. /\ UNCHANGED <<cmd, no, tries, sent, mem, changes>> /\ ~Searching'
        /\ \/ taken' = taken + Min({Step, sent - taken}) /\ sent - taken \in Nat
           \/ taken' = taken
    BY <1>0, <1>6 DEF Take, Searching
  <2>2. sent - taken \in Nat => Min({Step, sent - taken}) \in Nat
    BY <1>0, SmallerOfTwo
  <2>3. sent - taken' <= Room
    BY <1>0, <2>1, <2>2 DEF Bounds
  <2> QED
    BY <2>1, <2>3 DEF Bounds, Units, Devices
<1>7. CASE WriteBlock \/ WriteFails
  <2>1. UNCHANGED <<cmd, no, tries, sent, taken, changes>> /\ ~Searching'
    BY <1>7 DEF WriteBlock, WriteFails, Searching
  <2>2. mem' \in [Devices -> [Units -> Nat]]
    <3>1. CASE UNCHANGED mem
      BY <3>1 DEF Bounds
    <3>2. CASE pc = "write" /\ Present(no) /\ mem' = Written
      BY <3>2, BlockIsPut DEF IInv
    <3> QED
      BY <1>7, <3>1, <3>2 DEF WriteBlock, WriteFails
  <2> QED
    BY <2>1, <2>2 DEF Bounds, Units, Devices
<1>8. CASE PeekBlock \/ PeekRetry
  <2>1. UNCHANGED <<cmd, pc, no, sent, taken, mem, changes>> /\ tries' \in 0..Tries
    BY <1>0, <1>8 DEF PeekBlock, PeekRetry, Bounds
  <2> QED
    BY <2>1 DEF Bounds, Units, Devices, Searching
<1>9. CASE MemoryChanges
  <2>1. /\ UNCHANGED <<cmd, pc, no, tries, sent, taken>> /\ changes' \in Nat
        /\ mem' = [d \in Devices |-> [a \in DOMAIN mem[d] |-> changes']]
    BY <1>9 DEF MemoryChanges, Bounds
  <2>2. \A d \in Devices : DOMAIN mem[d] = Units
    BY DEF Bounds
  <2> QED
    BY <2>1, <2>2 DEF Bounds, Units, Devices, Searching
<1> QED
  BY <1>2, <1>3, <1>4, <1>5, <1>6, <1>7, <1>8, <1>9 DEF Next, Program, Script

(* Every variable stays in its range: the pipe never holds more than it can *)
(* and no node number above the last one is tried.                          *)
THEOREM TypeCorrect == Spec => []TypeOK
<1>1. Spec => [](IInv /\ Bounds)
  BY PokeInvariant, BoundsInit, BoundsNext, PTL DEF Spec
<1>2. IInv /\ Bounds => TypeOK
  BY DEF IInv, Types, Labels, Bounds, TypeOK, Units
<1> QED
  BY <1>1, <1>2, PTL
-----------------------------------------------------------------------------
(* A fw_poke that succeeds.                                                 *)
LEMMA WholeInit == Init => WholeBlocks
<1> SUFFICES ASSUME Init PROVE WholeBlocks
  OBVIOUS
<1>1. 0 % Step = 0
  BY FwTransferAssumption
<1>2. pc \notin {"write", "ok"}
  BY DEF Init, Loop
<1> QED
  BY <1>1, <1>2 DEF Init, WholeBlocks

(* What read() takes is a block, or the rest of the data.                   *)
LEMMA TakesBlock ==
  ASSUME Types, sent > taken, taken % Step = 0, sent % Step = 0 \/ sent = cmd.len
  PROVE  LET n == Min({Step, sent - taken})
         IN /\ n = Step \/ taken + n = cmd.len
            /\ (taken + n) % Step = 0 \/ taken + n = cmd.len
<1> DEFINE n == Min({Step, sent - taken})
<1>1. /\ Step \in Nat \ {0} /\ sent \in Nat /\ taken \in Nat /\ sent - taken \in Nat
      /\ n \in {Step, sent - taken} /\ n <= Step
  <2>1. Step \in Nat \ {0} /\ sent \in Nat /\ taken \in Nat /\ sent - taken \in Nat
    BY NumbersAreNumbers
  <2> QED
    BY <2>1, SmallerOfTwo
<1>2. (taken + Step) % Step = 0
  <2>1. Step % Step = 0
    BY <1>1, SelfMultiple
  <2> QED
    BY <1>1, <2>1, Multiples
<1>3. CASE n = Step
  BY <1>2, <1>3
<1>4. CASE n = sent - taken /\ n < Step
  <2>1. taken + n = sent
    BY <1>1, <1>4
  <2>2. sent % Step # 0
    <3>1. ASSUME sent % Step = 0 PROVE taken + Step <= sent
      BY <1>1, <3>1, Multiples
    <3>2. ~(taken + Step <= sent)
      BY <1>1, <1>4
    <3> QED
      BY <3>1, <3>2
  <2> QED
    BY <2>1, <2>2
<1> QED
  BY <1>1, <1>3, <1>4

LEMMA CmdStays == [Next]_vars => cmd' = cmd
<1>1. ReadLo \/ ReadHi \/ Take \/ WriteBlock \/ WriteFails => cmd' = cmd
  BY DEF ReadLo, ReadHi, Take, WriteBlock, WriteFails
<1>2. PeekBlock \/ PeekRetry \/ PeekDone \/ Fails \/ TakeFails => cmd' = cmd
  BY DEF PeekBlock, PeekRetry, PeekDone, Fails, TakeFails
<1>3. Feed \/ Close \/ BusReset \/ MemoryChanges \/ UNCHANGED vars => cmd' = cmd
  BY DEF Feed, Close, BusReset, MemoryChanges, vars
<1> QED
  BY <1>1, <1>2, <1>3 DEF Next, Program, Script

LEMMA WholeNext == IInv /\ WholeBlocks /\ [Next]_vars => WholeBlocks'
<1> SUFFICES ASSUME IInv, WholeBlocks, [Next]_vars, cmd.op = "poke", cmd.chunk % Step = 0, cmd' = cmd
             PROVE  WholeBlocks'
  BY CmdStays DEF WholeBlocks
<1> USE DEF pipeVars, busVars, memVars
<1>0. /\ cmd.len \in Nat /\ Step \in Nat \ {0} /\ cur \in Nat /\ size \in Nat /\ size <= Step
      /\ sent \in Nat /\ taken \in Nat /\ taken <= sent /\ sent <= cmd.len /\ resets \in Nat
  BY NumbersAreNumbers DEF IInv, Types
<1>1. ASSUME UNCHANGED <<sent, closed, taken, size, cur, bus, resets, no, mem>>,
             pc' = pc \/ pc' \notin {"write", "take", "ok"}
      PROVE  WholeBlocks'
  BY <1>1 DEF WholeBlocks, Present, Filled, Units, Meant, ByNode
<1>2. CASE UNCHANGED vars
  BY <1>1, <1>2 DEF vars
<1>3. CASE ReadLo \/ TakeFails \/ Fails
  BY <1>1, <1>3 DEF ReadLo, TakeFails, Fails
<1>4. CASE ReadHi
  <2>1. /\ UNCHANGED <<sent, closed, taken, size, cur, bus, resets, mem>> /\ cur = 0
        /\ pc' \notin {"write", "ok"}
    BY <1>4 DEF ReadHi, IInv, Labels, Searching, Loop
  <2> QED
    BY <2>1 DEF WholeBlocks
<1>5. CASE Feed
  <2> DEFINE piece == Min({cmd.chunk, cmd.len - sent})
  <2>1. sent < cmd.len /\ sent' = sent + piece
        /\ UNCHANGED <<pc, closed, taken, size, cur, bus, resets, no, mem>>
    BY <1>5 DEF Feed
  <2>2. cmd.chunk \in Nat
    <3>1. cmd \in Cmds
      BY DEF IInv, Types
    <3>2. cmd.chunk \in 1..Room
      BY <3>1, FwTransferAssumption, Zenon
    <3> QED
      BY <3>2
  <2>3. piece \in {cmd.chunk, cmd.len - sent}
    <3>1. cmd.len - sent \in Nat
      BY <1>0, <2>1
    <3> QED
      BY <2>2, <3>1, SmallerOfTwo
  <2> HIDE DEF piece
  <2>4. sent % Step = 0 /\ ~closed
    BY <1>0, <2>1 DEF WholeBlocks
  <2>5. sent' % Step = 0 \/ sent' = cmd.len
    <3>1. (sent + cmd.chunk) % Step = 0
      BY <1>0, <2>2, <2>4, Multiples
    <3>2. CASE piece = cmd.chunk
      BY <2>1, <3>1, <3>2
    <3>3. CASE piece = cmd.len - sent
      BY <1>0, <2>1, <3>3
    <3> QED
      BY <2>3, <3>2, <3>3
  <2> QED
    BY <2>1, <2>4, <2>5 DEF WholeBlocks, Present, Filled, Units, Meant, ByNode
<1>6. CASE Close
  BY <1>6 DEF Close, WholeBlocks, Present, Filled, Units, Meant, ByNode
<1>7. CASE Take
  <2>1. pc = "take" /\ UNCHANGED <<sent, closed, cur, bus, resets, no, mem>>
    BY <1>7 DEF Take
  <2>2. CASE sent > taken /\ pc' = "write" /\ size' = Min({Step, sent - taken})
             /\ taken' = taken + size'
    <3>1. taken % Step = 0 /\ (sent % Step = 0 \/ sent = cmd.len)
      BY <1>0, <2>2 DEF WholeBlocks
    <3>2. /\ size' = Step \/ taken' = cmd.len
          /\ taken' % Step = 0 \/ taken' = cmd.len
      BY <2>2, <3>1, TakesBlock DEF IInv
    <3> QED
      BY <2>1, <2>2, <3>2 DEF WholeBlocks
  <2>3. CASE sent = taken /\ closed /\ pc' = "ok" /\ UNCHANGED <<size, taken>>
    <3>1. taken = cmd.len /\ cur = taken
      BY <2>1, <2>3 DEF WholeBlocks, IInv, Counts
    <3>2. ASSUME cmd.len > 0, resets = 0 PROVE \E d \in Meant : Filled(d, cmd.len)
      <4>1. Present(no)
        BY <2>1, <3>1, <3>2 DEF WholeBlocks
      <4>2. DeviceAt(no) \in Meant
        BY <2>1, <3>2, <4>1 DEF IInv, Aimed, Loading
      <4>3. Filled(DeviceAt(no), cur)
        BY <2>1, <3>2, <4>1, <4>2 DEF IInv, Filling, Loading, Meant
      <4> QED
        BY <3>1, <4>2, <4>3
    <3> QED
      BY <2>1, <2>3, <3>1, <3>2 DEF WholeBlocks, Filled, Units, Meant, ByNode
  <2> QED
    BY <1>7, <2>2, <2>3 DEF Take
<1>8. CASE WriteBlock
  <2>1. /\ pc = "write" /\ Present(no) /\ mem' = Written
        /\ UNCHANGED <<sent, closed, taken, size, bus, resets, no>>
        /\ pc' = "take" \/ (pc' = "ok" /\ size < Step)
    BY <1>8 DEF WriteBlock
  <2>2. ASSUME pc' = "ok", resets = 0 PROVE \E d \in Meant : FilledNext(d, cmd.len)
    <3>1. taken = cmd.len /\ cur + size = taken
      BY <1>0, <2>1, <2>2 DEF WholeBlocks, IInv, Counts
    <3>2. DeviceAt(no) \in Meant
      BY <2>1, <2>2 DEF IInv, Aimed, Loading
    <3>3. FilledNext(DeviceAt(no), cur + size)
      BY <2>1, <2>2, <3>2, BlockFills DEF Meant
    <3> QED
      BY <3>1, <3>2, <3>3
  <2> QED
    BY <2>1, <2>2 DEF WholeBlocks, Filled, FilledNext, Units, Meant, ByNode, Present
<1>9. CASE WriteFails
  BY <1>9 DEF WriteFails, WholeBlocks
<1>10. CASE PeekBlock \/ PeekRetry \/ PeekDone \/ MemoryChanges
  <2>1. cmd.op # "poke"
    BY <1>10 DEF PeekBlock, PeekRetry, PeekDone, MemoryChanges, IInv, Labels
  <2> QED
    BY <2>1
<1>11. CASE BusReset
  <2>1. UNCHANGED <<pc, sent, closed, taken, size>> /\ resets' # 0
    BY <1>0, <1>11 DEF BusReset
  <2> QED
    BY <2>1 DEF WholeBlocks
<1> QED
  BY <1>2, <1>3, <1>4, <1>5, <1>6, <1>7, <1>8, <1>9, <1>10, <1>11 DEF Next, Program, Script

(* A fw_poke that is fed whole blocks and reports success has written all   *)
(* of the data to the node that was meant, for every length, block size and *)
(* pipe, if no reset of the bus came in between.                            *)
THEOREM SuccessMeansComplete == Spec => []SuccessIsComplete
<1>1. Spec => [](IInv /\ WholeBlocks)
  BY PokeInvariant, WholeInit, WholeNext, PTL DEF Spec
<1>2. IInv /\ WholeBlocks => SuccessIsComplete
  <2> SUFFICES ASSUME IInv, WholeBlocks, pc = "ok", cmd.op = "poke", cmd.len > 0,
                      cmd.chunk % Step = 0, resets = 0
               PROVE  \E d \in Meant : \A a \in 0..(cmd.len - 1) : mem[d][a] = a + 1
    BY DEF SuccessIsComplete
  <2>1. PICK d \in Meant : Filled(d, cmd.len)
    BY DEF WholeBlocks
  <2>2. \A a \in 0..(cmd.len - 1) : a < cmd.len
    BY NumbersAreNumbers DEF IInv
  <2> QED
    BY <2>1, <2>2 DEF Filled, Units
<1> QED
  BY <1>1, <1>2, PTL
-----------------------------------------------------------------------------
(* A fw_peek.                                                               *)
LEMMA VersionsInit == Init => Versions
<1> SUFFICES ASSUME Init, cmd.op = "peek" PROVE Versions
  BY DEF Versions
<1>1. cmd.len \in Nat
  <2>1. cmd \in Cmds
    BY DEF Init
  <2> QED
    BY <2>1, FwTransferAssumption, Zenon
<1>2. 0 % Step = 0 /\ pc # "ok"
  BY FwTransferAssumption DEF Init, Loop
<1>3. \A d \in Devices : \A a \in Units : mem[d][a] = changes
  BY DEF Init, Units
<1>4. out = <<>> /\ out \in Seq(Nat) /\ Len(out) = 0 /\ cur = 0
  BY DEF Init
<1> QED
  BY <1>1, <1>2, <1>3, <1>4 DEF Versions, InBlocks

(* The next block, all of one version that is not older than what there is. *)
LEMMA BlocksGrow ==
  ASSUME NEW s \in Seq(Nat), Len(s) % Step = 0, NEW n \in Nat, n <= Step, NEW v \in Nat,
         NEW block, block = [k \in 1..n |-> v],
         InBlocks(s), \A i \in 1..Len(s) : s[i] <= v
  PROVE  /\ s \o block \in Seq(Nat) /\ Len(s \o block) = Len(s) + n
         /\ InBlocks(s \o block)
         /\ \A i \in 1..Len(s \o block) : (s \o block)[i] <= v
<1>1. block \in Seq(Nat) /\ Len(block) = n /\ \A k \in 1..n : block[k] = v
  OBVIOUS
<1>2. s \o block \in Seq(Nat) /\ Len(s \o block) = Len(s) + n /\ Len(s) \in Nat
  BY <1>1
<1>3. \A i \in 1..(Len(s) + n) : (s \o block)[i] = IF i <= Len(s) THEN s[i] ELSE v
  BY <1>1
<1> DEFINE t == s \o block
<1> HIDE DEF t
<1>4. ASSUME NEW i \in 1..(Len(s) + n), NEW j \in 1..(Len(s) + n)
      PROVE  (i - 1) \div Step < (j - 1) \div Step => t[i] <= t[j]
  <2>1. /\ t[i] = IF i <= Len(s) THEN s[i] ELSE v
        /\ t[j] = IF j <= Len(s) THEN s[j] ELSE v
    BY <1>3 DEF t
  <2>2. ASSUME NEW x \in 1..(Len(s) + n), NEW y \in 1..(Len(s) + n), x <= Len(s), Len(s) < y
        PROVE  /\ (x - 1) \div Step < (y - 1) \div Step
               /\ (x - 1) \div Step \in Nat /\ (y - 1) \div Step \in Nat
    <3>1. /\ x - 1 \in Nat /\ y - 1 \in Nat /\ x - 1 < Len(s) /\ Len(s) <= y - 1
          /\ y - 1 < Len(s) + Step /\ Step \in Nat \ {0}
      BY <1>2, <2>2, FwTransferAssumption, SMTT(30)
    <3>2. (x - 1) \div Step < Len(s) \div Step
      BY <1>2, <3>1, BlockOfNumber
    <3>3. (y - 1) \div Step = Len(s) \div Step
      BY <1>2, <3>1, BlockOfNumber
    <3>4. Len(s) \div Step \in Nat /\ (x - 1) \div Step \in Nat
      BY <1>2, <3>1, DivMod
    <3> QED
      BY <3>2, <3>3, <3>4
  <2>3. CASE i <= Len(s) /\ j <= Len(s)
    <3>1. i \in 1..Len(s) /\ j \in 1..Len(s)
      BY <1>2, <2>3
    <3> QED
      BY <2>1, <2>3, <3>1 DEF InBlocks
  <2>4. CASE i <= Len(s) /\ ~(j <= Len(s))
    <3>1. Len(s) < j /\ i \in 1..Len(s)
      BY <1>2, <2>4
    <3> QED
      BY <2>1, <2>4, <3>1
  <2>5. CASE ~(i <= Len(s)) /\ j <= Len(s)
    <3>1. Len(s) < i /\ ~(i <= j)
      BY <1>2, <2>5
    <3>2. /\ (j - 1) \div Step < (i - 1) \div Step
          /\ (i - 1) \div Step \in Nat /\ (j - 1) \div Step \in Nat
      BY <2>2, <2>5, <3>1
    <3> QED
      BY <3>2
  <2>6. CASE ~(i <= Len(s)) /\ ~(j <= Len(s))
    BY <2>1, <2>6
  <2> QED
    BY <2>3, <2>4, <2>5, <2>6
<1>5. InBlocks(s \o block)
  BY <1>2, <1>4 DEF InBlocks, t
<1>6. \A i \in 1..(Len(s) + n) : (s \o block)[i] <= v
  BY <1>2, <1>3
<1> QED
  BY <1>2, <1>5, <1>6

LEMMA EndOfBlock ==
  ASSUME NEW c \in Nat, NEW l \in Nat, c < l, NEW s \in Nat, NEW n \in Nat,
         n <= s, n <= l - c, n \in {s, l - c}
  PROVE  c + n = IF c + s < l THEN c + s ELSE l
OBVIOUS

LEMMA VersionsNext == IInv /\ Bounds /\ Versions /\ [Next]_vars => Versions'
<1> SUFFICES ASSUME IInv, Bounds, Versions, [Next]_vars, cmd.op = "peek", cmd' = cmd
             PROVE  Versions'
  BY CmdStays DEF Versions
<1> USE DEF pipeVars, busVars, memVars
<1>0. /\ cmd.len \in Nat /\ Step \in Nat \ {0} /\ cur \in Nat /\ changes \in Nat
      /\ bus \in Seq(Devices) /\ no \in Nat
  BY NumbersAreNumbers DEF IInv, Bounds
<1>1. ASSUME UNCHANGED <<cur, out, mem, changes>>, pc' = pc \/ pc' # "ok"
      PROVE  Versions'
  BY <1>1 DEF Versions, Units, Devices
<1>2. CASE UNCHANGED vars
  BY <1>1, <1>2 DEF vars
<1>3. CASE ReadLo \/ ReadHi \/ Fails \/ TakeFails \/ PeekRetry \/ BusReset
  <2>1. Loop # "ok"
    BY DEF Loop
  <2> QED
    BY <1>1, <1>3, <2>1 DEF ReadLo, ReadHi, Fails, TakeFails, PeekRetry, BusReset
<1>4. CASE Feed \/ Close \/ Take \/ WriteBlock \/ WriteFails
  <2>1. cmd.op = "poke"
    BY <1>4 DEF Feed, Close, Take, WriteBlock, WriteFails, IInv, Labels, Loading
  <2> QED
    BY <2>1
<1>5. CASE PeekBlock
  <2> DEFINE n == Min({Step, cmd.len - cur})
  <2>1. /\ cur < cmd.len /\ Present(no) /\ out' = out \o BlockOf(n) /\ cur' = cur + Step
        /\ pc = "peek" /\ pc' = "peek" /\ UNCHANGED <<mem, changes>>
    BY <1>5 DEF PeekBlock
  <2>2. n \in Nat /\ n <= Step /\ n <= cmd.len - cur /\ n \in {Step, cmd.len - cur}
    <3>1. cmd.len - cur \in Nat
      BY <1>0, <2>1
    <3> QED
      BY <1>0, <3>1, SmallerOfTwo
  <2> HIDE DEF n
  <2>3. BlockOf(n) = [k \in 1..n |-> changes]
    <3>1. DeviceAt(no) \in Devices
      BY <1>0, <2>1 DEF Present, DeviceAt
    <3>2. \A k \in 1..n : cur + k - 1 \in Units
      BY <1>0, <2>1, <2>2 DEF Units
    <3>3. \A k \in 1..n : mem[DeviceAt(no)][cur + k - 1] = changes
      BY <3>1, <3>2 DEF Versions
    <3> QED
      BY <3>3 DEF BlockOf
  <2>4. /\ out \in Seq(Nat) /\ Len(out) = cur /\ cur % Step = 0 /\ InBlocks(out)
        /\ \A i \in 1..Len(out) : out[i] <= changes
    BY <2>1 DEF Versions
  <2> DEFINE next == out \o BlockOf(n)
  <2>5. /\ next \in Seq(Nat) /\ Len(next) = cur + n /\ InBlocks(next)
        /\ \A i \in 1..Len(next) : next[i] <= changes
    <3> DEFINE block == BlockOf(n)
    <3>1. /\ out \in Seq(Nat) /\ Len(out) % Step = 0 /\ n \in Nat /\ n <= Step /\ changes \in Nat
          /\ block = [k \in 1..n |-> changes]
          /\ InBlocks(out) /\ \A i \in 1..Len(out) : out[i] <= changes
      BY <1>0, <2>2, <2>3, <2>4
    <3> HIDE DEF block
    <3>2. /\ out \o block \in Seq(Nat) /\ Len(out \o block) = Len(out) + n
          /\ InBlocks(out \o block)
          /\ \A i \in 1..Len(out \o block) : (out \o block)[i] <= changes
      BY ONLY <3>1, BlocksGrow
    <3> QED
      BY <2>4, <3>2 DEF block
  <2> HIDE DEF next
  <2>6. cur' % Step = 0
    <3>1. Step % Step = 0
      BY <1>0, SelfMultiple
    <3> QED
      BY <1>0, <2>1, <2>4, <3>1, Multiples
  <2>7. cur + n = IF cur' < cmd.len THEN cur' ELSE cmd.len
    <3>1. cur + n = IF cur + Step < cmd.len THEN cur + Step ELSE cmd.len
      <4>1. /\ cur \in Nat /\ cmd.len \in Nat /\ cur < cmd.len /\ Step \in Nat
            /\ n \in Nat /\ n <= Step /\ n <= cmd.len - cur /\ n \in {Step, cmd.len - cur}
        BY <1>0, <2>1, <2>2
      <4> QED
        BY ONLY <4>1, EndOfBlock
    <3> QED
      BY <2>1, <3>1
  <2>8. out' = next
    BY <2>1 DEF next
  <2>9. /\ out' \in Seq(Nat) /\ Len(out') = IF cur' < cmd.len THEN cur' ELSE cmd.len
        /\ InBlocks(out)' /\ \A i \in 1..Len(out') : out'[i] <= changes
    BY <2>5, <2>7, <2>8 DEF InBlocks
  <2>10. \A d \in Devices : \A a \in Units : mem'[d][a] = changes
    BY <2>1 DEF Versions
  <2> QED
    BY <2>1, <2>6, <2>9, <2>10 DEF Versions, Units, Devices
<1>6. CASE PeekDone
  BY <1>6 DEF PeekDone, Versions, Units, Devices
<1>7. CASE MemoryChanges
  <2>1. /\ UNCHANGED <<pc, cur, out>> /\ changes' = changes + 1
        /\ mem' = [d \in Devices |-> [a \in DOMAIN mem[d] |-> changes']]
    BY <1>7 DEF MemoryChanges
  <2>2. \A d \in Devices : DOMAIN mem[d] = Units
    BY DEF Bounds
  <2>3. \A d \in Devices : \A a \in Units : mem'[d][a] = changes'
    BY <2>1, <2>2
  <2>4. \A i \in 1..Len(out) : out[i] <= changes'
    <3>1. \A i \in 1..Len(out) : out[i] \in Nat /\ out[i] <= changes
      BY DEF Versions
    <3> QED
      BY <1>0, <2>1, <3>1
  <2> QED
    BY <2>1, <2>3, <2>4 DEF Versions, Units, Devices
<1> QED
  BY <1>2, <1>3, <1>4, <1>5, <1>6, <1>7 DEF Next, Program, Script

(* What fw_peek prints is as long as was asked for, and no block shows an   *)
(* older memory than a block before it, for every length and block size,    *)
(* however the memory changes and transactions fail meanwhile.              *)
THEOREM ReadsAreComplete == Spec => []PeekShowsMemory
<1>1. Spec => [](IInv /\ Bounds /\ Versions)
  BY PokeInvariant, BoundsInit, BoundsNext, VersionsInit, VersionsNext, PTL DEF Spec
<1>2. IInv /\ Versions => PeekShowsMemory
  <2> SUFFICES ASSUME IInv, Versions, cmd.op = "peek", pc = "ok" PROVE PeekShowsMemory
    BY DEF PeekShowsMemory
  <2>1. cur >= cmd.len /\ cur \in Nat /\ cmd.len \in Nat
    BY NumbersAreNumbers DEF Versions, IInv
  <2> QED
    BY <2>1 DEF PeekShowsMemory, Versions, InBlocks
<1> QED
  BY <1>1, <1>2, PTL
=============================================================================
