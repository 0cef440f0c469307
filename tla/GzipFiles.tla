----------------------------- MODULE GzipFiles ------------------------------
(***************************************************************************)
(* The inputs of Inflate: gzip files made by a reference encoder, written  *)
(* after RFC 1951 and RFC 1952 and not after the decompressor, so that the *)
(* two can disagree.                                                       *)
(***************************************************************************)
EXTENDS Naturals, Sequences, SequencesExt, FiniteSetsExt

(* Instead of the CRC, some function of the bytes, taken in pieces.         *)
Check(s) ==
  LET step(h, b) == (31 * h + b + 1) % 16777213
      piece(k)   == FoldLeft(step, k, SubSeq(s, 32 * k + 1, Min({32 * k + 32, Len(s)})))
  IN FoldLeft(LAMBDA h, k : step(h, piece(k)), 7, [k \in 1..(Len(s) \div 32 + 1) |-> k - 1])

(* RFC 1951, 3.2.5: the first length or distance of a code, and extra bits. *)
LengthCodes == <<<<3, 0>>, <<4, 0>>, <<5, 0>>, <<6, 0>>, <<7, 0>>, <<8, 0>>, <<9, 0>>, <<10, 0>>,
  <<11, 1>>, <<13, 1>>, <<15, 1>>, <<17, 1>>, <<19, 2>>, <<23, 2>>, <<27, 2>>, <<31, 2>>,
  <<35, 3>>, <<43, 3>>, <<51, 3>>, <<59, 3>>, <<67, 4>>, <<83, 4>>, <<99, 4>>, <<115, 4>>,
  <<131, 5>>, <<163, 5>>, <<195, 5>>, <<227, 5>>, <<258, 0>>>>
DistCodes == <<<<1, 0>>, <<2, 0>>, <<3, 0>>, <<4, 0>>, <<5, 1>>, <<7, 1>>, <<9, 2>>, <<13, 2>>,
  <<17, 3>>, <<25, 3>>, <<33, 4>>, <<49, 4>>, <<65, 5>>, <<97, 5>>, <<129, 6>>, <<193, 6>>,
  <<257, 7>>, <<385, 7>>>>
CodeOf(table, n) == Max({i \in 1..Len(table) : table[i][1] <= n})

(* Bits, the lowest first; a Huffman code with its highest bit first.       *)
BitsOf(n, width) == [k \in 1..width |-> (n \div 2^(k - 1)) % 2]
Canonical(len, s) ==
  LET count(l) == Cardinality({i \in 1..Len(len) : len[i] = l})
      first[l \in 0..15] == IF l = 0 THEN 0 ELSE 2 * (first[l - 1] + IF l = 1 THEN 0 ELSE count(l - 1))
      l == len[s + 1]
  IN Reverse(BitsOf(first[l] + Cardinality({i \in 1..s : len[i] = l}), l))

Lit(b) == [kind |-> "lit", byte |-> b]
Match(l, d) == [kind |-> "match", len |-> l, dist |-> d]

TokenBits(t, ll, dl) ==
  IF t.kind = "lit" THEN Canonical(ll, t.byte)
  ELSE LET i == CodeOf(LengthCodes, t.len) j == CodeOf(DistCodes, t.dist)
       IN Canonical(ll, 256 + i) \o BitsOf(t.len - LengthCodes[i][1], LengthCodes[i][2])
          \o Canonical(dl, j - 1) \o BitsOf(t.dist - DistCodes[j][1], DistCodes[j][2])
Tokens(ts, ll, dl) == FlattenSeq([k \in 1..Len(ts) |-> TokenBits(ts[k], ll, dl)]) \o Canonical(ll, 256)

FixedLl == [k \in 1..288 |-> IF k <= 144 THEN 8 ELSE IF k <= 256 THEN 9 ELSE IF k <= 280 THEN 7 ELSE 8]
FixedDl == [k \in 1..32 |-> 5]

(* Code lengths from place k on, in runs where there are any.               *)
Rle(s) ==
  LET rle[k \in 1..(Len(s) + 1)] ==
        IF k > Len(s) THEN <<>>
        ELSE LET run == SelectInSeq(Append(SubSeq(s, k, Len(s)), 99), LAMBDA c : c # s[k]) - 1
                 take(n, sym, extra) == <<<<sym, extra>>>> \o rle[k + n]
             IN IF s[k] = 0 /\ run >= 11 THEN take(Min({run, 138}), 18, Min({run, 138}) - 11)
                ELSE IF s[k] = 0 /\ run >= 3 THEN take(Min({run, 10}), 17, Min({run, 10}) - 3)
                ELSE IF k > 1 /\ run >= 3 /\ s[k] = s[IF k > 1 THEN k - 1 ELSE 1]
                  THEN take(Min({run, 6}), 16, Min({run, 6}) - 3)
                ELSE take(1, s[k], 0)
  IN rle[1]
(* RFC 1951, 3.2.7.                                                         *)
CodeLengthOrder == <<16, 17, 18, 0, 8, 7, 9, 6, 10, 5, 11, 4, 12, 3, 13, 2, 14, 1, 15>>
ClLengths == [s \in 1..19 |-> IF s <= 13 THEN 4 ELSE 5]
DynamicBits(ts, ll, dl) ==
  LET r == Rle(ll \o dl)
      Extra(sym) == CASE sym = 16 -> 2 [] sym = 17 -> 3 [] sym = 18 -> 7 [] OTHER -> 0
  IN BitsOf(Len(ll) - 257, 5) \o BitsOf(Len(dl) - 1, 5) \o BitsOf(15, 4)
     \o FlattenSeq([k \in 1..19 |-> BitsOf(ClLengths[CodeLengthOrder[k] + 1], 3)])
     \o FlattenSeq([k \in 1..Len(r) |-> Canonical(ClLengths, r[k][1]) \o BitsOf(r[k][2], Extra(r[k][1]))])
     \o Tokens(ts, ll, dl)

(* A code for the symbols of a sequence: lengths 1, 2, 3, ..., n, n.        *)
Chain(symbols, size) ==
  [k \in 1..size |-> LET i == SelectInSeq(symbols, LAMBDA s : s = k - 1)
                     IN IF i = 0 THEN 0 ELSE Max({1, Min({i, Len(symbols) - 1})})]

Block(type, ts, ll, dl) == [type |-> type, ts |-> ts, ll |-> ll, dl |-> dl]
Pad(bits) == bits \o [k \in 1..((8 - (Len(bits) % 8)) % 8) |-> 0]
Expand(plain, ts) ==
  FoldLeft(LAMBDA d, t : IF t.kind = "lit" THEN Append(d, t.byte)
             ELSE d \o [k \in 1..t.len |-> d[Len(d) - t.dist + 1 + ((k - 1) % t.dist)]], plain, ts)
StoredBytes(ts) == LET p == Expand(<<>>, ts) IN BitsOf(Len(p), 16) \o BitsOf(65535 - Len(p), 16)
                   \o FlattenSeq([k \in 1..Len(p) |-> BitsOf(p[k], 8)])
Deflate(blocks) ==
  Pad(FoldLeft(LAMBDA bits, k :
     LET b == blocks[k] final == IF k = Len(blocks) THEN 1 ELSE 0
     IN CASE b.type = "stored" -> Pad(bits \o <<final, 0, 0>>) \o StoredBytes(b.ts)
          [] b.type = "fixed" -> bits \o <<final, 1, 0>> \o Tokens(b.ts, FixedLl, FixedDl)
          [] b.type = "dynamic" -> bits \o <<final, 0, 1>> \o DynamicBits(b.ts, b.ll, b.dl),
     <<>>, [k \in 1..Len(blocks) |-> k]))
ToBytes(bits) == [k \in 1..(Len(bits) \div 8) |->
                    FoldLeft(LAMBDA n, j : n + bits[8 * (k - 1) + j] * 2^(j - 1), 0, [j \in 1..8 |-> j])]

Bytes4(n) == ToBytes(BitsOf(n, 24)) \o <<0>>
(* The parts of a header that are there, in their order.                    *)
GzHeader(flags) ==
  LET head == <<31, 139, 8, flags, 0, 0, 0, 0, 0, 3>>
        \o (IF (flags \div 4) % 2 = 1 THEN <<3, 0, 5, 0, 9>> ELSE <<>>)
        \o (IF (flags \div 8) % 2 = 1 THEN <<110, 0>> ELSE <<>>)
        \o (IF (flags \div 16) % 2 = 1 THEN <<99, 99, 0>> ELSE <<>>)
  IN IF (flags \div 2) % 2 = 1 THEN head \o SubSeq(Bytes4(Check(head)), 1, 2) ELSE head
Plain(blocks) == FoldLeft(LAMBDA p, b : Expand(p, b.ts), <<>>, blocks)
Gz(flags, blocks) ==
  [bytes |-> GzHeader(flags) \o ToBytes(Deflate(blocks)) \o Bytes4(Check(Plain(blocks)))
             \o Bytes4(Len(Plain(blocks))),
   plain |-> Plain(blocks), damaged |-> FALSE]

FixedBlock(ts) == Block("fixed", ts, <<>>, <<>>)
StoredBlock(ts) == Block("stored", ts, <<>>, <<>>)
DynamicBlock(ts, ls, ds) == Block("dynamic", ts, Chain(ls, 286), Chain(ds, 12))
ByteA == Lit(65)
ByteB == Lit(200)
Tokens1 == {ByteA, ByteB, Match(3, 1), Match(258, 1), Match(4, 2), Match(257, 2), Match(10, 3), Match(11, 2)}
Produced(ts) == FoldLeft(LAMBDA n, t : n + IF t.kind = "lit" THEN 1 ELSE t.len, 0, ts)
Valid(ts, before) ==
  \A k \in 1..Len(ts) : ts[k].kind = "match" => ts[k].dist <= before + Produced(SubSeq(ts, 1, k - 1))
Texts(n) == {ts \in UNION {[1..k -> Tokens1] : k \in 0..n} : Valid(ts, 0)}
Far == <<ByteA, ByteB, Match(258, 2), ByteA, Match(100, 259), Match(131, 161), ByteB, Match(162, 7), Match(16, 400)>>

(* Codes: short, and with lengths up to 15.                                 *)
Used == <<65, 256, 200, 257, 258, 264, 265, 284, 285>>
Deep == <<0, 257, 1, 285, 2, 265, 3, 284, 4, 264, 5, 258, 200, 65, 6, 256>>
Dists == <<1, 0, 2>>

(* One block of each kind with all short texts and with a long one, several *)
(* blocks with matches into the blocks before, every combination of header  *)
(* parts, and files with a byte changed where it cannot remain unnoticed.   *)
Samples ==
  {Gz(0, <<FixedBlock(ts)>>) : ts \in Texts(3)}
  \cup {Gz(0, <<DynamicBlock(ts, c, Dists)>>) : ts \in Texts(2), c \in {Used, Reverse(Used), Deep}}
  \cup {Gz(0, <<DynamicBlock(ts, <<256, 65>>, ds)>>) : ts \in {<<>>, <<ByteA>>, <<ByteA, ByteA>>}, ds \in {<<>>, <<4>>}}
  \cup {Gz(0, <<FixedBlock(Far)>>), Gz(0, <<FixedBlock(<<ByteA, Match(3, 1)>>), FixedBlock(Far)>>)}
  \cup {Gz(0, <<StoredBlock(s), x, StoredBlock(t), y>>) : s \in {<<>>, <<ByteB, ByteA>>}, t \in {<<ByteA>>},
           x \in {FixedBlock(<<ByteA, ByteA, Match(3, 2)>>), DynamicBlock(<<ByteB, ByteB, Match(11, 1)>>, Used, Dists)},
           y \in {StoredBlock(<<ByteA, ByteB>>), FixedBlock(<<Match(4, 3), ByteB>>), DynamicBlock(<<Match(10, 2)>>, Deep, Dists)}}
  \cup {Gz(f, <<StoredBlock(<<ByteA, ByteB>>)>>) : f \in 0..31}
  \cup {[Gz(2, <<StoredBlock(<<ByteA, ByteB>>)>>) EXCEPT !.bytes[k] = (@ + 1) % 256, !.damaged = TRUE] :
           k \in {1, 2, 3, 9, 11, 14, 16, 18, 20, 24}}
=============================================================================
