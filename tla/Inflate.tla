------------------------------- MODULE Inflate ------------------------------
(***************************************************************************)
(* unzip's decompressor: tinf_gzip_uncompress (standalone/tinfgzip.c) and  *)
(* tinf_uncompress (tinflate.c), one action per block header, code length  *)
(* or symbol.  Memory is a sequence of bytes; a position in it counts from *)
(* 1.  `rd' is the place in the compressed data: the next byte, and what   *)
(* is left of the one that is being taken apart.                           *)
(***************************************************************************)
EXTENDS Naturals, Sequences, SequencesExt, FiniteSetsExt

CONSTANTS Files,     \* [bytes, plain, damaged]: gzip files and their contents
          Crc32(_)   \* tinf_crc32, any function of the bytes

VARIABLES
  file, sizeOnly,          \* the source, is dest NULL
  pc,
  rd,                      \* [source, tag, bitcount]
  dest, start, destLen,    \* the output, where its block began, its length
  bfinal,
  left, offs,              \* the match that is being copied
  hlit, hdist, lengths,    \* code lengths of a dynamic block so far
  codeTree, ltree, dtree

match == <<left, offs>>
codes == <<hlit, hdist, lengths, codeTree, ltree, dtree>>
vars  == <<file, sizeOnly, pc, rd, dest, start, destLen, bfinal, match, codes>>

src == file.bytes
NoTree == [table |-> [l \in 0..15 |-> 0], trans |-> <<>>]

Init ==
  /\ file \in Files /\ sizeOnly \in BOOLEAN /\ pc = "gzip"
  /\ rd = [source |-> 1, tag |-> 0, bitcount |-> 0]
  /\ dest = <<>> /\ start = 0 /\ destLen = 0 /\ bfinal = 0
  /\ left = 0 /\ offs = 0 /\ hlit = 0 /\ hdist = 0 /\ lengths = <<>>
  /\ codeTree = NoTree /\ ltree = NoTree /\ dtree = NoTree

-----------------------------------------------------------------------------
(* The tables.                                                              *)

(* tinf_build_bits_base; the last length code is "a special case".          *)
Bits(delta) == [i \in 0..29 |-> IF i < delta THEN 0 ELSE (i - delta) \div delta]
Base(delta, first) == [i \in 0..29 |-> first + FoldSet(LAMBDA j, sum : sum + 2^Bits(delta)[j],
                                                       0, 0..(i - 1))]
LengthBits == [Bits(4) EXCEPT ![28] = 0]
LengthBase == [Base(4, 3) EXCEPT ![28] = 258]
DistBits   == Bits(2)
DistBase   == Base(2, 1)

clcidx == <<16, 17, 18, 0, 8, 7, 9, 6, 10, 5, 11, 4, 12, 3, 13, 2, 14, 1, 15>>

(* tinf_build_tree: how many codes there are of each length, and the        *)
(* symbols sorted by length.                                                *)
BuildTree(len) ==
  [table |-> [l \in 0..15 |-> IF l = 0 THEN 0
                              ELSE Cardinality({i \in 1..Len(len) : len[i] = l})],
   trans |-> FlattenSeq([l \in 1..15 |->
               SelectSeq([i \in 1..Len(len) |-> i - 1], LAMBDA s : len[s + 1] = l)])]

(* tinf_build_fixed_trees.                                                  *)
Run(first, n) == [i \in 1..n |-> first + i - 1]
FixedL == [table |-> [l \in 0..15 |-> CASE l = 7 -> 24 [] l = 8 -> 152 [] l = 9 -> 112
                                        [] OTHER -> 0],
           trans |-> Run(256, 24) \o Run(0, 144) \o Run(280, 8) \o Run(144, 112)]
FixedD == [table |-> [l \in 0..15 |-> IF l = 5 THEN 32 ELSE 0], trans |-> Run(0, 32)]

-----------------------------------------------------------------------------
(* Taking bits.                                                             *)

(* tinf_getbit.                                                             *)
GetBit(r) ==
  LET tag == IF r.bitcount = 0 THEN src[r.source] ELSE r.tag
  IN [val |-> tag % 2,
      rd  |-> IF r.bitcount = 0
                THEN [source |-> r.source + 1, tag |-> tag \div 2, bitcount |-> 7]
                ELSE [r EXCEPT !.tag = tag \div 2, !.bitcount = @ - 1]]

(* tinf_read_bits: the lowest bit comes first.                              *)
ReadBits(r, num, base) ==
  LET take[k \in 0..num] ==
        IF k = 0 THEN [val |-> base, rd |-> r]
        ELSE LET g == GetBit(take[k - 1].rd)
             IN [val |-> take[k - 1].val + g.val * 2^(k - 1), rd |-> g.rd]
  IN take[num]

(* tinf_decode_symbol: the loop, from code length len on.                   *)
RECURSIVE Descend(_, _, _, _, _)
Descend(r, tree, len, sum, cur) ==
  LET g     == GetBit(r)
      count == tree.table[len + 1]
      c     == 2 * cur + g.val - count
  IN IF c < 0 THEN [val |-> tree.trans[sum + count + c + 1], rd |-> g.rd]
     ELSE Descend(g.rd, tree, len + 1, sum + count, c)
DecodeSymbol(r, tree) == Descend(r, tree, 0, 0, 0)

-----------------------------------------------------------------------------
(* The gzip file.                                                           *)
Flag(bit) == (src[4] \div bit) % 2 = 1
Word(k) == src[k] + 256 * src[k + 1]

SkipString(k) == k + SelectInSeq(SubSeq(src, k, Len(src)), LAMBDA c : c = 0)

AfterExtra   == IF Flag(4) THEN 11 + Word(11) + 2 ELSE 11
AfterName    == IF Flag(8) THEN SkipString(AfterExtra) ELSE AfterExtra
AfterComment == IF Flag(16) THEN SkipString(AfterName) ELSE AfterName
AfterHeader  == IF Flag(2) THEN AfterComment + 2 ELSE AfterComment

FormatOk ==
  /\ src[1] = 31 /\ src[2] = 139 /\ src[3] = 8 /\ src[4] < 32
  /\ Flag(2) => Word(AfterComment) = Crc32(SubSeq(src, 1, AfterComment - 1)) % 65536

Number(k) == src[k] + 256 * (src[k + 1] + 256 * (src[k + 2] + 256 * src[k + 3]))
dlen == Number(Len(src) - 3)
crc  == Number(Len(src) - 7)

Goto(from, to) == pc = from /\ pc' = to

(* Without a destination only the length is looked up (mbi_relocate_modules *)
(* asks for it first).                                                      *)
Header ==
  /\ pc = "gzip"
  /\ pc' = IF ~FormatOk THEN "error" ELSE IF sizeOnly THEN "ok" ELSE "block"
  /\ rd' = [rd EXCEPT !.source = AfterHeader]
  /\ destLen' = IF FormatOk /\ sizeOnly THEN dlen ELSE 0
  /\ UNCHANGED <<file, sizeOnly, dest, start, bfinal, match, codes>>

Trailer ==
  /\ Goto("check", IF destLen = dlen /\ crc = Crc32(dest) THEN "ok" ELSE "error")
  /\ UNCHANGED <<file, sizeOnly, rd, dest, start, destLen, bfinal, match, codes>>

-----------------------------------------------------------------------------
(* Blocks.                                                                  *)
BlockHeader ==
  /\ pc = "block"
  /\ LET f == GetBit(rd)  t == ReadBits(f.rd, 2, 0) IN
     /\ bfinal' = f.val /\ rd' = t.rd
     /\ pc' = CASE t.val = 0 -> "stored" [] t.val = 1 -> "fixed"
                [] t.val = 2 -> "dynamic" [] t.val = 3 -> "error"
  /\ UNCHANGED <<file, sizeOnly, dest, start, destLen, match, codes>>

BlockEnd == IF bfinal = 1 THEN "check" ELSE "block"

(* tinf_inflate_uncompressed_block begins and ends at a byte boundary.      *)
Stored ==
  /\ pc = "stored"
  /\ LET n == Word(rd.source) IN
     IF n # 65535 - Word(rd.source + 2) THEN pc' = "error" /\ UNCHANGED <<dest, rd, destLen>>
     ELSE /\ pc' = BlockEnd
          /\ dest' = dest \o SubSeq(src, rd.source + 4, rd.source + 3 + n)
          /\ rd' = [rd EXCEPT !.source = @ + 4 + n, !.bitcount = 0]
          /\ destLen' = destLen + n
  /\ UNCHANGED <<file, sizeOnly, start, bfinal, match, codes>>

Fixed ==
  /\ Goto("fixed", "symbols") /\ ltree' = FixedL /\ dtree' = FixedD /\ start' = Len(dest)
  /\ UNCHANGED <<file, sizeOnly, rd, dest, destLen, bfinal, match, hlit, hdist, lengths, codeTree>>

(* The sizes of the trees, and the code their code lengths are written in.  *)
Dynamic ==
  /\ Goto("dynamic", "lengths")
  /\ LET l == ReadBits(rd, 5, 257)  d == ReadBits(l.rd, 5, 1)  c == ReadBits(d.rd, 4, 4)
         clen[k \in 0..c.val] == IF k = 0 THEN [val |-> 0, rd |-> c.rd]
                                 ELSE ReadBits(clen[k - 1].rd, 3, 0)
         At(s) == SelectInSeq(clcidx, LAMBDA x : x = s)
     IN /\ hlit' = l.val /\ hdist' = d.val /\ rd' = clen[c.val].rd
        /\ codeTree' = BuildTree([s \in 1..19 |-> IF At(s - 1) <= c.val THEN clen[At(s - 1)].val
                                                  ELSE 0])
  /\ lengths' = <<>>
  /\ UNCHANGED <<file, sizeOnly, dest, start, destLen, bfinal, match, ltree, dtree>>

(* One symbol of the code lengths: a length, or a run of the last one or of *)
(* zeros.                                                                   *)
CodeLength ==
  /\ pc = "lengths" /\ Len(lengths) < hlit + hdist
  /\ LET s   == DecodeSymbol(rd, codeTree)
         run == CASE s.val = 16 -> ReadBits(s.rd, 2, 3) [] s.val = 17 -> ReadBits(s.rd, 3, 3)
                  [] s.val = 18 -> ReadBits(s.rd, 7, 11) [] OTHER -> [val |-> 1, rd |-> s.rd]
         len == CASE s.val = 16 -> Last(lengths) [] s.val \in {17, 18} -> 0 [] OTHER -> s.val
     IN lengths' = lengths \o [k \in 1..run.val |-> len] /\ rd' = run.rd
  /\ UNCHANGED <<file, sizeOnly, pc, dest, start, destLen, bfinal, match, hlit, hdist, codeTree,
                 ltree, dtree>>

LengthsRead ==
  /\ Goto("lengths", "symbols") /\ Len(lengths) >= hlit + hdist
  /\ ltree' = BuildTree(SubSeq(lengths, 1, hlit))
  /\ dtree' = BuildTree(SubSeq(lengths, hlit + 1, hlit + hdist))
  /\ start' = Len(dest) /\ lengths' = <<>>
  /\ UNCHANGED <<file, sizeOnly, rd, dest, destLen, bfinal, match, hlit, hdist, codeTree>>

(* tinf_inflate_block_data: one symbol.                                     *)
EndOfBlock ==
  /\ pc = "symbols"
  /\ LET s == DecodeSymbol(rd, ltree) IN s.val = 256 /\ rd' = s.rd
  /\ pc' = BlockEnd /\ destLen' = destLen + Len(dest) - start
  /\ UNCHANGED <<file, sizeOnly, dest, start, bfinal, match, codes>>

Literal ==
  /\ pc = "symbols"
  /\ LET s == DecodeSymbol(rd, ltree) IN s.val < 256 /\ rd' = s.rd /\ dest' = Append(dest, s.val)
  /\ UNCHANGED <<file, sizeOnly, pc, start, destLen, bfinal, match, codes>>

Match ==
  /\ Goto("symbols", "copy")
  /\ LET s == DecodeSymbol(rd, ltree)
         l == ReadBits(s.rd, LengthBits[s.val - 257], LengthBase[s.val - 257])
         d == DecodeSymbol(l.rd, dtree)
         o == ReadBits(d.rd, DistBits[d.val], DistBase[d.val])
     IN s.val > 256 /\ left' = l.val /\ offs' = o.val /\ rd' = o.rd
  /\ UNCHANGED <<file, sizeOnly, dest, start, destLen, bfinal, codes>>

(* Mutant: one byte more.                                                   *)
CopyByteMore ==
  /\ pc = "copy" /\ pc' = IF left = 0 THEN "symbols" ELSE "copy"
  /\ dest' = Append(dest, dest[Len(dest) + 1 - offs]) /\ left' = left - 1
  /\ UNCHANGED <<file, sizeOnly, rd, start, destLen, bfinal, offs, codes>>

(* One byte after the other: a match may overlap what it produces.          *)
CopyByte ==
  /\ pc = "copy" /\ pc' = IF left = 1 THEN "symbols" ELSE "copy"
  /\ dest' = Append(dest, dest[Len(dest) + 1 - offs]) /\ left' = left - 1
  /\ UNCHANGED <<file, sizeOnly, rd, start, destLen, bfinal, offs, codes>>

Next == \/ Header \/ BlockHeader \/ Stored \/ Fixed \/ Dynamic \/ CodeLength \/ LengthsRead
        \/ EndOfBlock \/ Literal \/ Match \/ CopyByte \/ Trailer
-----------------------------------------------------------------------------
(* At any time the destination is the beginning of what was compressed, so  *)
(* that the room asked for suffices; a file is decompressed completely, to  *)
(* the length mbi_relocate_modules was told beforehand, and only damaged    *)
(* ones are refused (tinf_uncompress, tinf_gzip_uncompress).                *)
OutputIsRight ==
  /\ ~file.damaged => IsPrefix(dest, file.plain) /\ pc # "error"
  /\ pc = "ok" /\ ~sizeOnly => dest = file.plain
  /\ pc = "ok" /\ ~file.damaged => destLen = Len(file.plain)
=============================================================================
