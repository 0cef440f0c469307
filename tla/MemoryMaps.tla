----------------------------- MODULE MemoryMaps -----------------------------
(* Memory maps over a page of three bytes: up to two disjoint blocks in any *)
(* order, and a third one behind them.                                      *)
EXTENDS Naturals, Sequences

Blocks(addrs, lens) == [addr : addrs, len : lens, avail : BOOLEAN]
Apart(b, c) == c.addr >= b.addr + b.len \/ b.addr >= c.addr + c.len

Pairs == {m \in [1..2 -> Blocks(0..6, {1, 3, 4})] : Apart(m[1], m[2])}
SmallMaps ==
  {<<b>> : b \in Blocks(0..6, 1..7)} \cup Pairs
    \cup {<<m[1], m[2], c>> : m \in {n \in Pairs : n[1].avail /\ n[2].addr = 5},
                              c \in Blocks({9, 10}, {5})}
SmallLengths == {2, 3, 6}
SmallLimits == {3, 8, 18}
=============================================================================
