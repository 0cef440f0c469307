------------------------------ MODULE MCBender ------------------------------
(* Buses without a controller, with memory registers before the I/O port,   *)
(* with the chip that has its port elsewhere, and with another device of    *)
(* class 7 behind it.                                                       *)
EXTENDS Bender

Mem == [io |-> FALSE, addr |-> 7]
Io(a) == [io |-> TRUE, addr |-> a]
Fn(at, sub, chip, bars) ==
  [at |-> at, class |-> Comm(sub), chip |-> chip, bars |-> bars, multi |-> FALSE]

Card  == Fn(<<1, 0, 0>>, "serial", "16550", <<Mem, Io(2), Io(1), Mem, Mem, Mem>>)
Exar  == Fn(<<1, 0, 0>>, "serial", "xr16850", <<Io(1), Mem, Mem, Mem, Mem, Mem>>)
Other == Fn(<<2, 0, 0>>, "other", "amt", <<Mem, Mem, Mem, Io(1), Mem, Mem>>)
None  == Fn(<<3, 0, 0>>, "serial", "16550", <<Mem, Mem, Mem, Mem, Mem, Mem>>)

MCBuses == {{}, {Card}, {Exar}, {Card, Other}, {Card, None}}
MCPorts == 0..3
MCUarts == {[p \in MCPorts |-> k] : k \in UartKinds}
           \cup {[p \in MCPorts |-> IF p = w THEN "works" ELSE k] :
                  w \in MCPorts, k \in {"dead", "absent"}}
MCBiosAreas == {[com0 |-> 0, ports |-> 0], [com0 |-> 1, ports |-> 1]}
=============================================================================
