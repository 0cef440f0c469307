------------------------------ MODULE MCFwScan ------------------------------
(* Morbo nodes with two kinds of controllers, a PC, a disk without a text   *)
(* that has Morbo's vendor and an entry of its information directory, a     *)
(* repeater and a node that has not finished its initialisation, on buses   *)
(* of up to two nodes.                                                      *)
EXTENDS FwScan

MCCrc16(words) == <<90, 7 * Len(words)>>
Regs(n) == [busId |-> <<49, 51, 57, 52>>, busOptions |-> <<240, 0, 160, 2>>,
            guidHi |-> <<0, 0, 16, n>>, guidLo |-> <<0, 0, 0, n>>,
            linkEnable |-> FALSE, hdr |-> <<0, 0, 0, 0>>]
MorboRom(n, chip, speed) ==
  QuadletReads(chip, LoadCrom(GenerateCrom(Regs(n), speed, <<0, 1, n, 0>>), Regs(n)))

Filled(words) == [k \in 1..RomWords |-> IF k <= Len(words) THEN words[k] ELSE <<0, 0, 0, 0>>]
Head5(n) == <<<<4, 4, 1, 1>>, <<49, 51, 57, 52>>, <<16, 0, 160, 1>>, <<0, 1, 2, n>>, <<0, 0, 0, n>>>>
PcRom   == Filled(Head5(9) \o <<<<0, 3, 1, 1>>, <<3, 0, 1, 2>>, <<23, 0, 0, 2>>, <<129, 0, 0, 1>>,
                                <<0, 4, 0, 0>>, <<0, 0, 0, 0>>, <<0, 0, 0, 0>>,
                                <<76, 105, 110, 117>>, <<120, 0, 0, 0>>>>)
DiskRom == Filled(Head5(7) \o <<<<0, 3, 1, 1>>, <<3, 202, 255, 238>>, <<23, 0, 0, 3>>,
                                <<184, 0, 0, 1>>, <<0, 1, 0, 0>>, <<5, 5, 5, 5>>>>)

MCDevices == {"morbo", "morbo2", "pc", "disk", "repeater", "booting"}
MCRom == [d \in MCDevices |->
            CASE d = "morbo"    -> MorboRom(1, "reloads", SpeedMax)
              [] d = "morbo2"   -> MorboRom(2, "keeps", 1)
              [] d = "pc"       -> PcRom
              [] d = "disk"     -> DiskRom
              [] d = "repeater" -> Filled(<<<<1, 0, 18, 52>>>>)
              [] d = "booting"  -> Filled(<<>>)]
MCBuses == {<<>>, <<"morbo", "pc">>, <<"pc", "morbo">>, <<"morbo2", "disk">>,
            <<"disk", "repeater">>, <<"booting", "disk">>}
=============================================================================
