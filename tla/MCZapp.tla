------------------------------- MODULE MCZapp -------------------------------
(* Firmwares with and without an XSDT, a second DMAR with a wrong checksum, *)
(* and a pointer above 4 GB; buses with devices behind every kind of        *)
(* bridge; two zapps in a row.                                              *)
EXTENDS Zapp

CONSTANTS U1, U2
Unit(u)     == [type |-> "unit", who |-> u, base |-> "old"]
Rmrr(who)   == [type |-> "rmrr", who |-> who, base |-> "old"]
Table(sig, entries, ok) ==
  [sig |-> sig, entries |-> entries, ok |-> ok, broken |-> ~ok]

Usb    == <<0, 3, 0>>
NicOn2 == <<2, 1, 0>>
Right  == Table("DMAR", <<Unit(U1), Rmrr(Usb), Unit(U2), Rmrr(Usb)>>, TRUE)
Small  == Table("DMAR", <<Rmrr(Usb)>>, TRUE)
Broken == Table("DMAR", <<Rmrr(Usb), Unit(U1)>>, FALSE)
Other  == Table("APIC", <<>>, TRUE)

Root(list) == [list |-> list, ok |-> TRUE]
Low(t)  == [tab |-> t, high |-> FALSE]
High(t) == [tab |-> t, high |-> TRUE]

Firmware(tables4, r, x, two) == [tables |-> tables4, rsdt |-> Root(r), xsdt |-> Root(x),
                                 rev2 |-> two]
MCFirmwares ==
  {Firmware(<<Other, d, Broken>>, r, x, two) :
     d \in {Right, Small}, r \in {<<1, 2>>, <<2, 1>>, <<3, 1, 2>>, <<1, 3>>},
     x \in {<<Low(1), Low(2)>>, <<Low(2), Low(3), Low(1)>>, <<High(2), Low(1)>>},
     two \in BOOLEAN}

(* Capability lists: power management and MSI around the PCIe capability,   *)
(* which may be first, second or missing; the bit of the status register    *)
(* may be clear although the pointer is set.                                *)
Cap(id, next, type) == [id |-> id, next |-> next, type |-> type]
Caps(pcie) ==
  CASE pcie = "none" -> <<Cap("pm", 2, ""), Cap("msi", 0, "")>>
    [] pcie = "root" -> <<Cap("pm", 3, ""), Cap("msi", 0, ""), Cap("exp", 2, "root")>>
    [] OTHER         -> <<Cap("exp", 0, pcie), Cap("pm", 1, "")>>
CapPtr(pcie) == IF pcie = "endpoint" THEN 2 ELSE 1

Fn(at, class, pcie) == [at |-> at, class |-> class, pcie |-> pcie, multi |-> FALSE,
                        sec |-> 0, sub |-> 0, hasCaps |-> at[1] # 0 \/ pcie # "none",
                        capPtr |-> CapPtr(pcie), caps |-> Caps(pcie)]
Bridge(at, pcie, sec, sub) ==
  [Fn(at, "bridge", pcie) EXCEPT !.multi = at[3] = 0, !.sec = sec, !.sub = sub,
                                 !.hasCaps = TRUE]

MCBuses ==
  {{Fn(Usb, "usb", "none"), Fn(NicOn2, "nic", p), Fn(<<2, 2, 0>>, "nic", "endpoint"),
    Bridge(<<0, 1, 0>>, b, 1, 1), Bridge(<<0, 1, 1>>, c, 2, 3)} \ gone :
     p \in {"none", "endpoint"}, b \in {"none", "toPci"}, c \in {"none", "root", "toPci"},
     gone \in {{}, {Fn(<<2, 2, 0>>, "nic", "endpoint")}}}
  \cup {{Fn(Usb, "usb", "none"), Fn(<<1, 0, 1>>, "nic", "none"),
         Bridge(<<0, 4, 0>>, "toPci", 0, 0), Bridge(<<0, 5, 0>>, "toPci", 1, 1)}}

Cmd1(fix, add, disable) == [fix |-> fix, add |-> add, disable |-> disable]
FixUsb == <<[who |-> Usb, base |-> "fixed"], [who |-> Usb, base |-> "ignored"]>>
Add(class) == [class |-> class, base |-> class]
MCCmdLines ==
  {<<Cmd1(fix, add, d)>> : fix \in {<<>>, FixUsb}, d \in {{}, {U1, U2}},
                           add \in {<<>>, <<Add("nic")>>, <<Add("nic"), Add("nic")>>,
                                    <<Add("usb"), Add("nic")>>, <<Add("disk")>>}}
  \cup {<<Cmd1(<<>>, a, {U1}), Cmd1(FixUsb, b, {U2})>> :
          a \in {<<>>, <<Add("usb")>>}, b \in {<<>>, <<Add("nic")>>}}
=============================================================================
