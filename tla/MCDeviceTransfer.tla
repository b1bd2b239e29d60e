---------------------------- MODULE MCDeviceTransfer ----------------------------
(***************************************************************************)
(* A small instance of DeviceTransfer for TLC: devices with up to two      *)
(* configurations that use the same interface number.                      *)
(***************************************************************************)
EXTENDS DeviceTransfer, SequencesExt

Item(type, length, number, setting, kind) ==
  [type |-> type, length |-> length, number |-> number, setting |-> setting,
   kind |-> kind, hub |-> FALSE, total |-> 0, end |-> 0, nth |-> 0]

I0 == Item("interface", 9, 0, 0, "")
I1 == Item("interface", 9, 0, 1, "")
E(kind) == Item("endpoint", 7, 0, 0, kind)
Class == Item("other", 3, 0, 0, "")
Short(n) == Item("other", n, 0, 0, "")
Stray == Item("device", 18, 0, 0, "")

Add(block, d) ==
  Append(block, [d EXCEPT !.end = block[Len(block)].end + Bytes(d.length)])

\* An item of kind "over" claims a byte more than the block has.
Over(d) == [d EXCEPT !.kind = "over"]
Excess(d) == IF d.kind = "over" THEN 1 ELSE 0

\* The block of the nth configuration.
Block(nth, items) ==
  LET header == [Item("config", 9, nth, 0, "") EXCEPT !.end = 9]
      block == FoldLeft(Add, <<header>>, items)
  IN  [i \in 1..Len(block) |->
         [block[i] EXCEPT !.nth = nth, !.total = block[Len(block)].end - Excess(Last(block))]]

File(hub, configs) ==
  LET device == [Item("device", 18, Len(configs), 0, "") EXCEPT !.hub = hub]
  IN  <<device>> \o FlattenSeq([c \in 1..Len(configs) |-> Block(c, configs[c])])

First == UNION {[1..n -> {I0, I1, E("control"), Class}] : n \in 0..3}
Second == {<<>>, <<I0>>, <<E("bulk"), I0>>, <<I1, E("isochronous")>>, <<Class, Class>>,
           <<I0, Over(Class)>>}
Odd == {<<I0, Short(0)>>, <<Short(1), I0>>, <<I0, Stray>>, <<I0, E("interrupt")>>,
        <<I0, Over(Class)>>, <<Over(I0)>>}

MCFiles ==
  {File(TRUE, <<>>)} \cup {File(FALSE, <<c>>) : c \in First \cup Odd}
  \cup {File(FALSE, <<c, d>>) : c \in First \cup Odd, d \in Second}
================================================================================
