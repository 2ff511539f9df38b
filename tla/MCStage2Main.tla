---------------------------- MODULE MCStage2Main ----------------------------
(***************************************************************************)
(* Stage2Main on pages of 8 bytes, with tables that are shorter and longer *)
(* than the union and cross from one page to the next.                     *)
(***************************************************************************)
EXTENDS Stage2Main

Table(s, p, l) == [pa |-> p, sig |-> s, length |-> l, pcat |-> TRUE, nortc |-> FALSE,
                   ics |-> << >>]
Cpu(o) == [io |-> FALSE, off |-> o, length |-> 2, addr |-> 0]
Io(o, a) == [io |-> TRUE, off |-> o, length |-> 3, addr |-> a]
FadtAt27 == Table("FACP", 27, 5)
MadtAt41 == [Table("APIC", 41, 15) EXCEPT !.ics = <<Cpu(5), Io(7, 64), Cpu(10), Io(12, 71)>>]
Long == Table("other", 60, 12)

Xsdt(ts) == [pa |-> 18, sig |-> TRUE, length |-> 4 + Len(ts), cksum |-> TRUE, tables |-> ts]
Xsdp(x) == [pa |-> 5, sig |-> TRUE, revision |-> 2, length |-> 4, cksum |-> TRUE, xsdt |-> x]

Good == Xsdp(Xsdt(<<FadtAt27, MadtAt41, Long>>))
NoMadt == Xsdp(Xsdt(<<Long>>))
\* Longer than there are virtual pages for.
Huge == Xsdp(Xsdt(<<Table("other", 60, 40)>>))
Bad == {[Good EXCEPT !.sig = FALSE], [Good EXCEPT !.revision = 1],
        [Good EXCEPT !.length = 3], [Good EXCEPT !.cksum = FALSE],
        [Good EXCEPT !.xsdt.sig = FALSE], [Good EXCEPT !.xsdt.cksum = FALSE],
        Xsdp([Xsdt(<< >>) EXCEPT !.length = 2]),
        Xsdp(Xsdt(<<[FadtAt27 EXCEPT !.length = 4]>>)),
        Xsdp(Xsdt(<<[FadtAt27 EXCEPT !.nortc = TRUE]>>))}
No8259 == Xsdp(Xsdt(<<Long, [MadtAt41 EXCEPT !.pcat = FALSE]>>))

\* The 8259s as a firmware may leave them: a request in service, none masked.
Left(isr) == [n \in 1 .. 2 |-> [step |-> "ready", base |-> {5}, imr |-> {},
                                isr |-> isr, x86 |-> TRUE]]
Machine(c, h, isr) == [conf |-> c, has8259 |-> h, pics |-> Left(isr)]

MCMachines ==
    {Machine(<<NoXsdp, NoMadt, Good>>, TRUE, {0}), Machine(<<Good, NoMadt>>, TRUE, {}),
     Machine(<<Huge>>, TRUE, {}), Machine(<<NoXsdp>>, TRUE, {}), Machine(<<No8259>>, FALSE, {})}
    \cup {Machine(<<b>>, TRUE, {}) : b \in Bad}

MCVaPages == 1 .. 4 \cup 6 .. 9
Dev(v, r) == [vga |-> v, rom |-> r]
MCDeviceLists == {<< >>, <<Dev(TRUE, TRUE), Dev(FALSE, TRUE), Dev(TRUE, FALSE)>>,
                  <<Dev(TRUE, TRUE), Dev(TRUE, TRUE)>>}
=============================================================================
