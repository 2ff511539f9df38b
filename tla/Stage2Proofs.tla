---------------------------- MODULE Stage2Proofs ----------------------------
(***************************************************************************)
(* Proofs about Stage2Main and IrqInit, for every set of machines, option  *)
(* ROMs, places for the EBDA and interrupt lines.                          *)
(***************************************************************************)
EXTENDS Stage2Main, NatFacts, TLAPS

-----------------------------------------------------------------------------
(***************************************************************************)
(* The processor's state across rm16_call.                                 *)
(***************************************************************************)
IrqPcs == Stage1Pcs \cup MaskingPcs \cup {"unmap_rsdp", "pics"}

\* Where stage 2 runs with its own registers.
OwnPcs == IrqPcs \cup {"rimg_init", "leave"}

\* Where nothing leads back to stage 2.
EndPcs == {"spin", "panic", "message", "wild"}

Saved == [esp |-> "stage2", cr3 |-> "stage2", gdtr |-> "stage2"]

\* The registers in the 16-bit part of rm16_call, and in what it calls.
Regs16(pae, if, esp, cr3, gdtr, ds) ==
    [pe |-> FALSE, pg |-> FALSE, pae |-> pae, if |-> if,
     esp |-> esp, cr3 |-> cr3, gdtr |-> gdtr, ds |-> ds]

IsReal(r) == r = Regs16(r.pae, r.if, r.esp, r.cr3, r.gdtr, r.ds)

Regs32(ds) ==
    [pe |-> TRUE, pg |-> TRUE, pae |-> TRUE, if |-> FALSE,
     esp |-> "stage2", cr3 |-> "stage2", gdtr |-> "stage2", ds |-> ds]

PcInv == pc \in OwnPcs \cup EndPcs \cup {"save", "rom", "hello16", "restore", "reenter",
                                         "popfd", "halted"}

TabInv == tab \in {"xsdt", "table"}

SegInv == ebda \in Segs /\ words = [s \in Segs |-> words[s]]

RegsInv ==
    /\ pc \in OwnPcs => cpu = Own
    /\ pc = "save" => cpu = Regs16(TRUE, FALSE, "stage2", "stage2", "stage2", ebda)
    /\ pc \in {"rom", "hello16"} =>
        cpu = Regs16(FALSE, cpu.if, "stack16", cpu.cr3, cpu.gdtr, cpu.ds)
    /\ pc = "restore" => cpu = Regs16(FALSE, FALSE, "stack16", cpu.cr3, cpu.gdtr, cpu.ds)
    /\ pc = "reenter" => cpu = Regs16(FALSE, FALSE, "stage2", "stage2", "stage2", ebda)
    /\ pc = "popfd" => cpu = Regs32(ebda)
    /\ pc \in EndPcs => IsReal(cpu)

\* What rm16_call needs to get back is in the EBDA, wherever that is.
SavedInv == pc \in {"rom", "restore"} => words[ebda] = Saved

\* hello16 does not return, and a ROM to stage 2's list of devices.
RetInv ==
    /\ pc \in {"leave", "save"} => callee \in {"rom", "hello16"}
    /\ pc \in {"leave", "save"} /\ callee = "rom" => ret = [to |-> "rimg_init", if |-> FALSE]
    /\ pc \in {"rom", "restore", "reenter", "popfd"} => ret = [to |-> "rimg_init", if |-> FALSE]

CallInv == PcInv /\ TabInv /\ SegInv /\ RegsInv /\ SavedInv /\ RetInv

-----------------------------------------------------------------------------
(***************************************************************************)
(* The 8259s, the vectors and the interrupts taken.                        *)
(***************************************************************************)
\* How far the first 8259 is, by the writes to ports that are done.
PicStep(p, w) ==
    /\ w \in {1, 2} => p.step = "icw2"
    /\ w \in {3, 4} => p.step = "icw3" /\ p.base = {3}
    /\ w \in {5, 6} => p.step = "icw4" /\ p.base = {3}
    /\ w \in 7 .. 15 => p.step = "ready" /\ p.base = {3} /\ p.x86
    /\ w \in 9 .. 15 => 2 .. 7 \subseteq p.imr

PicsInv ==
    /\ pics \in [1 .. 2 -> Pics]
    /\ written \in 0 .. 15
    /\ pc \notin IrqPcs \cup {"halted"} => written = 15
    /\ machine.has8259 => PicStep(pics[1], written)
    /\ machine.has8259 /\ pc = "message" => 0 .. 7 \subseteq pics[1].imr

IvtInv ==
    /\ ivt = [v \in Vectors |-> ivt[v]]
    /\ pc \notin Stage1Pcs \cup {"stage2_main", "halted"} => ivt[8] = "irq0" /\ ivt[9] = "irq1"

-----------------------------------------------------------------------------
(***************************************************************************)
(* The ACPI tables and the pins that are masked.                           *)
(***************************************************************************)
RsdpInv ==
    /\ machine \in Machines
    /\ pc \notin {"conf", "error"} => rsdp \in Xsdps /\ WellFormed(rsdp.xsdt, machine)
    /\ pc \notin {"conf", "error", "acpi_init"} => rsdp.sig /\ XsdtGood(rsdp.xsdt)
    /\ pc \notin Stage1Pcs => rsdp_sz = rsdp.xsdt.length

\* The pins in m are all those of t's n-th structure, and of all of them.
IcDone(t, n, m) == t.ics[n].io => \A q \in 0 .. PinsScanned - 1 : <<t.ics[n].addr, q>> \in m
TableDone(t, m) == t.sig = "APIC" => \A n \in DOMAIN t.ics : IcDone(t, n, m)

TablePcs == {"map_tab", "tab_length", "remap", "xsdt", "table", "madt", "ioapic", "mask",
             "unmap_tab"}
MadtPcs == {"madt", "ioapic", "mask"}

\* acpi_process_madt is at the k-th structure of t.
AtIc(t, k) ==
    /\ ic = IcsEnd(t, k - 1)
    /\ \A n \in 1 .. k - 1 : IcDone(t, n, masked)
    /\ pc \in {"ioapic", "mask"} => k =< Len(t.ics) /\ t.ics[k].io
    /\ pc = "mask" => ptr["ioapic"].pa = t.ics[k].addr

LoopTables ==
    pc \in TablePcs => /\ i \in 0 .. Len(rsdp.xsdt.tables)
                       /\ \A n \in 1 .. i : TableDone(rsdp.xsdt.tables[n], masked)
                       /\ tab = "table" => i < Len(rsdp.xsdt.tables)

LoopTab ==
    /\ pc = "xsdt" => tab = "xsdt"
    /\ pc = "rsdp" => i = 0 /\ tab = "xsdt"
    /\ pc \in MadtPcs \cup {"table"} => tab = "table"

LoopMadt ==
    /\ pc \in MadtPcs =>
        Madt.sig = "APIC" /\ \E k \in 1 .. Len(Madt.ics) + 1 : AtIc(Madt, k)
    /\ pc = "unmap_tab" => IF tab = "table" THEN TableDone(Madt, masked)
                           ELSE i = Len(rsdp.xsdt.tables)

LoopInv == LoopTables /\ LoopTab /\ LoopMadt

MaskedInv ==
    /\ pc \notin Stage1Pcs \cup MaskingPcs \cup {"halted"} =>
        \A n \in DOMAIN rsdp.xsdt.tables : TableDone(rsdp.xsdt.tables[n], masked)
    /\ lapic \in {"none", "early", "late"}
    /\ pc # "halted" => lapic # "late"

-----------------------------------------------------------------------------
(***************************************************************************)
(* The blocks of virtual pages that stage 2 has.                           *)
(***************************************************************************)
Objs == {"rsdp", "xsdt", "table", "ioapic"}

Live ==
    {o \in Objs :
        \/ o = "rsdp" /\ pc \in TablePcs \cup {"rsdp", "unmap_rsdp"}
        \/ o = "xsdt" /\ pc \in TablePcs /\ (tab = "table" \/ pc \in {"tab_length", "xsdt", "unmap_tab"})
        \/ o = "table" /\ tab = "table"
           /\ pc \in {"tab_length", "table", "madt", "ioapic", "mask", "unmap_tab"}
        \/ o = "ioapic" /\ pc = "mask"}

Larger(m, n) == IF m < n THEN n ELSE m

\* The size of what is mapped: at first, of the table that acpi_map_tab is
\* at, so much as the union has.
Size ==
    [o \in Objs |->
        CASE o = "rsdp" -> rsdp_sz
          [] o = "xsdt" -> IF tab = "xsdt" /\ pc \in {"map_tab", "tab_length"} THEN UnionSize
                           ELSE Larger(rsdp.xsdt.length, UnionSize)
          [] o = "table" -> IF pc \in {"map_tab", "tab_length"} THEN UnionSize
                            ELSE Larger(rsdp.xsdt.tables[i + 1].length, UnionSize)
          [] o = "ioapic" -> IoapicSize]

\* The block of a pointer to n bytes, and its pages.
BlockOf(q, n) == [start |-> q.start, len |-> PagesFor(q.pa, n)]
Room(q, n) == Va!PagesOf(BlockOf(q, n))

\* The blocks out are those of the pointers in L; they are apart, and the rest
\* is free.
VaState(L, sz, q, free, out) ==
    /\ q \in [Objs -> [start : Nat, pa : Nat]]
    /\ out = {BlockOf(q[o], sz[o]) : o \in L}
    /\ \A o \in L : Room(q[o], sz[o]) \subseteq VaPages
    /\ \A o, p \in L : o # p => Room(q[o], sz[o]) \cap Room(q[p], sz[p]) = {}
    /\ free = VaPages \ UNION {Room(q[o], sz[o]) : o \in L}

VaInv ==
    /\ stray = FALSE
    /\ pc = "remap" => Remaps
    /\ pc # "halted" => VaState(Live, Size, ptr, vaFree, vaBlocks)

-----------------------------------------------------------------------------
LEMMA CallInit == Init => CallInv
<1> SUFFICES ASSUME Init PROVE CallInv OBVIOUS
<1>0. PcInv BY DEF Init, PcInv, OwnPcs, IrqPcs, Stage1Pcs
<1>1. TabInv BY DEF Init, IrqInitial, TabInv
<1>2. SegInv BY Stage2Assumption DEF Init, SegInv
<1>3. RegsInv BY DEF Init, RegsInv, EndPcs
<1>4. SavedInv BY DEF Init, SavedInv
<1>5. RetInv BY DEF Init, RetInv
<1> QED BY <1>0, <1>1, <1>2, <1>3, <1>4, <1>5 DEF CallInv

\* irq_init goes from one of its steps to the next, and ends with rimg_init.
LEMMA IrqPcStep ==
    ASSUME TabInv, IrqInitStep
    PROVE  /\ pc \in IrqPcs \ {"error"} /\ pc' \in IrqPcs \cup {"rimg_init", "halted"}
           /\ TabInv' /\ (pc' = "rimg_init" => IrqInitDone)
<1> USE DEF IrqPcs, Stage1Pcs, MaskingPcs, TabInv
<1>1. CASE ProcessEfiConfTables BY <1>1 DEF ProcessEfiConfTables
<1>2. CASE CheckXsdt BY <1>2 DEF CheckXsdt, irqVars, acpiVars
<1>3. CASE CheckTable BY <1>3 DEF CheckTable
<1>4. CASE AddRsdp BY <1>4 DEF AddRsdp
<1>5. CASE MapRsdp BY <1>5 DEF MapRsdp, MapThen
<1>6. CASE AcpiProcessRsdp BY <1>6 DEF AcpiProcessRsdp, acpiVars
<1>7. CASE AcpiMapTab BY <1>7 DEF AcpiMapTab, MapThen, acpiVars
<1>8. CASE TabLength BY <1>8 DEF TabLength, acpiVars
<1>9. CASE RemapTab BY <1>9 DEF RemapTab, MapThen, acpiVars
<1>10. CASE AcpiUnmapTab BY <1>10 DEF AcpiUnmapTab
<1>11. CASE AcpiProcessXsdt BY <1>11 DEF AcpiProcessXsdt
<1>12. CASE FirstTable BY <1>12 DEF FirstTable
<1>13. CASE MadtEnd BY <1>13 DEF MadtEnd, irqVars, acpiVars
<1>14. CASE ProcessIc BY <1>14 DEF ProcessIc
<1>15. CASE MapIoapic BY <1>15 DEF MapIoapic, MapThen, acpiVars
<1>16. CASE MaskPins BY <1>16 DEF MaskPins
<1>17. CASE UnmapRsdp BY <1>17 DEF UnmapRsdp, acpiVars
<1>18. CASE PortWrite BY <1>18 DEF PortWrite, acpiVars
<1>19. CASE IrqInitDone BY <1>19 DEF IrqInitDone, irqVars, acpiVars
<1> QED BY <1>1, <1>2, <1>3, <1>4, <1>5, <1>6, <1>7, <1>8, <1>9, <1>10, <1>11, <1>12,
           <1>13, <1>14, <1>15, <1>16, <1>17, <1>18, <1>19 DEF IrqInitStep

\* What is in registers other than the mode bits does not matter in real mode.
LEMMA RealForm ==
    ASSUME NEW r, NEW a, NEW f, NEW e, NEW c, NEW g, NEW d, r = Regs16(a, f, e, c, g, d)
    PROVE  IsReal(r)
BY DEF IsReal, Regs16

\* Interrupts are on in real mode only.
LEMMA RealWhenOn ==
    ASSUME CallInv, cpu.if, pc # "halted"
    PROVE  IsReal(cpu) /\ pc \in EndPcs \cup {"rom", "hello16"}
<1> USE DEF CallInv
<1>1. CASE pc \in OwnPcs BY <1>1 DEF RegsInv, Own
<1>2. CASE pc \in EndPcs BY <1>2 DEF RegsInv
<1>3. CASE pc \in {"rom", "hello16"} BY <1>3, RealForm DEF RegsInv
<1>4. CASE pc = "save" BY <1>4 DEF RegsInv, Regs16
<1>5. CASE pc = "restore" BY <1>5 DEF RegsInv, Regs16
<1>6. CASE pc = "reenter" BY <1>6 DEF RegsInv, Regs16
<1>7. CASE pc = "popfd" BY <1>7 DEF RegsInv, Regs32
<1> QED BY <1>1, <1>2, <1>3, <1>4, <1>5, <1>6, <1>7 DEF PcInv

\* Steps that change neither the registers nor what rm16_call keeps.
LEMMA CallSame ==
    ASSUME CallInv, UNCHANGED <<pc, cpu, ret, callee, words, ebda, tab>>
    PROVE  CallInv'
<1> USE DEF CallInv
<1>1. PcInv' /\ TabInv' /\ SegInv' BY DEF TabInv, SegInv, PcInv
<1>2. RegsInv' BY DEF RegsInv
<1>3. SavedInv' BY DEF SavedInv
<1>4. RetInv' BY DEF RetInv
<1> QED BY <1>1, <1>2, <1>3, <1>4

\* Once rm16_call has been left for good its state does not matter.
LEMMA CallOver ==
    ASSUME CallInv, UNCHANGED <<words, ebda, tab>>,
           pc' = "halted" \/ (pc' \in EndPcs /\ IsReal(cpu'))
    PROVE  CallInv'
<1> USE DEF CallInv, OwnPcs, IrqPcs, Stage1Pcs, MaskingPcs, EndPcs
<1>1. PcInv' /\ TabInv' /\ SegInv' BY DEF PcInv, TabInv, SegInv
<1>2. RegsInv' BY DEF RegsInv
<1>3. SavedInv' /\ RetInv' BY DEF SavedInv, RetInv
<1> QED BY <1>1, <1>2, <1>3

LEMMA CallStep == CallInv /\ [Next]_vars => CallInv'
<1> SUFFICES ASSUME CallInv, [Next]_vars PROVE CallInv' OBVIOUS
<1> USE DEF CallInv
<1>u. CASE UNCHANGED vars
  BY <1>u, CallSame DEF vars, irqVars, acpiVars, bootVars, callVars
<1>1. CASE Irq
  <2>1. /\ pc \in OwnPcs /\ pc' \in (OwnPcs \ {"leave"}) \cup {"halted"} /\ TabInv'
    BY <1>1, IrqPcStep DEF Irq, OwnPcs, IrqPcs, Stage1Pcs, MaskingPcs
  <2>2. UNCHANGED <<cpu, ret, callee, words, ebda>> BY <1>1 DEF Irq, bootVars, callVars
  <2>3. pc' = "halted" \/ (pc' \in OwnPcs /\ pc' # "leave") BY <2>1
  <2>4. pc' \notin EndPcs \cup {"save", "rom", "hello16", "restore", "reenter", "popfd", "leave"}
    BY <2>1 DEF OwnPcs, IrqPcs, Stage1Pcs, MaskingPcs, EndPcs
  <2>5. cpu = Own BY <2>1 DEF RegsInv
  <2>6. RegsInv' BY <2>2, <2>4, <2>5 DEF RegsInv, EndPcs
  <2>7. PcInv' /\ SegInv' BY <2>1, <2>2 DEF SegInv, PcInv
  <2>8. SavedInv' /\ RetInv' BY <2>4 DEF SavedInv, RetInv
  <2> QED BY <2>1, <2>6, <2>7, <2>8
<1>2. CASE Rm16Init
  <2>1. UNCHANGED <<cpu, ret, callee, words, tab>> /\ pc' \in {"irq_init", "halted"} /\ pc = "stage2_main"
    BY <1>2 DEF Rm16Init, irqVars, acpiVars, callVars
  <2>2. ebda' \in Segs BY <1>2 DEF Rm16Init, SegInv
  <2>3. PcInv' /\ TabInv' /\ SegInv' BY <2>1, <2>2 DEF PcInv, OwnPcs, IrqPcs, MaskingPcs, TabInv, SegInv
  <2>4. RegsInv' BY <2>1 DEF RegsInv, OwnPcs, IrqPcs, Stage1Pcs, MaskingPcs, EndPcs
  <2>5. SavedInv' /\ RetInv' BY <2>1 DEF SavedInv, RetInv
  <2> QED BY <2>3, <2>4, <2>5
<1>3. CASE RimgInit \/ Hello
  <2>0. UNCHANGED <<words, ebda, tab>> /\ pc = "rimg_init"
    BY <1>3 DEF RimgInit, Hello, Rm16Call, irqVars, acpiVars, bootVars, callVars
  <2>2. cpu = Own BY <2>0 DEF RegsInv, OwnPcs
  <2>3. CASE UNCHANGED <<pc, callVars>> BY <2>3, <2>0, CallSame DEF callVars
  <2>4. ASSUME Rm16Call("rom", "rimg_init") \/ Rm16Call("hello16", "rimg_init_rest")
        PROVE CallInv'
    <3>1. pc' = "leave" /\ cpu' = Own /\ callee' \in {"rom", "hello16"}
          /\ (callee' = "rom" => ret' = [to |-> "rimg_init", if |-> FALSE])
      BY <2>4, <2>2 DEF Rm16Call, Own
    <3>2. RegsInv' BY <3>1 DEF RegsInv, EndPcs
    <3>4. PcInv' /\ TabInv' /\ SegInv' BY <3>1, <2>0 DEF PcInv, TabInv, SegInv, OwnPcs
    <3>3. SavedInv' /\ RetInv' BY <3>1 DEF SavedInv, RetInv
    <3> QED BY <3>4, <3>2, <3>3
  <2> QED BY <1>3, <2>3, <2>4 DEF RimgInit, Hello
<1>4. CASE LeaveProtectedMode
  <2>0. UNCHANGED <<words, ebda, tab, ret, callee>> /\ pc = "leave" /\ pc' = "save"
    BY <1>4 DEF LeaveProtectedMode, irqVars, acpiVars, bootVars
  <2>1. PcInv' /\ TabInv' /\ SegInv' BY <2>0 DEF PcInv, TabInv, SegInv, OwnPcs
  <2>2. cpu = Own BY <2>0 DEF RegsInv, OwnPcs
  <2>3. cpu' = Regs16(TRUE, FALSE, "stage2", "stage2", "stage2", ebda)
    BY <1>4, <2>2 DEF LeaveProtectedMode, Regs16, Own
  <2>4. RegsInv' BY <2>0, <2>3 DEF RegsInv, OwnPcs, IrqPcs, Stage1Pcs, MaskingPcs, EndPcs
  <2>5. SavedInv' /\ RetInv' BY <2>0 DEF SavedInv, RetInv
  <2> QED BY <2>1, <2>4, <2>5
<1>5. CASE SaveRegisters
  <2>0. UNCHANGED <<ebda, tab, ret, callee>> /\ pc = "save" /\ pc' = callee
        /\ callee \in {"rom", "hello16"}
    BY <1>5 DEF SaveRegisters, irqVars, acpiVars, bootVars, RetInv
  <2>1. cpu = Regs16(TRUE, FALSE, "stage2", "stage2", "stage2", ebda) BY <2>0 DEF RegsInv
  <2>2. words' = [words EXCEPT ![ebda] = Saved]
    BY <1>5, <2>1 DEF SaveRegisters, Regs16, Saved
  <2>3. cpu' = Regs16(FALSE, cpu'.if, "stack16", cpu'.cr3, cpu'.gdtr, cpu'.ds)
    BY <1>5, <2>1 DEF SaveRegisters, Regs16
  <2>4. PcInv' /\ TabInv' /\ SegInv' BY <2>0, <2>2 DEF PcInv, TabInv, SegInv
  <2>5. RegsInv' BY <2>0, <2>3 DEF RegsInv, OwnPcs, IrqPcs, Stage1Pcs, MaskingPcs, EndPcs
  <2>6. SavedInv' BY <2>0, <2>2 DEF SavedInv, SegInv
  <2>7. RetInv' BY <2>0 DEF RetInv
  <2> QED BY <2>4, <2>5, <2>6, <2>7
<1>6. CASE CalleeReturns
  <2>0. UNCHANGED <<words, ebda, tab, ret, callee>> /\ pc = "rom" /\ pc' = "restore"
    BY <1>6 DEF CalleeReturns, irqVars, acpiVars, bootVars
  <2>1. PcInv' /\ TabInv' /\ SegInv' BY <2>0 DEF PcInv, TabInv, SegInv, OwnPcs
  <2>2. PICK f, c, g, d : cpu = Regs16(FALSE, f, "stack16", c, g, d) BY <2>0 DEF RegsInv
  <2>3. cpu' = Regs16(FALSE, FALSE, "stack16", c, g, d)
    BY <1>6, <2>2 DEF CalleeReturns, FlagAfterCall, Regs16
  <2>4. cpu' = Regs16(FALSE, FALSE, "stack16", cpu'.cr3, cpu'.gdtr, cpu'.ds)
    BY <2>3 DEF Regs16
  <2>5. RegsInv' BY <2>0, <2>4 DEF RegsInv, OwnPcs, IrqPcs, Stage1Pcs, MaskingPcs, EndPcs
  <2>6. SavedInv' /\ RetInv' BY <2>0 DEF SavedInv, RetInv
  <2> QED BY <2>1, <2>5, <2>6
<1>7. CASE RestoreRegisters
  <2>0. UNCHANGED <<words, ebda, tab, ret, callee>> /\ pc = "restore" /\ pc' = "reenter"
    BY <1>7 DEF RestoreRegisters, irqVars, acpiVars, bootVars
  <2>1. PcInv' /\ TabInv' /\ SegInv' BY <2>0 DEF PcInv, TabInv, SegInv, OwnPcs
  <2>2. PICK c, g, d : cpu = Regs16(FALSE, FALSE, "stack16", c, g, d) BY <2>0 DEF RegsInv
  <2>6. words[ebda] = Saved BY <2>0 DEF SavedInv
  <2>7. cpu' = [cpu EXCEPT !.ds = ebda, !.esp = "stage2", !.cr3 = "stage2", !.gdtr = "stage2"]
    BY <1>7, <2>6 DEF RestoreRegisters, SavedIn, Saved
  <2>3. cpu' = Regs16(FALSE, FALSE, "stage2", "stage2", "stage2", ebda)
    BY <2>7, <2>2 DEF Regs16
  <2>4. RegsInv' BY <2>0, <2>3 DEF RegsInv, OwnPcs, IrqPcs, Stage1Pcs, MaskingPcs, EndPcs
  <2>5. SavedInv' /\ RetInv' BY <2>0 DEF SavedInv, RetInv
  <2> QED BY <2>1, <2>4, <2>5
<1>8. CASE ReenterProtectedMode
  <2>0. UNCHANGED <<words, ebda, tab, ret, callee>> /\ pc = "reenter" /\ pc' = "popfd"
    BY <1>8 DEF ReenterProtectedMode, irqVars, acpiVars, bootVars
  <2>1. PcInv' /\ TabInv' /\ SegInv' BY <2>0 DEF PcInv, TabInv, SegInv, OwnPcs
  <2>2. cpu = Regs16(FALSE, FALSE, "stage2", "stage2", "stage2", ebda) BY <2>0 DEF RegsInv
  <2>3. cpu' = Regs32(ebda) BY <1>8, <2>2 DEF ReenterProtectedMode, Regs16, Regs32
  <2>4. RegsInv' BY <2>0, <2>3 DEF RegsInv, OwnPcs, IrqPcs, Stage1Pcs, MaskingPcs, EndPcs
  <2>5. SavedInv' /\ RetInv' BY <2>0 DEF SavedInv, RetInv
  <2> QED BY <2>1, <2>4, <2>5
<1>9. CASE Rm16CallReturns
  <2>0. UNCHANGED <<words, ebda, tab, ret, callee>> /\ pc = "popfd"
        /\ pc' = "rimg_init" /\ ret.if = FALSE
    BY <1>9 DEF Rm16CallReturns, irqVars, acpiVars, bootVars, RetInv
  <2>1. PcInv' /\ TabInv' /\ SegInv' BY <2>0 DEF PcInv, TabInv, SegInv, OwnPcs
  <2>2. cpu = Regs32(ebda) BY <2>0 DEF RegsInv
  <2>3. cpu' = Own BY <1>9, <2>0, <2>2 DEF Rm16CallReturns, Regs32, Own
  <2>4. RegsInv' BY <2>0, <2>3 DEF RegsInv, EndPcs
  <2>5. SavedInv' /\ RetInv' BY <2>0 DEF SavedInv, RetInv
  <2> QED BY <2>1, <2>4, <2>5
<1>10. CASE Hello16 \/ Isr16Unimpl \/ RomCallsUnimpl \/ Message
  <2>1. UNCHANGED <<words, ebda, tab>> /\ pc' \in EndPcs \cup {"halted"}
        /\ pc \in EndPcs \cup {"rom", "hello16"}
    BY <1>10 DEF Hello16, Isr16Unimpl, RomCallsUnimpl, Message, Panic, irqVars, acpiVars,
                 bootVars, EndPcs
  <2>2. PICK a, f, e, c, g, d : cpu = Regs16(a, f, e, c, g, d)
    BY <2>1 DEF RegsInv, IsReal
  <2>3. \E h, u, v : cpu' = Regs16(a, h, u, c, g, v)
    <3>1. CASE Isr16Unimpl BY <3>1, <2>2 DEF Isr16Unimpl, Regs16
    <3>2. CASE cpu' = [cpu EXCEPT !.if = TRUE] BY <3>2, <2>2 DEF Regs16
    <3>3. CASE cpu' = [cpu EXCEPT !.if = FALSE] BY <3>3, <2>2 DEF Regs16
    <3> QED BY <1>10, <3>1, <3>2, <3>3 DEF Hello16, RomCallsUnimpl, Message, Panic
  <2>4. IsReal(cpu') BY <2>3, RealForm
  <2> QED BY <2>1, <2>4, CallOver
<1>11. CASE RomSetsFlag \/ RomUsesRegisters
  <2>0. UNCHANGED <<words, ebda, tab, ret, callee>> /\ pc = "rom" /\ pc' = "rom"
    BY <1>11 DEF RomSetsFlag, RomUsesRegisters, irqVars, acpiVars, bootVars
  <2>1. PcInv' /\ TabInv' /\ SegInv' BY <2>0 DEF PcInv, TabInv, SegInv, OwnPcs
  <2>2. PICK e, c, g, d : cpu = Regs16(FALSE, e, "stack16", c, g, d) BY <2>0 DEF RegsInv
  <2>3. \E f, t, u : cpu' = Regs16(FALSE, f, "stack16", t, u, d)
    <3>1. CASE RomSetsFlag
      <4>1. PICK f \in BOOLEAN : cpu' = [cpu EXCEPT !.if = f] BY <3>1 DEF RomSetsFlag
      <4>2. cpu' = Regs16(FALSE, f, "stack16", c, g, d)
        BY <4>1, <2>2 DEF Regs16
      <4> QED BY <4>2
    <3>2. CASE RomUsesRegisters
      <4>1. cpu' = Regs16(FALSE, e, "stack16", "rom", "rom", d)
        BY <3>2, <2>2 DEF Regs16, RomUsesRegisters
      <4> QED BY <4>1
    <3> QED BY <3>1, <3>2, <1>11
  <2>4. cpu' = Regs16(FALSE, cpu'.if, "stack16", cpu'.cr3, cpu'.gdtr, cpu'.ds)
    BY <2>3 DEF Regs16
  <2>5. RegsInv' BY <2>0, <2>4 DEF RegsInv, OwnPcs, IrqPcs, Stage1Pcs, MaskingPcs, EndPcs
  <2>6. SavedInv' /\ RetInv' BY <2>0 DEF SavedInv, RetInv
  <2> QED BY <2>1, <2>5, <2>6
<1>12. CASE RomTakesInt10
  BY <1>12, CallSame DEF RomTakesInt10, irqVars, acpiVars, callVars
<1>13. CASE RomMovesEbda
  <2>0. UNCHANGED <<tab, cpu, ret, callee>> /\ pc = "rom" /\ pc' = "rom"
    BY <1>13 DEF RomMovesEbda, irqVars, acpiVars
  <2>1. PICK s \in Segs \ {ebda, rm16_cs} :
            words' = [words EXCEPT ![s] = words[ebda], ![ebda] = Garbage] /\ ebda' = s
    BY <1>13 DEF RomMovesEbda
  <2>2. words' = [t \in Segs |-> IF t = ebda THEN Garbage
                                 ELSE IF t = s THEN words[ebda] ELSE words[t]]
    BY <2>1 DEF SegInv
  <2>3. PcInv' /\ TabInv' /\ SegInv' BY <2>0, <2>1, <2>2 DEF PcInv, TabInv, SegInv
  <2>4. SavedInv' BY <2>0, <2>1, <2>2 DEF SavedInv
  <2>5. RegsInv' BY <2>0 DEF RegsInv, OwnPcs, IrqPcs, Stage1Pcs, MaskingPcs, EndPcs
  <2>6. RetInv' BY <2>0 DEF RetInv
  <2> QED BY <2>3, <2>4, <2>5, <2>6
<1>16. CASE Lapic
  BY <1>16, CallSame DEF Lapic, LapicAccepts, acpiVars, bootVars, callVars
<1>17. CASE LapicInterrupt
  <2>1. UNCHANGED <<words, ebda, tab, cpu>> /\ pc' \in EndPcs /\ IsReal(cpu)
    BY <1>17, RealWhenOn DEF LapicInterrupt, irqVars, acpiVars, bootVars, callVars, EndPcs
  <2> QED BY <2>1, CallOver DEF IsReal
<1>18. CASE \E n \in Lines : PicInterrupt(n)
  <2>1. UNCHANGED <<words, ebda, tab, ret, callee>> /\ IsReal(cpu)
    BY <1>18, RealWhenOn DEF PicInterrupt, irqVars, acpiVars, bootVars
  <2>2. \/ UNCHANGED <<pc, cpu>>
        \/ pc' = "wild" /\ UNCHANGED cpu
        \/ Panic
    BY <1>18 DEF PicInterrupt
  <2>3. CASE pc' = "wild" /\ UNCHANGED cpu BY <2>1, <2>3, CallOver DEF IsReal, EndPcs
  <2>4. CASE Panic
    <3>1. PICK a, f, e, c, g, d : cpu = Regs16(a, f, e, c, g, d) BY <2>1 DEF IsReal
    <3>2. cpu' = Regs16(a, FALSE, e, c, g, d) BY <3>1, <2>4 DEF Regs16, Panic
    <3>3. IsReal(cpu') BY <3>2, RealForm
    <3> QED BY <3>3, <2>1, <2>4, CallOver DEF Panic, EndPcs
  <2> QED BY <2>1, <2>2, <2>3, <2>4, CallSame
<1> QED BY <1>u, <1>1, <1>2, <1>3, <1>4, <1>5, <1>6, <1>7, <1>8, <1>9, <1>10, <1>11, <1>12,
           <1>13, <1>16, <1>17, <1>18 DEF Next, Main, Rom

\* After each call of rm16_call stage 2 has its own stack, page tables, GDT and
\* processor mode again (do-rm16-call.asm:52-75), for every option ROM and
\* every place it moves the EBDA to.
THEOREM RegistersIntact == Spec => []Intact
<1>1. CallInv => Intact BY DEF CallInv, RegsInv, Intact, OwnPcs
<1> QED BY <1>1, CallInit, CallStep, PTL DEF Spec

-----------------------------------------------------------------------------
(***************************************************************************)
(* Which steps change what irq_init works on.                              *)
(***************************************************************************)
LEMMA NextSplit ==
    ASSUME CallInv, [Next]_vars
    PROVE  \/ Irq \/ Isr16Unimpl \/ Lapic
           \/ /\ UNCHANGED irqVars
              /\ \/ pc' = pc
                 \/ pc = "stage2_main" /\ pc' \in {"irq_init", "halted"}
                 \/ pc \notin IrqPcs \cup {"halted"} /\ pc' \notin IrqPcs \cup {"message"}
<1> DEFINE G == /\ UNCHANGED irqVars
                /\ \/ pc' = pc
                   \/ pc = "stage2_main" /\ pc' \in {"irq_init", "halted"}
                   \/ pc \notin IrqPcs \cup {"halted"} /\ pc' \notin IrqPcs \cup {"message"}
<1> USE DEF IrqPcs, Stage1Pcs, MaskingPcs
<1>1. CASE UNCHANGED vars BY <1>1 DEF vars
<1>2. CASE Rm16Init BY <1>2 DEF Rm16Init
<1>3. CASE RimgInit BY <1>3 DEF RimgInit, Rm16Call
<1>4. CASE Hello BY <1>4 DEF Hello, Rm16Call
<1>5. CASE LeaveProtectedMode BY <1>5 DEF LeaveProtectedMode
<1>6. CASE SaveRegisters
  <2>1. callee \in {"rom", "hello16"} BY <1>6 DEF SaveRegisters, CallInv, RetInv
  <2> QED BY <1>6, <2>1 DEF SaveRegisters
<1>7. CASE CalleeReturns BY <1>7 DEF CalleeReturns
<1>8. CASE RestoreRegisters BY <1>8 DEF RestoreRegisters
<1>9. CASE ReenterProtectedMode BY <1>9 DEF ReenterProtectedMode
<1>10. CASE Rm16CallReturns
  <2>1. ret.to = "rimg_init" BY <1>10 DEF Rm16CallReturns, CallInv, RetInv
  <2> QED BY <1>10, <2>1 DEF Rm16CallReturns
<1>11. CASE Hello16 BY <1>11 DEF Hello16, Panic
<1>12. CASE RomSetsFlag \/ RomUsesRegisters \/ RomTakesInt10 \/ RomMovesEbda
  BY <1>12 DEF RomSetsFlag, RomUsesRegisters, RomTakesInt10, RomMovesEbda
<1>13. CASE RomCallsUnimpl BY <1>13 DEF RomCallsUnimpl, Panic
<1>14. CASE Message BY <1>14 DEF Message, Panic
<1>15. CASE LapicInterrupt
  <2>1. pc \in EndPcs \cup {"rom", "hello16"} BY <1>15, RealWhenOn DEF LapicInterrupt
  <2> QED BY <1>15, <2>1 DEF LapicInterrupt, EndPcs
<1>16. CASE \E n \in Lines : PicInterrupt(n)
  <2>1. pc \in EndPcs \cup {"rom", "hello16"} BY <1>16, RealWhenOn DEF PicInterrupt
  <2> QED BY <1>16, <2>1 DEF PicInterrupt, EndPcs, Panic
<1> QED BY <1>1, <1>2, <1>3, <1>4, <1>5, <1>6, <1>7, <1>8, <1>9, <1>10, <1>11, <1>12,
           <1>13, <1>14, <1>15, <1>16 DEF Next, Main, Rom

\* In irq_init, one step programs the devices and one masks pins.
LEMMA IrqFrame ==
    ASSUME IrqInitStep
    PROVE  /\ UNCHANGED <<machine, lapic>>
           /\ PortWrite \/ UNCHANGED <<pics, pit, written>>
           /\ MaskPins \/ UNCHANGED masked
<1> USE DEF irqVars, devVars
<1>1. CASE ProcessEfiConfTables BY <1>1 DEF ProcessEfiConfTables
<1>2. CASE CheckXsdt BY <1>2 DEF CheckXsdt
<1>3. CASE CheckTable BY <1>3 DEF CheckTable
<1>4. CASE AddRsdp BY <1>4 DEF AddRsdp
<1>5. CASE MapRsdp BY <1>5 DEF MapRsdp
<1>6. CASE AcpiProcessRsdp BY <1>6 DEF AcpiProcessRsdp
<1>7. CASE AcpiMapTab BY <1>7 DEF AcpiMapTab
<1>8. CASE TabLength BY <1>8 DEF TabLength
<1>9. CASE RemapTab BY <1>9 DEF RemapTab
<1>10. CASE AcpiUnmapTab BY <1>10 DEF AcpiUnmapTab
<1>11. CASE AcpiProcessXsdt BY <1>11 DEF AcpiProcessXsdt
<1>12. CASE FirstTable BY <1>12 DEF FirstTable
<1>13. CASE MadtEnd BY <1>13 DEF MadtEnd
<1>14. CASE ProcessIc BY <1>14 DEF ProcessIc
<1>15. CASE MapIoapic BY <1>15 DEF MapIoapic
<1>16. CASE MaskPins BY <1>16 DEF MaskPins
<1>17. CASE UnmapRsdp BY <1>17 DEF UnmapRsdp
<1>18. CASE PortWrite BY <1>18 DEF PortWrite
<1>19. CASE IrqInitDone BY <1>19 DEF IrqInitDone
<1> QED BY <1>1, <1>2, <1>3, <1>4, <1>5, <1>6, <1>7, <1>8, <1>9, <1>10, <1>11, <1>12,
           <1>13, <1>14, <1>15, <1>16, <1>17, <1>18, <1>19 DEF IrqInitStep

-----------------------------------------------------------------------------
(***************************************************************************)
(* The 8259s.                                                              *)
(***************************************************************************)
LEMMA WritesAre ==
    /\ Len(Writes) = 15
    /\ Writes[1] = Write(1, "cmd", {0, 4}) /\ Writes[2] = Write(2, "cmd", {0, 4})
    /\ Writes[3] = Write(1, "data", {3}) /\ Writes[4] = Write(2, "data", {4, 5, 6})
    /\ Writes[5] = Write(1, "data", {2}) /\ Writes[6] = Write(2, "data", {1})
    /\ Writes[7] = Write(1, "data", {0}) /\ Writes[8] = Write(2, "data", {0})
    /\ Writes[9] = Write(1, "data", 2 .. 7) /\ Writes[10] = Write(2, "data", 0 .. 7)
    /\ Writes[11] = Write(1, "cmd", {5}) /\ Writes[12] = Write(2, "cmd", {5})
    /\ Writes[13] = Write(0, "cmd", {1, 2, 4, 5}) /\ Writes[14] = Write(0, "data", {})
    /\ Writes[15] = Write(0, "data", {})
BY DEF Writes, PortWrites

\* What the bytes that initialize an 8259 do to it.
LEMMA AfterDataIs ==
    ASSUME NEW p \in Pics, NEW v \in Bytes
    PROVE  /\ AfterData(p, v) \in Pics
           /\ p.step = "icw2" => AfterData(p, v).step = "icw3" /\ AfterData(p, v).base = v
           /\ p.step = "icw3" => AfterData(p, v).step = "icw4" /\ AfterData(p, v).base = p.base
           /\ p.step = "icw4" => /\ AfterData(p, v).step = "ready" /\ AfterData(p, v).base = p.base
                                 /\ 0 \in v => AfterData(p, v).x86
           /\ p.step = "ready" => /\ AfterData(p, v).step = "ready" /\ AfterData(p, v).base = p.base
                                  /\ p.x86 => AfterData(p, v).x86
                                  /\ AfterData(p, v).imr = v
<1>1. CASE p.step = "icw2" BY <1>1 DEF AfterData, Pics
<1>2. CASE p.step = "icw3" BY <1>2 DEF AfterData, Pics
<1>3. CASE p.step = "icw4"
  <2>1. PICK b \in BOOLEAN : b = (0 \in v)
    <3>1. (0 \in v) \in BOOLEAN OBVIOUS
    <3> QED BY <3>1, Zenon
  <2>2. AfterData(p, v) = [p EXCEPT !.x86 = (0 \in v), !.step = "ready"]
    BY <1>3 DEF AfterData
  <2>3. AfterData(p, v) = [p EXCEPT !.x86 = b, !.step = "ready"] BY <2>1, <2>2
  <2>4. 0 \in v => b = TRUE BY <2>1
  <2> HIDE <2>1
  <2> QED BY <1>3, <2>3, <2>4 DEF Pics
<1>4. CASE p.step = "ready" BY <1>4 DEF AfterData, Pics
<1> QED BY <1>1, <1>2, <1>3, <1>4 DEF Pics

LEMMA AfterCmdIs ==
    ASSUME NEW p \in Pics, NEW v \in Bytes, NEW q \in AfterCmd(p, v)
    PROVE  /\ q \in Pics
           /\ 4 \in v => q.step = "icw2"
           /\ 4 \notin v => /\ q.step = p.step /\ q.base = p.base /\ q.imr = p.imr
                            /\ p.x86 => q.x86
<1>1. CASE 4 \in v
  <2>1. PICK z \in {{}, p.isr} :
            q = [p EXCEPT !.step = "icw2", !.imr = {}, !.x86 = FALSE, !.isr = z]
    BY <1>1 DEF AfterCmd
  <2>2. z \in Bytes BY DEF Pics, Bytes
  <2>3. q = [step |-> "icw2", base |-> p.base, imr |-> {}, isr |-> z, x86 |-> FALSE]
    BY <2>1 DEF Pics
  <2>4. {} \in Bytes BY DEF Bytes
  <2> QED BY <1>1, <2>2, <2>3, <2>4 DEF Pics
<1>2. CASE 4 \notin v
  <2>1. PICK z \in Bytes : q = [p EXCEPT !.isr = z]
    <3>1. q = [p EXCEPT !.isr = IF 5 \in v /\ @ # {} THEN @ \ {Min(@)} ELSE @]
      BY <1>2 DEF AfterCmd
    <3>2. (IF 5 \in v /\ p.isr # {} THEN p.isr \ {Min(p.isr)} ELSE p.isr) \in Bytes
      BY DEF Pics, Bytes
    <3> QED BY <3>1, <3>2 DEF Pics
  <2> QED BY <1>2, <2>1 DEF Pics
<1> QED BY <1>1, <1>2

LEMMA PortWriteStep ==
    ASSUME PicsInv, PortWrite
    PROVE  /\ pics' \in [1 .. 2 -> Pics] /\ written' \in 0 .. 15
           /\ machine.has8259 => PicStep(pics'[1], written')
<1> DEFINE w == Writes[written + 1]
<1>1. written \in 0 .. 14 /\ written' = written + 1
  BY WritesAre DEF PortWrite, PicsInv
<1>2. w.val \in Bytes /\ w.port \in {"cmd", "data"}
  <2>1. \A v : v \in {{0, 4}, {3}, {4, 5, 6}, {2}, {1}, {0}, 2 .. 7, 0 .. 7, {5}, {1, 2, 4, 5}, {}}
            => v \in Bytes
    BY DEF Bytes
  <2> QED BY <1>1, <2>1, WritesAre DEF Write
<1>3. PicWrite(w) \/ PitWrite(w) BY DEF PortWrite
<1> HIDE DEF w
<1>4. CASE w.dev = 0 \/ ~machine.has8259
  <2>1. pics' = pics BY <1>3, <1>4 DEF PicWrite, PitWrite
  <2>2. machine.has8259 => written \in {12, 13, 14} BY <1>1, <1>4, WritesAre DEF Write, w
  <2>3. machine.has8259 => PicStep(pics'[1], written')
    BY <2>1, <2>2, <1>1 DEF PicsInv, PicStep
  <2> QED BY <1>1, <2>1, <2>3 DEF PicsInv
<1>5. CASE w.dev # 0 /\ machine.has8259
  <2>1. PICK q \in IF w.port = "cmd" THEN AfterCmd(pics[w.dev], w.val)
                   ELSE {AfterData(pics[w.dev], w.val)} :
            pics' = [pics EXCEPT ![w.dev] = q]
    BY <1>3, <1>5 DEF PicWrite, PitWrite
  <2>2. w.dev \in {1, 2} /\ pics[w.dev] \in Pics BY <1>3, <1>5 DEF PicWrite, PitWrite, PicsInv
  <2>3. q \in Pics
    <3>1. CASE w.port = "cmd" BY <3>1, <2>1, <2>2, <1>2, AfterCmdIs
    <3>2. CASE w.port = "data"
      <4>1. q = AfterData(pics[w.dev], w.val) BY <3>2, <2>1
      <4> QED BY <4>1, <2>2, <1>2, AfterDataIs
    <3> QED BY <3>1, <3>2, <1>2
  <2>4. pics' \in [1 .. 2 -> Pics] BY <2>1, <2>2, <2>3 DEF PicsInv
  <2>5. PicStep(pics[1], written) BY <1>5 DEF PicsInv
  <2>6. CASE w.dev = 2
    <3>1. pics'[1] = pics[1] BY <2>1, <2>6 DEF PicsInv
    <3>2. written \in {1, 3, 5, 7, 9, 11} BY <1>1, <2>6, WritesAre DEF Write, w
    <3>3. PicStep(pics'[1], written') BY <3>1, <3>2, <2>5, <1>1 DEF PicStep
    <3> QED BY <1>1, <2>4, <3>3
  <2>7. CASE w.dev = 1
    <3> SUFFICES PicStep(pics'[1], written') BY <1>1, <2>4
    <3>1. pics'[1] = q BY <2>1, <2>7 DEF PicsInv
    <3>9. /\ w.port = "cmd" => q \in AfterCmd(pics[1], w.val)
          /\ w.port = "data" => q = AfterData(pics[1], w.val)
      BY <2>1, <2>7
    <3>10. pics[1] \in Pics BY <2>2, <2>7
    <3>2. written \in {0, 2, 4, 6, 8, 10} BY <1>1, <2>7, WritesAre DEF Write, w
    <3>3. CASE written = 0
      <4>1. w.port = "cmd" /\ 4 \in w.val BY <3>3, WritesAre DEF Write, w
      <4>2. q.step = "icw2" BY <4>1, <3>9, <3>10, <1>2, AfterCmdIs
      <4> QED BY <4>2, <3>1, <3>3, <1>1 DEF PicStep
    <3>4. CASE written = 2
      <4>1. w.port = "data" /\ w.val = {3} BY <3>4, WritesAre DEF Write, w
      <4>2. q.step = "icw3" /\ q.base = {3}
        BY <4>1, <3>9, <3>10, <2>5, <3>4, <1>2, AfterDataIs DEF PicStep
      <4> QED BY <4>2, <3>1, <3>4, <1>1 DEF PicStep
    <3>5. CASE written = 4
      <4>1. w.port = "data" BY <3>5, WritesAre DEF Write, w
      <4>2. q.step = "icw4" /\ q.base = {3}
        BY <4>1, <3>9, <3>10, <2>5, <3>5, <1>2, AfterDataIs DEF PicStep
      <4> QED BY <4>2, <3>1, <3>5, <1>1 DEF PicStep
    <3>6. CASE written = 6
      <4>1. w.port = "data" /\ 0 \in w.val BY <3>6, WritesAre DEF Write, w
      <4>2. q.step = "ready" /\ q.base = {3} /\ q.x86
        BY <4>1, <3>9, <3>10, <2>5, <3>6, <1>2, AfterDataIs DEF PicStep
      <4> QED BY <4>2, <3>1, <3>6, <1>1 DEF PicStep
    <3>7. CASE written = 8
      <4>1. w.port = "data" /\ w.val = 2 .. 7 BY <3>7, WritesAre DEF Write, w
      <4>2. q.step = "ready" /\ q.base = {3} /\ q.x86 /\ q.imr = 2 .. 7
        BY <4>1, <3>9, <3>10, <2>5, <3>7, <1>2, AfterDataIs DEF PicStep
      <4> QED BY <4>2, <3>1, <3>7, <1>1 DEF PicStep
    <3>8. CASE written = 10
      <4>1. w.port = "cmd" /\ 4 \notin w.val BY <3>8, WritesAre DEF Write, w
      <4>2. q.step = "ready" /\ q.base = {3} /\ q.x86 /\ 2 .. 7 \subseteq q.imr
        BY <4>1, <3>9, <3>10, <2>5, <3>8, <1>2, AfterCmdIs DEF PicStep
      <4> QED BY <4>2, <3>1, <3>8, <1>1 DEF PicStep
    <3> QED BY <3>2, <3>3, <3>4, <3>5, <3>6, <3>7, <3>8
  <2> QED BY <2>2, <2>6, <2>7
<1> QED BY <1>4, <1>5

LEMMA PicsStep ==
    ASSUME CallInv, PicsInv, [Next]_vars
    PROVE  PicsInv'
<1> USE DEF IrqPcs, Stage1Pcs, MaskingPcs
<1>1. CASE Irq
  <2>1. /\ pc \in IrqPcs /\ pc' \in IrqPcs \cup {"rimg_init", "halted"}
        /\ (pc' = "rimg_init" => IrqInitDone) /\ machine' = machine
    BY <1>1, IrqPcStep, IrqFrame DEF Irq, CallInv
  <2>2. CASE PortWrite
    <3>1. pc' = pc BY <2>2 DEF PortWrite
    <3> QED BY <3>1, <2>1, <2>2, PortWriteStep DEF PicsInv
  <2>3. CASE UNCHANGED <<pics, pit, written>>
    <3>1. pc' = "rimg_init" => written = 15 BY <2>1, WritesAre DEF IrqInitDone
    <3> QED BY <2>1, <2>3, <3>1 DEF PicsInv
  <2> QED BY <1>1, <2>2, <2>3, IrqFrame DEF Irq
<1>2. CASE Isr16Unimpl
  <2>1. UNCHANGED <<machine, written>> /\ pc' = "message" /\ written = 15
    BY <1>2 DEF Isr16Unimpl, PicsInv
  <2>2. 0 .. 7 \in Bytes BY DEF Bytes
  <2>3. \A n \in {1, 2} : AfterData(pics[n], 0 .. 7) \in Pics
    BY <2>2, AfterDataIs DEF PicsInv
  <2>4. pics' \in [1 .. 2 -> Pics]
    BY <1>2, <2>3 DEF Isr16Unimpl, PanicMask
  <2>5. ASSUME machine.has8259
        PROVE  PicStep(pics'[1], 15) /\ 0 .. 7 \subseteq pics'[1].imr
    <3>1. pics[1] \in Pics /\ PicStep(pics[1], 15) BY <2>5, <2>1 DEF PicsInv
    <3>2. pics'[1] = AfterData(pics[1], 0 .. 7) BY <1>2 DEF Isr16Unimpl, PanicMask
    <3>3. pics'[1].step = "ready" /\ pics'[1].base = {3} /\ pics'[1].x86
          /\ pics'[1].imr = 0 .. 7
      BY <3>1, <3>2, <2>2, AfterDataIs DEF PicStep
    <3> QED BY <3>3 DEF PicStep
  <2> QED BY <2>1, <2>4, <2>5 DEF PicsInv
<1>3. CASE Lapic BY <1>3 DEF Lapic, LapicAccepts, PicsInv
<1>4. CASE UNCHANGED irqVars /\ pc' = pc BY <1>4 DEF irqVars, devVars, PicsInv
<1>5. CASE UNCHANGED irqVars /\ pc = "stage2_main" /\ pc' \in {"irq_init", "halted"}
  BY <1>5 DEF irqVars, devVars, PicsInv
<1>6. CASE UNCHANGED irqVars /\ pc \notin IrqPcs \cup {"halted"}
           /\ pc' \notin IrqPcs \cup {"message"}
  BY <1>6 DEF irqVars, devVars, PicsInv
<1> QED BY <1>1, <1>2, <1>3, <1>4, <1>5, <1>6, NextSplit

\* The vectors are set by rm16_init, and option ROMs take over only int 0x10.
LEMMA IvtStep ==
    ASSUME CallInv, IvtInv, [Next]_vars
    PROVE  IvtInv'
<1> USE DEF IvtInv, IrqPcs, Stage1Pcs, MaskingPcs, Vectors
<1>1. CASE Rm16Init
  <2>1. (ivt' = ivt /\ pc' = "halted") \/ ivt' = Vecs16 BY <1>1 DEF Rm16Init
  <2>2. Vecs16[8] = "irq0" /\ Vecs16[9] = "irq1" BY DEF Vecs16
  <2>3. Vecs16 = [v \in Vectors |-> Vecs16[v]] BY DEF Vecs16
  <2>4. CASE ivt' = Vecs16
    <3>1. ivt' = [v \in Vectors |-> ivt'[v]] BY <2>4, <2>3
    <3>2. ivt'[8] = "irq0" /\ ivt'[9] = "irq1" BY <2>4, <2>2
    <3> QED BY <3>1, <3>2
  <2>5. CASE ivt' = ivt /\ pc' = "halted" BY <2>5
  <2> QED BY <2>1, <2>4, <2>5
<1>2. CASE RomTakesInt10
  <2>1. ivt' = [v \in Vectors |-> IF v = 16 THEN "rom" ELSE ivt[v]]
    BY <1>2 DEF RomTakesInt10
  <2>2. ivt' = [v \in Vectors |-> ivt'[v]] BY <2>1
  <2>3. ivt'[8] = ivt[8] /\ ivt'[9] = ivt[9] /\ pc' = pc BY <1>2, <2>1 DEF RomTakesInt10
  <2> QED BY <2>2, <2>3
<1>3. CASE Irq
  <2>1. ivt' = ivt BY <1>3 DEF Irq, bootVars
  <2>2. pc' \notin Stage1Pcs \cup {"stage2_main", "halted"}
            => pc \notin Stage1Pcs \cup {"stage2_main", "halted"}
    <3> SUFFICES ASSUME pc \in Stage1Pcs \cup {"stage2_main", "halted"}
                 PROVE  pc' \in Stage1Pcs \cup {"stage2_main", "halted"}
      OBVIOUS
    <3>1. CASE ProcessEfiConfTables BY <3>1 DEF ProcessEfiConfTables
    <3>2. CASE CheckXsdt BY <3>2 DEF CheckXsdt
    <3>3. CASE CheckTable BY <3>3 DEF CheckTable
    <3>4. CASE AddRsdp BY <3>4 DEF AddRsdp
    <3> QED BY <1>3, <3>1, <3>2, <3>3, <3>4
            DEF Irq, IrqInitStep, MapRsdp, AcpiProcessRsdp, AcpiMapTab, TabLength, RemapTab,
                AcpiUnmapTab, AcpiProcessXsdt, FirstTable, MadtEnd, ProcessIc, MapIoapic,
                MaskPins, UnmapRsdp, PortWrite, IrqInitDone
  <2> QED BY <2>1, <2>2
<1>4. CASE ~Irq /\ ~Rm16Init /\ ~RomTakesInt10
  <2>1. ivt' = ivt
    BY <1>4 DEF Next, Main, Rom, vars, RimgInit, Hello, LeaveProtectedMode, SaveRegisters,
                CalleeReturns, RestoreRegisters, ReenterProtectedMode, Rm16CallReturns,
                Hello16, Isr16Unimpl, RomSetsFlag, RomUsesRegisters, RomMovesEbda,
                RomCallsUnimpl, Message, Lapic, LapicInterrupt, PicInterrupt, bootVars
  <2>2. pc' = pc \/ pc \notin IrqPcs \cup {"halted"}
    <3>1. CASE pc = "stage2_main"
      <4>1. cpu = Own BY <3>1 DEF CallInv, RegsInv, OwnPcs
      <4> QED BY <1>4, <3>1, <4>1
              DEF Next, Main, Rom, vars, RimgInit, Hello, LeaveProtectedMode, SaveRegisters,
                CalleeReturns, RestoreRegisters, ReenterProtectedMode, Rm16CallReturns,
                Hello16, Isr16Unimpl, RomSetsFlag, RomUsesRegisters, RomMovesEbda,
                RomCallsUnimpl, Message, Lapic, LapicAccepts, LapicInterrupt, PicInterrupt, Own
    <3>2. CASE pc # "stage2_main"
      BY <1>4, <3>2, NextSplit DEF Isr16Unimpl, Lapic, LapicAccepts
    <3> QED BY <3>1, <3>2
  <2> QED BY <2>1, <2>2
<1> QED BY <1>1, <1>2, <1>3, <1>4

-----------------------------------------------------------------------------
(***************************************************************************)
(* The ACPI tables.                                                        *)
(***************************************************************************)
LEMMA RsdpStep ==
    ASSUME CallInv, RsdpInv, [Next]_vars
    PROVE  RsdpInv'
<1> USE DEF IrqPcs, Stage1Pcs, MaskingPcs
<1>1. CASE ProcessEfiConfTables
  <2>0. UNCHANGED <<machine>> /\ machine \in Machines
    BY <1>1 DEF ProcessEfiConfTables, RsdpInv
  <2>1. CASE pc' = "error" BY <2>0, <2>1 DEF RsdpInv
  <2>2. CASE pc' = "acpi_init"
    <3> DEFINE acpi == {n \in DOMAIN machine.conf : machine.conf[n] # NoXsdp}
    <3>1. acpi # {} /\ rsdp' = machine.conf[Max(acpi)]
      BY <1>1, <2>2 DEF ProcessEfiConfTables
    <3>2. machine.conf \in Seq(Xsdps) BY <2>0, IrqAssumption
    <3>3. acpi \subseteq 0 .. Len(machine.conf) /\ Len(machine.conf) \in Nat BY <3>2
    <3> HIDE DEF acpi
    <3>4. \E x \in acpi : \A y \in acpi : y =< x BY <3>1, <3>3, GreatestElement
    <3>5. Max(acpi) \in acpi BY <3>4 DEF Max
    <3>6. Max(acpi) \in DOMAIN machine.conf BY <3>5 DEF acpi
    <3>7. rsdp' \in Xsdps BY <3>1, <3>2, <3>6
    <3>8. WellFormed(rsdp'.xsdt, machine) BY <3>1, <3>6, <2>0, IrqAssumption
    <3> QED BY <2>0, <2>2, <3>7, <3>8 DEF RsdpInv
  <2> QED BY <2>1, <2>2, <1>1 DEF ProcessEfiConfTables
<1>2. CASE CheckXsdt
  BY <1>2 DEF CheckXsdt, RsdpInv, irqVars, acpiVars, RsdpGood
<1>3. CASE CheckTable
  BY <1>3 DEF CheckTable, RsdpInv
<1>4. CASE AddRsdp
  BY <1>4 DEF AddRsdp, RsdpInv
<1>5. CASE Irq /\ pc \notin {"conf", "acpi_init", "check"}
  <2>1. UNCHANGED <<machine, rsdp, rsdp_sz>>
    BY <1>5 DEF Irq, IrqInitStep, ProcessEfiConfTables, CheckXsdt, CheckTable, AddRsdp,
                MapRsdp, AcpiProcessRsdp, AcpiMapTab, TabLength, RemapTab, AcpiUnmapTab,
                AcpiProcessXsdt, FirstTable, MadtEnd, ProcessIc, MapIoapic, MaskPins,
                UnmapRsdp, PortWrite, IrqInitDone, acpiVars, irqVars
  <2>2. pc \notin Stage1Pcs
    BY <1>5, IrqPcStep DEF Irq, CallInv
  <2> QED BY <2>1, <2>2 DEF RsdpInv
<1>6. CASE Irq /\ pc \in {"conf", "acpi_init", "check"}
  BY <1>6, <1>1, <1>2, <1>3, <1>4
     DEF Irq, IrqInitStep, MapRsdp, AcpiProcessRsdp, AcpiMapTab, TabLength, RemapTab,
         AcpiUnmapTab, AcpiProcessXsdt, FirstTable, MadtEnd, ProcessIc, MapIoapic, MaskPins,
         UnmapRsdp, PortWrite, IrqInitDone
<1>7. CASE Isr16Unimpl BY <1>7 DEF Isr16Unimpl, acpiVars, RsdpInv
<1>8. CASE Lapic BY <1>8 DEF Lapic, LapicAccepts, acpiVars, RsdpInv
<1>9. CASE UNCHANGED irqVars /\ pc' = pc BY <1>9 DEF irqVars, acpiVars, RsdpInv
<1>10. CASE UNCHANGED irqVars /\ pc \notin Stage1Pcs
  BY <1>10 DEF irqVars, acpiVars, RsdpInv
<1> QED BY <1>5, <1>6, <1>7, <1>8, <1>9, <1>10, NextSplit

\* In a MADT, later structures end further on.
LEMMA IcsGrow ==
    ASSUME NEW t \in Tables, Packed(t)
    PROVE  /\ \A k \in 0 .. Len(t.ics) : IcsEnd(t, k) \in Nat
           /\ \A k \in 1 .. Len(t.ics) : IcsEnd(t, k) = IcsEnd(t, k - 1) + t.ics[k].length
           /\ \A j, k \in 0 .. Len(t.ics) : j < k => IcsEnd(t, j) < IcsEnd(t, k)
<1>1. t.ics \in Seq(Ics) /\ Len(t.ics) \in Nat BY DEF Tables
<1>2. ASSUME NEW k \in 1 .. Len(t.ics)
      PROVE  /\ t.ics[k].off \in Nat /\ t.ics[k].length \in Nat \ {0}
             /\ t.ics[k].off = IcsEnd(t, k - 1)
  <2>1. k \in DOMAIN t.ics BY <1>1
  <2>2. t.ics[k] \in Ics BY <1>1
  <2> QED BY <2>1, <2>2 DEF Ics, Packed
<1>4. ASSUME NEW k \in 1 .. Len(t.ics)
      PROVE  IcsEnd(t, k) = IcsEnd(t, k - 1) + t.ics[k].length /\ IcsEnd(t, k) \in Nat
  <2>1. IcsEnd(t, k) = t.ics[k].off + t.ics[k].length BY <1>1 DEF IcsEnd
  <2> QED BY <2>1, <1>2
<1>3. ASSUME NEW k \in 0 .. Len(t.ics) PROVE IcsEnd(t, k) \in Nat
  <2>1. CASE k = 0 BY <2>1, IrqAssumption DEF IcsEnd
  <2>2. CASE k # 0
    <3>1. k \in 1 .. Len(t.ics) BY <2>2, <1>1
    <3> QED BY <3>1, <1>4
  <2> QED BY <2>1, <2>2
<1>5. ASSUME NEW j \in 0 .. Len(t.ics), NEW k \in 0 .. Len(t.ics), j < k
      PROVE  IcsEnd(t, j) < IcsEnd(t, k)
  <2> DEFINE S == {m \in 0 .. Len(t.ics) : j < m /\ ~(IcsEnd(t, j) < IcsEnd(t, m))}
  <2> SUFFICES ASSUME S # {} PROVE FALSE BY <1>5
  <2>1. S \subseteq Nat BY <1>1
  <2>2. PICK m \in S : \A n \in S : m =< n BY <2>1, LeastElement
  <2>3. m \in 1 .. Len(t.ics) /\ j < m /\ ~(IcsEnd(t, j) < IcsEnd(t, m)) BY <1>1
  <2>4. m - 1 \in 0 .. Len(t.ics) /\ m - 1 \notin S BY <2>2, <2>3
  <2>5. m - 1 = j \/ IcsEnd(t, j) < IcsEnd(t, m - 1) BY <2>3, <2>4
  <2>6. IcsEnd(t, m) = IcsEnd(t, m - 1) + t.ics[m].length /\ t.ics[m].length \in Nat \ {0}
    BY <1>4, <1>2, <2>3
  <2>7. IcsEnd(t, m - 1) \in Nat /\ IcsEnd(t, j) \in Nat BY <1>3, <2>4
  <2> QED BY <2>3, <2>5, <2>6, <2>7
<1> QED BY <1>3, <1>4, <1>5

\* So an offset tells which structure is meant, and when there are no more.
LEMMA IcFound ==
    ASSUME NEW t \in Tables, Packed(t), NEW k \in 1 .. Len(t.ics) + 1, ic = IcsEnd(t, k - 1)
    PROVE  /\ \A n \in IcsAt(t, ic) : n = k
           /\ k =< Len(t.ics) => k \in IcsAt(t, ic) /\ ic # t.length
           /\ k = Len(t.ics) + 1 => ic = t.length
           /\ \A n \in IcsAt(t, ic) : IcNext(t.ics[n]) = IcsEnd(t, n)
<1>1. t.ics \in Seq(Ics) /\ Len(t.ics) \in Nat BY DEF Tables
<1>2. DOMAIN t.ics = 1 .. Len(t.ics) BY <1>1
<1>3. \A n \in 1 .. Len(t.ics) : t.ics[n].off = IcsEnd(t, n - 1) BY <1>2 DEF Packed
<1>4. t.length = IcsEnd(t, Len(t.ics)) BY DEF Packed
<1>5. ASSUME NEW n \in IcsAt(t, ic) PROVE n = k
  <2>1. n \in 1 .. Len(t.ics) /\ IcsEnd(t, n - 1) = IcsEnd(t, k - 1)
    BY <1>2, <1>3 DEF IcsAt
  <2>2. n - 1 \in 0 .. Len(t.ics) /\ k - 1 \in 0 .. Len(t.ics) BY <2>1, <1>1
  <2>3. /\ n - 1 < k - 1 => IcsEnd(t, n - 1) < IcsEnd(t, k - 1)
        /\ k - 1 < n - 1 => IcsEnd(t, k - 1) < IcsEnd(t, n - 1)
        /\ IcsEnd(t, n - 1) \in Nat
    BY <2>2, IcsGrow
  <2> QED BY <2>1, <2>2, <2>3, <1>1
<1>6. ASSUME k =< Len(t.ics) PROVE k \in IcsAt(t, ic) /\ ic # t.length
  <2>1. k \in 1 .. Len(t.ics) /\ k - 1 \in 0 .. Len(t.ics) /\ Len(t.ics) \in 0 .. Len(t.ics)
        /\ k - 1 < Len(t.ics)
    BY <1>6, <1>1
  <2>2. IcsEnd(t, k - 1) < IcsEnd(t, Len(t.ics)) /\ IcsEnd(t, k - 1) \in Nat
    BY <2>1, IcsGrow
  <2> QED BY <2>1, <2>2, <1>2, <1>3, <1>4 DEF IcsAt
<1>7. k = Len(t.ics) + 1 => ic = t.length BY <1>1, <1>4
<1>8. ASSUME NEW n \in IcsAt(t, ic) PROVE IcNext(t.ics[n]) = IcsEnd(t, n)
  <2>1. n \in 1 .. Len(t.ics) /\ t.ics[n].off = ic BY <1>2 DEF IcsAt
  <2> QED BY <2>1, <1>1 DEF IcNext, IcsEnd
<1> QED BY <1>5, <1>6, <1>7, <1>8

\* The tables that stage 1 let pass are as many as it takes the XSDT to refer
\* to, and their MADTs are packed.
LEMMA TablesKnown ==
    ASSUME RsdpInv, pc \notin {"conf", "error", "acpi_init"}
    PROVE  /\ rsdp.xsdt.tables \in Seq(Tables)
           /\ Len(rsdp.xsdt.tables) \in Nat
           /\ DOMAIN rsdp.xsdt.tables = 1 .. Len(rsdp.xsdt.tables)
           /\ rsdp.xsdt.length \in Nat /\ rsdp.xsdt.length >= HeaderSize + PointerSize
           /\ NumTables(rsdp.xsdt) = Len(rsdp.xsdt.tables)
           /\ \A n \in 1 .. Len(rsdp.xsdt.tables) :
                /\ rsdp.xsdt.tables[n] \in Tables
                /\ rsdp.xsdt.tables[n].length >= HeaderSize
                /\ rsdp.xsdt.tables[n].sig = "APIC" => Packed(rsdp.xsdt.tables[n])
<1> DEFINE x == rsdp.xsdt
<1>1. rsdp \in Xsdps /\ WellFormed(x, machine) /\ XsdtGood(x) BY DEF RsdpInv
<1>2. x \in Xsdts BY <1>1 DEF Xsdps
<1> HIDE DEF x
<1>3. x.tables \in Seq(Tables) /\ x.length \in Nat BY <1>2 DEF Xsdts
<1>4. Len(x.tables) \in Nat /\ DOMAIN x.tables = 1 .. Len(x.tables) BY <1>3
<1>5. HeaderSize \in Nat /\ PointerSize \in Nat BY IrqAssumption
<1>6. x.length >= HeaderSize + PointerSize BY <1>1 DEF XsdtGood
<1>7. NumTables(x) = Len(x.tables) BY <1>1, <1>3, <1>5, <1>6 DEF WellFormed
<1>8. ASSUME NEW n \in 1 .. Len(x.tables)
      PROVE  /\ x.tables[n] \in Tables
             /\ x.tables[n].length >= HeaderSize
             /\ x.tables[n].sig = "APIC" => Packed(x.tables[n])
  BY <1>1, <1>3, <1>4 DEF WellFormed
<1> QED BY <1>3, <1>4, <1>6, <1>7, <1>8 DEF x

\* acpi_process_xsdt and acpi_process_madt leave out no table and no structure.
LEMMA LoopStep ==
    ASSUME CallInv, RsdpInv, LoopInv, VaInv, IrqInitStep
    PROVE  LoopInv'
<1> USE DEF Stage1Pcs, MaskingPcs, TablePcs, MadtPcs
<1>0. TabInv BY DEF CallInv
<1>1. CASE pc' \notin TablePcs \cup {"rsdp"}
  BY <1>1 DEF LoopInv, LoopTables, LoopTab, LoopMadt
<1>2. CASE MapRsdp
  BY <1>2 DEF MapRsdp, MapThen, LoopInv, LoopTables, LoopTab, LoopMadt
<1>3. CASE AcpiProcessRsdp
  <2>1. UNCHANGED <<rsdp, i, tab, masked>> /\ pc = "rsdp" /\ pc' \in {"map_tab", "halted"}
    BY <1>3 DEF AcpiProcessRsdp, acpiVars, devVars
  <2>2. i = 0 /\ tab = "xsdt" /\ Len(rsdp.xsdt.tables) \in Nat
    BY <2>1, TablesKnown DEF LoopInv, LoopTab
  <2>3. LoopTables' BY <2>1, <2>2 DEF LoopTables
  <2> QED BY <2>1, <2>3 DEF LoopInv, LoopTab, LoopMadt
<1>4. CASE AcpiMapTab \/ TabLength \/ RemapTab
  <2>1. /\ UNCHANGED <<rsdp, i, tab, masked>> /\ pc \in {"map_tab", "tab_length", "remap"}
        /\ pc' \in {"tab_length", "remap", "halted", tab}
    BY <1>4 DEF AcpiMapTab, TabLength, RemapTab, MapThen, acpiVars, devVars
  <2>2. LoopTables' BY <2>1 DEF LoopInv, LoopTables
  <2>3. LoopTab' BY <2>1, <1>0 DEF LoopTab, TabInv
  <2>4. LoopMadt' BY <2>1, <1>0 DEF LoopMadt, TabInv
  <2> QED BY <2>2, <2>3, <2>4 DEF LoopInv
<1>5. CASE AcpiUnmapTab
  <2>1. UNCHANGED <<rsdp, masked>> /\ pc = "unmap_tab"
    BY <1>5 DEF AcpiUnmapTab, devVars
  <2>2. CASE tab = "table"
    <3>1. i' = i + 1 /\ tab' = "xsdt" /\ pc' = "xsdt" BY <1>5, <2>2 DEF AcpiUnmapTab
    <3>2. /\ i \in Nat /\ i < Len(rsdp.xsdt.tables) /\ Len(rsdp.xsdt.tables) \in Nat
          /\ \A n \in 1 .. i : TableDone(rsdp.xsdt.tables[n], masked)
          /\ TableDone(rsdp.xsdt.tables[i + 1], masked)
      BY <2>1, <2>2, TablesKnown DEF LoopInv, LoopTables, LoopMadt, Madt
    <3>5. ASSUME NEW n \in 1 .. i + 1 PROVE TableDone(rsdp.xsdt.tables[n], masked)
      <4>1. CASE n = i + 1 BY <4>1, <3>2
      <4>2. CASE n \in 1 .. i BY <4>2, <3>2
      <4> QED BY <4>1, <4>2, <3>2
    <3>6. i + 1 \in 0 .. Len(rsdp.xsdt.tables) BY <3>2
    <3>4. LoopTables' BY <3>1, <3>5, <3>6, <2>1 DEF LoopTables
    <3> QED BY <3>1, <3>4 DEF LoopInv, LoopTab, LoopMadt
  <2>3. CASE tab # "table"
    <3>1. pc' = "unmap_rsdp" BY <1>5, <2>3 DEF AcpiUnmapTab
    <3> QED BY <3>1, <1>1
  <2> QED BY <2>2, <2>3
<1>6. CASE AcpiProcessXsdt
  <2>1. UNCHANGED <<rsdp, i, masked>> /\ pc = "xsdt" /\ tab = "xsdt"
    BY <1>6 DEF AcpiProcessXsdt, devVars, LoopInv, LoopTab
  <2>2. i \in 0 .. Len(rsdp.xsdt.tables) /\ Len(rsdp.xsdt.tables) \in Nat
        /\ NumTables(rsdp.xsdt) = Len(rsdp.xsdt.tables)
    BY <2>1, TablesKnown DEF LoopInv, LoopTables
  <2>3. CASE i < NumTables(rsdp.xsdt)
    <3>1. tab' = "table" /\ pc' = "map_tab" BY <1>6, <2>3 DEF AcpiProcessXsdt
    <3>2. LoopTables' BY <3>1, <2>1, <2>2, <2>3 DEF LoopInv, LoopTables
    <3> QED BY <3>1, <3>2 DEF LoopInv, LoopTab, LoopMadt
  <2>4. CASE ~(i < NumTables(rsdp.xsdt))
    <3>1. tab' = tab /\ pc' = "unmap_tab" BY <1>6, <2>4 DEF AcpiProcessXsdt
    <3>2. i = Len(rsdp.xsdt.tables) BY <2>2, <2>4
    <3>3. LoopTables' BY <3>1, <2>1 DEF LoopInv, LoopTables
    <3>4. LoopMadt' BY <3>1, <3>2, <2>1 DEF LoopMadt
    <3> QED BY <3>1, <3>3, <3>4 DEF LoopInv, LoopTab
  <2> QED BY <2>3, <2>4
<1>7. CASE FirstTable
  <2>1. UNCHANGED <<rsdp, i, tab, masked>> /\ pc = "table" /\ tab = "table"
    BY <1>7 DEF FirstTable, devVars, LoopInv, LoopTab
  <2>2. LoopTables'
    BY <1>7, <2>1 DEF FirstTable, LoopInv, LoopTables
  <2>3. CASE Madt.sig = "APIC"
    <3>1. ic' = MadtFixedSize /\ pc' = "madt" BY <1>7, <2>3 DEF FirstTable
    <3>2. Madt \in Tables BY <2>1, TablesKnown DEF LoopInv, LoopTables, Madt
    <3>3. Len(Madt.ics) \in Nat BY <3>2 DEF Tables
    <3>4. Madt' = Madt BY <2>1 DEF Madt
    <3>5. AtIc(Madt, 1)' BY <3>1 DEF AtIc, IcsEnd
    <3>6. LoopMadt'
      <4>1. 1 \in 1 .. Len(Madt.ics) + 1 BY <3>3
      <4>2. \E k \in 1 .. Len(Madt'.ics) + 1 : AtIc(Madt, k)' BY <4>1, <3>4, <3>5
      <4> QED BY <4>2, <3>1, <3>4, <2>3 DEF LoopMadt
    <3> QED BY <3>1, <3>6, <2>1, <2>2 DEF LoopInv, LoopTab
  <2>4. CASE Madt.sig # "APIC"
    <3>1. pc' = "unmap_tab" BY <1>7, <2>4 DEF FirstTable
    <3>2. LoopMadt' BY <3>1, <2>1, <2>4 DEF LoopMadt, Madt, TableDone
    <3> QED BY <3>1, <3>2, <2>1, <2>2 DEF LoopInv, LoopTab
  <2> QED BY <2>3, <2>4
<1>8. CASE MadtEnd \/ ProcessIc \/ MapIoapic \/ MaskPins
  <2> DEFINE t == Madt
  <2>1. UNCHANGED <<rsdp, i, tab>> /\ pc \in MadtPcs /\ t' = t
    BY <1>8 DEF MadtEnd, ProcessIc, MapIoapic, MaskPins, irqVars, acpiVars, Madt
  <2>2. tab = "table" /\ t.sig = "APIC" /\ t \in Tables /\ Packed(t)
        /\ i \in Nat /\ i < Len(rsdp.xsdt.tables)
    BY <2>1, TablesKnown DEF LoopInv, LoopTab, LoopTables, LoopMadt, Madt
  <2>3. PICK k \in 1 .. Len(t.ics) + 1 : AtIc(t, k) BY <2>1 DEF LoopInv, LoopMadt
  <2>4. Len(t.ics) \in Nat /\ DOMAIN t.ics = 1 .. Len(t.ics) BY <2>2 DEF Tables
  <2>5. masked \subseteq masked' BY <1>8 DEF MadtEnd, ProcessIc, MapIoapic, MaskPins, irqVars, devVars
  <2>6. \A n \in 1 .. k - 1 : IcDone(t, n, masked') BY <2>3, <2>5 DEF AtIc, IcDone
  <2>7. pc' \in TablePcs \cup {"halted"}
    BY <1>8 DEF MadtEnd, ProcessIc, MapIoapic, MapThen, MaskPins
  <2>8. LoopTables'
    <3>1. \A n \in 1 .. i : TableDone(rsdp.xsdt.tables[n], masked')
      BY <2>1, <2>5 DEF LoopInv, LoopTables, TableDone, IcDone
    <3> QED BY <3>1, <2>1 DEF LoopInv, LoopTables
  <2>9. LoopTab' BY <1>8, <2>1, <2>2 DEF LoopTab, MadtEnd, ProcessIc, MapIoapic, MapThen, MaskPins
  <2>10. ic = IcsEnd(t, k - 1) BY <2>3 DEF AtIc
  <2> HIDE DEF t
  <2>11. /\ \A n \in IcsAt(t, ic) : n = k
         /\ k =< Len(t.ics) => k \in IcsAt(t, ic) /\ ic # t.length
         /\ \A n \in IcsAt(t, ic) : IcNext(t.ics[n]) = IcsEnd(t, n)
         /\ IcsAt(t, ic) \subseteq DOMAIN t.ics
    BY <2>2, <2>10, IcFound DEF IcsAt
  <2>12. ASSUME NEW l \in 1 .. Len(t.ics) + 1, AtIc(t, l)', pc' \in MadtPcs
         PROVE  LoopInv'
    <3>1. \E m \in 1 .. Len(Madt'.ics) + 1 : AtIc(Madt, m)'
      BY <2>12, <2>1 DEF t
    <3>2. Madt'.sig = "APIC" BY <2>1, <2>2 DEF t
    <3>3. LoopMadt' BY <3>1, <3>2, <2>12 DEF LoopMadt
    <3> QED BY <3>3, <2>8, <2>9 DEF LoopInv
  <2>13. CASE MadtEnd
    <3>1. k = Len(t.ics) + 1 BY <2>13, <2>4, <2>11 DEF MadtEnd, t
    <3>2. TableDone(t, masked') BY <3>1, <2>4, <2>6 DEF TableDone
    <3>3. pc' = "unmap_tab" BY <2>13 DEF MadtEnd
    <3>4. LoopMadt' BY <3>2, <3>3, <2>1, <2>2 DEF LoopMadt, t
    <3> QED BY <3>4, <2>8, <2>9 DEF LoopInv
  <2>14. CASE ProcessIc
    <3>0. pc = "madt" /\ ic # t.length /\ masked' = masked BY <2>14 DEF ProcessIc, devVars, t
    <3>1. k =< Len(t.ics)
      <4>1. k = Len(t.ics) + 1 => ic = t.length BY <2>2, <2>10, IcFound
      <4> QED BY <4>1, <3>0, <2>4
    <3>2. IcsAt(t, ic) = {k} BY <2>11, <3>1
    <3>3. IF t.ics[k].io THEN pc' = "ioapic" /\ UNCHANGED ic
          ELSE ic' = IcNext(t.ics[k]) /\ UNCHANGED pc
      BY <2>14, <3>2 DEF ProcessIc, t
    <3>4. CASE t.ics[k].io
      <4>1. AtIc(t, k)' BY <3>1, <3>3, <3>4, <2>1, <2>6, <2>10 DEF AtIc
      <4> QED BY <4>1, <2>12, <3>3, <3>4
    <3>5. CASE ~t.ics[k].io
      <4>1. ic' = IcsEnd(t, k) /\ pc' = "madt" BY <3>0, <3>2, <3>3, <3>5, <2>11
      <4>2. k + 1 \in 1 .. Len(t.ics) + 1 /\ (k + 1) - 1 = k BY <3>1, <2>4
      <4>3. \A n \in 1 .. k : n = k \/ n \in 1 .. k - 1 BY <2>4
      <4>4. \A n \in 1 .. k : IcDone(t, n, masked') BY <4>3, <2>6, <3>5 DEF IcDone
      <4>5. AtIc(t, k + 1)' BY <4>1, <4>2, <4>4, <2>1 DEF AtIc
      <4> QED BY <4>1, <4>2, <4>5, <2>12
    <3> QED BY <3>4, <3>5
  <2>15. CASE MapIoapic
    <3>0. pc = "ioapic" /\ UNCHANGED <<ic, masked>> BY <2>15 DEF MapIoapic, acpiVars, devVars
    <3>1. k =< Len(t.ics) /\ t.ics[k].io BY <3>0, <2>3 DEF AtIc
    <3>2. MapThen("ioapic", t.ics[k].addr, IoapicSize, "mask")
      BY <2>15, <2>11 DEF MapIoapic, t
    <3>3. CASE pc' = "halted" BY <3>3, <1>1
    <3>4. CASE Map("ioapic", t.ics[k].addr, IoapicSize) /\ pc' = "mask"
      <4>0. ptr \in [Objs -> [start : Nat, pa : Nat]] /\ "ioapic" \in Objs
        BY <3>0 DEF VaInv, VaState, Objs
      <4>1. ptr'["ioapic"].pa = t.ics[k].addr BY <4>0, <3>4 DEF Map
      <4>2. AtIc(t, k)' BY <4>1, <3>0, <3>1, <3>4, <2>1, <2>6, <2>10 DEF AtIc
      <4> QED BY <4>2, <3>4, <2>12
    <3> QED BY <3>2, <3>3, <3>4 DEF MapThen
  <2>16. CASE MaskPins
    <3>0. pc = "mask" /\ pc' = "madt" BY <2>16 DEF MaskPins
    <3>1. k =< Len(t.ics) /\ ptr["ioapic"].pa = t.ics[k].addr BY <3>0, <2>3 DEF AtIc
    <3>2. masked' = masked \cup ({t.ics[k].addr} \X (0 .. PinsScanned - 1))
      BY <2>16, <3>1 DEF MaskPins, PinsMasked
    <3>3. ic' = IcsEnd(t, k) BY <2>16, <2>11 DEF MaskPins, t
    <3>4. k + 1 \in 1 .. Len(t.ics) + 1 /\ (k + 1) - 1 = k BY <3>1, <2>4
    <3>5. \A n \in 1 .. k : n = k \/ n \in 1 .. k - 1 BY <2>4
    <3>6. IcDone(t, k, masked') BY <3>2 DEF IcDone
    <3>7. \A n \in 1 .. k : IcDone(t, n, masked') BY <3>5, <3>6, <2>6
    <3>8. AtIc(t, k + 1)' BY <3>0, <3>3, <3>4, <3>7, <2>1 DEF AtIc
    <3> QED BY <3>0, <3>4, <3>8, <2>12
  <2> QED BY <1>8, <2>13, <2>14, <2>15, <2>16
<1>9. CASE ProcessEfiConfTables \/ CheckXsdt \/ CheckTable \/ AddRsdp \/ UnmapRsdp
           \/ PortWrite \/ IrqInitDone
  <2>1. pc' \notin TablePcs \cup {"rsdp"}
    BY <1>9 DEF ProcessEfiConfTables, CheckXsdt, CheckTable, AddRsdp, UnmapRsdp, PortWrite,
                IrqInitDone
  <2> QED BY <2>1, <1>1
<1> QED BY <1>2, <1>3, <1>4, <1>5, <1>6, <1>7, <1>8, <1>9 DEF IrqInitStep

LEMMA LoopNext ==
    ASSUME CallInv, RsdpInv, LoopInv, VaInv, [Next]_vars
    PROVE  LoopInv'
<1> USE DEF IrqPcs, Stage1Pcs, MaskingPcs, TablePcs, MadtPcs
<1>1. CASE Irq BY <1>1, LoopStep DEF Irq
<1>2. CASE pc' \notin TablePcs \cup {"rsdp"}
  BY <1>2 DEF LoopInv, LoopTables, LoopTab, LoopMadt
<1>3. CASE UNCHANGED <<pc, rsdp, i, tab, ic, masked, ptr>>
  <2>1. LoopTables' BY <1>3 DEF LoopInv, LoopTables
  <2>2. LoopTab' BY <1>3 DEF LoopInv, LoopTab
  <2>3. LoopMadt' BY <1>3 DEF LoopInv, LoopMadt, Madt, AtIc
  <2> QED BY <2>1, <2>2, <2>3 DEF LoopInv
<1> QED BY <1>1, <1>2, <1>3, NextSplit
        DEF Isr16Unimpl, Lapic, LapicAccepts, acpiVars, vaVars, irqVars, devVars

\* Once acpi_process_rsdp is done, no pin is left that could pass on an
\* interrupt.
LEMMA NoPinLeft ==
    ASSUME RsdpInv, MaskedInv, pc \notin Stage1Pcs \cup MaskingPcs \cup {"halted"}
    PROVE  (Ioapics \X (0 .. PinCount - 1)) \ masked = {}
<1> SUFFICES ASSUME NEW a \in Ioapics, NEW q \in 0 .. PinCount - 1 PROVE <<a, q>> \in masked
  OBVIOUS
<1>0. PICK n \in DOMAIN rsdp.xsdt.tables :
        /\ rsdp.xsdt.tables[n].sig = "APIC"
        /\ \E m \in DOMAIN rsdp.xsdt.tables[n].ics :
            rsdp.xsdt.tables[n].ics[m].io /\ a = rsdp.xsdt.tables[n].ics[m].addr
  BY DEF Ioapics, Range
<1>1. PICK m \in DOMAIN rsdp.xsdt.tables[n].ics :
            rsdp.xsdt.tables[n].ics[m].io /\ a = rsdp.xsdt.tables[n].ics[m].addr
  BY <1>0
<1>2. TableDone(rsdp.xsdt.tables[n], masked) BY DEF MaskedInv
<1>3. IcDone(rsdp.xsdt.tables[n], m, masked) BY <1>0, <1>1, <1>2 DEF TableDone
<1>4. q \in 0 .. PinsScanned - 1 BY IrqAssumption
<1> QED BY <1>1, <1>3, <1>4 DEF IcDone

LEMMA MaskedStep ==
    ASSUME CallInv, RsdpInv, LoopInv, MaskedInv, [Next]_vars
    PROVE  MaskedInv'
<1> USE DEF IrqPcs, Stage1Pcs, MaskingPcs
<1>1. CASE Irq
  <2>1. /\ pc \in IrqPcs \ {"error"} /\ pc' \in IrqPcs \cup {"rimg_init", "halted"}
        /\ lapic' = lapic /\ pc # "halted"
    BY <1>1, IrqPcStep, IrqFrame DEF Irq, CallInv
  <2>2. CASE pc \in {"unmap_rsdp", "pics"}
    <3>1. UNCHANGED <<rsdp, masked>>
      BY <1>1, <2>2 DEF Irq, IrqInitStep, ProcessEfiConfTables, CheckXsdt, CheckTable, AddRsdp,
                MapRsdp, AcpiProcessRsdp, AcpiMapTab, TabLength, RemapTab, AcpiUnmapTab,
                AcpiProcessXsdt, FirstTable, MadtEnd, ProcessIc, MapIoapic, MaskPins,
                UnmapRsdp, PortWrite, IrqInitDone, acpiVars, irqVars, devVars
    <3> QED BY <2>1, <2>2, <3>1 DEF MaskedInv
  <2>3. CASE AcpiUnmapTab /\ tab # "table"
    <3>1. UNCHANGED <<rsdp, masked>> /\ pc = "unmap_tab" BY <2>3 DEF AcpiUnmapTab, devVars
    <3>2. i = Len(rsdp.xsdt.tables) BY <3>1, <2>3 DEF LoopInv, LoopMadt
    <3>3. \A n \in 1 .. i : TableDone(rsdp.xsdt.tables[n], masked)
      BY <3>1 DEF LoopInv, LoopTables, TablePcs
    <3>4. DOMAIN rsdp.xsdt.tables = 1 .. i BY <3>1, <3>2, TablesKnown
    <3> QED BY <2>1, <3>1, <3>3, <3>4 DEF MaskedInv
  <2>4. CASE pc' \in Stage1Pcs \cup MaskingPcs \cup {"halted"}
    BY <2>1, <2>4 DEF MaskedInv
  <2>5. pc' \in {"unmap_rsdp", "pics", "rimg_init"}
           => pc \in {"unmap_rsdp", "pics"} \/ (AcpiUnmapTab /\ tab # "table")
    <3>1. tab \in {"xsdt", "table"} BY DEF CallInv, TabInv
    <3> QED BY <1>1, <3>1
       DEF Irq, IrqInitStep, ProcessEfiConfTables, CheckXsdt, CheckTable, AddRsdp, MapThen,
           MapRsdp, AcpiProcessRsdp, AcpiMapTab, TabLength, RemapTab, AcpiUnmapTab,
           AcpiProcessXsdt, FirstTable, MadtEnd, ProcessIc, MapIoapic, MaskPins,
           UnmapRsdp, PortWrite, IrqInitDone
  <2> QED BY <2>1, <2>2, <2>3, <2>4, <2>5
<1>2. CASE Isr16Unimpl
  BY <1>2 DEF Isr16Unimpl, acpiVars, MaskedInv
<1>3. CASE Lapic
  <2>1. UNCHANGED <<pc, rsdp, masked>> /\ lapic' \in {"early", "late"}
    BY <1>3 DEF Lapic, LapicAccepts, acpiVars
  <2>2. pc # "halted" => lapic' # "late"
    BY <1>3, NoPinLeft DEF Lapic, LapicAccepts
  <2> QED BY <2>1, <2>2 DEF MaskedInv
<1>4. CASE UNCHANGED irqVars /\ pc' = pc BY <1>4 DEF irqVars, acpiVars, devVars, MaskedInv
<1>5. CASE UNCHANGED irqVars /\ pc = "stage2_main" /\ pc' \in {"irq_init", "halted"}
  BY <1>5 DEF irqVars, acpiVars, devVars, MaskedInv
<1>6. CASE UNCHANGED irqVars /\ pc \notin IrqPcs \cup {"halted"}
           /\ pc' \notin IrqPcs \cup {"message"}
  BY <1>6 DEF irqVars, acpiVars, devVars, MaskedInv
<1> QED BY <1>1, <1>2, <1>3, <1>4, <1>5, <1>6, NextSplit

-----------------------------------------------------------------------------
\* The first 8259 passes on no request but those of the timer and the
\* keyboard, with the vectors for them, and none after isr16_unimpl.
LEMMA RequestsServed ==
    ASSUME CallInv, PicsInv, IvtInv, NEW n \in Lines, Requests(n),
           pc \notin IrqPcs \cup {"halted"}
    PROVE  n \in {0, 1} /\ Vector(n) = 8 + n /\ pc # "message"
<1>1. machine.has8259 /\ n \in 0 .. 15 BY Stage2Assumption DEF Requests
<1>2. PicStep(pics[1], 15) BY <1>1 DEF PicsInv
<1>3. pics[1].base = {3} /\ pics[1].x86 /\ 2 .. 7 \subseteq pics[1].imr BY <1>2 DEF PicStep
<1>4. n < 8
  <2>1. 2 \in pics[1].imr BY <1>3
  <2> QED BY <1>1, <2>1 DEF Requests, Passes
<1>5. n \notin pics[1].imr BY <1>4 DEF Requests, Passes
<1>6. n \in {0, 1}
  <2>1. n \in 2 .. 7 => n \in pics[1].imr BY <1>3
  <2> QED BY <1>1, <1>4, <1>5, <2>1
<1>7. pc # "message"
  <2>1. pc = "message" => 0 .. 7 \subseteq pics[1].imr BY <1>1 DEF PicsInv
  <2>2. n \in 0 .. 7 BY <1>6
  <2> QED BY <1>5, <2>1, <2>2
<1>8. Base(pics[1]) = 8
  <2>1. \A b \in 0 .. 7 : b \in pics[1].base <=> b = 3 BY <1>3
  <2> QED BY <2>1 DEF Base
<1>9. Vector(n) = 8 + n
  <2>1. n % 8 = n BY <1>6
  <2> QED BY <1>3, <1>4, <1>8, <2>1 DEF Vector
<1> QED BY <1>6, <1>7, <1>9

LEMMA ServedStep ==
    ASSUME CallInv, PicsInv, IvtInv, RsdpInv, MaskedInv, Served, [Next]_vars
    PROVE  Served'
<1> USE DEF IrqPcs, Stage1Pcs, MaskingPcs, EndPcs
<1>1. CASE LapicInterrupt
  <2>1. lapic = "early" BY <1>1 DEF LapicInterrupt, MaskedInv
  <2> QED BY <1>1, <2>1 DEF LapicInterrupt, TakeFrom, Served
<1>2. ASSUME NEW n \in Lines, PicInterrupt(n) PROVE Served'
  <2>1. IsReal(cpu) /\ pc \in EndPcs \cup {"rom", "hello16"}
    BY <1>2, RealWhenOn DEF PicInterrupt
  <2>2. n \in {0, 1} /\ Vector(n) = 8 + n /\ pc # "message"
    BY <1>2, <2>1, RequestsServed DEF PicInterrupt
  <2>3. ~cpu.pe BY <2>1 DEF IsReal, Regs16
  <2>4. Vector(n) \in Vectors /\ ivt[Vector(n)] \in {"irq0", "irq1"}
    BY <2>1, <2>2 DEF IvtInv, Vectors
  <2>5. taken' = [vec |-> Vector(n), handler |-> ivt[Vector(n)], real |-> ~cpu.pe,
                  when |-> pc, lapic |-> "none"]
    BY <1>2, <2>4 DEF PicInterrupt, TakeFrom
  <2>6. taken'.lapic = "none" /\ taken'.handler \in {"irq0", "irq1"} /\ taken'.when # "message"
    BY <2>2, <2>4, <2>5
  <2>7. taken'.real BY <2>3, <2>5
  <2> QED BY <2>6, <2>7 DEF Served
<1>3. CASE taken' = taken BY <1>3 DEF Served
<1> QED BY <1>1, <1>2, <1>3
        DEF Next, Main, Rom, vars, seenVars, Irq, Rm16Init, RimgInit, Hello, LeaveProtectedMode,
            SaveRegisters, CalleeReturns, RestoreRegisters, ReenterProtectedMode,
            Rm16CallReturns, Hello16, Isr16Unimpl, RomSetsFlag, RomUsesRegisters,
            RomTakesInt10, RomMovesEbda, RomCallsUnimpl, Message, Lapic

-----------------------------------------------------------------------------
(***************************************************************************)
(* The blocks of virtual pages.                                            *)
(***************************************************************************)
\* More bytes need no fewer pages, and a byte needs one.
LEMMA PagesForGrow ==
    ASSUME NEW pa \in Nat, NEW m \in Nat, NEW n \in Nat, m =< n
    PROVE  /\ PagesFor(pa, m) \in Int /\ PagesFor(pa, m) =< PagesFor(pa, n)
           /\ m > 0 => PagesFor(pa, m) >= 1
<1>1. PageSize \in Nat \ {0} BY IrqAssumption
<1> DEFINE x == pa + m + PageSize - 1
           y == pa + n + PageSize - 1
<1>2. x \in Int /\ y \in Int /\ x =< y BY <1>1
<1> HIDE DEF x, y
<1>3. x \div PageSize \in Int /\ y \div PageSize \in Int /\ pa \div PageSize \in Int
  BY <1>1, <1>2, DivModDef
<1>4. x \div PageSize =< y \div PageSize BY <1>1, <1>2, DivMonotone
<1>5. ASSUME m > 0 PROVE x \div PageSize >= (pa \div PageSize) + 1
  <2>1. pa + PageSize * 1 \in Int /\ pa + PageSize * 1 =< x BY <1>1, <1>5 DEF x
  <2>2. (pa + PageSize * 1) \div PageSize =< x \div PageSize
    BY <1>1, <1>2, <2>1, DivMonotone
  <2>3. (pa + PageSize * 1) \div PageSize = (pa \div PageSize) + 1 BY <1>1, DivModAdd
  <2> QED BY <2>2, <2>3
<1> QED BY <1>3, <1>4, <1>5 DEF PagesFor, x, y

\* A read that stays within the size that was mapped is mapped.
LEMMA ReadIn ==
    ASSUME NEW L, NEW sz, VaState(L, sz, ptr, vaFree, vaBlocks), NEW o \in L, o \in Objs,
           sz[o] \in Nat, NEW off \in Nat, NEW rd \in Nat, off + rd =< sz[o]
    PROVE  Mapped(o, off, rd) /\ Block(o, sz[o]) \in vaBlocks
<1>1. ptr[o].pa \in Nat BY DEF VaState
<1>2. PagesFor(ptr[o].pa, off + rd) =< PagesFor(ptr[o].pa, sz[o])
  <2>1. off + rd \in Nat OBVIOUS
  <2> QED BY <1>1, <2>1, PagesForGrow
<1>3. Block(o, sz[o]) \in vaBlocks BY DEF VaState, Block, BlockOf
<1>4. Block(o, sz[o]).start = ptr[o].start /\ Block(o, sz[o]).len = PagesFor(ptr[o].pa, sz[o])
  BY DEF Block
<1> QED BY <1>2, <1>3, <1>4 DEF Mapped

\* Only the sizes of what is mapped matter.
LEMMA VaSame ==
    ASSUME NEW L, NEW sz, NEW sz2, NEW q, NEW free, NEW out, VaState(L, sz, q, free, out),
           \A o \in L : sz2[o] = sz[o]
    PROVE  VaState(L, sz2, q, free, out)
BY DEF VaState

\* A block that is mapped is apart from the others.
LEMMA MapKeeps ==
    ASSUME NEW L \in SUBSET Objs, NEW sz, VaState(L, sz, ptr, vaFree, vaBlocks),
           NEW o \in Objs \ L, NEW pa \in Nat, NEW n \in Nat, NEW sz2,
           \A p \in L : sz2[p] = sz[p], sz2[o] = n, Map(o, pa, n)
    PROVE  VaState(L \cup {o}, sz2, ptr', vaFree', vaBlocks')
<1>1. PICK s \in vaFree :
        /\ Va!Acquire([start |-> s, len |-> PagesFor(pa, n)])
        /\ ptr' = [ptr EXCEPT ![o] = [start |-> s, pa |-> pa]]
  BY DEF Map
<1>2. s \in Nat BY <1>1, IrqAssumption DEF VaState
<1>3. ptr' \in [Objs -> [start : Nat, pa : Nat]] BY <1>1, <1>2 DEF VaState
<1> DEFINE b == [start |-> s, len |-> PagesFor(pa, n)]
           R(p) == Room(ptr'[p], sz2[p])
<1>4. BlockOf(ptr'[o], sz2[o]) = b BY <1>1 DEF VaState, BlockOf
<1>5. ASSUME NEW p \in L PROVE ptr'[p] = ptr[p] /\ sz2[p] = sz[p] BY <1>1 DEF VaState
<1>6. R(o) = Va!PagesOf(b) BY <1>4 DEF Room
<1>8. Va!PagesOf(b) \subseteq vaFree /\ vaFree' = vaFree \ Va!PagesOf(b)
      /\ vaBlocks' = vaBlocks \cup {b}
  BY <1>1 DEF Va!Acquire
<1> HIDE DEF b
<1>9. vaBlocks' = {BlockOf(ptr'[p], sz2[p]) : p \in L \cup {o}}
  <2>1. vaBlocks = {BlockOf(ptr[p], sz[p]) : p \in L} BY DEF VaState
  <2>2. vaBlocks = {BlockOf(ptr'[p], sz2[p]) : p \in L} BY <2>1, <1>5
  <2> QED BY <2>2, <1>4, <1>8
<1>10. vaFree = VaPages \ UNION {R(p) : p \in L}
  BY <1>5 DEF VaState
<1>11. \A p \in L : R(p) \subseteq VaPages BY <1>5 DEF VaState
<1>12. \A p, r \in L : p # r => R(p) \cap R(r) = {} BY <1>5 DEF VaState
<1> HIDE DEF R
<1>13. \A p \in L : R(o) \cap R(p) = {} BY <1>6, <1>8, <1>10
<1>14. \A p \in L \cup {o} : R(p) \subseteq VaPages BY <1>6, <1>8, <1>10, <1>11
<1>15. \A p, r \in L \cup {o} : p # r => R(p) \cap R(r) = {} BY <1>12, <1>13
<1>16. vaFree' = VaPages \ UNION {R(p) : p \in L \cup {o}} BY <1>6, <1>8, <1>10
<1> QED BY <1>3, <1>9, <1>14, <1>15, <1>16 DEF VaState, R

\* Pages that are given back are free again, and no others.
LEMMA UnmapKeeps ==
    ASSUME NEW L \in SUBSET Objs, NEW sz, VaState(L, sz, ptr, vaFree, vaBlocks),
           NEW o \in L, sz[o] \in Nat \ {0}, NEW off \in Nat, NEW rd \in Nat,
           off + rd =< sz[o], NEW sz2, \A p \in L \ {o} : sz2[p] = sz[p],
           UnmapReading(o, sz[o], off, rd), stray = FALSE
    PROVE  VaState(L \ {o}, sz2, ptr', vaFree', vaBlocks') /\ stray' = FALSE
<1>1. Mapped(o, off, rd) /\ Block(o, sz[o]) \in vaBlocks BY ReadIn
<1> DEFINE b == BlockOf(ptr[o], sz[o])
           R(p) == Room(ptr[p], sz[p])
<1>2. b = Block(o, sz[o]) BY DEF Block, BlockOf
<1>3. stray' = FALSE /\ vaFree' = vaFree \cup Va!PagesOf(b) /\ vaBlocks' = vaBlocks \ {b}
      /\ ptr' = [ptr EXCEPT ![o] = NoPtr]
  BY <1>1, <1>2 DEF UnmapReading, Va!Release
<1>4. ptr' \in [Objs -> [start : Nat, pa : Nat]] BY <1>3 DEF VaState, NoPtr
<1>5. ASSUME NEW p \in L \ {o} PROVE ptr'[p] = ptr[p] /\ sz2[p] = sz[p] BY <1>3 DEF VaState
<1>6. R(o) = Va!PagesOf(b) BY DEF Room
<1>7. /\ \A p \in L : R(p) \subseteq VaPages
      /\ \A p, r \in L : p # r => R(p) \cap R(r) = {}
      /\ vaFree = VaPages \ UNION {R(p) : p \in L}
  BY DEF VaState
<1>8. ASSUME NEW p \in L \ {o} PROVE BlockOf(ptr[p], sz[p]) # b
  <2>1. R(o) # {}
    <3>1. ptr[o].pa \in Nat /\ ptr[o].start \in Nat BY DEF VaState
    <3>2. PagesFor(ptr[o].pa, sz[o]) \in Int /\ PagesFor(ptr[o].pa, sz[o]) >= 1
      BY <3>1, PagesForGrow
    <3>3. ptr[o].start \in R(o) BY <3>1, <3>2 DEF Room, BlockOf, Va!PagesOf
    <3> QED BY <3>3
  <2>2. R(p) \cap R(o) = {} BY <1>7
  <2> QED BY <2>1, <2>2 DEF Room
<1>9. vaBlocks' = {BlockOf(ptr'[p], sz2[p]) : p \in L \ {o}}
  <2>1. vaBlocks = {BlockOf(ptr[p], sz[p]) : p \in L} BY DEF VaState
  <2> HIDE DEF b
  <2>2. vaBlocks' = {BlockOf(ptr[p], sz[p]) : p \in L \ {o}} BY <2>1, <1>3, <1>8 DEF b
  <2> QED BY <2>2, <1>5
<1> HIDE DEF R, b
<1>10. vaFree' = VaPages \ UNION {R(p) : p \in L \ {o}}
  BY <1>3, <1>6, <1>7
<1>11. \A p \in L \ {o} : Room(ptr'[p], sz2[p]) = R(p) BY <1>5 DEF R
<1>12. vaFree' = VaPages \ UNION {Room(ptr'[p], sz2[p]) : p \in L \ {o}} BY <1>10, <1>11
<1> QED BY <1>3, <1>4, <1>7, <1>9, <1>11, <1>12 DEF VaState

LEMMA ReadOK ==
    ASSUME NEW L, NEW sz, VaState(L, sz, ptr, vaFree, vaBlocks), NEW o \in L, o \in Objs,
           sz[o] \in Nat, NEW off \in Nat, NEW rd \in Nat, off + rd =< sz[o], stray = FALSE,
           Read(o, off, rd)
    PROVE  stray' = FALSE /\ UNCHANGED <<ptr, vaFree, vaBlocks>>
<1>1. Mapped(o, off, rd) BY ReadIn
<1> QED BY <1>1 DEF Read

LEMMA MaxIsLarger ==
    ASSUME NEW m \in Nat, NEW n \in Nat
    PROVE  Max({m, n}) = Larger(m, n) /\ Larger(m, n) \in Nat
           /\ Larger(m, n) >= m /\ Larger(m, n) >= n
BY DEF Max, Larger

\* The sizes and addresses of the tables.
LEMMA SizesKnown ==
    ASSUME CallInv, RsdpInv, LoopInv, pc \notin Stage1Pcs
    PROVE  /\ UnionSize \in Nat /\ HeaderSize \in Nat \ {0} /\ HeaderSize =< UnionSize
           /\ IoapicSize \in Nat \ {0} /\ XsdpSize \in Nat /\ XsdpSize =< HeaderSize
           /\ rsdp.pa \in Nat /\ rsdp_sz \in Nat \ {0} /\ rsdp_sz >= HeaderSize
           /\ rsdp_sz = rsdp.xsdt.length
           /\ pc \in TablePcs => /\ Tab.pa \in Nat /\ Tab.length \in Nat
                                 /\ Tab.length >= HeaderSize
           /\ tab = "xsdt" => Tab.length = rsdp.xsdt.length
           /\ tab = "table" => Tab.length = rsdp.xsdt.tables[i + 1].length
<1> USE DEF Stage1Pcs
<1>1. UnionSize \in Nat /\ HeaderSize \in Nat \ {0} /\ HeaderSize =< UnionSize
      /\ IoapicSize \in Nat \ {0} /\ XsdpSize \in Nat /\ XsdpSize =< HeaderSize
      /\ PointerSize \in Nat
  BY IrqAssumption
<1>2. /\ rsdp \in Xsdps /\ rsdp.xsdt \in Xsdts /\ rsdp.xsdt.pa \in Nat
      /\ rsdp.xsdt.length \in Nat /\ rsdp.xsdt.length >= HeaderSize + PointerSize
      /\ rsdp_sz = rsdp.xsdt.length
  BY TablesKnown DEF RsdpInv, Xsdps, Xsdts
<1>3. tab = "xsdt" => Tab.length = rsdp.xsdt.length /\ Tab.pa = rsdp.xsdt.pa BY DEF Tab
<1>4. tab = "table" => Tab.length = rsdp.xsdt.tables[i + 1].length
                       /\ Tab.pa = rsdp.xsdt.tables[i + 1].pa
  BY DEF Tab
<1>5. ASSUME pc \in TablePcs, tab = "table"
      PROVE  /\ rsdp.xsdt.tables[i + 1].length \in Nat /\ rsdp.xsdt.tables[i + 1].pa \in Nat
             /\ rsdp.xsdt.tables[i + 1].length >= HeaderSize
  <2>1. i + 1 \in 1 .. Len(rsdp.xsdt.tables)
    BY <1>5, TablesKnown DEF LoopInv, LoopTables
  <2>2. rsdp.xsdt.tables[i + 1] \in Tables /\ rsdp.xsdt.tables[i + 1].length >= HeaderSize
    BY <2>1, TablesKnown
  <2> QED BY <2>2 DEF Tables
<1>6. rsdp.pa \in Nat BY <1>2 DEF Xsdps
<1>7. tab \in {"xsdt", "table"} BY DEF CallInv, TabInv
<1> QED BY <1>1, <1>2, <1>3, <1>4, <1>5, <1>6, <1>7

LEMMA VaMapStep ==
    ASSUME CallInv, RsdpInv, LoopInv, VaInv,
           MapRsdp \/ AcpiMapTab \/ RemapTab \/ MapIoapic
    PROVE  VaInv'
<1> USE DEF Stage1Pcs, MaskingPcs, TablePcs, MadtPcs
<1>0. pc # "halted" /\ pc \notin Stage1Pcs /\ stray' = FALSE
  BY DEF MapRsdp, AcpiMapTab, RemapTab, MapIoapic, MapThen, VaInv
<1>t. tab \in {"xsdt", "table"} BY DEF CallInv, TabInv
<1>s. VaState(Live, Size, ptr, vaFree, vaBlocks) /\ Live \in SUBSET Objs BY <1>0 DEF VaInv, Live
<1>h. CASE pc' = "halted" BY <1>0, <1>h DEF VaInv
<1>1. CASE MapRsdp /\ pc' # "halted"
  <2>1. Map("rsdp", rsdp.pa, rsdp_sz) /\ pc = "irq_init" /\ pc' = "rsdp"
        /\ UNCHANGED <<rsdp, rsdp_sz>>
    BY <1>1 DEF MapRsdp, MapThen
  <2>2. Live = {} /\ Live' = {"rsdp"} /\ Live' = Live \cup {"rsdp"} BY <2>1 DEF Live, Objs
  <2>3. Size'["rsdp"] = rsdp_sz BY <2>1 DEF Size, Objs
  <2>4. VaState(Live \cup {"rsdp"}, Size', ptr', vaFree', vaBlocks')
    <3>1. "rsdp" \in Objs \ Live /\ \A p \in Live : Size'[p] = Size[p] BY <2>2 DEF Objs
    <3>2. rsdp.pa \in Nat /\ rsdp_sz \in Nat BY <1>0, SizesKnown
    <3> QED BY <1>s, <2>1, <2>3, <3>1, <3>2, MapKeeps
  <2> QED BY <1>0, <2>1, <2>2, <2>4 DEF VaInv
<1>2. CASE AcpiMapTab /\ pc' # "halted"
  <2>1. Map(tab, Tab.pa, UnionSize) /\ pc = "map_tab" /\ pc' = "tab_length"
        /\ UNCHANGED <<rsdp, rsdp_sz, i, tab>>
    BY <1>2 DEF AcpiMapTab, MapThen, acpiVars
  <2>2. tab \in Objs \ Live /\ Live' = Live \cup {tab} BY <2>1, <1>t DEF Live, Objs
  <2>3. Size'[tab] = UnionSize BY <2>1, <1>t DEF Size, Objs
  <2>4. \A p \in Live : Size'[p] = Size[p] BY <2>1, <2>2, <1>t DEF Size, Live, Objs
  <2>5. VaState(Live \cup {tab}, Size', ptr', vaFree', vaBlocks')
    <3>1. Tab.pa \in Nat /\ UnionSize \in Nat BY <1>0, <2>1, SizesKnown
    <3> QED BY <1>s, <2>1, <2>2, <2>3, <2>4, <3>1, MapKeeps
  <2> QED BY <1>0, <2>1, <2>2, <2>5 DEF VaInv
<1>3. CASE RemapTab /\ pc' # "halted"
  <2>1. Map(tab, Tab.pa, Tab.length) /\ pc = "remap" /\ pc' = tab
        /\ UNCHANGED <<rsdp, rsdp_sz, i, tab>>
    BY <1>3 DEF RemapTab, MapThen, acpiVars
  <2>2. tab \in Objs \ Live /\ Live' = Live \cup {tab} BY <2>1, <1>t DEF Live, Objs
  <2>3. Size'[tab] = Tab.length
    <3>1. UnionSize \in Nat /\ Tab.length \in Nat /\ Tab.length > UnionSize
          /\ (tab = "xsdt" => Tab.length = rsdp.xsdt.length)
          /\ (tab = "table" => Tab.length = rsdp.xsdt.tables[i + 1].length)
      BY <1>0, <2>1, SizesKnown DEF VaInv, Remaps
    <3>2. Larger(Tab.length, UnionSize) = Tab.length BY <3>1 DEF Larger
    <3>3. CASE tab = "xsdt" BY <2>1, <3>1, <3>2, <3>3 DEF Size, Objs
    <3>4. CASE tab = "table" BY <2>1, <3>1, <3>2, <3>4 DEF Size, Objs
    <3> QED BY <1>t, <3>3, <3>4
  <2>4. \A p \in Live : Size'[p] = Size[p] BY <2>1, <2>2, <1>t DEF Size, Live, Objs
  <2>5. VaState(Live \cup {tab}, Size', ptr', vaFree', vaBlocks')
    <3>1. Tab.pa \in Nat /\ Tab.length \in Nat BY <1>0, <2>1, SizesKnown
    <3> QED BY <1>s, <2>1, <2>2, <2>3, <2>4, <3>1, MapKeeps
  <2> QED BY <1>0, <1>t, <2>1, <2>2, <2>5 DEF VaInv
<1>4. CASE MapIoapic /\ pc' # "halted"
  <2>1. PICK n \in IcsAt(Madt, ic) : Map("ioapic", Madt.ics[n].addr, IoapicSize)
    BY <1>4 DEF MapIoapic, MapThen
  <2>2. pc = "ioapic" /\ pc' = "mask" /\ tab = "table" /\ UNCHANGED <<rsdp, rsdp_sz, i, tab>>
    BY <1>4 DEF MapIoapic, MapThen, acpiVars, LoopInv, LoopTab
  <2>3. "ioapic" \in Objs \ Live /\ Live' = Live \cup {"ioapic"} BY <2>2 DEF Live, Objs
  <2>4. Size'["ioapic"] = IoapicSize BY DEF Size, Objs
  <2>5. \A p \in Live : Size'[p] = Size[p] BY <2>2 DEF Size, Live, Objs
  <2>6. Madt.ics[n].addr \in Nat /\ IoapicSize \in Nat
    <3>1. i + 1 \in 1 .. Len(rsdp.xsdt.tables)
      BY <2>2, TablesKnown DEF LoopInv, LoopTables
    <3>2. Madt \in Tables BY <2>2, <3>1, TablesKnown DEF Madt
    <3>3. Madt.ics \in Seq(Ics) /\ n \in DOMAIN Madt.ics BY <3>2 DEF Tables, IcsAt
    <3>4. Madt.ics[n] \in Ics BY <3>3
    <3> QED BY <3>4, IrqAssumption DEF Ics
  <2>7. VaState(Live \cup {"ioapic"}, Size', ptr', vaFree', vaBlocks')
    BY <1>s, <2>1, <2>3, <2>4, <2>5, <2>6, MapKeeps
  <2> QED BY <1>0, <2>2, <2>3, <2>7 DEF VaInv
<1> QED BY <1>h, <1>1, <1>2, <1>3, <1>4

LEMMA VaUnmapStep ==
    ASSUME CallInv, RsdpInv, LoopInv, VaInv,
           \/ TabLength /\ Remaps
           \/ AcpiUnmapTab \/ MaskPins \/ UnmapRsdp
    PROVE  VaInv'
<1> USE DEF Stage1Pcs, MaskingPcs, TablePcs, MadtPcs
<1>0. pc # "halted" /\ pc \notin Stage1Pcs
  BY DEF TabLength, AcpiUnmapTab, MaskPins, UnmapRsdp
<1>t. tab \in {"xsdt", "table"} BY DEF CallInv, TabInv
<1>s. VaState(Live, Size, ptr, vaFree, vaBlocks) /\ Live \in SUBSET Objs /\ stray = FALSE
  BY <1>0 DEF VaInv, Live
<1>k. /\ UnionSize \in Nat /\ HeaderSize \in Nat \ {0} /\ HeaderSize =< UnionSize
      /\ 0 + HeaderSize = HeaderSize /\ 0 \in Nat
  BY <1>0, SizesKnown
<1>1. CASE TabLength /\ Remaps
  <2>1. UnmapReading(tab, UnionSize, 0, HeaderSize) /\ pc = "tab_length" /\ pc' = "remap"
        /\ UNCHANGED <<rsdp, rsdp_sz, i, tab>>
    BY <1>1 DEF TabLength, acpiVars
  <2>2. tab \in Live /\ Live' = Live \ {tab} BY <2>1, <1>t DEF Live, Objs
  <2>3. Size[tab] = UnionSize BY <2>1, <1>t DEF Size, Objs
  <2>4. \A p \in Live \ {tab} : Size'[p] = Size[p] BY <2>1, <2>2, <1>t DEF Size, Live, Objs
  <2>5. VaState(Live \ {tab}, Size', ptr', vaFree', vaBlocks') /\ stray' = FALSE
    <3>1. Size[tab] \in Nat \ {0} /\ 0 + HeaderSize =< Size[tab] BY <1>k, <2>3
    <3>2. UnmapReading(tab, Size[tab], 0, HeaderSize) BY <2>1, <2>3
    <3> QED BY <1>s, <1>k, <2>2, <2>4, <3>1, <3>2, UnmapKeeps
  <2>6. Remaps' BY <1>1, <2>1 DEF Remaps, Tab
  <2> QED BY <2>1, <2>2, <2>5, <2>6 DEF VaInv
<1>2. CASE AcpiUnmapTab
  <2>1. /\ UnmapReading(tab, Max({Tab.length, UnionSize}), 0, HeaderSize)
        /\ pc = "unmap_tab" /\ UNCHANGED <<rsdp, rsdp_sz>>
        /\ tab = "table" => tab' = "xsdt" /\ pc' = "xsdt"
        /\ tab = "xsdt" => UNCHANGED <<i, tab>> /\ pc' = "unmap_rsdp"
    BY <1>2 DEF AcpiUnmapTab
  <2>2. tab \in Live /\ Live' = Live \ {tab} BY <2>1, <1>t DEF Live, Objs
  <2>a. /\ Tab.length \in Nat
        /\ tab = "xsdt" => Tab.length = rsdp.xsdt.length
        /\ tab = "table" => Tab.length = rsdp.xsdt.tables[i + 1].length
    BY <1>0, <2>1, SizesKnown
  <2>b. Max({Tab.length, UnionSize}) = Larger(Tab.length, UnionSize)
        /\ Larger(Tab.length, UnionSize) \in Nat /\ Larger(Tab.length, UnionSize) >= UnionSize
    BY <2>a, <1>k, MaxIsLarger
  <2>3. Size[tab] = Larger(Tab.length, UnionSize)
    <3>3. CASE tab = "xsdt" BY <2>1, <2>a, <3>3 DEF Size, Objs
    <3>4. CASE tab = "table" BY <2>1, <2>a, <3>4 DEF Size, Objs
    <3> QED BY <1>t, <3>3, <3>4
  <2>4. \A p \in Live \ {tab} : Size'[p] = Size[p] BY <2>1, <2>2, <1>t DEF Size, Live, Objs
  <2>5. VaState(Live \ {tab}, Size', ptr', vaFree', vaBlocks') /\ stray' = FALSE
    <3>1. Size[tab] \in Nat \ {0} /\ 0 + HeaderSize =< Size[tab] BY <1>k, <2>3, <2>b
    <3>2. UnmapReading(tab, Size[tab], 0, HeaderSize) BY <2>1, <2>3, <2>b
    <3> QED BY <1>s, <1>k, <2>2, <2>4, <3>1, <3>2, UnmapKeeps
  <2> QED BY <1>t, <2>1, <2>2, <2>5 DEF VaInv
<1>3. CASE MaskPins
  <2>1. UnmapReading("ioapic", IoapicSize, 0, 1) /\ pc = "mask" /\ pc' = "madt"
        /\ UNCHANGED <<rsdp, rsdp_sz, i, tab>> /\ tab = "table"
    BY <1>3 DEF MaskPins, Unmap, LoopInv, LoopTab
  <2>2. "ioapic" \in Live /\ Live' = Live \ {"ioapic"} BY <2>1 DEF Live, Objs
  <2>3. Size["ioapic"] = IoapicSize BY DEF Size, Objs
  <2>4. \A p \in Live \ {"ioapic"} : Size'[p] = Size[p] BY <2>1 DEF Size, Live, Objs
  <2>5. VaState(Live \ {"ioapic"}, Size', ptr', vaFree', vaBlocks') /\ stray' = FALSE
    <3>1. Size["ioapic"] \in Nat \ {0} /\ 0 + 1 =< Size["ioapic"] /\ 1 \in Nat
      BY <1>0, SizesKnown, <2>3
    <3>2. UnmapReading("ioapic", Size["ioapic"], 0, 1) BY <2>1, <2>3
    <3> QED BY <1>s, <1>k, <2>2, <2>4, <3>1, <3>2, UnmapKeeps
  <2> QED BY <2>1, <2>2, <2>5 DEF VaInv
<1>4. CASE UnmapRsdp
  <2>1. UnmapReading("rsdp", rsdp_sz, 0, 1) /\ pc = "unmap_rsdp" /\ pc' = "pics"
    BY <1>4 DEF UnmapRsdp, Unmap
  <2>2. "rsdp" \in Live /\ Live' = Live \ {"rsdp"} /\ Live \ {"rsdp"} = {}
    BY <2>1 DEF Live, Objs
  <2>3. Size["rsdp"] = rsdp_sz BY DEF Size, Objs
  <2>5. VaState(Live \ {"rsdp"}, Size', ptr', vaFree', vaBlocks') /\ stray' = FALSE
    <3>1. Size["rsdp"] \in Nat \ {0} /\ 0 + 1 =< Size["rsdp"] /\ 1 \in Nat
      BY <1>0, SizesKnown, <2>3
    <3>2. UnmapReading("rsdp", Size["rsdp"], 0, 1) BY <2>1, <2>3
    <3>3. \A p \in Live \ {"rsdp"} : Size'[p] = Size[p] BY <2>2
    <3> QED BY <1>s, <1>k, <2>2, <3>1, <3>2, <3>3, UnmapKeeps
  <2> QED BY <2>1, <2>2, <2>5 DEF VaInv
<1> QED BY <1>1, <1>2, <1>3, <1>4

\* Each of the XSDT's references lies within it.
LEMMA RefsIn ==
    ASSUME RsdpInv, pc \notin Stage1Pcs, i \in Nat, i < NumTables(rsdp.xsdt)
    PROVE  HeaderSize + i * PointerSize \in Nat
           /\ HeaderSize + i * PointerSize + PointerSize =< rsdp.xsdt.length
<1> DEFINE x == rsdp.xsdt.length - HeaderSize
           p == PointerSize
<1>1. p \in Nat \ {0} /\ HeaderSize \in Nat BY IrqAssumption
<1>2. rsdp.xsdt.length \in Nat BY TablesKnown DEF Stage1Pcs
<1>3. x \in Int /\ i < x \div p BY <1>1, <1>2 DEF NumTables
<1> HIDE DEF p
<1>4. p * i \in Nat /\ i * p = p * i BY <1>1
<1>5. ASSUME x < p * i + p PROVE FALSE
  <2> HIDE DEF x
  <2> DEFINE y == (p - 1) + p * i
  <2>1. y \in Int /\ x =< y BY <1>1, <1>3, <1>4, <1>5
  <2>2. y \div p = ((p - 1) \div p) + i BY <1>1, DivModAdd
  <2>3. (p - 1) \div p = 0
    <3>1. p - 1 \in 0 .. p - 1 BY <1>1
    <3> QED BY <1>1, <3>1, ModSmall
  <2> HIDE DEF y
  <2>4. x \div p =< y \div p BY <1>1, <1>3, <2>1, DivMonotone
  <2>5. x \div p \in Int BY <1>1, <1>3, DivModDef
  <2> QED BY <1>3, <2>2, <2>3, <2>4, <2>5
<1>6. p * i + p =< x BY <1>1, <1>3, <1>4, <1>5
<1> QED BY <1>1, <1>2, <1>4, <1>6 DEF p

\* Each of a MADT's structures lies within it.
LEMMA IcIn ==
    ASSUME RsdpInv, LoopInv, pc = "madt", NEW n \in IcsAt(Madt, ic)
    PROVE  ic \in Nat /\ Madt.ics[n].length \in Nat /\ ic + Madt.ics[n].length =< Madt.length
<1> USE DEF Stage1Pcs, MaskingPcs, TablePcs, MadtPcs
<1>1. i + 1 \in 1 .. Len(rsdp.xsdt.tables) /\ Madt.sig = "APIC"
  BY TablesKnown DEF LoopInv, LoopTables, LoopTab, LoopMadt
<1>2. Madt \in Tables /\ Packed(Madt) BY <1>1, TablesKnown DEF Madt
<1>3. Madt.ics \in Seq(Ics) /\ Len(Madt.ics) \in Nat BY <1>2 DEF Tables
<1>4. n \in 1 .. Len(Madt.ics) /\ Madt.ics[n].off = ic BY <1>3 DEF IcsAt
<1>5. Madt.ics[n] \in Ics BY <1>3, <1>4
<1>6. ic \in Nat /\ Madt.ics[n].length \in Nat BY <1>4, <1>5 DEF Ics
<1>7. IcsEnd(Madt, n) = ic + Madt.ics[n].length BY <1>4 DEF IcsEnd
<1>8. Madt.length = IcsEnd(Madt, Len(Madt.ics)) BY <1>2 DEF Packed
<1>9. IcsEnd(Madt, n) =< IcsEnd(Madt, Len(Madt.ics))
  <2>1. n \in 0 .. Len(Madt.ics) /\ Len(Madt.ics) \in 0 .. Len(Madt.ics) BY <1>3, <1>4
  <2>2. IcsEnd(Madt, n) \in Nat /\ (n < Len(Madt.ics) => IcsEnd(Madt, n) < IcsEnd(Madt, Len(Madt.ics)))
    BY <1>2, <2>1, IcsGrow
  <2>3. IcsEnd(Madt, Len(Madt.ics)) \in Nat BY <1>2, <2>1, IcsGrow
  <2>4. n = Len(Madt.ics) \/ n < Len(Madt.ics) BY <1>3, <1>4
  <2> QED BY <2>2, <2>3, <2>4
<1> QED BY <1>6, <1>7, <1>8, <1>9

LEMMA VaReadStep ==
    ASSUME CallInv, RsdpInv, LoopInv, VaInv,
           \/ TabLength /\ ~Remaps
           \/ AcpiProcessRsdp \/ AcpiProcessXsdt \/ FirstTable \/ ProcessIc \/ MadtEnd
    PROVE  VaInv'
<1> USE DEF Stage1Pcs, MaskingPcs, TablePcs, MadtPcs
<1>0. pc # "halted" /\ pc \notin Stage1Pcs
  BY DEF TabLength, AcpiProcessRsdp, AcpiProcessXsdt, FirstTable, ProcessIc, MadtEnd
<1>t. tab \in {"xsdt", "table"} BY DEF CallInv, TabInv
<1>s. VaState(Live, Size, ptr, vaFree, vaBlocks) /\ Live \in SUBSET Objs /\ stray = FALSE
  BY <1>0 DEF VaInv, Live
<1>k. /\ UnionSize \in Nat /\ HeaderSize \in Nat \ {0} /\ HeaderSize =< UnionSize
      /\ XsdpSize \in Nat /\ XsdpSize =< HeaderSize /\ PointerSize \in Nat
      /\ rsdp_sz \in Nat /\ rsdp_sz >= HeaderSize /\ rsdp_sz = rsdp.xsdt.length
      /\ 0 \in Nat /\ 0 + HeaderSize = HeaderSize /\ 0 + XsdpSize = XsdpSize
  BY <1>0, SizesKnown, IrqAssumption
\* A read within what is mapped, after which the same is mapped.
<1>r. ASSUME NEW o \in Live, Size[o] \in Nat, NEW off \in Nat, NEW rd \in Nat,
             off + rd =< Size[o], Read(o, off, rd), Live' = Live,
             \A p \in Live : Size'[p] = Size[p], pc' # "remap"
      PROVE  VaInv'
  <2>1. stray' = FALSE /\ UNCHANGED <<ptr, vaFree, vaBlocks>> BY <1>r, <1>s, ReadOK
  <2>2. VaState(Live', Size, ptr', vaFree', vaBlocks') BY <2>1, <1>r, <1>s
  <2>3. VaState(Live', Size', ptr', vaFree', vaBlocks') BY <2>2, <1>r, VaSame
  <2> QED BY <1>r, <2>1, <2>3 DEF VaInv
<1>1. CASE AcpiProcessRsdp
  <2>1. Read("rsdp", 0, XsdpSize) /\ pc = "rsdp" /\ UNCHANGED <<rsdp, rsdp_sz, i, tab>>
        /\ tab = "xsdt" /\ pc' = "map_tab"
    BY <1>1, <1>0 DEF AcpiProcessRsdp, acpiVars, LoopInv, LoopTab, RsdpInv
  <2>2. "rsdp" \in Live /\ Live' = Live BY <2>1 DEF Live, Objs
  <2>3. Size["rsdp"] = rsdp_sz BY DEF Size, Objs
  <2>4. \A p \in Live : Size'[p] = Size[p] BY <2>1 DEF Live, Size, Objs
  <2>5. Size["rsdp"] \in Nat /\ 0 + XsdpSize =< Size["rsdp"] BY <1>k, <2>3
  <2>6. pc' # "remap" BY <2>1
  <2> QED BY <1>k, <1>r, <2>1, <2>2, <2>4, <2>5, <2>6
<1>2. CASE TabLength /\ ~Remaps
  <2>1. Read(tab, 0, HeaderSize) /\ pc = "tab_length" /\ UNCHANGED <<rsdp, rsdp_sz, i, tab>>
        /\ pc' = tab
    BY <1>2 DEF TabLength, acpiVars
  <2>2. tab \in Live /\ Live' = Live BY <2>1, <1>t DEF Live, Objs
  <2>3. Size[tab] = UnionSize BY <2>1, <1>t DEF Size, Objs
  <2>4. \A p \in Live \ {tab} : Size'[p] = Size[p] BY <2>1, <1>t DEF Live, Size, Objs
  <2>5. Size'[tab] = Size[tab]
    <3>1. /\ Tab.length \in Nat /\ Tab.length =< UnionSize
          /\ tab = "xsdt" => Tab.length = rsdp.xsdt.length
          /\ tab = "table" => Tab.length = rsdp.xsdt.tables[i + 1].length
      BY <1>0, <1>2, <1>k, <2>1, SizesKnown DEF Remaps
    <3>2. Larger(Tab.length, UnionSize) = UnionSize BY <1>k, <3>1 DEF Larger
    <3>3. CASE tab = "xsdt" BY <2>1, <2>3, <3>1, <3>2, <3>3 DEF Size, Objs
    <3>4. CASE tab = "table" BY <2>1, <2>3, <3>1, <3>2, <3>4 DEF Size, Objs
    <3> QED BY <1>t, <3>3, <3>4
  <2> QED BY <1>k, <1>r, <1>t, <2>1, <2>2, <2>3, <2>4, <2>5
<1>3. CASE AcpiProcessXsdt
  <2>1. pc = "xsdt" /\ tab = "xsdt" /\ UNCHANGED <<rsdp, rsdp_sz, i>>
        /\ \/ pc' = "map_tab" /\ tab' = "table"
           \/ pc' = "unmap_tab" /\ tab' = tab
    BY <1>3 DEF AcpiProcessXsdt, LoopInv, LoopTab
  <2>2. "xsdt" \in Live /\ Live' = Live BY <2>1 DEF Live, Objs
  <2>3. Size["xsdt"] = Larger(rsdp.xsdt.length, UnionSize) BY <2>1 DEF Size, Objs
  <2>4. \A p \in Live : Size'[p] = Size[p] BY <2>1 DEF Live, Size, Objs
  <2>5. Size["xsdt"] \in Nat /\ Size["xsdt"] >= rsdp.xsdt.length /\ Size["xsdt"] >= UnionSize
    BY <1>k, <2>3, MaxIsLarger
  <2>6. CASE i < NumTables(rsdp.xsdt)
    <3>1. Read("xsdt", HeaderSize + i * PointerSize, PointerSize) BY <1>3, <2>6 DEF AcpiProcessXsdt
    <3>2. i \in Nat BY <2>1, <1>0, TablesKnown DEF LoopInv, LoopTables
    <3>3. HeaderSize + i * PointerSize \in Nat
          /\ HeaderSize + i * PointerSize + PointerSize =< rsdp.xsdt.length
      BY <1>0, <2>6, <3>2, RefsIn
    <3> DEFINE off == HeaderSize + i * PointerSize
    <3> HIDE DEF off
    <3>4. off \in Nat /\ off + PointerSize =< rsdp.xsdt.length /\ Read("xsdt", off, PointerSize)
      BY <3>1, <3>3 DEF off
    <3>5. off + PointerSize =< Size["xsdt"] BY <1>k, <2>5, <3>4
    <3>6. pc' # "remap" BY <2>1
    <3> QED BY <1>k, <1>r, <2>2, <2>4, <2>5, <3>4, <3>5, <3>6
  <2>7. CASE ~(i < NumTables(rsdp.xsdt))
    <3>1. Read("xsdt", 0, HeaderSize) BY <1>3, <2>7 DEF AcpiProcessXsdt
    <3>2. 0 + HeaderSize =< Size["xsdt"] BY <1>k, <2>5
    <3> QED BY <1>k, <1>r, <2>1, <2>2, <2>4, <2>5, <3>1, <3>2
  <2> QED BY <2>6, <2>7
<1>m. ASSUME tab = "table", pc \in {"table", "madt"}
      PROVE  /\ "table" \in Live /\ Size["table"] \in Nat
             /\ Size["table"] >= Madt.length /\ Size["table"] >= UnionSize
  <2>1. "table" \in Live BY <1>m DEF Live, Objs
  <2>2. Tab.length \in Nat /\ Tab.length = rsdp.xsdt.tables[i + 1].length
    BY <1>0, <1>m, SizesKnown
  <2>3. Size["table"] = Larger(Madt.length, UnionSize) BY <1>m DEF Size, Objs, Madt
  <2>4. Madt.length \in Nat BY <2>2 DEF Madt
  <2>5. Larger(Madt.length, UnionSize) \in Nat /\ Larger(Madt.length, UnionSize) >= Madt.length
        /\ Larger(Madt.length, UnionSize) >= UnionSize
    BY <1>k, <2>4, MaxIsLarger
  <2> QED BY <2>1, <2>3, <2>5
<1>4. CASE FirstTable
  <2>1. pc = "table" /\ tab = "table" /\ UNCHANGED <<rsdp, rsdp_sz, i, tab>>
        /\ pc' \in {"madt", "unmap_tab"} /\ Read("table", 0, HeaderSize)
    BY <1>4 DEF FirstTable, LoopInv, LoopTab
  <2>2. "table" \in Live /\ Live' = Live BY <2>1 DEF Live, Objs
  <2>4. \A p \in Live : Size'[p] = Size[p] BY <2>1 DEF Live, Size, Objs
  <2>5. Size["table"] \in Nat /\ 0 + HeaderSize =< Size["table"] BY <1>k, <1>m, <2>1
  <2> QED BY <1>k, <1>r, <2>1, <2>2, <2>4, <2>5
<1>u. ASSUME UNCHANGED vaVars, Live' = Live, \A p \in Live : Size'[p] = Size[p], pc' # "remap"
      PROVE  VaInv'
  <2>1. VaState(Live', Size, ptr', vaFree', vaBlocks') BY <1>u, <1>s DEF vaVars
  <2>2. VaState(Live', Size', ptr', vaFree', vaBlocks') BY <2>1, <1>u, VaSame
  <2> QED BY <1>u, <1>s, <2>2 DEF VaInv, vaVars
<1>5. CASE ProcessIc
  <2>1. pc = "madt" /\ tab = "table" /\ UNCHANGED <<rsdp, rsdp_sz, i, tab>>
        /\ pc' \in {"madt", "ioapic"}
    BY <1>5 DEF ProcessIc, LoopInv, LoopTab
  <2>2. Live' = Live BY <2>1 DEF Live, Objs
  <2>3. \A p \in Live : Size'[p] = Size[p] BY <2>1 DEF Live, Size, Objs
  <2>4. CASE IcsAt(Madt, ic) = {} BY <1>5, <1>u, <2>1, <2>2, <2>3, <2>4 DEF ProcessIc
  <2>5. CASE IcsAt(Madt, ic) # {}
    <3>1. PICK n \in IcsAt(Madt, ic) : Read("table", ic, Madt.ics[n].length)
      BY <1>5, <2>5 DEF ProcessIc
    <3>2. ic \in Nat /\ Madt.ics[n].length \in Nat /\ ic + Madt.ics[n].length =< Madt.length
      BY <2>1, IcIn
    <3>3. Madt.length \in Nat
      <4>1. Tab.length \in Nat /\ Tab.length = rsdp.xsdt.tables[i + 1].length
        BY <1>0, <2>1, SizesKnown
      <4> QED BY <4>1 DEF Madt
    <3>4. "table" \in Live /\ Size["table"] \in Nat /\ ic + Madt.ics[n].length =< Size["table"]
      BY <1>m, <2>1, <3>2, <3>3
    <3>5. pc' # "remap" BY <2>1
    <3> QED BY <1>r, <2>2, <2>3, <3>1, <3>2, <3>4, <3>5
  <2> QED BY <2>4, <2>5
<1>6. CASE MadtEnd
  <2>1. pc = "madt" /\ tab = "table" /\ UNCHANGED <<rsdp, rsdp_sz, i, tab, vaVars>>
        /\ pc' = "unmap_tab"
    BY <1>6 DEF MadtEnd, LoopInv, LoopTab, irqVars, acpiVars, vaVars
  <2>2. Live' = Live BY <2>1 DEF Live, Objs
  <2>3. \A p \in Live : Size'[p] = Size[p] BY <2>1 DEF Live, Size, Objs
  <2> QED BY <1>u, <2>1, <2>2, <2>3
<1> QED BY <1>1, <1>2, <1>3, <1>4, <1>5, <1>6

LEMMA VaNext ==
    ASSUME CallInv, RsdpInv, LoopInv, VaInv, [Next]_vars
    PROVE  VaInv'
<1> USE DEF IrqPcs, Stage1Pcs, MaskingPcs, TablePcs, MadtPcs
\* Where nothing is mapped, before irq_init and after it.
<1>e. ASSUME UNCHANGED vaVars, pc # "halted", pc \notin TablePcs \cup {"rsdp", "unmap_rsdp"},
             pc' \notin TablePcs \cup {"rsdp", "unmap_rsdp"}
      PROVE  VaInv'
  <2>1. Live = {} /\ Live' = {} BY <1>e DEF Live, Objs
  <2>2. VaState(Live', Size, ptr', vaFree', vaBlocks') BY <1>e, <2>1 DEF VaInv, vaVars
  <2>3. VaState(Live', Size', ptr', vaFree', vaBlocks') BY <2>1, <2>2, VaSame
  <2> QED BY <1>e, <2>3 DEF VaInv, vaVars
<1>1. CASE Irq
  <2>1. CASE ProcessEfiConfTables BY <2>1, <1>e DEF ProcessEfiConfTables
  <2>2. CASE CheckXsdt BY <2>2, <1>e DEF CheckXsdt, irqVars
  <2>3. CASE CheckTable BY <2>3, <1>e DEF CheckTable
  <2>4. CASE AddRsdp BY <2>4, <1>e DEF AddRsdp
  <2>5. CASE PortWrite BY <2>5, <1>e DEF PortWrite
  <2>6. CASE IrqInitDone BY <2>6, <1>e DEF IrqInitDone, irqVars
  <2>7. CASE MapRsdp \/ AcpiMapTab \/ RemapTab \/ MapIoapic BY <2>7, VaMapStep
  <2>8. CASE AcpiUnmapTab \/ MaskPins \/ UnmapRsdp BY <2>8, VaUnmapStep
  <2>9. CASE AcpiProcessRsdp \/ AcpiProcessXsdt \/ FirstTable \/ ProcessIc \/ MadtEnd
    BY <2>9, VaReadStep
  <2>11. CASE TabLength /\ Remaps BY <2>11, VaUnmapStep
  <2>12. CASE TabLength /\ ~Remaps BY <2>12, VaReadStep
  <2>13. CASE TabLength BY <2>11, <2>12, <2>13, Zenon
  <2>10. IrqInitStep BY <1>1 DEF Irq
  <2> QED BY <2>1, <2>2, <2>3, <2>4, <2>5, <2>6, <2>7, <2>8, <2>9, <2>10, <2>13
          DEF IrqInitStep
<1>2. CASE UNCHANGED <<pc, rsdp, rsdp_sz, i, tab, vaVars>>
  <2>1. Live' = Live /\ Size' = Size BY <1>2 DEF Live, Size
  <2> QED BY <1>2, <2>1 DEF VaInv, vaVars, Remaps, Tab
<1>3. CASE Isr16Unimpl BY <1>3, <1>e DEF Isr16Unimpl
<1>4. CASE Lapic BY <1>4, <1>2 DEF Lapic, LapicAccepts, acpiVars
<1>5. CASE UNCHANGED irqVars /\ pc' = pc BY <1>5, <1>2 DEF irqVars, acpiVars
<1>6. CASE UNCHANGED irqVars /\ pc = "stage2_main" /\ pc' \in {"irq_init", "halted"}
  BY <1>6, <1>e DEF irqVars
<1>7. CASE UNCHANGED irqVars /\ pc \notin IrqPcs \cup {"halted"}
           /\ pc' \notin IrqPcs \cup {"message"}
  <2>1. pc # "rsdp" BY <1>7
  <2> QED BY <1>7, <1>e DEF irqVars
<1> QED BY <1>1, <1>3, <1>4, <1>5, <1>6, <1>7, NextSplit

-----------------------------------------------------------------------------
(***************************************************************************)
(* The theorems.                                                           *)
(***************************************************************************)
IInv ==
    /\ CallInv /\ PicsInv /\ IvtInv
    /\ RsdpInv /\ LoopInv /\ MaskedInv /\ VaInv
    /\ Served

LEMMA InitInv == Init => IInv
<1> SUFFICES ASSUME Init PROVE IInv OBVIOUS
<1>1. pc = "conf" /\ machine \in Machines /\ lapic = "none" /\ written = 0 /\ stray = FALSE
      /\ pics = machine.pics /\ vaFree = VaPages /\ vaBlocks = {}
      /\ ptr = [o \in Objs |-> NoPtr]
  BY DEF Init, IrqInitial, Va!Init, Objs
<1>2. CallInv BY CallInit
<1>3. PicsInv
  <2>1. pics \in [1 .. 2 -> Pics] BY <1>1, IrqAssumption
  <2> QED BY <1>1, <2>1 DEF PicsInv, PicStep, IrqPcs, Stage1Pcs
<1>4. IvtInv
  <2>1. ivt = [v \in Vectors |-> "zero"] BY DEF Init
  <2> QED BY <1>1, <2>1 DEF IvtInv, Stage1Pcs
<1>5. RsdpInv BY <1>1 DEF RsdpInv, Stage1Pcs
<1>6. LoopInv BY <1>1 DEF LoopInv, LoopTables, LoopTab, LoopMadt, TablePcs, MadtPcs
<1>7. MaskedInv BY <1>1 DEF MaskedInv, Stage1Pcs
<1>8. VaInv
  <2>1. Live = {} BY <1>1 DEF Live, TablePcs
  <2>2. ptr \in [Objs -> [start : Nat, pa : Nat]] BY <1>1 DEF NoPtr
  <2>3. VaState(Live, Size, ptr, vaFree, vaBlocks) BY <1>1, <2>1, <2>2 DEF VaState
  <2> QED BY <1>1, <2>3 DEF VaInv
<1>9. Served BY DEF Init, Served
<1> QED BY <1>2, <1>3, <1>4, <1>5, <1>6, <1>7, <1>8, <1>9 DEF IInv

LEMMA NextInv == IInv /\ [Next]_vars => IInv'
<1> SUFFICES ASSUME IInv, [Next]_vars PROVE IInv' OBVIOUS
<1>1. CallInv' BY CallStep DEF IInv
<1>2. PicsInv' BY PicsStep DEF IInv
<1>3. IvtInv' BY IvtStep DEF IInv
<1>4. RsdpInv' BY RsdpStep DEF IInv
<1>5. LoopInv' BY LoopNext DEF IInv
<1>6. MaskedInv' BY MaskedStep DEF IInv
<1>7. VaInv' BY VaNext DEF IInv
<1>8. Served' BY ServedStep DEF IInv
<1> QED BY <1>1, <1>2, <1>3, <1>4, <1>5, <1>6, <1>7, <1>8 DEF IInv

\* On every machine, whatever its ACPI tables, its 8259s and its option ROMs,
\* stage 2 takes interrupts only in real mode, those of the timer and the
\* keyboard, by their handlers (rm16.asm:101, irq.c:151, 210-223), but for what
\* the local APIC had accepted before irq_init was done.
THEOREM InterruptsServed == Spec => []Served
<1>1. IInv => Served BY DEF IInv
<1> QED BY InitInv, NextInv, <1>1, PTL DEF Spec

\* irq_init reads ACPI tables only where it has mapped them, unmaps exactly
\* what it mapped (mem.c:501-505), and has nothing mapped when it is done.
THEOREM TablesReadMapped == Spec => []ReadsMapped
<1>1. ASSUME IInv PROVE ReadsMapped
  <2>1. ~stray BY <1>1 DEF IInv, VaInv
  <2>2. ASSUME pc = "rimg_init" PROVE vaBlocks = {} /\ vaFree = VaPages
    <3>1. Live = {} BY <2>2 DEF Live, TablePcs
    <3>2. VaState(Live, Size, ptr, vaFree, vaBlocks) BY <1>1, <2>2 DEF IInv, VaInv
    <3> QED BY <3>1, <3>2 DEF VaState
  <2> QED BY <2>1, <2>2 DEF ReadsMapped
<1> QED BY InitInv, NextInv, <1>1, PTL DEF Spec
=============================================================================
