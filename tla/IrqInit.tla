------------------------------- MODULE IrqInit ------------------------------
(***************************************************************************)
(* From APIC interrupts to those of the 8259s.  Stage 1 checks the ACPI    *)
(* tables (process_efi_conf_tables() of stage1/main.c, stage1/acpi.c) and  *)
(* passes on the RSDP; stage 2 (stage2/irq.c) maps the tables one by one,  *)
(* masks the pins of each I/O APIC, and programs the 8259s and the timer.  *)
(* Mappings are those VaSpace promises.                                    *)
(*                                                                         *)
(* Sizes and addresses are in bytes of pages of PageSize bytes.  A byte    *)
(* written to a device is the set of the numbers of its bits.  "error" is  *)
(* stage 1's error(), "halted" stage 2's hlt().                            *)
(***************************************************************************)
EXTENDS Integers, Sequences, FiniteSets, FiniteSetsExt, Functions

CONSTANTS
    PageSize,       \* PAGE_SIZE
    XsdpSize, HeaderSize, PointerSize, MadtFixedSize,   \* acpi_xsdp_t etc.
    FadtMinSize,    \* a FADT up to its iapc_boot_flags
    UnionSize,      \* acpi_table_union_t
    IoapicSize,     \* ioapic_t
    PinsScanned,    \* the 24 pins that irq.c goes through
    PinCount,       \* the pins that an I/O APIC has
    VaPages,        \* the virtual pages that may be mapped
    Machines        \* the machines to boot

Kinds == {"APIC", "FACP", "other"}
Ics == [io : BOOLEAN, off : Nat, length : Nat \ {0}, addr : Nat]
Tables == [pa : Nat, sig : Kinds, length : Nat, pcat : BOOLEAN, nortc : BOOLEAN,
           ics : Seq(Ics)]
Xsdts == [pa : Nat, sig : BOOLEAN, length : Nat, cksum : BOOLEAN, tables : Seq(Tables)]
Xsdps == [pa : Nat, sig : BOOLEAN, revision : Nat, length : Nat, cksum : BOOLEAN,
          xsdt : Xsdts]
NoXsdt == [pa |-> 0, sig |-> FALSE, length |-> 0, cksum |-> FALSE, tables |-> << >>]
\* A configuration table other than ACPI's.
NoXsdp == [pa |-> 0, sig |-> FALSE, revision |-> 0, length |-> 0, cksum |-> FALSE,
           xsdt |-> NoXsdt]

NumTables(x) == (x.length - HeaderSize) \div PointerSize

\* The structures of a MADT follow one another and fill it.
IcsEnd(t, n) == IF n = 0 THEN MadtFixedSize ELSE t.ics[n].off + t.ics[n].length
Packed(t) ==
    /\ \A n \in DOMAIN t.ics : t.ics[n].off = IcsEnd(t, n - 1)
    /\ t.length = IcsEnd(t, Len(t.ics))

(***************************************************************************)
(* A machine: its EFI configuration tables, whether it has 8259s, and how  *)
(* its firmware left them.  An XSDT refers to as many tables as its length *)
(* has room for.  A MADT's flag is right about the 8259s (without a MADT   *)
(* there are some), and an I/O APIC has no more pins than irq.c masks.     *)
(***************************************************************************)
WellFormed(x, m) ==
    /\ x.length >= HeaderSize => Len(x.tables) = NumTables(x)
    /\ m.has8259 \/ x = NoXsdt \/ \E n \in DOMAIN x.tables : x.tables[n].sig = "APIC"
    /\ \A n \in DOMAIN x.tables : LET t == x.tables[n] IN
        /\ t.length >= HeaderSize
        /\ t.sig = "APIC" => t.pcat = m.has8259 /\ Packed(t)

Bytes == SUBSET (0 .. 7)
Pics == [step : {"icw2", "icw3", "icw4", "ready"}, base : Bytes, imr : Bytes,
         isr : Bytes, x86 : BOOLEAN]

ASSUME IrqAssumption ==
    /\ PageSize \in Nat \ {0} /\ VaPages \subseteq Nat \ {0} /\ IsFiniteSet(VaPages)
    /\ {HeaderSize, MadtFixedSize, FadtMinSize, UnionSize, PinsScanned} \subseteq Nat
    /\ PointerSize \in Nat \ {0}
    /\ XsdpSize \in 1 .. HeaderSize /\ HeaderSize =< MadtFixedSize
    /\ MadtFixedSize =< UnionSize /\ FadtMinSize =< UnionSize
    /\ IoapicSize \in Nat \ {0}
    /\ PinCount \in 0 .. PinsScanned
    /\ \A m \in Machines :
        /\ m.conf \in Seq(Xsdps)
        /\ \A n \in DOMAIN m.conf : WellFormed(m.conf[n].xsdt, m)
        /\ m.has8259 \in BOOLEAN
        /\ m.pics \in [1 .. 2 -> Pics]

VARIABLES
    pc,
    machine,
    rsdp,           \* the RSDP found
    rsdp_sz,        \* the size that stage 2 is told
    i,              \* the loops over the tables: how many are done
    tab,            \* which of xsdt and table acpi_map_tab works on
    ic,             \* acpi_process_madt: how far it has got
    ptr,            \* stage 2's pointers, by what they point to
    vaFree, vaBlocks,   \* the virtual pages: see VaSpace
    stray,          \* history: a read was not mapped, or an unmap not of a block
    masked,         \* the I/O APIC pins that are masked
    lapic,          \* an interrupt the local APIC has accepted, and when
    pics, pit,      \* the 8259s, and bytes until the timer runs
    written         \* how many writes to their ports are done

acpiVars == <<rsdp, rsdp_sz, i, tab, ic>>
vaVars == <<ptr, vaFree, vaBlocks, stray>>
devVars == <<masked, lapic, pics, pit, written>>
irqVars == <<machine, acpiVars, vaVars, devVars>>

Va == INSTANCE VaSpace WITH free <- vaFree, blocks <- vaBlocks, Spaces <- {VaPages}

NoPtr == [start |-> 0, pa |-> 0]

IrqInitial ==
    /\ machine \in Machines
    /\ rsdp = NoXsdp /\ rsdp_sz = 0
    /\ i = 0 /\ tab = "xsdt" /\ ic = 0
    /\ ptr = [o \in {"rsdp", "xsdt", "table", "ioapic"} |-> NoPtr]
    /\ Va!Init /\ stray = FALSE
    /\ masked = {} /\ lapic = "none"
    /\ pics = machine.pics /\ pit = 3
    /\ written = 0

-----------------------------------------------------------------------------
(***************************************************************************)
(* Stage 1.                                                                *)
(***************************************************************************)
\* process_efi_conf_tables: the last one with ACPI 2's GUID.
ProcessEfiConfTables ==
    /\ pc = "conf"
    /\ LET acpi == {n \in DOMAIN machine.conf : machine.conf[n] # NoXsdp} IN
       \/ acpi = {} /\ pc' = "error" /\ UNCHANGED rsdp
       \/ acpi # {} /\ rsdp' = machine.conf[Max(acpi)] /\ pc' = "acpi_init"
    /\ UNCHANGED <<machine, rsdp_sz, i, tab, ic, vaVars, devVars>>

RsdpGood == rsdp.sig /\ rsdp.revision >= 2 /\ rsdp.length >= XsdpSize /\ rsdp.cksum

\* Mutant: any length will do.
XsdtGoodAnySize(x) == x.sig /\ x.cksum

XsdtGood(x) == x.sig /\ x.length >= HeaderSize + PointerSize /\ x.cksum

CheckXsdt ==
    /\ pc = "acpi_init"
    /\ pc' = IF RsdpGood /\ XsdtGood(rsdp.xsdt) THEN "check" ELSE "error"
    /\ UNCHANGED irqVars

\* acpi_process_fadt and acpi_process_madt of stage 1.
\* Mutant: the MADT's flag is not looked at.
TableGoodNoFlag(t) == t.sig = "FACP" => t.length >= FadtMinSize /\ ~t.nortc

TableGood(t) ==
    /\ t.sig = "FACP" => t.length >= FadtMinSize /\ ~t.nortc
    /\ t.sig = "APIC" => t.pcat

CheckTable ==
    /\ pc = "check" /\ i < NumTables(rsdp.xsdt)
    /\ IF TableGood(rsdp.xsdt.tables[i + 1])
       THEN i' = i + 1 /\ UNCHANGED pc
       ELSE pc' = "error" /\ UNCHANGED i
    /\ UNCHANGED <<machine, rsdp, rsdp_sz, tab, ic, vaVars, devVars>>

\* The BP_RSDP parameter: the RSDP's address, and the size read last.
AddRsdp ==
    /\ pc = "check" /\ i >= NumTables(rsdp.xsdt)
    /\ rsdp_sz' = rsdp.xsdt.length
    /\ pc' = "stage2_main"
    /\ UNCHANGED <<machine, rsdp, i, tab, ic, vaVars, devVars>>

-----------------------------------------------------------------------------
(***************************************************************************)
(* Mappings, as callers of mem_va_map and mem_va_unmap see them.           *)
(***************************************************************************)
PagesFor(pa, sz) == ((pa + sz + PageSize - 1) \div PageSize) - (pa \div PageSize)

Block(o, sz) == [start |-> ptr[o].start, len |-> PagesFor(ptr[o].pa, sz)]

Map(o, pa, sz) ==
    \E s \in vaFree :
        /\ Va!Acquire([start |-> s, len |-> PagesFor(pa, sz)])
        /\ ptr' = [ptr EXCEPT ![o] = [start |-> s, pa |-> pa]]

NoRoom(pa, sz) ==
    \A s \in vaFree : ~(s .. s + PagesFor(pa, sz) - 1 \subseteq vaFree)

\* Map, and go on at next; hlt() when there is no room.
MapThen(o, pa, sz, next) ==
    /\ \/ Map(o, pa, sz) /\ pc' = next
       \/ NoRoom(pa, sz) /\ pc' = "halted" /\ UNCHANGED <<ptr, vaFree, vaBlocks>>
    /\ UNCHANGED stray

\* Whether o's bytes from off on may be read through its pointer.
Mapped(o, off, sz) ==
    \E b \in vaBlocks : b.start = ptr[o].start /\ PagesFor(ptr[o].pa, off + sz) =< b.len

UnmapReading(o, sz, off, rd) ==
    LET ok == Mapped(o, off, rd) /\ Block(o, sz) \in vaBlocks IN
    /\ stray' = (stray \/ ~ok)
    /\ IF ok THEN Va!Release(Block(o, sz)) ELSE UNCHANGED <<vaFree, vaBlocks>>
    /\ ptr' = [ptr EXCEPT ![o] = NoPtr]

Unmap(o, sz) == UnmapReading(o, sz, 0, 1)

Read(o, off, sz) ==
    /\ stray' = (stray \/ ~Mapped(o, off, sz))
    /\ UNCHANGED <<ptr, vaFree, vaBlocks>>

-----------------------------------------------------------------------------
(***************************************************************************)
(* Stage 2: irq_init up to the tables.                                     *)
(***************************************************************************)
MapRsdp ==
    /\ pc = "irq_init"
    /\ MapThen("rsdp", rsdp.pa, rsdp_sz, "rsdp")
    /\ i' = 0 /\ tab' = "xsdt"
    /\ UNCHANGED <<machine, rsdp, rsdp_sz, ic, devVars>>

AcpiProcessRsdp ==
    /\ pc = "rsdp"
    /\ Read("rsdp", 0, XsdpSize)
    /\ pc' = IF rsdp.sig THEN "map_tab" ELSE "halted"
    /\ UNCHANGED <<machine, acpiVars, devVars>>

Tab == IF tab = "xsdt" THEN [pa |-> rsdp.xsdt.pa, length |-> rsdp.xsdt.length]
       ELSE [pa |-> rsdp.xsdt.tables[i + 1].pa, length |-> rsdp.xsdt.tables[i + 1].length]

\* acpi_map_tab: map as much as the union has, and what is longer again.
AcpiMapTab ==
    /\ pc = "map_tab"
    /\ MapThen(tab, Tab.pa, UnionSize, "tab_length")
    /\ UNCHANGED <<machine, acpiVars, devVars>>

\* Mutant: the first mapping is kept.
RemapsNever == FALSE

Remaps == Tab.length > UnionSize

TabLength ==
    /\ pc = "tab_length"
    /\ IF Remaps
       THEN UnmapReading(tab, UnionSize, 0, HeaderSize) /\ pc' = "remap"
       ELSE Read(tab, 0, HeaderSize) /\ pc' = tab
    /\ UNCHANGED <<machine, acpiVars, devVars>>

RemapTab ==
    /\ pc = "remap"
    /\ MapThen(tab, Tab.pa, Tab.length, tab)
    /\ UNCHANGED <<machine, acpiVars, devVars>>

\* acpi_unmap_tab.
AcpiUnmapTab ==
    /\ pc = "unmap_tab"
    /\ UnmapReading(tab, Max({Tab.length, UnionSize}), 0, HeaderSize)
    /\ IF tab = "table"
       THEN i' = i + 1 /\ tab' = "xsdt" /\ pc' = "xsdt"
       ELSE pc' = "unmap_rsdp" /\ UNCHANGED <<i, tab>>
    /\ UNCHANGED <<machine, rsdp, rsdp_sz, ic, devVars>>

\* acpi_process_xsdt.
AcpiProcessXsdt ==
    /\ pc = "xsdt"
    /\ IF i < NumTables(rsdp.xsdt)
       THEN /\ Read("xsdt", HeaderSize + i * PointerSize, PointerSize)
            /\ tab' = "table" /\ pc' = "map_tab"
       ELSE /\ Read("xsdt", 0, HeaderSize)
            /\ pc' = "unmap_tab" /\ UNCHANGED tab
    /\ UNCHANGED <<machine, rsdp, rsdp_sz, i, ic, devVars>>

-----------------------------------------------------------------------------
(***************************************************************************)
(* acpi_process_madt: mask the pins of each I/O APIC it lists.             *)
(***************************************************************************)
Madt == rsdp.xsdt.tables[i + 1]

\* The structure at an offset of a MADT.
IcsAt(t, off) == {n \in DOMAIN t.ics : t.ics[n].off = off}

FirstTable ==
    /\ pc = "table"
    /\ Read("table", 0, HeaderSize)
    /\ IF Madt.sig = "APIC"
       THEN ic' = MadtFixedSize /\ pc' = "madt"
       ELSE pc' = "unmap_tab" /\ UNCHANGED ic
    /\ UNCHANGED <<machine, rsdp, rsdp_sz, i, tab, devVars>>

\* Where the next structure is.
\* Mutant: as if all were of one size.
IcNextFixed(u) == ic + Madt.ics[1].length

IcNext(u) == ic + u.length

MadtEnd ==
    /\ pc = "madt" /\ ic = Madt.length
    /\ pc' = "unmap_tab"
    /\ UNCHANGED irqVars

\* A structure of the MADT.  Where there is none the loop would not end.
ProcessIc ==
    /\ pc = "madt" /\ ic # Madt.length
    /\ IF IcsAt(Madt, ic) = {} THEN UNCHANGED <<pc, ic, vaVars>>
       ELSE \E n \in IcsAt(Madt, ic) : LET u == Madt.ics[n] IN
            /\ Read("table", ic, u.length)
            /\ IF u.io THEN pc' = "ioapic" /\ UNCHANGED ic
               ELSE ic' = IcNext(u) /\ UNCHANGED pc
    /\ UNCHANGED <<machine, rsdp, rsdp_sz, i, tab, devVars>>

MapIoapic ==
    /\ pc = "ioapic"
    /\ \E n \in IcsAt(Madt, ic) : MapThen("ioapic", Madt.ics[n].addr, IoapicSize, "mask")
    /\ UNCHANGED <<machine, acpiVars, devVars>>

\* Mutant: one pin too few.
PinsMaskedShort == 0 .. PinsScanned - 2

PinsMasked == 0 .. PinsScanned - 1

MaskPins ==
    /\ pc = "mask"
    /\ masked' = masked \cup ({ptr["ioapic"].pa} \X PinsMasked)
    /\ Unmap("ioapic", IoapicSize)
    /\ \E n \in IcsAt(Madt, ic) : ic' = IcNext(Madt.ics[n])
    /\ pc' = "madt"
    /\ UNCHANGED <<machine, rsdp, rsdp_sz, i, tab, lapic, pics, pit, written>>

UnmapRsdp ==
    /\ pc = "unmap_rsdp"
    /\ Unmap("rsdp", rsdp_sz)
    /\ pc' = "pics"
    /\ UNCHANGED <<machine, acpiVars, devVars>>

-----------------------------------------------------------------------------
(***************************************************************************)
(* The 8259s and the timer.                                                *)
(***************************************************************************)
Write(d, p, v) == [dev |-> d, port |-> p, val |-> v]

PortWrites ==
    <<Write(1, "cmd", {0, 4}), Write(2, "cmd", {0, 4}),             \* ICW1
      Write(1, "data", {3}), Write(2, "data", {4, 5, 6}),           \* ICW2
      Write(1, "data", {2}), Write(2, "data", {1}),                 \* ICW3
      Write(1, "data", {0}), Write(2, "data", {0}),                 \* ICW4
      Write(1, "data", 2 .. 7), Write(2, "data", 0 .. 7),           \* OCW1
      Write(1, "cmd", {5}), Write(2, "cmd", {5}),                   \* OCW2
      Write(0, "cmd", {1, 2, 4, 5}), Write(0, "data", {}), Write(0, "data", {})>>

\* Mutant: ICW3 is left out.
WritesNoIcw3 == SubSeq(PortWrites, 1, 4) \o SubSeq(PortWrites, 7, 15)

\* Mutant: the ends of interrupts are left out.
WritesNoEoi == SubSeq(PortWrites, 1, 10) \o SubSeq(PortWrites, 13, 15)

Writes == PortWrites

\* What an 8259 makes of a byte.  Whether ICW1 ends the interrupt that is in
\* service is not the same for all of them.
AfterCmd(p, v) ==
    IF 4 \in v
    THEN {[p EXCEPT !.step = "icw2", !.imr = {}, !.x86 = FALSE, !.isr = s] : s \in {{}, p.isr}}
    ELSE {[p EXCEPT !.isr = IF 5 \in v /\ @ # {} THEN @ \ {Min(@)} ELSE @]}

AfterData(p, v) ==
    CASE p.step = "icw2" -> [p EXCEPT !.base = v, !.step = "icw3"]
      [] p.step = "icw3" -> [p EXCEPT !.step = "icw4"]
      [] p.step = "icw4" -> [p EXCEPT !.x86 = 0 \in v, !.step = "ready"]
      [] p.step = "ready" -> [p EXCEPT !.imr = v]

PicWrite(w) ==
    /\ w.dev \in {1, 2}
    /\ IF machine.has8259
       THEN \E p \in IF w.port = "cmd" THEN AfterCmd(pics[w.dev], w.val)
                     ELSE {AfterData(pics[w.dev], w.val)} :
                pics' = [pics EXCEPT ![w.dev] = p]
       ELSE UNCHANGED pics
    /\ UNCHANGED pit

\* The timer runs after a command for both bytes of the count and the bytes.
PitWrite(w) ==
    /\ w.dev = 0
    /\ pit' = IF w.port = "cmd" THEN 2 ELSE Max({0, pit - 1})
    /\ UNCHANGED pics

PortWrite ==
    /\ pc = "pics" /\ written < Len(Writes)
    /\ PicWrite(Writes[written + 1]) \/ PitWrite(Writes[written + 1])
    /\ written' = written + 1
    /\ UNCHANGED <<pc, machine, acpiVars, vaVars, masked, lapic>>

IrqInitDone ==
    /\ pc = "pics" /\ written = Len(Writes)
    /\ pc' = "rimg_init"
    /\ UNCHANGED irqVars

-----------------------------------------------------------------------------
(***************************************************************************)
(* The hardware.                                                           *)
(***************************************************************************)
Ioapics ==
    UNION {{t.ics[n].addr : n \in {n \in DOMAIN t.ics : t.ics[n].io}} :
        t \in {t \in Range(rsdp.xsdt.tables) : t.sig = "APIC"}}

Stage1Pcs == {"conf", "acpi_init", "check", "error"}
\* Until all pins have been masked.
MaskingPcs == {"stage2_main", "irq_init", "rsdp", "map_tab", "tab_length", "remap",
               "xsdt", "table", "madt", "ioapic", "mask", "unmap_tab"}

\* A device's request reaches the local APIC through a pin that is not
\* masked.  Stage 1 ends with interrupts off, so it waits there.
LapicAccepts ==
    /\ lapic = "none"
    /\ pc \notin Stage1Pcs
    /\ (Ioapics \X (0 .. PinCount - 1)) \ masked # {}
    /\ lapic' = IF pc \in MaskingPcs THEN "early" ELSE "late"
    /\ UNCHANGED <<pc, machine, acpiVars, vaVars, masked, pics, pit, written>>

\* The number whose bits are those of ICW2.
Base(p) ==
    LET bit(n, value) == IF n \in p.base THEN value ELSE 0
    IN  bit(0, 1) + bit(1, 2) + bit(2, 4) + bit(3, 8)
        + bit(4, 16) + bit(5, 32) + bit(6, 64) + bit(7, 128)

\* An 8259 that has been set up passes on line n.
Passes(p, n) ==
    /\ p.step = "ready" /\ n \notin p.imr
    /\ \A s \in p.isr : s > n

\* Whether interrupt request n gets to the processor, and its vector.
Requests(n) ==
    /\ machine.has8259
    /\ IF n < 8 THEN Passes(pics[1], n)
       ELSE Passes(pics[2], n - 8) /\ Passes(pics[1], 2)
    /\ n = 0 => pit = 0

NoVector == -1
Vector(n) ==
    LET p == pics[IF n < 8 THEN 1 ELSE 2]
    IN  IF p.x86 THEN Base(p) + (n % 8) ELSE NoVector

IrqInitStep ==
    \/ ProcessEfiConfTables \/ CheckXsdt \/ CheckTable \/ AddRsdp
    \/ MapRsdp \/ AcpiProcessRsdp \/ AcpiMapTab \/ TabLength \/ RemapTab
    \/ AcpiUnmapTab \/ AcpiProcessXsdt \/ FirstTable \/ MadtEnd \/ ProcessIc
    \/ MapIoapic \/ MaskPins \/ UnmapRsdp \/ PortWrite \/ IrqInitDone

-----------------------------------------------------------------------------
\* Whatever ACPI tables stage 1 let pass, and however long they are, stage 2
\* reads them only through mappings that reach far enough and are still there,
\* gives back exactly the blocks it got, as mem.c:501-505 asks, and ends with
\* none.  The size it maps of the RSDP is the XSDT's (acpi.c:79, 97).
ReadsMapped ==
    /\ ~stray
    /\ pc = "rimg_init" => vaBlocks = {} /\ vaFree = VaPages
=============================================================================
