----------------------------- MODULE Stage2Main -----------------------------
(***************************************************************************)
(* Stage 2 from its entry point on (stage2/start.asm, stage2/main.c,       *)
(* stage2/rm16.asm, stage2/16/do-rm16-call.asm, stage2/16/vecs16.asm):     *)
(* rm16_init, irq_init (IrqInit), the option ROMs of displays, and         *)
(* hello16, which never returns.  Memory and its mappings are set up in    *)
(* MemInit; the handlers irq0 and irq1 are Time and Kb.                    *)
(*                                                                         *)
(* An option ROM's code may turn interrupts on and off, use the GDTR and   *)
(* CR3, take over int 0x10, move the extended BIOS data area (EBDA), call  *)
(* an interrupt that has no handler yet, and returns in the end.  "panic"  *)
(* is isr16_unimpl, "wild" a jump through a vector that is zero.           *)
(***************************************************************************)
EXTENDS IrqInit

CONSTANTS
    Segs,           \* base memory, in blocks as large as the EBDA
    TempEbda,       \* the EBDA that stage 1 leaves behind
    DeviceLists,    \* the BP_PCID parameters: sequences of [vga, rom]
    Lines           \* the interrupt requests that devices raise

ASSUME Stage2Assumption ==
    /\ TempEbda \in Segs /\ IsFiniteSet(Segs)
    /\ \A ds \in DeviceLists : ds \in Seq([vga : BOOLEAN, rom : BOOLEAN])
    /\ Lines \subseteq 0 .. 15

VARIABLES
    devices,        \* the list
    bp,             \* rimg_init: how many of them are done
    ebda,           \* bda.ebda
    rm16_cs,        \* the segment of the real-mode code
    ivt,            \* the real-mode interrupt vectors
    cpu,            \* the registers that matter
    ret,            \* where rm16_call returns to, and the flag it saved
    callee,         \* what it calls: option ROM or hello16
    words,          \* sp32, ptpd32 and gdtr in each block of base memory
    taken,          \* history: the last interrupt taken
    tick            \* history: the timer's interrupts taken, mod 2

bootVars == <<devices, bp, ebda, rm16_cs, ivt>>
callVars == <<cpu, ret, callee, words>>
seenVars == <<taken, tick>>
vars == <<pc, irqVars, bootVars, callVars, seenVars>>

\* Stage 2's own values of the registers.
Own == [pe |-> TRUE, pg |-> TRUE, pae |-> TRUE, if |-> FALSE,
        esp |-> "stage2", cr3 |-> "stage2", gdtr |-> "stage2", ds |-> "flat"]
Garbage == [esp |-> "?", cr3 |-> "?", gdtr |-> "?"]

\* vecs16: the handlers there are.
Vectors == 0 .. 28     \* NUM_VECS16 of them; the rest stays zero
Vecs16 == [v \in Vectors |->
    CASE v = 8 -> "irq0"
      [] v = 9 -> "irq1"
      [] v \in {1, 3, 4, 27, 28} -> "iret"
      [] v \in {17, 18, 26} -> "impl"
      [] OTHER -> "unimpl"]

NotTaken == [vec |-> NoVector, handler |-> "none", real |-> TRUE, when |-> "none",
             lapic |-> "none"]

Init ==
    /\ pc = "conf"
    /\ IrqInitial
    /\ devices \in DeviceLists /\ bp = 0
    /\ ebda = TempEbda /\ rm16_cs = TempEbda
    /\ ivt = [v \in Vectors |-> "zero"]
    /\ cpu = Own    \* as mem_init leaves it
    /\ ret = [to |-> "none", if |-> FALSE] /\ callee = "none"
    /\ words = [s \in Segs |-> Garbage]
    /\ taken = NotTaken /\ tick = 0

\* A step of irq_init, with interrupts off.
Irq == IrqInitStep /\ UNCHANGED <<bootVars, callVars, seenVars>>

-----------------------------------------------------------------------------
(***************************************************************************)
(* rm16_init: room for the code and the data, which becomes the EBDA, and  *)
(* the vectors.  mem_alloc halts when there is no room.                    *)
(***************************************************************************)
Rm16Init ==
    /\ pc = "stage2_main"
    /\ \/ \E c, d \in Segs :
            /\ c # d
            /\ rm16_cs' = c /\ ebda' = d
            /\ ivt' = Vecs16
            /\ pc' = "irq_init"
       \/ pc' = "halted" /\ UNCHANGED <<rm16_cs, ebda, ivt>>
    /\ UNCHANGED <<irqVars, devices, bp, callVars, seenVars>>

\* rm16_call's entry: the flags are saved and interrupts go off.
Rm16Call(what, then) ==
    /\ ret' = [to |-> then, if |-> cpu.if]
    /\ cpu' = [cpu EXCEPT !.if = FALSE]
    /\ callee' = what
    /\ pc' = "leave"
    /\ UNCHANGED words

\* rimg_init(bparms, true)
RimgInit ==
    /\ pc = "rimg_init" /\ bp < Len(devices)
    /\ bp' = bp + 1
    /\ IF devices[bp + 1].vga /\ devices[bp + 1].rom
       THEN Rm16Call("rom", "rimg_init")
       ELSE UNCHANGED <<pc, callVars>>
    /\ UNCHANGED <<irqVars, devices, ebda, rm16_cs, ivt, seenVars>>

Hello ==
    /\ pc = "rimg_init" /\ bp = Len(devices)
    /\ Rm16Call("hello16", "rimg_init_rest")
    /\ UNCHANGED <<irqVars, bootVars, seenVars>>

-----------------------------------------------------------------------------
(***************************************************************************)
(* rm16_call, the 16-bit part.                                             *)
(***************************************************************************)
LeaveProtectedMode ==
    /\ pc = "leave"
    /\ cpu' = [cpu EXCEPT !.pe = FALSE, !.pg = FALSE, !.ds = ebda]
    /\ pc' = "save"
    /\ UNCHANGED <<irqVars, bootVars, ret, callee, words, seenVars>>

SaveRegisters ==
    /\ pc = "save"
    /\ words' = [words EXCEPT ![cpu.ds] =
                    [esp |-> cpu.esp, cr3 |-> cpu.cr3, gdtr |-> cpu.gdtr]]
    /\ cpu' = [cpu EXCEPT !.esp = "stack16", !.pae = FALSE]
    /\ pc' = callee
    /\ UNCHANGED <<irqVars, bootVars, ret, callee, seenVars>>

\* cli after the call.
\* Mutant: it is missing.
FlagAfterCallKept == cpu.if

FlagAfterCall == FALSE

CalleeReturns ==
    /\ pc = "rom"
    /\ cpu' = [cpu EXCEPT !.if = FlagAfterCall]
    /\ pc' = "restore"
    /\ UNCHANGED <<irqVars, bootVars, ret, callee, words, seenVars>>

\* Where the saved registers are looked for.
\* Mutant: where they were saved.
SavedInOld == cpu.ds

SavedIn == ebda

RestoreRegisters ==
    /\ pc = "restore"
    /\ LET w == words[SavedIn] IN
       cpu' = [cpu EXCEPT !.ds = SavedIn, !.esp = w.esp, !.cr3 = w.cr3, !.gdtr = w.gdtr]
    /\ pc' = "reenter"
    /\ UNCHANGED <<irqVars, bootVars, ret, callee, words, seenVars>>

ReenterProtectedMode ==
    /\ pc = "reenter"
    /\ cpu' = [cpu EXCEPT !.pae = TRUE, !.pe = TRUE, !.pg = TRUE]
    /\ pc' = "popfd"
    /\ UNCHANGED <<irqVars, bootVars, ret, callee, words, seenVars>>

\* Back on the 32-bit stack: the segments, and the flags.
Rm16CallReturns ==
    /\ pc = "popfd"
    /\ cpu' = [cpu EXCEPT !.ds = "flat", !.if = ret.if]
    /\ pc' = ret.to
    /\ UNCHANGED <<irqVars, bootVars, ret, callee, words, seenVars>>

-----------------------------------------------------------------------------
(***************************************************************************)
(* Option ROMs.                                                            *)
(***************************************************************************)
RomSetsFlag ==
    /\ pc = "rom"
    /\ \E f \in BOOLEAN : cpu' = [cpu EXCEPT !.if = f]
    /\ UNCHANGED <<pc, irqVars, bootVars, ret, callee, words, seenVars>>

\* Page tables and a GDT of its own.
RomUsesRegisters ==
    /\ pc = "rom"
    /\ cpu' = [cpu EXCEPT !.cr3 = "rom", !.gdtr = "rom"]
    /\ UNCHANGED <<pc, irqVars, bootVars, ret, callee, words, seenVars>>

RomTakesInt10 ==
    /\ pc = "rom"
    /\ ivt' = [ivt EXCEPT ![16] = "rom"]
    /\ UNCHANGED <<pc, irqVars, devices, bp, ebda, rm16_cs, callVars, seenVars>>

\* Copy the whole EBDA (its size is its first byte) and use the old place.
RomMovesEbda ==
    /\ pc = "rom"
    /\ \E s \in Segs \ {ebda, rm16_cs} :
        /\ words' = [words EXCEPT ![s] = words[ebda], ![ebda] = Garbage]
        /\ ebda' = s
    /\ UNCHANGED <<pc, irqVars, devices, bp, rm16_cs, ivt, cpu, ret, callee, seenVars>>

\* An interrupt goes to isr16_unimpl, with interrupts off.
Panic == pc' = "panic" /\ cpu' = [cpu EXCEPT !.if = FALSE]

RomCallsUnimpl ==
    /\ pc = "rom" /\ \E v \in Vectors : ivt[v] = "unimpl"
    /\ Panic
    /\ UNCHANGED <<irqVars, bootVars, ret, callee, words, seenVars>>

-----------------------------------------------------------------------------
\* hello16: int 0x10 three times, sti, and a loop with no end.
Hello16 ==
    /\ pc = "hello16"
    /\ IF ivt[16] = "unimpl"
       THEN Panic
       ELSE pc' = "spin" /\ cpu' = [cpu EXCEPT !.if = TRUE]
    /\ UNCHANGED <<irqVars, bootVars, ret, callee, words, seenVars>>

\* isr16_unimpl: mask all requests.
\* Mutant: leave them.
PanicMaskNone == [n \in {1, 2} |-> pics[n]]

PanicMask == [n \in {1, 2} |-> AfterData(pics[n], 0 .. 7)]

Isr16Unimpl ==
    /\ pc = "panic"
    /\ pics' = PanicMask
    /\ cpu' = [cpu EXCEPT !.ds = ebda, !.esp = "stack16"]
    /\ pc' = "message"
    /\ UNCHANGED <<machine, acpiVars, vaVars, masked, lapic, pit, written, bootVars, ret,
                   callee, words, seenVars>>

\* The message is put up with int 0x10: a ROM's, which may turn interrupts on,
\* or, where there is none, isr16_unimpl again.
Message ==
    /\ pc = "message"
    /\ \/ /\ ivt[16] = "unimpl" /\ Panic
       \/ /\ ivt[16] # "unimpl"
          /\ \/ pc' = "halted" /\ cpu' = [cpu EXCEPT !.if = FALSE]
             \/ UNCHANGED pc /\ cpu' = [cpu EXCEPT !.if = TRUE]
    /\ UNCHANGED <<irqVars, bootVars, ret, callee, words, seenVars>>

-----------------------------------------------------------------------------
(***************************************************************************)
(* Interrupts.  irq0 and irq1 return with all as it was and the 8259 told. *)
(***************************************************************************)
TakeFrom(vec, from) ==
    taken' = [vec |-> vec, handler |-> IF vec \in Vectors THEN ivt[vec] ELSE "zero",
              real |-> ~cpu.pe, when |-> pc, lapic |-> from]

PicInterrupt(n) ==
    /\ cpu.if /\ pc # "halted"
    /\ Requests(n)
    /\ TakeFrom(Vector(n), "none")
    /\ tick' = IF n = 0 THEN 1 - tick ELSE tick
    /\ CASE taken'.handler = "zero" -> pc' = "wild" /\ UNCHANGED cpu
         [] taken'.handler = "unimpl" -> Panic
         [] OTHER -> UNCHANGED <<pc, cpu>>
    /\ UNCHANGED <<irqVars, bootVars, ret, callee, words>>

\* What the local APIC held comes with a vector of the firmware's choice.
LapicInterrupt ==
    /\ cpu.if /\ pc # "halted" /\ lapic # "none"
    /\ TakeFrom(255, lapic)
    /\ pc' = "wild"
    /\ UNCHANGED <<irqVars, bootVars, callVars, tick>>

Lapic == LapicAccepts /\ UNCHANGED <<bootVars, callVars, seenVars>>

Main ==
    \/ Irq \/ Rm16Init \/ RimgInit \/ Hello
    \/ LeaveProtectedMode \/ SaveRegisters \/ CalleeReturns \/ RestoreRegisters
    \/ ReenterProtectedMode \/ Rm16CallReturns
    \/ Hello16 \/ Isr16Unimpl

Rom == RomSetsFlag \/ RomUsesRegisters \/ RomTakesInt10 \/ RomMovesEbda \/ RomCallsUnimpl

Stopped == pc \in {"error", "halted", "wild"}

Next ==
    \/ Main \/ Rom \/ Message \/ Lapic \/ LapicInterrupt
    \/ \E n \in Lines : PicInterrupt(n)
    \/ (Stopped \/ pc = "spin") /\ UNCHANGED vars

\* Stage 2 keeps running, ROMs return, and the timer's interrupts come where
\* nothing keeps them back.
Spec == Init /\ [][Next]_vars /\ WF_vars(Main) /\ WF_vars(Message)
             /\ WF_vars(PicInterrupt(0))

-----------------------------------------------------------------------------
\* An interrupt is taken only in real mode, for the timer or the keyboard, and
\* by the handler for it, whenever an option ROM turns interrupts on
\* (rm16.asm:101, do-rm16-call.asm:68): irq_init has seen to the 8259s and to
\* each pin of each I/O APIC by then (irq.c:151, 210-223).  None is taken while
\* isr16_unimpl puts up its message (vecs16.asm:168-170).  The exception is
\* what the local APIC had accepted before.
Served ==
    taken # NotTaken =>
        \/ taken.lapic = "early"
        \/ /\ taken.real /\ taken.lapic = "none"
           /\ taken.handler \in {"irq0", "irq1"}
           /\ taken.when # "message"

\* After rm16_call stage 2 has its own stack, page tables, GDT and processor
\* mode again, whatever the callee did with them and wherever it moved the
\* EBDA, in which they were kept (do-rm16-call.asm:52-63, 69-75).
Intact == pc = "rimg_init" => cpu = Own

\* Stage 1 or 2 stops with an error or in isr16_unimpl, or hello16 is reached
\* and the timer's interrupts keep coming: they are those of an 8259 that is
\* there, has been told that none is in service, and of a timer that runs.
KeepsTicking ==
    \/ <>[](Stopped \/ pc \in {"panic", "message"})
    \/ /\ <>(pc = "spin")
       /\ []<>(tick = 0) /\ []<>(tick = 1)
=============================================================================
