-------------------------------- MODULE Time --------------------------------
(***************************************************************************)
(* Timekeeping for 16-bit code (stage2/16/time.asm): the IRQ 0 handler,    *)
(* and int 0x1a, functions 0x00 (get ticks), 0x01 (set ticks) and 0x02     *)
(* (read the real-time clock).                                             *)
(*                                                                         *)
(* Both run with interrupts off, so that IRQ 0 does not come in the middle *)
(* of int 0x1a.  The clock chip does run on by itself: function 0x02 reads *)
(* its registers one by one, twice, while they change.                     *)
(*                                                                         *)
(* The stack is a sequence of what was pushed, its top at the end; int has *)
(* pushed <<"flags", "cs", "ip">>.  "astray" is a return to an address     *)
(* that is not the caller's; what follows is undefined, and the model      *)
(* stops.                                                                  *)
(***************************************************************************)
EXTENDS Integers, Sequences, SequencesExt

CONSTANTS
    Word,       \* 0x10000, values in a 16-bit register
    DayHi,      \* 0x18 and
    DayLo,      \* 0x00b0, the ticks in a day
    OvfMod,     \* 0x100, values of the overflow byte
    Hours, Minutes, Seconds,    \* how many values each clock register has
    Tries,      \* 0x10000, how often function 0x02 retries
    Polls,      \* 0x10000, how often read_rtc looks at the update flag
    MaxDays     \* bound: midnights

ASSUME TimeAssumption ==
    /\ DayHi \in Nat /\ DayLo \in 0 .. Word - 1 /\ Word \in Nat \ {0}
    /\ DayHi + DayLo > 0
    /\ OvfMod \in Nat \ {0} /\ MaxDays \in Nat
    /\ Hours \in Nat \ {0} /\ Minutes \in Nat \ {0} /\ Seconds \in Nat \ {0, 1}
    /\ Tries \in Nat \ {0} /\ Polls \in Nat \ {0}

Day == DayHi * Word + DayLo

VARIABLES
    tpc,
    timer,      \* bda.timer
    timer_ovf,  \* bda.timer_ovf
    days,       \* history: midnights passed
    seen,       \* history: the overflow bytes that function 0x00 returned
    rtc,        \* the clock: [hr, min, sec]
    uip,        \* its update-in-progress flag
    diag_ok,    \* what CMOS says of the clock and its battery
    broken,     \* the clock never finishes an update
    stack,
    si,         \* function 0x02: the count of retries
    second,     \* function 0x02: this is the second reading
    polls,      \* read_rtc's count
    min,        \* read_rtc: the minute just read
    ax, bx, cx, dx,
    updates,    \* how often the clock changed in this round
    shown,      \* history: what the clock showed in this round
    late        \* history: read_rtc timed out in this call

tickVars == <<timer, timer_ovf, days, seen>>
rtcVars == <<rtc, uip, updates, shown>>
regVars == <<min, ax, bx, cx, dx>>
loopVars == <<stack, si, second, polls, late>>
timeVars == <<tpc, tickVars, rtcVars, diag_ok, broken, regVars, loopVars>>

\* cx and ax hold an hour and a minute, or whatever the caller had there.
Junk == {[hr |-> 0 - 1, min |-> 0], [hr |-> 0 - 1, min |-> 1]}
HourMins == [hr : 0 .. Hours - 1, min : 0 .. Minutes - 1] \cup Junk
Clocks == [hr : 0 .. Hours - 1, min : 0 .. Minutes - 1, sec : 0 .. Seconds - 1]

TimeInit ==
    /\ tpc = "idle"
    /\ timer = 0 /\ timer_ovf = 0 /\ days = 0 /\ seen = 0
    /\ rtc \in Clocks /\ uip = FALSE /\ diag_ok \in BOOLEAN /\ broken \in BOOLEAN
    /\ stack = << >> /\ si = 0 /\ second = FALSE /\ polls = 0 /\ late = FALSE
    /\ min = 0 /\ ax \in Junk /\ cx \in Junk /\ bx = 0 /\ dx = 0
    /\ updates = 0 /\ shown = {}

-----------------------------------------------------------------------------
\* IRQ 0: one more tick; at midnight the overflow byte goes up.
EndsDay(t) == t >= Day

Irq0 ==
    /\ tpc = "idle"
    /\ IF EndsDay(timer + 1)
       THEN /\ days < MaxDays
            /\ days' = days + 1
            /\ timer_ovf' = (timer_ovf + 1) % OvfMod
            /\ timer' = 0
       ELSE /\ timer' = timer + 1
            /\ UNCHANGED <<days, timer_ovf>>
    /\ UNCHANGED <<tpc, seen, rtcVars, diag_ok, broken, regVars, loopVars>>

\* Function 0x00: the overflow byte is handed over and cleared at once.
\* Mutant: it is not cleared.
GetTicksKeeps ==
    /\ tpc = "idle"
    /\ seen' = (seen + timer_ovf) % OvfMod
    /\ UNCHANGED <<tpc, timer, timer_ovf, days, rtcVars, diag_ok, broken, regVars, loopVars>>

GetTicks ==
    /\ tpc = "idle"
    /\ seen' = (seen + timer_ovf) % OvfMod
    /\ timer_ovf' = 0
    /\ UNCHANGED <<tpc, timer, days, rtcVars, diag_ok, broken, regVars, loopVars>>

\* Function 0x01: set the ticks to hi:lo, if that is less than a day.
LessThanDay(hi, lo) == hi < DayHi \/ (hi = DayHi /\ lo < DayLo)

SetTicks(hi, lo) ==
    /\ tpc = "idle"
    /\ timer' = IF LessThanDay(hi, lo) THEN hi * Word + lo ELSE timer
    /\ UNCHANGED <<tpc, timer_ovf, days, seen, rtcVars, diag_ok, broken, regVars, loopVars>>

-----------------------------------------------------------------------------
(***************************************************************************)
(* The clock chip.  It raises its flag, and some time later has moved on.  *)
(* It moves on at most once in a round of two readings, which take far     *)
(* less than a second; and an update takes less time than read_rtc waits   *)
(* for it, unless the clock is broken.                                     *)
(***************************************************************************)
Later(t) ==
    IF t.sec + 1 < Seconds THEN [t EXCEPT !.sec = @ + 1]
    ELSE IF t.min + 1 < Minutes THEN [t EXCEPT !.sec = 0, !.min = @ + 1]
    ELSE [hr |-> (t.hr + 1) % Hours, min |-> 0, sec |-> 0]

Reading == tpc \in {"poll", "sec", "min", "hr", "compare"}

RtcStarts ==
    /\ ~uip /\ Reading /\ updates = 0
    /\ uip' = TRUE
    /\ UNCHANGED <<tpc, tickVars, rtc, updates, shown, diag_ok, broken, regVars, loopVars>>

RtcUpdates ==
    /\ uip /\ ~broken
    /\ uip' = FALSE
    /\ rtc' = Later(rtc)
    /\ updates' = updates + 1
    /\ shown' = shown \cup {rtc'}
    /\ UNCHANGED <<tpc, tickVars, diag_ok, broken, regVars, loopVars>>

-----------------------------------------------------------------------------
(***************************************************************************)
(* Function 0x02.  The entry code has pushed si; with a bad clock the      *)
(* function pops it and returns, else it pushes three registers more.      *)
(***************************************************************************)
CallRtc ==
    /\ tpc = "idle"
    /\ stack' = <<"flags", "cs", "ip", "si">>
    /\ shown' = {rtc} /\ updates' = 0 /\ late' = FALSE
    /\ tpc' = "diag"
    /\ UNCHANGED <<tickVars, rtc, uip, diag_ok, broken, regVars, si, second, polls>>

\* The registers that function 0x02 pushes once it knows the clock is good.
Saved == <<"ax", "bx", "si">>

IsRtcOk ==
    /\ tpc = "diag"
    /\ IF diag_ok
       THEN /\ stack' = stack \o Saved
            /\ si' = 0 /\ second' = FALSE /\ polls' = 0
            /\ tpc' = "poll"
       ELSE /\ stack' = Front(stack)
            /\ tpc' = "retf"
            /\ UNCHANGED <<si, second, polls>>
    /\ UNCHANGED <<tickVars, rtcVars, diag_ok, broken, regVars, late>>

\* read_rtc waits for the flag to clear, but not for ever.
Poll ==
    /\ tpc = "poll"
    /\ IF ~uip THEN tpc' = "sec" /\ UNCHANGED <<polls, late>>
       ELSE IF polls + 1 < Polls THEN polls' = polls + 1 /\ UNCHANGED <<tpc, late>>
       ELSE broken /\ tpc' = "got" /\ late' = TRUE /\ UNCHANGED polls
    /\ UNCHANGED <<tickVars, rtcVars, diag_ok, broken, regVars, stack, si, second>>

ReadSec ==
    /\ tpc = "sec"
    /\ dx' = rtc.sec
    /\ tpc' = "min"
    /\ UNCHANGED <<tickVars, rtcVars, diag_ok, broken, min, ax, bx, cx, loopVars>>

ReadMin ==
    /\ tpc = "min"
    /\ min' = rtc.min
    /\ tpc' = "hr"
    /\ UNCHANGED <<tickVars, rtcVars, diag_ok, broken, ax, bx, cx, dx, loopVars>>

ReadHr ==
    /\ tpc = "hr"
    /\ cx' = [hr |-> rtc.hr, min |-> min]
    /\ tpc' = "got"
    /\ UNCHANGED <<tickVars, rtcVars, diag_ok, broken, min, ax, bx, dx, loopVars>>

\* read_rtc has returned; whether it timed out is not looked at.  The first
\* reading is moved to ax and bx.
Got ==
    /\ tpc = "got"
    /\ IF second
       THEN tpc' = "compare" /\ UNCHANGED <<ax, bx, cx, second>>
       ELSE /\ ax' = cx /\ cx' = ax /\ bx' = dx
            /\ second' = TRUE
            /\ tpc' = "poll"
    /\ polls' = 0
    /\ UNCHANGED <<tickVars, rtcVars, diag_ok, broken, min, dx, stack, si, late>>

\* Both readings agree.
\* Mutant: only the seconds are compared.
AgreesOnSeconds == bx = dx

Agrees == ax = cx /\ bx = dx

\* Whether a round counts as a retry.
\* Mutant: none does.
CountsNever == FALSE

Counts == ax = cx /\ ~Agrees

(***************************************************************************)
(* The comparison: leave when the readings agree, or when the retries are  *)
(* used up, else start another round.  A difference in the hour or the     *)
(* minute is not counted.  Both exits pop two registers.                   *)
(***************************************************************************)
Compare ==
    /\ tpc = "compare"
    /\ LET left == (si - 1) % Tries
           top == SubSeq(stack, 1, Len(stack) - 2)
       IN  /\ si' = IF Counts THEN left ELSE si
           /\ IF Agrees THEN tpc' = "retf" /\ stack' = top
              ELSE IF Counts /\ left = 0 THEN tpc' = "retf" /\ stack' = Front(top)
              ELSE tpc' = "poll" /\ UNCHANGED stack
    /\ second' = FALSE
    /\ updates' = 0 /\ shown' = {rtc}
    /\ UNCHANGED <<tickVars, rtc, uip, diag_ok, broken, regVars, polls, late>>

\* retf 2: pop ip and cs and drop the flags.
Retf ==
    /\ tpc = "retf"
    /\ IF stack = <<"flags", "cs", "ip">>
       THEN tpc' = "idle" /\ stack' = << >>
       ELSE tpc' = "astray" /\ UNCHANGED stack
    /\ UNCHANGED <<tickVars, rtcVars, diag_ok, broken, regVars, si, second, polls, late>>

Astray == tpc = "astray" /\ UNCHANGED timeVars

-----------------------------------------------------------------------------
Cpu == IsRtcOk \/ Poll \/ ReadSec \/ ReadMin \/ ReadHr \/ Got \/ Compare \/ Retf
Rtc == RtcStarts \/ RtcUpdates
Caller == Irq0 \/ GetTicks \/ CallRtc
          \/ \E hi \in 0 .. DayHi + 1, lo \in 0 .. Word - 1 : SetTicks(hi, lo)

TimeNext == Cpu \/ Rtc \/ Caller \/ Astray

TimeSpec == TimeInit /\ [][TimeNext]_timeVars
\* The processor goes on executing a handler; a clock that is not broken
\* finishes the update it has begun.
TimeFairSpec == TimeSpec /\ WF_timeVars(Cpu) /\ WF_timeVars(RtcUpdates)

-----------------------------------------------------------------------------
Phases == {"idle", "diag", "poll", "sec", "min", "hr", "got", "compare", "retf", "astray"}

TickType ==
    /\ timer \in 0 .. Day - 1 /\ timer_ovf \in 0 .. OvfMod - 1
    /\ days \in 0 .. MaxDays /\ seen \in 0 .. OvfMod - 1

ClockType ==
    /\ rtc \in Clocks /\ uip \in BOOLEAN /\ diag_ok \in BOOLEAN
    /\ broken \in BOOLEAN
    /\ updates \in 0 .. 1 /\ shown \subseteq Clocks

CallType ==
    /\ tpc \in Phases
    /\ stack \in Seq({"flags", "cs", "ip", "si", "ax", "bx"})
    /\ si \in 0 .. Tries - 1 /\ second \in BOOLEAN /\ polls \in 0 .. Polls - 1
    /\ min \in 0 .. Minutes - 1
    /\ ax \in HourMins /\ cx \in HourMins
    /\ bx \in 0 .. Seconds - 1 /\ dx \in 0 .. Seconds - 1
    /\ late \in BOOLEAN

\* Every variable has its type; in particular the tick count is always less
\* than a day, whatever functions 0x00 and 0x01 and IRQ 0 do to it
\* (time.asm:42-56, 81-92).
TimeTypeOK == TickType /\ ClockType /\ CallType

\* No midnight is lost or counted twice between the IRQ 0 handler, which
\* adds to the overflow byte, and function 0x00, which takes it away
\* (time.asm:54, 74-75): what callers were told and what they have not been
\* told yet add up to the midnights that passed, modulo the size of the byte.
MidnightsAddUp == (seen + timer_ovf) % OvfMod = days % OvfMod

\* "read the RTC until we get a stable value" (time.asm:105-106): a reading
\* that function 0x02 accepts is a time that the clock did show in that round
\* of two readings, although it changes between the reading of one register and the
\* next, unless read_rtc timed out.
NotTorn ==
    tpc = "compare" /\ Agrees /\ ~late =>
        [hr |-> cx.hr, min |-> cx.min, sec |-> dx] \in shown

\* Function 0x02 comes to an end if the clock is good, although it starts
\* again without counting when the hour or the minute differs
\* (time.asm:109-110), for those change less often than the seconds.
EndsIfGood == tpc = "diag" /\ ~broken ~> tpc \in {"idle", "astray"}

\* "otherwise, return success" (time.asm:122): function 0x02 returns to its
\* caller.
ReturnsToCaller == tpc # "astray"
=============================================================================
