--------------------------------- MODULE Kb ---------------------------------
(***************************************************************************)
(* The keyboard (stage2/16/kb.c): scan codes come from the keyboard        *)
(* through the 8042 controller; the IRQ 1 handler turns them into key      *)
(* codes and puts these in the ring buffer in the BIOS data area, and a    *)
(* program takes them out again.                                           *)
(*                                                                         *)
(* The keyboard, the 8042, the interrupt controller and the program run    *)
(* alongside the handler.  pc follows the handler; the program runs, with  *)
(* interrupts on, while pc is "idle".  The 8042 takes a command before     *)
(* wait_kb_in_buf_clear() gives up waiting for it.                         *)
(***************************************************************************)
EXTENDS Integers, Sequences, FiniteSets

CONSTANTS
    Keys,       \* the keys that are pressed and released
    KeyMap,     \* no_shift_map, shift_map, ctl_map, alt_map: [table -> [key -> code]]
    BufStart,   \* bda.kb_buf_start
    BufEnd,     \* bda.kb_buf_end
    MaxTyped,   \* bound: scan codes made
    MaxBacklog  \* bound: scan codes that wait in the keyboard

(***************************************************************************)
(* A scan code is [key, up], with key one of these or an ordinary key.     *)
(* The second Ctrl key sends the code of the first after a prefix, which   *)
(* is a scan code with no key code in any table (as is the code the        *)
(* keyboard sends on an overrun).                                          *)
(***************************************************************************)
Ctl == "CTL"
RightCtl == "RCTL"
Modifiers == {"LSHFT", "RSHFT", "CTL", "ALT"}
Locks == {"CAPLK", "NUMLK", "SCLLK"}
Keypad == {"KP7"}
Letters == {"Q", "A"}
Prefix == [key |-> "E0", up |-> FALSE]

Tables == {"plain", "shift", "ctl", "alt"}
Mapped(t, k) == IF k \in DOMAIN KeyMap[t] THEN KeyMap[t][k] ELSE 0

Slots == {a \in BufStart .. BufEnd - 2 : (a - BufStart) % 2 = 0}

ASSUME KbAssumption ==
    /\ BufStart \in Nat /\ BufEnd \in Nat /\ BufStart + 4 =< BufEnd /\ BufEnd < 65536
    /\ DOMAIN KeyMap = Tables
    /\ \A t \in Tables : \A k \in DOMAIN KeyMap[t] : KeyMap[t][k] \in Nat

VARIABLES
    pc,         \* the handler
    held,       \* the keys that are down
    typed,      \* history: the scan codes the keyboard made
    sent,       \* how many of them the 8042 has taken
    obf,        \* the 8042's output buffer: no scan code or one
    cmd,        \* its input buffer: no command, "DIS" or "ENA"
    enabled,    \* whether it takes scan codes
    irr, isr,   \* IRQ 1: requested, in service
    code,       \* the scan code that the handler read
    stat1,      \* bda.kb_stat1: the flags that are set
    stat2,      \* bda.kb_stat2
    buf, head, tail,
    handled,    \* history: how many scan codes were handled
    accepted,   \* history: the key codes put in the buffer, each with the
                \* position of its scan code
    dropped,    \* history: the positions of the scan codes dropped
    consumed    \* history: the key codes the program took

devVars == <<held, typed, sent, obf, cmd, enabled>>
picVars == <<irr, isr>>
bdaVars == <<stat1, stat2, buf, tail, accepted, dropped>>
vars == <<pc, devVars, picVars, code, bdaVars, head, handled, consumed>>

NoCode == [key |-> "none", up |-> FALSE]

Init ==
    /\ pc = "idle"
    /\ held = {} /\ typed = << >> /\ sent = 0
    /\ obf = << >> /\ cmd = "none" /\ enabled = TRUE
    /\ irr = FALSE /\ isr = FALSE
    /\ code = NoCode
    /\ stat1 = {} /\ stat2 = {}
    /\ buf = [a \in Slots |-> 0] /\ head = BufStart /\ tail = BufStart
    /\ handled = 0 /\ accepted = << >> /\ dropped = {} /\ consumed = << >>

-----------------------------------------------------------------------------
\* What the keyboard makes of a key that goes up or down.
Codes(k, up) ==
    IF k = RightCtl THEN <<Prefix, [key |-> Ctl, up |-> up]>>
                    ELSE <<[key |-> k, up |-> up]>>

Press(k) ==
    /\ k \notin held /\ Len(typed) < MaxTyped /\ Len(typed) - sent < MaxBacklog
    /\ held' = held \cup {k}
    /\ typed' = typed \o Codes(k, FALSE)
    /\ UNCHANGED <<pc, sent, obf, cmd, enabled, picVars, code, bdaVars, head, handled, consumed>>

Release(k) ==
    /\ k \in held /\ Len(typed) < MaxTyped /\ Len(typed) - sent < MaxBacklog
    /\ held' = held \ {k}
    /\ typed' = typed \o Codes(k, TRUE)
    /\ UNCHANGED <<pc, sent, obf, cmd, enabled, picVars, code, bdaVars, head, handled, consumed>>

\* The 8042 takes the next scan code and requests IRQ 1.
KbcReceive ==
    /\ enabled /\ obf = << >> /\ sent < Len(typed)
    /\ obf' = <<typed[sent + 1]>>
    /\ sent' = sent + 1
    /\ irr' = TRUE
    /\ UNCHANGED <<pc, held, typed, cmd, enabled, isr, code, bdaVars, head, handled, consumed>>

KbcCommand ==
    /\ cmd # "none"
    /\ enabled' = (cmd = "ENA")
    /\ cmd' = "none"
    /\ UNCHANGED <<pc, held, typed, sent, obf, picVars, code, bdaVars, head, handled, consumed>>

-----------------------------------------------------------------------------
\* The processor takes IRQ 1 when none is in service.
Irq1 ==
    /\ pc = "idle" /\ irr /\ ~isr
    /\ irr' = FALSE /\ isr' = TRUE
    /\ pc' = "disable"
    /\ UNCHANGED <<devVars, code, bdaVars, head, handled, consumed>>

\* snd_sta(): wait for the input buffer to clear, then write a command.
SndSta(c, next) ==
    /\ cmd = "none"
    /\ cmd' = c
    /\ pc' = next
    /\ UNCHANGED <<held, typed, sent, obf, enabled, picVars, code, bdaVars,
                   head, handled, consumed>>

SndDis == pc = "disable" /\ SndSta("DIS", "read")
SndEna == pc = "enable" /\ SndSta("ENA", "idle")

\* Reading port A empties the output buffer; when it is empty already, the
\* last scan code is read once more.
ReadCode ==
    /\ pc = "read" /\ cmd = "none"
    /\ code' = IF obf = << >> THEN code ELSE obf[1]
    /\ obf' = << >>
    /\ pc' = "handle"
    /\ UNCHANGED <<held, typed, sent, cmd, enabled, picVars, bdaVars, head, handled, consumed>>

-----------------------------------------------------------------------------
(***************************************************************************)
(* handle_code.  Shift reverses what Num Lock does to the keypad and Caps  *)
(* Lock to the letters; Alt comes before Ctrl.  Codes of keys that go up   *)
(* are beyond the tables.                                                  *)
(***************************************************************************)
ShiftHeld == stat1 \cap {"LSHFT", "RSHFT"} # {}
LockShifts(k) ==
    \/ k \in Keypad /\ "NUMLK_ACT" \in stat1
    \/ k \in Letters /\ "CAPLK_ACT" \in stat1

\* Mutant: Shift and Caps Lock together shift.
TableForOr(k) ==
    IF "ALT" \in stat1 THEN "alt"
    ELSE IF "CTL" \in stat1 THEN "ctl"
    ELSE IF LockShifts(k) \/ ShiftHeld THEN "shift" ELSE "plain"

TableFor(k) ==
    IF "ALT" \in stat1 THEN "alt"
    ELSE IF "CTL" \in stat1 THEN "ctl"
    ELSE IF LockShifts(k) # ShiftHeld THEN "shift" ELSE "plain"

KeyCode == IF code.up THEN 0 ELSE Mapped(TableFor(code.key), code.key)

Toggle(flags, f) == IF f \in flags THEN flags \ {f} ELSE flags \cup {f}
Active(k) == CASE k = "CAPLK" -> "CAPLK_ACT" [] k = "NUMLK" -> "NUMLK_ACT"
               [] k = "SCLLK" -> "SCLLK_ACT"

HandleModifier ==
    /\ pc = "handle" /\ code.key \in Modifiers
    /\ stat1' = IF code.up THEN stat1 \ {code.key} ELSE stat1 \cup {code.key}
    /\ handled' = handled + 1
    /\ pc' = "eoi"
    /\ UNCHANGED <<devVars, picVars, code, stat2, buf, tail, accepted, dropped, head, consumed>>

\* Mutant: a lock key toggles when it goes up as well.
HandleLockTwice ==
    /\ pc = "handle" /\ code.key \in Locks
    /\ stat1' = Toggle(stat1, Active(code.key))
    /\ stat2' = IF code.up THEN stat2 \ {code.key} ELSE stat2 \cup {code.key}
    /\ handled' = handled + 1
    /\ pc' = "eoi"
    /\ UNCHANGED <<devVars, picVars, code, buf, tail, accepted, dropped, head, consumed>>

HandleLock ==
    /\ pc = "handle" /\ code.key \in Locks
    /\ stat1' = IF code.up THEN stat1 ELSE Toggle(stat1, Active(code.key))
    /\ stat2' = IF code.up THEN stat2 \ {code.key} ELSE stat2 \cup {code.key}
    /\ handled' = handled + 1
    /\ pc' = "eoi"
    /\ UNCHANGED <<devVars, picVars, code, buf, tail, accepted, dropped, head, consumed>>

\* The address after a: back to the start when less than a word is left.
After(a) == IF (BufEnd - (a + 2)) % 65536 < 2 THEN BufStart ELSE a + 2

\* Adding a key code would make the tail touch the head.
\* Mutant: the last slot is used as well.
BufFullNever == FALSE

BufFull == After(tail) = head

HandleKey ==
    /\ pc = "handle" /\ code.key \notin Modifiers \cup Locks
    /\ \/ KeyCode = 0 /\ UNCHANGED <<buf, tail, accepted, dropped>>
       \/ /\ KeyCode # 0 /\ BufFull
          /\ dropped' = dropped \cup {handled + 1}
          /\ UNCHANGED <<buf, tail, accepted>>
       \/ /\ KeyCode # 0 /\ ~BufFull
          /\ buf' = [buf EXCEPT ![tail] = KeyCode]
          /\ tail' = After(tail)
          /\ accepted' = Append(accepted, [key |-> KeyCode, at |-> handled + 1])
          /\ UNCHANGED dropped
    /\ handled' = handled + 1
    /\ pc' = "eoi"
    /\ UNCHANGED <<devVars, picVars, code, stat1, stat2, head, consumed>>

\* Mutant: no EOI.
EoiNever ==
    /\ pc = "eoi"
    /\ pc' = "enable"
    /\ UNCHANGED <<devVars, picVars, code, bdaVars, head, handled, consumed>>

Eoi ==
    /\ pc = "eoi"
    /\ isr' = FALSE
    /\ pc' = "enable"
    /\ UNCHANGED <<devVars, irr, code, bdaVars, head, handled, consumed>>

-----------------------------------------------------------------------------
\* The program takes the key code at the head, as programs do that read the
\* BIOS data area themselves (there is no int 0x16 yet).
Consume ==
    /\ pc = "idle" /\ head # tail
    /\ consumed' = Append(consumed, buf[head])
    /\ head' = After(head)
    /\ UNCHANGED <<pc, devVars, picVars, code, bdaVars, handled>>

Handler == Irq1 \/ SndDis \/ ReadCode \/ HandleModifier \/ HandleLock \/ HandleKey
           \/ Eoi \/ SndEna
Kbc == KbcReceive \/ KbcCommand
User == \E k \in Keys : Press(k) \/ Release(k)

Next == Handler \/ Kbc \/ User \/ Consume

Spec == Init /\ [][Next]_vars
\* The processor and the 8042 keep going; nobody has to type or to read.
FairSpec == Spec /\ WF_vars(Handler) /\ WF_vars(Kbc)

-----------------------------------------------------------------------------
ScanCodes == [key : (Keys \ {RightCtl}) \cup {Ctl, "E0", "none"}, up : BOOLEAN]
LockFlags == {"CAPLK_ACT", "NUMLK_ACT", "SCLLK_ACT"}
KeyCodes == (UNION {{KeyMap[t][k] : k \in DOMAIN KeyMap[t]} : t \in Tables}) \ {0}

\* The state of kb.c and of the devices around it has its types; the head and
\* the tail point to words of the buffer.
TypeOK ==
    /\ pc \in {"idle", "disable", "read", "handle", "eoi", "enable"}
    /\ held \subseteq Keys
    /\ typed \in Seq(ScanCodes) /\ sent \in 0 .. Len(typed)
    /\ obf \in {<< >>} \cup {<<c>> : c \in ScanCodes}
    /\ cmd \in {"none", "DIS", "ENA"}
    /\ enabled \in BOOLEAN /\ irr \in BOOLEAN /\ isr \in BOOLEAN
    /\ code \in ScanCodes
    /\ stat1 \subseteq Modifiers \cup LockFlags
    /\ stat2 \subseteq Locks
    /\ buf \in [Slots -> KeyCodes \cup {0}]
    /\ head \in Slots /\ tail \in Slots
    /\ handled \in 0 .. Len(typed)
    /\ accepted \in Seq([key : KeyCodes, at : 1 .. Len(typed)])
    /\ dropped \subseteq 1 .. Len(typed)
    /\ consumed \in Seq(KeyCodes)

\* The words of the buffer from the head to the tail, around its end.
Waiting ==
    LET n == Cardinality(Slots)
        Pos(a) == (a - BufStart) \div 2
    IN  [i \in 1 .. (Pos(tail) - Pos(head)) % n |->
            buf[BufStart + 2 * ((Pos(head) + i - 1) % n)]]

\* kb.c:281-294.  What handle_code put in the buffer is what programs took
\* from it, in the same order, followed by what is still in it: no key code
\* is overwritten, lost or taken twice, however often the buffer wraps.
Fifo == [i \in DOMAIN accepted |-> accepted[i].key] = consumed \o Waiting

(***************************************************************************)
(* What the user means by the n-th scan code: the keys that were held      *)
(* before it, and the locks that were on, when the keyboard made it (and   *)
(* not when the handler came to it).                                       *)
(***************************************************************************)
LastCode(k, n) == {j \in 1 .. n : typed[j].key = k /\ \A m \in j + 1 .. n : typed[m].key # k}
HeldBefore(k, n) == \E j \in LastCode(k, n - 1) : ~typed[j].up
OnBefore(k, n) == Cardinality({j \in 1 .. n - 1 : typed[j] = [key |-> k, up |-> FALSE]}) % 2 = 1

Capital(k, n) ==
    (HeldBefore("LSHFT", n) \/ HeldBefore("RSHFT", n)) #
    (\/ k \in Letters /\ OnBefore("CAPLK", n)
     \/ k \in Keypad /\ OnBefore("NUMLK", n))

Meant(n) ==
    LET k == typed[n].key
    IN  IF typed[n].up \/ k \in Modifiers \cup Locks THEN 0
        ELSE Mapped(CASE HeldBefore("ALT", n) -> "alt"
                      [] HeldBefore("CTL", n) /\ ~HeldBefore("ALT", n) -> "ctl"
                      [] OTHER -> IF Capital(k, n) THEN "shift" ELSE "plain", k)

\* kb.c:144-278, 297-304.  Every scan code is handled once, in the order of
\* typing, and with the modifiers and locks as they were when it was typed:
\* the key codes accepted are the ones meant, and the only ones missing are
\* those that were dropped.
AsTyped ==
    /\ \A i \in DOMAIN accepted :
          /\ accepted[i].key = Meant(accepted[i].at)
          /\ i > 1 => accepted[i - 1].at < accepted[i].at
    /\ {n \in 1 .. handled : Meant(n) # 0} =
          {accepted[i].at : i \in DOMAIN accepted} \cup dropped

\* bda.kb_stat1 and bda.kb_stat2 (kb.c:100-117) show the keyboard as it is
\* whenever no scan code is on its way: which Shift keys are held, which lock
\* keys are, and which locks are on.
StatusShown ==
    pc = "idle" /\ handled = Len(typed) =>
        /\ \A k \in {"LSHFT", "RSHFT"} : k \in stat1 <=> k \in held
        /\ \A k \in Locks : /\ k \in stat2 <=> k \in held
                            /\ Active(k) \in stat1 <=> OnBefore(k, handled + 1)

\* kb.c:297-304.  The handler always comes to have handled all scan codes
\* made: the keyboard is enabled again, and the interrupt ended, in time.
AllHandled == []<>(handled = Len(typed))
=============================================================================
