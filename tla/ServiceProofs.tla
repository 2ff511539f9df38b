--------------------------- MODULE ServiceProofs ----------------------------
(***************************************************************************)
(* Proofs about the services for 16-bit code, Kb and Time.                 *)
(*                                                                         *)
(* Kb, for every size of the buffer, every key map and any amount of       *)
(* typing: no key code is lost, overwritten or taken twice, each scan code *)
(* is handled once and with the modifiers and locks of its time, and the   *)
(* status flags show the keyboard.                                         *)
(*                                                                         *)
(* Time, for every length of a day, size of the overflow byte, range of    *)
(* the clock registers and number of retries and polls.                    *)
(***************************************************************************)
EXTENDS Kb, Time, NatFacts, FiniteSetTheorems, SequenceTheorems, TLAPS

\* The buffer as a ring: the word of the i-th key code ever put in it.
Size == (BufEnd - BufStart) \div 2
SlotAt(i) == BufStart + 2 * (i % Size)

\* A scan code is in the 8042, or the handler has it; an interrupt is
\* requested for one that is in the 8042 only.
ProtoInv ==
    /\ irr => obf # << >> /\ pc \notin {"disable", "read"}
    /\ pc \in {"disable", "read"} => obf # << >>
    /\ sent = handled + (IF obf = << >> THEN 0 ELSE 1) + (IF pc = "handle" THEN 1 ELSE 0)
    /\ obf # << >> => obf[1] = typed[sent]
    /\ pc = "handle" => code = typed[handled + 1]

(***************************************************************************)
(* The history operators of Kb for any sequence of scan codes: whether a   *)
(* key is held, or a lock on, before the n-th, and what that one means.    *)
(***************************************************************************)
LastIn(s, k, n) == {j \in 1 .. n : s[j].key = k /\ \A m \in j + 1 .. n : s[m].key # k}
HeldIn(s, k, n) == \E j \in LastIn(s, k, n - 1) : ~s[j].up
Downs(s, k, n) == {j \in 1 .. n - 1 : s[j] = [key |-> k, up |-> FALSE]}
OnIn(s, k, n) == Cardinality(Downs(s, k, n)) % 2 = 1
CapitalIn(s, k, n) ==
    (HeldIn(s, "LSHFT", n) \/ HeldIn(s, "RSHFT", n)) #
    (\/ k \in Letters /\ OnIn(s, "CAPLK", n)
     \/ k \in Keypad /\ OnIn(s, "NUMLK", n))
MeantIn(s, n) ==
    IF s[n].up \/ s[n].key \in Modifiers \cup Locks THEN 0
    ELSE Mapped(CASE HeldIn(s, "ALT", n) -> "alt"
                  [] HeldIn(s, "CTL", n) /\ ~HeldIn(s, "ALT", n) -> "ctl"
                  [] OTHER -> IF CapitalIn(s, s[n].key, n) THEN "shift" ELSE "plain", s[n].key)
TypedIn(acc, drp, s, h) ==
    /\ \A i \in DOMAIN acc :
          /\ acc[i].key = MeantIn(s, acc[i].at)
          /\ i > 1 => acc[i - 1].at < acc[i].at
    /\ {n \in 1 .. h : MeantIn(s, n) # 0} = {acc[i].at : i \in DOMAIN acc} \cup drp

\* The flags show the keyboard as it was after the last scan code handled,
StatInv ==
    /\ \A k \in Modifiers : k \in stat1 <=> HeldIn(typed, k, handled + 1)
    /\ \A k \in Locks : /\ k \in stat2 <=> HeldIn(typed, k, handled + 1)
                        /\ Active(k) \in stat1 <=> OnIn(typed, k, handled + 1)

\* and the scan codes show the keys that are held.
HeldInv ==
    \A k \in {"LSHFT", "RSHFT"} \cup Locks : k \in held <=> HeldIn(typed, k, Len(typed) + 1)

RingInv ==
    /\ Len(accepted) - Len(consumed) \in 0 .. Size - 1
    /\ head = SlotAt(Len(consumed)) /\ tail = SlotAt(Len(accepted))
    /\ \A i \in 1 .. Len(consumed) : consumed[i] = accepted[i].key
    /\ \A i \in Len(consumed) + 1 .. Len(accepted) : buf[SlotAt(i - 1)] = accepted[i].key

PlaceInv ==
    /\ \A i \in 1 .. Len(accepted) : accepted[i].at =< handled
    /\ \A n \in dropped : n =< handled

IInv == TypeOK /\ ProtoInv /\ StatInv /\ HeldInv /\ RingInv /\ PlaceInv
        /\ TypedIn(accepted, dropped, typed, handled)

-----------------------------------------------------------------------------
(***************************************************************************)
(* The ring.                                                               *)
(***************************************************************************)
LEMMA Sizes ==
    /\ BufStart \in Nat /\ BufEnd \in Nat /\ Size \in Nat /\ Size >= 2
    /\ BufEnd - BufStart - 2 * Size \in {0, 1} /\ BufEnd - BufStart < 65536
<1>1. BufStart \in Nat /\ BufEnd \in Nat /\ BufStart + 4 =< BufEnd /\ BufEnd < 65536
  BY KbAssumption
<1> DEFINE d == BufEnd - BufStart
<1>2. d \in Int /\ d >= 4 /\ 2 \in Nat \ {0} BY <1>1
<1>3. d % 2 \in 0 .. 2 - 1 /\ d \div 2 \in Int /\ d = 2 * (d \div 2) + (d % 2)
  <2> HIDE DEF d
  <2> QED BY <1>2, DivModDef
<1>4. Size = d \div 2 BY DEF Size
<1> DEFINE r == d % 2
<1>5. r \in {0, 1} /\ d = 2 * Size + r /\ Size \in Int
  <2> HIDE DEF d
  <2> QED BY <1>3, <1>4
<1> HIDE DEF r
<1> QED BY <1>1, <1>2, <1>5

LEMMA Rest ==
    ASSUME NEW i \in Int
    PROVE  i % Size \in 0 .. Size - 1
BY Sizes, DivModDef

LEMMA SlotIn ==
    ASSUME NEW i \in Int
    PROVE  SlotAt(i) \in Slots /\ SlotAt(i) - BufStart = 2 * (i % Size)
<1>1. PICK r \in 0 .. Size - 1 : r = i % Size BY Rest
<1>2. SlotAt(i) = BufStart + 2 * r /\ r \in Nat BY <1>1, Sizes DEF SlotAt
<1>3. SlotAt(i) - BufStart = 2 * r BY <1>2, Sizes
<1>4. SlotAt(i) \in BufStart .. BufEnd - 2 BY <1>2, Sizes
<1>5. (SlotAt(i) - BufStart) % 2 = 0
  <2>1. 2 \in Nat \ {0} /\ r \in Int /\ 0 \in 0 .. 2 - 1 BY <1>2
  <2>2. (2 * r + 0) % 2 = 0 BY <2>1, DivModUnique
  <2>3. 2 * r + 0 = 2 * r BY <1>2
  <2> QED BY <1>3, <2>2, <2>3
<1> QED BY <1>1, <1>3, <1>4, <1>5 DEF Slots

\* The number after i, in the ring.
LEMMA RestNext ==
    ASSUME NEW i \in Int
    PROVE  (i + 1) % Size = IF i % Size = Size - 1 THEN 0 ELSE (i % Size) + 1
<1>1. PICK r \in 0 .. Size - 1 : r = i % Size BY Rest
<1>2. Size \in Nat \ {0} /\ 1 \in Int /\ r \in Int BY Sizes
<1>3. (r + 1) % Size = (i + 1) % Size BY <1>1, <1>2, ModSum
<1>4. CASE r = Size - 1
  <2>1. 0 \in 0 .. Size - 1 BY <1>2
  <2>2. (Size * 1 + 0) % Size = 0 BY <1>2, <2>1, DivModUnique
  <2>3. r + 1 = Size * 1 + 0 BY <1>2, <1>4
  <2> QED BY <1>1, <1>3, <1>4, <2>2, <2>3
<1>5. CASE r # Size - 1
  <2>1. r + 1 \in 0 .. Size - 1 BY <1>2, <1>5
  <2>2. (r + 1) % Size = r + 1 BY <1>2, <2>1, ModSmall
  <2> QED BY <1>1, <1>3, <1>5, <2>2
<1> QED BY <1>4, <1>5

LEMMA AfterSlot ==
    ASSUME NEW i \in Int
    PROVE  After(SlotAt(i)) = SlotAt(i + 1)
<1>1. PICK r \in 0 .. Size - 1 : r = i % Size BY Rest
<1> DEFINE a == SlotAt(i)
           x == BufEnd - (a + 2)
<1>2. a = BufStart + 2 * r BY <1>1 DEF SlotAt
<1> HIDE DEF a
<1>3. r \in Nat /\ r =< Size - 1 /\ a \in Nat BY <1>2, Sizes
<1>4. x \in Nat /\ x < 65536 BY <1>2, <1>3, Sizes
<1>5. x < 2 <=> r = Size - 1 BY <1>2, <1>3, Sizes
<1>6. x % 65536 = x
  <2> DEFINE w == 65536
  <2>1. w \in Nat \ {0} /\ x \in Nat /\ x < w BY <1>4
  <2> HIDE DEF w, x
  <2>2. x \in 0 .. w - 1 BY <2>1
  <2>3. x % w = x BY <2>1, <2>2, ModSmall
  <2> QED BY <2>3 DEF w
<1>7. After(a) = IF x % 65536 < 2 THEN BufStart ELSE a + 2 BY DEF After
<1> HIDE DEF x
<1>8. (i + 1) % Size = IF r = Size - 1 THEN 0 ELSE r + 1 BY <1>1, RestNext
<1>9. CASE r = Size - 1
  <2>1. SlotAt(i + 1) = BufStart BY <1>8, <1>9, Sizes DEF SlotAt
  <2> QED BY <1>5, <1>6, <1>7, <1>9, <2>1 DEF a
<1>10. CASE r # Size - 1
  <2>1. SlotAt(i + 1) = BufStart + 2 * (r + 1) BY <1>8, <1>10 DEF SlotAt
  <2>2. SlotAt(i + 1) = a + 2 BY <1>2, <1>3, <2>1, Sizes
  <2> QED BY <1>5, <1>6, <1>7, <1>10, <2>2 DEF a
<1> QED BY <1>9, <1>10

\* Numbers less than Size apart have slots of their own; Size apart, the same.
LEMMA SlotsApart ==
    ASSUME NEW i \in Int, NEW d \in 1 .. Size - 1
    PROVE  SlotAt(i) # SlotAt(i + d)
<1>1. PICK r \in 0 .. Size - 1 : r = i % Size BY Rest
<1>2. PICK t \in 0 .. Size - 1 : t = (i + d) % Size BY Rest
<1>3. Size \in Nat \ {0} /\ d \in Int /\ r \in Int BY Sizes
<1>4. (r + d) % Size = t BY <1>1, <1>2, <1>3, ModSum
<1>5. r # t
  <2>1. CASE r + d < Size
    <3>1. r + d \in 0 .. Size - 1 BY <1>3, <2>1
    <3>2. (r + d) % Size = r + d BY <1>3, <3>1, ModSmall
    <3> QED BY <1>3, <1>4, <3>2
  <2>2. CASE r + d >= Size
    <3>1. r + d - Size \in 0 .. Size - 1 BY <1>3, <2>2
    <3> DEFINE s == r + d - Size
    <3>2. s \in 0 .. Size - 1 BY <3>1
    <3>3. Size * 1 + s = r + d BY <1>3
    <3>4. (Size * 1 + s) % Size = s
      <4> HIDE DEF s
      <4> QED BY <1>3, <3>2, DivModUnique
    <3>5. t = s BY <1>4, <3>3, <3>4
    <3> QED BY <1>3, <3>5
  <2> QED BY <1>3, <2>1, <2>2
<1>6. SlotAt(i) = BufStart + 2 * r /\ SlotAt(i + d) = BufStart + 2 * t BY <1>1, <1>2 DEF SlotAt
<1> QED BY <1>3, <1>5, <1>6, Sizes

LEMMA SlotAgain ==
    ASSUME NEW i \in Int
    PROVE  SlotAt(i + Size) = SlotAt(i)
<1>1. Size \in Nat \ {0} /\ 1 \in Int BY Sizes
<1>2. (i + Size * 1) % Size = i % Size BY <1>1, DivModAdd
<1>3. i + Size * 1 = i + Size BY <1>1
<1> QED BY <1>2, <1>3 DEF SlotAt

LEMMA SlotCount == Cardinality(Slots) = Size
<1> DEFINE f == [i \in 1 .. Size |-> BufStart + 2 * (i - 1)]
<1>0. BufStart \in Nat /\ BufEnd \in Nat /\ Size \in Nat BY Sizes
<1>1. ASSUME NEW i \in 1 .. Size PROVE f[i] \in Slots
  <2>1. i - 1 \in 0 .. Size - 1 /\ Size \in Nat \ {0} /\ i - 1 \in Int BY <1>0
  <2>2. (i - 1) % Size = i - 1 BY <2>1, ModSmall
  <2>3. SlotAt(i - 1) \in Slots BY <2>1, SlotIn
  <2> QED BY <2>2, <2>3 DEF SlotAt
<1>2. ASSUME NEW i \in 1 .. Size, NEW j \in 1 .. Size, f[i] = f[j] PROVE i = j
  BY <1>0, <1>2
<1>3. ASSUME NEW a \in Slots PROVE \E i \in 1 .. Size : f[i] = a
  <2>1. a \in BufStart .. BufEnd - 2 /\ (a - BufStart) % 2 = 0 BY DEF Slots
  <2> DEFINE d == a - BufStart
  <2>2. d \in Int /\ 2 \in Nat \ {0} BY <1>0, <2>1
  <2>3. PICK q \in Int : d = 2 * q
    <3> HIDE DEF d
    <3>1. d \div 2 \in Int /\ d = 2 * (d \div 2) + (d % 2) BY <2>2, DivModDef
    <3>2. d % 2 = 0 BY <2>1 DEF d
    <3> QED BY <3>1, <3>2
  <2>4. q + 1 \in 1 .. Size BY <1>0, <2>1, <2>3, Sizes
  <2>5. f[q + 1] = BufStart + 2 * ((q + 1) - 1) BY <2>4
  <2>6. f[q + 1] = a BY <1>0, <2>1, <2>3, <2>5
  <2> QED BY <2>4, <2>6
<1>4. f \in [1 .. Size -> Slots] BY <1>1
<1> HIDE DEF f
<1>5. f \in Bijection(1 .. Size, Slots)
  BY <1>2, <1>3, <1>4 DEF Bijection, Injection, Surjection, IsInjective
<1>6. ExistsBijection(1 .. Size, Slots) BY <1>5 DEF ExistsBijection
<1> QED BY <1>0, <1>6, FS_CountingElements

-----------------------------------------------------------------------------
(***************************************************************************)
(* What scan codes say of the keys.                                        *)
(***************************************************************************)
\* Only the scan codes before the n-th matter.
LEMMA SamePast ==
    ASSUME NEW s, NEW t, NEW k, NEW n \in Int, \A j \in 1 .. n - 1 : s[j] = t[j]
    PROVE  (HeldIn(s, k, n) <=> HeldIn(t, k, n)) /\ (OnIn(s, k, n) <=> OnIn(t, k, n))
<1>1. LastIn(s, k, n - 1) = LastIn(t, k, n - 1)
  <2>1. ASSUME NEW j \in 1 .. n - 1
        PROVE  (\A m \in j + 1 .. n - 1 : s[m].key # k) <=> (\A m \in j + 1 .. n - 1 : t[m].key # k)
    <3>1. \A m \in j + 1 .. n - 1 : s[m] = t[m] OBVIOUS
    <3> QED BY <3>1
  <2> QED BY <2>1 DEF LastIn
<1>2. Downs(s, k, n) = Downs(t, k, n) BY DEF Downs
<1>3. \A j \in LastIn(s, k, n - 1) : s[j] = t[j] BY DEF LastIn
<1> QED BY <1>1, <1>2, <1>3 DEF HeldIn, OnIn

\* One scan code more.
LEMMA HeldNext ==
    ASSUME NEW s, NEW k, NEW n \in Nat \ {0}
    PROVE  HeldIn(s, k, n + 1) <=> \/ s[n].key = k /\ ~s[n].up
                                   \/ s[n].key # k /\ HeldIn(s, k, n)
<1>1. (n + 1) - 1 = n OBVIOUS
<1>2. CASE s[n].key = k
  <2>1. LastIn(s, k, n) = {n}
    <3>1. n \in LastIn(s, k, n) BY <1>2 DEF LastIn
    <3>2. ASSUME NEW j \in LastIn(s, k, n) PROVE j = n
      <4>1. j \in 1 .. n /\ \A m \in j + 1 .. n : s[m].key # k BY DEF LastIn
      <4>2. j # n => n \in j + 1 .. n BY <4>1
      <4> QED BY <1>2, <4>1, <4>2
    <3> QED BY <3>1, <3>2
  <2> QED BY <1>1, <1>2, <2>1 DEF HeldIn
<1>3. CASE s[n].key # k
  <2>1. LastIn(s, k, n) = LastIn(s, k, n - 1)
    <3>1. ASSUME NEW j \in 1 .. n - 1
          PROVE  (\A m \in j + 1 .. n : s[m].key # k) <=> (\A m \in j + 1 .. n - 1 : s[m].key # k)
      <4>1. \A m : m \in j + 1 .. n <=> m \in j + 1 .. n - 1 \/ m = n OBVIOUS
      <4> QED BY <1>3, <4>1
    <3>2. \A j : j \in 1 .. n <=> j \in 1 .. n - 1 \/ j = n OBVIOUS
    <3> QED BY <1>3, <3>1, <3>2 DEF LastIn
  <2> QED BY <1>1, <1>3, <2>1 DEF HeldIn
<1> QED BY <1>2, <1>3

LEMMA OnNext ==
    ASSUME NEW s, NEW k, NEW n \in Nat \ {0}
    PROVE  OnIn(s, k, n + 1) <=> IF s[n] = [key |-> k, up |-> FALSE] THEN ~OnIn(s, k, n)
                                                                    ELSE OnIn(s, k, n)
<1> DEFINE D == Downs(s, k, n)
<1>1. \A j : j \in 1 .. (n + 1) - 1 <=> j \in 1 .. n - 1 \/ j = n OBVIOUS
<1>2. CASE s[n] # [key |-> k, up |-> FALSE]
  <2>1. Downs(s, k, n + 1) = D BY <1>1, <1>2 DEF Downs
  <2> QED BY <1>2, <2>1 DEF OnIn
<1>3. CASE s[n] = [key |-> k, up |-> FALSE]
  <2>1. Downs(s, k, n + 1) = D \cup {n} BY <1>1, <1>3 DEF Downs
  <2>2. IsFiniteSet(D) /\ n \notin D
    <3>1. D \in SUBSET (1 .. n - 1) BY DEF Downs
    <3>2. 1 \in Int /\ n - 1 \in Int OBVIOUS
    <3>3. IsFiniteSet(1 .. n - 1) BY <3>2, FS_Interval
    <3>4. IsFiniteSet(D)
      <4> HIDE DEF D
      <4> QED BY <3>1, <3>3, FS_Subset
    <3>5. n \notin 1 .. n - 1 OBVIOUS
    <3> QED BY <3>1, <3>4, <3>5
  <2> HIDE DEF D
  <2>3. Cardinality(D \cup {n}) = Cardinality(D) + 1 BY <2>2, FS_AddElement
  <2>4. PICK c \in Nat : c = Cardinality(D) BY <2>2, FS_CardinalityType
  <2>5. (c + 1) % 2 = 1 <=> ~(c % 2 = 1)
    <3>1. 2 \in Nat \ {0} /\ c \in Int OBVIOUS
    <3>2. c % 2 \in 0 .. 2 - 1 /\ c = 2 * (c \div 2) + (c % 2) /\ c \div 2 \in Int
      BY <3>1, DivModDef
    <3>3. PICK q \in Int : q = c \div 2 BY <3>2
    <3>4. 0 \in 0 .. 2 - 1 /\ 1 \in 0 .. 2 - 1 /\ q + 1 \in Int OBVIOUS
    <3>5. CASE c % 2 = 1
      <4>1. c + 1 = 2 * (q + 1) + 0 BY <3>2, <3>3, <3>5
      <4>2. (2 * (q + 1) + 0) % 2 = 0 BY <3>1, <3>4, DivModUnique
      <4> QED BY <3>5, <4>1, <4>2
    <3>6. CASE c % 2 = 0
      <4>1. c + 1 = 2 * q + 1 BY <3>2, <3>3, <3>6
      <4>2. (2 * q + 1) % 2 = 1 BY <3>1, <3>4, DivModUnique
      <4> QED BY <3>6, <4>1, <4>2
    <3> QED BY <3>2, <3>5, <3>6
  <2>6. OnIn(s, k, n + 1) <=> (c + 1) % 2 = 1 BY <2>1, <2>3, <2>4 DEF OnIn
  <2>7. OnIn(s, k, n) <=> c % 2 = 1 BY <2>4 DEF OnIn, D
  <2> QED BY <1>3, <2>5, <2>6, <2>7
<1> QED BY <1>2, <1>3

\* What a key makes: itself, or a prefix and Ctrl.
LEMMA CodesMade ==
    ASSUME NEW k \in Keys, NEW up \in BOOLEAN
    PROVE  /\ Codes(k, up) \in Seq(ScanCodes)
           /\ k = RightCtl => Len(Codes(k, up)) = 2 /\ Codes(k, up)[1].key = "E0"
                              /\ Codes(k, up)[2].key = Ctl
           /\ k # RightCtl => Len(Codes(k, up)) = 1 /\ Codes(k, up)[1] = [key |-> k, up |-> up]
<1>1. CASE k = RightCtl
  <2>1. Codes(k, up) = <<Prefix, [key |-> Ctl, up |-> up]>> BY <1>1 DEF Codes
  <2>2. Prefix \in ScanCodes /\ [key |-> Ctl, up |-> up] \in ScanCodes BY DEF Prefix, ScanCodes
  <2> QED BY <1>1, <2>1, <2>2 DEF Prefix
<1>2. CASE k # RightCtl
  <2>1. Codes(k, up) = <<[key |-> k, up |-> up]>> BY <1>2 DEF Codes
  <2>2. [key |-> k, up |-> up] \in ScanCodes BY <1>2 DEF ScanCodes
  <2> QED BY <1>2, <2>1, <2>2
<1> QED BY <1>1, <1>2

\* A step of anybody adds scan codes, or none.
LEMMA Typing ==
    ASSUME TypeOK, [Next]_vars
    PROVE  \/ /\ UNCHANGED <<typed, held>>
              /\ ~(\E k \in Keys : Press(k) \/ Release(k))
           \/ \E k \in Keys : \E up \in BOOLEAN :
                /\ typed' = typed \o Codes(k, up)
                /\ held' = IF up THEN held \ {k} ELSE held \cup {k}
                /\ UNCHANGED <<pc, sent, obf, irr, code, stat1, stat2, buf, tail, head, handled,
                               accepted, dropped, consumed>>
<1>1. CASE User
  <2>1. PICK k \in Keys : Press(k) \/ Release(k) BY <1>1 DEF User
  <2>2. CASE Press(k) BY <2>2 DEF Press, picVars, bdaVars
  <2>3. CASE Release(k) BY <2>3 DEF Release, picVars, bdaVars
  <2> QED BY <2>1, <2>2, <2>3
<1>2. CASE ~User
  <2>1. ~(\E k \in Keys : Press(k) \/ Release(k)) BY <1>2 DEF User
  <2>2. UNCHANGED <<typed, held>>
    BY <1>2 DEF Next, Handler, Kbc, Irq1, SndDis, SndEna, SndSta, ReadCode, HandleModifier,
                HandleLock, HandleKey, Eoi, KbcReceive, KbcCommand, Consume, devVars, vars
  <2> QED BY <2>1, <2>2
<1> QED BY <1>1, <1>2

LEMMA Grow ==
    ASSUME TypeOK, [Next]_vars
    PROVE  /\ typed' \in Seq(ScanCodes) /\ Len(typed) \in Nat /\ Len(typed') \in Nat
           /\ Len(typed) =< Len(typed')
           /\ \A j \in 1 .. Len(typed) : typed'[j] = typed[j]
<1>0. typed \in Seq(ScanCodes) /\ Len(typed) \in Nat BY DEF TypeOK
<1>1. CASE UNCHANGED typed BY <1>0, <1>1
<1>2. ASSUME NEW k \in Keys, NEW up \in BOOLEAN, typed' = typed \o Codes(k, up)
      PROVE  /\ typed' \in Seq(ScanCodes) /\ Len(typed') \in Nat /\ Len(typed) =< Len(typed')
             /\ \A j \in 1 .. Len(typed) : typed'[j] = typed[j]
  <2> DEFINE c == Codes(k, up)
  <2>0. c \in Seq(ScanCodes) BY CodesMade, Zenon
  <2> HIDE DEF c
  <2>1. c \in Seq(ScanCodes) /\ Len(c) \in Nat BY <2>0
  <2>2. /\ typed \o c \in Seq(ScanCodes) /\ Len(typed \o c) = Len(typed) + Len(c)
        /\ \A i \in 1 .. Len(typed) + Len(c) :
             (typed \o c)[i] = IF i <= Len(typed) THEN typed[i] ELSE c[i - Len(typed)]
    BY <1>0, <2>1, ConcatProperties
  <2> QED BY <1>0, <1>2, <2>1, <2>2 DEF c
<1> QED BY <1>0, <1>1, <1>2, Typing

-----------------------------------------------------------------------------
(***************************************************************************)
(* The steps, one invariant at a time.                                     *)
(***************************************************************************)
LEMMA InitInv == Init => IInv
<1> SUFFICES ASSUME Init PROVE IInv OBVIOUS
<1> USE DEF Init
<1>0. Len(typed) = 0 /\ Len(accepted) = 0 /\ Len(consumed) = 0 /\ 0 % Size = 0
  <2>1. Size \in Nat \ {0} /\ 0 \in 0 .. Size - 1 BY Sizes
  <2> QED BY <2>1, ModSmall
<1>1. SlotAt(0) = BufStart /\ BufStart \in Slots
  <2>1. SlotAt(0) = BufStart BY <1>0, Sizes DEF SlotAt
  <2> QED BY <2>1, SlotIn
<1>2. NoCode \in ScanCodes BY DEF NoCode, ScanCodes
<1>3. TypeOK
  <2>1. typed \in Seq(ScanCodes) /\ sent \in 0 .. Len(typed) /\ handled \in 0 .. Len(typed)
        /\ accepted \in Seq([key : KeyCodes, at : 1 .. Len(typed)]) /\ consumed \in Seq(KeyCodes)
    BY <1>0
  <2>2. buf \in [Slots -> KeyCodes \cup {0}] OBVIOUS
  <2> QED BY <1>1, <1>2, <2>1, <2>2 DEF TypeOK
<1>4. ProtoInv BY DEF ProtoInv
<1>5. ASSUME NEW k PROVE ~HeldIn(typed, k, 0 + 1) /\ ~OnIn(typed, k, 0 + 1)
  <2>1. 1 .. (0 + 1) - 1 = {} OBVIOUS
  <2>2. Downs(typed, k, 0 + 1) = {} BY <2>1 DEF Downs
  <2>3. ~(Cardinality({}) % 2 = 1)
    <3>1. Cardinality({}) = 0 BY FS_EmptySet
    <3> QED BY <3>1
  <2>4. ~OnIn(typed, k, 0 + 1) BY <2>2, <2>3, Zenon DEF OnIn
  <2>5. LastIn(typed, k, (0 + 1) - 1) = {} BY <2>1 DEF LastIn
  <2> QED BY <2>4, <2>5 DEF HeldIn
<1>6. StatInv /\ HeldInv
  <2>1. \A k : ~HeldIn(typed, k, handled + 1) /\ ~OnIn(typed, k, handled + 1)
               /\ ~HeldIn(typed, k, Len(typed) + 1)
    BY <1>0, <1>5
  <2> QED BY <2>1 DEF StatInv, HeldInv
<1>7. RingInv
  <2>1. Len(accepted) - Len(consumed) \in 0 .. Size - 1 BY <1>0, Sizes
  <2>2. \A i \in 1 .. 0 : FALSE OBVIOUS
  <2>3. \A i \in 0 + 1 .. 0 : FALSE OBVIOUS
  <2> QED BY <1>0, <1>1, <2>1, <2>2, <2>3 DEF RingInv
<1>8. PlaceInv /\ TypedIn(accepted, dropped, typed, handled)
  <2>1. 1 .. 0 = {} /\ DOMAIN accepted = {} BY <1>0
  <2> QED BY <1>0, <2>1 DEF PlaceInv, TypedIn
<1> QED BY <1>3, <1>4, <1>6, <1>7, <1>8 DEF IInv

\* Only these steps change what is handled, and the buffer.
LEMMA Handles ==
    ASSUME [Next]_vars
    PROVE  \/ /\ UNCHANGED <<stat1, stat2, handled, buf, tail, accepted, dropped>>
              /\ pc = "handle" => pc' = "handle" /\ UNCHANGED code
           \/ HandleModifier \/ HandleLock \/ HandleKey
BY DEF Next, Handler, Kbc, User, Press, Release, Irq1, SndDis, SndEna, SndSta, ReadCode,
       Eoi, KbcReceive, KbcCommand, Consume, bdaVars, vars

LEMMA Takes ==
    ASSUME [Next]_vars
    PROVE  UNCHANGED <<head, consumed>> \/ (Consume /\ UNCHANGED <<handled, bdaVars, code, pc>>)
BY DEF Next, Handler, Kbc, User, Press, Release, Irq1, SndDis, SndEna, SndSta, ReadCode,
       HandleModifier, HandleLock, HandleKey, Eoi, KbcReceive, KbcCommand, Consume, vars

\* The scan code that is handled is the next one that was typed.
LEMMA TheNext ==
    ASSUME TypeOK, ProtoInv, pc = "handle"
    PROVE  /\ handled \in Nat /\ handled + 1 \in 1 .. Len(typed) /\ handled + 1 =< sent
           /\ code = typed[handled + 1]
<1>1. handled \in Nat /\ sent \in 0 .. Len(typed) /\ Len(typed) \in Nat BY DEF TypeOK
<1>2. sent = handled + (IF obf = << >> THEN 0 ELSE 1) + 1 BY DEF ProtoInv
<1>3. handled + 1 =< sent BY <1>1, <1>2
<1> QED BY <1>1, <1>3 DEF ProtoInv

LEMMA KeyCodeType ==
    ASSUME TypeOK
    PROVE  KeyCode \in KeyCodes \cup {0}
<1>1. TableFor(code.key) \in Tables BY DEF TableFor, Tables
<1>2. ASSUME NEW t \in Tables, NEW k PROVE Mapped(t, k) \in KeyCodes \cup {0}
  <2>1. CASE k \notin DOMAIN KeyMap[t] BY <2>1 DEF Mapped
  <2>2. CASE k \in DOMAIN KeyMap[t]
    <3> DEFINE C(u) == {KeyMap[u][j] : j \in DOMAIN KeyMap[u]}
    <3>1. KeyMap[t][k] \in C(t) BY <2>2
    <3>2. KeyCodes = (UNION {C(u) : u \in Tables}) \ {0} BY DEF KeyCodes
    <3> HIDE DEF C
    <3>3. KeyMap[t][k] \in UNION {C(u) : u \in Tables} BY <3>1
    <3>4. KeyMap[t][k] = 0 \/ KeyMap[t][k] \in KeyCodes BY <3>2, <3>3
    <3>5. Mapped(t, k) = KeyMap[t][k] BY <2>2, Zenon DEF Mapped
    <3> QED BY <3>4, <3>5, Zenon
  <2> QED BY <2>1, <2>2
<1> QED BY <1>1, <1>2 DEF KeyCode

LEMMA ProtoStep ==
    ASSUME TypeOK, ProtoInv, [Next]_vars
    PROVE  ProtoInv'
<1>0. /\ handled \in Nat /\ sent \in 0 .. Len(typed) /\ Len(typed) \in Nat
      /\ irr \in BOOLEAN /\ sent \in Nat
  BY DEF TypeOK
<1>1. CASE \E k \in Keys : \E up \in BOOLEAN :
                /\ typed' = typed \o Codes(k, up)
                /\ UNCHANGED <<pc, sent, obf, irr, code, handled>>
  <2>1. \A j \in 1 .. Len(typed) : typed'[j] = typed[j] BY Grow
  <2>2. obf # << >> => sent \in 1 .. Len(typed) BY <1>0 DEF ProtoInv
  <2>3. pc = "handle" => handled + 1 \in 1 .. Len(typed) BY TheNext
  <2> QED BY <1>1, <2>1, <2>2, <2>3 DEF ProtoInv
<1>2. CASE UNCHANGED typed /\ ~User
  <2>1. CASE KbcReceive
    <3>1. /\ obf = << >> /\ obf' = <<typed[sent + 1]>> /\ sent' = sent + 1 /\ irr'
          /\ UNCHANGED <<pc, typed, code, handled>>
      BY <2>1 DEF KbcReceive
    <3>2. obf' # << >> /\ obf'[1] = typed[sent + 1] BY <3>1
    <3> QED BY <1>0, <3>1, <3>2 DEF ProtoInv
  <2>2. CASE Irq1 BY <2>2 DEF Irq1, ProtoInv, devVars
  <2>3. CASE SndDis BY <2>3 DEF SndDis, SndSta, ProtoInv, picVars
  <2>4. CASE SndEna BY <2>4 DEF SndEna, SndSta, ProtoInv, picVars
  <2>5. CASE ReadCode
    <3>1. /\ pc = "read" /\ obf # << >> /\ code' = obf[1] /\ obf' = << >> /\ pc' = "handle"
          /\ UNCHANGED <<typed, sent, handled, irr>> /\ ~irr
      BY <2>5 DEF ReadCode, ProtoInv, picVars
    <3>2. sent = handled + 1 BY <1>0, <3>1 DEF ProtoInv
    <3> QED BY <1>0, <3>1, <3>2 DEF ProtoInv
  <2>6. CASE HandleModifier \/ HandleLock \/ HandleKey
    <3>1. /\ pc = "handle" /\ pc' = "eoi" /\ handled' = handled + 1
          /\ UNCHANGED <<typed, sent, obf, irr, code>>
      BY <2>6 DEF HandleModifier, HandleLock, HandleKey, devVars, picVars
    <3> QED BY <1>0, <3>1 DEF ProtoInv
  <2>7. CASE Eoi BY <2>7 DEF Eoi, ProtoInv, devVars
  <2>8. CASE KbcCommand BY <2>8 DEF KbcCommand, ProtoInv, picVars
  <2>9. CASE Consume BY <2>9 DEF Consume, ProtoInv, devVars, picVars
  <2>10. CASE UNCHANGED vars BY <2>10 DEF vars, ProtoInv, devVars, picVars
  <2> QED BY <1>2, <2>1, <2>2, <2>3, <2>4, <2>5, <2>6, <2>7, <2>8, <2>9, <2>10
          DEF Next, Handler, Kbc
<1> QED BY <1>1, <1>2, Typing DEF User

LEMMA StatStep ==
    ASSUME TypeOK, ProtoInv, StatInv, [Next]_vars
    PROVE  StatInv'
<1>0. handled \in Nat /\ handled =< Len(typed) /\ Len(typed) \in Nat /\ handled + 1 \in Int
      /\ typed \in Seq(ScanCodes)
  BY DEF TypeOK
<1>1. CASE UNCHANGED <<stat1, stat2, handled>>
  <2>1. \A j \in 1 .. (handled + 1) - 1 : typed[j] = typed'[j]
    BY <1>0, Grow
  <2>2. ASSUME NEW k
        PROVE  /\ HeldIn(typed, k, handled + 1) <=> HeldIn(typed', k, handled + 1)
               /\ OnIn(typed, k, handled + 1) <=> OnIn(typed', k, handled + 1)
    BY <1>0, <2>1, SamePast
  <2> QED BY <1>1, <2>2 DEF StatInv
<1>2. CASE HandleModifier \/ HandleLock \/ HandleKey
  <2> DEFINE n == handled + 1
  <2>1. /\ pc = "handle" /\ handled' = handled + 1 /\ UNCHANGED <<typed, code>>
    BY <1>2 DEF HandleModifier, HandleLock, HandleKey, devVars
  <2>2. n \in Nat \ {0} /\ code = typed[n] BY <1>0, <2>1, TheNext
  <2> HIDE DEF n
  <2>3. ASSUME NEW k
        PROVE  /\ HeldIn(typed', k, n + 1) <=>
                    (code.key = k /\ ~code.up) \/ (code.key # k /\ HeldIn(typed, k, n))
               /\ OnIn(typed', k, n + 1) <=>
                    IF code = [key |-> k, up |-> FALSE] THEN ~OnIn(typed, k, n)
                                                       ELSE OnIn(typed, k, n)
    BY <2>1, <2>2, HeldNext, OnNext
  <2>4. /\ \A k \in Modifiers : k \in stat1 <=> HeldIn(typed, k, n)
        /\ \A k \in Locks : /\ k \in stat2 <=> HeldIn(typed, k, n)
                            /\ Active(k) \in stat1 <=> OnIn(typed, k, n)
    BY DEF StatInv, n
  <2>5. code \in ScanCodes BY DEF TypeOK
  <2>6. ASSUME NEW k \in Locks
        PROVE  code = [key |-> k, up |-> FALSE] <=> code.key = k /\ ~code.up
    BY <2>5 DEF ScanCodes
  <2>7. /\ \A k \in Modifiers : k \in stat1' <=> HeldIn(typed', k, n + 1)
        /\ \A k \in Locks : /\ k \in stat2' <=> HeldIn(typed', k, n + 1)
                            /\ Active(k) \in stat1' <=> OnIn(typed', k, n + 1)
    <3>1. CASE HandleModifier
      <4>1. /\ stat1' = IF code.up THEN stat1 \ {code.key} ELSE stat1 \cup {code.key}
            /\ UNCHANGED stat2 /\ code.key \in Modifiers
        BY <3>1 DEF HandleModifier
      <4>2. ASSUME NEW k \in Modifiers PROVE k \in stat1' <=> HeldIn(typed', k, n + 1)
        BY <2>3, <2>4, <4>1
      <4>3. ASSUME NEW k \in Locks
            PROVE  /\ k \in stat2' <=> HeldIn(typed', k, n + 1)
                   /\ Active(k) \in stat1' <=> OnIn(typed', k, n + 1)
        <5>1. code.key # k /\ Active(k) # code.key BY <4>1 DEF Modifiers, Locks, Active
        <5> QED BY <2>3, <2>4, <2>6, <4>1, <5>1
      <4> QED BY <4>2, <4>3
    <3>2. CASE HandleLock
      <4>1. /\ stat1' = IF code.up THEN stat1 ELSE Toggle(stat1, Active(code.key))
            /\ stat2' = IF code.up THEN stat2 \ {code.key} ELSE stat2 \cup {code.key}
            /\ code.key \in Locks
        BY <3>2 DEF HandleLock
      <4>2. ASSUME NEW k \in Modifiers PROVE k \in stat1' <=> HeldIn(typed', k, n + 1)
        <5>1. code.key # k /\ Active(code.key) # k BY <4>1 DEF Modifiers, Locks, Active
        <5> QED BY <2>3, <2>4, <4>1, <5>1 DEF Toggle
      <4>3. ASSUME NEW k \in Locks PROVE k \in stat2' <=> HeldIn(typed', k, n + 1)
        BY <2>3, <2>4, <4>1
      <4>4. ASSUME NEW k \in Locks PROVE Active(k) \in stat1' <=> OnIn(typed', k, n + 1)
        <5>1. Active(k) = Active(code.key) => k = code.key BY <4>1 DEF Locks, Active
        <5> QED BY <2>3, <2>4, <2>6, <4>1, <5>1 DEF Toggle
      <4> QED BY <4>2, <4>3, <4>4
    <3>3. CASE HandleKey
      <4>1. UNCHANGED <<stat1, stat2>> /\ code.key \notin Modifiers \cup Locks
        BY <3>3 DEF HandleKey
      <4>2. ASSUME NEW k \in Modifiers PROVE k \in stat1' <=> HeldIn(typed', k, n + 1)
        BY <2>3, <2>4, <4>1
      <4>3. ASSUME NEW k \in Locks
            PROVE  /\ k \in stat2' <=> HeldIn(typed', k, n + 1)
                   /\ Active(k) \in stat1' <=> OnIn(typed', k, n + 1)
        BY <2>3, <2>4, <2>6, <4>1
      <4> QED BY <4>2, <4>3
    <3> QED BY <1>2, <3>1, <3>2, <3>3
  <2> QED BY <2>1, <2>7 DEF StatInv, n
<1> QED BY <1>1, <1>2, Handles

LEMMA HeldStep ==
    ASSUME TypeOK, HeldInv, [Next]_vars
    PROVE  HeldInv'
<1>0. typed \in Seq(ScanCodes) /\ Len(typed) \in Nat BY DEF TypeOK
<1>1. CASE UNCHANGED <<typed, held>> BY <1>1 DEF HeldInv
<1>2. ASSUME NEW k \in Keys, NEW up \in BOOLEAN, typed' = typed \o Codes(k, up),
             held' = IF up THEN held \ {k} ELSE held \cup {k}
      PROVE  HeldInv'
  <2> DEFINE c == Codes(k, up)
             n == Len(typed) + 1
  <2>0. c \in Seq(ScanCodes) BY CodesMade, Zenon
  <2>1. n \in Nat \ {0} /\ n \in Int /\ n + 1 \in Nat \ {0} BY <1>0
  <2>2. \A j \in 1 .. n - 1 : typed[j] = typed'[j] BY <1>0, Grow
  <2>3. /\ Len(typed') = Len(typed) + Len(c)
        /\ \A i \in 1 .. Len(typed) + Len(c) :
             typed'[i] = IF i <= Len(typed) THEN typed[i] ELSE c[i - Len(typed)]
    <3> HIDE DEF c
    <3> QED BY <1>0, <1>2, <2>0, ConcatProperties DEF c
  <2>4. ASSUME NEW x PROVE HeldIn(typed, x, n) <=> HeldIn(typed', x, n)
    <3> HIDE DEF n
    <3> QED BY <2>1, <2>2, SamePast
  <2>5. ASSUME NEW x
        PROVE  HeldIn(typed', x, n + 1) <=> \/ typed'[n].key = x /\ ~typed'[n].up
                                            \/ typed'[n].key # x /\ HeldIn(typed, x, n)
    <3> HIDE DEF n
    <3> QED BY <2>1, <2>4, HeldNext
  <2>6. \A x \in {"LSHFT", "RSHFT"} \cup Locks : x \in held <=> HeldIn(typed, x, n)
    BY DEF HeldInv
  <2>7. CASE k # RightCtl
    <3>1. Len(c) = 1 /\ c[1] = [key |-> k, up |-> up] BY <2>7, CodesMade
    <3> HIDE DEF c
    <3>2. Len(typed') = n /\ typed'[n] = [key |-> k, up |-> up] BY <1>0, <2>3, <3>1
    <3>3. typed'[n].key = k /\ typed'[n].up = up BY <3>2
    <3>4. ASSUME NEW x \in {"LSHFT", "RSHFT"} \cup Locks
          PROVE  x \in held' <=> HeldIn(typed', x, n + 1)
      <4>1. x \in held <=> HeldIn(typed, x, n) BY <2>6
      <4>2. HeldIn(typed', x, n + 1) <=> \/ k = x /\ ~up
                                         \/ k # x /\ HeldIn(typed, x, n)
        BY <2>5, <3>3, Zenon
      <4> QED BY <1>2, <4>1, <4>2
    <3> QED BY <3>2, <3>4 DEF HeldInv
  <2>8. CASE k = RightCtl
    <3>1. Len(c) = 2 /\ c[1].key = "E0" /\ c[2].key = Ctl BY <2>8, CodesMade
    <3> HIDE DEF c
    <3>2. Len(typed') = n + 1 /\ typed'[n].key = "E0" /\ typed'[n + 1].key = Ctl
      BY <1>0, <2>3, <3>1
    <3>3. ASSUME NEW x \in {"LSHFT", "RSHFT"} \cup Locks
          PROVE  x \in held' <=> HeldIn(typed', x, (n + 1) + 1)
      <4>1. x # "E0" /\ x # Ctl /\ x # RightCtl BY DEF Locks, Ctl, RightCtl
      <4>2. HeldIn(typed', x, (n + 1) + 1) <=> HeldIn(typed', x, n + 1)
        <5> HIDE DEF n
        <5> QED BY <2>1, <3>2, <4>1, HeldNext
      <4>3. HeldIn(typed', x, n + 1) <=> HeldIn(typed, x, n) BY <2>5, <3>2, <4>1
      <4>4. x \in held' <=> x \in held BY <1>2, <2>8, <4>1
      <4> QED BY <2>6, <4>2, <4>3, <4>4
    <3> QED BY <3>2, <3>3 DEF HeldInv
  <2> QED BY <2>7, <2>8
<1> QED BY <1>1, <1>2, Typing

LEMMA RingStep ==
    ASSUME TypeOK, RingInv, [Next]_vars
    PROVE  RingInv'
<1> DEFINE A == Len(accepted)
           C == Len(consumed)
           R == [key : KeyCodes, at : 1 .. Len(typed)]
<1>0. /\ accepted \in Seq(R) /\ consumed \in Seq(KeyCodes) /\ A \in Nat /\ C \in Nat
      /\ buf \in [Slots -> KeyCodes \cup {0}]
  BY DEF TypeOK
<1>1. /\ A - C \in 0 .. Size - 1 /\ head = SlotAt(C) /\ tail = SlotAt(A)
      /\ \A i \in 1 .. C : consumed[i] = accepted[i].key
      /\ \A i \in C + 1 .. A : buf[SlotAt(i - 1)] = accepted[i].key
  BY DEF RingInv
<1>2. Size \in Nat /\ Size >= 2 BY Sizes
<1>3. CASE UNCHANGED <<buf, head, tail, accepted, consumed>> BY <1>3 DEF RingInv
<1>4. CASE HandleKey
  <2>1. UNCHANGED <<head, consumed>> BY <1>4 DEF HandleKey
  <2>2. CASE UNCHANGED <<buf, tail, accepted>> BY <1>3, <2>1, <2>2
  <2>3. CASE /\ ~BufFull /\ buf' = [buf EXCEPT ![tail] = KeyCode] /\ tail' = After(tail)
             /\ accepted' = Append(accepted, [key |-> KeyCode, at |-> handled + 1])
    <3> DEFINE e == [key |-> KeyCode, at |-> handled + 1]
    <3>1. Len(accepted') = A + 1 /\ accepted'[A + 1] = e
          /\ \A i \in 1 .. A : accepted'[i] = accepted[i]
      <4>1. accepted' = Append(accepted, e) BY <2>3
      <4> HIDE DEF e
      <4> QED BY <1>0, <4>1
    <3>2. e.key = KeyCode OBVIOUS
    <3> HIDE DEF e
    <3>3. tail' = SlotAt(A + 1) BY <1>0, <1>1, <2>3, AfterSlot
    <3>4. (A + 1) - C \in 0 .. Size - 1
      <4>1. SlotAt(A + 1) # SlotAt(C) BY <1>0, <1>1, <2>3, AfterSlot DEF BufFull
      <4>2. A + 1 # C + Size BY <1>0, <4>1, SlotAgain
      <4>3. A \in Nat /\ C \in Nat /\ A - C \in 0 .. Size - 1 BY <1>0, <1>1
      <4> HIDE DEF A, C
      <4> QED BY <1>2, <4>2, <4>3
    <3>5. ASSUME NEW i \in 1 .. C PROVE consumed[i] = accepted'[i].key
      <4>1. i \in 1 .. A BY <1>0, <1>1, <1>2
      <4> QED BY <1>1, <3>1, <4>1
    <3>6. ASSUME NEW i \in C + 1 .. A + 1 PROVE buf'[SlotAt(i - 1)] = accepted'[i].key
      <4>1. CASE i = A + 1
        <5>1. i - 1 = A BY <1>0, <4>1
        <5>2. tail \in Slots BY DEF TypeOK
        <5> QED BY <1>0, <1>1, <2>3, <3>1, <3>2, <4>1, <5>1, <5>2
      <4>2. CASE i # A + 1
        <5>1. i \in C + 1 .. A /\ i \in 1 .. A /\ i - 1 \in Int BY <1>0, <4>2
        <5> DEFINE d == A - (i - 1)
        <5>2. d \in 1 .. Size - 1 /\ (i - 1) + d = A BY <1>0, <1>1, <1>2, <5>1
        <5> HIDE DEF d
        <5>3. SlotAt(i - 1) # SlotAt(A) BY <5>1, <5>2, SlotsApart
        <5>4. SlotAt(i - 1) \in Slots BY <5>1, SlotIn
        <5>5. buf'[SlotAt(i - 1)] = buf[SlotAt(i - 1)] BY <1>0, <1>1, <2>3, <5>3, <5>4
        <5> QED BY <1>1, <3>1, <5>1, <5>5
      <4> QED BY <4>1, <4>2
    <3> QED BY <1>0, <1>1, <2>1, <3>1, <3>3, <3>4, <3>5, <3>6 DEF RingInv
  <2> QED BY <1>4, <2>2, <2>3 DEF HandleKey
<1>5. CASE Consume /\ UNCHANGED bdaVars
  <2>1. head # tail /\ consumed' = Append(consumed, buf[head]) /\ head' = After(head)
        /\ UNCHANGED <<buf, tail, accepted>>
    BY <1>5 DEF Consume, bdaVars
  <2>2. C # A BY <1>1, <2>1
  <2>3. A - (C + 1) \in 0 .. Size - 1 /\ C + 1 \in C + 1 .. A
    <3>1. A \in Nat /\ C \in Nat /\ A - C \in 0 .. Size - 1 BY <1>0, <1>1
    <3> HIDE DEF A, C
    <3> QED BY <1>2, <2>2, <3>1
  <2>4. head' = SlotAt(C + 1)
    <3>1. C \in Int /\ head' = After(SlotAt(C)) BY <1>0, <1>1, <2>1
    <3> HIDE DEF C
    <3> QED BY <3>1, AfterSlot
  <2>5. (C + 1) - 1 = C BY <1>0
  <2>6. buf[head] = accepted[C + 1].key BY <1>1, <2>3, <2>5
  <2> DEFINE e == buf[head]
  <2>7. Len(consumed') = C + 1 /\ consumed'[C + 1] = e /\ \A i \in 1 .. C : consumed'[i] = consumed[i]
    <3>1. consumed' = Append(consumed, e) BY <2>1
    <3> HIDE DEF e
    <3> QED BY <1>0, <3>1
  <2>8. ASSUME NEW i \in 1 .. C + 1 PROVE consumed'[i] = accepted[i].key
    <3>1. i = C + 1 \/ i \in 1 .. C BY <1>0
    <3> QED BY <1>1, <2>6, <2>7, <3>1
  <2>9. \A i \in (C + 1) + 1 .. A : i \in C + 1 .. A BY <1>0
  <2> QED BY <1>1, <2>1, <2>3, <2>4, <2>7, <2>8, <2>9 DEF RingInv
<1>6. HandleModifier \/ HandleLock => UNCHANGED <<buf, head, tail, accepted, consumed>>
  BY DEF HandleModifier, HandleLock
<1> QED BY <1>3, <1>4, <1>5, <1>6, Handles, Takes

LEMMA TypeStep ==
    ASSUME TypeOK, ProtoInv, RingInv, RingInv', [Next]_vars
    PROVE  TypeOK'
<1>0. /\ typed' \in Seq(ScanCodes) /\ Len(typed) \in Nat /\ Len(typed') \in Nat
      /\ Len(typed) =< Len(typed')
  BY Grow
<1>1. /\ pc' \in {"idle", "disable", "read", "handle", "eoi", "enable"}
      /\ cmd' \in {"none", "DIS", "ENA"}
  BY DEF TypeOK, Next, Handler, Kbc, User, Press, Release, Irq1, SndDis, SndEna, SndSta, ReadCode,
         HandleModifier, HandleLock, HandleKey, Eoi, KbcReceive, KbcCommand, Consume, devVars, vars
<1>2. enabled' \in BOOLEAN /\ irr' \in BOOLEAN /\ isr' \in BOOLEAN
  <2>1. UNCHANGED enabled \/ (enabled' = (cmd = "ENA"))
    BY DEF Next, Handler, Kbc, User, Press, Release, Irq1, SndDis, SndEna, SndSta, ReadCode,
         HandleModifier, HandleLock, HandleKey, Eoi, KbcReceive, KbcCommand, Consume, devVars, vars
  <2>2. UNCHANGED irr \/ irr' = TRUE \/ irr' = FALSE
    BY DEF Next, Handler, Kbc, User, Press, Release, Irq1, SndDis, SndEna, SndSta, ReadCode,
         HandleModifier, HandleLock, HandleKey, Eoi, KbcReceive, KbcCommand, Consume, picVars, vars
  <2>3. UNCHANGED isr \/ isr' = TRUE \/ isr' = FALSE
    BY DEF Next, Handler, Kbc, User, Press, Release, Irq1, SndDis, SndEna, SndSta, ReadCode,
         HandleModifier, HandleLock, HandleKey, Eoi, KbcReceive, KbcCommand, Consume, picVars, vars
  <2>4. enabled \in BOOLEAN /\ irr \in BOOLEAN /\ isr \in BOOLEAN BY DEF TypeOK
  <2>5. enabled' \in BOOLEAN BY <2>1, <2>4
  <2> QED BY <2>2, <2>3, <2>4, <2>5
<1>3. held' \subseteq Keys
  <2>1. held \subseteq Keys BY DEF TypeOK
  <2> QED BY <2>1, Typing
<1>4. sent' \in 0 .. Len(typed') /\ obf' \in {<< >>} \cup {<<c>> : c \in ScanCodes}
      /\ code' \in ScanCodes
  <2>0. /\ sent \in 0 .. Len(typed) /\ code \in ScanCodes /\ typed \in Seq(ScanCodes)
        /\ obf \in {<< >>} \cup {<<c>> : c \in ScanCodes}
    BY DEF TypeOK
  <2>1. CASE UNCHANGED <<sent, obf, code>> BY <1>0, <2>0, <2>1
  <2>2. CASE KbcReceive
    <3>1. sent < Len(typed) /\ obf' = <<typed[sent + 1]>> /\ sent' = sent + 1
          /\ UNCHANGED <<typed, code>>
      BY <2>2 DEF KbcReceive
    <3>2. sent + 1 \in 1 .. Len(typed) BY <1>0, <2>0, <3>1
    <3>3. typed[sent + 1] \in ScanCodes BY <2>0, <3>2
    <3> QED BY <2>0, <3>1, <3>2, <3>3
  <2>3. CASE ReadCode
    <3>1. code' = (IF obf = << >> THEN code ELSE obf[1]) /\ obf' = << >> /\ UNCHANGED sent
      BY <2>3 DEF ReadCode
    <3>2. obf # << >> => obf[1] \in ScanCodes BY <2>0
    <3> QED BY <1>0, <2>0, <3>1, <3>2
  <2> QED BY <2>1, <2>2, <2>3
    DEF Next, Handler, Kbc, User, Press, Release, Irq1, SndDis, SndEna, SndSta,
        HandleModifier, HandleLock, HandleKey, Eoi, KbcCommand, Consume, devVars, vars
<1>5. stat1' \subseteq Modifiers \cup LockFlags /\ stat2' \subseteq Locks
  <2>0. stat1 \subseteq Modifiers \cup LockFlags /\ stat2 \subseteq Locks BY DEF TypeOK
  <2>1. CASE HandleModifier BY <2>0, <2>1 DEF HandleModifier
  <2>2. CASE HandleLock
    <3>1. code.key \in Locks /\ (stat1' = stat1 \/ stat1' = Toggle(stat1, Active(code.key)))
          /\ (stat2' = stat2 \ {code.key} \/ stat2' = stat2 \cup {code.key})
      BY <2>2 DEF HandleLock
    <3>2. Active(code.key) \in LockFlags BY <3>1 DEF Locks, LockFlags, Active
    <3> QED BY <2>0, <3>1, <3>2 DEF Toggle
  <2>3. CASE HandleKey BY <2>0, <2>3 DEF HandleKey
  <2> QED BY <2>0, <2>1, <2>2, <2>3, Handles
<1>6. /\ handled' \in 0 .. Len(typed') /\ dropped' \subseteq 1 .. Len(typed')
      /\ accepted' \in Seq([key : KeyCodes, at : 1 .. Len(typed')])
      /\ buf' \in [Slots -> KeyCodes \cup {0}]
  <2> DEFINE R == [key : KeyCodes, at : 1 .. Len(typed')]
  <2>0. /\ handled \in 0 .. Len(typed') /\ dropped \subseteq 1 .. Len(typed')
        /\ buf \in [Slots -> KeyCodes \cup {0}] /\ accepted \in Seq(R)
    <3>1. 1 .. Len(typed) \subseteq 1 .. Len(typed') /\ 0 .. Len(typed) \subseteq 0 .. Len(typed')
      BY <1>0
    <3>2. [key : KeyCodes, at : 1 .. Len(typed)] \subseteq R BY <3>1
    <3>3. accepted \in Seq([key : KeyCodes, at : 1 .. Len(typed)]) BY DEF TypeOK
    <3>4. accepted \in Seq(R)
      <4> HIDE DEF R
      <4> QED BY <3>2, <3>3, SeqMonotonic
    <3> QED BY <3>1, <3>4 DEF TypeOK
  <2>1. CASE HandleModifier \/ HandleLock \/ HandleKey
    <3>1. pc = "handle" /\ handled' = handled + 1
      BY <2>1 DEF HandleModifier, HandleLock, HandleKey
    <3>2. handled + 1 \in 1 .. Len(typed') /\ handled' \in 0 .. Len(typed')
      BY <1>0, <3>1, TheNext
    <3>3. CASE UNCHANGED <<buf, accepted, dropped>> BY <2>0, <3>2, <3>3
    <3>4. CASE HandleKey /\ ~UNCHANGED <<buf, accepted, dropped>>
      <4>1. KeyCode # 0 BY <3>4 DEF HandleKey
      <4>2. KeyCode \in KeyCodes BY <4>1, KeyCodeType
      <4>3. CASE dropped' = dropped \cup {handled + 1} /\ UNCHANGED <<buf, accepted>>
        BY <2>0, <3>2, <4>3
      <4>4. CASE /\ buf' = [buf EXCEPT ![tail] = KeyCode] /\ UNCHANGED dropped
                 /\ accepted' = Append(accepted, [key |-> KeyCode, at |-> handled + 1])
        <5>1. [key |-> KeyCode, at |-> handled + 1] \in R BY <3>2, <4>2
        <5> DEFINE e == [key |-> KeyCode, at |-> handled + 1]
        <5>2. accepted' = Append(accepted, e) BY <4>4
        <5> HIDE DEF e, R
        <5>3. accepted' \in Seq(R) BY <2>0, <5>1, <5>2 DEF e
        <5>4. buf' \in [Slots -> KeyCodes \cup {0}] BY <2>0, <4>2, <4>4
        <5> QED BY <2>0, <3>2, <4>4, <5>3, <5>4 DEF R
      <4> QED BY <3>4, <4>3, <4>4 DEF HandleKey
    <3>5. HandleModifier \/ HandleLock => UNCHANGED <<buf, accepted, dropped>>
      BY DEF HandleModifier, HandleLock
    <3> QED BY <2>1, <3>3, <3>4, <3>5
  <2>2. CASE UNCHANGED <<handled, buf, accepted, dropped>> BY <2>0, <2>2
  <2> QED BY <2>1, <2>2, Handles
<1>7. head' \in Slots /\ tail' \in Slots
  <2>1. Len(accepted') \in Nat BY <1>6
  <2>2. Len(consumed') \in Nat
    <3>1. consumed \in Seq(KeyCodes) BY DEF TypeOK
    <3>2. Consume => consumed' = Append(consumed, buf[head]) BY DEF Consume
    <3> QED BY <3>1, <3>2, Takes
  <2>3. head' = SlotAt(Len(consumed')) /\ tail' = SlotAt(Len(accepted')) BY DEF RingInv
  <2> QED BY <2>1, <2>2, <2>3, SlotIn
<1>8. consumed' \in Seq(KeyCodes)
  <2>0. consumed \in Seq(KeyCodes) /\ accepted \in Seq([key : KeyCodes, at : 1 .. Len(typed)])
        /\ Len(consumed) \in Nat /\ Len(accepted) \in Nat
    BY DEF TypeOK
  <2>1. CASE Consume
    <3> DEFINE e == buf[head]
               C == Len(consumed)
    <3>1. consumed' = Append(consumed, e) /\ head # tail BY <2>1 DEF Consume
    <3>2. C + 1 \in C + 1 .. Len(accepted)
      <4>1. C # Len(accepted) BY <3>1 DEF RingInv
      <4>2. Len(accepted) - C \in 0 .. Size - 1 /\ Size \in Nat BY Sizes DEF RingInv
      <4> QED BY <2>0, <4>1, <4>2
    <3>3. (C + 1) - 1 = C /\ C + 1 \in 1 .. Len(accepted) BY <2>0, <3>2
    <3>4. e = accepted[C + 1].key BY <3>2, <3>3 DEF RingInv
    <3>5. e \in KeyCodes
      <4>1. accepted[C + 1] \in [key : KeyCodes, at : 1 .. Len(typed)] BY <2>0, <3>3, ElementOfSeq
      <4> QED BY <3>4, <4>1
    <3> HIDE DEF e
    <3> QED BY <2>0, <3>1, <3>5
  <2> QED BY <2>0, <2>1, Takes
<1> QED BY <1>0, <1>1, <1>2, <1>3, <1>4, <1>5, <1>6, <1>7, <1>8 DEF TypeOK

LEMMA SameMeant ==
    ASSUME NEW s, NEW t, NEW n \in Nat \ {0}, \A j \in 1 .. n : s[j] = t[j]
    PROVE  MeantIn(s, n) = MeantIn(t, n)
<1>1. n \in Int /\ \A j \in 1 .. n - 1 : s[j] = t[j] OBVIOUS
<1>2. \A k : (HeldIn(s, k, n) <=> HeldIn(t, k, n)) /\ (OnIn(s, k, n) <=> OnIn(t, k, n))
  <2> SUFFICES ASSUME NEW k
               PROVE  (HeldIn(s, k, n) <=> HeldIn(t, k, n)) /\ (OnIn(s, k, n) <=> OnIn(t, k, n))
    OBVIOUS
  <2> QED BY <1>1, SamePast
<1>3. s[n] = t[n] OBVIOUS
<1>4. \A k : CapitalIn(s, k, n) <=> CapitalIn(t, k, n) BY <1>2 DEF CapitalIn
<1> QED BY <1>2, <1>3, <1>4 DEF MeantIn

\* The handler makes of a scan code what it means.
LEMMA MakesMeant ==
    ASSUME TypeOK, ProtoInv, StatInv, pc = "handle"
    PROVE  MeantIn(typed, handled + 1) = IF code.key \in Modifiers \cup Locks THEN 0 ELSE KeyCode
<1> DEFINE n == handled + 1
<1>1. code = typed[n] BY TheNext
<1>2. CASE code.key \in Modifiers \cup Locks BY <1>1, <1>2 DEF MeantIn
<1>3. CASE code.key \notin Modifiers \cup Locks
  <2>1. /\ "ALT" \in stat1 <=> HeldIn(typed, "ALT", n)
        /\ "CTL" \in stat1 <=> HeldIn(typed, "CTL", n)
        /\ "LSHFT" \in stat1 <=> HeldIn(typed, "LSHFT", n)
        /\ "RSHFT" \in stat1 <=> HeldIn(typed, "RSHFT", n)
    BY DEF StatInv, Modifiers
  <2>2. /\ "CAPLK_ACT" \in stat1 <=> OnIn(typed, "CAPLK", n)
        /\ "NUMLK_ACT" \in stat1 <=> OnIn(typed, "NUMLK", n)
    <3>1. "CAPLK" \in Locks /\ "NUMLK" \in Locks BY DEF Locks
    <3>2. Active("CAPLK") = "CAPLK_ACT" /\ Active("NUMLK") = "NUMLK_ACT" BY DEF Active
    <3>3. /\ Active("CAPLK") \in stat1 <=> OnIn(typed, "CAPLK", n)
          /\ Active("NUMLK") \in stat1 <=> OnIn(typed, "NUMLK", n)
      BY <3>1 DEF StatInv
    <3> QED BY <3>2, <3>3
  <2> HIDE DEF n
  <2>3. ShiftHeld <=> HeldIn(typed, "LSHFT", n) \/ HeldIn(typed, "RSHFT", n)
    <3>1. ShiftHeld <=> "LSHFT" \in stat1 \/ "RSHFT" \in stat1 BY DEF ShiftHeld
    <3> QED BY <2>1, <3>1
  <2>4. ASSUME NEW k
        PROVE  LockShifts(k) <=> \/ k \in Letters /\ OnIn(typed, "CAPLK", n)
                                 \/ k \in Keypad /\ OnIn(typed, "NUMLK", n)
    BY <2>2 DEF LockShifts
  <2>5. ASSUME NEW k PROVE (LockShifts(k) # ShiftHeld) <=> CapitalIn(typed, k, n)
    <3> DEFINE a == HeldIn(typed, "LSHFT", n) \/ HeldIn(typed, "RSHFT", n)
               b == (k \in Letters /\ OnIn(typed, "CAPLK", n))
                    \/ (k \in Keypad /\ OnIn(typed, "NUMLK", n))
    <3>1. LockShifts(k) <=> b BY <2>4
    <3>2. ShiftHeld <=> a BY <2>3
    <3>3. CapitalIn(typed, k, n) <=> (a # b) BY DEF CapitalIn
    <3>4. LockShifts(k) \in BOOLEAN /\ ShiftHeld \in BOOLEAN BY DEF LockShifts, ShiftHeld
    <3> HIDE DEF a, b
    <3>5. CASE a /\ b BY <3>1, <3>2, <3>3, <3>4, <3>5
    <3>6. CASE a /\ ~b BY <3>1, <3>2, <3>3, <3>4, <3>6
    <3>7. CASE ~a /\ b BY <3>1, <3>2, <3>3, <3>4, <3>7
    <3>8. CASE ~a /\ ~b BY <3>1, <3>2, <3>3, <3>4, <3>8 DEF a, b
    <3> QED BY <3>5, <3>6, <3>7, <3>8
  <2>6. CASE code.up
    <3>1. MeantIn(typed, n) = 0 BY <1>1, <2>6 DEF MeantIn, n
    <3> QED BY <1>3, <2>6, <3>1 DEF KeyCode, n
  <2>7. CASE ~code.up
    <3>1. KeyCode = Mapped(TableFor(code.key), code.key) BY <2>7 DEF KeyCode
    <3>2. MeantIn(typed, n)
            = Mapped(CASE HeldIn(typed, "ALT", n) -> "alt"
                       [] HeldIn(typed, "CTL", n) /\ ~HeldIn(typed, "ALT", n) -> "ctl"
                       [] OTHER -> IF CapitalIn(typed, code.key, n) THEN "shift" ELSE "plain",
                     code.key)
      BY <1>1, <1>3, <2>7, Zenon DEF MeantIn, n
    <3>3. TableFor(code.key)
            = CASE HeldIn(typed, "ALT", n) -> "alt"
                [] HeldIn(typed, "CTL", n) /\ ~HeldIn(typed, "ALT", n) -> "ctl"
                [] OTHER -> IF CapitalIn(typed, code.key, n) THEN "shift" ELSE "plain"
      BY <2>1, <2>5 DEF TableFor
    <3> QED BY <1>3, <3>1, <3>2, <3>3 DEF n
  <2> QED BY <2>6, <2>7
<1> QED BY <1>2, <1>3

LEMMA PlaceStep ==
    ASSUME TypeOK, PlaceInv, [Next]_vars
    PROVE  PlaceInv'
<1> DEFINE R == [key : KeyCodes, at : 1 .. Len(typed)]
<1>0. /\ handled \in Nat /\ accepted \in Seq(R) /\ dropped \subseteq Nat /\ Len(accepted) \in Nat
      /\ \A i \in 1 .. Len(accepted) : accepted[i].at \in Nat
  <2>1. accepted \in Seq(R) /\ handled \in Nat /\ typed \in Seq(ScanCodes) BY DEF TypeOK
  <2>2. dropped \subseteq Nat
    <3>1. dropped \subseteq 1 .. Len(typed) BY Zenon DEF TypeOK
    <3> QED BY <3>1, <2>1, LenProperties
  <2>3. Len(accepted) \in Nat
    <3> HIDE DEF R
    <3> QED BY <2>1, LenProperties
  <2>4. ASSUME NEW i \in 1 .. Len(accepted) PROVE accepted[i].at \in Nat
    <3>1. accepted[i] \in R
      <4> HIDE DEF R
      <4> QED BY <2>1, ElementOfSeq
    <3>2. Len(typed) \in Nat BY <2>1, LenProperties
    <3>3. accepted[i].at \in 1 .. Len(typed) BY <3>1, Zenon
    <3> QED BY <3>2, <3>3
  <2> QED BY <2>1, <2>2, <2>3, <2>4
<1>1. CASE UNCHANGED <<handled, accepted, dropped>> BY <1>1, Zenon DEF PlaceInv
<1>2. CASE handled' = handled + 1 /\ UNCHANGED <<accepted, dropped>>
  <2>1. (\A i \in 1 .. Len(accepted) : accepted[i].at =< handled) /\ (\A n \in dropped : n =< handled)
    BY DEF PlaceInv
  <2>2. handled' = handled + 1 /\ accepted' = accepted /\ dropped' = dropped BY <1>2
  <2>3. \A n \in dropped : n \in Nat BY <1>0
  <2>4. (\A i \in 1 .. Len(accepted) : accepted[i].at =< handled + 1) /\ (\A n \in dropped : n =< handled + 1)
    BY <1>0, <2>1, <2>3
  <2> QED BY <2>2, <2>4 DEF PlaceInv
<1>3. CASE handled' = handled + 1 /\ UNCHANGED accepted /\ dropped' = dropped \cup {handled + 1}
  BY <1>0, <1>3 DEF PlaceInv
<1>4. CASE /\ handled' = handled + 1 /\ UNCHANGED dropped
           /\ accepted' = Append(accepted, [key |-> KeyCode, at |-> handled + 1])
  <2> DEFINE e == [key |-> KeyCode, at |-> handled + 1]
  <2>1. e.at = handled + 1 OBVIOUS
  <2>2. accepted' = Append(accepted, e) BY <1>4
  <2> HIDE DEF e, R
  <2>3. /\ Len(accepted') = Len(accepted) + 1 /\ accepted'[Len(accepted) + 1] = e
        /\ \A i \in 1 .. Len(accepted) : accepted'[i] = accepted[i]
    BY <1>0, <2>2
  <2>4. ASSUME NEW i \in 1 .. Len(accepted') PROVE accepted'[i].at =< handled'
    <3>1. i = Len(accepted) + 1 \/ i \in 1 .. Len(accepted) BY <1>0, <2>3
    <3>2. CASE i = Len(accepted) + 1 BY <1>0, <1>4, <2>1, <2>3, <3>2
    <3>3. CASE i \in 1 .. Len(accepted)
      <4>1. accepted[i].at =< handled /\ accepted[i].at \in Nat BY <1>0, <3>3 DEF PlaceInv
      <4> QED BY <1>0, <1>4, <2>3, <3>3, <4>1
    <3> QED BY <3>1, <3>2, <3>3
  <2>5. \A n \in dropped' : n =< handled' BY <1>0, <1>4 DEF PlaceInv
  <2> QED BY <2>4, <2>5 DEF PlaceInv
<1>5. HandleModifier \/ HandleLock => handled' = handled + 1 /\ UNCHANGED <<accepted, dropped>>
  BY DEF HandleModifier, HandleLock
<1> QED BY <1>1, <1>2, <1>3, <1>4, <1>5, Handles DEF HandleKey

LEMMA TypedStep ==
    ASSUME TypeOK, ProtoInv, StatInv, PlaceInv, TypedIn(accepted, dropped, typed, handled),
           [Next]_vars
    PROVE  TypedIn(accepted', dropped', typed', handled')
<1> DEFINE R == [key : KeyCodes, at : 1 .. Len(typed)]
           A == Len(accepted)
           M(n) == MeantIn(typed', n)
<1>0. /\ handled \in Nat /\ handled =< Len(typed) /\ Len(typed) \in Nat
      /\ accepted \in Seq(R) /\ A \in Nat /\ DOMAIN accepted = 1 .. A
  BY DEF TypeOK
<1>1. ASSUME NEW i \in 1 .. A PROVE accepted[i].at \in 1 .. handled
  <2>1. accepted[i] \in R
    <3> HIDE DEF R
    <3> QED BY <1>0, ElementOfSeq
  <2>2. accepted[i].at \in 1 .. Len(typed) /\ accepted[i].at =< handled BY <2>1 DEF PlaceInv
  <2> QED BY <1>0, <2>2
<1>2. ASSUME NEW n \in 1 .. Len(typed) PROVE MeantIn(typed, n) = M(n)
  <2>1. n \in Nat \ {0} BY <1>0
  <2>2. \A j \in 1 .. n : typed[j] = typed'[j] BY <1>0, Grow
  <2> QED BY <2>1, <2>2, SameMeant
<1> HIDE DEF M, R
<1>3. /\ \A i \in 1 .. A : accepted[i].key = M(accepted[i].at)
      /\ \A i \in 1 .. A : i > 1 => accepted[i - 1].at < accepted[i].at
      /\ {n \in 1 .. handled : M(n) # 0} = {accepted[i].at : i \in 1 .. A} \cup dropped
  <2>1. \A n \in 1 .. handled : MeantIn(typed, n) = M(n) BY <1>0, <1>2
  <2>2. ASSUME NEW i \in 1 .. A PROVE accepted[i].key = M(accepted[i].at)
    BY <1>0, <1>1, <2>1 DEF TypedIn
  <2>3. \A i \in 1 .. A : i > 1 => accepted[i - 1].at < accepted[i].at BY <1>0 DEF TypedIn
  <2>4. {n \in 1 .. handled : MeantIn(typed, n) # 0} = {accepted[i].at : i \in 1 .. A} \cup dropped
    BY <1>0 DEF TypedIn
  <2> QED BY <2>1, <2>2, <2>3, <2>4
<1>4. TypedIn(accepted', dropped', typed', handled')
        <=> /\ \A i \in DOMAIN accepted' : /\ accepted'[i].key = M(accepted'[i].at)
                                           /\ i > 1 => accepted'[i - 1].at < accepted'[i].at
            /\ {n \in 1 .. handled' : M(n) # 0} = {accepted'[i].at : i \in DOMAIN accepted'} \cup dropped'
  BY DEF TypedIn, M
<1>5. CASE UNCHANGED <<accepted, dropped, handled>> BY <1>0, <1>3, <1>4, <1>5
<1>6. CASE HandleModifier \/ HandleLock \/ HandleKey
  <2>1. pc = "handle" /\ handled' = handled + 1
    BY <1>6 DEF HandleModifier, HandleLock, HandleKey
  <2>2. M(handled + 1) = IF code.key \in Modifiers \cup Locks THEN 0 ELSE KeyCode
    <3>1. handled + 1 \in 1 .. Len(typed) BY <2>1, TheNext
    <3> QED BY <1>2, <2>1, <3>1, MakesMeant
  <2>3. \A n : n \in 1 .. handled' <=> n \in 1 .. handled \/ n = handled + 1 BY <1>0, <2>1
  <2>4. CASE UNCHANGED <<accepted, dropped>> /\ M(handled + 1) = 0
    <3>1. {n \in 1 .. handled' : M(n) # 0} = {n \in 1 .. handled : M(n) # 0} BY <2>3, <2>4
    <3> QED BY <1>0, <1>3, <1>4, <2>4, <3>1
  <2>5. CASE UNCHANGED accepted /\ dropped' = dropped \cup {handled + 1} /\ M(handled + 1) # 0
    <3>1. {n \in 1 .. handled' : M(n) # 0} = {n \in 1 .. handled : M(n) # 0} \cup {handled + 1}
      BY <2>3, <2>5
    <3> QED BY <1>0, <1>3, <1>4, <2>5, <3>1
  <2>6. CASE /\ UNCHANGED dropped /\ KeyCode # 0 /\ M(handled + 1) = KeyCode
             /\ accepted' = Append(accepted, [key |-> KeyCode, at |-> handled + 1])
    <3> DEFINE e == [key |-> KeyCode, at |-> handled + 1]
    <3>1. e.at = handled + 1 /\ e.key = KeyCode OBVIOUS
    <3>2. accepted' = Append(accepted, e) BY <2>6
    <3> HIDE DEF e
    <3>3. /\ DOMAIN accepted' = 1 .. A + 1 /\ accepted'[A + 1] = e
          /\ \A i \in 1 .. A : accepted'[i] = accepted[i]
      BY <1>0, <3>2
    <3> HIDE DEF A
    <3>4. {n \in 1 .. handled' : M(n) # 0} = {n \in 1 .. handled : M(n) # 0} \cup {handled + 1}
      BY <2>3, <2>6
    <3>5. \A i : i \in 1 .. A + 1 <=> i \in 1 .. A \/ i = A + 1 BY <1>0
    <3>6. {accepted'[i].at : i \in 1 .. A + 1} = {accepted[i].at : i \in 1 .. A} \cup {handled + 1}
      BY <3>1, <3>3, <3>5
    <3>7. ASSUME NEW i \in 1 .. A + 1
          PROVE  /\ accepted'[i].key = M(accepted'[i].at)
                 /\ i > 1 => accepted'[i - 1].at < accepted'[i].at
      <4>1. CASE i \in 1 .. A
        <5>1. i > 1 => i - 1 \in 1 .. A BY <1>0, <4>1
        <5> QED BY <1>3, <3>3, <4>1, <5>1
      <4>2. CASE i = A + 1
        <5>1. i > 1 => i - 1 \in 1 .. A BY <1>0, <4>2
        <5>2. accepted'[i] = e BY <3>3, <4>2
        <5>3. ASSUME i > 1 PROVE accepted'[i - 1].at < accepted'[i].at
          <6>1. accepted'[i - 1] = accepted[i - 1] /\ accepted[i - 1].at \in 1 .. handled
            BY <1>1, <3>3, <5>1, <5>3
          <6> QED BY <1>0, <3>1, <5>2, <6>1
        <5> QED BY <2>6, <3>1, <5>2, <5>3
      <4> QED BY <3>5, <4>1, <4>2
    <3> QED BY <1>3, <1>4, <2>6, <3>3, <3>4, <3>6, <3>7
  <2>7. HandleModifier \/ HandleLock => UNCHANGED <<accepted, dropped>>
                                        /\ code.key \in Modifiers \cup Locks
    BY DEF HandleModifier, HandleLock
  <2>8. HandleKey => code.key \notin Modifiers \cup Locks BY DEF HandleKey
  <2> QED BY <1>6, <2>2, <2>4, <2>5, <2>6, <2>7, <2>8 DEF HandleKey
<1> QED BY <1>5, <1>6, Handles

-----------------------------------------------------------------------------
LEMMA NextInv == IInv /\ [Next]_vars => IInv'
<1> SUFFICES ASSUME IInv, [Next]_vars PROVE IInv' OBVIOUS
<1>0. TypeOK /\ ProtoInv /\ StatInv /\ HeldInv /\ RingInv /\ PlaceInv
      /\ TypedIn(accepted, dropped, typed, handled)
  BY DEF IInv
<1>1. RingInv' BY <1>0, RingStep
<1>2. TypeOK' BY <1>0, <1>1, TypeStep
<1>3. ProtoInv' BY <1>0, ProtoStep
<1>4. StatInv' BY <1>0, StatStep
<1>5. HeldInv' BY <1>0, HeldStep
<1>6. PlaceInv' BY <1>0, PlaceStep
<1>7. TypedIn(accepted', dropped', typed', handled') BY <1>0, TypedStep
<1> QED BY <1>1, <1>2, <1>3, <1>4, <1>5, <1>6, <1>7 DEF IInv

\* The handler and the 8042 keep their agreement, the flags lag behind the
\* keyboard by the scan codes not yet handled, and the ring has room for one
\* word less than it has: the invariant that the other theorems rest on.
THEOREM Inductive == Spec => []IInv
BY InitInv, NextInv, PTL DEF Spec

\* The state of kb.c and of the devices around it keeps its types; the head
\* and the tail never leave the words of the buffer.
THEOREM TypeCorrect == Spec => []TypeOK
<1>1. IInv => TypeOK BY DEF IInv
<1> QED BY <1>1, Inductive, PTL

\* In numbers modulo the size of the ring, the tail is as far from the head
\* as there are key codes waiting.
LEMMA WaitingCount ==
    ASSUME NEW a \in Nat, NEW c \in Nat, a - c \in 0 .. Size - 1
    PROVE  ((a % Size) - (c % Size)) % Size = a - c
<1>0. Size \in Nat \ {0} BY Sizes
<1>1. PICK q \in Int, r \in 0 .. Size - 1 : c = Size * q + r /\ r = c % Size
  <2>1. c \in Int OBVIOUS
  <2> QED BY <1>0, <2>1, DivModDef
<1> DEFINE x == 0 - r
           d == a - c
<1>2. a \in Int /\ x \in Int BY <1>0
<1>3. ((a % Size) + x) % Size = (a + x) % Size
  <2> HIDE DEF x
  <2> QED BY <1>0, <1>2, ModSum
<1>4. a + x = Size * q + d
  <2>1. PICK p \in Int : p = Size * q BY <1>0
  <2>2. c = p + r /\ r \in Int BY <1>0, <1>1, <2>1
  <2>3. a + x = p + d BY <2>2
  <2> QED BY <2>1, <2>3
<1>5. (Size * q + d) % Size = d
  <2>1. d \in 0 .. Size - 1 OBVIOUS
  <2> HIDE DEF d
  <2> QED BY <1>0, <2>1, DivModUnique
<1>6. (a % Size) + x = (a % Size) - (c % Size)
  <2>1. PICK y \in Int : y = a % Size BY <1>0, <1>2, DivModDef
  <2>2. c % Size = r /\ r \in Int BY <1>0, <1>1
  <2>3. y + x = y - r BY <2>2
  <2> QED BY <2>1, <2>2, <2>3
<1> QED BY <1>3, <1>4, <1>5, <1>6

LEMMA WaitingIs ==
    ASSUME TypeOK, RingInv
    PROVE  Waiting = [i \in 1 .. Len(accepted) - Len(consumed) |-> accepted[Len(consumed) + i].key]
<1> DEFINE A == Len(accepted)
           C == Len(consumed)
           Pos(x) == (x - BufStart) \div 2
<1>0. A \in Nat /\ C \in Nat /\ Size \in Nat \ {0} /\ BufStart \in Nat BY Sizes DEF TypeOK
<1>1. /\ A - C \in 0 .. Size - 1 /\ head = SlotAt(C) /\ tail = SlotAt(A)
      /\ \A i \in C + 1 .. A : buf[SlotAt(i - 1)] = accepted[i].key
  BY DEF RingInv
<1>2. ASSUME NEW n \in Nat PROVE Pos(SlotAt(n)) = n % Size
  <2>1. PICK r \in 0 .. Size - 1 : r = n % Size BY Rest
  <2>2. SlotAt(n) - BufStart = 2 * r BY <2>1, SlotIn
  <2>3. 2 \in Nat \ {0} /\ 0 \in 0 .. 2 - 1 /\ r \in Int BY <1>0
  <2>4. (2 * r + 0) \div 2 = r BY <2>3, DivModUnique
  <2>5. 2 * r + 0 = 2 * r BY <2>3
  <2> QED BY <2>1, <2>2, <2>4, <2>5
<1>3. Pos(head) = C % Size /\ Pos(tail) = A % Size
  <2> HIDE DEF Pos, A, C
  <2> QED BY <1>0, <1>1, <1>2
<1>4. Waiting = [i \in 1 .. (Pos(tail) - Pos(head)) % Size |->
                    buf[BufStart + 2 * ((Pos(head) + i - 1) % Size)]]
  BY SlotCount DEF Waiting
<1> HIDE DEF A, C, Pos
<1>5. (Pos(tail) - Pos(head)) % Size = A - C BY <1>0, <1>1, <1>3, WaitingCount
<1>6. ASSUME NEW i \in 1 .. A - C
      PROVE  buf[BufStart + 2 * ((Pos(head) + i - 1) % Size)] = accepted[C + i].key
  <2> DEFINE b == i - 1
             j == C + i
  <2>1. b \in Int /\ C \in Int /\ j \in C + 1 .. A /\ j - 1 = C + b BY <1>0
  <2>2. ((C % Size) + b) % Size = (C + b) % Size
    <3> HIDE DEF b
    <3> QED BY <1>0, <2>1, ModSum
  <2>3. (C % Size) + i - 1 = (C % Size) + b
    <3>1. C % Size \in Int BY <1>0, <2>1, DivModDef
    <3> QED BY <1>0, <3>1
  <2>4. BufStart + 2 * ((Pos(head) + i - 1) % Size) = SlotAt(j - 1)
    BY <1>3, <2>1, <2>2, <2>3 DEF SlotAt
  <2>5. buf[SlotAt(j - 1)] = accepted[j].key BY <1>1, <2>1
  <2> QED BY <2>4, <2>5
<1>7. Waiting = [i \in 1 .. A - C |-> accepted[C + i].key] BY <1>4, <1>5, <1>6
<1> QED BY <1>7 DEF A, C

\* What handle_code put in the buffer (kb.c:281-294) is what programs took
\* from it, followed by what is still there, for a buffer of any size and
\* however often it wraps.
THEOREM NothingLost == Spec => []Fifo
<1>1. IInv => Fifo
  <2> SUFFICES ASSUME IInv PROVE Fifo OBVIOUS
  <2> DEFINE A == Len(accepted)
             C == Len(consumed)
             R == [key : KeyCodes, at : 1 .. Len(typed)]
             s == [i \in 1 .. A |-> accepted[i].key]
             w == [i \in 1 .. A - C |-> accepted[C + i].key]
  <2>0. /\ accepted \in Seq(R) /\ consumed \in Seq(KeyCodes) /\ A \in Nat /\ C \in Nat
        /\ DOMAIN accepted = 1 .. A
    BY DEF IInv, TypeOK
  <2>1. A - C \in Nat /\ \A i \in 1 .. C : consumed[i] = accepted[i].key
    <3>1. A - C \in 0 .. Size - 1 /\ Size \in Nat BY Sizes DEF IInv, RingInv
    <3> QED BY <3>1 DEF IInv, RingInv
  <2>2. ASSUME NEW i \in 1 .. A PROVE accepted[i].key \in KeyCodes
    <3>1. accepted[i] \in R
      <4> HIDE DEF R
      <4> QED BY <2>0, ElementOfSeq
    <3> QED BY <3>1
  <2> HIDE DEF A, C, R
  <2>3. s \in Seq(KeyCodes) /\ Len(s) = A BY <2>0, <2>2
  <2>4. w \in Seq(KeyCodes) /\ Len(w) = A - C
    <3>1. \A i \in 1 .. A - C : C + i \in 1 .. A BY <2>0
    <3> QED BY <2>1, <2>2, <3>1
  <2>5. Waiting = w BY WaitingIs DEF IInv, A, C
  <2>6. /\ consumed \o w \in Seq(KeyCodes) /\ Len(consumed \o w) = C + Len(w)
        /\ \A i \in 1 .. C + Len(w) :
             (consumed \o w)[i] = IF i <= C THEN consumed[i] ELSE w[i - C]
    <3> HIDE DEF w
    <3> QED BY <2>0, <2>4, ConcatProperties DEF C
  <2>7. Len(consumed \o w) = A /\ C + Len(w) = A
    <3> HIDE DEF w
    <3> QED BY <2>0, <2>4, <2>6
  <2>8. ASSUME NEW i \in 1 .. A PROVE s[i] = (consumed \o w)[i]
    <3>1. i \in 1 .. C + Len(w) BY <2>7
    <3>2. CASE i <= C
      <4>1. i \in 1 .. C BY <2>0, <3>2
      <4> QED BY <2>1, <2>6, <3>1, <3>2, <4>1
    <3>3. CASE ~(i <= C)
      <4>1. i - C \in 1 .. A - C /\ C + (i - C) = i BY <2>0, <3>3
      <4>2. w[i - C] = accepted[i].key BY <4>1
      <4> QED BY <2>6, <3>1, <3>3, <4>2
    <3> QED BY <3>2, <3>3
  <2>9. s = consumed \o w
    <3> DEFINE t == consumed \o w
    <3>1. t \in Seq(KeyCodes) /\ Len(s) = Len(t) /\ \A i \in 1 .. Len(s) : s[i] = t[i]
      BY <2>3, <2>6, <2>7, <2>8
    <3> HIDE DEF s, t
    <3>2. s = t BY <2>3, <3>1, SeqEqual
    <3> QED BY <3>2 DEF t
  <2> QED BY <2>0, <2>5, <2>9 DEF Fifo
<1> QED BY <1>1, Inductive, PTL

\* Each scan code is handled once, in order, and means what it meant when it
\* was typed (kb.c:144-278), however far the handler is behind.
THEOREM TypedCodesKept == Spec => []AsTyped
<1>1. IInv => AsTyped
  <2>1. TypedIn(accepted, dropped, typed, handled) => AsTyped
    BY DEF TypedIn, AsTyped, MeantIn, Meant, CapitalIn, Capital, HeldIn, HeldBefore, LastIn, LastCode,
           OnIn, OnBefore, Downs
  <2> QED BY <2>1 DEF IInv
<1> QED BY <1>1, Inductive, PTL

\* Whenever no scan code is on its way, bda.kb_stat1 and bda.kb_stat2 show
\* the Shift and lock keys that are held and the locks that are on
\* (kb.c:100-117, 212-248).
THEOREM FlagsShown == Spec => []StatusShown
<1>1. IInv => StatusShown
  <2> SUFFICES ASSUME IInv, handled = Len(typed) PROVE StatusShown BY DEF StatusShown
  <2>1. \A k : OnBefore(k, handled + 1) <=> OnIn(typed, k, handled + 1)
    BY DEF OnBefore, OnIn, Downs
  <2>2. ASSUME NEW k \in {"LSHFT", "RSHFT"} PROVE k \in stat1 <=> k \in held
    BY DEF IInv, StatInv, HeldInv, Modifiers
  <2>3. ASSUME NEW k \in Locks
        PROVE  /\ k \in stat2 <=> k \in held
               /\ Active(k) \in stat1 <=> OnBefore(k, handled + 1)
    BY <2>1 DEF IInv, StatInv, HeldInv
  <2> QED BY <2>2, <2>3 DEF StatusShown
<1> QED BY <1>1, Inductive, PTL
-----------------------------------------------------------------------------
(***************************************************************************)
(* The timer and the real-time clock.  NotTorn is not inductive: that two  *)
(* equal readings are a time the clock did show rests on what each         *)
(* register held while the clock may have moved on, once, at any moment of *)
(* the round (ReadingsInv).                                                *)
(***************************************************************************)
InRound == tpc \in {"poll", "sec", "min", "hr", "got", "compare"}

\* The clock moves on at most once in a round.
UpdateInv == uip => updates = 0

\* The registers that the reading under way has filled are the clock's.
SoFar ==
    /\ tpc = "min" => dx = rtc.sec
    /\ tpc = "hr" => dx = rtc.sec /\ min = rtc.min
    /\ tpc \in {"got", "compare"} => dx = rtc.sec /\ cx = [hr |-> rtc.hr, min |-> rtc.min]

\* The first reading, which ax and bx hold, is one time that the clock showed.
FirstWhole == \E o \in shown : ax = [hr |-> o.hr, min |-> o.min] /\ bx = o.sec

\* Of the two readings one is whole: the first, if the clock had not moved on
\* by its end, else the second.
ReadingsInv ==
    InRound /\ ~late =>
        /\ ~second => (updates = 0 => SoFar)
        /\ second => FirstWhole \/ (updates = 1 /\ SoFar)
        /\ tpc = "compare" => second

\* The time that the clock shows now is among those it showed in the round.
ShownInv == InRound \/ tpc = "diag" => rtc \in shown

TimeIInv == TimeTypeOK /\ UpdateInv /\ MidnightsAddUp /\ ShownInv /\ ReadingsInv

-----------------------------------------------------------------------------
\* The tick count stays below a day.
LEMMA TickStep == TickType /\ [TimeNext]_timeVars => TickType'
<1> SUFFICES ASSUME TickType, [TimeNext]_timeVars PROVE TickType'
  OBVIOUS
<1> USE TimeAssumption
<1>0. Day \in Nat BY DEF Day
<1>1. CASE Irq0
  <2>1. (timer_ovf + 1) % OvfMod \in 0 .. OvfMod - 1
    <3>1. timer_ovf + 1 \in Int BY DEF TickType
    <3> QED BY <3>1, DivModDef
  <2> QED BY <1>0, <1>1, <2>1 DEF Irq0, EndsDay, TickType
<1>2. CASE GetTicks
  <2>1. (seen + timer_ovf) % OvfMod \in 0 .. OvfMod - 1
    <3>1. seen + timer_ovf \in Int BY DEF TickType
    <3> QED BY <3>1, DivModDef
  <2> QED BY <1>2, <2>1 DEF GetTicks, TickType
<1>3. ASSUME NEW hi \in 0 .. DayHi + 1, NEW lo \in 0 .. Word - 1, SetTicks(hi, lo)
      PROVE  TickType'
  <2>1. LessThanDay(hi, lo) => hi * Word + lo \in 0 .. Day - 1
    <3>1. SUFFICES ASSUME LessThanDay(hi, lo) PROVE hi * Word + lo \in 0 .. Day - 1
      OBVIOUS
    <3>2. hi * Word \in Nat /\ DayHi * Word \in Nat OBVIOUS
    <3>3. CASE hi = DayHi /\ lo < DayLo BY <3>3, <3>2 DEF Day
    <3>4. CASE hi < DayHi
      <4>1. PICK d \in Nat : DayHi = hi + 1 + d
        <5>1. DayHi - (hi + 1) \in Nat BY <3>4
        <5> QED BY <5>1
      <4>2. DayHi * Word = hi * Word + Word + d * Word BY <4>1
      <4>3. d * Word \in Nat BY <4>1
      <4> QED BY <4>2, <4>3, <3>2 DEF Day
    <3> QED BY <3>1, <3>3, <3>4 DEF LessThanDay
  <2> QED BY <1>3, <2>1 DEF SetTicks, TickType
<1>4. CASE UNCHANGED tickVars BY <1>4 DEF tickVars, TickType
<1> QED BY <1>1, <1>2, <1>3, <1>4
    DEF TimeNext, Cpu, Rtc, Caller, Astray, timeVars, CallRtc, IsRtcOk, Poll, ReadSec, ReadMin,
        ReadHr, Got, Compare, Retf, RtcStarts, RtcUpdates

\* The clock's next time is a time.
LEMMA LaterType == ASSUME NEW t \in Clocks PROVE Later(t) \in Clocks
<1> USE TimeAssumption
<1>1. t.hr + 1 \in Int BY DEF Clocks
<1>2. (t.hr + 1) % Hours \in 0 .. Hours - 1 BY <1>1, DivModDef
<1>3. CASE t.sec + 1 < Seconds
  <2>1. Later(t) = [hr |-> t.hr, min |-> t.min, sec |-> t.sec + 1] BY <1>3 DEF Later, Clocks
  <2>2. t.sec + 1 \in 0 .. Seconds - 1 BY <1>3 DEF Clocks
  <2> QED BY <2>1, <2>2 DEF Clocks
<1>4. CASE ~(t.sec + 1 < Seconds) /\ t.min + 1 < Minutes
  <2>1. Later(t) = [hr |-> t.hr, min |-> t.min + 1, sec |-> 0] BY <1>4 DEF Later, Clocks
  <2>2. t.min + 1 \in 0 .. Minutes - 1 BY <1>4 DEF Clocks
  <2> QED BY <2>1, <2>2 DEF Clocks
<1>5. CASE ~(t.sec + 1 < Seconds) /\ ~(t.min + 1 < Minutes)
  <2>1. Later(t) = [hr |-> (t.hr + 1) % Hours, min |-> 0, sec |-> 0] BY <1>5 DEF Later
  <2> QED BY <2>1, <1>2 DEF Clocks
<1> QED BY <1>3, <1>4, <1>5

\* The clock keeps its type and moves on at most once in a round.
LEMMA ClockStep == ClockType /\ UpdateInv /\ [TimeNext]_timeVars => ClockType' /\ UpdateInv'
<1> SUFFICES ASSUME ClockType, UpdateInv, [TimeNext]_timeVars PROVE ClockType' /\ UpdateInv'
  OBVIOUS
<1>1. CASE RtcStarts BY <1>1 DEF RtcStarts, ClockType, UpdateInv
<1>2. CASE RtcUpdates
  <2>1. rtc' \in Clocks BY <1>2, LaterType DEF RtcUpdates, ClockType
  <2>2. updates' = 1 /\ uip' = FALSE BY <1>2 DEF RtcUpdates, UpdateInv
  <2>3. shown' \subseteq Clocks BY <1>2, <2>1 DEF RtcUpdates, ClockType
  <2>4. diag_ok' \in BOOLEAN /\ broken' \in BOOLEAN BY <1>2 DEF RtcUpdates, ClockType
  <2>5. updates' \in 0 .. 1 BY <2>2
  <2>6. uip' \in BOOLEAN /\ UpdateInv' BY <2>2, Zenon DEF UpdateInv
  <2> QED BY <2>1, <2>3, <2>4, <2>5, <2>6 DEF ClockType
<1>3. CASE CallRtc \/ Compare BY <1>3 DEF CallRtc, Compare, ClockType, UpdateInv
<1>4. CASE UNCHANGED <<rtcVars, diag_ok, broken>>
  BY <1>4 DEF rtcVars, ClockType, UpdateInv
<1> QED BY <1>1, <1>2, <1>3, <1>4
    DEF TimeNext, Cpu, Rtc, Caller, Astray, timeVars, Irq0, GetTicks, SetTicks, IsRtcOk, Poll,
        ReadSec, ReadMin, ReadHr, Got, Retf

\* What is pushed and popped.
LEMMA StackWords ==
    ASSUME NEW S, NEW s \in Seq(S)
    PROVE  /\ Front(s) \in Seq(S)
           /\ SubSeq(s, 1, Len(s) - 2) \in Seq(S)
<1>1. Len(s) \in Nat /\ \A n \in 1 .. Len(s) : s[n] \in S BY LenProperties, ElementOfSeq
<1>2. ASSUME NEW n \in Int, n =< Len(s) PROVE SubSeq(s, 1, n) \in Seq(S)
  <2>1. \A m \in 1 .. n : s[m] \in S BY <1>1, <1>2
  <2> QED BY <2>1, SubSeqProperties
<1>3. Len(s) - 1 \in Int /\ Len(s) - 2 \in Int BY <1>1
<1> QED BY <1>1, <1>2, <1>3 DEF Front

\* The stack and the registers keep their types.
LEMMA RtcCallStep == CallType /\ ClockType /\ [TimeNext]_timeVars => CallType'
<1> SUFFICES ASSUME CallType, ClockType, [TimeNext]_timeVars PROVE CallType'
  OBVIOUS
<1> USE TimeAssumption DEF Phases
<1> DEFINE Words == {"flags", "cs", "ip", "si", "ax", "bx"}
<1>0. /\ rtc.sec \in 0 .. Seconds - 1 /\ rtc.min \in 0 .. Minutes - 1
      /\ [hr |-> rtc.hr, min |-> min] \in HourMins
  BY DEF ClockType, Clocks, CallType, HourMins
<1>1. CASE CallRtc
  <2>1. stack' \in Seq(Words) BY <1>1 DEF CallRtc
  <2>2. late' \in BOOLEAN /\ tpc' \in Phases BY <1>1 DEF CallRtc
  <2> QED BY <1>1, <2>1, <2>2 DEF CallRtc, regVars, CallType
<1>2. CASE IsRtcOk
  <2>1. stack \o Saved \in Seq(Words) /\ Front(stack) \in Seq(Words)
    <3>1. Saved \in Seq(Words) BY DEF Saved
    <3>2. stack \in Seq(Words) BY DEF CallType
    <3> QED BY <3>1, <3>2, ConcatProperties, StackWords
  <2>2. stack' \in Seq(Words) /\ tpc' \in Phases BY <1>2, <2>1 DEF IsRtcOk
  <2>3. second' \in BOOLEAN /\ late' \in BOOLEAN BY <1>2 DEF IsRtcOk, CallType
  <2>4. si' \in 0 .. Tries - 1 /\ polls' \in 0 .. Polls - 1 BY <1>2 DEF IsRtcOk, CallType
  <2> QED BY <1>2, <2>2, <2>3, <2>4 DEF IsRtcOk, regVars, CallType
<1>3. CASE Poll
  <2>1. tpc' \in Phases /\ late' \in BOOLEAN BY <1>3 DEF Poll, CallType
  <2>2. polls' \in 0 .. Polls - 1 BY <1>3 DEF Poll, CallType
  <2> QED BY <1>3, <2>1, <2>2 DEF Poll, regVars, CallType
<1>4. CASE ReadSec BY <1>0, <1>4 DEF ReadSec, loopVars, CallType
<1>5. CASE ReadMin BY <1>0, <1>5 DEF ReadMin, loopVars, CallType
<1>6. CASE ReadHr BY <1>0, <1>6 DEF ReadHr, loopVars, CallType
<1>7. CASE Got
  <2>1. tpc' \in Phases /\ second' \in BOOLEAN BY <1>7 DEF Got, CallType
  <2>2. polls' \in 0 .. Polls - 1 BY <1>7 DEF Got
  <2>3. ax' \in HourMins /\ cx' \in HourMins /\ bx' \in 0 .. Seconds - 1
    BY <1>7 DEF Got, CallType
  <2> QED BY <1>7, <2>1, <2>2, <2>3 DEF Got, CallType
<1>8. CASE Compare
  <2>1. (si - 1) % Tries \in 0 .. Tries - 1
    <3>1. si - 1 \in Int BY DEF CallType
    <3> QED BY <3>1, DivModDef
  <2>2. si' \in 0 .. Tries - 1 BY <1>8, <2>1 DEF Compare, CallType
  <2>3. stack' \in Seq(Words) /\ tpc' \in Phases
    <3>1. stack \in Seq(Words) BY DEF CallType
    <3>2. SubSeq(stack, 1, Len(stack) - 2) \in Seq(Words) BY <3>1, StackWords
    <3>3. Front(SubSeq(stack, 1, Len(stack) - 2)) \in Seq(Words) BY <3>2, StackWords
    <3> QED BY <1>8, <3>1, <3>2, <3>3 DEF Compare
  <2>4. second' \in BOOLEAN BY <1>8 DEF Compare
  <2> QED BY <1>8, <2>2, <2>3, <2>4 DEF Compare, regVars, CallType
<1>9. CASE Retf
  <2>1. stack' \in Seq(Words) /\ tpc' \in Phases
    <3>1. << >> \in Seq(Words) BY EmptySeq
    <3> QED BY <1>9, <3>1 DEF Retf, CallType
  <2> QED BY <1>9, <2>1 DEF Retf, regVars, CallType
<1>10. CASE UNCHANGED <<tpc, regVars, loopVars>>
  BY <1>10 DEF regVars, loopVars, CallType
<1> QED BY <1>1, <1>2, <1>3, <1>4, <1>5, <1>6, <1>7, <1>8, <1>9, <1>10
    DEF TimeNext, Cpu, Rtc, Caller, Astray, timeVars, Irq0, GetTicks, SetTicks, RtcStarts, RtcUpdates

-----------------------------------------------------------------------------
\* Midnights are neither lost nor told twice.
LEMMA MidnightStep ==
    TickType /\ MidnightsAddUp /\ [TimeNext]_timeVars => MidnightsAddUp'
<1> SUFFICES ASSUME TickType, MidnightsAddUp, [TimeNext]_timeVars PROVE MidnightsAddUp'
  OBVIOUS
<1>0. /\ OvfMod \in Nat \ {0}
      /\ seen \in Int /\ timer_ovf \in Int /\ days \in Int
  BY TimeAssumption DEF TickType
<1>1. CASE Irq0
  <2>1. CASE EndsDay(timer + 1)
    <3>1. timer_ovf' = (timer_ovf + 1) % OvfMod /\ days' = days + 1 /\ seen' = seen
      BY <1>1, <2>1 DEF Irq0
    <3>2. (((timer_ovf + 1) % OvfMod) + seen) % OvfMod = (timer_ovf + 1 + seen) % OvfMod
      <4>1. timer_ovf + 1 \in Int BY <1>0
      <4> QED BY <4>1, <1>0, ModSum
    <3>3. (seen + timer_ovf + 1) % OvfMod = (((seen + timer_ovf) % OvfMod) + 1) % OvfMod
      <4>1. seen + timer_ovf \in Int /\ 1 \in Int BY <1>0
      <4> QED BY <4>1, <1>0, ModSum
    <3>4. (days + 1) % OvfMod = ((days % OvfMod) + 1) % OvfMod
      <4>1. days \in Int /\ 1 \in Int BY <1>0
      <4> QED BY <4>1, <1>0, ModSum
    <3>5. timer_ovf + 1 + seen = seen + timer_ovf + 1 BY <1>0
    <3>6. seen + ((timer_ovf + 1) % OvfMod) = ((timer_ovf + 1) % OvfMod) + seen
      <4>1. (timer_ovf + 1) % OvfMod \in Int BY <1>0, DivModDef
      <4> QED BY <4>1, <1>0
    <3> QED BY <3>1, <3>2, <3>3, <3>4, <3>5, <3>6 DEF MidnightsAddUp
  <2>2. CASE ~EndsDay(timer + 1) BY <1>1, <2>2 DEF Irq0, MidnightsAddUp
  <2> QED BY <2>1, <2>2
<1>2. CASE GetTicks
  <2>1. seen' = (seen + timer_ovf) % OvfMod /\ timer_ovf' = 0 /\ days' = days
    BY <1>2 DEF GetTicks
  <2>2. (((seen + timer_ovf) % OvfMod) + 0) % OvfMod = (seen + timer_ovf + 0) % OvfMod
    <3>1. seen + timer_ovf \in Int /\ 0 \in Int BY <1>0
    <3> QED BY <3>1, <1>0, ModSum
  <2>3. seen + timer_ovf + 0 = seen + timer_ovf BY <1>0
  <2> QED BY <2>1, <2>2, <2>3 DEF MidnightsAddUp
<1>3. CASE UNCHANGED <<timer_ovf, days, seen>> BY <1>3 DEF MidnightsAddUp
<1> QED BY <1>1, <1>2, <1>3
    DEF TimeNext, Cpu, Rtc, Caller, Astray, timeVars, tickVars, SetTicks, CallRtc, IsRtcOk, Poll,
        ReadSec, ReadMin, ReadHr, Got, Compare, Retf, RtcStarts, RtcUpdates

-----------------------------------------------------------------------------
\* What a step of function 0x02 or of the clock does to the readings.
LEMMA ReadingsStep ==
    ClockType /\ UpdateInv /\ ShownInv /\ ReadingsInv /\ [TimeNext]_timeVars
        => ShownInv' /\ ReadingsInv'
<1> SUFFICES ASSUME ClockType, UpdateInv, ShownInv, ReadingsInv, [TimeNext]_timeVars
             PROVE  ShownInv' /\ ReadingsInv'
  OBVIOUS
<1> USE DEF InRound
<1>1. CASE RtcUpdates
  <2>1. /\ updates = 0 /\ updates' = 1 /\ tpc' = tpc /\ second' = second /\ late' = late
        /\ ax' = ax /\ bx' = bx /\ shown \subseteq shown' /\ rtc' \in shown'
    BY <1>1 DEF RtcUpdates, UpdateInv, regVars, loopVars
  <2>2. FirstWhole => FirstWhole' BY <2>1 DEF FirstWhole
  <2>3. updates' # 0 /\ updates # 1 BY <2>1
  <2> QED BY <2>1, <2>2, <2>3, Zenon DEF ShownInv, ReadingsInv
<1>2. CASE CallRtc
  <2>1. tpc' = "diag" /\ rtc' = rtc /\ shown' = {rtc} BY <1>2 DEF CallRtc
  <2> QED BY <2>1 DEF ShownInv, ReadingsInv
<1>3. CASE IsRtcOk
  <2>1. tpc = "diag" /\ rtc' = rtc /\ shown' = shown BY <1>3 DEF IsRtcOk, rtcVars
  <2>2. tpc' = "retf" \/ (tpc' = "poll" /\ second' = FALSE) BY <1>3 DEF IsRtcOk
  <2>3. tpc' = "poll" => SoFar' BY DEF SoFar
  <2> QED BY <2>1, <2>2, <2>3 DEF ShownInv, ReadingsInv
<1>4. CASE Poll
  <2>1. /\ tpc = "poll" /\ rtc' = rtc /\ shown' = shown /\ second' = second
        /\ updates' = updates /\ ax' = ax /\ bx' = bx
    BY <1>4 DEF Poll, rtcVars, regVars
  <2>2. (tpc' \in {"poll", "sec"} /\ late' = late) \/ (tpc' = "got" /\ late')
    BY <1>4 DEF Poll
  <2>3. tpc' \in {"poll", "sec"} => SoFar' BY DEF SoFar
  <2>4. SoFar BY <2>1 DEF SoFar
  <2>5. FirstWhole => FirstWhole' BY <2>1 DEF FirstWhole
  <2>6. ShownInv' BY <2>1, <2>2 DEF ShownInv
  <2>7. CASE tpc' \in {"poll", "sec"} /\ late' = late
    BY <2>1, <2>3, <2>4, <2>5, <2>6, <2>7 DEF ReadingsInv
  <2> QED BY <2>2, <2>6, <2>7 DEF ReadingsInv
<1>5. CASE ReadSec \/ ReadMin \/ ReadHr
  <2>1. /\ rtc' = rtc /\ shown' = shown /\ second' = second /\ late' = late
        /\ updates' = updates /\ ax' = ax /\ bx' = bx
        /\ tpc \in {"sec", "min", "hr"} /\ tpc' \in {"min", "hr", "got"}
    BY <1>5 DEF ReadSec, ReadMin, ReadHr, rtcVars, loopVars
  <2>2. SoFar => SoFar' BY <1>5, <2>1 DEF SoFar, ReadSec, ReadMin, ReadHr
  <2>3. FirstWhole => FirstWhole' BY <2>1 DEF FirstWhole
  <2>4. ShownInv' BY <2>1 DEF ShownInv
  <2>5. ReadingsInv' BY <2>1, <2>2, <2>3 DEF ReadingsInv
  <2> QED BY <2>4, <2>5
<1>6. CASE Got
  <2>1. tpc = "got" /\ rtc' = rtc /\ shown' = shown /\ updates' = updates /\ late' = late
    BY <1>6 DEF Got, rtcVars
  <2>2. ShownInv' BY <1>6, <2>1 DEF Got, ShownInv
  <2>3. CASE second
    <3>1. /\ tpc' = "compare" /\ second' = second /\ ax' = ax /\ bx' = bx /\ cx' = cx /\ dx' = dx
      BY <1>6, <2>3 DEF Got
    <3>2. FirstWhole => FirstWhole' BY <2>1, <3>1 DEF FirstWhole
    <3>3. SoFar => SoFar' BY <2>1, <3>1 DEF SoFar
    <3> QED BY <2>1, <2>2, <2>3, <3>1, <3>2, <3>3 DEF ReadingsInv
  <2>4. CASE ~second
    <3>1. tpc' = "poll" /\ second' = TRUE /\ ax' = cx /\ bx' = dx BY <1>6, <2>4 DEF Got
    <3>2. SoFar' BY <3>1 DEF SoFar
    <3>3. updates = 0 \/ updates = 1 BY DEF ClockType
    <3>4. SoFar => FirstWhole'
      BY <2>1, <3>1 DEF SoFar, FirstWhole, ShownInv
    <3> QED BY <2>1, <2>2, <2>4, <3>1, <3>2, <3>3, <3>4 DEF ReadingsInv
  <2> QED BY <2>3, <2>4
<1>7. CASE Compare
  <2>1. tpc = "compare" /\ tpc' \in {"poll", "retf"} /\ second' = FALSE /\ rtc' = rtc /\ shown' = {rtc}
    BY <1>7 DEF Compare
  <2>2. tpc' = "poll" => SoFar' BY DEF SoFar
  <2> QED BY <2>1, <2>2 DEF ShownInv, ReadingsInv
<1>8. CASE Retf BY <1>8 DEF Retf, ShownInv, ReadingsInv
<1>9. CASE UNCHANGED <<tpc, rtc, updates, shown, regVars, loopVars>>
  BY <1>9 DEF regVars, loopVars, ShownInv, ReadingsInv, FirstWhole, SoFar
<1> QED BY <1>1, <1>2, <1>3, <1>4, <1>5, <1>6, <1>7, <1>8, <1>9
    DEF TimeNext, Cpu, Rtc, Caller, Astray, timeVars, rtcVars, Irq0, GetTicks, SetTicks, RtcStarts

-----------------------------------------------------------------------------
LEMMA TimeInitIInv == TimeInit => TimeIInv
<1> SUFFICES ASSUME TimeInit PROVE TimeIInv
  OBVIOUS
<1> USE TimeAssumption
<1>1. TickType
  <2>1. Day \in Nat /\ Day >= 1
    <3>1. DayHi * Word \in Nat OBVIOUS
    <3>2. CASE DayHi = 0 BY <3>2 DEF Day
    <3>3. CASE DayHi # 0
      <4>1. PICK d \in Nat : DayHi = 1 + d
        <5>1. DayHi - 1 \in Nat BY <3>3
        <5> QED BY <5>1
      <4>2. DayHi * Word = Word + d * Word BY <4>1
      <4>3. d * Word \in Nat BY <4>1
      <4> QED BY <4>2, <4>3 DEF Day
    <3> QED BY <3>2, <3>3
  <2> QED BY <2>1 DEF TimeInit, TickType
<1>2. ClockType
  <2>1. updates \in 0 .. 1 /\ shown \subseteq Clocks /\ rtc \in Clocks BY DEF TimeInit
  <2>2. uip \in BOOLEAN /\ diag_ok \in BOOLEAN /\ broken \in BOOLEAN BY DEF TimeInit
  <2> QED BY <2>1, <2>2 DEF ClockType
<1>3. CallType
  <2>1. stack \in Seq({"flags", "cs", "ip", "si", "ax", "bx"}) BY EmptySeq DEF TimeInit
  <2>2. second \in BOOLEAN /\ late \in BOOLEAN /\ tpc \in Phases BY DEF TimeInit, Phases
  <2>3. /\ si \in 0 .. Tries - 1 /\ polls \in 0 .. Polls - 1 /\ min \in 0 .. Minutes - 1
        /\ bx \in 0 .. Seconds - 1 /\ dx \in 0 .. Seconds - 1
    BY DEF TimeInit
  <2>4. ax \in HourMins /\ cx \in HourMins BY DEF TimeInit, HourMins
  <2> QED BY <2>1, <2>2, <2>3, <2>4 DEF CallType
<1>4. UpdateInv BY DEF TimeInit, UpdateInv
<1>5. MidnightsAddUp BY DEF TimeInit, MidnightsAddUp
<1>6. ShownInv /\ ReadingsInv BY DEF TimeInit, ShownInv, ReadingsInv, InRound
<1> QED BY <1>1, <1>2, <1>3, <1>4, <1>5, <1>6 DEF TimeIInv, TimeTypeOK

\* The inductive invariant holds in every state.
THEOREM TimeInductive == TimeSpec => []TimeIInv
<1>1. TimeIInv /\ [TimeNext]_timeVars => TimeIInv'
  BY TickStep, ClockStep, RtcCallStep, MidnightStep, ReadingsStep DEF TimeIInv, TimeTypeOK
<1> QED BY TimeInitIInv, <1>1, PTL DEF TimeSpec

\* Every variable keeps its type: the tick count that IRQ 0 and functions 0x00
\* and 0x01 work on is always less than a day (time.asm:42-56, 81-92).
THEOREM TimeTypeCorrect == TimeSpec => []TimeTypeOK
<1>1. TimeIInv => TimeTypeOK BY DEF TimeIInv
<1> QED BY TimeInductive, <1>1, PTL

\* No midnight is lost or told twice, for any number of days and calls, up to
\* the size of the overflow byte (time.asm:54, 74-75).
THEOREM MidnightsCorrect == TimeSpec => []MidnightsAddUp
<1>1. TimeIInv => MidnightsAddUp BY DEF TimeIInv
<1> QED BY TimeInductive, <1>1, PTL

\* Whenever the clock moves on during the six register reads of function 0x02,
\* two readings that agree are a time that it did show (time.asm:105-124).
THEOREM ReadingsNotTorn == TimeSpec => []NotTorn
<1>1. TimeIInv => NotTorn
  <2>1. SUFFICES ASSUME TimeIInv, tpc = "compare", Agrees, ~late
                 PROVE  [hr |-> cx.hr, min |-> cx.min, sec |-> dx] \in shown
    BY DEF NotTorn
  <2>2. rtc \in shown /\ shown \subseteq Clocks
    BY <2>1 DEF TimeIInv, TimeTypeOK, ClockType, ShownInv, InRound
  <2>3. FirstWhole \/ SoFar BY <2>1 DEF TimeIInv, ReadingsInv, InRound
  <2>4. \A o \in Clocks : [hr |-> o.hr, min |-> o.min, sec |-> o.sec] = o BY DEF Clocks
  <2>5. CASE FirstWhole
    <3>1. PICK o \in shown : cx = [hr |-> o.hr, min |-> o.min] /\ dx = o.sec
      BY <2>1, <2>5 DEF FirstWhole, Agrees
    <3> QED BY <2>2, <2>4, <3>1
  <2>6. CASE SoFar BY <2>1, <2>2, <2>4, <2>6 DEF SoFar
  <2> QED BY <2>3, <2>5, <2>6
<1> QED BY TimeInductive, <1>1, PTL
=============================================================================
