-------------------------------- MODULE MCKb --------------------------------
(***************************************************************************)
(* Kb with key codes from the tables of kb.c and a buffer of 3 words where *)
(* the real one begins.                                                    *)
(***************************************************************************)
EXTENDS Kb

\* The letter Q (0x10) and 7 on the keypad (0x47).
MCKeyMap ==
    [plain |-> [Q |-> 4209, KP7 |-> 18176],     \* 0x1071, 0x4700
     shift |-> [Q |-> 4177, KP7 |-> 18231],     \* 0x1051, 0x4737
     ctl   |-> [Q |-> 4113, KP7 |-> 30464],     \* 0x1011, 0x7700
     alt   |-> [Q |-> 4096, KP7 |-> 38656]]     \* 0x1000, 0x9700
=============================================================================
