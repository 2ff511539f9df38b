---------------------------- MODULE MCStage1Main ----------------------------
(***************************************************************************)
(* Stage1Main on nine pages of 2 bytes, two of them base memory; 4 GiB is  *)
(* at page 7, and the BIOS data area is page 0, whose second byte the      *)
(* trampoline sets.                                                        *)
(***************************************************************************)
EXTENDS Stage1Main

M(s) == [p \in Pages |-> s[p + 1]]
C == "Conventional"
\* Memory across the 1 MiB mark, and up to the end of the address space.
MCStartMaps ==
    {M(<<"BootServicesData", C, C, C, C, C, "ACPIReclaim", "none", "Mmio">>),
     M(<<C, "Mmio", C, C, C, "ACPINVS", C, C, "Persistent">>)}

Seg(o, a, f, m) == [load |-> TRUE, off |-> o, paddr |-> a, filesz |-> f, memsz |-> m]
Note == [load |-> FALSE, off |-> 0, paddr |-> 0, filesz |-> 2, memsz |-> 2]
Elf(l, hs) == [elf |-> TRUE, len |-> l, phdrs |-> hs]

\* Segments that start within a page, with and without file contents.
Good == Elf(9, <<Note, Seg(3, 5, 2, 3), Seg(0, 8, 0, 1)>>)
\* A segment at address 0, the end of which is above the BIOS data area.
Low == Elf(9, <<Seg(2, 0, 3, 4)>>)
\* A second segment in the way of the first; one that is larger in the file.
Clash == Elf(9, <<Seg(4, 4, 2, 4), Seg(6, 6, 2, 2)>>)
TooLong == Elf(9, <<Seg(4, 4, 2, 2), Seg(6, 6, 1, 2), Seg(0, 8, 3, 2)>>)
\* Contents past the end of the file, and before its start.
Short == Elf(4, <<Seg(3, 4, 2, 2)>>)
Before == Elf(9, <<Seg(0, 5, 2, 2)>>)
Many == Elf(9, <<Note, Note, Note, Note>>)
NotElf == [elf |-> FALSE, len |-> 9, phdrs |-> <<Seg(4, 4, 2, 4)>>]

MCDisks ==
    {<<Good, NotElf, Clash>>, <<NoFile, NoFile, Good>>, <<NoFile, TooLong, Good>>,
     <<NoFile, NoFile, NoFile>>}
    \cup {<<f, NoFile, NoFile>> : f \in {Low, Clash, Short, Before, Many, NotElf}}
=============================================================================
