---------------------------- MODULE MCOptionRoms ----------------------------
(***************************************************************************)
(* Small option ROMs: 8 bytes stand for 0x200, and base memory has room    *)
(* for a few images.                                                       *)
(***************************************************************************)
EXTENDS OptionRoms

\* An image that is in order, `len' long, for devices with the id. and class.
Img(type, rev, len, rt, id, class, ids, last) ==
    [sig |-> TRUE, off |-> 2, psig |-> TRUE, psz |-> 3, len |-> len, legacy |-> len,
     sum |-> TRUE, type |-> type, rev |-> rev, id |-> id, class |-> class,
     ids |-> ids, ends |-> TRUE, last |-> last, rt |-> rt]

Old(last) == Img("pcat", 2, 1, 0, 1, Vga, << >>, last)
New(last) == Img("pcat", 3, 1, 2, 1, Vga, <<2, 1>>, last)
Efi(last) == Img("efi", 3, 1, 1, 1, Vga, << >>, last)
Same == Img("pcat", 3, 2, 2, 2, Xga, <<4>>, TRUE)
Endless == [Same EXCEPT !.ends = FALSE]
Bad == [Old(TRUE) EXCEPT !.sum = FALSE]
SomeImages == {Old(FALSE), Old(TRUE), New(FALSE), New(TRUE), Efi(TRUE), Same, Bad}

\* A section as long as its images, or cut off within the last one.
Section(imgs, cut) ==
    [imgs |-> imgs, size |-> FoldLeft(LAMBDA n, i : n + i.len * HKib, 0, imgs) - cut]
File(kind, sections) == [kind |-> kind, sections |-> sections]

MCFileLists ==
    {<<File("plain", <<Section(imgs, cut)>>)>> :
        imgs \in BoundedSeq(SomeImages, 2) \ {<< >>}, cut \in {0, 1}}
    \cup {<<File(kind, <<Section(<<New(TRUE)>>, 0)>>),
            File("plain", <<Section(<<Old(FALSE), Efi(FALSE), New(FALSE), Old(TRUE), Same>>, 0),
                            Section(<<Endless, Same>>, 0)>>)>> :
            kind \in {"pad", "volume", "closed", "plain"}}
    \cup {<< >>}

NoRom == [rom |-> NoImage, rom_sz |-> 0, rom_at |-> 0]
Rom(img, at) == [rom |-> img, rom_sz |-> img.len * HKib, rom_at |-> at]
Dev(id, class, decoding, rom) ==
    [general |-> TRUE, id |-> id, class |-> class, decodes |-> decoding,
     supports |-> {"MEM", "IO", "IO16"},
     rom |-> rom.rom, rom_sz |-> rom.rom_sz, rom_at |-> rom.rom_at]

Card == Dev(1, Vga, FALSE, NoRom)
Card2 == Dev(2, Xga, FALSE, NoRom)
Net == [Dev(2, 5, FALSE, NoRom) EXCEPT !.supports = {}]
Vbox == Dev(VboxId, Vga, TRUE, NoRom)
Bridge == [Net EXCEPT !.general = FALSE]
\* With ROMs of their own: copied; left below 1 MiB; moved there; for EFI; and
\* one longer than 1 MiB, at an address whose segment comes out as 0.
Copied == Dev(3, 5, FALSE, Rom(Img("pcat", 2, 1, 0, 3, 5, << >>, TRUE), BmemMax + 3))
Staying == Dev(1, Vga, FALSE, Rom(Img("pcat", 3, 2, 1, 1, Vga, << >>, TRUE), 96))
Moved == Dev(2, Xga, FALSE, Rom(Img("pcat", 3, 1, 0, 2, Xga, << >>, TRUE), BmemMax))
ForEfi == Dev(1, Vga, FALSE, Rom(Efi(TRUE), BmemMax))
Huge == Dev(1, Vga, FALSE,
            Rom(Img("pcat", 3, 1 + BmemMax \div HKib, 1, 1, Vga, << >>, TRUE), 2 * BmemMax))

MCDevLists ==
    {<<Card, Card2>>, <<Card2, Net, Card>>, <<Bridge, Card, Card>>, <<Vbox, Card2>>,
     <<Copied, Staying, Card2>>, <<Moved, ForEfi>>, <<Huge, Copied>>, <<Copied, Copied, Copied, Vbox>>, <<Copied, Copied, Copied, Card>>,
     <<Copied, Copied, Copied, Copied>>,
     <<Net>>,
     <<[Card EXCEPT !.supports = {"MEM"}]>>}

MCShadows ==
    {NoImage, [NoImage EXCEPT !.sig = TRUE, !.legacy = 2, !.sum = TRUE],
     Img("pcat", 3, 1, 2, VboxId, Vga, << >>, TRUE)}
=============================================================================
