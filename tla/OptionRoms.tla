----------------------------- MODULE OptionRoms -----------------------------
(***************************************************************************)
(* Option ROM images, from the firmware to the call in real mode.          *)
(*                                                                         *)
(* stage1/fv.c goes through the files of the firmware volumes, chooses an  *)
(* image from each option ROM it finds there and caches it in a hash table *)
(* under the devices it is for.  stage1/pci.c goes through the PCI         *)
(* devices, finds an image for each, places it in base memory, and picks   *)
(* the display controller.  stage2/main.c then calls the images.           *)
(*                                                                         *)
(* An image is abstracted to its header fields, in bytes, and the fields   *)
(* of its PCI Data Structure; HKib stands for the 0x200 bytes in which its *)
(* length is given.  One step per image, hash table entry, way to get an   *)
(* image, or device; "error" is stage 1's error().                         *)
(***************************************************************************)
EXTENDS Integers, Sequences, FiniteSets, FiniteSetsExt, SequencesExt

CONSTANTS
    HKib,       \* HKIBYTE
    PcirMin,    \* PCIR_MIN_SZ
    MaxOrom,    \* MAX_OROM_SZ
    Buckets,    \* HASH_BUCKETS
    NodeSize,   \* boot-time memory for the parameter of one device
    Align,      \* 2 * KIBYTE, the alignment of an image that runs in place
    BmemMax,    \* BMEM_MAX_ADDR
    BaseBot, BaseTop,   \* the block of base memory that bmem.c allocates from
    VboxId,     \* the PCI id. of VirtualBox's graphics card
    FileLists,  \* what the firmware volumes may hold: sequences of files
    DevLists,   \* what PCI devices there may be: sequences of devices
    Shadows     \* what there may be at 0xc0000: an image or NoImage

NoImage == [sig |-> FALSE, off |-> 0, psig |-> FALSE, psz |-> 0, len |-> 0,
            legacy |-> 0, sum |-> FALSE, type |-> "none", rev |-> 0, id |-> 0,
            class |-> 0, ids |-> << >>, ends |-> FALSE, last |-> FALSE, rt |-> 0]
ShadowAt == BmemMax - BmemMax \div 4    \* 0xc0000

\* class & 0xffff0000 of display controllers.
Vga == 3
Xga == 4
Displays == {Vga, Xga}

ImageRecords ==
    [sig : BOOLEAN, off : Nat, psig : BOOLEAN, psz : Nat, len : Nat, legacy : Nat,
     sum : BOOLEAN, type : {"pcat", "efi", "none"}, rev : Nat, id : Nat,
     class : Nat, ids : Seq(Nat), ends : BOOLEAN, last : BOOLEAN, rt : Nat]
FileRecords ==
    [kind : {"plain", "pad", "volume", "closed"},
     sections : Seq([imgs : Seq(ImageRecords), size : Nat])]
DeviceRecords ==
    [general : BOOLEAN, id : Nat, class : Nat, decodes : BOOLEAN,
     supports : SUBSET {"MEM", "IO", "IO16"},
     rom : ImageRecords, rom_sz : Nat, rom_at : Nat]

\* The block of base memory is free, so the firmware has no ROM there.
ASSUME RomAssumption ==
    /\ HKib \in Nat \ {0} /\ PcirMin \in 1 .. HKib
    /\ Buckets \in Nat \ {0} /\ NodeSize \in Nat \ {0} /\ Align \in Nat \ {0}
    /\ BmemMax \in Nat \ {0} /\ BmemMax % 4 = 0 /\ MaxOrom \in 0 .. BmemMax
    /\ BaseBot \in Nat \ {0} /\ BaseTop \in Nat /\ BaseBot =< BaseTop
    /\ BaseTop < ShadowAt
    /\ FileLists \subseteq Seq(FileRecords)
    /\ DevLists \subseteq Seq(DeviceRecords)
    /\ Shadows \subseteq ImageRecords
    /\ \A ds \in DevLists : \A n \in DOMAIN ds :
         ds[n].rom_at + ds[n].rom_sz =< BaseBot \/ BaseTop =< ds[n].rom_at

VARIABLES
    pc,
    files, devs, shadow,    \* the firmware and the machine
    f, s, k,    \* fv.c: the file, section and image being looked at
    left,       \* fv_gather_rimgs_for_one_sxn: rom_left_sz
    found,      \* ditto: found_rimg, as an image
    pending,    \* fv_cache_rimg: the ids. still to be entered
    ht,         \* the hash table: its lists
    cached,     \* history: the entries made, in order
    d,          \* the device being processed, or called
    bd,         \* the parameters of devices, in list order
    vga,        \* which of them is the display controller picked, 0 if none
    decodes,    \* the devices that decode the legacy display addresses
    bot, top,   \* bmem.c: where boot-time and run-time areas come from
    calls       \* history: the devices whose images were called

fvVars == <<f, s, k, left, found, pending, ht, cached>>
pciVars == <<d, bd, vga, decodes, bot, top>>
world == <<files, devs, shadow>>
vars == <<pc, world, fvVars, pciVars, calls>>

\* A device's parameter: where its image is from, the image, and the addresses
\* that rimg_seg and rimg_rt_seg stand for.
Param(n, from, img, at, rt) == [dev |-> n, from |-> from, img |-> img, at |-> at, rt |-> rt]

Init ==
    /\ pc = "file"
    /\ files \in FileLists /\ devs \in DevLists /\ shadow \in Shadows
    /\ f = 1 /\ s = 1 /\ k = 1 /\ left = 0
    /\ found = NoImage /\ pending = << >>
    /\ ht = [b \in 0 .. Buckets - 1 |-> << >>]
    /\ cached = << >>
    /\ d = 1 /\ bd = << >> /\ vga = 0
    /\ decodes = {n \in DOMAIN devs : devs[n].decodes}
    /\ bot = BaseBot /\ top = BaseTop
    /\ calls = << >>

-----------------------------------------------------------------------------
(***************************************************************************)
(* rimg_find_pcir(): whether there is an image with a PCI Data Structure   *)
(* at the start of rom_sz bytes.                                           *)
(***************************************************************************)
HasPcir(img, rom_sz) ==
    /\ rom_sz >= HKib /\ img.sig
    /\ img.off # 0 /\ img.off =< rom_sz - PcirMin
    /\ img.psig
    /\ img.psz >= PcirMin /\ img.psz =< rom_sz - img.off
    /\ img.len # 0 /\ img.len =< rom_sz \div HKib
    /\ img.off =< img.len * HKib - PcirMin /\ img.psz =< img.len * HKib - img.off
    /\ img.sum

\* rimg_find(): an image that has a header, if nothing more.
HasHeader(img) == img.sig /\ img.legacy \in 1 .. 127 /\ img.sum

\* rimg_pcir_find_dev_id_list(): more devices that the image is for.  A list
\* that does not end within the image is ignored.
DevIds(img) == IF img.rev >= 3 /\ img.ends THEN img.ids ELSE << >>

-----------------------------------------------------------------------------
(***************************************************************************)
(* fv_init() and the loops below it.  Padding and nested volumes are       *)
(* skipped, and so is a volume that cannot be opened.                      *)
(***************************************************************************)
NextFile ==
    /\ pc = "file" /\ f =< Len(files)
    /\ IF files[f].kind \in {"pad", "volume", "closed"}
       THEN f' = f + 1 /\ UNCHANGED <<pc, s>>
       ELSE pc' = "section" /\ s' = 1 /\ UNCHANGED f
    /\ UNCHANGED <<world, k, left, found, pending, ht, cached, pciVars, calls>>

FvDone ==
    /\ pc = "file" /\ f > Len(files)
    /\ pc' = "device"
    /\ UNCHANGED <<world, fvVars, pciVars, calls>>

Sections == files[f].sections

NextSection ==
    /\ pc = "section"
    /\ IF s > Len(Sections)
       THEN pc' = "file" /\ f' = f + 1 /\ UNCHANGED <<k, left, found>>
       ELSE /\ pc' = "image" /\ k' = 1 /\ found' = NoImage
            /\ left' = IF Sections[s].size > MaxOrom THEN MaxOrom ELSE Sections[s].size
            /\ UNCHANGED f
    /\ UNCHANGED <<world, s, pending, ht, cached, pciVars, calls>>

Image == IF k =< Len(Sections[s].imgs) THEN Sections[s].imgs[k] ELSE NoImage

\* Whether an image is to be had rather than the one found before it.
\* Mutant: the latest one.
PreferredLatest(img, old) == img.type = "pcat"

Preferred(img, old) ==
    img.type = "pcat" /\ (old = NoImage \/ (old.rev < 3 /\ img.rev >= 3))

(***************************************************************************)
(* An image of the section.  At the last image of an option ROM the one    *)
(* found is cached, under its own id. and then under those of its list     *)
(* that differ from it.                                                    *)
(***************************************************************************)
ScanImage ==
    /\ pc = "image" /\ HasPcir(Image, left)
    /\ LET best == IF Preferred(Image, found) THEN Image ELSE found
       IN  IF Image.last /\ best # NoImage
           THEN /\ pc' = "cache"
                /\ found' = best
                /\ pending' = <<best.id>> \o DevIds(best)
           ELSE found' = best /\ UNCHANGED <<pc, pending>>
    /\ k' = k + 1 /\ left' = left - Image.len * HKib
    /\ UNCHANGED <<world, f, s, ht, cached, pciVars, calls>>

\* Mutant: the same section is read again.
SectionDoneStays ==
    /\ pc = "image" /\ ~HasPcir(Image, left)
    /\ pc' = "section"
    /\ UNCHANGED <<world, fvVars, pciVars, calls>>

SectionDone ==
    /\ pc = "image" /\ ~HasPcir(Image, left)
    /\ pc' = "section" /\ s' = s + 1
    /\ UNCHANGED <<world, f, k, left, found, pending, ht, cached, pciVars, calls>>

\* fv_hash_bucket()
Bucket(id, class) == (id * 65536 + class) % Buckets

\* fv_add_hash_entry(): to the front of its list.  rom tells copies apart.
Entry(id) == [id |-> id, class |-> found.class, img |-> found, rom |-> <<f, s, k - 1>>]

\* Whether the next id. is entered.
Enters == Len(pending) > Len(DevIds(found)) \/ Head(pending) # found.id

CacheRimg ==
    /\ pc = "cache" /\ pending # << >>
    /\ LET e == Entry(Head(pending)) IN
       IF Enters
       THEN /\ ht' = [ht EXCEPT ![Bucket(e.id, e.class)] = <<e>> \o @]
            /\ cached' = Append(cached, e)
       ELSE UNCHANGED <<ht, cached>>
    /\ pending' = Tail(pending)
    /\ UNCHANGED <<pc, world, f, s, k, left, found, pciVars, calls>>

CacheDone ==
    /\ pc = "cache" /\ pending = << >>
    /\ pc' = "image" /\ found' = NoImage
    /\ UNCHANGED <<world, f, s, k, left, pending, ht, cached, pciVars, calls>>

\* AllocatePool() may fail for the copy or for an entry.
CacheError ==
    /\ pc = "cache" /\ pending # << >> /\ Enters
    /\ pc' = "error"
    /\ UNCHANGED <<world, fvVars, pciVars, calls>>

\* fv_find_rimg(): the image in the first entry that matches.
\* Mutant: the class is not looked at.
MatchesId(e, id, class) == e.id = id

Matches(e, id, class) == e.id = id /\ e.class = class

FvFindRimg(id, class) ==
    LET list == ht[Bucket(id, class)]
        hits == {n \in DOMAIN list : Matches(list[n], id, class)}
    IN  IF hits = {} THEN NoImage ELSE list[Min(hits)].img

-----------------------------------------------------------------------------
AlignDown(x, a) == x - (x % a)
AlignUp(x, a) == AlignDown(x + a - 1, a)

\* ptr_to_rm_seg(), as an address: a segment has 16 bits.
RmSeg(at) == at % BmemMax

(***************************************************************************)
(* How get_rimg() places an image that is at address `at': if its run-time *)
(* size differs, it stays or moves to boot-time memory, and gets a         *)
(* run-time area of that size; else it is copied to where it will run.     *)
(* BMEM_MAX_ADDR - sz is unsigned.                                         *)
(***************************************************************************)
\* Mutant: the run-time size is not looked at.
PlacingAsOld(img, at, sz) == "copy"

Placing(img, at, sz) ==
    IF img.rev >= 3 /\ img.rt * HKib # sz
    THEN IF (sz > BmemMax \/ at =< BmemMax - sz) /\ at % HKib = 0 THEN "stay" ELSE "move"
    ELSE "copy"

SetParam(from, img, at, rt) == bd' = [bd EXCEPT ![Len(bd)] = Param(d, from, img, at, rt)]

(***************************************************************************)
(* get_rimg(), with the one block of base memory there is, which is gone   *)
(* if boot-time areas use it up.  If the segment comes out as 0, the       *)
(* caller goes on to `other', the next way to get an image, which clears   *)
(* the parameter first.                                                    *)
(***************************************************************************)
GetRimg(from, img, at, sz, other) ==
    LET how == Placing(img, at, sz)
        copy == AlignUp(bot, HKib)
        bot2 == IF how = "move" THEN copy + sz ELSE bot
        run == IF how = "copy" THEN AlignDown(top - sz, Align)
                               ELSE AlignDown(top - img.rt * HKib, HKib)
        here == CASE how = "stay" -> RmSeg(at)
                  [] how = "move" -> copy
                  [] how = "copy" -> run
        fits == bot2 < top /\ bot2 =< run
    IN  \/ /\ fits
           /\ bot' = bot2 /\ top' = run
           /\ IF here = 0
              THEN pc' = other /\ SetParam("none", NoImage, 0, 0)
              ELSE pc' = "bars" /\ SetParam(from, img, here, run)
        \/ /\ ~fits
           /\ pc' = "error"
           /\ UNCHANGED <<bd, bot, top>>

\* get_rimg() without a PCI Data Structure: the image runs where it is.
GetRimgAsIs(from, img, at) ==
    /\ SetParam(from, img, RmSeg(at), RmSeg(at))
    /\ pc' = "bars"
    /\ UNCHANGED <<bot, top>>

-----------------------------------------------------------------------------
\* enable_legacy_vga() looks no further if this does not hold.
CanVga(dev) ==
    /\ dev.class \in Displays
    /\ "MEM" \in dev.supports /\ dev.supports \cap {"IO", "IO16"} # {}

\* Whether process_pci() still wants a display controller.
\* Mutant: always.
WantsVgaAlways == TRUE

WantsVga == vga = 0

(***************************************************************************)
(* process_one_pci_io(), up to the images: a parameter for a general       *)
(* device, and a try to make it the display controller, which the firmware *)
(* may refuse.                                                             *)
(***************************************************************************)
SkipDevice ==
    /\ pc = "device" /\ d =< Len(devs) /\ ~devs[d].general
    /\ d' = d + 1
    /\ UNCHANGED <<pc, world, fvVars, bd, vga, decodes, bot, top, calls>>

BeginDevice ==
    /\ pc = "device" /\ d =< Len(devs) /\ devs[d].general
    /\ bot + NodeSize =< top
    /\ bot' = bot + NodeSize
    /\ bd' = Append(bd, Param(d, "none", NoImage, 0, 0))
    /\ \/ /\ WantsVga /\ CanVga(devs[d])
          /\ vga' = Len(bd')
          /\ decodes' = decodes \cup {d}
       \/ /\ WantsVga /\ CanVga(devs[d]) => d \notin decodes
          /\ UNCHANGED <<vga, decodes>>
    /\ pc' = "own"
    /\ UNCHANGED <<world, fvVars, d, top, calls>>

\* The firmware fails to answer, or there is no room for the parameter.
BeginDeviceError ==
    /\ pc = "device" /\ d =< Len(devs)
    /\ pc' = "error"
    /\ UNCHANGED <<world, fvVars, pciVars, calls>>

\* get_rimg_from_pci_io(): the first image of the device's own option ROM.
OwnUsable(dev) ==
    dev.rom_at # 0 /\ HasPcir(dev.rom, dev.rom_sz) /\ dev.rom.type = "pcat"

GetRimgFromPciIo ==
    /\ pc = "own"
    /\ LET dev == devs[d] IN
       \/ /\ OwnUsable(dev)
          /\ GetRimg("own", dev.rom, dev.rom_at, dev.rom.len * HKib, "fvs")
       \/ /\ ~OwnUsable(dev)
          /\ pc' = "fvs"
          /\ UNCHANGED <<bd, bot, top>>
    /\ UNCHANGED <<world, fvVars, d, vga, decodes, calls>>

\* get_rimg_from_fvs(): an image from the hash table, in memory above 1 MiB.
GetRimgFromFvs ==
    /\ pc = "fvs"
    /\ LET img == FvFindRimg(devs[d].id, devs[d].class) IN
       \/ /\ HasPcir(img, img.len * HKib)
          /\ GetRimg("fv", img, BmemMax, img.len * HKib, "special")
       \/ /\ ~HasPcir(img, img.len * HKib)
          /\ pc' = "special"
          /\ UNCHANGED <<bd, bot, top>>
    /\ UNCHANGED <<world, fvVars, d, vga, decodes, calls>>

\* get_rimg_special_case()
GetRimgSpecialCase ==
    /\ pc = "special"
    /\ LET sz == shadow.legacy * HKib
           special == devs[d].id = VboxId /\ HasHeader(shadow)
       IN
       \/ special /\ HasPcir(shadow, sz) /\ GetRimg("shadow", shadow, ShadowAt, sz, "bars")
       \/ special /\ ~HasPcir(shadow, sz) /\ GetRimgAsIs("shadow", shadow, ShadowAt)
       \/ ~special /\ pc' = "bars" /\ UNCHANGED <<bd, bot, top>>
    /\ UNCHANGED <<world, fvVars, d, vga, decodes, calls>>

\* The BARs are only printed; one of a kind unknown is an error.
Bars ==
    /\ pc = "bars"
    /\ \/ pc' = "device" /\ d' = d + 1
       \/ pc' = "error" /\ UNCHANGED d
    /\ UNCHANGED <<world, fvVars, bd, vga, decodes, bot, top, calls>>

\* The end of process_pci(): there must be a display controller with an image.
PciDone ==
    /\ pc = "device" /\ d > Len(devs)
    /\ IF vga = 0 THEN pc' = "error" /\ UNCHANGED d
       ELSE IF bd[vga].at = 0 THEN pc' = "error" /\ UNCHANGED d
       ELSE pc' = "stage2" /\ d' = 1
    /\ UNCHANGED <<world, fvVars, bd, vga, decodes, bot, top, calls>>

-----------------------------------------------------------------------------
(***************************************************************************)
(* stage2_main(): rimg_init(bparms, true) calls the images of display      *)
(* controllers; then hello16 prints a greeting and does not return, so     *)
(* that rimg_init(bparms, false) is not reached.                           *)
(***************************************************************************)
RimgInit ==
    /\ pc = "stage2" /\ d =< Len(bd)
    /\ calls' = IF devs[bd[d].dev].class \in Displays /\ bd[d].at # 0
                THEN Append(calls, bd[d]) ELSE calls
    /\ d' = d + 1
    /\ UNCHANGED <<pc, world, fvVars, bd, vga, decodes, bot, top>>

Hello ==
    /\ pc = "stage2" /\ d > Len(bd)
    /\ pc' = "hello"
    /\ UNCHANGED <<world, fvVars, pciVars, calls>>

Stopped == pc \in {"hello", "error"} /\ UNCHANGED vars

Gather == NextFile \/ FvDone \/ NextSection \/ ScanImage \/ SectionDone
          \/ CacheRimg \/ CacheDone \/ CacheError
ProcessPci == SkipDevice \/ BeginDevice \/ BeginDeviceError \/ GetRimgFromPciIo
              \/ GetRimgFromFvs \/ GetRimgSpecialCase \/ Bars \/ PciDone
Work == Gather \/ ProcessPci \/ RimgInit \/ Hello

Next == Work \/ Stopped
Spec == Init /\ [][Next]_vars
\* One thread of control that keeps running; option ROMs return.
FairSpec == Spec /\ WF_vars(Work)

-----------------------------------------------------------------------------
\* The marks of base memory stay in their block and in order; what is left of
\* an option ROM (rom_left_sz, unsigned in the code) never goes below 0, and
\* every image found is of the PC-AT type.
TypeOK ==
    /\ pc \in {"file", "section", "image", "cache", "device", "own", "fvs",
               "special", "bars", "stage2", "hello", "error"}
    /\ {f, s, k, d} \subseteq Nat \ {0} /\ left \in 0 .. MaxOrom
    /\ found = NoImage \/ found.type = "pcat"
    /\ vga \in 0 .. Len(bd) /\ Len(bd) =< Len(devs)
    /\ decodes \subseteq DOMAIN devs
    /\ BaseBot =< bot /\ bot =< top /\ top =< BaseTop

Gathering == {"file", "section", "image", "cache", "error"}

\* The images of a section that rimg_find_pcir() accepts, one after the other.
Accepted(sec) ==
    LET upto[n \in 0 .. Len(sec.imgs)] ==
            IF n = 0 THEN 0 ELSE upto[n - 1] + sec.imgs[n].len * HKib
        size == IF sec.size > MaxOrom THEN MaxOrom ELSE sec.size
        Ok(n) == HasPcir(sec.imgs[n], size - upto[n - 1])
    IN  {n \in DOMAIN sec.imgs : \A m \in 1 .. n : Ok(m)}

\* What is to be cached for the option ROM whose last image is image b: the
\* first PC-AT image of revision 3, or else the first one of any revision.
BestOf(sec, b) ==
    LET a == Max({0} \cup {n \in Accepted(sec) : n < b /\ sec.imgs[n].last})
        pcat == {n \in a + 1 .. b : sec.imgs[n].type = "pcat"}
        new == {n \in pcat : sec.imgs[n].rev >= 3}
    IN  IF pcat = {} THEN NoImage
        ELSE sec.imgs[Min(IF new # {} THEN new ELSE pcat)]

EntriesOf(fi, si, b) ==
    LET best == BestOf(files[fi].sections[si], b)
        ids == IF best = NoImage THEN {} ELSE {best.id} \cup Range(DevIds(best))
    IN  {[id |-> id, class |-> best.class, img |-> best, rom |-> <<fi, si, b>>] : id \in ids}

\* Once the firmware volumes were gone through, exactly one image of each
\* complete option ROM in them is in the cache, under each of the ids. it is
\* for: the best one, wherever in the ROM it comes.
BestOfRom ==
    pc \notin Gathering =>
        Range(cached) =
            UNION {UNION {UNION {EntriesOf(fi, si, b) :
                b \in {n \in Accepted(files[fi].sections[si]) : files[fi].sections[si].imgs[n].last}} :
                si \in DOMAIN files[fi].sections} :
                fi \in {n \in DOMAIN files : files[n].kind = "plain"}}

\* The devices that process_one_pci_io() is done with.
Finished ==
    IF pc \in Gathering THEN {}
    ELSE {n \in DOMAIN bd : n < Len(bd) \/ pc \notin {"own", "fvs", "special"}}

\* A device gets the image of its own ROM if that is usable; or else, of the
\* cached images for its id. and class, the one found last; or else, if it is
\* VirtualBox's, what is at 0xc0000; or else none.  (ROMs of 1 MiB and more,
\* for which BMEM_MAX_ADDR - sz wraps round, are set aside.)
DeviceGetsItsRom ==
    \A n \in Finished :
        LET p == bd[n]
            dev == devs[p.dev]
            hits == {c \in DOMAIN cached : cached[c].id = dev.id /\ cached[c].class = dev.class}
        IN  dev.rom.len * HKib < BmemMax =>
            <<p.from, p.img>> =
                IF OwnUsable(dev) THEN <<"own", dev.rom>>
                ELSE IF hits # {} THEN <<"fv", cached[Max(hits)].img>>
                ELSE IF dev.id = VboxId /\ HasHeader(shadow) THEN <<"shadow", shadow>>
                ELSE <<"none", NoImage>>

\* Stage 2 is started only with a display controller that decodes the legacy
\* addresses and has an image; no other device was made to decode them; and
\* that image was called before the greeting is printed, with every other
\* display's and nothing else.
VgaReady ==
    pc \in {"stage2", "hello"} =>
        /\ vga # 0
        /\ devs[bd[vga].dev].class \in Displays /\ bd[vga].at # 0
        /\ bd[vga].dev \in decodes
        /\ \A n \in decodes : devs[n].decodes \/ n = bd[vga].dev
        /\ pc = "hello" =>
            Range(calls) = {bd[n] : n \in {m \in DOMAIN bd :
                devs[bd[m].dev].class \in Displays /\ bd[m].at # 0}}

\* The areas in base memory that a device's image was given: the room it may
\* use at run time, and the copy it starts from if that is elsewhere.  (One
\* longer than 1 MiB is not copied; its address is cut to a segment.)
AreasOf(p) ==
    LET sz == HKib * (IF p.from = "shadow" THEN p.img.legacy ELSE p.img.len)
        rt == IF p.img.rev >= 3 THEN p.img.rt * HKib ELSE sz
        copied == p.at # p.rt /\ BaseBot =< p.at /\ p.at < BaseTop /\ sz =< BmemMax
    IN  IF p.from = "none" \/ (p.from = "shadow" /\ ~HasPcir(p.img, sz)) THEN {}
        ELSE {<<p.rt, p.rt + rt>>} \cup (IF copied THEN {<<p.at, p.at + sz>>} ELSE {})

\* No image, when it runs, overwrites another one or the base memory of others:
\* the areas lie in the block, and those of different devices are apart.
RomsApart ==
    LET areas(n) == AreasOf(bd[n]) IN
    \A n \in Finished : \A x \in areas(n) :
        /\ BaseBot =< x[1] /\ x[2] =< BaseTop
        /\ \A m \in Finished : \A y \in areas(m) :
             <<n, x>> # <<m, y>> => x[2] =< y[1] \/ y[2] =< x[1]

\* Stage 1 stops with a message, or the greeting is printed: no list of images
\* or devices keeps it for ever.
Terminates == <>(pc \in {"hello", "error"})
=============================================================================
