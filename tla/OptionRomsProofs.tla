-------------------------- MODULE OptionRomsProofs --------------------------
(***************************************************************************)
(* Proofs about OptionRoms, for every set of firmware volumes, images and  *)
(* devices, any number of hash buckets and any block of base memory: what  *)
(* the cache holds, which image a device gets, that images do not overlap  *)
(* in base memory, and that stage 2 is started with a display controller   *)
(* that is ready.                                                          *)
(***************************************************************************)
EXTENDS OptionRoms, NatFacts, SequenceTheorems, TLAPS

\* An image as fv.c may find and cache it.
GoodImages ==
    {i \in ImageRecords : /\ i.type = "pcat" /\ HasPcir(i, i.len * HKib)
                          /\ i.len * HKib =< MaxOrom}
Entries == [id : Nat, class : Nat, img : GoodImages, rom : Nat \X Nat \X Nat]

WorldType ==
    /\ files \in Seq(FileRecords) /\ devs \in DevLists /\ devs \in Seq(DeviceRecords)
    /\ shadow \in ImageRecords

Phases == {"file", "section", "image", "cache", "device", "own", "fvs",
           "special", "bars", "stage2", "hello", "error"}
\* Looking for a device's image.
Trying == {"own", "fvs", "special"}

FvType ==
    /\ pc \in Phases
    /\ f \in Nat \ {0} /\ s \in Nat \ {0} /\ k \in Nat \ {0} /\ left \in 0 .. MaxOrom
    /\ found = NoImage \/ found \in GoodImages
    /\ pending \in Seq(Nat)
    /\ ht \in [0 .. Buckets - 1 -> Seq(Entries)]
    /\ cached \in Seq(Entries)
    /\ pc \in {"section", "image", "cache"} => f \in DOMAIN files
    /\ pc \in {"image", "cache"} => s \in DOMAIN files[f].sections
    /\ pc = "cache" => found \in GoodImages /\ k > 1

Params == [dev : Nat, from : {"none", "own", "fv", "shadow"}, img : ImageRecords,
           at : Nat, rt : Nat]

PciType ==
    /\ d \in Nat \ {0}
    /\ bd \in Seq(Params) /\ Len(bd) =< Len(devs) /\ vga \in 0 .. Len(bd)
    /\ \A n \in 1 .. Len(bd) : bd[n].dev \in DOMAIN devs
    /\ decodes \subseteq DOMAIN devs
    /\ bot \in Nat /\ top \in Nat
    /\ BaseBot =< bot /\ bot =< top /\ top =< BaseTop
    /\ pc \in Gathering \ {"error"} => bd = << >> /\ d = 1
    /\ pc = "device" => Len(bd) < d /\ d =< Len(devs) + 1
    /\ pc \in Trying \cup {"bars"} =>
         /\ d =< Len(devs) /\ Len(bd) >= 1 /\ Len(bd) =< d
         /\ bd[Len(bd)].dev = d
    /\ pc \in Trying => bd[Len(bd)].from = "none"

-----------------------------------------------------------------------------
LEMMA Constants ==
    /\ HKib \in Nat /\ HKib > 0 /\ PcirMin \in Nat /\ PcirMin >= 1 /\ PcirMin =< HKib
    /\ Buckets \in Nat \ {0} /\ NodeSize \in Nat /\ Align \in Nat \ {0}
    /\ BmemMax \in Nat \ {0} /\ MaxOrom \in Nat /\ MaxOrom =< BmemMax
    /\ BaseBot \in Nat /\ BaseBot > 0 /\ BaseTop \in Nat
    /\ ShadowAt \in Nat /\ BaseTop < ShadowAt /\ ShadowAt < BmemMax
<1>1. /\ BmemMax \in Nat \ {0} /\ BmemMax % 4 = 0 BY RomAssumption
<1>2. BmemMax = 4 * (BmemMax \div 4) + (BmemMax % 4) /\ BmemMax \div 4 \in Int
  BY <1>1, DivModDef
<1>3. PICK q \in Int : q = BmemMax \div 4 /\ BmemMax = 4 * q BY <1>1, <1>2
<1>4. q > 0 /\ ShadowAt = BmemMax - q BY <1>1, <1>3 DEF ShadowAt
<1>5. ShadowAt \in Nat /\ ShadowAt < BmemMax BY <1>1, <1>3, <1>4
<1> HIDE DEF ShadowAt
<1> QED BY <1>5, RomAssumption

\* A multiple at or below a number, and one at or above it.
LEMMA Aligned ==
    ASSUME NEW x \in Int, NEW a \in Nat \ {0}
    PROVE  /\ AlignDown(x, a) \in Int /\ AlignDown(x, a) =< x
           /\ AlignUp(x, a) \in Int /\ AlignUp(x, a) >= x
<1>1. \A y \in Int : y % a \in 0 .. a - 1 BY DivModDef
<1>2. x % a \in 0 .. a - 1 /\ (x + a - 1) % a \in 0 .. a - 1
  <2>1. x + a - 1 \in Int OBVIOUS
  <2> QED BY <1>1, <2>1
<1>3. PICK r \in 0 .. a - 1, t \in 0 .. a - 1 : r = x % a /\ t = (x + a - 1) % a BY <1>2
<1>4. AlignDown(x, a) = x - r BY <1>3 DEF AlignDown
<1>5. AlignUp(x, a) = (x + a - 1) - t BY <1>3 DEF AlignDown, AlignUp
<1> QED BY <1>4, <1>5

LEMMA SegType == \A at \in Nat : RmSeg(at) \in Nat /\ RmSeg(at) =< at
<1>1. BmemMax \in Nat \ {0} BY Constants
<1>2. ASSUME NEW at \in Nat PROVE at % BmemMax \in Nat /\ at % BmemMax =< at
  <2>1. at \in Int OBVIOUS
  <2>2. at % BmemMax \in 0 .. BmemMax - 1 /\ at % BmemMax =< at BY <1>1, <2>1, DivModDef
  <2> QED BY <2>2, <1>1
<1> QED BY <1>2 DEF RmSeg

\* What rimg_find_pcir() accepts is not empty, fits in what was left, and
\* would be accepted by itself.
LEMMA Accepts ==
    ASSUME NEW i \in ImageRecords, NEW sz \in Nat, HasPcir(i, sz)
    PROVE  /\ i # NoImage /\ i.len >= 1 /\ i.len * HKib \in Nat /\ i.len * HKib > 0
           /\ i.len * HKib =< sz
           /\ HasPcir(i, i.len * HKib)
<1>0. HKib \in Nat \ {0} /\ PcirMin \in Nat BY Constants
<1>1. i.sig /\ i.len \in Nat /\ i.len # 0 /\ i.len =< sz \div HKib /\ i.off \in Nat /\ i.psz \in Nat
  BY DEF HasPcir, ImageRecords
<1>2. i # NoImage BY <1>1 DEF NoImage
<1>3. PICK L \in Nat : L = i.len BY <1>1
<1>4. PICK q \in Nat, r \in 0 .. HKib - 1 : sz = HKib * q + r /\ q = sz \div HKib
  <2>1. sz \in Int OBVIOUS
  <2>2. /\ sz % HKib \in 0 .. HKib - 1 /\ sz = HKib * (sz \div HKib) + (sz % HKib)
        /\ sz \div HKib \in Nat
    BY <1>0, <2>1, DivModDef
  <2> QED BY <2>2
<1>5. L >= 1 /\ L =< q BY <1>1, <1>3, <1>4
<1>6. L * HKib =< q * HKib /\ 1 * HKib =< L * HKib /\ L * HKib \in Int /\ q * HKib \in Int
  BY <1>0, <1>5, MulMonotone
<1>7. PICK n \in Int : n = L * HKib BY <1>6
<1>8. HKib * q = q * HKib /\ 1 * HKib = HKib BY <1>0
<1>9. n =< sz /\ n >= HKib /\ n \in Nat BY <1>0, <1>4, <1>6, <1>7, <1>8
<1>10. n \div HKib = L
  <2>1. (HKib * L + 0) \div HKib = L
    <3>1. L \in Int /\ 0 \in 0 .. HKib - 1 BY <1>0
    <3> QED BY <1>0, <3>1, DivModUnique
  <2>2. HKib * L + 0 = n BY <1>0, <1>7
  <2> QED BY <2>1, <2>2
<1>11. HasPcir(i, n)
  <2>1. /\ i.off # 0 /\ i.psig /\ i.psz >= PcirMin /\ i.sum
        /\ i.off =< n - PcirMin /\ i.psz =< n - i.off
    BY <1>3, <1>7 DEF HasPcir
  <2>2. i.len # 0 /\ i.len =< n \div HKib BY <1>1, <1>3, <1>10
  <2>3. i.off =< i.len * HKib - PcirMin /\ i.psz =< i.len * HKib - i.off BY DEF HasPcir
  <2> QED BY <1>1, <1>9, <2>1, <2>2, <2>3 DEF HasPcir
<1> QED BY <1>0, <1>2, <1>3, <1>5, <1>7, <1>9, <1>11

-----------------------------------------------------------------------------
\* The room that an image of sz bytes is given at run time.
RtSize(img, sz) == IF img.rev >= 3 THEN img.rt * HKib ELSE sz

\* What get_rimg() makes of base memory that is free from b to t: boot-time
\* areas now end at b2, the image runs at `run' and starts at `here'.
PlacedAt(img, at, sz, b, t, here, b2, run) ==
    /\ here \in Nat /\ b2 \in Nat /\ run \in Nat
    /\ b =< b2 /\ b2 =< run /\ run =< t /\ run + RtSize(img, sz) =< t
    /\ \/ here = run
       \/ here = RmSeg(at) /\ (sz > BmemMax \/ at =< BmemMax - sz)
       \/ b =< here /\ here + sz =< b2

LEMMA Placement ==
    ASSUME NEW img \in ImageRecords, NEW at \in Nat, NEW sz \in Nat, NEW other, NEW from,
           PciType, GetRimg(from, img, at, sz, other)
    PROVE  \/ pc' = "error" /\ UNCHANGED <<bd, bot, top>>
           \/ \E here \in Nat :
                /\ PlacedAt(img, at, sz, bot, top, here, bot', top')
                /\ IF here = 0
                   THEN pc' = other /\ SetParam("none", NoImage, 0, 0)
                   ELSE pc' = "bars" /\ SetParam(from, img, here, top')
<1>0. /\ HKib \in Nat \ {0} /\ Align \in Nat \ {0} /\ BaseBot \in Nat /\ BmemMax \in Nat
  BY Constants
<1>1. bot \in Nat /\ top \in Nat /\ BaseBot =< bot BY DEF PciType
<1> DEFINE how == Placing(img, at, sz)
           copy == AlignUp(bot, HKib)
           bot2 == IF how = "move" THEN copy + sz ELSE bot
           run == IF how = "copy" THEN AlignDown(top - sz, Align)
                                  ELSE AlignDown(top - img.rt * HKib, HKib)
           here == CASE how = "stay" -> RmSeg(at)
                     [] how = "move" -> copy
                     [] how = "copy" -> run
           fits == bot2 < top /\ bot2 =< run
<1>2. \/ /\ fits
         /\ bot' = bot2 /\ top' = run
         /\ IF here = 0
            THEN pc' = other /\ SetParam("none", NoImage, 0, 0)
            ELSE pc' = "bars" /\ SetParam(from, img, here, run)
      \/ /\ ~fits
         /\ pc' = "error"
         /\ UNCHANGED <<bd, bot, top>>
  BY Zenon DEF GetRimg
<1>3. how \in {"stay", "move", "copy"} BY DEF Placing
<1>4. img.rt * HKib \in Nat /\ img.rev \in Nat
  <2>1. img.rt \in Nat /\ img.rev \in Nat BY DEF ImageRecords
  <2> QED BY <1>0, <2>1
<1>5. PICK rt \in Nat : rt = img.rt * HKib BY <1>4
<1>6. copy \in Nat /\ copy >= bot
  <2>1. bot \in Int BY <1>1
  <2>2. copy \in Int /\ copy >= bot BY <1>0, <2>1, Aligned
  <2> QED BY <1>1, <2>2
<1>7. /\ AlignDown(top - sz, Align) \in Int /\ AlignDown(top - sz, Align) =< top - sz
      /\ AlignDown(top - rt, HKib) \in Int /\ AlignDown(top - rt, HKib) =< top - rt
  <2>1. top - sz \in Int /\ top - rt \in Int BY <1>1
  <2> QED BY <1>0, <2>1, Aligned
<1>8. how = "copy" => RtSize(img, sz) = sz BY <1>4 DEF Placing, RtSize
<1>9. how # "copy" => RtSize(img, sz) = rt BY <1>4, <1>5 DEF Placing, RtSize
<1>10. how = "stay" => (sz > BmemMax \/ at =< BmemMax - sz)
  BY Zenon DEF Placing
<1>11. /\ how = "stay" => here = RmSeg(at)
       /\ how = "move" => here = copy
       /\ how = "copy" => here = run
  BY Zenon
<1>12. /\ how = "copy" => run = AlignDown(top - sz, Align) /\ bot2 = bot
       /\ how # "copy" => run = AlignDown(top - rt, HKib)
       /\ how = "move" => bot2 = copy + sz
       /\ how = "stay" => bot2 = bot
  BY <1>5
<1>13. RmSeg(at) \in Nat BY SegType
<1> HIDE DEF how, copy, bot2, run, here
<1>14. CASE fits /\ how = "copy"
  <2>1. run \in Nat /\ run + sz =< top /\ bot2 = bot BY <1>0, <1>1, <1>7, <1>12, <1>14
  <2>2. PlacedAt(img, at, sz, bot, top, here, bot2, run)
    BY <1>1, <1>8, <1>11, <1>14, <2>1 DEF PlacedAt
  <2>3. here \in Nat BY <1>11, <1>14, <2>1
  <2> QED BY <1>2, <1>14, <2>2, <2>3
<1>15. CASE fits /\ how = "move"
  <2>1. run \in Nat /\ run + rt =< top /\ bot2 = copy + sz BY <1>0, <1>1, <1>6, <1>7, <1>12, <1>15
  <2>2. PlacedAt(img, at, sz, bot, top, here, bot2, run)
    BY <1>1, <1>6, <1>9, <1>11, <1>15, <2>1 DEF PlacedAt
  <2>3. here \in Nat BY <1>6, <1>11, <1>15
  <2> QED BY <1>2, <1>15, <2>2, <2>3
<1>16. CASE fits /\ how = "stay"
  <2>1. run \in Nat /\ run + rt =< top /\ bot2 = bot BY <1>0, <1>1, <1>7, <1>12, <1>16
  <2>2. PlacedAt(img, at, sz, bot, top, here, bot2, run)
    BY <1>1, <1>9, <1>10, <1>11, <1>13, <1>16, <2>1 DEF PlacedAt
  <2>3. here \in Nat BY <1>13, <1>11, <1>16
  <2> QED BY <1>2, <1>16, <2>2, <2>3
<1>17. CASE ~fits BY <1>2, <1>17
<1> QED BY <1>3, <1>14, <1>15, <1>16, <1>17

-----------------------------------------------------------------------------
LEMMA NoImageType == NoImage \in ImageRecords /\ \A sz : ~HasPcir(NoImage, sz)
<1>1. << >> \in Seq(Nat) BY EmptySeq
<1>2. NoImage \in ImageRecords
  <2>1. 0 \in Nat /\ FALSE \in BOOLEAN /\ "none" \in {"pcat", "efi", "none"} OBVIOUS
  <2> QED BY <1>1, <2>1, Zenon DEF NoImage, ImageRecords
<1>3. NoImage.sig = FALSE BY DEF NoImage
<1> QED BY <1>2, <1>3 DEF HasPcir

LEMMA GoodType ==
    ASSUME NEW i \in GoodImages
    PROVE  /\ i \in ImageRecords /\ i # NoImage /\ i.len * HKib \in Nat
           /\ i.len * HKib > 0 /\ i.len * HKib =< MaxOrom /\ HasPcir(i, i.len * HKib)
           /\ i.id \in Nat /\ i.class \in Nat /\ DevIds(i) \in Seq(Nat)
<1>1. i \in ImageRecords /\ HasPcir(i, i.len * HKib) /\ i.len * HKib =< MaxOrom
  BY DEF GoodImages
<1>2. i.len \in Nat /\ i.id \in Nat /\ i.class \in Nat /\ i.ids \in Seq(Nat)
  BY <1>1 DEF ImageRecords
<1>3. i.len * HKib \in Nat BY <1>2, Constants
<1>4. i # NoImage BY <1>1, NoImageType
<1>5. i.len * HKib > 0 BY <1>1, <1>3, Accepts
<1>6. DevIds(i) \in Seq(Nat) BY <1>2, EmptySeq DEF DevIds
<1> QED BY <1>1, <1>2, <1>3, <1>4, <1>5, <1>6

\* The image that is looked at, if there is one.
LEMMA ImageType ==
    ASSUME WorldType, FvType, pc = "image"
    PROVE  /\ Image \in ImageRecords
           /\ Sections[s].imgs \in Seq(ImageRecords) /\ Sections[s].size \in Nat
<1>1. f \in DOMAIN files /\ s \in DOMAIN files[f].sections /\ k \in Nat \ {0}
  BY DEF FvType
<1>2. files \in Seq(FileRecords) BY DEF WorldType
<1>3. files[f] \in FileRecords BY <1>1, <1>2, ElementOfSeq
<1> DEFINE Secs == [imgs : Seq(ImageRecords), size : Nat]
<1>4. files[f].sections \in Seq(Secs) BY <1>3 DEF FileRecords
<1>5. Sections[s] \in Secs
  <2> HIDE DEF Secs
  <2> QED BY <1>1, <1>4, ElementOfSeq DEF Sections
<1>6. Sections[s].imgs \in Seq(ImageRecords) /\ Sections[s].size \in Nat BY <1>5
<1>7. k =< Len(Sections[s].imgs) => Sections[s].imgs[k] \in ImageRecords
  <2>1. Len(Sections[s].imgs) \in Nat BY <1>6, LenProperties
  <2> QED BY <1>1, <1>6, <2>1, ElementOfSeq
<1> QED BY <1>6, <1>7, NoImageType DEF Image

\* A bucket of the hash table.
LEMMA BucketType == \A id \in Nat, class \in Nat : Bucket(id, class) \in 0 .. Buckets - 1
<1>1. Buckets \in Nat \ {0} BY Constants
<1>2. ASSUME NEW id \in Nat, NEW class \in Nat
      PROVE  (id * 65536 + class) % Buckets \in 0 .. Buckets - 1
  <2>1. id * 65536 + class \in Int OBVIOUS
  <2> QED BY <1>1, <2>1, DivModDef
<1> QED BY <1>2 DEF Bucket

\* The entry that is made next.
LEMMA EntryType ==
    ASSUME FvType, pc = "cache", pending # << >>
    PROVE  /\ Head(pending) \in Nat /\ Tail(pending) \in Seq(Nat)
           /\ Entry(Head(pending)) \in Entries
           /\ Entry(Head(pending)).id = Head(pending)
           /\ Entry(Head(pending)).class = found.class
<1>1. pending \in Seq(Nat) /\ found \in GoodImages /\ k \in Nat /\ k > 1 /\ f \in Nat /\ s \in Nat
  BY DEF FvType
<1>2. Head(pending) \in Nat /\ Tail(pending) \in Seq(Nat) BY <1>1, HeadTailProperties
<1>3. found.class \in Nat BY <1>1, GoodType
<1>4. <<f, s, k - 1>> \in Nat \X Nat \X Nat BY <1>1
<1> QED BY <1>1, <1>2, <1>3, <1>4 DEF Entry, Entries

-----------------------------------------------------------------------------
\* The firmware and the machine stay as they are.
LEMMA WorldStep == WorldType /\ [Next]_vars => WorldType' /\ UNCHANGED world
<1> SUFFICES ASSUME WorldType, [Next]_vars PROVE WorldType' /\ UNCHANGED world
  OBVIOUS
<1>1. UNCHANGED world
  BY DEF Next, Work, Gather, ProcessPci, Stopped, vars, NextFile, FvDone, NextSection, ScanImage,
         SectionDone, CacheRimg, CacheDone, CacheError, SkipDevice, BeginDevice,
         BeginDeviceError, GetRimgFromPciIo, GetRimgFromFvs, GetRimgSpecialCase, Bars,
         PciDone, RimgInit, Hello
<1> QED BY <1>1 DEF world, WorldType

\* After the firmware volumes, nothing of fv.c's changes.
Later == {"device", "own", "fvs", "special", "bars", "stage2", "hello", "error"}

LEMMA PciPhases ==
    ASSUME ProcessPci \/ RimgInit \/ Hello
    PROVE  pc \in Later /\ pc' \in Later /\ UNCHANGED fvVars
<1>1. CASE SkipDevice \/ BeginDevice \/ BeginDeviceError
  BY <1>1 DEF SkipDevice, BeginDevice, BeginDeviceError, Later
<1>2. CASE GetRimgFromPciIo BY <1>2 DEF GetRimgFromPciIo, GetRimg, Later
<1>3. CASE GetRimgFromFvs BY <1>3 DEF GetRimgFromFvs, GetRimg, Later
<1>4. CASE GetRimgSpecialCase BY <1>4 DEF GetRimgSpecialCase, GetRimg, GetRimgAsIs, Later
<1>5. CASE Bars \/ PciDone \/ RimgInit \/ Hello
  BY <1>5 DEF Bars, PciDone, RimgInit, Hello, Later
<1> QED BY <1>1, <1>2, <1>3, <1>4, <1>5 DEF ProcessPci

LEMMA FvStep == WorldType /\ FvType /\ [Next]_vars => FvType'
<1> SUFFICES ASSUME WorldType, FvType, [Next]_vars PROVE FvType'
  OBVIOUS
<1>0. files' = files BY WorldStep DEF world
<1>a. /\ f \in Nat \ {0} /\ s \in Nat \ {0} /\ k \in Nat \ {0} /\ left \in 0 .. MaxOrom
      /\ MaxOrom \in Nat /\ files \in Seq(FileRecords) /\ Len(files) \in Nat
      /\ DOMAIN files = 1 .. Len(files)
  BY Constants, LenProperties DEF FvType, WorldType
<1>1. CASE NextFile
  <2>1. /\ f' \in Nat \ {0} /\ s' \in Nat \ {0} /\ pc' \in {"file", "section"}
        /\ pc' = "section" => f' \in DOMAIN files
        /\ UNCHANGED <<k, left, found, pending, ht, cached>>
    BY <1>1, <1>a DEF NextFile
  <2> QED BY <1>0, <2>1 DEF FvType, Phases
<1>2. CASE FvDone BY <1>0, <1>2 DEF FvDone, fvVars, FvType, Phases
<1>3. CASE NextSection
  <2>1. f \in DOMAIN files BY <1>3 DEF NextSection, FvType
  <2>2. files[f] \in FileRecords BY <1>a, <2>1, ElementOfSeq
  <2> DEFINE Secs == [imgs : Seq(ImageRecords), size : Nat]
  <2>3. files[f].sections \in Seq(Secs) BY <2>2 DEF FileRecords
  <2>4. Len(Sections) \in Nat /\ DOMAIN Sections = 1 .. Len(Sections) /\ Sections \in Seq(Secs)
    <3> HIDE DEF Secs
    <3> QED BY <2>3, LenProperties DEF Sections
  <2>5. CASE s > Len(Sections)
    <3>1. /\ pc' = "file" /\ f' \in Nat \ {0} /\ UNCHANGED <<s, k, left, found, pending, ht, cached>>
      BY <1>3, <1>a, <2>5 DEF NextSection
    <3> QED BY <3>1 DEF FvType, Phases
  <2>6. CASE ~(s > Len(Sections))
    <3>1. s \in DOMAIN Sections BY <1>a, <2>4, <2>6
    <3>2. Sections[s] \in Secs
      <4> HIDE DEF Secs
      <4> QED BY <2>4, <3>1, ElementOfSeq
    <3>3. Sections[s].size \in Nat BY <3>2
    <3>4. left' \in 0 .. MaxOrom BY <1>3, <1>a, <2>6, <3>3 DEF NextSection
    <3>5. pc' = "image" /\ k' = 1 /\ found' = NoImage /\ UNCHANGED <<f, s, pending, ht, cached>>
      BY <1>3, <2>6 DEF NextSection
    <3>6. k' \in Nat \ {0} BY <3>5
    <3>7. s' \in DOMAIN files'[f'].sections BY <1>0, <3>1, <3>5 DEF Sections
    <3> QED BY <1>0, <2>1, <3>4, <3>5, <3>6, <3>7 DEF FvType, Phases
  <2> QED BY <2>5, <2>6
<1>4. CASE ScanImage
  <2>1. pc = "image" /\ HasPcir(Image, left) BY <1>4 DEF ScanImage
  <2>2. Image \in ImageRecords BY <2>1, ImageType
  <2>3. /\ Image.len * HKib \in Nat /\ Image.len * HKib =< left
        /\ HasPcir(Image, Image.len * HKib)
    <3>1. left \in Nat BY <1>a
    <3> QED BY <2>1, <2>2, <3>1, Accepts
  <2> DEFINE best == IF Preferred(Image, found) THEN Image ELSE found
  <2>4. best = NoImage \/ best \in GoodImages
    <3>1. Preferred(Image, found) => Image \in GoodImages
      <4>1. Image.len * HKib =< MaxOrom BY <1>a, <2>3
      <4> QED BY <2>2, <2>3, <4>1 DEF Preferred, GoodImages
    <3> QED BY <3>1 DEF FvType
  <2>5. /\ left' = left - Image.len * HKib /\ k' = k + 1 /\ found' = best
        /\ UNCHANGED <<f, s, ht, cached>>
    BY <1>4 DEF ScanImage
  <2>6. \/ pc' = pc /\ pending' = pending
        \/ pc' = "cache" /\ best # NoImage /\ pending' = <<best.id>> \o DevIds(best)
    BY <1>4 DEF ScanImage
  <2> HIDE DEF best
  <2>7. left' \in 0 .. MaxOrom /\ k' \in Nat \ {0} /\ k' > 1 BY <1>a, <2>3, <2>5
  <2>8. pending' \in Seq(Nat)
    <3>1. best # NoImage => <<best.id>> \o DevIds(best) \in Seq(Nat)
      <4>1. SUFFICES ASSUME best # NoImage PROVE <<best.id>> \o DevIds(best) \in Seq(Nat)
        OBVIOUS
      <4>2. best.id \in Nat /\ DevIds(best) \in Seq(Nat) BY <2>4, <4>1, GoodType
      <4>3. <<best.id>> \in Seq(Nat) BY <4>2
      <4> QED BY <4>2, <4>3, ConcatProperties
    <3>2. pending \in Seq(Nat) BY DEF FvType
    <3> QED BY <2>6, <3>1, <3>2
  <2>9. f' \in DOMAIN files' /\ s' \in DOMAIN files'[f'].sections /\ pc' \in {"image", "cache"}
    BY <1>0, <2>1, <2>5, <2>6 DEF FvType
  <2>10. pc' = "cache" => best \in GoodImages BY <2>1, <2>4, <2>6
  <2>11. found' = NoImage \/ found' \in GoodImages BY <2>4, <2>5
  <2> QED BY <2>5, <2>7, <2>8, <2>9, <2>10, <2>11 DEF FvType, Phases
<1>5. CASE SectionDone
  <2>1. s' \in Nat \ {0} /\ pc' = "section" /\ pc = "image" /\ UNCHANGED <<f, k, left, found, pending, ht, cached>>
    BY <1>5, <1>a DEF SectionDone
  <2> QED BY <1>0, <2>1 DEF FvType, Phases
<1>6. CASE CacheRimg
  <2>1. pc = "cache" /\ pending # << >> BY <1>6 DEF CacheRimg
  <2> DEFINE e == Entry(Head(pending))
  <2>2. /\ e \in Entries /\ e.id \in Nat /\ e.class \in Nat /\ Tail(pending) \in Seq(Nat)
    BY <2>1, EntryType DEF Entries
  <2>3. Bucket(e.id, e.class) \in 0 .. Buckets - 1 BY <2>2, BucketType
  <2>4. /\ UNCHANGED <<pc, f, s, k, left, found>> /\ pending' = Tail(pending)
        /\ \/ /\ ht' = [ht EXCEPT ![Bucket(e.id, e.class)] = <<e>> \o @]
              /\ cached' = Append(cached, e)
           \/ UNCHANGED <<ht, cached>>
    BY <1>6, Zenon DEF CacheRimg
  <2> HIDE DEF e
  <2>5. ht' \in [0 .. Buckets - 1 -> Seq(Entries)]
    <3>1. ht \in [0 .. Buckets - 1 -> Seq(Entries)] BY DEF FvType
    <3> DEFINE b == Bucket(e.id, e.class)
    <3>2. ht[b] \in Seq(Entries) /\ <<e>> \in Seq(Entries) BY <2>2, <2>3, <3>1
    <3>3. <<e>> \o ht[b] \in Seq(Entries) BY <3>2, ConcatProperties
    <3> HIDE DEF b
    <3>4. ht' = [ht EXCEPT ![b] = <<e>> \o ht[b]] \/ ht' = ht BY <2>4 DEF b
    <3> QED BY <3>1, <3>3, <3>4
  <2>6. cached' \in Seq(Entries)
    <3>1. cached \in Seq(Entries) BY DEF FvType
    <3>2. Append(cached, e) \in Seq(Entries) BY <2>2, <3>1, AppendProperties
    <3> QED BY <2>4, <3>1, <3>2
  <2> QED BY <1>0, <2>2, <2>4, <2>5, <2>6 DEF FvType
<1>7. CASE CacheDone
  <2>1. /\ pc = "cache" /\ pc' = "image" /\ found' = NoImage
        /\ UNCHANGED <<f, s, k, left, pending, ht, cached>>
    BY <1>7 DEF CacheDone
  <2> QED BY <1>0, <2>1 DEF FvType, Phases
<1>8. CASE CacheError
  <2>1. pc' = "error" /\ UNCHANGED <<f, s, k, left, found, pending, ht, cached>>
    BY <1>8 DEF CacheError, fvVars
  <2> QED BY <2>1 DEF FvType, Phases
<1>9. CASE ProcessPci \/ RimgInit \/ Hello
  <2>1. pc' \in Later /\ UNCHANGED fvVars BY <1>9, PciPhases
  <2>2. pc' \in Phases /\ pc' \notin {"section", "image", "cache"} BY <2>1 DEF Later, Phases
  <2> QED BY <2>1, <2>2 DEF fvVars, FvType
<1>10. CASE UNCHANGED vars BY <1>10 DEF vars, world, fvVars, FvType
<1> QED BY <1>1, <1>2, <1>3, <1>4, <1>5, <1>6, <1>7, <1>8, <1>9, <1>10
    DEF Next, Work, Gather, Stopped

-----------------------------------------------------------------------------
\* fv_find_rimg() returns an image that was cached, or none.
LEMMA FindType ==
    ASSUME FvType, NEW id \in Nat, NEW class \in Nat
    PROVE  FvFindRimg(id, class) = NoImage \/ FvFindRimg(id, class) \in GoodImages
<1> DEFINE list == ht[Bucket(id, class)]
           hits == {n \in DOMAIN list : Matches(list[n], id, class)}
<1>1. list \in Seq(Entries) BY BucketType DEF FvType
<1>2. DOMAIN list = 1 .. Len(list) /\ Len(list) \in Nat BY <1>1, LenProperties
<1>3. FvFindRimg(id, class) = IF hits = {} THEN NoImage ELSE list[Min(hits)].img
  BY DEF FvFindRimg
<1> HIDE DEF list
<1>4. hits # {} => Min(hits) \in hits
  <2>1. SUFFICES ASSUME hits # {} PROVE Min(hits) \in hits
    OBVIOUS
  <2>2. hits \subseteq Nat BY <1>2
  <2> HIDE DEF hits
  <2>3. \E x \in hits : \A y \in hits : x =< y BY <2>1, <2>2, LeastElement
  <2> QED BY <2>3 DEF Min
<1>5. hits # {} => list[Min(hits)] \in Entries
  <2>1. \A n \in DOMAIN list : list[n] \in Entries BY <1>1, ElementOfSeq
  <2> QED BY <1>4, <2>1
<1> QED BY <1>3, <1>5 DEF Entries

\* The bytes of an image that get_rimg() is given.
SizeOf(from, img) == HKib * (IF from = "shadow" THEN img.legacy ELSE img.len)

LEMMA SizeFacts ==
    ASSUME NEW i \in ImageRecords
    PROVE  /\ i.len * HKib \in Nat /\ i.legacy * HKib \in Nat
           /\ \A from \in {"own", "fv"} : SizeOf(from, i) = i.len * HKib
           /\ SizeOf("shadow", i) = i.legacy * HKib
<1>1. i.len \in Nat /\ i.legacy \in Nat /\ HKib \in Nat BY Constants DEF ImageRecords
<1> QED BY <1>1 DEF SizeOf

\* The display's image at 0xc0000 is taken as it is.
TakenAsIs ==
    /\ pc' = "bars" /\ UNCHANGED <<bot, top>>
    /\ ~HasPcir(shadow, SizeOf("shadow", shadow))
    /\ SetParam("shadow", shadow, RmSeg(ShadowAt), RmSeg(ShadowAt))

\* An image that is not in the block of base memory is placed there, or turns
\* out to be at segment 0.
TakenFrom(from, img, at) ==
    \E here \in Nat :
        /\ PlacedAt(img, at, SizeOf(from, img), bot, top, here, bot', top')
        /\ IF here = 0
           THEN /\ pc' \in {"fvs", "special", "bars"}
                /\ SetParam("none", NoImage, 0, 0)
           ELSE pc' = "bars" /\ SetParam(from, img, here, top')

LEMMA Device ==
    ASSUME WorldType, NEW n \in DOMAIN devs
    PROVE  /\ devs[n] \in DeviceRecords
           /\ devs[n].rom_at + devs[n].rom_sz =< BaseBot \/ BaseTop =< devs[n].rom_at
<1>1. devs[n] \in DeviceRecords BY ElementOfSeq DEF WorldType
<1> QED BY <1>1, RomAssumption DEF WorldType

LEMMA TakeOwn ==
    ASSUME WorldType, PciType, GetRimgFromPciIo, OwnUsable(devs[d])
    PROVE  \/ pc' = "error" /\ UNCHANGED <<bd, bot, top>>
           \/ /\ TakenFrom("own", devs[d].rom, devs[d].rom_at)
              /\ devs[d].rom_at < BaseBot \/ BaseTop =< devs[d].rom_at
<1>1. d \in DOMAIN devs
  BY LenProperties DEF GetRimgFromPciIo, PciType, Trying, WorldType
<1>2. /\ devs[d].rom \in ImageRecords /\ devs[d].rom_at \in Nat /\ devs[d].rom_sz \in Nat
      /\ devs[d].rom_at + devs[d].rom_sz =< BaseBot \/ BaseTop =< devs[d].rom_at
  BY <1>1, Device DEF DeviceRecords
<1>3. devs[d].rom_sz >= HKib BY DEF OwnUsable, HasPcir
<1>4. devs[d].rom_at < BaseBot \/ BaseTop =< devs[d].rom_at BY <1>2, <1>3, Constants
<1>5. PICK sz : sz = devs[d].rom.len * HKib OBVIOUS
<1>6. sz \in Nat /\ sz = SizeOf("own", devs[d].rom)
  BY <1>2, <1>5, SizeFacts
<1>7. GetRimg("own", devs[d].rom, devs[d].rom_at, sz, "fvs") BY <1>5 DEF GetRimgFromPciIo
<1>8. \/ pc' = "error" /\ UNCHANGED <<bd, bot, top>>
      \/ \E here \in Nat :
            /\ PlacedAt(devs[d].rom, devs[d].rom_at, sz, bot, top, here, bot', top')
            /\ IF here = 0
               THEN pc' = "fvs" /\ SetParam("none", NoImage, 0, 0)
               ELSE pc' = "bars" /\ SetParam("own", devs[d].rom, here, top')
  BY <1>2, <1>6, <1>7, Placement
<1> QED BY <1>4, <1>6, <1>8 DEF TakenFrom

LEMMA TakeFv ==
    ASSUME WorldType, FvType, PciType, GetRimgFromFvs,
           NEW img, img = FvFindRimg(devs[d].id, devs[d].class), img # NoImage
    PROVE  /\ img \in GoodImages /\ HasPcir(img, img.len * HKib)
           /\ \/ pc' = "error" /\ UNCHANGED <<bd, bot, top>>
              \/ TakenFrom("fv", img, BmemMax)
<1>1. d \in DOMAIN devs
  BY LenProperties DEF GetRimgFromFvs, PciType, Trying, WorldType
<1>2. img \in GoodImages
  <2>1. devs[d].id \in Nat /\ devs[d].class \in Nat BY <1>1, Device DEF DeviceRecords
  <2> QED BY <2>1, FindType
<1>3. img \in ImageRecords /\ img.len * HKib \in Nat /\ HasPcir(img, img.len * HKib)
  BY <1>2, GoodType
<1>4. PICK sz : sz = img.len * HKib OBVIOUS
<1>5. sz \in Nat /\ sz = SizeOf("fv", img) BY <1>3, <1>4, SizeFacts
<1>6. GetRimg("fv", img, BmemMax, sz, "special") BY <1>3, <1>4 DEF GetRimgFromFvs
<1>7. BmemMax \in Nat BY Constants
<1>8. \/ pc' = "error" /\ UNCHANGED <<bd, bot, top>>
      \/ \E here \in Nat :
            /\ PlacedAt(img, BmemMax, sz, bot, top, here, bot', top')
            /\ IF here = 0
               THEN pc' = "special" /\ SetParam("none", NoImage, 0, 0)
               ELSE pc' = "bars" /\ SetParam("fv", img, here, top')
  BY <1>3, <1>5, <1>6, <1>7, Placement
<1> QED BY <1>2, <1>3, <1>5, <1>8 DEF TakenFrom

LEMMA TakeShadow ==
    ASSUME WorldType, PciType, GetRimgSpecialCase, devs[d].id = VboxId, HasHeader(shadow)
    PROVE  \/ TakenAsIs
           \/ pc' = "error" /\ UNCHANGED <<bd, bot, top>>
           \/ HasPcir(shadow, SizeOf("shadow", shadow)) /\ TakenFrom("shadow", shadow, ShadowAt)
<1>1. shadow \in ImageRecords BY DEF WorldType
<1>2. PICK sz : sz = shadow.legacy * HKib OBVIOUS
<1>3. sz \in Nat /\ sz = SizeOf("shadow", shadow)
  BY <1>1, <1>2, SizeFacts
<1>4. \/ HasPcir(shadow, sz) /\ GetRimg("shadow", shadow, ShadowAt, sz, "bars")
      \/ ~HasPcir(shadow, sz) /\ GetRimgAsIs("shadow", shadow, ShadowAt)
  BY <1>2 DEF GetRimgSpecialCase
<1>5. CASE ~HasPcir(shadow, sz) /\ GetRimgAsIs("shadow", shadow, ShadowAt)
  BY <1>3, <1>5 DEF TakenAsIs, GetRimgAsIs
<1>6. CASE HasPcir(shadow, sz) /\ GetRimg("shadow", shadow, ShadowAt, sz, "bars")
  <2>1. ShadowAt \in Nat BY Constants
  <2>2. \/ pc' = "error" /\ UNCHANGED <<bd, bot, top>>
        \/ \E here \in Nat :
            /\ PlacedAt(shadow, ShadowAt, sz, bot, top, here, bot', top')
            /\ IF here = 0
               THEN pc' = "bars" /\ SetParam("none", NoImage, 0, 0)
               ELSE pc' = "bars" /\ SetParam("shadow", shadow, here, top')
    BY <1>1, <1>3, <1>6, <2>1, Placement
  <2> QED BY <1>3, <1>6, <2>2 DEF TakenFrom
<1> QED BY <1>4, <1>5, <1>6

\* What any of the three ways to get an image comes to.
TryAction == GetRimgFromPciIo \/ GetRimgFromFvs \/ GetRimgSpecialCase

LEMMA TryStep ==
    ASSUME WorldType, FvType, PciType, TryAction
    PROVE  /\ pc \in Trying /\ UNCHANGED <<d, vga, decodes, calls>>
           /\ \/ pc' \in {"error", "fvs", "special", "bars"} /\ UNCHANGED <<bd, bot, top>>
              \/ TakenAsIs
              \/ \E from \in {"own", "fv", "shadow"}, img \in ImageRecords, at \in Nat :
                    /\ TakenFrom(from, img, at)
                    /\ at < BaseBot \/ BaseTop =< at
                    /\ from = "shadow" => HasPcir(img, SizeOf(from, img))
<1>1. pc \in Trying /\ UNCHANGED <<d, vga, decodes, calls>>
  BY DEF TryAction, GetRimgFromPciIo, GetRimgFromFvs, GetRimgSpecialCase, Trying
<1>2. d \in DOMAIN devs BY <1>1, LenProperties DEF PciType, WorldType
<1>3. devs[d].rom \in ImageRecords /\ devs[d].rom_at \in Nat BY <1>2, Device DEF DeviceRecords
<1>4. /\ BmemMax \in Nat /\ ShadowAt \in Nat /\ BaseTop =< BmemMax /\ BaseTop =< ShadowAt
  BY Constants
<1>5. CASE GetRimgFromPciIo
  <2>1. CASE OwnUsable(devs[d]) BY <1>1, <1>3, <1>5, <2>1, TakeOwn
  <2>2. CASE ~OwnUsable(devs[d]) BY <1>1, <1>5, <2>2 DEF GetRimgFromPciIo
  <2> QED BY <2>1, <2>2
<1>6. CASE GetRimgFromFvs
  <2>1. PICK img : img = FvFindRimg(devs[d].id, devs[d].class) OBVIOUS
  <2>2. CASE img = NoImage
    <3>1. ~HasPcir(img, img.len * HKib) BY <2>2, NoImageType
    <3> QED BY <1>1, <1>6, <2>1, <3>1 DEF GetRimgFromFvs
  <2>3. CASE img # NoImage
    <3>1. /\ img \in ImageRecords
          /\ \/ pc' = "error" /\ UNCHANGED <<bd, bot, top>>
             \/ TakenFrom("fv", img, BmemMax)
      BY <1>6, <2>1, <2>3, TakeFv, GoodType
    <3> QED BY <1>1, <1>4, <3>1
  <2> QED BY <2>2, <2>3
<1>7. CASE GetRimgSpecialCase
  <2>1. CASE devs[d].id = VboxId /\ HasHeader(shadow)
    <3>1. shadow \in ImageRecords BY DEF WorldType
    <3> QED BY <1>1, <1>4, <1>7, <2>1, <3>1, TakeShadow
  <2>2. CASE ~(devs[d].id = VboxId /\ HasHeader(shadow))
    BY <1>1, <1>7, <2>2 DEF GetRimgSpecialCase
  <2> QED BY <2>1, <2>2
<1> QED BY <1>5, <1>6, <1>7 DEF TryAction

\* The last parameter is replaced.
LEMMA SetLast ==
    ASSUME NEW b \in Seq(Params), Len(b) >= 1, NEW p \in Params, NEW c, c = [b EXCEPT ![Len(b)] = p]
    PROVE  /\ c \in Seq(Params) /\ Len(c) = Len(b) /\ c[Len(b)] = p
           /\ \A n \in 1 .. Len(b) : n # Len(b) => c[n] = b[n]
           /\ Len(b) \in 1 .. Len(b) /\ DOMAIN c = 1 .. Len(b)
<1>1. Len(b) \in Nat /\ Len(b) \in 1 .. Len(b) BY LenProperties
<1>2. c \in Seq(Params) /\ Len(c) = Len(b)
  BY <1>1, ExceptSeq
<1>3. DOMAIN b = 1 .. Len(b) BY LenProperties
<1> QED BY <1>1, <1>2, <1>3, LenProperties

LEMMA ParamType ==
    ASSUME NEW n \in Nat, NEW from \in {"none", "own", "fv", "shadow"}, NEW img \in ImageRecords,
           NEW at \in Nat, NEW rt \in Nat
    PROVE  /\ Param(n, from, img, at, rt) \in Params
           /\ Param(n, from, img, at, rt).dev = n /\ Param(n, from, img, at, rt).from = from
           /\ Param(n, from, img, at, rt).img = img
           /\ Param(n, from, img, at, rt).at = at /\ Param(n, from, img, at, rt).rt = rt
BY DEF Param, Params

LEMMA NoneParam ==
    \A n \in Nat : /\ Param(n, "none", NoImage, 0, 0) \in Params
                   /\ Param(n, "none", NoImage, 0, 0).from = "none"
                   /\ Param(n, "none", NoImage, 0, 0).img = NoImage
                   /\ Param(n, "none", NoImage, 0, 0).dev = n
                   /\ Param(n, "none", NoImage, 0, 0).at = 0
<1>1. 0 \in Nat /\ NoImage \in ImageRecords BY NoImageType
<1> QED BY <1>1, ParamType

\* What a try leaves of the last parameter and of base memory.
LEMMA TryOutcome ==
    ASSUME WorldType, FvType, PciType, TryAction
    PROVE  /\ pc' \in {"error", "fvs", "special", "bars"}
           /\ bot' \in Nat /\ top' \in Nat /\ bot =< bot' /\ bot' =< top' /\ top' =< top
           /\ \/ bd' = bd
              \/ \E p \in Params : /\ bd' = [bd EXCEPT ![Len(bd)] = p] /\ p.dev = d
                                   /\ pc' \in Trying => p.from = "none"
<1>0. d \in Nat /\ bot \in Nat /\ top \in Nat /\ bot =< top BY DEF PciType
<1>1. CASE pc' \in {"error", "fvs", "special", "bars"} /\ UNCHANGED <<bd, bot, top>>
  BY <1>0, <1>1
<1>2. CASE TakenAsIs
  <2>1. /\ pc' = "bars" /\ bot' = bot /\ top' = top
        /\ bd' = [bd EXCEPT ![Len(bd)] = Param(d, "shadow", shadow, RmSeg(ShadowAt), RmSeg(ShadowAt))]
    BY <1>2 DEF TakenAsIs, SetParam
  <2>2. RmSeg(ShadowAt) \in Nat /\ shadow \in ImageRecords BY Constants, SegType DEF WorldType
  <2>3. /\ Param(d, "shadow", shadow, RmSeg(ShadowAt), RmSeg(ShadowAt)) \in Params
        /\ Param(d, "shadow", shadow, RmSeg(ShadowAt), RmSeg(ShadowAt)).dev = d
    BY <1>0, <2>2, ParamType
  <2>4. PICK p : p = Param(d, "shadow", shadow, RmSeg(ShadowAt), RmSeg(ShadowAt)) OBVIOUS
  <2>5. p \in Params /\ p.dev = d /\ bd' = [bd EXCEPT ![Len(bd)] = p] BY <2>1, <2>3, <2>4
  <2>6. pc' \notin Trying /\ pc' \in {"error", "fvs", "special", "bars"} BY <2>1 DEF Trying
  <2>7. \E q \in Params : /\ bd' = [bd EXCEPT ![Len(bd)] = q] /\ q.dev = d
                          /\ pc' \in Trying => q.from = "none"
    BY <2>5, <2>6, Zenon
  <2>8. bot' \in Nat /\ top' \in Nat /\ bot =< bot' /\ bot' =< top' /\ top' =< top BY <1>0, <2>1
  <2> QED BY <2>6, <2>7, <2>8, Zenon
<1>3. ASSUME NEW from \in {"own", "fv", "shadow"}, NEW img \in ImageRecords, NEW at \in Nat,
             TakenFrom(from, img, at)
      PROVE  /\ pc' \in {"error", "fvs", "special", "bars"}
             /\ bot' \in Nat /\ top' \in Nat /\ bot =< bot' /\ bot' =< top' /\ top' =< top
             /\ \E p \in Params : /\ bd' = [bd EXCEPT ![Len(bd)] = p] /\ p.dev = d
                                  /\ pc' \in Trying => p.from = "none"
  <2>1. PICK here \in Nat :
          /\ PlacedAt(img, at, SizeOf(from, img), bot, top, here, bot', top')
          /\ IF here = 0
             THEN pc' \in {"fvs", "special", "bars"} /\ SetParam("none", NoImage, 0, 0)
             ELSE pc' = "bars" /\ SetParam(from, img, here, top')
    BY <1>3 DEF TakenFrom
  <2>2. /\ bot' \in Nat /\ top' \in Nat /\ bot =< bot' /\ bot' =< top' /\ top' =< top
    BY <2>1 DEF PlacedAt
  <2>3. CASE here = 0
    <3>1. /\ Param(d, "none", NoImage, 0, 0) \in Params
          /\ Param(d, "none", NoImage, 0, 0).dev = d /\ Param(d, "none", NoImage, 0, 0).from = "none"
      BY <1>0, NoImageType, ParamType
    <3>2. pc' \in {"fvs", "special", "bars"} /\ bd' = [bd EXCEPT ![Len(bd)] = Param(d, "none", NoImage, 0, 0)]
      BY <2>1, <2>3 DEF SetParam
    <3> QED BY <2>2, <3>1, <3>2
  <2>4. CASE here # 0
    <3>1. Param(d, from, img, here, top') \in Params /\ Param(d, from, img, here, top').dev = d
      BY <1>0, <2>2, ParamType
    <3>2. pc' = "bars" /\ bd' = [bd EXCEPT ![Len(bd)] = Param(d, from, img, here, top')]
      BY <2>1, <2>4 DEF SetParam
    <3> QED BY <2>2, <3>1, <3>2 DEF Trying
  <2> QED BY <2>3, <2>4
<1> QED BY <1>1, <1>2, <1>3, TryStep

\* Parameters are about devices, in order, and the marks of base memory stay
\* in the block and in order.
LEMMA PciStep == WorldType /\ FvType /\ PciType /\ [Next]_vars => PciType'
<1> SUFFICES ASSUME WorldType, FvType, PciType, [Next]_vars PROVE PciType'
  OBVIOUS
<1>0. devs' = devs BY WorldStep DEF world
<1>a. /\ d \in Nat \ {0} /\ bd \in Seq(Params) /\ Len(bd) =< Len(devs) /\ vga \in 0 .. Len(bd)
      /\ \A n \in 1 .. Len(bd) : bd[n].dev \in DOMAIN devs
      /\ decodes \subseteq DOMAIN devs
      /\ bot \in Nat /\ top \in Nat
      /\ BaseBot =< bot /\ bot =< top /\ top =< BaseTop
      /\ BaseBot \in Nat /\ BaseTop \in Nat /\ NodeSize \in Nat
      /\ Len(bd) \in Nat /\ Len(devs) \in Nat /\ DOMAIN devs = 1 .. Len(devs)
      /\ Gathering = {"file", "section", "image", "cache", "error"}
  BY LenProperties, Constants DEF PciType, WorldType, Gathering
<1>1. CASE Gather
  <2>1. pc \in Gathering \ {"error"} /\ UNCHANGED pciVars
        /\ pc' \in (Gathering \cup {"device"})
    BY <1>1 DEF Gather, NextFile, FvDone, NextSection, ScanImage, SectionDone, CacheRimg,
                CacheDone, CacheError, Gathering, fvVars
  <2>2. bd = << >> /\ d = 1 BY <2>1 DEF PciType
  <2>3. Len(bd) = 0 BY <2>2
  <2>4. pc' = "device" => Len(bd') < d' /\ d' =< Len(devs') + 1 BY <1>0, <1>a, <2>1, <2>2, <2>3 DEF pciVars
  <2>5. pc' \notin Trying \cup {"bars"} BY <2>1 DEF Gathering, Trying
  <2> QED BY <1>0, <1>a, <2>1, <2>2, <2>4, <2>5 DEF PciType, pciVars
<1>2. CASE SkipDevice
  <2>1. /\ pc = "device" /\ d =< Len(devs) /\ d' = d + 1
        /\ UNCHANGED <<pc, bd, vga, decodes, bot, top>>
    BY <1>2 DEF SkipDevice
  <2>2. Len(bd) < d BY <2>1 DEF PciType
  <2> QED BY <1>0, <1>a, <2>1, <2>2 DEF PciType, Trying
<1>3. CASE BeginDevice
  <2> DEFINE p == Param(d, "none", NoImage, 0, 0)
  <2>1. /\ pc = "device" /\ d =< Len(devs) /\ d' = d /\ top' = top /\ pc' = "own"
        /\ bot + NodeSize =< top /\ bot' = bot + NodeSize
        /\ bd' = Append(bd, p)
        /\ \/ vga' = Len(bd') /\ decodes' = decodes \cup {d}
           \/ UNCHANGED <<vga, decodes>>
    BY <1>3 DEF BeginDevice
  <2>2. Len(bd) < d BY <2>1 DEF PciType
  <2>3. p \in Params /\ p.dev = d /\ p.from = "none"
    <3>1. d \in Nat BY <1>a
    <3> QED BY <3>1, NoImageType, ParamType
  <2> HIDE DEF p
  <2>4. /\ bd' \in Seq(Params) /\ Len(bd') = Len(bd) + 1 /\ bd'[Len(bd) + 1] = p
        /\ \A n \in 1 .. Len(bd) : bd'[n] = bd[n]
    BY <1>a, <2>1, <2>3, AppendProperties
  <2>5. d \in DOMAIN devs BY <1>a, <2>1
  <2>6. \A n \in 1 .. Len(bd') : bd'[n].dev \in DOMAIN devs
    <3>1. SUFFICES ASSUME NEW n \in 1 .. Len(bd') PROVE bd'[n].dev \in DOMAIN devs
      OBVIOUS
    <3>2. n = Len(bd) + 1 \/ n \in 1 .. Len(bd) BY <1>a, <2>4
    <3> QED BY <1>a, <2>3, <2>4, <2>5, <3>2
  <2>7. vga' \in 0 .. Len(bd') /\ decodes' \subseteq DOMAIN devs BY <1>a, <2>1, <2>4, <2>5
  <2>8. /\ bot' \in Nat /\ BaseBot =< bot' /\ bot' =< top' BY <1>a, <2>1
  <2>9. /\ d' =< Len(devs) /\ Len(bd') >= 1 /\ Len(bd') =< d' /\ bd'[Len(bd')].dev = d'
        /\ Len(bd') =< Len(devs) /\ bd'[Len(bd')].from = "none"
    BY <1>a, <2>1, <2>2, <2>3, <2>4
  <2> QED BY <1>0, <1>a, <2>1, <2>4, <2>6, <2>7, <2>8, <2>9 DEF PciType
<1>4. CASE TryAction
  <2>1. pc \in Trying /\ UNCHANGED <<d, vga, decodes>> BY <1>4, TryStep
  <2>2. /\ d =< Len(devs) /\ Len(bd) >= 1 /\ Len(bd) =< d /\ bd[Len(bd)].dev = d
        /\ bd[Len(bd)].from = "none"
    BY <2>1 DEF PciType
  <2>3. /\ pc' \in {"error", "fvs", "special", "bars"}
        /\ bot' \in Nat /\ top' \in Nat /\ bot =< bot' /\ bot' =< top' /\ top' =< top
        /\ \/ bd' = bd
           \/ \E p \in Params : /\ bd' = [bd EXCEPT ![Len(bd)] = p] /\ p.dev = d
                                /\ pc' \in Trying => p.from = "none"
    BY <1>4, TryOutcome
  <2>4. /\ bd' \in Seq(Params) /\ Len(bd') = Len(bd) /\ bd'[Len(bd)].dev = d
        /\ pc' \in Trying => bd'[Len(bd)].from = "none"
        /\ \A n \in 1 .. Len(bd) : n # Len(bd) => bd'[n] = bd[n]
    <3>1. CASE bd' = bd BY <1>a, <2>2, <3>1
    <3>2. ASSUME NEW p \in Params, bd' = [bd EXCEPT ![Len(bd)] = p], p.dev = d,
                 pc' \in Trying => p.from = "none"
          PROVE  <2>4!1 /\ <2>4!2 /\ <2>4!3
      BY <1>a, <2>2, <3>2, SetLast
    <3> QED BY <2>3, <3>1, <3>2
  <2>5. d \in DOMAIN devs BY <1>a, <2>2
  <2>6. \A n \in 1 .. Len(bd') : bd'[n].dev \in DOMAIN devs BY <1>a, <2>4, <2>5
  <2>7. BaseBot =< bot' /\ bot' =< top' /\ top' =< BaseTop BY <1>a, <2>3
  <2>8. pc' # "device" /\ pc' \notin Gathering \ {"error"} BY <2>3, <1>a
  <2> QED BY <1>0, <1>a, <2>1, <2>2, <2>3, <2>4, <2>6, <2>7, <2>8 DEF PciType
<1>5. CASE BeginDeviceError \/ CacheError \/ Hello \/ Bars \/ PciDone \/ RimgInit
  <2>1. UNCHANGED <<bd, vga, decodes, bot, top>>
    BY <1>5 DEF BeginDeviceError, CacheError, Hello, Bars, PciDone, RimgInit, pciVars
  <2>2. /\ pc' \in {"error", "hello", "stage2", "device"} /\ d' \in Nat \ {0}
        /\ pc' = "device" => pc = "bars" /\ d' = d + 1
    BY <1>5, <1>a DEF BeginDeviceError, CacheError, Hello, Bars, PciDone, RimgInit, pciVars
  <2>3. pc' = "device" => Len(bd') < d' /\ d' =< Len(devs') + 1
    BY <1>0, <1>a, <2>1, <2>2 DEF PciType
  <2>4. pc' \notin Trying \cup {"bars"} /\ pc' \notin Gathering \ {"error"} BY <1>a, <2>2 DEF Trying
  <2> QED BY <1>0, <1>a, <2>1, <2>2, <2>3, <2>4 DEF PciType
<1>6. CASE UNCHANGED vars BY <1>6 DEF vars, world, pciVars, PciType
<1> QED BY <1>1, <1>2, <1>3, <1>4, <1>5, <1>6
    DEF Next, Work, ProcessPci, Stopped, TryAction

-----------------------------------------------------------------------------
LEMMA InitTypes == Init => WorldType /\ FvType /\ PciType
<1> SUFFICES ASSUME Init PROVE WorldType /\ FvType /\ PciType
  OBVIOUS
<1>1. WorldType BY RomAssumption DEF Init, WorldType
<1>2. << >> \in Seq(Nat) /\ << >> \in Seq(Entries) /\ << >> \in Seq(Params) BY EmptySeq
<1>3. FvType
  <2>1. ht \in [0 .. Buckets - 1 -> Seq(Entries)] BY <1>2 DEF Init
  <2>2. left \in 0 .. MaxOrom BY Constants DEF Init
  <2> QED BY <1>2, <2>1, <2>2 DEF Init, FvType, Phases
<1>4. PciType
  <2>1. bd = << >> /\ Len(bd) = 0 /\ d = 1 /\ vga = 0 /\ pc = "file" /\ bot = BaseBot /\ top = BaseTop
    BY DEF Init
  <2>2. Len(devs) \in Nat BY <1>1, LenProperties DEF WorldType
  <2>3. BaseBot \in Nat /\ BaseTop \in Nat /\ BaseBot =< BaseTop BY RomAssumption
  <2>4. decodes \subseteq DOMAIN devs BY DEF Init
  <2> QED BY <1>2, <2>1, <2>2, <2>3, <2>4 DEF PciType, Trying
<1> QED BY <1>1, <1>3, <1>4

Types == WorldType /\ FvType /\ PciType

LEMMA TypesStep == Types /\ [Next]_vars => Types'
BY WorldStep, FvStep, PciStep DEF Types

\* Base memory keeps its marks in order and in the block (pci.c:152-193 with
\* bmem.c), rom_left_sz does not go below 0 (fv.c:137), every image found is of
\* the PC-AT type, and there are no more parameters than devices.
THEOREM TypeCorrect == Spec => []TypeOK
<1>1. Types => TypeOK
  <2> SUFFICES ASSUME Types PROVE TypeOK
    OBVIOUS
  <2>1. pc \in {"file", "section", "image", "cache", "device", "own", "fvs",
               "special", "bars", "stage2", "hello", "error"}
    BY DEF Types, FvType, Phases
  <2>2. {f, s, k, d} \subseteq Nat \ {0} /\ left \in 0 .. MaxOrom BY DEF Types, FvType, PciType
  <2>3. found = NoImage \/ found.type = "pcat" BY DEF Types, FvType, GoodImages
  <2>4. /\ vga \in 0 .. Len(bd) /\ Len(bd) =< Len(devs) /\ decodes \subseteq DOMAIN devs
        /\ BaseBot =< bot /\ bot =< top /\ top =< BaseTop
    BY DEF Types, PciType
  <2> QED BY <2>1, <2>2, <2>3, <2>4 DEF TypeOK
<1>2. Init => Types BY InitTypes DEF Types
<1>3. Types /\ [Next]_vars => Types' BY TypesStep
<1> QED BY <1>1, <1>2, <1>3, PTL DEF Spec

-----------------------------------------------------------------------------
(***************************************************************************)
(* Images in base memory.  Every area that was given out is below bot or   *)
(* above top, so that a new one, taken from what is between them, is apart *)
(* from the others.                                                        *)
(***************************************************************************)
Apart(x, y) == x[2] =< y[1] \/ y[2] =< x[1]

\* The areas of a parameter that was placed between b and t.
Within(p, b, b2, run, t) ==
    \A x \in AreasOf(p) :
        /\ x[1] \in Nat /\ x[2] \in Nat
        /\ (b =< x[1] /\ x[2] =< b2) \/ (run =< x[1] /\ x[2] =< t)
        /\ \A y \in AreasOf(p) : x # y => Apart(x, y)

LEMMA PlacedWithin ==
    ASSUME NEW img \in ImageRecords, NEW from \in {"own", "fv", "shadow"}, NEW at \in Nat,
           NEW b \in Nat, NEW t \in Nat, NEW here, NEW b2, NEW run, NEW n,
           BaseBot =< b, b =< t, t =< BaseTop, at < BaseBot \/ BaseTop =< at,
           PlacedAt(img, at, SizeOf(from, img), b, t, here, b2, run)
    PROVE  Within(Param(n, from, img, here, run), b, b2, run, t)
<1>0. /\ BaseBot \in Nat /\ BaseTop \in Nat /\ BmemMax \in Nat \ {0} /\ BaseTop < BmemMax /\ BaseBot > 0
      /\ HKib \in Nat
  BY Constants
<1>1. PICK sz \in Nat : sz = SizeOf(from, img) BY SizeFacts
<1>2. PICK rt \in Nat : rt = RtSize(img, sz)
  <2>1. img.rt \in Nat BY DEF ImageRecords
  <2>2. img.rt * HKib \in Nat BY <1>0, <2>1
  <2> QED BY <2>2 DEF RtSize
<1>3. /\ here \in Nat /\ b2 \in Nat /\ run \in Nat
      /\ b =< b2 /\ b2 =< run /\ run =< t /\ run + rt =< t
      /\ \/ here = run
         \/ here = RmSeg(at) /\ (sz > BmemMax \/ at =< BmemMax - sz)
         \/ b =< here /\ here + sz =< b2
  BY <1>1, <1>2 DEF PlacedAt
<1> DEFINE copied == here # run /\ BaseBot =< here /\ here < BaseTop /\ sz =< BmemMax
<1>4. AreasOf(Param(n, from, img, here, run))
        \subseteq {<<run, run + rt>>} \cup (IF copied THEN {<<here, here + sz>>} ELSE {})
  <2>1. PICK p : p = Param(n, from, img, here, run) OBVIOUS
  <2>2. p.from = from /\ p.img = img /\ p.at = here /\ p.rt = run BY <2>1 DEF Param
  <2>3. HKib * (IF p.from = "shadow" THEN p.img.legacy ELSE p.img.len) = sz
    BY <1>1, <2>2 DEF SizeOf
  <2>4. (IF p.img.rev >= 3 THEN p.img.rt * HKib ELSE sz) = rt BY <1>2, <2>2 DEF RtSize
  <2>5. CASE copied
    <3>1. p.at # p.rt /\ BaseBot =< p.at /\ p.at < BaseTop /\ sz =< BmemMax BY <2>2, <2>5
    <3> HIDE DEF copied
    <3>2. AreasOf(p) \subseteq {<<p.rt, p.rt + rt>>} \cup {<<p.at, p.at + sz>>}
      BY <2>3, <2>4, <3>1 DEF AreasOf
    <3> QED BY <2>1, <2>2, <2>5, <3>2
  <2>6. CASE ~copied
    <3>1. ~(p.at # p.rt /\ BaseBot =< p.at /\ p.at < BaseTop /\ sz =< BmemMax) BY <2>2, <2>6
    <3> HIDE DEF copied
    <3>2. AreasOf(p) \subseteq {<<p.rt, p.rt + rt>>} BY <2>3, <2>4, <3>1 DEF AreasOf
    <3> QED BY <2>1, <2>2, <2>6, <3>2
  <2> QED BY <2>5, <2>6
<1>5. copied => b =< here /\ here + sz =< b2
  <2>1. SUFFICES ASSUME copied, here = RmSeg(at), at =< BmemMax - sz PROVE FALSE
    BY <1>0, <1>3
  <2>2. at =< BmemMax BY <1>0, <2>1
  <2>3. CASE at < BmemMax
    <3>1. at \in 0 .. BmemMax - 1 BY <1>0, <2>3
    <3>2. at % BmemMax = at BY <1>0, <3>1, ModSmall
    <3> QED BY <1>0, <2>1, <3>2 DEF RmSeg
  <2>4. CASE at = BmemMax
    <3>1. (BmemMax * 1 + 0) % BmemMax = 0
      <4>1. 1 \in Int /\ 0 \in 0 .. BmemMax - 1 BY <1>0
      <4> QED BY <1>0, <4>1, DivModUnique
    <3>2. BmemMax * 1 + 0 = BmemMax BY <1>0
    <3> QED BY <1>0, <2>1, <2>4, <3>1, <3>2 DEF RmSeg
  <2> QED BY <1>0, <2>2, <2>3, <2>4
<1> HIDE DEF copied
<1>6. ASSUME NEW x \in AreasOf(Param(n, from, img, here, run))
      PROVE  \/ x[1] = run /\ x[2] = run + rt /\ x = <<run, run + rt>>
             \/ copied /\ x[1] = here /\ x[2] = here + sz /\ x = <<here, here + sz>>
  BY <1>4, <1>6
<1>7. ASSUME NEW x \in AreasOf(Param(n, from, img, here, run))
      PROVE  /\ x[1] \in Nat /\ x[2] \in Nat
             /\ (b =< x[1] /\ x[2] =< b2) \/ (run =< x[1] /\ x[2] =< t)
  <2>1. CASE x[1] = run /\ x[2] = run + rt BY <1>3, <2>1
  <2>2. CASE copied /\ x[1] = here /\ x[2] = here + sz BY <1>3, <1>5, <2>2
  <2> QED BY <1>6, <2>1, <2>2
<1>8. ASSUME NEW x \in AreasOf(Param(n, from, img, here, run)),
             NEW y \in AreasOf(Param(n, from, img, here, run)), x # y
      PROVE  Apart(x, y)
  <2>1. CASE x[1] = run /\ x[2] = run + rt /\ copied /\ y[1] = here /\ y[2] = here + sz
    BY <1>3, <1>5, <2>1 DEF Apart
  <2>2. CASE y[1] = run /\ y[2] = run + rt /\ copied /\ x[1] = here /\ x[2] = here + sz
    BY <1>3, <1>5, <2>2 DEF Apart
  <2> QED BY <1>6, <1>8, <2>1, <2>2
<1> QED BY <1>7, <1>8 DEF Within

AreaInv ==
    \A n \in 1 .. Len(bd) : \A x \in AreasOf(bd[n]) :
        /\ x[1] \in Nat /\ x[2] \in Nat /\ BaseBot =< x[1] /\ x[2] =< BaseTop
        /\ x[2] =< bot \/ top =< x[1]
        /\ \A m \in 1 .. Len(bd) : \A y \in AreasOf(bd[m]) : <<n, x>> # <<m, y>> => Apart(x, y)

\* Areas stay apart when one device is given areas between bot and top.
LEMMA AreasKept ==
    ASSUME PciType, AreaInv, bot' \in Nat, top' \in Nat, bot =< bot', bot' =< top', top' =< top,
           NEW L \in Nat, Len(bd') = L,
           \A n \in 1 .. L : \/ n = L /\ Within(bd'[n], bot, bot', top', top)
                             \/ n \in 1 .. Len(bd) /\ bd'[n] = bd[n]
    PROVE  AreaInv'
<1>0. /\ BaseBot \in Nat /\ BaseTop \in Nat /\ bot \in Nat /\ top \in Nat
      /\ BaseBot =< bot /\ bot =< top /\ top =< BaseTop
  BY Constants DEF PciType
<1> DEFINE Old(x) == x[1] \in Nat /\ x[2] \in Nat /\ BaseBot =< x[1] /\ x[2] =< BaseTop
                     /\ (x[2] =< bot \/ top =< x[1])
           New(x) == x[1] \in Nat /\ x[2] \in Nat
                     /\ ((bot =< x[1] /\ x[2] =< bot') \/ (top' =< x[1] /\ x[2] =< top))
<1>1. \A n \in 1 .. Len(bd) : \A x \in AreasOf(bd[n]) : Old(x)
  BY DEF AreaInv
<1>2. \A n \in 1 .. Len(bd) : \A x \in AreasOf(bd[n]) :
        \A m \in 1 .. Len(bd) : \A y \in AreasOf(bd[m]) : <<n, x>> # <<m, y>> => Apart(x, y)
  BY DEF AreaInv
<1>3. ASSUME NEW x, Old(x)
      PROVE  /\ x[1] \in Nat /\ x[2] \in Nat /\ BaseBot =< x[1] /\ x[2] =< BaseTop
             /\ x[2] =< bot' \/ top' =< x[1]
  BY <1>0, <1>3
<1>4. ASSUME NEW x, New(x)
      PROVE  /\ x[1] \in Nat /\ x[2] \in Nat /\ BaseBot =< x[1] /\ x[2] =< BaseTop
             /\ x[2] =< bot' \/ top' =< x[1]
  BY <1>0, <1>4
<1>5. ASSUME NEW x, NEW y, Old(x), New(y) PROVE Apart(x, y) /\ Apart(y, x)
  BY <1>0, <1>5 DEF Apart
<1>6. ASSUME NEW n \in 1 .. L, ~(n \in 1 .. Len(bd) /\ bd'[n] = bd[n])
      PROVE  /\ n = L /\ \A x \in AreasOf(bd'[n]) : New(x)
             /\ \A x, y \in AreasOf(bd'[n]) : x # y => Apart(x, y)
  <2>1. n = L /\ Within(bd'[n], bot, bot', top', top) BY <1>6
  <2> QED BY <2>1 DEF Within
<1> HIDE DEF Old, New
<1> SUFFICES ASSUME NEW n \in 1 .. L, NEW x \in AreasOf(bd'[n])
             PROVE  /\ x[1] \in Nat /\ x[2] \in Nat /\ BaseBot =< x[1] /\ x[2] =< BaseTop
                    /\ x[2] =< bot' \/ top' =< x[1]
                    /\ \A m \in 1 .. L : \A y \in AreasOf(bd'[m]) :
                         <<n, x>> # <<m, y>> => Apart(x, y)
  BY DEF AreaInv, AreasOf
<1> DEFINE Same(m) == m \in 1 .. Len(bd) /\ bd'[m] = bd[m]
<1>7. Same(n) => Old(x) BY <1>1
<1>8. ~Same(n) => New(x) /\ n = L BY <1>6
<1>9. ASSUME NEW m \in 1 .. L, NEW y \in AreasOf(bd'[m]), <<n, x>> # <<m, y>>
      PROVE  Apart(x, y)
  <2>1. Same(m) => Old(y) BY <1>1
  <2>2. ~Same(m) => New(y) /\ m = L BY <1>6
  <2>3. CASE Same(n) /\ Same(m) BY <1>2, <1>9, <2>3
  <2>4. CASE Same(n) /\ ~Same(m) BY <1>5, <1>7, <2>2, <2>4
  <2>5. CASE ~Same(n) /\ Same(m) BY <1>5, <1>8, <2>1, <2>5
  <2>6. CASE ~Same(n) /\ ~Same(m)
    <3>1. n = m /\ x # y BY <1>8, <1>9, <2>2, <2>6
    <3> QED BY <1>6, <2>6, <3>1
  <2> QED BY <2>3, <2>4, <2>5, <2>6
<1>10. Old(x) \/ New(x) BY <1>7, <1>8
<1> QED BY <1>3, <1>4, <1>9, <1>10

\* A parameter without an image, and the display's image that stays at 0xc0000,
\* have no areas.
LEMMA NoAreas ==
    ASSUME NEW b, NEW b2, NEW run, NEW t, NEW n
    PROVE  /\ \A p : p.from = "none" => Within(p, b, b2, run, t)
           /\ ~HasPcir(shadow, SizeOf("shadow", shadow)) =>
                Within(Param(n, "shadow", shadow, RmSeg(ShadowAt), RmSeg(ShadowAt)), b, b2, run, t)
<1>1. ASSUME NEW p, p.from = "none" PROVE AreasOf(p) = {}
  BY <1>1 DEF AreasOf
<1>2. ASSUME ~HasPcir(shadow, SizeOf("shadow", shadow)), NEW p,
             p = Param(n, "shadow", shadow, RmSeg(ShadowAt), RmSeg(ShadowAt))
      PROVE  AreasOf(p) = {}
  <2>1. p.from = "shadow" /\ p.img = shadow BY <1>2 DEF Param
  <2>2. HKib * (IF p.from = "shadow" THEN p.img.legacy ELSE p.img.len) = SizeOf("shadow", shadow)
    BY <2>1 DEF SizeOf
  <2> QED BY <1>2, <2>1, <2>2 DEF AreasOf
<1>3. \A p : AreasOf(p) = {} => Within(p, b, b2, run, t) BY DEF Within
<1> QED BY <1>1, <1>2, <1>3

LEMMA AreasStep == Types /\ AreaInv /\ [Next]_vars => AreaInv'
<1> SUFFICES ASSUME Types, AreaInv, [Next]_vars PROVE AreaInv'
  OBVIOUS
<1>0. WorldType /\ FvType /\ PciType BY DEF Types
<1>1. /\ bd \in Seq(Params) /\ Len(bd) \in Nat /\ bot \in Nat /\ top \in Nat /\ bot =< top
      /\ NodeSize \in Nat /\ BaseBot =< bot /\ top =< BaseTop /\ d \in Nat
  BY <1>0, Constants, LenProperties DEF PciType
<1>2. CASE UNCHANGED <<bd, bot, top>>
  <2>1. \A n \in 1 .. Len(bd) : n \in 1 .. Len(bd) /\ bd'[n] = bd[n] BY <1>2
  <2> QED BY <1>0, <1>1, <1>2, <2>1, AreasKept
<1>3. CASE BeginDevice
  <2> DEFINE p == Param(d, "none", NoImage, 0, 0)
  <2>1. bot + NodeSize =< top /\ bot' = bot + NodeSize /\ top' = top /\ bd' = Append(bd, p)
    BY <1>3 DEF BeginDevice
  <2>2. p \in Params /\ p.from = "none" BY <1>1, NoneParam
  <2> HIDE DEF p
  <2>3. /\ Len(bd') = Len(bd) + 1 /\ bd'[Len(bd) + 1] = p
        /\ \A n \in 1 .. Len(bd) : bd'[n] = bd[n]
    BY <1>1, <2>1, <2>2, AppendProperties
  <2>4. Within(p, bot, bot', top', top) BY <2>2, NoAreas
  <2>5. \A n \in 1 .. Len(bd) + 1 : n = Len(bd) + 1 \/ n \in 1 .. Len(bd) BY <1>1
  <2>6. \A n \in 1 .. Len(bd) + 1 : \/ n = Len(bd) + 1 /\ Within(bd'[n], bot, bot', top', top)
                                    \/ n \in 1 .. Len(bd) /\ bd'[n] = bd[n]
    BY <2>3, <2>4, <2>5
  <2>7. bot' \in Nat /\ top' \in Nat /\ bot =< bot' /\ bot' =< top' /\ top' =< top
        /\ Len(bd) + 1 \in Nat
    BY <1>1, <2>1
  <2> QED BY <1>0, <2>3, <2>6, <2>7, AreasKept
<1>4. ASSUME TryAction, ~UNCHANGED <<bd, bot, top>> PROVE AreaInv'
  <2>1. /\ bot' \in Nat /\ top' \in Nat /\ bot =< bot' /\ bot' =< top' /\ top' =< top
    BY <1>0, <1>4, TryOutcome
  <2>2. pc \in Trying BY <1>0, <1>4, TryStep
  <2>3. Len(bd) >= 1 BY <1>0, <2>2 DEF PciType
  <2>4. ASSUME NEW p \in Params, bd' = [bd EXCEPT ![Len(bd)] = p],
               Within(p, bot, bot', top', top)
        PROVE  AreaInv'
    <3>1. /\ Len(bd') = Len(bd) /\ bd'[Len(bd)] = p
          /\ \A n \in 1 .. Len(bd) : n # Len(bd) => bd'[n] = bd[n]
      BY <1>1, <2>3, <2>4, SetLast
    <3>2. \A n \in 1 .. Len(bd) : \/ n = Len(bd) /\ Within(bd'[n], bot, bot', top', top)
                                  \/ n \in 1 .. Len(bd) /\ bd'[n] = bd[n]
      BY <2>4, <3>1
    <3> QED BY <1>0, <1>1, <2>1, <3>1, <3>2, AreasKept
  <2>5. CASE TakenAsIs
    <3>1. PICK p : p = Param(d, "shadow", shadow, RmSeg(ShadowAt), RmSeg(ShadowAt)) OBVIOUS
    <3>2. bd' = [bd EXCEPT ![Len(bd)] = p] BY <2>5, <3>1 DEF TakenAsIs, SetParam
    <3>3. Within(p, bot, bot', top', top) BY <2>5, <3>1, NoAreas DEF TakenAsIs
    <3>4. p \in Params
      <4>1. RmSeg(ShadowAt) \in Nat /\ shadow \in ImageRecords BY <1>0, Constants, SegType DEF WorldType
      <4> QED BY <1>1, <3>1, <4>1, ParamType
    <3> QED BY <2>4, <3>2, <3>3, <3>4
  <2>6. ASSUME NEW from \in {"own", "fv", "shadow"}, NEW img \in ImageRecords, NEW at \in Nat,
               TakenFrom(from, img, at), at < BaseBot \/ BaseTop =< at
        PROVE  AreaInv'
    <3>1. PICK here \in Nat :
            /\ PlacedAt(img, at, SizeOf(from, img), bot, top, here, bot', top')
            /\ IF here = 0
               THEN pc' \in {"fvs", "special", "bars"} /\ SetParam("none", NoImage, 0, 0)
               ELSE pc' = "bars" /\ SetParam(from, img, here, top')
      BY <2>6 DEF TakenFrom
    <3>2. CASE here = 0
      <4>1. PICK p : p = Param(d, "none", NoImage, 0, 0) OBVIOUS
      <4>2. p \in Params /\ p.from = "none" BY <1>1, <4>1, NoneParam
      <4>3. bd' = [bd EXCEPT ![Len(bd)] = p] BY <3>1, <3>2, <4>1 DEF SetParam
      <4>4. Within(p, bot, bot', top', top) BY <4>2, NoAreas
      <4> QED BY <2>4, <4>2, <4>3, <4>4
    <3>3. CASE here # 0
      <4>1. PICK p : p = Param(d, from, img, here, top') OBVIOUS
      <4>2. p \in Params BY <1>1, <2>1, <4>1, ParamType
      <4>3. bd' = [bd EXCEPT ![Len(bd)] = p] BY <3>1, <3>3, <4>1 DEF SetParam
      <4>4. Within(p, bot, bot', top', top) BY <1>1, <2>6, <3>1, <4>1, PlacedWithin
      <4> QED BY <2>4, <4>2, <4>3, <4>4
    <3> QED BY <3>2, <3>3
  <2> QED BY <1>0, <1>4, <2>5, <2>6, TryStep
<1>5. CASE Gather \/ SkipDevice \/ BeginDeviceError \/ Bars \/ PciDone \/ RimgInit \/ Hello
           \/ UNCHANGED vars
  <2>1. UNCHANGED <<bd, bot, top>>
    BY <1>5 DEF Gather, NextFile, FvDone, NextSection, ScanImage, SectionDone, CacheRimg,
                CacheDone, CacheError, SkipDevice, BeginDeviceError, Bars, PciDone, RimgInit, Hello,
                vars, pciVars
  <2> QED BY <1>2, <2>1
<1> QED BY <1>2, <1>3, <1>4, <1>5 DEF Next, Work, ProcessPci, Stopped, TryAction

\* No image, when it runs, overwrites another one or the base memory of others
\* (pci.c:152-193 with bmem.c): whatever images there are and however they are
\* placed, their areas lie in the block and are apart.
THEOREM ImagesApart == Spec => []RomsApart
<1>1. Init => AreaInv
  <2>1. Init => Len(bd) = 0 BY DEF Init
  <2> QED BY <2>1 DEF AreaInv
<1>2. Types /\ AreaInv => RomsApart
  <2> SUFFICES ASSUME Types, AreaInv PROVE RomsApart
    OBVIOUS
  <2>1. DOMAIN bd = 1 .. Len(bd) BY LenProperties DEF Types, PciType
  <2>2. Finished \subseteq 1 .. Len(bd) BY <2>1 DEF Finished
  <2>3. \A n \in Finished : \A x \in AreasOf(bd[n]) :
          /\ BaseBot =< x[1] /\ x[2] =< BaseTop
          /\ \A m \in Finished : \A y \in AreasOf(bd[m]) :
               <<n, x>> # <<m, y>> => x[2] =< y[1] \/ y[2] =< x[1]
    <3> HIDE DEF Finished
    <3> QED BY <2>2 DEF AreaInv, Apart
  <2> QED BY <2>3 DEF RomsApart
<1>3. Init => Types BY InitTypes DEF Types
<1> QED BY <1>1, <1>2, <1>3, TypesStep, AreasStep, PTL DEF Spec

-----------------------------------------------------------------------------
(***************************************************************************)
(* The display controller.  No other device is made to decode the legacy   *)
(* addresses, since one is only made to while vga is 0, and the device     *)
(* that a parameter is for does not change.                                *)
(***************************************************************************)
\* Of the first n parameters, those whose images stage 2 calls.
Called(ds, b, n) == {b[m] : m \in {i \in 1 .. n : ds[b[i].dev].class \in Displays /\ b[i].at # 0}}

VgaInv ==
    /\ vga # 0 => devs[bd[vga].dev].class \in Displays /\ bd[vga].dev \in decodes
    /\ \A n \in decodes : devs[n].decodes \/ (vga # 0 /\ n = bd[vga].dev)
    /\ pc \in {"stage2", "hello"} => vga # 0 /\ bd[vga].at # 0
    /\ calls \in Seq(Params)
    /\ pc \notin {"stage2", "hello"} => calls = << >>
    /\ pc = "stage2" => d =< Len(bd) + 1 /\ Range(calls) = Called(devs, bd, d - 1)
    /\ pc = "hello" => Range(calls) = Called(devs, bd, Len(bd))

LEMMA RangeAppend ==
    ASSUME NEW S, NEW q \in Seq(S), NEW e \in S
    PROVE  Range(Append(q, e)) = Range(q) \cup {e}
<1>1. /\ Append(q, e) \in Seq(S) /\ Len(Append(q, e)) = Len(q) + 1
      /\ \A n \in 1 .. Len(q) : Append(q, e)[n] = q[n]
      /\ Append(q, e)[Len(q) + 1] = e
  BY AppendProperties
<1>2. Len(q) \in Nat /\ DOMAIN q = 1 .. Len(q) BY LenProperties
<1>3. DOMAIN Append(q, e) = 1 .. Len(q) + 1 BY <1>1, LenProperties
<1>4. 1 .. Len(q) + 1 = (1 .. Len(q)) \cup {Len(q) + 1} BY <1>2
<1> QED BY <1>1, <1>2, <1>3, <1>4 DEF Range

\* Which device a parameter is for stays as it is.
LEMMA DevKept ==
    ASSUME Types, TryAction
    PROVE  /\ Len(bd') = Len(bd) /\ \A n \in 1 .. Len(bd) : bd'[n].dev = bd[n].dev
           /\ \A n \in 1 .. Len(bd) : n # Len(bd) => bd'[n] = bd[n]
<1>0. WorldType /\ FvType /\ PciType BY DEF Types
<1>1. pc \in Trying BY <1>0, TryStep
<1>2. Len(bd) >= 1 /\ bd[Len(bd)].dev = d /\ bd \in Seq(Params) BY <1>0, <1>1 DEF PciType
<1>3. CASE bd' = bd BY <1>3
<1>4. ASSUME NEW p \in Params, bd' = [bd EXCEPT ![Len(bd)] = p], p.dev = d
      PROVE  /\ Len(bd') = Len(bd) /\ \A n \in 1 .. Len(bd) : bd'[n].dev = bd[n].dev
             /\ \A n \in 1 .. Len(bd) : n # Len(bd) => bd'[n] = bd[n]
  <2>1. /\ Len(bd') = Len(bd) /\ bd'[Len(bd)] = p
        /\ \A n \in 1 .. Len(bd) : n # Len(bd) => bd'[n] = bd[n]
    BY <1>2, <1>4, SetLast
  <2> QED BY <1>2, <1>4, <2>1
<1> QED BY <1>0, <1>3, <1>4, TryOutcome

LEMMA VgaStep == Types /\ VgaInv /\ [Next]_vars => VgaInv'
<1> SUFFICES ASSUME Types, VgaInv, [Next]_vars PROVE VgaInv'
  OBVIOUS
<1>0. WorldType /\ FvType /\ PciType BY DEF Types
<1>1. devs' = devs BY <1>0, WorldStep DEF world
<1>2. /\ bd \in Seq(Params) /\ Len(bd) \in Nat /\ vga \in 0 .. Len(bd) /\ d \in Nat \ {0}
      /\ DOMAIN bd = 1 .. Len(bd)
  BY <1>0, LenProperties DEF PciType
<1>3. CASE Gather \/ SkipDevice \/ BeginDeviceError \/ Bars
  <2>1. pc \notin {"stage2", "hello"} /\ pc' \notin {"stage2", "hello"}
        /\ UNCHANGED <<bd, vga, decodes, calls>>
    BY <1>3 DEF Gather, NextFile, FvDone, NextSection, ScanImage, SectionDone, CacheRimg,
                CacheDone, CacheError, SkipDevice, BeginDeviceError, Bars, pciVars
  <2> QED BY <1>1, <2>1 DEF VgaInv
<1>4. CASE BeginDevice
  <2> DEFINE p == Param(d, "none", NoImage, 0, 0)
  <2>1. /\ pc = "device" /\ pc' = "own" /\ calls' = calls /\ bd' = Append(bd, p)
        /\ \/ WantsVga /\ CanVga(devs[d]) /\ vga' = Len(bd') /\ decodes' = decodes \cup {d}
           \/ UNCHANGED <<vga, decodes>>
    BY <1>4 DEF BeginDevice
  <2>2. p \in Params /\ p.dev = d BY <1>2, NoneParam
  <2> HIDE DEF p
  <2>3. /\ Len(bd') = Len(bd) + 1 /\ bd'[Len(bd) + 1] = p
        /\ \A n \in 1 .. Len(bd) : bd'[n] = bd[n]
    BY <1>2, <2>1, <2>2, AppendProperties
  <2>4. CASE WantsVga /\ CanVga(devs[d]) /\ vga' = Len(bd') /\ decodes' = decodes \cup {d}
    <3>1. vga = 0 /\ devs[d].class \in Displays BY <2>4 DEF WantsVga, CanVga
    <3>2. vga' # 0 /\ bd'[vga'].dev = d /\ d \in decodes' BY <1>2, <2>2, <2>3, <2>4
    <3>3. \A n \in decodes' : devs[n].decodes \/ n = d BY <2>4, <3>1 DEF VgaInv
    <3> QED BY <1>1, <2>1, <3>1, <3>2, <3>3 DEF VgaInv
  <2>5. CASE UNCHANGED <<vga, decodes>>
    <3>1. vga # 0 => bd'[vga] = bd[vga] BY <1>2, <2>3
    <3> QED BY <1>1, <2>1, <2>5, <3>1 DEF VgaInv
  <2> QED BY <2>1, <2>4, <2>5
<1>5. CASE TryAction
  <2>1. pc \in Trying /\ UNCHANGED <<vga, decodes, calls>> BY <1>0, <1>5, TryStep
  <2>2. pc' \in {"error", "fvs", "special", "bars"} BY <1>0, <1>5, TryOutcome
  <2>3. vga # 0 => bd'[vga].dev = bd[vga].dev
    <3>1. \A n \in 1 .. Len(bd) : bd'[n].dev = bd[n].dev BY <1>5, DevKept
    <3>2. vga # 0 => vga \in 1 .. Len(bd) BY <1>2
    <3> QED BY <3>1, <3>2
  <2> QED BY <1>1, <2>1, <2>2, <2>3 DEF VgaInv, Trying
<1>6. CASE PciDone
  <2>1. pc = "device" /\ UNCHANGED <<bd, vga, decodes, calls>> BY <1>6 DEF PciDone
  <2>2. \/ pc' = "error"
        \/ pc' = "stage2" /\ d' = 1 /\ vga # 0 /\ bd[vga].at # 0
    BY <1>6 DEF PciDone
  <2>3. calls = << >> BY <2>1 DEF VgaInv
  <2>4. d' = 1 => d' =< Len(bd') + 1 /\ Range(calls') = Called(devs, bd, d' - 1)
    <3>1. Range(calls) = {} BY <2>3 DEF Range
    <3>2. 1 .. 0 = {} OBVIOUS
    <3>3. {m \in 1 .. 0 : devs[bd[m].dev].class \in Displays /\ bd[m].at # 0} = {} BY <3>2
    <3>4. Called(devs, bd, 0) = {} BY <3>3 DEF Called
    <3>5. d' = 1 => d' - 1 = 0 OBVIOUS
    <3> QED BY <1>2, <2>1, <3>1, <3>4, <3>5
  <2> QED BY <1>1, <2>1, <2>2, <2>3, <2>4 DEF VgaInv
<1>7. CASE RimgInit
  <2> DEFINE Fit(m) == devs[bd[m].dev].class \in Displays /\ bd[m].at # 0
  <2>1. /\ pc = "stage2" /\ pc' = pc /\ d =< Len(bd) /\ d' = d + 1
        /\ UNCHANGED <<bd, vga, decodes>>
        /\ calls' = IF Fit(d) THEN Append(calls, bd[d]) ELSE calls
    BY <1>7 DEF RimgInit
  <2>2. calls \in Seq(Params) /\ Range(calls) = Called(devs, bd, d - 1) BY <2>1 DEF VgaInv
  <2>3. bd[d] \in Params BY <1>2, <2>1, ElementOfSeq
  <2> DEFINE fits(n) == {m \in 1 .. n : Fit(m)}
  <2> HIDE DEF Fit
  <2>4. fits(d) = fits(d - 1) \cup (IF Fit(d) THEN {d} ELSE {})
    <3>1. 1 .. d = (1 .. d - 1) \cup {d} BY <1>2
    <3> QED BY <3>1
  <2>5. Called(devs, bd, d) = {bd[m] : m \in fits(d)} /\ Called(devs, bd, d - 1) = {bd[m] : m \in fits(d - 1)}
    BY DEF Called, Fit
  <2>6. Range(calls') = Called(devs, bd, d) /\ calls' \in Seq(Params)
    <3> HIDE DEF fits
    <3>1. CASE Fit(d)
      <4>1. Range(calls') = Range(calls) \cup {bd[d]} /\ calls' \in Seq(Params)
        BY <2>1, <2>2, <2>3, <3>1, RangeAppend, AppendProperties
      <4> QED BY <2>2, <2>4, <2>5, <3>1, <4>1
    <3>2. CASE ~Fit(d)
      <4>1. fits(d) = fits(d - 1) BY <2>4, <3>2
      <4> QED BY <2>1, <2>2, <2>5, <3>2, <4>1
    <3> QED BY <3>1, <3>2
  <2>8. d' - 1 = d BY <1>2, <2>1
  <2>9. d' =< Len(bd') + 1 BY <1>2, <2>1
  <2> QED BY <1>1, <2>1, <2>6, <2>8, <2>9 DEF VgaInv
<1>8. CASE Hello
  <2>1. pc = "stage2" /\ pc' = "hello" /\ d > Len(bd) /\ UNCHANGED <<bd, vga, decodes, calls>>
    BY <1>8 DEF Hello, pciVars
  <2>2. d - 1 = Len(bd) /\ Range(calls) = Called(devs, bd, d - 1) BY <1>2, <2>1 DEF VgaInv
  <2> QED BY <1>1, <2>1, <2>2 DEF VgaInv
<1>9. CASE UNCHANGED vars BY <1>9 DEF vars, world, pciVars, VgaInv
<1> QED BY <1>3, <1>4, <1>5, <1>6, <1>7, <1>8, <1>9 DEF Next, Work, ProcessPci, Stopped, TryAction

\* Stage 2 is started only with a display controller that decodes the legacy
\* addresses and has an image (pci.c:392-395), no other device was made to
\* decode them (pci.c:298-301), and the images called before the greeting are
\* those of the displays (stage2/main.c:36-79).
THEOREM DisplayReady == Spec => []VgaReady
<1>1. Init => VgaInv
  <2>1. << >> \in Seq(Params) BY EmptySeq
  <2> QED BY <2>1 DEF Init, VgaInv
<1>2. Types /\ VgaInv => VgaReady
  <2> SUFFICES ASSUME Types, VgaInv PROVE VgaReady
    OBVIOUS
  <2>1. DOMAIN bd = 1 .. Len(bd) BY LenProperties DEF Types, PciType
  <2> QED BY <2>1 DEF VgaInv, VgaReady, Called
<1>3. Init => Types BY InitTypes DEF Types
<1> QED BY <1>1, <1>2, <1>3, TypesStep, VgaStep, PTL DEF Spec

-----------------------------------------------------------------------------
(***************************************************************************)
(* Which image a device gets.  The hash table is looked at through         *)
(* Find(): the first match in a bucket's list is the last one that was     *)
(* cached, since entries go to the front of the list.                      *)
(***************************************************************************)
ListHits(list, id, class) == {n \in DOMAIN list : Matches(list[n], id, class)}

Find(h, id, class) ==
    LET list == h[Bucket(id, class)] IN
    IF ListHits(list, id, class) = {} THEN NoImage
    ELSE list[Min(ListHits(list, id, class))].img

\* Either there is no match in a list and in the entries made, or the first one
\* in the list is the last one made.
FirstIsLast(list, made, id, class) ==
    \/ /\ \A n \in 1 .. Len(list) : ~Matches(list[n], id, class)
       /\ \A m \in 1 .. Len(made) : ~Matches(made[m], id, class)
    \/ \E n \in 1 .. Len(list), m \in 1 .. Len(made) :
         /\ Matches(list[n], id, class) /\ list[n] = made[m]
         /\ \A i \in 1 .. n - 1 : ~Matches(list[i], id, class)
         /\ \A i \in m + 1 .. Len(made) : ~Matches(made[i], id, class)

CacheInv ==
    \A id \in Nat, class \in Nat : FirstIsLast(ht[Bucket(id, class)], cached, id, class)

LEMMA MinMaxIs ==
    ASSUME NEW S, S \subseteq Int, NEW x \in S
    PROVE  /\ (\A y \in S : x =< y) => Min(S) = x
           /\ (\A y \in S : y =< x) => Max(S) = x
<1>1. ASSUME \A y \in S : x =< y PROVE Min(S) = x
  <2>1. Min(S) \in S /\ \A y \in S : Min(S) =< y BY <1>1 DEF Min
  <2>2. PICK v : v = Min(S) OBVIOUS
  <2>3. v \in Int /\ x \in Int /\ x =< v /\ v =< x BY <1>1, <2>1, <2>2
  <2>4. v = x BY <2>3
  <2> QED BY <2>2, <2>4
<1>2. ASSUME \A y \in S : y =< x PROVE Max(S) = x
  <2>1. Max(S) \in S /\ \A y \in S : Max(S) >= y BY <1>2 DEF Max
  <2>2. PICK v : v = Max(S) OBVIOUS
  <2>3. v \in Int /\ x \in Int /\ x =< v /\ v =< x BY <1>2, <2>1, <2>2
  <2>4. v = x BY <2>3
  <2> QED BY <2>2, <2>4
<1> QED BY <1>1, <1>2

\* An entry goes to the front of its list.
LEMMA FrontIsLast ==
    ASSUME NEW list \in Seq(Entries), NEW made \in Seq(Entries), NEW e \in Entries,
           NEW id, NEW class, FirstIsLast(list, made, id, class)
    PROVE  /\ FirstIsLast(<<e>> \o list, Append(made, e), id, class)
           /\ ~Matches(e, id, class) => FirstIsLast(list, Append(made, e), id, class)
<1> DEFINE M(x) == Matches(x, id, class)
           l2 == <<e>> \o list
           m2 == Append(made, e)
<1>1. Len(list) \in Nat /\ Len(made) \in Nat BY LenProperties
<1>2. /\ Len(l2) = Len(list) + 1 /\ l2[1] = e
      /\ \A n \in 1 .. Len(list) : l2[n + 1] = list[n]
  <2>1. <<e>> \in Seq(Entries) /\ Len(<<e>>) = 1 OBVIOUS
  <2>2. /\ Len(l2) = 1 + Len(list)
        /\ \A i \in 1 .. 1 + Len(list) : l2[i] = IF i =< 1 THEN <<e>>[i] ELSE list[i - 1]
    BY <2>1, ConcatProperties
  <2> HIDE DEF l2
  <2>3. l2[1] = e
    <3>1. 1 \in 1 .. 1 + Len(list) BY <1>1
    <3> QED BY <2>2, <3>1
  <2>4. ASSUME NEW n \in 1 .. Len(list) PROVE l2[n + 1] = list[n]
    <3>1. n + 1 \in 1 .. 1 + Len(list) /\ ~(n + 1 =< 1) /\ (n + 1) - 1 = n BY <1>1
    <3> QED BY <2>2, <3>1
  <2> QED BY <1>1, <2>2, <2>3, <2>4
<1>3. /\ Len(m2) = Len(made) + 1 /\ m2[Len(made) + 1] = e
      /\ \A n \in 1 .. Len(made) : m2[n] = made[n]
  BY AppendProperties
<1> HIDE DEF l2, m2, M
<1>4. \A n \in 1 .. Len(l2) : n = 1 \/ (n - 1 \in 1 .. Len(list) /\ l2[n] = list[n - 1])
  <2>1. ASSUME NEW n \in 1 .. Len(l2), n # 1
        PROVE  n - 1 \in 1 .. Len(list) /\ l2[n] = list[n - 1]
    <3>1. n - 1 \in 1 .. Len(list) /\ (n - 1) + 1 = n BY <1>1, <1>2, <2>1
    <3> QED BY <1>2, <3>1
  <2> QED BY <2>1
<1>5. \A n \in 1 .. Len(m2) : n = Len(made) + 1 \/ (n \in 1 .. Len(made) /\ m2[n] = made[n])
  BY <1>1, <1>3
<1>6. CASE M(e)
  <2>1. /\ 1 \in 1 .. Len(l2) /\ Len(m2) \in 1 .. Len(m2) /\ M(l2[1]) /\ l2[1] = m2[Len(m2)]
    BY <1>1, <1>2, <1>3, <1>6
  <2>2. 1 .. 1 - 1 = {} /\ Len(m2) + 1 .. Len(m2) = {} BY <1>1, <1>3
  <2>3. \E n \in 1 .. Len(l2), m \in 1 .. Len(m2) :
           /\ M(l2[n]) /\ l2[n] = m2[m]
           /\ \A i \in 1 .. n - 1 : ~M(l2[i])
           /\ \A i \in m + 1 .. Len(m2) : ~M(m2[i])
    BY <2>1, <2>2
  <2> QED BY <1>6, <2>3 DEF FirstIsLast, M, l2, m2
<1>7. CASE ~M(e)
  <2>1. CASE /\ \A n \in 1 .. Len(list) : ~M(list[n])
             /\ \A m \in 1 .. Len(made) : ~M(made[m])
    <3>1. \A m \in 1 .. Len(m2) : ~M(m2[m]) BY <1>3, <1>5, <1>7, <2>1
    <3>2. \A n \in 1 .. Len(l2) : ~M(l2[n]) BY <1>2, <1>4, <1>7, <2>1
    <3> QED BY <2>1, <3>1, <3>2 DEF FirstIsLast, M, l2, m2
  <2>2. ASSUME NEW n \in 1 .. Len(list), NEW m \in 1 .. Len(made),
               M(list[n]), list[n] = made[m],
               \A i \in 1 .. n - 1 : ~M(list[i]),
               \A i \in m + 1 .. Len(made) : ~M(made[i])
        PROVE  FirstIsLast(l2, m2, id, class) /\ FirstIsLast(list, m2, id, class)
    <3>1. m \in 1 .. Len(m2) /\ m2[m] = list[n] BY <1>1, <1>3, <2>2
    <3>2. \A i \in m + 1 .. Len(m2) : ~M(m2[i])
      <4>1. SUFFICES ASSUME NEW i \in m + 1 .. Len(m2) PROVE ~M(m2[i])
        OBVIOUS
      <4>2. i \in 1 .. Len(m2) BY <1>1, <1>3
      <4>3. i \in 1 .. Len(made) => i \in m + 1 .. Len(made) BY <1>1
      <4> QED BY <1>3, <1>5, <1>7, <2>2, <4>2, <4>3
    <3>3. n + 1 \in 1 .. Len(l2) /\ l2[n + 1] = list[n] BY <1>1, <1>2
    <3>4. \A i \in 1 .. (n + 1) - 1 : ~M(l2[i])
      <4>1. SUFFICES ASSUME NEW i \in 1 .. (n + 1) - 1 PROVE ~M(l2[i])
        OBVIOUS
      <4>2. i \in 1 .. Len(l2) BY <1>1, <1>2
      <4>3. i # 1 => i - 1 \in 1 .. n - 1 BY <1>1
      <4> QED BY <1>2, <1>4, <1>7, <2>2, <4>2, <4>3
    <3>5. \E i \in 1 .. Len(list), j \in 1 .. Len(m2) :
             /\ M(list[i]) /\ list[i] = m2[j]
             /\ \A x \in 1 .. i - 1 : ~M(list[x])
             /\ \A x \in j + 1 .. Len(m2) : ~M(m2[x])
      BY <2>2, <3>1, <3>2
    <3>6. \E i \in 1 .. Len(l2), j \in 1 .. Len(m2) :
             /\ M(l2[i]) /\ l2[i] = m2[j]
             /\ \A x \in 1 .. i - 1 : ~M(l2[x])
             /\ \A x \in j + 1 .. Len(m2) : ~M(m2[x])
      BY <2>2, <3>1, <3>2, <3>3, <3>4
    <3> QED BY <3>5, <3>6 DEF FirstIsLast, M
  <2> QED BY <2>1, <2>2 DEF FirstIsLast, M, l2, m2
<1> QED BY <1>6, <1>7 DEF M, l2, m2

LEMMA CacheStep == Types /\ CacheInv /\ [Next]_vars => CacheInv'
<1> SUFFICES ASSUME Types, CacheInv, [Next]_vars PROVE CacheInv'
  OBVIOUS
<1>0. WorldType /\ FvType /\ PciType BY DEF Types
<1>1. CASE UNCHANGED <<ht, cached>> BY <1>1 DEF CacheInv
<1>2. CASE CacheRimg
  <2>1. pc = "cache" /\ pending # << >> BY <1>2 DEF CacheRimg
  <2> DEFINE e == Entry(Head(pending))
             b == Bucket(e.id, e.class)
  <2>2. \/ UNCHANGED <<ht, cached>>
        \/ ht' = [ht EXCEPT ![b] = <<e>> \o @] /\ cached' = Append(cached, e)
    BY <1>2, Zenon DEF CacheRimg
  <2>3. e \in Entries BY <1>0, <2>1, EntryType
  <2>4. ht \in [0 .. Buckets - 1 -> Seq(Entries)] /\ cached \in Seq(Entries) BY <1>0 DEF FvType
  <2> HIDE DEF e
  <2>5. CASE ht' = [ht EXCEPT ![b] = <<e>> \o @] /\ cached' = Append(cached, e)
    <3> SUFFICES ASSUME NEW id \in Nat, NEW class \in Nat
                 PROVE  FirstIsLast(ht'[Bucket(id, class)], cached', id, class)
      BY DEF CacheInv
    <3>1. Bucket(id, class) \in 0 .. Buckets - 1 BY BucketType
    <3>2. PICK c \in 0 .. Buckets - 1 : c = Bucket(id, class) BY <3>1
    <3>3. ht[c] \in Seq(Entries) BY <2>4
    <3>4. FirstIsLast(ht[c], cached, id, class) BY <3>2 DEF CacheInv
    <3>5. Matches(e, id, class) => b = c BY <3>2 DEF Matches
    <3>6. ht'[c] = IF c = b THEN <<e>> \o ht[c] ELSE ht[c] BY <2>4, <2>5
    <3> HIDE DEF b
    <3>7. FirstIsLast(ht'[c], cached', id, class)
      BY <2>3, <2>4, <2>5, <3>3, <3>4, <3>5, <3>6, FrontIsLast
    <3> QED BY <3>2, <3>7
  <2> QED BY <1>1, <2>2, <2>5
<1>3. CASE NextFile \/ FvDone \/ NextSection \/ ScanImage \/ SectionDone \/ CacheDone
           \/ CacheError \/ ProcessPci \/ RimgInit \/ Hello \/ UNCHANGED vars
  <2>1. UNCHANGED <<ht, cached>>
    <3>1. CASE ProcessPci \/ RimgInit \/ Hello BY <3>1, PciPhases DEF fvVars
    <3>2. CASE NextFile \/ FvDone \/ NextSection \/ ScanImage \/ SectionDone \/ CacheDone
               \/ CacheError \/ UNCHANGED vars
      BY <3>2 DEF NextFile, FvDone, NextSection, ScanImage, SectionDone, CacheDone, CacheError,
                  vars, fvVars
    <3> QED BY <1>3, <3>1, <3>2
  <2> QED BY <1>1, <2>1
<1> QED BY <1>2, <1>3 DEF Next, Work, Gather, Stopped

\* fv_find_rimg() finds the image that was cached last.
LEMMA FindsLast ==
    ASSUME FvType, CacheInv, NEW id \in Nat, NEW class \in Nat, NEW hits,
           hits = {c \in DOMAIN cached : cached[c].id = id /\ cached[c].class = class}
    PROVE  /\ hits = {} <=> Find(ht, id, class) = NoImage
           /\ hits # {} => Find(ht, id, class) = cached[Max(hits)].img
<1>1. PICK b \in 0 .. Buckets - 1 : b = Bucket(id, class) BY BucketType
<1>2. PICK list \in Seq(Entries) : list = ht[b] BY <1>1 DEF FvType
<1>3. FirstIsLast(list, cached, id, class) BY <1>1, <1>2 DEF CacheInv
<1>4. cached \in Seq(Entries) BY DEF FvType
<1>5. /\ DOMAIN list = 1 .. Len(list) /\ Len(list) \in Nat
      /\ DOMAIN cached = 1 .. Len(cached) /\ Len(cached) \in Nat
  BY <1>2, <1>4, LenProperties
<1>6. PICK lh : lh = ListHits(list, id, class) OBVIOUS
<1>7. Find(ht, id, class) = IF lh = {} THEN NoImage ELSE list[Min(lh)].img
  BY <1>1, <1>2, <1>6 DEF Find
<1>8. \A n : n \in lh <=> n \in 1 .. Len(list) /\ Matches(list[n], id, class)
  BY <1>5, <1>6 DEF ListHits
<1>9. \A m : m \in hits <=> m \in 1 .. Len(cached) /\ Matches(cached[m], id, class)
  BY <1>5 DEF Matches
<1>10. lh \subseteq Int /\ hits \subseteq Int BY <1>8, <1>9
<1>11. CASE /\ \A n \in 1 .. Len(list) : ~Matches(list[n], id, class)
            /\ \A m \in 1 .. Len(cached) : ~Matches(cached[m], id, class)
  BY <1>7, <1>8, <1>9, <1>11
<1>12. ASSUME NEW n \in 1 .. Len(list), NEW m \in 1 .. Len(cached),
              Matches(list[n], id, class), list[n] = cached[m],
              \A i \in 1 .. n - 1 : ~Matches(list[i], id, class),
              \A i \in m + 1 .. Len(cached) : ~Matches(cached[i], id, class)
       PROVE  /\ hits = {} <=> Find(ht, id, class) = NoImage
              /\ hits # {} => Find(ht, id, class) = cached[Max(hits)].img
  <2>1. n \in lh /\ m \in hits BY <1>8, <1>9, <1>12
  <2>2. ASSUME NEW y \in lh PROVE n =< y
    <3>1. y \in 1 .. Len(list) /\ y \notin 1 .. n - 1 BY <1>8, <1>12
    <3> QED BY <1>5, <3>1
  <2>3. ASSUME NEW y \in hits PROVE y =< m
    <3>1. y \in 1 .. Len(cached) /\ y \notin m + 1 .. Len(cached) BY <1>9, <1>12
    <3> QED BY <1>5, <3>1
  <2>4. Min(lh) = n BY <1>10, <2>1, <2>2, MinMaxIs
  <2>5. Max(hits) = m BY <1>10, <2>1, <2>3, MinMaxIs
  <2>6. Find(ht, id, class) = cached[m].img BY <1>7, <1>12, <2>1, <2>4
  <2>7. cached[m] \in Entries BY <1>4, <1>5, ElementOfSeq
  <2>8. cached[m].img # NoImage BY <2>7, GoodType DEF Entries
  <2> QED BY <2>1, <2>5, <2>6, <2>8
<1> QED BY <1>3, <1>11, <1>12 DEF FirstIsLast

\* What a device should get, from the hash table h and what is at 0xc0000.
Wanted(h, sh, dev) ==
    IF OwnUsable(dev) THEN <<"own", dev.rom>>
    ELSE IF Find(h, dev.id, dev.class) # NoImage THEN <<"fv", Find(h, dev.id, dev.class)>>
    ELSE IF dev.id = VboxId /\ HasHeader(sh) THEN <<"shadow", sh>>
    ELSE <<"none", NoImage>>

\* Not one of the ROMs of 1 MiB and more.
Small(dev) == dev.rom.len * HKib < BmemMax

Gets(h, ds, sh, p) == Small(ds[p.dev]) => <<p.from, p.img>> = Wanted(h, sh, ds[p.dev])

GetInv ==
    /\ pc \in Trying => bd[Len(bd)].img = NoImage
    /\ pc \in {"fvs", "special"} => ~(Small(devs[d]) /\ OwnUsable(devs[d]))
    /\ pc = "special" => Find(ht, devs[d].id, devs[d].class) = NoImage
    /\ \A n \in Finished : Gets(ht, devs, shadow, bd[n])

\* The segment of an image that was placed is not 0.
LEMMA SegmentIsSet ==
    ASSUME NEW img, NEW at \in Nat, NEW sz \in Nat, NEW b \in Nat, NEW t, NEW here, NEW b2, NEW run,
           BaseBot =< b, PlacedAt(img, at, sz, b, t, here, b2, run), at # 0,
           at < BmemMax \/ (sz > 0 /\ sz =< BmemMax)
    PROVE  here # 0
<1>0. BaseBot \in Nat /\ BaseBot > 0 /\ BmemMax \in Nat \ {0} BY Constants
<1>1. /\ here \in Nat /\ b2 \in Nat /\ run \in Nat /\ b =< b2 /\ b2 =< run
      /\ \/ here = run
         \/ here = RmSeg(at) /\ (sz > BmemMax \/ at =< BmemMax - sz)
         \/ b =< here
  BY DEF PlacedAt
<1>2. CASE here = run \/ b =< here BY <1>0, <1>1, <1>2
<1>3. CASE here = RmSeg(at) /\ (sz > BmemMax \/ at =< BmemMax - sz)
  <2>1. at < BmemMax BY <1>0, <1>3
  <2>2. at \in 0 .. BmemMax - 1 BY <1>0, <2>1
  <2>3. at % BmemMax = at BY <1>0, <2>2, ModSmall
  <2> QED BY <1>3, <2>3 DEF RmSeg
<1> QED BY <1>1, <1>2, <1>3

\* So an image that is taken is the one the device is left with.
LEMMA TakenIsKept ==
    ASSUME Types, NEW from, NEW img \in ImageRecords, NEW at \in Nat, TakenFrom(from, img, at),
           at # 0, from \in {"own", "fv", "shadow"},
           at < BmemMax \/ (SizeOf(from, img) > 0 /\ SizeOf(from, img) =< BmemMax)
    PROVE  pc' = "bars" /\ \E here \in Nat : SetParam(from, img, here, top')
<1>1. PICK here \in Nat :
        /\ PlacedAt(img, at, SizeOf(from, img), bot, top, here, bot', top')
        /\ IF here = 0
           THEN pc' \in {"fvs", "special", "bars"} /\ SetParam("none", NoImage, 0, 0)
           ELSE pc' = "bars" /\ SetParam(from, img, here, top')
  BY DEF TakenFrom
<1>2. bot \in Nat /\ BaseBot =< bot BY DEF Types, PciType
<1>3. SizeOf(from, img) \in Nat BY SizeFacts
<1>4. here # 0 BY <1>1, <1>2, <1>3, SegmentIsSet
<1> QED BY <1>1, <1>4

LEMMA FindIs ==
    ASSUME NEW id, NEW class
    PROVE  FvFindRimg(id, class) = Find(ht, id, class)
BY DEF FvFindRimg, Find, ListHits

\* The tries are made in their order, and the one that is to succeed does.
LEMMA TryGets ==
    ASSUME Types, GetInv, TryAction, pc' # "error", Small(devs[d])
    PROVE  \/ /\ pc' = "fvs" /\ bd' = bd /\ ~OwnUsable(devs[d])
           \/ /\ pc' = "special" /\ bd' = bd /\ ~OwnUsable(devs[d])
              /\ Find(ht, devs[d].id, devs[d].class) = NoImage
           \/ /\ pc' = "bars"
              /\ <<bd'[Len(bd)].from, bd'[Len(bd)].img>> = Wanted(ht, shadow, devs[d])
<1>0. WorldType /\ FvType /\ PciType BY DEF Types
<1>1. pc \in Trying BY <1>0, TryStep
<1>2. /\ d \in DOMAIN devs /\ Len(bd) >= 1 /\ bd \in Seq(Params) /\ d \in Nat /\ Len(bd) \in Nat
      /\ bd[Len(bd)].from = "none" /\ bd[Len(bd)].img = NoImage
  BY <1>0, <1>1, LenProperties DEF PciType, WorldType, GetInv
<1>3. /\ devs[d].rom \in ImageRecords /\ devs[d].rom_at \in Nat /\ devs[d].rom_sz \in Nat
      /\ shadow \in ImageRecords /\ devs[d].rom.len * HKib \in Nat
  BY <1>0, <1>2, Device, SizeFacts DEF DeviceRecords, WorldType
<1>4. /\ BmemMax \in Nat \ {0} /\ ShadowAt \in Nat /\ ShadowAt < BmemMax /\ ShadowAt # 0
      /\ MaxOrom =< BmemMax /\ MaxOrom \in Nat
  BY Constants
<1>5. top' \in Nat BY <1>0, TryOutcome
<1>6. ASSUME NEW from \in {"own", "fv", "shadow"}, NEW img \in ImageRecords,
             NEW here \in Nat, NEW rt \in Nat, SetParam(from, img, here, rt)
      PROVE  bd'[Len(bd)].from = from /\ bd'[Len(bd)].img = img
  <2>1. PICK p : p = Param(d, from, img, here, rt) OBVIOUS
  <2>2. p \in Params /\ p.from = from /\ p.img = img
    <3>1. d \in Nat /\ from \in {"none", "own", "fv", "shadow"} BY <1>2
    <3> QED BY <2>1, <3>1, ParamType
  <2>3. bd' = [bd EXCEPT ![Len(bd)] = p] BY <1>6, <2>1 DEF SetParam
  <2>4. bd'[Len(bd)] = p BY <1>2, <2>2, <2>3, SetLast
  <2> QED BY <2>2, <2>4
<1>7. CASE GetRimgFromPciIo
  <2>1. CASE ~OwnUsable(devs[d]) BY <1>7, <2>1 DEF GetRimgFromPciIo
  <2>2. CASE OwnUsable(devs[d])
    <3>1. TakenFrom("own", devs[d].rom, devs[d].rom_at) BY <1>0, <1>7, <2>2, TakeOwn
    <3>2. devs[d].rom_at # 0 /\ HasPcir(devs[d].rom, devs[d].rom_sz) BY <2>2 DEF OwnUsable
    <3>3. SizeOf("own", devs[d].rom) > 0 /\ SizeOf("own", devs[d].rom) =< BmemMax
      <4>1. devs[d].rom.len * HKib > 0 BY <1>3, <3>2, Accepts
      <4>2. devs[d].rom.len * HKib =< BmemMax BY <1>3, <1>4 DEF Small
      <4> QED BY <1>3, <4>1, <4>2, SizeFacts
    <3>4. pc' = "bars" /\ \E here \in Nat : SetParam("own", devs[d].rom, here, top')
      BY <1>3, <3>1, <3>2, <3>3, TakenIsKept
    <3>5. bd'[Len(bd)].from = "own" /\ bd'[Len(bd)].img = devs[d].rom BY <1>3, <1>5, <1>6, <3>4
    <3> QED BY <2>2, <3>4, <3>5 DEF Wanted
  <2> QED BY <2>1, <2>2
<1>8. CASE GetRimgFromFvs
  <2>1. pc = "fvs" BY <1>8 DEF GetRimgFromFvs
  <2>2. ~OwnUsable(devs[d]) BY <2>1 DEF GetInv
  <2>3. PICK img : img = FvFindRimg(devs[d].id, devs[d].class) OBVIOUS
  <2>4. img = Find(ht, devs[d].id, devs[d].class) BY <2>3, FindIs
  <2>5. CASE img = NoImage
    <3>1. ~HasPcir(img, img.len * HKib) BY <2>5, NoImageType
    <3>2. pc' = "special" /\ bd' = bd BY <1>8, <2>3, <3>1 DEF GetRimgFromFvs
    <3> QED BY <2>2, <2>4, <2>5, <3>2
  <2>6. CASE img # NoImage
    <3>1. img \in GoodImages /\ TakenFrom("fv", img, BmemMax) BY <1>0, <1>8, <2>3, <2>6, TakeFv
    <3>2. /\ img \in ImageRecords /\ img.len * HKib \in Nat
          /\ img.len * HKib > 0 /\ img.len * HKib =< MaxOrom
      BY <3>1, GoodType
    <3>3. SizeOf("fv", img) = img.len * HKib BY <3>2, SizeFacts
    <3>4. SizeOf("fv", img) > 0 /\ SizeOf("fv", img) =< BmemMax BY <1>4, <3>2, <3>3
    <3>5. pc' = "bars" /\ \E here \in Nat : SetParam("fv", img, here, top')
      BY <1>4, <3>1, <3>2, <3>4, TakenIsKept
    <3>6. bd'[Len(bd)].from = "fv" /\ bd'[Len(bd)].img = img BY <1>5, <1>6, <3>2, <3>5
    <3> QED BY <2>2, <2>4, <2>6, <3>5, <3>6 DEF Wanted
  <2> QED BY <2>5, <2>6
<1>9. CASE GetRimgSpecialCase
  <2>1. pc = "special" BY <1>9 DEF GetRimgSpecialCase
  <2>2. ~OwnUsable(devs[d]) /\ Find(ht, devs[d].id, devs[d].class) = NoImage BY <2>1 DEF GetInv
  <2>3. CASE devs[d].id = VboxId /\ HasHeader(shadow)
    <3>1. pc' = "bars" /\ bd'[Len(bd)].from = "shadow" /\ bd'[Len(bd)].img = shadow
      <4>1. CASE TakenAsIs
        <5>1. RmSeg(ShadowAt) \in Nat BY <1>4, SegType
        <5> QED BY <1>3, <1>6, <4>1, <5>1 DEF TakenAsIs
      <4>2. CASE TakenFrom("shadow", shadow, ShadowAt)
        <5>1. pc' = "bars" /\ \E here \in Nat : SetParam("shadow", shadow, here, top')
          BY <1>3, <1>4, <4>2, TakenIsKept
        <5> QED BY <1>3, <1>5, <1>6, <5>1
      <4> QED BY <1>0, <1>9, <2>3, <4>1, <4>2, TakeShadow
    <3> QED BY <2>2, <2>3, <3>1 DEF Wanted
  <2>4. CASE ~(devs[d].id = VboxId /\ HasHeader(shadow))
    <3>1. pc' = "bars" /\ bd' = bd BY <1>9, <2>4 DEF GetRimgSpecialCase
    <3> QED BY <1>2, <2>2, <2>4, <3>1 DEF Wanted
  <2> QED BY <2>3, <2>4
<1> QED BY <1>7, <1>8, <1>9 DEF TryAction

\* A try that goes on to the next one leaves no image, and nothing that is in
\* the hash table is passed over.
LEMMA TryLeaves ==
    ASSUME Types, GetInv, TryAction, pc' \in {"fvs", "special"}
    PROVE  /\ bd'[Len(bd')].img = NoImage
           /\ pc' = "special" => Find(ht, devs[d].id, devs[d].class) = NoImage
<1>0. WorldType /\ FvType /\ PciType BY DEF Types
<1>1. pc \in Trying BY <1>0, TryStep
<1>2. Len(bd) >= 1 /\ bd \in Seq(Params) /\ d \in Nat /\ bd[Len(bd)].img = NoImage
  BY <1>0, <1>1 DEF PciType, GetInv
<1>3. bd'[Len(bd')].img = NoImage
  <2>1. CASE UNCHANGED bd BY <1>2, <2>1
  <2>2. ASSUME NEW from \in {"own", "fv", "shadow"}, NEW img \in ImageRecords, NEW at \in Nat,
               TakenFrom(from, img, at)
        PROVE  bd'[Len(bd')].img = NoImage
    <3>1. SetParam("none", NoImage, 0, 0) BY <2>2 DEF TakenFrom
    <3>2. PICK p : p = Param(d, "none", NoImage, 0, 0) OBVIOUS
    <3>3. p \in Params /\ p.img = NoImage BY <1>2, <3>2, NoneParam
    <3>4. bd' = [bd EXCEPT ![Len(bd)] = p] BY <3>1, <3>2 DEF SetParam
    <3>5. bd'[Len(bd)] = p /\ Len(bd') = Len(bd) BY <1>2, <3>3, <3>4, SetLast
    <3> QED BY <3>3, <3>5
  <2>3. ~TakenAsIs BY DEF TakenAsIs
  <2> QED BY <1>0, <2>1, <2>2, <2>3, TryStep
<1>4. ASSUME pc' = "special", Find(ht, devs[d].id, devs[d].class) # NoImage PROVE FALSE
  <2>1. ~GetRimgFromPciIo BY <1>4 DEF GetRimgFromPciIo, GetRimg
  <2>2. ~GetRimgSpecialCase BY <1>4 DEF GetRimgSpecialCase, GetRimg, GetRimgAsIs
  <2>3. PICK img : img = FvFindRimg(devs[d].id, devs[d].class) OBVIOUS
  <2>4. img # NoImage BY <1>4, <2>3, FindIs
  <2>5. img \in GoodImages /\ TakenFrom("fv", img, BmemMax)
    BY <1>0, <1>4, <2>1, <2>2, <2>3, <2>4, TakeFv DEF TryAction
  <2>6. /\ img \in ImageRecords /\ img.len * HKib \in Nat
        /\ img.len * HKib > 0 /\ img.len * HKib =< MaxOrom
    BY <2>5, GoodType
  <2>7. SizeOf("fv", img) = img.len * HKib BY <2>6, SizeFacts
  <2>8. BmemMax \in Nat \ {0} /\ MaxOrom \in Nat /\ MaxOrom =< BmemMax BY Constants
  <2>9. SizeOf("fv", img) > 0 /\ SizeOf("fv", img) =< BmemMax BY <2>6, <2>7, <2>8
  <2>10. pc' = "bars" BY <2>5, <2>6, <2>8, <2>9, TakenIsKept
  <2> QED BY <1>4, <2>10
<1> QED BY <1>3, <1>4

FinishedOf(c, b) ==
    IF c \in Gathering THEN {} ELSE {n \in DOMAIN b : n < Len(b) \/ c \notin Trying}

LEMMA FinishedIs ==
    ASSUME NEW c, NEW b \in Seq(Params)
    PROVE  /\ c \in Gathering => FinishedOf(c, b) = {}
           /\ c \in Trying => FinishedOf(c, b) = 1 .. Len(b) - 1
           /\ c \in {"device", "bars", "stage2", "hello"} => FinishedOf(c, b) = 1 .. Len(b)
           /\ FinishedOf(c, b) \subseteq 1 .. Len(b)
<1>1. DOMAIN b = 1 .. Len(b) /\ Len(b) \in Nat BY LenProperties
<1>2. c \in Trying => c \notin Gathering BY DEF Trying, Gathering
<1>3. c \in {"device", "bars", "stage2", "hello"} => c \notin Gathering /\ c \notin Trying
  BY DEF Trying, Gathering
<1>4. c \in Gathering => FinishedOf(c, b) = {} BY DEF FinishedOf
<1>5. c \in Trying => FinishedOf(c, b) = 1 .. Len(b) - 1
  <2>1. {n \in 1 .. Len(b) : n < Len(b)} = 1 .. Len(b) - 1 BY <1>1
  <2>2. c \in Trying => FinishedOf(c, b) = {n \in 1 .. Len(b) : n < Len(b)}
    BY <1>1, <1>2 DEF FinishedOf
  <2> QED BY <2>1, <2>2
<1>6. c \in {"device", "bars", "stage2", "hello"} => FinishedOf(c, b) = 1 .. Len(b)
  BY <1>1, <1>3 DEF FinishedOf
<1>7. FinishedOf(c, b) \subseteq 1 .. Len(b) BY <1>1 DEF FinishedOf
<1> QED BY <1>4, <1>5, <1>6, <1>7

LEMMA GetStep == Types /\ GetInv /\ [Next]_vars => GetInv'
<1> SUFFICES ASSUME Types, GetInv, [Next]_vars PROVE GetInv'
  OBVIOUS
<1>0. WorldType /\ FvType /\ PciType BY DEF Types
<1>1. devs' = devs /\ shadow' = shadow BY <1>0, WorldStep DEF world
<1>2. /\ bd \in Seq(Params) /\ Len(bd) \in Nat /\ bd' \in Seq(Params) /\ Len(bd') \in Nat
      /\ d \in Nat
  <2>1. bd \in Seq(Params) /\ bd' \in Seq(Params) /\ d \in Nat BY <1>0, TypesStep DEF PciType, Types
  <2> QED BY <2>1, LenProperties
<1>3. Finished = FinishedOf(pc, bd) /\ Finished' = FinishedOf(pc', bd')
  BY DEF Finished, FinishedOf, Trying
<1>a. \A n \in FinishedOf(pc, bd) : Gets(ht, devs, shadow, bd[n]) BY <1>3 DEF GetInv
<1>b. GetInv' <=>
        /\ pc' \in Trying => bd'[Len(bd')].img = NoImage
        /\ pc' \in {"fvs", "special"} => ~(Small(devs[d']) /\ OwnUsable(devs[d']))
        /\ pc' = "special" => Find(ht', devs[d'].id, devs[d'].class) = NoImage
        /\ \A n \in FinishedOf(pc', bd') : Gets(ht', devs, shadow, bd'[n])
  BY <1>1, <1>3 DEF GetInv
<1> HIDE DEF Finished
<1>4. CASE Gather
  <2>1. /\ pc \in Gathering \ {"error"} /\ pc' \in Gathering \cup {"device"} /\ UNCHANGED pciVars
    BY <1>4 DEF Gather, NextFile, FvDone, NextSection, ScanImage, SectionDone, CacheRimg,
                CacheDone, CacheError, Gathering, fvVars
  <2>2. bd' = << >> BY <1>0, <2>1 DEF PciType, pciVars
  <2>3. FinishedOf(pc', bd') = {}
    <3>1. 1 .. Len(bd') = {} BY <2>2
    <3> QED BY <1>2, <3>1, FinishedIs
  <2>4. pc' \notin Trying BY <2>1 DEF Gathering, Trying
  <2> QED BY <1>b, <2>3, <2>4 DEF Trying
<1>5. CASE BeginDevice
  <2> DEFINE p == Param(d, "none", NoImage, 0, 0)
  <2>1. pc = "device" /\ pc' = "own" /\ bd' = Append(bd, p) /\ UNCHANGED ht
    BY <1>5 DEF BeginDevice, fvVars
  <2>2. p \in Params /\ p.img = NoImage BY <1>2, NoneParam
  <2> HIDE DEF p
  <2>3. /\ Len(bd') = Len(bd) + 1 /\ bd'[Len(bd) + 1] = p
        /\ \A n \in 1 .. Len(bd) : bd'[n] = bd[n]
    BY <1>2, <2>1, <2>2, AppendProperties
  <2>4. FinishedOf(pc, bd) = 1 .. Len(bd) BY <1>2, <2>1, FinishedIs
  <2>5. FinishedOf(pc', bd') = 1 .. Len(bd)
    <3>1. FinishedOf(pc', bd') = 1 .. Len(bd') - 1 BY <1>2, <2>1, FinishedIs DEF Trying
    <3>2. Len(bd') - 1 = Len(bd) BY <1>2, <2>3
    <3> QED BY <3>1, <3>2
  <2> QED BY <1>a, <1>b, <2>1, <2>2, <2>3, <2>4, <2>5
<1>6. CASE TryAction
  <2>1. pc \in Trying /\ d' = d BY <1>0, <1>6, TryStep
  <2>2. pc' \in {"error", "fvs", "special", "bars"} BY <1>0, <1>6, TryOutcome
  <2>3. /\ Len(bd') = Len(bd)
        /\ \A n \in 1 .. Len(bd) : n # Len(bd) => bd'[n] = bd[n]
        /\ \A n \in 1 .. Len(bd) : bd'[n].dev = bd[n].dev
    BY <1>6, DevKept
  <2>4. UNCHANGED ht BY <1>6, PciPhases DEF TryAction, ProcessPci, fvVars
  <2>5. Len(bd) >= 1 /\ bd[Len(bd)].dev = d BY <1>0, <2>1 DEF PciType
  <2>6. \A n \in 1 .. Len(bd) - 1 : Gets(ht, devs, shadow, bd'[n])
    <3>1. FinishedOf(pc, bd) = 1 .. Len(bd) - 1 BY <1>2, <2>1, FinishedIs
    <3>2. \A n \in 1 .. Len(bd) - 1 : n \in 1 .. Len(bd) /\ n # Len(bd) BY <1>2
    <3> QED BY <1>a, <2>3, <3>1, <3>2
  <2>7. CASE pc' = "error"
    <3>1. FinishedOf(pc', bd') = {} BY <1>2, <2>7, FinishedIs DEF Gathering
    <3> QED BY <1>b, <2>7, <3>1 DEF Trying
  <2>8. CASE pc' = "bars"
    <3>1. FinishedOf(pc', bd') = 1 .. Len(bd) BY <1>2, <2>3, <2>8, FinishedIs
    <3>2. Gets(ht, devs, shadow, bd'[Len(bd)])
      <4>1. bd'[Len(bd)].dev = d
        <5>1. Len(bd) \in 1 .. Len(bd) BY <1>2, <2>5
        <5> QED BY <2>3, <2>5, <5>1
      <4>2. Small(devs[d]) =>
              <<bd'[Len(bd)].from, bd'[Len(bd)].img>> = Wanted(ht, shadow, devs[d])
        BY <1>6, <2>8, TryGets
      <4> QED BY <4>1, <4>2 DEF Gets
    <3>3. \A n \in 1 .. Len(bd) : n = Len(bd) \/ n \in 1 .. Len(bd) - 1 BY <1>2
    <3>4. \A n \in 1 .. Len(bd) : Gets(ht', devs, shadow, bd'[n]) BY <2>4, <2>6, <3>2, <3>3
    <3> QED BY <1>b, <2>8, <3>1, <3>4 DEF Trying
  <2>9. CASE pc' \in {"fvs", "special"}
    <3>1. FinishedOf(pc', bd') = 1 .. Len(bd) - 1 BY <1>2, <2>3, <2>9, FinishedIs DEF Trying
    <3>2. \A n \in FinishedOf(pc', bd') : Gets(ht', devs, shadow, bd'[n]) BY <2>4, <2>6, <3>1
    <3>3. bd'[Len(bd')].img = NoImage /\ (pc' = "special" => Find(ht, devs[d].id, devs[d].class) = NoImage)
      BY <1>6, <2>9, TryLeaves
    <3>4. ~(Small(devs[d]) /\ OwnUsable(devs[d])) BY <1>6, <2>9, TryGets
    <3> QED BY <1>b, <2>1, <2>4, <2>9, <3>2, <3>3, <3>4
  <2> QED BY <2>2, <2>7, <2>8, <2>9
<1>7. CASE SkipDevice \/ BeginDeviceError \/ Bars \/ PciDone \/ RimgInit \/ Hello
  <2>1. /\ UNCHANGED <<bd, ht>>
        /\ \/ pc' = "error"
           \/ pc \in {"device", "bars", "stage2"} /\ pc' \in {"device", "stage2", "hello"}
    BY <1>7 DEF SkipDevice, BeginDeviceError, Bars, PciDone, RimgInit, Hello, pciVars, fvVars
  <2>2. CASE pc' = "error"
    <3>1. FinishedOf(pc', bd') = {} BY <1>2, <2>2, FinishedIs DEF Gathering
    <3> QED BY <1>b, <2>2, <3>1 DEF Trying
  <2>3. CASE pc \in {"device", "bars", "stage2"} /\ pc' \in {"device", "stage2", "hello"}
    <3>1. FinishedOf(pc', bd') = 1 .. Len(bd') /\ FinishedOf(pc, bd) = 1 .. Len(bd)
      BY <1>2, <2>3, FinishedIs
    <3> QED BY <1>a, <1>b, <2>1, <2>3, <3>1 DEF Trying
  <2> QED BY <2>1, <2>2, <2>3
<1>8. CASE UNCHANGED vars
  <2>1. UNCHANGED <<pc, d, bd, ht>> BY <1>8 DEF vars, fvVars, pciVars
  <2> QED BY <1>a, <1>b, <2>1 DEF GetInv
<1> QED BY <1>4, <1>5, <1>6, <1>7, <1>8 DEF Next, Work, ProcessPci, Stopped, TryAction

\* A device gets the image of its own ROM if that is usable, or else the one
\* cached last for its id. and class, or else, if it is VirtualBox's, what is at
\* 0xc0000, or else none (pci.c:195-244 with fv.c:55-68 and fv.c:214-228): no
\* try that finds an image leaves the device without it.
THEOREM RightRom == Spec => []DeviceGetsItsRom
<1>1. Init => CacheInv /\ GetInv
  <2> SUFFICES ASSUME Init PROVE CacheInv /\ GetInv
    OBVIOUS
  <2>1. cached = << >> /\ Len(cached) = 0 /\ pc = "file" BY DEF Init
  <2>2. CacheInv
    <3> SUFFICES ASSUME NEW id \in Nat, NEW class \in Nat
                 PROVE  FirstIsLast(ht[Bucket(id, class)], cached, id, class)
      BY DEF CacheInv
    <3>1. ht[Bucket(id, class)] = << >> BY BucketType DEF Init
    <3>2. Len(ht[Bucket(id, class)]) = 0 BY <3>1
    <3> QED BY <2>1, <3>2 DEF FirstIsLast
  <2>3. GetInv BY <2>1 DEF GetInv, Trying, Finished, Gathering
  <2> QED BY <2>2, <2>3
<1>2. Types /\ CacheInv /\ GetInv => DeviceGetsItsRom
  <2> SUFFICES ASSUME Types, CacheInv, GetInv, NEW n \in Finished,
                      Small(devs[bd[n].dev]), NEW hits,
                      hits = {c \in DOMAIN cached :
                                /\ cached[c].id = devs[bd[n].dev].id
                                /\ cached[c].class = devs[bd[n].dev].class}
               PROVE  <<bd[n].from, bd[n].img>> =
                        IF OwnUsable(devs[bd[n].dev]) THEN <<"own", devs[bd[n].dev].rom>>
                        ELSE IF hits # {} THEN <<"fv", cached[Max(hits)].img>>
                        ELSE IF devs[bd[n].dev].id = VboxId /\ HasHeader(shadow)
                             THEN <<"shadow", shadow>>
                        ELSE <<"none", NoImage>>
    BY DEF DeviceGetsItsRom, Small
  <2>0. WorldType /\ FvType /\ PciType BY DEF Types
  <2>1. n \in 1 .. Len(bd)
    <3>1. Finished = FinishedOf(pc, bd) BY DEF Finished, FinishedOf, Trying
    <3>2. bd \in Seq(Params) BY <2>0 DEF PciType
    <3> QED BY <3>1, <3>2, FinishedIs
  <2>2. PICK dev : dev = devs[bd[n].dev] OBVIOUS
  <2>3. dev.id \in Nat /\ dev.class \in Nat
    <3>1. bd[n].dev \in DOMAIN devs BY <2>0, <2>1 DEF PciType
    <3> QED BY <2>0, <2>2, <3>1, Device DEF DeviceRecords
  <2>4. <<bd[n].from, bd[n].img>> = Wanted(ht, shadow, dev) BY <2>2 DEF GetInv, Gets
  <2>5. /\ hits = {} <=> Find(ht, dev.id, dev.class) = NoImage
        /\ hits # {} => Find(ht, dev.id, dev.class) = cached[Max(hits)].img
    BY <2>0, <2>2, <2>3, FindsLast
  <2> QED BY <2>2, <2>4, <2>5, Zenon DEF Wanted
<1>3. Init => Types BY InitTypes DEF Types
<1> QED BY <1>1, <1>2, <1>3, TypesStep, CacheStep, GetStep, PTL DEF Spec

-----------------------------------------------------------------------------
(***************************************************************************)
(* What is cached.  Upto is the function that Accepted() defines by        *)
(* recursion: how many bytes the first images of a section take up.  That  *)
(* there is one is shown by looking at the least length for which there    *)
(* would be none.                                                          *)
(***************************************************************************)
Sums(u, imgs, l) ==
    u = [n \in 0 .. l |-> IF n = 0 THEN 0 ELSE u[n - 1] + imgs[n].len * HKib]
Upto(sec) ==
    LET upto[n \in 0 .. Len(sec.imgs)] ==
            IF n = 0 THEN 0 ELSE upto[n - 1] + sec.imgs[n].len * HKib
    IN  upto
SizeIn(sec) == IF sec.size > MaxOrom THEN MaxOrom ELSE sec.size

SectionRecords == [imgs : Seq(ImageRecords), size : Nat]

LEMMA SumsExist == \A imgs : \A l \in Nat : \E u : Sums(u, imgs, l)
<1> SUFFICES ASSUME NEW imgs PROVE \A l \in Nat : \E u : Sums(u, imgs, l)
  OBVIOUS
<1> DEFINE W(n) == imgs[n].len * HKib
           Bad == {l \in Nat : ~\E u : Sums(u, imgs, l)}
<1>1. SUFFICES ASSUME Bad # {} PROVE FALSE
  OBVIOUS
<1>2. PICK l \in Bad : \A y \in Bad : l =< y
  <2>1. Bad \subseteq Nat OBVIOUS
  <2> HIDE DEF Bad
  <2> QED BY <1>1, <2>1, LeastElement
<1>3. l \in Nat /\ ~\E u : Sums(u, imgs, l) OBVIOUS
<1> HIDE DEF W
<1>4. CASE l = 0
  <2> DEFINE u == [n \in 0 .. 0 |-> 0]
  <2>1. u = [n \in 0 .. 0 |-> IF n = 0 THEN 0 ELSE u[n - 1] + W(n)] OBVIOUS
  <2>2. Sums(u, imgs, l) BY <1>4, <2>1 DEF Sums, W
  <2> QED BY <1>3, <2>2
<1>5. CASE l # 0
  <2>1. l - 1 \in Nat /\ l - 1 \notin Bad
    <3>1. l - 1 \in Nat /\ ~(l =< l - 1) BY <1>3, <1>5
    <3> HIDE DEF Bad
    <3> QED BY <1>2, <3>1
  <2>2. PICK g : Sums(g, imgs, l - 1) BY <2>1
  <2>3. g = [n \in 0 .. l - 1 |-> IF n = 0 THEN 0 ELSE g[n - 1] + W(n)] BY <2>2 DEF Sums, W
  <2> DEFINE u == [n \in 0 .. l |-> IF n = l THEN g[l - 1] + W(l) ELSE g[n]]
  <2>4. \A n \in 0 .. l - 1 : u[n] = g[n] BY <1>3
  <2>5. u[l] = g[l - 1] + W(l) BY <1>3
  <2>6. u \in [0 .. l -> {u[n] : n \in 0 .. l}] OBVIOUS
  <2>7. u = [n \in 0 .. l |-> u[n]] OBVIOUS
  <2> HIDE DEF u
  <2>8. ASSUME NEW n \in 0 .. l
        PROVE  u[n] = IF n = 0 THEN 0 ELSE u[n - 1] + W(n)
    <3>1. CASE n = l
      <4>1. l - 1 \in 0 .. l - 1 /\ l # 0 BY <1>3, <1>5
      <4>2. u[l - 1] = g[l - 1] BY <2>4, <4>1
      <4> QED BY <2>5, <3>1, <4>1, <4>2
    <3>2. CASE n # l /\ n # 0
      <4>1. n \in 0 .. l - 1 /\ n - 1 \in 0 .. l - 1 BY <1>3, <3>2
      <4>2. u[n] = g[n] /\ u[n - 1] = g[n - 1] BY <2>4, <4>1
      <4>3. g[n] = g[n - 1] + W(n)
        <5>1. [m \in 0 .. l - 1 |-> IF m = 0 THEN 0 ELSE g[m - 1] + W(m)][n] = g[n - 1] + W(n)
          BY <3>2, <4>1
        <5> QED BY <2>3, <5>1, Zenon
      <4> QED BY <3>2, <4>2, <4>3
    <3>3. CASE n = 0
      <4>1. 0 \in 0 .. l - 1 BY <1>3, <1>5
      <4>2. [m \in 0 .. l - 1 |-> IF m = 0 THEN 0 ELSE g[m - 1] + W(m)][0] = 0 BY <4>1
      <4>3. g[0] = 0 BY <2>3, <4>2, Zenon
      <4> QED BY <2>4, <3>3, <4>1, <4>3
    <3> QED BY <3>1, <3>2, <3>3
  <2>9. u = [n \in 0 .. l |-> IF n = 0 THEN 0 ELSE u[n - 1] + W(n)] BY <2>7, <2>8
  <2>10. Sums(u, imgs, l) BY <2>9 DEF Sums, W
  <2> QED BY <1>3, <2>10
<1> QED BY <1>4, <1>5

LEMMA UptoIs ==
    ASSUME NEW sec \in SectionRecords
    PROVE  /\ Upto(sec)[0] = 0
           /\ \A n \in 1 .. Len(sec.imgs) :
                Upto(sec)[n] = Upto(sec)[n - 1] + sec.imgs[n].len * HKib
<1>1. sec.imgs \in Seq(ImageRecords) BY DEF SectionRecords
<1>2. PICK l \in Nat : l = Len(sec.imgs) BY <1>1, LenProperties
<1>3. PICK imgs : imgs = sec.imgs OBVIOUS
<1> DEFINE W(n) == imgs[n].len * HKib
<1>4. \E u : Sums(u, imgs, l) BY SumsExist
<1>5. PICK v : v = Upto(sec) OBVIOUS
<1>6. v = CHOOSE u : Sums(u, imgs, l) BY <1>2, <1>3, <1>5, Zenon DEF Upto, Sums
<1>7. Sums(v, imgs, l) BY <1>4, <1>6
<1>8. v = [n \in 0 .. l |-> IF n = 0 THEN 0 ELSE v[n - 1] + W(n)] BY <1>7 DEF Sums
<1> HIDE DEF W
<1>9. v[0] = 0
  <2>1. [n \in 0 .. l |-> IF n = 0 THEN 0 ELSE v[n - 1] + W(n)][0] = 0 OBVIOUS
  <2> QED BY <1>8, <2>1, Zenon
<1>10. ASSUME NEW n \in 1 .. l PROVE v[n] = v[n - 1] + W(n)
  <2>1. [m \in 0 .. l |-> IF m = 0 THEN 0 ELSE v[m - 1] + W(m)][n] = v[n - 1] + W(n) OBVIOUS
  <2> QED BY <1>8, <2>1, Zenon
<1> QED BY <1>2, <1>3, <1>5, <1>9, <1>10 DEF W

LEMMA AcceptedIs ==
    ASSUME NEW sec
    PROVE  Accepted(sec) = {n \in DOMAIN sec.imgs :
             \A m \in 1 .. n : HasPcir(sec.imgs[m], SizeIn(sec) - Upto(sec)[m - 1])}
BY DEF Accepted, Upto, SizeIn

\* The end of the option ROM before image b, and the best image among those
\* after a up to b.
LastEnd(sec, b) == Max({0} \cup {n \in Accepted(sec) : n < b /\ sec.imgs[n].last})
PcAt(imgs, a, b) == {n \in a + 1 .. b : imgs[n].type = "pcat"}
Newer(imgs, S) == {n \in S : imgs[n].rev >= 3}
BestFrom(imgs, a, b) ==
    IF PcAt(imgs, a, b) = {} THEN NoImage
    ELSE imgs[Min(IF Newer(imgs, PcAt(imgs, a, b)) # {} THEN Newer(imgs, PcAt(imgs, a, b))
                                                        ELSE PcAt(imgs, a, b))]

LEMMA BestOfIs == \A sec, b : BestOf(sec, b) = BestFrom(sec.imgs, LastEnd(sec, b), b)
BY DEF BestOf, BestFrom, LastEnd, PcAt, Newer

LEMMA MinIn ==
    ASSUME NEW S, S \subseteq Nat, S # {}
    PROVE  /\ Min(S) \in S /\ \A y \in S : Min(S) =< y
           /\ \A x \in Nat : (\A y \in S : y < x) => Min(S \cup {x}) = Min(S)
<1>1. PICK v \in S : \A y \in S : v =< y BY LeastElement
<1>2. Min(S) = v
  <2>1. S \subseteq Int OBVIOUS
  <2> QED BY <1>1, <2>1, MinMaxIs
<1>3. ASSUME NEW x \in Nat, \A y \in S : y < x PROVE Min(S \cup {x}) = v
  <2>1. S \cup {x} \subseteq Int /\ v \in S \cup {x} OBVIOUS
  <2>2. \A y \in S \cup {x} : v =< y BY <1>1, <1>3
  <2> QED BY <2>1, <2>2, MinMaxIs
<1> QED BY <1>1, <1>2, <1>3

\* Choosing as fv_gather_rimgs_for_one_sxn() does keeps the best image so far.
LEMMA BestStep ==
    ASSUME NEW imgs \in Seq(ImageRecords), NEW a \in Nat, NEW b \in 1 .. Len(imgs), a < b,
           NEW old, old = BestFrom(imgs, a, b - 1)
    PROVE  BestFrom(imgs, a, b) = IF Preferred(imgs[b], old) THEN imgs[b] ELSE old
<1>0. Len(imgs) \in Nat /\ b \in Nat BY LenProperties
<1> DEFINE P == PcAt(imgs, a, b - 1)
           N == Newer(imgs, P)
           P2 == PcAt(imgs, a, b)
           N2 == Newer(imgs, P2)
<1>1. P \subseteq Nat /\ \A y \in P : y < b /\ y \in 1 .. Len(imgs) /\ imgs[y].type = "pcat"
  BY <1>0 DEF PcAt
<1>2. N \subseteq P /\ \A y \in N : imgs[y].rev >= 3 BY DEF Newer
<1>3. \A y \in P : y \notin N => ~(imgs[y].rev >= 3) BY DEF Newer
<1>4. imgs[b].type = "pcat" => P2 = P \cup {b}
  <2>1. a + 1 .. b = (a + 1 .. b - 1) \cup {b} BY <1>0
  <2> QED BY <2>1 DEF PcAt
<1>5. imgs[b].type # "pcat" => P2 = P
  <2>1. a + 1 .. b = (a + 1 .. b - 1) \cup {b} BY <1>0
  <2> QED BY <2>1 DEF PcAt
<1>6. P2 = P \cup {b} => N2 = IF imgs[b].rev >= 3 THEN N \cup {b} ELSE N BY DEF Newer
<1>7. P2 = P => N2 = N BY DEF Newer
<1>8. /\ BestFrom(imgs, a, b) = IF P2 = {} THEN NoImage ELSE imgs[Min(IF N2 # {} THEN N2 ELSE P2)]
      /\ old = IF P = {} THEN NoImage ELSE imgs[Min(IF N # {} THEN N ELSE P)]
  BY DEF BestFrom
<1>9. \A y \in P : imgs[y] # NoImage /\ imgs[y].rev \in Nat
  <2>1. SUFFICES ASSUME NEW y \in P PROVE imgs[y] # NoImage /\ imgs[y].rev \in Nat
    OBVIOUS
  <2> HIDE DEF P
  <2>2. imgs[y].type = "pcat" /\ imgs[y] \in ImageRecords BY <1>1, ElementOfSeq
  <2>3. NoImage.type = "none" BY DEF NoImage
  <2> QED BY <2>2, <2>3 DEF ImageRecords
<1>10. imgs[b].rev \in Nat
  <2>1. imgs[b] \in ImageRecords BY ElementOfSeq
  <2> QED BY <2>1 DEF ImageRecords
<1> HIDE DEF P, N, P2, N2
<1>11. CASE imgs[b].type # "pcat"
  BY <1>5, <1>7, <1>8, <1>11 DEF Preferred
<1>12. CASE imgs[b].type = "pcat" /\ P = {}
  <2>1. P2 = {b} /\ (N2 = {} \/ N2 = {b}) BY <1>2, <1>4, <1>6, <1>12
  <2>2. Min({b}) = b
    <3>1. {b} \subseteq Int BY <1>0
    <3>2. \A y \in {b} : b =< y BY <1>0
    <3> QED BY <3>1, <3>2, MinMaxIs
  <2>3. BestFrom(imgs, a, b) = imgs[b] BY <1>8, <2>1, <2>2
  <2>4. Preferred(imgs[b], old) BY <1>8, <1>12 DEF Preferred
  <2> QED BY <2>3, <2>4
<1>13. CASE imgs[b].type = "pcat" /\ P # {} /\ N # {}
  <2>1. N \subseteq Nat /\ \A y \in N : y < b BY <1>1, <1>2
  <2>2. Min(N) \in N /\ Min(N \cup {b}) = Min(N) BY <1>0, <1>13, <2>1, MinIn
  <2>3. P2 # {} /\ (N2 = N \/ N2 = N \cup {b}) BY <1>4, <1>6, <1>13
  <2>4. N2 # {} /\ Min(N2) = Min(N) BY <1>13, <2>2, <2>3
  <2>5. BestFrom(imgs, a, b) = old BY <1>8, <1>13, <2>3, <2>4
  <2>6. old = imgs[Min(N)] BY <1>8, <1>13
  <2>7. old # NoImage /\ old.rev >= 3 /\ old.rev \in Nat BY <1>2, <1>9, <2>2, <2>6
  <2>8. ~Preferred(imgs[b], old) BY <2>7 DEF Preferred
  <2> QED BY <2>5, <2>8
<1>14. CASE imgs[b].type = "pcat" /\ P # {} /\ N = {}
  <2>1. Min(P) \in P /\ Min(P \cup {b}) = Min(P) BY <1>0, <1>1, <1>14, MinIn
  <2>2. P2 = P \cup {b} BY <1>4, <1>14
  <2>3. old = imgs[Min(P)] BY <1>8, <1>14
  <2>4. old # NoImage /\ old.rev \in Nat /\ ~(old.rev >= 3) BY <1>3, <1>9, <1>14, <2>1, <2>3
  <2>5. CASE imgs[b].rev >= 3
    <3>1. N2 = {b} BY <1>6, <1>14, <2>2, <2>5
    <3>2. Min({b}) = b
      <4>1. {b} \subseteq Int BY <1>0
      <4>2. \A y \in {b} : b =< y BY <1>0
      <4> QED BY <4>1, <4>2, MinMaxIs
    <3>3. BestFrom(imgs, a, b) = imgs[b] BY <1>8, <2>2, <3>1, <3>2
    <3>4. Preferred(imgs[b], old) BY <1>14, <2>4, <2>5 DEF Preferred
    <3> QED BY <3>3, <3>4
  <2>6. CASE ~(imgs[b].rev >= 3)
    <3>1. N2 = {} BY <1>6, <1>14, <2>2, <2>6
    <3>2. BestFrom(imgs, a, b) = old BY <1>8, <2>1, <2>2, <2>3, <3>1
    <3>3. ~Preferred(imgs[b], old) BY <2>4, <2>6 DEF Preferred
    <3> QED BY <3>2, <3>3
  <2> QED BY <2>5, <2>6
<1> QED BY <1>11, <1>12, <1>13, <1>14

LEMMA BestOfNone == \A imgs : \A a \in Int : BestFrom(imgs, a, a) = NoImage
<1> SUFFICES ASSUME NEW imgs, NEW a \in Int PROVE BestFrom(imgs, a, a) = NoImage
  OBVIOUS
<1>1. a + 1 .. a = {} OBVIOUS
<1>2. PcAt(imgs, a, a) = {} BY <1>1 DEF PcAt
<1> QED BY <1>2 DEF BestFrom

\* Where the option ROM being read began.
LEMMA LastEndStep ==
    ASSUME NEW sec \in SectionRecords, NEW b \in Nat \ {0}
    PROVE  /\ LastEnd(sec, b) \in Nat /\ LastEnd(sec, b) < b
           /\ b \in Accepted(sec) /\ sec.imgs[b].last => LastEnd(sec, b + 1) = b
           /\ ~sec.imgs[b].last => LastEnd(sec, b + 1) = LastEnd(sec, b)
           /\ LastEnd(sec, 1) = 0
<1> DEFINE E(x) == {0} \cup {n \in Accepted(sec) : n < x /\ sec.imgs[n].last}
<1>1. Accepted(sec) \subseteq Nat \ {0}
  <2>1. sec.imgs \in Seq(ImageRecords) BY DEF SectionRecords
  <2>2. DOMAIN sec.imgs = 1 .. Len(sec.imgs) /\ Len(sec.imgs) \in Nat BY <2>1, LenProperties
  <2>3. Accepted(sec) \subseteq DOMAIN sec.imgs BY AcceptedIs
  <2> QED BY <2>2, <2>3
<1>2. \A x \in Nat \ {0} : E(x) \subseteq 0 .. x - 1 /\ 0 \in E(x) BY <1>1
<1>3. LastEnd(sec, b) = Max(E(b)) /\ LastEnd(sec, b + 1) = Max(E(b + 1)) /\ LastEnd(sec, 1) = Max(E(1))
  BY DEF LastEnd
<1>4. ~sec.imgs[b].last => E(b + 1) = E(b) BY <1>1
<1>5. b \in Accepted(sec) /\ sec.imgs[b].last => b \in E(b + 1) OBVIOUS
<1> HIDE DEF E
<1>6. LastEnd(sec, b) \in Nat /\ LastEnd(sec, b) < b
  <2>1. b - 1 \in Nat /\ E(b) \subseteq 0 .. b - 1 /\ E(b) # {} BY <1>2
  <2>2. PICK v \in E(b) : \A y \in E(b) : y =< v BY <2>1, GreatestElement
  <2>3. E(b) \subseteq Int BY <2>1
  <2>4. Max(E(b)) = v BY <2>2, <2>3, MinMaxIs
  <2>5. v \in 0 .. b - 1 BY <2>1, <2>2
  <2> QED BY <1>3, <2>4, <2>5
<1>7. ASSUME b \in Accepted(sec), sec.imgs[b].last PROVE LastEnd(sec, b + 1) = b
  <2>1. b + 1 \in Nat \ {0} /\ b + 1 - 1 = b OBVIOUS
  <2>2. E(b + 1) \subseteq 0 .. b BY <1>2, <2>1
  <2>3. E(b + 1) \subseteq Int /\ \A y \in E(b + 1) : y =< b BY <2>2
  <2> QED BY <1>3, <1>5, <1>7, <2>3, MinMaxIs
<1>8. LastEnd(sec, 1) = 0
  <2>1. E(1) \subseteq 0 .. 1 - 1 /\ 0 \in E(1) BY <1>2
  <2>2. E(1) \subseteq Int /\ \A y \in E(1) : y =< 0 BY <2>1
  <2> QED BY <1>3, <2>1, <2>2, MinMaxIs
<1> QED BY <1>3, <1>4, <1>6, <1>7, <1>8

\* The entry for an id., those for one option ROM, and those for all of them.
EntryOf(img, rom, id) == [id |-> id, class |-> img.class, img |-> img, rom |-> rom]
EntriesIn(best, rom) ==
    {EntryOf(best, rom, id) :
        id \in IF best = NoImage THEN {} ELSE {best.id} \cup Range(DevIds(best))}
RomsIn(sec) == {n \in Accepted(sec) : sec.imgs[n].last}
AllEntries(fs) ==
    UNION {UNION {UNION {EntriesIn(BestOf(fs[fi].sections[si], b), <<fi, si, b>>) :
        b \in RomsIn(fs[fi].sections[si])} :
        si \in DOMAIN fs[fi].sections} :
        fi \in {n \in DOMAIN fs : fs[n].kind = "plain"}}

\* Whether an option ROM was gone through, in phase ph at file ff, section ss
\* and image kk.
PassedAt(ph, ff, ss, kk, fi, si, b) ==
    \/ fi < ff
    \/ ph \in {"section", "image", "cache"} /\ fi = ff /\ si < ss
    \/ ph = "image" /\ fi = ff /\ si = ss /\ b < kk
    \/ ph = "cache" /\ fi = ff /\ si = ss /\ b < kk - 1

\* The entries of those option ROMs were made.
CompleteAt(fs, ph, ff, ss, kk, made) ==
    \A fi \in DOMAIN fs : fs[fi].kind = "plain" =>
        \A si \in DOMAIN fs[fi].sections : \A b \in RomsIn(fs[fi].sections[si]) :
            PassedAt(ph, ff, ss, kk, fi, si, b) =>
                EntriesIn(BestOf(fs[fi].sections[si], b), <<fi, si, b>>) \subseteq made

\* How far the scan of a section got.
ScanAt(sec, ph, kk, l, fd) ==
    /\ kk - 1 =< Len(sec.imgs) /\ 1 .. kk - 1 \subseteq Accepted(sec)
    /\ Upto(sec)[kk - 1] \in Nat /\ l = SizeIn(sec) - Upto(sec)[kk - 1]
    /\ ph = "image" => fd = BestFrom(sec.imgs, LastEnd(sec, kk), kk - 1)
    /\ ph = "cache" => kk > 1 /\ sec.imgs[kk - 1].last /\ fd = BestOf(sec, kk - 1)

\* What is still to be entered: an image's own id. comes first.
PendingAt(pd, img, rom, made) ==
    /\ Range(pd) \subseteq {img.id} \cup Range(DevIds(img))
    /\ \A e \in EntriesIn(img, rom) : e \in made \/ e.id \in Range(pd)
    /\ \/ pd # << >> /\ Head(pd) = img.id /\ Len(pd) = Len(DevIds(img)) + 1
       \/ Len(pd) =< Len(DevIds(img)) /\ EntryOf(img, rom, img.id) \in made

GatherInv ==
    pc # "error" =>
        /\ Range(cached) \subseteq AllEntries(files)
        /\ CompleteAt(files, pc, f, s, k, Range(cached))
        /\ pc \in {"section", "image", "cache"} => files[f].kind = "plain"
        /\ pc \in Later => f > Len(files)
        /\ pc \in {"image", "cache"} => ScanAt(files[f].sections[s], pc, k, left, found)
        /\ pc = "cache" => PendingAt(pending, found, <<f, s, k - 1>>, Range(cached))

LEMMA SectionType ==
    ASSUME NEW fs \in Seq(FileRecords), NEW fi \in DOMAIN fs
    PROVE  /\ fi \in Nat /\ fi >= 1 /\ fi =< Len(fs) /\ Len(fs) \in Nat
           /\ fs[fi].kind \in {"plain", "pad", "volume", "closed"}
           /\ Len(fs[fi].sections) \in Nat
           /\ DOMAIN fs[fi].sections = 1 .. Len(fs[fi].sections)
           /\ \A si \in DOMAIN fs[fi].sections : fs[fi].sections[si] \in SectionRecords
<1>1. DOMAIN fs = 1 .. Len(fs) /\ Len(fs) \in Nat BY LenProperties
<1>2. fs[fi] \in FileRecords BY ElementOfSeq
<1>3. /\ fs[fi].kind \in {"plain", "pad", "volume", "closed"}
      /\ fs[fi].sections \in Seq(SectionRecords)
  BY <1>2 DEF FileRecords, SectionRecords
<1>4. /\ Len(fs[fi].sections) \in Nat
      /\ DOMAIN fs[fi].sections = 1 .. Len(fs[fi].sections)
  BY <1>3, LenProperties
<1>5. \A si \in DOMAIN fs[fi].sections : fs[fi].sections[si] \in SectionRecords
  BY <1>3, <1>4, ElementOfSeq
<1> QED BY <1>1, <1>3, <1>4, <1>5

LEMMA SecFacts ==
    ASSUME NEW sec \in SectionRecords
    PROVE  /\ sec.imgs \in Seq(ImageRecords) /\ Len(sec.imgs) \in Nat /\ sec.size \in Nat
           /\ DOMAIN sec.imgs = 1 .. Len(sec.imgs)
           /\ Accepted(sec) \subseteq 1 .. Len(sec.imgs)
           /\ SizeIn(sec) \in Nat
           /\ \A n \in Accepted(sec) : \A m \in 1 .. n : m \in Accepted(sec)
<1>1. sec.imgs \in Seq(ImageRecords) /\ sec.size \in Nat BY DEF SectionRecords
<1>2. Len(sec.imgs) \in Nat /\ DOMAIN sec.imgs = 1 .. Len(sec.imgs) BY <1>1, LenProperties
<1>3. Accepted(sec) \subseteq 1 .. Len(sec.imgs) BY <1>2, AcceptedIs
<1>4. SizeIn(sec) \in Nat BY <1>1, Constants DEF SizeIn
<1>5. ASSUME NEW n \in Accepted(sec), NEW m \in 1 .. n PROVE m \in Accepted(sec)
  <2> DEFINE Ok(j) == HasPcir(sec.imgs[j], SizeIn(sec) - Upto(sec)[j - 1])
  <2>1. Accepted(sec) = {j \in DOMAIN sec.imgs : \A i \in 1 .. j : Ok(i)} BY AcceptedIs
  <2> HIDE DEF Ok
  <2>2. n \in 1 .. Len(sec.imgs) /\ \A i \in 1 .. n : Ok(i) BY <1>2, <2>1
  <2>3. m \in 1 .. Len(sec.imgs) /\ \A i \in 1 .. m : i \in 1 .. n BY <1>2, <2>2
  <2> QED BY <1>2, <2>1, <2>2, <2>3
<1> QED BY <1>1, <1>2, <1>3, <1>4, <1>5

\* An image that is accepted is the next one of those accepted, and the choice
\* between it and the one found is the best so far;
LEMMA ScanOne ==
    ASSUME NEW sec \in SectionRecords, NEW kk \in Nat \ {0}, NEW l \in Nat, NEW fd,
           ScanAt(sec, "image", kk, l, fd), NEW i \in ImageRecords,
           i = (IF kk =< Len(sec.imgs) THEN sec.imgs[kk] ELSE NoImage), HasPcir(i, l)
    PROVE  /\ kk \in 1 .. Len(sec.imgs) /\ i = sec.imgs[kk] /\ 1 .. kk \subseteq Accepted(sec)
           /\ Upto(sec)[kk] \in Nat /\ l - i.len * HKib = SizeIn(sec) - Upto(sec)[kk]
           /\ BestOf(sec, kk) = IF Preferred(i, fd) THEN i ELSE fd
<1>0. /\ sec.imgs \in Seq(ImageRecords) /\ Len(sec.imgs) \in Nat /\ SizeIn(sec) \in Nat
      /\ DOMAIN sec.imgs = 1 .. Len(sec.imgs)
  BY SecFacts
<1>1. kk =< Len(sec.imgs) /\ i = sec.imgs[kk] BY NoImageType
<1>2. kk \in 1 .. Len(sec.imgs) BY <1>0, <1>1
<1>3. /\ 1 .. kk - 1 \subseteq Accepted(sec)
      /\ Upto(sec)[kk - 1] \in Nat /\ l = SizeIn(sec) - Upto(sec)[kk - 1]
      /\ fd = BestFrom(sec.imgs, LastEnd(sec, kk), kk - 1)
  BY DEF ScanAt
<1>4. 1 .. kk \subseteq Accepted(sec)
  <2> DEFINE Ok(j) == HasPcir(sec.imgs[j], SizeIn(sec) - Upto(sec)[j - 1])
  <2>1. Accepted(sec) = {j \in DOMAIN sec.imgs : \A m \in 1 .. j : Ok(m)} BY AcceptedIs
  <2>2. Ok(kk) BY <1>1, <1>3
  <2> HIDE DEF Ok
  <2>3. \A j \in 1 .. kk : j = kk \/ j \in 1 .. kk - 1 OBVIOUS
  <2>4. \A j \in 1 .. kk - 1 : Ok(j)
    <3>1. SUFFICES ASSUME NEW j \in 1 .. kk - 1 PROVE Ok(j)
      OBVIOUS
    <3>2. j \in Accepted(sec) /\ j \in 1 .. j BY <1>3
    <3> QED BY <2>1, <3>2
  <2>5. kk \in Accepted(sec) BY <1>0, <1>2, <2>1, <2>2, <2>3, <2>4
  <2> QED BY <1>3, <2>3, <2>5
<1>5. PICK w \in Nat : w = i.len * HKib BY SizeFacts
<1>6. Upto(sec)[kk] = Upto(sec)[kk - 1] + w BY <1>1, <1>2, <1>5, UptoIs
<1>7. Upto(sec)[kk] \in Nat /\ l - w = SizeIn(sec) - Upto(sec)[kk]
  <2>1. PICK u \in Nat : u = Upto(sec)[kk - 1] BY <1>3
  <2>2. l = SizeIn(sec) - u /\ Upto(sec)[kk] = u + w BY <1>3, <1>6, <2>1
  <2> QED BY <1>0, <2>2
<1>8. LastEnd(sec, kk) \in Nat /\ LastEnd(sec, kk) < kk BY LastEndStep
<1>9. BestFrom(sec.imgs, LastEnd(sec, kk), kk) = IF Preferred(i, fd) THEN i ELSE fd
  <2>1. PICK a \in Nat : a = LastEnd(sec, kk) /\ a < kk BY <1>8
  <2> QED BY <1>0, <1>1, <1>2, <1>3, <2>1, BestStep
<1> QED BY <1>1, <1>2, <1>4, <1>5, <1>7, <1>9, BestOfIs

\* and at one that is not, all that are accepted have been seen.
LEMMA ScanEnd ==
    ASSUME NEW sec \in SectionRecords, NEW kk \in Nat \ {0}, NEW l \in Nat, NEW fd,
           ScanAt(sec, "image", kk, l, fd),
           ~HasPcir(IF kk =< Len(sec.imgs) THEN sec.imgs[kk] ELSE NoImage, l)
    PROVE  \A n \in Accepted(sec) : n < kk
<1>0. Len(sec.imgs) \in Nat /\ Accepted(sec) \subseteq 1 .. Len(sec.imgs) BY SecFacts
<1>1. SUFFICES ASSUME NEW n \in Accepted(sec), kk =< n PROVE FALSE
  BY <1>0
<1>2. kk \in 1 .. n /\ kk =< Len(sec.imgs) BY <1>0, <1>1
<1>3. HasPcir(sec.imgs[kk], SizeIn(sec) - Upto(sec)[kk - 1]) BY <1>2, AcceptedIs
<1>4. l = SizeIn(sec) - Upto(sec)[kk - 1] BY DEF ScanAt
<1> QED BY <1>2, <1>3, <1>4

LEMMA RangeCons ==
    ASSUME NEW S, NEW q \in Seq(S), NEW e \in S
    PROVE  Range(<<e>> \o q) = {e} \cup Range(q) /\ Len(<<e>> \o q) = Len(q) + 1
           /\ Head(<<e>> \o q) = e /\ <<e>> \o q # << >>
<1>1. <<e>> \in Seq(S) /\ Len(<<e>>) = 1 OBVIOUS
<1>2. PICK c : c = <<e>> \o q OBVIOUS
<1>3. /\ c \in Seq(S) /\ Len(c) = 1 + Len(q)
      /\ \A i \in 1 .. 1 + Len(q) : c[i] = IF i =< 1 THEN <<e>>[i] ELSE q[i - 1]
  BY <1>1, <1>2, ConcatProperties
<1>4. /\ Len(q) \in Nat /\ DOMAIN q = 1 .. Len(q) /\ DOMAIN c = 1 .. 1 + Len(q)
  BY <1>3, LenProperties
<1>5. c[1] = e /\ 1 \in DOMAIN c
  <2>1. 1 \in 1 .. 1 + Len(q) BY <1>4
  <2> QED BY <1>3, <1>4, <2>1
<1>6. \A i \in 1 .. Len(q) : i + 1 \in DOMAIN c /\ c[i + 1] = q[i]
  <2>1. SUFFICES ASSUME NEW i \in 1 .. Len(q) PROVE i + 1 \in DOMAIN c /\ c[i + 1] = q[i]
    OBVIOUS
  <2>2. i + 1 \in 1 .. 1 + Len(q) /\ ~(i + 1 =< 1) /\ (i + 1) - 1 = i BY <1>4
  <2> QED BY <1>3, <1>4, <2>2
<1>7. \A j \in DOMAIN c : j = 1 \/ (j - 1 \in 1 .. Len(q) /\ c[j] = q[j - 1])
  <2>1. SUFFICES ASSUME NEW j \in DOMAIN c, j # 1 PROVE j - 1 \in 1 .. Len(q) /\ c[j] = q[j - 1]
    OBVIOUS
  <2>2. j \in 1 .. 1 + Len(q) /\ j - 1 \in 1 .. Len(q) /\ ~(j =< 1) BY <1>4, <2>1
  <2> QED BY <1>3, <2>2
<1>8. Range(c) = {e} \cup Range(q) BY <1>4, <1>5, <1>6, <1>7 DEF Range
<1>9. c # << >> /\ Head(c) = e BY <1>3, <1>4, <1>5
<1> QED BY <1>2, <1>3, <1>4, <1>8, <1>9

LEMMA RangeTail ==
    ASSUME NEW S, NEW q \in Seq(S), q # << >>
    PROVE  Range(q) = {Head(q)} \cup Range(Tail(q)) /\ Len(Tail(q)) = Len(q) - 1
           /\ Len(q) \in Nat
<1>1. /\ Head(q) \in S /\ Tail(q) \in Seq(S) /\ Len(Tail(q)) = Len(q) - 1
      /\ \A i \in 1 .. Len(Tail(q)) : Tail(q)[i] = q[i + 1]
  BY HeadTailProperties
<1>2. PICK t \in Seq(S) : t = Tail(q) BY <1>1
<1>3. /\ Len(q) \in Nat /\ DOMAIN q = 1 .. Len(q) /\ DOMAIN t = 1 .. Len(t)
      /\ Len(t) = Len(q) - 1 /\ \A i \in 1 .. Len(t) : t[i] = q[i + 1]
  BY <1>1, <1>2, LenProperties
<1>4. Len(q) >= 1 /\ Head(q) = q[1] BY <1>3, EmptySeq
<1>5. \A i \in DOMAIN t : i + 1 \in DOMAIN q /\ t[i] = q[i + 1] BY <1>3
<1>6. \A j \in DOMAIN q : j = 1 \/ (j - 1 \in DOMAIN t /\ q[j] = t[j - 1])
  <2>1. SUFFICES ASSUME NEW j \in DOMAIN q, j # 1 PROVE j - 1 \in DOMAIN t /\ q[j] = t[j - 1]
    OBVIOUS
  <2>2. j - 1 \in 1 .. Len(t) /\ (j - 1) + 1 = j BY <1>3, <2>1
  <2> QED BY <1>3, <2>2
<1>7. 1 \in DOMAIN q BY <1>3, <1>4
<1>8. Range(q) = {q[i] : i \in DOMAIN q} /\ Range(t) = {t[i] : i \in DOMAIN t} BY Zenon DEF Range
<1>9. Range(q) = {q[1]} \cup Range(t) BY ONLY <1>5, <1>6, <1>7, <1>8
<1> QED BY <1>2, <1>3, <1>4, <1>9

LEMMA EntriesFacts ==
    ASSUME NEW img \in GoodImages, NEW rom
    PROVE  /\ \A e \in EntriesIn(img, rom) : e = EntryOf(img, rom, e.id)
           /\ \A e \in EntriesIn(img, rom) : e.id \in {img.id} \cup Range(DevIds(img))
           /\ \A id \in {img.id} \cup Range(DevIds(img)) :
                EntryOf(img, rom, id) \in EntriesIn(img, rom)
<1>1. img # NoImage BY GoodType
<1>2. EntriesIn(img, rom) = {EntryOf(img, rom, id) : id \in {img.id} \cup Range(DevIds(img))}
  BY <1>1 DEF EntriesIn
<1>3. \A id : EntryOf(img, rom, id).id = id BY DEF EntryOf
<1> QED BY <1>2, <1>3

\* An image's ids. are all entered: first its own, which is then passed over.
LEMMA PendStart ==
    ASSUME NEW img \in GoodImages, NEW rom, NEW made
    PROVE  PendingAt(<<img.id>> \o DevIds(img), img, rom, made)
<1>1. img.id \in Nat /\ DevIds(img) \in Seq(Nat) BY GoodType
<1>2. PICK pd : pd = <<img.id>> \o DevIds(img) OBVIOUS
<1>3. /\ Range(pd) = {img.id} \cup Range(DevIds(img)) /\ Len(pd) = Len(DevIds(img)) + 1
      /\ Head(pd) = img.id /\ pd # << >>
  BY <1>1, <1>2, RangeCons
<1>4. PendingAt(pd, img, rom, made) BY <1>3, EntriesFacts DEF PendingAt
<1> QED BY <1>2, <1>4

LEMMA PendNext ==
    ASSUME NEW img \in GoodImages, NEW rom, NEW made, NEW pd \in Seq(Nat), pd # << >>,
           PendingAt(pd, img, rom, made), NEW made2,
           IF Len(pd) > Len(DevIds(img)) \/ Head(pd) # img.id
           THEN made2 = made \cup {EntryOf(img, rom, Head(pd))} ELSE made2 = made
    PROVE  /\ PendingAt(Tail(pd), img, rom, made2)
           /\ EntryOf(img, rom, Head(pd)) \in EntriesIn(img, rom)
<1>1. /\ Range(pd) = {Head(pd)} \cup Range(Tail(pd)) /\ Len(Tail(pd)) = Len(pd) - 1
      /\ Len(pd) \in Nat
  BY RangeTail
<1>2. Len(DevIds(img)) \in Nat
  <2>1. DevIds(img) \in Seq(Nat) BY GoodType
  <2> QED BY <2>1, LenProperties
<1>3. Range(pd) \subseteq {img.id} \cup Range(DevIds(img)) BY DEF PendingAt
<1>4. EntryOf(img, rom, Head(pd)) \in EntriesIn(img, rom) BY <1>1, <1>3, EntriesFacts
<1>5. EntryOf(img, rom, Head(pd)) \in made2
  <2>1. CASE Len(pd) > Len(DevIds(img)) \/ Head(pd) # img.id BY <2>1
  <2>2. CASE ~(Len(pd) > Len(DevIds(img)) \/ Head(pd) # img.id)
    <3>1. Len(pd) # Len(DevIds(img)) + 1
      <4>1. PICK x \in Nat, y \in Nat : x = Len(pd) /\ y = Len(DevIds(img)) BY <1>1, <1>2
      <4>2. ~(x > y) BY <2>2, <4>1
      <4> QED BY <4>1, <4>2
    <3>2. EntryOf(img, rom, img.id) \in made BY <3>1 DEF PendingAt
    <3> QED BY <2>2, <3>2
  <2> QED BY <2>1, <2>2
<1>6. made \subseteq made2 OBVIOUS
<1>7. \A e \in EntriesIn(img, rom) : e \in made2 \/ e.id \in Range(Tail(pd))
  <2>1. SUFFICES ASSUME NEW e \in EntriesIn(img, rom), e \notin made2 PROVE e.id \in Range(Tail(pd))
    OBVIOUS
  <2>2. e.id \in Range(pd) BY <1>6, <2>1 DEF PendingAt
  <2>3. e.id # Head(pd) BY <1>5, <2>1, EntriesFacts
  <2> QED BY <1>1, <2>2, <2>3
<1>8. Len(Tail(pd)) =< Len(DevIds(img)) /\ EntryOf(img, rom, img.id) \in made2
  <2>1. CASE Head(pd) = img.id /\ Len(pd) = Len(DevIds(img)) + 1 BY <1>1, <1>2, <1>5, <2>1
  <2>2. CASE Len(pd) =< Len(DevIds(img)) /\ EntryOf(img, rom, img.id) \in made
    BY <1>1, <1>2, <1>6, <2>2
  <2> QED BY <2>1, <2>2 DEF PendingAt
<1> QED BY <1>1, <1>3, <1>4, <1>7, <1>8 DEF PendingAt

\* The entries of all option ROMs, one option ROM at a time.
LEMMA InAll ==
    ASSUME NEW fs, NEW fi \in DOMAIN fs, fs[fi].kind = "plain", NEW si \in DOMAIN fs[fi].sections,
           NEW b \in RomsIn(fs[fi].sections[si])
    PROVE  EntriesIn(BestOf(fs[fi].sections[si], b), <<fi, si, b>>) \subseteq AllEntries(fs)
<1> DEFINE E(i, j, n) == EntriesIn(BestOf(fs[i].sections[j], n), <<i, j, n>>)
           R(i, j) == RomsIn(fs[i].sections[j])
           A == UNION {UNION {UNION {E(i, j, n) : n \in R(i, j)} : j \in DOMAIN fs[i].sections} :
                         i \in {n \in DOMAIN fs : fs[n].kind = "plain"}}
<1>1. AllEntries(fs) = A BY DEF AllEntries
<1>2. b \in R(fi, si) /\ fi \in {n \in DOMAIN fs : fs[n].kind = "plain"} OBVIOUS
<1> HIDE DEF E, R
<1>3. E(fi, si, b) \subseteq UNION {E(fi, si, n) : n \in R(fi, si)} BY <1>2
<1>4. UNION {E(fi, si, n) : n \in R(fi, si)}
        \subseteq UNION {UNION {E(fi, j, n) : n \in R(fi, j)} : j \in DOMAIN fs[fi].sections}
  OBVIOUS
<1>5. UNION {UNION {E(fi, j, n) : n \in R(fi, j)} : j \in DOMAIN fs[fi].sections} \subseteq A
  BY <1>2
<1> QED BY <1>1, <1>3, <1>4, <1>5 DEF E

LEMMA AllOnlyRoms ==
    ASSUME NEW fs, NEW e \in AllEntries(fs)
    PROVE  \E fi, si, b :
             /\ fi \in DOMAIN fs /\ fs[fi].kind = "plain"
             /\ si \in DOMAIN fs[fi].sections /\ b \in RomsIn(fs[fi].sections[si])
             /\ e \in EntriesIn(BestOf(fs[fi].sections[si], b), <<fi, si, b>>)
<1> DEFINE E(i, j, n) == EntriesIn(BestOf(fs[i].sections[j], n), <<i, j, n>>)
           R(i, j) == RomsIn(fs[i].sections[j])
           OfSection(i, j) == UNION {E(i, j, n) : n \in R(i, j)}
           OfFile(i) == UNION {OfSection(i, j) : j \in DOMAIN fs[i].sections}
<1>1. e \in UNION {OfFile(i) : i \in {n \in DOMAIN fs : fs[n].kind = "plain"}} BY DEF AllEntries
<1> HIDE DEF OfFile
<1>2. PICK fi \in {n \in DOMAIN fs : fs[n].kind = "plain"} : e \in OfFile(fi) BY <1>1
<1> USE DEF OfFile
<1> HIDE DEF OfSection
<1>3. PICK si \in DOMAIN fs[fi].sections : e \in OfSection(fi, si) BY <1>2
<1> USE DEF OfSection
<1> HIDE DEF E, R
<1>4. PICK b \in R(fi, si) : e \in E(fi, si, b) BY <1>3
<1> QED BY <1>2, <1>3, <1>4 DEF E, R

\* If no more option ROMs were gone through, or their entries were made, what
\* was complete stays so.
LEMMA StaysComplete ==
    ASSUME NEW fs \in Seq(FileRecords), NEW ph, NEW ff, NEW ss, NEW kk, NEW made,
           NEW ph2, NEW ff2, NEW ss2, NEW kk2, NEW made2,
           CompleteAt(fs, ph, ff, ss, kk, made), made \subseteq made2,
           \A fi \in DOMAIN fs : fs[fi].kind = "plain" =>
              \A si \in DOMAIN fs[fi].sections : \A b \in RomsIn(fs[fi].sections[si]) :
                PassedAt(ph2, ff2, ss2, kk2, fi, si, b) =>
                    \/ PassedAt(ph, ff, ss, kk, fi, si, b)
                    \/ EntriesIn(BestOf(fs[fi].sections[si], b), <<fi, si, b>>) \subseteq made2
    PROVE  CompleteAt(fs, ph2, ff2, ss2, kk2, made2)
<1> SUFFICES ASSUME NEW fi \in DOMAIN fs, fs[fi].kind = "plain", NEW si \in DOMAIN fs[fi].sections,
                    NEW b \in RomsIn(fs[fi].sections[si]), PassedAt(ph2, ff2, ss2, kk2, fi, si, b)
             PROVE  EntriesIn(BestOf(fs[fi].sections[si], b), <<fi, si, b>>) \subseteq made2
  BY Zenon DEF CompleteAt
<1>1. CASE PassedAt(ph, ff, ss, kk, fi, si, b)
  <2>1. EntriesIn(BestOf(fs[fi].sections[si], b), <<fi, si, b>>) \subseteq made
    BY <1>1, Zenon DEF CompleteAt
  <2> QED BY <2>1
<1> QED BY <1>1

LEMMA EntriesOfNone == \A rom : EntriesIn(NoImage, rom) = {}
BY DEF EntriesIn

LEMMA GatherStep == Types /\ GatherInv /\ [Next]_vars => GatherInv'
<1> SUFFICES ASSUME Types, GatherInv, [Next]_vars, pc' # "error" PROVE GatherInv'
  BY DEF GatherInv
<1>0. WorldType /\ FvType /\ PciType BY DEF Types
<1>1. files' = files /\ files \in Seq(FileRecords) BY <1>0, WorldStep DEF world, WorldType
<1>2. /\ f \in Nat /\ s \in Nat /\ k \in Nat \ {0} /\ left \in Nat
      /\ DOMAIN files = 1 .. Len(files) /\ Len(files) \in Nat
  BY <1>0, <1>1, Constants, LenProperties DEF FvType
<1>3. GatherInv' <=>
        /\ Range(cached') \subseteq AllEntries(files)
        /\ CompleteAt(files, pc', f', s', k', Range(cached'))
        /\ pc' \in {"section", "image", "cache"} => files[f'].kind = "plain"
        /\ pc' \in Later => f' > Len(files)
        /\ pc' \in {"image", "cache"} => ScanAt(files[f'].sections[s'], pc', k', left', found')
        /\ pc' = "cache" => PendingAt(pending', found', <<f', s', k' - 1>>, Range(cached'))
  BY <1>1 DEF GatherInv
<1>4. pc # "error" =>
        /\ Range(cached) \subseteq AllEntries(files)
        /\ CompleteAt(files, pc, f, s, k, Range(cached))
        /\ pc \in {"section", "image", "cache"} => files[f].kind = "plain"
        /\ pc \in Later => f > Len(files)
        /\ pc \in {"image", "cache"} => ScanAt(files[f].sections[s], pc, k, left, found)
        /\ pc = "cache" => PendingAt(pending, found, <<f, s, k - 1>>, Range(cached))
  BY DEF GatherInv
\* The numbers of an option ROM.
<1>5. ASSUME NEW fi \in DOMAIN files, NEW si \in DOMAIN files[fi].sections,
             NEW b \in RomsIn(files[fi].sections[si])
      PROVE  /\ fi \in Nat /\ fi >= 1 /\ fi =< Len(files)
             /\ si \in Nat /\ si >= 1 /\ si =< Len(files[fi].sections)
             /\ Len(files[fi].sections) \in Nat
             /\ b \in Nat /\ b >= 1 /\ b \in Accepted(files[fi].sections[si])
             /\ files[fi].sections[si].imgs[b].last
  <2>1. /\ fi \in Nat /\ fi >= 1 /\ fi =< Len(files) /\ Len(files[fi].sections) \in Nat
        /\ DOMAIN files[fi].sections = 1 .. Len(files[fi].sections)
        /\ files[fi].sections[si] \in SectionRecords
    BY <1>1, SectionType
  <2>2. PICK sec \in SectionRecords : sec = files[fi].sections[si] BY <2>1
  <2>3. b \in Accepted(sec) /\ sec.imgs[b].last BY <2>2 DEF RomsIn
  <2>4. Accepted(sec) \subseteq 1 .. Len(sec.imgs) /\ Len(sec.imgs) \in Nat BY SecFacts
  <2> QED BY <2>1, <2>2, <2>3, <2>4
<1>6. CASE NextFile
  <2>1. pc = "file" /\ f =< Len(files) /\ UNCHANGED <<k, left, found, pending, cached>>
    BY <1>6 DEF NextFile
  <2>2. f \in DOMAIN files BY <1>0, <1>2, <2>1 DEF FvType
  <2>3. files[f].kind \in {"plain", "pad", "volume", "closed"} BY <1>1, <2>2, SectionType
  <2>4. CASE files[f].kind # "plain"
    <3>1. f' = f + 1 /\ pc' = "file" BY <1>6, <2>1, <2>3, <2>4 DEF NextFile
    <3>2. CompleteAt(files, pc', f', s', k', Range(cached'))
      <4>1. ASSUME NEW fi \in DOMAIN files, files[fi].kind = "plain",
                   NEW si \in DOMAIN files[fi].sections, NEW b \in RomsIn(files[fi].sections[si]),
                   PassedAt(pc', f', s', k', fi, si, b)
            PROVE  PassedAt(pc, f, s, k, fi, si, b)
        <5>1. fi < f + 1 /\ fi # f BY <2>4, <3>1, <4>1 DEF PassedAt
        <5>2. fi < f BY <1>2, <1>5, <5>1
        <5> QED BY <5>2 DEF PassedAt
      <4>2. CompleteAt(files, pc, f, s, k, Range(cached)) /\ Range(cached') = Range(cached)
        BY <1>4, <2>1
      <4> QED BY <1>1, <4>1, <4>2, StaysComplete
    <3> QED BY <1>3, <1>4, <2>1, <3>1, <3>2 DEF Later
  <2>5. CASE files[f].kind = "plain"
    <3>1. f' = f /\ s' = 1 /\ pc' = "section" BY <1>6, <2>1, <2>5 DEF NextFile
    <3>2. CompleteAt(files, pc', f', s', k', Range(cached'))
      <4>1. ASSUME NEW fi \in DOMAIN files, files[fi].kind = "plain",
                   NEW si \in DOMAIN files[fi].sections, NEW b \in RomsIn(files[fi].sections[si]),
                   PassedAt(pc', f', s', k', fi, si, b)
            PROVE  PassedAt(pc, f, s, k, fi, si, b)
        <5>1. fi < f \/ si < 1 BY <3>1, <4>1 DEF PassedAt
        <5>2. fi < f BY <1>5, <5>1
        <5> QED BY <5>2 DEF PassedAt
      <4>2. CompleteAt(files, pc, f, s, k, Range(cached)) /\ Range(cached') = Range(cached)
        BY <1>4, <2>1
      <4> QED BY <1>1, <4>1, <4>2, StaysComplete
    <3> QED BY <1>3, <1>4, <2>1, <2>5, <3>1, <3>2 DEF Later
  <2> QED BY <2>4, <2>5
<1>7. CASE FvDone
  <2>1. pc = "file" /\ f > Len(files) /\ pc' = "device" /\ UNCHANGED <<f, s, k, left, found, pending, cached>>
    BY <1>7 DEF FvDone, fvVars
  <2>2. CompleteAt(files, pc', f', s', k', Range(cached'))
    <3>1. \A fi, si, b : PassedAt(pc', f', s', k', fi, si, b) => PassedAt(pc, f, s, k, fi, si, b)
      BY <2>1 DEF PassedAt
    <3>2. CompleteAt(files, pc, f, s, k, Range(cached)) /\ Range(cached') = Range(cached)
      BY <1>4, <2>1
    <3> QED BY <1>1, <3>1, <3>2, StaysComplete
  <2> QED BY <1>3, <1>4, <2>1, <2>2
<1>8. CASE NextSection
  <2>1. pc = "section" /\ UNCHANGED <<s, pending, cached>> BY <1>8 DEF NextSection
  <2>2. f \in DOMAIN files /\ files[f].kind = "plain" BY <1>0, <1>4, <2>1 DEF FvType
  <2>3. Len(files[f].sections) \in Nat /\ DOMAIN files[f].sections = 1 .. Len(files[f].sections)
    BY <1>1, <2>2, SectionType
  <2>4. CASE s > Len(files[f].sections)
    <3>1. pc' = "file" /\ f' = f + 1 /\ UNCHANGED k BY <1>8, <2>4 DEF NextSection, Sections
    <3>2. CompleteAt(files, pc', f', s', k', Range(cached'))
      <4>1. ASSUME NEW fi \in DOMAIN files, files[fi].kind = "plain",
                   NEW si \in DOMAIN files[fi].sections, NEW b \in RomsIn(files[fi].sections[si]),
                   PassedAt(pc', f', s', k', fi, si, b)
            PROVE  PassedAt(pc, f, s, k, fi, si, b)
        <5>1. fi < f + 1 BY <3>1, <4>1 DEF PassedAt
        <5>2. CASE fi < f BY <5>2 DEF PassedAt
        <5>3. CASE fi = f
          <6>1. si \in Nat /\ si =< Len(files[f].sections) BY <1>5, <5>3
          <6>2. si < s BY <1>2, <2>3, <2>4, <6>1
          <6> QED BY <2>1, <5>3, <6>2 DEF PassedAt
        <5>4. fi \in Nat BY <1>5
        <5> QED BY <1>2, <5>1, <5>2, <5>3, <5>4
      <4>2. CompleteAt(files, pc, f, s, k, Range(cached)) /\ Range(cached') = Range(cached)
        BY <1>4, <2>1
      <4> QED BY <1>1, <4>1, <4>2, StaysComplete
    <3> QED BY <1>3, <1>4, <2>1, <3>1, <3>2 DEF Later
  <2>5. CASE ~(s > Len(files[f].sections))
    <3>1. s \in DOMAIN files[f].sections BY <1>0, <1>2, <2>3, <2>5 DEF FvType
    <3>2. PICK sec \in SectionRecords : sec = files[f].sections[s] BY <1>1, <2>2, <3>1, SectionType
    <3>3. pc' = "image" /\ k' = 1 /\ found' = NoImage /\ f' = f /\ left' = SizeIn(sec)
      BY <1>8, <2>5, <3>2 DEF NextSection, Sections, SizeIn
    <3>4. ScanAt(sec, "image", 1, SizeIn(sec), NoImage)
      <4>1. Len(sec.imgs) \in Nat /\ SizeIn(sec) \in Nat BY SecFacts
      <4>2. 1 - 1 = 0 /\ 1 .. 0 = {} OBVIOUS
      <4>3. Upto(sec)[0] = 0 /\ SizeIn(sec) = SizeIn(sec) - 0 BY <4>1, UptoIs
      <4>4. LastEnd(sec, 1) = 0 BY LastEndStep
      <4>5. BestFrom(sec.imgs, 0, 0) = NoImage BY BestOfNone
      <4> QED BY <4>1, <4>2, <4>3, <4>4, <4>5 DEF ScanAt
    <3>5. CompleteAt(files, pc', f', s', k', Range(cached'))
      <4>1. ASSUME NEW fi \in DOMAIN files, files[fi].kind = "plain",
                   NEW si \in DOMAIN files[fi].sections, NEW b \in RomsIn(files[fi].sections[si]),
                   PassedAt(pc', f', s', k', fi, si, b)
            PROVE  PassedAt(pc, f, s, k, fi, si, b)
        <5>1. b \in Nat /\ b >= 1 BY <1>5
        <5>2. \/ fi < f
              \/ fi = f /\ si < s
              \/ b < 1
          BY <2>1, <3>3, <4>1 DEF PassedAt
        <5>3. fi < f \/ (fi = f /\ si < s) BY <5>1, <5>2
        <5> QED BY <2>1, <5>3 DEF PassedAt
      <4>2. CompleteAt(files, pc, f, s, k, Range(cached)) /\ Range(cached') = Range(cached)
        BY <1>4, <2>1
      <4> QED BY <1>1, <4>1, <4>2, StaysComplete
    <3>6. ScanAt(files[f'].sections[s'], pc', k', left', found') BY <2>1, <3>2, <3>3, <3>4
    <3> QED BY <1>3, <1>4, <2>1, <2>2, <3>3, <3>5, <3>6 DEF Later
  <2> QED BY <2>4, <2>5
<1>9. CASE ScanImage
  <2>1. pc = "image" /\ HasPcir(Image, left) BY <1>9 DEF ScanImage
  <2>2. f \in DOMAIN files /\ files[f].kind = "plain" /\ s \in DOMAIN files[f].sections
    BY <1>0, <1>4, <2>1 DEF FvType
  <2>3. PICK sec \in SectionRecords : sec = files[f].sections[s] BY <1>1, <2>2, SectionType
  <2>4. PICK i \in ImageRecords : i = Image BY <1>0, <2>1, ImageType
  <2>5. i = (IF k =< Len(sec.imgs) THEN sec.imgs[k] ELSE NoImage) BY <2>3, <2>4 DEF Image, Sections
  <2>6. ScanAt(sec, "image", k, left, found) BY <1>4, <2>1, <2>3
  <2>7. /\ k \in 1 .. Len(sec.imgs) /\ i = sec.imgs[k] /\ 1 .. k \subseteq Accepted(sec)
        /\ Upto(sec)[k] \in Nat /\ left - i.len * HKib = SizeIn(sec) - Upto(sec)[k]
        /\ BestOf(sec, k) = IF Preferred(i, found) THEN i ELSE found
    BY <1>2, <2>1, <2>4, <2>5, <2>6, ScanOne
  <2>8. PICK best : best = BestOf(sec, k) OBVIOUS
  <2>9. /\ UNCHANGED <<f, s, cached>> /\ k' = k + 1 /\ left' = left - i.len * HKib /\ found' = best
        /\ IF i.last /\ best # NoImage
           THEN pc' = "cache" /\ pending' = <<best.id>> \o DevIds(best)
           ELSE pc' = "image"
    BY <1>9, <2>4, <2>7, <2>8 DEF ScanImage
  <2>10. k' - 1 = k /\ k \in Accepted(sec) /\ k + 1 - 1 = k /\ k \in Int
    <3>1. k \in 1 .. k BY <1>2
    <3> QED BY <1>2, <2>7, <2>9, <3>1
  <2>11. k =< Len(sec.imgs)
    <3>1. Len(sec.imgs) \in Nat BY SecFacts
    <3> QED BY <2>7, <3>1
  <2>12. ScanAt(sec, pc', k', left', found')
    <3>1. /\ k' - 1 =< Len(sec.imgs) /\ 1 .. k' - 1 \subseteq Accepted(sec)
          /\ Upto(sec)[k' - 1] \in Nat /\ left' = SizeIn(sec) - Upto(sec)[k' - 1]
      BY <2>7, <2>9, <2>10, <2>11
    <3>2. pc' = "cache" => k' > 1 /\ sec.imgs[k' - 1].last /\ found' = BestOf(sec, k' - 1)
      BY <1>2, <2>7, <2>8, <2>9, <2>10
    <3>3. pc' = "image" => found' = BestFrom(sec.imgs, LastEnd(sec, k'), k' - 1)
      <4>1. SUFFICES ASSUME pc' = "image" PROVE best = BestFrom(sec.imgs, LastEnd(sec, k + 1), k)
        BY <2>9, <2>10
      <4>2. CASE i.last
        <5>1. best = NoImage BY <2>9, <4>1, <4>2
        <5>2. LastEnd(sec, k + 1) = k BY <1>2, <2>7, <2>10, <4>2, LastEndStep
        <5>3. BestFrom(sec.imgs, k, k) = NoImage BY <2>10, BestOfNone
        <5> QED BY <5>1, <5>2, <5>3
      <4>3. CASE ~i.last
        <5>1. LastEnd(sec, k + 1) = LastEnd(sec, k) BY <1>2, <2>7, <4>3, LastEndStep
        <5> QED BY <2>8, <5>1, BestOfIs
      <4> QED BY <4>2, <4>3
    <3> QED BY <3>1, <3>2, <3>3 DEF ScanAt
  <2>13. CompleteAt(files, pc', f', s', k', Range(cached'))
    <3>1. ASSUME NEW fi \in DOMAIN files, files[fi].kind = "plain",
                 NEW si \in DOMAIN files[fi].sections, NEW b \in RomsIn(files[fi].sections[si]),
                 PassedAt(pc', f', s', k', fi, si, b)
          PROVE  \/ PassedAt(pc, f, s, k, fi, si, b)
                 \/ EntriesIn(BestOf(files[fi].sections[si], b), <<fi, si, b>>) \subseteq Range(cached')
      <4>1. b \in Nat BY <1>5
      <4>2. \/ fi < f
            \/ fi = f /\ si < s
            \/ fi = f /\ si = s /\ b < k
            \/ pc' = "image" /\ fi = f /\ si = s /\ b = k
        <5>1. \/ fi < f
              \/ fi = f /\ si < s
              \/ pc' = "image" /\ fi = f /\ si = s /\ b < k + 1
              \/ pc' = "cache" /\ fi = f /\ si = s /\ b < k
          BY <2>9, <2>10, <3>1 DEF PassedAt
        <5>2. b < k + 1 => b < k \/ b = k BY <1>2, <4>1
        <5> QED BY <5>1, <5>2
      <4>3. CASE pc' = "image" /\ fi = f /\ si = s /\ b = k
        <5>1. i.last BY <1>5, <2>3, <2>7, <4>3
        <5>2. best = NoImage BY <2>9, <4>3, <5>1
        <5>3. BestOf(files[fi].sections[si], b) = NoImage BY <2>3, <2>8, <4>3, <5>2
        <5>4. EntriesIn(BestOf(files[fi].sections[si], b), <<fi, si, b>>) = {}
          BY <5>3, EntriesOfNone
        <5> QED BY <5>4
      <4> QED BY <2>1, <4>2, <4>3 DEF PassedAt
    <3>2. CompleteAt(files, pc, f, s, k, Range(cached)) /\ Range(cached') = Range(cached)
      BY <1>4, <2>1, <2>9
    <3> QED BY <1>1, <3>1, <3>2, StaysComplete
  <2>14. pc' = "cache" => PendingAt(pending', found', <<f', s', k' - 1>>, Range(cached'))
    <3>1. SUFFICES ASSUME pc' = "cache" PROVE PendingAt(pending', best, <<f', s', k' - 1>>, Range(cached'))
      BY <2>9
    <3>2. best \in GoodImages
      <4>1. best # NoImage BY <2>9, <3>1
      <4>2. found' = NoImage \/ found' \in GoodImages BY TypesStep DEF Types, FvType
      <4> QED BY <2>9, <4>1, <4>2
    <3>3. pending' = <<best.id>> \o DevIds(best) BY <2>9, <3>1
    <3> QED BY <3>2, <3>3, PendStart
  <2>15. pc' \in {"image", "cache"} BY <2>9
  <2>16. ScanAt(files[f'].sections[s'], pc', k', left', found') BY <2>3, <2>9, <2>12
  <2>17. Range(cached') \subseteq AllEntries(files) /\ files[f'].kind = "plain" BY <1>4, <2>1, <2>2, <2>9
  <2> QED BY <1>3, <2>13, <2>14, <2>15, <2>16, <2>17 DEF Later
<1>10. CASE SectionDone
  <2>1. pc = "image" /\ ~HasPcir(Image, left) /\ pc' = "section" /\ s' = s + 1 /\ UNCHANGED <<f, k, cached>>
    BY <1>10 DEF SectionDone
  <2>2. f \in DOMAIN files /\ files[f].kind = "plain" /\ s \in DOMAIN files[f].sections
    BY <1>0, <1>4, <2>1 DEF FvType
  <2>3. PICK sec \in SectionRecords : sec = files[f].sections[s] BY <1>1, <2>2, SectionType
  <2>4. ~HasPcir(IF k =< Len(sec.imgs) THEN sec.imgs[k] ELSE NoImage, left)
    BY <2>1, <2>3 DEF Image, Sections
  <2>5. ScanAt(sec, "image", k, left, found) BY <1>4, <2>1, <2>3
  <2>6. \A n \in Accepted(sec) : n < k BY <1>2, <2>4, <2>5, ScanEnd
  <2>7. CompleteAt(files, pc', f', s', k', Range(cached'))
    <3>1. ASSUME NEW fi \in DOMAIN files, files[fi].kind = "plain",
                 NEW si \in DOMAIN files[fi].sections, NEW b \in RomsIn(files[fi].sections[si]),
                 PassedAt(pc', f', s', k', fi, si, b)
          PROVE  PassedAt(pc, f, s, k, fi, si, b)
      <4>1. fi < f \/ (fi = f /\ si < s + 1) BY <2>1, <3>1 DEF PassedAt
      <4>2. si < s + 1 => si < s \/ si = s
        <5>1. si \in Nat BY <1>5
        <5> QED BY <1>2, <5>1
      <4>3. CASE fi = f /\ si = s
        <5>1. b < k BY <1>5, <2>3, <2>6, <4>3
        <5> QED BY <2>1, <4>3, <5>1 DEF PassedAt
      <4> QED BY <2>1, <4>1, <4>2, <4>3 DEF PassedAt
    <3>2. CompleteAt(files, pc, f, s, k, Range(cached)) /\ Range(cached') = Range(cached)
      BY <1>4, <2>1
    <3> QED BY <1>1, <3>1, <3>2, StaysComplete
  <2> QED BY <1>3, <1>4, <2>1, <2>2, <2>7 DEF Later
<1>11. CASE CacheRimg
  <2>1. pc = "cache" /\ pending # << >> BY <1>11 DEF CacheRimg
  <2>2. f \in DOMAIN files /\ files[f].kind = "plain" /\ s \in DOMAIN files[f].sections
    BY <1>0, <1>4, <2>1 DEF FvType
  <2>3. PICK sec \in SectionRecords : sec = files[f].sections[s] BY <1>1, <2>2, SectionType
  <2>4. found \in GoodImages /\ pending \in Seq(Nat) /\ cached \in Seq(Entries) BY <1>0, <2>1 DEF FvType
  <2>5. PICK rom : rom = <<f, s, k - 1>> OBVIOUS
  <2>6. PICK e : e = EntryOf(found, rom, Head(pending)) OBVIOUS
  <2>7. e = Entry(Head(pending)) BY <2>5, <2>6 DEF Entry, EntryOf
  <2>8. e \in Entries BY <1>0, <2>1, <2>7, EntryType
  <2>9. /\ UNCHANGED <<pc, f, s, k, left, found>> /\ pending' = Tail(pending)
        /\ IF Len(pending) > Len(DevIds(found)) \/ Head(pending) # found.id
           THEN cached' = Append(cached, e) ELSE cached' = cached
    BY <1>11, <2>7, Zenon DEF CacheRimg, Enters
  <2>10. IF Len(pending) > Len(DevIds(found)) \/ Head(pending) # found.id
         THEN Range(cached') = Range(cached) \cup {e} ELSE Range(cached') = Range(cached)
    <3>1. Range(Append(cached, e)) = Range(cached) \cup {e} BY <2>4, <2>8, RangeAppend
    <3> QED BY <2>9, <3>1
  <2>11. PendingAt(pending, found, rom, Range(cached)) BY <1>4, <2>1, <2>5
  <2>12. /\ PendingAt(Tail(pending), found, rom, Range(cached'))
         /\ e \in EntriesIn(found, rom)
    <3>1. PICK m, m2 : m = Range(cached) /\ m2 = Range(cached') OBVIOUS
    <3>2. IF Len(pending) > Len(DevIds(found)) \/ Head(pending) # found.id
          THEN m2 = m \cup {EntryOf(found, rom, Head(pending))} ELSE m2 = m
      BY <2>6, <2>10, <3>1
    <3>3. PendingAt(pending, found, rom, m) BY <2>11, <3>1
    <3>4. PendingAt(Tail(pending), found, rom, m2)
          /\ EntryOf(found, rom, Head(pending)) \in EntriesIn(found, rom)
      BY <2>1, <2>4, <3>2, <3>3, PendNext
    <3> QED BY <2>6, <3>1, <3>4
  <2>13. ScanAt(sec, "cache", k, left, found) BY <1>4, <2>1, <2>3
  <2>14. EntriesIn(found, rom) \subseteq AllEntries(files)
    <3>1. found = BestOf(sec, k - 1) /\ sec.imgs[k - 1].last /\ k > 1 /\ 1 .. k - 1 \subseteq Accepted(sec)
      BY <2>13 DEF ScanAt
    <3>2. k - 1 \in 1 .. k - 1 BY <1>2, <3>1
    <3>3. k - 1 \in RomsIn(sec) BY <3>1, <3>2 DEF RomsIn
    <3> QED BY <2>2, <2>3, <2>5, <3>1, <3>3, InAll
  <2>15. Range(cached') \subseteq AllEntries(files) /\ Range(cached) \subseteq Range(cached')
    BY <1>4, <2>1, <2>10, <2>12, <2>14
  <2>16. CompleteAt(files, pc', f', s', k', Range(cached'))
    <3>1. \A fi, si, b : PassedAt(pc', f', s', k', fi, si, b) => PassedAt(pc, f, s, k, fi, si, b)
      BY <2>9 DEF PassedAt
    <3>2. CompleteAt(files, pc, f, s, k, Range(cached)) BY <1>4, <2>1
    <3> QED BY <1>1, <2>15, <3>1, <3>2, StaysComplete
  <2>17. ScanAt(files[f'].sections[s'], pc', k', left', found') BY <2>1, <2>3, <2>9, <2>13
  <2>18. PendingAt(pending', found', <<f', s', k' - 1>>, Range(cached')) BY <2>5, <2>9, <2>12
  <2> QED BY <1>3, <2>1, <2>2, <2>9, <2>15, <2>16, <2>17, <2>18 DEF Later
<1>12. CASE CacheDone
  <2>1. pc = "cache" /\ pending = << >> /\ pc' = "image" /\ found' = NoImage
        /\ UNCHANGED <<f, s, k, left, cached>>
    BY <1>12 DEF CacheDone
  <2>2. f \in DOMAIN files /\ files[f].kind = "plain" /\ s \in DOMAIN files[f].sections
    BY <1>0, <1>4, <2>1 DEF FvType
  <2>3. PICK sec \in SectionRecords : sec = files[f].sections[s] BY <1>1, <2>2, SectionType
  <2>4. ScanAt(sec, "cache", k, left, found) BY <1>4, <2>1, <2>3
  <2>5. /\ k - 1 =< Len(sec.imgs) /\ 1 .. k - 1 \subseteq Accepted(sec)
        /\ Upto(sec)[k - 1] \in Nat /\ left = SizeIn(sec) - Upto(sec)[k - 1]
        /\ k > 1 /\ sec.imgs[k - 1].last /\ found = BestOf(sec, k - 1)
    BY <2>4 DEF ScanAt
  <2>6. EntriesIn(found, <<f, s, k - 1>>) \subseteq Range(cached)
    <3>1. Range(pending) = {} BY <2>1 DEF Range
    <3> QED BY <1>4, <2>1, <3>1 DEF PendingAt
  <2>7. ScanAt(sec, "image", k, left, NoImage)
    <3>1. PICK b \in Nat \ {0} : b = k - 1 /\ k = b + 1 BY <1>2, <2>5
    <3>2. b \in 1 .. k - 1 BY <1>2, <3>1
    <3>3. b \in Accepted(sec) /\ sec.imgs[b].last BY <2>5, <3>1, <3>2
    <3>4. LastEnd(sec, k) = b BY <3>1, <3>3, LastEndStep
    <3>5. BestFrom(sec.imgs, b, b) = NoImage BY BestOfNone
    <3> QED BY <2>5, <3>1, <3>4, <3>5 DEF ScanAt
  <2>8. CompleteAt(files, pc', f', s', k', Range(cached'))
    <3>1. ASSUME NEW fi \in DOMAIN files, files[fi].kind = "plain",
                 NEW si \in DOMAIN files[fi].sections, NEW b \in RomsIn(files[fi].sections[si]),
                 PassedAt(pc', f', s', k', fi, si, b)
          PROVE  \/ PassedAt(pc, f, s, k, fi, si, b)
                 \/ EntriesIn(BestOf(files[fi].sections[si], b), <<fi, si, b>>) \subseteq Range(cached')
      <4>1. b \in Nat BY <1>5
      <4>2. \/ fi < f
            \/ fi = f /\ si < s
            \/ fi = f /\ si = s /\ b < k
        BY <2>1, <3>1 DEF PassedAt
      <4>3. b < k => b < k - 1 \/ b = k - 1 BY <1>2, <4>1
      <4>4. CASE fi = f /\ si = s /\ b = k - 1 BY <2>1, <2>3, <2>5, <2>6, <4>4
      <4> QED BY <2>1, <4>2, <4>3, <4>4 DEF PassedAt
    <3>2. CompleteAt(files, pc, f, s, k, Range(cached)) /\ Range(cached') = Range(cached)
      BY <1>4, <2>1
    <3> QED BY <1>1, <3>1, <3>2, StaysComplete
  <2>9. ScanAt(files[f'].sections[s'], pc', k', left', found') BY <2>1, <2>3, <2>7
  <2> QED BY <1>3, <1>4, <2>1, <2>2, <2>8, <2>9 DEF Later
<1>13. CASE ProcessPci \/ RimgInit \/ Hello
  <2>1. pc \in Later /\ pc' \in Later /\ UNCHANGED <<f, s, k, cached>>
    BY <1>13, PciPhases DEF fvVars
  <2>2. pc # "error"
    BY <1>13 DEF ProcessPci, SkipDevice, BeginDevice, BeginDeviceError, GetRimgFromPciIo,
                 GetRimgFromFvs, GetRimgSpecialCase, Bars, PciDone, RimgInit, Hello
  <2>3. CompleteAt(files, pc', f', s', k', Range(cached'))
    <3>1. \A fi, si, b : PassedAt(pc', f', s', k', fi, si, b) => PassedAt(pc, f, s, k, fi, si, b)
      BY <2>1 DEF PassedAt, Later
    <3>2. CompleteAt(files, pc, f, s, k, Range(cached)) /\ Range(cached') = Range(cached)
      BY <1>4, <2>1, <2>2
    <3> QED BY <1>1, <3>1, <3>2, StaysComplete
  <2> QED BY <1>3, <1>4, <2>1, <2>2, <2>3 DEF Later
<1>14. CASE UNCHANGED vars
  <2>1. UNCHANGED <<pc, f, s, k, left, found, pending, cached>> BY <1>14 DEF vars, fvVars
  <2> QED BY <1>3, <1>4, <2>1
<1>15. CASE CacheError BY <1>15 DEF CacheError
<1> QED BY <1>6, <1>7, <1>8, <1>9, <1>10, <1>11, <1>12, <1>13, <1>14, <1>15
    DEF Next, Work, Gather, Stopped

\* Once the firmware volumes were gone through, exactly the best image of each
\* complete option ROM in them is in the cache, under each of its ids.
\* (fv.c:71-139): none is missed, whatever comes before, between or after.
THEOREM BestCached == Spec => []BestOfRom
<1>1. Init => GatherInv
  <2> SUFFICES ASSUME Init PROVE GatherInv
    OBVIOUS
  <2>1. cached = << >> /\ pc = "file" /\ f = 1 /\ files \in Seq(FileRecords)
    BY RomAssumption DEF Init
  <2>2. Range(cached) = {} BY <2>1 DEF Range
  <2>3. CompleteAt(files, pc, f, s, k, Range(cached))
    <3>1. \A fi \in DOMAIN files : fi >= 1 /\ fi \in Nat BY <2>1, SectionType
    <3>2. \A fi \in DOMAIN files : ~(fi < f) BY <2>1, <3>1
    <3> QED BY <2>1, <3>2 DEF CompleteAt, PassedAt
  <2> QED BY <2>1, <2>2, <2>3 DEF GatherInv, Later
<1>2. Types /\ GatherInv => BestOfRom
  <2> SUFFICES ASSUME Types, GatherInv, pc \notin Gathering
               PROVE  Range(cached) =
                        UNION {UNION {UNION {EntriesOf(fi, si, b) :
                            b \in {n \in Accepted(files[fi].sections[si]) :
                                     files[fi].sections[si].imgs[n].last}} :
                            si \in DOMAIN files[fi].sections} :
                            fi \in {n \in DOMAIN files : files[n].kind = "plain"}}
    BY DEF BestOfRom
  <2>2. SUFFICES Range(cached) = AllEntries(files)
    BY Zenon DEF AllEntries, RomsIn, EntriesOf, EntriesIn, EntryOf
  <2>3. pc # "error" /\ pc \in Later BY DEF Gathering, Later, Types, FvType, Phases
  <2>4. /\ Range(cached) \subseteq AllEntries(files) /\ f > Len(files)
        /\ CompleteAt(files, pc, f, s, k, Range(cached))
    BY <2>3 DEF GatherInv
  <2>5. AllEntries(files) \subseteq Range(cached)
    <3>1. \A fi \in DOMAIN files : fi < f
      <4>1. files \in Seq(FileRecords) /\ f \in Nat BY DEF Types, WorldType, FvType
      <4>2. \A fi \in DOMAIN files : fi \in Nat /\ fi =< Len(files) /\ Len(files) \in Nat BY <4>1, SectionType
      <4> QED BY <2>4, <4>1, <4>2
    <3>2. \A fi \in DOMAIN files : files[fi].kind = "plain" =>
            \A si \in DOMAIN files[fi].sections : \A b \in RomsIn(files[fi].sections[si]) :
              EntriesIn(BestOf(files[fi].sections[si], b), <<fi, si, b>>) \subseteq Range(cached)
      BY <2>4, <3>1, Zenon DEF CompleteAt, PassedAt
    <3>3. SUFFICES ASSUME NEW e \in AllEntries(files) PROVE e \in Range(cached)
      OBVIOUS
    <3>4. PICK fi, si, b :
            /\ fi \in DOMAIN files /\ files[fi].kind = "plain"
            /\ si \in DOMAIN files[fi].sections /\ b \in RomsIn(files[fi].sections[si])
            /\ e \in EntriesIn(BestOf(files[fi].sections[si], b), <<fi, si, b>>)
      BY <3>3, AllOnlyRoms
    <3> QED BY <3>2, <3>4
  <2> QED BY <2>4, <2>5
<1>3. Init => Types BY InitTypes DEF Types
<1> QED BY <1>1, <1>2, <1>3, TypesStep, GatherStep, PTL DEF Spec
=============================================================================
