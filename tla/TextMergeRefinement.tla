------------------------- MODULE TextMergeRefinement -------------------------
(***************************************************************************)
(* The text-merge pass implements TextMergeAbs under the mapping View,    *)
(* Memsz of TextMerge: seen through the PT_LOAD headers, the kernel's dump *)
(* appends segments and each merge by merge_exe_text_into_core or          *)
(* merge_text_image gives one segment all of its pages and changes what no *)
(* other header exposes.  The argument rests on IInv of TextMergeProofs:   *)
(* under SegFacts what header s exposes is exactly Pages(s, p_filesz), so  *)
(* the mapping is read off the header table alone.                         *)
(***************************************************************************)
EXTENDS TextMergeProofs

(* What a header table exposes of a file, and the pages it should expose. *)
ViewOf(ph, c) ==
  [s \in 1..Len(ph) |-> SubSeq(c, ph[s].p_offset + 1, ph[s].p_offset + ph[s].p_filesz)]
PV(ph) == [s \in 1..Len(ph) |-> Pages(s, ph[s].p_filesz)]
MV(ph) == [s \in 1..Len(ph) |-> ph[s].p_memsz]

(* Where the headers are in file order and adjacent, each exposes exactly *)
(* the first p_filesz pages of its own segment.                           *)
LEMMA ViewPages ==
  ASSUME NEW ph \in Seq(Phdr), NEW c \in Seq(Label), SegFacts(ph, c)
  PROVE  ViewOf(ph, c) = PV(ph)
<1>1. ASSUME NEW s \in 1..Len(ph)
      PROVE  SubSeq(c, ph[s].p_offset + 1, ph[s].p_offset + ph[s].p_filesz)
               = Pages(s, ph[s].p_filesz)
  <2>1. ph[s] \in Phdr
    BY ElementOfSeq
  <2>2. PICK o \in Nat, f \in Nat : o = ph[s].p_offset /\ f = ph[s].p_filesz
    BY <2>1, PhdrFields
  <2>3. \A k \in 0..(f - 1) : c[o + k + 1] = <<s, k>>
    BY <2>2, Zenon DEF SegFacts, OffP
  <2>4. SubSeq(c, o + 1, o + f) = [i \in 1..f |-> c[i + o]]
    BY SMTT(30)
  <2>5. \A i \in 1..f : c[i + o] = <<s, i - 1>>
    <3> SUFFICES ASSUME NEW i \in 1..f PROVE c[i + o] = <<s, i - 1>>
      OBVIOUS
    <3>1. i - 1 \in 0..(f - 1) /\ o + (i - 1) + 1 = i + o
      BY SMTT(30)
    <3>. QED
      BY <3>1, <2>3
  <2>6. SubSeq(c, o + 1, o + f) = Pages(s, f)
    BY <2>4, <2>5 DEF Pages
  <2>. QED
    BY <2>2, <2>6
<1>. QED
  BY <1>1 DEF ViewOf, PV

(* Appending a header appends what it exposes and its p_memsz.            *)
LEMMA PVAppend ==
  ASSUME NEW ph \in Seq(Phdr), NEW h \in Phdr
  PROVE  /\ PV(Append(ph, h)) = Append(PV(ph), Pages(Len(ph) + 1, h.p_filesz))
         /\ MV(Append(ph, h)) = Append(MV(ph), h.p_memsz)
<1>1. /\ Len(Append(ph, h)) = Len(ph) + 1
      /\ \A i \in 1..Len(ph) : Append(ph, h)[i] = ph[i]
      /\ Append(ph, h)[Len(ph) + 1] = h
  BY AppendProperties
<1>. QED
  BY <1>1 DEF PV, MV

(* A table in which only header t's p_filesz changed, to its p_memsz,     *)
(* exposes t's whole segment and the same pages everywhere else.          *)
LEMMA PVMerge ==
  ASSUME NEW ph \in Seq(Phdr), NEW ph2 \in Seq(Phdr), NEW t \in 1..Len(ph),
         Len(ph2) = Len(ph),
         \A s \in 1..Len(ph) :
           /\ ph2[s].p_memsz = ph[s].p_memsz
           /\ ph2[s].p_filesz = IF s = t THEN ph[s].p_memsz ELSE ph[s].p_filesz
  PROVE  /\ PV(ph2) = [PV(ph) EXCEPT ![t] = Pages(t, MV(ph)[t])]
         /\ MV(ph2) = MV(ph)
BY DEF PV, MV

(* Under IInv the refinement mapping is PV and MV of the header table.    *)
LEMMA MappingIs ==
  ASSUME IInv
  PROVE  View = PV(phdr) /\ Memsz = MV(phdr)
<1>1. phdr \in Seq(Phdr) /\ core \in Seq(Label) /\ SegFacts(phdr, core)
  BY DEF IInv, TypeOK
<1>2. ViewOf(phdr, core) = PV(phdr)
  BY <1>1, ViewPages
<1>. QED
  BY <1>2 DEF View, ViewOf, Memsz, MV

(* The same after a step, when the step keeps IInv.                       *)
LEMMA MappingIsPrimed ==
  ASSUME IInv'
  PROVE  View' = PV(phdr') /\ Memsz' = MV(phdr')
<1>1. phdr' \in Seq(Phdr) /\ core' \in Seq(Label) /\ SegFacts(phdr', core')
  BY DEF IInv, TypeOK
<1>2. ViewOf(phdr', core') = PV(phdr')
  BY <1>1, ViewPages
<1>. QED
  BY <1>2 DEF View, ViewOf, Memsz, MV

(* PV and MV of a table have one entry per header.                        *)
LEMMA LenPV ==
  ASSUME NEW ph \in Seq(Phdr)
  PROVE  Len(PV(ph)) = Len(ph) /\ Len(MV(ph)) = Len(ph)
<1>1. Len(ph) \in Nat
  BY LenProperties
<1>2. PV(ph) \in [1..Len(ph) -> {PV(ph)[i] : i \in 1..Len(ph)}]
  BY DEF PV
<1>3. MV(ph) \in [1..Len(ph) -> {MV(ph)[i] : i \in 1..Len(ph)}]
  BY DEF MV
<1>. QED
  BY <1>1, <1>2, <1>3, FunIsSeq

(* A step that leaves the headers and the file alone is a stutter.       *)
LEMMA StutterRefines ==
  ASSUME UNCHANGED <<phdr, core>>
  PROVE  UNCHANGED <<View, Memsz>>
BY DEF View, Memsz

-----------------------------------------------------------------------------
(* Each step of the kernel's dump is a Dump step of the abstraction.      *)
LEMMA DumpRefines ==
  ASSUME IInv, IInv', FirstPage, KernelDumpSegment
  PROVE  Abs!Dump
<1>0. /\ phdr \in Seq(Phdr) /\ core \in Seq(Label)
      /\ Len(phdr) < NSeg /\ Len(phdr) \in Nat
  BY LenProperties DEF IInv, TypeOK, KernelDumpSegment
<1>a. PICK memsz \in 1..MaxPages :
        \E filesz \in DumpedPages(maps[Len(phdr) + 1], memsz) :
          phdr' = Append(phdr, DumpHdr(core, filesz, memsz))
  BY DEF KernelDumpSegment, DumpHdr
<1>1. PICK filesz \in DumpedPages(maps[Len(phdr) + 1], memsz) :
        phdr' = Append(phdr, DumpHdr(core, filesz, memsz))
  BY <1>a
<1>2. filesz \in 0..MaxPages /\ filesz <= memsz
  <2>1. CASE maps[Len(phdr) + 1] = "other"
    <3>1. filesz \in {0, memsz}
      BY <2>1, <1>1, Zenon DEF DumpedPages
    <3>. QED
      BY <3>1, MaxPagesAssumption
  <2>2. CASE maps[Len(phdr) + 1] # "other"
    BY <2>2, <1>1, DumpedFirst, MaxPagesAssumption
  <2>. QED
    BY <2>1, <2>2
<1>3. DumpHdr(core, filesz, memsz) \in Phdr
  BY <1>0, <1>2, LenProperties DEF DumpHdr, Phdr
<1>4. /\ PV(phdr') = Append(PV(phdr), Pages(Len(phdr) + 1, filesz))
      /\ MV(phdr') = Append(MV(phdr), memsz)
  <2>1. /\ PV(Append(phdr, DumpHdr(core, filesz, memsz)))
             = Append(PV(phdr), Pages(Len(phdr) + 1, filesz))
        /\ MV(Append(phdr, DumpHdr(core, filesz, memsz))) = Append(MV(phdr), memsz)
    <3>1. DumpHdr(core, filesz, memsz).p_filesz = filesz
          /\ DumpHdr(core, filesz, memsz).p_memsz = memsz
      BY DEF DumpHdr
    <3>. QED
      BY <1>0, <1>3, <3>1, PVAppend
  <2>. QED
    BY <2>1, <1>1, Zenon
<1>5. /\ View = PV(phdr) /\ Memsz = MV(phdr)
      /\ View' = PV(phdr') /\ Memsz' = MV(phdr')
      /\ Len(PV(phdr)) = Len(phdr)
  BY <1>0, MappingIs, MappingIsPrimed, LenPV
<1>. QED
  BY <1>0, <1>2, <1>4, <1>5 DEF Abs!Dump, Abs!Pages, Pages

(* A merge at a text header t that still has its one page is a Merge     *)
(* step of the abstraction.                                               *)
LEMMA MergeRefines ==
  ASSUME IInv, IInv', NEW t, MergeEffectPre(t)
  PROVE  Abs!Merge
<1>1. /\ phdr' \in Seq(Phdr) /\ Len(phdr') = NSeg
      /\ \A s \in 1..NSeg :
           /\ phdr'[s].p_memsz = phdr[s].p_memsz
           /\ phdr'[s].p_filesz = IF s = t THEN phdr[s].p_memsz ELSE phdr[s].p_filesz
  BY MergeEffect
<1>2. phdr \in Seq(Phdr) /\ Len(phdr) = NSeg /\ t \in 1..NSeg
  BY NSegAssumption DEF MergeEffectPre, TypeOK
<1>3. /\ PV(phdr') = [PV(phdr) EXCEPT ![t] = Pages(t, MV(phdr)[t])]
      /\ MV(phdr') = MV(phdr)
  BY <1>1, <1>2, PVMerge
<1>4. /\ View = PV(phdr) /\ Memsz = MV(phdr)
      /\ View' = PV(phdr') /\ Memsz' = MV(phdr')
      /\ Len(PV(phdr)) = NSeg
  BY <1>2, MappingIs, MappingIsPrimed, LenPV
<1>. QED
  BY <1>2, <1>3, <1>4 DEF Abs!Merge, Abs!Pages, Pages

(* merge_exe_text_into_core merges the executable's text, which is still *)
(* pending, so it is a Merge step.                                        *)
LEMMA MergeExeRefines ==
  ASSUME IInv, IInv', MergeExeTextIntoCore
  PROVE  Abs!Merge
<1> DEFINE t == ExeText
<1>0. /\ TypeOK /\ SegFacts(phdr, core) /\ Len(phdr) = NSeg /\ stage = "exe"
      /\ \A s \in 1..Len(phdr) : Pending(s) => phdr[s].p_filesz = 1
  BY DEF IInv, MergeExeTextIntoCore
<1>1. t \in Seg /\ maps[t] = "exe_text" /\ t \in 1..(NSeg - 1)
  <2>1. t \in Seg /\ maps[t] = "exe_text" /\ t # NSeg
    BY <1>0, ExeTextFacts DEF TypeOK
  <2>. QED
    BY <2>1, NSegAssumption DEF Seg
<1>2. phdr[t].p_filesz = 1
  BY <1>0, <1>1 DEF Pending, Seg
<1>3. MergeEffectPre(t)
  <2>1. /\ core' \in MergedFile(phdr[t].p_offset, phdr[t + 1].p_offset,
                                Pages(t, phdr[t].p_memsz))
        /\ phdr' = ShiftedPhdrs(t, phdr[t].p_memsz)
    BY DEF MergeExeTextIntoCore
  <2>. QED
    BY <2>1, <1>0, <1>1, <1>2, Zenon DEF MergeEffectPre
<1>. QED
  BY <1>3, MergeRefines

(* One iteration of merge_shlib_texts_into_core on a library text: a     *)
(* Merge step when the pmem read succeeded, a stutter when it failed.     *)
LEMMA MergeImageRefines ==
  ASSUME IInv, IInv', MergeTextImage
  PROVE  [Abs!Next]_<<View, Memsz>>
<1> DEFINE t == cur
<1>0. /\ TypeOK /\ SegFacts(phdr, core) /\ Len(phdr) = NSeg
      /\ stage = "libs" /\ cur <= NSeg /\ maps[cur] = "lib_text"
      /\ \A s \in 1..Len(phdr) : Pending(s) => phdr[s].p_filesz = 1
      /\ \A s \in Seg : text_len[s] > 0 => text_len[s] = phdr[s].p_memsz
  BY DEF IInv, MergeTextImage
<1>1. t \in Seg /\ t \in 1..(NSeg - 1) /\ text_len[t] \in 0..MaxPages
  <2>1. t \in Seg /\ maps[NSeg] = "other"
    BY <1>0, ExeTextFacts DEF TypeOK, Seg
  <2>. QED
    BY <2>1, <1>0, NSegAssumption DEF Seg, TypeOK
<1>2. CASE text_len[t] > 0
  <2>1. /\ core' \in MergedFile(phdr[t].p_offset, phdr[t + 1].p_offset, Pages(t, text_len[t]))
        /\ phdr' = ShiftedPhdrs(t, text_len[t])
    BY <1>2 DEF MergeTextImage
  <2>2. text_len[t] = phdr[t].p_memsz /\ phdr[t].p_filesz = 1
    BY <1>0, <1>1, <1>2 DEF Pending, Seg
  <2>3. MergeEffectPre(t)
    BY <2>1, <2>2, <1>0, <1>1, Zenon DEF MergeEffectPre
  <2>. QED
    BY <2>3, MergeRefines DEF Abs!Next
<1>3. CASE text_len[t] = 0
  <2>1. UNCHANGED <<phdr, core>>
    BY <1>3 DEF MergeTextImage
  <2>. QED
    BY <2>1, StutterRefines
<1>. QED
  BY <1>1, <1>2, <1>3

-----------------------------------------------------------------------------
(* The text-merge pass refines TextMergeAbs (spec 4.7 and 8.1) for every  *)
(* number of mappings and every mapping size: seen through the PT_LOAD   *)
(* headers, the kernel's dump appends segments, and every merge by        *)
(* merge_exe_text_into_core or merge_text_image gives one segment all of  *)
(* its pages while every other header exposes what it did before; every   *)
(* other step (the pmem reads, skipped mappings, a failed merge) changes  *)
(* nothing a header exposes.  This is AbsSpec, which the textmerge run    *)
(* checks on a small instance.                                            *)
THEOREM Refinement ==
  ASSUME FirstPage
  PROVE  Spec => AbsSpec
<1>1. Init => Abs!Init
  <2> SUFFICES ASSUME Init PROVE View = <<>> /\ Memsz = <<>>
    BY DEF Abs!Init
  <2>1. phdr = <<>>
    BY DEF Init
  <2>. QED
    BY <2>1 DEF View, Memsz
<1>2. IInv /\ IInv' /\ [Next]_vars => [Abs!Next]_<<View, Memsz>>
  <2> SUFFICES ASSUME IInv, IInv', [Next]_vars
               PROVE  [Abs!Next]_<<View, Memsz>>
    OBVIOUS
  <2>1. CASE KernelDumpSegment
    BY <2>1, DumpRefines DEF Abs!Next
  <2>2. CASE MergeExeTextIntoCore
    BY <2>2, MergeExeRefines DEF Abs!Next
  <2>3. CASE MergeTextImage
    BY <2>3, MergeImageRefines
  <2>4. CASE \/ KernelDumpDone \/ CreateShlibTextMappings \/ SkipMapping
             \/ MergeShlibTextsDone \/ UNCHANGED vars
    <3>1. UNCHANGED <<phdr, core>>
      BY <2>4 DEF KernelDumpDone, CreateShlibTextMappings, SkipMapping,
                  MergeShlibTextsDone, vars
    <3>. QED
      BY <3>1, StutterRefines
  <2>. QED
    BY <2>1, <2>2, <2>3, <2>4 DEF Next
<1>. QED
  BY <1>1, <1>2, IInvInvariant, PTL DEF Spec, AbsSpec, Abs!Spec, Abs!avars
=============================================================================
