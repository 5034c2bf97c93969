----------------------------- MODULE TextMerge -----------------------------
(***************************************************************************)
(* The text-merge pass (stage S5) of core_accessors.c: the core file the   *)
(* kernel wrote is rewritten so that the executable's text segment and the *)
(* text segment of every shared library hold their full image read from   *)
(* the live process, and every later PT_LOAD header's p_offset is moved    *)
(* forward to make room.                                                   *)
(*                                                                         *)
(* Data abstraction.  Every length and offset is counted in pages (4096    *)
(* bytes is 1): segments are whole pages in a core, and the kernel starts  *)
(* segment data on a page boundary.  The core file is a sequence of page   *)
(* labels: <<0, k>> is page k of the ELF header, program headers and notes *)
(* region, <<s, k>> is page k of the memory of the s-th PT_LOAD segment,   *)
(* and Junk is a page of whatever the merging process had mapped after its *)
(* private copy of the core.  The PT_NOTE header comes before every LOAD   *)
(* header and no merge touches it, so phdr holds the LOAD headers only.    *)
(***************************************************************************)
EXTENDS Naturals, Sequences

CONSTANTS
  NSeg,        \* number of PT_LOAD segments (mappings) of the process
  MaxPages,    \* largest p_memsz, in pages
  HdrPages,    \* pages taken by the ELF header, phdr table and notes
  TextDump     \* how the kernel dumps a text mapping: subset of DumpRules

DumpRules == {"first_page", "none", "whole"}

ASSUME NSegAssumption == NSeg \in Nat /\ NSeg >= 2
ASSUME MaxPagesAssumption == MaxPages \in Nat \ {0}
ASSUME HdrPagesAssumption == HdrPages \in Nat \ {0}
ASSUME TextDumpAssumption == TextDump \subseteq DumpRules /\ TextDump # {}

VARIABLES
  maps,       \* kind of each mapping, in address order (memdesc->maps)
  phdr,       \* the core's PT_LOAD headers, in file order
  core,       \* the contents of the core file on disk
  text_len,   \* maps[i].text_len: bytes of library text read from pmem
  stage,      \* where the pipeline is
  cur,        \* loop index i of merge_shlib_texts_into_core
  tmpfiles    \* temporary files left behind in the temp directory

vars == <<maps, phdr, core, text_len, stage, cur, tmpfiles>>

Kinds == {"exe_text", "lib_text", "other"}
Stages == {"dump", "pmem", "exe", "libs", "done"}
Seg == 1..NSeg
Junk == <<0, 0 - 1>>
Label == ({0} \X Nat) \cup (Seg \X Nat) \cup {Junk}
Phdr == [p_offset : Nat, p_filesz : Nat, p_memsz : 1..MaxPages]

(* An address-space layout the maps file can show: one executable text   *)
(* mapping, any number of shared-library text mappings, and neither is   *)
(* the last mapping ([stack] and [vsyscall] come after all of them).      *)
Layouts ==
  { m \in [Seg -> Kinds] :
      /\ \E e \in Seg : m[e] = "exe_text" /\ \A i \in Seg \ {e} : m[i] # "exe_text"
      /\ m[NSeg] = "other" }

ExeText == CHOOSE e \in Seg : maps[e] = "exe_text"
LibTexts == {i \in Seg : maps[i] = "lib_text"}

(* Pages of the kernel's dump of a mapping of memsz pages: a text mapping *)
(* as the kernel's filter rule gives (the first page only when it holds   *)
(* the ELF header, nothing, or all of it once it has private anon pages), *)
(* any other mapping in full or not at all.                               *)
DumpedPages(kind, memsz) ==
  IF kind = "other"
    THEN {0, memsz}
    ELSE { CASE r = "first_page" -> 1
             [] r = "none"       -> 0
             [] r = "whole"      -> memsz : r \in TextDump }

Pages(s, n) == [k \in 1..n |-> <<s, k - 1>>]

-----------------------------------------------------------------------------
Init ==
  /\ maps \in Layouts
  /\ phdr = <<>>
  /\ core = Pages(0, HdrPages)
  /\ text_len = [i \in Seg |-> 0]
  /\ stage = "dump"
  /\ cur = 1
  /\ tmpfiles = 0

(* The kernel (environment, not this program) writes the core: one       *)
(* PT_LOAD header per mapping, its data appended at the end of the file.  *)
KernelDumpSegment ==
  /\ stage = "dump"
  /\ Len(phdr) < NSeg
  /\ LET s == Len(phdr) + 1 IN
     \E memsz \in 1..MaxPages :
       \E filesz \in DumpedPages(maps[s], memsz) :
         /\ phdr' = Append(phdr, [p_offset |-> Len(core), p_filesz |-> filesz,
                                  p_memsz |-> memsz])
         /\ core' = core \o Pages(s, filesz)
  /\ UNCHANGED <<maps, text_len, stage, cur, tmpfiles>>

KernelDumpDone ==
  /\ stage = "dump"
  /\ Len(phdr) = NSeg
  /\ stage' = "pmem"
  /\ UNCHANGED <<maps, phdr, core, text_len, cur, tmpfiles>>

(* Faulty variants of the operations that follow, each a plausible coding *)
(* error in the C source; every property checked of this module is shown  *)
(* to catch one of them.                                                   *)
CreateShlibTextMappingsPastEnd ==     \* reads one page more than the mapping
  /\ stage = "pmem"
  /\ \E ok \in SUBSET LibTexts :
       text_len' = [i \in Seg |-> IF i \in ok THEN phdr[i].p_memsz + 1 ELSE 0]
  /\ stage' = "exe"
  /\ UNCHANGED <<maps, phdr, core, cur, tmpfiles>>

ShiftedPhdrsByTlen(t, tlen) ==        \* forgets the page already in the file
  [i \in DOMAIN phdr |->
     IF i = t THEN [p_offset |-> phdr[i].p_offset, p_filesz |-> phdr[i].p_memsz,
                   p_memsz |-> phdr[i].p_memsz]
     ELSE IF i > t THEN [p_offset |-> phdr[i].p_offset + tlen,
                   p_filesz |-> phdr[i].p_filesz, p_memsz |-> phdr[i].p_memsz]
     ELSE phdr[i]]

ShiftedPhdrsKeepFilesz(t, tlen) ==    \* forgets p_filesz = p_memsz
  [i \in DOMAIN phdr |->
     IF i > t THEN [p_offset |-> phdr[i].p_offset + tlen - 1,
                   p_filesz |-> phdr[i].p_filesz, p_memsz |-> phdr[i].p_memsz] ELSE phdr[i]]

CreateShlibTextMappings ==
  /\ stage = "pmem"
  /\ \E ok \in SUBSET LibTexts :
       text_len' = [i \in Seg |-> IF i \in ok THEN phdr[i].p_memsz ELSE 0]
  /\ stage' = "exe"
  /\ UNCHANGED <<maps, phdr, core, cur, tmpfiles>>

MergedFileNoSkip(textOffset, nextOffset, image) ==   \* copies the old text page too
  LET body == SubSeq(core, 1, textOffset) \o image
                \o SubSeq(core, textOffset + 1, Len(core))
  IN  { body, body \o [k \in 1..(nextOffset - textOffset) |-> Junk] }

(* The file merge_text_image and merge_exe_text_into_core write to the    *)
(* temporary file: the first textOffset bytes of the (private, edited)    *)
(* mapping, the text image, then st_size - textOffset bytes starting at   *)
(* nextOffset.  That last read runs nextOffset - textOffset bytes past    *)
(* the mapping's end: write() either stops short there or copies those    *)
(* bytes from whatever ecfs has mapped next.                              *)
MergedFile(textOffset, nextOffset, image) ==
  LET body == SubSeq(core, 1, textOffset) \o image
                \o SubSeq(core, nextOffset + 1, Len(core))
      overrun == nextOffset - textOffset
  IN  { body, body \o [k \in 1..overrun |-> Junk] }

(* The headers after editing: the text header's p_filesz set to p_memsz   *)
(* and every later header's p_offset moved by tlen - 4096.                *)
ShiftedPhdrs(t, tlen) ==
  [i \in DOMAIN phdr |->
     IF i = t THEN [p_offset |-> phdr[i].p_offset, p_filesz |-> phdr[i].p_memsz,
                   p_memsz |-> phdr[i].p_memsz]
     ELSE IF i > t THEN [p_offset |-> phdr[i].p_offset + tlen - 1,
                   p_filesz |-> phdr[i].p_filesz, p_memsz |-> phdr[i].p_memsz]
     ELSE phdr[i]]

(* merge_exe_text_into_core: the header containing textVaddr is the text *)
(* header t, the one after it the data header; both p_offset edits and   *)
(* the p_filesz edit are made, the file rewritten and renamed over core.  *)
MergeExeTextIntoCore ==
  /\ stage = "exe"
  /\ LET t    == ExeText
         tlen == phdr[t].p_memsz
         img  == Pages(t, tlen)
     IN  /\ core' \in MergedFile(phdr[t].p_offset, phdr[t + 1].p_offset, img)
         /\ phdr' = ShiftedPhdrs(t, tlen)
  /\ stage' = "libs"
  /\ cur' = 1
  /\ UNCHANGED <<maps, text_len, tmpfiles>>

(* One iteration of merge_shlib_texts_into_core: mappings that are not   *)
(* executable shared-library mappings are skipped.                        *)
SkipMapping ==
  /\ stage = "libs"
  /\ cur <= NSeg
  /\ maps[cur] # "lib_text"
  /\ cur' = cur + 1
  /\ UNCHANGED <<maps, phdr, core, text_len, stage, tmpfiles>>

(* merge_text_image(corefile, base, text_image, text_len) for mapping     *)
(* cur: the header with p_vaddr == base is cur.  After a failed pmem read *)
(* text_len is 0: the temporary file is written up to the image, then     *)
(* munmap(text_image, 0) fails and the call returns -1 before the rename, *)
(* so the core stays as it was and the temporary file stays behind.       *)
MergeTextImage ==
  /\ stage = "libs"
  /\ cur <= NSeg
  /\ maps[cur] = "lib_text"
  /\ LET t == cur
         tlen == text_len[cur]
     IN  \/ /\ tlen > 0
            /\ core' \in MergedFile(phdr[t].p_offset, phdr[t + 1].p_offset,
                                    Pages(t, tlen))
            /\ phdr' = ShiftedPhdrs(t, tlen)
            /\ UNCHANGED tmpfiles
         \/ /\ tlen = 0
            /\ tmpfiles' = tmpfiles + 1
            /\ UNCHANGED <<phdr, core>>
  /\ cur' = cur + 1
  /\ UNCHANGED <<maps, text_len, stage>>

MergeShlibTextsDone ==
  /\ stage = "libs"
  /\ cur = NSeg + 1
  /\ stage' = "done"
  /\ UNCHANGED <<maps, phdr, core, text_len, cur, tmpfiles>>

Next ==
  \/ KernelDumpSegment
  \/ KernelDumpDone
  \/ CreateShlibTextMappings
  \/ MergeExeTextIntoCore
  \/ SkipMapping
  \/ MergeTextImage
  \/ MergeShlibTextsDone

(* The pipeline is one thread that runs every stage to its end.          *)
Spec == Init /\ [][Next]_vars /\ WF_vars(Next)

-----------------------------------------------------------------------------
TypeOK ==
  /\ maps \in Layouts
  /\ phdr \in Seq(Phdr)
  /\ Len(phdr) <= NSeg
  /\ core \in Seq(Label)
  /\ text_len \in [Seg -> 0..MaxPages]
  /\ stage \in Stages
  /\ cur \in 1..(NSeg + 1)
  /\ tmpfiles \in Nat

(* Round-trip identity of the segments (spec section 8, property 1): in  *)
(* the file on disk, each PT_LOAD header's [p_offset, p_offset+p_filesz) *)
(* holds exactly the pages of that segment's memory, in order, whatever  *)
(* merges of the executable and library texts have happened.  A wrong    *)
(* shift, a wrong slice or a merge at the wrong header breaks it.        *)
SegmentsIntact ==
  \A s \in 1..Len(phdr) :
    /\ phdr[s].p_offset + phdr[s].p_filesz <= Len(core)
    /\ \A k \in 0..(phdr[s].p_filesz - 1) :
         core[phdr[s].p_offset + k + 1] = <<s, k>>

(* Every text the pipeline captured ends up merged (spec 4.7 and 8.1):    *)
(* once the loop is over, the executable's text and every library text   *)
(* read from pmem has p_filesz = p_memsz in the core on disk.             *)
AllTextsMerged ==
  stage = "done" =>
    \A s \in Seg :
      (s = ExeText \/ text_len[s] > 0) => phdr[s].p_filesz = phdr[s].p_memsz

(* The core file ends where the last segment ends: merging appends no    *)
(* stray bytes after the last segment's data (spec 4.7, step 6).         *)
ExactExtent ==
  stage # "dump" => Len(core) = phdr[NSeg].p_offset + phdr[NSeg].p_filesz

View == [s \in 1..Len(phdr) |->
           SubSeq(core, phdr[s].p_offset + 1, phdr[s].p_offset + phdr[s].p_filesz)]
Memsz == [s \in 1..Len(phdr) |-> phdr[s].p_memsz]

Abs == INSTANCE TextMergeAbs WITH view <- View, memsz <- Memsz

(* The pass implements TextMergeAbs: every step of the kernel's dump is a *)
(* Dump, every merge of the executable's or a library's text is a Merge   *)
(* of that one segment, and every other step (pmem reads, skips, a failed *)
(* merge) leaves what every header exposes unchanged.                     *)
AbsSpec == Abs!Spec
=============================================================================
