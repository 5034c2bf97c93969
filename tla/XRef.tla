-------------------------------- MODULE XRef --------------------------------
(***************************************************************************)
(* Stages S6 and S7 of core_accessors.c: parse_orig_phdrs reads the       *)
(* original executable's program headers (with the lookup_* helpers over   *)
(* the core's NT_FILE table), xref_phdrs_for_offsets turns the addresses   *)
(* it found into offsets in the core through the core's own headers, and   *)
(* extract_dyntag_info walks the dynamic array it finds there.             *)
(* get_internal_sh_offset, which build_section_headers calls for .heap,    *)
(* .stack, .vdso and .vsyscall, is an operator over the same data.         *)
(*                                                                         *)
(* Addresses, sizes and offsets are counted in pages.  One input fixes    *)
(* the original headers, the NT_FILE table, the core's headers, the        *)
(* dynamic array the core holds and the map list; bias is the load bias of *)
(* a PIE (0 otherwise), which the code never sees and the reference        *)
(* definitions use.                                                        *)
(***************************************************************************)
EXTENDS Integers, Sequences

CONSTANTS Inputs

PtrTags == {"REL", "RELA", "JMPREL", "PLTGOT", "GNU_HASH", "INIT", "FINI", "SYMTAB", "STRTAB"}
SizeTags == {"STRSZ", "PLTRELSZ"}
(* A field of the stack-allocated smeta that no tag has set holds         *)
(* whatever the stack held: a number no computed offset or address is.    *)
Uninit == 0 - 2

VARIABLES
  in,      \* the input
  elf,     \* the elfdesc fields these stages set
  smeta,   \* struct section_meta: vaddr and offset per pointer tag
  sizes,   \* struct section_meta: strSiz and pltSiz
  tb,      \* parse_orig_phdrs's text_base
  i,       \* the index of the loop running
  dynoff,  \* the core offset extract_dyntag_info reads the dynamic array at
  pc       \* "orig", "origloop", "xref", "dynfind", "dyn", "done" or "fail"

vars == <<in, elf, smeta, sizes, tb, i, dynoff, pc>>

Elf0 == [pie |-> 0, dynlinked |-> 0, textVaddr |-> 0, textSize |-> 0,
         dataVaddr |-> 0, dataSize |-> 0, o_datafsize |-> 0, bssVaddr |-> 0,
         dynVaddr |-> 0, ehframe_Vaddr |-> 0, interpVaddr |-> 0,
         noteOffset |-> 0, interpOffset |-> 0, dynOffset |-> 0, ehframeOffset |-> 0,
         textOffset |-> 0, dataOffset |-> 0, bssOffset |-> 0]

Contains(v, h) == h.p_vaddr <= v /\ v < h.p_vaddr + h.p_memsz

(* The least of a nonempty set of indices.                                *)
FirstOf(S) == CHOOSE k \in S : \A j \in S : k <= j

(* lookup_text_base and lookup_text_size: the first NT_FILE entry whose   *)
(* basename is the command name.                                          *)
ExeEntries(files) == {k \in 1..Len(files) : files[k].exe}
LookupTextBase(files) ==
  IF ExeEntries(files) = {} THEN 0 ELSE files[FirstOf(ExeEntries(files))].addr
LookupTextSize(files) ==
  IF ExeEntries(files) = {} THEN 0 ELSE files[FirstOf(ExeEntries(files))].size

(* lookup_data_base and lookup_data_size: the entry after the first      *)
(* executable entry that is followed by another executable entry.        *)
DataEntries(files) == {k \in 1..(Len(files) - 1) : files[k].exe /\ files[k + 1].exe}
LookupDataBase(files) ==
  IF DataEntries(files) = {} THEN 0 ELSE files[FirstOf(DataEntries(files)) + 1].addr
LookupDataSize(files) ==
  IF DataEntries(files) = {} THEN 0 ELSE files[FirstOf(DataEntries(files)) + 1].size

(* One case of parse_orig_phdrs's switch on an original program header.  *)
ParsedPhdr(e, h) ==
  LET rel(v) == v + (IF e.pie # 0 THEN tb ELSE 0) IN
  IF h.p_type = "LOAD" /\ h.p_offset # 0
    THEN [e EXCEPT !.dataVaddr = LookupDataBase(in.files),
                   !.dataSize = LookupDataSize(in.files),
                   !.o_datafsize = h.p_filesz,
                   !.bssVaddr = IF e.pie = 0 THEN h.p_vaddr + h.p_filesz ELSE @]
  ELSE IF h.p_type = "LOAD"
    THEN [e EXCEPT !.textVaddr = tb, !.textSize = LookupTextSize(in.files)]
  ELSE IF h.p_type = "DYNAMIC" THEN [e EXCEPT !.dynVaddr = rel(h.p_vaddr)]
  ELSE IF h.p_type = "GNU_EH_FRAME" THEN [e EXCEPT !.ehframe_Vaddr = rel(h.p_vaddr)]
  ELSE IF h.p_type = "INTERP" THEN [e EXCEPT !.dynlinked = @ + 1, !.interpVaddr = h.p_vaddr]
  ELSE e

(* A cross-reference whose eh_frame offset subtracts the wrong way round. *)
XrefdSwapped(e, h) ==
  LET ev == IF e.dynlinked # 0 THEN e.ehframe_Vaddr ELSE in.eh_hack
      e1 == IF h.p_type = "NOTE" THEN [e EXCEPT !.noteOffset = h.p_offset] ELSE e
      e2 == IF Contains(e.interpVaddr, h)
              THEN [e1 EXCEPT !.interpOffset = h.p_offset + e.interpVaddr - h.p_vaddr] ELSE e1
      e3 == IF Contains(e.dynVaddr, h)
              THEN [e2 EXCEPT !.dynOffset = h.p_offset + e.dynVaddr - h.p_vaddr] ELSE e2
      e4 == IF Contains(ev, h)
              THEN [e3 EXCEPT !.ehframeOffset = h.p_offset + h.p_vaddr - ev] ELSE e3
      e5 == IF e.textVaddr = h.p_vaddr
              THEN [e4 EXCEPT !.textOffset = h.p_offset, !.textSize = h.p_memsz] ELSE e4
      bv == IF e.pie # 0 THEN e.dataVaddr + e.o_datafsize ELSE e.bssVaddr
  IN  IF e.dataVaddr = h.p_vaddr
        THEN [e5 EXCEPT !.dataOffset = h.p_offset, !.bssVaddr = bv,
                        !.bssOffset = h.p_offset + bv - e.dataVaddr]
        ELSE e5

Xrefd(e, h) ==
  LET ev == IF e.dynlinked # 0 THEN e.ehframe_Vaddr ELSE in.eh_hack
      e1 == IF h.p_type = "NOTE" THEN [e EXCEPT !.noteOffset = h.p_offset] ELSE e
      e2 == IF Contains(e.interpVaddr, h)
              THEN [e1 EXCEPT !.interpOffset = h.p_offset + e.interpVaddr - h.p_vaddr] ELSE e1
      e3 == IF Contains(e.dynVaddr, h)
              THEN [e2 EXCEPT !.dynOffset = h.p_offset + e.dynVaddr - h.p_vaddr] ELSE e2
      e4 == IF Contains(ev, h)
              THEN [e3 EXCEPT !.ehframeOffset = h.p_offset + ev - h.p_vaddr] ELSE e3
      e5 == IF e.textVaddr = h.p_vaddr
              THEN [e4 EXCEPT !.textOffset = h.p_offset, !.textSize = h.p_memsz] ELSE e4
      bv == IF e.pie # 0 THEN e.dataVaddr + e.o_datafsize ELSE e.bssVaddr
  IN  IF e.dataVaddr = h.p_vaddr
        THEN [e5 EXCEPT !.dataOffset = h.p_offset, !.bssVaddr = bv,
                        !.bssOffset = h.p_offset + bv - e.dataVaddr]
        ELSE e5

(* What the dynamic linker leaves in the dynamic array of a PIE (spec     *)
(* 4.6): INIT and FINI hold link-time addresses, the pointer tags it      *)
(* relocates hold run-time ones.  DT_INIT/DT_FINI get the text base added. *)
TagVaddr(t, val) ==
  IF t \in {"INIT", "FINI"} THEN val + (IF elf.pie # 0 THEN elf.textVaddr ELSE 0) ELSE val

(* A walk that places the GOT through the text segment like every table. *)
TagOffAllText(t, v) == elf.textOffset + v - elf.textVaddr

(* The offset extract_dyntag_info gives a tag's table: through the data  *)
(* segment for PLTGOT, through the text segment for the others.           *)
TagOff(t, v) ==
  IF t = "PLTGOT" THEN v - elf.dataVaddr + elf.dataOffset
  ELSE elf.textOffset + v - elf.textVaddr

-----------------------------------------------------------------------------
(* The core as the environment wrote it: where an address is in the file, *)
(* through the PT_LOAD header that contains it (-1 when none does).      *)
LoadHdrs == {k \in 1..Len(in.cphdr) : in.cphdr[k].p_type = "LOAD"}
CoreOff(v) ==
  LET ks == {k \in LoadHdrs : Contains(v, in.cphdr[k])}
  IN  IF ks = {} THEN 0 - 1
      ELSE in.cphdr[FirstOf(ks)].p_offset + v - in.cphdr[FirstOf(ks)].p_vaddr

Rt(v) == v + in.bias
HasOrig(t) == \E k \in 1..Len(in.ophdr) : in.ophdr[k].p_type = t
OrigHdr(t) == in.ophdr[FirstOf({k \in 1..Len(in.ophdr) : in.ophdr[k].p_type = t})]
TrueDynOff == CoreOff(Rt(OrigHdr("DYNAMIC").p_vaddr))

(* The bytes at dynoff: the dynamic array when dynoff is where the core  *)
(* holds it; other bytes are taken to start with DT_NULL.                 *)
ReadDyn == IF HasOrig("DYNAMIC") /\ dynoff = TrueDynOff THEN in.dyn ELSE <<>>

(* The core headers whose p_vaddr is dataVaddr.                           *)
DataHdrs == {k \in 1..Len(in.cphdr) : in.cphdr[k].p_vaddr = elf.dataVaddr}

Init ==
  /\ in \in Inputs
  /\ elf = Elf0
  /\ smeta = [t \in PtrTags |-> [vaddr |-> Uninit, off |-> Uninit]]
  /\ sizes = [t \in SizeTags |-> Uninit]
  /\ tb = 0 /\ i = 0 /\ dynoff = 0
  /\ pc = "orig"

(* parse_orig_phdrs returns -1 when the maps gave no executable base.    *)
NoTextBase ==
  /\ pc = "orig" /\ in.text_base = 0
  /\ pc' = "fail"
  /\ UNCHANGED <<in, elf, smeta, sizes, tb, i, dynoff>>

(* parse_orig_phdrs maps the executable, takes text_base again from       *)
(* NT_FILE and marks an ET_DYN executable as PIE.                         *)
OpenExe ==
  /\ pc = "orig" /\ in.text_base # 0
  /\ tb' = LookupTextBase(in.files)
  /\ elf' = [elf EXCEPT !.pie = IF in.etype = "DYN" THEN @ + 1 ELSE @]
  /\ pc' = "origloop"
  /\ UNCHANGED <<in, smeta, sizes, i, dynoff>>

OrigPhdr ==
  /\ pc = "origloop" /\ i < Len(in.ophdr)
  /\ elf' = ParsedPhdr(elf, in.ophdr[i + 1])
  /\ i' = i + 1
  /\ UNCHANGED <<in, smeta, sizes, tb, dynoff, pc>>

OrigDone ==
  /\ pc = "origloop" /\ i = Len(in.ophdr)
  /\ pc' = "xref" /\ i' = 0
  /\ UNCHANGED <<in, elf, smeta, sizes, tb, dynoff>>

XrefPhdr ==
  /\ pc = "xref" /\ i < Len(in.cphdr)
  /\ elf' = Xrefd(elf, in.cphdr[i + 1])
  /\ i' = i + 1
  /\ UNCHANGED <<in, smeta, sizes, tb, dynoff, pc>>

(* A statically linked executable has no dynamic array to walk.          *)
XrefDone ==
  /\ pc = "xref" /\ i = Len(in.cphdr)
  /\ pc' = IF elf.dynlinked # 0 THEN "dynfind" ELSE "done"
  /\ i' = 0
  /\ UNCHANGED <<in, elf, smeta, sizes, tb, dynoff>>

(* extract_dyntag_info: the dynamic array is taken to be at dynVaddr's    *)
(* distance from dataVaddr, in the first core header whose p_vaddr is      *)
(* dataVaddr; with none the stage fails.  (The core's PT_NOTE has p_vaddr  *)
(* 0, so a dataVaddr the lookup left 0 matches it.)                        *)
FindDyn ==
  /\ pc = "dynfind"
  /\ IF DataHdrs = {}
       THEN pc' = "fail" /\ dynoff' = dynoff
       ELSE /\ dynoff' = in.cphdr[FirstOf(DataHdrs)].p_offset + elf.dynVaddr - elf.dataVaddr
            /\ pc' = "dyn"
  /\ UNCHANGED <<in, elf, smeta, sizes, tb, i>>

(* One entry of the dynamic array.                                        *)
DynTag ==
  /\ pc = "dyn" /\ i < Len(ReadDyn)
  /\ LET d == ReadDyn[i + 1] IN
       /\ smeta' = IF d.tag \in PtrTags
                     THEN [smeta EXCEPT ![d.tag] = [vaddr |-> TagVaddr(d.tag, d.val),
                                                    off |-> TagOff(d.tag, TagVaddr(d.tag, d.val))]]
                     ELSE smeta
       /\ sizes' = IF d.tag \in SizeTags THEN [sizes EXCEPT ![d.tag] = d.val] ELSE sizes
  /\ i' = i + 1
  /\ UNCHANGED <<in, elf, tb, dynoff, pc>>

(* DT_NULL: smeta is copied to the handle.                                *)
DynDone ==
  /\ pc = "dyn" /\ i = Len(ReadDyn)
  /\ pc' = "done"
  /\ UNCHANGED <<in, elf, smeta, sizes, tb, i, dynoff>>

Next ==
  \/ NoTextBase \/ OpenExe \/ OrigPhdr \/ OrigDone \/ XrefPhdr \/ XrefDone
  \/ FindDyn \/ DynTag \/ DynDone

Spec == Init /\ [][Next]_vars

-----------------------------------------------------------------------------
(* get_internal_sh_offset for HEAP, STACK, VDSO and VSYSCALL: the first    *)
(* map of that kind for which some core header matches, and the first such *)
(* header's p_offset; the stack's header need only contain the map's base, *)
(* the others must start at it.  0 when none matches.                      *)
ShMatch(kd, b, h) == IF kd = "stack" THEN Contains(b, h) ELSE h.p_vaddr = b

InternalShOffset(kd) ==
  LET ks == {k \in 1..Len(in.maps) :
               /\ in.maps[k].kind = kd
               /\ \E j \in 1..Len(in.cphdr) : ShMatch(kd, in.maps[k].base, in.cphdr[j])}
  IN  IF ks = {} THEN 0
      ELSE in.cphdr[FirstOf({j \in 1..Len(in.cphdr) :
                               ShMatch(kd, in.maps[FirstOf(ks)].base, in.cphdr[j])})].p_offset

-----------------------------------------------------------------------------
(* The reference layout: the executable's text is its LOAD at file        *)
(* offset 0, its data the writable LOAD; the core maps each at the load    *)
(* bias.                                                                   *)
TextLoad == OrigHdr("LOAD")
DataLoad == in.ophdr[CHOOSE k \in 1..Len(in.ophdr) :
                       in.ophdr[k].p_type = "LOAD" /\ "W" \in in.ophdr[k].p_flags]
EhAddr == IF HasOrig("INTERP") THEN Rt(OrigHdr("GNU_EH_FRAME").p_vaddr) ELSE in.eh_hack

XTypeOK ==
  /\ pc \in {"orig", "origloop", "xref", "dynfind", "dyn", "done", "fail"}
  /\ elf \in [DOMAIN Elf0 -> Nat]
  /\ tb \in Nat /\ dynoff \in Int
  /\ \A t \in PtrTags : smeta[t].off \in Nat \cup {Uninit}

(* Spec 4.5: once xref_phdrs_for_offsets has run, the text, data, bss,    *)
(* dynamic and eh_frame offsets it recorded are where the core file holds  *)
(* those addresses, PIE or not, whatever the link layout and RELRO did.    *)
XrefOffsets ==
  pc = "done" =>
    /\ elf.textOffset = CoreOff(Rt(TextLoad.p_vaddr))
    /\ elf.dataOffset = CoreOff(Rt(DataLoad.p_vaddr))
    /\ elf.bssOffset = CoreOff(Rt(DataLoad.p_vaddr + DataLoad.p_filesz))
    /\ elf.ehframeOffset = CoreOff(EhAddr)
    /\ HasOrig("DYNAMIC") => elf.dynOffset = TrueDynOff

(* Spec 4.5: the interpreter path's offset is where the core holds the    *)
(* PT_INTERP string.                                                       *)
InterpOffset ==
  pc = "done" /\ HasOrig("INTERP") => elf.interpOffset = CoreOff(Rt(OrigHdr("INTERP").p_vaddr))

(* The address a tag's table is at in the running process: ld.so has      *)
(* relocated every pointer tag but DT_INIT and DT_FINI.                    *)
RtTag(d) == IF d.tag \in {"INIT", "FINI"} THEN Rt(d.val) ELSE d.val

(* Spec 4.6: after extract_dyntag_info every table the dynamic array      *)
(* names (relocations, PLT relocations, GOT, hash, init, fini, dynsym,     *)
(* dynstr) has the core offset that holds it, the GOT in the data segment  *)
(* and the rest in the text segment.                                       *)
DynTagOffsets ==
  pc = "done" /\ elf.dynlinked # 0 =>
    \A k \in 1..Len(in.dyn) :
      in.dyn[k].tag \in PtrTags => smeta[in.dyn[k].tag].off = CoreOff(RtTag(in.dyn[k]))

=============================================================================
