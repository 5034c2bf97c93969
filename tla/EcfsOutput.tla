----------------------------- MODULE EcfsOutput -----------------------------
(***************************************************************************)
(* The output pass (stage S8) of core_accessors.c: core2ecfs records the   *)
(* offset and size of every forensic payload in an ecfs_file, writes the   *)
(* merged core and the payloads one after the other, and calls           *)
(* build_section_headers, which writes the section header table and the  *)
(* section string table and patches the ELF header; core2ecfs then sets   *)
(* e_shoff again from its own record.                                      *)
(*                                                                         *)
(* Data abstraction.  The output file is a sequence of units: the core is *)
(* CoreSize units, one elf_prstatus, one siginfo_t, the exe path, the     *)
(* personality and the arglist one unit each, the fdinfo array and the    *)
(* auxv their own number of units, a section header one unit, the string  *)
(* table one unit.  A unit is labelled with the payload it belongs to.    *)
(* A section name is a record: the library it names (or ""), its kind    *)
(* and its number, for "<lib>.data.<n>".                                  *)
(***************************************************************************)
EXTENDS Naturals, Sequences, FiniteSets

CONSTANTS
  CoreSize,     \* st_size of the merged core, in units
  MaxThreads,   \* most PRSTATUS notes parse_notes_area kept
  FdSizes,      \* values memdesc->fdinfo_size can take, in units
  AuxvSizes,    \* values notedesc->auxv_size can take, in units
  SiginfoNote,  \* whether the core had a well-sized NT_SIGINFO note
  LibChoices    \* library tables notedesc->lm_files can hold

Flags == {"RX", "RW", "R", "other"}
Lib == [name : STRING, flags : Flags]

ASSUME CoreSizeAssumption == CoreSize \in Nat \ {0}
ASSUME InputsAssumption ==
  /\ MaxThreads \in Nat /\ FdSizes \subseteq Nat /\ AuxvSizes \subseteq Nat
  /\ SiginfoNote \subseteq BOOLEAN /\ LibChoices \subseteq Seq(Lib)

VARIABLES
  in,      \* the handle as S1 to S7 left it
  file,    \* the output file
  ecfs,    \* ecfs_file: recorded offset and size of each payload
  shdrs,   \* the section header table build_section_headers wrote
  ehdr,    \* e_shoff, e_shnum and e_shstrndx of the output
  pc,      \* where core2ecfs is
  thr      \* loop index over notedesc->thread_core_info

vars == <<in, file, ecfs, shdrs, ehdr, pc, thr>>

Payloads == <<"prstatus", "fdinfo", "siginfo", "auxv", "exepath",
              "personality", "arglist">>
PayloadSet == {Payloads[k] : k \in 1..7}

Inputs == [tc : 0..MaxThreads, fdsz : FdSizes, auxsz : AuxvSizes,
           siginfo : SiginfoNote, dynamic : BOOLEAN, libs : LibChoices]

(* Bytes each payload write asks for.                                     *)
PayloadSize(p) ==
  CASE p = "prstatus" -> in.tc
    [] p = "fdinfo"   -> in.fdsz
    [] p = "auxv"     -> in.auxsz
    [] OTHER          -> 1

Units(p, n) == [j \in 1..n |-> <<p, j>>]

Sec(kind) == [name |-> [lib |-> "", kind |-> kind, n |-> 0], off |-> 0, size |-> 0]

(* The sections build from the core's own segments, in table order;      *)
(* those of dynamic linking only when the program is dynamically linked. *)
CoreSections(dynamic) ==
  IF dynamic
    THEN [k \in 1..19 |-> Sec(<<"", ".interp", ".note", ".hash", ".dynsym",
            ".dynstr", ".rela.dyn", ".rela.plt", ".init", ".plt", ".text",
            ".fini", ".eh_frame_hdr", ".eh_frame", ".dynamic", ".got.plt",
            ".data", ".bss", ".heap">>[k])]
    ELSE [k \in 1..7 |-> Sec(<<"", ".note", ".text", ".eh_frame", ".data",
            ".bss", ".heap">>[k])]

(* The loop over lm_files: a section per library mapping named after its *)
(* permissions; data_count numbers the read-write ones.                   *)
LibSections(libs) ==
  LET dc[j \in 0..Len(libs)] ==
        IF j = 0 THEN 0 ELSE dc[j - 1] + (IF libs[j].flags = "RW" THEN 1 ELSE 0)
      kind(f) == CASE f = "RX" -> "text" [] f = "RW" -> "data"
                   [] f = "R" -> "relro" [] OTHER -> "undef"
  IN  [j \in 1..Len(libs) |->
        [name |-> [lib |-> libs[j].name, kind |-> kind(libs[j].flags),
                   n |-> IF libs[j].flags = "RW" THEN dc[j - 1] ELSE 0],
         off |-> 0, size |-> 0]]

(* A layout that forgets the prstatus array when placing fdinfo.          *)
LayoutNoThreads(cs) ==
  LET size == [p \in PayloadSet |-> PayloadSize(p)]
      off[k \in 1..8] == IF k = 1 THEN cs
                         ELSE IF k = 2 THEN cs
                         ELSE off[k - 1] + size[Payloads[k - 1]]
  IN  [off |-> [p \in PayloadSet |-> off[CHOOSE k \in 1..7 : Payloads[k] = p]],
       size |-> size, stb |-> off[8]]

(* ecfs_file: each payload placed right after the one before it, the     *)
(* first at the end of the core; stb_offset after the last.               *)
Layout(cs) ==
  LET size == [p \in PayloadSet |-> PayloadSize(p)]
      off[k \in 1..8] == IF k = 1 THEN cs ELSE off[k - 1] + size[Payloads[k - 1]]
  IN  [off |-> [p \in PayloadSet |-> off[CHOOSE k \in 1..7 : Payloads[k] = p]],
       size |-> size, stb |-> off[8]]

(* The section headers of the payloads, from the recorded layout.         *)
PayloadSections ==
  [k \in 1..7 |-> [name |-> [lib |-> "", kind |-> Payloads[k], n |-> 0],
                   off |-> ecfs.off[Payloads[k]], size |-> ecfs.size[Payloads[k]]]]

-----------------------------------------------------------------------------
Init ==
  /\ in \in Inputs
  /\ file = <<>>
  /\ ecfs = Layout(0)
  /\ shdrs = <<>>
  /\ ehdr = [e_shoff |-> 0, e_shnum |-> 0, e_shstrndx |-> 0]
  /\ pc = "open"
  /\ thr = 0

(* core2ecfs: open the output and record where every payload will go.    *)
CreateOutput ==
  /\ pc = "open"
  /\ ecfs' = Layout(CoreSize)
  /\ pc' = "body"
  /\ UNCHANGED <<in, file, shdrs, ehdr, thr>>

WriteBody ==
  /\ pc = "body"
  /\ file' = Units("core", CoreSize)
  /\ pc' = "prstatus"
  /\ UNCHANGED <<in, ecfs, shdrs, ehdr, thr>>

(* A loop over thread_core_info that runs to i <= thread_count.          *)
WritePrstatusPastEnd ==
  /\ pc = "prstatus"
  /\ \/ /\ thr = 0 /\ in.tc = 0
        /\ pc' = "exit"
        /\ UNCHANGED <<file, thr>>
     \/ /\ thr < in.tc + 1 /\ in.tc > 0
        /\ file' = Append(file, <<"prstatus", thr + 1>>)
        /\ thr' = thr + 1
        /\ UNCHANGED pc
     \/ /\ thr = in.tc + 1 /\ thr > 1
        /\ pc' = "fdinfo"
        /\ UNCHANGED <<file, thr>>
  /\ UNCHANGED <<in, ecfs, shdrs, ehdr>>

(* The primary prstatus, then thread_core_info[1..thread_count-1]; with   *)
(* no PRSTATUS note notedesc->prstatus is NULL, write fails and the       *)
(* program exits.                                                         *)
WritePrstatus ==
  /\ pc = "prstatus"
  /\ \/ /\ thr = 0 /\ in.tc = 0
        /\ pc' = "exit"
        /\ UNCHANGED <<file, thr>>
     \/ /\ thr < in.tc
        /\ file' = Append(file, <<"prstatus", thr + 1>>)
        /\ thr' = thr + 1
        /\ UNCHANGED pc
     \/ /\ thr = in.tc /\ thr > 0
        /\ pc' = "fdinfo"
        /\ UNCHANGED <<file, thr>>
  /\ UNCHANGED <<in, ecfs, shdrs, ehdr>>

(* The writes of fdinfo, siginfo, auxv, exe path, personality and         *)
(* arglist.  A failed write is logged and the next one made: siginfo is  *)
(* NULL when the core had no well-sized NT_SIGINFO, and write() of a     *)
(* NULL buffer fails with EFAULT.                                         *)
WritePayloads ==
  /\ pc = "fdinfo"
  /\ LET wrote(p) == IF p = "siginfo" /\ ~in.siginfo THEN <<>>
                     ELSE Units(p, PayloadSize(p))
     IN  file' = file \o wrote("fdinfo") \o wrote("siginfo") \o wrote("auxv")
                      \o wrote("exepath") \o wrote("personality") \o wrote("arglist")
  /\ pc' = "shdrs"
  /\ UNCHANGED <<in, ecfs, shdrs, ehdr, thr>>

(* build_section_headers: e_shoff is where the file offset stands; the   *)
(* table, then the string table, whose header points just past the table;*)
(* the reopened file's ELF header gets e_shoff, e_shnum and e_shstrndx.   *)
BuildSectionHeaders ==
  /\ pc = "shdrs"
  /\ LET e_shoff == Len(file)
         body == CoreSections(in.dynamic)
                   \o (IF in.dynamic THEN LibSections(in.libs) ELSE <<>>)
                   \o PayloadSections
                   \o [k \in 1..5 |-> Sec(<<".stack", ".vdso", ".vsyscall",
                                            ".symtab", ".strtab">>[k])]
         shstrtab == [name |-> [lib |-> "", kind |-> ".shstrtab", n |-> 0],
                      off |-> e_shoff + Len(body) + 1, size |-> 1]
         table == Append(body, shstrtab)
     IN  /\ shdrs' = table
         /\ file' = file \o Units("shdr", Len(table)) \o Units("shstrtab", 1)
         /\ ehdr' = [e_shoff |-> e_shoff, e_shnum |-> Len(table),
                     e_shstrndx |-> Len(table) - 1]
  /\ pc' = "patch"
  /\ UNCHANGED <<in, ecfs, thr>>

(* core2ecfs maps the output again and sets e_shoff to stb_offset.        *)
PatchShoff ==
  /\ pc = "patch"
  /\ ehdr' = [ehdr EXCEPT !.e_shoff = ecfs.stb, !.e_shnum = Len(shdrs)]
  /\ pc' = "done"
  /\ UNCHANGED <<in, file, ecfs, shdrs, thr>>

Next ==
  \/ CreateOutput \/ WriteBody \/ WritePrstatus \/ WritePayloads
  \/ BuildSectionHeaders \/ PatchShoff

Spec == Init /\ [][Next]_vars /\ WF_vars(Next)

-----------------------------------------------------------------------------
TypeOK ==
  /\ in \in Inputs
  /\ file \in Seq(STRING \X Nat)
  /\ pc \in {"open", "body", "prstatus", "fdinfo", "shdrs", "patch", "done", "exit"}
  /\ thr \in 0..MaxThreads
  /\ ehdr \in [e_shoff : Nat, e_shnum : Nat, e_shstrndx : Nat]

(* The section at index x (e_shstrndx counts from 0).                     *)
SecAt(x) == shdrs[x + 1]

(* The output can be read back (spec section 6 and properties 3 and 4):  *)
(* every payload section's [sh_offset, sh_offset + sh_size) holds that   *)
(* payload, e_shoff points at the section header table, and the section  *)
(* e_shstrndx names is the last one and points at the string table.      *)
OutputLayout ==
  pc = "done" =>
    /\ \A s \in DOMAIN shdrs :
         shdrs[s].name.kind \in PayloadSet =>
           /\ shdrs[s].off + shdrs[s].size <= Len(file)
           /\ SubSeq(file, shdrs[s].off + 1, shdrs[s].off + shdrs[s].size)
                = Units(shdrs[s].name.kind, shdrs[s].size)
    /\ ehdr.e_shoff + ehdr.e_shnum <= Len(file)
    /\ SubSeq(file, ehdr.e_shoff + 1, ehdr.e_shoff + ehdr.e_shnum)
         = Units("shdr", ehdr.e_shnum)
    /\ ehdr.e_shstrndx = Len(shdrs) - 1
    /\ file[SecAt(ehdr.e_shstrndx).off + 1] = <<"shstrtab", 1>>
=============================================================================
