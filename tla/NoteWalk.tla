------------------------------ MODULE NoteWalk ------------------------------
(***************************************************************************)
(* The note parser (stage S3) of core_accessors.c: parse_notes_area walks  *)
(* the PT_NOTE region of the core one entry at a time and copies what it   *)
(* recognises into the notedesc; parse_nt_files decodes an NT_FILE entry.  *)
(*                                                                         *)
(* The walk keeps two cursors.  The pointer notes moves to the next entry *)
(* with ELFNOTE_NEXT: a 12-byte header, the name and the descriptor, each *)
(* padded to 4 bytes.  The byte count i, which decides when the loop      *)
(* stops, moves by len = (n_descsz + n_namesz + sizeof(long) + 3) & ~3.   *)
(* Byte counts and offsets are kept exact, since the walk depends on     *)
(* them; a descriptor's contents are abstracted to the offset of the     *)
(* entry it was copied from, except for NT_FILE, whose table is decoded.  *)
(***************************************************************************)
EXTENDS Naturals, Sequences, FiniteSets

CONSTANTS
  LongSize,     \* sizeof(long) of the build
  SizeOf,       \* n_descsz the size guard of a note type requires
  NoteChoices,  \* note entries the kernel writes into a core
  MaxNotes,     \* most entries in the PT_NOTE region
  Pads,         \* zero bytes between the notes and the next page boundary
  Beyond        \* headers the bytes of the first dumped segment can spell

NoteTypes == {"PRSTATUS", "PRPSINFO", "SIGINFO", "AUXV", "FILE",
              "FPREGSET", "OTHER"}
Range3 == [start : Nat, end : Nat, file_ofs : Nat, path : STRING]
Note == [n_type : NoteTypes, n_namesz : Nat, n_descsz : Nat,
         page_size : Nat, files : Seq(Range3)]

ASSUME LongSizeAssumption == LongSize \in {4, 8}
ASSUME SizeOfAssumption ==
  SizeOf \in [{"PRSTATUS", "PRPSINFO", "SIGINFO", "FPREGSET"} -> Nat]
ASSUME NotesAssumption ==
  /\ NoteChoices \subseteq Note /\ Beyond \subseteq Note
  /\ MaxNotes \in Nat \ {0} /\ Pads \subseteq Nat

VARIABLES
  notes,     \* the entries of the PT_NOTE region, in file order
  pad,       \* zero bytes after them up to the first segment's data
  i,         \* the loop's byte count
  pos,       \* offset of the entry the pointer notes is at
  notedesc,  \* what the walk has copied out
  done       \* parse_notes_area has returned

vars == <<notes, pad, i, pos, notedesc, done>>

Align4(x) == ((x + 3) \div 4) * 4

(* ELFNOTE_NEXT: the size of an entry in the file.                        *)
EntryBytes(h) == 12 + Align4(h.n_namesz) + Align4(h.n_descsz)

(* The step the loop adds to i (line 623).                                *)
StepLen(h) == ((h.n_descsz + h.n_namesz + LongSize + 3) \div 4) * 4

(* Offset of each entry of ns, and of the end of the region at Len(ns).   *)
StartOf(ns) ==
  LET f[k \in 0..Len(ns)] == IF k = 0 THEN 0 ELSE f[k - 1] + EntryBytes(ns[k])
  IN  f

NoteSize == StartOf(notes)[Len(notes)]   \* PT_NOTE p_filesz

(* The header the pointer reads at offset p: an entry of the region, or  *)
(* three words of which those inside the zero padding read 0 and the     *)
(* rest are whatever the segment after it holds.                          *)
PadWords(p) ==
  IF NoteSize + pad <= p THEN 0
  ELSE IF (NoteSize + pad - p) \div 4 >= 3 THEN 3 ELSE (NoteSize + pad - p) \div 4

Zeroed(h, w) ==
  [h EXCEPT !.n_namesz = IF w >= 1 THEN 0 ELSE @,
            !.n_descsz = IF w >= 2 THEN 0 ELSE @,
            !.n_type = IF w >= 3 THEN "OTHER" ELSE @]

HeaderAt(p) ==
  IF \E k \in 1..Len(notes) : StartOf(notes)[k - 1] = p
    THEN {notes[CHOOSE k \in 1..Len(notes) : StartOf(notes)[k - 1] = p]}
    ELSE {Zeroed(h, PadWords(p)) : h \in Beyond}

SizeOK(h) == h.n_type \in DOMAIN SizeOf => h.n_descsz = SizeOf[h.n_type]

(* A NULL pointer of the notedesc; nt_files is <<>> while NULL and       *)
(* <<table>> once an NT_FILE entry was decoded.                          *)
NoPos == 0 - 1
NoEntry == [threads |-> <<>>, psinfo |-> NoPos, siginfo |-> NoPos,
            auxv |-> NoPos, auxv_size |-> 0, nt_files |-> <<>>, fpu |-> NoPos]

(* A parse_nt_files that computes a range's size the wrong way round.    *)
ParseNtFilesSwapped(h) ==
  [fcount |-> Len(h.files), page_size |-> h.page_size,
   files |-> [k \in 1..Len(h.files) |->
               [addr |-> h.files[k].start, size |-> h.files[k].start - h.files[k].end,
                pgoff |-> h.files[k].file_ofs, path |-> h.files[k].path]]]

(* parse_nt_files: count and page size, then one record per range, with  *)
(* its path from the string table that follows the ranges.                *)
ParseNtFiles(h) ==
  [fcount |-> Len(h.files), page_size |-> h.page_size,
   files |-> [k \in 1..Len(h.files) |->
               [addr |-> h.files[k].start, size |-> h.files[k].end - h.files[k].start,
                pgoff |-> h.files[k].file_ofs, path |-> h.files[k].path]]]

(* A walk that keeps a PRSTATUS entry whatever its n_descsz.              *)
DecodedNoSizeGuard(nd, h, p) ==
  CASE h.n_type = "PRSTATUS" -> [nd EXCEPT !.threads = Append(@, p)]
    [] h.n_type = "PRPSINFO" /\ SizeOK(h) -> [nd EXCEPT !.psinfo = p]
    [] h.n_type = "SIGINFO" /\ SizeOK(h) -> [nd EXCEPT !.siginfo = p]
    [] h.n_type = "AUXV" -> [nd EXCEPT !.auxv = p, !.auxv_size = h.n_descsz]
    [] h.n_type = "FILE" -> [nd EXCEPT !.nt_files = <<ParseNtFiles(h)>>]
    [] h.n_type = "FPREGSET" /\ SizeOK(h) -> [nd EXCEPT !.fpu = p]
    [] OTHER -> nd

(* The switch on n_type: an entry of a guarded type whose n_descsz is     *)
(* not the structure's size is skipped; PRSTATUS entries go to            *)
(* thread_core_info in order (the first is also notedesc->prstatus); the *)
(* others replace what an earlier entry of their type left.               *)
Decoded(nd, h, p) ==
  CASE h.n_type = "PRSTATUS" /\ SizeOK(h) -> [nd EXCEPT !.threads = Append(@, p)]
    [] h.n_type = "PRPSINFO" /\ SizeOK(h) -> [nd EXCEPT !.psinfo = p]
    [] h.n_type = "SIGINFO" /\ SizeOK(h) -> [nd EXCEPT !.siginfo = p]
    [] h.n_type = "AUXV" -> [nd EXCEPT !.auxv = p, !.auxv_size = h.n_descsz]
    [] h.n_type = "FILE" -> [nd EXCEPT !.nt_files = <<ParseNtFiles(h)>>]
    [] h.n_type = "FPREGSET" /\ SizeOK(h) -> [nd EXCEPT !.fpu = p]
    [] OTHER -> nd

-----------------------------------------------------------------------------
Init ==
  /\ notes \in UNION {[1..k -> NoteChoices] : k \in 1..MaxNotes}
  /\ pad \in Pads
  /\ i = 0
  /\ pos = 0
  /\ notedesc = NoEntry
  /\ done = FALSE

(* One iteration of the loop of parse_notes_area.                         *)
ParseNote ==
  /\ ~done
  /\ i < NoteSize
  /\ \E h \in HeaderAt(pos) :
       /\ notedesc' = Decoded(notedesc, h, pos)
       /\ i' = i + StepLen(h)
       /\ pos' = pos + EntryBytes(h)
  /\ UNCHANGED <<notes, pad, done>>

(* The loop condition fails and the notedesc is returned.                 *)
NotesDone ==
  /\ ~done
  /\ i >= NoteSize
  /\ done' = TRUE
  /\ UNCHANGED <<notes, pad, i, pos, notedesc>>

Next == ParseNote \/ NotesDone

Spec == Init /\ [][Next]_vars /\ WF_vars(Next)

-----------------------------------------------------------------------------
Pos == Nat \cup {NoPos}

TypeOK ==
  /\ notes \in Seq(NoteChoices) /\ Len(notes) \in 1..MaxNotes
  /\ pad \in Pads /\ i \in Nat /\ pos \in Nat /\ done \in BOOLEAN
  /\ notedesc.threads \in Seq(Nat)
  /\ notedesc.psinfo \in Pos /\ notedesc.siginfo \in Pos
  /\ notedesc.auxv \in Pos /\ notedesc.fpu \in Pos
  /\ notedesc.auxv_size \in Nat
  /\ Len(notedesc.nt_files) <= 1
  /\ \A t \in DOMAIN notedesc.nt_files :
       /\ notedesc.nt_files[t].fcount \in Nat
       /\ \A k \in DOMAIN notedesc.nt_files[t].files :
            notedesc.nt_files[t].files[k].size \in Nat

(* Reference decoding of a region, entry by entry: the offsets of the    *)
(* well-sized entries of type t, in file order.                           *)
Valid(ns, t) == {k \in 1..Len(ns) : ns[k].n_type = t /\ SizeOK(ns[k])}
LastOf(S) == CHOOSE k \in S : \A x \in S : x <= k
NthOf(S, j) == CHOOSE k \in S : Cardinality({x \in S : x <= k}) = j
LastPos(ns, t) ==
  IF Valid(ns, t) = {} THEN NoPos ELSE StartOf(ns)[LastOf(Valid(ns, t)) - 1]

Expected(ns) ==
  [threads |-> [j \in 1..Cardinality(Valid(ns, "PRSTATUS")) |->
                  StartOf(ns)[NthOf(Valid(ns, "PRSTATUS"), j) - 1]],
   psinfo |-> LastPos(ns, "PRPSINFO"),
   siginfo |-> LastPos(ns, "SIGINFO"),
   auxv |-> LastPos(ns, "AUXV"),
   auxv_size |-> IF Valid(ns, "AUXV") = {} THEN 0
                 ELSE ns[LastOf(Valid(ns, "AUXV"))].n_descsz,
   nt_files |-> IF Valid(ns, "FILE") = {} THEN <<>>
                ELSE <<ParseNtFiles(ns[LastOf(Valid(ns, "FILE"))])>>,
   fpu |-> LastPos(ns, "FPREGSET")]

(* When parse_notes_area returns, the notedesc holds exactly what the    *)
(* entries of the PT_NOTE region say (spec 4.3 and the wrong-size        *)
(* PRSTATUS scenario of section 8): one thread per well-sized PRSTATUS   *)
(* entry in file order, the last well-sized entry of every other type,    *)
(* and nothing taken from bytes outside the region.                       *)
RegionDecoded == done => notedesc = Expected(notes)
=============================================================================
