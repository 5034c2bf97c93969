---------------------------- MODULE MCNoteWalk ----------------------------
(* Model-checking instance of NoteWalk for an x86-64 build: the structure *)
(* sizes of that ABI, up to three entries drawn from what the kernel      *)
(* writes (a PRSTATUS of the wrong size among them), and padding from     *)
(* none to more than the walk can overrun.                                *)
EXTENDS NoteWalk

MCLongSize == 8
MCSizeOf == [PRSTATUS |-> 336, PRPSINFO |-> 136, SIGINFO |-> 128, FPREGSET |-> 512]
MCMaxNotes == 3
MCPads == {0, 8, 20, 36}

Entry(t, nsz, dsz) ==
  [n_type |-> t, n_namesz |-> nsz, n_descsz |-> dsz, page_size |-> 0, files |-> <<>>]

(* An NT_FILE entry of two ranges: 2 + 3 * 2 longs and the two paths.    *)
FileEntry ==
  [n_type |-> "FILE", n_namesz |-> 5, n_descsz |-> 8 * 8 + 9 + 14, page_size |-> 4096,
   files |-> << [start |-> 4096, end |-> 12288, file_ofs |-> 0, path |-> "/bin/a"],
                [start |-> 12288, end |-> 16384, file_ofs |-> 2, path |-> "/lib/b.so"] >>]

(* PRSTATUS (one of an i386 size), PRPSINFO, SIGINFO, AUXV, NT_FILE,     *)
(* FPREGSET and an XSTATE entry named "LINUX" that the walk ignores.     *)
MCNoteChoices ==
  { Entry("PRSTATUS", 5, 336), Entry("PRSTATUS", 5, 144), Entry("PRPSINFO", 5, 136),
    Entry("SIGINFO", 5, 128), Entry("AUXV", 5, 320), FileEntry,
    Entry("FPREGSET", 5, 512), Entry("OTHER", 6, 832) }

(* The first dumped page after the notes holds an ELF header: read as a  *)
(* note header, n_namesz is 0x464c457f and n_descsz 0x00010102.           *)
MCBeyondElfHeader == { Entry("OTHER", 1179403647, 65794) }

(* Segment data a process controls, spelling a PRSTATUS header.           *)
MCBeyondCrafted == MCBeyondElfHeader \cup { Entry("PRSTATUS", 5, 336) }
=============================================================================
