------------------------------ MODULE ProcMaps ------------------------------
(***************************************************************************)
(* The mapping snapshot (stage S1) of core_accessors.c: get_map_count      *)
(* counts the lines of /proc/pid/maps and the caller sizes the maps array  *)
(* by it; get_maps then reads the file line by line and classifies each    *)
(* line into maps[lc].                                                     *)
(*                                                                         *)
(* A line is abstracted to its path kind, its permission field and, for a *)
(* [stack:TID] line, the digits of the TID.  The address range of line lc *)
(* is abstracted to Base(lc).  The target process is frozen in a core     *)
(* dump, stopped by the caller, or running; only a running target can     *)
(* change its mappings between the count and the read.                    *)
(***************************************************************************)
EXTENDS Naturals, Sequences

CONSTANTS
  LineChoices,  \* the lines /proc/pid/maps can hold
  MinLines,     \* fewest lines of the file
  MaxLines,     \* most lines the file can grow to
  Modes,        \* states the target can start in, among TargetStates
  QInit         \* what the uninitialised bytes of q = alloca(32) can hold

Paths == {"exe", "heap", "stack", "tstack", "vdso", "vsyscall", "lib", "file", "anon"}
Perms == {"r--p", "rw-p", "-w-p", "--xp", "r-xp", "-wxp", "rwxp", "---p",
          "r--s", "rw-s", "-w-s", "--xs", "r-xs", "-wxs", "rwxs", "---s"}
NonDigit == 0 - 1
Chars == (0..9) \cup {NonDigit}
Line == [path : Paths, perms : Perms, tid : Seq(0..9)]
TargetStates == {"dumping", "stopped", "running"}

ASSUME LinesAssumption ==
  /\ LineChoices \subseteq Line
  /\ MinLines \in Nat \ {0} /\ MaxLines \in Nat /\ MinLines <= MaxLines
  /\ Modes \subseteq TargetStates
  /\ QInit \subseteq Chars
  /\ \A ln \in LineChoices : Len(ln.tid) <= 4

VARIABLES
  mode,      \* the target's state
  lines,     \* the current content of /proc/pid/maps
  mapcount,  \* get_map_count's result: the size of the maps array
  maps,      \* the maps array (indices beyond mapcount are out of bounds)
  lc,        \* get_maps's line counter
  q,         \* the TID buffer, alloca'd once and never terminated
  pc         \* "count", "parse" or "done"

vars == <<mode, lines, mapcount, maps, lc, q, pc>>

QLen == 4   \* bytes of q modelled; atoi stops at the end of them
Slots == 0..(IF MaxLines > QLen THEN MaxLines ELSE QLen)
Base(k) == k + 1
Zero == [base |-> 0, elfmap |-> 0, textbase |-> 0, filename |-> FALSE,
         heap |-> 0, stack |-> 0, thread_stack |-> 0, stack_tid |-> 0,
         padding |-> 0, vdso |-> 0, vsyscall |-> 0, shlib |-> 0,
         filemap_exe |-> 0, filemap |-> 0, anonmap_exe |-> 0,
         p_flags |-> {}, special |-> 0]

(* atoi: the number spelled by the leading digits of s.                   *)
Atoi(s) ==
  LET n == IF \E k \in 1..Len(s) : s[k] = NonDigit
             THEN (CHOOSE k \in 1..Len(s) : s[k] = NonDigit /\
                     \A j \in 1..k - 1 : s[j] # NonDigit) - 1
             ELSE Len(s)
      f[k \in 0..n] == IF k = 0 THEN 0 ELSE f[k - 1] * 10 + s[k]
  IN  f[n]

Exec(pm) == pm \in {"r-xp", "rwxp"}

Classified(m, ln, k) ==
  LET m0 == [m EXCEPT !.elfmap = 0, !.base = Base(k)]
  IN  IF ln.path = "exe" /\ ln.perms # "---p"
        THEN [m0 EXCEPT !.filename = TRUE, !.elfmap = @ + 1,
                        !.textbase = IF Exec(ln.perms) THEN @ + 1 ELSE @]
      ELSE IF ln.path = "exe" THEN m0
      ELSE IF ln.path = "heap" THEN [m0 EXCEPT !.heap = @ + 1]
      ELSE IF ln.path = "stack" THEN [m0 EXCEPT !.stack = @ + 1]
      ELSE IF ln.path = "tstack" THEN m0
      ELSE IF ln.perms = "---p" THEN [m0 EXCEPT !.padding = @ + 1]
      ELSE IF ln.path = "vdso" THEN [m0 EXCEPT !.vdso = @ + 1]
      ELSE IF ln.path = "vsyscall" THEN [m0 EXCEPT !.vsyscall = @ + 1]
      ELSE IF ln.path = "lib" THEN [m0 EXCEPT !.shlib = @ + 1, !.filename = TRUE]
      \* strstr(p, "rwxp") looks in the basename, never in the permissions
      ELSE IF ln.path = "file" THEN [m0 EXCEPT !.filemap = @ + 1, !.filename = TRUE]
      ELSE IF Exec(ln.perms) THEN [m0 EXCEPT !.anonmap_exe = @ + 1]
      ELSE m0

FlagsOf == [pm \in {"r--p", "rw-p", "-w-p", "--xp", "r-xp", "-wxp", "rwxp"} |->
              {f \in {"R", "W", "X"} :
                 \/ f = "R" /\ pm \in {"r--p", "rw-p", "r-xp", "rwxp"}
                 \/ f = "W" /\ pm \in {"rw-p", "-w-p", "-wxp", "rwxp"}
                 \/ f = "X" /\ pm \in {"--xp", "r-xp", "-wxp", "rwxp"}}]

(* A chain whose r-xp branch sets PF_R alone.                            *)
PermissionsNoExecRX(m, pm) ==
  IF pm = "r-xp" THEN [m EXCEPT !.p_flags = {"R"}]
  ELSE IF pm \in DOMAIN FlagsOf THEN [m EXCEPT !.p_flags = FlagsOf[pm]]
  ELSE IF pm \in Perms \ {"---p", "---s"} THEN [m EXCEPT !.special = @ + 1]
  ELSE m

(* The chain that sets the segment permissions (or counts a shared one).  *)
Permissions(m, pm) ==
  CASE pm \in DOMAIN FlagsOf -> [m EXCEPT !.p_flags = FlagsOf[pm]]
    [] pm \in Perms \ {"---p", "---s"} /\ pm \notin DOMAIN FlagsOf ->
         [m EXCEPT !.special = @ + 1]
    [] OTHER -> m

-----------------------------------------------------------------------------
Init ==
  /\ mode \in Modes
  /\ lines \in UNION {[1..n -> LineChoices] : n \in MinLines..MaxLines}
  /\ mapcount = 0
  /\ maps = [k \in Slots |-> Zero]
  /\ lc = 0
  /\ q \in [1..QLen -> QInit]
  /\ pc = "count"

(* A count that also counts the newline-less end of the file.            *)
GetMapCountOffByOne ==
  /\ pc = "count"
  /\ mapcount' = Len(lines) + 1
  /\ pc' = "parse"
  /\ UNCHANGED <<mode, lines, maps, lc, q>>

(* get_map_count: wc -l of the maps file sizes the array.                 *)
GetMapCount ==
  /\ pc = "count"
  /\ mapcount' = Len(lines)
  /\ pc' = "parse"
  /\ UNCHANGED <<mode, lines, maps, lc, q>>

(* One iteration of get_maps's loop: fgets read line lc.                  *)
ParseLine ==
  /\ pc = "parse"
  /\ lc < Len(lines)
  /\ LET ln == lines[lc + 1]
         i  == Len(ln.tid)
         q2 == [k \in 1..QLen |-> IF k <= i THEN ln.tid[k] ELSE q[k]]
         m1 == Permissions(Classified(maps[lc], ln, lc), ln.perms)
         mm == [maps EXCEPT ![lc] = m1]
     IN  /\ q' = IF ln.path = "tstack" THEN q2 ELSE q
         /\ maps' = IF ln.path = "tstack"
                      THEN [mm EXCEPT ![i] = [mm[i] EXCEPT !.thread_stack = @ + 1,
                                                           !.stack_tid = Atoi(q2)]]
                      ELSE mm
  /\ lc' = lc + 1
  /\ UNCHANGED <<mode, lines, mapcount, pc>>

(* fgets returns NULL: the file is closed and get_maps returns 0.         *)
MapsDone ==
  /\ pc = "parse"
  /\ lc >= Len(lines)
  /\ pc' = "done"
  /\ UNCHANGED <<mode, lines, mapcount, maps, lc, q>>

(* A running target maps one more region before the file is read to the  *)
(* end.                                                                   *)
TargetMaps ==
  /\ mode = "running"
  /\ pc # "done"
  /\ Len(lines) < MaxLines
  /\ \E ln \in LineChoices : lines' = Append(lines, ln)
  /\ UNCHANGED <<mode, mapcount, maps, lc, q, pc>>

Next == GetMapCount \/ ParseLine \/ MapsDone \/ TargetMaps

Spec == Init /\ [][Next]_vars /\ WF_vars(GetMapCount \/ ParseLine \/ MapsDone)

-----------------------------------------------------------------------------
TypeOK ==
  /\ mode \in TargetStates /\ pc \in {"count", "parse", "done"}
  /\ lines \in Seq(LineChoices) /\ Len(lines) \in MinLines..MaxLines
  /\ mapcount \in 0..MaxLines /\ lc \in 0..MaxLines
  /\ q \in [1..QLen -> Chars]
  /\ \A k \in Slots : maps[k].p_flags \subseteq {"R", "W", "X"}

ExecPerms == {"--xp", "r-xp", "-wxp", "rwxp"}

(* The mappings create_shlib_text_mappings and merge_shlib_texts_into_core *)
(* read and merge, the shlib slots with PF_X among maps[0..mapcount-1],    *)
(* are exactly the private executable library lines of the counted file,  *)
(* whatever the other lines (thread stacks writing other slots included)  *)
(* did to the array.                                                      *)
LibTextSelection ==
  pc = "done" =>
    {k \in 0..mapcount - 1 : maps[k].shlib > 0 /\ "X" \in maps[k].p_flags} =
    {k \in 0..mapcount - 1 : lines[k + 1].path = "lib" /\ lines[k + 1].perms \in ExecPerms}

(* The decimal value of a TID's digits.                                   *)
TidValue(t) == LET f[k \in 0..Len(t)] == IF k = 0 THEN 0 ELSE f[k - 1] * 10 + t[k]
               IN  f[Len(t)]

(* Spec 4.1 rule 2: a [stack:TID] line is recorded as a thread stack in   *)
(* its own slot, with the TID parsed between ':' and ']'.                 *)
ThreadStacksRecorded ==
  pc = "done" =>
    \A k \in 1..Len(lines) : lines[k].path = "tstack" =>
      maps[k - 1].thread_stack = 1 /\ maps[k - 1].stack_tid = TidValue(lines[k].tid)

(* The kind spec 4.1 gives a line, by its rules in order.                 *)
SpecKind(ln) ==
  LET x == ln.perms \in ExecPerms \cup {"--xs", "r-xs", "-wxs", "rwxs"}
  IN  IF ln.path = "exe" /\ ln.perms # "---p"
        THEN (IF x THEN "main-exe-text" ELSE "main-exe-other")
      ELSE IF ln.path \in {"heap", "stack", "vdso", "vsyscall"} THEN ln.path
      ELSE IF ln.perms = "---p" THEN "padding"
      ELSE IF ln.path = "lib" THEN "shared-lib"
      ELSE IF ln.path = "file" THEN (IF x THEN "file-exe" ELSE "file-regular")
      ELSE IF ln.path = "anon" /\ x THEN "anon-exe"
      ELSE "none"

(* The kind the counters of a slot record.                                *)
KindOf(m) ==
  IF m.elfmap > 0 /\ m.textbase > 0 THEN "main-exe-text"
  ELSE IF m.elfmap > 0 THEN "main-exe-other"
  ELSE IF m.heap > 0 THEN "heap"
  ELSE IF m.stack > 0 THEN "stack"
  ELSE IF m.vdso > 0 THEN "vdso"
  ELSE IF m.vsyscall > 0 THEN "vsyscall"
  ELSE IF m.padding > 0 THEN "padding"
  ELSE IF m.shlib > 0 THEN "shared-lib"
  ELSE IF m.filemap_exe > 0 THEN "file-exe"
  ELSE IF m.filemap > 0 THEN "file-regular"
  ELSE IF m.anonmap_exe > 0 THEN "anon-exe"
  ELSE "none"

=============================================================================
