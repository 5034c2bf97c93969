--------------------------- MODULE SnapshotProofs ---------------------------
(***************************************************************************)
(* Proofs about Snapshot (get_maps, then create_shlib_text_mappings with   *)
(* the target as a concurrent actor), for every value of the constants:   *)
(* its type invariant, that the library texts S4 reads are exactly the     *)
(* private executable library lines that were counted, and that a target   *)
(* S4 has signalled is left running with no stop queued.                   *)
(***************************************************************************)
EXTENDS Snapshot, TLAPS

RWX == {"R", "W", "X"}

(* The array get_maps fills: one record per slot, those at or past lc     *)
(* still as the caller zeroed them in what S4 selects on.                 *)
MapsShape ==
  /\ DOMAIN maps = Slots
  /\ \A k \in Slots : DOMAIN maps[k] = DOMAIN Zero /\ maps[k].p_flags \subseteq RWX
  /\ \A k \in Slots : k >= lc => maps[k].shlib = 0 /\ maps[k].p_flags = {}

(* A slot is a library text slot exactly when its line is a private       *)
(* executable library mapping.                                           *)
LibText(m) == m.shlib > 0 /\ "X" \in m.p_flags
LibLine(ln) == ln.path = "lib" /\ ln.perms \in ExecPerms

(* The slots get_maps has filled agree with their lines.                  *)
SelectionSoFar == \A k \in 0..(lc - 1) : LibText(maps[k]) <=> LibLine(lines[k + 1])

(* Where get_maps is: nothing read before the count, the count never more *)
(* than the lines, every line read once it is done.                       *)
Progress ==
  /\ lines \in Seq(LineChoices) /\ Len(lines) \in MinLines..MaxLines
  /\ mode \in TargetStates /\ pc \in {"count", "parse", "done"}
  /\ q \in [1..QLen -> Chars]
  /\ lc \in 0..Len(lines) /\ mapcount \in 0..Len(lines)
  /\ pc = "count" => lc = 0
  /\ pc = "done" => lc = Len(lines)

(* Where create_shlib_text_mappings is: it starts once get_maps is done, *)
(* reads at most one descriptor per slot it passed, and its index stays   *)
(* within the count.                                                      *)
Loop ==
  /\ stop_pending \in BOOLEAN /\ ver \in 0..MaxVer
  /\ step \in {"select", "read", "cont", "done"}
  /\ ret \in {0, NoRead, MapSize}
  /\ text_len \in [Slots -> {0, MapSize}]
  /\ image_ver \in [Slots -> {NoRead} \cup 0..MaxVer]
  /\ i4 \in 0..mapcount /\ fds \in Nat
  /\ pc # "done" => step = "select" /\ i4 = 0 /\ fds = 0
  /\ step \in {"read", "cont"} => i4 < mapcount
  /\ fds <= i4 + (IF step = "cont" THEN 1 ELSE 0)

(* Between two reads the target has been sent SIGCONT.                    *)
Resumed ==
  step \in {"select", "done"} /\ fds > 0 /\ mode # "dumping"
    => mode = "running" /\ ~stop_pending

(* While a text is being read, the slot at i4 is one the loop selected.  *)
Selected == step \in {"read", "cont"} => LibText(maps[i4])

SInv == MapsShape /\ SelectionSoFar /\ Progress /\ Loop /\ Resumed /\ Selected

-----------------------------------------------------------------------------
(* The length of a sequence within a bound lies in the range up to it.   *)
LEMMA LenInRange ==
  ASSUME NEW S, NEW s \in Seq(S), NEW b \in Nat, Len(s) <= b
  PROVE  Len(s) \in 0..b
<1>1. Len(s) \in Nat
  OBVIOUS
<1>2. PICK n \in Nat : n = Len(s)
  BY <1>1
<1>3. n \in 0..b
  BY <1>2
<1>. QED  BY <1>2, <1>3, Zenon

(* The classification chain keeps a slot's fields and its p_flags, and    *)
(* counts a library exactly for a library line that is not a guard page.  *)
LEMMA ClassifiedShape ==
  ASSUME NEW m, NEW ln \in Line, NEW k,
         DOMAIN m = DOMAIN Zero, m.shlib = 0
  PROVE  /\ DOMAIN Classified(m, ln, k) = DOMAIN Zero
         /\ Classified(m, ln, k).p_flags = m.p_flags
         /\ Classified(m, ln, k).shlib > 0 <=> ln.path = "lib" /\ ln.perms # "---p"
<1>. DEFINE m0 == [m EXCEPT !.elfmap = 0, !.base = Base(k)]
<1>1. /\ DOMAIN m0 = DOMAIN Zero /\ m0.p_flags = m.p_flags /\ m0.shlib = 0
  BY DEF Zero
<1>2. CASE ln.path = "exe"
  BY <1>1, <1>2 DEF Classified, Zero
<1>3. CASE ln.path \in {"heap", "stack", "tstack"}
  BY <1>1, <1>3 DEF Classified, Zero
<1>4. CASE ln.path \notin {"exe", "heap", "stack", "tstack"} /\ ln.perms = "---p"
  <2>1. Classified(m, ln, k) = [m0 EXCEPT !.padding = m0.padding + 1]
    BY <1>4, Zenon DEF Classified
  <2>2. /\ DOMAIN Classified(m, ln, k) = DOMAIN Zero
        /\ Classified(m, ln, k).p_flags = m.p_flags
        /\ Classified(m, ln, k).shlib = 0
    BY <1>1, <2>1, Zenon DEF Zero
  <2>. QED  BY <1>4, <2>2
<1>5. CASE ln.path \in {"vdso", "vsyscall"} /\ ln.perms # "---p"
  <2>1. \/ Classified(m, ln, k) = [m0 EXCEPT !.vdso = m0.vdso + 1]
        \/ Classified(m, ln, k) = [m0 EXCEPT !.vsyscall = m0.vsyscall + 1]
    BY <1>5, Zenon DEF Classified
  <2>2. /\ DOMAIN Classified(m, ln, k) = DOMAIN Zero
        /\ Classified(m, ln, k).p_flags = m.p_flags
        /\ Classified(m, ln, k).shlib = 0
    BY <1>1, <2>1, Zenon DEF Zero
  <2>. QED  BY <1>5, <2>2
<1>6. CASE ln.path = "lib" /\ ln.perms # "---p"
  <2>1. Classified(m, ln, k) = [m0 EXCEPT !.shlib = m0.shlib + 1, !.filename = TRUE]
    BY <1>6, Zenon DEF Classified
  <2>2. /\ DOMAIN Classified(m, ln, k) = DOMAIN Zero
        /\ Classified(m, ln, k).p_flags = m.p_flags
        /\ Classified(m, ln, k).shlib = 0 + 1
    BY <1>1, <2>1, Zenon DEF Zero
  <2>. QED  BY <1>6, <2>2
<1>7. CASE ln.path \in {"file", "anon"} /\ ln.perms # "---p"
  <2>1. \/ Classified(m, ln, k) = [m0 EXCEPT !.filemap = m0.filemap + 1, !.filename = TRUE]
        \/ Classified(m, ln, k) = [m0 EXCEPT !.anonmap_exe = m0.anonmap_exe + 1]
        \/ Classified(m, ln, k) = m0
    BY <1>7, Zenon DEF Classified
  <2>2. /\ DOMAIN Classified(m, ln, k) = DOMAIN Zero
        /\ Classified(m, ln, k).p_flags = m.p_flags
        /\ Classified(m, ln, k).shlib = 0
    BY <1>1, <2>1, Zenon DEF Zero
  <2>. QED  BY <1>7, <2>2
<1>. QED  BY <1>2, <1>3, <1>4, <1>5, <1>6, <1>7 DEF Line, Paths

(* The permission chain keeps every other field, and gives a slot PF_X    *)
(* exactly for an executable private mapping.                             *)
LEMMA PermissionsShape ==
  ASSUME NEW m, NEW pm \in Perms,
         DOMAIN m = DOMAIN Zero, m.p_flags = {}
  PROVE  /\ DOMAIN Permissions(m, pm) = DOMAIN Zero
         /\ Permissions(m, pm).shlib = m.shlib
         /\ Permissions(m, pm).p_flags \subseteq RWX
         /\ "X" \in Permissions(m, pm).p_flags <=> pm \in ExecPerms
<1>1. CASE pm \in DOMAIN FlagsOf
  BY <1>1 DEF Permissions, FlagsOf, Zero, RWX, ExecPerms
<1>2. CASE pm \notin DOMAIN FlagsOf
  BY <1>2 DEF Permissions, FlagsOf, Zero, RWX, ExecPerms, Perms
<1>. QED  BY <1>1, <1>2
(* The thread-stack write touches only thread_stack and stack_tid.        *)
LEMMA StackTidShape ==
  ASSUME NEW r, NEW a, NEW b, DOMAIN r = DOMAIN Zero
  PROVE  /\ DOMAIN [r EXCEPT !.thread_stack = a, !.stack_tid = b] = DOMAIN Zero
         /\ [r EXCEPT !.thread_stack = a, !.stack_tid = b].shlib = r.shlib
         /\ [r EXCEPT !.thread_stack = a, !.stack_tid = b].p_flags = r.p_flags
BY Zenon DEF Zero

(* One iteration of get_maps's loop fills slot lc with a record whose     *)
(* selection agrees with line lc + 1, leaves the selection of every other *)
(* slot alone (a thread stack's write included), and copies TID digits    *)
(* into q.                                                                *)
LEMMA ParseLineMaps ==
  ASSUME SInv, ParseLine
  PROVE  /\ DOMAIN maps' = Slots
         /\ \A k \in Slots : DOMAIN maps'[k] = DOMAIN Zero
         /\ \A k \in Slots \ {lc} : /\ maps'[k].shlib = maps[k].shlib
                                   /\ maps'[k].p_flags = maps[k].p_flags
         /\ maps'[lc].p_flags \subseteq RWX
         /\ LibText(maps'[lc]) <=> LibLine(lines[lc + 1])
         /\ q' \in [1..QLen -> Chars]
<1>. DEFINE ln == lines[lc + 1]
            i  == Len(ln.tid)
            q2 == [k \in 1..QLen |-> IF k <= i THEN ln.tid[k] ELSE q[k]]
            m1 == Permissions(Classified(maps[lc], ln, lc), ln.perms)
            mm == [maps EXCEPT ![lc] = m1]
<1>1. /\ ln \in LineChoices /\ ln \in Line /\ ln.perms \in Perms
      /\ lc \in Slots /\ i \in Slots /\ lc \in Nat
  <2>1. lc \in 0..(Len(lines) - 1) /\ lines \in Seq(LineChoices) /\ Len(lines) <= MaxLines
    BY DEF SInv, Progress, ParseLine
  <2>2. ln \in LineChoices
    BY <2>1
  <2>3. ln \in Line /\ Len(ln.tid) <= 4
    BY <2>2, LinesAssumption
  <2>4. ln.perms \in Perms
    BY <2>3 DEF Line
  <2>5. ln.tid \in Seq(0..9)
    BY <2>3 DEF Line
  <2>6. /\ (IF MaxLines > QLen THEN MaxLines ELSE QLen) \in Nat
        /\ Len(ln.tid) <= (IF MaxLines > QLen THEN MaxLines ELSE QLen)
    BY <2>2, LinesAssumption DEF QLen
  <2>7. i \in Slots
    BY <2>5, <2>6, LenInRange DEF Slots
  <2>8. PICK n \in 0..MaxLines : n = Len(lines)
    BY <2>1, LinesAssumption, LenInRange
  <2>9. lc \in Slots /\ lc \in Nat
    BY <2>1, <2>8, LinesAssumption DEF Slots, QLen
  <2>. QED  BY <2>2, <2>3, <2>4, <2>7, <2>9
<1>2. /\ DOMAIN maps[lc] = DOMAIN Zero
      /\ maps[lc].shlib = 0 /\ maps[lc].p_flags = {}
  BY <1>1 DEF SInv, MapsShape
<1>3. /\ DOMAIN m1 = DOMAIN Zero /\ m1.p_flags \subseteq RWX
      /\ LibText(m1) <=> LibLine(ln)
  <2>1. /\ DOMAIN Classified(maps[lc], ln, lc) = DOMAIN Zero
        /\ Classified(maps[lc], ln, lc).p_flags = {}
        /\ Classified(maps[lc], ln, lc).shlib > 0 <=> ln.path = "lib" /\ ln.perms # "---p"
    BY <1>1, <1>2, ClassifiedShape
  <2>2. /\ DOMAIN m1 = DOMAIN Zero
        /\ m1.shlib = Classified(maps[lc], ln, lc).shlib
        /\ m1.p_flags \subseteq RWX
        /\ "X" \in m1.p_flags <=> ln.perms \in ExecPerms
    BY <1>1, <2>1, PermissionsShape
  <2>. QED  BY <2>1, <2>2 DEF LibText, LibLine, ExecPerms
<1>4. /\ DOMAIN mm = Slots /\ mm[lc] = m1
      /\ \A k \in Slots \ {lc} : mm[k] = maps[k]
  BY <1>1 DEF SInv, MapsShape
<1>5. q' \in [1..QLen -> Chars]
  <2>1. \A k \in 1..i : ln.tid[k] \in 0..9
    BY <1>1 DEF Line
  <2>2. q2 \in [1..QLen -> Chars]
    BY <2>1 DEF SInv, Progress, Chars, NonDigit
  <2>. QED  BY <2>2 DEF SInv, Progress, ParseLine
<1>6. CASE ln.path = "tstack"
  <2>1. PICK r : r = [mm[i] EXCEPT !.thread_stack = @ + 1, !.stack_tid = Atoi(q2)]
    OBVIOUS
  <2>2. maps' = [mm EXCEPT ![i] = r]
    BY <1>6, <2>1, Zenon DEF ParseLine
  <2>3. DOMAIN r = DOMAIN Zero /\ r.shlib = mm[i].shlib /\ r.p_flags = mm[i].p_flags
    <3>1. DOMAIN mm[i] = DOMAIN Zero
      BY <1>1, <1>3, <1>4 DEF SInv, MapsShape
    <3>2. /\ DOMAIN [mm[i] EXCEPT !.thread_stack = @ + 1, !.stack_tid = Atoi(q2)] = DOMAIN Zero
          /\ [mm[i] EXCEPT !.thread_stack = @ + 1, !.stack_tid = Atoi(q2)].shlib = mm[i].shlib
          /\ [mm[i] EXCEPT !.thread_stack = @ + 1, !.stack_tid = Atoi(q2)].p_flags = mm[i].p_flags
      BY <3>1, StackTidShape
    <3>. QED  BY <2>1, <3>2, Zenon
  <2>. HIDE DEF mm, m1
  <2>4. DOMAIN maps' = Slots /\ \A k \in Slots : maps'[k] = IF k = i THEN r ELSE mm[k]
    BY <1>1, <1>4, <2>2
  <2>. QED  BY <1>1, <1>3, <1>4, <1>5, <2>3, <2>4 DEF SInv, MapsShape, LibText
<1>7. CASE ln.path # "tstack"
  <2>1. maps' = mm
    BY <1>7 DEF ParseLine
  <2>. HIDE DEF mm, m1
  <2>. QED  BY <1>1, <1>3, <1>4, <1>5, <2>1 DEF SInv, MapsShape
<1>. QED  BY <1>6, <1>7
-----------------------------------------------------------------------------
(* SInv holds in every initial state.                                    *)
LEMMA SInvInit == SInit => SInv
<1>. SUFFICES ASSUME SInit PROVE SInv
  OBVIOUS
<1>1. MapsShape
  BY DEF SInit, Init, MapsShape, Zero, RWX
<1>2. SelectionSoFar
  BY DEF SInit, Init, SelectionSoFar
<1>3. Progress
  <2>1. PICK n \in MinLines..MaxLines : lines \in [1..n -> LineChoices]
    BY DEF SInit, Init
  <2>2. lines \in Seq(LineChoices) /\ Len(lines) = n
    BY <2>1, LinesAssumption
  <2>. QED  BY <2>1, <2>2, LinesAssumption DEF SInit, Init, Progress, TargetStates
<1>4. Loop
  <2>1. text_len \in [Slots -> {0, MapSize}]
    BY DEF SInit
  <2>2. image_ver \in [Slots -> {NoRead} \cup 0..MaxVer]
    BY DEF SInit
  <2>3. MaxVer \in Nat
    BY SnapshotAssumption
  <2>5. stop_pending \in BOOLEAN /\ step \in {"select", "read", "cont", "done"}
    BY DEF SInit
  <2>6. ver \in 0..MaxVer
    BY <2>3 DEF SInit
  <2>7. ret \in {0, NoRead, MapSize}
    BY DEF SInit
  <2>4. i4 \in 0..mapcount /\ fds \in Nat /\ i4 = 0 /\ fds = 0 /\ step = "select"
    BY DEF SInit, Init
  <2>. QED  BY <2>1, <2>2, <2>4, <2>5, <2>6, <2>7 DEF Loop
<1>5. Resumed /\ Selected
  BY DEF SInit, Resumed, Selected
<1>. QED  BY <1>1, <1>2, <1>3, <1>4, <1>5 DEF SInv
(* get_map_count sizes the array by the lines the file has now.          *)
LEMMA GetMapCountInv ==
  ASSUME SInv, GetMapCount, UNCHANGED pmvars
  PROVE  SInv'
<1>1. PICK n \in MinLines..MaxLines : n = Len(lines)
  BY LinesAssumption DEF SInv, Progress
<1>2. MapsShape' /\ SelectionSoFar' /\ Resumed' /\ Selected'
  BY DEF SInv, GetMapCount, MapsShape, SelectionSoFar, Resumed, Selected, Loop, pmvars
<1>3. Progress'
  BY <1>1, LinesAssumption DEF SInv, GetMapCount, Progress
<1>4. Loop'
  BY <1>1, LinesAssumption DEF SInv, GetMapCount, Loop, pmvars, Progress
<1>. QED  BY <1>2, <1>3, <1>4 DEF SInv

(* One line read: its slot joins the selection that agrees with the lines. *)
LEMMA ParseLineInv ==
  ASSUME SInv, ParseLine, UNCHANGED pmvars
  PROVE  SInv'
<1>1. /\ DOMAIN maps' = Slots
      /\ \A k \in Slots : DOMAIN maps'[k] = DOMAIN Zero
      /\ \A k \in Slots \ {lc} : /\ maps'[k].shlib = maps[k].shlib
                                /\ maps'[k].p_flags = maps[k].p_flags
      /\ maps'[lc].p_flags \subseteq RWX
      /\ LibText(maps'[lc]) <=> LibLine(lines[lc + 1])
      /\ q' \in [1..QLen -> Chars]
  BY ParseLineMaps
<1>2. /\ lc' = lc + 1 /\ lc < Len(lines) /\ pc = "parse"
      /\ UNCHANGED <<mode, lines, mapcount, pc>>
  BY Zenon DEF ParseLine
<1>3. lc \in Nat
  BY DEF SInv, Progress
<1>4. MapsShape'
  BY <1>1, <1>2, <1>3, SMTT(30) DEF SInv, MapsShape
<1>5. SelectionSoFar'
  <2>. SUFFICES ASSUME NEW k \in 0..lc
                PROVE  LibText(maps'[k]) <=> LibLine(lines[k + 1])
    BY <1>2, <1>3 DEF SelectionSoFar
  <2>1. CASE k = lc
    BY <1>1, <1>2, <2>1
  <2>2. CASE k # lc
    <3>1. k \in Slots \ {lc} /\ k \in 0..(lc - 1)
      <4>1. PICK n \in MinLines..MaxLines : n = Len(lines)
        BY LinesAssumption DEF SInv, Progress
      <4>. QED  BY <1>2, <1>3, <2>2, <4>1, LinesAssumption DEF Slots, QLen
    <3>. QED  BY <1>1, <1>2, <3>1 DEF SInv, SelectionSoFar, LibText
  <2>. QED  BY <2>1, <2>2
<1>6. Progress'
  BY <1>1, <1>2, <1>3 DEF SInv, Progress
<1>7. Loop' /\ Resumed' /\ Selected'
  BY <1>2 DEF SInv, Loop, Resumed, Selected, pmvars
<1>. QED  BY <1>4, <1>5, <1>6, <1>7 DEF SInv

(* fgets returns NULL once every line has been read.                      *)
LEMMA MapsDoneInv ==
  ASSUME SInv, MapsDone, UNCHANGED pmvars
  PROVE  SInv'
BY DEF SInv, MapsDone, MapsShape, SelectionSoFar, Progress, Loop, Resumed, Selected, pmvars

(* A running target appends a line while get_maps is still reading: the   *)
(* lines already read keep their places.                                  *)
LEMMA TargetMapsInv ==
  ASSUME SInv, TargetMaps, UNCHANGED pmvars
  PROVE  SInv'
<1>1. PICK ln \in LineChoices : lines' = Append(lines, ln)
  BY DEF TargetMaps
<1>2. /\ lines' \in Seq(LineChoices) /\ Len(lines') = Len(lines) + 1
      /\ \A k \in 1..Len(lines) : lines'[k] = lines[k]
  BY <1>1 DEF SInv, Progress
<1>3. UNCHANGED <<mode, mapcount, maps, lc, q, pc>> /\ pc # "done" /\ Len(lines) < MaxLines
  BY DEF TargetMaps
<1>4. MapsShape' /\ Loop' /\ Resumed' /\ Selected'
  BY <1>3 DEF SInv, MapsShape, Loop, Resumed, Selected, pmvars
<1>5. SelectionSoFar'
  BY <1>2, <1>3 DEF SInv, SelectionSoFar, Progress
<1>6. Progress'
  <2>1. PICK n \in MinLines..MaxLines : n = Len(lines)
    BY LinesAssumption DEF SInv, Progress
  <2>2. n < MaxLines /\ Len(lines') = n + 1
    BY <1>2, <1>3, <2>1
  <2>. QED  BY <1>2, <1>3, <2>1, <2>2, LinesAssumption DEF SInv, Progress
<1>. QED  BY <1>4, <1>5, <1>6 DEF SInv
(* A step of create_shlib_text_mappings's loop, or of the target, leaves   *)
(* what get_maps built alone, keeps the loop within its count, and lets    *)
(* the target be stopped only between SIGSTOP and SIGCONT.                 *)
LEMMA S4Inv ==
  ASSUME SInv,
         \/ SkipSlot \/ SendStop \/ ReadPmem \/ SendCont \/ ShlibTextsDone
         \/ TargetStops \/ TargetWrites
  PROVE  SInv'
<1>1. UNCHANGED <<lines, mapcount, maps, lc, q, pc>>
  BY DEF SkipSlot, SendStop, ReadPmem, SendCont, ShlibTextsDone, TargetStops,
         TargetWrites, vars
<1>2. mode' \in TargetStates
  BY DEF SInv, Progress, TargetStates, SkipSlot, SendStop, ReadPmem, SendCont,
         ShlibTextsDone, TargetStops, TargetWrites, vars, AfterStop, AfterCont
<1>3. MapsShape' /\ SelectionSoFar' /\ Progress'
  BY <1>1, <1>2 DEF SInv, MapsShape, SelectionSoFar, Progress
<1>4. MaxVer \in Nat
  BY SnapshotAssumption
<1>6. mapcount \in Nat /\ i4 \in Nat /\ mode \in TargetStates
  <2>1. PICK n \in MinLines..MaxLines : n = Len(lines)
    BY LinesAssumption DEF SInv, Progress
  <2>. QED  BY <2>1, LinesAssumption DEF SInv, Progress, Loop
<1>5. Loop' /\ Resumed'
  <2>1. CASE SkipSlot
    <3>1. Loop'
      BY <1>6, <2>1, SMTT(30) DEF SInv, Loop, SkipSlot, vars
    <3>2. Resumed'
      BY <2>1, SMTT(30) DEF SInv, Resumed, SkipSlot, vars
    <3>. QED  BY <3>1, <3>2
  <2>2. CASE SendStop
    BY <2>2 DEF SInv, Loop, Resumed, SendStop, AfterStop
  <2>3. CASE ReadPmem
    <3>1. PICK n \in MinLines..MaxLines : n = Len(lines)
      BY LinesAssumption DEF SInv, Progress
    <3>2. pc = "done" /\ i4 < mapcount /\ i4 \in Slots
      BY <2>3, <3>1, LinesAssumption DEF SInv, Loop, Progress, ReadPmem, Slots, QLen
    <3>. QED  BY <2>3, <3>2 DEF SInv, Loop, Resumed, ReadPmem, vars, NoRead, MapSize
  <2>4. CASE SendCont
    <3>1. pc = "done" /\ i4 < mapcount
      BY <2>4 DEF SInv, Loop, SendCont
    <3>2. text_len' \in [Slots -> {0, MapSize}]
      <4>1. CASE ret >= 0
        <5>1. ret \in {0, MapSize} /\ text_len \in [Slots -> {0, MapSize}]
          BY <4>1 DEF SInv, Loop, NoRead, MapSize
        <5>. QED  BY <2>4, <4>1, <5>1 DEF SendCont
      <4>2. CASE ~(ret >= 0)
        BY <2>4, <4>2 DEF SInv, Loop, SendCont
      <4>. QED  BY <4>1, <4>2
    <3>4. Loop'
      <4>1. /\ i4' = i4 + 1 /\ mapcount' = mapcount /\ fds' = fds /\ step' = "select"
            /\ pc' = pc /\ stop_pending' = FALSE
            /\ UNCHANGED <<ver, ret, image_ver>>
        BY <2>4 DEF SendCont
      <4>2. i4' \in 0..mapcount' /\ fds' \in Nat /\ fds' <= i4'
        BY <1>6, <2>4, <3>1, <4>1 DEF SInv, Loop
      <4>3. fds' <= i4' + (IF step' = "cont" THEN 1 ELSE 0)
        BY <4>1, <4>2
      <4>. QED  BY <3>1, <3>2, <4>1, <4>2, <4>3, Zenon DEF SInv, Loop
    <3>3. Resumed'
      BY <1>6, <2>4, SMTT(30) DEF SInv, Resumed, SendCont, AfterCont, TargetStates
    <3>. QED  BY <3>3, <3>4
  <2>5. CASE ShlibTextsDone
    BY <2>5 DEF SInv, Loop, Resumed, ShlibTextsDone, vars
  <2>6. CASE TargetStops
    BY <2>6 DEF SInv, Loop, Resumed, TargetStops
  <2>7. CASE TargetWrites
    BY <1>4, <2>7 DEF SInv, Loop, Resumed, TargetWrites, vars
  <2>. QED  BY <2>1, <2>2, <2>3, <2>4, <2>5, <2>6, <2>7
<1>7. Selected'
  <2>1. CASE SendStop
    BY <2>1 DEF SendStop, Selected, LibText
  <2>2. CASE ReadPmem
    BY <2>2 DEF SInv, Selected, ReadPmem, vars
  <2>3. CASE SkipSlot \/ SendCont \/ ShlibTextsDone
    BY <2>3 DEF SkipSlot, SendCont, ShlibTextsDone, Selected
  <2>4. CASE TargetStops \/ TargetWrites
    BY <2>4 DEF SInv, Selected, TargetStops, TargetWrites, vars
  <2>. QED  BY <2>1, <2>2, <2>3, <2>4
<1>. QED  BY <1>3, <1>5, <1>7 DEF SInv
(* Every step of SSpec, of the pipeline or of the target, preserves SInv. *)
LEMMA SInvStep == SInv /\ [SNext]_allvars => SInv'
<1>. SUFFICES ASSUME SInv, [SNext]_allvars PROVE SInv'
  OBVIOUS
<1>1. CASE S1Step
  BY <1>1, GetMapCountInv, ParseLineInv, MapsDoneInv DEF S1Step
<1>2. CASE S1Target
  BY <1>2, TargetMapsInv DEF S1Target
<1>3. CASE \/ SkipSlot \/ SendStop \/ ReadPmem \/ SendCont \/ ShlibTextsDone
           \/ TargetStops \/ TargetWrites
  BY <1>3, S4Inv
<1>4. CASE UNCHANGED allvars
  BY <1>4 DEF SInv, MapsShape, SelectionSoFar, Progress, Loop, Resumed, Selected,
              allvars, vars, pmvars
<1>. QED  BY <1>1, <1>2, <1>3, <1>4 DEF SNext, PipelineStep

(* SInv holds in every state of every behaviour of SSpec.                 *)
THEOREM SInvInvariant == SSpec => []SInv
BY SInvInit, SInvStep, PTL DEF SSpec

-----------------------------------------------------------------------------
(* Type correctness of get_maps and create_shlib_text_mappings together:  *)
(* the counters stay within the file's bound and read_pmem opens at most   *)
(* one descriptor per slot of the array, whatever the target does.         *)
THEOREM STypeCorrect == SSpec => []STypeOK
<1>1. SInv => STypeOK
  <2>. SUFFICES ASSUME SInv PROVE STypeOK
    OBVIOUS
  <2>1. PICK n \in MinLines..MaxLines : n = Len(lines)
    BY LinesAssumption DEF SInv, Progress
  <2>2. mapcount <= MaxLines /\ lc \in 0..MaxLines /\ i4 \in 0..MaxLines
    BY <2>1, LinesAssumption DEF SInv, Progress, Loop
  <2>3. fds \in 0..MaxLines
    BY <2>1, <2>2, LinesAssumption DEF SInv, Progress, Loop
  <2>4. TypeOK
    BY <2>1, <2>2, LinesAssumption DEF SInv, Progress, MapsShape, TypeOK, RWX
  <2>. QED  BY <2>2, <2>3, <2>4 DEF SInv, Loop, STypeOK
<1>. QED  BY <1>1, SInvInvariant, PTL

(* The slots create_shlib_text_mappings reads as library texts are exactly *)
(* the private executable library lines of the file it counted, for every *)
(* file, every array bound and every target.                              *)
THEOREM LibTextSelectionInvariant == SSpec => []LibTextSelection
<1>1. SInv => LibTextSelection
  <2>. SUFFICES ASSUME SInv, pc = "done"
                PROVE  {k \in 0..mapcount - 1 : maps[k].shlib > 0 /\ "X" \in maps[k].p_flags} =
                       {k \in 0..mapcount - 1 : lines[k + 1].path = "lib" /\
                                                lines[k + 1].perms \in ExecPerms}
    BY DEF LibTextSelection
  <2>1. PICK n \in MinLines..MaxLines : n = Len(lines)
    BY LinesAssumption DEF SInv, Progress
  <2>2. \A k \in 0..mapcount - 1 : k \in 0..lc - 1
    BY <2>1, LinesAssumption DEF SInv, Progress
  <2>. QED  BY <2>2 DEF SInv, SelectionSoFar, LibText, LibLine
<1>. QED  BY <1>1, SInvInvariant, PTL

(* Once create_shlib_text_mappings returns, a target it signalled is      *)
(* running with no SIGSTOP queued.                                        *)
THEOREM S4LeavesRunningInvariant == SSpec => []S4LeavesRunning
<1>1. SInv => S4LeavesRunning
  BY DEF SInv, Resumed, S4LeavesRunning
<1>. QED  BY <1>1, SInvInvariant, PTL
(* create_shlib_text_mappings reads and stores a text only for a slot     *)
(* among the counted mappings whose line is a private executable library  *)
(* mapping: the step that does it is at the slot the loop selected, and   *)
(* the selection agrees with the lines.                                   *)
THEOREM TextsOnlyForLibLinesProp == SSpec => TextsOnlyForLibLines
<1>1. SInv /\ [SNext]_allvars =>
        [\A k \in Slots :
           text_len'[k] # text_len[k] \/ image_ver'[k] # image_ver[k] =>
             k < mapcount /\ lines[k + 1].path = "lib" /\ lines[k + 1].perms \in ExecPerms]_allvars
  <2>. SUFFICES ASSUME SInv, [SNext]_allvars,
                       NEW k \in Slots, text_len'[k] # text_len[k] \/ image_ver'[k] # image_ver[k]
                PROVE  k < mapcount /\ lines[k + 1].path = "lib" /\ lines[k + 1].perms \in ExecPerms
    OBVIOUS
  <2>1. k = i4 /\ step \in {"read", "cont"}
    <3>1. CASE ReadPmem
      BY <3>1 DEF ReadPmem, vars
    <3>2. CASE SendCont
      BY <3>2 DEF SendCont
    <3>3. CASE ~ReadPmem /\ ~SendCont
      <4>1. UNCHANGED <<text_len, image_ver>>
        BY <3>3 DEF SNext, PipelineStep, S1Step, S1Target, SkipSlot, SendStop,
                    ShlibTextsDone, TargetStops, TargetWrites, allvars, pmvars
      <4>. QED  BY <4>1
    <3>. QED  BY <3>1, <3>2, <3>3
  <2>2. pc = "done" /\ i4 < mapcount /\ LibText(maps[i4]) /\ i4 \in Nat
    BY <2>1 DEF SInv, Loop, Selected
  <2>3. i4 \in 0..(lc - 1)
    <3>1. PICK n \in MinLines..MaxLines : n = Len(lines)
      BY LinesAssumption DEF SInv, Progress
    <3>. QED  BY <2>2, <3>1 DEF SInv, Progress
  <2>. QED  BY <2>1, <2>2, <2>3 DEF SInv, SelectionSoFar, LibLine
<1>. QED  BY <1>1, SInvInvariant, PTL DEF TextsOnlyForLibLines, SSpec
=============================================================================
