------------------------------ MODULE Snapshot ------------------------------
(***************************************************************************)
(* Stages S1 and S4 on one target: get_maps (ProcMaps) classifies the     *)
(* mappings, then create_shlib_text_mappings reads the text of every       *)
(* executable library mapping through get_segment_from_pmem, which         *)
(* brackets each read with SIGSTOP and SIGCONT, and read_pmem, which opens *)
(* /proc/pid/mem for every read.                                           *)
(*                                                                         *)
(* The target is an actor of its own.  Frozen in a core dump ("dumping")   *)
(* it ignores both signals.  Otherwise SIGSTOP is only queued: a running   *)
(* target stops when it next takes it, and SIGCONT resumes a stopped one   *)
(* and discards a queued stop.  A running target writes its memory; ver    *)
(* counts those writes, and a read captures the ver it saw.               *)
(***************************************************************************)
EXTENDS ProcMaps

CONSTANTS
  MaxVer,     \* most memory writes of a running target
  ReadFails   \* whether a pread can come back short: subset of BOOLEAN

ASSUME SnapshotAssumption == MaxVer \in Nat /\ ReadFails \subseteq BOOLEAN

VARIABLES
  stop_pending,  \* a SIGSTOP the target has not taken yet
  ver,           \* writes the target made to its memory
  i4,            \* create_shlib_text_mappings's loop index
  step,          \* where that loop is: "select", "stop", "read", "cont", "done"
  ret,           \* read_pmem's result for the current mapping
  text_len,      \* maps[k].text_len
  image_ver,     \* the memory version maps[k].text_image was read at
  fds            \* descriptors read_pmem opened and never closed

pmvars == <<stop_pending, ver, i4, step, ret, text_len, image_ver, fds>>
allvars == <<vars, pmvars>>

NoRead == 0 - 1
MapSize == 1   \* maps[k].size: a whole mapping

(* deliver_signal(pid, SIGSTOP) and deliver_signal(pid, SIGCONT), as the  *)
(* kernel applies them to the target's state.                             *)
AfterStop(md) == IF md = "running" THEN <<md, TRUE>> ELSE <<md, FALSE>>
AfterCont(md) == IF md = "stopped" THEN "running" ELSE md

SInit ==
  /\ Init
  /\ stop_pending = FALSE /\ ver = 0
  /\ i4 = 0 /\ step = "select" /\ ret = 0
  /\ text_len = [k \in Slots |-> 0]
  /\ image_ver = [k \in Slots |-> NoRead]
  /\ fds = 0

(* S1: a step of get_map_count or get_maps, or the target mapping more.    *)
S1Step == (GetMapCount \/ ParseLine \/ MapsDone) /\ UNCHANGED pmvars
S1Target == TargetMaps /\ UNCHANGED pmvars

SkipSlot ==
  /\ pc = "done" /\ step = "select" /\ i4 < mapcount
  /\ ~(maps[i4].shlib > 0 /\ "X" \in maps[i4].p_flags)
  /\ i4' = i4 + 1
  /\ UNCHANGED <<vars, stop_pending, ver, step, ret, text_len, image_ver, fds>>

(* A loop that drops its PF_X continue and reads every library slot.      *)
SendStopNoExecCheck ==
  /\ pc = "done" /\ step = "select" /\ i4 < mapcount
  /\ maps[i4].shlib > 0
  /\ mode' = AfterStop(mode)[1] /\ stop_pending' = AfterStop(mode)[2]
  /\ step' = "read"
  /\ UNCHANGED <<lines, mapcount, maps, lc, q, pc, ver, i4, ret, text_len, image_ver, fds>>

(* get_segment_from_pmem finds the mapping holding maps[i].base (the same *)
(* slot: no two mappings overlap), allocates the buffer and sends SIGSTOP. *)
SendStop ==
  /\ pc = "done" /\ step = "select" /\ i4 < mapcount
  /\ maps[i4].shlib > 0 /\ "X" \in maps[i4].p_flags
  /\ mode' = AfterStop(mode)[1] /\ stop_pending' = AfterStop(mode)[2]
  /\ step' = "read"
  /\ UNCHANGED <<lines, mapcount, maps, lc, q, pc, ver, i4, ret, text_len, image_ver, fds>>

(* read_pmem: open /proc/pid/mem (never closed) and pread the mapping; a  *)
(* short read returns -1.                                                  *)
ReadPmem ==
  /\ step = "read"
  /\ \E short \in ReadFails :
       /\ ret' = IF short THEN NoRead ELSE MapSize
       /\ image_ver' = [image_ver EXCEPT ![i4] = ver]
  /\ fds' = fds + 1
  /\ step' = "cont"
  /\ UNCHANGED <<vars, stop_pending, ver, i4, text_len>>

(* A loop that stores read_pmem's -1 as the text length.                 *)
SendContNoCheck ==
  /\ step = "cont"
  /\ mode' = AfterCont(mode) /\ stop_pending' = FALSE
  /\ text_len' = [text_len EXCEPT ![i4] = ret]
  /\ i4' = i4 + 1
  /\ step' = "select"
  /\ UNCHANGED <<lines, mapcount, maps, lc, q, pc, ver, ret, image_ver, fds>>

(* A get_segment_from_pmem that resumes the target only after a good read. *)
SendContOnSuccess ==
  /\ step = "cont"
  /\ mode' = IF ret >= 0 THEN AfterCont(mode) ELSE mode
  /\ stop_pending' = IF ret >= 0 THEN FALSE ELSE stop_pending
  /\ text_len' = IF ret >= 0 THEN [text_len EXCEPT ![i4] = ret] ELSE text_len
  /\ i4' = i4 + 1
  /\ step' = "select"
  /\ UNCHANGED <<lines, mapcount, maps, lc, q, pc, ver, ret, image_ver, fds>>

(* SIGCONT, then back in create_shlib_text_mappings: a failed read is     *)
(* logged and skipped, a good one sets text_len.                           *)
SendCont ==
  /\ step = "cont"
  /\ mode' = AfterCont(mode) /\ stop_pending' = FALSE
  /\ text_len' = IF ret >= 0 THEN [text_len EXCEPT ![i4] = ret] ELSE text_len
  /\ i4' = i4 + 1
  /\ step' = "select"
  /\ UNCHANGED <<lines, mapcount, maps, lc, q, pc, ver, ret, image_ver, fds>>

ShlibTextsDone ==
  /\ pc = "done" /\ step = "select" /\ i4 >= mapcount
  /\ step' = "done"
  /\ UNCHANGED <<vars, stop_pending, ver, i4, ret, text_len, image_ver, fds>>

(* The target takes a queued SIGSTOP.                                      *)
TargetStops ==
  /\ mode = "running" /\ stop_pending
  /\ mode' = "stopped" /\ stop_pending' = FALSE
  /\ UNCHANGED <<lines, mapcount, maps, lc, q, pc, ver, i4, step, ret, text_len, image_ver, fds>>

(* A running target writes its memory.                                     *)
TargetWrites ==
  /\ mode = "running" /\ ver < MaxVer
  /\ ver' = ver + 1
  /\ UNCHANGED <<vars, stop_pending, i4, step, ret, text_len, image_ver, fds>>

PipelineStep == S1Step \/ SkipSlot \/ SendStop \/ ReadPmem \/ SendCont \/ ShlibTextsDone

SNext == PipelineStep \/ S1Target \/ TargetStops \/ TargetWrites

(* The pipeline is one thread that never blocks between these steps, and  *)
(* the kernel delivers a queued stop: both are weakly fair.               *)
SSpec == SInit /\ [][SNext]_allvars /\ WF_allvars(PipelineStep) /\ WF_allvars(TargetStops)

-----------------------------------------------------------------------------
STypeOK ==
  /\ TypeOK
  /\ stop_pending \in BOOLEAN /\ ver \in 0..MaxVer
  /\ i4 \in 0..MaxLines /\ step \in {"select", "read", "cont", "done"}
  /\ text_len \in [Slots -> {0, MapSize}]
  /\ image_ver \in [Slots -> {NoRead} \cup 0..MaxVer]
  /\ fds \in 0..MaxLines

(* Spec 5: continue is issued even on error paths, so a target S4 has     *)
(* signalled is never left stopped, nor with a stop still queued, once    *)
(* create_shlib_text_mappings returns; this rests on SIGCONT discarding a *)
(* SIGSTOP the target has not taken yet.                                  *)
S4LeavesRunning ==
  step = "done" /\ fds > 0 /\ mode # "dumping" => mode = "running" /\ ~stop_pending

(* create_shlib_text_mappings reads a text (image_ver) and stores its     *)
(* length (text_len) only for a slot among the counted mappings whose line *)
(* is a private executable library mapping: no step reads or stores the   *)
(* text of any other slot.                                                *)
TextsOnlyForLibLines ==
  [][\A k \in Slots :
       text_len'[k] # text_len[k] \/ image_ver'[k] # image_ver[k] =>
         k < mapcount /\ lines[k + 1].path = "lib" /\ lines[k + 1].perms \in ExecPerms]_allvars

ImagesFromSnapshot == \A k \in Slots : image_ver[k] \in {NoRead, 0}
=============================================================================
