---------------------------- MODULE MCSnapshot ----------------------------
(* Model-checking instance of Snapshot: two or three lines drawn from    *)
(* the executable's text and data, a library's text, data and guard      *)
(* page, a read-only file mapping, the heap and a thread stack (two       *)
(* library texts possible), a target in any of its three states that can *)
(* write its memory twice, and reads that may come back short.           *)
EXTENDS Snapshot

L(p, pm) == [path |-> p, perms |-> pm, tid |-> <<>>]

MCLineChoices ==
  { L("exe", "r-xp"), L("exe", "rw-p"), L("lib", "r-xp"), L("lib", "rw-p"),
    L("lib", "---p"), L("file", "r--p"), L("heap", "rw-p"),
    [path |-> "tstack", perms |-> "rw-p", tid |-> <<7>>] }
MCQInit == {NonDigit}
=============================================================================
