---------------------------- MODULE MCProcMaps ----------------------------
(* Model-checking instance of ProcMaps: two or three lines drawn from    *)
(* those a dynamically linked, threaded process shows (its text and data *)
(* mappings, a library's text, data and guard page, heap, two thread     *)
(* stacks whose TIDs have two digits and one digit, and an executable    *)
(* anonymous region), and q's bytes uninitialised: a non-digit or a      *)
(* digit.                                                                 *)
EXTENDS ProcMaps

L(p, pm) == [path |-> p, perms |-> pm, tid |-> <<>>]
TStack(t) == [path |-> "tstack", perms |-> "rw-p", tid |-> t]

MCLineChoices ==
  { L("exe", "r-xp"), L("exe", "rw-p"), L("lib", "r-xp"), L("lib", "rw-p"),
    L("lib", "---p"), L("heap", "rw-p"), L("anon", "rwxp"),
    TStack(<<4, 2>>), TStack(<<7>>) }

MCQInit == {NonDigit, 5}
=============================================================================
