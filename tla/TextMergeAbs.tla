---------------------------- MODULE TextMergeAbs ----------------------------
(***************************************************************************)
(* What the text-merge pass promises, seen through the PT_LOAD headers    *)
(* only (spec 4.7 and 8.1): view[s] is what header s exposes of the file, *)
(* the pages of segment s in order, and memsz[s] its p_memsz.  The dump    *)
(* appends a segment with any prefix of its pages; a merge gives one       *)
(* segment all of its pages and leaves what every other header exposes    *)
(* as it was.                                                              *)
(***************************************************************************)
EXTENDS Naturals, Sequences

CONSTANTS NSeg, MaxPages

VARIABLES view, memsz

avars == <<view, memsz>>

Pages(s, n) == [k \in 1..n |-> <<s, k - 1>>]

Init == view = <<>> /\ memsz = <<>>

(* A segment is dumped with its first filesz pages.                       *)
Dump ==
  /\ Len(view) < NSeg
  /\ \E m \in 1..MaxPages, f \in 0..MaxPages :
       /\ f <= m
       /\ view' = Append(view, Pages(Len(view) + 1, f))
       /\ memsz' = Append(memsz, m)

(* The text of segment t is merged in full.                               *)
Merge ==
  /\ Len(view) = NSeg
  /\ \E t \in 1..NSeg :
       /\ view' = [view EXCEPT ![t] = Pages(t, memsz[t])]
       /\ UNCHANGED memsz

Next == Dump \/ Merge

Spec == Init /\ [][Next]_avars
=============================================================================
