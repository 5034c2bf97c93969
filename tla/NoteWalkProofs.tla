--------------------------- MODULE NoteWalkProofs ---------------------------
(***************************************************************************)
(* Proofs about the note walk of parse_notes_area.                        *)
(*                                                                         *)
(* The walk decodes the region one entry at a time: after k iterations    *)
(* inside the region, the pointer is at the k-th entry boundary and the    *)
(* notedesc holds what the first k entries say.  The byte count i never   *)
(* runs ahead of the pointer (its step LongSize + n_namesz + n_descsz,    *)
(* rounded, is shorter than the 12-byte header and the two padded         *)
(* fields), so the loop cannot stop before every entry was decoded.  What *)
(* it decodes after the region is whatever the bytes there spell; when    *)
(* they spell no note type the walk recognises, the notedesc is left as   *)
(* the region made it.                                                     *)
(***************************************************************************)
EXTENDS NoteWalk, FiniteSetTheorems, SequenceTheorems, WellFoundedInduction, TLAPS

(* The bytes after the PT_NOTE region spell no note type parse_notes_area *)
(* recognises: the kernel puts the first dumped page there, which starts   *)
(* with an ELF header (n_type would be bytes 8..11 of e_ident, zero).      *)
BeyondIgnored == \A h \in Beyond : h.n_type = "OTHER"

(* Every NT_FILE header the walk can read lists ranges that end at or     *)
(* after their start: the kernel writes each vma's vm_start <= vm_end, and *)
(* the bytes after the region matter only where they spell NT_FILE.        *)
RangesOrdered ==
  \A h \in NoteChoices \cup Beyond :
    h.n_type = "FILE" => \A r \in 1..Len(h.files) : h.files[r].start <= h.files[r].end

(* The decoding of the first k entries, as Expected decodes a region.     *)
ValidK(k, t) == {j \in 1..k : notes[j].n_type = t /\ SizeOK(notes[j])}
LastPosK(k, t) ==
  IF ValidK(k, t) = {} THEN NoPos ELSE StartOf(notes)[LastOf(ValidK(k, t)) - 1]
ExpectedK(k) ==
  [threads |-> [j \in 1..Cardinality(ValidK(k, "PRSTATUS")) |->
                  StartOf(notes)[NthOf(ValidK(k, "PRSTATUS"), j) - 1]],
   psinfo |-> LastPosK(k, "PRPSINFO"),
   siginfo |-> LastPosK(k, "SIGINFO"),
   auxv |-> LastPosK(k, "AUXV"),
   auxv_size |-> IF ValidK(k, "AUXV") = {} THEN 0
                 ELSE notes[LastOf(ValidK(k, "AUXV"))].n_descsz,
   nt_files |-> IF ValidK(k, "FILE") = {} THEN <<>>
                ELSE <<ParseNtFiles(notes[LastOf(ValidK(k, "FILE"))])>>,
   fpu |-> LastPosK(k, "FPREGSET")]

(* The rank of x in V, and: NthOf picks, for each rank, its element.      *)
Rank(V, x) == Cardinality({y \in V : y <= x})
Ranked(V) ==
  \A j \in 1..Cardinality(V) : NthOf(V, j) \in V /\ Rank(V, NthOf(V, j)) = j

WalkTypeOK ==
  /\ notes \in Seq(NoteChoices) /\ Len(notes) \in 1..MaxNotes
  /\ pad \in Pads /\ i \in Nat /\ pos \in Nat /\ done \in BOOLEAN

(* The pointer at the k-th entry boundary, with the first k decoded.      *)
Walked(k) ==
  /\ pos = StartOf(notes)[k]
  /\ notedesc = ExpectedK(k)
  /\ Ranked(ValidK(k, "PRSTATUS"))

IInv ==
  /\ WalkTypeOK
  /\ i <= pos
  /\ done => NoteSize <= i
  /\ \/ \E k \in 0..Len(notes) - 1 : Walked(k)
     \/ NoteSize <= pos /\ notedesc = ExpectedK(Len(notes))
-----------------------------------------------------------------------------
(* Every non-empty set of naturals has a least element.                   *)
LEMMA NatMin ==
  ASSUME NEW T \in SUBSET Nat, T # {}
  PROVE  \E m \in T : \A y \in T : m <= y
<1>1. \E m \in T : \A y \in T : ~(<<y, m>> \in OpToRel(<, Nat))
  BY NatLessThanWellFounded, WFMin
<1>2. OpToRel(<, Nat) = {ss \in Nat \X Nat : ss[1] < ss[2]}
  BY Zenon DEF OpToRel
<1>3. PICK m \in T : \A y \in T : ~(<<y, m>> \in OpToRel(<, Nat))
  BY <1>1
<1>4. \A y \in T : ~(y < m)
  BY <1>2, <1>3
<1> QED BY <1>4

(* Induction over the naturals, for the set of those that have a property:*)
(* the provers instantiate a set where they cannot instantiate a          *)
(* predicate.                                                              *)
LEMMA NatSetInduction ==
  ASSUME NEW S \in SUBSET Nat, 0 \in S, \A n \in S : n + 1 \in S
  PROVE  Nat \subseteq S
<1> SUFFICES ASSUME Nat \ S # {} PROVE FALSE
  OBVIOUS
<1>1. PICK m \in Nat \ S : \A y \in Nat \ S : m <= y
  BY NatMin
<1>2. m # 0 /\ m - 1 \in Nat
  OBVIOUS
<1>3. m - 1 \in S
  BY <1>1, <1>2
<1> QED BY <1>1, <1>3

(* An entry's size in the file is a natural of at least the 12-byte       *)
(* header, and the loop's step for it is no longer than that size.        *)
LEMMA EntrySizes ==
  ASSUME NEW h \in Note
  PROVE  /\ EntryBytes(h) \in Nat /\ 12 <= EntryBytes(h)
         /\ StepLen(h) \in Nat /\ StepLen(h) <= EntryBytes(h)
<1>1. h.n_namesz \in Nat /\ h.n_descsz \in Nat
  BY DEF Note
<1>2. LongSize \in {4, 8}
  BY LongSizeAssumption
<1>3. /\ Align4(h.n_namesz) \in Nat /\ h.n_namesz <= Align4(h.n_namesz)
      /\ Align4(h.n_descsz) \in Nat /\ h.n_descsz <= Align4(h.n_descsz)
  BY <1>1 DEF Align4
<1>4. /\ StepLen(h) \in Nat
      /\ StepLen(h) <= h.n_descsz + h.n_namesz + LongSize + 3
  BY <1>1, <1>2 DEF StepLen
<1> QED
  BY <1>1, <1>2, <1>3, <1>4 DEF EntryBytes

(* StartOf(ns) is the function its recursive definition describes: 0 at  *)
(* the first entry, and each entry's offset plus its size at the next.    *)
LEMMA StartOfDef ==
  ASSUME NEW ns \in Seq(Note)
  PROVE  /\ StartOf(ns) = [k \in 0..Len(ns) |->
                             IF k = 0 THEN 0 ELSE StartOf(ns)[k - 1] + EntryBytes(ns[k])]
         /\ StartOf(ns) \in [0..Len(ns) -> Nat]
<1> DEFINE N == Len(ns)
           e(k) == EntryBytes(ns[k])
           Approx(g, n) == /\ g \in [0..n -> Nat] /\ g[0] = 0
                           /\ \A k \in 1..n : g[k] = g[k - 1] + e(k)
           S == {n \in Nat : n <= N => \E g : Approx(g, n)}
<1>1. N \in Nat /\ \A k \in 1..N : e(k) \in Nat
  BY EntrySizes
<1>2. 0 \in S
  <2>1. Approx([k \in 0..0 |-> 0], 0)
    OBVIOUS
  <2> QED BY <2>1
<1>3. ASSUME NEW n \in S PROVE n + 1 \in S
  <2>0. n \in Nat /\ (n <= N => \E g : Approx(g, n))
    BY DEF S
  <2>1. SUFFICES ASSUME n + 1 <= N PROVE \E g : Approx(g, n + 1)
    <3>1. n + 1 \in Nat
      BY <2>0
    <3> QED BY <3>1, Zenon DEF S
  <2>2. PICK g : Approx(g, n)
    BY <2>0, <2>1
  <2>3. Approx([k \in 0..n + 1 |-> IF k <= n THEN g[k] ELSE g[n] + e(n + 1)], n + 1)
    BY <1>1, <2>1, <2>2
  <2> QED BY <2>3
<1>4. \E g : Approx(g, N)
  <2>1. Nat \subseteq S
    BY <1>2, <1>3, NatSetInduction
  <2>2. N \in S
    BY <1>1, <2>1
  <2>3. N <= N => \E g : Approx(g, N)
    BY <2>2, Zenon DEF S
  <2>4. N <= N
    BY <1>1
  <2> QED BY <2>3, <2>4, Zenon
<1>5. PICK g : Approx(g, N)
  BY <1>4
<1>6. g = [k \in 0..N |-> IF k = 0 THEN 0 ELSE g[k - 1] + e(k)]
  BY <1>5
<1>7. StartOf(ns) = [k \in 0..N |-> IF k = 0 THEN 0 ELSE StartOf(ns)[k - 1] + e(k)]
  BY <1>6, Zenon DEF StartOf
<1>8. StartOf(ns) \in [0..N -> Nat]
  <2> DEFINE Q == {n \in Nat : n <= N => StartOf(ns)[n] \in Nat}
  <2>1. 0 \in Q
    BY <1>7
  <2>2. ASSUME NEW n \in Q PROVE n + 1 \in Q
    BY <1>1, <1>7, <2>2
  <2>3. Nat \subseteq Q
    BY <2>1, <2>2, NatSetInduction
  <2> QED BY <1>1, <1>7, <2>3
<1> QED BY <1>7, <1>8

(* Entry offsets increase by at least a header from one entry to the next.*)
LEMMA StartOfMono ==
  ASSUME NEW ns \in Seq(Note), NEW a \in 0..Len(ns), NEW b \in 0..Len(ns), a < b
  PROVE  StartOf(ns)[a] + 12 <= StartOf(ns)[b]
<1> DEFINE St == StartOf(ns)
           Mono(n) == n <= Len(ns) => \A x \in 0..n - 1 : St[x] + 12 <= St[n]
           S == {n \in Nat : Mono(n)}
<1>1. /\ St = [k \in 0..Len(ns) |-> IF k = 0 THEN 0 ELSE St[k - 1] + EntryBytes(ns[k])]
      /\ St \in [0..Len(ns) -> Nat]
  BY StartOfDef DEF St
<1>2. \A k \in 1..Len(ns) : St[k] = St[k - 1] + EntryBytes(ns[k]) /\ 12 <= EntryBytes(ns[k])
  <2>1. \A k \in 1..Len(ns) : ns[k] \in Note
    OBVIOUS
  <2>2. \A k \in 1..Len(ns) : 12 <= EntryBytes(ns[k])
    BY <2>1, EntrySizes
  <2> QED BY <1>1, <2>2
<1>7. \A k \in 0..Len(ns) : St[k] \in Nat
  BY <1>1
<1>3. 0 \in S
  <2>1. Mono(0)
    BY DEF Mono
  <2> QED BY <2>1, Zenon DEF S
<1>4. \A n \in S : n + 1 \in S
  <2> SUFFICES ASSUME NEW n \in S PROVE n + 1 \in S
    OBVIOUS
  <2>1. n \in Nat /\ Mono(n)
    BY Zenon DEF S
  <2>2. Mono(n + 1)
    <3> SUFFICES ASSUME n + 1 <= Len(ns), NEW x \in 0..n PROVE St[x] + 12 <= St[n + 1]
      BY DEF Mono
    <3>1. /\ St[n + 1] = St[n] + EntryBytes(ns[n + 1])
          /\ EntryBytes(ns[n + 1]) \in Nat /\ 12 <= EntryBytes(ns[n + 1])
      BY <1>2, <2>1, EntrySizes
    <3>2. x < n => St[x] + 12 <= St[n]
      BY <2>1 DEF Mono
    <3>3. St[x] \in Nat /\ St[n] \in Nat /\ St[n + 1] \in Nat
      BY <1>7, <2>1
    <3> QED BY <2>1, <3>1, <3>2, <3>3
  <2>3. n + 1 \in Nat
    BY <2>1
  <2> QED BY <2>2, <2>3, Zenon DEF S
<1>5. b \in S
  <2>1. Nat \subseteq S
    BY <1>3, <1>4, NatSetInduction
  <2> QED BY <2>1
<1>6. Mono(b)
  BY <1>5, Zenon DEF S
<1> QED BY <1>6 DEF Mono, St

(* The rank of an element of a finite set of naturals is between 1 and   *)
(* the set's size, and a smaller element has a smaller rank.               *)
LEMMA RankMono ==
  ASSUME NEW V \in SUBSET Nat, IsFiniteSet(V), NEW x \in V
  PROVE  /\ IsFiniteSet({z \in V : z <= x})
         /\ Rank(V, x) \in 1..Cardinality(V)
         /\ \A y \in V : y < x => Rank(V, y) < Rank(V, x)
<1> DEFINE L(w) == {z \in V : z <= w}
<1>0. \A w : Rank(V, w) = Cardinality(L(w))
  BY DEF Rank, L
<1>1. L(x) \subseteq V /\ x \in L(x)
  BY DEF L
<1>2. IsFiniteSet(L(x)) /\ Cardinality(L(x)) <= Cardinality(V)
  BY <1>1, FS_Subset
<1>3. Cardinality(L(x)) \in Nat /\ Cardinality(L(x)) # 0
  BY <1>1, <1>2, FS_EmptySet, FS_CardinalityType
<1>4. \A y \in V : y < x => Cardinality(L(y)) < Cardinality(L(x))
  <2> SUFFICES ASSUME NEW y \in V, y < x
               PROVE  Cardinality(L(y)) < Cardinality(L(x))
    OBVIOUS
  <2>0. \A z \in V : z <= y => z <= x /\ z # x
    OBVIOUS
  <2>1. L(y) \subseteq L(x) \ {x}
    BY <2>0, Zenon DEF L
  <2>2. IsFiniteSet(L(x) \ {x}) /\ Cardinality(L(x) \ {x}) = Cardinality(L(x)) - 1
    BY <1>1, <1>2, FS_RemoveElement
  <2>3. Cardinality(L(y)) <= Cardinality(L(x) \ {x})
    BY <2>1, <2>2, FS_Subset
  <2>4. Cardinality(L(y)) \in Nat
    BY <2>1, <2>2, FS_Subset, FS_CardinalityType
  <2> QED BY <1>3, <2>2, <2>3, <2>4
<1>5. Cardinality(V) \in Nat
  BY FS_CardinalityType
<1>6. IsFiniteSet({z \in V : z <= x})
  BY <1>2 DEF L
<1>7. Rank(V, x) \in 1..Cardinality(V)
  BY <1>0, <1>2, <1>3, <1>5
<1>8. \A y \in V : y < x => Rank(V, y) < Rank(V, x)
  <2> SUFFICES ASSUME NEW y \in V, y < x PROVE Rank(V, y) < Rank(V, x)
    OBVIOUS
  <2>1. Rank(V, y) = Cardinality(L(y)) /\ Rank(V, x) = Cardinality(L(x))
    BY <1>0
  <2>2. Cardinality(L(y)) < Cardinality(L(x))
    BY <1>4
  <2>3. IsFiniteSet(L(y)) /\ Cardinality(L(y)) \in Nat
    <3>1. L(y) \subseteq V
      BY DEF L
    <3> QED BY <3>1, FS_Subset, FS_CardinalityType
  <2> QED BY <1>3, <2>1, <2>2, <2>3
<1> QED BY <1>6, <1>7, <1>8

(* NthOf of x's rank is x.                                                *)
LEMMA NthOfRank ==
  ASSUME NEW V \in SUBSET Nat, IsFiniteSet(V), NEW x \in V
  PROVE  NthOf(V, Rank(V, x)) = x
<1>1. \A y \in V : Rank(V, y) = Rank(V, x) => y = x
  <2> SUFFICES ASSUME NEW y \in V, Rank(V, y) = Rank(V, x) PROVE y = x
    OBVIOUS
  <2>1. Rank(V, x) \in 1..Cardinality(V) /\ (\A w \in V : w < x => Rank(V, w) < Rank(V, x))
    BY RankMono, Zenon
  <2>2. Rank(V, y) \in 1..Cardinality(V) /\ (\A w \in V : w < y => Rank(V, w) < Rank(V, y))
    BY RankMono, Zenon
  <2>3. Cardinality(V) \in Nat
    BY FS_CardinalityType
  <2> QED BY <2>1, <2>2, <2>3
<1>2. x \in V /\ Cardinality({z \in V : z <= x}) = Rank(V, x)
  BY DEF Rank
<1> QED BY <1>1, <1>2, Zenon DEF NthOf, Rank


(* Adding an element above all others to a finite set of naturals: the    *)
(* k-th elements stay, the new one is the last and the next in rank.      *)
LEMMA AddTop ==
  ASSUME NEW V \in SUBSET Nat, IsFiniteSet(V), NEW m \in Nat, \A v \in V : v < m,
         Ranked(V)
  PROVE  /\ IsFiniteSet(V \cup {m}) /\ Cardinality(V \cup {m}) = Cardinality(V) + 1
         /\ \A j \in 1..Cardinality(V) : NthOf(V \cup {m}, j) = NthOf(V, j)
         /\ NthOf(V \cup {m}, Cardinality(V) + 1) = m
         /\ Ranked(V \cup {m})
<1> DEFINE W == V \cup {m}
<1>1. IsFiniteSet(W) /\ Cardinality(W) = Cardinality(V) + 1 /\ W \subseteq Nat
  BY FS_AddElement
<1>2. Cardinality(V) \in Nat
  BY FS_CardinalityType
<1>3. \A v \in V : Rank(W, v) = Rank(V, v)
  <2> SUFFICES ASSUME NEW v \in V PROVE Rank(W, v) = Rank(V, v)
    OBVIOUS
  <2>1. {z \in W : z <= v} = {z \in V : z <= v}
    <3>1. ~(m <= v)
      OBVIOUS
    <3> QED BY <3>1
  <2> QED BY <2>1 DEF Rank
<1>4. \A j \in 1..Cardinality(V) : NthOf(W, j) = NthOf(V, j) /\ Rank(W, NthOf(V, j)) = j
  <2> SUFFICES ASSUME NEW j \in 1..Cardinality(V)
               PROVE  NthOf(W, j) = NthOf(V, j) /\ Rank(W, NthOf(V, j)) = j
    OBVIOUS
  <2>1. NthOf(V, j) \in V /\ Rank(V, NthOf(V, j)) = j
    BY DEF Ranked
  <2>2. Rank(W, NthOf(V, j)) = j
    BY <1>3, <2>1
  <2>3. NthOf(W, Rank(W, NthOf(V, j))) = NthOf(V, j)
    BY <1>1, <2>1, NthOfRank
  <2> QED BY <2>2, <2>3
<1>5. Rank(W, m) = Cardinality(W)
  <2>1. {z \in W : z <= m} = W
    <3>1. \A z \in W : z <= m
      OBVIOUS
    <3> QED BY <3>1, Zenon
  <2> QED BY <2>1 DEF Rank
<1>6. NthOf(W, Cardinality(V) + 1) = m
  <2>1. NthOf(W, Rank(W, m)) = m
    BY <1>1, NthOfRank
  <2> QED BY <1>1, <1>5, <2>1
<1>7. Ranked(W)
  <2> SUFFICES ASSUME NEW j \in 1..Cardinality(W)
               PROVE  NthOf(W, j) \in W /\ Rank(W, NthOf(W, j)) = j
    BY DEF Ranked
  <2>1. CASE j <= Cardinality(V)
    <3>1. j \in 1..Cardinality(V)
      BY <1>1, <1>2, <2>1
    <3>2. NthOf(V, j) \in V
      BY <3>1 DEF Ranked
    <3> QED BY <1>4, <3>1, <3>2
  <2>2. CASE ~(j <= Cardinality(V))
    <3>1. j = Cardinality(V) + 1
      BY <1>1, <1>2, <2>2
    <3> QED BY <1>1, <1>5, <1>6, <3>1
  <2> QED BY <2>1, <2>2
<1> QED BY <1>1, <1>4, <1>6, <1>7

(* The element above all others is the last.                             *)
LEMMA LastTop ==
  ASSUME NEW V \in SUBSET Nat, NEW m \in Nat, \A v \in V : v < m
  PROVE  LastOf(V \cup {m}) = m
<1>1. \A x \in V \cup {m} : x <= m
  OBVIOUS
<1>2. \A k \in V \cup {m} : (\A x \in V \cup {m} : x <= k) => k = m
  OBVIOUS
<1> QED BY <1>1, <1>2, Zenon DEF LastOf

(* The switch of parse_notes_area, field by field: each field of the     *)
(* notedesc changes only for an entry of its type that passes its guard.  *)
DecodedFields(nd, h, p) ==
  LET ok(t) == h.n_type = t /\ SizeOK(h)
  IN  [threads |-> IF ok("PRSTATUS") THEN Append(nd.threads, p) ELSE nd.threads,
       psinfo |-> IF ok("PRPSINFO") THEN p ELSE nd.psinfo,
       siginfo |-> IF ok("SIGINFO") THEN p ELSE nd.siginfo,
       auxv |-> IF ok("AUXV") THEN p ELSE nd.auxv,
       auxv_size |-> IF ok("AUXV") THEN h.n_descsz ELSE nd.auxv_size,
       nt_files |-> IF ok("FILE") THEN <<ParseNtFiles(h)>> ELSE nd.nt_files,
       fpu |-> IF ok("FPREGSET") THEN p ELSE nd.fpu]

IsDesc(nd) ==
  nd = [threads |-> nd.threads, psinfo |-> nd.psinfo, siginfo |-> nd.siginfo,
        auxv |-> nd.auxv, auxv_size |-> nd.auxv_size, nt_files |-> nd.nt_files,
        fpu |-> nd.fpu]

(* Decoded is DecodedFields: AUXV and NT_FILE have no size guard, which   *)
(* SizeOK agrees with since SizeOf has no entry for them.                  *)
LEMMA DecodedAsFields ==
  ASSUME NEW nd, IsDesc(nd), NEW h \in Note, NEW p
  PROVE  Decoded(nd, h, p) = DecodedFields(nd, h, p)
<1>1. DOMAIN SizeOf = {"PRSTATUS", "PRPSINFO", "SIGINFO", "FPREGSET"}
  BY SizeOfAssumption
<1>2. h.n_type \in NoteTypes
  BY DEF Note
<1>3. h.n_type \in {"AUXV", "FILE", "OTHER"} => SizeOK(h)
  BY <1>1 DEF SizeOK
<1>4. CASE h.n_type = "PRSTATUS"
  BY <1>4, Zenon DEF Decoded, DecodedFields, IsDesc
<1>5. CASE h.n_type = "PRPSINFO"
  BY <1>5, Zenon DEF Decoded, DecodedFields, IsDesc
<1>6. CASE h.n_type = "SIGINFO"
  BY <1>6, Zenon DEF Decoded, DecodedFields, IsDesc
<1>7. CASE h.n_type = "AUXV"
  BY <1>3, <1>7, Zenon DEF Decoded, DecodedFields, IsDesc
<1>8. CASE h.n_type = "FILE"
  BY <1>3, <1>8, Zenon DEF Decoded, DecodedFields, IsDesc
<1>9. CASE h.n_type = "FPREGSET"
  BY <1>9, Zenon DEF Decoded, DecodedFields, IsDesc
<1>10. CASE h.n_type = "OTHER"
  BY <1>10, Zenon DEF Decoded, DecodedFields, IsDesc
<1> QED BY <1>2, <1>4, <1>5, <1>6, <1>7, <1>8, <1>9, <1>10 DEF NoteTypes


(* Entry k + 1 joins the entries of type t decoded so far exactly when it  *)
(* is of type t and passes its size guard.                                *)
LEMMA ValidKStep ==
  ASSUME NEW k \in Nat, NEW t, notes \in Seq(Note), k + 1 <= Len(notes)
  PROVE  /\ ValidK(k, t) \subseteq 1..k
         /\ IsFiniteSet(ValidK(k, t))
         /\ (notes[k+1].n_type = t /\ SizeOK(notes[k+1]))
              => ValidK(k+1, t) = ValidK(k, t) \cup {k+1}
         /\ ~(notes[k+1].n_type = t /\ SizeOK(notes[k+1]))
              => ValidK(k+1, t) = ValidK(k, t)
<1>1. ValidK(k, t) \subseteq 1..k
  BY DEF ValidK
<1>2. IsFiniteSet(ValidK(k, t))
  <2>1. IsFiniteSet(1..k)
    BY FS_Interval
  <2> QED BY <1>1, <2>1, FS_Subset, Zenon
<1>3. 1..(k+1) = (1..k) \cup {k+1}
  OBVIOUS
<1>4. (notes[k+1].n_type = t /\ SizeOK(notes[k+1]))
        => ValidK(k+1, t) = ValidK(k, t) \cup {k+1}
  BY <1>3, Zenon DEF ValidK
<1>5. ~(notes[k+1].n_type = t /\ SizeOK(notes[k+1])) => ValidK(k+1, t) = ValidK(k, t)
  BY <1>3, Zenon DEF ValidK
<1> QED BY <1>1, <1>2, <1>4, <1>5

(* The last position of type t after entry k + 1.                         *)
LEMMA LastPosKStep ==
  ASSUME NEW k \in Nat, NEW t, notes \in Seq(Note), k + 1 <= Len(notes)
  PROVE  /\ (notes[k+1].n_type = t /\ SizeOK(notes[k+1]))
              => /\ ValidK(k+1, t) # {}
                 /\ LastOf(ValidK(k+1, t)) = k + 1
                 /\ LastPosK(k+1, t) = StartOf(notes)[k]
         /\ ~(notes[k+1].n_type = t /\ SizeOK(notes[k+1]))
              => LastPosK(k+1, t) = LastPosK(k, t)
<1>1. CASE notes[k+1].n_type = t /\ SizeOK(notes[k+1])
  <2>1. ValidK(k+1, t) = ValidK(k, t) \cup {k+1} /\ ValidK(k, t) \subseteq 1..k
    BY <1>1, ValidKStep
  <2>2. LastOf(ValidK(k, t) \cup {k+1}) = k + 1
    <3>1. \A v \in ValidK(k, t) : v < k + 1
      BY <2>1
    <3>2. ValidK(k, t) \subseteq Nat /\ k + 1 \in Nat
      BY <2>1
    <3> QED BY <3>1, <3>2, LastTop, Zenon
  <2>3. ValidK(k+1, t) # {} /\ LastOf(ValidK(k+1, t)) = k + 1
    BY <2>1, <2>2
  <2>4. LastPosK(k+1, t) = StartOf(notes)[k]
    BY <2>3 DEF LastPosK
  <2> QED BY <1>1, <2>3, <2>4
<1>2. CASE ~(notes[k+1].n_type = t /\ SizeOK(notes[k+1]))
  BY <1>2, ValidKStep DEF LastPosK
<1> QED BY <1>1, <1>2

(* Append on a sequence given as a function on 1..c.                     *)
LEMMA AppendFcn ==
  ASSUME NEW S, NEW c \in Nat, NEW s \in [1..c -> S], NEW e \in S
  PROVE  /\ Append(s, e) \in [1..c+1 -> S]
         /\ \A j \in 1..c : Append(s, e)[j] = s[j]
         /\ Append(s, e)[c + 1] = e
<1>1. s \in Seq(S) /\ Len(s) = c
  OBVIOUS
<1>2. /\ Append(s, e) \in Seq(S)
      /\ Len(Append(s, e)) = Len(s) + 1
      /\ \A j \in 1..Len(s) : Append(s, e)[j] = s[j]
      /\ Append(s, e)[Len(s) + 1] = e
  BY <1>1, AppendProperties
<1>3. Append(s, e) \in [1..Len(Append(s, e)) -> S]
  BY <1>2, LenProperties
<1> QED BY <1>1, <1>2, <1>3

(* The thread table after entry k + 1: a well-sized PRSTATUS entry is     *)
(* appended at the end.                                                    *)
Threads(k) ==
  [j \in 1..Cardinality(ValidK(k, "PRSTATUS")) |->
     StartOf(notes)[NthOf(ValidK(k, "PRSTATUS"), j) - 1]]

LEMMA ThreadsStep ==
  ASSUME NEW k \in Nat, notes \in Seq(Note), k + 1 <= Len(notes),
         Ranked(ValidK(k, "PRSTATUS"))
  PROVE  /\ (notes[k+1].n_type = "PRSTATUS" /\ SizeOK(notes[k+1]))
              => Threads(k+1) = Append(Threads(k), StartOf(notes)[k])
         /\ ~(notes[k+1].n_type = "PRSTATUS" /\ SizeOK(notes[k+1]))
              => Threads(k+1) = Threads(k)
         /\ Ranked(ValidK(k+1, "PRSTATUS"))
<1> DEFINE V == ValidK(k, "PRSTATUS")
           c == Cardinality(V)
<1>1. V \subseteq 1..k /\ IsFiniteSet(V)
  BY ValidKStep
<1>2. c \in Nat
  BY <1>1, FS_CardinalityType
<1>3. CASE notes[k+1].n_type = "PRSTATUS" /\ SizeOK(notes[k+1])
  <2>1. ValidK(k+1, "PRSTATUS") = V \cup {k+1}
    BY <1>3, ValidKStep
  <2>2. \A v \in V : v < k + 1
    BY <1>1
  <2>3. /\ Cardinality(V \cup {k+1}) = c + 1
        /\ \A j \in 1..c : NthOf(V \cup {k+1}, j) = NthOf(V, j)
        /\ NthOf(V \cup {k+1}, c + 1) = k + 1
        /\ Ranked(V \cup {k+1})
    <3>1. V \subseteq Nat /\ k + 1 \in Nat
      BY <1>1
    <3> QED BY <1>1, <2>2, <3>1, AddTop, Zenon
  <2>4. Threads(k+1) = [j \in 1..c+1 |-> StartOf(notes)[NthOf(V \cup {k+1}, j) - 1]]
    BY <2>1, <2>3 DEF Threads
  <2>5. Threads(k) = [j \in 1..c |-> StartOf(notes)[NthOf(V, j) - 1]]
    BY DEF Threads
  <2>6. [j \in 1..c+1 |-> StartOf(notes)[NthOf(V \cup {k+1}, j) - 1]]
          = Append([j \in 1..c |-> StartOf(notes)[NthOf(V, j) - 1]], StartOf(notes)[k])
    <3> DEFINE s == [j \in 1..c |-> StartOf(notes)[NthOf(V, j) - 1]]
               e == StartOf(notes)[k]
               S == {s[j] : j \in 1..c} \cup {e}
               f == [j \in 1..c+1 |-> StartOf(notes)[NthOf(V \cup {k+1}, j) - 1]]
    <3>1. s \in [1..c -> S] /\ e \in S
      BY Zenon
    <3> HIDE DEF s, e, S, c
    <3>21. Append(s, e) \in [1..c+1 -> S]
      BY <1>2, <3>1, AppendFcn
    <3>22. \A j \in 1..c : Append(s, e)[j] = s[j]
      BY <1>2, <3>1, AppendFcn
    <3>23. Append(s, e)[c + 1] = e
      BY <1>2, <3>1, AppendFcn
    <3>2. /\ Append(s, e) \in [1..c+1 -> S]
          /\ \A j \in 1..c : Append(s, e)[j] = s[j]
          /\ Append(s, e)[c + 1] = e
      BY <3>21, <3>22, <3>23
    <3> USE DEF s, e, S, c
    <3>3. Append(s, e) \in [1..c+1 -> S]
      BY <3>2
    <3>4. \A j \in 1..c+1 : f[j] = Append(s, e)[j]
      <4> SUFFICES ASSUME NEW j \in 1..c+1 PROVE f[j] = Append(s, e)[j]
        OBVIOUS
      <4>1. CASE j \in 1..c
        <5>1. f[j] = StartOf(notes)[NthOf(V, j) - 1]
          BY <4>1, <2>3
        <5>2. s[j] = StartOf(notes)[NthOf(V, j) - 1]
          BY <4>1
        <5> QED BY <4>1, <5>1, <5>2, <3>2
      <4>2. CASE j = c + 1
        <5>1. f[j] = e
          BY <4>2, <2>3, <1>2
        <5> QED BY <4>2, <5>1, <3>2
      <4> QED BY <4>1, <4>2, <1>2
    <3> QED BY <3>3, <3>4, Zenon
  <2> QED BY <1>3, <2>1, <2>3, <2>4, <2>5, <2>6
<1>4. CASE ~(notes[k+1].n_type = "PRSTATUS" /\ SizeOK(notes[k+1]))
  BY <1>4, ValidKStep DEF Threads
<1> QED BY <1>3, <1>4


(* One turn of the loop at the start of entry k + 1 of the region turns   *)
(* the notedesc of the first k entries into that of the first k + 1.      *)
LEMMA ExpectedStep ==
  ASSUME NEW k \in Nat, notes \in Seq(Note), k + 1 <= Len(notes),
         Ranked(ValidK(k, "PRSTATUS"))
  PROVE  /\ ExpectedK(k+1) = Decoded(ExpectedK(k), notes[k+1], StartOf(notes)[k])
         /\ Ranked(ValidK(k+1, "PRSTATUS"))
<1> DEFINE h == notes[k+1]
           p == StartOf(notes)[k]
           ok(t) == h.n_type = t /\ SizeOK(h)
<1>1. h \in Note
  <2>1. k + 1 \in 1..Len(notes)
    OBVIOUS
  <2> QED BY <2>1, ElementOfSeq, Zenon
<1>2. IsDesc(ExpectedK(k))
  BY Zenon DEF IsDesc, ExpectedK
<1>3. Decoded(ExpectedK(k), h, p) = DecodedFields(ExpectedK(k), h, p)
  BY <1>1, <1>2, DecodedAsFields
<1>4. /\ Threads(k+1) = IF ok("PRSTATUS") THEN Append(Threads(k), p) ELSE Threads(k)
      /\ Ranked(ValidK(k+1, "PRSTATUS"))
  BY ThreadsStep
<1>5. LastPosK(k+1, "PRPSINFO") = IF ok("PRPSINFO") THEN p ELSE LastPosK(k, "PRPSINFO")
  BY LastPosKStep
<1>6. LastPosK(k+1, "SIGINFO") = IF ok("SIGINFO") THEN p ELSE LastPosK(k, "SIGINFO")
  BY LastPosKStep
<1>7. LastPosK(k+1, "AUXV") = IF ok("AUXV") THEN p ELSE LastPosK(k, "AUXV")
  BY LastPosKStep
<1>8. LastPosK(k+1, "FPREGSET") = IF ok("FPREGSET") THEN p ELSE LastPosK(k, "FPREGSET")
  BY LastPosKStep
<1>9. ASSUME NEW t
      PROVE  /\ ok(t) => ValidK(k+1, t) # {} /\ LastOf(ValidK(k+1, t)) = k + 1
             /\ ~ok(t) => ValidK(k+1, t) = ValidK(k, t)
  <2>1. ok(t) => ValidK(k+1, t) # {} /\ LastOf(ValidK(k+1, t)) = k + 1
    BY LastPosKStep
  <2>2. ~ok(t) => ValidK(k+1, t) = ValidK(k, t)
    BY ValidKStep
  <2> QED BY <2>1, <2>2
<1>10. (IF ValidK(k+1, "AUXV") = {} THEN 0
        ELSE notes[LastOf(ValidK(k+1, "AUXV"))].n_descsz)
       = IF ok("AUXV") THEN h.n_descsz
         ELSE IF ValidK(k, "AUXV") = {} THEN 0
              ELSE notes[LastOf(ValidK(k, "AUXV"))].n_descsz
  <2>1. /\ ok("AUXV") => ValidK(k+1, "AUXV") # {} /\ LastOf(ValidK(k+1, "AUXV")) = k + 1
        /\ ~ok("AUXV") => ValidK(k+1, "AUXV") = ValidK(k, "AUXV")
    BY <1>9
  <2> QED BY <2>1
<1>11. (IF ValidK(k+1, "FILE") = {} THEN <<>>
        ELSE <<ParseNtFiles(notes[LastOf(ValidK(k+1, "FILE"))])>>)
       = IF ok("FILE") THEN <<ParseNtFiles(h)>>
         ELSE IF ValidK(k, "FILE") = {} THEN <<>>
              ELSE <<ParseNtFiles(notes[LastOf(ValidK(k, "FILE"))])>>
  <2>1. /\ ok("FILE") => ValidK(k+1, "FILE") # {} /\ LastOf(ValidK(k+1, "FILE")) = k + 1
        /\ ~ok("FILE") => ValidK(k+1, "FILE") = ValidK(k, "FILE")
    BY <1>9
  <2> QED BY <2>1, Zenon
<1>12. ExpectedK(k+1) = DecodedFields(ExpectedK(k), h, p)
  <2> DEFINE R1 == [threads |-> Threads(k+1),
                   psinfo |-> LastPosK(k+1, "PRPSINFO"),
                   siginfo |-> LastPosK(k+1, "SIGINFO"),
                   auxv |-> LastPosK(k+1, "AUXV"),
                   auxv_size |-> IF ValidK(k+1, "AUXV") = {} THEN 0
                                 ELSE notes[LastOf(ValidK(k+1, "AUXV"))].n_descsz,
                   nt_files |-> IF ValidK(k+1, "FILE") = {} THEN <<>>
                                ELSE <<ParseNtFiles(notes[LastOf(ValidK(k+1, "FILE"))])>>,
                   fpu |-> LastPosK(k+1, "FPREGSET")]
  <2> DEFINE R2 == [threads |-> IF ok("PRSTATUS") THEN Append(Threads(k), p) ELSE Threads(k),
                   psinfo |-> IF ok("PRPSINFO") THEN p ELSE LastPosK(k, "PRPSINFO"),
                   siginfo |-> IF ok("SIGINFO") THEN p ELSE LastPosK(k, "SIGINFO"),
                   auxv |-> IF ok("AUXV") THEN p ELSE LastPosK(k, "AUXV"),
                   auxv_size |-> IF ok("AUXV") THEN h.n_descsz
                                 ELSE IF ValidK(k, "AUXV") = {} THEN 0
                                      ELSE notes[LastOf(ValidK(k, "AUXV"))].n_descsz,
                   nt_files |-> IF ok("FILE") THEN <<ParseNtFiles(h)>>
                                ELSE IF ValidK(k, "FILE") = {} THEN <<>>
                                     ELSE <<ParseNtFiles(notes[LastOf(ValidK(k, "FILE"))])>>,
                   fpu |-> IF ok("FPREGSET") THEN p ELSE LastPosK(k, "FPREGSET")]
  <2>1. ExpectedK(k+1) = R1
    BY DEF ExpectedK, Threads
  <2>2. DecodedFields(ExpectedK(k), h, p) = R2
    BY Zenon DEF DecodedFields, ExpectedK, Threads
  <2>3. R1 = R2
    BY <1>4, <1>5, <1>6, <1>7, <1>8, <1>10, <1>11
  <2> HIDE DEF R1, R2
  <2> QED BY <2>1, <2>2, <2>3
<1> QED BY <1>3, <1>4, <1>12


(* Every entry offset is a natural number.                              *)
LEMMA StartOfNat ==
  ASSUME NEW ns \in Seq(Note), NEW k \in 0..Len(ns)
  PROVE  StartOf(ns)[k] \in Nat
<1>1. StartOf(ns) \in [0..Len(ns) -> Nat]
  BY StartOfDef
<1> QED BY <1>1

(* At the k-th entry boundary the pointer reads entry k + 1: no two       *)
(* entries start at the same offset.                                      *)
LEMMA HeaderAtEntry ==
  ASSUME notes \in Seq(Note), NEW k \in 0..Len(notes) - 1
  PROVE  HeaderAt(StartOf(notes)[k]) = {notes[k+1]}
<1> DEFINE St == StartOf(notes)
           P(j) == St[j - 1] = St[k]
<1>1. k + 1 \in 1..Len(notes) /\ P(k + 1)
  OBVIOUS
<1>2. \A j \in 1..Len(notes) : P(j) => j = k + 1
  <2> SUFFICES ASSUME NEW j \in 1..Len(notes), P(j) PROVE j = k + 1
    OBVIOUS
  <2>1. CASE j - 1 < k
    <3>1. St[j - 1] + 12 <= St[k]
      <4>1. j - 1 \in 0..Len(notes) /\ k \in 0..Len(notes)
        OBVIOUS
      <4> QED BY <2>1, <4>1, StartOfMono, Zenon
    <3>2. St[k] \in Nat
      <4>1. k \in 0..Len(notes)
        OBVIOUS
      <4> QED BY <4>1, StartOfNat, Zenon
    <3> QED BY <3>1, <3>2
  <2>2. CASE k < j - 1
    <3>1. St[k] + 12 <= St[j - 1]
      <4>1. j - 1 \in 0..Len(notes) /\ k \in 0..Len(notes)
        OBVIOUS
      <4> QED BY <2>2, <4>1, StartOfMono, Zenon
    <3>2. St[k] \in Nat
      <4>1. k \in 0..Len(notes)
        OBVIOUS
      <4> QED BY <4>1, StartOfNat, Zenon
    <3> QED BY <3>1, <3>2
  <2> QED BY <2>1, <2>2
<1>3. (CHOOSE j \in 1..Len(notes) : P(j)) = k + 1
  BY <1>1, <1>2
<1> QED BY <1>1, <1>3, Zenon DEF HeaderAt

(* A header read with some of its words zeroed is still a header.         *)
LEMMA ZeroedNote ==
  ASSUME NEW h \in Note, NEW w
  PROVE  Zeroed(h, w) \in Note
BY Zenon DEF Zeroed, Note, NoteTypes

(* Past the region the pointer reads the bytes that follow it, partly    *)
(* zeroed; none of them spells a note type the walk decodes, so the       *)
(* notedesc is left alone.                                                *)
LEMMA HeaderAtBeyond ==
  ASSUME notes \in Seq(Note), NEW p \in Nat, NoteSize <= p, BeyondIgnored,
         NEW nd, NEW h \in HeaderAt(p)
  PROVE  h \in Note /\ Decoded(nd, h, p) = nd
<1>1. ~\E k \in 1..Len(notes) : StartOf(notes)[k - 1] = p
  <2> SUFFICES ASSUME NEW k \in 1..Len(notes), StartOf(notes)[k - 1] = p
               PROVE  FALSE
    OBVIOUS
  <2>1. StartOf(notes)[k - 1] + 12 <= StartOf(notes)[Len(notes)]
    <3>1. k - 1 \in 0..Len(notes) /\ Len(notes) \in 0..Len(notes) /\ k - 1 < Len(notes)
      OBVIOUS
    <3> QED BY <3>1, StartOfMono, Zenon
  <2>2. StartOf(notes)[k - 1] \in Nat
    <3>1. k - 1 \in 0..Len(notes)
      OBVIOUS
    <3> QED BY <3>1, StartOfNat, Zenon
  <2>3. StartOf(notes)[Len(notes)] \in Nat
    <3>1. Len(notes) \in 0..Len(notes)
      OBVIOUS
    <3> QED BY <3>1, StartOfNat, Zenon
  <2> QED BY <2>1, <2>2, <2>3 DEF NoteSize
<1>2. PICK b \in Beyond : h = Zeroed(b, PadWords(p))
  BY <1>1, Zenon DEF HeaderAt
<1>3. b \in Note /\ b.n_type = "OTHER"
  BY NotesAssumption DEF BeyondIgnored
<1>4. h.n_type = "OTHER"
  BY <1>2, <1>3, Zenon DEF Zeroed, Note, NoteTypes
<1>5. h \in Note
  BY <1>2, <1>3, ZeroedNote
<1> QED BY <1>4, <1>5, Zenon DEF Decoded


(* The walk starts at the first entry boundary with nothing decoded.      *)
LEMMA IInvInit == Init => IInv
<1> SUFFICES ASSUME Init PROVE IInv
  OBVIOUS
<1>1. PICK n \in 1..MaxNotes : notes \in [1..n -> NoteChoices]
  BY Zenon DEF Init
<1>2. notes \in Seq(NoteChoices) /\ Len(notes) = n /\ Len(notes) \in 1..MaxNotes
  BY <1>1, NotesAssumption
<1>3. notes \in Seq(Note)
  BY <1>2, NotesAssumption, SeqMonotonic, Zenon
<1>4. WalkTypeOK
  BY <1>2, NotesAssumption DEF Init, WalkTypeOK
<1>5. \A t : ValidK(0, t) = {}
  BY DEF ValidK
<1>6. Cardinality({}) = 0
  BY FS_EmptySet
<1>7. ExpectedK(0) = NoEntry
  <2>1. [j \in 1..0 |-> StartOf(notes)[NthOf({}, j) - 1]] = <<>>
    OBVIOUS
  <2> QED BY <1>5, <1>6, <2>1 DEF ExpectedK, LastPosK, NoEntry
<1>8. Ranked(ValidK(0, "PRSTATUS"))
  BY <1>5, <1>6 DEF Ranked
<1>9. StartOf(notes)[0] = 0
  <2>1. StartOf(notes) = [k \in 0..Len(notes) |->
                            IF k = 0 THEN 0 ELSE StartOf(notes)[k - 1] + EntryBytes(notes[k])]
    BY <1>3, StartOfDef
  <2> QED BY <2>1, <1>2
<1>10. Walked(0) /\ 0 \in 0..Len(notes) - 1
  BY <1>2, <1>7, <1>8, <1>9 DEF Walked, Init
<1> QED BY <1>4, <1>10 DEF IInv, Init

(* A step that keeps the region keeps everything computed from it.        *)
LEMMA NotesFrame ==
  ASSUME notes' = notes
  PROVE  /\ StartOf(notes)' = StartOf(notes)
         /\ NoteSize' = NoteSize
         /\ \A k, t : ValidK(k, t)' = ValidK(k, t)
         /\ \A k : ExpectedK(k)' = ExpectedK(k)
BY Zenon DEF NoteSize, ValidK, ExpectedK, LastPosK


(* The notes of a walk are headers.                                        *)
LEMMA NotesAreNotes ==
  ASSUME WalkTypeOK
  PROVE  notes \in Seq(Note)
BY NotesAssumption, SeqMonotonic, Zenon DEF WalkTypeOK

(* An iteration at the k-th boundary decodes entry k + 1 and moves to the *)
(* next boundary, the end of the region after the last entry.             *)
LEMMA ParseInRegion ==
  ASSUME IInv, ParseNote, NEW k \in 0..Len(notes) - 1, Walked(k)
  PROVE  IInv'
<1> DEFINE h == notes[k+1]
           St == StartOf(notes)
<1>1. notes \in Seq(Note) /\ k \in Nat /\ k + 1 <= Len(notes) /\ done = FALSE
  BY NotesAreNotes DEF IInv, WalkTypeOK, ParseNote
<1>2. HeaderAt(pos) = {h}
  BY <1>1, HeaderAtEntry DEF Walked
<1>3. /\ notedesc' = Decoded(notedesc, h, pos)
      /\ i' = i + StepLen(h) /\ pos' = pos + EntryBytes(h)
      /\ notes' = notes /\ pad' = pad /\ done' = done
  BY <1>2, Zenon DEF ParseNote
<1>4. h \in Note
  <2>1. k + 1 \in 1..Len(notes)
    BY <1>1
  <2> QED BY <1>1, <2>1, ElementOfSeq, Zenon
<1>5. /\ EntryBytes(h) \in Nat /\ StepLen(h) \in Nat /\ StepLen(h) <= EntryBytes(h)
  BY <1>4, EntrySizes
<1>6. /\ ExpectedK(k+1) = Decoded(ExpectedK(k), h, St[k])
      /\ Ranked(ValidK(k+1, "PRSTATUS"))
  BY <1>1, ExpectedStep DEF Walked
<1>7. St[k+1] = St[k] + EntryBytes(h) /\ St[k] \in Nat
  <2>1. St = [j \in 0..Len(notes) |-> IF j = 0 THEN 0 ELSE St[j - 1] + EntryBytes(notes[j])]
    BY <1>1, StartOfDef
  <2>2. St[k] \in Nat
    <3>1. k \in 0..Len(notes)
      BY <1>1
    <3> QED BY <1>1, <3>1, StartOfNat, Zenon
  <2> QED BY <1>1, <2>1, <2>2
<1>8. notedesc' = ExpectedK(k+1) /\ pos' = St[k+1]
  BY <1>3, <1>6, <1>7 DEF Walked
<1>9. /\ StartOf(notes)' = St /\ NoteSize' = NoteSize
      /\ \A t : ValidK(k+1, t)' = ValidK(k+1, t)
      /\ ExpectedK(k+1)' = ExpectedK(k+1)
  BY <1>3, NotesFrame
<1>10. WalkTypeOK' /\ i' <= pos'
  BY <1>3, <1>5, <1>7, <1>8 DEF IInv, WalkTypeOK, Walked
<1>11. CASE k + 1 < Len(notes)
  <2>1. Walked(k+1)'
    BY <1>6, <1>8, <1>9, Zenon DEF Walked
  <2>2. k + 1 \in 0..Len(notes)' - 1
    BY <1>1, <1>3, <1>11
  <2> QED BY <1>1, <1>3, <1>10, <2>1, <2>2 DEF IInv
<1>12. CASE k + 1 = Len(notes)
  <2>1. NoteSize' <= pos'
    BY <1>3, <1>8, <1>9, <1>12, <1>7 DEF NoteSize
  <2>2. (notedesc = ExpectedK(Len(notes)))'
    <3>1. \A j : ExpectedK(j)' = ExpectedK(j)
      BY <1>3, NotesFrame
    <3> QED BY <1>3, <1>8, <1>12, <3>1, Zenon
  <2> QED BY <1>1, <1>3, <1>10, <2>1, <2>2 DEF IInv
<1> QED BY <1>1, <1>11, <1>12


(* An iteration past the region reads a header there, leaves the notedesc *)
(* as it was and moves on.                                                *)
LEMMA ParseBeyond ==
  ASSUME IInv, ParseNote, BeyondIgnored,
         NoteSize <= pos, notedesc = ExpectedK(Len(notes))
  PROVE  IInv'
<1>1. notes \in Seq(Note) /\ pos \in Nat /\ i \in Nat /\ done = FALSE
  BY NotesAreNotes DEF IInv, WalkTypeOK, ParseNote
<1>2. PICK h \in HeaderAt(pos) :
        /\ notedesc' = Decoded(notedesc, h, pos)
        /\ i' = i + StepLen(h) /\ pos' = pos + EntryBytes(h)
        /\ notes' = notes /\ pad' = pad /\ done' = done
  BY Zenon DEF ParseNote
<1>3. h \in Note /\ Decoded(notedesc, h, pos) = notedesc
  BY <1>1, HeaderAtBeyond
<1>4. /\ EntryBytes(h) \in Nat /\ StepLen(h) \in Nat /\ StepLen(h) <= EntryBytes(h)
  BY <1>3, EntrySizes
<1>5. NoteSize' = NoteSize /\ \A j : ExpectedK(j)' = ExpectedK(j)
  BY <1>2, NotesFrame
<1>6. WalkTypeOK' /\ i' <= pos' /\ NoteSize' <= pos'
  <2>1. NoteSize \in Nat
    <3>1. Len(notes) \in 0..Len(notes)
      BY <1>1
    <3> QED BY <1>1, <3>1, StartOfNat, Zenon DEF NoteSize
  <2> QED BY <1>1, <1>2, <1>4, <1>5, <2>1 DEF IInv, WalkTypeOK
<1>7. (notedesc = ExpectedK(Len(notes)))'
  BY <1>2, <1>3, <1>5, Zenon
<1> QED BY <1>1, <1>2, <1>6, <1>7 DEF IInv

(* The loop exits only once the byte count has passed the region.          *)
LEMMA DoneStep ==
  ASSUME IInv, NotesDone
  PROVE  IInv'
<1>1. UNCHANGED <<notes, pad, i, pos, notedesc>> /\ done' = TRUE /\ i >= NoteSize
  BY DEF NotesDone
<1>2. NoteSize' = NoteSize /\ \A j : ExpectedK(j)' = ExpectedK(j)
  BY <1>1, NotesFrame
<1>3. \A j : Walked(j)' = Walked(j)
  BY <1>1, NotesFrame, Zenon DEF Walked
<1>4. WalkTypeOK'
  BY <1>1 DEF IInv, WalkTypeOK
<1>5. NoteSize \in Nat
  <2>1. notes \in Seq(Note)
    BY NotesAreNotes DEF IInv
  <2>2. Len(notes) \in 0..Len(notes)
    BY <2>1
  <2> QED BY <2>1, <2>2, StartOfNat, Zenon DEF NoteSize
<1>6. (done => NoteSize <= i)' /\ (i <= pos)'
  BY <1>1, <1>2, <1>5 DEF IInv, WalkTypeOK
<1>7. (\/ \E k \in 0..Len(notes) - 1 : Walked(k)
       \/ NoteSize <= pos /\ notedesc = ExpectedK(Len(notes)))'
  BY <1>1, <1>2, <1>3, Zenon DEF IInv
<1> QED BY <1>4, <1>6, <1>7 DEF IInv

(* The inductive invariant is preserved by every step of the walk.        *)
LEMMA IInvStep ==
  ASSUME BeyondIgnored, IInv, [Next]_vars
  PROVE  IInv'
<1>1. CASE ParseNote
  <2>1. CASE \E k \in 0..Len(notes) - 1 : Walked(k)
    BY <1>1, <2>1, ParseInRegion
  <2>2. CASE NoteSize <= pos /\ notedesc = ExpectedK(Len(notes))
    BY <1>1, <2>2, ParseBeyond
  <2> QED BY <2>1, <2>2 DEF IInv
<1>2. CASE NotesDone
  BY <1>2, DoneStep
<1>3. CASE UNCHANGED vars
  <2>1. notes' = notes
    BY <1>3 DEF vars
  <2>2. NoteSize' = NoteSize /\ \A j : ExpectedK(j)' = ExpectedK(j)
    BY <2>1, NotesFrame
  <2>3. \A j : Walked(j)' = Walked(j)
    BY <1>3, <2>1, NotesFrame, Zenon DEF Walked, vars
  <2> QED BY <1>3, <2>2, <2>3, Zenon DEF IInv, WalkTypeOK, vars
<1> QED BY <1>1, <1>2, <1>3 DEF Next


(* The walk is correct with the bytes after the region spelling no note   *)
(* type: IInv holds in every state.                                        *)
THEOREM IInvInvariant == BeyondIgnored => (Spec => []IInv)
<1> SUFFICES ASSUME BeyondIgnored PROVE Spec => []IInv
  OBVIOUS
<1>1. Init => IInv
  BY IInvInit
<1>2. IInv /\ [Next]_vars => IInv'
  BY IInvStep
<1> QED BY <1>1, <1>2, PTL DEF Spec

(* Once the loop has exited, the pointer is past the last entry, so the    *)
(* notedesc is the decoding of the whole region.                           *)
LEMMA IInvRegionDecoded == IInv => RegionDecoded
<1> SUFFICES ASSUME IInv, done PROVE notedesc = Expected(notes)
  BY DEF RegionDecoded
<1>1. notes \in Seq(Note) /\ NoteSize <= pos /\ pos \in Nat /\ NoteSize \in Nat
  <2>1. notes \in Seq(Note)
    BY NotesAreNotes DEF IInv
  <2>2. NoteSize \in Nat
    <3>1. Len(notes) \in 0..Len(notes)
      BY <2>1
    <3> QED BY <2>1, <3>1, StartOfNat, Zenon DEF NoteSize
  <2> QED BY <2>1, <2>2 DEF IInv, WalkTypeOK
<1>2. ~\E k \in 0..Len(notes) - 1 : Walked(k)
  <2> SUFFICES ASSUME NEW k \in 0..Len(notes) - 1, Walked(k) PROVE FALSE
    OBVIOUS
  <2>1. StartOf(notes)[k] + 12 <= StartOf(notes)[Len(notes)]
    <3>1. k \in 0..Len(notes) /\ Len(notes) \in 0..Len(notes) /\ k < Len(notes)
      BY <1>1
    <3> QED BY <1>1, <3>1, StartOfMono, Zenon
  <2>2. StartOf(notes)[k] \in Nat
    <3>1. k \in 0..Len(notes)
      BY <1>1
    <3> QED BY <1>1, <3>1, StartOfNat, Zenon
  <2> QED BY <1>1, <2>1, <2>2 DEF Walked, NoteSize
<1>3. notedesc = ExpectedK(Len(notes))
  BY <1>2 DEF IInv
<1>4. ExpectedK(Len(notes)) = Expected(notes)
  <2>1. \A t : ValidK(Len(notes), t) = Valid(notes, t)
    BY DEF ValidK, Valid
  <2>2. \A t : LastPosK(Len(notes), t) = LastPos(notes, t)
    BY <2>1 DEF LastPosK, LastPos
  <2>3. /\ ValidK(Len(notes), "PRSTATUS") = Valid(notes, "PRSTATUS")
        /\ ValidK(Len(notes), "AUXV") = Valid(notes, "AUXV")
        /\ ValidK(Len(notes), "FILE") = Valid(notes, "FILE")
    BY <2>1
  <2>4. /\ LastPosK(Len(notes), "PRPSINFO") = LastPos(notes, "PRPSINFO")
        /\ LastPosK(Len(notes), "SIGINFO") = LastPos(notes, "SIGINFO")
        /\ LastPosK(Len(notes), "AUXV") = LastPos(notes, "AUXV")
        /\ LastPosK(Len(notes), "FPREGSET") = LastPos(notes, "FPREGSET")
    BY <2>2
  <2> HIDE DEF ValidK, Valid, LastPosK, LastPos
  <2> QED BY <2>3, <2>4, Zenon DEF ExpectedK, Expected
<1> QED BY <1>3, <1>4

(* parse_notes_area returns the notedesc that the PT_NOTE region says,    *)
(* for every region size, entry sizes and LONGSIZE, provided the bytes     *)
(* after the region spell no note type (the NoteWalkCrafted run shows what *)
(* a crafted core gets otherwise).                                         *)
THEOREM RegionDecodedInvariant == BeyondIgnored => (Spec => []RegionDecoded)
<1>1. IInv => RegionDecoded
  BY IInvRegionDecoded
<1> QED BY <1>1, IInvInvariant, PTL


(* The notedesc part of TypeOK, for any notedesc.                          *)
FilesOK(nf) ==
  /\ Len(nf) <= 1
  /\ \A t \in DOMAIN nf :
       /\ nf[t].fcount \in Nat
       /\ \A k \in DOMAIN nf[t].files : nf[t].files[k].size \in Nat
DescOK(nd) ==
  /\ nd.threads \in Seq(Nat)
  /\ nd.psinfo \in Pos /\ nd.siginfo \in Pos
  /\ nd.auxv \in Pos /\ nd.fpu \in Pos
  /\ nd.auxv_size \in Nat
  /\ FilesOK(nd.nt_files)

Ordered(h) == \A r \in 1..Len(h.files) : h.files[r].start <= h.files[r].end

(* Every header the pointer can read is a header, and one of type NT_FILE  *)
(* lists its ranges in order.                                              *)
LEMMA HeaderAtNote ==
  ASSUME notes \in Seq(NoteChoices), RangesOrdered, NEW p, NEW h \in HeaderAt(p)
  PROVE  h \in Note /\ (h.n_type = "FILE" => Ordered(h))
<1>1. CASE \E k \in 1..Len(notes) : StartOf(notes)[k - 1] = p
  <2>1. PICK k \in 1..Len(notes) : h = notes[k]
    BY <1>1, Zenon DEF HeaderAt
  <2>2. h \in NoteChoices
    BY <2>1, ElementOfSeq, Zenon
  <2> QED BY <2>2, NotesAssumption, Zenon DEF RangesOrdered, Ordered
<1>2. CASE ~\E k \in 1..Len(notes) : StartOf(notes)[k - 1] = p
  <2>1. PICK b \in Beyond : h = Zeroed(b, PadWords(p))
    BY <1>2, Zenon DEF HeaderAt
  <2>2. b \in Note
    BY NotesAssumption
  <2>3. h.files = b.files /\ (h.n_type = "FILE" => b.n_type = "FILE")
    BY <2>1, <2>2, Zenon DEF Zeroed, Note
  <2>4. h \in Note
    BY <2>1, <2>2, ZeroedNote
  <2> QED BY <2>3, <2>4, Zenon DEF RangesOrdered, Ordered
<1> QED BY <1>1, <1>2

(* The table parse_nt_files builds from an ordered NT_FILE entry has       *)
(* natural counts and sizes.                                               *)
LEMMA NtFilesOK ==
  ASSUME NEW h \in Note, Ordered(h)
  PROVE  FilesOK(<<ParseNtFiles(h)>>)
<1>1. h.files \in Seq(Range3)
  BY DEF Note
<1>2. Len(h.files) \in Nat
  BY <1>1, LenProperties
<1>3. ParseNtFiles(h).fcount \in Nat
  BY <1>2 DEF ParseNtFiles
<1>4. DOMAIN ParseNtFiles(h).files = 1..Len(h.files)
  BY DEF ParseNtFiles
<1>5. \A k \in 1..Len(h.files) : ParseNtFiles(h).files[k].size \in Nat
  <2> SUFFICES ASSUME NEW k \in 1..Len(h.files)
               PROVE  ParseNtFiles(h).files[k].size \in Nat
    OBVIOUS
  <2>1. h.files[k] \in Range3
    BY <1>1, ElementOfSeq, Zenon
  <2>2. h.files[k].start \in Nat /\ h.files[k].end \in Nat
        /\ h.files[k].start <= h.files[k].end
    BY <2>1 DEF Range3, Ordered
  <2> QED BY <2>2 DEF ParseNtFiles
<1> QED BY <1>3, <1>4, <1>5 DEF FilesOK


(* Decoding a header at a natural offset keeps the notedesc well typed.   *)
LEMMA DecodedType ==
  ASSUME NEW nd, IsDesc(nd), DescOK(nd), NEW h \in Note,
         h.n_type = "FILE" => Ordered(h), NEW p \in Nat
  PROVE  IsDesc(Decoded(nd, h, p)) /\ DescOK(Decoded(nd, h, p))
<1> DEFINE ok(t) == h.n_type = t /\ SizeOK(h)
<1>1. Decoded(nd, h, p) = DecodedFields(nd, h, p)
  BY DecodedAsFields
<1>2. IsDesc(DecodedFields(nd, h, p))
  BY Zenon DEF IsDesc, DecodedFields
<1>3. (IF ok("PRSTATUS") THEN Append(nd.threads, p) ELSE nd.threads) \in Seq(Nat)
  <2>1. Append(nd.threads, p) \in Seq(Nat)
    <3>1. nd.threads \in Seq(Nat)
      BY DEF DescOK
    <3> QED BY <3>1, AppendProperties, Zenon
  <2> QED BY <2>1 DEF DescOK
<1>4. FilesOK(IF ok("FILE") THEN <<ParseNtFiles(h)>> ELSE nd.nt_files)
  <2>1. ok("FILE") => FilesOK(<<ParseNtFiles(h)>>)
    BY NtFilesOK
  <2> QED BY <2>1 DEF DescOK
<1>5. /\ (IF ok("PRPSINFO") THEN p ELSE nd.psinfo) \in Pos
      /\ (IF ok("SIGINFO") THEN p ELSE nd.siginfo) \in Pos
      /\ (IF ok("AUXV") THEN p ELSE nd.auxv) \in Pos
      /\ (IF ok("FPREGSET") THEN p ELSE nd.fpu) \in Pos
      /\ (IF ok("AUXV") THEN h.n_descsz ELSE nd.auxv_size) \in Nat
  BY DEF DescOK, Pos, Note
<1>6. DescOK(DecodedFields(nd, h, p))
  BY <1>3, <1>4, <1>5, Zenon DEF DescOK, DecodedFields
<1> QED BY <1>1, <1>2, <1>6

(* TypeOK, with the notedesc a record of the seven fields.                 *)
TypeInv == TypeOK /\ IsDesc(notedesc)

LEMMA TypeOKAsDesc == TypeOK <=> WalkTypeOK /\ DescOK(notedesc)
BY Zenon DEF TypeOK, WalkTypeOK, DescOK, FilesOK

LEMMA TypeInvInit == Init => TypeInv
<1> SUFFICES ASSUME Init PROVE TypeInv
  OBVIOUS
<1>1. PICK n \in 1..MaxNotes : notes \in [1..n -> NoteChoices]
  BY Zenon DEF Init
<1>2. WalkTypeOK
  <2>1. notes \in Seq(NoteChoices) /\ Len(notes) \in 1..MaxNotes
    BY <1>1, NotesAssumption
  <2> QED BY <2>1 DEF Init, WalkTypeOK
<1>3. DescOK(NoEntry) /\ IsDesc(NoEntry)
  <2>1. <<>> \in Seq(Nat) /\ Len(<<>>) = 0 /\ DOMAIN <<>> = {}
    OBVIOUS
  <2> QED BY <2>1 DEF DescOK, FilesOK, IsDesc, NoEntry, Pos, NoPos
<1> QED BY <1>2, <1>3, TypeOKAsDesc DEF Init, TypeInv

LEMMA TypeInvStep ==
  ASSUME RangesOrdered, TypeInv, [Next]_vars
  PROVE  TypeInv'
<1>1. WalkTypeOK /\ DescOK(notedesc) /\ IsDesc(notedesc)
  BY Zenon DEF TypeInv, TypeOK, WalkTypeOK, DescOK, FilesOK
<1>2. CASE ParseNote
  <2>1. PICK h \in HeaderAt(pos) :
          /\ notedesc' = Decoded(notedesc, h, pos)
          /\ i' = i + StepLen(h) /\ pos' = pos + EntryBytes(h)
          /\ notes' = notes /\ pad' = pad /\ done' = done
    BY <1>2, Zenon DEF ParseNote
  <2>2. h \in Note /\ (h.n_type = "FILE" => Ordered(h))
    BY <1>1, HeaderAtNote DEF WalkTypeOK
  <2>3. pos \in Nat
    BY <1>1 DEF WalkTypeOK
  <2>4. IsDesc(notedesc') /\ DescOK(notedesc')
    BY <1>1, <2>1, <2>2, <2>3, DecodedType
  <2>5. EntryBytes(h) \in Nat /\ StepLen(h) \in Nat
    BY <2>2, EntrySizes
  <2>6. WalkTypeOK'
    BY <1>1, <2>1, <2>5 DEF WalkTypeOK
  <2> QED BY <2>4, <2>6, Zenon DEF TypeInv, TypeOK, WalkTypeOK, DescOK, FilesOK
<1>3. CASE NotesDone
  <2>1. WalkTypeOK' /\ DescOK(notedesc') /\ IsDesc(notedesc')
    BY <1>1, <1>3 DEF NotesDone, WalkTypeOK
  <2> QED BY <2>1, Zenon DEF TypeInv, TypeOK, WalkTypeOK, DescOK, FilesOK
<1>4. CASE UNCHANGED vars
  <2>1. WalkTypeOK' /\ DescOK(notedesc') /\ IsDesc(notedesc')
    BY <1>1, <1>4 DEF vars, WalkTypeOK
  <2> QED BY <2>1, Zenon DEF TypeInv, TypeOK, WalkTypeOK, DescOK, FilesOK
<1> QED BY <1>2, <1>3, <1>4 DEF Next

(* Whatever bytes follow the region, the walk keeps its counters and the   *)
(* notedesc well typed (every offset natural, at most one NT_FILE table,   *)
(* natural range sizes) as long as the NT_FILE headers it can read list     *)
(* their ranges in order.                                                  *)
THEOREM TypeCorrect == RangesOrdered => (Spec => []TypeOK)
<1> SUFFICES ASSUME RangesOrdered PROVE Spec => []TypeOK
  OBVIOUS
<1>1. Init => TypeInv
  BY TypeInvInit
<1>2. TypeInv /\ [Next]_vars => TypeInv'
  BY TypeInvStep
<1>3. TypeInv => TypeOK
  BY DEF TypeInv
<1> QED BY <1>1, <1>2, <1>3, PTL DEF Spec

=============================================================================
