-------------------------- MODULE TextMergeProofs --------------------------
(***************************************************************************)
(* Proofs about TextMerge: the type invariant, and that every merge of a   *)
(* text image leaves each PT_LOAD header pointing at its own segment's     *)
(* pages, for every number of segments and every segment size, when the   *)
(* kernel dumped the first page of each text mapping.                     *)
(***************************************************************************)
EXTENDS TextMerge, SequenceTheorems, TLAPS

(* The file merge_text_image writes, before any overrun: the pages below  *)
(* the text, the image, then the pages from nextOffset on.                *)
SpliceBody(c, a, n, img) == SubSeq(c, 1, a) \o img \o SubSeq(c, n + 1, Len(c))

LEMMA SpliceProperties ==
  ASSUME NEW S, NEW c \in Seq(S), NEW mid \in Seq(S),
         NEW a \in Nat, NEW n \in Nat, a <= n, n <= Len(c)
  PROVE  /\ SpliceBody(c, a, n, mid) \in Seq(S)
         /\ Len(SpliceBody(c, a, n, mid)) = a + Len(mid) + (Len(c) - n)
         /\ \A p \in 1..a : SpliceBody(c, a, n, mid)[p] = c[p]
         /\ \A p \in (a + 1)..(a + Len(mid)) : SpliceBody(c, a, n, mid)[p] = mid[p - a]
         /\ \A p \in (a + Len(mid) + 1)..Len(SpliceBody(c, a, n, mid)) :
               SpliceBody(c, a, n, mid)[p] = c[p - a - Len(mid) + n]
<1> DEFINE pre == SubSeq(c, 1, a)
           post == SubSeq(c, n + 1, Len(c))
<1>1. pre \in Seq(S) /\ Len(pre) = a /\ \A i \in 1..a : pre[i] = c[i]
  BY SubSeqProperties
<1>2. post \in Seq(S) /\ Len(post) = Len(c) - n
      /\ \A i \in 1..(Len(c) - n) : post[i] = c[n + i]
  BY SubSeqProperties
<1>3. /\ pre \o mid \in Seq(S) /\ Len(pre \o mid) = a + Len(mid)
      /\ \A i \in 1..(a + Len(mid)) : (pre \o mid)[i] = IF i <= a THEN c[i] ELSE mid[i - a]
  BY <1>1, ConcatProperties
<1>4. /\ (pre \o mid) \o post \in Seq(S)
      /\ Len((pre \o mid) \o post) = a + Len(mid) + (Len(c) - n)
      /\ \A i \in 1..(a + Len(mid) + (Len(c) - n)) :
            ((pre \o mid) \o post)[i] = IF i <= a + Len(mid) THEN (pre \o mid)[i]
                                         ELSE post[i - (a + Len(mid))]
  <2>1. Len(pre \o mid) + Len(post) = a + Len(mid) + (Len(c) - n)
    BY <1>2, <1>3
  <2>2. \A s1, s2 \in Seq(S) :
          /\ s1 \o s2 \in Seq(S)
          /\ Len(s1 \o s2) = Len(s1) + Len(s2)
          /\ \A i \in 1 .. Len(s1) + Len(s2) :
                (s1 \o s2)[i] = IF i <= Len(s1) THEN s1[i] ELSE s2[i - Len(s1)]
    BY ConcatProperties
  <2>3. /\ (pre \o mid) \o post \in Seq(S)
        /\ Len((pre \o mid) \o post) = Len(pre \o mid) + Len(post)
        /\ \A i \in 1 .. Len(pre \o mid) + Len(post) :
              ((pre \o mid) \o post)[i] = IF i <= Len(pre \o mid) THEN (pre \o mid)[i]
                                          ELSE post[i - Len(pre \o mid)]
    <3>1. pre \o mid \in Seq(S) /\ post \in Seq(S)
      BY <1>2, <1>3
    <3>2. QED
      BY <3>1, <2>2, Zenon
  <2>4. QED
    BY <1>3, <2>1, <2>3
<1> DEFINE b == (pre \o mid) \o post
<1>5. \A p \in 1..a : b[p] = c[p]
  <2> SUFFICES ASSUME NEW p \in 1..a PROVE b[p] = c[p]
    OBVIOUS
  <2>0. /\ p \in 1..(a + Len(mid) + (Len(c) - n)) /\ p <= a + Len(mid)
        /\ p \in 1..(a + Len(mid)) /\ p <= a
    OBVIOUS
  <2>1. b[p] = (pre \o mid)[p]
    BY <2>0, <1>4, Zenon DEF b
  <2>2. QED
    BY <2>0, <1>3, <2>1, Zenon
<1>6. \A p \in (a + 1)..(a + Len(mid)) : b[p] = mid[p - a]
  <2> SUFFICES ASSUME NEW p \in (a + 1)..(a + Len(mid)) PROVE b[p] = mid[p - a]
    OBVIOUS
  <2>0. /\ p \in 1..(a + Len(mid) + (Len(c) - n)) /\ p <= a + Len(mid)
        /\ p \in 1..(a + Len(mid)) /\ ~(p <= a)
    OBVIOUS
  <2>1. b[p] = (pre \o mid)[p]
    BY <2>0, <1>4, Zenon DEF b
  <2>2. QED
    BY <2>0, <1>3, <2>1, Zenon
<1>7. \A p \in (a + Len(mid) + 1)..(a + Len(mid) + (Len(c) - n)) :
        b[p] = c[p - a - Len(mid) + n]
  <2> SUFFICES ASSUME NEW p \in (a + Len(mid) + 1)..(a + Len(mid) + (Len(c) - n))
               PROVE b[p] = c[p - a - Len(mid) + n]
    OBVIOUS
  <2>0. /\ p \in 1..(a + Len(mid) + (Len(c) - n)) /\ ~(p <= a + Len(mid))
        /\ p - (a + Len(mid)) \in 1..(Len(c) - n)
        /\ n + (p - (a + Len(mid))) = p - a - Len(mid) + n
    OBVIOUS
  <2>1. b[p] = post[p - (a + Len(mid))]
    BY <2>0, <1>4, Zenon DEF b
  <2>2. QED
    BY <2>0, <1>2, <2>1, Zenon
<1>8. QED
  BY <1>4, <1>5, <1>6, <1>7, Zenon DEF b, pre, post, SpliceBody
(* A function on 1..m is a sequence of length m.                          *)
LEMMA FunIsSeq ==
  ASSUME NEW S, NEW m \in Nat, NEW f \in [1..m -> S]
  PROVE  f \in Seq(S) /\ Len(f) = m
<1>1. f \in Seq(S)
  BY SeqDef
<1>2. DOMAIN f = 1..Len(f)
  BY <1>1, LenProperties
<1>3. Len(f) \in Nat
  BY <1>1, LenProperties
<1>4. 1..Len(f) = 1..m
  BY <1>2
<1>. QED
  BY <1>1, <1>3, <1>4

(* The pages a segment's data takes in the file.                          *)
LEMMA PagesProperties ==
  ASSUME NEW s \in {0} \cup Seg, NEW m \in Nat
  PROVE  /\ Pages(s, m) \in Seq(Label) /\ Len(Pages(s, m)) = m
         /\ \A p \in 1..m : Pages(s, m)[p] = <<s, p - 1>>
<1>1. Pages(s, m) \in [1..m -> Label]
  BY DEF Pages, Label
<1>. QED
  BY <1>1, FunIsSeq DEF Pages

(* Junk appended after a file leaves the file's pages where they were.    *)
LEMMA JunkAppend ==
  ASSUME NEW S, NEW b \in Seq(S), NEW x \in S, NEW m \in Nat
  PROVE  /\ b \o [k \in 1..m |-> x] \in Seq(S)
         /\ Len(b \o [k \in 1..m |-> x]) >= Len(b)
         /\ \A p \in 1..Len(b) : (b \o [k \in 1..m |-> x])[p] = b[p]
<1> DEFINE j == [k \in 1..m |-> x]
<1>1. j \in Seq(S) /\ Len(j) = m
  BY FunIsSeq
<1>2. /\ b \o j \in Seq(S) /\ Len(b \o j) = Len(b) + Len(j)
      /\ \A i \in 1 .. Len(b) + Len(j) :
            (b \o j)[i] = IF i <= Len(b) THEN b[i] ELSE j[i - Len(b)]
  BY <1>1, ConcatProperties, Zenon
<1>3. Len(b) \in Nat
  BY LenProperties
<1>4. \A p \in 1..Len(b) : p \in 1 .. Len(b) + Len(j) /\ p <= Len(b)
  BY <1>1, <1>3
<1>. QED
  BY <1>1, <1>2, <1>3, <1>4
-----------------------------------------------------------------------------
(* The strengthening of SegmentsIntact that every step preserves, stated  *)
(* of a header table ph and a file c.  OffP and EndP are where segment s  *)
(* starts and ends in the file.                                           *)
OffP(ph, s) == ph[s].p_offset
EndP(ph, s) == ph[s].p_offset + ph[s].p_filesz

SegFacts(ph, c) ==
  \A s \in 1..Len(ph) :
    /\ EndP(ph, s) <= Len(c)
    /\ \A k \in 0..(ph[s].p_filesz - 1) : c[OffP(ph, s) + k + 1] = <<s, k>>
    /\ s < Len(ph) => OffP(ph, s + 1) = EndP(ph, s)
    /\ \A r \in 1..Len(ph) : s < r => EndP(ph, s) <= OffP(ph, r)

(* The fields of a program header.                                       *)
LEMMA PhdrFields ==
  ASSUME NEW h \in Phdr
  PROVE  h.p_offset \in Nat /\ h.p_filesz \in Nat /\ h.p_memsz \in Nat \ {0}
         /\ h.p_memsz <= MaxPages
BY MaxPagesAssumption DEF Phdr

(* The file a merge writes, before any overrun, as MergedFile gives it   *)
(* for a file c, and what is known of each of its pages.                   *)
SplicedAs(c2, c, a, n, img) ==
  /\ c2 \in Seq(Label)
  /\ Len(c2) >= a + Len(img) + (Len(c) - n)
  /\ \A p \in 1..a : c2[p] = c[p]
  /\ \A p \in (a + 1)..(a + Len(img)) : c2[p] = img[p - a]
  /\ \A p \in (a + Len(img) + 1)..(a + Len(img) + (Len(c) - n)) :
        c2[p] = c[p - a - Len(img) + n]

(* A file that starts with a spliced file is spliced the same way.        *)
LEMMA SplicedPrefix ==
  ASSUME NEW c \in Seq(Label), NEW a \in Nat, NEW n \in Nat, n <= Len(c),
         NEW img \in Seq(Label), NEW e, NEW c2,
         SplicedAs(e, c, a, n, img), Len(e) = a + Len(img) + (Len(c) - n),
         c2 \in Seq(Label), Len(c2) >= Len(e), \A p \in 1..Len(e) : c2[p] = e[p]
  PROVE  SplicedAs(c2, c, a, n, img)
<1>0. Len(img) \in Nat /\ Len(c) \in Nat
  BY LenProperties
<1>1. /\ \A p \in 1..a : e[p] = c[p]
      /\ \A p \in (a + 1)..(a + Len(img)) : e[p] = img[p - a]
      /\ \A p \in (a + Len(img) + 1)..(a + Len(img) + (Len(c) - n)) :
            e[p] = c[p - a - Len(img) + n]
  BY Zenon DEF SplicedAs
<1>2. /\ 1..a \subseteq 1..Len(e)
      /\ (a + 1)..(a + Len(img)) \subseteq 1..Len(e)
      /\ (a + Len(img) + 1)..(a + Len(img) + (Len(c) - n)) \subseteq 1..Len(e)
  BY <1>0
<1>3. /\ \A p \in 1..a : c2[p] = c[p]
      /\ \A p \in (a + 1)..(a + Len(img)) : c2[p] = img[p - a]
      /\ \A p \in (a + Len(img) + 1)..(a + Len(img) + (Len(c) - n)) :
            c2[p] = c[p - a - Len(img) + n]
  BY <1>1, <1>2, Zenon
<1>. QED
  BY <1>0, <1>3 DEF SplicedAs

(* The file a merge writes holds the pages below the text, the image,   *)
(* and the pages from nextOffset on.                                      *)
LEMMA BodyFacts ==
  ASSUME NEW c \in Seq(Label), NEW a \in Nat, NEW n \in Nat, a <= n, n <= Len(c),
         NEW img \in Seq(Label)
  PROVE  /\ SpliceBody(c, a, n, img) \in Seq(Label)
         /\ Len(SpliceBody(c, a, n, img)) = a + Len(img) + (Len(c) - n)
         /\ SplicedAs(SpliceBody(c, a, n, img), c, a, n, img)
<1>0. \A cc \in Seq(Label), mm \in Seq(Label), aa \in Nat, nn \in Nat :
         aa <= nn /\ nn <= Len(cc) =>
           /\ SpliceBody(cc, aa, nn, mm) \in Seq(Label)
           /\ Len(SpliceBody(cc, aa, nn, mm)) = aa + Len(mm) + (Len(cc) - nn)
           /\ \A p \in 1..aa : SpliceBody(cc, aa, nn, mm)[p] = cc[p]
           /\ \A p \in (aa + 1)..(aa + Len(mm)) : SpliceBody(cc, aa, nn, mm)[p] = mm[p - aa]
           /\ \A p \in (aa + Len(mm) + 1)..Len(SpliceBody(cc, aa, nn, mm)) :
                 SpliceBody(cc, aa, nn, mm)[p] = cc[p - aa - Len(mm) + nn]
  BY SpliceProperties
<1>1. /\ SpliceBody(c, a, n, img) \in Seq(Label)
      /\ Len(SpliceBody(c, a, n, img)) = a + Len(img) + (Len(c) - n)
      /\ \A p \in 1..a : SpliceBody(c, a, n, img)[p] = c[p]
      /\ \A p \in (a + 1)..(a + Len(img)) : SpliceBody(c, a, n, img)[p] = img[p - a]
      /\ \A p \in (a + Len(img) + 1)..Len(SpliceBody(c, a, n, img)) :
            SpliceBody(c, a, n, img)[p] = c[p - a - Len(img) + n]
  BY <1>0, ZenonT(90)
<1>. QED
  BY <1>1 DEF SplicedAs

(* Both files a merge may leave, with or without the overrun, are spliced *)
(* the same way.                                                          *)
LEMMA SpliceFacts ==
  ASSUME NEW c \in Seq(Label), NEW a \in Nat, NEW n \in Nat, a <= n, n <= Len(c),
         NEW img \in Seq(Label), NEW m \in Nat,
         NEW c2 \in {SpliceBody(c, a, n, img),
                     SpliceBody(c, a, n, img) \o [k \in 1..m |-> Junk]}
  PROVE  SplicedAs(c2, c, a, n, img)
<1> DEFINE body == SpliceBody(c, a, n, img)
<1>1. /\ body \in Seq(Label)
      /\ Len(body) = a + Len(img) + (Len(c) - n)
      /\ SplicedAs(body, c, a, n, img)
  BY BodyFacts, Zenon DEF body
<1>2. Junk \in Label
  BY DEF Junk, Label
<1>3. CASE c2 = body \o [k \in 1..m |-> Junk]
  <2>1. /\ body \o [k \in 1..m |-> Junk] \in Seq(Label)
        /\ Len(body \o [k \in 1..m |-> Junk]) >= Len(body)
        /\ \A p \in 1..Len(body) : (body \o [k \in 1..m |-> Junk])[p] = body[p]
    <3>1. \A bb \in Seq(Label), mm \in Nat :
            /\ bb \o [k \in 1..mm |-> Junk] \in Seq(Label)
            /\ Len(bb \o [k \in 1..mm |-> Junk]) >= Len(bb)
            /\ \A p \in 1..Len(bb) : (bb \o [k \in 1..mm |-> Junk])[p] = bb[p]
      BY <1>2, JunkAppend
    <3>. QED
      BY <1>1, <3>1
  <2>2. /\ c2 \in Seq(Label) /\ Len(c2) >= Len(body)
        /\ \A p \in 1..Len(body) : c2[p] = body[p]
    BY <2>1, <1>3, Zenon
  <2>. QED
    BY <2>2, <1>1, SplicedPrefix, Zenon
<1>4. CASE c2 = body
  BY <1>1, <1>4, Zenon
<1>. QED
  BY <1>3, <1>4, Zenon DEF body

ShiftedP(ph, t, tlen) ==
  [i \in DOMAIN ph |->
     IF i = t THEN [p_offset |-> ph[i].p_offset, p_filesz |-> ph[i].p_memsz,
                   p_memsz |-> ph[i].p_memsz]
     ELSE IF i > t THEN [p_offset |-> ph[i].p_offset + tlen - 1,
                   p_filesz |-> ph[i].p_filesz, p_memsz |-> ph[i].p_memsz]
     ELSE ph[i]]

(* The headers after a merge at t: only t's size and the later offsets    *)
(* change.                                                                 *)
LEMMA ShiftedFields ==
  ASSUME NEW ph \in Seq(Phdr), NEW t \in Nat, NEW tlen \in Nat \ {0}
  PROVE  /\ ShiftedP(ph, t, tlen) \in Seq(Phdr)
         /\ Len(ShiftedP(ph, t, tlen)) = Len(ph)
         /\ \A s \in 1..Len(ph) :
              /\ ShiftedP(ph, t, tlen)[s].p_filesz =
                   IF s = t THEN ph[s].p_memsz ELSE ph[s].p_filesz
              /\ ShiftedP(ph, t, tlen)[s].p_offset =
                   IF s > t THEN ph[s].p_offset + tlen - 1 ELSE ph[s].p_offset
              /\ ShiftedP(ph, t, tlen)[s].p_memsz = ph[s].p_memsz
<1>1. DOMAIN ph = 1..Len(ph) /\ Len(ph) \in Nat /\ \A s \in 1..Len(ph) : ph[s] \in Phdr
  BY LenProperties, ElementOfSeq
<1>2. ShiftedP(ph, t, tlen) \in [1..Len(ph) -> Phdr]
  BY <1>1 DEF ShiftedP, Phdr
<1>3. ShiftedP(ph, t, tlen) \in Seq(Phdr) /\ Len(ShiftedP(ph, t, tlen)) = Len(ph)
  BY <1>1, <1>2, FunIsSeq
<1>4. \A s \in 1..Len(ph) :
         /\ ShiftedP(ph, t, tlen)[s].p_filesz = IF s = t THEN ph[s].p_memsz ELSE ph[s].p_filesz
         /\ ShiftedP(ph, t, tlen)[s].p_offset = IF s > t THEN ph[s].p_offset + tlen - 1
                                                     ELSE ph[s].p_offset
         /\ ShiftedP(ph, t, tlen)[s].p_memsz = ph[s].p_memsz
  BY <1>1 DEF ShiftedP, Phdr
<1>. QED
  BY <1>3, <1>4

(* What a merge at text header t is given: a file whose segments are      *)
(* intact, the text segment still one page long, the image of its whole   *)
(* mapping, and the file written from them.                               *)
MergePre(c, ph, t, a, n, tlen, img, c2) ==
  /\ Len(c) \in Nat
  /\ ph \in Seq(Phdr) /\ Len(ph) <= NSeg
  /\ SegFacts(ph, c)
  /\ t \in 1..(Len(ph) - 1) /\ ph[t].p_filesz = 1
  /\ a = ph[t].p_offset /\ n = ph[t + 1].p_offset /\ tlen = ph[t].p_memsz
  /\ Len(img) = tlen /\ \A p \in 1..tlen : img[p] = <<t, p - 1>>
  /\ SplicedAs(c2, c, a, n, img)

(* A merge at a text header t whose segment still has one page in the    *)
(* file, with an image of the whole mapping, keeps every segment of the    *)
(* file where its header says, whether or not junk is written after it.   *)
LEMMA MergeSegments ==
  ASSUME NEW c, NEW ph, NEW t, NEW a, NEW n, NEW tlen, NEW img, NEW c2,
         MergePre(c, ph, t, a, n, tlen, img, c2)
  PROVE  SegFacts(ShiftedP(ph, t, tlen), c2)
<1> DEFINE L == Len(c)
           ph2 == ShiftedP(ph, t, tlen)
<1>0. /\ ph \in Seq(Phdr) /\ Len(ph) \in Nat /\ L \in Nat /\ t \in 1..(Len(ph) - 1)
      /\ SegFacts(ph, c)
  BY LenProperties, Zenon DEF MergePre
<1>0a. t \in Nat /\ t < Len(ph) /\ Len(ph) \in Nat /\ L \in Nat
  BY <1>0
<1>1. ASSUME NEW s \in 1..Len(ph)
      PROVE  /\ ph[s].p_offset \in Nat /\ ph[s].p_filesz \in Nat /\ ph[s].p_memsz \in Nat \ {0}
             /\ ph[s].p_offset + ph[s].p_filesz <= L
             /\ \A k \in 0..(ph[s].p_filesz - 1) : c[ph[s].p_offset + k + 1] = <<s, k>>
             /\ s < Len(ph) => ph[s + 1].p_offset = ph[s].p_offset + ph[s].p_filesz
             /\ \A r \in 1..Len(ph) :
                  s < r => ph[s].p_offset + ph[s].p_filesz <= ph[r].p_offset
  <2>1. ph[s] \in Phdr
    BY <1>0, ElementOfSeq, Zenon
  <2>2. ph[s].p_offset \in Nat /\ ph[s].p_filesz \in Nat /\ ph[s].p_memsz \in Nat \ {0}
    BY <2>1, PhdrFields, Zenon
  <2>3. /\ ph[s].p_offset + ph[s].p_filesz <= L
        /\ \A k \in 0..(ph[s].p_filesz - 1) : c[ph[s].p_offset + k + 1] = <<s, k>>
        /\ s < Len(ph) => ph[s + 1].p_offset = ph[s].p_offset + ph[s].p_filesz
        /\ \A r \in 1..Len(ph) :
             s < r => ph[s].p_offset + ph[s].p_filesz <= ph[r].p_offset
    BY <1>0, Zenon DEF SegFacts, OffP, EndP
  <2>. QED
    BY <2>2, <2>3
<1>2a. /\ a = ph[t].p_offset /\ n = ph[t + 1].p_offset /\ tlen = ph[t].p_memsz
       /\ ph[t].p_filesz = 1
  BY Zenon DEF MergePre
<1>2. /\ a \in Nat /\ n = a + 1 /\ n <= L /\ tlen \in Nat \ {0}
  <2>2. t \in 1..Len(ph) /\ t + 1 \in 1..Len(ph) /\ t < Len(ph)
    BY <1>0
  <2>. QED
    BY <1>1, <1>2a, <2>2
<1>3. /\ Len(c2) >= a + tlen + (L - n)
      /\ c2 \in Seq(Label)
      /\ \A p \in 1..a : c2[p] = c[p]
      /\ \A p \in (a + 1)..(a + tlen) : c2[p] = <<t, p - a - 1>>
      /\ \A p \in (a + tlen + 1)..(a + tlen + (L - n)) : c2[p] = c[p - a - tlen + n]
  <2>1. Len(img) = tlen /\ \A p \in 1..tlen : img[p] = <<t, p - 1>>
    BY Zenon DEF MergePre
  <2>2. /\ Len(c2) >= a + Len(img) + (L - n)
        /\ \A p \in 1..a : c2[p] = c[p]
        /\ \A p \in (a + 1)..(a + Len(img)) : c2[p] = img[p - a]
        /\ \A p \in (a + Len(img) + 1)..(a + Len(img) + (L - n)) :
              c2[p] = c[p - a - Len(img) + n]
        /\ c2 \in Seq(Label)
    BY Zenon DEF MergePre, SplicedAs
  <2>3. \A p \in (a + 1)..(a + tlen) : p - a \in 1..tlen /\ p - a - 1 = (p - a) - 1
    BY <1>2
  <2>. QED
    BY <1>2, <2>1, <2>2, <2>3
<1>3a. Len(c2) >= a + tlen + (L - n)
  BY <1>3, Zenon
<1>3b. \A p \in 1..a : c2[p] = c[p]
  BY <1>3, Zenon
<1>3c. \A p \in (a + 1)..(a + tlen) : c2[p] = <<t, p - a - 1>>
  BY <1>3, Zenon
<1>3d. \A p \in (a + tlen + 1)..(a + tlen + (L - n)) : c2[p] = c[p - a - tlen + n]
  BY <1>3, Zenon
<1>4. /\ Len(ph2) = Len(ph)
      /\ \A s \in 1..Len(ph) :
           /\ ph2[s].p_filesz = IF s = t THEN ph[s].p_memsz ELSE ph[s].p_filesz
           /\ ph2[s].p_offset = IF s > t THEN ph[s].p_offset + tlen - 1
                                         ELSE ph[s].p_offset
  <2>1. t \in Nat
    BY <1>0
  <2>2. \A p2 \in Seq(Phdr), t2 \in Nat, tl2 \in Nat \ {0} :
          /\ Len(ShiftedP(p2, t2, tl2)) = Len(p2)
          /\ \A s \in 1..Len(p2) :
               /\ ShiftedP(p2, t2, tl2)[s].p_filesz =
                    IF s = t2 THEN p2[s].p_memsz ELSE p2[s].p_filesz
               /\ ShiftedP(p2, t2, tl2)[s].p_offset =
                    IF s > t2 THEN p2[s].p_offset + tl2 - 1 ELSE p2[s].p_offset
    BY ShiftedFields
  <2>3. ph \in Seq(Phdr) /\ tlen \in Nat \ {0}
    BY <1>0, <1>2
  <2>. QED
    BY <2>1, <2>2, <2>3, Zenon DEF ph2
<1>5. SUFFICES ASSUME NEW s \in 1..Len(ph)
               PROVE  /\ EndP(ph2, s) <= Len(c2)
                      /\ \A k \in 0..(ph2[s].p_filesz - 1) : c2[OffP(ph2, s) + k + 1] = <<s, k>>
                      /\ s < Len(ph2) => OffP(ph2, s + 1) = EndP(ph2, s)
                      /\ \A r \in 1..Len(ph2) : s < r => EndP(ph2, s) <= OffP(ph2, r)
  BY <1>4, Zenon DEF SegFacts
<1> DEFINE os == ph[s].p_offset
           fs == ph[s].p_filesz
           o2 == ph2[s].p_offset
           f2 == ph2[s].p_filesz
<1>6. /\ os \in Nat /\ fs \in Nat /\ os + fs <= L
      /\ o2 = (IF s > t THEN os + tlen - 1 ELSE os)
      /\ f2 = (IF s = t THEN tlen ELSE fs)
      /\ s = t => os = a /\ fs = 1
      /\ s < t => os + fs <= a
      /\ s > t => n <= os
  <2>1. os \in Nat /\ fs \in Nat /\ os + fs <= L
    BY <1>1 DEF os, fs
  <2>2. o2 = (IF s > t THEN os + tlen - 1 ELSE os) /\ f2 = (IF s = t THEN tlen ELSE fs)
    BY <1>4, <1>2a DEF o2, f2, os, fs
  <2>3. s = t => os = a /\ fs = 1
    BY <1>2a DEF os, fs
  <2>4. s < t => os + fs <= a
    BY <1>0, <1>1, <1>2a DEF os, fs
  <2>5. s > t => n <= os
    <3>1. t \in 1..Len(ph)
      BY <1>0
    <3>. QED
      BY <3>1, <1>1, <1>2, <1>2a DEF os
  <2>. QED
    BY <2>1, <2>2, <2>3, <2>4, <2>5
<1>6b. /\ s \in Nat /\ t \in Nat /\ a \in Nat /\ n \in Nat /\ tlen \in Nat \ {0}
       /\ L \in Nat /\ n = a + 1 /\ n <= L
  BY <1>0a, <1>2
<1>6p. PICK xo, xf, yo, yf \in Int : xo = os /\ xf = fs /\ yo = o2 /\ yf = f2
  <2>1. os \in Int /\ fs \in Int /\ o2 \in Int /\ f2 \in Int
    BY <1>6, <1>6b
  <2>. QED
    BY <2>1, Zenon
<1>6q. /\ xo \in Nat /\ xf \in Nat /\ xo + xf <= L
       /\ yo = (IF s > t THEN xo + tlen - 1 ELSE xo)
       /\ yf = (IF s = t THEN tlen ELSE xf)
       /\ s = t => xo = a /\ xf = 1
       /\ s < t => xo + xf <= a
       /\ s > t => n <= xo
  BY <1>6, <1>6p, Zenon
<1>6c. \A k \in Int :
         /\ yo + yf <= a + tlen + (L - n)
         /\ k \in 0..(yf - 1) =>
              /\ s < t => yo + k + 1 \in 1..a /\ yo = xo /\ k \in 0..(xf - 1)
              /\ s = t => yo + k + 1 \in (a + 1)..(a + tlen) /\ yo + k + 1 - a - 1 = k
              /\ s > t => /\ yo + k + 1 \in (a + tlen + 1)..(a + tlen + (L - n))
                          /\ yo + k + 1 - a - tlen + n = xo + k + 1
                          /\ k \in 0..(xf - 1)
  BY <1>6q, <1>6b
<1>7. EndP(ph2, s) <= Len(c2)
  <2>1. EndP(ph2, s) = o2 + f2
    BY DEF EndP, o2, f2
  <2>2. yo + yf <= a + tlen + (L - n)
    BY <1>6c, Zenon
  <2>3. EndP(ph2, s) = yo + yf
    BY <2>1, <1>6p, Zenon
  <2>4. Len(c2) \in Nat
    BY <1>3, LenProperties
  <2>5. PICK lc \in Nat : lc = Len(c2) /\ lc >= a + tlen + (L - n)
    BY <2>4, <1>3a, Zenon
  <2>6. yo + yf <= lc
    BY <2>2, <2>5, <1>6b, <1>6p, SMTT(40)
  <2>. QED
    BY <2>3, <2>5, <2>6, Zenon
<1>8. \A k \in 0..(ph2[s].p_filesz - 1) : c2[OffP(ph2, s) + k + 1] = <<s, k>>
  <2> SUFFICES ASSUME NEW k \in 0..(yf - 1) PROVE c2[yo + k + 1] = <<s, k>>
    BY <1>6p, Zenon DEF OffP, o2, f2
  <2>0. \A j \in 0..(xf - 1) : c[xo + j + 1] = <<s, j>>
    BY <1>1, <1>6p, Zenon DEF os, fs
  <2>a. k \in Int
    BY <1>6p
  <2>b. /\ s < t => yo + k + 1 \in 1..a /\ yo = xo /\ k \in 0..(xf - 1)
        /\ s = t => yo + k + 1 \in (a + 1)..(a + tlen) /\ yo + k + 1 - a - 1 = k
        /\ s > t => /\ yo + k + 1 \in (a + tlen + 1)..(a + tlen + (L - n))
                    /\ yo + k + 1 - a - tlen + n = xo + k + 1
                    /\ k \in 0..(xf - 1)
    BY <2>a, <1>6c, Zenon
  <2>1. CASE s < t
    <3>1. yo + k + 1 \in 1..a /\ yo = xo /\ k \in 0..(xf - 1)
      BY <2>1, <2>b, Zenon
    <3>2. c2[yo + k + 1] = c[yo + k + 1]
      BY <3>1, <1>3b, Zenon
    <3>3. c[xo + k + 1] = <<s, k>>
      BY <3>1, <2>0, Zenon
    <3>. QED
      BY <3>1, <3>2, <3>3, Zenon
  <2>2. CASE s = t
    <3>1. yo + k + 1 \in (a + 1)..(a + tlen) /\ yo + k + 1 - a - 1 = k
      BY <2>2, <2>b, Zenon
    <3>2. PICK p0 \in (a + 1)..(a + tlen) : p0 = yo + k + 1 /\ p0 - a - 1 = k
      BY <3>1, <2>a, <1>6b, SMTT(30)
    <3>3. c2[p0] = <<t, p0 - a - 1>>
      BY <3>2, <1>3c, Zenon
    <3>. QED
      BY <2>2, <3>2, <3>3, Zenon
  <2>3. CASE s > t
    <3>1. /\ yo + k + 1 \in (a + tlen + 1)..(a + tlen + (L - n))
          /\ yo + k + 1 - a - tlen + n = xo + k + 1
          /\ k \in 0..(xf - 1)
      BY <2>3, <2>b, Zenon
    <3>2. PICK p0 \in (a + tlen + 1)..(a + tlen + (L - n)) :
            p0 = yo + k + 1 /\ p0 - a - tlen + n = xo + k + 1
      BY <3>1, <2>a, <1>6b, SMTT(30)
    <3>3. c2[p0] = c[p0 - a - tlen + n]
      BY <3>2, <1>3d, Zenon
    <3>4. c[xo + k + 1] = <<s, k>>
      BY <3>1, <2>0, Zenon
    <3>. QED
      BY <3>2, <3>3, <3>4, Zenon
  <2>. QED
    BY <2>1, <2>2, <2>3, <1>6b, <2>a, SMTT(30)
<1>11. \A r \in 1..Len(ph) : s < r =>
         /\ o2 + f2 <= ph2[r].p_offset
         /\ r = s + 1 => ph2[r].p_offset = o2 + f2
  <2> SUFFICES ASSUME NEW r \in 1..Len(ph), s < r
               PROVE  /\ o2 + f2 <= ph2[r].p_offset
                      /\ r = s + 1 => ph2[r].p_offset = o2 + f2
    OBVIOUS
  <2>1. /\ ph[r].p_offset \in Nat /\ r \in Nat
        /\ os + fs <= ph[r].p_offset
        /\ ph2[r].p_offset = IF r > t THEN ph[r].p_offset + tlen - 1 ELSE ph[r].p_offset
        /\ r = s + 1 => ph[r].p_offset = os + fs
    <3>1. ph[r].p_offset \in Nat /\ os + fs <= ph[r].p_offset
          /\ (s < Len(ph) => ph[s + 1].p_offset = os + fs)
      BY <1>1 DEF os, fs
    <3>2. ph2[r].p_offset = IF r > t THEN ph[r].p_offset + tlen - 1 ELSE ph[r].p_offset
      BY <1>4
    <3>3. r \in Nat /\ (r = s + 1 => s < Len(ph))
      BY <1>6b
    <3>. QED
      BY <3>1, <3>2, <3>3, Zenon
  <2>2. t < r => n <= ph[r].p_offset
    <3>1. t \in 1..Len(ph)
      BY <1>0
    <3>. QED
      BY <3>1, <1>1, <1>2, <1>2a
  <2>3. r = t => ph[r].p_offset = a
    BY <1>2a
  <2>4. PICK zo, zo2 \in Int : zo = ph[r].p_offset /\ zo2 = ph2[r].p_offset
    <3>1. ph[r].p_offset \in Int /\ ph2[r].p_offset \in Int
      BY <2>1, <1>6b
    <3>. QED
      BY <3>1, Zenon
  <2>5. /\ zo \in Nat /\ r \in Nat /\ xo + xf <= zo
        /\ zo2 = (IF r > t THEN zo + tlen - 1 ELSE zo)
        /\ r = s + 1 => zo = xo + xf
        /\ t < r => n <= zo
        /\ r = t => zo = a
    BY <2>1, <2>2, <2>3, <2>4, <1>6p, Zenon
  <2>6. yo + yf <= zo2 /\ (r = s + 1 => zo2 = yo + yf)
    BY <2>5, <1>6q, <1>6b
  <2>. QED
    BY <2>4, <2>6, <1>6p, Zenon
<1>9. s < Len(ph2) => OffP(ph2, s + 1) = EndP(ph2, s)
  <2> SUFFICES ASSUME s < Len(ph) PROVE ph2[s + 1].p_offset = o2 + f2
    BY <1>4 DEF OffP, EndP, o2, f2
  <2>1. s + 1 \in 1..Len(ph) /\ s < s + 1
    BY <1>0a, <1>6b
  <2>. QED
    BY <2>1, <1>11, Zenon
<1>10. \A r \in 1..Len(ph2) : s < r => EndP(ph2, s) <= OffP(ph2, r)
  BY <1>4, <1>11, Zenon DEF OffP, EndP, o2, f2
<1>. QED
  BY <1>7, <1>8, <1>9, <1>10

(* The two files MergedFile allows, in terms of SpliceBody.              *)
LEMMA MergedFileIs ==
  ASSUME NEW a, NEW n, NEW img
  PROVE  MergedFile(a, n, img) =
           {SpliceBody(core, a, n, img),
            SpliceBody(core, a, n, img) \o [k \in 1..(n - a) |-> Junk]}
BY DEF MergedFile, SpliceBody

(* What SpliceFacts says of the two files MergedFile allows.             *)
LEMMA MergedSpliced ==
  ASSUME NEW c \in Seq(Label), NEW a \in Nat, NEW n \in Nat, NEW img \in Seq(Label),
         a <= n, n <= Len(c), n - a \in Nat,
         NEW c2 \in {SpliceBody(c, a, n, img),
                     SpliceBody(c, a, n, img) \o [k \in 1..(n - a) |-> Junk]}
  PROVE  SplicedAs(c2, c, a, n, img)
BY SpliceFacts

(* ShiftedPhdrs is ShiftedP of the current header table.                  *)
LEMMA ShiftedPhdrsIs ==
  ASSUME NEW t, NEW tlen
  PROVE  ShiftedPhdrs(t, tlen) = ShiftedP(phdr, t, tlen)
BY DEF ShiftedPhdrs, ShiftedP

(* A merge at a header t whose segment has one page in the file, with the *)
(* image of its whole mapping, yields a file of labels whose segments are *)
(* all where the edited headers say.                                      *)
(* The text header t of ph starts at a, the next at n, and t's mapping   *)
(* is tlen pages long.                                                    *)
HdrAt(ph, t, a, n, tlen) ==
  a = ph[t].p_offset /\ n = ph[t + 1].p_offset /\ tlen = ph[t].p_memsz

LEMMA MergeStepCore ==
  ASSUME NEW c \in Seq(Label), NEW ph \in Seq(Phdr), NEW t, NEW a, NEW n, NEW tlen, NEW c2,
         Len(ph) <= NSeg, SegFacts(ph, c), t \in 1..(Len(ph) - 1), ph[t].p_filesz = 1,
         HdrAt(ph, t, a, n, tlen),
         c2 \in {SpliceBody(c, a, n, Pages(t, tlen)),
                 SpliceBody(c, a, n, Pages(t, tlen)) \o [k \in 1..(n - a) |-> Junk]}
  PROVE  /\ c2 \in Seq(Label)
         /\ SegFacts(ShiftedP(ph, t, tlen), c2)
<1>0. Len(ph) \in Nat /\ Len(c) \in Nat
  BY LenProperties
<1>1. /\ t \in Seg /\ t \in 1..Len(ph) /\ t + 1 \in 1..Len(ph)
        /\ t < Len(ph)
  BY <1>0, NSegAssumption, SMTT(30) DEF Seg
<1>2. ph[t] \in Phdr /\ ph[t + 1] \in Phdr
  BY <1>1, ElementOfSeq, Zenon
<1>3. a \in Nat /\ n \in Nat /\ tlen \in Nat \ {0}
  BY <1>2, PhdrFields, Zenon DEF HdrAt
<1>4. n = a + 1 /\ a + 1 <= Len(c)
  <2>1. OffP(ph, t + 1) = EndP(ph, t) /\ EndP(ph, t) <= Len(c)
    BY <1>1, Zenon DEF SegFacts
  <2>2. OffP(ph, t + 1) = n /\ EndP(ph, t) = a + 1
    BY DEF OffP, EndP, HdrAt
  <2>. QED
    BY <2>1, <2>2, <1>0, <1>3, SMTT(30)
<1>5. a <= n /\ n <= Len(c) /\ n - a \in Nat
  BY <1>0, <1>3, <1>4, SMTT(30)
<1>6. Pages(t, tlen) \in Seq(Label) /\ Len(Pages(t, tlen)) = tlen /\ \A p \in 1..tlen : Pages(t, tlen)[p] = <<t, p - 1>>
  BY <1>1, <1>3, PagesProperties
<1>7. SplicedAs(c2, c, a, n, Pages(t, tlen))
  <2>1. c \in Seq(Label) /\ a \in Nat /\ n \in Nat /\ Pages(t, tlen) \in Seq(Label)
        /\ n - a \in Nat /\ a <= n /\ n <= Len(c)
    BY <1>3, <1>5, <1>6
  <2>. QED
    BY <2>1, MergedSpliced, Zenon
<1>8. MergePre(c, ph, t, a, n, tlen, Pages(t, tlen), c2)
  BY <1>0, <1>6, <1>7, Zenon DEF MergePre, HdrAt
<1>. QED
  BY <1>7, <1>8, MergeSegments, Zenon DEF SplicedAs

(* The header the kernel writes for a mapping whose data it appends to   *)
(* a file c: filesz pages of a mapping of memsz pages, at the file's end.  *)
DumpHdr(c, filesz, memsz) == [p_offset |-> Len(c), p_filesz |-> filesz, p_memsz |-> memsz]

(* Appending a segment's header and its pages at the end of the file     *)
(* keeps every segment where its header says, and the file ends where the *)
(* new segment ends.                                                      *)
LEMMA DumpAppend ==
  ASSUME NEW c \in Seq(Label), NEW ph \in Seq(Phdr), Len(ph) < NSeg, SegFacts(ph, c),
         ph # <<>> => EndP(ph, Len(ph)) = Len(c),
         NEW f \in Nat, NEW m \in 1..MaxPages
  PROVE  /\ Append(ph, DumpHdr(c, f, m)) \in Seq(Phdr)
         /\ Len(Append(ph, DumpHdr(c, f, m))) = Len(ph) + 1
         /\ c \o Pages(Len(ph) + 1, f) \in Seq(Label)
         /\ SegFacts(Append(ph, DumpHdr(c, f, m)), c \o Pages(Len(ph) + 1, f))
         /\ EndP(Append(ph, DumpHdr(c, f, m)), Len(ph) + 1) = Len(c \o Pages(Len(ph) + 1, f))
<1> DEFINE h == DumpHdr(c, f, m)
           s0 == Len(ph) + 1
           ph2 == Append(ph, h)
           P == Pages(s0, f)
           c2 == c \o P
           L == Len(c)
<1>1. Len(ph) \in Nat /\ L \in Nat /\ s0 \in Seg /\ s0 \in Nat
  BY LenProperties, NSegAssumption DEF Seg
<1>2. h \in Phdr /\ h.p_offset = L /\ h.p_filesz = f
  BY <1>1 DEF DumpHdr, Phdr
<1>3. /\ ph2 \in Seq(Phdr) /\ Len(ph2) = s0
      /\ \A i \in 1..Len(ph) : ph2[i] = ph[i]
      /\ ph2[s0] = h
  BY <1>2, AppendProperties
<1>4. P \in Seq(Label) /\ Len(P) = f /\ \A p \in 1..f : P[p] = <<s0, p - 1>>
  BY <1>1, PagesProperties
<1>5. /\ c2 \in Seq(Label) /\ Len(c2) = L + f
      /\ \A p \in 1..(L + f) : c2[p] = IF p <= L THEN c[p] ELSE P[p - L]
  <2>1. \A s1, s2 \in Seq(Label) :
          /\ s1 \o s2 \in Seq(Label)
          /\ Len(s1 \o s2) = Len(s1) + Len(s2)
          /\ \A i \in 1 .. Len(s1) + Len(s2) :
                (s1 \o s2)[i] = IF i <= Len(s1) THEN s1[i] ELSE s2[i - Len(s1)]
    BY ConcatProperties
  <2>2. /\ c2 \in Seq(Label) /\ Len(c2) = Len(c) + Len(P)
        /\ \A i \in 1 .. Len(c) + Len(P) : c2[i] = IF i <= Len(c) THEN c[i] ELSE P[i - Len(c)]
    BY <2>1, <1>4, Zenon
  <2>. QED
    BY <2>2, <1>4
<1>6. EndP(ph2, s0) = Len(c2)
  BY <1>2, <1>3, <1>5 DEF EndP
<1>7. ASSUME NEW s \in 1..Len(ph)
      PROVE  /\ EndP(ph2, s) <= Len(c2)
             /\ \A k \in 0..(ph2[s].p_filesz - 1) : c2[OffP(ph2, s) + k + 1] = <<s, k>>
             /\ s < Len(ph2) => OffP(ph2, s + 1) = EndP(ph2, s)
             /\ \A r \in 1..Len(ph2) : s < r => EndP(ph2, s) <= OffP(ph2, r)
  <2>1. ph2[s] = ph[s] /\ ph[s] \in Phdr
    BY <1>3, ElementOfSeq
  <2>2. PICK o, e \in Nat : o = ph[s].p_offset /\ e = ph[s].p_filesz
    BY <2>1, PhdrFields, Zenon
  <2>3. /\ o + e <= L
        /\ \A k \in 0..(e - 1) : c[o + k + 1] = <<s, k>>
        /\ s < Len(ph) => OffP(ph, s + 1) = o + e
        /\ \A r \in 1..Len(ph) : s < r => o + e <= OffP(ph, r)
    BY <2>2, Zenon DEF SegFacts, EndP, OffP
  <2>4. EndP(ph2, s) = o + e /\ OffP(ph2, s) = o /\ ph2[s].p_filesz = e
    BY <2>1, <2>2, Zenon DEF EndP, OffP
  <2>5. o + e <= Len(c2)
    BY <2>3, <1>1, <1>5
  <2>6. \A k \in 0..(e - 1) : c2[o + k + 1] = <<s, k>>
    <3> SUFFICES ASSUME NEW k \in 0..(e - 1) PROVE c2[o + k + 1] = <<s, k>>
      OBVIOUS
    <3>1. PICK p0 \in 1..(L + f) : p0 = o + k + 1 /\ p0 <= L
      BY <2>3, <1>1, SMTT(30)
    <3>2. c2[p0] = c[p0]
      BY <3>1, <1>5
    <3>. QED
      BY <3>1, <3>2, <2>3, Zenon
  <2>7. s < Len(ph2) => OffP(ph2, s + 1) = o + e
    <3>1. CASE s < Len(ph)
      <4>1. s + 1 \in 1..Len(ph)
        BY <3>1, <1>1
      <4>. QED
        BY <4>1, <3>1, <2>3, <1>3, Zenon DEF OffP
    <3>2. CASE s = Len(ph)
      <4>1. ph # <<>> /\ s + 1 = s0
        BY <3>2, <1>1
      <4>2. EndP(ph, Len(ph)) = L /\ EndP(ph, Len(ph)) = o + e
        BY <4>1, <3>2, <2>2 DEF EndP
      <4>. QED
        BY <4>1, <4>2, <1>2, <1>3 DEF OffP
    <3>. QED
      BY <3>1, <3>2, <1>1
  <2>8. \A r \in 1..Len(ph2) : s < r => o + e <= OffP(ph2, r)
    <3> SUFFICES ASSUME NEW r \in 1..Len(ph2), s < r PROVE o + e <= OffP(ph2, r)
      OBVIOUS
    <3>1. CASE r \in 1..Len(ph)
      BY <3>1, <2>3, <1>3, Zenon DEF OffP
    <3>2. CASE r = s0
      BY <3>2, <2>3, <1>2, <1>3 DEF OffP
    <3>. QED
      BY <3>1, <3>2, <1>1, <1>3
  <2>. QED
    BY <2>4, <2>5, <2>6, <2>7, <2>8
<1>8. /\ EndP(ph2, s0) <= Len(c2)
      /\ \A k \in 0..(ph2[s0].p_filesz - 1) : c2[OffP(ph2, s0) + k + 1] = <<s0, k>>
      /\ s0 < Len(ph2) => OffP(ph2, s0 + 1) = EndP(ph2, s0)
      /\ \A r \in 1..Len(ph2) : s0 < r => EndP(ph2, s0) <= OffP(ph2, r)
  <2>1. \A k \in 0..(f - 1) : c2[L + k + 1] = <<s0, k>>
    <3> SUFFICES ASSUME NEW k \in 0..(f - 1) PROVE c2[L + k + 1] = <<s0, k>>
      OBVIOUS
    <3>1. PICK p0 \in 1..(L + f) : p0 = L + k + 1 /\ ~(p0 <= L) /\ p0 - L \in 1..f
          /\ p0 - L - 1 = k
      BY <1>1, SMTT(30)
    <3>2. c2[p0] = P[p0 - L]
      BY <3>1, <1>5
    <3>3. P[p0 - L] = <<s0, p0 - L - 1>>
      BY <3>1, <1>4
    <3>. QED
      BY <3>1, <3>2, <3>3, Zenon
  <2>2. ph2[s0].p_filesz = f /\ OffP(ph2, s0) = L /\ Len(ph2) = s0
    BY <1>2, <1>3 DEF OffP
  <2>3. \A k \in 0..(ph2[s0].p_filesz - 1) : c2[OffP(ph2, s0) + k + 1] = <<s0, k>>
    BY <2>1, <2>2
  <2>4. \A r \in 1..Len(ph2) : ~(s0 < r)
    BY <2>2, <1>1
  <2>5. EndP(ph2, s0) <= Len(c2) /\ ~(s0 < Len(ph2))
    BY <2>2, <1>6, <1>5, <1>1
  <2>. QED
    BY <2>3, <2>4, <2>5, Zenon
<1>. QED
  <2>1. SegFacts(ph2, c2)
    <3> SUFFICES ASSUME NEW s \in 1..Len(ph2)
                 PROVE  /\ EndP(ph2, s) <= Len(c2)
                        /\ \A k \in 0..(ph2[s].p_filesz - 1) : c2[OffP(ph2, s) + k + 1] = <<s, k>>
                        /\ s < Len(ph2) => OffP(ph2, s + 1) = EndP(ph2, s)
                        /\ \A r \in 1..Len(ph2) : s < r => EndP(ph2, s) <= OffP(ph2, r)
      BY DEF SegFacts
    <3>1. s \in 1..Len(ph) \/ s = s0
      BY <1>1, <1>3
    <3>. QED
      BY <3>1, <1>7, <1>8
  <2>. QED
    BY <2>1, <1>3, <1>5, <1>6

(* A text whose merge has not run yet still has the kernel's one page.    *)
Pending(s) ==
  \/ maps[s] = "exe_text" /\ stage \in {"dump", "pmem", "exe"}
  \/ maps[s] = "lib_text" /\ (stage \in {"dump", "pmem", "exe"} \/ (stage = "libs" /\ s >= cur))

(* A text whose merge has run has its whole image in the file.            *)
Merged(s) ==
  stage \in {"libs", "done"} /\ (maps[s] = "exe_text" \/ (text_len[s] > 0 /\ s < cur))

IInv ==
  /\ TypeOK
  /\ stage # "dump" => Len(phdr) = NSeg
  /\ stage = "done" => cur = NSeg + 1
  /\ stage = "dump" /\ phdr # <<>> => EndP(phdr, Len(phdr)) = Len(core)
  /\ SegFacts(phdr, core)
  /\ \A s \in 1..Len(phdr) :
       /\ Pending(s) => phdr[s].p_filesz = 1
       /\ Merged(s) => phdr[s].p_filesz = phdr[s].p_memsz
  /\ \A s \in Seg : text_len[s] > 0 =>
       /\ maps[s] = "lib_text" /\ stage # "dump"
       /\ text_len[s] = phdr[s].p_memsz

(* The kernel dumps only the first page of a text mapping (the rule the   *)
(* merge relies on; the other rules are the subject of a TLC run).        *)
FirstPage == TextDump = {"first_page"}

(* What the kernel dumps of a mapping under that rule.                    *)
LEMMA DumpedFirst ==
  ASSUME FirstPage, NEW kind, NEW m \in 1..MaxPages
  PROVE  /\ DumpedPages(kind, m) \subseteq Nat
         /\ kind # "other" => DumpedPages(kind, m) = {1}
<1>1. CASE kind = "other"
  BY <1>1 DEF DumpedPages
<1>2. CASE kind # "other"
  BY <1>2 DEF DumpedPages, FirstPage
<1>. QED
  BY <1>1, <1>2

-----------------------------------------------------------------------------
(* Each action preserves IInv.                                            *)
LEMMA InitIInv == Init => IInv
<1> SUFFICES ASSUME Init PROVE IInv
  OBVIOUS
<1>1. core \in Seq(Label) /\ phdr = <<>> /\ stage = "dump"
  BY HdrPagesAssumption, PagesProperties DEF Init
<1>2. TypeOK
  <2>1. maps \in Layouts /\ text_len \in [Seg -> 0..MaxPages] /\ stage \in Stages
    BY MaxPagesAssumption DEF Init, Stages
  <2>2. phdr \in Seq(Phdr) /\ Len(phdr) <= NSeg
    BY <1>1, NSegAssumption
  <2>3. cur \in 1..(NSeg + 1) /\ tmpfiles \in Nat
    BY NSegAssumption DEF Init
  <2>. QED
    BY <1>1, <2>1, <2>2, <2>3 DEF TypeOK
<1>3. SegFacts(phdr, core) /\ \A s \in 1..Len(phdr) : FALSE
  BY <1>1 DEF SegFacts
<1>4. \A s \in Seg : ~(text_len[s] > 0)
  BY DEF Init
<1>. QED
  BY <1>1, <1>2, <1>3, <1>4 DEF IInv

LEMMA DumpSegmentIInv ==
  ASSUME IInv, FirstPage, KernelDumpSegment
  PROVE  IInv'
<1>0. /\ TypeOK /\ SegFacts(phdr, core)
      /\ stage = "dump" /\ Len(phdr) < NSeg
      /\ phdr # <<>> => EndP(phdr, Len(phdr)) = Len(core)
      /\ \A s \in 1..Len(phdr) : Pending(s) => phdr[s].p_filesz = 1
      /\ \A s \in Seg : text_len[s] > 0 => stage # "dump"
      /\ UNCHANGED <<maps, text_len, stage, cur, tmpfiles>>
  BY DEF IInv, KernelDumpSegment
<1>a. PICK memsz \in 1..MaxPages :
        \E filesz \in DumpedPages(maps[Len(phdr) + 1], memsz) :
          /\ phdr' = Append(phdr, DumpHdr(core, filesz, memsz))
          /\ core' = core \o Pages(Len(phdr) + 1, filesz)
  BY DEF KernelDumpSegment, DumpHdr
<1>1. PICK filesz \in DumpedPages(maps[Len(phdr) + 1], memsz) :
        /\ phdr' = Append(phdr, DumpHdr(core, filesz, memsz))
        /\ core' = core \o Pages(Len(phdr) + 1, filesz)
  BY <1>a
<1>2. filesz \in Nat /\ (maps[Len(phdr) + 1] # "other" => filesz = 1)
  BY <1>1, DumpedFirst
<1>3. /\ phdr' \in Seq(Phdr) /\ Len(phdr') = Len(phdr) + 1
      /\ core' \in Seq(Label)
      /\ SegFacts(phdr', core')
      /\ EndP(phdr', Len(phdr')) = Len(core')
  <2>1. /\ Append(phdr, DumpHdr(core, filesz, memsz)) \in Seq(Phdr)
        /\ Len(Append(phdr, DumpHdr(core, filesz, memsz))) = Len(phdr) + 1
        /\ core \o Pages(Len(phdr) + 1, filesz) \in Seq(Label)
        /\ SegFacts(Append(phdr, DumpHdr(core, filesz, memsz)),
                    core \o Pages(Len(phdr) + 1, filesz))
        /\ EndP(Append(phdr, DumpHdr(core, filesz, memsz)), Len(phdr) + 1)
             = Len(core \o Pages(Len(phdr) + 1, filesz))
    <3>1. core \in Seq(Label) /\ phdr \in Seq(Phdr)
      BY <1>0 DEF TypeOK
    <3>. QED
      BY <3>1, <1>0, <1>2, DumpAppend
  <2>. QED
    BY <2>1, <1>1, Zenon
<1>4. /\ \A s \in 1..Len(phdr) : phdr'[s] = phdr[s]
      /\ phdr'[Len(phdr) + 1].p_filesz = filesz
      /\ Len(phdr) \in Nat
  BY <1>0, <1>1, AppendProperties DEF TypeOK, DumpHdr
<1>5. TypeOK'
  <2>1. Len(phdr') <= NSeg
    BY <1>0, <1>3, <1>4, NSegAssumption
  <2>2. /\ maps' \in Layouts /\ text_len' \in [Seg -> 0..MaxPages]
        /\ stage' \in Stages /\ cur' \in 1..(NSeg + 1) /\ tmpfiles' \in Nat
    BY <1>0 DEF TypeOK
  <2>. QED
    BY <1>3, <2>1, <2>2 DEF TypeOK
<1>6. ASSUME NEW s \in 1..Len(phdr'), Pending(s)'
      PROVE  phdr'[s].p_filesz = 1
  <2>1. CASE s \in 1..Len(phdr)
    BY <2>1, <1>6, <1>0, <1>4 DEF Pending
  <2>2. CASE s = Len(phdr) + 1
    <3>1. maps[s] # "other"
      BY <1>6, <1>0 DEF Pending
    <3>. QED
      BY <2>2, <3>1, <1>2, <1>4
  <2>. QED
    BY <2>1, <2>2, <1>3, <1>4
<1>7. \A s \in 1..Len(phdr') : ~Merged(s)'
  BY <1>0 DEF Merged
<1>8. \A s \in Seg : ~(text_len'[s] > 0)
  BY <1>0
<1>. QED
  BY <1>0, <1>3, <1>5, <1>6, <1>7, <1>8 DEF IInv

LEMMA DumpDoneIInv ==
  ASSUME IInv, KernelDumpDone
  PROVE  IInv'
<1>0. /\ TypeOK /\ SegFacts(phdr, core)
      /\ stage = "dump" /\ Len(phdr) = NSeg /\ stage' = "pmem"
      /\ \A s \in 1..Len(phdr) : Pending(s) => phdr[s].p_filesz = 1
      /\ \A s \in Seg : ~(text_len[s] > 0)
      /\ UNCHANGED <<maps, phdr, core, text_len, cur, tmpfiles>>
  BY DEF IInv, KernelDumpDone
<1>1. TypeOK'
  BY <1>0 DEF TypeOK, Stages
<1>2. \A s \in 1..Len(phdr') : Pending(s)' => phdr'[s].p_filesz = 1
  BY <1>0 DEF Pending
<1>3. \A s \in 1..Len(phdr') : ~Merged(s)'
  BY <1>0 DEF Merged
<1>. QED
  BY <1>0, <1>1, <1>2, <1>3 DEF IInv

LEMMA CreateMappingsIInv ==
  ASSUME IInv, CreateShlibTextMappings
  PROVE  IInv'
<1>0. /\ TypeOK /\ SegFacts(phdr, core)
      /\ stage = "pmem" /\ Len(phdr) = NSeg /\ stage' = "exe"
      /\ \A s \in 1..Len(phdr) : Pending(s) => phdr[s].p_filesz = 1
      /\ UNCHANGED <<maps, phdr, core, cur, tmpfiles>>
  BY DEF IInv, CreateShlibTextMappings
<1>1. PICK ok \in SUBSET LibTexts :
        text_len' = [i \in Seg |-> IF i \in ok THEN phdr[i].p_memsz ELSE 0]
  BY DEF CreateShlibTextMappings
<1>2. \A i \in Seg : phdr[i] \in Phdr /\ phdr[i].p_memsz \in 1..MaxPages
  <2> SUFFICES ASSUME NEW i \in Seg PROVE phdr[i] \in Phdr /\ phdr[i].p_memsz \in 1..MaxPages
    OBVIOUS
  <2>1. phdr[i] \in Phdr
    BY <1>0, ElementOfSeq DEF TypeOK, Seg
  <2>. QED
    BY <2>1 DEF Phdr
<1>3. text_len' \in [Seg -> 0..MaxPages]
  BY <1>1, <1>2, MaxPagesAssumption
<1>4. TypeOK'
  BY <1>0, <1>3 DEF TypeOK, Stages
<1>5. \A s \in 1..Len(phdr') : Pending(s)' => phdr'[s].p_filesz = 1
  BY <1>0 DEF Pending
<1>6. \A s \in 1..Len(phdr') : ~Merged(s)'
  BY <1>0 DEF Merged
<1>7. \A s \in Seg : text_len'[s] > 0 =>
        /\ maps'[s] = "lib_text" /\ stage' # "dump"
        /\ text_len'[s] = phdr'[s].p_memsz
  BY <1>0, <1>1 DEF LibTexts
<1>. QED
  BY <1>0, <1>4, <1>5, <1>6, <1>7 DEF IInv

LEMMA SkipIInv ==
  ASSUME IInv, SkipMapping
  PROVE  IInv'
<1>0. /\ TypeOK /\ SegFacts(phdr, core) /\ Len(phdr) = NSeg
      /\ stage = "libs" /\ cur <= NSeg /\ maps[cur] # "lib_text" /\ cur' = cur + 1
      /\ \A s \in 1..Len(phdr) :
           /\ Pending(s) => phdr[s].p_filesz = 1
           /\ Merged(s) => phdr[s].p_filesz = phdr[s].p_memsz
      /\ \A s \in Seg : text_len[s] > 0 =>
           /\ maps[s] = "lib_text" /\ stage # "dump"
           /\ text_len[s] = phdr[s].p_memsz
      /\ UNCHANGED <<maps, phdr, core, text_len, stage, tmpfiles>>
  BY DEF IInv, SkipMapping
<1>1. TypeOK'
  BY <1>0, NSegAssumption DEF TypeOK
<1>2. ASSUME NEW s \in 1..Len(phdr')
      PROVE  /\ Pending(s)' => phdr'[s].p_filesz = 1
             /\ Merged(s)' => phdr'[s].p_filesz = phdr'[s].p_memsz
  <2>1. Pending(s)' => Pending(s)
    <3>1. s \in Nat /\ cur \in Nat
      BY <1>0 DEF TypeOK
    <3>. QED
      BY <3>1, <1>0 DEF Pending
  <2>2. Merged(s)' => Merged(s)
    <3>1. s \in Seg /\ cur \in Seg
      BY <1>0 DEF TypeOK, Seg
    <3>2. text_len[cur] = 0
      BY <3>1, <1>0 DEF TypeOK
    <3>3. ASSUME text_len[s] > 0, s < cur + 1 PROVE s < cur
      <4>1. s # cur
        BY <3>2, <3>3
      <4>. QED
        BY <4>1, <3>1, <3>3 DEF Seg
    <3>4. /\ stage' = stage /\ maps' = maps /\ text_len' = text_len
          /\ cur' = cur + 1
      BY <1>0
    <3>. QED
      BY <3>3, <3>4, Zenon DEF Merged
  <2>. QED
    BY <2>1, <2>2, <1>0
<1>. QED
  BY <1>0, <1>1, <1>2 DEF IInv

LEMMA ShlibDoneIInv ==
  ASSUME IInv, MergeShlibTextsDone
  PROVE  IInv'
<1>0. /\ TypeOK /\ SegFacts(phdr, core) /\ Len(phdr) = NSeg
      /\ stage = "libs" /\ cur = NSeg + 1 /\ stage' = "done"
      /\ \A s \in 1..Len(phdr) : Merged(s) => phdr[s].p_filesz = phdr[s].p_memsz
      /\ \A s \in Seg : text_len[s] > 0 =>
           /\ maps[s] = "lib_text" /\ stage # "dump"
           /\ text_len[s] = phdr[s].p_memsz
      /\ UNCHANGED <<maps, phdr, core, text_len, cur, tmpfiles>>
  BY DEF IInv, MergeShlibTextsDone
<1>1. TypeOK'
  BY <1>0 DEF TypeOK, Stages
<1>2. \A s \in 1..Len(phdr') : ~Pending(s)'
  BY <1>0 DEF Pending
<1>3. \A s \in 1..Len(phdr') : Merged(s)' => Merged(s)
  BY <1>0 DEF Merged
<1>. QED
  BY <1>0, <1>1, <1>2, <1>3 DEF IInv

(* What a merge at a text header t does to the header table and the file, *)
(* when t's segment still has one page in the file.                       *)
MergeEffectPre(t) ==
  /\ TypeOK /\ Len(phdr) = NSeg /\ SegFacts(phdr, core)
  /\ t \in 1..(NSeg - 1) /\ phdr[t].p_filesz = 1
  /\ core' \in MergedFile(phdr[t].p_offset, phdr[t + 1].p_offset, Pages(t, phdr[t].p_memsz))
  /\ phdr' = ShiftedPhdrs(t, phdr[t].p_memsz)

LEMMA MergeEffect ==
  ASSUME NEW t, MergeEffectPre(t)
  PROVE  /\ core' \in Seq(Label) /\ phdr' \in Seq(Phdr) /\ Len(phdr') = NSeg
         /\ SegFacts(phdr', core')
         /\ \A s \in 1..NSeg :
              /\ phdr'[s].p_memsz = phdr[s].p_memsz
              /\ phdr'[s].p_filesz = IF s = t THEN phdr[s].p_memsz ELSE phdr[s].p_filesz
<1> DEFINE a == phdr[t].p_offset
           n == phdr[t + 1].p_offset
           tlen == phdr[t].p_memsz
           X == ShiftedP(phdr, t, tlen)
<1>a. /\ TypeOK /\ Len(phdr) = NSeg /\ SegFacts(phdr, core)
      /\ t \in 1..(NSeg - 1) /\ phdr[t].p_filesz = 1
  BY Zenon DEF MergeEffectPre
<1>0. phdr \in Seq(Phdr) /\ core \in Seq(Label) /\ Len(phdr) <= NSeg
      /\ t \in 1..(Len(phdr) - 1) /\ t \in Nat
  BY <1>a DEF TypeOK
<1>1. phdr[t] \in Phdr
  <2>1. t \in 1..Len(phdr)
    BY <1>0, NSegAssumption
  <2>. QED
    BY <2>1, <1>0, ElementOfSeq
<1>2. tlen \in Nat \ {0}
  BY <1>1, PhdrFields
<1>3. HdrAt(phdr, t, a, n, tlen)
  BY DEF HdrAt
<1>4. core' \in {SpliceBody(core, a, n, Pages(t, tlen)),
                 SpliceBody(core, a, n, Pages(t, tlen)) \o [k \in 1..(n - a) |-> Junk]}
  <2>1. core' \in MergedFile(a, n, Pages(t, tlen))
    BY Zenon DEF MergeEffectPre
  <2>. QED
    BY <2>1, MergedFileIs
<1>b. SegFacts(phdr, core) /\ phdr[t].p_filesz = 1
  BY <1>a
<1>5. core' \in Seq(Label) /\ SegFacts(X, core')
  BY <1>b, <1>0, <1>3, <1>4, MergeStepCore DEF X, a, n, tlen
<1>6. /\ X \in Seq(Phdr) /\ Len(X) = NSeg
      /\ \A s \in 1..NSeg :
           /\ X[s].p_memsz = phdr[s].p_memsz
           /\ X[s].p_filesz = IF s = t THEN phdr[s].p_memsz ELSE phdr[s].p_filesz
  <2>2. /\ X \in Seq(Phdr) /\ Len(X) = Len(phdr)
        /\ \A s \in 1..Len(phdr) :
             /\ X[s].p_memsz = phdr[s].p_memsz
             /\ X[s].p_filesz = IF s = t THEN phdr[s].p_memsz ELSE phdr[s].p_filesz
    BY <1>0, <1>2, ShiftedFields DEF X, tlen
  <2>. QED
    BY <2>2, <1>a
<1>7. phdr' = X
  <2>1. phdr' = ShiftedPhdrs(t, tlen)
    BY Zenon DEF MergeEffectPre
  <2>. QED
    BY <2>1, ShiftedPhdrsIs
<1>. QED
  BY <1>5, <1>6, <1>7, Zenon

(* The executable's text mapping, in a layout the maps file can show.    *)
LEMMA ExeTextFacts ==
  ASSUME maps \in Layouts
  PROVE  /\ ExeText \in Seg /\ maps[ExeText] = "exe_text"
         /\ ExeText # NSeg /\ maps[NSeg] = "other"
         /\ \A i \in Seg : maps[i] = "exe_text" => i = ExeText
<1>1. \E e \in Seg : maps[e] = "exe_text"
  BY DEF Layouts
<1>2. ExeText \in Seg /\ maps[ExeText] = "exe_text"
  BY <1>1 DEF ExeText
<1>3. maps[NSeg] = "other" /\ \A i \in Seg : maps[i] = "exe_text" => i = ExeText
  BY <1>2 DEF Layouts
<1>. QED
  BY <1>2, <1>3

LEMMA MergeExeIInv ==
  ASSUME IInv, MergeExeTextIntoCore
  PROVE  IInv'
<1> DEFINE t == ExeText
<1>0. /\ TypeOK /\ SegFacts(phdr, core) /\ Len(phdr) = NSeg
      /\ stage = "exe" /\ stage' = "libs" /\ cur' = 1
      /\ \A s \in 1..Len(phdr) : Pending(s) => phdr[s].p_filesz = 1
      /\ \A s \in Seg : text_len[s] > 0 =>
           /\ maps[s] = "lib_text" /\ stage # "dump"
           /\ text_len[s] = phdr[s].p_memsz
      /\ UNCHANGED <<maps, text_len, tmpfiles>>
  BY DEF IInv, MergeExeTextIntoCore
<1>1. /\ t \in Seg /\ maps[t] = "exe_text" /\ t \in 1..(NSeg - 1)
      /\ \A i \in Seg : maps[i] = "exe_text" => i = t
  <2>1. /\ t \in Seg /\ maps[t] = "exe_text" /\ t # NSeg
        /\ \A i \in Seg : maps[i] = "exe_text" => i = t
    BY <1>0, ExeTextFacts DEF TypeOK
  <2>. QED
    BY <2>1, NSegAssumption DEF Seg
<1>2. phdr[t].p_filesz = 1
  BY <1>0, <1>1 DEF Pending, Seg
<1>3. MergeEffectPre(t)
  <2>1. /\ core' \in MergedFile(phdr[t].p_offset, phdr[t + 1].p_offset,
                                Pages(t, phdr[t].p_memsz))
        /\ phdr' = ShiftedPhdrs(t, phdr[t].p_memsz)
    BY DEF MergeExeTextIntoCore
  <2>. QED
    BY <2>1, <1>0, <1>1, <1>2, Zenon DEF MergeEffectPre
<1>4. /\ core' \in Seq(Label) /\ phdr' \in Seq(Phdr) /\ Len(phdr') = NSeg
      /\ SegFacts(phdr', core')
      /\ \A s \in 1..NSeg :
           /\ phdr'[s].p_memsz = phdr[s].p_memsz
           /\ phdr'[s].p_filesz = IF s = t THEN phdr[s].p_memsz ELSE phdr[s].p_filesz
  BY <1>3, MergeEffect
<1>5. TypeOK'
  BY <1>0, <1>4, NSegAssumption DEF TypeOK, Stages
<1>6. ASSUME NEW s \in 1..Len(phdr')
      PROVE  /\ Pending(s)' => phdr'[s].p_filesz = 1
             /\ Merged(s)' => phdr'[s].p_filesz = phdr'[s].p_memsz
  <2>1. s \in Seg /\ s \in 1..Len(phdr)
    BY <1>0, <1>4 DEF Seg
  <2>2. Pending(s)' => phdr'[s].p_filesz = 1
    <3> SUFFICES ASSUME Pending(s)' PROVE phdr'[s].p_filesz = 1
      OBVIOUS
    <3>1. maps[s] = "lib_text" /\ s # t
      BY <1>0, <1>1 DEF Pending
    <3>2. Pending(s)
      BY <3>1, <1>0 DEF Pending
    <3>. QED
      BY <3>1, <3>2, <2>1, <1>0, <1>4
  <2>3. Merged(s)' => phdr'[s].p_filesz = phdr'[s].p_memsz
    <3> SUFFICES ASSUME Merged(s)' PROVE phdr'[s].p_filesz = phdr'[s].p_memsz
      OBVIOUS
    <3>1. s = t
      BY <2>1, <1>0, <1>1 DEF Merged, Seg
    <3>. QED
      BY <3>1, <2>1, <1>4
  <2>. QED
    BY <2>2, <2>3
<1>7. \A s \in Seg : text_len'[s] > 0 =>
        /\ maps'[s] = "lib_text" /\ stage' # "dump"
        /\ text_len'[s] = phdr'[s].p_memsz
  BY <1>0, <1>4 DEF Seg
<1>. QED
  BY <1>0, <1>4, <1>5, <1>6, <1>7 DEF IInv

LEMMA MergeTextImageIInv ==
  ASSUME IInv, MergeTextImage
  PROVE  IInv'
<1> DEFINE t == cur
<1>0. /\ TypeOK /\ SegFacts(phdr, core) /\ Len(phdr) = NSeg
      /\ stage = "libs" /\ cur <= NSeg /\ maps[cur] = "lib_text" /\ cur' = cur + 1
      /\ \A s \in 1..Len(phdr) :
           /\ Pending(s) => phdr[s].p_filesz = 1
           /\ Merged(s) => phdr[s].p_filesz = phdr[s].p_memsz
      /\ \A s \in Seg : text_len[s] > 0 =>
           /\ maps[s] = "lib_text" /\ stage # "dump"
           /\ text_len[s] = phdr[s].p_memsz
      /\ UNCHANGED <<maps, text_len, stage>>
  BY DEF IInv, MergeTextImage
<1>1. /\ t \in Seg /\ t \in Nat /\ maps[NSeg] = "other" /\ t \in 1..(NSeg - 1)
  <2>1. t \in Seg /\ maps[NSeg] = "other"
    BY <1>0, ExeTextFacts DEF TypeOK, Seg
  <2>. QED
    BY <2>1, <1>0, NSegAssumption DEF Seg
<1>3. CASE text_len[t] > 0
  <2>1. /\ core' \in MergedFile(phdr[t].p_offset, phdr[t + 1].p_offset, Pages(t, text_len[t]))
        /\ phdr' = ShiftedPhdrs(t, text_len[t])
        /\ UNCHANGED tmpfiles
    BY <1>3 DEF MergeTextImage
  <2>2. text_len[t] = phdr[t].p_memsz /\ phdr[t].p_filesz = 1
    BY <1>0, <1>1, <1>3 DEF Pending, Seg
  <2>3. MergeEffectPre(t)
    BY <2>1, <2>2, <1>0, <1>1, Zenon DEF MergeEffectPre
  <2>4. /\ core' \in Seq(Label) /\ phdr' \in Seq(Phdr) /\ Len(phdr') = NSeg
        /\ SegFacts(phdr', core')
        /\ \A s \in 1..NSeg :
             /\ phdr'[s].p_memsz = phdr[s].p_memsz
             /\ phdr'[s].p_filesz = IF s = t THEN phdr[s].p_memsz ELSE phdr[s].p_filesz
    BY <2>3, MergeEffect
  <2>5. TypeOK'
    BY <1>0, <2>1, <2>4, NSegAssumption DEF TypeOK
  <2>6. ASSUME NEW s \in 1..Len(phdr')
        PROVE  /\ Pending(s)' => phdr'[s].p_filesz = 1
               /\ Merged(s)' => phdr'[s].p_filesz = phdr'[s].p_memsz
    <3>1. s \in Seg /\ s \in 1..Len(phdr) /\ s \in Nat
      BY <1>0, <2>4 DEF Seg
    <3>2. Pending(s)' => phdr'[s].p_filesz = 1
      <4> SUFFICES ASSUME Pending(s)' PROVE phdr'[s].p_filesz = 1
        OBVIOUS
      <4>1. s # t /\ Pending(s)
        BY <3>1, <1>0, <1>1 DEF Pending
      <4>. QED
        BY <4>1, <3>1, <1>0, <2>4
    <3>3. Merged(s)' => phdr'[s].p_filesz = phdr'[s].p_memsz
      <4> SUFFICES ASSUME Merged(s)' PROVE phdr'[s].p_filesz = phdr'[s].p_memsz
        OBVIOUS
      <4>1. s = t \/ (s # t /\ Merged(s))
        BY <3>1, <1>0, <1>1 DEF Merged
      <4>. QED
        BY <4>1, <3>1, <1>0, <2>4
    <3>. QED
      BY <3>2, <3>3
  <2>7. \A s \in Seg : text_len'[s] > 0 =>
          /\ maps'[s] = "lib_text" /\ stage' # "dump"
          /\ text_len'[s] = phdr'[s].p_memsz
    BY <1>0, <2>4 DEF Seg
  <2>. QED
    BY <1>0, <2>4, <2>5, <2>6, <2>7 DEF IInv
<1>4. CASE text_len[t] = 0
  <2>1. UNCHANGED <<phdr, core>> /\ tmpfiles' = tmpfiles + 1
    BY <1>4 DEF MergeTextImage
  <2>2. TypeOK'
    BY <1>0, <2>1, NSegAssumption DEF TypeOK
  <2>3. ASSUME NEW s \in 1..Len(phdr')
        PROVE  /\ Pending(s)' => phdr'[s].p_filesz = 1
               /\ Merged(s)' => phdr'[s].p_filesz = phdr'[s].p_memsz
    <3>1. s \in Nat /\ s \in 1..Len(phdr)
      BY <1>0, <2>1 DEF TypeOK
    <3>2. Pending(s)' => Pending(s)
      BY <3>1, <1>0, <1>1 DEF Pending
    <3>3. Merged(s)' => Merged(s)
      BY <3>1, <1>0, <1>1, <1>4 DEF Merged
    <3>. QED
      BY <3>1, <3>2, <3>3, <1>0, <2>1
  <2>. QED
    BY <1>0, <2>1, <2>2, <2>3 DEF IInv
<1>. QED
  BY <1>3, <1>4, <1>0, <1>1 DEF TypeOK

LEMMA StutterIInv ==
  ASSUME IInv, UNCHANGED vars
  PROVE  IInv'
BY DEF IInv, vars, TypeOK, SegFacts, OffP, EndP, Pending, Merged

-----------------------------------------------------------------------------
(* IInv is an invariant of the text-merge pass when the kernel dumps the  *)
(* first page of each text mapping: every step of the dump, of            *)
(* create_shlib_text_mappings, of merge_exe_text_into_core and of each    *)
(* iteration of merge_shlib_texts_into_core preserves it.                 *)
THEOREM IInvInvariant ==
  ASSUME FirstPage
  PROVE  Spec => []IInv
<1>1. Init => IInv
  BY InitIInv
<1>2. IInv /\ [Next]_vars => IInv'
  <2> SUFFICES ASSUME IInv, [Next]_vars PROVE IInv'
    OBVIOUS
  <2>1. CASE KernelDumpSegment
    BY <2>1, DumpSegmentIInv
  <2>2. CASE KernelDumpDone
    BY <2>2, DumpDoneIInv
  <2>3. CASE CreateShlibTextMappings
    BY <2>3, CreateMappingsIInv
  <2>4. CASE MergeExeTextIntoCore
    BY <2>4, MergeExeIInv
  <2>5. CASE SkipMapping
    BY <2>5, SkipIInv
  <2>6. CASE MergeTextImage
    BY <2>6, MergeTextImageIInv
  <2>7. CASE MergeShlibTextsDone
    BY <2>7, ShlibDoneIInv
  <2>8. CASE UNCHANGED vars
    BY <2>8, StutterIInv
  <2>. QED
    BY <2>1, <2>2, <2>3, <2>4, <2>5, <2>6, <2>7, <2>8 DEF Next
<1>. QED
  BY <1>1, <1>2, PTL DEF Spec

(* Type correctness of the pass: every header, page and counter stays in  *)
(* its range (in particular no merge indexes a header past the table).    *)
THEOREM TypeCorrect ==
  ASSUME FirstPage
  PROVE  Spec => []TypeOK
<1>1. IInv => TypeOK
  BY DEF IInv
<1>. QED
  BY <1>1, IInvInvariant, PTL

(* SegmentsIntact for every number of mappings and every mapping size:   *)
(* after any sequence of merges by merge_exe_text_into_core and           *)
(* merge_text_image, every PT_LOAD header's file range holds exactly its  *)
(* own segment's pages.                                                   *)
THEOREM SegmentsIntactInvariant ==
  ASSUME FirstPage
  PROVE  Spec => []SegmentsIntact
<1>1. IInv => SegmentsIntact
  <2> SUFFICES ASSUME IInv, NEW s \in 1..Len(phdr)
               PROVE  /\ phdr[s].p_offset + phdr[s].p_filesz <= Len(core)
                      /\ \A k \in 0..(phdr[s].p_filesz - 1) :
                           core[phdr[s].p_offset + k + 1] = <<s, k>>
    BY DEF SegmentsIntact
  <2>1. SegFacts(phdr, core)
    BY DEF IInv
  <2>. QED
    BY <2>1 DEF SegFacts, EndP, OffP
<1>. QED
  BY <1>1, IInvInvariant, PTL

(* AllTextsMerged for every number of mappings: when the loop of          *)
(* merge_shlib_texts_into_core is over, the executable's text and every   *)
(* library text read from /proc/pid/mem are whole in the core file.       *)
THEOREM AllTextsMergedInvariant ==
  ASSUME FirstPage
  PROVE  Spec => []AllTextsMerged
<1>1. IInv => AllTextsMerged
  <2> SUFFICES ASSUME IInv, stage = "done", NEW s \in Seg,
                      s = ExeText \/ text_len[s] > 0
               PROVE  phdr[s].p_filesz = phdr[s].p_memsz
    BY DEF AllTextsMerged
  <2>1. /\ TypeOK /\ Len(phdr) = NSeg /\ cur = NSeg + 1
        /\ \A r \in 1..Len(phdr) : Merged(r) => phdr[r].p_filesz = phdr[r].p_memsz
        /\ \A r \in Seg : text_len[r] > 0 => maps[r] = "lib_text"
    BY DEF IInv
  <2>2. s = ExeText => maps[s] = "exe_text"
    BY <2>1, ExeTextFacts DEF TypeOK
  <2>3. Merged(s)
    BY <2>1, <2>2 DEF Merged, Seg
  <2>. QED
    BY <2>1, <2>3 DEF Seg
<1>. QED
  BY <1>1, IInvInvariant, PTL

=============================================================================
