------------------------------ MODULE MCXRef -------------------------------
(* Model-checking instances of XRef, in pages.  An executable linked at    *)
(* V (8, or 0 for a PIE loaded at bias 20), dynamically or statically      *)
(* linked, its data segment whole or split by RELRO into a read-only and a *)
(* writable mapping; or linked with separate code segments (-z            *)
(* separate-code: R, RX, R, RW).  The core is written the way the kernel   *)
(* writes one: PT_NOTE at offset 0 and address 0, then one PT_LOAD per     *)
(* mapping, every page dumped, offsets one after the other.  The maps      *)
(* hold the heap, the vdso and the stack.                                  *)
EXTENDS XRef

Ph(t, o, v, fs, ms, fl) ==
  [p_type |-> t, p_offset |-> o, p_vaddr |-> v, p_filesz |-> fs, p_memsz |-> ms, p_flags |-> fl]
Seg(t, v) == Ph(t, 0, v, 1, 1, {"R"})
F(x, a, n) == [exe |-> x, addr |-> a, size |-> n]

(* The core's headers for mappings <<address, pages>>, after its note.    *)
CorePhdrs(ms) ==
  LET off[k \in 0..Len(ms)] == IF k = 0 THEN 1 ELSE off[k - 1] + ms[k][2]
  IN  <<Ph("NOTE", 0, 0, 0, 0, {})>> \o
        [k \in 1..Len(ms) |-> Ph("LOAD", off[k - 1], ms[k][1], ms[k][2], ms[k][2], {"R"})]

Others == << <<30, 1>>, <<40, 2>>, <<50, 1>>, <<60, 1>> >>
Maps == << [kind |-> "heap", base |-> 30], [kind |-> "vdso", base |-> 50],
           [kind |-> "stack", base |-> 60] >>
Lib == F(FALSE, 40, 2)

(* The dynamic array as the running process holds it: the pointer tags   *)
(* relocated by ld.so, DT_INIT at its link-time address.                  *)
Dyn(V, R, got, init) ==
  << [tag |-> "GNU_HASH", val |-> R], [tag |-> "STRTAB", val |-> R + 1],
     [tag |-> "JMPREL", val |-> R + 2], [tag |-> "PLTGOT", val |-> got],
     [tag |-> "INIT", val |-> V + init], [tag |-> "STRSZ", val |-> 1] >>

Classic(V, bias, dyn, relro) ==
  LET R == V + bias
      data == IF relro THEN << <<R + 4, 1>>, <<R + 5, 2>> >> ELSE << <<R + 4, 3>> >>
      dfiles == IF relro THEN <<F(TRUE, R + 4, 1), F(TRUE, R + 5, 1)>> ELSE <<F(TRUE, R + 4, 2)>>
  IN [etype |-> IF bias = 0 THEN "EXEC" ELSE "DYN", text_base |-> R, bias |-> bias,
      eh_hack |-> R + 2,
      ophdr |-> <<Ph("LOAD", 0, V, 3, 3, {"R", "X"})>>
                \o (IF dyn THEN <<Seg("INTERP", V + 1)>> ELSE <<>>)
                \o <<Seg("GNU_EH_FRAME", V + 2), Ph("LOAD", 3, V + 4, 2, 3, {"R", "W"})>>
                \o (IF dyn THEN <<Seg("DYNAMIC", V + 5)>> ELSE <<>>),
      files |-> <<F(TRUE, R, 3)>> \o dfiles \o <<Lib>>,
      cphdr |-> CorePhdrs(<< <<R, 3>> >> \o data \o Others),
      dyn |-> IF dyn THEN Dyn(V, R, R + 5, 1) ELSE <<>>,
      maps |-> Maps]

SeparateCode(V, bias) ==
  LET R == V + bias IN
  [etype |-> IF bias = 0 THEN "EXEC" ELSE "DYN", text_base |-> R, bias |-> bias,
   eh_hack |-> R + 4,
   ophdr |-> << Ph("LOAD", 0, V, 2, 2, {"R"}), Seg("INTERP", V + 1),
                Ph("LOAD", 2, V + 2, 2, 2, {"R", "X"}), Ph("LOAD", 4, V + 4, 1, 1, {"R"}),
                Seg("GNU_EH_FRAME", V + 4), Ph("LOAD", 5, V + 6, 2, 3, {"R", "W"}),
                Seg("DYNAMIC", V + 7) >>,
   files |-> << F(TRUE, R, 2), F(TRUE, R + 2, 2), F(TRUE, R + 4, 1), F(TRUE, R + 6, 2), Lib >>,
   cphdr |-> CorePhdrs(<< <<R, 2>>, <<R + 2, 2>>, <<R + 4, 1>>, <<R + 6, 3>> >> \o Others),
   dyn |-> Dyn(V, R, R + 7, 2),
   maps |-> Maps]

(* A process whose maps gave no executable base.                          *)
NoBase == [Classic(8, 0, TRUE, FALSE) EXCEPT !.text_base = 0]

MCClassicInputs ==
  {Classic(V, b, d, r) : <<V, b>> \in {<<8, 0>>, <<0, 20>>}, d \in BOOLEAN, r \in BOOLEAN}
    \cup {NoBase}

MCPieInputs == {Classic(0, 20, TRUE, FALSE)}
MCSeparateInputs == {SeparateCode(8, 0), SeparateCode(0, 20)}
=============================================================================
