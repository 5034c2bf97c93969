---------------------------- MODULE MCTextMerge ----------------------------
(* Model-checking instance of TextMerge: four mappings of up to three      *)
(* pages, so that a library text can sit before or after the executable's *)
(* text and a text can be longer than the one page the kernel dumps.      *)
EXTENDS TextMerge

MCNSeg == 4
MCMaxPages == 3
MCHdrPages == 1
(* The kernel dumps the first page of a text mapping whose file offset   *)
(* is 0 (the ELF header page): the case merge_text_image is written for. *)
MCTextDumpFirstPage == {"first_page"}
(* Every rule the kernel's coredump filter can apply to a text mapping.  *)
MCTextDumpAll == {"first_page", "none", "whole"}
=============================================================================
