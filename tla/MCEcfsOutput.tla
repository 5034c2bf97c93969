---------------------------- MODULE MCEcfsOutput ----------------------------
(* Model-checking instance of EcfsOutput: up to two threads, an empty or *)
(* one-unit fdinfo array, no auxv or a two-unit one, and either a static *)
(* program or the two-library program of the scenario in spec section 8. *)
EXTENDS EcfsOutput

MCCoreSize == 2
MCMaxThreads == 2
MCFdSizes == {0, 1}
MCAuxvSizes == {0, 2}

(* Cores of kernels since 3.7 carry NT_SIGINFO.                          *)
MCSiginfoPresent == {TRUE}

MCLibChoices ==
  { <<>>,
    << [name |-> "libfoo.so", flags |-> "RX"], [name |-> "libfoo.so", flags |-> "RW"],
       [name |-> "libfoo.so", flags |-> "R"],  [name |-> "libbar.so", flags |-> "RX"],
       [name |-> "libbar.so", flags |-> "RW"], [name |-> "libbar.so", flags |-> "R"] >> }
=============================================================================
