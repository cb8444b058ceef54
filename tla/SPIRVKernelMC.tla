--------------------------- MODULE SPIRVKernelMC ----------------------------
(* Signatures of up to three parameters. *)
EXTENDS SPIRVKernel

Par(pointer, type, binding_) == [pointer |-> pointer, type |-> type, binding |-> binding_]

Parameters == { Par(TRUE, "f32", "read_only"), Par(TRUE, "si32", "read_write"),
                Par(TRUE, "other", "read_only"), Par(TRUE, "f32", "malformed"),
                Par(FALSE, "ui32", "none"), Par(FALSE, "f32", "read_write") }

Inputs == UNION {[1..n -> Parameters] : n \in 0..3}

MCSignatures ==
  {[exported |-> TRUE, results |-> FALSE, inputs |-> inputs] : inputs \in Inputs}
    \union {[exported |-> FALSE, results |-> TRUE, inputs |-> <<>>],
            [exported |-> TRUE, results |-> TRUE, inputs |-> <<>>]}
=============================================================================
