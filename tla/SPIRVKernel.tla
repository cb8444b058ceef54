----------------------------- MODULE SPIRVKernel ----------------------------
(***************************************************************************)
(* src/compiler/XMojoSPIRVTarget.cpp: how an exported function becomes a   *)
(* compute shader. Its signature is analysed and written down as an        *)
(* attribute, the module is lowered by the compiler, which is external,    *)
(* and a wrapper without parameters is added that fetches every argument   *)
(* of the function: a buffer from the binding of its number, a scalar from *)
(* the field of its number in the push constants.                          *)
(*                                                                         *)
(* The compiler may lower a function to another number of parameters: the  *)
(* attribute and the function then disagree.                               *)
(***************************************************************************)
EXTENDS Naturals, Sequences, FiniteSets

CONSTANTS
  Functions,  \* the names of functions that the module defines: an exported one
              \* is never a mere declaration
  NoKernel,   \* no function is being wrapped
  Signatures  \* the functions of a module that is compiled

\* isSupportedType
Supported == {"f32", "si32", "ui32"}

ElementTypes == Supported \union {"other"}

Bindings == {"none", "read_only", "read_write", "malformed"}

\* A pointer has the element type that its binding names, a scalar its own type.
Parameter == [pointer : BOOLEAN, type : ElementTypes, binding : Bindings]

Signature == [exported : BOOLEAN, results : BOOLEAN, inputs : Seq(Parameter)]

ASSUME SignatureAssumption == Signatures \subseteq Signature /\ NoKernel \notin Functions

VARIABLES
  functions,  \* the functions of the module
  pc,         \* how far the compilation is
  abi,        \* the attribute that describes a kernel, NoABI without
  abiError,   \* the functions with the attribute of an error
  parameters, \* how many parameters a lowered function has
  kernel,     \* the kernel that is being wrapped
  binding,    \* the next binding,
  scalar,     \* and the next field of the push constants
  calls,      \* the arguments of the call in the wrapper of a kernel
  wrapped,    \* the kernels that have got a wrapper
  result      \* what the compilation returns

loopVars == <<kernel, binding, scalar>>
vars == <<functions, pc, abi, abiError, parameters, loopVars, calls, wrapped, result>>

NoABI == [version |-> "none", fields |-> <<>>]

Init ==
  /\ functions \in [Functions -> Signatures] /\ pc = "prepare"
  /\ abi = [f \in Functions |-> NoABI] /\ abiError = {}
  /\ parameters = [f \in Functions |-> 0]
  /\ kernel = NoKernel /\ binding = 0 /\ scalar = 0
  /\ calls = [f \in Functions |-> <<>>] /\ wrapped = {} /\ result = "none"

Exported == {f \in Functions : functions[f].exported}

-----------------------------------------------------------------------------
(* analyzeKernel, KernelABI *)

ValidBuffer(p) ==
  p.pointer /\ p.binding \in {"read_only", "read_write"} /\ p.type \in Supported

ValidScalar(p) == ~p.pointer /\ p.binding = "none" /\ p.type \in Supported

Valid(signature) ==
  /\ ~signature.results
  /\ \A k \in DOMAIN signature.inputs :
       ValidBuffer(signature.inputs[k]) \/ ValidScalar(signature.inputs[k])

\* The field of an argument: its parts.
Field(p) ==
  IF p.pointer THEN <<"b", IF p.binding = "read_only" THEN "ro" ELSE "rw", p.type>>
  ELSE <<"s", p.type>>

Encode(signature) ==
  [version |-> "v1",
   fields |-> [k \in DOMAIN signature.inputs |-> Field(signature.inputs[k])]]

IsBuffer(field) == field[1] = "b"

ReadOnly(field) == field[2] = "ro"

FieldType(field) == field[Len(field)]

Decodes(encoded) ==
  /\ encoded.version = "v1"
  /\ \A k \in DOMAIN encoded.fields :
       LET field == encoded.fields[k]
       IN  /\ FieldType(field) \in Supported
           /\ \/ Len(field) = 2 /\ field[1] = "s"
              \/ Len(field) = 3 /\ IsBuffer(field) /\ field[2] \in {"ro", "rw"}

PrepareModule ==
  /\ pc = "prepare" /\ pc' = "lower"
  /\ abi' = [f \in Functions |->
               IF f \in Exported /\ Valid(functions[f]) THEN Encode(functions[f])
               ELSE NoABI]
  /\ abiError' = {f \in Exported : ~Valid(functions[f])}
  /\ UNCHANGED <<functions, parameters, loopVars, calls, wrapped, result>>

\* External. A function keeps its attributes.
LowerModule ==
  /\ pc = "lower" /\ pc' = "finalize"
  /\ \E others \in SUBSET Functions :
       parameters' = [f \in Functions |-> Len(functions[f].inputs)
                                            + IF f \in others THEN 1 ELSE 0]
  /\ UNCHANGED <<functions, abi, abiError, loopVars, calls, wrapped, result>>

-----------------------------------------------------------------------------
(* addKernelWrapper, of every kernel in turn *)

Kernels == {f \in Functions : abi[f] # NoABI}

\* Fault: the number of parameters is not compared.
SameVersion(f) == Decodes(abi[f])

MatchesFunction(f) == Decodes(abi[f]) /\ parameters[f] = Len(abi[f].fields)

\* Fault: the numbers go on from the kernel before.
GoOn == UNCHANGED <<binding, scalar>>

FromZero == binding' = 0 /\ scalar' = 0

BeginWrapper(f) ==
  /\ pc = "finalize" /\ kernel = NoKernel
  /\ f \in Kernels \ (wrapped \union abiError)
  /\ \/ /\ MatchesFunction(f) /\ kernel' = f
        /\ FromZero /\ UNCHANGED abiError
     \/ /\ ~MatchesFunction(f) /\ abiError' = abiError \union {f}
        /\ UNCHANGED loopVars
  /\ UNCHANGED <<functions, pc, abi, parameters, calls, wrapped, result>>

Fields == abi[kernel].fields

NextField == Fields[Len(calls[kernel]) + 1]

Wrapping == kernel # NoKernel /\ Len(calls[kernel]) < Len(Fields)

Pass(source, number, type, writable) ==
  calls' = [calls EXCEPT ![kernel] =
              Append(@, [source |-> source, number |-> number, type |-> type,
                         writable |-> writable])]

BindBuffer ==
  /\ Wrapping /\ IsBuffer(NextField)
  /\ Pass("binding", binding, FieldType(NextField), ~ReadOnly(NextField))
  /\ binding' = binding + 1
  /\ UNCHANGED <<functions, pc, abi, abiError, parameters, kernel, scalar, wrapped,
                 result>>

LoadScalar ==
  /\ Wrapping /\ ~IsBuffer(NextField)
  /\ Pass("push constant", scalar, FieldType(NextField), FALSE)
  /\ scalar' = scalar + 1
  /\ UNCHANGED <<functions, pc, abi, abiError, parameters, kernel, binding, wrapped,
                 result>>

EndWrapper ==
  /\ kernel # NoKernel /\ Len(calls[kernel]) = Len(Fields)
  /\ wrapped' = wrapped \union {kernel} /\ kernel' = NoKernel
  /\ UNCHANGED <<functions, pc, abi, abiError, parameters, binding, scalar, calls,
                 result>>

EndFinalize ==
  /\ pc = "finalize" /\ kernel = NoKernel
  /\ Kernels \subseteq wrapped \union abiError /\ pc' = "emit"
  /\ UNCHANGED <<functions, abi, abiError, parameters, loopVars, calls, wrapped, result>>

-----------------------------------------------------------------------------
(* emit, createArchive *)

\* runLlc may fail; an artifact holds one kernel, and the compiler emits an object
\* per exported function.
Emit ==
  /\ pc = "emit" /\ pc' = "done"
  /\ \/ abiError # {} /\ result' = "ABI error"
     \/ abiError = {} /\ result' = "compiler error"
     \/ abiError = {} /\ Cardinality(Exported) # 1 /\ result' = "archive error"
     \/ abiError = {} /\ Cardinality(Exported) = 1 /\ result' = "object"
  /\ UNCHANGED <<functions, abi, abiError, parameters, loopVars, calls, wrapped>>

Next ==
  \/ PrepareModule \/ LowerModule
  \/ \E f \in Functions : BeginWrapper(f)
  \/ BindBuffer \/ LoadScalar \/ EndWrapper \/ EndFinalize \/ Emit

Spec == Init /\ [][Next]_vars

-----------------------------------------------------------------------------
(* Properties. *)

Before(inputs, k, pointer) == {j \in 1..(k - 1) : inputs[j].pointer = pointer}

\* The wrapper passes what the function declares, in its order: the pointers are the
\* bindings from zero on, the scalars the fields from zero on, each with its own type
\* and access, however the two are mixed and whichever kernel was wrapped before.
WrappersPassArguments ==
  \A f \in wrapped :
    LET inputs == functions[f].inputs
    IN  /\ Len(calls[f]) = Len(inputs)
        /\ \A k \in DOMAIN inputs :
             calls[f][k] =
               [source   |-> IF inputs[k].pointer THEN "binding" ELSE "push constant",
                number   |-> Cardinality(Before(inputs, k, inputs[k].pointer)),
                type     |-> inputs[k].type,
                writable |-> inputs[k].binding = "read_write"]

\* What is emitted has been checked: an object holds a wrapper for its function,
\* whose signature is one that the target supports and the one that was lowered.
ObjectsAreChecked ==
  result = "object" =>
    \A f \in Exported : /\ f \in wrapped /\ Valid(functions[f])
                        /\ parameters[f] = Len(functions[f].inputs)
=============================================================================
