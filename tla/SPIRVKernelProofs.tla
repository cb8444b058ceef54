-------------------------- MODULE SPIRVKernelProofs -------------------------
(***************************************************************************)
(* What a wrapper passes is what its function declares, and an object that *)
(* is emitted has been checked: for modules of any number of functions     *)
(* with any number of parameters.                                          *)
(***************************************************************************)
EXTENDS SPIRVKernel, FiniteSetTheorems, SequenceTheorems, TLAPS

Inputs(f) == functions[f].inputs

\* The argument that the wrapper of f owes to parameter k.
Argument(f, k) ==
  [source   |-> IF Inputs(f)[k].pointer THEN "binding" ELSE "push constant",
   number   |-> Cardinality(Before(Inputs(f), k, Inputs(f)[k].pointer)),
   type     |-> Inputs(f)[k].type,
   writable |-> Inputs(f)[k].binding = "read_write"]

Arguments == [source : {"binding", "push constant"}, number : Nat,
              type : ElementTypes, writable : BOOLEAN]

IsCalls(s) == s \in Seq(Arguments)

\* The arguments that have been written are right.
Written(f) == \A k \in 1..Len(calls[f]) : calls[f][k] = Argument(f, k)

TypeOK ==
  /\ functions \in [Functions -> Signatures]
  /\ kernel \in Functions \union {NoKernel}
  /\ DOMAIN abi = Functions /\ DOMAIN parameters = Functions
  /\ DOMAIN calls = Functions /\ \A f \in Functions : IsCalls(calls[f])
  /\ wrapped \subseteq Functions

\* The attribute of a kernel describes its function.
Described ==
  \A f \in Functions : abi[f] # NoABI =>
    Valid(functions[f]) /\ abi[f] = Encode(functions[f])

\* An exported function has one of the two attributes.
Analysed ==
  pc # "prepare" => \A f \in Exported : abi[f] # NoABI \/ f \in abiError

Ordered ==
  /\ pc \in {"prepare", "lower"} => kernel = NoKernel /\ wrapped = {}
  /\ pc \in {"emit", "done"} => kernel = NoKernel /\ Exported \subseteq wrapped \union abiError
  /\ result = "object" => pc = "done" /\ abiError = {}
  /\ pc = "prepare" => \A f \in Functions : abi[f] = NoABI

\* Functions whose parameters have been counted.
Counted ==
  \A f \in wrapped \union {kernel} : f # NoKernel =>
    abi[f] # NoABI /\ parameters[f] = Len(Inputs(f))

\* The wrapper that is being written: the arguments it has, and the next numbers.
InHand ==
  kernel # NoKernel =>
    /\ kernel \notin wrapped /\ Written(kernel)
    /\ Len(calls[kernel]) <= Len(Inputs(kernel))
    /\ binding = Cardinality(Before(Inputs(kernel), Len(calls[kernel]) + 1, TRUE))
    /\ scalar = Cardinality(Before(Inputs(kernel), Len(calls[kernel]) + 1, FALSE))

Finished == \A f \in wrapped : Written(f) /\ Len(calls[f]) = Len(Inputs(f))

Untouched ==
  \A f \in Functions : f \notin wrapped /\ f # kernel => calls[f] = <<>>

Inv ==
  /\ TypeOK /\ Described /\ Analysed /\ Ordered /\ Counted
  /\ InHand /\ Finished /\ Untouched

-----------------------------------------------------------------------------
(* Signatures and their fields *)

LEMMA SignatureParts ==
  ASSUME NEW s \in Signatures
  PROVE  /\ s.inputs \in Seq(Parameter) /\ Len(s.inputs) \in Nat
         /\ DOMAIN s.inputs = 1..Len(s.inputs)
         /\ \A k \in 1..Len(s.inputs) : s.inputs[k] \in Parameter
<1>1. s.inputs \in Seq(Parameter)
  BY SignatureAssumption DEF Signature
<1> QED BY <1>1

\* A field says of an argument what its parameter declares.
LEMMA FieldOfBuffer ==
  ASSUME NEW p \in Parameter, ValidBuffer(p)
  PROVE  /\ IsBuffer(Field(p)) /\ FieldType(Field(p)) = p.type
         /\ ReadOnly(Field(p)) <=> p.binding # "read_write"
BY DEF ValidBuffer, Field, IsBuffer, FieldType, ReadOnly

LEMMA FieldOfScalar ==
  ASSUME NEW p \in Parameter, ValidScalar(p)
  PROVE  ~IsBuffer(Field(p)) /\ FieldType(Field(p)) = p.type
BY DEF ValidScalar, Field, IsBuffer, FieldType

LEMMA EncodedFields ==
  ASSUME NEW s \in Signatures
  PROVE  LET fields == Encode(s).fields
         IN  /\ Len(fields) = Len(s.inputs) /\ DOMAIN fields = 1..Len(s.inputs)
             /\ \A k \in 1..Len(s.inputs) : fields[k] = Field(s.inputs[k])
<1> DEFINE n == Len(s.inputs)
<1> DEFINE fields == [k \in DOMAIN s.inputs |-> Field(s.inputs[k])]
<1>1. Encode(s).fields = fields
  BY DEF Encode
<1>2. n \in Nat /\ fields = [k \in 1..n |-> Field(s.inputs[k])]
  BY SignatureParts
<1>3. Len(fields) = n
  BY <1>2
<1> QED BY <1>1, <1>2, <1>3

LEMMA EncodingIsABI == \A s \in Signatures : Encode(s) # NoABI
BY DEF Encode, NoABI

-----------------------------------------------------------------------------
(* Numbering *)

LEMMA BeforeStep ==
  ASSUME NEW s \in Signatures, NEW k \in 1..Len(s.inputs), NEW p \in BOOLEAN
  PROVE  /\ IsFiniteSet(Before(s.inputs, k, p))
         /\ Cardinality(Before(s.inputs, k, p)) \in Nat
         /\ s.inputs[k].pointer = p =>
              Cardinality(Before(s.inputs, k + 1, p))
                = Cardinality(Before(s.inputs, k, p)) + 1
         /\ s.inputs[k].pointer # p =>
              Cardinality(Before(s.inputs, k + 1, p)) = Cardinality(Before(s.inputs, k, p))
<1>1. k \in Nat /\ Len(s.inputs) \in Nat
  BY SignatureParts
<1>2. Before(s.inputs, k, p) \subseteq 1..(k - 1) /\ k \notin Before(s.inputs, k, p)
  BY <1>1 DEF Before
<1>3. IsFiniteSet(1..(k - 1))
  BY <1>1, FS_Interval
<1>4. IsFiniteSet(Before(s.inputs, k, p))
  BY <1>2, <1>3, FS_Subset
<1>5. Cardinality(Before(s.inputs, k, p)) \in Nat
  BY <1>4, FS_CardinalityType
<1>6. ASSUME s.inputs[k].pointer = p
      PROVE  Before(s.inputs, k + 1, p) = Before(s.inputs, k, p) \union {k}
  BY <1>1, <1>6 DEF Before
<1>7. ASSUME s.inputs[k].pointer # p
      PROVE  Before(s.inputs, k + 1, p) = Before(s.inputs, k, p)
  BY <1>1, <1>7 DEF Before
<1>8. Cardinality(Before(s.inputs, k, p) \union {k})
        = Cardinality(Before(s.inputs, k, p)) + 1
  BY <1>2, <1>4, FS_AddElement
<1> QED BY <1>4, <1>5, <1>6, <1>7, <1>8

LEMMA NothingBeforeFirst ==
  ASSUME NEW s, NEW p PROVE Cardinality(Before(s, 1, p)) = 0
<1>1. Before(s, 1, p) = {}
  BY DEF Before
<1> QED BY <1>1, FS_EmptySet

-----------------------------------------------------------------------------
(* The steps *)

LEMMA InitInv == Init => Inv
<1> SUFFICES ASSUME Init PROVE Inv
  OBVIOUS
<1>1. TypeOK
  BY DEF Init, TypeOK, IsCalls
<1>2. Described /\ Analysed
  BY DEF Init, Described, Analysed
<1>3. Ordered
  BY DEF Init, Ordered
<1>4. Counted /\ InHand /\ Finished /\ Untouched
  BY DEF Init, Counted, InHand, Finished, Untouched
<1> QED BY <1>1, <1>2, <1>3, <1>4 DEF Inv

LEMMA PrepareInv == Inv /\ PrepareModule => Inv'
<1> SUFFICES ASSUME Inv, PrepareModule PROVE Inv'
  OBVIOUS
<1> USE DEF Inv
<1>1. UNCHANGED <<functions, parameters, kernel, calls, wrapped, result>>
      /\ kernel = NoKernel /\ wrapped = {} /\ pc = "prepare" /\ pc' = "lower"
  BY DEF PrepareModule, loopVars, Ordered
<1>2. /\ DOMAIN abi' = Functions
      /\ \A f \in Functions :
           abi'[f] = IF f \in Exported /\ Valid(functions[f]) THEN Encode(functions[f])
                     ELSE NoABI
      /\ abiError' = {f \in Exported : ~Valid(functions[f])}
  BY DEF PrepareModule
<1>3. TypeOK'
  BY <1>1, <1>2 DEF TypeOK, IsCalls
<1>4. Described'
  BY <1>1, <1>2 DEF Described
<1>5. Analysed'
  <2>1. Exported' = Exported /\ Exported \subseteq Functions
    BY <1>1 DEF Exported
  <2>2. \A f \in Functions : Encode(functions[f]) # NoABI
    BY EncodingIsABI DEF TypeOK
  <2>3. \A f \in Exported : abi'[f] # NoABI \/ f \in abiError'
    BY <1>2, <2>1, <2>2
  <2> QED BY <2>1, <2>3 DEF Analysed
<1>6. Ordered'
  BY <1>1 DEF Ordered
<1>7. Counted' /\ InHand' /\ Finished' /\ Untouched'
  BY <1>1 DEF Counted, InHand, Finished, Untouched
<1> QED BY <1>3, <1>4, <1>5, <1>6, <1>7

LEMMA LowerInv == Inv /\ LowerModule => Inv'
<1> SUFFICES ASSUME Inv, LowerModule PROVE Inv'
  OBVIOUS
<1> USE DEF Inv
<1>1. UNCHANGED <<functions, abi, abiError, kernel, calls, wrapped, result>>
      /\ kernel = NoKernel /\ wrapped = {} /\ pc = "lower" /\ pc' = "finalize"
  BY DEF LowerModule, loopVars, Ordered
<1>2. DOMAIN parameters' = Functions
  BY DEF LowerModule
<1>3. TypeOK'
  BY <1>1, <1>2 DEF TypeOK, IsCalls
<1>4. Described' /\ Analysed'
  BY <1>1 DEF Described, Analysed, Exported
<1>5. Ordered'
  BY <1>1 DEF Ordered
<1>6. Counted' /\ InHand' /\ Finished' /\ Untouched'
  BY <1>1 DEF Counted, InHand, Finished, Untouched
<1> QED BY <1>3, <1>4, <1>5, <1>6

LEMMA BeginInv ==
  ASSUME Inv, NEW f \in Functions, BeginWrapper(f) PROVE Inv'
<1> USE DEF Inv
<1>1. /\ UNCHANGED <<functions, pc, abi, parameters, calls, wrapped, result>>
      /\ pc = "finalize" /\ kernel = NoKernel /\ f \notin wrapped /\ abi[f] # NoABI
  BY DEF BeginWrapper, Kernels
<1>2. /\ Described'
      /\ Finished' <=> Finished
  BY <1>1 DEF Described, Finished, Written, Argument, Inputs
<1>3. CASE ~MatchesFunction(f) /\ abiError' = abiError \union {f} /\ UNCHANGED loopVars
  <2>1. UNCHANGED kernel /\ abiError \subseteq abiError'
    BY <1>3 DEF loopVars
  <2>2. TypeOK'
    BY <1>1, <2>1 DEF TypeOK, IsCalls
  <2>3. Analysed'
    BY <1>1, <2>1 DEF Analysed, Exported
  <2>4. Ordered' /\ Counted' /\ InHand' /\ Untouched'
    BY <1>1, <2>1 DEF Ordered, Counted, InHand, Untouched, Inputs
  <2> QED BY <1>2, <2>2, <2>3, <2>4
<1>4. CASE MatchesFunction(f) /\ kernel' = f /\ FromZero /\ UNCHANGED abiError
  <2>1. f # NoKernel
    BY SignatureAssumption
  <2>2. TypeOK'
    BY <1>1, <1>4 DEF TypeOK, IsCalls
  <2>3. Analysed' /\ Ordered'
    BY <1>1, <1>4 DEF Analysed, Exported, Ordered
  <2>4. parameters[f] = Len(Inputs(f))
    <3>1. abi[f] = Encode(functions[f]) /\ functions[f] \in Signatures
      BY <1>1 DEF Described, TypeOK
    <3>2. Len(abi[f].fields) = Len(functions[f].inputs)
      BY <3>1, EncodedFields
    <3> QED BY <1>4, <3>2 DEF MatchesFunction, Inputs
  <2>5. Counted'
    BY <1>1, <1>4, <2>1, <2>4 DEF Counted, Inputs
  <2>6. calls[f] = <<>>
    BY <1>1, <2>1 DEF Untouched
  <2>7. InHand'
    <3>1. Len(calls'[f]) = 0
      BY <1>1, <2>6
    <3>2. functions[f] \in Signatures /\ Len(Inputs(f)) \in Nat
      BY SignatureParts DEF TypeOK, Inputs
    <3>3. Written(f)'
      BY <3>1 DEF Written
    <3>4. \A p \in BOOLEAN :
            Cardinality(Before(Inputs(f)', Len(calls'[f]) + 1, p)) = 0
      BY <3>1, NothingBeforeFirst
    <3>5. binding' = 0 /\ scalar' = 0
      BY <1>4 DEF FromZero
    <3>6. Inputs(f)' = Inputs(f)
      BY <1>1 DEF Inputs
    <3>7. /\ kernel' \notin wrapped' /\ Written(kernel)'
          /\ Len(calls'[kernel']) <= Len(Inputs(kernel)')
      BY <1>1, <1>4, <3>1, <3>2, <3>3, <3>6 DEF Written, Argument, Inputs
    <3>8. /\ binding' = Cardinality(Before(Inputs(kernel)', Len(calls'[kernel']) + 1, TRUE))
          /\ scalar' = Cardinality(Before(Inputs(kernel)', Len(calls'[kernel']) + 1, FALSE))
      BY <1>1, <1>4, <3>4, <3>5, <3>6 DEF Inputs
    <3> QED BY <3>7, <3>8 DEF InHand, Before
  <2>8. Untouched'
    BY <1>1, <1>4, SignatureAssumption DEF Untouched
  <2> QED BY <1>2, <2>2, <2>3, <2>5, <2>7, <2>8
<1> QED BY <1>3, <1>4 DEF BeginWrapper

\* What the two steps that pass an argument have in common: the argument is the one
\* that is owed, and the numbers go on.
LEMMA PassInv ==
  ASSUME Inv, Wrapping,
         UNCHANGED <<functions, pc, abi, abiError, parameters, kernel, wrapped, result>>,
         calls' = [calls EXCEPT ![kernel] =
                     Append(@, Argument(kernel, Len(calls[kernel]) + 1))],
         LET k == Len(calls[kernel]) + 1
         IN  \/ /\ Inputs(kernel)[k].pointer = TRUE
                /\ binding' = binding + 1 /\ scalar' = scalar
             \/ /\ Inputs(kernel)[k].pointer = FALSE
                /\ scalar' = scalar + 1 /\ binding' = binding
  PROVE  Inv'
<1> USE DEF Inv
<1> DEFINE k == Len(calls[kernel]) + 1
<1> DEFINE argument == Argument(kernel, k)
<1>1. kernel \in Functions /\ kernel # NoKernel
  BY DEF Wrapping, TypeOK
<1>2. functions[kernel] \in Signatures /\ IsCalls(calls[kernel])
  BY <1>1 DEF TypeOK
<1>3. abi[kernel] # NoABI /\ abi[kernel] = Encode(functions[kernel])
  BY <1>1 DEF Counted, Described
<1>4. Len(calls[kernel]) < Len(Inputs(kernel))
  BY <1>2, <1>3, EncodedFields DEF Wrapping, Fields, Inputs
<1>5. /\ Len(calls[kernel]) \in Nat /\ Len(Inputs(kernel)) \in Nat
      /\ k \in 1..Len(Inputs(kernel)) /\ Inputs(kernel)[k] \in Parameter
  <2>1. Len(calls[kernel]) \in Nat
    BY <1>2 DEF IsCalls
  <2>2. Len(Inputs(kernel)) \in Nat
    BY <1>2, SignatureParts DEF Inputs
  <2>3. k \in 1..Len(Inputs(kernel))
    BY <2>1, <2>2, <1>4
  <2> QED BY <1>2, <2>1, <2>2, <2>3, SignatureParts DEF Inputs
<1>6. argument \in Arguments
  <2>1. Inputs(kernel)[k].pointer \in BOOLEAN /\ Inputs(kernel)[k].type \in ElementTypes
    BY <1>5 DEF Parameter
  <2>2. Cardinality(Before(Inputs(kernel), k, Inputs(kernel)[k].pointer)) \in Nat
    BY <1>2, <1>5, <2>1, BeforeStep DEF Inputs
  <2>3. (IF Inputs(kernel)[k].pointer THEN "binding" ELSE "push constant")
          \in {"binding", "push constant"}
    OBVIOUS
  <2>4. (Inputs(kernel)[k].binding = "read_write") \in BOOLEAN
    OBVIOUS
  <2> QED BY <2>1, <2>2, <2>3, <2>4 DEF Argument, Arguments
<1> HIDE DEF argument
<1>7. /\ DOMAIN calls' = Functions /\ calls'[kernel] = Append(calls[kernel], argument)
      /\ \A f \in Functions \ {kernel} : calls'[f] = calls[f]
  BY <1>1 DEF TypeOK, argument
<1>8. /\ IsCalls(calls'[kernel]) /\ Len(calls'[kernel]) = k
      /\ \A j \in 1..(k - 1) : calls'[kernel][j] = calls[kernel][j]
      /\ calls'[kernel][k] = argument
  <2>1. calls[kernel] \in Seq(Arguments)
    BY <1>2 DEF IsCalls
  <2>2. calls'[kernel] \in Seq(Arguments)
    BY <1>6, <1>7, <2>1, AppendProperties
  <2>3. /\ Len(calls'[kernel]) = k
        /\ \A j \in 1..(k - 1) : calls'[kernel][j] = calls[kernel][j]
        /\ calls'[kernel][k] = argument
    BY <1>5, <1>6, <1>7, <2>1, AppendProperties
  <2> QED BY <2>2, <2>3 DEF IsCalls
<1>9. TypeOK'
  <2>1. \A f \in Functions : IsCalls(calls'[f])
    BY <1>7, <1>8 DEF TypeOK
  <2> QED BY <1>7, <2>1 DEF TypeOK, IsCalls
<1>10. Described' /\ Analysed' /\ Ordered'
  BY DEF Described, Analysed, Ordered, Exported
<1>11. Counted'
  BY DEF Counted, Inputs
<1>12. Written(kernel)'
  <2>1. \A j \in 1..(k - 1) : calls[kernel][j] = Argument(kernel, j)
    BY <1>1, <1>5 DEF InHand, Written
  <2>2. \A j \in 1..k : calls'[kernel][j] = Argument(kernel, j)
    BY <1>5, <1>8, <2>1 DEF argument
  <2>3. \A j : Argument(kernel, j)' = Argument(kernel, j)
    BY DEF Argument, Inputs
  <2> HIDE DEF k
  <2> QED BY <1>8, <2>2, <2>3 DEF Written
<1>13. InHand'
  <2>1. \A p \in BOOLEAN :
          /\ Inputs(kernel)[k].pointer = p =>
               Cardinality(Before(Inputs(kernel), k + 1, p))
                 = Cardinality(Before(Inputs(kernel), k, p)) + 1
          /\ Inputs(kernel)[k].pointer # p =>
               Cardinality(Before(Inputs(kernel), k + 1, p))
                 = Cardinality(Before(Inputs(kernel), k, p))
    BY <1>2, <1>5, BeforeStep DEF Inputs
  <2>2. /\ binding = Cardinality(Before(Inputs(kernel), k, TRUE))
        /\ scalar = Cardinality(Before(Inputs(kernel), k, FALSE))
    BY <1>1 DEF InHand
  <2>3. /\ binding' = Cardinality(Before(Inputs(kernel), k + 1, TRUE))
        /\ scalar' = Cardinality(Before(Inputs(kernel), k + 1, FALSE))
    <3> HIDE DEF k
    <3>1. CASE Inputs(kernel)[k].pointer = TRUE
      BY <2>1, <2>2, <3>1 DEF k
    <3>2. CASE Inputs(kernel)[k].pointer = FALSE
      BY <2>1, <2>2, <3>2 DEF k
    <3> QED BY <3>1, <3>2 DEF k
  <2>4. kernel \notin wrapped
    BY <1>1 DEF InHand
  <2>5. Inputs(kernel)' = Inputs(kernel)
    BY DEF Inputs
  <2>6. /\ kernel' \notin wrapped'
        /\ Len(calls'[kernel']) <= Len(Inputs(kernel)')
    BY <1>5, <1>8, <2>4, <2>5 DEF Inputs
  <2>7. /\ binding' = Cardinality(Before(Inputs(kernel)', Len(calls'[kernel']) + 1, TRUE))
        /\ scalar' = Cardinality(Before(Inputs(kernel)', Len(calls'[kernel']) + 1, FALSE))
    BY <1>8, <2>3, <2>5 DEF Inputs
  <2> QED BY <1>12, <2>6, <2>7 DEF InHand, Before
<1>14. Finished'
  <2>1. kernel \notin wrapped /\ wrapped \subseteq Functions
    BY <1>1 DEF InHand, TypeOK
  <2>2. \A f \in wrapped : calls'[f] = calls[f]
    BY <1>7, <2>1
  <2>3. \A f, j : Argument(f, j)' = Argument(f, j)
    BY DEF Argument, Inputs
  <2> QED BY <2>2, <2>3 DEF Finished, Written, Inputs
<1>15. Untouched'
  BY <1>7 DEF Untouched
<1> QED BY <1>9, <1>10, <1>11, <1>12, <1>13, <1>14, <1>15

LEMMA ArgumentOfField ==
  ASSUME Inv, Wrapping
  PROVE  LET p == Inputs(kernel)[Len(calls[kernel]) + 1]
         IN  /\ p \in Parameter /\ NextField = Field(p)
             /\ ValidBuffer(p) \/ ValidScalar(p)
<1> USE DEF Inv
<1> DEFINE k == Len(calls[kernel]) + 1
<1>1. kernel \in Functions /\ kernel # NoKernel
  BY DEF Wrapping, TypeOK
<1>2. functions[kernel] \in Signatures /\ Len(calls[kernel]) \in Nat
  BY <1>1 DEF TypeOK, IsCalls
<1>3. abi[kernel] = Encode(functions[kernel]) /\ Valid(functions[kernel])
  BY <1>1 DEF Counted, Described
<1>4. k \in 1..Len(Inputs(kernel))
  BY <1>2, <1>3, EncodedFields, SignatureParts DEF Wrapping, Fields, Inputs
<1>5. NextField = Field(Inputs(kernel)[k])
  BY <1>2, <1>3, <1>4, EncodedFields DEF NextField, Fields, Inputs
<1>6. Inputs(kernel)[k] \in Parameter
  BY <1>2, <1>4, SignatureParts DEF Inputs
<1>7. ValidBuffer(Inputs(kernel)[k]) \/ ValidScalar(Inputs(kernel)[k])
  BY <1>2, <1>3, <1>4, SignatureParts DEF Valid, Inputs
<1> QED BY <1>5, <1>6, <1>7

LEMMA BindBufferInv == Inv /\ BindBuffer => Inv'
<1> SUFFICES ASSUME Inv, BindBuffer PROVE Inv'
  OBVIOUS
<1> DEFINE k == Len(calls[kernel]) + 1
<1> DEFINE p == Inputs(kernel)[k]
<1>1. Wrapping
  BY DEF BindBuffer
<1>2. p \in Parameter /\ NextField = Field(p) /\ ValidBuffer(p)
  <2>1. p \in Parameter /\ NextField = Field(p) /\ (ValidBuffer(p) \/ ValidScalar(p))
    BY <1>1, ArgumentOfField
  <2> HIDE DEF p
  <2>2. IsBuffer(Field(p))
    BY <2>1 DEF BindBuffer
  <2> QED BY <2>1, <2>2, FieldOfScalar
<1>3. /\ FieldType(NextField) = p.type
      /\ (~ReadOnly(NextField)) = (p.binding = "read_write")
  <2> HIDE DEF p
  <2> QED BY <1>2, FieldOfBuffer
<1>4. p.pointer = TRUE
  <2> HIDE DEF p
  <2>1. p.pointer \in BOOLEAN /\ p.pointer
    BY <1>2 DEF Parameter, ValidBuffer
  <2> QED BY <2>1
<1>5. binding = Cardinality(Before(Inputs(kernel), k, p.pointer))
  <2>1. binding = Cardinality(Before(Inputs(kernel), k, TRUE))
    BY <1>1 DEF Inv, InHand, Wrapping
  <2> HIDE DEF k, p
  <2> QED BY <2>1, <1>4
<1>6. [source |-> "binding", number |-> binding, type |-> FieldType(NextField),
       writable |-> ~ReadOnly(NextField)] = Argument(kernel, k)
  <2>1. (IF p.pointer THEN "binding" ELSE "push constant") = "binding"
    BY <1>4
  <2> QED BY <1>3, <1>5, <2>1, Zenon DEF Argument
<1>7. calls' = [calls EXCEPT ![kernel] = Append(@, Argument(kernel, k))]
  BY <1>6 DEF BindBuffer, Pass
<1>8. /\ UNCHANGED <<functions, pc, abi, abiError, parameters, kernel, wrapped, result>>
      /\ binding' = binding + 1 /\ scalar' = scalar
  BY DEF BindBuffer
<1> QED BY <1>1, <1>4, <1>7, <1>8, PassInv

LEMMA LoadScalarInv == Inv /\ LoadScalar => Inv'
<1> SUFFICES ASSUME Inv, LoadScalar PROVE Inv'
  OBVIOUS
<1> DEFINE k == Len(calls[kernel]) + 1
<1> DEFINE p == Inputs(kernel)[k]
<1>1. Wrapping
  BY DEF LoadScalar
<1>2. p \in Parameter /\ NextField = Field(p) /\ ValidScalar(p)
  <2>1. p \in Parameter /\ NextField = Field(p) /\ (ValidBuffer(p) \/ ValidScalar(p))
    BY <1>1, ArgumentOfField
  <2> HIDE DEF p
  <2>2. ~IsBuffer(Field(p))
    BY <2>1 DEF LoadScalar
  <2> QED BY <2>1, <2>2, FieldOfBuffer
<1>3. /\ FieldType(NextField) = p.type
      /\ FALSE = (p.binding = "read_write")
  <2> HIDE DEF p
  <2>1. p.binding = "none"
    BY <1>2 DEF ValidScalar
  <2> QED BY <1>2, <2>1, FieldOfScalar
<1>4. p.pointer = FALSE
  <2> HIDE DEF p
  <2>1. p.pointer \in BOOLEAN /\ ~p.pointer
    BY <1>2 DEF Parameter, ValidScalar
  <2> QED BY <2>1
<1>5. scalar = Cardinality(Before(Inputs(kernel), k, p.pointer))
  <2>1. scalar = Cardinality(Before(Inputs(kernel), k, FALSE))
    BY <1>1 DEF Inv, InHand, Wrapping
  <2> HIDE DEF k, p
  <2> QED BY <2>1, <1>4
<1>6. [source |-> "push constant", number |-> scalar, type |-> FieldType(NextField),
       writable |-> FALSE] = Argument(kernel, k)
  <2>1. (IF p.pointer THEN "binding" ELSE "push constant") = "push constant"
    BY <1>4
  <2> QED BY <1>3, <1>5, <2>1, Zenon DEF Argument
<1>7. calls' = [calls EXCEPT ![kernel] = Append(@, Argument(kernel, k))]
  BY <1>6 DEF LoadScalar, Pass
<1>8. /\ UNCHANGED <<functions, pc, abi, abiError, parameters, kernel, wrapped, result>>
      /\ scalar' = scalar + 1 /\ binding' = binding
  BY DEF LoadScalar
<1> QED BY <1>1, <1>4, <1>7, <1>8, PassInv

LEMMA EndWrapperInv == Inv /\ EndWrapper => Inv'
<1> SUFFICES ASSUME Inv, EndWrapper PROVE Inv'
  OBVIOUS
<1> USE DEF Inv
<1>1. /\ UNCHANGED <<functions, pc, abi, abiError, parameters, calls, result>>
      /\ wrapped' = wrapped \union {kernel} /\ kernel' = NoKernel
      /\ kernel # NoKernel /\ kernel \in Functions
  BY DEF EndWrapper, TypeOK
<1>2. Len(calls[kernel]) = Len(Inputs(kernel))
  <2>1. abi[kernel] = Encode(functions[kernel]) /\ functions[kernel] \in Signatures
    BY <1>1 DEF Counted, Described, TypeOK
  <2> QED BY <2>1, EncodedFields DEF EndWrapper, Fields, Inputs
<1>3. TypeOK'
  BY <1>1 DEF TypeOK, IsCalls
<1>4. Described' /\ Analysed'
  BY <1>1 DEF Described, Analysed, Exported
<1>5. Ordered'
  BY <1>1 DEF Ordered, Exported
<1>6. Counted'
  BY <1>1 DEF Counted, Inputs
<1>7. InHand'
  BY <1>1 DEF InHand
<1>8. Finished'
  <2>1. \A f, j : Argument(f, j)' = Argument(f, j)
    BY <1>1 DEF Argument, Inputs
  <2>2. Written(kernel)
    BY <1>1 DEF InHand
  <2> QED BY <1>1, <1>2, <2>1, <2>2 DEF Finished, Written, Inputs
<1>9. Untouched'
  BY <1>1 DEF Untouched
<1> QED BY <1>3, <1>4, <1>5, <1>6, <1>7, <1>8, <1>9

LEMMA LastStepsInv == Inv /\ (EndFinalize \/ Emit) => Inv'
<1> SUFFICES ASSUME Inv, EndFinalize \/ Emit PROVE Inv'
  OBVIOUS
<1> USE DEF Inv
<1>1. /\ UNCHANGED <<functions, abi, abiError, parameters, loopVars, calls, wrapped>>
      /\ pc # "prepare" /\ pc' \in {"emit", "done"}
  BY DEF EndFinalize, Emit
<1>2. TypeOK' /\ Described' /\ Analysed'
  BY <1>1 DEF TypeOK, IsCalls, Described, Analysed, Exported, loopVars
<1>3. Ordered'
  <2>1. Exported' = Exported /\ Exported \subseteq Functions
    BY <1>1 DEF Exported
  <2>2. CASE EndFinalize
    <3>1. Exported \subseteq Kernels \union abiError
      BY <2>1, <2>2 DEF EndFinalize, Analysed, Kernels
    <3>2. Exported \subseteq wrapped \union abiError
      BY <2>2, <3>1 DEF EndFinalize
    <3> QED BY <1>1, <2>1, <2>2, <3>2 DEF EndFinalize, Ordered, loopVars
  <2>3. CASE Emit
    BY <1>1, <2>1, <2>3 DEF Emit, Ordered, loopVars
  <2> QED BY <2>2, <2>3
<1>4. Counted' /\ Finished' /\ Untouched'
  BY <1>1 DEF Counted, Finished, Untouched, Written, Argument, Inputs, loopVars
<1>5. InHand'
  BY <1>1 DEF InHand, Written, Argument, Inputs, loopVars
<1> QED BY <1>2, <1>3, <1>4, <1>5

LEMMA StutterInv == Inv /\ UNCHANGED vars => Inv'
<1> SUFFICES ASSUME Inv, UNCHANGED vars PROVE Inv'
  OBVIOUS
<1> USE DEF Inv, vars, loopVars
<1>1. TypeOK' /\ Described' /\ Analysed' /\ Ordered'
  BY DEF TypeOK, IsCalls, Described, Analysed, Ordered, Exported
<1>2. Counted' /\ Finished' /\ Untouched'
  BY DEF Counted, Finished, Untouched, Written, Argument, Inputs
<1>3. InHand'
  BY DEF InHand, Written, Argument, Inputs
<1> QED BY <1>1, <1>2, <1>3

LEMMA Invariance == Spec => []Inv
<1>1. Inv /\ [Next]_vars => Inv'
  BY PrepareInv, LowerInv, BeginInv, BindBufferInv, LoadScalarInv, EndWrapperInv,
     LastStepsInv, StutterInv DEF Next
<1> QED BY <1>1, InitInv, PTL DEF Spec

-----------------------------------------------------------------------------

\* The wrapper that addKernelWrapper writes passes the pointers of its function from
\* the bindings and its scalars from the push constants, each by its number among
\* those of its kind: the layout by which the host passes them.
THEOREM ArgumentsAreDeclared == Spec => []WrappersPassArguments
<1>1. Inv => WrappersPassArguments
  <2> SUFFICES ASSUME Inv, NEW f \in wrapped
               PROVE  /\ Len(calls[f]) = Len(functions[f].inputs)
                      /\ \A k \in DOMAIN functions[f].inputs :
                           calls[f][k] = Argument(f, k)
    BY DEF WrappersPassArguments, Argument, Inputs
  <2>1. Written(f) /\ Len(calls[f]) = Len(Inputs(f))
    BY DEF Inv, Finished
  <2>2. DOMAIN functions[f].inputs = 1..Len(Inputs(f))
    BY SignatureParts DEF Inv, TypeOK, Inputs
  <2> QED BY <2>1, <2>2 DEF Written, Inputs
<1> QED BY <1>1, Invariance, PTL

\* No object is emitted for a function whose signature analyzeKernel refuses, which the
\* compiler lowered to another number of parameters, or which has no wrapper.
THEOREM ObjectsHaveBeenChecked == Spec => []ObjectsAreChecked
<1>1. Inv => ObjectsAreChecked
  <2> SUFFICES ASSUME Inv, result = "object", NEW f \in Exported
               PROVE  /\ f \in wrapped /\ Valid(functions[f])
                      /\ parameters[f] = Len(functions[f].inputs)
    BY DEF ObjectsAreChecked
  <2>1. f \in Functions /\ f # NoKernel
    BY SignatureAssumption DEF Exported
  <2>2. f \in wrapped
    BY DEF Inv, Ordered
  <2>3. abi[f] # NoABI /\ parameters[f] = Len(Inputs(f))
    BY <2>1, <2>2 DEF Inv, Counted
  <2>4. Valid(functions[f])
    BY <2>1, <2>3 DEF Inv, Described
  <2> QED BY <2>2, <2>3, <2>4 DEF Inputs
<1> QED BY <1>1, Invariance, PTL
=============================================================================
