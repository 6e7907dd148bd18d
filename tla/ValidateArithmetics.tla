------------------------- MODULE ValidateArithmetics -------------------------
(***************************************************************************)
(* The immediate rules of val/validate_arithmetics.cpp: ArithmeticsPass    *)
(* for one instruction, one operator per opcode family.  An instruction  *)
(* is [op, type, args]: its opcode, its Result Type and the types of its *)
(* operands from operand index 2 on (args[1] is operand 2).  The result  *)
(* is Ok or [at |-> the operand index the diagnostic cites, 0 for the  *)
(* Result Type].                                                          *)
(*                                                                         *)
(* Types are records: [op |-> "float", w], [op |-> "int", w, signed],     *)
(* [op |-> "vector", comp, n], [op |-> "matrix", col, cols],              *)
(* [op |-> "struct", members], NoType (an operand without a type), and    *)
(* the cooperative matrix types [op |-> "coopmatNV" | "coopmatKHR", comp, *)
(* scope, rows, cols, use] and [op |-> "coopvecNV", comp, n], whose       *)
(* scope, rows, cols and n are an integer constant or SpecConst (not a    *)
(* constant the validator can evaluate).  There is no BFloat16 type, so   *)
(* OpDot's BFloat16DotProductKHR check never applies.                     *)
(*                                                                         *)
(* The type queries of ValidationState_t (IsFloatScalarType, GetDimension, *)
(* GetMatrixTypeInfo, ...) are not part of this source tree; they are     *)
(* defined below by what they answer for these types.                     *)
(***************************************************************************)
EXTENDS Integers, Sequences, Bitwise

NoType == [op |-> "none"]
SpecConst == -1   \* a size given by a specialization constant (never a real size)

(* ValidationState_t's type queries. *)
IsFloatScalarType(t) == t.op = "float"
IsFloatVectorType(t) == t.op = "vector" /\ t.comp.op = "float"
IsIntScalarType(t) == t.op = "int"
IsIntVectorType(t) == t.op = "vector" /\ t.comp.op = "int"
IsUnsignedIntScalarType(t) == t.op = "int" /\ ~t.signed
IsUnsignedIntVectorType(t) == IsIntVectorType(t) /\ ~t.comp.signed
IsFloatMatrixType(t) == t.op = "matrix" /\ t.col.comp.op = "float"
IsCoopMatKHR(t) == t.op = "coopmatKHR"
IsCoopMatNV(t) == t.op = "coopmatNV"
IsCoopMat(t) == IsCoopMatKHR(t) \/ IsCoopMatNV(t)
IsFloatCoopMat(t) == IsCoopMat(t) /\ t.comp.op = "float"
IsIntCoopMat(t) == IsCoopMat(t) /\ t.comp.op = "int"
IsUnsignedIntCoopMat(t) == IsIntCoopMat(t) /\ ~t.comp.signed
IsCoopVec(t) == t.op = "coopvecNV"
IsFloatCoopVec(t) == IsCoopVec(t) /\ t.comp.op = "float"
IsIntCoopVec(t) == IsCoopVec(t) /\ t.comp.op = "int"
IsUnsignedIntCoopVec(t) == IsIntCoopVec(t) /\ ~t.comp.signed
GetComponentType(t) ==
  CASE t.op = "vector" -> t.comp
    [] t.op = "matrix" -> t.col.comp
    [] IsCoopMat(t) \/ IsCoopVec(t) -> t.comp
    [] OTHER           -> t
GetDimension(t) ==
  CASE t.op \in {"float", "int"} -> 1
    [] t.op = "vector" -> t.n
    [] t.op = "matrix" -> t.cols
    [] OTHER           -> 0
GetBitWidth(t) ==
  IF GetComponentType(t).op \in {"float", "int"} THEN GetComponentType(t).w ELSE 0
(* GetMatrixTypeInfo: <<is a matrix, rows, cols, column type, component>> *)
GetMatrixTypeInfo(t) ==
  IF t.op = "matrix" THEN << TRUE, t.col.n, t.cols, t.col, t.col.comp >>
  ELSE << FALSE, 0, 0, NoType, NoType >>
(* EvalInt32IfConst: <<is int32, is a constant, value>> *)
EvalInt32IfConst(x) == IF x = SpecConst THEN << TRUE, FALSE, 0 >> ELSE << TRUE, TRUE, x >>
(* CooperativeMatrixShapesMatch(inst, result, operand, false): scope,    *)
(* rows and columns agree where both are constants.                       *)
NotEqual(x, y) ==
  EvalInt32IfConst(x)[2] /\ EvalInt32IfConst(y)[2] /\ x # y
CoopShapesMatch(a, b) ==
  ~NotEqual(a.scope, b.scope) /\ ~NotEqual(a.rows, b.rows) /\ ~NotEqual(a.cols, b.cols)
(* CooperativeVectorDimensionsMatch: the component counts agree where    *)
(* both are constants.                                                    *)
CoopVecDimsMatch(a, b) == ~NotEqual(a.n, b.n)

Ok == [at |-> -1]   \* no operand is cited: the rule passed
Diag(i) == [at |-> i]

GetOperandTypeId(inst, k) == IF k - 1 \in 1..Len(inst.args) THEN inst.args[k - 1] ELSE NoType
(* Fault: the operand loop runs while operand_index <= operands().size(). *)
OperandIndicesInclusive(inst) == 2..(Len(inst.args) + 2)
OperandIndices(inst) == 2..(Len(inst.args) + 1)

(* The operand loop: the first operand index, in order, among those     *)
(* whose check fails, else Ok.                                            *)
FirstFailing(failing) ==
  IF failing = {} THEN Ok
  ELSE Diag(CHOOSE k \in failing : \A j \in failing : k <= j)

FloatOps == {"OpFAdd", "OpFSub", "OpFMul", "OpFDiv", "OpFRem", "OpFMod", "OpFNegate"}
UnsignedDivOps == {"OpUDiv", "OpUMod"}
IntOps == {"OpISub", "OpIAdd", "OpIMul", "OpSDiv", "OpSMod", "OpSRem", "OpSNegate"}
ExtendedOps == {"OpIAddCarry", "OpISubBorrow", "OpUMulExtended", "OpSMulExtended"}

(* OpFAdd ... OpFNegate *)
FloatArithmetic(inst) ==
  LET op == inst.op
      rt == inst.type
      supportsCoopMat == op \notin {"OpFMul", "OpFRem", "OpFMod"}
      supportsCoopVec == op \notin {"OpFRem", "OpFMod"}
      bad(k) ==
        LET t == GetOperandTypeId(inst, k)
        IN  IF supportsCoopVec /\ IsCoopVec(rt)
              THEN ~IsCoopVec(t) \/ ~CoopVecDimsMatch(t, rt)
            ELSE IF supportsCoopMat /\ IsCoopMatKHR(rt)
              THEN ~IsCoopMatKHR(t) \/ ~IsFloatCoopMat(t) \/ ~CoopShapesMatch(rt, t)
            ELSE t # rt
  IN  IF ~IsFloatScalarType(rt) /\ ~IsFloatVectorType(rt)
         /\ ~(supportsCoopMat /\ IsFloatCoopMat(rt))
         /\ ~(op = "OpFMul" /\ IsCoopMatKHR(rt) /\ IsFloatCoopMat(rt))
         /\ ~(supportsCoopVec /\ IsFloatCoopVec(rt))
        THEN Diag(0)
      ELSE FirstFailing({k \in OperandIndices(inst) : bad(k)})

(* OpUDiv, OpUMod *)
UnsignedDivision(inst) ==
  LET rt == inst.type
      supportsCoopMat == inst.op = "OpUDiv"
      supportsCoopVec == inst.op = "OpUDiv"
      bad(k) ==
        LET t == GetOperandTypeId(inst, k)
        IN  IF supportsCoopVec /\ IsCoopVec(rt)
              THEN ~IsCoopVec(t) \/ ~CoopVecDimsMatch(t, rt)
            ELSE IF supportsCoopMat /\ IsCoopMatKHR(rt)
              THEN ~IsCoopMatKHR(t) \/ ~IsUnsignedIntCoopMat(t) \/ ~CoopShapesMatch(rt, t)
            ELSE t # rt
  IN  IF ~IsUnsignedIntScalarType(rt) /\ ~IsUnsignedIntVectorType(rt)
         /\ ~(supportsCoopMat /\ IsUnsignedIntCoopMat(rt))
         /\ ~(supportsCoopVec /\ IsUnsignedIntCoopVec(rt))
        THEN Diag(0)
      ELSE FirstFailing({k \in OperandIndices(inst) : bad(k)})

(* Fault: operands checked for dimension only, not bit width.            *)
IntegerArithmeticNoWidthCheck(inst) ==
  LET bad(k) == GetDimension(GetOperandTypeId(inst, k)) # GetDimension(inst.type)
  IN  IF ~IsIntScalarType(inst.type) /\ ~IsIntVectorType(inst.type) THEN Diag(0)
      ELSE FirstFailing({k \in OperandIndices(inst) : bad(k)})

(* OpISub ... OpSNegate: operands need the Result Type's dimension and   *)
(* bit width, not its signedness.                                         *)
IntegerArithmetic(inst) ==
  LET op == inst.op
      rt == inst.type
      supportsCoopMat == op \notin {"OpIMul", "OpSRem", "OpSMod"}
      supportsCoopVec == op \notin {"OpSRem", "OpSMod"}
      intResultExempt ==
        \/ supportsCoopMat /\ IsIntCoopMat(rt)
        \/ op = "OpIMul" /\ IsCoopMatKHR(rt) /\ IsIntCoopMat(rt)
        \/ supportsCoopVec /\ IsIntCoopVec(rt)
      bad(k) ==
        LET t == GetOperandTypeId(inst, k)
        IN  \/ supportsCoopVec /\ IsCoopVec(rt)
               /\ (~IsCoopVec(t) \/ ~CoopVecDimsMatch(t, rt))
            \/ supportsCoopMat /\ IsCoopMatKHR(rt)
               /\ (~IsCoopMatKHR(t) \/ ~IsIntCoopMat(t) \/ ~CoopShapesMatch(rt, t))
            \/ t = NoType
            \/ ~IsIntScalarType(t) /\ ~IsIntVectorType(t) /\ ~intResultExempt
            \/ GetDimension(t) # GetDimension(rt)
            \/ GetBitWidth(t) # GetBitWidth(rt)
  IN  IF ~IsIntScalarType(rt) /\ ~IsIntVectorType(rt) /\ ~intResultExempt
        THEN Diag(0)
      ELSE FirstFailing({k \in OperandIndices(inst) : bad(k)})

(* OpDot: two float vectors of the Result Type's component type and of   *)
(* the same size.                                                          *)
Dot(inst) ==
  LET rt == inst.type
      first == GetOperandTypeId(inst, 2)
      bad(k) ==
        LET t == GetOperandTypeId(inst, k)
        IN  \/ t = NoType \/ ~IsFloatVectorType(t)
            \/ GetComponentType(t) # rt
            \/ k > 2 /\ GetDimension(t) # GetDimension(first)
  IN  IF ~IsFloatScalarType(rt) THEN Diag(0) ELSE FirstFailing({k \in OperandIndices(inst) : bad(k)})

OpVectorTimesScalar(inst) ==
  LET rt == inst.type
      vt == GetOperandTypeId(inst, 2)
  IN  CASE ~IsFloatVectorType(rt) /\ ~IsFloatCoopVec(rt)  -> Diag(0)
        [] rt # vt                                         -> Diag(2)
        [] GetComponentType(vt) # GetOperandTypeId(inst, 3) -> Diag(3)
        [] OTHER                                           -> Ok

OpMatrixTimesScalar(inst) ==
  LET rt == inst.type
      mt == GetOperandTypeId(inst, 2)
  IN  CASE ~IsFloatMatrixType(rt) /\ ~IsCoopMat(rt)         -> Diag(0)
        [] rt # mt                                         -> Diag(2)
        [] GetComponentType(mt) # GetOperandTypeId(inst, 3) -> Diag(3)
        [] OTHER                                           -> Ok

(* Fault: the vector's size is not compared with the matrix's rows.      *)
OpVectorTimesMatrixNoRowCheck(inst) ==
  LET rt == inst.type
      vt == GetOperandTypeId(inst, 2)
      m  == GetMatrixTypeInfo(GetOperandTypeId(inst, 3))
  IN  IF IsFloatVectorType(rt) /\ IsFloatVectorType(vt) /\ m[1]
         /\ GetComponentType(rt) = GetComponentType(vt) /\ GetComponentType(rt) = m[5]
         /\ m[3] = GetDimension(rt)
        THEN Ok ELSE Diag(0)

(* vector * matrix: the vector's size is the matrix's row count, the     *)
(* result's size its column count.                                        *)
OpVectorTimesMatrix(inst) ==
  LET rt == inst.type
      vt == GetOperandTypeId(inst, 2)
      m  == GetMatrixTypeInfo(GetOperandTypeId(inst, 3))
  IN  CASE ~IsFloatVectorType(rt)                             -> Diag(0)
        [] vt = NoType \/ ~IsFloatVectorType(vt)              -> Diag(2)
        [] GetComponentType(rt) # GetComponentType(vt)        -> Diag(2)
        [] ~m[1]                                              -> Diag(3)
        [] GetComponentType(rt) # m[5]                        -> Diag(3)
        [] m[3] # GetDimension(rt)                            -> Diag(3)
        [] m[2] # GetDimension(vt)                            -> Diag(3)
        [] OTHER                                              -> Ok

(* matrix * vector: the result is the matrix's column type, the vector's *)
(* size its column count.                                                 *)
OpMatrixTimesVector(inst) ==
  LET rt == inst.type
      m  == GetMatrixTypeInfo(GetOperandTypeId(inst, 2))
      vt == GetOperandTypeId(inst, 3)
  IN  CASE ~IsFloatVectorType(rt)                             -> Diag(0)
        [] ~m[1]                                              -> Diag(2)
        [] rt # m[4]                                          -> Diag(2)
        [] vt = NoType \/ ~IsFloatVectorType(vt)              -> Diag(3)
        [] m[5] # GetComponentType(vt)                        -> Diag(3)
        [] m[3] # GetDimension(vt)                            -> Diag(3)
        [] OTHER                                              -> Ok

(* matrix * matrix.  The closing assert(left_num_rows == res_num_rows)   *)
(* is compiled out.                                                       *)
OpMatrixTimesMatrix(inst) ==
  LET res   == GetMatrixTypeInfo(inst.type)
      left  == GetMatrixTypeInfo(GetOperandTypeId(inst, 2))
      right == GetMatrixTypeInfo(GetOperandTypeId(inst, 3))
  IN  CASE ~res[1]                      -> Diag(0)
        [] ~left[1]                     -> Diag(2)
        [] ~right[1]                    -> Diag(3)
        [] ~IsFloatScalarType(res[5])   -> Diag(0)
        [] res[4] # left[4]             -> Diag(2)
        [] res[5] # right[5]            -> Diag(3)
        [] res[3] # right[3]            -> Diag(3)
        [] left[3] # right[2]           -> Diag(3)
        [] OTHER                        -> Ok

(* The outer product of a column vector and a row vector.                *)
OpOuterProduct(inst) ==
  LET res == GetMatrixTypeInfo(inst.type)
      lt  == GetOperandTypeId(inst, 2)
      rt  == GetOperandTypeId(inst, 3)
  IN  CASE ~res[1]                                  -> Diag(0)
        [] lt # res[4]                              -> Diag(2)
        [] rt = NoType \/ ~IsFloatVectorType(rt)    -> Diag(3)
        [] res[5] # GetComponentType(rt)            -> Diag(3)
        [] res[3] # GetDimension(rt)                -> Diag(3)
        [] OTHER                                    -> Ok

(* OpIAddCarry, OpISubBorrow, OpUMulExtended, OpSMulExtended: a struct of *)
(* two identical (unsigned, except for SMulExtended) integer members, and *)
(* both operands of that member type.                                    *)
ExtendedArithmetic(inst) ==
  LET rt == inst.type
      m  == IF rt.op = "struct" THEN rt.members ELSE << >>
      intMember(t) ==
        IF inst.op = "OpSMulExtended" THEN IsIntScalarType(t) \/ IsIntVectorType(t)
        ELSE IsUnsignedIntScalarType(t) \/ IsUnsignedIntVectorType(t)
  IN  CASE rt.op # "struct"                          -> Diag(0)
        [] Len(m) # 2                                -> Diag(0)
        [] ~intMember(m[1])                          -> Diag(0)
        [] m[1] # m[2]                               -> Diag(0)
        [] GetOperandTypeId(inst, 2) # m[1]
           \/ GetOperandTypeId(inst, 3) # m[1]        -> Diag(2)
        [] OTHER                                     -> Ok

(* D = A * B + C: scopes agree, M = rows of A, C, D, N = cols of B, C, D, *)
(* K = cols of A = rows of B; a pair is compared only when both sides    *)
(* are constants.                                                         *)
CoopMulAddShapes(A, B, C, D) ==
  LET scopes == {A.scope, B.scope, C.scope, D.scope}
  IN  CASE \E x, y \in scopes : NotEqual(x, y)                       -> Diag(0)
        [] NotEqual(A.rows, C.rows) \/ NotEqual(A.rows, D.rows)
           \/ NotEqual(C.rows, D.rows)                                 -> Diag(0)
        [] NotEqual(B.cols, C.cols) \/ NotEqual(B.cols, D.cols)
           \/ NotEqual(C.cols, D.cols)                                 -> Diag(0)
        [] NotEqual(A.cols, B.rows)                                    -> Diag(0)
        [] OTHER                                                       -> Ok

OpCooperativeMatrixMulAddNV(inst) ==
  LET A == GetOperandTypeId(inst, 2)
      B == GetOperandTypeId(inst, 3)
      C == GetOperandTypeId(inst, 4)
      D == inst.type
  IN  CASE ~IsCoopMatNV(A) -> Diag(2)
        [] ~IsCoopMatNV(B) -> Diag(3)
        [] ~IsCoopMatNV(C) -> Diag(4)
        [] ~IsCoopMatNV(D) -> Diag(0)
        [] OTHER           -> CoopMulAddShapes(A, B, C, D)

(* The KHR form also requires the MatrixA, MatrixB and Accumulator uses. *)
OpCooperativeMatrixMulAddKHR(inst) ==
  LET A == GetOperandTypeId(inst, 2)
      B == GetOperandTypeId(inst, 3)
      C == GetOperandTypeId(inst, 4)
      D == inst.type
  IN  CASE ~(IsCoopMatKHR(A) /\ A.use = "A")   -> Diag(2)
        [] ~(IsCoopMatKHR(B) /\ B.use = "B")   -> Diag(3)
        [] ~(IsCoopMatKHR(C) /\ C.use = "Acc") -> Diag(4)
        [] ~IsCoopMatKHR(D)                    -> Diag(0)
        [] OTHER                               -> CoopMulAddShapes(A, B, C, D)

(* CooperativeMatrixReduceMask bits.                                     *)
ReduceRow == 1
ReduceColumn == 2
Reduce2x2 == 4

(* Fault: the scopes of the Result Type and the Matrix are not compared. *)
ReduceSameScopeUnchecked(r, mt) == TRUE

ReduceSameScope(r, mt) == r.scope = mt.scope

(* OpCooperativeMatrixReduceNV: args[1] is the Matrix's type, inst.mask   *)
(* the Reduce operand and inst.combine the CombineFunc's OpTypeFunction   *)
(* as [fn |-> whether it is an OpFunction, sig |-> its OpTypeFunction's  *)
(* operands after the id: the return type, then the parameters].         *)
(* Sizes are compared only where both are constants.                      *)
OpCooperativeMatrixReduceNV(inst) ==
  LET r  == inst.type
      mt == GetOperandTypeId(inst, 2)
      mask == inst.mask
      cf == inst.combine
  IN  CASE ~IsCoopMatKHR(r)                            -> Diag(0)
        [] ~IsCoopMatKHR(mt)                           -> Diag(2)
        [] mt.comp # r.comp                            -> Diag(2)
        [] ~ReduceSameScope(r, mt)                     -> Diag(2)
        [] r.use # "Acc"                               -> Diag(0)
        [] mt.use # "Acc"                              -> Diag(2)
        [] (mask & Reduce2x2) # 0 /\ (mask & (ReduceRow + ReduceColumn)) # 0 -> Diag(3)
        [] /\ (mask & Reduce2x2) # 0
           /\ \A x \in {r.rows, r.cols, mt.rows, mt.cols} : EvalInt32IfConst(x)[2]
           /\ (r.rows # mt.rows \div 2 \/ r.cols # mt.cols \div 2) -> Diag(3)
        [] mask = ReduceRow /\ NotEqual(r.rows, mt.rows)     -> Diag(3)
        [] mask = ReduceColumn /\ NotEqual(r.cols, mt.cols)  -> Diag(3)
        [] ~cf.fn                                      -> Diag(4)
        [] Len(cf.sig) # 3                             -> Diag(4)
        [] \E k \in 1..3 : cf.sig[k] # mt.comp         -> Diag(4)
        [] OTHER                                       -> Ok

(* ArithmeticsPass: the rule of the instruction's opcode family; other   *)
(* opcodes pass.                                                          *)
ArithmeticsPass(inst) ==
  CASE inst.op \in FloatOps        -> FloatArithmetic(inst)
    [] inst.op \in UnsignedDivOps  -> UnsignedDivision(inst)
    [] inst.op \in IntOps          -> IntegerArithmetic(inst)
    [] inst.op = "OpDot"           -> Dot(inst)
    [] inst.op = "OpVectorTimesScalar" -> OpVectorTimesScalar(inst)
    [] inst.op = "OpMatrixTimesScalar" -> OpMatrixTimesScalar(inst)
    [] inst.op = "OpVectorTimesMatrix" -> OpVectorTimesMatrix(inst)
    [] inst.op = "OpMatrixTimesVector" -> OpMatrixTimesVector(inst)
    [] inst.op = "OpMatrixTimesMatrix" -> OpMatrixTimesMatrix(inst)
    [] inst.op = "OpOuterProduct"      -> OpOuterProduct(inst)
    [] inst.op \in ExtendedOps         -> ExtendedArithmetic(inst)
    [] inst.op = "OpCooperativeMatrixMulAddNV"  -> OpCooperativeMatrixMulAddNV(inst)
    [] inst.op = "OpCooperativeMatrixMulAddKHR" -> OpCooperativeMatrixMulAddKHR(inst)
    [] inst.op = "OpCooperativeMatrixReduceNV"  -> OpCooperativeMatrixReduceNV(inst)
    [] OTHER -> Ok
=============================================================================
