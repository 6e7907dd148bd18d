------------------------------ MODULE Validator ------------------------------
(***************************************************************************)
(* The validator's two-phase rule engine over one module: every           *)
(* instruction is visited once, in module order, by the immediate rules   *)
(* (ArithmeticsPass, DerivativesPass, MeshShadingPass), which may also    *)
(* register limitations on the enclosing function; once all instructions  *)
(* are visited, each function's limitations are evaluated against every   *)
(* entry point that reaches it.                                           *)
(*                                                                         *)
(* The driver loop and Function's limitation lists are not part of this  *)
(* source tree and follow the specification: diagnostics accumulate and   *)
(* no rule aborts the others.                                              *)
(*                                                                         *)
(* A module is [insts, entryPoints, caps, reach]: insts a sequence of     *)
(* [op, type, args, fn, id, storage, perPrimitive, payload]; entryPoints  *)
(* a sequence of [fn, models, modes, interfaces] in declaration order;   *)
(* reach[f] the entry-point functions whose call tree contains f.         *)
(***************************************************************************)
EXTENDS ValidateArithmetics, FiniteSets, Functions

CONSTANT Modules

DerivativeOps == {"OpDPdx", "OpDPdy", "OpFwidth", "OpDPdxFine", "OpDPdyFine",
                  "OpFwidthFine", "OpDPdxCoarse", "OpDPdyCoarse", "OpFwidthCoarse"}

DerivativeModels == {"Fragment", "GLCompute", "MeshEXT", "TaskEXT"}
ComputeLikeModels == {"GLCompute", "MeshEXT", "TaskEXT"}
DerivativeGroupModes == {"DerivativeGroupLinearKHR", "DerivativeGroupQuadsKHR"}

(* A limitation registered on a function: an execution-model limitation *)
(* [kind |-> "model", allowed, src] or the derivative-group limitation    *)
(* [kind |-> "derivativeGroup", src]; src is the registering instruction. *)
ModelLimitation(allowed, i) == [kind |-> "model", allowed |-> allowed, src |-> i]
DerivativeGroupLimitation(i) == [kind |-> "derivativeGroup", src |-> i]

(* IsFloatScalarOrVectorType and ContainsSizedIntOrFloatType(float, 32)  *)
IsFloatScalarOrVectorType(t) == IsFloatScalarType(t) \/ IsFloatVectorType(t)
ContainsFloat32(t) == GetComponentType(t).op = "float" /\ GetComponentType(t).w = 32

(* DerivativesPass: <<result, limitations registered>>.  The limitations *)
(* are registered only after the type checks pass.                        *)
DerivativesPass(inst, i) ==
  CASE inst.op \notin DerivativeOps              -> << Ok, {} >>
    [] ~IsFloatScalarOrVectorType(inst.type)     -> << Diag(0), {} >>
    [] ~ContainsFloat32(inst.type)               -> << Diag(0), {} >>
    [] GetOperandTypeId(inst, 2) # inst.type     -> << Diag(2), {} >>
    [] OTHER -> << Ok, {ModelLimitation(DerivativeModels, i),
                        DerivativeGroupLimitation(i)} >>

(* Fault: only GLCompute entry points need a derivative-group mode.       *)
DerivativeGroupHoldsComputeOnly(ep) ==
  ~("GLCompute" \in ep.models /\ ep.modes \cap DerivativeGroupModes = {})

(* The derivative-group limitation for one entry point.                  *)
DerivativeGroupHolds(ep) ==
  ~(ep.models \cap ComputeLikeModels # {} /\ ep.modes \cap DerivativeGroupModes = {})

(* IsInterfaceVariable: the loop returns false at any entry point without *)
(* the model; the break only leaves the interface loop, so the answer is  *)
(* "every entry point has the model and some entry point lists the id",   *)
(* whatever the order of the entry points.                                *)
IsInterfaceVariable(m, inst, model) ==
  LET eps == m.entryPoints
  IN  /\ \A k \in 1..Len(eps) : model \in eps[k].models
      /\ \E k \in 1..Len(eps) : inst.id \in eps[k].interfaces

IsU32Scalar(t) == IsUnsignedIntScalarType(t) /\ GetBitWidth(t) = 32

(* MeshShadingPass's operand checks.  args[k + 1] is operand k here.     *)
MeshOperandChecks(m, inst) ==
  LET arg(k) == IF k + 1 \in 1..Len(inst.args) THEN inst.args[k + 1] ELSE NoType
      meshVar == IsInterfaceVariable(m, inst, "MeshEXT")
      fragVar == IsInterfaceVariable(m, inst, "Fragment")
  IN  CASE inst.op = "OpEmitMeshTasksEXT" ->
             CASE ~IsU32Scalar(arg(0)) -> Diag(0)
               [] ~IsU32Scalar(arg(1)) -> Diag(1)
               [] ~IsU32Scalar(arg(2)) -> Diag(2)
               [] inst.payload = "notVariable" -> Diag(3)
               [] inst.payload = "otherStorage" -> Diag(3)
               [] OTHER -> Ok
        [] inst.op = "OpSetMeshOutputsEXT" ->
             CASE ~IsU32Scalar(arg(0)) -> Diag(0)
               [] ~IsU32Scalar(arg(1)) -> Diag(1)
               [] OTHER -> Ok
        [] inst.op = "OpVariable" /\ "MeshShadingEXT" \in m.caps /\ inst.perPrimitive ->
             CASE fragVar /\ inst.storage # "Input" -> Diag(2)
               [] meshVar /\ inst.storage # "Output" -> Diag(2)
               [] OTHER -> Ok
        [] OTHER -> Ok

(* The execution-model limitations MeshShadingPass registers.           *)
MeshLimitations(inst, i) ==
  CASE inst.op = "OpEmitMeshTasksEXT"  -> {ModelLimitation({"TaskEXT"}, i)}
    [] inst.op = "OpSetMeshOutputsEXT" -> {ModelLimitation({"MeshEXT"}, i)}
    [] OTHER                           -> {}

(* Fault: the limitation registered only once the operands check out.    *)
MeshShadingPassLateRegistration(m, inst, i) ==
  << MeshOperandChecks(m, inst),
     IF MeshOperandChecks(m, inst) = Ok THEN MeshLimitations(inst, i) ELSE {} >>

(* MeshShadingPass: <<result, limitations registered>>.  The model       *)
(* limitation is registered before the operand checks run.               *)
MeshShadingPass(m, inst, i) == << MeshOperandChecks(m, inst), MeshLimitations(inst, i) >>

-----------------------------------------------------------------------------
VARIABLES
  mod,       \* the module under validation
  pc,        \* index of the next instruction to visit
  diags,     \* the diagnostics produced so far
  limits,    \* [fn, lim]: limitations registered on function fn
  pending    \* functions whose limitations are still to be evaluated

vars == <<mod, pc, diags, limits, pending>>

NoEntry == "none"

(* A diagnostic: the instruction it is bound to, the rule that produced  *)
(* it, the operand index an immediate rule cites, and the entry point a  *)
(* limitation failed for.                                                  *)
Diagnostic(i, rule, at, ep) == [inst |-> i, rule |-> rule, at |-> at, ep |-> ep]

Functions(m) == {m.insts[i].fn : i \in DOMAIN m.insts} \cup {e.fn : e \in Range(m.entryPoints)}

VInit ==
  /\ mod \in Modules
  /\ pc = 1
  /\ diags = {}
  /\ limits = {}
  /\ pending = Functions(mod)

(* Visit instruction pc: every immediate rule runs and reports on its own, *)
(* and the limitations the rules register are attached to the function.  *)
ValidateInstruction ==
  LET inst == mod.insts[pc]
      arith == ArithmeticsPass(inst)
      deriv == DerivativesPass(inst, pc)
      mesh  == MeshShadingPass(mod, inst, pc)
      results == {<<"arith", arith>>, <<"deriv", deriv[1]>>, <<"mesh", mesh[1]>>}
  IN  /\ pc <= Len(mod.insts)
      /\ diags' = diags \cup {Diagnostic(pc, r[1], r[2].at, NoEntry) :
                                r \in {x \in results : x[2] # Ok}}
      /\ limits' = limits \cup {[fn |-> inst.fn, lim |-> l] : l \in deriv[2] \cup mesh[2]}
      /\ pc' = pc + 1
      /\ UNCHANGED <<mod, pending>>

(* The diagnostics function f's limitations give for one entry point:    *)
(* an execution-model limitation fails for each of the entry point's     *)
(* models it does not allow; a registered limitation fails as a whole.   *)
LimitationFailures(f, ep) ==
  LET lims == {x.lim : x \in {y \in limits : y.fn = f}}
  IN  {Diagnostic(l.src, "model", 0, ep.fn) :
          l \in {l \in lims : l.kind = "model" /\ ~(ep.models \subseteq l.allowed)}}
      \cup
      {Diagnostic(l.src, "derivativeGroup", 0, ep.fn) :
          l \in {l \in lims : l.kind = "derivativeGroup" /\ ~DerivativeGroupHolds(ep)}}

(* After the last instruction: evaluate f's limitations against every    *)
(* entry point whose call tree contains f.                                *)
CheckLimitations(f) ==
  /\ pc > Len(mod.insts)
  /\ f \in pending
  /\ diags' = diags \cup UNION {LimitationFailures(f, ep) :
                                  ep \in {e \in Range(mod.entryPoints) : e.fn \in mod.reach[f]}}
  /\ pending' = pending \ {f}
  /\ UNCHANGED <<mod, pc, limits>>

VNext == ValidateInstruction \/ \E f \in UNION {Functions(m) : m \in Modules} : CheckLimitations(f)

VSpec == VInit /\ [][VNext]_vars

Done == pc > Len(mod.insts) /\ pending = {}
-----------------------------------------------------------------------------
(* The entry points whose call tree contains function f.                 *)
Reaching(m, f) == {e \in Range(m.entryPoints) : e.fn \in m.reach[f]}

(* No diagnostic of the given rules is bound to instruction i.           *)
Accepted(i, rules) == ~\E d \in diags : d.inst = i /\ d.rule \in rules

InstIndices == DOMAIN mod.insts

VTypeOK ==
  /\ pc \in 1..(Len(mod.insts) + 1)
  /\ pending \subseteq Functions(mod)
  /\ \A d \in diags : d.inst \in InstIndices /\ d.at \in 0..4
  /\ \A d \in diags : d.rule = "arith" =>
        d.at \in {0} \cup 2..(Len(mod.insts[d.inst].args) + 1)
                 \cup (IF mod.insts[d.inst].op = "OpCooperativeMatrixReduceNV" THEN {3, 4} ELSE {})
  /\ \A x \in limits : x.fn \in Functions(mod) /\ x.lim.src \in InstIndices

(* The spec's "no implicit coercion": once validation is over, every      *)
(* operand of an accepted component-wise arithmetic instruction (the      *)
(* OpF*, OpU* and OpI*/OpS* families) has the Result Type's component      *)
(* kind, bit width and component count. On scalars and vectors            *)
(* ArithmeticsPass compares whole types; its cooperative-vector and       *)
(* cooperative-matrix branches compare only the shape, so the property is *)
(* checked to hold on scalar and vector operands and found violated on   *)
(* cooperative ones.                                                      *)
ElementwiseOperandsMatch ==
  Done =>
    \A i \in InstIndices :
      LET inst == mod.insts[i]
          rt == inst.type
      IN  (inst.op \in FloatOps \cup UnsignedDivOps \cup IntOps /\ Accepted(i, {"arith"}))
            => \A k \in DOMAIN inst.args :
                 LET t == inst.args[k]
                 IN  /\ GetComponentType(t).op = GetComponentType(rt).op
                     /\ GetBitWidth(t) = GetBitWidth(rt)
                     /\ GetDimension(t) = GetDimension(rt)
                     /\ IsCoopVec(rt) => IsCoopVec(t) /\ CoopVecDimsMatch(t, rt)

(* Rows and columns of an operand read as a matrix: a vector is a column *)
(* (n x 1) on the right of a product and a row (1 x n) on the left.        *)
AsMatrix(t, side) ==
  CASE t.op = "matrix"                    -> << t.col.n, t.cols >>
    [] t.op = "vector" /\ side = "left"   -> << 1, t.n >>
    [] t.op = "vector" /\ side = "right"  -> << t.n, 1 >>
    [] OTHER                              -> << 0, 0 >>

(* Linear algebra: after validation, every accepted OpVectorTimesMatrix,  *)
(* OpMatrixTimesVector and OpMatrixTimesMatrix multiplies an r x k by a   *)
(* k x c operand into an r x c result of one float component type, every *)
(* accepted OpOuterProduct builds an n x m matrix from an n-vector and an *)
(* m-vector, and an accepted OpDot multiplies two vectors of one size.    *)
ProductShapesCompose ==
  Done =>
    \A i \in InstIndices :
      LET inst == mod.insts[i]
          l == GetOperandTypeId(inst, 2)
          r == GetOperandTypeId(inst, 3)
          res == inst.type
          lm == AsMatrix(l, "left")
          rm == AsMatrix(r, IF inst.op = "OpOuterProduct" THEN "left" ELSE "right")
          rs == AsMatrix(res, IF inst.op = "OpVectorTimesMatrix" THEN "left" ELSE "right")
          lc == IF inst.op = "OpOuterProduct" THEN AsMatrix(l, "right") ELSE lm
      IN  Accepted(i, {"arith"}) =>
            /\ inst.op \in {"OpVectorTimesMatrix", "OpMatrixTimesVector",
                             "OpMatrixTimesMatrix", "OpOuterProduct"} =>
                 /\ inst.op # "OpOuterProduct" => lm[2] = rm[1]
                 /\ rs = << lc[1], rm[2] >>
                 /\ GetComponentType(l) = GetComponentType(res)
                 /\ GetComponentType(r) = GetComponentType(res)
                 /\ IsFloatScalarType(GetComponentType(res))
            /\ inst.op = "OpDot" =>
                 /\ IsFloatVectorType(l) /\ IsFloatVectorType(r)
                 /\ GetDimension(l) = GetDimension(r)

(* The spec's derivative rule, checked across both phases: after         *)
(* validation, a well-typed derivative instruction has an execution-model *)
(* or derivative-group diagnostic exactly when some entry point reaching  *)
(* its function has a model other than Fragment, GLCompute, MeshEXT and   *)
(* TaskEXT, or a GLCompute, MeshEXT or TaskEXT model without a            *)
(* DerivativeGroup*KHR mode; and every such diagnostic names such an     *)
(* entry point.                                                            *)
DerivativeRule ==
  LET violates(e) ==
        \/ \E model \in e.models : model \notin {"Fragment", "GLCompute", "MeshEXT", "TaskEXT"}
        \/ /\ \E model \in e.models : model \in {"GLCompute", "MeshEXT", "TaskEXT"}
           /\ e.modes \cap {"DerivativeGroupLinearKHR", "DerivativeGroupQuadsKHR"} = {}
  IN  Done =>
        \A i \in InstIndices :
          (mod.insts[i].op \in DerivativeOps /\ Accepted(i, {"deriv"})) =>
            /\ (\E d \in diags : d.inst = i /\ d.rule \in {"model", "derivativeGroup"})
                 <=> \E e \in Reaching(mod, mod.insts[i].fn) : violates(e)
            /\ \A d \in diags : (d.inst = i /\ d.rule \in {"model", "derivativeGroup"})
                 => \E e \in Reaching(mod, mod.insts[i].fn) : e.fn = d.ep /\ violates(e)

(* OpEmitMeshTasksEXT belongs in a TaskEXT entry point and               *)
(* OpSetMeshOutputsEXT in a MeshEXT one: after validation such an        *)
(* instruction has an execution-model diagnostic exactly when an entry   *)
(* point reaching it has another model, whether or not its operands are  *)
(* well-typed (the limitation is registered before the operand checks).  *)
MeshInstructionModels ==
  LET need(op) == IF op = "OpEmitMeshTasksEXT" THEN "TaskEXT" ELSE "MeshEXT"
  IN  Done =>
        \A i \in InstIndices :
          mod.insts[i].op \in {"OpEmitMeshTasksEXT", "OpSetMeshOutputsEXT"} =>
            ((\E d \in diags : d.inst = i /\ d.rule = "model")
               <=> \E e \in Reaching(mod, mod.insts[i].fn) : e.models # {need(mod.insts[i].op)})

(* The PerPrimitiveEXT rule as its diagnostics state it: with            *)
(* MeshShadingEXT declared, a PerPrimitiveEXT variable in the interface   *)
(* of a Fragment entry point must be Input, and one in the interface of a *)
(* MeshEXT entry point must be Output; after validation a variable that   *)
(* breaks this has a diagnostic.                                           *)
PerPrimitiveRule ==
  Done =>
    \A i \in InstIndices :
      LET v == mod.insts[i]
          listedBy(model) == \E e \in Range(mod.entryPoints) :
                               model \in e.models /\ v.id \in e.interfaces
      IN  (/\ v.op = "OpVariable" /\ v.perPrimitive /\ "MeshShadingEXT" \in mod.caps
           /\ \/ listedBy("Fragment") /\ v.storage # "Input"
              \/ listedBy("MeshEXT") /\ v.storage # "Output")
            => \E d \in diags : d.inst = i /\ d.rule = "mesh"
(* OpCooperativeMatrixReduceNV: after validation an accepted reduction   *)
(* takes an accumulator matrix to an accumulator of the same component    *)
(* type and scope, through a CombineFunc from two components to one, and *)
(* where the sizes are constants its result has the matrix's rows for a  *)
(* row reduction, its columns for a column reduction, and half of each   *)
(* (rounded down) for a 2x2 reduction, which combines with neither.      *)
ReduceShapes ==
  Done =>
    \A i \in InstIndices :
      LET inst == mod.insts[i]
          r == inst.type
          mt == GetOperandTypeId(inst, 2)
          const(x) == x # SpecConst
          has(bit) == (inst.mask \div bit) % 2 = 1
      IN  (inst.op = "OpCooperativeMatrixReduceNV" /\ Accepted(i, {"arith"})) =>
            /\ r.op = "coopmatKHR" /\ mt.op = "coopmatKHR"
            /\ r.use = "Acc" /\ mt.use = "Acc"
            /\ r.comp = mt.comp /\ r.scope = mt.scope
            /\ inst.combine.fn /\ inst.combine.sig = << mt.comp, mt.comp, mt.comp >>
            /\ has(4) => ~has(1) /\ ~has(2)
            /\ has(4) /\ const(r.rows) /\ const(r.cols) /\ const(mt.rows) /\ const(mt.cols)
                 => << r.rows, r.cols >> = << mt.rows \div 2, mt.cols \div 2 >>
            /\ inst.mask = 1 /\ const(r.rows) /\ const(mt.rows) => r.rows = mt.rows
            /\ inst.mask = 2 /\ const(r.cols) /\ const(mt.cols) => r.cols = mt.cols
=============================================================================
