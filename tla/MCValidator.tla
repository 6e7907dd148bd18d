---------------------------- MODULE MCValidator ----------------------------
(***************************************************************************)
(* Modules for the validator: one arithmetic instruction over a small     *)
(* type universe; derivative instructions in a helper function called by *)
(* two entry points of varied models and modes; the mesh-shading          *)
(* instructions and PerPrimitiveEXT variables under varied entry points.  *)
(* A behaviour either validates one of these modules or runs the reducer  *)
(* on one module of Reduction; the other side is then the validation of  *)
(* an empty module, which has ended without a diagnostic.                 *)
(***************************************************************************)
EXTENDS Validator, Reduction

F32 == [op |-> "float", w |-> 32]
F16 == [op |-> "float", w |-> 16]
I32 == [op |-> "int", w |-> 32, signed |-> TRUE]
U32 == [op |-> "int", w |-> 32, signed |-> FALSE]
U16 == [op |-> "int", w |-> 16, signed |-> FALSE]
Vec(c, n) == [op |-> "vector", comp |-> c, n |-> n]
Mat(c, cols) == [op |-> "matrix", col |-> c, cols |-> cols]
Struct(a, b) == [op |-> "struct", members |-> << a, b >>]
CoopVec(c, n) == [op |-> "coopvecNV", comp |-> c, n |-> n]
CoopMat(kind, c, rows, cols, use) ==
  [op |-> kind, comp |-> c, scope |-> 3, rows |-> rows, cols |-> cols, use |-> use]

V2F32 == Vec(F32, 2)
V3F32 == Vec(F32, 3)
V2F16 == Vec(F16, 2)
V2I32 == Vec(I32, 2)
V2U32 == Vec(U32, 2)

Inst(op, type, args) ==
  [op |-> op, type |-> type, args |-> args, fn |-> "main", id |-> 0,
   storage |-> "none", perPrimitive |-> FALSE, payload |-> "none",
   mask |-> 0, combine |-> [fn |-> FALSE, sig |-> << >>]]
EntryPoint(fn, models, modes, interfaces) ==
  [fn |-> fn, models |-> models, modes |-> modes, interfaces |-> interfaces]
OneInstModule(inst) ==
  [insts |-> << inst >>, caps |-> {},
   entryPoints |-> << EntryPoint("main", {"Fragment"}, {}, {}) >>,
   reach |-> [f \in {"main"} |-> {"main"}]]

(* Component-wise arithmetic over scalars and vectors. *)
ElementTypes == {F32, F16, V2F32, V2F16, I32, U32, U16, V2I32, V2U32, NoType}
ElementwiseModules ==
  {OneInstModule(Inst(op, rt, << a, b >>)) :
      op \in {"OpFAdd", "OpFMul", "OpUDiv", "OpIAdd"}, rt \in ElementTypes,
      a \in ElementTypes, b \in ElementTypes}
  \cup {OneInstModule(Inst(op, rt, << a >>)) :
      op \in {"OpFNegate", "OpSNegate", "OpUMod"}, rt \in ElementTypes, a \in ElementTypes}

(* Products over vectors and matrices of 2 and 3 rows and columns. *)
ProductTypes == {F32, V2F32, V3F32, V2F16, Mat(V2F32, 2), Mat(V2F32, 3),
                 Mat(V3F32, 2), Mat(V2F16, 2)}
ProductModules ==
  {OneInstModule(Inst(op, rt, << a, b >>)) :
      op \in {"OpDot", "OpVectorTimesScalar", "OpMatrixTimesScalar",
              "OpVectorTimesMatrix", "OpMatrixTimesVector",
              "OpMatrixTimesMatrix", "OpOuterProduct"},
      rt \in ProductTypes, a \in ProductTypes, b \in ProductTypes}

ExtendedModules ==
  {OneInstModule(Inst(op, rt, << a, b >>)) :
      op \in {"OpIAddCarry", "OpSMulExtended"},
      rt \in {Struct(U32, U32), Struct(I32, I32), Struct(U32, I32), Struct(V2U32, V2U32), F32},
      a \in {U32, I32, V2U32}, b \in {U32, I32}}

(* D = A * B + C with constant and specialization-constant sizes. *)
CoopMulAddModules ==
  {OneInstModule(Inst(op, d, << a, b, c >>)) :
      op \in {"OpCooperativeMatrixMulAddKHR", "OpCooperativeMatrixMulAddNV"},
      a \in {CoopMat("coopmatKHR", F16, 16, 8, "A"), CoopMat("coopmatKHR", F16, 16, SpecConst, "A"),
             CoopMat("coopmatNV", F16, 16, 8, "none")},
      b \in {CoopMat("coopmatKHR", F16, 8, 8, "B"), CoopMat("coopmatKHR", F16, 4, 8, "B"),
             CoopMat("coopmatNV", F16, 8, 8, "none")},
      c \in {CoopMat("coopmatKHR", F32, 16, 8, "Acc"), CoopMat("coopmatNV", F32, 16, 8, "none")},
      d \in {CoopMat("coopmatKHR", F32, 16, 8, "Acc"), CoopMat("coopmatKHR", F32, 8, 8, "Acc"),
             CoopMat("coopmatNV", F32, 16, 8, "none")}}

(* OpCooperativeMatrixReduceNV: accumulators of 8, 4, 9 and a            *)
(* specialization-constant size, every Reduce mask of up to three bits,   *)
(* and CombineFuncs of the right and wrong signatures.                    *)
Acc(c, rows, cols) == CoopMat("coopmatKHR", c, rows, cols, "Acc")
ReduceModules ==
  {OneInstModule([Inst("OpCooperativeMatrixReduceNV", r, << mt >>)
                    EXCEPT !.mask = mask, !.combine = cf]) :
      r \in {Acc(F32, 4, 4), Acc(F32, 8, 4), Acc(F32, 4, 8), Acc(F16, 4, 4),
             Acc(F32, SpecConst, 4), CoopMat("coopmatKHR", F32, 4, 4, "A")},
      mt \in {Acc(F32, 8, 8), Acc(F32, 9, 8), [Acc(F32, 8, 8) EXCEPT !.scope = 5],
              CoopMat("coopmatKHR", F32, 8, 8, "B")},
      mask \in 0..7,
      cf \in {[fn |-> TRUE, sig |-> << F32, F32, F32 >>], [fn |-> TRUE, sig |-> << F32, F32 >>],
             [fn |-> TRUE, sig |-> << F16, F32, F32 >>], [fn |-> FALSE, sig |-> << >>]}}

(* Component-wise arithmetic on cooperative vectors of 2, 4 and a       *)
(* specialization-constant number of components.                        *)
CoopVecTypes == {CoopVec(F32, 4), CoopVec(F16, 4), CoopVec(I32, 4), CoopVec(F32, 2),
                 CoopVec(F32, SpecConst)}
CoopVecModules ==
  {OneInstModule(Inst(op, rt, << a, b >>)) :
      op \in {"OpFAdd", "OpIAdd"}, rt \in CoopVecTypes, a \in CoopVecTypes, b \in CoopVecTypes}

(* OpFAdd and OpFSub on KHR cooperative matrices of F32 and F16, 8 x 8 *)
(* and 8 x 4, as the Result Type and both operands.                      *)
CoopMatArithTypes == {CoopMat("coopmatKHR", c, 8, n, "Acc") : c \in {F32, F16}, n \in {4, 8}}
CoopMatArithModules ==
  {OneInstModule(Inst(op, rt, << a, b >>)) :
      op \in {"OpFAdd", "OpFSub"}, rt \in CoopMatArithTypes,
      a \in CoopMatArithTypes, b \in CoopMatArithTypes}
CoopArithModules == CoopVecModules \cup CoopMatArithModules

(* A derivative in the helper function "f", reached from one or both of  *)
(* two entry points.                                                       *)
EPModels == {{"Fragment"}, {"Vertex"}, {"GLCompute"}, {"MeshEXT"}, {"TaskEXT", "Fragment"}}
DerivativeModules ==
  {[insts |-> << [Inst("OpDPdx", rt, << p >>) EXCEPT !.fn = "f"] >>, caps |-> {},
    entryPoints |-> << EntryPoint("main1", m1, d1, {}), EntryPoint("main2", m2, {}, {}) >>,
    reach |-> [g \in {"f", "main1", "main2"} |-> IF g = "f" THEN r ELSE {g}]] :
      rt \in {F32, V2F32, F16}, p \in {F32, V2F32},
      m1 \in EPModels, m2 \in EPModels,
      d1 \in {{}, {"DerivativeGroupQuadsKHR"}}, r \in {{"main1"}, {"main1", "main2"}}}

(* OpEmitMeshTasksEXT and OpSetMeshOutputsEXT in one entry point. *)
MeshInstructionModules ==
  {[OneInstModule([Inst("OpEmitMeshTasksEXT", NoType, << x, y, z >>) EXCEPT !.payload = pl])
      EXCEPT !.entryPoints = << EntryPoint("main", m, {}, {}) >>] :
      x \in {U32, I32}, y \in {U32, U16}, z \in {U32, I32},
      pl \in {"none", "task", "notVariable", "otherStorage"},
      m \in {{"TaskEXT"}, {"MeshEXT"}, {"Vertex"}}}
  \cup
  {[OneInstModule(Inst("OpSetMeshOutputsEXT", NoType, << x, y >>))
      EXCEPT !.entryPoints = << EntryPoint("main", m, {}, {}) >>] :
      x \in {U32, I32}, y \in {U32, U16}, m \in {{"TaskEXT"}, {"MeshEXT"}, {"Vertex"}}}

(* A PerPrimitiveEXT variable (id 7) and the interfaces listing it. *)
InterfaceOf(fn, models, listed) ==
  EntryPoint(fn, models, {}, IF listed THEN {7} ELSE {})
VariableModules ==
  {[insts |-> << [Inst("OpVariable", NoType, << >>) EXCEPT !.id = 7, !.storage = sc,
                  !.perPrimitive = pp] >>,
    caps |-> cp, entryPoints |-> eps, reach |-> [g \in {"main", "main2"} |-> {g}]] :
      sc \in {"Input", "Output", "Private"}, pp \in BOOLEAN,
      cp \in {{}, {"MeshShadingEXT"}},
      eps \in {<< InterfaceOf("main", a, la) >> : a \in {{"MeshEXT"}, {"Fragment"}}, la \in BOOLEAN}
              \cup {<< InterfaceOf("main", a, la), InterfaceOf("main2", b, lb) >> :
                      a \in {{"MeshEXT"}, {"Fragment"}}, b \in {{"MeshEXT"}, {"Fragment"}},
                      la \in BOOLEAN, lb \in BOOLEAN}}

(* Two instructions in one helper reached by a TaskEXT or MeshEXT entry  *)
(* point: the limitations of both accumulate on the same function.       *)
MixedModules ==
  {[insts |-> << [Inst("OpDPdy", F32, << F32 >>) EXCEPT !.fn = "f"],
                 [Inst("OpEmitMeshTasksEXT", NoType, << U32, U32, U32 >>) EXCEPT !.fn = "f"] >>,
    caps |-> {}, entryPoints |-> << EntryPoint("main", m, d, {}) >>,
    reach |-> [g \in {"f", "main"} |-> {"main"}]] :
      m \in {{"TaskEXT"}, {"MeshEXT"}}, d \in {{}, {"DerivativeGroupLinearKHR"}}}

MCModules ==
  ElementwiseModules \cup ProductModules \cup ExtendedModules \cup CoopMulAddModules
  \cup ReduceModules
  \cup DerivativeModules \cup MeshInstructionModules \cup VariableModules \cup MixedModules

-----------------------------------------------------------------------------
(* The reducer's modules: function 40 with blocks 1, 2, 3 and function 41 *)
(* with blocks 4, 5.  Block b holds a value instruction 10+b and its      *)
(* terminator 20+b; block 1 may hold the selection merge 31, naming block *)
(* 3 as its merge block.  50 is a global variable in the interface of the *)
(* first entry point, whose name's first word is 50 or 99; the second    *)
(* entry point, for function 41, has an empty interface.  Terminators    *)
(* branch forward or return; value instructions use nothing, the global, *)
(* another block's value, or (block 5) a value of the other function.    *)
MCRFunctions == << 40, 41 >>
MCRTargets == {0, 40, 41}
RShape(t1, t2, t3, t4, v1, v2, v3, v5, merges, name) ==
  [blocks  |-> (40 :> << 1, 2, 3 >>) @@ (41 :> << 4, 5 >>),
   insts   |-> [b \in 1..5 |-> << 10 + b, 20 + b >>],
   uses    |-> (11 :> v1) @@ (12 :> v2) @@ (13 :> v3) @@ (14 :> {}) @@ (15 :> v5)
               @@ (21 :> t1) @@ (22 :> t2) @@ (23 :> t3) @@ (24 :> t4) @@ (25 :> {})
               @@ (31 :> {3}) @@ (50 :> {}),
   merges  |-> merges,
   globals |-> {50},
   entries |-> << << 0, 40, name, 50 >>, << 4, 41, 98 >> >>]
MCRShapes ==
  { RShape(t1, t2, t3, t4, v1, v2, v3, v5, merges, name) :
      t1 \in {{}, {2}, {3}, {2, 3}}, t2 \in {{}, {3}}, t3 \in {{}, {2}},
      t4 \in {{}, {5}}, v1 \in {{}, {50}}, v2 \in {{}, {50}, {13}},
      v3 \in {{}, {12}}, v5 \in {{}, {11}},
      merges \in {[b \in {} |-> 31], (1 :> 31)}, name \in {50, 99} }

EmptyModule ==
  [insts |-> << >>, caps |-> {}, entryPoints |-> << >>, reach |-> [f \in {} |-> {}]]
ValidatedEmpty ==
  /\ mod = EmptyModule /\ pc = 1 /\ diags = {} /\ limits = {} /\ pending = {}
ReducerIdle == RStart(RShape({}, {}, {}, {}, {}, {}, {}, {}, [b \in {} |-> 31], 99))

ValidateOrReduceInit ==
  \/ VInit /\ ReducerIdle
  \/ ValidatedEmpty /\ RInit
(* VNext's two disjuncts, each with the reducer left alone. *)
ValidatorAloneNext ==
  \/ ValidateInstruction /\ UNCHANGED redVars
  \/ \E f \in UNION {Functions(m) : m \in Modules} : CheckLimitations(f) /\ UNCHANGED redVars
(* The validator alone, over Modules, with the reducer idle. *)
ValidatorAlone ==
  VInit /\ ReducerIdle /\ [][ValidatorAloneNext]_<<vars, redVars>>
ValidateOrReduceNext ==
  \/ ValidatorAloneNext
  \/ mod = EmptyModule /\ RNext /\ UNCHANGED vars
ValidateOrReduce ==
  ValidateOrReduceInit /\ [][ValidateOrReduceNext]_<<vars, redVars>>
=============================================================================
