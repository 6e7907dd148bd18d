---------------------------- MODULE MCPassEngine ----------------------------
(***************************************************************************)
(* Two pass objects on one context: a generic pass that preserves the     *)
(* def-use and instruction-to-block analyses, and an EmptyPass.  The     *)
(* feature manager is MCFeatureManager's.                                 *)
(***************************************************************************)
EXTENDS PassEngine, MCFeatureManager, TLC

CONSTANTS P1, P2, DefUse, InstrToBlock, TypeMgr

MCPasses == {P1, P2}
MCPassKind == (P1 :> "generic") @@ (P2 :> "empty")
MCPreserved == (P1 :> {DefUse, InstrToBlock}) @@ (P2 :> {})
MCAnalyses == {DefUse, InstrToBlock, TypeMgr}
MCTypeAnalyses == {TypeMgr}

F32 == [op |-> "float", w |-> 32]
F16 == [op |-> "float", w |-> 16]
I32 == [op |-> "int", w |-> 32]
V2F16 == [op |-> "vector", elem |-> F16]
M2F16 == [op |-> "matrix", elem |-> V2F16]
ArrF32 == [op |-> "array", elem |-> F32, len |-> 2]
ArrF16 == [op |-> "array", elem |-> F16, len |-> 2]
ArrArrF32 == [op |-> "array", elem |-> ArrF32, len |-> 2]
ArrArrF16 == [op |-> "array", elem |-> ArrF16, len |-> 2]
StructA == [op |-> "struct", members |-> <<F32, ArrF32>>]
StructB == [op |-> "struct", members |-> <<F32, ArrF16>>]
StructC == [op |-> "struct", members |-> <<F32, ArrArrF32>>]
StructD == [op |-> "struct", members |-> <<F32, ArrArrF16>>]

MCTypes == {F32, F16, I32, M2F16, ArrF32, ArrF16, ArrArrF16, StructA, StructB,
            StructD}
=============================================================================
