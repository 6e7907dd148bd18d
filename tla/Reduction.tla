----------------------------- MODULE Reduction -----------------------------
(***************************************************************************)
(* The reducer's opportunities in this tree, over one module: the block   *)
(* finder RemoveBlockReductionOpportunityFinder, the application of the   *)
(* blocks it returns, RemoveInstructionReductionOpportunity::Apply (which *)
(* also edits OpEntryPoint interfaces) and                                *)
(* RemoveSelectionReductionOpportunity::Apply.                            *)
(*                                                                         *)
(* The IR (functions, blocks, the def-use manager, KillInst) is not in    *)
(* this repository; it follows the specification.  Ids are integers.  A  *)
(* block is its label id and the sequence of its instructions; an        *)
(* instruction's operands are the set of ids it uses; an OpEntryPoint is *)
(* its sequence of in-operand words: execution model, function id, the   *)
(* first word of its name, then the interface ids.                       *)
(***************************************************************************)
EXTENDS Integers, Sequences, SequencesExt, FiniteSets

CONSTANTS
  RFunctions, \* the module's function ids, in module order
  RShapes,    \* initial modules: [blocks, insts, uses, merges, globals, entries]
  RTargets    \* target_function arguments: 0 (every function) or a function id

VARIABLES
  rblocks,   \* function id -> its block labels, in order
  rinsts,    \* block label -> its instructions, in order
  ruses,     \* instruction id -> the ids it uses
  rmerges,   \* the live merge instructions (OpSelectionMerge), block -> id
  rglobals,  \* the live module-level instructions (OpVariable)
  rentries,  \* the OpEntryPoint in-operands
  ropps,     \* the block opportunities of the last GetAvailableOpportunities
  rapplied,  \* the indices of ropps already applied
  rshape     \* the module as it was before the reducer ran

redVars == <<rblocks, rinsts, ruses, rmerges, rglobals, rentries, ropps, rapplied, rshape>>

-----------------------------------------------------------------------------
(* The IR, as the specification describes it. *)

LiveBlocks == UNION { Range(rblocks[f]) : f \in Range(RFunctions) }
LiveInsts ==
  UNION { Range(rinsts[b]) : b \in LiveBlocks }
  \cup { rmerges[b] : b \in { c \in DOMAIN rmerges : c \in LiveBlocks } }
  \cup rglobals
(* The ids an OpEntryPoint uses: its function and its interface. *)
EntryUses(e) == { e[2] } \cup { e[k] : k \in 4..Len(e) }
(* The users of id in the def-use manager: live instructions that have   *)
(* it as an operand, and entry points (entry point k is -k) that use it. *)
Users(id) ==
  { x \in LiveInsts : id \in ruses[x] }
  \cup { -k : k \in { k \in 1..Len(rentries) : id \in EntryUses(rentries[k]) } }
NumUsers(id) == Cardinality(Users(id))
(* GetTargetFunctions: every function, or the one with id target. *)
GetTargetFunctions(target) ==
  SelectSeq(RFunctions, LAMBDA f : target = 0 \/ f = target)

-----------------------------------------------------------------------------
(* RemoveBlockReductionOpportunityFinder *)

(* Every user of every instruction of block b is an instruction of b. *)
BlockInstructionsHaveNoOutsideReferences(b) ==
  \A x \in Range(rinsts[b]) : Users(x) \subseteq Range(rinsts[b])

(* IsBlockValidOpportunity without the check that keeps the first block. *)
IsBlockValidOpportunityAnyBlock(f, i) ==
  /\ NumUsers(rblocks[f][i]) = 0
  /\ BlockInstructionsHaveNoOutsideReferences(rblocks[f][i])

(* IsBlockValidOpportunity for the block at index i of function f. *)
IsBlockValidOpportunity(f, i) ==
  /\ i # 1
  /\ NumUsers(rblocks[f][i]) = 0
  /\ BlockInstructionsHaveNoOutsideReferences(rblocks[f][i])

(* GetAvailableOpportunities: every valid block of every target function, *)
(* in function and block order, as <<function, block>> pairs.             *)
GetAvailableOpportunities(target) ==
  LET fs == GetTargetFunctions(target)
      valid(f) == SelectSeq([i \in 1..Len(rblocks[f]) |-> i],
                            LAMBDA i : IsBlockValidOpportunity(f, i))
      opps(f) == [k \in 1..Len(valid(f)) |-> << f, rblocks[f][valid(f)[k]] >>]
  IN  FlattenSeq([n \in 1..Len(fs) |-> opps(fs[n])])

-----------------------------------------------------------------------------
(* RemoveInstructionReductionOpportunity *)

kNumEntryPointInOperandsBeforeInterfaceIds == 3

(* The in-operand test with the interface taken to start at the name. *)
KeepOperandFromName(e, k, id) == k <= 2 \/ e[k] # id

(* Apply without the interface edit: every in-operand survives. *)
KeepOperandAlways(e, k, id) == TRUE

(* In-operand k (1-based) of entry point e survives the removal of id. *)
KeepOperand(e, k, id) ==
  k <= kNumEntryPointInOperandsBeforeInterfaceIds \/ e[k] # id

(* Apply: drop id from every entry point's interface, then KillInst.  The *)
(* finder that creates these opportunities is not in this repository; the *)
(* opportunity is taken for a module-level instruction whose only users   *)
(* are entry-point interfaces, the case in which Apply edits them.        *)
RemoveInstruction ==
  \E id \in rglobals :
    /\ \A u \in Users(id) : u < 0
    /\ rentries' = [n \in 1..Len(rentries) |->
                      LET e == rentries[n]
                      IN  [k \in 1..Len(SelectSeq([j \in 1..Len(e) |-> j],
                                                 LAMBDA j : KeepOperand(e, j, id)))
                           |-> e[SelectSeq([j \in 1..Len(e) |-> j],
                                           LAMBDA j : KeepOperand(e, j, id))[k]]]]
    /\ rglobals' = rglobals \ {id}
    /\ UNCHANGED <<rblocks, rinsts, ruses, rmerges, ropps, rapplied, rshape>>

(* RemoveSelectionReductionOpportunity::Apply: KillInst of the header     *)
(* block's merge instruction.                                             *)
RemoveSelection ==
  \E b \in DOMAIN rmerges :
    /\ b \in LiveBlocks
    /\ rmerges' = [c \in DOMAIN rmerges \ {b} |-> rmerges[c]]
    /\ UNCHANGED <<rblocks, rinsts, ruses, rglobals, rentries, ropps, rapplied, rshape>>

-----------------------------------------------------------------------------
(* The reducer's use of the block finder. *)

(* The reducer has not run yet on module s. *)
RStart(s) ==
  /\ rblocks = s.blocks /\ rinsts = s.insts /\ ruses = s.uses
  /\ rmerges = s.merges /\ rglobals = s.globals /\ rentries = s.entries
  /\ ropps = << >> /\ rapplied = {} /\ rshape = s

RInit == \E s \in RShapes : RStart(s)

(* A new search that keeps the old list's applied indices. *)
FindBlocksKeepsApplied ==
  \E t \in RTargets :
    /\ ropps' = GetAvailableOpportunities(t)
    /\ UNCHANGED <<rblocks, rinsts, ruses, rmerges, rglobals, rentries, rapplied, rshape>>

(* GetAvailableOpportunities for a target; the new list replaces the old. *)
FindBlocks ==
  \E t \in RTargets :
    /\ ropps' = GetAvailableOpportunities(t)
    /\ rapplied' = {}
    /\ UNCHANGED <<rblocks, rinsts, ruses, rmerges, rglobals, rentries, rshape>>

(* RemoveBlockReductionOpportunity: PreconditionHolds is true; Apply      *)
(* erases the block from its function and kills its instructions.  Each   *)
(* opportunity of the list is applied at most once, in any order.         *)
ApplyRemoveBlock ==
  \E k \in (1..Len(ropps)) \ rapplied :
    LET f == ropps[k][1]
        b == ropps[k][2]
    IN  /\ rblocks' = [rblocks EXCEPT ![f] = SelectSeq(@, LAMBDA c : c # b)]
        /\ rapplied' = rapplied \cup {k}
        /\ UNCHANGED <<rinsts, ruses, rmerges, rglobals, rentries, ropps, rshape>>

RNext == FindBlocks \/ ApplyRemoveBlock \/ RemoveInstruction \/ RemoveSelection

RSpec == RInit /\ [][RNext]_redVars

-----------------------------------------------------------------------------
(* Properties *)

RTypeOK ==
  /\ rapplied \subseteq 1..Len(ropps)
  /\ rglobals \subseteq rshape.globals
  /\ \A f \in Range(RFunctions) : Range(rblocks[f]) \subseteq Range(rshape.blocks[f])

Defined == LiveBlocks \cup LiveInsts \cup Range(RFunctions)

(* Whatever the reducer applies, every id that a live instruction or an  *)
(* entry point uses is still defined: the finder's checks (no users of    *)
(* the label, no users of its instructions outside the block) and the     *)
(* entry-point edit of RemoveInstruction keep the module free of dangling *)
(* ids, across any number of searches and removals.                       *)
ModuleStaysClosed ==
  /\ \A x \in LiveInsts : ruses[x] \subseteq Defined
  /\ \A n \in 1..Len(rentries) : EntryUses(rentries[n]) \subseteq Defined

(* Spec 4.6's block-removal precondition: not the function's first block, *)
(* never referenced, and no instruction of it used outside it.            *)
RemovableBlock(f, b) ==
  /\ b \in Range(rblocks[f]) /\ b # rblocks[f][1]
  /\ Users(b) = {}
  /\ \A x \in Range(rinsts[b]) : \A u \in Users(x) : u \in Range(rinsts[b])

(* The opportunities of one call are independently applicable: whatever *)
(* of the list, of instruction removals and of selection removals is      *)
(* applied first, every opportunity not yet applied is still one the      *)
(* finder would return, so PreconditionHolds may answer true.  This also *)
(* needs the first-block check: once a function's first block is removed, *)
(* the next block becomes the first one.                                  *)
OpportunitiesStayValid ==
  \A k \in (1..Len(ropps)) \ rapplied : RemovableBlock(ropps[k][1], ropps[k][2])

(* Removing instructions never changes an entry point's execution model, *)
(* function or name, even when the name's first word equals the removed   *)
(* id, and its interface is the original one less the removed globals,   *)
(* in the original order.                                                 *)
EntryPointsKeepHeader ==
  \A n \in 1..Len(rentries) :
    LET e0 == rshape.entries[n]
    IN  /\ Len(rentries[n]) >= 3
        /\ SubSeq(rentries[n], 1, 3) = SubSeq(e0, 1, 3)
        /\ SubSeq(rentries[n], 4, Len(rentries[n]))
             = SelectSeq(SubSeq(e0, 4, Len(e0)), LAMBDA id : id \in rglobals)
=============================================================================
