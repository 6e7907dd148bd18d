# TLA+ models of ShaderCompiler's SPIR-V tools

This directory holds TLA+ models of the code under
`src/ShaderCompiler/src/spirv-tools`. That code is a trimmed copy of
SPIRV-Tools. It includes the numeric float proxy, the pass engine, the
feature manager, parts of the validator, the target-environment tables and
two reduction finders. Each model is written from the C++ source. It is
checked with TLC against a type invariant, safety properties, round-trip and
reference properties, and, for the pass engine, a refinement of an abstract
pass contract.

Everything in this code runs on one thread, to completion: no part has a
scheduler, a callback queue or persistent state, so there is no crash,
message loss or timeout to model. The hard cases are numeric edges (carries,
denormals, thresholds, integer casts, NaN payloads), the order of operations
on shared sets (capabilities added and removed by different passes, a pass
object run twice, analyses invalidated after a failure) and the two phases of
the validator (limitations registered while instructions are visited and
evaluated once all entry points are known).

## The system

| Part | Source | State | Operations | Interacts with |
|------|--------|-------|------------|----------------|
| Float formats and conversion | `util/hex_float.h` | The bits of one value (`value_`) | `castTo`, `setFromSignUnbiasedExponentAndNormalizedSignificand`, `getRoundedNormalizedSignificand`, `incrementSignificand` | Parsing and printing of literals |
| Float literal parsing | `util/hex_float.h` 955-1440 | The stream state (fail bit) and the parsed value | `ParseNormalFloat` (generic, Float16, E4M3, E5M2), hex `operator>>` | Uses `castTo` to narrow a parsed `float` |
| Float printing | `util/hex_float.h` 861-949, 1447-1483; `parsed_operand.cpp` | None (pure output) | `operator<<`, `EmitNumericLiteral` | Uses `castTo` to widen half and FP8 values |
| Feature manager | `opt/feature_manager.cpp` | The extension set, the capability set and three import ids | `AddExtension`, `RemoveExtension`, `AddCapability` (recursive over implied capabilities), `RemoveCapability`, `Analyze` | Queried by passes; `Pass::GetNullId` adds Float16 |
| Pass engine | `opt/pass.cpp`, `opt/empty_pass.h` | `already_run_`, `context_`, the context's valid analyses | `Pass::Run`, `Process`, `GenerateCopy`, `GetNullId` | Invalidates the IRContext's analyses |
| Assembly grammar | `assembly_grammar.cpp` | None (table lookups) | mask-operand parsing, `filterCapsAgainstTargetEnv`, spec-constant opcode lookup | Used by the assembler |
| Target environments | `spirv_target_env.cpp` | None (tables) | `spvParseTargetEnv` (first prefix match), `spvReadEnvironmentFromText`, `spvParseVulkanEnv`, version tables | Used by the tools' command lines |
| Validator rules | `val/validate_derivatives.cpp`, `val/validate_mesh_shading.cpp`, `val/validate_arithmetics.cpp` | Deferred execution-model limitations per function | One check per opcode family; limitations registered now, evaluated per entry point later | `ValidationState_t` (not in this repository) |
| Reduction | `reduce/remove_block_reduction_opportunity_finder.cpp`, `reduce/remove_*_reduction_opportunity.cpp` | The module's blocks and their users | Find the removable blocks, then apply the opportunities one at a time | Opportunities found together, applied in sequence |
| Fuzzer pass | `fuzz/fuzzer_pass_toggle_access_chain_instruction.cpp` | None beyond the module | Toggle access chains at random | Transformation classes (not in this repository) |
| Command line | `src/Sandbox/src/main.cpp` | None | Compile HLSL through shaderc | External library |

Hard behaviours in this code are numeric edges and orderings. In the float
conversions these are carries, denormals, overflow thresholds, integer casts
and NaN payloads. Elsewhere they are the order in which capabilities are
added and removed, a pass run twice, limitations evaluated against entry
points in some order, and prefix order in the target-environment table.

## Modules

- `HexFloat.tla` holds pure operators, one per member of `HexFloat<T>` used
  by `castTo`. A value is the record `[neg, e, f]`, holding the sign, the
  biased exponent bits and the fraction bits. A float32 bit pattern does not
  fit TLC's 32-bit integers, so the fields are kept apart.
  - `Wrap` models the C++ `static_cast` to `int8_t`/`int16_t`.
  - `ShiftedNaNSignificand` models `negatable_left_shift` on the *source*
    `uint_type`, which truncates when widening.
  - The model follows a release build: the `assert` in
    `setFromSignUnbiasedExponentAndNormalizedSignificand` is not evaluated.
  - The module also defines the fault operators (`IsInfAtBias`,
    `NaNResultKeepsZero`, ...). These are plausible bugs, used to show that
    each property can detect a fault in the code it covers.
- `FloatRef.tla` is a reference definition of rounding. It works from the
  values the encodings denote: `M * 2^X`, compared without computing powers of
  two, with the rounded result found by binary search over the destination's
  encodings. It follows the contract in `castTo`'s comment: round in the
  given direction, saturate to infinity (or `max()`) at or above
  `2^(maxExp+1)`, and underflow to zero or the smallest denormal.
- `HexFloatCast.tla` is the state machine. `x` and `dir` are chosen in
  `Init`. `Cast` sets `y = castTo(Src, Dst, x, dir)` and `CastBack` sets
  `z = castTo(Dst, Src, y, dir)`. The run stops there, so these cfgs say
  `CHECK_DEADLOCK FALSE`.
- `MCHexFloatCast.tla` defines the input sets. Exponents are sampled at every
  boundary of the destination: zero, denormal start, normal start, largest
  exponent, overflow, infinity and NaN. Fractions are sampled so that the kept
  bits are 0, 1, mid or all ones (the carry case). The guard bit and a sticky
  bit take both values, so every case of round-to-nearest-even is reached.
  8-bit and half formats are enumerated completely where they are the source.

- `FloatParse.tla` models `RejectParseDueToLeadingSign` and the
  `ParseNormalFloat` specialisations for Float16, E4M3 and E5M2. The text is
  abstracted to what `is >> float` makes of it: a float32 value, an
  out-of-range literal (fail bit and +/-FLT_MAX) or no number (fail bit, 0),
  and whether a sign follows. The narrowing is the `castTo` of `HexFloat.tla`.
  `MCFloatParse.tla` picks float32 values at each boundary of each target.
- `AssemblyGrammar.tla` models `spvTextParseMaskOperand`, the mask parser
  behind `AssemblyGrammar::parseMaskOperand`. A text is a sequence of
  tokens: `Sep` for `|`, or a word. `MaskStart` is the null and empty
  checks. `MaskWord` is one iteration of the do-while loop: `std::find` is
  `FindSep`, and `LookupOperand` looks the word up in the table
  `MaskOperands`. The reference, `WordsOf`, splits the text at every
  separator independently of the loop.
- `HexFloatRead.tla` models `operator>>(std::istream&, HexFloat&)` for the
  Float16, E5M2 and E4M3 HexFloats. The stream is a sequence of
  one-character strings; `Char` is `peek()`, `Advance` is `get()`.
  `HexStart` is the white-space skip, the `-`, the `0x` test with its
  `unget` and hand-off to `ParseNormalFloat` (phase `normal`), and the
  leading-zero strip. `HexIntChar` and `HexFracChar` are one iteration of
  the loops left and right of the `.`: a digit goes through
  `get_nibble_from_character` and its four bits through `IntNibble` or
  `FracNibble`, with `set_nth_most_significant_bit` and the saturating
  counters. `HexExpSign`, `HexExpDigit` and `HexExpEnd` are the exponent
  loop; `HexExpEnd` also does everything after it: `CombineExponent`, the
  encoding (`HexEncode`) and its denormal loop (`Denormalize`, recursive).
  The reference reads the text independently: `RefWellFormed` is the
  grammar, `RefN` and `RefS` give the value as N * 2^S, and `RefValue`
  truncates it with the NaN and infinity encodings the comment above
  `operator>>` documents.
- `NumericLiteral.tla` is `EmitNumericLiteral` (`parsed_operand.cpp`) with
  the `operator<<` of `HexFloat` and `FloatProxy` that it calls. The state
  is the operand (`eop`) and what was written to `*out` (`eout`). `Emit` is
  one call. The early returns give `Nothing`. The integer cases write the
  decimal digits of the word, or of the two words in the stored low-first
  order, with the `int32_t`/`int64_t` casts as a two's-complement sign.
  Words are kept as 16-bit limbs (`DivMod10`, `LimbsDecimal`, `NegateLimbs`).
  `HexFloatOut` follows the printer: the exponent unbiased, a denormal
  normalised (`NormalizeDenorm`), the trailing zero nibbles trimmed, and the
  fraction written with `setw`/`setfill`. `FloatProxyOut` prints Float16 and
  the 8-bit formats as hex floats. A float32 prints as a hex float unless it
  is zero or normal, and then `eout` records only that decimal was written.
- `TargetEnv.tla` is `spirv_target_env.cpp`. The seven per-environment
  switches are operators: the description, `spvVersionForTargetEnv`, the
  Vulkan/OpenCL/OpenGL tests, `spvIsValidEnv` and `spvLogStringForEnv`.
  `spvTargetEnvNameMap`, `ordered_universal_envs` and `ordered_vulkan_envs`
  are sequences in table order. Each of the four calls is an action:
  - `ParseTargetEnv`: the first key that is a `strncmp` prefix of the name;
  - `ParseVulkanEnv`: the first triple that covers both versions;
  - `TargetEnvList`: a fold over the name table that keeps each line's
    length and names;
  - `spvReadEnvironmentFromText`: one action per branch of its loop body
    (`HeaderBlank`, `HeaderOther`, `HeaderTooShort`, `HeaderVersion`,
    `HeaderSkipLine`, `HeaderEnd`), with `ti` as the loop index `i`.

  The model is of a release build: the `assert(false)` cases fall through
  to the default return. `HeaderEnvOf` is the reference for the scan. It
  reads the header rule line by line, as spec section 6 states it.
- `MCOperandParse.tla` composes the four text readers (`FloatParse`,
  `HexFloatRead`, `AssemblyGrammar` and `TargetEnv`) and the literal
  printer `NumericLiteral`. A behaviour runs one of them, and the others
  stay idle. In the printer's mode, `ReadBack` hands the hex-float text
  that `EmitNumericLiteral` wrote to the hex-float reader, in the format
  the operand names. This is the disassemble-then-assemble round trip. The mask table is FunctionControl's. The texts are
  every sequence of up to four tokens, and *pValue starts at a value no mask
  gives.
- `FeatureManager.tla` has the state of `FeatureManager`: the capability
  and extension sets and the import ids, with `Init` as `Analyze` and one
  action per public mutator. `AddCapabilityTo` is the recursive
  `AddCapability`, a `RECURSIVE` operator folding over the grammar's implied
  capabilities (the constant `Implies`). `AnalyzeModule` is a fresh
  manager analysing given declarations, and `FeatureManagerEquals` is
  `operator==`. `MCFeatureManager.tla` uses the
  chain Geometry -> Shader -> Matrix and a Float16 capability.
- `PassEngine.tla` extends `FeatureManager` with `Pass::Run` split at
  `Process()`: `RunStart` binds the context, the pass body's steps follow
  (change the module, build an analysis, `GetNullId`, `GenerateCopy`, add or
  remove a capability or extension), and `RunEnd` unbinds the context and
  invalidates what the pass does not preserve after `SuccessWithChange`.
  `RunAlreadyRun` is a second `Run` of the same object. `GenerateCopy` is a
  recursive operator over type shapes. The IRContext's bookkeeping is not in
  this repository and follows the specification: `valid` is
  `valid_analyses_` and `stale` the analyses that no longer match the
  module. `declared` holds the module's OpCapability and OpExtension
  operands. As `IRContext::AddCapability` does, a capability is declared
  only when the manager does not have it yet (`DeclareCapability`).
  `PassContract.tla` is the abstract contract (NotRun, Running, Ran;
  a rerun returns Failure), and `PassRunsOnce` checks the engine against it
  through `INSTANCE PassContract WITH passState <- ..., returned <- result`.
- `ValidateArithmetics.tla` is `ArithmeticsPass` as pure operators, one per
  opcode family, each returning `Ok` or the operand index the diagnostic
  cites. Types are records (scalar, vector, matrix, struct, cooperative
  matrix and vector). `ValidationState_t`'s type queries are not in this
  repository; they are defined by what they answer for these records.
  A size given by a specialization constant is `SpecConst`.
- `Validator.tla` holds `DerivativesPass`, `MeshShadingPass` with
  `IsInterfaceVariable`, and the two-phase driver: `ValidateInstruction`
  visits instruction `pc`, records every immediate rule's diagnostic and
  attaches the registered limitations to the function; `CheckLimitations(f)`
  then evaluates `f`'s limitations against every entry point that reaches
  `f`. The driver is not in this repository and follows the specification:
  diagnostics accumulate and no rule stops the others. `MCValidator.tla`
  builds the modules: one arithmetic instruction over small type sets; a
  derivative in a helper called by one or two entry points of several models
  and modes; the mesh instructions; PerPrimitiveEXT variables under one or
  two entry points; and a helper holding a derivative and an
  `OpEmitMeshTasksEXT`. `IsInterfaceVariable` holds when every entry point
  has the model and some entry point lists the id. The `break` in the
  code leaves only the interface loop, so the order of the entry points
  does not matter.
- `Reduction.tla` is the reducer's use of one module. It covers three pieces
  of code:
  - `RemoveBlockReductionOpportunityFinder`: `GetAvailableOpportunities`,
    `IsBlockValidOpportunity` and `BlockInstructionsHaveNoOutsideReferences`.
  - `RemoveInstructionReductionOpportunity::Apply`: drop the id from every
    entry point's interface (in-operands from index 3), then `KillInst`.
  - `RemoveSelectionReductionOpportunity::Apply`: kill the header's merge.

  The state is each function's block list, each block's instructions, the
  ids every instruction uses, the live merges and globals, and the entry
  points' in-operands. `FindBlocks` replaces the opportunity list, and
  `ApplyRemoveBlock` applies any unapplied entry of it. The IR and the
  def-use manager are not in this repository and follow spec 4.6. The
  users of an id are the live instructions that use it and the entry
  points that name it. `MCValidator.tla` composes the reducer with the
  validator. Its specification `ValidateOrReduce` either validates the
  validator's modules with the reducer idle, or reduces one of 3072 small
  modules with the validator idle on an empty module. `ValidatorAlone` is
  the validator alone; the violation runs use it.

Each module also defines fault operators (for example
`AddCapabilityNoRecursion`, `RunStartKeepsFlag`,
`MeshShadingPassLateRegistration`). Each is a plausible bug in the code a
property covers. Substituting it must make that property fail, which shows
the property can detect a fault in that code.

## Runs

| Run | Expect | What it shows |
|-----|--------|---------------|
| `cast` | pass | `castTo` from float32 to float16 and E5M2, and from float16 and E5M2 to wider formats, keeps NaNs NaN. It rounds toward zero exactly as the reference, overflow and underflow included. A result in the destination's denormal range is either the correct rounding or the truncation, and it is lifted to the smallest denormal only when the direction rounds away from zero (`DenormBounded`). Widening then narrowing back returns the original bits. |
| `cast_carry` | violation | A significand that rounds up to the next power of two loses the carry, so `castTo` returns half the correct value. |
| `cast_denormal_exponent` | violation | A float32 denormal narrowed to an 8-bit format wraps its exponent in `int8_t`. It becomes a large finite value instead of zero. |
| `cast_nan_payload` | violation | A float16 NaN widened to float32 and narrowed back changes its payload. |
| `parse` | pass | An overflowing decimal literal sets the fail bit for every 16- and 8-bit target. A rejected literal leaves +0 with the fail bit, also under `negate_value`. A mask operand parses exactly when it is names joined by single separators, and yields the or of their values. On every error *pValue is left alone, and the parse always returns (`MaskTerminates`, a liveness property). The hex-float `operator>>` reads a `[-]0x` text without the fail bit exactly when it is well formed, to the value truncated toward zero, and hands every other text to `ParseNormalFloat` at the number (`HexReadMatchesReference`). Target environments: a name resolves to the environment of its longest matching key, and an unmatched name fails with UNIVERSAL_1_0 (`ParseTargetEnvLongestMatch`). Every environment a call returns has a description, SPIR-V version, family and log string that agree, with the same version in the ordered arrays (`EnvTablesAgree`). The character scan finds `; Version: 1.X` exactly where a line-by-line reading of the leading comment block does (`ReadEnvironmentMatchesHeader`). `spvParseVulkanEnv` returns the least capable covering environment (`ParseVulkanEnvLeastCapable`). The `--help` list shows every name once, in order, and every line holding several names fits its budget (`TargetEnvListLayout`). `EmitNumericLiteral` writes each 1- or 2-word integer as a decimal that denotes its words, with a minus sign exactly when the operand is signed and its top bit is set (`IntegerLiteralReadsBack`). Every hex float it writes, including denormals, NaNs, infinities and -0, reads back through `operator>>` to the operand's bits (`LiteralRoundTrip`). |
| `parse_e5m2_sign` | violation | A negative out-of-range E5M2 literal becomes +2^-14, because `Float8_E5M2::lowest()` is `0x4`. |
| `parse_e4m3_range` | violation | In-range E4M3 literals from 256 to 447 are read as 448. |
| `pass` | pass | Two pass objects share one context and its feature manager: a generic pass and an `EmptyPass`. It checks five things. Each runs once and refines `PassContract`. Valid analyses match the module between passes, unless a pass failed after changing it. While no capability has been removed, the context's feature manager equals (`operator==`) a fresh `Analyze` of the module's declarations, including the Float16 that `GetNullId` requests (`ManagerMatchesModule`). Capability sets stay closed while nothing is removed. `GenerateCopy` fails exactly on shapes that cannot be converted. |
| `fm_closure` | violation | After `RemoveCapability(Matrix)`, `AddCapability(Geometry)` stops at the already present Shader and never re-adds Matrix. |
| `validate` | pass | About 10000 modules of one or two instructions. Accepted component-wise instructions on scalars and vectors have operands of the Result Type; accepted product and cooperative-matrix reduce instructions have operands of matching shape. The deferred derivative and mesh-instruction limitations report exactly the entry points that break them. For the reducer: every block opportunity of a search stays removable whatever is applied before it. No sequence of block, instruction and selection removals leaves a dangling id. Instruction removal keeps each entry point's model, function and name, and drops only the removed id from its interface. |
| `mesh_interface` | violation | A PerPrimitiveEXT Input variable in a MeshEXT interface is accepted when the module also has a Fragment entry point. |
| `arith_coopvec` | violation | `OpFAdd` and `OpIAdd` on cooperative vectors, and `OpFAdd` and `OpFSub` on KHR cooperative matrices, accept operands whose component type or width differs from the Result Type's. TLC finds it for a coopmat of F16 with an F32 operand. The cooperative-vector case fails the same way when it runs alone. |

Denormal results are not always correctly rounded.
`setFromSignUnbiasedExponentAndNormalizedSignificand` shifts the
already-rounded significand right a second time (hex_float.h:564-575), and
this drops the guard and sticky bits. For example, float32 0x33000001 cast
to float16 to-nearest gives 0 instead of the smallest denormal. The stricter
`RoundsInDenormalRange` of `HexFloatCast` states correct rounding and fails.
`DenormBounded` states what the code does guarantee, and the `cast` run
checks it. It leaves out inputs whose kept bits are all ones, because those
hit the lost carry that `cast_carry` shows.

The violation runs are findings; `PROJECT.json` records what each shows
against the source line. The `pass` and `fm_closure` runs check deadlock:
a pipeline can always run another pass or change a capability. The cast,
parse and validator runs model one computation that ends, so their cfgs say
`CHECK_DEADLOCK FALSE`.

## Bounds

- Floats: inputs sit at each boundary of the destination format. They cover
  every exponent class, fractions whose kept bits are 0, 1, mid or all ones,
  and both values of the guard and sticky bits. The 8-bit and half formats
  are enumerated completely where they are the source.
- Feature manager: three chained capabilities plus Float16 reach every
  depth of the recursion (0, 1 and 2 implied levels) and a removal in the
  middle of the chain.
- Pass engine: two pass objects are enough for a rerun, a second pass
  after a first that changed the module, and a failure after a change.
  There are three analyses: two preserved, one not. The ten types include
  nested arrays and structs, so `GenerateCopy` recurses twice.
- Validator: the type sets hold every scalar and vector kind, with widths
  16 and 32 and sizes 2 and 3. Matrices have 2 and 3 rows and columns, so
  every dimension comparison can fail alone. Derivative helpers are reached
  from one or two entry points. That covers a limitation that holds for one
  caller and fails for the other.

- Hex-float reader: about 12,000 texts per format. Mantissas are every
  string of up to three characters over 0, 1, 8, f and `.`, so one bit, the
  top bit and all four bits of a nibble occur on each side of the point, as
  do a doubled point and an empty mantissa. Exponents are 0, 1, 8, 9, 14,
  16, 17, 26 and 120, signed three ways. That reaches the E4M3 (bias 7) and
  E5M2/Float16 (bias 15) NaN and infinity edges, their denormals and their
  underflow to zero. Malformed exponents (`+-1`, `g`, none) and texts that
  are not hex floats complete the set. The int8 `exponent` counters cannot
  saturate within three digits (that needs over a hundred bits), so those
  failure branches are modelled but not reached.

- Target environments: every key of the name table, plus names that extend
  a key (`vulkan1.2spv1.5`, `vulkan1.1spv1.3`, `opencl2.2embeddedx`), names
  that match no key (`spv1.7`, `vulkan`, the empty string) and a null name.
  Every environment the name table holds is therefore returned at least
  once. Header texts are every sequence of up to three lines over ten
  lines:
  - version lines with minor 0, 3, 6 and 7, and one with minor 10;
  - an indented version line;
  - `; x`, a truncated `; Vers`, a lone `;`;
  - an empty line and a line of code.

  This puts a version line before, after and between comments, blanks and
  code, and puts a short comment at the end of the text, where the early
  return applies. Vulkan requests sit below, at and above every version of
  `ordered_vulkan_envs`, including requests no entry covers. The list
  layouts are (16, 80), (4, 40) and (0, 30). In each, the first line's
  budget differs from the later lines'.

- Reducer: two functions, with three and two blocks of two instructions
  each. The shapes vary six things:
  - which later blocks the terminators of blocks 1 to 4 branch to;
  - whether block 3 is a selection's merge target;
  - which instructions use others across blocks;
  - whether an instruction uses the global 50;
  - whether entry point 1's name word equals 50.

  The finder therefore meets each of its three checks failing alone. Some
  blocks become removable only after another removal. The index-3 edge of
  the interface edit is reached.

- Literal printer: all 256 bytes of E4M3 and E5M2, and E4M3 words with
  upper bits set. The Float16 words are 84: both signs, exponents 0, 1, 14,
  15, 30 and 31, and fractions 0, 1, 2, 0x100, 0x200, 0x155 and 0x3ff.
  These cover zero, denormals whose leading bit sits at the bottom, middle
  and top, infinity and NaN. There are nine float32 words: zero, -0, the
  smallest and largest denormals, the denormal 0x80400000, one, both
  infinities and a NaN. Both the named and the `UNKNOWN` encoding are used.
  The one-word integers are 12 words, with the top half 0, 0x7fff, 0x8000
  or 0xffff and the bottom half 0, 1 or 0xffff. The two-word integers are
  the 25 pairs of five words at the sign and carry edges. Each integer is
  checked signed and unsigned. The set also holds one double and an operand
  for each early return: a non-literal type, 0 and 3 words, no number kind,
  `UNKNOWN` with width 64, and `BFLOAT16`.

## Fairness and liveness

Every call runs to completion on the caller's thread. The only loop whose
termination depends on the code's own bookkeeping is the mask parser's
do-while over words. `MaskTerminates` checks that every mask parse returns,
under weak fairness of the parser's step (`OperandSpec`). This is what
running to completion on one thread guarantees. The other runs are finite
by construction and state safety properties only.

## Plan and status

Done:
1. The conversion core, `castTo` and its helpers.
2. Literal parsing: the `ParseNormalFloat` specialisations.
3. `FeatureManager`.
4. `Pass::Run`, with the refinement to `PassContract`.
5. The validator: `ArithmeticsPass` (every opcode family, including
   `OpCooperativeMatrixReduceNV`), `DerivativesPass`, `MeshShadingPass`
   and the deferred limitations.

6. Mask-operand parsing (`spvTextParseMaskOperand`).
7. The hex-float `operator>>`, for the 16- and 8-bit formats.
8. The target-environment functions (`spirv_target_env.cpp`).
9. The block finder and the instruction and selection opportunities of
   the reducer, composed with the validator.
10. `EmitNumericLiteral` and the hex-float printer, composed with the
    hex-float reader.

Next: nothing of the remaining code can be modelled faithfully (see
below). Liveness of the hex-float reader and of the printed-then-read
literal was tried under weak fairness of every component of
`MCOperandParse`. It does not finish within the run budget at this
instance size.

## Not modelled

- `double`: its 64-bit fields do not fit TLC's integers. The hex-float
  reader for `float` is left out for the same reason: its uint32_t
  fraction does not fit either.
- In E4M3, the reader's infinity clamp writes exponent 15 with fraction 0,
  which E4M3 reads as the finite 256, and values from 480 to 511 keep
  fraction 7, which is E4M3's NaN. The run checks the fields against the
  documented encoding. It does not judge what those fields mean in a
  format without infinity.
- The decimal text of normal and zero `float` values and of `double` in
  `EmitNumericLiteral`. This is the C++ library's float-to-decimal
  conversion at `max_digits10` digits. A double's bits do not fit TLC's
  integers either. The model records that decimal text was written, not
  the text itself.
- `spvTargetEnvList` with `pad > wrap`: the `size_t` difference wraps
  around. No caller in this repository passes such a layout, and the
  checked layouts do not either.
- The IR, CFG and def-use manager the reducer works on are not in this
  repository; `Reduction.tla` follows spec 4.6 for them. The same holds for
  `RemoveBlockReductionOpportunity::Apply` and for the finders of
  instruction and selection opportunities. The simple-conditional-branch
  and loop-to-selection finders are declared in headers only.
- The fuzzer pass. `FuzzerPassToggleAccessChainInstruction::Apply`
  visits each instruction once and randomly applies and records a toggle
  transformation. The transformation, the `FuzzerPass` base that applies
  and records it, and the instruction descriptors are not in this
  repository. The specification puts the fuzzer out of scope.
- `filterCapsAgainstTargetEnv`, `lookupOperandName` and
  `lookupSpecConstantOpcode` (`assembly_grammar.cpp`) only read tables, and
  nothing in this repository calls them. Only the spec-constant opcode
  table is in this repository; the operand tables the other two read are
  not.
- The shaderc command line: an external compiler.
- Headers that only declare classes (`passes.h`, `pch_source_opt.h`,
  `ext_inst.h`, `disassemble.h`, the finder headers).
