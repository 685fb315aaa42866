----------------------------- MODULE Algorithms -----------------------------
(***************************************************************************)
(* What runs within one party or, between parties, in an order that        *)
(* nothing disturbs: numbers in memory, programs of the compiler's         *)
(* library, the compiler and the reading of its bytecode.  A behaviour is  *)
(* one call of one of these modules.                                       *)
(***************************************************************************)
EXTENDS Arithmetic, NonLinear, ObliviousTools, Compilation, Bytecode

vars == <<subject, job, out, bytecodeVars>>

NoBytecode == phase = "compile" /\ try = <<>> /\ words = <<>> /\ ins = <<>> /\ limits = <<>>

Init ==
    \/ /\ ArithmeticInit \/ NonLinearInit \/ ToolsInit \/ CompilationInit
       /\ NoBytecode
    \/ subject = "bytecode" /\ BytecodeInit /\ job = <<>> /\ out = NotYet

Next ==
    \/ InRing /\ UNCHANGED bytecodeVars
    \/ OneInRing /\ UNCHANGED bytecodeVars
    \/ ModPrime /\ UNCHANGED bytecodeVars
    \/ OneModPrime /\ UNCHANGED bytecodeVars
    \/ InBinaryField /\ UNCHANGED bytecodeVars
    \/ OfBytes /\ UNCHANGED bytecodeVars
    \/ RoundOff /\ UNCHANGED bytecodeVars
    \/ Test /\ UNCHANGED bytecodeVars
    \/ RoundBySecret /\ UNCHANGED bytecodeVars
    \/ SplitShares /\ UNCHANGED bytecodeVars
    \/ Circuit /\ UNCHANGED bytecodeVars
    \/ RunNetwork /\ UNCHANGED bytecodeVars
    \/ Order /\ UNCHANGED bytecodeVars
    \/ Search /\ UNCHANGED bytecodeVars
    \/ UsePacked /\ UNCHANGED bytecodeVars
    \/ Compile /\ UNCHANGED bytecodeVars
    \/ subject = "bytecode" /\ BytecodeNext /\ UNCHANGED <<subject, job, out>>

Spec == Init /\ [][Next]_vars

-----------------------------------------------------------------------------
(* Properties: each is said in the module it comes from.                    *)

\* The word arithmetic of rings, prime fields and binary fields agrees with
\* the integers and polynomials it stands for (src/Math). Primes whose top word
\* is all ones are left out: for them Mont_Mult drops a carry (Zp_Data.h:219).
NumbersAgree ==
    /\ RingArithmetic
    /\ Roots
    /\ MontgomeryProduct
    /\ BinaryFields
    /\ ByteEmbedding

\* Truncation, comparison, decomposition and the binary circuits compute
\* their function of a secret number whatever the masks are
\* (Compiler/comparison.py, floatingpoint.py, non_linear.py, types.py). Left out,
\* as the code is wrong there: a three-way split that cuts one bit
\* (comparison.py:155), rounding numbers so near the largest that the sum does
\* not fit (comparison.py:216), and bits of a negative number modulo a known
\* prime (non_linear.py:104).
SecretNumbers ==
    /\ Modulo
    /\ Truncation
    /\ Rounding
    /\ Comparison
    /\ Decomposition
    /\ BySecret
    /\ Circuits
    /\ PrefixOr

\* The data-independent structures move every value to where it belongs:
\* networks, sorting, buckets, unit vectors and packed arrays (Compiler/
\* permutation.py, oram.py, circuit_oram.py, path_oram.py, library.py).
SecretPlaces ==
    /\ NetworksPermute
    /\ ZeroesKept
    /\ Sorted
    /\ EveryBucketFull
    /\ DeepestFound
    /\ UnitVectors
    /\ PackedIsArray

\* A compiled program does what its statements mean, from memory and within
\* the slices of its threads, and declares no less than it uses
\* (Compiler/allocator.py, program.py, library.py).
CompiledCode ==
    /\ SameResult
    /\ UsageCovers
    /\ BlocksDisjoint
    /\ EveryItemOnce

\* The two tables of instructions agree, apart from the instructions named below:
\* what the compiler writes is what the machine reads, allocates and consumes
\* (Compiler/instructions.py against Processor/Instruction.hpp). They do not
\* agree on OnlyInCompiler (no such opcode), ReadsFirstOnly (registers written),
\* NotCounted (registers allocated) and CountedOnce (preprocessing declared); the
\* last three are exempt from that one comparison and from no other.
CodeUnderstood ==
    /\ BytecodeTypeOK
    /\ InSync
    /\ SameAccess
    /\ Allocated
    /\ UsageCovered
=============================================================================
