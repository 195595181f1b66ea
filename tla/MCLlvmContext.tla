--------------------------- MODULE MCLlvmContext ---------------------------
(* Instances of LlvmContext for TLC.                                       *)
EXTENDS LlvmContext, TLC

CONSTANTS q1, q2

\* Queries differ in nothing but their contexts.
QuerySymmetry == Permutations(Queries)

\* Every combination of levels, as a levels file can ask for.
AnyLevels     == {0 .. 3}
\* The combinations the level search can choose: never level 3 with 1 or 2.
SearchLevels  == {{1, 2}, {3}}
\* One level per query.
UniformLevels == {{1}, {2}, {3}}
\* Without enableME, jit_level keeps its zero.
DefaultLevel  == {{0}}
\* With enableME, a query whose expressions have no level of their own.
UnmanagedLevel == {{0}}
MixedLevels   == {{1, 3}}
============================================================================
