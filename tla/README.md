# Verification of HEX's per-expression JIT levels

HEX (ExACT) is PostgreSQL 13.9 in which every expression of a plan has a JIT level of its own:
0 (interpreted), 1 (compiled), 2 (compiled and inlined), 3 (compiled, inlined and optimised).
This directory holds TLA+ specifications of what HEX adds to PostgreSQL, the TLC models that check
them on small instances, and TLAPS proofs for instances of every size.  Source paths below are
relative to `src/PostgreSQL-13.9/src/`.

## Inventory of the system

HEX's additions are marked `#RAIN` in the source.  All state is in globals of a process, which a backend
inherits from the postmaster by fork, and in files that all processes append to; nothing is in shared
memory and no lock is taken.  Paths that begin with `DataAnalysis` or `Workloads` are relative to `src/`.

| part | source | state | operations | model |
|---|---|---|---|---|
| level search | `backend/tcop/postgres.c` 1189-1408, `backend/commands/explain.c` 685-727, `backend/jit/jit.c` 261-299 | `currentExprJITLevels`, `bestJITLevels`, `bestCurrentJITLevels`, `Reserved2`, `Reserved3`, `enableOPT3`, `useTheBest`, `min_total_time`, `min_expr_time` | receive a statement, register an expression, feed a time back, fail | `LevelSearch`, `LevelSearchHistory` |
| configuration | `backend/utils/misc/guc.c` 1959-2036 | `enableME`, `testME`, `enableQuartet`, `Reserved1`, printing switches | reload, SET | in all models of the server |
| LLVM contexts, modules, code | `backend/jit/llvm/llvmjit.c`, `llvmjit_expr.c`, `include/jit/llvmjit.h` | `LLVMJitContext` of every query, `llvm_generation`, two LLJIT instances | compile, first call, release, shutdown | `LlvmContext` |
| fatal-on-OOM section | `backend/jit/llvm/llvmjit_error.cpp` | `fatal_new_handler_depth` | enter, leave, reset | depth in `LlvmContext` |
| levels file (test mode) | `DataAnalysis/HEX/Model/LevelPredict/predict_cost_result.py`, `utils/Aggreate.py`, `postgres.c` 1410-1494 | a CSV file, `currentExprJITLevels` | aggregate predictions, read the line of a database and query | `LevelsFile`; any result of it in `LevelSearch` |
| expression registry | `backend/utils/init/globals.c` 376-504, `backend/access/transam/xlog.c` 5155-5213, `backend/storage/ipc/ipci.c` 207, `backend/postmaster/postmaster.c` | `exprTypes`, `exprNum`, `expr_eeops.txt` | hash, find, add, load, fork, crash and reinitialise | `ExprRegistry`, abstractly `ExprNumbering` |
| tables of a statement | `jit.c` 171-299, `postgres.c` 91-142, 1087-1105, 1220-1289, `globals.c` 362-374 | `currentSQLExprs`, `currentExprList`, `currentSQLOpts` | renew, add plan tree, find operator, add expression | `StatementTables` |
| expression counters | `backend/executor/execExprInterp.c`, `execExpr.c` | `count` fields, `countExpr` | increment | `StatementTables` |
| data files | `postgres.c` 1203-1219, 1838-2038, `explain.c` 664-693, `jit.c` 338-347 | CSV files under `/data` | append | `DataFiles` |
| level analysis and workload | `DataAnalysis/HEX/analyzeData_Opt+Expr(Level).py`, `Workloads/Scripts/TPC-H/tpch_queries/` | best level of every expression | repeat the queries, join the files, learn | `LevelAnalysis` |
| statement classification | `postgres.c` 263-345 | `containExpr` | classify a text | a constant of `LevelSearch` and `DataFiles` |
| code generation, planner, executor, prediction model | - | - | - | not modelled, see the end |

How the parts interact.  A statement arrives in `exec_simple_query`, whose prologue compares its text
with the last one and puts a combination of levels in force.  During executor start-up
`jit_compile_expr` looks each expression up (registry, statement tables), gives a new one a position,
reads the level of the position and calls the LLVM provider when the level is not 0.  The provider
adds a function to the module of that level in the query's context.  The first call of any function
emits all open modules.  At the end `ExplainOnePlan` feeds the measured time back into the search.
An error may leave this sequence anywhere, by a long jump that resets none of HEX's globals.

What is hard to get right and hard to test here:

- the search is a machine over nine globals that advances once per received text, and whose feedback
  may be missing (no EXPLAIN, a cancel, an error);
- its two passes share one array of local bests, which starts uninitialised;
- contexts of nested queries and of open cursors are alive together and interleave their compilation,
  first calls and releases on two shared LLJIT instances;
- `enableME` is read at compile time and again at emission time;
- one handle stands for up to three emitted modules;
- releases happen at the end of a query, in a subtransaction abort, at the top level, and at exit;
- the registry probes with a wrapping hash, is rebuilt after a crash in a process whose counter goes on,
  and is numbered further by every backend on its own;
- `currentExprList` outlives the operators its entries point to, and the three tables are renewed on
  three different conditions;
- the levels file is read by a parser that never resets its `match` flag, from lines padded with
  empty fields that `strtok` skips;
- four files are written at four places of an execution, without a key, and joined by line number.

The properties wanted from it: indices stay in the arrays; levels in force are defined and never mix
3 with 1 or 2; one position is varied at a time; the recorded best is the fastest measured; the search
ends on it; compiled functions have unique names, are found, stay while they are in use and are removed
afterwards; numbers of expressions are unique, stable and written down; an expression has one position
and its own count; predicted levels reach the expressions they were predicted for; lines of the data
files belong together, and the analysis learns the level of the fastest execution.

## Modules

**`LevelSearch`** models one backend.  A query takes three kinds of steps, because it can fail between
them: `Receive` (the whole prologue, with the levels file of test mode at its end), `AddExpr` (an
expression without an entry, in `jit_compile_expr`), and its end: `ExplainOnePlan`, `Complete` or
`Abort`.  `Reload` changes the settings between queries.  The branches of the prologue are operators
with the same order of tests: `NewStatement`, `FirstRepeat`, `NextCombination` (`SweepPlan`, `Exhausted`,
`VaryOPT3`, `Vary`, all ending in `Choose`), `SameCombination`, `RepeatTest`.  Statement texts are model
values, equal when `strcasecmp` says so.  Times are small positive integers.  Memory from `malloc`
holds any member of `Garbage`.  The number of expressions a plan has is chosen at `Receive`
from `PlanSizes`.  `currentStatementExecNum` is capped at 2, since only the value 1 is ever tested.

**`LevelSearchHistory`** adds a history variable, the set of all measurements of the current text, so
that the recorded best can be compared with them.

**`LlvmContext`** models the LLVM side of one backend.  `es_jit[q]` is the context of query `q`.
`CompileExpr` is `llvm_compile_expr` with context creation, module selection and naming.  The first
call of a function is `RunExpr`, `RunExprFails` (the lookup raises ERROR) or `RunExprCrashes` (a NULL
module or an uninitialised handle is dereferenced).  `EndQuery`, `AbortSub`, `AbortTop` and `Exit` are
the ways contexts end.  A function is its name (generation, counter); a module is a set of names; emitted
code is the instance and the names its resource tracker owns.  An uninitialised handle is
`Uninit`: a lookup through it may hit either instance or crash, and its release may remove nothing or any
other code.  A state is the state between two entries into LLVM code, where the fatal section should not
be entered.

**`ExprRegistry`** models the postmaster and its backends.  `Start`, `ParseLine` and `ParseEnd` are the
creation of the table and the loop of `parse_expression_file`; `Fork` copies table and `exprNum`; `Register` is the call
in `jit_compile_expr`; `Crash` reinitialises in the same postmaster, which keeps `exprNum`; `Stop`
keeps only the file.  `AddExpression` is the whole of `add_expression`, with `StopSlot` for the loop it
shares with `find_expression`.  Expressions are sequences of opcodes, hashed by `CalculateHash` in a
wrapping integer of `2 * HASH_LIMIT` values; the index keeps the sign of the hash, as C's `%` does.  An
access outside the table marks the process (`wild`), and nothing more is said of it.  The lines of
`expr_eeops.txt` are a set, since their order and repetition are not used.

**`ExprNumbering`** is what the registry promises: each process holds a set of (key, number) pairs and
only adds a new key with a new number, inherits the postmaster's pairs, or forgets all.  `ExprRegistry`
implements it (`ImplementsNumbering`) under the mapping of a table to the pairs in its occupied slots.

**`StatementTables`** models one backend.  `Receive` renews the operators (`RenewOperators`, if the text
has expressions) and the expression tables (`RenewExprs`, if `enableME`).  `Plan` and `PlanNested` are
`pg_plan_query` for the text and for a query inside a function, `RunCached` executes a cached plan, which
adds no operators.  `JitCompileExpr` is the search and insertion in both tables, `ExecInterpExpr` the
counting.  A pointer is a block and an index; `malloc` returns the freed block or another, and freed memory is
overwritten (`Junk`) in its first entry, where the allocator keeps its links, or entirely.  An operator
is its signature (plan node, type, costs), an expression its shape (hash and length).  A text may run any
number of nested queries and cached plans; `OfText` tells the operators of its own plan from theirs.  No table is
tested for its size before it is written: a write that has no room (`OperatorsFit`, `ExprFits`) is the step
`WriteBeyond`, which sets `overrun`; what happens after it is undefined and not followed.  Two
assumptions say what the code relies on without a test: an operator has one place in all plans
of a text (`PlacesAssumption`, since `plan_node_id` numbers them in the order of `addPlanTree`), and the costs tell
the operators of nested queries from those of the text (`NestedAssumption`).

**`LevelsFile`** models the pipeline of predicted levels.  `Predict` emits rows, `Publish` aggregates them
into the CSV file (`Aggregate`: a dictionary in order of appearance, padding, a header of column numbers), `Receive`
is a statement in test mode; the two loops of the reader in `exec_simple_query` are the recursive functions
`LinesRead` and `FieldsRead`; `Connect` changes the database.  Fields are database names, numbers or empty.

**`DataFiles`** models the writes to the four files for a script of texts, in the order in which
an execution makes them: `Start`, `Compile` per expression, `Explain` or `RunPlain`, `Finish`, or `Fail`.
Every write carries the number of its execution, for the properties only.  `Compiles` lists the (expression, operator)
pairs a text compiles, in order, and `Reached` the operators that `addPlanTree` enters.  `jit.csv` has one fragment per
compilation, `report.csv` one entry per pair, except that a pair at an operator that is not reached has a NULL operator,
is never found again and gets an entry, `T_Invalid`, per compilation (`Reported`).  **`LevelAnalysis`** adds
the readers: `RepeatedScript` is the loop of `executeAllN.sh` over the databases and their query files, with an `analyze`
in front of each database (`DatabaseScript`; a text stands for the database and the statement, so the same files in another
database are other texts), `Learned` the loop of `analyzeData_Opt+Expr(Level).py` over the lines,
`SetLevels` its inner loop over the expressions of a line.  `LearnsFastest` says what is learnt, and for which statements
and expressions: those whose executions come in a row (`InARow`), whose expressions no other
classified statement compiles (`Told`), and which have no repeated compilation in front of them (`Aligned`).  `MCDataFiles`
assumes of its script that all these cases occur (`MCLists`), so TLC evaluates it.

**`MCLevelSearch`, `MCLevelSearchHistory`, `MCLlvmContext`, `MCExprRegistry`, `MCStatementTables`,
`MCLevelsFile`, `MCDataFiles`** give the constants values for TLC.

How the models fit together.  `NeverMixed` of `LevelSearch` says that the search never puts level 3 in
force beside 1 or 2.  That is the assumption on levels (`SearchLevels`, `SearchWorkload`) under
which `LlvmContext` finds every function.  `LevelSearch` takes positions as given: `DistinctPositions` and
`StablePositions` of `StatementTables` are that assumption.  `StatementTables` takes an expression for its
shape: `NumbersUnique` and `FoundAgain` of `ExprRegistry` say that shapes and numbers correspond.
`LevelAnalysis` reads what `DataFiles` writes, and `LevelsFile` brings levels back to the server.

## Runs

Passing runs:

| run | question | instance |
|---|---|---|
| `search_repeated` | one EXPLAIN ANALYZE text over and over, `enableQuartet` on: are the passes right, does every execution that is due use up one combination, and do they end on the fastest one and stay there? | 2 positions, 2 times, garbage 0, 3 or 9 |
| `search_cancelled` | the same with `enableQuartet` off and cancels | 2 positions |
| `search_general` | any mixture of texts, failures, reloads, test mode and changing plans: are indices valid, is the recorded best the fastest? | 3 texts, 2 positions, 3 measurements |
| `llvm_general` | any levels, `enableME` changed under running queries: are names unique, does optimised code get removed? | 2 queries, 3 generations, 2 functions per context |
| `registry` | postmaster and backends fill a small table from the file and from queries, with reloads, crashes and restarts: are numbers unique, found again, agreed on and written down, and is the whole a numbering? | 4 slots, 7 expressions, 2 backends, 6 lines |
| `tables` | texts, utilities, nested and cached plans, errors, reloads, moving memory, tables that overflow: do the tables suffice for a text that has room in them, and do expressions keep positions and counts of their own? | 2 plans of a text that has room and 2 of one that has not, 4 nested plans any number of times, 2 blocks, 3 entries, 1 waiting expression, 2 counted evaluations |
| `levels_file` | any predictions, two files one after the other: does each expression get the level predicted for it and nothing else? | 2 databases, 2 queries, 3 rows, 2 levels |
| `data_files` | EXPLAINs repeated, any levels, times and early failures: do the lines belong together, and is the fastest level learnt? | 2 databases with 1 query each, twice, 2 levels, 2 times; an expression at 2 operators, one compiled twice, one at an operator that is not reached |
| `llvm_search` | the levels of the search, `enableME` stable while queries run: is every function found and does it stay? | 2 queries, 3 generations, 3 functions per context |

Violation runs, each with a finding in `PROJECT.json`:

| run | what the code does, against its own comment |
|---|---|
| `llvm_unmanaged` | `enableME` on and a plan without levels (WITH, EXPLAIN (ANALYZE), EXECUTE) that the planner wants compiled: its module is dropped and the handle left uninitialised |
| `registry_long` | the hash of an expression within `EXPR_SIZE` steps wraps and its index is negative (39 steps of opcode 0: -69) |
| `data_shipped` | `pg15.sql` selects without EXPLAIN: its line of `jit.csv` is never ended, so the files get out of step |

Bounds.  Two positions are the least with a position before and one after a carry, and they make the
two passes share recorded levels.  Two times are enough for faster, equal and slower.  `MaxLevel` stops
only a runaway digit (see the deviations).  `MaxMeasured` bounds the history; the
theorem about it has no bound.  Three generations let two queries be alive while one of them
emits twice; three functions let a context compile again after its first emission.  Queries are
symmetric in `llvm_general` and `llvm_search`.  Four slots and seven expressions make probes collide, wrap
and meet a full table, and two of the expressions are one to the code; six lines leave room for a crash
that loads the file again.  `HASH_LIMIT` is 512, so that three steps overflow it where the code needs 36
to 40.  In `tables` three entries let a nested plan follow the longer plan, and
`MaxTodo` = 1 lets a nested query start when no other expression waits to be compiled (the theorems hold for
every `MaxTodo`); a text with two plans of different size and the same shape at two operators is the least in which
positions can be confused.  Three rows make lines of different lengths, so of padded and full
ones, before and after the line that matches.  Two repetitions let the fastest execution come first
or last or both be equally fast; the theorem has no bound on them.  The LLVM runs switch the deadlock check off because a
backend may exit, crash or reach the bounds, the data file runs because the script ends, and `tables` because a session that has written
past a table is not followed further; in all other runs deadlock is checked.

Fairness.  `FairRepeated` (and `FairPlain`, used for a deviation below) assume that the client
keeps sending and the backend keeps executing (weak fairness of the workload's steps): the workload scripts do exactly that.
`FairCancelled` adds strong fairness of the measurement: a client whose every execution is cancelled
cannot expect the search to end.  Nothing is assumed about the times measured.

## Proofs

TLAPS checks every step.  All theorems hold for every value of the constants that satisfies the named
assumptions of the modules (`ConstAssumption`, `LlvmAssumption`, `ContextAssumption`, `SizeAssumption` and
those after it in `ExprRegistry`, the five of `StatementTables`, `InputsAssumption` of `LevelsFile` and of `DataFiles`), which TLC
evaluates in the runs of these modules.  But for `PlacesAssumption` and `NestedAssumption` they are type assumptions: sizes
are naturals, levels read from a file are 0 to 3, times are positive, NULL is neither a query nor a context,
the expressions of the file are among the expressions.

| module | theorem | statement |
|---|---|---|
| `LevelSearchProofs` | `TypeCorrect` | `Spec => []TypeOK` |
| | `RecordedBestIsFastest` | `HSpec => []BestIsFastest` |
| | `PassesDefined`, `PassesUnmixed`, `PassesOneDigit` | in the intended workload, `LevelsDefined`, `NeverMixed` and `OneDigit` |
| | `PassesAdvance`, `PassesKeepBest` | in the intended workload, `SearchAdvances` and `BestStays` |
| `LlvmContextProofs` | `ContextsTyped`, `FunctionNamesUnique`, `OptimisedCodeOwned` | `TypeOK`, `NamesUnique`, `NoOrphans` |
| | `SearchedLevelsRun`, `SearchedCodeLives` | with the search's levels, `FunctionFound` and `LiveCode` |
| `ExprRegistryProofs` | `RegistryTyped`, `RegistrySafe`, `StoredIsFound` | `TypeOK`, `NumbersUnique`, `FoundAgain` |
| | `BackendsAgree`, `NumbersExplained`, `RefusalsMeanFull` | `Agreement`, `NumbersWritten`, `RefusedOnlyWhenFull` |
| | `ShortInTable` | for expressions too short to overflow the hash, `IndexInTable` |
| | `RegistryRefines` | `Spec => ImplementsNumbering` |
| `StatementTablesProofs` | `EntriesUnique` | `NoDuplicates` |
| | `PositionsDistinct`, `PositionsStable` | `DistinctPositions`, `StablePositions` |
| `StatementCountsProofs` | `TablesSuffice` | `Spec => []RoomSuffices` |
| | `OperatorsLive`, `CountsExact`, `RepetitionsUncounted` | `LiveOperators`, `CountsRight`, `CountedOnce` |
| `LevelsFileProofs` | `LevelsReadBack`, `LevelsNotBorrowed`, `LevelsTyped` | `RoundTrip`, `NothingBorrowed`, `TypeOK` |
| `DataFilesProofs` | `LinesAligned` | in a workload of EXPLAINs, `Spec => []OneLineEach` |
| | `FilesTyped` | for every workload, `Spec => []TypeOK` |
| | `FastestLearned` | in a workload of EXPLAINs, `Spec => []LearnsFastest` |
| | `RepetitionsInARow` | the script of `executeAllN.sh`, for any databases and files without a common query, has the executions of each statement in a row |

`BoundedRecursion` holds what the proofs about loops share: induction and definition by recursion up to a
bound, stated with sets and functions.  A theorem with an operator as a parameter cannot be applied by the
installed provers; a set of numbers for which a fact holds, and a function in place of an operator, can.

The arguments:

- `TypeOK` of the search is inductive.  Its substance is that `Reserved2` never exceeds `currentExprNum`.
- `BestIsFastest` needs `TypeOK` and positive times in the history: 0 is the code's "nothing measured".
- The theorems on the passes rest on `PassInv`, one predicate per phase of the search (first execution, sweep,
  first pass, between the passes, second pass, done), each saying which positions of the two arrays are
  already written and with which levels.  `QuartetWorkload` states the workload: `enableME` and `enableQuartet`
  on, `testME` off, every text has expressions and one plan size.
- `SearchAdvances` says how far the search is: `Remaining` counts the combinations left, 3n + 5 for a plan of n > 0
  expressions (three of the sweep, 2n + 1 up to the local best, n + 1 from there to the end) and 3 for a plan
  without.  Each `Pass` lemma shows beside its phase what its step does to `Remaining`; it is 0 exactly when every
  position has been varied (`NothingLeft`), and then `Exhausted` puts `bestJITLevels` in force.  `BestStays` adds that
  a faster run of the best combination records the combination in force, so they stay equal.  The two
  give `Converges` but for the fairness: that the due executions come.
- `NamesUnique` rests on `NamesInv`: `llvm_generation` only grows, no two live contexts share a
  generation, and a context's counter is above every index used under its generation.
- `NoOrphans` is inductive with `TypeOK`: `module_opt` is the last module to overwrite the handle.
- `FunctionFound` rests on `SearchInv`: each context has one home instance to which all its code goes,
  so asking the first handle is enough; a handle owns only functions of its own context, so a release
  harms no other.  `SearchWorkload` states that no query mixes level 3 with 1 or 2.
- `NumbersUnique` rests on `IInv`: in every table each occupied slot holds an expression whose probe
  sequence passes only over occupied slots of others before it reaches the slot (`Chained`), and numbers
  are distinct and at most `exprNum`.  `NumbersUnique` alone is not inductive: that the expression was not
  there already is known only because the probe would have met it.  An add is refused
  only by a full table because a probe sequence visits every slot (`ProbeVisitsAll`), and the hash of a
  short expression is not negative because its partial hashes only grow and so stay below the limit
  (`ShortHash`, by induction over its steps).
- `Agreement` and `NumbersWritten` are inductive with `IInv` and the fact that backends run only while the
  postmaster is up (`SharedInv`): an add fills a slot that was
  free and writes the line of the number it gives.
- `RegistryRefines` uses `IInv` to show that each step adds one new pair, copies the postmaster's pairs,
  forgets those of some processes, or changes no pair.
- The theorems on the statement tables rest on `Phases`, `PositionsKept`, `CountsKept` and `StoppedCounting`.  The
  text's own plan is written from the first entry on, when `allOptInfoNum` is 0, so wherever an operator of
  the text is in memory it is at its place (`InPlace`).  Within an execution the current block changes only
  behind `allOptInfoNum`, so a live operator is never overwritten, whatever nested queries add.  An expression is
  entered once per operator entry (`NoDuplicates`, `ListedOnce`) and, at an operator of the text, before its
  first evaluation (`ReadyListed`), so its count is exact.  `DistinctPositions`, `StablePositions` and the equality in
  `CountsRight` speak of the text's own operators only: for those of nested queries they may fail (see the deviations).
- `RoomSuffices` needs to know what fills the tables.  As long as the block stays and no function has run a query, every
  entry of `currentExprList` points to the place at which its operator stands in the plans of the text (`ListPlaced`, likewise
  `SQLExprsPlaced`), because `addPlanTree` has reached the operators of all expressions that wait to be
  compiled (`TodoReached`).  No two entries are for the same shape and place (`NoDuplicates`), so the list injects into `PlacesOf` of the text, and when an
  expression is not found in the list there is a place left for it.  `currentSQLOpts` is filled from its first entry on
  once per execution.
- `RoundTrip` and `NothingBorrowed` need that the file is what `Aggregate` makes of the rows it was
  written from (`FileKept`) and that no statement has more rows than the array has places.  The rest is about the two
  programs: the dictionary has one entry per statement with the levels of its rows in order
  (`DictionaryOK`, by induction over the rows); the first line of the file, the column numbers, sets `match` to
  false for good, so the reader never stops early but goes through all lines; a line of another statement is left
  before it touches a level (`OtherLine`), the statement's own line gives its levels and at
  most one 0 behind them (`OwnLine`), and there is only one such line (`FileRead`, by induction over the lines).
- `LinesAligned` rests on `FInv`: the files agree on the finished executions, `jit.csv` and `time.csv`
  are one line ahead between `ExplainOnePlan` and the epilogue, and an open line holds only fragments of
  the execution at work.  `ExplainWorkload` states the workload: classified texts are EXPLAINs and nothing
  fails after it was compiled.  Both conditions are needed (`data_shipped` and the deviations).
- `FastestLearned` rests on `AInv`: the lines of `jit.csv` and `report.csv` are, one by one, those of
  the finished executions (`Kept`), which are in the order of the script (`InOrder`).  So the analysis is a
  function of these executions.  For a fixed statement that is in a row and told apart, by induction over the rounds
  (`After`): before its executions nothing is known of its expressions, in them `min_time` is the least time of those read
  so far, and after them nothing changes what was learnt (`FastestElsewhere`).  The first round of the statement resets
  `min_time`, because its expressions are not in `seen` (`Told`); in a later one the statement before is the same
  (`InARow`), so the comparison is with its own minimum.  What a round writes is `SetLevelsIs`: a row has one level per
  expression number, so of the entries of a report with this number the last one at a listed operator wins.  `ReportedIs`
  says which entries a report has, by induction over the compilations; in front of the first repeated one they are at the
  same positions as the levels of the line (`Aligned`).
- `RepetitionsInARow` shows that scripts of `executeAllN.sh` meet the first condition: within a file there is one
  classified statement (`QueryFiles`), `analyze` is none, and the parts of a concatenation that have no text in common
  are apart in it (`ConcatenatedIs`), first for the files of a database and then for the databases.

Only model-checked: the liveness properties `Converges` and `LevelThreeTried`, since the prover does not treat
fairness, and all violations.  Every other property of a passing run is a theorem, or, for the `TypeOK` of
`StatementTables`, a lemma: the sizes in it hold because `WriteBeyond` is not followed.

## Known deviations without a run

Behaviour met while modelling, which the properties above exclude by a stated assumption.  Where a
definition is named, the module keeps it and TLC reports a violation with the given values.

- With `enableQuartet` off (the default) the second pass uses a local best that nothing recorded:
  `LevelsDefined` under `SpecRepeated` with `PlainConfs` (`MCLevelSearch`).
- A repeated statement that is no EXPLAIN never gets to level 3: `LevelThreeTried` under `FairPlain`.
- A level 3 left by test mode is incremented for ever, because the digit is tested with `== 3`:
  `DigitCarries` with `TestConfs` and `FileWith3`.
- Levels 1 and 3 in one query, as a levels file can ask for: the function is in the other instance and the
  query fails.  `FunctionFound` with `MixedLevels` (`MCLlvmContext`).
- Levels 1 and 2 in one query: the first tracker is overwritten and its code stays until the backend
  exits.  `CleanedUp` with `SearchLevels`.
- A release enters the fatal section and never leaves it, so `llvm_shutdown` does nothing at exit:
  `ShutDownAtExit`.
- An error after an expression was compiled leaves its fragments in `jit.csv`: `OneLineEach` with
  `LateErrors = TRUE`.  Several clients at once interleave their fragments in the same way.  An EXPLAIN whose
  text is not classified adds a line to `jit.csv` alone.
- A failed statement leaves its text in `time.csv` without a line end, so the line of the next one begins with it, where
  `src/README.md` line 80 has one line for one statement.  `OneLineEach` asks only that the last text of a line
  is the one its times belong to.
- Expressions of cached plans, and of the children of an Append, which `addPlanTree` does not reach, have no
  operator, so each execution of the text adds them to `currentExprList` again, and so does a moved block for
  all expressions: in the end past `EXPR_MAX_NUM`.  A plan of more than `OPT_LIST_SIZE` operators, alone or with nested
  queries, is written past `currentSQLOpts`.  TLC finds each of these in the instance of `tables` when the
  condition for it is dropped from `RoomSuffices` or `HasRoom`.
- `DistinctPositions` and the equality of `CountsRight` do not extend to nested queries; TLC finds both counterexamples
  in the instance of `tables` when `OfText` is dropped.  In a repetition a cached plan may take the position
  of an entry whose pointer then leads to the operator of a query planned later, so both share it.  A cached plan that
  is planned again in the same execution has evaluations from before its operator had an entry.
- `countExpr` stays set when the next text runs with `enableExprCount` off.
- In the levels file all unknown queries share the number -1, and levels beyond the end of a line stay
  from the previous file while the same text is repeated.
- The level analysis indexes the levels of `jit.csv` with the position in `report.csv`: behind an expression that is
  compiled twice at one operator each entry gets the level of another.  It keeps one row for an expression number, so of two
  operators the last one's level is learnt for both.  An expression at an operator that is not reached
  learns 0, whatever was measured.  It compares with the `min_time` of another statement when statements alternate, or when
  two statements, or one statement in two databases, compile the same expressions at operators of equal costs: such
  statements are not `Told`.

## Not modelled

- The LLVM IR generated for each expression step, and what the optimiser makes of it: data far beyond
  a model checker.  Tuple deforming, which HEX disables.
- The planner, executor and storage: PostgreSQL's own, unchanged but for two plan fields.
- Out-of-memory handlers of `llvmjit_error.cpp`; running out of memory ends the process.
- Leaks of modules that were opened and never emitted (a plain module beside `module_opt`,
  `llvmjit.c` 189-193): no address or name of theirs is used again.
- Functions that run a query while the text is still being planned (constant folding), whose operators would come before
  those of the text; strings of several statements.
- The extended query protocol, which does not run the prologue of `exec_simple_query`.
- LLVM versions up to 11, for which the code has other branches; the installation script builds with 15.
- The printing switches, the prediction model, the other analysis and workload scripts, and the feature
  columns of the level analysis.
- `exprs.csv` and `expression_count.csv`, which nothing reads back; files that cannot be opened, after which
  the code uses NULL; expressions of more than `EXPR_SIZE` steps, which overrun their slot.
- Settings changed by SET inside the statement that runs under them, except `enableME` in `LlvmContext`.
- Numbers that two backends give to different expressions after their fork: the registry has no means
  against them, and `Agreement` speaks of the inherited ones.
- The string handling of `getSqlStatementType` and `identify_query`: the classified texts and the
  query numbers are inputs.

## Next

An abstract specification of a level tuner (try combinations, keep the fastest, end on it) that
`LevelSearch` refines, and `StatementTables` composed with `LevelSearch` in place of its assumption on
positions.
