---------------------------- MODULE LlvmContext ----------------------------
(***************************************************************************)
(* The LLVM side of one backend: JIT contexts, their modules, the emitted  *)
(* code and its release (jit/llvm/llvmjit.c, llvmjit_expr.c,               *)
(* llvmjit_error.cpp, built with LLVM > 11).                               *)
(*                                                                         *)
(* A query owns at most one context (EState.es_jit).  Compiling an         *)
(* expression adds a function to the context's open module of the          *)
(* expression's level; the open modules are emitted into one of two LLJIT  *)
(* instances the first time a function of the context is run.  Contexts of *)
(* nested queries and of open cursors are alive together, so any of them   *)
(* may take the next step.  A state is the state between two entries into  *)
(* LLVM code.                                                              *)
(***************************************************************************)
EXTENDS Integers, Sequences, FiniteSets

CONSTANTS
  Queries,          \* EStates that may be alive at the same time
  MELevels,         \* sets of levels a query's expressions may have together
  PlainLevels,      \*   when it runs with enableME on, and with it off
  MaxGeneration,    \* bound on llvm_generation
  MaxFunctions,     \* bound on the functions of one context
  NoContext         \* es_jit is NULL

ASSUME LlvmAssumption ==
  /\ IsFiniteSet(Queries) /\ NoContext \notin Queries
  /\ MELevels \subseteq SUBSET (0 .. 3)
  /\ PlainLevels \subseteq SUBSET (0 .. 3)
  /\ MaxGeneration \in Nat
  /\ MaxFunctions \in Nat

\* ModuleType, in the order of the enumeration: levels are cast to it.
MODULE_DEF    == 0
MODULE_JIT    == 1
MODULE_INLINE == 2
MODULE_OPT    == 3
ModuleType    == 0 .. 3

LLJITs == {"opt0", "opt3"}

\* The function name evalexpr_<generation>_<counter>.
Name == Nat \X Nat

\* Emitted code: an LLVMJitHandle and the functions its tracker owns.  A
\* handle that was allocated and never filled in is Uninit.
Code   == [lljit: LLJITs, names: SUBSET Name]
Uninit == [lljit |-> "garbage", names |-> {}]
Handle == Code \cup {Uninit}

\* An LLVMJitContext, with the CompiledExprStates that refer to it: modules[t]
\* is {} for a NULL module pointer (a module is created with its first
\* function); waiting and resolved are the functions whose ExprState still
\* calls ExecRunCompiledExpr, and those that were called once; levels are the
\* levels of the query's expressions so far.
Context == [flags: LLJITs, module_generation: Nat, counter: Nat, compiled: BOOLEAN,
            modules: [ModuleType -> SUBSET Name], handles: Seq(Handle),
            waiting: SUBSET Name, resolved: SUBSET Name, levels: SUBSET ModuleType]

\* NULL is no context.
ASSUME ContextAssumption == NoContext \notin Context

VARIABLES
  enableME,         \* the configuration parameter
  es_jit,           \* [Queries -> a context or NoContext]
  llvm_generation,
  emitted,          \* the modules added to the two LLJIT instances
  fatal_new_handler_depth,
  failed,           \* the query whose lookup raised ERROR, NoContext if none
  backend,          \* "running", "exited" or "crashed"
  shutdown          \* llvm_shutdown disposed of the LLJIT instances

vars == <<enableME, es_jit, llvm_generation, emitted, fatal_new_handler_depth,
          failed, backend, shutdown>>

Live == {q \in Queries : es_jit[q] # NoContext}

Init ==
  /\ enableME \in BOOLEAN
  /\ es_jit = [q \in Queries |-> NoContext]
  /\ llvm_generation = 0
  /\ emitted = {}
  /\ fatal_new_handler_depth = 0
  /\ failed = NoContext
  /\ backend = "running"
  /\ shutdown = FALSE

Running == backend = "running" /\ failed = NoContext

----------------------------------------------------------------------------
(* llvm_compile_expr                                                       *)

\* llvm_create_context: zeroed memory and the query's es_jit_flags, of which
\* only PGJIT_OPT3 decides anything.
NewContext(flags) ==
  [flags |-> flags, module_generation |-> 0, counter |-> 0, compiled |-> FALSE,
   modules |-> [t \in ModuleType |-> {}], handles |-> <<>>, waiting |-> {},
   resolved |-> {}, levels |-> {}]

\* Is a new generation begun?  llvm_mutable_module asks for its own module
\* only, llvm_mutable_module_select for all four.
NewGeneration(c, type) ==
  IF type = MODULE_DEF THEN c.modules[MODULE_DEF] = {}
  ELSE \A t \in ModuleType : c.modules[t] = {}

\* Mutant: the generation of the context's first module is kept for ever.
KeepGeneration(c, type) ==
  IF NewGeneration(c, type) THEN [c EXCEPT !.compiled = FALSE] ELSE c

\* Mutant: the context stays marked as compiled when a new module is begun.
KeepCompiled(c, type) ==
  IF NewGeneration(c, type) THEN [c EXCEPT !.module_generation = llvm_generation] ELSE c

\* llvm_mutable_module and llvm_mutable_module_select; the module itself
\* appears with the function AddFunction puts into it.
MutableModule(c, type) ==
  IF NewGeneration(c, type)
  THEN [c EXCEPT !.compiled = FALSE, !.module_generation = llvm_generation]
  ELSE c

\* llvm_expand_funcname.
FuncName(c) == <<c.module_generation, c.counter>>

\* The rest of llvm_compile_expr: a function in the module, and an ExprState
\* that will call ExecRunCompiledExpr.
AddFunction(c, type) ==
  [c EXCEPT !.counter = @ + 1,
            !.modules[type] = @ \cup {FuncName(c)},
            !.waiting = @ \cup {FuncName(c)},
            !.levels = @ \cup {type}]

\* A query of level 3 sets PGJIT_OPT3 before its context exists; otherwise the
\* planner decides.
Flags(type) == IF type = MODULE_OPT THEN {"opt3"} ELSE LLJITs

\* llvm_compile_expr for an expression of query q whose jit_level is type.
CompileExpr(q, type) ==
  /\ Running
  /\ \E flags \in Flags(type) :
       LET c  == IF es_jit[q] = NoContext THEN NewContext(flags) ELSE es_jit[q]
           c1 == MutableModule(c, type)
       IN  /\ \E L \in IF enableME THEN MELevels ELSE PlainLevels :
                c.levels \cup {type} \subseteq L
           /\ c.counter < MaxFunctions
           /\ NewGeneration(c, type) => llvm_generation < MaxGeneration
           /\ es_jit' = [es_jit EXCEPT ![q] = AddFunction(c1, type)]
           /\ llvm_generation' =
                IF NewGeneration(c, type) THEN llvm_generation + 1 ELSE llvm_generation
  /\ UNCHANGED <<enableME, emitted, fatal_new_handler_depth, failed, backend, shutdown>>

----------------------------------------------------------------------------
(* ExecRunCompiledExpr                                                     *)

\* The instance me_llvm_compile_module adds a module of each type to.
TargetOf(type) == IF type = MODULE_OPT THEN "opt3" ELSE "opt0"

CodeOf(lljit, c, type) == [lljit |-> lljit, names |-> c.modules[type]]

\* me_llvm_compile_module: the plain module is never added, the others are,
\* in order, each overwriting the one handle.
MEOpen(c) == {t \in ModuleType \ {MODULE_DEF} : c.modules[t] # {}}
MEAdded(c) == {CodeOf(TargetOf(t), c, t) : t \in MEOpen(c)}
MEHandle(c) ==
  IF MEOpen(c) = {} THEN Uninit
  ELSE LET last == CHOOSE t \in MEOpen(c) : \A u \in MEOpen(c) : u <= t
       IN  CodeOf(TargetOf(last), c, last)
MECompile(c) ==
  [c EXCEPT !.compiled = TRUE, !.handles = Append(@, MEHandle(c)),
            !.modules = [t \in ModuleType |-> {}]]

\* llvm_compile_module: only the plain module is emitted.
PlainAdded(c) == {CodeOf(c.flags, c, MODULE_DEF)}
PlainCompile(c) ==
  [c EXCEPT !.compiled = TRUE, !.handles = Append(@, CodeOf(c.flags, c, MODULE_DEF)),
            !.modules[MODULE_DEF] = {}]

\* The context after llvm_get_function has emitted what is pending, and what
\* that adds to the LLJIT instances.
Compiled(c) ==
  IF c.compiled THEN c ELSE IF enableME THEN MECompile(c) ELSE PlainCompile(c)
Added(c) ==
  IF c.compiled THEN {} ELSE IF enableME THEN MEAdded(c) ELSE PlainAdded(c)

\* llvm_compile_module dereferences a NULL module when only per-level modules
\* are open.
NullModule(c) == ~c.compiled /\ ~enableME /\ c.modules[MODULE_DEF] = {}

\* The lookup loop of llvm_get_function: an instance that lacks the symbol
\* raises ERROR, so only the first handle is ever asked.  An uninitialised one
\* may hold the pointer of either instance, left in reused memory.
Asked(c) == IF c.handles[1] = Uninit THEN LLJITs ELSE {c.handles[1].lljit}
Found(lljit, code, name) == \E m \in code : m.lljit = lljit /\ name \in m.names

\* ExecRunCompiledExpr puts the function's address into the ExprState.
Resolve(c, name) == [c EXCEPT !.waiting = @ \ {name}, !.resolved = @ \cup {name}]

\* First call of a compiled expression: its address is found.
RunExpr(q, name) ==
  /\ Running
  /\ LET c == Compiled(es_jit[q])
     IN  /\ ~NullModule(es_jit[q])
         /\ emitted' = emitted \cup Added(es_jit[q])
         /\ \E lljit \in Asked(c) : Found(lljit, emitted', name)
         /\ es_jit' = [es_jit EXCEPT ![q] = Resolve(c, name)]
  /\ UNCHANGED <<enableME, llvm_generation, fatal_new_handler_depth, failed,
                 backend, shutdown>>

\* ... or it is not, and ERROR leaves the fatal section entered.
RunExprFails(q, name) ==
  /\ Running
  /\ LET c == Compiled(es_jit[q])
     IN  /\ ~NullModule(es_jit[q])
         /\ emitted' = emitted \cup Added(es_jit[q])
         /\ \E lljit \in Asked(c) : ~Found(lljit, emitted', name)
         /\ es_jit' = [es_jit EXCEPT ![q] = c]
  /\ failed' = q
  /\ fatal_new_handler_depth' = fatal_new_handler_depth + 1
  /\ UNCHANGED <<enableME, llvm_generation, backend, shutdown>>

\* ... or the process dies: a NULL module, or an uninitialised LLJIT pointer.
RunExprCrashes(q) ==
  /\ Running
  /\ \/ NullModule(es_jit[q])
     \/ /\ ~NullModule(es_jit[q])
        /\ Compiled(es_jit[q]).handles[1] = Uninit
  /\ backend' = "crashed"
  /\ UNCHANGED <<enableME, es_jit, llvm_generation, emitted,
                 fatal_new_handler_depth, failed, shutdown>>

----------------------------------------------------------------------------
(* llvm_release_context, and the ways a query or the backend ends          *)

\* The handles in the lists of the contexts of Q.
HandlesOf(Q) == UNION {{es_jit[q].handles[i] : i \in DOMAIN es_jit[q].handles} : q \in Q}

\* Mutant: every emitted module of the instance is removed, as with a tracker
\* shared by all of them.
SharedTrackers(Q) ==
  {m \in emitted : \E h \in HandlesOf(Q) : m.lljit = h.lljit}

\* Mutant: only the first handle of a context is released.
FirstHandles(Q) == {es_jit[q].handles[1] : q \in {r \in Q : es_jit[r].handles # <<>>}}

\* The trackers the loop over the handles removes.
Removed(Q) == HandlesOf(Q)

\* Release of the contexts of Q.  Only trackers in a handle are removed.  The
\* tracker of an uninitialised handle is a stale pointer: removing it may do
\* nothing, or hit the tracker of any other code.
Release(Q) ==
  /\ es_jit' = [q \in Queries |-> IF q \in Q THEN NoContext ELSE es_jit[q]]
  /\ \E stray \in IF Uninit \in HandlesOf(Q) THEN SUBSET emitted ELSE {{}} :
       emitted' = emitted \ (Removed(Q) \cup stray)

\* Mutant: the fatal section is left without having been entered.
EndQueryLeaves(q) ==
  /\ Running
  /\ q \in Live
  /\ Release({q})
  /\ fatal_new_handler_depth' = fatal_new_handler_depth - 1
  /\ UNCHANGED <<enableME, llvm_generation, failed, backend, shutdown>>

\* FreeExecutorState, at the end of a query: llvm_release_context enters the
\* fatal section and does not leave it.
EndQuery(q) ==
  /\ Running
  /\ q \in Live
  /\ Release({q})
  /\ fatal_new_handler_depth' = fatal_new_handler_depth + 1
  /\ UNCHANGED <<enableME, llvm_generation, failed, backend, shutdown>>

\* The ERROR of a lookup is caught inside the statement: the subtransaction's
\* resource owner releases the contexts created in it.  Nothing resets the
\* fatal section here.
AbortSub(Q) ==
  /\ backend = "running"
  /\ failed \in Q
  /\ Release(Q)
  /\ fatal_new_handler_depth' = fatal_new_handler_depth + Cardinality(Q)
  /\ failed' = NoContext
  /\ UNCHANGED <<enableME, llvm_generation, backend, shutdown>>

\* Any ERROR that reaches PostgresMain: AbortCurrentTransaction releases every
\* context, then jit_reset_after_error forgets the fatal section.
AbortTop ==
  /\ backend = "running"
  /\ Release(Live)
  /\ fatal_new_handler_depth' = 0
  /\ failed' = NoContext
  /\ UNCHANGED <<enableME, llvm_generation, backend, shutdown>>

\* proc_exit outside LLVM code: contexts are not released any more, and
\* llvm_shutdown looks at the fatal section.
Exit ==
  /\ Running
  /\ backend' = "exited"
  /\ shutdown' = (fatal_new_handler_depth = 0)
  /\ UNCHANGED <<enableME, es_jit, llvm_generation, emitted,
                 fatal_new_handler_depth, failed>>

\* SET enableME.
SetEnableME ==
  /\ Running
  /\ enableME' = ~enableME
  /\ UNCHANGED <<es_jit, llvm_generation, emitted, fatal_new_handler_depth,
                 failed, backend, shutdown>>

----------------------------------------------------------------------------
Use(q) ==
  \/ \E type \in ModuleType : CompileExpr(q, type)
  \/ /\ q \in Live
     /\ \/ \E name \in es_jit[q].waiting : RunExpr(q, name) \/ RunExprFails(q, name)
        \/ es_jit[q].waiting # {} /\ RunExprCrashes(q)
  \/ EndQuery(q)

Stop == (\E Q \in SUBSET Live : AbortSub(Q)) \/ AbortTop \/ Exit

\* Everything: enableME may change while queries run.
Next == (\E q \in Queries : Use(q)) \/ Stop \/ SetEnableME
Spec == Init /\ [][Next]_vars

\* enableME only changes while no query is compiled.
NextQuiet == (\E q \in Queries : Use(q)) \/ Stop \/ (Live = {} /\ SetEnableME)
SpecQuiet == Init /\ [][NextQuiet]_vars

----------------------------------------------------------------------------
\* Type invariant of the module's variables.
TypeOK ==
  /\ enableME \in BOOLEAN
  /\ es_jit \in [Queries -> Context \cup {NoContext}]
  /\ llvm_generation \in Nat
  /\ emitted \subseteq Code
  /\ fatal_new_handler_depth \in Nat
  /\ failed \in Queries \cup {NoContext}
  /\ backend \in {"running", "exited", "crashed"}
  /\ shutdown \in BOOLEAN

\* llvm_expand_funcname makes names "non-conflicting": no function name of any
\* live context or emitted module occurs in two modules, or is handed out again.
\* Otherwise adding a module to an LLJIT instance fails, or a lookup finds the
\* code of another expression.
NamesUnique ==
  /\ \A q, r \in Live : \A t, u \in ModuleType :
       es_jit[q].modules[t] \cap es_jit[r].modules[u] # {} => q = r /\ t = u
  /\ \A q \in Live : \A t \in ModuleType : \A m \in emitted :
       es_jit[q].modules[t] \cap m.names = {}
  /\ \A m, n \in emitted : m.names \cap n.names # {} => m = n
  /\ \A q, r \in Live : FuncName(es_jit[q]) \notin es_jit[r].waiting \cup es_jit[r].resolved

\* llvm_get_function: "Return pointer to function funcname, which has to exist".
\* No first call of a compiled expression fails or kills the backend.
FunctionFound == failed = NoContext /\ backend # "crashed"

\* The code of a function whose address an ExprState holds is not removed while
\* its query is alive, whatever other queries release.
LiveCode ==
  backend = "running" =>
    \A q \in Live : \A name \in es_jit[q].resolved : \E m \in emitted : name \in m.names

\* llvm_create_context: a context's resources are cleaned up with it.  The code
\* in the optimising instance is always owned by a handle of a live context, so
\* a release reaches it, whatever was compiled beside it and with whichever
\* enableME (module_opt is the last module to overwrite the handle).
NoOrphans == \A m \in emitted : m.lljit = "opt3" => m \in HandlesOf(Live)

\* The same promise for both instances, once every context was released: no
\* emitted code is left.  It does not hold: module_inline overwrites the tracker
\* of module_jit in their handle.
CleanedUp == Live = {} => emitted = {}

\* llvm_shutdown: LLVM is shut down when the backend exits outside LLVM code.
\* It does not hold after a release, which never leaves the fatal section.
ShutDownAtExit == backend = "exited" => shutdown
============================================================================
