------------------------- MODULE LlvmContextProofs -------------------------
(***************************************************************************)
(* Function names never clash, for any number of queries, any levels and   *)
(* with enableME changing at any time.                                     *)
(*                                                                         *)
(* The argument: llvm_generation only grows, no two live contexts share a  *)
(* generation, and the counter of a context is above every index handed    *)
(* out under its generation.  So the next name is nowhere yet; emission    *)
(* moves whole modules, and a release only removes code.                   *)
(*                                                                         *)
(* The code in the optimising LLJIT instance never outlives its context:   *)
(* module_opt is the last module that overwrites the one handle of an      *)
(* emission, so the tracker of its code is never lost.                     *)
(***************************************************************************)
EXTENDS LlvmContext, FiniteSetTheorems, TLAPS

Names(c) == c.waiting \cup c.resolved

\* Everything the name of a new function must differ from.
Used(n) ==
  \/ \E q \in Live : n \in Names(es_jit[q])
  \/ \E m \in emitted : n \in m.names

\* The names of open modules are names of functions of their context.
OpenNamed ==
  \A q \in Live : \A t \in ModuleType : es_jit[q].modules[t] \subseteq Names(es_jit[q])

Generations ==
  /\ \A q \in Live : es_jit[q].module_generation < llvm_generation
  /\ \A q, r \in Live :
       es_jit[q].module_generation = es_jit[r].module_generation => q = r
  /\ \A n \in Name : Used(n) =>
       /\ n[1] < llvm_generation
       /\ \A q \in Live : n[1] = es_jit[q].module_generation => n[2] < es_jit[q].counter

\* Functions of different contexts have different names.
Apart == \A q, r \in Live : Names(es_jit[q]) \cap Names(es_jit[r]) # {} => q = r

ModulesApart ==
  /\ \A q \in Live : \A t, u \in ModuleType :
       es_jit[q].modules[t] \cap es_jit[q].modules[u] # {} => t = u
  /\ \A q \in Live : \A t \in ModuleType : \A m \in emitted :
       es_jit[q].modules[t] \cap m.names = {}
  /\ \A m, n \in emitted : m.names \cap n.names # {} => m = n

NamesInv == TypeOK /\ OpenNamed /\ Generations /\ Apart /\ ModulesApart

\* The inductive invariant implies that names are unique.
LEMMA NamesInvImplies == NamesInv => NamesUnique
<1> SUFFICES ASSUME NamesInv PROVE NamesUnique
  OBVIOUS
<1>1. ASSUME NEW q \in Live, NEW r \in Live, NEW t \in ModuleType, NEW u \in ModuleType,
             es_jit[q].modules[t] \cap es_jit[r].modules[u] # {}
      PROVE  q = r /\ t = u
  <2>1. q = r
    BY <1>1 DEF NamesInv, OpenNamed, Apart
  <2> QED BY <1>1, <2>1 DEF NamesInv, ModulesApart
<1>2. ASSUME NEW q \in Live, NEW r \in Live,
             FuncName(es_jit[q]) \in Names(es_jit[r])
      PROVE  FALSE
  <2> DEFINE n == FuncName(es_jit[q])
  <2>1. es_jit[q] \in Context /\ es_jit[r] \in Context
    BY DEF NamesInv, TypeOK, Live
  <2>2. n \in Name /\ n[1] = es_jit[q].module_generation /\ n[2] = es_jit[q].counter
    BY <2>1 DEF FuncName, Name, Context
  <2>3. Used(n)
    BY <1>2 DEF Used
  <2>4. es_jit[q].counter \in Nat
    BY <2>1 DEF Context
  <2> HIDE DEF n
  <2> QED BY <2>2, <2>3, <2>4 DEF NamesInv, Generations
<1> QED BY <1>1, <1>2 DEF NamesUnique, Names, NamesInv, ModulesApart

\* Initially there are no contexts and there is no code.
LEMMA NamesInit == Init => NamesInv
<1> SUFFICES ASSUME Init PROVE NamesInv
  OBVIOUS
<1>1. TypeOK /\ Live = {} /\ emitted = {}
  BY Zenon DEF Init, TypeOK, Live
<1> QED BY <1>1 DEF NamesInv, OpenNamed, Generations, Used, Apart, ModulesApart

----------------------------------------------------------------------------
(* What the operators of llvm_compile_expr and llvm_get_function return.   *)

\* llvm_create_context returns a context without functions.
LEMMA NewContextType ==
  ASSUME NEW flags \in LLJITs
  PROVE  /\ NewContext(flags) \in Context
         /\ NewContext(flags).counter = 0
         /\ Names(NewContext(flags)) = {}
         /\ \A t \in ModuleType : NewContext(flags).modules[t] = {}
         /\ NewContext(flags).handles = <<>>
         /\ NewContext(flags).levels = {}
<1>1. [t \in ModuleType |-> {}] \in [ModuleType -> SUBSET Name]
  OBVIOUS
<1>2. <<>> \in Seq(Handle)
  OBVIOUS
<1> QED BY <1>1, <1>2 DEF NewContext, Context, Names

\* Context d is context c with one more function, of generation g.
FunctionAdded(c, d, type, g) ==
  /\ d \in Context
  /\ g \in Nat
  /\ <<g, c.counter>> \in Name
  /\ d.module_generation = g
  /\ d.counter = c.counter + 1
  /\ d.waiting = c.waiting \cup {<<g, c.counter>>}
  /\ d.resolved = c.resolved
  /\ d.modules = [c.modules EXCEPT ![type] = @ \cup {<<g, c.counter>>}]
  /\ d.handles = c.handles
  /\ d.flags = c.flags
  /\ d.levels = c.levels \cup {type}
  /\ d.compiled = IF NewGeneration(c, type) THEN FALSE ELSE c.compiled

\* llvm_mutable_module(_select) and llvm_expand_funcname: a context is given
\* the next generation or keeps its own, and one function.
LEMMA AddedFunction ==
  ASSUME NEW c \in Context, NEW type \in ModuleType, llvm_generation \in Nat,
         NEW g, g = IF NewGeneration(c, type) THEN llvm_generation ELSE c.module_generation
  PROVE  FunctionAdded(c, AddFunction(MutableModule(c, type), type), type, g)
<1> DEFINE d == AddFunction(MutableModule(c, type), type)
<1> DEFINE c1 == MutableModule(c, type)
<1>1. /\ c1 \in Context
      /\ c1.module_generation = g
      /\ c1.compiled = IF NewGeneration(c, type) THEN FALSE ELSE c.compiled
      /\ c1.counter = c.counter /\ c1.waiting = c.waiting /\ c1.resolved = c.resolved
      /\ c1.modules = c.modules /\ c1.handles = c.handles /\ c1.flags = c.flags
      /\ c1.levels = c.levels
  <2>1. CASE NewGeneration(c, type)
    BY <2>1, Zenon DEF MutableModule, Context
  <2>2. CASE ~NewGeneration(c, type)
    BY <2>2 DEF MutableModule, Context
  <2> QED BY <2>1, <2>2, Zenon
<1>2. FuncName(c1) = <<g, c.counter>> /\ FuncName(c1) \in Name /\ g \in Nat
  BY <1>1 DEF FuncName, Name, Context
<1> HIDE DEF c1
<1>3. d = AddFunction(c1, type)
  BY DEF c1
<1> HIDE DEF d
<1> DEFINE n == <<g, c.counter>>
           mods == [c.modules EXCEPT ![type] = @ \cup {n}]
<1>4. d = [c1 EXCEPT !.counter = c.counter + 1, !.modules = mods,
                     !.waiting = c.waiting \cup {n}, !.levels = c.levels \cup {type}]
  BY <1>1, <1>2, <1>3, Zenon DEF AddFunction, Context
<1>5. n \in Name
  BY <1>2
<1>6. mods \in [ModuleType -> SUBSET Name]
  BY <1>5 DEF Context
<1> HIDE DEF n, mods
<1>7. d \in Context
  <2> DEFINE rec == [flags |-> c1.flags, module_generation |-> c1.module_generation,
                     counter |-> c.counter + 1, compiled |-> c1.compiled, modules |-> mods,
                     handles |-> c1.handles, waiting |-> c.waiting \cup {n},
                     resolved |-> c1.resolved, levels |-> c.levels \cup {type}]
  <2>1. d = rec
    BY <1>1, <1>4, Zenon DEF Context
  <2>2. /\ c1 \in Context
        /\ c.counter + 1 \in Nat
        /\ c.waiting \cup {n} \subseteq Name
        /\ c.levels \cup {type} \subseteq ModuleType
    BY <1>1, <1>5 DEF Context
  <2>3. rec \in Context
    BY <2>2, <1>6 DEF Context
  <2> QED BY <2>1, <2>3
<1>8. /\ d.counter = c.counter + 1 /\ d.modules = mods /\ d.waiting = c.waiting \cup {n}
      /\ d.levels = c.levels \cup {type} /\ d.module_generation = c1.module_generation
      /\ d.resolved = c1.resolved /\ d.handles = c1.handles /\ d.flags = c1.flags
      /\ d.compiled = c1.compiled
  BY <1>1, <1>4, Zenon DEF Context
<1>9. FunctionAdded(c, d, type, g)
  BY <1>1, <1>2, <1>7, <1>8 DEF n, mods, FunctionAdded
<1> QED BY <1>9 DEF d

\* Of a non-empty set of per-level modules one is added last.
LEMMA LastOpen ==
  ASSUME NEW c \in Context, MEOpen(c) # {}
  PROVE  MEHandle(c) \in MEAdded(c)
<1>1. MEOpen(c) \subseteq {1, 2, 3}
  BY DEF MEOpen, ModuleType, MODULE_DEF
<1>2. \E t \in MEOpen(c) : \A u \in MEOpen(c) : u <= t
  <2>1. CASE 3 \in MEOpen(c)
    BY <2>1, <1>1
  <2>2. CASE 3 \notin MEOpen(c) /\ 2 \in MEOpen(c)
    BY <2>2, <1>1
  <2>3. CASE 3 \notin MEOpen(c) /\ 2 \notin MEOpen(c)
    BY <2>3, <1>1
  <2> QED BY <2>1, <2>2, <2>3
<1> DEFINE last == CHOOSE t \in MEOpen(c) : \A u \in MEOpen(c) : u <= t
<1>3. last \in MEOpen(c)
  BY <1>2
<1>4. MEHandle(c) = CodeOf(TargetOf(last), c, last)
  BY DEF MEHandle
<1> HIDE DEF last
<1> QED BY <1>3, <1>4 DEF MEAdded

\* Context d is context c after the code A of some open modules was emitted.
Emission(c, d, A) ==
  /\ d \in Context
  /\ A \subseteq Code
  /\ d.module_generation = c.module_generation
  /\ d.counter = c.counter
  /\ d.waiting = c.waiting
  /\ d.resolved = c.resolved
  /\ d.flags = c.flags
  /\ d.levels = c.levels
  /\ d.compiled = TRUE
  /\ \A t \in ModuleType : d.modules[t] = {} \/ d.modules[t] = c.modules[t]
  /\ \A m \in A : \E t \in ModuleType :
       /\ m = CodeOf(IF enableME THEN TargetOf(t) ELSE c.flags, c, t)
       /\ d.modules[t] = {}

\* The code of an open module is well typed.
LEMMA CodeType ==
  ASSUME NEW c \in Context, NEW t \in ModuleType, NEW lljit \in LLJITs
  PROVE  CodeOf(lljit, c, t) \in Code
BY DEF CodeOf, Code, Context

\* me_llvm_compile_module and llvm_compile_module emit whole modules.
LEMMA EmissionFacts ==
  ASSUME NEW c \in Context, enableME \in BOOLEAN
  PROVE  Emission(c, Compiled(c), Added(c))
<1>0. MODULE_DEF \in ModuleType /\ c.flags \in LLJITs /\ c.compiled \in BOOLEAN
  BY DEF MODULE_DEF, ModuleType, Context
<1>1. CASE c.compiled
  BY <1>1, <1>0 DEF Emission, Compiled, Added
<1>2. CASE ~c.compiled /\ enableME
  <2> DEFINE mods == [t \in ModuleType |-> {}]
             hs == Append(c.handles, MEHandle(c))
  <2>1. MEAdded(c) \subseteq Code
    BY CodeType DEF MEAdded, MEOpen, TargetOf, LLJITs
  <2>2. MEHandle(c) \in Handle
    <3>1. CASE MEOpen(c) = {}
      BY <3>1 DEF MEHandle, Handle
    <3>2. CASE MEOpen(c) # {}
      BY <3>2, <2>1, LastOpen DEF Handle
    <3> QED BY <3>1, <3>2
  <2>3. hs \in Seq(Handle)
    BY <2>2 DEF Context
  <2>4. mods \in [ModuleType -> SUBSET Name] /\ \A t \in ModuleType : mods[t] = {}
    OBVIOUS
  <2>5. Compiled(c) = [c EXCEPT !.compiled = TRUE, !.handles = hs, !.modules = mods]
    BY <1>2 DEF Compiled, MECompile
  <2> HIDE DEF hs, mods
  <2> DEFINE rec == [flags |-> c.flags, module_generation |-> c.module_generation,
                     counter |-> c.counter, compiled |-> TRUE, modules |-> mods,
                     handles |-> hs, waiting |-> c.waiting, resolved |-> c.resolved,
                     levels |-> c.levels]
  <2>6. Compiled(c) = rec
    BY <2>5, Zenon DEF Context
  <2>7. rec \in Context
    BY <2>3, <2>4 DEF Context
  <2>8. \A m \in Added(c) : \E t \in ModuleType :
          m = CodeOf(IF enableME THEN TargetOf(t) ELSE c.flags, c, t)
    BY <1>2 DEF Added, MEAdded, MEOpen
  <2>9. Added(c) \subseteq Code
    BY <1>2, <2>1 DEF Added
  <2> QED BY <2>4, <2>6, <2>7, <2>8, <2>9 DEF Emission
<1>3. CASE ~c.compiled /\ ~enableME
  <2> DEFINE mods == [c.modules EXCEPT ![MODULE_DEF] = {}]
             h == CodeOf(c.flags, c, MODULE_DEF)
             hs == Append(c.handles, h)
  <2>1. h \in Code
    BY <1>0, CodeType
  <2>2. hs \in Seq(Handle)
    BY <2>1 DEF Context, Handle
  <2>3. /\ mods \in [ModuleType -> SUBSET Name]
        /\ \A t \in ModuleType : mods[t] = {} \/ mods[t] = c.modules[t]
        /\ mods[MODULE_DEF] = {}
    BY <1>0 DEF Context
  <2>4. Compiled(c) = [c EXCEPT !.compiled = TRUE, !.handles = hs, !.modules = mods]
    BY <1>3, <1>0 DEF Compiled, PlainCompile, Context
  <2>5. Added(c) = {h}
    BY <1>3 DEF Added, PlainAdded
  <2> HIDE DEF hs, mods
  <2> DEFINE rec == [flags |-> c.flags, module_generation |-> c.module_generation,
                     counter |-> c.counter, compiled |-> TRUE, modules |-> mods,
                     handles |-> hs, waiting |-> c.waiting, resolved |-> c.resolved,
                     levels |-> c.levels]
  <2>6. Compiled(c) = rec
    BY <2>4, Zenon DEF Context
  <2>7. rec \in Context
    BY <2>2, <2>3 DEF Context
  <2>8. Added(c) \subseteq Code
    BY <2>1, <2>5
  <2>9. \A m \in Added(c) :
          /\ m = CodeOf(IF enableME THEN TargetOf(MODULE_DEF) ELSE c.flags, c, MODULE_DEF)
          /\ mods[MODULE_DEF] = {}
    BY <1>3, <2>5, <2>3
  <2> QED BY <1>0, <2>3, <2>6, <2>7, <2>8, <2>9 DEF Emission
<1> QED BY <1>0, <1>1, <1>2, <1>3

\* ExecRunCompiledExpr replaces the call through the context by the address.
LEMMA ResolvedContext ==
  ASSUME NEW c \in Context, NEW name \in Name, name \in c.waiting,
         NEW d, d = Resolve(c, name)
  PROVE  /\ d \in Context
         /\ Names(d) = Names(c)
         /\ d.modules = c.modules
         /\ d.module_generation = c.module_generation
         /\ d.counter = c.counter
         /\ d.waiting = c.waiting \ {name}
         /\ d.resolved = c.resolved \cup {name}
         /\ d.handles = c.handles
         /\ d.flags = c.flags
         /\ d.levels = c.levels
         /\ d.compiled = c.compiled
<1> DEFINE rec == [flags |-> c.flags, module_generation |-> c.module_generation,
                   counter |-> c.counter, compiled |-> c.compiled, modules |-> c.modules,
                   handles |-> c.handles, waiting |-> c.waiting \ {name},
                   resolved |-> c.resolved \cup {name}, levels |-> c.levels]
<1>1. d = rec
  BY Zenon DEF Context, Resolve
<1>2. rec \in Context
  BY DEF Context
<1>3. Names(rec) = Names(c)
  BY DEF Names
<1> QED BY <1>1, <1>2, <1>3

----------------------------------------------------------------------------
(***************************************************************************)
(* Every function is found, and code in use is never removed, as long as   *)
(* no query mixes level 3 with levels 1 and 2 and enableME does not change *)
(* while queries run.                                                      *)
(*                                                                         *)
(* The argument: such a query sends all its code to one LLJIT instance,    *)
(* its home, so asking only the first handle is enough; and a handle only  *)
(* owns functions of its own context, so a release takes nothing away from *)
(* the others.                                                             *)
(***************************************************************************)

\* The levels the level search gives to one query.
SearchWorkload ==
  /\ \A L \in MELevels : L \subseteq {1, 2} \/ L \subseteq {3}
  /\ \A L \in PlainLevels : L \subseteq {0}

\* The instance all code of a context belongs to; me is the setting enableME.
Home(c, me) == IF me THEN IF 3 \in c.levels THEN "opt3" ELSE "opt0" ELSE c.flags

LevelsOK(c, me) ==
  /\ c.levels # {}
  /\ me => c.levels \subseteq {1, 2} \/ c.levels \subseteq {3}
  /\ ~me => c.levels \subseteq {0}

\* Open modules are of the context's levels, and there are some exactly when
\* the context is not marked as compiled.
OpenOK(c) ==
  /\ \A t \in ModuleType : c.modules[t] # {} => t \in c.levels
  /\ c.compiled => c.handles # <<>> /\ \A t \in ModuleType : c.modules[t] = {}
  /\ ~c.compiled => \E t \in ModuleType : c.modules[t] # {}

HandlesOK(c, me) ==
  \A i \in DOMAIN c.handles :
    /\ c.handles[i] \in Code
    /\ c.handles[i].lljit = Home(c, me)
    /\ c.handles[i].names \subseteq Names(c)

\* Function n is in code E of the given instance.
In(E, lljit, n) == \E m \in E : m.lljit = lljit /\ n \in m.names

\* A function waits in an open module or is emitted at home.
CodeOK(c, me, E) ==
  /\ \A n \in Names(c) : In(E, Home(c, me), n) \/ \E t \in ModuleType : n \in c.modules[t]
  /\ \A n \in c.resolved : In(E, Home(c, me), n)

ContextOK(c, me, E) ==
  LevelsOK(c, me) /\ OpenOK(c) /\ HandlesOK(c, me) /\ CodeOK(c, me, E)

SearchInv ==
  /\ NamesInv
  /\ FunctionFound
  /\ \A q \in Live : ContextOK(es_jit[q], enableME, emitted)

\* The invariant implies that code in use is there.
LEMMA SearchInvImplies == SearchInv => LiveCode
BY DEF SearchInv, ContextOK, CodeOK, In, LiveCode

LEMMA SearchInit == Init => SearchInv
<1> SUFFICES ASSUME Init PROVE SearchInv
  OBVIOUS
<1>1. Live = {}
  BY DEF Init, Live
<1>2. FunctionFound
  BY DEF Init, FunctionFound
<1> QED BY <1>1, <1>2, NamesInit DEF SearchInv

----------------------------------------------------------------------------
(* What becomes of one context.                                            *)

\* A context stays in order when the code of its functions is not removed.
LEMMA SameContext ==
  ASSUME NEW c, NEW me, NEW E, NEW F, ContextOK(c, me, E),
         \A m \in E : \A n \in Names(c) : n \in m.names => m \in F
  PROVE  ContextOK(c, me, F)
<1>1. c.resolved \subseteq Names(c)
  BY DEF Names
<1>2. CodeOK(c, me, F)
  BY <1>1 DEF ContextOK, CodeOK, In
<1> QED BY <1>2 DEF ContextOK

\* A function added to a context keeps it in order: a compiled context has no
\* open module, so it is marked as not compiled.
LEMMA AddedOK ==
  ASSUME NEW c \in Context, NEW d, NEW type \in ModuleType, NEW g, NEW E,
         NEW me \in BOOLEAN,
         FunctionAdded(c, d, type, g),
         LevelsOK(d, me),
         \/ ContextOK(c, me, E)
         \/ /\ Names(c) = {} /\ c.handles = <<>> /\ NewGeneration(c, type)
            /\ \A t \in ModuleType : c.modules[t] = {}
  PROVE  ContextOK(d, me, E)
<1> DEFINE n == <<g, c.counter>>
<1>1. /\ Names(d) = Names(c) \cup {n}
      /\ n \in d.modules[type]
      /\ \A t \in ModuleType : c.modules[t] \subseteq d.modules[t]
      /\ \A t \in ModuleType : t # type => d.modules[t] = c.modules[t]
      /\ d.handles = c.handles /\ d.resolved = c.resolved /\ d.flags = c.flags
      /\ d.levels = c.levels \cup {type}
      /\ d.compiled = IF NewGeneration(c, type) THEN FALSE ELSE c.compiled
      /\ c.resolved \subseteq Names(c)
  BY DEF FunctionAdded, Names, Context
<1> HIDE DEF n
<1>2. ~d.compiled
  <2>1. CASE ContextOK(c, me, E) /\ c.compiled
    <3>1. NewGeneration(c, type)
      BY <2>1 DEF ContextOK, OpenOK, NewGeneration, MODULE_DEF, ModuleType
    <3> QED BY <3>1, <1>1
  <2>2. CASE ~c.compiled \/ NewGeneration(c, type)
    BY <2>2, <1>1
  <2> QED BY <2>1, <2>2
<1>3. OpenOK(d)
  <2>1. \A t \in ModuleType : d.modules[t] # {} => t \in d.levels
    BY <1>1 DEF ContextOK, OpenOK
  <2> QED BY <2>1, <1>1, <1>2 DEF OpenOK
<1>4. CASE ContextOK(c, me, E)
  <2>1. Home(d, me) = Home(c, me)
    <3>1. me => (3 \in d.levels <=> 3 \in c.levels)
      BY <1>1, <1>4 DEF ContextOK, LevelsOK
    <3> QED BY <3>1, <1>1 DEF Home
  <2>2. HandlesOK(d, me)
    BY <2>1, <1>1, <1>4 DEF ContextOK, HandlesOK
  <2>3. CodeOK(d, me, E)
    BY <2>1, <1>1, <1>4 DEF ContextOK, CodeOK
  <2> QED BY <2>2, <2>3, <1>3 DEF ContextOK
<1>5. CASE Names(c) = {} /\ c.handles = <<>>
  <2>1. HandlesOK(d, me)
    BY <1>1, <1>5 DEF HandlesOK
  <2>2. CodeOK(d, me, E)
    BY <1>1, <1>5 DEF CodeOK
  <2> QED BY <2>1, <2>2, <1>3 DEF ContextOK
<1> QED BY <1>4, <1>5

\* The elements of a list are those it had and the one appended.
LEMMA AppendElements ==
  ASSUME NEW S, NEW s \in Seq(S), NEW x \in S
  PROVE  /\ Append(s, x) # <<>>
         /\ \A i \in DOMAIN Append(s, x) :
              Append(s, x)[i] = x \/ (i \in DOMAIN s /\ Append(s, x)[i] = s[i])
<1>1. /\ Append(s, x) \in Seq(S) /\ Len(Append(s, x)) = Len(s) + 1 /\ Len(s) \in Nat
      /\ Append(s, x)[Len(s) + 1] = x
      /\ \A i \in 1 .. Len(s) : Append(s, x)[i] = s[i]
  OBVIOUS
<1>2. DOMAIN s = 1 .. Len(s) /\ DOMAIN Append(s, x) = 1 .. Len(s) + 1
  BY <1>1
<1>3. Append(s, x) # <<>>
  BY <1>1
<1>4. ASSUME NEW i \in DOMAIN Append(s, x)
      PROVE  Append(s, x)[i] = x \/ (i \in DOMAIN s /\ Append(s, x)[i] = s[i])
  <2>1. i = Len(s) + 1 \/ i \in 1 .. Len(s)
    BY <1>1, <1>2
  <2>2. CASE i = Len(s) + 1
    BY <1>1, <2>2, Zenon
  <2>3. CASE i \in 1 .. Len(s)
    BY <1>1, <1>2, <2>3
  <2> QED BY <2>1, <2>2, <2>3
<1> QED BY <1>3, <1>4, Zenon

\* A handle appended to the list is as good as the ones before it.
LEMMA AppendedOK ==
  ASSUME NEW c \in Context, NEW d, NEW me, NEW x \in Code, HandlesOK(c, me),
         d.handles = Append(c.handles, x), Names(d) = Names(c),
         Home(d, me) = Home(c, me), x.lljit = Home(c, me), x.names \subseteq Names(c)
  PROVE  HandlesOK(d, me) /\ d.handles # <<>>
<1>1. c.handles \in Seq(Handle) /\ x \in Handle
  BY DEF Context, Handle
<1>2. /\ d.handles # <<>>
      /\ \A i \in DOMAIN d.handles :
           d.handles[i] = x \/ (i \in DOMAIN c.handles /\ d.handles[i] = c.handles[i])
  BY <1>1, AppendElements
<1>3. HandlesOK(d, me)
  BY <1>2 DEF HandlesOK
<1> QED BY <1>2, <1>3

ModulesNamed(c) == \A t \in ModuleType : c.modules[t] \subseteq Names(c)

\* Context d, of context c, has all its functions in code F, and asks there.
WellEmitted(c, d, me, F) ==
  /\ ContextOK(d, me, F)
  /\ d.handles # <<>>
  /\ \A n \in Names(c) : In(F, Home(c, me), n)

\* Emission sends every open module home and empties the context's modules.
LEMMA EmittedOK ==
  ASSUME NEW c \in Context, NEW E, enableME \in BOOLEAN, ContextOK(c, enableME, E),
         ModulesNamed(c)
  PROVE  WellEmitted(c, Compiled(c), enableME, E \cup Added(c)) /\ ~NullModule(c)
<1> DEFINE d == Compiled(c)
           F == E \cup Added(c)
           h == Home(c, enableME)
<1>m. \A t \in ModuleType : c.modules[t] \subseteq Names(c)
  BY DEF ModulesNamed
<1>1. Emission(c, d, Added(c))
  BY EmissionFacts
<1>2. /\ d \in Context
      /\ Names(d) = Names(c) /\ d.resolved = c.resolved /\ d.levels = c.levels
      /\ d.compiled = TRUE
      /\ Home(d, enableME) = h
  BY <1>1 DEF Emission, Names, Home
<1>3. LevelsOK(c, enableME) /\ OpenOK(c) /\ HandlesOK(c, enableME) /\ CodeOK(c, enableME, E)
  BY DEF ContextOK
<1>b. c.compiled \in BOOLEAN
  BY DEF Context
<1>4. ~NullModule(c)
  <2> SUFFICES ASSUME ~c.compiled, ~enableME, c.modules[0] = {} PROVE FALSE
    BY DEF NullModule, MODULE_DEF
  <2>1. PICK t \in ModuleType : c.modules[t] # {}
    BY <1>3 DEF OpenOK
  <2>2. t = 0
    BY <2>1, <1>3 DEF OpenOK, LevelsOK
  <2> QED BY <2>1, <2>2
<1>5. /\ \A t \in ModuleType : d.modules[t] = {}
      /\ d.handles # <<>>
      /\ HandlesOK(d, enableME)
      /\ \A t \in ModuleType : \A n \in c.modules[t] : In(Added(c), h, n)
  <2>1. CASE c.compiled
    <3>1. d = c
      BY <2>1 DEF Compiled
    <3> QED BY <2>1, <3>1, <1>3 DEF OpenOK
  <2>2. CASE ~c.compiled /\ enableME
    <3>1. PICK t0 \in ModuleType : c.modules[t0] # {}
      BY <2>2, <1>3 DEF OpenOK
    <3>2. \A t \in ModuleType : c.modules[t] # {} => t \in MEOpen(c) /\ TargetOf(t) = h
      <4> SUFFICES ASSUME NEW t \in ModuleType, c.modules[t] # {}
                   PROVE  t \in MEOpen(c) /\ TargetOf(t) = h
        OBVIOUS
      <4>1. t \in c.levels
        BY <1>3 DEF OpenOK
      <4>2. c.levels \subseteq {1, 2} \/ c.levels \subseteq {3}
        BY <2>2, <1>3 DEF LevelsOK
      <4>3. t # 0 /\ (t = 3 <=> 3 \in c.levels)
        BY <4>1, <4>2
      <4> QED BY <2>2, <4>3 DEF MEOpen, TargetOf, Home, MODULE_DEF, MODULE_OPT
    <3>3. MEHandle(c) \in MEAdded(c)
      BY <3>1, <3>2, LastOpen
    <3>4. PICK t \in MEOpen(c) : MEHandle(c) = CodeOf(TargetOf(t), c, t)
      BY <3>3 DEF MEAdded
    <3>5. t \in ModuleType /\ TargetOf(t) = h /\ h \in LLJITs
      BY <3>2 DEF MEOpen, TargetOf, LLJITs
    <3>6. /\ MEHandle(c) \in Code
          /\ MEHandle(c).lljit = h
          /\ MEHandle(c).names = c.modules[t]
      BY <3>4, <3>5, CodeType DEF CodeOf
    <3>7. d.handles = Append(c.handles, MEHandle(c)) /\ d.modules = [u \in ModuleType |-> {}]
      BY <2>2, Zenon DEF Compiled, MECompile, Context
    <3>8. \A u \in ModuleType : d.modules[u] = {}
      BY <3>7
    <3>9. HandlesOK(d, enableME) /\ d.handles # <<>>
      BY <3>5, <3>6, <3>7, <1>2, <1>3, <1>m, AppendedOK, Zenon
    <3>10. Added(c) = MEAdded(c)
      BY <2>2 DEF Added
    <3>11. ASSUME NEW u \in ModuleType, NEW n \in c.modules[u]
           PROVE  In(Added(c), h, n)
      <4>1. u \in MEOpen(c) /\ TargetOf(u) = h
        BY <3>2, <3>11
      <4>2. CodeOf(h, c, u) \in Added(c)
        BY <4>1, <3>10 DEF MEAdded
      <4> QED BY <4>2 DEF In, CodeOf
    <3> QED BY <3>8, <3>9, <3>11
  <2>3. CASE ~c.compiled /\ ~enableME
    <3> DEFINE x == CodeOf(c.flags, c, MODULE_DEF)
    <3>1. MODULE_DEF \in ModuleType /\ c.flags \in LLJITs /\ h = c.flags
      BY <2>3 DEF MODULE_DEF, ModuleType, Context, Home
    <3>2. x \in Code /\ x.lljit = h /\ x.names = c.modules[MODULE_DEF]
      BY <3>1, CodeType DEF CodeOf
    <3>3. /\ d.handles = Append(c.handles, x)
          /\ d.modules = [c.modules EXCEPT ![MODULE_DEF] = {}]
      BY <2>3, Zenon DEF Compiled, PlainCompile, Context
    <3>4. \A t \in ModuleType : c.modules[t] # {} => t = MODULE_DEF
      BY <2>3, <1>3 DEF OpenOK, LevelsOK, MODULE_DEF
    <3>5. \A u \in ModuleType : d.modules[u] = {}
      BY <3>1, <3>3, <3>4 DEF Context
    <3>6. HandlesOK(d, enableME) /\ d.handles # <<>>
      BY <3>1, <3>2, <3>3, <1>2, <1>3, <1>m, AppendedOK, ZenonT(30)
    <3>7. Added(c) = {x}
      BY <2>3 DEF Added, PlainAdded
    <3>8. \A u \in ModuleType : \A n \in c.modules[u] : In(Added(c), h, n)
      BY <3>2, <3>4, <3>7 DEF In
    <3> QED BY <3>5, <3>6, <3>8
  <2> QED BY <1>b, <2>1, <2>2, <2>3
<1>6. \A n \in Names(c) : In(F, h, n)
  BY <1>3, <1>5 DEF CodeOK, In
<1>7. CodeOK(d, enableME, F)
  BY <1>2, <1>3, <1>6 DEF CodeOK, In
<1>8. OpenOK(d)
  BY <1>2, <1>5 DEF OpenOK
<1>9. LevelsOK(d, enableME)
  BY <1>2, <1>3 DEF LevelsOK
<1> QED BY <1>4, <1>5, <1>6, <1>7, <1>8, <1>9, Zenon DEF ContextOK, WellEmitted

----------------------------------------------------------------------------
(* The steps.                                                              *)

\* llvm_compile_expr leaves the other contexts alone.
LEMMA SearchCompile ==
  ASSUME SearchWorkload, SearchInv, NEW q \in Queries, NEW type \in ModuleType,
         CompileExpr(q, type)
  PROVE  \A r \in Live' : ContextOK(es_jit'[r], enableME', emitted')
<1>t. TypeOK
  BY DEF SearchInv, NamesInv
<1>1. PICK flags \in Flags(type) :
        LET c == IF es_jit[q] = NoContext THEN NewContext(flags) ELSE es_jit[q]
        IN  /\ \E L \in IF enableME THEN MELevels ELSE PlainLevels :
                 c.levels \cup {type} \subseteq L
            /\ es_jit' = [es_jit EXCEPT ![q] = AddFunction(MutableModule(c, type), type)]
  BY Zenon DEF CompileExpr
<1>2. flags \in LLJITs
  BY <1>1 DEF Flags, LLJITs
<1> DEFINE c == IF es_jit[q] = NoContext THEN NewContext(flags) ELSE es_jit[q]
           d == AddFunction(MutableModule(c, type), type)
           g == IF NewGeneration(c, type) THEN llvm_generation ELSE c.module_generation
<1>3. /\ es_jit' = [es_jit EXCEPT ![q] = d] /\ emitted' = emitted /\ enableME' = enableME
      /\ \E L \in IF enableME THEN MELevels ELSE PlainLevels : c.levels \cup {type} \subseteq L
  BY <1>1, Zenon DEF CompileExpr
<1>4. c \in Context
  BY <1>t, <1>2, NewContextType DEF TypeOK
<1>5. \/ ContextOK(c, enableME, emitted)
      \/ /\ Names(c) = {} /\ c.handles = <<>> /\ NewGeneration(c, type)
         /\ \A t \in ModuleType : c.modules[t] = {}
  <2>1. CASE q \in Live
    BY <2>1 DEF SearchInv, Live
  <2>2. CASE q \notin Live
    <3>1. c = NewContext(flags)
      BY <2>2 DEF Live
    <3>2. 0 \in ModuleType
      BY DEF ModuleType
    <3> QED BY <3>1, <3>2, <1>2, NewContextType DEF NewGeneration, MODULE_DEF
  <2> QED BY <2>1, <2>2, Zenon
<1>6. FunctionAdded(c, d, type, g)
  BY <1>4, <1>t, AddedFunction DEF TypeOK
<1> HIDE DEF c, d, g
<1>7. d.levels = c.levels \cup {type}
  BY <1>6 DEF FunctionAdded
<1>8. LevelsOK(d, enableME)
  BY <1>3, <1>7 DEF LevelsOK, SearchWorkload
<1>9. enableME \in BOOLEAN
  BY <1>t DEF TypeOK
<1>10. ContextOK(d, enableME, emitted)
  BY <1>4, <1>5, <1>6, <1>8, <1>9, AddedOK
<1> SUFFICES ASSUME NEW r \in Live' PROVE ContextOK(es_jit'[r], enableME', emitted')
  OBVIOUS
<1>11. CASE r = q
  BY <1>3, <1>10, <1>11, <1>t DEF TypeOK
<1>12. CASE r # q
  <2>1. r \in Live /\ es_jit'[r] = es_jit[r]
    BY <1>3, <1>12, <1>t DEF TypeOK, Live
  <2> QED BY <2>1, <1>3 DEF SearchInv
<1> QED BY <1>11, <1>12

\* The first call of a compiled expression: the code is emitted at home, where
\* the lookup asks for it.
LEMMA SearchRun ==
  ASSUME SearchInv, NEW q \in Live, NEW name \in es_jit[q].waiting
  PROVE  /\ RunExpr(q, name) => \A r \in Live' : ContextOK(es_jit'[r], enableME', emitted')
         /\ ~RunExprFails(q, name)
         /\ ~RunExprCrashes(q)
<1> DEFINE c == es_jit[q]
           d == Compiled(c)
           F == emitted \cup Added(c)
<1>t. TypeOK
  BY DEF SearchInv, NamesInv
<1>1. c \in Context /\ q \in Queries /\ enableME \in BOOLEAN
  BY <1>t DEF TypeOK, Live
<1>2. /\ ContextOK(d, enableME, F)
      /\ d.handles # <<>>
      /\ \A n \in Names(c) : In(F, Home(c, enableME), n)
      /\ ~NullModule(c)
  <2>1. ContextOK(c, enableME, emitted)
    BY DEF SearchInv
  <2>2. ModulesNamed(c)
    BY DEF SearchInv, NamesInv, OpenNamed, ModulesNamed
  <2>3. WellEmitted(c, d, enableME, F) /\ ~NullModule(c)
    BY <1>1, <2>1, <2>2, EmittedOK
  <2> QED BY <2>3, Zenon DEF WellEmitted
<1>3. /\ d \in Context /\ Names(d) = Names(c) /\ d.waiting = c.waiting
      /\ Home(d, enableME) = Home(c, enableME)
  <2>1. Emission(c, d, Added(c))
    BY <1>1, EmissionFacts
  <2> HIDE DEF c, d, F
  <2> QED BY <2>1 DEF Emission, Names, Home
<1>n. name \in c.waiting
  OBVIOUS
<1> HIDE DEF c, d, F
<1>4. name \in Name /\ name \in d.waiting /\ name \in Names(c)
  BY <1>n, <1>1, <1>3 DEF Context, Names
<1>5. d.handles[1] \in Code /\ d.handles[1].lljit = Home(c, enableME)
  <2>1. d.handles \in Seq(Handle)
    BY <1>3 DEF Context
  <2>2. 1 \in DOMAIN d.handles
    BY <2>1, <1>2
  <2> QED BY <2>2, <1>2, <1>3 DEF ContextOK, HandlesOK
<1>6. d.handles[1] # Uninit
  BY <1>5 DEF Code, Uninit, LLJITs
<1>7. Asked(d) = {Home(c, enableME)}
  BY <1>5, <1>6 DEF Asked
<1>8. ~RunExprFails(q, name)
  <2> SUFFICES ASSUME RunExprFails(q, name) PROVE FALSE
    OBVIOUS
  <2>1. \E lljit \in Asked(d) : ~Found(lljit, F, name)
    BY DEF RunExprFails, c, d, F
  <2>2. Found(Home(c, enableME), F, name)
    BY <1>2, <1>4 DEF Found, In
  <2> QED BY <2>1, <2>2, <1>7
<1>9. ~RunExprCrashes(q)
  BY <1>2, <1>6, Zenon DEF RunExprCrashes, c, d
<1>10. ASSUME RunExpr(q, name), NEW r \in Live'
       PROVE  ContextOK(es_jit'[r], enableME', emitted')
  <2>1. /\ es_jit' = [es_jit EXCEPT ![q] = Resolve(d, name)]
        /\ emitted' = F /\ enableME' = enableME
    BY <1>10 DEF RunExpr, c, d, F
  <2>2. CASE r # q
    <3>1. r \in Live /\ es_jit'[r] = es_jit[r]
      BY <2>1, <2>2, <1>t DEF TypeOK, Live
    <3>2. ContextOK(es_jit[r], enableME, emitted)
      BY <3>1 DEF SearchInv
    <3>3. ContextOK(es_jit[r], enableME, F)
      BY <3>2, SameContext DEF F
    <3> QED BY <2>1, <3>1, <3>3
  <2>3. CASE r = q
    <3> DEFINE e == Resolve(d, name)
    <3>1. /\ Names(e) = Names(d) /\ e.modules = d.modules /\ e.handles = d.handles
          /\ e.resolved = d.resolved \cup {name} /\ e.flags = d.flags
          /\ e.levels = d.levels /\ e.compiled = d.compiled
      BY <1>3, <1>4, ResolvedContext
    <3> HIDE DEF e
    <3>2. Home(e, enableME) = Home(d, enableME)
      BY <3>1 DEF Home
    <3>3. LevelsOK(e, enableME) /\ OpenOK(e) /\ HandlesOK(e, enableME)
      BY <3>1, <3>2, <1>2 DEF ContextOK, LevelsOK, OpenOK, HandlesOK
    <3>4. CodeOK(e, enableME, F)
      BY <3>1, <3>2, <1>2, <1>3, <1>4, Zenon DEF ContextOK, CodeOK
    <3>5. es_jit'[q] = e
      BY <2>1, <1>t, <1>1 DEF TypeOK, e
    <3> QED BY <2>1, <2>3, <3>3, <3>4, <3>5 DEF ContextOK
  <2> QED BY <2>2, <2>3
<1> QED BY <1>8, <1>9, <1>10

\* llvm_release_context removes no code of a context that stays.
LEMMA SearchRelease ==
  ASSUME SearchInv, NEW Q \in SUBSET Live, Release(Q), enableME' = enableME
  PROVE  \A r \in Live' : ContextOK(es_jit'[r], enableME', emitted')
<1>t. TypeOK
  BY DEF SearchInv, NamesInv
<1>1. \A h \in HandlesOf(Q) : h \in Code /\ \E q \in Q : h.names \subseteq Names(es_jit[q])
  BY DEF HandlesOf, SearchInv, ContextOK, HandlesOK
<1>2. Uninit \notin HandlesOf(Q)
  BY <1>1 DEF Code, Uninit, LLJITs
<1>3. emitted' = emitted \ HandlesOf(Q)
  BY <1>2 DEF Release, Removed
<1> SUFFICES ASSUME NEW r \in Live' PROVE ContextOK(es_jit'[r], enableME', emitted')
  OBVIOUS
<1>4. r \in Live /\ r \notin Q /\ es_jit'[r] = es_jit[r]
  BY <1>t DEF Release, Live, TypeOK
<1>5. ASSUME NEW m \in emitted, NEW n \in Names(es_jit[r]), n \in m.names
      PROVE  m \in emitted'
  <2>1. CASE m \in HandlesOf(Q)
    <3>1. PICK q \in Q : n \in Names(es_jit[q])
      BY <1>1, <1>5, <2>1
    <3>2. q = r
      BY <3>1, <1>4, <1>5 DEF SearchInv, NamesInv, Apart
    <3> QED BY <3>2, <1>4
  <2> QED BY <2>1, <1>3
<1>6. ContextOK(es_jit[r], enableME, emitted)
  BY <1>4 DEF SearchInv
<1>7. ContextOK(es_jit[r], enableME, emitted')
  BY <1>5, <1>6, SameContext
<1> QED BY <1>4, <1>7

----------------------------------------------------------------------------
(* The names: one lemma per action that touches contexts or code.          *)

\* llvm_compile_expr gives the function a name that is used nowhere.
LEMMA NamesCompile ==
  ASSUME NamesInv, NEW q \in Queries, NEW type \in ModuleType, CompileExpr(q, type)
  PROVE  NamesInv'
<1>1. PICK flags \in Flags(type) :
        LET c == IF es_jit[q] = NoContext THEN NewContext(flags) ELSE es_jit[q]
        IN  /\ es_jit' = [es_jit EXCEPT ![q] = AddFunction(MutableModule(c, type), type)]
            /\ llvm_generation' =
                 IF NewGeneration(c, type) THEN llvm_generation + 1 ELSE llvm_generation
  BY Zenon DEF CompileExpr
<1>2. flags \in LLJITs
  BY <1>1 DEF Flags, LLJITs
<1> DEFINE c == IF es_jit[q] = NoContext THEN NewContext(flags) ELSE es_jit[q]
           d == AddFunction(MutableModule(c, type), type)
           g == IF NewGeneration(c, type) THEN llvm_generation ELSE c.module_generation
           n == <<g, c.counter>>
<1>t. TypeOK
  BY DEF NamesInv
<1>3. c \in Context
  BY <1>t, <1>2, NewContextType DEF TypeOK
<1>4. ASSUME q \notin Live
      PROVE  /\ NewGeneration(c, type)
             /\ Names(c) = {}
             /\ \A t \in ModuleType : c.modules[t] = {}
  <2>1. c = NewContext(flags)
    BY <1>4 DEF Live
  <2>2. 0 \in ModuleType
    BY DEF ModuleType
  <2> QED BY <2>1, <2>2, <1>2, NewContextType DEF NewGeneration, MODULE_DEF
<1>5. ASSUME q \in Live PROVE c = es_jit[q]
  BY <1>5 DEF Live
<1>6. /\ es_jit' = [es_jit EXCEPT ![q] = d]
      /\ llvm_generation' =
           IF NewGeneration(c, type) THEN llvm_generation + 1 ELSE llvm_generation
  BY <1>1
<1> HIDE DEF c, d, g
<1>7. /\ d \in Context
      /\ g \in Nat
      /\ n \in Name
      /\ d.module_generation = g
      /\ d.counter = c.counter + 1
      /\ d.waiting = c.waiting \cup {n}
      /\ d.resolved = c.resolved
      /\ d.modules = [c.modules EXCEPT ![type] = @ \cup {n}]
  <2>1. llvm_generation \in Nat
    BY <1>t DEF TypeOK
  <2>2. FunctionAdded(c, d, type, g)
    BY <1>3, <2>1, AddedFunction DEF d, g
  <2> QED BY <2>2 DEF FunctionAdded
<1> HIDE DEF n
<1>8. /\ es_jit'[q] = d
      /\ \A r \in Queries : r # q => es_jit'[r] = es_jit[r]
      /\ \A r \in Live' : r # q => r \in Live
      /\ emitted' = emitted
  BY <1>6, <1>t DEF TypeOK, Live, CompileExpr
<1>9. /\ llvm_generation \in Nat /\ llvm_generation' \in Nat
      /\ llvm_generation <= llvm_generation'
      /\ c.counter \in Nat /\ c.module_generation \in Nat
  BY <1>6, <1>3, <1>t DEF TypeOK, Context
<1>n. n[1] = g /\ n[2] = c.counter
  BY DEF n
<1>10. ~Used(n)
  <2> SUFFICES ASSUME Used(n) PROVE FALSE
    OBVIOUS
  <2>1. n[1] < llvm_generation
    BY <1>7 DEF NamesInv, Generations
  <2>2. CASE NewGeneration(c, type)
    BY <2>1, <2>2, <1>n, <1>9 DEF g
  <2>3. CASE ~NewGeneration(c, type)
    <3>1. q \in Live /\ g = es_jit[q].module_generation /\ c = es_jit[q]
      BY <2>3, <1>4, <1>5 DEF g
    <3>2. n[2] < c.counter
      BY <3>1, <1>7, <1>n DEF NamesInv, Generations
    <3> QED BY <3>2, <1>n, <1>9
  <2> QED BY <2>2, <2>3
<1>11. Names(d) = Names(c) \cup {n}
  BY <1>7 DEF Names
<1>12. \A x \in Names(c) : q \in Live /\ x \in Names(es_jit[q])
  BY <1>4, <1>5
<1>13. \A t \in ModuleType : c.modules[t] \subseteq Names(c)
  BY <1>4, <1>5 DEF NamesInv, OpenNamed
<1>14. \A x : Used(x)' => Used(x) \/ x = n
  BY <1>8, <1>11, <1>12 DEF Used, Live
<1>15. TypeOK'
  <2>1. es_jit' \in [Queries -> Context \cup {NoContext}]
    BY <1>6, <1>7, <1>t DEF TypeOK
  <2> QED BY <2>1, <1>9, <1>t DEF TypeOK, CompileExpr
<1>16. OpenNamed'
  <2> SUFFICES ASSUME NEW r \in Live', NEW t \in ModuleType
               PROVE  es_jit'[r].modules[t] \subseteq Names(es_jit'[r])
    BY DEF OpenNamed, Names
  <2>1. CASE r = q
    BY <2>1, <1>3, <1>7, <1>8, <1>11, <1>13 DEF Context
  <2>2. CASE r # q
    BY <2>2, <1>8 DEF NamesInv, OpenNamed, Live
  <2> QED BY <2>1, <2>2
<1>17. Generations'
  <2>1. \A r \in Live' : es_jit'[r].module_generation < llvm_generation'
    <3> TAKE r \in Live'
    <3>1. CASE r = q
      <4>1. CASE NewGeneration(c, type)
        BY <3>1, <4>1, <1>6, <1>7, <1>8, <1>9 DEF g
      <4>2. CASE ~NewGeneration(c, type)
        BY <3>1, <4>2, <1>4, <1>5, <1>6, <1>7, <1>8, <1>9 DEF g, NamesInv, Generations
      <4> QED BY <4>1, <4>2
    <3>2. CASE r # q
      <4>1. r \in Live /\ es_jit'[r] = es_jit[r] /\ es_jit[r] \in Context
        BY <3>2, <1>8, <1>t DEF Live, TypeOK
      <4>2. es_jit[r].module_generation \in Nat
        BY <4>1 DEF Context
      <4> QED BY <4>1, <4>2, <1>9 DEF NamesInv, Generations
    <3> QED BY <3>1, <3>2
  <2>2. \A r \in Live' : r # q => es_jit'[r].module_generation # g
    <3> TAKE r \in Live'
    <3> HAVE r # q
    <3>1. /\ r \in Live /\ es_jit'[r] = es_jit[r]
          /\ es_jit[r].module_generation < llvm_generation
          /\ es_jit[r].module_generation \in Nat
      BY <1>8, <1>t DEF Live, TypeOK, Context, NamesInv, Generations
    <3>2. CASE NewGeneration(c, type)
      BY <3>1, <3>2, <1>9 DEF g
    <3>3. CASE ~NewGeneration(c, type)
      BY <3>1, <3>3, <1>4, <1>5 DEF g, NamesInv, Generations
    <3> QED BY <3>2, <3>3
  <2>3. \A r, u \in Live' :
          es_jit'[r].module_generation = es_jit'[u].module_generation => r = u
    <3> TAKE r, u \in Live'
    <3>1. CASE r = q \/ u = q
      BY <3>1, <2>2, <1>7, <1>8
    <3>2. CASE r # q /\ u # q
      BY <3>2, <1>8 DEF Live, NamesInv, Generations
    <3> QED BY <3>1, <3>2
  <2>4. ASSUME NEW x \in Name, Used(x)'
        PROVE  x[1] < llvm_generation'
    <3>1. CASE x = n
      <4>1. g < llvm_generation'
        <5>1. CASE NewGeneration(c, type)
          BY <5>1, <1>6, <1>9 DEF g
        <5>2. CASE ~NewGeneration(c, type)
          BY <5>2, <1>4, <1>5, <1>6 DEF g, NamesInv, Generations
        <5> QED BY <5>1, <5>2
      <4> QED BY <3>1, <4>1, <1>n
    <3>2. CASE Used(x)
      BY <3>2, <1>9 DEF NamesInv, Generations, Name
    <3> QED BY <2>4, <3>1, <3>2, <1>14
  <2>5. ASSUME NEW x \in Name, Used(x)', NEW r \in Live',
               x[1] = es_jit'[r].module_generation
        PROVE  x[2] < es_jit'[r].counter
    <3>1. CASE x = n
      <4>1. r = q
        BY <2>2, <2>5, <3>1, <1>n
      <4> QED BY <4>1, <3>1, <1>n, <1>7, <1>8, <1>9
    <3>2. CASE Used(x) /\ r # q
      BY <2>5, <3>2, <1>8 DEF Live, NamesInv, Generations
    <3>3. CASE Used(x) /\ r = q
      <4>0. x[1] < llvm_generation /\ x[1] \in Nat /\ x[2] \in Nat
        BY <3>3 DEF NamesInv, Generations, Name
      <4>1. ~NewGeneration(c, type)
        BY <4>0, <2>5, <3>3, <1>7, <1>8, <1>9 DEF g
      <4>2. q \in Live /\ c = es_jit[q] /\ g = es_jit[q].module_generation
        BY <4>1, <1>4, <1>5 DEF g
      <4>3. x[2] < c.counter
        BY <4>2, <3>3, <2>5, <1>7, <1>8 DEF NamesInv, Generations
      <4> QED BY <4>3, <4>0, <3>3, <1>7, <1>8, <1>9
    <3> QED BY <2>5, <3>1, <3>2, <3>3, <1>14
  <2> QED BY <2>1, <2>3, <2>4, <2>5 DEF Generations
<1>18. Apart'
  <2> SUFFICES ASSUME NEW r \in Live', NEW u \in Live', NEW x,
                      x \in Names(es_jit'[r]), x \in Names(es_jit'[u])
               PROVE  r = u
    BY DEF Apart, Names
  <2>1. CASE x = n
    <3>1. \A v \in Live' : v # q => x \notin Names(es_jit'[v])
      BY <2>1, <1>8, <1>10 DEF Used, Live
    <3> QED BY <3>1
  <2>2. CASE x # n
    <3>1. \A v \in Live' : x \in Names(es_jit'[v]) => v \in Live /\ x \in Names(es_jit[v])
      BY <2>2, <1>8, <1>11, <1>12 DEF Live
    <3>2. Names(es_jit[r]) \cap Names(es_jit[u]) # {} /\ r \in Live /\ u \in Live
      BY <3>1
    <3> QED BY <3>2 DEF NamesInv, Apart
  <2> QED BY <2>1, <2>2
<1>19. ModulesApart'
  <2>1. \A r \in Live' : \A t \in ModuleType : \A x \in es_jit'[r].modules[t] :
          \/ r \in Live /\ x \in es_jit[r].modules[t]
          \/ x = n /\ r = q /\ t = type
    <3> TAKE r \in Live'
    <3> TAKE t \in ModuleType
    <3> TAKE x \in es_jit'[r].modules[t]
    <3>1. CASE r # q
      BY <3>1, <1>8 DEF Live
    <3>2. CASE r = q
      BY <3>2, <1>3, <1>4, <1>5, <1>7, <1>8 DEF Context
    <3> QED BY <3>1, <3>2
  <2>2. \A r \in Live : \A t \in ModuleType : n \notin es_jit[r].modules[t]
    BY <1>10 DEF Used, NamesInv, OpenNamed
  <2>3. \A m \in emitted : n \notin m.names
    BY <1>10 DEF Used
  <2>4. ASSUME NEW r \in Live', NEW t \in ModuleType, NEW u \in ModuleType, NEW x,
               x \in es_jit'[r].modules[t], x \in es_jit'[r].modules[u]
        PROVE  t = u
    <3>1. CASE x = n
      BY <2>1, <2>2, <2>4, <3>1
    <3>2. CASE x # n
      <4>1. r \in Live /\ es_jit[r].modules[t] \cap es_jit[r].modules[u] # {}
        BY <2>1, <2>4, <3>2
      <4> QED BY <4>1 DEF NamesInv, ModulesApart
    <3> QED BY <3>1, <3>2
  <2>5. ASSUME NEW r \in Live', NEW t \in ModuleType, NEW m \in emitted, NEW x,
               x \in es_jit'[r].modules[t], x \in m.names
        PROVE  FALSE
    <3>1. r \in Live /\ x \in es_jit[r].modules[t]
      BY <2>1, <2>3, <2>5
    <3> QED BY <3>1, <2>5 DEF NamesInv, ModulesApart
  <2>6. \A m, k \in emitted : m.names \cap k.names # {} => m = k
    BY DEF NamesInv, ModulesApart
  <2> QED BY <2>4, <2>5, <2>6, <1>8 DEF ModulesApart
<1> QED BY <1>15, <1>16, <1>17, <1>18, <1>19 DEF NamesInv

\* The emission inside llvm_get_function moves modules and names nothing new,
\* whatever becomes of the function looked up.
LEMMA NamesEmit ==
  ASSUME NamesInv, NEW q \in Live, NEW d, NEW e \in Context,
         d = Compiled(es_jit[q]),
         e.module_generation = d.module_generation, e.counter = d.counter,
         e.modules = d.modules, Names(e) = Names(d),
         es_jit' = [es_jit EXCEPT ![q] = e],
         emitted' = emitted \cup Added(es_jit[q]),
         llvm_generation' = llvm_generation,
         enableME' = enableME, shutdown' = shutdown, backend' = backend,
         failed' \in Queries \cup {NoContext}, fatal_new_handler_depth' \in Nat
  PROVE  NamesInv'
<1> DEFINE c == es_jit[q]
<1>t. TypeOK
  BY DEF NamesInv
<1>1. c \in Context /\ q \in Queries
  BY <1>t DEF TypeOK, Live
<1>2. Emission(c, d, Added(c))
  BY <1>1, <1>t, EmissionFacts DEF TypeOK
<1>3. /\ e.module_generation = c.module_generation
      /\ e.counter = c.counter
      /\ Names(e) = Names(c)
      /\ \A t \in ModuleType : e.modules[t] = {} \/ e.modules[t] = c.modules[t]
      /\ Added(c) \subseteq Code
  BY <1>2 DEF Emission, Names
<1>4. \A m \in Added(c) : \E t \in ModuleType :
        /\ m = CodeOf(IF enableME THEN TargetOf(t) ELSE c.flags, c, t)
        /\ e.modules[t] = {}
  BY <1>2 DEF Emission
<1>5. \A m \in Added(c) : \E t \in ModuleType : m.names = c.modules[t] /\ e.modules[t] = {}
  BY <1>4 DEF CodeOf
<1>6. /\ es_jit'[q] = e
      /\ \A r \in Queries : r # q => es_jit'[r] = es_jit[r]
      /\ \A r \in Live' : r \in Live
  BY <1>1, <1>t DEF TypeOK, Live
<1> HIDE DEF c
<1>c. c = es_jit[q]
  BY DEF c
<1>7. TypeOK'
  <2>1. es_jit' \in [Queries -> Context \cup {NoContext}]
    BY <1>t, Zenon DEF TypeOK
  <2>2. emitted' \subseteq Code
    BY <1>t, <1>3, <1>c DEF TypeOK
  <2> QED BY <2>1, <2>2, <1>t DEF TypeOK
<1>8. \A r \in Live' :
        /\ es_jit'[r].module_generation = es_jit[r].module_generation
        /\ es_jit'[r].counter = es_jit[r].counter
        /\ Names(es_jit'[r]) = Names(es_jit[r])
        /\ \A t \in ModuleType : es_jit'[r].modules[t] \subseteq es_jit[r].modules[t]
  BY <1>3, <1>6, <1>c DEF Live
<1>9. \A m \in emitted' : m \in emitted \/ \E t \in ModuleType : m.names = es_jit[q].modules[t]
  BY <1>5, <1>c
<1>10. OpenNamed'
  <2> SUFFICES ASSUME NEW r \in Live', NEW t \in ModuleType
               PROVE  es_jit'[r].modules[t] \subseteq Names(es_jit'[r])
    BY DEF OpenNamed, Names
  <2> QED BY <1>6, <1>8 DEF NamesInv, OpenNamed
<1>11. \A x : Used(x)' => Used(x)
  <2> SUFFICES ASSUME NEW x, Used(x)' PROVE Used(x)
    OBVIOUS
  <2>1. CASE \E r \in Live' : x \in Names(es_jit'[r])
    BY <2>1, <1>6, <1>8 DEF Used
  <2>2. CASE \E m \in emitted' : x \in m.names
    <3>1. \A t \in ModuleType : es_jit[q].modules[t] \subseteq Names(es_jit[q])
      BY DEF NamesInv, OpenNamed
    <3> QED BY <2>2, <3>1, <1>9 DEF Used
  <2> QED BY <2>1, <2>2 DEF Used, Names
<1>12. Generations'
  <2>1. \A r \in Live' : es_jit'[r].module_generation < llvm_generation'
    BY <1>6, <1>8 DEF NamesInv, Generations
  <2>2. \A r, u \in Live' :
          es_jit'[r].module_generation = es_jit'[u].module_generation => r = u
    BY <1>6, <1>8 DEF NamesInv, Generations
  <2>3. \A x \in Name : Used(x)' =>
          /\ x[1] < llvm_generation'
          /\ \A r \in Live' : x[1] = es_jit'[r].module_generation => x[2] < es_jit'[r].counter
    BY <1>6, <1>8, <1>11 DEF NamesInv, Generations
  <2> QED BY <2>1, <2>2, <2>3 DEF Generations
<1>13. Apart'
  <2> SUFFICES ASSUME NEW r \in Live', NEW u \in Live',
                      Names(es_jit'[r]) \cap Names(es_jit'[u]) # {}
               PROVE  r = u
    BY DEF Apart, Names
  <2> QED BY <1>6, <1>8 DEF NamesInv, Apart
<1>14. ModulesApart'
  <2>1. ASSUME NEW r \in Live', NEW t \in ModuleType, NEW u \in ModuleType,
               es_jit'[r].modules[t] \cap es_jit'[r].modules[u] # {}
        PROVE  t = u
    <3>1. r \in Live /\ es_jit[r].modules[t] \cap es_jit[r].modules[u] # {}
      BY <2>1, <1>6, <1>8
    <3> QED BY <3>1 DEF NamesInv, ModulesApart
  <2>2. ASSUME NEW r \in Live', NEW t \in ModuleType, NEW m \in emitted', NEW x,
               x \in es_jit'[r].modules[t], x \in m.names
        PROVE  FALSE
    <3>1. r \in Live /\ x \in es_jit[r].modules[t] /\ x \in Names(es_jit[r])
      BY <2>2, <1>6, <1>8 DEF NamesInv, OpenNamed
    <3>2. CASE m \in emitted
      BY <2>2, <3>1, <3>2 DEF NamesInv, ModulesApart
    <3>3. CASE m \in Added(es_jit[q])
      <4>1. PICK u \in ModuleType : m.names = es_jit[q].modules[u] /\ e.modules[u] = {}
        BY <3>3, <1>5, <1>c
      <4>2. x \in Names(es_jit[q])
        BY <2>2, <4>1 DEF NamesInv, OpenNamed
      <4>3. r = q
        BY <3>1, <4>2 DEF NamesInv, Apart
      <4>4. t = u
        BY <2>2, <3>1, <4>1, <4>3 DEF NamesInv, ModulesApart
      <4> QED BY <2>2, <4>1, <4>3, <4>4, <1>6
    <3> QED BY <3>2, <3>3
  <2>3. ASSUME NEW m \in emitted', NEW k \in emitted', NEW x, x \in m.names, x \in k.names
        PROVE  m = k
    <3>1. CASE m \in emitted /\ k \in emitted
      BY <2>3, <3>1 DEF NamesInv, ModulesApart
    <3>2. ASSUME NEW a \in emitted, NEW b \in Added(es_jit[q]), x \in a.names, x \in b.names
          PROVE  FALSE
      BY <3>2, <1>5, <1>c DEF NamesInv, ModulesApart
    <3>3. CASE m \in Added(es_jit[q]) /\ k \in Added(es_jit[q])
      <4>1. PICK t \in ModuleType :
              m = CodeOf(IF enableME THEN TargetOf(t) ELSE c.flags, c, t)
        BY <3>3, <1>4, <1>c
      <4>2. PICK u \in ModuleType :
              k = CodeOf(IF enableME THEN TargetOf(u) ELSE c.flags, c, u)
        BY <3>3, <1>4, <1>c
      <4>3. x \in es_jit[q].modules[t] /\ x \in es_jit[q].modules[u]
        BY <2>3, <4>1, <4>2, <1>c DEF CodeOf
      <4>4. t = u
        BY <4>3 DEF NamesInv, ModulesApart
      <4> QED BY <4>1, <4>2, <4>4
    <3> QED BY <2>3, <3>1, <3>2, <3>3
  <2> QED BY <2>1, <2>2, <2>3 DEF ModulesApart
<1> QED BY <1>7, <1>10, <1>12, <1>13, <1>14 DEF NamesInv

\* llvm_release_context, of any set of contexts, only forgets names.
LEMMA NamesRelease ==
  ASSUME NamesInv, NEW Q, Release(Q),
         llvm_generation' = llvm_generation,
         enableME' = enableME, shutdown' = shutdown, backend' = backend,
         failed' \in Queries \cup {NoContext}, fatal_new_handler_depth' \in Nat
  PROVE  NamesInv'
<1>t. TypeOK
  BY DEF NamesInv
<1>1. emitted' \subseteq emitted
  BY DEF Release
<1>2. \A r \in Live' : r \in Live /\ es_jit'[r] = es_jit[r]
  BY <1>t DEF Release, Live, TypeOK
<1>3. TypeOK'
  <2>1. es_jit' \in [Queries -> Context \cup {NoContext}]
    BY <1>t DEF Release, TypeOK
  <2> QED BY <2>1, <1>1, <1>t DEF TypeOK
<1>4. \A x : Used(x)' => Used(x)
  BY <1>1, <1>2 DEF Used, Names
<1>5. OpenNamed'
  BY <1>2 DEF NamesInv, OpenNamed, Names
<1>6. Generations'
  BY <1>2, <1>4 DEF NamesInv, Generations
<1>7. Apart'
  BY <1>2 DEF NamesInv, Apart, Names
<1>8. ModulesApart'
  BY <1>1, <1>2 DEF NamesInv, ModulesApart
<1> QED BY <1>3, <1>5, <1>6, <1>7, <1>8 DEF NamesInv

\* Every step preserves the invariant.
LEMMA NamesStep == NamesInv /\ [Next]_vars => NamesInv'
<1> SUFFICES ASSUME NamesInv, [Next]_vars PROVE NamesInv'
  OBVIOUS
<1>t. TypeOK
  BY DEF NamesInv
<1>1. ASSUME es_jit' = es_jit, llvm_generation' = llvm_generation, emitted' = emitted,
             TypeOK'
      PROVE  NamesInv'
  <2>1. OpenNamed'
    BY <1>1 DEF NamesInv, OpenNamed, Live, Names
  <2>2. Generations'
    BY <1>1 DEF NamesInv, Generations, Used, Live, Names
  <2>3. Apart'
    BY <1>1 DEF NamesInv, Apart, Live, Names
  <2>4. ModulesApart'
    BY <1>1 DEF NamesInv, ModulesApart, Live
  <2> QED BY <1>1, <2>1, <2>2, <2>3, <2>4 DEF NamesInv
<1>2. ASSUME NEW q \in Queries, NEW type \in ModuleType, CompileExpr(q, type)
      PROVE  NamesInv'
  BY <1>2, NamesCompile
<1>3. ASSUME NEW q \in Live, NEW name \in es_jit[q].waiting, RunExpr(q, name)
      PROVE  NamesInv'
  <2> DEFINE d == Compiled(es_jit[q])
             e == Resolve(d, name)
  <2>1. es_jit[q] \in Context
    BY <1>t DEF TypeOK, Live
  <2>2. d \in Context /\ d.waiting = es_jit[q].waiting
    BY <2>1, <1>t, EmissionFacts, Zenon DEF Emission, TypeOK
  <2>3. name \in Name /\ name \in d.waiting
    BY <2>1, <2>2 DEF Context
  <2>4. es_jit' = [es_jit EXCEPT ![q] = e] /\ emitted' = emitted \cup Added(es_jit[q])
    BY <1>3 DEF RunExpr
  <2> HIDE DEF d
  <2>9. /\ e \in Context /\ Names(e) = Names(d) /\ e.modules = d.modules
        /\ e.module_generation = d.module_generation /\ e.counter = d.counter
    BY <2>2, <2>3, ResolvedContext
  <2>10. d = Compiled(es_jit[q])
    BY DEF d
  <2> HIDE DEF e
  <2>11. /\ llvm_generation' = llvm_generation
         /\ enableME' = enableME /\ shutdown' = shutdown /\ backend' = backend
         /\ failed' \in Queries \cup {NoContext} /\ fatal_new_handler_depth' \in Nat
    BY <1>3, <1>t DEF RunExpr, TypeOK
  <2> QED BY <2>4, <2>9, <2>10, <2>11, NamesEmit, Zenon
<1>4. ASSUME NEW q \in Live, NEW name \in es_jit[q].waiting, RunExprFails(q, name)
      PROVE  NamesInv'
  <2> DEFINE d == Compiled(es_jit[q])
  <2>1. es_jit[q] \in Context
    BY <1>t DEF TypeOK, Live
  <2>2. d \in Context
    BY <2>1, <1>t, EmissionFacts, Zenon DEF Emission, TypeOK
  <2>3. es_jit' = [es_jit EXCEPT ![q] = d] /\ emitted' = emitted \cup Added(es_jit[q])
    BY <1>4 DEF RunExprFails
  <2>4. /\ llvm_generation' = llvm_generation
        /\ enableME' = enableME /\ shutdown' = shutdown /\ backend' = backend
        /\ failed' \in Queries \cup {NoContext} /\ fatal_new_handler_depth' \in Nat
    BY <1>4, <1>t DEF RunExprFails, TypeOK, Live
  <2> QED BY <2>2, <2>3, <2>4, NamesEmit, Zenon
<1>5. ASSUME NEW q \in Queries, RunExprCrashes(q) PROVE NamesInv'
  BY <1>1, <1>5, <1>t DEF RunExprCrashes, TypeOK
<1>6. ASSUME NEW q \in Queries, EndQuery(q) PROVE NamesInv'
  BY <1>6, <1>t, NamesRelease DEF EndQuery, TypeOK
<1>7. ASSUME NEW Q \in SUBSET Live, AbortSub(Q) PROVE NamesInv'
  <2>1. Cardinality(Q) \in Nat
    BY LlvmAssumption, FS_Subset, FS_CardinalityType DEF Live
  <2>2. fatal_new_handler_depth' \in Nat
    BY <1>7, <1>t, <2>1 DEF AbortSub, TypeOK
  <2> QED BY <1>7, <1>t, <2>2, NamesRelease DEF AbortSub, TypeOK
<1>8. ASSUME AbortTop PROVE NamesInv'
  BY <1>8, <1>t, NamesRelease DEF AbortTop, TypeOK
<1>9. ASSUME Exit PROVE NamesInv'
  BY <1>1, <1>9, <1>t DEF Exit, TypeOK
<1>10. ASSUME SetEnableME PROVE NamesInv'
  BY <1>1, <1>10, <1>t DEF SetEnableME, TypeOK
<1>11. ASSUME UNCHANGED vars PROVE NamesInv'
  BY <1>1, <1>11, <1>t DEF vars, TypeOK
<1> QED BY <1>2, <1>3, <1>4, <1>5, <1>6, <1>7, <1>8, <1>9, <1>10, <1>11
        DEF Next, Use, Stop, Live

LEMMA NamesAlways == Spec => []NamesInv
BY NamesInit, NamesStep, PTL DEF Spec

\* The contexts, modules, handles and emitted code stay well typed (llvmjit.c),
\* for any number of queries, any levels and settings.
THEOREM ContextsTyped == Spec => []TypeOK
<1>1. NamesInv => TypeOK
  BY DEF NamesInv
<1> QED BY <1>1, NamesAlways, PTL

\* llvm_expand_funcname's names never conflict: for any number of queries alive
\* at once, any mixture of levels, and enableME changed while queries run.
THEOREM FunctionNamesUnique == Spec => []NamesUnique
<1>1. NamesInv => NamesUnique
  BY NamesInvImplies
<1> QED BY <1>1, NamesAlways, PTL

----------------------------------------------------------------------------
(* Code in the optimising instance is owned.                               *)

\* Code m is in the handle list of context c.
Owns(c, m) == \E i \in DOMAIN c.handles : c.handles[i] = m

\* The list of handles grows at its end.
LEMMA AppendedHandle ==
  ASSUME NEW S, NEW s \in Seq(S), NEW h \in S
  PROVE  /\ \A i \in DOMAIN s : i \in DOMAIN Append(s, h) /\ Append(s, h)[i] = s[i]
         /\ \E i \in DOMAIN Append(s, h) : Append(s, h)[i] = h
<1>1. Len(s) + 1 \in DOMAIN Append(s, h) /\ Append(s, h)[Len(s) + 1] = h
  OBVIOUS
<1> QED BY <1>1

\* NoOrphans in terms of the contexts that own the code.
LEMMA OwnedForm ==
  NoOrphans <=> \A m \in emitted : m.lljit = "opt3" => \E q \in Live : Owns(es_jit[q], m)
<1>1. \A m : m \in HandlesOf(Live) <=> \E q \in Live : Owns(es_jit[q], m)
  BY DEF HandlesOf, Owns
<1> QED BY <1>1 DEF NoOrphans

\* An emission of me_llvm_compile_module with an open module_opt ends with it.
LEMMA OptIsLast ==
  ASSUME NEW c \in Context, NEW m \in MEAdded(c), m.lljit = "opt3"
  PROVE  MEHandle(c) = m
<1>1. PICK t \in MEOpen(c) : m = CodeOf(TargetOf(t), c, t)
  BY DEF MEAdded
<1>2. t = MODULE_OPT
  BY <1>1 DEF CodeOf, TargetOf
<1>3. \A u \in MEOpen(c) : u \in 0 .. 3
  BY DEF MEOpen, ModuleType
<1> DEFINE last == CHOOSE u \in MEOpen(c) : \A v \in MEOpen(c) : v <= u
<1>4. t \in MEOpen(c) /\ \A v \in MEOpen(c) : v <= t
  BY <1>1, <1>2, <1>3 DEF MODULE_OPT
<1>5. last \in MEOpen(c) /\ \A v \in MEOpen(c) : v <= last
  BY <1>4, Zenon
<1>6. MEHandle(c) = CodeOf(TargetOf(last), c, last)
  BY <1>1 DEF MEHandle
<1> HIDE DEF last
<1>7. last = t
  BY <1>1, <1>2, <1>3, <1>5 DEF MODULE_OPT
<1> QED BY <1>1, <1>6, <1>7

\* What llvm_get_function emits into the optimising instance is in a handle of
\* the context, and no handle is lost.
LEMMA EmissionOwned ==
  ASSUME NEW c \in Context, enableME \in BOOLEAN
  PROVE  /\ \A m \in Code : Owns(c, m) => Owns(Compiled(c), m)
         /\ \A m \in Added(c) : m.lljit = "opt3" => Owns(Compiled(c), m)
<1>0. c.handles \in Seq(Handle) /\ c.compiled \in BOOLEAN /\ c.flags \in LLJITs
  BY DEF Context
<1>1. CASE c.compiled
  BY <1>1, Zenon DEF Compiled, Added
<1>2. CASE ~c.compiled /\ enableME
  <2>1. Compiled(c).handles = Append(c.handles, MEHandle(c)) /\ Added(c) = MEAdded(c)
    BY <1>2, Zenon DEF Compiled, Added, MECompile, Context
  <2>2. MEHandle(c) \in Handle
    <3>1. CASE MEOpen(c) = {}
      BY <3>1 DEF MEHandle, Handle
    <3>2. CASE MEOpen(c) # {}
      BY <3>2, LastOpen, CodeType DEF Handle, MEAdded, MEOpen, TargetOf, LLJITs
    <3> QED BY <3>1, <3>2
  <2> DEFINE h == MEHandle(c)
  <2>3. \A m \in Added(c) : m.lljit = "opt3" => m = h
    BY <2>1, OptIsLast
  <2> HIDE DEF h
  <2>4. /\ \A i \in DOMAIN c.handles : /\ i \in DOMAIN Compiled(c).handles
                                      /\ Compiled(c).handles[i] = c.handles[i]
        /\ \E i \in DOMAIN Compiled(c).handles : Compiled(c).handles[i] = h
    BY <1>0, <2>1, <2>2, AppendedHandle DEF h
  <2> QED BY <2>3, <2>4, Zenon DEF Owns
<1>3. CASE ~c.compiled /\ ~enableME
  <2> DEFINE h == CodeOf(c.flags, c, MODULE_DEF)
  <2>1. Compiled(c).handles = Append(c.handles, h) /\ Added(c) = {h}
    BY <1>3, Zenon DEF Compiled, Added, PlainCompile, PlainAdded, Context
  <2>2. h \in Handle
    BY <1>0, CodeType DEF Handle, MODULE_DEF, ModuleType
  <2> HIDE DEF h
  <2>3. \A m \in Added(c) : m = h
    BY <2>1
  <2>4. /\ \A i \in DOMAIN c.handles : /\ i \in DOMAIN Compiled(c).handles
                                      /\ Compiled(c).handles[i] = c.handles[i]
        /\ \E i \in DOMAIN Compiled(c).handles : Compiled(c).handles[i] = h
    BY <1>0, <2>1, <2>2, AppendedHandle
  <2> QED BY <2>3, <2>4, Zenon DEF Owns
<1> QED BY <1>0, <1>1, <1>2, <1>3

\* The emission inside llvm_get_function keeps all optimised code owned.
LEMMA OwnedEmit ==
  ASSUME TypeOK, NoOrphans, NEW q \in Live, NEW e \in Context,
         e.handles = Compiled(es_jit[q]).handles,
         es_jit' = [es_jit EXCEPT ![q] = e],
         emitted' = emitted \cup Added(es_jit[q])
  PROVE  NoOrphans'
<1>1. es_jit[q] \in Context /\ q \in Queries /\ enableME \in BOOLEAN
  BY DEF TypeOK, Live
<1>2. /\ es_jit'[q] = e /\ \A r \in Queries : r # q => es_jit'[r] = es_jit[r]
  BY <1>1 DEF TypeOK
<1>3. q \in Live' /\ \A r \in Live : r \in Live'
  BY <1>1, <1>2, ContextAssumption DEF Live
<1>4. ASSUME NEW m \in emitted', m.lljit = "opt3"
      PROVE  \E r \in Live' : Owns(es_jit'[r], m)
  <2>1. CASE m \in Added(es_jit[q])
    <3>1. Owns(Compiled(es_jit[q]), m)
      BY <1>1, <1>4, <2>1, EmissionOwned
    <3> QED BY <3>1, <1>2, <1>3 DEF Owns
  <2>2. CASE m \in emitted
    <3>1. PICK r \in Live : Owns(es_jit[r], m)
      BY <1>4, <2>2, OwnedForm
    <3>2. CASE r = q
      <4>1. m \in Code
        BY <2>2 DEF TypeOK
      <4>2. Owns(Compiled(es_jit[q]), m)
        BY <1>1, <3>1, <3>2, <4>1, EmissionOwned
      <4> QED BY <4>2, <1>2, <1>3 DEF Owns
    <3>3. CASE r # q
      BY <3>1, <3>3, <1>2, <1>3 DEF Live
    <3> QED BY <3>2, <3>3
  <2> QED BY <2>1, <2>2
<1>5. \A m : m \in HandlesOf(Live)' <=> \E r \in Live' : Owns(es_jit'[r], m)
  BY DEF HandlesOf, Owns
<1> QED BY <1>4, <1>5 DEF NoOrphans

\* llvm_release_context, of any set of contexts, removes the code they own.
LEMMA OwnedRelease ==
  ASSUME TypeOK, NoOrphans, NEW Q, Release(Q)
  PROVE  NoOrphans'
<1>1. \A r \in Live : r \notin Q => r \in Live' /\ es_jit'[r] = es_jit[r]
  BY DEF Release, Live
<1>2. ASSUME NEW m \in emitted', m.lljit = "opt3"
      PROVE  m \in HandlesOf(Live)'
  <2>1. m \in emitted /\ m \notin HandlesOf(Q)
    BY DEF Release, Removed
  <2>2. PICK r \in Live : Owns(es_jit[r], m)
    BY <1>2, <2>1, OwnedForm
  <2>3. r \notin Q
    BY <2>1, <2>2 DEF HandlesOf, Owns
  <2> QED BY <1>1, <2>2, <2>3 DEF HandlesOf, Owns
<1> QED BY <1>2 DEF NoOrphans

\* llvm_compile_expr adds no handle and no code.
LEMMA OwnedCompile ==
  ASSUME TypeOK, NoOrphans, NEW q \in Queries, NEW type \in ModuleType,
         CompileExpr(q, type)
  PROVE  NoOrphans'
<1>1. PICK flags \in Flags(type) :
        LET c == IF es_jit[q] = NoContext THEN NewContext(flags) ELSE es_jit[q]
        IN  es_jit' = [es_jit EXCEPT ![q] = AddFunction(MutableModule(c, type), type)]
  BY Zenon DEF CompileExpr
<1> DEFINE c == IF es_jit[q] = NoContext THEN NewContext(flags) ELSE es_jit[q]
           d == AddFunction(MutableModule(c, type), type)
<1>2. c \in Context /\ llvm_generation \in Nat
  BY NewContextType DEF TypeOK, Flags, LLJITs
<1>3. q \in Live => c = es_jit[q]
  BY SMTT(30) DEF Live
<1>4. es_jit' = [es_jit EXCEPT ![q] = d] /\ emitted' = emitted
  BY <1>1, Zenon DEF CompileExpr
<1> HIDE DEF c
<1>5. d \in Context /\ d.handles = c.handles
  BY <1>2, AddedFunction, Zenon DEF FunctionAdded
<1> HIDE DEF d
<1>6. \A r \in Live : r \in Live' /\ es_jit'[r].handles = es_jit[r].handles
  BY <1>3, <1>4, <1>5, ContextAssumption DEF Live, TypeOK
<1>7. \A m \in HandlesOf(Live) : m \in HandlesOf(Live)'
  BY <1>6 DEF HandlesOf
<1> QED BY <1>4, <1>7 DEF NoOrphans

\* Every step keeps the optimised code owned.
LEMMA OwnedStep == TypeOK /\ NoOrphans /\ [Next]_vars => NoOrphans'
<1> SUFFICES ASSUME TypeOK, NoOrphans, [Next]_vars PROVE NoOrphans'
  OBVIOUS
<1>1. ASSUME es_jit' = es_jit, emitted' = emitted PROVE NoOrphans'
  BY <1>1 DEF NoOrphans, HandlesOf, Live
<1>2. ASSUME NEW q \in Queries, NEW type \in ModuleType, CompileExpr(q, type)
      PROVE  NoOrphans'
  BY <1>2, OwnedCompile
<1>3. ASSUME NEW q \in Live, NEW name \in es_jit[q].waiting,
             RunExpr(q, name) \/ RunExprFails(q, name)
      PROVE  NoOrphans'
  <2> DEFINE d == Compiled(es_jit[q])
  <2>1. es_jit[q] \in Context
    BY DEF TypeOK, Live
  <2>2. d \in Context /\ d.waiting = es_jit[q].waiting
    BY <2>1, EmissionFacts, Zenon DEF Emission, TypeOK
  <2>3. name \in Name /\ name \in d.waiting
    BY <2>1, <2>2 DEF Context
  <2> HIDE DEF d
  <2>4. Resolve(d, name) \in Context /\ Resolve(d, name).handles = d.handles
    BY <2>2, <2>3, ResolvedContext
  <2>5. CASE RunExpr(q, name)
    <3>1. /\ es_jit' = [es_jit EXCEPT ![q] = Resolve(d, name)]
          /\ emitted' = emitted \cup Added(es_jit[q])
      BY <2>5 DEF RunExpr, d
    <3> QED BY <2>4, <3>1, OwnedEmit, Zenon DEF d
  <2>6. CASE RunExprFails(q, name)
    <3>1. /\ es_jit' = [es_jit EXCEPT ![q] = d]
          /\ emitted' = emitted \cup Added(es_jit[q])
      BY <2>6 DEF RunExprFails, d
    <3> QED BY <2>2, <3>1, OwnedEmit, Zenon DEF d
  <2> QED BY <1>3, <2>5, <2>6
<1>4. ASSUME NEW q \in Queries, RunExprCrashes(q) PROVE NoOrphans'
  BY <1>1, <1>4 DEF RunExprCrashes
<1>5. ASSUME NEW q \in Queries, EndQuery(q) PROVE NoOrphans'
  BY <1>5, OwnedRelease DEF EndQuery
<1>6. ASSUME NEW Q \in SUBSET Live, AbortSub(Q) PROVE NoOrphans'
  BY <1>6, OwnedRelease DEF AbortSub
<1>7. ASSUME AbortTop PROVE NoOrphans'
  BY <1>7, OwnedRelease DEF AbortTop
<1>8. ASSUME Exit \/ SetEnableME \/ UNCHANGED vars PROVE NoOrphans'
  BY <1>1, <1>8 DEF Exit, SetEnableME, vars
<1> QED BY <1>2, <1>3, <1>4, <1>5, <1>6, <1>7, <1>8 DEF Next, Use, Stop, Live

\* llvm_release_context reaches all code of the optimising instance: it is in a
\* handle of a live context, for any number of queries alive at once, any
\* mixture of levels, and enableME changed while queries run.
THEOREM OptimisedCodeOwned == Spec => []NoOrphans
<1>1. Init => NoOrphans
  BY DEF Init, NoOrphans
<1>2. Spec => []TypeOK
  BY ContextsTyped, PTL
<1> QED BY <1>1, <1>2, OwnedStep, PTL DEF Spec

----------------------------------------------------------------------------
(* The searched levels: all actions together.                              *)

\* Every step preserves the invariant.
LEMMA SearchStep ==
  ASSUME SearchWorkload, SearchInv, [NextQuiet]_vars PROVE SearchInv'
<1>1. NamesInv'
  BY NamesStep DEF SearchInv, NextQuiet, Next
<1>2. ASSUME FunctionFound', \A r \in Live' : ContextOK(es_jit'[r], enableME', emitted')
      PROVE  SearchInv'
  BY <1>1, <1>2 DEF SearchInv
<1>3. failed = NoContext /\ backend # "crashed"
  BY DEF SearchInv, FunctionFound
<1>4. ASSUME NEW q \in Queries, NEW type \in ModuleType, CompileExpr(q, type)
      PROVE  SearchInv'
  BY <1>2, <1>3, <1>4, SearchCompile, Zenon DEF CompileExpr, FunctionFound
<1>5. ASSUME NEW q \in Live, NEW name \in es_jit[q].waiting, RunExpr(q, name)
      PROVE  SearchInv'
  BY <1>2, <1>3, <1>5, SearchRun, Zenon DEF RunExpr, FunctionFound
<1>6. ASSUME NEW q \in Live, NEW name \in es_jit[q].waiting,
             RunExprFails(q, name) \/ RunExprCrashes(q)
      PROVE  SearchInv'
  BY <1>6, SearchRun
<1>7. ASSUME NEW q \in Queries, EndQuery(q) PROVE SearchInv'
  BY <1>2, <1>3, <1>7, SearchRelease DEF EndQuery, FunctionFound
<1>8. ASSUME NEW Q \in SUBSET Live, AbortSub(Q) PROVE SearchInv'
  BY <1>3, <1>8, LlvmAssumption DEF AbortSub, Live
<1>9. ASSUME AbortTop PROVE SearchInv'
  BY <1>2, <1>3, <1>9, SearchRelease DEF AbortTop, FunctionFound
<1>10. ASSUME Exit PROVE SearchInv'
  BY <1>1, <1>3, <1>10 DEF Exit, FunctionFound, SearchInv, Live
<1>11. ASSUME Live = {}, SetEnableME PROVE SearchInv'
  BY <1>1, <1>3, <1>11 DEF SetEnableME, FunctionFound, SearchInv, Live
<1>12. ASSUME UNCHANGED vars PROVE SearchInv'
  BY <1>1, <1>3, <1>12 DEF vars, FunctionFound, SearchInv, Live
<1>13. CASE \E q \in Queries : Use(q)
  <2>1. PICK q \in Queries : Use(q)
    BY <1>13
  <2>2. CASE \E type \in ModuleType : CompileExpr(q, type)
    BY <2>2, <1>4
  <2>3. CASE EndQuery(q)
    BY <2>3, <1>7
  <2>4. CASE q \in Live /\ \E name \in es_jit[q].waiting :
               RunExpr(q, name) \/ RunExprFails(q, name) \/ RunExprCrashes(q)
    BY <2>4, <1>5, <1>6
  <2> QED BY <2>1, <2>2, <2>3, <2>4 DEF Use
<1>14. CASE Stop
  BY <1>14, <1>8, <1>9, <1>10 DEF Stop
<1> QED BY <1>11, <1>12, <1>13, <1>14 DEF NextQuiet

LEMMA SearchAlways ==
  ASSUME SearchWorkload
  PROVE  SpecQuiet => []SearchInv
<1>1. SearchInv /\ [NextQuiet]_vars => SearchInv'
  BY SearchStep
<1> QED BY <1>1, SearchInit, PTL DEF SpecQuiet

\* llvm_get_function's contract, "Return pointer to function funcname, which has
\* to exist": with the levels the level search chooses, and enableME set between
\* queries only, every first call of a compiled expression finds its function,
\* for any number of queries, contexts and functions.
THEOREM SearchedLevelsRun == ASSUME SearchWorkload PROVE SpecQuiet => []FunctionFound
<1>1. SearchInv => FunctionFound
  BY SearchInvImplies DEF SearchInv
<1> QED BY <1>1, SearchAlways, PTL

\* With the levels the level search chooses, llvm_release_context of another
\* context never removes the code that a running query still calls.
THEOREM SearchedCodeLives == ASSUME SearchWorkload PROVE SpecQuiet => []LiveCode
<1>1. SearchInv => LiveCode
  BY SearchInvImplies DEF SearchInv
<1> QED BY <1>1, SearchAlways, PTL
============================================================================
