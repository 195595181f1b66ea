---------------------------- MODULE ExprRegistry ----------------------------
(***************************************************************************)
(* The expression registry of globals.c: a hash table of EXPR_LIST_SIZE    *)
(* slots with linear probing that gives every expression a number.  The    *)
(* postmaster fills it from a file when it (re)creates shared memory       *)
(* (ipci.c, parse_expression_file in xlog.c), every backend gets a private *)
(* copy by fork, numbers further expressions by itself, and all of them    *)
(* append to one file, /data/expr_eeops.txt.                               *)
(*                                                                         *)
(* An expression is the sequence of its steps' opcodes.  The hash is the   *)
(* wrapping signed product of calculate_hash; HASH_LIMIT is 2^63 in the    *)
(* code.  Two expressions with the same hash and length are one expression *)
(* to the code.                                                            *)
(***************************************************************************)
EXTENDS Integers, Sequences, FiniteSets

CONSTANTS
  EXPR_LIST_SIZE,   \* slots of the table (256)
  HASH_LIMIT,       \* hashes range over -HASH_LIMIT .. HASH_LIMIT - 1
  Exprs,            \* the expressions that queries and the file contain
  StepsFile,        \* /data/Expression/expression_steps.txt, line by line
  Backends,
  Postmaster,
  NoTable,          \* exprTypes == NULL
  MaxLines          \* bound on the lines of expr_eeops.txt that differ

ASSUME SizeAssumption == EXPR_LIST_SIZE \in Nat \ {0}
ASSUME LimitAssumption == HASH_LIMIT \in Nat \ {0}
ASSUME PostmasterAssumption == Postmaster \notin Backends
ASSUME FileAssumption == StepsFile \in Seq(Exprs)
ASSUME BoundAssumption == MaxLines \in Nat

Procs == Backends \cup {Postmaster}

Slots == 0 .. EXPR_LIST_SIZE - 1

(***************************************************************************)
(* calculate_hash: hash = 17, then hash * 3 + step for every step, in a    *)
(* signed integer that wraps (the server is built with -fwrapv).           *)
(***************************************************************************)
Wrap(x) == ((x + HASH_LIMIT) % (2 * HASH_LIMIT)) - HASH_LIMIT

CalculateHash(steps) ==
  LET hash[i \in 0 .. Len(steps)] ==
        IF i = 0 THEN 17 ELSE Wrap(hash[i - 1] * 3 + steps[i])
  IN  hash[Len(steps)]

ASSUME ExprsAssumption == Exprs \subseteq Seq(Nat)

\* Seeded fault: the index counts from 1.
InitIndexFromOne(eHash) == (eHash % EXPR_LIST_SIZE) + 1

(***************************************************************************)
(* The index (int)(eHash % EXPR_LIST_SIZE): C's % has the sign of the      *)
(* hash, so the index of a negative hash lies in front of the table.       *)
(***************************************************************************)
InitIndex(eHash) ==
  IF eHash >= 0 THEN eHash % EXPR_LIST_SIZE ELSE -((-eHash) % EXPR_LIST_SIZE)

\* Seeded fault: a free slot is marked by number -1.
UnnumberedSlot == [hash |-> 0, step_lens |-> 0, expression_id |-> -1]

Slot == [hash : Int, step_lens : Nat, expression_id : Nat]

FreeSlot == [hash |-> 0, step_lens |-> 0, expression_id |-> 0]

ASSUME NoTableAssumption == NoTable \notin [Slots -> Slot]

EmptyTable == [s \in Slots |-> FreeSlot]

Occupied(t, s) == t[s].hash # 0

Matches(t, s, e) ==
  t[s].hash = CalculateHash(e) /\ t[s].step_lens = Len(e)

(***************************************************************************)
(* The probe sequence: tIndex++ with a wrap at EXPR_LIST_SIZE.             *)
(***************************************************************************)
Probe(e, i) ==
  LET x == InitIndex(CalculateHash(e)) + i
  IN  IF x < EXPR_LIST_SIZE THEN x ELSE x - EXPR_LIST_SIZE

\* Seeded fault: the probe looks for a free slot only.
StopsWhenFree(t, e, i) == ~Occupied(t, Probe(e, i))

StopsAt(t, e, i) == ~Occupied(t, Probe(e, i)) \/ Matches(t, Probe(e, i), e)

\* Seeded fault: the probe ends at the end of the table.
StopSlotNoWrap(t, e) ==
  LET ahead == {i \in Slots : Probe(e, i) >= Probe(e, 0) /\ StopsAt(t, e, i)}
  IN  IF ahead = {} THEN Probe(e, 0)
      ELSE Probe(e, CHOOSE i \in ahead : \A j \in ahead : i <= j)

(***************************************************************************)
(* Where the loop of find_expression and of add_expression stops: at the   *)
(* first slot that is free or holds the expression, or, when there is none,*)
(* back at initIndex.                                                      *)
(***************************************************************************)
FirstStop(t, e, i) ==
  StopsAt(t, e, i) /\ \A j \in 0 .. i - 1 : ~StopsAt(t, e, j)

StopSlot(t, e) ==
  IF \E i \in Slots : FirstStop(t, e, i)
  THEN Probe(e, CHOOSE i \in Slots : FirstStop(t, e, i))
  ELSE Probe(e, 0)

\* find_expression does not return NULL
Found(t, e) == Matches(t, StopSlot(t, e), e)

InTable(e) == InitIndex(CalculateHash(e)) \in Slots

VARIABLES
  phase,      \* of the postmaster: "down", "loading" or "up"
  enableME,   \* the postmaster's setting, read when shared memory is created
  pos,        \* lines of StepsFile read by parse_expression_file
  live,       \* the running backends
  wild,       \* processes that accessed memory outside their table
  table,      \* exprTypes of every process
  exprNum,    \* exprNum of every process
  lines       \* the lines of /data/expr_eeops.txt: <<number, steps>>

vars == <<phase, enableME, pos, live, wild, table, exprNum, lines>>

(***************************************************************************)
(* The state is well typed.                                                *)
(***************************************************************************)
TypeOK ==
  /\ phase \in {"down", "loading", "up"}
  /\ enableME \in BOOLEAN
  /\ pos \in 0 .. Len(StepsFile)
  /\ live \subseteq Backends
  /\ wild \subseteq Procs
  /\ table \in [Procs -> [Slots -> Slot] \cup {NoTable}]
  /\ exprNum \in [Procs -> Nat]
  /\ lines \subseteq (Nat \X Exprs)

Init ==
  /\ phase = "down" /\ enableME \in BOOLEAN /\ pos = 0
  /\ live = {} /\ wild = {}
  /\ table = [p \in Procs |-> NoTable]
  /\ exprNum = [p \in Procs |-> 0]
  /\ lines = {}

\* Seeded fault: the slot takes exprNum++ instead of ++exprNum.
AddPostIncrement(p, e) ==
  LET s == StopSlot(table[p], e) IN
  /\ InTable(e) /\ ~Occupied(table[p], s)
  /\ exprNum' = [exprNum EXCEPT ![p] = @ + 1]
  /\ table' = [table EXCEPT ![p][s] =
                 [hash |-> CalculateHash(e), step_lens |-> Len(e),
                  expression_id |-> exprNum[p]]]
  /\ lines' = lines \cup {<<exprNum[p], e>>}
  /\ UNCHANGED wild

\* Seeded fault: the line is written before exprNum is incremented.
AddStaleLine(p, e) ==
  LET s == StopSlot(table[p], e) IN
  /\ InTable(e) /\ ~Occupied(table[p], s)
  /\ exprNum' = [exprNum EXCEPT ![p] = @ + 1]
  /\ table' = [table EXCEPT ![p][s] =
                 [hash |-> CalculateHash(e), step_lens |-> Len(e),
                  expression_id |-> exprNum[p] + 1]]
  /\ lines' = lines \cup {<<exprNum[p], e>>}
  /\ UNCHANGED wild

\* Seeded fault: tIndex moves on once more before the slot is filled.
AddOneOff(p, e) ==
  LET s == StopSlot(table[p], e)
      next == IF s + 1 = EXPR_LIST_SIZE THEN 0 ELSE s + 1
  IN
  /\ InTable(e) /\ ~Occupied(table[p], next)
  /\ exprNum' = [exprNum EXCEPT ![p] = @ + 1]
  /\ table' = [table EXCEPT ![p][next] =
                 [hash |-> CalculateHash(e), step_lens |-> Len(e),
                  expression_id |-> exprNum[p] + 1]]
  /\ lines' = lines \cup {<<exprNum[p] + 1, e>>}
  /\ UNCHANGED wild

(***************************************************************************)
(* add_expression in process p.  A known expression changes nothing; a new *)
(* one gets the next number, the free slot and a line in the file; with no *)
(* free slot it gets neither.  An index outside the table is undefined     *)
(* behaviour: the process is marked and nothing more is said of it.        *)
(***************************************************************************)
AddExpression(p, e) ==
  LET s == StopSlot(table[p], e) IN
  IF ~InTable(e)
  THEN wild' = wild \cup {p} /\ UNCHANGED <<table, exprNum, lines>>
  ELSE /\ UNCHANGED wild
       /\ IF Occupied(table[p], s)
          THEN UNCHANGED <<table, exprNum, lines>>
          ELSE /\ exprNum' = [exprNum EXCEPT ![p] = @ + 1]
               /\ table' = [table EXCEPT ![p][s] =
                              [hash |-> CalculateHash(e), step_lens |-> Len(e),
                               expression_id |-> exprNum[p] + 1]]
               /\ lines' = lines \cup {<<exprNum[p] + 1, e>>}

(***************************************************************************)
(* CreateSharedMemoryAndSemaphores: with enableME the postmaster allocates *)
(* and clears a table and reads the file into it; exprNum is not reset.    *)
(***************************************************************************)
CreateTable ==
  /\ pos' = 0
  /\ IF enableME
     THEN phase' = "loading" /\ table' = [p \in Procs |->
            IF p = Postmaster THEN EmptyTable ELSE NoTable]
     ELSE phase' = "up" /\ table' = [p \in Procs |->
            IF p = Postmaster THEN table[p] ELSE NoTable]

Start ==
  /\ phase = "down"
  /\ CreateTable
  /\ UNCHANGED <<enableME, live, wild, exprNum, lines>>

\* one line of the file; the number written in it is read and ignored
ParseLine ==
  /\ phase = "loading" /\ pos < Len(StepsFile) /\ Postmaster \notin wild
  /\ AddExpression(Postmaster, StepsFile[pos + 1])
  /\ pos' = pos + 1
  /\ UNCHANGED <<phase, enableME, live>>

ParseEnd ==
  /\ phase = "loading" /\ pos = Len(StepsFile)
  /\ phase' = "up"
  /\ UNCHANGED <<enableME, pos, live, wild, table, exprNum, lines>>

\* the postmaster's configuration file is reloaded
Reload ==
  /\ phase = "up"
  /\ enableME' = ~enableME
  /\ UNCHANGED <<phase, pos, live, wild, table, exprNum, lines>>

\* Seeded fault: a backend starts with an empty table of its own.
ForkEmpty(b) ==
  /\ phase = "up" /\ b \notin live
  /\ live' = live \cup {b}
  /\ table' = [table EXCEPT ![b] = EmptyTable]
  /\ exprNum' = [exprNum EXCEPT ![b] = 0]
  /\ UNCHANGED <<phase, enableME, pos, wild, lines>>

Fork(b) ==
  /\ phase = "up" /\ b \notin live
  /\ live' = live \cup {b}
  /\ table' = [table EXCEPT ![b] = table[Postmaster]]
  /\ exprNum' = [exprNum EXCEPT ![b] = exprNum[Postmaster]]
  /\ UNCHANGED <<phase, enableME, pos, wild, lines>>

\* jit_compile_expr, or a counter of the interpreter, registers e
Register(b, e) ==
  /\ b \in live \ wild /\ table[b] # NoTable /\ Cardinality(lines) < MaxLines
  /\ AddExpression(b, e)
  /\ UNCHANGED <<phase, enableME, pos, live>>

Exit(b) ==
  /\ b \in live
  /\ live' = live \ {b} /\ wild' = wild \ {b}
  /\ table' = [table EXCEPT ![b] = NoTable]
  /\ exprNum' = [exprNum EXCEPT ![b] = 0]
  /\ UNCHANGED <<phase, enableME, pos, lines>>

(***************************************************************************)
(* A backend dies (add_expression through a NULL table is one way): the    *)
(* postmaster ends all others and creates shared memory again, in the same *)
(* process.                                                                *)
(***************************************************************************)
Crash ==
  /\ phase = "up" /\ live # {}
  /\ Cardinality(lines) + Len(StepsFile) <= MaxLines
  /\ live' = {} /\ wild' = {}
  /\ CreateTable
  /\ exprNum' = [p \in Procs |-> IF p = Postmaster THEN exprNum[p] ELSE 0]
  /\ UNCHANGED <<enableME, lines>>

(***************************************************************************)
(* The server stops, or the postmaster dies while it loads (fclose of a    *)
(* NULL file when expr_eeops.txt cannot be opened); only the file survives.*)
(***************************************************************************)
Stop ==
  /\ phase # "down"
  /\ phase' = "down" /\ pos' = 0 /\ live' = {} /\ wild' = {}
  /\ table' = [p \in Procs |-> NoTable]
  /\ exprNum' = [p \in Procs |-> 0]
  /\ enableME' \in BOOLEAN
  /\ UNCHANGED lines

Next ==
  \/ Start \/ ParseLine \/ ParseEnd \/ Reload \/ Crash \/ Stop
  \/ \E b \in Backends : Fork(b) \/ Exit(b)
  \/ \E b \in Backends, e \in Exprs : Register(b, e)

Spec == Init /\ [][Next]_vars

(***************************************************************************)
(* PROPERTIES                                                              *)
(***************************************************************************)
Running == live \cup (IF phase = "down" THEN {} ELSE {Postmaster})

Tabled(p) == table[p] # NoTable

(***************************************************************************)
(* No process ever indexes exprTypes outside its EXPR_LIST_SIZE slots      *)
(* (globals.c: tIndex = eHash % EXPR_LIST_SIZE).                           *)
(***************************************************************************)
IndexInTable == wild = {}

(***************************************************************************)
(* In one process no two expressions have the same number and no two slots *)
(* the same expression, although exprNum lives on when the table is        *)
(* rebuilt after a crash: the numbers that report.csv and jit.csv print    *)
(* identify expressions.                                                   *)
(***************************************************************************)
TableUnique(t, n) ==
  \A s \in Slots : Occupied(t, s) =>
    /\ t[s].expression_id \in 1 .. n
    /\ \A r \in Slots \ {s} : Occupied(t, r) =>
         /\ t[r].expression_id # t[s].expression_id
         /\ <<t[r].hash, t[r].step_lens>> # <<t[s].hash, t[s].step_lens>>

NumbersUnique ==
  \A p \in Procs : Tabled(p) => TableUnique(table[p], exprNum[p])

(***************************************************************************)
(* A stored expression is found again by find_expression, whatever was     *)
(* inserted between its first slot and its own, and however full the table *)
(* is: its number is given once and never again.                           *)
(***************************************************************************)
FoundAgain ==
  \A p \in Procs : Tabled(p) => \A e \in Exprs, s \in Slots :
    (InTable(e) /\ Occupied(table[p], s) /\ Matches(table[p], s, e)) =>
      StopSlot(table[p], e) = s

(***************************************************************************)
(* Every running backend numbers the expressions of the file as the        *)
(* postmaster does: statistics of several sessions can be joined on them.  *)
(* A backend may have started without a table, never with another one.     *)
(***************************************************************************)
Agreement ==
  \A b \in live : \A s \in Slots :
    (Tabled(Postmaster) /\ Occupied(table[Postmaster], s)) =>
      Tabled(b) /\ table[b][s] = table[Postmaster][s]

(***************************************************************************)
(* Every number in use in a running process is explained by a line of      *)
(* expr_eeops.txt that spells an expression with the slot's hash and       *)
(* length: the analysis scripts can resolve every number they meet.        *)
(***************************************************************************)
NumbersWritten ==
  \A p \in Running : Tabled(p) => \A s \in Slots : Occupied(table[p], s) =>
    \E line \in lines : /\ line[1] = table[p][s].expression_id
                        /\ Matches(table[p], s, line[2])

(***************************************************************************)
(* add_expression refuses to number an expression (and jit_compile_expr    *)
(* then leaves it out of all tables) only when no slot is free.            *)
(***************************************************************************)
RefusedOnlyWhenFull ==
  \A p \in Procs : Tabled(p) => \A e \in Exprs :
    (InTable(e) /\ Occupied(table[p], StopSlot(table[p], e)) /\ ~Found(table[p], e))
      => \A s \in Slots : Occupied(table[p], s)

(***************************************************************************)
(* The hash table implements a numbering.                                  *)
(***************************************************************************)
Keys == {<<CalculateHash(e), Len(e)>> : e \in Exprs}

TableNumbering(t) ==
  {<<<<t[s].hash, t[s].step_lens>>, t[s].expression_id>> :
     s \in {x \in Slots : Occupied(t, x)}}

NumberingMap == [p \in Procs |-> IF Tabled(p) THEN TableNumbering(table[p]) ELSE {}]

Numbering == INSTANCE ExprNumbering WITH numbering <- NumberingMap

(***************************************************************************)
(* Every step of the registry is, on the numbers it gives out, a step of   *)
(* the abstract numbering: add_expression never numbers an expression      *)
(* twice, never reuses or changes a number, and a fork copies.             *)
(***************************************************************************)
ImplementsNumbering == Numbering!NumberingSpec
=============================================================================
