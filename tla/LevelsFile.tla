----------------------------- MODULE LevelsFile -----------------------------
(***************************************************************************)
(* How predicted levels reach a statement.  The prediction script emits    *)
(* one row per expression (predict_cost_result.py), Aggreate.py joins the  *)
(* rows of a statement into one line of a CSV file, padded to the longest  *)
(* line, and exec_simple_query reads that file (levelsFile) for every      *)
(* statement in test mode and writes the levels of the line that matches   *)
(* database and query into currentExprJITLevels.                           *)
(*                                                                         *)
(* A field of the file is [kind, value]: a database name, a number or the  *)
(* empty string.                                                           *)
(***************************************************************************)
EXTENDS Integers, Sequences

CONSTANTS
  Databases,
  QueryIds,        \* the known queries, as identify_query numbers them
  Levels,          \* the levels the model may predict
  EXPR_MAX_NUM,
  MaxRows,         \* bound on the rows of one prediction
  MaxFiles,        \* bound on the files published
  NoText

\* Test mode knows the levels 0 to 3.
ASSUME InputsAssumption ==
  /\ Levels \subseteq 0 .. 3 /\ QueryIds \subseteq Int
  /\ EXPR_MAX_NUM \in Nat \ {0} /\ MaxFiles \in Nat /\ NoText \notin QueryIds

VARIABLES
  rows,            \* rows predicted since the last file was written
  source,          \* the rows of the file that exists
  file,            \* its lines; no line when there is none yet
  files,           \* number of files written
  database,        \* databaseName of the session
  statement,       \* query id of currentStatement, or NoText
  levels,          \* currentExprJITLevels
  repeated,        \* the statement repeats the text before it
  predicted        \* history: its levels in source when it read the file

vars == <<rows, source, file, files, database, statement, levels, repeated, predicted>>

Row == [db : Databases, id : QueryIds, level : Levels]
Pos == 0 .. EXPR_MAX_NUM - 1
AllZero == [i \in Pos |-> 0]

Init ==
  /\ rows = <<>> /\ source = <<>> /\ file = <<>> /\ files = 0
  /\ database \in Databases /\ statement = NoText
  /\ levels = AllZero /\ repeated = FALSE /\ predicted = <<>>

----------------------------------------------------------------------------
(* The prediction script.                                                  *)

\* The levels in the first i of the rows rs for query q of database d.
AddLevel(ls, r, d, q) == IF r.db = d /\ r.id = q THEN Append(ls, r.level) ELSE ls

LevelsUpTo(rs, d, q) ==
  LET upTo[i \in 0 .. Len(rs)] ==
        IF i = 0 THEN <<>> ELSE AddLevel(upTo[i - 1], rs[i], d, q)
  IN  upTo

OfStatement(rs, d, q) == LevelsUpTo(rs, d, q)[Len(rs)]

\* A prediction; a statement has at most EXPR_MAX_NUM expressions.
Predict(r) ==
  /\ files < MaxFiles /\ Len(rows) < MaxRows
  /\ Len(OfStatement(rows, r.db, r.id)) < EXPR_MAX_NUM
  /\ rows' = Append(rows, r)
  /\ UNCHANGED <<source, file, files, database, statement, levels, repeated, predicted>>

Db(d)  == [kind |-> "db", value |-> d]
Num(n) == [kind |-> "num", value |-> n]
Blank  == [kind |-> "empty", value |-> 0]

(***************************************************************************)
(* aggregate_predictions: a dictionary from (database, query) to the list  *)
(* of levels, in the order in which the keys appear.                       *)
(***************************************************************************)
AddRow(dict, r) ==
  IF \E k \in DOMAIN dict : dict[k].db = r.db /\ dict[k].id = r.id
  THEN [k \in DOMAIN dict |->
          IF dict[k].db = r.db /\ dict[k].id = r.id
          THEN [dict[k] EXCEPT !.levels = Append(@, r.level)] ELSE dict[k]]
  ELSE Append(dict, [db |-> r.db, id |-> r.id, levels |-> <<r.level>>])

DictionaryUpTo(rs) ==
  LET dict[i \in 0 .. Len(rs)] == IF i = 0 THEN <<>> ELSE AddRow(dict[i - 1], rs[i])
  IN  dict

Dictionary(rs) == DictionaryUpTo(rs)[Len(rs)]

Padding(n, longest) == [i \in 1 .. longest - n |-> Blank]

Longest(dict) ==
  CHOOSE n \in {Len(dict[k].levels) : k \in DOMAIN dict} :
    \A k \in DOMAIN dict : Len(dict[k].levels) <= n

Line(x, longest) ==
  <<Db(x.db), Num(x.id)>> \o [i \in DOMAIN x.levels |-> Num(x.levels[i])]
  \o Padding(Len(x.levels), longest)

\* to_csv writes the column numbers as the first line.
Aggregate(rs) ==
  LET dict    == Dictionary(rs)
      longest == Longest(dict)
  IN  <<[i \in 1 .. longest + 2 |-> Num(i - 1)]>>
      \o [k \in DOMAIN dict |-> Line(dict[k], longest)]

Publish ==
  /\ rows # <<>>
  /\ source' = rows /\ file' = Aggregate(rows) /\ files' = files + 1
  /\ rows' = <<>>
  /\ UNCHANGED <<database, statement, levels, repeated, predicted>>

----------------------------------------------------------------------------
(* The server.                                                             *)

\* Seeded fault: the third token is taken for the second level.
LevelPosShifted(token_num) == token_num - 2

LevelPos(token_num) == token_num - 3

(***************************************************************************)
(* One token of a line.  st holds the level array, match, the number of    *)
(* the token and whether the loop over the line was left.                  *)
(***************************************************************************)
Leave(st) == [st EXCEPT !.match = FALSE, !.left = TRUE]

\* Seeded fault: the query number falls through to the levels, unchecked.
ReadTokenThrough(st, token, d, q) ==
  LET n  == st.token_num
      on == [st EXCEPT !.token_num = n + 1]
  IN  IF st.left THEN st
      ELSE IF n = 1 THEN IF token = Db(d) THEN on ELSE Leave(st)
      ELSE IF n = 2 /\ token.value # q THEN Leave(st)
      ELSE IF n - 2 > EXPR_MAX_NUM THEN Leave(st)
      ELSE [on EXCEPT !.levels[n - 2] = token.value]

ReadToken(st, token, d, q) ==
  LET n  == st.token_num
      on == [st EXCEPT !.token_num = n + 1]
  IN  IF st.left THEN st
      ELSE IF n = 1 THEN IF token = Db(d) THEN on ELSE Leave(st)
      ELSE IF token.kind # "num" THEN [on EXCEPT !.match = FALSE]
      ELSE IF n = 2 THEN IF token.value # q THEN Leave(st) ELSE on
      ELSE IF n - 2 > EXPR_MAX_NUM \/ token.value \notin 0 .. 3 THEN Leave(st)
      ELSE [on EXCEPT !.levels[LevelPos(n)] = token.value]

\* strtok skips empty fields
ReadField(st, field, d, q) ==
  IF field.kind = "empty" THEN st ELSE ReadToken(st, field, d, q)

StartLine(st) == [st EXCEPT !.token_num = 1, !.left = FALSE]

\* The state after i fields of a line.
FieldsRead(st, line, d, q) ==
  LET after[i \in 0 .. Len(line)] ==
        IF i = 0 THEN StartLine(st) ELSE ReadField(after[i - 1], line[i], d, q)
  IN  after

(***************************************************************************)
(* One line.  The line end after an empty last field makes one more token, *)
(* which reads as the number 0; match is never set again once it is false. *)
(***************************************************************************)
ReadLine(st, line, d, q) ==
  IF st.done THEN st
  ELSE LET fields == FieldsRead(st, line, d, q)[Len(line)]
           end    == IF line[Len(line)].kind = "empty"
                     THEN ReadToken(fields, Num(0), d, q) ELSE fields
       IN  [end EXCEPT !.done = end.match]

StartFile(before) ==
  [levels |-> before, match |-> TRUE, token_num |-> 1, left |-> FALSE, done |-> FALSE]

\* The state after i lines of the file.
LinesRead(lines, d, q, before) ==
  LET after[i \in 0 .. Len(lines)] ==
        IF i = 0 THEN StartFile(before) ELSE ReadLine(after[i - 1], lines[i], d, q)
  IN  after

ReadLevelsFile(d, q, before) == LinesRead(file, d, q, before)[Len(file)].levels

\* Seeded fault: a new text starts with the levels of the last one.
StartLevelsKept(q) == levels

StartLevels(q) == IF q = statement THEN levels ELSE AllZero

\* exec_simple_query in test mode; a repetition keeps the level array
Receive(q) ==
  /\ file # <<>>
  /\ statement' = q
  /\ levels' = ReadLevelsFile(database, q, StartLevels(q))
  /\ repeated' = (q = statement)
  /\ predicted' = OfStatement(source, database, q)
  /\ UNCHANGED <<rows, source, file, files, database>>

Connect(d) ==
  /\ database' = d /\ statement' = NoText /\ levels' = AllZero
  /\ repeated' = FALSE /\ predicted' = <<>>
  /\ UNCHANGED <<rows, source, file, files>>

Next ==
  \/ \E r \in Row : Predict(r)
  \/ Publish
  \/ \E q \in QueryIds : Receive(q)
  \/ \E d \in Databases \ {database} : Connect(d)

Spec == Init /\ [][Next]_vars

----------------------------------------------------------------------------
(* Properties.                                                             *)

\* Type correctness.
TypeOK ==
  /\ rows \in Seq(Row) /\ source \in Seq(Row)
  /\ predicted \in Seq(Levels) /\ repeated \in BOOLEAN
  /\ files \in 0 .. MaxFiles
  /\ database \in Databases /\ statement \in QueryIds \cup {NoText}
  /\ levels \in [Pos -> 0 .. 3]

(***************************************************************************)
(* The levels predicted for a statement, in the order of the predictions,  *)
(* are the levels its expressions get: neither the header, the padding nor *)
(* the lines of other statements before or after it change them, although  *)
(* match is never reset (postgres.c, the reader of levelsFile).            *)
(***************************************************************************)
RoundTrip == \A i \in DOMAIN predicted : levels[i - 1] = predicted[i]

(***************************************************************************)
(* A text that is run for the first time has the interpreter's level 0     *)
(* wherever its line gives none: nothing comes from the statement before   *)
(* it, from a line of the same query in another database, or from the      *)
(* token that the line end makes after padding.                            *)
(***************************************************************************)
NothingBorrowed ==
  ~ repeated => \A i \in Pos : i >= Len(predicted) => levels[i] = 0
=============================================================================
