-------------------------- MODULE LevelsFileProofs --------------------------
(***************************************************************************)
(* What the server reads from the levels file is what was predicted, for   *)
(* any databases and queries, any number of rows and files and any length  *)
(* of the level array.                                                     *)
(*                                                                         *)
(* The argument.  The dictionary of aggregate_predictions has one entry    *)
(* per statement with the levels of its rows (DictOK); the file is a line  *)
(* of column numbers and one line per entry (FileOf).  The first line      *)
(* makes match false for good, so the reader never stops early and goes    *)
(* through every line: the lines of other statements are left before they  *)
(* touch a level (OtherLine), the one of the statement gives its levels    *)
(* (OwnLine), and there is only one (EntryRead).                           *)
(***************************************************************************)
EXTENDS LevelsFile, BoundedRecursion, SequenceTheorems, TLAPS

Entry == [db : Databases, id : QueryIds, levels : Seq(Levels)]

LevelArrays == [Pos -> 0 .. 3]

State == [levels : LevelArrays, match : BOOLEAN, token_num : Nat \ {0},
          left : BOOLEAN, done : BOOLEAN]

----------------------------------------------------------------------------
(* The loops: each is the function that its recursion describes.           *)

\* The levels of a statement, row by row.
LEMMA LevelsSteps ==
  ASSUME NEW rs \in Seq(Row), NEW d, NEW q
  PROVE  LET U == LevelsUpTo(rs, d, q) IN
         /\ U \in [0 .. Len(rs) -> Seq(Levels)] /\ U[0] = <<>>
         /\ \A k \in 1 .. Len(rs) : U[k] = AddLevel(U[k - 1], rs[k], d, q)
<1> DEFINE n == Len(rs)
           S == Seq(Levels)
           H == CHOOSE h : h = [i \in 0 .. n |->
                  IF i = 0 THEN <<>> ELSE AddLevel(h[i - 1], rs[i], d, q)]
           step == [k \in 1 .. n |-> [x \in S |-> AddLevel(x, rs[k], d, q)]]
<1>1. n \in Nat /\ <<>> \in S
  OBVIOUS
<1>2. LevelsUpTo(rs, d, q) = H
  BY Zenon DEF LevelsUpTo
<1>3. \A k \in 1 .. n, x \in S : AddLevel(x, rs[k], d, q) \in S
  <2> SUFFICES ASSUME NEW k \in 1 .. n, NEW x \in S PROVE AddLevel(x, rs[k], d, q) \in S
    OBVIOUS
  <2>1. rs[k] \in Row
    OBVIOUS
  <2>2. rs[k].level \in Levels
    BY <2>1 DEF Row
  <2> QED
    BY <2>2 DEF AddLevel
<1> HIDE DEF n, S
<1>4. step \in Steps(n, S)
  BY <1>3 DEF Steps
<1>5. PICK f \in [0 .. n -> S] : Iterates(f, n, <<>>, step)
  <2> HIDE DEF step
  <2> QED
    BY <1>1, <1>4, RecursionExists
<1>6. f = [i \in 0 .. n |-> IF i = 0 THEN <<>> ELSE AddLevel(f[i - 1], rs[i], d, q)]
  <2>1. ASSUME NEW i \in 0 .. n, i # 0 PROVE f[i] = AddLevel(f[i - 1], rs[i], d, q)
    <3>1. i \in 1 .. n /\ f[i - 1] \in S
      BY <1>1, <2>1
    <3>2. f[i] = step[i][f[i - 1]]
      BY <1>5, <2>1, Zenon DEF Iterates
    <3> QED
      BY <3>1, <3>2
  <2> QED
    BY <1>5, <2>1, Zenon DEF Iterates
<1>7. H = [i \in 0 .. n |-> IF i = 0 THEN <<>> ELSE AddLevel(H[i - 1], rs[i], d, q)]
  BY <1>6, Zenon
<1> HIDE DEF H
<1>8. H = [i \in 0 .. n |-> H[i]] /\ H[0] = <<>>
  BY <1>1, <1>7
<1>9. ASSUME NEW k \in 1 .. n PROVE H[k] = AddLevel(H[k - 1], rs[k], d, q)
  <2>1. k \in 0 .. n /\ k # 0
    BY <1>1
  <2> QED
    BY <1>7, <2>1, Zenon
<1>10. \A k \in 1 .. n : H[k - 1] \in S => H[k] = step[k][H[k - 1]]
  BY <1>9
<1>11. H \in [0 .. n -> S]
  <2>1. Unfolds(H, n, S, <<>>, step)
    BY <1>8, <1>10, Zenon DEF Unfolds
  <2> HIDE DEF step
  <2> QED
    BY <1>1, <1>4, <2>1, RecursionTyped
<1> QED
  BY <1>2, <1>8, <1>9, <1>11, Zenon DEF n, S

\* One row leaves a dictionary a dictionary.
LEMMA AddRowTyped ==
  ASSUME NEW D \in Seq(Entry), NEW r \in Row
  PROVE  AddRow(D, r) \in Seq(Entry)
<1>1. r.db \in Databases /\ r.id \in QueryIds /\ r.level \in Levels
  BY DEF Row
<1>2. CASE \E k \in DOMAIN D : D[k].db = r.db /\ D[k].id = r.id
  <2> DEFINE E(k) == IF D[k].db = r.db /\ D[k].id = r.id
                     THEN [D[k] EXCEPT !.levels = Append(@, r.level)] ELSE D[k]
  <2>1. ASSUME NEW k \in 1 .. Len(D) PROVE E(k) \in Entry
    <3>1. D[k] \in Entry
      OBVIOUS
    <3>2. Append(D[k].levels, r.level) \in Seq(Levels)
      BY <1>1, <3>1 DEF Entry
    <3> QED
      BY <3>1, <3>2, Zenon DEF Entry
  <2>2. AddRow(D, r) = [k \in 1 .. Len(D) |-> E(k)]
    <3>1. AddRow(D, r) = [k \in DOMAIN D |-> E(k)]
      BY <1>2, Zenon DEF AddRow
    <3> QED
      BY <3>1
  <2> HIDE DEF E
  <2> QED
    BY <2>1, <2>2
<1>3. CASE ~ \E k \in DOMAIN D : D[k].db = r.db /\ D[k].id = r.id
  <2>1. <<r.level>> \in Seq(Levels)
    BY <1>1
  <2>2. [db |-> r.db, id |-> r.id, levels |-> <<r.level>>] \in Entry
    BY <1>1, <2>1 DEF Entry
  <2>3. AddRow(D, r) = Append(D, [db |-> r.db, id |-> r.id, levels |-> <<r.level>>])
    BY <1>3 DEF AddRow
  <2> QED
    BY <2>2, <2>3
<1> QED
  BY <1>2, <1>3

\* The dictionary, row by row.
LEMMA DictionarySteps ==
  ASSUME NEW rs \in Seq(Row)
  PROVE  LET U == DictionaryUpTo(rs) IN
         /\ U \in [0 .. Len(rs) -> Seq(Entry)] /\ U[0] = <<>>
         /\ \A k \in 1 .. Len(rs) : U[k] = AddRow(U[k - 1], rs[k])
<1> DEFINE n == Len(rs)
           S == Seq(Entry)
           H == CHOOSE h : h = [i \in 0 .. n |->
                  IF i = 0 THEN <<>> ELSE AddRow(h[i - 1], rs[i])]
           step == [k \in 1 .. n |-> [x \in S |-> AddRow(x, rs[k])]]
<1>1. n \in Nat /\ <<>> \in S
  OBVIOUS
<1>2. DictionaryUpTo(rs) = H
  BY Zenon DEF DictionaryUpTo
<1>3. \A k \in 1 .. n, x \in S : AddRow(x, rs[k]) \in S
  BY AddRowTyped
<1> HIDE DEF n, S
<1>4. step \in Steps(n, S)
  BY <1>3 DEF Steps
<1>5. PICK f \in [0 .. n -> S] : Iterates(f, n, <<>>, step)
  <2> HIDE DEF step
  <2> QED
    BY <1>1, <1>4, RecursionExists
<1>6. f = [i \in 0 .. n |-> IF i = 0 THEN <<>> ELSE AddRow(f[i - 1], rs[i])]
  <2>1. ASSUME NEW i \in 0 .. n, i # 0 PROVE f[i] = AddRow(f[i - 1], rs[i])
    <3>1. i \in 1 .. n /\ f[i - 1] \in S
      BY <1>1, <2>1
    <3>2. f[i] = step[i][f[i - 1]]
      BY <1>5, <2>1, Zenon DEF Iterates
    <3> QED
      BY <3>1, <3>2
  <2> QED
    BY <1>5, <2>1, Zenon DEF Iterates
<1>7. H = [i \in 0 .. n |-> IF i = 0 THEN <<>> ELSE AddRow(H[i - 1], rs[i])]
  BY <1>6, Zenon
<1> HIDE DEF H
<1>8. H = [i \in 0 .. n |-> H[i]] /\ H[0] = <<>>
  BY <1>1, <1>7
<1>9. ASSUME NEW k \in 1 .. n PROVE H[k] = AddRow(H[k - 1], rs[k])
  <2>1. k \in 0 .. n /\ k # 0
    BY <1>1
  <2> QED
    BY <1>7, <2>1, Zenon
<1>10. \A k \in 1 .. n : H[k - 1] \in S => H[k] = step[k][H[k - 1]]
  BY <1>9
<1>11. H \in [0 .. n -> S]
  <2>1. Unfolds(H, n, S, <<>>, step)
    BY <1>8, <1>10, Zenon DEF Unfolds
  <2> HIDE DEF step
  <2> QED
    BY <1>1, <1>4, <2>1, RecursionTyped
<1> QED
  BY <1>2, <1>8, <1>9, <1>11, Zenon DEF n, S

\* One token leaves the state of the reader a state.
LEMMA ReadTokenTyped ==
  ASSUME NEW st \in State, NEW token, NEW d, NEW q
  PROVE  ReadToken(st, token, d, q) \in State
<1> DEFINE n  == st.token_num
           on == [st EXCEPT !.token_num = n + 1]
<1>0. n \in Nat \ {0} /\ n + 1 \in Nat \ {0}
  BY DEF State
<1>1. on \in State /\ Leave(st) \in State /\ [on EXCEPT !.match = FALSE] \in State
  BY <1>0, Zenon DEF State, Leave
<1>2. ASSUME n # 1, n # 2, ~ (n - 2 > EXPR_MAX_NUM \/ token.value \notin 0 .. 3)
      PROVE  [on EXCEPT !.levels[LevelPos(n)] = token.value] \in State
  <2>1. LevelPos(n) \in Pos
    BY <1>0, <1>2, InputsAssumption DEF LevelPos, Pos
  <2>2. on.levels \in LevelArrays
    BY <1>1 DEF State
  <2>3. [on.levels EXCEPT ![LevelPos(n)] = token.value] \in LevelArrays
    BY <1>2, <2>1, <2>2 DEF LevelArrays
  <2> QED
    BY <1>1, <2>3, Zenon DEF State
<1> QED
  BY <1>0, <1>1, <1>2 DEF ReadToken

\* A line and a file begin with a state.
LEMMA StartTyped ==
  /\ \A st \in State : StartLine(st) \in State
  /\ \A before \in LevelArrays : StartFile(before) \in State
<1>1. 1 \in Nat \ {0}
  OBVIOUS
<1> QED
  BY <1>1, Zenon DEF State, StartLine, StartFile

\* The loop over a line, field by field.
LEMMA FieldSteps ==
  ASSUME NEW st \in State, NEW line, Len(line) \in Nat, NEW d, NEW q
  PROVE  LET U == FieldsRead(st, line, d, q) IN
         /\ U \in [0 .. Len(line) -> State] /\ U[0] = StartLine(st)
         /\ \A k \in 1 .. Len(line) : U[k] = ReadField(U[k - 1], line[k], d, q)
<1> DEFINE n == Len(line)
           S == State
           H == CHOOSE h : h = [i \in 0 .. n |->
                  IF i = 0 THEN StartLine(st) ELSE ReadField(h[i - 1], line[i], d, q)]
           step == [k \in 1 .. n |-> [x \in S |-> ReadField(x, line[k], d, q)]]
<1>1. n \in Nat /\ StartLine(st) \in S
  BY StartTyped
<1>2. FieldsRead(st, line, d, q) = H
  BY Zenon DEF FieldsRead
<1>3. \A k \in 1 .. n, x \in S : ReadField(x, line[k], d, q) \in S
  BY ReadTokenTyped DEF ReadField
<1> HIDE DEF n, S
<1>4. step \in Steps(n, S)
  BY <1>3 DEF Steps
<1>5. PICK f \in [0 .. n -> S] : Iterates(f, n, StartLine(st), step)
  <2> HIDE DEF step
  <2> QED
    BY <1>1, <1>4, RecursionExists
<1>6. f = [i \in 0 .. n |-> IF i = 0 THEN StartLine(st) ELSE ReadField(f[i - 1], line[i], d, q)]
  <2>1. ASSUME NEW i \in 0 .. n, i # 0 PROVE f[i] = ReadField(f[i - 1], line[i], d, q)
    <3>1. i \in 1 .. n /\ f[i - 1] \in S
      BY <1>1, <2>1
    <3>2. f[i] = step[i][f[i - 1]]
      BY <1>5, <2>1, Zenon DEF Iterates
    <3> QED
      BY <3>1, <3>2
  <2> QED
    BY <1>5, <2>1, Zenon DEF Iterates
<1>7. H = [i \in 0 .. n |-> IF i = 0 THEN StartLine(st) ELSE ReadField(H[i - 1], line[i], d, q)]
  BY <1>6, Zenon
<1> HIDE DEF H
<1>8. H = [i \in 0 .. n |-> H[i]] /\ H[0] = StartLine(st)
  BY <1>1, <1>7
<1>9. ASSUME NEW k \in 1 .. n PROVE H[k] = ReadField(H[k - 1], line[k], d, q)
  <2>1. k \in 0 .. n /\ k # 0
    BY <1>1
  <2> QED
    BY <1>7, <2>1, Zenon
<1>10. \A k \in 1 .. n : H[k - 1] \in S => H[k] = step[k][H[k - 1]]
  BY <1>9
<1>11. H \in [0 .. n -> S]
  <2>1. Unfolds(H, n, S, StartLine(st), step)
    BY <1>8, <1>10, Zenon DEF Unfolds
  <2> HIDE DEF step
  <2> QED
    BY <1>1, <1>4, <2>1, RecursionTyped
<1> QED
  BY <1>2, <1>8, <1>9, <1>11, Zenon DEF n, S

\* One line leaves the state of the reader a state.
LEMMA ReadLineTyped ==
  ASSUME NEW st \in State, NEW line, Len(line) \in Nat, NEW d, NEW q
  PROVE  ReadLine(st, line, d, q) \in State
<1> DEFINE fields == FieldsRead(st, line, d, q)[Len(line)]
           end    == IF line[Len(line)].kind = "empty"
                     THEN ReadToken(fields, Num(0), d, q) ELSE fields
<1>1. fields \in State
  BY FieldSteps
<1>2. end \in State
  BY <1>1, ReadTokenTyped
<1>3. ReadLine(st, line, d, q) = IF st.done THEN st ELSE [end EXCEPT !.done = end.match]
  BY DEF ReadLine
<1> HIDE DEF end
<1> QED
  BY <1>2, <1>3 DEF State


\* The loop over the file, line by line.
LEMMA LineSteps ==
  ASSUME NEW lines, Len(lines) \in Nat, NEW before \in LevelArrays, NEW d, NEW q,
         \A i \in 1 .. Len(lines) : Len(lines[i]) \in Nat
  PROVE  LET U == LinesRead(lines, d, q, before) IN
         /\ U \in [0 .. Len(lines) -> State] /\ U[0] = StartFile(before)
         /\ \A k \in 1 .. Len(lines) : U[k] = ReadLine(U[k - 1], lines[k], d, q)
<1> DEFINE n == Len(lines)
           S == State
           H == CHOOSE h : h = [i \in 0 .. n |->
                  IF i = 0 THEN StartFile(before) ELSE ReadLine(h[i - 1], lines[i], d, q)]
           step == [k \in 1 .. n |-> [x \in S |-> ReadLine(x, lines[k], d, q)]]
<1>1. n \in Nat /\ StartFile(before) \in S
  BY StartTyped
<1>2. LinesRead(lines, d, q, before) = H
  BY Zenon DEF LinesRead
<1>3. \A k \in 1 .. n, x \in S : ReadLine(x, lines[k], d, q) \in S
  BY ReadLineTyped
<1> HIDE DEF n, S
<1>4. step \in Steps(n, S)
  BY <1>3 DEF Steps
<1>5. PICK f \in [0 .. n -> S] : Iterates(f, n, StartFile(before), step)
  <2> HIDE DEF step
  <2> QED
    BY <1>1, <1>4, RecursionExists
<1>6. f = [i \in 0 .. n |-> IF i = 0 THEN StartFile(before) ELSE ReadLine(f[i - 1], lines[i], d, q)]
  <2>1. ASSUME NEW i \in 0 .. n, i # 0 PROVE f[i] = ReadLine(f[i - 1], lines[i], d, q)
    <3>1. i \in 1 .. n /\ f[i - 1] \in S
      BY <1>1, <2>1
    <3>2. f[i] = step[i][f[i - 1]]
      BY <1>5, <2>1, Zenon DEF Iterates
    <3> QED
      BY <3>1, <3>2
  <2> QED
    BY <1>5, <2>1, Zenon DEF Iterates
<1>7. H = [i \in 0 .. n |-> IF i = 0 THEN StartFile(before) ELSE ReadLine(H[i - 1], lines[i], d, q)]
  BY <1>6, Zenon
<1> HIDE DEF H
<1>8. H = [i \in 0 .. n |-> H[i]] /\ H[0] = StartFile(before)
  BY <1>1, <1>7
<1>9. ASSUME NEW k \in 1 .. n PROVE H[k] = ReadLine(H[k - 1], lines[k], d, q)
  <2>1. k \in 0 .. n /\ k # 0
    BY <1>1
  <2> QED
    BY <1>7, <2>1, Zenon
<1>10. \A k \in 1 .. n : H[k - 1] \in S => H[k] = step[k][H[k - 1]]
  BY <1>9
<1>11. H \in [0 .. n -> S]
  <2>1. Unfolds(H, n, S, StartFile(before), step)
    BY <1>8, <1>10, Zenon DEF Unfolds
  <2> HIDE DEF step
  <2> QED
    BY <1>1, <1>4, <2>1, RecursionTyped
<1> QED
  BY <1>2, <1>8, <1>9, <1>11, Zenon DEF n, S
----------------------------------------------------------------------------
(* The file.                                                               *)

IsFor(x, d, q) == x.db = d /\ x.id = q

(***************************************************************************)
(* The dictionary after i rows has one entry per statement, with the       *)
(* levels of that statement in the order of the rows.                      *)
(***************************************************************************)
DictOK(D, rs, i) ==
  /\ D \in Seq(Entry)
  /\ \A k \in DOMAIN D : D[k].levels = LevelsUpTo(rs, D[k].db, D[k].id)[i]
  /\ \A k, l \in DOMAIN D : IsFor(D[k], D[l].db, D[l].id) => k = l
  /\ \A d, q : LevelsUpTo(rs, d, q)[i] # <<>> => \E k \in DOMAIN D : IsFor(D[k], d, q)
  /\ i > 0 => D # <<>>

\* One more row keeps it so.
LEMMA AddRowOK ==
  ASSUME NEW rs \in Seq(Row), NEW i \in 1 .. Len(rs), NEW D, DictOK(D, rs, i - 1)
  PROVE  DictOK(AddRow(D, rs[i]), rs, i)
<1> DEFINE r == rs[i]
           E == AddRow(D, r)
           new == [db |-> r.db, id |-> r.id, levels |-> <<r.level>>]
<1>0. D \in Seq(Entry)
  BY Zenon DEF DictOK
<1>1. r \in Row /\ D \in Seq(Entry) /\ r.level \in Levels
  <2>1. r \in Row
    OBVIOUS
  <2> QED
    BY <1>0, <2>1 DEF Row
<1>2. E \in Seq(Entry)
  BY <1>1, AddRowTyped
<1>3. \A d, q : LevelsUpTo(rs, d, q)[i] = AddLevel(LevelsUpTo(rs, d, q)[i - 1], r, d, q)
  BY LevelsSteps
<1>4. CASE \E k \in DOMAIN D : IsFor(D[k], r.db, r.id)
  <2>1. PICK c \in DOMAIN D : IsFor(D[c], r.db, r.id)
    BY <1>4
  <2>2. DOMAIN E = DOMAIN D
    BY <1>4 DEF AddRow, IsFor
  <2>3. ASSUME NEW k \in DOMAIN D
        PROVE  /\ E[k].db = D[k].db /\ E[k].id = D[k].id
               /\ E[k].levels = AddLevel(D[k].levels, r, D[k].db, D[k].id)
    <3>1. D[k] \in Entry
      BY <1>1
    <3>2. E[k] = IF D[k].db = r.db /\ D[k].id = r.id
                 THEN [D[k] EXCEPT !.levels = Append(@, r.level)] ELSE D[k]
      BY <1>4, Zenon DEF AddRow, IsFor
    <3> QED
      BY <3>1, <3>2 DEF Entry, AddLevel
  <2> HIDE DEF E, r
  <2>4. \A k \in DOMAIN E : E[k].levels = LevelsUpTo(rs, E[k].db, E[k].id)[i]
    <3> SUFFICES ASSUME NEW k \in DOMAIN D
                 PROVE  E[k].levels = LevelsUpTo(rs, E[k].db, E[k].id)[i]
      BY <2>2
    <3>1. D[k].levels = LevelsUpTo(rs, D[k].db, D[k].id)[i - 1]
      BY Zenon DEF DictOK
    <3>2. E[k].levels = LevelsUpTo(rs, D[k].db, D[k].id)[i]
      BY <1>3, <2>3, <3>1
    <3> QED
      BY <2>3, <3>2, Zenon
  <2>5. \A k, l \in DOMAIN E : IsFor(E[k], E[l].db, E[l].id) => k = l
    BY <2>2, <2>3, Zenon DEF DictOK, IsFor
  <2>6. ASSUME NEW d, NEW q, LevelsUpTo(rs, d, q)[i] # <<>>
        PROVE  \E k \in DOMAIN E : IsFor(E[k], d, q)
    <3>1. CASE IsFor(r, d, q)
      BY <2>1, <2>2, <2>3, <3>1, Zenon DEF IsFor
    <3>2. CASE ~ IsFor(r, d, q)
      <4>1. LevelsUpTo(rs, d, q)[i - 1] # <<>>
        BY <1>3, <2>6, <3>2, Zenon DEF AddLevel, IsFor
      <4>2. PICK k \in DOMAIN D : IsFor(D[k], d, q)
        BY <4>1, Zenon DEF DictOK
      <4> QED
        BY <2>2, <2>3, <4>2, Zenon DEF IsFor
    <3> QED
      BY <3>1, <3>2
  <2>7. E # <<>>
    BY <2>1, <2>2
  <2>8. DictOK(E, rs, i)
    BY <1>2, <2>4, <2>5, <2>6, <2>7 DEF DictOK
  <2> QED
    BY <2>8 DEF E, r
<1>5. CASE ~ \E k \in DOMAIN D : IsFor(D[k], r.db, r.id)
  <2>1. E = Append(D, new)
    BY <1>5, Zenon DEF AddRow, IsFor
  <2>2. /\ DOMAIN D = 1 .. Len(D) /\ DOMAIN E = 1 .. Len(D) + 1 /\ Len(D) \in Nat
        /\ \A k \in 1 .. Len(D) : E[k] = D[k]
        /\ E[Len(D) + 1] = new
    BY <1>1, <2>1
  <2>3. new.db = r.db /\ new.id = r.id /\ new.levels = <<r.level>>
    OBVIOUS
  <2>4. LevelsUpTo(rs, r.db, r.id)[i] = <<r.level>>
    <3>1. LevelsUpTo(rs, r.db, r.id)[i - 1] = <<>>
      BY <1>5, Zenon DEF DictOK
    <3>2. LevelsUpTo(rs, r.db, r.id)[i] = Append(<<>>, r.level)
      BY <1>3, <3>1, Zenon DEF AddLevel
    <3> QED
      BY <3>2
  <2> HIDE DEF E, new
  <2>5. ASSUME NEW k \in DOMAIN D PROVE LevelsUpTo(rs, D[k].db, D[k].id)[i] = D[k].levels
    <3>1. D[k].levels = LevelsUpTo(rs, D[k].db, D[k].id)[i - 1]
      BY Zenon DEF DictOK
    <3>2. ~ (r.db = D[k].db /\ r.id = D[k].id)
      BY <1>5, <2>5, Zenon DEF IsFor
    <3> QED
      BY <1>3, <3>1, <3>2, ZenonT(30) DEF AddLevel
  <2>6. \A k \in DOMAIN E : E[k].levels = LevelsUpTo(rs, E[k].db, E[k].id)[i]
    <3> SUFFICES ASSUME NEW k \in DOMAIN E
                 PROVE  E[k].levels = LevelsUpTo(rs, E[k].db, E[k].id)[i]
      OBVIOUS
    <3>1. CASE k \in DOMAIN D
      BY <2>2, <2>5, <3>1, Zenon
    <3>2. CASE k = Len(D) + 1
      BY <2>2, <2>3, <2>4, <3>2, Zenon
    <3> QED
      BY <2>2, <3>1, <3>2
  <2>7. \A k, l \in DOMAIN E : IsFor(E[k], E[l].db, E[l].id) => k = l
    BY <1>5, <2>2, <2>3 DEF DictOK, IsFor
  <2>8. ASSUME NEW d, NEW q, LevelsUpTo(rs, d, q)[i] # <<>>
        PROVE  \E k \in DOMAIN E : IsFor(E[k], d, q)
    <3>1. CASE IsFor(r, d, q)
      BY <2>2, <2>3, <3>1 DEF IsFor
    <3>2. CASE ~ IsFor(r, d, q)
      <4>1. LevelsUpTo(rs, d, q)[i - 1] # <<>>
        BY <1>3, <2>8, <3>2, Zenon DEF AddLevel, IsFor
      <4>2. PICK k \in DOMAIN D : IsFor(D[k], d, q)
        BY <4>1, Zenon DEF DictOK
      <4> QED
        BY <2>2, <4>2
    <3> QED
      BY <3>1, <3>2
  <2>9. E # <<>>
    BY <2>2
  <2>10. DictOK(E, rs, i)
    BY <1>2, <2>6, <2>7, <2>8, <2>9 DEF DictOK
  <2> QED
    BY <2>10 DEF E
<1> QED
  BY <1>4, <1>5

\* The dictionary that is written has one entry for each statement.
LEMMA DictionaryOK ==
  ASSUME NEW rs \in Seq(Row)
  PROVE  DictOK(Dictionary(rs), rs, Len(rs))
<1> DEFINE U == DictionaryUpTo(rs)
           T == {k \in 0 .. Len(rs) : DictOK(U[k], rs, k)}
<1>1. Len(rs) \in Nat /\ T \in SUBSET Nat
  OBVIOUS
<1>2. /\ U[0] = <<>>
      /\ \A k \in 1 .. Len(rs) : U[k] = AddRow(U[k - 1], rs[k])
  BY DictionarySteps
<1>3. \A d, q : LevelsUpTo(rs, d, q)[0] = <<>>
  BY LevelsSteps
<1> HIDE DEF U
<1>4. 0 \in T
  <2>1. <<>> \in Seq(Entry) /\ DOMAIN <<>> = {} /\ ~ (0 > 0)
    OBVIOUS
  <2>2. DictOK(<<>>, rs, 0)
    BY <1>3, <2>1, Zenon DEF DictOK
  <2> QED
    BY <1>1, <1>2, <2>2
<1>5. ASSUME NEW k \in 1 .. Len(rs), k - 1 \in T PROVE k \in T
  BY <1>1, <1>2, <1>5, AddRowOK
<1> HIDE DEF T
<1>6. \A k \in 0 .. Len(rs) : k \in T
  BY <1>1, <1>4, <1>5, BoundedInd, Zenon
<1> QED
  BY <1>1, <1>6 DEF T, U, Dictionary
\* The longest list of a dictionary is a number.
LEMMA LongestIs ==
  ASSUME NEW D \in Seq(Entry), D # <<>>, NEW M \in Nat,
         \A k \in DOMAIN D : Len(D[k].levels) <= M
  PROVE  Longest(D) \in Nat
<1> DEFINE L == {Len(D[k].levels) : k \in DOMAIN D}
           B == {n \in Nat : \A k \in DOMAIN D : Len(D[k].levels) <= n}
<1>1. \A k \in DOMAIN D : Len(D[k].levels) \in Nat
  <2> SUFFICES ASSUME NEW k \in DOMAIN D PROVE Len(D[k].levels) \in Nat
    OBVIOUS
  <2>1. D[k] \in Entry
    OBVIOUS
  <2> QED
    BY <2>1 DEF Entry
<1>2. M \in B /\ B \in SUBSET Nat
  OBVIOUS
<1>3. PICK m \in B : \A n \in B : m <= n
  <2> HIDE DEF B
  <2> QED
    BY <1>2, LeastMember
<1>4. 1 \in DOMAIN D
  OBVIOUS
<1>5. m \in L
  <2> SUFFICES ASSUME m \notin L PROVE FALSE
    OBVIOUS
  <2>1. \A k \in DOMAIN D : Len(D[k].levels) <= m /\ Len(D[k].levels) # m
    BY <1>3
  <2>2. m - 1 \in B
    BY <1>1, <1>3, <1>4, <2>1
  <2> QED
    <3>1. m \in Nat /\ m <= m - 1
      BY <1>3, <2>2, Zenon
    <3> QED
      BY <3>1
<1>6. \A k \in DOMAIN D : Len(D[k].levels) <= m
  BY <1>3
<1>7. Longest(D) \in L
  <2>1. Longest(D) = CHOOSE n \in L : \A k \in DOMAIN D : Len(D[k].levels) <= n
    BY Zenon DEF Longest
  <2> HIDE DEF L
  <2> QED
    BY <1>5, <1>6, <2>1, Zenon
<1> QED
  BY <1>1, <1>7

\* What is where when w is the sequences a and b put together.
Joined(w, a, b) ==
  /\ Len(w) = Len(a) + Len(b)
  /\ \A i \in 1 .. Len(a) : w[i] = a[i]
  /\ \A i \in 1 .. Len(b) : w[Len(a) + i] = b[i]

\* That is what \o does.
LEMMA ConcatIs ==
  ASSUME NEW S, NEW a \in Seq(S), NEW b \in Seq(S)
  PROVE  a \o b \in Seq(S) /\ Joined(a \o b, a, b)
<1>1. Len(a) \in Nat /\ Len(b) \in Nat /\ a \o b \in Seq(S) /\ Len(a \o b) = Len(a) + Len(b)
  OBVIOUS
<1>2. \A i \in 1 .. Len(a) : (a \o b)[i] = a[i]
  BY <1>1
<1>3. ASSUME NEW i \in 1 .. Len(b) PROVE (a \o b)[Len(a) + i] = b[i]
  BY <1>1
<1> QED
  BY <1>1, <1>2, <1>3 DEF Joined

(***************************************************************************)
(* A line is the database, the query, the levels, and then empty fields.   *)
(***************************************************************************)
LineOf(line, x) ==
  /\ Len(line) \in Nat /\ Len(line) >= Len(x.levels) + 2
  /\ line[1] = Db(x.db) /\ line[2] = Num(x.id)
  /\ \A i \in 1 .. Len(x.levels) : line[2 + i] = Num(x.levels[i])
  /\ \A i \in Len(x.levels) + 3 .. Len(line) : line[i] = Blank

\* So is every line that Aggregate writes.
LEMMA LineIs ==
  ASSUME NEW x \in Entry, NEW longest \in Nat
  PROVE  LineOf(Line(x, longest), x)
<1> DEFINE F == {Db(x.db), Num(x.id), Blank} \cup {Num(l) : l \in Levels}
           a == <<Db(x.db), Num(x.id)>>
           m == Len(x.levels)
           b == [i \in DOMAIN x.levels |-> Num(x.levels[i])]
           c == Padding(m, longest)
<1>1. x.levels \in Seq(Levels)
  BY DEF Entry
<1>2. m \in Nat /\ DOMAIN x.levels = 1 .. m /\ \A i \in 1 .. m : x.levels[i] \in Levels
  BY <1>1
<1>3. /\ a \in Seq(F) /\ Len(a) = 2 /\ a[1] = Db(x.db) /\ a[2] = Num(x.id)
  <2>1. Db(x.db) \in F /\ Num(x.id) \in F
    OBVIOUS
  <2> HIDE DEF F
  <2> QED
    BY <2>1
<1>4. /\ b \in Seq(F) /\ Len(b) = m /\ \A i \in 1 .. m : b[i] = Num(x.levels[i])
  <2>1. b = [i \in 1 .. m |-> Num(x.levels[i])]
    BY <1>2
  <2>2. \A i \in 1 .. m : Num(x.levels[i]) \in F
    BY <1>2
  <2> HIDE DEF F, m
  <2> QED
    BY <1>2, <2>1, <2>2
<1>5. PICK p \in Nat : c \in Seq(F) /\ Len(c) = p /\ \A i \in 1 .. p : c[i] = Blank
  <2> DEFINE p == IF longest >= m THEN longest - m ELSE 0
  <2>1. p \in Nat /\ 1 .. longest - m = 1 .. p
    BY <1>2
  <2>2. Blank \in F
    OBVIOUS
  <2>3. c = [i \in 1 .. p |-> Blank]
    BY <2>1 DEF Padding
  <2> HIDE DEF F, p, c
  <2>4. c \in Seq(F) /\ Len(c) = p /\ \A i \in 1 .. p : c[i] = Blank
    BY <2>1, <2>2, <2>3
  <2> QED
    BY <2>1, <2>4
<1>6. Line(x, longest) = (a \o b) \o c
  BY Zenon DEF Line
<1> HIDE DEF F, a, b, c, m
<1>7. PICK ab \in Seq(F) : ab = a \o b /\ Joined(ab, a, b)
  BY <1>3, <1>4, ConcatIs, Zenon
<1>8. /\ Len(ab) = m + 2 /\ ab[1] = Db(x.db) /\ ab[2] = Num(x.id)
      /\ \A i \in 1 .. m : ab[2 + i] = Num(x.levels[i])
  BY <1>2, <1>3, <1>4, <1>7 DEF Joined
<1>9. PICK l : l = ab \o c /\ Joined(l, ab, c)
  BY <1>5, <1>7, ConcatIs, Zenon
<1>10. /\ Len(l) = m + 2 + p /\ l[1] = Db(x.db) /\ l[2] = Num(x.id)
       /\ \A i \in 1 .. m : l[2 + i] = Num(x.levels[i])
  BY <1>2, <1>5, <1>8, <1>9 DEF Joined
<1>11. ASSUME NEW i \in m + 3 .. m + 2 + p PROVE l[i] = Blank
  <2>1. i - (m + 2) \in 1 .. p /\ m + 2 + (i - (m + 2)) = i
    BY <1>2
  <2> QED
    BY <1>5, <1>8, <1>9, <2>1, SMTT(30) DEF Joined
<1>12. LineOf(l, x)
  BY <1>2, <1>10, <1>11 DEF LineOf, m
<1> QED
  BY <1>6, <1>7, <1>9, <1>12, Zenon

(***************************************************************************)
(* The file is a line that starts with the number 0, and then one line for *)
(* each entry of the dictionary.                                           *)
(***************************************************************************)
FileOf(lines, D) ==
  /\ Len(lines) = Len(D) + 1
  /\ Len(lines[1]) \in Nat \ {0} /\ lines[1][1] = Num(0)
  /\ \A k \in 1 .. Len(D) : LineOf(lines[1 + k], D[k])

\* So is the file that Aggregate writes.
LEMMA FileIs ==
  ASSUME NEW rs \in Seq(Row), NEW D, D = Dictionary(rs), D \in Seq(Entry), D # <<>>,
         NEW M \in Nat, \A k \in DOMAIN D : Len(D[k].levels) <= M
  PROVE  FileOf(Aggregate(rs), D)
<1> DEFINE longest == Longest(D)
           h == [i \in 1 .. longest + 2 |-> Num(i - 1)]
           F == {h} \cup {Line(D[k], longest) : k \in DOMAIN D}
           a == <<h>>
           b == [k \in DOMAIN D |-> Line(D[k], longest)]
<1>1. longest \in Nat /\ Len(D) \in Nat /\ DOMAIN D = 1 .. Len(D)
  <2>1. Longest(D) \in Nat
    BY LongestIs, Zenon
  <2> QED
    BY <2>1
<1>2. Len(h) \in Nat \ {0} /\ h[1] = Num(0)
  <2> HIDE DEF longest
  <2>1. 1 \in 1 .. longest + 2 /\ longest + 2 \in Nat \ {0} /\ 1 - 1 = 0
    BY <1>1
  <2> QED
    BY <2>1
<1>3. Aggregate(rs) = a \o b
  BY Zenon DEF Aggregate
<1>4. h \in F /\ \A k \in 1 .. Len(D) : Line(D[k], longest) \in F
  BY <1>1
<1>5. \A k \in 1 .. Len(D) : LineOf(Line(D[k], longest), D[k])
  <2> HIDE DEF longest
  <2> QED
    BY <1>1, LineIs
<1> HIDE DEF F, h, longest
<1>6. a \in Seq(F) /\ Len(a) = 1 /\ a[1] = h
  BY <1>4
<1>7. b \in Seq(F) /\ Len(b) = Len(D) /\ \A k \in 1 .. Len(D) : b[k] = Line(D[k], longest)
  BY <1>1, <1>4
<1> HIDE DEF a, b
<1>8. PICK w : w = a \o b /\ Joined(w, a, b)
  BY <1>6, <1>7, ConcatIs, Zenon
<1>9. Len(w) = Len(D) + 1 /\ w[1] = h /\ \A k \in 1 .. Len(D) : w[1 + k] = b[k]
  BY <1>1, <1>6, <1>7, <1>8 DEF Joined
<1>10. FileOf(w, D)
  BY <1>2, <1>5, <1>7, <1>9 DEF FileOf
<1> QED
  BY <1>3, <1>8, <1>10, Zenon
----------------------------------------------------------------------------
(* The reader.                                                             *)

\* ReadToken: after the loop was left it does nothing.
LEMMA TokenLeft ==
  ASSUME NEW st \in State, st.left, NEW token, NEW d, NEW q
  PROVE  ReadToken(st, token, d, q) = st
BY DEF ReadToken

\* The first token is not the database of the session.
LEMMA TokenOtherDb ==
  ASSUME NEW st \in State, ~ st.left, st.token_num = 1, NEW token, NEW d, NEW q, token # Db(d)
  PROVE  ReadToken(st, token, d, q) = Leave(st)
BY DEF ReadToken

\* The first token is the database of the session.
LEMMA TokenDb ==
  ASSUME NEW st \in State, ~ st.left, st.token_num = 1, NEW d, NEW q
  PROVE  ReadToken(st, Db(d), d, q) = [st EXCEPT !.token_num = 2]
BY DEF ReadToken

\* The second token is not the number of the query.
LEMMA TokenOtherQuery ==
  ASSUME NEW st \in State, ~ st.left, st.token_num = 2, NEW token, NEW d, NEW q,
         token.kind = "num", token.value # q
  PROVE  ReadToken(st, token, d, q) = Leave(st)
BY DEF ReadToken

\* The second token is the number of the query.
LEMMA TokenQuery ==
  ASSUME NEW st \in State, ~ st.left, st.token_num = 2, NEW d, NEW q
  PROVE  ReadToken(st, Num(q), d, q) = [st EXCEPT !.token_num = 3]
<1>1. Num(q).kind = "num" /\ Num(q).value = q
  BY DEF Num
<1> QED
  BY <1>1 DEF ReadToken

\* A level for which the array has no place.
LEMMA TokenTooMany ==
  ASSUME NEW st \in State, ~ st.left, st.token_num > 2, st.token_num - 2 > EXPR_MAX_NUM,
         NEW v, NEW d, NEW q
  PROVE  ReadToken(st, Num(v), d, q) = Leave(st)
<1>1. Num(v).kind = "num" /\ st.token_num # 1 /\ st.token_num # 2
  BY DEF Num, State
<1> QED
  BY <1>1 DEF ReadToken

\* A level goes to its place, and no other place changes.
LevelPut(out, st, v) ==
  /\ out \in State /\ ~ out.left /\ out.match = st.match /\ out.done = st.done
  /\ out.token_num = st.token_num + 1
  /\ out.levels[st.token_num - 3] = v
  /\ \A p \in Pos : p # st.token_num - 3 => out.levels[p] = st.levels[p]

\* That is what ReadToken does with one.
LEMMA TokenLevel ==
  ASSUME NEW st \in State, ~ st.left, st.token_num > 2, st.token_num - 2 <= EXPR_MAX_NUM,
         NEW v \in 0 .. 3, NEW d, NEW q
  PROVE  LevelPut(ReadToken(st, Num(v), d, q), st, v)
<1> DEFINE n == st.token_num
           a == [st.levels EXCEPT ![n - 3] = v]
           out == [st EXCEPT !.token_num = n + 1, !.levels = a]
<1>1. /\ n \in Nat /\ n # 1 /\ n # 2 /\ n - 3 \in Pos /\ n + 1 \in Nat \ {0}
      /\ ~ (n - 2 > EXPR_MAX_NUM) /\ LevelPos(n) = n - 3
  BY InputsAssumption DEF State, Pos, LevelPos
<1>2. Num(v).kind = "num" /\ Num(v).value = v
  BY DEF Num
<1>3. ReadToken(st, Num(v), d, q)
        = [[st EXCEPT !.token_num = n + 1] EXCEPT !.levels[n - 3] = v]
  BY <1>1, <1>2 DEF ReadToken
<1>4. ReadToken(st, Num(v), d, q) = out
  BY <1>3 DEF State
<1>5. st.levels \in LevelArrays
  BY DEF State
<1>6. a \in LevelArrays /\ a[n - 3] = v /\ \A p \in Pos : p # n - 3 => a[p] = st.levels[p]
  BY <1>1, <1>5 DEF LevelArrays
<1> HIDE DEF a, n
<1>7. /\ out \in State /\ out.levels = a /\ out.token_num = n + 1
      /\ ~ out.left /\ out.match = st.match /\ out.done = st.done
  BY <1>1, <1>6, Zenon DEF State
<1> HIDE DEF out
<1> QED
  BY <1>4, <1>6, <1>7 DEF n, LevelPut

\* The loop over the line was left with the levels as they were.
Skipped(s, st) == s \in State /\ s.left /\ ~ s.match /\ ~ s.done /\ s.levels = st.levels

\* Leave is such an exit.
LEMMA LeaveSkips ==
  ASSUME NEW st \in State, NEW s \in State, s.levels = st.levels, ~ s.done
  PROVE  Skipped(Leave(s), st)
BY Zenon DEF State, Leave, Skipped

(***************************************************************************)
(* A line of another database or another query, and the first line of the  *)
(* file: the loop over it is left before it touches the levels, and match  *)
(* is false from then on.                                                  *)
(***************************************************************************)
LEMMA OtherLine ==
  ASSUME NEW st \in State, ~ st.done, NEW line, Len(line) \in Nat \ {0}, NEW d, NEW q,
         line[1].kind # "empty",
         \/ line[1] # Db(d)
         \/ /\ line[1] = Db(d) /\ Len(line) >= 2
            /\ line[2].kind = "num" /\ line[2].value # q
  PROVE  LET out == ReadLine(st, line, d, q)
         IN  ~ out.match /\ ~ out.done /\ out.levels = st.levels
<1> DEFINE F == FieldsRead(st, line, d, q)
           n == Len(line)
<1>1. /\ F \in [0 .. n -> State] /\ F[0] = StartLine(st)
      /\ \A k \in 1 .. n : F[k] = ReadField(F[k - 1], line[k], d, q)
  BY FieldSteps
<1>2. n \in Nat \ {0}
  OBVIOUS
<1> HIDE DEF F, n
<1>3. /\ F[0] \in State /\ ~ F[0].left /\ F[0].token_num = 1
      /\ F[0].levels = st.levels /\ ~ F[0].done
  BY <1>1, <1>2 DEF StartLine, State
<1>4. F[1] = ReadToken(F[0], line[1], d, q)
  <2>1. 1 \in 1 .. n /\ 1 - 1 = 0
    BY <1>2
  <2> QED
    BY <1>1, <2>1, Zenon DEF ReadField
<1>5. PICK j \in 1 .. n : Skipped(F[j], st)
  <2>1. CASE line[1] # Db(d)
    <3>1. F[1] = Leave(F[0])
      BY <1>3, <1>4, <2>1, TokenOtherDb
    <3>2. 1 \in 1 .. n
      BY <1>2
    <3> QED
      BY <1>3, <3>1, <3>2, LeaveSkips
  <2>2. CASE line[1] = Db(d) /\ n >= 2 /\ line[2].kind = "num" /\ line[2].value # q
    <3>1. F[1] = [F[0] EXCEPT !.token_num = 2]
      BY <1>3, <1>4, <2>2, TokenDb
    <3>2. /\ F[1] \in State /\ ~ F[1].left /\ F[1].token_num = 2
          /\ F[1].levels = st.levels /\ ~ F[1].done
      BY <1>1, <1>2, <1>3, <3>1 DEF State
    <3>3. 2 \in 1 .. n /\ 2 - 1 = 1
      BY <1>2, <2>2
    <3>4. F[2] = ReadToken(F[1], line[2], d, q)
      BY <1>1, <2>2, <3>3 DEF ReadField
    <3>5. F[2] = Leave(F[1])
      BY <2>2, <3>2, <3>4, TokenOtherQuery
    <3> QED
      BY <3>2, <3>3, <3>5, LeaveSkips
  <2> QED
    BY <2>1, <2>2 DEF n
<1> DEFINE T == {k \in 0 .. n : k >= j => Skipped(F[k], st)}
<1>6. 0 \in T /\ T \in SUBSET Nat
  BY <1>2
<1>7. ASSUME NEW k \in 1 .. n, k - 1 \in T PROVE k \in T
  <2>1. CASE k - 1 >= j
    <3>1. Skipped(F[k - 1], st)
      BY <1>7, <2>1
    <3>2. F[k] = F[k - 1]
      <4>1. ReadToken(F[k - 1], line[k], d, q) = F[k - 1]
        BY <3>1, TokenLeft DEF Skipped
      <4> QED
        BY <1>1, <4>1 DEF ReadField
    <3> QED
      BY <1>2, <3>1, <3>2
  <2>2. CASE k = j
    BY <1>2, <1>5, <2>2
  <2>3. CASE k < j
    BY <1>2, <2>3
  <2> QED
    BY <1>2, <2>1, <2>2, <2>3
<1> HIDE DEF T
<1>8. n \in T
  <2>1. n \in Nat /\ n \in 0 .. n
    BY <1>2
  <2> QED
    BY <1>6, <1>7, <2>1, BoundedInd, Zenon
<1>9. Skipped(F[n], st)
  BY <1>2, <1>5, <1>8 DEF T
<1>10. ReadToken(F[n], Num(0), d, q) = F[n]
  BY <1>9, TokenLeft DEF Skipped
<1>11. ReadLine(st, line, d, q) = [F[n] EXCEPT !.done = F[n].match]
  BY <1>10 DEF ReadLine, F, n
<1> QED
  BY <1>9, <1>11 DEF Skipped, State

(***************************************************************************)
(* levels after a read: those of ls, and what was there or 0 behind them.  *)
(***************************************************************************)
Got(after, before, ls) ==
  /\ \A i \in 1 .. Len(ls) : after[i - 1] = ls[i]
  /\ \A p \in Pos : p >= Len(ls) => after[p] = before[p] \/ after[p] = 0

\* The state after k fields of the line of x: m levels, then empty fields.
MidLine(s, st, x, k) ==
  /\ s \in State /\ ~ s.left /\ ~ s.match /\ ~ s.done
  /\ s.token_num = IF k <= Len(x.levels) + 2 THEN k + 1 ELSE Len(x.levels) + 3
  /\ \A i \in 1 .. Len(x.levels) : i + 2 <= k => s.levels[i - 1] = x.levels[i]
  /\ \A p \in Pos : p >= Len(x.levels) => s.levels[p] = st.levels[p]

\* Each field of the line brings the reader one field on.
LEMMA FieldRead ==
  ASSUME NEW st \in State, NEW x \in Entry, Len(x.levels) <= EXPR_MAX_NUM,
         NEW line, LineOf(line, x), NEW k \in 1 .. Len(line),
         NEW s, MidLine(s, st, x, k - 1)
  PROVE  MidLine(ReadField(s, line[k], x.db, x.id), st, x, k)
<1> DEFINE m == Len(x.levels)
           out == ReadField(s, line[k], x.db, x.id)
<1>1. x.levels \in Seq(Levels) /\ m \in Nat /\ Len(line) \in Nat /\ EXPR_MAX_NUM \in Nat
  BY InputsAssumption DEF Entry, LineOf
<1>2. s \in State /\ s.levels \in LevelArrays /\ k \in Nat
  BY <1>1 DEF MidLine, State
<1>3. CASE k = 1
  <2>1. line[k] = Db(x.db) /\ s.token_num = 1
    BY <1>1, <1>3 DEF MidLine, LineOf
  <2>2. out = ReadToken(s, line[k], x.db, x.id)
    BY <2>1 DEF ReadField, Db
  <2>3. out = [s EXCEPT !.token_num = 2]
    BY <1>2, <2>1, <2>2, TokenDb DEF MidLine
  <2> QED
    BY <1>1, <1>2, <1>3, <2>3 DEF MidLine, State
<1>4. CASE k = 2
  <2>1. line[k] = Num(x.id) /\ s.token_num = 2
    BY <1>1, <1>4 DEF MidLine, LineOf
  <2>2. out = ReadToken(s, line[k], x.db, x.id)
    BY <2>1 DEF ReadField, Num
  <2>3. out = [s EXCEPT !.token_num = 3]
    <3>1. ~ s.left
      BY DEF MidLine
    <3> QED
      BY <1>2, <2>1, <2>2, <3>1, TokenQuery, Zenon
  <2> QED
    BY <1>1, <1>2, <1>4, <2>3, SMTT(30) DEF MidLine, State
<1>5. CASE k > 2 /\ k <= m + 2
  <2> DEFINE v == x.levels[k - 2]
  <2>1. k - 2 \in 1 .. m /\ 2 + (k - 2) = k /\ s.token_num = k
    BY <1>1, <1>5 DEF MidLine
  <2>2. line[k] = Num(v)
    BY <2>1, SMTT(30) DEF LineOf
  <2>3. v \in 0 .. 3
    <3>1. v \in Levels
      BY <1>1, <2>1
    <3> QED
      BY <3>1, InputsAssumption, Zenon
  <2>4. out = ReadToken(s, Num(v), x.db, x.id)
    BY <2>2 DEF ReadField, Num
  <2>5. k - 3 \in Pos /\ k - 3 < m /\ k > 2 /\ k - 2 <= EXPR_MAX_NUM
    BY <1>1, <1>5 DEF Pos
  <2>6. ~ s.left /\ ~ s.match /\ ~ s.done
    BY DEF MidLine
  <2> HIDE DEF v, out
  <2> DEFINE a == out.levels
  <2>7. /\ out \in State /\ out.token_num = k + 1 /\ ~ out.left /\ ~ out.match /\ ~ out.done
        /\ a[k - 3] = v /\ \A p \in Pos : p # k - 3 => a[p] = s.levels[p]
    <3>1. s.token_num > 2 /\ s.token_num - 2 <= EXPR_MAX_NUM
      BY <2>1, <2>5
    <3>2. LevelPut(out, s, v)
      BY <1>2, <2>3, <2>4, <2>6, <3>1, TokenLevel
    <3> QED
      BY <2>1, <2>6, <3>2 DEF LevelPut
  <2> HIDE DEF a
  <2>8. ASSUME NEW i \in 1 .. m, i + 2 <= k PROVE a[i - 1] = x.levels[i]
    <3>1. CASE i = k - 2
      BY <2>7, <3>1, <1>1 DEF v
    <3>2. CASE i # k - 2
      <4>1. i - 1 \in Pos /\ i - 1 # k - 3 /\ i + 2 <= k - 1
        BY <1>1, <2>8, <3>2 DEF Pos
      <4> QED
        <5>1. s.levels[i - 1] = x.levels[i]
          BY <4>1, Zenon DEF MidLine
        <5> QED
          BY <2>7, <4>1, <5>1, Zenon
    <3> QED
      BY <3>1, <3>2
  <2>9. ASSUME NEW p \in Pos, p >= m PROVE a[p] = st.levels[p]
    <3>1. p # k - 3
      BY <1>1, <2>5, <2>9 DEF Pos
    <3> QED
      BY <2>7, <2>9, <3>1 DEF MidLine
  <2>10. MidLine(out, st, x, k)
    BY <1>1, <1>5, <2>7, <2>8, <2>9 DEF MidLine, a
  <2> QED
    BY <2>10 DEF out
<1>6. CASE k > m + 2
  <2>1. line[k] = Blank
    BY <1>1, <1>6 DEF LineOf
  <2>2. out = s
    BY <2>1 DEF ReadField, Blank
  <2>3. s.token_num = m + 3
    BY <1>1, <1>6 DEF MidLine
  <2> HIDE DEF out
  <2>4. MidLine(out, st, x, k)
    BY <1>1, <1>6, <2>2, <2>3 DEF MidLine
  <2> QED
    BY <2>4 DEF out
<1> QED
  BY <1>1, <1>2, <1>3, <1>4, <1>5, <1>6

(***************************************************************************)
(* The line of the statement gives its levels, and at most one 0 more.     *)
(***************************************************************************)
LEMMA OwnLine ==
  ASSUME NEW st \in State, ~ st.done, ~ st.match, NEW x \in Entry,
         Len(x.levels) <= EXPR_MAX_NUM, NEW line, LineOf(line, x)
  PROVE  LET out == ReadLine(st, line, x.db, x.id)
         IN  ~ out.match /\ ~ out.done /\ Got(out.levels, st.levels, x.levels)
<1> DEFINE F == FieldsRead(st, line, x.db, x.id)
           n == Len(line)
           m == Len(x.levels)
           T == {k \in 0 .. n : MidLine(F[k], st, x, k)}
<1>0. x.levels \in Seq(Levels) /\ m \in Nat /\ EXPR_MAX_NUM \in Nat
  BY InputsAssumption DEF Entry
<1>1. n \in Nat /\ n >= m + 2
  BY DEF LineOf
<1>2. /\ F \in [0 .. n -> State] /\ F[0] = StartLine(st)
      /\ \A k \in 1 .. n : F[k] = ReadField(F[k - 1], line[k], x.db, x.id)
  BY <1>1, FieldSteps
<1> HIDE DEF F
<1>3. 0 \in T /\ T \in SUBSET Nat
  <2>1. /\ F[0] \in State /\ ~ F[0].left /\ ~ F[0].match /\ ~ F[0].done
        /\ F[0].token_num = 1 /\ F[0].levels = st.levels
    BY <1>1, <1>2 DEF StartLine, State
  <2>2. MidLine(F[0], st, x, 0)
    BY <1>0, <2>1 DEF MidLine
  <2> QED
    BY <1>1, <2>2
<1>4. ASSUME NEW k \in 1 .. n, k - 1 \in T PROVE k \in T
  BY <1>1, <1>2, <1>4, FieldRead
<1> HIDE DEF T
<1>5. n \in T
  <2>1. n \in Nat /\ n \in 0 .. n
    BY <1>1
  <2> HIDE DEF n
  <2> QED
    BY <1>3, <1>4, <2>1, BoundedInd, Zenon
<1>6. MidLine(F[n], st, x, n)
  BY <1>5 DEF T
<1> DEFINE end == IF line[n].kind = "empty"
                  THEN ReadToken(F[n], Num(0), x.db, x.id) ELSE F[n]
<1>7. ReadLine(st, line, x.db, x.id) = [end EXCEPT !.done = end.match]
  BY Zenon DEF ReadLine, F
<1>8. F[n] \in State /\ F[n].levels \in LevelArrays
  BY <1>6 DEF MidLine, State
<1>9. Got(F[n].levels, st.levels, x.levels)
  BY <1>0, <1>1, <1>6, SMTT(30) DEF MidLine, Got
<1>10. end \in State /\ ~ end.match /\ Got(end.levels, st.levels, x.levels)
  <2>1. CASE line[n].kind # "empty"
    BY <1>6, <1>8, <1>9, <2>1, SMTT(30) DEF MidLine
  <2>2. CASE line[n].kind = "empty"
    <3>1. n > m + 2
      <4>1. CASE n = 2
        BY <2>2, <4>1 DEF LineOf, Num
      <4>2. CASE n # 2 /\ n = m + 2
        <5>1. n - 2 \in 1 .. m /\ 2 + (n - 2) = n
          BY <1>0, <1>1, <4>2
        <5>2. line[n] = Num(x.levels[n - 2])
          BY <5>1 DEF LineOf
        <5> QED
          BY <2>2, <5>2 DEF Num
      <4> QED
        BY <1>0, <1>1, <4>1, <4>2
    <3>2. F[n].token_num = m + 3 /\ ~ F[n].left
      BY <1>0, <1>1, <1>6, <3>1 DEF MidLine
    <3>3. end = ReadToken(F[n], Num(0), x.db, x.id)
      BY <2>2
    <3>4. CASE m + 1 > EXPR_MAX_NUM
      <4>1. end = Leave(F[n])
        BY <1>0, <1>8, <3>2, <3>3, <3>4, TokenTooMany
      <4> HIDE DEF end
      <4> QED
        BY <1>8, <1>9, <4>1, Zenon DEF Leave, State
    <3>5. CASE m + 1 <= EXPR_MAX_NUM
      <4>1. PICK s \in State : s = F[n]
        BY <1>8
      <4>2. /\ ~ s.match /\ ~ s.left /\ s.token_num > 2 /\ s.token_num - 2 <= EXPR_MAX_NUM
            /\ s.token_num - 3 = m /\ 0 \in 0 .. 3
        BY <1>0, <1>6, <3>2, <3>5, <4>1 DEF MidLine
      <4> HIDE DEF end
      <4> DEFINE a == end.levels
      <4>3. /\ end \in State /\ ~ end.match
            /\ a[m] = 0 /\ \A p \in Pos : p # m => a[p] = F[n].levels[p]
        <5>1. end = ReadToken(s, Num(0), x.db, x.id)
          BY <3>3, <4>1
        <5>2. LevelPut(end, s, 0)
          BY <4>1, <4>2, <5>1, TokenLevel
        <5> HIDE DEF m
        <5> QED
          BY <4>1, <4>2, <5>2 DEF LevelPut
      <4> HIDE DEF a
      <4>5. ASSUME NEW i \in 1 .. m PROVE a[i - 1] = x.levels[i]
        <5>1. i - 1 \in Pos /\ i - 1 # m
          BY <1>0 DEF Pos
        <5> QED
          BY <1>9, <4>3, <5>1 DEF Got
      <4>6. Got(a, st.levels, x.levels)
        BY <1>9, <4>3, <4>5 DEF Got
      <4> QED
        BY <4>3, <4>6 DEF a
    <3> QED
      BY <1>0, <3>4, <3>5
  <2> QED
    BY <2>1, <2>2
<1> HIDE DEF end
<1> QED
  BY <1>7, <1>10 DEF State
\* The state after the line of the i-th entry.
ReadUpTo(s, D, d, q, before, i) ==
  /\ s \in State /\ ~ s.match /\ ~ s.done
  /\ \/ \E k \in 1 .. i : IsFor(D[k], d, q) /\ Got(s.levels, before, D[k].levels)
     \/ s.levels = before /\ \A k \in 1 .. i : ~ IsFor(D[k], d, q)

\* The line of the next entry brings the reader one entry on.
LEMMA EntryRead ==
  ASSUME NEW D \in Seq(Entry), NEW d, NEW q, NEW before, NEW i \in 1 .. Len(D),
         \A k, l \in DOMAIN D : IsFor(D[k], D[l].db, D[l].id) => k = l,
         \A k \in DOMAIN D : Len(D[k].levels) <= EXPR_MAX_NUM,
         NEW line, LineOf(line, D[i]), NEW s, ReadUpTo(s, D, d, q, before, i - 1)
  PROVE  ReadUpTo(ReadLine(s, line, d, q), D, d, q, before, i)
<1> DEFINE out == ReadLine(s, line, d, q)
<1>0. D[i] \in Entry /\ i \in DOMAIN D
  OBVIOUS
<1>1. D[i] \in Entry /\ i \in DOMAIN D /\ D[i].levels \in Seq(Levels)
  BY <1>0 DEF Entry
<1>2. Len(D[i].levels) \in Nat /\ Len(line) \in Nat \ {0} /\ Len(line) >= 2
  BY <1>1 DEF LineOf
<1>3. line[1] = Db(D[i].db) /\ line[2] = Num(D[i].id)
  BY DEF LineOf
<1>4. s \in State /\ ~ s.match /\ ~ s.done
  BY DEF ReadUpTo
<1>5. out \in State
  BY <1>2, <1>4, ReadLineTyped
<1>6. CASE IsFor(D[i], d, q)
  <2>1. \A k \in 1 .. i - 1 : ~ IsFor(D[k], d, q)
    <3> SUFFICES ASSUME NEW k \in 1 .. i - 1, IsFor(D[k], d, q) PROVE FALSE
      OBVIOUS
    <3>1. k \in DOMAIN D /\ k # i
      OBVIOUS
    <3> QED
      BY <1>1, <1>6, <3>1 DEF IsFor
  <2>2. s.levels = before
    BY <2>1 DEF ReadUpTo
  <2>3. ~ out.match /\ ~ out.done /\ Got(out.levels, before, D[i].levels)
    BY <1>1, <1>4, <1>6, <2>2, OwnLine DEF IsFor
  <2> HIDE DEF out
  <2>4. ReadUpTo(out, D, d, q, before, i)
    BY <1>5, <1>6, <2>3 DEF ReadUpTo
  <2> QED
    BY <2>4 DEF out
<1>7. CASE ~ IsFor(D[i], d, q)
  <2>1. line[1].kind # "empty" /\ line[2].kind = "num"
    BY <1>3 DEF Db, Num
  <2>2. \/ line[1] # Db(d)
        \/ line[1] = Db(d) /\ Len(line) >= 2 /\ line[2].kind = "num" /\ line[2].value # q
    BY <1>2, <1>3, <1>7, SMTT(30) DEF Db, Num, IsFor
  <2>3. ~ out.match /\ ~ out.done /\ out.levels = s.levels
    BY <1>2, <1>4, <2>1, <2>2, OtherLine
  <2> HIDE DEF out
  <2>4. 1 .. i = (1 .. i - 1) \cup {i}
    OBVIOUS
  <2>5. \/ \E k \in 1 .. i : IsFor(D[k], d, q) /\ Got(out.levels, before, D[k].levels)
        \/ out.levels = before /\ \A k \in 1 .. i : ~ IsFor(D[k], d, q)
    BY <1>7, <2>3, <2>4 DEF ReadUpTo
  <2>6. ReadUpTo(out, D, d, q, before, i)
    BY <1>5, <2>3, <2>5 DEF ReadUpTo
  <2> QED
    BY <2>6 DEF out
<1> QED
  BY <1>6, <1>7

\* At the end of the file every entry was seen.
LEMMA FileRead ==
  ASSUME NEW D \in Seq(Entry), NEW d, NEW q, NEW before \in LevelArrays,
         \A k, l \in DOMAIN D : IsFor(D[k], D[l].db, D[l].id) => k = l,
         \A k \in DOMAIN D : Len(D[k].levels) <= EXPR_MAX_NUM,
         NEW lines, FileOf(lines, D)
  PROVE  ReadUpTo(LinesRead(lines, d, q, before)[Len(lines)], D, d, q, before, Len(D))
<1> DEFINE R == LinesRead(lines, d, q, before)
           n == Len(D)
           T == {k \in 0 .. n : ReadUpTo(R[1 + k], D, d, q, before, k)}
<1>1. n \in Nat /\ Len(lines) = 1 + n
  BY DEF FileOf
<1>2. ASSUME NEW i \in 1 .. Len(lines) PROVE Len(lines[i]) \in Nat
  <2>1. CASE i = 1
    BY <2>1 DEF FileOf
  <2>2. CASE i # 1
    <3>1. i - 1 \in 1 .. n /\ 1 + (i - 1) = i
      BY <1>1, <2>2
    <3> QED
      BY <3>1 DEF FileOf, LineOf
  <2> QED
    BY <2>1, <2>2
<1>3. /\ R \in [0 .. Len(lines) -> State] /\ R[0] = StartFile(before)
      /\ \A k \in 1 .. Len(lines) : R[k] = ReadLine(R[k - 1], lines[k], d, q)
  <2>1. Len(lines) \in Nat
    BY <1>1
  <2> QED
    BY <1>2, <2>1, LineSteps
<1> HIDE DEF R
<1>4. R[0] \in State /\ ~ R[0].done /\ R[0].levels = before
  <2>1. R[0] \in State
    BY <1>3, StartTyped, Zenon
  <2> QED
    BY <1>3, <2>1 DEF StartFile
<1>5. ReadUpTo(R[1], D, d, q, before, 0)
  <2>1. Len(lines[1]) \in Nat \ {0} /\ lines[1][1] = Num(0)
    BY DEF FileOf
  <2>2. lines[1][1].kind # "empty" /\ lines[1][1] # Db(d)
    BY <2>1 DEF Num, Db
  <2>3. 1 \in 1 .. Len(lines) /\ 1 - 1 = 0 /\ 1 \in 0 .. Len(lines)
    BY <1>1
  <2>4. R[1] = ReadLine(R[0], lines[1], d, q)
    BY <1>3, <2>3
  <2>5. R[1] \in State
    BY <1>3, <2>3, SMTT(30)
  <2>6. ~ R[1].match /\ ~ R[1].done /\ R[1].levels = before
    BY <1>4, <2>1, <2>2, <2>4, OtherLine
  <2> QED
    BY <2>5, <2>6 DEF ReadUpTo
<1>6. 0 \in T /\ T \in SUBSET Nat
  BY <1>1, <1>5
<1>7. ASSUME NEW k \in 1 .. n, k - 1 \in T PROVE k \in T
  <2>1. ReadUpTo(R[k], D, d, q, before, k - 1)
    <3>1. 1 + (k - 1) = k
      BY <1>1
    <3> QED
      BY <1>7, <3>1
  <2>2. 1 + k \in 1 .. Len(lines) /\ (1 + k) - 1 = k /\ k \in 0 .. n
    BY <1>1
  <2>3. R[1 + k] = ReadLine(R[k], lines[1 + k], d, q)
    BY <1>3, <2>2
  <2>4. LineOf(lines[1 + k], D[k])
    BY <1>7, SMTT(30) DEF FileOf
  <2>5. ReadUpTo(R[1 + k], D, d, q, before, k)
    BY <2>1, <2>3, <2>4, EntryRead
  <2> QED
    BY <2>2, <2>5
<1> HIDE DEF T
<1>8. n \in T
  <2>1. n \in Nat /\ n \in 0 .. n
    BY <1>1
  <2> HIDE DEF n
  <2> QED
    BY <1>6, <1>7, <2>1, BoundedInd, Zenon
<1>9. ReadUpTo(R[1 + n], D, d, q, before, n)
  BY <1>8 DEF T
<1> QED
  BY <1>1, <1>9 DEF R

----------------------------------------------------------------------------
(* The invariant.                                                          *)

\* No statement has more levels than the array has places.
Bounded(rs) == \A d, q : Len(OfStatement(rs, d, q)) <= EXPR_MAX_NUM

(***************************************************************************)
(* Writing the rows to a file and reading it for a statement gives its     *)
(* levels.                                                                 *)
(***************************************************************************)
LEMMA ReadBack ==
  ASSUME NEW rs \in Seq(Row), rs # <<>>, Bounded(rs), NEW d, NEW q,
         NEW before \in LevelArrays, NEW lines, lines = Aggregate(rs)
  PROVE  LET after == LinesRead(lines, d, q, before)[Len(lines)].levels
         IN  after \in LevelArrays /\ Got(after, before, OfStatement(rs, d, q))
<1> DEFINE D == Dictionary(rs)
           P == OfStatement(rs, d, q)
           R == LinesRead(lines, d, q, before)[Len(lines)]
<1>1. DictOK(D, rs, Len(rs)) /\ Len(rs) \in Nat /\ Len(rs) > 0
  BY DictionaryOK
<1> HIDE DEF D, R
<1>2. /\ D \in Seq(Entry) /\ D # <<>>
      /\ \A k, l \in DOMAIN D : IsFor(D[k], D[l].db, D[l].id) => k = l
  BY <1>1, Zenon DEF DictOK
<1>3. \A k \in DOMAIN D : D[k].levels = OfStatement(rs, D[k].db, D[k].id)
  BY <1>1, Zenon DEF DictOK, OfStatement
<1>4. \A k \in DOMAIN D : Len(D[k].levels) <= EXPR_MAX_NUM
  BY <1>3, Zenon DEF Bounded
<1>5. FileOf(lines, D)
  <2>1. EXPR_MAX_NUM \in Nat
    BY InputsAssumption
  <2> QED
    BY <1>2, <1>4, <2>1, FileIs DEF D
<1>6. ReadUpTo(R, D, d, q, before, Len(D))
  BY <1>2, <1>4, <1>5, FileRead DEF R
<1>7. R \in State /\ R.levels \in LevelArrays /\ DOMAIN D = 1 .. Len(D)
  BY <1>2, <1>6 DEF ReadUpTo, State
<1>8. ASSUME NEW k \in DOMAIN D, IsFor(D[k], d, q), Got(R.levels, before, D[k].levels)
      PROVE  Got(R.levels, before, P)
  BY <1>3, <1>8, Zenon DEF IsFor
<1>9. ASSUME R.levels = before, \A k \in DOMAIN D : ~ IsFor(D[k], d, q)
      PROVE  Got(R.levels, before, P)
  <2>1. P = <<>>
    BY <1>1, <1>9, Zenon DEF DictOK, OfStatement
  <2>2. Len(P) = 0
    BY <2>1
  <2> HIDE DEF P
  <2> QED
    BY <1>9, <2>2 DEF Got
<1>10. Got(R.levels, before, P)
  BY <1>6, <1>7, <1>8, <1>9 DEF ReadUpTo
<1> QED
  BY <1>7, <1>10 DEF R

\* The levels of a statement after one more row.
LEMMA OneMoreRow ==
  ASSUME NEW rs \in Seq(Row), NEW r \in Row, NEW d, NEW q
  PROVE  OfStatement(Append(rs, r), d, q) = AddLevel(OfStatement(rs, d, q), r, d, q)
<1>0. PICK w \in Seq(Row) : w = Append(rs, r)
  BY AppendProperties, Zenon
<1> DEFINE n == Len(rs)
           U == LevelsUpTo(rs, d, q)
           V == LevelsUpTo(w, d, q)
           T == {k \in 0 .. n : U[k] = V[k]}
<1>1. n \in Nat /\ Len(w) = n + 1 /\ w[n + 1] = r /\ \A k \in 1 .. n : w[k] = rs[k]
  BY <1>0
<1>2. U[0] = <<>> /\ \A k \in 1 .. n : U[k] = AddLevel(U[k - 1], rs[k], d, q)
  BY LevelsSteps
<1>3. /\ V[0] = <<>>
      /\ \A k \in 1 .. n + 1 : V[k] = AddLevel(V[k - 1], w[k], d, q)
  <2>1. V[0] = <<>> /\ \A k \in 1 .. Len(w) : V[k] = AddLevel(V[k - 1], w[k], d, q)
    BY LevelsSteps
  <2> QED
    BY <1>1, <2>1
<1> HIDE DEF U, V
<1>4. 0 \in T /\ T \in SUBSET Nat
  BY <1>1, <1>2, <1>3
<1>5. ASSUME NEW k \in 1 .. n, k - 1 \in T PROVE k \in T
  <2>1. k \in 1 .. n + 1 /\ k \in 0 .. n
    BY <1>1
  <2>2. U[k] = V[k]
    BY <1>1, <1>2, <1>3, <1>5, <2>1
  <2> QED
    BY <2>1, <2>2
<1> HIDE DEF T
<1>6. n \in T
  <2>1. n \in Nat /\ n \in 0 .. n
    BY <1>1
  <2> HIDE DEF n
  <2> QED
    BY <1>4, <1>5, <2>1, BoundedInd, Zenon
<1>7. n + 1 \in 1 .. n + 1 /\ n + 1 - 1 = n
  BY <1>1
<1>8. V[n + 1] = AddLevel(V[n], r, d, q)
  BY <1>1, <1>3, <1>7
<1> QED
  BY <1>0, <1>1, <1>6, <1>8 DEF T, U, V, OfStatement
\* The file is the one that was written from source.
FileKept ==
  \/ file = <<>>
  \/ file = Aggregate(source) /\ source # <<>> /\ Bounded(source)

\* The inductive invariant.
LInv ==
  /\ TypeOK /\ RoundTrip /\ NothingBorrowed /\ FileKept /\ Bounded(rows)
  /\ rows # <<>> => files < MaxFiles

\* So has no statement without rows.
LEMMA EmptyBounded == Bounded(<<>>)
<1>1. <<>> \in Seq(Row) /\ Len(<<>>) = 0
  OBVIOUS
<1>2. ASSUME NEW d, NEW q PROVE OfStatement(<<>>, d, q) = <<>>
  <2>1. PICK rs \in Seq(Row) : rs = <<>>
    BY <1>1, Zenon
  <2>2. LevelsUpTo(rs, d, q)[0] = <<>>
    BY LevelsSteps
  <2> QED
    BY <1>1, <2>1, <2>2, Zenon DEF OfStatement
<1> QED
  BY <1>1, <1>2, InputsAssumption DEF Bounded

\* One more row of predict_cost_result.py.
LEMMA PredictInv ==
  ASSUME LInv, NEW r \in Row, Predict(r)
  PROVE  LInv'
<1>1. rows \in Seq(Row) /\ files < MaxFiles /\ rows' = Append(rows, r)
  BY DEF LInv, TypeOK, Predict
<1>2. UNCHANGED <<source, file, files, database, statement, levels, repeated, predicted>>
  BY DEF Predict
<1>3. rows' \in Seq(Row)
  BY <1>1
<1>4. Bounded(rows')
  <2> SUFFICES ASSUME NEW d, NEW q
               PROVE  Len(OfStatement(rows', d, q)) <= EXPR_MAX_NUM
    BY DEF Bounded
  <2> DEFINE P == OfStatement(rows, d, q)
  <2>1. OfStatement(rows', d, q) = AddLevel(P, r, d, q)
    BY <1>1, OneMoreRow
  <2>2. P \in Seq(Levels)
    <3>1. Len(rows) \in 0 .. Len(rows)
      BY <1>1
    <3> QED
      BY <1>1, <3>1, LevelsSteps DEF OfStatement
  <2>3. Len(P) <= EXPR_MAX_NUM
    BY DEF LInv, Bounded
  <2>4. ASSUME r.db = d, r.id = q PROVE Len(P) < EXPR_MAX_NUM
    BY <2>4 DEF Predict
  <2>5. r.level \in Levels
    BY DEF Row
  <2> HIDE DEF P
  <2>6. CASE r.db = d /\ r.id = q
    <3>1. OfStatement(rows', d, q) = Append(P, r.level)
      BY <2>1, <2>6, Zenon DEF AddLevel
    <3> QED
      BY <2>2, <2>4, <2>6, <3>1, InputsAssumption
  <2>7. CASE ~ (r.db = d /\ r.id = q)
    BY <2>1, <2>3, <2>7, Zenon DEF AddLevel
  <2> QED
    BY <2>6, <2>7
<1>5. TypeOK'
  BY <1>2, <1>3 DEF LInv, TypeOK
<1>6. RoundTrip' /\ NothingBorrowed' /\ FileKept'
  BY <1>2 DEF LInv, RoundTrip, NothingBorrowed, FileKept
<1> QED
  BY <1>1, <1>2, <1>4, <1>5, <1>6 DEF LInv

\* The rows become the file (aggregated_df.to_csv).
LEMMA PublishInv ==
  ASSUME LInv, Publish
  PROVE  LInv'
<1>1. /\ rows # <<>> /\ source' = rows /\ file' = Aggregate(rows) /\ files' = files + 1
      /\ rows' = <<>> /\ UNCHANGED <<database, statement, levels, repeated, predicted>>
  BY DEF Publish
<1>2. TypeOK'
  <2>1. files' \in 0 .. MaxFiles
    BY <1>1, InputsAssumption DEF LInv, TypeOK
  <2>2. rows' \in Seq(Row)
    BY <1>1
  <2> QED
    BY <1>1, <2>1, <2>2 DEF LInv, TypeOK
<1>3. RoundTrip' /\ NothingBorrowed'
  BY <1>1 DEF LInv, RoundTrip, NothingBorrowed
<1>4. FileKept' /\ Bounded(rows')
  BY <1>1, EmptyBounded DEF LInv, FileKept
<1> QED
  BY <1>1, <1>2, <1>3, <1>4 DEF LInv

\* exec_simple_query reads the file for its text.
LEMMA ReceiveInv ==
  ASSUME LInv, NEW q \in QueryIds, Receive(q)
  PROVE  LInv'
<1> DEFINE before == StartLevels(q)
           P == OfStatement(source, database, q)
<1>1. /\ statement' = q /\ levels' = ReadLevelsFile(database, q, before)
      /\ repeated' = (q = statement) /\ predicted' = P
      /\ UNCHANGED <<rows, source, file, files, database>> /\ file # <<>>
  BY DEF Receive
<1>2. /\ file = Aggregate(source) /\ source # <<>> /\ Bounded(source) /\ source \in Seq(Row)
  BY <1>1 DEF LInv, FileKept, TypeOK
<1>3. before \in LevelArrays /\ (q # statement => before = AllZero)
  BY DEF StartLevels, AllZero, LevelArrays, LInv, TypeOK
<1>4. P \in Seq(Levels) /\ Len(P) <= EXPR_MAX_NUM
  <2>1. Len(source) \in 0 .. Len(source)
    BY <1>2
  <2>2. Len(P) <= EXPR_MAX_NUM
    BY <1>2, Zenon DEF Bounded
  <2> QED
    BY <1>2, <2>1, <2>2, LevelsSteps DEF OfStatement
<1> HIDE DEF before, P
<1>5. levels' \in LevelArrays /\ Got(levels', before, P)
  BY <1>1, <1>2, <1>3, ReadBack DEF ReadLevelsFile, P
<1>6. TypeOK'
  BY <1>1, <1>4, <1>5 DEF LInv, TypeOK, LevelArrays
<1>7. RoundTrip'
  BY <1>1, <1>4, <1>5 DEF RoundTrip, Got
<1>8. NothingBorrowed'
  <2> SUFFICES ASSUME ~ repeated', NEW i \in Pos, i >= Len(P) PROVE levels'[i] = 0
    BY <1>1 DEF NothingBorrowed
  <2>1. before[i] = 0
    BY <1>1, <1>3, Zenon DEF AllZero
  <2> QED
    BY <1>5, <2>1 DEF Got
<1>9. FileKept' /\ Bounded(rows') /\ (rows' # <<>> => files' < MaxFiles)
  BY <1>1 DEF LInv, FileKept
<1> QED
  BY <1>6, <1>7, <1>8, <1>9 DEF LInv

\* A new session begins with a level array of zeros.
LEMMA ConnectInv ==
  ASSUME LInv, NEW d \in Databases, Connect(d)
  PROVE  LInv'
<1>1. /\ database' = d /\ statement' = NoText /\ levels' = AllZero
      /\ repeated' = FALSE /\ predicted' = <<>> /\ UNCHANGED <<rows, source, file, files>>
  BY DEF Connect
<1>2. AllZero \in [Pos -> 0 .. 3] /\ (\A i \in Pos : AllZero[i] = 0)
  BY DEF AllZero
<1>3. TypeOK'
  <2>1. predicted' \in Seq(Levels)
    <3>1. <<>> \in Seq(Levels)
      OBVIOUS
    <3> QED
      BY <1>1, <3>1, Zenon
  <2> QED
    BY <1>1, <1>2, <2>1, Zenon DEF LInv, TypeOK
<1>4. RoundTrip'
  BY <1>1 DEF RoundTrip
<1>5. NothingBorrowed'
  BY <1>1, <1>2 DEF NothingBorrowed
<1>6. FileKept' /\ Bounded(rows') /\ (rows' # <<>> => files' < MaxFiles)
  BY <1>1 DEF LInv, FileKept
<1> QED
  BY <1>3, <1>4, <1>5, <1>6 DEF LInv

\* LInv holds throughout.
LEMMA LInvHolds == Spec => []LInv
<1>1. Init => LInv
  <2> SUFFICES ASSUME Init PROVE LInv
    OBVIOUS
  <2>1. AllZero \in [Pos -> 0 .. 3] /\ (\A i \in Pos : AllZero[i] = 0)
    BY DEF AllZero
  <2>2. TypeOK
    <3>1. <<>> \in Seq(Row) /\ <<>> \in Seq(Levels)
      OBVIOUS
    <3>2. rows \in Seq(Row) /\ source \in Seq(Row) /\ predicted \in Seq(Levels)
      BY <3>1, Zenon DEF Init
    <3>3. 0 \in 0 .. MaxFiles
      BY InputsAssumption
    <3> QED
      BY <2>1, <3>2, <3>3, Zenon DEF Init, TypeOK
  <2>3. RoundTrip /\ NothingBorrowed
    BY <2>1 DEF Init, RoundTrip, NothingBorrowed
  <2>4. FileKept /\ Bounded(rows) /\ rows = <<>>
    BY EmptyBounded DEF Init, FileKept
  <2> QED
    BY <2>2, <2>3, <2>4 DEF LInv
<1>2. LInv /\ [Next]_vars => LInv'
  <2> SUFFICES ASSUME LInv, [Next]_vars PROVE LInv'
    OBVIOUS
  <2>1. CASE \E r \in Row : Predict(r)
    BY <2>1, PredictInv
  <2>2. CASE Publish
    BY <2>2, PublishInv
  <2>3. CASE \E q \in QueryIds : Receive(q)
    BY <2>3, ReceiveInv
  <2>4. CASE \E d \in Databases \ {database} : Connect(d)
    BY <2>4, ConnectInv
  <2>5. CASE UNCHANGED vars
    BY <2>5 DEF vars, LInv, TypeOK, RoundTrip, NothingBorrowed, FileKept, Bounded
  <2> QED
    BY <2>1, <2>2, <2>3, <2>4, <2>5 DEF Next
<1> QED
  BY <1>1, <1>2, PTL DEF Spec

(***************************************************************************)
(* Every element of currentExprJITLevels is a level 0 to 3, whatever the   *)
(* files hold, and the other variables have their types.                   *)
(***************************************************************************)
THEOREM LevelsTyped == Spec => []TypeOK
<1>1. LInv => TypeOK
  BY DEF LInv
<1> QED
  BY <1>1, LInvHolds, PTL

(***************************************************************************)
(* For any databases, queries, predictions and number of files: what the   *)
(* server reads from the file that aggregate_predictions wrote are the     *)
(* levels predicted for the statement, in their order (postgres.c, the     *)
(* reader of levelsFile, which never sets match again).                    *)
(***************************************************************************)
THEOREM LevelsReadBack == Spec => []RoundTrip
<1>1. LInv => RoundTrip
  BY DEF LInv
<1> QED
  BY <1>1, LInvHolds, PTL

(***************************************************************************)
(* A text that is new has level 0 wherever its line gives none: the reader *)
(* takes nothing from other lines and exec_simple_query nothing from the   *)
(* text before.                                                            *)
(***************************************************************************)
THEOREM LevelsNotBorrowed == Spec => []NothingBorrowed
<1>1. LInv => NothingBorrowed
  BY DEF LInv
<1> QED
  BY <1>1, LInvHolds, PTL
=============================================================================
