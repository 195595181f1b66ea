------------------------ MODULE ExprRegistryProofs ------------------------
(***************************************************************************)
(* The expression registry implements a numbering, for every table size,   *)
(* every set of expressions and any number of backends.                    *)
(***************************************************************************)
EXTENDS ExprRegistry, BoundedRecursion, TLAPS

(***************************************************************************)
(* The invariant of one table: every occupied slot holds an expression,    *)
(* whose probe sequence passes only over occupied slots of others before   *)
(* it reaches the slot, and the numbers are at most n and distinct.        *)
(***************************************************************************)
Keyed(t) ==
  \A s \in Slots : Occupied(t, s) => \E e \in Exprs : InTable(e) /\ Matches(t, s, e)

Reached(t, e, s) == \E i \in Slots : Probe(e, i) = s /\ FirstStop(t, e, i)

Chained(t) ==
  \A e \in Exprs, s \in Slots :
    (InTable(e) /\ Occupied(t, s) /\ Matches(t, s, e)) => Reached(t, e, s)

Numbered(t, n) ==
  \A s \in Slots : Occupied(t, s) =>
    /\ t[s].expression_id \in 1 .. n
    /\ \A r \in Slots \ {s} : Occupied(t, r) => t[r].expression_id # t[s].expression_id

TableInv(t, n) == t \in [Slots -> Slot] /\ Keyed(t) /\ Chained(t) /\ Numbered(t, n)

IInv ==
  /\ TypeOK
  /\ phase = "loading" => Tabled(Postmaster)
  /\ \A p \in Procs : Tabled(p) => TableInv(table[p], exprNum[p])

LEMMA WrapInt == \A x \in Int : Wrap(x) \in Int
BY LimitAssumption DEF Wrap

(***************************************************************************)
(* The partial hashes of calculate_hash, by recursion over the steps.      *)
(***************************************************************************)
PartialHashes(h, e) ==
  /\ h \in [0 .. Len(e) -> Int] /\ h[0] = 17
  /\ \A k \in 1 .. Len(e) : h[k] = Wrap(h[k - 1] * 3 + e[k])

LEMMA HashSteps ==
  ASSUME NEW e \in Exprs
  PROVE  /\ e \in Seq(Nat) /\ Len(e) \in Nat
         /\ \E h : PartialHashes(h, e) /\ CalculateHash(e) = h[Len(e)]
<1> DEFINE n == Len(e)
           H == CHOOSE h : h = [i \in 0 .. n |->
                  IF i = 0 THEN 17 ELSE Wrap(h[i - 1] * 3 + e[i])]
           step == [k \in 1 .. n |-> [x \in Int |-> Wrap(x * 3 + e[k])]]
<1>0. e \in Seq(Nat)
  BY ExprsAssumption
<1>1. n \in Nat /\ 17 \in Int
  BY <1>0
<1>2. CalculateHash(e) = H[n]
  BY Zenon DEF CalculateHash
<1>3. \A k \in 1 .. n, x \in Int : Wrap(x * 3 + e[k]) \in Int
  <2>1. \A k \in 1 .. n, x \in Int : x * 3 + e[k] \in Int
    BY <1>0
  <2> QED
    BY <2>1, WrapInt, Zenon
<1> HIDE DEF n
<1>4. step \in Steps(n, Int)
  BY <1>3 DEF Steps
<1>5. PICK f \in [0 .. n -> Int] : Iterates(f, n, 17, step)
  <2> HIDE DEF step
  <2> QED
    BY <1>1, <1>4, RecursionExists
<1>6. f = [i \in 0 .. n |-> IF i = 0 THEN 17 ELSE Wrap(f[i - 1] * 3 + e[i])]
  <2>1. ASSUME NEW i \in 0 .. n
        PROVE  f[i] = IF i = 0 THEN 17 ELSE Wrap(f[i - 1] * 3 + e[i])
    <3>1. CASE i = 0
      BY <1>5, <3>1 DEF Iterates
    <3>2. CASE i # 0
      <4>1. i \in 1 .. n /\ f[i - 1] \in Int
        BY <1>1, <3>2
      <4>2. f[i] = step[i][f[i - 1]]
        BY <1>5, <3>2, Zenon DEF Iterates
      <4> QED
        BY <3>2, <4>1, <4>2
    <3> QED
      BY <3>1, <3>2
  <2> QED
    BY <2>1
<1>7. H = [i \in 0 .. n |-> IF i = 0 THEN 17 ELSE Wrap(H[i - 1] * 3 + e[i])]
  BY <1>6, Zenon
<1> DEFINE T == {k \in 0 .. n : H[k] \in Int}
<1> HIDE DEF H
<1>8. 0 \in T
  BY <1>1, <1>7
<1>9. ASSUME NEW k \in 1 .. n, k - 1 \in T PROVE k \in T
  <2>1. k \in 0 .. n /\ k # 0 /\ H[k - 1] \in Int
    BY <1>1, <1>9
  <2>2. H[k] = Wrap(H[k - 1] * 3 + e[k])
    BY <1>7, <2>1, Zenon
  <2> QED
    BY <1>3, <2>1, <2>2
<1>10. T \in SUBSET Nat
  BY <1>1
<1> HIDE DEF T
<1>11. \A k \in 0 .. n : k \in T
  BY <1>1, <1>8, <1>9, <1>10, BoundedInd
<1>12. H \in [0 .. n -> Int]
  <2>1. DOMAIN H = 0 .. n
    BY <1>7
  <2> QED
    BY <1>7, <1>11, <2>1 DEF T
<1>13. H[0] = 17
  BY <1>1, <1>7
<1>14. ASSUME NEW k \in 1 .. n PROVE H[k] = Wrap(H[k - 1] * 3 + e[k])
  <2>1. k \in 0 .. n /\ k # 0
    BY <1>1
  <2> QED
    BY <1>7, <2>1, Zenon
<1>15. PartialHashes(H, e)
  BY <1>12, <1>13, <1>14 DEF PartialHashes, n
<1> QED
  BY <1>0, <1>1, <1>2, <1>15 DEF n

LEMMA HashInt ==
  ASSUME NEW e \in Exprs
  PROVE  CalculateHash(e) \in Int /\ Len(e) \in Nat
<1>1. PICK h : PartialHashes(h, e) /\ CalculateHash(e) = h[Len(e)]
  BY HashSteps
<1>2. Len(e) \in Nat /\ Len(e) \in 0 .. Len(e)
  BY HashSteps
<1> QED
  BY <1>1, <1>2 DEF PartialHashes

(***************************************************************************)
(* The probe sequence stays inside the table.                              *)
(***************************************************************************)
LEMMA ProbeInTable ==
  ASSUME NEW e \in Exprs, InTable(e), NEW i \in Slots
  PROVE  Probe(e, i) \in Slots
BY SizeAssumption DEF InTable, Probe, Slots

(***************************************************************************)
(* The loops of find_expression and add_expression stop at a slot of the   *)
(* table, and at a free one only if it is the first stop on the sequence.  *)
(***************************************************************************)
LEMMA StopIsFirst ==
  ASSUME NEW t, NEW e \in Exprs, InTable(e)
  PROVE  /\ StopSlot(t, e) \in Slots
         /\ ~Occupied(t, StopSlot(t, e)) => Reached(t, e, StopSlot(t, e))
<1>1. CASE \E i \in Slots : FirstStop(t, e, i)
  <2>1. PICK i \in Slots : i = (CHOOSE j \in Slots : FirstStop(t, e, j)) /\ FirstStop(t, e, i)
    BY <1>1, Zenon
  <2>2. StopSlot(t, e) = Probe(e, i)
    BY <1>1, <2>1 DEF StopSlot
  <2> QED
    BY <2>1, <2>2, ProbeInTable DEF Reached
<1>2. CASE ~\E i \in Slots : FirstStop(t, e, i)
  <2>1. StopSlot(t, e) = Probe(e, 0)
    BY <1>2 DEF StopSlot
  <2>2. 0 \in Slots /\ 0 .. 0 - 1 = {}
    BY SizeAssumption DEF Slots
  <2>3. ~StopsAt(t, e, 0)
    BY <1>2, <2>2 DEF FirstStop
  <2> QED
    BY <2>1, <2>2, <2>3, ProbeInTable DEF StopsAt
<1> QED
  BY <1>1, <1>2

(***************************************************************************)
(* Two first stops are the same slot, which StopSlot returns.              *)
(***************************************************************************)
LEMMA ReachedIsStop ==
  ASSUME NEW t, NEW e \in Exprs, NEW s \in Slots, Reached(t, e, s)
  PROVE  StopSlot(t, e) = s
<1>1. PICK i \in Slots : Probe(e, i) = s /\ FirstStop(t, e, i)
  BY DEF Reached
<1>2. PICK j \in Slots : j = (CHOOSE k \in Slots : FirstStop(t, e, k)) /\ FirstStop(t, e, j)
  BY <1>1, Zenon
<1>3. i \in Int /\ j \in Int /\ i >= 0 /\ j >= 0
  BY SizeAssumption DEF Slots
<1>4. ~(j < i) /\ ~(i < j)
  <2>1. ASSUME j < i PROVE FALSE
    <3>1. j \in 0 .. i - 1
      BY <1>3, <2>1
    <3> QED
      BY <1>1, <1>2, <3>1 DEF FirstStop
  <2>2. ASSUME i < j PROVE FALSE
    <3>1. i \in 0 .. j - 1
      BY <1>3, <2>2
    <3> QED
      BY <1>1, <1>2, <3>1 DEF FirstStop
  <2> QED
    BY <2>1, <2>2
<1>5. i = j
  BY <1>3, <1>4
<1> QED
  BY <1>1, <1>2, <1>5 DEF StopSlot

(***************************************************************************)
(* An expression whose probe stops at a free slot is stored nowhere.       *)
(***************************************************************************)
LEMMA FreeMeansUnknown ==
  ASSUME NEW t, Chained(t), NEW e \in Exprs, InTable(e),
         ~Occupied(t, StopSlot(t, e)), NEW r \in Slots, Occupied(t, r)
  PROVE  ~Matches(t, r, e)
BY ReachedIsStop DEF Chained

(***************************************************************************)
(* Filling the free slot at which the probe stopped keeps the invariant of *)
(* the table: the slot lies on nobody else's path, as the slots on those   *)
(* paths are occupied, and its number is larger than all others.           *)
(***************************************************************************)
Filled(t, n, e) ==
  [t EXCEPT ![StopSlot(t, e)] = [hash |-> CalculateHash(e), step_lens |-> Len(e),
                                 expression_id |-> n + 1]]

LEMMA FillKeepsTable ==
  ASSUME NEW n \in Nat, NEW t, TableInv(t, n), NEW e \in Exprs, InTable(e),
         ~Occupied(t, StopSlot(t, e))
  PROVE  TableInv(Filled(t, n, e), n + 1)
<1> DEFINE s == StopSlot(t, e)
           t2 == Filled(t, n, e)
<1>1. s \in Slots /\ Reached(t, e, s)
  BY StopIsFirst
<1>2. CalculateHash(e) \in Int /\ Len(e) \in Nat
  BY HashInt
<1>3. t \in [Slots -> Slot]
  BY DEF TableInv
<1>4. t2 \in [Slots -> Slot]
  BY <1>1, <1>2, <1>3 DEF Filled, Slot
<1>5. /\ t2[s].hash = CalculateHash(e) /\ t2[s].step_lens = Len(e)
      /\ t2[s].expression_id = n + 1
      /\ \A r \in Slots \ {s} : t2[r] = t[r]
  BY <1>1, <1>3 DEF Filled
<1>6. Matches(t2, s, e)
  BY <1>5 DEF Matches
<1>7. \A r \in Slots, x \in Exprs : r # s =>
        /\ Occupied(t2, r) <=> Occupied(t, r)
        /\ Matches(t2, r, x) <=> Matches(t, r, x)
  BY <1>5 DEF Occupied, Matches
<1>8. Keyed(t2)
  <2> SUFFICES ASSUME NEW r \in Slots, Occupied(t2, r)
               PROVE  \E x \in Exprs : InTable(x) /\ Matches(t2, r, x)
    BY DEF Keyed
  <2>1. CASE r = s
    BY <1>6, <2>1
  <2>2. CASE r # s
    BY <1>7, <2>2 DEF TableInv, Keyed
  <2> QED
    BY <2>1, <2>2
<1>9. Numbered(t2, n + 1)
  <2> SUFFICES ASSUME NEW r \in Slots, Occupied(t2, r)
               PROVE  /\ t2[r].expression_id \in 1 .. n + 1
                      /\ \A q \in Slots \ {r} : Occupied(t2, q) =>
                            t2[q].expression_id # t2[r].expression_id
    BY DEF Numbered
  <2>1. \A q \in Slots \ {s} : Occupied(t2, q) => t2[q].expression_id \in 1 .. n
    BY <1>5, <1>7 DEF TableInv, Numbered, Occupied
  <2>2. CASE r = s
    BY <1>5, <2>1, <2>2
  <2>3. CASE r # s
    BY <1>5, <1>7, <2>1, <2>3 DEF TableInv, Numbered, Occupied
  <2> QED
    BY <2>2, <2>3
<1>10. Chained(t2)
  <2> SUFFICES ASSUME NEW x \in Exprs, NEW r \in Slots,
                      InTable(x), Occupied(t2, r), Matches(t2, r, x)
               PROVE  Reached(t2, x, r)
    BY DEF Chained
  <2>1. Reached(t, x, r)
    <3>1. CASE r # s
      BY <1>7, <3>1 DEF TableInv, Chained
    <3>2. CASE r = s
      <4>1. CalculateHash(x) = CalculateHash(e) /\ Len(x) = Len(e)
        BY <1>5, <3>2 DEF Matches
      <4>2. \A i : Probe(x, i) = Probe(e, i)
        BY <4>1 DEF Probe
      <4>3. \A i : StopsAt(t, x, i) <=> StopsAt(t, e, i)
        BY <4>1, <4>2 DEF StopsAt, Matches
      <4> QED
        BY <1>1, <3>2, <4>2, <4>3 DEF Reached, FirstStop
    <3> QED
      BY <3>1, <3>2
  <2>2. PICK i \in Slots : Probe(x, i) = r /\ FirstStop(t, x, i)
    BY <2>1 DEF Reached
  <2>3. StopsAt(t2, x, i)
    BY <2>2 DEF StopsAt
  <2>4. ASSUME NEW j \in 0 .. i - 1 PROVE ~StopsAt(t2, x, j)
    <3>1. ~StopsAt(t, x, j)
      BY <2>2 DEF FirstStop
    <3>2. j \in Slots
      BY SizeAssumption DEF Slots
    <3>3. Probe(x, j) \in Slots
      BY <3>2, ProbeInTable
    <3>4. Probe(x, j) # s
      BY <3>1 DEF StopsAt
    <3> QED
      BY <1>7, <3>1, <3>3, <3>4 DEF StopsAt
  <2> QED
    BY <2>2, <2>3, <2>4 DEF Reached, FirstStop
<1> QED
  BY <1>4, <1>8, <1>9, <1>10 DEF TableInv

(***************************************************************************)
(* The numbers a full slot adds: one, new for the table, unless the hash   *)
(* is 0, the mark of an empty slot.                                        *)
(***************************************************************************)
LEMMA FillNumbers ==
  ASSUME NEW n \in Nat, NEW t, TableInv(t, n), NEW e \in Exprs, InTable(e),
         ~Occupied(t, StopSlot(t, e))
  PROVE  LET k  == <<CalculateHash(e), Len(e)>>
             t2 == Filled(t, n, e)
         IN  /\ CalculateHash(e) = 0 => TableNumbering(t2) = TableNumbering(t)
             /\ CalculateHash(e) # 0 =>
                  TableNumbering(t2) = TableNumbering(t) \cup {<<k, n + 1>>}
             /\ \A old \in TableNumbering(t) : old[1] # k /\ old[2] # n + 1
<1> DEFINE t2 == Filled(t, n, e)
           s == StopSlot(t, e)
           k == <<CalculateHash(e), Len(e)>>
<1>1. s \in Slots /\ ~Occupied(t, s)
  BY StopIsFirst
<1>2. t \in [Slots -> Slot]
  BY DEF TableInv
<1>3. /\ t2[s].hash = CalculateHash(e) /\ t2[s].step_lens = Len(e)
      /\ t2[s].expression_id = n + 1
      /\ \A r \in Slots \ {s} : t2[r] = t[r]
  BY <1>1, <1>2 DEF Filled
<1>4. ASSUME NEW r \in Slots, Occupied(t, r)
      PROVE  <<t[r].hash, t[r].step_lens>> # k /\ t[r].expression_id # n + 1
  <2>1. ~Matches(t, r, e)
    BY <1>1, <1>4, FreeMeansUnknown DEF TableInv
  <2>2. t[r].expression_id \in 1 .. n
    BY <1>4 DEF TableInv, Numbered
  <2> QED
    BY <2>1, <2>2 DEF Matches
<1> HIDE DEF s, t2
<1>5. ASSUME CalculateHash(e) = 0 PROVE TableNumbering(t2) = TableNumbering(t)
  BY <1>1, <1>3, <1>5 DEF TableNumbering, Occupied
<1>6. ASSUME CalculateHash(e) # 0
      PROVE  TableNumbering(t2) = TableNumbering(t) \cup {<<k, n + 1>>}
  BY <1>1, <1>3, <1>6 DEF TableNumbering, Occupied
<1> HIDE DEF k
<1>7. \A old \in TableNumbering(t) : old[1] # k /\ old[2] # n + 1
  BY <1>4 DEF TableNumbering
<1> QED
  BY <1>5, <1>6, <1>7 DEF t2, k

LEMMA EmptyTableInv ==
  \A n \in Nat : TableInv(EmptyTable, n)
BY DEF TableInv, EmptyTable, FreeSlot, Slot, Keyed, Chained, Numbered, Occupied

(***************************************************************************)
(* What add_expression does in one process: nothing to the tables, or it   *)
(* fills the slot at which the probe stopped.                              *)
(***************************************************************************)
Fills(p, e) ==
  /\ InTable(e) /\ ~Occupied(table[p], StopSlot(table[p], e))
  /\ table' = [table EXCEPT ![p] = Filled(table[p], exprNum[p], e)]
  /\ exprNum' = [exprNum EXCEPT ![p] = @ + 1]
  /\ lines' = lines \cup {<<exprNum[p] + 1, e>>}

LEMMA AddFills ==
  ASSUME TypeOK, NEW p \in Procs, NEW e \in Exprs, AddExpression(p, e)
  PROVE  /\ wild' \subseteq Procs
         /\ Fills(p, e) \/ UNCHANGED <<table, exprNum, lines>>
BY DEF TypeOK, AddExpression, Fills, Filled

LEMMA AddKeepsInv ==
  ASSUME IInv, NEW p \in Procs, Tabled(p), NEW e \in Exprs, AddExpression(p, e)
  PROVE  /\ wild' \subseteq Procs
         /\ table' \in [Procs -> [Slots -> Slot] \cup {NoTable}]
         /\ exprNum' \in [Procs -> Nat]
         /\ lines' \subseteq (Nat \X Exprs)
         /\ \A q \in Procs : Tabled(q)' <=> Tabled(q)
         /\ \A q \in Procs : Tabled(q)' => TableInv(table'[q], exprNum'[q])
<1>1. TypeOK /\ TableInv(table[p], exprNum[p])
  BY DEF IInv
<1>2. CASE UNCHANGED <<table, exprNum, lines>>
  BY <1>1, <1>2, AddFills DEF IInv, TypeOK, Tabled
<1>3. CASE Fills(p, e)
  <2>1. TableInv(Filled(table[p], exprNum[p], e), exprNum[p] + 1)
    BY <1>1, <1>3, FillKeepsTable DEF Fills, TypeOK
  <2>2. Filled(table[p], exprNum[p], e) \in [Slots -> Slot]
    BY <2>1 DEF TableInv
  <2>3. exprNum[p] \in Nat
    BY <1>1 DEF TypeOK
  <2>4. table' \in [Procs -> [Slots -> Slot] \cup {NoTable}]
    BY <1>1, <1>3, <2>2 DEF Fills, TypeOK
  <2>5. exprNum' \in [Procs -> Nat] /\ lines' \subseteq (Nat \X Exprs)
    BY <1>1, <1>3, <2>3 DEF Fills, TypeOK
  <2>6. /\ table'[p] = Filled(table[p], exprNum[p], e) /\ exprNum'[p] = exprNum[p] + 1
        /\ \A q \in Procs \ {p} : table'[q] = table[q] /\ exprNum'[q] = exprNum[q]
    BY <1>1, <1>3 DEF Fills, TypeOK
  <2>7. \A q \in Procs : Tabled(q)' <=> Tabled(q)
    BY <2>2, <2>6, NoTableAssumption DEF Tabled
  <2>8. \A q \in Procs : Tabled(q)' => TableInv(table'[q], exprNum'[q])
    BY <2>1, <2>6, <2>7 DEF IInv
  <2> QED
    BY <1>1, <2>4, <2>5, <2>7, <2>8, AddFills
<1> QED
  BY <1>1, <1>2, <1>3, AddFills

LEMMA InitIInv == Init => IInv
BY PostmasterAssumption, FileAssumption DEF Init, IInv, TypeOK, Tabled, Procs

LEMMA CreateKeepsInv ==
  ASSUME IInv, CreateTable,
         exprNum' \in [Procs -> Nat], exprNum'[Postmaster] = exprNum[Postmaster]
  PROVE  /\ phase' \in {"loading", "up"} /\ pos' \in 0 .. Len(StepsFile)
         /\ table' \in [Procs -> [Slots -> Slot] \cup {NoTable}]
         /\ phase' = "loading" => Tabled(Postmaster)'
         /\ \A q \in Procs : Tabled(q)' => TableInv(table'[q], exprNum'[q])
<1>1. pos' \in 0 .. Len(StepsFile)
  BY FileAssumption DEF CreateTable
<1>2. Postmaster \in Procs
  BY DEF Procs
<1>3. EmptyTable \in [Slots -> Slot] /\ EmptyTable # NoTable
  BY EmptyTableInv, NoTableAssumption DEF TableInv
<1>4. CASE enableME
  <2>1. /\ phase' = "loading" /\ table'[Postmaster] = EmptyTable
        /\ \A q \in Procs \ {Postmaster} : table'[q] = NoTable
        /\ table' \in [Procs -> [Slots -> Slot] \cup {NoTable}]
    BY <1>2, <1>3, <1>4 DEF CreateTable
  <2> QED
    BY <1>1, <1>2, <1>3, <2>1, EmptyTableInv DEF Tabled
<1>5. CASE ~enableME
  <2>1. /\ phase' = "up" /\ table'[Postmaster] = table[Postmaster]
        /\ \A q \in Procs \ {Postmaster} : table'[q] = NoTable
        /\ table' \in [Procs -> [Slots -> Slot] \cup {NoTable}]
    BY <1>2, <1>5 DEF CreateTable, IInv, TypeOK
  <2> QED
    BY <1>1, <1>2, <2>1 DEF Tabled, IInv
<1> QED
  BY <1>4, <1>5 DEF IInv, TypeOK

LEMMA NextIInv == IInv /\ [Next]_vars => IInv'
<1> SUFFICES ASSUME IInv, [Next]_vars PROVE IInv'
  OBVIOUS
<1>0. Postmaster \in Procs /\ Backends \subseteq Procs
  BY DEF Procs
<1>1. CASE Start
  BY <1>1, CreateKeepsInv DEF Start, IInv, TypeOK
<1>2. CASE ParseLine
  <2>1. pos + 1 \in 1 .. Len(StepsFile) /\ StepsFile[pos + 1] \in Exprs
    BY <1>2, FileAssumption DEF ParseLine, IInv, TypeOK
  <2>2. Tabled(Postmaster) /\ AddExpression(Postmaster, StepsFile[pos + 1])
    BY <1>2 DEF ParseLine, IInv
  <2> QED
    BY <1>0, <1>2, <2>1, <2>2, AddKeepsInv DEF ParseLine, IInv, TypeOK
<1>3. CASE ParseEnd
  BY <1>3 DEF ParseEnd, IInv, TypeOK, Tabled
<1>4. CASE Reload
  BY <1>4 DEF Reload, IInv, TypeOK, Tabled
<1>5. CASE Crash
  <2>1. exprNum' \in [Procs -> Nat] /\ exprNum'[Postmaster] = exprNum[Postmaster]
    BY <1>0, <1>5 DEF Crash, IInv, TypeOK
  <2> QED
    BY <1>5, <2>1, CreateKeepsInv DEF Crash, IInv, TypeOK
<1>6. CASE Stop
  BY <1>6, FileAssumption DEF Stop, IInv, TypeOK, Tabled
<1>7. ASSUME NEW b \in Backends, Fork(b) PROVE IInv'
  <2>1. /\ table'[b] = table[Postmaster] /\ exprNum'[b] = exprNum[Postmaster]
        /\ \A q \in Procs \ {b} : table'[q] = table[q] /\ exprNum'[q] = exprNum[q]
    BY <1>0, <1>7 DEF Fork, IInv, TypeOK
  <2>2. TypeOK'
    BY <1>0, <1>7 DEF Fork, IInv, TypeOK
  <2>3. \A q \in Procs : Tabled(q)' => TableInv(table'[q], exprNum'[q])
    BY <1>0, <2>1 DEF IInv, Tabled
  <2> QED
    BY <1>7, <2>2, <2>3 DEF IInv, Fork
<1>8. ASSUME NEW b \in Backends, Exit(b) PROVE IInv'
  <2>1. /\ table'[b] = NoTable
        /\ \A q \in Procs \ {b} : table'[q] = table[q] /\ exprNum'[q] = exprNum[q]
    BY <1>0, <1>8 DEF Exit, IInv, TypeOK
  <2>2. TypeOK'
    BY <1>0, <1>8 DEF Exit, IInv, TypeOK
  <2>3. \A q \in Procs : Tabled(q)' => TableInv(table'[q], exprNum'[q])
    BY <2>1 DEF IInv, Tabled
  <2>4. phase' = phase /\ b # Postmaster
    BY <1>8, PostmasterAssumption DEF Exit
  <2> QED
    BY <1>0, <2>1, <2>2, <2>3, <2>4 DEF IInv, Tabled
<1>9. ASSUME NEW b \in Backends, NEW e \in Exprs, Register(b, e) PROVE IInv'
  <2>1. Tabled(b) /\ AddExpression(b, e) /\ UNCHANGED <<phase, enableME, pos, live>>
    BY <1>9 DEF Register, Tabled
  <2> QED
    BY <1>0, <2>1, AddKeepsInv DEF IInv, TypeOK
<1>10. CASE UNCHANGED vars
  BY <1>10 DEF vars, IInv, TypeOK, Tabled
<1> QED
  BY <1>1, <1>2, <1>3, <1>4, <1>5, <1>6, <1>7, <1>8, <1>9, <1>10 DEF Next

LEMMA IInvProperties == IInv => NumbersUnique /\ FoundAgain
<1> SUFFICES ASSUME IInv PROVE NumbersUnique /\ FoundAgain
  OBVIOUS
<1>1. FoundAgain
  BY ReachedIsStop DEF FoundAgain, IInv, TableInv, Chained
<1>2. ASSUME NEW p \in Procs, Tabled(p) PROVE TableUnique(table[p], exprNum[p])
  <2> DEFINE t == table[p]
  <2>1. TableInv(t, exprNum[p])
    BY <1>2 DEF IInv
  <2>2. ASSUME NEW s \in Slots, NEW r \in Slots, Occupied(t, s), Occupied(t, r), r # s
        PROVE  <<t[r].hash, t[r].step_lens>> # <<t[s].hash, t[s].step_lens>>
    <3>1. PICK e \in Exprs : InTable(e) /\ Matches(t, s, e)
      BY <2>1, <2>2 DEF TableInv, Keyed
    <3>2. ~Matches(t, r, e)
      BY <1>1, <1>2, <2>2, <3>1 DEF FoundAgain
    <3> QED
      BY <3>1, <3>2 DEF Matches
  <2> QED
    BY <2>1, <2>2 DEF TableUnique, TableInv, Numbered
<1> QED
  BY <1>1, <1>2 DEF NumbersUnique

LEMMA IInvAlways == Spec => []IInv
BY InitIInv, NextIInv, PTL DEF Spec

(***************************************************************************)
(* The tables, numbers and lines of all processes stay well typed.         *)
(***************************************************************************)
THEOREM RegistryTyped == Spec => []TypeOK
<1>1. IInv => TypeOK
  BY DEF IInv
<1> QED
  BY <1>1, IInvAlways, PTL

(***************************************************************************)
(* add_expression: in every process numbers and expressions determine each *)
(* other, for every table size and over crashes and restarts.              *)
(***************************************************************************)
THEOREM RegistrySafe == Spec => []NumbersUnique
BY IInvAlways, IInvProperties, PTL

(***************************************************************************)
(* find_expression: a stored expression is found again at its slot, for    *)
(* every table size and however full the table is.                         *)
(***************************************************************************)
THEOREM StoredIsFound == Spec => []FoundAgain
BY IInvAlways, IInvProperties, PTL

----------------------------------------------------------------------------
(* Short expressions.                                                      *)

(***************************************************************************)
(* The hash without the limits of an integer.  An expression is short when *)
(* it stays below 2^63.                                                    *)
(***************************************************************************)
ExactHash(steps) ==
  LET hash[i \in 0 .. Len(steps)] == IF i = 0 THEN 17 ELSE hash[i - 1] * 3 + steps[i]
  IN  hash[Len(steps)]

ShortExprs == \A e \in Exprs : ExactHash(e) < HASH_LIMIT

LEMMA WrapSmall ==
  ASSUME NEW x \in Nat, x < HASH_LIMIT
  PROVE  Wrap(x) = x
<1>1. x + HASH_LIMIT \in 0 .. 2 * HASH_LIMIT - 1 /\ 2 * HASH_LIMIT \in Nat \ {0}
  BY LimitAssumption
<1>2. (x + HASH_LIMIT) % (2 * HASH_LIMIT) = x + HASH_LIMIT
  BY <1>1
<1> QED
  BY <1>2, LimitAssumption DEF Wrap

(***************************************************************************)
(* calculate_hash is exact for a short expression: the partial hashes only *)
(* grow, so none of them passes the limit.                                 *)
(***************************************************************************)
LEMMA ShortHash ==
  ASSUME NEW e \in Exprs, ExactHash(e) < HASH_LIMIT
  PROVE  CalculateHash(e) \in Nat
<1> DEFINE n == Len(e)
           X == CHOOSE h : h = [i \in 0 .. n |-> IF i = 0 THEN 17 ELSE h[i - 1] * 3 + e[i]]
           stepX == [k \in 1 .. n |-> [x \in Nat |-> x * 3 + e[k]]]
<1>0. e \in Seq(Nat)
  BY ExprsAssumption
<1>1. n \in Nat /\ 17 \in Nat
  BY <1>0
<1>2. ExactHash(e) = X[n]
  BY Zenon DEF ExactHash
<1>3. \A k \in 1 .. n, x \in Nat : x * 3 + e[k] \in Nat /\ x <= x * 3 + e[k]
  BY <1>0
<1> HIDE DEF n
<1>4. stepX \in Steps(n, Nat)
  BY <1>3 DEF Steps
<1>5. PICK f \in [0 .. n -> Nat] : Iterates(f, n, 17, stepX)
  <2> HIDE DEF stepX
  <2> QED
    BY <1>1, <1>4, RecursionExists
<1>6. ASSUME NEW i \in 1 .. n
      PROVE  f[i - 1] \in Nat /\ f[i] = f[i - 1] * 3 + e[i]
  <2>1. i - 1 \in 0 .. n /\ i \in 0 .. n /\ i # 0
    BY <1>1
  <2>2. f[i] = stepX[i][f[i - 1]]
    BY <1>5, <2>1, Zenon DEF Iterates
  <2> QED
    BY <2>1, <2>2
<1>7. f[0] = 17
  BY <1>1, <1>5 DEF Iterates
<1>8. f = [i \in 0 .. n |-> IF i = 0 THEN 17 ELSE f[i - 1] * 3 + e[i]]
  BY <1>1, <1>6, <1>7
<1>9. X = [i \in 0 .. n |-> IF i = 0 THEN 17 ELSE X[i - 1] * 3 + e[i]]
  BY <1>8, Zenon
<1> DEFINE T == {k \in 0 .. n : \A j \in 0 .. k : X[j] \in Nat /\ X[j] <= X[k]}
<1> HIDE DEF X
<1>10. ASSUME NEW k \in 1 .. n PROVE X[k] = X[k - 1] * 3 + e[k]
  <2>1. k \in 0 .. n /\ k # 0
    BY <1>1
  <2> QED
    BY <1>9, <2>1, Zenon
<1>11. 0 \in T /\ X[0] = 17
  BY <1>1, <1>9
<1>12. ASSUME NEW k \in 1 .. n, k - 1 \in T PROVE k \in T
  <2>1. X[k - 1] \in Nat /\ \A j \in 0 .. k - 1 : X[j] \in Nat /\ X[j] <= X[k - 1]
    <3>1. k - 1 \in 0 .. k - 1
      BY <1>1
    <3> QED
      BY <1>12, <3>1
  <2>2. X[k] \in Nat /\ X[k - 1] <= X[k]
    BY <1>3, <1>10, <2>1
  <2>3. ASSUME NEW j \in 0 .. k - 1 PROVE X[j] \in Nat /\ X[j] <= X[k]
    BY <2>1, <2>2
  <2>4. \A j \in 0 .. k : j = k \/ j \in 0 .. k - 1
    BY <1>1
  <2>5. \A j \in 0 .. k : X[j] \in Nat /\ X[j] <= X[k]
    BY <2>2, <2>3, <2>4
  <2>6. k \in 0 .. n
    BY <1>1
  <2> QED
    BY <2>2, <2>5, <2>6
<1>13. T \in SUBSET Nat
  BY <1>1
<1> HIDE DEF T
<1>14. \A k \in 0 .. n : k \in T
  BY <1>1, <1>11, <1>12, <1>13, BoundedInd
<1>15. \A k \in 0 .. n : X[k] \in Nat /\ X[k] < HASH_LIMIT
  <2>1. n \in T /\ X[n] < HASH_LIMIT /\ n \in 0 .. n
    BY <1>1, <1>2, <1>14
  <2> QED
    BY <1>1, <2>1, LimitAssumption DEF T
<1>16. PICK h : PartialHashes(h, e) /\ CalculateHash(e) = h[n]
  BY HashSteps DEF n
<1>17. h[0] = 17 /\ \A k \in 1 .. n : h[k] = Wrap(h[k - 1] * 3 + e[k])
  BY <1>16 DEF PartialHashes, n
<1> DEFINE U == {k \in 0 .. n : h[k] = X[k]}
<1>18. 0 \in U
  BY <1>1, <1>11, <1>17
<1>19. ASSUME NEW k \in 1 .. n, k - 1 \in U PROVE k \in U
  <2>1. k \in 0 .. n
    BY <1>1
  <2>2. h[k] = Wrap(X[k])
    BY <1>10, <1>17, <1>19
  <2> QED
    BY <1>15, <2>1, <2>2, WrapSmall
<1>20. U \in SUBSET Nat
  BY <1>1
<1> HIDE DEF U
<1>21. \A k \in 0 .. n : k \in U
  BY <1>1, <1>18, <1>19, <1>20, BoundedInd
<1>22. n \in 0 .. n
  BY <1>1
<1> QED
  BY <1>15, <1>16, <1>21, <1>22 DEF U

(***************************************************************************)
(* No process indexes exprTypes outside its slots as long as the hashes of *)
(* the expressions do not pass 2^63: long expressions are the only way in  *)
(* which tIndex = eHash % EXPR_LIST_SIZE leaves the table.                 *)
(***************************************************************************)
THEOREM ShortInTable == ASSUME ShortExprs PROVE Spec => []IndexInTable
<1>1. ASSUME NEW e \in Exprs PROVE InTable(e)
  <2>1. CalculateHash(e) \in Nat
    BY ShortHash DEF ShortExprs
  <2> QED
    BY <2>1, SizeAssumption DEF InTable, InitIndex, Slots
<1>2. Init => IndexInTable
  BY DEF Init, IndexInTable
<1>3. IInv /\ IndexInTable /\ [Next]_vars => IndexInTable'
  <2> SUFFICES ASSUME IInv, IndexInTable, [Next]_vars PROVE IndexInTable'
    OBVIOUS
  <2>1. ASSUME NEW p, NEW e \in Exprs, AddExpression(p, e) PROVE wild' = wild
    BY <1>1, <2>1 DEF AddExpression
  <2>2. CASE ParseLine
    <3>1. StepsFile[pos + 1] \in Exprs
      BY <2>2, FileAssumption DEF ParseLine, IInv, TypeOK
    <3> QED
      BY <2>1, <2>2, <3>1 DEF ParseLine, IndexInTable
  <2>3. CASE \E b \in Backends, e \in Exprs : Register(b, e)
    BY <2>1, <2>3 DEF Register, IndexInTable
  <2>4. CASE Start \/ ParseEnd \/ Reload \/ Crash \/ Stop \/ UNCHANGED vars
    BY <2>4 DEF Start, ParseEnd, Reload, Crash, Stop, vars, IndexInTable
  <2>5. CASE \E b \in Backends : Fork(b) \/ Exit(b)
    BY <2>5 DEF Fork, Exit, IndexInTable
  <2> QED
    BY <2>2, <2>3, <2>4, <2>5 DEF Next
<1> QED
  BY <1>2, <1>3, IInvAlways, PTL DEF Spec

----------------------------------------------------------------------------
(* A full table.                                                           *)

(***************************************************************************)
(* The probe sequence of an expression visits every slot of the table.     *)
(***************************************************************************)
LEMMA ProbeVisitsAll ==
  ASSUME NEW e \in Exprs, InTable(e), NEW s \in Slots
  PROVE  \E i \in Slots : Probe(e, i) = s
<1>1. InitIndex(CalculateHash(e)) \in 0 .. EXPR_LIST_SIZE - 1 /\ s \in 0 .. EXPR_LIST_SIZE - 1
  BY DEF InTable, Slots
<1>2. CASE s >= InitIndex(CalculateHash(e))
  <2>1. s - InitIndex(CalculateHash(e)) \in Slots
    BY <1>1, <1>2, SizeAssumption DEF Slots
  <2>2. Probe(e, s - InitIndex(CalculateHash(e))) = s
    BY <1>1, <1>2, SizeAssumption DEF Probe
  <2> QED
    BY <2>1, <2>2
<1>3. CASE s < InitIndex(CalculateHash(e))
  <2>1. s - InitIndex(CalculateHash(e)) + EXPR_LIST_SIZE \in Slots
    BY <1>1, <1>3, SizeAssumption DEF Slots
  <2>2. Probe(e, s - InitIndex(CalculateHash(e)) + EXPR_LIST_SIZE) = s
    BY <1>1, <1>3, SizeAssumption DEF Probe
  <2> QED
    BY <2>1, <2>2
<1> QED
  BY <1>1, <1>2, <1>3, SizeAssumption

(***************************************************************************)
(* When the sequence has no first stop it has no stop at all.              *)
(***************************************************************************)
LEMMA NoFirstStop ==
  ASSUME NEW t, NEW e \in Exprs, ~\E i \in Slots : FirstStop(t, e, i), NEW k \in Slots
  PROVE  ~StopsAt(t, e, k)
<1> DEFINE P == {i \in Slots : StopsAt(t, e, i)}
<1> SUFFICES ASSUME P # {} PROVE FALSE
  OBVIOUS
<1>1. Slots \subseteq Nat
  BY SizeAssumption DEF Slots
<1>2. P \in SUBSET Nat
  BY <1>1
<1> HIDE DEF P
<1>3. PICK m \in P : \A j \in P : m <= j
  BY <1>2, LeastMember
<1>4. m \in Slots /\ StopsAt(t, e, m)
  BY DEF P
<1>5. \A j \in 0 .. m - 1 : j \in Slots /\ ~(m <= j)
  BY <1>4, SizeAssumption DEF Slots
<1>6. \A j \in 0 .. m - 1 : ~StopsAt(t, e, j)
  BY <1>3, <1>5 DEF P
<1> QED
  BY <1>4, <1>6 DEF FirstStop

(***************************************************************************)
(* add_expression refuses an expression only when the table is full, for   *)
(* every table size: the loop over the slots misses none.                  *)
(***************************************************************************)
LEMMA RefusedFull ==
  ASSUME NEW t, NEW e \in Exprs, InTable(e),
         Occupied(t, StopSlot(t, e)), ~Found(t, e), NEW s \in Slots
  PROVE  Occupied(t, s)
<1>1. ~\E i \in Slots : FirstStop(t, e, i)
  <2> SUFFICES ASSUME \E i \in Slots : FirstStop(t, e, i) PROVE FALSE
    OBVIOUS
  <2>1. PICK i \in Slots : i = (CHOOSE j \in Slots : FirstStop(t, e, j)) /\ FirstStop(t, e, i)
    BY Zenon
  <2>2. StopSlot(t, e) = Probe(e, i)
    BY <2>1 DEF StopSlot
  <2> QED
    BY <2>1, <2>2 DEF FirstStop, StopsAt, Found
<1>2. PICK i \in Slots : Probe(e, i) = s
  BY ProbeVisitsAll
<1> QED
  BY <1>1, <1>2, NoFirstStop DEF StopsAt

(***************************************************************************)
(* add_expression refuses to number an expression only when every slot of  *)
(* the process's table is occupied, for every table size.                  *)
(***************************************************************************)
THEOREM RefusalsMeanFull == Spec => []RefusedOnlyWhenFull
<1>1. RefusedOnlyWhenFull
  BY RefusedFull DEF RefusedOnlyWhenFull
<1> QED
  BY <1>1, PTL

----------------------------------------------------------------------------
(* Several processes and one file.                                         *)

(***************************************************************************)
(* What the processes share: backends run only under a postmaster that is  *)
(* up, they hold what the postmaster holds, and the file explains what the *)
(* running processes hold.                                                 *)
(***************************************************************************)
SharedInv ==
  /\ phase # "up" => live = {}
  /\ phase = "down" => ~Tabled(Postmaster)
  /\ Agreement
  /\ NumbersWritten

Written(t, ls) ==
  \A s \in Slots : Occupied(t, s) =>
    \E line \in ls : line[1] = t[s].expression_id /\ Matches(t, s, line[2])

LEMMA WrittenMeaning ==
  NumbersWritten <=> \A p \in Running : Tabled(p) => Written(table[p], lines)
BY DEF NumbersWritten, Written

LEMMA WrittenGrows ==
  ASSUME NEW t, NEW ls, NEW ms, ls \subseteq ms, Written(t, ls)
  PROVE  Written(t, ms)
BY DEF Written

LEMMA FillIsWritten ==
  ASSUME NEW t \in [Slots -> Slot], NEW n \in Nat, NEW e \in Exprs, InTable(e),
         NEW ls, Written(t, ls)
  PROVE  Written(Filled(t, n, e), ls \cup {<<n + 1, e>>})
<1> DEFINE s == StopSlot(t, e)
           t2 == Filled(t, n, e)
           line == <<n + 1, e>>
<1>1. s \in Slots
  BY StopIsFirst
<1>2. /\ t2[s].hash = CalculateHash(e) /\ t2[s].step_lens = Len(e)
      /\ t2[s].expression_id = n + 1
      /\ \A r \in Slots \ {s} : t2[r] = t[r]
  BY <1>1 DEF Filled
<1> HIDE DEF t2
<1> SUFFICES ASSUME NEW r \in Slots, Occupied(t2, r)
             PROVE  \E x \in ls \cup {line} :
                      x[1] = t2[r].expression_id /\ Matches(t2, r, x[2])
  BY DEF Written, t2
<1>3. CASE r = s
  <2>1. line[1] = t2[r].expression_id /\ Matches(t2, r, line[2])
    BY <1>2, <1>3 DEF Matches
  <2> QED
    BY <2>1
<1>4. CASE r # s
  <2>1. t2[r] = t[r]
    BY <1>2, <1>4
  <2>2. PICK x \in ls : x[1] = t[r].expression_id /\ Matches(t, r, x[2])
    BY <2>1 DEF Written, Occupied
  <2> QED
    BY <2>1, <2>2 DEF Matches
<1> QED
  BY <1>3, <1>4

LEMMA AddKeepsWritten ==
  ASSUME IInv, SharedInv, NEW p \in Procs, Tabled(p), p \in Running,
         NEW e \in Exprs, AddExpression(p, e), Running' = Running
  PROVE  NumbersWritten'
<1>1. TypeOK /\ table[p] \in [Slots -> Slot] /\ exprNum[p] \in Nat
  BY DEF IInv, TableInv, TypeOK
<1>2. \A q \in Running : Tabled(q) => Written(table[q], lines)
  BY WrittenMeaning DEF SharedInv
<1>3. Running \subseteq Procs
  BY <1>1 DEF Running, TypeOK, Procs
<1>4. ASSUME NEW q \in Running', Tabled(q)' PROVE Written(table'[q], lines')
  <2>1. CASE UNCHANGED <<table, exprNum, lines>>
    BY <1>2, <1>4, <2>1 DEF Tabled
  <2>2. CASE Fills(p, e)
    <3>1. /\ table' = [table EXCEPT ![p] = Filled(table[p], exprNum[p], e)]
          /\ lines' = lines \cup {<<exprNum[p] + 1, e>>} /\ InTable(e)
      BY <2>2 DEF Fills
    <3>2. CASE q = p
      <4>1. Written(table[p], lines)
        BY <1>2
      <4>2. table'[q] = Filled(table[p], exprNum[p], e)
        BY <1>1, <3>1, <3>2 DEF TypeOK
      <4> QED
        BY <1>1, <3>1, <4>1, <4>2, FillIsWritten
    <3>3. CASE q # p
      <4>1. table'[q] = table[q] /\ q \in Running /\ q \in Procs
        BY <1>1, <1>3, <3>1, <3>3 DEF TypeOK
      <4>2. Written(table[q], lines)
        BY <1>2, <1>4, <4>1 DEF Tabled
      <4> QED
        BY <3>1, <4>1, <4>2, WrittenGrows
    <3> QED
      BY <3>2, <3>3
  <2> QED
    BY <1>1, <2>1, <2>2, AddFills
<1> QED
  BY <1>4 DEF NumbersWritten, Written

LEMMA InitShared == Init => SharedInv
BY PostmasterAssumption DEF Init, SharedInv, Agreement, NumbersWritten, Tabled, Running, Procs

LEMMA CreateKeepsShared ==
  ASSUME IInv, SharedInv, CreateTable, live' = {}, lines' = lines
  PROVE  SharedInv'
<1>1. Postmaster \in Procs
  BY DEF Procs
<1>2. Agreement' /\ phase' # "down"
  BY DEF Agreement, CreateTable
<1>3. Running' = {Postmaster}
  BY <1>2 DEF Running
<1>4. CASE enableME
  <2>1. table'[Postmaster] = EmptyTable
    BY <1>1, <1>4 DEF CreateTable
  <2>2. \A s \in Slots : ~Occupied(EmptyTable, s)
    BY DEF Occupied, EmptyTable, FreeSlot
  <2>3. NumbersWritten'
    BY <1>3, <2>1, <2>2 DEF NumbersWritten
  <2> QED
    BY <1>2, <2>3 DEF SharedInv
<1>5. CASE ~enableME
  <2>1. table'[Postmaster] = table[Postmaster]
    BY <1>1, <1>5 DEF CreateTable
  <2>2. Tabled(Postmaster) => Postmaster \in Running
    BY DEF SharedInv, Running
  <2>3. NumbersWritten'
    BY <1>3, <2>1, <2>2 DEF NumbersWritten, SharedInv, Tabled, Matches, Occupied
  <2> QED
    BY <1>2, <2>3 DEF SharedInv
<1> QED
  BY <1>4, <1>5

LEMMA NextShared == IInv /\ SharedInv /\ [Next]_vars => SharedInv'
<1> SUFFICES ASSUME IInv, SharedInv, [Next]_vars PROVE SharedInv'
  OBVIOUS
<1>0. Postmaster \in Procs /\ Backends \subseteq Procs /\ TypeOK
  BY DEF Procs, IInv
<1>1. CASE Start \/ Crash
  BY <1>1, CreateKeepsShared DEF Start, Crash, SharedInv
<1>2. CASE ParseLine
  <2>1. StepsFile[pos + 1] \in Exprs
    BY <1>2, FileAssumption DEF ParseLine, IInv, TypeOK
  <2>2. Postmaster \in Running /\ Running' = Running /\ live' = {}
    BY <1>2 DEF ParseLine, Running, SharedInv
  <2>3. NumbersWritten'
    BY <1>0, <1>2, <2>1, <2>2, AddKeepsWritten DEF ParseLine, IInv
  <2> QED
    BY <1>2, <2>2, <2>3 DEF ParseLine, SharedInv, Agreement
<1>3. CASE ParseEnd \/ Reload \/ UNCHANGED vars
  <2>1. Running' = Running /\ UNCHANGED <<table, live, lines>>
    BY <1>3 DEF ParseEnd, Reload, vars, Running
  <2>2. Agreement' /\ NumbersWritten'
    BY <2>1 DEF SharedInv, Agreement, NumbersWritten, Tabled, Occupied, Matches
  <2> QED
    BY <1>3, <2>1, <2>2 DEF ParseEnd, Reload, vars, SharedInv, Tabled
<1>4. CASE Stop
  <2>1. live' = {} /\ Running' = {} /\ ~Tabled(Postmaster)'
    BY <1>0, <1>4 DEF Stop, Running, Tabled
  <2> QED
    BY <2>1 DEF SharedInv, Agreement, NumbersWritten
<1>5. ASSUME NEW b \in Backends, Fork(b) PROVE SharedInv'
  <2>1. /\ table'[b] = table[Postmaster] /\ b # Postmaster
        /\ \A q \in Procs \ {b} : table'[q] = table[q]
        /\ live' = live \cup {b} /\ UNCHANGED <<phase, lines>> /\ phase = "up"
    BY <1>0, <1>5, PostmasterAssumption DEF Fork, TypeOK
  <2>2. Agreement'
    BY <1>0, <2>1 DEF SharedInv, Agreement, Tabled, Occupied, TypeOK
  <2>3. Running' = Running \cup {b} /\ Postmaster \in Running /\ Running \subseteq Procs
    BY <1>0, <2>1 DEF Running, TypeOK
  <2>4. NumbersWritten'
    BY <1>0, <2>1, <2>3 DEF SharedInv, NumbersWritten, Tabled, Occupied, Matches
  <2> QED
    BY <2>1, <2>2, <2>4 DEF SharedInv
<1>6. ASSUME NEW b \in Backends, Exit(b) PROVE SharedInv'
  <2>1. /\ b # Postmaster /\ \A q \in Procs \ {b} : table'[q] = table[q]
        /\ live' = live \ {b} /\ UNCHANGED <<phase, lines>>
    BY <1>0, <1>6, PostmasterAssumption DEF Exit, TypeOK
  <2>2. Agreement'
    BY <1>0, <2>1 DEF SharedInv, Agreement, Tabled, Occupied, TypeOK
  <2>3. Running' \subseteq Running /\ b \notin Running' /\ Running \subseteq Procs
    BY <1>0, <2>1 DEF Running, TypeOK
  <2>4. NumbersWritten'
    BY <1>0, <2>1, <2>3 DEF SharedInv, NumbersWritten, Tabled, Occupied, Matches
  <2> QED
    BY <1>0, <2>1, <2>2, <2>4 DEF SharedInv, Tabled
<1>7. ASSUME NEW b \in Backends, NEW e \in Exprs, Register(b, e) PROVE SharedInv'
  <2>1. /\ b \in live /\ b # Postmaster /\ Tabled(b) /\ AddExpression(b, e)
        /\ UNCHANGED <<phase, live>>
    BY <1>7, PostmasterAssumption DEF Register, Tabled
  <2>2. b \in Running /\ Running' = Running
    BY <2>1 DEF Running
  <2>3. NumbersWritten'
    BY <1>0, <2>1, <2>2, AddKeepsWritten
  <2>4. table' = table \/ Fills(b, e)
    BY <1>0, <2>1, AddFills
  <2>5. CASE table' = table
    BY <2>1, <2>3, <2>5 DEF SharedInv, Agreement, Tabled, Occupied
  <2>6. CASE Fills(b, e)
    <3> DEFINE s == StopSlot(table[b], e)
               t2 == Filled(table[b], exprNum[b], e)
    <3>1. s \in Slots /\ ~Occupied(table[b], s)
      BY <2>6, StopIsFirst DEF Fills
    <3>2. table[b] \in [Slots -> Slot]
      BY <1>0, <2>1 DEF IInv, TableInv
    <3>3. /\ \A r \in Slots \ {s} : t2[r] = table[b][r]
          /\ t2 \in [Slots -> Slot] \/ DOMAIN t2 = Slots
      BY <3>1, <3>2 DEF Filled
    <3>4. /\ table'[b] = t2 /\ \A q \in Procs \ {b} : table'[q] = table[q]
      BY <1>0, <2>6 DEF Fills, TypeOK
    <3>5. \A q \in Procs : Tabled(q)' <=> Tabled(q)
      BY <1>0, <2>1, AddKeepsInv
    <3> HIDE DEF s, t2
    <3>6. ASSUME NEW c \in live, NEW r \in Slots, Tabled(Postmaster),
                 Occupied(table[Postmaster], r)
          PROVE  Tabled(c) /\ table'[c][r] = table[Postmaster][r]
      <4>1. Tabled(c) /\ table[c][r] = table[Postmaster][r] /\ c \in Procs
        BY <1>0, <3>6 DEF SharedInv, Agreement, TypeOK
      <4>2. CASE c = b
        <5>1. r # s
          BY <3>1, <3>6, <4>1, <4>2 DEF Occupied
        <5> QED
          BY <3>3, <3>4, <4>1, <4>2, <5>1
      <4>3. CASE c # b
        BY <3>4, <4>1, <4>3
      <4> QED
        BY <4>2, <4>3
    <3>7. table'[Postmaster] = table[Postmaster]
      BY <1>0, <2>1, <3>4
    <3>8. Agreement'
      BY <1>0, <2>1, <3>5, <3>6, <3>7 DEF Agreement, Occupied, TypeOK
    <3> QED
      BY <1>0, <2>1, <2>3, <3>5, <3>8 DEF SharedInv
  <2> QED
    BY <2>4, <2>5, <2>6
<1> QED
  BY <1>1, <1>2, <1>3, <1>4, <1>5, <1>6, <1>7 DEF Next

LEMMA SharedAlways == Spec => [](IInv /\ SharedInv)
<1>1. Init => IInv /\ SharedInv
  BY InitIInv, InitShared
<1>2. IInv /\ SharedInv /\ [Next]_vars => (IInv /\ SharedInv)'
  BY NextIInv, NextShared
<1> QED
  BY <1>1, <1>2, PTL DEF Spec

(***************************************************************************)
(* A running backend numbers the expressions of the file as the postmaster *)
(* does, however many backends register expressions of their own, over     *)
(* reloads, crashes and restarts.                                          *)
(***************************************************************************)
THEOREM BackendsAgree == Spec => []Agreement
<1>1. SharedInv => Agreement
  BY DEF SharedInv
<1> QED
  BY <1>1, SharedAlways, PTL

(***************************************************************************)
(* Every number in use in a running process is explained by a line of      *)
(* expr_eeops.txt, to which all processes append.                          *)
(***************************************************************************)
THEOREM NumbersExplained == Spec => []NumbersWritten
<1>1. SharedInv => NumbersWritten
  BY DEF SharedInv
<1> QED
  BY <1>1, SharedAlways, PTL

----------------------------------------------------------------------------
(* The refinement of ExprNumbering.                                        *)

LEMMA EmptyNumbering == TableNumbering(EmptyTable) = {}
BY DEF TableNumbering, EmptyTable, FreeSlot, Occupied

LEMMA AddRefines ==
  ASSUME IInv, NEW p \in Procs, Tabled(p), NEW e \in Exprs, AddExpression(p, e)
  PROVE  Numbering!NumberingNext \/ UNCHANGED NumberingMap
<1>1. TypeOK /\ TableInv(table[p], exprNum[p])
  BY DEF IInv
<1>2. CASE UNCHANGED <<table, exprNum, lines>>
  BY <1>2 DEF NumberingMap, Tabled
<1>3. CASE Fills(p, e)
  <2> DEFINE t == table[p]
             t2 == Filled(t, exprNum[p], e)
             k == <<CalculateHash(e), Len(e)>>
             new == <<k, exprNum[p] + 1>>
  <2>1. exprNum[p] \in Nat
    BY <1>1 DEF TypeOK
  <2>2. InTable(e) /\ ~Occupied(t, StopSlot(t, e)) /\ table' = [table EXCEPT ![p] = t2]
    BY <1>3 DEF Fills
  <2>3. TableInv(t2, exprNum[p] + 1)
    BY <1>1, <2>1, <2>2, FillKeepsTable
  <2>4. /\ CalculateHash(e) = 0 => TableNumbering(t2) = TableNumbering(t)
        /\ CalculateHash(e) # 0 => TableNumbering(t2) = TableNumbering(t) \cup {new}
        /\ \A old \in TableNumbering(t) : old[1] # k /\ old[2] # exprNum[p] + 1
    BY <1>1, <2>1, <2>2, FillNumbers
  <2>5. NumberingMap[p] = TableNumbering(t)
    BY DEF NumberingMap
  <2>6. new[1] = k /\ new[2] = exprNum[p] + 1 /\ exprNum[p] + 1 \in Nat \ {0}
    BY <2>1
  <2>7. k \in Keys
    BY DEF Keys
  <2> HIDE DEF t, t2, k, new
  <2>8. t2 # NoTable
    BY <2>3, NoTableAssumption DEF TableInv
  <2>9. NumberingMap' = [NumberingMap EXCEPT ![p] = TableNumbering(t2)]
    <3>1. \A q \in Procs : table'[q] = IF q = p THEN t2 ELSE table[q]
      BY <1>1, <2>2 DEF TypeOK
    <3>2. NumberingMap' = [q \in Procs |->
            IF table'[q] # NoTable THEN TableNumbering(table'[q]) ELSE {}]
      BY DEF NumberingMap, Tabled
    <3>3. \A q \in Procs :
            NumberingMap'[q] = IF q = p THEN TableNumbering(t2) ELSE NumberingMap[q]
      BY <2>8, <3>1, <3>2 DEF NumberingMap, Tabled
    <3> QED
      BY <3>2, <3>3 DEF NumberingMap
  <2>10. CASE CalculateHash(e) = 0
    <3>1. NumberingMap' = NumberingMap
      BY <2>4, <2>5, <2>9, <2>10, Zenon DEF NumberingMap
    <3> QED
      BY <3>1
  <2>11. CASE CalculateHash(e) # 0
    <3>1. TableNumbering(t2) = TableNumbering(t) \cup {new}
      BY <2>4, <2>11
    <3>2. NumberingMap'[p] = NumberingMap[p] \cup {new}
      BY <2>5, <2>9, <3>1 DEF NumberingMap
    <3>3. Numbering!Assign(p, k)
      BY <2>4, <2>5, <2>6, <2>9, <3>1, <3>2, Zenon DEF Numbering!Assign
    <3> QED
      BY <2>7, <3>3 DEF Numbering!NumberingNext
  <2> QED
    BY <2>10, <2>11
<1> QED
  BY <1>1, <1>2, <1>3, AddFills

LEMMA CreateRefines ==
  ASSUME CreateTable
  PROVE  \E P \in SUBSET Procs : Numbering!Forget(P)
<1>1. Postmaster \in Procs
  BY DEF Procs
<1>2. EmptyTable # NoTable
  BY EmptyTableInv, NoTableAssumption DEF TableInv
<1>3. NumberingMap' = [q \in Procs |->
        IF table'[q] # NoTable THEN TableNumbering(table'[q]) ELSE {}]
  BY DEF NumberingMap, Tabled
<1>4. CASE enableME
  <2>1. \A q \in Procs : NumberingMap'[q] = {}
    BY <1>2, <1>3, <1>4, EmptyNumbering DEF CreateTable
  <2>2. Numbering!Forget(Procs)
    BY <1>3, <2>1 DEF Numbering!Forget
  <2> QED
    BY <2>2
<1>5. CASE ~enableME
  <2>1. \A q \in Procs :
          NumberingMap'[q] = IF q \in Procs \ {Postmaster} THEN {} ELSE NumberingMap[q]
    BY <1>3, <1>5 DEF CreateTable, NumberingMap, Tabled
  <2>2. Numbering!Forget(Procs \ {Postmaster})
    BY <1>3, <2>1 DEF Numbering!Forget
  <2> QED
    BY <2>2
<1> QED
  BY <1>4, <1>5

LEMMA NextRefines ==
  ASSUME IInv, [Next]_vars
  PROVE  Numbering!NumberingNext \/ UNCHANGED NumberingMap
<1>0. Postmaster \in Procs /\ Backends \subseteq Procs
  BY DEF Procs
<1>a. NumberingMap' = [q \in Procs |->
        IF table'[q] # NoTable THEN TableNumbering(table'[q]) ELSE {}]
  BY DEF NumberingMap, Tabled
<1>b. NumberingMap = [q \in Procs |->
        IF table[q] # NoTable THEN TableNumbering(table[q]) ELSE {}]
  BY DEF NumberingMap, Tabled
<1>1. CASE Start \/ Crash
  BY <1>1, CreateRefines DEF Start, Crash, Numbering!NumberingNext
<1>2. CASE ParseLine
  <2>1. StepsFile[pos + 1] \in Exprs
    BY <1>2, FileAssumption DEF ParseLine, IInv, TypeOK
  <2> QED
    BY <1>0, <1>2, <2>1, AddRefines DEF ParseLine, IInv
<1>3. CASE ParseEnd \/ Reload \/ UNCHANGED vars
  BY <1>3, <1>a, <1>b DEF ParseEnd, Reload, vars
<1>4. CASE Stop
  <2>1. Numbering!Forget(Procs)
    BY <1>4, <1>a DEF Stop, Numbering!Forget
  <2> QED
    BY <2>1 DEF Numbering!NumberingNext
<1>5. ASSUME NEW b \in Backends, Fork(b) PROVE Numbering!NumberingNext
  <2>1. \A q \in Procs : table'[q] = IF q = b THEN table[Postmaster] ELSE table[q]
    BY <1>0, <1>5 DEF Fork, IInv, TypeOK
  <2>2. \A q \in Procs :
          NumberingMap'[q] = IF q = b THEN NumberingMap[Postmaster] ELSE NumberingMap[q]
    BY <1>0, <1>a, <1>b, <2>1
  <2>3. Numbering!Inherit(b)
    BY <1>a, <1>b, <2>2, SMTT(30) DEF Numbering!Inherit
  <2> QED
    BY <1>0, <2>3 DEF Numbering!NumberingNext
<1>6. ASSUME NEW b \in Backends, Exit(b) PROVE Numbering!NumberingNext
  <2>1. \A q \in Procs : table'[q] = IF q = b THEN NoTable ELSE table[q]
    BY <1>0, <1>6 DEF Exit, IInv, TypeOK
  <2>2. \A q \in Procs :
          NumberingMap'[q] = IF q \in {b} THEN {} ELSE NumberingMap[q]
    BY <1>a, <1>b, <2>1
  <2>3. Numbering!Forget({b}) /\ {b} \in SUBSET Procs
    BY <1>0, <1>a, <2>2 DEF Numbering!Forget
  <2> QED
    BY <2>3 DEF Numbering!NumberingNext
<1>7. ASSUME NEW b \in Backends, NEW e \in Exprs, Register(b, e)
      PROVE  Numbering!NumberingNext \/ UNCHANGED NumberingMap
  BY <1>0, <1>7, AddRefines DEF Register, Tabled
<1> QED
  BY <1>1, <1>2, <1>3, <1>4, <1>5, <1>6, <1>7 DEF Next

(***************************************************************************)
(* The hash table with linear probing of globals.c, filled by the          *)
(* postmaster, copied by fork and rebuilt after crashes, implements the    *)
(* abstract numbering: no step gives an expression a second number, reuses *)
(* a number or changes one.                                                *)
(***************************************************************************)
THEOREM RegistryRefines == Spec => ImplementsNumbering
<1>1. Spec => []IInv
  BY InitIInv, NextIInv, PTL DEF Spec
<1>2. Init => Numbering!NumberingInit
  BY DEF Init, Numbering!NumberingInit, NumberingMap, Tabled
<1>3. IInv /\ [Next]_vars => [Numbering!NumberingNext]_NumberingMap
  BY NextRefines
<1> QED
  BY <1>1, <1>2, <1>3, PTL DEF Spec, ImplementsNumbering, Numbering!NumberingSpec
=============================================================================
