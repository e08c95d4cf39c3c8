--------------------------- MODULE TextDiffProofs ---------------------------
(***************************************************************************)
(* The diffs of TextDiff make the proposed text of the current one, for     *)
(* every two texts and every number of context lines, and keep as many      *)
(* lines as any choice of equal lines of both does.                         *)
(*                                                                         *)
(* What a recursive function computes is shown by taking a least argument   *)
(* at which it would be wrong (LeastOf); that there is such a function at   *)
(* all, by iterating its definition (RecursionExists).                      *)
(***************************************************************************)
EXTENDS TextDiff, FiniteSetTheorems, SequenceTheorems, WellFoundedInduction, TLAPS

Below == {pair \in Nat \X Nat : pair[1] < pair[2]}

(* A set of natural numbers that is not empty has a least element. *)
LEMMA LeastOf ==
  ASSUME NEW T \in SUBSET Nat, T # {}
  PROVE  \E n \in T : \A m \in T : n <= m
<1>1. IsWellFoundedOn(Below, Nat)
  BY NatLessThanWellFounded DEF OpToRel, Below
<1>2. PICK n \in T : \A m \in T : <<m, n>> \notin Below
  BY <1>1, WFMin, Zenon
<1>3. \A m \in T : ~(m < n)
  BY <1>2 DEF Below
<1> QED BY <1>3

(* Induction up to N. *)
LEMMA UpTo ==
  ASSUME NEW N \in Nat, NEW S, 0 \in S, \A n \in 0..N - 1 : n \in S => n + 1 \in S
  PROVE  \A n \in 0..N : n \in S
<1> DEFINE Bad == {n \in 0..N : n \notin S}
<1> SUFFICES ASSUME Bad # {} PROVE FALSE
  OBVIOUS
<1>1. PICK n \in Bad : \A m \in Bad : n <= m
  <2> Bad \in SUBSET Nat
    OBVIOUS
  <2> HIDE DEF Bad
  <2> QED BY LeastOf
<1>2. n \in 1..N /\ n - 1 \in 0..N - 1
  BY <1>1
<1>3. n - 1 \in 0..N /\ ~(n <= n - 1) /\ (n - 1) + 1 = n
  BY <1>2
<1>4. n - 1 \in S
  BY <1>1, <1>3
<1> QED BY <1>1, <1>2, <1>3, <1>4

\* Body makes of a function what a recursive definition would have it be: at each
\* argument, of what it is at arguments of a lower rank.
Recursive(D, V, rank, Body) ==
  /\ Body \in [[D -> V] -> [D -> V]]
  /\ \A f, g \in [D -> V], p \in D :
       (\A q \in D : rank[q] < rank[p] => f[q] = g[q]) => Body[f][p] = Body[g][p]

(* A function that is defined by recursion exists. *)
LEMMA RecursionExists ==
  ASSUME NEW D, NEW V, NEW v \in V, NEW N \in Nat, NEW rank \in [D -> 0..N],
         NEW Body, Recursive(D, V, rank, Body)
  PROVE  \E f \in [D -> V] : f = Body[f]
<1> USE DEF Recursive
<1> DEFINE Good(n, f) == \A p \in D : rank[p] < n => f[p] = Body[f][p]
           S == {n \in Nat : \E f \in [D -> V] : Good(n, f)}
<1>1. \A n \in 0..N + 1 : n \in S
  <2>1. 0 \in S
    <3>1. [p \in D |-> v] \in [D -> V] /\ Good(0, [p \in D |-> v])
      OBVIOUS
    <3> QED BY <3>1
  <2>2. ASSUME NEW n \in 0..(N + 1) - 1, n \in S PROVE n + 1 \in S
    <3>1. PICK f \in [D -> V] : Good(n, f)
      BY <2>2
    <3> DEFINE g == Body[f]
    <3>2. g \in [D -> V]
      OBVIOUS
    <3>3. ASSUME NEW p \in D, rank[p] < n + 1 PROVE g[p] = Body[g][p]
      <4>1. \A q \in D : rank[q] < rank[p] => f[q] = g[q]
        BY <3>1, <3>3
      <4> QED BY <4>1, <3>2
    <3>4. Good(n + 1, g)
      BY <3>3
    <3> HIDE DEF g, Good
    <3> QED BY <3>2, <3>4
  <2> HIDE DEF S
  <2>3. N + 1 \in Nat
    OBVIOUS
  <2> QED BY <2>1, <2>2, <2>3, UpTo
<1>2. PICK f \in [D -> V] : Good(N + 1, f)
  BY <1>1
<1>3. \A p \in D : f[p] = Body[f][p]
  BY <1>2
<1>4. Body[f] \in [D -> V]
  OBVIOUS
<1>5. f = Body[f]
  BY <1>3, <1>4
<1> QED BY <1>5

-----------------------------------------------------------------------------
(* The lines of a sequence of operations. *)
Edits(X) == [kind : {"kept", "removed", "added"}, line : X]

IsLines(f, ops, kind) ==
  f = [n \in 0..Len(ops) |-> IF n = 0 THEN <<>>
                             ELSE IF ops[n].kind = kind THEN f[n - 1]
                             ELSE Append(f[n - 1], ops[n].line)]

LEMMA EditAt ==
  ASSUME NEW X, NEW ops \in Seq(Edits(X)), NEW n \in 1..Len(ops)
  PROVE  ops[n] \in Edits(X) /\ ops[n].line \in X /\ ops[n].kind \in {"kept", "removed", "added"}
<1>1. ops[n] \in Edits(X)
  BY ElementOfSeq
<1> QED BY <1>1 DEF Edits

LEMMA LinesStep ==
  ASSUME NEW f, NEW ops, NEW kind, IsLines(f, ops, kind), NEW n \in 0..Len(ops)
  PROVE  /\ n = 0 => f[n] = <<>>
         /\ n # 0 /\ ops[n].kind = kind => f[n] = f[n - 1]
         /\ n # 0 /\ ops[n].kind # kind => f[n] = Append(f[n - 1], ops[n].line)
BY DEF IsLines

LEMMA LinesExist ==
  ASSUME NEW X, NEW ops \in Seq(Edits(X)), NEW kind
  PROVE  \E f \in [0..Len(ops) -> Seq(X)] : IsLines(f, ops, kind)
<1> DEFINE D == 0..Len(ops)
           V == Seq(X)
           Next(f, n) == IF n = 0 THEN <<>>
                         ELSE IF ops[n].kind = kind THEN f[n - 1]
                         ELSE Append(f[n - 1], ops[n].line)
           Body == [f \in [D -> V] |-> [n \in D |-> Next(f, n)]]
           rank == [n \in D |-> n]
<1>1. ASSUME NEW f \in [D -> V], NEW n \in D PROVE Next(f, n) \in V
  <2>1. CASE n = 0
    BY <2>1
  <2>2. CASE n # 0
    <3>1. n - 1 \in D /\ n \in 1..Len(ops)
      BY <2>2
    <3>2. f[n - 1] \in V /\ ops[n].line \in X
      BY <3>1, EditAt
    <3> QED BY <2>2, <3>2
  <2> QED BY <2>1, <2>2
<1>2. Body \in [[D -> V] -> [D -> V]]
  BY <1>1
<1>3. \A f, g \in [D -> V], n \in D :
        (\A q \in D : rank[q] < rank[n] => f[q] = g[q]) => Body[f][n] = Body[g][n]
  <2> SUFFICES ASSUME NEW f \in [D -> V], NEW g \in [D -> V], NEW n \in D,
                      \A q \in D : rank[q] < rank[n] => f[q] = g[q]
               PROVE  Body[f][n] = Body[g][n]
    OBVIOUS
  <2>1. n # 0 => n - 1 \in D /\ f[n - 1] = g[n - 1]
    OBVIOUS
  <2> QED BY <2>1
<1>4. rank \in [D -> 0..Len(ops)] /\ <<>> \in V /\ Len(ops) \in Nat
  OBVIOUS
<1>5. Recursive(D, V, rank, Body)
  BY <1>2, <1>3 DEF Recursive
<1> HIDE DEF D, V, Body, rank
<1>6. PICK f \in [D -> V] : f = Body[f]
  BY <1>4, <1>5, RecursionExists
<1>7. IsLines(f, ops, kind)
  BY <1>6 DEF IsLines, D, Body
<1> QED BY <1>7 DEF D, V

(* Where two sequences of operations agree, so do their lines. *)
LEMMA LinesAgree ==
  ASSUME NEW X, NEW ops \in Seq(Edits(X)), NEW more \in Seq(Edits(X)), NEW kind,
         NEW f, IsLines(f, ops, kind), NEW g, IsLines(g, more, kind),
         NEW m \in 0..Len(ops), m <= Len(more), \A n \in 1..m : ops[n] = more[n]
  PROVE  f[m] = g[m]
<1> DEFINE S == {n \in Nat : f[n] = g[n]}
<1>1. 0 \in S
  BY LinesStep
<1>2. ASSUME NEW n \in 0..m - 1, n \in S PROVE n + 1 \in S
  <2>0. f[n] = g[n] /\ n + 1 \in Nat
    BY <1>2
  <2>1. /\ n + 1 \in 0..Len(ops) /\ n + 1 \in 0..Len(more) /\ n + 1 # 0
        /\ (n + 1) - 1 = n /\ ops[n + 1] = more[n + 1]
    OBVIOUS
  <2> SUFFICES f[n + 1] = g[n + 1]
    BY <2>0
  <2> HIDE DEF S
  <2>2. CASE ops[n + 1].kind = kind
    <3>1. f[n + 1] = f[(n + 1) - 1]
      BY <2>1, <2>2, LinesStep
    <3>2. g[n + 1] = g[n]
      BY <2>1, <2>2, LinesStep
    <3> QED BY <2>0, <2>1, <3>1, <3>2
  <2>3. CASE ops[n + 1].kind # kind
    <3>1. f[n + 1] = Append(f[n], ops[n + 1].line)
      BY <2>1, <2>3, LinesStep
    <3>2. g[n + 1] = Append(g[n], ops[n + 1].line)
      BY <2>1, <2>3, LinesStep
    <3> QED BY <2>0, <3>1, <3>2
  <2> QED BY <2>2, <2>3
<1>3. \A n \in 0..m : n \in S
  <2> HIDE DEF S
  <2>1. m \in Nat
    OBVIOUS
  <2> QED BY <1>1, <1>2, <2>1, UpTo
<1> QED BY <1>3

LEMMA LinesAre ==
  ASSUME NEW X, NEW ops \in Seq(Edits(X)), NEW kind
  PROVE  \E f \in [0..Len(ops) -> Seq(X)] : IsLines(f, ops, kind) /\ LinesBut(ops, kind) = f[Len(ops)]
<1> DEFINE g == CHOOSE g : IsLines(g, ops, kind)
<1>1. PICK f \in [0..Len(ops) -> Seq(X)] : IsLines(f, ops, kind)
  BY LinesExist
<1>2. IsLines(g, ops, kind)
  BY <1>1, Zenon
<1>3. LinesBut(ops, kind) = g[Len(ops)]
  BY DEF LinesBut, IsLines
<1> HIDE DEF g
<1>4. Len(ops) \in 0..Len(ops)
  OBVIOUS
<1>5. g[Len(ops)] = f[Len(ops)]
  BY <1>1, <1>2, <1>4, LinesAgree
<1> QED BY <1>1, <1>3, <1>5

LEMMA LinesType ==
  ASSUME NEW X, NEW ops \in Seq(Edits(X)), NEW kind
  PROVE  LinesBut(ops, kind) \in Seq(X) /\ LinesBut(<<>>, kind) = <<>>
<1>1. LinesBut(ops, kind) \in Seq(X)
  <2>1. PICK f \in [0..Len(ops) -> Seq(X)] : LinesBut(ops, kind) = f[Len(ops)]
    BY LinesAre
  <2> QED BY <2>1
<1>2. <<>> \in Seq(Edits(X)) /\ Len(<<>>) = 0
  OBVIOUS
<1>3. PICK f \in [0..Len(<<>>) -> Seq(X)] :
        IsLines(f, <<>>, kind) /\ LinesBut(<<>>, kind) = f[Len(<<>>)]
  BY <1>2, LinesAre
<1>4. f[0] = <<>>
  BY <1>2, <1>3, LinesStep
<1> QED BY <1>1, <1>2, <1>3, <1>4

LEMMA LinesOfNone ==
  ASSUME NEW kind
  PROVE  LinesBut(<<>>, kind) = <<>>
<1>1. <<>> \in Seq(Edits({}))
  OBVIOUS
<1> QED BY <1>1, LinesType

LEMMA LinesOfAppend ==
  ASSUME NEW X, NEW ops \in Seq(Edits(X)), NEW op \in Edits(X), NEW kind
  PROVE  LinesBut(Append(ops, op), kind)
           = IF op.kind = kind THEN LinesBut(ops, kind) ELSE Append(LinesBut(ops, kind), op.line)
<1> DEFINE more == Append(ops, op)
           n == Len(ops)
<1>1. more \in Seq(Edits(X)) /\ Len(more) = n + 1 /\ more[n + 1] = op
  BY AppendProperties
<1>2. \A m \in 1..n : ops[m] = more[m]
  BY AppendProperties
<1>3. n \in Nat /\ n \in 0..Len(ops) /\ n <= Len(more) /\ n + 1 \in 0..Len(more) /\ n + 1 # 0
  BY <1>1, LenProperties
<1> HIDE DEF more
<1>4. PICK f : IsLines(f, ops, kind) /\ LinesBut(ops, kind) = f[n]
  BY LinesAre
<1>5. PICK g : IsLines(g, more, kind) /\ LinesBut(more, kind) = g[n + 1]
  BY <1>1, LinesAre
<1> HIDE DEF n
<1>6. f[n] = g[n]
  BY <1>1, <1>2, <1>3, <1>4, <1>5, LinesAgree
<1>7. (n + 1) - 1 = n
  BY <1>3
<1>8. CASE op.kind = kind
  <2>1. g[n + 1] = g[n]
    BY <1>1, <1>3, <1>5, <1>7, <1>8, LinesStep
  <2> QED BY <1>4, <1>5, <1>6, <1>8, <2>1 DEF more
<1>9. CASE op.kind # kind
  <2>1. g[n + 1] = Append(g[n], op.line)
    BY <1>1, <1>3, <1>5, <1>7, <1>9, LinesStep
  <2> QED BY <1>4, <1>5, <1>6, <1>9, <2>1 DEF more
<1> QED BY <1>8, <1>9

LEMMA AppendLast ==
  ASSUME NEW V, NEW s \in Seq(V), NEW t \in Seq(V), NEW v \in V
  PROVE  s \o t \in Seq(V) /\ s \o Append(t, v) = Append(s \o t, v)
<1>1. s \o t \in Seq(V) /\ <<v>> \in Seq(V)
  BY ConcatProperties
<1>2. s \o (t \o <<v>>) = (s \o t) \o <<v>>
  BY <1>1, ConcatAssociative
<1> QED BY <1>1, <1>2, AppendIsConcat

(* The lines of one sequence and then another. *)
LEMMA LinesOfConcat ==
  ASSUME NEW X, NEW s \in Seq(Edits(X)), NEW t \in Seq(Edits(X)), NEW kind
  PROVE  LinesBut(s \o t, kind) = LinesBut(s, kind) \o LinesBut(t, kind)
<1> DEFINE First(n) == SubSeq(t, 1, n)
           old == LinesBut(s, kind)
           S == {n \in Nat : LinesBut(s \o First(n), kind) = old \o LinesBut(First(n), kind)}
<1>1. 0 \in S
  <2>1. First(0) = <<>>
    BY SubSeqEmpty
  <2>2. s \o <<>> = s /\ old \o <<>> = old
    BY ConcatEmptySeq, LinesType
  <2>3. LinesBut(<<>>, kind) = <<>>
    BY LinesType
  <2> QED BY <2>1, <2>2, <2>3
<1>2. ASSUME NEW n \in 0..Len(t) - 1, n \in S PROVE n + 1 \in S
  <2> DEFINE before == First(n)
             op == t[n + 1]
  <2>1. n + 1 \in 1..Len(t) /\ (n + 1) - 1 = n
    BY LenProperties
  <2>2. op \in Edits(X) /\ op.line \in X
    BY <2>1, EditAt
  <2>3. before \in Seq(Edits(X))
    <3>1. \A i \in 1..n : t[i] \in Edits(X)
      BY EditAt
    <3> QED BY <3>1, SubSeqProperties
  <2>4. First(n + 1) = Append(before, op)
    <3>1. First(n + 1) = before \o <<op>>
      BY <2>1, SubSeqRecursiveSecond
    <3> QED BY <3>1, <2>2, <2>3, AppendIsConcat
  <2>5. LinesBut(s \o before, kind) = old \o LinesBut(before, kind)
    BY <1>2
  <2> HIDE DEF before, op
  <2>6. s \o before \in Seq(Edits(X)) /\ s \o Append(before, op) = Append(s \o before, op)
    BY <2>2, <2>3, AppendLast
  <2>7. old \in Seq(X) /\ LinesBut(before, kind) \in Seq(X)
    BY <2>3, LinesType
  <2> HIDE DEF old
  <2>8. old \o Append(LinesBut(before, kind), op.line) = Append(old \o LinesBut(before, kind), op.line)
    BY <2>2, <2>7, AppendLast
  <2>9. LinesBut(Append(before, op), kind)
          = IF op.kind = kind THEN LinesBut(before, kind) ELSE Append(LinesBut(before, kind), op.line)
    BY <2>2, <2>3, LinesOfAppend
  <2>10. LinesBut(Append(s \o before, op), kind)
           = IF op.kind = kind THEN LinesBut(s \o before, kind)
             ELSE Append(LinesBut(s \o before, kind), op.line)
    BY <2>2, <2>6, LinesOfAppend
  <2>11. LinesBut(s \o First(n + 1), kind) = old \o LinesBut(First(n + 1), kind)
    BY <2>4, <2>5, <2>6, <2>8, <2>9, <2>10
  <2> HIDE DEF First
  <2>12. n + 1 \in Nat
    OBVIOUS
  <2> QED BY <2>11, <2>12
<1>3. \A n \in 0..Len(t) : n \in S
  <2> HIDE DEF S
  <2>1. Len(t) \in Nat
    BY LenProperties
  <2> QED BY <1>1, <1>2, <2>1, UpTo
<1>4. First(Len(t)) = t
  BY SubSeqFull
<1>5. Len(t) \in 0..Len(t)
  BY LenProperties
<1> QED BY <1>3, <1>4, <1>5

LEMMA LinesOfOne ==
  ASSUME NEW X, NEW op \in Edits(X), NEW kind
  PROVE  LinesBut(<<op>>, kind) = IF op.kind = kind THEN <<>> ELSE <<op.line>>
<1>1. <<>> \in Seq(Edits(X)) /\ Append(<<>>, op) = <<op>> /\ Append(<<>>, op.line) = <<op.line>>
  OBVIOUS
<1>2. LinesBut(<<>>, kind) = <<>>
  BY <1>1, LinesType
<1>3. LinesBut(Append(<<>>, op), kind)
        = IF op.kind = kind THEN LinesBut(<<>>, kind) ELSE Append(LinesBut(<<>>, kind), op.line)
  BY <1>1, LinesOfAppend
<1> QED BY <1>1, <1>2, <1>3

(* Where nothing is added or removed, both texts have the same lines. *)
LEMMA LinesSame ==
  ASSUME NEW X, NEW ops \in Seq(Edits(X)), \A n \in 1..Len(ops) : ops[n].kind = "kept"
  PROVE  OldLines(ops) = NewLines(ops)
<1>1. PICK f : IsLines(f, ops, "added") /\ LinesBut(ops, "added") = f[Len(ops)]
  BY LinesAre
<1>2. PICK g : IsLines(g, ops, "removed") /\ LinesBut(ops, "removed") = g[Len(ops)]
  BY LinesAre
<1> DEFINE S == {n \in Nat : f[n] = g[n]}
<1>3. 0 \in S
  <2>1. 0 \in 0..Len(ops)
    BY LenProperties
  <2>2. f[0] = <<>> /\ g[0] = <<>>
    BY <1>1, <1>2, <2>1, LinesStep
  <2> QED BY <2>2
<1>4. ASSUME NEW n \in 0..Len(ops) - 1, n \in S PROVE n + 1 \in S
  <2>1. n + 1 \in 0..Len(ops) /\ n + 1 # 0 /\ (n + 1) - 1 = n /\ n + 1 \in Nat /\ n + 1 \in 1..Len(ops)
    BY LenProperties
  <2>2. ops[n + 1].kind # "added" /\ ops[n + 1].kind # "removed"
    BY <2>1
  <2>3. f[n + 1] = Append(f[n], ops[n + 1].line)
    BY <1>1, <2>1, <2>2, LinesStep
  <2>4. g[n + 1] = Append(g[n], ops[n + 1].line)
    BY <1>2, <2>1, <2>2, LinesStep
  <2> QED BY <1>4, <2>1, <2>3, <2>4
<1>5. Len(ops) \in Nat
  BY LenProperties
<1>6. \A n \in 0..Len(ops) : n \in S
  <2> HIDE DEF S
  <2> QED BY <1>3, <1>4, <1>5, UpTo
<1>7. f[Len(ops)] = g[Len(ops)]
  BY <1>5, <1>6
<1> QED BY <1>1, <1>2, <1>7 DEF OldLines, NewLines

-----------------------------------------------------------------------------
(* The diff of two texts: its old lines are the one, its new lines the other. *)
Places(a, b) == (1..Len(a) + 1) \X (1..Len(b) + 1)

\* What is left of the texts at a place.
Left(a, b, at) == (Len(a) + 1 - at[1]) + (Len(b) + 1 - at[2])

NextOps(f, a, b, lcs, i, j) ==
  IF i > Len(a) /\ j > Len(b) THEN <<>>
  ELSE IF i <= Len(a) /\ j <= Len(b) /\ a[i] = b[j] THEN <<Op("kept", a[i])>> \o f[<<i + 1, j + 1>>]
  ELSE IF i <= Len(a) /\ (j > Len(b) \/ lcs[<<i + 1, j>>] >= lcs[<<i, j + 1>>])
       THEN <<Op("removed", a[i])>> \o f[<<i + 1, j>>]
  ELSE <<Op("added", b[j])>> \o f[<<i, j + 1>>]

IsOps(f, a, b) == f = [at \in Places(a, b) |-> NextOps(f, a, b, LCS(a, b), at[1], at[2])]

LEMMA LeftOver ==
  ASSUME NEW a, NEW b, Len(a) \in Nat, Len(b) \in Nat, NEW i \in 1..Len(a) + 1, NEW j \in 1..Len(b) + 1
  PROVE  /\ <<i, j>> \in Places(a, b)
         /\ Left(a, b, <<i, j>>) \in 0..Len(a) + Len(b)
         /\ i <= Len(a) => /\ <<i + 1, j>> \in Places(a, b)
                           /\ Left(a, b, <<i + 1, j>>) = Left(a, b, <<i, j>>) - 1
         /\ j <= Len(b) => /\ <<i, j + 1>> \in Places(a, b)
                           /\ Left(a, b, <<i, j + 1>>) = Left(a, b, <<i, j>>) - 1
         /\ i <= Len(a) /\ j <= Len(b) => /\ <<i + 1, j + 1>> \in Places(a, b)
                                          /\ Left(a, b, <<i + 1, j + 1>>) = Left(a, b, <<i, j>>) - 2
BY DEF Places, Left

OpsCase(f, a, b, lcs, i, j) ==
  \/ i = Len(a) + 1 /\ j = Len(b) + 1 /\ NextOps(f, a, b, lcs, i, j) = <<>>
  \/ /\ i <= Len(a) /\ j <= Len(b) /\ a[i] = b[j]
     /\ NextOps(f, a, b, lcs, i, j) = <<Op("kept", a[i])>> \o f[<<i + 1, j + 1>>]
  \/ i <= Len(a) /\ NextOps(f, a, b, lcs, i, j) = <<Op("removed", a[i])>> \o f[<<i + 1, j>>]
  \/ j <= Len(b) /\ NextOps(f, a, b, lcs, i, j) = <<Op("added", b[j])>> \o f[<<i, j + 1>>]

LEMMA OpsCases ==
  ASSUME NEW a, NEW b, Len(a) \in Nat, Len(b) \in Nat, NEW i \in 1..Len(a) + 1, NEW j \in 1..Len(b) + 1,
         NEW f, NEW lcs
  PROVE  OpsCase(f, a, b, lcs, i, j)
<1> DEFINE over == i > Len(a) /\ j > Len(b)
           same == i <= Len(a) /\ j <= Len(b) /\ a[i] = b[j]
           first == i <= Len(a) /\ (j > Len(b) \/ lcs[<<i + 1, j>>] >= lcs[<<i, j + 1>>])
<1>1. CASE over
  <2>1. NextOps(f, a, b, lcs, i, j) = <<>>
    BY <1>1, Zenon DEF NextOps
  <2>2. i = Len(a) + 1 /\ j = Len(b) + 1
    BY <1>1
  <2> QED BY <2>1, <2>2 DEF OpsCase
<1>2. CASE ~over /\ same
  <2>1. NextOps(f, a, b, lcs, i, j) = <<Op("kept", a[i])>> \o f[<<i + 1, j + 1>>]
    BY <1>2, Zenon DEF NextOps
  <2> QED BY <1>2, <2>1 DEF OpsCase
<1>3. CASE ~over /\ ~same /\ first
  <2>1. NextOps(f, a, b, lcs, i, j) = <<Op("removed", a[i])>> \o f[<<i + 1, j>>]
    BY <1>3, Zenon DEF NextOps
  <2> QED BY <1>3, <2>1 DEF OpsCase
<1>4. CASE ~over /\ ~same /\ ~first
  <2>1. NextOps(f, a, b, lcs, i, j) = <<Op("added", b[j])>> \o f[<<i, j + 1>>]
    BY <1>4, Zenon DEF NextOps
  <2>2. j <= Len(b)
    BY <1>4
  <2> QED BY <2>1, <2>2 DEF OpsCase
<1> QED BY <1>1, <1>2, <1>3, <1>4


LEMMA OpsType ==
  ASSUME NEW X, NEW a \in Seq(X), NEW b \in Seq(X), NEW i \in 1..Len(a) + 1, NEW j \in 1..Len(b) + 1,
         NEW f \in [Places(a, b) -> Seq(Edits(X))], NEW lcs
  PROVE  NextOps(f, a, b, lcs, i, j) \in Seq(Edits(X))
<1>1. Len(a) \in Nat /\ Len(b) \in Nat
  BY LenProperties
<1>2. ASSUME NEW op \in Edits(X), NEW next \in Places(a, b) PROVE <<op>> \o f[next] \in Seq(Edits(X))
  <2>1. f[next] \in Seq(Edits(X)) /\ <<op>> \in Seq(Edits(X))
    OBVIOUS
  <2> QED BY <2>1, ConcatProperties
<1>3. /\ i <= Len(a) => Op("kept", a[i]) \in Edits(X) /\ Op("removed", a[i]) \in Edits(X)
      /\ j <= Len(b) => Op("added", b[j]) \in Edits(X)
  <2>1. i <= Len(a) => a[i] \in X
    BY ElementOfSeq
  <2>2. j <= Len(b) => b[j] \in X
    BY ElementOfSeq
  <2> QED BY <2>1, <2>2 DEF Op, Edits
<1>4. /\ i <= Len(a) => <<i + 1, j>> \in Places(a, b)
      /\ j <= Len(b) => <<i, j + 1>> \in Places(a, b)
      /\ i <= Len(a) /\ j <= Len(b) => <<i + 1, j + 1>> \in Places(a, b)
  BY <1>1, LeftOver
<1>5. <<>> \in Seq(Edits(X))
  OBVIOUS
<1> DEFINE over == i > Len(a) /\ j > Len(b)
           same == i <= Len(a) /\ j <= Len(b) /\ a[i] = b[j]
           first == i <= Len(a) /\ (j > Len(b) \/ lcs[<<i + 1, j>>] >= lcs[<<i, j + 1>>])
<1>6. CASE over
  BY <1>5, <1>6, Zenon DEF NextOps
<1>7. CASE ~over /\ same
  BY <1>2, <1>3, <1>4, <1>7, Zenon DEF NextOps
<1>8. CASE ~over /\ ~same /\ first
  BY <1>2, <1>3, <1>4, <1>8, Zenon DEF NextOps
<1>9. CASE ~over /\ ~same /\ ~first
  <2>1. j <= Len(b)
    BY <1>1, <1>9
  <2> QED BY <1>2, <1>3, <1>4, <1>9, <2>1, Zenon DEF NextOps
<1> QED BY <1>6, <1>7, <1>8, <1>9

LEMMA OpsAgree ==
  ASSUME NEW a, NEW b, Len(a) \in Nat, Len(b) \in Nat, NEW i \in 1..Len(a) + 1, NEW j \in 1..Len(b) + 1,
         NEW f, NEW g, NEW lcs,
         \A at \in Places(a, b) : Left(a, b, at) < Left(a, b, <<i, j>>) => f[at] = g[at]
  PROVE  NextOps(f, a, b, lcs, i, j) = NextOps(g, a, b, lcs, i, j)
<1>1. /\ i <= Len(a) => f[<<i + 1, j>>] = g[<<i + 1, j>>]
      /\ j <= Len(b) => f[<<i, j + 1>>] = g[<<i, j + 1>>]
      /\ i <= Len(a) /\ j <= Len(b) => f[<<i + 1, j + 1>>] = g[<<i + 1, j + 1>>]
  <2>1. Left(a, b, <<i, j>>) \in Int
    BY DEF Left
  <2>2. ASSUME i <= Len(a) PROVE f[<<i + 1, j>>] = g[<<i + 1, j>>]
    <3>1. <<i + 1, j>> \in Places(a, b) /\ Left(a, b, <<i + 1, j>>) = Left(a, b, <<i, j>>) - 1
      BY <2>2 DEF Places, Left
    <3> QED BY <2>1, <3>1
  <2>3. ASSUME j <= Len(b) PROVE f[<<i, j + 1>>] = g[<<i, j + 1>>]
    <3>1. <<i, j + 1>> \in Places(a, b) /\ Left(a, b, <<i, j + 1>>) = Left(a, b, <<i, j>>) - 1
      BY <2>3 DEF Places, Left
    <3> QED BY <2>1, <3>1
  <2>4. ASSUME i <= Len(a) /\ j <= Len(b) PROVE f[<<i + 1, j + 1>>] = g[<<i + 1, j + 1>>]
    <3>1. <<i + 1, j + 1>> \in Places(a, b) /\ Left(a, b, <<i + 1, j + 1>>) = Left(a, b, <<i, j>>) - 2
      BY <2>4 DEF Places, Left
    <3> QED BY <2>1, <3>1
  <2> QED BY <2>2, <2>3, <2>4
<1> DEFINE over == i > Len(a) /\ j > Len(b)
           same == i <= Len(a) /\ j <= Len(b) /\ a[i] = b[j]
           first == i <= Len(a) /\ (j > Len(b) \/ lcs[<<i + 1, j>>] >= lcs[<<i, j + 1>>])
<1>2. CASE over
  BY <1>2, Zenon DEF NextOps
<1>3. CASE ~over /\ same
  BY <1>1, <1>3, Zenon DEF NextOps
<1>4. CASE ~over /\ ~same /\ first
  BY <1>1, <1>4, Zenon DEF NextOps
<1>5. CASE ~over /\ ~same /\ ~first
  <2>1. j <= Len(b)
    BY <1>5
  <2> QED BY <1>1, <1>5, <2>1, Zenon DEF NextOps
<1> QED BY <1>2, <1>3, <1>4, <1>5

LEMMA OpsExist ==
  ASSUME NEW X, NEW a \in Seq(X), NEW b \in Seq(X)
  PROVE  \E f \in [Places(a, b) -> Seq(Edits(X))] : IsOps(f, a, b)
<1> DEFINE D == Places(a, b)
           V == Seq(Edits(X))
           lcs == LCS(a, b)
           Body == [f \in [D -> V] |-> [at \in D |-> NextOps(f, a, b, lcs, at[1], at[2])]]
           rank == [at \in D |-> Left(a, b, at)]
           N == Len(a) + Len(b)
<1> HIDE DEF lcs
<1>1. Len(a) \in Nat /\ Len(b) \in Nat
  BY LenProperties
<1>2. \A at \in D : at[1] \in 1..Len(a) + 1 /\ at[2] \in 1..Len(b) + 1 /\ at = <<at[1], at[2]>>
  BY DEF Places
<1>3. Body \in [[D -> V] -> [D -> V]]
  <2>1. ASSUME NEW f \in [D -> V], NEW at \in D PROVE NextOps(f, a, b, lcs, at[1], at[2]) \in V
    BY <1>2, OpsType
  <2> QED BY <2>1
<1>4. ASSUME NEW f \in [D -> V], NEW g \in [D -> V], NEW at \in D,
             \A q \in D : rank[q] < rank[at] => f[q] = g[q]
      PROVE  Body[f][at] = Body[g][at]
  <2>1. \A q \in D : Left(a, b, q) < Left(a, b, at) => f[q] = g[q]
    BY <1>4
  <2>2. PICK i \in 1..Len(a) + 1, j \in 1..Len(b) + 1 : at = <<i, j>>
    BY <1>2
  <2>3. NextOps(f, a, b, lcs, i, j) = NextOps(g, a, b, lcs, i, j)
    BY <1>1, <2>1, <2>2, OpsAgree
  <2> QED BY <2>2, <2>3
<1>5. N \in Nat /\ <<>> \in V /\ rank \in [D -> 0..N]
  <2>1. ASSUME NEW at \in D PROVE Left(a, b, at) \in 0..N
    <3>1. PICK i \in 1..Len(a) + 1, j \in 1..Len(b) + 1 : at = <<i, j>>
      BY <1>2
    <3> QED BY <1>1, <3>1, LeftOver
  <2> QED BY <1>1, <2>1
<1>6. Recursive(D, V, rank, Body)
  BY <1>3, <1>4 DEF Recursive
<1> HIDE DEF D, V, Body, rank, N
<1>7. PICK f \in [D -> V] : f = Body[f]
  BY <1>5, <1>6, RecursionExists
<1>8. IsOps(f, a, b)
  BY <1>7 DEF IsOps, D, Body, lcs
<1> QED BY <1>8 DEF D, V

(* The lines from a place on. *)
LEMMA FromHere ==
  ASSUME NEW X, NEW s \in Seq(X), NEW i \in 1..Len(s)
  PROVE  SubSeq(s, i, Len(s)) = <<s[i]>> \o SubSeq(s, i + 1, Len(s)) /\ SubSeq(s, i + 1, Len(s)) \in Seq(X)
<1>1. SubSeq(s, i + 1, Len(s)) \in Seq(X)
  <2>1. \A k \in (i + 1)..Len(s) : s[k] \in X
    BY ElementOfSeq, LenProperties
  <2> QED BY <2>1, SubSeqProperties, LenProperties
<1>2. SubSeq(s, i, Len(s)) = <<s[i]>> \o SubSeq(s, i + 1, Len(s))
  BY SubSeqRecursiveFirst, LenProperties
<1> QED BY <1>1, <1>2

(* What the operations from a place on add up to. *)
Tells(a, b, ops, i, j) ==
  OldLines(ops) = SubSeq(a, i, Len(a)) /\ NewLines(ops) = SubSeq(b, j, Len(b))
Fine(X, a, b, f, i, j) == f[<<i, j>>] \in Seq(Edits(X)) /\ Tells(a, b, f[<<i, j>>], i, j)

LEMMA LinesOfFirst ==
  ASSUME NEW X, NEW op \in Edits(X), NEW rest \in Seq(Edits(X)), NEW kind
  PROVE  LinesBut(<<op>> \o rest, kind)
           = IF op.kind = kind THEN LinesBut(rest, kind) ELSE <<op.line>> \o LinesBut(rest, kind)
<1> DEFINE first == <<op>>
<1>1. first \in Seq(Edits(X))
  OBVIOUS
<1>2. LinesBut(<<op>>, kind) = IF op.kind = kind THEN <<>> ELSE <<op.line>>
  BY LinesOfOne
<1> HIDE DEF first
<1>3. LinesBut(first \o rest, kind) = LinesBut(first, kind) \o LinesBut(rest, kind)
  BY <1>1, LinesOfConcat
<1>4. <<>> \o LinesBut(rest, kind) = LinesBut(rest, kind)
  BY LinesType, ConcatEmptySeq
<1> QED BY <1>2, <1>3, <1>4 DEF first

LEMMA ToldOfOne ==
  ASSUME NEW X, NEW op \in Edits(X), NEW rest \in Seq(Edits(X))
  PROVE  /\ <<op>> \o rest \in Seq(Edits(X))
         /\ OldLines(<<op>> \o rest)
              = IF op.kind = "added" THEN OldLines(rest) ELSE <<op.line>> \o OldLines(rest)
         /\ NewLines(<<op>> \o rest)
              = IF op.kind = "removed" THEN NewLines(rest) ELSE <<op.line>> \o NewLines(rest)
<1>1. <<op>> \in Seq(Edits(X))
  OBVIOUS
<1>2. <<op>> \o rest \in Seq(Edits(X))
  BY <1>1, ConcatProperties
<1>3. \A kind : LinesBut(<<op>> \o rest, kind)
                = IF op.kind = kind THEN LinesBut(rest, kind) ELSE <<op.line>> \o LinesBut(rest, kind)
  BY LinesOfFirst
<1> QED BY <1>2, <1>3 DEF OldLines, NewLines

(* Induction over the places, from the ends of the texts. *)
Backed(S, a, b, i, j) ==
  /\ i <= Len(a) => <<i + 1, j>> \in S
  /\ j <= Len(b) => <<i, j + 1>> \in S
  /\ i <= Len(a) /\ j <= Len(b) => <<i + 1, j + 1>> \in S

LEMMA FromTheEnd ==
  ASSUME NEW a, NEW b, Len(a) \in Nat, Len(b) \in Nat, NEW S,
         \A i \in 1..Len(a) + 1, j \in 1..Len(b) + 1 : Backed(S, a, b, i, j) => <<i, j>> \in S
  PROVE  \A i \in 1..Len(a) + 1, j \in 1..Len(b) + 1 : <<i, j>> \in S
<1> DEFINE T == {n \in Nat : \A i \in 1..Len(a) + 1, j \in 1..Len(b) + 1 :
                               Left(a, b, <<i, j>>) <= n => <<i, j>> \in S}
           N == Len(a) + Len(b)
<1>0. N \in Nat
  OBVIOUS
<1>1. 0 \in T
  <2> SUFFICES ASSUME NEW i \in 1..Len(a) + 1, NEW j \in 1..Len(b) + 1, Left(a, b, <<i, j>>) <= 0
               PROVE  <<i, j>> \in S
    OBVIOUS
  <2>1. ~(i <= Len(a)) /\ ~(j <= Len(b))
    BY DEF Left
  <2> QED BY <2>1 DEF Backed
<1>2. ASSUME NEW n \in 0..N - 1, n \in T PROVE n + 1 \in T
  <2> SUFFICES ASSUME NEW i \in 1..Len(a) + 1, NEW j \in 1..Len(b) + 1, Left(a, b, <<i, j>>) <= n + 1
               PROVE  <<i, j>> \in S
    BY <1>0
  <2>1. i <= Len(a) => i + 1 \in 1..Len(a) + 1 /\ Left(a, b, <<i + 1, j>>) <= n
    BY DEF Left
  <2>2. j <= Len(b) => j + 1 \in 1..Len(b) + 1 /\ Left(a, b, <<i, j + 1>>) <= n
    BY DEF Left
  <2>3. i <= Len(a) /\ j <= Len(b) => Left(a, b, <<i + 1, j + 1>>) <= n
    BY DEF Left
  <2>4. Backed(S, a, b, i, j)
    BY <1>2, <2>1, <2>2, <2>3 DEF Backed
  <2> QED BY <2>4
<1>3. \A n \in 0..N : n \in T
  <2> HIDE DEF T, N
  <2> QED BY <1>0, <1>1, <1>2, UpTo
<1>4. ASSUME NEW i \in 1..Len(a) + 1, NEW j \in 1..Len(b) + 1 PROVE <<i, j>> \in S
  <2>1. Left(a, b, <<i, j>>) <= N
    BY DEF Left
  <2>2. N \in T
    BY <1>0, <1>3
  <2> QED BY <2>1, <2>2
<1> QED BY <1>4, Zenon

LEMMA ToldFrom ==
  ASSUME NEW X, NEW a \in Seq(X), NEW b \in Seq(X), NEW f, IsOps(f, a, b)
  PROVE  \A i \in 1..Len(a) + 1, j \in 1..Len(b) + 1 : Fine(X, a, b, f, i, j)
<1> DEFINE lcs == LCS(a, b)
           S == {at \in Places(a, b) : Fine(X, a, b, f, at[1], at[2])}
<1>0. Len(a) \in Nat /\ Len(b) \in Nat
  BY LenProperties
<1> HIDE DEF lcs
<1>1. \A i \in 1..Len(a) + 1, j \in 1..Len(b) + 1 : f[<<i, j>>] = NextOps(f, a, b, lcs, i, j)
  BY <1>0 DEF IsOps, Places, lcs
<1>2. ASSUME NEW i \in 1..Len(a) + 1, NEW j \in 1..Len(b) + 1,
             i <= Len(a) => Fine(X, a, b, f, i + 1, j),
             j <= Len(b) => Fine(X, a, b, f, i, j + 1),
             i <= Len(a) /\ j <= Len(b) => Fine(X, a, b, f, i + 1, j + 1)
      PROVE  Fine(X, a, b, f, i, j)
  <2>0. f[<<i, j>>] = NextOps(f, a, b, lcs, i, j)
    BY <1>1
  <2>1. CASE i = Len(a) + 1 /\ j = Len(b) + 1 /\ NextOps(f, a, b, lcs, i, j) = <<>>
    <3>1. SubSeq(a, i, Len(a)) = <<>> /\ SubSeq(b, j, Len(b)) = <<>>
      BY <1>0, <2>1, SubSeqEmpty
    <3>2. <<>> \in Seq(Edits(X)) /\ OldLines(<<>>) = <<>> /\ NewLines(<<>>) = <<>>
      BY LinesOfNone DEF OldLines, NewLines
    <3> QED BY <2>0, <2>1, <3>1, <3>2 DEF Tells, Fine
  <2>2. CASE /\ i <= Len(a) /\ j <= Len(b) /\ a[i] = b[j]
             /\ NextOps(f, a, b, lcs, i, j) = <<Op("kept", a[i])>> \o f[<<i + 1, j + 1>>]
    <3> DEFINE op == Op("kept", a[i])
               rest == f[<<i + 1, j + 1>>]
    <3>1. i \in 1..Len(a) /\ j \in 1..Len(b)
      BY <1>0, <2>2
    <3>2. a[i] \in X
      BY <3>1, ElementOfSeq
    <3>3. op \in Edits(X) /\ op.kind = "kept" /\ op.line = a[i]
      BY <3>2 DEF Op, Edits
    <3>4. rest \in Seq(Edits(X)) /\ Tells(a, b, rest, i + 1, j + 1)
      BY <1>2, <2>2 DEF Fine
    <3>5. f[<<i, j>>] = <<op>> \o rest
      BY <2>0, <2>2
    <3> HIDE DEF op, rest
    <3>6. SubSeq(a, i, Len(a)) = <<a[i]>> \o SubSeq(a, i + 1, Len(a))
      BY <3>1, FromHere
    <3>7. SubSeq(b, j, Len(b)) = <<b[j]>> \o SubSeq(b, j + 1, Len(b))
      BY <3>1, FromHere
    <3>8. /\ <<op>> \o rest \in Seq(Edits(X))
          /\ OldLines(<<op>> \o rest) = <<op.line>> \o OldLines(rest)
          /\ NewLines(<<op>> \o rest) = <<op.line>> \o NewLines(rest)
      BY <3>3, <3>4, ToldOfOne
    <3> QED BY <2>2, <3>3, <3>4, <3>5, <3>6, <3>7, <3>8 DEF Tells, Fine
  <2>3. CASE i <= Len(a) /\ NextOps(f, a, b, lcs, i, j) = <<Op("removed", a[i])>> \o f[<<i + 1, j>>]
    <3> DEFINE op == Op("removed", a[i])
               rest == f[<<i + 1, j>>]
    <3>1. i \in 1..Len(a)
      BY <1>0, <2>3
    <3>2. a[i] \in X
      BY <3>1, ElementOfSeq
    <3>3. op \in Edits(X) /\ op.kind = "removed" /\ op.line = a[i]
      BY <3>2 DEF Op, Edits
    <3>4. rest \in Seq(Edits(X)) /\ Tells(a, b, rest, i + 1, j)
      BY <1>2, <2>3 DEF Fine
    <3>5. f[<<i, j>>] = <<op>> \o rest
      BY <2>0, <2>3
    <3> HIDE DEF op, rest
    <3>6. SubSeq(a, i, Len(a)) = <<a[i]>> \o SubSeq(a, i + 1, Len(a))
      BY <3>1, FromHere
    <3>8. /\ <<op>> \o rest \in Seq(Edits(X))
          /\ OldLines(<<op>> \o rest) = <<op.line>> \o OldLines(rest)
          /\ NewLines(<<op>> \o rest) = NewLines(rest)
      BY <3>3, <3>4, ToldOfOne
    <3> QED BY <3>3, <3>4, <3>5, <3>6, <3>8 DEF Tells, Fine
  <2>4. CASE j <= Len(b) /\ NextOps(f, a, b, lcs, i, j) = <<Op("added", b[j])>> \o f[<<i, j + 1>>]
    <3> DEFINE op == Op("added", b[j])
               rest == f[<<i, j + 1>>]
    <3>1. j \in 1..Len(b)
      BY <1>0, <2>4
    <3>2. b[j] \in X
      BY <3>1, ElementOfSeq
    <3>3. op \in Edits(X) /\ op.kind = "added" /\ op.line = b[j]
      BY <3>2 DEF Op, Edits
    <3>4. rest \in Seq(Edits(X)) /\ Tells(a, b, rest, i, j + 1)
      BY <1>2, <2>4 DEF Fine
    <3>5. f[<<i, j>>] = <<op>> \o rest
      BY <2>0, <2>4
    <3> HIDE DEF op, rest
    <3>7. SubSeq(b, j, Len(b)) = <<b[j]>> \o SubSeq(b, j + 1, Len(b))
      BY <3>1, FromHere
    <3>8. /\ <<op>> \o rest \in Seq(Edits(X))
          /\ OldLines(<<op>> \o rest) = OldLines(rest)
          /\ NewLines(<<op>> \o rest) = <<op.line>> \o NewLines(rest)
      BY <3>3, <3>4, ToldOfOne
    <3> QED BY <3>3, <3>4, <3>5, <3>7, <3>8 DEF Tells, Fine
  <2>5. \/ i = Len(a) + 1 /\ j = Len(b) + 1 /\ NextOps(f, a, b, lcs, i, j) = <<>>
        \/ /\ i <= Len(a) /\ j <= Len(b) /\ a[i] = b[j]
           /\ NextOps(f, a, b, lcs, i, j) = <<Op("kept", a[i])>> \o f[<<i + 1, j + 1>>]
        \/ i <= Len(a) /\ NextOps(f, a, b, lcs, i, j) = <<Op("removed", a[i])>> \o f[<<i + 1, j>>]
        \/ j <= Len(b) /\ NextOps(f, a, b, lcs, i, j) = <<Op("added", b[j])>> \o f[<<i, j + 1>>]
    <3>1. OpsCase(f, a, b, lcs, i, j)
      BY <1>0, OpsCases
    <3> QED BY <3>1, Zenon DEF OpsCase
  <2> QED BY <2>1, <2>2, <2>3, <2>4, <2>5
<1>3. ASSUME NEW i \in 1..Len(a) + 1, NEW j \in 1..Len(b) + 1, Backed(S, a, b, i, j)
      PROVE  <<i, j>> \in S
  <2>1. i <= Len(a) => Fine(X, a, b, f, i + 1, j)
    BY <1>3 DEF Backed
  <2>2. j <= Len(b) => Fine(X, a, b, f, i, j + 1)
    BY <1>3 DEF Backed
  <2>3. i <= Len(a) /\ j <= Len(b) => Fine(X, a, b, f, i + 1, j + 1)
    BY <1>3 DEF Backed
  <2>4. Fine(X, a, b, f, i, j)
    BY <1>2, <2>1, <2>2, <2>3
  <2>5. <<i, j>> \in Places(a, b) /\ <<i, j>>[1] = i /\ <<i, j>>[2] = j
    BY <1>0, LeftOver
  <2> QED BY <2>4, <2>5
<1>4. \A i \in 1..Len(a) + 1, j \in 1..Len(b) + 1 : <<i, j>> \in S
  <2> HIDE DEF S
  <2>1. \A i \in 1..Len(a) + 1, j \in 1..Len(b) + 1 : Backed(S, a, b, i, j) => <<i, j>> \in S
    BY <1>3
  <2> QED BY <1>0, <2>1, FromTheEnd, Zenon
<1> QED BY <1>4

\* A diff is the operations from the first lines on.
LEMMA DiffIs ==
  ASSUME NEW X, NEW a \in Seq(X), NEW b \in Seq(X)
  PROVE  \E f : IsOps(f, a, b) /\ lineDiff(a, b) = f[<<1, 1>>]
<1> DEFINE f == CHOOSE f : IsOps(f, a, b)
<1>1. IsOps(f, a, b)
  <2>1. PICK g : IsOps(g, a, b)
    BY OpsExist
  <2> QED BY <2>1, Zenon
<1>2. lineDiff(a, b) = f[<<1, 1>>]
  BY DEF lineDiff, IsOps, NextOps, Places
<1> QED BY <1>1, <1>2

(***************************************************************************)
(* The operations of a diff are exact: leave out what it adds and they are  *)
(* the current text, leave out what it removes and they are the proposed    *)
(* one, whatever the two texts are (lineDiff of caddy's diff.go and         *)
(* diffLines of forge's).                                                   *)
(***************************************************************************)
THEOREM DiffIsExact ==
  ASSUME NEW X, NEW a \in Seq(X), NEW b \in Seq(X)
  PROVE  /\ lineDiff(a, b) \in Seq(Edits(X))
         /\ OldLines(lineDiff(a, b)) = a
         /\ NewLines(lineDiff(a, b)) = b
<1>1. PICK f : IsOps(f, a, b) /\ lineDiff(a, b) = f[<<1, 1>>]
  BY DiffIs
<1>3. Len(a) \in Nat /\ Len(b) \in Nat
  BY LenProperties
<1>4. Fine(X, a, b, f, 1, 1)
  <2>1. \A i \in 1..Len(a) + 1, j \in 1..Len(b) + 1 : Fine(X, a, b, f, i, j)
    BY <1>1, ToldFrom
  <2>2. 1 \in 1..Len(a) + 1 /\ 1 \in 1..Len(b) + 1
    BY <1>3
  <2> QED BY <2>1, <2>2
<1>5. SubSeq(a, 1, Len(a)) = a /\ SubSeq(b, 1, Len(b)) = b
  BY SubSeqFull
<1> QED BY <1>1, <1>4, <1>5 DEF Fine, Tells

-----------------------------------------------------------------------------
(* How many lines are added and removed. *)

LEMMA CountOfNone ==
  ASSUME NEW kind
  PROVE  Count(<<>>, kind) = 0
<1>1. {k \in DOMAIN <<>> : <<>>[k].kind = kind} = {}
  OBVIOUS
<1> QED BY <1>1, FS_EmptySet DEF Count

LEMMA CountType ==
  ASSUME NEW X, NEW ops \in Seq(Edits(X)), NEW kind
  PROVE  Count(ops, kind) \in Nat
<1> DEFINE Those == {k \in DOMAIN ops : ops[k].kind = kind}
<1>1. DOMAIN ops = 1..Len(ops) /\ Len(ops) \in Int
  BY LenProperties
<1>2. IsFiniteSet(1..Len(ops))
  BY <1>1, FS_Interval
<1>3. Those \in SUBSET (1..Len(ops))
  BY <1>1
<1>4. Count(ops, kind) = Cardinality(Those)
  BY DEF Count
<1> HIDE DEF Those
<1> QED BY <1>2, <1>3, <1>4, FS_Subset, FS_CardinalityType

LEMMA CountOfAppend ==
  ASSUME NEW X, NEW ops \in Seq(Edits(X)), NEW op \in Edits(X), NEW kind
  PROVE  Count(Append(ops, op), kind) = Count(ops, kind) + (IF op.kind = kind THEN 1 ELSE 0)
<1> DEFINE n == Len(ops)
           more == Append(ops, op)
           Those == {k \in 1..n : ops[k].kind = kind}
           Then == {k \in 1..n + 1 : more[k].kind = kind}
<1>1. n \in Nat /\ DOMAIN ops = 1..n
  BY LenProperties
<1>2. more \in Seq(Edits(X)) /\ Len(more) = n + 1 /\ (\A k \in 1..n : more[k] = ops[k]) /\ more[n + 1] = op
  BY AppendProperties
<1>3. DOMAIN more = 1..n + 1
  BY <1>2, LenProperties
<1>4. Count(ops, kind) = Cardinality(Those) /\ Count(more, kind) = Cardinality(Then)
  BY <1>1, <1>3 DEF Count
<1>5. Then = IF op.kind = kind THEN Those \cup {n + 1} ELSE Those
  BY <1>1, <1>2
<1>6. IsFiniteSet(Those) /\ Cardinality(Those) \in Nat
  <2>1. IsFiniteSet(1..n) /\ Those \in SUBSET (1..n)
    BY <1>1, FS_Interval
  <2> HIDE DEF Those
  <2> QED BY <2>1, FS_Subset, FS_CardinalityType
<1>7. n + 1 \notin Those
  BY <1>1
<1> HIDE DEF n, more, Those, Then
<1>8. Cardinality(Those \cup {n + 1}) = Cardinality(Those) + 1
  BY <1>6, <1>7, FS_AddElement
<1>9. Count(more, kind) = Count(ops, kind) + (IF op.kind = kind THEN 1 ELSE 0)
  BY <1>4, <1>5, <1>6, <1>8
<1> QED BY <1>9 DEF more

\* The operations of a kind, and the lines of the others, are all there are.
Counted(ops, kind) == Len(LinesBut(ops, kind)) + Count(ops, kind) = Len(ops)

LEMMA LinesCounted ==
  ASSUME NEW X, NEW ops \in Seq(Edits(X)), NEW kind
  PROVE  Counted(ops, kind)
<1> DEFINE First(n) == SubSeq(ops, 1, n)
           S == {n \in Nat : Counted(First(n), kind)}
<1>1. 0 \in S
  <2>1. First(0) = <<>>
    BY SubSeqEmpty
  <2>2. LinesBut(<<>>, kind) = <<>> /\ Count(<<>>, kind) = 0 /\ Len(<<>>) = 0
    BY LinesOfNone, CountOfNone
  <2>3. Counted(<<>>, kind)
    BY <2>2 DEF Counted
  <2> QED BY <2>1, <2>3
<1>2. ASSUME NEW n \in 0..Len(ops) - 1, n \in S PROVE n + 1 \in S
  <2> DEFINE before == First(n)
             op == ops[n + 1]
  <2>1. n + 1 \in 1..Len(ops) /\ (n + 1) - 1 = n /\ n + 1 \in Nat
    BY LenProperties
  <2>2. op \in Edits(X) /\ op.line \in X
    BY <2>1, EditAt
  <2>3. before \in Seq(Edits(X))
    <3>1. \A i \in 1..n : ops[i] \in Edits(X)
      BY EditAt
    <3> QED BY <3>1, SubSeqProperties
  <2>4. First(n + 1) = Append(before, op)
    <3>1. First(n + 1) = before \o <<op>>
      BY <2>1, SubSeqRecursiveSecond
    <3> QED BY <3>1, <2>2, <2>3, AppendIsConcat
  <2>5. Counted(before, kind)
    BY <1>2
  <2> HIDE DEF before, op, First
  <2>6. /\ Count(before, kind) \in Nat
        /\ Count(Append(before, op), kind) = Count(before, kind) + (IF op.kind = kind THEN 1 ELSE 0)
    BY <2>2, <2>3, CountType, CountOfAppend
  <2>7. LinesBut(Append(before, op), kind)
          = IF op.kind = kind THEN LinesBut(before, kind) ELSE Append(LinesBut(before, kind), op.line)
    BY <2>2, <2>3, LinesOfAppend
  <2>8. LinesBut(before, kind) \in Seq(X)
    BY <2>3, LinesType
  <2>9. /\ Len(LinesBut(before, kind)) \in Nat
        /\ Len(Append(LinesBut(before, kind), op.line)) = Len(LinesBut(before, kind)) + 1
    BY <2>2, <2>8, LenProperties, AppendProperties
  <2>10. Len(before) \in Nat /\ Len(Append(before, op)) = Len(before) + 1
    BY <2>2, <2>3, LenProperties, AppendProperties
  <2>11. Counted(Append(before, op), kind)
    BY <2>5, <2>6, <2>7, <2>9, <2>10 DEF Counted
  <2> QED BY <2>1, <2>4, <2>11
<1>3. Len(ops) \in Nat
  BY LenProperties
<1>4. \A n \in 0..Len(ops) : n \in S
  <2> HIDE DEF S
  <2> QED BY <1>1, <1>2, <1>3, UpTo
<1>5. First(Len(ops)) = ops
  BY SubSeqFull
<1>6. Counted(First(Len(ops)), kind)
  <2> HIDE DEF First
  <2> QED BY <1>3, <1>4
<1> QED BY <1>5, <1>6

(***************************************************************************)
(* A diff adds and removes as many lines as it counts: the proposed text    *)
(* has that many more, and that many fewer, than the current one            *)
(* (diffScripts of forge's diff.go).                                        *)
(***************************************************************************)
THEOREM DiffCounts ==
  ASSUME NEW X, NEW a \in Seq(X), NEW b \in Seq(X)
  PROVE  /\ Count(lineDiff(a, b), "added") \in Nat /\ Count(lineDiff(a, b), "removed") \in Nat
         /\ Len(b) = Len(a) + Count(lineDiff(a, b), "added") - Count(lineDiff(a, b), "removed")
<1> DEFINE ops == lineDiff(a, b)
<1>1. ops \in Seq(Edits(X)) /\ LinesBut(ops, "added") = a /\ LinesBut(ops, "removed") = b
  BY DiffIsExact DEF OldLines, NewLines
<1> HIDE DEF ops
<1>2. Counted(ops, "added") /\ Counted(ops, "removed")
  BY <1>1, LinesCounted
<1>3. Len(a) \in Nat /\ Len(b) \in Nat /\ Len(ops) \in Nat
  BY <1>1, LenProperties
<1>4. ASSUME NEW kind PROVE Count(ops, kind) \in Nat
  BY <1>1, CountType
<1>5. Len(a) + Count(ops, "added") = Len(ops) /\ Len(b) + Count(ops, "removed") = Len(ops)
  BY <1>1, <1>2 DEF Counted
<1>6. Count(ops, "added") \in Nat /\ Count(ops, "removed") \in Nat
  BY <1>4
<1>7. Len(b) = Len(a) + Count(ops, "added") - Count(ops, "removed")
  <2>1. \A x, y, p, q, n \in Nat : x + p = n /\ y + q = n => y = x + p - q
    OBVIOUS
  <2> QED BY <1>3, <1>5, <1>6, <2>1
<1> QED BY <1>6, <1>7 DEF ops

-----------------------------------------------------------------------------
(* Where a hunk starts and where it ends. *)

LEMMA MinIsLeast ==
  ASSUME NEW T \in SUBSET Nat, T # {}
  PROVE  Min(T) \in T /\ \A m \in T : Min(T) <= m
<1>1. \E n \in T : \A m \in T : n <= m
  BY LeastOf
<1> QED BY <1>1, Zenon DEF Min

LEMMA OfTwo ==
  ASSUME NEW m \in Int, NEW n \in Int
  PROVE  /\ Min({m, n}) = IF m <= n THEN m ELSE n
         /\ Max({m, n}) = IF m >= n THEN m ELSE n
<1>1. \E x \in {m, n} : \A y \in {m, n} : x <= y
  OBVIOUS
<1>2. Min({m, n}) \in {m, n} /\ \A y \in {m, n} : Min({m, n}) <= y
  BY <1>1, Zenon DEF Min
<1>3. \E x \in {m, n} : \A y \in {m, n} : x >= y
  OBVIOUS
<1>4. Max({m, n}) \in {m, n} /\ \A y \in {m, n} : Max({m, n}) >= y
  BY <1>3, Zenon DEF Max
<1> QED BY <1>2, <1>4

LEMMA GreatestOf ==
  ASSUME NEW N \in Nat, NEW T \in SUBSET (0..N), T # {}
  PROVE  \E n \in T : \A m \in T : m <= n
<1> DEFINE Mirror == {k \in Nat : N - k \in T}
<1>1. Mirror \in SUBSET Nat /\ Mirror # {}
  <2>1. PICK n \in T : TRUE
    OBVIOUS
  <2>2. N - n \in Nat /\ N - (N - n) = n
    BY <2>1
  <2> QED BY <2>1, <2>2
<1> HIDE DEF Mirror
<1>2. PICK x \in Mirror : \A y \in Mirror : x <= y
  BY <1>1, LeastOf
<1>3. x \in Nat /\ N - x \in T
  BY DEF Mirror
<1>4. \A m \in T : m <= N - x
  <2> SUFFICES ASSUME NEW m \in T PROVE m <= N - x
    OBVIOUS
  <2>1. N - m \in Nat /\ N - (N - m) = m
    OBVIOUS
  <2>2. x <= N - m
    BY <1>2, <2>1 DEF Mirror
  <2> QED BY <1>3, <2>1, <2>2
<1> QED BY <1>3, <1>4

LEMMA ChangesType ==
  ASSUME NEW X, NEW ops \in Seq(Edits(X))
  PROVE  Len(ops) \in Nat /\ Changes(ops) \in SUBSET (1..Len(ops))
BY LenProperties DEF Changes

LEMMA ReachIs ==
  ASSUME NEW X, NEW ops \in Seq(Edits(X)), NEW first \in Changes(ops), NEW gap \in Nat
  PROVE  /\ Reach(ops, first, gap) \in Changes(ops) /\ Reach(ops, first, gap) >= first
         /\ \A m \in Changes(ops) : m > Reach(ops, first, gap) => m > Reach(ops, first, gap) + gap
<1> DEFINE T == {k \in Changes(ops) : k >= first /\ \A m \in Changes(ops) : m > k => m > k + gap}
<1>1. Len(ops) \in Nat /\ Changes(ops) \in SUBSET (1..Len(ops))
  BY ChangesType
<1>2. Changes(ops) \in SUBSET (0..Len(ops)) /\ Changes(ops) # {}
  BY <1>1
<1>3. PICK last \in Changes(ops) : \A m \in Changes(ops) : m <= last
  BY <1>1, <1>2, GreatestOf
<1>4. last >= first /\ \A m \in Changes(ops) : m > last => m > last + gap
  <2>1. \A m \in Changes(ops) : ~(m > last)
    BY <1>1, <1>3
  <2> QED BY <1>1, <1>3, <2>1
<1>5. last \in T
  BY <1>4
<1>6. T \in SUBSET Nat /\ T # {}
  BY <1>1, <1>5
<1>7. Reach(ops, first, gap) = Min(T)
  BY DEF Reach
<1> HIDE DEF T
<1>8. Reach(ops, first, gap) \in T
  BY <1>6, <1>7, MinIsLeast
<1> QED BY <1>8 DEF T

-----------------------------------------------------------------------------
(* Parts of the operations. *)

LEMMA PartType ==
  ASSUME NEW V, NEW s \in Seq(V), NEW i \in 1..Len(s) + 1, NEW j \in i - 1..Len(s)
  PROVE  /\ SubSeq(s, i, j) \in Seq(V)
         /\ Len(SubSeq(s, i, j)) = j - i + 1
         /\ \A k \in 1..j - i + 1 : SubSeq(s, i, j)[k] = s[i + k - 1]
<1>1. Len(s) \in Nat
  BY LenProperties
<1>2. \A k \in i..j : s[k] \in V
  <2> SUFFICES ASSUME NEW k \in i..j PROVE s[k] \in V
    OBVIOUS
  <2>1. k \in 1..Len(s)
    BY <1>1
  <2> QED BY <2>1, ElementOfSeq
<1>3. i \in Int /\ j \in Int
  BY <1>1
<1>4. /\ SubSeq(s, i, j) \in Seq(V)
      /\ Len(SubSeq(s, i, j)) = IF i <= j THEN j - i + 1 ELSE 0
      /\ \A k \in 1..j - i + 1 : SubSeq(s, i, j)[k] = s[i + k - 1]
  BY <1>2, <1>3, SubSeqProperties
<1>5. (IF i <= j THEN j - i + 1 ELSE 0) = j - i + 1
  BY <1>1
<1> QED BY <1>4, <1>5

(* The lines of operations that follow one another. *)
LEMMA LinesOfParts ==
  ASSUME NEW X, NEW ops \in Seq(Edits(X)), NEW kind,
         NEW i \in 1..Len(ops) + 1, NEW k \in i - 1..Len(ops), NEW j \in k..Len(ops)
  PROVE  LinesBut(SubSeq(ops, i, j), kind)
           = LinesBut(SubSeq(ops, i, k), kind) \o LinesBut(SubSeq(ops, k + 1, j), kind)
<1>1. Len(ops) \in Nat
  BY LenProperties
<1>2. SubSeq(ops, i, k) \in Seq(Edits(X))
  BY PartType
<1>3. SubSeq(ops, k + 1, j) \in Seq(Edits(X))
  <2>1. k + 1 \in 1..Len(ops) + 1 /\ j \in (k + 1) - 1..Len(ops)
    BY <1>1
  <2> QED BY <2>1, PartType
<1>4. SubSeq(ops, i, k) \o SubSeq(ops, k + 1, j) = SubSeq(ops, i, j)
  BY ConcatAdjacentSubSeq
<1> DEFINE s == SubSeq(ops, i, k)
           t == SubSeq(ops, k + 1, j)
<1>5. s \in Seq(Edits(X)) /\ t \in Seq(Edits(X))
  BY <1>2, <1>3
<1> HIDE DEF s, t
<1>6. LinesBut(s \o t, kind) = LinesBut(s, kind) \o LinesBut(t, kind)
  BY <1>5, LinesOfConcat
<1> QED BY <1>4, <1>6 DEF s, t

\* No operation from i to j changes anything.
Quiet(ops, i, j) == \A k \in i..j : ops[k].kind = "kept"

LEMMA QuietLines ==
  ASSUME NEW X, NEW ops \in Seq(Edits(X)), NEW i \in 1..Len(ops) + 1, NEW j \in i - 1..Len(ops),
         Quiet(ops, i, j)
  PROVE  OldLines(SubSeq(ops, i, j)) = NewLines(SubSeq(ops, i, j))
<1>1. /\ SubSeq(ops, i, j) \in Seq(Edits(X))
      /\ Len(SubSeq(ops, i, j)) = j - i + 1
      /\ \A k \in 1..j - i + 1 : SubSeq(ops, i, j)[k] = ops[i + k - 1]
  BY PartType
<1>2. Len(ops) \in Nat
  BY LenProperties
<1> DEFINE part == SubSeq(ops, i, j)
<1>3. ASSUME NEW k \in 1..Len(part) PROVE part[k].kind = "kept"
  <2>1. i + k - 1 \in i..j /\ k \in 1..j - i + 1
    BY <1>1, <1>2
  <2>2. ops[i + k - 1].kind = "kept"
    BY <2>1 DEF Quiet
  <2> QED BY <1>1, <2>1, <2>2
<1> HIDE DEF part
<1>4. part \in Seq(Edits(X))
  BY <1>1 DEF part
<1>5. OldLines(part) = NewLines(part)
  BY <1>3, <1>4, LinesSame
<1> QED BY <1>5 DEF part

(* The middle of three texts that follow one another, and the end of two. *)
LEMMA MiddleOf ==
  ASSUME NEW V, NEW u \in Seq(V), NEW v \in Seq(V), NEW w \in Seq(V)
  PROVE  SubSeq(u \o v \o w, Len(u) + 1, Len(u) + Len(v)) = v
<1>1. Len(u) \in Nat /\ Len(v) \in Nat /\ Len(w) \in Nat
  BY LenProperties
<1>2. /\ u \o v \in Seq(V) /\ Len(u \o v) = Len(u) + Len(v)
      /\ \A k \in 1..Len(u) + Len(v) : (u \o v)[k] = IF k <= Len(u) THEN u[k] ELSE v[k - Len(u)]
  BY ConcatProperties
<1> DEFINE uv == u \o v
           all == uv \o w
           m == Len(u) + 1
           n == Len(u) + Len(v)
<1>3. /\ all \in Seq(V) /\ Len(all) = Len(uv) + Len(w)
      /\ \A k \in 1..Len(uv) + Len(w) : all[k] = IF k <= Len(uv) THEN uv[k] ELSE w[k - Len(uv)]
  <2> HIDE DEF uv
  <2> QED BY <1>2, ConcatProperties DEF uv
<1>4. m \in 1..Len(all) + 1 /\ n \in m - 1..Len(all) /\ n - m + 1 = Len(v)
  BY <1>1, <1>2, <1>3
<1> HIDE DEF uv, all
<1>5. /\ SubSeq(all, m, n) \in Seq(V) /\ Len(SubSeq(all, m, n)) = n - m + 1
      /\ \A k \in 1..n - m + 1 : SubSeq(all, m, n)[k] = all[m + k - 1]
  <2> HIDE DEF m, n
  <2> QED BY <1>3, <1>4, PartType
<1>6. ASSUME NEW k \in 1..Len(v) PROVE SubSeq(all, m, n)[k] = v[k]
  <2>1. SubSeq(all, m, n)[k] = all[m + k - 1]
    BY <1>1, <1>4, <1>5
  <2>2. m + k - 1 = Len(u) + k /\ Len(u) + k \in 1..Len(u) + Len(v) /\ ~(Len(u) + k <= Len(u))
    BY <1>1
  <2>3. all[Len(u) + k] = uv[Len(u) + k]
    BY <1>1, <1>2, <1>3, <2>2 DEF uv
  <2>4. uv[Len(u) + k] = v[(Len(u) + k) - Len(u)]
    BY <1>2, <2>2 DEF uv
  <2>5. (Len(u) + k) - Len(u) = k
    BY <1>1
  <2> QED BY <2>1, <2>2, <2>3, <2>4, <2>5
<1>7. SubSeq(all, m, n) = v
  BY <1>4, <1>5, <1>6, SeqEqual
<1> QED BY <1>7 DEF all, uv

-----------------------------------------------------------------------------
(* The hunks of a diff: unified and, written, unifiedDiff. *)
Later(ops, start) == {k \in Changes(ops) : k >= start}
First(ops, start) == Min(Later(ops, start))
Gap(ops, written) == IF written THEN Joined(ops) ELSE 2 * diffContext + 1
From(ops, start, written) == Max({First(ops, start) - diffContext, IF written THEN 1 ELSE start})
Until(ops, start, written) == Min({Reach(ops, First(ops, start), Gap(ops, written)) + diffContext, Len(ops)})
Marked(ops, lo, hi, written) == IF written THEN writeHunk(Hunk(ops, lo, hi)) ELSE Hunk(ops, lo, hi)
Marks(ops, written) == {Marked(ops, lo, hi, written) : lo \in 1..Len(ops), hi \in 1..Len(ops)}

NextHunks(f, ops, start, written) ==
  IF Later(ops, start) = {} THEN <<>>
  ELSE <<Marked(ops, From(ops, start, written), Until(ops, start, written), written)>>
         \o f[Until(ops, start, written) + 1]

IsHunks(f, ops, written) == f = [start \in 1..Len(ops) + 1 |-> NextHunks(f, ops, start, written)]

\* A written hunk starts where it would if the one before had been looked at.
Free(ops, start, written) ==
  written => start = 1 \/ \A k \in Changes(ops) : k >= start => k >= start + diffContext

LEMMA HunkBounds ==
  ASSUME NEW X, NEW ops \in Seq(Edits(X)), NEW start \in 1..Len(ops) + 1, NEW written \in BOOLEAN,
         Later(ops, start) # {}
  PROVE  /\ From(ops, start, written) \in 1..Len(ops)
         /\ Until(ops, start, written) \in From(ops, start, written)..Len(ops)
         /\ Until(ops, start, written) \in start..Len(ops)
         /\ Quiet(ops, start, From(ops, start, written) - 1)
         /\ Free(ops, start, written) => From(ops, start, written) >= start
         /\ Free(ops, Until(ops, start, written) + 1, written)
<1> DEFINE n == Len(ops)
           first == First(ops, start)
           gap == Gap(ops, written)
           reach == Reach(ops, first, gap)
           lo == From(ops, start, written)
           hi == Until(ops, start, written)
<1>1. n \in Nat /\ Changes(ops) \in SUBSET (1..n)
  BY ChangesType
<1>2. diffContext \in Nat /\ gap \in Nat /\ (written => gap = 2 * diffContext)
  BY DiffAssumption DEF Gap, Joined
<1>3. first \in Changes(ops) /\ first >= start /\ \A k \in Changes(ops) : k >= start => first <= k
  <2>1. Later(ops, start) \in SUBSET Nat
    BY <1>1 DEF Later
  <2>2. first \in Later(ops, start) /\ \A k \in Later(ops, start) : first <= k
    BY <2>1, MinIsLeast DEF First
  <2> QED BY <2>2 DEF Later
<1>4. first \in 1..n
  BY <1>1, <1>3
<1> HIDE DEF gap, first
<1>5. /\ reach \in Changes(ops) /\ reach >= first
      /\ \A m \in Changes(ops) : m > reach => m > reach + gap
  BY <1>2, <1>3, ReachIs
<1>6. reach \in 1..n
  BY <1>1, <1>5
<1>7. hi = IF reach + diffContext <= n THEN reach + diffContext ELSE n
  <2>1. hi = Min({reach + diffContext, n})
    BY DEF Until, first, gap
  <2>2. reach + diffContext \in Int /\ n \in Int
    BY <1>1, <1>2, <1>6
  <2> HIDE DEF reach, n, hi
  <2> QED BY <2>1, <2>2, OfTwo
<1>8. lo = LET x == IF written THEN 1 ELSE start
           IN IF first - diffContext >= x THEN first - diffContext ELSE x
  <2> DEFINE x == IF written THEN 1 ELSE start
  <2>1. lo = Max({first - diffContext, x})
    BY DEF From, first
  <2>2. first - diffContext \in Int /\ x \in Int
    BY <1>1, <1>2, <1>4
  <2> HIDE DEF lo, x
  <2>3. lo = IF first - diffContext >= x THEN first - diffContext ELSE x
    BY <2>1, <2>2, OfTwo
  <2> QED BY <2>3 DEF x
<1> HIDE DEF reach, lo, hi
<1>9. hi \in first..n
  BY <1>1, <1>2, <1>4, <1>5, <1>6, <1>7
<1>10. lo \in 1..first
  <2>1. CASE written
    BY <1>1, <1>2, <1>4, <1>8, <2>1
  <2>2. CASE ~written
    BY <1>1, <1>2, <1>3, <1>4, <1>8, <2>2
  <2> QED BY <2>1, <2>2
<1>11. Quiet(ops, start, lo - 1)
  <2> SUFFICES ASSUME NEW k \in start..lo - 1 PROVE ops[k].kind = "kept"
    BY DEF Quiet
  <2>1. k \in 1..n /\ k >= start /\ ~(first <= k)
    BY <1>1, <1>4, <1>10
  <2>2. k \notin Changes(ops)
    BY <1>3, <2>1
  <2>3. DOMAIN ops = 1..n
    BY LenProperties
  <2> QED BY <2>1, <2>2, <2>3 DEF Changes
<1>12. Free(ops, start, written) => lo >= start
  <2> SUFFICES ASSUME Free(ops, start, written) PROVE lo >= start
    OBVIOUS
  <2>1. CASE ~written
    BY <1>1, <1>2, <1>4, <1>8, <2>1
  <2>2. CASE written /\ start = 1
    BY <1>10, <2>2
  <2>3. CASE written /\ start # 1
    <3>1. first >= start + diffContext
      BY <1>3, <2>3 DEF Free
    <3> QED BY <1>1, <1>2, <1>4, <1>8, <2>3, <3>1
  <2> QED BY <2>1, <2>2, <2>3
<1>13. Free(ops, hi + 1, written)
  <2> SUFFICES ASSUME written, NEW k \in Changes(ops), k >= hi + 1 PROVE k >= (hi + 1) + diffContext
    BY DEF Free
  <2>1. k \in 1..n
    BY <1>1
  <2>2. hi = reach + diffContext
    BY <1>1, <1>2, <1>6, <1>7, <2>1
  <2>3. k > reach
    BY <1>1, <1>2, <1>6, <2>1, <2>2
  <2>4. k > reach + 2 * diffContext
    BY <1>2, <1>5, <2>3
  <2> QED BY <1>1, <1>2, <1>6, <2>1, <2>2, <2>4
<1>14. lo \in 1..n /\ hi \in lo..n /\ hi \in start..n
  BY <1>1, <1>3, <1>4, <1>9, <1>10
<1> QED BY <1>11, <1>12, <1>13, <1>14 DEF lo, hi, n

LEMMA HunksExist ==
  ASSUME NEW X, NEW ops \in Seq(Edits(X)), NEW written \in BOOLEAN
  PROVE  \E f \in [1..Len(ops) + 1 -> Seq(Marks(ops, written))] : IsHunks(f, ops, written)
<1> DEFINE N == Len(ops)
           D == 1..N + 1
           V == Seq(Marks(ops, written))
           Body == [f \in [D -> V] |-> [start \in D |-> NextHunks(f, ops, start, written)]]
           rank == [start \in D |-> N + 1 - start]
<1>1. N \in Nat
  BY LenProperties
<1>2. ASSUME NEW start \in D, Later(ops, start) # {}
      PROVE  /\ Marked(ops, From(ops, start, written), Until(ops, start, written), written) \in Marks(ops, written)
             /\ Until(ops, start, written) + 1 \in D
             /\ rank[Until(ops, start, written) + 1] < rank[start]
  <2>1. /\ From(ops, start, written) \in 1..N
        /\ Until(ops, start, written) \in From(ops, start, written)..N
        /\ Until(ops, start, written) \in start..N
    BY <1>2, HunkBounds
  <2>2. Until(ops, start, written) \in 1..N
    BY <1>1, <2>1
  <2>3. Marked(ops, From(ops, start, written), Until(ops, start, written), written) \in Marks(ops, written)
    BY <2>1, <2>2 DEF Marks
  <2> DEFINE hi == Until(ops, start, written)
  <2>4. hi \in start..N
    BY <2>1
  <2> HIDE DEF hi
  <2>5. hi + 1 \in D /\ rank[hi + 1] < rank[start]
    BY <1>1, <2>4
  <2> QED BY <2>3, <2>5 DEF hi
<1>3. Body \in [[D -> V] -> [D -> V]]
  <2>1. ASSUME NEW f \in [D -> V], NEW start \in D PROVE NextHunks(f, ops, start, written) \in V
    <3>1. CASE Later(ops, start) = {}
      <4>1. NextHunks(f, ops, start, written) = <<>>
        BY <3>1 DEF NextHunks
      <4> QED BY <4>1
    <3>2. CASE Later(ops, start) # {}
      <4> DEFINE next == Until(ops, start, written) + 1
                 mark == Marked(ops, From(ops, start, written), Until(ops, start, written), written)
      <4>1. next \in D /\ mark \in Marks(ops, written)
        BY <1>2, <3>2
      <4>2. NextHunks(f, ops, start, written) = <<mark>> \o f[next]
        BY <3>2 DEF NextHunks
      <4> HIDE DEF next, mark
      <4>3. f[next] \in V /\ <<mark>> \in V
        BY <4>1
      <4> QED BY <4>2, <4>3, ConcatProperties
    <3> QED BY <3>1, <3>2
  <2> QED BY <2>1
<1>4. ASSUME NEW f \in [D -> V], NEW g \in [D -> V], NEW start \in D,
             \A q \in D : rank[q] < rank[start] => f[q] = g[q]
      PROVE  Body[f][start] = Body[g][start]
  <2>1. Later(ops, start) # {} => f[Until(ops, start, written) + 1] = g[Until(ops, start, written) + 1]
    BY <1>2, <1>4
  <2>2. NextHunks(f, ops, start, written) = NextHunks(g, ops, start, written)
    BY <2>1 DEF NextHunks
  <2> QED BY <2>2
<1>5. <<>> \in V /\ rank \in [D -> 0..N]
  BY <1>1
<1>6. Recursive(D, V, rank, Body)
  BY <1>3, <1>4 DEF Recursive
<1> HIDE DEF N, D, V, Body, rank
<1>7. PICK f \in [D -> V] : f = Body[f]
  BY <1>1, <1>5, <1>6, RecursionExists
<1>8. IsHunks(f, ops, written)
  BY <1>7 DEF IsHunks, D, N, Body
<1> QED BY <1>8 DEF D, V, N

(* Hunks that follow one another from start on, with what is between them left as it is. *)
IsWalk(ops, hunks, start, written, st) ==
  /\ st \in [0..Len(hunks) -> 1..Len(ops) + 1]
  /\ st[0] = start
  /\ Quiet(ops, st[Len(hunks)], Len(ops))
  /\ \A k \in 1..Len(hunks) :
       \E lo \in 1..Len(ops), hi \in 1..Len(ops) :
         /\ st[k - 1] <= lo /\ lo <= hi /\ Quiet(ops, st[k - 1], lo - 1)
         /\ hunks[k] = Marked(ops, lo, hi, written)
         /\ st[k] = hi + 1

IsChain(ops, hunks, start, written) == \E st : IsWalk(ops, hunks, start, written, st)

LEMMA ChainEnds ==
  ASSUME NEW X, NEW ops \in Seq(Edits(X)), NEW start \in 1..Len(ops) + 1, NEW written,
         Later(ops, start) = {}
  PROVE  IsChain(ops, <<>>, start, written)
<1> DEFINE st == [k \in 0..Len(<<>>) |-> start]
<1>1. Len(<<>>) = 0 /\ DOMAIN ops = 1..Len(ops) /\ Len(ops) \in Nat
  BY LenProperties
<1>2. Quiet(ops, start, Len(ops))
  <2> SUFFICES ASSUME NEW k \in start..Len(ops) PROVE ops[k].kind = "kept"
    BY DEF Quiet
  <2>1. k \in DOMAIN ops /\ k >= start
    BY <1>1
  <2> QED BY <2>1 DEF Later, Changes
<1>3. st \in [0..Len(<<>>) -> 1..Len(ops) + 1] /\ st[0] = start /\ st[Len(<<>>)] = start
  BY <1>1
<1>4. \A k \in 1..Len(<<>>) : FALSE
  BY <1>1
<1> HIDE DEF st
<1>5. IsWalk(ops, <<>>, start, written, st)
  BY <1>2, <1>3, <1>4 DEF IsWalk
<1> QED BY <1>5 DEF IsChain

LEMMA ChainGrows ==
  ASSUME NEW X, NEW ops \in Seq(Edits(X)), NEW V, NEW rest \in Seq(V), NEW h \in V, NEW written,
         NEW start \in 1..Len(ops) + 1, NEW lo \in 1..Len(ops), NEW hi \in 1..Len(ops),
         start <= lo, lo <= hi, Quiet(ops, start, lo - 1), h = Marked(ops, lo, hi, written),
         IsChain(ops, rest, hi + 1, written)
  PROVE  IsChain(ops, <<h>> \o rest, start, written)
<1> DEFINE n == Len(rest)
           all == <<h>> \o rest
<1>1. n \in Nat /\ Len(ops) \in Nat
  BY LenProperties
<1>2. /\ Len(all) = n + 1 /\ all[1] = h
      /\ \A k \in 1..n : all[k + 1] = rest[k]
  <2> DEFINE one == <<h>>
  <2>0. one \in Seq(V) /\ Len(one) = 1 /\ one[1] = h
    OBVIOUS
  <2> HIDE DEF one
  <2>1. /\ Len(one \o rest) = Len(one) + Len(rest)
        /\ \A i \in 1..Len(one) + Len(rest) :
             (one \o rest)[i] = IF i <= Len(one) THEN one[i] ELSE rest[i - Len(one)]
    BY <2>0, ConcatProperties
  <2>2. \A k \in 1..n : k + 1 \in 1..1 + n /\ ~(k + 1 <= 1) /\ (k + 1) - 1 = k
    BY <1>1
  <2>3. 1 \in 1..1 + n
    BY <1>1
  <2>4. \A k \in 1..n : (one \o rest)[k + 1] = rest[k]
    BY <2>0, <2>1, <2>2
  <2>5. (one \o rest)[1] = h
    BY <2>0, <2>1, <2>3
  <2> QED BY <1>1, <2>0, <2>1, <2>4, <2>5 DEF one
<1>3. PICK sr : IsWalk(ops, rest, hi + 1, written, sr)
  BY DEF IsChain
<1>4. /\ sr \in [0..n -> 1..Len(ops) + 1] /\ sr[0] = hi + 1 /\ Quiet(ops, sr[n], Len(ops))
      /\ \A k \in 1..n :
           \E l \in 1..Len(ops), u \in 1..Len(ops) :
             /\ sr[k - 1] <= l /\ l <= u /\ Quiet(ops, sr[k - 1], l - 1)
             /\ rest[k] = Marked(ops, l, u, written)
             /\ sr[k] = u + 1
  BY <1>3 DEF IsWalk
<1> HIDE DEF all, n
<1> DEFINE st == [k \in 0..Len(all) |-> IF k = 0 THEN start ELSE sr[k - 1]]
<1>5. st[0] = start /\ \A k \in 1..Len(all) : st[k] = sr[k - 1]
  BY <1>1, <1>2
<1>6. \A k \in 1..Len(all) : k - 1 \in 0..n
  <2>1. \A k \in 1..n + 1 : k - 1 \in 0..n
    BY <1>1
  <2> QED BY <1>2, <2>1
<1>7. st \in [0..Len(all) -> 1..Len(ops) + 1]
  <2> SUFFICES ASSUME NEW k \in 0..Len(all) PROVE (IF k = 0 THEN start ELSE sr[k - 1]) \in 1..Len(ops) + 1
    OBVIOUS
  <2>1. k # 0 => k \in 1..Len(all)
    BY <1>1, <1>2
  <2>2. k # 0 => sr[k - 1] \in 1..Len(ops) + 1
    BY <1>4, <1>6, <2>1
  <2> QED BY <2>2
<1> HIDE DEF st
<1>8. st[Len(all)] = sr[n]
  <2>1. Len(all) \in 1..Len(all) /\ Len(all) - 1 = n
    BY <1>1, <1>2
  <2> QED BY <1>5, <2>1
<1>9. ASSUME NEW k \in 1..Len(all)
      PROVE  \E l \in 1..Len(ops), u \in 1..Len(ops) :
               /\ st[k - 1] <= l /\ l <= u /\ Quiet(ops, st[k - 1], l - 1)
               /\ all[k] = Marked(ops, l, u, written)
               /\ st[k] = u + 1
  <2>1. CASE k = 1
    <3>1. st[k - 1] = start /\ st[k] = hi + 1
      BY <1>4, <1>5, <2>1
    <3> QED BY <1>2, <2>1, <3>1
  <2>2. CASE k # 1
    <3>1. k - 1 \in 1..n /\ (k - 1) + 1 = k /\ k - 1 \in 1..Len(all)
      BY <1>1, <1>2, <2>2
    <3>2. st[k - 1] = sr[(k - 1) - 1] /\ st[k] = sr[k - 1]
      BY <1>5, <3>1
    <3>3. all[k] = rest[k - 1]
      BY <1>2, <3>1
    <3> QED BY <1>4, <3>1, <3>2, <3>3
  <2> QED BY <2>1, <2>2
<1>10. IsWalk(ops, all, start, written, st)
  BY <1>4, <1>5, <1>7, <1>8, <1>9 DEF IsWalk
<1>11. IsChain(ops, all, start, written)
  BY <1>10 DEF IsChain
<1> QED BY <1>11 DEF all

\* The hunks from a place on.
Chained(f, ops, start, written) ==
  /\ f[start] \in Seq(Marks(ops, written))
  /\ Free(ops, start, written) => IsChain(ops, f[start], start, written)

LEMMA HunksChain ==
  ASSUME NEW X, NEW ops \in Seq(Edits(X)), NEW written \in BOOLEAN,
         NEW f, IsHunks(f, ops, written)
  PROVE  \A start \in 1..Len(ops) + 1 : Chained(f, ops, start, written)
<1> DEFINE N == Len(ops) + 1
           S == {m \in Nat : \A start \in 1..N : N - start <= m => Chained(f, ops, start, written)}
<1>1. N \in Nat /\ Len(ops) \in Nat
  BY LenProperties
<1>2. ASSUME NEW start \in 1..N,
             \A next \in 1..N : next > start => Chained(f, ops, next, written)
      PROVE  Chained(f, ops, start, written)
  <2>0. f[start] = NextHunks(f, ops, start, written)
    BY DEF IsHunks
  <2>1. CASE Later(ops, start) = {}
    <3>1. f[start] = <<>>
      BY <2>0, <2>1 DEF NextHunks
    <3>2. IsChain(ops, <<>>, start, written)
      BY <2>1, ChainEnds
    <3> QED BY <3>1, <3>2 DEF Chained
  <2>2. CASE Later(ops, start) # {}
    <3> DEFINE lo == From(ops, start, written)
               hi == Until(ops, start, written)
               h == Marked(ops, lo, hi, written)
    <3>1. /\ lo \in 1..Len(ops) /\ hi \in lo..Len(ops) /\ hi \in start..Len(ops)
          /\ Quiet(ops, start, lo - 1) /\ (Free(ops, start, written) => lo >= start) /\ Free(ops, hi + 1, written)
      BY <2>2, HunkBounds
    <3>2. f[start] = <<h>> \o f[hi + 1]
      BY <2>0, <2>2 DEF NextHunks
    <3>3. h = Marked(ops, lo, hi, written)
      OBVIOUS
    <3> HIDE DEF lo, hi, h
    <3>4. hi \in 1..Len(ops) /\ lo <= hi /\ hi + 1 \in 1..N /\ hi + 1 > start
      BY <1>1, <3>1
    <3>5. h \in Marks(ops, written)
      BY <3>1, <3>3, <3>4 DEF Marks
    <3>6. f[hi + 1] \in Seq(Marks(ops, written)) /\ IsChain(ops, f[hi + 1], hi + 1, written)
      BY <1>2, <3>1, <3>4 DEF Chained
    <3>7. <<h>> \o f[hi + 1] \in Seq(Marks(ops, written))
      <4>1. <<h>> \in Seq(Marks(ops, written))
        BY <3>5
      <4> QED BY <3>6, <4>1, ConcatProperties
    <3>8. ASSUME Free(ops, start, written) PROVE IsChain(ops, <<h>> \o f[hi + 1], start, written)
      <4>1. start <= lo
        BY <1>1, <3>1, <3>8
      <4> QED BY <3>1, <3>3, <3>4, <3>5, <3>6, <4>1, ChainGrows
    <3> QED BY <3>2, <3>7, <3>8 DEF Chained
  <2> QED BY <2>1, <2>2
<1>3. 0 \in S
  <2> SUFFICES ASSUME NEW start \in 1..N, N - start <= 0 PROVE Chained(f, ops, start, written)
    OBVIOUS
  <2>1. \A next \in 1..N : ~(next > start)
    BY <1>1
  <2> QED BY <1>2, <2>1
<1>4. ASSUME NEW m \in 0..N - 1, m \in S PROVE m + 1 \in S
  <2> SUFFICES ASSUME NEW start \in 1..N, N - start <= m + 1 PROVE Chained(f, ops, start, written)
    BY <1>1
  <2>1. \A next \in 1..N : next > start => N - next <= m
    BY <1>1
  <2>2. \A next \in 1..N : next > start => Chained(f, ops, next, written)
    BY <1>4, <2>1
  <2> QED BY <1>2, <2>2
<1>5. \A m \in 0..N : m \in S
  <2> HIDE DEF S, N
  <2> QED BY <1>1, <1>3, <1>4, UpTo
<1>6. ASSUME NEW start \in 1..N PROVE Chained(f, ops, start, written)
  <2>1. N - start <= N /\ N \in 0..N
    BY <1>1
  <2>2. N \in S
    BY <1>5, <2>1
  <2> QED BY <2>1, <2>2
<1> QED BY <1>6

-----------------------------------------------------------------------------
(* What such hunks make of a text. *)

\* The text before a place.
OldTo(ops, k) == OldLines(SubSeq(ops, 1, k))
NewTo(ops, k) == NewLines(SubSeq(ops, 1, k))

(* The lines of one text up to k, from there to m and after m. *)
InThree(X, ops, kind, k, m) ==
  /\ LinesBut(SubSeq(ops, 1, k), kind) \in Seq(X)
  /\ LinesBut(SubSeq(ops, k + 1, m), kind) \in Seq(X)
  /\ LinesBut(SubSeq(ops, m + 1, Len(ops)), kind) \in Seq(X)
  /\ LinesBut(SubSeq(ops, 1, m), kind)
       = LinesBut(SubSeq(ops, 1, k), kind) \o LinesBut(SubSeq(ops, k + 1, m), kind)
  /\ LinesBut(ops, kind)
       = LinesBut(SubSeq(ops, 1, m), kind) \o LinesBut(SubSeq(ops, m + 1, Len(ops)), kind)

LEMMA ThreeParts ==
  ASSUME NEW X, NEW ops \in Seq(Edits(X)), NEW kind, NEW k \in 0..Len(ops), NEW m \in k..Len(ops)
  PROVE  InThree(X, ops, kind, k, m)
<1> DEFINE n == Len(ops)
<1>1. n \in Nat
  BY LenProperties
<1>2. /\ 1 \in 1..n + 1 /\ k \in 1 - 1..n /\ m \in 1 - 1..n
      /\ k + 1 \in 1..n + 1 /\ m \in (k + 1) - 1..n
      /\ m + 1 \in 1..n + 1 /\ n \in (m + 1) - 1..n /\ n \in m..n
  BY <1>1
<1>3. SubSeq(ops, 1, k) \in Seq(Edits(X))
  BY <1>2, PartType
<1>4. SubSeq(ops, k + 1, m) \in Seq(Edits(X))
  BY <1>2, PartType
<1>5. SubSeq(ops, m + 1, n) \in Seq(Edits(X))
  BY <1>2, PartType
<1>6. LinesBut(SubSeq(ops, 1, m), kind)
        = LinesBut(SubSeq(ops, 1, k), kind) \o LinesBut(SubSeq(ops, k + 1, m), kind)
  BY <1>2, LinesOfParts
<1>7. LinesBut(SubSeq(ops, 1, n), kind)
        = LinesBut(SubSeq(ops, 1, m), kind) \o LinesBut(SubSeq(ops, m + 1, n), kind)
  BY <1>2, LinesOfParts
<1>8. SubSeq(ops, 1, n) = ops
  BY SubSeqFull
<1> QED BY <1>3, <1>4, <1>5, <1>6, <1>7, <1>8, LinesType DEF InThree

LEMMA NewGrows ==
  ASSUME NEW X, NEW ops \in Seq(Edits(X)), NEW k \in 0..Len(ops), NEW m \in k..Len(ops)
  PROVE  NewTo(ops, m) = NewTo(ops, k) \o NewLines(SubSeq(ops, k + 1, m))
<1>1. PICK kind : kind = "removed"
  OBVIOUS
<1>2. InThree(X, ops, kind, k, m)
  BY ThreeParts
<1> QED BY <1>1, <1>2 DEF InThree, NewTo, NewLines

(* The lines of a text that the operations between two places are about. *)
Stands(ops, kind, k, m) ==
  LET upto == LinesBut(SubSeq(ops, 1, k), kind)
      mid == LinesBut(SubSeq(ops, k + 1, m), kind)
  IN /\ SubSeq(LinesBut(ops, kind), 1 + Len(upto), Len(LinesBut(SubSeq(ops, 1, m), kind))) = mid
     /\ Len(LinesBut(SubSeq(ops, 1, m), kind)) = Len(upto) + Len(mid)
     /\ Len(upto) \in Nat /\ Len(mid) \in Nat

LEMMA Between ==
  ASSUME NEW X, NEW ops \in Seq(Edits(X)), NEW kind, NEW k \in 0..Len(ops), NEW m \in k..Len(ops)
  PROVE  Stands(ops, kind, k, m)
<1> DEFINE upto == LinesBut(SubSeq(ops, 1, k), kind)
           mid == LinesBut(SubSeq(ops, k + 1, m), kind)
           rest == LinesBut(SubSeq(ops, m + 1, Len(ops)), kind)
           whole == LinesBut(ops, kind)
           both == LinesBut(SubSeq(ops, 1, m), kind)
<1>1. /\ upto \in Seq(X)
      /\ mid \in Seq(X)
      /\ rest \in Seq(X)
      /\ both = upto \o mid
      /\ whole = both \o rest
  <2>1. InThree(X, ops, kind, k, m)
    BY ThreeParts
  <2> QED BY <2>1 DEF InThree
<1> HIDE DEF upto, mid, rest, whole, both
<1>2. Len(upto) \in Nat /\ Len(mid) \in Nat /\ Len(both) = Len(upto) + Len(mid)
  BY <1>1, LenProperties, ConcatProperties
<1>3. SubSeq(whole, Len(upto) + 1, Len(upto) + Len(mid)) = mid
  BY <1>1, MiddleOf
<1>4. Len(upto) + 1 = 1 + Len(upto)
  BY <1>2
<1>5. SubSeq(whole, 1 + Len(upto), Len(both)) = mid
  BY <1>2, <1>3, <1>4
<1> QED BY <1>2, <1>5 DEF Stands, upto, mid, whole, both

\* A hunk of the operations from q + 1 to r.
HunkAt(ops, h, q, r) ==
  /\ h.old = 1 + Len(OldTo(ops, q)) /\ h.new = 1 + Len(NewTo(ops, q)) /\ h.ops = SubSeq(ops, q + 1, r)

LEMMA WalkStep ==
  ASSUME NEW X, NEW ops \in Seq(Edits(X)), NEW hunks, NEW start, NEW st,
         IsWalk(ops, hunks, start, FALSE, st), NEW k \in 1..Len(hunks), st[k - 1] \in 1..Len(ops) + 1
  PROVE  \E q \in 0..Len(ops), r \in 0..Len(ops) :
           /\ st[k - 1] - 1 <= q /\ q < r /\ st[k] = r + 1
           /\ HunkAt(ops, hunks[k], q, r) /\ Quiet(ops, st[k - 1], q)
<1>1. PICK lo \in 1..Len(ops), hi \in 1..Len(ops) :
        /\ st[k - 1] <= lo /\ lo <= hi /\ Quiet(ops, st[k - 1], lo - 1)
        /\ hunks[k] = Marked(ops, lo, hi, FALSE)
        /\ st[k] = hi + 1
  BY DEF IsWalk
<1>2. Len(ops) \in Nat
  BY LenProperties
<1>3. hunks[k] = Hunk(ops, lo, hi)
  BY <1>1 DEF Marked
<1>4. /\ (lo - 1) + 1 = lo /\ lo - 1 \in 0..Len(ops) /\ hi \in 0..Len(ops)
      /\ st[k - 1] - 1 <= lo - 1 /\ lo - 1 < hi
  <2>1. PICK at \in 1..Len(ops) + 1 : at = st[k - 1]
    OBVIOUS
  <2>2. at <= lo /\ lo <= hi
    BY <1>1, <2>1
  <2>3. at - 1 <= lo - 1 /\ lo - 1 < hi
    BY <1>2, <2>2
  <2>4. (lo - 1) + 1 = lo /\ lo - 1 \in 0..Len(ops) /\ hi \in 0..Len(ops)
    BY <1>2
  <2> QED BY <2>1, <2>3, <2>4
<1>5. HunkAt(ops, hunks[k], lo - 1, hi)
  BY <1>3, <1>4 DEF HunkAt, Hunk, OldTo, NewTo
<1> QED BY <1>1, <1>4, <1>5

\* After k hunks p operations are done.
Reached(ops, hunks, k, p) == After(hunks, k) = 1 + Len(OldTo(ops, p))

LEMMA WalkReaches ==
  ASSUME NEW X, NEW ops \in Seq(Edits(X)), NEW V, NEW hunks \in Seq(V), NEW st,
         IsWalk(ops, hunks, 1, FALSE, st), NEW k \in 0..Len(hunks)
  PROVE  st[k] \in 1..Len(ops) + 1 /\ Reached(ops, hunks, k, st[k] - 1)
<1>1. Len(hunks) \in Nat /\ Len(ops) \in Nat
  BY LenProperties
<1>2. st \in [0..Len(hunks) -> 1..Len(ops) + 1] /\ st[0] = 1
  BY DEF IsWalk
<1>3. CASE k = 0
  <2>1. After(hunks, k) = 1
    BY <1>3 DEF After
  <2>2. OldTo(ops, 1 - 1) = <<>>
    <3>1. SubSeq(ops, 1, 0) = <<>>
      BY SubSeqEmpty
    <3>2. LinesBut(<<>>, "added") = <<>>
      BY LinesOfNone
    <3>3. 1 - 1 = 0
      OBVIOUS
    <3>4. OldTo(ops, 0) = <<>>
      BY <3>1, <3>2 DEF OldTo, OldLines
    <3> QED BY <3>3, <3>4
  <2>3. st[k] = 1 /\ 1 = 1 + Len(<<>>)
    BY <1>2, <1>3
  <2> QED BY <1>1, <1>2, <2>1, <2>2, <2>3 DEF Reached
<1>4. CASE k # 0
  <2>1. k \in 1..Len(hunks) /\ k - 1 \in 0..Len(hunks)
    BY <1>1, <1>4
  <2>2. st[k - 1] \in 1..Len(ops) + 1 /\ st[k] \in 1..Len(ops) + 1
    BY <1>2, <2>1
  <2>3. PICK q \in 0..Len(ops), r \in 0..Len(ops) :
          /\ st[k - 1] - 1 <= q /\ q < r /\ st[k] = r + 1
          /\ HunkAt(ops, hunks[k], q, r) /\ Quiet(ops, st[k - 1], q)
    BY <2>1, <2>2, WalkStep
  <2>4. After(hunks, k) = (1 + Len(OldTo(ops, q))) + Len(OldLines(SubSeq(ops, q + 1, r)))
    BY <1>4, <2>3 DEF After, HunkAt
  <2>5. r \in q..Len(ops)
    BY <1>1, <2>3
  <2>6. /\ Len(OldTo(ops, r)) = Len(OldTo(ops, q)) + Len(OldLines(SubSeq(ops, q + 1, r)))
        /\ Len(OldTo(ops, q)) \in Nat /\ Len(OldLines(SubSeq(ops, q + 1, r))) \in Nat
    BY <2>5, Between DEF Stands, OldTo, OldLines
  <2>7. After(hunks, k) = 1 + Len(OldTo(ops, r))
    BY <2>4, <2>6
  <2>8. st[k] - 1 = r
    BY <2>3
  <2> QED BY <2>2, <2>7, <2>8 DEF Reached
<1> QED BY <1>3, <1>4

IsText(text, a, hunks) ==
  text = [k \in 0..Len(hunks) |->
            IF k = 0 THEN <<>>
            ELSE text[k - 1] \o SubSeq(a, After(hunks, k - 1), hunks[k].old - 1) \o NewLines(hunks[k].ops)]

\* What a hunk adds to the text so far.
LEMMA WalkText ==
  ASSUME NEW X, NEW ops \in Seq(Edits(X)), NEW V, NEW hunks \in Seq(V), NEW st,
         IsWalk(ops, hunks, 1, FALSE, st), NEW k \in 1..Len(hunks)
  PROVE  NewTo(ops, st[k] - 1)
           = NewTo(ops, st[k - 1] - 1)
               \o SubSeq(OldLines(ops), After(hunks, k - 1), hunks[k].old - 1) \o NewLines(hunks[k].ops)
<1>1. Len(hunks) \in Nat /\ Len(ops) \in Nat
  BY LenProperties
<1>2. k - 1 \in 0..Len(hunks)
  BY <1>1
<1>3. st[k - 1] \in 1..Len(ops) + 1 /\ Reached(ops, hunks, k - 1, st[k - 1] - 1)
  BY <1>2, WalkReaches
<1>4. PICK at \in 1..Len(ops) + 1 : at = st[k - 1]
  BY <1>3
<1> DEFINE p == at - 1
<1>5. PICK q \in 0..Len(ops), r \in 0..Len(ops) :
        /\ p <= q /\ q < r /\ st[k] = r + 1
        /\ HunkAt(ops, hunks[k], q, r) /\ Quiet(ops, at, q)
  BY <1>3, <1>4, WalkStep
<1>6. /\ at = p + 1 /\ p \in 0..Len(ops) /\ q \in p..Len(ops) /\ r \in q..Len(ops)
       /\ (r + 1) - 1 = r
  BY <1>1, <1>5
<1>7. st[k] - 1 = r /\ st[k - 1] - 1 = p
  BY <1>4, <1>5, <1>6
<1> HIDE DEF p
<1>8. hunks[k].old - 1 = Len(OldTo(ops, q)) /\ hunks[k].ops = SubSeq(ops, q + 1, r)
  <2>1. Len(OldTo(ops, q)) \in Nat
    BY <1>6, Between DEF Stands, OldTo, OldLines
  <2> QED BY <1>5, <2>1 DEF HunkAt
<1>9. After(hunks, k - 1) = 1 + Len(OldTo(ops, p))
  BY <1>3, <1>7 DEF Reached
<1>10. SubSeq(OldLines(ops), 1 + Len(OldTo(ops, p)), Len(OldTo(ops, q))) = OldLines(SubSeq(ops, p + 1, q))
  BY <1>6, Between DEF Stands, OldTo, OldLines
<1>11. OldLines(SubSeq(ops, p + 1, q)) = NewLines(SubSeq(ops, p + 1, q))
  <2>1. p + 1 \in 1..Len(ops) + 1 /\ q \in (p + 1) - 1..Len(ops) /\ Quiet(ops, p + 1, q)
    BY <1>1, <1>5, <1>6
  <2> QED BY <2>1, QuietLines
<1>12. NewTo(ops, q) = NewTo(ops, p) \o NewLines(SubSeq(ops, p + 1, q))
  BY <1>6, NewGrows
<1>13. NewTo(ops, r) = NewTo(ops, q) \o NewLines(SubSeq(ops, q + 1, r))
  BY <1>6, NewGrows
<1> QED BY <1>7, <1>8, <1>9, <1>10, <1>11, <1>12, <1>13

\* The text after k hunks, of the text before the last of them.
GrownBy(text, a, hunks, k) ==
  text[k] = text[k - 1] \o SubSeq(a, After(hunks, k - 1), hunks[k].old - 1) \o NewLines(hunks[k].ops)

LEMMA TextStep ==
  ASSUME NEW text, NEW a, NEW hunks, IsText(text, a, hunks), NEW k \in 0..Len(hunks)
  PROVE  IF k = 0 THEN text[k] = <<>> ELSE GrownBy(text, a, hunks, k)
BY DEF IsText, GrownBy

LEMMA WalkTextExists ==
  ASSUME NEW X, NEW ops \in Seq(Edits(X)), NEW V, NEW hunks \in Seq(V), NEW st,
         IsWalk(ops, hunks, 1, FALSE, st)
  PROVE  \E text : IsText(text, OldLines(ops), hunks)
<1> DEFINE a == OldLines(ops)
           n == Len(hunks)
           New(k) == NewTo(ops, st[k] - 1)
           Adds(k) == SubSeq(a, After(hunks, k - 1), hunks[k].old - 1)
           lines(k) == NewLines(hunks[k].ops)
<1>1. n \in Nat /\ 0 \in 0..n
  BY LenProperties
<1>2. New(0) = <<>>
  <2>1. st[0] = 1
    BY DEF IsWalk
  <2>2. SubSeq(ops, 1, 0) = <<>>
    BY SubSeqEmpty
  <2>3. LinesBut(<<>>, "removed") = <<>>
    BY LinesOfNone
  <2>4. NewTo(ops, 0) = <<>>
    BY <2>2, <2>3 DEF NewTo, NewLines
  <2>5. st[0] - 1 = 0
    BY <2>1
  <2> QED BY <2>4, <2>5
<1>3. ASSUME NEW k \in 1..n PROVE New(k) = New(k - 1) \o Adds(k) \o lines(k)
  BY WalkText
<1> HIDE DEF a, New, Adds, lines
<1>4. \E text : IsText(text, a, hunks)
  <2> DEFINE text == [k \in 0..n |-> New(k)]
  <2>1. ASSUME NEW k \in 0..n
        PROVE  New(k) = IF k = 0 THEN <<>> ELSE text[k - 1] \o Adds(k) \o lines(k)
    <3>1. k # 0 => k \in 1..n /\ k - 1 \in 0..n
      BY <1>1
    <3>2. k # 0 => text[k - 1] = New(k - 1)
      BY <3>1
    <3> HIDE DEF text
    <3> QED BY <1>2, <1>3, <3>1, <3>2
  <2>2. text = [k \in 0..n |-> IF k = 0 THEN <<>> ELSE text[k - 1] \o Adds(k) \o lines(k)]
    BY <2>1
  <2> HIDE DEF text
  <2>3. IsText(text, a, hunks)
    BY <2>2, Zenon DEF IsText, Adds, lines, n
  <2> QED BY <2>3
<1> QED BY <1>4 DEF a

TextAt(text, ops, st, m) == text[m] = NewTo(ops, st[m] - 1)

LEMMA WalkTextIs ==
  ASSUME NEW X, NEW ops \in Seq(Edits(X)), NEW V, NEW hunks \in Seq(V), NEW st,
         IsWalk(ops, hunks, 1, FALSE, st),
         NEW text, IsText(text, OldLines(ops), hunks), NEW m \in 0..Len(hunks)
  PROVE  TextAt(text, ops, st, m)
<1> DEFINE a == OldLines(ops)
           n == Len(hunks)
           New(k) == NewTo(ops, st[k] - 1)
           Adds(k) == SubSeq(a, After(hunks, k - 1), hunks[k].old - 1)
           lines(k) == NewLines(hunks[k].ops)
<1>1. n \in Nat /\ 0 \in 0..n
  BY LenProperties
<1>2. New(0) = <<>>
  <2>1. st[0] = 1
    BY DEF IsWalk
  <2>2. SubSeq(ops, 1, 0) = <<>>
    BY SubSeqEmpty
  <2>3. LinesBut(<<>>, "removed") = <<>>
    BY LinesOfNone
  <2>4. NewTo(ops, 0) = <<>>
    BY <2>2, <2>3 DEF NewTo, NewLines
  <2>5. st[0] - 1 = 0
    BY <2>1
  <2> QED BY <2>4, <2>5
<1>3. ASSUME NEW k \in 1..n PROVE New(k) = New(k - 1) \o Adds(k) \o lines(k)
  BY WalkText
<1> HIDE DEF a, New, Adds, lines
<1>4. IsText(text, a, hunks)
  BY DEF a
<1> DEFINE S == {k \in Nat : text[k] = New(k)}
<1>5. 0 \in S
  BY <1>1, <1>2, <1>4, TextStep
<1>6. ASSUME NEW k \in 0..n - 1, k \in S PROVE k + 1 \in S
  <2>1. k + 1 \in 0..n /\ k + 1 # 0 /\ (k + 1) - 1 = k /\ k + 1 \in 1..n /\ k + 1 \in Nat
    BY <1>1
  <2>2. text[k + 1] = text[k] \o Adds(k + 1) \o lines(k + 1)
    <3>1. PICK i \in 0..n : i = k + 1
      BY <2>1
    <3>2. i # 0
      BY <2>1, <3>1
    <3>3. i - 1 = k
      BY <2>1, <3>1
    <3>4. text[i] = text[i - 1] \o SubSeq(a, After(hunks, i - 1), hunks[i].old - 1) \o NewLines(hunks[i].ops)
      <4>1. GrownBy(text, a, hunks, i)
        BY <1>4, <3>2, TextStep
      <4> QED BY <4>1 DEF GrownBy
    <3>5. text[i] = text[i - 1] \o Adds(i) \o lines(i)
      BY <3>4 DEF Adds, lines
    <3> QED BY <3>1, <3>3, <3>5
  <2>3. New(k + 1) = New(k) \o Adds(k + 1) \o lines(k + 1)
    BY <1>3, <2>1
  <2> QED BY <1>6, <2>1, <2>2, <2>3
<1>7. \A k \in 0..n : k \in S
  <2> HIDE DEF S, n
  <2> QED BY <1>1, <1>5, <1>6, UpTo
<1>8. text[m] = New(m)
  BY <1>7
<1> QED BY <1>8 DEF New, TextAt

(* Hunks that follow one another make the one text of the other. *)
LEMMA WalkPatches ==
  ASSUME NEW X, NEW ops \in Seq(Edits(X)), NEW V, NEW hunks \in Seq(V), NEW st,
         IsWalk(ops, hunks, 1, FALSE, st)
  PROVE  Patched(OldLines(ops), hunks) = NewLines(ops)
<1> DEFINE a == OldLines(ops)
           text == CHOOSE text : IsText(text, a, hunks)
           n == Len(hunks)
           p == st[n] - 1
<1>1. n \in Nat /\ Len(ops) \in Nat /\ n \in 0..Len(hunks)
  BY LenProperties
<1>2. IsText(text, a, hunks)
  <2>1. \E t : IsText(t, a, hunks)
    BY WalkTextExists
  <2> QED BY <2>1, Zenon
<1>3. Patched(a, hunks) = text[n] \o SubSeq(a, After(hunks, n), Len(a))
  BY DEF Patched, IsText
<1> HIDE DEF text
<1>4. text[n] = NewTo(ops, p)
  <2>1. TextAt(text, ops, st, n)
    BY <1>1, <1>2, WalkTextIs
  <2> QED BY <2>1 DEF TextAt
<1>5. st[n] \in 1..Len(ops) + 1 /\ Reached(ops, hunks, n, p)
  BY <1>1, WalkReaches
<1>6. PICK at \in 1..Len(ops) + 1 : at = st[n]
  BY <1>5
<1>7. p = at - 1 /\ at - 1 \in 0..Len(ops) /\ Len(ops) \in at - 1..Len(ops) /\ (at - 1) + 1 = at
  BY <1>1, <1>6
<1>8. p \in 0..Len(ops) /\ Len(ops) \in p..Len(ops) /\ p + 1 = at
  BY <1>7
<1> HIDE DEF p
<1>9. SubSeq(ops, 1, Len(ops)) = ops
  BY SubSeqFull
<1>10. SubSeq(a, After(hunks, n), Len(a)) = OldLines(SubSeq(ops, p + 1, Len(ops)))
  <2>1. After(hunks, n) = 1 + Len(OldTo(ops, p))
    BY <1>5 DEF Reached
  <2>2. SubSeq(OldLines(ops), 1 + Len(OldTo(ops, p)), Len(OldLines(SubSeq(ops, 1, Len(ops)))))
          = OldLines(SubSeq(ops, p + 1, Len(ops)))
    BY <1>8, Between DEF Stands, OldTo, OldLines
  <2> QED BY <1>9, <2>1, <2>2
<1>11. OldLines(SubSeq(ops, p + 1, Len(ops))) = NewLines(SubSeq(ops, p + 1, Len(ops)))
  <2>1. p + 1 \in 1..Len(ops) + 1 /\ Len(ops) \in (p + 1) - 1..Len(ops)
    BY <1>1, <1>8
  <2>2. Quiet(ops, st[n], Len(ops))
    BY DEF IsWalk
  <2>3. Quiet(ops, p + 1, Len(ops))
    BY <1>6, <1>8, <2>2
  <2> QED BY <2>1, <2>3, QuietLines
<1>12. NewTo(ops, Len(ops)) = NewTo(ops, p) \o NewLines(SubSeq(ops, p + 1, Len(ops)))
  BY <1>8, NewGrows
<1>13. NewTo(ops, Len(ops)) = NewLines(ops)
  BY <1>9 DEF NewTo
<1> QED BY <1>3, <1>4, <1>10, <1>11, <1>12, <1>13

(* ... and each of them stands where it says it does. *)
LEMMA WalkInPlace ==
  ASSUME NEW X, NEW ops \in Seq(Edits(X)), NEW V, NEW hunks \in Seq(V), NEW st,
         IsWalk(ops, hunks, 1, FALSE, st)
  PROVE  InPlace(OldLines(ops), NewLines(ops), hunks)
<1>1. DOMAIN hunks = 1..Len(hunks) /\ Len(hunks) \in Nat /\ Len(ops) \in Nat
  BY LenProperties
<1>2. ASSUME NEW k \in 1..Len(hunks)
      PROVE  LET h == hunks[k]
                 old == OldLines(h.ops)
                 new == NewLines(h.ops)
             IN /\ SubSeq(OldLines(ops), h.old, h.old + Len(old) - 1) = old
                /\ SubSeq(NewLines(ops), h.new, h.new + Len(new) - 1) = new
                /\ h.old >= After(hunks, k - 1)
  <2>1. k - 1 \in 0..Len(hunks)
    BY <1>1
  <2>2. st[k - 1] \in 1..Len(ops) + 1 /\ Reached(ops, hunks, k - 1, st[k - 1] - 1)
    BY <2>1, WalkReaches
  <2>4. PICK at \in 1..Len(ops) + 1 : at = st[k - 1]
    BY <2>2
  <2>3. PICK q \in 0..Len(ops), r \in 0..Len(ops) : at - 1 <= q /\ q < r /\ HunkAt(ops, hunks[k], q, r)
    BY <2>2, <2>4, WalkStep
  <2>5. at - 1 \in 0..Len(ops) /\ q \in at - 1..Len(ops) /\ r \in q..Len(ops)
    BY <1>1, <2>3
  <2> DEFINE old == OldLines(SubSeq(ops, q + 1, r))
             new == NewLines(SubSeq(ops, q + 1, r))
             x == Len(OldTo(ops, q))
             y == Len(NewTo(ops, q))
             h == hunks[k]
  <2>6. h.old = 1 + x /\ h.new = 1 + y /\ OldLines(h.ops) = old /\ NewLines(h.ops) = new
    BY <2>3 DEF HunkAt
  <2>7. /\ SubSeq(OldLines(ops), 1 + x, Len(OldTo(ops, r))) = old
        /\ Len(OldTo(ops, r)) = x + Len(old) /\ x \in Nat /\ Len(old) \in Nat
    <3>1. Stands(ops, "added", q, r)
      BY <2>5, Between
    <3> QED BY <3>1 DEF Stands, OldTo, OldLines
  <2>8. /\ SubSeq(NewLines(ops), 1 + y, Len(NewTo(ops, r))) = new
        /\ Len(NewTo(ops, r)) = y + Len(new) /\ y \in Nat /\ Len(new) \in Nat
    <3>1. Stands(ops, "removed", q, r)
      BY <2>5, Between
    <3> QED BY <3>1 DEF Stands, NewTo, NewLines
  <2>9. x = Len(OldTo(ops, at - 1)) + Len(OldLines(SubSeq(ops, (at - 1) + 1, q)))
        /\ Len(OldTo(ops, at - 1)) \in Nat /\ Len(OldLines(SubSeq(ops, (at - 1) + 1, q))) \in Nat
    <3>1. Stands(ops, "added", at - 1, q)
      BY <2>5, Between
    <3> QED BY <3>1 DEF Stands, OldTo, OldLines
  <2>10. After(hunks, k - 1) = 1 + Len(OldTo(ops, at - 1))
    BY <2>2, <2>4 DEF Reached
  <2> HIDE DEF old, new, x, y, h
  <2>11. (1 + x) + Len(old) - 1 = x + Len(old) /\ (1 + y) + Len(new) - 1 = y + Len(new)
    BY <2>7, <2>8
  <2>12. 1 + x >= After(hunks, k - 1)
    BY <2>7, <2>9, <2>10
  <2>13. /\ SubSeq(OldLines(ops), h.old, h.old + Len(old) - 1) = old
         /\ SubSeq(NewLines(ops), h.new, h.new + Len(new) - 1) = new
         /\ h.old >= After(hunks, k - 1)
    BY <2>6, <2>7, <2>8, <2>11, <2>12
  <2> QED BY <2>6, <2>13 DEF h
<1> QED BY <1>1, <1>2 DEF InPlace

LEMMA UnifiedIs ==
  ASSUME NEW X, NEW ops \in Seq(Edits(X))
  PROVE  \E f : IsHunks(f, ops, FALSE) /\ unified(ops) = f[1]
<1> DEFINE Body(f) == [start \in 1..Len(ops) + 1 |->
                        LET later == {k \in Changes(ops) : k >= start}
                            hi == Min({Reach(ops, Min(later), 2 * diffContext + 1) + diffContext, Len(ops)})
                        IN IF later = {} THEN <<>>
                           ELSE <<Hunk(ops, Max({Min(later) - diffContext, start}), hi)>> \o f[hi + 1]]
           g == CHOOSE f : f = Body(f)
<1>1. unified(ops) = g[1]
  BY DEF unified
<1>2. ASSUME NEW f PROVE [start \in 1..Len(ops) + 1 |-> NextHunks(f, ops, start, FALSE)] = Body(f)
  BY DEF NextHunks, Later, First, Gap, From, Until, Marked
<1> HIDE DEF Body
<1>3. PICK f : IsHunks(f, ops, FALSE)
  BY HunksExist
<1>4. f = Body(f)
  BY <1>2, <1>3 DEF IsHunks
<1>5. g = Body(g)
  BY <1>4, Zenon
<1> HIDE DEF g
<1>6. IsHunks(g, ops, FALSE)
  BY <1>2, <1>5 DEF IsHunks
<1> QED BY <1>1, <1>6

(***************************************************************************)
(* The hunks of a script's diff (unified of forge's diff.go), each applied  *)
(* to the current script at the line it says, make the proposed one, and    *)
(* stand in both where they say, one after another.                         *)
(***************************************************************************)
THEOREM UnifiedMakesTheProposed ==
  ASSUME NEW X, NEW a \in Seq(X), NEW b \in Seq(X)
  PROVE  /\ Patched(a, unified(lineDiff(a, b))) = b
         /\ InPlace(a, b, unified(lineDiff(a, b)))
<1> DEFINE ops == lineDiff(a, b)
           hunks == unified(ops)
<1>1. ops \in Seq(Edits(X)) /\ OldLines(ops) = a /\ NewLines(ops) = b
  BY DiffIsExact
<1> HIDE DEF ops
<1>2. PICK f : IsHunks(f, ops, FALSE) /\ unified(ops) = f[1]
  BY <1>1, UnifiedIs
<1>3. 1 \in 1..Len(ops) + 1
  BY <1>1, LenProperties
<1>4. Chained(f, ops, 1, FALSE)
  BY <1>1, <1>2, <1>3, HunksChain
<1>5. hunks \in Seq(Marks(ops, FALSE)) /\ IsChain(ops, hunks, 1, FALSE)
  BY <1>2, <1>4 DEF Chained, Free
<1> HIDE DEF hunks
<1>6. PICK st : IsWalk(ops, hunks, 1, FALSE, st)
  BY <1>5 DEF IsChain
<1>7. Patched(OldLines(ops), hunks) = NewLines(ops)
  BY <1>1, <1>5, <1>6, WalkPatches
<1>8. InPlace(OldLines(ops), NewLines(ops), hunks)
  BY <1>1, <1>5, <1>6, WalkInPlace
<1> QED BY <1>1, <1>7, <1>8 DEF hunks, ops

(* Reading the numbers of a written hunk gives those it was cut with. *)
LEMMA PlacedAgain ==
  ASSUME NEW X, NEW ops \in Seq(Edits(X)), NEW lo \in 1..Len(ops), NEW hi \in 1..Len(ops)
  PROVE  Placed(Marked(ops, lo, hi, TRUE)) = Marked(ops, lo, hi, FALSE)
<1> DEFINE h == Hunk(ops, lo, hi)
           old == OldLines(h.ops)
           new == NewLines(h.ops)
           x == Len(OldLines(SubSeq(ops, 1, lo - 1)))
           y == Len(NewLines(SubSeq(ops, 1, lo - 1)))
           part == SubSeq(ops, lo, hi)
<1>1. x \in Nat /\ y \in Nat
  <2>1. Len(ops) \in Nat
    BY LenProperties
  <2>2. lo - 1 \in 1 - 1..Len(ops) /\ 1 \in 1..Len(ops) + 1
    BY <2>1
  <2>3. SubSeq(ops, 1, lo - 1) \in Seq(Edits(X))
    BY <2>2, PartType
  <2> QED BY <2>3, LinesType, LenProperties DEF OldLines, NewLines
<1>2. h = [old |-> 1 + x, new |-> 1 + y, ops |-> part]
  BY DEF Hunk
<1> HIDE DEF h, x, y, part
<1>3. h.ops = part /\ h.old = 1 + x /\ h.new = 1 + y
  BY <1>2
<1> DEFINE u == IF old = <<>> THEN h.old - 1 ELSE h.old
           v == IF new = <<>> THEN h.new - 1 ELSE h.new
           w == writeHunk(h)
<1>4. w = [old |-> u, new |-> v, ops |-> part]
  BY <1>3 DEF writeHunk
<1> HIDE DEF w
<1>5. w.ops = part /\ w.old = u /\ w.new = v
  BY <1>4
<1>6. OldLines(w.ops) = old /\ NewLines(w.ops) = new
  BY <1>3, <1>5
<1> DEFINE s == IF OldLines(w.ops) = <<>> THEN w.old + 1 ELSE w.old
           r == IF NewLines(w.ops) = <<>> THEN w.new + 1 ELSE w.new
<1>7. Placed(w) = [old |-> s, new |-> r, ops |-> part]
  BY <1>5 DEF Placed
<1>8. s = h.old /\ r = h.new
  <2> HIDE DEF old, new
  <2>1. u \in Int /\ v \in Int /\ (old = <<>> => u + 1 = h.old) /\ (new = <<>> => v + 1 = h.new)
    BY <1>1, <1>3
  <2> QED BY <1>5, <1>6, <2>1
<1>9. Placed(w) = h
  BY <1>2, <1>3, <1>7, <1>8
<1> QED BY <1>9 DEF Marked, h, w

\* A Caddyfile's hunks with the numbers of empty sides read as they are meant.
AsRead(hunks) == [k \in DOMAIN hunks |-> Placed(hunks[k])]

LEMMA MarkIs ==
  ASSUME NEW ops, NEW lo \in 1..Len(ops), NEW hi \in 1..Len(ops), NEW w
  PROVE  Marked(ops, lo, hi, w) \in Marks(ops, w)
BY DEF Marks

LEMMA WalkAsRead ==
  ASSUME NEW X, NEW ops \in Seq(Edits(X)), NEW hunks \in Seq(Marks(ops, TRUE)), NEW st,
         IsWalk(ops, hunks, 1, TRUE, st)
  PROVE  AsRead(hunks) \in Seq(Marks(ops, FALSE)) /\ IsWalk(ops, AsRead(hunks), 1, FALSE, st)
<1>1. DOMAIN hunks = 1..Len(hunks) /\ Len(hunks) \in Nat
  BY LenProperties
<1>2. ASSUME NEW k \in 1..Len(hunks)
      PROVE  \E lo \in 1..Len(ops), hi \in 1..Len(ops) :
               /\ st[k - 1] <= lo /\ lo <= hi /\ Quiet(ops, st[k - 1], lo - 1)
               /\ AsRead(hunks)[k] = Marked(ops, lo, hi, FALSE)
               /\ st[k] = hi + 1
  <2>1. PICK lo \in 1..Len(ops), hi \in 1..Len(ops) :
          /\ st[k - 1] <= lo /\ lo <= hi /\ Quiet(ops, st[k - 1], lo - 1)
          /\ hunks[k] = Marked(ops, lo, hi, TRUE)
          /\ st[k] = hi + 1
    BY DEF IsWalk
  <2>2. AsRead(hunks)[k] = Placed(hunks[k])
    BY <1>1 DEF AsRead
  <2>3. AsRead(hunks)[k] = Marked(ops, lo, hi, FALSE)
    BY <2>1, <2>2, PlacedAgain
  <2> QED BY <2>1, <2>3
<1>3. ASSUME NEW k \in 1..Len(hunks) PROVE AsRead(hunks)[k] \in Marks(ops, FALSE)
  <2>1. PICK lo \in 1..Len(ops), hi \in 1..Len(ops) : AsRead(hunks)[k] = Marked(ops, lo, hi, FALSE)
    BY <1>2
  <2> QED BY <2>1, MarkIs
<1>4. AsRead(hunks) = [k \in 1..Len(hunks) |-> AsRead(hunks)[k]]
  BY <1>1 DEF AsRead
<1>5. AsRead(hunks) \in [1..Len(hunks) -> Marks(ops, FALSE)]
  BY <1>3, <1>4
<1>6. AsRead(hunks) \in Seq(Marks(ops, FALSE)) /\ Len(AsRead(hunks)) = Len(hunks)
  <2>1. \A S, n : n \in Nat => \A f \in [1..n -> S] : f \in Seq(S) /\ Len(f) = n
    OBVIOUS
  <2> QED BY <1>1, <1>5, <2>1
<1>7. IsWalk(ops, AsRead(hunks), 1, FALSE, st)
  BY <1>2, <1>6 DEF IsWalk
<1> QED BY <1>6, <1>7

LEMMA WrittenIs ==
  ASSUME NEW X, NEW ops \in Seq(Edits(X))
  PROVE  \E f : IsHunks(f, ops, TRUE) /\ unifiedDiff(ops) = f[1]
<1> DEFINE Body(f) == [start \in 1..Len(ops) + 1 |->
                        LET later == {k \in Changes(ops) : k >= start}
                            hi == Min({Reach(ops, Min(later), Joined(ops)) + diffContext, Len(ops)})
                        IN IF later = {} THEN <<>>
                           ELSE <<writeHunk(Hunk(ops, Max({Min(later) - diffContext, 1}), hi))>> \o f[hi + 1]]
           g == CHOOSE f : f = Body(f)
<1>1. unifiedDiff(ops) = g[1]
  BY DEF unifiedDiff
<1>2. ASSUME NEW f PROVE [start \in 1..Len(ops) + 1 |-> NextHunks(f, ops, start, TRUE)] = Body(f)
  BY DEF NextHunks, Later, First, Gap, From, Until, Marked
<1> HIDE DEF Body
<1>3. PICK f : IsHunks(f, ops, TRUE)
  BY HunksExist
<1>4. f = Body(f)
  BY <1>2, <1>3 DEF IsHunks
<1>5. g = Body(g)
  BY <1>4, Zenon
<1> HIDE DEF g
<1>6. IsHunks(g, ops, TRUE)
  BY <1>2, <1>5 DEF IsHunks
<1> QED BY <1>1, <1>6

(***************************************************************************)
(* So do the hunks of a Caddyfile's diff (unifiedDiff and writeHunk of      *)
(* caddy's diff.go), although where one starts does not look at where the   *)
(* last one ended: those of changes that far apart never meet.              *)
(***************************************************************************)
THEOREM WrittenMakesTheProposed ==
  ASSUME NEW X, NEW a \in Seq(X), NEW b \in Seq(X)
  PROVE  /\ Patched(a, AsRead(unifiedDiff(lineDiff(a, b)))) = b
         /\ InPlace(a, b, AsRead(unifiedDiff(lineDiff(a, b))))
<1> DEFINE ops == lineDiff(a, b)
           written == unifiedDiff(ops)
           hunks == AsRead(written)
<1>1. ops \in Seq(Edits(X)) /\ OldLines(ops) = a /\ NewLines(ops) = b
  BY DiffIsExact
<1> HIDE DEF ops
<1>2. PICK f : IsHunks(f, ops, TRUE) /\ unifiedDiff(ops) = f[1]
  BY <1>1, WrittenIs
<1>3. 1 \in 1..Len(ops) + 1
  BY <1>1, LenProperties
<1>4. Chained(f, ops, 1, TRUE)
  BY <1>1, <1>2, <1>3, HunksChain
<1>5. written \in Seq(Marks(ops, TRUE)) /\ IsChain(ops, written, 1, TRUE)
  BY <1>2, <1>4 DEF Chained, Free
<1> HIDE DEF written
<1>6. PICK st : IsWalk(ops, written, 1, TRUE, st)
  BY <1>5 DEF IsChain
<1>7. hunks \in Seq(Marks(ops, FALSE)) /\ IsWalk(ops, hunks, 1, FALSE, st)
  BY <1>1, <1>5, <1>6, WalkAsRead
<1> HIDE DEF hunks
<1>8. Patched(OldLines(ops), hunks) = NewLines(ops)
  BY <1>1, <1>7, WalkPatches
<1>9. InPlace(OldLines(ops), NewLines(ops), hunks)
  BY <1>1, <1>7, WalkInPlace
<1> QED BY <1>1, <1>8, <1>9 DEF hunks, written, ops

-----------------------------------------------------------------------------
(* No diff leaves more lines alone than this one.                           *)

NextLength(f, a, b, i, j) ==
  IF i > Len(a) \/ j > Len(b) THEN 0
  ELSE IF a[i] = b[j] THEN f[<<i + 1, j + 1>>] + 1
  ELSE Max({f[<<i + 1, j>>], f[<<i, j + 1>>]})

IsTable(f, a, b) == f = [at \in Places(a, b) |-> NextLength(f, a, b, at[1], at[2])]

LEMMA LengthType ==
  ASSUME NEW a, NEW b, Len(a) \in Nat, Len(b) \in Nat, NEW i \in 1..Len(a) + 1, NEW j \in 1..Len(b) + 1,
         NEW f \in [Places(a, b) -> Nat]
  PROVE  NextLength(f, a, b, i, j) \in Nat
<1>1. CASE i > Len(a) \/ j > Len(b)
  BY <1>1 DEF NextLength
<1>2. CASE i <= Len(a) /\ j <= Len(b)
  <2>1. /\ <<i + 1, j>> \in Places(a, b) /\ <<i, j + 1>> \in Places(a, b)
        /\ <<i + 1, j + 1>> \in Places(a, b)
    BY <1>2, LeftOver
  <2>2. f[<<i + 1, j>>] \in Nat /\ f[<<i, j + 1>>] \in Nat /\ f[<<i + 1, j + 1>>] \in Nat
    BY <2>1
  <2>3. Max({f[<<i + 1, j>>], f[<<i, j + 1>>]}) \in Nat
    <3>1. \A x, y \in Nat : Max({x, y}) \in Nat
      BY OfTwo
    <3> QED BY <2>2, <3>1
  <2>4. f[<<i + 1, j + 1>>] + 1 \in Nat
    <3>1. \A x \in Nat : x + 1 \in Nat
      OBVIOUS
    <3> QED BY <2>2, <3>1
  <2>5. ~(i > Len(a)) /\ ~(j > Len(b))
    BY <1>2
  <2> QED BY <2>3, <2>4, <2>5, Zenon DEF NextLength
<1> QED BY <1>1, <1>2

LEMMA LengthsAgree ==
  ASSUME NEW a, NEW b, Len(a) \in Nat, Len(b) \in Nat, NEW i \in 1..Len(a) + 1, NEW j \in 1..Len(b) + 1,
         NEW f, NEW g,
         \A at \in Places(a, b) : Left(a, b, at) < Left(a, b, <<i, j>>) => f[at] = g[at]
  PROVE  NextLength(f, a, b, i, j) = NextLength(g, a, b, i, j)
<1>1. CASE i > Len(a) \/ j > Len(b)
  BY <1>1 DEF NextLength
<1>2. CASE i <= Len(a) /\ j <= Len(b)
  <2>0. Left(a, b, <<i, j>>) \in Int
    BY DEF Left
  <2>1. <<i + 1, j>> \in Places(a, b) /\ Left(a, b, <<i + 1, j>>) = Left(a, b, <<i, j>>) - 1
    BY <1>2 DEF Places, Left
  <2>2. <<i, j + 1>> \in Places(a, b) /\ Left(a, b, <<i, j + 1>>) = Left(a, b, <<i, j>>) - 1
    BY <1>2 DEF Places, Left
  <2>3. <<i + 1, j + 1>> \in Places(a, b) /\ Left(a, b, <<i + 1, j + 1>>) = Left(a, b, <<i, j>>) - 2
    BY <1>2 DEF Places, Left
  <2>4. f[<<i + 1, j>>] = g[<<i + 1, j>>]
    BY <2>0, <2>1
  <2>5. f[<<i, j + 1>>] = g[<<i, j + 1>>]
    BY <2>0, <2>2
  <2>6. f[<<i + 1, j + 1>>] = g[<<i + 1, j + 1>>]
    BY <2>0, <2>3
  <2> QED BY <2>4, <2>5, <2>6, Zenon DEF NextLength
<1> QED BY <1>1, <1>2

(* There is a table of lengths, and LCS is it. *)
LEMMA TableIs ==
  ASSUME NEW a, NEW b, Len(a) \in Nat, Len(b) \in Nat
  PROVE  IsTable(LCS(a, b), a, b)
<1> DEFINE D == Places(a, b)
           V == Nat
           Body == [f \in [D -> V] |-> [at \in D |-> NextLength(f, a, b, at[1], at[2])]]
           rank == [at \in D |-> Left(a, b, at)]
           N == Len(a) + Len(b)
<1>2. \A at \in D : at[1] \in 1..Len(a) + 1 /\ at[2] \in 1..Len(b) + 1 /\ at = <<at[1], at[2]>>
  BY DEF Places
<1>3. ASSUME NEW f \in [D -> V], NEW at \in D PROVE NextLength(f, a, b, at[1], at[2]) \in V
  BY <1>2, LengthType
<1>4. ASSUME NEW f \in [D -> V], NEW g \in [D -> V], NEW at \in D,
             \A q \in D : rank[q] < rank[at] => f[q] = g[q]
      PROVE  Body[f][at] = Body[g][at]
  <2>1. \A q \in D : Left(a, b, q) < Left(a, b, at) => f[q] = g[q]
    BY <1>4
  <2>2. PICK i \in 1..Len(a) + 1, j \in 1..Len(b) + 1 : at = <<i, j>>
    BY <1>2
  <2>3. NextLength(f, a, b, i, j) = NextLength(g, a, b, i, j)
    BY <2>1, <2>2, LengthsAgree
  <2> QED BY <2>2, <2>3
<1>5. N \in Nat /\ 0 \in V /\ rank \in [D -> 0..N]
  <2>1. ASSUME NEW at \in D PROVE Left(a, b, at) \in 0..N
    <3>1. PICK i \in 1..Len(a) + 1, j \in 1..Len(b) + 1 : at = <<i, j>>
      BY <1>2
    <3> QED BY <3>1, LeftOver
  <2> QED BY <2>1
<1>6. Recursive(D, V, rank, Body)
  <2>1. Body \in [[D -> V] -> [D -> V]]
    BY <1>3
  <2> QED BY <1>4, <2>1 DEF Recursive
<1> HIDE DEF D, V, Body, rank, N
<1>7. PICK f \in [D -> V] : f = Body[f]
  BY <1>5, <1>6, RecursionExists
<1>8. IsTable(f, a, b)
  BY <1>7 DEF IsTable, D, Body
<1>9. LCS(a, b) = CHOOSE g : IsTable(g, a, b)
  BY DEF LCS, IsTable, NextLength, Places
<1> QED BY <1>8, <1>9, Zenon

LEMMA GreaterOf ==
  ASSUME NEW m \in Nat, NEW n \in Nat
  PROVE  (m >= n => Max({m, n}) = m) /\ (~(m >= n) => Max({m, n}) = n)
BY OfTwo

LEMMA KeptOfFirst ==
  ASSUME NEW X, NEW op \in Edits(X), NEW rest \in Seq(Edits(X))
  PROVE  Count(<<op>> \o rest, "kept") = Count(rest, "kept") + (IF op.kind = "kept" THEN 1 ELSE 0)
<1> DEFINE all == <<op>> \o rest
           before == LinesBut(rest, "kept")
           after == LinesBut(all, "kept")
<1>1. all \in Seq(Edits(X)) /\ Len(all) = 1 + Len(rest) /\ Len(rest) \in Nat
  <2>1. <<op>> \in Seq(Edits(X)) /\ Len(<<op>>) = 1
    OBVIOUS
  <2> QED BY <2>1, ConcatProperties, LenProperties
<1>2. after = IF op.kind = "kept" THEN before ELSE <<op.line>> \o before
  BY LinesOfFirst
<1> HIDE DEF all
<1>3. before \in Seq(X) /\ op.line \in X
  BY LinesType DEF Edits
<1>4. Counted(rest, "kept") /\ Counted(all, "kept") /\ Count(rest, "kept") \in Nat /\ Count(all, "kept") \in Nat
  BY <1>1, LinesCounted, CountType
<1>5. Len(before) + Count(rest, "kept") = Len(rest) /\ Len(after) + Count(all, "kept") = Len(all)
  BY <1>4 DEF Counted
<1> HIDE DEF before, after
<1>6. Len(before) \in Nat /\ Len(after) = IF op.kind = "kept" THEN Len(before) ELSE 1 + Len(before)
  <2>1. <<op.line>> \in Seq(X) /\ Len(<<op.line>>) = 1
    BY <1>3
  <2>2. Len(<<op.line>> \o before) = 1 + Len(before)
    BY <1>3, <2>1, ConcatProperties
  <2> QED BY <1>2, <1>3, <2>2, LenProperties
<1>7. Count(all, "kept") = Count(rest, "kept") + (IF op.kind = "kept" THEN 1 ELSE 0)
  <2>1. \A c, d, l, m, n, k \in Nat : m = 1 + n /\ l + c = n /\ k + d = m =>
          (k = l => d = c + 1) /\ (k = 1 + l => d = c)
    OBVIOUS
  <2>2. Len(all) \in Nat /\ Len(after) \in Nat
    BY <1>1, <1>6
  <2>3. /\ Len(after) = Len(before) => Count(all, "kept") = Count(rest, "kept") + 1
        /\ Len(after) = 1 + Len(before) => Count(all, "kept") = Count(rest, "kept")
    BY <1>1, <1>4, <1>5, <1>6, <2>1, <2>2
  <2> QED BY <1>4, <1>6, <2>3
<1> QED BY <1>7 DEF all

LEMMA LengthAt ==
  ASSUME NEW a, NEW b, Len(a) \in Nat, Len(b) \in Nat, NEW lcs, IsTable(lcs, a, b),
         NEW i \in 1..Len(a) + 1, NEW j \in 1..Len(b) + 1
  PROVE  lcs[<<i, j>>] = NextLength(lcs, a, b, i, j)
<1>1. <<i, j>> \in Places(a, b) /\ <<i, j>>[1] = i /\ <<i, j>>[2] = j
  BY DEF Places
<1>2. \A at \in Places(a, b) : lcs[at] = NextLength(lcs, a, b, at[1], at[2])
  BY DEF IsTable
<1> QED BY <1>1, <1>2

LEMMA OpsAt ==
  ASSUME NEW a, NEW b, Len(a) \in Nat, Len(b) \in Nat, NEW f, IsOps(f, a, b),
         NEW i \in 1..Len(a) + 1, NEW j \in 1..Len(b) + 1
  PROVE  f[<<i, j>>] = NextOps(f, a, b, LCS(a, b), i, j)
<1> DEFINE lcs == LCS(a, b)
<1>0. f = [at \in Places(a, b) |-> NextOps(f, a, b, lcs, at[1], at[2])]
  BY DEF IsOps
<1> HIDE DEF lcs
<1>1. <<i, j>> \in Places(a, b) /\ <<i, j>>[1] = i /\ <<i, j>>[2] = j
  BY DEF Places
<1>2. \A at \in Places(a, b) : f[at] = NextOps(f, a, b, lcs, at[1], at[2])
  BY <1>0
<1> QED BY <1>1, <1>2 DEF lcs

LEMMA TableType ==
  ASSUME NEW a, NEW b, Len(a) \in Nat, Len(b) \in Nat, NEW lcs, IsTable(lcs, a, b)
  PROVE  \A i \in 1..Len(a) + 1, j \in 1..Len(b) + 1 : lcs[<<i, j>>] \in Nat
<1> DEFINE S == {at \in Places(a, b) : lcs[at] \in Nat}
<1>1. ASSUME NEW i \in 1..Len(a) + 1, NEW j \in 1..Len(b) + 1, Backed(S, a, b, i, j)
      PROVE  <<i, j>> \in S
  <2>1. lcs[<<i, j>>] = NextLength(lcs, a, b, i, j)
    BY LengthAt
  <2>2. <<i, j>> \in Places(a, b)
    BY LeftOver
  <2>3. CASE i > Len(a) \/ j > Len(b)
    BY <2>1, <2>2, <2>3 DEF NextLength
  <2>4. CASE i <= Len(a) /\ j <= Len(b)
    <3>1. lcs[<<i + 1, j>>] \in Nat /\ lcs[<<i, j + 1>>] \in Nat /\ lcs[<<i + 1, j + 1>>] \in Nat
      BY <1>1, <2>4 DEF Backed
    <3>2. \A x, y \in Nat : Max({x, y}) \in Nat /\ x + 1 \in Nat
      BY OfTwo
    <3>3. ~(i > Len(a)) /\ ~(j > Len(b))
      BY <2>4
    <3>4. NextLength(lcs, a, b, i, j) \in Nat
      BY <3>1, <3>2, <3>3, Zenon DEF NextLength
    <3> QED BY <2>1, <2>2, <3>4
  <2> QED BY <2>3, <2>4
<1>2. \A i \in 1..Len(a) + 1, j \in 1..Len(b) + 1 : <<i, j>> \in S
  <2> HIDE DEF S
  <2>1. \A i \in 1..Len(a) + 1, j \in 1..Len(b) + 1 : Backed(S, a, b, i, j) => <<i, j>> \in S
    BY <1>1
  <2> QED BY <2>1, FromTheEnd, Zenon
<1>3. ASSUME NEW i \in 1..Len(a) + 1, NEW j \in 1..Len(b) + 1 PROVE lcs[<<i, j>>] \in Nat
  BY <1>2
<1> QED BY <1>3, Zenon

\* The kept operations from a place on are as many as the lines both texts share
\* from there.
KeptAre(f, lcs, i, j) == Count(f[<<i, j>>], "kept") = lcs[<<i, j>>]

LEMMA KeptFrom ==
  ASSUME NEW X, NEW a \in Seq(X), NEW b \in Seq(X), NEW f, IsOps(f, a, b)
  PROVE  \A i \in 1..Len(a) + 1, j \in 1..Len(b) + 1 : KeptAre(f, LCS(a, b), i, j)
<1> DEFINE lcs == LCS(a, b)
           S == {at \in Places(a, b) : KeptAre(f, lcs, at[1], at[2])}
<1>0. Len(a) \in Nat /\ Len(b) \in Nat
  BY LenProperties
<1>1. IsTable(lcs, a, b)
  BY <1>0, TableIs
<1>2. ASSUME NEW i \in 1..Len(a) + 1, NEW j \in 1..Len(b) + 1
      PROVE  f[<<i, j>>] = NextOps(f, a, b, lcs, i, j)
  BY <1>0, OpsAt
<1> HIDE DEF lcs
<1>3. ASSUME NEW i \in 1..Len(a) + 1, NEW j \in 1..Len(b) + 1
      PROVE  lcs[<<i, j>>] = NextLength(lcs, a, b, i, j)
  BY <1>0, <1>1, LengthAt
<1>4. \A i \in 1..Len(a) + 1, j \in 1..Len(b) + 1 : lcs[<<i, j>>] \in Nat
  BY <1>0, <1>1, TableType, Zenon
<1>5. ASSUME NEW i \in 1..Len(a) + 1, NEW j \in 1..Len(b) + 1
      PROVE  f[<<i, j>>] \in Seq(Edits(X))
  <2>1. Fine(X, a, b, f, i, j)
    BY ToldFrom, Zenon
  <2> QED BY <2>1 DEF Fine
<1>6. ASSUME NEW i \in 1..Len(a) + 1, NEW j \in 1..Len(b) + 1,
             i <= Len(a) => KeptAre(f, lcs, i + 1, j),
             j <= Len(b) => KeptAre(f, lcs, i, j + 1),
             i <= Len(a) /\ j <= Len(b) => KeptAre(f, lcs, i + 1, j + 1)
      PROVE  KeptAre(f, lcs, i, j)
  <2> DEFINE over == i > Len(a) /\ j > Len(b)
             same == i <= Len(a) /\ j <= Len(b) /\ a[i] = b[j]
             first == i <= Len(a) /\ (j > Len(b) \/ lcs[<<i + 1, j>>] >= lcs[<<i, j + 1>>])
  <2>0. f[<<i, j>>] = NextOps(f, a, b, lcs, i, j) /\ lcs[<<i, j>>] = NextLength(lcs, a, b, i, j)
    BY <1>2, <1>3
  <2>1. CASE over
    <3>1. NextOps(f, a, b, lcs, i, j) = <<>> /\ NextLength(lcs, a, b, i, j) = 0
      BY <2>1, Zenon DEF NextOps, NextLength
    <3>2. Count(<<>>, "kept") = 0
      BY CountOfNone
    <3> QED BY <2>0, <3>1, <3>2 DEF KeptAre
  <2>2. CASE ~over /\ same
    <3> DEFINE op == Op("kept", a[i])
               rest == f[<<i + 1, j + 1>>]
    <3>1. NextOps(f, a, b, lcs, i, j) = <<op>> \o rest
      BY <2>2, Zenon DEF NextOps
    <3>2. i \in 1..Len(a) /\ j \in 1..Len(b) /\ i + 1 \in 1..Len(a) + 1 /\ j + 1 \in 1..Len(b) + 1
          /\ ~(i > Len(a) \/ j > Len(b))
      BY <1>0, <2>2
    <3>3. a[i] \in X
      BY <3>2, ElementOfSeq
    <3>4. op \in Edits(X) /\ op.kind = "kept"
      BY <3>3 DEF Op, Edits
    <3>5. rest \in Seq(Edits(X)) /\ Count(rest, "kept") = lcs[<<i + 1, j + 1>>]
      BY <1>5, <1>6, <2>2, <3>2 DEF KeptAre
    <3> HIDE DEF op, rest
    <3>6. Count(<<op>> \o rest, "kept") = Count(rest, "kept") + 1
      BY <3>4, <3>5, KeptOfFirst
    <3>7. NextLength(lcs, a, b, i, j) = lcs[<<i + 1, j + 1>>] + 1
      BY <2>2, <3>2, Zenon DEF NextLength
    <3> QED BY <2>0, <3>1, <3>5, <3>6, <3>7 DEF KeptAre
  <2>3. CASE ~over /\ ~same /\ first
    <3> DEFINE op == Op("removed", a[i])
               rest == f[<<i + 1, j>>]
    <3>1. NextOps(f, a, b, lcs, i, j) = <<op>> \o rest
      BY <2>3, Zenon DEF NextOps
    <3>2. i \in 1..Len(a) /\ i + 1 \in 1..Len(a) + 1
      BY <1>0, <2>3
    <3>3. a[i] \in X
      BY <3>2, ElementOfSeq
    <3>4. op \in Edits(X) /\ op.kind # "kept"
      BY <3>3 DEF Op, Edits
    <3>5. rest \in Seq(Edits(X)) /\ Count(rest, "kept") = lcs[<<i + 1, j>>]
      BY <1>5, <1>6, <2>3, <3>2 DEF KeptAre
    <3> HIDE DEF op, rest
    <3>6. Count(<<op>> \o rest, "kept") = Count(rest, "kept")
      <4>1. Count(<<op>> \o rest, "kept") = Count(rest, "kept") + 0
        BY <3>4, <3>5, KeptOfFirst
      <4> QED BY <3>5, <4>1, CountType
    <3>7. NextLength(lcs, a, b, i, j) = lcs[<<i + 1, j>>]
      <4>1. CASE j > Len(b)
        <5>1. NextLength(lcs, a, b, i, j) = 0
          BY <4>1 DEF NextLength
        <5>2. NextLength(lcs, a, b, i + 1, j) = 0
          BY <4>1 DEF NextLength
        <5> QED BY <1>3, <3>2, <5>1, <5>2
      <4>2. CASE j <= Len(b)
        <5>1. j + 1 \in 1..Len(b) + 1 /\ ~(j > Len(b)) /\ ~(i > Len(a) \/ j > Len(b)) /\ a[i] # b[j]
          BY <1>0, <2>3, <3>2, <4>2
        <5>2. NextLength(lcs, a, b, i, j) = Max({lcs[<<i + 1, j>>], lcs[<<i, j + 1>>]})
          BY <5>1, Zenon DEF NextLength
        <5>3. lcs[<<i + 1, j>>] \in Nat /\ lcs[<<i, j + 1>>] \in Nat
          BY <1>4, <3>2, <5>1
        <5>4. lcs[<<i + 1, j>>] >= lcs[<<i, j + 1>>]
          BY <2>3, <5>1
        <5> QED BY <5>2, <5>3, <5>4, GreaterOf, Zenon
      <4> QED BY <1>0, <4>1, <4>2
    <3> QED BY <2>0, <3>1, <3>5, <3>6, <3>7 DEF KeptAre
  <2>4. CASE ~over /\ ~same /\ ~first
    <3> DEFINE op == Op("added", b[j])
               rest == f[<<i, j + 1>>]
    <3>1. NextOps(f, a, b, lcs, i, j) = <<op>> \o rest
      BY <2>4, Zenon DEF NextOps
    <3>2. j \in 1..Len(b) /\ j + 1 \in 1..Len(b) + 1
      BY <1>0, <2>4
    <3>3. b[j] \in X
      BY <3>2, ElementOfSeq
    <3>4. op \in Edits(X) /\ op.kind # "kept"
      BY <3>3 DEF Op, Edits
    <3>5. rest \in Seq(Edits(X)) /\ Count(rest, "kept") = lcs[<<i, j + 1>>]
      BY <1>0, <1>5, <1>6, <3>2 DEF KeptAre
    <3> HIDE DEF op, rest
    <3>6. Count(<<op>> \o rest, "kept") = Count(rest, "kept")
      <4>1. Count(<<op>> \o rest, "kept") = Count(rest, "kept") + 0
        BY <3>4, <3>5, KeptOfFirst
      <4> QED BY <3>5, <4>1, CountType
    <3>7. NextLength(lcs, a, b, i, j) = lcs[<<i, j + 1>>]
      <4>1. CASE i > Len(a)
        <5>1. NextLength(lcs, a, b, i, j) = 0
          BY <4>1 DEF NextLength
        <5>2. NextLength(lcs, a, b, i, j + 1) = 0
          BY <4>1 DEF NextLength
        <5> QED BY <1>3, <3>2, <5>1, <5>2
      <4>2. CASE i <= Len(a)
        <5>1. i + 1 \in 1..Len(a) + 1 /\ ~(i > Len(a) \/ j > Len(b)) /\ a[i] # b[j]
          BY <1>0, <2>4, <3>2, <4>2
        <5>2. NextLength(lcs, a, b, i, j) = Max({lcs[<<i + 1, j>>], lcs[<<i, j + 1>>]})
          BY <5>1, Zenon DEF NextLength
        <5>3. lcs[<<i + 1, j>>] \in Nat /\ lcs[<<i, j + 1>>] \in Nat
          BY <1>4, <3>2, <5>1
        <5>4. ~(lcs[<<i + 1, j>>] >= lcs[<<i, j + 1>>])
          BY <2>4, <4>2
        <5> QED BY <5>2, <5>3, <5>4, GreaterOf, Zenon
      <4> QED BY <1>0, <4>1, <4>2
    <3> QED BY <2>0, <3>1, <3>5, <3>6, <3>7 DEF KeptAre
  <2> QED BY <2>1, <2>2, <2>3, <2>4
<1>7. ASSUME NEW i \in 1..Len(a) + 1, NEW j \in 1..Len(b) + 1, Backed(S, a, b, i, j)
      PROVE  <<i, j>> \in S
  <2>1. i <= Len(a) => KeptAre(f, lcs, i + 1, j)
    BY <1>7 DEF Backed
  <2>2. j <= Len(b) => KeptAre(f, lcs, i, j + 1)
    BY <1>7 DEF Backed
  <2>3. i <= Len(a) /\ j <= Len(b) => KeptAre(f, lcs, i + 1, j + 1)
    BY <1>7 DEF Backed
  <2>4. KeptAre(f, lcs, i, j)
    BY <1>6, <2>1, <2>2, <2>3
  <2>5. <<i, j>> \in Places(a, b) /\ <<i, j>>[1] = i /\ <<i, j>>[2] = j
    BY <1>0, LeftOver
  <2> QED BY <2>4, <2>5
<1>8. \A i \in 1..Len(a) + 1, j \in 1..Len(b) + 1 : <<i, j>> \in S
  <2> HIDE DEF S
  <2>1. \A i \in 1..Len(a) + 1, j \in 1..Len(b) + 1 : Backed(S, a, b, i, j) => <<i, j>> \in S
    BY <1>7
  <2> QED BY <1>0, <2>1, FromTheEnd, Zenon
<1> QED BY <1>8 DEF lcs

\* The lines old of a and new of b are alike, in their order.
Paired(a, b, old, new) ==
  /\ Cardinality(old) = Cardinality(new)
  /\ \A p \in old, q \in new : Rank(old, p) = Rank(new, q) => a[p] = b[q]

\* No more lines are alike from a place on than the table says.
Best(a, b, lcs, i, j) ==
  \A old \in SUBSET (i..Len(a)), new \in SUBSET (j..Len(b)) :
    Paired(a, b, old, new) => Cardinality(old) <= lcs[<<i, j>>]

LEMMA RankOfFirst ==
  ASSUME NEW S \in SUBSET Nat, NEW i \in S, \A k \in S : i <= k
  PROVE  Rank(S, i) = 1
<1>1. {k \in S : k <= i} = {i}
  <2>1. ASSUME NEW k \in S, k <= i PROVE k = i
    BY <2>1
  <2>2. i \in {k \in S : k <= i}
    OBVIOUS
  <2> QED BY <2>1, <2>2, Zenon
<1> QED BY <1>1, FS_Singleton DEF Rank

LEMMA RankOfRest ==
  ASSUME NEW S \in SUBSET Nat, IsFiniteSet(S), NEW i \in S, \A k \in S : i <= k, NEW p \in S \ {i}
  PROVE  Rank(S, p) = Rank(S \ {i}, p) + 1
<1> DEFINE upto == {k \in S : k <= p}
           then == {k \in S \ {i} : k <= p}
<1>1. upto \in SUBSET S /\ i \in upto /\ then = upto \ {i}
  OBVIOUS
<1>2. Rank(S, p) = Cardinality(upto) /\ Rank(S \ {i}, p) = Cardinality(then)
  BY DEF Rank
<1> HIDE DEF upto, then
<1>3. IsFiniteSet(upto) /\ Cardinality(upto) \in Nat
  BY <1>1, FS_Subset, FS_CardinalityType
<1>4. Cardinality(upto \ {i}) = Cardinality(upto) - 1
  BY <1>1, <1>3, FS_RemoveElement
<1> QED BY <1>1, <1>2, <1>3, <1>4

Leads(S, p) == p \in S /\ \A k \in S : p <= k

\* What is left of lines that are alike without the first of each.
LEMMA PairedRest ==
  ASSUME NEW a, NEW b, NEW old \in SUBSET Nat, NEW new \in SUBSET Nat, IsFiniteSet(old), IsFiniteSet(new),
         Paired(a, b, old, new), NEW p, Leads(old, p), NEW q, Leads(new, q)
  PROVE  Paired(a, b, old \ {p}, new \ {q})
<1>0. /\ p \in old /\ \A k \in old : p <= k
      /\ q \in new /\ \A k \in new : q <= k
  BY DEF Leads
<1>1. /\ Cardinality(old \ {p}) = Cardinality(old) - 1 /\ Cardinality(old) \in Nat
      /\ Cardinality(new \ {q}) = Cardinality(new) - 1 /\ Cardinality(new) \in Nat
  BY <1>0, FS_RemoveElement, FS_CardinalityType
<1>2. ASSUME NEW x \in old \ {p}, NEW y \in new \ {q}, Rank(old \ {p}, x) = Rank(new \ {q}, y)
      PROVE  a[x] = b[y]
  <2>1. Rank(old, x) = Rank(old \ {p}, x) + 1
    BY <1>0, RankOfRest
  <2>2. Rank(new, y) = Rank(new \ {q}, y) + 1
    BY <1>0, RankOfRest
  <2> QED BY <1>2, <2>1, <2>2 DEF Paired
<1>3. Cardinality(old \ {p}) = Cardinality(new \ {q})
  BY <1>1 DEF Paired
<1>4. \A x \in old \ {p}, y \in new \ {q} : Rank(old \ {p}, x) = Rank(new \ {q}, y) => a[x] = b[y]
  BY <1>2, Zenon
<1> QED BY <1>3, <1>4, Zenon DEF Paired

LEMMA PairedNone ==
  ASSUME NEW a, NEW b, NEW old, NEW new, Paired(a, b, old, new), IsFiniteSet(old), IsFiniteSet(new),
         old = {} \/ new = {}
  PROVE  old = {} /\ new = {} /\ Cardinality(old) = 0
<1>1. Cardinality(old) = Cardinality(new)
  BY DEF Paired
<1>2. \A S : IsFiniteSet(S) => (Cardinality(S) = 0 <=> S = {})
  BY FS_EmptySet
<1> QED BY <1>1, <1>2

\* Lines that are paired, none of them the first of both texts, come later in one.
LEMMA PairedLater ==
  ASSUME NEW a, NEW b, NEW i \in Nat, NEW j \in Nat, NEW m \in Nat, NEW n \in Nat,
         NEW old \in SUBSET (i..m), NEW new \in SUBSET (j..n), Paired(a, b, old, new), a[i] # b[j]
  PROVE  old \subseteq i + 1..m \/ new \subseteq j + 1..n
<1>1. CASE i \in old /\ j \in new
  <2>1. Rank(old, i) = 1
    <3>1. old \in SUBSET Nat /\ \A k \in old : i <= k
      OBVIOUS
    <3> QED BY <1>1, <3>1, RankOfFirst
  <2>2. Rank(new, j) = 1
    <3>1. new \in SUBSET Nat /\ \A k \in new : j <= k
      OBVIOUS
    <3> QED BY <1>1, <3>1, RankOfFirst
  <2> QED BY <1>1, <2>1, <2>2, Zenon DEF Paired
<1>2. CASE i \notin old
  BY <1>2
<1>3. CASE j \notin new
  BY <1>3
<1> QED BY <1>1, <1>2, <1>3

LEMMA BestHere ==
  ASSUME NEW a, NEW b, Len(a) \in Nat, Len(b) \in Nat, NEW lcs, IsTable(lcs, a, b),
         \A i \in 1..Len(a) + 1, j \in 1..Len(b) + 1 : lcs[<<i, j>>] \in Nat,
         NEW i \in 1..Len(a) + 1, NEW j \in 1..Len(b) + 1,
         i <= Len(a) => Best(a, b, lcs, i + 1, j),
         j <= Len(b) => Best(a, b, lcs, i, j + 1),
         i <= Len(a) /\ j <= Len(b) => Best(a, b, lcs, i + 1, j + 1)
  PROVE  Best(a, b, lcs, i, j)
<1> SUFFICES ASSUME NEW old \in SUBSET (i..Len(a)), NEW new \in SUBSET (j..Len(b)), Paired(a, b, old, new)
             PROVE  Cardinality(old) <= lcs[<<i, j>>]
  BY DEF Best
<1>0. i \in Nat /\ j \in Nat
  OBVIOUS
<1>1. /\ lcs[<<i, j>>] = NextLength(lcs, a, b, i, j)
      /\ lcs[<<i, j>>] \in Nat
  BY LengthAt
<1>2. /\ IsFiniteSet(old) /\ IsFiniteSet(new)
      /\ old \in SUBSET Nat /\ new \in SUBSET Nat
  <2>1. IsFiniteSet(i..Len(a)) /\ IsFiniteSet(j..Len(b))
    BY FS_Interval
  <2>2. IsFiniteSet(old)
    BY <2>1, FS_Subset, Zenon
  <2>3. IsFiniteSet(new)
    BY <2>1, FS_Subset, Zenon
  <2> QED BY <2>2, <2>3
<1>3. Cardinality(old) \in Nat
  BY <1>2, FS_CardinalityType
<1>t. \A x, y, z \in Nat : (x <= y /\ y <= z => x <= z) /\ (x <= y => x + 1 <= y + 1)
  OBVIOUS
<1>4. CASE old = {} \/ new = {}
  <2>1. Cardinality(old) = 0
    BY <1>2, <1>4, PairedNone
  <2> QED BY <1>1, <2>1
<1>5. CASE old # {} /\ new # {}
  <2>0. i <= Len(a) /\ j <= Len(b)
    BY <1>5
  <2>1. ~(i > Len(a) \/ j > Len(b)) /\ i + 1 \in 1..Len(a) + 1 /\ j + 1 \in 1..Len(b) + 1
    BY <2>0
  <2>2. CASE a[i] = b[j]
    <3>1. PICK p : Leads(old, p)
      BY <1>2, <1>5, LeastOf DEF Leads
    <3>2. PICK q : Leads(new, q)
      BY <1>2, <1>5, LeastOf DEF Leads
    <3>0. Cardinality(old) = Cardinality(old \ {p}) + 1
      <4>1. p \in old /\ IsFiniteSet(old)
        BY <1>2, <3>1 DEF Leads
      <4>2. Cardinality(old \ {p}) = Cardinality(old) - 1
        BY <4>1, FS_RemoveElement
      <4>3. \A x \in Nat : (x - 1) + 1 = x
        OBVIOUS
      <4> QED BY <1>3, <4>2, <4>3
    <3>3. Paired(a, b, old \ {p}, new \ {q})
      BY <1>2, <3>1, <3>2, PairedRest, Zenon
    <3>4. old \ {p} \in SUBSET (i + 1..Len(a))
      BY <3>1 DEF Leads
    <3>5. new \ {q} \in SUBSET (j + 1..Len(b))
      BY <3>2 DEF Leads
    <3>6. Cardinality(old \ {p}) <= lcs[<<i + 1, j + 1>>]
      BY <2>0, <3>3, <3>4, <3>5 DEF Best
    <3>7. lcs[<<i, j>>] = lcs[<<i + 1, j + 1>>] + 1
      BY <1>1, <2>1, <2>2, Zenon DEF NextLength
    <3>8. Cardinality(old \ {p}) \in Nat /\ lcs[<<i + 1, j + 1>>] \in Nat
      BY <1>2, <2>1, FS_Subset, FS_CardinalityType
    <3>9. Cardinality(old \ {p}) + 1 <= lcs[<<i + 1, j + 1>>] + 1
      BY <1>t, <3>6, <3>8, Zenon
    <3> QED BY <3>0, <3>7, <3>9, Zenon
  <2>3. CASE a[i] # b[j]
    <3>1. lcs[<<i, j>>] = Max({lcs[<<i + 1, j>>], lcs[<<i, j + 1>>]})
      BY <1>1, <2>1, <2>3, Zenon DEF NextLength
    <3>2. lcs[<<i + 1, j>>] \in Nat /\ lcs[<<i, j + 1>>] \in Nat
      BY <2>1
    <3>3. lcs[<<i + 1, j>>] <= lcs[<<i, j>>] /\ lcs[<<i, j + 1>>] <= lcs[<<i, j>>]
      <4>1. \A x, y \in Nat : x <= Max({x, y}) /\ y <= Max({x, y})
        BY OfTwo
      <4> QED BY <3>1, <3>2, <4>1
    <3>4. old \subseteq i + 1..Len(a) \/ new \subseteq j + 1..Len(b)
      BY <1>0, <2>3, PairedLater, Zenon
    <3>5. CASE old \subseteq i + 1..Len(a)
      <4>1. Cardinality(old) <= lcs[<<i + 1, j>>]
        BY <2>0, <3>5 DEF Best
      <4> QED BY <1>1, <1>3, <1>t, <3>2, <3>3, <4>1, Zenon
    <3>6. CASE new \subseteq j + 1..Len(b)
      <4>1. Cardinality(old) <= lcs[<<i, j + 1>>]
        BY <2>0, <3>6 DEF Best
      <4> QED BY <1>1, <1>3, <1>t, <3>2, <3>3, <4>1, Zenon
    <3> QED BY <3>4, <3>5, <3>6
  <2> QED BY <2>2, <2>3
<1> QED BY <1>4, <1>5

LEMMA BestFrom ==
  ASSUME NEW a, NEW b, Len(a) \in Nat, Len(b) \in Nat, NEW lcs, IsTable(lcs, a, b)
  PROVE  \A i \in 1..Len(a) + 1, j \in 1..Len(b) + 1 : Best(a, b, lcs, i, j)
<1> DEFINE S == {at \in Places(a, b) : Best(a, b, lcs, at[1], at[2])}
<1>1. \A i \in 1..Len(a) + 1, j \in 1..Len(b) + 1 : lcs[<<i, j>>] \in Nat
  BY TableType, Zenon
<1>2. ASSUME NEW i \in 1..Len(a) + 1, NEW j \in 1..Len(b) + 1, Backed(S, a, b, i, j)
      PROVE  <<i, j>> \in S
  <2>1. i <= Len(a) => Best(a, b, lcs, i + 1, j)
    BY <1>2 DEF Backed
  <2>2. j <= Len(b) => Best(a, b, lcs, i, j + 1)
    BY <1>2 DEF Backed
  <2>3. i <= Len(a) /\ j <= Len(b) => Best(a, b, lcs, i + 1, j + 1)
    BY <1>2 DEF Backed
  <2>4. Best(a, b, lcs, i, j)
    BY <1>1, <2>1, <2>2, <2>3, BestHere, Zenon
  <2>5. <<i, j>> \in Places(a, b) /\ <<i, j>>[1] = i /\ <<i, j>>[2] = j
    BY LeftOver
  <2> QED BY <2>4, <2>5
<1>3. \A i \in 1..Len(a) + 1, j \in 1..Len(b) + 1 : <<i, j>> \in S
  <2> HIDE DEF S
  <2>1. \A i \in 1..Len(a) + 1, j \in 1..Len(b) + 1 : Backed(S, a, b, i, j) => <<i, j>> \in S
    BY <1>2
  <2> QED BY <2>1, FromTheEnd, Zenon
<1>4. ASSUME NEW i \in 1..Len(a) + 1, NEW j \in 1..Len(b) + 1 PROVE Best(a, b, lcs, i, j)
  BY <1>3
<1> QED BY <1>4, Zenon

(***************************************************************************)
(* A diff shows only real changes (lineDiff of caddy's diff.go and          *)
(* diffLines of forge's): whatever lines of the two texts are taken that    *)
(* are alike, in their order, they are no more than the diff leaves alone.  *)
(***************************************************************************)
THEOREM KeptAreMost ==
  ASSUME NEW X, NEW a \in Seq(X), NEW b \in Seq(X),
         NEW old \in SUBSET (1..Len(a)), NEW new \in SUBSET (1..Len(b)),
         Cardinality(old) = Cardinality(new), Cardinality(old) > Count(lineDiff(a, b), "kept")
  PROVE  \E i \in old, j \in new : Rank(old, i) = Rank(new, j) /\ a[i] # b[j]
<1>1. PICK f : IsOps(f, a, b) /\ lineDiff(a, b) = f[<<1, 1>>]
  BY DiffIs
<1>3. Len(a) \in Nat /\ Len(b) \in Nat
  BY LenProperties
<1>4. 1 \in 1..Len(a) + 1 /\ 1 \in 1..Len(b) + 1
  BY <1>3
<1>5. Count(lineDiff(a, b), "kept") = LCS(a, b)[<<1, 1>>]
  <2>1. KeptAre(f, LCS(a, b), 1, 1)
    BY <1>1, <1>4, KeptFrom, Zenon
  <2> QED BY <1>1, <2>1 DEF KeptAre
<1>6. IsTable(LCS(a, b), a, b)
  BY <1>3, TableIs
<1> DEFINE lcs == LCS(a, b)
<1> HIDE DEF lcs
<1>7. Best(a, b, lcs, 1, 1)
  BY <1>3, <1>4, <1>6, BestFrom, Zenon DEF lcs
<1>8. lcs[<<1, 1>>] \in Nat
  BY <1>3, <1>4, <1>6, TableType, Zenon DEF lcs
<1>9. Cardinality(old) \in Nat
  <2>1. IsFiniteSet(1..Len(a))
    BY <1>3, FS_Interval
  <2>2. IsFiniteSet(old)
    BY <2>1, FS_Subset, Zenon
  <2> QED BY <2>2, FS_CardinalityType
<1>10. ~Paired(a, b, old, new)
  <2>1. \A m, n \in Nat : m > n => ~(m <= n)
    OBVIOUS
  <2>2. Cardinality(old) > lcs[<<1, 1>>]
    BY <1>5 DEF lcs
  <2> QED BY <1>7, <1>8, <1>9, <2>1, <2>2, Zenon DEF Best
<1> QED BY <1>10, Zenon DEF Paired
=============================================================================
