------------------------------ MODULE TextDiff ------------------------------
(***************************************************************************)
(* The line diffs of the previews: of a Caddyfile                           *)
(* (caddy/internal/caddyplugin/diff.go) and of a deployment script          *)
(* (forge/internal/forgeplugin/diff.go), which differ in where a hunk ends, *)
(* in how an empty side is numbered and in giving up on long scripts.       *)
(* A text is the sequence of its lines; a hunk is written with the lines it *)
(* starts at and its operations, of which its counts follow.                *)
(***************************************************************************)
EXTENDS Integers, Sequences, FiniteSetsExt

CONSTANTS diffContext, maxDiffCells

ASSUME DiffAssumption == diffContext \in Nat /\ maxDiffCells \in Nat

Op(kind, line) == [kind |-> kind, line |-> line]

\* lcs[<<i, j>>] is the length of the longest common subsequence of a[i:] and b[j:].
LCS(a, b) ==
  LET lcs[at \in (1..Len(a) + 1) \X (1..Len(b) + 1)] ==
        LET i == at[1]
            j == at[2]
        IN IF i > Len(a) \/ j > Len(b) THEN 0
           ELSE IF a[i] = b[j] THEN lcs[<<i + 1, j + 1>>] + 1
           ELSE Max({lcs[<<i + 1, j>>], lcs[<<i, j + 1>>]})
  IN lcs

GreedyDiff(a, b) ==                \* mutant: removes whatever does not match
  LET ops[at \in (1..Len(a) + 1) \X (1..Len(b) + 1)] ==
        LET i == at[1]
            j == at[2]
        IN IF i > Len(a) /\ j > Len(b) THEN <<>>
           ELSE IF i <= Len(a) /\ j <= Len(b) /\ a[i] = b[j] THEN <<Op("kept", a[i])>> \o ops[<<i + 1, j + 1>>]
           ELSE IF i <= Len(a) THEN <<Op("removed", a[i])>> \o ops[<<i + 1, j>>]
           ELSE <<Op("added", b[j])>> \o ops[<<i, j + 1>>]
  IN ops[<<1, 1>>]

\* Every line kept, removed or added, in order.
lineDiff(a, b) ==
  LET lcs == LCS(a, b)
      ops[at \in (1..Len(a) + 1) \X (1..Len(b) + 1)] ==
        LET i == at[1]
            j == at[2]
        IN IF i > Len(a) /\ j > Len(b) THEN <<>>
           ELSE IF i <= Len(a) /\ j <= Len(b) /\ a[i] = b[j] THEN <<Op("kept", a[i])>> \o ops[<<i + 1, j + 1>>]
           ELSE IF i <= Len(a) /\ (j > Len(b) \/ lcs[<<i + 1, j>>] >= lcs[<<i, j + 1>>])
                THEN <<Op("removed", a[i])>> \o ops[<<i + 1, j>>]
           ELSE <<Op("added", b[j])>> \o ops[<<i, j + 1>>]
  IN ops[<<1, 1>>]

\* The same algorithm.
diffLines(a, b) == lineDiff(a, b)

Changes(ops) == {k \in DOMAIN ops : ops[k].kind # "kept"}
Count(ops, kind) == Cardinality({k \in DOMAIN ops : ops[k].kind = kind})

\* The lines of the operations that are not of a kind, and those of either text.
LinesBut(ops, kind) ==
  LET lines[n \in 0..Len(ops)] == IF n = 0 THEN <<>>
                                  ELSE IF ops[n].kind = kind THEN lines[n - 1]
                                  ELSE Append(lines[n - 1], ops[n].line)
  IN lines[Len(ops)]
OldLines(ops) == LinesBut(ops, "added")
NewLines(ops) == LinesBut(ops, "removed")

\* Of the changes from first on, the last before the next gap lines without one.
Reach(ops, first, gap) ==
  Min({k \in Changes(ops) : k >= first /\ \A m \in Changes(ops) : m > k => m > k + gap})

HunkFromZero(ops, lo, hi) ==       \* mutant: lines are numbered from zero
  [old |-> Len(OldLines(SubSeq(ops, 1, lo - 1))), new |-> Len(NewLines(SubSeq(ops, 1, lo - 1))),
   ops |-> SubSeq(ops, lo, hi)]

\* ops[lo..hi], and the lines of either text it starts at.
Hunk(ops, lo, hi) == [old |-> 1 + Len(OldLines(SubSeq(ops, 1, lo - 1))),
                      new |-> 1 + Len(NewLines(SubSeq(ops, 1, lo - 1))),
                      ops |-> SubSeq(ops, lo, hi)]

\* The hunks of the changes from start on, where an earlier hunk has ended.
unified(ops) ==
  LET from[start \in 1..Len(ops) + 1] ==
        LET later == {k \in Changes(ops) : k >= start}
            hi == Min({Reach(ops, Min(later), 2 * diffContext + 1) + diffContext, Len(ops)})
        IN IF later = {} THEN <<>>
           ELSE <<Hunk(ops, Max({Min(later) - diffContext, start}), hi)>> \o from[hi + 1]
  IN from[1]

\* writeHunk: an empty side is numbered by the line before it.
writeHunk(hunk) == [old |-> IF OldLines(hunk.ops) = <<>> THEN hunk.old - 1 ELSE hunk.old,
                    new |-> IF NewLines(hunk.ops) = <<>> THEN hunk.new - 1 ELSE hunk.new,
                    ops |-> hunk.ops]

HunksApart(ops) == 2 * diffContext - 1 \* mutant: hunks that would touch are not joined

\* How far from a change the next one still joins its hunk.
Joined(ops) == 2 * diffContext

\* unifiedDiff: where a hunk starts does not look at where the last one ended.
unifiedDiff(ops) ==
  LET from[start \in 1..Len(ops) + 1] ==
        LET later == {k \in Changes(ops) : k >= start}
            hi == Min({Reach(ops, Min(later), Joined(ops)) + diffContext, Len(ops)})
        IN IF later = {} THEN <<>>
           ELSE <<writeHunk(Hunk(ops, Max({Min(later) - diffContext, 1}), hi))>> \o from[hi + 1]
  IN from[1]

\* A script is its lines and whether the last of them is ended.
NoDiff == [changed |-> FALSE, added |-> 0, removed |-> 0, truncated |-> FALSE, hunks |-> <<>>]

diffScripts(current, proposed) ==
  LET a == current.lines
      b == proposed.lines
      ops == lineDiff(a, b)
  IN IF current = proposed THEN NoDiff
     ELSE IF Len(a) * Len(b) > maxDiffCells
     THEN [changed |-> TRUE, added |-> Len(b), removed |-> Len(a), truncated |-> TRUE, hunks |-> <<>>]
     ELSE [changed |-> TRUE, added |-> Count(ops, "added"), removed |-> Count(ops, "removed"), truncated |-> FALSE,
           hunks |-> unified(ops)]

-----------------------------------------------------------------------------
(* What a reader of a diff takes it to mean.                                *)

\* An empty side is numbered by the line before it in a Caddyfile's diff.
Placed(h) == [old |-> IF OldLines(h.ops) = <<>> THEN h.old + 1 ELSE h.old,
              new |-> IF NewLines(h.ops) = <<>> THEN h.new + 1 ELSE h.new,
              ops |-> h.ops]

\* The line of the current text after the k-th of hunks, and after none.
After(hunks, k) == IF k = 0 THEN 1 ELSE hunks[k].old + Len(OldLines(hunks[k].ops))

\* The text a with the hunks applied, each at the line it says.
Patched(a, hunks) ==
  LET text[k \in 0..Len(hunks)] ==
        IF k = 0 THEN <<>>
        ELSE text[k - 1] \o SubSeq(a, After(hunks, k - 1), hunks[k].old - 1) \o NewLines(hunks[k].ops)
  IN text[Len(hunks)] \o SubSeq(a, After(hunks, Len(hunks)), Len(a))

\* Each hunk stands where it says, in a as in b, and after the one before it.
InPlace(a, b, hunks) ==
  \A k \in DOMAIN hunks :
    LET h == hunks[k]
        old == OldLines(h.ops)
        new == NewLines(h.ops)
    IN /\ SubSeq(a, h.old, h.old + Len(old) - 1) = old
       /\ SubSeq(b, h.new, h.new + Len(new) - 1) = new
       /\ h.old >= After(hunks, k - 1)

\* Where i comes in S.
Rank(S, i) == Cardinality({k \in S : k <= i})
=============================================================================
