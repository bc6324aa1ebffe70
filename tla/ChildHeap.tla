----------------------------- MODULE ChildHeap -----------------------------
(***************************************************************************)
(* The tournament tree with which a Coupling finds the child that steps    *)
(* next (engine/coupling.cpp, class ChildHeap), as operators on a tree of  *)
(* `size' children whose events are at `times'.  Level 0 holds one entry   *)
(* for each child, every other level the winners of pairs of the level     *)
(* below, and the top the child returned by next().  Levels are padded to  *)
(* an even width with entries of time 1e100, whose model is 0.             *)
(*                                                                         *)
(* Every other module of this project relies on what is checked here:      *)
(* among the children with the earliest event the one with the lowest      *)
(* index steps.                                                            *)
(***************************************************************************)
EXTENDS Integers

CONSTANTS Finite,      \* times of events that may happen
          Pad,         \* 1e100
          Passive      \* times of passive children: max() and infinity

ASSUME HeapAssumption ==
    /\ Pad \in Nat
    /\ Finite \subseteq {n \in Nat : n < Pad}
    /\ Passive \subseteq {n \in Nat : n > Pad}

(* ceil(log2(size)), the last of the levels.                               *)
Top(size) ==
    LET pow2[k \in 0 .. size] == IF k = 0 THEN 1 ELSE 2 * pow2[k - 1]
    IN  CHOOSE k \in 0 .. size : pow2[k] >= size /\ \A j \in 0 .. k - 1 : pow2[j] < size

Width(size) ==
    LET width[level \in 0 .. Top(size)] ==
          LET s == IF level = 0 THEN size ELSE width[level - 1] \div 2
          IN  IF level = Top(size) THEN s ELSE s + (s % 2)
    IN  width

(* vector::resize value-initialises the entry.                             *)
PadEntry == [model |-> 0, tn |-> Pad]

(* The comparison of ChildHeap::create.                                    *)
Winner(a, b) ==
    IF a.tn < b.tn THEN a
    ELSE IF a.tn > b.tn THEN b
    ELSE IF a.model < b.model THEN a ELSE b

(* ChildHeap::create.                                                      *)
create(size, times) ==
    LET level[i \in 0 .. Top(size)] ==
          [j \in 0 .. Width(size)[i] - 1 |->
             IF i = 0
             THEN IF j < size THEN [model |-> j, tn |-> times[j]] ELSE PadEntry
             ELSE IF 2 * j < Width(size)[i - 1] THEN Winner(level[i - 1][2 * j], level[i - 1][2 * j + 1])
             ELSE PadEntry]
    IN  level

Sibling(p) == IF p % 2 = 0 THEN p + 1 ELSE p - 1

(* The position that update prefers when both times are equal.             *)
TieWinner(p) == IF p < Sibling(p) THEN p ELSE Sibling(p)

(* The entry at p loses to a sibling that was the winner before.           *)
KeepsParent(row, p, parent) ==
    /\ row[p].tn > row[Sibling(p)].tn
    /\ row[Sibling(p)].model = parent.model

(* One turn of the loop of ChildHeap::update.  It goes on as long as the   *)
(* parent entry has been written.                                          *)
Climb(c, level) ==
    IF ~c.climbing THEN c
    ELSE LET p == c.p
             row == c.heap[level]
             winner == IF row[p].tn < row[Sibling(p)].tn THEN p
                       ELSE IF row[p].tn = row[Sibling(p)].tn THEN TieWinner(p)
                       ELSE Sibling(p)
             stops == KeepsParent(row, p, c.heap[level + 1][p \div 2])
         IN  [heap |-> IF stops THEN c.heap
                       ELSE [c.heap EXCEPT ![level + 1][p \div 2] = row[winner]],
              p |-> p \div 2,
              climbing |-> ~stops]

(* ChildHeap::update, after a child's time has become time.                *)
update(size, h, child, time) ==
    LET climbed[level \in 0 .. Top(size)] ==
          IF level = 0
          THEN [heap |-> [h EXCEPT ![0][child].tn = time], p |-> child, climbing |-> TRUE]
          ELSE Climb(climbed[level - 1], level - 1)
    IN  climbed[Top(size)].heap

(* ChildHeap::next.                                                        *)
next(size, h) == h[Top(size)][0].model

-----------------------------------------------------------------------------
(* Every level below the top is even and every entry names a child.        *)
HeapTypeOK(size, times, h) ==
    /\ times \in [0 .. size - 1 -> Finite \cup Passive]
    /\ DOMAIN h = 0 .. Top(size)
    /\ \A i \in DOMAIN h :
          h[i] \in [0 .. Width(size)[i] - 1 -> [model : 0 .. size - 1, tn : Finite \cup Passive \cup {Pad}]]

(* After any sequence of updates next() is the child with the lowest index *)
(* among those with the earliest event, as the search that is commented    *)
(* out in Coupling::ta; padding never hides an event.                      *)
NextIsEarliest(size, times, h) ==
    (\E c \in 0 .. size - 1 : times[c] \in Finite) =>
        LET first == next(size, h)
        IN  \A c \in 0 .. size - 1 : times[first] < times[c] \/ (times[first] = times[c] /\ first <= c)

(* The early exit of update leaves no stale entry below the top: the tree  *)
(* is the one that create would build from scratch.  The top is different: *)
(* its time, which nothing reads, can be stale when child 0 becomes        *)
(* passive, since update compares models and padding has model 0 as well.  *)
Fresh(size, times, h) ==
    LET rebuilt == create(size, times)
    IN  \A i \in 0 .. Top(size) - 1 : h[i] = rebuilt[i]
=============================================================================
