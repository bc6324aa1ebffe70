-------------------------- MODULE SimulationProofs --------------------------
(***************************************************************************)
(* The engine, and a protocol that it simulates.                           *)
(*                                                                         *)
(* For every number of children of the two couplings, all connections      *)
(* between them and all times: the trees and the times that the couplings  *)
(* cache act as one agenda, the model that makes an output is the one that *)
(* makes the internal transition, and a simulation that does not advance   *)
(* is aborted after the configured number of steps.                        *)
(*                                                                         *)
(* For every number of packets, every threshold and every capacity of the  *)
(* queue: the TCP sender never forwards from nothing and never exceeds its *)
(* window, what it has forgotten has arrived, and the connection is a FIFO *)
(* channel.                                                                *)
(***************************************************************************)
EXTENDS RootSimulator, TcpConnection, FiniteSetTheorems, ProofFacts

-----------------------------------------------------------------------------
(* The shape of the tree.                                                  *)

(* The number of entries of a level before it is padded.                   *)
Entries(n, i) == IF i = 0 THEN n ELSE Width(n)[i - 1] \div 2

(* Twice as many children need one level more.                             *)
LEMMA TopExists ==
  ASSUME NEW n \in Nat \ {0}
  PROVE  \E P : /\ \A k \in 0 .. n : P[k] \in Nat /\ P[k] = IF k = 0 THEN 1 ELSE 2 * P[k - 1]
                /\ Top(n) \in 0 .. n
                /\ P[Top(n)] >= n
                /\ \A j \in 0 .. Top(n) - 1 : P[j] < n
  <1> DEFINE P == CHOOSE f : f = [k \in 0 .. n |-> IF k = 0 THEN 1 ELSE 2 * f[k - 1]]
             V == [i \in 0 .. n |-> Nat]
             step == [i \in 0 .. n - 1 |-> [x \in Nat |-> 2 * x]]
  <1>1. \E f : f = [k \in 0 .. n |-> IF k = 0 THEN 1 ELSE 2 * f[k - 1]]
    <2>1. \A i \in 0 .. n - 1 : /\ i \in 0 .. n /\ i + 1 \in 0 .. n
                                /\ \A x \in Nat : step[i][x] = 2 * x
      OBVIOUS
    <2>2. 0 \in 0 .. n /\ \A i \in 0 .. n : V[i] = Nat
      OBVIOUS
    <2> HIDE DEF V, step
    <2>3. \A i \in 0 .. n - 1 : \A x \in V[i] : step[i][x] \in V[i + 1]
      BY <2>1, <2>2
    <2>4. 1 \in V[0] /\ n \in Nat
      BY <2>2
    <2>5. PICK f : IsLevels(n, 1, step, f)
      BY <2>3, <2>4, LevelsExist
    <2>6. f = [k \in 0 .. n |-> IF k = 0 THEN 1 ELSE step[k - 1][f[k - 1]]]
      BY <2>5 DEF IsLevels
    <2>7. 0 .. n \subseteq {i \in 0 .. n : f[i] \in Nat}
      <3> DEFINE G == {i \in 0 .. n : f[i] \in Nat}
      <3>1. 0 \in G
        BY <2>6
      <3>2. ASSUME NEW i \in 0 .. n - 1, i \in G
            PROVE  i + 1 \in G
        <4>1. i + 1 \in 0 .. n /\ i + 1 # 0 /\ (i + 1) - 1 = i
          OBVIOUS
        <4>2. f[i + 1] = step[i][f[i]]
          BY <2>6, <4>1
        <4> QED
          BY <2>1, <3>2, <4>1, <4>2
      <3> HIDE DEF G
      <3>3. 0 .. n \subseteq G
        BY <3>1, <3>2, IntervalInduction
      <3> QED
        BY <3>3 DEF G
    <2>8. ASSUME NEW k \in 0 .. n
          PROVE  (IF k = 0 THEN 1 ELSE step[k - 1][f[k - 1]]) = IF k = 0 THEN 1 ELSE 2 * f[k - 1]
      <3>1. k # 0 => k - 1 \in 0 .. n - 1 /\ k - 1 \in 0 .. n
        OBVIOUS
      <3>2. k # 0 => f[k - 1] \in Nat
        BY <2>7, <3>1
      <3> QED
        BY <2>1, <3>1, <3>2
    <2>9. f = [k \in 0 .. n |-> IF k = 0 THEN 1 ELSE 2 * f[k - 1]]
      BY <2>6, <2>8, Zenon
    <2> QED
      BY <2>9
  <1>2. P = [k \in 0 .. n |-> IF k = 0 THEN 1 ELSE 2 * P[k - 1]]
    BY <1>1, Zenon
  <1>3. Top(n) = CHOOSE k \in 0 .. n : P[k] >= n /\ \A j \in 0 .. k - 1 : P[j] < n
    BY Zenon DEF Top
  <1> HIDE DEF P
  <1>4. \A k \in 0 .. n : P[k] = IF k = 0 THEN 1 ELSE 2 * P[k - 1]
    BY <1>2, Zenon
  <1>5. \A k \in 0 .. n : P[k] \in Nat /\ P[k] >= k /\ P[k] > 0
    <2> DEFINE G == {k \in 0 .. n : P[k] \in Nat /\ P[k] >= k /\ P[k] > 0}
    <2>1. 0 \in G
      BY <1>4
    <2>2. ASSUME NEW i \in 0 .. n - 1, i \in G
          PROVE  i + 1 \in G
      <3>1. i + 1 \in 0 .. n /\ i + 1 # 0 /\ (i + 1) - 1 = i
        OBVIOUS
      <3>2. P[i + 1] = 2 * P[i]
        BY <1>4, <3>1
      <3> QED
        BY <2>2, <3>1, <3>2
    <2> HIDE DEF G
    <2>3. 0 .. n \subseteq G
      BY <2>1, <2>2, IntervalInduction
    <2> QED
      BY <2>3 DEF G
  <1>6. \E k \in 0 .. n : P[k] >= n /\ \A j \in 0 .. k - 1 : P[j] < n
    <2> DEFINE S == {k \in 0 .. n : P[k] >= n}
    <2>1. n \in S /\ S \subseteq Nat
      BY <1>5
    <2>2. PICK k \in S : \A j \in S : k <= j
      <3> HIDE DEF S
      <3> QED
        BY <2>1, LeastExists
    <2>3. \A j \in 0 .. k - 1 : j \in 0 .. n /\ j \notin S
      BY <2>2
    <2> QED
      BY <1>5, <2>2, <2>3
  <1> QED
    BY <1>3, <1>4, <1>5, <1>6

LEMMA WidthEquation ==
  ASSUME NEW n \in Nat \ {0}
  PROVE  /\ Top(n) \in Nat
         /\ Width(n) = [i \in 0 .. Top(n) |-> Width(n)[i]]
         /\ \A i \in 0 .. Top(n) :
               /\ Entries(n, i) \in Nat /\ Width(n)[i] \in Nat
               /\ Width(n)[i] = IF i = Top(n) THEN Entries(n, i) ELSE Entries(n, i) + (Entries(n, i) % 2)
  <1> DEFINE top == Top(n)
             padded(i, s) == IF i = top THEN s ELSE s + (s % 2)
             W == CHOOSE w : w = [i \in 0 .. top |-> LET s == IF i = 0 THEN n ELSE w[i - 1] \div 2
                                                      IN  IF i = top THEN s ELSE s + (s % 2)]
             V == [i \in 0 .. top |-> Nat]
             v == padded(0, n)
             step == [i \in 0 .. top - 1 |-> [x \in Nat |-> padded(i + 1, x \div 2)]]
  <1>0. top \in Nat
    BY TopExists
  <1>w. Width(n) = W
    BY Zenon DEF Width
  <1>p. \A i \in 0 .. top, s \in Nat : padded(i, s) \in Nat
    OBVIOUS
  <1> HIDE DEF top
  <1>1. \E w : w = [i \in 0 .. top |-> LET s == IF i = 0 THEN n ELSE w[i - 1] \div 2
                                        IN  IF i = top THEN s ELSE s + (s % 2)]
    <2>1. \A i \in 0 .. top - 1 : /\ i \in 0 .. top /\ i + 1 \in 0 .. top
                                  /\ \A x \in Nat : step[i][x] = padded(i + 1, x \div 2)
      BY <1>0
    <2>2. \A i \in 0 .. top : V[i] = Nat
      OBVIOUS
    <2>3. v \in Nat
      OBVIOUS
    <2>d. \A x \in Nat : x \div 2 \in Nat
      OBVIOUS
    <2>e. v = padded(0, n)
      OBVIOUS
    <2> HIDE DEF V, step, padded, v
    <2>4. ASSUME NEW i \in 0 .. top - 1, NEW x \in V[i]
          PROVE  step[i][x] \in V[i + 1]
      <3>1. x \in Nat /\ V[i + 1] = Nat /\ i + 1 \in 0 .. top
        BY <2>1, <2>2
      <3>2. x \div 2 \in Nat /\ step[i][x] = padded(i + 1, x \div 2)
        BY <2>1, <2>d, <3>1
      <3> QED
        BY <1>p, <3>1, <3>2
    <2>5. 0 \in 0 .. top
      BY <1>0
    <2>6. v \in V[0]
      BY <2>2, <2>3, <2>5
    <2>7. PICK w : IsLevels(top, v, step, w)
      BY <1>0, <2>4, <2>6, LevelsExist
    <2>8. w = [i \in 0 .. top |-> IF i = 0 THEN v ELSE step[i - 1][w[i - 1]]]
      BY <2>7 DEF IsLevels
    <2>9. 0 .. top \subseteq {i \in 0 .. top : w[i] \in Nat}
      <3> DEFINE G == {i \in 0 .. top : w[i] \in Nat}
      <3>1. 0 \in G
        BY <2>3, <2>5, <2>8
      <3>2. ASSUME NEW i \in 0 .. top - 1, i \in G
            PROVE  i + 1 \in G
        <4>1. i + 1 \in 0 .. top /\ i + 1 # 0 /\ (i + 1) - 1 = i
          BY <1>0
        <4>2. w[i + 1] = step[i][w[i]]
          BY <2>8, <4>1
        <4> QED
          BY <1>p, <2>1, <2>d, <3>2, <4>1, <4>2
      <3> HIDE DEF G
      <3>3. 0 .. top \subseteq G
        BY <1>0, <3>1, <3>2, IntervalInduction
      <3> QED
        BY <3>3 DEF G
    <2>10. ASSUME NEW i \in 0 .. top
           PROVE  (IF i = 0 THEN v ELSE step[i - 1][w[i - 1]])
                     = padded(i, IF i = 0 THEN n ELSE w[i - 1] \div 2)
      <3>1. i # 0 => i - 1 \in 0 .. top - 1 /\ i - 1 \in 0 .. top /\ (i - 1) + 1 = i
        BY <1>0
      <3>2. i # 0 => w[i - 1] \in Nat
        BY <2>9, <3>1
      <3>3. CASE i = 0
        BY <2>e, <3>3
      <3>4. CASE i # 0
        BY <2>1, <3>1, <3>2, <3>4
      <3> QED
        BY <3>3, <3>4
    <2>11. w = [i \in 0 .. top |-> padded(i, IF i = 0 THEN n ELSE w[i - 1] \div 2)]
      BY <2>8, <2>10, Zenon
    <2> QED
      BY <2>11, Zenon DEF padded
  <1>2. W = [i \in 0 .. top |-> LET s == IF i = 0 THEN n ELSE W[i - 1] \div 2
                                 IN  IF i = top THEN s ELSE s + (s % 2)]
    BY <1>1, Zenon
  <1>3. W = [i \in 0 .. top |-> padded(i, IF i = 0 THEN n ELSE W[i - 1] \div 2)]
    BY <1>2, Zenon
  <1> HIDE DEF W, padded
  <1>4. \A i \in 0 .. top : W[i] = padded(i, IF i = 0 THEN n ELSE W[i - 1] \div 2)
    BY <1>3, Zenon
  <1>5. W = [i \in 0 .. top |-> W[i]]
    BY <1>3
  <1>6. 0 .. top \subseteq {i \in 0 .. top : W[i] \in Nat}
    <2> DEFINE G == {i \in 0 .. top : W[i] \in Nat}
    <2>1. 0 \in G
      BY <1>0, <1>4, <1>p
    <2>2. ASSUME NEW i \in 0 .. top - 1, i \in G
          PROVE  i + 1 \in G
      <3>1. i + 1 \in 0 .. top /\ i + 1 # 0 /\ (i + 1) - 1 = i
        BY <1>0
      <3>2. W[i + 1] = padded(i + 1, W[i] \div 2)
        BY <1>4, <3>1
      <3>3. W[i] \div 2 \in Nat
        BY <2>2
      <3> QED
        BY <1>p, <3>1, <3>2, <3>3
    <2> HIDE DEF G
    <2>3. 0 .. top \subseteq G
      BY <1>0, <2>1, <2>2, IntervalInduction
    <2> QED
      BY <2>3 DEF G
  <1>7. ASSUME NEW i \in 0 .. top
        PROVE  Entries(n, i) \in Nat /\ W[i] \in Nat /\ W[i] = padded(i, Entries(n, i))
    <2>1. i # 0 => i - 1 \in 0 .. top
      BY <1>0
    <2>2. i # 0 => W[i - 1] \in Nat
      BY <1>6, <2>1
    <2>3. Entries(n, i) = IF i = 0 THEN n ELSE W[i - 1] \div 2
      BY <1>w DEF Entries
    <2> QED
      BY <1>4, <1>6, <2>2, <2>3
  <1> QED
    BY <1>0, <1>w, <1>5, <1>7 DEF top, padded

(* Below the top a level has at least two entries, and it is the widths of *)
(* the levels that let update stop early.                                  *)
LEMMA WidthFacts ==
  ASSUME NEW n \in Nat \ {0}
  PROVE  /\ Top(n) \in Nat
         /\ Entries(n, 0) = n
         /\ Entries(n, Top(n)) = 1 /\ Width(n)[Top(n)] = 1
         /\ \A i \in 0 .. Top(n) - 1 :
               /\ Entries(n, i) \in Nat /\ Entries(n, i) >= 2
               /\ Entries(n, i + 1) \in Nat
               /\ Width(n)[i] = 2 * Entries(n, i + 1)
               /\ Width(n)[i] - 1 <= Entries(n, i) /\ Entries(n, i) <= Width(n)[i]
  <1> DEFINE top == Top(n)
             u == [i \in 0 .. top |-> Entries(n, i)]
  <1>0. top \in 0 .. n /\ top \in Nat /\ Entries(n, 0) = n
    BY TopExists DEF Entries
  <1>1. PICK P : /\ \A k \in 0 .. n : P[k] \in Nat /\ P[k] = IF k = 0 THEN 1 ELSE 2 * P[k - 1]
                 /\ P[top] >= n
                 /\ \A j \in 0 .. top - 1 : P[j] < n
    BY TopExists
  <1>u. \A i \in 0 .. top : u[i] = Entries(n, i)
    OBVIOUS
  <1>w. \A i \in 0 .. top : /\ Entries(n, i) \in Nat
                            /\ Width(n)[i] = IF i = top THEN Entries(n, i) ELSE Entries(n, i) + (Entries(n, i) % 2)
    BY WidthEquation
  <1> HIDE DEF u, top
  <1>2. ASSUME NEW i \in 0 .. top - 1
        PROVE  /\ i \in 0 .. top /\ i + 1 \in 0 .. top
               /\ u[i] \in Nat /\ Width(n)[i] = u[i] + (u[i] % 2)
               /\ u[i + 1] = (u[i] + (u[i] % 2)) \div 2
               /\ u[i + 1] \in Nat
    <2>1. i \in 0 .. top /\ i + 1 \in 0 .. top /\ i # top /\ (i + 1) - 1 = i /\ i + 1 # 0
      BY <1>0
    <2>2. u[i] \in Nat /\ Width(n)[i] = u[i] + (u[i] % 2)
      BY <1>u, <1>w, <2>1
    <2>3. Entries(n, i + 1) = Width(n)[i] \div 2
      BY <2>1 DEF Entries
    <2> QED
      BY <1>u, <1>w, <2>1, <2>2, <2>3
  <1>3. 0 .. top \subseteq {i \in 0 .. top : u[i] \in Nat /\ u[i] >= 1 /\ u[i] <= P[top - i]}
    <2> DEFINE G == {i \in 0 .. top : u[i] \in Nat /\ u[i] >= 1 /\ u[i] <= P[top - i]}
    <2>1. 0 \in G
      BY <1>0, <1>1, <1>u
    <2>2. ASSUME NEW i \in 0 .. top - 1, i \in G
          PROVE  i + 1 \in G
      <3>1. /\ top - i \in 0 .. n /\ top - i # 0 /\ (top - i) - 1 = top - (i + 1)
            /\ top - (i + 1) \in 0 .. n
        BY <1>0
      <3>2. P[top - i] = 2 * P[top - (i + 1)] /\ P[top - (i + 1)] \in Nat
        BY <1>1, <3>1
      <3>3. u[i] \in Nat /\ u[i] >= 1 /\ u[i] <= 2 * P[top - (i + 1)]
        BY <2>2, <3>2
      <3>4. u[i + 1] >= 1 /\ u[i + 1] <= P[top - (i + 1)]
        <4> DEFINE x == u[i]
                   p == P[top - (i + 1)]
        <4>1. x \in Nat /\ x >= 1 /\ p \in Nat /\ x <= 2 * p
          BY <3>2, <3>3
        <4>2. u[i + 1] = (x + (x % 2)) \div 2
          BY <1>2
        <4> HIDE DEF x, p
        <4>3. (x + (x % 2)) \div 2 >= 1 /\ (x + (x % 2)) \div 2 <= p
          BY <4>1
        <4> QED
          BY <4>2, <4>3 DEF p
      <3> QED
        BY <1>2, <3>4
    <2> HIDE DEF G
    <2>3. 0 .. top \subseteq G
      BY <1>0, <2>1, <2>2, IntervalInduction
    <2> QED
      BY <2>3 DEF G
  <1>4. u[top] = 1
    <2>1. top \in 0 .. top /\ top - top = 0 /\ 0 \in 0 .. n
      BY <1>0
    <2> QED
      BY <1>1, <1>3, <2>1
  <1>5. ASSUME NEW i \in 0 .. top - 1
        PROVE  u[i] >= 2
    <2> SUFFICES ASSUME u[i] = 1 PROVE FALSE
      BY <1>2, <1>3
    <2>0. i \in Nat /\ i < top /\ i < n
      BY <1>0
    <2>1. 0 .. i \subseteq {k \in 0 .. i : u[i - k] <= P[k]}
      <3> DEFINE G == {k \in 0 .. i : u[i - k] <= P[k]}
      <3>1. 0 \in G
        BY <1>0, <1>1, <2>0
      <3>2. ASSUME NEW k \in 0 .. i - 1, k \in G
            PROVE  k + 1 \in G
        <4>1. /\ i - (k + 1) \in 0 .. top - 1 /\ (i - (k + 1)) + 1 = i - k
              /\ k + 1 \in 0 .. n /\ k + 1 # 0 /\ (k + 1) - 1 = k /\ k \in 0 .. n
          BY <1>0, <2>0
        <4>2. P[k + 1] = 2 * P[k] /\ P[k] \in Nat
          BY <1>1, <4>1
        <4> DEFINE x == u[i - (k + 1)]
                   p == P[k]
        <4>3. x \in Nat /\ p \in Nat /\ (x + (x % 2)) \div 2 <= p
          BY <1>2, <3>2, <4>1, <4>2
        <4> HIDE DEF x, p
        <4>4. x <= 2 * p
          BY <4>3
        <4> QED
          BY <4>1, <4>2, <4>4 DEF x, p
      <3> HIDE DEF G
      <3>3. 0 .. i \subseteq G
        BY <2>0, <3>1, <3>2, IntervalInduction
      <3> QED
        BY <3>3 DEF G
    <2>2. u[0] <= P[i]
      <3>1. i \in 0 .. i /\ i - i = 0
        BY <2>0
      <3> QED
        BY <2>1, <3>1
    <2>3. u[0] = n /\ P[i] < n /\ P[i] \in Nat
      <3>1. 0 \in 0 .. top /\ i \in 0 .. n
        BY <1>0, <2>0
      <3> QED
        BY <1>0, <1>1, <1>u, <3>1
    <2> QED
      BY <2>2, <2>3
  <1>6. ASSUME NEW i \in 0 .. top - 1
        PROVE  /\ Entries(n, i) \in Nat /\ Entries(n, i) >= 2
               /\ Entries(n, i + 1) \in Nat
               /\ Width(n)[i] = 2 * Entries(n, i + 1)
               /\ Width(n)[i] - 1 <= Entries(n, i) /\ Entries(n, i) <= Width(n)[i]
    <2> DEFINE x == u[i]
               y == u[i + 1]
    <2>1. x \in Nat /\ y \in Nat /\ x >= 2 /\ Width(n)[i] = x + (x % 2) /\ y = (x + (x % 2)) \div 2
      BY <1>2, <1>5
    <2>2. x = Entries(n, i) /\ y = Entries(n, i + 1)
      BY <1>2, <1>u
    <2> HIDE DEF x, y
    <2>3. x + (x % 2) = 2 * y /\ x + (x % 2) - 1 <= x /\ x <= x + (x % 2)
      BY <2>1
    <2> QED
      BY <2>1, <2>2, <2>3
  <1>7. Entries(n, top) = 1 /\ Width(n)[top] = 1
    <2>1. top \in 0 .. top
      BY <1>0
    <2> QED
      BY <1>4, <1>u, <1>w, <2>1
  <1> QED
    BY <1>0, <1>6, <1>7 DEF top

-----------------------------------------------------------------------------
(* Levels.                                                                 *)

EventTimes == Finite \cup Passive
EntryOf(n) == [model : 0 .. n - 1, tn : EventTimes \cup {Pad}]

(* On a level that is right the winner of two entries is the left one of   *)
(* those with the lowest time.                                             *)
Best(a, b) == IF a.tn <= b.tn THEN a ELSE b

(* An entry is a child with its time or padding, children come in order,   *)
(* each child has an entry that goes before it, and at most the last       *)
(* entry that the level below has given is padding.                        *)
Dominates(e, T, c) == e.tn < T[c] \/ (e.tn = T[c] /\ e.model <= c)

RightRow(n, T, i, row) ==
    /\ row \in [0 .. Width(n)[i] - 1 -> EntryOf(n)]
    /\ \A j \in 0 .. Width(n)[i] - 1 : row[j] = PadEntry \/ row[j].tn = T[row[j].model]
    /\ \A j, k \in 0 .. Width(n)[i] - 1 :
          j < k /\ row[j].tn # Pad /\ row[k].tn # Pad => row[j].model < row[k].model
    /\ \A c \in 0 .. n - 1 : \E j \in 0 .. Width(n)[i] - 1 : Dominates(row[j], T, c)
    /\ \A j \in 0 .. Entries(n, i) - 2 : row[j].tn # Pad

(* The entry at j of the level above a row.                                *)
Above(n, i, row, j) == IF 2 * j < Width(n)[i] THEN Best(row[2 * j], row[2 * j + 1]) ELSE PadEntry

LEMMA TimesAreNat ==
  /\ EventTimes \subseteq Nat /\ Pad \in Nat /\ Pad \notin EventTimes
  /\ \A x \in Finite : x < Pad
  /\ \A x \in Passive : Pad < x
  BY HeapAssumption DEF EventTimes

LEMMA PadIsEntry ==
  ASSUME NEW n \in Nat \ {0}
  PROVE  PadEntry \in EntryOf(n) /\ PadEntry.tn = Pad /\ PadEntry.model = 0
  BY DEF PadEntry, EntryOf

LEMMA EntryParts ==
  ASSUME NEW n \in Nat \ {0}, NEW e \in EntryOf(n)
  PROVE  e.tn \in Nat /\ e.model \in 0 .. n - 1 /\ e.model \in Nat
         /\ (e.tn # Pad => e.tn \in EventTimes)
  <1>1. e.model \in 0 .. n - 1 /\ e.tn \in EventTimes \cup {Pad}
    BY DEF EntryOf
  <1>2. e.model \in Nat
    BY <1>1
  <1>3. e.tn \in Nat
    BY <1>1, TimesAreNat
  <1> QED
    BY <1>1, <1>2, <1>3

LEMMA FirstRow ==
  ASSUME NEW n \in Nat \ {0}, NEW T \in [0 .. n - 1 -> EventTimes],
         NEW row, row = [j \in 0 .. Width(n)[0] - 1 |-> IF j < n THEN [model |-> j, tn |-> T[j]] ELSE PadEntry]
  PROVE  RightRow(n, T, 0, row)
  <1> DEFINE w == Width(n)[0]
  <1>1. w \in Nat /\ w >= n /\ Entries(n, 0) = n
    <2>1. CASE Top(n) = 0
      BY <2>1, WidthFacts
    <2>2. CASE Top(n) # 0
      <3>1. 0 \in 0 .. Top(n) - 1
        BY <2>2, WidthFacts
      <3> QED
        BY SMTT(30), <3>1, WidthFacts
    <2> QED
      BY <2>1, <2>2
  <1> HIDE DEF w
  <1>2. \A j \in 0 .. w - 1 : row[j] = IF j < n THEN [model |-> j, tn |-> T[j]] ELSE PadEntry
    BY DEF w
  <1>3. \A j \in 0 .. n - 1 : /\ j \in 0 .. w - 1 /\ j < n
                              /\ row[j] = [model |-> j, tn |-> T[j]]
                              /\ row[j].tn = T[j] /\ row[j].model = j /\ T[j] \in EventTimes
                              /\ row[j] \in EntryOf(n)
    <2> SUFFICES ASSUME NEW j \in 0 .. n - 1
                 PROVE  /\ j \in 0 .. w - 1 /\ j < n
                        /\ row[j] = [model |-> j, tn |-> T[j]]
                        /\ row[j].tn = T[j] /\ row[j].model = j /\ T[j] \in EventTimes
                        /\ row[j] \in EntryOf(n)
      OBVIOUS
    <2>1. j \in 0 .. w - 1 /\ j < n /\ T[j] \in EventTimes
      BY <1>1
    <2>2. row[j] = [model |-> j, tn |-> T[j]]
      BY <1>2, <2>1
    <2> QED
      BY <2>1, <2>2 DEF EntryOf
  <1>4. ASSUME NEW j \in 0 .. w - 1, j \notin 0 .. n - 1
        PROVE  row[j] = PadEntry
    <2>1. ~(j < n)
      BY <1>1, <1>4
    <2> QED
      BY <1>2, <2>1
  <1>5. row \in [0 .. w - 1 -> EntryOf(n)]
    <2>1. row = [j \in 0 .. w - 1 |-> row[j]]
      BY DEF w
    <2>2. \A j \in 0 .. w - 1 : row[j] \in EntryOf(n)
      BY <1>3, <1>4, PadIsEntry
    <2> QED
      BY <2>1, <2>2
  <1>6. \A j \in 0 .. w - 1 : row[j].tn # Pad => j \in 0 .. n - 1
    BY <1>4, PadIsEntry
  <1>7. ASSUME NEW c \in 0 .. n - 1
        PROVE  \E j \in 0 .. w - 1 : Dominates(row[j], T, c)
    <2>1. c \in 0 .. w - 1 /\ row[c].tn = T[c] /\ row[c].model = c
      BY <1>3
    <2>x. c <= c
      OBVIOUS
    <2>2. Dominates(row[c], T, c)
      BY <2>1, <2>x DEF Dominates
    <2> QED
      BY <2>1, <2>2
  <1>8. \A j \in 0 .. n - 2 : row[j].tn # Pad
    <2>1. \A j \in 0 .. n - 2 : j \in 0 .. n - 1
      OBVIOUS
    <2>2. \A j \in 0 .. n - 1 : row[j].tn \in EventTimes
      BY <1>3
    <2> QED
      BY <2>1, <2>2, TimesAreNat
  <1>9. \A j, k \in 0 .. w - 1 : j < k /\ row[j].tn # Pad /\ row[k].tn # Pad => row[j].model < row[k].model
    BY <1>3, <1>6
  <1> QED
    BY <1>1, <1>3, <1>4, <1>5, <1>7, <1>8, <1>9 DEF RightRow, w

(* Among two entries of a level that is right, create makes the same       *)
(* choice as update: times are equal only for two children, which come in  *)
(* order, or for two paddings.                                             *)
LEMMA WinnerIsBest ==
  ASSUME NEW n \in Nat \ {0}, NEW T \in [0 .. n - 1 -> EventTimes],
         NEW i \in 0 .. Top(n), NEW row, RightRow(n, T, i, row),
         NEW j \in 0 .. Width(n)[i] - 1, NEW k \in 0 .. Width(n)[i] - 1, j < k
  PROVE  Winner(row[j], row[k]) = Best(row[j], row[k])
  <1> DEFINE a == row[j]
             b == row[k]
  <1>1. a \in EntryOf(n) /\ b \in EntryOf(n)
    BY DEF RightRow
  <1>2. (a.tn = Pad => a = PadEntry) /\ (b.tn = Pad => b = PadEntry)
    <2>1. /\ a = PadEntry \/ a.tn = T[a.model]
          /\ b = PadEntry \/ b.tn = T[b.model]
      BY DEF RightRow
    <2>2. T[a.model] # Pad /\ T[b.model] # Pad
      BY <1>1, EntryParts, TimesAreNat
    <2> QED
      BY <2>1, <2>2
  <1>3. a.tn # Pad /\ b.tn # Pad => a.model < b.model
    BY DEF RightRow
  <1>4. a.tn \in Nat /\ b.tn \in Nat /\ a.model \in Nat /\ b.model \in Nat
    BY <1>1, EntryParts
  <1> HIDE DEF a, b
  <1>5. Winner(a, b) = Best(a, b)
    BY <1>2, <1>3, <1>4 DEF Winner, Best
  <1> QED
    BY <1>5 DEF a, b

LEMMA NextRow ==
  ASSUME NEW n \in Nat \ {0}, NEW T \in [0 .. n - 1 -> EventTimes],
         NEW i \in 0 .. Top(n) - 1, NEW row, RightRow(n, T, i, row),
         NEW up, up = [j \in 0 .. Width(n)[i + 1] - 1 |-> Above(n, i, row, j)]
  PROVE  RightRow(n, T, i + 1, up)
  <1> DEFINE w == Width(n)[i]
             x == Width(n)[i + 1]
             u == Entries(n, i)
             v == Entries(n, i + 1)
  <1>1. /\ Top(n) \in Nat /\ i \in Nat /\ i + 1 \in 0 .. Top(n)
        /\ u \in Nat /\ v \in Nat /\ w = 2 * v /\ w - 1 <= u /\ u <= w
        /\ x \in Nat /\ v <= x /\ x <= v + 1 /\ v >= 1
    <2>1. Top(n) \in Nat
      BY WidthFacts
    <2>2. i \in Nat /\ i + 1 \in 0 .. Top(n)
      BY <2>1
    <2>3. u \in Nat /\ v \in Nat /\ w = 2 * v /\ w - 1 <= u /\ u <= w /\ u >= 2
      BY WidthFacts
    <2>4. x \in Nat /\ v <= x /\ x <= v + 1
      <3>1. x \in Nat /\ (x = v \/ x = v + (v % 2))
        BY <2>2, WidthEquation
      <3> HIDE DEF x, v
      <3> QED
        BY <2>3, <3>1
    <2> HIDE DEF u, v, w, x
    <2> QED
      BY <2>1, <2>2, <2>3, <2>4
  <1> HIDE DEF u, v, w, x
  <1>2. /\ row \in [0 .. w - 1 -> EntryOf(n)]
        /\ \A j \in 0 .. w - 1 : row[j] = PadEntry \/ row[j].tn = T[row[j].model]
        /\ \A j, k \in 0 .. w - 1 :
              j < k /\ row[j].tn # Pad /\ row[k].tn # Pad => row[j].model < row[k].model
        /\ \A c \in 0 .. n - 1 : \E j \in 0 .. w - 1 : Dominates(row[j], T, c)
        /\ \A j \in 0 .. u - 2 : row[j].tn # Pad
    BY DEF RightRow, w, u
  <1>3. \A j \in 0 .. x - 1 : up[j] = IF 2 * j < w THEN Best(row[2 * j], row[2 * j + 1]) ELSE PadEntry
    BY DEF x, w, Above
  <1>u. up = [j \in 0 .. x - 1 |-> up[j]]
    BY DEF x
  <1>4. ASSUME NEW j \in 0 .. x - 1
        PROVE  \/ j >= v /\ up[j] = PadEntry
               \/ /\ j \in 0 .. v - 1 /\ 2 * j \in 0 .. w - 1 /\ 2 * j + 1 \in 0 .. w - 1
                  /\ up[j] = Best(row[2 * j], row[2 * j + 1])
    <2>1. j \in Nat /\ (2 * j < w <=> j < v)
      BY <1>1
    <2>2. j < v => j \in 0 .. v - 1 /\ 2 * j \in 0 .. w - 1 /\ 2 * j + 1 \in 0 .. w - 1
      BY <1>1, <2>1
    <2>3. up[j] = IF 2 * j < w THEN Best(row[2 * j], row[2 * j + 1]) ELSE PadEntry
      BY <1>3
    <2>4. j < v \/ j >= v
      BY <1>1, <2>1
    <2> QED
      BY <1>1, <2>1, <2>2, <2>3, <2>4
  <1>5. ASSUME NEW j \in 0 .. x - 1
        PROVE  \/ j >= v /\ up[j] = PadEntry
               \/ \E k \in {2 * j, 2 * j + 1} : k \in 0 .. w - 1 /\ up[j] = row[k]
    BY <1>4 DEF Best
  <1>6. up \in [0 .. x - 1 -> EntryOf(n)]
    <2>1. \A j \in 0 .. x - 1 : up[j] \in EntryOf(n)
      BY <1>2, <1>5, PadIsEntry
    <2> QED
      BY <1>u, <2>1
  <1>7. ASSUME NEW j \in 0 .. x - 1
        PROVE  up[j] = PadEntry \/ up[j].tn = T[up[j].model]
    <2>1. \A k \in 0 .. w - 1 : row[k] = PadEntry \/ row[k].tn = T[row[k].model]
      BY <1>2
    <2>2. up[j] = PadEntry \/ \E k \in 0 .. w - 1 : up[j] = row[k]
      BY <1>5
    <2> QED
      BY <2>1, <2>2
  <1>8. ASSUME NEW j \in 0 .. x - 1, NEW k \in 0 .. x - 1, j < k, up[j].tn # Pad, up[k].tn # Pad
        PROVE  up[j].model < up[k].model
    <2>1. PICK a \in {2 * j, 2 * j + 1} : a \in 0 .. w - 1 /\ up[j] = row[a]
      BY <1>5, <1>8, PadIsEntry
    <2>2. PICK b \in {2 * k, 2 * k + 1} : b \in 0 .. w - 1 /\ up[k] = row[b]
      BY <1>5, <1>8, PadIsEntry
    <2>3. a < b
      BY <1>1, <1>8, <2>1, <2>2
    <2> QED
      BY <1>2, <1>8, <2>1, <2>2, <2>3
  <1>9. ASSUME NEW c \in 0 .. n - 1
        PROVE  \E j \in 0 .. x - 1 : Dominates(up[j], T, c)
    <2>1. PICK k \in 0 .. w - 1 : Dominates(row[k], T, c)
      BY <1>2
    <2> DEFINE j == k \div 2
               a == row[2 * j]
               b == row[2 * j + 1]
    <2>2. j \in 0 .. x - 1 /\ j \in 0 .. v - 1 /\ k \in {2 * j, 2 * j + 1}
      BY <1>1
    <2> HIDE DEF j
    <2>3. 2 * j \in 0 .. w - 1 /\ 2 * j + 1 \in 0 .. w - 1 /\ up[j] = Best(a, b)
      BY <1>1, <1>4, <2>2
    <2>4. a \in EntryOf(n) /\ b \in EntryOf(n)
      BY <1>2, <2>3
    <2>5. a.tn \in Nat /\ b.tn \in Nat /\ a.model \in Nat /\ b.model \in Nat
      BY <2>4, EntryParts
    <2>6. /\ a.tn = Pad => a = PadEntry
          /\ b.tn = Pad => b = PadEntry
          /\ a.tn # Pad /\ b.tn # Pad => a.model < b.model
      <3>1. T[a.model] # Pad /\ T[b.model] # Pad
        BY <2>4, EntryParts, TimesAreNat
      <3>2. 2 * j < 2 * j + 1
        BY <2>2
      <3>3. /\ a = PadEntry \/ a.tn = T[a.model]
            /\ b = PadEntry \/ b.tn = T[b.model]
        BY <1>2, <2>3
      <3>4. a.tn # Pad /\ b.tn # Pad => a.model < b.model
        BY <1>2, <2>3, <3>2
      <3> QED
        BY <3>1, <3>3, <3>4
    <2>7. T[c] \in Nat
      BY TimesAreNat
    <2>8. Dominates(a, T, c) \/ Dominates(b, T, c)
      BY <2>1, <2>2
    <2> HIDE DEF a, b
    <2>9. Dominates(Best(a, b), T, c)
      BY SMTT(30), <2>5, <2>6, <2>7, <2>8 DEF Dominates, Best
    <2> QED
      BY <2>2, <2>3, <2>9
  <1>10. ASSUME NEW j \in 0 .. v - 2
         PROVE  up[j].tn # Pad
    <2>1. j \in 0 .. x - 1 /\ ~(j >= v) /\ 2 * j \in 0 .. u - 2 /\ 2 * j + 1 \in 0 .. u - 2
      BY <1>1
    <2>2. PICK k \in {2 * j, 2 * j + 1} : up[j] = row[k]
      BY <1>5, <2>1
    <2>3. k \in 0 .. u - 2
      BY <2>1, <2>2
    <2>4. row[k].tn # Pad
      BY <1>2, <2>3
    <2> QED
      BY <2>2, <2>4
  <1> QED
    BY <1>6, <1>7, <1>8, <1>9, <1>10 DEF RightRow, x, v

-----------------------------------------------------------------------------
(* Trees.                                                                  *)

FirstLevel(n, T) == [j \in 0 .. Width(n)[0] - 1 |-> IF j < n THEN [model |-> j, tn |-> T[j]] ELSE PadEntry]
LevelAbove(n, i, row) == [j \in 0 .. Width(n)[i + 1] - 1 |-> Above(n, i, row, j)]

(* What create builds and update keeps: every level below the top is       *)
(* exact, and the top has the right model.                                 *)
IsHeap(n, T, h) ==
    /\ T \in [0 .. n - 1 -> EventTimes]
    /\ DOMAIN h = 0 .. Top(n)
    /\ \A i \in 0 .. Top(n) : h[i] \in [0 .. Width(n)[i] - 1 -> EntryOf(n)]
    /\ h[0] = FirstLevel(n, T)
    /\ \A i \in 0 .. Top(n) - 2 : h[i + 1] = LevelAbove(n, i, h[i])
    /\ Top(n) > 0 => h[Top(n)][0].model = Best(h[Top(n) - 1][0], h[Top(n) - 1][1]).model

LEMMA RowsAreRight ==
  ASSUME NEW n \in Nat \ {0}, NEW T, NEW h, IsHeap(n, T, h),
         NEW i \in 0 .. Top(n), i = 0 \/ i < Top(n)
  PROVE  RightRow(n, T, i, h[i])
  <1> DEFINE top == Top(n)
             G == {k \in 0 .. i : RightRow(n, T, k, h[k])}
  <1>1. T \in [0 .. n - 1 -> EventTimes] /\ top \in Nat /\ i \in Nat
    BY WidthFacts DEF IsHeap
  <1>2. 0 \in G
    <2>1. RightRow(n, T, 0, h[0])
      BY <1>1, FirstRow DEF IsHeap, FirstLevel
    <2> QED
      BY <1>1, <2>1
  <1>3. ASSUME NEW k \in 0 .. i - 1, k \in G
        PROVE  k + 1 \in G
    <2>1. k \in 0 .. top - 1 /\ k \in 0 .. top - 2 /\ k + 1 \in 0 .. i
      BY <1>1, <1>3
    <2>2. h[k + 1] = LevelAbove(n, k, h[k])
      BY <2>1 DEF IsHeap
    <2>3. RightRow(n, T, k, h[k])
      BY <1>3
    <2> HIDE DEF G
    <2>4. RightRow(n, T, k + 1, h[k + 1])
      BY <1>1, <2>1, <2>2, <2>3, NextRow DEF LevelAbove
    <2> QED
      BY <2>1, <2>4 DEF G
  <1> HIDE DEF G
  <1>4. 0 .. i \subseteq G
    BY <1>1, <1>2, <1>3, IntervalInduction
  <1>5. i \in G
    BY <1>1, <1>4
  <1> QED
    BY <1>5 DEF G

(* The winner of the two entries below the top.                            *)
LEMMA TopRow ==
  ASSUME NEW n \in Nat \ {0}, NEW T, NEW h, IsHeap(n, T, h)
  PROVE  \E e \in EntryOf(n) :
            /\ next(n, h) = e.model
            /\ e = PadEntry \/ e.tn = T[e.model]
            /\ \A c \in 0 .. n - 1 : Dominates(e, T, c)
  <1> DEFINE top == Top(n)
             k == top - 1
             up == LevelAbove(n, k, h[k])
             row == IF top = 0 THEN h[0] ELSE up
  <1>1. top \in Nat /\ Width(n)[top] = 1 /\ Entries(n, top) = 1
    BY WidthFacts
  <1>2. RightRow(n, T, top, row) /\ row[0].model = next(n, h)
    <2>1. CASE top = 0
      BY <1>1, <2>1, RowsAreRight DEF next
    <2>2. CASE top # 0
      <3>1. k \in 0 .. top - 1 /\ k + 1 = top /\ k \in 0 .. top /\ k < top /\ top > 0
        BY <1>1, <2>2
      <3>2. RightRow(n, T, k, h[k]) /\ T \in [0 .. n - 1 -> EventTimes]
        BY <3>1, RowsAreRight DEF IsHeap
      <3>3. RightRow(n, T, k + 1, up)
        BY <3>1, <3>2, NextRow DEF LevelAbove
      <3>4. 0 \in 0 .. Width(n)[k + 1] - 1 /\ 2 * 0 = 0 /\ 2 * 0 + 1 = 1 /\ 0 < Width(n)[k]
        <4>1. Width(n)[k] = 2 * Entries(n, k + 1)
          BY <3>1, WidthFacts
        <4> QED
          BY <1>1, <3>1, <4>1
      <3>5. up[0] = Best(h[k][0], h[k][1])
        BY <3>4 DEF LevelAbove, Above
      <3>6. h[top][0].model = Best(h[k][0], h[k][1]).model
        BY <3>1 DEF IsHeap
      <3> QED
        BY <2>2, <3>1, <3>3, <3>5, <3>6 DEF next
    <2> QED
      BY <2>1, <2>2
  <1> HIDE DEF row, k
  <1>3. 0 \in 0 .. Width(n)[top] - 1 /\ \A j \in 0 .. Width(n)[top] - 1 : j = 0
    BY <1>1
  <1> HIDE DEF top
  <1>4. row[0] \in EntryOf(n) /\ (row[0] = PadEntry \/ row[0].tn = T[row[0].model])
    BY <1>2, <1>3 DEF RightRow
  <1>5. \A c \in 0 .. n - 1 : Dominates(row[0], T, c)
    BY <1>2, <1>3 DEF RightRow
  <1> QED
    BY <1>2, <1>4, <1>5

LEMMA HeapFindsEarliest ==
  ASSUME NEW n \in Nat \ {0}, NEW T, NEW h, IsHeap(n, T, h)
  PROVE  next(n, h) \in 0 .. n - 1 /\ NextIsEarliest(n, T, h)
  <1>1. PICK e \in EntryOf(n) : /\ next(n, h) = e.model
                                /\ e = PadEntry \/ e.tn = T[e.model]
                                /\ \A c \in 0 .. n - 1 : Dominates(e, T, c)
    BY TopRow
  <1>2. e.model \in 0 .. n - 1 /\ e.tn \in Nat
    BY EntryParts
  <1>3. ASSUME NEW d \in 0 .. n - 1, T[d] \in Finite
        PROVE  e.tn = T[e.model]
    <2>1. T[d] < Pad /\ T[d] \in Nat /\ Pad \in Nat
      BY <1>3, TimesAreNat DEF EventTimes
    <2>2. e.tn <= T[d]
      BY <1>1, <1>2, <2>1 DEF Dominates
    <2>3. e.tn # Pad
      BY <1>2, <2>1, <2>2
    <2> QED
      BY <1>1, <2>3, PadIsEntry
  <1>4. ASSUME NEW d \in 0 .. n - 1, T[d] \in Finite, NEW c \in 0 .. n - 1
        PROVE  T[e.model] < T[c] \/ (T[e.model] = T[c] /\ e.model <= c)
    BY <1>1, <1>3, <1>4 DEF Dominates
  <1> QED
    BY <1>1, <1>2, <1>4 DEF NextIsEarliest

LEMMA OneHeapBelowTop ==
  ASSUME NEW n \in Nat \ {0}, NEW T, NEW h, NEW g, IsHeap(n, T, h), IsHeap(n, T, g)
  PROVE  \A i \in 0 .. Top(n) - 1 : h[i] = g[i]
  <1> DEFINE top == Top(n)
             G == {i \in 0 .. top - 1 : h[i] = g[i]}
  <1>1. top \in Nat
    BY WidthFacts
  <1>2. CASE top = 0
    BY <1>2
  <1>3. CASE top # 0
    <2>1. 0 \in G
      BY <1>1, <1>3 DEF IsHeap
    <2>2. ASSUME NEW k \in 0 .. (top - 1) - 1, k \in G
          PROVE  k + 1 \in G
      <3>1. k \in 0 .. top - 2 /\ k + 1 \in 0 .. top - 1
        BY <1>1
      <3> QED
        BY <2>2, <3>1 DEF IsHeap
    <2>3. top - 1 \in Nat
      BY <1>1, <1>3
    <2> HIDE DEF G, top
    <2>4. 0 .. top - 1 \subseteq G
      BY <2>1, <2>2, <2>3, IntervalInduction
    <2> QED
      BY <2>4 DEF G, top
  <1> QED
    BY <1>2, <1>3

(* create compares with Winner, which comes to the same.                   *)
WinnersAbove(n, i, row) ==
    [j \in 0 .. Width(n)[i + 1] - 1 |->
        IF 2 * j < Width(n)[i] THEN Winner(row[2 * j], row[2 * j + 1]) ELSE PadEntry]

LEMMA WinnersAreBest ==
  ASSUME NEW n \in Nat \ {0}, NEW T \in [0 .. n - 1 -> EventTimes],
         NEW i \in 0 .. Top(n) - 1, NEW row, RightRow(n, T, i, row)
  PROVE  WinnersAbove(n, i, row) = LevelAbove(n, i, row)
  <1>1. /\ i \in 0 .. Top(n) /\ Width(n)[i] \in Nat
        /\ \E v \in Nat : Width(n)[i] = 2 * v
        /\ Width(n)[i + 1] \in Nat
    BY SMTT(30), WidthFacts, WidthEquation
  <1>2. ASSUME NEW j \in 0 .. Width(n)[i + 1] - 1
        PROVE  (IF 2 * j < Width(n)[i] THEN Winner(row[2 * j], row[2 * j + 1]) ELSE PadEntry) = Above(n, i, row, j)
    <2>1. CASE 2 * j < Width(n)[i]
      <3>1. 2 * j \in 0 .. Width(n)[i] - 1 /\ 2 * j + 1 \in 0 .. Width(n)[i] - 1 /\ 2 * j < 2 * j + 1
        BY <1>1, <2>1
      <3>2. Winner(row[2 * j], row[2 * j + 1]) = Best(row[2 * j], row[2 * j + 1])
        BY <1>1, <3>1, WinnerIsBest
      <3> QED
        BY <2>1, <3>2 DEF Above
    <2>2. CASE ~(2 * j < Width(n)[i])
      BY <2>2 DEF Above
    <2> QED
      BY <2>1, <2>2
  <1> QED
    BY <1>2, Zenon DEF WinnersAbove, LevelAbove

(* The tree that create builds is right.                                   *)
LEMMA CreateIsHeap ==
  ASSUME NEW n \in Nat \ {0}, NEW T \in [0 .. n - 1 -> EventTimes]
  PROVE  IsHeap(n, T, create(n, T))
  <1> DEFINE top == Top(n)
             v == FirstLevel(n, T)
             V == [i \in 0 .. top |-> {row \in [0 .. Width(n)[i] - 1 -> EntryOf(n)] : RightRow(n, T, i, row)}]
             step == [i \in 0 .. top - 1 |-> [row \in V[i] |-> LevelAbove(n, i, row)]]
             L == CHOOSE level : level = [i \in 0 .. top |->
                    [j \in 0 .. Width(n)[i] - 1 |->
                       IF i = 0
                       THEN IF j < n THEN [model |-> j, tn |-> T[j]] ELSE PadEntry
                       ELSE IF 2 * j < Width(n)[i - 1] THEN Winner(level[i - 1][2 * j], level[i - 1][2 * j + 1])
                       ELSE PadEntry]]
  <1>0. top \in Nat
    BY WidthFacts
  <1>c. create(n, T) = L
    BY Zenon DEF create
  <1>1. /\ v \in V[0]
        /\ \A i \in 0 .. top : \A row : row \in V[i] <=> RightRow(n, T, i, row)
        /\ \A i \in 0 .. top - 1 : \A row \in V[i] : step[i][row] = LevelAbove(n, i, row)
    <2>1. \A i \in 0 .. top : V[i] = {row \in [0 .. Width(n)[i] - 1 -> EntryOf(n)] : RightRow(n, T, i, row)}
      OBVIOUS
    <2>2. \A i \in 0 .. top - 1 : \A row \in V[i] : step[i][row] = LevelAbove(n, i, row)
      OBVIOUS
    <2> HIDE DEF V, step
    <2>3. \A i \in 0 .. top : \A row : row \in V[i] <=> RightRow(n, T, i, row)
      BY <2>1 DEF RightRow
    <2>4. RightRow(n, T, 0, v)
      BY FirstRow DEF FirstLevel
    <2>5. 0 \in 0 .. top
      BY <1>0
    <2> QED
      BY <2>2, <2>3, <2>4, <2>5
  <1> HIDE DEF V, step
  <1>2. ASSUME NEW i \in 0 .. top - 1, NEW row \in V[i]
        PROVE  /\ step[i][row] \in V[i + 1]
               /\ LevelAbove(n, i, row) \in V[i + 1]
               /\ WinnersAbove(n, i, row) = LevelAbove(n, i, row)
    <2>1. i \in 0 .. top /\ i + 1 \in 0 .. top /\ RightRow(n, T, i, row)
      BY <1>0, <1>1
    <2>2. RightRow(n, T, i + 1, LevelAbove(n, i, row))
      BY <2>1, NextRow DEF LevelAbove
    <2>3. WinnersAbove(n, i, row) = LevelAbove(n, i, row)
      BY <2>1, WinnersAreBest
    <2> QED
      BY <1>1, <2>1, <2>2, <2>3
  <1> DEFINE Body(i, below) == IF i = 0 THEN v ELSE WinnersAbove(n, i - 1, below)
  <1>3. \A f : \A i \in 0 .. top :
           [j \in 0 .. Width(n)[i] - 1 |->
              IF i = 0
              THEN IF j < n THEN [model |-> j, tn |-> T[j]] ELSE PadEntry
              ELSE IF 2 * j < Width(n)[i - 1] THEN Winner(f[i - 1][2 * j], f[i - 1][2 * j + 1])
              ELSE PadEntry]
             = Body(i, f[i - 1])
    <2> SUFFICES ASSUME NEW f, NEW i \in 0 .. top
                 PROVE  [j \in 0 .. Width(n)[i] - 1 |->
                           IF i = 0
                           THEN IF j < n THEN [model |-> j, tn |-> T[j]] ELSE PadEntry
                           ELSE IF 2 * j < Width(n)[i - 1] THEN Winner(f[i - 1][2 * j], f[i - 1][2 * j + 1])
                           ELSE PadEntry]
                          = Body(i, f[i - 1])
      BY Zenon
    <2>1. CASE i = 0
      BY <2>1, Zenon DEF FirstLevel
    <2>2. CASE i # 0
      <3>1. (i - 1) + 1 = i
        OBVIOUS
      <3> QED
        BY <2>2, <3>1, Zenon DEF WinnersAbove
    <2> QED
      BY <2>1, <2>2
  <1>4. \E f : f = [i \in 0 .. top |->
                    [j \in 0 .. Width(n)[i] - 1 |->
                       IF i = 0
                       THEN IF j < n THEN [model |-> j, tn |-> T[j]] ELSE PadEntry
                       ELSE IF 2 * j < Width(n)[i - 1] THEN Winner(f[i - 1][2 * j], f[i - 1][2 * j + 1])
                       ELSE PadEntry]]
    <2> HIDE DEF v, top
    <2>1. PICK f : IsLevels(top, v, step, f)
      BY <1>0, <1>1, <1>2, LevelsExist
    <2>2. f = [i \in 0 .. top |-> IF i = 0 THEN v ELSE step[i - 1][f[i - 1]]]
      BY <2>1 DEF IsLevels
    <2>3. 0 .. top \subseteq {i \in 0 .. top : f[i] \in V[i]}
      <3> DEFINE G == {i \in 0 .. top : f[i] \in V[i]}
      <3>1. 0 \in G
        BY <1>0, <1>1, <2>2
      <3>2. ASSUME NEW i \in 0 .. top - 1, i \in G
            PROVE  i + 1 \in G
        <4>1. i + 1 \in 0 .. top /\ i + 1 # 0 /\ (i + 1) - 1 = i
          BY <1>0
        <4>2. f[i + 1] = step[i][f[i]]
          BY <2>2, <4>1
        <4> QED
          BY <1>2, <3>2, <4>1, <4>2
      <3> HIDE DEF G
      <3>3. 0 .. top \subseteq G
        BY <1>0, <3>1, <3>2, IntervalInduction
      <3> QED
        BY <3>3 DEF G
    <2>4. ASSUME NEW i \in 0 .. top
          PROVE  (IF i = 0 THEN v ELSE step[i - 1][f[i - 1]]) = Body(i, f[i - 1])
      <3>1. i # 0 => i - 1 \in 0 .. top - 1 /\ i - 1 \in 0 .. top
        BY <1>0
      <3>2. i # 0 => f[i - 1] \in V[i - 1]
        BY <2>3, <3>1
      <3>3. i # 0 => step[i - 1][f[i - 1]] = LevelAbove(n, i - 1, f[i - 1])
        BY <1>1, <3>1, <3>2
      <3>4. i # 0 => WinnersAbove(n, i - 1, f[i - 1]) = LevelAbove(n, i - 1, f[i - 1])
        BY <1>2, <3>1, <3>2
      <3> QED
        BY <3>3, <3>4
    <2> HIDE DEF Body
    <2>5. f = [i \in 0 .. top |-> Body(i, f[i - 1])]
      BY <2>2, <2>4, Zenon
    <2>6. f = [i \in 0 .. top |->
                [j \in 0 .. Width(n)[i] - 1 |->
                   IF i = 0
                   THEN IF j < n THEN [model |-> j, tn |-> T[j]] ELSE PadEntry
                   ELSE IF 2 * j < Width(n)[i - 1] THEN Winner(f[i - 1][2 * j], f[i - 1][2 * j + 1])
                   ELSE PadEntry]]
      BY <1>3, <2>5, Zenon
    <2> QED
      BY <2>6, Zenon
  <1>5. L = [i \in 0 .. top |->
               [j \in 0 .. Width(n)[i] - 1 |->
                  IF i = 0
                  THEN IF j < n THEN [model |-> j, tn |-> T[j]] ELSE PadEntry
                  ELSE IF 2 * j < Width(n)[i - 1] THEN Winner(L[i - 1][2 * j], L[i - 1][2 * j + 1])
                  ELSE PadEntry]]
    BY <1>4, Zenon
  <1> HIDE DEF L
  <1>6. DOMAIN L = 0 .. top /\ \A i \in 0 .. top : L[i] = Body(i, L[i - 1])
    <2> HIDE DEF Body
    <2>1. L = [i \in 0 .. top |-> Body(i, L[i - 1])]
      BY <1>3, <1>5, Zenon
    <2> QED
      BY <2>1, Zenon
  <1>7. 0 .. top \subseteq {i \in 0 .. top : L[i] \in V[i]}
    <2> DEFINE G == {i \in 0 .. top : L[i] \in V[i]}
    <2> HIDE DEF v
    <2>1. 0 \in G
      <3>1. 0 \in 0 .. top
        BY <1>0
      <3> QED
        BY <1>1, <1>6, <3>1
    <2>2. ASSUME NEW i \in 0 .. top - 1, i \in G
          PROVE  i + 1 \in G
      <3>1. i + 1 \in 0 .. top /\ i + 1 # 0 /\ (i + 1) - 1 = i
        BY <1>0
      <3>2. L[i + 1] = WinnersAbove(n, i, L[i])
        BY <1>6, <3>1
      <3> QED
        BY <1>2, <2>2, <3>1, <3>2
    <2> HIDE DEF G
    <2>3. 0 .. top \subseteq G
      BY <1>0, <2>1, <2>2, IntervalInduction
    <2> QED
      BY <2>3 DEF G
  <1>8. ASSUME NEW i \in 0 .. top - 1
        PROVE  L[i + 1] = LevelAbove(n, i, L[i])
    <2>1. i + 1 \in 0 .. top /\ i + 1 # 0 /\ (i + 1) - 1 = i /\ i \in 0 .. top
      BY <1>0
    <2>2. L[i + 1] = WinnersAbove(n, i, L[i])
      BY <1>6, <2>1
    <2> QED
      BY <1>2, <1>7, <2>1, <2>2
  <1>9. \A i \in 0 .. top : L[i] \in [0 .. Width(n)[i] - 1 -> EntryOf(n)]
    BY <1>1, <1>7 DEF RightRow
  <1>10. L[0] = FirstLevel(n, T)
    <2>1. 0 \in 0 .. top
      BY <1>0
    <2> QED
      BY <1>6, <2>1
  <1>11. top > 0 => L[top][0].model = Best(L[top - 1][0], L[top - 1][1]).model
    <2> SUFFICES ASSUME top > 0 PROVE L[top][0] = Best(L[top - 1][0], L[top - 1][1])
      OBVIOUS
    <2>1. top - 1 \in 0 .. top - 1 /\ (top - 1) + 1 = top
      BY <1>0
    <2>2. L[top] = LevelAbove(n, top - 1, L[top - 1])
      BY <1>8, <2>1
    <2>3. Width(n)[top] = 1 /\ Width(n)[top - 1] = 2
      <3>1. Width(n)[top] = 1 /\ Entries(n, top) = 1 /\ Width(n)[top - 1] = 2 * Entries(n, (top - 1) + 1)
        BY <2>1, WidthFacts
      <3> QED
        BY <2>1, <3>1
    <2>4. 0 \in 0 .. Width(n)[(top - 1) + 1] - 1 /\ 2 * 0 < Width(n)[top - 1] /\ 2 * 0 = 0 /\ 2 * 0 + 1 = 1
      BY <2>1, <2>3
    <2> QED
      BY <2>2, <2>4 DEF LevelAbove, Above
  <1>12. \A i \in 0 .. top - 2 : i \in 0 .. top - 1
    BY <1>0
  <1> HIDE DEF v
  <1> QED
    BY <1>c, <1>6, <1>8, <1>9, <1>10, <1>11, <1>12 DEF IsHeap

-----------------------------------------------------------------------------
(* The climb of update.                                                    *)

(* An entry that has the model of its parent is its parent: below the top  *)
(* padding, whose model is 0 as well, is never beside child 0.             *)
ModelNamesParent(n, i, row) ==
    \A q \in 0 .. Entries(n, i + 1) - 1 : \A o \in {2 * q, 2 * q + 1} :
        Best(row[2 * q], row[2 * q + 1]).model = row[o].model => Best(row[2 * q], row[2 * q + 1]) = row[o]

LEMMA SameModelIsParent ==
  ASSUME NEW n \in Nat \ {0}, NEW T \in [0 .. n - 1 -> EventTimes],
         NEW i \in 0 .. Top(n) - 2, NEW row, RightRow(n, T, i, row)
  PROVE  ModelNamesParent(n, i, row)
  <1> SUFFICES ASSUME NEW q \in 0 .. Entries(n, i + 1) - 1, NEW o \in {2 * q, 2 * q + 1},
                      Best(row[2 * q], row[2 * q + 1]).model = row[o].model
               PROVE  Best(row[2 * q], row[2 * q + 1]) = row[o]
    BY Zenon DEF ModelNamesParent
  <1> DEFINE w == Width(n)[i]
             u == Entries(n, i)
             v == Entries(n, i + 1)
             p == IF o = 2 * q THEN 2 * q + 1 ELSE 2 * q
  <1>1. /\ u \in Nat /\ v \in Nat /\ v >= 2 /\ w = 2 * v /\ u >= 3
    <2>1. i \in 0 .. Top(n) - 1 /\ i + 1 \in 0 .. Top(n) - 1
      BY SMTT(30), WidthFacts
    <2>2. u \in Nat /\ v \in Nat /\ v >= 2 /\ w = 2 * v /\ w - 1 <= u
      BY <2>1, WidthFacts
    <2> HIDE DEF u, v, w
    <2> QED
      BY <2>2
  <1>2. /\ \A j \in 0 .. w - 1 : row[j] \in EntryOf(n) /\ (row[j] = PadEntry \/ row[j].tn = T[row[j].model])
        /\ \A j, k \in 0 .. w - 1 :
              j < k /\ row[j].tn # Pad /\ row[k].tn # Pad => row[j].model < row[k].model
        /\ \A j \in 0 .. u - 2 : row[j].tn # Pad
    BY DEF RightRow
  <1>v. q \in 0 .. v - 1
    OBVIOUS
  <1> HIDE DEF w, u, v
  <1>3. /\ p \in 0 .. w - 1 /\ o \in 0 .. w - 1 /\ p # o
        /\ 0 \in 0 .. w - 1 /\ 0 \in 0 .. u - 2 /\ 1 \in 0 .. u - 2
        /\ (p = 0 => o = 1) /\ (o = 0 => p = 1)
        /\ Best(row[2 * q], row[2 * q + 1]) \in {row[p], row[o]}
    <2>1. q \in Nat
      BY <1>v
    <2>2. o = 2 * q \/ o = 2 * q + 1
      OBVIOUS
    <2>3. /\ p \in 0 .. w - 1 /\ o \in 0 .. w - 1 /\ p # o
          /\ (p = 0 => o = 1) /\ (o = 0 => p = 1)
      BY <1>1, <1>v, <2>1, <2>2
    <2>4. 0 \in 0 .. w - 1 /\ 0 \in 0 .. u - 2 /\ 1 \in 0 .. u - 2
      BY <1>1
    <2>5. Best(row[2 * q], row[2 * q + 1]) \in {row[p], row[o]}
      BY <2>1, <2>2 DEF Best
    <2> QED
      BY <2>3, <2>4, <2>5
  <1> HIDE DEF p
  <1>4. ASSUME NEW j \in 0 .. w - 1
        PROVE  /\ row[j].tn = Pad => row[j] = PadEntry
               /\ row[j].model \in Nat
               /\ j # 0 /\ row[j].tn # Pad => row[j].model # 0
    <2>1. row[j] \in EntryOf(n)
      BY <1>2
    <2>2. T[row[j].model] # Pad /\ row[j].model \in Nat
      BY <2>1, EntryParts, TimesAreNat
    <2>3. row[0].model \in Nat /\ row[0].tn # Pad
      BY <1>2, <1>3, EntryParts
    <2>4. j # 0 /\ row[j].tn # Pad => row[0].model < row[j].model
      <3>1. j # 0 => 0 < j
        BY <1>1
      <3> QED
        BY <1>2, <1>3, <2>3, <3>1
    <2> QED
      BY SMTT(30), <1>2, <2>2, <2>3, <2>4
  <1>5. row[p].model = row[o].model => row[p] = row[o]
    <2> SUFFICES ASSUME row[p].model = row[o].model PROVE row[p] = row[o]
      OBVIOUS
    <2>1. CASE row[p].tn = Pad /\ row[o].tn = Pad
      BY <1>3, <1>4, <2>1
    <2>2. CASE row[p].tn # Pad /\ row[o].tn # Pad
      <3>1. p < o \/ o < p
        BY <1>1, <1>3
      <3>2. row[p].model < row[o].model \/ row[o].model < row[p].model
        BY <1>2, <1>3, <2>2, <3>1
      <3> QED
        BY <1>3, <1>4, <3>2
    <2>3. CASE row[p].tn = Pad /\ row[o].tn # Pad
      <3>1. row[p].model = 0
        BY <1>3, <1>4, <2>3, PadIsEntry
      <3>2. o = 0
        BY <1>3, <1>4, <2>3, <3>1
      <3> QED
        BY <1>2, <1>3, <2>3, <3>2
    <2>4. CASE row[p].tn # Pad /\ row[o].tn = Pad
      <3>1. row[o].model = 0
        BY <1>3, <1>4, <2>4, PadIsEntry
      <3>2. p = 0
        BY <1>3, <1>4, <2>4, <3>1
      <3> QED
        BY <1>2, <1>3, <2>4, <3>2
    <2> QED
      BY <2>1, <2>2, <2>3, <2>4
  <1> QED
    BY <1>3, <1>5

Trees(n) == [0 .. Top(n) -> UNION {[0 .. Width(n)[i] - 1 -> EntryOf(n)] : i \in 0 .. Top(n)}]

(* The tree while update climbs from level to level, where h is the tree   *)
(* it began with and T the new times: it is right up to the level that has *)
(* been reached, and above only what depends on the entry at p is not; or  *)
(* update has stopped, and the tree is right.                              *)
RightClimb(n, T, h, level, c) ==
    /\ c \in [heap : Trees(n), p : Nat, climbing : BOOLEAN]
    /\ ~c.climbing => IsHeap(n, T, c.heap)
    /\ c.climbing =>
          /\ c.p < Entries(n, level)
          /\ \A i \in 0 .. Top(n) : c.heap[i] \in [0 .. Width(n)[i] - 1 -> EntryOf(n)]
          /\ c.heap[0] = FirstLevel(n, T)
          /\ \A i \in 0 .. Top(n) - 2 : i < level => c.heap[i + 1] = LevelAbove(n, i, c.heap[i])
          /\ level = Top(n) /\ level > 0 =>
                c.heap[level][0].model = Best(c.heap[level - 1][0], c.heap[level - 1][1]).model
          /\ \A i \in level + 1 .. Top(n) : c.heap[i] = h[i]
          /\ \A j \in 0 .. Width(n)[level] - 1 : j # c.p => c.heap[level][j] = h[level][j]

(* q is the pair that the entry at p belongs to.                           *)
IsPair(n, i, p, q) ==
    /\ q \in Nat /\ q < Entries(n, i + 1)
    /\ q \in 0 .. Entries(n, i + 1) - 1
    /\ q \in 0 .. Width(n)[i + 1] - 1
    /\ \/ p = 2 * q /\ Sibling(p) = 2 * q + 1 /\ TieWinner(p) = 2 * q
       \/ p = 2 * q + 1 /\ Sibling(p) = 2 * q /\ TieWinner(p) = 2 * q
    /\ 2 * q < Width(n)[i]
    /\ 2 * q \in 0 .. Width(n)[i] - 1 /\ 2 * q + 1 \in 0 .. Width(n)[i] - 1
    /\ \A j \in 0 .. Width(n)[i + 1] - 1 : j # q /\ 2 * j < Width(n)[i] =>
          /\ 2 * j \in 0 .. Width(n)[i] - 1 /\ 2 * j + 1 \in 0 .. Width(n)[i] - 1
          /\ 2 * j # p /\ 2 * j + 1 # p

LEMMA PairFacts ==
  ASSUME NEW n \in Nat \ {0}, NEW i \in 0 .. Top(n) - 1, NEW p \in Nat, p < Entries(n, i)
  PROVE  IsPair(n, i, p, p \div 2)
  <1> DEFINE w == Width(n)[i]
             x == Width(n)[i + 1]
             u == Entries(n, i)
             v == Entries(n, i + 1)
             q == p \div 2
  <1>1. u \in Nat /\ v \in Nat /\ w = 2 * v /\ u <= w
    BY WidthFacts
  <1>2. x \in Nat /\ v <= x
    <2>1. i + 1 \in 0 .. Top(n)
      BY WidthFacts
    <2>2. x \in Nat /\ (x = v \/ x = v + (v % 2))
      BY <2>1, WidthEquation
    <2> HIDE DEF x, v
    <2> QED
      BY <1>1, <2>2
  <1>u. p < u
    OBVIOUS
  <1> HIDE DEF u, v, w, x
  <1>3. q \in Nat /\ (p = 2 * q \/ p = 2 * q + 1)
    OBVIOUS
  <1> HIDE DEF q
  <1>4. q < v
    BY <1>1, <1>3, <1>u
  <1>5. \/ p = 2 * q /\ Sibling(p) = 2 * q + 1 /\ TieWinner(p) = 2 * q
        \/ p = 2 * q + 1 /\ Sibling(p) = 2 * q /\ TieWinner(p) = 2 * q
    BY <1>3 DEF Sibling, TieWinner
  <1>6. q \in 0 .. v - 1 /\ q \in 0 .. x - 1 /\ 2 * q < w /\ 2 * q \in 0 .. w - 1 /\ 2 * q + 1 \in 0 .. w - 1
    BY <1>1, <1>2, <1>3, <1>4
  <1>7. ASSUME NEW j \in 0 .. x - 1, j # q, 2 * j < w
        PROVE  2 * j \in 0 .. w - 1 /\ 2 * j + 1 \in 0 .. w - 1 /\ 2 * j # p /\ 2 * j + 1 # p
    BY <1>1, <1>3, <1>7
  <1>8. IsPair(n, i, p, q)
    <2> HIDE DEF q
    <2> QED
      BY <1>3, <1>4, <1>5, <1>6, <1>7 DEF IsPair, u, v, w, x
  <1> QED
    BY <1>8 DEF q

(* One turn of the loop.                                                   *)
LEMMA ClimbStep ==
  ASSUME NEW n \in Nat \ {0}, NEW S, NEW h, IsHeap(n, S, h),
         NEW T \in [0 .. n - 1 -> EventTimes],
         NEW i \in 0 .. Top(n) - 1, NEW c, RightClimb(n, T, h, i, c)
  PROVE  RightClimb(n, T, h, i + 1, Climb(c, i))
  <1>1. CASE ~c.climbing
    BY <1>1 DEF Climb, RightClimb
  <1>2. CASE c.climbing
    <2> DEFINE top == Top(n)
               d == Climb(c, i)
               g == c.heap
               p == c.p
               row == g[i]
               o == Sibling(p)
               q == p \div 2
               w == Width(n)[i]
               x == Width(n)[i + 1]
               stops == KeepsParent(row, p, g[i + 1][q])
               winner == IF row[p].tn < row[o].tn THEN p
                         ELSE IF row[p].tn = row[o].tn THEN TieWinner(p)
                         ELSE o
    <2>1. /\ top \in Nat /\ i \in Nat /\ i + 1 \in 0 .. top /\ i \in 0 .. top /\ i # top
          /\ (i + 1 # top => i \in 0 .. top - 2)
          /\ (i + 1 = top => x = 1)
      BY SMTT(30), WidthFacts
    <2>2. /\ p \in Nat /\ p < Entries(n, i) /\ g \in Trees(n)
          /\ \A k \in 0 .. top : g[k] \in [0 .. Width(n)[k] - 1 -> EntryOf(n)]
          /\ g[0] = FirstLevel(n, T)
          /\ \A k \in 0 .. top - 2 : k < i => g[k + 1] = LevelAbove(n, k, g[k])
          /\ \A k \in i + 1 .. top : g[k] = h[k]
          /\ \A j \in 0 .. w - 1 : j # p => row[j] = h[i][j]
      BY <1>2 DEF RightClimb
    <2>d. d = [heap |-> IF stops THEN g ELSE [g EXCEPT ![i + 1][q] = row[winner]],
               p |-> q, climbing |-> ~stops]
      BY <1>2, Zenon DEF Climb
    <2>s. stops <=> row[p].tn > row[o].tn /\ row[o].model = g[i + 1][q].model
      BY DEF KeepsParent
    <2>w. winner = IF row[p].tn < row[o].tn THEN p ELSE IF row[p].tn = row[o].tn THEN TieWinner(p) ELSE o
      OBVIOUS
    <2>r. row = g[i]
      OBVIOUS
    <2>x. x = Width(n)[i + 1] /\ w = Width(n)[i]
      OBVIOUS
    <2>q. q = p \div 2 /\ o = Sibling(p)
      OBVIOUS
    <2>t. i \in 0 .. Top(n) - 1
      OBVIOUS
    <2> HIDE DEF top, d, g, p, row, o, q, w, x, stops, winner
    <2>3. /\ q \in Nat /\ q < Entries(n, i + 1)
          /\ q \in 0 .. Entries(n, i + 1) - 1
          /\ q \in 0 .. x - 1
          /\ \/ p = 2 * q /\ o = 2 * q + 1 /\ TieWinner(p) = 2 * q
             \/ p = 2 * q + 1 /\ o = 2 * q /\ TieWinner(p) = 2 * q
          /\ 2 * q < w
          /\ 2 * q \in 0 .. w - 1 /\ 2 * q + 1 \in 0 .. w - 1
          /\ \A j \in 0 .. x - 1 : j # q /\ 2 * j < w =>
                2 * j \in 0 .. w - 1 /\ 2 * j + 1 \in 0 .. w - 1 /\ 2 * j # p /\ 2 * j + 1 # p
      <3>1. p \in Nat /\ p < Entries(n, i)
        BY <2>2
      <3>2. IsPair(n, i, p, q)
        BY <2>q, <2>t, <3>1, PairFacts
      <3> QED
        BY <2>q, <2>x, <3>2 DEF IsPair
    <2>4. /\ p \in 0 .. w - 1 /\ o \in 0 .. w - 1 /\ o # p
          /\ row[p] \in EntryOf(n) /\ row[o] \in EntryOf(n)
          /\ row[p].tn \in Nat /\ row[o].tn \in Nat
      <3>1. p \in 0 .. w - 1 /\ o \in 0 .. w - 1 /\ o # p
        BY <2>3
      <3>2. row \in [0 .. w - 1 -> EntryOf(n)]
        BY <2>1, <2>2, <2>r, <2>x
      <3> QED
        BY <3>1, <3>2, EntryParts
    <2>5. row[winner] = Best(row[2 * q], row[2 * q + 1]) /\ row[winner] \in EntryOf(n)
      <3> DEFINE a == row[2 * q]
                 b == row[2 * q + 1]
      <3>1. CASE p = 2 * q /\ o = 2 * q + 1 /\ TieWinner(p) = 2 * q
        <4>1. row[p] = a /\ row[o] = b /\ row[TieWinner(p)] = a
          BY <3>1
        <4> HIDE DEF a, b
        <4>2. row[winner] = Best(a, b) /\ row[winner] \in {a, b}
          BY <2>4, <2>w, <4>1 DEF Best
        <4> QED
          BY <2>4, <4>1, <4>2 DEF a, b
      <3>2. CASE p = 2 * q + 1 /\ o = 2 * q /\ TieWinner(p) = 2 * q
        <4>1. row[p] = b /\ row[o] = a /\ row[TieWinner(p)] = a
          BY <3>2
        <4> HIDE DEF a, b
        <4>2. row[winner] = Best(a, b) /\ row[winner] \in {a, b}
          BY <2>4, <2>w, <4>1 DEF Best
        <4> QED
          BY <2>4, <4>1, <4>2 DEF a, b
      <3> QED
        BY <2>3, <3>1, <3>2
    <2>6. Above(n, i, row, q) = Best(row[2 * q], row[2 * q + 1])
      BY <2>3, <2>x DEF Above
    <2>7. ASSUME i + 1 # top
          PROVE  /\ h[i + 1] = LevelAbove(n, i, h[i])
                 /\ g[i + 1] = h[i + 1]
                 /\ g[i + 1] \in [0 .. x - 1 -> EntryOf(n)]
                 /\ \A j \in 0 .. x - 1 : j # q => g[i + 1][j] = Above(n, i, row, j)
      <3>1. i \in 0 .. top - 2
        BY <2>1, <2>7
      <3>2. h[i + 1] = LevelAbove(n, i, h[i])
        BY <3>1 DEF IsHeap, top
      <3>3. g[i + 1] = h[i + 1] /\ g[i + 1] \in [0 .. x - 1 -> EntryOf(n)]
        <4>1. i + 1 \in i + 1 .. top
          BY <2>1
        <4> QED
          BY <2>1, <2>2, <2>x, <4>1
      <3>4. ASSUME NEW j \in 0 .. x - 1, j # q
            PROVE  g[i + 1][j] = Above(n, i, row, j)
        <4>1. g[i + 1][j] = Above(n, i, h[i], j)
          BY <2>x, <3>2, <3>3 DEF LevelAbove
        <4>2. 2 * j < w => row[2 * j] = h[i][2 * j] /\ row[2 * j + 1] = h[i][2 * j + 1]
          BY <2>2, <2>3, <3>4
        <4> QED
          BY <2>x, <4>1, <4>2 DEF Above
      <3> QED
        BY <3>2, <3>3, <3>4
    <2>8. CASE stops
      <3>1. d = [heap |-> g, p |-> q, climbing |-> FALSE]
        BY <2>8, <2>d
      <3>2. Best(row[2 * q], row[2 * q + 1]) = row[o]
        <4>1. row[p].tn > row[o].tn
          BY <2>8, <2>s
        <4>2. CASE p = 2 * q /\ o = 2 * q + 1
          BY <2>4, <4>1, <4>2 DEF Best
        <4>3. CASE p = 2 * q + 1 /\ o = 2 * q
          BY <2>4, <4>1, <4>3 DEF Best
        <4> QED
          BY <2>3, <4>2, <4>3
      <3>3. ASSUME i + 1 # top
            PROVE  g[i + 1] = LevelAbove(n, i, row)
        <4>1. i \in 0 .. top - 2 /\ S \in [0 .. n - 1 -> EventTimes] /\ i < top
          BY <2>1, <3>3 DEF IsHeap
        <4>2. RightRow(n, S, i, h[i])
          BY <2>1, <4>1, RowsAreRight DEF top
        <4>3. g[i + 1][q] = Best(h[i][2 * q], h[i][2 * q + 1])
          <5>1. g[i + 1][q] = Above(n, i, h[i], q)
            BY <2>3, <2>7, <2>x, <3>3 DEF LevelAbove
          <5> QED
            BY <2>3, <2>x, <5>1 DEF Above
        <4>4. row[o] = h[i][o] /\ o \in {2 * q, 2 * q + 1}
          BY <2>2, <2>3, <2>4
        <4>5. Best(h[i][2 * q], h[i][2 * q + 1]) = h[i][o]
          <5>1. Best(h[i][2 * q], h[i][2 * q + 1]).model = h[i][o].model
            BY <2>8, <2>s, <4>3, <4>4
          <5>2. /\ i \in 0 .. Top(n) - 2 /\ S \in [0 .. n - 1 -> EventTimes]
                /\ RightRow(n, S, i, h[i])
            BY <4>1, <4>2 DEF top
          <5>3. q \in 0 .. Entries(n, i + 1) - 1 /\ o \in {2 * q, 2 * q + 1}
            BY <2>3, <4>4
          <5> HIDE DEF q, o, top
          <5>4. ModelNamesParent(n, i, h[i])
            BY <5>2, SameModelIsParent
          <5> QED
            BY <5>1, <5>3, <5>4, Zenon DEF ModelNamesParent
        <4>6. g[i + 1][q] = Above(n, i, row, q)
          BY <2>6, <3>2, <4>3, <4>4, <4>5
        <4>7. \A j \in 0 .. x - 1 : g[i + 1][j] = Above(n, i, row, j)
          BY <2>7, <3>3, <4>6
        <4>8. g[i + 1] = [j \in 0 .. x - 1 |-> g[i + 1][j]]
          BY <2>7, <3>3
        <4>9. g[i + 1] = [j \in 0 .. x - 1 |-> Above(n, i, row, j)]
          BY <4>7, <4>8, Zenon
        <4> QED
          BY <2>x, <4>9, Zenon DEF LevelAbove
      <3>4. ASSUME NEW k \in 0 .. top - 2
            PROVE  g[k + 1] = LevelAbove(n, k, g[k])
        <4>1. CASE k < i
          BY <2>2, <4>1
        <4>2. CASE k = i
          <5>1. i + 1 # top
            BY <2>1, <4>2
          <5> QED
            BY <2>r, <3>3, <4>2, <5>1
        <4>3. CASE k > i
          <5>1. k \in i + 1 .. top /\ k + 1 \in i + 1 .. top
            BY <2>1, <4>3
          <5> QED
            BY <2>2, <5>1 DEF IsHeap, top
        <4> QED
          BY <2>1, <4>1, <4>2, <4>3
      <3>5. g[top][0].model = Best(g[top - 1][0], g[top - 1][1]).model
        <4>1. CASE i + 1 = top
          <5>1. q = 0 /\ top - 1 = i /\ 2 * q = 0 /\ 2 * q + 1 = 1
            BY <2>1, <2>3, <4>1
          <5> QED
            BY <2>8, <2>r, <2>s, <3>2, <4>1, <5>1
        <4>2. CASE i + 1 # top
          <5>1. top \in i + 1 .. top /\ top - 1 \in i + 1 .. top /\ top > 0
            BY <2>1, <4>2
          <5> QED
            BY <2>2, <5>1 DEF IsHeap, top
        <4> QED
          BY <4>1, <4>2
      <3>6. IsHeap(n, T, g)
        <4>1. DOMAIN g = 0 .. top
          BY <2>2 DEF Trees, top
        <4> QED
          BY <2>2, <3>4, <3>5, <4>1 DEF IsHeap, top
      <3>7. d \in [heap : Trees(n), p : Nat, climbing : BOOLEAN] /\ d.climbing = FALSE /\ d.heap = g
        BY <2>2, <2>3, <3>1
      <3>8. RightClimb(n, T, h, i + 1, d)
        BY <3>6, <3>7 DEF RightClimb
      <3> QED
        BY <3>8 DEF d
    <2>9. CASE ~stops
      <3> DEFINE e == row[winner]
                 f == [g EXCEPT ![i + 1][q] = e]
      <3>1. d = [heap |-> f, p |-> q, climbing |-> TRUE]
        BY <2>9, <2>d
      <3>2. e = Best(row[2 * q], row[2 * q + 1]) /\ e \in EntryOf(n)
        BY <2>5
      <3> HIDE DEF e
      <3>3. /\ f \in Trees(n)
            /\ f[i + 1] = [g[i + 1] EXCEPT ![q] = e]
            /\ \A k \in 0 .. top : k # i + 1 => f[k] = g[k]
            /\ f[i + 1] \in [0 .. x - 1 -> EntryOf(n)]
            /\ f[i + 1][q] = e
            /\ \A j \in 0 .. x - 1 : j # q => f[i + 1][j] = g[i + 1][j]
        <4> DEFINE up == [g[i + 1] EXCEPT ![q] = e]
        <4>1. g[i + 1] \in [0 .. x - 1 -> EntryOf(n)]
          BY <2>1, <2>2, <2>x
        <4>2. up \in [0 .. x - 1 -> EntryOf(n)] /\ up[q] = e /\ \A j \in 0 .. x - 1 : j # q => up[j] = g[i + 1][j]
          BY <2>3, <3>2, <4>1
        <4>3. f = [g EXCEPT ![i + 1] = up]
          OBVIOUS
        <4> HIDE DEF up, f
        <4>4. up \in UNION {[0 .. Width(n)[k] - 1 -> EntryOf(n)] : k \in 0 .. Top(n)}
          BY <2>1, <2>x, <4>2 DEF top
        <4>5. f \in Trees(n)
          BY <2>2, <4>3, <4>4 DEF Trees
        <4>6. f[i + 1] = up /\ \A k \in 0 .. top : k # i + 1 => f[k] = g[k]
          BY <2>1, <2>2, <4>3 DEF Trees, top
        <4> QED
          BY <4>2, <4>5, <4>6 DEF up
      <3> HIDE DEF f
      <3>4. \A k \in 0 .. top : f[k] \in [0 .. Width(n)[k] - 1 -> EntryOf(n)]
        <4> SUFFICES ASSUME NEW k \in 0 .. top
                     PROVE  f[k] \in [0 .. Width(n)[k] - 1 -> EntryOf(n)]
          OBVIOUS
        <4>1. CASE k = i + 1
          BY <2>x, <3>3, <4>1
        <4>2. CASE k # i + 1
          BY <2>2, <3>3, <4>2
        <4> QED
          BY <4>1, <4>2
      <3>5. f[0] = FirstLevel(n, T)
        <4>1. 0 \in 0 .. top /\ 0 # i + 1
          BY <2>1
        <4> QED
          BY <2>2, <3>3, <4>1
      <3>6. f[i] = row
        <4>1. i # i + 1
          BY <2>1
        <4> QED
          BY <2>1, <2>r, <3>3, <4>1
      <3>7. ASSUME NEW k \in 0 .. top - 2, k < i + 1
            PROVE  f[k + 1] = LevelAbove(n, k, f[k])
        <4>1. CASE k = i
          <5>1. i + 1 # top
            BY <2>1, <4>1
          <5>2. \A j \in 0 .. x - 1 : f[i + 1][j] = Above(n, i, row, j)
            BY <2>6, <2>7, <3>2, <3>3, <5>1
          <5>3. f[i + 1] = [j \in 0 .. x - 1 |-> f[i + 1][j]]
            BY <3>3
          <5>4. f[i + 1] = [j \in 0 .. x - 1 |-> Above(n, i, row, j)]
            BY <5>2, <5>3, Zenon
          <5>5. f[i + 1] = LevelAbove(n, i, row)
            BY <2>x, <5>4, Zenon DEF LevelAbove
          <5> QED
            BY <3>6, <4>1, <5>5
        <4>2. CASE k # i
          <5>1. k < i /\ k \in 0 .. top /\ k + 1 \in 0 .. top /\ k # i + 1 /\ k + 1 # i + 1
            BY <2>1, <3>7, <4>2
          <5>2. f[k] = g[k] /\ f[k + 1] = g[k + 1]
            BY <3>3, <5>1
          <5> QED
            BY <2>2, <5>1, <5>2
        <4> QED
          BY <4>1, <4>2
      <3>8. i + 1 = top => f[top][0].model = Best(f[top - 1][0], f[top - 1][1]).model
        <4> SUFFICES ASSUME i + 1 = top PROVE f[top][0] = Best(f[top - 1][0], f[top - 1][1])
          OBVIOUS
        <4>1. q = 0 /\ top - 1 = i /\ 2 * q = 0 /\ 2 * q + 1 = 1
          BY <2>1, <2>3
        <4> QED
          BY <3>2, <3>3, <3>6, <4>1
      <3>9. ASSUME NEW k \in (i + 1) + 1 .. top
            PROVE  f[k] = h[k]
        <4>1. k \in 0 .. top /\ k # i + 1 /\ k \in i + 1 .. top
          BY <2>1
        <4> QED
          BY <2>2, <3>3, <4>1
      <3>10. ASSUME NEW j \in 0 .. x - 1, j # q
             PROVE  f[i + 1][j] = h[i + 1][j]
        <4>1. i + 1 \in i + 1 .. top
          BY <2>1
        <4> QED
          BY <2>2, <3>3, <3>10, <4>1
      <3>11. /\ d \in [heap : Trees(n), p : Nat, climbing : BOOLEAN]
             /\ d.climbing = TRUE /\ d.heap = f /\ d.p = q
        BY <2>3, <3>1, <3>3
      <3>12. (i + 1) - 1 = i /\ \A k \in 0 .. top - 2 : k < i + 1 <=> k <= i
        BY <2>1
      <3> HIDE DEF d
      <3>13. RightClimb(n, T, h, i + 1, d)
        <4>1. i + 1 = top /\ i + 1 > 0 => f[i + 1][0].model = Best(f[(i + 1) - 1][0], f[(i + 1) - 1][1]).model
          BY <3>8
        <4> QED
          BY <2>3, <2>x, <3>4, <3>5, <3>7, <3>9, <3>10, <3>11, <4>1 DEF RightClimb, top
      <3> QED
        BY <3>13 DEF d
    <2> QED
      BY <2>8, <2>9
  <1>3. c.climbing \in BOOLEAN
    BY DEF RightClimb
  <1> QED
    BY <1>1, <1>2, <1>3

(* Where update begins.                                                    *)
LEMMA ClimbStart ==
  ASSUME NEW n \in Nat \ {0}, NEW S, NEW h, IsHeap(n, S, h),
         NEW child \in 0 .. n - 1, NEW time \in EventTimes
  PROVE  RightClimb(n, [S EXCEPT ![child] = time], h, 0,
                    [heap |-> [h EXCEPT ![0][child].tn = time], p |-> child, climbing |-> TRUE])
  <1> DEFINE T == [S EXCEPT ![child] = time]
             e == [h[0][child] EXCEPT !.tn = time]
             row == [h[0] EXCEPT ![child] = e]
             g == [h EXCEPT ![0] = row]
             top == Top(n)
             w == Width(n)[0]
             c == [heap |-> g, p |-> child, climbing |-> TRUE]
  <1>1. /\ top \in Nat /\ 0 \in 0 .. top /\ Entries(n, 0) = n
        /\ S \in [0 .. n - 1 -> EventTimes] /\ T \in [0 .. n - 1 -> EventTimes]
        /\ DOMAIN h = 0 .. top
        /\ h[0] \in [0 .. w - 1 -> EntryOf(n)]
        /\ h[0] = FirstLevel(n, S)
    BY WidthFacts DEF IsHeap
  <1>w. w \in Nat /\ n <= w
    <2>1. RightRow(n, S, 0, h[0])
      BY <1>1, RowsAreRight
    <2>2. w \in Nat /\ (w = Entries(n, 0) \/ w = Entries(n, 0) + (Entries(n, 0) % 2))
      BY <1>1, WidthEquation
    <2> HIDE DEF w
    <2> QED
      BY <1>1, <2>2
  <1>2. child \in 0 .. w - 1 /\ child < n /\ child \in Nat
    BY <1>w
  <1>e. /\ h[0][child] = [model |-> child, tn |-> S[child]]
        /\ e = [model |-> child, tn |-> time]
    <2>1. h[0][child] = [model |-> child, tn |-> S[child]]
      BY <1>1, <1>2 DEF FirstLevel
    <2> QED
      BY <2>1
  <1> HIDE DEF e
  <1>3. e \in EntryOf(n)
    BY <1>e DEF EntryOf
  <1>4. ASSUME NEW j \in 0 .. w - 1
        PROVE  row[j] = IF j < n THEN [model |-> j, tn |-> T[j]] ELSE PadEntry
    <2>1. CASE j = child
      BY <1>1, <1>2, <1>e, <2>1
    <2>2. CASE j # child
      <3>1. row[j] = h[0][j]
        BY <1>1, <2>2
      <3>2. h[0][j] = IF j < n THEN [model |-> j, tn |-> S[j]] ELSE PadEntry
        BY <1>1 DEF FirstLevel
      <3>3. j < n => T[j] = S[j]
        BY <1>1, <1>w, <2>2
      <3> HIDE DEF T, row
      <3> QED
        BY <3>1, <3>2, <3>3
    <2> QED
      BY <2>1, <2>2
  <1>5. row \in [0 .. w - 1 -> EntryOf(n)] /\ \A j \in 0 .. w - 1 : j # child => row[j] = h[0][j]
    BY <1>1, <1>2, <1>3
  <1> HIDE DEF row, T
  <1>6. row = FirstLevel(n, T)
    <2>1. row = [j \in 0 .. w - 1 |-> row[j]]
      BY <1>5
    <2> QED
      BY <1>4, <2>1, Zenon DEF FirstLevel
  <1>7. /\ g = [i \in 0 .. top |-> IF i = 0 THEN row ELSE h[i]]
        /\ g[0] = row /\ \A i \in 0 .. top : i # 0 => g[i] = h[i]
    BY <1>1
  <1>8. \A i \in 0 .. top : g[i] \in [0 .. Width(n)[i] - 1 -> EntryOf(n)]
    BY <1>5, <1>7 DEF IsHeap
  <1>9. g \in Trees(n)
    <2>1. \A i \in 0 .. top : g[i] \in UNION {[0 .. Width(n)[k] - 1 -> EntryOf(n)] : k \in 0 .. top}
      BY <1>8
    <2>2. g = [i \in 0 .. top |-> g[i]]
      BY <1>7
    <2> HIDE DEF g
    <2> QED
      BY <2>1, <2>2 DEF Trees
  <1>10. [heap |-> [h EXCEPT ![0][child].tn = time], p |-> child, climbing |-> TRUE] = c
    BY DEF e, row
  <1> HIDE DEF g
  <1>11. c \in [heap : Trees(n), p : Nat, climbing : BOOLEAN] /\ c.heap = g /\ c.p = child /\ c.climbing = TRUE
    BY <1>2, <1>9
  <1> HIDE DEF c
  <1>12. RightClimb(n, T, h, 0, c)
    <2>1. \A i \in 0 .. top - 2 : ~(i < 0)
      OBVIOUS
    <2>2. \A i \in 0 + 1 .. top : i \in 0 .. top /\ i # 0
      OBVIOUS
    <2> QED
      BY <1>1, <1>2, <1>5, <1>6, <1>7, <1>8, <1>11, <2>1, <2>2 DEF RightClimb
  <1> QED
    BY <1>10, <1>12 DEF T

LEMMA ClimbEnd ==
  ASSUME NEW n \in Nat \ {0}, NEW S, NEW h, IsHeap(n, S, h),
         NEW T \in [0 .. n - 1 -> EventTimes], NEW c, RightClimb(n, T, h, Top(n), c)
  PROVE  IsHeap(n, T, c.heap)
  <1>1. CASE ~c.climbing
    BY <1>1 DEF RightClimb
  <1>2. CASE c.climbing
    <2>1. DOMAIN c.heap = 0 .. Top(n)
      BY DEF RightClimb, Trees
    <2>2. \A i \in 0 .. Top(n) - 2 : i < Top(n)
      BY WidthFacts
    <2> QED
      BY <1>2, <2>1, <2>2 DEF RightClimb, IsHeap
  <1> QED
    BY <1>1, <1>2 DEF RightClimb

(* An update keeps the tree right: the early exit of its loop is sound.    *)
LEMMA UpdateKeepsHeap ==
  ASSUME NEW n \in Nat \ {0}, NEW S, NEW h, IsHeap(n, S, h),
         NEW child \in 0 .. n - 1, NEW time \in EventTimes
  PROVE  IsHeap(n, [S EXCEPT ![child] = time], update(n, h, child, time))
  <1> DEFINE top == Top(n)
             T == [S EXCEPT ![child] = time]
             v == [heap |-> [h EXCEPT ![0][child].tn = time], p |-> child, climbing |-> TRUE]
             V == [i \in 0 .. top |-> {c \in [heap : Trees(n), p : Nat, climbing : BOOLEAN] : RightClimb(n, T, h, i, c)}]
             step == [i \in 0 .. top - 1 |-> [c \in V[i] |-> Climb(c, i)]]
             L == CHOOSE climbed : climbed = [level \in 0 .. top |->
                    IF level = 0 THEN v ELSE Climb(climbed[level - 1], level - 1)]
  <1>0. top \in Nat /\ T \in [0 .. n - 1 -> EventTimes]
    BY WidthFacts DEF IsHeap
  <1>u. update(n, h, child, time) = L[top].heap
    BY Zenon DEF update
  <1>1. /\ v \in V[0]
        /\ \A i \in 0 .. top : \A c : c \in V[i] <=> RightClimb(n, T, h, i, c)
        /\ \A i \in 0 .. top - 1 : \A c \in V[i] : step[i][c] = Climb(c, i)
    <2>1. \A i \in 0 .. top : V[i] = {c \in [heap : Trees(n), p : Nat, climbing : BOOLEAN] : RightClimb(n, T, h, i, c)}
      OBVIOUS
    <2>2. \A i \in 0 .. top - 1 : \A c \in V[i] : step[i][c] = Climb(c, i)
      OBVIOUS
    <2>4. RightClimb(n, T, h, 0, v)
      BY ClimbStart
    <2> HIDE DEF V, step, T, v
    <2>3. \A i \in 0 .. top : \A c : c \in V[i] <=> RightClimb(n, T, h, i, c)
      BY <2>1 DEF RightClimb
    <2>5. 0 \in 0 .. top
      BY <1>0
    <2> QED
      BY <2>2, <2>3, <2>4, <2>5
  <1> HIDE DEF V, step, T, v
  <1>2. ASSUME NEW i \in 0 .. top - 1, NEW c \in V[i]
        PROVE  step[i][c] \in V[i + 1] /\ Climb(c, i) \in V[i + 1]
    <2>1. i \in 0 .. top /\ i + 1 \in 0 .. top /\ RightClimb(n, T, h, i, c)
      BY <1>0, <1>1
    <2>2. RightClimb(n, T, h, i + 1, Climb(c, i))
      BY <1>0, <2>1, ClimbStep
    <2> QED
      BY <1>1, <2>1, <2>2
  <1>3. \E f : f = [level \in 0 .. top |-> IF level = 0 THEN v ELSE Climb(f[level - 1], level - 1)]
    <2> HIDE DEF top
    <2>1. PICK f : IsLevels(top, v, step, f)
      BY <1>0, <1>1, <1>2, LevelsExist
    <2>2. f = [i \in 0 .. top |-> IF i = 0 THEN v ELSE step[i - 1][f[i - 1]]]
      BY <2>1 DEF IsLevels
    <2>3. 0 .. top \subseteq {i \in 0 .. top : f[i] \in V[i]}
      <3> DEFINE G == {i \in 0 .. top : f[i] \in V[i]}
      <3>1. 0 \in G
        BY <1>0, <1>1, <2>2
      <3>2. ASSUME NEW i \in 0 .. top - 1, i \in G
            PROVE  i + 1 \in G
        <4>1. i + 1 \in 0 .. top /\ i + 1 # 0 /\ (i + 1) - 1 = i
          BY <1>0
        <4>2. f[i + 1] = step[i][f[i]]
          BY <2>2, <4>1
        <4> QED
          BY <1>2, <3>2, <4>1, <4>2
      <3> HIDE DEF G
      <3>3. 0 .. top \subseteq G
        BY <1>0, <3>1, <3>2, IntervalInduction
      <3> QED
        BY <3>3 DEF G
    <2>4. ASSUME NEW i \in 0 .. top
          PROVE  (IF i = 0 THEN v ELSE step[i - 1][f[i - 1]]) = (IF i = 0 THEN v ELSE Climb(f[i - 1], i - 1))
      <3>1. i # 0 => i - 1 \in 0 .. top - 1 /\ i - 1 \in 0 .. top
        BY <1>0
      <3>2. i # 0 => f[i - 1] \in V[i - 1]
        BY <2>3, <3>1
      <3> QED
        BY <1>1, <3>1, <3>2
    <2>5. f = [i \in 0 .. top |-> IF i = 0 THEN v ELSE Climb(f[i - 1], i - 1)]
      BY <2>2, <2>4, Zenon
    <2> QED
      BY <2>5
  <1>4. L = [level \in 0 .. top |-> IF level = 0 THEN v ELSE Climb(L[level - 1], level - 1)]
    BY <1>3, Zenon
  <1> HIDE DEF L
  <1>5. \A i \in 0 .. top : L[i] = IF i = 0 THEN v ELSE Climb(L[i - 1], i - 1)
    BY <1>4, Zenon
  <1>6. 0 .. top \subseteq {i \in 0 .. top : L[i] \in V[i]}
    <2> DEFINE G == {i \in 0 .. top : L[i] \in V[i]}
    <2>1. 0 \in G
      BY <1>0, <1>1, <1>5
    <2>2. ASSUME NEW i \in 0 .. top - 1, i \in G
          PROVE  i + 1 \in G
      <3>1. i + 1 \in 0 .. top /\ i + 1 # 0 /\ (i + 1) - 1 = i
        BY <1>0
      <3>2. L[i + 1] = Climb(L[i], i)
        BY <1>5, <3>1
      <3> QED
        BY <1>2, <2>2, <3>1, <3>2
    <2> HIDE DEF G
    <2>3. 0 .. top \subseteq G
      BY <1>0, <2>1, <2>2, IntervalInduction
    <2> QED
      BY <2>3 DEF G
  <1>7. RightClimb(n, T, h, top, L[top])
    <2>1. top \in 0 .. top
      BY <1>0
    <2> QED
      BY <1>1, <1>6, <2>1
  <1>8. IsHeap(n, T, L[top].heap)
    BY <1>0, <1>7, ClimbEnd
  <1> QED
    BY <1>u, <1>8 DEF T

(* The properties of a right tree.                                         *)
LEMMA HeapIsExact ==
  ASSUME NEW n \in Nat \ {0}, NEW T, NEW h, IsHeap(n, T, h)
  PROVE  HeapTypeOK(n, T, h) /\ NextIsEarliest(n, T, h) /\ Fresh(n, T, h)
  <1>1. HeapTypeOK(n, T, h)
    BY DEF IsHeap, HeapTypeOK, EventTimes, EntryOf
  <1>2. NextIsEarliest(n, T, h)
    BY HeapFindsEarliest
  <1>3. Fresh(n, T, h)
    <2>1. T \in [0 .. n - 1 -> EventTimes]
      BY DEF IsHeap
    <2>2. IsHeap(n, T, create(n, T))
      BY <2>1, CreateIsHeap
    <2>3. \A i \in 0 .. Top(n) - 1 : h[i] = create(n, T)[i]
      BY <2>2, OneHeapBelowTop
    <2> QED
      BY <2>3 DEF Fresh
  <1> QED
    BY <1>1, <1>2, <1>3

-----------------------------------------------------------------------------
(* The transitions of a step.                                              *)

(* A set of sequences that is closed under concatenation has the           *)
(* concatenation of any number of its sequences.                           *)
LEMMA FlattenStays ==
  ASSUME NEW W, <<>> \in W, \A a, b \in W : a \o b \in W,
         NEW n \in Nat, NEW parts \in [1 .. n -> W]
  PROVE  FlattenSeq(parts) \in W
  <1>1. Len(parts) = n
    BY SMT
  <1>2. CASE n = 0
    <2>1. parts = <<>>
      BY <1>2
    <2> QED
      BY <1>1, <1>2, <2>1 DEF FlattenSeq
  <1>3. CASE n # 0
    <2> DEFINE F == CHOOSE f : f = [i \in 1 .. n |-> IF i = 1 THEN parts[i] ELSE f[i - 1] \o parts[i]]
    <2>1. FlattenSeq(parts) = F[n]
      BY <1>1, <1>3, Zenon DEF FlattenSeq
    <2>2. \E f : IsChain(parts, n, f)
      BY <1>3, ChainExists
    <2>3. IsChain(parts, n, F)
      BY <2>2, Zenon DEF IsChain
    <2> HIDE DEF F
    <2>4. F[n] \in W
      <3>1. n \in 1 .. n
        BY <1>3
      <3> QED
        BY <1>3, <2>3, <3>1, ChainStays
    <2> QED
      BY <2>1, <2>4
  <1> QED
    BY <1>2, <1>3

(* External transitions name children that exist, and an external          *)
(* transition of a child of the nested coupling comes before the end of    *)
(* one of the nested coupling, unless it is the nested coupling that makes *)
(* the output: then none of its own external transitions is to be made.    *)
External == [kind : {"rootDext"}, child : Atomic] \cup [kind : {"innerDext"}, child : InnerChild]

FromChild  == {s \in Seq(External \cup {NestedTa}) :
                 \A i \in 1 .. Len(s) : s[i].kind = "innerDext" =>
                    \E j \in i + 1 .. Len(s) : s[j] = NestedTa}
FromNested == Seq(External)

LEMMA FromChildJoins ==
  ASSUME NEW a \in FromChild, NEW b \in FromChild
  PROVE  a \o b \in FromChild
  <1> DEFINE s == a \o b
             E == External \cup {NestedTa}
  <1>1. a \in Seq(E) /\ b \in Seq(E)
    BY DEF FromChild
  <1> HIDE DEF E
  <1>2. /\ s \in Seq(E) /\ Len(s) = Len(a) + Len(b)
        /\ Len(a) \in Nat /\ Len(b) \in Nat
        /\ \A i \in 1 .. Len(a) : s[i] = a[i]
        /\ \A i \in 1 .. Len(b) : s[i + Len(a)] = b[i]
    BY <1>1
  <1> HIDE DEF s
  <1>3. ASSUME NEW i \in 1 .. Len(s), s[i].kind = "innerDext"
        PROVE  \E j \in i + 1 .. Len(s) : s[j] = NestedTa
    <2>1. CASE i \in 1 .. Len(a)
      <3>1. PICK j \in i + 1 .. Len(a) : a[j] = NestedTa
        BY <1>2, <1>3, <2>1 DEF FromChild
      <3>2. j \in 1 .. Len(a) /\ j \in i + 1 .. Len(s)
        BY <1>2, <2>1
      <3> QED
        BY <1>2, <3>1, <3>2
    <2>2. CASE i \notin 1 .. Len(a)
      <3>1. i - Len(a) \in 1 .. Len(b) /\ (i - Len(a)) + Len(a) = i
        BY <1>2, <2>2
      <3>2. s[i] = b[i - Len(a)]
        BY <1>2, <3>1
      <3>3. PICK j \in (i - Len(a)) + 1 .. Len(b) : b[j] = NestedTa
        BY <1>3, <3>1, <3>2 DEF FromChild
      <3>4. j \in 1 .. Len(b) /\ j + Len(a) \in i + 1 .. Len(s)
        BY <1>2, <3>1
      <3> QED
        BY <1>2, <3>3, <3>4
    <2> QED
      BY <2>1, <2>2
  <1> QED
    BY <1>2, <1>3 DEF FromChild, s, E

LEMMA SeqParts ==
  ASSUME NEW R, NEW s \in Seq(R)
  PROVE  Len(s) \in Nat /\ DOMAIN s = 1 .. Len(s) /\ \A i \in 1 .. Len(s) : s[i] \in R
  OBVIOUS

(* The ends of the connections.                                            *)
LEMMA Ends ==
  /\ Len(IC) \in Nat /\ DOMAIN IC = 1 .. Len(IC)
  /\ \A i \in 1 .. Len(IC) : /\ IC[i].childSink \in Child
                             /\ IC[i].childSource # Nested \/ IC[i].childSink # Nested
  /\ Len(InnerIC) \in Nat /\ DOMAIN InnerIC = 1 .. Len(InnerIC)
  /\ \A i \in 1 .. Len(InnerIC) : InnerIC[i].childSink \in InnerChild
  /\ Len(EIC) \in Nat /\ DOMAIN EIC = 1 .. Len(EIC)
  /\ \A i \in 1 .. Len(EIC) : EIC[i].childSink \in InnerChild
  /\ Len(EOC) \in Nat /\ DOMAIN EOC = 1 .. Len(EOC)
  <1> DEFINE A == [childSource : Child, sourcePort : Nat, childSink : Child, sinkPort : Nat]
             B == [childSource : InnerChild, sourcePort : Nat, childSink : InnerChild, sinkPort : Nat]
             C == [sourcePort : Nat, childSink : InnerChild]
             D == [childSource : InnerChild, sourcePort : Nat, sinkPort : Nat]
  <1>1. IC \in Seq(A) /\ InnerIC \in Seq(B) /\ EIC \in Seq(C) /\ EOC \in Seq(D)
    BY EngineAssumption
  <1>2. \A i \in DOMAIN IC : IC[i].childSource # Nested \/ IC[i].childSink # Nested
    BY EngineAssumption
  <1>3. /\ \A x \in A : x.childSink \in Child
        /\ \A x \in B : x.childSink \in InnerChild
        /\ \A x \in C : x.childSink \in InnerChild
    OBVIOUS
  <1> HIDE DEF A, B, C, D
  <1>4. Len(IC) \in Nat /\ DOMAIN IC = 1 .. Len(IC) /\ \A i \in 1 .. Len(IC) : IC[i] \in A
    BY <1>1, SeqParts
  <1>5. Len(InnerIC) \in Nat /\ DOMAIN InnerIC = 1 .. Len(InnerIC) /\ \A i \in 1 .. Len(InnerIC) : InnerIC[i] \in B
    BY <1>1, SeqParts
  <1>6. Len(EIC) \in Nat /\ DOMAIN EIC = 1 .. Len(EIC) /\ \A i \in 1 .. Len(EIC) : EIC[i] \in C
    BY <1>1, SeqParts
  <1>7. Len(EOC) \in Nat /\ DOMAIN EOC = 1 .. Len(EOC)
    BY <1>1, SeqParts
  <1> QED
    BY <1>2, <1>3, <1>4, <1>5, <1>6, <1>7

LEMMA NestedDextIsBlock ==
  ASSUME NEW port
  PROVE  NestedDext(port) \in FromChild
  <1> DEFINE I == [kind : {"innerDext"}, child : InnerChild]
             n == Len(EIC)
             parts == [i \in 1 .. n |->
                         IF EIC[i].sourcePort = port THEN <<InnerDext(EIC[i].childSink)>> ELSE <<>>]
             s == FlattenSeq(parts)
             w == s \o <<NestedTa>>
  <1>1. n \in Nat /\ DOMAIN EIC = 1 .. n /\ \A i \in 1 .. n : EIC[i].childSink \in InnerChild
    BY Ends
  <1>2. \A c \in InnerChild : InnerDext(c) \in I
    BY DEF InnerDext
  <1> HIDE DEF I
  <1>3. \A i \in 1 .. n : (IF EIC[i].sourcePort = port THEN <<InnerDext(EIC[i].childSink)>> ELSE <<>>) \in Seq(I)
    BY <1>1, <1>2
  <1>4. parts \in [1 .. n -> Seq(I)]
    BY <1>3
  <1>5. <<>> \in Seq(I) /\ \A a, b \in Seq(I) : a \o b \in Seq(I)
    OBVIOUS
  <1>6. NestedDext(port) = w
    BY <1>1, Zenon DEF NestedDext
  <1> HIDE DEF parts, n
  <1>7. s \in Seq(I)
    BY <1>1, <1>4, <1>5, FlattenStays
  <1> HIDE DEF s
  <1>8. I \subseteq External \cup {NestedTa}
    BY DEF I, External
  <1>9. /\ w \in Seq(External \cup {NestedTa}) /\ Len(w) = Len(s) + 1 /\ Len(s) \in Nat
        /\ w[Len(s) + 1] = NestedTa
    <2>1. s \in Seq(External \cup {NestedTa})
      BY <1>7, <1>8
    <2> QED
      BY <2>1
  <1>10. ASSUME NEW i \in 1 .. Len(w), w[i].kind = "innerDext"
         PROVE  \E j \in i + 1 .. Len(w) : w[j] = NestedTa
    <2>1. i # Len(s) + 1
      BY <1>9, <1>10 DEF NestedTa
    <2>2. Len(s) + 1 \in i + 1 .. Len(w)
      BY <1>9, <2>1
    <2> QED
      BY <1>9, <2>2
  <1> QED
    BY <1>6, <1>9, <1>10 DEF FromChild

LEMMA RootDextIsExternal ==
  ASSUME NEW c \in Child, c # Nested
  PROVE  /\ RootDext(c) \in External
         /\ <<RootDext(c)>> \in FromChild /\ <<RootDext(c)>> \in FromNested
  <1>1. RootDext(c) \in External /\ RootDext(c).kind = "rootDext"
    BY DEF External, RootDext, Atomic
  <1> DEFINE s == <<RootDext(c)>>
  <1>2. s \in Seq(External \cup {NestedTa}) /\ s \in Seq(External) /\ \A i \in 1 .. Len(s) : s[i] = RootDext(c)
    BY <1>1
  <1> HIDE DEF s
  <1>3. \A i \in 1 .. Len(s) : s[i].kind # "innerDext"
    BY <1>1, <1>2
  <1> QED
    BY <1>1, <1>2, <1>3 DEF FromChild, FromNested, s

LEMMA EmptyIsBlock ==
  <<>> \in FromChild /\ <<>> \in FromNested
  BY DEF FromChild, FromNested

(* What the propagation of an output makes to be done.                     *)
LEMMA PropagatedShape ==
  ASSUME NEW port
  PROVE  /\ Propagated(port) \in FromChild
         /\ transitionChild = Nested => Propagated(port) \in FromNested
  <1> DEFINE n == Len(IC)
             part(i) == IF ~(IC[i].childSource = transitionChild /\ IC[i].sourcePort = port) THEN <<>>
                        ELSE IF IC[i].childSink = Nested THEN NestedDext(IC[i].sinkPort)
                        ELSE <<RootDext(IC[i].childSink)>>
             parts == [i \in 1 .. n |-> part(i)]
  <1>1. /\ n \in Nat /\ DOMAIN IC = 1 .. n
        /\ \A i \in 1 .. n : IC[i].childSink \in Child
        /\ \A i \in 1 .. n : IC[i].childSource # Nested \/ IC[i].childSink # Nested
    BY Ends
  <1>2. Propagated(port) = FlattenSeq(parts)
    BY <1>1, Zenon DEF Propagated
  <1>3. \A i \in 1 .. n : part(i) \in FromChild
    BY <1>1, NestedDextIsBlock, RootDextIsExternal, EmptyIsBlock
  <1>4. transitionChild = Nested => \A i \in 1 .. n : part(i) \in FromNested
    BY <1>1, RootDextIsExternal, EmptyIsBlock
  <1> HIDE DEF part, n
  <1>5. parts \in [1 .. n -> FromChild] /\ (transitionChild = Nested => parts \in [1 .. n -> FromNested])
    BY <1>3, <1>4
  <1> HIDE DEF parts
  <1>6. FlattenSeq(parts) \in FromChild
    BY <1>1, <1>5, EmptyIsBlock, FromChildJoins, FlattenStays
  <1>7. \A a, b \in FromNested : a \o b \in FromNested
    BY DEF FromNested
  <1>8. transitionChild = Nested => FlattenSeq(parts) \in FromNested
    BY <1>1, <1>5, <1>7, EmptyIsBlock, FlattenStays
  <1> QED
    BY <1>2, <1>6, <1>8

LEMMA InnerPropagatedShape ==
  ASSUME NEW port, transitionChild = Nested
  PROVE  InnerPropagated(port) \in FromNested
  <1> DEFINE n == Len(InnerIC)
             m == Len(EOC)
             own(i) == IF InnerIC[i].childSource = innerTransition /\ InnerIC[i].sourcePort = port
                       THEN <<InnerDext(InnerIC[i].childSink)>> ELSE <<>>
             out(i) == IF EOC[i].childSource = innerTransition /\ EOC[i].sourcePort = port
                       THEN Propagated(EOC[i].sinkPort) ELSE <<>>
             owns == [i \in 1 .. n |-> own(i)]
             outs == [i \in 1 .. m |-> out(i)]
  <1>1. /\ n \in Nat /\ DOMAIN InnerIC = 1 .. n /\ m \in Nat /\ DOMAIN EOC = 1 .. m
        /\ \A i \in 1 .. n : InnerIC[i].childSink \in InnerChild
    BY Ends
  <1>2. InnerPropagated(port) = FlattenSeq(owns) \o FlattenSeq(outs)
    BY <1>1, Zenon DEF InnerPropagated
  <1>3. \A i \in 1 .. n : own(i) \in FromNested
    <2>1. \A c \in InnerChild : InnerDext(c) \in External
      BY DEF InnerDext, External
    <2>2. \A c \in InnerChild : <<InnerDext(c)>> \in FromNested
      BY <2>1 DEF FromNested
    <2> QED
      BY <1>1, <2>2, EmptyIsBlock
  <1>4. \A i \in 1 .. m : out(i) \in FromNested
    BY PropagatedShape, EmptyIsBlock
  <1> HIDE DEF own, out, n, m
  <1>5. owns \in [1 .. n -> FromNested] /\ outs \in [1 .. m -> FromNested]
    BY <1>3, <1>4
  <1> HIDE DEF owns, outs
  <1>6. \A a, b \in FromNested : a \o b \in FromNested
    BY DEF FromNested
  <1>7. FlattenSeq(owns) \in FromNested /\ FlattenSeq(outs) \in FromNested
    BY <1>1, <1>5, <1>6, EmptyIsBlock, FlattenStays
  <1> QED
    BY <1>2, <1>6, <1>7

(* What is left of a step.                                                 *)
StepShape(w, nested) ==
    /\ w \in Seq(External \cup {NestedTa, Dint})
    /\ \A i \in 1 .. Len(w) : w[i] = Dint <=> i = Len(w)
    /\ nested => \A i \in 1 .. Len(w) : w[i] # NestedTa
    /\ ~nested => \A i \in 1 .. Len(w) : w[i].kind = "innerDext" => \E j \in i + 1 .. Len(w) : w[j] = NestedTa

LEMMA StepStarts ==
  ASSUME NEW nested \in BOOLEAN, NEW s, IF nested THEN s \in FromNested ELSE s \in FromChild
  PROVE  StepShape(s \o <<Dint>>, nested) /\ s \o <<Dint>> # <<>>
  <1> DEFINE w == s \o <<Dint>>
             A == External \cup {NestedTa, Dint}
  <1>0. s \in Seq(External \cup {NestedTa})
    <2>1. Seq(External) \subseteq Seq(External \cup {NestedTa})
      <3>1. External \subseteq External \cup {NestedTa}
        OBVIOUS
      <3> QED
        BY <3>1
    <2> QED
      BY <2>1 DEF FromNested, FromChild
  <1>1. s \in Seq(A) /\ Dint \in A
    <2>1. External \cup {NestedTa} \subseteq A
      OBVIOUS
    <2> HIDE DEF A
    <2>2. s \in Seq(A)
      BY <1>0, <2>1
    <2> QED
      BY <2>2 DEF A
  <1> HIDE DEF A
  <1>2. /\ w \in Seq(A) /\ Len(w) = Len(s) + 1 /\ Len(s) \in Nat /\ w # <<>>
        /\ \A i \in 1 .. Len(s) : w[i] = s[i]
        /\ w[Len(s) + 1] = Dint
    BY <1>1
  <1> HIDE DEF w
  <1>3. \A x \in External \cup {NestedTa} : x # Dint
    BY DEF External, NestedTa, Dint
  <1>4. \A i \in 1 .. Len(s) : s[i] \in External \cup {NestedTa}
    BY <1>0
  <1>5. \A i \in 1 .. Len(w) : w[i] = Dint <=> i = Len(w)
    <2> SUFFICES ASSUME NEW i \in 1 .. Len(w) PROVE w[i] = Dint <=> i = Len(w)
      OBVIOUS
    <2>1. CASE i = Len(s) + 1
      BY <1>2, <2>1
    <2>2. CASE i # Len(s) + 1
      <3>1. i \in 1 .. Len(s)
        BY <1>2, <2>2
      <3> QED
        BY <1>2, <1>3, <1>4, <2>2, <3>1
    <2> QED
      BY <2>1, <2>2
  <1>6. ASSUME nested, NEW i \in 1 .. Len(w)
        PROVE  w[i] # NestedTa
    <2>1. CASE i = Len(s) + 1
      BY <1>2, <1>3, <2>1
    <2>2. CASE i # Len(s) + 1
      <3>1. i \in 1 .. Len(s)
        BY <1>2, <2>2
      <3>2. s[i] \in External
        BY <1>6, <3>1 DEF FromNested
      <3> QED
        BY <1>2, <3>1, <3>2 DEF External, NestedTa
    <2> QED
      BY <2>1, <2>2
  <1>7. ASSUME ~nested, NEW i \in 1 .. Len(w), w[i].kind = "innerDext"
        PROVE  \E j \in i + 1 .. Len(w) : w[j] = NestedTa
    <2>1. i # Len(s) + 1
      BY <1>2, <1>7 DEF Dint
    <2>2. i \in 1 .. Len(s)
      BY <1>2, <2>1
    <2>3. PICK j \in i + 1 .. Len(s) : s[j] = NestedTa
      BY <1>2, <1>7, <2>2 DEF FromChild
    <2>4. j \in 1 .. Len(s) /\ j \in i + 1 .. Len(w)
      BY <1>2, <2>2
    <2> QED
      BY <1>2, <2>3, <2>4
  <1> QED
    BY <1>2, <1>5, <1>6, <1>7 DEF StepShape, w, A

LEMMA StepGoesOn ==
  ASSUME NEW nested \in BOOLEAN, NEW w, StepShape(w, nested), w # <<>>
  PROVE  /\ Head(w) \in External \cup {NestedTa, Dint}
         /\ StepShape(Tail(w), nested)
         /\ Head(w).kind = "dint" <=> Tail(w) = <<>>
         /\ Head(w) = w[1] /\ Len(w) \in Nat /\ Len(w) >= 1
         /\ Tail(w) = <<>> => Len(w) = 1
         /\ \A i \in 2 .. Len(w) : i - 1 \in 1 .. Len(Tail(w)) /\ Tail(w)[i - 1] = w[i]
  <1> DEFINE A == External \cup {NestedTa, Dint}
             v == Tail(w)
  <1>1. w \in Seq(A)
    BY DEF StepShape
  <1>a. \A x \in A : x.kind = "dint" <=> x = Dint
    BY DEF External, NestedTa, Dint
  <1> HIDE DEF A
  <1>2. /\ Len(w) \in Nat /\ Len(w) >= 1 /\ Head(w) = w[1] /\ Head(w) \in A
        /\ v \in Seq(A) /\ Len(v) = Len(w) - 1
        /\ \A i \in 1 .. Len(v) : v[i] = w[i + 1]
        /\ (v = <<>> <=> Len(w) = 1)
    <2>1. w # <<>>
      OBVIOUS
    <2>2. Len(w) \in Nat /\ Len(w) >= 1 /\ Head(w) = w[1] /\ Head(w) \in A
      BY <1>1, <2>1
    <2>3. v \in Seq(A) /\ Len(v) = Len(w) - 1 /\ \A i \in 1 .. Len(v) : v[i] = w[i + 1]
      BY <1>1, <2>1
    <2> HIDE DEF v
    <2>4. v = <<>> <=> Len(v) = 0
      BY <2>3, EmptySeq
    <2> QED
      BY <2>2, <2>3, <2>4
  <1> HIDE DEF v
  <1>3. ASSUME NEW i \in 1 .. Len(v)
        PROVE  i + 1 \in 1 .. Len(w) /\ v[i] = w[i + 1] /\ (i = Len(v) <=> i + 1 = Len(w))
    BY <1>2
  <1>4. \A i \in 1 .. Len(v) : v[i] = Dint <=> i = Len(v)
    BY <1>3 DEF StepShape
  <1>5. nested => \A i \in 1 .. Len(v) : v[i] # NestedTa
    BY <1>3 DEF StepShape
  <1>6. ASSUME ~nested, NEW i \in 1 .. Len(v), v[i].kind = "innerDext"
        PROVE  \E j \in i + 1 .. Len(v) : v[j] = NestedTa
    <2>1. PICK j \in (i + 1) + 1 .. Len(w) : w[j] = NestedTa
      BY <1>3, <1>6 DEF StepShape
    <2>2. j - 1 \in i + 1 .. Len(v) /\ j - 1 \in 1 .. Len(v) /\ (j - 1) + 1 = j
      BY <1>2
    <2> QED
      BY <1>3, <2>1, <2>2
  <1>7. StepShape(v, nested)
    BY <1>2, <1>4, <1>5, <1>6 DEF StepShape, A
  <1>8. Head(w).kind = "dint" <=> v = <<>>
    <2>1. 1 \in 1 .. Len(w)
      BY <1>2
    <2>2. w[1] = Dint <=> 1 = Len(w)
      BY <2>1 DEF StepShape
    <2> QED
      BY <1>2, <1>a, <2>2
  <1>9. \A i \in 2 .. Len(w) : i - 1 \in 1 .. Len(v) /\ v[i - 1] = w[i]
    <2> SUFFICES ASSUME NEW i \in 2 .. Len(w) PROVE i - 1 \in 1 .. Len(v) /\ v[i - 1] = w[i]
      OBVIOUS
    <2>1. i - 1 \in 1 .. Len(v) /\ (i - 1) + 1 = i
      BY <1>2
    <2> QED
      BY <1>2, <2>1
  <1> QED
    BY <1>2, <1>7, <1>8, <1>9 DEF v, A

-----------------------------------------------------------------------------
(* The inductive invariant of the engine.                                  *)

TreesAreRight == IsHeap(Size, tn, heap) /\ IsHeap(InnerSize, innerTn, innerHeap)

FieldTypes ==
    /\ transitionChild \in Child /\ innerTransition \in InnerChild
    /\ t \in Nat /\ rootTn \in EventTimes
    /\ stepsCount \in Nat /\ stepsNow \in Nat
    /\ status \in {"running", "ended", "aborted", "thrown"}

(* A ta of the nested coupling is still to come in this step.              *)
NestedTaAhead ==
    \/ transitionChild = Nested /\ work # <<>>
    \/ \E i \in 1 .. Len(work) : work[i] = NestedTa

(* What the root keeps of the nested coupling is stale only until then.    *)
NestedIsKnown ==
    ~NestedTaAhead =>
        /\ innerTransition = next(InnerSize, innerHeap)
        /\ tn[Nested] = innerTn[innerTransition]

(* Between two steps the root's choice is that of its tree.                *)
RootIsKnown ==
    work = <<>> => transitionChild = next(Size, heap) /\ rootTn = tn[transitionChild]

NoChildMissed ==
    /\ \A c \in Atomic : tn[c] \in Finite => tn[c] >= t
    /\ \A c \in InnerChild : innerTn[c] \in Finite => innerTn[c] >= t

StepsAreCounted ==
    /\ lastTransition = t
    /\ status = "running" =>
          /\ t < Pad
          /\ stepsCount <= maxSteps
          /\ stepsNow = stepsCount + (IF t = 0 THEN 0 ELSE 1)

EngineIInv ==
    /\ TreesAreRight
    /\ FieldTypes
    /\ NestedIsKnown
    /\ RootIsKnown
    /\ NoChildMissed
    /\ StepsAreCounted
    /\ AbortedAfter
    /\ work = <<>> \/ StepShape(work, transitionChild = Nested)
    /\ work # <<>> => emitter = Imminent

(* Two times of events, one of which is finite.                            *)
LEMMA UpToFinite ==
  ASSUME NEW x \in EventTimes, NEW y \in EventTimes, y \in Finite, x < y \/ x = y
  PROVE  x \in Finite
  BY TimesAreNat DEF EventTimes

LEMMA FiniteFirst ==
  ASSUME NEW x \in EventTimes, NEW y \in EventTimes, x \in Finite, y \notin Finite
  PROVE  x < y
  <1>1. x < Pad /\ Pad < y /\ x \in Nat /\ y \in Nat /\ Pad \in Nat
    BY TimesAreNat DEF EventTimes
  <1> QED
    BY <1>1

LEMMA LeafCases ==
  ASSUME NEW m \in Leaf
  PROVE  \/ m[1] \in Child /\ m[1] # Nested /\ m[1] \in Atomic /\ m[2] = 0 /\ LeafTn(m) = tn[m[1]]
         \/ m[1] = Nested /\ m[2] \in InnerChild /\ LeafTn(m) = innerTn[m[2]]
  BY DEF Leaf, LeafTn, Atomic

(* Between two steps both couplings know their next child: the root's time *)
(* is that of the globally earliest model.                                 *)
LEMMA AgendaAtRest ==
  ASSUME EngineIInv, work = <<>>
  PROVE  /\ rootTn = LeafTn(Imminent)
         /\ \A m \in Leaf : LeafTn(m) \in Finite => rootTn \in Finite
         /\ rootTn \in Finite => \A m \in Leaf :
              \/ LeafTn(Imminent) < LeafTn(m)
              \/ /\ LeafTn(Imminent) = LeafTn(m)
                 /\ Imminent[1] < m[1] \/ (Imminent[1] = m[1] /\ Imminent[2] <= m[2])
         /\ \A m \in Leaf : LeafTn(m) \in Finite => rootTn <= LeafTn(m)
  <1> DEFINE tc == transitionChild
             it == innerTransition
  <1>1. /\ tn \in [Child -> EventTimes] /\ innerTn \in [InnerChild -> EventTimes]
        /\ tc \in Child /\ it \in InnerChild /\ rootTn \in EventTimes
        /\ Size \in Nat \ {0} /\ InnerSize \in Nat \ {0}
        /\ Child \subseteq Nat /\ InnerChild \subseteq Nat /\ Nested \in Child
    <2>1. tn \in [Child -> EventTimes] /\ innerTn \in [InnerChild -> EventTimes]
      BY DEF EngineIInv, TreesAreRight, IsHeap, Child, InnerChild
    <2> QED
      BY <2>1, EngineAssumption DEF EngineIInv, FieldTypes, Child, InnerChild
  <1>2. /\ tc = next(Size, heap) /\ rootTn = tn[tc]
        /\ it = next(InnerSize, innerHeap) /\ tn[Nested] = innerTn[it]
    <2>1. ~NestedTaAhead
      <3>1. Len(work) = 0
        OBVIOUS
      <3>2. 1 .. Len(work) = {}
        BY <3>1
      <3> QED
        BY <3>2 DEF NestedTaAhead
    <2> QED
      BY <2>1 DEF EngineIInv, NestedIsKnown, RootIsKnown
  <1>3. (\E c \in Child : tn[c] \in Finite) => \A c \in Child : tn[tc] < tn[c] \/ (tn[tc] = tn[c] /\ tc <= c)
    <2>1. NextIsEarliest(Size, tn, heap)
      BY <1>1, HeapIsExact DEF EngineIInv, TreesAreRight
    <2> QED
      BY <1>2, <2>1 DEF NextIsEarliest, Child
  <1>4. (\E c \in InnerChild : innerTn[c] \in Finite) =>
           \A c \in InnerChild : innerTn[it] < innerTn[c] \/ (innerTn[it] = innerTn[c] /\ it <= c)
    <2>1. NextIsEarliest(InnerSize, innerTn, innerHeap)
      BY <1>1, HeapIsExact DEF EngineIInv, TreesAreRight
    <2> QED
      BY <1>2, <2>1 DEF NextIsEarliest, InnerChild
  <1>5. rootTn = LeafTn(Imminent) /\ Imminent = <<tc, IF tc = Nested THEN it ELSE 0>>
    BY <1>2 DEF LeafTn, Imminent
  <1> HIDE DEF tc, it
  <1>6. ASSUME NEW m \in Leaf, LeafTn(m) \in Finite
        PROVE  rootTn \in Finite
    <2>1. \E c \in Child : tn[c] \in Finite
      <3>1. CASE m[1] = Nested /\ m[2] \in InnerChild /\ LeafTn(m) = innerTn[m[2]]
        <4>1. innerTn[it] < innerTn[m[2]] \/ innerTn[it] = innerTn[m[2]]
          BY <1>4, <1>6, <3>1
        <4>2. innerTn[it] \in Finite
          BY <1>1, <1>6, <3>1, <4>1, UpToFinite
        <4> QED
          BY <1>1, <1>2, <4>2
      <3>2. CASE m[1] \in Child /\ LeafTn(m) = tn[m[1]]
        BY <1>6, <3>2
      <3> QED
        BY <3>1, <3>2, LeafCases
    <2>2. PICK c \in Child : tn[c] \in Finite
      BY <2>1
    <2>3. tn[tc] < tn[c] \/ tn[tc] = tn[c]
      BY <1>3, <2>2
    <2> QED
      BY <1>1, <1>2, <2>2, <2>3, UpToFinite
  <1>7. ASSUME rootTn \in Finite, NEW m \in Leaf
        PROVE  /\ LeafTn(m) \in EventTimes
               /\ \/ rootTn < LeafTn(m)
                  \/ /\ rootTn = LeafTn(m)
                     /\ Imminent[1] < m[1] \/ (Imminent[1] = m[1] /\ Imminent[2] <= m[2])
    <2>0. rootTn \in Nat /\ \A c \in Child : tn[c] \in Nat /\ c \in Nat
      BY <1>1, TimesAreNat
    <2>i. \A c \in InnerChild : innerTn[c] \in Nat /\ c \in Nat
      BY <1>1, TimesAreNat
    <2>1. \A c \in Child : rootTn < tn[c] \/ (rootTn = tn[c] /\ tc <= c)
      BY <1>1, <1>2, <1>3, <1>7
    <2>p. Imminent[1] = tc /\ Imminent[2] = (IF tc = Nested THEN it ELSE 0)
      BY <1>5
    <2>2. CASE m[1] \in Child /\ m[1] # Nested /\ m[2] = 0 /\ LeafTn(m) = tn[m[1]]
      <3>1. rootTn < tn[m[1]] \/ (rootTn = tn[m[1]] /\ tc <= m[1])
        BY <2>1, <2>2
      <3>2. tc <= m[1] => tc < m[1] \/ (tc = m[1] /\ Imminent[2] <= m[2])
        <4>1. tc \in Nat /\ m[1] \in Nat
          BY <1>1, <2>2
        <4>2. tc = m[1] => Imminent[2] = 0
          BY <2>2, <2>p
        <4> QED
          BY <2>2, <4>1, <4>2
      <3> QED
        BY <1>1, <2>2, <2>p, <3>1, <3>2
    <2>3. CASE m[1] = Nested /\ m[2] \in InnerChild /\ LeafTn(m) = innerTn[m[2]]
      <3>1. rootTn < tn[Nested] \/ (rootTn = tn[Nested] /\ tc <= Nested)
        BY <1>1, <2>1
      <3>t. LeafTn(m) \in EventTimes
        BY <1>1, <2>3
      <3>2. CASE innerTn[m[2]] \notin Finite
        BY <1>1, <1>7, <2>3, <3>2, <3>t, FiniteFirst
      <3>3. CASE innerTn[m[2]] \in Finite
        <4> DEFINE a == tn[Nested]
                   b == innerTn[m[2]]
        <4>1. a < b \/ (a = b /\ it <= m[2])
          BY <1>2, <1>4, <2>3, <3>3
        <4>2. a \in Nat /\ b \in Nat /\ tc \in Nat /\ Nested \in Nat /\ it \in Nat /\ m[2] \in Nat
          BY <1>1, <2>0, <2>i, <2>3
        <4> HIDE DEF a, b
        <4>3. rootTn < b \/ (rootTn = b /\ tc <= Nested /\ it <= m[2])
          BY <2>0, <3>1, <4>1, <4>2 DEF a
        <4>4. tc <= Nested /\ it <= m[2] => tc < Nested \/ (tc = Nested /\ Imminent[2] <= m[2])
          BY <2>p, <4>2
        <4> QED
          BY <2>3, <2>p, <3>t, <4>3, <4>4 DEF b
      <3> QED
        BY <3>2, <3>3
    <2> QED
      BY <2>2, <2>3, LeafCases
  <1>8. ASSUME NEW m \in Leaf, LeafTn(m) \in Finite
        PROVE  rootTn <= LeafTn(m)
    <2>1. rootTn \in Finite
      BY <1>6, <1>8
    <2>2. LeafTn(m) \in EventTimes /\ (rootTn < LeafTn(m) \/ rootTn = LeafTn(m))
      BY <1>7, <2>1
    <2>3. rootTn \in Nat /\ LeafTn(m) \in Nat
      BY <1>1, <2>2, TimesAreNat
    <2> QED
      BY <2>2, <2>3
  <1> QED
    BY <1>5, <1>6, <1>7, <1>8

(* The invariant has everything that the runs check of the agenda.         *)
LEMMA InvariantMeansExact ==
  EngineIInv => AgendaExact
  <1> SUFFICES ASSUME EngineIInv PROVE AgendaExact
    OBVIOUS
  <1>0. Size \in Nat \ {0} /\ InnerSize \in Nat \ {0}
    BY EngineAssumption
  <1>1. HeapTypeOK(Size, tn, heap) /\ NextIsEarliest(Size, tn, heap) /\ Fresh(Size, tn, heap)
    BY <1>0, HeapIsExact DEF EngineIInv, TreesAreRight
  <1>2. /\ HeapTypeOK(InnerSize, innerTn, innerHeap)
        /\ NextIsEarliest(InnerSize, innerTn, innerHeap)
        /\ Fresh(InnerSize, innerTn, innerHeap)
    BY <1>0, HeapIsExact DEF EngineIInv, TreesAreRight
  <1>3. GloballyEarliest
    <2> SUFFICES ASSUME work = <<>>, NEW k \in Leaf, LeafTn(k) \in Finite
                 PROVE  /\ rootTn = LeafTn(Imminent)
                        /\ \A m \in Leaf :
                              \/ LeafTn(Imminent) < LeafTn(m)
                              \/ /\ LeafTn(Imminent) = LeafTn(m)
                                 /\ Imminent[1] < m[1] \/ (Imminent[1] = m[1] /\ Imminent[2] <= m[2])
      BY DEF GloballyEarliest
    <2> HIDE DEF EngineIInv
    <2> QED
      BY AgendaAtRest
  <1>4. NoEventMissed
    <2> SUFFICES ASSUME NEW m \in Leaf, LeafTn(m) \in Finite PROVE LeafTn(m) >= t
      BY DEF NoEventMissed
    <2> QED
      BY LeafCases DEF EngineIInv, NoChildMissed
  <1> QED
    BY <1>1, <1>2, <1>3, <1>4 DEF AgendaExact

(* The engine starts with it.                                              *)
LEMMA InitEngineIInv == EngineInit => EngineIInv
  <1> SUFFICES ASSUME EngineInit PROVE EngineIInv
    OBVIOUS
  <1>1. /\ Size \in Nat \ {0} /\ InnerSize \in Nat \ {0} /\ Nested \in Child /\ maxSteps \in Nat
        /\ tf \in Finite
    BY EngineAssumption
  <1>2. innerTn \in [0 .. InnerSize - 1 -> EventTimes] /\ tn \in [0 .. Size - 1 -> EventTimes]
    BY DEF EngineInit, EventTimes, Child, InnerChild
  <1>3. IsHeap(Size, tn, heap) /\ IsHeap(InnerSize, innerTn, innerHeap)
    BY <1>1, <1>2, CreateIsHeap DEF EngineInit
  <1>4. next(Size, heap) \in Child /\ next(InnerSize, innerHeap) \in InnerChild
    BY <1>1, <1>3, HeapFindsEarliest DEF Child, InnerChild
  <1>5. work = <<>> /\ t = 0 /\ lastTransition = 0 /\ stepsCount = 0 /\ stepsNow = 0 /\ status = "running"
    BY DEF EngineInit
  <1>6. FieldTypes
    BY <1>2, <1>4, <1>5 DEF EngineInit, FieldTypes, Child
  <1>7. NestedIsKnown /\ RootIsKnown
    BY DEF EngineInit, NestedIsKnown, RootIsKnown
  <1>8. NoChildMissed
    <2>1. \A x \in EventTimes : x >= 0
      <3>1. ASSUME NEW x \in EventTimes PROVE x >= 0
        <4>1. x \in Nat
          BY TimesAreNat
        <4> QED
          BY <4>1
      <3> QED
        BY <3>1
    <2>2. \A c \in Atomic : tn[c] \in EventTimes
      BY <1>2 DEF Child, Atomic
    <2>3. \A c \in InnerChild : innerTn[c] \in EventTimes
      BY <1>2 DEF InnerChild
    <2> QED
      BY <1>5, <2>1, <2>2, <2>3 DEF NoChildMissed
  <1>9. StepsAreCounted
    <2>1. 0 < Pad
      <3>1. tf \in EventTimes /\ tf < Pad /\ tf \in Nat /\ Pad \in Nat
        BY <1>1, TimesAreNat DEF EventTimes
      <3> QED
        BY <3>1
    <2> QED
      BY <1>1, <1>5, <2>1 DEF StepsAreCounted
  <1>10. AbortedAfter
    BY <1>1, <1>5 DEF AbortedAfter
  <1> QED
    BY <1>3, <1>5, <1>6, <1>7, <1>8, <1>9, <1>10 DEF EngineIInv, TreesAreRight

(* The types that every step below uses.                                   *)
LEMMA EngineTypes ==
  ASSUME EngineIInv
  PROVE  /\ tn \in [Child -> EventTimes] /\ innerTn \in [InnerChild -> EventTimes]
         /\ transitionChild \in Child /\ innerTransition \in InnerChild
         /\ rootTn \in EventTimes /\ rootTn \in Nat
         /\ t \in Nat /\ stepsCount \in Nat /\ stepsNow \in Nat
         /\ Size \in Nat \ {0} /\ InnerSize \in Nat \ {0} /\ Nested \in Child
         /\ maxSteps \in Nat
         /\ Imminent \in Leaf
  <1>1. tn \in [Child -> EventTimes] /\ innerTn \in [InnerChild -> EventTimes]
    BY DEF EngineIInv, TreesAreRight, IsHeap, Child, InnerChild
  <1>2. /\ transitionChild \in Child /\ innerTransition \in InnerChild /\ rootTn \in EventTimes
        /\ t \in Nat /\ stepsCount \in Nat /\ stepsNow \in Nat
    BY DEF EngineIInv, FieldTypes
  <1>3. Size \in Nat \ {0} /\ InnerSize \in Nat \ {0} /\ Nested \in Child /\ maxSteps \in Nat
    BY EngineAssumption
  <1>4. Imminent \in Leaf
    BY <1>2 DEF Imminent, Leaf, Atomic
  <1>5. rootTn \in Nat
    BY <1>2, TimesAreNat
  <1> QED
    BY <1>1, <1>2, <1>3, <1>4, <1>5

(* A step never goes back in time and passes no event.                     *)
LEMMA BeginPasses ==
  ASSUME EngineIInv, Begin
  PROVE  /\ t' \in Nat /\ t' >= t
         /\ TreesAreRight' /\ NoChildMissed'
         /\ lastTransition' = t'
         /\ stepsCount' = IF t' = t THEN stepsCount + 1 ELSE 0
         /\ stepsCount' \in Nat
         /\ ~NestedTaAhead
         /\ Imminent' = Imminent
  <1>0. /\ work = <<>> /\ status = "running" /\ t' = rootTn /\ CountStep
        /\ tn' = tn /\ heap' = heap /\ innerTn' = innerTn /\ innerHeap' = innerHeap
        /\ innerTransition' = innerTransition /\ transitionChild' = transitionChild /\ rootTn' = rootTn
    BY DEF Begin, treeVars, heapVars
  <1>1. rootTn \in EventTimes /\ rootTn \in Nat /\ t \in Nat /\ stepsCount \in Nat /\ Imminent \in Leaf
    BY EngineTypes
  <1>2. rootTn >= t
    <2>1. rootTn = LeafTn(Imminent)
      BY <1>0, AgendaAtRest
    <2>2. CASE rootTn \in Finite
      <3>1. NoChildMissed
        BY DEF EngineIInv
      <3> QED
        BY <1>1, <2>1, <2>2, <3>1, LeafCases DEF NoChildMissed
    <2>3. CASE rootTn \notin Finite
      <3>1. t < Pad
        BY <1>0 DEF EngineIInv, StepsAreCounted
      <3>2. Pad < rootTn /\ Pad \in Nat
        BY <1>1, <2>3, TimesAreNat DEF EventTimes
      <3> QED
        BY <1>1, <3>1, <3>2
    <2> QED
      BY <2>2, <2>3
  <1>3. TreesAreRight'
    <2>1. TreesAreRight
      BY DEF EngineIInv
    <2> QED
      BY <1>0, <2>1 DEF TreesAreRight
  <1>4. \A m \in Leaf : LeafTn(m) \in Finite => rootTn <= LeafTn(m)
    BY <1>0, AgendaAtRest
  <1>5. NoChildMissed'
    <2>0. tn \in [Child -> EventTimes] /\ innerTn \in [InnerChild -> EventTimes]
      BY EngineTypes
    <2>1. ASSUME NEW c \in Atomic, tn[c] \in Finite
          PROVE  tn[c] >= rootTn
      <3>1. <<c, 0>> \in Leaf /\ LeafTn(<<c, 0>>) = tn[c]
        BY DEF Leaf, LeafTn, Atomic
      <3>2. rootTn <= tn[c]
        BY <1>4, <2>1, <3>1
      <3>3. tn[c] \in Nat
        BY <2>0, TimesAreNat DEF Atomic
      <3> QED
        BY <1>1, <3>2, <3>3
    <2>2. ASSUME NEW c \in InnerChild, innerTn[c] \in Finite
          PROVE  innerTn[c] >= rootTn
      <3>1. <<Nested, c>> \in Leaf /\ LeafTn(<<Nested, c>>) = innerTn[c]
        BY DEF Leaf, LeafTn
      <3>2. rootTn <= innerTn[c]
        BY <1>4, <2>2, <3>1
      <3>3. innerTn[c] \in Nat
        BY <2>0, TimesAreNat
      <3> QED
        BY <1>1, <3>2, <3>3
    <2> QED
      BY <1>0, <2>1, <2>2 DEF NoChildMissed
  <1>6. lastTransition' = t' /\ stepsCount' = IF t' = t THEN stepsCount + 1 ELSE 0
    <2>1. lastTransition = t
      BY DEF EngineIInv, StepsAreCounted
    <2> QED
      BY <1>0, <2>1 DEF CountStep
  <1>7. ~NestedTaAhead
    <2>1. 1 .. Len(work) = {}
      BY <1>0
    <2> QED
      BY <1>0, <2>1 DEF NestedTaAhead
  <1>8. Imminent' = Imminent
    BY <1>0 DEF Imminent
  <1> QED
    BY <1>0, <1>1, <1>2, <1>3, <1>5, <1>6, <1>7, <1>8

(* An output and the transitions it asks for.                              *)
LEMMA LambdaPreserves ==
  ASSUME EngineIInv, NEW port, Lambda(port)
  PROVE  EngineIInv'
  <1>b. Begin
    BY DEF Lambda
  <1>0. /\ t' \in Nat /\ t' >= t /\ TreesAreRight' /\ NoChildMissed'
        /\ lastTransition' = t' /\ stepsCount' = (IF t' = t THEN stepsCount + 1 ELSE 0)
        /\ stepsCount' \in Nat /\ ~NestedTaAhead /\ Imminent' = Imminent
    BY <1>b, BeginPasses
  <1>1. /\ stepsCount' <= maxSteps /\ t' <= tf /\ emitter' = Imminent
        /\ stepsNow' = (IF t' = t THEN stepsNow + 1 ELSE 1) /\ status' = "running"
    BY <1>b DEF Lambda, Begin
  <1>2. /\ transitionChild \in Child /\ innerTransition \in InnerChild /\ rootTn \in EventTimes
        /\ t \in Nat /\ stepsNow \in Nat /\ stepsCount \in Nat /\ maxSteps \in Nat
    BY EngineTypes
  <1>3. /\ tn' = tn /\ heap' = heap /\ innerTn' = innerTn /\ innerHeap' = innerHeap /\ rootTn' = rootTn
        /\ innerTransition' = innerTransition /\ transitionChild' = transitionChild
    BY <1>b DEF Begin, treeVars, heapVars
  <1> DEFINE s == IF port = NoPort THEN <<>>
                  ELSE IF transitionChild = Nested THEN InnerPropagated(port)
                  ELSE Propagated(port)
  <1>4. work' = s \o <<Dint>>
    BY DEF Lambda
  <1>5. IF transitionChild = Nested THEN s \in FromNested ELSE s \in FromChild
    <2>1. CASE port = NoPort
      <3>1. s = <<>>
        BY <2>1
      <3> QED
        BY <3>1, EmptyIsBlock
    <2>2. CASE port # NoPort /\ transitionChild = Nested
      <3>1. s = InnerPropagated(port)
        BY <2>2
      <3> QED
        BY <2>2, <3>1, InnerPropagatedShape
    <2>3. CASE port # NoPort /\ transitionChild # Nested
      <3>1. s = Propagated(port)
        BY <2>3
      <3> QED
        BY <2>3, <3>1, PropagatedShape
    <2> QED
      BY <2>1, <2>2, <2>3
  <1> HIDE DEF s
  <1>6. StepShape(work', transitionChild = Nested) /\ work' # <<>>
    BY <1>4, <1>5, StepStarts
  <1>7. FieldTypes'
    BY <1>0, <1>1, <1>2, <1>3 DEF FieldTypes
  <1>8. NestedIsKnown'
    <2>1. NestedIsKnown
      BY DEF EngineIInv
    <2> QED
      BY <1>0, <1>3, <2>1 DEF NestedIsKnown
  <1>9. RootIsKnown'
    BY <1>6 DEF RootIsKnown
  <1>10. StepsAreCounted' /\ AbortedAfter'
    <2>1. t' < Pad
      <3>1. tf \in Nat /\ tf < Pad /\ Pad \in Nat
        BY EngineAssumption, TimesAreNat DEF EventTimes
      <3> QED
        BY <1>0, <1>1, <3>1
    <2>2. stepsNow = stepsCount + (IF t = 0 THEN 0 ELSE 1)
      BY <1>b DEF EngineIInv, StepsAreCounted, Begin
    <2>3. stepsNow' = stepsCount' + (IF t' = 0 THEN 0 ELSE 1)
      BY <1>0, <1>1, <1>2, <2>2
    <2>4. stepsNow' <= maxSteps + 1
      BY <1>0, <1>1, <1>2, <2>3
    <2> QED
      BY <1>0, <1>1, <2>1, <2>3, <2>4 DEF StepsAreCounted, AbortedAfter
  <1>11. (transitionChild = Nested)' = (transitionChild = Nested)
    BY <1>3
  <1> QED
    BY <1>0, <1>1, <1>3, <1>6, <1>7, <1>8, <1>9, <1>10 DEF EngineIInv

(* Too many steps at one time.                                             *)
LEMMA AbortPreserves ==
  ASSUME EngineIInv, Abort
  PROVE  EngineIInv'
  <1>b. Begin
    BY DEF Abort
  <1>0. /\ t' \in Nat /\ t' >= t /\ TreesAreRight' /\ NoChildMissed'
        /\ lastTransition' = t' /\ stepsCount' = (IF t' = t THEN stepsCount + 1 ELSE 0)
        /\ stepsCount' \in Nat /\ ~NestedTaAhead /\ Imminent' = Imminent
    BY <1>b, BeginPasses
  <1>1. /\ stepsCount' > maxSteps /\ status' = "aborted" /\ work' = work
        /\ emitter' = emitter /\ stepsNow' = stepsNow /\ work = <<>>
    BY <1>b DEF Abort, Begin
  <1>2. /\ transitionChild \in Child /\ innerTransition \in InnerChild /\ rootTn \in EventTimes
        /\ t \in Nat /\ stepsNow \in Nat /\ stepsCount \in Nat /\ maxSteps \in Nat
    BY EngineTypes
  <1>3. /\ tn' = tn /\ heap' = heap /\ innerTn' = innerTn /\ innerHeap' = innerHeap /\ rootTn' = rootTn
        /\ innerTransition' = innerTransition /\ transitionChild' = transitionChild
    BY <1>b DEF Begin, treeVars, heapVars
  <1>7. FieldTypes'
    BY <1>0, <1>1, <1>2, <1>3 DEF FieldTypes
  <1>8. NestedIsKnown' /\ RootIsKnown'
    <2>1. NestedIsKnown /\ RootIsKnown
      BY DEF EngineIInv
    <2> QED
      BY <1>0, <1>1, <1>3, <2>1 DEF NestedIsKnown, RootIsKnown
  <1>10. StepsAreCounted' /\ AbortedAfter'
    <2>1. stepsNow = stepsCount + (IF t = 0 THEN 0 ELSE 1) /\ stepsCount <= maxSteps
      BY <1>b DEF EngineIInv, StepsAreCounted, Begin
    <2>2. t' = t /\ stepsCount = maxSteps
      BY <1>0, <1>1, <1>2, <2>1
    <2> QED
      BY <1>0, <1>1, <1>2, <2>1, <2>2 DEF StepsAreCounted, AbortedAfter
  <1> QED
    BY <1>0, <1>1, <1>3, <1>7, <1>8, <1>10 DEF EngineIInv

(* The final time has been passed.                                         *)
LEMMA EndPreserves ==
  ASSUME EngineIInv, End
  PROVE  EngineIInv'
  <1>b. Begin
    BY DEF End
  <1>0. /\ t' \in Nat /\ t' >= t /\ TreesAreRight' /\ NoChildMissed'
        /\ lastTransition' = t' /\ stepsCount' = (IF t' = t THEN stepsCount + 1 ELSE 0)
        /\ stepsCount' \in Nat /\ ~NestedTaAhead /\ Imminent' = Imminent
    BY <1>b, BeginPasses
  <1>1. /\ status' = "ended" /\ work' = work
        /\ emitter' = emitter /\ stepsNow' = stepsNow /\ work = <<>>
    BY <1>b DEF End, Begin
  <1>2. /\ transitionChild \in Child /\ innerTransition \in InnerChild /\ rootTn \in EventTimes
        /\ stepsNow \in Nat
    BY EngineTypes
  <1>3. /\ tn' = tn /\ heap' = heap /\ innerTn' = innerTn /\ innerHeap' = innerHeap /\ rootTn' = rootTn
        /\ innerTransition' = innerTransition /\ transitionChild' = transitionChild
    BY <1>b DEF Begin, treeVars, heapVars
  <1>7. FieldTypes'
    BY <1>0, <1>1, <1>2, <1>3 DEF FieldTypes
  <1>8. NestedIsKnown' /\ RootIsKnown'
    <2>1. NestedIsKnown /\ RootIsKnown
      BY DEF EngineIInv
    <2> QED
      BY <1>0, <1>1, <1>3, <2>1 DEF NestedIsKnown, RootIsKnown
  <1>10. StepsAreCounted' /\ AbortedAfter'
    BY <1>0, <1>1 DEF StepsAreCounted, AbortedAfter, EngineIInv
  <1> QED
    BY <1>0, <1>1, <1>3, <1>7, <1>8, <1>10 DEF EngineIInv

(* What every transition of a step leaves alone, and what it finds.        *)
LEMMA TransitionTakesNext ==
  ASSUME EngineIInv, NEW kind, Transition(kind)
  PROVE  /\ StepShape(work, transitionChild = Nested) /\ work # <<>>
         /\ StepShape(work', transitionChild = Nested)
         /\ work' = <<>> <=> kind = "dint"
         /\ kind = "rootDext" => Head(work).child \in Atomic
         /\ kind = "innerDext" => Head(work).child \in InnerChild
         /\ kind = "nestedTa" => transitionChild # Nested
         /\ emitter' = Imminent
         /\ t' = t /\ t \in Nat /\ StepsAreCounted' /\ AbortedAfter'
         /\ stepsCount' \in Nat /\ stepsNow' \in Nat /\ status' = "running"
  <1>0. /\ status = "running" /\ work # <<>> /\ Head(work).kind = kind /\ work' = Tail(work)
        /\ t' = t /\ lastTransition' = lastTransition /\ stepsCount' = stepsCount
        /\ emitter' = emitter /\ stepsNow' = stepsNow /\ status' = status
    BY DEF Transition
  <1>1. StepShape(work, transitionChild = Nested)
    BY <1>0 DEF EngineIInv
  <1> DEFINE nested == transitionChild = Nested
  <1>2. nested \in BOOLEAN
    OBVIOUS
  <1>3. /\ Head(work) \in External \cup {NestedTa, Dint}
        /\ StepShape(Tail(work), nested)
        /\ Head(work).kind = "dint" <=> Tail(work) = <<>>
        /\ Head(work) = work[1] /\ Len(work) \in Nat /\ Len(work) >= 1
    BY <1>0, <1>1, <1>2, StepGoesOn
  <1>4. kind = "rootDext" => Head(work).child \in Atomic
    BY <1>0, <1>3 DEF External, NestedTa, Dint
  <1>5. kind = "innerDext" => Head(work).child \in InnerChild
    BY <1>0, <1>3 DEF External, NestedTa, Dint
  <1>6. kind = "nestedTa" => transitionChild # Nested
    <2> SUFFICES ASSUME kind = "nestedTa" PROVE ~nested
      OBVIOUS
    <2>1. Head(work) = NestedTa
      BY <1>0, <1>3 DEF External, NestedTa, Dint
    <2>2. 1 \in 1 .. Len(work) /\ work[1] = NestedTa
      BY <1>3, <2>1
    <2> QED
      BY <1>1, <2>2 DEF StepShape
  <1>7. emitter' = Imminent
    BY <1>0 DEF EngineIInv
  <1>8. StepsAreCounted' /\ AbortedAfter'
    <2>1. StepsAreCounted /\ AbortedAfter
      BY DEF EngineIInv
    <2> QED
      BY <1>0, <2>1 DEF StepsAreCounted, AbortedAfter
  <1>9. t \in Nat /\ stepsCount \in Nat /\ stepsNow \in Nat
    BY EngineTypes
  <1> QED
    BY <1>0, <1>1, <1>3, <1>4, <1>5, <1>6, <1>7, <1>8, <1>9

(* An external transition of a child of the root leaves a ta of the nested *)
(* coupling to come, and one of a child of the nested coupling knows that  *)
(* a ta comes.                                                             *)
LEMMA TaStaysAhead ==
  ASSUME EngineIInv, NEW kind, Transition(kind), transitionChild' = transitionChild,
         \/ kind = "innerDext"
         \/ kind = "rootDext" /\ NestedTaAhead
  PROVE  NestedTaAhead'
  <1>0. work # <<>> /\ Head(work).kind = kind /\ work' = Tail(work)
    BY DEF Transition
  <1> DEFINE nested == transitionChild = Nested
  <1>1. StepShape(work, nested) /\ nested \in BOOLEAN
    BY TransitionTakesNext
  <1>2. /\ Head(work).kind = "dint" <=> Tail(work) = <<>>
        /\ Head(work) = work[1] /\ Len(work) \in Nat /\ Len(work) >= 1
        /\ \A i \in 2 .. Len(work) : i - 1 \in 1 .. Len(Tail(work)) /\ Tail(work)[i - 1] = work[i]
    BY <1>0, <1>1, StepGoesOn
  <1>3. work' # <<>>
    BY <1>0, <1>2
  <1>4. CASE nested
    BY <1>3, <1>4 DEF NestedTaAhead
  <1>5. CASE ~nested
    <2>1. \E j \in 2 .. Len(work) : work[j] = NestedTa
      <3>1. CASE kind = "innerDext"
        <4>1. 1 \in 1 .. Len(work) /\ work[1].kind = "innerDext"
          BY <1>0, <1>2, <3>1
        <4>2. \E j \in 1 + 1 .. Len(work) : work[j] = NestedTa
          BY <1>1, <1>5, <4>1 DEF StepShape
        <4> QED
          BY <4>2
      <3>2. CASE kind = "rootDext" /\ NestedTaAhead
        <4>1. PICK j \in 1 .. Len(work) : work[j] = NestedTa
          BY <1>5, <3>2 DEF NestedTaAhead
        <4>2. j # 1
          BY <1>0, <1>2, <3>2, <4>1 DEF NestedTa
        <4>3. j \in 2 .. Len(work)
          BY <1>2, <4>2
        <4> QED
          BY <4>1, <4>3
      <3> QED
        BY <3>1, <3>2
    <2>2. PICK j \in 2 .. Len(work) : work[j] = NestedTa
      BY <2>1
    <2>3. j - 1 \in 1 .. Len(work') /\ work'[j - 1] = NestedTa
      BY <1>0, <1>2, <2>2
    <2> QED
      BY <2>3 DEF NestedTaAhead
  <1> QED
    BY <1>4, <1>5

(* A transition of a child and the update of the tree of its coupling.     *)
LEMMA ChildMovesKeeps ==
  ASSUME EngineIInv, NEW child \in Child, NEW time \in EventTimes, ChildMoves(child, time)
  PROVE  /\ IsHeap(Size, tn', heap')
         /\ tn' \in [Child -> EventTimes]
         /\ tn'[child] = time
         /\ \A c \in Child : c # child => tn'[c] = tn[c]
         /\ next(Size, heap') \in Child
  <1>1. tn' = [tn EXCEPT ![child] = time] /\ heap' = update(Size, heap, child, time)
    BY DEF ChildMoves
  <1>2. tn \in [Child -> EventTimes] /\ Size \in Nat \ {0}
    BY EngineTypes
  <1>3. IsHeap(Size, tn, heap) /\ child \in 0 .. Size - 1
    BY DEF EngineIInv, TreesAreRight, Child
  <1>4. IsHeap(Size, [tn EXCEPT ![child] = time], update(Size, heap, child, time))
    BY <1>2, <1>3, UpdateKeepsHeap
  <1>5. IsHeap(Size, tn', heap')
    BY <1>1, <1>4
  <1>6. next(Size, heap') \in Child
    BY <1>2, <1>5, HeapFindsEarliest DEF Child
  <1> QED
    BY <1>1, <1>2, <1>5, <1>6

LEMMA InnerMovesKeeps ==
  ASSUME EngineIInv, NEW child \in InnerChild, NEW time \in EventTimes, InnerMoves(child, time)
  PROVE  /\ IsHeap(InnerSize, innerTn', innerHeap')
         /\ innerTn' \in [InnerChild -> EventTimes]
         /\ innerTn'[child] = time
         /\ \A c \in InnerChild : c # child => innerTn'[c] = innerTn[c]
         /\ next(InnerSize, innerHeap') \in InnerChild
  <1>1. /\ innerTn' = [innerTn EXCEPT ![child] = time]
        /\ innerHeap' = update(InnerSize, innerHeap, child, time)
    BY DEF InnerMoves
  <1>2. innerTn \in [InnerChild -> EventTimes] /\ InnerSize \in Nat \ {0}
    BY EngineTypes
  <1>3. IsHeap(InnerSize, innerTn, innerHeap) /\ child \in 0 .. InnerSize - 1
    BY DEF EngineIInv, TreesAreRight, InnerChild
  <1>4. IsHeap(InnerSize, [innerTn EXCEPT ![child] = time], update(InnerSize, innerHeap, child, time))
    BY <1>2, <1>3, UpdateKeepsHeap
  <1>5. IsHeap(InnerSize, innerTn', innerHeap')
    BY <1>1, <1>4
  <1>6. next(InnerSize, innerHeap') \in InnerChild
    BY <1>2, <1>5, HeapFindsEarliest DEF InnerChild
  <1> QED
    BY <1>1, <1>2, <1>5, <1>6

LEMMA NextTimeIsTime ==
  ASSUME EngineIInv, NEW time \in NextTime
  PROVE  time \in EventTimes /\ (time \in Finite => time >= t)
  <1>1. CASE time \in Finite /\ time >= t
    BY <1>1 DEF EventTimes
  <1>2. CASE time \in Passive /\ time \notin Finite
    BY <1>2 DEF EventTimes
  <1>3. Finite \cap Passive = {}
    <2>1. ASSUME NEW x \in Finite, x \in Passive PROVE FALSE
      <3>1. x < Pad /\ Pad < x /\ Pad \in Nat
        BY <2>1, TimesAreNat
      <3>2. x \in Nat
        BY TimesAreNat DEF EventTimes
      <3> QED
        BY <3>1, <3>2
    <2> QED
      BY <2>1
  <1> QED
    BY <1>1, <1>2, <1>3 DEF NextTime

(* One child of the root makes its external transition.                    *)
LEMMA RootChildDextPreserves ==
  ASSUME EngineIInv, NEW time \in NextTime, RootChildDext(time)
  PROVE  EngineIInv'
  <1> DEFINE child == Head(work).child
  <1>0. /\ Transition("rootDext") /\ ChildMoves(child, time)
        /\ innerTn' = innerTn /\ innerHeap' = innerHeap /\ innerTransition' = innerTransition
        /\ transitionChild' = transitionChild /\ rootTn' = rootTn
    BY DEF RootChildDext
  <1>1. /\ StepShape(work', transitionChild = Nested) /\ work' # <<>> /\ child \in Atomic
        /\ emitter' = Imminent /\ t' = t /\ t \in Nat /\ StepsAreCounted' /\ AbortedAfter'
        /\ stepsCount' \in Nat /\ stepsNow' \in Nat /\ status' = "running"
    BY <1>0, TransitionTakesNext
  <1>2. time \in EventTimes /\ (time \in Finite => time >= t) /\ child \in Child /\ child # Nested
    BY <1>1, NextTimeIsTime DEF Atomic
  <1> HIDE DEF child
  <1>3. /\ IsHeap(Size, tn', heap') /\ tn'[child] = time
        /\ \A c \in Child : c # child => tn'[c] = tn[c]
    BY <1>0, <1>2, ChildMovesKeeps
  <1>4. /\ transitionChild \in Child /\ innerTransition \in InnerChild /\ rootTn \in EventTimes
        /\ Nested \in Child
    BY EngineTypes
  <1>5. TreesAreRight'
    <2>1. IsHeap(InnerSize, innerTn, innerHeap)
      BY DEF EngineIInv, TreesAreRight
    <2> QED
      BY <1>0, <1>3, <2>1 DEF TreesAreRight
  <1>6. FieldTypes'
    BY <1>0, <1>1, <1>4 DEF FieldTypes
  <1>7. NestedIsKnown'
    <2>1. ~NestedTaAhead' => ~NestedTaAhead
      BY <1>0, TaStaysAhead
    <2>2. NestedIsKnown
      BY DEF EngineIInv
    <2>3. tn'[Nested] = tn[Nested]
      BY <1>2, <1>3, <1>4
    <2> QED
      BY <1>0, <2>1, <2>2, <2>3 DEF NestedIsKnown
  <1>8. RootIsKnown'
    BY <1>1 DEF RootIsKnown
  <1>9. NoChildMissed'
    <2>1. NoChildMissed
      BY DEF EngineIInv
    <2> QED
      BY <1>0, <1>1, <1>2, <1>3, <2>1 DEF NoChildMissed, Atomic
  <1>10. Imminent' = Imminent
    BY <1>0 DEF Imminent
  <1> QED
    BY <1>0, <1>1, <1>5, <1>6, <1>7, <1>8, <1>9, <1>10 DEF EngineIInv

(* One child of the nested coupling does.                                  *)
LEMMA InnerChildDextPreserves ==
  ASSUME EngineIInv, NEW time \in NextTime, InnerChildDext(time)
  PROVE  EngineIInv'
  <1> DEFINE child == Head(work).child
  <1>0. /\ Transition("innerDext") /\ InnerMoves(child, time)
        /\ tn' = tn /\ heap' = heap /\ innerTransition' = innerTransition
        /\ transitionChild' = transitionChild /\ rootTn' = rootTn
    BY DEF InnerChildDext, heapVars
  <1>1. /\ StepShape(work', transitionChild = Nested) /\ work' # <<>> /\ child \in InnerChild
        /\ emitter' = Imminent /\ t' = t /\ t \in Nat /\ StepsAreCounted' /\ AbortedAfter'
        /\ stepsCount' \in Nat /\ stepsNow' \in Nat /\ status' = "running"
    BY <1>0, TransitionTakesNext
  <1>2. time \in EventTimes /\ (time \in Finite => time >= t)
    BY <1>1, NextTimeIsTime
  <1> HIDE DEF child
  <1>3. /\ IsHeap(InnerSize, innerTn', innerHeap') /\ innerTn'[child] = time
        /\ \A c \in InnerChild : c # child => innerTn'[c] = innerTn[c]
    BY <1>0, <1>1, <1>2, InnerMovesKeeps
  <1>4. transitionChild \in Child /\ innerTransition \in InnerChild /\ rootTn \in EventTimes
    BY EngineTypes
  <1>5. TreesAreRight'
    <2>1. IsHeap(Size, tn, heap)
      BY DEF EngineIInv, TreesAreRight
    <2> QED
      BY <1>0, <1>3, <2>1 DEF TreesAreRight
  <1>6. FieldTypes'
    BY <1>0, <1>1, <1>4 DEF FieldTypes
  <1>7. NestedIsKnown'
    <2>1. NestedTaAhead'
      BY <1>0, TaStaysAhead
    <2> QED
      BY <2>1 DEF NestedIsKnown
  <1>8. RootIsKnown'
    BY <1>1 DEF RootIsKnown
  <1>9. NoChildMissed'
    <2>1. NoChildMissed
      BY DEF EngineIInv
    <2> QED
      BY <1>0, <1>1, <1>2, <1>3, <2>1 DEF NoChildMissed
  <1>10. Imminent' = Imminent
    BY <1>0 DEF Imminent
  <1> QED
    BY <1>0, <1>1, <1>5, <1>6, <1>7, <1>8, <1>9, <1>10 DEF EngineIInv

(* The ta of the nested coupling, which the root is told.                  *)
LEMMA InnerTaKeeps ==
  ASSUME EngineIInv, InnerTa, IsHeap(InnerSize, innerTn', innerHeap')
  PROVE  /\ IsHeap(Size, tn', heap')
         /\ next(Size, heap') \in Child /\ tn' \in [Child -> EventTimes]
         /\ innerTransition' = next(InnerSize, innerHeap') /\ innerTransition' \in InnerChild
         /\ tn'[Nested] = innerTn'[innerTransition']
         /\ \A c \in Atomic : tn'[c] = tn[c]
  <1> DEFINE time == innerTn'[innerTransition']
  <1>1. innerTransition' = next(InnerSize, innerHeap') /\ ChildMoves(Nested, time)
    BY DEF InnerTa
  <1>2. InnerSize \in Nat \ {0} /\ Nested \in Child
    BY EngineTypes
  <1>3. innerTransition' \in InnerChild
    BY <1>1, <1>2, HeapFindsEarliest DEF InnerChild
  <1>4. time \in EventTimes
    BY <1>3 DEF IsHeap, InnerChild
  <1> HIDE DEF time
  <1>5. /\ IsHeap(Size, tn', heap') /\ tn'[Nested] = time
        /\ \A c \in Child : c # Nested => tn'[c] = tn[c]
        /\ next(Size, heap') \in Child /\ tn' \in [Child -> EventTimes]
    BY <1>1, <1>2, <1>4, ChildMovesKeeps
  <1> QED
    BY <1>1, <1>3, <1>5 DEF Atomic, time

(* The external transitions of the nested coupling end.                    *)
LEMMA NestedDextEndsPreserves ==
  ASSUME EngineIInv, NestedDextEnds
  PROVE  EngineIInv'
  <1>0. /\ Transition("nestedTa") /\ InnerTa
        /\ innerTn' = innerTn /\ innerHeap' = innerHeap
        /\ transitionChild' = transitionChild /\ rootTn' = rootTn
    BY DEF NestedDextEnds
  <1>1. /\ StepShape(work', transitionChild = Nested) /\ work' # <<>> /\ transitionChild # Nested
        /\ emitter' = Imminent /\ t' = t /\ t \in Nat /\ StepsAreCounted' /\ AbortedAfter'
        /\ stepsCount' \in Nat /\ stepsNow' \in Nat /\ status' = "running"
    BY <1>0, TransitionTakesNext
  <1>2. IsHeap(InnerSize, innerTn', innerHeap')
    BY <1>0 DEF EngineIInv, TreesAreRight
  <1>3. /\ IsHeap(Size, tn', heap')
        /\ innerTransition' = next(InnerSize, innerHeap') /\ innerTransition' \in InnerChild
        /\ tn'[Nested] = innerTn'[innerTransition']
        /\ \A c \in Atomic : tn'[c] = tn[c]
    BY <1>0, <1>2, InnerTaKeeps
  <1>4. transitionChild \in Child /\ rootTn \in EventTimes
    BY EngineTypes
  <1>5. TreesAreRight'
    BY <1>2, <1>3 DEF TreesAreRight
  <1>6. FieldTypes'
    BY <1>0, <1>1, <1>3, <1>4 DEF FieldTypes
  <1>7. NestedIsKnown'
    BY <1>3 DEF NestedIsKnown
  <1>8. RootIsKnown'
    BY <1>1 DEF RootIsKnown
  <1>9. NoChildMissed'
    <2>1. NoChildMissed
      BY DEF EngineIInv
    <2> QED
      BY <1>0, <1>1, <1>3, <2>1 DEF NoChildMissed
  <1>10. Imminent' = Imminent
    BY <1>0, <1>1 DEF Imminent
  <1> QED
    BY <1>0, <1>1, <1>5, <1>6, <1>7, <1>8, <1>9, <1>10 DEF EngineIInv

(* The internal transition of the imminent model, at either level.         *)
LEMMA AtomicDintPreserves ==
  ASSUME EngineIInv, NEW time \in NextTime, AtomicDint(time)
  PROVE  EngineIInv'
  <1>0. /\ Transition("dint") /\ transitionChild # Nested /\ ChildMoves(transitionChild, time) /\ RootTa
        /\ innerTn' = innerTn /\ innerHeap' = innerHeap /\ innerTransition' = innerTransition
    BY DEF AtomicDint
  <1>1. /\ work' = <<>> /\ t' = t /\ t \in Nat /\ StepsAreCounted' /\ AbortedAfter'
        /\ stepsCount' \in Nat /\ stepsNow' \in Nat /\ status' = "running"
    BY <1>0, TransitionTakesNext
  <1>2. time \in EventTimes /\ (time \in Finite => time >= t)
    BY <1>1, NextTimeIsTime
  <1>3. transitionChild \in Child /\ innerTransition \in InnerChild /\ Nested \in Child
    BY EngineTypes
  <1>4. /\ IsHeap(Size, tn', heap') /\ tn'[transitionChild] = time
        /\ \A c \in Child : c # transitionChild => tn'[c] = tn[c]
        /\ next(Size, heap') \in Child /\ tn' \in [Child -> EventTimes]
    BY <1>0, <1>2, <1>3, ChildMovesKeeps
  <1>5. TreesAreRight'
    <2>1. IsHeap(InnerSize, innerTn, innerHeap)
      BY DEF EngineIInv, TreesAreRight
    <2> QED
      BY <1>0, <1>4, <2>1 DEF TreesAreRight
  <1>6. transitionChild' = next(Size, heap') /\ rootTn' = tn'[transitionChild']
    BY <1>0 DEF RootTa
  <1>7. FieldTypes'
    BY <1>0, <1>1, <1>3, <1>4, <1>6 DEF FieldTypes
  <1>8. NestedIsKnown'
    <2>1. ~NestedTaAhead
      <3>1. /\ StepShape(work, FALSE) /\ work # <<>> /\ Head(work).kind = "dint"
        BY <1>0, TransitionTakesNext DEF Transition
      <3>2. Tail(work) = <<>> /\ Len(work) = 1 /\ Head(work) = work[1]
        BY <3>1, StepGoesOn
      <3>3. \A i \in 1 .. Len(work) : work[i] # NestedTa
        BY <3>1, <3>2 DEF NestedTa
      <3> QED
        BY <1>0, <3>3 DEF NestedTaAhead
    <2>2. NestedIsKnown
      BY DEF EngineIInv
    <2>3. tn'[Nested] = tn[Nested]
      BY <1>0, <1>3, <1>4
    <2> QED
      BY <1>0, <2>1, <2>2, <2>3 DEF NestedIsKnown
  <1>9. RootIsKnown'
    BY <1>6 DEF RootIsKnown
  <1>10. NoChildMissed'
    <2>1. NoChildMissed
      BY DEF EngineIInv
    <2> QED
      BY <1>0, <1>1, <1>2, <1>3, <1>4, <2>1 DEF NoChildMissed, Atomic
  <1> QED
    BY <1>1, <1>5, <1>7, <1>8, <1>9, <1>10 DEF EngineIInv

LEMMA NestedDintPreserves ==
  ASSUME EngineIInv, NEW time \in NextTime, NestedDint(time)
  PROVE  EngineIInv'
  <1>0. Transition("dint") /\ InnerMoves(innerTransition, time) /\ InnerTa /\ RootTa
    BY DEF NestedDint
  <1>1. /\ work' = <<>> /\ t' = t /\ t \in Nat /\ StepsAreCounted' /\ AbortedAfter'
        /\ stepsCount' \in Nat /\ stepsNow' \in Nat /\ status' = "running"
    BY <1>0, TransitionTakesNext
  <1>2. time \in EventTimes /\ (time \in Finite => time >= t)
    BY <1>1, NextTimeIsTime
  <1>3. innerTransition \in InnerChild
    BY EngineTypes
  <1>4. /\ IsHeap(InnerSize, innerTn', innerHeap') /\ innerTn'[innerTransition] = time
        /\ \A c \in InnerChild : c # innerTransition => innerTn'[c] = innerTn[c]
    BY <1>0, <1>2, <1>3, InnerMovesKeeps
  <1>5. /\ IsHeap(Size, tn', heap')
        /\ next(Size, heap') \in Child /\ tn' \in [Child -> EventTimes]
        /\ innerTransition' = next(InnerSize, innerHeap') /\ innerTransition' \in InnerChild
        /\ tn'[Nested] = innerTn'[innerTransition']
        /\ \A c \in Atomic : tn'[c] = tn[c]
    BY <1>0, <1>4, InnerTaKeeps
  <1>6. transitionChild' = next(Size, heap') /\ rootTn' = tn'[transitionChild']
    BY <1>0 DEF RootTa
  <1>7. TreesAreRight'
    BY <1>4, <1>5 DEF TreesAreRight
  <1>8. FieldTypes'
    BY <1>1, <1>5, <1>6 DEF FieldTypes
  <1>9. NestedIsKnown' /\ RootIsKnown'
    BY <1>5, <1>6 DEF NestedIsKnown, RootIsKnown
  <1>10. NoChildMissed'
    <2>1. NoChildMissed
      BY DEF EngineIInv
    <2> QED
      BY <1>1, <1>2, <1>4, <1>5, <2>1 DEF NoChildMissed
  <1> QED
    BY <1>1, <1>7, <1>8, <1>9, <1>10 DEF EngineIInv

(* A transition throws, or nothing happens.                                *)
LEMMA RestPreserves ==
  ASSUME EngineIInv, Throw \/ UNCHANGED simVars
  PROVE  EngineIInv'
  <1>1. /\ tn' = tn /\ heap' = heap /\ innerTn' = innerTn /\ innerHeap' = innerHeap
        /\ innerTransition' = innerTransition /\ transitionChild' = transitionChild /\ rootTn' = rootTn
        /\ t' = t /\ lastTransition' = lastTransition /\ stepsCount' = stepsCount
        /\ work' = work /\ emitter' = emitter /\ stepsNow' = stepsNow
        /\ status' = status \/ status' = "thrown"
    BY DEF Throw, simVars, engineVars, treeVars, heapVars
  <1>2. TreesAreRight' /\ FieldTypes' /\ NoChildMissed'
    BY <1>1 DEF EngineIInv, TreesAreRight, FieldTypes, NoChildMissed
  <1>3. NestedIsKnown' /\ RootIsKnown'
    BY <1>1 DEF EngineIInv, NestedIsKnown, NestedTaAhead, RootIsKnown
  <1>4. StepsAreCounted' /\ AbortedAfter'
    BY <1>1 DEF EngineIInv, StepsAreCounted, AbortedAfter
  <1>5. Imminent' = Imminent
    BY <1>1 DEF Imminent
  <1>6. /\ work' = <<>> \/ StepShape(work', transitionChild' = Nested)
        /\ work' # <<>> => emitter' = Imminent'
    BY <1>1, <1>5 DEF EngineIInv
  <1> QED
    BY <1>2, <1>3, <1>4, <1>6 DEF EngineIInv

LEMMA NextEngineIInv == EngineIInv /\ [EngineNext]_simVars => EngineIInv'
  <1> SUFFICES ASSUME EngineIInv, [EngineNext]_simVars PROVE EngineIInv'
    OBVIOUS
  <1>1. ASSUME NEW port \in Ports \cup {NoPort}, Lambda(port) PROVE EngineIInv'
    BY <1>1, LambdaPreserves
  <1>2. ASSUME NEW time \in NextTime, RootChildDext(time) PROVE EngineIInv'
    BY <1>2, RootChildDextPreserves
  <1>3. ASSUME NEW time \in NextTime, InnerChildDext(time) PROVE EngineIInv'
    BY <1>3, InnerChildDextPreserves
  <1>4. ASSUME NEW time \in NextTime, AtomicDint(time) PROVE EngineIInv'
    BY <1>4, AtomicDintPreserves
  <1>5. ASSUME NEW time \in NextTime, NestedDint(time) PROVE EngineIInv'
    BY <1>5, NestedDintPreserves
  <1> QED
    BY <1>1, <1>2, <1>3, <1>4, <1>5, AbortPreserves, EndPreserves, RestPreserves,
       NestedDextEndsPreserves DEF EngineNext

(* The invariant holds in every reachable state.                           *)
THEOREM EngineInvariant == EngineSpec => []EngineIInv
  BY InitEngineIInv, NextEngineIInv, PTL DEF EngineSpec

(* The two trees and the times that the couplings cache act as one agenda: *)
(* no entry below the top of a tree is stale, each coupling's choice is    *)
(* its earliest child with the lowest index, between two steps the model   *)
(* that steps next is the earliest of all atomic models, and time passes   *)
(* no model's event (ChildHeap::update, Coupling::ta, RootSimulator::step).*)
THEOREM AgendaIsExact == EngineSpec => []AgendaExact
  BY EngineInvariant, InvariantMeansExact, PTL

(* The internal transition that ends a step is the one of the model that   *)
(* made the step's output, whatever external transitions come in between   *)
(* (Coupling::lambda and Coupling::dint read transitionChild each time).   *)
THEOREM OutputsArePaired == EngineSpec => []Paired
  <1>1. EngineIInv => Paired
    BY DEF EngineIInv, Paired
  <1> QED
    BY <1>1, EngineInvariant, PTL

(* A simulation is aborted after maxSteps + 1 steps at one time, one less  *)
(* at time 0, and no model makes more (RootSimulator::step).               *)
THEOREM AbortsAfterCount == EngineSpec => []AbortedAfter
  <1>1. EngineIInv => AbortedAfter
    BY DEF EngineIInv
  <1> QED
    BY <1>1, EngineInvariant, PTL

-----------------------------------------------------------------------------
(* The TCP connection: the inductive invariant.                            *)

(* setNextSigma's choice stays right until the sender's next event: a      *)
(* sender that forwards is imminent, and its window has room.              *)
ForwardHasRoom ==
    myState = "FORWARDING_PACKET" =>
        senderNext = "now" /\ Cardinality(onTheFly) < congestionWindow

(* Without a forced period a queue in state WAITING is never imminent.     *)
RestsWithoutPeriod == ForcedPeriod = "never" /\ mystate = "WAITING" => queueNext = "never"

(* A server that processes has a packet.                                   *)
ServerHasPacket == server = "PROCESSING" => incomingPacket \in SEQ

(* Only what the other end has received is acknowledged.                   *)
AcksAreReceipts ==
    /\ acks \subseteq received
    /\ \A i \in DOMAIN packetsToAck : packetsToAck[i] \in received

TcpIInv ==
    /\ TcpInv
    /\ AcknowledgedWasReceived
    /\ ForwardHasRoom
    /\ RestsWithoutPeriod
    /\ ServerHasPacket
    /\ AcksAreReceipts

-----------------------------------------------------------------------------
(* Facts about the operators of the sender.                                *)

(* getNextPacketPendingForward finds a packet when there is one.           *)
LEMMA NextIsPending ==
  ASSUME NEW buf \in Seq(SEQ), NEW fly, Pending(buf, fly) # {}
  PROVE  NextPacketPendingForward(buf, fly) \in Pending(buf, fly)
  <1>1. Pending(buf, fly) \subseteq Nat
    BY DEF Pending
  <1>2. \E i \in Pending(buf, fly) : \A j \in Pending(buf, fly) : i <= j
    BY <1>1, LeastExists
  <1> QED
    BY <1>2 DEF NextPacketPendingForward

(* What setNextSigma establishes.                                          *)
LEMMA SigmaChoice ==
  ASSUME NEW buf, NEW fwd, NEW fly, NEW window, setNextSigma(buf, fwd, fly, window)
  PROVE  /\ myState' \in {"FORWARDING_PACKET", "RETRANSMITTING_PACKET"}
         /\ senderNext' \in {"now", "later", "never"}
         /\ senderNext' # "never" <=> buf # <<>>
         /\ myState' = "FORWARDING_PACKET" =>
               /\ senderNext' = "now"
               /\ AvailableCongestionWindow(fwd, fly, window) > 0
               /\ Pending(buf, fly) # {}
  <1>1. Pending(buf, fly) # {} => buf # <<>>
    BY DEF Pending
  <1> QED
    BY <1>1 DEF setNextSigma, TimerSigma

(* Sets of packets are finite.                                             *)
LEMMA PacketSetsFinite ==
  ASSUME NEW S, S \subseteq SEQ
  PROVE  IsFiniteSet(S) /\ Cardinality(S) \in Nat
  <1>1. IsFiniteSet(SEQ)
    BY FS_Interval, TcpAssumption DEF SEQ
  <1> QED
    BY <1>1, FS_Subset, FS_CardinalityType

(* Membership in a sequence that grows at its end or loses its head.       *)
LEMMA AmongAppend ==
  ASSUME NEW s \in Seq(SEQ), NEW e \in SEQ, NEW p
  PROVE  Among(p, Append(s, e)) <=> p = e \/ Among(p, s)
  <1>1. /\ DOMAIN s = 1 .. Len(s) /\ Len(s) \in Nat
        /\ DOMAIN Append(s, e) = 1 .. Len(s) + 1
        /\ \A i \in 1 .. Len(s) : Append(s, e)[i] = s[i]
        /\ Append(s, e)[Len(s) + 1] = e
    OBVIOUS
  <1> QED
    BY <1>1 DEF Among

LEMMA AmongTail ==
  ASSUME NEW s \in Seq(SEQ), s # <<>>, NEW p, Among(p, s)
  PROVE  p = Head(s) \/ Among(p, Tail(s))
  <1>1. PICK i \in DOMAIN s : s[i] = p
    BY DEF Among
  <1>2. CASE i = 1
    BY <1>1, <1>2
  <1>3. CASE i # 1
    <2>1. i - 1 \in DOMAIN Tail(s) /\ Tail(s)[i - 1] = s[i]
      BY <1>3
    <2> QED
      BY <1>1, <2>1 DEF Among
  <1> QED
    BY <1>2, <1>3

-----------------------------------------------------------------------------
(* Each part of the invariant is preserved.                                *)

(* What one step knows of the sender, whichever action it is.              *)
LEMMA ForwardTakesPending ==
  ASSUME TypeOK, Forward
  PROVE  \E p \in SEQ : /\ Among(p, sendBuffer) /\ p \notin onTheFly
                        /\ forwarded' = forwarded \cup {p}
                        /\ onTheFly' = onTheFly \cup {p}
                        /\ queueArrival(p)
  <1>1. NextPacketPendingForward(sendBuffer, onTheFly) \in Pending(sendBuffer, onTheFly)
    BY NextIsPending DEF TypeOK, Forward
  <1> QED
    BY SMTT(30), <1>1 DEF TypeOK, Forward, Pending, Among

(* A valid ACK is for the head of the buffer.                              *)
LEMMA ValidAckErasesHead ==
  ASSUME TypeOK, NEW a, ValidAck(a)
  PROVE  Head(sendBuffer) = a /\ sendBuffer # <<>> /\ a \in SEQ /\ Tail(sendBuffer) \in Seq(SEQ)
  BY DEF TypeOK, ValidAck

LEMMA InitTcpIInv == Init => TcpIInv
  <1> SUFFICES ASSUME Init PROVE TcpIInv
    OBVIOUS
  <1>1. IsFiniteSet({}) /\ Cardinality({}) = 0
    BY FS_EmptySet
  <1>2. TypeOK
    BY TcpAssumption DEF Init, TypeOK, NoPacket
  <1>3. SenderArmed /\ WindowRespected /\ HopHandshake
    BY <1>1 DEF Init, SenderArmed, WindowRespected, HopHandshake
  <1>4. AcknowledgedWasReceived /\ ForwardHasRoom /\ RestsWithoutPeriod /\ ServerHasPacket /\ AcksAreReceipts
    BY DEF Init, AcknowledgedWasReceived, ForwardHasRoom, RestsWithoutPeriod, ServerHasPacket, AcksAreReceipts
  <1> QED
    BY <1>2, <1>3, <1>4 DEF TcpIInv, TcpInv

(* setNewCAAfterAckReceived never shrinks the window.                      *)
LEMMA AckWidensWindow ==
  ASSUME TypeOK, setNewCAAfterAckReceived
  PROVE  /\ congestionWindow' \in Nat \ {0} /\ congestionWindow <= congestionWindow'
         /\ slowStartThreshold' \in Nat
         /\ congestionAvoidanceState' \in {"SLOW_START", "CONGESTION_AVOIDANCE"}
         /\ pendingAcks' \in Nat
  BY DEF TypeOK, setNewCAAfterAckReceived, WindowComplete

LEMMA TypePreserved == TcpIInv /\ [Next]_vars => TypeOK'
  <1> SUFFICES ASSUME TcpIInv, [Next]_vars PROVE TypeOK'
    OBVIOUS
  <1>0. TypeOK /\ ServerHasPacket
    BY DEF TcpIInv, TcpInv
  <1> USE <1>0 DEF caVars, senderVars, queueVars, serverVars, ackVars
  <1>1. CASE Submit
    <2>1. lastSequenceNumber \in SEQ /\ lastSequenceNumber' \in 0 .. Packets
      BY <1>1, TcpAssumption DEF Submit, TypeOK, SEQ
    <2>2. sendBuffer' \in Seq(SEQ)
      BY <1>1, <2>1 DEF Submit, TypeOK
    <2>3. myState' \in {"FORWARDING_PACKET", "RETRANSMITTING_PACKET"} /\ senderNext' \in {"now", "later", "never"}
      BY <1>1, SigmaChoice DEF Submit
    <2> QED
      BY <1>1, <2>1, <2>2, <2>3 DEF Submit, TypeOK
  <1>2. ASSUME NEW a \in SEQ, AckArrives(a) PROVE TypeOK'
    <2>1. CASE ValidAck(a)
      <3>0. Head(sendBuffer) \in SEQ /\ Tail(sendBuffer) \in Seq(SEQ)
        BY <2>1, ValidAckErasesHead
      <3>1. /\ sendBuffer' \in Seq(SEQ) /\ acknowledged' \in Seq(SEQ)
            /\ forwarded' \subseteq SEQ /\ onTheFly' \subseteq SEQ
        <4>1. Append(acknowledged, Head(sendBuffer)) \in Seq(SEQ) /\ forwarded \subseteq SEQ /\ onTheFly \subseteq SEQ
          BY <3>0 DEF TypeOK
        <4> QED
          BY <1>2, <2>1, <3>0, <4>1 DEF AckArrives, eraseAcknowledged
      <3>2. myState' \in {"FORWARDING_PACKET", "RETRANSMITTING_PACKET"} /\ senderNext' \in {"now", "later", "never"}
        BY <1>2, <2>1, SigmaChoice DEF AckArrives
      <3> QED
        BY <1>2, <2>1, <3>1, <3>2, AckWidensWindow DEF AckArrives, TypeOK
    <2>2. CASE ~ValidAck(a)
      BY <1>2, <2>2 DEF AckArrives, TypeOK
    <2> QED
      BY <2>1, <2>2
  <1>3. CASE Forward
    <2>1. PICK p \in SEQ : /\ forwarded' = forwarded \cup {p} /\ onTheFly' = onTheFly \cup {p}
                           /\ queueArrival(p)
      BY <1>3, ForwardTakesPending
    <2>2. packetQueue' \in Seq(SEQ)
      BY <2>1 DEF queueArrival, TypeOK
    <2>3. myState' \in {"FORWARDING_PACKET", "RETRANSMITTING_PACKET"} /\ senderNext' \in {"now", "later", "never"}
      BY <1>3, SigmaChoice DEF Forward
    <2> QED
      BY <1>3, <2>1, <2>2, <2>3 DEF Forward, queueArrival, TypeOK
  <1>4. CASE Retransmit
    <2>1. Head(sendBuffer) \in SEQ
      BY <1>4 DEF Retransmit, TypeOK
    <2>2. packetQueue' \in Seq(SEQ)
      BY <1>4, <2>1 DEF Retransmit, queueArrival, TypeOK
    <2>3. myState' \in {"FORWARDING_PACKET", "RETRANSMITTING_PACKET"} /\ senderNext' \in {"now", "later", "never"}
      BY <1>4, SigmaChoice DEF Retransmit
    <2>4. congestionWindow \div 2 \in Nat
      BY DEF TypeOK
    <2> QED
      BY <1>4, <2>1, <2>2, <2>3, <2>4 DEF Retransmit, StillOnTheFly, queueArrival, TypeOK
  <1>5. CASE Notify
    BY <1>5 DEF Notify, TypeOK
  <1>14. CASE WakeUp
    BY <1>14 DEF WakeUp, TypeOK
  <1>6. CASE Emit
    <2>1. CASE serverstate = "SERVERWAITING" /\ packetQueue # <<>>
      <3>1. Head(packetQueue) \in SEQ /\ Tail(packetQueue) \in Seq(SEQ)
        BY <2>1 DEF TypeOK
      <3> QED
        BY <1>6, <2>1, <3>1 DEF Emit, serverstateAfterEmit, TypeOK
    <2>2. CASE ~(serverstate = "SERVERWAITING" /\ packetQueue # <<>>)
      BY <1>6, <2>2 DEF Emit, TypeOK
    <2> QED
      BY <2>1, <2>2
  <1>7. CASE Request
    BY <1>7 DEF Request, RequestSigma, TypeOK
  <1>8. CASE Arrive
    <2>1. incomingPacket \in SEQ
      BY <1>8 DEF Arrive, ServerHasPacket
    <2>2. packetsToAck' \in Seq(SEQ) /\ received' \subseteq SEQ
      BY <1>8, <2>1 DEF Arrive, TypeOK
    <2> QED
      BY <1>8, <2>2 DEF Arrive, TypeOK
  <1>9. CASE Acknowledge
    <2>1. Head(packetsToAck) \in SEQ /\ Tail(packetsToAck) \in Seq(SEQ)
      BY <1>9 DEF Acknowledge, TypeOK
    <2> QED
      BY <1>9, <2>1 DEF Acknowledge, TypeOK
  <1>10. CASE TransmissionEnds
    BY <1>10 DEF TransmissionEnds, MayBeDue, TypeOK
  <1>11. CASE TimerExpires
    BY <1>11 DEF TimerExpires, MayBeDue, TypeOK
  <1>15. CASE PeriodElapses
    BY <1>15 DEF PeriodElapses, TypeOK
  <1>12. CASE LoseAck
    BY <1>12 DEF LoseAck, TypeOK
  <1>13. CASE UNCHANGED vars
    BY <1>13 DEF vars, TypeOK
  <1> QED
    BY <1>1, <1>2, <1>3, <1>4, <1>5, <1>6, <1>7, <1>8, <1>9, <1>10, <1>11, <1>12, <1>13,
       <1>14, <1>15 DEF Next, Engine

(* An action that the sender takes no part in, except that its timer may   *)
(* expire, leaves the sender armed and its window respected.               *)
LEMMA SenderUntouched ==
  ASSUME TcpIInv,
         UNCHANGED <<lastSequenceNumber, sendBuffer, forwarded, onTheFly, congestionWindow, myState>>,
         senderNext' \in MayBeDue(senderNext)
  PROVE  SenderArmed' /\ WindowRespected' /\ ForwardHasRoom'
  BY DEF MayBeDue, TcpIInv, TcpInv, SenderArmed, WindowRespected, ForwardHasRoom

(* setNextSigma re-establishes what concerns the sender's next event.      *)
LEMMA SigmaArms ==
  ASSUME setNextSigma(sendBuffer', forwarded', onTheFly', congestionWindow'),
         congestionWindow' \in Nat, onTheFly' \subseteq SEQ, WindowRespected'
  PROVE  SenderArmed' /\ ForwardHasRoom'
  <1>1. /\ senderNext' # "never" <=> sendBuffer' # <<>>
        /\ myState' = "FORWARDING_PACKET" =>
              /\ senderNext' = "now"
              /\ AvailableCongestionWindow(forwarded', onTheFly', congestionWindow') > 0
              /\ Pending(sendBuffer', onTheFly') # {}
    BY SigmaChoice
  <1>2. SenderArmed'
    BY <1>1 DEF SenderArmed, Pending
  <1>3. Cardinality(onTheFly') \in Nat
    BY PacketSetsFinite
  <1>5. forwarded' \cap onTheFly' = onTheFly'
    BY DEF WindowRespected
  <1>6. AvailableCongestionWindow(forwarded', onTheFly', congestionWindow') = congestionWindow' - Cardinality(onTheFly')
    BY <1>5, Zenon DEF AvailableCongestionWindow
  <1>4. ForwardHasRoom'
    BY <1>1, <1>3, <1>6 DEF ForwardHasRoom
  <1> QED
    BY <1>2, <1>4

LEMMA SenderPreserved == TcpIInv /\ [Next]_vars => SenderArmed' /\ WindowRespected' /\ ForwardHasRoom'
  <1> SUFFICES ASSUME TcpIInv, [Next]_vars PROVE SenderArmed' /\ WindowRespected' /\ ForwardHasRoom'
    OBVIOUS
  <1>0. /\ TypeOK /\ WindowRespected /\ ForwardHasRoom /\ TypeOK'
        /\ onTheFly \subseteq SEQ /\ onTheFly' \subseteq SEQ
        /\ congestionWindow \in Nat /\ congestionWindow' \in Nat
    BY TypePreserved DEF TcpIInv, TcpInv, TypeOK
  <1>f. /\ IsFiniteSet(onTheFly) /\ Cardinality(onTheFly) \in Nat
        /\ Cardinality(onTheFly') \in Nat
    BY <1>0, PacketSetsFinite
  <1>1. CASE Submit
    <2>1. UNCHANGED <<forwarded, onTheFly, congestionWindow>>
      BY <1>1 DEF Submit, caVars
    <2>2. WindowRespected'
      BY <1>0, <2>1 DEF WindowRespected
    <2>3. setNextSigma(sendBuffer', forwarded', onTheFly', congestionWindow')
      BY <1>1, <2>1 DEF Submit
    <2> QED
      BY <1>0, <2>2, <2>3, SigmaArms
  <1>2. ASSUME NEW a \in SEQ, AckArrives(a) PROVE SenderArmed' /\ WindowRespected' /\ ForwardHasRoom'
    <2>1. CASE ValidAck(a)
      <3>1. /\ setNextSigma(sendBuffer', forwarded', onTheFly', congestionWindow')
            /\ congestionWindow <= congestionWindow'
            /\ onTheFly' \subseteq onTheFly /\ onTheFly' \subseteq forwarded'
        BY <1>0, <1>2, <2>1, AckWidensWindow DEF AckArrives, eraseAcknowledged, WindowRespected
      <3>2. Cardinality(onTheFly') <= Cardinality(onTheFly)
        BY <1>f, <3>1, FS_Subset
      <3>3. WindowRespected'
        BY <1>0, <1>f, <3>1, <3>2 DEF WindowRespected
      <3> QED
        BY <1>0, <3>1, <3>3, SigmaArms
    <2>2. CASE ~ValidAck(a)
      <3>1. /\ UNCHANGED <<lastSequenceNumber, sendBuffer, forwarded, onTheFly, congestionWindow, myState>>
            /\ senderNext' \in MayBeDue(senderNext)
        BY <1>2, <2>2 DEF AckArrives, caVars, MayBeDue
      <3> QED
        BY <3>1, SenderUntouched
    <2> QED
      BY <2>1, <2>2
  <1>3. CASE Forward
    <2>1. PICK p \in SEQ : /\ p \notin onTheFly
                           /\ forwarded' = forwarded \cup {p} /\ onTheFly' = onTheFly \cup {p}
      BY <1>0, <1>3, ForwardTakesPending
    <2>2. UNCHANGED <<sendBuffer, congestionWindow>>
      BY <1>3 DEF Forward, caVars
    <2>3. Cardinality(onTheFly) < congestionWindow
      BY <1>0, <1>3 DEF Forward, ForwardHasRoom
    <2>4. Cardinality(onTheFly') = Cardinality(onTheFly) + 1
      BY <1>f, <2>1, FS_AddElement
    <2>5. WindowRespected'
      BY <1>0, <1>f, <2>1, <2>2, <2>3, <2>4 DEF WindowRespected
    <2>6. setNextSigma(sendBuffer', forwarded', onTheFly', congestionWindow')
      BY <1>3, <2>2 DEF Forward
    <2> QED
      BY <1>0, <2>5, <2>6, SigmaArms
  <1>4. CASE Retransmit
    <2>1. /\ sendBuffer' = sendBuffer /\ congestionWindow' = 1
          /\ forwarded' = forwarded \cup {Head(sendBuffer)}
          /\ onTheFly' = {Head(sendBuffer)}
      BY <1>4 DEF Retransmit, StillOnTheFly
    <2>2. Cardinality(onTheFly') = 1
      BY <2>1, FS_Singleton
    <2>3. WindowRespected'
      BY <2>1, <2>2 DEF WindowRespected
    <2>4. setNextSigma(sendBuffer', forwarded', onTheFly', congestionWindow')
      BY <1>4, <2>1 DEF Retransmit
    <2> QED
      BY <1>0, <2>3, <2>4, SigmaArms
  <1>5. CASE WakeUp \/ Notify \/ Emit \/ Request \/ Arrive \/ Acknowledge \/ PeriodElapses \/ LoseAck
    <2>1. UNCHANGED senderVars
      BY <1>5 DEF WakeUp, Notify, Emit, Request, Arrive, Acknowledge, PeriodElapses, LoseAck
    <2> QED
      BY <2>1, SenderUntouched DEF senderVars, caVars, MayBeDue
  <1>6. CASE TransmissionEnds
    BY <1>6, SenderUntouched DEF TransmissionEnds, caVars
  <1>7. CASE TimerExpires
    BY <1>7, SenderUntouched DEF TimerExpires, caVars, MayBeDue
  <1>8. CASE UNCHANGED vars
    BY <1>8, SenderUntouched DEF vars, senderVars, caVars, MayBeDue
  <1> QED
    BY <1>1, <1>2, <1>3, <1>4, <1>5, <1>6, <1>7, <1>8 DEF Next, Engine

(* Only WakeUp takes a server for waiting that may be busy, and it needs a *)
(* forced period: one that is never due leaves a waiting queue at rest.    *)
LEMMA HopPreserved == TcpIInv /\ [Next]_vars => HopHandshake' /\ RestsWithoutPeriod' /\ ServerHasPacket'
  <1> SUFFICES ASSUME TcpIInv, [Next]_vars
               PROVE  HopHandshake' /\ RestsWithoutPeriod' /\ ServerHasPacket'
    OBVIOUS
  <1>0. TypeOK /\ HopHandshake /\ RestsWithoutPeriod /\ ServerHasPacket
    BY DEF TcpIInv, TcpInv
  <1>1. CASE Forward
    <2>1. PICK p \in SEQ : queueArrival(p)
      BY <1>0, <1>1, ForwardTakesPending
    <2> QED
      BY <1>0, <1>1, <2>1 DEF Forward, queueArrival, serverVars, HopHandshake, RestsWithoutPeriod, ServerHasPacket
  <1>2. CASE Retransmit
    BY <1>0, <1>2 DEF Retransmit, queueArrival, serverVars, HopHandshake, RestsWithoutPeriod, ServerHasPacket
  <1>3. CASE Notify
    BY <1>0, <1>3 DEF Notify, serverVars, HopHandshake, RestsWithoutPeriod, ServerHasPacket
  <1>4. CASE Emit
    <2>1. CASE serverstate = "SERVERWAITING" /\ packetQueue # <<>>
      <3>1. Head(packetQueue) \in SEQ
        BY <2>1, <1>0 DEF TypeOK
      <3> QED
        BY <1>4, <2>1, <3>1 DEF Emit, serverstateAfterEmit, HopHandshake, RestsWithoutPeriod, ServerHasPacket
    <2>2. CASE ~(serverstate = "SERVERWAITING" /\ packetQueue # <<>>)
      BY <1>0, <1>4, <2>2 DEF Emit, serverVars, HopHandshake, RestsWithoutPeriod, ServerHasPacket
    <2> QED
      BY <2>1, <2>2
  <1>5. CASE Request
    BY <1>0, <1>5 DEF Request, RequestSigma, HopHandshake, RestsWithoutPeriod, ServerHasPacket
  <1>6. CASE Arrive
    BY <1>0, <1>6 DEF Arrive, queueVars, TypeOK, HopHandshake, RestsWithoutPeriod, ServerHasPacket
  <1>7. CASE Acknowledge \/ LoseAck \/ Submit \/ \E a \in SEQ : AckArrives(a)
    <2>1. UNCHANGED <<queueVars, server, incomingPacket>>
      BY <1>7 DEF Acknowledge, LoseAck, Submit, AckArrives, serverVars
    <2> QED
      BY <1>0, <2>1 DEF queueVars, HopHandshake, RestsWithoutPeriod, ServerHasPacket
  <1>9. CASE TransmissionEnds \/ TimerExpires \/ PeriodElapses
    <2>1. /\ UNCHANGED <<ForcedPeriod, packetQueue, mystate, serverstate, server, incomingPacket>>
          /\ queueNext' = queueNext \/ (queueNext = "later" /\ queueNext' = "now")
      BY <1>9 DEF TransmissionEnds, TimerExpires, PeriodElapses, MayBeDue, serverVars
    <2>2. queueNext = "later" => ForcedPeriod = "later"
      BY <1>0 DEF TypeOK
    <2> QED
      BY <1>0, <2>1, <2>2 DEF HopHandshake, RestsWithoutPeriod, ServerHasPacket
  <1>10. CASE WakeUp
    <2>1. ForcedPeriod # "never"
      BY <1>0, <1>10 DEF WakeUp, RestsWithoutPeriod
    <2> QED
      BY <1>0, <1>10, <2>1 DEF WakeUp, serverVars, HopHandshake, RestsWithoutPeriod, ServerHasPacket
  <1>8. CASE UNCHANGED vars
    BY <1>0, <1>8 DEF vars, queueVars, serverVars, HopHandshake, RestsWithoutPeriod, ServerHasPacket
  <1> QED
    BY <1>1, <1>2, <1>3, <1>4, <1>5, <1>6, <1>7, <1>8, <1>9, <1>10 DEF Next, Engine

LEMMA ReceiptsPreserved == TcpIInv /\ [Next]_vars => AcksAreReceipts'
  <1> SUFFICES ASSUME TcpIInv, [Next]_vars PROVE AcksAreReceipts'
    OBVIOUS
  <1>0. TypeOK /\ AcksAreReceipts /\ ServerHasPacket
    BY DEF TcpIInv, TcpInv
  <1>1. CASE Arrive
    <2>1. /\ packetsToAck \in Seq(SEQ) /\ incomingPacket \in SEQ
          /\ packetsToAck' = Append(packetsToAck, incomingPacket)
          /\ received' = received \cup {incomingPacket} /\ acks' = acks
      BY <1>0, <1>1 DEF Arrive, ServerHasPacket, TypeOK
    <2>2. \A i \in DOMAIN packetsToAck' :
             packetsToAck'[i] = incomingPacket \/ (i \in DOMAIN packetsToAck /\ packetsToAck'[i] = packetsToAck[i])
      BY <2>1
    <2> QED
      BY <1>0, <2>1, <2>2 DEF AcksAreReceipts
  <1>2. CASE Acknowledge
    <2>1. /\ packetsToAck \in Seq(SEQ) /\ packetsToAck # <<>>
          /\ packetsToAck' = Tail(packetsToAck)
          /\ acks' = acks \cup {Head(packetsToAck)} /\ received' = received
      BY <1>0, <1>2 DEF Acknowledge, TypeOK
    <2>2. 1 \in DOMAIN packetsToAck /\ Head(packetsToAck) = packetsToAck[1]
      BY <2>1
    <2>3. \A i \in DOMAIN packetsToAck' : i + 1 \in DOMAIN packetsToAck /\ packetsToAck'[i] = packetsToAck[i + 1]
      BY <2>1
    <2> QED
      BY <1>0, <2>1, <2>2, <2>3 DEF AcksAreReceipts
  <1>3. CASE LoseAck \/ \E a \in SEQ : AckArrives(a)
    <2>1. UNCHANGED ackVars /\ acks' \subseteq acks
      BY <1>3 DEF LoseAck, AckArrives
    <2> QED
      BY <1>0, <2>1 DEF ackVars, AcksAreReceipts
  <1>4. CASE \/ Submit \/ Forward \/ Retransmit \/ WakeUp \/ Notify \/ Emit \/ Request
             \/ TransmissionEnds \/ TimerExpires \/ PeriodElapses \/ UNCHANGED vars
    <2>1. UNCHANGED <<ackVars, acks>>
      BY <1>4 DEF Submit, Forward, Retransmit, WakeUp, Notify, Emit, Request, TransmissionEnds, TimerExpires,
                  PeriodElapses, vars
    <2> QED
      BY <1>0, <2>1 DEF ackVars, AcksAreReceipts
  <1> QED
    BY <1>1, <1>2, <1>3, <1>4 DEF Next, Engine

(* An ACK that counts is for a packet that was received, so that erasing   *)
(* the packet from the buffer does not make it forgotten.                  *)
LEMMA NothingForgotten == TcpIInv /\ [Next]_vars => AcknowledgedWasReceived'
  <1> SUFFICES ASSUME TcpIInv, [Next]_vars PROVE AcknowledgedWasReceived'
    OBVIOUS
  <1>0. TypeOK /\ AcksAreReceipts /\ AcknowledgedWasReceived
    BY DEF TcpIInv, TcpInv
  <1>1. CASE Submit
    <2>1. /\ lastSequenceNumber \in SEQ /\ sendBuffer \in Seq(SEQ)
          /\ sendBuffer' = Append(sendBuffer, lastSequenceNumber)
          /\ lastSequenceNumber' = lastSequenceNumber + 1 /\ received' = received
      BY <1>0, <1>1, TcpAssumption DEF Submit, TypeOK, SEQ, ackVars
    <2>2. ASSUME NEW p \in 0 .. lastSequenceNumber' - 1 PROVE Among(p, sendBuffer') \/ p \in received'
      <3>1. CASE p = lastSequenceNumber
        BY <2>1, <3>1, AmongAppend
      <3>2. CASE p # lastSequenceNumber
        <4>1. p \in 0 .. lastSequenceNumber - 1
          BY <2>1, <3>2 DEF SEQ
        <4> QED
          BY <1>0, <2>1, <4>1, AmongAppend DEF AcknowledgedWasReceived
      <3> QED
        BY <3>1, <3>2
    <2> QED
      BY <2>2 DEF AcknowledgedWasReceived
  <1>2. ASSUME NEW a \in SEQ, AckArrives(a) PROVE AcknowledgedWasReceived'
    <2>1. lastSequenceNumber' = lastSequenceNumber /\ received' = received /\ a \in acks
      BY <1>2 DEF AckArrives, ackVars
    <2>2. CASE ValidAck(a)
      <3>1. sendBuffer \in Seq(SEQ) /\ sendBuffer # <<>> /\ Head(sendBuffer) = a
        BY <1>0, <2>2, ValidAckErasesHead DEF TypeOK
      <3>2. sendBuffer' = Tail(sendBuffer)
        BY <1>2, <2>2 DEF AckArrives, eraseAcknowledged
      <3>3. a \in received
        BY <1>0, <2>1 DEF AcksAreReceipts
      <3> QED
        BY <1>0, <2>1, <3>1, <3>2, <3>3, AmongTail DEF AcknowledgedWasReceived
    <2>3. CASE ~ValidAck(a)
      BY <1>0, <1>2, <2>1, <2>3 DEF AckArrives, AcknowledgedWasReceived
    <2> QED
      BY <2>2, <2>3
  <1>3. CASE \/ Forward \/ Retransmit \/ WakeUp \/ Notify \/ Emit \/ Request \/ Arrive \/ Acknowledge
             \/ TransmissionEnds \/ TimerExpires \/ PeriodElapses \/ LoseAck \/ UNCHANGED vars
    <2>1. UNCHANGED <<lastSequenceNumber, sendBuffer>> /\ received \subseteq received'
      BY <1>3 DEF Forward, Retransmit, WakeUp, Notify, Emit, Request, Arrive, Acknowledge, TransmissionEnds,
                  TimerExpires, PeriodElapses, LoseAck, vars, senderVars, ackVars
    <2> QED
      BY <1>0, <2>1 DEF AcknowledgedWasReceived
  <1> QED
    BY <1>1, <1>2, <1>3 DEF Next, Engine

LEMMA NextTcpIInv == TcpIInv /\ [Next]_vars => TcpIInv'
  BY TypePreserved, SenderPreserved, HopPreserved, ReceiptsPreserved, NothingForgotten DEF TcpIInv, TcpInv

-----------------------------------------------------------------------------
(* For all numbers of packets, thresholds and capacities a TcpSender with  *)
(* packets has a timer or something to forward, never has more on the fly  *)
(* than its window admits, and PacketQueue never forgets that its server   *)
(* waits.  It takes a busy server for a waiting one, so that               *)
(* PacketNetworkServer loses a packet, with a finite ForcedPeriod only.    *)
THEOREM TcpInvariant == Spec => []TcpInv
  <1>1. TcpIInv => TcpInv
    BY DEF TcpIInv
  <1> QED
    BY <1>1, InitTcpIInv, NextTcpIInv, PTL DEF Spec

(* Whatever ACKs are lost, late or repeated, TcpSender erases no packet    *)
(* from its buffer that TcpAck has not received.                           *)
THEOREM NoPacketForgotten == Spec => []AcknowledgedWasReceived
  <1>1. TcpIInv => AcknowledgedWasReceived
    BY DEF TcpIInv
  <1> QED
    BY <1>1, InitTcpIInv, NextTcpIInv, PTL DEF Spec

-----------------------------------------------------------------------------
(* Submit is the channel's Put, an ACK that counts its Deliver, and        *)
(* nothing else is visible to the application.                             *)
LEMMA StepRefines == TcpIInv /\ [Next]_vars => [Channel!Next]_(Channel!chanVars)
  <1> SUFFICES ASSUME TcpIInv, [Next]_vars
               PROVE  Channel!Put(0) \/ Channel!Deliver(0) \/ Channel!Idle(0)
    BY DEF Channel!Next
  <1>0. TypeOK
    BY DEF TcpIInv, TcpInv
  <1>1. CASE Submit
    <2>1. lastSequenceNumber \in SEQ
      BY <1>0, <1>1, TcpAssumption DEF Submit, TypeOK, SEQ
    <2> QED
      BY <1>1, <2>1 DEF Submit, Channel!Put
  <1>2. ASSUME NEW a \in SEQ, AckArrives(a) PROVE Channel!Deliver(0) \/ Channel!Idle(0)
    <2>1. CASE ValidAck(a)
      BY <1>2, <2>1 DEF AckArrives, ValidAck, eraseAcknowledged, Channel!Deliver
    <2>2. CASE ~ValidAck(a)
      BY <1>2, <2>2 DEF AckArrives, Channel!Idle
    <2> QED
      BY <2>1, <2>2
  <1>3. CASE \/ Forward \/ Retransmit \/ WakeUp \/ Notify \/ Emit \/ Request \/ Arrive \/ Acknowledge
             \/ TransmissionEnds \/ TimerExpires \/ PeriodElapses \/ LoseAck \/ UNCHANGED vars
    <2>1. UNCHANGED <<sendBuffer, acknowledged>>
      BY <1>3 DEF Forward, Retransmit, WakeUp, Notify, Emit, Request, Arrive, Acknowledge, TransmissionEnds,
                  TimerExpires, PeriodElapses, LoseAck, vars, senderVars
    <2> QED
      BY <2>1 DEF Channel!Idle
  <1> QED
    BY <1>1, <1>2, <1>3 DEF Next, Engine

(* Seen from the application the connection is a FIFO channel: each packet *)
(* is acknowledged once, in the order in which they were submitted.        *)
THEOREM ConnectionIsFifo == Spec => ImplementsChannel
  <1>1. Init => Channel!Init
    BY DEF Init, Channel!Init
  <1> QED
    BY <1>1, InitTcpIInv, NextTcpIInv, StepRefines, PTL
    DEF Spec, ImplementsChannel, Channel!Spec
=============================================================================
