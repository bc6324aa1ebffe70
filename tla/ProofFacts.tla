----------------------------- MODULE ProofFacts -----------------------------
(***************************************************************************)
(* Facts about numbers, sequences and finite sets that the proofs of the   *)
(* components use.                                                         *)
(***************************************************************************)
EXTENDS Integers, Sequences, FiniteSets, FiniteSetTheorems, SequenceTheorems, WellFoundedInduction, TLAPS

(* A set of natural numbers that is not empty has a least element.         *)
LEMMA LeastExists ==
  ASSUME NEW S, S \subseteq Nat, S # {}
  PROVE  \E x \in S : \A y \in S : x <= y
  <1> DEFINE R == OpToRel(<, Nat)
  <1>1. IsWellFoundedOn(R, Nat)
    BY NatLessThanWellFounded
  <1>2. ASSUME NEW x \in Nat, NEW y \in Nat, ~(<<y, x>> \in R) PROVE x <= y
    BY <1>2 DEF OpToRel
  <1> HIDE DEF R
  <1>3. PICK x \in S : \A y \in S : ~(<<y, x>> \in R)
    BY <1>1, WFMin
  <1> QED
    BY <1>2, <1>3

(* A sequence of length one is empty without its head.                     *)
LEMMA TailOfSingle ==
  ASSUME NEW S, NEW s \in Seq(S), Len(s) = 1
  PROVE  Tail(s) = <<>>
  <1>1. s # <<>>
    OBVIOUS
  <1>2. Tail(s) \in Seq(S) /\ Len(Tail(s)) = 0
    BY <1>1
  <1> QED
    BY <1>2, EmptySeq

-----------------------------------------------------------------------------
(* Recursion over sequences.  A recursive function is a CHOOSE for which a *)
(* value must be shown to exist: here from the table of the results for    *)
(* the last 0, 1, 2, ... elements of a sequence.                           *)
IsTable(V, v, step, s, n, T) ==
    /\ T \in [0 .. n -> V]
    /\ T[0] = v
    /\ \A i \in 0 .. n - 1 : T[i + 1] = step[<<s[Len(s) - i], T[i]>>]

LEMMA TableExists ==
  ASSUME NEW P, NEW V, NEW v \in V, NEW step \in [P \X V -> V], NEW s \in Seq(P)
  PROVE  \E T : IsTable(V, v, step, s, Len(s), T)
  <1> DEFINE L == Len(s)
             Bad == {n \in 0 .. L : ~\E T : IsTable(V, v, step, s, n, T)}
  <1>1. L \in Nat /\ \A i \in 1 .. L : s[i] \in P
    OBVIOUS
  <1>s. \A e \in P, x \in V : step[<<e, x>>] \in V
    OBVIOUS
  <1>2. Bad = {}
    <2> SUFFICES ASSUME Bad # {} PROVE FALSE
      OBVIOUS
    <2>1. PICK n \in Bad : \A m \in Bad : n <= m
      <3>1. Bad \subseteq Nat
        OBVIOUS
      <3> HIDE DEF Bad
      <3> QED
        BY <3>1, LeastExists
    <2>2. n \in 0 .. L /\ ~\E T : IsTable(V, v, step, s, n, T)
      BY <2>1
    <2>3. n # 0
      <3>1. IsTable(V, v, step, s, 0, [i \in 0 .. 0 |-> v])
        BY DEF IsTable
      <3> QED
        BY <2>2, <3>1
    <2>4. n - 1 \in 0 .. L /\ n - 1 \notin Bad
      <3>1. n - 1 \in 0 .. L /\ ~(n <= n - 1)
        BY <1>1, <2>2, <2>3
      <3> HIDE DEF Bad
      <3> QED
        BY <2>1, <3>1
    <2>5. PICK T : IsTable(V, v, step, s, n - 1, T)
      BY <2>4
    <2> DEFINE x == step[<<s[L - (n - 1)], T[n - 1]>>]
               U == [i \in 0 .. n |-> IF i = n THEN x ELSE T[i]]
    <2>6. n \in Nat /\ n - 1 \in Nat /\ L - (n - 1) \in 1 .. L
      BY <1>1, <2>2, <2>3
    <2>7. x \in V /\ \A i \in 0 .. n - 1 : T[i] \in V
      <3>1. s[L - (n - 1)] \in P /\ \A i \in 0 .. n - 1 : T[i] \in V
        BY <1>1, <2>5, <2>6 DEF IsTable
      <3>2. T[n - 1] \in V
        BY <2>6, <3>1
      <3> QED
        BY <1>s, <3>1, <3>2
    <2>x. x = step[<<s[L - (n - 1)], T[n - 1]>>]
      OBVIOUS
    <2> HIDE DEF x
    <2>8. U \in [0 .. n -> V] /\ U[0] = v
      <3>1. \A i \in 0 .. n : i # n => i \in 0 .. n - 1
        BY <2>6
      <3>2. T[0] = v /\ 0 \in 0 .. n
        BY <2>5, <2>6 DEF IsTable
      <3> QED
        BY <2>3, <2>7, <3>1, <3>2
    <2>9. ASSUME NEW i \in 0 .. n - 1 PROVE U[i + 1] = step[<<s[L - i], U[i]>>]
      <3>0. i \in Nat /\ i + 1 \in 0 .. n /\ i \in 0 .. n /\ i # n
        BY <2>6
      <3>1. U[i] = T[i]
        BY <3>0
      <3>2. CASE i = n - 1
        <4>1. i + 1 = n
          BY <2>6, <3>2
        <4>2. U[i + 1] = x
          BY <3>0, <4>1
        <4> HIDE DEF U
        <4> QED
          BY <2>x, <3>1, <3>2, <4>2
      <3>3. CASE i # n - 1
        <4>1. i + 1 # n /\ i \in 0 .. (n - 1) - 1
          BY <2>6, <3>0, <3>3
        <4>2. U[i + 1] = T[i + 1]
          BY <3>0, <4>1
        <4>3. T[i + 1] = step[<<s[L - i], T[i]>>]
          BY <2>5, <4>1 DEF IsTable
        <4> HIDE DEF U
        <4> QED
          BY <3>1, <4>2, <4>3
      <3> QED
        BY <3>2, <3>3
    <2>10. IsTable(V, v, step, s, n, U)
      <3> HIDE DEF U
      <3> QED
        BY <2>8, <2>9 DEF IsTable
    <2> QED
      BY <2>2, <2>10
  <1>3. L \in 0 .. L /\ L \notin Bad
    BY <1>1, <1>2
  <1> QED
    BY <1>3

LEMMA TableUnique ==
  ASSUME NEW V, NEW v, NEW step, NEW s, NEW n \in Nat,
         NEW T, IsTable(V, v, step, s, n, T), NEW U, IsTable(V, v, step, s, n, U)
  PROVE  T = U
  <1> DEFINE Bad == {i \in 0 .. n : T[i] # U[i]}
  <1>1. Bad = {}
    <2> SUFFICES ASSUME Bad # {} PROVE FALSE
      OBVIOUS
    <2>1. PICK i \in Bad : \A m \in Bad : i <= m
      <3>1. Bad \subseteq Nat
        OBVIOUS
      <3> HIDE DEF Bad
      <3> QED
        BY <3>1, LeastExists
    <2>2. i \in 0 .. n /\ i # 0 /\ T[i] # U[i]
      BY <2>1 DEF IsTable
    <2>3. i - 1 \in 0 .. n - 1 /\ i - 1 \notin Bad
      <3>1. i - 1 \in 0 .. n - 1 /\ ~(i <= i - 1)
        BY <2>2
      <3> HIDE DEF Bad
      <3> QED
        BY <2>1, <3>1
    <2>4. T[i - 1] = U[i - 1]
      BY <2>3
    <2>5. /\ T[(i - 1) + 1] = step[<<s[Len(s) - (i - 1)], T[i - 1]>>]
          /\ U[(i - 1) + 1] = step[<<s[Len(s) - (i - 1)], U[i - 1]>>]
      BY <2>3 DEF IsTable
    <2>6. (i - 1) + 1 = i
      BY <2>2
    <2> QED
      BY <2>2, <2>4, <2>5, <2>6
  <1>2. \A i \in 0 .. n : T[i] = U[i]
    BY <1>1
  <1> QED
    BY <1>2 DEF IsTable

(* F is defined by recursion over sequences of P: v for the empty          *)
(* sequence, step of the head and of the result for the tail otherwise.    *)
IsRecursion(P, V, v, step, F) ==
    /\ F \in [Seq(P) -> V]
    /\ \A s \in Seq(P) : F[s] = IF s = <<>> THEN v ELSE step[<<Head(s), F[Tail(s)]>>]

LEMMA RecursionExists ==
  ASSUME NEW P, NEW V, NEW v \in V, NEW step \in [P \X V -> V]
  PROVE  \E F : IsRecursion(P, V, v, step, F)
  <1> DEFINE Table(s) == CHOOSE T : IsTable(V, v, step, s, Len(s), T)
             F == [s \in Seq(P) |-> Table(s)[Len(s)]]
  <1>1. ASSUME NEW s \in Seq(P) PROVE IsTable(V, v, step, s, Len(s), Table(s))
    BY TableExists
  <1>2. ASSUME NEW s \in Seq(P), s # <<>>
        PROVE  Table(s)[Len(s)] = step[<<Head(s), Table(Tail(s))[Len(Tail(s))]>>]
    <2> DEFINE n == Len(s) - 1
               T == Table(s)
               U == Table(Tail(s))
               W == [i \in 0 .. n |-> T[i]]
    <2>1. /\ Tail(s) \in Seq(P) /\ n \in Nat /\ Len(Tail(s)) = n /\ Len(s) = n + 1 /\ Head(s) = s[1]
          /\ \A i \in 0 .. n - 1 : Tail(s)[n - i] = s[Len(s) - i]
      BY <1>2
    <2>2. IsTable(V, v, step, s, n + 1, T) /\ IsTable(V, v, step, Tail(s), n, U)
      <3>1. IsTable(V, v, step, s, Len(s), Table(s)) /\ IsTable(V, v, step, Tail(s), Len(Tail(s)), Table(Tail(s)))
        BY <1>1, <2>1
      <3> HIDE DEF Table
      <3> QED
        BY <2>1, <3>1
    <2> HIDE DEF T, U, n
    <2>3. IsTable(V, v, step, s, n, W)
      <3>1. T \in [0 .. n + 1 -> V] /\ T[0] = v /\ \A i \in 0 .. (n + 1) - 1 : T[i + 1] = step[<<s[Len(s) - i], T[i]>>]
        BY <2>2 DEF IsTable
      <3>2. /\ 0 \in 0 .. n /\ \A i \in 0 .. n : i \in 0 .. n + 1
            /\ \A i \in 0 .. n - 1 : i \in 0 .. n /\ i + 1 \in 0 .. n /\ i \in 0 .. (n + 1) - 1
        BY <2>1
      <3>3. W \in [0 .. n -> V] /\ \A i \in 0 .. n : W[i] = T[i]
        BY <3>1, <3>2
      <3> HIDE DEF W
      <3> QED
        BY <3>1, <3>2, <3>3 DEF IsTable
    <2>4. IsTable(V, v, step, s, n, U)
      BY <2>1, <2>2 DEF IsTable
    <2>5. W[n] = T[n]
      BY <2>1
    <2>6. W = U
      <3> HIDE DEF W
      <3>1. \A A, B : IsTable(V, v, step, s, n, A) /\ IsTable(V, v, step, s, n, B) => A = B
        BY <2>1, TableUnique
      <3> QED
        BY <2>3, <2>4, <3>1, Zenon
    <2>7. T[n + 1] = step[<<s[Len(s) - n], T[n]>>]
      <3>1. n \in 0 .. (n + 1) - 1
        BY <2>1
      <3> QED
        BY <2>2, <3>1 DEF IsTable
    <2>8. Len(s) - n = 1
      BY <2>1
    <2>9. T[Len(s)] = step[<<Head(s), U[n]>>]
      <3> HIDE DEF W
      <3> QED
        BY <2>1, <2>5, <2>6, <2>7, <2>8
    <2>10. Table(s)[Len(s)] = step[<<Head(s), Table(Tail(s))[n]>>]
      BY <2>9 DEF T, U
    <2> QED
      BY <2>1, <2>10
  <1>3. ASSUME NEW s \in Seq(P) PROVE Table(s)[Len(s)] \in V /\ (s = <<>> => Table(s)[Len(s)] = v)
    <2>1. Len(s) \in Nat /\ (s = <<>> => Len(s) = 0)
      OBVIOUS
    <2> HIDE DEF Table
    <2> QED
      BY <1>1, <2>1 DEF IsTable
  <1> HIDE DEF Table
  <1>4. F \in [Seq(P) -> V]
    BY <1>3
  <1>5. ASSUME NEW s \in Seq(P) PROVE F[s] = IF s = <<>> THEN v ELSE step[<<Head(s), F[Tail(s)]>>]
    <2>1. CASE s = <<>>
      BY <1>3, <2>1
    <2>2. CASE s # <<>>
      <3>1. Tail(s) \in Seq(P)
        BY <2>2
      <3>2. F[s] = Table(s)[Len(s)] /\ F[Tail(s)] = Table(Tail(s))[Len(Tail(s))]
        BY <3>1
      <3> QED
        BY <1>2, <2>2, <3>2
    <2> QED
      BY <2>1, <2>2
  <1> HIDE DEF F
  <1>6. IsRecursion(P, V, v, step, F)
    BY <1>4, <1>5 DEF IsRecursion
  <1> QED
    BY <1>6

-----------------------------------------------------------------------------
(* The recursive sum F over sequences of P with weights w.                 *)
IsSum(P, w, F) == F = [s \in Seq(P) |-> IF s = <<>> THEN 0 ELSE w[Head(s)] + F[Tail(s)]]

LEMMA SumExists ==
  ASSUME NEW P, NEW w \in [P -> Nat]
  PROVE  \E F : IsSum(P, w, F)
  <1> DEFINE step == [x \in P \X Nat |-> w[x[1]] + x[2]]
  <1>1. \A e \in P, n \in Nat : w[e] + n \in Nat
    OBVIOUS
  <1>2. step \in [P \X Nat -> Nat] /\ \A e \in P, n \in Nat : step[<<e, n>>] = w[e] + n
    BY <1>1
  <1> HIDE DEF step
  <1>3. PICK F : IsRecursion(P, Nat, 0, step, F)
    BY <1>2, RecursionExists
  <1>4. ASSUME NEW s \in Seq(P) PROVE F[s] = IF s = <<>> THEN 0 ELSE w[Head(s)] + F[Tail(s)]
    <2>1. CASE s # <<>>
      <3>1. Head(s) \in P /\ Tail(s) \in Seq(P)
        BY <2>1
      <3>2. F[Tail(s)] \in Nat
        BY <1>3, <3>1 DEF IsRecursion
      <3> QED
        BY <1>2, <1>3, <2>1, <3>1, <3>2 DEF IsRecursion
    <2> QED
      BY <1>3, <2>1 DEF IsRecursion
  <1>5. F = [s \in Seq(P) |-> F[s]]
    BY <1>3 DEF IsRecursion
  <1>6. F = [s \in Seq(P) |-> IF s = <<>> THEN 0 ELSE w[Head(s)] + F[Tail(s)]]
    BY <1>4, <1>5
  <1> QED
    BY <1>6 DEF IsSum

(* Induction over an interval of numbers, with a set in the place of the   *)
(* predicate.                                                              *)
LEMMA IntervalInduction ==
  ASSUME NEW n \in Nat, NEW G, 0 \in G, \A i \in 0 .. n - 1 : i \in G => i + 1 \in G
  PROVE  0 .. n \subseteq G
  <1> DEFINE Bad == {i \in 0 .. n : i \notin G}
  <1>1. ASSUME Bad # {} PROVE FALSE
    <2>1. PICK i \in Bad : \A j \in Bad : i <= j
      <3>1. Bad \subseteq Nat
        OBVIOUS
      <3> HIDE DEF Bad
      <3> QED
        BY <1>1, <3>1, LeastExists
    <2>2. i \in 0 .. n /\ i \notin G /\ i # 0
      BY <2>1
    <2>3. i - 1 \in 0 .. n - 1 /\ i - 1 \in 0 .. n /\ (i - 1) + 1 = i /\ ~(i <= i - 1)
      BY <2>2
    <2>4. i - 1 \in G
      BY <2>1, <2>3
    <2> QED
      BY <2>2, <2>3, <2>4
  <1> QED
    BY <1>1

(* Induction over sequences, with a set in the place of the predicate: a   *)
(* set that contains the empty sequence and every sequence whose tail it   *)
(* contains, contains every sequence.                                      *)
LEMMA SeqInduction ==
  ASSUME NEW P, NEW G, <<>> \in G, \A s \in Seq(P) : s # <<>> /\ Tail(s) \in G => s \in G
  PROVE  Seq(P) \subseteq G
  <1> DEFINE Bad == {n \in Nat : \E t \in Seq(P) : Len(t) = n /\ t \notin G}
  <1>1. ASSUME Bad # {} PROVE FALSE
    <2>1. PICK n \in Bad : \A m \in Bad : n <= m
      <3>1. Bad \subseteq Nat
        OBVIOUS
      <3> HIDE DEF Bad
      <3> QED
        BY <1>1, <3>1, LeastExists
    <2>2. PICK t \in Seq(P) : Len(t) = n /\ t \notin G
      BY <2>1
    <2>3. t # <<>>
      BY <2>2
    <2>4. Tail(t) \in Seq(P) /\ Len(Tail(t)) = n - 1 /\ n - 1 \in Nat /\ ~(n <= n - 1)
      BY <2>2, <2>3
    <2>5. n - 1 \notin Bad
      <3> HIDE DEF Bad
      <3> QED
        BY <2>1, <2>4
    <2>6. Tail(t) \in G
      BY <2>4, <2>5
    <2> QED
      BY <2>2, <2>3, <2>6
  <1>2. ASSUME NEW t \in Seq(P) PROVE t \in G
    <2>1. Len(t) \in Nat
      OBVIOUS
    <2> QED
      BY <1>1, <2>1
  <1> QED
    BY <1>2

(* The head and the tail of a sequence extended at its end.                *)
LEMMA EndsOfAppend ==
  ASSUME NEW P, NEW t \in Seq(P), NEW e \in P
  PROVE  /\ Append(t, e) \in Seq(P) /\ Append(t, e) # <<>>
         /\ t = <<>> => Head(Append(t, e)) = e /\ Tail(Append(t, e)) = <<>>
         /\ t # <<>> => /\ Head(Append(t, e)) = Head(t) /\ Tail(Append(t, e)) = Append(Tail(t), e)
                        /\ Head(t) \in P /\ Tail(t) \in Seq(P)
  <1>1. Append(t, e) \in Seq(P) /\ Len(Append(t, e)) = Len(t) + 1 /\ Len(t) \in Nat
    OBVIOUS
  <1>2. Append(t, e) # <<>>
    BY <1>1
  <1>3. ASSUME t = <<>> PROVE Head(Append(t, e)) = e /\ Tail(Append(t, e)) = <<>>
    <2>1. Append(t, e) = <<e>> /\ Head(<<e>>) = e /\ Tail(<<e>>) = <<>>
      BY <1>3
    <2> QED
      BY <2>1
  <1>4. ASSUME t # <<>>
        PROVE  /\ Head(Append(t, e)) = Head(t) /\ Tail(Append(t, e)) = Append(Tail(t), e)
               /\ Head(t) \in P /\ Tail(t) \in Seq(P)
    BY <1>4
  <1> QED
    BY <1>1, <1>2, <1>3, <1>4

(* Such a sum is a natural number.                                         *)
LEMMA SumIsNat ==
  ASSUME NEW P, NEW w \in [P -> Nat], NEW F, IsSum(P, w, F), NEW s \in Seq(P)
  PROVE  F[s] \in Nat
  <1> DEFINE G == {t \in Seq(P) : F[t] \in Nat}
  <1>0. \A t \in Seq(P) : F[t] = IF t = <<>> THEN 0 ELSE w[Head(t)] + F[Tail(t)]
    BY DEF IsSum
  <1>1. <<>> \in G
    <2>1. <<>> \in Seq(P)
      OBVIOUS
    <2>2. F[<<>>] = 0
      BY <1>0, <2>1, Zenon
    <2> QED
      BY <2>1, <2>2
  <1>2. ASSUME NEW t \in Seq(P), t # <<>>, Tail(t) \in G PROVE t \in G
    <2>1. F[Tail(t)] \in Nat /\ w[Head(t)] \in Nat
      BY <1>2
    <2> QED
      BY <1>0, <1>2, <2>1
  <1>3. Seq(P) \subseteq G
    <2> HIDE DEF G
    <2> QED
      BY <1>1, <1>2, SeqInduction
  <1> QED
    BY <1>3

(* It grows at the end as it does at the front.                            *)
LEMMA SumOfAppend ==
  ASSUME NEW P, NEW w \in [P -> Nat], NEW F, IsSum(P, w, F), NEW s \in Seq(P), NEW e \in P
  PROVE  F[Append(s, e)] = F[s] + w[e]
  <1>0. ASSUME NEW t \in Seq(P) PROVE F[t] = (IF t = <<>> THEN 0 ELSE w[Head(t)] + F[Tail(t)]) /\ F[t] \in Nat
    BY SumIsNat DEF IsSum
  <1> DEFINE G == {t \in Seq(P) : F[Append(t, e)] = F[t] + w[e]}
  <1>1. ASSUME NEW t \in Seq(P), t # <<>> => Tail(t) \in G PROVE t \in G
    <2>1. F[Append(t, e)] = w[Head(Append(t, e))] + F[Tail(Append(t, e))]
      <3>1. Append(t, e) \in Seq(P) /\ Append(t, e) # <<>>
        BY EndsOfAppend
      <3> HIDE DEF G
      <3> QED
        BY <1>0, <3>1, Zenon
    <2>2. CASE t = <<>>
      <3>1. Head(Append(t, e)) = e /\ Tail(Append(t, e)) = <<>> /\ <<>> \in Seq(P) /\ w[e] \in Nat
        BY <2>2, EndsOfAppend
      <3>2. F[<<>>] = 0 /\ F[t] = 0
        BY <1>0, <2>2, <3>1
      <3>3. F[Append(t, e)] = w[e] + 0
        BY <2>1, <3>1, <3>2, Zenon
      <3> QED
        BY <3>1, <3>2, <3>3
    <2>3. CASE t # <<>>
      <3>1. /\ Head(Append(t, e)) = Head(t) /\ Tail(Append(t, e)) = Append(Tail(t), e)
            /\ Head(t) \in P /\ Tail(t) \in Seq(P)
        BY <2>3, EndsOfAppend
      <3>2. F[Append(Tail(t), e)] = F[Tail(t)] + w[e]
        BY <1>1, <2>3
      <3>3. F[t] = w[Head(t)] + F[Tail(t)] /\ F[Tail(t)] \in Nat /\ w[Head(t)] \in Nat /\ w[e] \in Nat
        BY <1>0, <2>3, <3>1
      <3>4. F[Append(t, e)] = w[Head(t)] + (F[Tail(t)] + w[e])
        BY <2>1, <3>1, <3>2
      <3> QED
        BY <3>3, <3>4
    <2> QED
      BY <2>2, <2>3
  <1>2. Seq(P) \subseteq G
    <2>1. <<>> \in Seq(P)
      OBVIOUS
    <2> HIDE DEF G
    <2>2. <<>> \in G
      BY <1>1, <2>1
    <2> QED
      BY <1>1, <2>2, SeqInduction
  <1> QED
    BY <1>2

-----------------------------------------------------------------------------
(* Sequences seen from both ends.                                          *)
LEMMA AppendBehind ==
  ASSUME NEW S, NEW s \in Seq(S), NEW t \in Seq(S), NEW e \in S
  PROVE  s \o Append(t, e) = Append(s \o t, e)
  OBVIOUS

LEMMA HeadThenTail ==
  ASSUME NEW S, NEW s \in Seq(S), s # <<>>
  PROVE  <<Head(s)>> \o Tail(s) = s
  OBVIOUS

(* Moving the head of the second part behind the first changes nothing.    *)
LEMMA HeadMovesBehind ==
  ASSUME NEW S, NEW s \in Seq(S), NEW t \in Seq(S), t # <<>>
  PROVE  Append(s, Head(t)) \o Tail(t) = s \o t
  OBVIOUS

LEMMA FrontOfWire ==
  ASSUME NEW S, NEW s \in Seq(S), NEW e \in S
  PROVE  /\ <<e>> \o s # <<>>
         /\ Head(<<e>> \o s) = e
         /\ Tail(<<e>> \o s) = s
  OBVIOUS

LEMMA EmptyFront ==
  ASSUME NEW S, NEW s \in Seq(S)
  PROVE  <<>> \o s = s
  OBVIOUS

(* A function defined by recursion on the turns of a loop.                 *)
IsLoop(V, v, step, n, F) ==
  /\ F \in [0 .. n -> V] /\ F[0] = v
  /\ \A i \in 0 .. n - 1 : F[i + 1] = step[<<i, F[i]>>]

LEMMA LoopExists ==
  ASSUME NEW V, NEW n \in Nat, NEW v \in V, NEW step \in [(0 .. n - 1) \X V -> V]
  PROVE  \E F : IsLoop(V, v, step, n, F)
  <1> DEFINE P == 0 .. n - 1
             s == [k \in 1 .. n |-> n - k]
  <1>1. s \in Seq(P) /\ Len(s) = n /\ \A i \in 0 .. n - 1 : s[Len(s) - i] = i
    <2>1. \A k \in 1 .. n : n - k \in P
      OBVIOUS
    <2>2. s \in [1 .. n -> P]
      BY <2>1
    <2>3. s \in Seq(P)
      BY <2>2
    <2>4. Len(s) = n
      OBVIOUS
    <2>5. \A i \in 0 .. n - 1 : n - i \in 1 .. n /\ n - (n - i) = i
      OBVIOUS
    <2> QED
      BY <2>3, <2>4, <2>5
  <1> HIDE DEF s
  <1>2. PICK T : IsTable(V, v, step, s, n, T)
    BY <1>1, TableExists
  <1>3. IsLoop(V, v, step, n, T)
    BY <1>1, <1>2 DEF IsTable, IsLoop
  <1> QED
    BY <1>3

(* The same function, in the form of a recursive definition.               *)
LEMMA LoopEquation ==
  ASSUME NEW V, NEW n \in Nat, NEW v, NEW step, NEW F, IsLoop(V, v, step, n, F)
  PROVE  \A i \in 0 .. n : /\ F[i] \in V
                           /\ F[i] = IF i = 0 THEN v ELSE step[<<i - 1, F[i - 1]>>]
                           /\ i # 0 => i - 1 \in 0 .. n - 1 /\ F[i - 1] \in V
  <1> SUFFICES ASSUME NEW i \in 0 .. n
               PROVE  /\ F[i] \in V
                      /\ F[i] = IF i = 0 THEN v ELSE step[<<i - 1, F[i - 1]>>]
                      /\ i # 0 => i - 1 \in 0 .. n - 1 /\ F[i - 1] \in V
    OBVIOUS
  <1>1. CASE i = 0
    BY <1>1 DEF IsLoop
  <1>2. CASE i # 0
    <2>1. i - 1 \in 0 .. n - 1 /\ (i - 1) + 1 = i /\ i - 1 \in 0 .. n
      BY <1>2
    <2> QED
      BY <1>2, <2>1 DEF IsLoop
  <1> QED
    BY <1>1, <1>2

-----------------------------------------------------------------------------
(* Sums over finite sets.                                                  *)

(* Induction over the subsets of a finite set, with a set in the place of  *)
(* the predicate.                                                          *)
LEMMA SubsetInduction ==
  ASSUME NEW S, IsFiniteSet(S), NEW G, {} \in G,
         \A s \in SUBSET S : s # {} => \E x \in s : s \ {x} \in G => s \in G
  PROVE  SUBSET S \subseteq G
  <1> DEFINE Bad == {n \in Nat : \E s \in SUBSET S : Cardinality(s) = n /\ s \notin G}
  <1>1. ASSUME Bad # {} PROVE FALSE
    <2>1. PICK n \in Bad : \A m \in Bad : n <= m
      <3>1. Bad \subseteq Nat
        OBVIOUS
      <3> HIDE DEF Bad
      <3> QED
        BY <1>1, <3>1, LeastExists
    <2>2. PICK s \in SUBSET S : Cardinality(s) = n /\ s \notin G
      BY <2>1
    <2>3. PICK x \in s : s \ {x} \in G => s \in G
      BY <2>2
    <2>4. IsFiniteSet(s)
      BY FS_Subset
    <2>5. IsFiniteSet(s \ {x}) /\ Cardinality(s \ {x}) = Cardinality(s) - 1 /\ Cardinality(s \ {x}) \in Nat
      BY <2>4, FS_RemoveElement, FS_CardinalityType
    <2>6. n \in Nat /\ n - 1 \in Nat /\ ~(n <= n - 1)
      BY <2>1, <2>2, <2>5
    <2>7. n - 1 \notin Bad
      <3> HIDE DEF Bad
      <3> QED
        BY <2>1, <2>6
    <2>8. s \ {x} \in G
      BY <2>2, <2>5, <2>6, <2>7
    <2> QED
      BY <2>2, <2>3, <2>8
  <1>2. ASSUME NEW s \in SUBSET S PROVE s \in G
    <2>1. Cardinality(s) \in Nat
      BY FS_Subset, FS_CardinalityType
    <2> QED
      BY <1>1, <2>1
  <1> QED
    BY <1>2

(* T is the sum of the weights w over each subset of S.                    *)
IsSetSum(S, w, T) ==
  /\ T \in [SUBSET S -> Int]
  /\ T[{}] = 0
  /\ \A s \in SUBSET S : \A x \in s : T[s] = w[x] + T[s \ {x}]

SetSum(S, w) == (CHOOSE T : IsSetSum(S, w, T))[S]

LEMMA SetSumExists ==
  ASSUME NEW S, IsFiniteSet(S), NEW w, \A x \in S : w[x] \in Int
  PROVE  \E T : IsSetSum(S, w, T)
  <1> DEFINE G == {s \in SUBSET S : \E T : IsSetSum(s, w, T)}
  <1>1. {} \in G
    <2> DEFINE T == [s \in SUBSET {} |-> 0]
    <2>1. \A s \in SUBSET {} : s = {}
      OBVIOUS
    <2>2. T \in [SUBSET {} -> Int] /\ T[{}] = 0
      OBVIOUS
    <2> HIDE DEF T
    <2>3. IsSetSum({}, w, T)
      BY <2>1, <2>2 DEF IsSetSum
    <2> QED
      BY <2>3
  <1>2. ASSUME NEW s \in SUBSET S, NEW x \in s, s \ {x} \in G PROVE s \in G
    <2>1. PICK T : IsSetSum(s \ {x}, w, T)
      BY <1>2
    <2> DEFINE U == [u \in SUBSET s |-> IF x \in u THEN w[x] + T[u \ {x}] ELSE T[u]]
    <2>2. /\ \A u \in SUBSET (s \ {x}) : T[u] \in Int
          /\ T[{}] = 0
          /\ \A u \in SUBSET (s \ {x}) : \A y \in u : T[u] = w[y] + T[u \ {y}]
      BY <2>1 DEF IsSetSum
    <2>3. \A u \in SUBSET s : u \ {x} \in SUBSET (s \ {x}) /\ (x \notin u => u \in SUBSET (s \ {x}))
      OBVIOUS
    <2>4. w[x] \in Int
      BY <1>2
    <2>5. U \in [SUBSET s -> Int] /\ U[{}] = 0
      BY <2>2, <2>3, <2>4
    <2>6. ASSUME NEW u \in SUBSET s, NEW y \in u PROVE U[u] = w[y] + U[u \ {y}]
      <3>0. /\ U[u] = IF x \in u THEN w[x] + T[u \ {x}] ELSE T[u]
            /\ U[u \ {y}] = IF x \in u \ {y} THEN w[x] + T[(u \ {y}) \ {x}] ELSE T[u \ {y}]
        OBVIOUS
      <3> HIDE DEF U
      <3>1. CASE y = x
        BY <3>0, <3>1
      <3>2. CASE x \notin u
        BY <2>2, <2>3, <3>0, <3>2
      <3>3. CASE y # x /\ x \in u
        <4>1. T[u \ {x}] = w[y] + T[(u \ {x}) \ {y}]
          BY <2>2, <2>3, <3>3
        <4>2. (u \ {x}) \ {y} = (u \ {y}) \ {x} /\ (u \ {x}) \ {y} \in SUBSET (s \ {x})
          OBVIOUS
        <4>3. T[(u \ {x}) \ {y}] \in Int /\ w[y] \in Int
          BY <2>2, <4>2
        <4>4. U[u] = w[x] + T[u \ {x}] /\ U[u \ {y}] = w[x] + T[(u \ {x}) \ {y}]
          BY <3>0, <3>3, <4>2
        <4> QED
          BY <2>4, <4>1, <4>3, <4>4
      <3> QED
        BY <3>1, <3>2, <3>3
    <2> HIDE DEF U
    <2>7. IsSetSum(s, w, U)
      BY <2>5, <2>6 DEF IsSetSum
    <2> QED
      BY <2>7
  <1>3. SUBSET S \subseteq G
    <2> HIDE DEF G
    <2>1. ASSUME NEW s \in SUBSET S, s # {} PROVE \E x \in s : s \ {x} \in G => s \in G
      BY <1>2, <2>1
    <2> QED
      BY <1>1, <2>1, SubsetInduction
  <1> QED
    BY <1>3

(* The sums over the subsets of a subset.                                  *)
LEMMA SetSumOfSubset ==
  ASSUME NEW S, NEW w, NEW T, IsSetSum(S, w, T), NEW R \in SUBSET S
  PROVE  IsSetSum(R, w, [s \in SUBSET R |-> T[s]])
  <1> DEFINE U == [s \in SUBSET R |-> T[s]]
  <1>1. \A s \in SUBSET R : s \in SUBSET S /\ U[s] = T[s] /\ \A x \in s : s \ {x} \in SUBSET R
    OBVIOUS
  <1>2. U \in [SUBSET R -> Int] /\ U[{}] = 0
    BY <1>1 DEF IsSetSum
  <1> HIDE DEF U
  <1>3. IsSetSum(R, w, U)
    BY <1>1, <1>2 DEF IsSetSum
  <1> QED
    BY <1>3 DEF U

(* Two tables of sums are the same where their weights are.                *)
LEMMA SetSumUnique ==
  ASSUME NEW S, IsFiniteSet(S), NEW w, NEW T, IsSetSum(S, w, T), NEW v, NEW U, IsSetSum(S, v, U),
         \A x \in S : w[x] = v[x]
  PROVE  \A s \in SUBSET S : T[s] = U[s]
  <1> DEFINE G == {s \in SUBSET S : T[s] = U[s]}
  <1>1. {} \in G
    BY DEF IsSetSum
  <1>2. ASSUME NEW s \in SUBSET S, NEW x \in s, s \ {x} \in G PROVE s \in G
    BY <1>2 DEF IsSetSum
  <1>3. SUBSET S \subseteq G
    <2> HIDE DEF G
    <2>1. ASSUME NEW s \in SUBSET S, s # {} PROVE \E x \in s : s \ {x} \in G => s \in G
      BY <1>2, <2>1
    <2> QED
      BY <1>1, <2>1, SubsetInduction
  <1> QED
    BY <1>3

LEMMA SetSumFacts ==
  ASSUME NEW S, IsFiniteSet(S), NEW w, \A x \in S : w[x] \in Int
  PROVE  \A R \in SUBSET S :
           /\ SetSum(R, w) \in Int
           /\ R = {} => SetSum(R, w) = 0
           /\ \A x \in R : SetSum(R, w) = w[x] + SetSum(R \ {x}, w)
  <1>1. PICK T : IsSetSum(S, w, T)
    BY SetSumExists
  <1>2. ASSUME NEW R \in SUBSET S PROVE SetSum(R, w) = T[R]
    <2> DEFINE U == [s \in SUBSET R |-> T[s]]
               V == CHOOSE V : IsSetSum(R, w, V)
    <2>1. IsSetSum(R, w, U) /\ U[R] = T[R]
      BY <1>1, SetSumOfSubset
    <2> HIDE DEF U
    <2>2. IsSetSum(R, w, V)
      BY <2>1
    <2> HIDE DEF V
    <2>3. IsFiniteSet(R)
      BY FS_Subset
    <2>4. \A s \in SUBSET R : U[s] = V[s]
      BY <2>1, <2>2, <2>3, SetSumUnique
    <2> QED
      BY <2>1, <2>4 DEF SetSum, V
  <1> QED
    BY <1>1, <1>2 DEF IsSetSum

(* A recursive function that takes the elements in the order in which      *)
(* CHOOSE yields them computes the sums.                                   *)
Chooses(S, w, T) ==
  T = [s \in SUBSET S |-> IF s = {} THEN 0 ELSE w[CHOOSE x \in s : TRUE] + T[s \ {CHOOSE x \in s : TRUE}]]

LEMMA SetSumByChoice ==
  ASSUME NEW S, IsFiniteSet(S), NEW w, \A x \in S : w[x] \in Int
  PROVE  (\E T : Chooses(S, w, T)) /\ \A U : Chooses(S, w, U) => U[S] = SetSum(S, w)
  <1>1. PICK T : IsSetSum(S, w, T)
    BY SetSumExists
  <1>2. SetSum(S, w) = T[S]
    <2>1. IsSetSum(S, w, CHOOSE V : IsSetSum(S, w, V))
      BY <1>1
    <2> QED
      BY <1>1, <2>1, SetSumUnique DEF SetSum
  <1>3. ASSUME NEW s \in SUBSET S PROVE s # {} => (CHOOSE x \in s : TRUE) \in s
    OBVIOUS
  <1>4. Chooses(S, w, T)
    <2>1. ASSUME NEW s \in SUBSET S
          PROVE  T[s] = IF s = {} THEN 0 ELSE w[CHOOSE x \in s : TRUE] + T[s \ {CHOOSE x \in s : TRUE}]
      BY <1>1, <1>3 DEF IsSetSum
    <2>2. T = [s \in SUBSET S |-> T[s]]
      BY <1>1 DEF IsSetSum
    <2> QED
      BY <2>1, <2>2 DEF Chooses
  <1>5. ASSUME NEW U, Chooses(S, w, U) PROVE U[S] = T[S]
    <2> DEFINE G == {s \in SUBSET S : U[s] = T[s]}
    <2>1. ASSUME NEW s \in SUBSET S
          PROVE  U[s] = IF s = {} THEN 0 ELSE w[CHOOSE x \in s : TRUE] + U[s \ {CHOOSE x \in s : TRUE}]
      BY <1>5 DEF Chooses
    <2>2. {} \in G
      BY <1>1, <2>1 DEF IsSetSum
    <2>3. ASSUME NEW s \in SUBSET S, s # {} PROVE \E x \in s : s \ {x} \in G => s \in G
      <3> DEFINE x == CHOOSE x \in s : TRUE
      <3>1. x \in s
        BY <2>3
      <3>2. U[s] = w[x] + U[s \ {x}]
        BY <2>1, <2>3
      <3> HIDE DEF x
      <3>3. T[s] = w[x] + T[s \ {x}]
        BY <1>1, <3>1 DEF IsSetSum
      <3>4. s \ {x} \in G => s \in G
        BY <3>2, <3>3
      <3> QED
        BY <3>1, <3>4
    <2>4. SUBSET S \subseteq G
      <3> HIDE DEF G
      <3> QED
        BY <2>2, <2>3, SubsetInduction
    <2> QED
      BY <2>4
  <1> QED
    BY <1>2, <1>4, <1>5

(* Sums with the sums of two weights, and with weights that are zero       *)
(* outside of a subset.                                                    *)
LEMMA SetSumAdds ==
  ASSUME NEW S, IsFiniteSet(S), NEW w, NEW v, NEW u,
         \A x \in S : v[x] \in Int /\ u[x] \in Int /\ w[x] = v[x] + u[x]
  PROVE  SetSum(S, w) = SetSum(S, v) + SetSum(S, u)
  <1> DEFINE G == {s \in SUBSET S : SetSum(s, w) = SetSum(s, v) + SetSum(s, u)}
  <1>0. \A x \in S : w[x] \in Int
    OBVIOUS
  <1>w. \A s \in SUBSET S :
           /\ SetSum(s, w) \in Int /\ (s = {} => SetSum(s, w) = 0)
           /\ \A x \in s : SetSum(s, w) = w[x] + SetSum(s \ {x}, w)
    BY <1>0, SetSumFacts
  <1>v. \A s \in SUBSET S :
           /\ SetSum(s, v) \in Int /\ (s = {} => SetSum(s, v) = 0)
           /\ \A x \in s : SetSum(s, v) = v[x] + SetSum(s \ {x}, v)
    BY SetSumFacts
  <1>u. \A s \in SUBSET S :
           /\ SetSum(s, u) \in Int /\ (s = {} => SetSum(s, u) = 0)
           /\ \A x \in s : SetSum(s, u) = u[x] + SetSum(s \ {x}, u)
    BY SetSumFacts
  <1>1. \A s \in SUBSET S :
          /\ SetSum(s, w) \in Int /\ SetSum(s, v) \in Int /\ SetSum(s, u) \in Int
          /\ s = {} => SetSum(s, w) = 0 /\ SetSum(s, v) = 0 /\ SetSum(s, u) = 0
          /\ \A x \in s : /\ SetSum(s, w) = w[x] + SetSum(s \ {x}, w)
                          /\ SetSum(s, v) = v[x] + SetSum(s \ {x}, v)
                          /\ SetSum(s, u) = u[x] + SetSum(s \ {x}, u)
    BY <1>w, <1>v, <1>u
  <1>2. {} \in G
    BY <1>1
  <1>3. ASSUME NEW s \in SUBSET S, s # {} PROVE \E x \in s : s \ {x} \in G => s \in G
    <2>1. PICK x \in s : TRUE
      BY <1>3
    <2>2. ASSUME s \ {x} \in G PROVE s \in G
      <3> DEFINE r == s \ {x}
      <3>1. r \in SUBSET S /\ x \in S
        OBVIOUS
      <3>2. SetSum(r, w) = SetSum(r, v) + SetSum(r, u)
        BY <2>2
      <3>3. /\ SetSum(s, w) = w[x] + SetSum(r, w) /\ SetSum(s, v) = v[x] + SetSum(r, v)
            /\ SetSum(s, u) = u[x] + SetSum(r, u)
            /\ SetSum(r, v) \in Int /\ SetSum(r, u) \in Int
        BY <1>1, <3>1
      <3> HIDE DEF r
      <3>4. SetSum(s, w) = SetSum(s, v) + SetSum(s, u)
        BY <3>1, <3>2, <3>3
      <3> QED
        BY <3>4
    <2> QED
      BY <2>1, <2>2
  <1>4. SUBSET S \subseteq G
    <2> HIDE DEF G
    <2> QED
      BY <1>2, <1>3, SubsetInduction
  <1> QED
    BY <1>4

LEMMA SetSumOfSupport ==
  ASSUME NEW S, IsFiniteSet(S), NEW w, \A x \in S : w[x] \in Int,
         NEW R \in SUBSET S, \A x \in S \ R : w[x] = 0
  PROVE  SetSum(S, w) = SetSum(R, w)
  <1> DEFINE G == {s \in SUBSET S : SetSum(s, w) = SetSum(s \cap R, w)}
  <1>1. \A s \in SUBSET S :
          /\ SetSum(s, w) \in Int /\ (s = {} => SetSum(s, w) = 0)
          /\ \A x \in s : SetSum(s, w) = w[x] + SetSum(s \ {x}, w)
    BY SetSumFacts
  <1>2. {} \in G
    <2>1. {} \cap R = {}
      OBVIOUS
    <2> QED
      BY <2>1
  <1>3. ASSUME NEW s \in SUBSET S, s # {} PROVE \E x \in s : s \ {x} \in G => s \in G
    <2>1. PICK x \in s : TRUE
      BY <1>3
    <2>2. ASSUME s \ {x} \in G PROVE s \in G
      <3> DEFINE r == s \ {x}
      <3>1. r \in SUBSET S /\ x \in S /\ r \cap R \in SUBSET S /\ s \cap R \in SUBSET S
        OBVIOUS
      <3>2. SetSum(r, w) = SetSum(r \cap R, w) /\ SetSum(r, w) \in Int
        BY <1>1, <2>2, <3>1
      <3>3. SetSum(s, w) = w[x] + SetSum(r, w)
        BY <1>1
      <3>4. CASE x \in R
        <4>1. SetSum(s \cap R, w) = w[x] + SetSum((s \cap R) \ {x}, w)
          BY <1>1, <3>1, <3>4
        <4>2. (s \cap R) \ {x} = r \cap R
          OBVIOUS
        <4> QED
          BY <3>2, <3>3, <4>1, <4>2
      <3>5. CASE x \notin R
        <4>1. s \cap R = r \cap R /\ w[x] = 0
          BY <3>1, <3>5
        <4>2. SetSum(s, w) = SetSum(r, w)
          BY <3>2, <3>3, <4>1
        <4>3. SetSum(s \cap R, w) = SetSum(r \cap R, w)
          BY <4>1, Zenon
        <4> QED
          BY <3>2, <4>2, <4>3, Zenon
      <3> QED
        BY <3>4, <3>5
    <2> QED
      BY <2>1, <2>2
  <1>4. SUBSET S \subseteq G
    <2> HIDE DEF G
    <2> QED
      BY <1>2, <1>3, SubsetInduction
  <1>5. S \cap R = R
    OBVIOUS
  <1> QED
    BY <1>4, <1>5

(* Recursion on the levels 0 .. n, where the value of level i is in V[i].  *)
IsLevels(n, v, step, T) == T = [i \in 0 .. n |-> IF i = 0 THEN v ELSE step[i - 1][T[i - 1]]]

LEMMA LevelsExist ==
  ASSUME NEW n \in Nat, NEW V, NEW v \in V[0], NEW step,
         \A i \in 0 .. n - 1 : \A x \in V[i] : step[i][x] \in V[i + 1]
  PROVE  \E T : IsLevels(n, v, step, T)
  <1> DEFINE G == {m \in 0 .. n : \E T : IsLevels(m, v, step, T) /\ T[m] \in V[m]}
  <1>1. 0 \in G
    <2> DEFINE T == [i \in 0 .. 0 |-> v]
    <2>1. T = [i \in 0 .. 0 |-> IF i = 0 THEN v ELSE step[i - 1][T[i - 1]]]
      <3>1. \A i \in 0 .. 0 : i = 0
        OBVIOUS
      <3> QED
        BY <3>1, Zenon
    <2>2. T[0] = v
      OBVIOUS
    <2> HIDE DEF T
    <2>3. IsLevels(0, v, step, T)
      BY <2>1 DEF IsLevels
    <2> QED
      BY <2>2, <2>3
  <1>2. ASSUME NEW m \in 0 .. n - 1, m \in G
        PROVE  m + 1 \in G
    <2>1. PICK T : IsLevels(m, v, step, T) /\ T[m] \in V[m]
      BY <1>2
    <2> DEFINE x == step[m][T[m]]
               U == [i \in 0 .. m + 1 |-> IF i = m + 1 THEN x ELSE T[i]]
    <2>2. x \in V[m + 1] /\ m + 1 \in 0 .. n
      BY <2>1
    <2>3. U[m + 1] = x /\ \A i \in 0 .. m : U[i] = T[i]
      <3>1. m + 1 \in 0 .. m + 1 /\ \A i \in 0 .. m : i \in 0 .. m + 1 /\ i # m + 1
        OBVIOUS
      <3> HIDE DEF x
      <3> QED
        BY <3>1
    <2>4. ASSUME NEW i \in 0 .. m + 1
          PROVE  U[i] = IF i = 0 THEN v ELSE step[i - 1][U[i - 1]]
      <3>1. CASE i = m + 1
        <4>1. i # 0 /\ i - 1 = m /\ m \in 0 .. m
          BY <3>1
        <4>2. U[i - 1] = T[m]
          BY <2>3, <4>1
        <4> HIDE DEF U
        <4> QED
          BY <2>3, <3>1, <4>1, <4>2
      <3>2. CASE i # m + 1
        <4>1. i \in 0 .. m /\ (i # 0 => i - 1 \in 0 .. m)
          BY <3>2
        <4>2. T[i] = IF i = 0 THEN v ELSE step[i - 1][T[i - 1]]
          BY <2>1, <4>1, Zenon DEF IsLevels
        <4>3. U[i] = T[i] /\ (i # 0 => U[i - 1] = T[i - 1])
          BY <2>3, <4>1
        <4> HIDE DEF U
        <4> QED
          BY <4>2, <4>3, Zenon
      <3> QED
        BY <3>1, <3>2
    <2>5. U = [i \in 0 .. m + 1 |-> U[i]]
      OBVIOUS
    <2> HIDE DEF x, U
    <2>6. IsLevels(m + 1, v, step, U)
      BY <2>4, <2>5, Zenon DEF IsLevels
    <2> QED
      BY <2>2, <2>3, <2>6
  <1> HIDE DEF G
  <1>3. 0 .. n \subseteq G
    BY <1>1, <1>2, IntervalInduction
  <1>4. n \in G
    BY <1>3
  <1> QED
    BY <1>4 DEF G
-----------------------------------------------------------------------------
(* The concatenations of the first parts of a sequence of sequences.       *)
IsChain(parts, n, F) == F = [i \in 1 .. n |-> IF i = 1 THEN parts[i] ELSE F[i - 1] \o parts[i]]

LEMMA ChainExists ==
  ASSUME NEW W, \A a, b \in W : a \o b \in W,
         NEW n \in Nat, n # 0, NEW parts \in [1 .. n -> W]
  PROVE  \E F : IsChain(parts, n, F)
  <1> DEFINE V == [i \in 0 .. n - 1 |-> W]
             step == [i \in 0 .. (n - 1) - 1 |-> [x \in W |-> x \o parts[i + 2]]]
  <1>1. \A i \in 0 .. (n - 1) - 1 : /\ i + 1 \in 0 .. n - 1 /\ i \in 0 .. n - 1 /\ i + 2 \in 1 .. n
                                    /\ \A x \in W : step[i][x] = x \o parts[i + 2]
    OBVIOUS
  <1>2. \A i \in 0 .. n - 1 : V[i] = W
    OBVIOUS
  <1>3. 0 \in 0 .. n - 1 /\ n - 1 \in Nat /\ 1 \in 1 .. n
    OBVIOUS
  <1> HIDE DEF V, step
  <1>4. ASSUME NEW i \in 0 .. (n - 1) - 1, NEW x \in V[i]
        PROVE  step[i][x] \in V[i + 1]
    <2>1. i \in 0 .. n - 1 /\ i + 1 \in 0 .. n - 1 /\ i + 2 \in 1 .. n
      BY <1>1
    <2>2. x \in W /\ V[i + 1] = W /\ parts[i + 2] \in W
      BY <1>2, <2>1
    <2>3. step[i][x] = x \o parts[i + 2]
      BY <1>1, <2>2
    <2> QED
      BY <2>2, <2>3
  <1>5. parts[1] \in V[0]
    BY <1>2, <1>3
  <1>6. PICK T : IsLevels(n - 1, parts[1], step, T)
    BY <1>3, <1>4, <1>5, LevelsExist
  <1>7. T = [i \in 0 .. n - 1 |-> IF i = 0 THEN parts[1] ELSE step[i - 1][T[i - 1]]]
    BY <1>6 DEF IsLevels
  <1>8. 0 .. n - 1 \subseteq {i \in 0 .. n - 1 : T[i] \in W}
    <2> DEFINE G == {i \in 0 .. n - 1 : T[i] \in W}
    <2>1. 0 \in G
      BY <1>3, <1>7
    <2>2. ASSUME NEW i \in 0 .. (n - 1) - 1, i \in G
          PROVE  i + 1 \in G
      <3>1. i + 1 \in 0 .. n - 1 /\ i + 1 # 0 /\ (i + 1) - 1 = i /\ i + 2 \in 1 .. n
        OBVIOUS
      <3>2. T[i + 1] = step[i][T[i]]
        BY <1>7, <3>1
      <3>3. T[i + 1] = T[i] \o parts[i + 2]
        BY <1>1, <2>2, <3>2
      <3> QED
        BY <2>2, <3>1, <3>3
    <2> HIDE DEF G
    <2>3. 0 .. n - 1 \subseteq G
      BY <1>3, <2>1, <2>2, IntervalInduction
    <2> QED
      BY <2>3 DEF G
  <1> DEFINE f == [i \in 1 .. n |-> T[i - 1]]
  <1>9. \A i \in 1 .. n : f[i] = T[i - 1]
    OBVIOUS
  <1>10. f = [i \in 1 .. n |-> f[i]]
    OBVIOUS
  <1> HIDE DEF f
  <1>11. ASSUME NEW i \in 1 .. n
         PROVE  f[i] = IF i = 1 THEN parts[i] ELSE f[i - 1] \o parts[i]
    <2>1. CASE i = 1
      BY <1>3, <1>7, <1>9, <2>1
    <2>2. CASE i # 1
      <3>1. /\ i - 1 \in 1 .. n /\ i - 1 \in 0 .. n - 1 /\ i - 1 # 0
            /\ (i - 1) - 1 \in 0 .. (n - 1) - 1 /\ (i - 1) - 1 \in 0 .. n - 1 /\ ((i - 1) - 1) + 2 = i
        BY <2>2
      <3>2. T[i - 1] = step[(i - 1) - 1][T[(i - 1) - 1]]
        BY <1>7, <3>1
      <3>3. T[i - 1] = T[(i - 1) - 1] \o parts[i]
        <4>1. T[(i - 1) - 1] \in W
          BY <1>8, <3>1
        <4> QED
          BY <1>1, <3>1, <3>2, <4>1
      <3>4. f[i] = T[i - 1] /\ f[i - 1] = T[(i - 1) - 1]
        BY <1>9, <3>1
      <3> QED
        BY <2>2, <3>3, <3>4
    <2> QED
      BY <2>1, <2>2
  <1>12. f = [i \in 1 .. n |-> IF i = 1 THEN parts[i] ELSE f[i - 1] \o parts[i]]
    BY <1>10, <1>11, Zenon
  <1> QED
    BY <1>12, Zenon DEF IsChain

(* They stay in a set that is closed under concatenation.                  *)
LEMMA ChainStays ==
  ASSUME NEW W, \A a, b \in W : a \o b \in W,
         NEW n \in Nat, n # 0, NEW parts \in [1 .. n -> W], NEW F, IsChain(parts, n, F)
  PROVE  \A i \in 1 .. n : F[i] \in W
  <1>1. \A i \in 1 .. n : F[i] = IF i = 1 THEN parts[i] ELSE F[i - 1] \o parts[i]
    BY Zenon DEF IsChain
  <1> DEFINE G == {i \in 0 .. n - 1 : F[i + 1] \in W}
  <1>2. 0 \in G
    <2>1. 0 \in 0 .. n - 1 /\ 1 \in 1 .. n /\ 0 + 1 = 1
      OBVIOUS
    <2> QED
      BY <1>1, <2>1
  <1>3. ASSUME NEW i \in 0 .. (n - 1) - 1, i \in G
        PROVE  i + 1 \in G
    <2>1. i + 1 \in 0 .. n - 1 /\ (i + 1) + 1 \in 1 .. n /\ (i + 1) + 1 # 1 /\ ((i + 1) + 1) - 1 = i + 1
      OBVIOUS
    <2>2. F[(i + 1) + 1] = F[i + 1] \o parts[(i + 1) + 1]
      BY <1>1, <2>1
    <2>3. parts[(i + 1) + 1] \in W
      BY <2>1
    <2> QED
      BY <1>3, <2>1, <2>2, <2>3
  <1>4. n - 1 \in Nat
    OBVIOUS
  <1> HIDE DEF G
  <1>5. 0 .. n - 1 \subseteq G
    BY <1>2, <1>3, <1>4, IntervalInduction
  <1>6. ASSUME NEW i \in 1 .. n PROVE F[i] \in W
    <2>1. i - 1 \in 0 .. n - 1 /\ (i - 1) + 1 = i
      OBVIOUS
    <2>2. F[(i - 1) + 1] \in W
      BY <1>5, <2>1 DEF G
    <2> QED
      BY <2>1, <2>2
  <1> QED
    BY <1>6
=============================================================================
