----------------------------- MODULE HltProofs -----------------------------
(***************************************************************************)
(* For every number of DCMs and of PUs per DCM: the list of DCMs that      *)
(* LeastBusyDcmHltsvStrategy repairs one element at a time stays sorted,   *)
(* its idle lists are the truth, its front can serve, and events wait      *)
(* beside an idle PU only with an excuse.                                  *)
(***************************************************************************)
EXTENDS HltSupervisor, FiniteSetTheorems, ProofFacts

-----------------------------------------------------------------------------
(* The inductive invariant.                                                *)

(* No DCM and no PU is listed twice.                                       *)
Distinct(s) == \A i, j \in DOMAIN s : s[i] = s[j] => i = j
NothingTwice == Distinct(dcms) /\ \A d \in DCM : Distinct(idlePUIds[d])

(* While nothing excuses a wait, events that wait beside an idle PU wait   *)
(* for the answer to the one PU that has just reported.                    *)
AnswersThePu ==
    /\ supervisorNext = "later" => mystate = "WAITING_RATE"
    /\ excuse = "none" =>
          /\ queuedEventsToSend > 0 /\ totalIdlePus > 0 => supervisorNext = "now" /\ mystate = "SENDING_TO_IDLE_PU"
          /\ mystate = "SENDING_TO_IDLE_PU" => totalIdlePus <= 1

HltIInv == TypeOK /\ SortedByLoad /\ IdleListsExact /\ NothingTwice /\ AnswersThePu

-----------------------------------------------------------------------------
(* The numbering of the PUs.                                               *)

(* Total is the sum of a sequence of numbers.                              *)
LEMMA TotalIsSum == [n \in Nat |-> n] \in [Nat -> Nat] /\ IsSum(Nat, [n \in Nat |-> n], Total)
  <1> DEFINE w == [n \in Nat |-> n]
  <1>1. w \in [Nat -> Nat] /\ \A n \in Nat : w[n] = n
    OBVIOUS
  <1> HIDE DEF w
  <1>2. \A F : [s \in Seq(Nat) |-> IF s = <<>> THEN 0 ELSE Head(s) + F[Tail(s)]]
             = [s \in Seq(Nat) |-> IF s = <<>> THEN 0 ELSE w[Head(s)] + F[Tail(s)]]
    BY <1>1
  <1>3. PICK F : IsSum(Nat, w, F)
    BY <1>1, SumExists
  <1>4. F = [s \in Seq(Nat) |-> IF s = <<>> THEN 0 ELSE Head(s) + F[Tail(s)]]
    BY <1>2, <1>3 DEF IsSum
  <1>5. Total = [s \in Seq(Nat) |-> IF s = <<>> THEN 0 ELSE Head(s) + Total[Tail(s)]]
    BY <1>4, Zenon DEF Total
  <1>6. IsSum(Nat, w, Total)
    BY <1>2, <1>5 DEF IsSum
  <1> QED
    BY <1>1, <1>6 DEF w

(* The first PU of a DCM follows the last one of the DCM before it.        *)
LEMMA FirstPuCounts ==
  /\ Len(PusPerDcm) \in Nat \ {0} /\ DCM = 1 .. Len(PusPerDcm)
  /\ FirstPu \in [1 .. Len(PusPerDcm) + 1 -> Nat] /\ FirstPu[1] = 0
  /\ \A d \in DCM : PusPerDcm[d] \in Nat \ {0} /\ FirstPu[d + 1] = FirstPu[d] + PusPerDcm[d]
  <1> DEFINE P == PusPerDcm
             n == Len(PusPerDcm)
             w == [m \in Nat |-> m]
  <1>1. P \in Seq(Nat) /\ n \in Nat \ {0} /\ DCM = 1 .. n /\ \A d \in 1 .. n : P[d] \in Nat \ {0}
    <2>1. P \in Seq(Nat \ {0}) /\ P # <<>>
      BY SupervisorAssumption
    <2>2. n \in Nat /\ n # 0 /\ DOMAIN P = 1 .. n /\ \A d \in 1 .. n : P[d] \in Nat \ {0}
      BY <2>1
    <2>3. P \in Seq(Nat)
      BY <2>1
    <2> HIDE DEF n, P
    <2> QED
      BY <2>2, <2>3 DEF DCM, P
  <1>2. w \in [Nat -> Nat] /\ IsSum(Nat, w, Total) /\ \A m \in Nat : w[m] = m
    BY TotalIsSum
  <1> HIDE DEF w, n, P
  <1>3. \A s \in Seq(Nat) : Total[s] \in Nat
    BY <1>2, SumIsNat
  <1>4. \A s \in Seq(Nat), e \in Nat : Total[Append(s, e)] = Total[s] + e
    BY SMTT(30), <1>2, SumOfAppend
  <1>5. ASSUME NEW d \in 1 .. n + 1
        PROVE  SubSeq(P, 1, d - 1) \in Seq(Nat) /\ FirstPu[d] = Total[SubSeq(P, 1, d - 1)]
    BY <1>1 DEF FirstPu, P, n
  <1>6. ASSUME NEW d \in 1 .. n PROVE SubSeq(P, 1, d) = Append(SubSeq(P, 1, d - 1), P[d])
    BY <1>1 DEF n
  <1>7. ASSUME NEW d \in 1 .. n PROVE FirstPu[d + 1] = FirstPu[d] + P[d]
    <2>1. d \in 1 .. n + 1 /\ d + 1 \in 1 .. n + 1 /\ (d + 1) - 1 = d /\ P[d] \in Nat
      BY <1>1
    <2>2. Total[Append(SubSeq(P, 1, d - 1), P[d])] = Total[SubSeq(P, 1, d - 1)] + P[d]
      BY <1>4, <1>5, <2>1
    <2> QED
      BY <1>5, <1>6, <2>1, <2>2
  <1>8. FirstPu[1] = 0
    <2>1. SubSeq(P, 1, 1 - 1) = <<>> /\ <<>> \in Seq(Nat) /\ 1 \in 1 .. n + 1
      BY <1>1
    <2>2. Total[<<>>] = 0
      BY <1>2, <2>1 DEF IsSum
    <2> QED
      BY <1>5, <2>1, <2>2
  <1>9. FirstPu \in [1 .. n + 1 -> Nat]
    <2>1. FirstPu = [d \in 1 .. n + 1 |-> Total[SubSeq(P, 1, d - 1)]]
      BY DEF FirstPu, n, P
    <2> QED
      BY <1>3, <1>5, <2>1
  <1> QED
    BY <1>1, <1>7, <1>8, <1>9 DEF n, P

(* The PUs before the first one of DCM d are those of the DCMs before d.   *)
LEMMA PusBefore ==
  ASSUME NEW d \in 1 .. Len(PusPerDcm) + 1
  PROVE  /\ \A e \in DCM : e < d => FirstPu[e + 1] <= FirstPu[d]
         /\ \A pu \in 0 .. FirstPu[d] - 1 : \E e \in DCM : e < d /\ pu \in PusOf[e]
  <1> DEFINE n == Len(PusPerDcm)
             Below(c) == /\ \A e \in DCM : e < c => FirstPu[e + 1] <= FirstPu[c]
                         /\ \A pu \in 0 .. FirstPu[c] - 1 : \E e \in DCM : e < c /\ pu \in PusOf[e]
             G == {i \in 0 .. n : Below(i + 1)}
  <1>0. /\ n \in Nat \ {0} /\ DCM = 1 .. n /\ FirstPu \in [1 .. n + 1 -> Nat] /\ FirstPu[1] = 0
        /\ \A e \in DCM : PusPerDcm[e] \in Nat \ {0} /\ FirstPu[e + 1] = FirstPu[e] + PusPerDcm[e]
        /\ \A e \in DCM : PusOf[e] = FirstPu[e] .. FirstPu[e + 1] - 1
    BY FirstPuCounts DEF PusOf
  <1> HIDE DEF n
  <1>1. 0 \in G
    <2>1. \A e \in DCM : ~(e < 0 + 1)
      BY <1>0
    <2>2. \A pu \in 0 .. FirstPu[0 + 1] - 1 : FALSE
      BY <1>0
    <2> QED
      BY <1>0, <2>1, <2>2
  <1>2. ASSUME NEW i \in 0 .. n - 1, i \in G PROVE i + 1 \in G
    <2> DEFINE c == i + 1
    <2>1. /\ c \in DCM /\ c \in 1 .. n + 1 /\ c + 1 \in 1 .. n + 1 /\ c \in 0 .. n
          /\ FirstPu[c] \in Nat /\ FirstPu[c + 1] = FirstPu[c] + PusPerDcm[c] /\ PusPerDcm[c] \in Nat
      BY SMTT(30), <1>0
    <2>2. Below(c)
      BY <1>2
    <2> HIDE DEF c
    <2>3. ASSUME NEW e \in DCM, e < c + 1 PROVE FirstPu[e + 1] <= FirstPu[c + 1]
      <3>1. CASE e = c
        BY <2>1, <3>1
      <3>2. CASE e # c
        <4>1. e < c /\ e + 1 \in 1 .. n + 1
          BY <1>0, <2>1, <2>3, <3>2
        <4>2. FirstPu[e + 1] <= FirstPu[c] /\ FirstPu[e + 1] \in Nat
          BY <1>0, <2>2, <4>1
        <4> QED
          BY <2>1, <4>2
      <3> QED
        BY <3>1, <3>2
    <2>4. ASSUME NEW pu \in 0 .. FirstPu[c + 1] - 1 PROVE \E e \in DCM : e < c + 1 /\ pu \in PusOf[e]
      <3>1. CASE pu < FirstPu[c]
        <4>1. pu \in 0 .. FirstPu[c] - 1
          BY <2>1, <2>4, <3>1
        <4>2. PICK e \in DCM : e < c /\ pu \in PusOf[e]
          BY <2>2, <4>1, Zenon
        <4>3. e < c + 1
          BY <1>0, <2>1, <4>2
        <4> QED
          BY <4>2, <4>3
      <3>2. CASE pu >= FirstPu[c]
        <4>1. PusOf[c] = FirstPu[c] .. FirstPu[c + 1] - 1
          BY <1>0, <2>1, Zenon
        <4>2. pu \in FirstPu[c] .. FirstPu[c + 1] - 1 /\ c < c + 1
          BY <2>1, <2>4, <3>2
        <4>3. pu \in PusOf[c]
          BY <4>1, <4>2, Zenon
        <4> QED
          BY <2>1, <4>2, <4>3, Zenon
      <3> QED
        BY <2>1, <3>1, <3>2
    <2>5. Below(c + 1) /\ c \in 0 .. n
      BY <2>1, <2>3, <2>4
    <2> QED
      BY <2>5 DEF c
  <1>3. 0 .. n \subseteq G
    <2> HIDE DEF G
    <2> QED
      BY <1>0, <1>1, <1>2, IntervalInduction
  <1>4. d - 1 \in 0 .. n /\ (d - 1) + 1 = d
    BY <1>0 DEF n
  <1>5. Below((d - 1) + 1)
    BY <1>3, <1>4
  <1> HIDE DEF Below
  <1>6. Below(d)
    BY <1>4, <1>5
  <1> QED
    BY <1>6 DEF Below

(* Every PU belongs to one DCM, and there are FirstPu[Len + 1] of them.    *)
LEMMA EachPuHasItsDcm ==
  /\ \A d \in DCM : /\ PusOf[d] \subseteq PU /\ IsFiniteSet(PusOf[d]) /\ Cardinality(PusOf[d]) = PusPerDcm[d]
                    /\ PusOf[d] = FirstPu[d] .. FirstPu[d] + PusPerDcm[d] - 1
  /\ \A pu \in PU, d \in DCM : pu \in PusOf[d] <=> d = DcmIndex[pu]
  /\ \A pu \in PU : DcmIndex[pu] \in DCM
  /\ PU = 0 .. FirstPu[Len(PusPerDcm) + 1] - 1
  <1> DEFINE n == Len(PusPerDcm)
  <1>0. /\ n \in Nat \ {0} /\ DCM = 1 .. n /\ FirstPu \in [1 .. n + 1 -> Nat] /\ FirstPu[1] = 0
        /\ \A e \in DCM : PusPerDcm[e] \in Nat \ {0} /\ FirstPu[e + 1] = FirstPu[e] + PusPerDcm[e]
        /\ \A e \in DCM : PusOf[e] = FirstPu[e] .. FirstPu[e + 1] - 1
        /\ DOMAIN PusOf = DCM
    BY FirstPuCounts DEF PusOf
  <1>1. PU = UNION {PusOf[e] : e \in DCM}
    BY <1>0 DEF PU, Range
  <1>2. ASSUME NEW d \in 1 .. n + 1
        PROVE  /\ \A e \in DCM : e < d => FirstPu[e + 1] <= FirstPu[d]
               /\ \A pu \in 0 .. FirstPu[d] - 1 : \E e \in DCM : e < d /\ pu \in PusOf[e]
    BY PusBefore
  <1> HIDE DEF n
  <1>3. ASSUME NEW d \in DCM
        PROVE  /\ PusOf[d] \subseteq PU /\ IsFiniteSet(PusOf[d]) /\ Cardinality(PusOf[d]) = PusPerDcm[d]
               /\ PusOf[d] = FirstPu[d] .. FirstPu[d] + PusPerDcm[d] - 1
    <2>1. /\ FirstPu[d] \in Nat /\ FirstPu[d] + PusPerDcm[d] - 1 \in Int /\ PusPerDcm[d] \in Nat \ {0}
          /\ PusOf[d] = FirstPu[d] .. FirstPu[d] + PusPerDcm[d] - 1
      <3>1. d \in 1 .. n /\ d \in 1 .. n + 1 /\ d + 1 \in 1 .. n + 1
        BY <1>0
      <3>2. FirstPu[d] \in Nat
        <4>1. FirstPu \in [1 .. n + 1 -> Nat]
          BY <1>0, Zenon
        <4> QED
          BY <3>1, <4>1, Zenon
      <3>3. PusPerDcm[d] \in Nat \ {0} /\ FirstPu[d + 1] = FirstPu[d] + PusPerDcm[d]
        BY <1>0
      <3>4. PusOf[d] = FirstPu[d] .. FirstPu[d + 1] - 1
        BY <1>0
      <3>5. PusOf[d] = FirstPu[d] .. FirstPu[d] + PusPerDcm[d] - 1
        <4>1. FirstPu[d + 1] - 1 = FirstPu[d] + PusPerDcm[d] - 1
          BY <3>2, <3>3
        <4> QED
          BY <3>4, <4>1, Zenon
      <3>6. FirstPu[d] + PusPerDcm[d] - 1 \in Int
        BY <3>2, <3>3
      <3> QED
        BY <3>2, <3>3, <3>5, <3>6, Zenon
    <2>2. \A a, b \in Int : /\ IsFiniteSet(a .. b)
                            /\ Cardinality(a .. b) = IF a > b THEN 0 ELSE b - a + 1
      BY FS_Interval
    <2>3. IsFiniteSet(PusOf[d]) /\ Cardinality(PusOf[d]) = PusPerDcm[d]
      <3> DEFINE lo == FirstPu[d]
                 hi == FirstPu[d] + PusPerDcm[d] - 1
      <3>1. lo \in Int /\ hi \in Int /\ ~(lo > hi) /\ hi - lo + 1 = PusPerDcm[d] /\ PusOf[d] = lo .. hi
        BY <2>1
      <3> HIDE DEF lo, hi
      <3>2. IsFiniteSet(lo .. hi) /\ Cardinality(lo .. hi) = IF lo > hi THEN 0 ELSE hi - lo + 1
        BY <2>2, <3>1, Zenon
      <3> QED
        BY <3>1, <3>2, Zenon
    <2> QED
      BY <1>1, <2>1, <2>3
  <1>4. ASSUME NEW d \in DCM, NEW e \in DCM, NEW pu \in PusOf[d], pu \in PusOf[e] PROVE d = e
    <2>1. ASSUME NEW a \in DCM, NEW b \in DCM, a < b, pu \in PusOf[a], pu \in PusOf[b] PROVE FALSE
      <3>1. b \in 1 .. n + 1 /\ FirstPu[a + 1] <= FirstPu[b]
        BY <1>0, <1>2, <2>1
      <3>2. /\ a \in 1 .. n + 1 /\ a + 1 \in 1 .. n + 1 /\ b + 1 \in 1 .. n + 1
            /\ FirstPu[a] \in Nat /\ FirstPu[a + 1] \in Nat /\ FirstPu[b] \in Nat /\ FirstPu[b + 1] \in Nat
        <4>1. a \in 1 .. n /\ b \in 1 .. n /\ n \in Nat /\ FirstPu \in [1 .. n + 1 -> Nat]
          BY <1>0, Zenon
        <4>2. a \in 1 .. n + 1 /\ a + 1 \in 1 .. n + 1 /\ b \in 1 .. n + 1 /\ b + 1 \in 1 .. n + 1
          BY <4>1
        <4> QED
          BY <4>1, <4>2
      <3>3. pu \in FirstPu[a] .. FirstPu[a + 1] - 1 /\ pu \in FirstPu[b] .. FirstPu[b + 1] - 1
        <4>1. PusOf[a] = FirstPu[a] .. FirstPu[a + 1] - 1 /\ PusOf[b] = FirstPu[b] .. FirstPu[b + 1] - 1
          BY <1>0, Zenon
        <4>2. pu \in PusOf[a] /\ pu \in PusOf[b]
          BY <2>1
        <4> QED
          BY <4>1, <4>2, Zenon
      <3> QED
        BY <3>1, <3>2, <3>3
    <2>2. d \in Int /\ e \in Int
      BY <1>0
    <2> QED
      BY <1>4, <2>1, <2>2
  <1>5. ASSUME NEW pu \in PU
        PROVE  DcmIndex[pu] \in DCM /\ pu \in PusOf[DcmIndex[pu]]
    <2>1. \E d \in DCM : pu \in PusOf[d]
      BY <1>1
    <2> QED
      BY <2>1 DEF DcmIndex
  <1>6. PU = 0 .. FirstPu[n + 1] - 1
    <2>1. n + 1 \in 1 .. n + 1 /\ FirstPu[n + 1] \in Nat
      BY <1>0
    <2>2. 0 .. FirstPu[n + 1] - 1 \subseteq PU
      BY <1>1, <1>2, <2>1
    <2>3. ASSUME NEW e \in DCM PROVE PusOf[e] \subseteq 0 .. FirstPu[n + 1] - 1
      <3>1. e < n + 1 /\ e \in 1 .. n + 1 /\ e + 1 \in 1 .. n + 1
        BY <1>0
      <3>2. FirstPu[e + 1] <= FirstPu[n + 1] /\ FirstPu[e + 1] \in Nat /\ FirstPu[e] \in Nat
        BY <1>0, <1>2, <2>1, <3>1
      <3> QED
        BY SMTT(30), <1>0, <2>1, <3>2
    <2> QED
      BY <1>1, <2>2, <2>3
  <1> QED
    BY <1>3, <1>4, <1>5, <1>6 DEF n

-----------------------------------------------------------------------------
(* Moving one element of a list.                                           *)

(* The sequence t over S is s with e inserted at place i.                  *)
IsInsertion(s, i, e, t, S) ==
    /\ t \in Seq(S) /\ Len(t) = Len(s) + 1
    /\ \A k \in 1 .. Len(s) + 1 : t[k] = IF k < i THEN s[k] ELSE IF k = i THEN e ELSE s[k - 1]

LEMMA InsertAtFacts ==
  ASSUME NEW S, NEW s \in Seq(S), NEW i \in 1 .. Len(s) + 1, NEW e \in S
  PROVE  IsInsertion(s, i, e, InsertAt(s, i, e), S)
  <1> DEFINE a == SubSeq(s, 1, i - 1)
             b == SubSeq(s, i, Len(s))
             ae == a \o <<e>>
  <1>0. Len(s) \in Nat
    OBVIOUS
  <1>1. a \in Seq(S) /\ Len(a) = i - 1 /\ \A k \in 1 .. i - 1 : a[k] = s[k]
    BY <1>0
  <1>2. b \in Seq(S) /\ Len(b) = Len(s) - i + 1 /\ \A k \in 1 .. Len(s) - i + 1 : b[k] = s[i + k - 1]
    BY <1>0
  <1>3. <<e>> \in Seq(S) /\ Len(<<e>>) = 1 /\ <<e>>[1] = e
    OBVIOUS
  <1> HIDE DEF a, b
  <1>4. ae \in Seq(S) /\ Len(ae) = i /\ ae[i] = e /\ \A k \in 1 .. i - 1 : ae[k] = s[k]
    BY <1>0, <1>1, <1>3
  <1>5. InsertAt(s, i, e) = ae \o b
    BY DEF InsertAt, a, b
  <1> HIDE DEF ae
  <1>6. ae \o b \in Seq(S) /\ Len(ae \o b) = Len(s) + 1
    BY <1>0, <1>2, <1>4
  <1>7. ASSUME NEW k \in 1 .. Len(s) + 1
        PROVE  (ae \o b)[k] = IF k < i THEN s[k] ELSE IF k = i THEN e ELSE s[k - 1]
    <2>1. (ae \o b)[k] = IF k <= i THEN ae[k] ELSE b[k - i]
      BY <1>0, <1>2, <1>4
    <2>2. CASE k > i
      <3>1. k - i \in 1 .. Len(s) - i + 1 /\ i + (k - i) - 1 = k - 1
        BY <1>0, <2>2
      <3> QED
        BY <1>2, <2>1, <2>2, <3>1
    <2>3. CASE k <= i
      BY <1>4, <2>1, <2>3
    <2>4. k > i \/ k <= i
      BY <1>0
    <2> QED
      BY <2>2, <2>3, <2>4, Zenon
  <1> QED
    BY <1>5, <1>6, <1>7 DEF IsInsertion

LEMMA RemoveAtFacts ==
  ASSUME NEW S, NEW s \in Seq(S), NEW i \in 1 .. Len(s)
  PROVE  /\ RemoveAt(s, i) \in Seq(S) /\ Len(RemoveAt(s, i)) = Len(s) - 1
         /\ \A k \in 1 .. Len(s) - 1 : RemoveAt(s, i)[k] = IF k < i THEN s[k] ELSE s[k + 1]
  <1> DEFINE a == SubSeq(s, 1, i - 1)
             b == SubSeq(s, i + 1, Len(s))
  <1>0. Len(s) \in Nat
    OBVIOUS
  <1>1. a \in Seq(S) /\ Len(a) = i - 1 /\ \A k \in 1 .. i - 1 : a[k] = s[k]
    BY <1>0
  <1>2. b \in Seq(S) /\ Len(b) = Len(s) - i /\ \A k \in 1 .. Len(s) - i : b[k] = s[i + k]
    BY <1>0
  <1>3. RemoveAt(s, i) = a \o b
    BY DEF RemoveAt
  <1> HIDE DEF a, b
  <1>4. ASSUME NEW k \in 1 .. Len(s) - 1 PROVE (a \o b)[k] = IF k < i THEN s[k] ELSE s[k + 1]
    <2>1. (a \o b)[k] = IF k <= i - 1 THEN a[k] ELSE b[k - (i - 1)]
      BY <1>0, <1>1, <1>2
    <2>2. CASE k >= i
      <3>1. k - (i - 1) \in 1 .. Len(s) - i /\ i + (k - (i - 1)) = k + 1
        BY <1>0, <2>2
      <3> QED
        BY <1>2, <2>1, <2>2, <3>1
    <2>3. CASE k < i
      BY <1>1, <2>1, <2>3
    <2>4. k >= i \/ k < i
      BY <1>0
    <2> QED
      BY <2>2, <2>3, <2>4, Zenon
  <1>5. a \o b \in Seq(S) /\ Len(a \o b) = Len(s) - 1
    <2>1. a \in Seq(S) /\ b \in Seq(S)
      BY <1>1, <1>2
    <2>2. a \o b \in Seq(S) /\ Len(a \o b) = Len(a) + Len(b)
      BY <2>1, ConcatProperties
    <2>3. (i - 1) + (Len(s) - i) = Len(s) - 1
      BY <1>0
    <2> QED
      BY <1>1, <1>2, <2>2, <2>3, Zenon
  <1> QED
    BY <1>3, <1>4, <1>5

(* t is s after its element number "from" has moved to place "to".         *)
Origin(from, to, k) ==
    IF k = to THEN from ELSE IF to <= k /\ k <= from THEN k - 1 ELSE IF from <= k /\ k <= to THEN k + 1 ELSE k

IsMove(s, from, to, t) == Len(t) = Len(s) /\ \A k \in DOMAIN s : t[k] = s[Origin(from, to, k)]

LEMMA OriginPermutes ==
  ASSUME NEW n \in Nat, NEW from \in 1 .. n, NEW to \in 1 .. n
  PROVE  /\ \A k \in 1 .. n : Origin(from, to, k) \in 1 .. n
         /\ \A j, k \in 1 .. n : Origin(from, to, j) = Origin(from, to, k) => j = k
         /\ \A m \in 1 .. n : \E k \in 1 .. n : Origin(from, to, k) = m
  <1>1. \A k \in 1 .. n : Origin(from, to, k) \in 1 .. n
    BY DEF Origin
  <1>2. \A j, k \in 1 .. n : Origin(from, to, j) = Origin(from, to, k) => j = k
    BY DEF Origin
  <1>3. ASSUME NEW m \in 1 .. n PROVE \E k \in 1 .. n : Origin(from, to, k) = m
    <2> DEFINE k == IF m = from THEN to ELSE IF to <= m /\ m <= from THEN m + 1
                    ELSE IF from <= m /\ m <= to THEN m - 1 ELSE m
    <2>1. k \in 1 .. n /\ Origin(from, to, k) = m
      BY DEF Origin
    <2> QED
      BY <2>1
  <1> QED
    BY <1>1, <1>2, <1>3

(* Such a move keeps the elements.                                         *)
LEMMA MoveKeepsElements ==
  ASSUME NEW S, NEW s \in Seq(S), NEW t \in Seq(S), NEW from \in DOMAIN s, NEW to \in DOMAIN s,
         IsMove(s, from, to, t), Distinct(s)
  PROVE  Distinct(t) /\ ToSet(t) = ToSet(s)
  <1> DEFINE n == Len(s)
             was(k) == Origin(from, to, k)
  <1>1. n \in Nat /\ DOMAIN s = 1 .. n /\ DOMAIN t = 1 .. n /\ from \in 1 .. n /\ to \in 1 .. n
    BY DEF IsMove
  <1>2. /\ \A k \in 1 .. n : was(k) \in 1 .. n
        /\ \A j, k \in 1 .. n : was(j) = was(k) => j = k
        /\ \A m \in 1 .. n : \E k \in 1 .. n : was(k) = m
    <2> HIDE DEF n
    <2> QED
      BY ZenonT(60), <1>1, OriginPermutes
  <1>3. \A k \in 1 .. n : t[k] = s[was(k)]
    BY <1>1 DEF IsMove
  <1> HIDE DEF was, n
  <1>4. Distinct(t)
    <2> SUFFICES ASSUME NEW j \in 1 .. n, NEW k \in 1 .. n, t[j] = t[k] PROVE j = k
      BY <1>1 DEF Distinct
    <2>1. s[was(j)] = s[was(k)] /\ was(j) \in 1 .. n /\ was(k) \in 1 .. n
      BY <1>2, <1>3
    <2>2. was(j) = was(k)
      BY <1>1, <2>1 DEF Distinct
    <2> QED
      BY <1>2, <2>2
  <1>5. ToSet(t) \subseteq ToSet(s)
    BY <1>1, <1>2, <1>3 DEF ToSet
  <1>6. ASSUME NEW e \in ToSet(s) PROVE e \in ToSet(t)
    <2>1. PICK m \in 1 .. n : e = s[m]
      BY <1>1 DEF ToSet
    <2>2. PICK k \in 1 .. n : was(k) = m
      BY <1>2
    <2> QED
      BY <1>1, <1>3, <2>1, <2>2 DEF ToSet
  <1> QED
    BY <1>4, <1>5, <1>6

(* A list whose elements, but one, are sorted is sorted after that one has *)
(* moved behind all that are less and before all that are greater.         *)
LEMMA MoveSorts ==
  ASSUME NEW n \in Nat, NEW from \in 1 .. n, NEW to \in 1 .. n, NEW L \in [1 .. n -> Int],
         NEW i \in 1 .. n, NEW j \in 1 .. n, i < j
  PROVE  /\ \A k, l \in 1 .. n : k < l /\ k # from /\ l # from => L[k] <= L[l]
         /\ \A k \in 1 .. n : k # from /\ (k < to \/ (k = to /\ from < to)) => L[k] <= L[from]
         /\ \A k \in 1 .. n : k # from /\ (k > to \/ (k = to /\ to < from)) => L[from] <= L[k]
         => L[Origin(from, to, i)] <= L[Origin(from, to, j)]
  <1> DEFINE a == Origin(from, to, i)
             z == Origin(from, to, j)
  <1>1. /\ a \in 1 .. n /\ z \in 1 .. n
        /\ i = to => a = from /\ z # from /\ (z > to \/ (z = to /\ to < from))
        /\ j = to => z = from /\ a # from /\ (a < to \/ (a = to /\ from < to))
        /\ i # to /\ j # to => a < z /\ a # from /\ z # from
    BY DEF Origin
  <1> HIDE DEF a, z
  <1>2. ASSUME \A k, l \in 1 .. n : k < l /\ k # from /\ l # from => L[k] <= L[l],
               \A k \in 1 .. n : k # from /\ (k < to \/ (k = to /\ from < to)) => L[k] <= L[from],
               \A k \in 1 .. n : k # from /\ (k > to \/ (k = to /\ to < from)) => L[from] <= L[k]
        PROVE  L[a] <= L[z]
    <2>1. CASE i = to
      BY <1>1, <1>2, <2>1
    <2>2. CASE j = to
      BY <1>1, <1>2, <2>2
    <2>3. CASE i # to /\ j # to
      BY <1>1, <1>2, <2>3
    <2> QED
      BY <2>1, <2>2, <2>3
  <1> QED
    BY <1>2 DEF a, z

Sorted(s, b) == \A i, j \in DOMAIN s : i < j => b[s[i]] <= b[s[j]]

(* The load of only element number "from" has changed, from b to c, and    *)
(* its new load fits at the place "to".                                    *)
Fits(s, from, to, b, c) ==
    /\ \A k \in DOMAIN s : k # from => c[s[k]] = b[s[k]]
    /\ \A k \in DOMAIN s : k # from /\ (k < to \/ (k = to /\ from < to)) => c[s[k]] <= c[s[from]]
    /\ \A k \in DOMAIN s : k # from /\ (k > to \/ (k = to /\ to < from)) => c[s[from]] <= c[s[k]]

(* A list sorted by load b is sorted by load c after its element number    *)
(* "from", the only one whose load has changed, has moved to a place where *)
(* it fits.                                                                *)
LEMMA RepairSorts ==
  ASSUME NEW D, NEW s \in Seq(D), NEW t \in Seq(D), NEW b \in [D -> Int], NEW c \in [D -> Int],
         NEW from \in DOMAIN s, NEW to \in DOMAIN s, IsMove(s, from, to, t), Sorted(s, b),
         Fits(s, from, to, b, c)
  PROVE  Sorted(t, c)
  <1> DEFINE n == Len(s)
             L == [k \in 1 .. n |-> c[s[k]]]
  <1>1. n \in Nat /\ DOMAIN s = 1 .. n /\ DOMAIN t = 1 .. n /\ from \in 1 .. n /\ to \in 1 .. n
    BY DEF IsMove
  <1>2. L \in [1 .. n -> Int] /\ \A k \in 1 .. n : L[k] = c[s[k]]
    BY <1>1
  <1> HIDE DEF L
  <1>b. /\ \A k \in 1 .. n : k # from => L[k] = b[s[k]]
        /\ \A j, k \in 1 .. n : j < k => b[s[j]] <= b[s[k]]
    BY <1>1, <1>2 DEF Sorted, Fits
  <1>3. ASSUME NEW j \in 1 .. n, NEW k \in 1 .. n, j < k, j # from, k # from PROVE L[j] <= L[k]
    <2>1. L[j] = b[s[j]] /\ L[k] = b[s[k]] /\ b[s[j]] <= b[s[k]]
      BY <1>b, <1>3
    <2> QED
      BY <2>1
  <1>4. \A k \in 1 .. n : k # from /\ (k < to \/ (k = to /\ from < to)) => L[k] <= L[from]
    BY <1>1, <1>2 DEF Fits
  <1>5. \A k \in 1 .. n : k # from /\ (k > to \/ (k = to /\ to < from)) => L[from] <= L[k]
    BY <1>1, <1>2 DEF Fits
  <1>6. \A k \in 1 .. n : t[k] = s[Origin(from, to, k)] /\ Origin(from, to, k) \in 1 .. n
    <2>1. \A k \in 1 .. n : t[k] = s[Origin(from, to, k)]
      BY <1>1 DEF IsMove
    <2>2. \A k \in 1 .. n : Origin(from, to, k) \in 1 .. n
      <3> HIDE DEF n
      <3> QED
        BY <1>1, OriginPermutes
    <2> QED
      BY <2>1, <2>2
  <1> HIDE DEF n
  <1>7. ASSUME NEW i \in 1 .. n, NEW j \in 1 .. n, i < j PROVE c[t[i]] <= c[t[j]]
    <2>1. L[Origin(from, to, i)] <= L[Origin(from, to, j)]
      BY <1>1, <1>2, <1>3, <1>4, <1>5, <1>7, MoveSorts
    <2>2. c[t[i]] = L[Origin(from, to, i)] /\ c[t[j]] = L[Origin(from, to, j)]
      BY <1>2, <1>6, Zenon
    <2> QED
      BY <2>1, <2>2
  <1> QED
    BY <1>1, <1>7 DEF Sorted

-----------------------------------------------------------------------------
(* The two repairs of the strategy are such moves.                         *)

LEMMA MinFacts == ASSUME NEW I, I \subseteq Nat, I # {} PROVE Min(I) \in I /\ \A k \in I : Min(I) <= k
  <1>1. \E m \in I : \A k \in I : m <= k
    BY LeastExists
  <1> QED
    BY <1>1 DEF Min

(* The place of the first element that passes a test, as SelectInSeq tells *)
(* it: 0 if there is none.                                                 *)
LEMMA FirstPlace ==
  ASSUME NEW n \in Nat, NEW I, I \subseteq 1 .. n, NEW i, i = IF I # {} THEN Min(I) ELSE 0
  PROVE  /\ i = 0 => I = {}
         /\ i # 0 => i \in I /\ i \in 1 .. n /\ \A k \in 1 .. i - 1 : k \notin I
  <1>1. CASE I = {}
    BY <1>1
  <1>2. CASE I # {}
    <2>1. Min(I) \in I /\ \A k \in I : Min(I) <= k
      <3>1. I \subseteq Nat
        OBVIOUS
      <3> QED
        BY <1>2, <3>1, MinFacts
    <2>2. i \in I /\ \A k \in I : i <= k
      BY <1>2, <2>1
    <2> QED
      BY <1>2, <2>2
  <1> QED
    BY <1>1, <1>2

LEMMA ForwardIsMove ==
  ASSUME dcms \in Seq(DCM), NEW d \in ToSet(dcms), NEW idle
  PROVE  /\ MovedForward(d, idle) \in Seq(DCM)
         /\ \E here \in DOMAIN dcms : \E to \in 1 .. here :
               /\ dcms[here] = d
               /\ IsMove(dcms, here, to, MovedForward(d, idle))
               /\ \A k \in 1 .. to - 1 : ~LessBusyDcm(d, dcms[k], idle)
               /\ to # here => LessBusyDcm(d, dcms[to], idle)
  <1> DEFINE n == Len(dcms)
             here == SelectInSeq(dcms, LAMBDA p : p = d)
             H == {k \in 1 .. Len(dcms) : dcms[k] = d}
             before == SubSeq(dcms, 1, here - 1)
             i == SelectInSeq(before, LAMBDA p : LessBusyDcm(d, p, idle))
             J == {k \in 1 .. Len(before) : LessBusyDcm(d, before[k], idle)}
             t == MovedForward(d, idle)
  <1>1. n \in Nat /\ DOMAIN dcms = 1 .. n /\ d \in DCM /\ H # {} /\ H \subseteq 1 .. n
    BY DEF ToSet
  <1>2. here = IF H # {} THEN Min(H) ELSE 0
    BY DEF SelectInSeq
  <1>3. here \in 1 .. n /\ dcms[here] = d
    <2> HIDE DEF here
    <2>1. here # 0 => here \in H /\ here \in 1 .. n
      <3> HIDE DEF H, n
      <3> QED
        BY <1>1, <1>2, FirstPlace
    <2>2. here # 0
      <3>1. H \subseteq Nat
        BY <1>1
      <3> HIDE DEF H
      <3>2. Min(H) \in H
        BY <1>1, <3>1, MinFacts
      <3> QED
        BY <1>1, <1>2, <3>2
    <2> QED
      BY <2>1, <2>2
  <1>4. i = IF J # {} THEN Min(J) ELSE 0
    BY DEF SelectInSeq
  <1>5. t = IF i = 0 THEN dcms ELSE InsertAt(RemoveAt(dcms, here), i, d)
    BY DEF MovedForward
  <1> HIDE DEF i, here, t
  <1>6. Len(before) = here - 1 /\ \A k \in 1 .. here - 1 : before[k] = dcms[k]
    BY <1>1, <1>3
  <1>7. \A k : k \in J <=> k \in 1 .. here - 1 /\ LessBusyDcm(d, dcms[k], idle)
    <2> HIDE DEF before
    <2> QED
      BY <1>6
  <1>8. /\ i = 0 => J = {}
        /\ i # 0 => i \in J /\ \A k \in 1 .. i - 1 : k \notin J
    <2>1. J \subseteq 1 .. n /\ n \in Nat
      BY <1>1, <1>3, <1>7
    <2> HIDE DEF J, n
    <2> QED
      BY <1>4, <2>1, FirstPlace
  <1> HIDE DEF J, H, before
  <1>9. CASE i = 0
    <2>1. t = dcms
      BY <1>5, <1>9
    <2>2. IsMove(dcms, here, here, t)
      BY <1>1, <1>3, <2>1 DEF IsMove, Origin
    <2>3. \A k \in 1 .. here - 1 : ~LessBusyDcm(d, dcms[k], idle)
      BY <1>7, <1>8, <1>9
    <2>4. here \in 1 .. here
      BY <1>3
    <2> HIDE DEF n
    <2> QED
      BY <1>1, <1>3, <2>1, <2>2, <2>3, <2>4 DEF t
  <1>10. CASE i # 0
    <2>1. i \in 1 .. here - 1 /\ LessBusyDcm(d, dcms[i], idle)
      BY <1>7, <1>8, <1>10
    <2>2. \A k \in 1 .. i - 1 : ~LessBusyDcm(d, dcms[k], idle)
      BY <1>3, <1>7, <1>8, <1>10, <2>1
    <2> DEFINE r == RemoveAt(dcms, here)
    <2>3. /\ r \in Seq(DCM) /\ Len(r) = n - 1
          /\ \A k \in 1 .. n - 1 : r[k] = IF k < here THEN dcms[k] ELSE dcms[k + 1]
      BY <1>3, RemoveAtFacts
    <2>4. t = InsertAt(r, i, d)
      BY <1>5, <1>10
    <2> HIDE DEF r, n
    <2>5. i \in 1 .. Len(r) + 1 /\ Len(r) + 1 = n
      BY <1>1, <1>3, <2>1, <2>3
    <2>6. /\ t \in Seq(DCM) /\ Len(t) = n
          /\ \A k \in 1 .. n : t[k] = IF k < i THEN r[k] ELSE IF k = i THEN d ELSE r[k - 1]
      <3>1. /\ InsertAt(r, i, d) \in Seq(DCM) /\ Len(InsertAt(r, i, d)) = Len(r) + 1
            /\ \A k \in 1 .. Len(r) + 1 : InsertAt(r, i, d)[k] = IF k < i THEN r[k] ELSE IF k = i THEN d ELSE r[k - 1]
        <4>1. r \in Seq(DCM) /\ i \in 1 .. Len(r) + 1 /\ d \in DCM
          BY <1>1, <2>3, <2>5
        <4>2. \A S : \A s \in Seq(S) : \A k \in 1 .. Len(s) + 1, e \in S : IsInsertion(s, k, e, InsertAt(s, k, e), S)
          BY InsertAtFacts
        <4>3. IsInsertion(r, i, d, InsertAt(r, i, d), DCM)
          BY <4>1, <4>2, Zenon
        <4> QED
          BY <4>3 DEF IsInsertion
      <3> QED
        BY <2>4, <2>5, <3>1
    <2>7. ASSUME NEW k \in 1 .. n PROVE t[k] = dcms[Origin(here, i, k)]
      <3>1. CASE k = i
        BY <1>3, <2>6, <3>1 DEF Origin
      <3>2. CASE k < i
        <4>1. k \in 1 .. n - 1 /\ k < here /\ Origin(here, i, k) = k
          BY <1>1, <1>3, <2>1, <3>2 DEF Origin
        <4> QED
          BY <2>3, <2>6, <3>2, <4>1
      <3>3. CASE i < k
        <4>1. /\ k - 1 \in 1 .. n - 1 /\ (k - 1) + 1 = k /\ k # i /\ ~(k < i)
              /\ Origin(here, i, k) = IF k - 1 < here THEN k - 1 ELSE k
          BY <1>1, <1>3, <2>1, <3>3 DEF Origin
        <4>2. t[k] = r[k - 1]
          BY <2>6, <4>1
        <4>3. r[k - 1] = IF k - 1 < here THEN dcms[k - 1] ELSE dcms[k]
          BY <2>3, <4>1
        <4> QED
          BY <4>1, <4>2, <4>3
      <3>4. k = i \/ k < i \/ i < k
        BY <2>1
      <3> QED
        BY <3>1, <3>2, <3>3, <3>4, Zenon
    <2>8. IsMove(dcms, here, i, t)
      BY <1>1, <2>6, <2>7 DEF IsMove, n
    <2>9. i \in 1 .. here
      BY <1>3, <2>1
    <2> QED
      BY <1>1, <1>3, <2>1, <2>2, <2>6, <2>8, <2>9 DEF t
  <1> QED
    BY <1>9, <1>10

LEMMA BackIsMove ==
  ASSUME dcms \in Seq(DCM), dcms # <<>>, NEW idle
  PROVE  /\ MovedBack(idle) \in Seq(DCM)
         /\ \E to \in DOMAIN dcms :
               /\ IsMove(dcms, 1, to, MovedBack(idle))
               /\ \A k \in 2 .. to : ~LessBusyDcm(dcms[1], dcms[k], idle)
               /\ to # Len(dcms) => LessBusyDcm(dcms[1], dcms[to + 1], idle)
  <1> DEFINE n == Len(dcms)
             rest == Tail(dcms)
             d == Head(dcms)
             i == SelectInSeq(rest, LAMBDA p : LessBusyDcm(d, p, idle))
             J == {k \in 1 .. Len(rest) : LessBusyDcm(d, rest[k], idle)}
             t == MovedBack(idle)
  <1>1. n \in Nat /\ n >= 1 /\ DOMAIN dcms = 1 .. n /\ d \in DCM /\ d = dcms[1]
    OBVIOUS
  <1>2. rest \in Seq(DCM) /\ Len(rest) = n - 1 /\ \A k \in 1 .. n - 1 : rest[k] = dcms[k + 1]
    OBVIOUS
  <1>3. i = IF J # {} THEN Min(J) ELSE 0
    BY DEF SelectInSeq
  <1>4. t = IF i = 0 THEN Append(rest, d) ELSE InsertAt(rest, i, d)
    BY DEF MovedBack
  <1> HIDE DEF i, d, t, n, rest
  <1>5. \A k : k \in J <=> k \in 1 .. n - 1 /\ LessBusyDcm(d, dcms[k + 1], idle)
    BY <1>2
  <1>6. /\ i = 0 => J = {}
        /\ i # 0 => i \in J /\ \A k \in 1 .. i - 1 : k \notin J
    <2>1. J \subseteq 1 .. n
      BY <1>1, <1>5
    <2> HIDE DEF J
    <2> QED
      BY <1>1, <1>3, <2>1, FirstPlace
  <1> HIDE DEF J
  <1>7. CASE i = 0
    <2>1. t = Append(rest, d)
      BY <1>4, <1>7
    <2>2. t \in Seq(DCM) /\ Len(t) = n /\ t[n] = d /\ \A k \in 1 .. n - 1 : t[k] = dcms[k + 1]
      BY <1>1, <1>2, <2>1
    <2>3. ASSUME NEW k \in 1 .. n PROVE t[k] = dcms[Origin(1, n, k)]
      <3>1. CASE k = n
        BY <1>1, <2>2, <3>1 DEF Origin
      <3>2. CASE k # n
        <4>1. k \in 1 .. n - 1 /\ Origin(1, n, k) = k + 1
          BY <1>1, <3>2 DEF Origin
        <4> QED
          BY <2>2, <4>1
      <3> QED
        BY <3>1, <3>2
    <2>4. IsMove(dcms, 1, n, t)
      BY <1>1, <2>2, <2>3 DEF IsMove, n
    <2>5. ASSUME NEW k \in 2 .. n PROVE ~LessBusyDcm(dcms[1], dcms[k], idle)
      <3>1. k - 1 \in 1 .. n - 1 /\ (k - 1) + 1 = k
        BY <1>1
      <3> QED
        BY <1>1, <1>5, <1>6, <1>7, <3>1
    <2>6. n \in DOMAIN dcms
      BY <1>1
    <2> QED
      BY <2>2, <2>4, <2>5, <2>6 DEF t, n
  <1>8. CASE i # 0
    <2>1. i \in 1 .. n - 1 /\ LessBusyDcm(d, dcms[i + 1], idle)
      BY <1>5, <1>6, <1>8
    <2>2. ASSUME NEW k \in 1 .. i - 1 PROVE ~LessBusyDcm(d, dcms[k + 1], idle)
      <3>1. k \in 1 .. n - 1 /\ k \notin J
        BY <1>1, <1>6, <1>8, <2>1
      <3> QED
        BY <1>5, <3>1
    <2>3. /\ t \in Seq(DCM) /\ Len(t) = n
          /\ \A k \in 1 .. n : t[k] = IF k < i THEN rest[k] ELSE IF k = i THEN d ELSE rest[k - 1]
      <3>1. t = InsertAt(rest, i, d) /\ i \in 1 .. Len(rest) + 1 /\ Len(rest) + 1 = n
        BY <1>1, <1>2, <1>4, <1>8, <2>1
      <3>2. /\ InsertAt(rest, i, d) \in Seq(DCM) /\ Len(InsertAt(rest, i, d)) = Len(rest) + 1
            /\ \A k \in 1 .. Len(rest) + 1 : InsertAt(rest, i, d)[k] = IF k < i THEN rest[k] ELSE IF k = i THEN d ELSE rest[k - 1]
        <4>1. rest \in Seq(DCM) /\ i \in 1 .. Len(rest) + 1 /\ d \in DCM
          BY <1>1, <1>2, <3>1
        <4>2. \A S : \A s \in Seq(S) : \A k \in 1 .. Len(s) + 1, e \in S : IsInsertion(s, k, e, InsertAt(s, k, e), S)
          BY InsertAtFacts
        <4>3. IsInsertion(rest, i, d, InsertAt(rest, i, d), DCM)
          BY <4>1, <4>2, Zenon
        <4> QED
          BY <4>3 DEF IsInsertion
      <3> QED
        BY <3>1, <3>2
    <2>4. ASSUME NEW k \in 1 .. n PROVE t[k] = dcms[Origin(1, i, k)]
      <3>1. CASE k = i
        BY <1>1, <2>3, <3>1 DEF Origin
      <3>2. CASE k < i
        <4>1. k \in 1 .. n - 1 /\ Origin(1, i, k) = k + 1
          BY <1>1, <2>1, <3>2 DEF Origin
        <4> QED
          BY <1>2, <2>3, <3>2, <4>1
      <3>3. CASE i < k
        <4>1. k - 1 \in 1 .. n - 1 /\ (k - 1) + 1 = k /\ k # i /\ ~(k < i) /\ Origin(1, i, k) = k
          BY <1>1, <2>1, <3>3 DEF Origin
        <4>2. t[k] = rest[k - 1]
          BY <2>3, <4>1
        <4> QED
          BY <1>2, <4>1, <4>2
      <3>4. k = i \/ k < i \/ i < k
        BY <2>1
      <3> QED
        BY <3>1, <3>2, <3>3, <3>4, Zenon
    <2>5. IsMove(dcms, 1, i, t)
      BY <1>1, <2>3, <2>4 DEF IsMove, n
    <2>6. ASSUME NEW k \in 2 .. i PROVE ~LessBusyDcm(dcms[1], dcms[k], idle)
      <3>1. k - 1 \in 1 .. i - 1 /\ (k - 1) + 1 = k
        BY <2>1
      <3> QED
        BY <1>1, <2>2, <3>1
    <2>7. i \in DOMAIN dcms /\ LessBusyDcm(dcms[1], dcms[i + 1], idle)
      BY <1>1, <2>1
    <2> QED
      BY <2>3, <2>5, <2>6, <2>7 DEF t
  <1> QED
    BY <1>7, <1>8

(* The number of busy PUs of each DCM, by which the list is sorted.        *)
Load(idle) == [d \in DCM |-> BusyPus(d, idle)]

LEMMA LoadIsInt ==
  ASSUME NEW idle \in [DCM -> Seq(PU)]
  PROVE  Load(idle) \in [DCM -> Int] /\ \A d \in DCM : Load(idle)[d] = PusPerDcm[d] - Len(idle[d])
  <1>1. ASSUME NEW d \in DCM PROVE BusyPus(d, idle) \in Int /\ BusyPus(d, idle) = PusPerDcm[d] - Len(idle[d])
    <2>1. PusPerDcm[d] \in Nat
      BY FirstPuCounts
    <2>2. idle[d] \in Seq(PU)
      OBVIOUS
    <2> QED
      BY <2>1, <2>2 DEF BusyPus
  <1> QED
    BY <1>1 DEF Load

(* setIdlePu: a DCM that has become less busy moves forward.               *)
LEMMA ForwardKeeps ==
  ASSUME dcms \in Seq(DCM), ToSet(dcms) = DCM, Distinct(dcms), NEW d \in DCM, NEW idle,
         NEW b \in [DCM -> Int], Load(idle) \in [DCM -> Int], Sorted(dcms, b),
         Load(idle)[d] <= b[d], \A e \in DCM : e # d => Load(idle)[e] = b[e]
  PROVE  /\ MovedForward(d, idle) \in Seq(DCM) /\ Len(MovedForward(d, idle)) = Len(dcms)
         /\ Distinct(MovedForward(d, idle)) /\ ToSet(MovedForward(d, idle)) = DCM
         /\ Sorted(MovedForward(d, idle), Load(idle))
  <1> DEFINE n == Len(dcms)
             t == MovedForward(d, idle)
             c == Load(idle)
  <1>1. n \in Nat /\ DOMAIN dcms = 1 .. n /\ \A k \in 1 .. n : dcms[k] \in DCM
    OBVIOUS
  <1>2. d \in ToSet(dcms)
    OBVIOUS
  <1>3. t \in Seq(DCM)
    BY <1>2, ForwardIsMove
  <1>4a. PICK here \in DOMAIN dcms :
          \E to \in 1 .. here :
            /\ dcms[here] = d
            /\ IsMove(dcms, here, to, t)
            /\ \A k \in 1 .. to - 1 : ~LessBusyDcm(d, dcms[k], idle)
            /\ to # here => LessBusyDcm(d, dcms[to], idle)
    BY <1>2, ForwardIsMove
  <1>4. PICK to \in 1 .. here :
          /\ dcms[here] = d
          /\ IsMove(dcms, here, to, t)
          /\ \A k \in 1 .. to - 1 : ~LessBusyDcm(d, dcms[k], idle)
          /\ to # here => LessBusyDcm(d, dcms[to], idle)
    BY <1>4a
  <1> HIDE DEF t, n
  <1>5. here \in 1 .. n /\ to \in 1 .. n /\ to <= here
    BY <1>1, <1>4
  <1>6. \A e, f \in DCM : LessBusyDcm(e, f, idle) <=> c[e] < c[f]
    BY DEF LessBusyDcm, Load
  <1> HIDE DEF c
  <1>7. /\ \A k \in 1 .. n : k # here => c[dcms[k]] = b[dcms[k]]
        /\ \A k, l \in 1 .. n : k < l => b[dcms[k]] <= b[dcms[l]]
        /\ c[d] <= b[d] /\ c \in [DCM -> Int]
    BY <1>1, <1>4, <1>5 DEF Distinct, Sorted, c
  <1>8. ASSUME NEW k \in 1 .. n, k # here, k < to \/ (k = to /\ here < to) PROVE c[dcms[k]] <= c[dcms[here]]
    <2>1. k \in 1 .. to - 1 /\ c[dcms[k]] \in Int /\ c[d] \in Int
      BY <1>1, <1>5, <1>7, <1>8
    <2>2. ~(c[d] < c[dcms[k]])
      BY <1>1, <1>4, <1>6, <2>1
    <2>3. dcms[here] = d
      BY <1>4
    <2> DEFINE u == c[dcms[k]]
               v == c[d]
    <2>4. u \in Int /\ v \in Int /\ ~(v < u)
      BY <2>1, <2>2
    <2> HIDE DEF u, v
    <2>5. u <= v
      BY <2>4
    <2> QED
      BY <2>3, <2>5 DEF u, v
  <1>9. ASSUME NEW k \in 1 .. n, k # here, k > to \/ (k = to /\ to < here) PROVE c[dcms[here]] <= c[dcms[k]]
    <2>0. /\ c[dcms[k]] = b[dcms[k]] /\ c[dcms[k]] \in Int /\ c[d] \in Int /\ b[d] \in Int
          /\ b[dcms[to]] \in Int /\ k \in Int /\ here \in Int /\ to \in Int
      BY <1>1, <1>5, <1>7, <1>9
    <2>1. CASE k > here
      <3>1. b[d] <= b[dcms[k]]
        BY <1>4, <1>5, <1>7, <2>1
      <3>2. dcms[here] = d /\ c[d] <= b[d]
        BY <1>4, <1>7
      <3>3. c[d] <= c[dcms[k]]
        BY <2>0, <3>1, <3>2
      <3> QED
        BY <3>2, <3>3
    <2>2. CASE ~(k > here)
      <3>1. to # here /\ to <= k
        <4>1. k <= here /\ k # here /\ (k > to \/ (k = to /\ to < here))
          BY <1>9, <2>0, <2>2
        <4> QED
          BY <2>0, <4>1
      <3>2. c[d] < c[dcms[to]] /\ c[dcms[to]] = b[dcms[to]]
        BY <1>1, <1>4, <1>5, <1>6, <1>7, <3>1
      <3>3. b[dcms[to]] <= b[dcms[k]]
        <4>1. CASE to = k
          BY <2>0, <4>1
        <4>2. CASE to # k
          <5>1. to < k
            BY <2>0, <3>1, <4>2
          <5> QED
            BY <1>5, <1>7, <5>1
        <4> QED
          BY <4>1, <4>2
      <3>4. c[d] < b[dcms[to]]
        BY <3>2
      <3>5. dcms[here] = d
        BY <1>4
      <3> DEFINE u == c[d]
                 v == b[dcms[to]]
                 w == c[dcms[k]]
      <3>6. u \in Int /\ v \in Int /\ w \in Int /\ u < v /\ v <= w
        BY <2>0, <3>3, <3>4
      <3> HIDE DEF u, v, w
      <3>7. u <= w
        BY <3>6
      <3> QED
        BY <3>5, <3>7 DEF u, w
    <2> QED
      BY <2>1, <2>2
  <1>10. Sorted(t, c)
    <2>1. here \in DOMAIN dcms /\ to \in DOMAIN dcms
      BY <1>1, <1>5
    <2>2. \A k \in DOMAIN dcms : k # here => c[dcms[k]] = b[dcms[k]]
      BY <1>1, <1>7
    <2>3. \A k \in DOMAIN dcms : k # here /\ (k < to \/ (k = to /\ here < to)) => c[dcms[k]] <= c[dcms[here]]
      BY <1>1, <1>8
    <2>4. \A k \in DOMAIN dcms : k # here /\ (k > to \/ (k = to /\ to < here)) => c[dcms[here]] <= c[dcms[k]]
      BY <1>1, <1>9
    <2>5. c \in [DCM -> Int] /\ IsMove(dcms, here, to, t)
      BY <1>4, <1>7
    <2>6. Fits(dcms, here, to, b, c)
      BY <2>2, <2>3, <2>4 DEF Fits
    <2> QED
      BY <1>3, <2>1, <2>5, <2>6, RepairSorts
  <1>11. Distinct(t) /\ ToSet(t) = ToSet(dcms)
    BY <1>1, <1>3, <1>4, <1>5, MoveKeepsElements
  <1>12. Len(t) = Len(dcms)
    BY <1>4 DEF IsMove
  <1> QED
    BY <1>3, <1>10, <1>11, <1>12 DEF t, c

(* setNextPuBusy: the front DCM moves back.                                *)
LEMMA BackKeeps ==
  ASSUME dcms \in Seq(DCM), ToSet(dcms) = DCM, Distinct(dcms), dcms # <<>>, NEW idle,
         NEW b \in [DCM -> Int], Load(idle) \in [DCM -> Int], Sorted(dcms, b),
         \A e \in DCM : e # Head(dcms) => Load(idle)[e] = b[e]
  PROVE  /\ MovedBack(idle) \in Seq(DCM) /\ Len(MovedBack(idle)) = Len(dcms)
         /\ Distinct(MovedBack(idle)) /\ ToSet(MovedBack(idle)) = DCM
         /\ Sorted(MovedBack(idle), Load(idle))
  <1> DEFINE n == Len(dcms)
             t == MovedBack(idle)
             c == Load(idle)
             d == dcms[1]
  <1>1. n \in Nat /\ n >= 1 /\ DOMAIN dcms = 1 .. n /\ (\A k \in 1 .. n : dcms[k] \in DCM) /\ Head(dcms) = d /\ d \in DCM
    OBVIOUS
  <1>3. t \in Seq(DCM)
    BY BackIsMove
  <1>4. PICK to \in DOMAIN dcms :
          /\ IsMove(dcms, 1, to, t)
          /\ \A k \in 2 .. to : ~LessBusyDcm(dcms[1], dcms[k], idle)
          /\ to # Len(dcms) => LessBusyDcm(dcms[1], dcms[to + 1], idle)
    BY BackIsMove
  <1>5. to \in 1 .. n /\ 1 \in 1 .. n
    BY <1>1
  <1>6. \A e, f \in DCM : LessBusyDcm(e, f, idle) <=> c[e] < c[f]
    BY DEF LessBusyDcm, Load
  <1> HIDE DEF c, t
  <1>7. /\ \A k \in 1 .. n : k # 1 => c[dcms[k]] = b[dcms[k]]
        /\ \A k, l \in 1 .. n : k < l => b[dcms[k]] <= b[dcms[l]]
        /\ c \in [DCM -> Int]
    BY <1>1, <1>5 DEF Distinct, Sorted, c
  <1>8. ASSUME NEW k \in 1 .. n, k # 1, k < to \/ (k = to /\ 1 < to) PROVE c[dcms[k]] <= c[dcms[1]]
    <2>1. k \in 2 .. to /\ c[dcms[k]] \in Int /\ c[d] \in Int
      BY SMTT(30), <1>1, <1>5, <1>7, <1>8
    <2>2. ~(c[d] < c[dcms[k]])
      BY <1>1, <1>4, <1>6, <2>1
    <2> QED
      BY SMTT(30), <2>1, <2>2
  <1>9. ASSUME NEW k \in 1 .. n, k # 1, k > to \/ (k = to /\ to < 1) PROVE c[dcms[1]] <= c[dcms[k]]
    <2>1. k > to /\ to # n /\ to + 1 \in 1 .. n /\ to + 1 # 1 /\ to + 1 <= k
      BY SMTT(30), <1>1, <1>5, <1>9
    <2>2. c[d] < c[dcms[to + 1]]
      BY <1>1, <1>4, <1>6, <2>1
    <2>3. c[dcms[to + 1]] = b[dcms[to + 1]] /\ c[dcms[k]] = b[dcms[k]]
      BY <1>7, <1>9, <2>1
    <2>4. c[d] \in Int /\ b[dcms[to + 1]] \in Int /\ b[dcms[k]] \in Int
      BY <1>1, <1>7, <2>1
    <2>5. b[dcms[to + 1]] <= b[dcms[k]]
      <3>1. CASE to + 1 = k
        BY <2>4, <3>1
      <3>2. CASE to + 1 # k
        <4>1. to + 1 < k
          BY <1>1, <2>1, <3>2
        <4> QED
          BY <1>7, <2>1, <4>1
      <3> QED
        BY <3>1, <3>2
    <2> DEFINE u == c[d]
               v == b[dcms[to + 1]]
               w == c[dcms[k]]
    <2>6. u \in Int /\ v \in Int /\ w \in Int /\ u < v /\ v <= w
      BY <2>2, <2>3, <2>4, <2>5
    <2> HIDE DEF u, v, w
    <2>7. u <= w
      BY <2>6
    <2> QED
      BY <2>7 DEF u, w
  <1>10. Sorted(t, c)
    <2>1. 1 \in DOMAIN dcms
      BY <1>1
    <2>2. \A k \in DOMAIN dcms : k # 1 => c[dcms[k]] = b[dcms[k]]
      BY <1>1, <1>7
    <2>3. \A k \in DOMAIN dcms : k # 1 /\ (k < to \/ (k = to /\ 1 < to)) => c[dcms[k]] <= c[dcms[1]]
      BY <1>1, <1>8
    <2>4. \A k \in DOMAIN dcms : k # 1 /\ (k > to \/ (k = to /\ to < 1)) => c[dcms[1]] <= c[dcms[k]]
      BY <1>1, <1>9
    <2>5. c \in [DCM -> Int] /\ IsMove(dcms, 1, to, t)
      BY <1>4, <1>7
    <2>6. Fits(dcms, 1, to, b, c)
      BY <2>2, <2>3, <2>4 DEF Fits
    <2> QED
      BY <1>3, <2>1, <2>5, <2>6, RepairSorts
  <1>11. Distinct(t) /\ ToSet(t) = ToSet(dcms)
    <2>1. 1 \in DOMAIN dcms
      BY <1>1
    <2> QED
      BY <1>3, <1>4, <2>1, MoveKeepsElements
  <1>12. Len(t) = Len(dcms)
    BY <1>4 DEF IsMove
  <1> QED
    BY <1>3, <1>10, <1>11, <1>12 DEF t, c

LEMMA SortedIsByLoad ==
  ASSUME NEW s \in Seq(DCM), NEW idle
  PROVE  (\A i, j \in DOMAIN s : i < j => BusyPus(s[i], idle) <= BusyPus(s[j], idle)) <=> Sorted(s, Load(idle))
  <1>1. \A i \in DOMAIN s : Load(idle)[s[i]] = BusyPus(s[i], idle)
    <2>1. \A i \in DOMAIN s : s[i] \in DCM
      OBVIOUS
    <2> QED
      BY <2>1 DEF Load
  <1> QED
    BY <1>1, Zenon DEF Sorted

-----------------------------------------------------------------------------
(* The idle lists.                                                         *)

LEMMA ListGrows ==
  ASSUME NEW S, NEW s \in Seq(S), NEW e \in S, e \notin ToSet(s), Distinct(s)
  PROVE  /\ Append(s, e) \in Seq(S) /\ Len(Append(s, e)) = Len(s) + 1
         /\ Distinct(Append(s, e)) /\ ToSet(Append(s, e)) = ToSet(s) \cup {e}
  <1> DEFINE t == Append(s, e)
             n == Len(s)
  <1>1. /\ n \in Nat /\ DOMAIN s = 1 .. n /\ t \in Seq(S) /\ Len(t) = n + 1 /\ DOMAIN t = 1 .. n + 1
        /\ t[n + 1] = e /\ \A k \in 1 .. n : t[k] = s[k]
    OBVIOUS
  <1>2. \A k \in 1 .. n : s[k] # e
    BY DEF ToSet
  <1>3. \A j, k \in 1 .. n : s[j] = s[k] => j = k
    BY <1>1 DEF Distinct
  <1> HIDE DEF t, n
  <1>4. \A k \in 1 .. n + 1 : k \in 1 .. n \/ k = n + 1
    BY <1>1
  <1>5. Distinct(t)
    BY <1>1, <1>2, <1>3, <1>4 DEF Distinct
  <1>6. ToSet(t) = ToSet(s) \cup {e}
    <2>1. \A k \in 1 .. n : k \in 1 .. n + 1
      BY <1>1
    <2>2. n + 1 \in 1 .. n + 1
      BY <1>1
    <2> QED
      BY <1>1, <1>4, <2>1, <2>2 DEF ToSet
  <1> QED
    BY <1>1, <1>5, <1>6 DEF t, n

LEMMA ListShrinks ==
  ASSUME NEW S, NEW s \in Seq(S), s # <<>>, Distinct(s)
  PROVE  /\ Tail(s) \in Seq(S) /\ Len(Tail(s)) = Len(s) - 1
         /\ Distinct(Tail(s)) /\ ToSet(Tail(s)) = ToSet(s) \ {Head(s)} /\ Head(s) \in ToSet(s)
  <1> DEFINE t == Tail(s)
             n == Len(s)
  <1>1. /\ n \in Nat /\ n >= 1 /\ DOMAIN s = 1 .. n /\ t \in Seq(S) /\ Len(t) = n - 1 /\ DOMAIN t = 1 .. n - 1
        /\ Head(s) = s[1] /\ \A k \in 1 .. n - 1 : t[k] = s[k + 1]
    OBVIOUS
  <1>2. \A j, k \in 1 .. n : s[j] = s[k] => j = k
    BY <1>1 DEF Distinct
  <1> HIDE DEF t, n
  <1>3. ASSUME NEW j \in 1 .. n - 1, NEW k \in 1 .. n - 1, t[j] = t[k] PROVE j = k
    <2>1. j + 1 \in 1 .. n /\ k + 1 \in 1 .. n /\ s[j + 1] = s[k + 1]
      BY <1>1, <1>3
    <2>2. j + 1 = k + 1
      BY <1>2, <2>1
    <2> QED
      BY <2>2
  <1>4. Distinct(t)
    BY <1>1, <1>3 DEF Distinct
  <1>5. ASSUME NEW e PROVE e \in ToSet(t) <=> e \in ToSet(s) \ {Head(s)}
    <2>1. ASSUME e \in ToSet(t) PROVE e \in ToSet(s) \ {Head(s)}
      <3>1. PICK k \in 1 .. n - 1 : e = t[k]
        BY <1>1, <2>1 DEF ToSet
      <3>2. k + 1 \in 1 .. n /\ k + 1 # 1 /\ e = s[k + 1] /\ 1 \in 1 .. n
        BY <1>1, <3>1
      <3> QED
        BY <1>1, <1>2, <3>2 DEF ToSet
    <2>2. ASSUME e \in ToSet(s) \ {Head(s)} PROVE e \in ToSet(t)
      <3>1. PICK k \in 1 .. n : e = s[k]
        BY <1>1, <2>2 DEF ToSet
      <3>2. k - 1 \in 1 .. n - 1 /\ e = t[k - 1]
        <4>1. k # 1
          BY <1>1, <2>2, <3>1
        <4>2. k - 1 \in 1 .. n - 1 /\ (k - 1) + 1 = k
          BY <1>1, <4>1
        <4> QED
          BY <1>1, <3>1, <4>2
      <3> QED
        BY <1>1, <3>2 DEF ToSet
    <2> QED
      BY <2>1, <2>2
  <1>6. Head(s) \in ToSet(s)
    BY <1>1 DEF ToSet
  <1> QED
    BY <1>1, <1>4, <1>5, <1>6 DEF t, n

-----------------------------------------------------------------------------
(* The strategy's two operations.                                          *)

StrategyTyped ==
    /\ dcms \in Seq(DCM)
    /\ idlePUIds \in [DCM -> Seq(PU)]
    /\ totalIdlePus \in Nat
    /\ working \subseteq PU

StrategyIInv == StrategyTyped /\ SortedByLoad /\ IdleListsExact /\ NothingTwice

(* The invariant gives the front DCM, and what each list holds.            *)
LEMMA FrontDcm ==
  ASSUME StrategyIInv
  PROVE  dcms # <<>> /\ Head(dcms) \in DCM /\ Head(dcms) = dcms[1] /\ 1 \in DOMAIN dcms
  <1>1. dcms \in Seq(DCM) /\ Len(dcms) = Len(PusPerDcm) /\ Len(PusPerDcm) \in Nat \ {0}
    BY FirstPuCounts DEF StrategyIInv, StrategyTyped, SortedByLoad
  <1> QED
    BY <1>1

LEMMA ListHolds ==
  ASSUME StrategyIInv, NEW d \in DCM
  PROVE  /\ idlePUIds[d] \in Seq(PU) /\ Distinct(idlePUIds[d])
         /\ ToSet(idlePUIds[d]) = PusOf[d] \ working
         /\ IsFiniteSet(PusOf[d] \ working) /\ Len(idlePUIds[d]) = Cardinality(PusOf[d] \ working)
  <1>1. IsFiniteSet(PusOf[d])
    BY EachPuHasItsDcm
  <1>2. IsFiniteSet(PusOf[d] \ working)
    BY <1>1, FS_Subset
  <1> QED
    BY <1>2 DEF StrategyIInv, StrategyTyped, IdleListsExact, NothingTwice

LEMMA PusFinite == IsFiniteSet(PU)
  <1>1. /\ PU = 0 .. FirstPu[Len(PusPerDcm) + 1] - 1
        /\ FirstPu[Len(PusPerDcm) + 1] \in Nat
    BY EachPuHasItsDcm, FirstPuCounts
  <1>2. 0 \in Int /\ FirstPu[Len(PusPerDcm) + 1] - 1 \in Int
    BY <1>1
  <1> QED
    BY <1>1, <1>2, FS_Interval

LEMMA IdleKeeps ==
  ASSUME StrategyIInv, NEW pu \in working, setIdlePu(pu), working' = working \ {pu}
  PROVE  StrategyIInv' /\ totalIdlePus' = totalIdlePus + 1
  <1> DEFINE d == DcmIndex[pu]
             idle == [idlePUIds EXCEPT ![d] = Append(idlePUIds[d], pu)]
  <1>0. StrategyTyped /\ SortedByLoad /\ IdleListsExact /\ NothingTwice
    BY DEF StrategyIInv
  <1>1. dcms \in Seq(DCM) /\ idlePUIds \in [DCM -> Seq(PU)] /\ totalIdlePus \in Nat /\ working \subseteq PU
    BY <1>0 DEF StrategyTyped
  <1>2. d \in DCM /\ pu \in PU /\ pu \in PusOf[d] /\ \A e \in DCM : pu \in PusOf[e] => e = d
    BY <1>1, EachPuHasItsDcm
  <1>3. idlePUIds' = idle /\ totalIdlePus' = totalIdlePus + 1 /\ dcms' = MovedForward(d, idle)
    BY DEF setIdlePu, MarkedIdle
  <1> HIDE DEF d
  <1>4. /\ idlePUIds[d] \in Seq(PU) /\ Distinct(idlePUIds[d])
        /\ ToSet(idlePUIds[d]) = PusOf[d] \ working
        /\ IsFiniteSet(PusOf[d] \ working) /\ Len(idlePUIds[d]) = Cardinality(PusOf[d] \ working)
    BY <1>2, ListHolds
  <1>5. LET s == Append(idlePUIds[d], pu)
        IN  s \in Seq(PU) /\ Len(s) = Len(idlePUIds[d]) + 1 /\ Distinct(s) /\ ToSet(s) = ToSet(idlePUIds[d]) \cup {pu}
    <2>1. pu \notin ToSet(idlePUIds[d])
      BY <1>4
    <2> QED
      BY <1>2, <1>4, <2>1, ListGrows
  <1>6. idle \in [DCM -> Seq(PU)] /\ idle[d] = Append(idlePUIds[d], pu) /\ \A e \in DCM : e # d => idle[e] = idlePUIds[e]
    BY <1>1, <1>2, <1>5
  <1> HIDE DEF idle
  <1>7. StrategyTyped' /\ SortedByLoad' /\ Distinct(dcms)'
    <2>1. ToSet(dcms) = DCM /\ Len(dcms) = Len(PusPerDcm) /\ Sorted(dcms, Load(idlePUIds)) /\ Distinct(dcms)
      BY <1>0, <1>1, SortedIsByLoad DEF SortedByLoad, NothingTwice
    <2>2. /\ Load(idlePUIds) \in [DCM -> Int] /\ Load(idle) \in [DCM -> Int]
          /\ \A e \in DCM : Load(idlePUIds)[e] = PusPerDcm[e] - Len(idlePUIds[e])
          /\ \A e \in DCM : Load(idle)[e] = PusPerDcm[e] - Len(idle[e])
      BY <1>1, <1>6, LoadIsInt
    <2>3. Load(idle)[d] <= Load(idlePUIds)[d]
      <3>1. PusPerDcm[d] \in Nat /\ Len(idlePUIds[d]) \in Nat
        BY <1>2, <1>4, FirstPuCounts
      <3> QED
        BY <1>2, <1>5, <1>6, <2>2, <3>1
    <2>4. \A e \in DCM : e # d => Load(idle)[e] = Load(idlePUIds)[e]
      BY <1>6, <2>2
    <2>5. /\ MovedForward(d, idle) \in Seq(DCM) /\ Len(MovedForward(d, idle)) = Len(dcms)
          /\ Distinct(MovedForward(d, idle)) /\ ToSet(MovedForward(d, idle)) = DCM
          /\ Sorted(MovedForward(d, idle), Load(idle))
      BY <1>1, <1>2, <2>1, <2>2, <2>3, <2>4, ForwardKeeps
    <2>6. working' \subseteq PU /\ totalIdlePus' \in Nat
      BY <1>1, <1>3
    <2>7. StrategyTyped'
      BY <1>3, <1>6, <2>5, <2>6 DEF StrategyTyped
    <2>8. SortedByLoad'
      BY <1>3, <2>1, <2>5, SortedIsByLoad DEF SortedByLoad
    <2> QED
      BY <1>3, <2>5, <2>7, <2>8
  <1>8. ASSUME NEW e \in DCM
        PROVE  /\ Distinct(idle[e])
               /\ ToSet(idle[e]) = PusOf[e] \ working' /\ Len(idle[e]) = Cardinality(PusOf[e] \ working')
    <2>1. CASE e = d
      <3>1. PusOf[d] \ working' = (PusOf[d] \ working) \cup {pu} /\ pu \notin PusOf[d] \ working
        BY <1>2
      <3>2. Cardinality(PusOf[d] \ working') = Cardinality(PusOf[d] \ working) + 1
        BY ZenonT(60), <1>4, <3>1, FS_AddElement
      <3> QED
        BY <1>4, <1>5, <1>6, <2>1, <3>1, <3>2
    <2>2. CASE e # d
      <3>1. PusOf[e] \ working' = PusOf[e] \ working
        BY <1>2, <2>2
      <3>2. /\ Distinct(idlePUIds[e]) /\ ToSet(idlePUIds[e]) = PusOf[e] \ working
            /\ Len(idlePUIds[e]) = Cardinality(PusOf[e] \ working)
        BY ListHolds
      <3> QED
        BY <1>6, <2>2, <3>1, <3>2
    <2> QED
      BY <2>1, <2>2
  <1>9. totalIdlePus' = Cardinality(PU \ working')
    <2>1. PU \ working' = (PU \ working) \cup {pu} /\ pu \notin PU \ working
      BY <1>2
    <2>2. IsFiniteSet(PU \ working)
      BY PusFinite, FS_Subset
    <2>3. Cardinality(PU \ working') = Cardinality(PU \ working) + 1
      BY <2>1, <2>2, FS_AddElement
    <2> QED
      BY <1>0, <1>3, <2>3 DEF IdleListsExact
  <1>10. IdleListsExact' /\ NothingTwice'
    BY <1>3, <1>7, <1>8, <1>9 DEF IdleListsExact, NothingTwice
  <1> QED
    BY <1>3, <1>7, <1>10 DEF StrategyIInv

LEMMA BusyKeeps ==
  ASSUME StrategyIInv, NEW pu, setNextPuBusy(pu), working' = working \cup {pu}
  PROVE  StrategyIInv' /\ totalIdlePus' = totalIdlePus - 1
  <1> DEFINE d == Head(dcms)
             idle == [idlePUIds EXCEPT ![d] = Tail(idlePUIds[d])]
  <1>0. StrategyTyped /\ SortedByLoad /\ IdleListsExact /\ NothingTwice
    BY DEF StrategyIInv
  <1>1. dcms \in Seq(DCM) /\ idlePUIds \in [DCM -> Seq(PU)] /\ totalIdlePus \in Nat /\ working \subseteq PU
    BY <1>0 DEF StrategyTyped
  <1>2. dcms # <<>> /\ d \in DCM
    BY FrontDcm
  <1>3. /\ idlePUIds' = idle /\ totalIdlePus' = totalIdlePus - 1 /\ dcms' = MovedBack(idle)
        /\ idlePUIds[d] # <<>> /\ pu = Head(idlePUIds[d])
    BY DEF setNextPuBusy, MarkedBusy
  <1> HIDE DEF d
  <1>4. /\ idlePUIds[d] \in Seq(PU) /\ Distinct(idlePUIds[d])
        /\ ToSet(idlePUIds[d]) = PusOf[d] \ working
        /\ IsFiniteSet(PusOf[d] \ working) /\ Len(idlePUIds[d]) = Cardinality(PusOf[d] \ working)
    BY <1>2, ListHolds
  <1>5. LET s == Tail(idlePUIds[d])
        IN  s \in Seq(PU) /\ Len(s) = Len(idlePUIds[d]) - 1 /\ Distinct(s) /\ ToSet(s) = ToSet(idlePUIds[d]) \ {pu}
    BY <1>3, <1>4, ListShrinks
  <1>5a. pu \in PusOf[d] \ working
    BY <1>3, <1>4, ListShrinks
  <1>5b. pu \in PU /\ pu \notin working /\ \A e \in DCM : pu \in PusOf[e] => e = d
    BY <1>2, <1>5a, EachPuHasItsDcm
  <1>6. idle \in [DCM -> Seq(PU)] /\ idle[d] = Tail(idlePUIds[d]) /\ \A e \in DCM : e # d => idle[e] = idlePUIds[e]
    BY <1>1, <1>2, <1>5
  <1> HIDE DEF idle
  <1>7. totalIdlePus' = Cardinality(PU \ working') /\ totalIdlePus' \in Nat
    <2>1. PU \ working' = (PU \ working) \ {pu} /\ pu \in PU \ working
      BY <1>5b
    <2>2. IsFiniteSet(PU \ working)
      BY PusFinite, FS_Subset
    <2>3. Cardinality(PU \ working') = Cardinality(PU \ working) - 1 /\ IsFiniteSet(PU \ working')
      BY <2>1, <2>2, FS_RemoveElement
    <2>4. Cardinality(PU \ working') \in Nat
      BY <2>3, FS_CardinalityType
    <2> QED
      BY <1>0, <1>3, <2>3, <2>4 DEF IdleListsExact
  <1>8. StrategyTyped' /\ SortedByLoad' /\ Distinct(dcms)'
    <2>1. ToSet(dcms) = DCM /\ Len(dcms) = Len(PusPerDcm) /\ Sorted(dcms, Load(idlePUIds)) /\ Distinct(dcms)
      BY <1>0, <1>1, SortedIsByLoad DEF SortedByLoad, NothingTwice
    <2>2. /\ Load(idlePUIds) \in [DCM -> Int] /\ Load(idle) \in [DCM -> Int]
          /\ \A e \in DCM : Load(idlePUIds)[e] = PusPerDcm[e] - Len(idlePUIds[e])
          /\ \A e \in DCM : Load(idle)[e] = PusPerDcm[e] - Len(idle[e])
      BY <1>1, <1>6, LoadIsInt
    <2>3. \A e \in DCM : e # Head(dcms) => Load(idle)[e] = Load(idlePUIds)[e]
      BY <1>6, <2>2 DEF d
    <2>4. /\ MovedBack(idle) \in Seq(DCM) /\ Len(MovedBack(idle)) = Len(dcms)
          /\ Distinct(MovedBack(idle)) /\ ToSet(MovedBack(idle)) = DCM
          /\ Sorted(MovedBack(idle), Load(idle))
      BY <1>1, <1>2, <2>1, <2>2, <2>3, BackKeeps
    <2>5. working' \subseteq PU
      BY <1>1, <1>5b
    <2>6. StrategyTyped'
      BY <1>3, <1>6, <1>7, <2>4, <2>5 DEF StrategyTyped
    <2>7. SortedByLoad'
      BY <1>3, <2>1, <2>4, SortedIsByLoad DEF SortedByLoad
    <2> QED
      BY <1>3, <2>4, <2>6, <2>7
  <1>9. ASSUME NEW e \in DCM
        PROVE  /\ Distinct(idle[e])
               /\ ToSet(idle[e]) = PusOf[e] \ working' /\ Len(idle[e]) = Cardinality(PusOf[e] \ working')
    <2>1. CASE e = d
      <3>1. PusOf[d] \ working' = (PusOf[d] \ working) \ {pu}
        BY <1>5b
      <3>2. Cardinality(PusOf[d] \ working') = Cardinality(PusOf[d] \ working) - 1
        BY ZenonT(60), <1>4, <1>5a, <3>1, FS_RemoveElement
      <3> QED
        BY <1>4, <1>5, <1>6, <2>1, <3>1, <3>2
    <2>2. CASE e # d
      <3>1. PusOf[e] \ working' = PusOf[e] \ working
        BY <1>5b, <2>2
      <3>2. /\ Distinct(idlePUIds[e]) /\ ToSet(idlePUIds[e]) = PusOf[e] \ working
            /\ Len(idlePUIds[e]) = Cardinality(PusOf[e] \ working)
        BY ListHolds
      <3> QED
        BY <1>6, <2>2, <3>1, <3>2
    <2> QED
      BY <2>1, <2>2
  <1>10. IdleListsExact' /\ NothingTwice'
    BY <1>3, <1>7, <1>8, <1>9 DEF IdleListsExact, NothingTwice
  <1> QED
    BY <1>3, <1>8, <1>10 DEF StrategyIInv

-----------------------------------------------------------------------------
(* The initial states.                                                     *)

LEMMA StrategyInit == Init => StrategyIInv
  <1> SUFFICES ASSUME Init PROVE StrategyIInv
    OBVIOUS
  <1> DEFINE n == Len(PusPerDcm)
  <1>1. /\ n \in Nat \ {0} /\ DCM = 1 .. n /\ FirstPu \in [1 .. n + 1 -> Nat]
        /\ \A d \in DCM : PusPerDcm[d] \in Nat \ {0}
    BY FirstPuCounts
  <1>2. /\ dcms = [d \in DCM |-> d]
        /\ idlePUIds = [d \in DCM |-> [i \in 1 .. PusPerDcm[d] |-> FirstPu[d] + i - 1]]
        /\ totalIdlePus = FirstPu[n + 1] /\ working = {}
    BY DEF Init
  <1> HIDE DEF n
  <1>3. ASSUME NEW d \in DCM
        PROVE  /\ idlePUIds[d] \in Seq(PU) /\ Distinct(idlePUIds[d])
               /\ ToSet(idlePUIds[d]) = PusOf[d] \ working /\ Len(idlePUIds[d]) = Cardinality(PusOf[d] \ working)
    <2> DEFINE s == idlePUIds[d]
               m == PusPerDcm[d]
               f == FirstPu[d]
    <2>1. /\ PusOf[d] \subseteq PU /\ Cardinality(PusOf[d]) = m /\ PusOf[d] = f .. f + m - 1
      BY EachPuHasItsDcm
    <2>2. m \in Nat /\ f \in Nat /\ PusOf[d] \ working = PusOf[d]
      BY <1>1, <1>2
    <2>3. s = [i \in 1 .. m |-> f + i - 1]
      BY <1>2
    <2> HIDE DEF s, m, f
    <2>4. \A i \in 1 .. m : f + i - 1 \in PusOf[d] /\ s[i] = f + i - 1
      BY <2>1, <2>2, <2>3
    <2>5. s \in Seq(PU) /\ Len(s) = m /\ DOMAIN s = 1 .. m
      <3>1. s \in [1 .. m -> PU]
        BY <2>1, <2>3, <2>4
      <3> QED
        BY <2>2, <3>1
    <2>6. Distinct(s)
      BY <2>2, <2>4, <2>5 DEF Distinct
    <2>7. ToSet(s) = PusOf[d]
      <3>1. ASSUME NEW pu \in PusOf[d] PROVE pu \in ToSet(s)
        <4>1. pu - f + 1 \in 1 .. m /\ f + (pu - f + 1) - 1 = pu
          BY <2>1, <2>2
        <4> QED
          BY <2>4, <2>5, <4>1 DEF ToSet
      <3>2. ToSet(s) \subseteq PusOf[d]
        BY <2>4, <2>5 DEF ToSet
      <3> QED
        BY <3>1, <3>2
    <2> QED
      BY <2>1, <2>2, <2>5, <2>6, <2>7 DEF s
  <1>4. /\ dcms \in Seq(DCM) /\ Len(dcms) = n /\ ToSet(dcms) = DCM /\ Distinct(dcms)
        /\ DOMAIN dcms = 1 .. n /\ \A i \in 1 .. n : dcms[i] = i
    <2>1. dcms \in [1 .. n -> DCM] /\ \A i \in 1 .. n : dcms[i] = i
      BY <1>1, <1>2
    <2>2. dcms \in Seq(DCM) /\ Len(dcms) = n /\ DOMAIN dcms = 1 .. n
      BY <1>1, <2>1
    <2>3. Distinct(dcms)
      BY <2>1, <2>2 DEF Distinct
    <2>4. ToSet(dcms) = DCM
      BY <1>1, <2>1, <2>2 DEF ToSet
    <2> QED
      BY <2>1, <2>2, <2>3, <2>4
  <1>5. totalIdlePus \in Nat /\ totalIdlePus = Cardinality(PU \ working)
    <2>1. PU = 0 .. FirstPu[n + 1] - 1 /\ FirstPu[n + 1] \in Nat /\ PU \ working = PU
      BY <1>1, <1>2, EachPuHasItsDcm DEF n
    <2> DEFINE hi == FirstPu[n + 1] - 1
    <2>2. 0 \in Int /\ hi \in Int /\ PU = 0 .. hi /\ (IF 0 > hi THEN 0 ELSE hi - 0 + 1) = FirstPu[n + 1]
      BY <2>1
    <2> HIDE DEF hi
    <2>3. Cardinality(PU) = IF 0 > hi THEN 0 ELSE hi - 0 + 1
      BY <2>2, FS_Interval
    <2> QED
      BY <1>2, <2>1, <2>2, <2>3
  <1>6. StrategyTyped
    <2>1. idlePUIds \in [DCM -> Seq(PU)]
      BY <1>2, <1>3
    <2> QED
      BY <1>2, <1>4, <1>5, <2>1 DEF StrategyTyped
  <1>7. SortedByLoad
    <2>1. ASSUME NEW d \in DCM PROVE BusyPus(d, idlePUIds) = 0
      <3>1. Len(idlePUIds[d]) = PusPerDcm[d] /\ PusPerDcm[d] \in Nat
        <4>1. PusOf[d] \ working = PusOf[d] /\ Cardinality(PusOf[d]) = PusPerDcm[d] /\ PusPerDcm[d] \in Nat
          BY <1>1, <1>2, EachPuHasItsDcm
        <4> QED
          BY <1>3, <4>1
      <3> QED
        BY <3>1 DEF BusyPus
    <2>2. \A i, j \in DOMAIN dcms : BusyPus(dcms[i], idlePUIds) <= BusyPus(dcms[j], idlePUIds)
      BY <1>1, <1>4, <2>1
    <2> QED
      BY <1>4, <2>2 DEF SortedByLoad, n
  <1> QED
    BY <1>3, <1>4, <1>5, <1>6, <1>7 DEF StrategyIInv, IdleListsExact, NothingTwice

-----------------------------------------------------------------------------
(* The supervisor.                                                         *)

SupervisorTyped ==
    /\ queuedEventsToSend \in -1 .. MaxQueued
    /\ mystate \in {"WAITING_RATE", "SENDING_TO_IDLE_PU"}
    /\ supervisorNext \in {"now", "later"}
    /\ previousSigma \in {"unset", "now", "later"}
    /\ excuse \in {"none", "uninitialised", "coincidence"}

LEMMA HltIInvParts == HltIInv <=> StrategyIInv /\ SupervisorTyped /\ AnswersThePu
  BY DEF HltIInv, TypeOK, StrategyIInv, StrategyTyped, SupervisorTyped

LEMMA HltInit == Init => HltIInv
  <1> SUFFICES ASSUME Init PROVE HltIInv
    OBVIOUS
  <1>1. StrategyIInv
    BY StrategyInit
  <1>2. MaxQueued \in Nat
    BY SupervisorAssumption
  <1>3. SupervisorTyped /\ AnswersThePu
    BY <1>2 DEF Init, SupervisorTyped, AnswersThePu
  <1> QED
    BY <1>1, <1>3, HltIInvParts

LEMMA EventsToSendFacts ==
  ASSUME SupervisorTyped
  PROVE  /\ EventsToSend \in -1 .. MaxQueued
         /\ mystate = "WAITING_RATE" /\ queuedEventsToSend <= 0 => EventsToSend <= 1
  <1>1. MaxQueued \in Nat \ {0}
    BY SupervisorAssumption
  <1> QED
    BY <1>1 DEF SupervisorTyped, EventsToSend

LEMMA HltStep == HltIInv /\ [Next]_vars => HltIInv'
  <1> SUFFICES ASSUME HltIInv, [Next]_vars PROVE HltIInv'
    OBVIOUS
  <1>0. StrategyIInv /\ SupervisorTyped /\ AnswersThePu
    BY HltIInvParts
  <1>t. totalIdlePus \in Nat /\ MaxQueued \in Nat \ {0}
    BY <1>0, SupervisorAssumption DEF StrategyIInv, StrategyTyped
  <1>e. EventsToSend \in -1 .. MaxQueued /\ (mystate = "WAITING_RATE" /\ queuedEventsToSend <= 0 => EventsToSend <= 1)
    BY <1>0, EventsToSendFacts
  <1>1. CASE SendEvent
    <2>1. /\ totalIdlePus > 0 /\ EventsToSend > 0 /\ queuedEventsToSend' = EventsToSend - 1
          /\ mystate' = "WAITING_RATE" /\ supervisorNext' = "later" /\ previousSigma' = "unset" /\ excuse' = excuse
          /\ \E pu \in PU : setNextPuBusy(pu) /\ working' = working \cup {pu}
      BY <1>1 DEF SendEvent, dint
    <2>2. StrategyIInv' /\ totalIdlePus' = totalIdlePus - 1
      BY <1>0, <2>1, BusyKeeps
    <2>3. SupervisorTyped'
      BY <1>0, <1>e, <1>t, <2>1 DEF SupervisorTyped
    <2>4. AnswersThePu'
      <3>1. ASSUME excuse = "none" PROVE ~(queuedEventsToSend' > 0 /\ totalIdlePus' > 0)
        <4>1. CASE mystate = "SENDING_TO_IDLE_PU"
          BY <1>0, <1>t, <2>1, <2>2, <3>1, <4>1 DEF AnswersThePu
        <4>2. CASE mystate = "WAITING_RATE"
          <5>1. ~(queuedEventsToSend > 0) /\ queuedEventsToSend \in -1 .. MaxQueued
            BY <1>0, <2>1, <3>1, <4>2 DEF AnswersThePu, SupervisorTyped
          <5> QED
            BY <1>e, <1>t, <2>1, <4>2, <5>1
        <4> QED
          BY <1>0, <4>1, <4>2 DEF SupervisorTyped
      <3> QED
        BY <2>1, <3>1 DEF AnswersThePu
    <2> QED
      BY <2>2, <2>3, <2>4 DEF HltIInv, TypeOK, StrategyIInv, StrategyTyped, SupervisorTyped
  <1>2. CASE QueueEvent
    <2>1. /\ ~(totalIdlePus > 0 /\ EventsToSend > 0) /\ queuedEventsToSend' = EventsToSend
          /\ mystate' = "WAITING_RATE" /\ supervisorNext' = "later" /\ previousSigma' = "unset" /\ excuse' = excuse
          /\ dcms' = dcms /\ idlePUIds' = idlePUIds /\ totalIdlePus' = totalIdlePus /\ working' = working
      BY <1>2 DEF QueueEvent, dint, strategyVars
    <2>2. StrategyIInv'
      BY <1>0, <2>1 DEF StrategyIInv, StrategyTyped, SortedByLoad, IdleListsExact, NothingTwice
    <2>3. SupervisorTyped'
      BY <1>0, <1>e, <2>1 DEF SupervisorTyped
    <2>4. AnswersThePu'
      BY <2>1 DEF AnswersThePu
    <2> QED
      BY <2>2, <2>3, <2>4 DEF HltIInv, TypeOK, StrategyIInv, StrategyTyped, SupervisorTyped
  <1>3. ASSUME NEW pu \in PU, PuIdle(pu) PROVE HltIInv'
    <2>1. /\ pu \in working /\ working' = working \ {pu} /\ setIdlePu(pu) /\ WakeUp
          /\ excuse' = IF supervisorNext = "now" THEN "coincidence" ELSE excuse
          /\ queuedEventsToSend' = queuedEventsToSend
      BY <1>3 DEF PuIdle
    <2>2. StrategyIInv' /\ totalIdlePus' = totalIdlePus + 1
      BY <1>0, <2>1, IdleKeeps
    <2>3. SupervisorTyped'
      BY <1>0, <2>1 DEF SupervisorTyped, WakeUp
    <2>4. AnswersThePu'
      <3>1. CASE supervisorNext = "now"
        BY <1>0, <2>1, <3>1 DEF AnswersThePu, WakeUp, SupervisorTyped
      <3>2. CASE supervisorNext = "later"
        <4>1. ASSUME excuse = "none", queuedEventsToSend > 0 PROVE totalIdlePus' = 1
          BY <1>0, <1>t, <2>2, <3>2, <4>1 DEF AnswersThePu
        <4>2. CASE queuedEventsToSend > 0
          <5>1. mystate' = "SENDING_TO_IDLE_PU" /\ supervisorNext' = "now" /\ excuse' = excuse
            BY <2>1, <3>2, <4>2 DEF WakeUp
          <5> QED
            BY <4>1, <4>2, <5>1 DEF AnswersThePu
        <4>3. CASE ~(queuedEventsToSend > 0)
          <5>1. mystate' = "WAITING_RATE" /\ supervisorNext' = "later" /\ excuse' = excuse
            BY <2>1, <3>2, <4>3 DEF WakeUp
          <5> QED
            BY <2>1, <4>3, <5>1 DEF AnswersThePu
        <4> QED
          BY <4>2, <4>3
      <3> QED
        BY <1>0, <3>1, <3>2 DEF SupervisorTyped
    <2> QED
      BY <2>2, <2>3, <2>4 DEF HltIInv, TypeOK, StrategyIInv, StrategyTyped, SupervisorTyped
  <1>4. CASE RateExpires
    <2>1. /\ supervisorNext = "later" /\ supervisorNext' = "now" /\ mystate' = mystate /\ previousSigma' = previousSigma
          /\ queuedEventsToSend' = queuedEventsToSend /\ excuse' = excuse
          /\ dcms' = dcms /\ idlePUIds' = idlePUIds /\ totalIdlePus' = totalIdlePus /\ working' = working
      BY <1>4 DEF RateExpires, strategyVars
    <2>2. StrategyIInv'
      BY <1>0, <2>1 DEF StrategyIInv, StrategyTyped, SortedByLoad, IdleListsExact, NothingTwice
    <2>3. SupervisorTyped'
      BY <1>0, <2>1 DEF SupervisorTyped
    <2>4. AnswersThePu'
      BY <1>0, <2>1 DEF AnswersThePu
    <2> QED
      BY <2>2, <2>3, <2>4 DEF HltIInv, TypeOK, StrategyIInv, StrategyTyped, SupervisorTyped
  <1>5. CASE UNCHANGED vars
    <2>1. /\ UNCHANGED <<dcms, idlePUIds, totalIdlePus, working>>
          /\ UNCHANGED <<queuedEventsToSend, mystate, supervisorNext, previousSigma, excuse>>
      BY <1>5 DEF vars, strategyVars, supervisorVars
    <2>2. StrategyIInv'
      BY <1>0, <2>1 DEF StrategyIInv, StrategyTyped, SortedByLoad, IdleListsExact, NothingTwice
    <2>3. SupervisorTyped' /\ AnswersThePu'
      BY <1>0, <2>1 DEF SupervisorTyped, AnswersThePu
    <2> QED
      BY <2>2, <2>3 DEF HltIInv, TypeOK, StrategyIInv, StrategyTyped, SupervisorTyped
  <1> QED
    BY <1>1, <1>2, <1>3, <1>4, <1>5 DEF Next

-----------------------------------------------------------------------------
(* Where all DCMs have equally many PUs, the least busy one has an idle PU *)
(* if any has.                                                             *)
LEMMA FrontServes == StrategyIInv => FrontHasIdle
  <1> SUFFICES ASSUME StrategyIInv, \A d, e \in DCM : PusPerDcm[d] = PusPerDcm[e], totalIdlePus > 0
               PROVE  idlePUIds[Head(dcms)] # <<>>
    BY DEF FrontHasIdle
  <1>1. dcms \in Seq(DCM) /\ ToSet(dcms) = DCM /\ totalIdlePus = Cardinality(PU \ working) /\ totalIdlePus \in Nat
    BY DEF StrategyIInv, StrategyTyped, SortedByLoad, IdleListsExact
  <1>2. PICK pu \in PU : pu \notin working
    <2>1. PU \ working # {}
      <3>1. Cardinality({}) = 0
        BY FS_EmptySet, Zenon
      <3>2. Cardinality(PU \ working) # 0
        BY <1>1
      <3> QED
        BY <3>1, <3>2
    <2> QED
      BY <2>1
  <1> DEFINE d == DcmIndex[pu]
             f == Head(dcms)
  <1>3. d \in DCM /\ pu \in PusOf[d]
    BY EachPuHasItsDcm
  <1>4. f \in DCM /\ f = dcms[1] /\ 1 \in DOMAIN dcms
    BY FrontDcm
  <1> HIDE DEF d, f
  <1>5. Len(idlePUIds[d]) >= 1
    <2>1. idlePUIds[d] \in Seq(PU) /\ pu \in ToSet(idlePUIds[d])
      BY <1>2, <1>3, ListHolds
    <2> QED
      BY <2>1 DEF ToSet
  <1>6. BusyPus(f, idlePUIds) <= BusyPus(d, idlePUIds)
    <2>1. PICK k \in DOMAIN dcms : dcms[k] = d
      BY <1>1, <1>3 DEF ToSet
    <2>2. CASE k = 1
      <3>1. Load(idlePUIds)[d] \in Int /\ Load(idlePUIds)[d] = BusyPus(d, idlePUIds)
        BY <1>3, LoadIsInt DEF Load, StrategyIInv, StrategyTyped
      <3> QED
        BY <1>4, <2>1, <2>2, <3>1
    <2>3. CASE k # 1
      <3>1. 1 < k
        BY <1>1, <2>1, <2>3
      <3> QED
        BY <1>4, <2>1, <3>1 DEF StrategyIInv, SortedByLoad
    <2> QED
      BY <2>2, <2>3
  <1>7. /\ PusPerDcm[d] \in Nat /\ PusPerDcm[f] = PusPerDcm[d]
        /\ Len(idlePUIds[d]) \in Nat /\ Len(idlePUIds[f]) \in Nat /\ idlePUIds[f] \in Seq(PU)
    <2>1. PusPerDcm[d] \in Nat /\ PusPerDcm[f] = PusPerDcm[d]
      BY <1>3, <1>4, FirstPuCounts
    <2>2. idlePUIds[d] \in Seq(PU) /\ idlePUIds[f] \in Seq(PU)
      BY <1>3, <1>4, ListHolds
    <2> QED
      BY <2>1, <2>2
  <1>8. Len(idlePUIds[f]) >= 1
    BY <1>5, <1>6, <1>7 DEF BusyPus
  <1> QED
    BY <1>7, <1>8 DEF f

-----------------------------------------------------------------------------
(* Proved of HltSupervisor, for every number of DCMs and of PUs per DCM.   *)

(* However setIdlePu and setNextPuBusy interleave, the list of DCMs that   *)
(* they repair by moving one element stays complete and sorted by load,    *)
(* the idle lists are the truth (no PU gets an event while it works on     *)
(* another), and the front DCM can serve whenever any PU is idle, if all   *)
(* DCMs have equally many PUs: getNextPuId does not throw.                 *)
THEOREM StrategyInvariant == Spec => []StrategyInv
  <1>1. HltIInv => StrategyInv
    <2> SUFFICES ASSUME HltIInv PROVE StrategyInv
      OBVIOUS
    <2>1. FrontHasIdle
      BY HltIInvParts, FrontServes
    <2> QED
      BY <2>1 DEF HltIInv, StrategyInv
  <1> QED
    BY HltInit, HltStep, <1>1, PTL DEF Spec

(* Events wait beside an idle PU only between the report of that PU and    *)
(* the supervisor's answer, or with an excuse: the report came in an       *)
(* instant in which the supervisor was already imminent, or the counter    *)
(* queuedEventsToSend started with a positive value.                       *)
THEOREM WaitExcused == Spec => []WaitsOnlyWithExcuse
  <1>1. HltIInv => WaitsOnlyWithExcuse
    BY DEF HltIInv, AnswersThePu, WaitsOnlyWithExcuse
  <1> QED
    BY HltInit, HltStep, <1>1, PTL DEF Spec
=============================================================================
