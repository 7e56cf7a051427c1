---------------------------- MODULE DataLemmas -----------------------------
(***************************************************************************)
(* Lemmas about sequences and about functions defined step by step, for    *)
(* the proofs about the components.  The statement an induction proves is  *)
(* given as the set of the numbers for which it holds.                     *)
(***************************************************************************)
EXTENDS Integers, SequencesExt, SequenceTheorems, FunctionTheorems, WellFoundedInduction, TLAPS

LEMMA LeastElement ==
  ASSUME NEW S \in SUBSET Nat, S # {}
  PROVE  \E m \in S : \A n \in S : m <= n
<1>1. IsWellFoundedOn(OpToRel(<, Nat), Nat)
  BY NatLessThanWellFounded
<1>2. PICK m \in S : \A y \in S : ~(<<y, m>> \in OpToRel(<, Nat))
  BY <1>1, WFMin
<1>3. \A y \in S : ~(y < m)
  BY <1>2 DEF OpToRel
<1> QED BY <1>3

\* What holds of 0, and of each number up to n if of the one before, holds up
\* to n.
LEMMA UpTo ==
  ASSUME NEW n \in Nat, NEW P, 0 \in P, \A i \in 1 .. n : i - 1 \in P => i \in P
  PROVE  \A i \in 0 .. n : i \in P
<1> DEFINE Not == (0 .. n) \ P
<1> SUFFICES ASSUME Not # {} PROVE FALSE
  OBVIOUS
<1>1. Not \in SUBSET Nat
  OBVIOUS
<1> HIDE DEF Not
<1>2. PICK m \in Not : \A k \in Not : m <= k
  BY <1>1, LeastElement
<1>3. m \in 1 .. n /\ m \notin P
  BY <1>2 DEF Not
<1>4. m - 1 \notin Not
  BY <1>1, <1>2, <1>3
<1>5. m - 1 \in P
  BY <1>3, <1>4 DEF Not
<1> QED BY <1>3, <1>5

\* The functions that take a value of S from each number before n to the next,
\* and what they make of a first value.
Steps(n, S) == [1 .. n -> [S -> S]]

Unfolds(f, n, base, step) ==
  f[0] = base /\ \A i \in 1 .. n : f[i] = step[i][f[i - 1]]

\* A function defined from each number to the next exists.
LEMMA FoldExists ==
  ASSUME NEW n \in Nat, NEW S, NEW base \in S, NEW step \in Steps(n, S)
  PROVE  \E f \in [0 .. n -> S] : Unfolds(f, n, base, step)
<1> DEFINE Folds(k) == {f \in [0 .. k -> S] : Unfolds(f, k, base, step)}
           P == {k \in 0 .. n : Folds(k) # {}}
<1> USE DEF Steps, Unfolds
<1>1. 0 \in P
  <2>1. [i \in 0 .. 0 |-> base] \in Folds(0)
    OBVIOUS
  <2> QED BY <2>1
<1>2. ASSUME NEW k \in 1 .. n, k - 1 \in P
      PROVE  k \in P
  <2>1. PICK f \in [0 .. k - 1 -> S] :
          f[0] = base /\ \A i \in 1 .. k - 1 : f[i] = step[i][f[i - 1]]
    BY <1>2
  <2> DEFINE g == [i \in 0 .. k |-> IF i = k THEN step[k][f[k - 1]] ELSE f[i]]
  <2>2. f[k - 1] \in S
    BY <2>1
  <2>3. g \in [0 .. k -> S]
    <3>1. step[k][f[k - 1]] \in S
      BY <2>2
    <3>2. \A i \in 0 .. k : i # k => f[i] \in S
      BY <2>1
    <3> QED BY <3>1, <3>2
  <2>4. g[0] = base /\ \A i \in 1 .. k : g[i] = step[i][g[i - 1]]
    <3>1. g[0] = f[0] /\ g[k] = step[k][f[k - 1]]
      OBVIOUS
    <3>2. \A i \in 1 .. k : g[i - 1] = f[i - 1]
      OBVIOUS
    <3>3. \A i \in 1 .. k - 1 : g[i] = f[i]
      OBVIOUS
    <3> HIDE DEF g
    <3>4. \A i \in 1 .. k - 1 : g[i] = step[i][g[i - 1]]
      BY <3>2, <3>3, <2>1
    <3>5. g[k] = step[k][g[k - 1]]
      BY <3>1, <3>2
    <3> QED BY <3>1, <2>1, <3>4, <3>5
  <2> HIDE DEF g
  <2>5. g \in Folds(k)
    BY <2>3, <2>4
  <2>6. Folds(k) # {} /\ k \in 0 .. n
    BY <2>5
  <2> QED BY <2>6
<1>3. n \in P
  <2> HIDE DEF P
  <2>1. \A i \in 0 .. n : i \in P
    BY <1>1, <1>2, UpTo
  <2> QED BY <2>1
<1> QED BY <1>3
-----------------------------------------------------------------------------
(* Sequences.                                                              *)

\* A sequence of at most n elements of S.
LEMMA Bounded ==
  ASSUME NEW S, NEW n \in Nat, NEW s
  PROVE  s \in BoundedSeq(S, n) <=> s \in Seq(S) /\ Len(s) <= n
<1>1. ASSUME s \in BoundedSeq(S, n) PROVE s \in Seq(S) /\ Len(s) <= n
  <2>1. PICK m \in 0 .. n : s \in [1 .. m -> S]
    BY <1>1 DEF BoundedSeq, SeqOf
  <2> QED BY <2>1
<1>2. ASSUME s \in Seq(S), Len(s) <= n PROVE s \in BoundedSeq(S, n)
  <2>1. s \in [1 .. Len(s) -> S] /\ Len(s) \in 0 .. n
    BY <1>2
  <2> QED BY <2>1 DEF BoundedSeq, SeqOf
<1> QED BY <1>1, <1>2

\* The elements of a sequence, when one is appended or the first is taken.
LEMMA Elements ==
  ASSUME NEW S, NEW s \in Seq(S)
  PROVE  /\ ToSet(s) = {s[i] : i \in 1 .. Len(s)}
         /\ \A e \in S : ToSet(Append(s, e)) = ToSet(s) \cup {e}
         /\ s # <<>> => /\ ToSet(s) = {Head(s)} \cup ToSet(Tail(s))
                        /\ Head(s) \in S /\ Tail(s) \in Seq(S)
                        /\ Len(Tail(s)) = Len(s) - 1 /\ Len(s) > 0
                        /\ Head(s) = s[1]
                        /\ \A i \in 1 .. Len(Tail(s)) : Tail(s)[i] = s[i + 1]
<1>0. \A q \in Seq(S) : ToSet(q) = {q[i] : i \in 1 .. Len(q)}
  BY DEF ToSet
<1>1. ToSet(s) = {s[i] : i \in 1 .. Len(s)}
  BY <1>0
<1>2. ASSUME NEW e \in S PROVE ToSet(Append(s, e)) = ToSet(s) \cup {e}
  <2> DEFINE t == Append(s, e)
  <2>1. Len(t) = Len(s) + 1 /\ t[Len(s) + 1] = e /\ \A i \in 1 .. Len(s) : t[i] = s[i]
    OBVIOUS
  <2>2. ToSet(t) = {t[i] : i \in 1 .. Len(s) + 1}
    BY DEF ToSet
  <2> HIDE DEF t
  <2>3. \A i \in 1 .. Len(s) + 1 : i \in 1 .. Len(s) \/ i = Len(s) + 1
    OBVIOUS
  <2>4. ToSet(t) = {s[i] : i \in 1 .. Len(s)} \cup {e}
    BY <2>1, <2>2, <2>3
  <2> QED BY <1>1, <2>4 DEF t
<1>3. ASSUME s # <<>>
      PROVE  /\ Head(s) \in S /\ Tail(s) \in Seq(S)
             /\ Len(Tail(s)) = Len(s) - 1 /\ Len(s) > 0
             /\ Head(s) = s[1]
             /\ \A i \in 1 .. Len(Tail(s)) : Tail(s)[i] = s[i + 1]
  BY <1>3
<1>4. ASSUME s # <<>> PROVE ToSet(s) = {Head(s)} \cup ToSet(Tail(s))
  <2> DEFINE t == Tail(s)
  <2>1. ToSet(t) = {t[i] : i \in 1 .. Len(t)}
    BY <1>0, <1>3, <1>4
  <2>2. \A i \in 1 .. Len(s) : i = 1 \/ i - 1 \in 1 .. Len(t)
    BY <1>3, <1>4
  <2>3. \A i \in 1 .. Len(s) : s[i] = Head(s) \/ \E j \in 1 .. Len(t) : s[i] = t[j]
    <3> SUFFICES ASSUME NEW i \in 1 .. Len(s), i # 1 PROVE \E j \in 1 .. Len(t) : s[i] = t[j]
      BY <1>3, <1>4
    <3>1. i - 1 \in 1 .. Len(t) /\ t[i - 1] = s[i]
      BY <1>3, <1>4, <2>2
    <3> QED BY <3>1
  <2>4. \A j \in 1 .. Len(t) : j + 1 \in 1 .. Len(s) /\ t[j] = s[j + 1]
    BY <1>3, <1>4
  <2>5. 1 \in 1 .. Len(s)
    BY <1>3, <1>4
  <2> HIDE DEF t
  <2>6. ToSet(s) \subseteq {Head(s)} \cup ToSet(t)
    BY <1>1, <2>1, <2>3
  <2>7. {Head(s)} \cup ToSet(t) \subseteq ToSet(s)
    BY <1>1, <1>3, <1>4, <2>1, <2>4, <2>5
  <2> QED BY <2>6, <2>7 DEF t
<1> QED BY <1>1, <1>2, <1>3, <1>4
-----------------------------------------------------------------------------
(* Numbers.                                                                *)

\* Division: what it is, and that nothing else is.
LEMMA DivisionIs ==
  ASSUME NEW a \in Nat, NEW b \in Nat \ {0}
  PROVE  /\ a \div b \in Nat /\ a % b \in 0 .. b - 1
         /\ a = b * (a \div b) + (a % b)
OBVIOUS

LEMMA Multiples ==
  ASSUME NEW b \in Nat \ {0}, NEW x \in Int, NEW y \in Int, x < y
  PROVE  b * x + b <= b * y
<1>1. y - x \in Nat \ {0}
  OBVIOUS
<1>2. PICK d \in Nat : y = x + 1 + d
  BY <1>1
<1>3. b * y = b * x + b + b * d /\ b * d >= 0
  BY <1>2
<1> QED
  BY <1>3

LEMMA DivisionOnly ==
  ASSUME NEW b \in Nat \ {0}, NEW q \in Nat, NEW r \in 0 .. b - 1
  PROVE  (b * q + r) \div b = q /\ (b * q + r) % b = r
<1> DEFINE a == b * q + r
           p == a \div b
<1>1. a \in Nat
  OBVIOUS
<1>2. p \in Nat /\ a % b \in 0 .. b - 1 /\ a = b * p + (a % b)
  BY <1>1, DivisionIs
<1> HIDE DEF p
<1>3. ~(p < q)
  BY <1>2, Multiples
<1>4. ~(q < p)
  BY <1>2, Multiples
<1>5. p = q
  BY <1>2, <1>3, <1>4
<1> QED
  BY <1>2, <1>5 DEF p

=============================================================================
