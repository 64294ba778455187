---------------------------- MODULE Lists_proofs ----------------------------
(* What the loops of Lists compute, for lists of any length.               *)
EXTENDS Lists, FiniteSetTheorems, TLAPS

\* Induction over the natural numbers, for sets in place of predicates.
LEMMA NatSet ==
    ASSUME NEW P, 0 \in P, \A n \in Nat : n \in P => n + 1 \in P
    PROVE  Nat \subseteq P
<1>1. SUFFICES ASSUME Nat \ P # {} PROVE FALSE
  OBVIOUS
<1> DEFINE R == OpToRel(<, Nat)
<1>2. IsWellFoundedOn(R, Nat)
  BY NatLessThanWellFounded
<1>3. \A S : S \subseteq Nat /\ S # {} => \E m \in S : \A k \in S : ~ (<<k, m>> \in R)
  <2> HIDE DEF R
  <2> QED
    BY <1>2, WFMin
<1>4. PICK m \in Nat \ P : \A k \in Nat \ P : ~ (k < m)
  BY <1>1, <1>3 DEF OpToRel
<1>5. m # 0 /\ m - 1 \in Nat /\ m - 1 < m
  BY <1>4
<1>6. m - 1 \in P
  BY <1>4, <1>5
<1> QED
  BY <1>4, <1>5, <1>6

LEMMA UpTo ==
    ASSUME NEW n \in Nat, NEW P, 0 \in P, \A i \in 1..n : i - 1 \in P => i \in P
    PROVE  0..n \subseteq P
<1> DEFINE Q == {i \in Nat : i <= n => i \in P}
<1>1. 0 \in Q
  OBVIOUS
<1>2. ASSUME NEW i \in Nat, i \in Q, i + 1 <= n PROVE i + 1 \in P
  <2>1. i \in P /\ i + 1 \in 1..n /\ (i + 1) - 1 = i
    BY <1>2
  <2> QED
    BY <2>1
<1>3. \A i \in Nat : i \in Q => i + 1 \in Q
  BY <1>2
<1>4. Nat \subseteq Q
  <2> HIDE DEF Q
  <2> QED
    BY <1>1, <1>3, NatSet
<1> QED
  BY <1>4

\* A loop stays in a set that each turn stays in.
LEMMA Climbs ==
    ASSUME NEW n \in Nat, NEW A, NEW H, H = [i \in 0..n |-> H[i]],
           H[0] \in A, \A i \in 1..n : H[i - 1] \in A => H[i] \in A
    PROVE  H \in [0..n -> A]
<1> DEFINE P == {i \in 0..n : H[i] \in A}
<1>1. 0 \in P /\ \A i \in 1..n : i - 1 \in P => i \in P
  OBVIOUS
<1>2. 0..n \subseteq P
  <2> HIDE DEF P
  <2> QED
    BY <1>1, UpTo
<1> QED
  BY <1>2

\* F holds the values that a loop of n turns goes through.
IsLoop(F, n, a, step) == F[0] = a /\ \A i \in 1..n : F[i] = step[<<i, F[i - 1]>>]

LEMMA LoopExists ==
    ASSUME NEW n \in Nat, NEW A, NEW a \in A, NEW step \in [(1..n) \X A -> A]
    PROVE  \E F \in [0..n -> A] : IsLoop(F, n, a, step)
<1> DEFINE P == {m \in 0..n : \E F \in [0..m -> A] : IsLoop(F, m, a, step)}
<1>1. 0 \in P
  <2> DEFINE F == [i \in 0..0 |-> a]
  <2>1. F \in [0..0 -> A] /\ IsLoop(F, 0, a, step)
    BY DEF IsLoop
  <2>2. 0 \in 0..n
    OBVIOUS
  <2> HIDE DEF F
  <2> QED
    BY <2>1, <2>2
<1>2. ASSUME NEW m \in 1..n, m - 1 \in P PROVE m \in P
  <2>1. PICK F \in [0..(m - 1) -> A] : IsLoop(F, m - 1, a, step)
    BY <1>2
  <2> DEFINE G == [i \in 0..m |-> IF i = m THEN step[<<m, F[m - 1]>>] ELSE F[i]]
  <2>2. /\ m - 1 \in 0..(m - 1) /\ 0 \in 0..(m - 1) /\ m \in 0..n
        /\ \A i \in 0..m : i = m \/ i \in 0..(m - 1)
        /\ \A i \in 1..m : i - 1 \in 0..(m - 1) /\ i - 1 # m /\ i - 1 \in 0..m /\ i \in 0..m
    OBVIOUS
  <2>3. step[<<m, F[m - 1]>>] \in A
    <3>1. F[m - 1] \in A /\ m \in 1..n
      BY <2>2
    <3>2. <<m, F[m - 1]>> \in (1..n) \X A
      BY <3>1
    <3> QED
      BY <3>2
  <2>4. G \in [0..m -> A]
    BY <2>2, <2>3
  <2>5. ASSUME NEW i \in 1..m PROVE G[i] = step[<<i, G[i - 1]>>]
    <3>1. G[i - 1] = F[i - 1]
      BY <2>2
    <3>2. CASE i = m
      BY <2>2, <3>1, <3>2
    <3>3. CASE i # m
      <4>1. i \in 1..(m - 1) /\ G[i] = F[i]
        BY <2>2, <3>3
      <4> QED
        BY <2>1, <3>1, <4>1 DEF IsLoop
    <3> QED
      BY <3>2, <3>3
  <2>6. G[0] = a
    BY <2>1, <2>2 DEF IsLoop
  <2> HIDE DEF G
  <2> QED
    BY <2>4, <2>5, <2>6 DEF IsLoop
<1>3. 0..n \subseteq P
  <2> HIDE DEF P
  <2> QED
    BY <1>1, <1>2, UpTo
<1>4. n \in P
  BY <1>3
<1> QED
  BY <1>4

-----------------------------------------------------------------------------
(* The loops.                                                              *)

\* H holds the list that is built, after each turn.
KeepTurns(H, s, S) ==
    /\ H[0] = <<>>
    /\ \A i \in 1..Len(s) : H[i] = IF s[i] \in S THEN Append(H[i - 1], s[i]) ELSE H[i - 1]
    /\ Keep(s, S) = H[Len(s)]

LEMMA KeepUnrolls ==
    ASSUME NEW A, NEW s \in Seq(A), NEW S
    PROVE  \E H \in [0..Len(s) -> Seq(A)] : KeepTurns(H, s, S)
<1> DEFINE n == Len(s)
           step == [p \in (1..n) \X Seq(A) |-> IF s[p[1]] \in S THEN Append(p[2], s[p[1]]) ELSE p[2]]
           Is(F) == F = [i \in 0..n |-> IF i = 0 THEN <<>>
                                        ELSE IF s[i] \in S THEN Append(F[i - 1], s[i]) ELSE F[i - 1]]
<1>1. /\ n \in Nat /\ DOMAIN s = 1..n
      /\ \A i \in 1..n : s[i] \in A /\ i \in 0..n /\ i # 0 /\ i - 1 \in 0..n
      /\ \A i \in 0..n : i = 0 \/ i \in 1..n
      /\ 0 \in 0..n /\ n \in 0..n
  OBVIOUS
<1>2. Keep(s, S) = (CHOOSE F : Is(F))[n]
  BY DEF Keep
<1>3. step \in [(1..n) \X Seq(A) -> Seq(A)]
  BY <1>1
<1>4. PICK G \in [0..n -> Seq(A)] : IsLoop(G, n, <<>>, step)
  <2>1. <<>> \in Seq(A)
    OBVIOUS
  <2>2. n \in Nat
    BY <1>1
  <2> HIDE DEF step, n
  <2> QED
    BY <1>3, <2>1, <2>2, LoopExists
<1>5. Is(G)
  <2> SUFFICES ASSUME NEW i \in 1..n
               PROVE  step[<<i, G[i - 1]>>] = IF s[i] \in S THEN Append(G[i - 1], s[i]) ELSE G[i - 1]
    <3> HIDE DEF step, n
    <3> QED
      BY <1>1, <1>4 DEF IsLoop
  <2>1. G[i - 1] \in Seq(A)
    BY <1>1
  <2> QED
    BY <2>1
<1>6. PICK H : Is(H) /\ Keep(s, S) = H[n]
  <2> HIDE DEF Is
  <2> QED
    BY <1>2, <1>5
<1>7. H[0] = <<>>
  <2> HIDE DEF n
  <2> QED
    BY <1>1, <1>6
<1>8. ASSUME NEW i \in 1..n
      PROVE  H[i] = IF s[i] \in S THEN Append(H[i - 1], s[i]) ELSE H[i - 1]
  <2> HIDE DEF n
  <2> QED
    BY <1>1, <1>6
<1>9. H \in [0..n -> Seq(A)]
  <2>1. H = [i \in 0..n |-> H[i]]
    BY <1>6
  <2>2. ASSUME NEW i \in 1..n, H[i - 1] \in Seq(A) PROVE H[i] \in Seq(A)
    <3>1. s[i] \in A
      BY <1>1
    <3>2. Append(H[i - 1], s[i]) \in Seq(A)
      BY <2>2, <3>1
    <3> QED
      BY <1>8, <2>2, <3>2, Zenon
  <2>3. H[0] \in Seq(A)
    BY <1>7
  <2> HIDE DEF n
  <2> QED
    BY <1>1, <2>1, <2>2, <2>3, Climbs
<1> QED
  BY <1>6, <1>7, <1>8, <1>9 DEF KeepTurns

LEMMA AppendOf ==
    ASSUME NEW A, NEW s \in Seq(A), NEW x \in A
    PROVE  /\ Append(s, x) \in Seq(A) /\ Len(Append(s, x)) = Len(s) + 1
           /\ ToSet(Append(s, x)) = ToSet(s) \cup {x}
           /\ IsInjective(s) /\ x \notin ToSet(s) => IsInjective(Append(s, x))
<1>1. /\ Append(s, x) \in Seq(A) /\ DOMAIN Append(s, x) = 1..(Len(s) + 1)
      /\ Append(s, x)[Len(s) + 1] = x /\ Len(s) \in Nat /\ DOMAIN s = 1..Len(s)
      /\ \A i \in 1..Len(s) : Append(s, x)[i] = s[i]
  OBVIOUS
<1>2. ToSet(Append(s, x)) = ToSet(s) \cup {x}
  <2>1. ToSet(Append(s, x)) \subseteq ToSet(s) \cup {x}
    <3> SUFFICES ASSUME NEW i \in 1..(Len(s) + 1) PROVE Append(s, x)[i] \in ToSet(s) \cup {x}
      BY <1>1 DEF ToSet
    <3>1. i \in 1..Len(s) \/ i = Len(s) + 1
      BY <1>1
    <3> QED
      BY <1>1, <3>1 DEF ToSet
  <2>2. ToSet(s) \subseteq ToSet(Append(s, x))
    <3> SUFFICES ASSUME NEW i \in 1..Len(s) PROVE s[i] \in ToSet(Append(s, x))
      BY <1>1 DEF ToSet
    <3>1. i \in 1..(Len(s) + 1) /\ Append(s, x)[i] = s[i]
      BY <1>1
    <3> QED
      BY <1>1, <3>1 DEF ToSet
  <2>3. x \in ToSet(Append(s, x))
    <3>1. Len(s) + 1 \in 1..(Len(s) + 1)
      BY <1>1
    <3> QED
      BY <1>1, <3>1, Zenon DEF ToSet
  <2> QED
    BY <2>1, <2>2, <2>3
<1>3. ASSUME IsInjective(s), x \notin ToSet(s) PROVE IsInjective(Append(s, x))
  <2> SUFFICES ASSUME NEW i \in 1..(Len(s) + 1), NEW k \in 1..(Len(s) + 1),
                      Append(s, x)[i] = Append(s, x)[k]
               PROVE  i = k
    BY <1>1 DEF IsInjective
  <2>1. \A l \in 1..Len(s) : s[l] # x
    BY <1>1, <1>3 DEF ToSet
  <2>2. \A l, m \in 1..Len(s) : s[l] = s[m] => l = m
    BY <1>1, <1>3 DEF IsInjective
  <2> QED
    BY <1>1, <2>1, <2>2
<1> QED
  BY <1>1, <1>2, <1>3

\* The elements before a place, and the place.
FirstOf(s, i) == {s[k] : k \in 1..i}

LEMMA FirstOfs ==
    ASSUME NEW A, NEW s \in Seq(A)
    PROVE  /\ FirstOf(s, 0) = {}
           /\ FirstOf(s, Len(s)) = ToSet(s)
           /\ \A i \in 1..Len(s) : /\ FirstOf(s, i) = FirstOf(s, i - 1) \cup {s[i]}
                                   /\ FirstOf(s, i) \subseteq A
                                   /\ IsInjective(s) => s[i] \notin FirstOf(s, i - 1)
<1>1. Len(s) \in Nat /\ DOMAIN s = 1..Len(s) /\ \A i \in 1..Len(s) : s[i] \in A
  OBVIOUS
<1>2. FirstOf(s, 0) = {}
  BY DEF FirstOf
<1>3. FirstOf(s, Len(s)) = ToSet(s)
  BY <1>1 DEF FirstOf, ToSet
<1>4. ASSUME NEW i \in 1..Len(s)
      PROVE  /\ FirstOf(s, i) = FirstOf(s, i - 1) \cup {s[i]}
             /\ FirstOf(s, i) \subseteq A
  <2>1. 1..i = (1..(i - 1)) \cup {i} /\ 1..i \subseteq 1..Len(s)
    BY <1>1
  <2> QED
    BY <1>1, <2>1 DEF FirstOf
<1>5. ASSUME NEW i \in 1..Len(s), IsInjective(s) PROVE s[i] \notin FirstOf(s, i - 1)
  <2>1. \A k \in 1..(i - 1) : k \in 1..Len(s) /\ k # i
    BY <1>1
  <2> QED
    BY <1>1, <1>5, <2>1 DEF FirstOf, IsInjective
<1> QED
  BY <1>2, <1>3, <1>4, <1>5

\* Of each element, whether it is kept is decided in its turn.
LEMMA KeepOf ==
    ASSUME NEW A, NEW s \in Seq(A), NEW S
    PROVE  /\ Keep(s, S) \in Seq(A)
           /\ ToSet(Keep(s, S)) = ToSet(s) \cap S
           /\ Len(Keep(s, S)) <= Len(s)
           /\ IsInjective(s) => IsInjective(Keep(s, S))
<1>1. PICK H \in [0..Len(s) -> Seq(A)] : KeepTurns(H, s, S)
  BY KeepUnrolls
<1> DEFINE Good(i) == /\ ToSet(H[i]) = FirstOf(s, i) \cap S
                      /\ Len(H[i]) <= i
                      /\ IsInjective(s) => IsInjective(H[i])
           P == {i \in 0..Len(s) : Good(i)}
<1>2. Len(s) \in Nat /\ \A i \in 1..Len(s) : s[i] \in A /\ i - 1 \in 0..Len(s)
  OBVIOUS
<1>3. 0 \in P
  <2>1. ToSet(<<>>) = {} /\ Len(<<>>) = 0 /\ IsInjective(<<>>)
    BY DEF ToSet, IsInjective
  <2> QED
    BY <1>1, <1>2, <2>1, FirstOfs DEF KeepTurns
<1>4. ASSUME NEW i \in 1..Len(s), Good(i - 1) PROVE Good(i)
  <2> DEFINE q == H[i - 1]
  <2>1. /\ FirstOf(s, i) = FirstOf(s, i - 1) \cup {s[i]}
        /\ IsInjective(s) => s[i] \notin FirstOf(s, i - 1)
    BY FirstOfs
  <2>2. q \in Seq(A) /\ s[i] \in A /\ Len(q) \in Nat
    BY <1>2
  <2>3. CASE s[i] \in S
    <3>1. H[i] = Append(q, s[i])
      BY <1>1, <2>3 DEF KeepTurns
    <3>2. /\ ToSet(H[i]) = ToSet(q) \cup {s[i]} /\ Len(H[i]) = Len(q) + 1
          /\ IsInjective(q) /\ s[i] \notin ToSet(q) => IsInjective(H[i])
      <4> HIDE DEF q
      <4> QED
        BY <2>2, <3>1, AppendOf
    <3> QED
      BY <1>4, <2>1, <2>2, <2>3, <3>2
  <2>4. CASE s[i] \notin S
    <3>1. H[i] = q
      BY <1>1, <2>4 DEF KeepTurns
    <3> QED
      BY <1>4, <2>1, <2>2, <2>4, <3>1
  <2> QED
    BY <2>3, <2>4
<1>5. 0..Len(s) \subseteq P
  <2>1. \A i \in 1..Len(s) : i - 1 \in P => i \in P
    BY <1>4
  <2> HIDE DEF P
  <2> QED
    BY <1>2, <1>3, <2>1, UpTo
<1>6. Good(Len(s))
  BY <1>2, <1>5
<1>7. Keep(s, S) \in Seq(A)
  BY <1>1, <1>2 DEF KeepTurns
<1> QED
  BY <1>1, <1>6, <1>7, FirstOfs DEF KeepTurns

LEMMA DedupUnrolls ==
    ASSUME NEW A, NEW s \in Seq(A)
    PROVE  \E H \in [0..Len(s) -> Seq(A)] :
              /\ H[0] = <<>>
              /\ \A i \in 1..Len(s) :
                    H[i] = IF s[i] \in ToSet(H[i - 1]) THEN H[i - 1] ELSE Append(H[i - 1], s[i])
              /\ Dedup(s) = H[Len(s)]
<1> DEFINE n == Len(s)
           step == [p \in (1..n) \X Seq(A) |-> IF s[p[1]] \in ToSet(p[2]) THEN p[2] ELSE Append(p[2], s[p[1]])]
           Is(F) == F = [i \in 0..n |-> IF i = 0 THEN <<>>
                                        ELSE IF s[i] \in ToSet(F[i - 1]) THEN F[i - 1] ELSE Append(F[i - 1], s[i])]
<1>1. /\ n \in Nat /\ DOMAIN s = 1..n
      /\ \A i \in 1..n : s[i] \in A /\ i \in 0..n /\ i # 0 /\ i - 1 \in 0..n
      /\ \A i \in 0..n : i = 0 \/ i \in 1..n
      /\ 0 \in 0..n /\ n \in 0..n
  OBVIOUS
<1>2. Dedup(s) = (CHOOSE F : Is(F))[n]
  BY DEF Dedup
<1>3. step \in [(1..n) \X Seq(A) -> Seq(A)]
  BY <1>1
<1>4. PICK G \in [0..n -> Seq(A)] : IsLoop(G, n, <<>>, step)
  <2>1. <<>> \in Seq(A)
    OBVIOUS
  <2>2. n \in Nat
    BY <1>1
  <2> HIDE DEF step, n
  <2> QED
    BY <1>3, <2>1, <2>2, LoopExists
<1>5. Is(G)
  <2> SUFFICES ASSUME NEW i \in 1..n
               PROVE  step[<<i, G[i - 1]>>] = IF s[i] \in ToSet(G[i - 1]) THEN G[i - 1] ELSE Append(G[i - 1], s[i])
    <3> HIDE DEF step, n
    <3> QED
      BY <1>1, <1>4 DEF IsLoop
  <2>1. G[i - 1] \in Seq(A)
    BY <1>1
  <2> QED
    BY <2>1
<1>6. PICK H : Is(H) /\ Dedup(s) = H[n]
  <2> HIDE DEF Is
  <2> QED
    BY <1>2, <1>5
<1>7. H[0] = <<>>
  <2> HIDE DEF n
  <2> QED
    BY <1>1, <1>6
<1>8. ASSUME NEW i \in 1..n
      PROVE  H[i] = IF s[i] \in ToSet(H[i - 1]) THEN H[i - 1] ELSE Append(H[i - 1], s[i])
  <2> HIDE DEF n
  <2> QED
    BY <1>1, <1>6
<1>9. H \in [0..n -> Seq(A)]
  <2>1. H = [i \in 0..n |-> H[i]]
    BY <1>6
  <2>2. ASSUME NEW i \in 1..n, H[i - 1] \in Seq(A) PROVE H[i] \in Seq(A)
    <3>1. s[i] \in A
      BY <1>1
    <3>2. Append(H[i - 1], s[i]) \in Seq(A)
      BY <2>2, <3>1
    <3> QED
      BY <1>8, <2>2, <3>2, Zenon
  <2>3. H[0] \in Seq(A)
    BY <1>7
  <2> HIDE DEF n
  <2> QED
    BY <1>1, <2>1, <2>2, <2>3, Climbs
<1> QED
  BY <1>6, <1>7, <1>8, <1>9

\* What is in a list is in it once afterwards.
LEMMA DedupOf ==
    ASSUME NEW A, NEW s \in Seq(A)
    PROVE  /\ Dedup(s) \in Seq(A)
           /\ ToSet(Dedup(s)) = ToSet(s)
           /\ Len(Dedup(s)) <= Len(s)
           /\ IsInjective(Dedup(s))
<1>1. PICK H \in [0..Len(s) -> Seq(A)] :
         /\ H[0] = <<>>
         /\ \A i \in 1..Len(s) :
               H[i] = IF s[i] \in ToSet(H[i - 1]) THEN H[i - 1] ELSE Append(H[i - 1], s[i])
         /\ Dedup(s) = H[Len(s)]
  BY DedupUnrolls, Zenon
<1> DEFINE Good(i) == /\ ToSet(H[i]) = FirstOf(s, i)
                      /\ Len(H[i]) <= i
                      /\ IsInjective(H[i])
           P == {i \in 0..Len(s) : Good(i)}
<1>2. Len(s) \in Nat /\ \A i \in 1..Len(s) : s[i] \in A /\ i - 1 \in 0..Len(s)
  OBVIOUS
<1>3. 0 \in P
  <2>1. H[0] = <<>> /\ FirstOf(s, 0) = {}
    BY <1>1, FirstOfs
  <2>2. ToSet(H[0]) = {} /\ Len(H[0]) = 0 /\ IsInjective(H[0])
    BY <2>1 DEF ToSet, IsInjective
  <2>3. Good(0)
    BY <2>1, <2>2
  <2> HIDE DEF Good
  <2> QED
    BY <1>2, <2>3
<1>4. ASSUME NEW i \in 1..Len(s), Good(i - 1) PROVE Good(i)
  <2> DEFINE q == H[i - 1]
  <2>1. FirstOf(s, i) = FirstOf(s, i - 1) \cup {s[i]}
    BY FirstOfs
  <2>2. q \in Seq(A) /\ s[i] \in A /\ Len(q) \in Nat
    BY <1>2
  <2>3. CASE s[i] \notin ToSet(q)
    <3>1. H[i] = Append(q, s[i])
      BY <1>1, <2>3
    <3>2. /\ ToSet(H[i]) = ToSet(q) \cup {s[i]} /\ Len(H[i]) = Len(q) + 1
          /\ IsInjective(q) /\ s[i] \notin ToSet(q) => IsInjective(H[i])
      <4> HIDE DEF q
      <4> QED
        BY <2>2, <3>1, AppendOf
    <3> QED
      BY <1>4, <2>1, <2>2, <2>3, <3>2
  <2>4. CASE s[i] \in ToSet(q)
    <3>1. H[i] = q
      BY <1>1, <2>4
    <3> QED
      BY <1>4, <2>1, <2>2, <2>4, <3>1
  <2> QED
    BY <2>3, <2>4
<1>5. 0..Len(s) \subseteq P
  <2>1. \A i \in 1..Len(s) : i - 1 \in P => i \in P
    BY <1>4
  <2> HIDE DEF P
  <2> QED
    BY <1>2, <1>3, <2>1, UpTo
<1>6. Good(Len(s))
  BY <1>2, <1>5
<1>7. Dedup(s) \in Seq(A)
  BY <1>1, <1>2
<1> QED
  BY <1>1, <1>6, <1>7, FirstOfs

LEMMA TailOf ==
    ASSUME NEW A, NEW s \in Seq(A), s # <<>>
    PROVE  /\ Tail(s) \in Seq(A) /\ Len(Tail(s)) = Len(s) - 1
           /\ Head(s) \in A /\ Head(s) \in ToSet(s)
           /\ ToSet(s) = ToSet(Tail(s)) \cup {Head(s)}
           /\ IsInjective(s) => IsInjective(Tail(s)) /\ Head(s) \notin ToSet(Tail(s))
<1>1. /\ Len(s) \in Nat \ {0} /\ DOMAIN s = 1..Len(s) /\ Head(s) = s[1]
      /\ Tail(s) \in Seq(A) /\ DOMAIN Tail(s) = 1..(Len(s) - 1) /\ Len(Tail(s)) = Len(s) - 1
      /\ \A i \in 1..(Len(s) - 1) : Tail(s)[i] = s[i + 1]
      /\ \A i \in 1..Len(s) : s[i] \in A
  OBVIOUS
<1>2. ToSet(Tail(s)) = {s[i] : i \in 2..Len(s)}
  <2>1. \A i \in 1..(Len(s) - 1) : i + 1 \in 2..Len(s)
    BY <1>1
  <2>2. \A i \in 2..Len(s) : i - 1 \in 1..(Len(s) - 1) /\ Tail(s)[i - 1] = s[i]
    BY <1>1
  <2>3. ToSet(Tail(s)) = {Tail(s)[i] : i \in 1..(Len(s) - 1)}
    BY <1>1 DEF ToSet
  <2>4. \A x \in ToSet(Tail(s)) : x \in {s[i] : i \in 2..Len(s)}
    BY <1>1, <2>1, <2>3
  <2>5. \A x \in {s[i] : i \in 2..Len(s)} : x \in ToSet(Tail(s))
    BY <2>2, <2>3
  <2> QED
    BY <2>4, <2>5
<1>3. 1..Len(s) = {1} \cup (2..Len(s))
  BY <1>1
<1>4. ToSet(s) = ToSet(Tail(s)) \cup {Head(s)}
  BY <1>1, <1>2, <1>3 DEF ToSet
<1>5. ASSUME IsInjective(s) PROVE IsInjective(Tail(s)) /\ Head(s) \notin ToSet(Tail(s))
  <2>1. \A i, k \in 1..Len(s) : s[i] = s[k] => i = k
    BY <1>1, <1>5 DEF IsInjective
  <2>2. Head(s) \notin ToSet(Tail(s))
    BY <1>1, <1>2, <2>1
  <2>3. IsInjective(Tail(s))
    <3> SUFFICES ASSUME NEW i \in 1..(Len(s) - 1), NEW k \in 1..(Len(s) - 1),
                        Tail(s)[i] = Tail(s)[k]
                 PROVE  i = k
      BY <1>1 DEF IsInjective
    <3>1. s[i + 1] = s[k + 1] /\ i + 1 \in 1..Len(s) /\ k + 1 \in 1..Len(s)
      BY <1>1
    <3> QED
      BY <2>1, <3>1
  <2> QED
    BY <2>2, <2>3
<1> QED
  BY <1>1, <1>4, <1>5

LEMMA ConcatOf ==
    ASSUME NEW A, NEW s \in Seq(A), NEW t \in Seq(A)
    PROVE  s \o t \in Seq(A) /\ ToSet(s \o t) = ToSet(s) \cup ToSet(t)
<1>1. /\ s \o t \in Seq(A) /\ Len(s) \in Nat /\ Len(t) \in Nat
      /\ DOMAIN s = 1..Len(s) /\ DOMAIN t = 1..Len(t) /\ DOMAIN (s \o t) = 1..(Len(s) + Len(t))
      /\ \A i \in 1..Len(s) : (s \o t)[i] = s[i]
      /\ \A i \in (Len(s) + 1)..(Len(s) + Len(t)) : (s \o t)[i] = t[i - Len(s)]
  OBVIOUS
<1>2. ToSet(s \o t) \subseteq ToSet(s) \cup ToSet(t)
  <2> SUFFICES ASSUME NEW i \in 1..(Len(s) + Len(t)) PROVE (s \o t)[i] \in ToSet(s) \cup ToSet(t)
    BY <1>1 DEF ToSet
  <2>1. CASE i \in 1..Len(s)
    BY <1>1, <2>1 DEF ToSet
  <2>2. CASE i \in (Len(s) + 1)..(Len(s) + Len(t))
    <3>1. i - Len(s) \in 1..Len(t) /\ (s \o t)[i] = t[i - Len(s)]
      BY <1>1, <2>2
    <3> QED
      BY <1>1, <3>1, Zenon DEF ToSet
  <2> QED
    BY <1>1, <2>1, <2>2
<1>3. ToSet(s) \subseteq ToSet(s \o t)
  <2> SUFFICES ASSUME NEW i \in 1..Len(s) PROVE s[i] \in ToSet(s \o t)
    BY <1>1 DEF ToSet
  <2>1. i \in 1..(Len(s) + Len(t)) /\ (s \o t)[i] = s[i]
    BY <1>1
  <2> QED
    BY <1>1, <2>1 DEF ToSet
<1>4. ToSet(t) \subseteq ToSet(s \o t)
  <2> SUFFICES ASSUME NEW i \in 1..Len(t) PROVE t[i] \in ToSet(s \o t)
    BY <1>1 DEF ToSet
  <2>1. i + Len(s) \in (Len(s) + 1)..(Len(s) + Len(t)) /\ i + Len(s) - Len(s) = i
    BY <1>1
  <2>2. i + Len(s) \in 1..(Len(s) + Len(t)) /\ (s \o t)[i + Len(s)] = t[i]
    BY <1>1, <2>1
  <2> QED
    BY <1>1, <2>2 DEF ToSet
<1> QED
  BY <1>1, <1>2, <1>3, <1>4

LEMMA ConcatOnce ==
    ASSUME NEW A, NEW s \in Seq(A), NEW t \in Seq(A),
           IsInjective(s), IsInjective(t), ToSet(s) \cap ToSet(t) = {}
    PROVE  IsInjective(s \o t)
<1>1. /\ s \o t \in Seq(A) /\ Len(s) \in Nat /\ Len(t) \in Nat
      /\ DOMAIN s = 1..Len(s) /\ DOMAIN t = 1..Len(t) /\ DOMAIN (s \o t) = 1..(Len(s) + Len(t))
      /\ \A i \in 1..Len(s) : (s \o t)[i] = s[i]
      /\ \A i \in (Len(s) + 1)..(Len(s) + Len(t)) : (s \o t)[i] = t[i - Len(s)]
  OBVIOUS
<1>2. \A i \in (Len(s) + 1)..(Len(s) + Len(t)) : i - Len(s) \in 1..Len(t)
  BY <1>1
<1>3. \A i \in 1..(Len(s) + Len(t)) : i \in 1..Len(s) \/ i \in (Len(s) + 1)..(Len(s) + Len(t))
  BY <1>1
<1>4. \A i \in 1..Len(s), k \in 1..Len(t) : s[i] # t[k]
  <2> SUFFICES ASSUME NEW i \in 1..Len(s), NEW k \in 1..Len(t), s[i] = t[k] PROVE FALSE
    OBVIOUS
  <2>1. s[i] \in ToSet(s) /\ t[k] \in ToSet(t)
    BY <1>1 DEF ToSet
  <2> QED
    BY <2>1
<1>5. SUFFICES ASSUME NEW i \in 1..(Len(s) + Len(t)), NEW k \in 1..(Len(s) + Len(t)),
                      (s \o t)[i] = (s \o t)[k]
               PROVE  i = k
  BY <1>1 DEF IsInjective
<1>6. \A l, m \in 1..Len(s) : s[l] = s[m] => l = m
  BY <1>1 DEF IsInjective
<1>7. \A l, m \in 1..Len(t) : t[l] = t[m] => l = m
  BY <1>1 DEF IsInjective
<1>8. CASE i \in 1..Len(s) /\ k \in 1..Len(s)
  BY <1>1, <1>5, <1>6, <1>8
<1>9. CASE i \in 1..Len(s) /\ k \in (Len(s) + 1)..(Len(s) + Len(t))
  <2>1. s[i] = t[k - Len(s)] /\ k - Len(s) \in 1..Len(t)
    BY <1>1, <1>2, <1>5, <1>9
  <2> QED
    BY <1>4, <1>9, <2>1
<1>10. CASE i \in (Len(s) + 1)..(Len(s) + Len(t)) /\ k \in 1..Len(s)
  <2>1. s[k] = t[i - Len(s)] /\ i - Len(s) \in 1..Len(t)
    BY <1>1, <1>2, <1>5, <1>10
  <2> QED
    BY <1>4, <1>10, <2>1
<1>11. CASE i \in (Len(s) + 1)..(Len(s) + Len(t)) /\ k \in (Len(s) + 1)..(Len(s) + Len(t))
  <2>1. t[i - Len(s)] = t[k - Len(s)] /\ i - Len(s) \in 1..Len(t) /\ k - Len(s) \in 1..Len(t)
    BY <1>1, <1>2, <1>5, <1>11
  <2>2. i - Len(s) = k - Len(s)
    BY <1>7, <2>1
  <2> QED
    BY <1>1, <2>2
<1> QED
  BY <1>3, <1>8, <1>9, <1>10, <1>11

\* A list without repetition is as long as the set of its elements.
LEMMA OnceLen ==
    ASSUME NEW A, NEW s \in Seq(A), IsInjective(s)
    PROVE  IsFiniteSet(ToSet(s)) /\ Cardinality(ToSet(s)) = Len(s)
<1>1. Len(s) \in Nat /\ DOMAIN s = 1..Len(s)
  OBVIOUS
<1>2. s \in [1..Len(s) -> ToSet(s)] /\ \A x \in ToSet(s) : \E i \in 1..Len(s) : s[i] = x
  BY <1>1 DEF ToSet
<1>3. s \in Bijection(1..Len(s), ToSet(s))
  BY <1>2 DEF Bijection, Injection, Surjection
<1>4. ExistsBijection(1..Len(s), ToSet(s))
  BY <1>3 DEF ExistsBijection
<1> QED
  BY <1>1, <1>4, FS_CountingElements, FS_NatBijection
=============================================================================
