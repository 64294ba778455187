------------------------- MODULE FleetConfig_proofs -------------------------
(* For any number of nodes, jobs, forms and patches: what is on its way to *)
(* a radio and what is kept of it are configurations and never the keys of *)
(* another radio; a job does to its nodes what was asked for, field by     *)
(* field; and a synchronisation with the alignment profile leaves nothing  *)
(* that the comparison with it shows.                                      *)
(*                                                                         *)
(* Patches nest sections, fields and lists of channels.  Most lemmas say   *)
(* what an operator does field by field (Merged, IsFlat, IsOver), so that  *)
(* the steps need not look into it again.                                  *)
EXTENDS FleetConfigProps, Lists_proofs, SequenceTheorems, FiniteSetTheorems, TLAPS

-----------------------------------------------------------------------------
(* Lists of at most two channels.                                          *)

\* A set of places has a last one.
LEMMA LastOf ==
    ASSUME NEW n \in Nat, NEW K \in SUBSET (1..n), K # {}
    PROVE  Max(K) \in K /\ \A k \in K : k <= Max(K)
<1> DEFINE HasLast(m) == \A L \in SUBSET (1..m) : L # {} => \E x \in L : \A k \in L : k <= x
           P == {m \in 0..n : HasLast(m)}
<1>1. 0 \in P
  <2>1. 1..0 = {}
    OBVIOUS
  <2>2. HasLast(0)
    BY <2>1
  <2> QED
    BY <2>2
<1>2. ASSUME NEW m \in 1..n, HasLast(m - 1) PROVE HasLast(m)
  <2> SUFFICES ASSUME NEW L \in SUBSET (1..m), L # {} PROVE \E x \in L : \A k \in L : k <= x
    OBVIOUS
  <2>1. CASE m \in L
    BY <2>1
  <2>2. CASE m \notin L
    <3>1. L \in SUBSET (1..(m - 1))
      BY <2>2
    <3> QED
      BY <1>2, <3>1
  <2> QED
    BY <2>1, <2>2
<1>3. \A m \in 1..n : m - 1 \in P => m \in P
  BY <1>2
<1>4. HasLast(n)
  <2>1. 0..n \subseteq P
    <3> HIDE DEF P
    <3> QED
      BY <1>1, <1>3, UpTo
  <2>2. n \in P
    BY <2>1
  <2> QED
    BY <2>2
<1>5. PICK x \in K : \A k \in K : k <= x
  BY <1>4
<1>6. \A k \in K : k \in Nat
  OBVIOUS
<1>7. \A k \in K : x >= k
  BY <1>5, <1>6
<1> QED
  BY <1>6, <1>7 DEF Max

LEMMA KeepChannels ==
    ASSUME NEW D \in SUBSET Channels
    PROVE  Keep(<<0, 1>>, D) = IF 0 \in D THEN IF 1 \in D THEN <<0, 1>> ELSE <<0>>
                               ELSE IF 1 \in D THEN <<1>> ELSE <<>>
<1> DEFINE s == <<0, 1>>
<1>1. s \in Seq(Channels) /\ Len(s) = 2 /\ s[1] = 0 /\ s[2] = 1
  BY DEF Channels
<1>2. PICK H \in [0..Len(s) -> Seq(Channels)] : KeepTurns(H, s, D)
  <2> HIDE DEF s
  <2> QED
    BY <1>1, KeepUnrolls
<1>3. H[0] = <<>> /\ Keep(s, D) = H[2]
  BY <1>1, <1>2 DEF KeepTurns
<1>4. H[1] = IF 0 \in D THEN <<0>> ELSE <<>>
  <2>1. 1 \in 1..Len(s) /\ 1 - 1 = 0
    BY <1>1
  <2>2. H[1] = IF s[1] \in D THEN Append(H[0], s[1]) ELSE H[0]
    BY <1>2, <2>1 DEF KeepTurns
  <2>3. Append(<<>>, 0) = <<0>>
    OBVIOUS
  <2> QED
    BY <1>1, <1>3, <2>2, <2>3
<1>5. H[2] = IF 1 \in D THEN Append(H[1], 1) ELSE H[1]
  <2>1. 2 \in 1..Len(s) /\ 2 - 1 = 1
    BY <1>1
  <2>2. H[2] = IF s[2] \in D THEN Append(H[1], s[2]) ELSE H[1]
    BY <1>2, <2>1 DEF KeepTurns
  <2> QED
    BY <1>1, <2>2
<1>6. Append(<<>>, 1) = <<1>>
  OBVIOUS
<1>7. Append(<<0>>, 1) = <<0, 1>>
  <2> DEFINE t == Append(<<0>>, 1)
  <2>1. <<0>> \in Seq(Channels) /\ Len(<<0>>) = 1 /\ <<0>>[1] = 0 /\ 1 \in Channels /\ 0 \in Channels
    BY DEF Channels
  <2>2. t \in Seq(Channels) /\ Len(t) = 2 /\ t[1] = 0 /\ t[2] = 1
    BY <2>1
  <2>3. <<0, 1>> \in Seq(Channels) /\ Len(<<0, 1>>) = 2 /\ <<0, 1>>[1] = 0 /\ <<0, 1>>[2] = 1
    BY <2>1
  <2>4. \A i \in 1..2 : t[i] = <<0, 1>>[i]
    BY <2>2, <2>3
  <2> HIDE DEF t
  <2>5. t = <<0, 1>>
    BY <2>2, <2>3, <2>4, SeqEqual
  <2> QED
    BY <2>5 DEF t
<1> QED
  BY <1>3, <1>4, <1>5, <1>6, <1>7

LEMMA AsListOf ==
    ASSUME NEW rows, DOMAIN rows \in SUBSET Channels
    PROVE  AsList(rows) = IF 0 \in DOMAIN rows
                          THEN IF 1 \in DOMAIN rows THEN <<rows[0], rows[1]>> ELSE <<rows[0]>>
                          ELSE IF 1 \in DOMAIN rows THEN <<rows[1]>> ELSE <<>>
<1> DEFINE order == Keep(<<0, 1>>, DOMAIN rows)
<1>1. AsList(rows) = [k \in DOMAIN order |-> rows[order[k]]]
  BY DEF AsList
<1>2. CASE 0 \in DOMAIN rows /\ 1 \in DOMAIN rows
  <2>1. order = <<0, 1>>
    BY <1>2, KeepChannels
  <2>2. AsList(rows) = [k \in 1..2 |-> rows[<<0, 1>>[k]]]
    BY <1>1, <2>1
  <2> QED
    BY <1>2, <2>2
<1>3. CASE 0 \in DOMAIN rows /\ 1 \notin DOMAIN rows
  <2>1. order = <<0>>
    BY <1>3, KeepChannels
  <2>2. AsList(rows) = [k \in 1..1 |-> rows[<<0>>[k]]]
    BY <1>1, <2>1
  <2> QED
    BY <1>3, <2>2
<1>4. CASE 0 \notin DOMAIN rows /\ 1 \in DOMAIN rows
  <2>1. order = <<1>>
    BY <1>4, KeepChannels
  <2>2. AsList(rows) = [k \in 1..1 |-> rows[<<1>>[k]]]
    BY <1>1, <2>1
  <2> QED
    BY <1>4, <2>2
<1>5. CASE 0 \notin DOMAIN rows /\ 1 \notin DOMAIN rows
  <2>1. order = <<>>
    BY <1>5, KeepChannels
  <2>2. AsList(rows) = [k \in {} |-> rows[<<>>[k]]]
    BY <1>1, <2>1
  <2> QED
    BY <1>5, <2>2
<1> QED
  BY <1>2, <1>3, <1>4, <1>5

-----------------------------------------------------------------------------
(* Sections of fields.                                                     *)

Has(t, s, f) == s \in DOMAIN t /\ f \in DOMAIN t[s]

\* In m are the fields of t, and over them those of u.
Merged(m, t, u) == \A s, f :
    /\ Has(m, s, f) <=> Has(t, s, f) \/ Has(u, s, f)
    /\ Has(m, s, f) => m[s][f] = IF Has(u, s, f) THEN u[s][f] ELSE t[s][f]

LEMMA MergeOf ==
    ASSUME NEW t, NEW u
    PROVE  DOMAIN Merge(t, u) = DOMAIN t \cup DOMAIN u /\ Merged(Merge(t, u), t, u)
<1> DEFINE m == Merge(t, u)
<1>1. DOMAIN m = DOMAIN t \cup DOMAIN u
  BY DEF Merge
<1>2. ASSUME NEW s \in DOMAIN m
      PROVE  m[s] = IF s \notin DOMAIN u THEN t[s]
                    ELSE IF s \notin DOMAIN t THEN u[s] ELSE Over(u[s], t[s])
  BY <1>1, <1>2 DEF Merge
<1>3. ASSUME NEW s, NEW f
      PROVE  /\ Has(m, s, f) <=> Has(t, s, f) \/ Has(u, s, f)
             /\ Has(m, s, f) => m[s][f] = IF Has(u, s, f) THEN u[s][f] ELSE t[s][f]
  <2> HIDE DEF m
  <2>1. CASE s \notin DOMAIN u
    BY <1>1, <1>2, <2>1 DEF Has
  <2>2. CASE s \in DOMAIN u /\ s \notin DOMAIN t
    BY <1>1, <1>2, <2>2 DEF Has
  <2>3. CASE s \in DOMAIN u /\ s \in DOMAIN t
    <3>1. m[s] = Over(u[s], t[s])
      BY <1>1, <1>2, <2>3
    <3>2. /\ DOMAIN m[s] = DOMAIN u[s] \cup DOMAIN t[s]
          /\ \A g \in DOMAIN m[s] : m[s][g] = IF g \in DOMAIN u[s] THEN u[s][g] ELSE t[s][g]
      BY <3>1 DEF Over
    <3> QED
      BY <1>1, <2>3, <3>2 DEF Has
  <2> QED
    BY <2>1, <2>2, <2>3
<1>4. Merged(m, t, u)
  <2> HIDE DEF m
  <2> QED
    BY <1>3 DEF Merged
<1> QED
  BY <1>1, <1>4

LEMMA PartOf ==
    ASSUME NEW t, NEW shape
    PROVE  IsPart(t, shape) <=>
             /\ DOMAIN t \subseteq DOMAIN shape
             /\ \A s, f : Has(t, s, f) => f \in shape[s] /\ t[s][f] \in Values
BY DEF IsPart, Has

LEMMA MergePart ==
    ASSUME NEW t, NEW u, NEW shape, IsPart(t, shape), IsPart(u, shape)
    PROVE  IsPart(Merge(t, u), shape)
<1>1. PICK m : m = Merge(t, u)
  OBVIOUS
<1>2. DOMAIN m = DOMAIN t \cup DOMAIN u /\ Merged(m, t, u)
  BY <1>1, MergeOf
<1>3. DOMAIN m \subseteq DOMAIN shape
  BY <1>2, PartOf
<1>4. ASSUME NEW s, NEW f, Has(m, s, f) PROVE f \in shape[s] /\ m[s][f] \in Values
  <2>1. /\ Has(t, s, f) => f \in shape[s] /\ t[s][f] \in Values
        /\ Has(u, s, f) => f \in shape[s] /\ u[s][f] \in Values
    BY PartOf
  <2> QED
    BY <1>2, <1>4, <2>1 DEF Merged
<1> QED
  BY <1>1, <1>3, <1>4, PartOf

-----------------------------------------------------------------------------
(* Field by field.                                                         *)

IsFlat(F, t, u, v) ==
    /\ F = [p \in DOMAIN F |-> F[p]]
    /\ \A p \in DOMAIN F : \E s, f :
          p = <<"local", s, f>> \/ p = <<"module", s, f>> \/ p = <<"channels", s, f>>
    /\ \A s, f : /\ <<"local", s, f>> \in DOMAIN F <=> Has(t, s, f)
                 /\ Has(t, s, f) => F[<<"local", s, f>>] = t[s][f]
    /\ \A s, f : /\ <<"module", s, f>> \in DOMAIN F <=> Has(u, s, f)
                 /\ Has(u, s, f) => F[<<"module", s, f>>] = u[s][f]
    /\ \A s, f : /\ <<"channels", s, f>> \in DOMAIN F <=> Has(v, s, f)
                 /\ Has(v, s, f) => F[<<"channels", s, f>>] = v[s][f]

\* X holds one kind of fields.
OneKind(X, name, t) ==
    /\ \A p \in DOMAIN X : \E s, f : p = <<name, s, f>>
    /\ \A s, f : /\ <<name, s, f>> \in DOMAIN X <=> Has(t, s, f)
                 /\ Has(t, s, f) => X[<<name, s, f>>] = t[s][f]
    /\ \A other, s, f : <<other, s, f>> \in DOMAIN X => other = name

LEMMA FlatPart ==
    ASSUME NEW name, NEW t, NEW F,
           F = [p \in {<<name, q[1], q[2]>> : q \in Paths(t)} |-> t[p[2]][p[3]]]
    PROVE  OneKind(F, name, t)
<1>1. \A p \in DOMAIN F : \E q \in Paths(t) : p = <<name, q[1], q[2]>>
  OBVIOUS
<1>2. \A q \in Paths(t) : Has(t, q[1], q[2])
  BY DEF Paths, Has
<1>3. ASSUME NEW s, NEW f, Has(t, s, f)
      PROVE  <<name, s, f>> \in DOMAIN F /\ F[<<name, s, f>>] = t[s][f]
  <2>1. <<s, f>> \in {s} \X DOMAIN t[s]
    BY <1>3 DEF Has
  <2>2. <<s, f>> \in Paths(t)
    BY <1>3, <2>1, Zenon DEF Paths, Has
  <2>3. <<name, s, f>> \in DOMAIN F
    BY <2>2
  <2>4. F[<<name, s, f>>] = t[<<name, s, f>>[2]][<<name, s, f>>[3]]
    BY <2>3
  <2> QED
    BY <2>3, <2>4
<1>4. ASSUME NEW other, NEW s, NEW f, <<other, s, f>> \in DOMAIN F
      PROVE  other = name /\ Has(t, s, f)
  <2>1. PICK q \in Paths(t) : <<other, s, f>> = <<name, q[1], q[2]>>
    BY <1>1, <1>4
  <2>2. other = name /\ s = q[1] /\ f = q[2]
    BY <2>1
  <2> QED
    BY <1>2, <2>2
<1>5. \A p \in DOMAIN F : \E s, f : p = <<name, s, f>>
  BY <1>1, Zenon
<1> QED
  BY <1>3, <1>4, <1>5, Zenon DEF OneKind

LEMMA FlatIs ==
    ASSUME NEW c, NEW rows
    PROVE  IsFlat(Flat(c, rows), c.local, c.module, Settings(rows))
<1> DEFINE X == [p \in {<<"local", q[1], q[2]>> : q \in Paths(c.local)} |-> c.local[p[2]][p[3]]]
           Y == [p \in {<<"module", q[1], q[2]>> : q \in Paths(c.module)} |-> c.module[p[2]][p[3]]]
           v == Settings(rows)
           Z == [p \in {<<"channels", q[1], q[2]>> : q \in Paths(v)} |-> v[p[2]][p[3]]]
           F == Flat(c, rows)
<1>1. F = Over(X, Over(Y, Z))
  BY DEF Flat
<1>2. /\ DOMAIN F = DOMAIN X \cup DOMAIN Y \cup DOMAIN Z
      /\ F = [p \in DOMAIN F |-> F[p]]
      /\ \A p \in DOMAIN F : F[p] = IF p \in DOMAIN X THEN X[p] ELSE IF p \in DOMAIN Y THEN Y[p] ELSE Z[p]
  <2> HIDE DEF X, Y, Z, F
  <2> QED
    BY <1>1 DEF Over
<1>3. OneKind(X, "local", c.local)
  <2>1. X = [p \in {<<"local", q[1], q[2]>> : q \in Paths(c.local)} |-> c.local[p[2]][p[3]]]
    OBVIOUS
  <2> HIDE DEF X
  <2> QED
    BY <2>1, FlatPart
<1>4. OneKind(Y, "module", c.module)
  <2>1. Y = [p \in {<<"module", q[1], q[2]>> : q \in Paths(c.module)} |-> c.module[p[2]][p[3]]]
    OBVIOUS
  <2> HIDE DEF Y
  <2> QED
    BY <2>1, FlatPart
<1>5. OneKind(Z, "channels", v)
  <2>1. Z = [p \in {<<"channels", q[1], q[2]>> : q \in Paths(v)} |-> v[p[2]][p[3]]]
    OBVIOUS
  <2> HIDE DEF Z, v
  <2> QED
    BY <2>1, FlatPart
<1> HIDE DEF X, Y, Z, F
<1>6. \A p \in DOMAIN F : \E s, f :
          p = <<"local", s, f>> \/ p = <<"module", s, f>> \/ p = <<"channels", s, f>>
  BY <1>2, <1>3, <1>4, <1>5 DEF OneKind
<1>7. \A s, f : /\ <<"local", s, f>> \in DOMAIN F <=> Has(c.local, s, f)
                /\ Has(c.local, s, f) => F[<<"local", s, f>>] = c.local[s][f]
  <2> SUFFICES ASSUME NEW s, NEW f
               PROVE  /\ <<"local", s, f>> \in DOMAIN F <=> Has(c.local, s, f)
                      /\ Has(c.local, s, f) => F[<<"local", s, f>>] = c.local[s][f]
    OBVIOUS
  <2>1. <<"local", s, f>> \notin DOMAIN Y /\ <<"local", s, f>> \notin DOMAIN Z
    BY <1>4, <1>5 DEF OneKind
  <2> QED
    BY <1>2, <1>3, <2>1 DEF OneKind
<1>8. \A s, f : /\ <<"module", s, f>> \in DOMAIN F <=> Has(c.module, s, f)
                /\ Has(c.module, s, f) => F[<<"module", s, f>>] = c.module[s][f]
  BY <1>2, <1>3, <1>4, <1>5 DEF OneKind
<1>9. \A s, f : /\ <<"channels", s, f>> \in DOMAIN F <=> Has(v, s, f)
                /\ Has(v, s, f) => F[<<"channels", s, f>>] = v[s][f]
  BY <1>2, <1>3, <1>4, <1>5 DEF OneKind
<1> QED
  BY <1>2, <1>6, <1>7, <1>8, <1>9 DEF IsFlat, F

LEMMA FlatMerged ==
    ASSUME NEW F, NEW t1, NEW u1, NEW v1, IsFlat(F, t1, u1, v1),
           NEW G, NEW t2, NEW u2, NEW v2, IsFlat(G, t2, u2, v2),
           NEW M, NEW t, NEW u, NEW v, IsFlat(M, t, u, v),
           Merged(t, t1, t2), Merged(u, u1, u2), Merged(v, v1, v2)
    PROVE  M = Over(G, F)
<1>1. PICK H : H = Over(G, F)
  OBVIOUS
<1>2. /\ DOMAIN H = DOMAIN G \cup DOMAIN F
      /\ H = [p \in DOMAIN H |-> H[p]]
      /\ \A p \in DOMAIN H : H[p] = IF p \in DOMAIN G THEN G[p] ELSE F[p]
  BY <1>1 DEF Over
<1>3. ASSUME NEW s, NEW f
      PROVE  /\ <<"local", s, f>> \in DOMAIN M <=> <<"local", s, f>> \in DOMAIN H
             /\ <<"local", s, f>> \in DOMAIN M => M[<<"local", s, f>>] = H[<<"local", s, f>>]
  <2>1. /\ <<"local", s, f>> \in DOMAIN M <=> Has(t, s, f)
        /\ Has(t, s, f) => M[<<"local", s, f>>] = t[s][f]
        /\ <<"local", s, f>> \in DOMAIN F <=> Has(t1, s, f)
        /\ Has(t1, s, f) => F[<<"local", s, f>>] = t1[s][f]
        /\ <<"local", s, f>> \in DOMAIN G <=> Has(t2, s, f)
        /\ Has(t2, s, f) => G[<<"local", s, f>>] = t2[s][f]
    BY DEF IsFlat
  <2>2. /\ Has(t, s, f) <=> Has(t1, s, f) \/ Has(t2, s, f)
        /\ Has(t, s, f) => t[s][f] = IF Has(t2, s, f) THEN t2[s][f] ELSE t1[s][f]
    BY DEF Merged
  <2> QED
    BY <1>2, <2>1, <2>2
<1>4. ASSUME NEW s, NEW f
      PROVE  /\ <<"module", s, f>> \in DOMAIN M <=> <<"module", s, f>> \in DOMAIN H
             /\ <<"module", s, f>> \in DOMAIN M => M[<<"module", s, f>>] = H[<<"module", s, f>>]
  <2>1. /\ <<"module", s, f>> \in DOMAIN M <=> Has(u, s, f)
        /\ Has(u, s, f) => M[<<"module", s, f>>] = u[s][f]
        /\ <<"module", s, f>> \in DOMAIN F <=> Has(u1, s, f)
        /\ Has(u1, s, f) => F[<<"module", s, f>>] = u1[s][f]
        /\ <<"module", s, f>> \in DOMAIN G <=> Has(u2, s, f)
        /\ Has(u2, s, f) => G[<<"module", s, f>>] = u2[s][f]
    BY DEF IsFlat
  <2>2. /\ Has(u, s, f) <=> Has(u1, s, f) \/ Has(u2, s, f)
        /\ Has(u, s, f) => u[s][f] = IF Has(u2, s, f) THEN u2[s][f] ELSE u1[s][f]
    BY DEF Merged
  <2> QED
    BY <1>2, <2>1, <2>2
<1>5. ASSUME NEW s, NEW f
      PROVE  /\ <<"channels", s, f>> \in DOMAIN M <=> <<"channels", s, f>> \in DOMAIN H
             /\ <<"channels", s, f>> \in DOMAIN M => M[<<"channels", s, f>>] = H[<<"channels", s, f>>]
  <2>1. /\ <<"channels", s, f>> \in DOMAIN M <=> Has(v, s, f)
        /\ Has(v, s, f) => M[<<"channels", s, f>>] = v[s][f]
        /\ <<"channels", s, f>> \in DOMAIN F <=> Has(v1, s, f)
        /\ Has(v1, s, f) => F[<<"channels", s, f>>] = v1[s][f]
        /\ <<"channels", s, f>> \in DOMAIN G <=> Has(v2, s, f)
        /\ Has(v2, s, f) => G[<<"channels", s, f>>] = v2[s][f]
    BY DEF IsFlat
  <2>2. /\ Has(v, s, f) <=> Has(v1, s, f) \/ Has(v2, s, f)
        /\ Has(v, s, f) => v[s][f] = IF Has(v2, s, f) THEN v2[s][f] ELSE v1[s][f]
    BY DEF Merged
  <2> QED
    BY <1>2, <2>1, <2>2
<1>6. /\ M = [p \in DOMAIN M |-> M[p]]
      /\ \A p \in DOMAIN M \cup DOMAIN H : \E s, f :
            p = <<"local", s, f>> \/ p = <<"module", s, f>> \/ p = <<"channels", s, f>>
  BY <1>2 DEF IsFlat
<1>7. \A p \in DOMAIN M \cup DOMAIN H : /\ p \in DOMAIN M <=> p \in DOMAIN H
                                        /\ p \in DOMAIN M => M[p] = H[p]
  BY <1>3, <1>4, <1>5, <1>6
<1>8. M = H
  BY <1>2, <1>6, <1>7
<1> QED
  BY <1>1, <1>8

-----------------------------------------------------------------------------
(* Rows of channels.                                                       *)

IsRows(rows) == rows \in Seq({rows[i] : i \in DOMAIN rows}) /\ \A i \in DOMAIN rows : IsRow(rows[i])

\* No channel has two rows.
Once(rows) == \A k, l \in DOMAIN rows :
    rows[k].index # {} /\ rows[k].index = rows[l].index => k = l

LEMMA RowsDomain ==
    ASSUME NEW rows, IsRows(rows)
    PROVE  Len(rows) \in Nat /\ DOMAIN rows = 1..Len(rows)
<1> DEFINE S == {rows[i] : i \in DOMAIN rows}
<1>1. rows \in Seq(S)
  BY DEF IsRows
<1> HIDE DEF S
<1> QED
  BY <1>1

LEMMA RowIndex ==
    ASSUME NEW row, IsRow(row), row.index # {}
    PROVE  \E i \in Channels : row.index = {i}
BY DEF IsRow

LEMMA GivenOf ==
    ASSUME NEW rows, IsRows(rows)
    PROVE  /\ DOMAIN Given(rows) = {k \in DOMAIN rows : rows[k].index # {}}
           /\ \A k \in DOMAIN Given(rows) : rows[k].index = {Given(rows)[k]}
           /\ Range(Given(rows)) \subseteq Channels
           /\ \A i : i \in Range(Given(rows)) <=> \E k \in DOMAIN rows : rows[k].index = {i}
<1>1. DOMAIN Given(rows) = {k \in DOMAIN rows : rows[k].index # {}}
  BY DEF Given
<1>2. ASSUME NEW k \in DOMAIN Given(rows)
      PROVE  rows[k].index = {Given(rows)[k]} /\ Given(rows)[k] \in Channels
  <2>1. Given(rows)[k] = CHOOSE i \in rows[k].index : TRUE
    BY <1>1 DEF Given
  <2>2. PICK i \in Channels : rows[k].index = {i}
    BY <1>1, RowIndex DEF IsRows
  <2> QED
    BY <2>1, <2>2
<1>3. Range(Given(rows)) \subseteq Channels
  BY <1>2 DEF Range
<1>4. ASSUME NEW i, i \in Range(Given(rows)) PROVE \E k \in DOMAIN rows : rows[k].index = {i}
  BY <1>1, <1>2, <1>4 DEF Range
<1>5. ASSUME NEW i, NEW k \in DOMAIN rows, rows[k].index = {i} PROVE i \in Range(Given(rows))
  <2>1. k \in DOMAIN Given(rows)
    BY <1>1, <1>5
  <2>2. Given(rows)[k] = i
    BY <1>2, <1>5, <2>1
  <2> QED
    BY <2>1, <2>2 DEF Range
<1> QED
  BY <1>1, <1>2, <1>3, <1>4, <1>5

LEMMA ByIndexOf ==
    ASSUME NEW rows, IsRows(rows), NEW at, DOMAIN at \subseteq DOMAIN rows
    PROVE  /\ DOMAIN ByIndex(rows, at) = Range(at)
           /\ \A i \in Range(at) : \E k \in DOMAIN at : at[k] = i /\ ByIndex(rows, at)[i] = rows[k]
           /\ \A i \in Range(at) : IsRow(ByIndex(rows, at)[i])
<1>1. ASSUME NEW i \in Range(at)
      PROVE  \E k \in DOMAIN at : at[k] = i /\ ByIndex(rows, at)[i] = rows[k]
  <2> DEFINE K == {k \in DOMAIN at : at[k] = i}
  <2>1. ByIndex(rows, at)[i] = rows[Max(K)]
    BY DEF ByIndex
  <2>2. K # {} /\ K \in SUBSET (1..Len(rows)) /\ Len(rows) \in Nat
    BY RowsDomain DEF Range
  <2>3. Max(K) \in K
    <3> HIDE DEF K
    <3> QED
      BY <2>2, LastOf
  <2> QED
    BY <2>1, <2>3
<1>2. DOMAIN ByIndex(rows, at) = Range(at)
  BY DEF ByIndex
<1>3. \A k \in DOMAIN at : IsRow(rows[k])
  BY DEF IsRows
<1> QED
  BY <1>1, <1>2, <1>3

\* What an override has of fields, whatever the order of the items.
LEMMA OverrideOf ==
    ASSUME NEW settings, NEW items, IsRows(items), NEW i,
           DOMAIN settings \subseteq ChannelFields, \A f \in DOMAIN settings : settings[f] \in Switch
    PROVE  /\ DOMAIN Override(settings, items, i) \subseteq ChannelFields
           /\ DOMAIN settings \subseteq DOMAIN Override(settings, items, i)
           /\ \A f \in DOMAIN Override(settings, items, i) : Override(settings, items, i)[f] \in Switch
           /\ Override(settings, items, i)
                = [f \in DOMAIN Override(settings, items, i) |-> Override(settings, items, i)[f]]
<1> DEFINE own == {k \in DOMAIN Given(items) : Given(items)[k] = i}
           having(f) == {k \in own : f \in DOMAIN items[k].settings}
           fields == DOMAIN settings \cup UNION {DOMAIN items[k].settings : k \in own}
           F == Override(settings, items, i)
<1>1. F = [f \in fields |-> IF having(f) = {} THEN settings[f] ELSE items[Max(having(f))].settings[f]]
  BY DEF Override
<1>2. \A k \in own : k \in DOMAIN items /\ IsRow(items[k])
  BY GivenOf DEF IsRows
<1>3. fields \subseteq ChannelFields
  BY <1>2 DEF IsRow
<1>4. ASSUME NEW f \in fields PROVE F[f] \in Switch
  <2>1. CASE having(f) = {}
    <3>1. f \in DOMAIN settings
      BY <2>1
    <3>2. F[f] = settings[f]
      BY <1>1, <2>1
    <3> QED
      BY <3>1, <3>2
  <2>2. CASE having(f) # {}
    <3>1. having(f) \in SUBSET (1..Len(items)) /\ Len(items) \in Nat
      BY <1>2, RowsDomain
    <3>2. Max(having(f)) \in having(f)
      <4> HIDE DEF having
      <4> QED
        BY <2>2, <3>1, LastOf
    <3>3. F[f] = items[Max(having(f))].settings[f]
      BY <1>1, <2>2
    <3>4. PICK k : k = Max(having(f))
      OBVIOUS
    <3>5. k \in own /\ f \in DOMAIN items[k].settings
      BY <3>2, <3>4
    <3> QED
      BY <1>2, <3>3, <3>4, <3>5 DEF IsRow
  <2> QED
    BY <2>1, <2>2
<1> HIDE DEF fields, having, own
<1> QED
  BY <1>1, <1>3, <1>4 DEF fields

\* F has what g has and, of the rest, what f has.
IsOver(F, g, f) ==
    /\ DOMAIN F = DOMAIN f \cup DOMAIN g
    /\ \A x \in DOMAIN F : F[x] = IF x \in DOMAIN g THEN g[x] ELSE f[x]

\* Where a channel has one row at most, that row counts.
LEMMA OverrideOnce ==
    ASSUME NEW settings, NEW items, IsRows(items), Once(items),
           NEW k \in DOMAIN items, NEW i, items[k].index = {i}
    PROVE  IsOver(Override(settings, items, i), items[k].settings, settings)
<1> DEFINE own == {l \in DOMAIN Given(items) : Given(items)[l] = i}
           having(f) == {l \in own : f \in DOMAIN items[l].settings}
           F == Override(settings, items, i)
<1>1. own = {k}
  <2>1. k \in DOMAIN Given(items)
    BY GivenOf
  <2>0. \A l \in DOMAIN Given(items) : items[l].index = {Given(items)[l]} /\ l \in DOMAIN items
    BY GivenOf
  <2>2. Given(items)[k] = i
    <3>1. items[k].index = {Given(items)[k]}
      BY <2>0, <2>1
    <3> QED
      BY <3>1
  <2>3. \A l \in own : items[l].index = {i} /\ l \in DOMAIN items
    BY <2>0
  <2>4. \A l \in own : l = k
    BY <2>3 DEF Once
  <2> QED
    BY <2>1, <2>2, <2>4
<1>2. DOMAIN F = DOMAIN settings \cup DOMAIN items[k].settings
  <2>1. DOMAIN F = DOMAIN settings \cup UNION {DOMAIN items[l].settings : l \in own}
    BY DEF Override
  <2> HIDE DEF own, F
  <2> QED
    BY <1>1, <2>1
<1>3. ASSUME NEW f \in DOMAIN F
      PROVE  F[f] = IF f \in DOMAIN items[k].settings THEN items[k].settings[f] ELSE settings[f]
  <2>1. F[f] = IF having(f) = {} THEN settings[f] ELSE items[Max(having(f))].settings[f]
    BY DEF Override
  <2>2. CASE f \in DOMAIN items[k].settings
    <3>1. having(f) = {k}
      BY <1>1, <2>2
    <3>2. Len(items) \in Nat /\ {k} \in SUBSET (1..Len(items)) /\ {k} # {}
      BY RowsDomain
    <3>3. Max({k}) = k
      BY <3>2, LastOf
    <3> QED
      BY <2>1, <2>2, <3>1, <3>3
  <2>3. CASE f \notin DOMAIN items[k].settings
    <3>1. having(f) = {}
      BY <1>1, <2>3
    <3> QED
      BY <2>1, <2>3, <3>1
  <2> QED
    BY <2>2, <2>3
<1> HIDE DEF F
<1>4. IsOver(F, items[k].settings, settings)
  BY <1>2, <1>3 DEF IsOver
<1> QED
  BY <1>4 DEF F

LEMMA OverrideNone ==
    ASSUME NEW settings, NEW items, IsRows(items), NEW i, \A k \in DOMAIN items : items[k].index # {i}
    PROVE  /\ DOMAIN Override(settings, items, i) = DOMAIN settings
           /\ \A f \in DOMAIN settings : Override(settings, items, i)[f] = settings[f]
<1> DEFINE own == {l \in DOMAIN Given(items) : Given(items)[l] = i}
           having(f) == {l \in own : f \in DOMAIN items[l].settings}
           F == Override(settings, items, i)
<1>1. own = {}
  <2>1. \A l \in own : l \in DOMAIN items /\ items[l].index = {i}
    BY GivenOf
  <2> QED
    BY <2>1
<1>2. F = [f \in DOMAIN settings \cup UNION {DOMAIN items[l].settings : l \in own} |->
             IF having(f) = {} THEN settings[f] ELSE items[Max(having(f))].settings[f]]
  BY DEF Override
<1>3. UNION {DOMAIN items[l].settings : l \in own} = {} /\ \A f : having(f) = {}
  BY <1>1
<1> HIDE DEF own, having, F
<1> QED
  BY <1>2, <1>3 DEF F

\* What MergeRows makes a list of.
Joined(rows, items) ==
    [i \in DOMAIN rows \cup Range(Given(items)) |->
        IF i \notin Range(Given(items)) THEN rows[i]
        ELSE [index |-> {i},
              settings |-> Override(IF i \in DOMAIN rows THEN rows[i].settings ELSE <<>>, items, i)]]

LEMMA JoinedRows ==
    ASSUME NEW rows, DOMAIN rows \subseteq Channels, \A i \in DOMAIN rows : IsRow(rows[i]),
           NEW items, IsRows(items)
    PROVE  /\ DOMAIN Joined(rows, items) = DOMAIN rows \cup Range(Given(items))
           /\ DOMAIN Joined(rows, items) \subseteq Channels
           /\ \A i \in DOMAIN Joined(rows, items) :
                 /\ IsRow(Joined(rows, items)[i])
                 /\ \/ Joined(rows, items)[i].index = {i}
                    \/ i \in DOMAIN rows /\ Joined(rows, items)[i].index = rows[i].index
<1> DEFINE J == Joined(rows, items)
<1>1. DOMAIN J = DOMAIN rows \cup Range(Given(items)) /\ Range(Given(items)) \subseteq Channels
  BY GivenOf DEF Joined
<1>2. ASSUME NEW i \in DOMAIN J
      PROVE  IsRow(J[i]) /\ (J[i].index = {i} \/ (i \in DOMAIN rows /\ J[i].index = rows[i].index))
  <2>1. CASE i \notin Range(Given(items))
    <3>1. i \in DOMAIN rows /\ J[i] = rows[i]
      BY <1>1, <2>1 DEF Joined
    <3> QED
      BY <3>1
  <2>2. CASE i \in Range(Given(items))
    <3> DEFINE old == IF i \in DOMAIN rows THEN rows[i].settings ELSE <<>>
    <3>1. J[i] = [index |-> {i}, settings |-> Override(old, items, i)]
      BY <2>2, <1>1 DEF Joined
    <3>2. DOMAIN old \subseteq ChannelFields /\ \A f \in DOMAIN old : old[f] \in Switch
      <4>1. CASE i \in DOMAIN rows
        BY <4>1 DEF IsRow
      <4>2. CASE i \notin DOMAIN rows
        BY <4>2
      <4> QED
        BY <4>1, <4>2
    <3> HIDE DEF old
    <3>3. /\ DOMAIN Override(old, items, i) \subseteq ChannelFields
          /\ \A f \in DOMAIN Override(old, items, i) : Override(old, items, i)[f] \in Switch
      BY <3>2, OverrideOf
    <3>4. i \in Channels
      BY <1>1, <2>2
    <3>5. J[i].index = {i} /\ J[i].settings = Override(old, items, i)
      BY <3>1
    <3> QED
      BY <3>3, <3>4, <3>5 DEF IsRow
  <2> QED
    BY <2>1, <2>2
<1> QED
  BY <1>1, <1>2

LEMMA SettingsOf ==
    ASSUME NEW rows
    PROVE  \A i, f : /\ Has(Settings(rows), i, f) <=> i \in DOMAIN rows /\ f \in DOMAIN rows[i].settings
                     /\ i \in DOMAIN rows => Settings(rows)[i] = rows[i].settings
BY DEF Settings, Has

\* Field by field, the items are merged over the rows.
LEMMA JoinedMerged ==
    ASSUME NEW rows, DOMAIN rows \subseteq Channels, \A i \in DOMAIN rows : IsRow(rows[i]),
           NEW items, IsRows(items), Once(items)
    PROVE  Merged(Settings(Joined(rows, items)), Settings(rows), Settings(ByIndex(items, Given(items))))
<1>1. PICK J : J = Joined(rows, items)
  OBVIOUS
<1>2. PICK B : B = ByIndex(items, Given(items))
  OBVIOUS
<1>3. DOMAIN J = DOMAIN rows \cup Range(Given(items))
  BY <1>1, JoinedRows
<1>4. DOMAIN B = Range(Given(items)) /\ \A i \in DOMAIN B : \E k \in DOMAIN items : items[k].index = {i} /\ B[i] = items[k]
  <2>1. /\ DOMAIN Given(items) \subseteq DOMAIN items
        /\ \A k \in DOMAIN Given(items) : items[k].index = {Given(items)[k]}
    BY GivenOf
  <2>2. /\ DOMAIN B = Range(Given(items))
        /\ \A i \in DOMAIN B : \E k \in DOMAIN Given(items) : Given(items)[k] = i /\ B[i] = items[k]
    BY <1>2, <2>1, ByIndexOf
  <2> QED
    BY <2>1, <2>2
<1>5. ASSUME NEW i, NEW f
      PROVE  /\ Has(Settings(J), i, f) <=> Has(Settings(rows), i, f) \/ Has(Settings(B), i, f)
             /\ Has(Settings(J), i, f) =>
                  Settings(J)[i][f] = IF Has(Settings(B), i, f) THEN Settings(B)[i][f] ELSE Settings(rows)[i][f]
  <2>1. CASE i \notin Range(Given(items))
    <3>1. i \in DOMAIN J <=> i \in DOMAIN rows
      BY <1>3, <2>1
    <3>2. i \in DOMAIN J => J[i] = rows[i]
      BY <1>1, <1>3, <2>1 DEF Joined
    <3>3. i \notin DOMAIN B
      BY <1>4, <2>1
    <3> QED
      BY <3>1, <3>2, <3>3, SettingsOf
  <2>2. CASE i \in Range(Given(items))
    <3>1. PICK k \in DOMAIN items : items[k].index = {i} /\ B[i] = items[k]
      BY <1>4, <2>2
    <3>2. PICK old : old = IF i \in DOMAIN rows THEN rows[i].settings ELSE <<>>
      OBVIOUS
    <3>3. J[i] = [index |-> {i}, settings |-> Override(old, items, i)]
      BY <1>1, <1>3, <2>2, <3>2 DEF Joined
    <3>4. PICK new : new = Override(old, items, i)
      OBVIOUS
    <3>5. /\ DOMAIN new = DOMAIN old \cup DOMAIN items[k].settings
          /\ \A g \in DOMAIN new :
                new[g] = IF g \in DOMAIN items[k].settings THEN items[k].settings[g] ELSE old[g]
      <4>1. items[k].index = {i}
        BY <3>1
      <4>2. IsOver(Override(old, items, i), items[k].settings, old)
        BY <4>1, OverrideOnce
      <4> QED
        BY <3>4, <4>2 DEF IsOver
    <3>6. J[i].settings = new /\ i \in DOMAIN J /\ i \in DOMAIN B
      BY <1>3, <1>4, <2>2, <3>3, <3>4
    <3>7. DOMAIN <<>> = {}
      OBVIOUS
    <3>8. IF i \in DOMAIN rows THEN old = rows[i].settings ELSE DOMAIN old = {}
      BY <3>2, <3>7
    <3>9. /\ Has(Settings(J), i, f) <=> f \in DOMAIN new
          /\ Settings(J)[i] = new
          /\ Has(Settings(B), i, f) <=> f \in DOMAIN items[k].settings
          /\ Settings(B)[i] = items[k].settings
          /\ Has(Settings(rows), i, f) <=> f \in DOMAIN old
          /\ i \in DOMAIN rows => Settings(rows)[i] = old
      <4>1. /\ Has(Settings(J), i, f) <=> f \in DOMAIN J[i].settings
            /\ Settings(J)[i] = J[i].settings
        BY <3>6, SettingsOf
      <4>2. /\ Has(Settings(B), i, f) <=> f \in DOMAIN B[i].settings
            /\ Settings(B)[i] = B[i].settings
        BY <3>6, SettingsOf
      <4>3. /\ Has(Settings(rows), i, f) <=> f \in DOMAIN old
            /\ i \in DOMAIN rows => Settings(rows)[i] = old
        BY <3>8, SettingsOf
      <4> QED
        BY <3>1, <3>6, <4>1, <4>2, <4>3
    <3> QED
      BY <3>5, <3>8, <3>9
  <2> QED
    BY <2>1, <2>2
<1>6. Merged(Settings(J), Settings(rows), Settings(B))
  BY <1>5 DEF Merged
<1> QED
  BY <1>1, <1>2, <1>6

\* A list of rows that all have their index.
LEMMA ListOf ==
    ASSUME NEW J, DOMAIN J \subseteq Channels, \A i \in DOMAIN J : IsRow(J[i]) /\ J[i].index = {i}
    PROVE  /\ IsRows(AsList(J)) /\ Once(AsList(J))
           /\ \A k \in DOMAIN AsList(J) : AsList(J)[k].index # {}
           /\ Settings(ByIndex(AsList(J), Given(AsList(J)))) = Settings(J)
<1>1. PICK L : L = AsList(J)
  OBVIOUS
<1>2. L = IF 0 \in DOMAIN J
          THEN IF 1 \in DOMAIN J THEN <<J[0], J[1]>> ELSE <<J[0]>>
          ELSE IF 1 \in DOMAIN J THEN <<J[1]>> ELSE <<>>
  BY <1>1, AsListOf
<1>3. DOMAIN J \subseteq {0, 1}
  BY DEF Channels
<1>4. /\ \A k \in DOMAIN L : \E i \in DOMAIN J : L[k] = J[i]
      /\ \A i \in DOMAIN J : \E k \in DOMAIN L : L[k] = J[i]
      /\ \A k, l \in DOMAIN L : L[k].index = L[l].index => k = l
      /\ L \in Seq({L[k] : k \in DOMAIN L})
  <2>1. CASE 0 \in DOMAIN J /\ 1 \in DOMAIN J
    <3>1. L = <<J[0], J[1]>> /\ J[0].index = {0} /\ J[1].index = {1}
      BY <1>2, <2>1
    <3>2. DOMAIN L = {1, 2} /\ L[1] = J[0] /\ L[2] = J[1]
      BY <3>1
    <3>3. L \in Seq({J[0], J[1]}) /\ {L[k] : k \in DOMAIN L} = {J[0], J[1]}
      BY <3>1, <3>2
    <3>4. \A k, l \in DOMAIN L : L[k].index = L[l].index => k = l
      BY <3>1, <3>2
    <3>5. DOMAIN J = {0, 1}
      BY <1>3, <2>1
    <3> QED
      BY <3>2, <3>3, <3>4, <3>5
  <2>2. CASE 0 \in DOMAIN J /\ 1 \notin DOMAIN J
    <3>1. L = <<J[0]>>
      BY <1>2, <2>2
    <3>2. DOMAIN L = {1} /\ L[1] = J[0] /\ DOMAIN J = {0}
      BY <1>3, <2>2, <3>1
    <3>3. L \in Seq({J[0]}) /\ {L[k] : k \in DOMAIN L} = {J[0]}
      BY <3>1, <3>2
    <3> QED
      BY <3>2, <3>3
  <2>3. CASE 0 \notin DOMAIN J /\ 1 \in DOMAIN J
    <3>1. L = <<J[1]>>
      BY <1>2, <2>3
    <3>2. DOMAIN L = {1} /\ L[1] = J[1] /\ DOMAIN J = {1}
      BY <1>3, <2>3, <3>1
    <3>3. L \in Seq({J[1]}) /\ {L[k] : k \in DOMAIN L} = {J[1]}
      BY <3>1, <3>2
    <3> QED
      BY <3>2, <3>3
  <2>4. CASE 0 \notin DOMAIN J /\ 1 \notin DOMAIN J
    <3>1. L = <<>> /\ DOMAIN J = {}
      BY <1>2, <1>3, <2>4
    <3>2. DOMAIN L = {} /\ L \in Seq({L[k] : k \in DOMAIN L})
      BY <3>1
    <3> QED
      BY <3>1, <3>2
  <2> QED
    BY <2>1, <2>2, <2>3, <2>4
<1>5. IsRows(L) /\ Once(L) /\ \A k \in DOMAIN L : L[k].index # {}
  <2>1. ASSUME NEW k \in DOMAIN L PROVE IsRow(L[k]) /\ L[k].index # {}
    <3>1. PICK i \in DOMAIN J : L[k] = J[i]
      BY <1>4
    <3>2. IsRow(J[i]) /\ J[i].index = {i} /\ {i} # {}
      OBVIOUS
    <3> QED
      BY <3>1, <3>2
  <2>2. IsRows(L)
    BY <1>4, <2>1, Zenon DEF IsRows
  <2>3. Once(L)
    BY <1>4 DEF Once
  <2> QED
    BY <2>1, <2>2, <2>3
<1>6. PICK B : B = ByIndex(L, Given(L))
  OBVIOUS
<1>7. /\ DOMAIN Given(L) \subseteq DOMAIN L
      /\ \A k \in DOMAIN Given(L) : L[k].index = {Given(L)[k]}
      /\ \A i : i \in Range(Given(L)) <=> \E k \in DOMAIN L : L[k].index = {i}
  BY <1>5, GivenOf
<1>8. /\ DOMAIN B = Range(Given(L))
      /\ \A i \in DOMAIN B : \E k \in DOMAIN Given(L) : Given(L)[k] = i /\ B[i] = L[k]
  BY <1>5, <1>6, <1>7, ByIndexOf
<1>9. DOMAIN B = DOMAIN J
  <2>1. ASSUME NEW i, i \in DOMAIN B PROVE i \in DOMAIN J
    <3>1. PICK k \in DOMAIN L : L[k].index = {i}
      BY <1>7, <1>8, <2>1
    <3>2. PICK j \in DOMAIN J : L[k] = J[j]
      BY <1>4
    <3> QED
      BY <3>1, <3>2
  <2>2. ASSUME NEW i \in DOMAIN J PROVE i \in DOMAIN B
    BY <1>4, <1>7, <1>8
  <2> QED
    BY <2>1, <2>2
<1>10. ASSUME NEW i \in DOMAIN J PROVE B[i] = J[i]
  <2>1. PICK k \in DOMAIN Given(L) : Given(L)[k] = i /\ B[i] = L[k]
    BY <1>8, <1>9
  <2>2. L[k].index = {i} /\ k \in DOMAIN L
    BY <1>7, <2>1
  <2>3. PICK j \in DOMAIN J : L[k] = J[j]
    BY <1>4, <2>2
  <2> QED
    BY <2>1, <2>2, <2>3
<1>11. Settings(B) = Settings(J)
  BY <1>9, <1>10 DEF Settings
<1> QED
  BY <1>1, <1>5, <1>6, <1>11

\* The list of a copy: both channels, with or without their index.
LEMMA CopyListOf ==
    ASSUME NEW J, DOMAIN J = Channels, \A i \in Channels : IsRow(J[i]) /\ J[i].index \in {{}, {i}}
    PROVE  /\ IsRows(AsList(J)) /\ AsList(J) = <<J[0], J[1]>>
           /\ Places(AsList(J)) = <<0, 1>>
           /\ Settings(ByIndex(AsList(J), Places(AsList(J)))) = Settings(J)
<1>1. PICK L : L = AsList(J)
  OBVIOUS
<1>2. L = <<J[0], J[1]>> /\ 0 \in Channels /\ 1 \in Channels /\ Channels = {0, 1}
  BY <1>1, AsListOf DEF Channels
<1>3. DOMAIN L = {1, 2} /\ L[1] = J[0] /\ L[2] = J[1]
  BY <1>2
<1>4. IsRows(L)
  <2>1. L \in Seq({J[0], J[1]}) /\ {L[k] : k \in DOMAIN L} = {J[0], J[1]}
    BY <1>2, <1>3
  <2> QED
    BY <1>2, <1>3, <2>1 DEF IsRows
<1>5. PICK P : P = Places(L)
  OBVIOUS
<1>6. P = [k \in {1, 2} |-> IF L[k].index = {} THEN k - 1 ELSE CHOOSE i \in L[k].index : TRUE]
  BY <1>3, <1>5 DEF Places
<1>7. P[1] = 0 /\ P[2] = 1
  BY <1>2, <1>3, <1>6
<1>8. P = <<0, 1>>
  <2>1. <<0, 1>> = [k \in {1, 2} |-> <<0, 1>>[k]] /\ <<0, 1>>[1] = 0 /\ <<0, 1>>[2] = 1
    OBVIOUS
  <2>2. P = [k \in {1, 2} |-> P[k]]
    BY <1>6
  <2> QED
    BY <1>7, <2>1, <2>2
<1>9. PICK B : B = ByIndex(L, P)
  OBVIOUS
<1>10. DOMAIN P = {1, 2} /\ Range(P) = {0, 1}
  BY <1>6, <1>7 DEF Range
<1>11. /\ DOMAIN B = {0, 1}
       /\ \A i \in {0, 1} : \E k \in {1, 2} : P[k] = i /\ B[i] = L[k]
  <2>1. DOMAIN P \subseteq DOMAIN L
    BY <1>3, <1>10
  <2>2. /\ DOMAIN B = Range(P)
        /\ \A i \in Range(P) : \E k \in DOMAIN P : P[k] = i /\ B[i] = L[k]
    BY <1>4, <1>9, <2>1, ByIndexOf
  <2> QED
    BY <1>10, <2>2
<1>12. B[0] = J[0] /\ B[1] = J[1]
  BY <1>3, <1>7, <1>11
<1>13. Settings(B) = Settings(J)
  BY <1>2, <1>11, <1>12 DEF Settings
<1> QED
  BY <1>1, <1>2, <1>4, <1>5, <1>8, <1>9, <1>13

-----------------------------------------------------------------------------
(* Configurations and patches.                                             *)

IsPatch(c) == IsConfig(c) /\ Once(c.channels)

LEMMA ConfigOf ==
    ASSUME NEW c
    PROVE  IsConfig(c) <=> /\ IsPart(c.local, LocalFields) /\ IsPart(c.module, ModuleFields)
                           /\ IsRows(c.channels)
BY DEF IsConfig, IsRows

LEMMA GivenRows ==
    ASSUME NEW rows, IsRows(rows)
    PROVE  /\ DOMAIN ByIndex(rows, Given(rows)) \subseteq Channels
           /\ \A i \in DOMAIN ByIndex(rows, Given(rows)) :
                 /\ IsRow(ByIndex(rows, Given(rows))[i])
                 /\ ByIndex(rows, Given(rows))[i].index = {i}
                 /\ \E k \in DOMAIN rows : ByIndex(rows, Given(rows))[i] = rows[k]
           /\ \A k \in DOMAIN rows : \A i : rows[k].index = {i} => i \in DOMAIN ByIndex(rows, Given(rows))
<1>1. PICK B : B = ByIndex(rows, Given(rows))
  OBVIOUS
<1>2. /\ DOMAIN Given(rows) \subseteq DOMAIN rows
      /\ \A k \in DOMAIN Given(rows) : rows[k].index = {Given(rows)[k]}
      /\ Range(Given(rows)) \subseteq Channels
      /\ \A i : i \in Range(Given(rows)) <=> \E k \in DOMAIN rows : rows[k].index = {i}
  BY GivenOf
<1>3. /\ DOMAIN B = Range(Given(rows))
      /\ \A i \in DOMAIN B : \E k \in DOMAIN Given(rows) : Given(rows)[k] = i /\ B[i] = rows[k]
      /\ \A i \in DOMAIN B : IsRow(B[i])
  BY <1>1, <1>2, ByIndexOf
<1>4. ASSUME NEW i \in DOMAIN B PROVE B[i].index = {i} /\ \E k \in DOMAIN rows : B[i] = rows[k]
  BY <1>2, <1>3
<1>5. \A k \in DOMAIN rows : \A i : rows[k].index = {i} => i \in DOMAIN B
  BY <1>2, <1>3
<1> QED
  BY <1>1, <1>2, <1>3, <1>4, <1>5

LEMMA ExplicitIs ==
    ASSUME NEW c
    PROVE  IsFlat(Explicit(c), c.local, c.module, Settings(ByIndex(c.channels, Given(c.channels))))
BY FlatIs DEF Explicit

LEMMA ShownIs ==
    ASSUME NEW c
    PROVE  IsFlat(Shown(c), c.local, c.module, Settings(ByIndex(c.channels, Places(c.channels))))
BY FlatIs DEF Shown

\* Of two patches the fields of the second are over those of the first.
LEMMA MergePatchesOf ==
    ASSUME NEW base, IsConfig(base), NEW extra, IsConfig(extra)
    PROVE  /\ IsPatch(MergePatches(base, extra))
           /\ Once(extra.channels) =>
                 Explicit(MergePatches(base, extra)) = Over(Explicit(extra), Explicit(base))
<1>1. PICK m : m = MergePatches(base, extra)
  OBVIOUS
<1>2. PICK rows : rows = ByIndex(base.channels, Given(base.channels))
  OBVIOUS
<1>3. PICK J : J = Joined(rows, extra.channels)
  OBVIOUS
<1>4. /\ m.local = Merge(base.local, extra.local) /\ m.module = Merge(base.module, extra.module)
      /\ m.channels = AsList(J)
  BY <1>1, <1>2, <1>3 DEF MergePatches, MergePatchRows, MergeRows, Joined
<1>5. IsRows(base.channels) /\ IsRows(extra.channels)
  BY ConfigOf
<1>6. DOMAIN rows \subseteq Channels /\ \A i \in DOMAIN rows : IsRow(rows[i]) /\ rows[i].index = {i}
  BY <1>2, <1>5, GivenRows
<1>7. DOMAIN J \subseteq Channels /\ \A i \in DOMAIN J : IsRow(J[i]) /\ J[i].index = {i}
  <2>1. /\ DOMAIN J \subseteq Channels
        /\ \A i \in DOMAIN J :
              /\ IsRow(J[i])
              /\ J[i].index = {i} \/ (i \in DOMAIN rows /\ J[i].index = rows[i].index)
    <3>1. \A i \in DOMAIN rows : IsRow(rows[i])
      BY <1>6
    <3>2. /\ DOMAIN Joined(rows, extra.channels) \subseteq Channels
          /\ \A i \in DOMAIN Joined(rows, extra.channels) :
                /\ IsRow(Joined(rows, extra.channels)[i])
                /\ \/ Joined(rows, extra.channels)[i].index = {i}
                   \/ i \in DOMAIN rows /\ Joined(rows, extra.channels)[i].index = rows[i].index
      BY <1>5, <1>6, <3>1, JoinedRows
    <3> QED
      BY <1>3, <3>2
  <2> QED
    BY <1>6, <2>1
<1>8. /\ IsRows(m.channels) /\ Once(m.channels)
      /\ Settings(ByIndex(m.channels, Given(m.channels))) = Settings(J)
  BY <1>4, <1>7, ListOf
<1>9. IsPart(m.local, LocalFields) /\ IsPart(m.module, ModuleFields)
  BY <1>4, ConfigOf, MergePart
<1>10. IsPatch(m)
  BY <1>8, <1>9, ConfigOf DEF IsPatch
<1>11. ASSUME Once(extra.channels)
       PROVE  Explicit(m) = Over(Explicit(extra), Explicit(base))
  <2>1. Merged(Settings(J), Settings(rows), Settings(ByIndex(extra.channels, Given(extra.channels))))
    BY <1>3, <1>5, <1>6, <1>11, JoinedMerged
  <2>2. Merged(m.local, base.local, extra.local) /\ Merged(m.module, base.module, extra.module)
    BY <1>4, MergeOf
  <2>3. /\ IsFlat(Explicit(base), base.local, base.module, Settings(rows))
        /\ IsFlat(Explicit(extra), extra.local, extra.module,
                  Settings(ByIndex(extra.channels, Given(extra.channels))))
        /\ IsFlat(Explicit(m), m.local, m.module, Settings(J))
    BY <1>2, <1>8, ExplicitIs
  <2> QED
    BY <2>1, <2>2, <2>3, FlatMerged
<1> QED
  BY <1>1, <1>10, <1>11

\* The rows of a copy by channel.
LEMMA CopyRowsOf ==
    ASSUME NEW c, IsCopy(c)
    PROVE  /\ IsRows(c.channels) /\ DOMAIN c.channels = {1, 2} /\ Once(c.channels)
           /\ DOMAIN ByIndex(c.channels, Places(c.channels)) = Channels
           /\ ByIndex(c.channels, Places(c.channels))[0] = c.channels[1]
           /\ ByIndex(c.channels, Places(c.channels))[1] = c.channels[2]
<1>1. IsRows(c.channels)
  BY ConfigOf DEF IsCopy
<1>2. DOMAIN c.channels = {1, 2}
  BY <1>1, RowsDomain DEF IsCopy
<1>3. PICK L : L = c.channels
  OBVIOUS
<1>4. L[1].index \in {{}, {0}} /\ L[2].index = {1}
  BY <1>3 DEF IsCopy
<1>5. PICK P : P = Places(L)
  OBVIOUS
<1>6. P = [k \in {1, 2} |-> IF L[k].index = {} THEN k - 1 ELSE CHOOSE i \in L[k].index : TRUE]
  BY <1>2, <1>3, <1>5 DEF Places
<1>7. P[1] = 0 /\ P[2] = 1
  BY <1>4, <1>6
<1>8. PICK B : B = ByIndex(L, P)
  OBVIOUS
<1>9. DOMAIN P = {1, 2} /\ Range(P) = {0, 1}
  BY <1>6, <1>7 DEF Range
<1>10. /\ DOMAIN B = {0, 1}
       /\ \A i \in {0, 1} : \E k \in {1, 2} : P[k] = i /\ B[i] = L[k]
  <2>1. DOMAIN P \subseteq DOMAIN L
    BY <1>2, <1>3, <1>9
  <2>2. /\ DOMAIN B = Range(P)
        /\ \A i \in Range(P) : \E k \in DOMAIN P : P[k] = i /\ B[i] = L[k]
    BY <1>1, <1>3, <1>8, <2>1, ByIndexOf
  <2> QED
    BY <1>9, <2>2
<1>11. B[0] = L[1] /\ B[1] = L[2]
  BY <1>7, <1>10
<1>12. Once(L)
  BY <1>2, <1>3, <1>4 DEF Once
<1> QED
  BY <1>1, <1>2, <1>3, <1>5, <1>8, <1>10, <1>11, <1>12 DEF Channels

LEMMA PatchedCopy ==
    ASSUME NEW c, IsCopy(c), NEW p, IsConfig(p)
    PROVE  /\ IsCopy(Patched(c, p))
           /\ Once(p.channels) => Shown(Patched(c, p)) = Over(Explicit(p), Shown(c))
<1>1. PICK m : m = Patched(c, p)
  OBVIOUS
<1>2. PICK rows : rows = ByIndex(c.channels, Places(c.channels))
  OBVIOUS
<1>3. PICK J : J = Joined(rows, p.channels)
  OBVIOUS
<1>4. /\ m.local = Merge(c.local, p.local) /\ m.module = Merge(c.module, p.module)
      /\ m.channels = AsList(J)
  BY <1>1, <1>2, <1>3 DEF Patched, MergeCopyRows, MergeRows, Joined
<1>5. IsRows(p.channels) /\ IsRows(c.channels) /\ IsConfig(c)
  BY ConfigOf DEF IsCopy
<1>6. /\ DOMAIN rows = Channels /\ \A i \in DOMAIN rows : IsRow(rows[i])
      /\ rows[0].index \in {{}, {0}} /\ rows[1].index = {1}
  <2>1. DOMAIN rows = Channels /\ rows[0] = c.channels[1] /\ rows[1] = c.channels[2] /\ DOMAIN c.channels = {1, 2}
    BY <1>2, CopyRowsOf
  <2>2. IsRow(rows[0]) /\ IsRow(rows[1])
    BY <1>5, <2>1 DEF IsRows
  <2> QED
    BY <2>1, <2>2 DEF IsCopy, Channels
<1>7. /\ DOMAIN J = Channels /\ \A i \in Channels : IsRow(J[i])
      /\ J[0].index \in {{}, {0}} /\ J[1].index = {1}
  <2>1. /\ DOMAIN J \subseteq Channels /\ DOMAIN rows \subseteq DOMAIN J
        /\ \A i \in DOMAIN J :
              /\ IsRow(J[i])
              /\ J[i].index = {i} \/ (i \in DOMAIN rows /\ J[i].index = rows[i].index)
    <3>1. \A i \in DOMAIN rows : IsRow(rows[i])
      BY <1>6
    <3>2. /\ DOMAIN Joined(rows, p.channels) = DOMAIN rows \cup Range(Given(p.channels))
          /\ DOMAIN Joined(rows, p.channels) \subseteq Channels
          /\ \A i \in DOMAIN Joined(rows, p.channels) :
                /\ IsRow(Joined(rows, p.channels)[i])
                /\ \/ Joined(rows, p.channels)[i].index = {i}
                   \/ i \in DOMAIN rows /\ Joined(rows, p.channels)[i].index = rows[i].index
      BY <1>5, <1>6, <3>1, JoinedRows
    <3> QED
      BY <1>3, <3>2
  <2> QED
    BY <1>6, <2>1 DEF Channels
<1>8. /\ IsRows(m.channels) /\ m.channels = <<J[0], J[1]>>
      /\ Settings(ByIndex(m.channels, Places(m.channels))) = Settings(J)
  <2>1. \A i \in Channels : IsRow(J[i]) /\ J[i].index \in {{}, {i}}
    BY <1>7 DEF Channels
  <2> QED
    BY <1>4, <1>7, <2>1, CopyListOf
<1>9. IsPart(m.local, LocalFields) /\ IsPart(m.module, ModuleFields)
  BY <1>4, <1>5, ConfigOf, MergePart
<1>10. IsCopy(m)
  <2>1. Len(m.channels) = 2 /\ m.channels[1] = J[0] /\ m.channels[2] = J[1]
    BY <1>8
  <2>2. IsConfig(m)
    BY <1>8, <1>9, ConfigOf
  <2> QED
    BY <1>7, <2>1, <2>2 DEF IsCopy
<1>11. ASSUME Once(p.channels) PROVE Shown(m) = Over(Explicit(p), Shown(c))
  <2>1. Merged(Settings(J), Settings(rows), Settings(ByIndex(p.channels, Given(p.channels))))
    BY <1>3, <1>5, <1>6, <1>11, JoinedMerged
  <2>2. Merged(m.local, c.local, p.local) /\ Merged(m.module, c.module, p.module)
    BY <1>4, MergeOf
  <2>3. /\ IsFlat(Shown(c), c.local, c.module, Settings(rows))
        /\ IsFlat(Explicit(p), p.local, p.module, Settings(ByIndex(p.channels, Given(p.channels))))
        /\ IsFlat(Shown(m), m.local, m.module, Settings(J))
    BY <1>2, <1>8, ExplicitIs, ShownIs
  <2> QED
    BY <2>1, <2>2, <2>3, FlatMerged
<1> QED
  BY <1>1, <1>10, <1>11

-----------------------------------------------------------------------------
(* Where patches come from.                                                *)

FormType == [hopLimit : SUBSET Values, interval : SUBSET Values, uplink : SUBSET Switch]

LEMMA NoPart == \A shape : IsPart(<<>>, shape)
<1>1. DOMAIN <<>> = {}
  OBVIOUS
<1> QED
  BY <1>1 DEF IsPart

LEMMA NoRows == IsRows(<<>>) /\ Once(<<>>)
<1>1. DOMAIN <<>> = {} /\ <<>> \in Seq({})
  OBVIOUS
<1> QED
  BY <1>1 DEF IsRows, Once

LEMMA EmptyIsPatch == IsPatch(EmptyPatch)
BY NoPart, NoRows, ConfigOf DEF EmptyPatch, IsPatch

\* Some of the fields.
LEMMA SubPart ==
    ASSUME NEW t, NEW shape, IsPart(t, shape), NEW u, DOMAIN u \subseteq DOMAIN t,
           \A s \in DOMAIN u : DOMAIN u[s] \subseteq DOMAIN t[s] /\ \A f \in DOMAIN u[s] : u[s][f] = t[s][f]
    PROVE  IsPart(u, shape)
BY DEF IsPart

LEMMA SectionPart ==
    ASSUME NEW s, NEW f, NEW given, given \subseteq Values, NEW shape, s \in DOMAIN shape, f \in shape[s]
    PROVE  IsPart(Section(s, f, given), shape)
<1>1. PICK t : t = Section(s, f, given)
  OBVIOUS
<1>2. CASE given = {}
  <2>1. DOMAIN t = {}
    BY <1>1, <1>2 DEF Section
  <2> QED
    BY <1>1, <2>1 DEF IsPart
<1>3. CASE given # {}
  <2>1. DOMAIN t = {s} /\ t[s] = [g \in {f} |-> CHOOSE v \in given : TRUE]
    BY <1>1, <1>3 DEF Section
  <2>2. DOMAIN t[s] = {f} /\ t[s][f] \in given
    BY <1>3, <2>1
  <2>3. IsPart(t, shape)
    BY <2>1, <2>2 DEF IsPart
  <2> QED
    BY <1>1, <2>3
<1> QED
  BY <1>2, <1>3

LEMMA FormIsPatch ==
    ASSUME NEW form \in FormType PROVE IsPatch(FormPatch(form))
<1>1. IsPart(Section("lora", "hopLimit", form.hopLimit), LocalFields)
  <2>1. form.hopLimit \subseteq Values
    BY DEF FormType
  <2>2. "lora" \in DOMAIN LocalFields /\ "hopLimit" \in LocalFields["lora"]
    BY DEF LocalFields
  <2> QED
    BY <2>1, <2>2, SectionPart
<1>2. IsPart(Section("telemetry", "deviceUpdateInterval", form.interval), ModuleFields)
  <2>1. form.interval \subseteq Values
    BY DEF FormType
  <2>2. "telemetry" \in DOMAIN ModuleFields /\ "deviceUpdateInterval" \in ModuleFields["telemetry"]
    BY DEF ModuleFields
  <2> QED
    BY <2>1, <2>2, SectionPart
<1>3. IsRows(PrimaryChannel(form)) /\ Once(PrimaryChannel(form))
  <2>1. CASE form.uplink = {}
    BY <2>1, NoRows DEF PrimaryChannel
  <2>2. CASE form.uplink # {}
    <3>1. PICK v : v = CHOOSE u \in form.uplink : TRUE
      OBVIOUS
    <3>2. v \in Switch
      BY <2>2, <3>1 DEF FormType
    <3>3. PICK row : row = [index |-> {0}, settings |-> [uplinkEnabled |-> v]]
      OBVIOUS
    <3>4. IsRow(row)
      <4>1. row.index = {0} /\ row.settings = [uplinkEnabled |-> v]
        BY <3>3
      <4>2. DOMAIN row.settings = {"uplinkEnabled"} /\ row.settings["uplinkEnabled"] = v
        BY <4>1
      <4> QED
        BY <3>2, <4>1, <4>2 DEF IsRow, Channels, ChannelFields
    <3>5. PICK L : L = <<row>>
      OBVIOUS
    <3>6. PrimaryChannel(form) = L
      BY <2>2, <3>1, <3>3, <3>5 DEF PrimaryChannel
    <3>7. DOMAIN L = {1} /\ L[1] = row /\ L \in Seq({row}) /\ {L[i] : i \in DOMAIN L} = {row}
      BY <3>5
    <3> QED
      BY <3>4, <3>6, <3>7 DEF IsRows, Once
  <2> QED
    BY <2>1, <2>2
<1> QED
  BY <1>1, <1>2, <1>3, ConfigOf DEF FormPatch, IsPatch

LEMMA BaselineIsPatch ==
    ASSUME NEW form \in FormType PROVE IsPatch(BaselinePatch(form))
<1>1. [form EXCEPT !.hopLimit = @ \ {0}] \in FormType
  BY DEF FormType
<1> QED
  BY <1>1, FormIsPatch DEF BaselinePatch

LEMMA AlignmentParts ==
    ASSUME NEW c, IsConfig(c)
    PROVE  /\ IsPart(AlignmentLocal(c), LocalFields)
           /\ IsPart(AlignmentModule(c), ModuleFields)
<1>1. IsPart(c.local, LocalFields) /\ IsPart(c.module, ModuleFields)
  BY DEF IsConfig
<1>2. IsPart(AlignmentLocal(c), LocalFields)
  <2>1. PICK u : u = AlignmentLocal(c)
    OBVIOUS
  <2>2. PICK t : t = c.local
    OBVIOUS
  <2>3. DOMAIN u \subseteq DOMAIN t /\ \A s \in DOMAIN u : u[s] = [f \in {f \in DOMAIN t[s] : <<s, f>> \in AlignedFields} |-> t[s][f]]
    BY <2>1, <2>2 DEF AlignmentLocal, Restrict2
  <2>4. \A s \in DOMAIN u : DOMAIN u[s] \subseteq DOMAIN t[s] /\ \A f \in DOMAIN u[s] : u[s][f] = t[s][f]
    BY <2>3
  <2> QED
    BY <1>1, <2>1, <2>2, <2>3, <2>4, SubPart
<1>3. IsPart(AlignmentModule(c), ModuleFields)
  <2>1. PICK u : u = AlignmentModule(c)
    OBVIOUS
  <2>2. PICK t : t = c.module
    OBVIOUS
  <2>3. DOMAIN u \subseteq DOMAIN t /\ \A s \in DOMAIN u : u[s] = [f \in {f \in DOMAIN t[s] : <<s, f>> \notin OmittedFields} |-> t[s][f]]
    BY <2>1, <2>2 DEF AlignmentModule, Restrict2
  <2>4. \A s \in DOMAIN u : DOMAIN u[s] \subseteq DOMAIN t[s] /\ \A f \in DOMAIN u[s] : u[s][f] = t[s][f]
    BY <2>3
  <2> QED
    BY <1>1, <2>1, <2>2, <2>3, <2>4, SubPart
<1> QED
  BY <1>2, <1>3

LEMMA SanitizePart ==
    ASSUME NEW t, NEW role, IsPart(t, LocalFields)
    PROVE  IsPart(Sanitize(t, role), LocalFields)
<1>1. PICK u : u = Sanitize(t, role)
  OBVIOUS
<1>2. PICK w : w = [s \in DOMAIN t \ {"security"} |-> t[s]]
  OBVIOUS
<1>3. DOMAIN u = DOMAIN w /\ \A s \in DOMAIN u :
         u[s] = [f \in {f \in DOMAIN w[s] : <<s, f>> = <<"device", "role">> => role} |-> w[s][f]]
  BY <1>1, <1>2 DEF Sanitize, Restrict2
<1>4. DOMAIN w \subseteq DOMAIN t /\ \A s \in DOMAIN w : w[s] = t[s]
  BY <1>2
<1>5. \A s \in DOMAIN u : DOMAIN u[s] \subseteq DOMAIN w[s] /\ \A f \in DOMAIN u[s] : u[s][f] = w[s][f]
  BY <1>3
<1>6. \A s \in DOMAIN u : DOMAIN u[s] \subseteq DOMAIN t[s] /\ \A f \in DOMAIN u[s] : u[s][f] = t[s][f]
  BY <1>3, <1>4, <1>5
<1> QED
  BY <1>1, <1>3, <1>4, <1>6, SubPart

\* Rows without an index are dropped; of the others each channel still has one.
LEMMA IndexedOf ==
    ASSUME NEW c, IsCopy(c)
    PROVE  /\ IsRows(Indexed(c.channels)) /\ Once(Indexed(c.channels))
           /\ \A k \in DOMAIN Indexed(c.channels) :
                 \E l \in DOMAIN c.channels : Indexed(c.channels)[k] = c.channels[l]
           /\ \A l \in DOMAIN c.channels : c.channels[l].index # {} =>
                 \E k \in DOMAIN Indexed(c.channels) : Indexed(c.channels)[k] = c.channels[l]
<1>1. PICK s : s = c.channels
  OBVIOUS
<1>2. IsRows(s) /\ DOMAIN s = {1, 2} /\ Once(s) /\ s[1].index \in {{}, {0}} /\ s[2].index = {1}
  BY <1>1, CopyRowsOf DEF IsCopy
<1>3. PICK A : A = {s[i] : i \in DOMAIN s}
  OBVIOUS
<1>4. s \in Seq(A)
  BY <1>2, <1>3 DEF IsRows
<1>5. PICK L : L = Indexed(s)
  OBVIOUS
<1>6. PICK D : D = {s[k] : k \in DOMAIN Given(s)}
  OBVIOUS
<1>7. L = Keep(s, D)
  BY <1>5, <1>6 DEF Indexed
<1>8. IsInjective(s)
  BY <1>2 DEF IsInjective
<1>9. L \in Seq(A) /\ ToSet(L) = ToSet(s) \cap D /\ IsInjective(L)
  BY <1>4, <1>7, <1>8, KeepOf
<1>10. \A k \in DOMAIN L : \E l \in DOMAIN s : L[k] = s[l]
  BY <1>9 DEF ToSet
<1>11. ASSUME NEW l \in DOMAIN s, s[l].index # {} PROVE \E k \in DOMAIN L : L[k] = s[l]
  <2>1. l \in DOMAIN Given(s)
    BY <1>2, <1>11, GivenOf
  <2>2. s[l] \in ToSet(s) \cap D
    BY <1>6, <2>1 DEF ToSet
  <2>3. s[l] \in ToSet(L)
    BY <1>9, <2>2
  <2> QED
    BY <2>3 DEF ToSet
<1>12. IsRows(L)
  <2>1. \A k \in DOMAIN L : IsRow(L[k])
    BY <1>2, <1>10 DEF IsRows
  <2>2. L \in Seq({L[k] : k \in DOMAIN L})
    <3>1. L \in Seq(Range(L))
      BY <1>9, SeqOfRange
    <3> QED
      BY <3>1 DEF Range
  <2> QED
    BY <2>1, <2>2 DEF IsRows
<1>13. Once(L)
  <2> SUFFICES ASSUME NEW k \in DOMAIN L, NEW l \in DOMAIN L, L[k].index # {}, L[k].index = L[l].index
               PROVE  k = l
    BY DEF Once
  <2>1. PICK m \in DOMAIN s, n \in DOMAIN s : L[k] = s[m] /\ L[l] = s[n]
    BY <1>10
  <2>2. m = n
    BY <1>2, <2>1 DEF Once
  <2> QED
    BY <1>9, <2>1, <2>2 DEF IsInjective
<1> QED
  BY <1>1, <1>5, <1>10, <1>11, <1>12, <1>13

LEMMA FillPart ==
    ASSUME NEW t, NEW shape, NEW kept, IsPart(t, shape), DOMAIN kept \subseteq DOMAIN shape,
           \A s \in DOMAIN kept : kept[s] = shape[s]
    PROVE  IsPart(Fill(t, kept), shape)
<1>1. PICK u : u = Fill(t, kept)
  OBVIOUS
<1>2. DOMAIN u = DOMAIN kept /\ \A s \in DOMAIN u :
        u[s] = [f \in {f \in kept[s] : f \in NoNumbers \/ (s \in DOMAIN t /\ f \in DOMAIN t[s])} |->
                  IF s \in DOMAIN t /\ f \in DOMAIN t[s] THEN t[s][f] ELSE 0]
  BY <1>1 DEF Fill
<1>3. ASSUME NEW s \in DOMAIN u PROVE DOMAIN u[s] \subseteq shape[s] /\ \A f \in DOMAIN u[s] : u[s][f] \in Values
  <2>1. DOMAIN u[s] \subseteq shape[s] /\ \A f \in DOMAIN u[s] : u[s][f] = IF Has(t, s, f) THEN t[s][f] ELSE 0
    BY <1>2 DEF Has
  <2>2. \A f : Has(t, s, f) => t[s][f] \in Values
    BY DEF IsPart, Has
  <2>3. 0 \in Values
    BY DEF Values
  <2> QED
    BY <2>1, <2>2, <2>3
<1> QED
  BY <1>1, <1>2, <1>3 DEF IsPart

LEMMA EditorIsPatch ==
    ASSUME NEW c, IsCopy(c) PROVE IsPatch(EditorPatch(c))
<1>1. PICK e : e = EditorPatch(c)
  OBVIOUS
<1>2. PICK rows : rows = Indexed(c.channels)
  OBVIOUS
<1>3. /\ e.local = Fill(c.local, [s \in DOMAIN LocalFields \ {"security"} |-> LocalFields[s]])
      /\ e.module = Fill(c.module, ModuleFields)
      /\ e.channels = [k \in DOMAIN rows |-> [index |-> rows[k].index,
                          settings |-> Over(rows[k].settings, [f \in ChannelFields |-> 0])]]
  BY <1>1, <1>2 DEF EditorPatch
<1>4. IsPart(c.local, LocalFields) /\ IsPart(c.module, ModuleFields)
  BY DEF IsCopy, IsConfig
<1>5. IsPart(e.local, LocalFields)
  <2>1. PICK kept : kept = [s \in DOMAIN LocalFields \ {"security"} |-> LocalFields[s]]
    OBVIOUS
  <2>2. DOMAIN kept \subseteq DOMAIN LocalFields /\ \A s \in DOMAIN kept : kept[s] = LocalFields[s]
    BY <2>1
  <2> QED
    BY <1>3, <1>4, <2>1, <2>2, FillPart
<1>6. IsPart(e.module, ModuleFields)
  BY <1>3, <1>4, FillPart
<1>7. IsRows(rows) /\ Once(rows)
  BY <1>2, IndexedOf
<1>8. PICK L : L = e.channels
  OBVIOUS
<1>9. DOMAIN L = DOMAIN rows /\ \A k \in DOMAIN L : IsRow(L[k]) /\ L[k].index = rows[k].index
  <2>1. DOMAIN L = DOMAIN rows
    BY <1>3, <1>8
  <2>2. ASSUME NEW k \in DOMAIN L PROVE IsRow(L[k]) /\ L[k].index = rows[k].index
    <3>1. IsRow(rows[k])
      BY <1>7, <2>1 DEF IsRows
    <3>2. PICK new : new = Over(rows[k].settings, [f \in ChannelFields |-> 0])
      OBVIOUS
    <3>3. L[k] = [index |-> rows[k].index, settings |-> new]
      BY <1>3, <1>8, <2>1, <3>2
    <3>4. DOMAIN new \subseteq ChannelFields /\ \A f \in DOMAIN new : new[f] \in Switch
      BY <3>1, <3>2 DEF Over, IsRow, Switch
    <3>5. L[k].index = rows[k].index /\ L[k].settings = new
      BY <3>3
    <3> QED
      BY <3>1, <3>4, <3>5 DEF IsRow
  <2> QED
    BY <2>1, <2>2
<1>10. L \in Seq({L[k] : k \in DOMAIN L})
  <2>1. DOMAIN L = 1..Len(rows) /\ Len(rows) \in Nat /\ L = [k \in DOMAIN L |-> L[k]]
    BY <1>3, <1>7, <1>8, <1>9, RowsDomain
  <2>2. PICK A : A = {L[k] : k \in DOMAIN L}
    OBVIOUS
  <2>3. L \in [1..Len(rows) -> A]
    BY <2>1, <2>2
  <2> QED
    BY <2>1, <2>2, <2>3
<1>11. IsRows(L) /\ Once(L)
  <2>1. Once(L)
    BY <1>7, <1>9 DEF Once
  <2> QED
    BY <1>9, <1>10, <2>1 DEF IsRows
<1> QED
  BY <1>1, <1>5, <1>6, <1>8, <1>11, ConfigOf DEF IsPatch

\* What is cloned is a patch if copies are as copies should be.
LEMMA ClonedIsPatch ==
    ASSUME \A n \in Nodes : IsCopy(copy[n]), NEW clone, clone.source \subseteq Nodes
    PROVE  IsPatch(Cloned(clone))
<1>1. CASE clone.source = {}
  BY <1>1, EmptyIsPatch DEF Cloned
<1>2. CASE clone.source # {}
  <2>1. PICK n : n = CHOOSE m \in clone.source : TRUE
    OBVIOUS
  <2>2. n \in Nodes
    BY <1>2, <2>1
  <2>3. PICK c : c = copy[n]
    OBVIOUS
  <2>4. IsCopy(c)
    BY <2>2, <2>3
  <2>5. PICK m : m = Cloned(clone)
    OBVIOUS
  <2>6. m = [local |-> IF clone.local THEN Sanitize(c.local, clone.role) ELSE <<>>,
             module |-> IF clone.module THEN c.module ELSE <<>>,
             channels |-> IF clone.channels THEN Indexed(c.channels) ELSE <<>>]
    BY <1>2, <2>1, <2>3, <2>5 DEF Cloned
  <2>7. IsPart(c.local, LocalFields) /\ IsPart(c.module, ModuleFields)
    BY <2>4 DEF IsCopy, IsConfig
  <2>8. IsPart(m.local, LocalFields)
    <3>1. IsPart(Sanitize(c.local, clone.role), LocalFields)
      BY <2>7, SanitizePart
    <3> QED
      BY <2>6, <3>1, NoPart
  <2>9. IsPart(m.module, ModuleFields)
    BY <2>6, <2>7, NoPart
  <2>10. IsRows(m.channels) /\ Once(m.channels)
    BY <2>4, <2>6, IndexedOf, NoRows
  <2> QED
    BY <2>5, <2>8, <2>9, <2>10, ConfigOf DEF IsPatch
<1> QED
  BY <1>1, <1>2

-----------------------------------------------------------------------------
(* Radios.                                                                 *)

LEMMA MergeFull ==
    ASSUME NEW t, NEW u, NEW shape, IsFull(t, shape), IsPart(u, shape)
    PROVE  IsFull(Merge(t, u), shape)
<1>1. PICK m : m = Merge(t, u)
  OBVIOUS
<1>2. DOMAIN m = DOMAIN t \cup DOMAIN u /\ Merged(m, t, u)
  BY <1>1, MergeOf
<1>3. IsPart(m, shape)
  BY <1>1, MergePart DEF IsFull
<1>4. DOMAIN m = DOMAIN shape
  BY <1>2 DEF IsFull, IsPart
<1>5. ASSUME NEW s \in DOMAIN m PROVE DOMAIN m[s] = shape[s]
  <2>1. s \in DOMAIN t /\ DOMAIN t[s] = shape[s]
    BY <1>4, <1>5 DEF IsFull
  <2>2. \A f : f \in DOMAIN m[s] <=> f \in DOMAIN t[s] \/ Has(u, s, f)
    BY <1>2, <1>5, <2>1 DEF Merged, Has
  <2>3. \A f : Has(u, s, f) => f \in shape[s]
    BY DEF IsPart, Has
  <2> QED
    BY <2>1, <2>2, <2>3
<1> QED
  BY <1>1, <1>3, <1>4, <1>5 DEF IsFull

LEMMA SentIsPatch ==
    ASSUME NEW p, IsPatch(p)
    PROVE  IsPatch(Sent(p))
<1>1. PICK m : m = [s \in DOMAIN p.module \ {"ambientLighting"} |-> p.module[s]]
  OBVIOUS
<1>2. Sent(p) = [local |-> p.local, module |-> m, channels |-> p.channels]
  BY <1>1 DEF Sent
<1>3. DOMAIN m \subseteq DOMAIN p.module /\ \A s \in DOMAIN m : m[s] = p.module[s]
  BY <1>1
<1>4. IsPart(m, ModuleFields)
  BY <1>3 DEF IsPart, IsPatch, IsConfig
<1>5. PICK q : q = Sent(p)
  OBVIOUS
<1>6. q.local = p.local /\ q.module = m /\ q.channels = p.channels
  BY <1>2, <1>5
<1> QED
  BY <1>4, <1>5, <1>6, ConfigOf DEF IsPatch

LEMMA WrittenIsRadio ==
    ASSUME NEW r, IsRadio(r), NEW p, IsConfig(p)
    PROVE  IsRadio(Written(r, p))
<1>1. PICK w : w = Written(r, p)
  OBVIOUS
<1>2. w = [local |-> Merge(r.local, p.local), module |-> Merge(r.module, p.module),
           channels |-> [i \in Channels |-> Override(r.channels[i], p.channels, i)]]
  BY <1>1 DEF Written
<1>3. PICK local, module, channels :
        /\ local = Merge(r.local, p.local) /\ module = Merge(r.module, p.module)
        /\ channels = [i \in Channels |-> Override(r.channels[i], p.channels, i)]
  OBVIOUS
<1>4. w = [local |-> local, module |-> module, channels |-> channels]
  BY <1>2, <1>3
<1>5. IsFull(local, LocalFields) /\ IsFull(module, ModuleFields)
  BY <1>3, ConfigOf, MergeFull DEF IsRadio
<1>6. IsRows(p.channels)
  BY ConfigOf
<1>7. ASSUME NEW i \in Channels PROVE channels[i] \in [ChannelFields -> Switch]
  <2>1. PICK old : old = r.channels[i]
    OBVIOUS
  <2>2. old \in [ChannelFields -> Switch]
    BY <2>1 DEF IsRadio
  <2>3. DOMAIN old = ChannelFields /\ \A f \in DOMAIN old : old[f] \in Switch
    BY <2>2
  <2>4. PICK new : new = Override(old, p.channels, i)
    OBVIOUS
  <2>5. /\ DOMAIN new \subseteq ChannelFields /\ DOMAIN old \subseteq DOMAIN new
        /\ \A f \in DOMAIN new : new[f] \in Switch
        /\ new = [f \in DOMAIN new |-> new[f]]
    BY <1>6, <2>3, <2>4, OverrideOf
  <2>6. DOMAIN new = ChannelFields
    BY <2>3, <2>5
  <2>7. channels[i] = new
    BY <1>3, <2>1, <2>4
  <2> QED
    BY <2>5, <2>6, <2>7
<1>8. channels \in [Channels -> [ChannelFields -> Switch]]
  BY <1>3, <1>7
<1>9. w.local = local /\ w.module = module /\ w.channels = channels
  BY <1>4
<1> QED
  BY <1>1, <1>4, <1>5, <1>8, <1>9 DEF IsRadio

\* What a radio reports of its sections.
NonZero(u, t) == \A s, f : /\ Has(u, s, f) <=> Has(t, s, f) /\ t[s][f] # 0
                           /\ Has(u, s, f) => u[s][f] = t[s][f]

LEMMA Restrict2Of ==
    ASSUME NEW t, NEW u, u = [s \in DOMAIN t |-> [f \in {f \in DOMAIN t[s] : t[s][f] # 0} |-> t[s][f]]]
    PROVE  DOMAIN u = DOMAIN t /\ NonZero(u, t)
<1>1. DOMAIN u = DOMAIN t /\ \A s \in DOMAIN u : u[s] = [f \in {f \in DOMAIN t[s] : t[s][f] # 0} |-> t[s][f]]
  OBVIOUS
<1>2. ASSUME NEW s \in DOMAIN u
      PROVE  /\ DOMAIN u[s] = {f \in DOMAIN t[s] : t[s][f] # 0}
             /\ \A f \in DOMAIN u[s] : u[s][f] = t[s][f]
  BY <1>1
<1>3. ASSUME NEW s, NEW f
      PROVE  /\ Has(u, s, f) <=> Has(t, s, f) /\ t[s][f] # 0
             /\ Has(u, s, f) => u[s][f] = t[s][f]
  BY <1>1, <1>2 DEF Has
<1> QED
  BY <1>1, <1>3 DEF NonZero

LEMMA ReportOf ==
    ASSUME NEW r, IsRadio(r)
    PROVE  /\ IsCopy(Report(r))
           /\ NonZero(Report(r).local, r.local)
           /\ NonZero(Report(r).module, r.module)
           /\ NonZero(Settings(ByIndex(Report(r).channels, Places(Report(r).channels))), r.channels)
<1>1. PICK c : c = Report(r)
  OBVIOUS
<1>2. PICK u : u = [s \in DOMAIN r.local |-> [f \in {f \in DOMAIN r.local[s] : r.local[s][f] # 0} |-> r.local[s][f]]]
  OBVIOUS
<1>3. PICK m : m = [s \in DOMAIN r.module |-> [f \in {f \in DOMAIN r.module[s] : r.module[s][f] # 0} |-> r.module[s][f]]]
  OBVIOUS
<1>4. PICK L : L = [i \in 1..2 |->
        [index |-> {i - 1} \ {0},
         settings |-> [f \in {f \in ChannelFields : r.channels[i - 1][f] # 0} |-> r.channels[i - 1][f]]]]
  OBVIOUS
<1>5. c.local = u /\ c.module = m /\ c.channels = L
  <2>1. c = [local |-> u, module |-> m, channels |-> L]
    BY <1>1, <1>2, <1>3, <1>4 DEF Report, Restrict2
  <2> QED
    BY <2>1
<1>6. DOMAIN u = DOMAIN r.local /\ NonZero(u, r.local) /\ DOMAIN m = DOMAIN r.module /\ NonZero(m, r.module)
  BY <1>2, <1>3, Restrict2Of
<1>7. IsPart(u, LocalFields)
  BY <1>6, PartOf DEF IsRadio, IsFull, NonZero
<1>8. IsPart(m, ModuleFields)
  BY <1>6, PartOf DEF IsRadio, IsFull, NonZero
<1>9. ASSUME NEW i \in 1..2
      PROVE  /\ L[i].index = {i - 1} \ {0}
             /\ DOMAIN L[i].settings = {f \in ChannelFields : r.channels[i - 1][f] # 0}
             /\ \A f \in DOMAIN L[i].settings : L[i].settings[f] = r.channels[i - 1][f]
  BY <1>4
<1>10. \A i \in Channels : r.channels[i] \in [ChannelFields -> Switch]
  BY DEF IsRadio
<1>11. ASSUME NEW i \in 1..2 PROVE IsRow(L[i])
  <2>1. i - 1 \in Channels
    BY DEF Channels
  <2>2. \A f \in ChannelFields : r.channels[i - 1][f] \in Switch
    BY <1>10, <2>1
  <2>3. L[i].index \in {{}} \cup {{j} : j \in Channels}
    BY <1>9 DEF Channels
  <2> QED
    BY <1>9, <2>2, <2>3 DEF IsRow
<1>12. DOMAIN L = 1..2 /\ Len(L) = 2 /\ L \in Seq({L[i] : i \in DOMAIN L})
  <2>1. PICK A : A = {L[i] : i \in 1..2}
    OBVIOUS
  <2>2. L = [i \in 1..2 |-> L[i]]
    BY <1>4
  <2>3. L \in [1..2 -> A]
    BY <2>1, <2>2
  <2>4. PICK n \in Nat : n = 2
    OBVIOUS
  <2>5. L \in [1..n -> A]
    BY <2>3, <2>4
  <2>6. L \in Seq(A) /\ DOMAIN L = 1..n /\ Len(L) = n
    BY <2>5
  <2> QED
    BY <2>1, <2>4, <2>6
<1>13. IsCopy(c)
  <2>1. IsRows(L)
    BY <1>11, <1>12 DEF IsRows
  <2>2. L[1].index \subseteq {0} /\ L[2].index = {1}
    BY <1>9
  <2>3. IsConfig(c)
    BY <1>5, <1>7, <1>8, <2>1, ConfigOf
  <2> QED
    BY <1>5, <1>12, <2>2, <2>3 DEF IsCopy
<1>14. PICK rows : rows = ByIndex(L, Places(L))
  OBVIOUS
<1>15. DOMAIN rows = Channels /\ rows[0] = L[1] /\ rows[1] = L[2]
  BY <1>5, <1>13, <1>14, CopyRowsOf
<1>16. ASSUME NEW i, NEW f
       PROVE  /\ Has(Settings(rows), i, f) <=> Has(r.channels, i, f) /\ r.channels[i][f] # 0
              /\ Has(Settings(rows), i, f) => Settings(rows)[i][f] = r.channels[i][f]
  <2>1. DOMAIN r.channels = Channels /\ \A j \in Channels : DOMAIN r.channels[j] = ChannelFields
    BY DEF IsRadio
  <2>2. CASE i \notin Channels
    BY <1>15, <2>1, <2>2, SettingsOf DEF Has
  <2>3. CASE i \in Channels
    <3>1. PICK k \in 1..2 : k - 1 = i /\ rows[i] = L[k]
      BY <1>15, <2>3 DEF Channels
    <3>2. /\ DOMAIN rows[i].settings = {g \in ChannelFields : r.channels[i][g] # 0}
          /\ \A g \in DOMAIN rows[i].settings : rows[i].settings[g] = r.channels[i][g]
      BY <1>9, <3>1
    <3>3. /\ Has(Settings(rows), i, f) <=> f \in DOMAIN rows[i].settings
          /\ Settings(rows)[i] = rows[i].settings
      BY <1>15, <2>3, SettingsOf
    <3> QED
      BY <2>1, <2>3, <3>2, <3>3 DEF Has
  <2> QED
    BY <2>2, <2>3
<1>17. NonZero(Settings(rows), r.channels)
  BY <1>16 DEF NonZero
<1> QED
  BY <1>1, <1>5, <1>6, <1>13, <1>14, <1>17

USE FleetConfigAssumption

-----------------------------------------------------------------------------
(* Lists.                                                                  *)

IsAppended(t, s, x) ==
    /\ t \in Seq(Range(t))
    /\ \A k \in DOMAIN t : t[k] = x \/ \E l \in DOMAIN s : t[k] = s[l]
    /\ s = <<>> => Len(t) = 1 /\ t[1] = x

IsTail(t, s) ==
    /\ t \in Seq(Range(t)) /\ 1 \in DOMAIN s /\ Head(s) = s[1]
    /\ \A k \in DOMAIN t : \E l \in DOMAIN s : t[k] = s[l]
    /\ Len(s) = 1 => t = <<>>

LEMMA Appended ==
    ASSUME NEW s, s \in Seq(Range(s)), NEW x
    PROVE  IsAppended(Append(s, x), s, x)
<1> DEFINE S == Range(s) \cup {x}
<1>0. PICK t : t = Append(s, x)
  OBVIOUS
<1>1. s \in Seq(S) /\ t \in Seq(S)
  BY <1>0
<1>2. /\ Len(s) \in Nat /\ DOMAIN s = 1..Len(s) /\ DOMAIN t = 1..(Len(s) + 1) /\ Len(t) = Len(s) + 1
      /\ \A i \in 1..Len(s) : t[i] = s[i]
      /\ t[Len(s) + 1] = x
  BY <1>0, <1>1
<1>3. t \in Seq(Range(t))
  BY <1>1, SeqOfRange
<1>4. ASSUME NEW k \in DOMAIN t PROVE t[k] = x \/ \E l \in DOMAIN s : t[k] = s[l]
  BY <1>2
<1>5. s = <<>> => Len(s) = 0
  OBVIOUS
<1>6. IsAppended(t, s, x)
  BY <1>2, <1>3, <1>4, <1>5 DEF IsAppended
<1> QED
  BY <1>0, <1>6

LEMMA Shortened ==
    ASSUME NEW s, s \in Seq(Range(s)), s # <<>>
    PROVE  IsTail(Tail(s), s)
<1>0. PICK t : t = Tail(s)
  OBVIOUS
<1>1. t \in Seq(Range(s))
  BY <1>0
<1>2. /\ Len(s) \in Nat /\ DOMAIN s = 1..Len(s) /\ DOMAIN t = 1..(Len(s) - 1) /\ Len(t) = Len(s) - 1
      /\ Len(s) > 0 /\ \A i \in 1..(Len(s) - 1) : t[i] = s[i + 1]
  BY <1>0
<1>3. t \in Seq(Range(t))
  BY <1>1, SeqOfRange
<1>4. ASSUME NEW k \in DOMAIN t PROVE \E l \in DOMAIN s : t[k] = s[l]
  <2>1. k + 1 \in DOMAIN s /\ t[k] = s[k + 1]
    BY <1>2
  <2> QED
    BY <2>1
<1>5. 1 \in DOMAIN s /\ Head(s) = s[1]
  BY <1>2
<1>6. Len(s) = 1 => t = <<>>
  BY <1>1, <1>2
<1>7. IsTail(t, s)
  BY <1>3, <1>4, <1>5, <1>6 DEF IsTail
<1> QED
  BY <1>0, <1>7

LEMMA InOrderOf ==
    ASSUME NEW N
    PROVE  /\ InOrder(N) \in Seq(Nodes) /\ ToSet(InOrder(N)) = Nodes \cap N
<1>1. Order \in Seq(Nodes) /\ ToSet(Order) = Nodes
  BY FleetConfigAssumption
<1> QED
  BY <1>1, KeepOf DEF InOrder

-----------------------------------------------------------------------------
(* Keys.                                                                   *)

NoKeys(config) == "security" \notin DOMAIN config.local

LEMMA MergePatchesNoKeys ==
    ASSUME NEW base, NEW extra, NoKeys(base), NoKeys(extra)
    PROVE  NoKeys(MergePatches(base, extra))
<1>1. MergePatches(base, extra).local = Merge(base.local, extra.local)
  BY DEF MergePatches
<1>2. DOMAIN Merge(base.local, extra.local) = DOMAIN base.local \cup DOMAIN extra.local
  BY MergeOf
<1> QED
  BY <1>1, <1>2 DEF NoKeys

LEMMA EmptyNoKeys == NoKeys(EmptyPatch)
BY DEF NoKeys, EmptyPatch

LEMMA FormNoKeys ==
    ASSUME NEW form PROVE NoKeys(FormPatch(form)) /\ NoKeys(BaselinePatch(form))
<1>1. \A given : "security" \notin DOMAIN Section("lora", "hopLimit", given)
  BY DEF Section
<1> QED
  BY <1>1 DEF NoKeys, FormPatch, BaselinePatch

\* The alignment profile has no field of the security section.
LEMMA AlignmentNoKeys ==
    ASSUME NEW c PROVE "security" \notin DOMAIN AlignmentLocal(c)
BY DEF AlignmentLocal, Restrict2, AlignedFields

LEMMA EditorNoKeys ==
    ASSUME NEW c PROVE NoKeys(EditorPatch(c))
BY DEF EditorPatch, NoKeys, Fill

\* What is cloned from another node has none either.
LEMMA ClonedNoKeys ==
    ASSUME NEW clone PROVE NoKeys(Cloned(clone))
<1> DEFINE c == copy[CHOOSE n \in clone.source : TRUE]
<1>1. "security" \notin DOMAIN Sanitize(c.local, clone.role)
  BY DEF Sanitize, Restrict2
<1>2. CASE clone.source = {}
  BY <1>2, EmptyNoKeys DEF Cloned
<1>3. CASE clone.source # {}
  <2>1. Cloned(clone).local = IF clone.local THEN Sanitize(c.local, clone.role) ELSE <<>>
    BY <1>3 DEF Cloned
  <2>2. "security" \notin DOMAIN <<>>
    OBVIOUS
  <2> QED
    BY <1>1, <2>1, <2>2 DEF NoKeys
<1> QED
  BY <1>2, <1>3

KeyOf(r) == r.local["security"]["privateKey"]

LEMMA WrittenKey ==
    ASSUME NEW r, IsRadio(r), NEW p, NoKeys(p)
    PROVE  KeyOf(Written(r, p)) = KeyOf(r)
<1>1. Written(r, p).local = Merge(r.local, p.local)
  BY DEF Written
<1>2. "security" \in DOMAIN r.local
  BY DEF IsRadio, IsFull, LocalFields
<1>3. Merge(r.local, p.local)["security"] = r.local["security"]
  BY <1>2 DEF Merge, NoKeys
<1> QED
  BY <1>1, <1>3 DEF KeyOf

-----------------------------------------------------------------------------
(* The invariant.                                                          *)

\* In a JSON field no channel is named twice: where one is, the code takes the
\* later entry as a whole in one place and field by field in another.
ListsOnce == \A json \in Patches : Once(json.channels)

\* What may be on its way to a radio.
Sendable(p) == IsPatch(p) /\ NoKeys(p)

IsJob(job) ==
    /\ job.nodes \in Seq(Nodes) /\ job.clone.source \subseteq Nodes
    /\ IsConfig(job.base) /\ NoKeys(job.base)
    /\ ListsOnce => Once(job.base.channels) /\ job.asked = Explicit(job.base)

Fleet ==
    /\ DOMAIN radio = Nodes /\ DOMAIN copy = Nodes
    /\ \A n \in Nodes : IsRadio(radio[n]) /\ IsCopy(copy[n]) /\ KeyOf(radio[n]) = Keys[n]

Waiting ==
    /\ queue \in Seq(Range(queue)) /\ \A k \in DOMAIN queue : IsJob(queue[k])
    /\ \A saved \in defaults : Sendable(saved)
    /\ defaults = {} \/ \E saved : defaults = {saved}

Running ==
    /\ working \in BOOLEAN /\ left \in Seq(Nodes) /\ Sendable(patch)
    /\ ListsOnce /\ working => current = Explicit(patch)

Counters == requests \in 0..MaxRequests /\ events \in 0..MaxEvents

FleetInv == Fleet /\ Waiting /\ Running /\ Counters

\* What pages show and synchronisations have read.
Known(item) == item.node \in Nodes /\ IsCopy(item.found)

Seen ==
    /\ \A page \in pages : Known(page)
    /\ DOMAIN fetched = Syncers /\ \A y \in Syncers : \A reading \in fetched[y] : Known(reading)

LEMMA JsonIs == \A json \in Patches : IsConfig(json) /\ NoKeys(json)
BY FleetConfigAssumption DEF NoKeys

LEMMA FormIs ==
    ASSUME NEW form \in Forms
    PROVE  /\ IsPatch(FormPatch(form)) /\ IsPatch(BaselinePatch(form))
           /\ NoKeys(FormPatch(form)) /\ NoKeys(BaselinePatch(form))
<1>1. form \in FormType
  BY FleetConfigAssumption DEF FormType
<1> QED
  BY <1>1, FormIsPatch, BaselineIsPatch, FormNoKeys

LEMMA EmptySendable == Sendable(EmptyPatch)
BY EmptyIsPatch, EmptyNoKeys DEF Sendable

-----------------------------------------------------------------------------
(* Requests.                                                               *)

\* A request leaves radios alone and queues a job that may be sent.
LEMMA RequestInv ==
    ASSUME FleetInv, NEW N, NEW base, NEW clone, NEW asked, IsConfig(base), NoKeys(base),
           clone.source \subseteq Nodes,
           ListsOnce => Once(base.channels) /\ asked = Explicit(base),
           Queue(N, base, clone, asked), UNCHANGED <<defaults, current>>
    PROVE  FleetInv'
<1>1. PICK item : item = [nodes |-> InOrder(N), base |-> base, clone |-> clone, asked |-> asked]
  OBVIOUS
<1>2. /\ queue' = Append(queue, item) /\ requests < MaxRequests /\ requests' = requests + 1
      /\ UNCHANGED <<radio, copy, working, patch, left, events, defaults, current>>
  BY <1>1 DEF Queue
<1>3. IsJob(item)
  <2>1. item.nodes = InOrder(N) /\ item.base = base /\ item.clone = clone /\ item.asked = asked
    BY <1>1
  <2> QED
    BY <2>1, InOrderOf DEF IsJob
<1>4. Fleet'
  BY <1>2 DEF FleetInv, Fleet
<1>5. Waiting'
  <2>1. queue \in Seq(Range(queue)) /\ \A k \in DOMAIN queue : IsJob(queue[k])
    BY DEF FleetInv, Waiting
  <2>2. queue' \in Seq(Range(queue')) /\ \A k \in DOMAIN queue' : queue'[k] = item \/ \E l \in DOMAIN queue : queue'[k] = queue[l]
    <3>1. IsAppended(Append(queue, item), queue, item)
      BY <2>1, Appended
    <3> QED
      BY <1>2, <3>1 DEF IsAppended
  <2>3. \A k \in DOMAIN queue' : IsJob(queue'[k])
    BY <1>3, <2>1, <2>2
  <2> QED
    BY <1>2, <2>2, <2>3 DEF FleetInv, Waiting
<1>6. Running'
  BY <1>2 DEF FleetInv, Running
<1>7. Counters'
  BY <1>2, FleetConfigAssumption DEF FleetInv, Counters
<1> QED
  BY <1>4, <1>5, <1>6, <1>7 DEF FleetInv

LEMMA NoCloneOf == NoClone.source \subseteq Nodes /\ \A clone \in Clones : clone.source \subseteq Nodes
<1>1. \A select \in Selections : select = [source |-> select.source, local |-> select.local,
          module |-> select.module, channels |-> select.channels, role |-> select.role]
  BY FleetConfigAssumption
<1>2. \A select \in Selections, n \in Nodes : [select EXCEPT !.source = {n}].source = {n}
  BY <1>1
<1> QED
  BY <1>2 DEF NoClone, Clones

LEMMA BatchInv == FleetInv /\ BatchConfigure /\ UNCHANGED current => FleetInv'
<1> SUFFICES ASSUME FleetInv, BatchConfigure, UNCHANGED current PROVE FleetInv'
  OBVIOUS
<1>1. PICK N \in Targets, json \in Patches, form \in Forms, clone \in Clones :
        /\ Queue(N, MergePatches(json, BaselinePatch(form)), clone,
                 Over(Explicit(BaselinePatch(form)), Explicit(json)))
        /\ UNCHANGED defaults
  BY DEF BatchConfigure
<1>2. PICK extra : extra = BaselinePatch(form)
  OBVIOUS
<1>3. IsPatch(extra) /\ NoKeys(extra) /\ IsConfig(json) /\ NoKeys(json)
  BY <1>2, FormIs, JsonIs
<1>4. PICK base : base = MergePatches(json, extra)
  OBVIOUS
<1>5. IsPatch(base) /\ Explicit(base) = Over(Explicit(extra), Explicit(json))
  BY <1>3, <1>4, MergePatchesOf DEF IsPatch
<1>6. IsConfig(base) /\ NoKeys(base) /\ Once(base.channels)
  BY <1>3, <1>4, <1>5, MergePatchesNoKeys DEF IsPatch
<1>7. Queue(N, base, clone, Explicit(base))
  BY <1>1, <1>2, <1>4, <1>5
<1> QED
  BY <1>1, <1>6, <1>7, NoCloneOf, RequestInv

\* Configurations merged section by section, with their rows merged or, where only
\* one of them has rows, these as they are.
LEMMA MergeParts ==
    ASSUME NEW base, IsConfig(base), NEW extra, IsConfig(extra), NEW m,
           m.local = Merge(base.local, extra.local), m.module = Merge(base.module, extra.module),
           \/ m.channels = MergePatchRows(base.channels, extra.channels)
           \/ base.channels = <<>> /\ m.channels = extra.channels
           \/ extra.channels = <<>> /\ m.channels = base.channels
    PROVE  /\ IsConfig(m)
           /\ Once(base.channels) /\ Once(extra.channels) =>
                 Once(m.channels) /\ Explicit(m) = Over(Explicit(extra), Explicit(base))
<1>1. CASE m.channels = MergePatchRows(base.channels, extra.channels)
  <2>1. PICK x : x = MergePatches(base, extra)
    OBVIOUS
  <2>2. x.local = m.local /\ x.module = m.module /\ x.channels = m.channels
    BY <1>1, <2>1 DEF MergePatches
  <2>3. IsPatch(x) /\ (Once(extra.channels) => Explicit(x) = Over(Explicit(extra), Explicit(base)))
    BY <2>1, MergePatchesOf
  <2>4. Explicit(m) = Explicit(x)
    BY <2>2 DEF Explicit, Flat
  <2>5. IsConfig(m) /\ Once(m.channels)
    BY <2>2, <2>3, ConfigOf DEF IsPatch
  <2> QED
    BY <2>3, <2>4, <2>5
<1>2. CASE (base.channels = <<>> /\ m.channels = extra.channels)
           \/ (extra.channels = <<>> /\ m.channels = base.channels)
  <2>1. IsPart(m.local, LocalFields) /\ IsPart(m.module, ModuleFields)
    BY ConfigOf, MergePart
  <2>2. IsConfig(m)
    BY <1>2, <2>1, ConfigOf
  <2>3. PICK none, b, e, r :
          /\ none = Settings(ByIndex(<<>>, Given(<<>>)))
          /\ b = Settings(ByIndex(base.channels, Given(base.channels)))
          /\ e = Settings(ByIndex(extra.channels, Given(extra.channels)))
          /\ r = Settings(ByIndex(m.channels, Given(m.channels)))
    OBVIOUS
  <2>4. \A i, f : ~Has(none, i, f)
    <3>1. PICK rows : rows = <<>>
      OBVIOUS
    <3>2. IsRows(rows) /\ DOMAIN rows = {}
      BY <3>1, NoRows
    <3>3. \A i : i \notin DOMAIN ByIndex(rows, Given(rows))
      BY <3>2, GivenRows
    <3> QED
      BY <2>3, <3>1, <3>3, SettingsOf
  <2>5. (b = none /\ r = e) \/ (e = none /\ r = b)
    BY <1>2, <2>3
  <2>6. Merged(r, b, e)
    BY <2>4, <2>5 DEF Merged
  <2>7. Merged(m.local, base.local, extra.local) /\ Merged(m.module, base.module, extra.module)
    <3>1. /\ Merged(Merge(base.local, extra.local), base.local, extra.local)
          /\ Merged(Merge(base.module, extra.module), base.module, extra.module)
      BY MergeOf
    <3> QED
      BY <3>1
  <2>8. /\ IsFlat(Explicit(base), base.local, base.module, b)
        /\ IsFlat(Explicit(extra), extra.local, extra.module, e)
        /\ IsFlat(Explicit(m), m.local, m.module, r)
    BY <2>3, ExplicitIs
  <2>9. Explicit(m) = Over(Explicit(extra), Explicit(base))
    BY <2>6, <2>7, <2>8, FlatMerged
  <2> QED
    BY <1>2, <2>2, <2>9
<1> QED
  BY <1>1, <1>2

LEMMA NodeInv == FleetInv /\ NodeConfigure /\ UNCHANGED current => FleetInv'
<1> SUFFICES ASSUME FleetInv, NodeConfigure, UNCHANGED current PROVE FleetInv'
  OBVIOUS
<1>1. PICK n \in Nodes, whole \in Patches, json \in Patches, form \in Forms :
        /\ Queue({n}, NodePatch(whole, json, form), NoClone,
                 Over(Explicit(FormPatch(form)), Over(Explicit(json), Explicit(whole))))
        /\ UNCHANGED <<defaults, pages>>
  BY DEF NodeConfigure
<1>2. PICK extra : extra = FormPatch(form)
  OBVIOUS
<1>3. /\ IsPatch(extra) /\ NoKeys(extra) /\ IsConfig(json) /\ NoKeys(json)
      /\ IsConfig(whole) /\ NoKeys(whole)
  BY <1>2, FormIs, JsonIs
<1>4. PICK rows : rows = IF whole.channels = <<>> THEN json.channels
                         ELSE MergePatchRows(whole.channels, json.channels)
  OBVIOUS
<1>5. PICK both : both = [local |-> Merge(whole.local, json.local), module |-> Merge(whole.module, json.module),
                          channels |-> rows]
  OBVIOUS
<1>6. /\ both.local = Merge(whole.local, json.local) /\ both.module = Merge(whole.module, json.module)
      /\ both.channels = rows
  BY <1>5
<1>7. /\ IsConfig(both)
      /\ ListsOnce => Once(both.channels) /\ Explicit(both) = Over(Explicit(json), Explicit(whole))
  <2>1. \/ both.channels = MergePatchRows(whole.channels, json.channels)
        \/ whole.channels = <<>> /\ both.channels = json.channels
    BY <1>4, <1>6
  <2>2. /\ IsConfig(both)
        /\ Once(whole.channels) /\ Once(json.channels) =>
              Once(both.channels) /\ Explicit(both) = Over(Explicit(json), Explicit(whole))
    BY <1>3, <1>6, <2>1, MergeParts
  <2> QED
    BY <2>2 DEF ListsOnce
<1>8. PICK base : base = NodePatch(whole, json, form)
  OBVIOUS
<1>9. /\ base.local = Merge(both.local, extra.local) /\ base.module = Merge(both.module, extra.module)
      /\ base.channels = IF extra.channels = <<>> THEN both.channels
                         ELSE MergePatchRows(both.channels, extra.channels)
  BY <1>2, <1>4, <1>6, <1>8 DEF NodePatch
<1>10. /\ IsConfig(base)
       /\ ListsOnce => Once(base.channels) /\ Explicit(base) = Over(Explicit(extra), Explicit(both))
  <2>1. \/ base.channels = MergePatchRows(both.channels, extra.channels)
        \/ extra.channels = <<>> /\ base.channels = both.channels
    BY <1>9
  <2>2. IsConfig(extra) /\ Once(extra.channels)
    BY <1>3 DEF IsPatch
  <2>3. /\ IsConfig(base)
        /\ Once(both.channels) /\ Once(extra.channels) =>
              Once(base.channels) /\ Explicit(base) = Over(Explicit(extra), Explicit(both))
    BY <1>7, <1>9, <2>1, <2>2, MergeParts
  <2> QED
    BY <1>7, <2>2, <2>3
<1>11. NoKeys(base)
  <2>1. "security" \notin DOMAIN both.local
    BY <1>3, <1>6 DEF NoKeys, Merge
  <2> QED
    BY <1>3, <1>9, <2>1 DEF NoKeys, Merge
<1>12. PICK asked : asked = Over(Explicit(extra), Over(Explicit(json), Explicit(whole)))
  OBVIOUS
<1>13. Queue({n}, base, NoClone, asked) /\ (ListsOnce => Once(base.channels) /\ asked = Explicit(base))
  BY <1>1, <1>2, <1>7, <1>8, <1>10, <1>12
<1> QED
  BY <1>1, <1>10, <1>11, <1>13, NoCloneOf, RequestInv

LEMMA StructuredInv == FleetInv /\ Seen /\ StructuredConfigure /\ UNCHANGED current => FleetInv'
<1> SUFFICES ASSUME FleetInv, Seen, StructuredConfigure, UNCHANGED current PROVE FleetInv'
  OBVIOUS
<1>0. PICK page \in pages, typed \in Patches :
        \E edited, sent :
           /\ edited = [local |-> typed.local, module |-> typed.module, channels |-> <<>>]
           /\ sent = MergePatches(EditorPatch(page.found), edited)
           /\ \/ /\ Queue({page.node}, sent, NoClone, Over(Explicit(edited), Explicit(EditorPatch(page.found))))
                 /\ UNCHANGED defaults
              \/ UNCHANGED <<radio, copy, defaults, jobVars, fetched, requests, events>>
  BY DEF StructuredConfigure
<1>1. PICK edited, sent :
        /\ edited = [local |-> typed.local, module |-> typed.module, channels |-> <<>>]
        /\ sent = MergePatches(EditorPatch(page.found), edited)
        /\ \/ /\ Queue({page.node}, sent, NoClone, Over(Explicit(edited), Explicit(EditorPatch(page.found))))
              /\ UNCHANGED defaults
           \/ UNCHANGED <<radio, copy, defaults, jobVars, fetched, requests, events>>
  BY <1>0
<1>2. PICK editor : editor = EditorPatch(page.found)
  OBVIOUS
<1>3. IsPatch(edited) /\ NoKeys(edited)
  <2>1. edited.local = typed.local /\ edited.module = typed.module /\ edited.channels = <<>>
    BY <1>1
  <2>2. IsConfig(typed) /\ NoKeys(typed)
    BY JsonIs
  <2> QED
    BY <2>1, <2>2, NoRows, ConfigOf DEF IsPatch, NoKeys
<1>4. IsPatch(editor) /\ NoKeys(editor)
  BY <1>2, EditorIsPatch, EditorNoKeys DEF Seen, Known
<1>5. IsPatch(sent) /\ Explicit(sent) = Over(Explicit(edited), Explicit(editor))
  BY <1>1, <1>2, <1>3, <1>4, MergePatchesOf DEF IsPatch
<1>6. IsConfig(sent) /\ NoKeys(sent) /\ Once(sent.channels)
  BY <1>1, <1>2, <1>3, <1>4, <1>5, MergePatchesNoKeys DEF IsPatch
<1>7. CASE Queue({page.node}, sent, NoClone, Over(Explicit(edited), Explicit(EditorPatch(page.found))))
           /\ UNCHANGED defaults
  <2>1. Queue({page.node}, sent, NoClone, Explicit(sent)) /\ UNCHANGED defaults
    BY <1>2, <1>5, <1>7
  <2> QED
    BY <1>6, <2>1, NoCloneOf, RequestInv
<1>8. CASE UNCHANGED <<radio, copy, defaults, jobVars, fetched, requests, events>>
  BY <1>8 DEF jobVars, FleetInv, Fleet, Waiting, Running, Counters
<1> QED
  BY <1>1, <1>7, <1>8

LEMMA ApplyInv == FleetInv /\ ApplyDefaults /\ UNCHANGED current => FleetInv'
<1> SUFFICES ASSUME FleetInv, ApplyDefaults, UNCHANGED current PROVE FleetInv'
  OBVIOUS
<1>1. PICK saved \in defaults : Queue(Nodes, saved, NoClone, Explicit(saved)) /\ UNCHANGED defaults
  BY DEF ApplyDefaults
<1>2. IsConfig(saved) /\ NoKeys(saved) /\ Once(saved.channels)
  BY DEF FleetInv, Waiting, Sendable, IsPatch
<1> QED
  BY <1>1, <1>2, NoCloneOf, RequestInv

LEMMA SyncRequestInv == FleetInv /\ CompareSyncRequest /\ UNCHANGED current => FleetInv'
<1> SUFFICES ASSUME FleetInv, CompareSyncRequest, UNCHANGED current PROVE FleetInv'
  OBVIOUS
<1>1. PICK source \in Nodes, N \in Targets, alignment \in BOOLEAN, select \in Selections :
        CompareSync(source, N, alignment, select)
  BY DEF CompareSyncRequest
<1>2. PICK base : base = [local |-> IF alignment /\ select.local THEN AlignmentLocal(copy[source]) ELSE <<>>,
                 module |-> IF alignment /\ select.module THEN AlignmentModule(copy[source]) ELSE <<>>,
                 channels |-> <<>>]
  OBVIOUS
<1>3. PICK clone : clone = [source |-> {source}, local |-> select.local /\ ~alignment,
                          module |-> select.module /\ ~alignment,
                          channels |-> select.channels, role |-> FALSE]
  OBVIOUS
<1>4. Queue(N, base, clone, Explicit(base)) /\ UNCHANGED defaults
  BY <1>1, <1>2, <1>3 DEF CompareSync
<1>5. PICK c : c = copy[source]
  OBVIOUS
<1>6. IsConfig(c)
  BY <1>5 DEF FleetInv, Fleet, IsCopy
<1>7. /\ base.local = IF alignment /\ select.local THEN AlignmentLocal(c) ELSE <<>>
      /\ base.module = IF alignment /\ select.module THEN AlignmentModule(c) ELSE <<>>
      /\ base.channels = <<>>
  BY <1>2, <1>5
<1>8. IsPart(base.local, LocalFields) /\ IsPart(base.module, ModuleFields)
  BY <1>6, <1>7, AlignmentParts, NoPart
<1>9. NoKeys(base)
  <2>1. "security" \notin DOMAIN <<>>
    OBVIOUS
  <2> QED
    BY <1>7, <2>1, AlignmentNoKeys DEF NoKeys
<1>10. IsConfig(base) /\ NoKeys(base) /\ Once(base.channels)
  BY <1>7, <1>8, <1>9, NoRows, ConfigOf
<1>11. clone.source \subseteq Nodes
  BY <1>3
<1> QED
  BY <1>4, <1>10, <1>11, RequestInv

-----------------------------------------------------------------------------
(* The other steps.                                                        *)

LEMMA InitInv == Init => FleetInv
<1> SUFFICES ASSUME Init PROVE FleetInv
  OBVIOUS
<1>1. PICK start \in Starts :
        radio = [n \in Nodes |-> [local |-> [start[n].local EXCEPT !["security"] = [privateKey |-> Keys[n]]],
                                  module |-> start[n].module, channels |-> start[n].channels]]
  BY DEF Init
<1>2. ASSUME NEW n \in Nodes PROVE IsRadio(radio[n]) /\ KeyOf(radio[n]) = Keys[n]
  <2>1. PICK r, t, key : r = start[n] /\ t = r.local /\ key = Keys[n]
    OBVIOUS
  <2>2. IsRadio(r) /\ key \in Values
    BY <2>1, FleetConfigAssumption
  <2>3. PICK u : u = [t EXCEPT !["security"] = [privateKey |-> key]]
    OBVIOUS
  <2>4. PICK w : w = radio[n]
    OBVIOUS
  <2>5. w = [local |-> u, module |-> r.module, channels |-> r.channels]
    BY <1>1, <2>1, <2>3, <2>4
  <2>6. DOMAIN u = DOMAIN t /\ \A s \in DOMAIN t : u[s] = IF s = "security" THEN [privateKey |-> key] ELSE t[s]
    BY <2>3
  <2>7. IsFull(t, LocalFields) /\ "security" \in DOMAIN t
    BY <2>1, <2>2 DEF IsRadio, IsFull, LocalFields
  <2>8. LocalFields["security"] = {"privateKey"}
    BY DEF LocalFields
  <2>9. IsFull(u, LocalFields)
    <3>1. ASSUME NEW s \in DOMAIN u
          PROVE  /\ s \in DOMAIN LocalFields /\ DOMAIN u[s] = LocalFields[s]
                 /\ \A f \in DOMAIN u[s] : u[s][f] \in Values
      <4>1. CASE s = "security"
        <5>1. u[s] = [privateKey |-> key]
          BY <2>6, <2>7, <4>1
        <5>2. DOMAIN u[s] = {"privateKey"} /\ u[s]["privateKey"] = key
          BY <5>1
        <5> QED
          BY <2>2, <2>6, <2>7, <2>8, <4>1, <5>2 DEF IsFull
      <4>2. CASE s # "security"
        BY <2>6, <2>7, <4>2 DEF IsFull, IsPart
      <4> QED
        BY <4>1, <4>2
    <3> QED
      BY <2>6, <2>7, <3>1 DEF IsFull, IsPart
  <2>10. w.local = u /\ w.module = r.module /\ w.channels = r.channels
    BY <2>5
  <2>11. IsRadio(w)
    BY <2>2, <2>5, <2>9, <2>10 DEF IsRadio
  <2>12. u["security"]["privateKey"] = key
    BY <2>6, <2>7
  <2> QED
    BY <2>1, <2>4, <2>10, <2>11, <2>12 DEF KeyOf
<1>3. DOMAIN radio = Nodes
  BY <1>1
<1>4. DOMAIN copy = Nodes /\ \A n \in Nodes : copy[n] = Report(radio[n])
  BY DEF Init
<1>5. Fleet
  BY <1>2, <1>3, <1>4, ReportOf DEF Fleet
<1>6. Waiting
  <2>1. queue = <<>> /\ defaults = {}
    BY DEF Init
  <2>2. queue \in Seq(Range(queue)) /\ DOMAIN queue = {}
    BY <2>1
  <2> QED
    BY <2>1, <2>2 DEF Waiting
<1>7. Running
  <2>1. working = FALSE /\ left = <<>> /\ patch = EmptyPatch
    BY DEF Init
  <2>2. <<>> \in Seq(Nodes)
    OBVIOUS
  <2> QED
    BY <2>1, <2>2, EmptySendable DEF Running
<1>8. Counters
  BY DEF Init, Counters
<1> QED
  BY <1>5, <1>6, <1>7, <1>8 DEF FleetInv

LEMMA SaveInv == FleetInv /\ SaveDefaults /\ UNCHANGED current => FleetInv'
<1> SUFFICES ASSUME FleetInv, SaveDefaults, UNCHANGED current PROVE FleetInv'
  OBVIOUS
<1>1. PICK form \in Forms : defaults' = {FormPatch(form)}
  BY DEF SaveDefaults
<1>2. UNCHANGED <<radio, copy, queue, working, patch, left, events, current>> /\ requests' \in 0..MaxRequests
  BY DEF SaveDefaults, jobVars, FleetInv, Counters
<1>3. Fleet' /\ Running' /\ Counters'
  BY <1>2 DEF FleetInv, Fleet, Running, Counters
<1>4. Sendable(FormPatch(form))
  BY FormIs DEF Sendable
<1>5. Waiting'
  BY <1>1, <1>2, <1>4 DEF FleetInv, Waiting
<1> QED
  BY <1>3, <1>5 DEF FleetInv

LEMMA StartInv ==
    FleetInv /\ StartJob /\ current' = Over(Head(queue).asked, Explicit(Cloned(Head(queue).clone))) => FleetInv'
<1> SUFFICES ASSUME FleetInv, StartJob, current' = Over(Head(queue).asked, Explicit(Cloned(Head(queue).clone)))
             PROVE  FleetInv'
  OBVIOUS
<1>1. PICK q, t : q = queue /\ t = queue'
  OBVIOUS
<1>2. q # <<>> /\ t = Tail(q) /\ q \in Seq(Range(q)) /\ \A k \in DOMAIN q : IsJob(q[k])
  BY <1>1 DEF StartJob, FleetInv, Waiting
<1>3. /\ t \in Seq(Range(t)) /\ 1 \in DOMAIN q /\ Head(q) = q[1]
      /\ \A k \in DOMAIN t : \E l \in DOMAIN q : t[k] = q[l]
  <2>1. IsTail(Tail(q), q)
    BY <1>2, Shortened
  <2> QED
    BY <1>2, <2>1 DEF IsTail
<1>4. PICK job : job = Head(queue)
  OBVIOUS
<1>5. IsJob(job)
  BY <1>1, <1>2, <1>3, <1>4
<1>6. PICK extra : extra = Cloned(job.clone)
  OBVIOUS
<1>7. /\ working' = TRUE /\ patch' = MergePatches(extra, job.base) /\ left' = job.nodes
      /\ UNCHANGED <<radio, copy, defaults, requests, events>>
      /\ current' = Over(job.asked, Explicit(extra))
  BY <1>4, <1>6 DEF StartJob
<1>8. Sendable(extra)
  <2>1. \A n \in Nodes : IsCopy(copy[n])
    BY DEF FleetInv, Fleet
  <2> QED
    BY <1>5, <1>6, <2>1, ClonedIsPatch, ClonedNoKeys DEF IsJob, Sendable
<1>9. PICK p : p = MergePatches(extra, job.base)
  OBVIOUS
<1>10. Sendable(p) /\ (Once(job.base.channels) => Explicit(p) = Over(Explicit(job.base), Explicit(extra)))
  BY <1>5, <1>8, <1>9, MergePatchesOf, MergePatchesNoKeys DEF IsJob, Sendable, IsPatch
<1>11. Fleet' /\ Counters'
  BY <1>7 DEF FleetInv, Fleet, Counters
<1>12. Waiting'
  <2>1. \A k \in DOMAIN t : IsJob(t[k])
    BY <1>2, <1>3
  <2> QED
    BY <1>1, <1>3, <1>7, <2>1 DEF FleetInv, Waiting
<1>13. Running'
  <2>1. ListsOnce => current' = Explicit(patch')
    BY <1>5, <1>7, <1>9, <1>10 DEF IsJob
  <2> QED
    BY <1>5, <1>7, <1>9, <1>10, <2>1 DEF Running, IsJob
<1> QED
  BY <1>11, <1>12, <1>13 DEF FleetInv

LEMMA HeadOf ==
    ASSUME NEW s \in Seq(Nodes), s # <<>>
    PROVE  Head(s) \in Nodes /\ Tail(s) \in Seq(Nodes)
OBVIOUS

\* A patch without keys leaves every radio a radio with its own key.
LEMMA PatchInv == FleetInv /\ PatchNode /\ UNCHANGED current => FleetInv'
<1> SUFFICES ASSUME FleetInv, PatchNode, UNCHANGED current PROVE FleetInv'
  OBVIOUS
<1>1. PICK m, p : m = Head(left) /\ p = Sent(patch)
  OBVIOUS
<1>2. /\ radio' = [radio EXCEPT ![m] = Written(radio[m], p)]
      /\ copy' = [copy EXCEPT ![m] = Patched(copy[m], patch)]
      /\ left # <<>> /\ left' = Tail(left)
      /\ UNCHANGED <<defaults, queue, working, patch, requests, events>>
  BY <1>1 DEF PatchNode
<1>3. m \in Nodes /\ left' \in Seq(Nodes)
  BY <1>1, <1>2, HeadOf DEF FleetInv, Running
<1>4. IsPatch(patch) /\ IsPatch(p) /\ NoKeys(p)
  <2>1. IsPatch(patch) /\ NoKeys(patch)
    BY DEF FleetInv, Running, Sendable
  <2>2. p.local = patch.local
    BY <1>1 DEF Sent
  <2> QED
    BY <1>1, <2>1, <2>2, SentIsPatch DEF NoKeys
<1>5. ASSUME NEW n \in Nodes
      PROVE  IsRadio(radio'[n]) /\ IsCopy(copy'[n]) /\ KeyOf(radio'[n]) = Keys[n]
  <2>1. PICK r, c : r = radio[n] /\ c = copy[n]
    OBVIOUS
  <2>2. IsRadio(r) /\ IsCopy(c) /\ KeyOf(r) = Keys[n] /\ DOMAIN radio = Nodes /\ DOMAIN copy = Nodes
    BY <2>1 DEF FleetInv, Fleet
  <2>3. CASE n # m
    BY <1>2, <1>3, <2>1, <2>2, <2>3
  <2>4. CASE n = m
    <3>1. radio'[n] = Written(r, p) /\ copy'[n] = Patched(c, patch)
      BY <1>2, <1>3, <2>1, <2>2, <2>4
    <3>2. IsRadio(Written(r, p)) /\ KeyOf(Written(r, p)) = KeyOf(r)
      BY <1>4, <2>2, WrittenIsRadio, WrittenKey DEF IsPatch
    <3>3. IsCopy(Patched(c, patch))
      BY <1>4, <2>2, PatchedCopy DEF IsPatch
    <3> QED
      BY <2>2, <3>1, <3>2, <3>3
  <2> QED
    BY <2>3, <2>4
<1>6. Fleet'
  <2>1. DOMAIN radio' = Nodes /\ DOMAIN copy' = Nodes
    BY <1>2 DEF FleetInv, Fleet
  <2> QED
    BY <1>5, <2>1 DEF Fleet
<1>7. Waiting' /\ Running' /\ Counters'
  BY <1>2, <1>3 DEF FleetInv, Waiting, Running, Counters
<1> QED
  BY <1>6, <1>7 DEF FleetInv

LEMMA RadioChangesInv == FleetInv /\ RadioChanges /\ UNCHANGED current => FleetInv'
<1> SUFFICES ASSUME FleetInv, RadioChanges, UNCHANGED current PROVE FleetInv'
  OBVIOUS
<1>1. PICK m \in Nodes, form \in {[NoForm EXCEPT !.hopLimit = {0}], [NoForm EXCEPT !.uplink = {0}]} :
        radio' = [radio EXCEPT ![m] = Written(radio[m], FormPatch(form))]
  BY DEF RadioChanges
<1>2. /\ UNCHANGED <<copy, defaults, queue, working, patch, left, requests, current>>
      /\ events' \in 0..MaxEvents
  BY DEF RadioChanges, jobVars, FleetInv, Counters
<1>3. form \in FormType
  BY DEF FormType, NoForm, Values, Switch
<1>4. PICK p : p = FormPatch(form)
  OBVIOUS
<1>5. IsConfig(p) /\ NoKeys(p)
  BY <1>3, <1>4, FormIsPatch, FormNoKeys DEF IsPatch
<1>6. ASSUME NEW n \in Nodes PROVE IsRadio(radio'[n]) /\ KeyOf(radio'[n]) = Keys[n]
  <2>1. PICK r : r = radio[n]
    OBVIOUS
  <2>2. IsRadio(r) /\ KeyOf(r) = Keys[n] /\ DOMAIN radio = Nodes
    BY <2>1 DEF FleetInv, Fleet
  <2>3. IsRadio(Written(r, p)) /\ KeyOf(Written(r, p)) = KeyOf(r)
    BY <1>5, <2>2, WrittenIsRadio, WrittenKey
  <2>4. radio'[n] = r \/ radio'[n] = Written(r, p)
    BY <1>1, <1>4, <2>1, <2>2
  <2> QED
    BY <2>2, <2>3, <2>4
<1>7. Fleet'
  BY <1>1, <1>2, <1>6 DEF FleetInv, Fleet
<1>8. Waiting' /\ Running' /\ Counters'
  BY <1>2 DEF FleetInv, Waiting, Running, Counters
<1> QED
  BY <1>7, <1>8 DEF FleetInv

\* What a synchronisation has read is a copy, however old.
LEMMA StoreInv ==
    FleetInv /\ Seen /\ (\E y \in Syncers : \E reading \in fetched[y] : Store(y, reading)) /\ UNCHANGED current
        => FleetInv'
<1> SUFFICES ASSUME FleetInv, Seen, NEW y \in Syncers, NEW reading \in fetched[y], Store(y, reading),
                    UNCHANGED current
             PROVE  FleetInv'
  OBVIOUS
<1>1. /\ copy' = [copy EXCEPT ![reading.node] = reading.found]
      /\ UNCHANGED <<radio, defaults, queue, working, patch, left, requests, events, current>>
  BY DEF Store, jobVars
<1>2. IsCopy(reading.found)
  BY DEF Seen, Known
<1>3. ASSUME NEW n \in Nodes PROVE IsCopy(copy'[n])
  <2>1. IsCopy(copy[n]) /\ DOMAIN copy = Nodes
    BY DEF FleetInv, Fleet
  <2>2. copy'[n] = copy[n] \/ copy'[n] = reading.found
    BY <1>1, <2>1
  <2> QED
    BY <1>2, <2>1, <2>2
<1>4. Fleet'
  BY <1>1, <1>3 DEF FleetInv, Fleet
<1> QED
  BY <1>1, <1>4 DEF FleetInv, Waiting, Running, Counters

\* Opening a page and reading a radio are nothing to the fleet.
LEMMA LookInv ==
    FleetInv /\ (OpenPage \/ \E y \in Syncers : Fetch(y) \/ SyncFails(y)) /\ UNCHANGED current => FleetInv'
<1> SUFFICES ASSUME FleetInv, OpenPage \/ \E y \in Syncers : Fetch(y) \/ SyncFails(y), UNCHANGED current
             PROVE  FleetInv'
  OBVIOUS
<1>1. /\ UNCHANGED <<radio, copy, defaults, queue, working, patch, left, requests, current>>
      /\ events' = events \/ (events < MaxEvents /\ events' = events + 1)
  BY DEF OpenPage, Fetch, SyncFails, jobVars
<1>2. events' \in 0..MaxEvents
  BY <1>1, FleetConfigAssumption DEF FleetInv, Counters
<1> QED
  BY <1>1, <1>2 DEF FleetInv, Fleet, Waiting, Running, Counters

LEMMA StepInv == FleetInv /\ Seen /\ [Next]_vars => FleetInv'
<1> SUFFICES ASSUME FleetInv, Seen, [Next]_vars PROVE FleetInv'
  OBVIOUS
<1>1. CASE /\ BatchConfigure \/ NodeConfigure \/ StructuredConfigure \/ SaveDefaults
              \/ ApplyDefaults \/ RadioChanges
           /\ UNCHANGED current
  BY <1>1, BatchInv, NodeInv, StructuredInv, SaveInv, ApplyInv, RadioChangesInv
<1>2. CASE CompareSyncRequest /\ UNCHANGED current
  BY <1>2, SyncRequestInv
<1>3. CASE (OpenPage \/ \E y \in Syncers : Fetch(y) \/ SyncFails(y)) /\ UNCHANGED current
  BY <1>3, LookInv
<1>9. CASE (\E y \in Syncers : \E reading \in fetched[y] : Store(y, reading)) /\ UNCHANGED current
  BY <1>9, StoreInv
<1>4. CASE StartJob /\ current' = Over(Head(queue).asked, Explicit(Cloned(Head(queue).clone)))
  BY <1>4, StartInv
<1>5. CASE PatchNode /\ UNCHANGED current
  BY <1>5, PatchInv
<1>6. CASE PatchFails /\ UNCHANGED current
  <2>1. left # <<>> /\ left' = Tail(left) /\ UNCHANGED <<radio, copy, defaults, queue, working, patch, requests, events, current>>
    BY <1>6 DEF PatchFails
  <2>2. left' \in Seq(Nodes)
    BY <2>1, HeadOf DEF FleetInv, Running
  <2> QED
    BY <2>1, <2>2 DEF FleetInv, Fleet, Waiting, Running, Counters
<1>7. CASE EndJob
  <2>1. working' = FALSE /\ patch' = EmptyPatch /\ UNCHANGED <<radio, copy, defaults, queue, left, requests, events>>
    BY <1>7 DEF EndJob
  <2> QED
    BY <2>1, EmptySendable DEF FleetInv, Fleet, Waiting, Running, Counters
<1>8. CASE UNCHANGED vars
  BY <1>8 DEF vars, jobVars, FleetInv, Fleet, Waiting, Running, Counters
<1> QED
  BY <1>1, <1>2, <1>3, <1>4, <1>5, <1>6, <1>7, <1>8, <1>9 DEF Next

-----------------------------------------------------------------------------
(* Pages and readings.                                                     *)

\* Requests leave what has been read alone and at most close a page.
LEMMA RequestSeen ==
    ASSUME Seen, BatchConfigure \/ NodeConfigure \/ StructuredConfigure \/ SaveDefaults \/ ApplyDefaults
                   \/ RadioChanges \/ CompareSyncRequest
    PROVE  Seen'
<1>1. \A N, base, clone, asked : Queue(N, base, clone, asked) => UNCHANGED fetched
  BY DEF Queue
<1>2. CASE BatchConfigure \/ NodeConfigure \/ SaveDefaults \/ ApplyDefaults \/ RadioChanges
  <2>1. UNCHANGED <<pages, fetched>>
    BY <1>1, <1>2 DEF BatchConfigure, NodeConfigure, SaveDefaults, ApplyDefaults, RadioChanges, readings
  <2> QED
    BY <2>1 DEF Seen
<1>3. CASE CompareSyncRequest
  <2>1. PICK source \in Nodes, N \in Targets, alignment \in BOOLEAN, select \in Selections :
          CompareSync(source, N, alignment, select)
    BY <1>3 DEF CompareSyncRequest
  <2>2. UNCHANGED <<pages, fetched>>
    BY <1>1, <2>1 DEF CompareSync
  <2> QED
    BY <2>2 DEF Seen
<1>4. CASE StructuredConfigure
  <2>1. PICK page \in pages : pages' = pages \ {page} /\ UNCHANGED fetched
    BY <1>1, <1>4 DEF StructuredConfigure
  <2> QED
    BY <2>1 DEF Seen
<1> QED
  BY <1>2, <1>3, <1>4

LEMMA StepSeen == FleetInv /\ Seen /\ [Next]_vars => Seen'
<1> SUFFICES ASSUME FleetInv, Seen, [Next]_vars PROVE Seen'
  OBVIOUS
<1>1. CASE OpenPage
  <2>1. PICK n \in Nodes, kept \in SUBSET pages : pages' = kept \cup {[node |-> n, found |-> copy[n]]}
    BY <1>1 DEF OpenPage
  <2>2. PICK page : page = [node |-> n, found |-> copy[n]]
    OBVIOUS
  <2>3. page.node = n /\ page.found = copy[n]
    BY <2>2
  <2>4. Known(page)
    BY <2>3 DEF Known, FleetInv, Fleet
  <2>5. UNCHANGED fetched
    BY <1>1 DEF OpenPage
  <2> QED
    BY <2>1, <2>2, <2>4, <2>5 DEF Seen
<1>2. ASSUME NEW y \in Syncers, Fetch(y) PROVE Seen'
  <2>1. PICK n \in Nodes : fetched' = [fetched EXCEPT ![y] = {[node |-> n, found |-> Report(radio[n])]}]
    BY <1>2 DEF Fetch
  <2>2. PICK reading : reading = [node |-> n, found |-> Report(radio[n])]
    OBVIOUS
  <2>3. reading.node = n /\ reading.found = Report(radio[n])
    BY <2>2
  <2>4. IsCopy(Report(radio[n]))
    BY ReportOf DEF FleetInv, Fleet
  <2>5. Known(reading)
    BY <2>3, <2>4 DEF Known
  <2>6. UNCHANGED pages
    BY <1>2 DEF Fetch
  <2> QED
    BY <2>1, <2>2, <2>5, <2>6 DEF Seen
<1>3. ASSUME NEW y \in Syncers, fetched' = [fetched EXCEPT ![y] = {}], UNCHANGED pages PROVE Seen'
  BY <1>3 DEF Seen
<1>4. CASE \E y \in Syncers : SyncFails(y)
  BY <1>3, <1>4 DEF SyncFails
<1>5. CASE \E y \in Syncers : \E reading \in fetched[y] : Store(y, reading)
  BY <1>3, <1>5 DEF Store
<1>6. CASE StartJob \/ PatchNode \/ PatchFails \/ EndJob \/ UNCHANGED vars
  <2>1. UNCHANGED <<pages, fetched>>
    BY <1>6 DEF StartJob, PatchNode, PatchFails, EndJob, vars, readings
  <2> QED
    BY <2>1 DEF Seen
<1> QED
  BY <1>1, <1>2, <1>4, <1>5, <1>6, RequestSeen DEF Next

LEMMA FleetInvHolds == Spec => [](FleetInv /\ Seen)
<1>1. Init => Seen
  BY DEF Init, Seen
<1> QED
  BY <1>1, InitInv, StepInv, StepSeen, PTL DEF Spec

\* Whatever is asked for, cloned and merged, radios hold complete configurations,
\* copies list both channels by their place, and everything queued, saved or being
\* written is a patch of known fields (operations/service.py:29-55,
\* api/app.py:593-631, jobs/queue.py:566-631).
THEOREM Types == Spec => []TypeOK
<1>1. FleetInv /\ Seen => TypeOK
  <2> SUFFICES ASSUME FleetInv, Seen PROVE TypeOK
    OBVIOUS
  <2>1. Cardinality(defaults) <= 1
    <3>1. CASE defaults = {}
      <4>1. Cardinality({}) = 0
        BY FS_EmptySet
      <4> QED
        BY <3>1, <4>1
    <3>2. ASSUME NEW saved, defaults = {saved} PROVE Cardinality(defaults) <= 1
      <4>1. Cardinality({saved}) = 1
        BY FS_Singleton
      <4> QED
        BY <3>2, <4>1
    <3> QED
      BY <3>1, <3>2 DEF FleetInv, Waiting
  <2> QED
    BY <2>1 DEF FleetInv, Fleet, Waiting, Running, Counters, Sendable, IsPatch, IsJob, Seen, Known, TypeOK
<1> QED
  BY <1>1, FleetInvHolds, PTL

\* No radio ever gets the private key of another one, for any number of nodes,
\* requests and jobs, whatever is cloned, aligned, edited or saved as a default
\* (jobs/queue.py:600-607, api/app.py:1244-1259, 1408-1418).
THEOREM KeysStay == Spec => []KeysStayPut
<1>1. FleetInv => KeysStayPut
  BY DEF FleetInv, Fleet, KeyOf, KeysStayPut
<1> QED
  BY <1>1, FleetInvHolds, PTL

-----------------------------------------------------------------------------
(* What a patch does to the fields.                                        *)

LEMMA SettingOf ==
    ASSUME NEW r, NEW s, NEW f, NEW q
    PROVE  /\ q = <<"local", s, f>> => Setting(r, q) = r.local[s][f] /\ q[1] = "local"
           /\ q = <<"module", s, f>> => Setting(r, q) = r.module[s][f] /\ q[1] = "module" /\ q[2] = s
           /\ q = <<"channels", s, f>> => Setting(r, q) = r.channels[s][f] /\ q[1] = "channels"
BY DEF Setting

LEMMA FieldOf ==
    ASSUME NEW q \in AllFields
    PROVE  \/ \E s \in DOMAIN LocalFields : \E f \in LocalFields[s] : q = <<"local", s, f>>
           \/ \E s \in DOMAIN ModuleFields : \E f \in ModuleFields[s] : q = <<"module", s, f>>
           \/ \E i \in Channels, f \in ChannelFields : q = <<"channels", i, f>>
<1>1. ASSUME NEW shape, NEW name, q \in Fields(shape, name)
      PROVE  \E s \in DOMAIN shape : \E f \in shape[s] : q = <<name, s, f>>
  <2>1. PICK s \in DOMAIN shape : \E w \in {s} \X shape[s] : q = <<name, w[1], w[2]>>
    BY <1>1 DEF Fields
  <2> QED
    BY <2>1
<1> QED
  BY <1>1 DEF AllFields

\* What is left of a value: what e says of q, or v.
Into(e, q, v) ==
    IF q \in DOMAIN e /\ (q[1] = "module" => q[2] # "ambientLighting") THEN e[q] ELSE v

LEMMA WrittenSetting ==
    ASSUME NEW r, IsRadio(r), NEW p, IsPatch(p), NEW q \in AllFields
    PROVE  Setting(Written(r, Sent(p)), q) = Into(Explicit(p), q, Setting(r, q))
<1>1. PICK e : e = Explicit(p)
  OBVIOUS
<1>2. PICK B : B = ByIndex(p.channels, Given(p.channels))
  OBVIOUS
<1>3. IsFlat(e, p.local, p.module, Settings(B))
  BY <1>1, <1>2, ExplicitIs
<1>4. PICK w : w = Written(r, Sent(p))
  OBVIOUS
<1>5. PICK m : m = [s \in DOMAIN p.module \ {"ambientLighting"} |-> p.module[s]]
  OBVIOUS
<1>6. /\ w.local = Merge(r.local, p.local) /\ w.module = Merge(r.module, m)
      /\ w.channels = [i \in Channels |-> Override(r.channels[i], p.channels, i)]
  <2>1. PICK z : z = Sent(p)
    OBVIOUS
  <2>2. z.local = p.local /\ z.module = m /\ z.channels = p.channels
    BY <1>5, <2>1 DEF Sent
  <2>3. w = [local |-> Merge(r.local, z.local), module |-> Merge(r.module, z.module),
             channels |-> [i \in Channels |-> Override(r.channels[i], z.channels, i)]]
    BY <1>4, <2>1 DEF Written
  <2> QED
    BY <2>2, <2>3
<1>7. ASSUME NEW s \in DOMAIN LocalFields, NEW f \in LocalFields[s], q = <<"local", s, f>>
      PROVE  Setting(w, q) = Into(e, q, Setting(r, q))
  <2>1. Has(r.local, s, f)
    BY DEF IsRadio, IsFull, Has
  <2>2. Merged(w.local, r.local, p.local)
    <3>1. Merged(Merge(r.local, p.local), r.local, p.local)
      BY MergeOf
    <3> QED
      BY <1>6, <3>1
  <2>3. w.local[s][f] = IF Has(p.local, s, f) THEN p.local[s][f] ELSE r.local[s][f]
    BY <2>1, <2>2 DEF Merged
  <2>4. q \in DOMAIN e <=> Has(p.local, s, f)
    BY <1>3, <1>7 DEF IsFlat
  <2>5. Has(p.local, s, f) => e[q] = p.local[s][f]
    BY <1>3, <1>7 DEF IsFlat
  <2>6. Setting(w, q) = w.local[s][f] /\ Setting(r, q) = r.local[s][f] /\ q[1] # "module"
    BY <1>7, SettingOf
  <2> QED
    BY <2>3, <2>4, <2>5, <2>6 DEF Into
<1>8. ASSUME NEW s \in DOMAIN ModuleFields, NEW f \in ModuleFields[s], q = <<"module", s, f>>
      PROVE  Setting(w, q) = Into(e, q, Setting(r, q))
  <2>1. Has(r.module, s, f)
    BY DEF IsRadio, IsFull, Has
  <2>2. Merged(w.module, r.module, m)
    <3>1. Merged(Merge(r.module, m), r.module, m)
      BY MergeOf
    <3> QED
      BY <1>6, <3>1
  <2>3. w.module[s][f] = IF Has(m, s, f) THEN m[s][f] ELSE r.module[s][f]
    BY <2>1, <2>2 DEF Merged
  <2>4. q \in DOMAIN e <=> Has(p.module, s, f)
    BY <1>3, <1>8 DEF IsFlat
  <2>5. Has(p.module, s, f) => e[q] = p.module[s][f]
    BY <1>3, <1>8 DEF IsFlat
  <2>6. Setting(w, q) = w.module[s][f] /\ Setting(r, q) = r.module[s][f] /\ q[1] = "module" /\ q[2] = s
    BY <1>8, SettingOf
  <2>7. /\ Has(m, s, f) <=> Has(p.module, s, f) /\ s # "ambientLighting"
        /\ Has(m, s, f) => m[s][f] = p.module[s][f]
    BY <1>5 DEF Has
  <2> QED
    BY <2>3, <2>4, <2>5, <2>6, <2>7 DEF Into
<1>9. ASSUME NEW i \in Channels, NEW f \in ChannelFields, q = <<"channels", i, f>>
      PROVE  Setting(w, q) = Into(e, q, Setting(r, q))
  <2>1. q \in DOMAIN e <=> Has(Settings(B), i, f)
    BY <1>3, <1>9 DEF IsFlat
  <2>2. Has(Settings(B), i, f) => e[q] = Settings(B)[i][f]
    BY <1>3, <1>9 DEF IsFlat
  <2>3. Setting(w, q) = w.channels[i][f] /\ Setting(r, q) = r.channels[i][f] /\ q[1] # "module"
    BY <1>9, SettingOf
  <2>4. PICK old : old = r.channels[i]
    OBVIOUS
  <2>5. PICK new : new = Override(old, p.channels, i)
    OBVIOUS
  <2>6. w.channels[i] = new
    BY <1>6, <2>4, <2>5
  <2>7. PICK items : items = p.channels
    OBVIOUS
  <2>8. IsRows(items) /\ Once(items) /\ f \in DOMAIN old
    <3>1. old \in [ChannelFields -> Switch]
      BY <2>4 DEF IsRadio
    <3> QED
      BY <2>7, <3>1, ConfigOf DEF IsPatch
  <2>9. /\ \A j \in DOMAIN B : B[j].index = {j} /\ \E k \in DOMAIN items : B[j] = items[k]
        /\ \A k \in DOMAIN items : \A j : items[k].index = {j} => j \in DOMAIN B
    BY <1>2, <2>7, <2>8, GivenRows
  <2>10. CASE i \in DOMAIN B
    <3>1. PICK k \in DOMAIN items : B[i] = items[k]
      BY <2>9, <2>10
    <3>2. items[k].index = {i}
      BY <2>9, <2>10, <3>1
    <3>3. IsOver(new, items[k].settings, old)
      BY <2>5, <2>7, <2>8, <3>2, OverrideOnce
    <3>4. Settings(B)[i] = items[k].settings /\ (Has(Settings(B), i, f) <=> f \in DOMAIN items[k].settings)
      <4>1. /\ Has(Settings(B), i, f) <=> f \in DOMAIN B[i].settings
            /\ Settings(B)[i] = B[i].settings
        BY <2>10, SettingsOf
      <4> QED
        BY <3>1, <4>1
    <3>5. new[f] = IF f \in DOMAIN items[k].settings THEN items[k].settings[f] ELSE old[f]
      BY <2>8, <3>3 DEF IsOver
    <3> QED
      BY <2>1, <2>2, <2>3, <2>4, <2>6, <3>4, <3>5 DEF Into
  <2>11. CASE i \notin DOMAIN B
    <3>1. \A k \in DOMAIN items : items[k].index # {i}
      BY <2>9, <2>11
    <3>2. new[f] = old[f]
      <4>1. Override(old, items, i)[f] = old[f]
        BY <2>8, <3>1, OverrideNone
      <4> QED
        BY <2>5, <2>7, <4>1
    <3>3. ~Has(Settings(B), i, f)
      BY <2>11, SettingsOf
    <3> QED
      BY <2>1, <2>3, <2>4, <2>6, <3>2, <3>3 DEF Into
  <2> QED
    BY <2>10, <2>11
<1>10. Setting(w, q) = Into(e, q, Setting(r, q))
  BY <1>7, <1>8, <1>9, FieldOf
<1> QED
  BY <1>1, <1>4, <1>10

\* What a job does to its next node.
LEMMA PatchEffect ==
    ASSUME FleetInv, PatchNode
    PROVE  /\ Head(left) \in Nodes
           /\ \A q \in AllFields :
                 Setting(radio'[Head(left)], q) = Into(Explicit(patch), q, Setting(radio[Head(left)], q))
           /\ Shown(copy'[Head(left)]) = Over(Explicit(patch), Shown(copy[Head(left)]))
           /\ \A n \in Nodes \ {Head(left)} : radio'[n] = radio[n] /\ copy'[n] = copy[n]
<1>1. PICK m : m = Head(left)
  OBVIOUS
<1>2. /\ radio' = [radio EXCEPT ![m] = Written(radio[m], Sent(patch))]
      /\ copy' = [copy EXCEPT ![m] = Patched(copy[m], patch)]
      /\ left # <<>>
  BY <1>1 DEF PatchNode
<1>3. m \in Nodes
  BY <1>1, <1>2, HeadOf DEF FleetInv, Running
<1>4. PICK r, c, p : r = radio[m] /\ c = copy[m] /\ p = patch
  OBVIOUS
<1>5. IsRadio(r) /\ IsCopy(c) /\ IsPatch(p) /\ DOMAIN radio = Nodes /\ DOMAIN copy = Nodes
  BY <1>3, <1>4 DEF FleetInv, Fleet, Running, Sendable
<1>6. radio'[m] = Written(r, Sent(p)) /\ copy'[m] = Patched(c, p)
  BY <1>2, <1>3, <1>4, <1>5
<1>7. \A n \in Nodes \ {m} : radio'[n] = radio[n] /\ copy'[n] = copy[n]
  BY <1>2, <1>5
<1>8. \A q \in AllFields : Setting(Written(r, Sent(p)), q) = Into(Explicit(p), q, Setting(r, q))
  BY <1>5, WrittenSetting
<1>9. Shown(Patched(c, p)) = Over(Explicit(p), Shown(c))
  BY <1>5, PatchedCopy DEF IsPatch
<1> QED
  BY <1>1, <1>3, <1>4, <1>6, <1>7, <1>8, <1>9

\* Only apply_patch does both.
LEMMA OnlyPatch ==
    ASSUME FleetInv, Next, working, left # <<>>, left' = Tail(left), radio' # radio \/ copy' # copy
    PROVE  PatchNode
<1>1. Tail(left) # left
  BY DEF FleetInv, Running
<1>2. UNCHANGED left => FALSE
  BY <1>1
<1>3. \A N, base, clone, asked : ~Queue(N, base, clone, asked)
  BY <1>2 DEF Queue
<1>4. ~BatchConfigure /\ ~NodeConfigure /\ ~StructuredConfigure /\ ~ApplyDefaults
  BY <1>2, <1>3 DEF BatchConfigure, NodeConfigure, StructuredConfigure, ApplyDefaults, jobVars
<1>5. ~CompareSyncRequest
  <2> SUFFICES ASSUME CompareSyncRequest PROVE FALSE
    OBVIOUS
  <2>1. PICK source \in Nodes, N \in Targets, alignment \in BOOLEAN, select \in Selections :
          CompareSync(source, N, alignment, select)
    BY DEF CompareSyncRequest
  <2>2. left' = left
    BY <2>1 DEF CompareSync, Queue
  <2> QED
    BY <1>2, <2>2
<1>6. ~SaveDefaults /\ ~RadioChanges /\ ~OpenPage
  BY <1>2 DEF SaveDefaults, RadioChanges, OpenPage, jobVars
<1>7. \A y : ~Fetch(y) /\ ~SyncFails(y) /\ \A reading : ~Store(y, reading)
  BY <1>2 DEF Fetch, SyncFails, Store, jobVars
<1>8. ~StartJob /\ ~PatchFails /\ ~EndJob
  BY DEF StartJob, PatchFails, EndJob
<1> QED
  BY <1>4, <1>5, <1>6, <1>7, <1>8 DEF Next

\* A job changes each radio and its copy in exactly the fields that were asked for
\* or are cloned when it runs, through every chain of merges of nested sections and
\* lists of channels (api/app.py:593-631, jobs/queue.py:566-597,
\* operations/service.py:19-55), if no JSON field names a channel twice.
THEOREM Reviewed ==
    ASSUME ListsOnce
    PROVE  Spec => AsReviewed
<1>1. ASSUME FleetInv, [Next]_vars, working, left # <<>>, left' = Tail(left), radio' # radio \/ copy' # copy
      PROVE  /\ \A p \in AllFields :
                  Setting(radio'[Head(left)], p) =
                    IF p \in DOMAIN current /\ (p[1] = "module" => p[2] # "ambientLighting") THEN current[p]
                    ELSE Setting(radio[Head(left)], p)
             /\ Shown(copy'[Head(left)]) = Over(current, Shown(copy[Head(left)]))
  <2>1. Next
    BY <1>1 DEF vars
  <2>2. PatchNode
    BY <1>1, <2>1, OnlyPatch
  <2>3. current = Explicit(patch)
    BY <1>1 DEF FleetInv, Running
  <2> QED
    BY <1>1, <2>2, <2>3, PatchEffect DEF Into
<1>2. FleetInv /\ [Next]_vars => [working /\ left # <<>> /\ left' = Tail(left) /\ (radio' # radio \/ copy' # copy) =>
         LET n == Head(left) IN
         /\ \A p \in AllFields :
              Setting(radio'[n], p) =
                IF p \in DOMAIN current /\ (p[1] = "module" => p[2] # "ambientLighting") THEN current[p]
                ELSE Setting(radio[n], p)
         /\ Shown(copy'[n]) = Over(current, Shown(copy[n]))]_vars
  BY <1>1
<1> QED
  BY <1>2, FleetInvHolds, PTL DEF Spec, AsReviewed

-----------------------------------------------------------------------------
(* The alignment of nodes.                                                 *)

\* A copy shows what the radio has off its default.
Exact(c, r) == \A q \in AllFields :
    /\ q \in DOMAIN Shown(c) <=> Setting(r, q) # 0
    /\ q \in DOMAIN Shown(c) => Shown(c)[q] = Setting(r, q)

\* Settings that all are those of the radio r, off their default, and can be sent.
Faithful(e, r) == \A q \in DOMAIN e :
    /\ q \in AllFields /\ e[q] = Setting(r, q) /\ e[q] # 0
    /\ q[1] = "module" => q[2] # "ambientLighting"

Covers(e, r, fields) == \A q \in fields : Setting(r, q) # 0 => q \in DOMAIN e

\* The index of channel 0 is not in the report of a radio: it is not cloned.
Reached == ComparedFields \ {<<"channels", 0, "uplinkEnabled">>}
Unchanneled == {q \in ComparedFields : q[1] # "channels"}

Agrees(r, t) == \A q \in Reached : Setting(r, q) \in {0, Setting(t, q)}

Asks(job, source, N, r) ==
    /\ job.nodes = InOrder(N)
    /\ job.clone = [source |-> {source}, local |-> FALSE, module |-> FALSE, channels |-> TRUE, role |-> FALSE]
    /\ job.base.channels = <<>>
    /\ Faithful(Explicit(job.base), r) /\ Covers(Explicit(job.base), r, Unchanneled)

\* From the request to the end of the job: what is asked for, what is written
\* and what has been written is what the source has, which stays as it is.
AlignedOn(source, N, r) ==
    /\ source \in Nodes /\ N \subseteq Nodes
    /\ \A n \in {source} \cup N : n \in late \/ Exact(copy[n], radio[n])
    /\ queue # <<>> => ~working /\ Len(queue) = 1 /\ Asks(queue[1], source, N, r)
    /\ working => queue = <<>> /\ Faithful(Explicit(patch), r) /\ Covers(Explicit(patch), r, Reached)
    /\ queue = <<>> => \A n \in N : n \in ToSet(left) \/ Agrees(r, radio[n])

AlignedInv ==
    /\ ~working => left = <<>>
    /\ aligned.on => AlignedOn(aligned.source, aligned.nodes, radio[aligned.source])

LEMMA FieldIn ==
    /\ \A s \in DOMAIN LocalFields : \A f \in LocalFields[s] : <<"local", s, f>> \in AllFields
    /\ \A s \in DOMAIN ModuleFields : \A f \in ModuleFields[s] : <<"module", s, f>> \in AllFields
    /\ \A i \in Channels, f \in ChannelFields : <<"channels", i, f>> \in AllFields
<1>1. ASSUME NEW shape, NEW name, NEW s \in DOMAIN shape, NEW f \in shape[s]
      PROVE  <<name, s, f>> \in Fields(shape, name)
  <2>1. <<s, f>> \in UNION {{z} \X shape[z] : z \in DOMAIN shape}
    <3>1. <<s, f>> \in {s} \X shape[s]
      OBVIOUS
    <3> QED
      BY <3>1
  <2>2. <<s, f>>[1] = s /\ <<s, f>>[2] = f
    OBVIOUS
  <2> QED
    BY <2>1, <2>2 DEF Fields
<1>2. \A s \in DOMAIN LocalFields : \A f \in LocalFields[s] : <<"local", s, f>> \in AllFields
  BY <1>1 DEF AllFields
<1>3. \A s \in DOMAIN ModuleFields : \A f \in ModuleFields[s] : <<"module", s, f>> \in AllFields
  BY <1>1 DEF AllFields
<1>4. \A i \in Channels, f \in ChannelFields : <<"channels", i, f>> \in AllFields
  BY DEF AllFields
<1> QED
  BY <1>2, <1>3, <1>4

LEMMA ComparedOf ==
    /\ ComparedFields \subseteq AllFields
    /\ \A q \in Unchanneled : \/ q = <<"local", "lora", "hopLimit">> \/ q = <<"local", "device", "role">>
                              \/ q = <<"module", "telemetry", "deviceUpdateInterval">>
    /\ \A q \in Reached : q \in Unchanneled \/ q = <<"channels", 1, "uplinkEnabled">>
<1>1. ASSUME NEW q \in ComparedFields
      PROVE  \/ q = <<"local", "lora", "hopLimit">> \/ q = <<"local", "device", "role">>
             \/ q = <<"module", "telemetry", "deviceUpdateInterval">>
             \/ q = <<"channels", 0, "uplinkEnabled">> \/ q = <<"channels", 1, "uplinkEnabled">>
  <2>1. ASSUME NEW x \in AlignedFields, q = <<"local", x[1], x[2]>>
        PROVE  q = <<"local", "lora", "hopLimit">> \/ q = <<"local", "device", "role">>
    <3>1. x = <<"lora", "hopLimit">> \/ x = <<"device", "role">>
      BY DEF AlignedFields
    <3> QED
      BY <2>1, <3>1
  <2> QED
    BY <2>1 DEF ComparedFields, Channels
<1>2. ASSUME NEW q \in ComparedFields PROVE q \in AllFields
  <2>1. "lora" \in DOMAIN LocalFields /\ "hopLimit" \in LocalFields["lora"]
    BY DEF LocalFields
  <2>2. "device" \in DOMAIN LocalFields /\ "role" \in LocalFields["device"]
    BY DEF LocalFields
  <2>3. "telemetry" \in DOMAIN ModuleFields /\ "deviceUpdateInterval" \in ModuleFields["telemetry"]
    BY DEF ModuleFields
  <2>4. 0 \in Channels /\ 1 \in Channels /\ "uplinkEnabled" \in ChannelFields
    BY DEF Channels, ChannelFields
  <2>5. <<"local", "lora", "hopLimit">> \in AllFields
    BY <2>1, FieldIn, Zenon
  <2>6. <<"local", "device", "role">> \in AllFields
    BY <2>2, FieldIn, Zenon
  <2>7. <<"module", "telemetry", "deviceUpdateInterval">> \in AllFields
    BY <2>3, FieldIn, Zenon
  <2>8. <<"channels", 0, "uplinkEnabled">> \in AllFields /\ <<"channels", 1, "uplinkEnabled">> \in AllFields
    BY <2>4, FieldIn, Zenon
  <2> QED
    BY <1>1, <2>5, <2>6, <2>7, <2>8
<1>3. ASSUME NEW q \in Unchanneled
      PROVE  \/ q = <<"local", "lora", "hopLimit">> \/ q = <<"local", "device", "role">>
             \/ q = <<"module", "telemetry", "deviceUpdateInterval">>
  <2>1. q \in ComparedFields /\ q[1] # "channels"
    BY DEF Unchanneled
  <2>2. q # <<"channels", 0, "uplinkEnabled">> /\ q # <<"channels", 1, "uplinkEnabled">>
    BY <2>1
  <2> QED
    BY <1>1, <2>1, <2>2
<1>4. ASSUME NEW q \in Reached PROVE q \in Unchanneled \/ q = <<"channels", 1, "uplinkEnabled">>
  <2>1. q \in ComparedFields /\ q # <<"channels", 0, "uplinkEnabled">>
    BY DEF Reached
  <2>2. q[1] # "channels" \/ q = <<"channels", 1, "uplinkEnabled">>
    BY <1>1, <2>1
  <2> QED
    BY <2>1, <2>2 DEF Unchanneled
<1> QED
  BY <1>2, <1>3, <1>4

LEMMA ReportExact ==
    ASSUME NEW r, IsRadio(r)
    PROVE  Exact(Report(r), r)
<1>1. PICK c : c = Report(r)
  OBVIOUS
<1>2. PICK rows : rows = ByIndex(c.channels, Places(c.channels))
  OBVIOUS
<1>3. NonZero(c.local, r.local) /\ NonZero(c.module, r.module) /\ NonZero(Settings(rows), r.channels)
  BY <1>1, <1>2, ReportOf
<1>4. PICK x : x = Shown(c)
  OBVIOUS
<1>5. IsFlat(x, c.local, c.module, Settings(rows))
  BY <1>2, <1>4, ShownIs
<1>6. ASSUME NEW q \in AllFields
      PROVE  /\ q \in DOMAIN x <=> Setting(r, q) # 0
             /\ q \in DOMAIN x => x[q] = Setting(r, q)
  <2>1. ASSUME NEW s \in DOMAIN LocalFields, NEW f \in LocalFields[s], q = <<"local", s, f>>
        PROVE  /\ q \in DOMAIN x <=> Setting(r, q) # 0
               /\ q \in DOMAIN x => x[q] = Setting(r, q)
    <3>1. Has(r.local, s, f)
      BY DEF IsRadio, IsFull, Has
    <3>2. /\ q \in DOMAIN x <=> Has(c.local, s, f)
          /\ Has(c.local, s, f) => x[q] = c.local[s][f]
      BY <1>5, <2>1 DEF IsFlat
    <3>3. Setting(r, q) = r.local[s][f]
      BY <2>1, SettingOf
    <3> QED
      BY <1>3, <3>1, <3>2, <3>3 DEF NonZero
  <2>2. ASSUME NEW s \in DOMAIN ModuleFields, NEW f \in ModuleFields[s], q = <<"module", s, f>>
        PROVE  /\ q \in DOMAIN x <=> Setting(r, q) # 0
               /\ q \in DOMAIN x => x[q] = Setting(r, q)
    <3>1. Has(r.module, s, f)
      BY DEF IsRadio, IsFull, Has
    <3>2. /\ q \in DOMAIN x <=> Has(c.module, s, f)
          /\ Has(c.module, s, f) => x[q] = c.module[s][f]
      BY <1>5, <2>2 DEF IsFlat
    <3>3. Setting(r, q) = r.module[s][f]
      BY <2>2, SettingOf
    <3> QED
      BY <1>3, <3>1, <3>2, <3>3 DEF NonZero
  <2>3. ASSUME NEW i \in Channels, NEW f \in ChannelFields, q = <<"channels", i, f>>
        PROVE  /\ q \in DOMAIN x <=> Setting(r, q) # 0
               /\ q \in DOMAIN x => x[q] = Setting(r, q)
    <3>1. Has(r.channels, i, f)
      BY DEF IsRadio, Has
    <3>2. /\ q \in DOMAIN x <=> Has(Settings(rows), i, f)
          /\ Has(Settings(rows), i, f) => x[q] = Settings(rows)[i][f]
      BY <1>5, <2>3 DEF IsFlat
    <3>3. Setting(r, q) = r.channels[i][f]
      BY <2>3, SettingOf
    <3> QED
      BY <1>3, <3>1, <3>2, <3>3 DEF NonZero
  <2> QED
    BY <2>1, <2>2, <2>3, FieldOf
<1> QED
  BY <1>1, <1>4, <1>6 DEF Exact

\* What has the alignment profile of a copy.
LEMMA AlignmentOf ==
    ASSUME NEW c
    PROVE  /\ \A s, f : /\ Has(AlignmentLocal(c), s, f) <=> Has(c.local, s, f) /\ <<s, f>> \in AlignedFields
                        /\ Has(AlignmentLocal(c), s, f) => AlignmentLocal(c)[s][f] = c.local[s][f]
           /\ \A s, f : /\ Has(AlignmentModule(c), s, f) <=> Has(c.module, s, f) /\ <<s, f>> \notin OmittedFields
                        /\ Has(AlignmentModule(c), s, f) => AlignmentModule(c)[s][f] = c.module[s][f]
<1>1. PICK t : t = [s \in DOMAIN c.local |-> [f \in {f \in DOMAIN c.local[s] : <<s, f>> \in AlignedFields} |-> c.local[s][f]]]
  OBVIOUS
<1>2. PICK u : u = AlignmentLocal(c)
  OBVIOUS
<1>3. u = [s \in {s \in DOMAIN t : DOMAIN t[s] # {}} |-> t[s]]
  BY <1>1, <1>2 DEF AlignmentLocal, Restrict2
<1>4. DOMAIN t = DOMAIN c.local /\ \A s \in DOMAIN t : t[s] = [f \in {f \in DOMAIN c.local[s] : <<s, f>> \in AlignedFields} |-> c.local[s][f]]
  BY <1>1
<1>5. ASSUME NEW s \in DOMAIN t
      PROVE  /\ DOMAIN t[s] = {f \in DOMAIN c.local[s] : <<s, f>> \in AlignedFields}
             /\ \A f \in DOMAIN t[s] : t[s][f] = c.local[s][f]
  <2>1. t[s] = [f \in {f \in DOMAIN c.local[s] : <<s, f>> \in AlignedFields} |-> c.local[s][f]]
    BY <1>4
  <2> QED
    BY <2>1
<1>6. ASSUME NEW s, NEW f
      PROVE  /\ Has(u, s, f) <=> Has(c.local, s, f) /\ <<s, f>> \in AlignedFields
             /\ Has(u, s, f) => u[s][f] = c.local[s][f]
  BY <1>3, <1>4, <1>5 DEF Has
<1>7. PICK m : m = AlignmentModule(c)
  OBVIOUS
<1>8. m = [s \in DOMAIN c.module |-> [f \in {f \in DOMAIN c.module[s] : <<s, f>> \notin OmittedFields} |-> c.module[s][f]]]
  BY <1>7 DEF AlignmentModule, Restrict2
<1>9. DOMAIN m = DOMAIN c.module /\ \A s \in DOMAIN m : /\ DOMAIN m[s] = {f \in DOMAIN c.module[s] : <<s, f>> \notin OmittedFields}
                          /\ \A f \in DOMAIN m[s] : m[s][f] = c.module[s][f]
  BY <1>8
<1>10. ASSUME NEW s, NEW f
      PROVE  /\ Has(m, s, f) <=> Has(c.module, s, f) /\ <<s, f>> \notin OmittedFields
             /\ Has(m, s, f) => m[s][f] = c.module[s][f]
  BY <1>9 DEF Has
<1> QED
  BY <1>2, <1>6, <1>7, <1>10

LEMMA AlignmentBase ==
    ASSUME NEW c, IsCopy(c), NEW r, Exact(c, r),
           NEW base, base.local = AlignmentLocal(c), base.module = AlignmentModule(c), base.channels = <<>>
    PROVE  Faithful(Explicit(base), r) /\ Covers(Explicit(base), r, Unchanneled)
<1>1. PICK e, x : e = Explicit(base) /\ x = Shown(c)
  OBVIOUS
<1>2. PICK B : B = ByIndex(base.channels, Given(base.channels))
  OBVIOUS
<1>3. PICK rows : rows = ByIndex(c.channels, Places(c.channels))
  OBVIOUS
<1>4. IsFlat(e, base.local, base.module, Settings(B)) /\ IsFlat(x, c.local, c.module, Settings(rows))
  BY <1>1, <1>2, <1>3, ExplicitIs, ShownIs
<1>5. \A i, f : ~Has(Settings(B), i, f)
  <2>1. \A k \in DOMAIN <<>> : FALSE
    OBVIOUS
  <2>2. DOMAIN B = {}
    BY <1>2, <2>1, NoRows, GivenRows
  <2> QED
    BY <2>2, SettingsOf
<1>6. PICK local, module : local = base.local /\ module = base.module
  OBVIOUS
<1>7. /\ \A s, f : /\ Has(local, s, f) <=> Has(c.local, s, f) /\ <<s, f>> \in AlignedFields
                   /\ Has(local, s, f) => local[s][f] = c.local[s][f]
      /\ \A s, f : /\ Has(module, s, f) <=> Has(c.module, s, f) /\ <<s, f>> \notin OmittedFields
                   /\ Has(module, s, f) => module[s][f] = c.module[s][f]
  BY <1>6, AlignmentOf
<1>8. IsPart(c.local, LocalFields) /\ IsPart(c.module, ModuleFields)
  BY DEF IsCopy, IsConfig
<1>9. \A q \in AllFields : /\ q \in DOMAIN x <=> Setting(r, q) # 0
                           /\ q \in DOMAIN x => x[q] = Setting(r, q)
  BY <1>1 DEF Exact
<1>10. ASSUME NEW q \in DOMAIN e
       PROVE  /\ q \in AllFields /\ e[q] = Setting(r, q) /\ e[q] # 0
              /\ q[1] = "module" => q[2] # "ambientLighting"
  <2>1. ASSUME NEW s, NEW f, q = <<"local", s, f>>
        PROVE  /\ q \in AllFields /\ e[q] = Setting(r, q) /\ e[q] # 0
               /\ q[1] = "module" => q[2] # "ambientLighting"
    <3>1. Has(local, s, f) /\ e[q] = local[s][f]
      BY <1>4, <1>6, <2>1 DEF IsFlat
    <3>2. Has(c.local, s, f) /\ e[q] = c.local[s][f]
      BY <1>7, <3>1
    <3>3. q \in DOMAIN x /\ x[q] = c.local[s][f]
      BY <1>4, <2>1, <3>2 DEF IsFlat
    <3>4. s \in DOMAIN LocalFields /\ f \in LocalFields[s]
      BY <1>8, <3>2, PartOf DEF Has, IsPart
    <3>5. <<"local", s, f>> \in AllFields
      BY <3>4, FieldIn, Zenon
    <3> QED
      BY <1>9, <2>1, <3>2, <3>3, <3>5
  <2>2. ASSUME NEW s, NEW f, q = <<"module", s, f>>
        PROVE  /\ q \in AllFields /\ e[q] = Setting(r, q) /\ e[q] # 0
               /\ q[1] = "module" => q[2] # "ambientLighting"
    <3>1. Has(module, s, f) /\ e[q] = module[s][f]
      BY <1>4, <1>6, <2>2 DEF IsFlat
    <3>2. Has(c.module, s, f) /\ e[q] = c.module[s][f] /\ <<s, f>> \notin OmittedFields
      BY <1>7, <3>1
    <3>3. q \in DOMAIN x /\ x[q] = c.module[s][f]
      BY <1>4, <2>2, <3>2 DEF IsFlat
    <3>4. s \in DOMAIN ModuleFields /\ f \in ModuleFields[s]
      BY <1>8, <3>2, PartOf DEF Has, IsPart
    <3>5. <<"module", s, f>> \in AllFields
      BY <3>4, FieldIn, Zenon
    <3>6. s # "ambientLighting"
      BY <3>2, <3>4 DEF ModuleFields, OmittedFields
    <3> QED
      BY <1>9, <2>2, <3>2, <3>3, <3>5, <3>6
  <2>3. ASSUME NEW i, NEW f, q = <<"channels", i, f>> PROVE FALSE
    BY <1>4, <1>5, <2>3 DEF IsFlat
  <2> QED
    BY <1>4, <2>1, <2>2, <2>3 DEF IsFlat
<1>11. ASSUME NEW q \in Unchanneled, Setting(r, q) # 0 PROVE q \in DOMAIN e
  <2>1. q \in DOMAIN x
    BY <1>9, <1>11, ComparedOf DEF Unchanneled
  <2>2. ASSUME NEW s, NEW f, q = <<"local", s, f>>, <<s, f>> \in AlignedFields PROVE q \in DOMAIN e
    <3>1. Has(c.local, s, f)
      BY <1>4, <2>1, <2>2 DEF IsFlat
    <3>2. Has(local, s, f)
      BY <1>7, <2>2, <3>1
    <3> QED
      BY <1>4, <1>6, <2>2, <3>2 DEF IsFlat
  <2>3. ASSUME q = <<"module", "telemetry", "deviceUpdateInterval">> PROVE q \in DOMAIN e
    <3>1. Has(c.module, "telemetry", "deviceUpdateInterval")
      BY <1>4, <2>1, <2>3 DEF IsFlat
    <3>2. <<"telemetry", "deviceUpdateInterval">> \notin OmittedFields
      BY DEF OmittedFields
    <3>3. Has(module, "telemetry", "deviceUpdateInterval")
      BY <1>7, <3>1, <3>2
    <3> QED
      BY <1>4, <1>6, <2>3, <3>3 DEF IsFlat
  <2>4. <<"lora", "hopLimit">> \in AlignedFields /\ <<"device", "role">> \in AlignedFields
    BY DEF AlignedFields
  <2> QED
    BY <2>2, <2>3, <2>4, ComparedOf
<1> QED
  BY <1>1, <1>10, <1>11 DEF Faithful, Covers

\* What is cloned of the channels.
LEMMA ClonedRows ==
    ASSUME NEW c, IsCopy(c), NEW r, Exact(c, r),
           NEW x, x.local = <<>>, x.module = <<>>, x.channels = Indexed(c.channels)
    PROVE  Faithful(Explicit(x), r) /\ Covers(Explicit(x), r, {<<"channels", 1, "uplinkEnabled">>})
<1>1. PICK e, y : e = Explicit(x) /\ y = Shown(c)
  OBVIOUS
<1>2. PICK L : L = Indexed(c.channels)
  OBVIOUS
<1>3. PICK B : B = ByIndex(L, Given(L))
  OBVIOUS
<1>4. PICK rows : rows = ByIndex(c.channels, Places(c.channels))
  OBVIOUS
<1>5. IsFlat(e, x.local, x.module, Settings(B)) /\ IsFlat(y, c.local, c.module, Settings(rows))
  BY <1>1, <1>2, <1>3, <1>4, ExplicitIs, ShownIs
<1>6. /\ IsRows(L)
      /\ \A k \in DOMAIN L : \E l \in DOMAIN c.channels : L[k] = c.channels[l]
      /\ \A l \in DOMAIN c.channels : c.channels[l].index # {} => \E k \in DOMAIN L : L[k] = c.channels[l]
  BY <1>2, IndexedOf
<1>7. /\ DOMAIN B \subseteq Channels
      /\ \A i \in DOMAIN B : B[i].index = {i} /\ \E k \in DOMAIN L : B[i] = L[k]
      /\ \A k \in DOMAIN L : \A i : L[k].index = {i} => i \in DOMAIN B
  BY <1>3, <1>6, GivenRows
<1>8. /\ DOMAIN c.channels = {1, 2} /\ DOMAIN rows = Channels
      /\ rows[0] = c.channels[1] /\ rows[1] = c.channels[2]
      /\ c.channels[1].index \subseteq {0} /\ c.channels[2].index = {1}
  BY <1>4, CopyRowsOf DEF IsCopy
<1>9. ASSUME NEW i \in DOMAIN B PROVE i \in Channels /\ B[i] = rows[i] /\ IsRow(B[i])
  <2>1. PICK l \in {1, 2} : B[i] = c.channels[l] /\ B[i].index = {i}
    BY <1>6, <1>7, <1>8
  <2>2. B[i] = rows[i]
    BY <1>8, <2>1
  <2>3. IsRow(B[i])
    BY <1>6, <1>7 DEF IsRows
  <2> QED
    BY <1>7, <2>2, <2>3
<1>10. 1 \in DOMAIN B
  BY <1>6, <1>7, <1>8
<1>11. \A q \in AllFields : /\ q \in DOMAIN y <=> Setting(r, q) # 0
                            /\ q \in DOMAIN y => y[q] = Setting(r, q)
  BY <1>1 DEF Exact
<1>12. \A s, f : ~Has(<<>>, s, f)
  BY DEF Has
<1>13. ASSUME NEW q \in DOMAIN e
       PROVE  /\ q \in AllFields /\ e[q] = Setting(r, q) /\ e[q] # 0
              /\ q[1] = "module" => q[2] # "ambientLighting"
  <2>1. PICK i, f : q = <<"channels", i, f>>
    BY <1>5, <1>12 DEF IsFlat
  <2>2. Has(Settings(B), i, f) /\ e[q] = Settings(B)[i][f]
    BY <1>5, <2>1 DEF IsFlat
  <2>3. i \in DOMAIN B /\ f \in DOMAIN B[i].settings /\ Settings(B)[i] = B[i].settings
    BY <2>2, SettingsOf
  <2>4. i \in Channels /\ f \in ChannelFields /\ B[i] = rows[i]
    BY <1>9, <2>3 DEF IsRow
  <2>5. Has(Settings(rows), i, f) /\ Settings(rows)[i] = B[i].settings
    <3>1. i \in DOMAIN rows
      BY <1>8, <2>4
    <3>2. /\ Has(Settings(rows), i, f) <=> f \in DOMAIN rows[i].settings
          /\ Settings(rows)[i] = rows[i].settings
      BY <3>1, SettingsOf
    <3> QED
      BY <2>3, <2>4, <3>2
  <2>6. q \in DOMAIN y /\ y[q] = e[q]
    BY <1>5, <2>1, <2>2, <2>3, <2>5 DEF IsFlat
  <2>7. <<"channels", i, f>> \in AllFields
    BY <2>4, FieldIn, Zenon
  <2>8. q[1] # "module"
    BY <2>1
  <2> QED
    BY <1>11, <2>1, <2>6, <2>7, <2>8
<1>14. ASSUME NEW q, q = <<"channels", 1, "uplinkEnabled">>, Setting(r, q) # 0 PROVE q \in DOMAIN e
  <2>1. 1 \in Channels /\ "uplinkEnabled" \in ChannelFields
    BY DEF Channels, ChannelFields
  <2>2. <<"channels", 1, "uplinkEnabled">> \in AllFields
    BY <2>1, FieldIn, Zenon
  <2>3. q \in DOMAIN y
    BY <1>11, <1>14, <2>2
  <2>4. Has(Settings(rows), 1, "uplinkEnabled")
    BY <1>5, <1>14, <2>3 DEF IsFlat
  <2>5. "uplinkEnabled" \in DOMAIN rows[1].settings
    BY <2>4, SettingsOf
  <2>6. Has(Settings(B), 1, "uplinkEnabled")
    BY <1>9, <1>10, <2>5, SettingsOf
  <2> QED
    BY <1>5, <1>14, <2>6 DEF IsFlat
<1> QED
  BY <1>1, <1>13, <1>14 DEF Faithful, Covers

LEMMA OverFaithful ==
    ASSUME NEW r, NEW e, NEW g, Faithful(e, r), Faithful(g, r),
           NEW E, Covers(e, r, E), NEW G, Covers(g, r, G)
    PROVE  Faithful(Over(e, g), r) /\ Covers(Over(e, g), r, E \cup G)
<1>1. PICK h : h = Over(e, g)
  OBVIOUS
<1>2. /\ DOMAIN h = DOMAIN e \cup DOMAIN g
      /\ \A q \in DOMAIN h : h[q] = IF q \in DOMAIN e THEN e[q] ELSE g[q]
  BY <1>1 DEF Over
<1>3. Faithful(h, r)
  BY <1>2 DEF Faithful
<1>4. Covers(h, r, E \cup G)
  BY <1>2 DEF Covers
<1> QED
  BY <1>1, <1>3, <1>4

\* A patch that is faithful to the source keeps a copy exact.
LEMMA ExactKept ==
    ASSUME NEW e, NEW s, Faithful(e, s), NEW c, NEW r, Exact(c, r),
           NEW c2, Shown(c2) = Over(e, Shown(c)),
           NEW r2, \A q \in AllFields : Setting(r2, q) = Into(e, q, Setting(r, q))
    PROVE  Exact(c2, r2)
<1>1. PICK x, y : x = Shown(c) /\ y = Shown(c2)
  OBVIOUS
<1>2. /\ DOMAIN y = DOMAIN e \cup DOMAIN x
      /\ \A q \in DOMAIN y : y[q] = IF q \in DOMAIN e THEN e[q] ELSE x[q]
  BY <1>1 DEF Over
<1>3. ASSUME NEW q \in AllFields
      PROVE  /\ q \in DOMAIN y <=> Setting(r2, q) # 0
             /\ q \in DOMAIN y => y[q] = Setting(r2, q)
  <2>1. CASE q \in DOMAIN e
    <3>1. Setting(r2, q) = e[q] /\ e[q] # 0
      BY <2>1 DEF Into, Faithful
    <3> QED
      BY <1>2, <2>1, <3>1
  <2>2. CASE q \notin DOMAIN e
    <3>1. Setting(r2, q) = Setting(r, q)
      BY <2>2 DEF Into
    <3> QED
      BY <1>1, <1>2, <2>2, <3>1 DEF Exact
  <2> QED
    BY <2>1, <2>2
<1> QED
  BY <1>1, <1>3 DEF Exact

LEMMA SameSource ==
    ASSUME NEW r, NEW r2, \A q \in AllFields : Setting(r2, q) = Setting(r, q)
    PROVE  /\ \A e : Faithful(e, r) => Faithful(e, r2)
           /\ \A e : Covers(e, r, Reached) => Covers(e, r2, Reached)
           /\ \A t : Agrees(r, t) => Agrees(r2, t)
<1>1. Reached \subseteq AllFields
  BY ComparedOf DEF Reached
<1> QED
  BY <1>1 DEF Faithful, Covers, Agrees

LEMMA AlignedOff ==
    ASSUME aligned' = NoAlignment, ~working' => left' = <<>>
    PROVE  AlignedInv'
BY DEF NoAlignment, AlignedInv

LEMMA AlignedUnchanged ==
    ASSUME AlignedInv, UNCHANGED <<radio, copy, queue, working, patch, left, late, aligned>>
    PROVE  AlignedInv'
BY DEF AlignedInv, AlignedOn, Exact, Asks, Faithful, Covers, Agrees

\* A reading that the radio still agrees with makes the copy exact, another one is late.
LEMMA StoreAligned ==
    ASSUME FleetInv, AlignedInv, NEW y, NEW reading, Store(y, reading), late' = Outdated(reading),
           UNCHANGED aligned
    PROVE  AlignedInv'
<1>1. PICK m : m = reading.node
  OBVIOUS
<1>2. /\ copy' = [copy EXCEPT ![m] = reading.found]
      /\ late' = IF reading.found = Report(radio[m]) THEN late \ {m} ELSE late \cup {m}
      /\ UNCHANGED <<radio, queue, working, patch, left, aligned>>
  BY <1>1 DEF Store, Outdated, jobVars
<1>3. ASSUME NEW n \in Nodes, n \in late \/ Exact(copy[n], radio[n]) PROVE n \in late' \/ Exact(copy'[n], radio[n])
  <2>1. IsRadio(radio[n]) /\ DOMAIN copy = Nodes
    BY DEF FleetInv, Fleet
  <2>2. Exact(Report(radio[n]), radio[n])
    BY <2>1, ReportExact
  <2>3. CASE n # m
    <3>1. copy'[n] = copy[n] /\ (n \in late => n \in late')
      BY <1>2, <2>1, <2>3
    <3> QED
      BY <1>3, <3>1
  <2>4. CASE n = m
    <3>1. copy'[n] = reading.found
      BY <1>2, <2>1, <2>4
    <3>2. reading.found = Report(radio[n]) \/ n \in late'
      BY <1>2, <2>4
    <3> QED
      BY <2>2, <3>1, <3>2
  <2> QED
    BY <2>3, <2>4
<1>4. ASSUME aligned.on PROVE AlignedOn(aligned.source, aligned.nodes, radio[aligned.source])'
  <2>1. PICK s, N, r : s = aligned.source /\ N = aligned.nodes /\ r = radio[aligned.source]
    OBVIOUS
  <2>2. AlignedOn(s, N, r)
    BY <1>4, <2>1 DEF AlignedInv
  <2>3. \A n \in {s} \cup N : n \in late' \/ Exact(copy'[n], radio'[n])
    BY <1>2, <1>3, <2>2 DEF AlignedOn
  <2>4. /\ s \in Nodes /\ N \subseteq Nodes
        /\ queue' # <<>> => ~working' /\ Len(queue') = 1 /\ Asks(queue'[1], s, N, r)
        /\ working' => queue' = <<>> /\ Faithful(Explicit(patch'), r) /\ Covers(Explicit(patch'), r, Reached)
        /\ queue' = <<>> => \A n \in N : n \in ToSet(left') \/ Agrees(r, radio'[n])
    BY <1>2, <2>2 DEF AlignedOn
  <2>5. s = aligned'.source /\ N = aligned'.nodes /\ r = radio'[aligned'.source]
    BY <1>2, <2>1
  <2> QED
    BY <2>3, <2>4, <2>5 DEF AlignedOn
<1>5. ~working' => left' = <<>>
  BY <1>2 DEF AlignedInv
<1> QED
  BY <1>2, <1>4, <1>5 DEF AlignedInv

LEMMA PatchAligned == FleetInv /\ AlignedInv /\ PatchNode /\ UNCHANGED <<late, aligned>> => AlignedInv'
<1> SUFFICES ASSUME FleetInv, AlignedInv, PatchNode, UNCHANGED <<late, aligned>> PROVE AlignedInv'
  OBVIOUS
<1>1. PICK m, e : m = Head(left) /\ e = Explicit(patch)
  OBVIOUS
<1>2. working /\ left # <<>> /\ left' = Tail(left) /\ UNCHANGED <<queue, working, patch>>
  BY DEF PatchNode
<1>3. /\ m \in Nodes
      /\ \A q \in AllFields : Setting(radio'[m], q) = Into(e, q, Setting(radio[m], q))
      /\ Shown(copy'[m]) = Over(e, Shown(copy[m]))
      /\ \A n \in Nodes \ {m} : radio'[n] = radio[n] /\ copy'[n] = copy[n]
  BY <1>1, PatchEffect
<1>4. ToSet(left) = ToSet(left') \cup {m}
  BY <1>1, <1>2, TailOf DEF FleetInv, Running
<1>5. ASSUME aligned.on PROVE AlignedOn(aligned.source, aligned.nodes, radio[aligned.source])'
  <2>1. PICK s, N, r, r2 : s = aligned.source /\ N = aligned.nodes /\ r = radio[s] /\ r2 = radio'[s]
    OBVIOUS
  <2>2. AlignedOn(s, N, r)
    BY <1>5, <2>1 DEF AlignedInv
  <2>3. queue = <<>> /\ Faithful(e, r) /\ Covers(e, r, Reached) /\ s \in Nodes /\ N \subseteq Nodes
    BY <1>1, <1>2, <2>2 DEF AlignedOn
  <2>4. \A q \in AllFields : Setting(r2, q) = Setting(r, q)
    <3>1. CASE s # m
      BY <1>3, <2>1, <2>3, <3>1
    <3>2. CASE s = m
      BY <1>3, <2>1, <2>3, <3>2 DEF Into, Faithful
    <3> QED
      BY <3>1, <3>2
  <2>5. Faithful(e, r2) /\ Covers(e, r2, Reached)
    BY <2>3, <2>4, SameSource
  <2>6. ASSUME NEW n \in {s} \cup N, n \notin late' PROVE Exact(copy'[n], radio'[n])
    <3>1. n \in Nodes /\ Exact(copy[n], radio[n])
      BY <2>2, <2>6 DEF AlignedOn
    <3>2. CASE n # m
      BY <1>3, <3>1, <3>2
    <3>3. CASE n = m
      <4>1. PICK c1, c2, t1, t2 : c1 = copy[n] /\ c2 = copy'[n] /\ t1 = radio[n] /\ t2 = radio'[n]
        OBVIOUS
      <4>2. /\ Exact(c1, t1) /\ Shown(c2) = Over(e, Shown(c1))
            /\ \A q \in AllFields : Setting(t2, q) = Into(e, q, Setting(t1, q))
        BY <1>3, <3>1, <3>3, <4>1
      <4>3. Exact(c2, t2)
        BY <2>3, <4>2, ExactKept
      <4> QED
        BY <4>1, <4>3
    <3> QED
      BY <3>2, <3>3
  <2>7. ASSUME NEW n \in N, n \notin ToSet(left') PROVE Agrees(r2, radio'[n])
    <3>1. CASE n = m
      <4>1. ASSUME NEW q \in Reached PROVE Setting(r2, q) \in {0, Setting(radio'[n], q)}
        <5>1. q \in AllFields
          BY ComparedOf DEF Reached
        <5>2. Setting(radio'[n], q) = Into(e, q, Setting(radio[n], q))
          BY <1>3, <3>1, <5>1
        <5>3. Setting(r2, q) # 0 => q \in DOMAIN e
          BY <2>5 DEF Covers
        <5>4. q \in DOMAIN e => Into(e, q, Setting(radio[n], q)) = Setting(r2, q)
          BY <2>5 DEF Faithful, Into
        <5> QED
          BY <5>2, <5>3, <5>4
      <4> QED
        BY <4>1 DEF Agrees
    <3>2. CASE n # m
      <4>1. n \notin ToSet(left) /\ n \in Nodes /\ radio'[n] = radio[n]
        BY <1>3, <1>4, <2>3, <2>7, <3>2
      <4>2. Agrees(r, radio[n])
        BY <2>2, <2>3, <4>1 DEF AlignedOn
      <4> QED
        BY <2>4, <4>1, <4>2, SameSource
    <3> QED
      BY <3>1, <3>2
  <2>8. s = aligned'.source /\ N = aligned'.nodes /\ r2 = radio'[aligned'.source]
    BY <2>1
  <2>9. queue' = <<>> /\ e = Explicit(patch')
    BY <1>1, <1>2, <2>3
  <2> QED
    BY <2>3, <2>5, <2>6, <2>7, <2>8, <2>9 DEF AlignedOn
<1>6. ~working' => left' = <<>>
  BY <1>2
<1> QED
  BY <1>5, <1>6 DEF AlignedInv

LEMMA EndAligned == AlignedInv /\ EndJob /\ UNCHANGED <<late, aligned>> => AlignedInv'
<1> SUFFICES ASSUME AlignedInv, EndJob, UNCHANGED <<late, aligned>> PROVE AlignedInv'
  OBVIOUS
<1>1. working /\ left = <<>> /\ working' = FALSE /\ UNCHANGED <<radio, copy, queue, left>>
  BY DEF EndJob
<1>2. ASSUME aligned.on PROVE AlignedOn(aligned.source, aligned.nodes, radio[aligned.source])'
  <2>1. PICK s, N, r : s = aligned.source /\ N = aligned.nodes /\ r = radio[aligned.source]
    OBVIOUS
  <2>2. AlignedOn(s, N, r)
    BY <1>2, <2>1 DEF AlignedInv
  <2>3. /\ s \in Nodes /\ N \subseteq Nodes /\ queue = <<>>
        /\ \A n \in {s} \cup N : n \in late \/ Exact(copy[n], radio[n])
        /\ \A n \in N : n \in ToSet(left) \/ Agrees(r, radio[n])
    BY <1>1, <2>2 DEF AlignedOn
  <2>4. /\ \A n \in {s} \cup N : n \in late' \/ Exact(copy'[n], radio'[n])
        /\ \A n \in N : n \in ToSet(left') \/ Agrees(r, radio'[n])
        /\ queue' = <<>> /\ ~working'
    BY <1>1, <2>3
  <2>5. s = aligned'.source /\ N = aligned'.nodes /\ r = radio'[aligned'.source]
    BY <1>1, <2>1
  <2> QED
    BY <2>3, <2>4, <2>5 DEF AlignedOn
<1> QED
  BY <1>1, <1>2 DEF AlignedInv

LEMMA StartAligned ==
    FleetInv /\ AlignedInv /\ StartJob /\ aligned.source \notin late /\ UNCHANGED <<late, aligned>> => AlignedInv'
<1> SUFFICES ASSUME FleetInv, AlignedInv, StartJob, aligned.source \notin late, UNCHANGED <<late, aligned>>
             PROVE  AlignedInv'
  OBVIOUS
<1>1. PICK job : job = Head(queue)
  OBVIOUS
<1>2. PICK extra : extra = Cloned(job.clone)
  OBVIOUS
<1>3. /\ queue # <<>> /\ queue' = Tail(queue) /\ working' = TRUE /\ left' = job.nodes
      /\ patch' = MergePatches(extra, job.base) /\ UNCHANGED <<radio, copy>>
  BY <1>1, <1>2 DEF StartJob
<1>4. PICK w, t : w = queue /\ t = Tail(w)
  OBVIOUS
<1>5. w # <<>> /\ w \in Seq(Range(w)) /\ \A k \in DOMAIN w : IsJob(w[k])
  BY <1>3, <1>4 DEF FleetInv, Waiting
<1>6. IsTail(t, w)
  BY <1>4, <1>5, Shortened
<1>7. 1 \in DOMAIN w /\ job = w[1] /\ IsJob(job) /\ (Len(w) = 1 => t = <<>>)
  BY <1>1, <1>4, <1>5, <1>6 DEF IsTail
<1>8. IsPatch(extra) /\ IsConfig(job.base)
  <2>1. \A n \in Nodes : IsCopy(copy[n])
    BY DEF FleetInv, Fleet
  <2> QED
    BY <1>2, <1>7, <2>1, ClonedIsPatch DEF IsJob
<1>9. PICK p : p = MergePatches(extra, job.base)
  OBVIOUS
<1>10. Once(job.base.channels) => Explicit(p) = Over(Explicit(job.base), Explicit(extra))
  BY <1>8, <1>9, MergePatchesOf DEF IsPatch
<1>11. ASSUME aligned.on PROVE AlignedOn(aligned.source, aligned.nodes, radio[aligned.source])'
  <2>1. PICK s, N, r : s = aligned.source /\ N = aligned.nodes /\ r = radio[aligned.source]
    OBVIOUS
  <2>2. AlignedOn(s, N, r)
    BY <1>11, <2>1 DEF AlignedInv
  <2>3. /\ s \in Nodes /\ N \subseteq Nodes /\ Len(w) = 1 /\ Asks(job, s, N, r)
        /\ \A n \in {s} \cup N : n \in late \/ Exact(copy[n], radio[n])
    BY <1>3, <1>4, <1>7, <2>2 DEF AlignedOn
  <2>4. PICK c : c = copy[s]
    OBVIOUS
  <2>5. IsCopy(c) /\ Exact(c, r)
    BY <2>1, <2>3, <2>4 DEF FleetInv, Fleet
  <2>6. extra.local = <<>> /\ extra.module = <<>> /\ extra.channels = Indexed(c.channels)
    <3>1. PICK clone : clone = job.clone
      OBVIOUS
    <3>2. /\ clone.source = {s} /\ clone.local = FALSE /\ clone.module = FALSE
          /\ clone.channels = TRUE /\ clone.role = FALSE
      BY <2>3, <3>1 DEF Asks
    <3>3. PICK z : z = CHOOSE n \in clone.source : TRUE
      OBVIOUS
    <3>4. z = s
      BY <3>2, <3>3
    <3>5. extra = [local |-> <<>>, module |-> <<>>, channels |-> Indexed(c.channels)]
      BY <1>2, <2>4, <3>1, <3>2, <3>3, <3>4 DEF Cloned
    <3> QED
      BY <3>5
  <2>7. /\ Faithful(Explicit(extra), r)
        /\ Covers(Explicit(extra), r, {<<"channels", 1, "uplinkEnabled">>})
    BY <2>5, <2>6, ClonedRows
  <2>8. Faithful(Explicit(job.base), r) /\ Covers(Explicit(job.base), r, Unchanneled) /\ job.nodes = InOrder(N)
    BY <2>3 DEF Asks
  <2>9. /\ Faithful(Explicit(p), r)
        /\ Covers(Explicit(p), r, Unchanneled \cup {<<"channels", 1, "uplinkEnabled">>})
    <3>1. PICK e, g : e = Explicit(job.base) /\ g = Explicit(extra)
      OBVIOUS
    <3>2. /\ Faithful(Over(e, g), r)
          /\ Covers(Over(e, g), r, Unchanneled \cup {<<"channels", 1, "uplinkEnabled">>})
      BY <2>7, <2>8, <3>1, OverFaithful
    <3>3. Once(job.base.channels)
      BY <2>3, NoRows DEF Asks
    <3> QED
      BY <1>10, <3>1, <3>2, <3>3
  <2>10. Covers(Explicit(p), r, Reached)
    BY <2>9, ComparedOf DEF Covers
  <2>11. queue' = <<>> /\ patch' = p
    BY <1>3, <1>4, <1>7, <1>9, <2>3
  <2>12. \A n \in N : n \in ToSet(left')
    <3>1. ToSet(InOrder(N)) = Nodes \cap N
      BY InOrderOf
    <3> QED
      BY <1>3, <2>3, <2>8, <3>1
  <2>13. s = aligned'.source /\ N = aligned'.nodes /\ r = radio'[aligned'.source]
    BY <1>3, <2>1
  <2>14. \A n \in {s} \cup N : n \in late' \/ Exact(copy'[n], radio'[n])
    BY <1>3, <2>3
  <2> QED
    BY <2>3, <2>9, <2>10, <2>11, <2>12, <2>13, <2>14 DEF AlignedOn
<1>12. ~working' => left' = <<>>
  BY <1>3
<1> QED
  BY <1>11, <1>12 DEF AlignedInv

LEMMA RequestAligned == FleetInv /\ AlignedInv /\ CompareSyncRequest => AlignedInv'
<1> SUFFICES ASSUME FleetInv, AlignedInv, CompareSyncRequest PROVE AlignedInv'
  OBVIOUS
<1>1. PICK source \in Nodes, N \in Targets, alignment \in BOOLEAN, select \in Selections :
        /\ CompareSync(source, N, alignment, select)
        /\ aligned' = IF /\ alignment /\ select.local /\ select.module /\ select.channels
                         /\ ~working /\ queue = <<>> /\ Accurate({source} \cup N)
                      THEN [on |-> TRUE, source |-> source, nodes |-> N]
                      ELSE NoAlignment
  BY DEF CompareSyncRequest
<1>2. PICK base : base = [local |-> IF alignment /\ select.local THEN AlignmentLocal(copy[source]) ELSE <<>>,
                 module |-> IF alignment /\ select.module THEN AlignmentModule(copy[source]) ELSE <<>>,
                 channels |-> <<>>]
  OBVIOUS
<1>3. PICK clone : clone = [source |-> {source}, local |-> select.local /\ ~alignment,
                          module |-> select.module /\ ~alignment,
                          channels |-> select.channels, role |-> FALSE]
  OBVIOUS
<1>4. Queue(N, base, clone, Explicit(base))
  BY <1>1, <1>2, <1>3 DEF CompareSync
<1>5. PICK item : item = [nodes |-> InOrder(N), base |-> base, clone |-> clone, asked |-> Explicit(base)]
  OBVIOUS
<1>6. queue' = Append(queue, item) /\ UNCHANGED <<radio, copy, working, patch, left>>
  BY <1>4, <1>5 DEF Queue
<1>7. ~working' => left' = <<>>
  BY <1>6 DEF AlignedInv
<1>8. CASE /\ alignment /\ select.local /\ select.module /\ select.channels
           /\ ~working /\ queue = <<>> /\ Accurate({source} \cup N)
  <2>1. aligned' = [on |-> TRUE, source |-> source, nodes |-> N]
    BY <1>1, <1>8
  <2>2. PICK c, r : c = copy[source] /\ r = radio[source]
    OBVIOUS
  <2>3. N \subseteq Nodes
    BY FleetConfigAssumption
  <2>4. ASSUME NEW n \in {source} \cup N PROVE Exact(copy[n], radio[n])
    <3>1. copy[n] = Report(radio[n]) /\ IsRadio(radio[n])
      BY <1>8, <2>3 DEF Accurate, FleetInv, Fleet
    <3> QED
      BY <3>1, ReportExact
  <2>5. IsCopy(c) /\ Exact(c, r)
    BY <2>2, <2>4 DEF FleetInv, Fleet
  <2>6. base.local = AlignmentLocal(c) /\ base.module = AlignmentModule(c) /\ base.channels = <<>>
    BY <1>2, <1>8, <2>2
  <2>7. Faithful(Explicit(base), r) /\ Covers(Explicit(base), r, Unchanneled)
    BY <2>5, <2>6, AlignmentBase
  <2>8. Asks(item, source, N, r)
    <3>1. item.nodes = InOrder(N) /\ item.base = base /\ item.clone = clone /\ base.channels = <<>>
      BY <1>2, <1>5
    <3>2. clone = [source |-> {source}, local |-> FALSE, module |-> FALSE, channels |-> TRUE, role |-> FALSE]
      <4>1. select = [source |-> select.source, local |-> select.local, module |-> select.module,
                      channels |-> select.channels, role |-> select.role] /\ select.channels \in BOOLEAN
        BY FleetConfigAssumption
      <4>2. (select.local /\ ~alignment) = FALSE /\ (select.module /\ ~alignment) = FALSE /\ select.channels = TRUE
        BY <1>8, <4>1
      <4> QED
        BY <1>3, <4>2
    <3> QED
      BY <2>7, <3>1, <3>2 DEF Asks
  <2>9. Len(queue') = 1 /\ queue'[1] = item /\ queue' # <<>>
    BY <1>6, <1>8
  <2>10. AlignedOn(source, N, r)'
    BY <1>6, <1>8, <2>2, <2>3, <2>4, <2>8, <2>9 DEF AlignedOn
  <2>11. aligned'.on /\ aligned'.source = source /\ aligned'.nodes = N /\ radio'[aligned'.source] = r
    BY <1>6, <2>1, <2>2
  <2> QED
    BY <1>7, <2>10, <2>11 DEF AlignedInv
<1>9. CASE aligned' = NoAlignment
  BY <1>7, <1>9, AlignedOff
<1> QED
  BY <1>1, <1>8, <1>9

LEMMA OffAligned ==
    ASSUME FleetInv, AlignedInv, aligned' = NoAlignment,
           \/ BatchConfigure \/ NodeConfigure \/ StructuredConfigure \/ SaveDefaults
           \/ ApplyDefaults \/ RadioChanges \/ PatchFails
    PROVE  AlignedInv'
<1>1. CASE BatchConfigure \/ NodeConfigure \/ StructuredConfigure \/ ApplyDefaults
  <2>1. \A N, base, clone, asked : Queue(N, base, clone, asked) => UNCHANGED <<working, left>>
    BY DEF Queue
  <2>2. BatchConfigure => UNCHANGED <<working, left>>
    BY <2>1 DEF BatchConfigure
  <2>3. NodeConfigure => UNCHANGED <<working, left>>
    BY <2>1 DEF NodeConfigure
  <2>4. StructuredConfigure => UNCHANGED <<working, left>>
    BY <2>1 DEF StructuredConfigure, jobVars
  <2>5. ApplyDefaults => UNCHANGED <<working, left>>
    BY <2>1 DEF ApplyDefaults
  <2>6. UNCHANGED <<working, left>>
    BY <1>1, <2>2, <2>3, <2>4, <2>5
  <2> QED
    BY <2>6, AlignedOff DEF AlignedInv
<1>2. CASE SaveDefaults \/ RadioChanges
  <2>1. UNCHANGED <<working, left>>
    BY <1>2 DEF SaveDefaults, RadioChanges, jobVars
  <2> QED
    BY <2>1, AlignedOff DEF AlignedInv
<1>3. CASE PatchFails
  <2>1. working'
    BY <1>3 DEF PatchFails
  <2> QED
    BY <2>1, AlignedOff
<1> QED
  BY <1>1, <1>2, <1>3

LEMMA StepAligned == FleetInv /\ AlignedInv /\ [Next]_vars => AlignedInv'
<1> SUFFICES ASSUME FleetInv, AlignedInv, [Next]_vars PROVE AlignedInv'
  OBVIOUS
<1>1. CASE UNCHANGED vars
  BY <1>1, AlignedUnchanged DEF vars, jobVars
<1>2. CASE (OpenPage \/ \E y \in Syncers : Fetch(y) \/ SyncFails(y)) /\ UNCHANGED <<late, aligned>>
  <2>1. UNCHANGED <<radio, copy, queue, working, patch, left>>
    BY <1>2 DEF OpenPage, Fetch, SyncFails, jobVars
  <2> QED
    BY <1>2, <2>1, AlignedUnchanged
<1>3. CASE StartJob /\ aligned' = (IF aligned.source \in late THEN NoAlignment ELSE aligned) /\ UNCHANGED late
  <2>1. CASE aligned.source \in late
    <3>1. aligned' = NoAlignment /\ working'
      BY <1>3, <2>1 DEF StartJob
    <3> QED
      BY <3>1, AlignedOff
  <2>2. CASE aligned.source \notin late
    BY <1>3, <2>2, StartAligned
  <2> QED
    BY <2>1, <2>2
<1>4. CASE Next
  BY <1>2, <1>3, <1>4, OffAligned, RequestAligned, StoreAligned, PatchAligned, EndAligned DEF Next
<1> QED
  BY <1>1, <1>4

LEMMA InitAligned == Init => AlignedInv
BY DEF Init, AlignedInv, NoAlignment

\* After a synchronisation with the alignment profile, without another job or change
\* of a radio, the radios agree in its fields and the comparison finds nothing, for
\* any number of targets and of synchronisations whose reading and storing lie
\* anywhere between the steps of the job: only a copy that was last stored after its
\* radio had changed may show a difference (api/app.py:1314-1373, 2239-2259,
\* jobs/queue.py:685-715, sync/service.py:34-36).
THEOREM Aligned == Spec => []AlignedMatch
<1>1. FleetInv /\ AlignedInv => AlignedMatch
  <2> SUFFICES ASSUME FleetInv, AlignedInv, aligned.on, ~working, queue = <<>>, NEW n \in aligned.nodes
               PROVE  /\ {aligned.source, n} \cap late = {} =>
                            AlignmentDifferences(copy[aligned.source], copy[n]) = {}
                      /\ \A p \in ComparedFields \ {<<"channels", 0, "uplinkEnabled">>} :
                            Setting(radio[aligned.source], p) \in {0, Setting(radio[n], p)}
    BY DEF AlignedMatch
  <2>1. PICK s, N, r, t : s = aligned.source /\ N = aligned.nodes /\ r = radio[s] /\ t = radio[n]
    OBVIOUS
  <2>2. AlignedOn(s, N, r) /\ left = <<>>
    BY <2>1 DEF AlignedInv
  <2>3. /\ s \in Nodes /\ n \in Nodes
        /\ {s, n} \cap late = {} => Exact(copy[s], r) /\ Exact(copy[n], t)
    BY <2>1, <2>2 DEF AlignedOn
  <2>4. Agrees(r, t)
    <3>1. n \notin ToSet(<<>>)
      BY DEF ToSet
    <3> QED
      BY <2>1, <2>2, <3>1 DEF AlignedOn
  <2>5. PICK x, y : x = Shown(copy[s]) /\ y = Shown(copy[n])
    OBVIOUS
  <2>6. ASSUME {s, n} \cap late = {}, NEW p \in ComparedFields, p \in DOMAIN x, p \in DOMAIN y PROVE x[p] = y[p]
    <3>1. p \in AllFields
      BY ComparedOf
    <3>2. x[p] = Setting(r, p) /\ x[p] # 0 /\ y[p] = Setting(t, p) /\ y[p] # 0
      BY <2>3, <2>5, <2>6, <3>1 DEF Exact
    <3>3. CASE p \in Reached
      BY <2>4, <3>2, <3>3 DEF Agrees
    <3>4. CASE p \notin Reached
      <4>1. p = <<"channels", 0, "uplinkEnabled">>
        BY <3>4 DEF Reached
      <4>2. x[p] = r.channels[0]["uplinkEnabled"] /\ y[p] = t.channels[0]["uplinkEnabled"]
        BY <3>2, <4>1, SettingOf
      <4>3. IsRadio(r) /\ IsRadio(t)
        BY <2>1, <2>3 DEF FleetInv, Fleet
      <4>4. 0 \in Channels /\ "uplinkEnabled" \in ChannelFields
        BY DEF Channels, ChannelFields
      <4>5. r.channels[0]["uplinkEnabled"] \in Switch /\ t.channels[0]["uplinkEnabled"] \in Switch
        BY <4>3, <4>4 DEF IsRadio
      <4> QED
        BY <3>2, <4>2, <4>5 DEF Switch
    <3> QED
      BY <3>3, <3>4
  <2>7. {s, n} \cap late = {} => AlignmentDifferences(copy[s], copy[n]) = {}
    BY <2>5, <2>6 DEF AlignmentDifferences, Differences
  <2> QED
    BY <2>1, <2>4, <2>7 DEF Agrees, Reached
<1> QED
  BY <1>1, FleetInvHolds, InitAligned, StepAligned, PTL DEF Spec
=============================================================================
