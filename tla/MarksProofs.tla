---------------------------- MODULE MarksProofs ----------------------------
(***************************************************************************)
(* What holds of the marks of either backend for any configurations,       *)
(* mappings, and any number of changes, faults and jumps.                  *)
(*                                                                         *)
(* A pass is a list of commands that concern different things.  What the   *)
(* kernel is like in the middle of it is said thing by thing: of the       *)
(* commands that concern one, as many have been run as have.               *)
(***************************************************************************)
EXTENDS Marks, SequenceTheorems, WellFoundedInduction, TLAPS

-----------------------------------------------------------------------------
(* Induction.                                                               *)

\* A set of natural numbers that is not empty has a least element.
LEMMA Least ==
  ASSUME NEW S \in SUBSET Nat, S # {}
  PROVE  \E m \in S : \A n \in S : m <= n
<1> DEFINE R == OpToRel(<, Nat)
<1>1. \A x, y \in Nat : <<x, y>> \in R <=> x < y
  BY DEF OpToRel
<1>2. IsWellFoundedOn(R, Nat)
  BY NatLessThanWellFounded
<1> HIDE DEF R
<1>3. PICK m \in S : \A n \in S : <<n, m>> \notin R
  BY <1>2, WFMin
<1>4. \A n \in S : ~(n < m)
  BY <1>1, <1>3, Zenon
<1> QED
  BY <1>4

\* What holds of n if it holds of all that are less, holds of all.
LEMMA Induct ==
  ASSUME NEW P, \A n \in Nat : (\A m \in Nat : m < n => m \in P) => n \in P
  PROVE  Nat \subseteq P
<1> SUFFICES ASSUME Nat \ P # {}
             PROVE  FALSE
  OBVIOUS
<1>1. PICK m \in Nat \ P : \A n \in Nat \ P : m <= n
  BY Least
<1> QED
  BY <1>1

\* What holds of the empty sequence, and of one with an element more, holds of all.
LEMMA SeqInduct ==
  ASSUME NEW S, NEW G, <<>> \in G,
         \A s \in Seq(S), x \in S : s \in G => Append(s, x) \in G
  PROVE  Seq(S) \subseteq G
<1> DEFINE P == {n \in Nat : \A s \in Seq(S) : Len(s) = n => s \in G}
<1>1. ASSUME NEW n \in Nat, \A m \in Nat : m < n => m \in P
      PROVE  n \in P
  <2> SUFFICES ASSUME NEW s \in Seq(S), Len(s) = n
               PROVE  s \in G
    OBVIOUS
  <2>1. CASE s = <<>>
    BY <2>1
  <2>2. CASE s # <<>>
    <3>1. PICK r \in Seq(S), x \in S : s = Append(r, x)
      BY <2>2, SequenceEmptyOrAppend, Zenon
    <3>2. Len(r) \in Nat /\ Len(r) < n
      BY <3>1
    <3>3. r \in G
      BY <1>1, <3>2
    <3> QED
      BY <3>1, <3>3
  <2> QED
    BY <2>1, <2>2
<1> HIDE DEF P
<1>2. Nat \subseteq P
  BY <1>1, Induct, Zenon
<1> QED
  BY <1>2 DEF P

-----------------------------------------------------------------------------
(* Two sequences put together.                                              *)

IsJoin(z, x, y) ==
  /\ Len(z) = Len(x) + Len(y)
  /\ \A i \in 1..Len(x) : z[i] = x[i]
  /\ \A i \in 1..Len(y) : z[Len(x) + i] = y[i]

LEMMA Joined ==
  ASSUME NEW S, NEW x \in Seq(S), NEW y \in Seq(S)
  PROVE  x \o y \in Seq(S) /\ IsJoin(x \o y, x, y)
<1>1. x \o y \in Seq(S)
  OBVIOUS
<1>2. Len(x \o y) = Len(x) + Len(y)
  OBVIOUS
<1>3. \A i \in 1..Len(x) : (x \o y)[i] = x[i]
  OBVIOUS
<1>4. \A i \in 1..Len(y) : (x \o y)[Len(x) + i] = y[i]
  OBVIOUS
<1> QED
  BY <1>1, <1>2, <1>3, <1>4, Zenon DEF IsJoin

\* Where the elements are, of lengths that are known.
LEMMA JoinedAt ==
  ASSUME NEW n \in Nat, NEW m \in Nat, NEW z, NEW x, NEW y,
         Len(x) = n, Len(y) = m, IsJoin(z, x, y)
  PROVE  /\ Len(z) = n + m
         /\ \A i \in 1..n : z[i] = x[i]
         /\ \A i \in 1..m : z[n + i] = y[i] /\ z[i + n] = y[i]
<1>1. /\ Len(z) = n + m
      /\ \A i \in 1..n : z[i] = x[i]
      /\ \A i \in 1..m : z[n + i] = y[i]
  BY Zenon DEF IsJoin
<1>2. \A i \in 1..m : n + i = i + n
  OBVIOUS
<1> QED
  BY <1>1, <1>2, Zenon

-----------------------------------------------------------------------------
(* FlattenSeq, of which SequenceTheorems says nothing.                      *)

\* f[i] is the first i of the sequences s put together.
IsFlat(f, s, n) == f = [i \in 1..n |-> IF i = 1 THEN s[i] ELSE f[i - 1] \o s[i]]

LEMMA FlatStep ==
  ASSUME NEW s, NEW n \in Nat, NEW f, IsFlat(f, s, n)
  PROVE  \A i \in 1..n : f[i] = IF i = 1 THEN s[i] ELSE f[i - 1] \o s[i]
  BY DEF IsFlat

LEMMA FlatExists ==
  ASSUME NEW s, NEW n \in Nat
  PROVE  \E f : IsFlat(f, s, n)
<1> DEFINE P == {k \in Nat : \E f : IsFlat(f, s, k)}
<1>1. ASSUME NEW k \in Nat, \A m \in Nat : m < k => m \in P
      PROVE  k \in P
  <2>1. CASE k = 0
    <3> DEFINE e == [i \in 1..0 |-> i]
    <3>1. \A f : e = [i \in 1..0 |-> IF i = 1 THEN s[i] ELSE f[i - 1] \o s[i]]
      OBVIOUS
    <3>2. IsFlat(e, s, 0)
      BY <3>1 DEF IsFlat
    <3> QED
      BY <2>1, <3>2
  <2>2. CASE k # 0
    <3>1. k - 1 \in P
      BY <1>1, <2>2
    <3>2. PICK f : IsFlat(f, s, k - 1)
      BY <3>1
    <3> DEFINE g == [i \in 1..k |-> IF i = k THEN IF k = 1 THEN s[1] ELSE f[k - 1] \o s[k] ELSE f[i]]
    <3>3. \A i \in 1..(k - 1) : f[i] = IF i = 1 THEN s[i] ELSE f[i - 1] \o s[i]
      BY <2>2, <3>2 DEF IsFlat
    <3>4. ASSUME NEW i \in 1..k
          PROVE  g[i] = IF i = 1 THEN s[i] ELSE g[i - 1] \o s[i]
      <4>1. CASE i = k
        BY <2>2, <4>1
      <4>2. CASE i # k
        <5>1. i \in 1..(k - 1) /\ i - 1 # k /\ (i # 1 => i - 1 \in 1..k)
          BY <4>2
        <5> QED
          BY <3>3, <4>2, <5>1
      <4> QED
        BY <4>1, <4>2
    <3>5. DOMAIN g = 1..k /\ g = [i \in DOMAIN g |-> g[i]]
      OBVIOUS
    <3> HIDE DEF g
    <3>6. g = [i \in 1..k |-> IF i = 1 THEN s[i] ELSE g[i - 1] \o s[i]]
      BY <3>4, <3>5
    <3> QED
      BY <3>6 DEF IsFlat
  <2> QED
    BY <2>1, <2>2
<1> HIDE DEF P
<1>2. Nat \subseteq P
  BY <1>1, Induct, Zenon
<1> QED
  BY <1>2 DEF P

\* There is one such f only, and longer ones go on from shorter ones.
LEMMA FlatAgree ==
  \A s, t, f, g : \A n, m \in Nat :
    n <= m /\ IsFlat(f, s, n) /\ IsFlat(g, t, m) /\ (\A i \in 1..n : s[i] = t[i])
      => \A i \in 1..n : f[i] = g[i]
<1> SUFFICES ASSUME NEW s, NEW t, NEW f, NEW g, NEW n \in Nat, NEW m \in Nat, n <= m,
                    IsFlat(f, s, n), IsFlat(g, t, m), \A i \in 1..n : s[i] = t[i]
             PROVE  \A i \in 1..n : f[i] = g[i]
  OBVIOUS
<1> DEFINE P == {k \in Nat : k \in 1..n => f[k] = g[k]}
<1>1. ASSUME NEW k \in Nat, \A l \in Nat : l < k => l \in P
      PROVE  k \in P
  <2> SUFFICES ASSUME k \in 1..n
               PROVE  f[k] = g[k]
    OBVIOUS
  <2>1. CASE k = 1
    <3>1. 1 \in 1..n /\ 1 \in 1..m
      OBVIOUS
    <3>2. f[1] = s[1] /\ g[1] = t[1]
      BY <3>1, FlatStep
    <3> QED
      BY <2>1, <3>1, <3>2
  <2>2. CASE k # 1
    <3>1. k - 1 \in Nat /\ k - 1 < k /\ k - 1 \in 1..n /\ k \in 1..m
      BY <2>2
    <3>2. f[k - 1] = g[k - 1]
      BY <1>1, <3>1
    <3>3. f[k] = f[k - 1] \o s[k]
      <4>1. \A i \in 1..n : f[i] = IF i = 1 THEN s[i] ELSE f[i - 1] \o s[i]
        BY FlatStep
      <4> QED
        BY <2>2, <3>1, <4>1
    <3>4. g[k] = g[k - 1] \o t[k]
      <4>1. \A i \in 1..m : g[i] = IF i = 1 THEN t[i] ELSE g[i - 1] \o t[i]
        BY FlatStep
      <4> QED
        BY <2>2, <3>1, <4>1
    <3> QED
      BY <3>1, <3>2, <3>3, <3>4
  <2> QED
    BY <2>1, <2>2
<1> HIDE DEF P
<1>2. Nat \subseteq P
  BY <1>1, Induct, Zenon
<1> QED
  BY <1>2 DEF P

LEMMA FlatTyped ==
  ASSUME NEW S, NEW s \in Seq(Seq(S)), NEW f, IsFlat(f, s, Len(s))
  PROVE  \A i \in 1..Len(s) : f[i] \in Seq(S)
<1> DEFINE P == {k \in Nat : k \in 1..Len(s) => f[k] \in Seq(S)}
<1>1. ASSUME NEW k \in Nat, \A l \in Nat : l < k => l \in P
      PROVE  k \in P
  <2> SUFFICES ASSUME k \in 1..Len(s)
               PROVE  f[k] \in Seq(S)
    OBVIOUS
  <2>1. Len(s) \in Nat /\ s[k] \in Seq(S)
    OBVIOUS
  <2>2. CASE k = 1
    BY <2>1, <2>2, FlatStep
  <2>3. CASE k # 1
    <3>1. k - 1 \in Nat /\ k - 1 < k /\ k - 1 \in 1..Len(s)
      BY <2>3
    <3>2. f[k - 1] \in Seq(S)
      BY <1>1, <3>1
    <3>3. f[k] = f[k - 1] \o s[k]
      <4>1. \A i \in 1..Len(s) : f[i] = IF i = 1 THEN s[i] ELSE f[i - 1] \o s[i]
        BY <2>1 DEF IsFlat
      <4> QED
        BY <2>1, <2>3, <3>1, <4>1
    <3> QED
      BY <2>1, <3>2, <3>3
  <2> QED
    BY <2>2, <2>3
<1> HIDE DEF P
<1>2. Nat \subseteq P
  BY <1>1, Induct, Zenon
<1> QED
  BY <1>2 DEF P

LEMMA FlattenIsFlat ==
  ASSUME NEW S, NEW s \in Seq(S), s # <<>>
  PROVE  \E f : IsFlat(f, s, Len(s)) /\ FlattenSeq(s) = f[Len(s)]
<1> DEFINE F == CHOOSE f : f = [i \in 1..Len(s) |-> IF i = 1 THEN s[i] ELSE f[i - 1] \o s[i]]
<1>1. Len(s) \in Nat /\ Len(s) # 0
  OBVIOUS
<1>2. \E f : f = [i \in 1..Len(s) |-> IF i = 1 THEN s[i] ELSE f[i - 1] \o s[i]]
  BY <1>1, FlatExists, Zenon DEF IsFlat
<1>3. F = [i \in 1..Len(s) |-> IF i = 1 THEN s[i] ELSE F[i - 1] \o s[i]]
  BY <1>2, Zenon
<1>4. FlattenSeq(s) = F[Len(s)]
  BY <1>1, Zenon DEF FlattenSeq
<1> HIDE DEF F
<1> QED
  BY <1>3, <1>4 DEF IsFlat

LEMMA FlattenEmpty == FlattenSeq(<<>>) = <<>>
<1>1. Len(<<>>) = 0
  OBVIOUS
<1> QED
  BY <1>1, Zenon DEF FlattenSeq

LEMMA FlattenTyped ==
  ASSUME NEW S, NEW s \in Seq(Seq(S))
  PROVE  FlattenSeq(s) \in Seq(S)
<1>1. CASE s = <<>>
  <2>1. FlattenSeq(s) = <<>>
    BY <1>1, FlattenEmpty
  <2> QED
    BY <2>1
<1>2. CASE s # <<>>
  <2>1. PICK f : IsFlat(f, s, Len(s)) /\ FlattenSeq(s) = f[Len(s)]
    BY <1>2, FlattenIsFlat
  <2>2. Len(s) \in 1..Len(s)
    BY <1>2
  <2> QED
    BY <2>1, <2>2, FlatTyped
<1> QED
  BY <1>1, <1>2

LEMMA FlattenAppend ==
  ASSUME NEW S, NEW s \in Seq(Seq(S)), NEW x \in Seq(S)
  PROVE  FlattenSeq(Append(s, x)) = FlattenSeq(s) \o x
<1>0. PICK t : t = Append(s, x)
  OBVIOUS
<1>1. /\ t \in Seq(Seq(S)) /\ t # <<>> /\ Len(t) = Len(s) + 1 /\ Len(s) \in Nat
      /\ \A i \in 1..Len(s) : s[i] = t[i]
      /\ t[Len(s) + 1] = x
  BY <1>0, AppendProperties
<1>2. PICK g : IsFlat(g, t, Len(t)) /\ FlattenSeq(t) = g[Len(t)]
  BY <1>1, FlattenIsFlat, Zenon
<1>3. CASE s = <<>>
  <2>1. g[1] = t[1] /\ t[1] = x /\ Len(t) = 1
    BY <1>1, <1>2, <1>3, FlatStep
  <2> QED
    BY <1>0, <1>2, <1>3, <2>1, FlattenEmpty
<1>4. CASE s # <<>>
  <2>1. PICK f : IsFlat(f, s, Len(s)) /\ FlattenSeq(s) = f[Len(s)]
    BY <1>4, FlattenIsFlat, Zenon
  <2>2. Len(s) \in 1..Len(s) /\ Len(t) \in Nat /\ Len(s) <= Len(t) /\ Len(t) \in 1..Len(t) /\ Len(t) # 1
        /\ Len(t) - 1 = Len(s)
    BY <1>1, <1>4
  <2>3. \A i \in 1..Len(s) : f[i] = g[i]
    <3>1. \A n, m \in Nat :
            n <= m /\ IsFlat(f, s, n) /\ IsFlat(g, t, m) /\ (\A i \in 1..n : s[i] = t[i])
              => \A i \in 1..n : f[i] = g[i]
      BY FlatAgree
    <3>2. /\ Len(s) \in Nat /\ Len(t) \in Nat /\ Len(s) <= Len(t)
          /\ IsFlat(f, s, Len(s)) /\ IsFlat(g, t, Len(t))
      BY <1>1, <1>2, <2>1, <2>2, Zenon
    <3>3. \A i \in 1..Len(s) : s[i] = t[i]
      BY <1>1, Zenon
    <3> HIDE <1>1, <1>2, <2>1, <2>2
    <3> QED
      BY <3>1, <3>2, <3>3, Zenon
  <2>4. g[Len(t)] = g[Len(t) - 1] \o t[Len(t)]
    BY <1>2, <2>2, FlatStep
  <2> QED
    BY <1>0, <1>1, <1>2, <2>1, <2>2, <2>3, <2>4
<1> QED
  BY <1>3, <1>4

-----------------------------------------------------------------------------
(* The elements of a sequence that are in a set, in their order.            *)

Sel(s, C) == FlattenSeq([k \in DOMAIN s |-> IF s[k] \in C THEN <<s[k]>> ELSE <<>>])

LEMMA SelEmpty ==
  ASSUME NEW C
  PROVE  Sel(<<>>, C) = <<>>
<1>1. [k \in DOMAIN <<>> |-> IF <<>>[k] \in C THEN <<<<>>[k]>> ELSE <<>>] = <<>>
  OBVIOUS
<1> QED
  BY <1>1, FlattenEmpty, Zenon DEF Sel

LEMMA SelAppend ==
  ASSUME NEW S, NEW C, NEW s \in Seq(S), NEW x \in S
  PROVE  Sel(Append(s, x), C) = IF x \in C THEN Append(Sel(s, C), x) ELSE Sel(s, C)
<1> DEFINE each(r) == [k \in DOMAIN r |-> IF r[k] \in C THEN <<r[k]>> ELSE <<>>]
           one == IF x \in C THEN <<x>> ELSE <<>>
<1>1. ASSUME NEW r \in Seq(S)
      PROVE  each(r) \in Seq(Seq(S)) /\ Len(each(r)) = Len(r)
             /\ \A k \in 1..Len(r) : each(r)[k] = IF r[k] \in C THEN <<r[k]>> ELSE <<>>
  <2>1. DOMAIN r = 1..Len(r) /\ Len(r) \in Nat
    OBVIOUS
  <2>2. \A k \in 1..Len(r) : (IF r[k] \in C THEN <<r[k]>> ELSE <<>>) \in Seq(S)
    OBVIOUS
  <2> QED
    BY <2>1, <2>2
<1>2. one \in Seq(S)
  OBVIOUS
<1>3. PICK t : t = Append(s, x)
  OBVIOUS
<1>4. /\ t \in Seq(S) /\ Len(t) = Len(s) + 1 /\ Len(s) \in Nat
      /\ \A k \in 1..Len(s) : t[k] = s[k]
      /\ t[Len(s) + 1] = x
  BY <1>3, AppendProperties
<1>5. PICK es, et : es = each(s) /\ et = each(t)
  OBVIOUS
<1>6. /\ es \in Seq(Seq(S)) /\ Len(es) = Len(s)
      /\ \A k \in 1..Len(s) : es[k] = IF s[k] \in C THEN <<s[k]>> ELSE <<>>
  BY <1>1, <1>5
<1>7. /\ et \in Seq(Seq(S)) /\ Len(et) = Len(t)
      /\ \A k \in 1..Len(t) : et[k] = IF t[k] \in C THEN <<t[k]>> ELSE <<>>
  BY <1>1, <1>4, <1>5
<1>8. Sel(s, C) = FlattenSeq(es) /\ Sel(t, C) = FlattenSeq(et)
  BY <1>5, Zenon DEF Sel
<1> HIDE DEF each
<1>9. /\ Append(es, one) \in Seq(Seq(S)) /\ Len(Append(es, one)) = Len(et)
      /\ \A k \in 1..Len(et) : Append(es, one)[k] = et[k]
  <2>1. Append(es, one) \in Seq(Seq(S)) /\ Len(Append(es, one)) = Len(et)
    BY <1>2, <1>4, <1>6, <1>7
  <2>2. ASSUME NEW k \in 1..Len(et)
        PROVE  Append(es, one)[k] = et[k]
    <3>1. CASE k \in 1..Len(s)
      <4>1. Append(es, one)[k] = es[k]
        BY <1>2, <1>4, <1>6, <3>1
      <4> QED
        BY <1>4, <1>6, <1>7, <3>1, <4>1
    <3>2. CASE k \notin 1..Len(s)
      <4>1. k = Len(s) + 1
        BY <1>4, <1>7, <3>2
      <4>2. Append(es, one)[k] = one
        BY <1>2, <1>4, <1>6, <4>1
      <4>3. et[k] = one
        BY <1>4, <1>7, <4>1
      <4> QED
        BY <4>2, <4>3
    <3> QED
      BY <3>1, <3>2
  <2> QED
    BY <2>1, <2>2
<1>10. Append(es, one) = et
  <2> DEFINE a == Append(es, one)
  <2> HIDE DEF a
  <2>1. a \in Seq(Seq(S)) /\ Len(a) = Len(et) /\ \A k \in 1..Len(a) : a[k] = et[k]
    BY <1>9 DEF a
  <2>2. a = et
    BY <1>7, <2>1, SeqEqual
  <2> QED
    BY <2>2 DEF a
<1>11. FlattenSeq(et) = FlattenSeq(es) \o one
  BY <1>2, <1>6, <1>10, FlattenAppend
<1>12. FlattenSeq(es) \in Seq(S)
  BY <1>6, FlattenTyped
<1> QED
  BY <1>3, <1>8, <1>11, <1>12

LEMMA SelTyped ==
  ASSUME NEW S, NEW C, NEW s \in Seq(S)
  PROVE  Sel(s, C) \in Seq(S \cap C)
<1> DEFINE G == {r \in Seq(S) : Sel(r, C) \in Seq(S \cap C)}
<1>1. <<>> \in G
  <2>1. <<>> \in Seq(S) /\ <<>> \in Seq(S \cap C)
    OBVIOUS
  <2>2. Sel(<<>>, C) = <<>>
    BY SelEmpty, Zenon
  <2> QED
    BY <2>1, <2>2, Zenon
<1>2. ASSUME NEW r \in Seq(S), NEW x \in S, r \in G
      PROVE  Append(r, x) \in G
  <2>1. Append(r, x) \in Seq(S)
    OBVIOUS
  <2>2. Sel(r, C) \in Seq(S \cap C)
    BY <1>2
  <2>3. Sel(Append(r, x), C) = IF x \in C THEN Append(Sel(r, C), x) ELSE Sel(r, C)
    BY SelAppend
  <2>4. x \in C => Append(Sel(r, C), x) \in Seq(S \cap C)
    <3>1. PICK q \in Seq(S \cap C) : q = Sel(r, C)
      BY <2>2
    <3> QED
      BY <3>1
  <2>5. Sel(Append(r, x), C) \in Seq(S \cap C)
    BY <2>2, <2>3, <2>4, Zenon
  <2> QED
    BY <2>1, <2>5, Zenon
<1> HIDE DEF G
<1>3. Seq(S) \subseteq G
  BY <1>1, <1>2, SeqInduct
<1> QED
  BY <1>3 DEF G

LEMMA SelConcat ==
  ASSUME NEW S, NEW C, NEW s \in Seq(S), NEW t \in Seq(S)
  PROVE  Sel(s \o t, C) = Sel(s, C) \o Sel(t, C)
<1> DEFINE G == {r \in Seq(S) : Sel(s \o r, C) = Sel(s, C) \o Sel(r, C)}
<1>1. <<>> \in G
  <2>1. <<>> \in Seq(S) /\ s \o <<>> = s
    OBVIOUS
  <2>2. Sel(s, C) \o <<>> = Sel(s, C)
    <3>1. Sel(s, C) \in Seq(S \cap C)
      BY SelTyped
    <3> QED
      BY <3>1
  <2>3. Sel(<<>>, C) = <<>>
    BY SelEmpty, Zenon
  <2> QED
    BY <2>1, <2>2, <2>3, Zenon
<1>2. ASSUME NEW r \in Seq(S), NEW x \in S, r \in G
      PROVE  Append(r, x) \in G
  <2>1. Append(r, x) \in Seq(S) /\ s \o r \in Seq(S) /\ s \o Append(r, x) = Append(s \o r, x)
    OBVIOUS
  <2>2. Sel(s \o r, C) = Sel(s, C) \o Sel(r, C)
    BY <1>2
  <2>3. Sel(Append(r, x), C) = IF x \in C THEN Append(Sel(r, C), x) ELSE Sel(r, C)
    BY SelAppend
  <2>4. Sel(Append(s \o r, x), C)
          = IF x \in C THEN Append(Sel(s \o r, C), x) ELSE Sel(s \o r, C)
    <3>1. PICK u \in Seq(S) : u = s \o r
      BY <2>1
    <3>2. Sel(Append(u, x), C) = IF x \in C THEN Append(Sel(u, C), x) ELSE Sel(u, C)
      BY SelAppend
    <3> QED
      BY <3>1, <3>2, Zenon
  <2>5. Sel(s, C) \in Seq(S \cap C) /\ Sel(r, C) \in Seq(S \cap C)
    BY SelTyped
  <2>6. x \in C => Append(Sel(s, C) \o Sel(r, C), x) = Sel(s, C) \o Append(Sel(r, C), x)
    <3>1. PICK a \in Seq(S), b \in Seq(S) : a = Sel(s, C) /\ b = Sel(r, C)
      BY <2>5
    <3>2. a \o b \in Seq(S) /\ Append(b, x) \in Seq(S) /\ a \o Append(b, x) = Append(a \o b, x)
      OBVIOUS
    <3> QED
      BY <3>1, <3>2, Zenon
  <2>7. Sel(s \o Append(r, x), C) = Sel(s, C) \o Sel(Append(r, x), C)
    BY <2>1, <2>2, <2>3, <2>4, <2>6, Zenon
  <2> QED
    BY <2>1, <2>7
<1> HIDE DEF G
<1>3. Seq(S) \subseteq G
  BY <1>1, <1>2, SeqInduct
<1> QED
  BY <1>3 DEF G

\* All are in the set, or none.
LEMMA SelAll ==
  ASSUME NEW C, NEW s \in Seq(C)
  PROVE  Sel(s, C) = s
<1> DEFINE G == {r \in Seq(C) : Sel(r, C) = r}
<1>1. <<>> \in G
  BY SelEmpty
<1>2. ASSUME NEW r \in Seq(C), NEW x \in C, r \in G
      PROVE  Append(r, x) \in G
  BY <1>2, SelAppend
<1> HIDE DEF G
<1>3. Seq(C) \subseteq G
  BY <1>1, <1>2, SeqInduct
<1> QED
  BY <1>3 DEF G

LEMMA SelNone ==
  ASSUME NEW S, NEW C, S \cap C = {}, NEW s \in Seq(S)
  PROVE  Sel(s, C) = <<>>
<1>1. Sel(s, C) \in Seq(S \cap C)
  BY SelTyped
<1> QED
  BY <1>1

LEMMA SelSel ==
  ASSUME NEW S, NEW C, NEW D, NEW s \in Seq(S)
  PROVE  Sel(Sel(s, D), C) = Sel(s, C \cap D)
<1> DEFINE G == {r \in Seq(S) : Sel(Sel(r, D), C) = Sel(r, C \cap D)}
<1>1. <<>> \in G
  BY SelEmpty
<1>2. ASSUME NEW r \in Seq(S), NEW x \in S, r \in G
      PROVE  Append(r, x) \in G
  <2>1. Append(r, x) \in Seq(S)
    OBVIOUS
  <2>2. Sel(Sel(r, D), C) = Sel(r, C \cap D)
    BY <1>2
  <2>3. Sel(Append(r, x), D) = IF x \in D THEN Append(Sel(r, D), x) ELSE Sel(r, D)
    BY SelAppend
  <2>4. Sel(Append(r, x), C \cap D)
          = IF x \in C \cap D THEN Append(Sel(r, C \cap D), x) ELSE Sel(r, C \cap D)
    BY SelAppend
  <2>5. x \in D => Sel(Append(Sel(r, D), x), C)
                     = IF x \in C THEN Append(Sel(Sel(r, D), C), x) ELSE Sel(Sel(r, D), C)
    <3>1. Sel(r, D) \in Seq(S \cap D)
      BY SelTyped
    <3> QED
      BY <3>1, SelAppend
  <2>6. Sel(Sel(Append(r, x), D), C) = Sel(Append(r, x), C \cap D)
    <3>1. CASE x \notin D
      <4>1. Sel(Append(r, x), D) = Sel(r, D) /\ Sel(Append(r, x), C \cap D) = Sel(r, C \cap D)
        BY <2>3, <2>4, <3>1
      <4> QED
        BY <2>2, <4>1, Zenon
    <3>2. CASE x \in D /\ x \notin C
      <4>1. Sel(Append(r, x), D) = Append(Sel(r, D), x) /\ Sel(Append(r, x), C \cap D) = Sel(r, C \cap D)
        BY <2>3, <2>4, <3>2
      <4> QED
        BY <2>2, <2>5, <3>2, <4>1, Zenon
    <3>3. CASE x \in D /\ x \in C
      <4>1. /\ Sel(Append(r, x), D) = Append(Sel(r, D), x)
            /\ Sel(Append(r, x), C \cap D) = Append(Sel(r, C \cap D), x)
        BY <2>3, <2>4, <3>3
      <4> QED
        BY <2>2, <2>5, <3>3, <4>1, Zenon
    <3> QED
      BY <3>1, <3>2, <3>3
  <2> QED
    BY <2>1, <2>6
<1> HIDE DEF G
<1>3. Seq(S) \subseteq G
  BY <1>1, <1>2, SeqInduct
<1> QED
  BY <1>3 DEF G

\* The head is the first selected, or is not selected.
LEMMA SelTail ==
  ASSUME NEW S, NEW C, NEW s \in Seq(S), s # <<>>
  PROVE  IF Head(s) \in C
         THEN /\ Sel(s, C) # <<>> /\ Head(Sel(s, C)) = Head(s)
              /\ Tail(Sel(s, C)) = Sel(Tail(s), C)
         ELSE Sel(Tail(s), C) = Sel(s, C)
<1>1. PICK h \in S, r \in Seq(S) : h = Head(s) /\ r = Tail(s) /\ s = <<h>> \o r
  <2>1. Head(s) \in S /\ Tail(s) \in Seq(S) /\ s = <<Head(s)>> \o Tail(s)
    OBVIOUS
  <2> QED
    BY <2>1
<1>2. Sel(s, C) = Sel(<<h>>, C) \o Sel(r, C)
  <2>1. <<h>> \in Seq(S)
    OBVIOUS
  <2> QED
    BY <1>1, <2>1, SelConcat
<1>3. Sel(<<h>>, C) = IF h \in C THEN <<h>> ELSE <<>>
  <2>1. <<h>> = Append(<<>>, h) /\ <<>> \in Seq(S)
    OBVIOUS
  <2>2. Sel(Append(<<>>, h), C) = IF h \in C THEN Append(Sel(<<>>, C), h) ELSE Sel(<<>>, C)
    <3>1. PICK e \in Seq(S) : e = <<>>
      BY <2>1
    <3>2. Sel(Append(e, h), C) = IF h \in C THEN Append(Sel(e, C), h) ELSE Sel(e, C)
      BY SelAppend
    <3> QED
      BY <3>1, <3>2
  <2>3. Sel(<<>>, C) = <<>>
    BY SelEmpty, Zenon
  <2> QED
    BY <2>1, <2>2, <2>3, Zenon
<1>4. Sel(r, C) \in Seq(S)
  <2>1. Sel(r, C) \in Seq(S \cap C)
    BY SelTyped
  <2> QED
    BY <2>1
<1>5. CASE h \in C
  <2>1. Sel(s, C) = <<h>> \o Sel(r, C)
    BY <1>2, <1>3, <1>5
  <2> QED
    BY <1>1, <1>4, <1>5, <2>1
<1>6. CASE h \notin C
  <2>1. Sel(s, C) = <<>> \o Sel(r, C)
    BY <1>2, <1>3, <1>6
  <2> QED
    BY <1>1, <1>4, <1>6, <2>1
<1> QED
  BY <1>5, <1>6

-----------------------------------------------------------------------------
(* Type correctness.                                                        *)

LEMMA Constants ==
  /\ MaxChanges \in Nat /\ MaxFaults \in Nat /\ MaxJumps \in Nat /\ MaxJumps >= 2
  /\ \A c \in Configs :
       /\ c.rules \in Seq(ToSet(c.rules)) /\ c.gateways \in Seq(ToSet(c.gateways))
       /\ NPTv6Table(c)[2] \in Nat /\ Accepted(c)
  /\ \A m \in Mappings : m \in Seq(ToSet(m))
  BY MarksAssumption

LEMMA MarkIsAGateway ==
  ASSUME NEW c \in Configs, NEW g, Mark(c, g) # 0
  PROVE  Mark(c, g) \in Nat /\ g \in GatewayNames(c)
<1>1. c.gateways \in Seq(ToSet(c.gateways))
  BY Constants
<1>2. DOMAIN c.gateways \subseteq Nat
  BY <1>1
<1>3. \E k \in DOMAIN c.gateways : c.gateways[k].name = g
  BY Zenon DEF Mark
<1>4. Mark(c, g) = CHOOSE k \in DOMAIN c.gateways : c.gateways[k].name = g
  BY <1>3, Zenon DEF Mark
<1>5. Mark(c, g) \in DOMAIN c.gateways
  BY <1>3, <1>4, Zenon
<1> QED
  BY <1>2, <1>3, <1>5, Zenon DEF GatewayNames

LEMMA ProtocolsTyped ==
  ASSUME NEW r
  PROVE  ProtocolsFor(r) \in Seq({"tcp", "udp"})
<1>1. \A p \in {"tcp", "udp"} : <<p>> \in Seq({"tcp", "udp"})
  OBVIOUS
<1>2. <<"tcp", "udp">> \in Seq({"tcp", "udp"})
  OBVIOUS
<1> QED
  BY <1>1, <1>2, Zenon DEF ProtocolsFor

\* The marks that have the ports of a rule of the family.
OfFamily(c, family) == {r \in MarkRule : \E k \in PortRulesFor(c, family) : r.ports = c.rules[k].ports}

\* The protocols, ports and sources a rule may have.
LEMMA MarkRulesTyped ==
  ASSUME NEW c \in Configs, NEW family, NEW sources,
         \A g \in GatewayNames(c) :
           sources[g] \in Seq({AnySource} \cup UNION {SubnetsIn(m) : m \in Mappings})
  PROVE  MarkRules(c, family, sources) \in Seq(OfFamily(c, family))
<1> DEFINE Own == OfFamily(c, family)
           Source == {AnySource} \cup UNION {SubnetsIn(m) : m \in Mappings}
           Rule(r, j, k) == [proto |-> ProtocolsFor(r)[k], ports |-> r.ports,
                             mark |-> Mark(c, r.gateway), saddr |-> sources[r.gateway][j]]
           Each(r, j) == [k \in DOMAIN ProtocolsFor(r) |-> Rule(r, j, k)]
           Of(r) == IF Mark(c, r.gateway) = 0 THEN <<>>
                    ELSE FlattenSeq([j \in DOMAIN sources[r.gateway] |-> Each(r, j)])
           All == [k \in DOMAIN c.rules |-> IF k \in PortRulesFor(c, family) THEN Of(c.rules[k]) ELSE <<>>]
<1>1. ASSUME NEW n \in PortRulesFor(c, family)
      PROVE  Of(c.rules[n]) \in Seq(Own)
  <2>1. PICK r : r = c.rules[n]
    OBVIOUS
  <2>2. r.ports \in UNION {PortsIn(d) : d \in Configs}
    <3>1. r.ports \in PortsIn(c)
      BY <2>1, Zenon DEF PortsIn, PortRulesFor
    <3> QED
      BY <3>1
  <2>3. CASE Mark(c, r.gateway) = 0
    BY <2>1, <2>3
  <2>4. CASE Mark(c, r.gateway) # 0
    <3>1. Mark(c, r.gateway) \in Nat /\ sources[r.gateway] \in Seq(Source)
      BY <2>4, MarkIsAGateway
    <3>2. PICK q \in Seq(Source) : q = sources[r.gateway]
      BY <3>1
    <3>3. PICK p \in Seq({"tcp", "udp"}) : p = ProtocolsFor(r)
      BY ProtocolsTyped
    <3>4. ASSUME NEW j \in DOMAIN q
          PROVE  Each(r, j) \in Seq(Own)
      <4>1. \A k \in DOMAIN p : Rule(r, j, k) \in Own
        <5>1. q[j] \in Source /\ \A k \in DOMAIN p : p[k] \in {"tcp", "udp"}
          OBVIOUS
        <5>2. \A k \in DOMAIN p : Rule(r, j, k) \in MarkRule /\ Rule(r, j, k).ports = c.rules[n].ports
          BY <2>1, <2>2, <3>1, <3>2, <3>3, <5>1 DEF MarkRule, RuleOf
        <5> HIDE DEF Rule
        <5> QED
          BY <5>2 DEF OfFamily
      <4>2. DOMAIN p = 1..Len(p) /\ Len(p) \in Nat
        OBVIOUS
      <4>3. Each(r, j) = [k \in 1..Len(p) |-> Rule(r, j, k)]
        BY <3>3, <4>2
      <4> HIDE DEF Rule, Each
      <4> QED
        BY <4>1, <4>2, <4>3
    <3>5. DOMAIN q = 1..Len(q) /\ Len(q) \in Nat
      OBVIOUS
    <3> HIDE DEF Each
    <3>6. [j \in DOMAIN q |-> Each(r, j)] \in Seq(Seq(Own))
      BY <3>4, <3>5
    <3>7. FlattenSeq([j \in DOMAIN q |-> Each(r, j)]) \in Seq(Own)
      BY <3>6, FlattenTyped
    <3> QED
      BY <2>1, <2>4, <3>2, <3>7
  <2> QED
    BY <2>3, <2>4
<1>2. c.rules \in Seq(ToSet(c.rules))
  BY Constants
<1>3. DOMAIN c.rules = 1..Len(c.rules) /\ Len(c.rules) \in Nat
  BY <1>2
<1>4. MarkRules(c, family, sources) = FlattenSeq(All)
  BY Zenon DEF MarkRules
<1> HIDE DEF Of, Own
<1>5. All \in Seq(Seq(Own))
  BY <1>1, <1>3
<1> HIDE DEF All
<1>6. MarkRules(c, family, sources) \in Seq(Own)
  BY <1>4, <1>5, FlattenTyped
<1> QED
  BY <1>6 DEF Own

LEMMA DesiredOfFamily ==
  ASSUME NEW c \in Configs
  PROVE  /\ DesiredMarkRules[c] \in Seq(OfFamily(c, "ipv4"))
         /\ \A m \in Mappings : DesiredMarkRules6[c][m] \in Seq(OfFamily(c, "ipv6"))
<1> DEFINE Source == {AnySource} \cup UNION {SubnetsIn(m) : m \in Mappings}
<1>1. DesiredMarkRules[c] \in Seq(OfFamily(c, "ipv4"))
  <2> DEFINE S == [g \in GatewayNames(c) |-> <<AnySource>>]
  <2>1. \A g \in GatewayNames(c) : S[g] \in Seq(Source)
    OBVIOUS
  <2>2. DesiredMarkRules[c] = MarkRules(c, "ipv4", S)
    BY Zenon DEF DesiredMarkRules
  <2> HIDE DEF S
  <2> QED
    BY <2>1, <2>2, MarkRulesTyped
<1>2. ASSUME NEW m \in Mappings
      PROVE  DesiredMarkRules6[c][m] \in Seq(OfFamily(c, "ipv6"))
  <2> DEFINE Own(g) == [k \in DOMAIN m |-> IF m[k][1] = g THEN <<m[k][2]>> ELSE <<>>]
  <2>1. ASSUME NEW g \in GatewayNames(c)
        PROVE  MappedBy(c, m)[g] \in Seq(Source)
    <3>1. m \in Seq(ToSet(m))
      BY Constants
    <3>2. DOMAIN m = 1..Len(m) /\ Len(m) \in Nat
      BY <3>1
    <3>3. \A k \in DOMAIN m : (IF m[k][1] = g THEN <<m[k][2]>> ELSE <<>>) \in Seq(Source)
      <4>1. \A k \in DOMAIN m : m[k][2] \in Source
        <5>1. \A k \in DOMAIN m : m[k][2] \in SubnetsIn(m)
          BY Zenon DEF SubnetsIn
        <5> QED
          BY <5>1
      <4> HIDE DEF Source
      <4> QED
        BY <4>1
    <3>4. Own(g) \in Seq(Seq(Source))
      BY <3>2, <3>3
    <3>5. MappedBy(c, m)[g] = FlattenSeq(Own(g))
      BY Zenon DEF MappedBy
    <3> HIDE DEF Own
    <3> QED
      BY <3>4, <3>5, FlattenTyped
  <2>2. DesiredMarkRules6[c][m] = MarkRules(c, "ipv6", MappedBy(c, m))
    BY Zenon DEF DesiredMarkRules6
  <2> QED
    BY <2>1, <2>2, MarkRulesTyped
<1> QED
  BY <1>1, <1>2

LEMMA DesiredTyped ==
  ASSUME NEW c \in Configs
  PROVE  /\ DesiredMarkRules[c] \in Seq(MarkRule)
         /\ \A m \in Mappings : DesiredMarkRules6[c][m] \in Seq(MarkRule)
<1>1. \A f : Seq(OfFamily(c, f)) \subseteq Seq(MarkRule)
  <2> TAKE f
  <2>1. OfFamily(c, f) \subseteq MarkRule
    BY DEF OfFamily
  <2> HIDE DEF OfFamily
  <2> QED
    BY <2>1
<1> QED
  BY <1>1, DesiredOfFamily, Zenon

\* What a table holds of them.
LEMMA HeldEmpty == Held(<<>>) = <<>>
  BY DEF Held

LEMMA HeldTyped ==
  ASSUME NEW w \in Seq(MarkRule)
  PROVE  Held(w) \in Seq(HeldRule)
<1>1. ASSUME NEW r \in MarkRule
      PROVE  [r EXCEPT !.ports = ToSet(@)] \in HeldRule
  BY DEF MarkRule, HeldRule, RuleOf
<1>2. DOMAIN w = 1..Len(w) /\ Len(w) \in Nat /\ \A k \in DOMAIN w : w[k] \in MarkRule
  OBVIOUS
<1> DEFINE H(k) == [w[k] EXCEPT !.ports = ToSet(@)]
<1>3. \A k \in 1..Len(w) : H(k) \in HeldRule
  BY <1>1, <1>2
<1>4. Held(w) = [k \in 1..Len(w) |-> H(k)]
  BY <1>2 DEF Held
<1> HIDE DEF H
<1> QED
  BY <1>2, <1>3, <1>4

-----------------------------------------------------------------------------
(* What a pass runs on one thing, and how far it has come.                  *)

\* The commands that concern the iptables chain, or the table at t.
Ipt == {c \in Command : c.do \in {"unhook", "flush", "drop", "new", "append", "hook"}}
At(t) == {c \in Command : c.do \in {"delete", "forget", "write", "npt", "learn"} /\ c.at = t}

\* What the chain is to hold, of the backend in use or the other.
Wanted == IF conf.firewall = "iptables" THEN DesiredMarkRules[conf] ELSE <<>>

\* What the iptables chain, in a pass or the cleanup, and the nftables table of a family, are to hold.
ChainWant == IF pc = "run" THEN Wanted ELSE <<>>
TableWant(family) ==
  IF family = "ip6" THEN DesiredMarkRules6[conf][mapped]
  ELSE IF family = "ip" /\ conf.firewall = "nftables" THEN DesiredMarkRules[conf] ELSE <<>>

\* Nothing has gone wrong in this pass.
Sound == ~failed /\ ~disturbed

\* Before command k of the programme of W the jumps that have been taken away are not
\* back, if nothing ever failed.
Unhooked(W, k) ==
  /\ k >= 2 /\ k <= 7 + Len(W) => jumps["OUTPUT"] = 0
  /\ k >= 3 /\ k <= 8 + Len(W) => jumps["PREROUTING"] = 0
  /\ pc = "cleanup" =>
       /\ k >= 4 => jumps["FORWARD"] = 0
       /\ k = 5 /\ chain.there => chain.rules = <<>>
       /\ k = 6 => ~chain.there

\* Before command k the chain is gone, or as much of it has been made, if nothing went
\* wrong in this pass.
Made(W, k) ==
  /\ k = 6 => ~chain.there
  /\ k >= 7 => /\ chain.there
               /\ chain.rules = SubSeq(W, 1, IF k - 7 < Len(W) THEN k - 7 ELSE Len(W))
  /\ k >= 8 + Len(W) /\ k >= 7 => jumps["OUTPUT"] > 0
  /\ k >= 9 + Len(W) /\ k >= 7 => jumps["PREROUTING"] > 0

ChainInv ==
  pc \in {"run", "cleanup"} =>
    \E k \in 1..(Len(IptablesActions(ChainWant)) + 1) :
      /\ Sel(batch, Ipt) = SubSeq(IptablesActions(ChainWant), k, Len(IptablesActions(ChainWant)))
      /\ faults = 0 => Unhooked(ChainWant, k)
      /\ pc = "run" /\ Sound => Made(ChainWant, k)

\* Nothing is run between passes, and no jump is there twice if nothing ever failed.
PhaseInv ==
  /\ pc \in {"idle", "done"} => batch = <<>>
  /\ faults = 0 => /\ \A h \in Hooks : jumps[h] <= 1
                   /\ pc = "done" => ~chain.there

\* The places of tables of ours.
Ours ==
  {<<f, conf.table>> : f \in {"ip", "inet", "ip6"}}
    \cup {<<"ip6", NPTv6Table(conf)>>}
    \cup (IF NdpUplinks(conf) # {} THEN {<<"ip6", NPTv6NdpTable(conf)>>} ELSE {})

\* A command may make a table at one of these only.
Harmless ==
  {c \in Command : c.do \in {"write", "npt", "learn"} => pc = "run" /\ c.at \in Ours}

Has(s, x) == \E k \in DOMAIN s : s[k] = x

\* Tables are at these places only, those still to be deleted when the process stops.
OursInv ==
  /\ batch \in Seq(Harmless)
  /\ faults = 0 =>
       \A t \in Place : table[t].there =>
         /\ t \in Ours
         /\ pc # "done"
         /\ pc = "cleanup" => Has(batch, Delete(t))

Write(t, want) == [do |-> "write", at |-> t, rules |-> want]

\* The table of marks is as wanted.
Marked(t, want) ==
  IF want = <<>> THEN ~table[t].there
  ELSE /\ table[t].there /\ table[t].prerouting = Held(want)
       /\ t[1] = "ip" => table[t].output = Held(want)

\* What a pass runs on it.
TableProgramme(t, want) == IF want = <<>> THEN <<Delete(t)>> ELSE <<Delete(t), Write(t, want)>>

MarkTableInv(t, want) ==
  \/ Sel(batch, At(t)) = TableProgramme(t, want)
  \/ want # <<>> /\ Sel(batch, At(t)) = <<Write(t, want)>> /\ (Sound => ~table[t].there)
  \/ Sel(batch, At(t)) = <<>> /\ (Sound => Marked(t, want))

NptTable   == <<"ip6", NPTv6Table(conf)>>
LearnTable == <<"ip6", NPTv6NdpTable(conf)>>

\* What a pass runs on the other two.
NptCommand   == [do |-> "npt", at |-> NptTable]
LearnCommand == [do |-> IF NdpUplinks(conf) # {} THEN "learn" ELSE "forget", at |-> LearnTable]

\* They are as wanted.
Translates == "npt" \in table[NptTable].holds
Learns     == IF NdpUplinks(conf) # {} THEN "learn" \in table[LearnTable].holds
              ELSE ~table[LearnTable].there

NptInv ==
  \/ Sel(batch, At(NptTable)) = <<NptCommand>>
  \/ Sel(batch, At(NptTable)) = <<>> /\ (Sound => Translates)

LearnInv ==
  \/ Sel(batch, At(LearnTable)) = <<LearnCommand>>
  \/ Sel(batch, At(LearnTable)) = <<>> /\ (Sound => Learns)

TablesInv ==
  pc = "run" =>
    /\ \A f \in {"ip", "inet", "ip6"} : MarkTableInv(<<f, conf.table>>, TableWant(f))
    /\ NPTv6Enabled(conf) => NptInv /\ LearnInv

\* The kernel is as wanted: a pass that finds it so has nothing to do.
ChainIsWanted(W) ==
  IF W = <<>> THEN ~chain.there
  ELSE chain.there /\ chain.rules = W /\ jumps["OUTPUT"] > 0 /\ jumps["PREROUTING"] > 0

TablesAreWanted ==
  /\ \A f \in {"ip", "inet", "ip6"} : Marked(<<f, conf.table>>, TableWant(f))
  /\ NPTv6Enabled(conf) => Translates /\ Learns

SettledInv ==
  settled =>
    /\ TablesAreWanted
    /\ ChainIsWanted(Wanted)
-----------------------------------------------------------------------------
(* Commands.                                                                *)

LEMMA CommandShape ==
  ASSUME NEW c \in Command
  PROVE  /\ c.do \in {"delete", "npt", "learn", "forget", "write",
                      "unhook", "hook", "flush", "drop", "new", "append"}
         /\ c.do \in {"delete", "npt", "learn", "forget", "write"} => c.at \in Place
         /\ c.do = "write" => c.rules \in Seq(MarkRule)
         /\ c.do \in {"unhook", "hook"} => c.hook \in Hooks
         /\ c.do = "append" => c.rule \in MarkRule
  BY DEF Command

LEMMA TableCommands ==
  /\ \A t \in Place :
       /\ Delete(t) \in Command
       /\ \A d \in {"npt", "learn", "forget"} : [do |-> d, at |-> t] \in Command
       /\ \A w \in Seq(MarkRule) : Write(t, w) \in Command
  BY DEF Command, Delete, Write

LEMMA HooksAre == Hooks = {"OUTPUT", "PREROUTING", "FORWARD"} /\ ToSet(iptHooks) = {"OUTPUT", "PREROUTING"}
<1>1. ToSet(<<"OUTPUT", "PREROUTING">>) = {"OUTPUT", "PREROUTING"}
  BY DEF ToSet
<1>2. ToSet(<<"FORWARD">>) = {"FORWARD"}
  BY DEF ToSet
<1> QED
  BY <1>1, <1>2 DEF Hooks, iptHooks, legacyIptHooks

Unhook(h) == [do |-> "unhook", hook |-> h]
Hook(h)   == [do |-> "hook", hook |-> h]
Flush     == [do |-> "flush"]
Drop      == [do |-> "drop"]
New       == [do |-> "new"]
Add(r)    == [do |-> "append", rule |-> r]

LEMMA ChainCommands ==
  /\ Flush \in Ipt /\ Drop \in Ipt /\ New \in Ipt
  /\ \A h \in Hooks : Unhook(h) \in Ipt /\ Hook(h) \in Ipt
  /\ \A r \in MarkRule : Add(r) \in Ipt
  BY DEF Ipt, Command, Unhook, Hook, Flush, Drop, New, Add

LEMMA CleanupIs ==
  /\ CleanupIptables = <<Unhook("OUTPUT"), Unhook("PREROUTING"), Unhook("FORWARD"), Flush, Drop>>
  /\ CleanupIptables \in Seq(Ipt) /\ Len(CleanupIptables) = 5
<1> DEFINE u == [k \in 1..3 |-> [do |-> "unhook", hook |-> (iptHooks \o legacyIptHooks)[k]]]
           a == Unhook("OUTPUT")
           b == Unhook("PREROUTING")
           c == Unhook("FORWARD")
<1>1. PICK s \in Seq({"OUTPUT", "PREROUTING", "FORWARD"}) :
        s = iptHooks \o legacyIptHooks /\ IsJoin(s, iptHooks, legacyIptHooks)
  <2>1. /\ iptHooks \in Seq({"OUTPUT", "PREROUTING", "FORWARD"})
        /\ legacyIptHooks \in Seq({"OUTPUT", "PREROUTING", "FORWARD"})
    BY DEF iptHooks, legacyIptHooks
  <2> QED
    BY <2>1, Joined, Zenon
<1>2. s[1] = "OUTPUT" /\ s[2] = "PREROUTING" /\ s[3] = "FORWARD"
  <2>1. IsJoin(s, iptHooks, legacyIptHooks)
    BY <1>1
  <2> QED
    BY <2>1 DEF IsJoin, iptHooks, legacyIptHooks
<1>3. \A h \in {"OUTPUT", "PREROUTING", "FORWARD"} : Unhook(h) \in Ipt
  BY HooksAre, ChainCommands
<1>4. u = [k \in 1..3 |-> [do |-> "unhook", hook |-> s[k]]]
  BY <1>1
<1>5. u \in Seq(Ipt) /\ Len(u) = 3 /\ u[1] = a /\ u[2] = b /\ u[3] = c
  <2> DEFINE e(k) == Unhook(s[k])
  <2>1. \A k \in 1..3 : e(k) \in Ipt
    BY <1>2, <1>3
  <2>2. u = [k \in 1..3 |-> e(k)]
    BY <1>4, Zenon DEF Unhook
  <2>3. e(1) = a /\ e(2) = b /\ e(3) = c
    BY <1>2
  <2> HIDE DEF e, u
  <2>4. u \in Seq(Ipt) /\ Len(u) = 3 /\ u[1] = e(1) /\ u[2] = e(2) /\ u[3] = e(3)
    BY <2>1, <2>2
  <2> QED
    BY <2>3, <2>4
<1>6. CleanupIptables = u \o <<Flush, Drop>>
  BY Zenon DEF CleanupIptables, Flush, Drop
<1> HIDE DEF u
<1>7. PICK f : f = <<Flush, Drop>>
  OBVIOUS
<1>8. f \in Seq(Ipt) /\ Len(f) = 2 /\ f[1] = Flush /\ f[2] = Drop
  BY <1>7, ChainCommands
<1>9. PICK z \in Seq(Ipt) : z = u \o f /\ IsJoin(z, u, f)
  BY <1>5, <1>8, Joined, Zenon
<1>10. IsJoin(z, u, f)
  BY <1>9
<1>11. Len(z) = 5 /\ z[1] = a /\ z[2] = b /\ z[3] = c /\ z[4] = Flush /\ z[5] = Drop
  BY <1>5, <1>8, <1>10 DEF IsJoin
<1>12. z = <<a, b, c, Flush, Drop>>
  BY <1>11
<1>13. CleanupIptables = z
  BY <1>6, <1>7, <1>9, Zenon
<1> QED
  BY <1>11, <1>12, <1>13, Zenon

\* Building the chain, command by command.
Build(W) ==
  <<New>> \o [k \in DOMAIN W |-> Add(W[k])] \o <<Hook("OUTPUT"), Hook("PREROUTING")>>

LEMMA BuildIs ==
  ASSUME NEW W \in Seq(MarkRule)
  PROVE  /\ Build(W) \in Seq(Ipt) /\ Len(Build(W)) = Len(W) + 3
         /\ Build(W)[1] = New
         /\ \A k \in 1..Len(W) : Build(W)[k + 1] = Add(W[k])
         /\ Build(W)[Len(W) + 2] = Hook("OUTPUT") /\ Build(W)[Len(W) + 3] = Hook("PREROUTING")
<1> DEFINE adds == [k \in DOMAIN W |-> Add(W[k])]
<1>1. Len(W) \in Nat /\ DOMAIN W = 1..Len(W)
  OBVIOUS
<1>2. \A k \in 1..Len(W) : Add(W[k]) \in Ipt
  BY ChainCommands
<1>3. adds \in Seq(Ipt) /\ Len(adds) = Len(W) /\ \A k \in 1..Len(W) : adds[k] = Add(W[k])
  BY <1>1, <1>2
<1> HIDE DEF adds
<1>4. <<New>> \in Seq(Ipt) /\ <<Hook("OUTPUT"), Hook("PREROUTING")>> \in Seq(Ipt)
  BY ChainCommands, HooksAre
<1>5. Build(W) = <<New>> \o adds \o <<Hook("OUTPUT"), Hook("PREROUTING")>>
  BY Zenon DEF Build, adds
<1>6. PICK a \in Seq(Ipt), e \in Seq(Ipt) : a = <<New>> /\ e = <<Hook("OUTPUT"), Hook("PREROUTING")>>
  BY <1>4
<1>7. Len(a) = 1 /\ a[1] = New /\ Len(e) = 2 /\ e[1] = Hook("OUTPUT") /\ e[2] = Hook("PREROUTING")
  BY <1>6
<1>8. PICK b \in Seq(Ipt) : b = a \o adds /\ IsJoin(b, a, adds)
  BY <1>3, Joined, Zenon
<1>9. Len(b) = Len(W) + 1 /\ b[1] = New /\ \A k \in 1..Len(W) : b[k + 1] = Add(W[k])
  <2>1. IsJoin(b, a, adds)
    BY <1>8
  <2>2. PICK n \in Nat, m \in Nat : n = 1 /\ m = Len(W) /\ Len(a) = n /\ Len(adds) = m
    BY <1>1, <1>3, <1>7
  <2>3. /\ Len(b) = n + m
        /\ \A i \in 1..n : b[i] = a[i]
        /\ \A i \in 1..m : b[n + i] = adds[i] /\ b[i + n] = adds[i]
    <3>1. Len(a) = n /\ Len(adds) = m
      BY <2>2
    <3> QED
      BY <2>1, <3>1, JoinedAt
  <2>4. b[1] = New
    BY <1>7, <2>2, <2>3
  <2>5. \A k \in 1..Len(W) : b[k + 1] = Add(W[k])
    BY <1>3, <2>2, <2>3, Zenon
  <2> QED
    BY <1>1, <2>2, <2>3, <2>4, <2>5
<1>10. PICK z \in Seq(Ipt) : z = b \o e /\ IsJoin(z, b, e)
  BY Joined, Zenon
<1>11. /\ Len(z) = Len(W) + 3
       /\ \A k \in 1..(Len(W) + 1) : z[k] = b[k]
       /\ z[Len(W) + 2] = e[1] /\ z[Len(W) + 3] = e[2]
  <2>1. IsJoin(z, b, e)
    BY <1>10
  <2>2. /\ Len(z) = Len(W) + 3
        /\ \A k \in 1..(Len(W) + 1) : z[k] = b[k]
        /\ \A k \in 1..2 : z[Len(W) + 1 + k] = e[k]
    BY <1>1, <1>7, <1>9, <2>1 DEF IsJoin
  <2> QED
    BY <1>1, <2>2
<1>12. Build(W) = z
  BY <1>5, <1>6, <1>8, <1>10, Zenon
<1>13. z[1] = New /\ \A k \in 1..Len(W) : z[k + 1] = Add(W[k])
  BY <1>1, <1>9, <1>11
<1> HIDE DEF Build
<1> QED
  BY <1>7, <1>11, <1>12, <1>13

LEMMA ProgrammeIs ==
  ASSUME NEW W \in Seq(MarkRule)
  PROVE  /\ IptablesActions(W) = CleanupIptables \o (IF W = <<>> THEN <<>> ELSE Build(W))
         /\ IptablesActions(W) \in Seq(Ipt)
         /\ Len(IptablesActions(W)) = IF W = <<>> THEN 5 ELSE Len(W) + 8
         /\ IptablesActions(W)[1] = Unhook("OUTPUT")
         /\ IptablesActions(W)[2] = Unhook("PREROUTING")
         /\ IptablesActions(W)[3] = Unhook("FORWARD")
         /\ IptablesActions(W)[4] = Flush
         /\ IptablesActions(W)[5] = Drop
         /\ W # <<>> =>
              /\ IptablesActions(W)[6] = New
              /\ \A k \in 1..Len(W) : IptablesActions(W)[k + 6] = Add(W[k])
              /\ IptablesActions(W)[Len(W) + 7] = Hook("OUTPUT")
              /\ IptablesActions(W)[Len(W) + 8] = Hook("PREROUTING")
<1> DEFINE hooked == [k \in DOMAIN iptHooks |-> [do |-> "hook", hook |-> iptHooks[k]]]
           rest == IF W = <<>> THEN <<>> ELSE Build(W)
<1>1. hooked = <<Hook("OUTPUT"), Hook("PREROUTING")>>
  BY DEF iptHooks, Hook
<1>2. IptablesActions(W) = CleanupIptables \o rest
  BY <1>1, Zenon DEF IptablesActions, Build, New, Add
<1>3. PICK c \in Seq(Ipt) : c = CleanupIptables
  BY CleanupIs
<1>4. PICK r \in Seq(Ipt) : r = rest
  BY BuildIs
<1>5. c = <<Unhook("OUTPUT"), Unhook("PREROUTING"), Unhook("FORWARD"), Flush, Drop>> /\ Len(c) = 5
  BY <1>3, CleanupIs, Zenon
<1>6. /\ c[1] = Unhook("OUTPUT") /\ c[2] = Unhook("PREROUTING") /\ c[3] = Unhook("FORWARD")
      /\ c[4] = Flush /\ c[5] = Drop
  BY <1>5
<1>7. Len(W) \in Nat /\ Len(r) = IF W = <<>> THEN 0 ELSE Len(W) + 3
  BY <1>4, BuildIs
<1> HIDE DEF rest, hooked
<1>8. PICK p : p = IptablesActions(W)
  OBVIOUS
<1>9. p \in Seq(Ipt) /\ IsJoin(p, c, r)
  <2>1. p = c \o r
    BY <1>2, <1>3, <1>4, <1>8, Zenon
  <2> QED
    BY <2>1, Joined, Zenon
<1>10. /\ p \in Seq(Ipt) /\ Len(p) = 5 + Len(r)
       /\ \A k \in 1..5 : p[k] = c[k]
       /\ \A k \in 1..Len(r) : p[k + 5] = r[k]
  <2>1. PICK n \in Nat, m \in Nat : n = 5 /\ m = Len(r) /\ Len(c) = n
    BY <1>5, <1>7
  <2>2. /\ Len(p) = n + m
        /\ \A i \in 1..n : p[i] = c[i]
        /\ \A i \in 1..m : p[n + i] = r[i] /\ p[i + n] = r[i]
    <3>1. Len(c) = n /\ Len(r) = m
      BY <2>1
    <3> QED
      BY <1>9, <3>1, JoinedAt
  <2> QED
    BY <1>9, <2>1, <2>2, Zenon
<1>11. Len(p) = IF W = <<>> THEN 5 ELSE Len(W) + 8
  BY <1>7, <1>10
<1>12. W # <<>> => /\ p[6] = New
                   /\ \A k \in 1..Len(W) : p[k + 6] = Add(W[k])
                   /\ p[Len(W) + 7] = Hook("OUTPUT")
                   /\ p[Len(W) + 8] = Hook("PREROUTING")
  <2> SUFFICES ASSUME W # <<>>
               PROVE  /\ p[6] = New
                      /\ \A k \in 1..Len(W) : p[k + 6] = Add(W[k])
                      /\ p[Len(W) + 7] = Hook("OUTPUT")
                      /\ p[Len(W) + 8] = Hook("PREROUTING")
    OBVIOUS
  <2>1. r = Build(W) /\ Len(r) = Len(W) + 3
    BY <1>4, <1>7 DEF rest
  <2>2. /\ r[1] = New /\ \A k \in 1..Len(W) : r[k + 1] = Add(W[k])
        /\ r[Len(W) + 2] = Hook("OUTPUT") /\ r[Len(W) + 3] = Hook("PREROUTING")
    BY <2>1, BuildIs
  <2>3. p[6] = r[1] /\ p[Len(W) + 7] = r[Len(W) + 2] /\ p[Len(W) + 8] = r[Len(W) + 3]
    <3>1. 1 \in 1..Len(r) /\ Len(W) + 2 \in 1..Len(r) /\ Len(W) + 3 \in 1..Len(r)
      BY <1>7, <2>1
    <3>2. p[1 + 5] = r[1] /\ p[Len(W) + 2 + 5] = r[Len(W) + 2] /\ p[Len(W) + 3 + 5] = r[Len(W) + 3]
      BY <1>10, <3>1
    <3> QED
      BY <1>7, <3>2
  <2>4. \A k \in 1..Len(W) : p[k + 6] = r[k + 1]
    BY <1>7, <1>10, <2>1
  <2> QED
    BY <2>2, <2>3, <2>4
<1>13. IptablesActions(W) = CleanupIptables \o (IF W = <<>> THEN <<>> ELSE Build(W))
  BY <1>2 DEF rest
<1>14. /\ p[1] = Unhook("OUTPUT") /\ p[2] = Unhook("PREROUTING") /\ p[3] = Unhook("FORWARD")
       /\ p[4] = Flush /\ p[5] = Drop
  BY <1>6, <1>10
<1> QED
  BY <1>8, <1>10, <1>11, <1>12, <1>13, <1>14, Zenon

-----------------------------------------------------------------------------
(* The parts of a pass.                                                     *)

LEMMA Short ==
  \A S : <<>> \in Seq(S) /\ (\A x \in S : <<x>> \in Seq(S)) /\ (\A x, y \in S : <<x, y>> \in Seq(S))
<1> TAKE S
<1>1. <<>> \in Seq(S)
  OBVIOUS
<1>2. \A x \in S : <<x>> \in Seq(S)
  OBVIOUS
<1>3. \A x, y \in S : <<x, y>> \in Seq(S)
  OBVIOUS
<1> QED
  BY <1>1, <1>2, <1>3

LEMMA PlacesOf ==
  ASSUME conf \in Configs
  PROVE  /\ \A f \in {"ip", "inet", "ip6"} : <<f, conf.table>> \in Place
         /\ NptTable \in Place /\ LearnTable \in Place
<1>1. {conf.table, NPTv6Table(conf), NPTv6NdpTable(conf)} \subseteq Name
  BY DEF Name
<1> QED
  BY <1>1 DEF Place, NptTable, LearnTable

LEMMA CleanupNftIs ==
  /\ CleanupNft("ip") = <<Delete(<<"ip", conf.table>>), Delete(<<"inet", conf.table>>)>>
  /\ CleanupNft("ip6") = <<Delete(<<"ip6", conf.table>>)>>
<1>1. Tables("ip") = <<"ip", "inet">> /\ Tables("ip6") = <<"ip6">>
  BY DEF Tables
<1>2. CleanupNft("ip") = [k \in 1..2 |-> Delete(<<<<"ip", "inet">>[k], conf.table>>)]
  BY <1>1 DEF CleanupNft
<1>3. CleanupNft("ip6") = [k \in 1..1 |-> Delete(<<<<"ip6">>[k], conf.table>>)]
  BY <1>1 DEF CleanupNft
<1> QED
  BY <1>2, <1>3

LEMMA NftActionsTyped ==
  ASSUME conf \in Configs, NEW f \in {"ip", "ip6"}, NEW want \in Seq(MarkRule)
  PROVE  CleanupNft(f) \in Seq(Command) /\ NftActions(f, want) \in Seq(Command)
<1>1. CleanupNft(f) \in Seq(Command)
  <2>1. \A g \in {"ip", "inet", "ip6"} : Delete(<<g, conf.table>>) \in Command
    BY PlacesOf, TableCommands, Zenon
  <2>2. CASE f = "ip"
    <3>1. CleanupNft("ip") \in Seq(Command)
      BY <2>1, CleanupNftIs, Short, Zenon
    <3> QED
      BY <2>2, <3>1
  <2>3. CASE f = "ip6"
    <3>1. CleanupNft("ip6") \in Seq(Command)
      BY <2>1, CleanupNftIs, Short, Zenon
    <3> QED
      BY <2>3, <3>1
  <2> QED
    BY <2>2, <2>3
<1>2. Write(<<f, conf.table>>, want) \in Command
  BY PlacesOf, TableCommands, Zenon
<1>3. <<Write(<<f, conf.table>>, want)>> \in Seq(Command)
  BY <1>2, Short, Zenon
<1>4. NftActions(f, want) = CleanupNft(f) \o (IF want = <<>> THEN <<>> ELSE <<Write(<<f, conf.table>>, want)>>)
  BY Zenon DEF NftActions, Write
<1>5. <<>> \in Seq(Command)
  BY Short, Zenon
<1>6. PICK c \in Seq(Command), w \in Seq(Command) :
        /\ c = CleanupNft(f) /\ w = IF want = <<>> THEN <<>> ELSE <<Write(<<f, conf.table>>, want)>>
  BY <1>1, <1>3, <1>5
<1>7. NftActions(f, want) = c \o w
  BY <1>4, <1>6, Zenon
<1> QED
  BY <1>1, <1>7, Joined, Zenon

\* What each resource plans is nothing, or what follows.
LEMMA Pieces ==
  ASSUME conf \in Configs, mapped \in Mappings, NEW u
  PROVE  /\ BackendActions(u)
              \in {<<>>, IF conf.firewall = "nftables" THEN NftActions("ip", DesiredMarkRules[conf])
                         ELSE IptablesActions(DesiredMarkRules[conf])}
         /\ UnusedActions(u)
              \in {<<>>, IF conf.firewall = "nftables" THEN CleanupIptables ELSE CleanupNft("ip")}
         /\ Mangle6Actions(u) \in {<<>>, NftActions("ip6", DesiredMarkRules6[conf][mapped])}
         /\ \E a \in {<<>>, <<NptCommand>>} :
              \E b \in {<<>>, <<LearnCommand>>} :
                NptActions(u) = a \o b
<1>1. BackendActions(u)
        \in {<<>>, IF conf.firewall = "nftables" THEN NftActions("ip", DesiredMarkRules[conf])
                   ELSE IptablesActions(DesiredMarkRules[conf])}
  BY DEF BackendActions
<1>2. UnusedActions(u)
        \in {<<>>, IF conf.firewall = "nftables" THEN CleanupIptables ELSE CleanupNft("ip")}
  BY DEF UnusedActions
<1>3. Mangle6Actions(u) \in {<<>>, NftActions("ip6", DesiredMarkRules6[conf][mapped])}
  BY DEF Mangle6Actions
<1>4. \E a \in {<<>>, <<NptCommand>>} :
        \E b \in {<<>>, <<LearnCommand>>} :
          NptActions(u) = a \o b
  <2>1. PICK e : e = <<>> /\ e \o e = e
    <3>1. <<>> \o <<>> = <<>>
      OBVIOUS
    <3> QED
      BY <3>1, Zenon
  <2> DEFINE n == <<NptCommand>>
             l == <<[do |-> "learn", at |-> LearnTable]>>
             f == <<[do |-> "forget", at |-> LearnTable]>>
             a == IF "npt" \notin Read(NptTable, u).holds THEN n ELSE e
             b == IF NdpUplinks(conf) # {} THEN IF "learn" \notin Read(LearnTable, u).holds THEN l ELSE e
                  ELSE IF Read(LearnTable, u).there THEN f ELSE e
  <2>2. NptActions(u) = IF ~NPTv6Enabled(conf) THEN e ELSE a \o b
    BY <2>1, Zenon DEF NptActions, NptTable, LearnTable, NptCommand
  <2>3. a \in {e, n} /\ b \in {e, IF NdpUplinks(conf) # {} THEN l ELSE f}
    OBVIOUS
  <2>4. (IF NdpUplinks(conf) # {} THEN l ELSE f)
          = <<LearnCommand>>
    BY DEF LearnCommand
  <2> HIDE DEF a, b, n, l, f
  <2>5. \E x \in {e, n} : \E y \in {e, IF NdpUplinks(conf) # {} THEN l ELSE f} : NptActions(u) = x \o y
    BY <2>1, <2>2, <2>3
  <2> QED
    BY <2>1, <2>4, <2>5 DEF n
<1> QED
  BY <1>1, <1>2, <1>3, <1>4

LEMMA PiecesTyped ==
  ASSUME conf \in Configs, mapped \in Mappings, NEW u
  PROVE  /\ BackendActions(u) \in Seq(Command) /\ UnusedActions(u) \in Seq(Command)
         /\ Mangle6Actions(u) \in Seq(Command) /\ NptActions(u) \in Seq(Command)
<1>1. DesiredMarkRules[conf] \in Seq(MarkRule) /\ DesiredMarkRules6[conf][mapped] \in Seq(MarkRule)
  BY DesiredTyped
<1>2. <<>> \in Seq(Command)
  OBVIOUS
<1>3. /\ NftActions("ip", DesiredMarkRules[conf]) \in Seq(Command)
      /\ CleanupNft("ip") \in Seq(Command)
      /\ NftActions("ip6", DesiredMarkRules6[conf][mapped]) \in Seq(Command)
  BY <1>1, NftActionsTyped
<1>4. Ipt \subseteq Command
  BY DEF Ipt
<1>5. IptablesActions(DesiredMarkRules[conf]) \in Seq(Command) /\ CleanupIptables \in Seq(Command)
  <2>1. IptablesActions(DesiredMarkRules[conf]) \in Seq(Ipt) /\ CleanupIptables \in Seq(Ipt)
    BY <1>1, ProgrammeIs, CleanupIs
  <2> QED
    BY <1>4, <2>1
<1>6. BackendActions(u) \in Seq(Command) /\ UnusedActions(u) \in Seq(Command)
  BY <1>2, <1>3, <1>5, Pieces
<1>7. Mangle6Actions(u) \in Seq(Command)
  BY <1>2, <1>3, Pieces
<1>8. NptActions(u) \in Seq(Command)
  <2>1. NptCommand \in Command
    BY PlacesOf, TableCommands DEF NptCommand
  <2>2. LearnCommand \in Command
    BY PlacesOf, TableCommands DEF LearnCommand
  <2>3. PICK a \in {<<>>, <<NptCommand>>},
             b \in {<<>>, <<LearnCommand>>} :
          NptActions(u) = a \o b
    BY Pieces
  <2>4. a \in Seq(Command) /\ b \in Seq(Command)
    BY <2>1, <2>2, <2>3, Short, Zenon
  <2> QED
    BY <2>3, <2>4, Joined, Zenon
<1> QED
  BY <1>6, <1>7, <1>8

\* The commands whose turn is the n-th.
Turns(n) == {c \in Command : Order(c) = n}

LEMMA TurnIs ==
  ASSUME NEW acts \in Seq(Command), NEW n \in 1..3
  PROVE  Turn(acts, n) = Sel(acts, Turns(n)) /\ Turn(acts, n) \in Seq(Command)
<1>1. \A k \in DOMAIN acts : acts[k] \in Command
  OBVIOUS
<1>2. [k \in DOMAIN acts |-> IF Order(acts[k]) = n THEN <<acts[k]>> ELSE <<>>]
        = [k \in DOMAIN acts |-> IF acts[k] \in Turns(n) THEN <<acts[k]>> ELSE <<>>]
  BY <1>1 DEF Turns
<1>3. Turn(acts, n) = Sel(acts, Turns(n))
  BY <1>2, Zenon DEF Turn, Sel
<1>4. Sel(acts, Turns(n)) \in Seq(Command \cap Turns(n))
  BY SelTyped
<1>5. Sel(acts, Turns(n)) \in Seq(Command)
  BY <1>4
<1> QED
  BY <1>3, <1>5

LEMMA OrderedTyped ==
  ASSUME NEW acts \in Seq(Command)
  PROVE  Ordered(acts) \in Seq(Command)
<1>1. Turn(acts, 1) \in Seq(Command) /\ Turn(acts, 2) \in Seq(Command) /\ Turn(acts, 3) \in Seq(Command)
  BY TurnIs
<1> QED
  BY <1>1 DEF Ordered

LEMMA CleanupTyped ==
  ASSUME conf \in Configs
  PROVE  CleanupActions \in Seq(Command)
<1>1. Delete(NptTable) \in Command /\ Delete(LearnTable) \in Command
  BY PlacesOf, TableCommands
<1>2. <<>> \in Seq(MarkRule)
  OBVIOUS
<1>3. CleanupNft("ip") \in Seq(Command) /\ CleanupNft("ip6") \in Seq(Command)
  BY <1>2, NftActionsTyped
<1>4. CleanupIptables \in Seq(Command)
  <2>1. Ipt \subseteq Command /\ CleanupIptables \in Seq(Ipt)
    BY CleanupIs DEF Ipt
  <2> QED
    BY <2>1
<1>5. PICK a \in Seq(Command), b \in Seq(Command) :
        /\ a = <<Delete(NptTable)>>
        /\ b = IF NdpUplinks(conf) # {} THEN <<Delete(LearnTable)>> ELSE <<>>
  BY <1>1, Short, Zenon
<1>6. CleanupActions = CleanupIptables \o CleanupNft("ip") \o CleanupNft("ip6") \o a \o b
  BY <1>5, Zenon DEF CleanupActions, NptTable, LearnTable
<1> QED
  BY <1>3, <1>4, <1>6


\* What a command does, kind by kind.
LEMMA EffectIs ==
  ASSUME NEW c \in Command, Effect(c)
  PROVE  /\ c.do \in {"write", "npt", "learn", "delete", "forget"} =>
              /\ c.at \in Place
              /\ table' = [table EXCEPT ![c.at] = Written(c)]
              /\ chain' = chain /\ jumps' = jumps
         /\ c.do \in {"flush", "new"} =>
              table' = table /\ chain' = [there |-> TRUE, rules |-> <<>>] /\ jumps' = jumps
         /\ c.do = "append" =>
              /\ table' = table /\ jumps' = jumps
              /\ chain' = [there |-> TRUE, rules |-> Append(chain.rules, c.rule)]
         /\ c.do = "drop" => table' = table /\ chain' = NoChain /\ jumps' = jumps
         /\ c.do = "unhook" =>
              table' = table /\ chain' = chain /\ jumps' = [jumps EXCEPT ![c.hook] = @ - 1]
         /\ c.do = "hook" =>
              table' = table /\ chain' = chain /\ jumps' = [jumps EXCEPT ![c.hook] = @ + 1]
<1>1. c.do \in {"write", "npt", "learn", "delete", "forget"} => c.at \in Place
  BY CommandShape
<1> HIDE DEF Written, NoChain
<1> QED
  BY <1>1 DEF Effect

\* A table that is made or replaced is a table.
LEMMA WrittenTyped ==
  ASSUME TypeOK, NEW c \in Command, c.do \in {"write", "npt", "learn", "delete", "forget"}
  PROVE  /\ Written(c) \in Table
         /\ ~Written(c).there => Written(c) = Absent
         /\ Written(c).there <=> c.do \in {"write", "npt", "learn"}
<1>1. c.at \in Place /\ table[c.at] \in Table
  BY CommandShape DEF TypeOK
<1>2. <<>> \in Seq(HeldRule)
  BY Short, Zenon
<1>3. CASE c.do = "write"
  <2>1. PICK T \in Table, r \in Seq(HeldRule) : T = table[c.at] /\ r = Held(c.rules)
    BY <1>1, <1>3, CommandShape, HeldTyped
  <2>2. T.prerouting \o r \in Seq(HeldRule) /\ T.output \o r \in Seq(HeldRule)
    <3>1. T.prerouting \in Seq(HeldRule) /\ T.output \in Seq(HeldRule)
      BY DEF Table
    <3> QED
      BY <3>1, Joined, Zenon
  <2>3. Written(c) = [there |-> TRUE, holds |-> T.holds, prerouting |-> T.prerouting \o r,
                      output |-> IF c.at[1] = "ip" THEN T.output \o r ELSE T.output]
    BY <1>3, <2>1, Zenon DEF Written
  <2>4. T.holds \in SUBSET {"npt", "learn"} /\ T.output \in Seq(HeldRule)
    BY DEF Table
  <2>5. PICK p \in Seq(HeldRule), o \in Seq(HeldRule) :
          /\ p = T.prerouting \o r
          /\ o = IF c.at[1] = "ip" THEN T.output \o r ELSE T.output
    BY <2>2, <2>4, Zenon
  <2>6. Written(c) = [there |-> TRUE, holds |-> T.holds, prerouting |-> p, output |-> o]
    BY <2>3, <2>5, Zenon
  <2> QED
    BY <1>3, <2>4, <2>6 DEF Table
<1>4. CASE c.do \in {"npt", "learn"}
  <2>1. Written(c) = Bare({c.do})
    BY <1>4 DEF Written
  <2> QED
    BY <1>2, <1>4, <2>1 DEF Bare, Table
<1>5. CASE c.do \in {"delete", "forget"}
  <2>1. Written(c) = Absent
    BY <1>5 DEF Written
  <2> QED
    BY <1>2, <1>5, <2>1 DEF Absent, Table
<1> QED
  BY <1>3, <1>4, <1>5

KernelOK ==
  /\ table \in [Place -> Table]
  /\ \A t \in Place : ~table[t].there => table[t] = Absent
  /\ chain \in [there: BOOLEAN, rules: Seq(MarkRule)]
  /\ jumps \in [Hooks -> 0..MaxJumps]
  /\ \A h \in Hooks : jumps[h] > 0 => chain.there

\* A command that the kernel takes leaves it well-formed.
LEMMA EffectTyped ==
  ASSUME TypeOK, NEW c \in Command, ~Refused(c), Effect(c),
         c.do = "hook" => jumps[c.hook] < MaxJumps
  PROVE  KernelOK'
<1>1. KernelOK
  BY DEF TypeOK, KernelOK
<1>2. CASE c.do \in {"write", "npt", "learn", "delete", "forget"}
  <2>1. /\ c.at \in Place /\ table' = [table EXCEPT ![c.at] = Written(c)]
        /\ chain' = chain /\ jumps' = jumps
    BY <1>2, EffectIs
  <2>2. Written(c) \in Table /\ (~Written(c).there => Written(c) = Absent)
    BY <1>2, WrittenTyped
  <2> QED
    BY <1>1, <2>1, <2>2 DEF KernelOK
<1>3. CASE c.do \in {"flush", "new"}
  <2>1. table' = table /\ chain' = [there |-> TRUE, rules |-> <<>>] /\ jumps' = jumps
    BY <1>3, EffectIs
  <2>2. <<>> \in Seq(MarkRule)
    BY Short, Zenon
  <2> QED
    BY <1>1, <2>1, <2>2 DEF KernelOK
<1>4. CASE c.do = "append"
  <2>1. /\ table' = table /\ jumps' = jumps
        /\ chain' = [there |-> TRUE, rules |-> Append(chain.rules, c.rule)]
    BY <1>4, EffectIs
  <2>2. Append(chain.rules, c.rule) \in Seq(MarkRule)
    BY <1>1, <1>4, CommandShape DEF KernelOK
  <2> QED
    BY <1>1, <2>1, <2>2 DEF KernelOK
<1>5. CASE c.do = "drop"
  <2>1. table' = table /\ chain' = NoChain /\ jumps' = jumps
    BY <1>5, EffectIs
  <2>2. \A h \in Hooks : ~(jumps[h] > 0)
    BY <1>5 DEF Refused
  <2>3. <<>> \in Seq(MarkRule)
    BY Short, Zenon
  <2> QED
    BY <1>1, <2>1, <2>2, <2>3 DEF KernelOK, NoChain
<1>6. CASE c.do = "unhook"
  <2>1. table' = table /\ chain' = chain /\ jumps' = [jumps EXCEPT ![c.hook] = @ - 1]
    BY <1>6, EffectIs
  <2>2. c.hook \in Hooks /\ jumps[c.hook] # 0
    BY <1>6, CommandShape DEF Refused
  <2> QED
    BY <1>1, <2>1, <2>2, Constants DEF KernelOK
<1>7. CASE c.do = "hook"
  <2>1. table' = table /\ chain' = chain /\ jumps' = [jumps EXCEPT ![c.hook] = @ + 1]
    BY <1>7, EffectIs
  <2>2. c.hook \in Hooks /\ jumps[c.hook] < MaxJumps /\ chain.there
    BY <1>7, CommandShape DEF Refused
  <2> QED
    BY <1>1, <2>1, <2>2, Constants DEF KernelOK
<1> QED
  BY <1>2, <1>3, <1>4, <1>5, <1>6, <1>7, CommandShape

LEMMA AbsentTyped == Absent \in Table /\ Bare({}) \in Table /\ ~Absent.there /\ Bare({}).there
<1>1. <<>> \in Seq(HeldRule)
  BY Short, Zenon
<1> QED
  BY <1>1 DEF Absent, Bare, Table

LEMMA TypeStarts == Init => TypeOK
<1> SUFFICES ASSUME Init
             PROVE  TypeOK
  OBVIOUS
<1>1. PICK old \in BOOLEAN :
        /\ table = [t \in Place |-> IF old /\ t = <<"inet", conf.table>> THEN Bare({}) ELSE Absent]
        /\ chain = IF old THEN [there |-> TRUE, rules |-> DesiredMarkRules[conf]] ELSE NoChain
        /\ jumps = [h \in Hooks |-> IF old /\ h # "OUTPUT" THEN 1 ELSE 0]
  BY Zenon DEF Init
<1>2. conf \in Configs /\ mapped \in Mappings
  BY DEF Init
<1>3. table \in [Place -> Table] /\ \A t \in Place : ~table[t].there => table[t] = Absent
  BY <1>1, AbsentTyped
<1>4. DesiredMarkRules[conf] \in Seq(MarkRule) /\ <<>> \in Seq(MarkRule)
  BY <1>2, DesiredTyped, Short, Zenon
<1>5. chain \in [there: BOOLEAN, rules: Seq(MarkRule)] /\ (chain.there <=> old)
  BY <1>1, <1>4 DEF NoChain
<1>6. jumps \in [Hooks -> 0..MaxJumps] /\ \A h \in Hooks : jumps[h] > 0 => chain.there
  BY <1>1, <1>5, Constants
<1>7. changes = 0 /\ faults = 0 /\ pc = "idle" /\ batch \in Seq(Command)
      /\ {failed, disturbed, settled} \subseteq BOOLEAN
  BY Short DEF Init
<1> QED
  BY <1>2, <1>3, <1>5, <1>6, <1>7, Constants DEF TypeOK

LEMMA PlanTyped ==
  ASSUME TypeOK, Plan
  PROVE  /\ batch' \in Seq(Command) /\ faults' \in 0..MaxFaults /\ failed' \in BOOLEAN
         /\ faults # 0 => faults' # 0
<1>1. PICK u \in {"nothing", "ip", "inet", "ip6", "chain"} \cup ToSet(iptHooks) :
        /\ IF u = "nothing" THEN failed' = FALSE /\ UNCHANGED faults ELSE Fault("read") /\ failed' = TRUE
        /\ batch' = Ordered(BackendActions(u) \o UnusedActions(u) \o Mangle6Actions(u) \o NptActions(u))
  BY Zenon DEF Plan
<1>2. BackendActions(u) \o UnusedActions(u) \o Mangle6Actions(u) \o NptActions(u) \in Seq(Command)
  <2>1. /\ BackendActions(u) \in Seq(Command) /\ UnusedActions(u) \in Seq(Command)
        /\ Mangle6Actions(u) \in Seq(Command) /\ NptActions(u) \in Seq(Command)
    BY PiecesTyped DEF TypeOK
  <2> QED
    BY <2>1, Joined, Zenon
<1>3. batch' \in Seq(Command)
  BY <1>1, <1>2, OrderedTyped, Zenon
<1>4. CASE u = "nothing"
  BY <1>1, <1>3, <1>4 DEF TypeOK
<1>5. CASE u # "nothing"
  BY <1>1, <1>3, <1>5, Constants DEF TypeOK, Fault
<1> QED
  BY <1>4, <1>5

LEMMA Counted ==
  ASSUME TypeOK, NEW kind
  PROVE  /\ Change(kind) => changes' \in 0..MaxChanges /\ disturbed' = TRUE /\ settled' = FALSE
         /\ Fault(kind) => faults' \in 0..MaxFaults /\ faults' # 0
<1>1. changes \in 0..MaxChanges /\ faults \in 0..MaxFaults /\ MaxChanges \in Nat /\ MaxFaults \in Nat
  BY Constants DEF TypeOK
<1> QED
  BY <1>1 DEF Change, Fault

LEMMA TypeStep == TypeOK /\ [Next]_vars => TypeOK'
<1> SUFFICES ASSUME TypeOK, [Next]_vars
             PROVE  TypeOK'
  OBVIOUS
<1>1. CASE Crash
  <2>1. faults' \in 0..MaxFaults
    BY <1>1, Counted DEF Crash
  <2>2. <<>> \in Seq(Command)
    BY Short, Zenon
  <2> QED
    BY <1>1, <2>1, <2>2 DEF TypeOK, Crash, kernel
<1>2. CASE MappedChanges
  <2>1. changes' \in 0..MaxChanges /\ disturbed' = TRUE /\ settled' = FALSE
    BY <1>2, Counted DEF MappedChanges
  <2> QED
    BY <1>2, <2>1 DEF TypeOK, MappedChanges, kernel
<1>3. CASE NftWiped
  <2>1. table' \in [Place -> Table] /\ \A t \in Place : ~table'[t].there => table'[t] = Absent
    BY <1>3, AbsentTyped DEF NftWiped
  <2>2. changes' \in 0..MaxChanges /\ disturbed' = TRUE /\ settled' = FALSE
    BY <1>3, Counted DEF NftWiped
  <2> QED
    BY <1>3, <2>1, <2>2 DEF TypeOK, NftWiped
<1>4. CASE ChainFlushed
  <2>1. chain' \in [there: BOOLEAN, rules: Seq(MarkRule)] /\ chain'.there = chain.there
    BY <1>4, Short DEF TypeOK, ChainFlushed
  <2>2. changes' \in 0..MaxChanges /\ disturbed' = TRUE /\ settled' = FALSE
    BY <1>4, Counted DEF ChainFlushed
  <2> QED
    BY <1>4, <2>1, <2>2 DEF TypeOK, ChainFlushed
<1>5. CASE \E h \in Hooks : JumpRemoved(h)
  <2>1. PICK h \in Hooks : JumpRemoved(h)
    BY <1>5
  <2>2. jumps' \in [Hooks -> 0..MaxJumps] /\ \A g \in Hooks : jumps'[g] > 0 => chain.there
    BY <2>1, Constants DEF TypeOK, JumpRemoved
  <2>3. changes' \in 0..MaxChanges /\ disturbed' = TRUE /\ settled' = FALSE
    BY <2>1, Counted DEF JumpRemoved
  <2> QED
    BY <2>1, <2>2, <2>3 DEF TypeOK, JumpRemoved
<1>6. CASE Plan
  <2>1. batch' \in Seq(Command) /\ faults' \in 0..MaxFaults /\ failed' \in BOOLEAN
    BY <1>6, PlanTyped
  <2>2. pc' = "run" /\ disturbed' = FALSE /\ UNCHANGED <<conf, mapped, kernel, changes, settled>>
    BY <1>6 DEF Plan
  <2> QED
    BY <2>1, <2>2 DEF TypeOK, kernel
<1>7. CASE Run
  <2>1. PICK c \in Command : c = Head(batch)
    BY <1>7 DEF TypeOK, Run
  <2>2. /\ batch' \in Seq(Command) /\ settled' = FALSE
        /\ UNCHANGED <<conf, mapped, changes, pc, disturbed>>
    BY <1>7 DEF TypeOK, Run
  <2>3. KernelOK
    BY DEF TypeOK, KernelOK
  <2>4. KernelOK' /\ faults' \in 0..MaxFaults /\ failed' \in BOOLEAN
    <3>1. CASE /\ ~Refused(c) /\ Effect(c)
               /\ c.do = "hook" => jumps[c.hook] < MaxJumps
               /\ UNCHANGED <<faults, failed>>
      BY <3>1, EffectTyped DEF TypeOK
    <3>2. CASE /\ Refused(c) /\ failed' = (failed \/ Hinders(c))
               /\ UNCHANGED <<kernel, faults>>
      <4>1. failed' \in BOOLEAN
        BY <3>2 DEF TypeOK, Hinders
      <4> QED
        BY <2>3, <3>2, <4>1 DEF TypeOK, kernel, KernelOK
    <3>3. CASE Fault("command") /\ failed' = TRUE /\ UNCHANGED kernel
      BY <2>3, <3>3, Constants DEF TypeOK, kernel, KernelOK, Fault
    <3> QED
      BY <1>7, <2>1, <3>1, <3>2, <3>3 DEF Run
  <2> QED
    BY <2>2, <2>4 DEF TypeOK, KernelOK
<1>8. CASE PassDone
  BY <1>8 DEF TypeOK, PassDone, kernel, counts
<1>9. CASE Shutdown
  <2>1. batch' \in Seq(Command)
    BY <1>9, CleanupTyped DEF TypeOK, Shutdown
  <2> QED
    BY <1>9, <2>1 DEF TypeOK, Shutdown, kernel, counts
<1>10. CASE CleanupDone
  BY <1>10 DEF TypeOK, CleanupDone, kernel, counts
<1>11. CASE UNCHANGED vars
  BY <1>11 DEF TypeOK, vars, kernel, counts
<1> QED
  BY <1>1, <1>2, <1>3, <1>4, <1>5, <1>6, <1>7, <1>8, <1>9, <1>10, <1>11
     DEF Next, Surroundings, Reconciler

\* The kernel, the configuration and what is still to be run stay what they are, through
\* every crash, fault and change of the surroundings: a table that is not there is empty,
\* and a chain that is jumped to is there.
THEOREM TypeCorrect == Spec => []TypeOK
<1> QED
  BY TypeStarts, TypeStep, PTL DEF Spec

-----------------------------------------------------------------------------
(* What a pass runs on one thing, in the order in which it is planned.      *)

LEMMA NoneBefore == \A S : \A s \in Seq(S) : s \o <<>> = s /\ <<>> \o s = s
  OBVIOUS

LEMMA Pair == \A x, y : <<x>> \o <<y>> = <<x, y>>
<1> TAKE x, y
<1>1. x \in {x, y} /\ y \in {x, y}
  OBVIOUS
<1>2. PICK s \in Seq({x, y}), t \in Seq({x, y}) : s = <<x>> /\ t = <<y>>
  BY <1>1, Short, Zenon
<1>3. PICK z \in Seq({x, y}) : z = s \o t /\ IsJoin(z, s, t)
  BY Joined, Zenon
<1>4. IsJoin(z, s, t)
  BY <1>3
<1>5. Len(z) = 2 /\ z[1] = x /\ z[2] = y
  <2>1. Len(s) = 1 /\ s[1] = x /\ Len(t) = 1 /\ t[1] = y
    BY <1>2
  <2>2. Len(z) = 1 + 1 /\ z[1] = s[1] /\ z[1 + 1] = t[1]
    BY <1>4, <2>1 DEF IsJoin
  <2> QED
    BY <2>1, <2>2
<1>6. z = <<x, y>>
  BY <1>5
<1> QED
  BY <1>2, <1>3, <1>6, Zenon

LEMMA OrderedIs ==
  ASSUME NEW acts \in Seq(Command)
  PROVE  /\ Ordered(acts) = Sel(acts, Turns(1)) \o Sel(acts, Turns(2)) \o Sel(acts, Turns(3))
         /\ Sel(acts, Turns(1)) \in Seq(Command) /\ Sel(acts, Turns(2)) \in Seq(Command)
         /\ Sel(acts, Turns(3)) \in Seq(Command)
<1>1. /\ Turn(acts, 1) = Sel(acts, Turns(1)) /\ Turn(acts, 1) \in Seq(Command)
      /\ Turn(acts, 2) = Sel(acts, Turns(2)) /\ Turn(acts, 2) \in Seq(Command)
      /\ Turn(acts, 3) = Sel(acts, Turns(3)) /\ Turn(acts, 3) \in Seq(Command)
  BY TurnIs
<1> QED
  BY <1>1, Zenon DEF Ordered

\* The order of a selection is the selection of the order.
LEMMA SelOrdered ==
  ASSUME NEW acts \in Seq(Command), NEW C
  PROVE  Sel(Ordered(acts), C) = Ordered(Sel(acts, C)) /\ Sel(acts, C) \in Seq(Command)
<1>1. PICK a \in Seq(Command), b \in Seq(Command), c \in Seq(Command) :
        /\ a = Sel(acts, Turns(1)) /\ b = Sel(acts, Turns(2)) /\ c = Sel(acts, Turns(3))
        /\ Ordered(acts) = a \o b \o c
  BY OrderedIs, Zenon
<1>2. a \o b \in Seq(Command)
  BY Joined, Zenon
<1>3. Sel(a \o b \o c, C) = Sel(a \o b, C) \o Sel(c, C) /\ Sel(a \o b, C) = Sel(a, C) \o Sel(b, C)
  BY <1>2, SelConcat, ZenonT(60)
<1>4. Sel(Ordered(acts), C) = Sel(a, C) \o Sel(b, C) \o Sel(c, C)
  BY <1>1, <1>3, Zenon
<1>5. ASSUME NEW D
      PROVE  Sel(Sel(acts, D), C) = Sel(Sel(acts, C), D)
  <2>1. Sel(Sel(acts, D), C) = Sel(acts, C \cap D)
    BY SelSel
  <2>2. Sel(Sel(acts, C), D) = Sel(acts, D \cap C)
    BY SelSel
  <2>3. C \cap D = D \cap C
    OBVIOUS
  <2> QED
    BY <2>1, <2>2, <2>3, Zenon
<1>6. Sel(acts, C) \in Seq(Command)
  <2>1. Sel(acts, C) \in Seq(Command \cap C)
    BY SelTyped
  <2> QED
    BY <2>1
<1>7. Ordered(Sel(acts, C))
        = Sel(Sel(acts, C), Turns(1)) \o Sel(Sel(acts, C), Turns(2)) \o Sel(Sel(acts, C), Turns(3))
  BY <1>6, OrderedIs, Zenon
<1> QED
  BY <1>1, <1>4, <1>5, <1>6, <1>7, Zenon

LEMMA TurnsApart ==
  /\ Turns(1) \subseteq Command /\ Turns(2) \subseteq Command /\ Turns(3) \subseteq Command
  /\ Turns(1) \cap Turns(2) = {} /\ Turns(1) \cap Turns(3) = {} /\ Turns(2) \cap Turns(3) = {}
  /\ Turns(2) \cap Turns(1) = {} /\ Turns(3) \cap Turns(1) = {} /\ Turns(3) \cap Turns(2) = {}
  BY DEF Turns

\* What is planned in the order of its turns stays in it.
LEMMA OrderedTurns ==
  ASSUME NEW a \in Seq(Turns(1)), NEW b \in Seq(Turns(2)), NEW c \in Seq(Turns(3))
  PROVE  Ordered(a \o b \o c) = a \o b \o c
<1>1. a \in Seq(Command) /\ b \in Seq(Command) /\ c \in Seq(Command)
  BY TurnsApart
<1>2. a \o b \in Seq(Command) /\ a \o b \o c \in Seq(Command)
  BY <1>1, Joined, Zenon
<1>3. \A D : Sel(a \o b \o c, D) = Sel(a, D) \o Sel(b, D) \o Sel(c, D)
  <2> TAKE D
  <2>1. Sel(a \o b \o c, D) = Sel(a \o b, D) \o Sel(c, D) /\ Sel(a \o b, D) = Sel(a, D) \o Sel(b, D)
    BY <1>1, <1>2, SelConcat, ZenonT(60)
  <2> QED
    BY <2>1, Zenon
<1>4. Sel(a, Turns(1)) = a /\ Sel(b, Turns(2)) = b /\ Sel(c, Turns(3)) = c
  BY SelAll, Zenon
<1>5. /\ Sel(a, Turns(2)) = <<>> /\ Sel(a, Turns(3)) = <<>>
      /\ Sel(b, Turns(1)) = <<>> /\ Sel(b, Turns(3)) = <<>>
      /\ Sel(c, Turns(1)) = <<>> /\ Sel(c, Turns(2)) = <<>>
  BY TurnsApart, SelNone, Zenon
<1>6. PICK e \in Seq(Command) : e = <<>>
  BY Short, Zenon
<1>7. a \o e = a /\ e \o b = b /\ b \o e = b /\ e \o e = e /\ e \o c = c
  BY <1>1, <1>6, NoneBefore, Zenon
<1>8. Sel(a \o b \o c, Turns(1)) = a
  BY <1>3, <1>4, <1>5, <1>6, <1>7, Zenon
<1>9. Sel(a \o b \o c, Turns(2)) = b
  BY <1>3, <1>4, <1>5, <1>6, <1>7, Zenon
<1>10. Sel(a \o b \o c, Turns(3)) = c
  BY <1>3, <1>4, <1>5, <1>6, <1>7, Zenon
<1> QED
  BY <1>2, <1>8, <1>9, <1>10, OrderedIs, Zenon

LEMMA OrderedPlain ==
  /\ Ordered(<<>>) = <<>>
  /\ \A x \in Command : Ordered(<<x>>) = <<x>>
  /\ \A x \in Turns(1), y \in Turns(2) : Ordered(<<x, y>>) = <<x, y>>
  /\ \A a \in Seq(Turns(1)), b \in Seq(Turns(2)) : Ordered(a \o b) = a \o b
<1>1. \A a \in Seq(Turns(1)), b \in Seq(Turns(2)) : Ordered(a \o b) = a \o b
  <2> TAKE a \in Seq(Turns(1)), b \in Seq(Turns(2))
  <2>1. PICK e \in Seq(Turns(3)) : e = <<>>
    BY Short, Zenon
  <2>2. a \o b \in Seq(Command)
    <3>1. a \in Seq(Command) /\ b \in Seq(Command)
      BY TurnsApart
    <3> QED
      BY <3>1, Joined, Zenon
  <2>3. a \o b \o e = a \o b
    BY <2>1, <2>2, NoneBefore, Zenon
  <2>4. Ordered(a \o b \o e) = a \o b \o e
    BY OrderedTurns, Zenon
  <2> QED
    BY <2>3, <2>4, Zenon
<1>2. ASSUME NEW a \in Seq(Turns(1))
      PROVE  Ordered(a) = a
  <2>1. PICK e \in Seq(Turns(2)) : e = <<>>
    BY Short, Zenon
  <2>2. Ordered(a \o e) = a \o e
    BY <1>1, Zenon
  <2>3. a \o e = a
    BY <2>1, NoneBefore, Zenon
  <2> QED
    BY <2>2, <2>3, Zenon
<1>3. ASSUME NEW b \in Seq(Turns(2))
      PROVE  Ordered(b) = b
  <2>1. PICK e \in Seq(Turns(1)) : e = <<>>
    BY Short, Zenon
  <2>2. Ordered(e \o b) = e \o b
    BY <1>1, Zenon
  <2>3. e \o b = b
    BY <2>1, NoneBefore, Zenon
  <2> QED
    BY <2>2, <2>3, Zenon
<1>4. ASSUME NEW c \in Seq(Turns(3))
      PROVE  Ordered(c) = c
  <2>1. PICK e \in Seq(Turns(1)), f \in Seq(Turns(2)) : e = <<>> /\ f = <<>>
    BY Short, Zenon
  <2>2. Ordered(e \o f \o c) = e \o f \o c
    BY OrderedTurns, Zenon
  <2>3. e \o f = e
    BY <2>1, NoneBefore, Zenon
  <2>4. e \o c = c
    BY <2>1, NoneBefore, Zenon
  <2> QED
    BY <2>2, <2>3, <2>4, Zenon
<1>5. Ordered(<<>>) = <<>>
  <2>1. <<>> \in Seq(Turns(1))
    BY Short, Zenon
  <2> QED
    BY <1>2, <2>1, Zenon
<1>6. \A x \in Command : Ordered(<<x>>) = <<x>>
  <2> TAKE x \in Command
  <2>1. x \in Turns(1) \/ x \in Turns(2) \/ x \in Turns(3)
    BY DEF Turns, Order
  <2>2. <<x>> \in Seq(Turns(1)) \/ <<x>> \in Seq(Turns(2)) \/ <<x>> \in Seq(Turns(3))
    BY <2>1, Short, Zenon
  <2> QED
    BY <1>2, <1>3, <1>4, <2>2, Zenon
<1>7. \A x \in Turns(1), y \in Turns(2) : Ordered(<<x, y>>) = <<x, y>>
  <2> TAKE x \in Turns(1), y \in Turns(2)
  <2>1. <<x>> \in Seq(Turns(1)) /\ <<y>> \in Seq(Turns(2))
    BY Short, Zenon
  <2>2. <<x>> \o <<y>> = <<x, y>>
    BY Pair, Zenon
  <2> QED
    BY <1>1, <2>1, <2>2, Zenon
<1> QED
  BY <1>1, <1>5, <1>6, <1>7, Zenon

\* What is selected of a command or two.
LEMMA SelFew ==
  ASSUME NEW C
  PROVE  /\ Sel(<<>>, C) = <<>>
         /\ \A x : Sel(<<x>>, C) = IF x \in C THEN <<x>> ELSE <<>>
         /\ \A x, y : Sel(<<x, y>>, C) = (IF x \in C THEN <<x>> ELSE <<>>)
                                           \o (IF y \in C THEN <<y>> ELSE <<>>)
<1>1. Sel(<<>>, C) = <<>>
  BY SelEmpty, Zenon
<1>2. ASSUME NEW x
      PROVE  Sel(<<x>>, C) = IF x \in C THEN <<x>> ELSE <<>>
  <2>1. <<>> \in Seq({x}) /\ <<x>> = Append(<<>>, x) /\ Append(<<>>, x) = <<x>>
    OBVIOUS
  <2>2. PICK e \in Seq({x}) : e = <<>>
    BY <2>1
  <2>3. x \in {x}
    OBVIOUS
  <2>4. Sel(Append(e, x), C) = IF x \in C THEN Append(Sel(e, C), x) ELSE Sel(e, C)
    BY <2>3, SelAppend, ZenonT(60)
  <2>5. Sel(e, C) = e
    BY <1>1, <2>2, Zenon
  <2> QED
    BY <2>1, <2>2, <2>4, <2>5, Zenon
<1>3. ASSUME NEW x, NEW y
      PROVE  Sel(<<x, y>>, C) = (IF x \in C THEN <<x>> ELSE <<>>) \o (IF y \in C THEN <<y>> ELSE <<>>)
  <2>1. PICK a \in Seq({x, y}), b \in Seq({x, y}) : a = <<x>> /\ b = <<y>>
    <3>1. x \in {x, y} /\ y \in {x, y}
      OBVIOUS
    <3> QED
      BY <3>1, Short, Zenon
  <2>2. a \o b = <<x, y>>
    BY <2>1, Pair, Zenon
  <2>3. Sel(a \o b, C) = Sel(a, C) \o Sel(b, C)
    BY SelConcat, Zenon
  <2> QED
    BY <1>2, <2>1, <2>2, <2>3, Zenon
<1> QED
  BY <1>1, <1>2, <1>3, Zenon

\* What a pass runs on one thing is what its four resources plan for it.
LEMMA SelPieces ==
  ASSUME NEW a \in Seq(Command), NEW b \in Seq(Command), NEW m \in Seq(Command), NEW n \in Seq(Command),
         NEW C
  PROVE  Sel(Ordered(a \o b \o m \o n), C) = Ordered(Sel(a, C) \o Sel(b, C) \o Sel(m, C) \o Sel(n, C))
<1>1. PICK ab \in Seq(Command) : ab = a \o b
  BY Joined, Zenon
<1>2. PICK abm \in Seq(Command) : abm = ab \o m
  BY Joined, Zenon
<1>3. PICK all \in Seq(Command) : all = abm \o n
  BY Joined, Zenon
<1>4. Sel(ab, C) = Sel(a, C) \o Sel(b, C)
  BY <1>1, SelConcat, Zenon
<1>5. Sel(abm, C) = Sel(ab, C) \o Sel(m, C)
  BY <1>2, SelConcat, Zenon
<1>6. Sel(all, C) = Sel(abm, C) \o Sel(n, C)
  BY <1>3, SelConcat, ZenonT(60)
<1>7. Sel(Ordered(all), C) = Ordered(Sel(all, C))
  BY SelOrdered, Zenon
<1> QED
  BY <1>1, <1>2, <1>3, <1>4, <1>5, <1>6, <1>7, Zenon

\* Of four resources one concerns it.
LEMMA OnlyPiece ==
  ASSUME NEW S, NEW x \in Seq(S), NEW e, e = <<>>
  PROVE  /\ x \o e \o e \o e = x /\ e \o x \o e \o e = x
         /\ e \o e \o x \o e = x /\ e \o e \o e \o x = x
<1>1. x \o e = x /\ e \o x = x /\ e \o e = e
  <2>1. e \in Seq(S)
    BY Short, Zenon
  <2> QED
    BY <2>1, NoneBefore, Zenon
<1> QED
  BY <1>1, Zenon

-----------------------------------------------------------------------------
(* The iptables chain.                                                      *)

LEMMA Threads ==
  /\ Ipt \subseteq Command
  /\ \A t \in Place : At(t) \subseteq Command /\ Ipt \cap At(t) = {}
  /\ \A t, s \in Place : t # s => At(t) \cap At(s) = {}
  BY DEF Ipt, At

\* Which command is on what, and when it is its turn.
LEMMA CommandsSorted ==
  /\ \A t \in Place :
       /\ Delete(t) \in At(t) \cap Turns(1)
       /\ \A w \in Seq(MarkRule) : Write(t, w) \in At(t) \cap Turns(2)
       /\ \A d \in {"npt", "learn", "forget"} : [do |-> d, at |-> t] \in At(t)
  /\ Flush \in Turns(1) /\ Drop \in Turns(1) /\ New \in Turns(2)
  /\ \A h \in Hooks : Unhook(h) \in Turns(1) /\ Hook(h) \in Turns(2)
  /\ \A r \in MarkRule : Add(r) \in Turns(2)
<1>1. \A t \in Place :
       /\ Delete(t) \in At(t) \cap Turns(1)
       /\ \A w \in Seq(MarkRule) : Write(t, w) \in At(t) \cap Turns(2)
       /\ \A d \in {"npt", "learn", "forget"} : [do |-> d, at |-> t] \in At(t)
  BY TableCommands DEF At, Turns, Order, Delete, Write
<1>2. Flush \in Command /\ Drop \in Command /\ New \in Command
  BY ChainCommands, Threads
<1>3. \A h \in Hooks : Unhook(h) \in Command /\ Hook(h) \in Command
  BY ChainCommands, Threads
<1>4. \A r \in MarkRule : Add(r) \in Command
  BY ChainCommands, Threads
<1>5. Flush \in Turns(1) /\ Drop \in Turns(1) /\ New \in Turns(2)
  BY <1>2 DEF Turns, Order, Flush, Drop, New
<1>6. \A h \in Hooks : Unhook(h) \in Turns(1) /\ Hook(h) \in Turns(2)
  BY <1>3 DEF Turns, Order, Unhook, Hook
<1>7. \A r \in MarkRule : Add(r) \in Turns(2)
  BY <1>4 DEF Turns, Order, Add
<1> QED
  BY <1>1, <1>5, <1>6, <1>7, Zenon

\* The chain's programme is planned in the order in which it is run.
LEMMA ProgrammeOrdered ==
  ASSUME NEW W \in Seq(MarkRule)
  PROVE  Ordered(IptablesActions(W)) = IptablesActions(W)
<1>1. CleanupIptables \in Seq(Turns(1))
  <2>1. PICK c \in Seq(Ipt) : c = CleanupIptables
    BY CleanupIs, Zenon
  <2>2. Len(c) = 5 /\ c[1] = Unhook("OUTPUT") /\ c[2] = Unhook("PREROUTING") /\ c[3] = Unhook("FORWARD")
        /\ c[4] = Flush /\ c[5] = Drop
    <3>1. c = <<Unhook("OUTPUT"), Unhook("PREROUTING"), Unhook("FORWARD"), Flush, Drop>> /\ Len(c) = 5
      BY <2>1, CleanupIs, Zenon
    <3> QED
      BY <3>1
  <2>3. \A k \in 1..Len(c) : c[k] \in Turns(1)
    <3>1. /\ Unhook("OUTPUT") \in Turns(1) /\ Unhook("PREROUTING") \in Turns(1)
          /\ Unhook("FORWARD") \in Turns(1) /\ Flush \in Turns(1) /\ Drop \in Turns(1)
      BY CommandsSorted, HooksAre
    <3> QED
      BY <2>2, <3>1
  <2>4. c \in Seq(Turns(1))
    BY <2>3
  <2> QED
    BY <2>1, <2>4
<1>2. (IF W = <<>> THEN <<>> ELSE Build(W)) \in Seq(Turns(2))
  <2>1. PICK b \in Seq(Ipt) : b = Build(W)
    BY BuildIs
  <2>2. \A k \in 1..Len(b) : b[k] \in Turns(2)
    <3>1. /\ New \in Turns(2) /\ Hook("OUTPUT") \in Turns(2) /\ Hook("PREROUTING") \in Turns(2)
          /\ \A k \in 1..Len(W) : Add(W[k]) \in Turns(2)
      BY CommandsSorted, HooksAre
    <3>2. /\ Len(b) = Len(W) + 3 /\ Len(W) \in Nat /\ b[1] = New
          /\ \A k \in 1..Len(W) : b[k + 1] = Add(W[k])
          /\ b[Len(W) + 2] = Hook("OUTPUT") /\ b[Len(W) + 3] = Hook("PREROUTING")
      BY <2>1, BuildIs
    <3> TAKE k \in 1..Len(b)
    <3>3. CASE k \in 2..(Len(W) + 1)
      <4>1. k - 1 \in 1..Len(W) /\ (k - 1) + 1 = k
        BY <3>2, <3>3
      <4>2. b[k] = Add(W[k - 1])
        BY <3>2, <4>1
      <4> QED
        BY <3>1, <4>1, <4>2
    <3>4. CASE k \notin 2..(Len(W) + 1)
      <4>1. k = 1 \/ k = Len(W) + 2 \/ k = Len(W) + 3
        BY <3>2, <3>4
      <4> QED
        BY <3>1, <3>2, <4>1
    <3> QED
      BY <3>3, <3>4
  <2>3. b \in Seq(Turns(2))
    BY <2>2
  <2>4. <<>> \in Seq(Turns(2))
    BY Short, Zenon
  <2> QED
    BY <2>1, <2>3, <2>4, Zenon
<1>3. IptablesActions(W) = CleanupIptables \o (IF W = <<>> THEN <<>> ELSE Build(W))
  BY ProgrammeIs, Zenon
<1> QED
  BY <1>1, <1>2, <1>3, OrderedPlain, Zenon

\* The rest of a programme: one command less.
LEMMA Rest ==
  ASSUME NEW S, NEW P \in Seq(S), NEW k \in 1..(Len(P) + 1)
  PROVE  /\ SubSeq(P, 1, Len(P)) = P /\ SubSeq(P, Len(P) + 1, Len(P)) = <<>>
         /\ SubSeq(P, k, Len(P)) = <<>> <=> k = Len(P) + 1
         /\ k <= Len(P) => /\ Head(SubSeq(P, k, Len(P))) = P[k]
                           /\ Tail(SubSeq(P, k, Len(P))) = SubSeq(P, k + 1, Len(P))
<1>1. Len(P) \in Nat
  OBVIOUS
<1>2. SubSeq(P, 1, Len(P)) = P
  OBVIOUS
<1>3. SubSeq(P, Len(P) + 1, Len(P)) = <<>>
  OBVIOUS
<1>4. ASSUME k <= Len(P)
      PROVE  /\ SubSeq(P, k, Len(P)) # <<>>
             /\ Head(SubSeq(P, k, Len(P))) = P[k]
             /\ Tail(SubSeq(P, k, Len(P))) = SubSeq(P, k + 1, Len(P))
  <2>1. k \in 1..Len(P) /\ Len(P) \in k..Len(P)
    BY <1>1, <1>4
  <2>2. Head(SubSeq(P, k, Len(P))) = P[k] /\ Tail(SubSeq(P, k, Len(P))) = SubSeq(P, k + 1, Len(P))
    BY <2>1, HeadTailOfSubSeq
  <2>3. Len(SubSeq(P, k, Len(P))) = Len(P) - k + 1
    BY <1>1, <2>1
  <2>4. SubSeq(P, k, Len(P)) # <<>>
    <3>1. Len(SubSeq(P, k, Len(P))) # 0
      BY <1>1, <2>1, <2>3
    <3>2. Len(<<>>) = 0
      OBVIOUS
    <3> QED
      BY <3>1, <3>2, Zenon
  <2> QED
    BY <2>2, <2>4, Zenon
<1> QED
  BY <1>1, <1>2, <1>3, <1>4

\* A command of a thread is the next of that thread, and of no other.
LEMMA ThreadGoesOn ==
  ASSUME TypeOK, Run, NEW C
  PROVE  IF Head(batch) \in C
         THEN /\ Sel(batch, C) # <<>> /\ Head(Sel(batch, C)) = Head(batch)
              /\ Sel(batch', C) = Tail(Sel(batch, C))
         ELSE Sel(batch', C) = Sel(batch, C)
<1>1. batch \in Seq(Command) /\ batch # <<>> /\ batch' = Tail(batch)
  BY DEF TypeOK, Run
<1> QED
  BY <1>1, SelTail, Zenon

\* The commands of the programme, place by place.
LEMMA Programme ==
  ASSUME NEW W \in Seq(MarkRule), NEW k \in 1..Len(IptablesActions(W)), NEW c, c = IptablesActions(W)[k]
  PROVE  \/ k = 1 /\ c.do = "unhook" /\ c.hook = "OUTPUT"
         \/ k = 2 /\ c.do = "unhook" /\ c.hook = "PREROUTING"
         \/ k = 3 /\ c.do = "unhook" /\ c.hook = "FORWARD"
         \/ k = 4 /\ c.do = "flush"
         \/ k = 5 /\ c.do = "drop"
         \/ k = 6 /\ c.do = "new" /\ Len(W) > 0
         \/ k - 6 \in 1..Len(W) /\ c.do = "append" /\ c.rule = W[k - 6] /\ Len(W) > 0
         \/ k = Len(W) + 7 /\ c.do = "hook" /\ c.hook = "OUTPUT" /\ Len(W) > 0
         \/ k = Len(W) + 8 /\ c.do = "hook" /\ c.hook = "PREROUTING" /\ Len(W) > 0
<1>1. Len(W) \in Nat /\ (W = <<>> <=> Len(W) = 0)
  OBVIOUS
<1>2. PICK P : P = IptablesActions(W)
  OBVIOUS
<1>3. /\ Len(P) = IF W = <<>> THEN 5 ELSE Len(W) + 8
      /\ P[1] = Unhook("OUTPUT") /\ P[2] = Unhook("PREROUTING") /\ P[3] = Unhook("FORWARD")
      /\ P[4] = Flush /\ P[5] = Drop
      /\ W # <<>> => /\ P[6] = New
                     /\ \A j \in 1..Len(W) : P[j + 6] = Add(W[j])
                     /\ P[Len(W) + 7] = Hook("OUTPUT") /\ P[Len(W) + 8] = Hook("PREROUTING")
  BY <1>2, ProgrammeIs, Zenon
<1>4. k \in 1..Len(P) /\ c = P[k]
  BY <1>2
<1>5. CASE k \in 1..5
  BY <1>3, <1>4, <1>5 DEF Unhook, Flush, Drop
<1>6. CASE k > 5
  <2>1. W # <<>> /\ Len(W) > 0 /\ k <= Len(W) + 8
    BY <1>1, <1>3, <1>4, <1>6
  <2>2. CASE k = 6
    BY <1>3, <1>4, <2>1, <2>2 DEF New
  <2>3. CASE k - 6 \in 1..Len(W)
    <3>1. k = (k - 6) + 6
      BY <1>4
    <3>2. c = Add(W[k - 6])
      BY <1>3, <1>4, <2>1, <2>3, <3>1
    <3> QED
      BY <2>1, <2>3, <3>2 DEF Add
  <2>4. CASE k = Len(W) + 7 \/ k = Len(W) + 8
    BY <1>3, <1>4, <2>1, <2>4 DEF Hook
  <2> QED
    BY <1>1, <1>6, <2>1, <2>2, <2>3, <2>4
<1> QED
  BY <1>4, <1>5, <1>6

\* Jumps that are taken away stay away until the chain is hooked in again, and then there
\* is one.
LEMMA UnhookedStep ==
  ASSUME TypeOK, NEW W \in Seq(MarkRule), NEW k \in 1..Len(IptablesActions(W)),
         NEW c \in Command, c = IptablesActions(W)[k],
         \A h \in Hooks : jumps[h] <= 1, Unhooked(W, k),
         pc' = pc, pc = "cleanup" => W = <<>>,
         (~Refused(c) /\ Effect(c)) \/ (Refused(c) /\ UNCHANGED kernel)
  PROVE  Unhooked(W, k + 1)' /\ \A h \in Hooks : jumps'[h] <= 1
<1>1. Len(W) \in Nat /\ (W = <<>> <=> Len(W) = 0) /\ k \in Nat
  BY ProgrammeIs
<1>2. /\ jumps \in [Hooks -> Nat] /\ \A h \in Hooks : jumps[h] = 0 \/ jumps[h] = 1
      /\ Hooks = {"OUTPUT", "PREROUTING", "FORWARD"}
  BY HooksAre, Constants DEF TypeOK
<1>3. CASE Refused(c) /\ UNCHANGED kernel
  <2>1. jumps' = jumps /\ chain' = chain
    BY <1>3 DEF kernel
  <2>2. /\ k = 1 => jumps["OUTPUT"] = 0
        /\ k = 2 => jumps["PREROUTING"] = 0
        /\ k = 3 => jumps["FORWARD"] = 0
        /\ k = 4 => ~chain.there
        /\ k = 5 => ~chain.there \/ chain.rules # <<>> \/ \E h \in Hooks : jumps[h] > 0
    BY <1>1, <1>3, Programme DEF Refused
  <2>3. Unhooked(W, k + 1)'
    <3>1. pc = "cleanup" /\ k = 5 => ~chain.there
      BY <1>1, <1>2, <2>2 DEF Unhooked
    <3> QED
      BY <1>1, <2>1, <2>2, <3>1 DEF Unhooked
  <2> QED
    BY <2>1, <2>3
<1>4. CASE ~Refused(c) /\ Effect(c)
  <2>1. CASE c.do = "unhook"
    <3>1. jumps' = [jumps EXCEPT ![c.hook] = @ - 1] /\ chain' = chain /\ jumps[c.hook] # 0 /\ c.hook \in Hooks
      BY <1>4, <2>1, EffectIs, CommandShape DEF Refused
    <3>2. jumps'[c.hook] = 0 /\ \A h \in Hooks \ {c.hook} : jumps'[h] = jumps[h]
      BY <1>2, <3>1
    <3>3. \/ k = 1 /\ c.hook = "OUTPUT"
          \/ k = 2 /\ c.hook = "PREROUTING"
          \/ k = 3 /\ c.hook = "FORWARD"
      BY <2>1, Programme
    <3>4. \A h \in Hooks : jumps'[h] <= 1
      BY <1>2, <3>2
    <3>5. Unhooked(W, k + 1)'
      BY <1>1, <1>2, <3>1, <3>2, <3>3 DEF Unhooked
    <3> QED
      BY <3>4, <3>5
  <2>2. CASE c.do = "flush"
    <3>1. jumps' = jumps /\ chain' = [there |-> TRUE, rules |-> <<>>] /\ k = 4
      BY <1>4, <2>2, EffectIs, Programme
    <3>2. chain'.rules = <<>>
      BY <3>1
    <3> QED
      BY <1>1, <1>2, <3>1, <3>2 DEF Unhooked
  <2>3. CASE c.do = "drop"
    <3>1. jumps' = jumps /\ chain' = NoChain /\ k = 5
      BY <1>4, <2>3, EffectIs, Programme
    <3>2. ~chain'.there
      BY <3>1 DEF NoChain
    <3> QED
      BY <1>1, <1>2, <3>1, <3>2 DEF Unhooked
  <2>4. CASE c.do \in {"new", "append"}
    <3>1. jumps' = jumps /\ k >= 6 /\ k <= Len(W) + 6 /\ Len(W) > 0
      BY <1>1, <1>4, <2>4, EffectIs, Programme
    <3> QED
      BY <1>1, <1>2, <3>1 DEF Unhooked
  <2>5. CASE c.do = "hook"
    <3>1. jumps' = [jumps EXCEPT ![c.hook] = @ + 1] /\ c.hook \in Hooks
      BY <1>4, <2>5, EffectIs, CommandShape
    <3>2. jumps'[c.hook] = jumps[c.hook] + 1 /\ \A h \in Hooks \ {c.hook} : jumps'[h] = jumps[h]
      BY <1>2, <3>1
    <3>3. \/ k = Len(W) + 7 /\ c.hook = "OUTPUT" /\ Len(W) > 0
          \/ k = Len(W) + 8 /\ c.hook = "PREROUTING" /\ Len(W) > 0
      BY <2>5, Programme
    <3>4. jumps[c.hook] = 0
      BY <1>1, <3>3 DEF Unhooked
    <3>5. \A h \in Hooks : jumps'[h] <= 1
      BY <1>2, <3>2, <3>4
    <3>6. Unhooked(W, k + 1)'
      BY <1>1, <1>2, <3>2, <3>3 DEF Unhooked
    <3> QED
      BY <3>5, <3>6
  <2> QED
    BY <2>1, <2>2, <2>3, <2>4, <2>5, Programme
<1> QED
  BY <1>3, <1>4

\* Nothing that is refused is left in the way, and so the chain is made as it is planned.
LEMMA MadeStep ==
  ASSUME TypeOK, NEW W \in Seq(MarkRule), NEW k \in 1..Len(IptablesActions(W)),
         NEW c \in Command, c = IptablesActions(W)[k], Made(W, k),
         (~Refused(c) /\ Effect(c)) \/ (Refused(c) /\ ~Hinders(c) /\ UNCHANGED kernel)
  PROVE  Made(W, k + 1)'
<1> DEFINE n == Len(IptablesActions(W))
<1>0. n = IF W = <<>> THEN 5 ELSE Len(W) + 8
  BY ProgrammeIs, Zenon
<1>1. /\ Len(W) \in Nat /\ k \in Nat /\ (W = <<>> <=> Len(W) = 0)
      /\ k <= n /\ n = IF Len(W) = 0 THEN 5 ELSE Len(W) + 8
  BY <1>0
<1> HIDE DEF n
<1>2. /\ jumps \in [Hooks -> Nat] /\ Hooks = {"OUTPUT", "PREROUTING", "FORWARD"}
      /\ chain.rules \in Seq(MarkRule)
  BY HooksAre, Constants DEF TypeOK
<1>3. CASE k <= 4
  BY <1>1, <1>3 DEF Made
<1>4. CASE k = 5
  <2>1. c.do = "drop"
    BY <1>1, <1>4, Programme
  <2>2. ~chain'.there
    <3>1. CASE Refused(c) /\ ~Hinders(c) /\ UNCHANGED kernel
      BY <2>1, <3>1 DEF Hinders, kernel
    <3>2. CASE ~Refused(c) /\ Effect(c)
      <4>1. chain' = NoChain
        BY <2>1, <3>2, EffectIs
      <4> QED
        BY <4>1 DEF NoChain
    <3> QED
      BY <3>1, <3>2
  <2> QED
    BY <1>1, <1>4, <2>2 DEF Made
<1>5. CASE k = 6
  <2>1. c.do = "new" /\ Len(W) > 0
    BY <1>1, <1>5, Programme
  <2>2. ~Refused(c) /\ Effect(c)
    BY <1>5, <2>1 DEF Made, Refused
  <2>3. chain' = [there |-> TRUE, rules |-> <<>>]
    BY <2>1, <2>2, EffectIs
  <2>4. chain'.there /\ chain'.rules = <<>> /\ SubSeq(W, 1, 0) = <<>>
    BY <2>3
  <2>5. (k + 1) - 7 = 0 /\ 0 < Len(W) /\ k + 1 # 6 /\ ~(k + 1 >= 8 + Len(W)) /\ ~(k + 1 >= 9 + Len(W))
    BY <1>1, <1>5, <2>1
  <2> QED
    BY <1>1, <2>4, <2>5 DEF Made
<1>6. CASE k - 6 \in 1..Len(W)
  <2>1. c.do = "append" /\ c.rule = W[k - 6] /\ Len(W) > 0
    BY <1>1, <1>6, Programme
  <2>2. chain.there /\ chain.rules = SubSeq(W, 1, k - 7)
    BY <1>1, <1>6 DEF Made
  <2>3. ~Refused(c) /\ Effect(c)
    BY <2>1, <2>2 DEF Refused
  <2>4. chain' = [there |-> TRUE, rules |-> Append(chain.rules, c.rule)]
    BY <2>1, <2>3, EffectIs
  <2>5. Append(SubSeq(W, 1, k - 7), W[k - 6]) = SubSeq(W, 1, k - 6)
    <3>1. PICK j \in 1..Len(W) : j = k - 6
      BY <1>6
    <3>2. SubSeq(W, 1, j) = Append(SubSeq(W, 1, j - 1), W[j])
      OBVIOUS
    <3>3. k - 7 = j - 1
      BY <1>1, <3>1
    <3> QED
      BY <3>1, <3>2, <3>3
  <2>6. chain'.there /\ chain'.rules = SubSeq(W, 1, k - 6)
    BY <2>1, <2>2, <2>4, <2>5
  <2>7. /\ (k + 1) - 7 = k - 6 /\ (k - 6 < Len(W) \/ k - 6 = Len(W))
        /\ k + 1 # 6 /\ ~(k + 1 >= 8 + Len(W)) /\ ~(k + 1 >= 9 + Len(W))
    BY <1>1, <1>6
  <2>8. (IF (k + 1) - 7 < Len(W) THEN (k + 1) - 7 ELSE Len(W)) = k - 6
    BY <1>1, <1>6
  <2> QED
    BY <1>1, <2>6, <2>7, <2>8 DEF Made
<1>7. CASE k = Len(W) + 7 \/ k = Len(W) + 8
  <2>1. CASE Len(W) = 0
    <3>1. FALSE
      BY <1>1, <1>7, <2>1
    <3> QED
      BY <3>1
  <2>2. CASE Len(W) > 0
    <3>1. c.do = "hook" /\ c.hook \in Hooks /\ (k = Len(W) + 7 => c.hook = "OUTPUT")
          /\ (k = Len(W) + 8 => c.hook = "PREROUTING")
      BY <1>1, <1>2, <1>7, <2>2, Programme
    <3>2. /\ chain.there
          /\ chain.rules = SubSeq(W, 1, IF k - 7 < Len(W) THEN k - 7 ELSE Len(W))
          /\ k = Len(W) + 8 => jumps["OUTPUT"] > 0
      BY <1>1, <1>7, <2>2 DEF Made
    <3>3. ~Refused(c) /\ Effect(c)
      BY <3>1, <3>2 DEF Refused
    <3>4. chain' = chain /\ jumps' = [jumps EXCEPT ![c.hook] = @ + 1]
      BY <3>1, <3>3, EffectIs
    <3>5. jumps'[c.hook] > 0 /\ (c.hook = "PREROUTING" => jumps'["OUTPUT"] = jumps["OUTPUT"])
      BY <1>2, <3>1, <3>4
    <3>6. /\ (IF k - 7 < Len(W) THEN k - 7 ELSE Len(W)) = Len(W)
          /\ (IF (k + 1) - 7 < Len(W) THEN (k + 1) - 7 ELSE Len(W)) = Len(W)
      BY <1>1, <1>7
    <3>7. k + 1 # 6 /\ k + 1 >= 8 + Len(W) /\ (k + 1 >= 9 + Len(W) <=> k = Len(W) + 8)
      BY <1>1, <1>7, <2>2
    <3>8. jumps'["OUTPUT"] > 0 /\ (k = Len(W) + 8 => jumps'["PREROUTING"] > 0)
      BY <1>7, <3>1, <3>2, <3>5
    <3> QED
      BY <1>1, <3>2, <3>4, <3>6, <3>7, <3>8 DEF Made
  <2> QED
    BY <1>1, <2>1, <2>2
<1>8. k <= 4 \/ k = 5 \/ k = 6 \/ k - 6 \in 1..Len(W) \/ k = Len(W) + 7 \/ k = Len(W) + 8
  BY <1>1
<1> QED
  BY <1>3, <1>4, <1>5, <1>6, <1>7, <1>8

\* Whose tables a family's marks are written to.
OwnOf(f) == IF f = "ip" THEN At(<<"ip", conf.table>>) \cup At(<<"inet", conf.table>>)
            ELSE At(<<"ip6", conf.table>>)

LEMMA NftOwn ==
  ASSUME conf \in Configs, NEW f \in {"ip", "ip6"}, NEW want \in Seq(MarkRule)
  PROVE  CleanupNft(f) \in Seq(OwnOf(f)) /\ NftActions(f, want) \in Seq(OwnOf(f))
<1>1. \A g \in {"ip", "inet", "ip6"} :
        Delete(<<g, conf.table>>) \in At(<<g, conf.table>>)
  BY PlacesOf, CommandsSorted
<1>2. Write(<<f, conf.table>>, want) \in At(<<f, conf.table>>)
  BY PlacesOf, CommandsSorted
<1>3. CleanupNft(f) \in Seq(OwnOf(f))
  <2>1. CASE f = "ip"
    <3>1. /\ Delete(<<"ip", conf.table>>) \in OwnOf("ip")
          /\ Delete(<<"inet", conf.table>>) \in OwnOf("ip")
      BY <1>1 DEF OwnOf
    <3>2. CleanupNft("ip") \in Seq(OwnOf("ip"))
      BY <3>1, CleanupNftIs, Short, Zenon
    <3> QED
      BY <2>1, <3>2
  <2>2. CASE f = "ip6"
    <3>1. Delete(<<"ip6", conf.table>>) \in OwnOf("ip6")
      BY <1>1 DEF OwnOf
    <3>2. CleanupNft("ip6") \in Seq(OwnOf("ip6"))
      BY <3>1, CleanupNftIs, Short, Zenon
    <3> QED
      BY <2>2, <3>2
  <2> QED
    BY <2>1, <2>2
<1>4. Write(<<f, conf.table>>, want) \in OwnOf(f)
  BY <1>2 DEF OwnOf
<1>5. PICK c \in Seq(OwnOf(f)), w \in Seq(OwnOf(f)) :
        /\ c = CleanupNft(f) /\ w = IF want = <<>> THEN <<>> ELSE <<Write(<<f, conf.table>>, want)>>
  BY <1>3, <1>4, Short, Zenon
<1>6. NftActions(f, want) = c \o w
  BY <1>5, Zenon DEF NftActions, Write
<1> QED
  BY <1>3, <1>6, Joined, Zenon

\* What each resource may touch.
LEMMA Resources ==
  ASSUME conf \in Configs, mapped \in Mappings, NEW u
  PROVE  /\ conf.firewall = "nftables" =>
              BackendActions(u) \in Seq(OwnOf("ip")) /\ UnusedActions(u) \in Seq(Ipt)
         /\ conf.firewall # "nftables" =>
              BackendActions(u) \in Seq(Ipt) /\ UnusedActions(u) \in Seq(OwnOf("ip"))
         /\ Mangle6Actions(u) \in Seq(OwnOf("ip6"))
         /\ NptActions(u) \in Seq(At(NptTable) \cup At(LearnTable))
<1>1. PICK w \in Seq(MarkRule), v \in Seq(MarkRule) :
        w = DesiredMarkRules[conf] /\ v = DesiredMarkRules6[conf][mapped]
  BY DesiredTyped
<1>2. \A S : <<>> \in Seq(S)
  BY Short, Zenon
<1>3. /\ NftActions("ip", w) \in Seq(OwnOf("ip")) /\ CleanupNft("ip") \in Seq(OwnOf("ip"))
      /\ NftActions("ip6", v) \in Seq(OwnOf("ip6"))
  BY NftOwn
<1>4. IptablesActions(w) \in Seq(Ipt) /\ CleanupIptables \in Seq(Ipt)
  BY ProgrammeIs, CleanupIs, Zenon
<1>5. /\ BackendActions(u) \in {<<>>, IF conf.firewall = "nftables" THEN NftActions("ip", w)
                                      ELSE IptablesActions(w)}
      /\ UnusedActions(u) \in {<<>>, IF conf.firewall = "nftables" THEN CleanupIptables
                                     ELSE CleanupNft("ip")}
      /\ Mangle6Actions(u) \in {<<>>, NftActions("ip6", v)}
  BY <1>1, Pieces, Zenon
<1>6. NptActions(u) \in Seq(At(NptTable) \cup At(LearnTable))
  <2>1. /\ NptCommand \in At(NptTable)
        /\ LearnCommand \in At(LearnTable)
    BY PlacesOf, CommandsSorted DEF NptCommand, LearnCommand
  <2>2. PICK a \in {<<>>, <<NptCommand>>},
             b \in {<<>>, <<LearnCommand>>} :
          NptActions(u) = a \o b
    BY Pieces, Zenon
  <2>3. /\ NptCommand \in At(NptTable) \cup At(LearnTable)
        /\ LearnCommand
             \in At(NptTable) \cup At(LearnTable)
    BY <2>1, Zenon
  <2>4. a \in Seq(At(NptTable) \cup At(LearnTable)) /\ b \in Seq(At(NptTable) \cup At(LearnTable))
    BY <2>2, <2>3, Short, Zenon
  <2> QED
    BY <2>2, <2>4, Joined, Zenon
<1> QED
  BY <1>2, <1>3, <1>4, <1>5, <1>6, Zenon

\* What a pass runs on one thing, of what its resources plan for it.
LEMMA PlanSelects ==
  ASSUME TypeOK, Plan
  PROVE  \E u : /\ ~failed' \/ faults' = 0 => u = "nothing"
                /\ \A C : Sel(batch', C) = Ordered(Sel(BackendActions(u), C) \o Sel(UnusedActions(u), C)
                                                     \o Sel(Mangle6Actions(u), C) \o Sel(NptActions(u), C))
<1>1. PICK u \in {"nothing", "ip", "inet", "ip6", "chain"} \cup ToSet(iptHooks) :
        /\ IF u = "nothing" THEN failed' = FALSE /\ UNCHANGED faults ELSE Fault("read") /\ failed' = TRUE
        /\ batch' = Ordered(BackendActions(u) \o UnusedActions(u) \o Mangle6Actions(u) \o NptActions(u))
  BY Zenon DEF Plan
<1>2. ~failed' \/ faults' = 0 => u = "nothing"
  BY <1>1, Counted
<1>3. /\ BackendActions(u) \in Seq(Command) /\ UnusedActions(u) \in Seq(Command)
      /\ Mangle6Actions(u) \in Seq(Command) /\ NptActions(u) \in Seq(Command)
  BY PiecesTyped DEF TypeOK
<1>4. \A C : Sel(batch', C) = Ordered(Sel(BackendActions(u), C) \o Sel(UnusedActions(u), C)
                                        \o Sel(Mangle6Actions(u), C) \o Sel(NptActions(u), C))
  <2> TAKE C
  <2>1. Sel(Ordered(BackendActions(u) \o UnusedActions(u) \o Mangle6Actions(u) \o NptActions(u)), C)
          = Ordered(Sel(BackendActions(u), C) \o Sel(UnusedActions(u), C)
                      \o Sel(Mangle6Actions(u), C) \o Sel(NptActions(u), C))
    BY <1>3, SelPieces
  <2> QED
    BY <1>1, <2>1, Zenon
<1> QED
  BY <1>2, <1>4, Zenon

\* The jumps and the chain are found as they are wanted.
LEMMA ChainSettled ==
  ASSUME TypeOK, NEW W
  PROVE  IptablesNeedsRestore(W, "nothing") <=> ~ChainIsWanted(W)
<1>1. \A h \in Hooks : jumps[h] > 0 <=> jumps[h] # 0
  BY Constants DEF TypeOK
<1> QED
  BY <1>1, HooksAre DEF IptablesNeedsRestore, ChainIsWanted

LEMMA Backends == conf \in Configs => conf.firewall \in {"iptables", "nftables"}
  BY Constants DEF Accepted

LEMMA NoWant == IptablesActions(<<>>) = CleanupIptables /\ <<>> \in Seq(MarkRule)
<1>1. <<>> \in Seq(MarkRule)
  BY Short, Zenon
<1>2. IptablesActions(<<>>) = CleanupIptables \o <<>>
  BY Zenon DEF IptablesActions
<1>3. CleanupIptables \o <<>> = CleanupIptables
  BY CleanupIs, NoneBefore, Zenon
<1> QED
  BY <1>1, <1>2, <1>3, Zenon

LEMMA WantedTyped == conf \in Configs => Wanted \in Seq(MarkRule)
  BY DesiredTyped, Short, Zenon DEF Wanted

\* A pass runs the chain's whole programme, or finds it as it is wanted.
LEMMA ChainPlanned ==
  ASSUME TypeOK, Plan
  PROVE  \/ Sel(batch', Ipt) = IptablesActions(Wanted)
         \/ /\ Sel(batch', Ipt) = <<>>
            /\ ~failed' \/ faults' = 0 => ChainIsWanted(Wanted)
<1>1. conf \in Configs /\ mapped \in Mappings
  BY DEF TypeOK
<1>2. PICK u : /\ ~failed' \/ faults' = 0 => u = "nothing"
               /\ \A C : Sel(batch', C) = Ordered(Sel(BackendActions(u), C) \o Sel(UnusedActions(u), C)
                                                    \o Sel(Mangle6Actions(u), C) \o Sel(NptActions(u), C))
  BY PlanSelects
<1>3. /\ OwnOf("ip") \cap Ipt = {} /\ OwnOf("ip6") \cap Ipt = {}
      /\ (At(NptTable) \cup At(LearnTable)) \cap Ipt = {}
  BY <1>1, PlacesOf, Threads DEF OwnOf
<1>4. Sel(Mangle6Actions(u), Ipt) = <<>> /\ Sel(NptActions(u), Ipt) = <<>>
  BY <1>1, <1>3, Resources, SelNone, Zenon
<1>5. \E x \in {<<>>, IptablesActions(Wanted)} :
        /\ Sel(batch', Ipt) = Ordered(x)
        /\ x = <<>> => ~IptablesNeedsRestore(Wanted, u) \/ Sel(batch', Ipt) = IptablesActions(Wanted)
  <2>1. CASE conf.firewall = "nftables"
    <3>1. BackendActions(u) \in Seq(OwnOf("ip")) /\ UnusedActions(u) \in Seq(Ipt)
      BY <1>1, <2>1, Resources, Zenon
    <3>2. Sel(BackendActions(u), Ipt) = <<>> /\ Sel(UnusedActions(u), Ipt) = UnusedActions(u)
      BY <1>3, <3>1, SelNone, SelAll, Zenon
    <3>3. PICK e : e = <<>>
      OBVIOUS
    <3>4. e \o UnusedActions(u) \o e \o e = UnusedActions(u)
      BY <3>1, <3>3, OnlyPiece, Zenon
    <3>5. Sel(batch', Ipt) = Ordered(UnusedActions(u))
      BY <1>2, <1>4, <3>2, <3>3, <3>4, Zenon
    <3>6. Wanted = <<>> /\ IptablesActions(Wanted) = CleanupIptables
      BY <2>1, NoWant DEF Wanted
    <3>7. UnusedActions(u) = IF IptablesNeedsRestore(<<>>, u) THEN CleanupIptables ELSE <<>>
      BY <2>1, Zenon DEF UnusedActions
    <3>8. CleanupIptables # <<>>
      BY CleanupIs
    <3> QED
      BY <3>5, <3>6, <3>7, <3>8, Zenon
  <2>2. CASE conf.firewall # "nftables"
    <3>1. BackendActions(u) \in Seq(Ipt) /\ UnusedActions(u) \in Seq(OwnOf("ip"))
      BY <1>1, <2>2, Resources, Zenon
    <3>2. Sel(UnusedActions(u), Ipt) = <<>> /\ Sel(BackendActions(u), Ipt) = BackendActions(u)
      BY <1>3, <3>1, SelNone, SelAll, Zenon
    <3>3. PICK e : e = <<>>
      OBVIOUS
    <3>4. BackendActions(u) \o e \o e \o e = BackendActions(u)
      BY <3>1, <3>3, OnlyPiece, Zenon
    <3>5. Sel(batch', Ipt) = Ordered(BackendActions(u))
      BY <1>2, <1>4, <3>2, <3>3, <3>4, Zenon
    <3>6. Wanted = DesiredMarkRules[conf]
      BY <1>1, <2>2, Backends DEF Wanted
    <3>7. BackendActions(u) = IF IptablesNeedsRestore(Wanted, u) THEN IptablesActions(Wanted) ELSE <<>>
      BY <2>2, <3>6, Zenon DEF BackendActions
    <3>8. IptablesActions(Wanted) # <<>>
      <4>1. PICK W \in Seq(MarkRule) : W = Wanted
        BY <1>1, WantedTyped
      <4>2. Len(IptablesActions(W)) # 0
        <5>1. Len(IptablesActions(W)) = IF W = <<>> THEN 5 ELSE Len(W) + 8
          BY ProgrammeIs, Zenon
        <5> QED
          BY <5>1
      <4>3. Len(<<>>) = 0
        OBVIOUS
      <4> QED
        BY <4>1, <4>2, <4>3, Zenon
    <3> QED
      BY <3>5, <3>7, <3>8, Zenon
  <2> QED
    BY <2>1, <2>2
<1>6. Ordered(IptablesActions(Wanted)) = IptablesActions(Wanted) /\ Ordered(<<>>) = <<>>
  BY <1>1, WantedTyped, ProgrammeOrdered, OrderedPlain, Zenon
<1>7. ~IptablesNeedsRestore(Wanted, "nothing") => ChainIsWanted(Wanted)
  BY ChainSettled
<1> QED
  BY <1>2, <1>5, <1>6, <1>7, Zenon

\* The jumps and the chain are as far as the programme has come, in every pass and in the
\* cleanup.
LEMMA ChainPlan == TypeOK /\ Plan => ChainInv'
<1> SUFFICES ASSUME TypeOK, Plan
             PROVE  ChainInv'
  OBVIOUS
<1>1. /\ pc' = "run" /\ conf' = conf /\ chain' = chain /\ jumps' = jumps /\ disturbed' = FALSE
      /\ conf \in Configs
  BY DEF Plan, kernel, TypeOK
<1>2. PICK W \in Seq(MarkRule) : W = Wanted
  BY <1>1, WantedTyped
<1>3. ChainWant' = W
  BY <1>1, <1>2 DEF ChainWant, Wanted
<1>4. PICK P \in Seq(Ipt) : P = IptablesActions(W)
  BY ProgrammeIs
<1>5. Len(P) = (IF Len(W) = 0 THEN 5 ELSE Len(W) + 8) /\ Len(W) \in Nat
  <2>1. Len(P) = IF W = <<>> THEN 5 ELSE Len(W) + 8
    BY <1>4, ProgrammeIs, Zenon
  <2> QED
    BY <2>1
<1>6. SUFFICES \E k \in 1..(Len(P) + 1) :
                 /\ Sel(batch', Ipt) = SubSeq(P, k, Len(P))
                 /\ faults' = 0 => Unhooked(W, k)'
                 /\ Sound' => Made(W, k)'
  BY <1>1, <1>3, <1>4, Zenon DEF ChainInv
<1>7. CASE Sel(batch', Ipt) = P
  <2>1. 1 \in 1..(Len(P) + 1) /\ SubSeq(P, 1, Len(P)) = P
    <3>1. SubSeq(P, 1, Len(P)) = P
      BY SubSeqFull, Zenon
    <3>2. Len(P) \in Nat
      OBVIOUS
    <3> QED
      BY <3>1, <3>2
  <2>2. Unhooked(W, 1)' /\ Made(W, 1)'
    BY <1>1, <1>5 DEF Unhooked, Made
  <2> QED
    BY <1>7, <2>1, <2>2
<1>8. CASE Sel(batch', Ipt) = <<>> /\ (~failed' \/ faults' = 0 => ChainIsWanted(W))
  <2>1. PICK k \in 1..(Len(P) + 1) : k = Len(P) + 1
    BY <1>5
  <2>2. SubSeq(P, k, Len(P)) = <<>>
    BY <2>1, Rest
  <2>3. ASSUME ChainIsWanted(W)
        PROVE  Unhooked(W, k)' /\ Made(W, k)'
    <3>1. CASE Len(W) = 0
      <4>1. k = 6 /\ W = <<>>
        BY <1>5, <2>1, <3>1
      <4>2. ~chain.there /\ \A h \in Hooks : jumps[h] = 0
        BY <2>3, <4>1, Constants DEF ChainIsWanted, TypeOK
      <4> QED
        BY <1>1, <3>1, <4>1, <4>2, HooksAre DEF Unhooked, Made
    <3>2. CASE Len(W) # 0
      <4>1. k = Len(W) + 9 /\ W # <<>>
        BY <1>5, <2>1, <3>2
      <4>2. chain.there /\ chain.rules = W /\ jumps["OUTPUT"] > 0 /\ jumps["PREROUTING"] > 0
        BY <2>3, <4>1 DEF ChainIsWanted
      <4>3. /\ SubSeq(W, 1, Len(W)) = W /\ (IF k - 7 < Len(W) THEN k - 7 ELSE Len(W)) = Len(W)
            /\ k # 6 /\ ~(k <= 7 + Len(W)) /\ ~(k <= 8 + Len(W))
        BY <1>5, <4>1
      <4>4. Unhooked(W, k)'
        BY <1>1, <4>3 DEF Unhooked
      <4> QED
        BY <1>1, <4>2, <4>3, <4>4 DEF Made
    <3> QED
      BY <3>1, <3>2
  <2> QED
    BY <1>8, <2>2, <2>3 DEF Sound
<1> QED
  BY <1>2, <1>4, <1>7, <1>8, ChainPlanned

LEMMA RunOutcome ==
  ASSUME TypeOK, Run, NEW c, c = Head(batch)
  PROVE  /\ c \in Command
         /\ (~Refused(c) /\ Effect(c)) \/ UNCHANGED kernel
         /\ UNCHANGED <<conf, mapped, pc, disturbed>> /\ settled' = FALSE
         /\ faults' = 0 => /\ faults = 0
                           /\ (~Refused(c) /\ Effect(c)) \/ (Refused(c) /\ UNCHANGED kernel)
         /\ Sound' => /\ Sound
                      /\ (~Refused(c) /\ Effect(c)) \/ (Refused(c) /\ ~Hinders(c) /\ UNCHANGED kernel)
<1>1. c \in Command
  BY DEF TypeOK, Run
<1>2. UNCHANGED <<conf, mapped, pc, disturbed>> /\ settled' = FALSE
  BY DEF Run
<1>3. CASE ~Refused(c) /\ Effect(c) /\ UNCHANGED <<faults, failed>>
  BY <1>1, <1>2, <1>3 DEF Sound
<1>4. CASE Refused(c) /\ failed' = (failed \/ Hinders(c)) /\ UNCHANGED <<kernel, faults>>
  BY <1>1, <1>2, <1>4 DEF Sound
<1>5. CASE Fault("command") /\ failed' = TRUE /\ UNCHANGED kernel
  <2>1. faults' # 0
    BY <1>5, Counted
  <2> QED
    BY <1>1, <1>2, <1>5, <2>1 DEF Sound
<1> QED
  BY <1>3, <1>4, <1>5, Zenon DEF Run

\* A command that is not on the chain leaves it.
LEMMA ChainUntouched ==
  ASSUME NEW c \in Command, c \notin Ipt, Effect(c) \/ UNCHANGED kernel
  PROVE  chain' = chain /\ jumps' = jumps
<1>1. c.do \in {"write", "npt", "learn", "delete", "forget"}
  BY CommandShape DEF Ipt
<1> QED
  BY <1>1, EffectIs DEF kernel

LEMMA ChainRun ==
  ASSUME TypeOK, PhaseInv, ChainInv, Run, pc \in {"run", "cleanup"}
  PROVE  ChainInv' /\ (faults' = 0 => \A h \in Hooks : jumps'[h] <= 1)
<1>1. PICK c : c = Head(batch)
  OBVIOUS
<1>2. /\ c \in Command
      /\ (~Refused(c) /\ Effect(c)) \/ UNCHANGED kernel
      /\ UNCHANGED <<conf, mapped, pc, disturbed>> /\ settled' = FALSE
      /\ faults' = 0 => /\ faults = 0
                        /\ (~Refused(c) /\ Effect(c)) \/ (Refused(c) /\ UNCHANGED kernel)
      /\ Sound' => /\ Sound
                   /\ (~Refused(c) /\ Effect(c)) \/ (Refused(c) /\ ~Hinders(c) /\ UNCHANGED kernel)
  BY <1>1, RunOutcome
<1>3. PICK W \in Seq(MarkRule) : W = ChainWant
  BY DesiredTyped, Short DEF ChainWant, Wanted, TypeOK
<1>4. ChainWant' = W /\ pc' = pc
  BY <1>2, <1>3 DEF ChainWant, Wanted
<1>5. PICK P \in Seq(Ipt) : P = IptablesActions(W)
  BY ProgrammeIs
<1>6. PICK k \in 1..(Len(P) + 1) :
        /\ Sel(batch, Ipt) = SubSeq(P, k, Len(P))
        /\ faults = 0 => Unhooked(W, k)
        /\ pc = "run" /\ Sound => Made(W, k)
  BY <1>3, <1>5, Zenon DEF ChainInv
<1>7. SUFFICES (\E j \in 1..(Len(P) + 1) :
                  /\ Sel(batch', Ipt) = SubSeq(P, j, Len(P))
                  /\ faults' = 0 => Unhooked(W, j)'
                  /\ pc' = "run" /\ Sound' => Made(W, j)')
                /\ (faults' = 0 => \A h \in Hooks : jumps'[h] <= 1)
  BY <1>4, <1>5, Zenon DEF ChainInv
<1>8. faults = 0 => \A h \in Hooks : jumps[h] <= 1
  BY DEF PhaseInv
<1>9. CASE c \in Ipt
  <2>1. /\ Sel(batch, Ipt) # <<>> /\ Head(Sel(batch, Ipt)) = c
        /\ Sel(batch', Ipt) = Tail(Sel(batch, Ipt))
    BY <1>1, <1>9, ThreadGoesOn
  <2>2. k # Len(P) + 1
    BY <1>6, <2>1, Rest
  <2>3. k \in 1..Len(P) /\ k + 1 \in 1..(Len(P) + 1)
    BY <2>2
  <2>4. c = P[k] /\ Sel(batch', Ipt) = SubSeq(P, k + 1, Len(P))
    BY <1>6, <2>1, <2>3, Rest
  <2>5. faults' = 0 => Unhooked(W, k + 1)' /\ \A h \in Hooks : jumps'[h] <= 1
    <3> SUFFICES ASSUME faults' = 0
                 PROVE  Unhooked(W, k + 1)' /\ \A h \in Hooks : jumps'[h] <= 1
      OBVIOUS
    <3>1. /\ \A h \in Hooks : jumps[h] <= 1
          /\ Unhooked(W, k)
          /\ (~Refused(c) /\ Effect(c)) \/ (Refused(c) /\ UNCHANGED kernel)
      BY <1>2, <1>6, <1>8
    <3>2. pc = "cleanup" => W = <<>>
      BY <1>3 DEF ChainWant, Wanted
    <3>3. k \in 1..Len(IptablesActions(W)) /\ c = IptablesActions(W)[k]
      BY <1>5, <2>3, <2>4
    <3> HIDE DEF Unhooked
    <3> QED
      BY <1>2, <1>4, <3>1, <3>2, <3>3, UnhookedStep
  <2>6. pc' = "run" /\ Sound' => Made(W, k + 1)'
    <3> SUFFICES ASSUME pc' = "run", Sound'
                 PROVE  Made(W, k + 1)'
      OBVIOUS
    <3>1. /\ Made(W, k)
          /\ (~Refused(c) /\ Effect(c)) \/ (Refused(c) /\ ~Hinders(c) /\ UNCHANGED kernel)
      BY <1>2, <1>4, <1>6
    <3>2. k \in 1..Len(IptablesActions(W)) /\ c = IptablesActions(W)[k]
      BY <1>5, <2>3, <2>4
    <3> QED
      BY <1>2, <3>1, <3>2, MadeStep
  <2> QED
    BY <2>3, <2>4, <2>5, <2>6
<1>10. CASE c \notin Ipt
  <2>1. Sel(batch', Ipt) = Sel(batch, Ipt)
    BY <1>1, <1>10, ThreadGoesOn
  <2>2. chain' = chain /\ jumps' = jumps
    BY <1>2, <1>10, ChainUntouched
  <2>3. faults' = 0 => faults = 0
    BY <1>2
  <2>4. faults' = 0 => Unhooked(W, k)'
    BY <1>4, <1>6, <2>2, <2>3 DEF Unhooked
  <2>5. pc' = "run" /\ Sound' => Made(W, k)'
    BY <1>2, <1>4, <1>6, <2>2 DEF Made
  <2> QED
    BY <1>6, <1>8, <2>1, <2>2, <2>3, <2>4, <2>5
<1> QED
  BY <1>9, <1>10

LEMMA ShutdownSelects ==
  ASSUME conf \in Configs
  PROVE  Sel(CleanupActions, Ipt) = CleanupIptables
<1>1. PICK i \in Seq(Ipt), p \in Seq(OwnOf("ip")), q \in Seq(OwnOf("ip6")) :
        i = CleanupIptables /\ p = CleanupNft("ip") /\ q = CleanupNft("ip6")
  <2>1. <<>> \in Seq(MarkRule)
    BY Short, Zenon
  <2>2. CleanupIptables \in Seq(Ipt)
    BY CleanupIs, Zenon
  <2>3. CleanupNft("ip") \in Seq(OwnOf("ip")) /\ CleanupNft("ip6") \in Seq(OwnOf("ip6"))
    BY <2>1, NftOwn
  <2> QED
    BY <2>2, <2>3
<1>2. /\ NptTable \in Place /\ LearnTable \in Place
      /\ Delete(NptTable) \in At(NptTable) /\ Delete(LearnTable) \in At(LearnTable)
  BY PlacesOf, CommandsSorted
<1>3. PICK a \in Seq(At(NptTable)), b \in Seq(At(LearnTable)) :
        /\ a = <<Delete(NptTable)>>
        /\ b = IF NdpUplinks(conf) # {} THEN <<Delete(LearnTable)>> ELSE <<>>
  BY <1>2, Short, Zenon
<1>4. CleanupActions = i \o p \o q \o a \o b
  BY <1>1, <1>3, Zenon DEF CleanupActions, NptTable, LearnTable
<1>5. /\ OwnOf("ip") \subseteq Command /\ OwnOf("ip6") \subseteq Command
      /\ OwnOf("ip") \cap Ipt = {} /\ OwnOf("ip6") \cap Ipt = {}
      /\ At(NptTable) \cap Ipt = {} /\ At(LearnTable) \cap Ipt = {}
      /\ At(NptTable) \subseteq Command /\ At(LearnTable) \subseteq Command
  BY PlacesOf, Threads DEF OwnOf
<1>6. /\ i \in Seq(Command) /\ p \in Seq(Command) /\ q \in Seq(Command)
      /\ a \in Seq(Command) /\ b \in Seq(Command)
  BY <1>5, Threads
<1>7. PICK x \in Seq(Command) : x = i \o p
  BY <1>6, Joined, Zenon
<1>8. PICK y \in Seq(Command) : y = x \o q
  BY <1>6, Joined, Zenon
<1>9. PICK z \in Seq(Command) : z = y \o a
  BY <1>6, Joined, Zenon
<1>10. Sel(x, Ipt) = Sel(i, Ipt) \o Sel(p, Ipt) /\ Sel(y, Ipt) = Sel(x, Ipt) \o Sel(q, Ipt)
  BY <1>6, <1>7, <1>8, SelConcat, ZenonT(60)
<1>11. Sel(z, Ipt) = Sel(y, Ipt) \o Sel(a, Ipt) /\ Sel(z \o b, Ipt) = Sel(z, Ipt) \o Sel(b, Ipt)
  BY <1>6, <1>9, SelConcat, ZenonT(60)
<1>12. PICK e : e = <<>>
  OBVIOUS
<1>13. /\ Sel(i, Ipt) = i /\ Sel(p, Ipt) = e /\ Sel(q, Ipt) = e
       /\ Sel(a, Ipt) = e /\ Sel(b, Ipt) = e
  BY <1>5, <1>12, SelAll, SelNone, Zenon
<1>14. i \o e = i
  BY <1>12, NoneBefore, Zenon
<1>15. CleanupActions = z \o b
  BY <1>4, <1>7, <1>8, <1>9, Zenon
<1> QED
  BY <1>1, <1>10, <1>11, <1>13, <1>14, <1>15, Zenon

LEMMA ChainStarts == Init => PhaseInv /\ ChainInv
<1> SUFFICES ASSUME Init
             PROVE  PhaseInv /\ ChainInv
  OBVIOUS
<1>1. PICK old \in BOOLEAN : jumps = [h \in Hooks |-> IF old /\ h # "OUTPUT" THEN 1 ELSE 0]
  BY Zenon DEF Init
<1>2. \A h \in Hooks : jumps[h] <= 1
  BY <1>1
<1>3. pc = "idle" /\ batch = <<>>
  BY DEF Init
<1> QED
  BY <1>2, <1>3 DEF PhaseInv, ChainInv

\* What others do to the chain undoes nothing that the programme has done.
LEMMA ChainSurroundings ==
  ASSUME TypeOK, PhaseInv, ChainInv, Surroundings
  PROVE  PhaseInv' /\ ChainInv'
<1>1. CASE Crash
  <2>1. pc' = "idle" /\ batch' = <<>> /\ faults' # 0
    BY <1>1, Counted DEF Crash
  <2> QED
    BY <2>1 DEF PhaseInv, ChainInv
<1>2. CASE MappedChanges
  <2>1. pc' = "idle" /\ pc = "idle" /\ batch' = batch /\ jumps' = jumps /\ chain' = chain /\ faults' = faults
    BY <1>2 DEF MappedChanges, kernel
  <2> QED
    BY <2>1 DEF PhaseInv, ChainInv
<1>3. CASE NftWiped \/ ChainFlushed \/ \E h \in Hooks : JumpRemoved(h)
  <2>1. /\ disturbed' = TRUE /\ pc' = pc /\ batch' = batch /\ faults' = faults /\ conf' = conf
        /\ chain'.there = chain.there /\ (chain'.rules = chain.rules \/ chain'.rules = <<>>)
        /\ \A h \in Hooks : /\ jumps[h] \in Nat
                            /\ jumps[h] <= 1 => jumps'[h] <= 1
                            /\ jumps[h] = 0 => jumps'[h] = 0
    <3>0. \A h \in Hooks : jumps[h] \in Nat
      BY Constants DEF TypeOK
    <3>1. CASE NftWiped
      BY <3>0, <3>1 DEF NftWiped, Change
    <3>2. CASE ChainFlushed
      <4>1. chain'.there = chain.there /\ chain'.rules = <<>>
        BY <3>2 DEF ChainFlushed
      <4> QED
        BY <3>0, <3>2, <4>1 DEF ChainFlushed, Change
    <3>3. CASE \E h \in Hooks : JumpRemoved(h)
      <4>1. PICK h \in Hooks : JumpRemoved(h)
        BY <3>3
      <4>2. jumps[h] > 0 /\ jumps' = [jumps EXCEPT ![h] = @ - 1] /\ jumps \in [Hooks -> 0..MaxJumps]
        BY <4>1 DEF JumpRemoved, TypeOK
      <4>3. \A g \in Hooks : /\ jumps[g] <= 1 => jumps'[g] <= 1
                             /\ jumps[g] = 0 => jumps'[g] = 0
        BY <3>0, <4>2
      <4> QED
        BY <3>0, <4>1, <4>3 DEF JumpRemoved, Change
    <3> QED
      BY <1>3, <3>1, <3>2, <3>3
  <2>2. PhaseInv'
    BY <2>1 DEF PhaseInv
  <2>3. ChainInv'
    <3> SUFFICES ASSUME pc \in {"run", "cleanup"}
                 PROVE  ChainInv'
      BY <2>1 DEF ChainInv
    <3>1. PICK W : W = ChainWant
      OBVIOUS
    <3>2. ChainWant' = W
      BY <2>1, <3>1 DEF ChainWant, Wanted
    <3>3. PICK k \in 1..(Len(IptablesActions(W)) + 1) :
            /\ Sel(batch, Ipt) = SubSeq(IptablesActions(W), k, Len(IptablesActions(W)))
            /\ faults = 0 => Unhooked(W, k)
      BY <3>1, Zenon DEF ChainInv
    <3>4. faults = 0 => Unhooked(W, k)'
      <4>1. Hooks = {"OUTPUT", "PREROUTING", "FORWARD"}
        BY HooksAre
      <4> QED
        BY <2>1, <3>3, <4>1 DEF Unhooked
    <3>5. ~Sound'
      BY <2>1 DEF Sound
    <3> QED
      BY <2>1, <3>2, <3>3, <3>4, <3>5, Zenon DEF ChainInv
  <2> QED
    BY <2>2, <2>3
<1> QED
  BY <1>1, <1>2, <1>3 DEF Surroundings

\* When the cleanup has come to its end the chain is gone, if nothing ever failed.
LEMMA ChainIsGone ==
  ASSUME TypeOK, ChainInv, pc = "cleanup", batch = <<>>, faults = 0
  PROVE  ~chain.there
<1>1. ChainWant = <<>>
  BY DEF ChainWant, Wanted
<1>2. PICK P \in Seq(Ipt) : P = IptablesActions(<<>>) /\ Len(P) = 5
  BY NoWant, CleanupIs, Zenon
<1>3. PICK k \in 1..(Len(P) + 1) :
        Sel(batch, Ipt) = SubSeq(P, k, Len(P)) /\ Unhooked(<<>>, k)
  BY <1>1, <1>2, Zenon DEF ChainInv
<1>4. Sel(batch, Ipt) = <<>>
  BY SelEmpty, Zenon
<1>5. k = Len(P) + 1
  BY <1>3, <1>4, Rest
<1>6. k = 6
  BY <1>2, <1>5
<1> QED
  BY <1>3, <1>6 DEF Unhooked

LEMMA ChainStep == TypeOK /\ PhaseInv /\ ChainInv /\ [Next]_vars => PhaseInv' /\ ChainInv'
<1> SUFFICES ASSUME TypeOK, PhaseInv, ChainInv, [Next]_vars
             PROVE  PhaseInv' /\ ChainInv'
  OBVIOUS
<1>1. CASE Surroundings
  BY <1>1, ChainSurroundings
<1>2. CASE Plan
  <2>1. pc' = "run" /\ jumps' = jumps
    BY <1>2 DEF Plan, kernel
  <2>2. faults' = 0 => faults = 0
    BY <1>2, PlanTyped
  <2>3. PhaseInv'
    BY <2>1, <2>2 DEF PhaseInv
  <2> QED
    BY <1>2, <2>3, ChainPlan
<1>3. CASE Run
  <2>1. pc \in {"run", "cleanup"}
    BY <1>3 DEF TypeOK, PhaseInv, Run
  <2>2. pc' = pc
    BY <1>3 DEF Run
  <2>3. ChainInv' /\ (faults' = 0 => \A h \in Hooks : jumps'[h] <= 1)
    BY <1>3, <2>1, ChainRun
  <2> QED
    BY <2>1, <2>2, <2>3 DEF PhaseInv
<1>4. CASE PassDone
  BY <1>4 DEF PassDone, PhaseInv, ChainInv, kernel, counts
<1>5. CASE Shutdown
  <2>1. pc' = "cleanup" /\ batch' = CleanupActions /\ jumps' = jumps /\ chain' = chain /\ faults' = faults
    BY <1>5 DEF Shutdown, kernel, counts
  <2>2. PhaseInv'
    BY <2>1 DEF PhaseInv
  <2>3. ChainWant' = <<>>
    BY <2>1 DEF ChainWant, Wanted
  <2>4. PICK P \in Seq(Ipt) : P = IptablesActions(<<>>) /\ P = CleanupIptables
    BY NoWant, CleanupIs, Zenon
  <2>5. Sel(batch', Ipt) = P
    BY <2>1, <2>4, ShutdownSelects DEF TypeOK
  <2>6. SubSeq(P, 1, Len(P)) = P
    BY SubSeqFull, Zenon
  <2>7. 1 \in 1..(Len(P) + 1)
    <3>1. Len(P) \in Nat
      OBVIOUS
    <3> QED
      BY <3>1
  <2>8. Unhooked(<<>>, 1)'
    BY DEF Unhooked
  <2>9. ~(pc' = "run")
    BY <2>1
  <2>10. \E k \in 1..(Len(P) + 1) :
           /\ Sel(batch', Ipt) = SubSeq(P, k, Len(P))
           /\ faults' = 0 => Unhooked(<<>>, k)'
           /\ pc' = "run" /\ Sound' => Made(<<>>, k)'
    BY <2>5, <2>6, <2>7, <2>8, <2>9
  <2> QED
    BY <2>2, <2>3, <2>4, <2>10, Zenon DEF ChainInv
<1>6. CASE CleanupDone
  <2>1. faults = 0 => ~chain.there
    BY <1>6, ChainIsGone DEF CleanupDone
  <2>2. pc' = "done" /\ batch' = batch /\ batch = <<>> /\ jumps' = jumps /\ chain' = chain /\ faults' = faults
    BY <1>6 DEF CleanupDone, kernel, counts
  <2> QED
    BY <2>1, <2>2 DEF PhaseInv, ChainInv
<1>7. CASE UNCHANGED vars
  <2>1. /\ pc' = pc /\ batch' = batch /\ jumps' = jumps /\ chain' = chain /\ faults' = faults
        /\ conf' = conf /\ failed' = failed /\ disturbed' = disturbed
    BY <1>7 DEF vars, kernel, counts
  <2>2. ChainWant' = ChainWant
    BY <2>1 DEF ChainWant, Wanted
  <2> QED
    BY <2>1, <2>2 DEF PhaseInv, ChainInv, Unhooked, Made, Sound
<1> QED
  BY <1>1, <1>2, <1>3, <1>4, <1>5, <1>6, <1>7 DEF Next, Reconciler

-----------------------------------------------------------------------------
(* The tables that are ours.                                                *)

LEMMA OrderedKeeps ==
  ASSUME NEW X, X \subseteq Command, NEW acts \in Seq(X)
  PROVE  Ordered(acts) \in Seq(X)
<1>1. acts \in Seq(Command)
  OBVIOUS
<1>2. \A T : Sel(acts, T) \in Seq(X)
  <2> TAKE T
  <2>1. Sel(acts, T) \in Seq(X \cap T)
    BY SelTyped
  <2> QED
    BY <2>1
<1>3. Ordered(acts) = Sel(acts, Turns(1)) \o Sel(acts, Turns(2)) \o Sel(acts, Turns(3))
  BY <1>1, OrderedIs, Zenon
<1> QED
  BY <1>2, <1>3, Joined, Zenon

\* What a pass plans is harmless.
LEMMA PlanHarmless ==
  ASSUME TypeOK, Plan
  PROVE  batch' \in Seq(Harmless')
<1> DEFINE H == {c \in Command : c.do \in {"write", "npt", "learn"} => c.at \in Ours}
<1>1. pc' = "run" /\ conf' = conf /\ conf \in Configs /\ mapped \in Mappings
  BY DEF Plan, TypeOK
<1>2. Harmless' = H
  BY <1>1 DEF Harmless, Ours
<1>3. PICK u : batch' = Ordered(BackendActions(u) \o UnusedActions(u) \o Mangle6Actions(u) \o NptActions(u))
  BY Zenon DEF Plan
<1>4. OwnOf("ip") \subseteq H /\ OwnOf("ip6") \subseteq H /\ Ipt \subseteq H /\ At(NptTable) \subseteq H
  BY DEF OwnOf, Ipt, At, Ours, NptTable
<1>5. LearnCommand \in H
  <2>1. LearnCommand \in Command
    BY <1>1, PlacesOf, TableCommands DEF LearnCommand
  <2>2. NdpUplinks(conf) # {} => LearnTable \in Ours
    BY DEF Ours, LearnTable
  <2> QED
    BY <2>1, <2>2 DEF LearnCommand
<1>6. NptCommand \in H
  BY <1>1, <1>4, PlacesOf, CommandsSorted DEF NptCommand
<1> HIDE DEF H
<1>7. BackendActions(u) \in Seq(H) /\ UnusedActions(u) \in Seq(H) /\ Mangle6Actions(u) \in Seq(H)
  <2>1. Mangle6Actions(u) \in Seq(OwnOf("ip6"))
    BY <1>1, Resources
  <2>2. CASE conf.firewall = "nftables"
    <3>1. BackendActions(u) \in Seq(OwnOf("ip")) /\ UnusedActions(u) \in Seq(Ipt)
      BY <1>1, <2>2, Resources
    <3> QED
      BY <1>4, <2>1, <3>1, SeqMonotonic
  <2>3. CASE conf.firewall # "nftables"
    <3>1. BackendActions(u) \in Seq(Ipt) /\ UnusedActions(u) \in Seq(OwnOf("ip"))
      BY <1>1, <2>3, Resources
    <3> QED
      BY <1>4, <2>1, <3>1, SeqMonotonic
  <2> QED
    BY <2>2, <2>3
<1>8. NptActions(u) \in Seq(H)
  <2>1. PICK a \in {<<>>, <<NptCommand>>},
             b \in {<<>>, <<LearnCommand>>} :
          NptActions(u) = a \o b
    BY <1>1, Pieces, Zenon
  <2>2. a \in Seq(H) /\ b \in Seq(H)
    BY <1>5, <1>6, <2>1, Short, Zenon
  <2> QED
    BY <2>1, <2>2, Joined, Zenon
<1>9. BackendActions(u) \o UnusedActions(u) \o Mangle6Actions(u) \o NptActions(u) \in Seq(H)
  BY <1>7, <1>8, Joined, Zenon
<1>10. H \subseteq Command
  BY DEF H
<1> QED
  BY <1>2, <1>3, <1>9, <1>10, OrderedKeeps, Zenon

LEMMA HasJoin ==
  ASSUME NEW S, NEW s \in Seq(S), NEW t \in Seq(S), NEW x, Has(s, x) \/ Has(t, x)
  PROVE  Has(s \o t, x)
<1>1. PICK z \in Seq(S) : z = s \o t /\ IsJoin(z, s, t)
  BY Joined, Zenon
<1>2. IsJoin(z, s, t)
  BY <1>1
<1>3. Len(s) \in Nat /\ Len(t) \in Nat /\ DOMAIN s = 1..Len(s) /\ DOMAIN t = 1..Len(t)
      /\ DOMAIN z = 1..Len(z)
  OBVIOUS
<1>4. CASE Has(s, x)
  <2>1. PICK k \in 1..Len(s) : s[k] = x
    BY <1>3, <1>4 DEF Has
  <2>2. z[k] = x /\ k \in 1..Len(z)
    BY <1>2, <1>3, <2>1 DEF IsJoin
  <2> QED
    BY <1>1, <1>3, <2>2 DEF Has
<1>5. CASE Has(t, x)
  <2>1. PICK k \in 1..Len(t) : t[k] = x
    BY <1>3, <1>5 DEF Has
  <2>2. z[Len(s) + k] = x /\ Len(s) + k \in 1..Len(z)
    BY <1>2, <1>3, <2>1 DEF IsJoin
  <2> QED
    BY <1>1, <1>3, <2>2 DEF Has
<1> QED
  BY <1>4, <1>5

LEMMA HasTail ==
  ASSUME NEW S, NEW s \in Seq(S), s # <<>>, NEW x, Has(s, x), x # Head(s)
  PROVE  Has(Tail(s), x)
<1>1. PICK k \in 1..Len(s) : s[k] = x
  BY DEF Has
<1>2. Len(s) \in Nat /\ k # 1
  BY <1>1
<1>3. PICK j : j = k - 1
  OBVIOUS
<1>4. j \in 1..(Len(s) - 1) /\ j + 1 = k
  BY <1>1, <1>2, <1>3
<1>5. Tail(s) \in Seq(S) /\ Len(Tail(s)) = Len(s) - 1 /\ \A i \in 1..Len(Tail(s)) : Tail(s)[i] = s[i + 1]
  BY HeadTailProperties, Zenon
<1>6. j \in 1..Len(Tail(s)) /\ Tail(s)[j] = x
  BY <1>1, <1>4, <1>5
<1>7. DOMAIN Tail(s) = 1..Len(Tail(s))
  BY <1>5
<1> QED
  BY <1>6, <1>7 DEF Has

\* The cleanup deletes whatever is ours, of either backend and every family.
LEMMA CleanupHasOurs ==
  ASSUME conf \in Configs, NEW t \in Ours
  PROVE  Has(CleanupActions, Delete(t))
<1>1. PICK i \in Seq(Command), p \in Seq(Command), q \in Seq(Command) :
        i = CleanupIptables /\ p = CleanupNft("ip") /\ q = CleanupNft("ip6")
  <2>1. <<>> \in Seq(MarkRule)
    BY Short, Zenon
  <2>2. CleanupIptables \in Seq(Command)
    BY CleanupIs, Threads
  <2>3. CleanupNft("ip") \in Seq(Command) /\ CleanupNft("ip6") \in Seq(Command)
    BY <2>1, NftActionsTyped
  <2> QED
    BY <2>2, <2>3
<1>2. Delete(NptTable) \in Command /\ Delete(LearnTable) \in Command
  BY PlacesOf, TableCommands
<1>3. PICK a \in Seq(Command), b \in Seq(Command) :
        /\ a = <<Delete(NptTable)>>
        /\ b = IF NdpUplinks(conf) # {} THEN <<Delete(LearnTable)>> ELSE <<>>
  BY <1>2, Short, Zenon
<1>4. PICK x \in Seq(Command) : x = i \o p
  BY Joined, Zenon
<1>5. PICK y \in Seq(Command) : y = x \o q
  BY Joined, Zenon
<1>6. PICK z \in Seq(Command) : z = y \o a
  BY Joined, Zenon
<1>7. CleanupActions = z \o b
  BY <1>1, <1>3, <1>4, <1>5, <1>6, Zenon DEF CleanupActions, NptTable, LearnTable
<1>8. ASSUME NEW c, Has(p, c) \/ Has(q, c) \/ Has(a, c) \/ Has(b, c)
      PROVE  Has(CleanupActions, c)
  <2>1. Has(p, c) => Has(x, c)
    BY <1>4, HasJoin, Zenon
  <2>2. Has(x, c) \/ Has(q, c) => Has(y, c)
    BY <1>5, HasJoin, Zenon
  <2>3. Has(y, c) \/ Has(a, c) => Has(z, c)
    BY <1>6, HasJoin, Zenon
  <2>4. Has(z, c) \/ Has(b, c) => Has(z \o b, c)
    BY HasJoin, Zenon
  <2> QED
    BY <1>7, <1>8, <2>1, <2>2, <2>3, <2>4, Zenon
<1>9. /\ Has(p, Delete(<<"ip", conf.table>>)) /\ Has(p, Delete(<<"inet", conf.table>>))
      /\ Has(q, Delete(<<"ip6", conf.table>>))
  <2>1. p[1] = Delete(<<"ip", conf.table>>) /\ p[2] = Delete(<<"inet", conf.table>>) /\ Len(p) = 2
    <3>1. p = <<Delete(<<"ip", conf.table>>), Delete(<<"inet", conf.table>>)>>
      BY <1>1, CleanupNftIs, Zenon
    <3> QED
      BY <3>1
  <2>2. q[1] = Delete(<<"ip6", conf.table>>) /\ Len(q) = 1
    <3>1. q = <<Delete(<<"ip6", conf.table>>)>>
      BY <1>1, CleanupNftIs, Zenon
    <3> QED
      BY <3>1
  <2>3. 1 \in DOMAIN p /\ 2 \in DOMAIN p /\ 1 \in DOMAIN q
    BY <2>1, <2>2
  <2> QED
    BY <2>1, <2>2, <2>3 DEF Has
<1>10. Has(a, Delete(NptTable)) /\ (NdpUplinks(conf) # {} => Has(b, Delete(LearnTable)))
  <2>1. \A c : Has(<<c>>, c)
    BY DEF Has
  <2> QED
    BY <1>3, <2>1, Zenon
<1>11. \/ t = <<"ip", conf.table>> \/ t = <<"inet", conf.table>> \/ t = <<"ip6", conf.table>>
       \/ t = NptTable \/ (NdpUplinks(conf) # {} /\ t = LearnTable)
  BY DEF Ours, NptTable, LearnTable
<1> QED
  BY <1>8, <1>9, <1>10, <1>11, Zenon

LEMMA OursStarts == Init => OursInv
<1> SUFFICES ASSUME Init
             PROVE  OursInv
  OBVIOUS
<1>1. PICK old \in BOOLEAN :
        table = [t \in Place |-> IF old /\ t = <<"inet", conf.table>> THEN Bare({}) ELSE Absent]
  BY Zenon DEF Init
<1>2. batch = <<>> /\ pc = "idle"
  BY DEF Init
<1>3. batch \in Seq(Harmless)
  BY <1>2, Short, Zenon
<1>4. \A t \in Place : table[t].there => t \in Ours
  BY <1>1, AbsentTyped DEF Ours
<1> QED
  BY <1>2, <1>3, <1>4 DEF OursInv

LEMMA OursRun ==
  ASSUME TypeOK, OursInv, Run
  PROVE  OursInv'
<1>1. PICK c : c = Head(batch)
  OBVIOUS
<1>2. /\ c \in Command
      /\ UNCHANGED <<conf, mapped, pc, disturbed>>
      /\ faults' = 0 => /\ faults = 0
                        /\ (~Refused(c) /\ Effect(c)) \/ (Refused(c) /\ UNCHANGED kernel)
  BY <1>1, RunOutcome
<1>3. batch \in Seq(Harmless) /\ batch # <<>> /\ batch' = Tail(batch) /\ batch \in Seq(Command)
  BY DEF OursInv, Run, TypeOK
<1>4. Harmless' = Harmless /\ Ours' = Ours
  BY <1>2 DEF Harmless, Ours
<1>5. batch' \in Seq(Harmless) /\ c \in Harmless
  BY <1>1, <1>3
<1>6. ASSUME faults' = 0, NEW t \in Place, table'[t].there
      PROVE  t \in Ours /\ pc # "done" /\ (pc = "cleanup" => Has(batch', Delete(t)))
  <2>1. ASSUME table'[t] = table[t], c # Delete(t)
        PROVE  t \in Ours /\ pc # "done" /\ (pc = "cleanup" => Has(batch', Delete(t)))
    <3>1. t \in Ours /\ pc # "done" /\ (pc = "cleanup" => Has(batch, Delete(t)))
      BY <1>2, <1>6, <2>1 DEF OursInv
    <3>2. pc = "cleanup" => Has(batch', Delete(t))
      BY <1>1, <1>3, <2>1, <3>1, HasTail
    <3> QED
      BY <3>1, <3>2
  <2>2. CASE Refused(c) /\ UNCHANGED kernel
    <3>1. table' = table
      BY <2>2 DEF kernel
    <3>2. c # Delete(t)
      <4>1. ASSUME c = Delete(t) PROVE FALSE
        <5>1. c.do = "delete" /\ c.at = t
          BY <4>1 DEF Delete
        <5> QED
          BY <1>6, <2>2, <3>1, <5>1 DEF Refused
      <4> QED
        BY <4>1
    <3> QED
      BY <2>1, <3>1, <3>2
  <2>3. CASE ~Refused(c) /\ Effect(c)
    <3>1. CASE c.do \in {"write", "npt", "learn", "delete", "forget"}
      <4>1. c.at \in Place /\ table' = [table EXCEPT ![c.at] = Written(c)]
        BY <1>2, <2>3, <3>1, EffectIs
      <4>2. CASE c.at = t
        <5>1. table'[t] = Written(c)
          BY <4>1, <4>2 DEF TypeOK
        <5>2. c.do \in {"write", "npt", "learn"}
          BY <1>2, <1>6, <3>1, <5>1, WrittenTyped
        <5> QED
          BY <1>5, <4>2, <5>2 DEF Harmless
      <4>3. CASE c.at # t
        <5>1. table'[t] = table[t]
          BY <4>1, <4>3 DEF TypeOK
        <5>2. c # Delete(t)
          BY <4>3 DEF Delete
        <5> QED
          BY <2>1, <5>1, <5>2
      <4> QED
        BY <4>2, <4>3
    <3>2. CASE c.do \notin {"write", "npt", "learn", "delete", "forget"}
      <4>1. table' = table
        BY <1>2, <2>3, <3>2, EffectIs, CommandShape
      <4>2. c # Delete(t)
        BY <3>2 DEF Delete
      <4> QED
        BY <2>1, <4>1, <4>2
    <3> QED
      BY <3>1, <3>2
  <2> QED
    BY <1>2, <1>6, <2>2, <2>3
<1> QED
  BY <1>2, <1>4, <1>5, <1>6, Zenon DEF OursInv

LEMMA OursStep == TypeOK /\ PhaseInv /\ OursInv /\ [Next]_vars => OursInv'
<1> SUFFICES ASSUME TypeOK, PhaseInv, OursInv, [Next]_vars
             PROVE  OursInv'
  OBVIOUS
<1>1. CASE Crash
  <2>1. batch' = <<>> /\ faults' # 0
    BY <1>1, Counted DEF Crash
  <2>2. batch' \in Seq(Harmless')
    BY <2>1, Short, Zenon
  <2> QED
    BY <2>1, <2>2 DEF OursInv
<1>2. CASE \/ MappedChanges \/ NftWiped \/ ChainFlushed \/ (\E h \in Hooks : JumpRemoved(h))
           \/ UNCHANGED vars
  <2>1. /\ conf' = conf /\ pc' = pc /\ batch' = batch /\ faults' = faults
        /\ \A t \in Place : table'[t].there => table[t].there
    <3>1. CASE NftWiped
      <4>1. \A t \in Place : ~table'[t].there
        BY <3>1, AbsentTyped DEF NftWiped
      <4> QED
        BY <3>1, <4>1 DEF NftWiped
    <3>2. CASE MappedChanges
      BY <3>2 DEF MappedChanges, kernel
    <3>3. CASE ChainFlushed
      BY <3>3 DEF ChainFlushed
    <3>4. CASE \E h \in Hooks : JumpRemoved(h)
      BY <3>4 DEF JumpRemoved
    <3>5. CASE UNCHANGED vars
      BY <3>5 DEF vars, kernel, counts
    <3> QED
      BY <1>2, <3>1, <3>2, <3>3, <3>4, <3>5
  <2>2. Harmless' = Harmless /\ Ours' = Ours
    BY <2>1 DEF Harmless, Ours
  <2> QED
    BY <2>1, <2>2, Zenon DEF OursInv
<1>3. CASE Plan
  <2>1. batch' \in Seq(Harmless')
    BY <1>3, PlanHarmless
  <2>2. conf' = conf /\ table' = table /\ pc' = "run" /\ (faults' = 0 => faults = 0)
    BY <1>3, PlanTyped DEF Plan, kernel
  <2>3. Ours' = Ours
    BY <2>2 DEF Ours
  <2> QED
    BY <2>1, <2>2, <2>3 DEF OursInv
<1>4. CASE Run
  BY <1>4, OursRun
<1>5. CASE PassDone
  <2>1. /\ conf' = conf /\ table' = table /\ pc' = "idle" /\ faults' = faults
        /\ batch' = batch /\ batch = <<>>
    BY <1>5 DEF PassDone, kernel, counts
  <2>2. Ours' = Ours
    BY <2>1 DEF Ours
  <2>3. batch' \in Seq(Harmless')
    BY <2>1, Short, Zenon
  <2> QED
    BY <2>1, <2>2, <2>3 DEF OursInv
<1>6. CASE Shutdown
  <2>1. /\ conf' = conf /\ table' = table /\ pc' = "cleanup" /\ faults' = faults
        /\ batch' = CleanupActions /\ conf \in Configs
    BY <1>6 DEF Shutdown, kernel, counts, TypeOK
  <2>2. Ours' = Ours
    BY <2>1 DEF Ours
  <2>3. \A t \in Ours : Has(batch', Delete(t))
    BY <2>1, CleanupHasOurs
  <2>4. batch' \in Seq(Harmless')
    <3> DEFINE H == {c \in Command : c.do \notin {"write", "npt", "learn"}}
    <3>1. H \subseteq Harmless'
      BY DEF Harmless
    <3>2. \A t \in Place : Delete(t) \in H
      BY TableCommands DEF Delete
    <3>3. PICK i \in Seq(H), p \in Seq(H), q \in Seq(H) :
            i = CleanupIptables /\ p = CleanupNft("ip") /\ q = CleanupNft("ip6")
      <4>1. CleanupIptables \in Seq(H)
        <5>1. PICK s \in Seq(Ipt) : s = CleanupIptables /\ Len(s) = 5
          BY CleanupIs, Zenon
        <5>2. /\ s[1] = Unhook("OUTPUT") /\ s[2] = Unhook("PREROUTING") /\ s[3] = Unhook("FORWARD")
              /\ s[4] = Flush /\ s[5] = Drop
          <6>1. s = <<Unhook("OUTPUT"), Unhook("PREROUTING"), Unhook("FORWARD"), Flush, Drop>>
            BY <5>1, CleanupIs, Zenon
          <6> QED
            BY <6>1
        <5>3. Len(s) = 5
          BY <5>1
        <5>4. \A k \in 1..Len(s) : s[k].do \in {"unhook", "flush", "drop"}
          BY <5>2, <5>3 DEF Unhook, Flush, Drop
        <5>5. \A k \in 1..Len(s) : s[k] \in H
          BY <5>4 DEF Ipt
        <5>6. s \in Seq(H)
          <6> HIDE DEF H
          <6> QED
            BY <5>5
        <5> QED
          BY <5>1, <5>6, Zenon
      <4>2. \A f \in {"ip", "inet", "ip6"} : Delete(<<f, conf.table>>) \in H
        BY <2>1, <3>2, PlacesOf
      <4>3. CleanupNft("ip") \in Seq(H) /\ CleanupNft("ip6") \in Seq(H)
        BY <4>2, CleanupNftIs, Short, Zenon
      <4> QED
        BY <4>1, <4>3
    <3>4. Delete(NptTable) \in H /\ Delete(LearnTable) \in H
      BY <2>1, <3>2, PlacesOf
    <3> HIDE DEF H
    <3>5. PICK a \in Seq(H), b \in Seq(H) :
            /\ a = <<Delete(NptTable)>>
            /\ b = IF NdpUplinks(conf) # {} THEN <<Delete(LearnTable)>> ELSE <<>>
      BY <3>4, Short, Zenon
    <3>6. CleanupActions = i \o p \o q \o a \o b
      BY <3>3, <3>5, Zenon DEF CleanupActions, NptTable, LearnTable
    <3>7. CleanupActions \in Seq(H)
      BY <3>6, Joined, Zenon
    <3> QED
      BY <2>1, <3>1, <3>7, SeqMonotonic
  <2> QED
    BY <2>1, <2>2, <2>3, <2>4 DEF OursInv
<1>7. CASE CleanupDone
  <2>1. /\ conf' = conf /\ table' = table /\ pc = "cleanup" /\ faults' = faults
        /\ batch' = batch /\ batch = <<>>
    BY <1>7 DEF CleanupDone, kernel, counts
  <2>2. batch' \in Seq(Harmless')
    BY <2>1, Short, Zenon
  <2>3. faults' = 0 => \A t \in Place : ~table'[t].there
    <3>1. \A x : ~Has(batch, x)
      BY <2>1 DEF Has
    <3> QED
      BY <2>1, <3>1 DEF OursInv
  <2> QED
    BY <2>2, <2>3 DEF OursInv
<1> QED
  BY <1>1, <1>2, <1>3, <1>4, <1>5, <1>6, <1>7 DEF Next, Surroundings, Reconciler

\* Shutdown leaves nothing of ours: of neither backend, of no family and of no version,
\* whatever was configured, mapped and changed by others before it, unless something failed.
THEOREM LeavesNothing == Spec => []CleanExit
<1>1. Init => TypeOK /\ PhaseInv /\ ChainInv /\ OursInv
  BY TypeStarts, ChainStarts, OursStarts
<1>2. TypeOK /\ PhaseInv /\ ChainInv /\ OursInv /\ [Next]_vars
        => (TypeOK /\ PhaseInv /\ ChainInv /\ OursInv)'
  BY TypeStep, ChainStep, OursStep
<1>3. TypeOK /\ PhaseInv /\ ChainInv /\ OursInv => CleanExit
  <2> SUFFICES ASSUME TypeOK, PhaseInv, OursInv, pc = "done", faults = 0
               PROVE  /\ ~chain.there /\ \A h \in Hooks : jumps[h] = 0
                      /\ \A t \in Place : ~table[t].there
    BY DEF CleanExit
  <2>1. ~chain.there
    BY DEF PhaseInv
  <2>2. \A h \in Hooks : jumps[h] = 0
    BY <2>1, Constants DEF TypeOK
  <2>3. \A t \in Place : ~table[t].there
    BY DEF OursInv
  <2> QED
    BY <2>1, <2>2, <2>3
<1> QED
  BY <1>1, <1>2, <1>3, PTL DEF Spec

-----------------------------------------------------------------------------
(* The tables of marks, and of translation and learning.                    *)

LEMMA TableProgrammeOrdered ==
  ASSUME NEW t \in Place, NEW want \in Seq(MarkRule)
  PROVE  Ordered(TableProgramme(t, want)) = TableProgramme(t, want)
<1>1. Delete(t) \in Turns(1) /\ Write(t, want) \in Turns(2) /\ Delete(t) \in Command
  BY CommandsSorted, TableCommands
<1> QED
  BY <1>1, OrderedPlain, Zenon DEF TableProgramme

LEMMA FamiliesApart ==
  ASSUME conf \in Configs
  PROVE  /\ \A f, g \in {"ip", "inet", "ip6"} :
              f # g => At(<<f, conf.table>>) \cap At(<<g, conf.table>>) = {}
         /\ \A f \in {"ip", "inet"} :
              At(<<f, conf.table>>) \cap (At(NptTable) \cup At(LearnTable)) = {}
         /\ At(NptTable) \cap At(LearnTable) = {}
         /\ NPTv6Enabled(conf) /\ NamesApart(conf) =>
              At(<<"ip6", conf.table>>) \cap (At(NptTable) \cup At(LearnTable)) = {}
<1>1. \A f, g \in {"ip", "inet", "ip6"} : f # g => At(<<f, conf.table>>) \cap At(<<g, conf.table>>) = {}
  BY DEF At
<1>2. \A f \in {"ip", "inet"} : At(<<f, conf.table>>) \cap (At(NptTable) \cup At(LearnTable)) = {}
  BY DEF At, NptTable, LearnTable
<1>3. NptTable # LearnTable
  <2>1. NPTv6Table(conf)[2] \in Nat
    BY Constants
  <2>2. NPTv6NdpTable(conf)[2] = NPTv6Table(conf)[2] + 1
    BY DEF NPTv6NdpTable
  <2>3. NPTv6Table(conf) # NPTv6NdpTable(conf)
    BY <2>1, <2>2
  <2> QED
    BY <2>3 DEF NptTable, LearnTable
<1>4. At(NptTable) \cap At(LearnTable) = {}
  BY <1>3 DEF At
<1>5. NPTv6Enabled(conf) /\ NamesApart(conf) => <<"ip6", conf.table>> # NptTable /\ <<"ip6", conf.table>> # LearnTable
  BY DEF NamesApart, NptTable, LearnTable
<1>6. NPTv6Enabled(conf) /\ NamesApart(conf) =>
        At(<<"ip6", conf.table>>) \cap (At(NptTable) \cup At(LearnTable)) = {}
  BY <1>5 DEF At
<1> QED
  BY <1>1, <1>2, <1>4, <1>6

\* What a family's actions do to each of its tables.
LEMMA NftSel ==
  ASSUME conf \in Configs, NEW want \in Seq(MarkRule)
  PROVE  /\ \A f \in {"ip", "ip6"} :
              Sel(NftActions(f, want), At(<<f, conf.table>>)) = TableProgramme(<<f, conf.table>>, want)
         /\ Sel(NftActions("ip", want), At(<<"inet", conf.table>>)) = <<Delete(<<"inet", conf.table>>)>>
<1>1. PICK i, n, s : i = <<"ip", conf.table>> /\ n = <<"inet", conf.table>> /\ s = <<"ip6", conf.table>>
  OBVIOUS
<1>2. /\ i \in Place /\ n \in Place /\ s \in Place /\ i # n
  BY <1>1, PlacesOf
<1>3. /\ Delete(i) \in At(i) /\ Delete(n) \in At(n) /\ Delete(s) \in At(s)
      /\ Write(i, want) \in At(i) /\ Write(s, want) \in At(s)
      /\ Delete(n) \notin At(i) /\ Delete(i) \notin At(n) /\ Write(i, want) \notin At(n)
  <2>1. /\ Delete(i) \in At(i) /\ Delete(n) \in At(n) /\ Delete(s) \in At(s)
        /\ Write(i, want) \in At(i) /\ Write(s, want) \in At(s)
    BY <1>2, CommandsSorted
  <2>2. At(i) \cap At(n) = {}
    BY <1>2, Threads
  <2> QED
    BY <2>1, <2>2
<1>4. /\ CleanupNft("ip") = <<Delete(i), Delete(n)>> /\ CleanupNft("ip6") = <<Delete(s)>>
  BY <1>1, CleanupNftIs, Zenon
<1>5. PICK w : w = IF want = <<>> THEN <<>> ELSE <<Write(i, want)>>
  OBVIOUS
<1>6. PICK v : v = IF want = <<>> THEN <<>> ELSE <<Write(s, want)>>
  OBVIOUS
<1>7. NftActions("ip", want) = CleanupNft("ip") \o w /\ NftActions("ip6", want) = CleanupNft("ip6") \o v
  BY <1>1, <1>5, <1>6, Zenon DEF NftActions, Write
<1>8. /\ \A C : Sel(CleanupNft("ip") \o w, C) = Sel(CleanupNft("ip"), C) \o Sel(w, C)
      /\ \A C : Sel(CleanupNft("ip6") \o v, C) = Sel(CleanupNft("ip6"), C) \o Sel(v, C)
  <2>1. PICK a \in Seq(Command), b \in Seq(Command) : a = CleanupNft("ip") /\ b = CleanupNft("ip6")
    <3>1. "ip" \in {"ip", "ip6"} /\ "ip6" \in {"ip", "ip6"}
      OBVIOUS
    <3> QED
      BY <3>1, NftActionsTyped
  <2>2. Write(i, want) \in Command /\ Write(s, want) \in Command
    BY <1>2, TableCommands
  <2>3. w \in Seq(Command) /\ v \in Seq(Command)
    BY <1>5, <1>6, <2>2, Short, Zenon
  <2> QED
    BY <2>1, <2>3, SelConcat, ZenonT(60)
<1>9. PICK e : e = <<>>
  OBVIOUS
<1>10. \A x : <<x>> \o e = <<x>> /\ e \o <<x>> = <<x>> /\ e \o e = e
  <2> TAKE x
  <2>1. x \in {x}
    OBVIOUS
  <2>2. <<x>> \in Seq({x}) /\ e \in Seq({x})
    BY <1>9, <2>1, Short, Zenon
  <2> QED
    BY <1>9, <2>2, NoneBefore, Zenon
<1>11. Sel(CleanupNft("ip"), At(i)) = <<Delete(i)>>
  <2>1. Sel(<<Delete(i), Delete(n)>>, At(i))
          = (IF Delete(i) \in At(i) THEN <<Delete(i)>> ELSE <<>>)
              \o (IF Delete(n) \in At(i) THEN <<Delete(n)>> ELSE <<>>)
    BY SelFew, Zenon
  <2> QED
    BY <1>3, <1>4, <1>9, <1>10, <2>1, Zenon
<1>12. Sel(CleanupNft("ip"), At(n)) = <<Delete(n)>>
  <2>1. Sel(<<Delete(i), Delete(n)>>, At(n))
          = (IF Delete(i) \in At(n) THEN <<Delete(i)>> ELSE <<>>)
              \o (IF Delete(n) \in At(n) THEN <<Delete(n)>> ELSE <<>>)
    BY SelFew, Zenon
  <2> QED
    BY <1>3, <1>4, <1>9, <1>10, <2>1, Zenon
<1>13. Sel(CleanupNft("ip6"), At(s)) = <<Delete(s)>>
  BY <1>3, <1>4, SelFew, Zenon
<1>14. Sel(w, At(i)) = w /\ Sel(w, At(n)) = <<>> /\ Sel(v, At(s)) = v
  BY <1>3, <1>5, <1>6, SelFew, Zenon
<1>15. Sel(NftActions("ip", want), At(i)) = <<Delete(i)>> \o w
  BY <1>7, <1>8, <1>11, <1>14, Zenon
<1>16. Sel(NftActions("ip6", want), At(s)) = <<Delete(s)>> \o v
  BY <1>7, <1>8, <1>13, <1>14, Zenon
<1>17. Sel(NftActions("ip", want), At(n)) = <<Delete(n)>>
  BY <1>7, <1>8, <1>9, <1>10, <1>12, <1>14, Zenon
<1>18. <<Delete(i)>> \o w = TableProgramme(i, want)
  BY <1>5, <1>9, <1>10, Pair, Zenon DEF TableProgramme
<1>19. <<Delete(s)>> \o v = TableProgramme(s, want)
  BY <1>6, <1>9, <1>10, Pair, Zenon DEF TableProgramme
<1>20. /\ Sel(NftActions("ip", want), At(<<"ip", conf.table>>)) = TableProgramme(<<"ip", conf.table>>, want)
       /\ Sel(NftActions("ip6", want), At(<<"ip6", conf.table>>)) = TableProgramme(<<"ip6", conf.table>>, want)
       /\ Sel(NftActions("ip", want), At(<<"inet", conf.table>>)) = <<Delete(<<"inet", conf.table>>)>>
  BY <1>1, <1>15, <1>16, <1>17, <1>18, <1>19, Zenon
<1> QED
  BY <1>20

\* The ports of rules are configured as they are listed.
PortsListed(want) == \A k \in DOMAIN want : Ascending(want[k].ports)

\* A family's tables are found as they are wanted.
LEMMA NftSettled ==
  ASSUME NEW f \in {"ip", "ip6"}, NEW want
  PROVE  ~NftNeedsRestore(f, want, "nothing")
           <=> /\ Marked(<<f, conf.table>>, want) /\ (f = "ip" => ~table[<<"inet", conf.table>>].there)
               /\ want = <<>> \/ PortsListed(want)
<1>1. /\ Read(<<f, conf.table>>, "nothing") = table[<<f, conf.table>>]
      /\ Read(<<"inet", conf.table>>, "nothing") = table[<<"inet", conf.table>>]
  BY DEF Read
<1>2. PICK T, I : T = table[<<f, conf.table>>] /\ I = table[<<"inet", conf.table>>]
  OBVIOUS
<1>3. NftNeedsRestore(f, want, "nothing") <=>
        \/ f = "ip" /\ I.there
        \/ IF ~T.there THEN want # <<>> ELSE want = <<>> \/ ~InChains(f, T, want)
  BY <1>1, <1>2, Zenon DEF NftNeedsRestore
<1>4. <<f, conf.table>>[1] = f
  OBVIOUS
<1>5. Marked(<<f, conf.table>>, want) <=>
        IF want = <<>> THEN ~T.there
        ELSE T.there /\ T.prerouting = Held(want) /\ (f = "ip" => T.output = Held(want))
  BY <1>2, <1>4, Zenon DEF Marked
<1>6. InChains(f, T, want) <=>
        T.prerouting = Held(want) /\ (f = "ip" => T.output = Held(want)) /\ PortsListed(want)
  BY Zenon DEF InChains, ListedAs, PortsListed
<1> QED
  BY <1>2, <1>3, <1>5, <1>6, Zenon

\* Whatever is wanted, if it is configured so.
LEMMA WantListed ==
  ASSUME conf \in Configs, mapped \in Mappings, PortsAscend(conf), NEW f \in {"ip", "ip6"}
  PROVE  TableWant(f) = <<>> \/ PortsListed(TableWant(f))
<1>1. ASSUME NEW g \in Families, g = "ipv4" => conf.firewall = "nftables",
             NEW w \in Seq(OfFamily(conf, g))
      PROVE  PortsListed(w)
  <2>1. \A k \in DOMAIN w : w[k] \in OfFamily(conf, g)
    OBVIOUS
  <2>2. \A k \in PortRulesFor(conf, g) : Ascending(conf.rules[k].ports)
    <3>1. g \in (IF conf.firewall = "nftables" THEN Families ELSE {"ipv6"})
      BY <1>1 DEF Families
    <3> QED
      BY <3>1, Zenon DEF PortsAscend
  <2> QED
    BY <2>1, <2>2, Zenon DEF PortsListed, OfFamily
<1>2. CASE f = "ip6"
  <2>1. TableWant(f) = DesiredMarkRules6[conf][mapped]
    BY <1>2 DEF TableWant
  <2>2. "ipv6" \in Families /\ "ipv6" # "ipv4"
    BY DEF Families
  <2>3. PICK w \in Seq(OfFamily(conf, "ipv6")) : w = TableWant(f)
    BY <2>1, DesiredOfFamily, Zenon
  <2>4. PortsListed(w)
    BY <1>1, <2>2, Zenon
  <2> QED
    BY <2>3, <2>4
<1>3. CASE f = "ip" /\ conf.firewall = "nftables"
  <2>1. TableWant(f) = DesiredMarkRules[conf]
    BY <1>3 DEF TableWant
  <2>2. "ipv4" \in Families
    BY DEF Families
  <2>3. PICK w \in Seq(OfFamily(conf, "ipv4")) : w = TableWant(f)
    BY <2>1, DesiredOfFamily, Zenon
  <2>4. PortsListed(w)
    BY <1>1, <1>3, <2>2, Zenon
  <2> QED
    BY <2>3, <2>4
<1>4. CASE f = "ip" /\ conf.firewall # "nftables"
  BY <1>4 DEF TableWant
<1> QED
  BY <1>2, <1>3, <1>4

LEMMA TableWantTyped ==
  ASSUME conf \in Configs, mapped \in Mappings, NEW f
  PROVE  TableWant(f) \in Seq(MarkRule)
<1>1. /\ DesiredMarkRules[conf] \in Seq(MarkRule) /\ DesiredMarkRules6[conf][mapped] \in Seq(MarkRule)
      /\ <<>> \in Seq(MarkRule)
  BY DesiredTyped, Short, Zenon
<1> QED
  BY <1>1 DEF TableWant

\* What the two backends plan for the tables of IPv4's marks, whichever is in use.
IpActions(u) ==
  IF NftNeedsRestore("ip", TableWant("ip"), u) THEN NftActions("ip", TableWant("ip")) ELSE <<>>

\* What a pass runs on each table is its whole programme, or nothing as the table is as
\* wanted.
LEMMA TablesSelected ==
  ASSUME TypeOK, NamesApart(conf), Plan
  PROVE  \E u :
           /\ ~failed' => u = "nothing"
           /\ \A f \in {"ip", "inet"} :
                Sel(batch', At(<<f, conf.table>>)) = Ordered(Sel(IpActions(u), At(<<f, conf.table>>)))
           /\ Sel(batch', At(<<"ip6", conf.table>>))
                = Ordered(Sel(Mangle6Actions(u), At(<<"ip6", conf.table>>)))
           /\ NPTv6Enabled(conf) => \A t \in {NptTable, LearnTable} :
                Sel(batch', At(t)) = Ordered(Sel(NptActions(u), At(t)))
<1>1. conf \in Configs /\ mapped \in Mappings
  BY DEF TypeOK
<1>2. PICK u : /\ ~failed' \/ faults' = 0 => u = "nothing"
               /\ \A C : Sel(batch', C) = Ordered(Sel(BackendActions(u), C) \o Sel(UnusedActions(u), C)
                                                    \o Sel(Mangle6Actions(u), C) \o Sel(NptActions(u), C))
  BY PlanSelects
<1>3. PICK e : e = <<>>
  OBVIOUS
<1>4. PICK b \in Seq(Command), n \in Seq(Command), m \in Seq(Command), p \in Seq(Command) :
        b = BackendActions(u) /\ n = UnusedActions(u) /\ m = Mangle6Actions(u) /\ p = NptActions(u)
  BY <1>1, PiecesTyped
<1>5. \A C : Sel(b, C) \in Seq(Command) /\ Sel(n, C) \in Seq(Command)
             /\ Sel(m, C) \in Seq(Command) /\ Sel(p, C) \in Seq(Command)
  BY SelOrdered, Zenon
<1>6. \A C : Sel(batch', C) = Ordered(Sel(b, C) \o Sel(n, C) \o Sel(m, C) \o Sel(p, C))
  BY <1>2, <1>4, Zenon
<1>7. PICK i, l, s, t, k :
        /\ i = At(<<"ip", conf.table>>) /\ l = At(<<"inet", conf.table>>) /\ s = At(<<"ip6", conf.table>>)
        /\ t = At(NptTable) /\ k = At(LearnTable)
  OBVIOUS
<1>8. /\ i \cap l = {} /\ i \cap s = {} /\ l \cap s = {}
      /\ i \cap (t \cup k) = {} /\ l \cap (t \cup k) = {} /\ t \cap k = {}
      /\ NPTv6Enabled(conf) => s \cap (t \cup k) = {}
      /\ Ipt \cap i = {} /\ Ipt \cap l = {} /\ Ipt \cap s = {} /\ Ipt \cap t = {} /\ Ipt \cap k = {}
  BY <1>1, <1>7, FamiliesApart, PlacesOf, Threads
<1>9. OwnOf("ip") = i \cup l /\ OwnOf("ip6") = s
  BY <1>7 DEF OwnOf
<1>10. m \in Seq(s) /\ p \in Seq(t \cup k)
  BY <1>1, <1>4, <1>7, <1>9, Resources, Zenon
<1>11. ~NPTv6Enabled(conf) => p = e
  BY <1>3, <1>4, Zenon DEF NptActions
<1>12. \A f \in {i, l} : Sel(batch', f) = Ordered(Sel(IpActions(u), f))
  <2> TAKE f \in {i, l}
  <2>1. s \cap f = {} /\ (t \cup k) \cap f = {} /\ Ipt \cap f = {}
    BY <1>8
  <2>2. Sel(m, f) = e /\ Sel(p, f) = e
    BY <1>3, <1>10, <2>1, SelNone, Zenon
  <2>3. CASE conf.firewall = "nftables"
    <3>1. n \in Seq(Ipt)
      BY <1>1, <1>4, <2>3, Resources, Zenon
    <3>2. Sel(n, f) = e
      BY <1>3, <2>1, <3>1, SelNone, Zenon
    <3>3. Sel(b, f) \o e \o e \o e = Sel(b, f)
      BY <1>3, <1>5, OnlyPiece, Zenon
    <3>4. Sel(batch', f) = Ordered(Sel(b, f))
      BY <1>6, <2>2, <3>2, <3>3, Zenon
    <3>5. TableWant("ip") = DesiredMarkRules[conf]
      BY <2>3 DEF TableWant
    <3>6. b = IpActions(u)
      BY <1>4, <2>3, <3>5, Zenon DEF BackendActions, IpActions
    <3> QED
      BY <3>4, <3>6, Zenon
  <2>4. CASE conf.firewall # "nftables"
    <3>1. b \in Seq(Ipt)
      BY <1>1, <1>4, <2>4, Resources, Zenon
    <3>2. Sel(b, f) = e
      BY <1>3, <2>1, <3>1, SelNone, Zenon
    <3>3. e \o Sel(n, f) \o e \o e = Sel(n, f)
      BY <1>3, <1>5, OnlyPiece, Zenon
    <3>4. Sel(batch', f) = Ordered(Sel(n, f))
      BY <1>6, <2>2, <3>2, <3>3, Zenon
    <3>5. TableWant("ip") = <<>>
      BY <2>4 DEF TableWant
    <3>6. NftActions("ip", <<>>) = CleanupNft("ip")
      <4>1. NftActions("ip", <<>>) = CleanupNft("ip") \o <<>>
        BY Zenon DEF NftActions
      <4>2. CleanupNft("ip") \in Seq(Command)
        <5>1. <<>> \in Seq(MarkRule) /\ "ip" \in {"ip", "ip6"}
          BY Short, Zenon
        <5> QED
          BY <1>1, <5>1, NftActionsTyped, Zenon
      <4> QED
        BY <4>1, <4>2, NoneBefore, Zenon
    <3>7. n = IpActions(u)
      BY <1>4, <2>4, <3>5, <3>6, Zenon DEF UnusedActions, IpActions
    <3> QED
      BY <3>4, <3>7, Zenon
  <2> QED
    BY <2>3, <2>4
<1>13. \A f \in {s, t, k} : Sel(b, f) = e /\ Sel(n, f) = e
  <2> TAKE f \in {s, t, k}
  <2>1. Ipt \cap f = {} /\ (i \cup l) \cap f = {}
    BY <1>8
  <2>2. CASE conf.firewall = "nftables"
    <3>1. b \in Seq(i \cup l) /\ n \in Seq(Ipt)
      BY <1>1, <1>4, <1>9, <2>2, Resources, Zenon
    <3> QED
      BY <1>3, <2>1, <3>1, SelNone, Zenon
  <2>3. CASE conf.firewall # "nftables"
    <3>1. b \in Seq(Ipt) /\ n \in Seq(i \cup l)
      BY <1>1, <1>4, <1>9, <2>3, Resources, Zenon
    <3> QED
      BY <1>3, <2>1, <3>1, SelNone, Zenon
  <2> QED
    BY <2>2, <2>3
<1>14. Sel(batch', s) = Ordered(Sel(m, s))
  <2>1. Sel(p, s) = e
    <3>1. CASE NPTv6Enabled(conf)
      <4>1. (t \cup k) \cap s = {}
        BY <1>8, <3>1
      <4> QED
        BY <1>3, <1>10, <4>1, SelNone, Zenon
    <3>2. CASE ~NPTv6Enabled(conf)
      BY <1>3, <1>11, <3>2, SelEmpty, Zenon
    <3> QED
      BY <3>1, <3>2
  <2>2. e \o e \o Sel(m, s) \o e = Sel(m, s)
    BY <1>3, <1>5, OnlyPiece, Zenon
  <2> QED
    BY <1>6, <1>13, <2>1, <2>2, Zenon
<1>15. NPTv6Enabled(conf) => \A f \in {t, k} : Sel(batch', f) = Ordered(Sel(p, f))
  <2> SUFFICES ASSUME NPTv6Enabled(conf), NEW f \in {t, k}
               PROVE  Sel(batch', f) = Ordered(Sel(p, f))
    BY Zenon
  <2>1. s \cap f = {}
    BY <1>8
  <2>2. Sel(m, f) = e
    BY <1>3, <1>10, <2>1, SelNone, Zenon
  <2>3. e \o e \o e \o Sel(p, f) = Sel(p, f)
    BY <1>3, <1>5, OnlyPiece, Zenon
  <2>4. f \in {s, t, k}
    OBVIOUS
  <2> QED
    BY <1>6, <1>13, <2>2, <2>3, <2>4, Zenon
<1>16. NPTv6Enabled(conf) => \A x \in {NptTable, LearnTable} :
         Sel(batch', At(x)) = Ordered(Sel(NptActions(u), At(x)))
  BY <1>4, <1>7, <1>15, Zenon
<1>17. \A f \in {"ip", "inet"} :
         Sel(batch', At(<<f, conf.table>>)) = Ordered(Sel(IpActions(u), At(<<f, conf.table>>)))
  BY <1>7, <1>12
<1>18. Sel(batch', At(<<"ip6", conf.table>>)) = Ordered(Sel(Mangle6Actions(u), At(<<"ip6", conf.table>>)))
  BY <1>4, <1>7, <1>14, Zenon
<1> QED
  BY <1>2, <1>16, <1>17, <1>18, Zenon

\* What the translation and the learning table lack is what is planned for them.
LEMMA NptPlanned ==
  ASSUME conf \in Configs, mapped \in Mappings, NPTv6Enabled(conf), NEW u
  PROVE  /\ Sel(NptActions(u), At(NptTable)) \in {<<>>, <<NptCommand>>}
         /\ Sel(NptActions(u), At(LearnTable)) \in {<<>>, <<LearnCommand>>}
         /\ u = "nothing" /\ Sel(NptActions(u), At(NptTable)) = <<>> => Translates
         /\ u = "nothing" /\ Sel(NptActions(u), At(LearnTable)) = <<>> => Learns
         /\ u = "nothing" /\ Translates /\ Learns => NptActions(u) = <<>>
<1>1. PICK e : e = <<>> /\ e \o e = e
  <2>1. <<>> \o <<>> = <<>>
    OBVIOUS
  <2> QED
    BY <2>1, Zenon
<1>2. PICK n, l : n = <<NptCommand>> /\ l = <<LearnCommand>>
  OBVIOUS
<1>3. PICK lacksN, lacksL :
        /\ lacksN = ("npt" \notin Read(NptTable, u).holds)
        /\ lacksL = IF NdpUplinks(conf) # {} THEN "learn" \notin Read(LearnTable, u).holds
                    ELSE Read(LearnTable, u).there
  OBVIOUS
<1>4. PICK a, b : a = (IF lacksN THEN n ELSE e) /\ b = (IF lacksL THEN l ELSE e)
  OBVIOUS
<1>5. NptActions(u) = a \o b
  <2>1. CASE NdpUplinks(conf) # {}
    <3>1. LearnCommand = [do |-> "learn", at |-> LearnTable]
      BY <2>1, Zenon DEF LearnCommand
    <3> QED
      BY <1>1, <1>2, <1>3, <1>4, <2>1, <3>1, Zenon DEF NptActions, NptTable, LearnTable, NptCommand
  <2>2. CASE ~(NdpUplinks(conf) # {})
    <3>1. LearnCommand = [do |-> "forget", at |-> LearnTable]
      BY <2>2, Zenon DEF LearnCommand
    <3> QED
      BY <1>1, <1>2, <1>3, <1>4, <2>2, <3>1, Zenon DEF NptActions, NptTable, LearnTable, NptCommand
  <2> QED
    BY <2>1, <2>2
<1>6. /\ NptCommand \in At(NptTable) /\ LearnCommand \in At(LearnTable)
      /\ NptCommand \notin At(LearnTable) /\ LearnCommand \notin At(NptTable)
      /\ NptCommand \in Command /\ LearnCommand \in Command
  <2>1. NptCommand \in At(NptTable) /\ LearnCommand \in At(LearnTable)
    BY PlacesOf, CommandsSorted DEF NptCommand, LearnCommand
  <2>2. At(NptTable) \cap At(LearnTable) = {}
    BY FamiliesApart
  <2> QED
    BY <2>1, <2>2 DEF At
<1>7. a \in Seq(Command) /\ b \in Seq(Command)
  BY <1>1, <1>2, <1>4, <1>6, Short, Zenon
<1>8. \A C : Sel(a \o b, C) = Sel(a, C) \o Sel(b, C)
  BY <1>7, SelConcat, Zenon
<1>9. \A C : Sel(e, C) = e
  BY <1>1, SelEmpty, Zenon
<1>10. /\ Sel(n, At(NptTable)) = n /\ Sel(n, At(LearnTable)) = e
       /\ Sel(l, At(LearnTable)) = l /\ Sel(l, At(NptTable)) = e
  BY <1>1, <1>2, <1>6, SelFew, Zenon
<1>11. n \o e = n /\ e \o l = l /\ l # e /\ n # e
  <2>1. n \in Seq(Command) /\ l \in Seq(Command)
    BY <1>2, <1>6, Short, Zenon
  <2>2. n \o e = n /\ e \o l = l
    BY <1>1, <2>1, NoneBefore, Zenon
  <2>3. <<NptCommand>> # <<>> /\ <<LearnCommand>> # <<>>
    OBVIOUS
  <2> QED
    BY <1>1, <1>2, <2>2, <2>3, Zenon
<1>12. Sel(NptActions(u), At(NptTable)) = a
  <2>1. Sel(a, At(NptTable)) = a /\ Sel(b, At(NptTable)) = e
    BY <1>4, <1>9, <1>10, Zenon
  <2>2. a \o e = a
    BY <1>1, <1>4, <1>11, Zenon
  <2> QED
    BY <1>5, <1>8, <2>1, <2>2, Zenon
<1>13. Sel(NptActions(u), At(LearnTable)) = b
  <2>1. Sel(a, At(LearnTable)) = e /\ Sel(b, At(LearnTable)) = b
    BY <1>4, <1>9, <1>10, Zenon
  <2>2. e \o b = b
    BY <1>1, <1>4, <1>11, Zenon
  <2> QED
    BY <1>5, <1>8, <2>1, <2>2, Zenon
<1>14. u = "nothing" => (Translates <=> ~lacksN) /\ (Learns <=> ~lacksL)
  <2>1. \A t \in {NptTable, LearnTable} : Read(t, "nothing") = table[t]
    BY DEF Read, NptTable, LearnTable
  <2> QED
    BY <1>3, <2>1 DEF Translates, Learns
<1>15. (a = e <=> ~lacksN) /\ (b = e <=> ~lacksL)
  BY <1>4, <1>11, Zenon
<1> QED
  BY <1>1, <1>2, <1>4, <1>5, <1>12, <1>13, <1>14, <1>15, Zenon

LEMMA Mangle6Is ==
  ASSUME NEW u
  PROVE  Mangle6Actions(u) = IF NftNeedsRestore("ip6", TableWant("ip6"), u)
                             THEN NftActions("ip6", TableWant("ip6")) ELSE <<>>
<1>1. TableWant("ip6") = DesiredMarkRules6[conf][mapped]
  BY Zenon DEF TableWant
<1> QED
  BY <1>1, Zenon DEF Mangle6Actions

\* What is wanted does not change while a pass runs.
LEMMA WantsKept ==
  ASSUME conf' = conf, mapped' = mapped
  PROVE  /\ \A f \in {"ip", "inet", "ip6"} : TableWant(f)' = TableWant(f)
         /\ NptTable' = NptTable /\ LearnTable' = LearnTable
         /\ NptCommand' = NptCommand /\ LearnCommand' = LearnCommand
  BY DEF TableWant, NptTable, LearnTable, NptCommand, LearnCommand

LEMMA TablesPlan ==
  ASSUME TypeOK, NamesApart(conf), Plan
  PROVE  TablesInv'
<1>1. conf \in Configs /\ mapped \in Mappings
  BY DEF TypeOK
<1>2. /\ conf' = conf /\ mapped' = mapped /\ table' = table /\ pc' = "run" /\ disturbed' = FALSE
  BY DEF Plan, kernel
<1>3. PICK u :
        /\ ~failed' => u = "nothing"
        /\ \A f \in {"ip", "inet"} :
             Sel(batch', At(<<f, conf.table>>)) = Ordered(Sel(IpActions(u), At(<<f, conf.table>>)))
        /\ Sel(batch', At(<<"ip6", conf.table>>))
             = Ordered(Sel(Mangle6Actions(u), At(<<"ip6", conf.table>>)))
        /\ NPTv6Enabled(conf) => \A t \in {NptTable, LearnTable} :
             Sel(batch', At(t)) = Ordered(Sel(NptActions(u), At(t)))
  BY TablesSelected
<1>4. PICK w \in Seq(MarkRule), v \in Seq(MarkRule) : w = TableWant("ip") /\ v = TableWant("ip6")
  BY <1>1, TableWantTyped
<1>5. TableWant("inet") = <<>>
  BY DEF TableWant
<1>6. PICK i, n, s : i = <<"ip", conf.table>> /\ n = <<"inet", conf.table>> /\ s = <<"ip6", conf.table>>
  OBVIOUS
<1>7. i \in Place /\ n \in Place /\ s \in Place /\ NptTable \in Place /\ LearnTable \in Place
  BY <1>1, <1>6, PlacesOf
<1>8. /\ Ordered(TableProgramme(i, w)) = TableProgramme(i, w)
      /\ Ordered(TableProgramme(s, v)) = TableProgramme(s, v)
      /\ Ordered(TableProgramme(n, <<>>)) = TableProgramme(n, <<>>)
      /\ Ordered(<<>>) = <<>>
  BY <1>7, Short, TableProgrammeOrdered, OrderedPlain, Zenon
<1>9. \A C : Sel(<<>>, C) = <<>>
  BY SelEmpty, Zenon
<1>10. ASSUME NEW x \in Seq(MarkRule)
       PROVE  /\ Sel(NftActions("ip", x), At(i)) = TableProgramme(i, x)
              /\ Sel(NftActions("ip", x), At(n)) = TableProgramme(n, <<>>)
              /\ Sel(NftActions("ip6", x), At(s)) = TableProgramme(s, x)
  <2>1. "ip" \in {"ip", "ip6"} /\ "ip6" \in {"ip", "ip6"}
    OBVIOUS
  <2> QED
    BY <1>1, <1>6, <2>1, NftSel, Zenon DEF TableProgramme
<1>11. /\ \/ Sel(batch', At(i)) = TableProgramme(i, w)
          \/ Sel(batch', At(i)) = <<>> /\ (~failed' => Marked(i, w))
       /\ \/ Sel(batch', At(n)) = TableProgramme(n, <<>>)
          \/ Sel(batch', At(n)) = <<>> /\ (~failed' => ~table[n].there)
  <2>1. /\ Sel(batch', At(i)) = Ordered(Sel(IpActions(u), At(i)))
        /\ Sel(batch', At(n)) = Ordered(Sel(IpActions(u), At(n)))
    BY <1>3, <1>6
  <2>2. IpActions(u) = IF NftNeedsRestore("ip", w, u) THEN NftActions("ip", w) ELSE <<>>
    BY <1>4, Zenon DEF IpActions
  <2>3. ~NftNeedsRestore("ip", w, "nothing") => Marked(i, w) /\ ~table[n].there
    BY <1>6, NftSettled
  <2> QED
    BY <1>3, <1>8, <1>9, <1>10, <2>1, <2>2, <2>3, Zenon
<1>12. \/ Sel(batch', At(s)) = TableProgramme(s, v)
       \/ Sel(batch', At(s)) = <<>> /\ (~failed' => Marked(s, v))
  <2>1. Sel(batch', At(s)) = Ordered(Sel(Mangle6Actions(u), At(s)))
    BY <1>3, <1>6
  <2>2. Mangle6Actions(u) = IF NftNeedsRestore("ip6", v, u) THEN NftActions("ip6", v) ELSE <<>>
    BY <1>4, Mangle6Is, Zenon
  <2>3. ~NftNeedsRestore("ip6", v, "nothing") => Marked(s, v)
    BY <1>6, NftSettled
  <2> QED
    BY <1>3, <1>8, <1>9, <1>10, <2>1, <2>2, <2>3, Zenon
<1>13. MarkTableInv(i, w)' /\ MarkTableInv(n, <<>>)' /\ MarkTableInv(s, v)'
  <2>1. Sound' => ~failed'
    BY DEF Sound
  <2>2. MarkTableInv(i, w)'
    BY <1>2, <1>11, <2>1 DEF MarkTableInv, Marked
  <2>3. MarkTableInv(n, <<>>)'
    BY <1>2, <1>11, <2>1 DEF MarkTableInv, Marked
  <2>4. MarkTableInv(s, v)'
    BY <1>2, <1>12, <2>1 DEF MarkTableInv, Marked
  <2> QED
    BY <2>2, <2>3, <2>4
<1>14. NPTv6Enabled(conf) =>
         /\ \/ Sel(batch', At(NptTable)) = <<NptCommand>>
            \/ Sel(batch', At(NptTable)) = <<>> /\ (~failed' => Translates)
         /\ \/ Sel(batch', At(LearnTable)) = <<LearnCommand>>
            \/ Sel(batch', At(LearnTable)) = <<>> /\ (~failed' => Learns)
  <2> SUFFICES ASSUME NPTv6Enabled(conf)
               PROVE  /\ \/ Sel(batch', At(NptTable)) = <<NptCommand>>
                         \/ Sel(batch', At(NptTable)) = <<>> /\ (~failed' => Translates)
                      /\ \/ Sel(batch', At(LearnTable)) = <<LearnCommand>>
                         \/ Sel(batch', At(LearnTable)) = <<>> /\ (~failed' => Learns)
    OBVIOUS
  <2>1. /\ Sel(batch', At(NptTable)) = Ordered(Sel(NptActions(u), At(NptTable)))
        /\ Sel(batch', At(LearnTable)) = Ordered(Sel(NptActions(u), At(LearnTable)))
    BY <1>3
  <2>2. NptCommand \in Command /\ LearnCommand \in Command
    BY <1>7, TableCommands DEF NptCommand, LearnCommand
  <2>3. Ordered(<<NptCommand>>) = <<NptCommand>> /\ Ordered(<<LearnCommand>>) = <<LearnCommand>>
    BY <2>2, OrderedPlain, Zenon
  <2>4. /\ Sel(NptActions(u), At(NptTable)) \in {<<>>, <<NptCommand>>}
        /\ Sel(NptActions(u), At(LearnTable)) \in {<<>>, <<LearnCommand>>}
        /\ u = "nothing" /\ Sel(NptActions(u), At(NptTable)) = <<>> => Translates
        /\ u = "nothing" /\ Sel(NptActions(u), At(LearnTable)) = <<>> => Learns
    BY <1>1, NptPlanned, Zenon
  <2> QED
    BY <1>3, <1>8, <2>1, <2>3, <2>4, Zenon
<1>15. NPTv6Enabled(conf) => NptInv' /\ LearnInv'
  <2>1. /\ NptTable' = NptTable /\ LearnTable' = LearnTable
        /\ NptCommand' = NptCommand /\ LearnCommand' = LearnCommand
    BY <1>2 DEF NptTable, LearnTable, NptCommand, LearnCommand
  <2>2. Translates' = Translates /\ Learns' = Learns
    BY <1>2, <2>1 DEF Translates, Learns
  <2>3. Sound' => ~failed'
    BY DEF Sound
  <2> QED
    BY <1>14, <2>1, <2>2, <2>3 DEF NptInv, LearnInv
<1> QED
  BY <1>2, <1>4, <1>5, <1>6, <1>13, <1>15, WantsKept DEF TablesInv

LEMMA FewTails == \A x, y : /\ Head(<<x>>) = x /\ Tail(<<x>>) = <<>>
                            /\ Head(<<x, y>>) = x /\ Tail(<<x, y>>) = <<y>>
<1> TAKE x, y
<1>1. Head(<<x>>) = x /\ Tail(<<x>>) = <<>>
  OBVIOUS
<1>2. Head(<<x, y>>) = x /\ Tail(<<x, y>>) = <<y>>
  OBVIOUS
<1> QED
  BY <1>1, <1>2

\* A command on one table leaves the others.
LEMMA TableUntouched ==
  ASSUME TypeOK, NEW c \in Command, NEW t \in Place, c \notin At(t), Effect(c) \/ UNCHANGED kernel
  PROVE  table'[t] = table[t]
<1>1. CASE UNCHANGED kernel
  BY <1>1 DEF kernel
<1>2. CASE Effect(c) /\ c.do \in {"write", "npt", "learn", "delete", "forget"}
  <2>1. table' = [table EXCEPT ![c.at] = Written(c)] /\ c.at # t
    BY <1>2, EffectIs DEF At
  <2> QED
    BY <2>1 DEF TypeOK
<1>3. CASE Effect(c) /\ c.do \notin {"write", "npt", "learn", "delete", "forget"}
  BY <1>3, EffectIs, CommandShape
<1> QED
  BY <1>1, <1>2, <1>3

\* What a command that did not fail has made of its table.
LEMMA TableTouched ==
  ASSUME TypeOK, NEW c \in Command, NEW t \in Place, c \in At(t),
         (~Refused(c) /\ Effect(c)) \/ (Refused(c) /\ UNCHANGED kernel)
  PROVE  /\ c.do \in {"delete", "forget"} => ~table'[t].there
         /\ c.do \in {"npt", "learn"} => c.do \in table'[t].holds
         /\ c.do = "write" /\ ~table[t].there =>
              /\ table'[t].there /\ table'[t].prerouting = Held(c.rules)
              /\ t[1] = "ip" => table'[t].output = Held(c.rules)
<1>1. c.at = t /\ c.do \in {"delete", "forget", "write", "npt", "learn"}
  BY DEF At
<1>2. CASE Refused(c) /\ UNCHANGED kernel
  <2>1. c.do \in {"delete", "forget"} /\ ~table[t].there
    BY <1>1, <1>2 DEF Refused
  <2> QED
    BY <1>2, <2>1 DEF kernel
<1>3. CASE ~Refused(c) /\ Effect(c)
  <2>1. table' = [table EXCEPT ![c.at] = Written(c)]
    BY <1>1, <1>3, EffectIs
  <2>2. table'[t] = Written(c)
    BY <1>1, <2>1 DEF TypeOK
  <2>3. CASE c.do \in {"delete", "forget"}
    <3>1. Written(c) = Absent
      BY <2>3 DEF Written
    <3> QED
      BY <2>2, <2>3, <3>1, AbsentTyped
  <2>4. CASE c.do \in {"npt", "learn"}
    <3>1. Written(c) = Bare({c.do})
      BY <2>4 DEF Written
    <3> QED
      BY <2>2, <2>4, <3>1 DEF Bare
  <2>5. CASE c.do = "write" /\ ~table[t].there
    <3>1. table[t] = Absent
      BY <2>5 DEF TypeOK
    <3>2. PICK r \in Seq(HeldRule), e \in Seq(HeldRule) : r = Held(c.rules) /\ e = <<>>
      BY <2>5, CommandShape, HeldTyped, Short
    <3>3. e \o r = r
      BY <3>2, NoneBefore, Zenon
    <3>4. Absent.prerouting = e /\ Absent.output = e
      BY <3>2 DEF Absent
    <3>5. Written(c) = [there |-> TRUE, holds |-> table[t].holds, prerouting |-> table[t].prerouting \o Held(c.rules),
                        output |-> IF t[1] = "ip" THEN table[t].output \o Held(c.rules) ELSE table[t].output]
      BY <1>1, <2>5, Zenon DEF Written
    <3>6. table[t].prerouting \o Held(c.rules) = r /\ table[t].output \o Held(c.rules) = r
      BY <3>1, <3>2, <3>3, <3>4, Zenon
    <3>7. Written(c) = [there |-> TRUE, holds |-> table[t].holds, prerouting |-> r,
                        output |-> IF t[1] = "ip" THEN r ELSE table[t].output]
      BY <3>5, <3>6, Zenon
    <3> QED
      BY <2>2, <2>5, <3>2, <3>7
  <2>6. CASE c.do = "write" /\ table[t].there
    BY <2>6
  <2> QED
    BY <1>1, <2>3, <2>4, <2>5, <2>6
<1> QED
  BY <1>2, <1>3

\* A table of marks is deleted before it is written, and then it is as wanted.
LEMMA MarkTableRun ==
  ASSUME TypeOK, Run, NEW t \in Place, NEW w \in Seq(MarkRule), MarkTableInv(t, w)
  PROVE  MarkTableInv(t, w)'
<1>1. PICK c : c = Head(batch)
  OBVIOUS
<1>2. /\ c \in Command
      /\ Effect(c) \/ UNCHANGED kernel
      /\ Sound' => /\ Sound
                   /\ (~Refused(c) /\ Effect(c)) \/ (Refused(c) /\ UNCHANGED kernel)
  BY <1>1, RunOutcome
<1>3. CASE c \notin At(t)
  <2>1. Sel(batch', At(t)) = Sel(batch, At(t))
    BY <1>1, <1>3, ThreadGoesOn
  <2>2. table'[t] = table[t]
    BY <1>2, <1>3, TableUntouched
  <2> QED
    BY <1>2, <2>1, <2>2 DEF MarkTableInv, Marked
<1>4. CASE c \in At(t)
  <2>1. /\ Sel(batch, At(t)) # <<>> /\ Head(Sel(batch, At(t))) = c
        /\ Sel(batch', At(t)) = Tail(Sel(batch, At(t)))
    BY <1>1, <1>4, ThreadGoesOn
  <2>2. Sound' => /\ Sound
                  /\ c.do = "delete" => ~table'[t].there
                  /\ c.do = "write" /\ ~table[t].there =>
                       /\ table'[t].there /\ table'[t].prerouting = Held(c.rules)
                       /\ t[1] = "ip" => table'[t].output = Held(c.rules)
    BY <1>2, <1>4, TableTouched
  <2>3. Delete(t).do = "delete" /\ Write(t, w).do = "write" /\ Write(t, w).rules = w
    BY DEF Delete, Write
  <2>4. CASE Sel(batch, At(t)) = TableProgramme(t, w)
    <3>1. CASE w = <<>>
      <4>1. c = Delete(t) /\ Sel(batch', At(t)) = <<>>
        BY <2>1, <2>4, <3>1, FewTails, Zenon DEF TableProgramme
      <4> QED
        BY <2>2, <2>3, <3>1, <4>1 DEF MarkTableInv, Marked
    <3>2. CASE w # <<>>
      <4>1. c = Delete(t) /\ Sel(batch', At(t)) = <<Write(t, w)>>
        BY <2>1, <2>4, <3>2, FewTails, Zenon DEF TableProgramme
      <4>2. Sound' => ~table'[t].there
        BY <2>2, <2>3, <4>1
      <4> QED
        BY <3>2, <4>1, <4>2, Zenon DEF MarkTableInv
    <3> QED
      BY <3>1, <3>2
  <2>5. CASE w # <<>> /\ Sel(batch, At(t)) = <<Write(t, w)>> /\ (Sound => ~table[t].there)
    <3>1. c = Write(t, w) /\ Sel(batch', At(t)) = <<>>
      BY <2>1, <2>5, FewTails, Zenon
    <3> QED
      BY <2>2, <2>3, <2>5, <3>1 DEF MarkTableInv, Marked
  <2> QED
    BY <2>1, <2>4, <2>5 DEF MarkTableInv
<1> QED
  BY <1>3, <1>4

LEMMA NptRun ==
  ASSUME TypeOK, Run, NptInv, LearnInv
  PROVE  NptInv' /\ LearnInv'
<1>1. PICK c : c = Head(batch)
  OBVIOUS
<1>2. /\ c \in Command /\ conf' = conf /\ mapped' = mapped
      /\ Effect(c) \/ UNCHANGED kernel
      /\ Sound' => /\ Sound
                   /\ (~Refused(c) /\ Effect(c)) \/ (Refused(c) /\ UNCHANGED kernel)
  BY <1>1, RunOutcome
<1>3. NptTable \in Place /\ LearnTable \in Place
  BY PlacesOf DEF TypeOK
<1>4. /\ NptTable' = NptTable /\ LearnTable' = LearnTable
      /\ NptCommand' = NptCommand /\ LearnCommand' = LearnCommand
  BY <1>2, WantsKept
<1>5. NptInv'
  <2>1. CASE c \notin At(NptTable)
    <3>1. Sel(batch', At(NptTable)) = Sel(batch, At(NptTable))
      BY <1>1, <2>1, ThreadGoesOn
    <3>2. table'[NptTable] = table[NptTable]
      BY <1>2, <1>3, <2>1, TableUntouched
    <3> QED
      BY <1>2, <1>4, <3>1, <3>2 DEF NptInv, Translates
  <2>2. CASE c \in At(NptTable)
    <3>1. /\ Sel(batch, At(NptTable)) # <<>> /\ Head(Sel(batch, At(NptTable))) = c
          /\ Sel(batch', At(NptTable)) = Tail(Sel(batch, At(NptTable)))
      BY <1>1, <2>2, ThreadGoesOn
    <3>2. Sel(batch, At(NptTable)) = <<NptCommand>>
      BY <3>1 DEF NptInv
    <3>3. c = NptCommand /\ Sel(batch', At(NptTable)) = <<>>
      BY <3>1, <3>2, FewTails, Zenon
    <3>4. c.do = "npt"
      BY <3>3 DEF NptCommand
    <3>5. Sound' => "npt" \in table'[NptTable].holds
      BY <1>2, <1>3, <2>2, <3>4, TableTouched
    <3> QED
      BY <1>4, <3>3, <3>5 DEF NptInv, Translates
  <2> QED
    BY <2>1, <2>2
<1>6. LearnInv'
  <2>1. CASE c \notin At(LearnTable)
    <3>1. Sel(batch', At(LearnTable)) = Sel(batch, At(LearnTable))
      BY <1>1, <2>1, ThreadGoesOn
    <3>2. table'[LearnTable] = table[LearnTable]
      BY <1>2, <1>3, <2>1, TableUntouched
    <3> QED
      BY <1>2, <1>4, <3>1, <3>2 DEF LearnInv, Learns
  <2>2. CASE c \in At(LearnTable)
    <3>1. /\ Sel(batch, At(LearnTable)) # <<>> /\ Head(Sel(batch, At(LearnTable))) = c
          /\ Sel(batch', At(LearnTable)) = Tail(Sel(batch, At(LearnTable)))
      BY <1>1, <2>2, ThreadGoesOn
    <3>2. Sel(batch, At(LearnTable)) = <<LearnCommand>>
      BY <3>1 DEF LearnInv
    <3>3. c = LearnCommand /\ Sel(batch', At(LearnTable)) = <<>>
      BY <3>1, <3>2, FewTails, Zenon
    <3>4. c.do = IF NdpUplinks(conf) # {} THEN "learn" ELSE "forget"
      BY <3>3 DEF LearnCommand
    <3>5. Sound' => IF NdpUplinks(conf) # {} THEN "learn" \in table'[LearnTable].holds
                    ELSE ~table'[LearnTable].there
      BY <1>2, <1>3, <2>2, <3>4, TableTouched
    <3> QED
      BY <1>2, <1>4, <3>3, <3>5 DEF LearnInv, Learns
  <2> QED
    BY <2>1, <2>2
<1> QED
  BY <1>5, <1>6

LEMMA TablesRun ==
  ASSUME TypeOK, TablesInv, Run, pc = "run"
  PROVE  TablesInv'
<1>1. conf' = conf /\ mapped' = mapped /\ conf \in Configs /\ mapped \in Mappings
  BY DEF TypeOK, Run
<1>2. \A f \in {"ip", "inet", "ip6"} : MarkTableInv(<<f, conf.table>>, TableWant(f))'
  <2> TAKE f \in {"ip", "inet", "ip6"}
  <2>1. PICK t \in Place, w \in Seq(MarkRule) : t = <<f, conf.table>> /\ w = TableWant(f)
    BY <1>1, PlacesOf, TableWantTyped
  <2>2. MarkTableInv(t, w)'
    BY <2>1, MarkTableRun DEF TablesInv
  <2>3. TableWant(f)' = w
    BY <1>1, <2>1, WantsKept
  <2> QED
    BY <1>1, <2>1, <2>2, <2>3
<1>3. NPTv6Enabled(conf) => NptInv' /\ LearnInv'
  BY NptRun DEF TablesInv
<1> QED
  BY <1>1, <1>2, <1>3 DEF TablesInv

\* Nothing that others do is taken for what a pass has done.
LEMMA TablesStep ==
  (\A c \in Configs : NamesApart(c)) /\ TypeOK /\ PhaseInv /\ TablesInv /\ [Next]_vars => TablesInv'
<1> SUFFICES ASSUME \A c \in Configs : NamesApart(c), TypeOK, PhaseInv, TablesInv, [Next]_vars
             PROVE  TablesInv'
  OBVIOUS
<1>1. CASE Plan
  BY <1>1, TablesPlan DEF TypeOK
<1>2. CASE Run
  <2>1. CASE pc = "run"
    BY <1>2, <2>1, TablesRun
  <2>2. CASE pc # "run"
    BY <1>2, <2>2 DEF Run, TablesInv
  <2> QED
    BY <2>1, <2>2
<1>3. CASE Crash \/ MappedChanges \/ PassDone \/ Shutdown \/ CleanupDone
  <2>1. pc' # "run"
    BY <1>3 DEF Crash, MappedChanges, PassDone, Shutdown, CleanupDone
  <2> QED
    BY <2>1 DEF TablesInv
<1>4. CASE NftWiped \/ ChainFlushed \/ (\E h \in Hooks : JumpRemoved(h)) \/ UNCHANGED vars
  <2>1. /\ conf' = conf /\ mapped' = mapped /\ pc' = pc /\ batch' = batch
        /\ Sound' => (Sound /\ table' = table)
    BY <1>4 DEF NftWiped, ChainFlushed, JumpRemoved, Change, vars, kernel, counts, Sound
  <2> SUFFICES ASSUME pc = "run"
               PROVE  TablesInv'
    BY <2>1 DEF TablesInv
  <2>2. \A f \in {"ip", "inet", "ip6"} : MarkTableInv(<<f, conf.table>>, TableWant(f))'
    <3> TAKE f \in {"ip", "inet", "ip6"}
    <3>1. PICK t, w : t = <<f, conf.table>> /\ w = TableWant(f)
      OBVIOUS
    <3>2. MarkTableInv(t, w)
      BY <3>1 DEF TablesInv
    <3>3. MarkTableInv(t, w)'
      BY <2>1, <3>2 DEF MarkTableInv, Marked
    <3>4. TableWant(f)' = w
      BY <2>1, <3>1, WantsKept
    <3> QED
      BY <2>1, <3>1, <3>3, <3>4
  <2>3. NPTv6Enabled(conf) => NptInv' /\ LearnInv'
    <3>1. /\ NptTable' = NptTable /\ LearnTable' = LearnTable
          /\ NptCommand' = NptCommand /\ LearnCommand' = LearnCommand
      BY <2>1, WantsKept
    <3> QED
      BY <2>1, <3>1 DEF TablesInv, NptInv, LearnInv, Translates, Learns
  <2> QED
    BY <2>1, <2>2, <2>3 DEF TablesInv
<1> QED
  BY <1>1, <1>2, <1>3, <1>4 DEF Next, Surroundings, Reconciler

-----------------------------------------------------------------------------
(* A pass that comes to its end.                                            *)

LEMMA ChainComes ==
  ASSUME TypeOK, ChainInv, pc = "run", batch = <<>>, Sound
  PROVE  ChainIsWanted(Wanted)
<1>1. ChainWant = Wanted
  BY DEF ChainWant
<1>2. PICK W \in Seq(MarkRule) : W = Wanted
  BY WantedTyped DEF TypeOK
<1>3. PICK P \in Seq(Ipt) : P = IptablesActions(W) /\ Len(P) = IF W = <<>> THEN 5 ELSE Len(W) + 8
  BY ProgrammeIs, Zenon
<1>4. PICK k \in 1..(Len(P) + 1) : Sel(batch, Ipt) = SubSeq(P, k, Len(P)) /\ Made(W, k)
  BY <1>1, <1>2, <1>3, Zenon DEF ChainInv
<1>5. Sel(batch, Ipt) = <<>>
  BY SelEmpty, Zenon
<1>6. k = Len(P) + 1
  BY <1>4, <1>5, Rest
<1>7. CASE W = <<>>
  <2>1. k = 6
    BY <1>3, <1>6, <1>7
  <2>2. ~chain.there
    BY <1>4, <2>1 DEF Made
  <2> QED
    BY <1>2, <1>7, <2>2 DEF ChainIsWanted
<1>8. CASE W # <<>>
  <2>1. Len(W) \in Nat /\ k = Len(W) + 9
    BY <1>3, <1>6, <1>8
  <2>2. /\ chain.there
        /\ chain.rules = SubSeq(W, 1, IF k - 7 < Len(W) THEN k - 7 ELSE Len(W))
        /\ jumps["OUTPUT"] > 0 /\ jumps["PREROUTING"] > 0
    BY <1>4, <2>1 DEF Made
  <2>3. (IF k - 7 < Len(W) THEN k - 7 ELSE Len(W)) = Len(W)
    BY <2>1
  <2>4. SubSeq(W, 1, Len(W)) = W
    BY SubSeqFull, Zenon
  <2> QED
    BY <1>2, <1>8, <2>2, <2>3, <2>4 DEF ChainIsWanted
<1> QED
  BY <1>7, <1>8

LEMMA TablesCome ==
  ASSUME TypeOK, TablesInv, pc = "run", batch = <<>>, Sound
  PROVE  TablesAreWanted
<1>1. \A C : Sel(batch, C) = <<>>
  BY SelEmpty, Zenon
<1>2. \A x, y : <<x>> # <<>> /\ <<x, y>> # <<>>
  <2>1. \A x : <<x>> # <<>>
    OBVIOUS
  <2>2. \A x, y : <<x, y>> # <<>>
    OBVIOUS
  <2> QED
    BY <2>1, <2>2
<1>3. \A f \in {"ip", "inet", "ip6"} : Marked(<<f, conf.table>>, TableWant(f))
  <2> TAKE f \in {"ip", "inet", "ip6"}
  <2>1. MarkTableInv(<<f, conf.table>>, TableWant(f))
    BY DEF TablesInv
  <2> QED
    BY <1>1, <1>2, <2>1, Zenon DEF MarkTableInv, TableProgramme
<1>4. NPTv6Enabled(conf) => Translates /\ Learns
  <2>1. NPTv6Enabled(conf) => NptInv /\ LearnInv
    BY DEF TablesInv
  <2> QED
    BY <1>1, <1>2, <2>1, Zenon DEF NptInv, LearnInv
<1> QED
  BY <1>3, <1>4 DEF TablesAreWanted

LEMMA SettledStarts == Init => TablesInv /\ SettledInv
  BY DEF Init, TablesInv, SettledInv

LEMMA SettledStep ==
  TypeOK /\ ChainInv /\ TablesInv /\ SettledInv /\ [Next]_vars => SettledInv'
<1> SUFFICES ASSUME TypeOK, ChainInv, TablesInv, SettledInv, [Next]_vars
             PROVE  SettledInv'
  OBVIOUS
<1>1. CASE Surroundings \/ Run
  <2>1. settled' = FALSE
    BY <1>1 DEF Surroundings, Run, Crash, MappedChanges, NftWiped, ChainFlushed, JumpRemoved, Change
  <2> QED
    BY <2>1 DEF SettledInv
<1>2. CASE Plan \/ PassDone \/ Shutdown \/ CleanupDone \/ UNCHANGED vars
  <2>1. /\ conf' = conf /\ mapped' = mapped /\ table' = table /\ chain' = chain /\ jumps' = jumps
    BY <1>2 DEF Plan, PassDone, Shutdown, CleanupDone, vars, kernel, counts
  <2>2. settled' => TablesAreWanted /\ ChainIsWanted(Wanted)
    <3>1. CASE PassDone
      <4>1. settled' => Sound /\ pc = "run" /\ batch = <<>>
        BY <3>1 DEF PassDone, Sound
      <4> QED
        BY <4>1, ChainComes, TablesCome
    <3>2. CASE Plan \/ Shutdown \/ CleanupDone \/ UNCHANGED vars
      <4>1. settled' = settled
        BY <3>2 DEF Plan, Shutdown, CleanupDone, vars
      <4> QED
        BY <4>1 DEF SettledInv
    <3> QED
      BY <1>2, <3>1, <3>2
  <2>3. TablesAreWanted' = TablesAreWanted
    BY <2>1 DEF TablesAreWanted, Marked, TableWant, Translates, Learns, NptTable, LearnTable
  <2>4. ChainIsWanted(Wanted)' = ChainIsWanted(Wanted)
    BY <2>1 DEF ChainIsWanted, Wanted
  <2> QED
    BY <2>2, <2>3, <2>4 DEF SettledInv
<1> QED
  BY <1>1, <1>2 DEF Next, Reconciler

LEMMA NdpIsNpt == NdpUplinks(conf) # {} => NPTv6Enabled(conf)
  BY DEF NdpUplinks, NPTv6Enabled

LEMMA Meets ==
  ASSUME TypeOK, TablesAreWanted, ChainIsWanted(Wanted), NEW h \in {"OUTPUT", "PREROUTING"}
  PROVE  Met(h) \ {<<>>} = {Held(DesiredMarkRules[conf])} \ {<<>>}
<1>1. PICK t, W : t = <<"ip", conf.table>> /\ W = DesiredMarkRules[conf]
  OBVIOUS
<1>2. t \in Place /\ t[1] = "ip" /\ jumps[h] \in Nat /\ (jumps[h] > 0 => chain.there)
  BY <1>1, PlacesOf, HooksAre, Constants DEF TypeOK
<1>3. Marked(t, TableWant("ip"))
  BY <1>1 DEF TablesAreWanted
<1>4. Met(h) = (IF jumps[h] > 0 THEN {Held(chain.rules)} ELSE {})
                 \cup {IF h = "OUTPUT" THEN table[t].output ELSE table[t].prerouting}
  BY <1>1 DEF Met
<1>5. ~table[t].there => table[t].output = <<>> /\ table[t].prerouting = <<>>
  <2>1. Absent.output = <<>> /\ Absent.prerouting = <<>>
    BY DEF Absent
  <2> QED
    BY <1>2, <2>1 DEF TypeOK
<1>6. CASE conf.firewall = "nftables"
  <2>1. TableWant("ip") = W /\ Wanted = <<>>
    BY <1>1, <1>6 DEF TableWant, Wanted
  <2>2. ~(jumps[h] > 0)
    BY <1>2, <2>1 DEF ChainIsWanted
  <2>3. (IF h = "OUTPUT" THEN table[t].output ELSE table[t].prerouting) = Held(W)
    BY <1>2, <1>3, <1>5, <2>1, HeldEmpty DEF Marked
  <2>4. Met(h) = {Held(W)}
    BY <1>4, <2>2, <2>3
  <2> QED
    BY <1>1, <2>4
<1>7. CASE conf.firewall = "iptables"
  <2>1. TableWant("ip") = <<>> /\ Wanted = W
    BY <1>1, <1>7 DEF TableWant, Wanted
  <2>2. (IF h = "OUTPUT" THEN table[t].output ELSE table[t].prerouting) = <<>>
    BY <1>3, <1>5, <2>1 DEF Marked
  <2>3. IF W = <<>> THEN ~(jumps[h] > 0) ELSE jumps[h] > 0 /\ chain.rules = W
    BY <1>2, <2>1 DEF ChainIsWanted
  <2>4. Met(h) = IF W = <<>> THEN {<<>>} ELSE {Held(W), <<>>}
    BY <1>4, <2>2, <2>3
  <2> QED
    BY <1>1, <2>4, HeldEmpty
<1> QED
  BY <1>6, <1>7, Backends DEF TypeOK

LEMMA Settles ==
  ASSUME TypeOK, ChainInv, TablesInv
  PROVE  PassSettles
<1> SUFFICES ASSUME pc = "run", batch = <<>>, ~failed, ~disturbed
             PROVE  /\ \A h \in ToSet(iptHooks) : Met(h) \ {<<>>} = {Held(DesiredMarkRules[conf])} \ {<<>>}
                    /\ table[<<"ip6", conf.table>>].prerouting = Held(DesiredMarkRules6[conf][mapped])
                    /\ ~table[<<"inet", conf.table>>].there
                    /\ NPTv6Enabled(conf) => "npt" \in table[<<"ip6", NPTv6Table(conf)>>].holds
                    /\ NdpUplinks(conf) # {} => "learn" \in table[<<"ip6", NPTv6NdpTable(conf)>>].holds
  BY Zenon DEF PassSettles
<1>1. TablesAreWanted /\ ChainIsWanted(Wanted)
  BY ChainComes, TablesCome DEF Sound
<1>2. \A h \in ToSet(iptHooks) : Met(h) \ {<<>>} = {Held(DesiredMarkRules[conf])} \ {<<>>}
  BY <1>1, Meets, HooksAre
<1>3. table[<<"ip6", conf.table>>].prerouting = Held(DesiredMarkRules6[conf][mapped])
  <2>1. PICK t, w : t = <<"ip6", conf.table>> /\ w = DesiredMarkRules6[conf][mapped]
    OBVIOUS
  <2>2. TableWant("ip6") = w
    BY <2>1, Zenon DEF TableWant
  <2>3. Marked(t, w) /\ t \in Place
    BY <1>1, <2>1, <2>2, PlacesOf DEF TablesAreWanted, TypeOK
  <2>4. Absent.prerouting = <<>> /\ (~table[t].there => table[t] = Absent)
    BY <2>3 DEF Absent, TypeOK
  <2> QED
    BY <2>1, <2>3, <2>4, HeldEmpty DEF Marked
<1>4. ~table[<<"inet", conf.table>>].there
  <2>1. TableWant("inet") = <<>>
    BY DEF TableWant
  <2>2. Marked(<<"inet", conf.table>>, <<>>)
    BY <1>1, <2>1 DEF TablesAreWanted
  <2> QED
    BY <2>2 DEF Marked
<1>5. /\ NPTv6Enabled(conf) => "npt" \in table[<<"ip6", NPTv6Table(conf)>>].holds
      /\ NdpUplinks(conf) # {} => "learn" \in table[<<"ip6", NPTv6NdpTable(conf)>>].holds
  BY <1>1, NdpIsNpt DEF TablesAreWanted, Translates, Learns, NptTable, LearnTable
<1> QED
  BY <1>2, <1>3, <1>4, <1>5

\* A pass that finds everything as it is wanted plans nothing.
LEMMA LeftAlone ==
  ASSUME TypeOK, SettledInv, PortsAscend(conf), Plan, settled, ~failed'
  PROVE  batch' = <<>>
<1>1. conf \in Configs /\ mapped \in Mappings
  BY DEF TypeOK
<1>2. PICK u \in {"nothing", "ip", "inet", "ip6", "chain"} \cup ToSet(iptHooks) :
        /\ IF u = "nothing" THEN failed' = FALSE /\ UNCHANGED faults ELSE Fault("read") /\ failed' = TRUE
        /\ batch' = Ordered(BackendActions(u) \o UnusedActions(u) \o Mangle6Actions(u) \o NptActions(u))
  BY Zenon DEF Plan
<1>3. u = "nothing"
  BY <1>2
<1>4. TablesAreWanted /\ ChainIsWanted(Wanted)
  BY DEF SettledInv
<1>5. /\ Marked(<<"ip", conf.table>>, TableWant("ip")) /\ Marked(<<"ip6", conf.table>>, TableWant("ip6"))
      /\ ~table[<<"inet", conf.table>>].there
  <2>1. TableWant("inet") = <<>> /\ Marked(<<"inet", conf.table>>, TableWant("inet"))
    BY <1>4 DEF TablesAreWanted, TableWant
  <2> QED
    BY <1>4, <2>1 DEF TablesAreWanted, Marked
<1>6. /\ ~NftNeedsRestore("ip", TableWant("ip"), u) /\ ~NftNeedsRestore("ip6", TableWant("ip6"), u)
      /\ ~IptablesNeedsRestore(Wanted, u)
  BY <1>1, <1>3, <1>4, <1>5, WantListed, NftSettled, ChainSettled
<1>7. BackendActions(u) = <<>> /\ UnusedActions(u) = <<>>
  <2>1. CASE conf.firewall = "nftables"
    <3>1. TableWant("ip") = DesiredMarkRules[conf] /\ Wanted = <<>>
      BY <2>1 DEF TableWant, Wanted
    <3> QED
      BY <1>6, <2>1, <3>1, Zenon DEF BackendActions, UnusedActions
  <2>2. CASE conf.firewall = "iptables"
    <3>1. TableWant("ip") = <<>> /\ Wanted = DesiredMarkRules[conf] /\ conf.firewall # "nftables"
      BY <2>2 DEF TableWant, Wanted
    <3> QED
      BY <1>6, <3>1, Zenon DEF BackendActions, UnusedActions
  <2> QED
    BY <1>1, <2>1, <2>2, Backends
<1>8. Mangle6Actions(u) = <<>>
  BY <1>6, Mangle6Is, Zenon
<1>9. NptActions(u) = <<>>
  <2>1. CASE NPTv6Enabled(conf)
    BY <1>1, <1>3, <1>4, <2>1, NptPlanned DEF TablesAreWanted
  <2>2. CASE ~NPTv6Enabled(conf)
    BY <2>2, Zenon DEF NptActions
  <2> QED
    BY <2>1, <2>2
<1>10. PICK e : e = <<>> /\ e \o e = e
  <2>1. <<>> \o <<>> = <<>>
    OBVIOUS
  <2> QED
    BY <2>1, Zenon
<1>11. Ordered(e) = e
  BY <1>10, OrderedPlain, Zenon
<1> QED
  BY <1>2, <1>7, <1>8, <1>9, <1>10, <1>11, Zenon

MarksInv == TypeOK /\ PhaseInv /\ ChainInv /\ TablesInv /\ SettledInv

LEMMA MarksInductive ==
  (\A c \in Configs : NamesApart(c)) => (Init => MarksInv) /\ (MarksInv /\ [Next]_vars => MarksInv')
<1>1. Init => MarksInv
  BY TypeStarts, ChainStarts, SettledStarts DEF MarksInv
<1>2. (\A c \in Configs : NamesApart(c)) /\ MarksInv /\ [Next]_vars => MarksInv'
  BY TypeStep, ChainStep, TablesStep, SettledStep DEF MarksInv
<1> QED
  BY <1>1, <1>2

\* After a pass in which nothing failed and nobody interfered the kernel holds the marks of
\* the backend in use once, of both families, and nothing of the other backend or an earlier
\* version, whatever there was before: where no table's name is shared with NPTv6.
THEOREM PassesSettle == (\A c \in Configs : NamesApart(c)) => (Spec => []PassSettles)
<1> SUFFICES ASSUME \A c \in Configs : NamesApart(c)
             PROVE  Spec => []PassSettles
  OBVIOUS
<1>1. (Init => MarksInv) /\ (MarksInv /\ [Next]_vars => MarksInv')
  BY MarksInductive
<1>2. MarksInv => PassSettles
  BY Settles DEF MarksInv
<1> QED
  BY <1>1, <1>2, PTL DEF Spec

\* And a pass that follows one has nothing to do: what is there is recognised, where
\* moreover the ports that nftables is given are configured in their order, each once.
THEOREM SettledStays ==
  (\A c \in Configs : NamesApart(c) /\ PortsAscend(c)) => (Spec => SettledIsLeftAlone)
<1> SUFFICES ASSUME \A c \in Configs : NamesApart(c) /\ PortsAscend(c)
             PROVE  Spec => SettledIsLeftAlone
  OBVIOUS
<1>1. (Init => MarksInv) /\ (MarksInv /\ [Next]_vars => MarksInv')
  BY MarksInductive
<1>2. MarksInv /\ [Next]_vars => [Plan /\ settled /\ ~failed' => batch' = <<>>]_vars
  BY LeftAlone DEF MarksInv, TypeOK
<1> QED
  BY <1>1, <1>2, PTL DEF Spec, SettledIsLeftAlone
=============================================================================
