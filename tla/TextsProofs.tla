---------------------------- MODULE TextsProofs ----------------------------
(***************************************************************************)
(* What the operators of EncryptedTexts return, for lists of any length,   *)
(* and what follows for the slices that are shown and for the texts on the *)
(* disk.  The operators are recursive functions; what they return is shown *)
(* by induction over a set of numbers.                                     *)
(***************************************************************************)
EXTENDS Slices, StorageProofs, WellFoundedInduction

\* A set with 0 and, with each number below n, the next one, has all up to n.
LEMMA UpTo ==
    ASSUME NEW n \in Nat, NEW K, 0 \in K,
           \A k \in 0..n : k # n /\ k \in K => k + 1 \in K
    PROVE  \A k \in 0..n : k \in K
<1> DEFINE Missing == {k \in 0..n : k \notin K}
<1> SUFFICES ASSUME Missing # {} PROVE FALSE
  OBVIOUS
<1>1. Missing \in SUBSET Nat
  OBVIOUS
<1>2. PICK x \in Missing : \A y \in Missing : <<y, x>> \notin OpToRel(<, Nat)
  BY <1>1, WFMin, NatLessThanWellFounded, Zenon
<1>3. \A y \in Missing : ~ (y < x)
  BY <1>1, <1>2 DEF OpToRel
<1>4. x \in 0..n /\ x # 0 /\ x \notin K
  OBVIOUS
<1>5. x - 1 \in 0..n /\ x - 1 # n /\ x - 1 < x /\ (x - 1) + 1 = x
  BY <1>4
<1>6. x - 1 \in K
  BY <1>3, <1>5
<1> QED BY <1>4, <1>5, <1>6

-----------------------------------------------------------------------------
(* Sequences put together *)

\* FlattenSeq, step by step.
LEMMA FlattenSteps ==
    ASSUME NEW S, NEW s \in Seq(Seq(S)), Len(s) # 0
    PROVE  \E f : /\ FlattenSeq(s) = f[Len(s)]
                  /\ \A i \in 1..Len(s) :
                        f[i] = IF i = 1 THEN s[i] ELSE f[i - 1] \o s[i]
<1> DEFINE n == Len(s)
           Flat(f, k) == f = [i \in 1..k |-> IF i = 1 THEN s[i] ELSE f[i - 1] \o s[i]]
           K == {k \in 0..n : \E f : Flat(f, k)}
           flatten == CHOOSE f : Flat(f, n)
<1>1. n \in Nat
  OBVIOUS
<1>2. 0 \in K
  <2> DEFINE g == [i \in 1..0 |-> s]
  <2>1. Flat(g, 0)
    OBVIOUS
  <2> HIDE DEF g, Flat
  <2> QED BY <2>1, <1>1
<1>3. ASSUME NEW k \in 0..n, k # n, k \in K PROVE k + 1 \in K
  <2>1. PICK f : Flat(f, k)
    BY <1>3
  <2> DEFINE g == [i \in 1..(k + 1) |-> IF i = 1 THEN s[i] ELSE f[i - 1] \o s[i]]
  <2>2. ASSUME NEW i \in 1..(k + 1), i # 1 PROVE g[i - 1] = f[i - 1]
    <3>1. i - 1 \in 1..k /\ i - 1 \in 1..(k + 1)
      BY <2>2
    <3>2. f[i - 1] = IF i - 1 = 1 THEN s[i - 1] ELSE f[(i - 1) - 1] \o s[i - 1]
      BY <2>1, <3>1
    <3> QED BY <3>1, <3>2
  <2>3. \A i \in 1..(k + 1) : g[i] = IF i = 1 THEN s[i] ELSE g[i - 1] \o s[i]
    BY <2>2
  <2>4. g = [i \in 1..(k + 1) |-> g[i]]
    OBVIOUS
  <2> HIDE DEF g
  <2>5. Flat(g, k + 1)
    BY <2>3, <2>4
  <2>6. k + 1 \in 0..n
    BY <1>1, <1>3
  <2> HIDE DEF Flat
  <2> QED BY <2>5, <2>6
<1> HIDE DEF K
<1>4. n \in K
  <2>1. \A k \in 0..n : k # n /\ k \in K => k + 1 \in K
    BY <1>3
  <2> HIDE DEF n
  <2>2. \A k \in 0..n : k \in K
    BY <1>1, <1>2, <2>1, UpTo, Zenon
  <2> QED BY <1>1, <2>2
<1>5. \E f : Flat(f, n)
  BY <1>4 DEF K
<1>6. Flat(flatten, n)
  <2> HIDE DEF Flat
  <2> QED BY <1>5
<1>7. FlattenSeq(s) = flatten[n]
  BY DEF FlattenSeq
<1> HIDE DEF flatten
<1>8. \A i \in 1..n : flatten[i] = IF i = 1 THEN s[i] ELSE flatten[i - 1] \o s[i]
  BY <1>6
<1> QED BY <1>7, <1>8

\* FlattenSeq of nothing.
LEMMA FlattenNothing ==
    ASSUME NEW S, NEW s \in Seq(S), Len(s) = 0
    PROVE  FlattenSeq(s) = <<>>
BY DEF FlattenSeq

\* FlattenSeq returns a sequence of the elements of its parts, all of them.
LEMMA FlattenElements ==
    ASSUME NEW S, NEW s \in Seq(Seq(S))
    PROVE  /\ FlattenSeq(s) \in Seq(S)
           /\ ToSet(FlattenSeq(s)) = UNION {ToSet(s[j]) : j \in 1..Len(s)}
<1>1. CASE Len(s) = 0
  <2>1. FlattenSeq(s) = <<>>
    BY <1>1, FlattenNothing
  <2> <<>> \in Seq(S)
    OBVIOUS
  <2>2. ToSet(<<>>) = {} /\ 1..Len(s) = {}
    BY <1>1, EmptyIsList
  <2> QED BY <2>1, <2>2
<1>2. CASE Len(s) # 0
  <2> DEFINE n == Len(s)
  <2>1. PICK f : /\ FlattenSeq(s) = f[n]
                 /\ \A i \in 1..n : f[i] = IF i = 1 THEN s[i] ELSE f[i - 1] \o s[i]
    BY <1>2, FlattenSteps
  <2>2. n \in Nat /\ n # 0
    BY <1>2
  <2>3. \A i \in 1..n : s[i] \in Seq(S)
    OBVIOUS
  <2> HIDE DEF n
  <2> DEFINE Elements(k) == UNION {ToSet(s[j]) : j \in 1..k}
             Right(k) == f[k] \in Seq(S) /\ ToSet(f[k]) = Elements(k)
             K == {k \in 0..n : k # 0 => Right(k)}
  <2>4. ASSUME NEW k \in 0..n, k # n, k \in K PROVE k + 1 \in K
    <3>1. k + 1 \in 1..n /\ (k + 1) - 1 = k
      BY <2>2, <2>4
    <3>2. CASE k = 0
      <4>1. f[1] = s[1] /\ 1 \in 1..n
        BY <2>1, <3>1, <3>2
      <4>2. f[1] \in Seq(S)
        BY <2>3, <4>1
      <4>3. Elements(1) = ToSet(s[1])
        OBVIOUS
      <4>4. Right(1)
        BY <4>1, <4>2, <4>3
      <4> HIDE DEF Right
      <4> QED BY <3>1, <3>2, <4>4
    <3>3. CASE k # 0
      <4> DEFINE x == f[k]
                 y == s[k + 1]
      <4>1. f[k + 1] = x \o y
        <5>1. k + 1 # 1
          BY <2>2, <2>4, <3>3
        <5>2. f[k + 1] = f[(k + 1) - 1] \o s[k + 1]
          BY <2>1, <3>1, <5>1
        <5> QED BY <3>1, <5>2
      <4>2. x \in Seq(S) /\ ToSet(x) = Elements(k)
        BY <2>4, <3>3
      <4>3. y \in Seq(S)
        BY <2>3, <3>1
      <4>4. Elements(k + 1) = Elements(k) \cup ToSet(y)
        <5>1. 1..(k + 1) = (1..k) \cup {k + 1}
          BY <2>2, <2>4
        <5> QED BY <5>1
      <4> HIDE DEF x, y, Elements
      <4>5. x \o y \in Seq(S) /\ ToSet(x \o y) = ToSet(x) \cup ToSet(y)
        <5>1. /\ x \o y \in Seq(S) /\ Len(x \o y) = Len(x) + Len(y)
              /\ Len(x) \in Nat /\ Len(y) \in Nat
              /\ DOMAIN x = 1..Len(x) /\ DOMAIN y = 1..Len(y)
              /\ DOMAIN (x \o y) = 1..(Len(x) + Len(y))
              /\ \A i \in 1..(Len(x) + Len(y)) :
                    (x \o y)[i] = IF i <= Len(x) THEN x[i] ELSE y[i - Len(x)]
          BY <4>2, <4>3
        <5>2. ASSUME NEW e \in ToSet(x \o y) PROVE e \in ToSet(x) \cup ToSet(y)
          <6>1. PICK i \in 1..(Len(x) + Len(y)) : e = (x \o y)[i]
            BY <5>1, <5>2 DEF ToSet
          <6>2. CASE i <= Len(x)
            BY <5>1, <6>1, <6>2 DEF ToSet
          <6>3. CASE ~ (i <= Len(x))
            <7>1. i - Len(x) \in 1..Len(y)
              BY <5>1, <6>1, <6>3
            <7> QED BY <5>1, <6>1, <6>3, <7>1 DEF ToSet
          <6> QED BY <6>2, <6>3
        <5>3. ASSUME NEW e \in ToSet(x) PROVE e \in ToSet(x \o y)
          <6>1. PICK i \in 1..Len(x) : e = x[i]
            BY <5>1, <5>3 DEF ToSet
          <6>2. i \in 1..(Len(x) + Len(y)) /\ (x \o y)[i] = e
            BY <5>1, <6>1
          <6> QED BY <5>1, <6>2 DEF ToSet
        <5>4. ASSUME NEW e \in ToSet(y) PROVE e \in ToSet(x \o y)
          <6>1. PICK i \in 1..Len(y) : e = y[i]
            BY <5>1, <5>4 DEF ToSet
          <6>2. i + Len(x) \in 1..(Len(x) + Len(y)) /\ (x \o y)[i + Len(x)] = e
            BY <5>1, <6>1
          <6> QED BY <5>1, <6>2 DEF ToSet
        <5> QED BY <5>1, <5>2, <5>3, <5>4
      <4>6. Right(k + 1)
        BY <4>1, <4>2, <4>4, <4>5
      <4> HIDE DEF Right
      <4> QED BY <3>1, <4>6
    <3> HIDE DEF K
    <3> QED BY <3>2, <3>3
  <2> HIDE DEF Right
  <2>5. 0 \in K /\ \A k \in 0..n : k # n /\ k \in K => k + 1 \in K
    BY <2>2, <2>4
  <2> HIDE DEF K
  <2>6. \A k \in 0..n : k \in K
    BY <2>2, <2>5, UpTo, Zenon
  <2>7. n \in K
    BY <2>2, <2>6
  <2> QED BY <2>1, <2>2, <2>7 DEF K, n, Right
<1> QED BY <1>1, <1>2

\* r is s with its elements converted.
Converted(s, r, d) ==
    /\ Len(r) = Len(s)
    /\ \A i \in 1..Len(s) : r[i] = d[s[i]]

PartsConverted(s, r, d) ==
    /\ Len(r) = Len(s)
    /\ \A j \in 1..Len(s) : Converted(s[j], r[j], d)

\* Elements converted one by one stay at their places.
LEMMA FlattenMap ==
    ASSUME NEW S, NEW R, NEW d \in [S -> R], NEW s \in Seq(Seq(S)), NEW r \in Seq(Seq(R)),
           PartsConverted(s, r, d)
    PROVE  Converted(FlattenSeq(s), FlattenSeq(r), d)
<1> USE DEF PartsConverted, Converted
<1>1. CASE Len(s) = 0
  <2>1. FlattenSeq(s) = <<>> /\ FlattenSeq(r) = <<>>
    BY <1>1, FlattenNothing
  <2> QED BY <2>1
<1>2. CASE Len(s) # 0
  <2> DEFINE n == Len(s)
  <2>1. PICK f : /\ FlattenSeq(s) = f[n]
                 /\ \A i \in 1..n : f[i] = IF i = 1 THEN s[i] ELSE f[i - 1] \o s[i]
    BY <1>2, FlattenSteps
  <2>2. PICK g : /\ FlattenSeq(r) = g[n]
                 /\ \A i \in 1..n : g[i] = IF i = 1 THEN r[i] ELSE g[i - 1] \o r[i]
    <3>1. Len(r) # 0
      BY <1>2
    <3>2. \E g : /\ FlattenSeq(r) = g[Len(r)]
                 /\ \A i \in 1..Len(r) : g[i] = IF i = 1 THEN r[i] ELSE g[i - 1] \o r[i]
      BY <3>1, FlattenSteps, Zenon
    <3> QED BY <3>2
  <2>3. n \in Nat /\ n # 0
    BY <1>2
  <2>4. \A i \in 1..n : s[i] \in Seq(S) /\ r[i] \in Seq(R)
    OBVIOUS
  <2>5. \A j \in 1..n : /\ Len(r[j]) = Len(s[j])
                        /\ \A i \in 1..Len(s[j]) : r[j][i] = d[s[j][i]]
    OBVIOUS
  <2> HIDE DEF n
  <2> DEFINE Same(k) == /\ f[k] \in Seq(S) /\ g[k] \in Seq(R)
                        /\ Len(g[k]) = Len(f[k])
                        /\ \A i \in 1..Len(f[k]) : g[k][i] = d[f[k][i]]
             K == {k \in 0..n : k # 0 => Same(k)}
  <2>6. ASSUME NEW k \in 0..n, k # n, k \in K PROVE k + 1 \in K
    <3> HIDE DEF Same, K
    <3>1. k + 1 \in 1..n /\ (k + 1) - 1 = k
      BY <2>3, <2>6
    <3>2. CASE k = 0
      <4>1. f[1] = s[1] /\ g[1] = r[1] /\ 1 \in 1..n
        BY <2>1, <2>2, <3>1, <3>2
      <4>2. Same(1)
        BY <2>4, <2>5, <4>1 DEF Same
      <4> QED BY <3>1, <3>2, <4>2 DEF K
    <3>3. CASE k # 0
      <4> DEFINE x == f[k]
                 y == s[k + 1]
                 u == g[k]
                 v == r[k + 1]
      <4>1. f[k + 1] = x \o y /\ g[k + 1] = u \o v
        <5>1. k + 1 # 1
          BY <2>3, <2>6, <3>3
        <5>2. f[k + 1] = f[(k + 1) - 1] \o s[k + 1]
          BY <2>1, <3>1, <5>1
        <5>3. g[k + 1] = g[(k + 1) - 1] \o r[k + 1]
          BY <2>2, <3>1, <5>1
        <5> QED BY <3>1, <5>2, <5>3
      <4>2. /\ x \in Seq(S) /\ u \in Seq(R) /\ Len(u) = Len(x)
            /\ \A i \in 1..Len(x) : u[i] = d[x[i]]
        BY <2>6, <3>3 DEF K, Same
      <4>3. /\ y \in Seq(S) /\ v \in Seq(R) /\ Len(v) = Len(y)
            /\ \A i \in 1..Len(y) : v[i] = d[y[i]]
        BY <2>4, <2>5, <3>1
      <4> HIDE DEF x, y, u, v
      <4>4. /\ x \o y \in Seq(S) /\ u \o v \in Seq(R)
            /\ Len(u \o v) = Len(x \o y) /\ Len(x \o y) = Len(x) + Len(y)
            /\ Len(x) \in Nat /\ Len(y) \in Nat
        <5>1. x \o y \in Seq(S) /\ Len(x \o y) = Len(x) + Len(y) /\ Len(x) \in Nat
          BY <4>2, <4>3
        <5>2. u \o v \in Seq(R) /\ Len(u \o v) = Len(u) + Len(v)
          <6> USE <4>2, <4>3
          <6>1. u \in Seq(R) /\ v \in Seq(R)
            OBVIOUS
          <6> QED BY ONLY <6>1
        <5>3. Len(y) \in Nat
          BY <4>3
        <5> QED BY <4>2, <4>3, <5>1, <5>2, <5>3
      <4>5. ASSUME NEW i \in 1..Len(x \o y) PROVE (u \o v)[i] = d[(x \o y)[i]]
        <5>1. CASE i <= Len(x)
          <6>1. i \in 1..Len(x) /\ (u \o v)[i] = u[i] /\ (x \o y)[i] = x[i]
            BY <4>2, <4>3, <4>4, <5>1
          <6> QED BY <4>2, <6>1
        <5>2. CASE ~ (i <= Len(x))
          <6>1. /\ i - Len(x) \in 1..Len(y)
                /\ (u \o v)[i] = v[i - Len(x)] /\ (x \o y)[i] = y[i - Len(x)]
            BY <4>2, <4>3, <4>4, <5>2
          <6> QED BY <4>3, <6>1
        <5> QED BY <5>1, <5>2
      <4>6. Same(k + 1)
        BY <4>1, <4>4, <4>5 DEF Same
      <4> QED BY <3>1, <4>6 DEF K
    <3> QED BY <3>2, <3>3
  <2> HIDE DEF Same
  <2>7. 0 \in K /\ \A k \in 0..n : k # n /\ k \in K => k + 1 \in K
    BY <2>3, <2>6
  <2> HIDE DEF K
  <2>8. \A k \in 0..n : k \in K
    BY <2>3, <2>7, UpTo, Zenon
  <2>9. Same(n)
    BY <2>3, <2>8 DEF K
  <2> QED BY <2>1, <2>2, <2>9 DEF Same
<1> QED BY <1>1, <1>2

-----------------------------------------------------------------------------
(* The encrypted texts of a list *)

\* CollectEncryptedTexts, step by step.
LEMMA CollectSteps ==
    ASSUME NEW list, NEW n \in Nat, Len(AllMessages(list)) = n
    PROVE  \E f : /\ CollectEncryptedTexts(list) = f[n]
                  /\ f[0] = <<>>
                  /\ \A k \in 1..n :
                        f[k] = IF IsEncrypted(AllMessages(list)[k])
                                 THEN Append(f[k - 1], EncryptedText(AllMessages(list)[k]))
                                 ELSE f[k - 1]
<1> DEFINE all == AllMessages(list)
           Grown(f, k) == IF IsEncrypted(all[k])
                           THEN Append(f[k - 1], EncryptedText(all[k]))
                           ELSE f[k - 1]
           Collects(f, k) == f = [i \in 0..k |-> IF i = 0 THEN <<>> ELSE Grown(f, i)]
           K == {k \in 0..n : \E f : Collects(f, k)}
           collected == CHOOSE f : Collects(f, n)
<1>1. CollectEncryptedTexts(list) = collected[n]
  BY DEF CollectEncryptedTexts
<1> HIDE DEF all
<1>2. 0 \in K
  <2> DEFINE g == [i \in 0..0 |-> <<>>]
  <2>1. Collects(g, 0)
    OBVIOUS
  <2> HIDE DEF g, Collects
  <2> QED BY <2>1
<1>3. ASSUME NEW k \in 0..n, k # n, k \in K PROVE k + 1 \in K
  <2>1. PICK f : Collects(f, k)
    BY <1>3
  <2> DEFINE g == [i \in 0..(k + 1) |-> IF i = 0 THEN <<>> ELSE Grown(f, i)]
  <2>2. ASSUME NEW i \in 0..(k + 1), i # 0 PROVE g[i - 1] = f[i - 1]
    <3>1. i - 1 \in 0..k /\ i - 1 \in 0..(k + 1)
      BY <2>2
    <3> DEFINE j == i - 1
    <3>2. f[j] = IF j = 0 THEN <<>> ELSE Grown(f, j)
      <4> HIDE DEF Grown, j
      <4> QED BY <2>1, <3>1 DEF j
    <3>3. g[j] = IF j = 0 THEN <<>> ELSE Grown(f, j)
      <4> HIDE DEF Grown, j
      <4> QED BY <3>1 DEF j
    <3> QED BY <3>2, <3>3
  <2>3. ASSUME NEW i \in 0..(k + 1) PROVE g[i] = IF i = 0 THEN <<>> ELSE Grown(g, i)
    <3>1. g[i] = IF i = 0 THEN <<>> ELSE Grown(f, i)
      <4> HIDE DEF Grown
      <4> QED OBVIOUS
    <3>2. i # 0 => Grown(g, i) = Grown(f, i)
      <4> HIDE DEF g
      <4> QED BY <2>2
    <3> HIDE DEF g, Grown
    <3> QED BY <3>1, <3>2
  <2>4. g = [i \in 0..(k + 1) |-> g[i]]
    <3> HIDE DEF Grown
    <3> QED OBVIOUS
  <2> HIDE DEF g, Grown
  <2>5. Collects(g, k + 1)
    BY <2>3, <2>4
  <2>6. k + 1 \in 0..n
    BY <1>3
  <2> HIDE DEF Collects
  <2> QED BY <2>5, <2>6
<1> HIDE DEF K, Collects
<1>4. 0 \in K /\ \A k \in 0..n : k # n /\ k \in K => k + 1 \in K
  BY <1>2, <1>3
<1>5. \A k \in 0..n : k \in K
  BY <1>4, UpTo, Zenon
<1>6. \E f : Collects(f, n)
  BY <1>5 DEF K
<1>7. Collects(collected, n)
  BY <1>6
<1> HIDE DEF collected, Grown
<1>8. /\ collected[0] = <<>>
      /\ \A i \in 1..n : collected[i] = Grown(collected, i)
  BY <1>7 DEF Collects
<1> QED BY <1>1, <1>8 DEF Grown, all

\* What an appended sequence holds.
LEMMA Appended ==
    ASSUME NEW E, NEW s \in Seq(E), NEW e \in E
    PROVE  /\ Append(s, e) \in Seq(E)
           /\ Len(Append(s, e)) = Len(s) + 1 /\ Len(s) \in Nat
           /\ \A i \in 1..Len(s) : Append(s, e)[i] = s[i]
           /\ Append(s, e)[Len(s) + 1] = e
OBVIOUS

\* The first encrypted message with its bytes has its text among those that are
\* collected, and no text before it has these bytes.
LEMMA FirstIsCollected ==
    ASSUME NEW list, NEW S, AllMessages(list) \in Seq(S),
           NEW q \in 1..Len(AllMessages(list)),
           IsEncrypted(AllMessages(list)[q]),
           \A j \in 1..(q - 1) :
              AllMessages(list)[j].encrypted # AllMessages(list)[q].encrypted
    PROVE  /\ CollectEncryptedTexts(list) \in Seq({EncryptedText(m) : m \in S})
           /\ \E i \in 1..Len(CollectEncryptedTexts(list)) :
                 /\ CollectEncryptedTexts(list)[i] = EncryptedText(AllMessages(list)[q])
                 /\ \A j \in 1..(i - 1) :
                       CollectEncryptedTexts(list)[j].bytes # AllMessages(list)[q].encrypted
<1> DEFINE all == AllMessages(list)
           n == Len(all)
           E == {EncryptedText(m) : m \in S}
           b == all[q].encrypted
           x == EncryptedText(all[q])
<1>1. /\ n \in Nat /\ q \in Nat /\ q >= 1 /\ q <= n
      /\ \A k \in 1..n : EncryptedText(all[k]) \in E
  OBVIOUS
<1>2. PICK f : /\ CollectEncryptedTexts(list) = f[n]
               /\ f[0] = <<>>
               /\ \A k \in 1..n : f[k] = IF IsEncrypted(all[k])
                                           THEN Append(f[k - 1], EncryptedText(all[k]))
                                           ELSE f[k - 1]
  BY <1>1, CollectSteps
<1>3. \A k \in 1..n : EncryptedText(all[k]).bytes = all[k].encrypted
  BY DEF EncryptedText
<1>4. /\ \A j \in 1..(q - 1) : all[j].encrypted # b
      /\ IsEncrypted(all[q]) /\ x \in E
  BY <1>1
<1>5. x.bytes = b
  BY DEF EncryptedText
<1> HIDE DEF all, n, E, b, x
<1> DEFINE Has(s) == \E i \in 1..Len(s) : s[i] = x /\ \A j \in 1..(i - 1) : s[j].bytes # b
           Right(k) == /\ f[k] \in Seq(E)
                       /\ k < q => \A i \in 1..Len(f[k]) : f[k][i].bytes # b
                       /\ k >= q => Has(f[k])
           K == {k \in 0..n : Right(k)}
<1>6. 0 \in K
  <2>1. f[0] \in Seq(E) /\ Len(f[0]) = 0
    BY <1>2
  <2>2. 0 \in 0..n /\ ~ (0 >= q)
    BY <1>1
  <2> HIDE DEF Has
  <2>3. Right(0)
    BY <2>1, <2>2
  <2> HIDE DEF Right
  <2> QED BY <2>2, <2>3
<1>7. ASSUME NEW k \in 0..n, k # n, k \in K PROVE k + 1 \in K
  <2> DEFINE s == f[k]
             e == EncryptedText(all[k + 1])
  <2>1. /\ s \in Seq(E) /\ Len(s) \in Nat
        /\ k < q => \A i \in 1..Len(s) : s[i].bytes # b
        /\ k >= q => Has(s)
    BY <1>7
  <2>2. k + 1 \in 1..n /\ (k + 1) - 1 = k
    BY <1>1, <1>7
  <2>3. e \in E /\ e.bytes = all[k + 1].encrypted
    BY <1>1, <1>3, <2>2
  <2>4. f[k + 1] = IF IsEncrypted(all[k + 1]) THEN Append(s, e) ELSE s
    BY <1>2, <2>2
  <2>5. k + 1 < q => e.bytes # b
    BY <1>1, <1>4, <2>2, <2>3
  <2>6. k + 1 = q => e = x /\ IsEncrypted(all[k + 1])
    BY <1>4 DEF x
  <2> HIDE DEF s, e
  <2>7. CASE IsEncrypted(all[k + 1])
    <3> DEFINE t == Append(s, e)
    <3>1. /\ t \in Seq(E) /\ Len(t) = Len(s) + 1
          /\ \A i \in 1..Len(s) : t[i] = s[i]
          /\ t[Len(s) + 1] = e
      BY <2>1, <2>3, Appended
    <3> HIDE DEF t
    <3>2. f[k + 1] = t
      BY <2>4, <2>7 DEF t
    <3>3. k + 1 < q => \A i \in 1..Len(t) : t[i].bytes # b
      <4> SUFFICES ASSUME k + 1 < q, NEW i \in 1..Len(t) PROVE t[i].bytes # b
        OBVIOUS
      <4>1. CASE i \in 1..Len(s)
        BY <1>1, <2>1, <3>1, <4>1
      <4>2. CASE i = Len(s) + 1
        BY <2>5, <3>1, <4>2
      <4> QED BY <2>1, <3>1, <4>1, <4>2
    <3>4. CASE k + 1 = q
      <4>1. k < q /\ Len(s) + 1 \in 1..Len(t) /\ (Len(s) + 1) - 1 = Len(s)
        BY <1>1, <2>1, <3>1, <3>4
      <4>2. t[Len(s) + 1] = x /\ \A j \in 1..Len(s) : t[j].bytes # b
        BY <2>1, <2>6, <3>1, <3>4, <4>1
      <4>3. Has(t)
        BY <4>1, <4>2
      <4> HIDE DEF Has
      <4>4. Right(k + 1)
        BY <1>1, <3>1, <3>2, <3>4, <4>3
      <4> HIDE DEF Right
      <4> QED BY <2>2, <4>4
    <3>5. CASE k >= q
      <4>1. PICK i \in 1..Len(s) : s[i] = x /\ \A j \in 1..(i - 1) : s[j].bytes # b
        BY <2>1, <3>5
      <4>2. i \in 1..Len(t) /\ \A j \in 1..(i - 1) : j \in 1..Len(s)
        BY <2>1, <3>1
      <4>3. t[i] = x /\ \A j \in 1..(i - 1) : t[j].bytes # b
        BY <3>1, <4>1, <4>2
      <4>4. Has(t)
        BY <4>2, <4>3
      <4>5. ~ (k + 1 < q)
        BY <1>1, <3>5
      <4> HIDE DEF Has
      <4>6. Right(k + 1)
        BY <3>1, <3>2, <4>4, <4>5
      <4> HIDE DEF Right
      <4> QED BY <2>2, <4>6
    <3>6. CASE k + 1 < q
      <4>1. ~ (k + 1 >= q)
        BY <1>1, <3>6
      <4> HIDE DEF Has
      <4>2. Right(k + 1)
        BY <3>1, <3>2, <3>3, <3>6, <4>1
      <4> HIDE DEF Right
      <4> QED BY <2>2, <4>2
    <3>7. k + 1 < q \/ k + 1 = q \/ k >= q
      BY <1>1
    <3> HIDE DEF K
    <3> QED BY <3>4, <3>5, <3>6, <3>7, Zenon
  <2>8. CASE ~ IsEncrypted(all[k + 1])
    <3>1. f[k + 1] = s /\ k + 1 # q
      BY <2>4, <2>6, <2>8
    <3>2. (k + 1 < q => k < q) /\ (k + 1 >= q => k >= q)
      BY <1>1, <3>1
    <3> HIDE DEF Has
    <3>3. Right(k + 1)
      BY <2>1, <3>1, <3>2
    <3> HIDE DEF Right
    <3> QED BY <2>2, <3>3
  <2> QED BY <2>7, <2>8
<1> HIDE DEF K
<1>8. 0 \in K /\ \A k \in 0..n : k # n /\ k \in K => k + 1 \in K
  BY <1>6, <1>7
<1>9. \A k \in 0..n : k \in K
  BY <1>1, <1>8, UpTo, Zenon
<1>10. f[n] \in Seq(E) /\ Has(f[n])
  BY <1>1, <1>9 DEF K
<1>11. CollectEncryptedTexts(list) \in Seq(E) /\ Has(CollectEncryptedTexts(list))
  BY <1>2, <1>10
<1> QED BY <1>11 DEF all, n, E, b, x

\* A number that has a property has a least one below it that has it.
LEMMA Least ==
    ASSUME NEW n \in Nat, NEW K, n \in K
    PROVE  \E q \in 0..n : q \in K /\ \A j \in Nat : j < q => j \notin K
<1> DEFINE Those == {k \in Nat : k \in K}
<1>1. n \in Those /\ Those \in SUBSET Nat
  OBVIOUS
<1> HIDE DEF Those
<1>2. PICK q \in Those : \A y \in Those : <<y, q>> \notin OpToRel(<, Nat)
  BY <1>1, WFMin, NatLessThanWellFounded, Zenon
<1>3. q \in Nat /\ q \in K
  BY <1>2 DEF Those
<1>4. \A j \in Nat : j < q => j \notin K
  BY <1>1, <1>2, <1>3 DEF OpToRel, Those
<1>5. q \in 0..n
  BY <1>3, <1>4
<1> QED BY <1>3, <1>4, <1>5

\* The first place a test holds at.
LEMMA FirstPlace ==
    ASSUME NEW C, Len(C) \in Nat, NEW b, NEW i \in 1..Len(C), C[i].bytes = b,
           \A j \in 1..(i - 1) : C[j].bytes # b,
           NEW m, m.encrypted = b
    PROVE  Place(C, m) = i
<1> DEFINE I == {j \in 1..Len(C) : C[j].bytes = m.encrypted}
<1>1. Place(C, m) = IF I # {} THEN Min(I) ELSE 0
  BY DEF Place, SelectInSeq
<1>2. i \in I /\ \A j \in I : i <= j
  OBVIOUS
<1>3. I \subseteq Nat
  OBVIOUS
<1> HIDE DEF I
<1>4. Min(I) = i
  <2>1. \E x \in I : \A y \in I : x =< y
    BY <1>2
  <2> DEFINE x == CHOOSE x \in I : \A y \in I : x =< y
  <2>2. x \in I /\ \A y \in I : x =< y
    BY <2>1
  <2>3. Min(I) = x
    BY DEF Min
  <2> HIDE DEF x
  <2> QED BY <1>2, <1>3, <2>2, <2>3
<1> QED BY <1>1, <1>2, <1>4

\* TextOf takes the source of the first message with the same bytes.
LEMMA FirstOfItsBytes ==
    ASSUME NEW list, NEW S, AllMessages(list) \in Seq(S), NEW m \in ToSet(AllMessages(list))
    PROVE  \E q \in DOMAIN AllMessages(list) :
              /\ AllMessages(list)[q].encrypted = m.encrypted
              /\ \A k \in 1..(q - 1) : AllMessages(list)[k].encrypted # m.encrypted
              /\ TextOf(m, list) = <<m.encrypted, AllMessages(list)[q].source>>
<1> DEFINE all == AllMessages(list)
           b == m.encrypted
           First(j) == all[j].encrypted = b /\ \A k \in 1..(j - 1) : all[k].encrypted # b
           K == {j \in 1..Len(all) : all[j].encrypted = b}
<1>1. DOMAIN all = 1..Len(all) /\ Len(all) \in Nat
  OBVIOUS
<1>2. PICK p \in 1..Len(all) : all[p] = m
  BY <1>1 DEF ToSet
<1>3. PICK q \in 0..p : q \in K /\ \A j \in Nat : j < q => j \notin K
  <2>1. p \in Nat /\ p \in K
    BY <1>1, <1>2
  <2> HIDE DEF K
  <2> QED BY <2>1, Least, Zenon
<1>4. q \in DOMAIN all /\ First(q)
  BY <1>1, <1>2, <1>3
<1>5. ASSUME NEW j \in DOMAIN all, First(j) PROVE j = q
  BY <1>1, <1>4, <1>5
<1>6. TextOf(m, list) = <<b, all[q].source>>
  <2>1. (CHOOSE j \in DOMAIN all : First(j)) = q
    <3> HIDE DEF First
    <3> QED BY <1>4, <1>5
  <2>2. TextOf(m, list) = <<b, all[CHOOSE j \in DOMAIN all : First(j)].source>>
    BY DEF TextOf
  <2> HIDE DEF First
  <2> QED BY <2>1, <2>2
<1> QED BY <1>4, <1>6

\* An encrypted message gets the text it should.
LEMMA EncryptedIsDecrypted ==
    ASSUME NEW list, NEW S, AllMessages(list) \in Seq(S), NEW m \in ToSet(AllMessages(list)),
           IsEncrypted(m)
    PROVE  DecryptMessage(m, CollectEncryptedTexts(list), Texts(CollectEncryptedTexts(list))) =
             [m EXCEPT !.text = TextOf(m, list), !.decrypted = TRUE]
<1> DEFINE all == AllMessages(list)
           C == CollectEncryptedTexts(list)
           E == {EncryptedText(x) : x \in S}
           b == m.encrypted
<1>1. DOMAIN all = 1..Len(all) /\ Len(all) \in Nat
  OBVIOUS
<1>2. PICK q \in DOMAIN all : /\ all[q].encrypted = b
                              /\ \A k \in 1..(q - 1) : all[k].encrypted # b
                              /\ TextOf(m, list) = <<b, all[q].source>>
  BY FirstOfItsBytes
<1>3. IsEncrypted(all[q])
  BY <1>2 DEF IsEncrypted
<1>4. /\ C \in Seq(E)
      /\ \E i \in 1..Len(C) : /\ C[i] = EncryptedText(all[q])
                              /\ \A j \in 1..(i - 1) : C[j].bytes # all[q].encrypted
  BY <1>1, <1>2, <1>3, FirstIsCollected
<1> HIDE DEF C, all
<1>5. PICK i \in 1..Len(C) : /\ C[i] = EncryptedText(all[q])
                             /\ \A j \in 1..(i - 1) : C[j].bytes # b
  BY <1>2, <1>4
<1>6. Place(C, m) = i
  <2>1. C[i].bytes = b
    BY <1>2, <1>5 DEF EncryptedText
  <2>2. Len(C) \in Nat /\ \A j \in 1..(i - 1) : C[j].bytes # m.encrypted
    BY <1>4, <1>5
  <2> QED BY <2>1, <2>2, FirstPlace
<1>7. Texts(C)[i] = <<b, all[q].source>>
  BY <1>2, <1>4, <1>5 DEF Texts, EncryptedText
<1>8. i # 0
  BY <1>4, <1>5
<1> QED BY <1>2, <1>6, <1>7, <1>8 DEF DecryptMessage, C

\* A message that is not encrypted stays as it is.
LEMMA PlainStays ==
    ASSUME NEW m, NEW C, NEW texts, ~ IsEncrypted(m)
    PROVE  DecryptMessage(m, C, texts) = m
BY DEF DecryptMessage

-----------------------------------------------------------------------------
(* The texts put back *)

\* Two sequences, one after the other.
LEMMA Joined ==
    ASSUME NEW S, NEW x \in Seq(S), NEW y \in Seq(S)
    PROVE  /\ x \o y \in Seq(S)
           /\ Len(x \o y) = Len(x) + Len(y) /\ Len(x) \in Nat /\ Len(y) \in Nat
           /\ \A i \in 1..(Len(x) + Len(y)) :
                 (x \o y)[i] = IF i <= Len(x) THEN x[i] ELSE y[i - Len(x)]
OBVIOUS

\* The messages of a transaction, place by place.
LEMMA MessagesAt ==
    ASSUME NEW t, IsList(t.outgoing)
    PROVE  /\ Messages(t) \in Seq(ToSet(Messages(t)))
           /\ Len(Messages(t)) = 1 + Len(t.outgoing) /\ Len(t.outgoing) \in Nat
           /\ Messages(t)[1] = t.incoming
           /\ \A i \in 1..Len(t.outgoing) : Messages(t)[1 + i] = t.outgoing[i]
<1> DEFINE S == {t.incoming} \cup ToSet(t.outgoing)
           a == <<t.incoming>>
           o == t.outgoing
<1>1. o \in Seq(S) /\ a \in Seq(S) /\ Len(a) = 1 /\ a[1] = t.incoming
  BY DEF IsList
<1>2. ToSet(Messages(t)) = S
  BY MessagesOf
<1> HIDE DEF a, o, S
<1>3. /\ a \o o \in Seq(S)
      /\ Len(a \o o) = 1 + Len(o) /\ Len(o) \in Nat
      /\ (a \o o)[1] = a[1]
      /\ \A i \in 1..Len(o) : (a \o o)[1 + i] = o[i]
  <2>1. o \in Seq(S) /\ a \in Seq(S) /\ Len(a) = 1
    BY <1>1
  <2>2. a \o o \in Seq(S) /\ Len(a \o o) = 1 + Len(o) /\ Len(o) \in Nat
    BY <2>1, Joined
  <2>3. \A i \in 1..(Len(a) + Len(o)) :
           (a \o o)[i] = IF i <= Len(a) THEN a[i] ELSE o[i - Len(a)]
    BY <2>1, Joined, Zenon
  <2>4. \A i \in 1..Len(o) : 1 + i \in 1..(1 + Len(o)) /\ ~ (1 + i <= 1) /\ (1 + i) - 1 = i
    BY <2>2
  <2>5. 1 \in 1..(1 + Len(o))
    BY <2>2
  <2> QED BY <2>1, <2>2, <2>3, <2>4, <2>5
<1> QED BY <1>1, <1>2, <1>3 DEF Messages, a, o

\* What EXCEPT changes in two fields.
LEMMA TwoFieldsAre ==
    ASSUME NEW t, NEW p, NEW q, NEW u, {"incoming", "outgoing"} \subseteq DOMAIN t,
           u = [t EXCEPT !.incoming = p, !.outgoing = q]
    PROVE  u.incoming = p /\ u.outgoing = q
<1> DEFINE v == [t EXCEPT !.incoming = p]
<1>1. u = [v EXCEPT !.outgoing = q]
  OBVIOUS
<1>2. v.incoming = p /\ {"incoming", "outgoing"} \subseteq DOMAIN v
  OBVIOUS
<1> HIDE DEF v
<1> QED BY <1>1, <1>2

\* A list whose transactions have messages.
HasMessages(list) ==
    /\ IsList(list)
    /\ \A t \in ToSet(list) :
          {"incoming", "outgoing"} \subseteq DOMAIN t /\ IsList(t.outgoing)

\* AddDecryptedTexts converts the messages of a transaction one by one.
LEMMA MessagesAreConverted ==
    ASSUME NEW list, HasMessages(list), NEW C, NEW texts, NEW i \in DOMAIN list
    PROVE  LET was == list[i]
               now == AddDecryptedTexts(list, C, texts)[i]
           IN /\ IsList(was.outgoing) /\ IsList(now.outgoing)
              /\ Len(Messages(now)) = Len(Messages(was))
              /\ \A j \in 1..Len(Messages(was)) :
                    Messages(now)[j] = DecryptMessage(Messages(was)[j], C, texts)
<1> DEFINE t == list[i]
           Decrypt(m) == DecryptMessage(m, C, texts)
           p == Decrypt(t.incoming)
           q == [j \in DOMAIN t.outgoing |-> Decrypt(t.outgoing[j])]
           u == AddDecryptedTexts(list, C, texts)[i]
<1>1. t \in ToSet(list)
  BY DEF ToSet
<1>2. {"incoming", "outgoing"} \subseteq DOMAIN t /\ IsList(t.outgoing)
  BY <1>1 DEF HasMessages
<1>3. u = [t EXCEPT !.incoming = p, !.outgoing = q]
  BY DEF AddDecryptedTexts
<1> HIDE DEF t, u
<1>4. Len(t.outgoing) \in Nat /\ DOMAIN t.outgoing = 1..Len(t.outgoing)
  BY <1>2, ListFacts
<1> HIDE DEF Decrypt
<1>5. /\ DOMAIN q = 1..Len(t.outgoing) /\ IsList(q) /\ Len(q) = Len(t.outgoing)
      /\ \A j \in 1..Len(t.outgoing) : q[j] = Decrypt(t.outgoing[j])
  <2>1. /\ DOMAIN q = 1..Len(t.outgoing) /\ q = [j \in 1..Len(t.outgoing) |-> q[j]]
        /\ \A j \in 1..Len(t.outgoing) : q[j] = Decrypt(t.outgoing[j])
    BY <1>4
  <2> HIDE DEF q
  <2>2. IsList(q)
    BY <1>4, <2>1, MapIsList
  <2>3. Len(q) \in Nat /\ DOMAIN q = 1..Len(q)
    BY <2>2, ListFacts
  <2>4. Len(q) = Len(t.outgoing)
    BY ONLY <1>4, <2>1, <2>3
  <2> QED BY <2>1, <2>2, <2>4
<1> HIDE DEF p, q
<1>6. u.incoming = p /\ u.outgoing = q
  BY <1>2, <1>3, TwoFieldsAre
<1>7. /\ Len(Messages(t)) = 1 + Len(t.outgoing)
      /\ Messages(t)[1] = t.incoming
      /\ \A j \in 1..Len(t.outgoing) : Messages(t)[1 + j] = t.outgoing[j]
  BY <1>2, MessagesAt
<1>8. IsList(u.outgoing)
  BY <1>5, <1>6
<1>9. /\ Len(Messages(u)) = 1 + Len(t.outgoing)
      /\ Messages(u)[1] = p
      /\ \A j \in 1..Len(t.outgoing) : Messages(u)[1 + j] = q[j]
  <2>1. /\ Len(Messages(u)) = 1 + Len(u.outgoing)
        /\ Messages(u)[1] = u.incoming
        /\ \A j \in 1..Len(u.outgoing) : Messages(u)[1 + j] = u.outgoing[j]
    BY <1>8, MessagesAt
  <2> QED BY <1>5, <1>6, <2>1
<1>10. ASSUME NEW j \in 1..Len(Messages(t)) PROVE Messages(u)[j] = Decrypt(Messages(t)[j])
  <2>1. CASE j = 1
    BY <1>7, <1>9, <2>1 DEF p
  <2>2. CASE j # 1
    <3> DEFINE k == j - 1
    <3>1. k \in 1..Len(t.outgoing) /\ j = 1 + k
      BY <1>4, <1>7, <2>2
    <3> HIDE DEF k
    <3> QED BY <1>5, <1>7, <1>9, <3>1
  <2> QED BY <2>1, <2>2
<1> QED BY <1>2, <1>7, <1>8, <1>9, <1>10 DEF Decrypt, t, u

\* AddDecryptedTexts converts the messages of a list one by one.
LEMMA ListIsConverted ==
    ASSUME NEW list, HasMessages(list), NEW C, NEW texts
    PROVE  LET now == AddDecryptedTexts(list, C, texts)
               S == ToSet(AllMessages(list))
           IN /\ Len(now) = Len(list)
              /\ AllMessages(list) \in Seq(S)
              /\ Len(AllMessages(now)) = Len(AllMessages(list))
              /\ DOMAIN AllMessages(now) = DOMAIN AllMessages(list)
              /\ \A i \in 1..Len(AllMessages(list)) :
                    AllMessages(now)[i] = DecryptMessage(AllMessages(list)[i], C, texts)
<1> DEFINE n == Len(list)
           now == AddDecryptedTexts(list, C, texts)
           s == [i \in DOMAIN list |-> Messages(list[i])]
           r == [i \in DOMAIN now |-> Messages(now[i])]
           S == UNION {ToSet(s[j]) : j \in 1..n}
           Decrypt(m) == DecryptMessage(m, C, texts)
           R == {Decrypt(m) : m \in S}
           d == [m \in S |-> Decrypt(m)]
<1>1. n \in Nat /\ DOMAIN list = 1..n
  BY ListFacts DEF HasMessages
<1>2. DOMAIN now = 1..n /\ Len(now) = n
  <2>1. DOMAIN now = 1..n /\ now = [i \in 1..n |-> now[i]]
    BY <1>1 DEF AddDecryptedTexts
  <2> HIDE DEF now, n
  <2>2. IsList(now)
    BY <1>1, <2>1, MapIsList
  <2>3. Len(now) \in Nat /\ DOMAIN now = 1..Len(now)
    BY <2>2, ListFacts
  <2> QED BY <1>1, <2>1, <2>3
<1>3. ASSUME NEW j \in 1..n
      PROVE  /\ IsList(list[j].outgoing) /\ IsList(now[j].outgoing)
             /\ Len(Messages(now[j])) = Len(Messages(list[j]))
             /\ \A i \in 1..Len(Messages(list[j])) :
                   Messages(now[j])[i] = Decrypt(Messages(list[j])[i])
  <2>1. j \in DOMAIN list
    BY <1>1
  <2> QED BY <2>1, MessagesAreConverted
<1> HIDE DEF n, now, Decrypt
<1>4. \A j \in 1..n : s[j] = Messages(list[j]) /\ r[j] = Messages(now[j])
  BY <1>1, <1>2
<1>5. /\ DOMAIN s = 1..n /\ s = [j \in 1..n |-> s[j]]
      /\ DOMAIN r = 1..n /\ r = [j \in 1..n |-> r[j]]
  BY <1>1, <1>2
<1>6. AllMessages(list) = FlattenSeq(s) /\ AllMessages(now) = FlattenSeq(r)
  BY DEF AllMessages
<1> HIDE DEF s, r
<1>7. \A j \in 1..n : s[j] \in Seq(ToSet(s[j])) /\ r[j] \in Seq(ToSet(r[j]))
  BY <1>3, <1>4, MessagesAt
<1>8. \A j \in 1..n : s[j] \in Seq(S)
  <2> SUFFICES ASSUME NEW j \in 1..n PROVE s[j] \in Seq(S)
    OBVIOUS
  <2>1. ToSet(s[j]) \subseteq S
    OBVIOUS
  <2> HIDE DEF S
  <2> QED BY <1>7, <2>1
<1>9. d \in [S -> R] /\ \A m \in S : d[m] = Decrypt(m)
  OBVIOUS
<1>10. \A j \in 1..n : /\ Len(r[j]) = Len(s[j]) /\ Len(s[j]) \in Nat
                       /\ \A i \in 1..Len(s[j]) : s[j][i] \in S /\ r[j][i] = d[s[j][i]]
  <2> SUFFICES ASSUME NEW j \in 1..n
               PROVE  /\ Len(r[j]) = Len(s[j]) /\ Len(s[j]) \in Nat
                      /\ \A i \in 1..Len(s[j]) : s[j][i] \in S /\ r[j][i] = d[s[j][i]]
    OBVIOUS
  <2> HIDE DEF S, d
  <2>1. s[j] \in Seq(S)
    BY <1>8
  <2>2. Len(s[j]) \in Nat /\ \A i \in 1..Len(s[j]) : s[j][i] \in S
    BY <2>1
  <2> QED BY <1>3, <1>4, <1>9, <2>2
<1>11. \A j \in 1..n : r[j] \in Seq(R)
  <2> SUFFICES ASSUME NEW j \in 1..n PROVE r[j] \in Seq(R)
    OBVIOUS
  <2>1. \A i \in 1..Len(r[j]) : r[j][i] \in R
    <3> HIDE DEF S, d, R
    <3> QED BY <1>9, <1>10
  <2> HIDE DEF R
  <2> QED BY <1>7, <2>1
<1> HIDE DEF S, R, d
<1>12. s \in Seq(Seq(S)) /\ r \in Seq(Seq(R)) /\ Len(s) = n /\ Len(r) = n
  <2>1. s \in [1..n -> Seq(S)] /\ r \in [1..n -> Seq(R)]
    BY <1>5, <1>8, <1>11
  <2> QED BY <1>1, <2>1
<1>13. /\ Len(FlattenSeq(r)) = Len(FlattenSeq(s))
       /\ \A i \in 1..Len(FlattenSeq(s)) : FlattenSeq(r)[i] = d[FlattenSeq(s)[i]]
  <2>1. PartsConverted(s, r, d)
    BY <1>10, <1>12 DEF PartsConverted, Converted
  <2>2. Converted(FlattenSeq(s), FlattenSeq(r), d)
    BY <1>9, <1>12, <2>1, FlattenMap
  <2> QED BY <2>2 DEF Converted
<1>14. FlattenSeq(s) \in Seq(S) /\ ToSet(FlattenSeq(s)) = S
  BY <1>12, FlattenElements DEF S
<1>15. \A i \in 1..Len(FlattenSeq(s)) : FlattenSeq(r)[i] = Decrypt(FlattenSeq(s)[i])
  BY <1>9, <1>13, <1>14
<1>16. DOMAIN FlattenSeq(r) = DOMAIN FlattenSeq(s)
  <2>1. FlattenSeq(r) \in Seq(R)
    BY <1>12, FlattenElements
  <2> QED BY <1>13, <1>14, <2>1
<1> QED BY <1>2, <1>6, <1>13, <1>14, <1>15, <1>16 DEF n, now, Decrypt

\* A slice with the texts of its answer.
WithItsTexts(list) ==
    LET encrypted == CollectEncryptedTexts(list)
    IN AddDecryptedTexts(list, encrypted, Texts(encrypted))

\* A list with its texts put back is as SliceIsRight says.
LEMMA TextsAreRight ==
    ASSUME NEW raw, HasMessages(raw)
    PROVE  LET was == AllMessages(raw)
               now == AllMessages(WithItsTexts(raw))
           IN /\ Len(WithItsTexts(raw)) = Len(raw) /\ Len(now) = Len(was)
              /\ DOMAIN now = DOMAIN was
              /\ \A i \in DOMAIN was :
                    now[i] = IF IsEncrypted(was[i])
                               THEN [was[i] EXCEPT !.text = TextOf(was[i], raw),
                                                   !.decrypted = TRUE]
                               ELSE was[i]
<1> DEFINE C == CollectEncryptedTexts(raw)
           new == WithItsTexts(raw)
           was == AllMessages(raw)
           now == AllMessages(new)
<1>1. new = AddDecryptedTexts(raw, C, Texts(C))
  BY DEF WithItsTexts
<1> HIDE DEF new
<1>2. /\ Len(new) = Len(raw) /\ Len(now) = Len(was) /\ DOMAIN now = DOMAIN was
      /\ was \in Seq(ToSet(was))
      /\ \A i \in 1..Len(was) : now[i] = DecryptMessage(was[i], C, Texts(C))
  BY <1>1, ListIsConverted
<1>3. ASSUME NEW i \in DOMAIN was
      PROVE  now[i] = IF IsEncrypted(was[i])
                        THEN [was[i] EXCEPT !.text = TextOf(was[i], raw), !.decrypted = TRUE]
                        ELSE was[i]
  <2>1. was[i] \in ToSet(was) /\ now[i] = DecryptMessage(was[i], C, Texts(C))
    BY <1>2 DEF ToSet
  <2>2. CASE IsEncrypted(was[i])
    <3>1. DecryptMessage(was[i], C, Texts(C)) =
            [was[i] EXCEPT !.text = TextOf(was[i], raw), !.decrypted = TRUE]
      BY <1>2, <2>1, <2>2, EncryptedIsDecrypted
    <3> QED BY <2>1, <2>2, <3>1
  <2>3. CASE ~ IsEncrypted(was[i])
    <3>1. DecryptMessage(was[i], C, Texts(C)) = was[i]
      BY <2>3, PlainStays
    <3> QED BY <2>1, <2>3, <3>1
  <2> QED BY <2>2, <2>3
<1> QED BY <1>2, <1>3 DEF new

-----------------------------------------------------------------------------
(* The slices *)

\* The slices stay, calls keep their ids, and what is shown is a slice with all
\* its texts, or as it came.
ShownIsFound ==
    /\ slices \in Contents
    /\ calls \in [Calls -> [at : {"none", "transactions", "decrypt", "done"}, id : Ids]]
    /\ fired.kind = "slice" =>
          /\ fired.after \in Ids
          /\ \/ fired.list = slices[fired.after]
             \/ fired.list = WithItsTexts(slices[fired.after])

LEMMA ShownIsFoundInit == SlicesInit => ShownIsFound
BY DEF SlicesInit, ShownIsFound, NoEvent

LEMMA ShownIsFoundStep ==
    ASSUME ShownIsFound, [SlicesNext]_slicesVars
    PROVE  ShownIsFound'
<1> USE DEF ShownIsFound, Goes
<1>1. ASSUME NEW c \in Calls, PreloadSlice(c) PROVE ShownIsFound'
  BY <1>1 DEF PreloadSlice
<1>2. ASSUME NEW c \in Calls, OnTransactionsTooLate(c) PROVE ShownIsFound'
  BY <1>2 DEF OnTransactionsTooLate
<1>3. ASSUME NEW c \in Calls, OnTransactionsFailed(c) PROVE ShownIsFound'
  BY <1>3 DEF OnTransactionsFailed
<1>4. ASSUME NEW c \in Calls, OnTransactions(c) PROVE ShownIsFound'
  BY <1>4 DEF OnTransactions, Loaded
<1>5. ASSUME NEW c \in Calls, OnDecrypted(c) PROVE ShownIsFound'
  BY <1>5 DEF OnDecrypted, Loaded, WithItsTexts
<1>6. ASSUME NEW c \in Calls, OnDecryptedTooLate(c) PROVE ShownIsFound'
  BY <1>6 DEF OnDecryptedTooLate
<1>7. CASE DestroyViewer
  BY <1>7 DEF DestroyViewer
<1>8. CASE PasswordComesOrGoes
  BY <1>8 DEF PasswordComesOrGoes
<1>9. CASE UNCHANGED slicesVars
  BY <1>9 DEF slicesVars
<1> QED BY <1>1, <1>2, <1>3, <1>4, <1>5, <1>6, <1>7, <1>8, <1>9 DEF SlicesNext, Answer

LEMMA ShownIsRight ==
    ASSUME ShownIsFound
    PROVE  SliceIsRight
<1> SUFFICES ASSUME fired.kind = "slice" PROVE SliceIsRight
  BY DEF SliceIsRight
<1> DEFINE raw == slices[fired.after]
           was == AllMessages(raw)
           now == AllMessages(fired.list)
           Unlocked == {i \in DOMAIN was : was[i].encrypted = <<>>}
<1>1. HasMessages(raw)
  BY ContentsAssumption DEF ShownIsFound, HasMessages
<1>2. CASE fired.list = raw
  BY <1>2 DEF SliceIsRight
<1>3. CASE fired.list = WithItsTexts(raw)
  <2>1. /\ Len(fired.list) = Len(raw) /\ Len(now) = Len(was)
        /\ \A i \in DOMAIN was :
              now[i] = IF IsEncrypted(was[i])
                         THEN [was[i] EXCEPT !.text = TextOf(was[i], raw),
                                             !.decrypted = TRUE]
                         ELSE was[i]
    BY <1>1, <1>3, TextsAreRight
  <2>2. \A i \in Unlocked : now[i] = was[i]
    BY <2>1 DEF IsEncrypted
  <2>3. \A i \in DOMAIN was \ Unlocked :
           now[i] = [was[i] EXCEPT !.text = TextOf(was[i], raw), !.decrypted = TRUE]
    BY <2>1 DEF IsEncrypted
  <2> HIDE DEF raw, was, now
  <2> QED BY <2>1, <2>2, <2>3 DEF SliceIsRight, raw, was, now
<1> QED BY <1>2, <1>3 DEF ShownIsFound

\* A slice that is shown is the one of its transaction, with all its texts
\* decrypted, each its own, or with none, for slices of any length and with any
\* number of messages (AddDecryptedTexts, Wallet::trySilentDecrypt).
THEOREM SliceIsAlwaysRight == SlicesSpec => []SliceIsRight
<1>1. SlicesInit => ShownIsFound
  BY ShownIsFoundInit
<1>2. ShownIsFound /\ [SlicesNext]_slicesVars => ShownIsFound'
  BY ShownIsFoundStep
<1>3. ShownIsFound => SliceIsRight
  BY ShownIsRight
<1> QED BY <1>1, <1>2, <1>3, PTL DEF SlicesSpec

LEMMA KeptStep ==
    ASSUME ShownIsFound, KeptOnlyAfterError, [SlicesNext]_slicesVars
    PROVE  KeptOnlyAfterError'
<1> USE DEF ShownIsFound, KeptOnlyAfterError, Asking, Goes
<1>1. ASSUME NEW c \in Calls, PreloadSlice(c) PROVE KeptOnlyAfterError'
  BY <1>1 DEF PreloadSlice
<1>2. ASSUME NEW c \in Calls, OnTransactionsTooLate(c) PROVE KeptOnlyAfterError'
  BY <1>2 DEF OnTransactionsTooLate
<1>3. ASSUME NEW c \in Calls, OnTransactionsFailed(c) PROVE KeptOnlyAfterError'
  BY <1>3 DEF OnTransactionsFailed
<1>4. ASSUME NEW c \in Calls, OnTransactions(c) PROVE KeptOnlyAfterError'
  BY <1>4 DEF OnTransactions, Loaded
<1>5. ASSUME NEW c \in Calls, OnDecrypted(c) PROVE KeptOnlyAfterError'
  BY <1>5 DEF OnDecrypted, Loaded
<1>6. ASSUME NEW c \in Calls, OnDecryptedTooLate(c) PROVE KeptOnlyAfterError'
  BY <1>6 DEF OnDecryptedTooLate
<1>7. CASE DestroyViewer
  BY <1>7 DEF DestroyViewer
<1>8. CASE PasswordComesOrGoes
  BY <1>8 DEF PasswordComesOrGoes
<1>9. CASE UNCHANGED slicesVars
  BY <1>9 DEF slicesVars
<1> QED BY <1>1, <1>2, <1>3, <1>4, <1>5, <1>6, <1>7, <1>8, <1>9 DEF SlicesNext, Answer

\* _preloadIds are the ids on their way and those whose request has failed: no
\* other is kept from being asked for, and none is asked for twice
\* (AccountViewer::preloadSlice), for any number of calls and ids.
THEOREM KeptIsOnlyAfterError == SlicesSpec => []KeptOnlyAfterError
<1>1. SlicesInit => ShownIsFound /\ KeptOnlyAfterError
  BY ShownIsFoundInit DEF SlicesInit, KeptOnlyAfterError, Asking
<1>2. ShownIsFound /\ KeptOnlyAfterError /\ [SlicesNext]_slicesVars
        => ShownIsFound' /\ KeptOnlyAfterError'
  BY ShownIsFoundStep, KeptStep
<1> QED BY <1>1, <1>2, PTL DEF SlicesSpec

-----------------------------------------------------------------------------
(* The texts on the disk.  In what follows w is what the library tells of the *)
(* accounts.                                                                   *)

\* All messages of a list.
MessagesIn(list) == UNION {ToSet(Messages(t)) : t \in ToSet(list)}

HaveLists(list) == IsList(list) /\ \A t \in ToSet(list) : IsList(t.outgoing)

\* AllMessages has each message of a list.
LEMMA AllMessagesAre ==
    ASSUME NEW list, HaveLists(list)
    PROVE  \A i \in DOMAIN AllMessages(list) : AllMessages(list)[i] \in MessagesIn(list)
<1> DEFINE n == Len(list)
           s == [i \in DOMAIN list |-> Messages(list[i])]
           S == MessagesIn(list)
<1>1. n \in Nat /\ DOMAIN list = 1..n /\ \A i \in 1..n : list[i] \in ToSet(list)
  BY ListFacts DEF HaveLists
<1>2. ASSUME NEW i \in 1..n PROVE Messages(list[i]) \in Seq(S)
  <2> DEFINE T == ToSet(Messages(list[i]))
  <2>1. Messages(list[i]) \in Seq(T)
    BY <1>1, MessagesAt DEF HaveLists
  <2>2. T \subseteq S
    BY <1>1 DEF MessagesIn
  <2> HIDE DEF T, S
  <2> QED BY <2>1, <2>2
<1> HIDE DEF S, n
<1>3. s \in Seq(Seq(S))
  <2>1. s \in [1..n -> Seq(S)]
    BY <1>1, <1>2
  <2> HIDE DEF s
  <2> QED BY <1>1, <2>1
<1>4. AllMessages(list) = FlattenSeq(s)
  BY DEF AllMessages
<1> HIDE DEF s
<1>5. FlattenSeq(s) \in Seq(S)
  BY <1>3, FlattenElements
<1> QED BY <1>4, <1>5 DEF S

\* r is l with its messages converted.
MappedMessages(l, r, d) ==
    /\ DOMAIN r = DOMAIN l /\ r = [i \in DOMAIN l |-> r[i]]
    /\ \A i \in DOMAIN l :
          /\ r[i].incoming = d[l[i].incoming]
          /\ r[i].outgoing = [j \in DOMAIN l[i].outgoing |-> d[l[i].outgoing[j]]]

\* The messages of a list that was converted message by message.
LEMMA MessagesMapped ==
    ASSUME NEW l, HaveLists(l), NEW d, NEW r, MappedMessages(l, r, d)
    PROVE  /\ HaveLists(r)
           /\ \A p \in MessagesIn(r) : \E m \in MessagesIn(l) : p = d[m]
<1> USE DEF MappedMessages
<1>1. /\ Len(l) \in Nat /\ DOMAIN l = 1..Len(l)
      /\ \A i \in DOMAIN l : l[i] \in ToSet(l)
  BY ListFacts DEF HaveLists
<1>2. IsList(r)
  BY <1>1, MapIsList
<1>3. ASSUME NEW u \in ToSet(r)
      PROVE  IsList(u.outgoing) /\ \A p \in ToSet(Messages(u)) : \E m \in MessagesIn(l) : p = d[m]
  <2>1. PICK i \in DOMAIN l : u = r[i]
    BY <1>3 DEF ToSet
  <2> DEFINE t == l[i]
             o == t.outgoing
             q == u.outgoing
  <2>2. t \in ToSet(l) /\ IsList(o)
    BY <1>1 DEF HaveLists
  <2>3. u.incoming = d[t.incoming] /\ q = [j \in DOMAIN o |-> d[o[j]]]
    BY <2>1
  <2>4. ToSet(Messages(t)) = {t.incoming} \cup ToSet(o)
    BY <2>2, MessagesOf
  <2>5. {t.incoming} \cup ToSet(o) \subseteq MessagesIn(l)
    BY <2>2, <2>4 DEF MessagesIn
  <2>6. Len(o) \in Nat /\ DOMAIN o = 1..Len(o) /\ \A j \in DOMAIN o : o[j] \in ToSet(o)
    BY <2>2, ListFacts
  <2> HIDE DEF t, o, q
  <2>7. DOMAIN q = 1..Len(o) /\ q = [j \in 1..Len(o) |-> q[j]]
    BY <2>3, <2>6
  <2>8. IsList(q)
    BY <2>6, <2>7, MapIsList
  <2>9. ToSet(Messages(u)) = {u.incoming} \cup ToSet(q)
    BY <2>8, MessagesOf DEF q
  <2>10. ASSUME NEW p \in ToSet(q) PROVE \E m \in MessagesIn(l) : p = d[m]
    <3>1. PICK j \in DOMAIN q : p = q[j]
      BY <2>10 DEF ToSet
    <3>2. p = d[o[j]] /\ o[j] \in MessagesIn(l)
      BY <2>3, <2>5, <2>6, <2>7, <3>1
    <3> QED BY <3>2
  <2> QED BY <2>3, <2>5, <2>8, <2>9, <2>10 DEF q
<1> QED BY <1>2, <1>3 DEF HaveLists, MessagesIn

\* What is written of the message is not a text that came encrypted.
ClearMessage(m, w) ==
    (IF IsEncrypted(m) THEN m.encrypted ELSE m.text) \notin SecretTexts(w)

ClearList(l, w) == \A m \in MessagesIn(l) : ClearMessage(m, w)

IsTransactions(l) == IsList(l) /\ \A t \in ToSet(l) : IsTransaction(t)

LEMMA TransactionsFacts ==
    ASSUME NEW l, IsTransactions(l)
    PROVE  /\ HaveLists(l) /\ HasMessages(l)
           /\ \A m \in MessagesIn(l) : IsMessage(m)
           /\ \A i \in DOMAIN l :
                 /\ l[i] = [content |-> l[i].content, incoming |-> l[i].incoming,
                            outgoing |-> l[i].outgoing]
                 /\ l[i].incoming \in MessagesIn(l)
                 /\ \A j \in DOMAIN l[i].outgoing : l[i].outgoing[j] \in MessagesIn(l)
<1>1. /\ IsList(l) /\ \A t \in ToSet(l) : IsTransaction(t)
      /\ \A i \in DOMAIN l : l[i] \in ToSet(l)
  BY ListFacts DEF IsTransactions
<1>2. HaveLists(l) /\ \A m \in MessagesIn(l) : IsMessage(m)
  BY <1>1 DEF IsTransaction, HaveLists, MessagesIn
<1>3. ASSUME NEW t \in ToSet(l) PROVE {"incoming", "outgoing"} \subseteq DOMAIN t
  <2>1. t = [content |-> t.content, incoming |-> t.incoming, outgoing |-> t.outgoing]
    BY <1>1, <1>3 DEF IsTransaction
  <2> QED BY <2>1
<1>4. ASSUME NEW t \in ToSet(l)
      PROVE  /\ t.incoming \in MessagesIn(l)
             /\ \A j \in DOMAIN t.outgoing : t.outgoing[j] \in MessagesIn(l)
  <2>1. ToSet(Messages(t)) \subseteq MessagesIn(l)
    BY <1>4 DEF MessagesIn
  <2>2. ToSet(Messages(t)) = {t.incoming} \cup ToSet(t.outgoing)
    BY <1>1, MessagesOf DEF IsTransaction
  <2> QED BY <2>1, <2>2 DEF ToSet
<1> QED BY <1>1, <1>2, <1>3, <1>4 DEF HasMessages, HaveLists, IsTransaction

\* What is packed of a clear message is no secret text.
LEMMA ClearMessagePacked ==
    ASSUME NEW m, NEW w, ClearMessage(m, w)
    PROVE  TextOnDisk(PackMessage(m)) \notin SecretTexts(w)
<1> DEFINE S == SecretTexts(w)
           x == PackText(m)
           p == PackMessage(m)
<1>1. p.form = "message2" /\ p.message = x
  BY DEF PackMessage
<1>2. x.data = IF IsEncrypted(m) THEN m.encrypted ELSE m.text
  BY DEF PackText
<1>3. TextOnDisk(p) = x.data
  <2> HIDE DEF p, x
  <2> QED BY <1>1 DEF TextOnDisk
<1> QED BY <1>2, <1>3 DEF ClearMessage

\* The lists on the disk: no message has a secret text.
HiddenList(l, w) ==
    HaveLists(l) /\ \A p \in MessagesIn(l) : TextOnDisk(p) \notin SecretTexts(w)

LEMMA PackedIsHidden ==
    ASSUME NEW l, NEW w, IsTransactions(l), ClearList(l, w)
    PROVE  HiddenList(PackTransactions(l), w)
<1> DEFINE r == PackTransactions(l)
           d == [m \in MessagesIn(l) |-> PackMessage(m)]
<1>1. /\ HaveLists(l)
      /\ \A i \in DOMAIN l :
            /\ l[i] = [content |-> l[i].content, incoming |-> l[i].incoming,
                       outgoing |-> l[i].outgoing]
            /\ l[i].incoming \in MessagesIn(l)
            /\ \A j \in DOMAIN l[i].outgoing : l[i].outgoing[j] \in MessagesIn(l)
  BY TransactionsFacts
<1>2. DOMAIN r = DOMAIN l /\ r = [i \in DOMAIN l |-> r[i]]
  BY DEF PackTransactions, Map
<1>3. ASSUME NEW i \in DOMAIN l
      PROVE  /\ r[i].incoming = d[l[i].incoming]
             /\ r[i].outgoing = [j \in DOMAIN l[i].outgoing |-> d[l[i].outgoing[j]]]
  <2>1. r[i] = PackTransaction(l[i])
    BY DEF PackTransactions, Map
  <2>2. PackTransaction(l[i]) = [content |-> l[i].content,
                                 incoming |-> PackMessage(l[i].incoming),
                                 outgoing |-> Map(PackMessage, l[i].outgoing)]
    <3> DEFINE t == l[i]
               c == t.content
               m == t.incoming
               o == t.outgoing
    <3>1. t = [content |-> c, incoming |-> m, outgoing |-> o]
      BY <1>1
    <3> HIDE DEF t, c, m, o
    <3>2. PackTransaction(t) = [content |-> c, incoming |-> PackMessage(m),
                               outgoing |-> Map(PackMessage, o)]
      BY <3>1, PackTransactionFields
    <3> QED BY <3>2 DEF t, c, m, o
  <2> QED BY <1>1, <2>1, <2>2 DEF Map
<1> HIDE DEF r, d
<1>4. HaveLists(r) /\ \A p \in MessagesIn(r) : \E m \in MessagesIn(l) : p = d[m]
  <2>1. MappedMessages(l, r, d)
    BY <1>2, <1>3 DEF MappedMessages
  <2> QED BY <1>1, <2>1, MessagesMapped
<1>5. \A m \in MessagesIn(l) : TextOnDisk(d[m]) \notin SecretTexts(w)
  BY ClearMessagePacked DEF ClearList, d
<1> QED BY <1>4, <1>5 DEF HiddenList, r

LEMMA OldIsHidden ==
    ASSUME NEW l, NEW w, IsTransactions(l), ClearList(l, w),
           \A m \in MessagesIn(l) : m = Message(m.source, Plain(m.text))
    PROVE  HiddenList(Map(OldTransaction, l), w)
<1> DEFINE r == Map(OldTransaction, l)
           d == [m \in MessagesIn(l) |-> OldMessage(m)]
<1>1. /\ HaveLists(l)
      /\ \A i \in DOMAIN l :
            /\ l[i] = [content |-> l[i].content, incoming |-> l[i].incoming,
                       outgoing |-> l[i].outgoing]
            /\ l[i].incoming \in MessagesIn(l)
            /\ \A j \in DOMAIN l[i].outgoing : l[i].outgoing[j] \in MessagesIn(l)
  BY TransactionsFacts
<1>2. DOMAIN r = DOMAIN l /\ r = [i \in DOMAIN l |-> r[i]]
  BY DEF Map
<1>3. ASSUME NEW i \in DOMAIN l
      PROVE  /\ r[i].incoming = d[l[i].incoming]
             /\ r[i].outgoing = [j \in DOMAIN l[i].outgoing |-> d[l[i].outgoing[j]]]
  <2>1. r[i] = OldTransaction(l[i])
    BY DEF Map
  <2>2. OldTransaction(l[i]) = [content |-> l[i].content,
                                incoming |-> OldMessage(l[i].incoming),
                                outgoing |-> Map(OldMessage, l[i].outgoing)]
    <3> DEFINE t == l[i]
               c == t.content
               m == t.incoming
               o == t.outgoing
    <3>1. t = [content |-> c, incoming |-> m, outgoing |-> o]
      BY <1>1
    <3> HIDE DEF t, c, m, o
    <3>2. OldTransaction(t) = [content |-> c, incoming |-> OldMessage(m),
                               outgoing |-> Map(OldMessage, o)]
      BY <3>1, OldTransactionFields
    <3> QED BY <3>2 DEF t, c, m, o
  <2> QED BY <1>1, <2>1, <2>2 DEF Map
<1> HIDE DEF r, d
<1>4. HaveLists(r) /\ \A p \in MessagesIn(r) : \E m \in MessagesIn(l) : p = d[m]
  <2>1. MappedMessages(l, r, d)
    BY <1>2, <1>3 DEF MappedMessages
  <2> QED BY <1>1, <2>1, MessagesMapped
<1>5. ASSUME NEW m \in MessagesIn(l) PROVE TextOnDisk(d[m]) \notin SecretTexts(w)
  <2>1. ~ IsEncrypted(m) /\ ClearMessage(m, w)
    BY DEF ClearList, IsEncrypted, Message, Plain, MessageText
  <2>2. d[m] = [form |-> "message", source |-> m.source, message |-> m.text]
    BY DEF d, OldMessage
  <2>3. TextOnDisk(d[m]) = m.text
    BY <2>2 DEF TextOnDisk
  <2> QED BY <2>1, <2>3 DEF ClearMessage
<1> QED BY <1>4, <1>5 DEF HiddenList, r

\* What the library tells is clear: texts that came encrypted are not in it.
LEMMA ParsedIsClear ==
    ASSUME NEW w \in Told, NEW a, NEW s, s.last = w.last
    PROVE  LET l == ParseState(a, s).last IN
             /\ IsTransactions(l) /\ ClearList(l, w)
             /\ MessagesIn(l) \subseteq {ParseMessage(m) : m \in ToldMessages(w)}
<1> DEFINE l == w.last
           r == Map(ParseTransaction, l)
           d == [m \in MessagesIn(l) |-> ParseMessage(m)]
<1>1. IsTold(w)
  BY ToldAssumption
<1>2. IsList(l) /\ \A t \in ToSet(l) : IsToldTransaction(t)
  BY <1>1 DEF IsTold
<1>3. HaveLists(l) /\ MessagesIn(l) = ToldMessages(w)
  BY <1>2 DEF HaveLists, IsToldTransaction, MessagesIn, ToldMessages
<1>4. ParseState(a, s).last = r
  BY DEF ParseState, State
<1>5. IsTransactions(r)
  <2>1. IsState(ParseState(a, w))
    BY <1>1, ParsedIsState
  <2>2. ParseState(a, w).last = r
    BY DEF ParseState, State
  <2> HIDE DEF r
  <2> QED BY <2>1, <2>2 DEF IsState, IsTransactions
<1>6. ASSUME NEW i \in DOMAIN l
      PROVE  /\ l[i] = [content |-> l[i].content, incoming |-> l[i].incoming,
                        outgoing |-> l[i].outgoing]
             /\ l[i].incoming \in MessagesIn(l)
             /\ \A j \in DOMAIN l[i].outgoing : l[i].outgoing[j] \in MessagesIn(l)
  <2>1. l[i] \in ToSet(l)
    BY DEF ToSet
  <2>2. IsToldTransaction(l[i])
    BY <1>2, <2>1
  <2>3. ToSet(Messages(l[i])) \subseteq MessagesIn(l)
    BY <2>1 DEF MessagesIn
  <2>4. ToSet(Messages(l[i])) = {l[i].incoming} \cup ToSet(l[i].outgoing)
    BY <2>2, MessagesOf DEF IsToldTransaction
  <2> QED BY <2>2, <2>3, <2>4 DEF ToSet, IsToldTransaction
<1>7. MappedMessages(l, r, d)
  <2>1. DOMAIN r = DOMAIN l /\ r = [i \in DOMAIN l |-> r[i]]
    BY DEF Map
  <2>2. ASSUME NEW i \in DOMAIN l
        PROVE  /\ r[i].incoming = d[l[i].incoming]
               /\ r[i].outgoing = [j \in DOMAIN l[i].outgoing |-> d[l[i].outgoing[j]]]
    <3> DEFINE t == l[i]
               c == t.content
               m == t.incoming
               o == t.outgoing
    <3>1. r[i] = ParseTransaction(t)
      BY DEF Map
    <3>2. t = [content |-> c, incoming |-> m, outgoing |-> o]
      BY <1>6
    <3>3. m \in MessagesIn(l) /\ \A j \in DOMAIN o : o[j] \in MessagesIn(l)
      BY <1>6
    <3> HIDE DEF t, c, m, o, r
    <3>4. ParseTransaction(t) = [content |-> c, incoming |-> ParseMessage(m),
                                 outgoing |-> Map(ParseMessage, o)]
      BY <3>2, ParseTransactionFields
    <3>5. r[i].incoming = d[m] /\ r[i].outgoing = [j \in DOMAIN o |-> d[o[j]]]
      BY <3>1, <3>3, <3>4 DEF Map
    <3> QED BY <3>5 DEF t, m, o
  <2> HIDE DEF r, d
  <2> QED BY <2>1, <2>2 DEF MappedMessages
<1> HIDE DEF r, d, l
<1>8. \A p \in MessagesIn(r) : \E m \in MessagesIn(l) : p = d[m]
  BY <1>3, <1>7, MessagesMapped
<1>9. MessagesIn(r) \subseteq {ParseMessage(m) : m \in ToldMessages(w)}
  BY <1>3, <1>8 DEF d
<1>10. ClearList(r, w)
  BY <1>9, SecretsAssumption DEF ClearList, ClearMessage
<1> QED BY <1>4, <1>5, <1>9, <1>10

\* Decrypted texts stay in memory: a message keeps its bytes, which are what is
\* written of it.
LEMMA DecryptedIsClear ==
    ASSUME NEW s, NEW w, IsState(s), ClearList(s.last, w)
    PROVE  /\ Decrypted(s).last = WithItsTexts(s.last)
           /\ ClearList(Decrypted(s).last, w)
<1> DEFINE l == s.last
           C == CollectEncryptedTexts(l)
           r == WithItsTexts(l)
<1>1. Decrypted(s).last = r
  BY DEF Decrypted, WithItsTexts, IsState
<1>2. r = AddDecryptedTexts(l, C, Texts(C))
  BY DEF WithItsTexts
<1>3. IsTransactions(l)
  BY DEF IsState, IsTransactions
<1>4. HasMessages(l) /\ HaveLists(l) /\ \A m \in MessagesIn(l) : IsMessage(m)
  BY <1>3, TransactionsFacts
<1>5. DOMAIN r = DOMAIN l
  BY <1>2 DEF AddDecryptedTexts
<1> HIDE DEF l, r, C
<1>6. ASSUME NEW m, IsMessage(m), ClearMessage(m, w)
      PROVE  ClearMessage(DecryptMessage(m, C, Texts(C)), w)
  <2> DEFINE n == DecryptMessage(m, C, Texts(C))
  <2>1. CASE ~ IsEncrypted(m)
    BY <1>6, <2>1, PlainStays
  <2>2. CASE IsEncrypted(m)
    <3>1. n.encrypted = m.encrypted
      BY <1>6 DEF DecryptMessage, IsMessage
    <3>2. IsEncrypted(n)
      BY <2>2, <3>1 DEF IsEncrypted
    <3> HIDE DEF n
    <3> QED BY <1>6, <2>2, <3>1, <3>2 DEF ClearMessage, n
  <2> QED BY <2>1, <2>2
<1>7. ASSUME NEW u \in ToSet(r), NEW p \in ToSet(Messages(u)) PROVE ClearMessage(p, w)
  <2>1. PICK i \in DOMAIN l : u = r[i]
    BY <1>5, <1>7 DEF ToSet
  <2>2. /\ IsList(l[i].outgoing) /\ IsList(u.outgoing)
        /\ Len(Messages(u)) = Len(Messages(l[i]))
        /\ \A j \in 1..Len(Messages(l[i])) :
              Messages(u)[j] = DecryptMessage(Messages(l[i])[j], C, Texts(C))
    BY <1>2, <1>4, <2>1, MessagesAreConverted
  <2>3. DOMAIN Messages(u) = 1..Len(Messages(u))
        /\ DOMAIN Messages(l[i]) = 1..Len(Messages(l[i]))
    BY <2>2, MessagesAt
  <2>4. PICK j \in 1..Len(Messages(l[i])) : p = Messages(u)[j]
    BY <1>7, <2>2, <2>3 DEF ToSet
  <2>5. Messages(l[i])[j] \in ToSet(Messages(l[i])) /\ l[i] \in ToSet(l)
    BY <2>3 DEF ToSet
  <2>6. Messages(l[i])[j] \in MessagesIn(l)
    BY <2>5 DEF MessagesIn
  <2>7. IsMessage(Messages(l[i])[j]) /\ ClearMessage(Messages(l[i])[j], w)
    BY <1>4, <2>6 DEF ClearList, l
  <2> QED BY <1>6, <2>2, <2>4, <2>7
<1> QED BY <1>1, <1>7 DEF ClearList, MessagesIn, r, l

\* Neither do texts come from the disk that were not there.
LEMMA LoadedIsClear ==
    ASSUME NEW s, NEW w, IsState(s), ClearList(s.last, w)
    PROVE  ClearList(WithoutTexts(s).last, w)
<1> DEFINE l == s.last
           r == Map(HiddenTransaction, l)
           d == [m \in MessagesIn(l) |-> Hidden(m)]
<1>1. WithoutTexts(s).last = r
  BY WithoutTextsFields DEF State
<1>2. IsTransactions(l)
  BY DEF IsState, IsTransactions
<1>3. /\ HaveLists(l) /\ \A m \in MessagesIn(l) : IsMessage(m)
      /\ \A i \in DOMAIN l :
            /\ l[i] = [content |-> l[i].content, incoming |-> l[i].incoming,
                       outgoing |-> l[i].outgoing]
            /\ l[i].incoming \in MessagesIn(l)
            /\ \A j \in DOMAIN l[i].outgoing : l[i].outgoing[j] \in MessagesIn(l)
  BY <1>2, TransactionsFacts
<1>4. MappedMessages(l, r, d)
  <2>1. DOMAIN r = DOMAIN l /\ r = [i \in DOMAIN l |-> r[i]]
    BY DEF Map
  <2>2. ASSUME NEW i \in DOMAIN l
        PROVE  /\ r[i].incoming = d[l[i].incoming]
               /\ r[i].outgoing = [j \in DOMAIN l[i].outgoing |-> d[l[i].outgoing[j]]]
    <3> DEFINE t == l[i]
               c == t.content
               m == t.incoming
               o == t.outgoing
    <3>1. r[i] = HiddenTransaction(t)
      BY DEF Map
    <3>2. t = [content |-> c, incoming |-> m, outgoing |-> o]
      BY <1>3
    <3>3. m \in MessagesIn(l) /\ \A j \in DOMAIN o : o[j] \in MessagesIn(l)
      BY <1>3
    <3> HIDE DEF t, c, m, o, r
    <3>4. HiddenTransaction(t) = [content |-> c, incoming |-> Hidden(m),
                                  outgoing |-> Map(Hidden, o)]
      BY <3>2, HiddenTransactionFields
    <3>5. r[i].incoming = d[m] /\ r[i].outgoing = [j \in DOMAIN o |-> d[o[j]]]
      BY <3>1, <3>3, <3>4 DEF Map
    <3> QED BY <3>5 DEF t, m, o
  <2> HIDE DEF r, d
  <2> QED BY <2>1, <2>2 DEF MappedMessages
<1> HIDE DEF r, d
<1>5. \A p \in MessagesIn(r) : \E m \in MessagesIn(l) : p = d[m]
  BY <1>3, <1>4, MessagesMapped
<1>6. ASSUME NEW m \in MessagesIn(l) PROVE ClearMessage(d[m], w)
  <2>1. IsMessage(m) /\ ClearMessage(m, w) /\ d[m] = Hidden(m)
    BY <1>3 DEF ClearList, d
  <2>2. CASE ~ IsEncrypted(m)
    BY <2>1, <2>2 DEF Hidden
  <2>3. CASE IsEncrypted(m)
    <3>1. Hidden(m).encrypted = m.encrypted
      BY <2>1, <2>3 DEF Hidden, IsMessage
    <3> QED BY <2>1, <2>3, <3>1 DEF ClearMessage, IsEncrypted
  <2> QED BY <2>1, <2>2, <2>3
<1> QED BY <1>1, <1>5, <1>6 DEF ClearList

\* The inductive invariant of the texts: a state that was saved is clear, and so
\* is what was written of it.
TextsAreClear ==
    \A r \in Records \ ({"settings"} \cup Nets) : stored[r] # <<>> =>
        /\ HiddenList(stored[r][1].last, told)
        /\ ClearList(kept[r][1].last, told)

\* Records of other kinds may change as they like.
LEMMA OtherRecords ==
    ASSUME TextsAreClear, StoredIsKept, told' = told,
           NEW r \in {"settings"} \cup Nets, NEW p, NEW v,
           \/ stored' = [stored EXCEPT ![r] = p] /\ kept' = [kept EXCEPT ![r] = v]
           \/ UNCHANGED <<stored, kept>>
    PROVE  TextsAreClear'
<1> SUFFICES ASSUME NEW x \in Records \ ({"settings"} \cup Nets)
             PROVE  stored'[x] = stored[x] /\ kept'[x] = kept[x]
  BY DEF TextsAreClear
<1>1. x # r
  OBVIOUS
<1> QED BY <1>1 DEF StoredIsKept

\* Saving a state that is clear.
LEMMA ClearStateSaved ==
    ASSUME TextsAreClear, StoredIsKept, NEW s, IsState(s), ClearList(s.last, told),
           s.address \in Addresses, SaveWalletState(s)
    PROVE  TextsAreClear'
<1> DEFINE r == StateKey[s.address]
           p == PackState(s)
<1>1. told' = told /\ r \in Records
  BY RecordKinds DEF SaveWalletState, Save
<1>2. CASE UNCHANGED <<stored, kept>>
  BY <1>1, <1>2 DEF TextsAreClear
<1>3. CASE stored' = [stored EXCEPT ![r] = <<p>>] /\ kept' = [kept EXCEPT ![r] = <<s>>]
  <2>1. p.last = PackTransactions(s.last)
    BY DEF PackState, State
  <2>2. HiddenList(p.last, told)
    BY <2>1, PackedIsHidden DEF IsState, IsTransactions
  <2>3. stored'[r] = <<p>> /\ kept'[r] = <<s>>
    BY <1>1, <1>3 DEF StoredIsKept
  <2>4. \A x \in Records \ {r} : stored'[x] = stored[x] /\ kept'[x] = kept[x]
    BY <1>3 DEF StoredIsKept
  <2> HIDE DEF r, p
  <2>5. stored'[r][1] = p /\ kept'[r][1] = s
    BY <2>3
  <2> SUFFICES ASSUME NEW x \in Records \ ({"settings"} \cup Nets), stored'[x] # <<>>
               PROVE  HiddenList(stored'[x][1].last, told) /\ ClearList(kept'[x][1].last, told)
    BY <1>1 DEF TextsAreClear
  <2>6. CASE x = r
    BY <2>2, <2>5, <2>6
  <2>7. CASE x # r
    BY <2>4, <2>7 DEF TextsAreClear
  <2> QED BY <2>6, <2>7
<1> QED BY <1>2, <1>3 DEF SaveWalletState, Save

\* What is loaded of an account is clear.
LEMMA StateLoadedIsClear ==
    ASSUME TextsAreClear, StoredIsKept, NEW a \in Addresses
    PROVE  ClearList(LoadWalletState(a).last, told)
<1> DEFINE r == StateKey[a]
           k == kept[r]
<1>1. r \in Records /\ r \notin {"settings"} \cup Nets
  BY RecordKinds
<1>2. LoadWalletState(a) = IF k # <<>> /\ k[1].address = a THEN WithoutTexts(k[1]) ELSE Blank(a)
  BY StateLoaded
<1>3. CASE k # <<>> /\ k[1].address = a
  <2>1. stored[r] = <<stored[r][1]>> /\ Fits(r, stored[r][1], k[1])
    BY <1>1, <1>3 DEF StoredIsKept
  <2>2. stored[r] # <<>> /\ IsState(k[1])
    BY <1>1, <2>1, NotNothing DEF Fits
  <2>3. ClearList(k[1].last, told)
    BY <1>1, <2>2 DEF TextsAreClear
  <2> QED BY <1>2, <1>3, <2>2, <2>3, LoadedIsClear
<1>4. CASE ~ (k # <<>> /\ k[1].address = a)
  <2>1. LoadWalletState(a).last = <<>>
    BY <1>2, <1>4 DEF Blank, State
  <2> QED BY <2>1, EmptyIsList DEF ClearList, MessagesIn
<1> QED BY <1>3, <1>4

\* What an older version has left is clear.
LEMMA ClearInit == StoreInit => TextsAreClear
<1> SUFFICES ASSUME StoreInit PROVE TextsAreClear
  OBVIOUS
<1>1. told \in Told
  BY DEF StoreInit
<1>2. PICK first \in {<<>>} \cup {<<p>> : p \in FirstSettings},
           lists \in [Nets -> FirstLists], a \in Addresses, old \in BOOLEAN :
        Found(first, lists, a, old)
  BY DEF StoreInit
<1> DEFINE now == [told EXCEPT !.pending = <<>>]
           s == ParseState(a, now)
<1>3. now.last = told.last
  BY <1>1, ToldAssumption DEF IsTold
<1>4. IsTransactions(s.last) /\ ClearList(s.last, told)
  <2> HIDE DEF now
  <2> QED BY <1>1, <1>3, ParsedIsClear
<1>5. ASSUME NEW r \in Records \ ({"settings"} \cup Nets), stored[r] # <<>>
      PROVE  HiddenList(stored[r][1].last, told) /\ ClearList(kept[r][1].last, told)
  <2>1. r = StateKey[a] /\ old
    BY <1>2, <1>5 DEF Found
  <2>2. stored[r] = <<OldState(s)>> /\ kept[r] = <<s>> /\ WasExpressible(s)
    BY <1>2, <1>5, <2>1 DEF Found
  <2> HIDE DEF s
  <2>3. stored[r][1] = OldState(s) /\ kept[r][1] = s
    BY <2>2
  <2>4. \A m \in MessagesIn(s.last) : m = Message(m.source, Plain(m.text))
    BY <2>2 DEF WasExpressible, MessagesIn
  <2>5. HiddenList(Map(OldTransaction, s.last), told)
    BY <1>4, <2>4, OldIsHidden
  <2>6. OldState(s).last = Map(OldTransaction, s.last)
    BY DEF OldState, State
  <2> QED BY <1>4, <2>3, <2>5, <2>6
<1> QED BY <1>5 DEF TextsAreClear

LEMMA ClearNext ==
    ASSUME TextsAreClear, StoredIsKept, [StoreNext]_allVars
    PROVE  TextsAreClear'
<1>1. CASE DirectoryStep
  <2>1. told' = told
    BY <1>1 DEF DirectoryStep
  <2>2. CASE UNCHANGED <<stored, kept>>
    BY <2>1, <2>2 DEF TextsAreClear
  <2>3. CASE stored' = Nothing
    BY <2>3 DEF TextsAreClear, Nothing
  <2> QED BY <1>1, <2>2, <2>3 DEF DirectoryStep
<1>2. ASSUME NEW s \in NewSettings, SaveSettings(s) PROVE TextsAreClear'
  <2> DEFINE p == <<PackSettings(s)>>
             v == <<s>>
  <2>1. /\ told' = told
        /\ \/ stored' = [stored EXCEPT !["settings"] = p] /\ kept' = [kept EXCEPT !["settings"] = v]
           \/ UNCHANGED <<stored, kept>>
    BY <1>2 DEF SaveSettings, Save
  <2> HIDE DEF p, v
  <2> QED BY <2>1, OtherRecords
<1>3. ASSUME NEW net \in Nets, NEW l, SaveWalletList(net, l) PROVE TextsAreClear'
  <2>1. ASSUME NEW p, NEW v, Save(net, p, v) PROVE TextsAreClear'
    <3>1. /\ told' = told
          /\ \/ stored' = [stored EXCEPT ![net] = p] /\ kept' = [kept EXCEPT ![net] = v]
             \/ UNCHANGED <<stored, kept>>
      BY <2>1 DEF Save
    <3> QED BY <3>1, OtherRecords
  <2> QED BY <1>3, <2>1 DEF SaveWalletList
<1>4. ASSUME NEW net \in Nets, ChangeList(net) PROVE TextsAreClear'
  BY <1>3, <1>4 DEF ChangeList
<1>5. ASSUME NEW a \in Addresses, ChangeState(a) PROVE TextsAreClear'
  <2> DEFINE was == LoadWalletState(a)
             now == ParseState(a, told)
  <2>1. told \in Told /\ IsTold(told)
    BY ToldAssumption DEF StoredIsKept
  <2>2. IsState(was) /\ was.address = a /\ ClearList(was.last, told)
    BY StateLoaded, StateLoadedIsClear
  <2>3. IsState(now) /\ now.address = a /\ ClearList(now.last, told)
    BY <2>1, ParsedIsState, ParsedIsClear
  <2>4. IsList(now.pending) /\ \A t \in ToSet(now.pending) : IsShown(t)
    BY <2>3 DEF IsState
  <2>5. \/ SaveWalletState([now EXCEPT !.pending = <<>>])
        \/ SaveWalletState(Decrypted(now))
        \/ SaveWalletState([was EXCEPT !.pending = now.pending])
    BY <1>5 DEF ChangeState
  <2> HIDE DEF was, now
  <2>6. CASE SaveWalletState([now EXCEPT !.pending = <<>>])
    <3> DEFINE s == [now EXCEPT !.pending = <<>>]
    <3>1. IsState(s) /\ s.address = a
      BY <2>3, EmptyIsList, PendingReplaced
    <3>2. s.last = now.last
      BY <2>3 DEF IsState
    <3>3. SaveWalletState(s)
      BY <2>6
    <3> HIDE DEF s
    <3> QED BY <2>3, <3>1, <3>2, <3>3, ClearStateSaved
  <2>7. CASE SaveWalletState(Decrypted(now))
    <3>1. IsState(Decrypted(now)) /\ Decrypted(now).address = a
      BY <2>3, DecryptedIsState
    <3>2. ClearList(Decrypted(now).last, told)
      BY <2>3, DecryptedIsClear
    <3> QED BY <2>7, <3>1, <3>2, ClearStateSaved
  <2>8. CASE SaveWalletState([was EXCEPT !.pending = now.pending])
    <3> DEFINE s == [was EXCEPT !.pending = now.pending]
    <3>1. IsState(s) /\ s.address = a
      BY <2>2, <2>4, PendingReplaced
    <3>2. s.last = was.last
      BY <2>2 DEF IsState
    <3>3. SaveWalletState(s)
      BY <2>8
    <3> HIDE DEF s
    <3> QED BY <2>2, <3>1, <3>2, <3>3, ClearStateSaved
  <2> QED BY <2>5, <2>6, <2>7, <2>8
<1>6. CASE UNCHANGED allVars
  BY <1>6 DEF allVars, storeVars, TextsAreClear
<1> QED BY <1>1, <1>2, <1>4, <1>5, <1>6 DEF StoreNext

\* A text that was decrypted is one of those that came encrypted.
LEMMA DecryptedTextIsSecret ==
    ASSUME NEW w \in Told, NEW a,
           NEW j \in DOMAIN AllMessages(Decrypted(ParseState(a, w)).last),
           IsEncrypted(AllMessages(Decrypted(ParseState(a, w)).last)[j])
    PROVE  AllMessages(Decrypted(ParseState(a, w)).last)[j].text \in SecretTexts(w)
<1> DEFINE raw == ParseState(a, w).last
           was == AllMessages(raw)
           now == AllMessages(WithItsTexts(raw))
           text == TextOf(was[j], raw)
<1>1. IsState(ParseState(a, w))
  BY ToldAssumption, ParsedIsState
<1>2. /\ IsTransactions(raw) /\ ClearList(raw, w)
      /\ MessagesIn(raw) \subseteq {ParseMessage(m) : m \in ToldMessages(w)}
  BY ParsedIsClear
<1>3. Decrypted(ParseState(a, w)).last = WithItsTexts(raw)
  BY <1>1, <1>2, DecryptedIsClear
<1>4. HasMessages(raw) /\ HaveLists(raw) /\ \A m \in MessagesIn(raw) : IsMessage(m)
  BY <1>2, TransactionsFacts
<1> HIDE DEF raw
<1>5. /\ was \in Seq(ToSet(was)) /\ DOMAIN now = DOMAIN was
      /\ \A i \in DOMAIN was :
            now[i] = IF IsEncrypted(was[i])
                       THEN [was[i] EXCEPT !.text = TextOf(was[i], raw), !.decrypted = TRUE]
                       ELSE was[i]
  BY <1>4, TextsAreRight, ListIsConverted
<1>6. \A i \in DOMAIN was : was[i] \in MessagesIn(raw)
  BY <1>4, AllMessagesAre
<1>7. j \in DOMAIN was
  BY <1>3, <1>5
<1>8. IsEncrypted(was[j])
  BY <1>3, <1>5, <1>7
<1>9. now[j].text = text
  BY <1>4, <1>5, <1>6, <1>7, <1>8 DEF IsMessage
<1>10. \E q \in DOMAIN was : text = <<was[j].encrypted, was[q].source>>
  <2>1. was[j] \in ToSet(was)
    BY <1>7 DEF ToSet
  <2> QED BY <1>5, <1>8, <2>1, FirstOfItsBytes
<1>11. ASSUME NEW q \in DOMAIN was, text = <<was[j].encrypted, was[q].source>>
       PROVE  text \in SecretTexts(w)
  BY <1>2, <1>6, <1>7, <1>8, <1>11 DEF SecretTexts
<1> QED BY <1>3, <1>9, <1>10, <1>11

\* The text of a message that came encrypted is never written to the disk, in
\* whatever form and whoever wrote it (PackText, DecryptMessage): memory alone
\* has it.
THEOREM TextsAlwaysStayHidden == StoreSpec => []TextsStayHidden
<1>1. StoreInit => StoredIsKept /\ TextsAreClear
  BY InitStored, ClearInit
<1>2. StoredIsKept /\ TextsAreClear /\ [StoreNext]_allVars => StoredIsKept' /\ TextsAreClear'
  BY NextStored, ClearNext
<1>3. StoredIsKept /\ TextsAreClear => TextsStayHidden
  <2> SUFFICES ASSUME StoredIsKept, TextsAreClear, NEW a \in Addresses,
                      stored[StateKey[a]] # <<>>,
                      NEW i \in DOMAIN AllMessages(stored[StateKey[a]][1].last),
                      NEW j \in DOMAIN AllMessages(Decrypted(ParseState(a, told)).last),
                      IsEncrypted(AllMessages(Decrypted(ParseState(a, told)).last)[j])
               PROVE  TextOnDisk(AllMessages(stored[StateKey[a]][1].last)[i]) #
                        AllMessages(Decrypted(ParseState(a, told)).last)[j].text
    BY DEF TextsStayHidden
  <2>1. HiddenList(stored[StateKey[a]][1].last, told)
    BY RecordKinds DEF TextsAreClear
  <2>2. TextOnDisk(AllMessages(stored[StateKey[a]][1].last)[i]) \notin SecretTexts(told)
    BY <2>1, AllMessagesAre DEF HiddenList
  <2>3. told \in Told
    BY DEF StoredIsKept
  <2>4. AllMessages(Decrypted(ParseState(a, told)).last)[j].text \in SecretTexts(told)
    BY <2>3, DecryptedTextIsSecret
  <2> QED BY <2>2, <2>4
<1> QED BY <1>1, <1>2, <1>3, PTL DEF StoreSpec

=============================================================================
