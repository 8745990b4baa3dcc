---------------------------- MODULE NGrafoProofs ----------------------------
(***************************************************************************)
(* Proofs about NGrafo, for every vocabulary, every set of facts and every *)
(* number of triples, whatever is read where the vocabulary was written    *)
(* over a mapping: the three indices answer with exactly the triples of    *)
(* the array, and an id of the file never changes its text.                *)
(*                                                                         *)
(* What an index must satisfy is counted: how often a value stands under a *)
(* key.  One lemma says what adding and removing do to the counts, one     *)
(* what rebuilding an index from a sequence of entries does, and each      *)
(* operation of the store uses them for the three indices.                 *)
(*                                                                         *)
(* The loop of n_heredar is followed turn by turn (Buena): the queue never *)
(* fills, because it holds one concept more than there are triples that    *)
(* gave one a type.                                                        *)
(***************************************************************************)
EXTENDS NGrafo, FiniteSetTheorems, WellFoundedInduction, TLAPS

-----------------------------------------------------------------------------
(* Natural numbers and recursion over them.                                *)

\* A set of naturals that holds 0 and every successor holds them all.
LEMMA InduccionNatural ==
  ASSUME NEW T \in SUBSET Nat, 0 \in T, \A n \in T : n + 1 \in T
  PROVE  T = Nat
<1> DEFINE R == OpToRel(<, Nat)
<1> SUFFICES ASSUME Nat \ T # {} PROVE FALSE
  OBVIOUS
<1>1. IsWellFoundedOn(R, Nat)
  BY NatLessThanWellFounded
<1>2. PICK n \in Nat \ T : \A m \in Nat \ T : <<m, n>> \notin R
  <2> HIDE DEF R
  <2>1. Nat \ T \subseteq Nat /\ Nat \ T # {}
    OBVIOUS
  <2>2. QED
    BY <1>1, <2>1, WFMin
<1>3. \A m \in Nat \ T : ~(m < n)
  BY <1>2 DEF OpToRel
<1>4. n # 0 /\ n - 1 \in Nat /\ n - 1 \notin Nat \ T
  BY <1>3
<1>5. QED
  BY <1>4

-----------------------------------------------------------------------------
(* How often a value stands in a sequence.                                 *)

LEMMA VecesNatural ==
  ASSUME NEW V, NEW s \in Seq(V), NEW x
  PROVE  /\ Veces(s, x) \in Nat
         /\ IsFiniteSet({i \in DOMAIN s : s[i] = x})
         /\ Veces(s, x) > 0 <=> Contains(s, x)
<1> DEFINE A == {i \in DOMAIN s : s[i] = x}
<1>1. DOMAIN s = 1 .. Len(s) /\ Len(s) \in Nat
  OBVIOUS
<1>2. IsFiniteSet(1 .. Len(s))
  BY <1>1, FS_Interval
<1>3. IsFiniteSet(A)
  BY <1>1, <1>2, FS_Subset
<1>4. Cardinality(A) \in Nat /\ (Cardinality(A) = 0 <=> A = {})
  BY <1>3, FS_CardinalityType, FS_EmptySet
<1>5. A # {} <=> Contains(s, x)
  BY <1>1 DEF Contains
<1> HIDE DEF A
<1>6. Veces(s, x) = Cardinality(A)
  BY DEF Veces, A
<1>7. QED
  BY <1>3, <1>4, <1>5, <1>6 DEF A

LEMMA VecesAppend ==
  ASSUME NEW V, NEW s \in Seq(V), NEW x \in V, NEW y
  PROVE  Veces(Append(s, x), y) = Veces(s, y) + (IF x = y THEN 1 ELSE 0)
<1> DEFINE A == {i \in DOMAIN s : s[i] = y}
           B == {i \in DOMAIN Append(s, x) : Append(s, x)[i] = y}
           n == Len(s) + 1
<1>1. DOMAIN s = 1 .. Len(s) /\ Len(s) \in Nat /\ DOMAIN Append(s, x) = 1 .. n
  OBVIOUS
<1>2. Append(s, x)[n] = x /\ \A i \in 1 .. Len(s) : Append(s, x)[i] = s[i]
  OBVIOUS
<1>3. B = IF x = y THEN A \cup {n} ELSE A
  BY <1>1, <1>2
<1>4. n \notin A
  BY <1>1
<1>5. IsFiniteSet(A) /\ Cardinality(A) \in Nat
  BY VecesNatural, FS_CardinalityType
<1>6. Veces(s, y) = Cardinality(A) /\ Veces(Append(s, x), y) = Cardinality(B)
  BY DEF Veces
<1> HIDE DEF A, B, n
<1>7. IsFiniteSet(A \cup {n}) /\ Cardinality(A \cup {n}) = Cardinality(A) + 1
  BY <1>4, <1>5, FS_AddElement
<1>8. Cardinality(B) = Cardinality(A) + (IF x = y THEN 1 ELSE 0)
  BY <1>3, <1>5, <1>7
<1>9. QED
  BY <1>6, <1>8

\* The index of the first match.
LEMMA Primera ==
  ASSUME NEW V, NEW s \in Seq(V), NEW x, Contains(s, x)
  PROVE  /\ SelectInSeq(s, LAMBDA y : y = x) \in DOMAIN s
         /\ s[SelectInSeq(s, LAMBDA y : y = x)] = x
<1> DEFINE I == {i \in 1 .. Len(s) : s[i] = x}
<1>1. I # {} /\ I \in SUBSET Nat
  BY DEF Contains
<1>2. PICK i \in I : \A j \in I : ~(j < i)
  <2> DEFINE R == OpToRel(<, Nat)
  <2>1. IsWellFoundedOn(R, Nat)
    BY NatLessThanWellFounded
  <2>2. PICK i \in I : \A j \in I : <<j, i>> \notin R
    <3> HIDE DEF R, I
    <3>1. QED
      BY <1>1, <2>1, WFMin
  <2>3. QED
    BY <1>1, <2>2 DEF OpToRel
<1>3. i \in I /\ \A j \in I : i =< j
  BY <1>1, <1>2
<1> HIDE DEF I
<1>4. Min(I) \in I
  BY <1>3 DEF Min
<1>5. SelectInSeq(s, LAMBDA y : y = x) = Min(I)
  BY <1>1 DEF SelectInSeq, I
<1>6. QED
  BY <1>4, <1>5 DEF I

LEMMA VecesSinUno ==
  ASSUME NEW V, NEW s \in Seq(V), NEW x, NEW y
  PROVE  /\ SinUno(s, x) \in Seq(V)
         /\ Len(SinUno(s, x)) <= Len(s)
         /\ ToSet(SinUno(s, x)) \subseteq ToSet(s)
         /\ Veces(SinUno(s, x), y) =
              Veces(s, y) - (IF x = y /\ Veces(s, x) > 0 THEN 1 ELSE 0)
<1>1. CASE ~Contains(s, x)
  <2>1. SinUno(s, x) = s
    BY <1>1 DEF SinUno
  <2>2. Veces(s, x) \in Nat /\ ~(Veces(s, x) > 0) /\ Veces(s, y) \in Nat
    BY <1>1, VecesNatural
  <2>3. QED
    BY <2>1, <2>2
<1>2. CASE Contains(s, x)
  <2> DEFINE j == SelectInSeq(s, LAMBDA z : z = x)
             n == Len(s)
             r == SinUno(s, x)
             A == {i \in DOMAIN s : s[i] = y}
             B == {i \in DOMAIN r : r[i] = y}
  <2>1. j \in 1 .. n /\ s[j] = x /\ n \in Nat /\ n > 0
    <3>1. DOMAIN s = 1 .. n /\ n \in Nat
      OBVIOUS
    <3> HIDE DEF j, n
    <3>2. j \in DOMAIN s /\ s[j] = x
      BY <1>2, Primera DEF j
    <3>3. QED
      BY <3>1, <3>2
  <2> HIDE DEF j
  <2>2. r = Front([s EXCEPT ![j] = Last(s)])
    BY <1>2 DEF SinUno, j
  <2> DEFINE m == [s EXCEPT ![j] = s[n]]
  <2>3. m \in Seq(V) /\ Len(m) = n /\ \A i \in 1 .. n : m[i] = IF i = j THEN s[n] ELSE s[i]
    BY <2>1
  <2>4. r = SubSeq(m, 1, n - 1)
    BY <2>2, <2>3 DEF Front, Last
  <2> HIDE DEF r, m
  <2>5. r \in Seq(V) /\ DOMAIN r = 1 .. n - 1 /\ Len(r) = n - 1
        /\ \A i \in 1 .. n - 1 : r[i] = m[i]
    BY <2>1, <2>3, <2>4
  <2>6. \A i \in 1 .. n - 1 : r[i] = IF i = j THEN s[n] ELSE s[i]
    BY <2>3, <2>5
  <2>7. ToSet(r) \subseteq ToSet(s)
    BY <2>1, <2>5, <2>6 DEF ToSet
  <2>8. IsFiniteSet(A) /\ Cardinality(A) \in Nat /\ Veces(s, y) = Cardinality(A)
    BY VecesNatural, FS_CardinalityType DEF Veces
  <2>9. Veces(r, y) = Cardinality(B)
    BY DEF Veces
  <2>10. Veces(s, x) > 0
    BY <1>2, VecesNatural
  <2>11. Cardinality(B) = Cardinality(A) - (IF x = y THEN 1 ELSE 0)
    <3>0. DOMAIN s = 1 .. n
      OBVIOUS
    <3>1. CASE x = y /\ s[n] = x
      <4>1. B = A \ {n} /\ n \in A
        BY <2>1, <2>5, <2>6, <3>0, <3>1
      <4> HIDE DEF A, B
      <4>2. QED
        BY <2>8, <3>1, <4>1, FS_RemoveElement
    <3>2. CASE x = y /\ s[n] # x
      <4>1. B = A \ {j} /\ j \in A
        BY <2>1, <2>5, <2>6, <3>0, <3>2
      <4> HIDE DEF A, B
      <4>2. QED
        BY <2>8, <3>2, <4>1, FS_RemoveElement
    <3>3. CASE x # y /\ s[n] = y
      <4>1. j # n /\ n \in A /\ j \notin A \ {n} /\ B = (A \ {n}) \cup {j}
        BY <2>1, <2>5, <2>6, <3>0, <3>3
      <4> HIDE DEF A, B
      <4>2. IsFiniteSet(A \ {n}) /\ Cardinality(A \ {n}) = Cardinality(A) - 1
        BY <2>8, <4>1, FS_RemoveElement
      <4>3. Cardinality(B) = Cardinality(A \ {n}) + 1
        BY <4>1, <4>2, FS_AddElement
      <4>4. QED
        BY <2>8, <3>3, <4>2, <4>3
    <3>4. CASE x # y /\ s[n] # y
      <4>1. B = A
        BY <2>1, <2>5, <2>6, <3>0, <3>4
      <4> HIDE DEF A, B
      <4>2. QED
        BY <2>8, <3>4, <4>1
    <3>5. QED
      BY <3>1, <3>2, <3>3, <3>4
  <2> HIDE DEF A, B
  <2>12. QED
    BY <2>1, <2>5, <2>7, <2>8, <2>9, <2>10, <2>11 DEF r
<1>3. QED
  BY <1>1, <1>2

-----------------------------------------------------------------------------
(* Indices.                                                                *)

\* An index of values of V.
EsIndice(indice, V) == \A k \in DOMAIN indice : indice[k] \in Seq(V)

LEMMA ValoresEnSeq ==
  ASSUME NEW V, NEW indice, EsIndice(indice, V), NEW k
  PROVE  Valores(indice, k) \in Seq(V)
<1>1. CASE k \in DOMAIN indice
  BY <1>1 DEF Valores, EsIndice
<1>2. CASE k \notin DOMAIN indice
  BY <1>2 DEF Valores
<1>3. QED
  BY <1>1, <1>2

\* An addition counts once, under its key.
LEMMA AgregadoVeces ==
  ASSUME NEW V, NEW indice, EsIndice(indice, V), NEW clave, NEW valor \in V
  PROVE  /\ EsIndice(Agregado(indice, clave, valor), V)
         /\ \A k, v : Veces(Valores(Agregado(indice, clave, valor), k), v) =
              Veces(Valores(indice, k), v) + (IF k = clave /\ v = valor THEN 1 ELSE 0)
<1> DEFINE r == Agregado(indice, clave, valor)
<1>1. DOMAIN r = DOMAIN indice \cup {clave}
  BY DEF Agregado
<1>2. \A k \in DOMAIN r :
        r[k] = IF k = clave THEN Append(Valores(indice, k), valor) ELSE indice[k]
  BY DEF Agregado
<1> HIDE DEF r
<1>3. ASSUME NEW k
      PROVE  Valores(r, k) = IF k = clave THEN Append(Valores(indice, k), valor) ELSE Valores(indice, k)
  BY <1>1, <1>2 DEF Valores
<1>4. EsIndice(r, V)
  <2>1. Append(Valores(indice, clave), valor) \in Seq(V)
    <3>1. Valores(indice, clave) \in Seq(V)
      BY ValoresEnSeq
    <3>2. QED
      BY <3>1
  <2>2. QED
    BY <1>1, <1>2, <2>1 DEF EsIndice
<1>5. ASSUME NEW k, NEW v
      PROVE  Veces(Valores(r, k), v) =
               Veces(Valores(indice, k), v) + (IF k = clave /\ v = valor THEN 1 ELSE 0)
  <2>1. Valores(indice, k) \in Seq(V)
    BY ValoresEnSeq
  <2>2. Veces(Valores(indice, k), v) \in Nat
    BY <2>1, VecesNatural
  <2>3. Veces(Append(Valores(indice, k), valor), v) =
          Veces(Valores(indice, k), v) + (IF valor = v THEN 1 ELSE 0)
    BY <2>1, VecesAppend
  <2>4. CASE k = clave
    BY <1>3, <2>3, <2>4
  <2>5. CASE k # clave
    <3>1. Valores(r, k) = Valores(indice, k)
      BY <1>3, <2>5
    <3>2. QED
      BY <2>2, <2>5, <3>1
  <2>6. QED
    BY <2>4, <2>5
<1>6. QED
  BY <1>4, <1>5 DEF r

\* A removal counts once less, under its key, if the value was there.
LEMMA QuitadoVeces ==
  ASSUME NEW V, NEW indice, EsIndice(indice, V), NEW clave, NEW valor
  PROVE  /\ EsIndice(Quitado(indice, clave, valor), V)
         /\ \A k, v : Veces(Valores(Quitado(indice, clave, valor), k), v) =
              Veces(Valores(indice, k), v) -
                (IF k = clave /\ v = valor /\ Veces(Valores(indice, clave), valor) > 0 THEN 1 ELSE 0)
<1> DEFINE r == Quitado(indice, clave, valor)
<1>1. DOMAIN r = DOMAIN indice
  BY DEF Quitado
<1>2. \A k \in DOMAIN r : r[k] = IF k = clave THEN SinUno(indice[k], valor) ELSE indice[k]
  BY DEF Quitado
<1> HIDE DEF r
<1>3. SinUno(<<>>, valor) = <<>>
  <2>1. ~Contains(<<>>, valor)
    BY DEF Contains
  <2>2. QED
    BY <2>1 DEF SinUno
<1>4. ASSUME NEW k
      PROVE  Valores(r, k) = IF k = clave THEN SinUno(Valores(indice, k), valor) ELSE Valores(indice, k)
  BY <1>1, <1>2, <1>3 DEF Valores
<1>5. EsIndice(r, V)
  <2>1. ASSUME NEW k \in DOMAIN r PROVE r[k] \in Seq(V)
    <3>1. indice[k] \in Seq(V)
      BY <1>1 DEF EsIndice
    <3>2. SinUno(indice[k], valor) \in Seq(V)
      BY <3>1, VecesSinUno
    <3>3. QED
      BY <1>2, <3>1, <3>2
  <2>2. QED
    BY <2>1 DEF EsIndice
<1>6. ASSUME NEW k, NEW v
      PROVE  Veces(Valores(r, k), v) = Veces(Valores(indice, k), v) -
               (IF k = clave /\ v = valor /\ Veces(Valores(indice, clave), valor) > 0 THEN 1 ELSE 0)
  <2>1. Valores(indice, k) \in Seq(V)
    BY ValoresEnSeq
  <2>2. Veces(Valores(indice, k), v) \in Nat
    BY <2>1, VecesNatural
  <2>3. Veces(SinUno(Valores(indice, k), valor), v) = Veces(Valores(indice, k), v) -
          (IF valor = v /\ Veces(Valores(indice, k), valor) > 0 THEN 1 ELSE 0)
    BY <2>1, VecesSinUno
  <2>4. QED
    BY <1>4, <2>2, <2>3
<1>7. QED
  BY <1>5, <1>6 DEF r

\* The function that Reconstruido iterates.
EsRelleno(f, e, n) ==
  f = [i \in 0 .. n |-> IF i = 0 THEN <<>> ELSE Agregado(f[i - 1], e[i][1], e[i][2])]

LEMMA HayRelleno ==
  ASSUME NEW e, NEW n \in Nat
  PROVE  \E f : EsRelleno(f, e, n)
<1> DEFINE P(m) == \E f : EsRelleno(f, e, m)
           T    == {m \in Nat : P(m)}
<1>1. 0 \in T
  <2>1. EsRelleno([i \in 0 .. 0 |-> <<>>], e, 0)
    BY DEF EsRelleno
  <2>2. QED
    BY <2>1
<1>2. ASSUME NEW m \in T PROVE m + 1 \in T
  <2>1. PICK f : EsRelleno(f, e, m)
    BY <1>2
  <2> DEFINE A(i) == Agregado(f[i - 1], e[i][1], e[i][2])
             g == [i \in 0 .. m + 1 |-> IF i = m + 1 THEN A(m + 1) ELSE f[i]]
             h == [i \in 0 .. m + 1 |-> IF i = 0 THEN <<>> ELSE Agregado(g[i - 1], e[i][1], e[i][2])]
  <2>2. f[0] = <<>> /\ \A i \in 1 .. m : f[i] = A(i)
    <3>1. f = [i \in 0 .. m |-> IF i = 0 THEN <<>> ELSE A(i)]
      BY <2>1 DEF EsRelleno
    <3> HIDE DEF A
    <3>2. QED
      BY <3>1
  <2>3. m \in Nat /\ \A i \in 0 .. m : g[i] = f[i]
    <3> HIDE DEF A
    <3>1. QED
      OBVIOUS
  <2>4. g[m + 1] = A(m + 1)
    <3> HIDE DEF A
    <3>1. QED
      BY <2>3
  <2>5. \A i \in 1 .. m + 1 : Agregado(g[i - 1], e[i][1], e[i][2]) = A(i)
    <3>1. \A i \in 1 .. m + 1 : g[i - 1] = f[i - 1]
      <4>1. \A i \in 1 .. m + 1 : i - 1 \in 0 .. m
        BY <2>3
      <4> HIDE DEF g
      <4>2. QED
        BY <2>3, <4>1
    <3> HIDE DEF g
    <3>2. QED
      BY <3>1
  <2> HIDE DEF A
  <2>6. \A i \in 0 .. m + 1 : g[i] = h[i]
    <3>1. g[0] = <<>>
      BY <2>2, <2>3
    <3>2. ASSUME NEW i \in 1 .. m + 1 PROVE g[i] = A(i)
      <4>1. CASE i = m + 1
        BY <2>4, <4>1
      <4>2. CASE i \in 1 .. m
        <5> HIDE DEF g
        <5>1. QED
          BY <2>2, <2>3, <4>2
      <4>3. QED
        BY <2>3, <4>1, <4>2
    <3> HIDE DEF g
    <3>3. QED
      BY <2>3, <2>5, <3>1, <3>2
  <2>7. g = h
    <3>1. g = [i \in 0 .. m + 1 |-> g[i]] /\ h = [i \in 0 .. m + 1 |-> h[i]]
      OBVIOUS
    <3> HIDE DEF g, h
    <3>2. QED
      BY <2>6, <3>1
  <2>8. EsRelleno(g, e, m + 1)
    BY <2>7 DEF EsRelleno, h
  <2> HIDE DEF g
  <2>9. QED
    BY <2>3, <2>8
<1>3. T \in SUBSET Nat
  OBVIOUS
<1> HIDE DEF T, P
<1>4. T = Nat
  BY <1>1, <1>2, <1>3, InduccionNatural
<1>5. QED
  BY <1>4 DEF T, P

\* A sequence of entries: keys with values of V.
SonEntradas(e, V) ==
  /\ Len(e) \in Nat /\ DOMAIN e = 1 .. Len(e)
  /\ \A i \in DOMAIN e : e[i] = <<e[i][1], e[i][2]>> /\ e[i][2] \in V

\* The index answers with the entries, repeated ones as often.
Responde(indice, e, V) ==
  /\ EsIndice(indice, V)
  /\ \A k, v : Veces(Valores(indice, k), v) = Veces(e, <<k, v>>)

\* An index that is rebuilt answers with its entries.
LEMMA ReconstruidoVeces ==
  ASSUME NEW V, NEW e, SonEntradas(e, V)
  PROVE  Responde(Reconstruido(e), e, V)
<1> DEFINE N == Len(e)
           f == CHOOSE f : EsRelleno(f, e, N)
           C(m, k, v) == Cardinality({i \in 1 .. m : e[i] = <<k, v>>})
           P(m) == /\ EsIndice(f[m], V)
                   /\ \A k, v : Veces(Valores(f[m], k), v) = C(m, k, v)
           T == {m \in Nat : m <= N => P(m)}
<1>1. /\ N \in Nat /\ DOMAIN e = 1 .. N
      /\ \A i \in 1 .. N : e[i] = <<e[i][1], e[i][2]>> /\ e[i][2] \in V
  BY DEF SonEntradas
<1>2. Reconstruido(e) = f[N]
  BY DEF Reconstruido, EsRelleno
<1>3. EsRelleno(f, e, N)
  <2> HIDE DEF N
  <2>1. QED
    BY <1>1, HayRelleno
<1> HIDE DEF f, N
<1>4. f[0] = <<>> /\ \A i \in 1 .. N : f[i] = Agregado(f[i - 1], e[i][1], e[i][2])
  <2> DEFINE A(i) == Agregado(f[i - 1], e[i][1], e[i][2])
  <2>1. f = [i \in 0 .. N |-> IF i = 0 THEN <<>> ELSE A(i)]
    BY <1>3 DEF EsRelleno
  <2> HIDE DEF A
  <2>2. f[0] = <<>> /\ \A i \in 1 .. N : f[i] = A(i)
    BY <1>1, <2>1
  <2>3. QED
    BY <2>2 DEF A
<1>5. ASSUME NEW m \in 0 .. N, NEW k, NEW v
      PROVE  /\ IsFiniteSet({i \in 1 .. m : e[i] = <<k, v>>})
             /\ C(m, k, v) \in Nat
  <2>1. IsFiniteSet(1 .. m)
    BY <1>1, FS_Interval
  <2> DEFINE A == {i \in 1 .. m : e[i] = <<k, v>>}
  <2>2. A \subseteq 1 .. m
    OBVIOUS
  <2> HIDE DEF A
  <2>3. IsFiniteSet(A) /\ Cardinality(A) \in Nat
    BY <2>1, <2>2, FS_Subset, FS_CardinalityType
  <2>4. QED
    BY <2>3 DEF A
<1>6. ASSUME NEW m \in 0 .. N, NEW k, NEW v, m + 1 <= N
      PROVE  C(m + 1, k, v) = C(m, k, v) + (IF e[m + 1] = <<k, v>> THEN 1 ELSE 0)
  <2> DEFINE A == {i \in 1 .. m : e[i] = <<k, v>>}
             B == {i \in 1 .. m + 1 : e[i] = <<k, v>>}
  <2>1. B = IF e[m + 1] = <<k, v>> THEN A \cup {m + 1} ELSE A
    BY <1>1
  <2>2. m + 1 \notin A /\ IsFiniteSet(A) /\ Cardinality(A) \in Nat
    <3>1. m + 1 \notin A
      BY <1>1
    <3>2. IsFiniteSet(A) /\ Cardinality(A) \in Nat
      BY <1>5
    <3>3. QED
      BY <3>1, <3>2
  <2> HIDE DEF A, B
  <2>3. Cardinality(A \cup {m + 1}) = Cardinality(A) + 1
    BY <2>2, FS_AddElement
  <2>4. Cardinality(B) = Cardinality(A) + (IF e[m + 1] = <<k, v>> THEN 1 ELSE 0)
    BY <2>1, <2>2, <2>3
  <2>5. QED
    BY <2>4 DEF A, B
<1>7. 0 \in T
  <2>1. EsIndice(f[0], V)
    BY <1>4 DEF EsIndice
  <2>2. ASSUME NEW k, NEW v PROVE Veces(Valores(f[0], k), v) = C(0, k, v)
    <3>1. Valores(f[0], k) = <<>>
      BY <1>4 DEF Valores
    <3>2. Veces(<<>>, v) = 0
      <4>1. {i \in DOMAIN <<>> : <<>>[i] = v} = {}
        OBVIOUS
      <4>2. QED
        BY <4>1, FS_EmptySet DEF Veces
    <3>3. {i \in 1 .. 0 : e[i] = <<k, v>>} = {}
      OBVIOUS
    <3>4. QED
      BY <3>1, <3>2, <3>3, FS_EmptySet
  <2> HIDE DEF C
  <2>3. QED
    BY <2>1, <2>2
<1> HIDE DEF C
<1>8. ASSUME NEW m \in T PROVE m + 1 \in T
  <2> SUFFICES ASSUME m + 1 <= N PROVE P(m + 1)
    OBVIOUS
  <2>1. m \in 0 .. N /\ P(m)
    BY <1>1
  <2>2. e[m + 1] = <<e[m + 1][1], e[m + 1][2]>> /\ e[m + 1][2] \in V
    BY <1>1, <2>1
  <2>3. f[m + 1] = Agregado(f[m], e[m + 1][1], e[m + 1][2])
    <3>1. m + 1 \in 1 .. N /\ (m + 1) - 1 = m
      BY <1>1, <2>1
    <3>2. QED
      BY <1>4, <3>1
  <2>4. EsIndice(f[m + 1], V)
    BY <2>1, <2>2, <2>3, AgregadoVeces
  <2>5. ASSUME NEW k, NEW v PROVE Veces(Valores(f[m + 1], k), v) = C(m + 1, k, v)
    <3>1. Veces(Valores(f[m + 1], k), v) = Veces(Valores(f[m], k), v) +
            (IF k = e[m + 1][1] /\ v = e[m + 1][2] THEN 1 ELSE 0)
      BY <2>1, <2>2, <2>3, AgregadoVeces
    <3>2. e[m + 1] = <<k, v>> <=> k = e[m + 1][1] /\ v = e[m + 1][2]
      BY <2>2
    <3>3. Veces(Valores(f[m], k), v) = C(m, k, v)
      BY <2>1
    <3>4. QED
      BY <1>6, <2>1, <3>1, <3>2, <3>3
  <2>6. QED
    BY <2>4, <2>5
<1>9. T \in SUBSET Nat
  OBVIOUS
<1> HIDE DEF P
<1>10. P(N)
  <2> HIDE DEF T
  <2>1. T = Nat
    BY <1>7, <1>8, <1>9, InduccionNatural
  <2>2. QED
    BY <1>1, <2>1 DEF T
<1>11. \A k, v : C(N, k, v) = Veces(e, <<k, v>>)
  BY <1>1 DEF C, Veces
<1>12. QED
  BY <1>2, <1>10, <1>11 DEF P, Responde

-----------------------------------------------------------------------------
(* The three indices of an array of triples.                               *)

\* The indices a, b and c answer with the triples of ts: IndicesExactos for every
\* id, those of the vocabulary or not.
Indexados(ts, a, b, c) ==
  /\ EsIndice(a, Nat) /\ EsIndice(b, Nat) /\ EsIndice(c, Nat \X Nat)
  /\ \A s, p, o \in Nat :
       /\ Veces(Valores(a, <<s, p>>), o) = Veces(ts, <<s, p, o>>)
       /\ Veces(Valores(b, <<p, o>>), s) = Veces(ts, <<s, p, o>>)
       /\ Veces(Valores(c, o), <<s, p>>) = Veces(ts, <<s, p, o>>)

LEMMA TriplePartes ==
  ASSUME NEW t \in Triple
  PROVE  /\ t[1] \in Nat /\ t[2] \in Nat /\ t[3] \in Nat
         /\ \A s, p, o \in Nat : t = <<s, p, o>> <=> s = t[1] /\ p = t[2] /\ o = t[3]
BY DEF Triple

LEMMA IndexadosAgregar ==
  ASSUME NEW ts \in Seq(Triple), NEW a, NEW b, NEW c, Indexados(ts, a, b, c), NEW t \in Triple
  PROVE  Indexados(Append(ts, t), Agregado(a, <<t[1], t[2]>>, t[3]),
                   Agregado(b, <<t[2], t[3]>>, t[1]), Agregado(c, t[3], <<t[1], t[2]>>))
<1> DEFINE a1 == Agregado(a, <<t[1], t[2]>>, t[3])
           b1 == Agregado(b, <<t[2], t[3]>>, t[1])
           c1 == Agregado(c, t[3], <<t[1], t[2]>>)
<1>1. t[1] \in Nat /\ t[2] \in Nat /\ t[3] \in Nat /\ <<t[1], t[2]>> \in Nat \X Nat
  BY TriplePartes
<1>2. EsIndice(a, Nat) /\ EsIndice(b, Nat) /\ EsIndice(c, Nat \X Nat)
  BY DEF Indexados
<1>3. EsIndice(a1, Nat) /\ EsIndice(b1, Nat) /\ EsIndice(c1, Nat \X Nat)
  BY <1>1, <1>2, AgregadoVeces
<1>4. \A k, v : Veces(Valores(a1, k), v) = Veces(Valores(a, k), v) +
        (IF k = <<t[1], t[2]>> /\ v = t[3] THEN 1 ELSE 0)
  BY <1>1, <1>2, AgregadoVeces
<1>5. \A k, v : Veces(Valores(b1, k), v) = Veces(Valores(b, k), v) +
        (IF k = <<t[2], t[3]>> /\ v = t[1] THEN 1 ELSE 0)
  BY <1>1, <1>2, AgregadoVeces
<1>6. \A k, v : Veces(Valores(c1, k), v) = Veces(Valores(c, k), v) +
        (IF k = t[3] /\ v = <<t[1], t[2]>> THEN 1 ELSE 0)
  BY <1>1, <1>2, AgregadoVeces
<1> HIDE DEF a1, b1, c1
<1>7. ASSUME NEW s \in Nat, NEW p \in Nat, NEW o \in Nat
      PROVE  /\ Veces(Valores(a1, <<s, p>>), o) = Veces(Append(ts, t), <<s, p, o>>)
             /\ Veces(Valores(b1, <<p, o>>), s) = Veces(Append(ts, t), <<s, p, o>>)
             /\ Veces(Valores(c1, o), <<s, p>>) = Veces(Append(ts, t), <<s, p, o>>)
  <2> DEFINE n == Veces(ts, <<s, p, o>>)
             es == t = <<s, p, o>>
  <2>1. Veces(Append(ts, t), <<s, p, o>>) = n + (IF es THEN 1 ELSE 0)
    BY VecesAppend
  <2>2. /\ Veces(Valores(a, <<s, p>>), o) = n /\ Veces(Valores(b, <<p, o>>), s) = n
        /\ Veces(Valores(c, o), <<s, p>>) = n
    BY DEF Indexados
  <2>3. /\ es <=> <<s, p>> = <<t[1], t[2]>> /\ o = t[3]
        /\ es <=> <<p, o>> = <<t[2], t[3]>> /\ s = t[1]
        /\ es <=> o = t[3] /\ <<s, p>> = <<t[1], t[2]>>
    BY TriplePartes
  <2> HIDE DEF es, n
  <2>4. Veces(Valores(a1, <<s, p>>), o) = n + (IF es THEN 1 ELSE 0)
    BY <1>4, <2>2, <2>3
  <2>5. Veces(Valores(b1, <<p, o>>), s) = n + (IF es THEN 1 ELSE 0)
    BY <1>5, <2>2, <2>3
  <2>6. Veces(Valores(c1, o), <<s, p>>) = n + (IF es THEN 1 ELSE 0)
    BY <1>6, <2>2, <2>3
  <2>7. QED
    BY <2>1, <2>4, <2>5, <2>6
<1>8. QED
  BY <1>3, <1>7 DEF Indexados, a1, b1, c1

LEMMA IndexadosQuitar ==
  ASSUME NEW ts \in Seq(Triple), NEW a, NEW b, NEW c, Indexados(ts, a, b, c),
         NEW t \in Triple, Contains(ts, t)
  PROVE  Indexados(SinUno(ts, t), Quitado(a, <<t[1], t[2]>>, t[3]),
                   Quitado(b, <<t[2], t[3]>>, t[1]), Quitado(c, t[3], <<t[1], t[2]>>))
<1> DEFINE a1 == Quitado(a, <<t[1], t[2]>>, t[3])
           b1 == Quitado(b, <<t[2], t[3]>>, t[1])
           c1 == Quitado(c, t[3], <<t[1], t[2]>>)
<1>1. t[1] \in Nat /\ t[2] \in Nat /\ t[3] \in Nat /\ t = <<t[1], t[2], t[3]>>
  BY TriplePartes
<1>2. EsIndice(a, Nat) /\ EsIndice(b, Nat) /\ EsIndice(c, Nat \X Nat)
  BY DEF Indexados
<1>3. EsIndice(a1, Nat) /\ EsIndice(b1, Nat) /\ EsIndice(c1, Nat \X Nat)
  BY <1>2, QuitadoVeces
<1>4. Veces(ts, t) > 0
  BY VecesNatural
<1>5. /\ Veces(Valores(a, <<t[1], t[2]>>), t[3]) > 0
      /\ Veces(Valores(b, <<t[2], t[3]>>), t[1]) > 0
      /\ Veces(Valores(c, t[3]), <<t[1], t[2]>>) > 0
  <2>1. Veces(ts, <<t[1], t[2], t[3]>>) > 0
    BY <1>1, <1>4
  <2>2. QED
    BY <1>1, <2>1 DEF Indexados
<1>6. \A k, v : Veces(Valores(a1, k), v) = Veces(Valores(a, k), v) -
        (IF k = <<t[1], t[2]>> /\ v = t[3] THEN 1 ELSE 0)
  BY <1>2, <1>5, QuitadoVeces
<1>7. \A k, v : Veces(Valores(b1, k), v) = Veces(Valores(b, k), v) -
        (IF k = <<t[2], t[3]>> /\ v = t[1] THEN 1 ELSE 0)
  BY <1>2, <1>5, QuitadoVeces
<1>8. \A k, v : Veces(Valores(c1, k), v) = Veces(Valores(c, k), v) -
        (IF k = t[3] /\ v = <<t[1], t[2]>> THEN 1 ELSE 0)
  BY <1>2, <1>5, QuitadoVeces
<1> HIDE DEF a1, b1, c1
<1>9. ASSUME NEW s \in Nat, NEW p \in Nat, NEW o \in Nat
      PROVE  /\ Veces(Valores(a1, <<s, p>>), o) = Veces(SinUno(ts, t), <<s, p, o>>)
             /\ Veces(Valores(b1, <<p, o>>), s) = Veces(SinUno(ts, t), <<s, p, o>>)
             /\ Veces(Valores(c1, o), <<s, p>>) = Veces(SinUno(ts, t), <<s, p, o>>)
  <2> DEFINE n == Veces(ts, <<s, p, o>>)
             es == t = <<s, p, o>>
  <2>1. Veces(SinUno(ts, t), <<s, p, o>>) = n - (IF es THEN 1 ELSE 0)
    BY <1>4, VecesSinUno
  <2>2. /\ Veces(Valores(a, <<s, p>>), o) = n /\ Veces(Valores(b, <<p, o>>), s) = n
        /\ Veces(Valores(c, o), <<s, p>>) = n
    BY DEF Indexados
  <2>3. /\ es <=> <<s, p>> = <<t[1], t[2]>> /\ o = t[3]
        /\ es <=> <<p, o>> = <<t[2], t[3]>> /\ s = t[1]
        /\ es <=> o = t[3] /\ <<s, p>> = <<t[1], t[2]>>
    BY TriplePartes
  <2> HIDE DEF es, n
  <2>4. Veces(Valores(a1, <<s, p>>), o) = n - (IF es THEN 1 ELSE 0)
    BY <1>6, <2>2, <2>3
  <2>5. Veces(Valores(b1, <<p, o>>), s) = n - (IF es THEN 1 ELSE 0)
    BY <1>7, <2>2, <2>3
  <2>6. Veces(Valores(c1, o), <<s, p>>) = n - (IF es THEN 1 ELSE 0)
    BY <1>8, <2>2, <2>3
  <2>7. QED
    BY <2>1, <2>4, <2>5, <2>6
<1>10. QED
  BY <1>3, <1>9 DEF Indexados, a1, b1, c1

\* n_grafo_reconstruir_indices, whatever the file holds.
PorSp(ts) == [i \in DOMAIN ts |-> <<<<ts[i][1], ts[i][2]>>, ts[i][3]>>]
PorPo(ts) == [i \in DOMAIN ts |-> <<<<ts[i][2], ts[i][3]>>, ts[i][1]>>]
PorO(ts)  == [i \in DOMAIN ts |-> <<ts[i][3], <<ts[i][1], ts[i][2]>>>>]

LEMMA IndexadosReconstruir ==
  ASSUME NEW ts \in Seq(Triple)
  PROVE  Indexados(ts, Reconstruido(PorSp(ts)), Reconstruido(PorPo(ts)), Reconstruido(PorO(ts)))
<1>1. DOMAIN ts = 1 .. Len(ts) /\ Len(ts) \in Nat
  OBVIOUS
<1>2. ASSUME NEW i \in DOMAIN ts
      PROVE  /\ ts[i][1] \in Nat /\ ts[i][2] \in Nat /\ ts[i][3] \in Nat
             /\ \A s, p, o \in Nat : ts[i] = <<s, p, o>> <=> s = ts[i][1] /\ p = ts[i][2] /\ o = ts[i][3]
  <2>1. ts[i] \in Triple
    OBVIOUS
  <2>2. QED
    BY <2>1, TriplePartes
<1> DEFINE x == PorSp(ts)  y == PorPo(ts)  z == PorO(ts)
<1>3. /\ x \in Seq((Nat \X Nat) \X Nat) /\ DOMAIN x = DOMAIN ts
      /\ \A i \in DOMAIN ts : x[i] = <<<<ts[i][1], ts[i][2]>>, ts[i][3]>>
  BY <1>1, <1>2 DEF PorSp
<1>4. /\ y \in Seq((Nat \X Nat) \X Nat) /\ DOMAIN y = DOMAIN ts
      /\ \A i \in DOMAIN ts : y[i] = <<<<ts[i][2], ts[i][3]>>, ts[i][1]>>
  BY <1>1, <1>2 DEF PorPo
<1>5. /\ z \in Seq(Nat \X (Nat \X Nat)) /\ DOMAIN z = DOMAIN ts
      /\ \A i \in DOMAIN ts : z[i] = <<ts[i][3], <<ts[i][1], ts[i][2]>>>>
  BY <1>1, <1>2 DEF PorO
<1> HIDE DEF x, y, z
<1>6. ASSUME NEW s \in Nat, NEW p \in Nat, NEW o \in Nat
      PROVE  /\ Veces(x, <<<<s, p>>, o>>) = Veces(ts, <<s, p, o>>)
             /\ Veces(y, <<<<p, o>>, s>>) = Veces(ts, <<s, p, o>>)
             /\ Veces(z, <<o, <<s, p>>>>) = Veces(ts, <<s, p, o>>)
  <2> DEFINE A == {i \in DOMAIN ts : ts[i] = <<s, p, o>>}
  <2>1. ASSUME NEW i \in DOMAIN ts
        PROVE  /\ x[i] = <<<<s, p>>, o>> <=> ts[i] = <<s, p, o>>
               /\ y[i] = <<<<p, o>>, s>> <=> ts[i] = <<s, p, o>>
               /\ z[i] = <<o, <<s, p>>>> <=> ts[i] = <<s, p, o>>
    <3>1. ts[i] = <<s, p, o>> <=> s = ts[i][1] /\ p = ts[i][2] /\ o = ts[i][3]
      BY <1>2
    <3>2. x[i] = <<<<ts[i][1], ts[i][2]>>, ts[i][3]>>
      BY <1>3
    <3>3. y[i] = <<<<ts[i][2], ts[i][3]>>, ts[i][1]>>
      BY <1>4
    <3>4. z[i] = <<ts[i][3], <<ts[i][1], ts[i][2]>>>>
      BY <1>5
    <3>5. QED
      BY <3>1, <3>2, <3>3, <3>4
  <2>2. {i \in DOMAIN x : x[i] = <<<<s, p>>, o>>} = A
    BY <1>3, <2>1
  <2>3. {i \in DOMAIN y : y[i] = <<<<p, o>>, s>>} = A
    BY <1>4, <2>1
  <2>4. {i \in DOMAIN z : z[i] = <<o, <<s, p>>>>} = A
    BY <1>5, <2>1
  <2>5. QED
    BY <2>2, <2>3, <2>4 DEF Veces
<1>7. SonEntradas(x, Nat)
  BY <1>1, <1>2, <1>3 DEF SonEntradas
<1>8. SonEntradas(y, Nat)
  BY <1>1, <1>2, <1>4 DEF SonEntradas
<1>9. SonEntradas(z, Nat \X Nat)
  BY <1>1, <1>2, <1>5 DEF SonEntradas
<1>10. /\ Responde(Reconstruido(x), x, Nat) /\ Responde(Reconstruido(y), y, Nat)
       /\ Responde(Reconstruido(z), z, Nat \X Nat)
  BY <1>7, <1>8, <1>9, ReconstruidoVeces
<1> DEFINE a == Reconstruido(x)  b == Reconstruido(y)  c == Reconstruido(z)
<1> HIDE DEF a, b, c
<1>11. ASSUME NEW s \in Nat, NEW p \in Nat, NEW o \in Nat
       PROVE  /\ Veces(Valores(a, <<s, p>>), o) = Veces(ts, <<s, p, o>>)
              /\ Veces(Valores(b, <<p, o>>), s) = Veces(ts, <<s, p, o>>)
              /\ Veces(Valores(c, o), <<s, p>>) = Veces(ts, <<s, p, o>>)
  <2>1. /\ Veces(Valores(a, <<s, p>>), o) = Veces(x, <<<<s, p>>, o>>)
        /\ Veces(Valores(b, <<p, o>>), s) = Veces(y, <<<<p, o>>, s>>)
        /\ Veces(Valores(c, o), <<s, p>>) = Veces(z, <<o, <<s, p>>>>)
    BY <1>10 DEF a, b, c, Responde
  <2>2. QED
    BY <1>6, <2>1
<1>12. EsIndice(a, Nat) /\ EsIndice(b, Nat) /\ EsIndice(c, Nat \X Nat)
  BY <1>10 DEF a, b, c, Responde
<1>13. Indexados(ts, a, b, c)
  BY <1>11, <1>12 DEF Indexados
<1>14. QED
  BY <1>13 DEF a, b, c, x, y, z

-----------------------------------------------------------------------------
(* The vocabulary, and what qsort leaves of an array.                      *)

Distinto(v) == \A i, j \in DOMAIN v : v[i] = v[j] => i = j

LEMMA CardinalDeDistinto ==
  ASSUME NEW v \in Seq(Conceptos), Distinto(v)
  PROVE  Cardinality(ToSet(v)) = Len(v)
<1> DEFINE S == ToSet(v)
<1>1. DOMAIN v = 1 .. Len(v) /\ Len(v) \in Nat /\ v \in [1 .. Len(v) -> S]
  BY DEF ToSet
<1>2. v \in Bijection(1 .. Len(v), S)
  BY <1>1 DEF Bijection, Injection, Surjection, IsInjective, Distinto, ToSet
<1>3. IsFiniteSet(1 .. Len(v)) /\ Cardinality(1 .. Len(v)) = Len(v)
  <2> DEFINE n == Len(v)
  <2>1. n \in Int
    BY <1>1
  <2> HIDE DEF n
  <2>2. IsFiniteSet(1 .. n) /\ Cardinality(1 .. n) = IF 1 > n THEN 0 ELSE n - 1 + 1
    BY <2>1, FS_Interval
  <2>3. QED
    BY <1>1, <2>2 DEF n
<1> HIDE DEF S
<1>4. ExistsBijection(1 .. Len(v), S)
  BY <1>2 DEF ExistsBijection
<1>5. Cardinality(S) = Cardinality(1 .. Len(v))
  BY <1>3, <1>4, FS_Bijection
<1>6. QED
  BY <1>3, <1>5 DEF S

LEMMA ConTextoCorrecto ==
  ASSUME NEW v \in Seq(Conceptos), Distinto(v), NEW x \in Conceptos
  PROVE  /\ ConTexto(v, x) \in Seq(Conceptos) /\ Distinto(ConTexto(v, x))
         /\ Prolonga(v, ConTexto(v, x))
<1>1. CASE Contains(v, x)
  BY <1>1 DEF ConTexto, Prolonga
<1>2. CASE ~Contains(v, x)
  <2>1. ConTexto(v, x) = Append(v, x)
    BY <1>2 DEF ConTexto
  <2>2. \A i \in 1 .. Len(v) : v[i] # x
    BY <1>2 DEF Contains
  <2>3. /\ Append(v, x) \in Seq(Conceptos) /\ Len(Append(v, x)) = Len(v) + 1
        /\ DOMAIN Append(v, x) = 1 .. Len(v) + 1
        /\ \A i \in 1 .. Len(v) : Append(v, x)[i] = v[i]
        /\ Append(v, x)[Len(v) + 1] = x
    OBVIOUS
  <2>4. Distinto(Append(v, x))
    BY <2>2, <2>3 DEF Distinto
  <2>5. Prolonga(v, Append(v, x))
    BY <2>3 DEF Prolonga
  <2>6. QED
    BY <2>1, <2>3, <2>4, <2>5
<1>3. QED
  BY <1>1, <1>2

LEMMA ConTextosCorrecto ==
  ASSUME NEW v \in Seq(Conceptos), Distinto(v), NEW h \in Hechos
  PROVE  /\ ConTextos(v, h) \in Seq(Conceptos) /\ Distinto(ConTextos(v, h))
         /\ Prolonga(v, ConTextos(v, h))
<1> DEFINE v1 == ConTexto(v, h[1])  v2 == ConTexto(v1, h[2])  v3 == ConTexto(v2, h[3])
<1>1. h[1] \in Conceptos /\ h[2] \in Conceptos /\ h[3] \in Conceptos
  BY NGrafoAssumption
<1>2. v1 \in Seq(Conceptos) /\ Distinto(v1) /\ Prolonga(v, v1)
  BY <1>1, ConTextoCorrecto
<1> HIDE DEF v1
<1>3. v2 \in Seq(Conceptos) /\ Distinto(v2) /\ Prolonga(v1, v2)
  BY <1>1, <1>2, ConTextoCorrecto
<1> HIDE DEF v2
<1>4. v3 \in Seq(Conceptos) /\ Distinto(v3) /\ Prolonga(v2, v3)
  BY <1>1, <1>3, ConTextoCorrecto
<1> HIDE DEF v3
<1>5. Prolonga(v, v3)
  BY <1>2, <1>3, <1>4 DEF Prolonga
<1>6. v3 = ConTextos(v, h)
  BY DEF v1, v2, v3, ConTextos
<1>7. QED
  BY <1>4, <1>5, <1>6

LEMMA IdEnRango ==
  ASSUME NEW v \in Seq(Conceptos), NEW x
  PROVE  Id(v, x) \in 0 .. Len(v)
<1>1. Len(v) \in Nat /\ DOMAIN v = 1 .. Len(v)
  OBVIOUS
<1>2. CASE Contains(v, x)
  <2>1. \E i \in DOMAIN v : v[i] = x
    BY <1>1, <1>2 DEF Contains
  <2>2. (CHOOSE i \in DOMAIN v : v[i] = x) \in DOMAIN v
    BY <2>1
  <2>3. QED
    BY <1>1, <1>2, <2>2 DEF Id
<1>3. CASE ~Contains(v, x)
  BY <1>1, <1>3 DEF Id, NGF_ID_NULO
<1>4. QED
  BY <1>2, <1>3

\* Sorting moves triples: none is lost, none is repeated.
LEMMA OrdenPermuta ==
  ASSUME NEW V, NEW s \in Seq(V), NEW r \in Ordenes(s)
  PROVE  /\ r \in Seq(V) /\ Len(r) = Len(s)
         /\ ToSet(r) = ToSet(s)
         /\ \A x : Veces(r, x) = Veces(s, x)
<1>1. DOMAIN s = 1 .. Len(s) /\ Len(s) \in Nat /\ \A i \in DOMAIN s : s[i] \in V
  OBVIOUS
<1>2. PICK p \in Bijection(DOMAIN s, DOMAIN s) : r = [i \in DOMAIN s |-> s[p[i]]]
  BY DEF Ordenes
<1>3. /\ p \in [DOMAIN s -> DOMAIN s]
      /\ \A i, j \in DOMAIN s : p[i] = p[j] => i = j
      /\ \A j \in DOMAIN s : \E i \in DOMAIN s : p[i] = j
  BY <1>2 DEF Bijection, Injection, Surjection, IsInjective
<1>4. DOMAIN r = DOMAIN s /\ \A i \in DOMAIN s : r[i] = s[p[i]]
  BY <1>2
<1>5. r \in Seq(V) /\ Len(r) = Len(s)
  BY <1>1, <1>2, <1>3
<1>6. ToSet(r) = ToSet(s)
  <2>1. ASSUME NEW x \in ToSet(r) PROVE x \in ToSet(s)
    BY <1>3, <1>4, <2>1 DEF ToSet
  <2>2. ASSUME NEW x \in ToSet(s) PROVE x \in ToSet(r)
    <3>1. PICK j \in DOMAIN s : s[j] = x
      BY <2>2 DEF ToSet
    <3>2. PICK i \in DOMAIN s : p[i] = j
      BY <1>3
    <3>3. r[i] = x
      BY <1>4, <3>1, <3>2
    <3>4. QED
      BY <1>4, <3>3 DEF ToSet
  <2>3. QED
    BY <2>1, <2>2
<1>7. ASSUME NEW x PROVE Veces(r, x) = Veces(s, x)
  <2> DEFINE A == {i \in DOMAIN r : r[i] = x}
             B == {i \in DOMAIN s : s[i] = x}
             q == [i \in A |-> p[i]]
  <2>1. q \in [A -> B]
    BY <1>3, <1>4
  <2>2. \A i, j \in A : q[i] = q[j] => i = j
    BY <1>3, <1>4
  <2>3. \A j \in B : \E i \in A : q[i] = j
    <3> SUFFICES ASSUME NEW j \in B PROVE \E i \in A : q[i] = j
      OBVIOUS
    <3>1. PICK i \in DOMAIN s : p[i] = j
      BY <1>3
    <3>2. i \in A
      BY <1>4, <3>1
    <3>3. QED
      BY <3>1, <3>2
  <2>4. IsFiniteSet(A)
    BY <1>5, VecesNatural
  <2> HIDE DEF A, B, q
  <2>5. q \in Bijection(A, B)
    BY <2>1, <2>2, <2>3 DEF Bijection, Injection, Surjection, IsInjective
  <2>6. Cardinality(A) = Cardinality(B)
    BY <2>4, <2>5, FS_Bijection DEF ExistsBijection
  <2>7. QED
    BY <2>6 DEF Veces, A, B
<1>8. QED
  BY <1>5, <1>6, <1>7

-----------------------------------------------------------------------------
(* A vocabulary with triples over it, in memory or in the file.            *)

Contenido(v, ts) ==
  /\ v \in Seq(Conceptos) /\ Distinto(v)
  /\ ts \in Seq(Triple) /\ Len(ts) <= MaxTriples

LEMMA ContenidoVacio == Contenido(<<>>, <<>>)
BY NGrafoAssumption DEF Contenido, Distinto

LEMMA ContenidoAgregar ==
  ASSUME NEW v, NEW ts, Contenido(v, ts), NEW t \in Triple, Len(ts) < MaxTriples
  PROVE  Contenido(v, Append(ts, t))
<1>1. /\ ts \in Seq(Triple) /\ Append(ts, t) \in Seq(Triple)
      /\ Len(Append(ts, t)) = Len(ts) + 1 /\ Len(ts) \in Nat
  BY DEF Contenido
<1>2. QED
  BY <1>1, NGrafoAssumption DEF Contenido

LEMMA ContenidoQuitar ==
  ASSUME NEW v, NEW ts, Contenido(v, ts), NEW t
  PROVE  Contenido(v, SinUno(ts, t))
<1>1. ts \in Seq(Triple)
  BY DEF Contenido
<1>2. /\ SinUno(ts, t) \in Seq(Triple) /\ Len(SinUno(ts, t)) <= Len(ts)
      /\ ToSet(SinUno(ts, t)) \subseteq ToSet(ts)
  BY <1>1, VecesSinUno
<1>3. Len(ts) \in Nat /\ Len(SinUno(ts, t)) \in Nat
  BY <1>1, <1>2
<1>4. QED
  BY <1>2, <1>3, NGrafoAssumption DEF Contenido

LEMMA ContenidoOrden ==
  ASSUME NEW v, NEW ts, Contenido(v, ts), NEW r \in Ordenes(ts)
  PROVE  Contenido(v, r)
<1>1. ts \in Seq(Triple)
  BY DEF Contenido
<1>2. r \in Seq(Triple) /\ Len(r) = Len(ts) /\ ToSet(r) = ToSet(ts)
  BY <1>1, OrdenPermuta
<1>3. QED
  BY <1>2 DEF Contenido

\* What a save reads of the mapping is still an array of triples.
LEMMA ContenidoLeidos ==
  ASSUME Contenido(vocab, triples), NEW ts \in Leidos
  PROVE  Contenido(vocab, ts)
<1>1. triples \in Seq(Triple) /\ DOMAIN triples = 1 .. Len(triples) /\ Len(triples) \in Nat
  BY DEF Contenido
<1>2. PICK w \in UNION {[R -> Palabras] : R \in SUBSET Reescritas} :
        ts = [i \in DOMAIN triples |-> <<Palabra(w, i, 1), Palabra(w, i, 2), Palabra(w, i, 3)>>]
  BY DEF Leidos
<1>3. \A x \in DOMAIN w : w[x] \in Nat
  <2>1. PICK R \in SUBSET Reescritas : w \in [R -> Palabras]
    <3>1. PICK F \in {[R -> Palabras] : R \in SUBSET Reescritas} : w \in F
      BY <1>2
    <3>2. QED
      BY <3>1
  <2>2. DOMAIN w = R /\ \A x \in R : w[x] \in Palabras
    BY <2>1
  <2>3. QED
    BY <2>2, NGrafoAssumption
<1>4. ASSUME NEW i \in DOMAIN triples
      PROVE  <<Palabra(w, i, 1), Palabra(w, i, 2), Palabra(w, i, 3)>> \in Triple
  <2>1. triples[i] \in Triple
    BY <1>1
  <2>2. triples[i][1] \in Nat /\ triples[i][2] \in Nat /\ triples[i][3] \in Nat
    BY <2>1, TriplePartes
  <2>3. Palabra(w, i, 1) \in Nat /\ Palabra(w, i, 2) \in Nat /\ Palabra(w, i, 3) \in Nat
    BY <1>3, <2>2 DEF Palabra
  <2>4. QED
    BY <2>3 DEF Triple
<1>5. ts \in [1 .. Len(triples) -> Triple]
  BY <1>1, <1>2, <1>4
<1>6. ts \in Seq(Triple) /\ Len(ts) = Len(triples)
  BY <1>1, <1>5
<1>7. QED
  BY <1>6 DEF Contenido

-----------------------------------------------------------------------------
(* The inductive invariant.  IndicesExactos speaks of the numbers in use,   *)
(* which change; the indices are right for every number, so that a new id   *)
(* finds nothing under it.  What makes a close without a save harmless is    *)
(* that a clean store has the very triples of its file; what keeps an id     *)
(* its text, that an open store numbered its texts after those of the file. *)

TiposDelGrafo ==
  /\ Contenido(vocab, triples)
  /\ Contenido(archivo.vocab, archivo.triples)
  /\ dirty \in BOOLEAN /\ mapeado \in BOOLEAN /\ sesion \in {"abierta", "cerrada"}

Limpio == sesion = "abierta" /\ ~dirty => vocab = archivo.vocab /\ triples = archivo.triples

Continua == sesion = "abierta" => Prolonga(archivo.vocab, vocab)

IInv == TiposDelGrafo /\ Indexados(triples, sp, po, oi) /\ Limpio /\ Continua

LEMMA IndexadosVacio == Indexados(<<>>, <<>>, <<>>, <<>>)
<1>1. \A k : Valores(<<>>, k) = <<>>
  BY DEF Valores
<1>2. \A x : Veces(<<>>, x) = 0
  <2> SUFFICES ASSUME NEW x PROVE Veces(<<>>, x) = 0
    OBVIOUS
  <2>1. {i \in DOMAIN <<>> : <<>>[i] = x} = {}
    OBVIOUS
  <2>2. QED
    BY <2>1, FS_EmptySet DEF Veces
<1>3. QED
  BY <1>1, <1>2 DEF Indexados, EsIndice

LEMMA Inicial == Init => IInv
<1> SUFFICES ASSUME Init PROVE IInv
  OBVIOUS
<1>1. TiposDelGrafo
  BY ContenidoVacio DEF Init, TiposDelGrafo
<1>2. QED
  BY <1>1, IndexadosVacio DEF Init, IInv, Limpio, Continua, Prolonga

LEMMA PasoObtenerId ==
  ASSUME IInv, NEW x \in Sueltos, ObtenerId(x)
  PROVE  IInv'
<1>1. x \in Conceptos /\ vocab \in Seq(Conceptos) /\ Distinto(vocab)
  BY NGrafoAssumption DEF IInv, TiposDelGrafo, Contenido
<1>2. vocab' \in Seq(Conceptos) /\ Distinto(vocab') /\ Prolonga(vocab, vocab')
  BY <1>1, ConTextoCorrecto DEF ObtenerId
<1>3. TiposDelGrafo'
  BY <1>2 DEF ObtenerId, Abierta, IInv, TiposDelGrafo, Contenido
<1>4. Limpio'
  BY DEF ObtenerId, Abierta, IInv, Limpio
<1>5. Continua'
  BY <1>2 DEF ObtenerId, Abierta, IInv, Continua, Prolonga
<1>6. QED
  BY <1>3, <1>4, <1>5 DEF ObtenerId, IInv, indices

LEMMA PasoRecordar ==
  ASSUME IInv, NEW h \in Hechos, Recordar(h)
  PROVE  IInv'
<1> DEFINE t == <<Id(vocab', h[1]), Id(vocab', h[2]), Id(vocab', h[3])>>
<1>1. vocab \in Seq(Conceptos) /\ Distinto(vocab) /\ triples \in Seq(Triple)
  BY DEF IInv, TiposDelGrafo, Contenido
<1>2. vocab' \in Seq(Conceptos) /\ Distinto(vocab') /\ Prolonga(vocab, vocab')
  BY <1>1, ConTextosCorrecto DEF Recordar
<1>3. t \in Triple
  <2>1. Len(vocab') \in Nat
    BY <1>2
  <2>2. /\ Id(vocab', h[1]) \in 0 .. Len(vocab') /\ Id(vocab', h[2]) \in 0 .. Len(vocab')
        /\ Id(vocab', h[3]) \in 0 .. Len(vocab')
    BY <1>2, IdEnRango
  <2>3. QED
    BY <2>1, <2>2 DEF Triple
<1>4. /\ triples' = Append(triples, t) /\ IndiceAgregar(t)
  BY DEF Recordar
<1> HIDE DEF t
<1>5. Contenido(vocab', triples')
  <2>1. Contenido(vocab', triples)
    BY <1>2 DEF IInv, TiposDelGrafo, Contenido
  <2>2. Len(triples) < MaxTriples
    BY DEF Recordar
  <2>3. QED
    BY <1>3, <1>4, <2>1, <2>2, ContenidoAgregar
<1>6. TiposDelGrafo'
  BY <1>5 DEF Recordar, Abierta, IInv, TiposDelGrafo
<1>7. Indexados(triples', sp', po', oi')
  <2>1. Indexados(triples, sp, po, oi)
    BY DEF IInv
  <2>2. QED
    BY <1>1, <1>3, <1>4, <2>1, IndexadosAgregar DEF IndiceAgregar
<1>8. Limpio'
  BY DEF Recordar, Limpio
<1>9. Continua'
  BY <1>2 DEF Recordar, Abierta, IInv, Continua, Prolonga
<1>10. QED
  BY <1>6, <1>7, <1>8, <1>9 DEF IInv

LEMMA PasoOlvidar ==
  ASSUME IInv, NEW h \in Hechos, Olvidar(h)
  PROVE  IInv'
<1> DEFINE t == <<Id(vocab, h[1]), Id(vocab, h[2]), Id(vocab, h[3])>>
<1>1. vocab \in Seq(Conceptos) /\ triples \in Seq(Triple)
  BY DEF IInv, TiposDelGrafo, Contenido
<1>2. t \in Triple
  <2>1. Len(vocab) \in Nat
    BY <1>1
  <2>2. /\ Id(vocab, h[1]) \in 0 .. Len(vocab) /\ Id(vocab, h[2]) \in 0 .. Len(vocab)
        /\ Id(vocab, h[3]) \in 0 .. Len(vocab)
    BY <1>1, IdEnRango
  <2>3. QED
    BY <2>1, <2>2 DEF Triple
<1>3. \/ /\ Contains(triples, t) /\ triples' = SinUno(triples, t)
         /\ IndiceQuitar(t) /\ dirty' = TRUE
      \/ UNCHANGED <<triples, indices, dirty>>
  BY DEF Olvidar
<1>4. vocab' = vocab /\ archivo' = archivo /\ sesion' = sesion /\ mapeado' = FALSE
  BY DEF Olvidar, Abierta
<1> HIDE DEF t
<1>5. CASE UNCHANGED <<triples, indices, dirty>>
  BY <1>4, <1>5 DEF IInv, TiposDelGrafo, Limpio, Continua, indices
<1>6. CASE /\ Contains(triples, t) /\ triples' = SinUno(triples, t)
           /\ IndiceQuitar(t) /\ dirty' = TRUE
  <2>1. Contenido(vocab', triples')
    BY <1>4, <1>6, ContenidoQuitar DEF IInv, TiposDelGrafo
  <2>2. TiposDelGrafo'
    BY <1>4, <1>6, <2>1 DEF IInv, TiposDelGrafo
  <2>3. Indexados(triples', sp', po', oi')
    <3>1. Indexados(triples, sp, po, oi)
      BY DEF IInv
    <3>2. QED
      BY <1>1, <1>2, <1>6, <3>1, IndexadosQuitar DEF IndiceQuitar
  <2>4. QED
    BY <1>4, <1>6, <2>2, <2>3 DEF IInv, Limpio, Continua
<1>7. QED
  BY <1>3, <1>5, <1>6

\* Closing leaves an empty memory; what it leaves in the file is the caller's.
LEMMA PasoCerrarMemoria ==
  ASSUME IInv, CerrarMemoria, Contenido(archivo.vocab, archivo.triples)'
  PROVE  IInv'
<1>1. TiposDelGrafo'
  BY ContenidoVacio DEF CerrarMemoria, TiposDelGrafo
<1>2. Indexados(triples', sp', po', oi')
  BY IndexadosVacio DEF CerrarMemoria
<1>3. QED
  BY <1>1, <1>2 DEF CerrarMemoria, IInv, Limpio, Continua

LEMMA PasoCerrar ==
  ASSUME IInv, Cerrar
  PROVE  IInv'
<1>1. CASE UNCHANGED archivo
  BY <1>1, PasoCerrarMemoria DEF Cerrar, IInv, TiposDelGrafo
<1>2. CASE \E ts \in Leidos : Guardar(ts)
  <2>1. PICK ts \in Leidos : Guardar(ts)
    BY <1>2
  <2>2. PICK r \in Ordenes(ts) : archivo' = [vocab |-> vocab, triples |-> r]
    BY <2>1 DEF Guardar
  <2>3. Contenido(vocab, ts)
    BY <2>1, ContenidoLeidos DEF IInv, TiposDelGrafo
  <2>4. Contenido(vocab, r)
    BY <2>3, ContenidoOrden
  <2>5. Contenido(archivo.vocab, archivo.triples)'
    BY <2>2, <2>4
  <2>6. QED
    BY <2>5, PasoCerrarMemoria DEF Cerrar
<1>3. QED
  BY <1>1, <1>2 DEF Cerrar

LEMMA PasoAbrir ==
  ASSUME IInv, Abrir
  PROVE  IInv'
<1> DEFINE ts == archivo.triples
<1>1. Contenido(archivo.vocab, ts) /\ ts \in Seq(Triple)
  BY DEF IInv, TiposDelGrafo, Contenido
<1>2. TiposDelGrafo'
  BY <1>1 DEF Abrir, AbrirCon, TiposDelGrafo
<1>3. Indexados(ts, Reconstruido(PorSp(ts)), Reconstruido(PorPo(ts)), Reconstruido(PorO(ts)))
  BY <1>1, IndexadosReconstruir
<1>4. Indexados(triples', sp', po', oi')
  BY <1>3 DEF Abrir, AbrirCon, PorSp, PorPo, PorO
<1>5. QED
  BY <1>2, <1>4 DEF Abrir, AbrirCon, IInv, Limpio, Continua, Prolonga

LEMMA Paso == IInv /\ [Next]_vars => IInv'
<1> SUFFICES ASSUME IInv, [Next]_vars PROVE IInv'
  OBVIOUS
<1>1. ASSUME NEW x \in Sueltos, ObtenerId(x) PROVE IInv'
  BY <1>1, PasoObtenerId
<1>2. ASSUME NEW h \in Hechos, Recordar(h) PROVE IInv'
  BY <1>2, PasoRecordar
<1>3. ASSUME NEW h \in Hechos, Olvidar(h) PROVE IInv'
  BY <1>3, PasoOlvidar
<1>4. CASE Cerrar
  BY <1>4, PasoCerrar
<1>5. CASE Perder
  BY <1>5, PasoCerrarMemoria DEF Perder, IInv, TiposDelGrafo
<1>6. CASE Abrir
  BY <1>6, PasoAbrir
<1>7. CASE UNCHANGED vars
  BY <1>7 DEF vars, indices, IInv, TiposDelGrafo, Limpio, Continua
<1>8. QED
  BY <1>1, <1>2, <1>3, <1>4, <1>5, <1>6, <1>7 DEF Next

LEMMA Inductiva == Spec => []IInv
BY Inicial, Paso, PTL DEF Spec

-----------------------------------------------------------------------------
(* The indices, the file and the ids.                                       *)

\* No text has two ids, through closings, reopenings and triples read from bytes of the
\* vocabulary, and a triple is three numbers (n_obtener_id, n_abrir_grafo).
THEOREM TextosSiempreUnicos == Spec => []TypeOK
<1>1. IInv => TypeOK
  <2> SUFFICES ASSUME IInv PROVE TypeOK
    OBVIOUS
  <2>1. Cardinality(ToSet(vocab)) = Len(vocab)
    BY CardinalDeDistinto DEF IInv, TiposDelGrafo, Contenido
  <2>2. QED
    BY <2>1 DEF TypeOK, IInv, TiposDelGrafo, Contenido
<1>2. QED
  BY <1>1, Inductiva, PTL

\* An id that reached the file names the same text in every later file: a session
\* numbers its texts after those it loaded, and a save writes all of them
\* (n_obtener_id, n_grafo_guardar, n_abrir_grafo).
THEOREM IdsSiempreEstables == Spec => IdsEstables
<1>1. IInv /\ [Next]_vars => [Prolonga(archivo.vocab, archivo'.vocab)]_vars
  <2> SUFFICES ASSUME IInv, Next PROVE Prolonga(archivo.vocab, archivo'.vocab)
    OBVIOUS
  <2>1. CASE UNCHANGED archivo
    BY <2>1 DEF IInv, TiposDelGrafo, Contenido, Prolonga
  <2>2. CASE \E ts \in Leidos : Guardar(ts) /\ CerrarMemoria
    <3>1. archivo'.vocab = vocab
      BY <2>2 DEF Guardar
    <3>2. QED
      BY <2>2, <3>1 DEF CerrarMemoria, IInv, Continua
  <2>3. QED
    BY <2>1, <2>2 DEF Next, ObtenerId, Recordar, Olvidar, Abierta, Cerrar, Perder, Abrir, AbrirCon
<1>2. QED
  BY <1>1, Inductiva, PTL DEF Spec, IdsEstables

\* Every number a search may be asked for.
LEMMA IdsNaturales ==
  ASSUME IInv
  PROVE  Ids \subseteq Nat
<1>1. Len(vocab) \in Nat /\ \A t \in ToSet(triples) : t \in Triple
  BY DEF IInv, TiposDelGrafo, Contenido, ToSet
<1>2. \A t \in ToSet(triples) : t[1] \in Nat /\ t[2] \in Nat /\ t[3] \in Nat
  BY <1>1, TriplePartes
<1>3. \A t \in ToSet(triples), k \in 1 .. 3 : t[k] \in Nat
  BY <1>2
<1>4. QED
  BY <1>1, <1>3 DEF Ids

\* However many triples are recorded, forgotten by swap removal, saved in another
\* order and reloaded, the three indices answer with exactly the triples of the array
\* (n_grafo_indice_agregar, n_grafo_indice_quitar, n_grafo_reconstruir_indices).
THEOREM IndicesSiempreExactos == Spec => []IndicesExactos
<1>1. IInv => IndicesExactos
  <2> SUFFICES ASSUME IInv, NEW s \in Ids, NEW p \in Ids, NEW o \in Ids
               PROVE  LET n == Veces(triples, <<s, p, o>>)
                      IN  /\ Veces(Valores(sp, <<s, p>>), o) = n
                          /\ Veces(Valores(po, <<p, o>>), s) = n
                          /\ Veces(Valores(oi, o), <<s, p>>) = n
    BY DEF IndicesExactos
  <2>1. s \in Nat /\ p \in Nat /\ o \in Nat
    BY IdsNaturales
  <2>2. QED
    BY <2>1 DEF IInv, Indexados
<1>2. QED
  BY <1>1, Inductiva, PTL

\* A store that n_cerrar_grafo would close without writing holds what its file holds.
THEOREM LimpioSiempreEsArchivo == Spec => []LimpioEsArchivo
<1>1. IInv => LimpioEsArchivo
  BY DEF IInv, Limpio, LimpioEsArchivo, EnDisco
<1>2. QED
  BY <1>1, Inductiva, PTL

-----------------------------------------------------------------------------
(* n_heredar.                                                                *)

\* Iterating a function n times.
EsIteracion(f, x, G, n) == f = [i \in 0 .. n |-> IF i = 0 THEN x ELSE G[<<i, f[i - 1]>>]]

LEMMA HayIteracion ==
  ASSUME NEW S, NEW x \in S, NEW n \in Nat, NEW G \in [(1 .. n) \X S -> S]
  PROVE  \E f \in [0 .. n -> S] : EsIteracion(f, x, G, n)
<1> DEFINE P(m) == \E f \in [0 .. m -> S] : EsIteracion(f, x, G, m)
           T    == {m \in Nat : m <= n => P(m)}
<1>1. 0 \in T
  <2> DEFINE f == [i \in 0 .. 0 |-> x]
  <2>1. f \in [0 .. 0 -> S] /\ EsIteracion(f, x, G, 0)
    BY DEF EsIteracion
  <2>2. QED
    BY <2>1
<1>2. ASSUME NEW m \in T, m + 1 <= n PROVE P(m + 1)
  <2>1. m \in 0 .. n /\ m <= n /\ m + 1 \in 1 .. n
    BY <1>2
  <2>2. PICK f \in [0 .. m -> S] : EsIteracion(f, x, G, m)
    BY <1>2, <2>1
  <2> DEFINE y == G[<<m + 1, f[m]>>]
             g == [i \in 0 .. m + 1 |-> IF i = m + 1 THEN y ELSE f[i]]
  <2>3. f[m] \in S /\ y \in S
    BY <2>1, <2>2
  <2>4. f[0] = x /\ \A i \in 1 .. m : f[i] = G[<<i, f[i - 1]>>]
    <3>1. f = [i \in 0 .. m |-> IF i = 0 THEN x ELSE G[<<i, f[i - 1]>>]]
      BY <2>2 DEF EsIteracion
    <3>2. QED
      BY <2>1, <3>1
  <2> HIDE DEF y
  <2>5. g \in [0 .. m + 1 -> S]
    BY <2>1, <2>2, <2>3
  <2>6. g[m + 1] = y /\ \A i \in 0 .. m : g[i] = f[i]
    BY <2>1
  <2> HIDE DEF g
  <2>7. \A i \in 0 .. m + 1 : g[i] = IF i = 0 THEN x ELSE G[<<i, g[i - 1]>>]
    <3> SUFFICES ASSUME NEW i \in 0 .. m + 1
                 PROVE  g[i] = IF i = 0 THEN x ELSE G[<<i, g[i - 1]>>]
      OBVIOUS
    <3>1. CASE i = 0
      BY <2>1, <2>4, <2>6, <3>1
    <3>2. CASE i \in 1 .. m
      BY <2>1, <2>4, <2>6, <3>2
    <3>3. CASE i = m + 1
      BY <2>1, <2>6, <3>3 DEF y
    <3>4. QED
      BY <2>1, <3>1, <3>2, <3>3
  <2>8. EsIteracion(g, x, G, m + 1)
    BY <2>5, <2>7 DEF EsIteracion
  <2>9. QED
    BY <2>5, <2>8
<1> HIDE DEF P
<1>3. T = Nat
  <2>1. \A m \in T : m + 1 \in T
    BY <1>2
  <2>2. T \in SUBSET Nat
    OBVIOUS
  <2> HIDE DEF T
  <2>3. QED
    BY <1>1, <2>1, <2>2, InduccionNatural
<1>4. QED
  BY <1>3 DEF P

Estados == [cola : Seq(Nat), fuera : Nat, visitado : SUBSET Nat, o : Nat]

\* What joining the queue one by one comes to: some of them at its end, and none of those
\* that were not visited left out unless the queue is full.
LEMMA EncoladosSon ==
  ASSUME NEW st \in Estados, NEW ts \in Seq(Nat), Len(st.cola) + Len(ts) <= HeredarMax
  PROVE  \E q \in Seq(Nat) :
           /\ Encolados(st, ts) = [st EXCEPT !.cola = q]
           /\ Len(st.cola) <= Len(q) /\ Len(q) <= Len(st.cola) + Len(ts)
           /\ \A i \in 1 .. Len(st.cola) : q[i] = st.cola[i]
           /\ \A i \in 1 .. Len(q) : i > Len(st.cola) => Contains(ts, q[i])
           /\ \A j \in 1 .. Len(ts) : ts[j] \in st.visitado \/ Contains(q, ts[j])
<1> DEFINE N == Len(ts)
           G == [x \in (1 .. N) \X Estados |-> Encolar(x[2], ts[x[1]])]
<1>1. N \in Nat /\ DOMAIN ts = 1 .. N /\ \A i \in 1 .. N : ts[i] \in Nat
  OBVIOUS
<1>2. st.cola \in Seq(Nat) /\ Len(st.cola) \in Nat /\ st.visitado \in SUBSET Nat
  BY DEF Estados
<1>3. ASSUME NEW e \in Estados, NEW c \in Nat PROVE Encolar(e, c) \in Estados
  <2>1. e.cola \in Seq(Nat) /\ Append(e.cola, c) \in Seq(Nat)
    BY DEF Estados
  <2>2. [e EXCEPT !.cola = Append(@, c)] \in Estados
    BY <2>1 DEF Estados
  <2>3. QED
    BY <2>2 DEF Encolar
<1>4. G \in [(1 .. N) \X Estados -> Estados]
  <2> HIDE DEF N
  <2>1. QED
    BY <1>1, <1>3
<1>5. \E f \in [0 .. N -> Estados] : EsIteracion(f, st, G, N)
  <2> HIDE DEF N, G
  <2>1. QED
    BY <1>1, <1>4, HayIteracion
<1>6. ASSUME NEW f, f = [n \in 0 .. N |-> IF n = 0 THEN st ELSE Encolar(f[n - 1], ts[n])]
      PROVE  f[0] = st /\ \A n \in 1 .. N : f[n] = Encolar(f[n - 1], ts[n])
  <2> DEFINE A(n) == Encolar(f[n - 1], ts[n])
  <2>1. f = [n \in 0 .. N |-> IF n = 0 THEN st ELSE A(n)]
    BY <1>6
  <2> HIDE DEF A, N
  <2>2. f[0] = st /\ \A n \in 1 .. N : f[n] = A(n)
    BY <1>1, <2>1
  <2>3. QED
    BY <2>2 DEF A
<1> DEFINE R(f) == f = [n \in 0 .. N |-> IF n = 0 THEN st ELSE Encolar(f[n - 1], ts[n])]
           g == CHOOSE f : R(f)
<1>7. Encolados(st, ts) = g[N]
  BY DEF Encolados
<1>8. \E f : R(f)
  <2>1. PICK f \in [0 .. N -> Estados] : EsIteracion(f, st, G, N)
    BY <1>5
  <2> DEFINE B(n) == Encolar(f[n - 1], ts[n])
  <2>2. \A n \in 1 .. N : G[<<n, f[n - 1]>>] = B(n)
    <3> HIDE DEF N
    <3>1. \A n \in 1 .. N : n - 1 \in 0 .. N
      BY <1>1
    <3>2. QED
      BY <2>1, <3>1
  <2> DEFINE D(n) == G[<<n, f[n - 1]>>]
  <2>3. f = [n \in 0 .. N |-> IF n = 0 THEN st ELSE D(n)]
    BY <2>1 DEF EsIteracion
  <2>4. \A n \in 1 .. N : D(n) = B(n)
    BY <2>2
  <2> HIDE DEF B, D, N, G
  <2>5. f = [n \in 0 .. N |-> IF n = 0 THEN st ELSE B(n)]
    BY <1>1, <2>3, <2>4
  <2>6. QED
    BY <2>5 DEF B
<1>9. g[0] = st /\ \A n \in 1 .. N : g[n] = Encolar(g[n - 1], ts[n])
  <2>1. R(g)
    <3> HIDE DEF R
    <3>1. QED
      BY <1>8
  <2> HIDE DEF g, N
  <2>2. QED
    BY <1>6, <2>1
<1> HIDE DEF g, N, G, R
<1> DEFINE Q(q, m) ==
             /\ q \in Seq(Nat) /\ g[m] = [st EXCEPT !.cola = q]
             /\ Len(st.cola) <= Len(q) /\ Len(q) <= Len(st.cola) + m
             /\ \A i \in 1 .. Len(st.cola) : q[i] = st.cola[i]
             /\ \A i \in 1 .. Len(q) : i > Len(st.cola) => Contains(ts, q[i])
             /\ \A j \in 1 .. m : ts[j] \in st.visitado \/ Contains(q, ts[j])
           P(m) == \E q : Q(q, m)
           T == {m \in Nat : m <= N => P(m)}
<1>10. 0 \in T
  <2>1. g[0] = [st EXCEPT !.cola = st.cola]
    BY <1>9 DEF Estados
  <2>2. Q(st.cola, 0)
    BY <1>2, <2>1
  <2>3. QED
    BY <2>2
<1>11. ASSUME NEW m \in T, m + 1 <= N PROVE P(m + 1)
  <2>1. m \in Nat /\ m <= N /\ m + 1 \in 1 .. N
    BY <1>1, <1>11
  <2>2. PICK q : Q(q, m)
    BY <1>11, <2>1
  <2> DEFINE c == ts[m + 1]
             e == [st EXCEPT !.cola = q]
  <2>3. c \in Nat /\ q \in Seq(Nat) /\ Len(q) \in Nat
    BY <1>1, <2>1, <2>2
  <2>4. e.cola = q /\ e.visitado = st.visitado
    BY <2>3 DEF Estados
  <2>5. Len(q) < HeredarMax
    <3>1. Len(q) <= Len(st.cola) + m
      BY <2>2
    <3>2. Len(st.cola) + N <= HeredarMax
      BY DEF N
    <3>3. HeredarMax \in Nat
      BY NGrafoAssumption
    <3>4. QED
      BY <1>1, <1>2, <2>1, <2>3, <3>1, <3>2, <3>3
  <2>6. g[m + 1] = Encolar(e, c)
    <3>1. (m + 1) - 1 = m
      BY <2>1
    <3>2. QED
      BY <1>9, <2>1, <2>2, <3>1
  <2>7. Contains(ts, c)
    BY <1>1, <2>1 DEF Contains
  <2>8. CASE c \in st.visitado
    <3>1. g[m + 1] = e
      BY <2>4, <2>6, <2>8 DEF Encolar
    <3>2. \A j \in 1 .. m + 1 : ts[j] \in st.visitado \/ Contains(q, ts[j])
      <4> SUFFICES ASSUME NEW j \in 1 .. m + 1 PROVE ts[j] \in st.visitado \/ Contains(q, ts[j])
        OBVIOUS
      <4>1. CASE j = m + 1
        BY <2>8, <4>1
      <4>2. CASE j \in 1 .. m
        BY <2>2, <4>2
      <4>3. QED
        BY <2>1, <4>1, <4>2
    <3>3. Q(q, m + 1)
      <4>1. Len(q) <= Len(st.cola) + (m + 1)
        BY <1>2, <2>1, <2>2, <2>3
      <4>2. QED
        BY <2>2, <3>1, <3>2, <4>1
    <3>4. QED
      BY <3>3
  <2>9. CASE c \notin st.visitado
    <3> DEFINE r == Append(q, c)
    <3>1. r \in Seq(Nat) /\ Len(r) = Len(q) + 1 /\ r[Len(q) + 1] = c /\ \A i \in 1 .. Len(q) : r[i] = q[i]
      BY <2>3
    <3>2. g[m + 1] = [st EXCEPT !.cola = r]
      <4>1. Encolar(e, c) = [e EXCEPT !.cola = Append(@, c)]
        BY <2>4, <2>5, <2>9 DEF Encolar
      <4>2. QED
        BY <2>3, <2>4, <2>6, <4>1 DEF Estados
    <3>3. \A x : Contains(q, x) => Contains(r, x)
      BY <2>3, <3>1 DEF Contains
    <3> HIDE DEF r, c
    <3>4. Contains(r, c)
      <4>1. Len(q) + 1 \in 1 .. Len(r)
        BY <2>3, <3>1
      <4>2. QED
        BY <3>1, <4>1 DEF Contains
    <3>5. \A j \in 1 .. m + 1 : ts[j] \in st.visitado \/ Contains(r, ts[j])
      <4> SUFFICES ASSUME NEW j \in 1 .. m + 1 PROVE ts[j] \in st.visitado \/ Contains(r, ts[j])
        OBVIOUS
      <4>1. CASE j = m + 1
        BY <3>4, <4>1 DEF c
      <4>2. CASE j \in 1 .. m
        BY <2>2, <3>3, <4>2
      <4>3. QED
        BY <2>1, <4>1, <4>2
    <3>6. \A i \in 1 .. Len(r) : i > Len(st.cola) => Contains(ts, r[i])
      <4> SUFFICES ASSUME NEW i \in 1 .. Len(r), i > Len(st.cola) PROVE Contains(ts, r[i])
        OBVIOUS
      <4>1. CASE i = Len(q) + 1
        BY <2>7, <3>1, <4>1
      <4>2. CASE i \in 1 .. Len(q)
        BY <2>2, <3>1, <4>2
      <4>3. QED
        BY <2>3, <3>1, <4>1, <4>2
    <3>7. \A i \in 1 .. Len(st.cola) : r[i] = st.cola[i]
      <4>1. \A i \in 1 .. Len(st.cola) : i \in 1 .. Len(q)
        BY <1>2, <2>2, <2>3
      <4>2. QED
        BY <2>2, <3>1, <4>1
    <3>8. Len(st.cola) <= Len(r) /\ Len(r) <= Len(st.cola) + (m + 1)
      BY <1>2, <2>1, <2>2, <2>3, <3>1
    <3>9. Q(r, m + 1)
      BY <3>1, <3>2, <3>5, <3>6, <3>7, <3>8
    <3>10. QED
      BY <3>9
  <2>10. QED
    BY <2>8, <2>9
<1>12. P(N)
  <2>1. \A m \in T : m + 1 \in T
    <3> HIDE DEF P
    <3>1. QED
      BY <1>11
  <2>2. T \in SUBSET Nat
    OBVIOUS
  <2> HIDE DEF P
  <2>3. T = Nat
    <3> HIDE DEF T
    <3>1. QED
      BY <1>10, <2>1, <2>2, InduccionNatural
  <2>4. QED
    BY <1>1, <2>3
<1>13. QED
  BY <1>7, <1>12 DEF N

-----------------------------------------------------------------------------
(* Counting the types of a concept.                                        *)

\* A set in which no label stands more often than in another is not larger.
Cuantos(S, h, x) == Cardinality({y \in S : h[y] = x})

LEMMA EtiquetaQuitada ==
  ASSUME NEW S, IsFiniteSet(S), NEW s \in S, NEW h, NEW x
  PROVE  /\ Cuantos(S, h, x) \in Nat
         /\ h[s] = x => Cuantos(S \ {s}, h, x) = Cuantos(S, h, x) - 1
         /\ h[s] # x => Cuantos(S \ {s}, h, x) = Cuantos(S, h, x)
<1> DEFINE A == {y \in S : h[y] = x}
           B == {y \in S \ {s} : h[y] = x}
<1>1. IsFiniteSet(A) /\ Cardinality(A) \in Nat
  <2>1. A \subseteq S
    OBVIOUS
  <2> HIDE DEF A
  <2>2. QED
    BY <2>1, FS_Subset, FS_CardinalityType
<1>2. B = IF h[s] = x THEN A \ {s} ELSE A
  OBVIOUS
<1>3. h[s] = x => s \in A
  OBVIOUS
<1> HIDE DEF A, B
<1>4. h[s] = x => Cardinality(A \ {s}) = Cardinality(A) - 1
  BY <1>1, <1>3, FS_RemoveElement
<1>5. /\ h[s] = x => Cardinality(B) = Cardinality(A) - 1
      /\ h[s] # x => Cardinality(B) = Cardinality(A)
  BY <1>1, <1>2, <1>4
<1>6. QED
  BY <1>1, <1>5 DEF A, B, Cuantos

LEMMA ParQuitado ==
  ASSUME NEW X, IsFiniteSet(X), NEW a \in X, NEW Y, IsFiniteSet(Y), NEW b \in Y,
         NEW f, NEW g, g[b] = f[a], NEW x, Cuantos(X, f, x) <= Cuantos(Y, g, x)
  PROVE  Cuantos(X \ {a}, f, x) <= Cuantos(Y \ {b}, g, x)
<1>1. /\ Cuantos(X, f, x) \in Nat
      /\ f[a] = x => Cuantos(X \ {a}, f, x) = Cuantos(X, f, x) - 1
      /\ f[a] # x => Cuantos(X \ {a}, f, x) = Cuantos(X, f, x)
  BY EtiquetaQuitada
<1>2. /\ Cuantos(Y, g, x) \in Nat
      /\ g[b] = x => Cuantos(Y \ {b}, g, x) = Cuantos(Y, g, x) - 1
      /\ g[b] # x => Cuantos(Y \ {b}, g, x) = Cuantos(Y, g, x)
  BY EtiquetaQuitada
<1>3. QED
  BY <1>1, <1>2

LEMMA MenosVeces ==
  ASSUME NEW A, IsFiniteSet(A), NEW B, IsFiniteSet(B), NEW f, NEW g,
         \A x : Cuantos(A, f, x) <= Cuantos(B, g, x)
  PROVE  Cardinality(A) <= Cardinality(B)
<1> DEFINE T == {n \in Nat : \A X \in SUBSET A, Y \in SUBSET B :
                   Cardinality(X) = n /\ (\A x : Cuantos(X, f, x) <= Cuantos(Y, g, x)) => n <= Cardinality(Y)}
<1>1. \A X \in SUBSET A : IsFiniteSet(X) /\ Cardinality(X) \in Nat
  BY FS_Subset, FS_CardinalityType
<1>2. \A Y \in SUBSET B : IsFiniteSet(Y) /\ Cardinality(Y) \in Nat
  BY FS_Subset, FS_CardinalityType
<1>3. 0 \in T
    <2>1. \A Y \in SUBSET B : 0 <= Cardinality(Y)
    BY <1>2
  <2>2. QED
    BY <2>1
<1>4. ASSUME NEW n \in T PROVE n + 1 \in T
  <2> SUFFICES ASSUME NEW X \in SUBSET A, NEW Y \in SUBSET B, Cardinality(X) = n + 1,
                      \A x : Cuantos(X, f, x) <= Cuantos(Y, g, x)
               PROVE  n + 1 <= Cardinality(Y)
        <3>1. QED
      OBVIOUS
  <2>1. n \in Nat /\ IsFiniteSet(X) /\ IsFiniteSet(Y) /\ Cardinality(Y) \in Nat
    BY <1>1, <1>2
  <2>2. X # {}
    BY <2>1, FS_EmptySet
  <2>3. PICK a \in X : TRUE
    BY <2>2
  <2>4. Cuantos(X, f, f[a]) \in Nat /\ Cuantos(X \ {a}, f, f[a]) = Cuantos(X, f, f[a]) - 1
    BY <2>1, <2>3, EtiquetaQuitada
  <2>5. Cuantos(X \ {a}, f, f[a]) \in Nat
    <3>1. {y \in X \ {a} : f[y] = f[a]} \in SUBSET A
      OBVIOUS
    <3>2. QED
      BY <1>1, <3>1 DEF Cuantos
  <2>6. PICK b \in Y : g[b] = f[a]
    <3>1. Cuantos(Y, g, f[a]) # 0
      <4>1. Cuantos(X, f, f[a]) <= Cuantos(Y, g, f[a])
        OBVIOUS
      <4>2. Cuantos(Y, g, f[a]) \in Nat
        <5>1. {y \in Y : g[y] = f[a]} \in SUBSET B
          OBVIOUS
        <5>2. QED
          BY <1>2, <5>1 DEF Cuantos
            <4>3. QED
        BY <2>4, <2>5, <4>1, <4>2
    <3>2. {y \in Y : g[y] = f[a]} # {}
      BY <3>1, FS_EmptySet DEF Cuantos
    <3>3. QED
      BY <3>2
  <2>7. ASSUME NEW x PROVE Cuantos(X \ {a}, f, x) <= Cuantos(Y \ {b}, g, x)
    <3>1. Cuantos(X, f, x) <= Cuantos(Y, g, x)
      OBVIOUS
    <3>2. QED
      BY <2>1, <2>3, <2>6, <3>1, ParQuitado
  <2>8. Cardinality(X \ {a}) = n /\ Cardinality(Y \ {b}) = Cardinality(Y) - 1
    <3>1. Cardinality(X \ {a}) = Cardinality(X) - 1 /\ Cardinality(Y \ {b}) = Cardinality(Y) - 1
      BY <2>1, FS_RemoveElement
    <3>2. QED
      BY <2>1, <3>1
  <2>9. n <= Cardinality(Y \ {b})
    <3>1. X \ {a} \in SUBSET A /\ Y \ {b} \in SUBSET B
      OBVIOUS
        <3>2. QED
      BY <1>4, <2>7, <2>8, <3>1
  <2>10. QED
    BY <2>1, <2>8, <2>9
<1>5. T = Nat
  <2>1. T \in SUBSET Nat
    OBVIOUS
  <2> HIDE DEF T
  <2>2. QED
    BY <1>3, <1>4, <2>1, InduccionNatural
<1>6. Cardinality(A) \in T
  BY <1>1, <1>5
<1>7. QED
  BY <1>6

-----------------------------------------------------------------------------
(* What n_heredar reads of the index.                                      *)

LEMMA ValoresSon ==
  ASSUME IInv, NEW c \in Nat, NEW k \in Nat
  PROVE  /\ Valores(sp, <<c, k>>) \in Seq(Nat)
         /\ \A o : Contains(Valores(sp, <<c, k>>), o) <=> Contains(triples, <<c, k, o>>)
         /\ \A o : Contains(triples, <<c, k, o>>) => o \in Ids
<1> DEFINE v == Valores(sp, <<c, k>>)
<1>1. v \in Seq(Nat) /\ triples \in Seq(Triple)
  BY ValoresEnSeq DEF IInv, TiposDelGrafo, Contenido, Indexados
<1>2. ASSUME NEW o, Contains(triples, <<c, k, o>>) PROVE o \in Ids /\ o \in Nat
  <2> DEFINE t == <<c, k, o>>
  <2>1. t \in ToSet(triples) /\ t \in Triple
    <3>1. PICK i \in 1 .. Len(triples) : triples[i] = t
      BY <1>2 DEF Contains
    <3>2. i \in DOMAIN triples
      BY <1>1
    <3> HIDE DEF t
    <3>3. QED
      BY <1>1, <3>1, <3>2 DEF ToSet
  <2>2. t[3] = o
    OBVIOUS
  <2> HIDE DEF t
  <2>3. o \in Ids
    BY <2>1, <2>2 DEF Ids
  <2>4. o \in Nat
    BY <2>1, <2>2, TriplePartes
  <2>5. QED
    BY <2>3, <2>4
<1>3. ASSUME NEW o, Contains(v, o) PROVE o \in Nat
  <2> HIDE DEF v
  <2>1. QED
    BY <1>1, <1>3 DEF Contains
<1>4. ASSUME NEW o \in Nat PROVE Contains(v, o) <=> Contains(triples, <<c, k, o>>)
  <2>1. Veces(v, o) = Veces(triples, <<c, k, o>>)
    BY DEF IInv, Indexados
  <2>2. Veces(v, o) > 0 <=> Contains(v, o)
    BY <1>1, VecesNatural
  <2>3. Veces(triples, <<c, k, o>>) > 0 <=> Contains(triples, <<c, k, o>>)
    BY <1>1, VecesNatural
  <2>4. QED
    BY <2>1, <2>2, <2>3
<1> HIDE DEF v
<1>5. QED
  BY <1>1, <1>2, <1>3, <1>4 DEF v

LEMMA SinObjetoNulo ==
  ASSUME SinLimites, NEW c, NEW k, NEW o, Contains(triples, <<c, k, o>>)
  PROVE  o # NGF_ID_NULO
<1> DEFINE t == <<c, k, o>>
<1>1. t \in ToSet(triples)
  <2>1. PICK i \in 1 .. Len(triples) : triples[i] = t
    BY DEF Contains
  <2>2. Len(triples) \in Nat => i \in DOMAIN triples
    OBVIOUS
  <2>3. QED
    BY <2>1, <2>2 DEF ToSet
<1>2. t[3] = o
  OBVIOUS
<1> HIDE DEF t
<1>3. QED
  BY <1>1, <1>2 DEF SinLimites

LEMMA ObjetoSon ==
  ASSUME IInv, SinLimites, NEW c \in Ids \ {NGF_ID_NULO}, NEW p \in Ids \ {NGF_ID_NULO}
  PROVE  /\ Objeto(c, p) \in Ids
         /\ Objeto(c, p) # NGF_ID_NULO => Contains(triples, <<c, p, Objeto(c, p)>>)
         /\ Objeto(c, p) = NGF_ID_NULO => \A o : ~Contains(triples, <<c, p, o>>)
<1> DEFINE v == Valores(sp, <<c, p>>)
<1>1. Len(vocab) \in Nat /\ c \in Nat /\ p \in Nat
  BY IdsNaturales DEF IInv, TiposDelGrafo, Contenido
<1>2. /\ v \in Seq(Nat) /\ \A o : Contains(v, o) <=> Contains(triples, <<c, p, o>>)
      /\ \A o : Contains(triples, <<c, p, o>>) => o \in Ids
  BY <1>1, ValoresSon
<1> HIDE DEF v
<1>3. CASE v = <<>>
  <2>1. Objeto(c, p) = NGF_ID_NULO
    BY <1>3 DEF Objeto, v
  <2>2. \A o : ~Contains(v, o)
    BY <1>3 DEF Contains
  <2>3. QED
    BY <1>1, <1>2, <2>1, <2>2 DEF Ids, NGF_ID_NULO
<1>4. CASE v # <<>>
  <2>1. Objeto(c, p) = v[1]
    BY <1>4 DEF Objeto, v
  <2>2. Contains(v, v[1])
    <3>1. 1 \in 1 .. Len(v)
      BY <1>2, <1>4
    <3>2. QED
      BY <3>1 DEF Contains
  <2>3. v[1] # NGF_ID_NULO
    BY <1>2, <2>2, SinObjetoNulo
  <2>4. QED
    BY <1>2, <2>1, <2>2, <2>3
<1>5. QED
  BY <1>3, <1>4

\* The triples that give the concepts of V their types.
TriplesDe(V) == {i \in DOMAIN triples : triples[i][1] \in V /\ triples[i][2] = Id(vocab, EsUn)}

LEMMA TamanoDeIntervalo ==
  ASSUME NEW n \in Nat
  PROVE  IsFiniteSet(1 .. n) /\ Cardinality(1 .. n) = n
<1>1. Cardinality(1 .. n) = IF 1 > n THEN 0 ELSE n - 1 + 1
  BY FS_Interval
<1>2. QED
  BY <1>1, FS_Interval

LEMMA TriplesDeFinitos ==
  ASSUME IInv, NEW V
  PROVE  /\ IsFiniteSet(TriplesDe(V)) /\ Cardinality(TriplesDe(V)) \in Nat
         /\ Cardinality(TriplesDe(V)) <= Len(triples)
<1>1. DOMAIN triples = 1 .. Len(triples) /\ Len(triples) \in Nat
  BY DEF IInv, TiposDelGrafo, Contenido
<1>2. IsFiniteSet(1 .. Len(triples)) /\ Cardinality(1 .. Len(triples)) = Len(triples)
  BY <1>1, TamanoDeIntervalo
<1>3. TriplesDe(V) \subseteq 1 .. Len(triples)
  BY <1>1 DEF TriplesDe
<1>4. QED
  BY <1>2, <1>3, FS_Subset, FS_CardinalityType

LEMMA TriplesDeUnoMas ==
  ASSUME IInv, NEW V, NEW c, c \notin V
  PROVE  Cardinality(TriplesDe(V \cup {c})) = Cardinality(TriplesDe(V)) + Cardinality(TriplesDe({c}))
<1>1. TriplesDe(V \cup {c}) = TriplesDe(V) \cup TriplesDe({c}) /\ TriplesDe(V) \cap TriplesDe({c}) = {}
  BY DEF TriplesDe
<1>2. /\ IsFiniteSet(TriplesDe(V)) /\ IsFiniteSet(TriplesDe({c}))
      /\ Cardinality(TriplesDe(V)) \in Nat /\ Cardinality(TriplesDe({c})) \in Nat
  BY TriplesDeFinitos
<1>3. Cardinality(TriplesDe(V) \cup TriplesDe({c})) = Cardinality(TriplesDe(V))
        + Cardinality(TriplesDe({c})) - Cardinality(TriplesDe(V) \cap TriplesDe({c}))
  BY <1>2, FS_Union
<1>4. Cardinality(TriplesDe(V) \cap TriplesDe({c})) = 0
  BY <1>1, FS_EmptySet
<1>5. TriplesDe(V \cup {c}) = TriplesDe(V) \cup TriplesDe({c})
  BY <1>1
<1> DEFINE a == Cardinality(TriplesDe(V))  b == Cardinality(TriplesDe({c}))
<1>6. a \in Nat /\ b \in Nat /\ Cardinality(TriplesDe(V) \cup TriplesDe({c})) = a + b
  <2>1. a \in Nat /\ b \in Nat /\ Cardinality(TriplesDe(V) \cup TriplesDe({c})) = a + b - 0
    BY <1>2, <1>3, <1>4
  <2> HIDE DEF a, b
  <2>2. QED
    BY <2>1
<1>7. QED
  BY <1>5, <1>6

\* The object o is a type of c.
EsTipo(c, o) == Id(vocab, EsUn) # NGF_ID_NULO /\ Contains(triples, <<c, Id(vocab, EsUn), o>>)

LEMMA TiposSon ==
  ASSUME IInv, SinLimites, NEW c \in Ids \ {NGF_ID_NULO},
         Len(Valores(sp, <<c, Id(vocab, EsUn)>>)) <= TiposMax
  PROVE  /\ Tipos(c) \in Seq(Nat)
         /\ \A o : Contains(Tipos(c), o) <=> EsTipo(c, o)
         /\ \A o : EsTipo(c, o) => o \in Ids \ {NGF_ID_NULO}
         /\ Len(Tipos(c)) <= Cardinality(TriplesDe({c}))
<1> DEFINE u == Id(vocab, EsUn)
           v == Valores(sp, <<c, u>>)
           B == TriplesDe({c})
<1>1. c \in Nat /\ u \in Nat /\ triples \in Seq(Triple)
  BY IdEnRango, IdsNaturales DEF IInv, TiposDelGrafo, Contenido
<1>2. /\ v \in Seq(Nat) /\ \A o : Contains(v, o) <=> Contains(triples, <<c, u, o>>)
      /\ \A o : Contains(triples, <<c, u, o>>) => o \in Ids
  <2> HIDE DEF u
  <2>1. QED
    BY <1>1, ValoresSon
<1>3. \A o : EsTipo(c, o) <=> u # NGF_ID_NULO /\ Contains(triples, <<c, u, o>>)
  BY DEF EsTipo
<1>4. \A o : EsTipo(c, o) => o \in Ids \ {NGF_ID_NULO}
  <2> HIDE DEF u, v
  <2>1. QED
    BY <1>2, <1>3, SinObjetoNulo
<1>5. CASE u = NGF_ID_NULO
  <2>1. Tipos(c) = <<>>
    BY <1>5 DEF Tipos
  <2>2. \A o : ~Contains(<<>>, o)
    BY DEF Contains
  <2>3. Cardinality(B) \in Nat
    BY TriplesDeFinitos
  <2> HIDE DEF u, v, B
  <2>4. Len(Tipos(c)) <= Cardinality(B)
    BY <2>1, <2>3
  <2>5. QED
    BY <1>3, <1>4, <1>5, <2>1, <2>2, <2>4 DEF B
<1>6. CASE u # NGF_ID_NULO
  <2>1. Tipos(c) = v
    <3>1. Len(v) <= TiposMax /\ Len(v) \in Nat /\ TiposMax \in Nat
      BY <1>2, NGrafoAssumption
    <3>2. Tipos(c) = SubSeq(v, 1, IF Len(v) < TiposMax THEN Len(v) ELSE TiposMax)
      BY <1>6 DEF Tipos
    <3> HIDE DEF v
    <3>3. (IF Len(v) < TiposMax THEN Len(v) ELSE TiposMax) = Len(v)
      BY <3>1
    <3>4. SubSeq(v, 1, Len(v)) = v
      BY <1>2
    <3>5. QED
      BY <3>2, <3>3, <3>4
  <2>2. Len(v) <= Cardinality(B)
    <3> DEFINE A == 1 .. Len(v)
               g == [i \in DOMAIN triples |-> triples[i][3]]
    <3>1. IsFiniteSet(A) /\ Cardinality(A) = Len(v)
      <4>1. Len(v) \in Nat
        BY <1>2
      <4> HIDE DEF v
      <4>2. QED
        BY <4>1, TamanoDeIntervalo
    <3>2. IsFiniteSet(B)
      BY TriplesDeFinitos
    <3>3. ASSUME NEW x PROVE Cuantos(A, v, x) <= Cuantos(B, g, x)
      <4>1. Cuantos(A, v, x) = Veces(v, x)
        <5>1. DOMAIN v = A
          BY <1>2
        <5>2. QED
          BY <5>1 DEF Cuantos, Veces
      <4>2. CASE x \in Nat
        <5>1. Veces(v, x) = Veces(triples, <<c, u, x>>)
          BY <1>1, <4>2 DEF IInv, Indexados
        <5>2. {i \in DOMAIN triples : triples[i] = <<c, u, x>>} = {i \in B : g[i] = x}
          <6>1. \A i \in DOMAIN triples : triples[i] \in Triple
            BY <1>1
          <6>2. \A i \in DOMAIN triples : triples[i] = <<c, u, x>> <=>
                  triples[i][1] = c /\ triples[i][2] = u /\ triples[i][3] = x
            BY <1>1, <4>2, <6>1, TriplePartes
          <6>3. \A i \in DOMAIN triples : i \in B <=> triples[i][1] = c /\ triples[i][2] = u
            BY DEF TriplesDe
          <6>4. B \subseteq DOMAIN triples
            BY DEF TriplesDe
          <6> HIDE DEF B, u
          <6>5. QED
            BY <6>2, <6>3, <6>4
        <5>3. Veces(triples, <<c, u, x>>) \in Nat
          BY <1>1, VecesNatural
        <5>4. Veces(triples, <<c, u, x>>) = Cuantos(B, g, x)
          BY <5>2 DEF Cuantos, Veces
        <5> HIDE DEF B, u, v, g
        <5>5. QED
          BY <4>1, <5>1, <5>3, <5>4
      <4>3. CASE x \notin Nat
        <5>1. ~Contains(v, x)
          <6> HIDE DEF v
          <6>1. QED
            BY <1>2, <4>3 DEF Contains
        <5>2. Veces(v, x) \in Nat /\ ~(Veces(v, x) > 0)
          <6> HIDE DEF v
          <6>1. QED
            BY <1>2, <5>1, VecesNatural
        <5>3. Cuantos(B, g, x) \in Nat
          <6>1. {i \in B : g[i] = x} \subseteq B
            OBVIOUS
          <6>2. QED
            BY <3>2, <6>1, FS_Subset, FS_CardinalityType DEF Cuantos
        <5> HIDE DEF v, g, B
        <5>4. QED
          BY <4>1, <5>2, <5>3
      <4>4. QED
        BY <4>2, <4>3
    <3> HIDE DEF A, B, g, v
    <3>4. Cardinality(A) <= Cardinality(B)
      BY <3>1, <3>2, <3>3, MenosVeces
    <3>5. QED
      BY <3>1, <3>4
  <2> HIDE DEF u, v, B
  <2>3. Len(Tipos(c)) <= Cardinality(B)
    BY <2>1, <2>2
  <2>4. QED
    BY <1>2, <1>3, <1>4, <1>6, <2>1, <2>3 DEF B
<1>7. QED
  BY <1>5, <1>6

LEMMA CerradoSon ==
  ASSUME IInv, NEW S \in SUBSET Ids
  PROVE  S \in Cerrados <=> \A c \in S, o \in Ids : EsTipo(c, o) => o \in S
<1> DEFINE u == Id(vocab, EsUn)
<1>1. triples \in Seq(Triple) /\ DOMAIN triples = 1 .. Len(triples) /\ u \in Nat
  BY IdEnRango DEF IInv, TiposDelGrafo, Contenido
<1>2. \A t \in ToSet(triples) : t \in Triple
  BY <1>1 DEF ToSet
<1>3. S \subseteq Nat /\ Ids \subseteq Nat
  BY IdsNaturales
<1>4. ASSUME NEW c \in Nat, NEW o \in Nat
      PROVE  EsTipo(c, o) <=> \E t \in ToSet(triples) : DeTipo(t) /\ t[1] = c /\ t[3] = o
  <2>1. \A t \in ToSet(triples) : t = <<c, u, o>> <=> t[1] = c /\ t[2] = u /\ t[3] = o
    BY <1>1, <1>2, TriplePartes
  <2>2. Contains(triples, <<c, u, o>>) <=> <<c, u, o>> \in ToSet(triples)
    BY <1>1 DEF Contains, ToSet
  <2>3. EsTipo(c, o) <=> u # NGF_ID_NULO /\ Contains(triples, <<c, u, o>>)
    BY DEF EsTipo
  <2>4. \A t : DeTipo(t) <=> t[2] = u /\ u # NGF_ID_NULO
    BY DEF DeTipo
  <2> HIDE DEF u
  <2>5. QED
    BY <2>1, <2>2, <2>3, <2>4
<1>5. \A t \in ToSet(triples) : t[1] \in Nat /\ t[3] \in Nat /\ t[3] \in Ids
  BY <1>2, TriplePartes DEF Ids
<1>6. S \in Cerrados <=> \A t \in ToSet(triples) : DeTipo(t) /\ t[1] \in S => t[3] \in S
  BY DEF Cerrados
<1> HIDE DEF u
<1>7. QED
  BY <1>3, <1>4, <1>5, <1>6

LEMMA AntepasadosSon ==
  ASSUME IInv, SinLimites, NEW s \in Ids \ {NGF_ID_NULO},
         \A c \in Ids \ {NGF_ID_NULO} : \A o : EsTipo(c, o) => o \in Ids \ {NGF_ID_NULO}
  PROVE  /\ s \in Antepasados(s) /\ Antepasados(s) \subseteq Ids \ {NGF_ID_NULO}
         /\ \A c \in Antepasados(s) : \A o : EsTipo(c, o) => o \in Antepasados(s)
         /\ \A S \in SUBSET Ids :
              s \in S /\ (\A c \in S, o \in Ids : EsTipo(c, o) => o \in S) => Antepasados(s) \subseteq S
<1> DEFINE C(S) == s \in S /\ (\A c \in S, o \in Ids : EsTipo(c, o) => o \in S)
<1>1. \A x : x \in Antepasados(s) <=> x \in Ids /\ \A S \in SUBSET Ids : C(S) => x \in S
  <2>1. \A S \in SUBSET Ids : C(S) <=> S \in Cerrados /\ s \in S
    BY CerradoSon
  <2>2. Cerrados \subseteq SUBSET Ids
    BY DEF Cerrados
  <2> HIDE DEF C
  <2>3. QED
    BY <2>1, <2>2 DEF Antepasados
<1>2. \A S \in SUBSET Ids : C(S) => Antepasados(s) \subseteq S
  <2> HIDE DEF C
  <2>1. QED
    BY <1>1
<1>3. C(Ids \ {NGF_ID_NULO})
  OBVIOUS
<1>4. s \in Antepasados(s)
  BY <1>1
<1>5. Antepasados(s) \subseteq Ids \ {NGF_ID_NULO}
  <2> HIDE DEF C
  <2>1. Ids \ {NGF_ID_NULO} \in SUBSET Ids
    OBVIOUS
  <2>2. QED
    BY <1>2, <1>3, <2>1
<1>6. ASSUME NEW c \in Antepasados(s), NEW o, EsTipo(c, o) PROVE o \in Antepasados(s)
  <2>1. o \in Ids
    BY <1>5, <1>6
  <2>2. ASSUME NEW S \in SUBSET Ids, C(S) PROVE o \in S
    <3>1. c \in S
      BY <1>1, <2>2
    <3>2. QED
      BY <1>6, <2>1, <2>2, <3>1
  <2> HIDE DEF C
  <2>3. QED
    BY <1>1, <2>1, <2>2
<1>7. QED
  BY <1>2, <1>4, <1>5, <1>6

-----------------------------------------------------------------------------
(* The loop of n_heredar, while nothing of it is full.                     *)

\* After n turns: the queue holds concepts of the chain, one for s and at most one for each
\* triple that gives a visited concept a type; those taken from it are the visited ones, none
\* of which has an object or a type that is in neither.
Buena(st, n, s, p) ==
  /\ st \in Estados
  /\ 1 <= Len(st.cola) /\ st.cola[1] = s
  /\ st.fuera \in 1 .. Len(st.cola) + 1
  /\ st.visitado = {st.cola[i] : i \in 1 .. st.fuera - 1}
  /\ \A i \in 1 .. Len(st.cola) : st.cola[i] \in Antepasados(s)
  /\ Len(st.cola) <= 1 + Cardinality(TriplesDe(st.visitado))
  /\ st.o # NGF_ID_NULO => \E c \in Antepasados(s) : st.o = Objeto(c, p)
  /\ st.o = NGF_ID_NULO =>
       /\ st.fuera = n + 1 \/ st.fuera = Len(st.cola) + 1
       /\ \A c \in st.visitado :
            Objeto(c, p) = NGF_ID_NULO /\ \A o : EsTipo(c, o) => o \in st.visitado \/ Contains(st.cola, o)

LEMMA ConceptosDeLaCadena ==
  ASSUME IInv, SinLimites, NEW s \in Ids \ {NGF_ID_NULO}
  PROVE  /\ s \in Antepasados(s) /\ Antepasados(s) \subseteq Ids \ {NGF_ID_NULO}
         /\ \A c \in Antepasados(s) : \A o : EsTipo(c, o) => o \in Antepasados(s)
         /\ \A S \in SUBSET Ids :
              s \in S /\ (\A c \in S, o \in Ids : EsTipo(c, o) => o \in S) => Antepasados(s) \subseteq S
         /\ \A c \in Antepasados(s) :
              /\ Tipos(c) \in Seq(Nat)
              /\ \A o : Contains(Tipos(c), o) <=> EsTipo(c, o)
              /\ Len(Tipos(c)) <= Cardinality(TriplesDe({c}))
<1>1. ASSUME NEW c \in Ids \ {NGF_ID_NULO}
      PROVE  /\ Tipos(c) \in Seq(Nat)
             /\ \A o : Contains(Tipos(c), o) <=> EsTipo(c, o)
             /\ \A o : EsTipo(c, o) => o \in Ids \ {NGF_ID_NULO}
             /\ Len(Tipos(c)) <= Cardinality(TriplesDe({c}))
  <2>1. Len(Valores(sp, <<c, Id(vocab, EsUn)>>)) <= TiposMax
    BY DEF SinLimites
  <2>2. QED
    BY <2>1, TiposSon
<1>2. \A c \in Ids \ {NGF_ID_NULO} : \A o : EsTipo(c, o) => o \in Ids \ {NGF_ID_NULO}
  BY <1>1
<1>3. /\ s \in Antepasados(s) /\ Antepasados(s) \subseteq Ids \ {NGF_ID_NULO}
      /\ \A c \in Antepasados(s) : \A o : EsTipo(c, o) => o \in Antepasados(s)
      /\ \A S \in SUBSET Ids :
           s \in S /\ (\A c \in S, o \in Ids : EsTipo(c, o) => o \in S) => Antepasados(s) \subseteq S
  BY <1>2, AntepasadosSon
<1>4. QED
  BY <1>1, <1>3

LEMMA VueltaBuena ==
  ASSUME IInv, SinLimites,
         NEW s \in Ids \ {NGF_ID_NULO}, NEW p \in Ids \ {NGF_ID_NULO},
         NEW n \in Nat, NEW st, Buena(st, n, s, p)
  PROVE  Buena(Vuelta(p, st), n + 1, s, p)
<1> DEFINE q == st.cola
           k == st.fuera
           c == st.cola[k]
           sig == [st EXCEPT !.fuera = @ + 1]
           vist == [sig EXCEPT !.visitado = @ \cup {c}]
<1>1. /\ q \in Seq(Nat) /\ Len(q) \in Nat /\ k \in Nat /\ st.visitado \in SUBSET Nat /\ st.o \in Nat
      /\ st = [cola |-> q, fuera |-> k, visitado |-> st.visitado, o |-> st.o]
  BY DEF Buena, Estados
<1>2. /\ 1 <= Len(q) /\ q[1] = s /\ k \in 1 .. Len(q) + 1
      /\ st.visitado = {q[i] : i \in 1 .. k - 1}
      /\ \A i \in 1 .. Len(q) : q[i] \in Antepasados(s)
      /\ Len(q) <= 1 + Cardinality(TriplesDe(st.visitado))
  BY DEF Buena
<1>3. CASE k > Len(q) \/ st.o # NGF_ID_NULO
  <2>1. Vuelta(p, st) = st
    BY <1>3 DEF Vuelta
  <2>2. st.o = NGF_ID_NULO => k = Len(q) + 1
    BY <1>1, <1>2, <1>3
  <2>3. Buena(st, n + 1, s, p)
    BY <2>2 DEF Buena
  <2>4. QED
    BY <2>1, <2>3
<1>4. CASE ~(k > Len(q) \/ st.o # NGF_ID_NULO)
  <2>1. /\ st.o = NGF_ID_NULO /\ k \in 1 .. Len(q) /\ c \in Antepasados(s) /\ c \in Nat
        /\ k + 1 \in 1 .. Len(q) + 1 /\ (k + 1) - 1 = k
    <3>1. st.o = NGF_ID_NULO /\ ~(k > Len(q))
      BY <1>4
    <3> HIDE DEF q, k
    <3>2. k \in 1 .. Len(q) /\ k + 1 \in 1 .. Len(q) + 1 /\ (k + 1) - 1 = k
      BY <1>1, <1>2, <3>1, SMTT(20)
    <3>3. c \in Antepasados(s) /\ c \in Nat
      BY <1>1, <1>2, <3>2
    <3>4. QED
      BY <3>1, <3>2, <3>3
  <2>2. \A d \in st.visitado :
          Objeto(d, p) = NGF_ID_NULO /\ \A o : EsTipo(d, o) => o \in st.visitado \/ Contains(q, o)
    BY <2>1 DEF Buena
  <2>3. k = n + 1
    BY <1>1, <2>1 DEF Buena
  <2>4. sig = [cola |-> q, fuera |-> k + 1, visitado |-> st.visitado, o |-> st.o] /\ sig \in Estados
    BY <1>1 DEF Estados
  <2>5. {q[i] : i \in 1 .. k} = st.visitado \cup {c}
    <3>1. 1 .. k = (1 .. k - 1) \cup {k}
      BY <1>1, <2>1
    <3> HIDE DEF q, k
    <3>2. {q[i] : i \in 1 .. k} = {q[i] : i \in 1 .. k - 1} \cup {q[k]}
      BY <3>1
    <3>3. QED
      BY <1>2, <3>2 DEF q, k
  <2>6. CASE c \in st.visitado
    <3>1. Vuelta(p, st) = sig
      BY <1>4, <2>6 DEF Vuelta
    <3>2. {q[i] : i \in 1 .. k} = st.visitado
      BY <2>5, <2>6
    <3> HIDE DEF sig, q, k, c
    <3>3. Buena(sig, n + 1, s, p)
      BY <1>2, <2>1, <2>2, <2>3, <2>4, <3>2, ZenonT(40) DEF Buena
    <3>4. QED
      BY <3>1, <3>3
  <2>7. CASE c \notin st.visitado
    <3>1. /\ vist = [cola |-> q, fuera |-> k + 1, visitado |-> st.visitado \cup {c}, o |-> st.o]
          /\ vist \in Estados
      <4> HIDE DEF sig, q, k, c
      <4>1. vist = [cola |-> q, fuera |-> k + 1, visitado |-> st.visitado \cup {c}, o |-> st.o]
        BY <2>4
      <4>2. st.visitado \cup {c} \in SUBSET Nat /\ k + 1 \in Nat
        BY <1>1, <2>1
      <4> HIDE DEF vist
      <4>3. vist \in Estados
        BY <1>1, <4>1, <4>2 DEF Estados
      <4>4. QED
        BY <4>1, <4>3
    <3>2. c \in Ids \ {NGF_ID_NULO}
      BY <2>1, ConceptosDeLaCadena
    <3>3. /\ Cardinality(TriplesDe(st.visitado \cup {c})) =
               Cardinality(TriplesDe(st.visitado)) + Cardinality(TriplesDe({c}))
          /\ Cardinality(TriplesDe(st.visitado)) \in Nat /\ Cardinality(TriplesDe({c})) \in Nat
          /\ Cardinality(TriplesDe(st.visitado \cup {c})) <= Len(triples)
      BY <2>7, TriplesDeUnoMas, TriplesDeFinitos
    <3>4. CASE Objeto(c, p) # NGF_ID_NULO
      <4> DEFINE r == [vist EXCEPT !.o = Objeto(c, p)]
      <4>1. Vuelta(p, st) = r
        BY <1>4, <2>7, <3>4 DEF Vuelta
      <4>2. Objeto(c, p) \in Nat
        <5>1. Objeto(c, p) \in Ids
          BY <3>2, ObjetoSon
        <5>2. QED
          BY <5>1, IdsNaturales
      <4>3. /\ r = [cola |-> q, fuera |-> k + 1, visitado |-> st.visitado \cup {c}, o |-> Objeto(c, p)]
            /\ r \in Estados
        <5> HIDE DEF sig, vist, q, k, c
        <5>1. r = [cola |-> q, fuera |-> k + 1, visitado |-> st.visitado \cup {c}, o |-> Objeto(c, p)]
          BY <3>1
        <5>2. st.visitado \cup {c} \in SUBSET Nat /\ k + 1 \in Nat
          BY <1>1, <2>1
        <5> HIDE DEF r
        <5>3. r \in Estados
          BY <1>1, <4>2, <5>1, <5>2 DEF Estados
        <5>4. QED
          BY <5>1, <5>3
      <4> HIDE DEF r, vist, sig, q, k, c
      <4>4. Len(q) <= 1 + Cardinality(TriplesDe(st.visitado \cup {c}))
        BY <1>1, <1>2, <3>3
      <4>5. Buena(r, n + 1, s, p)
        <5>1. /\ r.cola = q /\ r.fuera = k + 1 /\ r.visitado = st.visitado \cup {c} /\ r.o = Objeto(c, p)
              /\ r \in Estados
          BY <4>3
        <5>2. \E d \in Antepasados(s) : r.o = Objeto(d, p)
          BY <2>1, <5>1
        <5>3. r.visitado = {r.cola[i] : i \in 1 .. r.fuera - 1}
          BY <2>1, <2>5, <5>1
        <5>4. r.o # NGF_ID_NULO
          BY <3>4, <5>1
        <5>5. /\ 1 <= Len(r.cola) /\ r.cola[1] = s /\ r.fuera \in 1 .. Len(r.cola) + 1
              /\ \A i \in 1 .. Len(r.cola) : r.cola[i] \in Antepasados(s)
              /\ Len(r.cola) <= 1 + Cardinality(TriplesDe(r.visitado))
          BY <1>2, <2>1, <4>4, <5>1
        <5>6. QED
          BY <5>1, <5>2, <5>3, <5>4, <5>5 DEF Buena
      <4>6. QED
        BY <4>1, <4>5
    <3>5. CASE Objeto(c, p) = NGF_ID_NULO
      <4> DEFINE ts == Tipos(c)
                 r  == Encolados(vist, ts)
      <4>1. Vuelta(p, st) = r
        BY <1>4, <2>7, <3>5 DEF Vuelta
      <4>2. /\ ts \in Seq(Nat) /\ Len(ts) <= Cardinality(TriplesDe({c}))
            /\ \A o : Contains(ts, o) <=> EsTipo(c, o)
        BY <2>1, ConceptosDeLaCadena, ZenonT(40)
      <4> HIDE DEF ts
      <4>3. Len(ts) \in Nat /\ Len(q) + Len(ts) <= 1 + Cardinality(TriplesDe(st.visitado \cup {c}))
        <5>1. Len(ts) \in Nat
          BY <4>2
        <5> HIDE DEF q, c
        <5>2. QED
          BY <1>1, <1>2, <3>3, <4>2, <5>1
      <4>4. Len(vist.cola) + Len(ts) <= HeredarMax
        <5>1. vist.cola = q
          BY <3>1
        <5>2. Len(triples) < HeredarMax /\ HeredarMax \in Nat /\ Len(triples) \in Nat
          BY NGrafoAssumption DEF SinLimites, IInv, TiposDelGrafo, Contenido
        <5>3. Cardinality(TriplesDe(st.visitado \cup {c})) \in Nat
          BY <3>3
        <5> HIDE DEF q, c, vist
        <5>4. QED
          BY <1>1, <3>3, <4>3, <5>1, <5>2, <5>3
      <4>5. vist.cola = q /\ vist.visitado = st.visitado \cup {c}
        BY <3>1
      <4> HIDE DEF r, vist, sig, q, k, c
      <4>6. PICK w \in Seq(Nat) :
              /\ Encolados(vist, ts) = [vist EXCEPT !.cola = w]
              /\ Len(q) <= Len(w) /\ Len(w) <= Len(q) + Len(ts)
              /\ \A i \in 1 .. Len(q) : w[i] = q[i]
              /\ \A i \in 1 .. Len(w) : i > Len(q) => Contains(ts, w[i])
              /\ \A j \in 1 .. Len(ts) : ts[j] \in st.visitado \cup {c} \/ Contains(w, ts[j])
        <5>1. \E w \in Seq(Nat) :
                /\ Encolados(vist, ts) = [vist EXCEPT !.cola = w]
                /\ Len(vist.cola) <= Len(w) /\ Len(w) <= Len(vist.cola) + Len(ts)
                /\ \A i \in 1 .. Len(vist.cola) : w[i] = vist.cola[i]
                /\ \A i \in 1 .. Len(w) : i > Len(vist.cola) => Contains(ts, w[i])
                /\ \A j \in 1 .. Len(ts) : ts[j] \in vist.visitado \/ Contains(w, ts[j])
          BY <3>1, <4>2, <4>4, EncoladosSon
        <5>2. QED
          BY <4>5, <5>1
      <4>7. /\ r = [cola |-> w, fuera |-> k + 1, visitado |-> st.visitado \cup {c}, o |-> st.o]
            /\ r \in Estados /\ Len(w) \in Nat
        <5>1. r = [vist EXCEPT !.cola = w]
          BY <4>6 DEF r
        <5>2. r = [cola |-> w, fuera |-> k + 1, visitado |-> st.visitado \cup {c}, o |-> st.o]
          BY <3>1, <5>1
        <5>3. st.visitado \cup {c} \in SUBSET Nat /\ k + 1 \in Nat /\ w \in Seq(Nat)
          BY <1>1, <2>1
        <5>4. r \in Estados
          BY <1>1, <5>2, <5>3 DEF Estados
        <5>5. Len(w) \in Nat
          OBVIOUS
        <5>6. QED
          BY <5>2, <5>4, <5>5
      <4>8. 1 <= Len(w) /\ w[1] = s /\ k + 1 \in 1 .. Len(w) + 1
        <5>1. 1 \in 1 .. Len(q) /\ Len(q) <= Len(w)
          BY <1>1, <1>2, <4>6
        <5>2. w[1] = q[1]
          BY <4>6, <5>1
        <5>3. k + 1 \in 1 .. Len(w) + 1 /\ 1 <= Len(w)
          <6>1. Len(w) \in Nat
            OBVIOUS
          <6>2. k \in Nat /\ k <= Len(q) /\ 1 <= Len(q) /\ Len(q) \in Nat
            BY <1>1, <1>2, <2>1
          <6>3. QED
            BY <5>1, <6>1, <6>2
        <5>4. QED
          BY <1>2, <5>2, <5>3
      <4>9. {w[i] : i \in 1 .. k} = st.visitado \cup {c}
        <5>1. \A i \in 1 .. k : w[i] = q[i]
          <6>1. 1 .. k \subseteq 1 .. Len(q)
            BY <1>1, <2>1
          <6>2. QED
            BY <4>6, <6>1
        <5>2. QED
          BY <2>5, <5>1
      <4>10. ASSUME NEW i \in 1 .. Len(w) PROVE w[i] \in Antepasados(s)
        <5>1. CASE i \in 1 .. Len(q)
          BY <1>2, <4>6, <5>1
        <5>2. CASE i > Len(q)
          <6>1. EsTipo(c, w[i])
            BY <4>2, <4>6, <5>2
          <6>2. QED
            BY <2>1, <6>1, ConceptosDeLaCadena
        <5>3. QED
          BY <1>1, <5>1, <5>2
      <4>11. Len(w) <= 1 + Cardinality(TriplesDe(st.visitado \cup {c}))
        <5>1. Cardinality(TriplesDe(st.visitado \cup {c})) \in Nat
          BY <3>3
        <5>2. QED
          BY <1>1, <4>3, <4>6, <4>7, <5>1
      <4>12. ASSUME NEW d \in st.visitado \cup {c}
             PROVE  /\ Objeto(d, p) = NGF_ID_NULO
                    /\ \A o : EsTipo(d, o) => o \in st.visitado \cup {c} \/ Contains(w, o)
        <5>1. CASE d \in st.visitado
          <6>1. \A o : Contains(q, o) => Contains(w, o)
            <7> SUFFICES ASSUME NEW o, Contains(q, o) PROVE Contains(w, o)
              OBVIOUS
            <7>1. PICK i \in 1 .. Len(q) : q[i] = o
              BY DEF Contains
            <7>2. i \in 1 .. Len(w) /\ w[i] = o
              BY <1>1, <4>6, <4>7, <7>1, SMTT(20)
            <7>3. QED
              BY <7>2 DEF Contains
          <6>2. QED
            BY <2>2, <5>1, <6>1
        <5>2. CASE d = c
          <6>1. ASSUME NEW o, EsTipo(c, o) PROVE o \in st.visitado \cup {c} \/ Contains(w, o)
            <7>1. Contains(ts, o)
              BY <4>2, <6>1
            <7>2. PICK j \in 1 .. Len(ts) : ts[j] = o
              BY <7>1 DEF Contains
            <7>3. QED
              BY <4>6, <7>2
          <6>2. QED
            BY <3>5, <5>2, <6>1
        <5>3. QED
          BY <5>1, <5>2
      <4>13. Buena(r, n + 1, s, p)
        BY <2>1, <2>3, <4>7, <4>8, <4>9, <4>10, <4>11, <4>12, ZenonT(40) DEF Buena
      <4>14. QED
        BY <4>1, <4>13
    <3>6. QED
      BY <3>4, <3>5
  <2>8. QED
    BY <2>6, <2>7
<1>5. QED
  BY <1>3, <1>4

LEMMA HeredarBuena ==
  ASSUME IInv, SinLimites,
         NEW s \in Ids \ {NGF_ID_NULO}, NEW p \in Ids \ {NGF_ID_NULO}
  PROVE  \E st : Buena(st, HeredarMax, s, p) /\ Heredar(s, p) = st.o
<1> DEFINE N == HeredarMax
           st0 == [cola |-> <<s>>, fuera |-> 1, visitado |-> {}, o |-> NGF_ID_NULO]
           S == {st \in Estados : \E m \in Nat : Buena(st, m, s, p)}
           G == [x \in (1 .. N) \X S |-> Vuelta(p, x[2])]
           R(f) == f = [n \in 0 .. N |-> IF n = 0 THEN st0 ELSE Vuelta(p, f[n - 1])]
           g == CHOOSE f : R(f)
<1>1. N \in Nat
  BY NGrafoAssumption
<1>2. Buena(st0, 0, s, p)
  <2>1. s \in Nat /\ s \in Antepasados(s)
    <3>1. s \in Antepasados(s)
      BY ConceptosDeLaCadena
    <3>2. QED
      BY <3>1, IdsNaturales
  <2>2. <<s>> \in Seq(Nat) /\ Len(<<s>>) = 1 /\ <<s>>[1] = s
    BY <2>1
  <2>3. st0 \in Estados
    BY <2>2 DEF Estados, NGF_ID_NULO
  <2>4. st0.visitado = {st0.cola[i] : i \in 1 .. st0.fuera - 1}
    OBVIOUS
  <2>5. Len(st0.cola) <= 1 + Cardinality(TriplesDe(st0.visitado))
    <3>1. Cardinality(TriplesDe({})) \in Nat
      BY TriplesDeFinitos
    <3>2. QED
      BY <2>2, <3>1
  <2>6. \A i \in 1 .. Len(st0.cola) : st0.cola[i] \in Antepasados(s)
    BY <2>1, <2>2
  <2>7. /\ 1 <= Len(st0.cola) /\ st0.cola[1] = s /\ st0.fuera \in 1 .. Len(st0.cola) + 1
        /\ st0.o = NGF_ID_NULO /\ st0.fuera = 0 + 1 /\ st0.visitado = {}
    BY <2>2
  <2> HIDE DEF st0
  <2>8. QED
    BY <2>3, <2>4, <2>5, <2>6, <2>7 DEF Buena
<1>3. st0 \in S
  <2>1. st0 \in Estados
    BY <1>2 DEF Buena
  <2> HIDE DEF st0
  <2>2. QED
    BY <1>2, <2>1
<1> HIDE DEF st0
<1>4. ASSUME NEW st \in S PROVE Vuelta(p, st) \in S
  <2>1. PICK m \in Nat : Buena(st, m, s, p)
    BY <1>4
  <2>2. Buena(Vuelta(p, st), m + 1, s, p)
    BY <2>1, VueltaBuena
  <2>3. Vuelta(p, st) \in Estados /\ m + 1 \in Nat
    BY <2>2 DEF Buena
  <2>4. QED
    BY <2>2, <2>3
<1>5. G \in [(1 .. N) \X S -> S]
  <2> HIDE DEF N, S
  <2>1. QED
    BY <1>4
<1>6. \E f : R(f)
  <2> HIDE DEF N, S, G
  <2>1. PICK f \in [0 .. N -> S] : EsIteracion(f, st0, G, N)
    BY <1>1, <1>3, <1>5, HayIteracion
  <2> DEFINE B(n) == Vuelta(p, f[n - 1])
             D(n) == G[<<n, f[n - 1]>>]
  <2>2. \A n \in 1 .. N : D(n) = B(n)
    <3>1. \A n \in 1 .. N : n - 1 \in 0 .. N
      BY <1>1
    <3>2. \A n \in 1 .. N : f[n - 1] \in S
      BY <2>1, <3>1
    <3>3. QED
      BY <3>2 DEF G
  <2>3. f = [n \in 0 .. N |-> IF n = 0 THEN st0 ELSE D(n)]
    BY <2>1 DEF EsIteracion
  <2> HIDE DEF B, D
  <2>4. f = [n \in 0 .. N |-> IF n = 0 THEN st0 ELSE B(n)]
    BY <1>1, <2>2, <2>3
  <2>5. QED
    BY <2>4 DEF B
<1>7. R(g)
  <2> HIDE DEF R
  <2>1. QED
    BY <1>6
<1>8. Heredar(s, p) = g[N].o
  BY DEF Heredar, st0
<1> HIDE DEF g
<1>9. g[0] = st0 /\ \A n \in 1 .. N : g[n] = Vuelta(p, g[n - 1])
  <2> DEFINE A(n) == Vuelta(p, g[n - 1])
  <2>1. g = [n \in 0 .. N |-> IF n = 0 THEN st0 ELSE A(n)]
    BY <1>7
  <2> HIDE DEF A, N
  <2>2. g[0] = st0 /\ \A n \in 1 .. N : g[n] = A(n)
    BY <1>1, <2>1
  <2>3. QED
    BY <2>2 DEF A
<1> DEFINE T == {n \in Nat : n <= N => Buena(g[n], n, s, p)}
<1> HIDE DEF R, G, S, N
<1>10. 0 \in T
  BY <1>2, <1>9
<1>11. ASSUME NEW n \in T PROVE n + 1 \in T
  <2> SUFFICES ASSUME n + 1 <= N PROVE Buena(g[n + 1], n + 1, s, p)
    OBVIOUS
  <2>1. n \in Nat /\ n <= N /\ n + 1 \in 1 .. N /\ (n + 1) - 1 = n
    BY <1>1
  <2>2. g[n + 1] = Vuelta(p, g[n])
    BY <1>9, <2>1
  <2>3. Buena(g[n], n, s, p)
    BY <2>1
  <2>4. QED
    BY <2>1, <2>2, <2>3, VueltaBuena
<1>12. T = Nat
  <2>1. T \in SUBSET Nat
    OBVIOUS
  <2> HIDE DEF T
  <2>2. QED
    BY <1>10, <1>11, <2>1, InduccionNatural
<1>13. Buena(g[N], N, s, p)
  BY <1>1, <1>12
<1>14. QED
  BY <1>8, <1>13 DEF N

LEMMA HeredarHalla ==
  ASSUME IInv, SinLimites,
         NEW s \in Ids \ {NGF_ID_NULO}, NEW p \in Ids \ {NGF_ID_NULO}
  PROVE  Heredar(s, p) # NGF_ID_NULO <=>
           \E c \in Antepasados(s), o \in Ids \ {NGF_ID_NULO} : Contains(triples, <<c, p, o>>)
<1>1. PICK st : Buena(st, HeredarMax, s, p) /\ Heredar(s, p) = st.o
  BY HeredarBuena
<1>2. Antepasados(s) \subseteq Ids \ {NGF_ID_NULO}
  BY ConceptosDeLaCadena
<1>3. CASE st.o # NGF_ID_NULO
  <2>1. PICK c \in Antepasados(s) : st.o = Objeto(c, p)
    BY <1>1, <1>3 DEF Buena
  <2>2. c \in Ids \ {NGF_ID_NULO}
    BY <1>2, <2>1
  <2>3. Objeto(c, p) \in Ids /\ Contains(triples, <<c, p, Objeto(c, p)>>)
    BY <1>3, <2>1, <2>2, ObjetoSon
  <2>4. QED
    BY <1>1, <1>3, <2>1, <2>3
<1>4. CASE st.o = NGF_ID_NULO
  <2> DEFINE q == st.cola  V == st.visitado
  <2>1. /\ q \in Seq(Nat) /\ Len(q) \in Nat /\ st.fuera \in 1 .. Len(q) + 1
        /\ 1 <= Len(q) /\ q[1] = s
    BY <1>1 DEF Buena, Estados
  <2>2. st.fuera = Len(q) + 1
    <3>1. st.fuera = HeredarMax + 1 \/ st.fuera = Len(q) + 1
      BY <1>1, <1>4 DEF Buena
    <3>2. Len(q) <= 1 + Cardinality(TriplesDe(V))
      BY <1>1 DEF Buena
    <3>3. Cardinality(TriplesDe(V)) \in Nat /\ Cardinality(TriplesDe(V)) <= Len(triples)
      BY TriplesDeFinitos
    <3>4. Len(triples) < HeredarMax /\ HeredarMax \in Nat /\ Len(triples) \in Nat
      BY NGrafoAssumption DEF SinLimites, IInv, TiposDelGrafo, Contenido
    <3> HIDE DEF q, V
    <3>5. Len(q) <= HeredarMax
      BY <2>1, <3>2, <3>3, <3>4
    <3>6. QED
      BY <2>1, <3>1, <3>4, <3>5
  <2>3. V = {q[i] : i \in 1 .. Len(q)}
    <3>1. V = {q[i] : i \in 1 .. st.fuera - 1} /\ st.fuera - 1 = Len(q)
      BY <1>1, <2>1, <2>2 DEF Buena
    <3>2. QED
      BY <3>1
  <2>4. \A c \in V : Objeto(c, p) = NGF_ID_NULO /\ \A o : EsTipo(c, o) => o \in V \/ Contains(q, o)
    BY <1>1, <1>4 DEF Buena
  <2>5. V \in SUBSET Ids
    <3>1. \A i \in 1 .. Len(q) : q[i] \in Antepasados(s)
      BY <1>1 DEF Buena
    <3> HIDE DEF q, V
    <3>2. QED
      BY <1>2, <2>3, <3>1
  <2> HIDE DEF q, V
  <2>6. s \in V
    <3>1. 1 \in 1 .. Len(q)
      BY <2>1
    <3>2. QED
      BY <2>1, <2>3, <3>1
  <2>7. \A o : Contains(q, o) => o \in V
    BY <2>3 DEF Contains
  <2>8. Antepasados(s) \subseteq V
    BY <2>4, <2>5, <2>6, <2>7, ConceptosDeLaCadena
  <2>9. \A c \in Antepasados(s) : \A o : ~Contains(triples, <<c, p, o>>)
    BY <1>2, <2>4, <2>8, ObjetoSon
  <2>10. QED
    BY <1>1, <1>4, <2>9
<1>5. QED
  BY <1>3, <1>4

\* While its queue and its lists of types have room, and no object reads as null, n_heredar finds an object exactly when
\* some concept of the chain has one: it goes round every cycle once, leaves no concept
\* unread, and the limits of the loop are never what ends it.
THEOREM HeredarSiempreCompleta == Spec => []HeredarCompleta
<1>1. IInv => HeredarCompleta
  <2> SUFFICES ASSUME IInv, SinLimites,
                      NEW s \in Ids \ {NGF_ID_NULO}, NEW p \in Ids \ {NGF_ID_NULO}
               PROVE  Heredar(s, p) # NGF_ID_NULO <=>
                        \E c \in Antepasados(s), o \in Ids \ {NGF_ID_NULO} : Contains(triples, <<c, p, o>>)
    BY DEF HeredarCompleta
  <2>1. QED
    BY HeredarHalla
<1>2. QED
  BY <1>1, Inductiva, PTL
=============================================================================
