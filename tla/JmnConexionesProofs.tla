------------------------ MODULE JmnConexionesProofs ------------------------
(***************************************************************************)
(* Proofs about JmnConexiones, for every table size, every set of concepts *)
(* and every hash collision between them.                                  *)
(*                                                                         *)
(* What a table must satisfy is stated of a table t, its heads h and its   *)
(* counter n (TablaCorrecta), so that each operation on tables has one     *)
(* lemma about constants: a new table, strengths changed, a connection     *)
(* inserted, a connection unlinked.  The actions are built from them.      *)
(***************************************************************************)
EXTENDS JmnConexiones, FiniteSetTheorems, SequenceTheorems, WellFoundedInduction, TLAPS

USE TablaAssumption, UnidadAssumption

-----------------------------------------------------------------------------
(* Natural numbers.                                                        *)

\* A set of naturals that is not empty has a least element.
LEMMA MinimoNatural ==
  ASSUME NEW T \in SUBSET Nat, T # {}
  PROVE  \E n \in T : \A m \in T : n <= m
<1>1. IsWellFoundedOn(OpToRel(<, Nat), Nat)
  BY NatLessThanWellFounded
<1> DEFINE R == OpToRel(<, Nat)
<1> HIDE DEF R
<1>2. PICK n \in T : \A m \in T : <<m, n>> \notin R
  BY <1>1, WFMin DEF R
<1>3. \A m \in T : ~(m < n)
  BY <1>2 DEF R, OpToRel
<1>4. QED
  BY <1>3

\* Induction, for a set of naturals.
LEMMA InduccionNatural ==
  ASSUME NEW T \in SUBSET Nat, 0 \in T, \A n \in T : n + 1 \in T
  PROVE  T = Nat
<1> SUFFICES ASSUME Nat \ T # {} PROVE FALSE
  OBVIOUS
<1>1. PICK n \in Nat \ T : \A m \in Nat \ T : n <= m
  BY MinimoNatural
<1>2. n # 0 /\ n - 1 \in Nat /\ n - 1 \notin Nat \ T
  BY <1>1
<1>3. QED
  BY <1>2

-----------------------------------------------------------------------------
(* Strengths stay numbers.                                                 *)

LEMMA PasadaEntera ==
  ASSUME NEW v \in Int, NEW factor \in Int, NEW u \in Int
  PROVE  Pasada(v, factor, u) \in Int
<1> DEFINE x == v * (Unidad - MaxF(0, MinF(factor, Unidad)))
<1>1. x \in Int
  BY DEF MaxF, MinF
<1> HIDE DEF x
<1>2. x \div Unidad \in Int
  BY <1>1
<1>3. QED
  BY <1>2 DEF x, Pasada

\* The passes of one decay: the function that Decaida iterates exists and its
\* values are numbers.
LEMMA DecaidaEntera ==
  ASSUME NEW v \in Int, NEW factor \in Int, NEW pasadas \in Int, NEW u \in Int
  PROVE  Decaida(v, factor, pasadas, u) \in Int
<1> DEFINE P(x)     == Pasada(x, factor, u)
           Es(g, n) == g[0] = v /\ \A k \in 1 .. n : g[k] = P(g[k - 1])
           T        == {n \in Nat : \E g \in [0 .. n -> Int] : Es(g, n)}
<1>1. \A x \in Int : P(x) \in Int
  BY PasadaEntera
<1> HIDE DEF P
<1>2. T = Nat
  <2>1. 0 \in T
    <3>1. [k \in 0 .. 0 |-> v] \in [0 .. 0 -> Int] /\ Es([k \in 0 .. 0 |-> v], 0)
      OBVIOUS
    <3>2. QED
      BY <3>1
  <2>2. ASSUME NEW n \in T PROVE n + 1 \in T
    <3>1. PICK g \in [0 .. n -> Int] : Es(g, n)
      BY <2>2
    <3> DEFINE h == [k \in 0 .. n + 1 |-> IF k = n + 1 THEN P(g[n]) ELSE g[k]]
    <3>2. h \in [0 .. n + 1 -> Int]
      BY <1>1, <3>1
    <3>3. h[0] = v
      BY <3>1
    <3>4. ASSUME NEW k \in 1 .. n + 1 PROVE h[k] = P(h[k - 1])
      BY <3>1, <3>4
    <3> HIDE DEF h
    <3>5. Es(h, n + 1) /\ n + 1 \in Nat
      BY <2>2, <3>3, <3>4
    <3> HIDE DEF Es
    <3>6. QED
      BY <3>2, <3>5
  <2>3. T \in SUBSET Nat
    OBVIOUS
  <2> HIDE DEF T
  <2>4. QED
    BY <2>1, <2>2, <2>3, InduccionNatural
<1>3. ASSUME NEW n \in Nat, NEW g, NEW h, Es(g, n), Es(h, n)
      PROVE  \A k \in 0 .. n : g[k] = h[k]
  <2> DEFINE D == {k \in 0 .. n : g[k] # h[k]}
  <2> SUFFICES ASSUME D # {} PROVE FALSE
    OBVIOUS
  <2>1. PICK k \in D : \A m \in D : k <= m
    <3>1. D \in SUBSET Nat
      OBVIOUS
    <3> HIDE DEF D
    <3>2. QED
      BY <3>1, MinimoNatural
  <2>2. k # 0
    BY <1>3
  <2>3. k - 1 \in 0 .. n /\ k - 1 \notin D
    BY <2>1, <2>2
  <2>4. QED
    BY <1>3, <2>1, <2>2, <2>3
<1> DEFINE G(n) == CHOOSE g \in [0 .. n -> Int] : Es(g, n)
           F    == [n \in Nat |-> G(n)[n]]
<1>4. ASSUME NEW n \in Nat PROVE G(n) \in [0 .. n -> Int] /\ Es(G(n), n)
  <2>1. \E g \in [0 .. n -> Int] : Es(g, n)
    BY <1>2
  <2> HIDE DEF Es
  <2>2. QED
    BY <2>1
<1>5. F = [n \in Nat |-> IF n = 0 THEN v ELSE P(F[n - 1])]
  <2>1. F[0] = v
    <3> HIDE DEF G
    <3>1. Es(G(0), 0)
      BY <1>4
    <3>2. QED
      BY <3>1
  <2>2. ASSUME NEW n \in Nat \ {0} PROVE F[n] = P(F[n - 1])
    <3>1. n - 1 \in Nat /\ n \in Nat
      OBVIOUS
    <3>2. Es(G(n), n) /\ Es(G(n - 1), n - 1)
      BY <1>4, <3>1
    <3> HIDE DEF G
    <3>3. Es(G(n), n - 1)
      BY <3>1, <3>2
    <3>4. G(n)[n - 1] = G(n - 1)[n - 1]
      <4> HIDE DEF Es
      <4>1. \A k \in 0 .. n - 1 : G(n)[k] = G(n - 1)[k]
        BY <1>3, <3>1, <3>2, <3>3
      <4>2. QED
        BY <3>1, <4>1
    <3>5. F[n - 1] = G(n - 1)[n - 1] /\ F[n] = G(n)[n]
      BY <3>1
    <3>6. QED
      BY <3>1, <3>2, <3>4, <3>5
  <2> HIDE DEF F
  <2>3. F = [n \in Nat |-> F[n]]
    BY DEF F
  <2>4. QED
    BY <2>1, <2>2, <2>3
<1> DEFINE f == CHOOSE f : f = [n \in Nat |-> IF n = 0 THEN v ELSE P(f[n - 1])]
<1>6. f = [n \in Nat |-> IF n = 0 THEN v ELSE P(f[n - 1])]
  <2> HIDE DEF F
  <2>1. QED
    BY <1>5
<1> HIDE DEF f
<1>7. \A n \in Nat : f[n] \in Int
  <2> DEFINE E == {n \in Nat : f[n] \in Int}
  <2>1. E \in SUBSET Nat /\ 0 \in E
    BY <1>6
  <2>2. ASSUME NEW n \in E PROVE n + 1 \in E
    <3>1. f[n + 1] = P(f[n])
      BY <1>6
    <3>2. QED
      BY <1>1, <3>1
  <2> HIDE DEF E
  <2>3. E = Nat
    BY <2>1, <2>2, InduccionNatural
  <2>4. QED
    BY <2>3 DEF E
<1>8. MaxF(1, MinF(pasadas, 100)) \in Nat
  BY DEF MaxF, MinF
<1>9. Decaida(v, factor, pasadas, u) = f[MaxF(1, MinF(pasadas, 100))]
  BY DEF Decaida, f, P
<1>10. QED
  BY <1>7, <1>8, <1>9

-----------------------------------------------------------------------------
(* Tables.                                                                 *)

UsadasDe(t)    == {s \in Ranuras : t[s].used}
DeCubeta(t, b) == {s \in UsadasDe(t) : Cubeta(t[s].origen_id) = b}

\* A table of records; a used slot holds a connection.
TablaTipada(t) ==
  /\ t \in [Ranuras -> Entrada]
  /\ \A s \in UsadasDe(t) :
       t[s].origen_id \in Ids /\ t[s].destino_id \in Ids /\ t[s].key_id \in Tipos

CabezasTipadas(h) == h \in [Cubetas -> Ranuras \cup {NIL}]

\* C is the chain that starts at slot i: closed under the successor, and no
\* smaller set is.
CerradoEn(S, i, t) ==
  /\ i \in S \cup {NIL}
  /\ \A s \in S : t[s].next_origen \in S \cup {NIL}
EsCadena(C, i, t) ==
  /\ CerradoEn(C, i, t)
  /\ \A S \in SUBSET C : CerradoEn(S, i, t) => S = C

\* A set of slots with one entry and no joins.
SinUniones(C, i, t) ==
  \A s \in C :
    /\ t[s].next_origen # i
    /\ \A r \in C \ {s} : t[r].next_origen = t[s].next_origen => t[s].next_origen = NIL

BienEnlazada(t, h) ==
  \A b \in Cubetas : EsCadena(DeCubeta(t, b), h[b], t) /\ SinUniones(DeCubeta(t, b), h[b], t)

SinParesRepetidos(t) ==
  \A r, s \in UsadasDe(t) : Par(t[r]) = Par(t[s]) => r = s

TablaCorrecta(t, h, n) ==
  /\ TablaTipada(t) /\ CabezasTipadas(h) /\ BienEnlazada(t, h)
  /\ SinParesRepetidos(t)
  /\ n = Cardinality(UsadasDe(t))

LEMMA RanurasFinitas ==
  /\ IsFiniteSet(Ranuras) /\ Cardinality(Ranuras) = CapConexiones
  /\ \A S \in SUBSET Ranuras : IsFiniteSet(S) /\ Cardinality(S) \in 0 .. CapConexiones
  /\ Ranuras \subseteq Nat /\ NIL \notin Ranuras
<1>1. IsFiniteSet(Ranuras) /\ Cardinality(Ranuras) = CapConexiones
  BY FS_Interval DEF Ranuras
<1>2. ASSUME NEW S \in SUBSET Ranuras
      PROVE  IsFiniteSet(S) /\ Cardinality(S) \in 0 .. CapConexiones
  <2>1. IsFiniteSet(S) /\ Cardinality(S) <= CapConexiones
    BY <1>1, FS_Subset
  <2>2. Cardinality(S) \in Nat
    BY <2>1, FS_CardinalityType
  <2>3. QED
    BY <2>1, <2>2
<1>3. QED
  BY <1>1, <1>2 DEF Ranuras, NIL

LEMMA CubetaTipada ==
  ASSUME NEW o \in Ids
  PROVE  Cubeta(o) \in Cubetas
BY DEF Cubeta, Cubetas

\* The chain of a bucket is the least set closed under the successor.
LEMMA CadenaEs ==
  ASSUME TablaTipada(conexiones), CabezasTipadas(cabeza_origen), NEW b \in Cubetas, NEW C,
         C \in SUBSET Ranuras, EsCadena(C, cabeza_origen[b], conexiones)
  PROVE  Cadena(b) = C
<1>1. Cerrado(C, b)
  BY DEF EsCadena, CerradoEn, Cerrado
<1>2. ASSUME NEW S \in SUBSET Ranuras, Cerrado(S, b) PROVE C \subseteq S
  <2>1. CerradoEn(S \cap C, cabeza_origen[b], conexiones)
    BY <1>1, <1>2 DEF CerradoEn, Cerrado
  <2>2. S \cap C = C
    BY <2>1 DEF EsCadena
  <2>3. QED
    BY <2>2
<1>3. QED
  BY <1>1, <1>2 DEF Cadena

\* The chain of slot i depends on i and on the successors of its members only.
LEMMA CadenaIgual ==
  ASSUME NEW C, NEW i, NEW t, NEW u, \A s \in C : u[s].next_origen = t[s].next_origen,
         EsCadena(C, i, t), SinUniones(C, i, t)
  PROVE  EsCadena(C, i, u) /\ SinUniones(C, i, u)
<1>1. \A S \in SUBSET C : CerradoEn(S, i, t) <=> CerradoEn(S, i, u)
  BY DEF CerradoEn
<1>2. QED
  BY <1>1 DEF EsCadena, SinUniones

LEMMA VaciaTipada == Vacia \in Entrada /\ [Vacia EXCEPT !.next_origen = NIL] \in Entrada
<1>1. 0 \in Ranuras \cup {NIL}
  BY DEF Ranuras
<1>2. Vacia \in Entrada
  BY <1>1 DEF Vacia, Entrada
<1>3. QED
  BY <1>2 DEF Entrada

\* A new table (TablaNueva).
LEMMA TablaNuevaCorrecta ==
  ASSUME NEW t, NEW h,
         t = [s \in Ranuras |-> Vacia], h = [b \in Cubetas |-> NIL]
  PROVE  TablaCorrecta(t, h, 0) /\ UsadasDe(t) = {}
<1>1. UsadasDe(t) = {}
  BY DEF UsadasDe, Vacia
<1>2. TablaTipada(t)
  BY <1>1, VaciaTipada DEF TablaTipada
<1>3. CabezasTipadas(h)
  BY DEF CabezasTipadas
<1>4. BienEnlazada(t, h)
  <2>1. \A b \in Cubetas : DeCubeta(t, b) = {}
    BY <1>1 DEF DeCubeta
  <2>2. \A b \in Cubetas : EsCadena({}, h[b], t) /\ SinUniones({}, h[b], t)
    BY DEF EsCadena, CerradoEn, SinUniones
  <2>3. QED
    BY <2>1, <2>2 DEF BienEnlazada
<1>5. QED
  BY <1>1, <1>2, <1>3, <1>4, FS_EmptySet DEF TablaCorrecta, SinParesRepetidos

\* A table with the connections and links of another, and other strengths.
MismaForma(t, u) ==
  \A s \in Ranuras : /\ u[s].used = t[s].used /\ Par(u[s]) = Par(t[s])
                     /\ u[s].next_origen = t[s].next_origen

LEMMA FuerzasCambiadas ==
  ASSUME NEW t, NEW u, NEW h, NEW n, TablaCorrecta(t, h, n), MismaForma(t, u), TablaTipada(u)
  PROVE  TablaCorrecta(u, h, n) /\ UsadasDe(u) = UsadasDe(t)
<1>1. UsadasDe(u) = UsadasDe(t)
  BY DEF MismaForma, UsadasDe
<1>2. \A s \in Ranuras : u[s].origen_id = t[s].origen_id
  BY DEF MismaForma, Par
<1>3. \A b \in Cubetas : DeCubeta(u, b) = DeCubeta(t, b) /\ DeCubeta(t, b) \subseteq Ranuras
  BY <1>1, <1>2 DEF DeCubeta, UsadasDe
<1>4. BienEnlazada(u, h)
  <2> SUFFICES ASSUME NEW b \in Cubetas
               PROVE  /\ EsCadena(DeCubeta(t, b), h[b], u)
                      /\ SinUniones(DeCubeta(t, b), h[b], u)
    BY <1>3 DEF BienEnlazada
  <2>1. \A s \in DeCubeta(t, b) : u[s].next_origen = t[s].next_origen
    BY <1>3 DEF MismaForma
  <2>2. EsCadena(DeCubeta(t, b), h[b], t) /\ SinUniones(DeCubeta(t, b), h[b], t)
    BY DEF TablaCorrecta, BienEnlazada
  <2>3. QED
    BY <2>1, <2>2, CadenaIgual
<1>5. SinParesRepetidos(u)
  BY <1>1 DEF TablaCorrecta, SinParesRepetidos, MismaForma, UsadasDe
<1>6. QED
  BY <1>1, <1>4, <1>5 DEF TablaCorrecta

\* The probe from any slot ends at a free one (alloc_conex_slot).
LEMMA SondeoTermina ==
  ASSUME TablaTipada(conexiones), Usadas # Ranuras, NEW i \in Ranuras
  PROVE  RanuraLibre(i) \in Ranuras /\ ~conexiones[RanuraLibre(i)].used
<1> DEFINE Libre_(k) == ~conexiones[(i + k) % CapConexiones].used
           L         == {k \in 0 .. CapConexiones - 1 : Libre_(k)}
<1>1. L # {}
  <2>1. PICK f \in Ranuras : ~conexiones[f].used
    BY DEF Usadas
  <2>2. CASE i <= f
    <3>1. f - i \in 0 .. CapConexiones - 1 /\ (i + (f - i)) % CapConexiones = f
      BY <2>2 DEF Ranuras
    <3>2. QED
      BY <2>1, <3>1
  <2>3. CASE f < i
    <3>1. f - i + CapConexiones \in 0 .. CapConexiones - 1
      BY <2>3 DEF Ranuras
    <3>2. (i + (f - i + CapConexiones)) % CapConexiones = f
      BY <2>3 DEF Ranuras
    <3>3. QED
      BY <2>1, <3>1, <3>2
  <2>4. QED
    BY <2>2, <2>3 DEF Ranuras
<1>2. PICK k \in L : \A m \in L : k <= m
  <2>1. L \in SUBSET Nat
    OBVIOUS
  <2> HIDE DEF L
  <2>2. QED
    BY <1>1, <2>1, MinimoNatural
<1>3. \A j \in 0 .. k - 1 : conexiones[(i + j) % CapConexiones].used
  <2> SUFFICES ASSUME NEW j \in 0 .. k - 1, Libre_(j) PROVE FALSE
    OBVIOUS
  <2>1. j \in L
    BY <1>2
  <2>2. QED
    BY <1>2, <2>1
<1> DEFINE q == CHOOSE k_1 \in 0 .. CapConexiones - 1 :
                  /\ ~conexiones[(i + k_1) % CapConexiones].used
                  /\ \A j \in 0 .. k_1 - 1 : conexiones[(i + j) % CapConexiones].used
<1>4. q \in 0 .. CapConexiones - 1 /\ ~conexiones[(i + q) % CapConexiones].used
  BY <1>2, <1>3
<1>5. RanuraLibre(i) = (i + q) % CapConexiones
  BY DEF RanuraLibre
<1> HIDE DEF q
<1>6. (i + q) % CapConexiones \in Ranuras
  BY <1>4 DEF Ranuras
<1>7. QED
  BY <1>4, <1>5, <1>6

\* A chain and a slot in front of it.
LEMMA CadenaMasUna ==
  ASSUME NEW t, NEW u, NEW C \in SUBSET Ranuras, NEW i, NEW s \in Ranuras \ C,
         EsCadena(C, i, t), SinUniones(C, i, t),
         u[s].next_origen = i, \A r \in C : u[r].next_origen = t[r].next_origen
  PROVE  EsCadena(C \cup {s}, s, u) /\ SinUniones(C \cup {s}, s, u)
<1>1. i \in C \cup {NIL} /\ \A r \in C : t[r].next_origen \in C \cup {NIL}
  BY DEF EsCadena, CerradoEn
<1>2. s # NIL /\ s \notin C
  BY RanurasFinitas
<1>3. CerradoEn(C \cup {s}, s, u)
  BY <1>1 DEF CerradoEn
<1>4. ASSUME NEW S \in SUBSET (C \cup {s}), CerradoEn(S, s, u) PROVE S = C \cup {s}
  <2>1. s \in S
    BY <1>2, <1>4 DEF CerradoEn
  <2>2. CerradoEn(S \cap C, i, t)
    <3>1. i \in (S \cap C) \cup {NIL}
      BY <1>1, <1>4, <2>1 DEF CerradoEn
    <3>2. ASSUME NEW r \in S \cap C PROVE t[r].next_origen \in (S \cap C) \cup {NIL}
      BY <1>1, <1>4 DEF CerradoEn
    <3>3. QED
      BY <3>1, <3>2 DEF CerradoEn
  <2>3. S \cap C = C
    BY <2>2 DEF EsCadena
  <2>4. QED
    BY <2>1, <2>3
<1>5. SinUniones(C \cup {s}, s, u)
  <2> SUFFICES ASSUME NEW r \in C \cup {s}
               PROVE  /\ u[r].next_origen # s
                      /\ \A x \in (C \cup {s}) \ {r} :
                           u[x].next_origen = u[r].next_origen => u[r].next_origen = NIL
    BY DEF SinUniones
  <2>1. CASE r = s
    BY <1>1, <1>2, <2>1 DEF SinUniones
  <2>2. CASE r \in C
    BY <1>1, <1>2, <2>2 DEF SinUniones
  <2>3. QED
    BY <2>1, <2>2
<1>6. QED
  BY <1>3, <1>4, <1>5 DEF EsCadena

\* A chain without one of its slots: the head or the predecessor skips it.
LEMMA CadenaSinUna ==
  ASSUME NEW t, NEW u, NEW C \in SUBSET Ranuras, NEW i, NEW j, NEW s \in C, NEW sig,
         EsCadena(C, i, t), SinUniones(C, i, t),
         sig = t[s].next_origen,
         i = s => j = sig, i # s => j = i,
         \A r \in C \ {s} :
           u[r].next_origen = IF i # s /\ t[r].next_origen = s THEN sig ELSE t[r].next_origen
  PROVE  EsCadena(C \ {s}, j, u) /\ SinUniones(C \ {s}, j, u)
<1> DEFINE D == C \ {s}
<1>1. i \in C \cup {NIL} /\ \A r \in C : t[r].next_origen \in C \cup {NIL}
  BY DEF EsCadena, CerradoEn
<1>2. s # NIL /\ sig # i
  BY RanurasFinitas DEF SinUniones
<1>3. sig # s
  <2> SUFFICES ASSUME sig = s PROVE FALSE
    OBVIOUS
  <2>1. \A r \in D : t[r].next_origen # s
    BY <1>2 DEF SinUniones
  <2>2. CerradoEn(D, i, t)
    BY <1>1, <1>2, <2>1 DEF CerradoEn
  <2>3. D = C
    BY <2>2 DEF EsCadena
  <2>4. QED
    BY <2>3
<1>4. CerradoEn(D, j, u)
  <2>1. j \in D \cup {NIL}
    BY <1>1, <1>3
  <2>2. ASSUME NEW r \in D PROVE u[r].next_origen \in D \cup {NIL}
    <3>1. CASE i = s
      BY <1>1, <3>1 DEF SinUniones
    <3>2. CASE i # s
      BY <1>1, <1>3, <3>2
    <3>3. QED
      BY <3>1, <3>2
  <2>3. QED
    BY <2>1, <2>2 DEF CerradoEn
<1>5. ASSUME NEW S \in SUBSET D, CerradoEn(S, j, u) PROVE S = D
  <2>1. CASE i = s
    <3>1. CerradoEn(S \cup {s}, i, t)
      BY <1>5, <2>1 DEF CerradoEn
    <3>2. S \cup {s} = C
      BY <3>1 DEF EsCadena
    <3>3. QED
      BY <3>2
  <2>2. CASE i # s /\ \E r \in S : t[r].next_origen = s
    <3>1. CerradoEn(S \cup {s}, i, t)
      BY <1>5, <2>2 DEF CerradoEn
    <3>2. S \cup {s} = C
      BY <3>1 DEF EsCadena
    <3>3. QED
      BY <3>2
  <2>3. CASE i # s /\ \A r \in S : t[r].next_origen # s
    <3>1. CerradoEn(S, i, t)
      BY <1>5, <2>3 DEF CerradoEn
    <3>2. S = C
      BY <3>1 DEF EsCadena
    <3>3. QED
      BY <3>2
  <2>4. QED
    BY <2>1, <2>2, <2>3
<1>6. SinUniones(D, j, u)
  <2> SUFFICES ASSUME NEW r \in D
               PROVE  /\ u[r].next_origen # j
                      /\ \A x \in D \ {r} :
                           u[x].next_origen = u[r].next_origen => u[r].next_origen = NIL
    BY DEF SinUniones
  <2>1. CASE i = s
    <3>1. sig # NIL
      <4> SUFFICES ASSUME sig = NIL PROVE FALSE
        OBVIOUS
      <4>1. CerradoEn({s}, i, t)
        BY <2>1 DEF CerradoEn
      <4>2. {s} = C
        BY <4>1 DEF EsCadena
      <4>3. QED
        BY <4>2
    <3>2. QED
      BY <2>1, <3>1 DEF SinUniones
  <2>2. CASE i # s
    <3>1. t[r].next_origen # i /\ sig # i
      BY <1>2 DEF SinUniones
    <3>2. \A x \in D \ {r} : t[x].next_origen = s => t[r].next_origen # s
      BY <1>2 DEF SinUniones
    <3>3. QED
      BY <2>2, <3>1, <3>2 DEF SinUniones
  <2>3. QED
    BY <2>1, <2>2
<1>7. QED
  BY <1>4, <1>5, <1>6 DEF EsCadena

\* A new connection in a free slot, in front of its bucket's chain.
Insertada(t, h, s, o, d, k, f, u, g) ==
  /\ u = [t EXCEPT ![s] = [used |-> TRUE, origen_id |-> o, destino_id |-> d,
                           key_id |-> k, fuerza |-> f, next_origen |-> h[Cubeta(o)]]]
  /\ g = [h EXCEPT ![Cubeta(o)] = s]

LEMMA InsercionCorrecta ==
  ASSUME NEW t, NEW h, NEW n, TablaCorrecta(t, h, n),
         NEW s \in Ranuras, ~t[s].used,
         NEW o \in Ids, NEW d \in Ids, NEW k \in Tipos, NEW f \in Int,
         \A r \in UsadasDe(t) : Par(t[r]) # <<o, d>>,
         NEW u, NEW g, Insertada(t, h, s, o, d, k, f, u, g)
  PROVE  /\ TablaCorrecta(u, g, n + 1)
         /\ UsadasDe(u) = UsadasDe(t) \cup {s}
         /\ Par(u[s]) = <<o, d>> /\ \A r \in Ranuras \ {s} : u[r] = t[r]
<1> USE DEF TablaCorrecta
<1>1. Cubeta(o) \in Cubetas
  BY CubetaTipada
<1>2. t \in [Ranuras -> Entrada] /\ h \in [Cubetas -> Ranuras \cup {NIL}]
  BY DEF TablaTipada, CabezasTipadas
<1>3. u[s] = [used |-> TRUE, origen_id |-> o, destino_id |-> d,
              key_id |-> k, fuerza |-> f, next_origen |-> h[Cubeta(o)]]
  BY <1>2 DEF Insertada
<1>4. \A r \in Ranuras \ {s} : u[r] = t[r]
  BY <1>2 DEF Insertada
<1>5. u[s] \in Entrada
  BY <1>1, <1>2, <1>3 DEF Entrada
<1>6. u \in [Ranuras -> Entrada]
  BY <1>2, <1>3, <1>5 DEF Insertada
<1>7. UsadasDe(u) = UsadasDe(t) \cup {s}
  BY <1>3, <1>4 DEF UsadasDe
<1>8. TablaTipada(u)
  BY <1>3, <1>4, <1>6, <1>7 DEF TablaTipada, UsadasDe
<1>9. g \in [Cubetas -> Ranuras \cup {NIL}] /\ g[Cubeta(o)] = s
  BY <1>1, <1>2 DEF Insertada
<1>10. \A b \in Cubetas \ {Cubeta(o)} : g[b] = h[b]
  BY <1>2 DEF Insertada
<1>11. \A b \in Cubetas : DeCubeta(t, b) \in SUBSET (Ranuras \ {s})
  BY DEF DeCubeta, UsadasDe
<1>12. BienEnlazada(u, g)
  <2> SUFFICES ASSUME NEW b \in Cubetas
               PROVE  EsCadena(DeCubeta(u, b), g[b], u) /\ SinUniones(DeCubeta(u, b), g[b], u)
    BY DEF BienEnlazada
  <2>1. EsCadena(DeCubeta(t, b), h[b], t) /\ SinUniones(DeCubeta(t, b), h[b], t)
    BY DEF BienEnlazada
  <2>2. \A r \in DeCubeta(t, b) : u[r].next_origen = t[r].next_origen
    BY <1>4, <1>11
  <2>3. CASE b = Cubeta(o)
    <3>1. DeCubeta(u, b) = DeCubeta(t, b) \cup {s}
      BY <1>3, <1>4, <1>7, <1>11, <2>3 DEF DeCubeta, UsadasDe
    <3>2. u[s].next_origen = h[b] /\ g[b] = s
      BY <1>3, <1>9, <2>3
    <3> DEFINE C == DeCubeta(t, b)
    <3>3. C \in SUBSET Ranuras /\ s \in Ranuras \ C
      BY <1>11
    <3> HIDE DEF C
    <3>4. EsCadena(C, h[b], t) /\ SinUniones(C, h[b], t)
      BY <2>1 DEF C
    <3>5. \A r \in C : u[r].next_origen = t[r].next_origen
      BY <2>2 DEF C
    <3>6. EsCadena(C \cup {s}, s, u) /\ SinUniones(C \cup {s}, s, u)
      BY <3>2, <3>3, <3>4, <3>5, CadenaMasUna
    <3>7. QED
      BY <3>1, <3>2, <3>6 DEF C
  <2>4. CASE b # Cubeta(o)
    <3>1. DeCubeta(u, b) = DeCubeta(t, b)
      BY <1>3, <1>4, <1>7, <1>11, <2>4 DEF DeCubeta, UsadasDe
    <3>2. g[b] = h[b]
      BY <1>10, <2>4
    <3> DEFINE C == DeCubeta(t, b)
    <3> HIDE DEF C
    <3>3. EsCadena(C, h[b], t) /\ SinUniones(C, h[b], t)
      BY <2>1 DEF C
    <3>4. \A r \in C : u[r].next_origen = t[r].next_origen
      BY <2>2 DEF C
    <3>5. EsCadena(C, h[b], u) /\ SinUniones(C, h[b], u)
      BY <3>3, <3>4, CadenaIgual
    <3>6. QED
      BY <3>1, <3>2, <3>5 DEF C
  <2>5. QED
    BY <2>3, <2>4
<1>13. Par(u[s]) = <<o, d>>
  BY <1>3 DEF Par
<1>14. SinParesRepetidos(u)
  BY <1>4, <1>7, <1>13 DEF SinParesRepetidos, UsadasDe
<1>15. n + 1 = Cardinality(UsadasDe(u))
  <2>1. IsFiniteSet(UsadasDe(t)) /\ s \notin UsadasDe(t)
    BY RanurasFinitas DEF UsadasDe
  <2>2. QED
    BY <1>7, <2>1, FS_AddElement
<1>16. QED
  BY <1>4, <1>7, <1>8, <1>9, <1>12, <1>13, <1>14, <1>15 DEF CabezasTipadas

\* A connection taken out of its chain, its slot freed (unlink_conexion_origen).
Desenlazada(t, h, s, b, u, g) ==
  /\ u = [r \in Ranuras |->
            IF r = s THEN [Vacia EXCEPT !.next_origen = NIL]
            ELSE IF h[b] # s /\ r \in {x \in DeCubeta(t, b) : t[x].next_origen = s}
            THEN [t[r] EXCEPT !.next_origen = t[s].next_origen]
            ELSE t[r]]
  /\ g = IF h[b] = s THEN [h EXCEPT ![b] = t[s].next_origen] ELSE h

LEMMA DesenlaceCorrecto ==
  ASSUME NEW t, NEW h, NEW n, TablaCorrecta(t, h, n), NEW s \in UsadasDe(t),
         NEW b, b = Cubeta(t[s].origen_id),
         NEW u, NEW g, Desenlazada(t, h, s, b, u, g)
  PROVE  /\ TablaCorrecta(u, g, n - 1) /\ n > 0
         /\ UsadasDe(u) = UsadasDe(t) \ {s}
         /\ \A r \in Ranuras \ {s} : u[r].used = t[r].used /\ Par(u[r]) = Par(t[r])
<1> USE DEF TablaCorrecta
<1> DEFINE sig == t[s].next_origen
<1>1. s \in Ranuras /\ t[s].origen_id \in Ids /\ b \in Cubetas /\ s \in DeCubeta(t, b)
  BY CubetaTipada DEF TablaTipada, UsadasDe, DeCubeta
<1>2. t \in [Ranuras -> Entrada] /\ h \in [Cubetas -> Ranuras \cup {NIL}]
  BY DEF TablaTipada, CabezasTipadas
<1>3. sig \in Ranuras \cup {NIL}
  BY <1>1, <1>2 DEF Entrada
<1>4. u[s] = [Vacia EXCEPT !.next_origen = NIL] /\ ~u[s].used
  BY <1>1 DEF Vacia, Desenlazada
<1>5. ASSUME NEW r \in Ranuras \ {s}
      PROVE  /\ u[r] \in Entrada
             /\ u[r].used = t[r].used /\ u[r].origen_id = t[r].origen_id
             /\ u[r].destino_id = t[r].destino_id /\ u[r].key_id = t[r].key_id
             /\ u[r].next_origen = IF h[b] # s /\ r \in DeCubeta(t, b) /\ t[r].next_origen = s
                                   THEN sig ELSE t[r].next_origen
  <2>1. t[r] \in Entrada
    BY <1>2
  <2>2. CASE h[b] # s /\ r \in DeCubeta(t, b) /\ t[r].next_origen = s
    <3>1. u[r] = [t[r] EXCEPT !.next_origen = sig]
      BY <2>2 DEF Desenlazada
    <3>2. QED
      BY <1>3, <2>1, <2>2, <3>1 DEF Entrada
  <2>3. CASE ~(h[b] # s /\ r \in DeCubeta(t, b) /\ t[r].next_origen = s)
    <3>1. u[r] = t[r]
      BY <2>3 DEF Desenlazada
    <3>2. QED
      BY <2>1, <2>3, <3>1
  <2>4. QED
    BY <2>2, <2>3
<1>6. UsadasDe(u) = UsadasDe(t) \ {s}
  <2>1. \A r \in Ranuras \ {s} : u[r].used = t[r].used
    BY <1>5
  <2> HIDE DEF TablaCorrecta
  <2>2. QED
    BY <1>1, <1>4, <2>1 DEF UsadasDe
<1>7. TablaTipada(u)
  <2>1. u[s] \in Entrada
    BY <1>4, VaciaTipada
  <2>2. u = [r \in Ranuras |-> u[r]]
    BY DEF Desenlazada
  <2>3. u \in [Ranuras -> Entrada]
    BY <1>5, <2>1, <2>2
  <2>4. QED
    BY <1>5, <1>6, <2>3 DEF TablaTipada, UsadasDe
<1>8. CabezasTipadas(g)
  BY <1>1, <1>2, <1>3 DEF CabezasTipadas, Desenlazada
<1>9. \A r \in Ranuras \ {s} : Par(u[r]) = Par(t[r])
  BY <1>5 DEF Par
<1>10. SinParesRepetidos(u)
  BY <1>6, <1>9 DEF SinParesRepetidos, UsadasDe
<1>11. BienEnlazada(u, g)
  <2> SUFFICES ASSUME NEW x \in Cubetas
               PROVE  EsCadena(DeCubeta(u, x), g[x], u) /\ SinUniones(DeCubeta(u, x), g[x], u)
    BY DEF BienEnlazada
  <2> DEFINE C == DeCubeta(t, x)
  <2>1. EsCadena(C, h[x], t) /\ SinUniones(C, h[x], t)
    BY DEF BienEnlazada
  <2>2. C \in SUBSET Ranuras
    BY DEF DeCubeta, UsadasDe
  <2>3. DeCubeta(u, x) = C \ {s}
    BY <1>5, <1>6 DEF DeCubeta, UsadasDe
  <2>4. CASE x = b
    <3>1. s \in C
      BY <1>1, <2>4
    <3>2. g[x] = IF h[x] = s THEN sig ELSE h[x]
      BY <1>1, <1>2, <2>4 DEF Desenlazada
    <3>3. \A r \in C \ {s} :
            u[r].next_origen = IF h[x] # s /\ t[r].next_origen = s THEN sig ELSE t[r].next_origen
      BY <1>5, <2>2, <2>4
    <3> HIDE DEF C
    <3> DEFINE i == h[x]
               j == g[x]
    <3>4. (i = s => j = sig) /\ (i # s => j = i)
      BY <3>2
    <3>5. EsCadena(C, i, t) /\ SinUniones(C, i, t)
      BY <2>1
    <3>6. \A r \in C \ {s} :
            u[r].next_origen = IF i # s /\ t[r].next_origen = s THEN sig ELSE t[r].next_origen
      BY <3>3
    <3> HIDE DEF i, j, TablaCorrecta
    <3>7. EsCadena(C \ {s}, j, u) /\ SinUniones(C \ {s}, j, u)
      BY <2>2, <3>1, <3>4, <3>5, <3>6, CadenaSinUna
    <3>8. QED
      BY <2>3, <3>7 DEF j
  <2>5. CASE x # b
    <3>1. s \notin C
      BY <2>5 DEF DeCubeta
    <3>2. g[x] = h[x]
      BY <1>1, <1>2, <2>5 DEF Desenlazada
    <3>3. \A r \in C : u[r].next_origen = t[r].next_origen
      BY <1>5, <2>2, <2>5, <3>1 DEF DeCubeta
    <3> HIDE DEF C
    <3>4. EsCadena(C, h[x], u) /\ SinUniones(C, h[x], u)
      BY <2>1, <3>3, CadenaIgual
    <3>5. C \ {s} = C
      BY <3>1
    <3>6. QED
      BY <2>3, <3>2, <3>4, <3>5
  <2>6. QED
    BY <2>4, <2>5
<1>12. n > 0 /\ n - 1 = Cardinality(UsadasDe(u))
  <2>1. IsFiniteSet(UsadasDe(t)) /\ Cardinality(UsadasDe(t)) \in Nat
    BY RanurasFinitas DEF UsadasDe
  <2>2. Cardinality(UsadasDe(t)) # 0
    BY <2>1, FS_EmptySet
  <2>3. Cardinality(UsadasDe(t) \ {s}) = Cardinality(UsadasDe(t)) - 1
    BY <2>1, FS_RemoveElement
  <2>4. QED
    BY <1>6, <2>1, <2>2, <2>3
<1>13. QED
  BY <1>5, <1>6, <1>7, <1>8, <1>9, <1>10, <1>11, <1>12

-----------------------------------------------------------------------------
(* Files.                                                                  *)

ArchivoTipado(a) == a \in Seq(RegistroEnDisco) /\ Len(a) <= CapConexiones
ArchivoSinRepetidos(a) == \A i, j \in 1 .. Len(a) : Par(a[i]) = Par(a[j]) => i = j

\* The slots of a set have ranks 0, 1, 2 .. in it, each taken once.
Rango(U, s) == Cardinality({x \in U : x < s})

LEMMA RangoAcotado ==
  ASSUME NEW U \in SUBSET Ranuras, NEW s \in U
  PROVE  Rango(U, s) \in 0 .. Cardinality(U) - 1
<1> DEFINE A == {x \in U : x < s}
<1>1. A \in SUBSET U /\ A \in SUBSET Ranuras /\ s \notin A
  <2>1. ~(s < s)
    BY RanurasFinitas
  <2>2. QED
    BY <2>1
<1> HIDE DEF A
<1>2. A # U
  BY <1>1
<1>3. IsFiniteSet(U) /\ Cardinality(U) \in Nat /\ Cardinality(A) \in Nat
  BY <1>1, RanurasFinitas
<1>4. Cardinality(A) <= Cardinality(U) /\ Cardinality(A) # Cardinality(U)
  BY <1>1, <1>2, <1>3, FS_Subset
<1>5. QED
  BY <1>3, <1>4 DEF A, Rango

LEMMA RangoCrece ==
  ASSUME NEW U \in SUBSET Ranuras, NEW r \in U, NEW s \in U, Rango(U, r) = Rango(U, s)
  PROVE  r = s
<1>1. ASSUME NEW x \in U, NEW y \in U, x < y PROVE Rango(U, x) # Rango(U, y)
  <2> DEFINE A == {z \in U : z < x}
             B == {z \in U : z < y}
  <2>1. U \subseteq Nat
    BY RanurasFinitas
  <2>2. x \in B /\ x \notin A /\ B \in SUBSET Ranuras
    <3>1. ~(x < x)
      BY <2>1
    <3>2. QED
      BY <1>1, <3>1
  <2>3. A \in SUBSET B
    <3>1. \A z \in U : z < x => z < y
      BY <1>1, <2>1
    <3>2. QED
      BY <3>1
  <2> HIDE DEF A, B
  <2>4. IsFiniteSet(B) /\ A # B
    BY <2>2, RanurasFinitas
  <2>5. Cardinality(A) # Cardinality(B)
    BY <2>3, <2>4, FS_Subset
  <2>6. QED
    BY <2>5 DEF A, B, Rango
<1>2. r \in Nat /\ s \in Nat
  BY RanurasFinitas
<1>3. QED
  BY <1>1, <1>2

LEMMA Rangos ==
  ASSUME NEW U \in SUBSET Ranuras
  PROVE  \A i \in 1 .. Cardinality(U) : \E s \in U : Rango(U, s) = i - 1
<1> DEFINE n == Cardinality(U)
           f == [s \in U |-> Rango(U, s)]
<1>1. n \in Nat
  BY RanurasFinitas
<1>2. f \in Injection(U, 0 .. n - 1)
  <2>1. f \in [U -> 0 .. n - 1]
    BY RangoAcotado
  <2>2. \A r, s \in U : f[r] = f[s] => r = s
    BY RangoCrece
  <2> HIDE DEF f, n
  <2>3. QED
    BY <2>1, <2>2 DEF Injection, IsInjective
<1>3. IsFiniteSet(0 .. n - 1) /\ Cardinality(0 .. n - 1) = n
  <2> HIDE DEF n
  <2>1. 0 \in Int /\ n - 1 \in Int
    BY <1>1
  <2>2. QED
    BY <1>1, <2>1, FS_Interval
<1>4. f \in Surjection(U, 0 .. n - 1)
  <2> HIDE DEF f
  <2>1. QED
    BY <1>2, <1>3, FS_Injection
<1>5. \A k \in 0 .. n - 1 : \E s \in U : f[s] = k
  <2> HIDE DEF f, n
  <2>1. QED
    BY <1>4 DEF Surjection
<1>6. QED
  <2> SUFFICES ASSUME NEW i \in 1 .. n PROVE \E s \in U : f[s] = i - 1
    OBVIOUS
  <2> HIDE DEF f, n
  <2>1. i - 1 \in 0 .. n - 1
    BY <1>1
  <2>2. QED
    BY <1>5, <2>1

\* What a close writes (jmn_io_guardar): every connection of the table, once.
LEMMA EscribirTodo ==
  ASSUME TablaTipada(conexiones), SinParesRepetidos(conexiones)
  PROVE  /\ ArchivoTipado(Escribir) /\ ArchivoSinRepetidos(Escribir)
         /\ \A i \in DOMAIN Escribir : \E s \in Usadas : Escribir[i] = Registro(s)
         /\ \A s \in Usadas : \E i \in DOMAIN Escribir : Escribir[i] = Registro(s)
<1> DEFINE n    == Cardinality(Usadas)
           r(s) == Rango(Usadas, s)
           e(i) == CHOOSE s \in Usadas : r(s) = i - 1
<1>1. Usadas = UsadasDe(conexiones) /\ Usadas \in SUBSET Ranuras
  BY DEF Usadas, UsadasDe
<1>2. n \in 0 .. CapConexiones
  BY <1>1, RanurasFinitas
<1>3. \A i \in 1 .. n : e(i) \in Usadas /\ r(e(i)) = i - 1
  <2>1. \A i \in 1 .. n : \E s \in Usadas : r(s) = i - 1
    BY <1>1, Rangos
  <2> HIDE DEF r, n
  <2>2. QED
    BY <2>1
<1>4. Escribir = [i \in 1 .. n |-> Registro(e(i))]
  BY DEF Escribir, Rango
<1>5. \A s \in Usadas : Registro(s) \in RegistroEnDisco
  BY <1>1 DEF TablaTipada, Entrada, Registro, RegistroEnDisco
<1>6. \A s \in Usadas : Par(Registro(s)) = Par(conexiones[s])
  BY DEF Par, Registro
<1> HIDE DEF e, r, n
<1>7. /\ Escribir \in Seq(RegistroEnDisco) /\ Len(Escribir) = n /\ DOMAIN Escribir = 1 .. n
      /\ \A i \in 1 .. n : Escribir[i] = Registro(e(i))
  <2>1. n \in Nat
    BY <1>2
  <2>2. \A i \in 1 .. n : Registro(e(i)) \in RegistroEnDisco
    BY <1>3, <1>5
  <2>3. Escribir \in Seq(RegistroEnDisco)
    BY <1>4, <2>1, <2>2, IsASeq
  <2>4. QED
    BY <1>4, <2>1, <2>3
<1>8. ArchivoTipado(Escribir)
  BY <1>2, <1>7 DEF ArchivoTipado
<1>9. ArchivoSinRepetidos(Escribir)
  <2> SUFFICES ASSUME NEW i \in 1 .. n, NEW j \in 1 .. n, Par(Escribir[i]) = Par(Escribir[j])
               PROVE  i = j
    BY <1>7 DEF ArchivoSinRepetidos
  <2>1. Par(conexiones[e(i)]) = Par(conexiones[e(j)])
    BY <1>3, <1>6, <1>7
  <2>2. e(i) = e(j)
    BY <1>1, <1>3, <2>1 DEF SinParesRepetidos
  <2>3. i - 1 = j - 1
    BY <1>3, <2>2
  <2>4. QED
    BY <1>2, <2>3
<1>10. ASSUME NEW s \in Usadas PROVE \E i \in 1 .. n : Escribir[i] = Registro(s)
  <2> DEFINE i == r(s) + 1
  <2>1. r(s) \in 0 .. n - 1
    BY <1>1, RangoAcotado DEF r, n
  <2>2. i \in 1 .. n /\ r(s) = i - 1
    BY <1>2, <2>1
  <2>3. e(i) \in Usadas /\ r(e(i)) = r(s)
    BY <1>3, <2>2
  <2>4. e(i) = s
    BY <1>1, <2>3, RangoCrece DEF r
  <2>5. QED
    BY <1>7, <2>2, <2>4
<1>11. QED
  BY <1>3, <1>7, <1>8, <1>9, <1>10

-----------------------------------------------------------------------------
(* The inductive invariant.                                                *)

EstadoTipado ==
  /\ dirty \in BOOLEAN /\ colgado \in BOOLEAN
  /\ sesion \in {"cerrada", "caida", "cargando", "abierta"}
  /\ indice \in 0 .. CapConexiones
  /\ bucle.fase \in {"no", "olvidar"} /\ bucle.umbral \in Umbrales \cup {0}
  /\ bucle.impulsos \in SUBSET Impulsos

\* Outside a session the table is empty; a loop runs in an open session only; and
\* while a file is read the table holds pairs of the records read so far, so that
\* the next record, whose pair is none of theirs, is not a duplicate.
SegunSesion ==
  /\ sesion \in {"cerrada", "caida"} => UsadasDe(conexiones) = {}
  /\ bucle.fase = "olvidar" => sesion = "abierta"
  /\ sesion = "cargando" =>
       \A s \in UsadasDe(conexiones) :
         \E i \in 1 .. indice : Par(conexiones[s]) = Par(archivo[i])

Inductiva ==
  /\ EstadoTipado
  /\ TablaCorrecta(conexiones, cabeza_origen, num_conexiones)
  /\ ArchivoTipado(archivo) /\ ArchivoSinRepetidos(archivo)
  /\ SegunSesion

LEMMA ConSesionAbierta == sesion = "abierta" => SegunSesion
BY DEF SegunSesion

\* A table some of whose strengths, or types, are others.
Repasada(t, u) ==
  /\ u = [s \in Ranuras |-> u[s]]
  /\ \A s \in Ranuras :
       \/ u[s] = t[s]
       \/ \E v \in Int : u[s] = [t[s] EXCEPT !.fuerza = v]
       \/ \E v \in Int, k \in Tipos : u[s] = [t[s] EXCEPT !.fuerza = v, !.key_id = k]

LEMMA RepasoCorrecto ==
  ASSUME NEW t, NEW u, NEW h, NEW n, TablaCorrecta(t, h, n), Repasada(t, u)
  PROVE  TablaCorrecta(u, h, n)
<1>1. t \in [Ranuras -> Entrada]
  BY DEF TablaCorrecta, TablaTipada
<1>2. ASSUME NEW s \in Ranuras
      PROVE  /\ u[s] \in Entrada
             /\ u[s].used = t[s].used /\ u[s].next_origen = t[s].next_origen
             /\ u[s].origen_id = t[s].origen_id /\ u[s].destino_id = t[s].destino_id
             /\ u[s].key_id = t[s].key_id \/ u[s].key_id \in Tipos
  <2>1. t[s] \in Entrada
    BY <1>1
  <2>2. CASE u[s] = t[s]
    BY <2>1, <2>2
  <2>3. CASE \E v \in Int : u[s] = [t[s] EXCEPT !.fuerza = v]
    BY <2>1, <2>3 DEF Entrada
  <2>4. CASE \E v \in Int, k \in Tipos : u[s] = [t[s] EXCEPT !.fuerza = v, !.key_id = k]
    BY <2>1, <2>4 DEF Entrada
  <2>5. QED
    BY <2>2, <2>3, <2>4 DEF Repasada
<1>3. u \in [Ranuras -> Entrada]
  <2>1. u = [s \in Ranuras |-> u[s]]
    BY DEF Repasada
  <2>2. QED
    BY <1>2, <2>1
<1>4. TablaTipada(u)
  BY <1>2, <1>3 DEF TablaCorrecta, TablaTipada, UsadasDe
<1>5. MismaForma(t, u)
  BY <1>2 DEF MismaForma, Par
<1>6. QED
  BY <1>4, <1>5, FuerzasCambiadas

FuerzaEntera(t) == \A s \in Ranuras : t[s].fuerza \in Int

LEMMA FuerzasEnteras == ASSUME Inductiva PROVE FuerzaEntera(conexiones)
BY DEF Inductiva, TablaCorrecta, TablaTipada, Entrada, FuerzaEntera

-----------------------------------------------------------------------------
(* Operations on strengths.                                                *)

\* An operation of an open session that only goes over the strengths.
LEMMA SoloFuerzas ==
  ASSUME Inductiva, Repasada(conexiones, conexiones'),
         UNCHANGED <<cabeza_origen, num_conexiones, archivo>>,
         sesion' = "abierta", EstadoTipado'
  PROVE  Inductiva'
<1>1. TablaCorrecta(conexiones', cabeza_origen, num_conexiones)
  BY RepasoCorrecto DEF Inductiva
<1>2. SegunSesion'
  BY DEF SegunSesion
<1>3. QED
  BY <1>1, <1>2 DEF Inductiva

LEMMA PenalizarBien ==
  ASSUME Inductiva, NEW o, NEW d, NEW delta \in Deltas, PenalizarAsociacion(o, d, delta)
  PROVE  Inductiva'
<1>1. Repasada(conexiones, conexiones')
  <2>1. PICK s \in Halladas(o, d) :
          conexiones' = [conexiones EXCEPT ![s].fuerza = Penalizada(@, delta)]
    BY DEF PenalizarAsociacion
  <2>2. s \in Ranuras
    BY DEF Halladas, Cadena
  <2>3. Penalizada(conexiones[s].fuerza, delta) \in Int
    BY <2>2, FuerzasEnteras DEF FuerzaEntera, Penalizada, MaxF
  <2>4. conexiones \in [Ranuras -> Entrada]
    BY DEF Inductiva, TablaCorrecta, TablaTipada
  <2>5. QED
    BY <2>1, <2>2, <2>3, <2>4 DEF Repasada
<1>2. QED
  BY <1>1, SoloFuerzas DEF PenalizarAsociacion, Libre, Inductiva, EstadoTipado

LEMMA ReforzarBien ==
  ASSUME Inductiva, NEW id, NEW delta \in Deltas,
         ReforzarConcepto(id, delta) \/ PenalizarConcepto(id, delta)
  PROVE  Inductiva'
<1>1. \A s \in Ranuras : /\ ReforzadaPor(conexiones[s].fuerza, delta) \in Int
                         /\ PenalizadaPor(conexiones[s].fuerza, delta) \in Int
  BY FuerzasEnteras DEF FuerzaEntera, ReforzadaPor, PenalizadaPor, MinF, MaxF
<1>2. Repasada(conexiones, conexiones')
  BY <1>1 DEF ReforzarConcepto, PenalizarConcepto, Recorrer, Repasada
<1>3. QED
  BY <1>2, SoloFuerzas DEF ReforzarConcepto, PenalizarConcepto, Recorrer, Libre, Inductiva,
                           EstadoTipado

LEMMA DecaerBien ==
  ASSUME Inductiva, NEW f \in Factores, NEW n \in Pasadas, NEW u \in Umbrales,
         Decaer(f, n, u) \/ \E b \in Impulsos : ConsolidarMemoriaSueno(f, n, u, b)
  PROVE  Inductiva'
<1>1. \A s \in Ranuras : Decaida(conexiones[s].fuerza, f, n, u) \in Int
  BY FuerzasEnteras, DecaidaEntera DEF FuerzaEntera
<1>2. Repasada(conexiones, conexiones')
  BY <1>1 DEF Decaer, ConsolidarMemoriaSueno, Recorrer, Repasada
<1>3. EstadoTipado' /\ sesion' = "abierta" /\ UNCHANGED <<cabeza_origen, num_conexiones, archivo>>
  <2>1. CASE Decaer(f, n, u)
    BY <2>1 DEF Decaer, Recorrer, Libre, Inductiva, EstadoTipado
  <2>2. CASE \E b \in Impulsos : ConsolidarMemoriaSueno(f, n, u, b)
    BY <2>2 DEF ConsolidarMemoriaSueno, Recorrer, Libre, Inductiva, EstadoTipado
  <2>3. QED
    BY <2>1, <2>2
<1>4. QED
  BY <1>2, <1>3, SoloFuerzas

LEMMA ConsolidadaEntera ==
  ASSUME NEW v \in Int, NEW b \in Int
  PROVE  Consolidada(v, b) \in Int
<1> DEFINE x == v * (Unidad + MaxF(0, MinF(b, 2 * Unidad)))
<1>1. x \in Int
  BY DEF MaxF, MinF
<1> HIDE DEF x
<1>2. x \div Unidad \in Int
  BY <1>1
<1>3. QED
  BY <1>2 DEF x, Consolidada, MinF

LEMMA ConsolidarBien ==
  ASSUME Inductiva, OlvidarFin \/ \E b \in Impulsos : Consolidar(b)
  PROVE  Inductiva'
<1>1. \A s \in Ranuras, b \in Impulsos : Consolidada(conexiones[s].fuerza, b) \in Int
  BY FuerzasEnteras, ConsolidadaEntera DEF FuerzaEntera
<1>2. conexiones = [s \in Ranuras |-> conexiones[s]]
  BY DEF Inductiva, TablaCorrecta, TablaTipada
<1>3. CASE OlvidarFin
  <2>1. sesion' = "abierta"
    BY <1>3 DEF OlvidarFin, Inductiva, SegunSesion
  <2>2. Repasada(conexiones, conexiones') /\ UNCHANGED <<cabeza_origen, num_conexiones, archivo>>
    <3>1. CASE UNCHANGED memoria
      BY <1>2, <1>3, <3>1 DEF Repasada, memoria, OlvidarFin
    <3>2. CASE \E b \in bucle.impulsos : Recorrer(LAMBDA v : Consolidada(v, b), Ranuras)
      <4>1. bucle.impulsos \subseteq Impulsos
        BY DEF Inductiva, EstadoTipado
      <4>2. QED
        BY <1>1, <1>3, <3>2, <4>1 DEF Recorrer, Repasada, OlvidarFin
    <3>3. QED
      BY <1>3, <3>1, <3>2 DEF OlvidarFin
  <2>3. EstadoTipado'
    <3>1. dirty' \in BOOLEAN
      BY <1>3 DEF OlvidarFin, Recorrer, memoria, Inductiva, EstadoTipado
    <3>2. /\ indice' = 0 /\ bucle' = SinBucle
          /\ UNCHANGED <<sesion, colgado>>
      BY <1>3 DEF OlvidarFin
    <3>3. QED
      BY <3>1, <3>2 DEF Inductiva, EstadoTipado, SinBucle
  <2>4. QED
    BY <2>1, <2>2, <2>3, SoloFuerzas
<1>4. CASE \E b \in Impulsos : Consolidar(b)
  <2>1. Repasada(conexiones, conexiones')
    BY <1>1, <1>4 DEF Consolidar, Recorrer, Repasada
  <2>2. QED
    BY <1>4, <2>1, SoloFuerzas DEF Consolidar, Recorrer, Libre, Inductiva, EstadoTipado
<1>5. QED
  BY <1>3, <1>4

-----------------------------------------------------------------------------
(* Operations on the table.                                                *)

\* No chain holds the pair (find_conex_slot): no used slot does.
LEMMA BusquedaCompleta ==
  ASSUME TablaCorrecta(conexiones, cabeza_origen, num_conexiones),
         NEW o \in Ids, NEW d \in Ids, Halladas(o, d) = {}
  PROVE  \A r \in UsadasDe(conexiones) : Par(conexiones[r]) # <<o, d>>
<1>1. Cadena(Cubeta(o)) = DeCubeta(conexiones, Cubeta(o))
  <2>1. Cubeta(o) \in Cubetas
    BY CubetaTipada
  <2>2. DeCubeta(conexiones, Cubeta(o)) \in SUBSET Ranuras
    BY DEF DeCubeta, UsadasDe
  <2>3. QED
    BY <2>1, <2>2, CadenaEs DEF TablaCorrecta, BienEnlazada
<1> SUFFICES ASSUME NEW r \in UsadasDe(conexiones), Par(conexiones[r]) = <<o, d>>
             PROVE  FALSE
  OBVIOUS
<1>2. conexiones[r].origen_id = o /\ conexiones[r].destino_id = d
  BY DEF Par
<1>3. r \in Cadena(Cubeta(o))
  BY <1>1, <1>2 DEF DeCubeta
<1>4. QED
  BY <1>2, <1>3 DEF Halladas

\* alloc_conex_slot and what follows it, for a pair the table does not have.
LEMMA InsertarBien ==
  ASSUME TablaCorrecta(conexiones, cabeza_origen, num_conexiones),
         NEW o \in Ids, NEW d \in Ids, NEW k \in Tipos, NEW f \in Int,
         \A r \in UsadasDe(conexiones) : Par(conexiones[r]) # <<o, d>>,
         Insertar(o, d, k, f)
  PROVE  /\ TablaCorrecta(conexiones', cabeza_origen', num_conexiones')
         /\ \E s \in Ranuras \ UsadasDe(conexiones) :
              /\ UsadasDe(conexiones') = UsadasDe(conexiones) \cup {s}
              /\ Par(conexiones'[s]) = <<o, d>>
              /\ conexiones'[s].key_id = k /\ conexiones'[s].fuerza = f
              /\ \A r \in UsadasDe(conexiones) : conexiones'[r] = conexiones[r]
<1> DEFINE s == RanuraLibre(Inicio(o, d))
<1>1. Inicio(o, d) \in Ranuras
  BY DEF Inicio, Ranuras
<1>2. s \in Ranuras /\ ~conexiones[s].used
  BY <1>1, SondeoTermina DEF Insertar, TablaCorrecta
<1>3. /\ Insertada(conexiones, cabeza_origen, s, o, d, k, f, conexiones', cabeza_origen')
      /\ num_conexiones' = num_conexiones + 1
  BY DEF Insertar, Insertada
<1> HIDE DEF s
<1>4. /\ TablaCorrecta(conexiones', cabeza_origen', num_conexiones + 1)
      /\ UsadasDe(conexiones') = UsadasDe(conexiones) \cup {s}
      /\ Par(conexiones'[s]) = <<o, d>>
      /\ \A r \in Ranuras \ {s} : conexiones'[r] = conexiones[r]
  BY <1>2, <1>3, InsercionCorrecta
<1>5. conexiones'[s].key_id = k /\ conexiones'[s].fuerza = f
  BY <1>2, <1>3 DEF Insertada, TablaCorrecta, TablaTipada
<1>6. s \in Ranuras \ UsadasDe(conexiones)
  BY <1>2 DEF UsadasDe
<1>7. \A r \in UsadasDe(conexiones) : conexiones'[r] = conexiones[r]
  BY <1>4, <1>6 DEF UsadasDe
<1>8. QED
  BY <1>3, <1>4, <1>5, <1>6, <1>7

LEMMA AgregarBien ==
  ASSUME Inductiva, NEW o \in Ids, NEW d \in Ids, NEW c \in Cambios, NEW t \in Tipos,
         AgregarConexion(o, d, c, t)
  PROVE  Inductiva'
<1>1. sesion' = "abierta" /\ archivo' = archivo /\ EstadoTipado'
  BY DEF AgregarConexion, Libre, memoria, Inductiva, EstadoTipado
<1>2. CASE \E s \in Halladas(o, d) :
             /\ conexiones[s].fuerza + c \in -Tope .. Tope
             /\ conexiones' = [conexiones EXCEPT ![s].fuerza = @ + c, ![s].key_id = t]
             /\ UNCHANGED <<cabeza_origen, num_conexiones>>
  <2>1. PICK s \in Halladas(o, d) :
             /\ conexiones[s].fuerza + c \in -Tope .. Tope
             /\ conexiones' = [conexiones EXCEPT ![s].fuerza = @ + c, ![s].key_id = t]
             /\ UNCHANGED <<cabeza_origen, num_conexiones>>
    BY <1>2
  <2>2. s \in Ranuras
    BY DEF Halladas, Cadena
  <2>3. conexiones[s].fuerza + c \in Int
    BY <2>1
  <2>4. conexiones \in [Ranuras -> Entrada]
    BY DEF Inductiva, TablaCorrecta, TablaTipada
  <2>5. conexiones'[s] = [conexiones[s] EXCEPT !.fuerza = conexiones[s].fuerza + c, !.key_id = t]
    BY <2>1, <2>2, <2>4
  <2>6. \A r \in Ranuras \ {s} : conexiones'[r] = conexiones[r]
    BY <2>1, <2>2, <2>4
  <2>7. Repasada(conexiones, conexiones')
    <3>1. conexiones' = [r \in Ranuras |-> conexiones'[r]]
      BY <2>1, <2>2, <2>4
    <3>2. QED
      BY <2>3, <2>5, <2>6, <3>1 DEF Repasada
  <2>8. QED
    BY <1>1, <2>1, <2>7, SoloFuerzas
<1>3. CASE Halladas(o, d) = {} /\ c \in -Tope .. Tope /\ Insertar(o, d, t, c)
  <2>1. TablaCorrecta(conexiones, cabeza_origen, num_conexiones) /\ c \in Int
    BY <1>3 DEF Inductiva
  <2>2. TablaCorrecta(conexiones', cabeza_origen', num_conexiones')
    BY <1>3, <2>1, BusquedaCompleta, InsertarBien
  <2>3. QED
    BY <1>1, <2>2 DEF Inductiva, SegunSesion
<1>4. CASE UNCHANGED memoria
  BY <1>1, <1>4 DEF Inductiva, SegunSesion, memoria
<1>5. QED
  BY <1>2, <1>3, <1>4 DEF AgregarConexion

LEMMA OlvidarBien ==
  ASSUME Inductiva, \E u \in Umbrales : Olvidar(u)
  PROVE  Inductiva'
BY DEF Olvidar, Libre, Inductiva, EstadoTipado, SegunSesion, memoria

LEMMA OlvidarRanuraBien ==
  ASSUME Inductiva, OlvidarRanura
  PROVE  Inductiva'
<1>1. sesion = "abierta" /\ sesion' = sesion
  BY DEF OlvidarRanura, Inductiva, SegunSesion
<1>2. SegunSesion'
  BY <1>1 DEF SegunSesion
<1>3. EstadoTipado' /\ archivo' = archivo
  <2>1. dirty' \in BOOLEAN
    BY DEF OlvidarRanura, Inductiva, EstadoTipado, memoria
  <2>2. indice' \in 0 .. CapConexiones /\ UNCHANGED <<sesion, archivo, bucle, colgado>>
    BY DEF OlvidarRanura, Inductiva, EstadoTipado
  <2>3. QED
    BY <2>1, <2>2 DEF Inductiva, EstadoTipado
<1>4. CASE conexiones[indice].used /\ Desenlazar(indice)
  <2> DEFINE s == indice
             b == Cubeta(conexiones[s].origen_id)
  <2>1. TablaCorrecta(conexiones, cabeza_origen, num_conexiones)
    BY DEF Inductiva
  <2>2. s \in UsadasDe(conexiones)
    BY <1>4 DEF OlvidarRanura, Inductiva, EstadoTipado, UsadasDe, Ranuras
  <2>3. Cadena(b) = DeCubeta(conexiones, b)
    <3>1. b \in Cubetas
      BY <2>1, <2>2, CubetaTipada DEF TablaCorrecta, TablaTipada
    <3>2. DeCubeta(conexiones, b) \in SUBSET Ranuras
      BY DEF DeCubeta, UsadasDe
    <3> HIDE DEF b
    <3>3. QED
      BY <2>1, <3>1, <3>2, CadenaEs DEF TablaCorrecta, BienEnlazada
  <2>4. Desenlazada(conexiones, cabeza_origen, s, b, conexiones', cabeza_origen')
    BY <1>4, <2>3 DEF Desenlazar, Desenlazada
  <2> HIDE DEF s, b
  <2>5. TablaCorrecta(conexiones', cabeza_origen', num_conexiones - 1) /\ num_conexiones > 0
    BY <2>1, <2>2, <2>4, DesenlaceCorrecto DEF b
  <2>6. num_conexiones' = num_conexiones - 1
    BY <1>4, <2>5 DEF Desenlazar
  <2>7. QED
    BY <1>2, <1>3, <2>5, <2>6 DEF Inductiva
<1>5. CASE UNCHANGED memoria
  BY <1>2, <1>3, <1>5 DEF Inductiva, memoria
<1>6. QED
  BY <1>4, <1>5 DEF OlvidarRanura

-----------------------------------------------------------------------------
(* Sessions.                                                               *)

LEMMA CerrarBien ==
  ASSUME Inductiva, Cerrar
  PROVE  Inductiva'
<1>1. TablaCorrecta(conexiones, cabeza_origen, num_conexiones)
  BY DEF Inductiva
<1>2. ArchivoTipado(archivo') /\ ArchivoSinRepetidos(archivo')
  BY <1>1, EscribirTodo DEF Cerrar, Inductiva, TablaCorrecta
<1>3. TablaCorrecta(conexiones', cabeza_origen', 0) /\ UsadasDe(conexiones') = {}
  BY TablaNuevaCorrecta DEF Cerrar, TablaNueva
<1>4. num_conexiones' = 0
  BY DEF Cerrar, TablaNueva
<1>5. EstadoTipado' /\ sesion' = "cerrada" /\ bucle' = SinBucle
  BY DEF Cerrar, Libre, Inductiva, EstadoTipado
<1>6. SegunSesion'
  BY <1>3, <1>5 DEF SegunSesion, SinBucle
<1>7. QED
  BY <1>2, <1>3, <1>4, <1>5, <1>6 DEF Inductiva

LEMMA MorirBien ==
  ASSUME Inductiva, Morir
  PROVE  Inductiva'
<1>1. TablaCorrecta(conexiones', cabeza_origen', 0) /\ UsadasDe(conexiones') = {}
  BY TablaNuevaCorrecta DEF Morir, TablaNueva
<1>2. num_conexiones' = 0 /\ archivo' = archivo
  BY DEF Morir, TablaNueva
<1>3. EstadoTipado' /\ sesion' = "caida" /\ bucle' = SinBucle
  <2>1. /\ dirty' = FALSE /\ sesion' = "caida" /\ indice' = 0 /\ bucle' = SinBucle
        /\ colgado' = FALSE
    BY DEF Morir
  <2>2. 0 \in 0 .. CapConexiones
    OBVIOUS
  <2>3. QED
    BY <2>1, <2>2 DEF EstadoTipado, SinBucle
<1>4. SegunSesion'
  BY <1>1, <1>3 DEF SegunSesion, SinBucle
<1>5. QED
  BY <1>1, <1>2, <1>3, <1>4 DEF Inductiva

LEMMA AbrirBien ==
  ASSUME Inductiva, Abrir
  PROVE  Inductiva'
<1>1. EstadoTipado' /\ UNCHANGED <<memoria, archivo, bucle>> /\ sesion' = "cargando"
  BY DEF Abrir, Inductiva, EstadoTipado, memoria
<1>2. UsadasDe(conexiones) = {} /\ bucle.fase # "olvidar"
  BY DEF Abrir, Inductiva, SegunSesion
<1>3. SegunSesion'
  BY <1>1, <1>2 DEF SegunSesion, memoria
<1>4. QED
  BY <1>1, <1>3 DEF Inductiva, memoria

\* A record read: its pair is new to the table, and it takes a free slot.
LEMMA CargaInserta ==
  ASSUME Inductiva, CargarConexion
  PROVE  /\ TablaCorrecta(conexiones', cabeza_origen', num_conexiones')
         /\ \E s \in Ranuras \ UsadasDe(conexiones) :
              /\ UsadasDe(conexiones') = UsadasDe(conexiones) \cup {s}
              /\ Par(conexiones'[s]) = Par(archivo[indice + 1])
              /\ conexiones'[s].key_id = archivo[indice + 1].key_id
              /\ conexiones'[s].fuerza = archivo[indice + 1].fuerza
              /\ \A x \in UsadasDe(conexiones) : conexiones'[x] = conexiones[x]
<1> DEFINE r == archivo[indice + 1]
           o == r.origen_id
           d == r.destino_id
           k == r.key_id
           f == r.fuerza
<1>1. /\ sesion = "cargando" /\ indice \in Nat /\ indice + 1 \in 1 .. Len(archivo)
      /\ archivo \in Seq(RegistroEnDisco)
  BY DEF CargarConexion, Inductiva, EstadoTipado, ArchivoTipado
<1>2. r \in RegistroEnDisco
  BY <1>1, ElementOfSeq
<1>3. Par(r) = <<o, d>>
  BY DEF Par
<1>4. TablaCorrecta(conexiones, cabeza_origen, num_conexiones)
  BY DEF Inductiva
<1>5. o \in Ids /\ d \in Ids /\ k \in Tipos /\ f \in Int /\ Insertar(o, d, k, f)
  <2>1. Insertar(o, d, k, f)
    BY DEF CargarConexion
  <2> HIDE DEF r
  <2>2. QED
    BY <1>2, <2>1 DEF RegistroEnDisco
<1> HIDE DEF o, d, k, f
<1>6. \A s \in UsadasDe(conexiones) : Par(conexiones[s]) # <<o, d>>
  <2> SUFFICES ASSUME NEW s \in UsadasDe(conexiones) PROVE Par(conexiones[s]) # <<o, d>>
    OBVIOUS
  <2>1. PICK i \in 1 .. indice : Par(conexiones[s]) = Par(archivo[i])
    BY <1>1 DEF Inductiva, SegunSesion
  <2>2. i \in 1 .. Len(archivo) /\ i # indice + 1
    BY <1>1
  <2>3. Par(archivo[i]) # Par(r)
    BY <1>1, <2>2 DEF Inductiva, ArchivoSinRepetidos
  <2>4. QED
    BY <1>3, <2>1, <2>3
<1>7. /\ TablaCorrecta(conexiones', cabeza_origen', num_conexiones')
      /\ \E s \in Ranuras \ UsadasDe(conexiones) :
           /\ UsadasDe(conexiones') = UsadasDe(conexiones) \cup {s}
           /\ Par(conexiones'[s]) = <<o, d>>
           /\ conexiones'[s].key_id = k /\ conexiones'[s].fuerza = f
           /\ \A x \in UsadasDe(conexiones) : conexiones'[x] = conexiones[x]
  BY <1>4, <1>5, <1>6, InsertarBien
<1>8. QED
  BY <1>3, <1>7 DEF k, f

LEMMA CargarConexionBien ==
  ASSUME Inductiva, CargarConexion
  PROVE  Inductiva'
<1>1. /\ sesion = "cargando" /\ indice \in Nat /\ indice + 1 \in 1 .. Len(archivo)
      /\ Len(archivo) <= CapConexiones /\ Len(archivo) \in Nat
  BY DEF CargarConexion, Inductiva, EstadoTipado, ArchivoTipado
<1>2. /\ indice' = indice + 1
      /\ UNCHANGED <<dirty, sesion, archivo, bucle, colgado>>
  BY DEF CargarConexion
<1>3. PICK x \in Ranuras \ UsadasDe(conexiones) :
        /\ UsadasDe(conexiones') = UsadasDe(conexiones) \cup {x}
        /\ Par(conexiones'[x]) = Par(archivo[indice + 1])
        /\ \A s \in UsadasDe(conexiones) : conexiones'[s] = conexiones[s]
  BY CargaInserta
<1>4. ASSUME NEW s \in UsadasDe(conexiones')
      PROVE  \E i \in 1 .. indice + 1 : Par(conexiones'[s]) = Par(archivo[i])
  <2>1. CASE s = x
    BY <1>1, <1>3, <2>1
  <2>2. CASE s \in UsadasDe(conexiones)
    <3>1. PICK i \in 1 .. indice : Par(conexiones[s]) = Par(archivo[i])
      BY <1>1, <2>2 DEF Inductiva, SegunSesion
    <3>2. i \in 1 .. indice + 1
      BY <1>1
    <3>3. QED
      BY <1>3, <2>2, <3>1, <3>2
  <2>3. QED
    BY <1>3, <2>1, <2>2
<1>5. bucle.fase # "olvidar"
  BY <1>1 DEF Inductiva, SegunSesion
<1>6. SegunSesion'
  BY <1>1, <1>2, <1>4, <1>5 DEF SegunSesion
<1>7. EstadoTipado'
  BY <1>1, <1>2 DEF Inductiva, EstadoTipado
<1>8. QED
  BY <1>2, <1>6, <1>7, CargaInserta DEF Inductiva

LEMMA CargarFinBien ==
  ASSUME Inductiva, CargarFin
  PROVE  Inductiva'
<1>1. /\ sesion' = "abierta" /\ indice' = 0 /\ dirty' = FALSE
      /\ UNCHANGED <<conexiones, cabeza_origen, num_conexiones, archivo, bucle, colgado>>
  BY DEF CargarFin
<1>2. EstadoTipado'
  <2>1. 0 \in 0 .. CapConexiones
    OBVIOUS
  <2>2. QED
    BY <1>1, <2>1 DEF Inductiva, EstadoTipado
<1>3. QED
  BY <1>1, <1>2 DEF Inductiva, SegunSesion

-----------------------------------------------------------------------------
(* Theorems.                                                               *)

LEMMA InductivaSiempre == Spec => []Inductiva
<1>1. Init => Inductiva
  <2> SUFFICES ASSUME Init PROVE Inductiva
    OBVIOUS
  <2>1. TablaCorrecta(conexiones, cabeza_origen, num_conexiones)
    BY TablaNuevaCorrecta DEF Init
  <2>2. ArchivoTipado(archivo) /\ ArchivoSinRepetidos(archivo)
    BY DEF Init, ArchivoTipado, ArchivoSinRepetidos
  <2>3. EstadoTipado /\ SegunSesion
    <3>1. 0 \in 0 .. CapConexiones
      OBVIOUS
    <3>2. EstadoTipado
      BY <3>1 DEF Init, EstadoTipado, SinBucle
    <3>3. SegunSesion
      BY DEF Init, SegunSesion
    <3>4. QED
      BY <3>2, <3>3
  <2>4. QED
    BY <2>1, <2>2, <2>3 DEF Inductiva
<1>2. Inductiva /\ [Next]_vars => Inductiva'
  <2> SUFFICES ASSUME Inductiva, [Next]_vars PROVE Inductiva'
    OBVIOUS
  <2>1. ASSUME NEW p \in Pares, NEW c \in Cambios, NEW t \in Tipos, AgregarConexion(p[1], p[2], c, t)
        PROVE  Inductiva'
    <3>1. p[1] \in Ids /\ p[2] \in Ids
      OBVIOUS
    <3>2. QED
      BY <2>1, <3>1, AgregarBien
  <2>2. ASSUME NEW p \in Pares, NEW delta \in Deltas, PenalizarAsociacion(p[1], p[2], delta)
        PROVE  Inductiva'
    BY <2>2, PenalizarBien
  <2>3. ASSUME NEW id \in Ids, NEW delta \in Deltas,
               ReforzarConcepto(id, delta) \/ PenalizarConcepto(id, delta)
        PROVE  Inductiva'
    BY <2>3, ReforzarBien
  <2>4. ASSUME NEW f \in Factores, NEW n \in Pasadas, NEW u \in Umbrales,
               Decaer(f, n, u) \/ \E b \in Impulsos : ConsolidarMemoriaSueno(f, n, u, b)
        PROVE  Inductiva'
    BY <2>4, DecaerBien
  <2>5. CASE \E u \in Umbrales : Olvidar(u)
    BY <2>5, OlvidarBien
  <2>6. CASE OlvidarRanura
    BY <2>6, OlvidarRanuraBien
  <2>7. CASE OlvidarFin \/ \E b \in Impulsos : Consolidar(b)
    BY <2>7, ConsolidarBien
  <2>8. CASE Cerrar
    BY <2>8, CerrarBien
  <2>9. CASE Morir
    BY <2>9, MorirBien
  <2>10. CASE Abrir
    BY <2>10, AbrirBien
  <2>11. CASE CargarConexion
    BY <2>11, CargarConexionBien
  <2>12. CASE CargarFin
    BY <2>12, CargarFinBien
  <2>13. CASE UNCHANGED vars
    BY <2>13 DEF vars, memoria, Inductiva, EstadoTipado, SegunSesion
  <2>14. QED
    BY <2>1, <2>2, <2>3, <2>4, <2>5, <2>6, <2>7, <2>8, <2>9, <2>10, <2>11, <2>12, <2>13 DEF Next
<1>3. QED
  BY <1>1, <1>2, PTL DEF Spec

LEMMA UsadasSon == Usadas = UsadasDe(conexiones)
BY DEF Usadas, UsadasDe

\* The table and its file stay typed, and neither grows past CapConexiones: a
\* file of a full table can always be read back (jmn_io_cargar has a slot for
\* each of its records).
THEOREM TiposDeTabla == Spec => []TypeOK
<1>1. Inductiva => TypeOK
  <2> SUFFICES ASSUME Inductiva PROVE TypeOK
    OBVIOUS
  <2>1. conexiones \in [Ranuras -> Entrada] /\ cabeza_origen \in [Cubetas -> Ranuras \cup {NIL}]
    BY DEF Inductiva, TablaCorrecta, TablaTipada, CabezasTipadas
  <2>2. num_conexiones \in 0 .. CapConexiones
    <3>1. UsadasDe(conexiones) \in SUBSET Ranuras
      BY DEF UsadasDe
    <3>2. QED
      BY <3>1, RanurasFinitas DEF Inductiva, TablaCorrecta
  <2>3. QED
    BY <2>1, <2>2 DEF Inductiva, EstadoTipado, ArchivoTipado, TypeOK
<1>2. QED
  BY <1>1, InductivaSiempre, PTL

\* Whatever slots the hash picks and however buckets collide, every chain holds
\* the used slots of its bucket and no others, and no two of its slots share a
\* successor (unlink_conexion_origen, alloc_conex_slot, jmn_io_cargar).
THEOREM CadenasSiempreExactas == Spec => []CadenasExactas
<1>1. Inductiva => CadenasExactas
  <2> SUFFICES ASSUME Inductiva, NEW b \in Cubetas
               PROVE  /\ Cadena(b) = DeCubeta(conexiones, b)
                      /\ SinUniones(DeCubeta(conexiones, b), cabeza_origen[b], conexiones)
    BY UsadasSon DEF CadenasExactas, DeCubeta, SinUniones
  <2>1. DeCubeta(conexiones, b) \in SUBSET Ranuras
    BY DEF DeCubeta, UsadasDe
  <2>2. QED
    BY <2>1, CadenaEs DEF Inductiva, TablaCorrecta, BienEnlazada
<1>2. QED
  BY <1>1, InductivaSiempre, PTL

\* A pair of concepts never has two connections, although a load inserts the
\* records of a file without looking for their pairs (jmn_io_cargar).
THEOREM NuncaDuplicadas == Spec => []SinDuplicadas
<1>1. Inductiva => SinDuplicadas
  BY UsadasSon DEF Inductiva, TablaCorrecta, SinParesRepetidos, SinDuplicadas, Par
<1>2. QED
  BY <1>1, InductivaSiempre, PTL

\* The counter written at the head of the file is the number of records that
\* follow it (num_conexiones).
THEOREM ContadorSiempreExacto == Spec => []ContadorExacto
<1>1. Inductiva => ContadorExacto
  BY UsadasSon DEF Inductiva, TablaCorrecta, ContadorExacto
<1>2. QED
  BY <1>1, InductivaSiempre, PTL
=============================================================================
