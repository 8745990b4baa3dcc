------------------------ MODULE IrOptimizadorProofs ------------------------
(* Proofs about IrOptimizador.  What is built and optimised is code; and a   *)
(* program of the fragment and its optimisation, run on the same input, show *)
(* the same.  The analysis leaves a certificate of each instruction (what is *)
(* known before it and after it, which registers are read from it on, what   *)
(* became of it); with it a machine of the optimised program follows one of  *)
(* the program: it is at the place of the same instruction, has the same     *)
(* frame, the registers that are read, and has made no more steps.           *)
EXTENDS IrOptimizador, SequenceTheorems, WellFoundedInduction, TLAPS

-----------------------------------------------------------------------------
(* Counting up to n, and recursion over it.                                *)

\* What holds of 0 and of each number after one it holds of, holds up to n.
LEMMA Contando ==
  ASSUME NEW n \in Nat, NEW T, 0 \in T, \A i \in 1 .. n : i - 1 \in T => i \in T
  PROVE  \A i \in 0 .. n : i \in T
<1> DEFINE R == OpToRel(<, Nat)
           F == {i \in 0 .. n : i \notin T}
<1> SUFFICES ASSUME F # {} PROVE FALSE
  OBVIOUS
<1>1. IsWellFoundedOn(R, Nat)
  BY NatLessThanWellFounded
<1>2. PICK i \in F : \A m \in F : <<m, i>> \notin R
  <2> HIDE DEF R
  <2>1. F \subseteq Nat
    OBVIOUS
  <2> HIDE DEF F
  <2>2. QED
    BY <1>1, <2>1, WFMin
<1>3. \A m \in F : ~(m < i)
  <2>1. ASSUME NEW m \in F, m < i PROVE FALSE
    <3>1. m \in Nat /\ i \in Nat
      OBVIOUS
    <3>2. <<m, i>> \in R
      BY <2>1, <3>1 DEF OpToRel
    <3>3. QED
      BY <1>2, <3>2
  <2>2. QED
    BY <2>1
<1>4. i \in 1 .. n /\ i - 1 \in Nat /\ i - 1 < i /\ i - 1 \in 0 .. n
  OBVIOUS
<1>5. i - 1 \notin F
  BY <1>3, <1>4
<1>6. QED
  BY <1>4, <1>5

EsIteracion(f, x, G, n) == f = [i \in 0 .. n |-> IF i = 0 THEN x ELSE G[<<i, f[i - 1]>>]]

\* A function applied n times.
LEMMA HayIteracion ==
  ASSUME NEW S, NEW x \in S, NEW n \in Nat, NEW G \in [(1 .. n) \X S -> S]
  PROVE  \E f \in [0 .. n -> S] : EsIteracion(f, x, G, n)
<1> DEFINE P(m) == \E f \in [0 .. m -> S] : EsIteracion(f, x, G, m)
           T    == {m \in Nat : P(m)}
<1>1. 0 \in T
  <2> DEFINE f == [i \in 0 .. 0 |-> x]
  <2>1. f \in [0 .. 0 -> S] /\ EsIteracion(f, x, G, 0)
    BY DEF EsIteracion
  <2>2. QED
    BY <2>1
<1>2. ASSUME NEW m \in 1 .. n, m - 1 \in T PROVE m \in T
  <2>1. m \in Nat /\ m - 1 \in Nat /\ m - 1 \in 0 .. m - 1
    OBVIOUS
  <2>2. PICK f \in [0 .. m - 1 -> S] : EsIteracion(f, x, G, m - 1)
    BY <1>2
  <2> DEFINE y == G[<<m, f[m - 1]>>]
             g == [i \in 0 .. m |-> IF i = m THEN y ELSE f[i]]
  <2>3. f[m - 1] \in S /\ y \in S
    BY <2>1, <2>2
  <2>4. f[0] = x /\ \A i \in 1 .. m - 1 : f[i] = G[<<i, f[i - 1]>>]
    <3>1. f = [i \in 0 .. m - 1 |-> IF i = 0 THEN x ELSE G[<<i, f[i - 1]>>]]
      BY <2>2 DEF EsIteracion
    <3>2. QED
      BY <2>1, <3>1
  <2> HIDE DEF y
  <2>5. g \in [0 .. m -> S]
    BY <2>1, <2>2, <2>3
  <2>6. g[m] = y /\ \A i \in 0 .. m - 1 : g[i] = f[i]
    BY <2>1
  <2> HIDE DEF g
  <2>7. \A i \in 0 .. m : g[i] = IF i = 0 THEN x ELSE G[<<i, g[i - 1]>>]
    <3> SUFFICES ASSUME NEW i \in 0 .. m
                 PROVE  g[i] = IF i = 0 THEN x ELSE G[<<i, g[i - 1]>>]
      OBVIOUS
    <3>1. CASE i = 0
      BY <2>1, <2>4, <2>6, <3>1
    <3>2. CASE i \in 1 .. m - 1
      BY <2>1, <2>4, <2>6, <3>2
    <3>3. CASE i = m
      BY <2>1, <2>6, <3>3 DEF y
    <3>4. QED
      BY <2>1, <3>1, <3>2, <3>3
  <2>8. EsIteracion(g, x, G, m)
    BY <2>5, <2>7 DEF EsIteracion
  <2>9. QED
    BY <2>1, <2>5, <2>8
<1> HIDE DEF P
<1>3. \A i \in 0 .. n : i \in T
  <2> HIDE DEF T
  <2>1. QED
    BY <1>1, <1>2, Contando
<1>4. QED
  BY <1>3 DEF P

-----------------------------------------------------------------------------
(* Words and their bits.                                                   *)

\* A bit is worth twice the one before.
LEMMA Pesos ==
  /\ \A i \in 0 .. Ancho : Peso[i] \in Nat \ {0}
  /\ Peso[0] = 1 /\ \A i \in 1 .. Ancho : Peso[i] = 2 * Peso[i - 1]
<1> DEFINE S == Nat \ {0}
           G == [p \in (1 .. Ancho) \X S |-> 2 * p[2]]
           R(f) == f = [i \in 0 .. Ancho |-> IF i = 0 THEN 1 ELSE 2 * f[i - 1]]
<1>1. Ancho \in Nat
  BY IrAssumption
<1>2. PICK f \in [0 .. Ancho -> S] : EsIteracion(f, 1, G, Ancho)
  <2>1. 1 \in S /\ G \in [(1 .. Ancho) \X S -> S]
    OBVIOUS
  <2> HIDE DEF S, G
  <2>2. QED
    BY <1>1, <2>1, HayIteracion
<1>3. \A i \in 1 .. Ancho : i - 1 \in 0 .. Ancho /\ G[<<i, f[i - 1]>>] = 2 * f[i - 1]
  BY <1>1, <1>2
<1>4. R(f)
  <2>1. f = [i \in 0 .. Ancho |-> IF i = 0 THEN 1 ELSE G[<<i, f[i - 1]>>]]
    BY <1>2 DEF EsIteracion
  <2> HIDE DEF G
  <2>2. QED
    BY <1>1, <1>3, <2>1
<1>5. R(Peso)
  <2>1. Peso = CHOOSE g : R(g)
    BY DEF Peso
  <2> HIDE DEF R
  <2>2. QED
    BY <1>4, <2>1
<1>6. Peso[0] = 1 /\ \A i \in 1 .. Ancho : Peso[i] = 2 * Peso[i - 1]
  BY <1>1, <1>5
<1> DEFINE T == {j \in 0 .. Ancho : Peso[j] \in S}
<1>7. \A i \in 0 .. Ancho : i \in T
  <2>1. 0 \in T
    BY <1>1, <1>6
  <2>2. ASSUME NEW i \in 1 .. Ancho, i - 1 \in T PROVE i \in T
    BY <1>1, <1>6, <2>2
  <2> HIDE DEF T
  <2>3. QED
    BY <1>1, <2>1, <2>2, Contando
<1>8. QED
  BY <1>6, <1>7

LEMMA BitsSon ==
  ASSUME NEW bits \in [0 .. Ancho - 1 -> {0, 1}]
  PROVE  /\ DeBits(bits) \in Palabras
         /\ (\A i \in 0 .. Ancho - 1 : bits[i] = 0) => DeBits(bits) = 0
<1> DEFINE G == [p \in (1 .. Ancho) \X Nat |-> p[2] + Peso[p[1] - 1] * bits[p[1] - 1]]
           R(f) == f = [i \in 0 .. Ancho |-> IF i = 0 THEN 0 ELSE f[i - 1] + Peso[i - 1] * bits[i - 1]]
           s == CHOOSE f : R(f)
<1>1. Ancho \in Nat
  BY IrAssumption
<1>2. \A i \in 1 .. Ancho : i - 1 \in 0 .. Ancho - 1 /\ i - 1 \in 0 .. Ancho /\ Peso[i - 1] \in Nat \ {0}
                           /\ bits[i - 1] \in {0, 1} /\ Peso[i - 1] * bits[i - 1] \in 0 .. Peso[i - 1]
  <2> TAKE i \in 1 .. Ancho
  <2>1. i - 1 \in 0 .. Ancho - 1 /\ i - 1 \in 0 .. Ancho
    BY <1>1
  <2>2. Peso[i - 1] \in Nat \ {0} /\ bits[i - 1] \in {0, 1}
    BY <2>1, Pesos
  <2>3. QED
    BY <2>1, <2>2
<1>3. PICK f \in [0 .. Ancho -> Nat] : EsIteracion(f, 0, G, Ancho)
  <2>1. G \in [(1 .. Ancho) \X Nat -> Nat]
    <3>1. \A p \in (1 .. Ancho) \X Nat : p[1] \in 1 .. Ancho /\ p[2] \in Nat
      OBVIOUS
    <3>2. \A p \in (1 .. Ancho) \X Nat : p[2] + Peso[p[1] - 1] * bits[p[1] - 1] \in Nat
      BY <1>2, <3>1
    <3>3. QED
      BY <3>2
  <2> HIDE DEF G
  <2>2. QED
    BY <1>1, <2>1, HayIteracion
<1>4. R(f)
  <2>1. f = [i \in 0 .. Ancho |-> IF i = 0 THEN 0 ELSE G[<<i, f[i - 1]>>]]
    BY <1>3 DEF EsIteracion
  <2>2. \A i \in 1 .. Ancho : G[<<i, f[i - 1]>>] = f[i - 1] + Peso[i - 1] * bits[i - 1]
    BY <1>2, <1>3
  <2> HIDE DEF G
  <2>3. \A i \in 0 .. Ancho : i # 0 => i \in 1 .. Ancho
    BY <1>1
  <2>4. \A i \in 0 .. Ancho : (IF i = 0 THEN 0 ELSE G[<<i, f[i - 1]>>])
                            = (IF i = 0 THEN 0 ELSE f[i - 1] + Peso[i - 1] * bits[i - 1])
    BY <2>2, <2>3
  <2>5. QED
    BY <2>1, <2>4, Zenon
<1>5. R(s)
  <2> HIDE DEF R
  <2>1. QED
    BY <1>4
<1>6. DeBits(bits) = s[Ancho]
  BY DEF DeBits
<1> HIDE DEF s
<1>7. s[0] = 0 /\ \A i \in 1 .. Ancho : s[i] = s[i - 1] + Peso[i - 1] * bits[i - 1]
  BY <1>1, <1>5
<1>8. \A i \in 1 .. Ancho : Peso[i] = 2 * Peso[i - 1]
  BY Pesos
<1> DEFINE T == {i \in 0 .. Ancho : s[i] \in 0 .. Peso[i] - 1}
           U == {i \in 0 .. Ancho : s[i] = 0}
<1> HIDE DEF R, G
<1>9. \A i \in 0 .. Ancho : i \in T
  <2>1. 0 \in T
    BY <1>1, <1>7, Pesos
  <2>2. ASSUME NEW i \in 1 .. Ancho, i - 1 \in T PROVE i \in T
    <3>1. i \in 0 .. Ancho
      BY <1>1
    <3>2. s[i] \in 0 .. Peso[i] - 1
      <4> DEFINE q == Peso[i - 1]
                 p == q * bits[i - 1]
      <4>1. q \in Nat \ {0} /\ p \in 0 .. q /\ Peso[i] = 2 * q
        BY <1>2, <1>8
      <4>2. s[i] = s[i - 1] + p /\ s[i - 1] \in 0 .. q - 1
        BY <1>7, <2>2
      <4> HIDE DEF p, q
      <4>3. QED
        BY <4>1, <4>2
    <3>3. QED
      BY <3>1, <3>2
  <2> HIDE DEF T
  <2>3. QED
    BY <1>1, <2>1, <2>2, Contando
<1>10. ASSUME \A i \in 0 .. Ancho - 1 : bits[i] = 0 PROVE \A i \in 0 .. Ancho : i \in U
  <2>1. 0 \in U
    BY <1>1, <1>7
  <2>2. ASSUME NEW i \in 1 .. Ancho, i - 1 \in U PROVE i \in U
    <3>1. i \in 0 .. Ancho /\ Peso[i - 1] * bits[i - 1] = 0
      BY <1>1, <1>2, <1>10
    <3>2. QED
      BY <1>7, <2>2, <3>1
  <2> HIDE DEF U
  <2>3. QED
    BY <1>1, <2>1, <2>2, Contando
<1>11. QED
  BY <1>1, <1>6, <1>9, <1>10 DEF Palabras, Palabra

\* The remainders and quotients of words.
LEMMA Aritmetica ==
  ASSUME NEW p \in Nat \ {0}
  PROVE  /\ \A x \in Int : x % p \in 0 .. p - 1
         /\ \A x \in 0 .. p - 1 : x % p = x
         /\ \A x \in Nat : x \div p \in Nat /\ x \div p <= x /\ x = p * (x \div p) + (x % p)
<1>1. \A x \in Int : x % p \in 0 .. p - 1
  OBVIOUS
<1>2. \A x \in 0 .. p - 1 : x % p = x
  OBVIOUS
<1>3. \A x \in Nat : x \div p \in Nat /\ x \div p <= x /\ x = p * (x \div p) + (x % p)
  OBVIOUS
<1>4. QED
  BY <1>1, <1>2, <1>3

LEMMA Division ==
  ASSUME NEW x \in Nat, NEW p \in Nat \ {0}
  PROVE  /\ x % p \in 0 .. p - 1 /\ x \div p \in Nat /\ x \div p <= x
         /\ x = p * (x \div p) + (x % p)
OBVIOUS

LEMMA Constantes ==
  /\ Ancho \in Nat /\ TamInst \in Nat \ {0} /\ MaxIns \in Nat /\ MaxPasos \in Nat
  /\ Byte \in Nat /\ 4 <= Byte /\ Byte <= Palabra /\ Palabra \in Nat /\ 4 <= Palabra
  /\ Registros \subseteq Palabras /\ 0 \in Registros /\ Registros = 0 .. Byte - 1
  /\ Palabras = 0 .. Palabra - 1 /\ {0, 1, 2, 3} \subseteq Palabras
<1>1. Ancho \in 0 .. Ancho
  BY IrAssumption
<1>2. Palabra \in Nat
  BY <1>1, Pesos DEF Palabra
<1>3. QED
  BY <1>2, IrAssumption DEF Registros, Palabras

\* Every operation gives a word.
LEMMA CalculoDaPalabra ==
  ASSUME NEW op \in Binarias, NEW x \in Palabras, NEW y \in Palabras, ~Imposible(op, y)
  PROVE  /\ Calculo(op, x, y) \in Palabras /\ CalculoVm(op, x, y) \in Palabras
         /\ op # "COMPARAR" => CalculoVm(op, x, y) = Calculo(op, x, y)
<1>1. x \in Nat /\ y \in Nat /\ x < Palabra /\ y < Palabra /\ Palabra \in Nat \ {0}
  BY Constantes
<1>2. (x + y) % Palabra \in Palabras /\ (x - y) % Palabra \in Palabras /\ (x * y) % Palabra \in Palabras
  <2>1. x + y \in Int /\ x - y \in Int /\ x * y \in Int
    BY <1>1
  <2>2. QED
    BY <1>1, <2>1, Aritmetica, Constantes
<1>3. y # 0 => x \div y \in Palabras /\ x % y \in Palabras
  <2> SUFFICES ASSUME y # 0 PROVE x \div y \in Palabras /\ x % y \in Palabras
    OBVIOUS
  <2>1. y \in Nat \ {0} /\ x \in Int
    BY <1>1
  <2>2. x % y \in 0 .. y - 1 /\ x \div y \in Nat /\ x \div y <= x
    BY <1>1, <2>1, Aritmetica
  <2>3. QED
    BY <1>1, <2>2, Constantes
<1>4. ASSUME NEW z \in Nat, NEW i \in 0 .. Ancho - 1 PROVE Bit(z, i) \in {0, 1}
  <2>1. i \in 0 .. Ancho
    BY Constantes
  <2>2. Peso[i] \in Nat \ {0}
    BY <2>1, Pesos
  <2>3. z \div Peso[i] \in Int
    <3>1. \A p \in Nat \ {0} : z \div p \in Int
      BY Aritmetica
    <3>2. QED
      BY <2>2, <3>1
  <2>4. (z \div Peso[i]) % 2 \in 0 .. 1
    BY <2>3
  <2>5. QED
    BY <2>4 DEF Bit
<1>5. /\ DeBits([i \in 0 .. Ancho - 1 |-> Bit(x, i) * Bit(y, i)]) \in Palabras
      /\ DeBits([i \in 0 .. Ancho - 1 |-> Si(1 \in {Bit(x, i), Bit(y, i)})]) \in Palabras
      /\ DeBits([i \in 0 .. Ancho - 1 |-> Si(Bit(x, i) # Bit(y, i))]) \in Palabras
  <2>1. [i \in 0 .. Ancho - 1 |-> Bit(x, i) * Bit(y, i)] \in [0 .. Ancho - 1 -> {0, 1}]
    <3>1. \A i \in 0 .. Ancho - 1 : Bit(x, i) * Bit(y, i) \in {0, 1}
      BY <1>1, <1>4
    <3>2. QED
      BY <3>1
  <2>2. [i \in 0 .. Ancho - 1 |-> Si(1 \in {Bit(x, i), Bit(y, i)})] \in [0 .. Ancho - 1 -> {0, 1}]
    BY DEF Si
  <2>3. [i \in 0 .. Ancho - 1 |-> Si(Bit(x, i) # Bit(y, i))] \in [0 .. Ancho - 1 -> {0, 1}]
    BY DEF Si
  <2>4. QED
    BY <2>1, <2>2, <2>3, BitsSon
<1>6. \A c \in BOOLEAN : Si(c) \in Palabras
  BY Constantes DEF Si
<1>7. \A u, v \in Int : Orden(u, v) \in Palabras
  BY Constantes DEF Orden
<1>8. Signo(x) \in Int /\ Signo(y) \in Int
  BY <1>1 DEF Signo
<1>9. Calculo(op, x, y) \in Palabras
  <2>1. CASE op \in {"SUMAR", "RESTAR", "MULTIPLICAR"}
    BY <1>2, <2>1 DEF Calculo
  <2>2. CASE op \in {"DIVIDIR", "MODULO"}
    BY <1>3, <2>2 DEF Calculo, Imposible
  <2>3. CASE op \in {"Y", "O", "XOR"}
    BY <1>5, <2>3 DEF Calculo
  <2>4. CASE op \in {"CMP_EQ", "CMP_LT", "CMP_GT", "CMP_LE", "CMP_GE"}
    BY <1>8, <2>4, Constantes DEF Calculo, Si
  <2>5. CASE op = "COMPARAR"
    BY <1>1, <1>7, <2>5 DEF Calculo
  <2>6. QED
    BY <2>1, <2>2, <2>3, <2>4, <2>5 DEF Binarias, Comparaciones
<1>10. QED
  BY <1>7, <1>8, <1>9 DEF CalculoVm

-----------------------------------------------------------------------------
(* What the passes over a block leave alone.                               *)

Anota(k, r, V) == [k EXCEPT ![r] = V]

Conocidos == {{}} \cup {{v} : v \in Palabras}

Analisis(n) ==
  [ins : [1 .. n -> Instruccion], datos : Seq(Palabras), quitadas : SUBSET (1 .. n),
   k : [Registros -> Conocidos], vivos : SUBSET Registros, inicio : 1 .. n + 1]

\* Data are only added.
Crece(d, e) == Len(d) <= Len(e) /\ \A j \in 1 .. Len(d) : e[j] = d[j]

\* From s to t nothing but instruction i was rewritten or removed.
SoloEn(s, t, i, n) ==
  /\ t \in Analisis(n) /\ t.inicio = s.inicio
  /\ \A j \in 1 .. n : j # i => t.ins[j] = s.ins[j]
  /\ s.quitadas \subseteq t.quitadas /\ t.quitadas \subseteq s.quitadas \cup {i}
  /\ Crece(s.datos, t.datos)

\* And nothing was removed.
SinQuitar(s, t, i, n) == SoloEn(s, t, i, n) /\ t.quitadas = s.quitadas /\ t.vivos = s.vivos

LEMMA QuitarSolo ==
  ASSUME NEW n \in Nat, NEW st \in Analisis(n), NEW i \in 1 .. n
  PROVE  /\ SoloEn(st, Quitar(st, i), i, n) /\ Quitar(st, i).ins[i] = Nop
         /\ Quitar(st, i).quitadas = st.quitadas \cup {i}
         /\ Quitar(st, i).k = st.k /\ Quitar(st, i).datos = st.datos /\ Quitar(st, i).vivos = st.vivos
<1>1. Nop \in Instruccion
  BY Constantes DEF Nop, Instruccion, Opcodes
<1> DEFINE t == Quitar(st, i)
<1>2. /\ t \in Analisis(n) /\ t.ins = [st.ins EXCEPT ![i] = Nop] /\ t.quitadas = st.quitadas \cup {i}
      /\ t.k = st.k /\ t.datos = st.datos /\ t.vivos = st.vivos /\ t.inicio = st.inicio
  BY <1>1 DEF Quitar, Analisis
<1>3. st.ins \in [1 .. n -> Instruccion] /\ Len(st.datos) \in Nat
  BY DEF Analisis
<1> HIDE DEF t
<1>4. SoloEn(st, t, i, n) /\ t.ins[i] = Nop
  BY <1>2, <1>3 DEF SoloEn, Crece
<1>5. QED
  BY <1>2, <1>4 DEF t

LEMMA ReescribirSolo ==
  ASSUME NEW n \in Nat, NEW st \in Analisis(n), NEW i \in 1 .. n, NEW inst \in Instruccion
  PROVE  /\ SoloEn(st, Reescribir(st, i, inst), i, n) /\ Reescribir(st, i, inst).ins[i] = inst
         /\ Reescribir(st, i, inst).quitadas = st.quitadas
         /\ Reescribir(st, i, inst).k = st.k /\ Reescribir(st, i, inst).datos = st.datos
         /\ Reescribir(st, i, inst).vivos = st.vivos
<1> DEFINE t == Reescribir(st, i, inst)
<1>1. /\ t \in Analisis(n) /\ t.ins = [st.ins EXCEPT ![i] = inst] /\ t.quitadas = st.quitadas
      /\ t.k = st.k /\ t.datos = st.datos /\ t.vivos = st.vivos /\ t.inicio = st.inicio
  BY DEF Reescribir, Analisis
<1>2. st.ins \in [1 .. n -> Instruccion] /\ Len(st.datos) \in Nat
  BY DEF Analisis
<1> HIDE DEF t
<1>3. SoloEn(st, t, i, n) /\ t.ins[i] = inst
  BY <1>1, <1>2 DEF SoloEn, Crece
<1>4. QED
  BY <1>1, <1>3 DEF t

LEMMA SabidoSolo ==
  ASSUME NEW n \in Nat, NEW st \in Analisis(n), NEW r \in Registros, NEW V \in Conocidos
  PROVE  LET t == Sabido(st, r, V)
         IN  /\ t \in Analisis(n) /\ t.inicio = st.inicio /\ t.ins = st.ins /\ t.quitadas = st.quitadas
             /\ t.datos = st.datos /\ t.vivos = st.vivos /\ t.k = Anota(st.k, r, V)
BY DEF Sabido, Analisis, Anota

LEMMA OperandoConocido ==
  ASSUME NEW n \in Nat, NEW st \in Analisis(n), NEW inst, NEW x \in Registros, NEW bandera
  PROVE  Operando(st, inst, x, bandera) \in Conocidos
<1>1. x \in Palabras
  BY Constantes
<1>2. QED
  BY <1>1 DEF Operando, Conocidos, Analisis

\* Rewriting and noting what is known.
LEMMA ReescribirYSaber ==
  ASSUME NEW n \in Nat, NEW st \in Analisis(n), NEW i \in 1 .. n, NEW inst \in Instruccion,
         NEW r \in Registros, NEW V \in Conocidos,
         NEW t, t = Sabido(Reescribir(st, i, inst), r, V)
  PROVE  /\ SoloEn(st, t, i, n) /\ t.ins[i] = inst /\ t.quitadas = st.quitadas
         /\ t.datos = st.datos /\ t.vivos = st.vivos /\ t.k = Anota(st.k, r, V)
<1> DEFINE u == Reescribir(st, i, inst)
<1>1. /\ SoloEn(st, u, i, n) /\ u.ins[i] = inst /\ u.quitadas = st.quitadas
      /\ u.k = st.k /\ u.datos = st.datos /\ u.vivos = st.vivos
  BY ReescribirSolo
<1>2. u \in Analisis(n)
  BY <1>1 DEF SoloEn
<1> HIDE DEF u
<1>3. /\ t \in Analisis(n) /\ t.inicio = u.inicio /\ t.ins = u.ins /\ t.quitadas = u.quitadas
      /\ t.datos = u.datos /\ t.vivos = u.vivos /\ t.k = Anota(u.k, r, V)
  BY <1>2, SabidoSolo DEF u
<1>4. QED
  BY <1>1, <1>3 DEF SoloEn

LEMMA SabidoSoloEn ==
  ASSUME NEW n \in Nat, NEW st \in Analisis(n), NEW i \in 1 .. n, NEW r \in Registros, NEW V \in Conocidos,
         NEW t, t = Sabido(st, r, V)
  PROVE  /\ SoloEn(st, t, i, n) /\ t.ins = st.ins /\ t.quitadas = st.quitadas
         /\ t.datos = st.datos /\ t.vivos = st.vivos /\ t.k = Anota(st.k, r, V)
<1>1. Len(st.datos) \in Nat
  BY DEF Analisis
<1>2. QED
  BY <1>1, SabidoSolo DEF SoloEn, Crece

\* An operand of two bytes reaches this far.
Alcanza(x) == x < Byte * Byte

\* What fold_to_literal comes to: an immediate operand, a literal, or nothing.
LEMMA PlegadoSon ==
  ASSUME NEW n \in Nat, NEW st \in Analisis(n), NEW i \in 1 .. n, NEW v \in Palabras,
         NEW t, t = Plegado(st, i, v)
  PROVE  /\ SinQuitar(st, t, i, n)
         /\ \/ /\ v < Byte
               /\ t.ins[i] = Inmediata(st.ins[i].a, v)
               /\ t.k = Anota(st.k, st.ins[i].a, {v})
            \/ /\ t.ins[i] = DeDatos(st.ins[i].a, Len(st.datos))
               /\ t.datos = Append(st.datos, v) /\ Alcanza(Len(st.datos))
               /\ t.k = Anota(st.k, st.ins[i].a, {v})
            \/ /\ t.ins = st.ins
               /\ t.k = Anota(st.k, st.ins[i].a, {})
<1> DEFINE r  == st.ins[i].a
           nd == Len(st.datos)
           corta == Inmediata(r, v)
           larga == DeDatos(r, nd)
           con   == [st EXCEPT !.datos = Append(@, v)]
<1>1. r \in Registros /\ {v} \in Conocidos /\ {} \in Conocidos /\ nd \in Nat /\ st.datos \in Seq(Palabras)
  BY DEF Analisis, Instruccion, Conocidos
<1>2. con \in Analisis(n) /\ Crece(st.datos, Append(st.datos, v)) /\ con.ins = st.ins
  <2> DEFINE e == Append(st.datos, v)
  <2>1. e \in Seq(Palabras)
    BY <1>1
  <2>2. Len(e) = nd + 1 /\ \A j \in 1 .. nd : e[j] = st.datos[j]
    BY <1>1
  <2>3. Crece(st.datos, e)
    BY <1>1, <2>2 DEF Crece
  <2>4. con = [st EXCEPT !.datos = e]
    OBVIOUS
  <2> HIDE DEF e
  <2>5. con \in Analisis(n) /\ con.ins = st.ins
    BY <2>1, <2>4 DEF Analisis
  <2>6. QED
    BY <2>3, <2>5 DEF e
<1>3. CASE v < Byte
  <2>1. corta \in Instruccion
    BY <1>1, <1>3, Constantes DEF Inmediata, Instruccion, Opcodes, Definen, Palabras
  <2>2. t = Sabido(Reescribir(st, i, corta), r, {v})
    BY <1>3 DEF Plegado, Literal
  <2> HIDE DEF corta, r, nd, larga, con
  <2>3. /\ SoloEn(st, t, i, n) /\ t.ins[i] = corta /\ t.quitadas = st.quitadas
        /\ t.datos = st.datos /\ t.vivos = st.vivos /\ t.k = Anota(st.k, r, {v})
    BY <1>1, <2>1, <2>2, ReescribirYSaber
  <2>4. QED
    BY <1>3, <2>3 DEF corta, r, nd, SinQuitar
<1>4. CASE ~(v < Byte) /\ nd < Byte * Byte
  <2>1. nd % Byte \in Registros /\ nd \div Byte \in Registros
    <3>1. Byte \in Nat \ {0}
      BY Constantes
    <3>2. nd % Byte \in 0 .. Byte - 1 /\ nd \div Byte \in Nat /\ nd = Byte * (nd \div Byte) + (nd % Byte)
      BY <1>1, <3>1, Division
    <3>3. ASSUME nd \div Byte >= Byte PROVE FALSE
      <4> DEFINE q == nd \div Byte
      <4>1. q \in Nat /\ q >= Byte /\ nd >= Byte * q
        <5>1. nd % Byte >= 0 /\ q \in Nat /\ Byte * q \in Nat /\ nd % Byte \in Nat
          <6>1. q \in Nat
            BY <3>2
          <6> DEFINE m == nd % Byte
          <6>2. m \in 0 .. Byte - 1
            BY <3>2
          <6> HIDE DEF q, m
          <6>3. m >= 0 /\ m \in Nat /\ Byte * q \in Nat
            BY <3>1, <6>1, <6>2
          <6>4. QED
            BY <6>1, <6>3 DEF m
        <5>2. nd = Byte * q + (nd % Byte)
          BY <3>2
        <5>3. QED
          BY <1>1, <3>3, <5>1, <5>2
      <4> HIDE DEF q
      <4>2. Byte * q >= Byte * Byte
        BY <3>1, <4>1
      <4>3. QED
        BY <1>1, <1>4, <3>1, <4>1, <4>2
    <3>4. nd \div Byte \in 0 .. Byte - 1
      <4> DEFINE q == nd \div Byte
      <4>1. q \in Nat /\ ~(q >= Byte)
        BY <3>2, <3>3
      <4> HIDE DEF q
      <4>2. q \in 0 .. Byte - 1
        BY <3>1, <4>1
      <4>3. QED
        BY <4>2 DEF q
    <3>5. QED
      BY <3>2, <3>4, Constantes
  <2>2. larga \in Instruccion
    BY <1>1, <2>1 DEF DeDatos, Instruccion, Opcodes, Definen
  <2> DEFINE u == [Reescribir(st, i, larga) EXCEPT !.datos = Append(@, v)]
  <2>3. t = Sabido(u, r, {v})
    BY <1>4 DEF Plegado, Literal
  <2>4. u = Reescribir(con, i, larga)
    BY DEF Reescribir, Analisis
  <2>5. t = Sabido(Reescribir(con, i, larga), r, {v})
    BY <2>3, <2>4
  <2> HIDE DEF larga, u, con
  <2>6. /\ SoloEn(con, t, i, n) /\ t.ins[i] = larga /\ t.quitadas = con.quitadas
        /\ t.datos = con.datos /\ t.vivos = con.vivos /\ t.k = Anota(con.k, r, {v})
    BY <1>1, <1>2, <2>2, <2>5, ReescribirYSaber
  <2>7. /\ con.quitadas = st.quitadas /\ con.vivos = st.vivos /\ con.k = st.k /\ con.inicio = st.inicio
        /\ con.datos = Append(st.datos, v)
    BY DEF con, Analisis
  <2>8. SoloEn(st, t, i, n)
    BY <1>2, <2>6, <2>7 DEF SoloEn
  <2>9. QED
    BY <1>4, <2>6, <2>7, <2>8 DEF larga, Alcanza, SinQuitar
<1>5. CASE ~(v < Byte) /\ ~(nd < Byte * Byte)
  <2>1. t = Sabido(con, r, {})
    BY <1>5 DEF Plegado
  <2>2. /\ con.quitadas = st.quitadas /\ con.vivos = st.vivos /\ con.k = st.k /\ con.inicio = st.inicio
        /\ con.datos = Append(st.datos, v)
    BY DEF con, Analisis
  <2> HIDE DEF con
  <2>3. /\ SoloEn(con, t, i, n) /\ t.ins = con.ins /\ t.quitadas = con.quitadas
        /\ t.datos = con.datos /\ t.vivos = con.vivos /\ t.k = Anota(con.k, r, {})
    BY <1>1, <1>2, <2>1, SabidoSoloEn
  <2>4. SoloEn(st, t, i, n)
    BY <1>2, <2>2, <2>3 DEF SoloEn
  <2>5. QED
    BY <1>2, <2>2, <2>3, <2>4 DEF SinQuitar
<1>6. QED
  BY <1>3, <1>4, <1>5

-----------------------------------------------------------------------------
(* What the forward pass does to each kind of instruction.                 *)

Elegido(V) == CHOOSE v \in V : TRUE

LEMMA ElegidoEs ==
  ASSUME NEW V \in Conocidos, V # {}
  PROVE  Elegido(V) \in Palabras /\ V = {Elegido(V)}
<1>1. PICK v \in Palabras : V = {v}
  BY DEF Conocidos
<1>2. Elegido(V) \in V
  BY <1>1 DEF Elegido
<1>3. QED
  BY <1>1, <1>2

\* What the forward pass leaves of a MOVER: nothing, a shorter one, or the same.
TrasMover(s, t, i, inst, V) ==
  \/ /\ t.ins[i] = Nop /\ t.k = s.k
     /\ IF Es(inst, "B") THEN s.k[inst.a] = {inst.b} ELSE inst.b = inst.a
  \/ /\ t.quitadas = s.quitadas
     /\ \E v \in Palabras : /\ V = {v} /\ v < Byte /\ t.k = Anota(s.k, inst.a, {v})
                            /\ t.ins[i] = ConInmediato(inst, v)
  \/ t.quitadas = s.quitadas /\ t.ins = s.ins /\ t.k = Anota(s.k, inst.a, V)

LEMMA MoverSon ==
  ASSUME NEW n \in Nat, NEW st \in Analisis(n), NEW i \in 1 .. n, NEW inst, inst = st.ins[i],
         NEW V, V = Operando(st, inst, inst.b, "B"), NEW t, t = AnalizarMover(st, i)
  PROVE  /\ SoloEn(st, t, i, n) /\ t.vivos = st.vivos /\ t.datos = st.datos
         /\ TrasMover(st, t, i, inst, V)
<1>1. inst \in Instruccion /\ inst.a \in Registros /\ inst.b \in Registros
  BY DEF Analisis, Instruccion
<1>2. V \in Conocidos
  BY <1>1, OperandoConocido
<1> DEFINE sobra == IF Es(inst, "B") THEN st.k[inst.a] = {inst.b} ELSE inst.b = inst.a
           nuevo == Sabido(st, inst.a, V)
           v     == Elegido(V)
           corta == ConInmediato(inst, v)
<1>3. t = IF sobra THEN Quitar(st, i) ELSE IF \E w \in V : w < Byte THEN Reescribir(nuevo, i, corta) ELSE nuevo
  BY DEF AnalizarMover, Elegido
<1>4. CASE sobra
  <2>1. t = Quitar(st, i)
    BY <1>3, <1>4
  <2>2. /\ SoloEn(st, t, i, n) /\ t.ins[i] = Nop /\ t.k = st.k
        /\ t.datos = st.datos /\ t.vivos = st.vivos
    BY <2>1, QuitarSolo
  <2> HIDE DEF nuevo, corta, v
  <2>3. TrasMover(st, t, i, inst, V)
    BY <1>4, <2>2 DEF TrasMover
  <2>4. QED
    BY <2>2, <2>3
<1>5. CASE ~sobra /\ \E w \in V : w < Byte
  <2>1. v \in Palabras /\ V = {v} /\ v < Byte
    BY <1>2, <1>5, ElegidoEs
  <2>2. corta \in Instruccion
    <3>1. v \in Registros
      BY <2>1, Constantes
    <3>2. inst.f \cup {"B"} \in SUBSET {"A", "B", "C", "R"}
      BY <1>1 DEF Instruccion
    <3> HIDE DEF v
    <3>3. QED
      BY <1>1, <3>1, <3>2 DEF Instruccion, ConInmediato
  <2>3. t = Reescribir(nuevo, i, corta)
    BY <1>3, <1>5
  <2> HIDE DEF corta, v
  <2>4. t = Sabido(Reescribir(st, i, corta), inst.a, V)
    BY <2>3 DEF Reescribir, Sabido, Analisis
  <2>5. /\ SoloEn(st, t, i, n) /\ t.ins[i] = corta /\ t.quitadas = st.quitadas
        /\ t.datos = st.datos /\ t.vivos = st.vivos /\ t.k = Anota(st.k, inst.a, V)
    BY <1>1, <1>2, <2>2, <2>4, ReescribirYSaber
  <2>6. corta = ConInmediato(inst, v)
    BY DEF corta
  <2>7. QED
    BY <2>1, <2>5, <2>6 DEF TrasMover
<1>6. CASE ~sobra /\ ~\E w \in V : w < Byte
  <2>1. t = Sabido(st, inst.a, V)
    BY <1>3, <1>6
  <2> HIDE DEF sobra, nuevo, v, corta
  <2>2. /\ SoloEn(st, t, i, n) /\ t.ins = st.ins /\ t.quitadas = st.quitadas
        /\ t.datos = st.datos /\ t.vivos = st.vivos /\ t.k = Anota(st.k, inst.a, V)
    BY <1>1, <1>2, <2>1, SabidoSoloEn
  <2>3. TrasMover(st, t, i, inst, V)
    BY <2>2 DEF TrasMover
  <2>4. QED
    BY <2>2, <2>3
<1>7. QED
  BY <1>4, <1>5, <1>6

LEMMA ReducidaEsInstruccion ==
  ASSUME NEW inst \in Instruccion, NEW X, NEW Y
  PROVE  Reducida(inst, X, Y) \in Instruccion
<1>1. inst.a \in Registros /\ inst.b \in Registros /\ inst.c \in Registros /\ 0 \in Registros
  BY Constantes DEF Instruccion
<1>2. Cero(inst) \in Instruccion
  BY <1>1 DEF Cero, Instruccion, Opcodes, Definen
<1>3. Copia(inst, "B", inst.b) \in Instruccion /\ Copia(inst, "C", inst.c) \in Instruccion
  BY <1>1 DEF Copia, Instruccion, Opcodes, Definen
<1>4. QED
  BY <1>2, <1>3 DEF Reducida

LEMMA BinariaSon ==
  ASSUME NEW n \in Nat, NEW st \in Analisis(n), NEW i \in 1 .. n, NEW inst, inst = st.ins[i],
         NEW X, X = Operando(st, inst, inst.b, "B"), NEW Y, Y = Operando(st, inst, inst.c, "C"),
         NEW t, t = AnalizarBinaria(st, i), inst.op \in Binarias
  PROVE  /\ SoloEn(st, t, i, n) /\ t.vivos = st.vivos /\ t.quitadas = st.quitadas
         /\ \/ /\ {} \in {X, Y} /\ t.ins[i] = Reducida(inst, X, Y)
               /\ t.k = Anota(st.k, inst.a, {})
            \/ /\ t.ins = st.ins /\ t.k = Anota(st.k, inst.a, {})
            \/ \E x, y \in Palabras : /\ X = {x} /\ Y = {y} /\ ~Imposible(inst.op, y)
                                      /\ t = Plegado(st, i, Calculo(inst.op, x, y))
<1>1. inst \in Instruccion /\ inst.a \in Registros /\ inst.b \in Registros /\ inst.c \in Registros
  BY DEF Analisis, Instruccion
<1>2. X \in Conocidos /\ Y \in Conocidos /\ {} \in Conocidos
  BY <1>1, OperandoConocido DEF Conocidos
<1> DEFINE x == Elegido(X)
           y == Elegido(Y)
<1>3. t = IF {} \in {X, Y} THEN Sabido(Reescribir(st, i, Reducida(inst, X, Y)), inst.a, {})
          ELSE IF Imposible(inst.op, y) THEN Sabido(st, inst.a, {})
          ELSE Plegado(st, i, Calculo(inst.op, x, y))
  BY DEF AnalizarBinaria, Elegido
<1>4. CASE {} \in {X, Y}
  <2>1. t = Sabido(Reescribir(st, i, Reducida(inst, X, Y)), inst.a, {})
    BY <1>3, <1>4
  <2>2. Reducida(inst, X, Y) \in Instruccion
    BY <1>1, ReducidaEsInstruccion
  <2> DEFINE corta == Reducida(inst, X, Y)
  <2> HIDE DEF corta, x, y
  <2>3. corta \in Instruccion /\ t = Sabido(Reescribir(st, i, corta), inst.a, {})
    BY <2>1, <2>2 DEF corta
  <2>4. /\ SoloEn(st, t, i, n) /\ t.ins[i] = corta /\ t.quitadas = st.quitadas
        /\ t.datos = st.datos /\ t.vivos = st.vivos /\ t.k = Anota(st.k, inst.a, {})
    BY <1>1, <1>2, <2>3, ReescribirYSaber
  <2>5. QED
    BY <1>4, <2>4 DEF corta
<1>5. CASE {} \notin {X, Y}
  <2>1. x \in Palabras /\ X = {x} /\ y \in Palabras /\ Y = {y}
    BY <1>2, <1>5, ElegidoEs
  <2> HIDE DEF x, y
  <2>2. CASE Imposible(inst.op, y)
    <3>1. t = Sabido(st, inst.a, {})
      BY <1>3, <1>5, <2>2
    <3>2. QED
      BY <1>1, <1>2, <3>1, SabidoSoloEn
  <2>3. CASE ~Imposible(inst.op, y)
    <3>1. t = Plegado(st, i, Calculo(inst.op, x, y))
      BY <1>3, <1>5, <2>3
    <3>2. Calculo(inst.op, x, y) \in Palabras
      BY <2>1, <2>3, CalculoDaPalabra
    <3> DEFINE v == Calculo(inst.op, x, y)
    <3> HIDE DEF v
    <3>3. SinQuitar(st, t, i, n)
      <4>1. v \in Palabras /\ t = Plegado(st, i, v)
        BY <3>1, <3>2 DEF v
      <4>2. QED
        BY <4>1, PlegadoSon
    <3>4. QED
      BY <2>1, <2>3, <3>1, <3>3 DEF v, SinQuitar
  <2>4. QED
    BY <2>2, <2>3
<1>6. QED
  BY <1>4, <1>5

LEMMA NoSon ==
  ASSUME NEW n \in Nat, NEW st \in Analisis(n), NEW i \in 1 .. n, st.ins[i].op = "NO",
         NEW t, t = AnalizarNo(st, i)
  PROVE  SinQuitar(st, t, i, n)
<1> DEFINE inst == st.ins[i]
           X    == Operando(st, inst, inst.b, "B")
           x    == Elegido(X)
<1>1. inst \in Instruccion /\ inst.a \in Registros /\ inst.b \in Registros
  BY DEF Analisis, Instruccion
<1>2. X \in Conocidos /\ {} \in Conocidos
  BY <1>1, OperandoConocido DEF Conocidos
<1>3. t = IF X = {} THEN Sabido(st, inst.a, {}) ELSE Plegado(st, i, Palabra - 1 - x)
  BY DEF AnalizarNo, Elegido
<1> HIDE DEF X, inst
<1>4. CASE X = {}
  BY <1>1, <1>2, <1>3, <1>4, SabidoSoloEn DEF SinQuitar
<1>5. CASE X # {}
  <2>1. x \in Palabras
    BY <1>2, <1>5, ElegidoEs
  <2> DEFINE v == Palabra - 1 - x
  <2> HIDE DEF x
  <2>2. v \in Palabras /\ t = Plegado(st, i, v)
    BY <1>3, <1>5, <2>1, Constantes
  <2> HIDE DEF v
  <2>3. QED
    BY <2>2, PlegadoSon
<1>6. QED
  BY <1>4, <1>5

\* The unconditional jump that a condition which holds leaves.
Incondicional(inst) ==
  [op |-> "IR", f |-> (inst.f \cap {"R"}) \cup {"A"}, a |-> inst.b, b |-> 0, c |-> 0]

\* What it leaves of a SI: the same, nothing, or that jump.
TrasSi(s, t, i, inst, X) ==
  \/ X = {} /\ t = s
  \/ X = {0} /\ t.ins[i] = Nop
  \/ X \notin {{}, {0}} /\ t.quitadas = s.quitadas /\ t.ins[i] = Incondicional(inst)

LEMMA SiSon ==
  ASSUME NEW n \in Nat, NEW st \in Analisis(n), NEW i \in 1 .. n, NEW inst, inst = st.ins[i],
         NEW X, X = Operando(st, inst, inst.a, "A"), NEW t, t = AnalizarSi(st, i)
  PROVE  /\ SoloEn(st, t, i, n) /\ t.vivos = st.vivos /\ t.k = st.k
         /\ TrasSi(st, t, i, inst, X)
<1>1. inst \in Instruccion /\ inst.a \in Registros /\ inst.b \in Registros /\ Len(st.datos) \in Nat
  BY DEF Analisis, Instruccion
<1>2. CASE X = {}
  <2>1. t = st
    BY <1>2 DEF AnalizarSi
  <2>2. QED
    BY <1>1, <1>2, <2>1 DEF SoloEn, Crece, TrasSi
<1>3. CASE X = {0}
  <2>1. t = Quitar(st, i)
    BY <1>3 DEF AnalizarSi
  <2>2. QED
    BY <1>3, <2>1, QuitarSolo DEF TrasSi
<1>4. CASE X \notin {{}, {0}}
  <2>1. t = Reescribir(st, i, Incondicional(inst))
    BY <1>4 DEF AnalizarSi, Incondicional
  <2>2. Incondicional(inst) \in Instruccion
    BY <1>1, Constantes DEF Incondicional, Instruccion, Opcodes, Saltos
  <2>3. QED
    BY <1>4, <2>1, <2>2, ReescribirSolo DEF TrasSi
<1>5. QED
  BY <1>2, <1>3, <1>4

\* Analizar touches its instruction, and removes no other.
Tocada(s, t, i, n) ==
  /\ SoloEn(s, t, i, n) /\ t.vivos = s.vivos
  /\ t.quitadas = s.quitadas \/ t.ins[i] = Nop

LEMMA AnalizarSolo ==
  ASSUME NEW n \in Nat, NEW st \in Analisis(n), NEW i \in 1 .. n, NEW t, t = Analizar(st, i)
  PROVE  Tocada(st, t, i, n)
<1>1. CASE st.ins[i].op = "MOVER"
  <2> DEFINE V == Operando(st, st.ins[i], st.ins[i].b, "B")
  <2>1. t = AnalizarMover(st, i)
    BY <1>1 DEF Analizar, Binarias, Comparaciones
  <2> HIDE DEF V
  <2>2. QED
    BY <2>1, MoverSon DEF Tocada, TrasMover, V
<1>2. CASE st.ins[i].op \in Binarias
  <2>1. t = AnalizarBinaria(st, i)
    BY <1>2 DEF Analizar, Binarias, Comparaciones
  <2>2. QED
    BY <1>2, <2>1, BinariaSon DEF Tocada
<1>3. CASE st.ins[i].op = "NO"
  <2>1. t = AnalizarNo(st, i)
    BY <1>3 DEF Analizar, Binarias, Comparaciones
  <2>2. QED
    BY <1>3, <2>1, NoSon DEF Tocada, SinQuitar
<1>4. CASE st.ins[i].op = "SI"
  <2> DEFINE X == Operando(st, st.ins[i], st.ins[i].a, "A")
  <2>1. t = AnalizarSi(st, i)
    BY <1>4 DEF Analizar, Binarias, Comparaciones
  <2> HIDE DEF X
  <2>2. QED
    BY <1>4, <2>1, SiSon DEF Tocada, TrasSi, X
<1>5. CASE st.ins[i].op \notin Binarias \cup {"MOVER", "NO", "SI"}
  <2>1. t = st
    BY <1>5 DEF Analizar
  <2>2. Len(st.datos) \in Nat
    BY DEF Analisis
  <2>3. QED
    BY <2>1, <2>2 DEF Tocada, SoloEn, Crece
<1>6. QED
  BY <1>1, <1>2, <1>3, <1>4, <1>5

-----------------------------------------------------------------------------
(* The two passes over a block, and the program.                           *)

Define(inst) == IF inst.op \in Definen THEN {inst.a} ELSE {}

\* What an instruction leaves of the registers that are read.
Antes(inst, despues) == (despues \ Define(inst)) \cup Usa(inst)

LEMMA PodarSolo ==
  ASSUME NEW n \in Nat, NEW st \in Analisis(n), NEW i \in 1 .. n, NEW t, t = Podar(st, i)
  PROVE  /\ SoloEn(st, t, i, n) /\ t.datos = st.datos
         /\ \/ i \in st.quitadas /\ t = st
            \/ /\ st.ins[i].op \in Definen /\ st.ins[i].a \notin st.vivos
               /\ t.ins[i] = Nop /\ t.vivos = st.vivos
            \/ t.ins[i] = st.ins[i] /\ t.vivos = Antes(st.ins[i], st.vivos)
<1> DEFINE inst == st.ins[i]
           V    == Antes(inst, st.vivos)
<1>1. inst \in Instruccion /\ {inst.a, inst.b, inst.c} \subseteq Registros /\ Len(st.datos) \in Nat
  BY DEF Analisis, Instruccion
<1>2. V \in SUBSET Registros
  <2>1. Usa(inst) \subseteq Registros
    BY <1>1 DEF Usa, Leidos
  <2>2. st.vivos \subseteq Registros
    BY DEF Analisis
  <2>3. QED
    BY <2>1, <2>2 DEF Antes
<1>3. t = IF i \in st.quitadas THEN st
          ELSE IF Define(inst) # {} /\ Define(inst) \cap st.vivos = {} THEN Quitar(st, i)
          ELSE [st EXCEPT !.vivos = V]
  BY DEF Podar, Define, Antes
<1> HIDE DEF V, inst
<1>4. CASE i \in st.quitadas
  BY <1>1, <1>3, <1>4 DEF SoloEn, Crece
<1>5. CASE i \notin st.quitadas /\ Define(inst) # {} /\ Define(inst) \cap st.vivos = {}
  <2>1. t = Quitar(st, i) /\ inst.op \in Definen /\ inst.a \notin st.vivos
    BY <1>3, <1>5 DEF Define
  <2>2. QED
    BY <2>1, QuitarSolo DEF inst
<1>6. CASE i \notin st.quitadas /\ ~(Define(inst) # {} /\ Define(inst) \cap st.vivos = {})
  <2>1. t = [st EXCEPT !.vivos = V]
    BY <1>3, <1>6
  <2>2. /\ t \in Analisis(n) /\ t.ins = st.ins /\ t.datos = st.datos /\ t.quitadas = st.quitadas
        /\ t.inicio = st.inicio /\ t.vivos = V
    BY <1>2, <2>1 DEF Analisis
  <2>3. QED
    BY <1>1, <2>2 DEF SoloEn, Crece, V, inst
<1>7. QED
  BY <1>4, <1>5, <1>6

\* The states of the forward pass from the state b of a block: one per instruction.
EsIda(g, st, L) ==
  /\ g[0] = [st EXCEPT !.k = NadaSabido]
  /\ \A d \in 1 .. L : g[d] = Analizar(g[d - 1], st.inicio + d - 1)

LEMMA IdaEs ==
  ASSUME NEW n \in Nat, NEW st \in Analisis(n), NEW fin \in st.inicio .. n,
         NEW L, L = fin + 1 - st.inicio
  PROVE  \E g \in [0 .. L -> Analisis(n)] : EsIda(g, st, L) /\ Ida(st, fin) = g[L]
<1> DEFINE S == Analisis(n)
           x == [st EXCEPT !.k = NadaSabido]
           A(u, d) == Analizar(u, st.inicio + d - 1)
           G == [p \in (1 .. L) \X S |-> A(p[2], p[1])]
           R(f) == f = [d \in 0 .. L |-> IF d = 0 THEN x ELSE A(f[d - 1], d)]
           s == CHOOSE f : R(f)
<1>1. st.inicio \in 1 .. n /\ L \in Nat /\ L > 0 /\ \A d \in 1 .. L : st.inicio + d - 1 \in 1 .. n
  BY DEF Analisis
<1>0. L \in Nat
  BY <1>1
<1>2. NadaSabido \in [Registros -> Conocidos] /\ x \in S
  <2>1. NadaSabido \in [Registros -> Conocidos]
    BY Constantes DEF NadaSabido, Conocidos
  <2>2. QED
    BY <2>1 DEF Analisis
<1>3. \A d \in 1 .. L : \A u \in S : A(u, d) \in S
  BY <1>1, AnalizarSolo DEF Tocada, SoloEn
<1> HIDE DEF x, S, A
<1>4. PICK f \in [0 .. L -> S] : EsIteracion(f, x, G, L)
  <2>1. \A p \in (1 .. L) \X S : A(p[2], p[1]) \in S
    BY <1>3
  <2>2. G \in [(1 .. L) \X S -> S]
    BY <2>1
  <2> HIDE DEF G
  <2>3. QED
    BY <1>1, <1>2, <2>2, HayIteracion
<1>5. R(f)
  <2>1. f = [d \in 0 .. L |-> IF d = 0 THEN x ELSE G[<<d, f[d - 1]>>]]
    BY <1>4 DEF EsIteracion
  <2>2. \A d \in 1 .. L : G[<<d, f[d - 1]>>] = A(f[d - 1], d)
    <3> TAKE d \in 1 .. L
    <3>0. d - 1 \in 0 .. L
      BY <1>0
    <3>1. f[d - 1] \in S
      BY <1>4, <3>0
    <3>2. QED
      BY <3>1
  <2> HIDE DEF G
  <2>3. \A d \in 0 .. L : d = 0 \/ d \in 1 .. L
    BY <1>0
  <2>4. QED
    BY <2>1, <2>2, <2>3
<1>6. R(s)
  <2> HIDE DEF R
  <2>1. QED
    BY <1>5
<1>7. Ida(st, fin) = s[L]
  BY DEF Ida, x, A
<1> HIDE DEF s, G
<1>8. s[0] = x /\ \A d \in 1 .. L : s[d] = A(s[d - 1], d)
  BY <1>1, <1>6
<1> HIDE DEF R
<1> DEFINE T == {d \in 0 .. L : s[d] \in S}
<1>9. \A d \in 0 .. L : d \in T
  <2>1. 0 \in T
    BY <1>1, <1>2, <1>8
  <2>2. ASSUME NEW d \in 1 .. L, d - 1 \in T PROVE d \in T
    BY <1>1, <1>3, <1>8, <2>2
  <2> HIDE DEF T
  <2>3. QED
    BY <1>1, <2>1, <2>2, Contando
<1>10. s \in [0 .. L -> S]
  BY <1>6, <1>9 DEF R
<1>11. QED
  BY <1>7, <1>8, <1>10 DEF EsIda, x, S, A
\* The states of the backward pass, from the last instruction of the block.
EsVuelta(g, st, fin, L) ==
  /\ g[0] = [st EXCEPT !.vivos = IF st.ins[fin].op \in Saltos THEN Registros ELSE {0}]
  /\ \A d \in 1 .. L : g[d] = Podar(g[d - 1], fin + 1 - d)

LEMMA VueltaEs ==
  ASSUME NEW n \in Nat, NEW st \in Analisis(n), NEW fin \in st.inicio .. n,
         NEW L, L = fin + 1 - st.inicio
  PROVE  \E g \in [0 .. L -> Analisis(n)] : EsVuelta(g, st, fin, L) /\ Vuelta(st, fin) = g[L]
<1> DEFINE S == Analisis(n)
           x == [st EXCEPT !.vivos = IF st.ins[fin].op \in Saltos THEN Registros ELSE {0}]
           A(u, d) == Podar(u, fin + 1 - d)
           G == [p \in (1 .. L) \X S |-> A(p[2], p[1])]
           R(f) == f = [d \in 0 .. L |-> IF d = 0 THEN x ELSE A(f[d - 1], d)]
           s == CHOOSE f : R(f)
<1>1. st.inicio \in 1 .. n /\ L \in Nat /\ L > 0 /\ \A d \in 1 .. L : fin + 1 - d \in 1 .. n
  BY DEF Analisis
<1>0. L \in Nat
  BY <1>1
<1>2. x \in S
  BY Constantes DEF Analisis
<1>3. \A d \in 1 .. L : \A u \in S : A(u, d) \in S
  BY <1>1, PodarSolo DEF SoloEn
<1> HIDE DEF x, S, A
<1>4. PICK f \in [0 .. L -> S] : EsIteracion(f, x, G, L)
  <2>1. \A p \in (1 .. L) \X S : A(p[2], p[1]) \in S
    BY <1>3
  <2>2. G \in [(1 .. L) \X S -> S]
    BY <2>1
  <2> HIDE DEF G
  <2>3. QED
    BY <1>1, <1>2, <2>2, HayIteracion
<1>5. R(f)
  <2>1. f = [d \in 0 .. L |-> IF d = 0 THEN x ELSE G[<<d, f[d - 1]>>]]
    BY <1>4 DEF EsIteracion
  <2>2. \A d \in 1 .. L : G[<<d, f[d - 1]>>] = A(f[d - 1], d)
    <3> TAKE d \in 1 .. L
    <3>0. d - 1 \in 0 .. L
      BY <1>0
    <3>1. f[d - 1] \in S
      BY <1>4, <3>0
    <3>2. QED
      BY <3>1
  <2> HIDE DEF G
  <2>3. \A d \in 0 .. L : d = 0 \/ d \in 1 .. L
    BY <1>0
  <2>4. QED
    BY <2>1, <2>2, <2>3
<1>6. R(s)
  <2> HIDE DEF R
  <2>1. QED
    BY <1>5
<1>7. Vuelta(st, fin) = s[L]
  BY DEF Vuelta, x, A
<1> HIDE DEF s, G
<1>8. s[0] = x /\ \A d \in 1 .. L : s[d] = A(s[d - 1], d)
  BY <1>1, <1>6
<1> HIDE DEF R
<1> DEFINE T == {d \in 0 .. L : s[d] \in S}
<1>9. \A d \in 0 .. L : d \in T
  <2>1. 0 \in T
    BY <1>1, <1>2, <1>8
  <2>2. ASSUME NEW d \in 1 .. L, d - 1 \in T PROVE d \in T
    BY <1>1, <1>3, <1>8, <2>2
  <2> HIDE DEF T
  <2>3. QED
    BY <1>1, <2>1, <2>2, Contando
<1>10. s \in [0 .. L -> S]
  BY <1>6, <1>9 DEF R
<1>11. QED
  BY <1>7, <1>8, <1>10 DEF EsVuelta, x, S, A

\* Between s and t nothing but the instructions of J was rewritten or removed.
Entre(s, t, J, n) ==
  /\ \A j \in (1 .. n) \ J : t.ins[j] = s.ins[j]
  /\ s.quitadas \subseteq t.quitadas /\ t.quitadas \subseteq s.quitadas \cup J
  /\ Crece(s.datos, t.datos)

LEMMA CreceSigue ==
  ASSUME NEW d \in Seq(Palabras), NEW e \in Seq(Palabras), NEW f \in Seq(Palabras)
  PROVE  Crece(d, d) /\ (Crece(d, e) /\ Crece(e, f) => Crece(d, f))
<1>1. Len(d) \in Nat /\ Len(e) \in Nat /\ Len(f) \in Nat
  OBVIOUS
<1>2. QED
  BY <1>1 DEF Crece

LEMMA EntreSigue ==
  ASSUME NEW n \in Nat, NEW s \in Analisis(n), NEW t \in Analisis(n), NEW u \in Analisis(n),
         NEW J, NEW i \in 1 .. n, Entre(s, t, J, n), SoloEn(t, u, i, n)
  PROVE  Entre(s, u, J \cup {i}, n)
<1>1. s.datos \in Seq(Palabras) /\ t.datos \in Seq(Palabras) /\ u.datos \in Seq(Palabras)
  BY DEF Analisis
<1>2. Crece(s.datos, u.datos)
  BY <1>1, CreceSigue DEF Entre, SoloEn
<1>3. QED
  BY <1>2 DEF Entre, SoloEn

LEMMA EntreNada ==
  ASSUME NEW n \in Nat, NEW s \in Analisis(n), NEW J
  PROVE  Entre(s, s, J, n)
<1>1. s.datos \in Seq(Palabras)
  BY DEF Analisis
<1>2. Crece(s.datos, s.datos)
  BY <1>1, CreceSigue
<1>3. QED
  BY <1>2 DEF Entre

\* A pass touches, between two of its states, the instructions it went over.
PorIda(g, b, L, n) ==
  \A e \in 0 .. L : \A d \in 0 .. e : Entre(g[d], g[e], b + d .. b + e - 1, n) /\ g[e].inicio = b
PorVuelta(g, b, fin, L, n) ==
  \A e \in 0 .. L : \A d \in 0 .. e : Entre(g[d], g[e], fin + 1 - e .. fin - d, n) /\ g[e].inicio = b

LEMMA IdaEntre ==
  ASSUME NEW n \in Nat, NEW st \in Analisis(n), NEW b \in 1 .. n, b = st.inicio,
         NEW L \in Nat, b + L <= n + 1, NEW g \in [0 .. L -> Analisis(n)], EsIda(g, st, L)
  PROVE  PorIda(g, b, L, n)
<1> DEFINE T == {e \in 0 .. L : \A d \in 0 .. e : Entre(g[d], g[e], b + d .. b + e - 1, n) /\ g[e].inicio = b}
<1>1. \A e \in 0 .. L : g[e] \in Analisis(n)
  OBVIOUS
<1>2. 0 \in T
  <2>1. 0 \in 0 .. L /\ g[0].inicio = b
    BY DEF EsIda, Analisis
  <2>2. Entre(g[0], g[0], b + 0 .. b + 0 - 1, n)
    BY <1>1, <2>1, EntreNada
  <2>3. QED
    BY <2>1, <2>2
<1>3. ASSUME NEW e \in 1 .. L, e - 1 \in T PROVE e \in T
  <2>1. e \in 0 .. L /\ e - 1 \in 0 .. L /\ b + e - 1 \in 1 .. n
    OBVIOUS
  <2>2. g[e] = Analizar(g[e - 1], b + e - 1)
    BY DEF EsIda
  <2>3. SoloEn(g[e - 1], g[e], b + e - 1, n)
    BY <1>1, <2>1, <2>2, AnalizarSolo DEF Tocada
  <2>4. g[e].inicio = b
    <3>1. g[e - 1].inicio = b
      BY <1>3, <2>1
    <3>2. QED
      BY <2>3, <3>1 DEF SoloEn
  <2>5. ASSUME NEW d \in 0 .. e PROVE Entre(g[d], g[e], b + d .. b + e - 1, n)
    <3>1. CASE d = e
      BY <1>1, <2>1, <3>1, EntreNada
    <3>2. CASE d # e
      <4>1. d \in 0 .. e - 1 /\ d \in 0 .. L
        BY <3>2
      <4>2. Entre(g[d], g[e - 1], b + d .. b + (e - 1) - 1, n)
        BY <1>3, <4>1
      <4> DEFINE J == b + d .. b + (e - 1) - 1
      <4>3. J \cup {b + e - 1} = b + d .. b + e - 1
        <5>1. b \in Int /\ e \in Int /\ d \in Int /\ d <= e - 1
          BY <2>1, <4>1
        <5>2. QED
          BY <5>1, SMTT(30)
      <4> HIDE DEF J
      <4>4. Entre(g[d], g[e], J \cup {b + e - 1}, n)
        <5>1. Entre(g[d], g[e - 1], J, n)
          BY <4>2 DEF J
        <5> DEFINE i == b + e - 1
                   u == g[e - 1]
        <5>2. i \in 1 .. n /\ SoloEn(u, g[e], i, n) /\ u \in Analisis(n) /\ Entre(g[d], u, J, n)
          BY <1>1, <2>1, <2>3, <5>1
        <5> HIDE DEF i, u
        <5>3. Entre(g[d], g[e], J \cup {i}, n)
          BY <1>1, <2>1, <4>1, <5>2, EntreSigue
        <5>4. QED
          BY <5>3 DEF i
      <4>5. QED
        BY <4>3, <4>4
    <3>3. QED
      BY <3>1, <3>2
  <2>6. QED
    BY <2>1, <2>4, <2>5
<1>4. \A e \in 0 .. L : e \in T
  <2> HIDE DEF T
  <2>1. QED
    BY <1>2, <1>3, Contando
<1>5. QED
  BY <1>4 DEF PorIda

LEMMA VueltaEntre ==
  ASSUME NEW n \in Nat, NEW st \in Analisis(n), NEW b, b = st.inicio,
         NEW fin \in 1 .. n, NEW L \in Nat, L <= fin, NEW g \in [0 .. L -> Analisis(n)], EsVuelta(g, st, fin, L)
  PROVE  PorVuelta(g, b, fin, L, n)
<1> DEFINE T == {e \in 0 .. L : \A d \in 0 .. e : Entre(g[d], g[e], fin + 1 - e .. fin - d, n) /\ g[e].inicio = b}
<1>1. \A e \in 0 .. L : g[e] \in Analisis(n)
  OBVIOUS
<1>2. 0 \in T
  <2>1. 0 \in 0 .. L /\ g[0].inicio = b
    BY DEF EsVuelta, Analisis
  <2>2. Entre(g[0], g[0], fin + 1 - 0 .. fin - 0, n)
    BY <1>1, <2>1, EntreNada
  <2>3. QED
    BY <2>1, <2>2
<1>3. ASSUME NEW e \in 1 .. L, e - 1 \in T PROVE e \in T
  <2>1. e \in 0 .. L /\ e - 1 \in 0 .. L /\ fin + 1 - e \in 1 .. n
    OBVIOUS
  <2>2. g[e] = Podar(g[e - 1], fin + 1 - e)
    BY DEF EsVuelta
  <2>3. SoloEn(g[e - 1], g[e], fin + 1 - e, n)
    BY <1>1, <2>1, <2>2, PodarSolo
  <2>4. g[e].inicio = b
    <3>1. g[e - 1].inicio = b
      BY <1>3, <2>1
    <3>2. QED
      BY <2>3, <3>1 DEF SoloEn
  <2>5. ASSUME NEW d \in 0 .. e PROVE Entre(g[d], g[e], fin + 1 - e .. fin - d, n)
    <3>1. CASE d = e
      BY <1>1, <2>1, <3>1, EntreNada
    <3>2. CASE d # e
      <4>1. d \in 0 .. e - 1 /\ d \in 0 .. L
        BY <3>2
      <4>2. Entre(g[d], g[e - 1], fin + 1 - (e - 1) .. fin - d, n)
        BY <1>3, <4>1
      <4> DEFINE J == fin + 1 - (e - 1) .. fin - d
      <4>3. J \cup {fin + 1 - e} = fin + 1 - e .. fin - d
        BY <2>1, <4>1
      <4> HIDE DEF J
      <4>4. Entre(g[d], g[e], J \cup {fin + 1 - e}, n)
        <5>1. Entre(g[d], g[e - 1], J, n)
          BY <4>2 DEF J
        <5> DEFINE i == fin + 1 - e
                   u == g[e - 1]
        <5>2. i \in 1 .. n /\ SoloEn(u, g[e], i, n) /\ u \in Analisis(n) /\ Entre(g[d], u, J, n)
          BY <1>1, <2>1, <2>3, <5>1
        <5> HIDE DEF i, u
        <5>3. Entre(g[d], g[e], J \cup {i}, n)
          BY <1>1, <2>1, <4>1, <5>2, EntreSigue
        <5>4. QED
          BY <5>3 DEF i
      <4>5. QED
        BY <4>3, <4>4
    <3>3. QED
      BY <3>1, <3>2
  <2>6. QED
    BY <2>1, <2>4, <2>5
<1>4. \A e \in 0 .. L : e \in T
  <2> HIDE DEF T
  <2>1. QED
    BY <1>2, <1>3, Contando
<1>5. QED
  BY <1>4 DEF PorVuelta

\* The two passes over the block b .. fin.
Pases(st, g, h, b, fin, L, n) ==
  /\ b \in 1 .. n /\ fin \in b .. n /\ L = fin + 1 - b /\ b = st.inicio
  /\ g \in [0 .. L -> Analisis(n)] /\ EsIda(g, st, L) /\ PorIda(g, b, L, n)
  /\ h \in [0 .. L -> Analisis(n)] /\ EsVuelta(h, g[L], fin, L) /\ PorVuelta(h, b, fin, L, n)
  /\ AnalizarBloque(st, fin) = [h[L] EXCEPT !.inicio = fin + 1]

LEMMA PasesEs ==
  ASSUME NEW n \in Nat, NEW st \in Analisis(n), NEW fin \in st.inicio .. n
  PROVE  \E g, h, b, L : Pases(st, g, h, b, fin, L, n)
<1> DEFINE b == st.inicio
           L == fin + 1 - b
           m == Ida(st, fin)
           u == Vuelta(m, fin)
<1>1. b \in 1 .. n /\ fin \in b .. n /\ fin \in 1 .. n /\ L \in Nat /\ L > 0 /\ L <= fin /\ b + L <= n + 1 /\ fin = b + L - 1
  <2>1. b \in 1 .. n + 1 /\ fin \in b .. n
    BY DEF Analisis
  <2> HIDE DEF b
  <2>2. QED
    BY <2>1
<1>2. PICK g \in [0 .. L -> Analisis(n)] : EsIda(g, st, L) /\ m = g[L]
  BY IdaEs
<1>3. b = st.inicio /\ L = fin + 1 - b
  OBVIOUS
<1> HIDE DEF b, L, m, u
<1>4. m \in Analisis(n) /\ PorIda(g, b, L, n)
  <2>1. m \in Analisis(n)
    BY <1>1, <1>2
  <2>2. PorIda(g, b, L, n)
    BY <1>1, <1>2, <1>3, IdaEntre
  <2>3. QED
    BY <2>1, <2>2
<1>5. m.inicio = b
  <2>1. L \in 0 .. L /\ 0 \in 0 .. L
    BY <1>1
  <2>2. QED
    BY <1>2, <1>4, <2>1 DEF PorIda
<1>6. PICK h \in [0 .. L -> Analisis(n)] : EsVuelta(h, m, fin, L) /\ u = h[L]
  <2>1. fin \in m.inicio .. n /\ L = fin + 1 - m.inicio
    BY <1>1, <1>3, <1>5
  <2>2. \E h \in [0 .. L -> Analisis(n)] : EsVuelta(h, m, fin, L) /\ Vuelta(m, fin) = h[L]
    BY <1>4, <2>1, VueltaEs
  <2>3. QED
    BY <2>2 DEF u
<1>7. PorVuelta(h, b, fin, L, n)
  BY <1>1, <1>4, <1>5, <1>6, VueltaEntre
<1>8. AnalizarBloque(st, fin) = [h[L] EXCEPT !.inicio = fin + 1]
  <2>1. AnalizarBloque(st, fin) = [u EXCEPT !.inicio = fin + 1]
    BY DEF AnalizarBloque, u, m
  <2>2. QED
    BY <1>6, <2>1
<1>9. Pases(st, g, h, b, fin, L, n)
  BY <1>1, <1>2, <1>3, <1>4, <1>6, <1>7, <1>8 DEF Pases
<1>10. QED
  BY <1>9

LEMMA BloqueSon ==
  ASSUME NEW n \in Nat, NEW st \in Analisis(n), NEW fin \in st.inicio .. n, NEW t, t = AnalizarBloque(st, fin)
  PROVE  /\ t \in Analisis(n) /\ t.inicio = fin + 1 /\ fin \in 1 .. n
         /\ Entre(st, t, st.inicio .. fin, n)
<1>1. PICK g, h, b, L : Pases(st, g, h, b, fin, L, n)
  BY PasesEs
<1> DEFINE m == g[L]
           u == h[L]
<1>2. b \in 1 .. n /\ fin \in b .. n /\ fin \in 1 .. n /\ L \in 0 .. L /\ 0 \in 0 .. L /\ b = st.inicio
      /\ b + 0 = b /\ b + L - 1 = fin /\ fin + 1 - L = b /\ fin - 0 = fin
  BY <1>1 DEF Pases
<1>3. /\ g \in [0 .. L -> Analisis(n)] /\ EsIda(g, st, L) /\ PorIda(g, b, L, n)
      /\ h \in [0 .. L -> Analisis(n)] /\ EsVuelta(h, m, fin, L) /\ PorVuelta(h, b, fin, L, n)
      /\ t = [u EXCEPT !.inicio = fin + 1]
  BY <1>1 DEF Pases
<1>4. m \in Analisis(n) /\ Entre(g[0], m, b .. fin, n)
  <2>1. Entre(g[0], g[L], b + 0 .. b + L - 1, n)
    BY <1>2, <1>3 DEF PorIda
  <2>2. QED
    BY <1>2, <1>3, <2>1
<1>5. u \in Analisis(n) /\ Entre(h[0], u, b .. fin, n)
  <2>1. Entre(h[0], h[L], fin + 1 - L .. fin - 0, n)
    BY <1>2, <1>3 DEF PorVuelta
  <2>2. QED
    BY <1>2, <1>3, <2>1
<1> HIDE DEF m, u
<1>6. Entre(st, m, b .. fin, n)
  <2>1. g[0] = [st EXCEPT !.k = NadaSabido]
    BY <1>3 DEF EsIda
  <2>2. g[0].ins = st.ins /\ g[0].quitadas = st.quitadas /\ g[0].datos = st.datos
    BY <2>1 DEF Analisis
  <2>3. QED
    BY <1>4, <2>2 DEF Entre
<1>7. Entre(m, u, b .. fin, n)
  <2>1. h[0] = [m EXCEPT !.vivos = IF m.ins[fin].op \in Saltos THEN Registros ELSE {0}]
    BY <1>3 DEF EsVuelta
  <2>2. h[0].ins = m.ins /\ h[0].quitadas = m.quitadas /\ h[0].datos = m.datos
    BY <1>4, <2>1 DEF Analisis
  <2>3. QED
    BY <1>5, <2>2 DEF Entre
<1>8. Entre(st, u, b .. fin, n)
  <2>1. st.datos \in Seq(Palabras) /\ m.datos \in Seq(Palabras) /\ u.datos \in Seq(Palabras)
    BY <1>4, <1>5 DEF Analisis
  <2>2. Crece(st.datos, u.datos)
    BY <1>6, <1>7, <2>1, CreceSigue DEF Entre
  <2>3. QED
    BY <1>6, <1>7, <2>2 DEF Entre
<1>9. /\ t \in Analisis(n) /\ t.inicio = fin + 1 /\ t.ins = u.ins /\ t.quitadas = u.quitadas
      /\ t.datos = u.datos
  <2> DEFINE v == fin + 1
  <2>1. v \in 1 .. n + 1
    BY <1>2
  <2> HIDE DEF v
  <2>2. [u EXCEPT !.inicio = v] \in Analisis(n)
    BY <1>5, <2>1 DEF Analisis
  <2>3. t = [u EXCEPT !.inicio = v]
    BY <1>3 DEF v
  <2>4. /\ t.inicio = v /\ t.ins = u.ins /\ t.quitadas = u.quitadas /\ t.datos = u.datos
    BY <1>5, <2>3 DEF Analisis
  <2>5. QED
    BY <2>2, <2>3, <2>4 DEF v
<1>10. QED
  BY <1>2, <1>8, <1>9 DEF Entre

\* The states of ir_optimize, one per instruction.
Inicial(cod) ==
  [ins |-> cod.ins, datos |-> cod.datos, quitadas |-> {}, k |-> NadaSabido, vivos |-> {}, inicio |-> 1]
Bloque(st, i, n) == IF Control(st.ins[i]) \/ i = n THEN AnalizarBloque(st, i) ELSE st
EsAnalizado(f, cod, n) ==
  f[0] = Inicial(cod) /\ \A i \in 1 .. n : f[i - 1].inicio <= i /\ f[i] = Bloque(f[i - 1], i, n)

Codigos == [ins : Seq(Instruccion), datos : Seq(Palabras)]

LEMMA InicialEs ==
  ASSUME NEW cod \in Codigos, NEW n, n = Len(cod.ins)
  PROVE  n \in Nat /\ Inicial(cod) \in Analisis(n)
<1>1. cod.ins \in Seq(Instruccion) /\ cod.datos \in Seq(Palabras)
  BY DEF Codigos
<1>2. n \in Nat /\ cod.ins \in [1 .. n -> Instruccion]
  BY <1>1
<1>3. NadaSabido \in [Registros -> Conocidos]
  BY Constantes DEF NadaSabido, Conocidos
<1>4. 1 \in 1 .. n + 1
  BY <1>2
<1>5. QED
  BY <1>1, <1>2, <1>3, <1>4 DEF Inicial, Analisis

LEMMA UnBloque ==
  ASSUME NEW n \in Nat, NEW st \in Analisis(n), NEW i \in 1 .. n, st.inicio <= i
  PROVE  Bloque(st, i, n) \in Analisis(n) /\ Bloque(st, i, n).inicio <= i + 1
<1>1. st.inicio \in 1 .. n + 1
  BY DEF Analisis
<1>2. i \in st.inicio .. n
  BY <1>1
<1>3. AnalizarBloque(st, i) \in Analisis(n) /\ AnalizarBloque(st, i).inicio = i + 1
  BY <1>2, BloqueSon
<1>4. QED
  BY <1>1, <1>3 DEF Bloque

LEMMA AnalizadoEs ==
  ASSUME NEW cod \in Codigos, NEW n, n = Len(cod.ins)
  PROVE  \E f \in [0 .. n -> Analisis(n)] : EsAnalizado(f, cod, n) /\ Analizado(cod) = f[n]
<1> DEFINE S == Analisis(n)
           x == Inicial(cod)
           A(u, i) == Bloque(u, i, n)
           G == [p \in (1 .. n) \X S |-> IF p[2].inicio <= p[1] THEN A(p[2], p[1]) ELSE p[2]]
           R(f) == f = [i \in 0 .. n |-> IF i = 0 THEN x ELSE A(f[i - 1], i)]
           s == CHOOSE f : R(f)
<1>1. n \in Nat /\ x \in S
  BY InicialEs
<1>2. \A i \in 1 .. n : \A u \in S : u.inicio <= i => A(u, i) \in S /\ A(u, i).inicio <= i + 1
  BY <1>1, UnBloque
<1>3. x.inicio = 1
  BY DEF Inicial
<1>4. Analizado(cod) = s[n]
  BY DEF Analizado, Inicial, Bloque
<1> HIDE DEF A, S, x
<1>5. PICK f \in [0 .. n -> S] : EsIteracion(f, x, G, n)
  <2>1. G \in [(1 .. n) \X S -> S]
    BY <1>2
  <2> HIDE DEF G
  <2>2. QED
    BY <1>1, <2>1, HayIteracion
<1>6. f = [i \in 0 .. n |-> IF i = 0 THEN x ELSE G[<<i, f[i - 1]>>]]
  BY <1>5 DEF EsIteracion
<1>7. \A i \in 1 .. n : /\ i - 1 \in 0 .. n /\ f[i - 1] \in S
                        /\ G[<<i, f[i - 1]>>] = IF f[i - 1].inicio <= i THEN A(f[i - 1], i) ELSE f[i - 1]
  <2>1. \A i \in 1 .. n : \A u \in S : G[<<i, u>>] = IF u.inicio <= i THEN A(u, i) ELSE u
    OBVIOUS
  <2> HIDE DEF G
  <2>2. \A i \in 1 .. n : i - 1 \in 0 .. n
    BY <1>1
  <2>3. QED
    BY <1>5, <2>1, <2>2
<1> HIDE DEF G
<1>8. R(f)
  <2> DEFINE T == {i \in 0 .. n : f[i].inicio <= i + 1}
  <2>1. \A i \in 0 .. n : i \in T
    <3>1. 0 \in T
      BY <1>1, <1>3, <1>6
    <3>2. ASSUME NEW i \in 1 .. n, i - 1 \in T PROVE i \in T
      <4>1. f[i - 1].inicio <= i
        BY <1>1, <3>2
      <4>2. f[i] = G[<<i, f[i - 1]>>]
        <5>1. i \in 0 .. n /\ i # 0
          BY <1>1
        <5>2. QED
          BY <1>6, <5>1
      <4>3. f[i] = A(f[i - 1], i)
        BY <1>7, <4>1, <4>2
      <4>4. f[i].inicio <= i + 1
        BY <1>2, <1>7, <4>1, <4>3
      <4>5. QED
        BY <1>1, <4>4
    <3> HIDE DEF T
    <3>3. QED
      BY <1>1, <3>1, <3>2, Contando
  <2>2. \A i \in 1 .. n : G[<<i, f[i - 1]>>] = A(f[i - 1], i)
    <3> TAKE i \in 1 .. n
    <3>1. f[i - 1].inicio <= (i - 1) + 1
      BY <1>7, <2>1
    <3>2. f[i - 1].inicio <= i
      BY <3>1
    <3>3. QED
      BY <1>7, <3>2
  <2>3. \A i \in 0 .. n : i = 0 \/ i \in 1 .. n
    BY <1>1
  <2>4. QED
    BY <1>6, <2>2, <2>3
<1>9. R(s)
  <2> HIDE DEF R
  <2>1. QED
    BY <1>8
<1> HIDE DEF s
<1>10. s[0] = x /\ \A i \in 1 .. n : s[i] = A(s[i - 1], i)
  <2>1. \A i \in 0 .. n : s[i] = IF i = 0 THEN x ELSE A(s[i - 1], i)
    BY <1>9
  <2>2. 0 \in 0 .. n /\ \A i \in 1 .. n : i \in 0 .. n /\ i # 0
    BY <1>1
  <2>3. QED
    BY <2>1, <2>2
<1> DEFINE T == {i \in 0 .. n : s[i] \in S /\ s[i].inicio <= i + 1}
<1>11. \A i \in 0 .. n : i \in T
  <2>1. 0 \in T
    BY <1>1, <1>3, <1>10
  <2>2. ASSUME NEW i \in 1 .. n, i - 1 \in T PROVE i \in T
    BY <1>1, <1>2, <1>10, <2>2
  <2> HIDE DEF T
  <2>3. QED
    BY <1>1, <2>1, <2>2, Contando
<1>12. s \in [0 .. n -> S]
  BY <1>9, <1>11
<1>13. \A i \in 1 .. n : s[i - 1].inicio <= i
  <2> TAKE i \in 1 .. n
  <2>1. i - 1 \in T
    BY <1>1, <1>11
  <2>2. QED
    BY <2>1
<1>14. QED
  BY <1>4, <1>10, <1>12, <1>13 DEF EsAnalizado, x, S, A

\* The optimised instructions are as many, and are instructions.
LEMMA AnalizadoSon ==
  ASSUME NEW cod \in Codigos, NEW n, n = Len(cod.ins)
  PROVE  n \in Nat /\ Analizado(cod) \in Analisis(n)
<1>1. n \in Nat
  BY InicialEs
<1>2. \E f \in [0 .. n -> Analisis(n)] : EsAnalizado(f, cod, n) /\ Analizado(cod) = f[n]
  BY AnalizadoEs
<1>3. QED
  BY <1>1, <1>2

-----------------------------------------------------------------------------
(* Compaction.                                                             *)

EsViejos(s, quedan, n) ==
  /\ Viejos(quedan, n) = s[n] /\ s[0] = <<>>
  /\ \A i \in 1 .. n : s[i] = IF i \in quedan THEN Append(s[i - 1], i) ELSE s[i - 1]

LEMMA ViejosEs ==
  ASSUME NEW quedan, NEW n \in Nat
  PROVE  \E s \in [0 .. n -> Seq(Nat)] : EsViejos(s, quedan, n)
<1> DEFINE S == Seq(Nat)
           A(u, i) == IF i \in quedan THEN Append(u, i) ELSE u
           G == [p \in (1 .. n) \X S |-> A(p[2], p[1])]
           R(f) == f = [i \in 0 .. n |-> IF i = 0 THEN <<>> ELSE A(f[i - 1], i)]
           s == CHOOSE f : R(f)
<1>1. <<>> \in S
  OBVIOUS
<1>2. \A i \in 1 .. n : \A u \in S : A(u, i) \in S
  OBVIOUS
<1>3. Viejos(quedan, n) = s[n]
  BY DEF Viejos
<1> HIDE DEF A, S
<1>4. PICK f \in [0 .. n -> S] : EsIteracion(f, <<>>, G, n)
  <2>1. G \in [(1 .. n) \X S -> S]
    BY <1>2
  <2> HIDE DEF G
  <2>2. QED
    BY <1>1, <2>1, HayIteracion
<1>5. R(f)
  <2>1. f = [i \in 0 .. n |-> IF i = 0 THEN <<>> ELSE G[<<i, f[i - 1]>>]]
    BY <1>4 DEF EsIteracion
  <2>2. \A i \in 1 .. n : i - 1 \in 0 .. n /\ f[i - 1] \in S /\ G[<<i, f[i - 1]>>] = A(f[i - 1], i)
    BY <1>4
  <2> HIDE DEF G
  <2>3. \A i \in 0 .. n : i = 0 \/ i \in 1 .. n
    OBVIOUS
  <2>4. QED
    BY <2>1, <2>2, <2>3
<1>6. R(s)
  <2> HIDE DEF R
  <2>1. QED
    BY <1>5
<1> HIDE DEF s
<1>7. s[0] = <<>> /\ \A i \in 1 .. n : s[i] = A(s[i - 1], i)
  <2>1. \A i \in 0 .. n : s[i] = IF i = 0 THEN <<>> ELSE A(s[i - 1], i)
    BY <1>6
  <2>2. 0 \in 0 .. n /\ \A i \in 1 .. n : i \in 0 .. n /\ i # 0
    OBVIOUS
  <2>3. QED
    BY <2>1, <2>2
<1> DEFINE T == {i \in 0 .. n : s[i] \in S}
<1>8. \A i \in 0 .. n : i \in T
  <2>1. 0 \in T
    BY <1>1, <1>7
  <2>2. ASSUME NEW i \in 1 .. n, i - 1 \in T PROVE i \in T
    BY <1>2, <1>7, <2>2
  <2> HIDE DEF T
  <2>3. QED
    BY <2>1, <2>2, Contando
<1>9. s \in [0 .. n -> S]
  BY <1>6, <1>8
<1>10. QED
  BY <1>3, <1>7, <1>9 DEF S, A, EsViejos

LEMMA ViejosSigue ==
  ASSUME NEW quedan
  PROVE  /\ Viejos(quedan, 0) = <<>>
         /\ \A n \in Nat : Viejos(quedan, n) \in Seq(Nat)
         /\ \A n \in Nat \ {0} : Viejos(quedan, n) =
              IF n \in quedan THEN Append(Viejos(quedan, n - 1), n) ELSE Viejos(quedan, n - 1)
<1>1. Viejos(quedan, 0) = <<>>
  <2>1. 0 \in Nat
    OBVIOUS
  <2>2. PICK s : EsViejos(s, quedan, 0)
    BY <2>1, ViejosEs
  <2>3. QED
    BY <2>2 DEF EsViejos
<1>2. \A n \in Nat : Viejos(quedan, n) \in Seq(Nat)
  <2> TAKE n \in Nat
  <2>1. PICK s \in [0 .. n -> Seq(Nat)] : EsViejos(s, quedan, n)
    BY ViejosEs
  <2>2. QED
    BY <2>1 DEF EsViejos
<1>3. ASSUME NEW n \in Nat \ {0}
      PROVE  Viejos(quedan, n) = IF n \in quedan THEN Append(Viejos(quedan, n - 1), n) ELSE Viejos(quedan, n - 1)
  <2> DEFINE m == n - 1
  <2>1. n \in Nat /\ m \in Nat /\ n - 1 = m /\ n \in 1 .. n
    OBVIOUS
  <2> HIDE DEF m
  <2>a. PICK s : EsViejos(s, quedan, n)
    BY <2>1, ViejosEs
  <2>b. PICK z : EsViejos(z, quedan, m)
    BY <2>1, ViejosEs
  <2>2. /\ Viejos(quedan, n) = s[n] /\ s[0] = <<>>
        /\ \A i \in 1 .. n : s[i] = IF i \in quedan THEN Append(s[i - 1], i) ELSE s[i - 1]
    BY <2>a DEF EsViejos
  <2>3. /\ Viejos(quedan, m) = z[m] /\ z[0] = <<>>
        /\ \A i \in 1 .. m : z[i] = IF i \in quedan THEN Append(z[i - 1], i) ELSE z[i - 1]
    BY <2>b DEF EsViejos
  <2> DEFINE T == {i \in 0 .. m : s[i] = z[i]}
  <2>4. 0 \in T
    BY <2>1, <2>2, <2>3
  <2>5. ASSUME NEW i \in 1 .. m, i - 1 \in T PROVE i \in T
    <3>1. i \in 1 .. n /\ i \in 0 .. m /\ s[i - 1] = z[i - 1]
      BY <2>1, <2>5
    <3>2. QED
      BY <2>2, <2>3, <3>1
  <2>6. m \in T
    <3>1. m \in 0 .. m
      BY <2>1
    <3> HIDE DEF T
    <3>2. QED
      BY <2>1, <2>4, <2>5, <3>1, Contando
  <2>7. s[m] = Viejos(quedan, m)
    BY <2>3, <2>6
  <2>8. s[n] = IF n \in quedan THEN Append(s[m], n) ELSE s[m]
    BY <2>1, <2>2
  <2>9. QED
    BY <2>1, <2>2, <2>7, <2>8
<1>4. QED
  BY <1>1, <1>2, <1>3

\* The kept instructions, in order; those of a prefix are a prefix.
LEMMA ViejosSon ==
  ASSUME NEW quedan, NEW n \in Nat
  PROVE  /\ Len(Viejos(quedan, n)) <= n
         /\ \A j \in 1 .. Len(Viejos(quedan, n)) : Viejos(quedan, n)[j] \in quedan \cap (1 .. n)
         /\ \A m \in 0 .. n : /\ Len(Viejos(quedan, m)) <= Len(Viejos(quedan, n))
                              /\ \A j \in 1 .. Len(Viejos(quedan, m)) :
                                   Viejos(quedan, n)[j] = Viejos(quedan, m)[j]
<1> DEFINE V(i) == Viejos(quedan, i)
           P(i) == /\ Len(V(i)) <= i
                   /\ \A j \in 1 .. Len(V(i)) : V(i)[j] \in quedan \cap (1 .. i)
                   /\ \A m \in 0 .. i : /\ Len(V(m)) <= Len(V(i))
                                        /\ \A j \in 1 .. Len(V(m)) : V(i)[j] = V(m)[j]
           T == {i \in 0 .. n : P(i)}
<1>1. V(0) = <<>> /\ \A i \in Nat : V(i) \in Seq(Nat) /\ Len(V(i)) \in Nat
  <2>1. \A z \in Seq(Nat) : Len(z) \in Nat
    OBVIOUS
  <2>2. V(0) = <<>>
    BY ViejosSigue
  <2>3. \A i \in Nat : V(i) \in Seq(Nat)
    BY ViejosSigue
  <2> HIDE DEF V
  <2>4. QED
    BY <2>1, <2>2, <2>3
<1>2. \A i \in Nat \ {0} : V(i) = IF i \in quedan THEN Append(V(i - 1), i) ELSE V(i - 1)
  BY ViejosSigue
<1> HIDE DEF V
<1>3. P(0)
  BY <1>1
<1>4. ASSUME NEW i \in 1 .. n, P(i - 1) PROVE P(i)
  <2> DEFINE k == i - 1
             u == V(k)
             w == V(i)
             l == Len(u)
  <2>1. k \in Nat /\ i \in Nat \ {0} /\ i = k + 1 /\ i - 1 = k
    OBVIOUS
  <2>2. u \in Seq(Nat) /\ l \in Nat /\ w = IF i \in quedan THEN Append(u, i) ELSE u
    BY <1>1, <1>2, <2>1
  <2>3. P(k)
    BY <1>4
  <2>4. /\ l <= k /\ \A j \in 1 .. l : u[j] \in quedan \cap (1 .. k)
        /\ \A m \in 0 .. k : Len(V(m)) <= l /\ \A j \in 1 .. Len(V(m)) : u[j] = V(m)[j]
    BY <2>3
  <2> HIDE DEF P, k, u, w, l
  <2>5. /\ Len(w) = (IF i \in quedan THEN l + 1 ELSE l)
        /\ \A j \in 1 .. l : w[j] = u[j]
        /\ i \in quedan => w[l + 1] = i
    BY <2>2 DEF l
  <2>6. Len(w) <= i /\ \A j \in 1 .. Len(w) : w[j] \in quedan \cap (1 .. i)
    <3>1. Len(w) <= i
      BY <2>1, <2>2, <2>4, <2>5
    <3>2. ASSUME NEW j \in 1 .. Len(w) PROVE w[j] \in quedan \cap (1 .. i)
      <4>1. CASE j \in 1 .. l
        BY <2>1, <2>4, <2>5, <4>1
      <4>2. CASE j \notin 1 .. l
        <5>1. i \in quedan /\ j = l + 1
          BY <2>2, <2>5, <4>2
        <5>2. QED
          BY <2>1, <2>5, <5>1
      <4>3. QED
        BY <4>1, <4>2
    <3>3. QED
      BY <3>1, <3>2
  <2>7. ASSUME NEW m \in 0 .. i
        PROVE  Len(V(m)) <= Len(w) /\ \A j \in 1 .. Len(V(m)) : w[j] = V(m)[j]
    <3>1. CASE m = i
      BY <1>1, <2>1, <3>1 DEF w
    <3>2. CASE m # i
      <4>1. m \in 0 .. k /\ m \in Nat
        BY <2>1, <3>2
      <4>2. Len(V(m)) \in Nat /\ Len(V(m)) <= l /\ \A j \in 1 .. Len(V(m)) : u[j] = V(m)[j]
        BY <1>1, <2>4, <4>1
      <4>3. l <= Len(w)
        BY <2>2, <2>5
      <4>4. Len(w) \in Nat
        BY <2>2, <2>5
      <4>5. QED
        BY <2>2, <2>5, <4>2, <4>3, <4>4
    <3>3. QED
      BY <3>1, <3>2
  <2>8. QED
    BY <2>6, <2>7 DEF P, w
<1>5. \A i \in 0 .. n : i \in T
  <2>1. 0 \in T
    BY <1>3
  <2>2. ASSUME NEW i \in 1 .. n, i - 1 \in T PROVE i \in T
    <3>1. P(i - 1)
      BY <2>2
    <3> HIDE DEF P
    <3>2. P(i)
      BY <1>4, <3>1
    <3>3. QED
      BY <3>2
  <2> HIDE DEF T
  <2>3. QED
    BY <2>1, <2>2, Contando
<1>6. P(n)
  BY <1>5
<1>7. QED
  BY <1>6 DEF V

Quedan(ins) == {i \in 1 .. Len(ins) : ins[i].op # "NOP"}

\* A moved instruction is one.
LEMMA MovidaEs ==
  ASSUME NEW inst \in Instruccion, NEW quedan, NEW n, NEW i, Movible(quedan, n, inst, i)
  PROVE  Movida(quedan, n, inst, i) \in Instruccion
<1> DEFINE d == NuevoDestino(quedan, n, inst, i)
<1>1. inst.op \in Saltos => d \in Registros
  BY Constantes DEF Movible
<1> HIDE DEF d
<1>2. d \in Registros => [inst EXCEPT !.a = d] \in Instruccion /\ [inst EXCEPT !.b = d] \in Instruccion
  BY DEF Instruccion
<1>3. Movida(quedan, n, inst, i) =
        CASE inst.op = "SI"               -> [inst EXCEPT !.b = d]
          [] inst.op \in {"IR", "LLAMAR"} -> [inst EXCEPT !.a = d]
          [] OTHER                        -> inst
  BY DEF Movida, d
<1>4. QED
  BY <1>1, <1>2, <1>3 DEF Saltos

LEMMA CompactadoEs ==
  ASSUME NEW ins \in Seq(Instruccion)
  PROVE  Compactado(ins) \in Seq(Instruccion) /\ Len(Compactado(ins)) <= Len(ins)
<1> DEFINE n == Len(ins)
           quedan == Quedan(ins)
           viejo == Viejos(quedan, n)
           M(j) == Movida(quedan, n, ins[viejo[j]], viejo[j])
<1>1. n \in Nat /\ ins \in [1 .. n -> Instruccion]
  OBVIOUS
<1>2. viejo \in Seq(Nat)
  BY <1>1, ViejosSigue
<1>3. Len(viejo) \in Nat /\ Len(viejo) <= n /\ \A j \in 1 .. Len(viejo) : viejo[j] \in quedan \cap (1 .. n)
  <2>1. Len(viejo) \in Nat
    BY <1>2
  <2>2. Len(viejo) <= n /\ \A j \in 1 .. Len(viejo) : viejo[j] \in quedan \cap (1 .. n)
    BY <1>1, ViejosSon
  <2>3. QED
    BY <2>1, <2>2
<1>4. Compactado(ins) = IF \A i \in quedan : Movible(quedan, n, ins[i], i)
                        THEN [j \in 1 .. Len(viejo) |-> M(j)] ELSE ins
  BY DEF Compactado, Quedan
<1> HIDE DEF viejo, quedan, n
<1>5. CASE \A i \in quedan : Movible(quedan, n, ins[i], i)
  <2>1. \A j \in 1 .. Len(viejo) : M(j) \in Instruccion
    BY <1>1, <1>3, <1>5, MovidaEs
  <2> DEFINE z == [j \in 1 .. Len(viejo) |-> M(j)]
  <2>2. Compactado(ins) = z
    BY <1>4, <1>5
  <2> HIDE DEF M
  <2>3. z \in Seq(Instruccion) /\ Len(z) = Len(viejo)
    BY <1>3, <2>1
  <2>4. QED
    BY <1>3, <2>2, <2>3 DEF n
<1>6. CASE ~ \A i \in quedan : Movible(quedan, n, ins[i], i)
  BY <1>1, <1>4, <1>6 DEF n
<1>7. QED
  BY <1>5, <1>6

LEMMA OptimizadoEs ==
  ASSUME NEW cod \in Codigos
  PROVE  Optimizado(cod) \in Codigos /\ Len(Optimizado(cod).ins) <= Len(cod.ins)
<1> DEFINE n == Len(cod.ins)
           st == Analizado(cod)
<1>1. n \in Nat /\ st \in Analisis(n)
  BY AnalizadoSon
<1>2. Optimizado(cod) = [ins |-> Compactado(st.ins), datos |-> st.datos]
  BY DEF Optimizado
<1> HIDE DEF st
<1>3. st.ins \in [1 .. n -> Instruccion] /\ st.datos \in Seq(Palabras)
  BY <1>1 DEF Analisis
<1>4. st.ins \in Seq(Instruccion) /\ Len(st.ins) = n
  BY <1>1, <1>3
<1>5. Compactado(st.ins) \in Seq(Instruccion) /\ Len(Compactado(st.ins)) <= n
  BY <1>4, CompactadoEs
<1>6. QED
  BY <1>2, <1>3, <1>5 DEF Codigos, n

-----------------------------------------------------------------------------
(* What the compiler and the optimiser build is code.                      *)

THEOREM IrTypeOK == Spec => []TypeOK
<1>1. Init => TypeOK
  <2>1. <<>> \in Seq(Instruccion) /\ <<>> \in Seq(Palabras) /\ Len(<<>>) <= MaxIns
    BY Constantes
  <2>2. ASSUME NEW d, d \in Seq(Instruccion), d \in Seq(Palabras), Len(d) <= MaxIns,
               codigo = [ins |-> d, datos |-> d], cerrado = FALSE
        PROVE  TypeOK
    BY <2>2 DEF TypeOK
  <2>3. QED
    BY <2>1, <2>2 DEF Init
<1>2. TypeOK /\ [Next]_vars => TypeOK'
  <2> SUFFICES ASSUME TypeOK, [Next]_vars PROVE TypeOK'
    OBVIOUS
  <2>1. codigo \in Codigos /\ Len(codigo.ins) <= MaxIns /\ cerrado \in BOOLEAN
    BY DEF TypeOK, Codigos
  <2>2. ASSUME NEW inst \in Instrucciones, Emitir(inst) PROVE TypeOK'
    <3>1. inst \in Instruccion
      BY IrAssumption
    <3>2. codigo.ins \in Seq(Instruccion) /\ Len(codigo.ins) < MaxIns /\ Len(codigo.ins) \in Nat
      BY <2>1, <2>2 DEF Codigos, Emitir
    <3> DEFINE w == Append(codigo.ins, inst)
    <3>3. w \in Seq(Instruccion) /\ Len(w) <= MaxIns
      BY <3>1, <3>2, Constantes
    <3>4. codigo' = [codigo EXCEPT !.ins = w] /\ cerrado' = cerrado
      BY <2>2 DEF Emitir
    <3> HIDE DEF w
    <3>5. QED
      BY <2>1, <3>3, <3>4 DEF TypeOK, Codigos
  <2>3. CASE Optimizar
    <3>1. Optimizado(codigo) \in Codigos /\ Len(Optimizado(codigo).ins) <= Len(codigo.ins)
      BY <2>1, OptimizadoEs
    <3>2. codigo' = Optimizado(codigo) /\ cerrado' = TRUE
      BY <2>3 DEF Optimizar
    <3>3. Len(codigo.ins) \in Nat /\ Len(codigo'.ins) \in Nat
      BY <2>1, <3>1, <3>2 DEF Codigos
    <3>4. Len(codigo'.ins) <= MaxIns
      BY <2>1, <3>1, <3>2, <3>3, Constantes
    <3>5. QED
      BY <3>1, <3>2, <3>4 DEF TypeOK, Codigos
  <2>4. CASE UNCHANGED vars
    BY <2>4 DEF TypeOK, vars
  <2>5. QED
    BY <2>2, <2>3, <2>4 DEF Next
<1>3. QED
  BY <1>1, <1>2, PTL DEF Spec

-----------------------------------------------------------------------------
(* What each instruction was found to know and to leave alive.             *)

\* k is known before the instruction and ks after it; the forward pass left mid;
\* antes and despues are the registers that are read from it on, and after it.
Certificados ==
  [k : [Registros -> Conocidos], ks : [Registros -> Conocidos], mid : Instruccion,
   antes : SUBSET Registros, despues : SUBSET Registros]

Avance(k, ks, inst, mid, i, n, datos) ==
  \E s \in Analisis(n) : /\ s.ins[i] = inst /\ s.k = k
                         /\ Analizar(s, i).ins[i] = mid /\ Analizar(s, i).k = ks
                         /\ Crece(Analizar(s, i).datos, datos)

Poda(c, podada) ==
  \/ podada = c.mid /\ c.antes = Antes(c.mid, c.despues)
  \/ /\ podada = Nop /\ c.antes = c.despues
     /\ c.mid = Nop \/ (c.mid.op \in Definen /\ c.mid.a \notin c.despues)

EsPaso(c, n, i, inst, podada, datos) == Avance(c.k, c.ks, inst, c.mid, i, n, datos) /\ Poda(c, podada)

\* The certificate of the block b .. fin.
Certifica(C, st, t, b, fin, n) ==
  /\ C \in [b .. fin -> Certificados]
  /\ \A i \in b .. fin : EsPaso(C[i], n, i, st.ins[i], t.ins[i], t.datos)
  /\ C[b].k = NadaSabido
  /\ \A i \in b + 1 .. fin : C[i].k = C[i - 1].ks /\ C[i].antes = C[i - 1].despues
  /\ C[fin].mid.op \in Saltos => C[fin].despues = Registros

\* One instruction of a block.
LEMMA PasoDeBloque ==
  ASSUME NEW n \in Nat, NEW st \in Analisis(n), NEW g, NEW h, NEW b, NEW fin, NEW L,
         Pases(st, g, h, b, fin, L, n), st.quitadas \subseteq 1 .. b - 1,
         NEW i \in b .. fin, NEW d, d = i - b, NEW e, e = fin - i,
         NEW c, c = [k |-> g[d].k, ks |-> g[d + 1].k, mid |-> g[L].ins[i],
                     antes |-> h[e + 1].vivos, despues |-> h[e].vivos]
  PROVE  c \in Certificados /\ EsPaso(c, n, i, st.ins[i], h[L].ins[i], h[L].datos)
<1>1. /\ b \in 1 .. n /\ fin \in b .. n /\ L = fin + 1 - b
      /\ g \in [0 .. L -> Analisis(n)] /\ EsIda(g, st, L) /\ PorIda(g, b, L, n)
      /\ h \in [0 .. L -> Analisis(n)] /\ EsVuelta(h, g[L], fin, L) /\ PorVuelta(h, b, fin, L, n)
      /\ b = st.inicio
  BY DEF Pases
<1>a. b \in 1 .. n /\ fin \in b .. n /\ L = fin + 1 - b /\ st.inicio = b
  BY <1>1
<1>2. /\ L \in Nat /\ i \in 1 .. n /\ d \in 0 .. L /\ d + 1 \in 1 .. L /\ e \in 0 .. L /\ e + 1 \in 1 .. L
      /\ 0 \in 0 .. L /\ L \in 0 .. L /\ d + 1 \in 0 .. L /\ e + 1 \in 0 .. L
      /\ (d + 1) - 1 = d /\ b + (d + 1) - 1 = i /\ (e + 1) - 1 = e /\ fin + 1 - (e + 1) = i
      /\ i \notin b + 0 .. b + d - 1 /\ i \notin b + (d + 1) .. b + L - 1 /\ i \notin 1 .. b - 1
      /\ i \notin fin + 1 - e .. fin - 0 /\ i \notin fin + 1 - L .. fin - (e + 1)
  BY <1>a
<1> DEFINE s == g[d]
           t == g[d + 1]
           m == g[L]
           v == h[e]
           w == h[e + 1]
           u == h[L]
<1>3. /\ s \in Analisis(n) /\ t \in Analisis(n) /\ m \in Analisis(n)
      /\ v \in Analisis(n) /\ w \in Analisis(n) /\ u \in Analisis(n)
  BY <1>1, <1>2
<1>4. t = Analizar(s, i) /\ w = Podar(v, i)
  <2>1. (d + 1) - 1 = d /\ st.inicio + (d + 1) - 1 = i /\ (e + 1) - 1 = e /\ fin + 1 - (e + 1) = i
    BY <1>2, <1>a
  <2>2. t = Analizar(g[(d + 1) - 1], st.inicio + (d + 1) - 1)
    BY <1>1, <1>2 DEF EsIda
  <2>3. w = Podar(h[(e + 1) - 1], fin + 1 - (e + 1))
    BY <1>1, <1>2 DEF EsVuelta
  <2>4. QED
    BY <2>1, <2>2, <2>3
<1>5. /\ g[0].ins = st.ins /\ g[0].quitadas = st.quitadas
      /\ h[0].ins = m.ins /\ h[0].quitadas = m.quitadas /\ h[0].datos = m.datos
  <2>1. g[0] = [st EXCEPT !.k = NadaSabido]
    BY <1>1 DEF EsIda
  <2>2. h[0] = [m EXCEPT !.vivos = IF m.ins[fin].op \in Saltos THEN Registros ELSE {0}]
    BY <1>1 DEF EsVuelta
  <2>3. QED
    BY <1>3, <2>1, <2>2 DEF Analisis
<1>6. Entre(g[0], s, b + 0 .. b + d - 1, n) /\ Entre(t, m, b + (d + 1) .. b + L - 1, n)
  <2>1. d \in 0 .. d /\ 0 \in 0 .. d /\ d + 1 \in 0 .. L /\ L \in 0 .. L
    BY <1>2
  <2>2. Entre(g[0], g[d], b + 0 .. b + d - 1, n)
    BY <1>1, <1>2, <2>1 DEF PorIda
  <2>3. Entre(g[d + 1], g[L], b + (d + 1) .. b + L - 1, n)
    BY <1>1, <1>2, <2>1 DEF PorIda
  <2>4. QED
    BY <2>2, <2>3
<1>7. /\ Entre(h[0], v, fin + 1 - e .. fin - 0, n) /\ Entre(w, u, fin + 1 - L .. fin - (e + 1), n)
      /\ Entre(h[0], u, fin + 1 - L .. fin - 0, n)
  <2>1. e \in 0 .. e /\ 0 \in 0 .. e /\ e + 1 \in 0 .. L /\ L \in 0 .. L
    BY <1>2
  <2>2. Entre(h[0], h[e], fin + 1 - e .. fin - 0, n)
    BY <1>1, <1>2, <2>1 DEF PorVuelta
  <2>3. Entre(h[e + 1], h[L], fin + 1 - L .. fin - (e + 1), n)
    BY <1>1, <1>2, <2>1 DEF PorVuelta
  <2>4. Entre(h[0], h[L], fin + 1 - L .. fin - 0, n)
    BY <1>1, <1>2, <2>1 DEF PorVuelta
  <2>5. QED
    BY <2>2, <2>3, <2>4
<1>8. s.ins[i] = st.ins[i] /\ m.ins[i] = t.ins[i] /\ v.ins[i] = m.ins[i] /\ u.ins[i] = w.ins[i]
  <2>1. /\ i \notin b + 0 .. b + d - 1 /\ i \notin b + (d + 1) .. b + L - 1
        /\ i \notin fin + 1 - e .. fin - 0 /\ i \notin fin + 1 - L .. fin - (e + 1)
    BY <1>2
  <2>2. i \in 1 .. n
    BY <1>2
  <2> HIDE DEF s, t, m, v, w, u
  <2>3. QED
    BY <1>5, <1>6, <1>7, <2>1, <2>2 DEF Entre
<1>9. Crece(t.datos, u.datos)
  <2>1. Crece(t.datos, m.datos) /\ Crece(m.datos, u.datos)
    BY <1>5, <1>6, <1>7 DEF Entre
  <2>2. t.datos \in Seq(Palabras) /\ m.datos \in Seq(Palabras) /\ u.datos \in Seq(Palabras)
    BY <1>3 DEF Analisis
  <2>3. QED
    BY <2>1, <2>2, CreceSigue
<1>10. i \in v.quitadas => m.ins[i] = Nop
  <2> SUFFICES ASSUME i \in v.quitadas PROVE m.ins[i] = Nop
    OBVIOUS
  <2>1. i \notin fin + 1 - e .. fin - 0 /\ i \notin b + (d + 1) .. b + L - 1 /\ i \notin b + 0 .. b + d - 1 /\ i \notin 1 .. b - 1
    BY <1>2
  <2> HIDE DEF s, t, m, v, w, u
  <2>2. i \in m.quitadas
    BY <1>5, <1>7, <2>1 DEF Entre
  <2>3. i \in t.quitadas
    BY <1>6, <2>1, <2>2 DEF Entre
  <2>4. i \notin s.quitadas
    BY <1>5, <1>6, <2>1 DEF Entre
  <2>5. Tocada(s, t, i, n)
    BY <1>2, <1>3, <1>4, AnalizarSolo
  <2>6. QED
    BY <1>8, <2>3, <2>4, <2>5 DEF Tocada
<1> HIDE DEF s, t, m, v, w, u
<1>11. c = [k |-> s.k, ks |-> t.k, mid |-> m.ins[i], antes |-> w.vivos, despues |-> v.vivos]
  BY DEF s, t, m, v, w
<1>12. c \in Certificados
  <2>1. s.k \in [Registros -> Conocidos] /\ t.k \in [Registros -> Conocidos] /\ m.ins[i] \in Instruccion
        /\ w.vivos \in SUBSET Registros /\ v.vivos \in SUBSET Registros
    BY <1>2, <1>3 DEF Analisis
  <2>2. QED
    BY <1>11, <2>1 DEF Certificados
<1>13. Avance(c.k, c.ks, st.ins[i], c.mid, i, n, u.datos)
  BY <1>3, <1>4, <1>8, <1>9, <1>11 DEF Avance
<1>14. Poda(c, u.ins[i])
  <2>1. \/ i \in v.quitadas /\ w = v
        \/ /\ v.ins[i].op \in Definen /\ v.ins[i].a \notin v.vivos
           /\ w.ins[i] = Nop /\ w.vivos = v.vivos
        \/ w.ins[i] = v.ins[i] /\ w.vivos = Antes(v.ins[i], v.vivos)
    BY <1>2, <1>3, <1>4, PodarSolo
  <2>2. c.mid = m.ins[i] /\ c.antes = w.vivos /\ c.despues = v.vivos
    BY <1>11
  <2>3. QED
    BY <1>8, <1>10, <2>1, <2>2 DEF Poda
<1>15. QED
  BY <1>12, <1>13, <1>14 DEF EsPaso, u

LEMMA BloqueCertificado ==
  ASSUME NEW n \in Nat, NEW st \in Analisis(n), NEW fin \in st.inicio .. n,
         NEW b, b = st.inicio, st.quitadas \subseteq 1 .. b - 1, NEW t, t = AnalizarBloque(st, fin)
  PROVE  \E C : Certifica(C, st, t, b, fin, n)
<1>1. PICK g, h, bb, L : Pases(st, g, h, bb, fin, L, n)
  BY PasesEs
<1> DEFINE c(i) == [k |-> g[i - b].k, ks |-> g[i - b + 1].k, mid |-> g[L].ins[i],
                    antes |-> h[fin - i + 1].vivos, despues |-> h[fin - i].vivos]
           C == [i \in b .. fin |-> c(i)]
<1>2. /\ b \in 1 .. n /\ fin \in b .. n /\ L = fin + 1 - b /\ Pases(st, g, h, b, fin, L, n)
      /\ EsIda(g, st, L) /\ EsVuelta(h, g[L], fin, L)
      /\ t = [h[L] EXCEPT !.inicio = fin + 1] /\ L \in 0 .. L /\ h[L] \in Analisis(n) /\ g[L] \in Analisis(n)
  BY <1>1 DEF Pases
<1>3. t.ins = h[L].ins /\ t.datos = h[L].datos
  BY <1>2 DEF Analisis
<1>4. \A i \in b .. fin : c(i) \in Certificados /\ EsPaso(c(i), n, i, st.ins[i], h[L].ins[i], h[L].datos)
  <2> TAKE i \in b .. fin
  <2> DEFINE cc == c(i)
             d == i - b
             e == fin - i
  <2>1. cc = [k |-> g[d].k, ks |-> g[d + 1].k, mid |-> g[L].ins[i],
              antes |-> h[e + 1].vivos, despues |-> h[e].vivos] /\ d = i - b /\ e = fin - i
    OBVIOUS
  <2> HIDE DEF c, d, e
  <2>2. QED
    BY <1>2, <2>1, PasoDeBloque
<1>5. C \in [b .. fin -> Certificados] /\ \A i \in b .. fin : C[i] = c(i)
  BY <1>4
<1>6. C[b].k = NadaSabido
  <2>1. b \in b .. fin /\ b - b = 0
    BY <1>2
  <2>2. C[b].k = g[0].k
    BY <1>5, <2>1
  <2>3. g[0] = [st EXCEPT !.k = NadaSabido]
    BY <1>2 DEF EsIda
  <2>4. QED
    BY <2>2, <2>3 DEF Analisis
<1>7. ASSUME NEW i \in b + 1 .. fin PROVE C[i].k = C[i - 1].ks /\ C[i].antes = C[i - 1].despues
  <2>1. i \in b .. fin /\ i - 1 \in b .. fin /\ (i - 1) - b + 1 = i - b /\ fin - (i - 1) = fin - i + 1
    BY <1>2
  <2>2. C[i].k = g[i - b].k /\ C[i].antes = h[fin - i + 1].vivos
    BY <1>5, <2>1
  <2>3. C[i - 1].ks = g[(i - 1) - b + 1].k /\ C[i - 1].despues = h[fin - (i - 1)].vivos
    BY <1>5, <2>1
  <2>4. QED
    BY <2>1, <2>2, <2>3
<1>8. C[fin].mid.op \in Saltos => C[fin].despues = Registros
  <2>1. fin \in b .. fin /\ fin - fin = 0
    BY <1>2
  <2>2. C[fin].mid = g[L].ins[fin] /\ C[fin].despues = h[0].vivos
    BY <1>5, <2>1
  <2>3. h[0] = [g[L] EXCEPT !.vivos = IF g[L].ins[fin].op \in Saltos THEN Registros ELSE {0}]
    BY <1>2 DEF EsVuelta
  <2>4. h[0].vivos = IF g[L].ins[fin].op \in Saltos THEN Registros ELSE {0}
    BY <1>2, <2>3 DEF Analisis
  <2>5. QED
    BY <2>2, <2>4
<1> HIDE DEF C, c
<1>9. Certifica(C, st, t, b, fin, n)
  BY <1>3, <1>4, <1>5, <1>6, <1>7, <1>8 DEF Certifica
<1>10. QED
  BY <1>9

LEMMA AvanceCrece ==
  ASSUME NEW k, NEW ks, NEW inst, NEW mid, NEW n \in Nat, NEW i \in 1 .. n,
         NEW d \in Seq(Palabras), NEW e \in Seq(Palabras), Avance(k, ks, inst, mid, i, n, d), Crece(d, e)
  PROVE  Avance(k, ks, inst, mid, i, n, e)
<1>1. PICK s \in Analisis(n) : /\ s.ins[i] = inst /\ s.k = k
                              /\ Analizar(s, i).ins[i] = mid /\ Analizar(s, i).k = ks
                              /\ Crece(Analizar(s, i).datos, d)
  BY DEF Avance
<1> DEFINE t == Analizar(s, i)
<1>2. t \in Analisis(n)
  BY AnalizarSolo DEF Tocada, SoloEn
<1> HIDE DEF t
<1>3. t.datos \in Seq(Palabras)
  BY <1>2 DEF Analisis
<1>4. Crece(t.datos, e)
  BY <1>1, <1>3, CreceSigue DEF t
<1>5. QED
  BY <1>1, <1>4 DEF Avance, t

\* A certificate of the first m instructions: blocks begin after a control flow.
Eslabon(C, ins, i) ==
  /\ i = 1 \/ Control(ins[i - 1]) => C[i].k = NadaSabido
  /\ ~(i = 1 \/ Control(ins[i - 1])) => C[i].k = C[i - 1].ks /\ C[i].antes = C[i - 1].despues
  /\ Control(ins[i]) /\ C[i].mid.op \in Saltos => C[i].despues = Registros

Todo(C, m, n, ins, podado, datos) ==
  /\ C \in [1 .. m -> Certificados]
  /\ \A i \in 1 .. m : EsPaso(C[i], n, i, ins[i], podado[i], datos) /\ Eslabon(C, ins, i)

LEMMA TodoSigue ==
  ASSUME NEW n \in Nat, NEW st \in Analisis(n), NEW fin \in 1 .. n, NEW b \in 1 .. fin, b = st.inicio,
         NEW t \in Analisis(n), Entre(st, t, b .. fin, n),
         NEW ins, \A j \in b .. fin : st.ins[j] = ins[j],
         \A j \in b .. fin - 1 : ~Control(ins[j]), b = 1 \/ Control(ins[b - 1]),
         NEW C, Todo(C, b - 1, n, ins, st.ins, st.datos),
         NEW D, Certifica(D, st, t, b, fin, n)
  PROVE  \E E : Todo(E, fin, n, ins, t.ins, t.datos)
<1> DEFINE E == [j \in 1 .. fin |-> IF j < b THEN C[j] ELSE D[j]]
<1>1. \A j \in 1 .. fin : (j \in 1 .. b - 1 /\ j < b) \/ (j \in b .. fin /\ ~(j < b))
  OBVIOUS
<1>2. /\ C \in [1 .. b - 1 -> Certificados] /\ D \in [b .. fin -> Certificados]
      /\ \A j \in 1 .. b - 1 : EsPaso(C[j], n, j, ins[j], st.ins[j], st.datos) /\ Eslabon(C, ins, j)
      /\ \A j \in b .. fin : EsPaso(D[j], n, j, st.ins[j], t.ins[j], t.datos)
      /\ D[b].k = NadaSabido
      /\ \A j \in b + 1 .. fin : D[j].k = D[j - 1].ks /\ D[j].antes = D[j - 1].despues
      /\ D[fin].mid.op \in Saltos => D[fin].despues = Registros
  BY DEF Todo, Certifica
<1>3. \A j \in 1 .. fin : E[j] \in Certificados
  BY <1>1, <1>2
<1>4. /\ E \in [1 .. fin -> Certificados]
      /\ \A j \in 1 .. b - 1 : E[j] = C[j]
      /\ \A j \in b .. fin : E[j] = D[j]
  BY <1>1, <1>3
<1>5. st.datos \in Seq(Palabras) /\ t.datos \in Seq(Palabras)
  BY DEF Analisis
<1> HIDE DEF E
<1>6. ASSUME NEW j \in 1 .. b - 1
      PROVE  EsPaso(E[j], n, j, ins[j], t.ins[j], t.datos) /\ Eslabon(E, ins, j)
  <2>1. j \in 1 .. n /\ j \notin b .. fin
    OBVIOUS
  <2>2. t.ins[j] = st.ins[j] /\ Crece(st.datos, t.datos)
    BY <2>1 DEF Entre
  <2>3. EsPaso(C[j], n, j, ins[j], t.ins[j], t.datos)
    <3>1. Avance(C[j].k, C[j].ks, ins[j], C[j].mid, j, n, st.datos) /\ Poda(C[j], st.ins[j])
      BY <1>2 DEF EsPaso
    <3>2. Avance(C[j].k, C[j].ks, ins[j], C[j].mid, j, n, t.datos)
      BY <1>5, <2>1, <2>2, <3>1, AvanceCrece
    <3>3. QED
      BY <2>2, <3>1, <3>2 DEF EsPaso
  <2>4. Eslabon(E, ins, j)
    <3>1. j = 1 \/ j - 1 \in 1 .. b - 1
      OBVIOUS
    <3>2. E[j] = C[j] /\ (j # 1 => E[j - 1] = C[j - 1])
      BY <1>4, <3>1
    <3>3. Eslabon(C, ins, j)
      BY <1>2
    <3>4. QED
      BY <3>2, <3>3 DEF Eslabon
  <2>5. QED
    BY <1>4, <2>3, <2>4
<1>7. ASSUME NEW j \in b .. fin
      PROVE  EsPaso(E[j], n, j, ins[j], t.ins[j], t.datos) /\ Eslabon(E, ins, j)
  <2>1. EsPaso(E[j], n, j, ins[j], t.ins[j], t.datos)
    BY <1>2, <1>4
  <2>2. CASE j = b
    <3>1. E[j].k = NadaSabido /\ (j = 1 \/ Control(ins[j - 1]))
      BY <1>2, <1>4, <2>2
    <3>2. Control(ins[j]) /\ E[j].mid.op \in Saltos => E[j].despues = Registros
      <4>1. j \in b .. fin - 1 \/ j = fin
        BY <2>2
      <4>2. QED
        BY <1>2, <1>4, <4>1
    <3>3. QED
      BY <2>1, <3>1, <3>2 DEF Eslabon
  <2>3. CASE j # b
    <3>1. j \in b + 1 .. fin /\ j - 1 \in b .. fin /\ j - 1 \in b .. fin - 1 /\ j # 1
      BY <2>3
    <3>2. E[j].k = E[j - 1].ks /\ E[j].antes = E[j - 1].despues /\ ~Control(ins[j - 1])
      BY <1>2, <1>4, <3>1
    <3>3. Control(ins[j]) /\ E[j].mid.op \in Saltos => E[j].despues = Registros
      <4>1. j \in b .. fin - 1 \/ j = fin
        BY <3>1
      <4>2. QED
        BY <1>2, <1>4, <4>1
    <3>4. QED
      BY <2>1, <3>1, <3>2, <3>3 DEF Eslabon
  <2>4. QED
    BY <2>2, <2>3
<1>8. \A j \in 1 .. fin : EsPaso(E[j], n, j, ins[j], t.ins[j], t.datos) /\ Eslabon(E, ins, j)
  BY <1>1, <1>6, <1>7
<1>9. Todo(E, fin, n, ins, t.ins, t.datos)
  BY <1>4, <1>8 DEF Todo
<1>10. QED
  BY <1>9

\* Where the analysis of a program is after instruction i.
Hasta(st, i, n, ins, datos) ==
  /\ Crece(datos, st.datos)
  /\ st.inicio \in 1 .. i + 1 /\ (i = n => st.inicio = n + 1)
  /\ st.quitadas \subseteq 1 .. st.inicio - 1
  /\ \A j \in st.inicio .. n : st.ins[j] = ins[j]
  /\ \A j \in st.inicio .. i : ~Control(ins[j])
  /\ st.inicio = 1 \/ Control(ins[st.inicio - 1]) \/ st.inicio = n + 1
  /\ \E C : Todo(C, st.inicio - 1, n, ins, st.ins, st.datos)

LEMMA HastaSigue ==
  ASSUME NEW n \in Nat, NEW i \in 1 .. n, NEW u \in Analisis(n), NEW ins,
         NEW datos \in Seq(Palabras), Hasta(u, i - 1, n, ins, datos), NEW t, t = Bloque(u, i, n)
  PROVE  Hasta(t, i, n, ins, datos)
<1> DEFINE b == u.inicio
<1>1. b \in 1 .. i
  BY DEF Hasta
<1>2. u.ins[i] = ins[i]
  <2>1. i \in u.inicio .. n
    BY <1>1
  <2>2. QED
    BY <2>1 DEF Hasta
<1>3. CASE ~(Control(ins[i]) \/ i = n)
  <2>1. t = u
    BY <1>2, <1>3 DEF Bloque
  <2>2. \A j \in b .. i : ~Control(ins[j])
    <3>1. \A j \in b .. i - 1 : ~Control(ins[j])
      BY DEF Hasta
    <3>2. \A j \in b .. i : j \in b .. i - 1 \/ j = i
      BY <1>1
    <3>3. QED
      BY <1>3, <3>1, <3>2
  <2>3. b \in 1 .. i + 1
    BY <1>1
  <2>4. QED
    BY <1>3, <2>1, <2>2, <2>3 DEF Hasta
<1>4. CASE Control(ins[i]) \/ i = n
  <2>1. t = AnalizarBloque(u, i) /\ i \in u.inicio .. n
    BY <1>1, <1>2, <1>4 DEF Bloque
  <2>2. t \in Analisis(n) /\ t.inicio = i + 1 /\ Entre(u, t, b .. i, n)
    BY <2>1, BloqueSon
  <2>3. /\ u.quitadas \subseteq 1 .. b - 1 /\ \A j \in b .. n : u.ins[j] = ins[j]
        /\ \A j \in b .. i - 1 : ~Control(ins[j])
        /\ b = 1 \/ Control(ins[b - 1]) \/ b = n + 1
    BY DEF Hasta
  <2>4. PICK C : Todo(C, b - 1, n, ins, u.ins, u.datos)
    BY DEF Hasta
  <2>5. PICK D : Certifica(D, u, t, b, i, n)
    BY <2>1, <2>3, BloqueCertificado
  <2>6. b = u.inicio /\ (b = 1 \/ Control(ins[b - 1])) /\ \A j \in b .. i : u.ins[j] = ins[j]
    BY <1>1, <2>3
  <2> HIDE DEF b
  <2>7. \E E : Todo(E, i, n, ins, t.ins, t.datos)
    BY <1>1, <2>2, <2>3, <2>4, <2>5, <2>6, TodoSigue
  <2>8. /\ t.inicio \in 1 .. i + 1 /\ (i = n => t.inicio = n + 1) /\ t.inicio - 1 = i
        /\ \A j \in t.inicio .. i : ~Control(ins[j])
        /\ t.inicio = 1 \/ Control(ins[t.inicio - 1]) \/ t.inicio = n + 1
    BY <1>4, <2>2
  <2>9. t.quitadas \subseteq 1 .. i
    <3>1. 1 .. b - 1 \subseteq 1 .. i /\ b .. i \subseteq 1 .. i
      BY <1>1
    <3>2. QED
      BY <2>2, <2>3, <3>1 DEF Entre
  <2>10. \A j \in t.inicio .. n : t.ins[j] = ins[j]
    <3> TAKE j \in t.inicio .. n
    <3>1. j \in 1 .. n /\ j \notin b .. i /\ j \in b .. n
      BY <1>1, <2>2
    <3>2. QED
      BY <2>2, <2>3, <3>1 DEF Entre
  <2>11. Crece(datos, t.datos)
    <3>1. Crece(datos, u.datos) /\ Crece(u.datos, t.datos)
      BY <2>2 DEF Hasta, Entre
    <3>2. u.datos \in Seq(Palabras) /\ t.datos \in Seq(Palabras)
      BY <2>2 DEF Analisis
    <3>3. QED
      BY <3>1, <3>2, CreceSigue
  <2>12. QED
    BY <2>7, <2>8, <2>9, <2>10, <2>11 DEF Hasta
<1>5. QED
  BY <1>3, <1>4

\* The optimiser's analysis has a certificate of the whole program.
LEMMA ProgramaCertificado ==
  ASSUME NEW cod \in Codigos, NEW n, n = Len(cod.ins), NEW st, st = Analizado(cod)
  PROVE  /\ n \in Nat /\ st \in Analisis(n) /\ Crece(cod.datos, st.datos)
         /\ \E C : Todo(C, n, n, cod.ins, st.ins, st.datos)
<1>1. n \in Nat /\ st \in Analisis(n) /\ cod.datos \in Seq(Palabras)
  BY AnalizadoSon DEF Codigos
<1>2. PICK f \in [0 .. n -> Analisis(n)] : EsAnalizado(f, cod, n) /\ st = f[n]
  BY AnalizadoEs
<1> DEFINE T == {i \in 0 .. n : Hasta(f[i], i, n, cod.ins, cod.datos)}
<1>3. 0 \in T
  <2>1. f[0] = Inicial(cod)
    BY <1>2 DEF EsAnalizado
  <2>2. f[0].inicio = 1 /\ f[0].ins = cod.ins /\ f[0].quitadas = {} /\ f[0].datos = cod.datos
    BY <2>1 DEF Inicial
  <2>3. Todo(<<>>, 0, n, cod.ins, f[0].ins, f[0].datos)
    <3>1. <<>> \in [1 .. 0 -> Certificados]
      OBVIOUS
    <3>2. QED
      BY <3>1 DEF Todo
  <2>4. Crece(cod.datos, f[0].datos)
    BY <1>1, <2>2 DEF Crece
  <2>5. QED
    BY <1>1, <2>2, <2>3, <2>4 DEF Hasta
<1>4. ASSUME NEW i \in 1 .. n, i - 1 \in T PROVE i \in T
  <2>1. i \in 0 .. n /\ i - 1 \in 0 .. n
    BY <1>1
  <2>2. f[i - 1] \in Analisis(n) /\ f[i] = Bloque(f[i - 1], i, n)
    BY <1>2, <2>1 DEF EsAnalizado
  <2>3. Hasta(f[i], i, n, cod.ins, cod.datos)
    BY <1>1, <1>4, <2>2, HastaSigue
  <2>4. QED
    BY <2>1, <2>3
<1>5. n \in T
  <2>1. n \in 0 .. n
    BY <1>1
  <2> HIDE DEF T
  <2>2. QED
    BY <1>1, <1>3, <1>4, <2>1, Contando
<1>6. Hasta(st, n, n, cod.ins, cod.datos) /\ st.inicio - 1 = n
  BY <1>1, <1>2, <1>5 DEF Hasta
<1>7. QED
  BY <1>1, <1>6 DEF Hasta

-----------------------------------------------------------------------------
(* Machines, and what an instruction gives to its register.                *)

Celdas   == {"marco", "datos"} \X Int
Memorias == UNION {[D -> Palabras] : D \in SUBSET Celdas}

\* The machines of the programs of the fragment: they call nothing and print nothing.
Maquinas ==
  [pc : Nat, r : {r \in [Registros -> Palabras] : r[0] = 0}, pila : {<<>>}, salida : {<<>>},
   fin : BOOLEAN, exit_code : Int, pasos : Nat, mem : Memorias]

\* What is known of the registers is so.
Sabe(k, r) == \A x \in Registros : k[x] = {} \/ k[x] = {r[x]}

MismoMarco(uno, otro) ==
  \A d : d[1] = "marco" => /\ d \in DOMAIN uno <=> d \in DOMAIN otro
                           /\ d \in DOMAIN uno => uno[d] = otro[d]

ConDatos(mem, datos) ==
  \A j \in 1 .. Len(datos) : <<"datos", j - 1>> \in DOMAIN mem /\ mem[<<"datos", j - 1>>] = datos[j]

\* The instruction gives v to register r.
Da(m, inst, r, v) ==
  /\ inst.op \in Definen /\ inst.a = r /\ Valor(m, inst) = v
  /\ ~Imposible(inst.op, Leido(m, inst, inst.c, "C"))

LEMMA SabeAnota ==
  ASSUME NEW k \in [Registros -> Conocidos], NEW r \in [Registros -> Palabras], Sabe(k, r),
         NEW a \in Registros, NEW v \in Palabras, NEW V, V = {} \/ V = {v}
  PROVE  Sabe(Anota(k, a, V), [r EXCEPT ![a] = v])
BY DEF Sabe, Anota

LEMMA OperandoVale ==
  ASSUME NEW n \in Nat, NEW st \in Analisis(n), NEW m \in Maquinas, Sabe(st.k, m.r),
         NEW inst \in Instruccion, NEW x \in Registros, NEW bandera,
         NEW V, V = Operando(st, inst, x, bandera)
  PROVE  Leido(m, inst, x, bandera) \in Palabras /\ (V = {} \/ V = {Leido(m, inst, x, bandera)})
<1>1. m.r \in [Registros -> Palabras]
  BY DEF Maquinas
<1>2. x \in Palabras
  BY Constantes
<1>3. QED
  BY <1>1, <1>2 DEF Operando, Leido, Sabe

LEMMA Neutros ==
  ASSUME NEW x \in Palabras
  PROVE  /\ (x + 0) % Palabra = x /\ (0 + x) % Palabra = x /\ (x - 0) % Palabra = x
         /\ (x * 0) % Palabra = 0 /\ (0 * x) % Palabra = 0
         /\ (x * 1) % Palabra = x /\ (1 * x) % Palabra = x /\ x \div 1 = x
<1>1. x \in Nat /\ x < Palabra /\ Palabra \in Nat \ {0} /\ x \in 0 .. Palabra - 1 /\ 0 \in 0 .. Palabra - 1
  BY Constantes
<1>2. x % Palabra = x /\ 0 % Palabra = 0
  BY <1>1, Aritmetica
<1>3. x + 0 = x /\ 0 + x = x /\ x - 0 = x /\ x * 0 = 0 /\ 0 * x = 0 /\ x * 1 = x /\ 1 * x = x /\ x \div 1 = x
  BY <1>1
<1>4. QED
  BY <1>2, <1>3

LEMMA ValorEs ==
  ASSUME NEW m, NEW inst, NEW b, b = Leido(m, inst, inst.b, "B"), NEW c, c = Leido(m, inst, inst.c, "C")
  PROVE  /\ inst.op = "MOVER" /\ ~({"B", "C"} \subseteq inst.f) => Valor(m, inst) = b
         /\ inst.op = "LEER" => Valor(m, inst) = IF CeldaLeida(m, inst) \in DOMAIN m.mem
                                                THEN m.mem[CeldaLeida(m, inst)] ELSE 0
         /\ inst.op = "NO" => Valor(m, inst) = Si(b = 0)
         /\ inst.op \in Binarias => Valor(m, inst) = CalculoVm(inst.op, b, c)
<1>1. inst.op = "MOVER" /\ ~({"B", "C"} \subseteq inst.f) => Valor(m, inst) = b
  BY DEF Valor, Binarias, Comparaciones
<1>2. inst.op = "LEER" => Valor(m, inst) = IF CeldaLeida(m, inst) \in DOMAIN m.mem
                                         THEN m.mem[CeldaLeida(m, inst)] ELSE 0
  BY DEF Valor, Binarias, Comparaciones
<1>3. inst.op = "NO" => Valor(m, inst) = Si(b = 0)
  BY DEF Valor, Binarias, Comparaciones
<1>4. inst.op \in Binarias => Valor(m, inst) = CalculoVm(inst.op, b, c)
  BY DEF Valor, Binarias, Comparaciones
<1>5. QED
  BY <1>1, <1>2, <1>3, <1>4

LEMMA DaMover ==
  ASSUME NEW m, NEW inst, inst.op = "MOVER", ~({"B", "C"} \subseteq inst.f), NEW a, a = inst.a,
         NEW v, v = Leido(m, inst, inst.b, "B")
  PROVE  Da(m, inst, a, v)
<1>1. Valor(m, inst) = v
  BY ValorEs
<1>2. inst.op \in Definen /\ ~Imposible(inst.op, Leido(m, inst, inst.c, "C"))
  BY DEF Definen, Imposible
<1>3. QED
  BY <1>1, <1>2 DEF Da

LEMMA DaInmediata ==
  ASSUME NEW m \in Maquinas, NEW r, NEW v
  PROVE  Da(m, Inmediata(r, v), r, v)
<1> DEFINE t == Inmediata(r, v)
<1>1. t.op = "MOVER" /\ t.f = {"B"} /\ t.a = r /\ t.b = v
  BY DEF Inmediata
<1> HIDE DEF t
<1>2. v = Leido(m, t, t.b, "B") /\ ~({"B", "C"} \subseteq t.f)
  BY <1>1 DEF Leido, Es
<1>3. QED
  BY <1>1, <1>2, DaMover DEF t

LEMMA DaDeDatos ==
  ASSUME NEW m \in Maquinas, NEW r, NEW datos \in Seq(Palabras), ConDatos(m.mem, datos),
         NEW nd \in 0 .. Len(datos) - 1, nd < Byte * Byte
  PROVE  Da(m, DeDatos(r, nd), r, datos[nd + 1])
<1> DEFINE inst == DeDatos(r, nd)
           q == nd \div Byte
           z == nd % Byte
           celda == <<"datos", nd>>
<1>1. Len(datos) \in Nat /\ nd \in Nat /\ Byte \in Nat \ {0} /\ nd + 1 \in 1 .. Len(datos) /\ (nd + 1) - 1 = nd
  BY Constantes
<1>2. nd = Byte * q + z /\ q \in Nat /\ z \in Nat
  <2>1. nd % Byte \in 0 .. Byte - 1 /\ nd \div Byte \in Nat /\ nd = Byte * (nd \div Byte) + (nd % Byte)
    BY <1>1, Division
  <2>2. z \in 0 .. Byte - 1 /\ q \in Nat /\ nd = Byte * q + z
    BY <2>1
  <2> HIDE DEF q, z
  <2>3. QED
    BY <1>1, <2>2
<1>3. inst = [op |-> "LEER", f |-> IF q > 0 THEN {"B", "C"} ELSE {"B"}, a |-> r, b |-> z, c |-> q]
  BY DEF DeDatos
<1> HIDE DEF q, z, inst
<1>4. Largo(inst, inst.b, inst.c, "C") = nd
  <2>1. CASE q > 0
    BY <1>1, <1>2, <1>3, <2>1 DEF Largo, Es
  <2>2. CASE q = 0
    <3>1. Byte * q = 0 /\ nd = z
      BY <1>1, <1>2, <2>2
    <3>2. QED
      BY <1>2, <1>3, <2>2, <3>1 DEF Largo, Es
  <2>3. QED
    BY <1>2, <2>1, <2>2
<1>5. CeldaLeida(m, inst) = celda
  <2>1. Es(inst, "B") /\ ~Es(inst, "R")
    BY <1>3 DEF Es
  <2>2. QED
    BY <1>4, <2>1 DEF CeldaLeida, Celda
<1>6. celda \in DOMAIN m.mem /\ m.mem[celda] = datos[nd + 1]
  BY <1>1 DEF ConDatos
<1> HIDE DEF celda
<1>7. Valor(m, inst) = datos[nd + 1]
  <2>1. inst.op = "LEER"
    BY <1>3
  <2>2. QED
    BY <1>5, <1>6, <2>1, ValorEs
<1>8. QED
  BY <1>3, <1>7 DEF Da, Imposible, Definen, inst

LEMMA DaConInmediato ==
  ASSUME NEW m \in Maquinas, NEW inst \in Instruccion, inst.op = "MOVER", ~Es(inst, "C"), NEW v
  PROVE  Da(m, ConInmediato(inst, v), inst.a, v)
<1>1. inst.f \in SUBSET {"A", "B", "C", "R"}
  BY DEF Instruccion
<1> DEFINE t == ConInmediato(inst, v)
<1>2. t.op = "MOVER" /\ t.f = inst.f \cup {"B"} /\ t.a = inst.a /\ t.b = v
  BY DEF ConInmediato, Instruccion
<1> HIDE DEF t
<1>3. v = Leido(m, t, t.b, "B") /\ ~({"B", "C"} \subseteq t.f)
  BY <1>1, <1>2 DEF Leido, Es
<1>4. QED
  BY <1>2, <1>3, DaMover DEF t

\* The same registers give the same, unless memory is read.
LEMMA DaLaMisma ==
  ASSUME NEW m \in Maquinas, NEW m1 \in Maquinas, m1.r = m.r,
         NEW inst \in Instruccion, inst.op \in Definen \ {"LEER"}, NEW a, a = inst.a,
         ~Imposible(inst.op, Leido(m, inst, inst.c, "C"))
  PROVE  Da(m1, inst, a, Valor(m, inst))
<1>1. \A x : Leido(m1, inst, x, "B") = Leido(m, inst, x, "B") /\ Leido(m1, inst, x, "C") = Leido(m, inst, x, "C")
  BY DEF Leido
<1>2. Valor(m1, inst) = Valor(m, inst)
  BY <1>1 DEF Valor, Definen, Binarias, Comparaciones
<1>3. QED
  BY <1>1, <1>2 DEF Da

LEMMA DaCopia ==
  ASSUME NEW m \in Maquinas, NEW inst \in Instruccion, NEW bandera \in {"B", "C"}, NEW x \in Registros,
         NEW a, a = inst.a
  PROVE  Da(m, Copia(inst, bandera, x), a, Leido(m, inst, x, bandera))
<1> DEFINE t == Copia(inst, bandera, x)
<1>1. t.op = "MOVER" /\ t.f = (IF Es(inst, bandera) THEN {"B"} ELSE {}) /\ t.a = inst.a /\ t.b = x
  BY DEF Copia, Instruccion
<1> HIDE DEF t
<1>2. Leido(m, inst, x, bandera) = Leido(m, t, t.b, "B") /\ ~({"B", "C"} \subseteq t.f)
  BY <1>1 DEF Leido, Es
<1>3. QED
  BY <1>1, <1>2, DaMover DEF t

LEMMA DaCero ==
  ASSUME NEW m \in Maquinas, NEW inst \in Instruccion, NEW a, a = inst.a
  PROVE  Da(m, Cero(inst), a, 0)
<1> DEFINE t == Cero(inst)
<1>1. t.op = "MOVER" /\ t.f = {"B"} /\ t.a = inst.a /\ t.b = 0
  BY DEF Cero, Instruccion
<1> HIDE DEF t
<1>2. 0 = Leido(m, t, t.b, "B") /\ ~({"B", "C"} \subseteq t.f)
  BY <1>1 DEF Leido, Es
<1>3. QED
  BY <1>1, <1>2, DaMover DEF t

Calculan == Binarias \ {"COMPARAR"}

\* A reduced instruction gives what the instruction gives.
LEMMA DaReducida ==
  ASSUME NEW m \in Maquinas, NEW m1 \in Maquinas, m1.r = m.r,
         NEW inst \in Instruccion, inst.op \in Calculan, NEW a, a = inst.a,
         NEW x \in Palabras, x = Leido(m, inst, inst.b, "B"), NEW y \in Palabras, y = Leido(m, inst, inst.c, "C"),
         NEW X, X = {} \/ X = {x}, NEW Y, Y = {} \/ Y = {y}, ~Imposible(inst.op, y)
  PROVE  Da(m1, Reducida(inst, X, Y), a, Valor(m, inst))
<1> DEFINE v == Valor(m, inst)
           t == Reducida(inst, X, Y)
<1>1. v = Calculo(inst.op, x, y)
  BY CalculoDaPalabra DEF Valor, Calculan, Binarias, Comparaciones, CalculoVm
<1>2. inst.b \in Registros /\ inst.c \in Registros
  BY DEF Instruccion
<1>3. Da(m1, Copia(inst, "B", inst.b), a, x)
  <2>1. Leido(m1, inst, inst.b, "B") = x
    BY DEF Leido
  <2>2. QED
    BY <1>2, <2>1, DaCopia
<1>4. Da(m1, Copia(inst, "C", inst.c), a, y)
  <2>1. Leido(m1, inst, inst.c, "C") = y
    BY DEF Leido
  <2>2. QED
    BY <1>2, <2>1, DaCopia
<1>5. Da(m1, Cero(inst), a, 0)
  BY DaCero
<1>6. Da(m1, inst, a, v)
  <2>1. inst.op \in Definen \ {"LEER"}
    BY DEF Calculan, Definen, Binarias, Comparaciones
  <2>2. QED
    BY <2>1, DaLaMisma
<1> HIDE DEF v, t
<1>7. CASE inst.op \in {"SUMAR", "RESTAR"} /\ Y = {0}
  <2>1. y = 0 /\ t = Copia(inst, "B", inst.b)
    <3>1. y = 0
      BY <1>7
    <3>2. t = Copia(inst, "B", inst.b)
      BY <1>7 DEF t, Reducida
    <3>3. QED
      BY <3>1, <3>2
  <2>2. v = x
    BY <1>1, <1>7, <2>1, Neutros DEF Calculo
  <2>3. QED
    BY <1>3, <2>1, <2>2 DEF v, t
<1>8. CASE ~(inst.op \in {"SUMAR", "RESTAR"} /\ Y = {0}) /\ inst.op = "SUMAR" /\ X = {0}
  <2>1. x = 0 /\ t = Copia(inst, "C", inst.c)
    <3>1. x = 0
      BY <1>8
    <3>2. t = Copia(inst, "C", inst.c)
      BY <1>8 DEF t, Reducida
    <3>3. QED
      BY <3>1, <3>2
  <2>2. v = y
    BY <1>1, <1>8, <2>1, Neutros DEF Calculo
  <2>3. QED
    BY <1>4, <2>1, <2>2 DEF v, t
<1>9. CASE inst.op = "MULTIPLICAR" /\ {0} \in {X, Y}
  <2>1. (x = 0 \/ y = 0) /\ t = Cero(inst)
    <3>1. x = 0 \/ y = 0
      BY <1>9
    <3>2. t = Cero(inst)
      BY <1>9 DEF t, Reducida
    <3>3. QED
      BY <3>1, <3>2
  <2>2. v = 0
    BY <1>1, <1>9, <2>1, Neutros DEF Calculo
  <2>3. QED
    BY <1>5, <2>1, <2>2 DEF v, t
<1>10. CASE ~(inst.op = "MULTIPLICAR" /\ {0} \in {X, Y}) /\ inst.op \in {"MULTIPLICAR", "DIVIDIR"} /\ Y = {1}
  <2>1. y = 1 /\ t = Copia(inst, "B", inst.b)
    <3>1. y = 1
      BY <1>10
    <3>2. t = Copia(inst, "B", inst.b)
      BY <1>10 DEF t, Reducida
    <3>3. QED
      BY <3>1, <3>2
  <2>2. v = x
    BY <1>1, <1>10, <2>1, Neutros DEF Calculo
  <2>3. QED
    BY <1>3, <2>1, <2>2 DEF v, t
<1>11. CASE ~(inst.op = "MULTIPLICAR" /\ {0} \in {X, Y}) /\ Y # {1} /\ inst.op = "MULTIPLICAR" /\ X = {1}
  <2>1. x = 1 /\ t = Copia(inst, "C", inst.c)
    <3>1. x = 1
      BY <1>11
    <3>2. t = Copia(inst, "C", inst.c)
      BY <1>11 DEF t, Reducida
    <3>3. QED
      BY <3>1, <3>2
  <2>2. v = y
    BY <1>1, <1>11, <2>1, Neutros DEF Calculo
  <2>3. QED
    BY <1>4, <2>1, <2>2 DEF v, t
<1>12. CASE inst.op = "XOR" /\ inst.f \cap {"B", "C"} = {} /\ inst.b = inst.c
  <2>1. x = y /\ t = Cero(inst)
    BY <1>12 DEF t, Reducida, Leido, Es
  <2>2. v = 0
    <3> DEFINE bits == [i \in 0 .. Ancho - 1 |-> Si(Bit(x, i) # Bit(y, i))]
    <3>1. bits \in [0 .. Ancho - 1 -> {0, 1}] /\ \A i \in 0 .. Ancho - 1 : bits[i] = 0
      BY <2>1 DEF Si
    <3>2. v = DeBits(bits)
      BY <1>1, <1>12 DEF Calculo
    <3> HIDE DEF bits
    <3>3. QED
      BY <3>1, <3>2, BitsSon
  <2>3. QED
    BY <1>5, <2>1, <2>2 DEF v, t
<1>13. CASE /\ ~(inst.op \in {"SUMAR", "RESTAR"} /\ Y = {0}) /\ ~(inst.op = "SUMAR" /\ X = {0})
            /\ ~(inst.op = "MULTIPLICAR" /\ {0} \in {X, Y})
            /\ ~(inst.op \in {"MULTIPLICAR", "DIVIDIR"} /\ Y = {1})
            /\ ~(inst.op = "MULTIPLICAR" /\ X = {1})
            /\ ~(inst.op = "XOR" /\ inst.f \cap {"B", "C"} = {} /\ inst.b = inst.c)
  <2>1. t = inst
    BY <1>13 DEF t, Reducida
  <2>2. QED
    BY <1>6, <2>1 DEF v, t
<1>14. QED
  BY <1>7, <1>8, <1>9, <1>10, <1>11, <1>12, <1>13

\* What an instruction does to its register, and mid does with the same registers.
Hecho(m, m1, inst, mid, ks) ==
  /\ Valor(m, inst) \in Palabras /\ ~Imposible(inst.op, Leido(m, inst, inst.c, "C"))
  /\ Sabe(ks, [m.r EXCEPT ![inst.a] = Valor(m, inst)])
  /\ (mid = Nop /\ m.r[inst.a] = Valor(m, inst)) \/ Da(m1, mid, inst.a, Valor(m, inst))

\* What the forward pass leaves of an operation and of a value that is folded.
TrasBinaria(s, t, i, inst, X, Y) ==
  \/ {} \in {X, Y} /\ t.ins[i] = Reducida(inst, X, Y) /\ t.k = Anota(s.k, inst.a, {})
  \/ t.ins = s.ins /\ t.k = Anota(s.k, inst.a, {})
  \/ \E x, y \in Palabras : /\ X = {x} /\ Y = {y} /\ ~Imposible(inst.op, y)
                            /\ t = Plegado(s, i, Calculo(inst.op, x, y))

TrasPlegar(s, t, i, a, v) ==
  \/ v < Byte /\ t.ins[i] = Inmediata(a, v) /\ t.k = Anota(s.k, a, {v})
  \/ /\ t.ins[i] = DeDatos(a, Len(s.datos))
     /\ t.datos = Append(s.datos, v) /\ Alcanza(Len(s.datos)) /\ t.k = Anota(s.k, a, {v})
  \/ t.ins = s.ins /\ t.k = Anota(s.k, a, {})

LEMMA TrasBinariaEs ==
  ASSUME NEW n \in Nat, NEW s \in Analisis(n), NEW i \in 1 .. n, NEW inst, inst = s.ins[i],
         NEW X, X = Operando(s, inst, inst.b, "B"), NEW Y, Y = Operando(s, inst, inst.c, "C"),
         NEW t, t = AnalizarBinaria(s, i), inst.op \in Binarias
  PROVE  TrasBinaria(s, t, i, inst, X, Y)
BY BinariaSon DEF TrasBinaria

LEMMA TrasPlegarEs ==
  ASSUME NEW n \in Nat, NEW s \in Analisis(n), NEW i \in 1 .. n, NEW v \in Palabras,
         NEW t, t = Plegado(s, i, v), NEW a, a = s.ins[i].a
  PROVE  TrasPlegar(s, t, i, a, v)
BY PlegadoSon DEF TrasPlegar

LEMMA MoverFiel ==
  ASSUME NEW n \in Nat, NEW s \in Analisis(n), NEW i \in 1 .. n, NEW inst, inst = s.ins[i],
         inst.op = "MOVER", ~Es(inst, "C"), NEW t, t = Analizar(s, i),
         NEW m \in Maquinas, NEW m1 \in Maquinas, m1.r = m.r, Sabe(s.k, m.r)
  PROVE  Hecho(m, m1, inst, t.ins[i], t.k)
<1> DEFINE V == Operando(s, inst, inst.b, "B")
           v == Valor(m, inst)
           a == inst.a
<1>1. inst \in Instruccion /\ a \in Registros /\ inst.b \in Registros
  BY DEF Analisis, Instruccion
<1>2. ~({"B", "C"} \subseteq inst.f)
  BY DEF Es
<1>3. v = Leido(m, inst, inst.b, "B")
  BY <1>2, ValorEs
<1>4. v \in Palabras /\ (V = {} \/ V = {v})
  BY <1>1, <1>3, OperandoVale
<1>5. m.r \in [Registros -> Palabras] /\ s.k \in [Registros -> Conocidos]
  BY DEF Maquinas, Analisis
<1>6. ~Imposible(inst.op, Leido(m, inst, inst.c, "C"))
  BY DEF Imposible
<1>7. t = AnalizarMover(s, i) /\ V = Operando(s, inst, inst.b, "B")
  BY DEF Analizar, Binarias, Comparaciones
<1>8. \/ /\ t.ins[i] = Nop /\ t.k = s.k
         /\ IF Es(inst, "B") THEN s.k[a] = {inst.b} ELSE inst.b = a
      \/ \E w \in Palabras : /\ V = {w} /\ w < Byte /\ t.k = Anota(s.k, a, {w})
                             /\ t.ins[i] = ConInmediato(inst, w)
      \/ t.ins = s.ins /\ t.k = Anota(s.k, a, V)
  <2> HIDE DEF V, v, a
  <2>1. TrasMover(s, t, i, inst, V)
    BY <1>7, MoverSon
  <2>2. QED
    BY <2>1 DEF TrasMover, a
<1>9. Sabe(Anota(s.k, a, V), [m.r EXCEPT ![a] = v])
  BY <1>1, <1>4, <1>5, SabeAnota
<1> HIDE DEF V, v
<1>10. CASE /\ t.ins[i] = Nop /\ t.k = s.k
            /\ IF Es(inst, "B") THEN s.k[a] = {inst.b} ELSE inst.b = a
  <2>1. m.r[a] = v
    <3>1. CASE Es(inst, "B")
      BY <1>1, <1>3, <1>10, <3>1 DEF Sabe, Leido
    <3>2. CASE ~Es(inst, "B")
      BY <1>3, <1>10, <3>2 DEF Leido
    <3>3. QED
      BY <3>1, <3>2
  <2>2. [m.r EXCEPT ![a] = v] = m.r
    BY <1>5, <2>1
  <2>3. QED
    BY <1>4, <1>6, <1>10, <2>1, <2>2 DEF Hecho, v
<1>11. ASSUME NEW w \in Palabras, V = {w}, t.k = Anota(s.k, a, {w}), t.ins[i] = ConInmediato(inst, w)
       PROVE  Hecho(m, m1, inst, t.ins[i], t.k)
  <2>1. w = v
    BY <1>4, <1>11
  <2>2. Da(m1, ConInmediato(inst, w), a, w)
    BY <1>1, DaConInmediato
  <2>3. QED
    BY <1>4, <1>6, <1>9, <1>11, <2>1, <2>2 DEF Hecho, v
<1>12. CASE t.ins = s.ins /\ t.k = Anota(s.k, a, V)
  <2>1. inst.op \in Definen \ {"LEER"}
    BY DEF Definen
  <2>2. Da(m1, inst, a, Valor(m, inst))
    BY <1>1, <1>6, <2>1, DaLaMisma
  <2>3. QED
    BY <1>4, <1>6, <1>9, <1>12, <2>2 DEF Hecho, v
<1>13. QED
  BY <1>8, <1>10, <1>11, <1>12

LEMMA BinariaFiel ==
  ASSUME NEW n \in Nat, NEW s \in Analisis(n), NEW i \in 1 .. n, NEW inst, inst = s.ins[i],
         inst.op \in Calculan, NEW t, t = Analizar(s, i),
         NEW m \in Maquinas, NEW m1 \in Maquinas, m1.r = m.r, Sabe(s.k, m.r),
         ~Imposible(inst.op, Leido(m, inst, inst.c, "C")),
         NEW datos \in Seq(Palabras), Crece(t.datos, datos), ConDatos(m1.mem, datos)
  PROVE  Hecho(m, m1, inst, t.ins[i], t.k)
<1> DEFINE X == Operando(s, inst, inst.b, "B")
           Y == Operando(s, inst, inst.c, "C")
           x == Leido(m, inst, inst.b, "B")
           y == Leido(m, inst, inst.c, "C")
           v == Valor(m, inst)
           a == inst.a
<1>1. inst \in Instruccion /\ a \in Registros /\ inst.b \in Registros /\ inst.c \in Registros
  BY DEF Analisis, Instruccion
<1>2. inst.op \in Binarias /\ inst.op # "COMPARAR" /\ inst.op \in Definen \ {"LEER"}
  BY DEF Calculan, Definen, Binarias, Comparaciones
<1>3. x \in Palabras /\ (X = {} \/ X = {x}) /\ y \in Palabras /\ (Y = {} \/ Y = {y})
  BY <1>1, OperandoVale
<1>4. v = CalculoVm(inst.op, x, y)
  BY <1>2, ValorEs
<1>5. v \in Palabras /\ v = Calculo(inst.op, x, y)
  BY <1>2, <1>3, <1>4, CalculoDaPalabra
<1>6. m.r \in [Registros -> Palabras] /\ s.k \in [Registros -> Conocidos]
  BY DEF Maquinas, Analisis
<1>7. t = AnalizarBinaria(s, i) /\ X = Operando(s, inst, inst.b, "B") /\ Y = Operando(s, inst, inst.c, "C")
  BY <1>2 DEF Analizar, Binarias, Comparaciones
<1>8. \/ /\ {} \in {X, Y} /\ t.ins[i] = Reducida(inst, X, Y)
         /\ t.k = Anota(s.k, a, {})
      \/ /\ t.ins = s.ins /\ t.k = Anota(s.k, a, {})
      \/ \E xx, yy \in Palabras : /\ X = {xx} /\ Y = {yy} /\ ~Imposible(inst.op, yy)
                                  /\ t = Plegado(s, i, Calculo(inst.op, xx, yy))
  <2> HIDE DEF X, Y, x, y, v, a
  <2>1. TrasBinaria(s, t, i, inst, X, Y)
    BY <1>2, <1>7, TrasBinariaEs
  <2>2. QED
    BY <2>1 DEF TrasBinaria, a
<1>9. \A V : V = {} \/ V = {v} => Sabe(Anota(s.k, a, V), [m.r EXCEPT ![a] = v])
  BY <1>1, <1>5, <1>6, SabeAnota
<1>10. Da(m1, inst, a, v)
  BY <1>1, <1>2, DaLaMisma
<1>11. Da(m1, Reducida(inst, X, Y), a, v)
  BY <1>1, <1>3, DaReducida
<1> HIDE DEF X, Y, x, y, v, a
<1>12. CASE t.ins[i] = Reducida(inst, X, Y) /\ t.k = Anota(s.k, a, {})
  BY <1>5, <1>9, <1>11, <1>12 DEF Hecho, v, a
<1>13. CASE t.ins = s.ins /\ t.k = Anota(s.k, a, {})
  BY <1>5, <1>9, <1>10, <1>13 DEF Hecho, v, a
<1>14. ASSUME NEW xx \in Palabras, NEW yy \in Palabras, X = {xx}, Y = {yy},
              t = Plegado(s, i, Calculo(inst.op, xx, yy))
       PROVE  Hecho(m, m1, inst, t.ins[i], t.k)
  <2>1. xx = x /\ yy = y
    BY <1>3, <1>14
  <2>2. t = Plegado(s, i, v)
    BY <1>5, <1>14, <2>1
  <2>3. s.ins[i].a = a
    BY DEF a
  <2>4. TrasPlegar(s, t, i, a, v)
    BY <1>5, <2>2, <2>3, TrasPlegarEs
  <2>5. CASE t.ins[i] = Inmediata(a, v) /\ t.k = Anota(s.k, a, {v})
    <3>1. Da(m1, Inmediata(a, v), a, v)
      BY DaInmediata
    <3>2. QED
      BY <1>5, <1>9, <2>5, <3>1 DEF Hecho, v, a
  <2>6. CASE /\ t.ins[i] = DeDatos(a, Len(s.datos)) /\ t.datos = Append(s.datos, v)
             /\ Alcanza(Len(s.datos)) /\ t.k = Anota(s.k, a, {v})
    <3> DEFINE nd == Len(s.datos)
    <3>1. s.datos \in Seq(Palabras) /\ nd \in Nat /\ Len(datos) \in Nat
      BY DEF Analisis
    <3>2. Len(t.datos) = nd + 1 /\ t.datos[nd + 1] = v
      BY <1>5, <2>6, <3>1
    <3>3. nd \in 0 .. Len(datos) - 1 /\ datos[nd + 1] = v
      BY <3>1, <3>2 DEF Crece
    <3>4. nd < Byte * Byte
      BY <2>6 DEF Alcanza
    <3> HIDE DEF nd
    <3>5. Da(m1, DeDatos(a, nd), a, datos[nd + 1])
      BY <3>3, <3>4, DaDeDatos
    <3>6. Da(m1, t.ins[i], a, v)
      BY <2>6, <3>3, <3>5 DEF nd
    <3>7. QED
      BY <1>5, <1>9, <2>6, <3>6 DEF Hecho, v, a
  <2>7. CASE t.ins = s.ins /\ t.k = Anota(s.k, a, {})
    BY <1>5, <1>9, <1>10, <2>7 DEF Hecho, v, a
  <2>8. QED
    BY <2>4, <2>5, <2>6, <2>7 DEF TrasPlegar
<1>15. QED
  BY <1>8, <1>12, <1>13, <1>14

LEMMA LeerFiel ==
  ASSUME NEW n \in Nat, NEW s \in Analisis(n), NEW i \in 1 .. n, NEW inst, inst = s.ins[i],
         inst.op = "LEER", NEW t, t = Analizar(s, i), s.k[inst.a] = {},
         NEW m \in Maquinas, NEW m1 \in Maquinas, m1.r = m.r, Sabe(s.k, m.r),
         NEW d0 \in Seq(Palabras), NEW datos \in Seq(Palabras), Crece(d0, datos),
         ConDatos(m.mem, d0), ConDatos(m1.mem, datos), MismoMarco(m.mem, m1.mem),
         Es(inst, "R") \/ (Es(inst, "B") /\ Largo(inst, inst.b, inst.c, "C") < Len(d0))
  PROVE  Hecho(m, m1, inst, t.ins[i], t.k)
<1> DEFINE v == Valor(m, inst)
           a == inst.a
           celda == CeldaLeida(m, inst)
<1>1. inst \in Instruccion /\ a \in Registros /\ inst.b \in Registros /\ inst.c \in Registros
  BY DEF Analisis, Instruccion
<1>2. t = s
  BY DEF Analizar, Binarias, Comparaciones
<1>3. celda = CeldaLeida(m1, inst)
  BY DEF CeldaLeida
<1>4. /\ v = IF celda \in DOMAIN m.mem THEN m.mem[celda] ELSE 0
      /\ Valor(m1, inst) = IF celda \in DOMAIN m1.mem THEN m1.mem[celda] ELSE 0
  BY <1>3, ValorEs
<1>5. v \in Palabras
  <2>1. m.mem \in Memorias
    BY DEF Maquinas
  <2>2. \A d \in DOMAIN m.mem : m.mem[d] \in Palabras
    BY <2>1 DEF Memorias
  <2>3. QED
    BY <1>4, <2>2, Constantes
<1>6. Valor(m1, inst) = v
  <2>1. CASE Es(inst, "R")
    <3>1. celda[1] = "marco"
      BY <2>1 DEF CeldaLeida, Celda
    <3> HIDE DEF celda
    <3>2. QED
      BY <1>4, <3>1 DEF MismoMarco
  <2>2. CASE ~Es(inst, "R")
    <3> DEFINE w == Largo(inst, inst.b, inst.c, "C")
    <3>1. w \in Nat /\ w < Len(d0) /\ Len(d0) \in Nat
      <4>1. Byte \in Nat /\ inst.b \in Nat /\ inst.c \in Nat
        BY <1>1, Constantes DEF Registros
      <4>2. Byte * inst.c \in Nat
        BY <4>1
      <4>3. w \in Nat
        <5>1. w = inst.b + (IF Es(inst, "C") THEN Byte * inst.c ELSE 0)
          BY DEF Largo
        <5> DEFINE p == Byte * inst.c
        <5>2. w = inst.b + p \/ w = inst.b + 0
          BY <5>1
        <5> HIDE DEF w, p
        <5>3. p \in Nat
          BY <4>2 DEF p
        <5>4. QED
          BY <4>1, <5>2, <5>3
      <4>4. QED
        BY <2>2, <4>3
    <3>2. celda = <<"datos", w>>
      BY <2>2 DEF CeldaLeida, Celda
    <3>3. w + 1 \in 1 .. Len(d0) /\ (w + 1) - 1 = w /\ Len(datos) \in Nat
      BY <3>1
    <3>4. w + 1 \in 1 .. Len(datos) /\ datos[w + 1] = d0[w + 1]
      BY <3>3 DEF Crece
    <3> HIDE DEF celda, w
    <3>5. celda \in DOMAIN m.mem /\ m.mem[celda] = d0[w + 1]
      BY <3>2, <3>3 DEF ConDatos
    <3>6. celda \in DOMAIN m1.mem /\ m1.mem[celda] = datos[w + 1]
      BY <3>2, <3>3, <3>4 DEF ConDatos
    <3>7. QED
      BY <1>4, <3>4, <3>5, <3>6
  <2>3. QED
    BY <2>1, <2>2
<1>7. Sabe(s.k, [m.r EXCEPT ![a] = v])
  BY DEF Sabe, Maquinas
<1>8. ~Imposible(inst.op, Leido(m, inst, inst.c, "C")) /\ ~Imposible(inst.op, Leido(m1, inst, inst.c, "C"))
  BY DEF Imposible
<1>9. Da(m1, inst, a, v)
  BY <1>6, <1>8 DEF Da, Definen
<1> HIDE DEF v
<1>10. QED
  BY <1>2, <1>5, <1>7, <1>8, <1>9 DEF Hecho, v

-----------------------------------------------------------------------------
(* The instructions of the fragment, one by one.                           *)

\* What is known changes at the register that is defined, if at all.
UnoMas(k, ks, inst) ==
  ks = k \/ (inst.op \in Definen \ {"LEER"} /\ \A x \in Registros : x # inst.a => ks[x] = k[x])

LEMMA AnotaUno ==
  ASSUME NEW k \in [Registros -> Conocidos], NEW ks, NEW inst, NEW V, ks = Anota(k, inst.a, V),
         inst.op \in Definen \ {"LEER"}
  PROVE  UnoMas(k, ks, inst)
BY DEF Anota, UnoMas

LEMMA SabeUnoMas ==
  ASSUME NEW n \in Nat, NEW s \in Analisis(n), NEW i \in 1 .. n, NEW inst, inst = s.ins[i],
         inst.op # "NO", NEW t, t = Analizar(s, i)
  PROVE  UnoMas(s.k, t.k, inst)
<1>1. s.k \in [Registros -> Conocidos]
  BY DEF Analisis
<1>2. CASE inst.op = "MOVER"
  <2> DEFINE V == Operando(s, inst, inst.b, "B")
  <2>1. t = AnalizarMover(s, i) /\ V = Operando(s, inst, inst.b, "B") /\ inst.op \in Definen \ {"LEER"}
    BY <1>2 DEF Analizar, Binarias, Comparaciones, Definen
  <2> HIDE DEF V
  <2>2. TrasMover(s, t, i, inst, V)
    BY <2>1, MoverSon
  <2>3. t.k = s.k \/ \E W : t.k = Anota(s.k, inst.a, W)
    BY <2>2 DEF TrasMover
  <2>4. t.k = s.k => UnoMas(s.k, t.k, inst)
    BY DEF UnoMas
  <2>5. QED
    BY <1>1, <2>1, <2>3, <2>4, AnotaUno
<1>3. CASE inst.op \in Binarias
  <2> DEFINE X == Operando(s, inst, inst.b, "B")
             Y == Operando(s, inst, inst.c, "C")
  <2>1. /\ t = AnalizarBinaria(s, i) /\ X = Operando(s, inst, inst.b, "B") /\ Y = Operando(s, inst, inst.c, "C")
        /\ inst.op \in Definen \ {"LEER"}
    BY <1>3 DEF Analizar, Binarias, Comparaciones, Definen
  <2> HIDE DEF X, Y
  <2>2. TrasBinaria(s, t, i, inst, X, Y)
    BY <1>3, <2>1, TrasBinariaEs
  <2>3. t.k = Anota(s.k, inst.a, {}) \/ \E x, y \in Palabras : ~Imposible(inst.op, y) /\ t = Plegado(s, i, Calculo(inst.op, x, y))
    BY <2>2 DEF TrasBinaria
  <2>4. ASSUME NEW x \in Palabras, NEW y \in Palabras, ~Imposible(inst.op, y), t = Plegado(s, i, Calculo(inst.op, x, y))
        PROVE  UnoMas(s.k, t.k, inst)
    <3> DEFINE v == Calculo(inst.op, x, y)
               a == inst.a
    <3>1. v \in Palabras /\ t = Plegado(s, i, v) /\ a = s.ins[i].a
      BY <1>3, <2>4, CalculoDaPalabra
    <3> HIDE DEF v, a
    <3>2. TrasPlegar(s, t, i, a, v)
      BY <3>1, TrasPlegarEs
    <3>3. \E W : t.k = Anota(s.k, inst.a, W)
      BY <3>2 DEF TrasPlegar, a
    <3>4. QED
      BY <1>1, <2>1, <3>3, AnotaUno
  <2>5. QED
    BY <1>1, <2>1, <2>3, <2>4, AnotaUno
<1>4. CASE inst.op = "SI"
  <2>1. t = AnalizarSi(s, i)
    BY <1>4 DEF Analizar, Binarias, Comparaciones
  <2>2. QED
    BY <2>1, SiSon DEF UnoMas
<1>5. CASE inst.op \notin Binarias \cup {"MOVER", "NO", "SI"}
  BY <1>5 DEF Analizar, UnoMas
<1>6. QED
  BY <1>2, <1>3, <1>4, <1>5

\* Instruction g of the block defines y before i.
LoDefine(ins, i, y, g) ==
  ins[g].op \in Definen \ {"LEER"} /\ ins[g].a = y /\ \A h \in g .. i - 1 : ~Control(ins[h])

LEMMA DefinidaEs ==
  ASSUME NEW ins, NEW i, NEW y
  PROVE  y \in DefinidaAntes(ins, i) <=> \E g \in 1 .. i - 1 : LoDefine(ins, i, y, g)
<1> DEFINE S == {j \in 1 .. i - 1 : /\ ins[j].op \in Definen \ {"LEER"}
                                    /\ \A h \in j .. i - 1 : ~Control(ins[h])}
<1>1. DefinidaAntes(ins, i) = {ins[j].a : j \in S}
  BY DEF DefinidaAntes
<1>2. \A g : g \in S /\ ins[g].a = y <=> g \in 1 .. i - 1 /\ LoDefine(ins, i, y, g)
  BY DEF LoDefine
<1> HIDE DEF S
<1>3. y \in {ins[j].a : j \in S} <=> \E g \in S : ins[g].a = y
  OBVIOUS
<1>4. QED
  BY <1>1, <1>2, <1>3

\* A register is known where its block defined it, not by LEER, and nowhere else.
LEMMA ConocidosAntes ==
  ASSUME NEW n \in Nat, NEW ins \in [1 .. n -> Instruccion], NEW C, NEW podado, NEW datos,
         Todo(C, n, n, ins, podado, datos), \A i \in 1 .. n : ins[i].op # "NO",
         NEW i \in 1 .. n, NEW x \in Registros, x \notin DefinidaAntes(ins, i) \cup {0}
  PROVE  C[i].k[x] = {}
<1> DEFINE D(j) == DefinidaAntes(ins, j) \cup {0}
           P(j) == \A y \in Registros : C[j].k[y] # {} => y \in D(j)
           T == {j \in 0 .. n : j = 0 \/ P(j)}
<1>1. ASSUME NEW j \in 1 .. n, j - 1 \in T PROVE P(j)
  <2>1. Eslabon(C, ins, j)
    BY DEF Todo
  <2>2. CASE j = 1 \/ Control(ins[j - 1])
    BY <2>1, <2>2 DEF Eslabon, NadaSabido
  <2>3. CASE j # 1 /\ ~Control(ins[j - 1])
    <3> DEFINE h == j - 1
    <3>1. h \in 1 .. n /\ h \in 1 .. j - 1 /\ j - 1 = h /\ h # 0
      BY <2>3
    <3>2. P(h) /\ C[j].k = C[h].ks
      BY <1>1, <2>1, <2>3, <3>1 DEF Eslabon
    <3>3. UnoMas(C[h].k, C[h].ks, ins[h])
      <4>1. Avance(C[h].k, C[h].ks, ins[h], C[h].mid, h, n, datos)
        BY <3>1 DEF Todo, EsPaso
      <4>2. PICK s \in Analisis(n) : /\ s.ins[h] = ins[h] /\ s.k = C[h].k /\ Analizar(s, h).k = C[h].ks
        BY <4>1 DEF Avance
      <4>3. UnoMas(s.k, Analizar(s, h).k, ins[h])
        BY <3>1, <4>2, SabeUnoMas
      <4>4. QED
        BY <4>2, <4>3
    <3>4. ~Control(ins[h])
      BY <2>3
    <3> DEFINE E(g, y) == y \in DefinidaAntes(ins, g)
    <3>5. ASSUME NEW y, E(h, y) PROVE E(j, y)
      <4> HIDE DEF h
      <4>1. PICK g \in 1 .. h - 1 : LoDefine(ins, h, y, g)
        BY <3>5, DefinidaEs
      <4>2. g \in 1 .. j - 1 /\ \A l \in g .. j - 1 : l \in g .. h - 1 \/ l = h
        BY <3>1
      <4>3. LoDefine(ins, j, y, g)
        BY <3>4, <4>1, <4>2 DEF LoDefine
      <4>4. QED
        BY <4>2, <4>3, DefinidaEs
    <3>6. ins[h].op \in Definen \ {"LEER"} => E(j, ins[h].a)
      <4>1. \A l \in h .. j - 1 : l = h
        BY <3>1
      <4> HIDE DEF h
      <4>2. ins[h].op \in Definen \ {"LEER"} => LoDefine(ins, j, ins[h].a, h)
        BY <3>4, <4>1 DEF LoDefine
      <4>3. QED
        BY <3>1, <4>2, DefinidaEs
    <3> HIDE DEF h
    <3>7. ASSUME NEW y \in Registros, C[j].k[y] # {} PROVE y \in D(j)
      <4>1. C[h].k[y] # {} \/ (ins[h].op \in Definen \ {"LEER"} /\ y = ins[h].a)
        BY <3>2, <3>3, <3>7 DEF UnoMas
      <4>2. QED
        BY <3>2, <3>5, <3>6, <4>1
    <3>8. QED
      BY <3>7
  <2>4. QED
    BY <2>2, <2>3
<1> HIDE DEF P
<1>2. \A j \in 0 .. n : j \in T
  <2>1. 0 \in T
    OBVIOUS
  <2>2. ASSUME NEW j \in 1 .. n, j - 1 \in T PROVE j \in T
    BY <1>1, <2>2
  <2> HIDE DEF T
  <2>3. QED
    BY <2>1, <2>2, Contando
<1>3. P(i)
  BY <1>2
<1>4. QED
  BY <1>3 DEF P

\* The instructions of the fragment that define a register.
LEMMA DefineFiel ==
  ASSUME NEW cod \in Codigos, NEW n \in Nat, n = Len(cod.ins), NEW i \in 1 .. n, NEW inst, inst = cod.ins[i],
         SinExcepcion(cod, i), inst.op \in Definen, NEW datos \in Seq(Palabras), Crece(cod.datos, datos),
         NEW k, NEW ks, NEW mid, Avance(k, ks, inst, mid, i, n, datos), inst.op = "LEER" => k[inst.a] = {},
         NEW m \in Maquinas, NEW m1 \in Maquinas, m1.r = m.r, Sabe(k, m.r),
         ConDatos(m.mem, cod.datos), ConDatos(m1.mem, datos), MismoMarco(m.mem, m1.mem)
  PROVE  Hecho(m, m1, inst, mid, ks)
<1>1. PICK s \in Analisis(n) : /\ s.ins[i] = inst /\ s.k = k
                              /\ Analizar(s, i).ins[i] = mid /\ Analizar(s, i).k = ks
                              /\ Crece(Analizar(s, i).datos, datos)
  BY DEF Avance
<1> DEFINE t == Analizar(s, i)
<1>2. t = Analizar(s, i) /\ t.ins[i] = mid /\ t.k = ks /\ Crece(t.datos, datos)
  BY <1>1
<1>3. cod.datos \in Seq(Palabras)
  BY DEF Codigos
<1> HIDE DEF t
<1>4. CASE inst.op = "MOVER"
  <2>1. ~Es(inst, "C")
    BY <1>4 DEF SinExcepcion
  <2>2. Hecho(m, m1, inst, t.ins[i], t.k)
    BY <1>1, <1>2, <1>4, <2>1, MoverFiel
  <2>3. QED
    BY <1>2, <2>2
<1>5. CASE inst.op \in Calculan
  <2>1. ~Imposible(inst.op, Leido(m, inst, inst.c, "C"))
    BY <1>5 DEF SinExcepcion, Imposible, Leido
  <2>2. Hecho(m, m1, inst, t.ins[i], t.k)
    BY <1>1, <1>2, <1>5, <2>1, BinariaFiel
  <2>3. QED
    BY <1>2, <2>2
<1>6. CASE inst.op = "LEER"
  <2>1. Es(inst, "R") \/ (Es(inst, "B") /\ Largo(inst, inst.b, inst.c, "C") < Len(cod.datos))
    BY <1>6 DEF SinExcepcion
  <2>2. Hecho(m, m1, inst, t.ins[i], t.k)
    BY <1>1, <1>2, <1>3, <1>6, <2>1, LeerFiel
  <2>3. QED
    BY <1>2, <2>2
<1>7. inst.op \in {"MOVER", "LEER"} \cup Calculan
  BY DEF SinExcepcion, Definen, Calculan, Binarias, Saltos, Comparaciones
<1>8. QED
  BY <1>4, <1>5, <1>6, <1>7

\* The others stay, unless a condition is known to hold.
Seguida(inst, mid) ==
  \/ mid = inst
  \/ inst.op = "SI" /\ Es(inst, "A") /\ inst.a # 0 /\ mid = Incondicional(inst)

\* Of the other registers nothing is known.
SoloSabe(k, D) == \A x \in Registros : x \notin D \cup {0} => k[x] = {}

LEMMA OtraFiel ==
  ASSUME NEW cod \in Codigos, NEW n \in Nat, n = Len(cod.ins), NEW i \in 1 .. n, NEW inst, inst = cod.ins[i],
         SinExcepcion(cod, i), inst.op \notin Definen, NEW datos,
         NEW k, NEW ks, NEW mid, Avance(k, ks, inst, mid, i, n, datos),
         SoloSabe(k, DefinidaAntes(cod.ins, i))
  PROVE  ks = k /\ Seguida(inst, mid)
<1>1. PICK s \in Analisis(n) : /\ s.ins[i] = inst /\ s.k = k
                              /\ Analizar(s, i).ins[i] = mid /\ Analizar(s, i).k = ks
  BY DEF Avance
<1> DEFINE t == Analizar(s, i)
<1>2. t = Analizar(s, i) /\ t.ins[i] = mid /\ t.k = ks
  BY <1>1
<1> HIDE DEF t
<1>3. CASE inst.op = "SI"
  <2> DEFINE X == Operando(s, inst, inst.a, "A")
  <2>1. t = AnalizarSi(s, i) /\ X = Operando(s, inst, inst.a, "A")
    BY <1>1, <1>2, <1>3 DEF Analizar, Binarias, Comparaciones
  <2>2. inst.a \in Registros
    BY <1>1 DEF Analisis, Instruccion
  <2>3. IF Es(inst, "A") THEN inst.a # 0 ELSE inst.a \notin DefinidaAntes(cod.ins, i) \cup {0}
    BY <1>3 DEF SinExcepcion
  <2>4. IF Es(inst, "A") THEN X = {inst.a} /\ inst.a # 0 ELSE X = {}
    BY <1>1, <2>2, <2>3 DEF Operando, SoloSabe
  <2> HIDE DEF X
  <2>5. t.k = s.k /\ TrasSi(s, t, i, inst, X)
    BY <1>1, <2>1, SiSon
  <2>6. CASE Es(inst, "A")
    <3>1. X \notin {{}, {0}}
      BY <2>4, <2>6
    <3>2. QED
      BY <1>1, <1>2, <1>3, <2>3, <2>5, <2>6, <3>1 DEF Seguida, TrasSi
  <2>7. CASE ~Es(inst, "A")
    BY <1>1, <1>2, <2>4, <2>5, <2>7 DEF Seguida, TrasSi
  <2>8. QED
    BY <2>6, <2>7
<1>4. CASE inst.op # "SI"
  <2>1. inst.op \notin Binarias \cup {"MOVER", "NO", "SI"}
    BY <1>4 DEF Definen
  <2>2. t = s
    BY <1>1, <1>2, <2>1 DEF Analizar
  <2>3. QED
    BY <1>1, <1>2, <2>2 DEF Seguida
<1>5. QED
  BY <1>3, <1>4

-----------------------------------------------------------------------------
(* A step of a machine at an instruction.                                  *)

\* The machine that is executing instruction i.
En(m, i) == m.pc = (i - 1) * TamInst

Avanzada(m) == [m EXCEPT !.pc = @ + TamInst, !.pasos = @ + 1]

LEMMA Cociente ==
  ASSUME NEW p \in Nat \ {0}, NEW j \in Nat, NEW x, x = j * p
  PROVE  x \in Nat /\ x % p = 0 /\ x \div p = j
<1>1. x \in Nat
  OBVIOUS
<1> DEFINE q == x \div p
           r == x % p
           d == j - q
<1>2. q \in Nat /\ r \in 0 .. p - 1 /\ x = p * q + r
  BY <1>1, Division
<1> HIDE DEF q, r
<1>3. d \in Int /\ j = q + d
  BY <1>2
<1> HIDE DEF d
<1>4. p * d = r
  BY <1>2, <1>3
<1>5. d = 0
  <2>1. CASE d >= 1
    <3> DEFINE e == d - 1
               w == p * e
    <3>1. e \in Nat /\ d = e + 1
      BY <1>3, <2>1
    <3> HIDE DEF e
    <3>2. w \in Nat /\ p * d = w + p
      BY <3>1
    <3> HIDE DEF w
    <3>3. p <= r /\ r <= p - 1
      BY <1>2, <1>4, <3>2
    <3>4. QED
      BY <1>2, <3>3
  <2>2. CASE d <= -1
    <3> DEFINE e == -1 - d
               w == p * e
    <3>1. e \in Nat /\ d = -1 - e
      BY <1>3, <2>2
    <3> HIDE DEF e
    <3>2. w \in Nat /\ p * d = 0 - p - w
      BY <3>1
    <3> HIDE DEF w
    <3>3. r < 0 /\ 0 <= r
      BY <1>2, <1>4, <3>2
    <3>4. QED
      BY <1>2, <3>3
  <2>3. QED
    BY <1>3, <2>1, <2>2
<1>6. q = j /\ r = 0
  BY <1>2, <1>3, <1>4, <1>5
<1>7. QED
  BY <1>1, <1>6 DEF q, r

LEMMA PasoEn ==
  ASSUME NEW ins, NEW n \in Nat, n = Len(ins), NEW i \in 1 .. n, NEW m \in Maquinas, En(m, i), ~m.fin
  PROVE  Paso(ins, m) = Efecto(Avanzada(m), ins[i])
<1> DEFINE x == m.pc
           j == i - 1
<1>1. j \in Nat /\ x = j * TamInst /\ TamInst \in Nat \ {0} /\ j + 1 = i
  BY Constantes DEF En
<1>2. x \in Nat /\ x % TamInst = 0 /\ x \div TamInst = j
  BY <1>1, Cociente
<1>3. ~(x >= Len(ins) * TamInst)
  <2> DEFINE d == n - j
  <2>1. d \in Nat \ {0} /\ n = j + d
    OBVIOUS
  <2> HIDE DEF x, j, d
  <2>2. n * TamInst = j * TamInst + d * TamInst /\ d * TamInst >= 1 /\ j * TamInst \in Nat /\ d * TamInst \in Nat
    BY <1>1, <2>1
  <2>3. QED
    BY <1>1, <2>2
<1>4. Paso(ins, m) = Efecto(Avanzada(m), ins[m.pc \div TamInst + 1])
  BY <1>2, <1>3 DEF Paso, Avanzada
<1>5. QED
  BY <1>1, <1>2, <1>4

\* From m, the machine z: it goes on at pc with these registers and memory.
Sigue(m, z, pc, r, mem) ==
  z \in Maquinas /\ ~z.fin /\ z.pasos = m.pasos + 1 /\ z.pc = pc /\ z.r = r /\ z.mem = mem

Acaba(m, z, cual) ==
  z \in Maquinas /\ z.fin /\ z.pasos = m.pasos + 1 /\ z.exit_code = cual /\ z.mem = m.mem

LEMMA AvanzadaEs ==
  ASSUME NEW m \in Maquinas, NEW z, z = Avanzada(m)
  PROVE  /\ z \in Maquinas /\ z.pc = m.pc + TamInst /\ z.pasos = m.pasos + 1 /\ z.fin = m.fin
         /\ z.r = m.r /\ z.mem = m.mem /\ z.pila = <<>> /\ m.pila = <<>>
         /\ \A inst, x, bandera : Leido(z, inst, x, bandera) = Leido(m, inst, x, bandera)
         /\ \A inst : CeldaEscrita(z, inst) = CeldaEscrita(m, inst) /\ CeldaLeida(z, inst) = CeldaLeida(m, inst)
         /\ \A inst : Valor(z, inst) = Valor(m, inst)
<1>1. TamInst \in Nat
  BY Constantes
<1>2. /\ z \in Maquinas /\ z.pc = m.pc + TamInst /\ z.pasos = m.pasos + 1 /\ z.fin = m.fin
      /\ z.r = m.r /\ z.mem = m.mem /\ z.pila = <<>> /\ m.pila = <<>>
  <2> DEFINE p == m.pc + TamInst
             q == m.pasos + 1
  <2>1. p \in Nat /\ q \in Nat /\ m.pila = <<>>
    BY <1>1 DEF Maquinas
  <2>2. z = [m EXCEPT !.pc = p, !.pasos = q]
    BY DEF Avanzada, Maquinas
  <2> HIDE DEF p, q
  <2>3. z \in Maquinas /\ z.pc = p /\ z.pasos = q /\ z.fin = m.fin /\ z.r = m.r /\ z.mem = m.mem /\ z.pila = m.pila
    BY <2>1, <2>2 DEF Maquinas
  <2>4. QED
    BY <2>1, <2>3 DEF p, q
<1>3. \A inst, x, bandera : Leido(z, inst, x, bandera) = Leido(m, inst, x, bandera)
  BY <1>2 DEF Leido
<1>4. \A inst : CeldaEscrita(z, inst) = CeldaEscrita(m, inst) /\ CeldaLeida(z, inst) = CeldaLeida(m, inst)
  BY <1>2 DEF CeldaEscrita, CeldaLeida
<1>5. \A inst : Valor(z, inst) = Valor(m, inst)
  BY <1>2, <1>3, <1>4 DEF Valor
<1>6. QED
  BY <1>2, <1>3, <1>4, <1>5

LEMMA HaceDefine ==
  ASSUME NEW m \in Maquinas, ~m.fin, NEW inst \in Instruccion, inst.op \in Definen, inst.a # 0,
         NEW v \in Palabras, v = Valor(m, inst), ~Imposible(inst.op, Leido(m, inst, inst.c, "C")),
         NEW z, z = Efecto(Avanzada(m), inst)
  PROVE  Sigue(m, z, m.pc + TamInst, [m.r EXCEPT ![inst.a] = v], m.mem)
<1> DEFINE y == Avanzada(m)
           r == [m.r EXCEPT ![inst.a] = v]
<1>1. /\ y \in Maquinas /\ y.pc = m.pc + TamInst /\ y.pasos = m.pasos + 1 /\ y.fin = m.fin
      /\ y.r = m.r /\ y.mem = m.mem
      /\ Leido(y, inst, inst.c, "C") = Leido(m, inst, inst.c, "C") /\ Valor(y, inst) = Valor(m, inst)
  BY AvanzadaEs
<1> HIDE DEF y
<1>2. z = EnRegistro(y, inst.a, v)
  <2>1. inst.op \notin {"ESCRIBIR", "IR", "LLAMAR", "SI", "RETORNAR", "HALT", "IMPRIMIR_NUMERO", "NOP"}
    BY DEF Definen, Binarias, Comparaciones
  <2>2. z = Efecto(y, inst)
    BY DEF y
  <2>3. z = IF Imposible(inst.op, Leido(y, inst, inst.c, "C")) THEN Terminar(y, 1)
            ELSE EnRegistro(y, inst.a, Valor(y, inst))
    BY <2>1, <2>2 DEF Efecto
  <2>4. QED
    BY <1>1, <2>3
<1>3. z = [y EXCEPT !.r = r]
  BY <1>1, <1>2 DEF EnRegistro, Maquinas
<1>4. inst.a \in Registros
  BY DEF Instruccion
<1>5. r \in [Registros -> Palabras] /\ r[0] = 0
  BY <1>4, Constantes DEF Maquinas
<1> HIDE DEF r
<1>6. z \in Maquinas /\ z.r = r /\ z.pc = y.pc /\ z.pasos = y.pasos /\ z.fin = y.fin /\ z.mem = y.mem
  BY <1>1, <1>3, <1>5 DEF Maquinas
<1>7. QED
  BY <1>1, <1>6 DEF Sigue, r

LEMMA ConEs ==
  ASSUME NEW mem \in Memorias, NEW d \in Celdas, NEW v \in Palabras
  PROVE  /\ Con(mem, d, v) \in Memorias /\ DOMAIN Con(mem, d, v) = DOMAIN mem \cup {d}
         /\ \A x \in DOMAIN mem \cup {d} : Con(mem, d, v)[x] = IF x = d THEN v ELSE mem[x]
<1>1. DOMAIN mem \subseteq Celdas /\ \A x \in DOMAIN mem : mem[x] \in Palabras
  BY DEF Memorias
<1> DEFINE D == DOMAIN mem \cup {d}
           f == [y \in D |-> IF y = d THEN v ELSE mem[y]]
<1>2. Con(mem, d, v) = f
  BY DEF Con
<1>3. D \in SUBSET Celdas
  BY <1>1
<1>4. f \in [D -> Palabras]
  BY <1>1
<1>5. f \in Memorias
  BY <1>3, <1>4 DEF Memorias
<1>6. QED
  BY <1>2, <1>5

LEMMA ConMemoria ==
  ASSUME NEW mem \in Memorias, NEW d \in Celdas, NEW v \in Palabras
  PROVE  Con(mem, d, v) \in Memorias
BY ConEs

LEMMA CeldaDelMarco ==
  ASSUME NEW inst \in Instruccion, {"A", "R"} \subseteq inst.f, NEW m, NEW d, d = CeldaEscrita(m, inst)
  PROVE  d \in Celdas /\ d[1] = "marco" /\ d = <<"marco", Largo(inst, inst.a, inst.c, "C")>>
<1> DEFINE w == Largo(inst, inst.a, inst.c, "C")
<1>1. w \in Int
  <2>1. inst.a \in Int /\ inst.c \in Int /\ Byte \in Int
    BY Constantes DEF Instruccion
  <2> DEFINE p == Byte * inst.c
  <2>2. p \in Int
    BY <2>1
  <2>3. w = inst.a + (IF Es(inst, "C") THEN p ELSE 0)
    BY DEF Largo
  <2> HIDE DEF p, w
  <2>4. QED
    BY <2>1, <2>2, <2>3
<1>2. d = <<"marco", w>>
  BY DEF CeldaEscrita, Celda, Es
<1> HIDE DEF w
<1>3. QED
  BY <1>1, <1>2 DEF Celdas, w

LEMMA HaceEscribir ==
  ASSUME NEW m \in Maquinas, ~m.fin, NEW inst \in Instruccion, inst.op = "ESCRIBIR", {"A", "R"} \subseteq inst.f,
         NEW v \in Palabras, v = Leido(m, inst, inst.b, "B"), NEW d, d = CeldaEscrita(m, inst),
         NEW z, z = Efecto(Avanzada(m), inst)
  PROVE  Sigue(m, z, m.pc + TamInst, m.r, Con(m.mem, d, v))
<1> DEFINE y == Avanzada(m)
           w == Con(m.mem, d, v)
<1>1. /\ y \in Maquinas /\ y.pc = m.pc + TamInst /\ y.pasos = m.pasos + 1 /\ y.fin = m.fin
      /\ y.r = m.r /\ y.mem = m.mem
      /\ Leido(y, inst, inst.b, "B") = Leido(m, inst, inst.b, "B") /\ CeldaEscrita(y, inst) = d
  BY AvanzadaEs
<1>2. w \in Memorias
  <2>1. d \in Celdas /\ m.mem \in Memorias
    BY CeldaDelMarco DEF Maquinas
  <2> HIDE DEF y, w
  <2>2. Con(m.mem, d, v) \in Memorias
    BY <2>1, ConMemoria
  <2>3. QED
    BY <2>2 DEF w
<1> HIDE DEF y
<1>3. z = [y EXCEPT !.mem = Con(@, CeldaEscrita(y, inst), Leido(y, inst, inst.b, "B"))]
  BY DEF Efecto, y, Definen, Binarias, Comparaciones
<1>4. z = [y EXCEPT !.mem = w]
  BY <1>1, <1>3 DEF Maquinas
<1> HIDE DEF w
<1>5. z \in Maquinas /\ z.r = y.r /\ z.pc = y.pc /\ z.pasos = y.pasos /\ z.fin = y.fin /\ z.mem = w
  BY <1>1, <1>2, <1>4 DEF Maquinas
<1>6. QED
  BY <1>1, <1>5 DEF Sigue, w

LEMMA HaceSalto ==
  ASSUME NEW m \in Maquinas, ~m.fin, NEW pc \in Nat, NEW y, y = Avanzada(m), NEW z, z = [y EXCEPT !.pc = pc]
  PROVE  Sigue(m, z, pc, m.r, m.mem)
<1>1. /\ y \in Maquinas /\ y.pasos = m.pasos + 1 /\ y.fin = m.fin /\ y.r = m.r /\ y.mem = m.mem
  BY AvanzadaEs
<1>2. z \in Maquinas /\ z.r = y.r /\ z.pc = pc /\ z.pasos = y.pasos /\ z.fin = y.fin /\ z.mem = y.mem
  BY <1>1 DEF Maquinas
<1>3. QED
  BY <1>1, <1>2 DEF Sigue

LEMMA HaceIr ==
  ASSUME NEW m \in Maquinas, ~m.fin, NEW inst \in Instruccion, inst.op = "IR", Es(inst, "A"), ~Es(inst, "B"),
         NEW z, z = Efecto(Avanzada(m), inst)
  PROVE  Sigue(m, z, inst.a, m.r, m.mem)
<1> DEFINE y == Avanzada(m)
<1> HIDE DEF y
<1>1. inst.a \in Nat
  BY Constantes DEF Instruccion
<1>2. z = [y EXCEPT !.pc = Largo(inst, Leido(y, inst, inst.a, "A"), inst.b, "B")]
  BY DEF Efecto, y, Definen, Binarias, Comparaciones
<1>3. Largo(inst, Leido(y, inst, inst.a, "A"), inst.b, "B") = inst.a
  BY <1>1 DEF Leido, Largo
<1>4. QED
  BY <1>1, <1>2, <1>3, HaceSalto DEF y

LEMMA HaceSi ==
  ASSUME NEW m \in Maquinas, ~m.fin, NEW inst \in Instruccion, inst.op = "SI", ~Es(inst, "R"), ~Es(inst, "C"),
         NEW a, a = Leido(m, inst, inst.a, "A"), NEW z, z = Efecto(Avanzada(m), inst)
  PROVE  Sigue(m, z, IF a = 0 THEN m.pc + TamInst ELSE inst.b, m.r, m.mem)
<1> DEFINE y == Avanzada(m)
<1>1. inst.b \in Nat
  BY Constantes DEF Instruccion
<1>2. /\ Leido(y, inst, inst.a, "A") = a
      /\ y \in Maquinas /\ y.pc = m.pc + TamInst /\ y.pasos = m.pasos + 1 /\ y.fin = m.fin /\ y.r = m.r /\ y.mem = m.mem
  BY AvanzadaEs
<1> HIDE DEF y
<1>3. z = IF a = 0 THEN y ELSE [y EXCEPT !.pc = (IF Es(inst, "R") THEN y.pc ELSE 0) + Largo(inst, inst.b, inst.c, "C")]
  BY <1>2 DEF Efecto, y, Definen, Binarias, Comparaciones
<1>4. (IF Es(inst, "R") THEN y.pc ELSE 0) + Largo(inst, inst.b, inst.c, "C") = inst.b
  BY <1>1 DEF Largo
<1>5. CASE a = 0
  BY <1>2, <1>3, <1>5 DEF Sigue
<1>6. CASE a # 0
  <2>1. z = [y EXCEPT !.pc = inst.b]
    BY <1>3, <1>4, <1>6
  <2>2. QED
    BY <1>1, <1>6, <2>1, HaceSalto DEF y
<1>7. QED
  BY <1>5, <1>6

LEMMA HaceFin ==
  ASSUME NEW m \in Maquinas, NEW inst \in Instruccion,
         inst.op = "HALT" \/ (inst.op = "RETORNAR" /\ (Es(inst, "A") \/ inst.a = 0)),
         NEW z, z = Efecto(Avanzada(m), inst)
  PROVE  Acaba(m, z, IF inst.op = "HALT" \/ ~Es(inst, "A") THEN 0 ELSE inst.a)
<1> DEFINE y == Avanzada(m)
           a == Leido(y, inst, inst.a, "A")
           cual == IF inst.op = "HALT" \/ ~Es(inst, "A") THEN 0 ELSE inst.a
<1>1. /\ y \in Maquinas /\ y.pasos = m.pasos + 1 /\ y.mem = m.mem /\ y.pila = <<>> /\ y.r[0] = 0
  BY AvanzadaEs DEF Maquinas
<1> HIDE DEF y
<1>2. inst.op = "RETORNAR" => a = cual
  BY <1>1 DEF Leido
<1>3. cual \in Int
  BY Constantes DEF Instruccion
<1>4. z = Terminar(y, cual)
  <2>1. CASE inst.op = "HALT"
    BY <2>1 DEF Efecto, y, Definen, Binarias, Comparaciones
  <2>2. CASE inst.op = "RETORNAR"
    <3> HIDE DEF cual, a
    <3>1. z = Terminar(y, a)
      BY <1>1, <2>2 DEF Efecto, y, a, Definen, Binarias, Comparaciones
    <3>2. QED
      BY <1>2, <2>2, <3>1
  <2>3. QED
    BY <2>1, <2>2
<1> HIDE DEF cual
<1>5. z \in Maquinas /\ z.fin /\ z.exit_code = cual /\ z.pasos = y.pasos /\ z.mem = y.mem
  BY <1>1, <1>3, <1>4 DEF Terminar, Maquinas
<1>6. QED
  BY <1>1, <1>5 DEF Acaba, cual

-----------------------------------------------------------------------------
(* Where the instructions go.                                              *)

\* The last one is kept: each one has the place of the next one that is.
LEMMA NuevoEs ==
  ASSUME NEW q, NEW n \in Nat \ {0}, n \in q, NEW V, V = Viejos(q, n), NEW i \in 1 .. n
  PROVE  /\ Nuevo(q, n, i) \in 1 .. Len(V) /\ Len(V) \in Nat
         /\ i = 1 => Nuevo(q, n, i) = 1
         /\ i \in q => V[Nuevo(q, n, i)] = i /\ (i < n => Nuevo(q, n, i + 1) = Nuevo(q, n, i) + 1)
         /\ i \notin q => i < n /\ Nuevo(q, n, i + 1) = Nuevo(q, n, i)
<1> DEFINE W(j) == Viejos(q, j)
           c(j) == Len(W(j))
<1>1. \A j \in 0 .. n : W(j) \in Seq(Nat) /\ c(j) \in Nat
  <2>1. \A z \in Seq(Nat) : Len(z) \in Nat
    OBVIOUS
  <2>2. \A j \in 0 .. n : W(j) \in Seq(Nat)
    <3>1. \A j \in 0 .. n : j \in Nat
      OBVIOUS
    <3>2. QED
      BY <3>1, ViejosSigue
  <2>3. QED
    BY <2>1, <2>2
<1>2. \A j \in 1 .. n : /\ j \in q => W(j) = Append(W(j - 1), j) /\ c(j) = c(j - 1) + 1
                        /\ j \notin q => W(j) = W(j - 1) /\ c(j) = c(j - 1)
  <2> TAKE j \in 1 .. n
  <2>1. W(j) = IF j \in q THEN Append(W(j - 1), j) ELSE W(j - 1)
    <3>1. j \in Nat \ {0}
      OBVIOUS
    <3>2. QED
      BY <3>1, ViejosSigue
  <2>2. W(j - 1) \in Seq(Nat)
    BY <1>1
  <2> HIDE DEF W
  <2>3. Len(Append(W(j - 1), j)) = Len(W(j - 1)) + 1
    BY <2>2
  <2>4. QED
    BY <2>1, <2>3
<1>3. c(0) = 0
  BY ViejosSigue
<1>4. \A j \in 1 .. n : c(j - 1) < c(n)
  <2> TAKE j \in 1 .. n
  <2>1. n - 1 \in Nat /\ j - 1 \in 0 .. n - 1 /\ n \in 1 .. n /\ n - 1 \in 0 .. n /\ n \in 0 .. n /\ j - 1 \in 0 .. n
    OBVIOUS
  <2>2. c(j - 1) <= c(n - 1)
    BY <2>1, ViejosSon
  <2>3. c(n) = c(n - 1) + 1
    BY <1>2, <2>1
  <2>4. c(n) \in Nat /\ c(n - 1) \in Nat /\ c(j - 1) \in Nat
    BY <1>1, <2>1
  <2> HIDE DEF c
  <2>5. QED
    BY <2>2, <2>3, <2>4
<1>5. \A j \in 1 .. n : Nuevo(q, n, j) = c(j - 1) + 1
  <2> TAKE j \in 1 .. n
  <2>1. c(j - 1) # c(n)
    <3>1. c(j - 1) \in Nat /\ c(n) \in Nat /\ c(j - 1) < c(n)
      BY <1>1, <1>4
    <3> HIDE DEF c
    <3>2. QED
      BY <3>1
  <2>2. QED
    BY <2>1 DEF Nuevo
<1>6. c(n) = Len(V) /\ V = W(n)
  OBVIOUS
<1>7. i \in q => V[c(i - 1) + 1] = i
  <2> SUFFICES ASSUME i \in q PROVE V[c(i - 1) + 1] = i
    OBVIOUS
  <2>1. i \in 0 .. n /\ i - 1 \in 0 .. n
    OBVIOUS
  <2>2. W(i) = Append(W(i - 1), i) /\ W(i - 1) \in Seq(Nat) /\ c(i) = c(i - 1) + 1 /\ c(i) \in Nat /\ c(i - 1) \in Nat
    BY <1>1, <1>2, <2>1
  <2>3. \A j \in 1 .. c(i) : V[j] = W(i)[j]
    BY <2>1, ViejosSon
  <2>4. c(i - 1) = Len(W(i - 1))
    OBVIOUS
  <2> HIDE DEF W, c
  <2>5. W(i)[c(i - 1) + 1] = i
    BY <2>2, <2>4
  <2>6. c(i - 1) + 1 \in 1 .. c(i)
    BY <2>2
  <2>7. QED
    BY <2>3, <2>5, <2>6
<1>8. c(i - 1) \in Nat /\ c(n) \in Nat /\ c(i) \in Nat /\ c(i - 1) < c(n) /\ Nuevo(q, n, i) = c(i - 1) + 1
  BY <1>1, <1>4, <1>5
<1>9. i < n => Nuevo(q, n, i + 1) = c(i) + 1
  <2> SUFFICES ASSUME i < n PROVE Nuevo(q, n, i + 1) = c(i) + 1
    OBVIOUS
  <2>1. i + 1 \in 1 .. n /\ (i + 1) - 1 = i
    OBVIOUS
  <2>2. QED
    BY <1>5, <2>1
<1>10. i \notin q => i < n
  OBVIOUS
<1>11. (i \in q => c(i) = c(i - 1) + 1) /\ (i \notin q => c(i) = c(i - 1)) /\ (i = 1 => c(i - 1) = 0)
  BY <1>2, <1>3
<1> HIDE DEF c, W
<1>12. QED
  BY <1>6, <1>7, <1>8, <1>9, <1>10, <1>11

\* z is the instruction, its target moved.
Puesta(z, inst, lug, n) ==
  /\ inst.op \notin Saltos => z = inst
  /\ inst.op = "SI" => \A j \in 1 .. n : inst.b = (j - 1) * TamInst => z = [inst EXCEPT !.b = (lug[j] - 1) * TamInst]
  /\ inst.op = "IR" => \A j \in 1 .. n : inst.a = (j - 1) * TamInst => z = [inst EXCEPT !.a = (lug[j] - 1) * TamInst]

\* Each kept instruction has a place after the one before.
Colocado(lug, ins, opt, n) ==
  /\ lug \in [1 .. n -> 1 .. Len(opt)] /\ lug[1] = 1
  /\ \A i \in 1 .. n : /\ ins[i].op = "NOP" => i < n /\ lug[i + 1] = lug[i]
                       /\ ins[i].op # "NOP" => /\ Puesta(opt[lug[i]], ins[i], lug, n)
                                               /\ i < n => lug[i + 1] = lug[i] + 1
  /\ \A j \in 1 .. Len(opt) : \E i \in 1 .. n : ins[i].op # "NOP" /\ Puesta(opt[j], ins[i], lug, n)

LEMMA ColocadoEn ==
  ASSUME NEW n \in Nat, NEW lug, NEW ins, NEW opt \in Seq(Instruccion), Colocado(lug, ins, opt, n), NEW i \in 1 .. n
  PROVE  /\ lug[i] \in 1 .. Len(opt) /\ Len(opt) \in Nat
         /\ ins[i].op = "NOP" => i < n /\ lug[i + 1] = lug[i]
         /\ ins[i].op # "NOP" => Puesta(opt[lug[i]], ins[i], lug, n) /\ (i < n => lug[i + 1] = lug[i] + 1)
BY DEF Colocado

\* A jump to an instruction of the code.
SaltaDentro(inst, n) ==
  inst.op \in Saltos => /\ inst.op \in {"SI", "IR"} /\ ~Es(inst, "R")
                        /\ \E j \in 1 .. n : Destino(inst, 0) = (j - 1) * TamInst

LEMMA LugarCabe ==
  ASSUME NEW n \in Nat, n * TamInst <= Byte, NEW j \in 1 .. n
  PROVE  (j - 1) * TamInst \in 0 .. Byte - 1
<1> DEFINE d == n - j
           e == j - 1
           x == d * TamInst
           y == e * TamInst
<1>1. d \in Nat /\ e \in Nat /\ n = d + e + 1 /\ TamInst \in Nat \ {0} /\ Byte \in Nat
  BY Constantes
<1> HIDE DEF d, e
<1>2. x \in Nat /\ y \in Nat /\ n * TamInst = x + y + TamInst
  BY <1>1
<1> HIDE DEF x, y
<1>3. y \in 0 .. Byte - 1
  BY <1>1, <1>2
<1>4. QED
  BY <1>3 DEF y, e

\* Such a jump can be moved.
LEMMA SaltoMovible ==
  ASSUME NEW n \in Nat \ {0}, n * TamInst <= Byte, NEW q, n \in q, NEW inst, inst.op \in Saltos,
         inst.op \in {"SI", "IR"}, ~Es(inst, "R"), NEW i, Len(Viejos(q, n)) <= n,
         NEW j \in 1 .. n, Destino(inst, 0) = (j - 1) * TamInst
  PROVE  /\ Movible(q, n, inst, i) /\ NuevoDestino(q, n, inst, i) = (Nuevo(q, n, j) - 1) * TamInst
<1> DEFINE x == Destino(inst, i)
           e == j - 1
           l == Nuevo(q, n, j)
           y == (l - 1) * TamInst
<1>1. e \in Nat /\ e < n /\ e + 1 = j /\ TamInst \in Nat \ {0}
  BY Constantes
<1>2. x = e * TamInst
  <2>1. Destino(inst, i) = Destino(inst, 0)
    BY DEF Destino
  <2>2. QED
    BY <2>1
<1>3. x % TamInst = 0 /\ x \div TamInst = e
  <2> HIDE DEF e, x
  <2>1. QED
    BY <1>1, <1>2, Cociente
<1>4. l \in 1 .. n
  <2>1. l \in 1 .. Len(Viejos(q, n)) /\ Len(Viejos(q, n)) \in Nat
    BY NuevoEs
  <2>2. QED
    BY <2>1
<1>5. y \in 0 .. Byte - 1
  <2> HIDE DEF l
  <2>1. QED
    BY <1>4, LugarCabe
<1>6. NuevoDestino(q, n, inst, i) = y
  <2>1. NuevoDestino(q, n, inst, i) = (Nuevo(q, n, Destino(inst, i) \div TamInst + 1) - 1) * TamInst - 0
    BY DEF NuevoDestino
  <2>2. Destino(inst, i) \div TamInst + 1 = j
    BY <1>1, <1>3
  <2>3. NuevoDestino(q, n, inst, i) = y - 0
    BY <2>1, <2>2
  <2> HIDE DEF y
  <2>4. QED
    BY <1>5, <2>3
<1> HIDE DEF x, y, e
<1>7. Movible(q, n, inst, i)
  BY <1>1, <1>3, <1>5, <1>6 DEF Movible, x
<1>8. QED
  BY <1>6, <1>7 DEF y

LEMMA CompactadoColoca ==
  ASSUME NEW n \in Nat \ {0}, n * TamInst <= Byte, NEW ins \in [1 .. n -> Instruccion], ins[n].op # "NOP",
         \A i \in 1 .. n : SaltaDentro(ins[i], n), NEW opt, opt = Compactado(ins)
  PROVE  Len(opt) \in Nat /\ \E lug : Colocado(lug, ins, opt, n)
<1> DEFINE q == Quedan(ins)
           V == Viejos(q, n)
           l(i) == Nuevo(q, n, i)
           M(j) == Movida(q, n, ins[V[j]], V[j])
           lug == [i \in 1 .. n |-> l(i)]
<1>1. Len(ins) = n /\ n \in 1 .. n
  OBVIOUS
<1>2. n \in q /\ \A i \in 1 .. n : i \in q <=> ins[i].op # "NOP"
  BY <1>1 DEF Quedan
<1>3. Len(V) \in Nat /\ Len(V) <= n
  BY <1>1, <1>2, NuevoEs, ViejosSon
<1>4. \A i \in q : Movible(q, n, ins[i], i)
  <2> TAKE i \in q
  <2>1. i \in 1 .. n
    BY <1>1 DEF Quedan
  <2>2. CASE ins[i].op \in Saltos
    <3>1. /\ ins[i].op \in {"SI", "IR"} /\ ~Es(ins[i], "R")
          /\ \E j \in 1 .. n : Destino(ins[i], 0) = (j - 1) * TamInst
      BY <2>1, <2>2 DEF SaltaDentro
    <3> HIDE DEF q
    <3>2. QED
      BY <1>2, <1>3, <2>2, <3>1, SaltoMovible
  <2>3. CASE ins[i].op \notin Saltos
    BY <2>3 DEF Movible
  <2>4. QED
    BY <2>2, <2>3
<1>5. opt = [j \in 1 .. Len(V) |-> M(j)]
  BY <1>1, <1>4 DEF Compactado, Quedan
<1> HIDE DEF q, V, M, l
<1>6. Len(opt) = Len(V) /\ \A j \in 1 .. Len(V) : opt[j] = M(j)
  BY <1>3, <1>5
<1>7. \A i \in 1 .. n : /\ l(i) \in 1 .. Len(V) /\ (i = 1 => l(i) = 1)
                        /\ i \in q => V[l(i)] = i /\ (i < n => l(i + 1) = l(i) + 1)
                        /\ i \notin q => i < n /\ l(i + 1) = l(i)
  <2> TAKE i \in 1 .. n
  <2>1. n \in q
    BY <1>2
  <2> QED
    BY <2>1, NuevoEs DEF V, l
<1>8. \A i \in 1 .. n : lug[i] = l(i) /\ (i < n => lug[i + 1] = l(i + 1))
  OBVIOUS
<1>9. lug \in [1 .. n -> 1 .. Len(opt)] /\ lug[1] = 1
  BY <1>1, <1>6, <1>7
<1> HIDE DEF lug
<1>10. ASSUME NEW i \in q, i \in 1 .. n, NEW z, z = Movida(q, n, ins[i], i)
       PROVE  Puesta(z, ins[i], lug, n)
  <2> DEFINE inst == ins[i]
  <2>1. z = Movida(q, n, inst, i)
    BY <1>10
  <2>2. CASE inst.op \notin Saltos
    BY <2>1, <2>2 DEF Movida, Puesta, Saltos
  <2>3. CASE inst.op \in Saltos
    <3>1. inst.op \in {"SI", "IR"} /\ ~Es(inst, "R")
      BY <2>3, <1>10 DEF SaltaDentro
    <3>2. ASSUME NEW j \in 1 .. n, Destino(inst, 0) = (j - 1) * TamInst
          PROVE  NuevoDestino(q, n, inst, i) = (lug[j] - 1) * TamInst
      <4> HIDE DEF inst
      <4>1. NuevoDestino(q, n, inst, i) = (Nuevo(q, n, j) - 1) * TamInst
        BY <1>2, <1>3, <2>3, <3>1, <3>2, SaltoMovible DEF V
      <4>2. QED
        BY <1>8, <4>1 DEF l
    <3>3. inst.a \in Int /\ inst.b \in Int
      <4>1. inst \in Instruccion
        BY <1>10
      <4> HIDE DEF inst
      <4>2. QED
        BY <4>1, Constantes DEF Instruccion
    <3> HIDE DEF inst
    <3>4. CASE inst.op = "SI"
      <4>1. Destino(inst, 0) = inst.b
        BY <3>1, <3>3, <3>4 DEF Destino
      <4>2. z = [inst EXCEPT !.b = NuevoDestino(q, n, inst, i)]
        BY <2>1, <3>4 DEF Movida
      <4>3. ASSUME NEW j \in 1 .. n, inst.b = (j - 1) * TamInst
            PROVE  z = [inst EXCEPT !.b = (lug[j] - 1) * TamInst]
        BY <3>2, <4>1, <4>2, <4>3
      <4>4. QED
        BY <3>4, <4>3 DEF Puesta, Saltos, inst
    <3>5. CASE inst.op = "IR"
      <4>1. Destino(inst, 0) = inst.a
        BY <3>1, <3>3, <3>5 DEF Destino
      <4>2. z = [inst EXCEPT !.a = NuevoDestino(q, n, inst, i)]
        BY <2>1, <3>5 DEF Movida
      <4>3. ASSUME NEW j \in 1 .. n, inst.a = (j - 1) * TamInst
            PROVE  z = [inst EXCEPT !.a = (lug[j] - 1) * TamInst]
        BY <3>2, <4>1, <4>2, <4>3
      <4>4. QED
        BY <3>5, <4>3 DEF Puesta, Saltos, inst
    <3>6. QED
      BY <3>1, <3>4, <3>5
  <2>4. QED
    BY <2>2, <2>3
<1>11. \A j \in 1 .. Len(opt) : /\ V[j] \in q /\ V[j] \in 1 .. n
                                /\ Puesta(opt[j], ins[V[j]], lug, n)
  <2> TAKE j \in 1 .. Len(opt)
  <2>1. j \in 1 .. Len(V) /\ opt[j] = Movida(q, n, ins[V[j]], V[j])
    BY <1>6 DEF M
  <2>2. V[j] \in q /\ V[j] \in 1 .. n
    BY <2>1, ViejosSon DEF V
  <2>3. QED
    BY <1>10, <2>1, <2>2
<1>12. ASSUME NEW i \in 1 .. n, i \in q PROVE Puesta(opt[lug[i]], ins[i], lug, n)
  <2>1. lug[i] \in 1 .. Len(opt) /\ V[lug[i]] = i
    BY <1>6, <1>7, <1>8, <1>12
  <2>2. QED
    BY <1>11, <2>1
<1>13. \A j \in 1 .. Len(opt) : \E i \in 1 .. n : ins[i].op # "NOP" /\ Puesta(opt[j], ins[i], lug, n)
  BY <1>2, <1>11
<1>14. Colocado(lug, ins, opt, n)
  <2>1. \A i \in 1 .. n : /\ ins[i].op = "NOP" => i < n /\ lug[i + 1] = lug[i]
                          /\ ins[i].op # "NOP" => /\ Puesta(opt[lug[i]], ins[i], lug, n)
                                                  /\ i < n => lug[i + 1] = lug[i] + 1
    BY <1>2, <1>7, <1>8, <1>12
  <2>2. QED
    BY <1>9, <1>13, <2>1 DEF Colocado
<1>15. QED
  BY <1>3, <1>6, <1>14

\* A definition stays one or goes.
LEMMA ReducidaDefine ==
  ASSUME NEW inst, inst.op \in Definen, NEW X, NEW Y, inst \in Instruccion
  PROVE  Reducida(inst, X, Y).op \in Definen
<1>1. Copia(inst, "B", inst.b).op = "MOVER" /\ Copia(inst, "C", inst.c).op = "MOVER" /\ Cero(inst).op = "MOVER"
  BY DEF Copia, Cero, Instruccion
<1>2. "MOVER" \in Definen
  BY DEF Definen
<1>3. QED
  BY <1>1, <1>2 DEF Reducida

LEMMA DefineONada ==
  ASSUME NEW n \in Nat, NEW s \in Analisis(n), NEW i \in 1 .. n, NEW inst, inst = s.ins[i],
         inst.op \in Definen \ {"NO"}, NEW t, t = Analizar(s, i)
  PROVE  t.ins[i].op \in Definen \cup {"NOP"}
<1>1. inst \in Instruccion /\ inst.f \in SUBSET {"A", "B", "C", "R"}
  BY DEF Analisis, Instruccion
<1>2. CASE inst.op = "MOVER"
  <2> DEFINE V == Operando(s, inst, inst.b, "B")
  <2>1. t = AnalizarMover(s, i) /\ V = Operando(s, inst, inst.b, "B")
    BY <1>2 DEF Analizar, Binarias, Comparaciones
  <2> HIDE DEF V
  <2>2. TrasMover(s, t, i, inst, V)
    BY <2>1, MoverSon
  <2>3. \A v : ConInmediato(inst, v).op = "MOVER"
    BY <1>1, <1>2 DEF ConInmediato, Instruccion
  <2>4. t.ins[i] = Nop \/ (\E v : t.ins[i] = ConInmediato(inst, v)) \/ t.ins[i] = inst
    BY <2>2 DEF TrasMover
  <2>5. Nop.op = "NOP"
    BY DEF Nop
  <2>6. QED
    BY <1>2, <2>3, <2>4, <2>5
<1>3. CASE inst.op \in Binarias
  <2> DEFINE X == Operando(s, inst, inst.b, "B")
             Y == Operando(s, inst, inst.c, "C")
  <2>1. t = AnalizarBinaria(s, i) /\ X = Operando(s, inst, inst.b, "B") /\ Y = Operando(s, inst, inst.c, "C")
    BY <1>3 DEF Analizar, Binarias, Comparaciones
  <2> HIDE DEF X, Y
  <2>2. TrasBinaria(s, t, i, inst, X, Y)
    BY <1>3, <2>1, TrasBinariaEs
  <2>3. \/ t.ins[i] = Reducida(inst, X, Y)
        \/ t.ins = s.ins
        \/ \E x, y \in Palabras : ~Imposible(inst.op, y) /\ t = Plegado(s, i, Calculo(inst.op, x, y))
    BY <2>2 DEF TrasBinaria
  <2>4. ASSUME NEW x \in Palabras, NEW y \in Palabras, ~Imposible(inst.op, y), t = Plegado(s, i, Calculo(inst.op, x, y))
        PROVE  t.ins[i].op \in Definen
    <3> DEFINE v == Calculo(inst.op, x, y)
               a == inst.a
    <3>1. v \in Palabras /\ t = Plegado(s, i, v) /\ a = s.ins[i].a
      BY <1>3, <2>4, CalculoDaPalabra
    <3> HIDE DEF v, a
    <3>2. TrasPlegar(s, t, i, a, v)
      BY <3>1, TrasPlegarEs
    <3>3. Inmediata(a, v).op = "MOVER" /\ DeDatos(a, Len(s.datos)).op = "LEER"
      BY DEF Inmediata, DeDatos
    <3>4. QED
      BY <1>3, <3>2, <3>3 DEF TrasPlegar, Definen
  <2>5. QED
    BY <1>1, <2>3, <2>4, ReducidaDefine
<1>4. CASE inst.op = "LEER"
  <2>1. t = s
    BY <1>4 DEF Analizar, Binarias, Comparaciones
  <2>2. QED
    BY <2>1
<1>5. QED
  BY <1>2, <1>3, <1>4 DEF Definen

-----------------------------------------------------------------------------
(* A program of the fragment and what the optimiser makes of it.           *)

\* What became of an instruction.
Suerte(inst, c, podada) ==
  /\ inst.op \in Definen => c.mid.op \in Definen \cup {"NOP"} /\ podada \in {c.mid, Nop}
  /\ inst.op \notin Definen => /\ c.ks = c.k /\ Seguida(inst, c.mid)
                               /\ podada = c.mid /\ c.antes = Antes(c.mid, c.despues)

LEMMA SuerteEs ==
  ASSUME NEW cod \in Codigos, NEW n \in Nat, n = Len(cod.ins), \A i \in 1 .. n : SinExcepcion(cod, i),
         NEW C, NEW podado, NEW datos, Todo(C, n, n, cod.ins, podado, datos), NEW i \in 1 .. n
  PROVE  Suerte(cod.ins[i], C[i], podado[i])
<1> DEFINE inst == cod.ins[i]
           c == C[i]
           pod == podado[i]
<1>1. Avance(c.k, c.ks, inst, c.mid, i, n, datos) /\ Poda(c, pod)
  BY DEF Todo, EsPaso
<1>2. SinExcepcion(cod, i) /\ inst = cod.ins[i]
  OBVIOUS
<1>3. inst.op \in (Definen \ {"NO", "COMPARAR"}) \cup {"SI", "IR", "ESCRIBIR", "RETORNAR", "HALT"}
  BY <1>2 DEF SinExcepcion
<1>4. \A x \in Registros : x \notin DefinidaAntes(cod.ins, i) \cup {0} => c.k[x] = {}
  <2>1. cod.ins \in [1 .. n -> Instruccion]
    BY DEF Codigos
  <2>2. \A j \in 1 .. n : cod.ins[j].op # "NO"
    BY DEF SinExcepcion, Definen, Binarias, Comparaciones
  <2>3. QED
    BY <2>1, <2>2, ConocidosAntes
<1> HIDE DEF inst, c, pod
<1>5. CASE inst.op \in Definen
  <2>1. PICK s \in Analisis(n) : s.ins[i] = inst /\ Analizar(s, i).ins[i] = c.mid
    BY <1>1 DEF Avance
  <2>2. inst.op # "NO"
    BY <1>3
  <2>3. c.mid.op \in Definen \cup {"NOP"}
    BY <1>5, <2>1, <2>2, DefineONada
  <2>4. pod \in {c.mid, Nop}
    BY <1>1 DEF Poda
  <2>5. QED
    BY <1>5, <2>3, <2>4 DEF Suerte, inst, c, pod
<1>6. CASE inst.op \notin Definen
  <2>1. c.ks = c.k /\ Seguida(inst, c.mid)
    <3>1. SoloSabe(c.k, DefinidaAntes(cod.ins, i))
      BY <1>4 DEF SoloSabe
    <3>2. \A k, ks, mid : Avance(k, ks, inst, mid, i, n, datos) /\ SoloSabe(k, DefinidaAntes(cod.ins, i))
                          => ks = k /\ Seguida(inst, mid)
      BY <1>2, <1>6, OtraFiel
    <3>3. QED
      BY <1>1, <3>1, <3>2
  <2>2. c.mid.op \in {inst.op, "IR"}
    BY <2>1 DEF Seguida, Incondicional
  <2>3. c.mid.op \notin Definen /\ c.mid # Nop
    <3>1. c.mid.op \notin Definen
      BY <1>6, <2>2 DEF Definen, Binarias, Comparaciones
    <3>2. c.mid.op # "NOP"
      BY <1>3, <2>2 DEF Definen, Binarias, Comparaciones
    <3>3. Nop.op = "NOP"
      BY DEF Nop
    <3>4. QED
      BY <3>1, <3>2, <3>3
  <2>4. pod = c.mid /\ c.antes = Antes(c.mid, c.despues)
    BY <1>1, <2>3 DEF Poda
  <2>5. QED
    BY <1>6, <2>1, <2>4 DEF Suerte, inst, c, pod
<1>7. QED
  BY <1>5, <1>6

Fragmento(cod, n, C, podado, datos, opt, lug) ==
  /\ cod \in Codigos /\ n \in Nat \ {0} /\ n = Len(cod.ins) /\ Fiable(cod)
  /\ datos \in Seq(Palabras) /\ Crece(cod.datos, datos)
  /\ podado \in [1 .. n -> Instruccion] /\ Todo(C, n, n, cod.ins, podado, datos)
  /\ opt \in Seq(Instruccion) /\ Colocado(lug, podado, opt, n)

\* What stays of a jump is one.
LEMMA PodadaSalta ==
  ASSUME NEW cod \in Codigos, NEW n \in Nat, n = Len(cod.ins), NEW i \in 1 .. n, SinExcepcion(cod, i),
         SaltaABloque(cod.ins, cod.ins[i]), NEW c, NEW podada, Suerte(cod.ins[i], c, podada)
  PROVE  SaltaDentro(podada, n)
<1> DEFINE inst == cod.ins[i]
<1>1. inst.op \in (Definen \ {"NO", "COMPARAR"}) \cup {"SI", "IR", "ESCRIBIR", "RETORNAR", "HALT"}
  BY DEF SinExcepcion
<1>2. inst.op \in {"IR", "SI"} =>
        /\ ~Es(inst, "R") /\ \E j \in 1 .. n : Destino(inst, 0) = (j - 1) * TamInst
  BY DEF SaltaABloque
<1>3. Suerte(inst, c, podada) /\ inst \in Instruccion
  BY DEF Codigos
<1> HIDE DEF inst
<1>4. CASE inst.op \in Definen
  <2>1. podada.op \in Definen \cup {"NOP"}
    BY <1>3, <1>4 DEF Suerte, Nop
  <2>2. podada.op \notin Saltos
    BY <2>1 DEF Definen, Binarias, Comparaciones, Saltos
  <2>3. QED
    BY <2>2 DEF SaltaDentro
<1>5. CASE inst.op \notin Definen
  <2>1. Seguida(inst, podada)
    BY <1>3, <1>5 DEF Suerte
  <2>2. CASE podada = inst
    BY <1>1, <1>2, <1>5, <2>2 DEF SaltaDentro, Saltos, Definen
  <2>3. CASE inst.op = "SI" /\ podada = Incondicional(inst)
    <3>1. inst.b \in Int
      BY <1>3, Constantes DEF Instruccion
    <3>2. podada.op = "IR" /\ podada.f = (inst.f \cap {"R"}) \cup {"A"} /\ podada.a = inst.b
      BY <2>3 DEF Incondicional
    <3>3. ~Es(podada, "R") /\ ~Es(inst, "R")
      BY <1>2, <2>3, <3>2 DEF Es
    <3>4. Destino(podada, 0) = Destino(inst, 0)
      BY <2>3, <3>1, <3>2, <3>3 DEF Destino
    <3>5. QED
      BY <1>2, <2>3, <3>2, <3>3, <3>4 DEF SaltaDentro
  <2>4. QED
    BY <2>1, <2>2, <2>3 DEF Seguida
<1>6. QED
  BY <1>4, <1>5

LEMMA HayFragmento ==
  ASSUME NEW cod \in Codigos, Fiable(cod), NEW n, n = Len(cod.ins), NEW otro, otro = Optimizado(cod)
  PROVE  \E C, podado, lug : Fragmento(cod, n, C, podado, otro.datos, otro.ins, lug)
<1> DEFINE st == Analizado(cod)
           podado == st.ins
<1>1. /\ n \in Nat /\ st \in Analisis(n) /\ Crece(cod.datos, st.datos)
      /\ \E C : Todo(C, n, n, cod.ins, st.ins, st.datos)
  BY ProgramaCertificado
<1>2. otro.ins = Compactado(podado) /\ otro.datos = st.datos
  BY DEF Optimizado
<1>3. otro.ins \in Seq(Instruccion)
  BY OptimizadoEs DEF Codigos
<1> HIDE DEF st
<1>4. podado \in [1 .. n -> Instruccion] /\ st.datos \in Seq(Palabras)
  BY <1>1 DEF Analisis
<1>5. PICK C : Todo(C, n, n, cod.ins, podado, st.datos)
  BY <1>1
<1> HIDE DEF podado
<1>6. /\ cod.ins # <<>> /\ n * TamInst <= Byte /\ cod.ins[n].op \in {"HALT", "RETORNAR"}
      /\ \A i \in 1 .. n : SinExcepcion(cod, i) /\ SaltaABloque(cod.ins, cod.ins[i])
  BY DEF Fiable, Entera
<1>7. n \in Nat \ {0} /\ n \in 1 .. n
  <2>1. cod.ins \in Seq(Instruccion)
    BY DEF Codigos
  <2>2. n # 0
    BY <1>6, <2>1
  <2>3. QED
    BY <1>1, <2>2
<1>8. \A i \in 1 .. n : Suerte(cod.ins[i], C[i], podado[i])
  BY <1>1, <1>5, <1>6, SuerteEs
<1>9. podado[n].op # "NOP"
  <2> DEFINE inst == cod.ins[n]
  <2>1. inst.op \in {"HALT", "RETORNAR"}
    BY <1>6
  <2>2. inst.op \notin Definen
    BY <2>1 DEF Definen, Binarias, Comparaciones
  <2>3. Seguida(inst, podado[n])
    BY <1>7, <1>8, <2>2 DEF Suerte
  <2> HIDE DEF inst
  <2>4. QED
    BY <2>1, <2>3 DEF Seguida
<1>10. \A i \in 1 .. n : SaltaDentro(podado[i], n)
  BY <1>1, <1>6, <1>8, PodadaSalta
<1>11. PICK lug : Colocado(lug, podado, otro.ins, n)
  BY <1>2, <1>4, <1>6, <1>7, <1>9, <1>10, CompactadoColoca
<1>12. Fragmento(cod, n, C, podado, st.datos, otro.ins, lug)
  BY <1>1, <1>3, <1>4, <1>5, <1>7, <1>11 DEF Fragmento
<1>13. QED
  BY <1>2, <1>12

-----------------------------------------------------------------------------
(* The two programs, side by side.                                         *)

\* An instruction gives the same to two machines that agree on what it reads.
LEMMA ValorUsa ==
  ASSUME NEW m \in Maquinas, NEW m2 \in Maquinas, m2.mem = m.mem,
         NEW inst, inst.op \in Definen, \A x \in Usa(inst) : m2.r[x] = m.r[x]
  PROVE  /\ Valor(m2, inst) = Valor(m, inst)
         /\ Imposible(inst.op, Leido(m2, inst, inst.c, "C")) <=> Imposible(inst.op, Leido(m, inst, inst.c, "C"))
<1>1. CASE inst.op \in Binarias
  <2>1. Usa(inst) = Leidos(inst, {"b", "c"})
    <3>1. inst.op \notin {"MOVER", "LEER", "NO", "ESCRIBIR"} \cup Saltos
      BY <1>1 DEF Binarias, Comparaciones, Saltos
    <3>2. QED
      BY <1>1, <3>1 DEF Usa
  <2>2. /\ Leido(m2, inst, inst.b, "B") = Leido(m, inst, inst.b, "B")
        /\ Leido(m2, inst, inst.c, "C") = Leido(m, inst, inst.c, "C")
    BY <2>1 DEF Leidos, Leido
  <2>3. Valor(m2, inst) = Valor(m, inst)
    BY <1>1, <2>2, ValorEs
  <2>4. QED
    BY <2>2, <2>3
<1>2. CASE inst.op \in {"MOVER", "LEER", "NO"}
  <2>1. Usa(inst) = Leidos(inst, {"b"})
    <3>1. inst.op \notin Binarias \cup Saltos \cup {"ESCRIBIR"}
      BY <1>2 DEF Binarias, Comparaciones, Saltos
    <3>2. QED
      BY <1>2, <3>1 DEF Usa
  <2>2. Leido(m2, inst, inst.b, "B") = Leido(m, inst, inst.b, "B")
    BY <2>1 DEF Leidos, Leido
  <2>3. CeldaLeida(m2, inst) = CeldaLeida(m, inst)
    BY <2>2 DEF CeldaLeida, Leido
  <2>4. Valor(m2, inst) = Valor(m, inst)
    BY <1>2, <2>2, <2>3 DEF Valor, Binarias, Comparaciones
  <2>5. QED
    BY <1>2, <2>4 DEF Imposible
<1>3. QED
  BY <1>1, <1>2 DEF Definen

\* A write to the frame.
LEMMA ConMarco ==
  ASSUME NEW mem \in Memorias, NEW mem2 \in Memorias, MismoMarco(mem, mem2),
         NEW d \in Celdas, d[1] = "marco", NEW v \in Palabras
  PROVE  MismoMarco(Con(mem, d, v), Con(mem2, d, v))
<1> DEFINE f == Con(mem, d, v)
           g == Con(mem2, d, v)
<1>1. /\ DOMAIN f = DOMAIN mem \cup {d} /\ \A x \in DOMAIN mem \cup {d} : f[x] = IF x = d THEN v ELSE mem[x]
      /\ DOMAIN g = DOMAIN mem2 \cup {d} /\ \A x \in DOMAIN mem2 \cup {d} : g[x] = IF x = d THEN v ELSE mem2[x]
  BY ConEs
<1> HIDE DEF f, g
<1>2. MismoMarco(f, g)
  BY <1>1 DEF MismoMarco
<1>3. QED
  BY <1>2 DEF f, g

LEMMA ConOtros ==
  ASSUME NEW mem \in Memorias, NEW d \in Celdas, d[1] = "marco", NEW v \in Palabras,
         NEW datos, ConDatos(mem, datos)
  PROVE  ConDatos(Con(mem, d, v), datos)
<1> DEFINE f == Con(mem, d, v)
<1>1. DOMAIN f = DOMAIN mem \cup {d} /\ \A x \in DOMAIN mem \cup {d} : f[x] = IF x = d THEN v ELSE mem[x]
  BY ConEs
<1> HIDE DEF f
<1>2. ASSUME NEW j \in 1 .. Len(datos)
      PROVE  <<"datos", j - 1>> \in DOMAIN f /\ f[<<"datos", j - 1>>] = datos[j]
  <2> DEFINE e == <<"datos", j - 1>>
  <2>1. e[1] = "datos" /\ e \in DOMAIN mem /\ mem[e] = datos[j]
    BY DEF ConDatos
  <2> HIDE DEF e
  <2>2. e # d
    BY <2>1
  <2>3. QED
    BY <1>1, <2>1, <2>2 DEF e
<1>3. QED
  BY <1>2 DEF ConDatos, f

\* m is at instruction i, with certificate c, and m2 at its place p.
Juntas(m, m2, i, p, c, d0, d1) ==
  /\ m \in Maquinas /\ m2 \in Maquinas /\ ~m.fin /\ ~m2.fin
  /\ En(m, i) /\ En(m2, p) /\ m2.pasos <= m.pasos
  /\ Sabe(c.k, m.r) /\ \A x \in c.antes : m2.r[x] = m.r[x]
  /\ MismoMarco(m.mem, m2.mem) /\ ConDatos(m.mem, d0) /\ ConDatos(m2.mem, d1)

Acabadas(m, m2) ==
  /\ m \in Maquinas /\ m2 \in Maquinas /\ m.fin /\ m2.fin
  /\ m2.exit_code = m.exit_code /\ MismoMarco(m.mem, m2.mem) /\ m2.pasos <= m.pasos

LEMMA JuntasSiguen ==
  ASSUME NEW m \in Maquinas, NEW m2 \in Maquinas, m2.pasos <= m.pasos, NEW z, NEW z2,
         NEW pc, NEW r, NEW mem, Sigue(m, z, pc, r, mem), NEW pc2, NEW r2, NEW mem2, Sigue(m2, z2, pc2, r2, mem2),
         NEW j, NEW p, pc = (j - 1) * TamInst, pc2 = (p - 1) * TamInst, NEW c, NEW d0, NEW d1,
         Sabe(c.k, r), \A x \in c.antes : r2[x] = r[x],
         MismoMarco(mem, mem2), ConDatos(mem, d0), ConDatos(mem2, d1)
  PROVE  Juntas(z, z2, j, p, c, d0, d1)
<1>1. m.pasos \in Nat /\ m2.pasos \in Nat
  BY DEF Maquinas
<1>2. /\ z \in Maquinas /\ ~z.fin /\ z.pasos = m.pasos + 1 /\ z.pc = pc /\ z.r = r /\ z.mem = mem
      /\ z2 \in Maquinas /\ ~z2.fin /\ z2.pasos = m2.pasos + 1 /\ z2.pc = pc2 /\ z2.r = r2 /\ z2.mem = mem2
  BY DEF Sigue
<1>3. z2.pasos <= z.pasos
  BY <1>1, <1>2
<1>4. En(z, j) /\ En(z2, p)
  BY <1>2 DEF En
<1>5. QED
  BY <1>2, <1>3, <1>4 DEF Juntas

LEMMA Siguiente ==
  ASSUME NEW i \in Nat, NEW m \in Maquinas, En(m, i)
  PROVE  m.pc + TamInst = ((i + 1) - 1) * TamInst
<1> DEFINE e == i - 1
<1>1. TamInst \in Nat /\ e \in Int /\ (i + 1) - 1 = e + 1 /\ m.pc = e * TamInst
  BY Constantes DEF En
<1> HIDE DEF e
<1>2. (e + 1) * TamInst = e * TamInst + TamInst
  BY <1>1
<1>3. QED
  BY <1>1, <1>2

\* What a fragment says of one of its instructions.
UnaInstruccion(cod, i, inst, c, podada, n, datos) ==
  /\ inst \in Instruccion /\ podada \in Instruccion /\ c \in Certificados
  /\ SinExcepcion(cod, i) /\ SaltaABloque(cod.ins, inst) /\ Suerte(inst, c, podada)
  /\ Avance(c.k, c.ks, inst, c.mid, i, n, datos) /\ Poda(c, podada)
  /\ inst.op = "LEER" => c.k[inst.a] = {}
  /\ i = n => inst.op \notin Definen \cup {"SI", "ESCRIBIR"}

LEMMA UnaInstruccionEs ==
  ASSUME NEW cod, NEW n, NEW C, NEW podado, NEW datos, NEW opt, NEW lug,
         Fragmento(cod, n, C, podado, datos, opt, lug), NEW i \in 1 .. n
  PROVE  UnaInstruccion(cod, i, cod.ins[i], C[i], podado[i], n, datos)
<1>1. /\ cod \in Codigos /\ n \in Nat \ {0} /\ n = Len(cod.ins) /\ Fiable(cod)
      /\ podado \in [1 .. n -> Instruccion] /\ Todo(C, n, n, cod.ins, podado, datos)
  BY DEF Fragmento
<1>2. \A j \in 1 .. n : SinExcepcion(cod, j) /\ SaltaABloque(cod.ins, cod.ins[j])
  BY <1>1 DEF Fiable
<1>3. Suerte(cod.ins[i], C[i], podado[i])
  BY <1>1, <1>2, SuerteEs
<1> DEFINE inst == cod.ins[i]
           c == C[i]
           pod == podado[i]
<1>4. c \in Certificados /\ Avance(c.k, c.ks, inst, c.mid, i, n, datos) /\ Poda(c, pod)
  BY <1>1 DEF Todo, EsPaso
<1>5. cod.ins \in [1 .. n -> Instruccion]
  BY <1>1 DEF Codigos
<1>6. inst \in Instruccion /\ pod \in Instruccion
  BY <1>1, <1>5
<1>7. inst.op = "LEER" => c.k[inst.a] = {}
  <2> SUFFICES ASSUME inst.op = "LEER" PROVE c.k[inst.a] = {}
    OBVIOUS
  <2>1. inst.a \notin DefinidaAntes(cod.ins, i) \cup {0} /\ inst.a \in Registros
    <3>1. SinExcepcion(cod, i) /\ inst.op \in Definen
      BY <1>2 DEF Definen
    <3>2. inst.a # 0 /\ inst.a \notin DefinidaAntes(cod.ins, i)
      BY <3>1 DEF SinExcepcion
    <3>3. inst.a \in Registros
      BY <1>6 DEF Instruccion
    <3>4. QED
      BY <3>2, <3>3
  <2>2. \A j \in 1 .. n : cod.ins[j].op # "NO"
    BY <1>2 DEF SinExcepcion, Definen, Binarias, Comparaciones
  <2>3. QED
    BY <1>1, <1>5, <2>1, <2>2, ConocidosAntes
<1>8. i = n => inst.op \notin Definen \cup {"SI", "ESCRIBIR"}
  BY <1>1 DEF Fiable, Entera, Definen, Binarias, Comparaciones
<1>9. QED
  BY <1>2, <1>3, <1>4, <1>6, <1>7, <1>8 DEF UnaInstruccion

\* The machine with the registers of the other.
LEMMA ConRegistros ==
  ASSUME NEW m \in Maquinas, NEW m2 \in Maquinas, NEW w, w = [m2 EXCEPT !.r = m.r]
  PROVE  w \in Maquinas /\ w.r = m.r /\ w.mem = m2.mem
<1> DEFINE r == m.r
<1>1. r \in [Registros -> Palabras] /\ r[0] = 0
  BY DEF Maquinas
<1>2. w = [m2 EXCEPT !.r = r]
  OBVIOUS
<1> HIDE DEF r
<1>3. w \in Maquinas /\ w.r = r /\ w.mem = m2.mem
  BY <1>1, <1>2 DEF Maquinas
<1>4. QED
  BY <1>3 DEF r

\* A definition left out gave what its register had, or what nobody reads.
LEMMA ReparteNada ==
  ASSUME NEW m, NEW m1, NEW inst, NEW c, Poda(c, Nop), Hecho(m, m1, inst, c.mid, c.ks)
  PROVE  c.antes = c.despues /\ (inst.a \in c.despues => m.r[inst.a] = Valor(m, inst))
<1>1. Nop.op = "NOP" /\ Nop.op \notin Definen /\ Define(Nop) = {} /\ Usa(Nop) = {}
  BY DEF Nop, Definen, Binarias, Comparaciones, Define, Usa, Saltos
<1>2. c.antes = c.despues
  BY <1>1 DEF Poda, Antes
<1>3. c.mid = Nop => m.r[inst.a] = Valor(m, inst)
  BY <1>1 DEF Hecho, Da
<1>4. c.mid # Nop => inst.a \notin c.despues
  BY <1>1 DEF Poda, Hecho, Da
<1>5. QED
  BY <1>2, <1>3, <1>4

LEMMA DefineSigue ==
  ASSUME NEW cod, NEW n, NEW C, NEW podado, NEW datos, NEW opt, NEW lug,
         Fragmento(cod, n, C, podado, datos, opt, lug), NEW i \in 1 .. n,
         NEW inst, inst = cod.ins[i], inst.op \in Definen,
         NEW m, NEW m2, Juntas(m, m2, i, lug[i], C[i], cod.datos, datos)
  PROVE  /\ i + 1 \in 1 .. n
         /\ \/ Juntas(Paso(cod.ins, m), m2, i + 1, lug[i + 1], C[i + 1], cod.datos, datos)
            \/ Juntas(Paso(cod.ins, m), Paso(opt, m2), i + 1, lug[i + 1], C[i + 1], cod.datos, datos)
<1> DEFINE c == C[i]
           pod == podado[i]
           e == C[i + 1]
           p == lug[i]
           v == Valor(m, inst)
           w == [m2 EXCEPT !.r = m.r]
           z == Paso(cod.ins, m)
           z2 == Paso(opt, m2)
           r == [m.r EXCEPT ![inst.a] = v]
<1>1. UnaInstruccion(cod, i, inst, c, pod, n, datos)
  BY UnaInstruccionEs
<1>2. /\ cod \in Codigos /\ n \in Nat \ {0} /\ n = Len(cod.ins) /\ Todo(C, n, n, cod.ins, podado, datos)
      /\ opt \in Seq(Instruccion) /\ Colocado(lug, podado, opt, n) /\ Crece(cod.datos, datos) /\ datos \in Seq(Palabras)
  BY DEF Fragmento
<1>3. i + 1 \in 1 .. n /\ i < n
  <2>1. i # n
    BY <1>1 DEF UnaInstruccion
  <2>2. QED
    BY <1>2, <2>1
<1>4. e.k = c.ks /\ e.antes = c.despues
  <2>1. ~Control(inst)
    BY DEF Control, Definen, Binarias, Comparaciones, Saltos
  <2>2. Eslabon(C, cod.ins, i + 1) /\ (i + 1) - 1 = i /\ i + 1 # 1
    BY <1>2, <1>3 DEF Todo
  <2>3. QED
    BY <2>1, <2>2 DEF Eslabon
<1>5. lug[i] \in 1 .. Len(opt) /\ Len(opt) \in Nat /\ IF pod.op = "NOP" THEN lug[i + 1] = p ELSE lug[i + 1] = p + 1 /\ Puesta(opt[p], pod, lug, n)
  <2> HIDE DEF c, v, w, z, z2, r, e
  <2>1. QED
    BY <1>2, <1>3, ColocadoEn
<1>6. /\ m \in Maquinas /\ m2 \in Maquinas /\ ~m.fin /\ ~m2.fin
      /\ En(m, i) /\ En(m2, p) /\ m2.pasos <= m.pasos
      /\ Sabe(c.k, m.r) /\ \A x \in c.antes : m2.r[x] = m.r[x]
      /\ MismoMarco(m.mem, m2.mem) /\ ConDatos(m.mem, cod.datos) /\ ConDatos(m2.mem, datos)
  BY DEF Juntas
<1> HIDE DEF c, pod, e, p
<1>7. w \in Maquinas /\ w.r = m.r /\ w.mem = m2.mem
  BY <1>6, ConRegistros
<1> HIDE DEF w
<1>8. Hecho(m, w, inst, c.mid, c.ks)
  <2>1. /\ SinExcepcion(cod, i) /\ (inst.op = "LEER" => c.k[inst.a] = {})
        /\ ConDatos(w.mem, datos) /\ MismoMarco(m.mem, w.mem)
        /\ Avance(c.k, c.ks, inst, c.mid, i, n, datos)
    BY <1>1, <1>6, <1>7 DEF UnaInstruccion
  <2>2. \A k, ks, mid : Avance(k, ks, inst, mid, i, n, datos) /\ (inst.op = "LEER" => k[inst.a] = {}) /\ Sabe(k, m.r)
                        => Hecho(m, w, inst, mid, ks)
    BY <1>2, <1>6, <1>7, <2>1, DefineFiel
  <2>3. QED
    BY <1>6, <2>1, <2>2
<1>9. v \in Palabras /\ ~Imposible(inst.op, Leido(m, inst, inst.c, "C")) /\ Sabe(c.ks, r)
  BY <1>8 DEF Hecho
<1>10. inst \in Instruccion /\ pod \in Instruccion /\ inst.a # 0 /\ Poda(c, pod) /\ c.mid \in Instruccion
       /\ c.mid.op \in Definen \cup {"NOP"} /\ pod \in {c.mid, Nop}
  BY <1>1 DEF UnaInstruccion, Suerte, SinExcepcion, Certificados
<1>11. Sigue(m, z, m.pc + TamInst, r, m.mem)
  <2>1. z = Efecto(Avanzada(m), inst)
    BY <1>2, <1>6, PasoEn
  <2> HIDE DEF z, v
  <2>2. QED
    BY <1>6, <1>9, <1>10, <2>1, HaceDefine DEF v
<1>12. m.pc + TamInst = ((i + 1) - 1) * TamInst
  BY <1>6, Siguiente
<1> HIDE DEF z, z2, v
<1>13. CASE pod.op = "NOP"
  <2>1. pod = Nop
    <3>1. c.mid.op = "NOP" => c.mid = Nop \/ pod = Nop
      <4>1. c.mid.op = "NOP" => c.mid.op \notin Definen
        BY DEF Definen, Binarias, Comparaciones
      <4>2. c.mid.op = "NOP" => c.mid = Nop
        BY <1>8, <4>1 DEF Hecho, Da
      <4>3. QED
        BY <4>2
    <3>2. QED
      BY <1>10, <1>13, <3>1
  <2>2. \A x \in e.antes : m2.r[x] = r[x]
    <3> TAKE x \in e.antes
    <3>1. Poda(c, Nop)
      BY <1>10, <2>1
    <3>2. c.antes = c.despues /\ (inst.a \in c.despues => m.r[inst.a] = v)
      BY <1>8, <3>1, ReparteNada DEF v
    <3>3. m2.r[x] = m.r[x] /\ m.r \in [Registros -> Palabras]
      BY <1>4, <1>6, <3>2 DEF Maquinas
    <3>4. CASE x = inst.a
      BY <1>4, <3>2, <3>3, <3>4
    <3>5. CASE x # inst.a
      BY <3>3, <3>5
    <3>6. QED
      BY <3>4, <3>5
  <2>3. z \in Maquinas /\ ~z.fin /\ z.pasos = m.pasos + 1 /\ z.pc = m.pc + TamInst /\ z.r = r /\ z.mem = m.mem
    BY <1>11 DEF Sigue
  <2>4. m2.pasos <= z.pasos
    <3>1. m.pasos \in Nat /\ m2.pasos \in Nat
      BY <1>6 DEF Maquinas
    <3>2. QED
      BY <1>6, <2>3, <3>1
  <2>5. En(z, i + 1) /\ En(m2, lug[i + 1])
    BY <1>5, <1>6, <1>12, <1>13, <2>3 DEF En
  <2>6. Sabe(e.k, r)
    BY <1>4, <1>9
  <2> HIDE DEF r
  <2>7. Juntas(z, m2, i + 1, lug[i + 1], e, cod.datos, datos)
    BY <1>6, <2>2, <2>3, <2>4, <2>5, <2>6 DEF Juntas
  <2>8. QED
    BY <1>3, <2>7 DEF z, e
<1>14. CASE pod.op # "NOP"
  <2>1. pod = c.mid /\ pod # Nop /\ pod.op \in Definen /\ c.antes = Antes(pod, c.despues)
    <3>1. pod = c.mid /\ pod # Nop /\ pod.op \in Definen
      BY <1>10, <1>14 DEF Nop
    <3>2. QED
      BY <1>10, <3>1 DEF Poda
  <2>2. opt[p] = pod
    <3>1. pod.op \notin Saltos
      BY <2>1 DEF Definen, Binarias, Comparaciones, Saltos
    <3>2. QED
      BY <1>5, <1>14, <3>1 DEF Puesta
  <2>3. pod.a = inst.a /\ Valor(w, pod) = v /\ ~Imposible(pod.op, Leido(w, pod, pod.c, "C"))
    BY <1>8, <2>1 DEF Hecho, Da, v
  <2>4. \A x \in Usa(pod) : m2.r[x] = m.r[x]
    BY <1>6, <2>1 DEF Antes
  <2>5. Valor(m2, pod) = v /\ ~Imposible(pod.op, Leido(m2, pod, pod.c, "C"))
    BY <1>6, <1>7, <2>1, <2>3, <2>4, ValorUsa
  <2> DEFINE r2 == [m2.r EXCEPT ![pod.a] = v]
  <2>6. Sigue(m2, z2, m2.pc + TamInst, r2, m2.mem)
    <3>1. z2 = Efecto(Avanzada(m2), pod)
      BY <1>5, <1>6, <2>2, PasoEn DEF z2, p
    <3>2. QED
      BY <1>6, <1>9, <1>10, <2>1, <2>3, <2>5, <3>1, HaceDefine
  <2>7. \A x \in e.antes : r2[x] = r[x]
    <3> TAKE x \in e.antes
    <3>1. m.r \in [Registros -> Palabras] /\ m2.r \in [Registros -> Palabras] /\ x \in Registros /\ inst.a \in Registros
      <4>1. e.antes \subseteq Registros
        BY <1>1, <1>4 DEF UnaInstruccion, Certificados
      <4>2. QED
        BY <1>6, <1>10, <4>1 DEF Maquinas, Instruccion
    <3>2. CASE x = inst.a
      BY <2>3, <3>1, <3>2
    <3>3. CASE x # inst.a
      <4>1. x \in c.antes
        BY <1>4, <2>1, <2>3, <3>3 DEF Antes, Define
      <4>2. QED
        BY <1>6, <2>3, <3>1, <3>3, <4>1
    <3>4. QED
      BY <3>2, <3>3
  <2>8. m2.pc + TamInst = (lug[i + 1] - 1) * TamInst
    <3>1. p \in Nat /\ lug[i + 1] = p + 1
      BY <1>5, <1>14 DEF p
    <3>2. QED
      BY <1>6, <3>1, Siguiente
  <2>9. Sabe(e.k, r)
    BY <1>4, <1>9
  <2> HIDE DEF r, r2
  <2>10. Juntas(z, z2, i + 1, lug[i + 1], e, cod.datos, datos)
    BY <1>6, <1>11, <1>12, <2>6, <2>7, <2>8, <2>9, JuntasSiguen
  <2>11. QED
    BY <1>3, <2>10 DEF z, z2, e
<1>15. QED
  BY <1>13, <1>14

LEMMA EscribirSigue ==
  ASSUME NEW cod, NEW n, NEW C, NEW podado, NEW datos, NEW opt, NEW lug,
         Fragmento(cod, n, C, podado, datos, opt, lug), NEW i \in 1 .. n,
         NEW inst, inst = cod.ins[i], inst.op = "ESCRIBIR",
         NEW m, NEW m2, Juntas(m, m2, i, lug[i], C[i], cod.datos, datos)
  PROVE  /\ i + 1 \in 1 .. n
         /\ Juntas(Paso(cod.ins, m), Paso(opt, m2), i + 1, lug[i + 1], C[i + 1], cod.datos, datos)
<1> DEFINE c == C[i]
           pod == podado[i]
           e == C[i + 1]
           p == lug[i]
           v == Leido(m, inst, inst.b, "B")
           d == CeldaEscrita(m, inst)
           z == Paso(cod.ins, m)
           z2 == Paso(opt, m2)
           f == Con(m.mem, d, v)
           g == Con(m2.mem, d, v)
<1>1. UnaInstruccion(cod, i, inst, c, pod, n, datos)
  BY UnaInstruccionEs
<1>2. /\ n \in Nat \ {0} /\ n = Len(cod.ins) /\ Todo(C, n, n, cod.ins, podado, datos)
      /\ opt \in Seq(Instruccion) /\ Colocado(lug, podado, opt, n)
  BY DEF Fragmento
<1>3. i + 1 \in 1 .. n /\ i < n
  <2>1. i # n
    BY <1>1 DEF UnaInstruccion
  <2>2. QED
    BY <1>2, <2>1
<1>4. e.k = c.ks /\ e.antes = c.despues
  <2>1. ~Control(inst)
    BY DEF Control, Saltos
  <2>2. Eslabon(C, cod.ins, i + 1) /\ (i + 1) - 1 = i /\ i + 1 # 1
    BY <1>2, <1>3 DEF Todo
  <2>3. QED
    BY <2>1, <2>2 DEF Eslabon
<1>5. /\ m \in Maquinas /\ m2 \in Maquinas /\ ~m.fin /\ ~m2.fin
      /\ En(m, i) /\ En(m2, p) /\ m2.pasos <= m.pasos
      /\ Sabe(c.k, m.r) /\ \A x \in c.antes : m2.r[x] = m.r[x]
      /\ MismoMarco(m.mem, m2.mem) /\ ConDatos(m.mem, cod.datos) /\ ConDatos(m2.mem, datos)
  BY DEF Juntas
<1>6. inst \in Instruccion /\ {"A", "R"} \subseteq inst.f /\ inst.b \in Registros
  BY <1>1 DEF UnaInstruccion, SinExcepcion, Instruccion
<1>7. pod = inst /\ c.ks = c.k /\ c.antes = c.despues \cup Usa(inst)
  <2>1. inst.op \notin Definen
    BY DEF Definen, Binarias, Comparaciones
  <2>2. c.ks = c.k /\ Seguida(inst, c.mid) /\ pod = c.mid /\ c.antes = Antes(c.mid, c.despues)
    BY <1>1, <2>1 DEF UnaInstruccion, Suerte
  <2>3. c.mid = inst
    BY <2>2 DEF Seguida
  <2> HIDE DEF c
  <2>4. Antes(inst, c.despues) = c.despues \cup Usa(inst)
    BY <2>1 DEF Antes, Define
  <2>5. QED
    BY <2>2, <2>3, <2>4
<1>8. p \in 1 .. Len(opt) /\ Len(opt) \in Nat /\ lug[i + 1] = p + 1 /\ opt[p] = inst
  <2>1. pod.op # "NOP" /\ pod.op \notin Saltos
    BY <1>7 DEF Saltos
  <2>2. p \in 1 .. Len(opt) /\ Len(opt) \in Nat /\ lug[i + 1] = p + 1 /\ Puesta(opt[p], pod, lug, n)
    BY <1>2, <1>3, <2>1, ColocadoEn
  <2>3. QED
    BY <1>7, <2>1, <2>2 DEF Puesta
<1> HIDE DEF c, pod, e, p
<1>9. v \in Palabras /\ v = Leido(m2, inst, inst.b, "B")
  <2>1. ~Es(inst, "B") => inst.b \in Usa(inst)
    BY DEF Usa, Leidos, Saltos, Binarias, Comparaciones
  <2>2. inst.b \in Palabras /\ m.r \in [Registros -> Palabras]
    BY <1>5, <1>6, Constantes DEF Maquinas
  <2>3. QED
    BY <1>5, <1>6, <1>7, <2>1, <2>2 DEF Leido
<1>10. d \in Celdas /\ d[1] = "marco" /\ d = CeldaEscrita(m2, inst)
  BY <1>6, CeldaDelMarco
<1> HIDE DEF d, v
<1>11. m.mem \in Memorias /\ m2.mem \in Memorias
  BY <1>5 DEF Maquinas
<1>12. MismoMarco(f, g) /\ ConDatos(f, cod.datos) /\ ConDatos(g, datos)
  BY <1>5, <1>9, <1>10, <1>11, ConMarco, ConOtros
<1>13. Sigue(m, z, m.pc + TamInst, m.r, f)
  <2>1. z = Efecto(Avanzada(m), inst)
    BY <1>2, <1>5, PasoEn
  <2> HIDE DEF z
  <2>2. v = Leido(m, inst, inst.b, "B") /\ d = CeldaEscrita(m, inst)
    BY DEF v, d
  <2>3. QED
    BY <1>5, <1>6, <1>9, <2>1, <2>2, HaceEscribir
<1>14. Sigue(m2, z2, m2.pc + TamInst, m2.r, g)
  <2>1. z2 = Efecto(Avanzada(m2), inst)
    BY <1>5, <1>8, PasoEn
  <2> HIDE DEF z2
  <2>2. QED
    BY <1>5, <1>6, <1>9, <1>10, <2>1, HaceEscribir
<1>15. m.pc + TamInst = ((i + 1) - 1) * TamInst /\ m2.pc + TamInst = (lug[i + 1] - 1) * TamInst
  BY <1>5, <1>8, Siguiente
<1>16. Sabe(e.k, m.r) /\ \A x \in e.antes : m2.r[x] = m.r[x]
  BY <1>4, <1>5, <1>7
<1> HIDE DEF z, z2, f, g
<1>17. Juntas(z, z2, i + 1, lug[i + 1], e, cod.datos, datos)
  BY <1>5, <1>12, <1>13, <1>14, <1>15, <1>16, JuntasSiguen
<1>18. QED
  BY <1>3, <1>17 DEF z, z2, e

LEMMA FinSigue ==
  ASSUME NEW cod, NEW n, NEW C, NEW podado, NEW datos, NEW opt, NEW lug,
         Fragmento(cod, n, C, podado, datos, opt, lug), NEW i \in 1 .. n,
         NEW inst, inst = cod.ins[i], inst.op \in {"RETORNAR", "HALT"},
         NEW m, NEW m2, Juntas(m, m2, i, lug[i], C[i], cod.datos, datos)
  PROVE  Acabadas(Paso(cod.ins, m), Paso(opt, m2))
<1> DEFINE c == C[i]
           pod == podado[i]
           p == lug[i]
           z == Paso(cod.ins, m)
           z2 == Paso(opt, m2)
           cual == IF inst.op = "HALT" \/ ~Es(inst, "A") THEN 0 ELSE inst.a
<1>1. UnaInstruccion(cod, i, inst, c, pod, n, datos)
  BY UnaInstruccionEs
<1>2. /\ n \in Nat \ {0} /\ n = Len(cod.ins) /\ opt \in Seq(Instruccion) /\ Colocado(lug, podado, opt, n)
  BY DEF Fragmento
<1>3. /\ m \in Maquinas /\ m2 \in Maquinas /\ ~m.fin /\ ~m2.fin
      /\ En(m, i) /\ En(m2, p) /\ m2.pasos <= m.pasos /\ MismoMarco(m.mem, m2.mem)
  BY DEF Juntas
<1>4. inst \in Instruccion /\ (inst.op = "HALT" \/ (inst.op = "RETORNAR" /\ (Es(inst, "A") \/ inst.a = 0)))
  BY <1>1 DEF UnaInstruccion, SinExcepcion
<1>5. pod = inst
  <2>1. inst.op \notin Definen
    BY DEF Definen, Binarias, Comparaciones
  <2>2. Seguida(inst, c.mid) /\ pod = c.mid
    BY <1>1, <2>1 DEF UnaInstruccion, Suerte
  <2>3. QED
    BY <2>2 DEF Seguida
<1>6. p \in 1 .. Len(opt) /\ Len(opt) \in Nat /\ opt[p] = inst
  <2>1. pod.op # "NOP" /\ pod.op \notin Saltos
    BY <1>5 DEF Saltos
  <2>2. p \in 1 .. Len(opt) /\ Len(opt) \in Nat /\ Puesta(opt[p], pod, lug, n)
    BY <1>2, <2>1, ColocadoEn
  <2>3. QED
    BY <1>5, <2>1, <2>2 DEF Puesta
<1> HIDE DEF c, pod, p
<1>7. z = Efecto(Avanzada(m), inst) /\ z2 = Efecto(Avanzada(m2), inst)
  BY <1>2, <1>3, <1>6, PasoEn
<1> HIDE DEF z, z2
<1>8. Acaba(m, z, cual) /\ Acaba(m2, z2, cual)
  BY <1>3, <1>4, <1>7, HaceFin
<1> HIDE DEF cual
<1>9. m.pasos \in Nat /\ m2.pasos \in Nat
  BY <1>3 DEF Maquinas
<1>10. /\ z \in Maquinas /\ z.fin /\ z.pasos = m.pasos + 1 /\ z.exit_code = cual /\ z.mem = m.mem
       /\ z2 \in Maquinas /\ z2.fin /\ z2.pasos = m2.pasos + 1 /\ z2.exit_code = cual /\ z2.mem = m2.mem
  BY <1>8 DEF Acaba
<1>11. z2.pasos <= z.pasos
  BY <1>3, <1>9, <1>10
<1>12. Acabadas(z, z2)
  BY <1>3, <1>10, <1>11 DEF Acabadas
<1>13. QED
  BY <1>12 DEF z, z2

\* Nothing is known at the beginning of a block.
LEMMA CabezaDeBloque ==
  ASSUME NEW n, NEW ins, NEW C, NEW podado, NEW datos, Todo(C, n, n, ins, podado, datos),
         NEW j \in 1 .. n, j = 1 \/ Control(ins[j - 1]), NEW m \in Maquinas
  PROVE  Sabe(C[j].k, m.r)
<1>1. C[j].k = NadaSabido
  BY DEF Todo, Eslabon
<1>2. m.r[0] = 0
  BY DEF Maquinas
<1>3. \A x \in Registros : NadaSabido[x] = {} \/ NadaSabido[x] = {m.r[x]}
  BY <1>2 DEF NadaSabido
<1>4. QED
  BY <1>1, <1>3 DEF Sabe

\* Both machines jump to the beginning of a block.
LEMMA SaltanJuntas ==
  ASSUME NEW n \in Nat, NEW ins, NEW C, NEW podado, NEW datos, Todo(C, n, n, ins, podado, datos),
         NEW j \in 1 .. n, j = 1 \/ Control(ins[j - 1]), NEW lug, NEW d0,
         NEW m \in Maquinas, NEW m2 \in Maquinas, m2.pasos <= m.pasos, m2.r = m.r,
         MismoMarco(m.mem, m2.mem), ConDatos(m.mem, d0), ConDatos(m2.mem, datos),
         NEW z, NEW pc, pc = (j - 1) * TamInst, Sigue(m, z, pc, m.r, m.mem),
         NEW z2, NEW pc2, pc2 = (lug[j] - 1) * TamInst, Sigue(m2, z2, pc2, m2.r, m2.mem)
  PROVE  Juntas(z, z2, j, lug[j], C[j], d0, datos)
<1> DEFINE c == C[j]
           p == lug[j]
           r == m.r
           r2 == m2.r
<1>1. Sabe(c.k, r)
  BY CabezaDeBloque
<1>2. \A x \in c.antes : r2[x] = r[x]
  OBVIOUS
<1>3. Sigue(m, z, pc, r, m.mem) /\ Sigue(m2, z2, pc2, r2, m2.mem) /\ pc2 = (p - 1) * TamInst
  OBVIOUS
<1> HIDE DEF c, p, r, r2
<1>4. Juntas(z, z2, j, p, c, d0, datos)
  BY <1>1, <1>2, <1>3, JuntasSiguen
<1>5. QED
  BY <1>4 DEF c, p

LEMMA SaltoSigue ==
  ASSUME NEW cod, NEW n, NEW C, NEW podado, NEW datos, NEW opt, NEW lug,
         Fragmento(cod, n, C, podado, datos, opt, lug), NEW i \in 1 .. n,
         NEW inst, inst = cod.ins[i], inst.op \in {"IR", "SI"},
         NEW m, NEW m2, Juntas(m, m2, i, lug[i], C[i], cod.datos, datos)
  PROVE  \E j \in 1 .. n : Juntas(Paso(cod.ins, m), Paso(opt, m2), j, lug[j], C[j], cod.datos, datos)
<1> DEFINE c == C[i]
           pod == podado[i]
           p == lug[i]
           w == opt[p]
           z == Paso(cod.ins, m)
           z2 == Paso(opt, m2)
<1>1. UnaInstruccion(cod, i, inst, c, pod, n, datos)
  BY UnaInstruccionEs
<1>2. /\ n \in Nat \ {0} /\ n = Len(cod.ins) /\ Todo(C, n, n, cod.ins, podado, datos)
      /\ opt \in Seq(Instruccion) /\ Colocado(lug, podado, opt, n)
  BY DEF Fragmento
<1>3. /\ m \in Maquinas /\ m2 \in Maquinas /\ ~m.fin /\ ~m2.fin
      /\ En(m, i) /\ En(m2, p) /\ m2.pasos <= m.pasos
      /\ \A x \in c.antes : m2.r[x] = m.r[x]
      /\ MismoMarco(m.mem, m2.mem) /\ ConDatos(m.mem, cod.datos) /\ ConDatos(m2.mem, datos)
  BY DEF Juntas
<1>4. inst \in Instruccion /\ SaltaABloque(cod.ins, inst) /\ Control(inst)
  BY <1>1 DEF UnaInstruccion, Control, Saltos
<1>5. pod = c.mid /\ Seguida(inst, pod) /\ c.antes = Antes(pod, c.despues)
  <2>1. inst.op \notin Definen
    BY DEF Definen, Binarias, Comparaciones
  <2>2. QED
    BY <1>1, <2>1 DEF UnaInstruccion, Suerte
<1>6. pod.op \in {"IR", "SI"} /\ pod.op \in Saltos /\ pod.op # "NOP"
  BY <1>5 DEF Seguida, Incondicional, Saltos
<1>7. Registros \subseteq c.antes
  <2>1. c.despues = Registros
    BY <1>2, <1>4, <1>5, <1>6 DEF Todo, Eslabon
  <2>2. Define(pod) = {}
    BY <1>6 DEF Define, Definen, Binarias, Comparaciones
  <2>3. QED
    BY <1>5, <2>1, <2>2 DEF Antes
<1>8. m2.r = m.r
  <2> DEFINE r == m.r
             r2 == m2.r
  <2>1. r \in [Registros -> Palabras] /\ r2 \in [Registros -> Palabras]
    BY <1>3 DEF Maquinas
  <2>2. \A x \in Registros : r2[x] = r[x]
    BY <1>3, <1>7
  <2> HIDE DEF r, r2
  <2>3. r2 = r
    BY <2>1, <2>2
  <2>4. QED
    BY <2>3 DEF r, r2
<1>9. p \in 1 .. Len(opt) /\ Len(opt) \in Nat /\ Puesta(w, pod, lug, n) /\ (i < n => lug[i + 1] = p + 1)
  BY <1>2, <1>6, ColocadoEn
<1>10. /\ ~Es(inst, "R") /\ ~Es(inst, "C") /\ Es(inst, IF inst.op = "SI" THEN "B" ELSE "A")
       /\ inst.op = "IR" => ~Es(inst, "B")
       /\ \E j \in 1 .. n : Destino(inst, 0) = (j - 1) * TamInst /\ (j = 1 \/ Control(cod.ins[j - 1]))
  BY <1>2, <1>4 DEF SaltaABloque
<1>11. PICK j \in 1 .. n : Destino(inst, 0) = (j - 1) * TamInst /\ (j = 1 \/ Control(cod.ins[j - 1]))
  BY <1>10
<1>12. inst.a \in Nat /\ inst.b \in Nat /\ w \in Instruccion
  <2>1. inst.a \in Nat /\ inst.b \in Nat
    BY <1>4, Constantes DEF Instruccion
  <2>2. QED
    BY <1>2, <1>9, <2>1
<1>13. Destino(inst, 0) = IF inst.op = "SI" THEN inst.b ELSE inst.a
  BY <1>10, <1>12 DEF Destino
<1> HIDE DEF c, pod, p, w
<1>14. z = Efecto(Avanzada(m), inst) /\ z2 = Efecto(Avanzada(m2), w)
  <2>1. z = Efecto(Avanzada(m), inst)
    BY <1>2, <1>3, PasoEn
  <2>2. z2 = Efecto(Avanzada(m2), w)
    BY <1>3, <1>9, PasoEn DEF w
  <2>3. QED
    BY <2>1, <2>2
<1> HIDE DEF z, z2
<1>15. ASSUME NEW h \in 1 .. n, h = 1 \/ Control(cod.ins[h - 1]),
              NEW pc, pc = (h - 1) * TamInst, Sigue(m, z, pc, m.r, m.mem),
              NEW pc2, pc2 = (lug[h] - 1) * TamInst, Sigue(m2, z2, pc2, m2.r, m2.mem)
       PROVE  \E g \in 1 .. n : Juntas(z, z2, g, lug[g], C[g], cod.datos, datos)
  <2>1. Juntas(z, z2, h, lug[h], C[h], cod.datos, datos)
    BY <1>2, <1>3, <1>8, <1>15, SaltanJuntas
  <2>2. QED
    BY <2>1
<1> DEFINE y == (lug[j] - 1) * TamInst
<1>16. CASE inst.op = "IR"
  <2>1. pod = inst
    BY <1>5, <1>16 DEF Seguida
  <2>2. w = [inst EXCEPT !.a = y]
    BY <1>9, <1>11, <1>13, <1>16, <2>1 DEF Puesta
  <2> HIDE DEF y
  <2>3. w.op = "IR" /\ Es(w, "A") /\ ~Es(w, "B") /\ w.a = y
    BY <1>4, <1>10, <1>16, <2>2 DEF Instruccion, Es
  <2>4. Sigue(m, z, inst.a, m.r, m.mem) /\ Sigue(m2, z2, y, m2.r, m2.mem)
    BY <1>3, <1>4, <1>10, <1>12, <1>14, <1>16, <2>3, HaceIr
  <2>5. inst.a = (j - 1) * TamInst
    BY <1>11, <1>13, <1>16
  <2>6. QED
    BY <1>11, <1>15, <2>4, <2>5 DEF y, z, z2
<1>17. CASE inst.op = "SI"
  <2> DEFINE a == Leido(m, inst, inst.a, "A")
             a2 == Leido(m2, w, w.a, "A")
  <2>1. Sigue(m, z, IF a = 0 THEN m.pc + TamInst ELSE inst.b, m.r, m.mem)
    BY <1>3, <1>4, <1>10, <1>14, <1>17, HaceSi
  <2>2. inst.b = (j - 1) * TamInst
    BY <1>11, <1>13, <1>17
  <2>3. CASE pod = inst
    <3>1. w = [inst EXCEPT !.b = y]
      BY <1>9, <1>17, <2>2, <2>3 DEF Puesta
    <3> HIDE DEF y
    <3>2. w.op = "SI" /\ ~Es(w, "R") /\ ~Es(w, "C") /\ w.b = y /\ w.a = inst.a /\ w.f = inst.f
      BY <1>4, <1>10, <1>17, <3>1 DEF Instruccion, Es
    <3>3. a2 = a
      BY <1>8, <3>2 DEF Leido, Es
    <3>4. Sigue(m2, z2, IF a2 = 0 THEN m2.pc + TamInst ELSE y, m2.r, m2.mem)
      BY <1>3, <1>12, <1>14, <3>2, HaceSi
    <3> HIDE DEF a, a2
    <3>5. CASE a = 0
      <4>1. i < n /\ i + 1 \in 1 .. n /\ (i + 1) - 1 = i
        <5>1. i # n
          BY <1>1, <1>17 DEF UnaInstruccion
        <5>2. QED
          BY <1>2, <5>1
      <4>2. m.pc + TamInst = ((i + 1) - 1) * TamInst /\ m2.pc + TamInst = (lug[i + 1] - 1) * TamInst
        BY <1>3, <1>9, <4>1, Siguiente
      <4>3. Sigue(m, z, m.pc + TamInst, m.r, m.mem) /\ Sigue(m2, z2, m2.pc + TamInst, m2.r, m2.mem)
        BY <2>1, <3>3, <3>4, <3>5
      <4>4. Control(cod.ins[(i + 1) - 1])
        BY <1>4, <4>1
      <4> DEFINE h == i + 1
                 pc == m.pc + TamInst
                 pc2 == m2.pc + TamInst
      <4>5. /\ h \in 1 .. n /\ Control(cod.ins[h - 1]) /\ pc = (h - 1) * TamInst /\ pc2 = (lug[h] - 1) * TamInst
            /\ Sigue(m, z, pc, m.r, m.mem) /\ Sigue(m2, z2, pc2, m2.r, m2.mem)
        BY <4>1, <4>2, <4>3, <4>4
      <4> HIDE DEF h, pc, pc2
      <4>6. QED
        BY <1>15, <4>5 DEF z, z2
    <3>6. CASE a # 0
      <4>1. Sigue(m, z, inst.b, m.r, m.mem) /\ Sigue(m2, z2, y, m2.r, m2.mem)
        BY <2>1, <3>3, <3>4, <3>6
      <4>2. QED
        BY <1>11, <1>15, <2>2, <4>1 DEF y, z, z2
    <3>7. QED
      BY <3>5, <3>6
  <2>4. CASE Es(inst, "A") /\ inst.a # 0 /\ pod = Incondicional(inst)
    <3>1. pod.op = "IR" /\ pod.a = inst.b /\ pod.f = (inst.f \cap {"R"}) \cup {"A"}
      BY <2>4 DEF Incondicional
    <3>2. w = [pod EXCEPT !.a = y]
      BY <1>9, <2>2, <3>1 DEF Puesta
    <3> HIDE DEF y
    <3>3. w.op = "IR" /\ Es(w, "A") /\ ~Es(w, "B") /\ w.a = y
      <4>1. pod \in Instruccion
        BY <1>1 DEF UnaInstruccion
      <4>2. QED
        BY <3>1, <3>2, <4>1 DEF Instruccion, Es
    <3>4. Sigue(m2, z2, y, m2.r, m2.mem)
      BY <1>3, <1>12, <1>14, <3>3, HaceIr
    <3>5. a # 0
      BY <2>4 DEF Leido
    <3>6. Sigue(m, z, inst.b, m.r, m.mem)
      BY <2>1, <3>5
    <3>7. QED
      BY <1>11, <1>15, <2>2, <3>4, <3>6 DEF y, z, z2
  <2>5. QED
    BY <1>5, <1>17, <2>3, <2>4 DEF Seguida
<1>18. QED
  BY <1>16, <1>17

-----------------------------------------------------------------------------
(* The steps of a run are counted.                                         *)

\* The instructions of the fragment and those made of them.
Docil(inst) ==
  /\ inst.op \in Definen \cup {"SI", "IR", "ESCRIBIR", "RETORNAR", "HALT"}
  /\ inst.op = "SI" => ~Es(inst, "R") /\ ~Es(inst, "C") /\ inst.b \in Nat
  /\ inst.op = "IR" => Es(inst, "A") /\ ~Es(inst, "B") /\ inst.a \in Nat

\* A machine, of which only the address and the count of steps are known.
Suelta(m) ==
  /\ m = [pc |-> m.pc, r |-> m.r, pila |-> <<>>, salida |-> m.salida, fin |-> m.fin,
          exit_code |-> m.exit_code, pasos |-> m.pasos, mem |-> m.mem]
  /\ m.pc \in Nat /\ m.pasos \in Nat

LEMMA SueltaCambia ==
  ASSUME NEW m, Suelta(m)
  PROVE  /\ \A x : Suelta([m EXCEPT !.r = x]) /\ [m EXCEPT !.r = x].pasos = m.pasos
         /\ \A x : Suelta([m EXCEPT !.mem = x]) /\ [m EXCEPT !.mem = x].pasos = m.pasos
         /\ \A x : Suelta(Terminar(m, x)) /\ Terminar(m, x).pasos = m.pasos
         /\ \A x \in Nat : Suelta([m EXCEPT !.pc = x]) /\ [m EXCEPT !.pc = x].pasos = m.pasos
<1>1. /\ m = [pc |-> m.pc, r |-> m.r, pila |-> <<>>, salida |-> m.salida, fin |-> m.fin,
              exit_code |-> m.exit_code, pasos |-> m.pasos, mem |-> m.mem]
      /\ m.pc \in Nat /\ m.pasos \in Nat
  BY DEF Suelta
<1>2. \A x : Suelta([m EXCEPT !.r = x]) /\ [m EXCEPT !.r = x].pasos = m.pasos
  BY <1>1 DEF Suelta
<1>3. \A x : Suelta([m EXCEPT !.mem = x]) /\ [m EXCEPT !.mem = x].pasos = m.pasos
  BY <1>1 DEF Suelta
<1>4. \A x : Suelta(Terminar(m, x)) /\ Terminar(m, x).pasos = m.pasos
  <2> TAKE x
  <2>1. PICK a, b, c, d, e, f, g : m = [pc |-> a, r |-> b, pila |-> <<>>, salida |-> c, fin |-> d,
                                        exit_code |-> e, pasos |-> f, mem |-> g]
    BY <1>1
  <2>2. a = m.pc /\ f = m.pasos
    BY <2>1
  <2> DEFINE si == TRUE
  <2>a. Terminar(m, x) = [m EXCEPT !.fin = si, !.exit_code = x]
    BY DEF Terminar
  <2> HIDE DEF si
  <2>3. Terminar(m, x) = [pc |-> a, r |-> b, pila |-> <<>>, salida |-> c, fin |-> si,
                          exit_code |-> x, pasos |-> f, mem |-> g]
    BY <2>1, <2>a
  <2>4. QED
    BY <1>1, <2>2, <2>3 DEF Suelta
<1>5. \A x \in Nat : Suelta([m EXCEPT !.pc = x]) /\ [m EXCEPT !.pc = x].pasos = m.pasos
  BY <1>1 DEF Suelta
<1>6. QED
  BY <1>2, <1>3, <1>4, <1>5

LEMMA EfectoSuelto ==
  ASSUME NEW y, Suelta(y), NEW inst, Docil(inst), NEW z, z = Efecto(y, inst)
  PROVE  Suelta(z) /\ z.pasos = y.pasos
<1>1. CASE inst.op \in Definen
  <2>1. inst.op \notin {"ESCRIBIR", "IR", "LLAMAR", "SI", "RETORNAR", "HALT", "IMPRIMIR_NUMERO", "NOP"}
    BY <1>1 DEF Definen, Binarias, Comparaciones
  <2>2. z = IF Imposible(inst.op, Leido(y, inst, inst.c, "C")) THEN Terminar(y, 1)
            ELSE EnRegistro(y, inst.a, Valor(y, inst))
    BY <1>1, <2>1 DEF Efecto
  <2>3. z = Terminar(y, 1) \/ z = y \/ \E x : z = [y EXCEPT !.r = x]
    <3>1. \A x, v : EnRegistro(y, x, v) = y \/ EnRegistro(y, x, v) = [y EXCEPT !.r = [@ EXCEPT ![x] = v]]
      BY DEF EnRegistro
    <3>2. \A x, v : EnRegistro(y, x, v) = y \/ \E w : EnRegistro(y, x, v) = [y EXCEPT !.r = w]
      <4> TAKE x, v
      <4>1. EnRegistro(y, x, v) = y \/ EnRegistro(y, x, v) = [y EXCEPT !.r = [y.r EXCEPT ![x] = v]]
        BY DEF EnRegistro, Suelta
      <4>2. QED
        BY <4>1
    <3>3. QED
      BY <2>2, <3>2
  <2>4. ASSUME NEW x, z = [y EXCEPT !.r = x] PROVE Suelta(z) /\ z.pasos = y.pasos
    BY <2>4, SueltaCambia
  <2>5. CASE z = y \/ z = Terminar(y, 1)
    BY <2>5, SueltaCambia
  <2>6. QED
    BY <2>3, <2>4, <2>5
<1>2. CASE inst.op = "ESCRIBIR"
  <2> DEFINE w == Con(y.mem, CeldaEscrita(y, inst), Leido(y, inst, inst.b, "B"))
  <2>1. z = [y EXCEPT !.mem = w]
    BY <1>2 DEF Efecto, Definen, Binarias, Comparaciones, Suelta
  <2> HIDE DEF w
  <2>2. QED
    BY <2>1, SueltaCambia
<1>3. CASE inst.op = "IR"
  <2>1. z = [y EXCEPT !.pc = Largo(inst, Leido(y, inst, inst.a, "A"), inst.b, "B")]
    BY <1>3 DEF Efecto, Definen, Binarias, Comparaciones
  <2>2. Largo(inst, Leido(y, inst, inst.a, "A"), inst.b, "B") = inst.a /\ inst.a \in Nat
    BY <1>3 DEF Docil, Leido, Largo
  <2>3. QED
    BY <2>1, <2>2, SueltaCambia
<1>4. CASE inst.op = "SI"
  <2> DEFINE a == Leido(y, inst, inst.a, "A")
  <2>1. z = IF a = 0 THEN y ELSE [y EXCEPT !.pc = (IF Es(inst, "R") THEN y.pc ELSE 0) + Largo(inst, inst.b, inst.c, "C")]
    BY <1>4 DEF Efecto, Definen, Binarias, Comparaciones
  <2> HIDE DEF a
  <2>2. (IF Es(inst, "R") THEN y.pc ELSE 0) + Largo(inst, inst.b, inst.c, "C") = inst.b /\ inst.b \in Nat
    BY <1>4 DEF Docil, Largo
  <2>3. z = y \/ z = [y EXCEPT !.pc = inst.b]
    BY <2>1, <2>2
  <2>4. Suelta([y EXCEPT !.pc = inst.b]) /\ [y EXCEPT !.pc = inst.b].pasos = y.pasos
    BY <2>2, SueltaCambia
  <2>5. QED
    BY <2>3, <2>4
<1>5. CASE inst.op = "RETORNAR"
  <2> DEFINE a == Leido(y, inst, inst.a, "A")
  <2>1. y.pila = <<>>
    BY DEF Suelta
  <2> HIDE DEF a
  <2>2. z = Terminar(y, a)
    BY <1>5, <2>1 DEF Efecto, Definen, Binarias, Comparaciones, a
  <2>3. QED
    BY <2>2, SueltaCambia
<1>6. CASE inst.op = "HALT"
  <2>1. z = Terminar(y, 0)
    BY <1>6 DEF Efecto, Definen, Binarias, Comparaciones
  <2>2. QED
    BY <2>1, SueltaCambia
<1>7. QED
  BY <1>1, <1>2, <1>3, <1>4, <1>5, <1>6 DEF Docil

LEMMA AvanzadaSuelta ==
  ASSUME NEW m, Suelta(m)
  PROVE  Suelta(Avanzada(m)) /\ Avanzada(m).pasos = m.pasos + 1
<1> DEFINE p == m.pc + TamInst
           q == m.pasos + 1
<1>1. /\ m = [pc |-> m.pc, r |-> m.r, pila |-> <<>>, salida |-> m.salida, fin |-> m.fin,
              exit_code |-> m.exit_code, pasos |-> m.pasos, mem |-> m.mem]
      /\ p \in Nat /\ q \in Nat
  <2>1. /\ m = [pc |-> m.pc, r |-> m.r, pila |-> <<>>, salida |-> m.salida, fin |-> m.fin,
                exit_code |-> m.exit_code, pasos |-> m.pasos, mem |-> m.mem]
        /\ m.pc \in Nat /\ m.pasos \in Nat
    BY Zenon DEF Suelta
  <2>2. p \in Nat /\ q \in Nat
    <3>1. TamInst \in Nat /\ m.pc \in Nat /\ m.pasos \in Nat
      BY <2>1, Constantes
    <3>2. QED
      BY <3>1
  <2>3. QED
    BY <2>1, <2>2, Zenon
<1>2. Avanzada(m) = [m EXCEPT !.pc = p, !.pasos = q]
  BY <1>1 DEF Avanzada
<1> HIDE DEF p, q
<1>3. Suelta(Avanzada(m)) /\ Avanzada(m).pasos = q
  <2>1. PICK a, b, c, d, e, f, g : m = [pc |-> a, r |-> b, pila |-> <<>>, salida |-> c, fin |-> d,
                                        exit_code |-> e, pasos |-> f, mem |-> g]
    BY <1>1
  <2>2. Avanzada(m) = [pc |-> p, r |-> b, pila |-> <<>>, salida |-> c, fin |-> d,
                       exit_code |-> e, pasos |-> q, mem |-> g]
    BY <1>2, <2>1
  <2>3. QED
    BY <1>1, <2>2 DEF Suelta
<1>4. QED
  BY <1>3 DEF q

LEMMA EnElCodigo ==
  ASSUME NEW l \in Nat, NEW x \in Nat, ~(x >= l * TamInst)
  PROVE  x \div TamInst + 1 \in 1 .. l
<1> DEFINE q == x \div TamInst
           z == x % TamInst
<1>1. TamInst \in Nat \ {0} /\ q \in Nat /\ z \in 0 .. TamInst - 1 /\ x = TamInst * q + z
  BY Constantes, Division
<1> HIDE DEF q, z
<1>2. CASE q >= l
  <2> DEFINE d == q - l
             y == TamInst * d
             w == l * TamInst
  <2>1. d \in Nat /\ q = l + d
    BY <1>1, <1>2
  <2> HIDE DEF d
  <2>2. y \in Nat /\ w \in Nat /\ TamInst * q = w + y
    BY <1>1, <2>1
  <2>3. x >= w
    <3> HIDE DEF y, w
    <3>1. QED
      BY <1>1, <2>2
  <2>4. QED
    BY <2>3
<1>3. CASE ~(q >= l)
  BY <1>1, <1>3 DEF q
<1>4. QED
  BY <1>2, <1>3

LEMMA PasoSuelto ==
  ASSUME NEW ins, Len(ins) \in Nat, \A l \in 1 .. Len(ins) : Docil(ins[l]),
         NEW m, Suelta(m), NEW z, z = Paso(ins, m)
  PROVE  Suelta(z) /\ z.pasos <= m.pasos + 1
<1>1. m.pasos \in Nat /\ m.pc \in Nat
  BY DEF Suelta
<1>2. CASE m.fin \/ m.pc >= Len(ins) * TamInst \/ m.pc % TamInst # 0
  <2>1. z = m \/ z = Terminar(m, 0) \/ z = Terminar(m, -1)
    BY <1>2 DEF Paso
  <2>2. Suelta(z) /\ z.pasos = m.pasos
    BY <2>1, SueltaCambia
  <2>3. QED
    BY <1>1, <2>2
<1>3. CASE ~(m.fin \/ m.pc >= Len(ins) * TamInst \/ m.pc % TamInst # 0)
  <2> DEFINE l == m.pc \div TamInst + 1
             y == Avanzada(m)
  <2>1. z = Efecto(y, ins[l])
    BY <1>3 DEF Paso, Avanzada
  <2>2. l \in 1 .. Len(ins)
    BY <1>1, <1>3, EnElCodigo
  <2>3. Suelta(y) /\ y.pasos = m.pasos + 1
    BY AvanzadaSuelta
  <2> HIDE DEF l, y
  <2>4. Suelta(z) /\ z.pasos = y.pasos
    BY <2>1, <2>2, <2>3, EfectoSuelto
  <2>5. QED
    BY <1>1, <2>3, <2>4
<1>4. QED
  BY <1>2, <1>3

\* Moving a target changes the target.
LEMMA PuestaDocil ==
  ASSUME NEW inst \in Instruccion, Docil(inst), NEW n, SaltaDentro(inst, n), NEW lug,
         NEW z \in Instruccion, Puesta(z, inst, lug, n)
  PROVE  Docil(z)
<1>1. z.a \in Nat /\ z.b \in Nat
  BY Constantes DEF Instruccion
<1>2. inst.a \in Int /\ inst.b \in Int
  BY Constantes DEF Instruccion
<1>3. CASE inst.op \notin Saltos
  BY <1>3 DEF Puesta
<1>4. CASE inst.op = "SI"
  <2>1. PICK j \in 1 .. n : Destino(inst, 0) = (j - 1) * TamInst
    BY <1>4 DEF SaltaDentro, Saltos
  <2>2. Destino(inst, 0) = inst.b
    BY <1>2, <1>4 DEF Destino, SaltaDentro, Saltos
  <2> DEFINE x == (lug[j] - 1) * TamInst
  <2>3. z = [inst EXCEPT !.b = x]
    BY <1>4, <2>1, <2>2 DEF Puesta
  <2> HIDE DEF x
  <2>4. z.op = "SI" /\ z.f = inst.f
    BY <1>4, <2>3 DEF Instruccion
  <2>5. QED
    BY <1>1, <1>4, <2>4 DEF Docil, Es
<1>5. CASE inst.op = "IR"
  <2>1. PICK j \in 1 .. n : Destino(inst, 0) = (j - 1) * TamInst
    BY <1>5 DEF SaltaDentro, Saltos
  <2>2. Destino(inst, 0) = inst.a
    BY <1>2, <1>5 DEF Destino, SaltaDentro, Saltos
  <2> DEFINE x == (lug[j] - 1) * TamInst
  <2>3. z = [inst EXCEPT !.a = x]
    BY <1>5, <2>1, <2>2 DEF Puesta
  <2> HIDE DEF x
  <2>4. z.op = "IR" /\ z.f = inst.f
    BY <1>5, <2>3 DEF Instruccion
  <2>5. QED
    BY <1>1, <1>5, <2>4 DEF Docil, Es
<1>6. QED
  BY <1>3, <1>4, <1>5 DEF SaltaDentro

LEMMA FragmentoDocil ==
  ASSUME NEW cod, NEW n, NEW C, NEW podado, NEW datos, NEW opt, NEW lug,
         Fragmento(cod, n, C, podado, datos, opt, lug)
  PROVE  /\ \A i \in 1 .. n : Docil(cod.ins[i])
         /\ Len(opt) \in Nat /\ \A l \in 1 .. Len(opt) : Docil(opt[l])
<1>1. /\ cod \in Codigos /\ n \in Nat \ {0} /\ n = Len(cod.ins)
      /\ opt \in Seq(Instruccion) /\ Colocado(lug, podado, opt, n)
  BY DEF Fragmento
<1>2. ASSUME NEW i \in 1 .. n PROVE Docil(cod.ins[i])
  <2> DEFINE inst == cod.ins[i]
  <2>1. UnaInstruccion(cod, i, inst, C[i], podado[i], n, datos)
    BY UnaInstruccionEs
  <2>2. /\ inst.op \in (Definen \ {"NO", "COMPARAR"}) \cup {"SI", "IR", "ESCRIBIR", "RETORNAR", "HALT"}
        /\ inst \in Instruccion /\ SaltaABloque(cod.ins, inst)
    BY <2>1 DEF UnaInstruccion, SinExcepcion
  <2> HIDE DEF inst
  <2>3. inst.a \in Nat /\ inst.b \in Nat
    BY <2>2, Constantes DEF Instruccion
  <2>4. Docil(inst)
    BY <2>2, <2>3 DEF Docil, SaltaABloque
  <2>5. QED
    BY <2>4 DEF inst
<1>3. ASSUME NEW i \in 1 .. n, podado[i].op # "NOP" PROVE Docil(podado[i]) /\ SaltaDentro(podado[i], n)
  <2> DEFINE inst == cod.ins[i]
             pod == podado[i]
             c == C[i]
  <2>1. UnaInstruccion(cod, i, inst, c, pod, n, datos)
    BY UnaInstruccionEs
  <2>2. inst \in Instruccion /\ Suerte(inst, c, pod) /\ SinExcepcion(cod, i) /\ SaltaABloque(cod.ins, inst) /\ Docil(inst)
    BY <1>2, <2>1 DEF UnaInstruccion
  <2>3. SaltaDentro(pod, n)
    BY <1>1, <2>2, PodadaSalta
  <2> HIDE DEF inst, pod, c
  <2>4. CASE inst.op \in Definen
    <3>1. pod.op \in Definen
      BY <1>3, <2>2, <2>4 DEF Suerte, Nop, pod
    <3>2. pod.op \notin {"SI", "IR"}
      BY <3>1 DEF Definen, Binarias, Comparaciones
    <3>3. QED
      BY <2>3, <3>1, <3>2 DEF Docil, pod
  <2>5. CASE inst.op \notin Definen
    <3>1. Seguida(inst, pod)
      BY <2>2, <2>5 DEF Suerte
    <3>2. CASE pod = inst
      BY <2>2, <2>3, <3>2 DEF pod
    <3>3. CASE inst.op = "SI" /\ pod = Incondicional(inst)
      <4>1. pod.op = "IR" /\ pod.a = inst.b /\ pod.f = (inst.f \cap {"R"}) \cup {"A"}
        BY <3>3 DEF Incondicional
      <4>2. Es(pod, "A") /\ ~Es(pod, "B") /\ pod.a \in Nat
        BY <2>2, <3>3, <4>1 DEF Docil, Es
      <4>3. Docil(pod)
        BY <4>1, <4>2 DEF Docil
      <4>4. QED
        BY <2>3, <4>3 DEF pod
    <3>4. QED
      BY <3>1, <3>2, <3>3 DEF Seguida
  <2>6. QED
    BY <2>4, <2>5
<1>4. ASSUME NEW l \in 1 .. Len(opt) PROVE Docil(opt[l])
  <2>1. PICK i \in 1 .. n : podado[i].op # "NOP" /\ Puesta(opt[l], podado[i], lug, n)
    BY <1>1 DEF Colocado
  <2>2. opt[l] \in Instruccion /\ podado[i] \in Instruccion
    BY <1>1 DEF Fragmento
  <2>3. QED
    BY <1>3, <2>1, <2>2, PuestaDocil
<1>5. QED
  BY <1>1, <1>2, <1>4

-----------------------------------------------------------------------------
(* Whole runs.                                                             *)

EsCorrida(f, cod, e, n) == f[0] = Maquina(cod, e) /\ \A k \in 1 .. n : f[k] = Paso(cod.ins, f[k - 1])

LEMMA EjecutadoEs ==
  ASSUME NEW cod, NEW e
  PROVE  \E f : EsCorrida(f, cod, e, MaxPasos) /\ Ejecutado(cod, e) = f[MaxPasos]
<1> DEFINE x == Maquina(cod, e)
           G(m) == Paso(cod.ins, m)
           R(f, n) == f = [k \in 0 .. n |-> IF k = 0 THEN x ELSE G(f[k - 1])]
           T == {n \in Nat : \E f : R(f, n)}
           M == MaxPasos
<1>1. M \in Nat
  BY Constantes
<1>2. Ejecutado(cod, e) = (CHOOSE f : R(f, M))[M]
  BY DEF Ejecutado
<1> HIDE DEF x, G, M
<1>3. 0 \in T
  <2>1. R([k \in 0 .. 0 |-> x], 0)
    OBVIOUS
  <2>2. \E f : R(f, 0)
    BY <2>1
  <2>3. QED
    BY <2>2
<1>4. ASSUME NEW n \in 1 .. M, n - 1 \in T PROVE n \in T
  <2>1. n \in Nat /\ n - 1 \in Nat /\ n # 0
    BY <1>1
  <2>2. PICK f : R(f, n - 1)
    BY <1>4
  <2> DEFINE g == [k \in 0 .. n |-> IF k = n THEN G(f[n - 1]) ELSE f[k]]
  <2>3. \A k \in 0 .. n - 1 : g[k] = f[k] /\ f[k] = IF k = 0 THEN x ELSE G(f[k - 1])
    BY <2>1, <2>2
  <2>4. \A k \in 0 .. n : g[k] = IF k = 0 THEN x ELSE G(g[k - 1])
    <3> TAKE k \in 0 .. n
    <3>1. CASE k = n
      <4>1. g[k] = G(f[n - 1]) /\ k - 1 \in 0 .. n - 1 /\ g[k - 1] = f[n - 1] /\ k # 0
        BY <2>1, <2>3, <3>1
      <4>2. QED
        BY <4>1
    <3>2. CASE k # n
      <4>1. k \in 0 .. n - 1 /\ (k # 0 => k - 1 \in 0 .. n - 1)
        BY <2>1, <3>2
      <4> HIDE DEF g
      <4>2. QED
        BY <2>3, <4>1
    <3>3. QED
      BY <3>1, <3>2
  <2>5. g = [k \in 0 .. n |-> g[k]]
    OBVIOUS
  <2> HIDE DEF g
  <2>6. R(g, n)
    BY <2>4, <2>5
  <2>7. QED
    BY <2>1, <2>6
<1>5. \E f : R(f, M)
  <2> HIDE DEF R
  <2>1. M \in 0 .. M
    BY <1>1
  <2> HIDE DEF T
  <2>2. M \in T
    BY <1>1, <1>3, <1>4, <2>1, Contando
  <2>3. QED
    BY <2>2 DEF T
<1> DEFINE f == CHOOSE f : R(f, M)
<1>6. R(f, M)
  <2> HIDE DEF R
  <2>1. QED
    BY <1>5
<1>7. f[0] = x /\ \A k \in 1 .. M : f[k] = G(f[k - 1])
  <2> HIDE DEF f
  <2>1. \A k \in 0 .. M : f[k] = IF k = 0 THEN x ELSE G(f[k - 1])
    BY <1>6
  <2>2. 0 \in 0 .. M /\ \A k \in 1 .. M : k \in 0 .. M /\ k # 0
    BY <1>1
  <2>3. QED
    BY <2>1, <2>2
<1>8. Ejecutado(cod, e) = f[M]
  BY <1>2
<1> HIDE DEF f
<1>9. EsCorrida(f, cod, e, M)
  BY <1>7 DEF EsCorrida, x, G
<1>10. QED
  BY <1>8, <1>9 DEF M

LEMMA MaquinaEs ==
  ASSUME NEW cod, NEW d, d = cod.datos, d \in Seq(Palabras), NEW e \in Palabras, NEW m, m = Maquina(cod, e)
  PROVE  /\ m \in Maquinas /\ Suelta(m) /\ m.pc = 0 /\ ~m.fin /\ m.pasos = 0 /\ m.r = [x \in Registros |-> 0]
         /\ ConDatos(m.mem, d) /\ <<"marco", 0>> \in DOMAIN m.mem /\ m.mem[<<"marco", 0>>] = e
         /\ \A x \in DOMAIN m.mem : x[1] = "marco" => x = <<"marco", 0>>
<1> DEFINE marco == <<"marco", 0>>
           D == {<<"datos", i - 1>> : i \in DOMAIN d} \cup {marco}
           f == [x \in D |-> IF x = marco THEN e ELSE d[x[2] + 1]]
           r == [x \in Registros |-> 0]
<1>1. DOMAIN d = 1 .. Len(d) /\ Len(d) \in Nat /\ \A i \in 1 .. Len(d) : d[i] \in Palabras
  OBVIOUS
<1>2. m = [pc |-> 0, r |-> r, pila |-> <<>>, salida |-> <<>>, fin |-> FALSE, exit_code |-> 0, pasos |-> 0, mem |-> f]
  BY DEF Maquina
<1>3. \A x \in D : x = marco \/ \E i \in 1 .. Len(d) : x = <<"datos", i - 1>>
  BY <1>1
<1>4. \A i \in 1 .. Len(d) : LET x == <<"datos", i - 1>> IN x \in D /\ x # marco /\ x[2] + 1 = i /\ x[1] = "datos" /\ x \in Celdas
  <2> TAKE i \in 1 .. Len(d)
  <2> DEFINE x == <<"datos", i - 1>>
  <2>1. i \in DOMAIN d /\ i - 1 \in Int /\ i - 1 + 1 = i
    BY <1>1
  <2>2. x \in D
    BY <2>1
  <2>3. x # marco /\ x[1] = "datos" /\ x[2] = i - 1
    OBVIOUS
  <2>4. x \in Celdas
    BY <2>1 DEF Celdas
  <2> HIDE DEF D, marco
  <2>5. QED
    BY <2>1, <2>2, <2>3, <2>4
<1>5. marco \in D /\ marco \in Celdas /\ marco[1] = "marco"
  BY DEF Celdas
<1> HIDE DEF D, marco
<1>6. D \in SUBSET Celdas
  BY <1>3, <1>4, <1>5
<1>7. \A x \in D : f[x] = IF x = marco THEN e ELSE d[x[2] + 1]
  OBVIOUS
<1>8. \A i \in 1 .. Len(d) : f[<<"datos", i - 1>>] = d[i]
  BY <1>4, <1>7
<1>9. f \in [D -> Palabras]
  <2>1. \A x \in D : f[x] \in Palabras
    BY <1>1, <1>3, <1>7, <1>8
  <2>2. f = [x \in D |-> f[x]]
    OBVIOUS
  <2> HIDE DEF f
  <2>3. QED
    BY <2>1, <2>2
<1>10. f[marco] = e
  BY <1>5, <1>7
<1> HIDE DEF f
<1>11. f \in Memorias /\ DOMAIN f = D
  BY <1>6, <1>9 DEF Memorias
<1>12. r \in [Registros -> Palabras] /\ r[0] = 0
  BY Constantes
<1> HIDE DEF r
<1>13. m.pc = 0 /\ ~m.fin /\ m.pasos = 0 /\ m.r = r /\ m.mem = f
  BY <1>2
<1>14. m \in Maquinas
  BY <1>2, <1>11, <1>12 DEF Maquinas
<1>15. Suelta(m)
  BY <1>2 DEF Suelta
<1>16. ConDatos(f, d)
  BY <1>4, <1>8, <1>11 DEF ConDatos
<1>17. \A x \in DOMAIN f : x[1] = "marco" => x = marco
  BY <1>3, <1>4, <1>11
<1>18. QED
  BY <1>5, <1>10, <1>11, <1>13, <1>14, <1>15, <1>16, <1>17 DEF marco, r

Unidas(m, m2, n, C, lug, d0, d1) ==
  Acabadas(m, m2) \/ \E j \in 1 .. n : Juntas(m, m2, j, lug[j], C[j], d0, d1)

LEMMA InicialesUnidas ==
  ASSUME NEW cod, NEW n, NEW C, NEW podado, NEW datos, NEW opt, NEW lug,
         Fragmento(cod, n, C, podado, datos, opt, lug), NEW otro, datos = otro.datos,
         NEW e \in Entradas, NEW m, m = Maquina(cod, e), NEW m2, m2 = Maquina(otro, e)
  PROVE  Unidas(m, m2, n, C, lug, cod.datos, datos)
<1> DEFINE d0 == cod.datos
           p == lug[1]
           c == C[1]
           marco == <<"marco", 0>>
<1>1. /\ cod \in Codigos /\ n \in Nat \ {0} /\ datos \in Seq(Palabras)
      /\ Todo(C, n, n, cod.ins, podado, datos) /\ Colocado(lug, podado, opt, n)
  BY DEF Fragmento
<1>2. d0 \in Seq(Palabras) /\ e \in Palabras
  BY <1>1, IrAssumption DEF Codigos
<1>3. 1 \in 1 .. n /\ p = 1
  BY <1>1 DEF Colocado
<1> HIDE DEF p, d0, c
<1>4. /\ m \in Maquinas /\ m.pc = 0 /\ ~m.fin /\ m.pasos = 0 /\ m.r = [x \in Registros |-> 0]
      /\ ConDatos(m.mem, d0) /\ marco \in DOMAIN m.mem /\ m.mem[marco] = e
      /\ \A x \in DOMAIN m.mem : x[1] = "marco" => x = marco
  BY <1>2, MaquinaEs DEF d0
<1>5. /\ m2 \in Maquinas /\ m2.pc = 0 /\ ~m2.fin /\ m2.pasos = 0 /\ m2.r = [x \in Registros |-> 0]
      /\ ConDatos(m2.mem, datos) /\ marco \in DOMAIN m2.mem /\ m2.mem[marco] = e
      /\ \A x \in DOMAIN m2.mem : x[1] = "marco" => x = marco
  BY <1>1, <1>2, MaquinaEs
<1> HIDE DEF marco
<1>6. MismoMarco(m.mem, m2.mem)
  BY <1>4, <1>5 DEF MismoMarco
<1>7. Sabe(c.k, m.r)
  BY <1>1, <1>3, <1>4, CabezaDeBloque DEF c
<1>8. En(m, 1) /\ En(m2, p)
  <2>1. (1 - 1) * TamInst = 0
    BY Constantes
  <2>2. QED
    BY <1>3, <1>4, <1>5, <2>1 DEF En
<1>9. Juntas(m, m2, 1, p, c, d0, datos)
  BY <1>4, <1>5, <1>6, <1>7, <1>8 DEF Juntas
<1>10. QED
  BY <1>3, <1>9 DEF Unidas, p, c, d0

LEMMA UnPaso ==
  ASSUME NEW cod, NEW n, NEW C, NEW podado, NEW datos, NEW opt, NEW lug,
         Fragmento(cod, n, C, podado, datos, opt, lug), NEW i \in 1 .. n,
         NEW m, NEW m2, Juntas(m, m2, i, lug[i], C[i], cod.datos, datos),
         NEW z, z = Paso(cod.ins, m)
  PROVE  Unidas(z, m2, n, C, lug, cod.datos, datos) \/ Unidas(z, Paso(opt, m2), n, C, lug, cod.datos, datos)
<1> DEFINE inst == cod.ins[i]
<1>1. SinExcepcion(cod, i) /\ inst = cod.ins[i]
  BY UnaInstruccionEs DEF UnaInstruccion
<1>2. inst.op \in Definen \cup {"SI", "IR", "ESCRIBIR", "RETORNAR", "HALT"}
  BY <1>1 DEF SinExcepcion
<1> HIDE DEF inst
<1>3. CASE inst.op \in Definen
  <2>1. /\ i + 1 \in 1 .. n
        /\ \/ Juntas(z, m2, i + 1, lug[i + 1], C[i + 1], cod.datos, datos)
           \/ Juntas(z, Paso(opt, m2), i + 1, lug[i + 1], C[i + 1], cod.datos, datos)
    BY <1>1, <1>3, DefineSigue
  <2>2. QED
    BY <2>1 DEF Unidas
<1>4. CASE inst.op = "ESCRIBIR"
  <2>1. i + 1 \in 1 .. n /\ Juntas(z, Paso(opt, m2), i + 1, lug[i + 1], C[i + 1], cod.datos, datos)
    BY <1>1, <1>4, EscribirSigue
  <2>2. QED
    BY <2>1 DEF Unidas
<1>5. CASE inst.op \in {"IR", "SI"}
  <2>1. \E j \in 1 .. n : Juntas(z, Paso(opt, m2), j, lug[j], C[j], cod.datos, datos)
    BY <1>1, <1>5, SaltoSigue
  <2>2. QED
    BY <2>1 DEF Unidas
<1>6. CASE inst.op \in {"RETORNAR", "HALT"}
  <2>1. Acabadas(z, Paso(opt, m2))
    BY <1>1, <1>6, FinSigue
  <2>2. QED
    BY <2>1 DEF Unidas
<1>7. QED
  BY <1>2, <1>3, <1>4, <1>5, <1>6

\* A run makes at most a step at a time.
LEMMA CorridaSuelta ==
  ASSUME NEW cod, cod.datos \in Seq(Palabras), NEW e \in Palabras,
         NEW ins, ins = cod.ins, Len(ins) \in Nat, \A l \in 1 .. Len(ins) : Docil(ins[l]),
         NEW n \in Nat, NEW f, EsCorrida(f, cod, e, n)
  PROVE  \A k \in 0 .. n : Suelta(f[k]) /\ f[k].pasos <= k
<1> DEFINE T == {k \in 0 .. n : Suelta(f[k]) /\ f[k].pasos <= k}
<1>1. 0 \in T
  <2>1. f[0] = Maquina(cod, e)
    BY DEF EsCorrida
  <2>2. Suelta(f[0]) /\ f[0].pasos = 0
    BY <2>1, MaquinaEs
  <2>3. QED
    BY <2>2
<1>2. ASSUME NEW k \in 1 .. n, k - 1 \in T PROVE k \in T
  <2> DEFINE m == f[k - 1]
             z == f[k]
  <2>1. z = Paso(ins, m) /\ Suelta(m) /\ m.pasos <= k - 1
    BY <1>2 DEF EsCorrida
  <2> HIDE DEF m, z
  <2>2. Suelta(z) /\ z.pasos <= m.pasos + 1
    BY <2>1, PasoSuelto
  <2>3. z.pasos \in Nat /\ m.pasos \in Nat
    BY <2>1, <2>2 DEF Suelta
  <2>4. z.pasos <= k
    BY <2>1, <2>2, <2>3
  <2>5. QED
    BY <2>2, <2>4 DEF z
<1> HIDE DEF T
<1>3. \A k \in 0 .. n : k \in T
  BY <1>1, <1>2, Contando
<1>4. QED
  BY <1>3 DEF T

\* What ended stays.
LEMMA CorridaQuieta ==
  ASSUME NEW cod, NEW e, NEW n \in Nat, NEW f, EsCorrida(f, cod, e, n), NEW s \in 0 .. n, f[s].fin
  PROVE  f[n] = f[s]
<1> DEFINE T == {k \in 0 .. n : k < s \/ f[k] = f[s]}
<1>1. 0 \in T
  OBVIOUS
<1>2. ASSUME NEW k \in 1 .. n, k - 1 \in T PROVE k \in T
  <2>1. CASE k <= s
    BY <2>1
  <2>2. CASE k > s
    <3>1. f[k - 1] = f[s] /\ f[k] = Paso(cod.ins, f[k - 1])
      BY <1>2, <2>2 DEF EsCorrida
    <3>2. f[k] = f[s]
      BY <3>1 DEF Paso
    <3>3. QED
      BY <3>2
  <2>3. QED
    BY <2>1, <2>2
<1> HIDE DEF T
<1>3. n \in T
  <2>1. n \in 0 .. n
    OBVIOUS
  <2>2. QED
    BY <1>1, <1>2, <2>1, Contando
<1>4. QED
  BY <1>3 DEF T

\* At every moment of a run, a moment not later of the other run that matches it.
Emparejada(m, m2, t, n, C, lug, d0, d1) ==
  Unidas(m, m2, n, C, lug, d0, d1) /\ (~m.fin => m.pasos = t)

LEMMA PasoCuenta ==
  ASSUME NEW cod, NEW n, NEW C, NEW podado, NEW datos, NEW opt, NEW lug,
         Fragmento(cod, n, C, podado, datos, opt, lug), NEW i \in 1 .. n,
         NEW m, NEW m2, Juntas(m, m2, i, lug[i], C[i], cod.datos, datos), Suelta(m),
         NEW z, z = Paso(cod.ins, m)
  PROVE  z.pasos = m.pasos + 1
<1>1. n \in Nat /\ n = Len(cod.ins)
  BY DEF Fragmento
<1>2. m \in Maquinas /\ ~m.fin /\ En(m, i)
  BY DEF Juntas
<1>3. z = Efecto(Avanzada(m), cod.ins[i])
  BY <1>1, <1>2, PasoEn
<1>4. Suelta(Avanzada(m)) /\ Avanzada(m).pasos = m.pasos + 1
  BY AvanzadaSuelta
<1>5. Docil(cod.ins[i])
  BY FragmentoDocil
<1> DEFINE y == Avanzada(m)
           inst == cod.ins[i]
<1> HIDE DEF y, inst
<1>6. z.pasos = y.pasos
  BY <1>3, <1>4, <1>5, EfectoSuelto DEF y, inst
<1>7. QED
  BY <1>4, <1>6 DEF y

LEMMA CorridasEmparejadas ==
  ASSUME NEW cod, NEW n, NEW C, NEW podado, NEW datos, NEW opt, NEW lug,
         Fragmento(cod, n, C, podado, datos, opt, lug), NEW otro, datos = otro.datos, opt = otro.ins,
         NEW e \in Entradas, NEW w \in Nat, NEW f, EsCorrida(f, cod, e, w), NEW g, EsCorrida(g, otro, e, w),
         NEW d0, d0 = cod.datos
  PROVE  \E s \in 0 .. w : Emparejada(f[w], g[s], w, n, C, lug, d0, datos)
<1> DEFINE E(t, s) == Emparejada(f[t], g[s], t, n, C, lug, d0, datos)
           T == {t \in 0 .. w : \E s \in 0 .. t : E(t, s)}
<1>1. cod \in Codigos /\ n = Len(cod.ins) /\ n \in Nat /\ \A i \in 1 .. n : Docil(cod.ins[i])
  BY FragmentoDocil DEF Fragmento
<1>2. \A k \in 0 .. w : Suelta(f[k])
  <2>1. cod.datos \in Seq(Palabras) /\ e \in Palabras
    BY <1>1, IrAssumption DEF Codigos
  <2>2. QED
    BY <1>1, <2>1, CorridaSuelta
<1>3. 0 \in T
  <2> DEFINE m == f[0]
             m2 == g[0]
  <2>1. m = Maquina(cod, e) /\ m2 = Maquina(otro, e)
    BY DEF EsCorrida
  <2> HIDE DEF m, m2
  <2>2. Unidas(m, m2, n, C, lug, d0, datos)
    BY <2>1, InicialesUnidas
  <2>3. m.pasos = 0
    BY <2>1 DEF Maquina
  <2>4. E(0, 0)
    BY <2>2, <2>3 DEF Emparejada, m, m2
  <2> HIDE DEF E
  <2>5. QED
    BY <2>4
<1>4. ASSUME NEW t \in 1 .. w, t - 1 \in T PROVE t \in T
  <2> DEFINE h == t - 1
             m == f[h]
             z == f[t]
  <2>1. h \in Nat /\ h \in 0 .. w /\ t = h + 1 /\ t \in 0 .. w /\ \A s \in 0 .. h : s \in 0 .. t /\ s + 1 \in 0 .. t /\ s + 1 \in 1 .. w
    OBVIOUS
  <2>2. PICK s \in 0 .. h : E(h, s)
    BY <1>4
  <2> DEFINE m2 == g[s]
             z2 == g[s + 1]
  <2>3. z = Paso(cod.ins, m) /\ z2 = Paso(opt, m2)
    <3>1. s + 1 \in 1 .. w /\ (s + 1) - 1 = s
      BY <2>1
    <3>2. g[s + 1] = Paso(otro.ins, g[(s + 1) - 1])
      BY <3>1 DEF EsCorrida
    <3>3. QED
      BY <3>1, <3>2 DEF EsCorrida
  <2>4. Suelta(m)
    BY <1>2, <2>1
  <2>5. Unidas(m, m2, n, C, lug, d0, datos) /\ (~m.fin => m.pasos = h)
    BY <2>2 DEF Emparejada
  <2> HIDE DEF h, m, z, m2, z2
  <2>6. CASE Acabadas(m, m2)
    <3>1. z = m
      BY <2>3, <2>6 DEF Acabadas, Paso
    <3>2. Emparejada(z, m2, t, n, C, lug, d0, datos)
      BY <2>6, <3>1 DEF Emparejada, Unidas, Acabadas
    <3>3. E(t, s)
      BY <3>2 DEF z, m2
    <3> HIDE DEF E
    <3>4. QED
      BY <2>1, <3>3
  <2>7. ASSUME NEW i \in 1 .. n, Juntas(m, m2, i, lug[i], C[i], d0, datos) PROVE t \in T
    <3>1. Unidas(z, m2, n, C, lug, d0, datos) \/ Unidas(z, z2, n, C, lug, d0, datos)
      BY <2>3, <2>7, UnPaso
    <3>2. z.pasos = m.pasos + 1
      BY <2>3, <2>4, <2>7, PasoCuenta
    <3>3. m.pasos = h
      BY <2>5, <2>7 DEF Juntas
    <3>4. Emparejada(z, m2, t, n, C, lug, d0, datos) \/ Emparejada(z, z2, t, n, C, lug, d0, datos)
      BY <2>1, <3>1, <3>2, <3>3 DEF Emparejada
    <3>5. E(t, s) \/ E(t, s + 1)
      BY <3>4 DEF z, m2, z2
    <3> HIDE DEF E
    <3>6. QED
      BY <2>1, <3>5
  <2>8. QED
    BY <2>5, <2>6, <2>7 DEF Unidas
<1> HIDE DEF T
<1>5. w \in T
  <2>1. w \in 0 .. w
    OBVIOUS
  <2>2. QED
    BY <1>3, <1>4, <2>1, Contando
<1>6. QED
  BY <1>5 DEF T

\* What two machines with the same frame show.
LEMMA MismaVista ==
  ASSUME NEW m, NEW m2, Acabadas(m, m2)
  PROVE  Visible(m2) = Visible(m)
<1> DEFINE D(x) == {d \in DOMAIN x.mem : d[1] = "marco"}
           V(x) == {<<d, x.mem[d]>> : d \in D(x)}
<1>1. m.salida = <<>> /\ m2.salida = <<>> /\ m2.exit_code = m.exit_code
  BY DEF Acabadas, Maquinas
<1>2. MismoMarco(m.mem, m2.mem)
  BY DEF Acabadas
<1>3. D(m2) = D(m) /\ \A d \in D(m) : m2.mem[d] = m.mem[d]
  BY <1>2 DEF MismoMarco
<1>4. Visible(m) = <<m.salida, m.exit_code, V(m)>> /\ Visible(m2) = <<m2.salida, m2.exit_code, V(m2)>>
  BY DEF Visible
<1>5. V(m2) = V(m)
  <2> HIDE DEF D
  <2>1. QED
    BY <1>3
<1> HIDE DEF V
<1>6. QED
  BY <1>1, <1>4, <1>5

\* A program of the fragment and its optimisation, run on the same input.
LEMMA OptimizadoFiel ==
  ASSUME NEW cod \in Codigos, Fiable(cod), NEW otro, otro = Optimizado(cod), NEW e \in Entradas,
         NEW a, a = Ejecutado(cod, e), NEW b, b = Ejecutado(otro, e)
  PROVE  b.pasos <= a.pasos /\ (a.fin => b.fin /\ Visible(b) = Visible(a))
<1> DEFINE n == Len(cod.ins)
           w == MaxPasos
           d0 == cod.datos
           datos == otro.datos
           opt == otro.ins
<1>1. PICK C, podado, lug : Fragmento(cod, n, C, podado, datos, opt, lug)
  BY HayFragmento
<1>2. PICK f : EsCorrida(f, cod, e, w) /\ a = f[w]
  BY EjecutadoEs
<1>3. PICK g : EsCorrida(g, otro, e, w) /\ b = g[w]
  BY EjecutadoEs
<1>4. w \in Nat /\ datos = otro.datos /\ opt = otro.ins /\ d0 = cod.datos
  BY Constantes
<1> HIDE DEF n, w, d0, datos, opt
<1>5. PICK s \in 0 .. w : Emparejada(f[w], g[s], w, n, C, lug, d0, datos)
  BY <1>1, <1>2, <1>3, <1>4, CorridasEmparejadas
<1> DEFINE y == g[s]
<1>6. Unidas(a, y, n, C, lug, d0, datos) /\ (~a.fin => a.pasos = w)
  BY <1>2, <1>5 DEF Emparejada
<1>7. b.pasos <= w
  <2>1. datos \in Seq(Palabras) /\ Len(opt) \in Nat /\ \A l \in 1 .. Len(opt) : Docil(opt[l])
    BY <1>1, FragmentoDocil DEF Fragmento
  <2>2. otro.datos \in Seq(Palabras) /\ e \in Palabras
    BY <1>4, <2>1, IrAssumption
  <2>3. \A k \in 0 .. w : g[k].pasos <= k
    BY <1>3, <1>4, <2>1, <2>2, CorridaSuelta
  <2>4. w \in 0 .. w
    BY <1>4
  <2>5. QED
    BY <1>3, <2>3, <2>4
<1>8. CASE Acabadas(a, y)
  <2>1. y.fin /\ a.fin /\ y.pasos <= a.pasos
    BY <1>8 DEF Acabadas
  <2>2. b = y
    BY <1>3, <1>4, <2>1, CorridaQuieta
  <2>3. Visible(y) = Visible(a)
    BY <1>8, MismaVista
  <2>4. QED
    BY <2>1, <2>2, <2>3
<1>9. CASE ~Acabadas(a, y)
  <2>1. ~a.fin
    BY <1>6, <1>9 DEF Unidas, Juntas
  <2>2. QED
    BY <1>6, <1>7, <2>1
<1>10. QED
  BY <1>8, <1>9

\* What the optimiser is given is code, and what it makes is its optimisation.
LEMMA SoloOptimizar ==
  ASSUME TypeOK, [Next]_vars, ~UNCHANGED vars, cerrado', Fiable(codigo)
  PROVE  codigo \in Codigos /\ codigo' = Optimizado(codigo)
<1>1. codigo \in Codigos
  BY DEF TypeOK, Codigos
<1>2. ASSUME NEW inst \in Instrucciones, Emitir(inst) PROVE FALSE
  BY <1>2 DEF Emitir
<1>3. Optimizar
  BY <1>2 DEF Next
<1>4. QED
  BY <1>1, <1>3 DEF Optimizar

\* On the programs of the fragment, of any length and with any words, an optimisation
\* changes nothing that can be seen (ir_optimize).
THEOREM IrFragmentoFiel == Spec => FragmentoFiel
<1>1. TypeOK /\ [Next]_vars => [cerrado' /\ Fiable(codigo) => MismoEfecto(codigo, codigo')]_vars
  <2> SUFFICES ASSUME TypeOK, [Next]_vars, ~UNCHANGED vars, cerrado', Fiable(codigo)
               PROVE  MismoEfecto(codigo, codigo')
    OBVIOUS
  <2>1. codigo \in Codigos /\ codigo' = Optimizado(codigo)
    BY SoloOptimizar
  <2>2. ASSUME NEW e \in Entradas, Ejecutado(codigo, e).fin
        PROVE  Ejecutado(codigo', e).fin /\ Visible(Ejecutado(codigo', e)) = Visible(Ejecutado(codigo, e))
    BY <2>1, <2>2, OptimizadoFiel
  <2>3. QED
    BY <2>2 DEF MismoEfecto
<1>2. QED
  BY <1>1, IrTypeOK, PTL DEF Spec, FragmentoFiel

\* Nor does it make a run longer.
THEOREM IrNoTardaMas == Spec => NoTardaMas
<1>1. TypeOK /\ [Next]_vars =>
        [cerrado' /\ Fiable(codigo) =>
           \A e \in Entradas : Ejecutado(codigo', e).pasos <= Ejecutado(codigo, e).pasos]_vars
  <2> SUFFICES ASSUME TypeOK, [Next]_vars, ~UNCHANGED vars, cerrado', Fiable(codigo)
               PROVE  \A e \in Entradas : Ejecutado(codigo', e).pasos <= Ejecutado(codigo, e).pasos
    OBVIOUS
  <2>1. codigo \in Codigos /\ codigo' = Optimizado(codigo)
    BY SoloOptimizar
  <2>2. QED
    BY <2>1, OptimizadoFiel
<1>2. QED
  BY <1>1, IrTypeOK, PTL DEF Spec, NoTardaMas
=============================================================================
