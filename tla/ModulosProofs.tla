---------------------------- MODULE ModulosProofs ----------------------------
(* Proofs about Modulos, for every set of files and whatever they say: what   *)
(* the loader keeps, and that it does what `usar` promises (Importacion).     *)
EXTENDS Modulos, SequenceTheorems, FiniteSetTheorems, WellFoundedInduction, TLAPS

USE UnidadesAssumption

\* What the loop over the pieces does to the frame on top.
LEMMA Adelantada ==
  ASSUME NEW p \in Seq(Marco), p # <<>>, NEW e \in Nat
  PROVE  LET q == Adelanta(p, e)
         IN  /\ q \in Seq(Marco) /\ Len(q) = Len(p) /\ q # <<>>
             /\ \A i \in 1 .. Len(p) : q[i].modulo = p[i].modulo
             /\ \A i \in 1 .. Len(p) : i # Len(p) => q[i] = p[i]
             /\ q[Len(p)].pieza = p[Len(p)].pieza + 1
             /\ q[Len(p)].errores = p[Len(p)].errores + e
             /\ \A i \in 1 .. Len(p) : q[i].nombres = p[i].nombres
<1>1. Len(p) \in Nat \ {0} /\ DOMAIN p = 1 .. Len(p) /\ p[Len(p)] \in Marco
  OBVIOUS
<1>2. Adelanta(p, e) =
        [p EXCEPT ![Len(p)] = [p[Len(p)] EXCEPT !.pieza = @ + 1, !.errores = @ + e]]
  BY <1>1 DEF Adelanta, Marco
<1>3. ASSUME NEW m \in Marco
      PROVE  [m EXCEPT !.pieza = @ + 1, !.errores = @ + e] \in Marco
  <2>1. m.pieza + 1 \in Nat \ {0} /\ m.errores + e \in Nat
    BY DEF Marco
  <2>2. QED
    BY <2>1 DEF Marco
<1> DEFINE m == p[Len(p)]
           r == [m EXCEPT !.pieza = @ + 1, !.errores = @ + e]
           q == [p EXCEPT ![Len(p)] = r]
<1>4. /\ r \in Marco /\ r.modulo = m.modulo /\ r.nombres = m.nombres
      /\ r.pieza = m.pieza + 1 /\ r.errores = m.errores + e
  BY <1>1, <1>3 DEF Marco
<1>5. Adelanta(p, e) = q
  BY <1>2
<1> HIDE DEF r
<1>6. /\ q \in Seq(Marco) /\ Len(q) = Len(p)
      /\ \A i \in 1 .. Len(p) : q[i] = IF i = Len(p) THEN r ELSE p[i]
  BY <1>1, <1>4, ExceptSeq
<1> HIDE DEF q
<1>7. Len(p) \in 1 .. Len(p)
  BY <1>1
<1>8. q[Len(p)] = r
  BY <1>6, <1>7
<1>9. q # <<>>
  BY <1>1, <1>6
<1>10. \A i \in 1 .. Len(p) : q[i].modulo = p[i].modulo /\ q[i].nombres = p[i].nombres
  BY <1>1, <1>4, <1>6
<1>11. \A i \in 1 .. Len(p) : i # Len(p) => q[i] = p[i]
  BY <1>1, <1>6
<1>12. QED
  BY <1>4, <1>5, <1>6, <1>7, <1>8, <1>9, <1>10, <1>11

\* Leaving a module takes one frame off the stack.
LEMMA Quitada ==
  ASSUME NEW p \in Seq(Marco), Len(p) > 1
  PROVE  LET q == SubSeq(p, 1, Len(p) - 1)
         IN  /\ q \in Seq(Marco) /\ q # <<>>
             /\ Len(q) = Len(p) - 1 /\ \A i \in 1 .. Len(p) - 1 : q[i] = p[i]
<1> DEFINE n == Len(p) - 1
           q == SubSeq(p, 1, n)
<1>0. Len(p) \in Nat
  OBVIOUS
<1>1. n \in Int /\ 1 <= n /\ n < Len(p)
  <2>1. \A k \in Nat : k > 1 => k - 1 \in Int /\ 1 <= k - 1 /\ k - 1 < k
    OBVIOUS
  <2>2. QED
    BY <1>0, <2>1
<1>2. \A i \in 1 .. n : p[i] \in Marco
  BY <1>0, <1>1
<1> HIDE DEF n
<1>3. /\ q \in Seq(Marco)
      /\ Len(q) = IF 1 <= n THEN n - 1 + 1 ELSE 0
      /\ \A i \in 1 .. n - 1 + 1 : q[i] = p[1 + i - 1]
  BY <1>1, <1>2, SubSeqProperties
<1>4. Len(q) = n /\ \A i \in 1 .. n : q[i] = p[i]
  BY <1>1, <1>3
<1> USE DEF n
<1>5. QED
  BY <1>1, <1>3, <1>4

\* What a `usar` asks for is a file and a list of names.
LEMMA UsarTipado ==
  ASSUME NEW a \in Archivo, NEW k \in 1 .. a.corte, a.piezas[k].clase = "usar"
  PROVE  a.piezas[k] \in Usar
<1>1. a.piezas \in Seq(Pieza) /\ a.corte \in Nat /\ a.corte <= Len(a.piezas)
  BY DEF Archivo
<1>2. Len(a.piezas) \in Nat
  BY <1>1
<1>3. k \in 1 .. Len(a.piezas)
  BY <1>1, <1>2
<1>4. a.piezas[k] \in Pieza
  BY <1>1, <1>3, ElementOfSeq
<1>5. QED
  BY <1>4 DEF Pieza, Definicion, Usar, Enviar

\* The frame on top, while the modules are read.
LEMMA CimaTipada ==
  ASSUME TypeOK, fase = "modulos"
  PROVE  /\ Len(pila) \in Nat \ {0} /\ DOMAIN pila = 1 .. Len(pila)
         /\ Cima \in Marco /\ Actual \in Archivo
         /\ Cima.pieza \in Nat \ {0} /\ Cima.errores \in Nat
<1>1. pila \in Seq(Marco) /\ pila # <<>> /\ disco \in [Archivos -> Archivo]
  BY DEF TypeOK
<1>2. Len(pila) \in Nat \ {0} /\ DOMAIN pila = 1 .. Len(pila) /\ Cima \in Marco
  BY <1>1 DEF Cima
<1>3. QED
  BY <1>1, <1>2 DEF Marco, Actual

IInv == TypeOK /\ SinRepetir /\ OrdenDeCarga

\* Taking the next piece, when what was asked for is loaded or an error is counted.
LEMMA SigueMantiene ==
  ASSUME IInv, EnPieza, NEW e \in Nat, Sigue(e),
         EnUsar /\ e = 0 => Cargado(Pedido)
  PROVE  IInv'
<1> DEFINE n == Len(pila)
<1>1. /\ TypeOK /\ fase = "modulos"
      /\ pila \in Seq(Marco) /\ pila # <<>>
      /\ n \in Nat \ {0} /\ DOMAIN pila = 1 .. n
      /\ Cima \in Marco /\ Actual \in Archivo
      /\ Cima.pieza \in Nat \ {0} /\ Cima.errores \in Nat
  BY CimaTipada DEF IInv, TypeOK, EnPieza
<1>2. /\ pila' \in Seq(Marco) /\ Len(pila') = n /\ pila' # <<>>
      /\ \A i \in 1 .. n : pila'[i].modulo = pila[i].modulo
      /\ \A i \in 1 .. n : i # n => pila'[i] = pila[i]
      /\ pila'[n].pieza = pila[n].pieza + 1
      /\ pila'[n].errores = pila[n].errores + e
  BY <1>1, Adelantada DEF Sigue
<1>3. DOMAIN pila' = 1 .. n
  BY <1>2
<1>4. disco' = disco /\ fase' = fase /\ cargados' = cargados
  BY DEF Sigue
<1> HIDE DEF n
<1>5. TypeOK'
  BY <1>1, <1>2, <1>4 DEF TypeOK
<1>6. SinRepetir'
  <2>1. SinRepetir
    BY DEF IInv
  <2>2. \A i \in 2 .. n : pila'[i].modulo = pila[i].modulo
    BY <1>1, <1>2
  <2>3. QED
    BY <1>2, <1>4, <2>1, <2>2 DEF SinRepetir, n
<1>7. DespuesDeLosSuyos' /\ TodosCargados'
  BY <1>1, <1>4 DEF IInv, OrdenDeCarga, DespuesDeLosSuyos, TodosCargados, Precede
<1>8. Recorrido'
  <2>1. Recorrido
    BY DEF IInv, OrdenDeCarga
  <2> SUFFICES ASSUME NEW i \in 1 .. n, NEW k \in Usos(disco[pila[i].modulo]),
                      pila'[i].errores = 0, k < pila'[i].pieza
               PROVE  Cargado(disco[pila[i].modulo].piezas[k].de)
    BY <1>2, <1>3, <1>4 DEF Recorrido, Cargado
  <2>2. CASE i # n
    BY <1>1, <1>2, <2>1, <2>2 DEF Recorrido
  <2>3. CASE i = n
    <3>1. Cima = pila[n] /\ Actual = disco[pila[n].modulo]
      BY DEF Cima, Actual, n
    <3>2. Cima.errores = 0 /\ e = 0
      BY <1>1, <1>2, <2>3, <3>1
    <3>3. k \in Nat /\ k < Cima.pieza + 1 /\ k \in 1 .. Actual.corte /\ Actual.piezas[k].clase = "usar"
      BY <1>1, <1>2, <2>3, <3>1 DEF Usos, Leidas, Archivo
    <3>4. CASE k < Cima.pieza
      BY <1>1, <2>1, <2>3, <3>1, <3>2, <3>4 DEF Recorrido
    <3>5. CASE k = Cima.pieza
      <4>1. EnUsar /\ Pedido = disco[pila[i].modulo].piezas[k].de
        BY <2>3, <3>1, <3>3, <3>5 DEF EnUsar, Pedido
      <4>2. QED
        BY <3>2, <4>1
    <3>6. QED
      BY <1>1, <3>3, <3>4, <3>5
  <2>4. QED
    BY <2>2, <2>3
<1>9. Encadenados'
  <2>1. \A i \in 1 .. n - 1 : i \in 1 .. n /\ i # n /\ i + 1 \in 1 .. n
    BY <1>1
  <2>2. QED
    BY <1>2, <1>4, <2>1 DEF IInv, OrdenDeCarga, Encadenados, n
<1>10. QED
  BY <1>5, <1>6, <1>7, <1>8, <1>9 DEF IInv, OrdenDeCarga

\* Going into a module that is neither loaded nor being read.
LEMMA EntraMantiene ==
  ASSUME IInv, Entra
  PROVE  IInv'
<1> DEFINE n == Len(pila)
           u == Actual.piezas[Cima.pieza]
           f == [modulo |-> Pedido, pieza |-> 1, errores |-> 0, nombres |-> u.nombres]
<1>1. /\ TypeOK /\ fase = "modulos"
      /\ pila \in Seq(Marco) /\ pila # <<>>
      /\ n \in Nat \ {0} /\ DOMAIN pila = 1 .. n
      /\ Cima \in Marco /\ Actual \in Archivo
      /\ Cima.pieza \in Nat \ {0}
  BY CimaTipada DEF IInv, TypeOK, Entra, EnUsar, EnPieza
<1>2. Cima.pieza \in 1 .. Actual.corte
  BY <1>1 DEF Entra, EnUsar, EnPieza, Archivo
<1>3. f \in Marco
  <2>1. u \in Usar
    BY <1>1, <1>2, UsarTipado DEF Entra, EnUsar
  <2>2. QED
    BY <2>1 DEF Usar, Pedido, Marco
<1>4. f.modulo = Pedido /\ f.pieza = 1
  OBVIOUS
<1>5. pila' = Append(pila, f) /\ disco' = disco /\ fase' = fase /\ cargados' = cargados
  BY DEF Entra
<1> HIDE DEF f, n
<1>6. /\ pila' \in Seq(Marco) /\ pila' # <<>> /\ Len(pila') = n + 1
      /\ DOMAIN pila' = 1 .. n + 1
      /\ \A i \in 1 .. n : pila'[i] = pila[i]
      /\ pila'[n + 1] = f
  BY <1>1, <1>3, <1>5 DEF n
<1>7. TypeOK'
  BY <1>1, <1>5, <1>6 DEF TypeOK
<1>8. SinRepetir'
  <2>1. /\ SinRepetir
        /\ \A i \in 2 .. n : pila[i].modulo # Pedido
        /\ \A j \in DOMAIN cargados : cargados[j] # Pedido
    BY DEF IInv, Entra, EnPila, Cargado, n
  <2>2. \A i \in 2 .. n + 1 : i # n + 1 => i \in 2 .. n /\ pila'[i] = pila[i]
    BY <1>1, <1>6
  <2>3. pila'[n + 1].modulo = Pedido
    BY <1>4, <1>6
  <2>4. QED
    BY <1>5, <1>6, <2>1, <2>2, <2>3 DEF SinRepetir, n
<1>9. DespuesDeLosSuyos' /\ TodosCargados'
  BY <1>1, <1>5 DEF IInv, OrdenDeCarga, DespuesDeLosSuyos, TodosCargados, Precede
<1>10. Recorrido'
  <2>1. Recorrido
    BY DEF IInv, OrdenDeCarga
  <2> SUFFICES ASSUME NEW i \in 1 .. n + 1, NEW k \in Usos(disco[pila'[i].modulo]),
                      pila'[i].errores = 0, k < pila'[i].pieza
               PROVE  Cargado(disco[pila'[i].modulo].piezas[k].de)
    BY <1>5, <1>6 DEF Recorrido, Cargado
  <2>2. CASE i \in 1 .. n
    BY <1>1, <1>6, <2>1, <2>2 DEF Recorrido
  <2>3. CASE i = n + 1
    BY <1>1, <1>4, <1>6, <2>3 DEF Usos, Leidas
  <2>4. QED
    BY <1>1, <2>2, <2>3
<1>11. Encadenados'
  <2>1. \A i \in 1 .. n : i # n => i \in 1 .. n - 1 /\ i + 1 \in 1 .. n
    BY <1>1
  <2>2. disco[pila[n].modulo].piezas[pila[n].pieza].de = pila'[n + 1].modulo
    BY <1>4, <1>6 DEF Pedido, Actual, Cima, n
  <2>3. n \in 1 .. n
    BY <1>1
  <2>4. Len(pila') - 1 = n /\ \A i \in 1 .. n - 1 : pila[i] = pila'[i] /\ pila[i + 1] = pila'[i + 1]
    BY <1>1, <1>6
  <2>5. \A i \in 1 .. n - 1 : disco[pila[i].modulo].piezas[pila[i].pieza].de = pila[i + 1].modulo
    BY DEF IInv, OrdenDeCarga, Encadenados, n
  <2> SUFFICES ASSUME NEW i \in 1 .. n
               PROVE  disco[pila'[i].modulo].piezas[pila'[i].pieza].de = pila'[i + 1].modulo
    BY <1>5, <2>4 DEF Encadenados
  <2>6. CASE i = n
    BY <1>6, <2>2, <2>3, <2>6
  <2>7. CASE i # n
    <3>1. i \in 1 .. n - 1
      BY <2>1, <2>7
    <3>2. pila[i] = pila'[i] /\ pila[i + 1] = pila'[i + 1]
      BY <2>4, <3>1
    <3>3. QED
      BY <2>5, <3>1, <3>2
  <2>8. QED
    BY <2>6, <2>7
<1>12. QED
  BY <1>7, <1>8, <1>9, <1>10, <1>11 DEF IInv, OrdenDeCarga

\* Coming back from a module whose `usar`s end with an error.
LEMMA DescartaMantiene ==
  ASSUME IInv, Descarta
  PROVE  IInv'
<1> DEFINE n == Len(pila)
           q == SubSeq(pila, 1, n - 1)
<1>1. /\ TypeOK /\ fase = "modulos"
      /\ pila \in Seq(Marco) /\ n \in Nat /\ n > 1 /\ DOMAIN pila = 1 .. n
      /\ Cima.errores \in Nat
  BY CimaTipada DEF IInv, TypeOK, Descarta, AlFinal
<1>2. Errores \in Nat /\ Errores # 0
  BY <1>1 DEF Errores, Descarta
<1>3. q \in Seq(Marco) /\ q # <<>> /\ Len(q) = n - 1 /\ \A i \in 1 .. n - 1 : q[i] = pila[i]
  BY <1>1, Quitada
<1>4. pila' = Adelanta(q, Errores) /\ disco' = disco /\ fase' = fase /\ cargados' = cargados
  BY DEF Descarta, Vuelve
<1> HIDE DEF n, q
<1>5. /\ pila' \in Seq(Marco) /\ Len(pila') = n - 1 /\ pila' # <<>>
      /\ \A i \in 1 .. n - 1 : pila'[i].modulo = pila[i].modulo
      /\ \A i \in 1 .. n - 1 : i # n - 1 => pila'[i] = pila[i]
      /\ pila'[n - 1].errores = pila[n - 1].errores + Errores
  <2>1. Errores \in Nat
    BY <1>2
  <2>2. /\ Adelanta(q, Errores) \in Seq(Marco) /\ Len(Adelanta(q, Errores)) = Len(q)
        /\ Adelanta(q, Errores) # <<>>
        /\ \A i \in 1 .. Len(q) : Adelanta(q, Errores)[i].modulo = q[i].modulo
        /\ \A i \in 1 .. Len(q) : i # Len(q) => Adelanta(q, Errores)[i] = q[i]
        /\ Adelanta(q, Errores)[Len(q)].errores = q[Len(q)].errores + Errores
    BY <1>3, <2>1, Adelantada
  <2>3. n - 1 \in 1 .. n - 1
    BY <1>1
  <2>4. QED
    BY <1>3, <1>4, <2>2, <2>3
<1>6. DOMAIN pila' = 1 .. n - 1
  BY <1>5
<1>7. TypeOK'
  <2>1. 1 \in 1 .. n - 1
    BY <1>1
  <2>2. pila'[1].modulo = Entrada
    BY <1>1, <1>5, <2>1 DEF TypeOK
  <2>3. QED
    BY <1>1, <1>4, <1>5, <2>2 DEF TypeOK
<1>8. SinRepetir'
  <2>1. \A i \in 2 .. n - 1 : i \in 2 .. n /\ i \in 1 .. n - 1
    BY <1>1
  <2>2. \A i \in 2 .. n - 1 : i \in 2 .. n /\ pila'[i].modulo = pila[i].modulo
    BY <1>5, <2>1
  <2>3. /\ \A i, j \in 2 .. n : pila[i].modulo = pila[j].modulo => i = j
        /\ \A i \in 2 .. n, j \in DOMAIN cargados : pila[i].modulo # cargados[j]
        /\ \A i, j \in DOMAIN cargados : cargados[i] = cargados[j] => i = j
    BY DEF IInv, SinRepetir, n
  <2>4. \A i, j \in 2 .. n - 1 : pila'[i].modulo = pila'[j].modulo => i = j
    BY <2>2, <2>3
  <2>5. \A i \in 2 .. n - 1, j \in DOMAIN cargados : pila'[i].modulo # cargados[j]
    BY <2>2, <2>3
  <2>6. QED
    BY <1>4, <1>5, <2>3, <2>4, <2>5 DEF SinRepetir
<1>9. DespuesDeLosSuyos' /\ TodosCargados'
  BY <1>1, <1>4 DEF IInv, OrdenDeCarga, DespuesDeLosSuyos, TodosCargados, Precede
<1>10. Recorrido'
  <2>1. Recorrido
    BY DEF IInv, OrdenDeCarga
  <2> SUFFICES ASSUME NEW i \in 1 .. n - 1, NEW k \in Usos(disco[pila'[i].modulo]),
                      pila'[i].errores = 0, k < pila'[i].pieza
               PROVE  Cargado(disco[pila'[i].modulo].piezas[k].de)
    BY <1>4, <1>6 DEF Recorrido, Cargado
  <2>2. i \in 1 .. n /\ pila[i] \in Marco
    BY <1>1, ElementOfSeq DEF n
  <2>3. i # n - 1
    BY <1>2, <1>5, <2>2 DEF Marco
  <2>4. QED
    BY <1>1, <1>5, <2>1, <2>2, <2>3 DEF Recorrido
<1>11. Encadenados'
  <2>1. \A i \in 1 .. n - 2 : i \in 1 .. n - 1 /\ i # n - 1 /\ i + 1 \in 1 .. n - 1
    BY <1>1
  <2>2. Len(pila') - 1 = n - 2
    BY <1>1, <1>5
  <2>3. \A i \in 1 .. n - 1 : disco[pila[i].modulo].piezas[pila[i].pieza].de = pila[i + 1].modulo
    BY DEF IInv, OrdenDeCarga, Encadenados, n
  <2>4. \A i \in 1 .. n - 2 : pila'[i] = pila[i] /\ pila'[i + 1].modulo = pila[i + 1].modulo
    BY <1>5, <2>1
  <2>5. QED
    BY <1>4, <2>1, <2>2, <2>3, <2>4 DEF Encadenados
<1>12. QED
  BY <1>7, <1>8, <1>9, <1>10, <1>11 DEF IInv, OrdenDeCarga

\* A module whose files are all loaded goes after them.
LEMMA FundeMantiene ==
  ASSUME IInv, Funde
  PROVE  IInv'
<1> DEFINE n == Len(pila)
           c == Len(cargados)
           q == SubSeq(pila, 1, n - 1)
           m == Cima.modulo
<1>1. /\ TypeOK /\ fase = "modulos"
      /\ pila \in Seq(Marco) /\ n \in Nat /\ n > 1 /\ DOMAIN pila = 1 .. n
      /\ Cima.errores \in Nat /\ m \in Archivos /\ Cima.pieza \in Nat
      /\ Actual \in Archivo
      /\ cargados \in Seq(Archivos) /\ c \in Nat /\ DOMAIN cargados = 1 .. c
  BY CimaTipada DEF IInv, TypeOK, Funde, AlFinal, Marco
<1>2. Cima = pila[n] /\ Cima.errores = 0 /\ Cima.pieza > Actual.corte
  BY <1>1 DEF Cima, Funde, AlFinal, Errores
<1>3. q \in Seq(Marco) /\ q # <<>> /\ Len(q) = n - 1 /\ \A i \in 1 .. n - 1 : q[i] = pila[i]
  BY <1>1, Quitada
<1>4. pila' = Adelanta(q, 0) /\ cargados' = Append(cargados, m) /\ disco' = disco /\ fase' = fase
  BY DEF Funde, Vuelve
<1>5. /\ cargados' \in Seq(Archivos) /\ DOMAIN cargados' = 1 .. c + 1
      /\ \A j \in 1 .. c : cargados'[j] = cargados[j]
      /\ cargados'[c + 1] = m
  BY <1>1, <1>4
<1> HIDE DEF n, c, q, m
<1>6. /\ pila' \in Seq(Marco) /\ Len(pila') = n - 1 /\ pila' # <<>>
      /\ \A i \in 1 .. n - 1 : pila'[i].modulo = pila[i].modulo
      /\ \A i \in 1 .. n - 1 : i # n - 1 => pila'[i] = pila[i]
      /\ pila'[n - 1].errores = pila[n - 1].errores + 0
      /\ pila'[n - 1].pieza = pila[n - 1].pieza + 1
  <2>1. /\ Adelanta(q, 0) \in Seq(Marco) /\ Len(Adelanta(q, 0)) = Len(q)
        /\ Adelanta(q, 0) # <<>>
        /\ \A i \in 1 .. Len(q) : Adelanta(q, 0)[i].modulo = q[i].modulo
        /\ \A i \in 1 .. Len(q) : i # Len(q) => Adelanta(q, 0)[i] = q[i]
        /\ Adelanta(q, 0)[Len(q)].errores = q[Len(q)].errores + 0
        /\ Adelanta(q, 0)[Len(q)].pieza = q[Len(q)].pieza + 1
    BY <1>3, Adelantada
  <2>2. n - 1 \in 1 .. n - 1
    BY <1>1
  <2>3. QED
    BY <1>3, <1>4, <2>1, <2>2
<1>7. DOMAIN pila' = 1 .. n - 1
  BY <1>6
<1>8. TypeOK'
  <2>1. 1 \in 1 .. n - 1
    BY <1>1
  <2>2. pila'[1].modulo = Entrada
    BY <1>1, <1>6, <2>1 DEF TypeOK
  <2>3. QED
    BY <1>1, <1>4, <1>5, <1>6, <2>2 DEF TypeOK
\* m leaves the stack as it enters the loaded ones.
<1>9. SinRepetir'
  <2>1. SinRepetir /\ pila[n].modulo = m
    BY <1>2 DEF IInv, m
  <2>2. \A i \in 2 .. n - 1 : i \in 2 .. n /\ i # n /\ pila'[i].modulo = pila[i].modulo
    BY <1>1, <1>6
  <2>3. n \in 2 .. n
    BY <1>1
  <2>4. \A i \in 2 .. n - 1 : pila'[i].modulo # m
    BY <2>1, <2>2, <2>3 DEF SinRepetir, n
  <2>5. \A j \in 1 .. c : cargados[j] # m
    BY <1>1, <2>1, <2>3 DEF SinRepetir, n
  <2>6. \A j \in 1 .. c + 1 : j # c + 1 => j \in 1 .. c /\ cargados'[j] = cargados[j]
    BY <1>1, <1>5
  <2>7. \A i, j \in DOMAIN cargados' : cargados'[i] = cargados'[j] => i = j
    BY <1>1, <1>5, <2>1, <2>5, <2>6 DEF SinRepetir
  <2>8. \A i \in 2 .. n - 1, j \in 1 .. c + 1 : pila'[i].modulo # cargados'[j]
    <3>1. \A i \in 2 .. n, j \in 1 .. c : pila[i].modulo # cargados[j]
      BY <1>1, <2>1 DEF SinRepetir, n
    <3>2. QED
      BY <1>5, <2>2, <2>4, <2>6, <3>1
  <2>9. \A i, j \in 2 .. n - 1 : pila'[i].modulo = pila'[j].modulo => i = j
    BY <2>1, <2>2 DEF SinRepetir, n
  <2>10. QED
    BY <1>5, <1>6, <2>7, <2>8, <2>9 DEF SinRepetir
\* What was loaded stays so, at the same place.
<1>10. \A x : Cargado(x) => \E j \in DOMAIN cargados' : cargados'[j] = x
  BY <1>1, <1>5 DEF Cargado
<1>11. \A k \in Usos(disco[m]) : Cargado(disco[m].piezas[k].de)
  <2>1. Actual = disco[pila[n].modulo] /\ pila[n].modulo = m
    BY <1>2 DEF Actual, m
  <2>2. \A k \in Usos(disco[m]) : k < Cima.pieza
    BY <1>1, <1>2, <2>1 DEF Usos, Leidas, Archivo
  <2>3. Recorrido /\ n \in DOMAIN pila
    BY <1>1 DEF IInv, OrdenDeCarga
  <2>4. QED
    BY <1>2, <2>1, <2>2, <2>3 DEF Recorrido
<1>12. DespuesDeLosSuyos'
  <2>1. DespuesDeLosSuyos
    BY DEF IInv, OrdenDeCarga
  <2>2. ASSUME NEW i \in 1 .. c + 1, NEW k \in Usos(disco[cargados'[i]])
        PROVE  \E j \in 1 .. c + 1 : j < i /\ cargados'[j] = disco[cargados'[i]].piezas[k].de
    <3>1. CASE i = c + 1
      <4>1. PICK j \in 1 .. c : cargados[j] = disco[m].piezas[k].de
        BY <1>1, <1>5, <1>11, <3>1 DEF Cargado
      <4>2. j \in 1 .. c + 1 /\ j < i /\ cargados'[j] = cargados[j] /\ cargados'[i] = m
        BY <1>1, <1>5, <3>1
      <4>3. QED
        BY <4>1, <4>2
    <3>2. CASE i # c + 1
      <4>1. i \in 1 .. c /\ cargados'[i] = cargados[i]
        BY <1>1, <1>5, <3>2
      <4>2. PICK j \in 1 .. c : j < i /\ cargados[j] = disco[cargados[i]].piezas[k].de
        BY <1>1, <2>1, <4>1 DEF DespuesDeLosSuyos, Precede
      <4>3. j \in 1 .. c + 1 /\ cargados'[j] = cargados[j]
        BY <1>1, <1>5
      <4>4. QED
        BY <4>1, <4>2, <4>3
    <3>3. QED
      BY <3>1, <3>2
  <2>3. disco' = disco /\ DOMAIN cargados' = 1 .. c + 1
    BY <1>4, <1>5
  <2>4. QED
    BY <2>2, <2>3 DEF DespuesDeLosSuyos, Precede
<1>13. TodosCargados'
  BY <1>1, <1>4 DEF TodosCargados
<1>14. Recorrido'
  <2>1. Recorrido
    BY DEF IInv, OrdenDeCarga
  <2>2. ASSUME NEW i \in 1 .. n - 1, NEW k \in Usos(disco[pila[i].modulo]),
               pila'[i].errores = 0, k < pila'[i].pieza
        PROVE  \E j \in DOMAIN cargados' : cargados'[j] = disco[pila[i].modulo].piezas[k].de
    <3>1. i \in DOMAIN pila /\ pila[i] \in Marco
      BY <1>1, ElementOfSeq DEF n
    <3>2. pila[i].errores = 0 /\ pila[i].pieza \in Nat
      <4>1. pila[i].errores \in Nat /\ pila[i].pieza \in Nat
        BY <3>1 DEF Marco
      <4>2. CASE i = n - 1
        BY <1>6, <2>2, <4>1, <4>2
      <4>3. CASE i # n - 1
        BY <1>6, <2>2, <4>1, <4>3
      <4>4. QED
        BY <4>2, <4>3
    <3>3. CASE k < pila[i].pieza
      BY <1>10, <2>1, <3>1, <3>2, <3>3 DEF Recorrido
    <3>4. CASE i = n - 1 /\ k = pila[i].pieza
      <4>1. disco[pila[i].modulo].piezas[k].de = pila[i + 1].modulo
        BY <1>1, <3>4 DEF IInv, OrdenDeCarga, Encadenados, n
      <4>2. pila[i + 1].modulo = m
        BY <1>1, <1>2, <3>4 DEF m
      <4>3. c + 1 \in DOMAIN cargados'
        BY <1>1, <1>5
      <4>4. QED
        BY <1>5, <4>1, <4>2, <4>3
    <3>5. k < pila[i].pieza \/ (i = n - 1 /\ k = pila[i].pieza)
      <4>1. CASE i = n - 1
        <5>1. disco[pila[i].modulo] \in Archivo
          BY <1>1, <3>1 DEF Marco, TypeOK
        <5>2. k \in Int
          BY <2>2, <5>1 DEF Usos, Leidas, Archivo
        <5>3. k < pila[i].pieza + 1
          BY <1>6, <2>2, <4>1
        <5>4. QED
          BY <3>2, <4>1, <5>2, <5>3
      <4>2. CASE i # n - 1
        BY <1>6, <2>2, <4>2
      <4>3. QED
        BY <4>1, <4>2
    <3>6. QED
      BY <3>3, <3>4, <3>5
  <2>3. /\ disco' = disco /\ DOMAIN pila' = 1 .. n - 1
        /\ \A i \in 1 .. n - 1 : pila'[i].modulo = pila[i].modulo
    BY <1>4, <1>6, <1>7
  <2>4. QED
    BY <2>2, <2>3 DEF Recorrido, Cargado
<1>15. Encadenados'
  <2>1. \A i \in 1 .. n - 2 : i \in 1 .. n - 1 /\ i # n - 1 /\ i + 1 \in 1 .. n - 1
    BY <1>1
  <2>2. Len(pila') - 1 = n - 2
    BY <1>1, <1>6
  <2>3. \A i \in 1 .. n - 1 : disco[pila[i].modulo].piezas[pila[i].pieza].de = pila[i + 1].modulo
    BY DEF IInv, OrdenDeCarga, Encadenados, n
  <2>4. \A i \in 1 .. n - 2 : pila'[i] = pila[i] /\ pila'[i + 1].modulo = pila[i + 1].modulo
    BY <1>6, <2>1
  <2>5. QED
    BY <1>4, <2>1, <2>2, <2>3, <2>4 DEF Encadenados
<1>16. QED
  BY <1>8, <1>9, <1>12, <1>13, <1>14, <1>15 DEF IInv, OrdenDeCarga

\* The loader starts with an empty stack of modules.
LEMMA LeeEntradaMantiene ==
  ASSUME IInv, LeeEntrada
  PROVE  IInv'
<1> DEFINE f == [modulo |-> Entrada, pieza |-> 1, errores |-> 0, nombres |-> {}]
<1>1. f \in Marco /\ f.modulo = Entrada /\ f.pieza = 1
  BY DEF Marco
<1>2. pila' = <<f>> /\ fase' = "modulos" /\ disco' = disco /\ cargados' = cargados
  BY DEF LeeEntrada
<1> HIDE DEF f
<1>3. /\ pila' \in Seq(Marco) /\ pila' # <<>> /\ Len(pila') = 1
      /\ DOMAIN pila' = 1 .. 1 /\ pila'[1] = f
  BY <1>1, <1>2
<1>4. TypeOK'
  BY <1>1, <1>2, <1>3 DEF IInv, TypeOK, Fases
<1>5. SinRepetir'
  BY <1>2, <1>3 DEF IInv, SinRepetir
<1>6. DespuesDeLosSuyos' /\ TodosCargados'
  BY <1>2 DEF IInv, OrdenDeCarga, DespuesDeLosSuyos, TodosCargados, Precede
<1>7. Recorrido'
  <2>1. \A a \in Archivo : \A k \in Usos(a) : ~ (k < 1)
    BY DEF Usos, Leidas, Archivo
  <2>2. disco[Entrada] \in Archivo
    BY DEF IInv, TypeOK
  <2>3. QED
    BY <1>1, <1>2, <1>3, <2>1, <2>2 DEF Recorrido
<1>8. Encadenados'
  BY <1>3 DEF Encadenados
<1>9. QED
  BY <1>4, <1>5, <1>6, <1>7, <1>8 DEF IInv, OrdenDeCarga

\* Without errors, the end of the entry finds all it asked for loaded.
LEMMA RegistradosMantiene ==
  ASSUME IInv, Registrados
  PROVE  IInv'
<1>1. /\ TypeOK /\ fase = "modulos" /\ Len(pila) = 1 /\ pila \in Seq(Marco)
      /\ Cima = pila[1] /\ pila[1].modulo = Entrada /\ 1 \in DOMAIN pila
      /\ Actual = disco[Entrada] /\ disco[Entrada] \in Archivo
      /\ Cima.pieza \in Nat \ {0} /\ Cima.errores \in Nat /\ Cima.pieza > Actual.corte
  BY CimaTipada DEF IInv, TypeOK, Registrados, AlFinal, Cima, Actual
<1>2. /\ pila' = <<>> /\ disco' = disco /\ cargados' = cargados
      /\ fase' = IF Cima.errores > 0 THEN "rechazado" ELSE "reservadas"
  BY DEF Registrados
<1>3. pila' \in Seq(Marco) /\ Len(pila') = 0 /\ DOMAIN pila' = {}
  BY <1>2
<1>4. TypeOK'
  BY <1>1, <1>2, <1>3 DEF TypeOK, Fases
<1>5. SinRepetir'
  BY <1>2, <1>3 DEF IInv, SinRepetir
<1>6. DespuesDeLosSuyos'
  BY <1>2 DEF IInv, OrdenDeCarga, DespuesDeLosSuyos, Precede
<1>7. Recorrido' /\ Encadenados'
  BY <1>3 DEF Recorrido, Encadenados
<1>8. TodosCargados'
  <2>1. CASE Cima.errores > 0
    BY <1>2, <2>1 DEF TodosCargados
  <2>2. CASE ~ (Cima.errores > 0)
    <3>1. Cima.errores = 0
      BY <1>1, <2>2
    <3>2. \A k \in Usos(disco[Entrada]) : k < pila[1].pieza
      BY <1>1 DEF Usos, Leidas, Archivo
    <3>3. \A k \in Usos(disco[Entrada]) : Cargado(disco[Entrada].piezas[k].de)
      BY <1>1, <3>1, <3>2 DEF IInv, OrdenDeCarga, Recorrido
    <3>4. QED
      BY <1>2, <3>3 DEF TodosCargados, Cargado
  <2>3. QED
    BY <2>1, <2>2
<1>9. QED
  BY <1>4, <1>5, <1>6, <1>7, <1>8 DEF IInv, OrdenDeCarga

\* The checks after the loader leave what was loaded as it is.
LEMMA CompruebaMantiene ==
  ASSUME IInv, NEW f \in {"lee", "reservadas", "retornos", "tipos", "genera"},
         NEW g \in Fases \ {"modulos"}, NEW vale \in BOOLEAN,
         f = "lee" => ~ vale, Comprueba(f, vale, g)
  PROVE  IInv'
<1>1. /\ fase = f /\ pila = <<>> /\ pila' = <<>> /\ fase' # "modulos" /\ fase' \in Fases
      /\ disco' = disco /\ cargados' = cargados
      /\ f = "lee" => fase' = "rechazado"
  BY DEF IInv, TypeOK, Comprueba, Fases
<1>2. TypeOK'
  BY <1>1 DEF IInv, TypeOK
<1>3. SinRepetir'
  BY <1>1 DEF IInv, SinRepetir
<1>4. DespuesDeLosSuyos' /\ Recorrido' /\ Encadenados'
  BY <1>1 DEF IInv, OrdenDeCarga, DespuesDeLosSuyos, Recorrido, Encadenados, Precede, Cargado
<1>5. TodosCargados'
  BY <1>1 DEF IInv, OrdenDeCarga, TodosCargados, Cargado
<1>6. QED
  BY <1>2, <1>3, <1>4, <1>5 DEF IInv, OrdenDeCarga

\* What the loader keeps true whatever the files say: it is inductive, as the frames carry
\* what has been loaded up to their piece and whom they wait for (Recorrido, Encadenados).
THEOREM Inductiva == Spec => []IInv
<1>1. Init => IInv
  <2> SUFFICES ASSUME Init PROVE IInv
    OBVIOUS
  <2>1. /\ disco \in [Archivos -> Archivo] /\ fase = "lee"
        /\ pila = <<>> /\ cargados = <<>>
        /\ pila \in Seq(Marco) /\ cargados \in Seq(Archivos)
        /\ Len(pila) = 0 /\ DOMAIN pila = {} /\ DOMAIN cargados = {}
    BY DEF Init
  <2>2. TypeOK
    BY <2>1 DEF TypeOK, Fases
  <2>3. SinRepetir /\ OrdenDeCarga
    BY <2>1 DEF SinRepetir, OrdenDeCarga, DespuesDeLosSuyos, Recorrido, TodosCargados, Encadenados
  <2>4. QED
    BY <2>2, <2>3 DEF IInv
<1>2. IInv /\ [Next]_vars => IInv'
  <2> SUFFICES ASSUME IInv, [Next]_vars PROVE IInv'
    OBVIOUS
  <2>1. CASE LeeEntrada
    BY <2>1, LeeEntradaMantiene
  <2>2. CASE EntradaNoSeLee
    <3>1. Comprueba("lee", FALSE, "rechazado")
      BY <2>2 DEF EntradaNoSeLee, Comprueba
    <3>2. QED
      BY <3>1, CompruebaMantiene DEF Fases
  <2>3. CASE OtraPieza
    BY <2>3, SigueMantiene DEF OtraPieza
  <2>4. CASE YaCargado
    BY <2>4, SigueMantiene DEF YaCargado, EnUsar
  <2>5. CASE Ciclo
    BY <2>5, SigueMantiene DEF Ciclo, EnUsar
  <2>6. CASE NoSeAbre
    BY <2>6, SigueMantiene DEF NoSeAbre, EnUsar
  <2>7. CASE NoSeAnaliza
    BY <2>7, SigueMantiene DEF NoSeAnaliza, EnUsar
  <2>8. CASE Entra
    BY <2>8, EntraMantiene
  <2>9. CASE Descarta
    BY <2>9, DescartaMantiene
  <2>10. CASE Funde
    BY <2>10, FundeMantiene
  <2>11. CASE Registrados
    BY <2>11, RegistradosMantiene
  <2>12. CASE Reservadas
    BY <2>12, CompruebaMantiene DEF Reservadas, Fases, Permitido
  <2>13. CASE Retornos
    BY <2>13, CompruebaMantiene DEF Retornos, Fases, Retorna
  <2>14. CASE Tipos
    <3>1. SeResuelve(programa) \in BOOLEAN
      BY DEF SeResuelve
    <3>2. QED
      BY <2>14, <3>1, CompruebaMantiene DEF Tipos, Fases
  <2>17. CASE Genera
    BY <2>17, CompruebaMantiene DEF Genera, Fases, SeGenera
  <2>15. CASE UNCHANGED vars
    BY <2>15 DEF vars, IInv, TypeOK, SinRepetir, OrdenDeCarga, DespuesDeLosSuyos, Recorrido,
              TodosCargados, Encadenados, Precede, Cargado
  <2>16. QED
    BY <2>1, <2>2, <2>3, <2>4, <2>5, <2>6, <2>7, <2>8, <2>9, <2>10, <2>11, <2>12, <2>13, <2>14, <2>15, <2>17
       DEF Next, Paso, Terminado
<1>3. QED
  BY <1>1, <1>2, PTL DEF Spec

\* The state of the loader keeps its types, for every set of files.
THEOREM TypeOKSiempre == Spec => []TypeOK
<1>1. IInv => TypeOK
  BY DEF IInv
<1>2. QED
  BY <1>1, Inductiva, PTL

\* No module is read inside itself nor merged twice, whoever asks for it.
THEOREM SinRepetirSiempre == Spec => []SinRepetir
<1>1. IInv => SinRepetir
  BY DEF IInv
<1>2. QED
  BY <1>1, Inductiva, PTL

\* Each module is merged after those it asks for, and a program that gets past the loader
\* has every module it asked for.
THEOREM OrdenSiempre == Spec => []OrdenDeCarga
<1>1. IInv => OrdenDeCarga
  BY DEF IInv
<1>2. QED
  BY <1>1, Inductiva, PTL

-----------------------------------------------------------------------------
(* The promise of Importacion, of the files d: an INSTANCE has its own copy of *)
(* each of its definitions, which LaPromesa and the lemmas before it show to   *)
(* be the same.                                                              *)

PedidosDe(a) == {a.piezas[k].de : k \in Usos(a)}

CerradoEn(d, S) == \A x \in S : SeLee(d[x]) => PedidosDe(d[x]) \subseteq S
Alcanza(d, m) ==
  {x \in Archivos : \A S \in SUBSET Archivos : PedidosDe(d[m]) \subseteq S /\ CerradoEn(d, S) => x \in S}
Necesita(d) == Alcanza(d, Entrada)

CompletoEn(d) == \A m \in Necesita(d) : SeLee(d[m]) /\ m \notin Alcanza(d, m)

ListasEn(d, m) ==
  UNION {{d[a].piezas[k].nombres : k \in {j \in Usos(d[a]) : d[a].piezas[j].de = m}} :
           a \in {Entrada} \cup Necesita(d)}
ValidasEn(d, m) == {l \in ListasEn(d, m) : ListaValida(d[m], l)}

OrdenesEn(d) ==
  {s \in [1 .. Cardinality(Necesita(d)) -> Necesita(d)] :
     \A i, j \in DOMAIN s : (s[i] = s[j] => i = j) /\ (s[i] \in Alcanza(d, s[j]) => i < j)}

ProgramaEn(d, s) ==
  LET f[i \in 0 .. Len(s)] == IF i = 0 THEN Propio(d) ELSE Fundido(f[i - 1], d, s[i])
  IN  f[Len(s)]

\* The instance has its own copy of what the files say.
LEMMA MismaLectura ==
  /\ \A a : Promesa!Usos(a) = Usos(a)
  /\ \A a : Promesa!SeLee(a) <=> SeLee(a)
  /\ \A d : Promesa!EntradaSeLee(d) <=> EntradaSeLee(d)
  /\ Promesa!NoHay = NoHay
<1>1. \A a : Promesa!Usos(a) = Usos(a)
  BY DEF Promesa!Usos, Promesa!Leidas, Usos, Leidas
<1>2. \A a : Promesa!SeLee(a) <=> SeLee(a)
  BY DEF Promesa!SeLee, SeLee
<1>3. \A d : Promesa!EntradaSeLee(d) <=> EntradaSeLee(d)
  BY <1>2 DEF Promesa!EntradaSeLee, EntradaSeLee
<1>4. Promesa!NoHay = NoHay
  BY DEF Promesa!NoHay, Promesa!Vacio, NoHay, Vacio
<1>5. QED
  BY <1>1, <1>2, <1>3, <1>4

\* What it sends, and the lists of names that are good.
LEMMA MismosEnvios ==
  /\ \A a, k : Promesa!Enviada(a, k) <=> Enviada(a, k)
  /\ \A a, ns : Promesa!ListaValida(a, ns) <=> ListaValida(a, ns)
<1>1. \A a, c : Promesa!De(a, c) = De(a, c)
  BY DEF Promesa!De, Promesa!Leidas, De, Leidas
<1>2. \A a, k : Promesa!Enviada(a, k) <=> Enviada(a, k)
  BY <1>1 DEF Promesa!Enviada, Enviada
<1>3. Promesa!Funciones = Funciones /\ Promesa!Globales = Globales /\ \A c : Promesa!Lista(c) = Lista(c)
  BY DEF Promesa!Funciones, Promesa!Globales, Promesa!Lista, Funciones, Globales, Lista
<1>4. \A a, n : Promesa!Primeras(a, n) = Primeras(a, n)
  BY <1>1, <1>3 DEF Promesa!Primeras, Primeras
<1>5. \A a, ns : Promesa!ListaValida(a, ns) <=> ListaValida(a, ns)
  BY <1>2, <1>4 DEF Promesa!ListaValida, ListaValida
<1>6. QED
  BY <1>2, <1>5

\* The program of the entry and the merge.
LEMMA MismosProgramas ==
  /\ \A d : Promesa!Propio(d) = Propio(d)
  /\ \A p, d, m : Promesa!Fundido(p, d, m) = Fundido(p, d, m)
<1>1. \A d, m, c, s : Promesa!Definiciones(d, m, c, s) = Definiciones(d, m, c, s)
  BY DEF Promesa!Definiciones, Promesa!Leidas, Promesa!Enviada, Promesa!De, Definiciones, Leidas, Enviada, De
<1>2. Promesa!Funciones = Funciones /\ Promesa!Globales = Globales
  BY DEF Promesa!Funciones, Promesa!Globales, Funciones, Globales
<1>3. \A d : Promesa!Propio(d) = Propio(d)
  BY <1>1, <1>2 DEF Promesa!Propio, Propio
<1>4. \A p, d, m : Promesa!Fundido(p, d, m) = Fundido(p, d, m)
  BY <1>1, <1>2 DEF Promesa!Fundido, Fundido
<1>5. QED
  BY <1>3, <1>4

\* And the checks of the merged program.
LEMMA MismosVeredictos ==
  \A p : Promesa!Compilable(p) <=> Compilable(p)
<1>1. \A p : Promesa!LasFunciones(p) = LasFunciones(p)
  BY DEF Promesa!LasFunciones, LasFunciones
<1>2. \A p : Promesa!LosGlobales(p) = LosGlobales(p)
  BY DEF Promesa!LosGlobales, LosGlobales
<1>3. \A p : Promesa!LosRegistros(p) = LosRegistros(p)
  BY DEF Promesa!LosRegistros, LosRegistros
<1>4. \A x : Promesa!Nombrados(x) = Nombrados(x)
  BY DEF Promesa!Nombrados, Nombrados
<1>5. \A p : Promesa!Permitido(p) <=> Permitido(p)
  BY <1>1, <1>2, <1>3 DEF Promesa!Permitido, Permitido
<1>6. \A p : Promesa!Retorna(p) <=> Retorna(p)
  BY <1>1 DEF Promesa!Retorna, Retorna
<1>7. \A p : Promesa!SeResuelve(p) <=> SeResuelve(p)
  BY DEF Promesa!SeResuelve, Promesa!LosRegistros, Promesa!Nombrados, SeResuelve, LosRegistros, Nombrados
<1>8. \A p : Promesa!SeGenera(p) <=> SeGenera(p)
  BY <1>1, <1>2, <1>3, <1>4 DEF Promesa!SeGenera, SeGenera
<1>9. QED
  BY <1>5, <1>6, <1>7, <1>8 DEF Promesa!Compilable, Compilable

\* The names of the promise, in the files of the moment.
LEMMA LaPromesa ==
  /\ Promesa!Completo <=> CompletoEn(disco)
  /\ Promesa!Necesarios = Necesita(disco)
  /\ \A m : Promesa!Listas(m) = ListasEn(disco, m)
  /\ \A m : Promesa!Validas(m) = ValidasEn(disco, m)
  /\ Promesa!Ordenes = OrdenesEn(disco)
  /\ \A s : Promesa!ProgramaDe(s) = ProgramaEn(disco, s)
<1>1. \A a : Promesa!Pedidos(a) = PedidosDe(a)
  BY MismaLectura DEF Promesa!Pedidos, PedidosDe
<1>2. \A S : Promesa!Cerrado(S) <=> CerradoEn(disco, S)
  BY <1>1, MismaLectura DEF Promesa!Cerrado, CerradoEn
<1>3. \A m : Promesa!Alcanzables(m) = Alcanza(disco, m)
  BY <1>1, <1>2 DEF Promesa!Alcanzables, Alcanza
<1>4. Promesa!Necesarios = Necesita(disco)
  BY <1>3 DEF Promesa!Necesarios, Necesita
<1>5. Promesa!Completo <=> CompletoEn(disco)
  BY <1>3, <1>4, MismaLectura DEF Promesa!Completo, CompletoEn
<1>6. \A m : Promesa!Listas(m) = ListasEn(disco, m)
  BY <1>4, MismaLectura DEF Promesa!Listas, ListasEn
<1>7. \A m : Promesa!Validas(m) = ValidasEn(disco, m)
  BY <1>6, MismosEnvios DEF Promesa!Validas, ValidasEn
<1>8. Promesa!Ordenes = OrdenesEn(disco)
  BY DEF Promesa!Ordenes, Promesa!Necesarios, Promesa!Alcanzables, Promesa!Cerrado, Promesa!Pedidos,
         Promesa!Usos, Promesa!Leidas, Promesa!SeLee,
         OrdenesEn, Necesita, Alcanza, CerradoEn, PedidosDe, Usos, Leidas, SeLee,
         Promesa!Cardinality, Cardinality
<1>9. \A s : Promesa!ProgramaDe(s) = ProgramaEn(disco, s)
  BY MismosProgramas DEF Promesa!ProgramaDe, ProgramaEn
<1>10. QED
  BY <1>4, <1>5, <1>6, <1>7, <1>8, <1>9

-----------------------------------------------------------------------------
(* What is reached.                                                        *)

\* What a file asks for are files.
LEMMA PideArchivos ==
  ASSUME NEW a \in Archivo
  PROVE  PedidosDe(a) \subseteq Archivos
<1> SUFFICES ASSUME NEW k \in Usos(a) PROVE a.piezas[k].de \in Archivos
  BY DEF PedidosDe
<1>1. a.piezas[k] \in Usar
  BY UsarTipado DEF Usos, Leidas
<1>2. QED
  BY <1>1 DEF Usar

\* What is reached is in every set that is closed from there.
LEMMA AlcanzaMinimo ==
  ASSUME NEW d, NEW m, NEW S \in SUBSET Archivos, PedidosDe(d[m]) \subseteq S, CerradoEn(d, S)
  PROVE  Alcanza(d, m) \subseteq S
BY DEF Alcanza

\* What a file asks for is reached from it.
LEMMA AlcanzaPide ==
  ASSUME NEW d \in [Archivos -> Archivo], NEW m \in Archivos
  PROVE  PedidosDe(d[m]) \subseteq Alcanza(d, m)
<1>1. PedidosDe(d[m]) \subseteq Archivos
  BY PideArchivos
<1>2. QED
  BY <1>1 DEF Alcanza

\* And what is asked for by a readable file that is reached.
LEMMA AlcanzaSigue ==
  ASSUME NEW d \in [Archivos -> Archivo], NEW m, NEW x \in Alcanza(d, m), SeLee(d[x])
  PROVE  PedidosDe(d[x]) \subseteq Alcanza(d, m)
<1>1. x \in Archivos
  BY DEF Alcanza
<1>2. PedidosDe(d[x]) \subseteq Archivos
  BY <1>1, PideArchivos
<1>3. ASSUME NEW y \in PedidosDe(d[x]), NEW S \in SUBSET Archivos,
             PedidosDe(d[m]) \subseteq S, CerradoEn(d, S)
      PROVE  y \in S
  <2>1. x \in S
    BY <1>3 DEF Alcanza
  <2>2. QED
    BY <1>3, <2>1 DEF CerradoEn
<1>4. QED
  BY <1>2, <1>3 DEF Alcanza

\* Natural induction over a set, by the least number out of it.
LEMMA InduccionNatural ==
  ASSUME NEW T \in SUBSET Nat, 0 \in T, \A n \in T : n + 1 \in T
  PROVE  T = Nat
<1> DEFINE R == OpToRel(<, Nat)
<1> SUFFICES ASSUME Nat \ T # {} PROVE FALSE
  OBVIOUS
<1>1. IsWellFoundedOn(R, Nat)
  BY NatLessThanWellFounded
<1>2. PICK n \in Nat \ T : \A m \in Nat \ T : <<m, n>> \notin R
  <2> HIDE DEF R
  <2>1. Nat \ T \subseteq Nat /\ Nat \ T # {}
    OBVIOUS
  <2>2. QED
    BY <1>1, <2>1, WFMin
<1>3. \A m \in Nat \ T : ~(m < n)
  BY <1>2 DEF OpToRel
<1>4. n # 0 /\ n - 1 \in Nat /\ n - 1 \notin Nat \ T
  BY <1>3
<1>5. QED
  BY <1>4

\* Files that ask for each other in a row: the last one's requests are reached from each.
LEMMA AlcanzaPorCadena ==
  ASSUME NEW d \in [Archivos -> Archivo], NEW p, NEW n \in Nat, NEW j \in 1 .. n,
         \A i \in 1 .. n : p[i] \in Archivos,
         \A i \in 2 .. n : SeLee(d[p[i]]),
         \A i \in 1 .. n - 1 : p[i + 1] \in PedidosDe(d[p[i]]),
         NEW x \in PedidosDe(d[p[n]])
  PROVE  x \in Alcanza(d, p[j])
<1> DEFINE A == Alcanza(d, p[j])
           T == {k \in Nat : j + 1 + k <= n => p[j + 1 + k] \in A}
<1>0. j \in Nat /\ j >= 1 /\ PedidosDe(d[p[j]]) \subseteq A
  BY AlcanzaPide
<1>1. \A y \in A : SeLee(d[y]) => PedidosDe(d[y]) \subseteq A
  BY AlcanzaSigue
<1> HIDE DEF A
<1>2. 0 \in T
  BY <1>0
<1>3. ASSUME NEW k \in T PROVE k + 1 \in T
  <2> SUFFICES ASSUME j + 1 + (k + 1) <= n PROVE p[j + 1 + (k + 1)] \in A
    OBVIOUS
  <2> DEFINE i == j + 1 + k
  <2>1. k \in Nat /\ i \in 2 .. n /\ i \in 1 .. n - 1 /\ i + 1 = j + 1 + (k + 1)
    BY <1>0
  <2>2. p[i] \in A
    BY <1>0, <2>1
  <2> HIDE DEF i
  <2>3. p[i + 1] \in A
    BY <1>1, <2>1, <2>2
  <2>4. QED
    BY <2>1, <2>3
<1>4. T \in SUBSET Nat
  OBVIOUS
<1>5. T = Nat
  <2> HIDE DEF T
  <2>1. QED
    BY <1>2, <1>3, <1>4, InduccionNatural
<1>6. CASE j = n
  BY <1>0, <1>6 DEF A
<1>7. CASE j # n
  <2> DEFINE k == n - j - 1
  <2>0. k \in Nat /\ j + 1 + k = n /\ n \in 2 .. n
    BY <1>0, <1>7
  <2>1. k \in T
    BY <1>5, <2>0
  <2> HIDE DEF k
  <2>2. p[n] \in A
    BY <2>0, <2>1
  <2>3. QED
    BY <1>1, <2>0, <2>2 DEF A
<1>8. QED
  BY <1>6, <1>7

\* A sequence of files where each comes after those it asks for.
Sucesion(d, c) ==
  /\ c \in Seq(Archivos)
  /\ \A i, j \in DOMAIN c : c[i] = c[j] => i = j
  /\ \A i \in DOMAIN c : \A x \in PedidosDe(d[c[i]]) : \E j \in DOMAIN c : j < i /\ c[j] = x

\* The order of what is reached is that of the sequence.
LEMMA SucesionOrdena ==
  ASSUME NEW d, NEW c, Sucesion(d, c), NEW i \in DOMAIN c, NEW j \in DOMAIN c,
         c[i] \in Alcanza(d, c[j])
  PROVE  i < j
<1> DEFINE S == {c[k] : k \in {l \in DOMAIN c : l < j}}
<1>1. DOMAIN c = 1 .. Len(c) /\ Len(c) \in Nat /\ \A k \in DOMAIN c : c[k] \in Archivos
  BY DEF Sucesion
<1>2. S \in SUBSET Archivos
  BY <1>1
<1>3. ASSUME NEW k \in DOMAIN c, k <= j, NEW x \in PedidosDe(d[c[k]]) PROVE x \in S
  <2>1. PICK l \in DOMAIN c : l < k /\ c[l] = x
    BY <1>3 DEF Sucesion
  <2>2. l < j
    BY <1>1, <1>3, <2>1
  <2>3. QED
    BY <2>1, <2>2
<1>4. PedidosDe(d[c[j]]) \subseteq S
  BY <1>1, <1>3
<1>5. CerradoEn(d, S)
  <2> SUFFICES ASSUME NEW k \in DOMAIN c, k < j PROVE PedidosDe(d[c[k]]) \subseteq S
    BY DEF CerradoEn
  <2>1. k <= j
    BY <1>1
  <2> HIDE DEF S
  <2>2. QED
    BY <1>3, <2>1
<1>6. c[i] \in S
  <2> HIDE DEF S
  <2>1. QED
    BY <1>2, <1>4, <1>5, AlcanzaMinimo
<1>7. PICK k \in DOMAIN c : k < j /\ c[i] = c[k]
  BY <1>6
<1>8. QED
  BY <1>7 DEF Sucesion

\* A sequence with everything the entry asks for is an order of what it needs.
LEMMA SucesionEsOrden ==
  ASSUME NEW d \in [Archivos -> Archivo], NEW c, Sucesion(d, c),
         \A i \in DOMAIN c : SeLee(d[c[i]]) /\ c[i] \in Necesita(d),
         \A x \in PedidosDe(d[Entrada]) : \E i \in DOMAIN c : c[i] = x
  PROVE  /\ \A m \in Necesita(d) : \E i \in DOMAIN c : c[i] = m
         /\ CompletoEn(d)
         /\ c \in OrdenesEn(d)
<1> DEFINE S == {c[i] : i \in DOMAIN c}
           N == Necesita(d)
<1>1. /\ DOMAIN c = 1 .. Len(c) /\ Len(c) \in Nat /\ \A k \in DOMAIN c : c[k] \in Archivos
      /\ c \in [1 .. Len(c) -> S]
  BY DEF Sucesion
<1>2. S \in SUBSET Archivos /\ PedidosDe(d[Entrada]) \subseteq S
  BY <1>1
<1>3. CerradoEn(d, S)
  <2> SUFFICES ASSUME NEW i \in DOMAIN c, NEW x \in PedidosDe(d[c[i]]) PROVE x \in S
    BY DEF CerradoEn
  <2>1. PICK j \in DOMAIN c : c[j] = x
    BY DEF Sucesion
  <2>2. QED
    BY <2>1
<1>4. N = S
  <2>1. S \subseteq N
    OBVIOUS
  <2> HIDE DEF S
  <2>2. N \subseteq S
    BY <1>2, <1>3, AlcanzaMinimo DEF Necesita
  <2>3. QED
    BY <2>1, <2>2
<1>5. \A m \in N : \E i \in DOMAIN c : c[i] = m
  BY <1>4
<1>6. CompletoEn(d)
  <2> SUFFICES ASSUME NEW i \in DOMAIN c PROVE SeLee(d[c[i]]) /\ c[i] \notin Alcanza(d, c[i])
    BY <1>5 DEF CompletoEn
  <2>1. ~ (i < i)
    BY <1>1
  <2>2. QED
    BY <2>1, SucesionOrdena
<1>7. Cardinality(N) = Len(c)
  <2>1. c \in Bijection(1 .. Len(c), S)
    BY <1>1 DEF Bijection, Injection, Surjection, IsInjective, Sucesion
  <2>2. IsFiniteSet(1 .. Len(c)) /\ Cardinality(1 .. Len(c)) = Len(c)
    <3> DEFINE n == Len(c)
    <3>1. n \in Int
      BY <1>1
    <3> HIDE DEF n
    <3>2. IsFiniteSet(1 .. n) /\ Cardinality(1 .. n) = IF 1 > n THEN 0 ELSE n - 1 + 1
      BY <3>1, FS_Interval
    <3>3. QED
      BY <1>1, <3>2 DEF n
  <2> HIDE DEF S
  <2>3. Cardinality(S) = Cardinality(1 .. Len(c))
    BY <2>1, <2>2, FS_Bijection DEF ExistsBijection
  <2>4. QED
    BY <1>4, <2>2, <2>3
<1>8. c \in OrdenesEn(d)
  <2>1. c \in [1 .. Cardinality(N) -> N]
    BY <1>1, <1>4, <1>7
  <2>2. \A i, j \in DOMAIN c : (c[i] = c[j] => i = j) /\ (c[i] \in Alcanza(d, c[j]) => i < j)
    BY SucesionOrdena DEF Sucesion
  <2>3. QED
    BY <2>1, <2>2 DEF OrdenesEn
<1>9. QED
  BY <1>5, <1>6, <1>8

-----------------------------------------------------------------------------
(* The program that comes of the modules in a sequence.                    *)

\* f goes through the modules of s up to the n-th.
EsMezcla(f, d, s, n) == f = [i \in 0 .. n |-> IF i = 0 THEN Propio(d) ELSE Fundido(f[i - 1], d, s[i])]

Mezcla(f, d, s, n) == f[0] = Propio(d) /\ \A i \in 1 .. n : f[i] = Fundido(f[i - 1], d, s[i])

\* The program after each of the modules, from the one before.
LEMMA MezclaSigue ==
  ASSUME NEW d, NEW s, NEW n \in Nat, NEW f, EsMezcla(f, d, s, n)
  PROVE  Mezcla(f, d, s, n)
<1> DEFINE A(i) == Fundido(f[i - 1], d, s[i])
<1>1. f = [i \in 0 .. n |-> IF i = 0 THEN Propio(d) ELSE A(i)]
  BY DEF EsMezcla
<1> HIDE DEF A
<1>2. f[0] = Propio(d) /\ \A i \in 1 .. n : f[i] = A(i)
  BY <1>1
<1>3. QED
  BY <1>2 DEF A, Mezcla

\* There is one such function.
LEMMA HayMezcla ==
  ASSUME NEW d, NEW s, NEW n \in Nat
  PROVE  \E f : EsMezcla(f, d, s, n)
<1> DEFINE P(m) == \E f : EsMezcla(f, d, s, m)
           T    == {m \in Nat : P(m)}
<1>1. 0 \in T
  <2>1. EsMezcla([i \in 0 .. 0 |-> Propio(d)], d, s, 0)
    BY DEF EsMezcla
  <2>2. QED
    BY <2>1
<1>2. ASSUME NEW m \in T PROVE m + 1 \in T
  <2>1. PICK f : EsMezcla(f, d, s, m)
    BY <1>2
  <2> DEFINE A(i) == Fundido(f[i - 1], d, s[i])
             g == [i \in 0 .. m + 1 |-> IF i = m + 1 THEN A(m + 1) ELSE f[i]]
             B(i) == Fundido(g[i - 1], d, s[i])
             h == [i \in 0 .. m + 1 |-> IF i = 0 THEN Propio(d) ELSE B(i)]
  <2>2. m \in Nat /\ f[0] = Propio(d) /\ \A i \in 1 .. m : f[i] = A(i)
    <3>1. m \in Nat
      OBVIOUS
    <3>2. Mezcla(f, d, s, m)
      BY <2>1, <3>1, MezclaSigue
    <3>3. QED
      BY <3>1, <3>2 DEF Mezcla
  <2>3. \A i \in 0 .. m : g[i] = f[i]
    <3> HIDE DEF A
    <3>1. QED
      BY <2>2
  <2>4. \A i \in 1 .. m + 1 : B(i) = A(i)
    <3> HIDE DEF g
    <3>1. \A i \in 1 .. m + 1 : i - 1 \in 0 .. m
      BY <2>2
    <3>2. QED
      BY <2>3, <3>1
  <2>5. \A i \in 0 .. m + 1 : g[i] = h[i]
    <3> HIDE DEF A, B
    <3>1. QED
      BY <2>2, <2>4
  <2>6. g = h
    <3> HIDE DEF A, B
    <3>1. QED
      BY <2>5
  <2>7. EsMezcla(g, d, s, m + 1)
    <3>1. h = [i \in 0 .. m + 1 |-> IF i = 0 THEN Propio(d) ELSE Fundido(g[i - 1], d, s[i])]
      OBVIOUS
    <3> HIDE DEF g, h
    <3>2. QED
      BY <2>6, <3>1 DEF EsMezcla
  <2>8. QED
    BY <2>2, <2>7
<1>3. T = Nat
  <2> HIDE DEF P
  <2>1. T \in SUBSET Nat
    OBVIOUS
  <2> HIDE DEF T
  <2>2. QED
    BY <1>1, <1>2, <2>1, InduccionNatural
<1>4. QED
  BY <1>3

\* Two sequences that begin alike come to the same program that far.
LEMMA MezclaIgual ==
  ASSUME NEW d, NEW s, NEW t, NEW n \in Nat, NEW k \in Nat, n <= k,
         NEW f, EsMezcla(f, d, s, n), NEW g, EsMezcla(g, d, t, k),
         \A i \in 1 .. n : s[i] = t[i]
  PROVE  f[n] = g[n]
<1> DEFINE T == {m \in Nat : m <= n => f[m] = g[m]}
<1> HIDE DEF T
<1>1. f[0] = Propio(d) /\ \A i \in 1 .. n : f[i] = Fundido(f[i - 1], d, s[i])
  <2>1. Mezcla(f, d, s, n)
    BY MezclaSigue
  <2>2. QED
    BY <2>1 DEF Mezcla
<1>2. g[0] = Propio(d) /\ \A i \in 1 .. k : g[i] = Fundido(g[i - 1], d, t[i])
  <2>1. Mezcla(g, d, t, k)
    BY MezclaSigue
  <2>2. QED
    BY <2>1 DEF Mezcla
<1> USE DEF T
<1>3. 0 \in T
  BY <1>1, <1>2
<1>4. ASSUME NEW m \in T PROVE m + 1 \in T
  <2> SUFFICES ASSUME m + 1 <= n PROVE f[m + 1] = g[m + 1]
    OBVIOUS
  <2> DEFINE i == m + 1
  <2>1. i \in 1 .. n /\ i \in 1 .. k /\ i - 1 = m
    OBVIOUS
  <2>2. f[m] = g[m]
    OBVIOUS
  <2> HIDE DEF i
  <2>3. f[i] = g[i]
    BY <1>1, <1>2, <2>1, <2>2
  <2>4. QED
    BY <2>3 DEF i
<1>5. T \in SUBSET Nat
  OBVIOUS
<1>6. n \in T
  <2> HIDE DEF T
  <2>1. QED
    BY <1>3, <1>4, <1>5, InduccionNatural
<1>7. QED
  BY <1>6

\* The program of a sequence is the last value of one.
LEMMA ProgramaEsMezcla ==
  ASSUME NEW d, NEW s, Len(s) \in Nat
  PROVE  \E f : EsMezcla(f, d, s, Len(s)) /\ ProgramaEn(d, s) = f[Len(s)]
<1> DEFINE n == Len(s)
           f == CHOOSE f : EsMezcla(f, d, s, n)
<1>1. EsMezcla(f, d, s, n)
  BY HayMezcla
<1>2. ProgramaEn(d, s) = f[n]
  BY DEF ProgramaEn, EsMezcla
<1>3. QED
  BY <1>1, <1>2

\* With no modules, the program is the entry.
LEMMA ProgramaVacio ==
  ASSUME NEW d
  PROVE  ProgramaEn(d, <<>>) = Propio(d)
<1>1. Len(<<>>) = 0
  OBVIOUS
<1>2. PICK f : EsMezcla(f, d, <<>>, 0) /\ ProgramaEn(d, <<>>) = f[0]
  BY <1>1, ProgramaEsMezcla
<1>3. Mezcla(f, d, <<>>, 0)
  BY <1>2, MezclaSigue
<1>4. QED
  BY <1>2, <1>3 DEF Mezcla

\* One module more is one merge more.
LEMMA ProgramaSigue ==
  ASSUME NEW d, NEW c \in Seq(Archivos), NEW m \in Archivos
  PROVE  ProgramaEn(d, Append(c, m)) = Fundido(ProgramaEn(d, c), d, m)
<1> DEFINE n == Len(c)
           e == Append(c, m)
<1>1. n \in Nat /\ Len(e) = n + 1 /\ e[n + 1] = m /\ \A i \in 1 .. n : c[i] = e[i]
  OBVIOUS
<1> HIDE DEF e, n
<1>2. PICK f : EsMezcla(f, d, c, n) /\ ProgramaEn(d, c) = f[n]
  BY <1>1, ProgramaEsMezcla DEF n
<1>3. PICK g : EsMezcla(g, d, e, n + 1) /\ ProgramaEn(d, e) = g[n + 1]
  BY <1>1, ProgramaEsMezcla
<1>4. f[n] = g[n]
  BY <1>1, <1>2, <1>3, MezclaIgual
<1>5. g[n + 1] = Fundido(g[(n + 1) - 1], d, e[n + 1])
  <2>1. n + 1 \in Nat /\ n + 1 \in 1 .. n + 1
    BY <1>1
  <2>2. Mezcla(g, d, e, n + 1)
    BY <1>3, <2>1, MezclaSigue
  <2>3. QED
    BY <2>1, <2>2 DEF Mezcla
<1>6. (n + 1) - 1 = n
  BY <1>1
<1>7. QED
  BY <1>1, <1>2, <1>3, <1>4, <1>5, <1>6 DEF e

-----------------------------------------------------------------------------
(* What the loader keeps of the promise, besides IInv.                     *)

Defecto(d) == ~ CompletoEn(d) \/ \E m \in Necesita(d) : ValidasEn(d, m) # ListasEn(d, m)

\* The modules being read are needed and asked for so, the piece of each but the last asks
\* for the next, and an error counted is one of the program.
Pedidas(d, p) ==
  \A i \in 2 .. Len(p) :
    SeLee(d[p[i].modulo]) /\ p[i].modulo \in Necesita(d) /\ p[i].nombres \in ListasEn(d, p[i].modulo)
EnUsos(d, p) == \A i \in 1 .. Len(p) - 1 : p[i].pieza \in Usos(d[p[i].modulo])
Fallos(d, p) == \A i \in 1 .. Len(p) : p[i].errores > 0 => Defecto(d)
PilaFiel(d, p) == Pedidas(d, p) /\ EnUsos(d, p) /\ Fallos(d, p)

Sanos(d, c) == \A j \in DOMAIN c : SeLee(d[c[j]]) /\ c[j] \in Necesita(d) /\ ValidasEn(d, c[j]) # {}

Mezclados ==
  /\ fase = "lee" => cargados = <<>>
  /\ fase \notin {"lee", "rechazado"} => EntradaSeLee(disco) /\ programa = ProgramaEn(disco, cargados)

Comprobado ==
  /\ fase \in {"retornos", "tipos", "genera", "aceptado"} => Permitido(programa)
  /\ fase \in {"tipos", "genera", "aceptado"} => Retorna(programa)
  /\ fase \in {"genera", "aceptado"} => SeResuelve(programa)

Cumple == PilaFiel(disco, pila) /\ Sanos(disco, cargados) /\ Mezclados /\ Comprobado

\* The next piece of the frame on top.
LEMMA AdelantaFiel ==
  ASSUME NEW d, NEW p \in Seq(Marco), p # <<>>, NEW e \in Nat,
         PilaFiel(d, p), e > 0 => Defecto(d)
  PROVE  PilaFiel(d, Adelanta(p, e))
<1> DEFINE q == Adelanta(p, e)
           n == Len(p)
<1>1. /\ q \in Seq(Marco) /\ Len(q) = n /\ n \in Nat \ {0} /\ DOMAIN p = 1 .. n
      /\ \A i \in 1 .. n : q[i].modulo = p[i].modulo /\ q[i].nombres = p[i].nombres
      /\ \A i \in 1 .. n : i # n => q[i] = p[i]
      /\ q[n].errores = p[n].errores + e
  BY Adelantada
<1>2. p[n] \in Marco /\ p[n].errores \in Nat
  <2>1. n \in 1 .. n
    BY <1>1
  <2>2. p[n] \in Marco
    BY <1>1, <2>1, ElementOfSeq
  <2>3. QED
    BY <2>2 DEF Marco
<1> HIDE DEF q
<1>3. Pedidas(d, q)
  <2>1. \A i \in 2 .. n : i \in 1 .. n
    BY <1>1
  <2>2. Pedidas(d, p) /\ n = Len(p)
    BY DEF PilaFiel
  <2> HIDE DEF n
  <2>3. QED
    BY <1>1, <2>1, <2>2 DEF Pedidas
<1>4. EnUsos(d, q)
  <2>1. \A i \in 1 .. n - 1 : i \in 1 .. n /\ i # n
    BY <1>1
  <2>2. EnUsos(d, p) /\ n = Len(p)
    BY DEF PilaFiel
  <2> HIDE DEF n
  <2>3. QED
    BY <1>1, <2>1, <2>2 DEF EnUsos
<1>5. Fallos(d, q)
  <2>1. Fallos(d, p) /\ n = Len(p)
    BY DEF PilaFiel
  <2> HIDE DEF n
  <2> SUFFICES ASSUME NEW i \in 1 .. n, q[i].errores > 0 PROVE Defecto(d)
    BY <1>1 DEF Fallos
  <2>2. CASE i # n
    BY <1>1, <2>1, <2>2 DEF Fallos
  <2>3. CASE i = n
    <3>1. p[n].errores > 0 \/ e > 0
      BY <1>1, <1>2, <2>3
    <3>2. n \in 1 .. n
      BY <1>1
    <3>3. QED
      BY <2>1, <3>1, <3>2 DEF Fallos
  <2>4. QED
    BY <2>2, <2>3
<1>6. QED
  BY <1>3, <1>4, <1>5 DEF PilaFiel, q

\* One frame less.
LEMMA QuitaFiel ==
  ASSUME NEW d, NEW p \in Seq(Marco), Len(p) > 1, PilaFiel(d, p)
  PROVE  PilaFiel(d, SubSeq(p, 1, Len(p) - 1))
<1> DEFINE n == Len(p)
           q == SubSeq(p, 1, n - 1)
<1>1. n \in Nat /\ Len(q) = n - 1 /\ \A i \in 1 .. n - 1 : q[i] = p[i]
  BY Quitada
<1>2. Pedidas(d, p) /\ EnUsos(d, p) /\ Fallos(d, p) /\ n = Len(p)
  BY DEF PilaFiel
<1> HIDE DEF n, q
<1>3. /\ \A i \in 2 .. n - 1 : i \in 2 .. n /\ i \in 1 .. n - 1
      /\ \A i \in 1 .. n - 1 : i \in 1 .. n
      /\ \A i \in 1 .. (n - 1) - 1 : i \in 1 .. n - 1
  BY <1>1
<1>4. Pedidas(d, q)
  BY <1>1, <1>2, <1>3 DEF Pedidas
<1>5. EnUsos(d, q)
  BY <1>1, <1>2, <1>3 DEF EnUsos
<1>6. Fallos(d, q)
  BY <1>1, <1>2, <1>3 DEF Fallos
<1>7. QED
  BY <1>4, <1>5, <1>6 DEF PilaFiel, n, q

\* What is asked for is needed, and with one of its lists.
LEMMA PedidoNecesario ==
  ASSUME IInv, Cumple, EnUsar
  PROVE  /\ Cima.pieza \in Usos(Actual)
         /\ Pedido \in PedidosDe(Actual) /\ Pedido \in Archivos
         /\ Pedido \in Necesita(disco)
         /\ Actual.piezas[Cima.pieza].nombres \in ListasEn(disco, Pedido)
<1> DEFINE n == Len(pila)
           m == Cima.modulo
           k == Cima.pieza
<1>1. /\ TypeOK /\ fase = "modulos" /\ n \in Nat \ {0} /\ Cima = pila[n]
      /\ Cima \in Marco /\ Actual \in Archivo /\ k \in Nat \ {0} /\ pila[1].modulo = Entrada
      /\ disco \in [Archivos -> Archivo] /\ Actual = disco[m] /\ m \in Archivos
  BY CimaTipada DEF IInv, TypeOK, EnUsar, EnPieza, Cima, Actual, Marco
<1>2. k \in Usos(Actual)
  BY <1>1 DEF EnUsar, EnPieza, Usos, Leidas, Archivo
<1>3. Pedido = Actual.piezas[k].de
  BY DEF Pedido
<1> HIDE DEF n, m, k
<1>4. Pedido \in PedidosDe(Actual)
  BY <1>2, <1>3 DEF PedidosDe
<1>5. Pedido \in Archivos
  BY <1>1, <1>4, PideArchivos
<1>6. m = Entrada \/ (SeLee(disco[m]) /\ m \in Necesita(disco))
  <2>1. CASE n = 1
    BY <1>1, <2>1 DEF m
  <2>2. CASE n # 1
    <3>1. n \in 2 .. n
      BY <1>1, <2>2
    <3>2. Pedidas(disco, pila)
      BY DEF Cumple, PilaFiel
    <3>3. QED
      BY <1>1, <3>1, <3>2 DEF Pedidas, m, n
  <2>3. QED
    BY <2>1, <2>2
<1>7. Pedido \in Necesita(disco)
  <2>1. CASE m = Entrada
    <3>1. PedidosDe(disco[Entrada]) \subseteq Alcanza(disco, Entrada)
      BY <1>1, AlcanzaPide
    <3>2. QED
      BY <1>1, <1>4, <2>1, <3>1 DEF Necesita
  <2>2. CASE SeLee(disco[m]) /\ m \in Necesita(disco)
    <3>1. PedidosDe(disco[m]) \subseteq Alcanza(disco, Entrada)
      BY <1>1, <2>2, AlcanzaSigue DEF Necesita
    <3>2. QED
      BY <1>1, <1>4, <3>1 DEF Necesita
  <2>3. QED
    BY <1>6, <2>1, <2>2
<1>8. Actual.piezas[k].nombres \in ListasEn(disco, Pedido)
  <2>1. m \in {Entrada} \cup Necesita(disco)
    BY <1>6
  <2>2. k \in {j \in Usos(disco[m]) : disco[m].piezas[j].de = Pedido}
    BY <1>1, <1>2, <1>3
  <2>3. QED
    BY <1>1, <2>1, <2>2 DEF ListasEn
<1>9. QED
  BY <1>2, <1>4, <1>5, <1>7, <1>8 DEF k

\* An error of a `usar` is a defect of the program.
LEMMA FallaElUsar ==
  ASSUME IInv, Cumple, EnUsar, EnPila(Pedido) \/ ~ SeLee(disco[Pedido])
  PROVE  Defecto(disco)
<1>1. Pedido \in PedidosDe(Actual) /\ Pedido \in Necesita(disco)
  BY PedidoNecesario
<1>2. CASE ~ SeLee(disco[Pedido])
  BY <1>1, <1>2 DEF Defecto, CompletoEn
<1>3. CASE EnPila(Pedido)
  <2> DEFINE n == Len(pila)
             p == [i \in 1 .. n |-> pila[i].modulo]
  <2>1. /\ TypeOK /\ n \in Nat \ {0} /\ Actual = disco[p[n]] /\ pila \in Seq(Marco)
        /\ disco \in [Archivos -> Archivo] /\ DOMAIN pila = 1 .. n
    BY CimaTipada DEF IInv, TypeOK, EnUsar, EnPieza, Cima, Actual
  <2>2. PICK j \in 2 .. n : pila[j].modulo = Pedido
    BY <1>3 DEF EnPila
  <2>3. j \in 1 .. n /\ p[j] = Pedido
    BY <2>1, <2>2
  <2>4. \A i \in 1 .. n : p[i] \in Archivos
    <3>1. \A i \in 1 .. n : pila[i] \in Marco
      BY <2>1, ElementOfSeq
    <3>2. QED
      BY <3>1 DEF Marco
  <2>5. \A i \in 2 .. n : SeLee(disco[p[i]])
    <3>1. Pedidas(disco, pila)
      BY DEF Cumple, PilaFiel
    <3>2. \A i \in 2 .. n : i \in 1 .. n
      BY <2>1
    <3>3. QED
      BY <3>1, <3>2 DEF Pedidas
  <2>6. \A i \in 1 .. n - 1 : p[i + 1] \in PedidosDe(disco[p[i]])
    <3> SUFFICES ASSUME NEW i \in 1 .. n - 1 PROVE p[i + 1] \in PedidosDe(disco[p[i]])
      OBVIOUS
    <3>1. i \in 1 .. n /\ i + 1 \in 1 .. n
      BY <2>1
    <3>2. pila[i].pieza \in Usos(disco[pila[i].modulo])
      BY DEF Cumple, PilaFiel, EnUsos
    <3>3. disco[pila[i].modulo].piezas[pila[i].pieza].de = pila[i + 1].modulo
      BY DEF IInv, OrdenDeCarga, Encadenados
    <3>4. QED
      BY <3>1, <3>2, <3>3 DEF PedidosDe
  <2> HIDE DEF p, n
  <2>7. Pedido \in Alcanza(disco, p[j])
    BY <1>1, <2>1, <2>3, <2>4, <2>5, <2>6, AlcanzaPorCadena
  <2>8. QED
    BY <1>1, <2>3, <2>7 DEF Defecto, CompletoEn
<1>4. QED
  BY <1>2, <1>3

\* Another piece of the same file.
LEMMA SigueCumple ==
  ASSUME IInv, Cumple, EnPieza, NEW e \in Nat, Sigue(e), e > 0 => Defecto(disco)
  PROVE  Cumple'
<1>1. pila \in Seq(Marco) /\ pila # <<>>
  BY DEF IInv, TypeOK, EnPieza
<1>2. PilaFiel(disco, pila) /\ Sanos(disco, cargados) /\ Mezclados /\ Comprobado
  BY DEF Cumple
<1>3. PilaFiel(disco, Adelanta(pila, e))
  BY <1>1, <1>2, AdelantaFiel
<1>4. pila' = Adelanta(pila, e) /\ disco' = disco /\ fase' = fase /\ cargados' = cargados /\ programa' = programa
  BY DEF Sigue
<1>5. PilaFiel(disco', pila') /\ Sanos(disco', cargados')
  BY <1>2, <1>3, <1>4
<1>6. Mezclados' /\ Comprobado'
  BY <1>2, <1>4 DEF Mezclados, Comprobado
<1>7. QED
  BY <1>5, <1>6 DEF Cumple

\* Going into a module that is needed.
LEMMA EntraCumple ==
  ASSUME IInv, Cumple, Entra
  PROVE  Cumple'
<1> DEFINE n == Len(pila)
           f == [modulo |-> Pedido, pieza |-> 1, errores |-> 0,
                 nombres |-> Actual.piezas[Cima.pieza].nombres]
<1>1. /\ EnUsar /\ SeLee(disco[Pedido]) /\ pila' = Append(pila, f)
      /\ disco' = disco /\ fase' = fase /\ cargados' = cargados /\ programa' = programa
  BY DEF Entra
<1>2. /\ pila \in Seq(Marco) /\ n \in Nat \ {0} /\ Cima = pila[n] /\ Actual = disco[pila[n].modulo]
  BY DEF IInv, TypeOK, Entra, EnUsar, EnPieza, Cima, Actual
<1>3. /\ f.modulo = Pedido /\ f.errores = 0
      /\ f.nombres = Actual.piezas[Cima.pieza].nombres
  OBVIOUS
<1>4. /\ Cima.pieza \in Usos(Actual) /\ Pedido \in Necesita(disco)
      /\ f.nombres \in ListasEn(disco, Pedido)
  BY <1>1, <1>3, PedidoNecesario
<1> HIDE DEF f
<1>5. /\ Len(pila') = n + 1 /\ pila'[n + 1] = f
      /\ \A i \in 1 .. n : pila'[i] = pila[i]
  BY <1>1, <1>2
<1>6. PilaFiel(disco, pila) /\ Sanos(disco, cargados) /\ Mezclados /\ Comprobado /\ n = Len(pila)
  BY DEF Cumple
<1> HIDE DEF n
<1>7. Pedidas(disco, pila')
  <2> SUFFICES ASSUME NEW i \in 2 .. n + 1
               PROVE  /\ SeLee(disco[pila'[i].modulo]) /\ pila'[i].modulo \in Necesita(disco)
                      /\ pila'[i].nombres \in ListasEn(disco, pila'[i].modulo)
    BY <1>5 DEF Pedidas
  <2>1. CASE i = n + 1
    BY <1>1, <1>3, <1>4, <1>5, <2>1
  <2>2. CASE i # n + 1
    <3>1. i \in 2 .. n /\ i \in 1 .. n
      BY <1>2, <2>2
    <3>2. QED
      BY <1>5, <1>6, <3>1 DEF PilaFiel, Pedidas
  <2>3. QED
    BY <2>1, <2>2
<1>8. EnUsos(disco, pila')
  <2> SUFFICES ASSUME NEW i \in 1 .. n PROVE pila'[i].pieza \in Usos(disco[pila'[i].modulo])
    BY <1>2, <1>5 DEF EnUsos
  <2>1. CASE i = n
    BY <1>2, <1>4, <1>5, <2>1
  <2>2. CASE i # n
    <3>1. i \in 1 .. n - 1
      BY <1>2, <2>2
    <3>2. QED
      BY <1>5, <1>6, <3>1 DEF PilaFiel, EnUsos
  <2>3. QED
    BY <2>1, <2>2
<1>9. Fallos(disco, pila')
  <2> SUFFICES ASSUME NEW i \in 1 .. n + 1, pila'[i].errores > 0 PROVE Defecto(disco)
    BY <1>5 DEF Fallos
  <2>1. i # n + 1
    BY <1>3, <1>5
  <2>2. i \in 1 .. n
    BY <1>2, <2>1
  <2>3. QED
    BY <1>5, <1>6, <2>2 DEF PilaFiel, Fallos
<1>10. PilaFiel(disco', pila') /\ Sanos(disco', cargados')
  BY <1>1, <1>6, <1>7, <1>8, <1>9 DEF PilaFiel
<1>11. Mezclados' /\ Comprobado'
  BY <1>1, <1>6 DEF Mezclados, Comprobado
<1>12. QED
  BY <1>10, <1>11 DEF Cumple

\* Coming back to the caller with the errors of the module.
LEMMA VuelveFiel ==
  ASSUME IInv, Cumple, AlFinal, Len(pila) > 1, NEW e \in Nat, Vuelve(e), e > 0 => Defecto(disco)
  PROVE  PilaFiel(disco, pila')
<1> DEFINE q == SubSeq(pila, 1, Len(pila) - 1)
<1>1. pila \in Seq(Marco)
  BY DEF IInv, TypeOK
<1>2. PilaFiel(disco, q)
  BY <1>1, QuitaFiel DEF Cumple
<1>3. q \in Seq(Marco) /\ q # <<>>
  BY <1>1, Quitada
<1>4. pila' = Adelanta(q, e)
  BY DEF Vuelve
<1> HIDE DEF q
<1>5. QED
  BY <1>2, <1>3, <1>4, AdelantaFiel

\* The module at its end was asked for with a list.
LEMMA CimaPedida ==
  ASSUME IInv, Cumple, AlFinal, Len(pila) > 1
  PROVE  /\ Cima.errores \in Nat /\ Cima.modulo \in Archivos /\ Actual = disco[Cima.modulo]
         /\ Cima.errores > 0 => Defecto(disco)
         /\ SeLee(Actual) /\ Cima.modulo \in Necesita(disco)
         /\ Cima.nombres \in ListasEn(disco, Cima.modulo)
<1> DEFINE n == Len(pila)
<1>1. Cima = pila[n] /\ n \in Nat /\ n > 1 /\ n = Len(pila)
  BY DEF IInv, TypeOK, Cima
<1>2. Cima.errores \in Nat /\ Cima.modulo \in Archivos /\ Actual = disco[Cima.modulo]
  BY CimaTipada DEF IInv, AlFinal, Marco, Actual
<1> HIDE DEF n
<1>3. n \in 2 .. n /\ n \in 1 .. n
  BY <1>1
<1>4. Pedidas(disco, pila) /\ Fallos(disco, pila)
  BY DEF Cumple, PilaFiel
<1>5. Cima.errores > 0 => Defecto(disco)
  BY <1>1, <1>3, <1>4 DEF Fallos
<1>6. QED
  BY <1>1, <1>2, <1>3, <1>4, <1>5 DEF Pedidas

\* A module with errors, or asked for with a bad list, is a defect.
LEMMA DescartaCumple ==
  ASSUME IInv, Cumple, Descarta
  PROVE  Cumple'
<1>1. /\ AlFinal /\ Len(pila) > 1 /\ Errores > 0 /\ Vuelve(Errores)
      /\ disco' = disco /\ fase' = fase /\ cargados' = cargados /\ programa' = programa
  BY DEF Descarta
<1>2. /\ Cima.errores \in Nat /\ Actual = disco[Cima.modulo]
      /\ Cima.errores > 0 => Defecto(disco)
      /\ Cima.modulo \in Necesita(disco) /\ Cima.nombres \in ListasEn(disco, Cima.modulo)
  BY <1>1, CimaPedida
<1>3. Errores \in Nat
  BY <1>2 DEF Errores
<1>4. Defecto(disco)
  <2>1. CASE Cima.errores > 0
    BY <1>2, <2>1
  <2>2. CASE ~ (Cima.errores > 0)
    <3>1. ~ ListaValida(disco[Cima.modulo], Cima.nombres)
      BY <1>1, <1>2, <2>2 DEF Errores
    <3>2. Cima.nombres \notin ValidasEn(disco, Cima.modulo)
      BY <3>1 DEF ValidasEn
    <3>3. QED
      BY <1>2, <3>2 DEF Defecto
  <2>3. QED
    BY <2>1, <2>2
<1>5. PilaFiel(disco, pila')
  BY <1>1, <1>3, <1>4, VuelveFiel
<1>6. Sanos(disco, cargados) /\ Mezclados /\ Comprobado
  BY DEF Cumple
<1>7. Mezclados' /\ Comprobado'
  BY <1>1, <1>6 DEF Mezclados, Comprobado
<1>8. QED
  BY <1>1, <1>5, <1>6, <1>7 DEF Cumple

\* The program stays what comes of the modules loaded.
LEMMA FundeCumple ==
  ASSUME IInv, Cumple, Funde
  PROVE  Cumple'
<1> DEFINE m == Cima.modulo
           c == Len(cargados)
<1>1. /\ AlFinal /\ Len(pila) > 1 /\ Errores = 0 /\ Vuelve(0) /\ fase = "modulos"
      /\ disco' = disco /\ fase' = fase /\ cargados' = Append(cargados, m)
      /\ programa' = Fundido(programa, disco, m)
  BY DEF Funde, AlFinal
<1>2. /\ Cima.errores \in Nat /\ m \in Archivos /\ Actual = disco[m] /\ SeLee(disco[m])
      /\ m \in Necesita(disco) /\ Cima.nombres \in ListasEn(disco, m)
  BY <1>1, CimaPedida
<1>3. PilaFiel(disco, pila')
  BY <1>1, VuelveFiel
<1>4. ListaValida(disco[m], Cima.nombres)
  BY <1>1, <1>2 DEF Errores
<1>5. ValidasEn(disco, m) # {}
  BY <1>2, <1>4 DEF ValidasEn
<1>6. Sanos(disco, cargados) /\ Mezclados /\ cargados \in Seq(Archivos) /\ c \in Nat
  BY DEF Cumple, IInv, TypeOK
<1> HIDE DEF m
<1>7. /\ DOMAIN cargados' = 1 .. c + 1 /\ cargados'[c + 1] = m
      /\ \A j \in 1 .. c : cargados'[j] = cargados[j] /\ j \in DOMAIN cargados
  BY <1>1, <1>2, <1>6
<1> HIDE DEF c
<1>8. Sanos(disco, cargados')
  <2> SUFFICES ASSUME NEW j \in 1 .. c + 1
               PROVE  /\ SeLee(disco[cargados'[j]]) /\ cargados'[j] \in Necesita(disco)
                      /\ ValidasEn(disco, cargados'[j]) # {}
    BY <1>7 DEF Sanos
  <2>1. CASE j = c + 1
    BY <1>2, <1>5, <1>7, <2>1
  <2>2. CASE j # c + 1
    <3>1. j \in 1 .. c
      BY <1>6, <2>2
    <3>2. QED
      BY <1>6, <1>7, <3>1 DEF Sanos
  <2>3. QED
    BY <2>1, <2>2
<1>9. Mezclados'
  <2>1. EntradaSeLee(disco) /\ programa = ProgramaEn(disco, cargados)
    BY <1>1, <1>6 DEF Mezclados
  <2>2. ProgramaEn(disco, cargados') = Fundido(ProgramaEn(disco, cargados), disco, m)
    BY <1>1, <1>2, <1>6, ProgramaSigue
  <2>3. QED
    BY <1>1, <2>1, <2>2 DEF Mezclados
<1>10. Comprobado'
  BY <1>1 DEF Comprobado
<1>11. QED
  BY <1>1, <1>3, <1>8, <1>9, <1>10 DEF Cumple

\* With no frame left, only what was merged counts.
LEMMA SinPila ==
  ASSUME NEW d
  PROVE  PilaFiel(d, <<>>)
<1>1. Len(<<>>) = 0
  OBVIOUS
<1>2. QED
  BY <1>1 DEF PilaFiel, Pedidas, EnUsos, Fallos

\* The entry starts with its own definitions.
LEMMA LeeEntradaCumple ==
  ASSUME IInv, Cumple, LeeEntrada
  PROVE  Cumple'
<1> DEFINE f == [modulo |-> Entrada, pieza |-> 1, errores |-> 0, nombres |-> {}]
<1>1. /\ fase = "lee" /\ fase' = "modulos" /\ EntradaSeLee(disco) /\ programa' = Propio(disco)
      /\ pila' = <<f>> /\ disco' = disco /\ cargados' = cargados
  BY DEF LeeEntrada
<1>2. f.errores = 0
  OBVIOUS
<1> HIDE DEF f
<1>3. Len(pila') = 1 /\ pila'[1] = f
  BY <1>1
<1>4. PilaFiel(disco, pila')
  BY <1>2, <1>3 DEF PilaFiel, Pedidas, EnUsos, Fallos
<1>5. cargados = <<>> /\ Sanos(disco, cargados)
  BY <1>1 DEF Cumple, Mezclados
<1>6. programa' = ProgramaEn(disco, cargados)
  BY <1>1, <1>5, ProgramaVacio
<1>7. Mezclados' /\ Comprobado'
  BY <1>1, <1>6 DEF Mezclados, Comprobado
<1>8. QED
  BY <1>1, <1>4, <1>5, <1>7 DEF Cumple

\* The end of the loader.
LEMMA RegistradosCumple ==
  ASSUME IInv, Cumple, Registrados
  PROVE  Cumple'
<1>1. /\ fase = "modulos" /\ fase' \in {"rechazado", "reservadas"} /\ pila' = <<>>
      /\ disco' = disco /\ cargados' = cargados /\ programa' = programa
  BY DEF Registrados, AlFinal
<1>2. PilaFiel(disco', pila') /\ Sanos(disco', cargados')
  BY <1>1, SinPila DEF Cumple
<1>3. Mezclados' /\ Comprobado'
  BY <1>1 DEF Cumple, Mezclados, Comprobado
<1>4. QED
  BY <1>2, <1>3 DEF Cumple

\* Each check that says yes is kept.
LEMMA CompruebaCumple ==
  ASSUME Cumple, UNCHANGED <<disco, pila, cargados, programa>>,
         \/ fase' = "rechazado"
         \/ fase = "reservadas" /\ fase' = "retornos" /\ Permitido(programa)
         \/ fase = "retornos" /\ fase' = "tipos" /\ Retorna(programa)
         \/ fase = "tipos" /\ fase' = "genera" /\ SeResuelve(programa)
         \/ fase = "genera" /\ fase' = "aceptado"
  PROVE  Cumple'
<1>1. /\ PilaFiel(disco, pila) /\ Sanos(disco, cargados) /\ Mezclados /\ Comprobado
      /\ disco' = disco /\ pila' = pila /\ cargados' = cargados /\ programa' = programa
  BY DEF Cumple
<1>2. Mezclados'
  BY <1>1 DEF Mezclados
<1>3. Comprobado'
  BY <1>1 DEF Comprobado
<1>4. QED
  BY <1>1, <1>2, <1>3 DEF Cumple

\* It is inductive.
LEMMA PasoCumple ==
  ASSUME IInv, Cumple, [Next]_vars
  PROVE  Cumple'
<1>1. CASE LeeEntrada
  BY <1>1, LeeEntradaCumple
<1>2. CASE EntradaNoSeLee
  BY <1>2, CompruebaCumple DEF EntradaNoSeLee
<1>3. CASE OtraPieza
  BY <1>3, SigueCumple DEF OtraPieza
<1>4. CASE YaCargado
  BY <1>4, SigueCumple DEF YaCargado, EnUsar
<1>5. CASE Ciclo
  <2>1. EnUsar /\ EnPieza /\ Sigue(1) /\ EnPila(Pedido)
    BY <1>5 DEF Ciclo, EnUsar
  <2>2. Defecto(disco)
    BY <2>1, FallaElUsar
  <2>3. QED
    BY <2>1, <2>2, SigueCumple
<1>6. CASE NoSeAbre \/ NoSeAnaliza
  <2>1. EnUsar /\ EnPieza /\ Sigue(1) /\ ~ SeLee(disco[Pedido])
    BY <1>6 DEF NoSeAbre, NoSeAnaliza, EnUsar, SeLee
  <2>2. Defecto(disco)
    BY <2>1, FallaElUsar
  <2>3. QED
    BY <2>1, <2>2, SigueCumple
<1>7. CASE Entra
  BY <1>7, EntraCumple
<1>8. CASE Descarta
  BY <1>8, DescartaCumple
<1>9. CASE Funde
  BY <1>9, FundeCumple
<1>10. CASE Registrados
  BY <1>10, RegistradosCumple
<1>11. CASE Reservadas
  BY <1>11, CompruebaCumple DEF Reservadas, Comprueba
<1>12. CASE Retornos
  BY <1>12, CompruebaCumple DEF Retornos, Comprueba
<1>13. CASE Tipos
  BY <1>13, CompruebaCumple DEF Tipos, Comprueba
<1>14. CASE Genera
  BY <1>14, CompruebaCumple DEF Genera, Comprueba
<1>15. CASE UNCHANGED vars
  <2>1. /\ PilaFiel(disco, pila) /\ Sanos(disco, cargados) /\ Mezclados /\ Comprobado
        /\ disco' = disco /\ pila' = pila /\ cargados' = cargados /\ programa' = programa /\ fase' = fase
    BY <1>15 DEF Cumple, vars
  <2>2. Mezclados' /\ Comprobado'
    BY <2>1 DEF Mezclados, Comprobado
  <2>3. QED
    BY <2>1, <2>2 DEF Cumple
<1>16. QED
  BY <1>1, <1>2, <1>3, <1>4, <1>5, <1>6, <1>7, <1>8, <1>9, <1>10, <1>11, <1>12, <1>13, <1>14, <1>15
     DEF Next, Paso, Terminado

\* And it holds at the start.
LEMMA InicialCumple ==
  ASSUME Init
  PROVE  Cumple
<1>1. disco \in Discos /\ fase = "lee" /\ pila = <<>> /\ cargados = <<>>
  BY DEF Init
<1>2. PilaFiel(disco, pila)
  BY <1>1, SinPila
<1>3. Sanos(disco, cargados) /\ Mezclados /\ Comprobado
  BY <1>1 DEF Sanos, Mezclados, Comprobado
<1>4. QED
  BY <1>2, <1>3 DEF Cumple

\* Past the loader, what was merged is an order of all that the program needs.
LEMMA CargadosEsOrden ==
  ASSUME IInv, Cumple, fase \in {"reservadas", "retornos", "tipos", "genera"}
  PROVE  /\ CompletoEn(disco) /\ cargados \in OrdenesEn(disco)
         /\ \A m \in Necesita(disco) : ValidasEn(disco, m) # {}
<1>1. /\ disco \in [Archivos -> Archivo] /\ cargados \in Seq(Archivos)
      /\ SinRepetir /\ DespuesDeLosSuyos /\ TodosCargados /\ Sanos(disco, cargados)
  BY DEF IInv, TypeOK, OrdenDeCarga, Cumple
<1>2. Sucesion(disco, cargados)
  <2>1. \A i, j \in DOMAIN cargados : cargados[i] = cargados[j] => i = j
    BY <1>1 DEF SinRepetir
  <2>2. \A i \in DOMAIN cargados : \A x \in PedidosDe(disco[cargados[i]]) :
          \E j \in DOMAIN cargados : j < i /\ cargados[j] = x
    BY <1>1 DEF DespuesDeLosSuyos, Precede, PedidosDe
  <2>3. QED
    BY <1>1, <2>1, <2>2 DEF Sucesion
<1>3. \A i \in DOMAIN cargados :
        /\ SeLee(disco[cargados[i]]) /\ cargados[i] \in Necesita(disco)
        /\ ValidasEn(disco, cargados[i]) # {}
  BY <1>1 DEF Sanos
<1>4. \A x \in PedidosDe(disco[Entrada]) : \E i \in DOMAIN cargados : cargados[i] = x
  BY <1>1 DEF TodosCargados, Cargado, PedidosDe
<1>5. /\ \A m \in Necesita(disco) : \E i \in DOMAIN cargados : cargados[i] = m
      /\ CompletoEn(disco) /\ cargados \in OrdenesEn(disco)
  BY <1>1, <1>2, <1>3, <1>4, SucesionEsOrden
<1>6. QED
  BY <1>3, <1>5

-----------------------------------------------------------------------------
(* Each step is a verdict of the promise, or none.                         *)

Veredicto == IF fase \in {"aceptado", "rechazado"} THEN fase ELSE "pendiente"
Entregado == IF fase = "aceptado" THEN programa ELSE NoHay

\* A refusal with a reason is one of the promise.
LEMMA RechazoFiel ==
  ASSUME fase \notin {"aceptado", "rechazado"}, fase' = "rechazado", UNCHANGED disco,
         ~ EntradaSeLee(disco) \/ Defecto(disco) \/ \E s \in OrdenesEn(disco) : ~ Compilable(ProgramaEn(disco, s))
  PROVE  Promesa!Rechaza
<1>1. Veredicto = "pendiente" /\ Veredicto' = "rechazado" /\ Entregado' = Entregado
  BY DEF Veredicto, Entregado
<1>2. \/ ~ Promesa!EntradaSeLee(disco)
      \/ ~ Promesa!Completo
      \/ \E m \in Promesa!Necesarios : Promesa!Validas(m) # Promesa!Listas(m)
      \/ \E s \in Promesa!Ordenes : ~ Promesa!Compilable(Promesa!ProgramaDe(s))
  BY LaPromesa, MismaLectura, MismosVeredictos DEF Defecto
<1>3. QED
  BY <1>1, <1>2 DEF Promesa!Rechaza, Veredicto, Entregado

\* What is accepted is the program of the promise.
LEMMA AceptaFiel ==
  ASSUME IInv, Cumple, Genera, SeGenera(programa)
  PROVE  Promesa!Acepta
<1>1. fase = "genera" /\ fase' = "aceptado" /\ disco' = disco /\ programa' = programa
  BY DEF Genera, Comprueba
<1>2. /\ CompletoEn(disco) /\ cargados \in OrdenesEn(disco)
      /\ \A m \in Necesita(disco) : ValidasEn(disco, m) # {}
  BY <1>1, CargadosEsOrden
<1>3. EntradaSeLee(disco) /\ programa = ProgramaEn(disco, cargados) /\ Compilable(programa)
  BY <1>1 DEF Cumple, Mezclados, Comprobado, Compilable
<1>4. Veredicto = "pendiente" /\ Veredicto' = "aceptado" /\ Entregado' = programa
  BY <1>1 DEF Veredicto, Entregado
<1>5. /\ Promesa!EntradaSeLee(disco) /\ Promesa!Completo
      /\ \A m \in Promesa!Necesarios : Promesa!Validas(m) # {}
  BY <1>2, <1>3, LaPromesa, MismaLectura
<1>6. \E s \in Promesa!Ordenes :
        Promesa!Compilable(Promesa!ProgramaDe(s)) /\ Entregado' = Promesa!ProgramaDe(s)
  <2>1. cargados \in Promesa!Ordenes /\ Promesa!ProgramaDe(cargados) = programa
    BY <1>2, <1>3, LaPromesa
  <2>2. Promesa!Compilable(programa)
    BY <1>3, MismosVeredictos
  <2>3. QED
    BY <1>4, <2>1, <2>2
<1>7. QED
  BY <1>1, <1>4, <1>5, <1>6 DEF Promesa!Acepta, Veredicto, Entregado

\* Until there is a verdict nothing is seen.
LEMMA NadaSeDecide ==
  ASSUME fase \notin {"aceptado", "rechazado"}, fase' \notin {"aceptado", "rechazado"}, UNCHANGED disco
  PROVE  UNCHANGED Promesa!vars
BY DEF Promesa!vars, Promesa!NoHay, Promesa!Vacio, NoHay, Vacio

\* A check that says no refuses the program that comes of the modules in their order.
LEMMA ComprobacionFiel ==
  ASSUME IInv, Cumple, fase \in {"reservadas", "retornos", "tipos", "genera"},
         fase' = "rechazado", UNCHANGED disco, ~ Compilable(programa)
  PROVE  Promesa!Rechaza
<1>1. cargados \in OrdenesEn(disco)
  BY CargadosEsOrden
<1>2. programa = ProgramaEn(disco, cargados)
  BY DEF Cumple, Mezclados
<1>3. QED
  BY <1>1, <1>2, RechazoFiel

\* Every step of the compiler is one of the promise, or is not seen.
LEMMA PasoFiel ==
  ASSUME IInv, Cumple, [Next]_vars
  PROVE  [Promesa!Next]_Promesa!vars
<1>1. CASE LeeEntrada
  BY <1>1, NadaSeDecide DEF LeeEntrada
<1>2. CASE EntradaNoSeLee
  BY <1>2, RechazoFiel DEF EntradaNoSeLee, Promesa!Next
<1>3. CASE \E e \in {0, 1} : EnPieza /\ Sigue(e)
  BY <1>3, NadaSeDecide DEF EnPieza, Sigue
<1>4. CASE Entra
  BY <1>4, NadaSeDecide DEF Entra, EnUsar, EnPieza
<1>5. CASE Descarta
  BY <1>5, NadaSeDecide DEF Descarta, AlFinal
<1>6. CASE Funde
  BY <1>6, NadaSeDecide DEF Funde, AlFinal
<1>7. CASE Registrados
  <2>1. /\ fase = "modulos" /\ disco' = disco /\ Len(pila) = 1
        /\ fase' = IF Cima.errores > 0 THEN "rechazado" ELSE "reservadas"
    BY <1>7 DEF Registrados, AlFinal
  <2>2. CASE Cima.errores > 0
    <3>1. Defecto(disco)
      BY <2>1, <2>2 DEF Cumple, PilaFiel, Fallos, Cima
    <3>2. QED
      BY <2>1, <2>2, <3>1, RechazoFiel DEF Promesa!Next
  <2>3. CASE ~ (Cima.errores > 0)
    BY <2>1, <2>3, NadaSeDecide
  <2>4. QED
    BY <2>2, <2>3
<1>8. CASE Reservadas
  <2>1. CASE Permitido(programa)
    BY <1>8, <2>1, NadaSeDecide DEF Reservadas, Comprueba
  <2>2. CASE ~ Permitido(programa)
    BY <1>8, <2>2, ComprobacionFiel DEF Reservadas, Comprueba, Compilable, Promesa!Next
  <2>3. QED
    BY <2>1, <2>2
<1>9. CASE Retornos
  <2>1. CASE Retorna(programa)
    BY <1>9, <2>1, NadaSeDecide DEF Retornos, Comprueba
  <2>2. CASE ~ Retorna(programa)
    BY <1>9, <2>2, ComprobacionFiel DEF Retornos, Comprueba, Compilable, Promesa!Next
  <2>3. QED
    BY <2>1, <2>2
<1>10. CASE Tipos
  <2>1. CASE SeResuelve(programa)
    BY <1>10, <2>1, NadaSeDecide DEF Tipos, Comprueba
  <2>2. CASE ~ SeResuelve(programa)
    BY <1>10, <2>2, ComprobacionFiel DEF Tipos, Comprueba, Compilable, Promesa!Next
  <2>3. QED
    BY <2>1, <2>2
<1>11. CASE Genera
  <2>1. CASE SeGenera(programa)
    BY <1>11, <2>1, AceptaFiel DEF Promesa!Next
  <2>2. CASE ~ SeGenera(programa)
    BY <1>11, <2>2, ComprobacionFiel DEF Genera, Comprueba, Compilable, Promesa!Next
  <2>3. QED
    BY <2>1, <2>2
<1>12. CASE UNCHANGED vars
  <2>1. disco' = disco /\ fase' = fase /\ programa' = programa
    BY <1>12 DEF vars
  <2>2. QED
    BY <2>1 DEF Promesa!vars, Promesa!NoHay, Promesa!Vacio, NoHay, Vacio
<1>13. CASE OtraPieza \/ YaCargado \/ Ciclo \/ NoSeAbre \/ NoSeAnaliza
  <2>1. \E e \in {0, 1} : EnPieza /\ Sigue(e)
    BY <1>13 DEF OtraPieza, YaCargado, Ciclo, NoSeAbre, NoSeAnaliza, EnUsar
  <2>2. QED
    BY <1>3, <2>1
<1>14. QED
  BY <1>1, <1>2, <1>4, <1>5, <1>6, <1>7, <1>8, <1>9, <1>10, <1>11, <1>12, <1>13
     DEF Next, Paso, Terminado

\* The files are any, and there is no verdict.
LEMMA InicialFiel ==
  ASSUME Init
  PROVE  Promesa!Init
<1>1. disco \in [Archivos -> Archivo] /\ fase = "lee"
  BY DEF Init
<1>2. Promesa!Archivo = Archivo
  BY DEF Promesa!Archivo, Promesa!Pieza, Promesa!Principal, Promesa!Definicion, Promesa!Usar, Promesa!Enviar,
         Archivo, Pieza, Principal, Definicion, Usar, Enviar
<1>3. QED
  BY <1>1, <1>2, MismaLectura DEF Promesa!Init

\* The search with its stack, its early returns and what it leaves out comes to what `usar`
\* promises, whatever the files say: a verdict is given once, a program is refused only for
\* a defect it has, and one that is accepted is the entry and each module it needs, once
\* and after its own.
THEOREM CumpleLaPromesa == Spec => ImplementaImportacion
<1>1. Init => Promesa!Init /\ Cumple
  BY InicialFiel, InicialCumple
<1>2. IInv /\ Cumple /\ [Next]_vars => Cumple' /\ [Promesa!Next]_Promesa!vars
  BY PasoCumple, PasoFiel
<1>3. QED
  BY <1>1, <1>2, Inductiva, PTL DEF Spec, ImplementaImportacion, Promesa!Spec
=============================================================================
