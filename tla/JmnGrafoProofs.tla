--------------------------- MODULE JmnGrafoProofs ---------------------------
(***************************************************************************)
(* The connection table and its file implement the graph of JmnGrafo: a    *)
(* proof, for every table size, that each step of JmnConexiones is a step  *)
(* of the graph or leaves it as it is.                                     *)
(*                                                                         *)
(* GrafoDe chooses a slot for each pair; in a table without repeated pairs *)
(* it is the only graph that has the connections of the table (EsGrafo),   *)
(* so a step is mapped by showing that what JmnGrafo computes has those of *)
(* the new table.                                                          *)
(***************************************************************************)
EXTENDS JmnConexionesProofs

USE TablaAssumption, UnidadAssumption

-----------------------------------------------------------------------------
(* Graphs of tables.                                                       *)

Distintos(t, S) == \A r, s \in S : Par(t[r]) = Par(t[s]) => r = s

Arista(r) == [tipo |-> r.key_id, fuerza |-> r.fuerza]

\* g is the graph of the connections that t has at S.
EsGrafo(g, t, S) ==
  /\ g = [p \in DOMAIN g |-> g[p]]
  /\ DOMAIN g = {Par(t[s]) : s \in S}
  /\ \A s \in S : g[Par(t[s])] = Arista(t[s])

LEMMA GrafoEs ==
  ASSUME NEW t, NEW S, Distintos(t, S)
  PROVE  EsGrafo(GrafoDe(t, S), t, S)
<1> DEFINE elegida(p) == CHOOSE s \in S : Par(t[s]) = p
<1>1. GrafoDe(t, S) = [p \in {Par(t[s]) : s \in S} |-> Arista(t[elegida(p)])]
  BY DEF GrafoDe, Arista
<1>2. \A s \in S : elegida(Par(t[s])) = s
  BY DEF Distintos
<1> HIDE DEF elegida
<1>3. QED
  BY <1>1, <1>2 DEF EsGrafo

LEMMA GrafoUnico ==
  ASSUME NEW t, NEW S, NEW g, NEW h, EsGrafo(g, t, S), EsGrafo(h, t, S)
  PROVE  g = h
<1>1. DOMAIN g = DOMAIN h /\ \A p \in DOMAIN g : g[p] = h[p]
  BY DEF EsGrafo
<1>2. g = [p \in DOMAIN g |-> g[p]] /\ h = [p \in DOMAIN h |-> h[p]]
  BY DEF EsGrafo
<1>3. QED
  BY <1>1, <1>2

\* Two tables that have the same connections have the same graph.
MismasConexiones(t, S, a, T) ==
  /\ \A s \in S : \E i \in T : Par(t[s]) = Par(a[i]) /\ Arista(t[s]) = Arista(a[i])
  /\ \A i \in T : \E s \in S : Par(t[s]) = Par(a[i]) /\ Arista(t[s]) = Arista(a[i])

LEMMA MismoGrafo ==
  ASSUME NEW t, NEW S, NEW a, NEW T, Distintos(t, S), Distintos(a, T),
         MismasConexiones(t, S, a, T)
  PROVE  GrafoDe(t, S) = GrafoDe(a, T)
<1> DEFINE g == GrafoDe(t, S)
<1>1. EsGrafo(g, t, S)
  BY GrafoEs
<1>2. EsGrafo(GrafoDe(a, T), a, T)
  BY GrafoEs
<1> HIDE DEF g
<1>3. EsGrafo(g, a, T)
  <2>1. {Par(t[s]) : s \in S} = {Par(a[i]) : i \in T}
    BY DEF MismasConexiones
  <2>2. \A i \in T : g[Par(a[i])] = Arista(a[i])
    BY <1>1 DEF MismasConexiones, EsGrafo
  <2>3. QED
    BY <1>1, <2>1, <2>2 DEF EsGrafo
<1>4. g = GrafoDe(a, T)
  BY <1>2, <1>3, GrafoUnico
<1>5. QED
  BY <1>4 DEF g

-----------------------------------------------------------------------------
(* What a caller sees.                                                     *)

Visibles == {s \in Usadas : ~(/\ bucle.fase = "olvidar" /\ s >= indice
                              /\ Debil(conexiones[s].fuerza, bucle.umbral))}
EnDisco == GrafoDe(archivo, DOMAIN archivo)

LEMMA VisibleEs ==
  ASSUME Inductiva
  PROVE  /\ sesion = "abierta" => EsGrafo(GrafoVisible, conexiones, Visibles)
         /\ sesion # "abierta" => GrafoVisible = EnDisco
<1>1. Distintos(conexiones, Visibles)
  BY UsadasSon DEF Inductiva, TablaCorrecta, SinParesRepetidos, Distintos, Visibles
<1>2. EsGrafo(GrafoDe(conexiones, Visibles), conexiones, Visibles)
  BY <1>1, GrafoEs
<1>3. QED
  BY <1>2 DEF GrafoVisible, EnDisco, Visibles

\* Outside the loop that forgets, every connection.
LEMMA VisiblesSinBucle ==
  ASSUME bucle = SinBucle
  PROVE  Visibles = UsadasDe(conexiones)
BY UsadasSon DEF Visibles, SinBucle

\* The graph's arithmetic is the table's.
LEMMA MismaAritmetica ==
  ASSUME NEW v, NEW x, NEW f, NEW n, NEW u
  PROVE  /\ Grafo!Penalizada(v, x) = Penalizada(v, x)
         /\ Grafo!ReforzadaPor(v, x) = ReforzadaPor(v, x)
         /\ Grafo!PenalizadaPor(v, x) = PenalizadaPor(v, x)
         /\ Grafo!Consolidada(v, x) = Consolidada(v, x)
         /\ Grafo!Debil(v, x) = Debil(v, x)
         /\ Grafo!Decaida(v, f, n, u) = Decaida(v, f, n, u)
<1>1. /\ Grafo!Penalizada(v, x) = Penalizada(v, x)
      /\ Grafo!ReforzadaPor(v, x) = ReforzadaPor(v, x)
      /\ Grafo!PenalizadaPor(v, x) = PenalizadaPor(v, x)
      /\ Grafo!Consolidada(v, x) = Consolidada(v, x)
      /\ Grafo!Debil(v, x) = Debil(v, x)
  BY DEF Penalizada, ReforzadaPor, PenalizadaPor, Consolidada, Debil, MinF, MaxF,
         Grafo!Penalizada, Grafo!ReforzadaPor, Grafo!PenalizadaPor, Grafo!Consolidada,
         Grafo!Debil, Grafo!MinF, Grafo!MaxF
<1>2. Grafo!Decaida(v, f, n, u) = Decaida(v, f, n, u)
  BY DEF Decaida, Pasada, UmbralDeDecaer, MinF, MaxF,
         Grafo!Decaida, Grafo!Pasada, Grafo!UmbralDeDecaer, Grafo!MinF, Grafo!MaxF
<1>3. QED
  BY <1>1, <1>2

-----------------------------------------------------------------------------
(* Steps on strengths.                                                     *)

LEMMA PasoAbierto ==
  ASSUME Inductiva', sesion = "abierta", sesion' = "abierta", archivo' = archivo,
         NEW h, EsGrafo(h, conexiones', Visibles')
  PROVE  Grafo!EnSesion /\ GrafoVisible' = h
<1>1. EsGrafo(GrafoVisible', conexiones', Visibles')
  <2>1. (Inductiva /\ sesion = "abierta" => EsGrafo(GrafoVisible, conexiones, Visibles))'
    BY VisibleEs, PTL
  <2>2. QED
    BY <2>1
<1>2. GrafoVisible' = h
  BY <1>1, GrafoUnico
<1>3. QED
  BY <1>2 DEF Grafo!EnSesion

\* The graph seen in an open session has an entry for each connection seen.
LEMMA Abierta ==
  ASSUME Inductiva, sesion = "abierta"
  PROVE  /\ EsGrafo(GrafoVisible, conexiones, Visibles)
         /\ DOMAIN GrafoVisible = {Par(conexiones[s]) : s \in Visibles}
         /\ \A s \in Visibles : GrafoVisible[Par(conexiones[s])] = Arista(conexiones[s])
BY VisibleEs DEF EsGrafo

LEMMA Tabla ==
  ASSUME Inductiva
  PROVE  /\ Visibles \subseteq UsadasDe(conexiones) /\ UsadasDe(conexiones) \subseteq Ranuras
         /\ conexiones \in [Ranuras -> Entrada]
         /\ Distintos(conexiones, UsadasDe(conexiones))
BY UsadasSon
   DEF Visibles, UsadasDe, Inductiva, TablaCorrecta, TablaTipada, SinParesRepetidos, Distintos

\* The strength of an edge, and the edge with another one.
LEMMA AristaCambiada ==
  ASSUME NEW e
  PROVE  /\ Arista(e).fuerza = e.fuerza
         /\ \A x : [Arista(e) EXCEPT !.fuerza = x] = [tipo |-> e.key_id, fuerza |-> x]
BY DEF Arista

\* In an open session where every connection is seen, the slots get the strengths w.
Reforzadas(w) ==
  /\ sesion = "abierta" /\ sesion' = "abierta" /\ archivo' = archivo
  /\ Visibles = UsadasDe(conexiones)
  /\ \A s \in UsadasDe(conexiones) : conexiones'[s] = [conexiones[s] EXCEPT !.fuerza = w[s]]
  /\ \A s \in Ranuras \ UsadasDe(conexiones) : conexiones'[s] = conexiones[s]

LEMMA TrasReforzar ==
  ASSUME Inductiva, NEW w, Reforzadas(w)
  PROVE  /\ UsadasDe(conexiones') = UsadasDe(conexiones)
         /\ \A s \in UsadasDe(conexiones) :
              /\ s \in Ranuras /\ conexiones'[s].fuerza = w[s]
              /\ Par(conexiones'[s]) = Par(conexiones[s])
              /\ Arista(conexiones'[s]) = [tipo |-> conexiones[s].key_id, fuerza |-> w[s]]
         /\ DOMAIN GrafoVisible = {Par(conexiones[s]) : s \in UsadasDe(conexiones)}
<1>1. ASSUME NEW s \in UsadasDe(conexiones)
      PROVE  /\ s \in Ranuras /\ conexiones'[s].fuerza = w[s]
             /\ conexiones'[s].used /\ Par(conexiones'[s]) = Par(conexiones[s])
             /\ Arista(conexiones'[s]) = [tipo |-> conexiones[s].key_id, fuerza |-> w[s]]
  <2>1. s \in Ranuras /\ conexiones[s] \in Entrada /\ conexiones[s].used
    BY Tabla DEF UsadasDe
  <2>2. conexiones'[s] = [conexiones[s] EXCEPT !.fuerza = w[s]]
    BY DEF Reforzadas
  <2>3. QED
    BY <2>1, <2>2 DEF Entrada, Par, Arista
<1>2. UsadasDe(conexiones') = UsadasDe(conexiones)
  BY <1>1 DEF UsadasDe, Reforzadas
<1>3. DOMAIN GrafoVisible = {Par(conexiones[s]) : s \in UsadasDe(conexiones)}
  BY Abierta DEF Reforzadas
<1>4. QED
  BY <1>1, <1>2, <1>3

LEMMA PasoDeFuerzas ==
  ASSUME Inductiva, Inductiva', NEW w, Reforzadas(w), bucle' = SinBucle,
         NEW h, h = [p \in DOMAIN GrafoVisible |-> h[p]],
         \A s \in UsadasDe(conexiones) :
           h[Par(conexiones[s])] = [tipo |-> conexiones[s].key_id, fuerza |-> w[s]]
  PROVE  Grafo!EnSesion /\ GrafoVisible' = h
<1> DEFINE U == UsadasDe(conexiones)
<1>1. /\ UsadasDe(conexiones') = U
      /\ \A s \in U : /\ Par(conexiones'[s]) = Par(conexiones[s])
                      /\ Arista(conexiones'[s]) = [tipo |-> conexiones[s].key_id, fuerza |-> w[s]]
      /\ DOMAIN GrafoVisible = {Par(conexiones[s]) : s \in U}
  BY TrasReforzar
<1>2. Visibles' = U
  <2>1. (bucle = SinBucle => Visibles = UsadasDe(conexiones))'
    BY VisiblesSinBucle, PTL
  <2>2. QED
    BY <1>1, <2>1
<1>3. \A s \in U : h[Par(conexiones[s])] = [tipo |-> conexiones[s].key_id, fuerza |-> w[s]]
  OBVIOUS
<1> HIDE DEF U
<1>4. EsGrafo(h, conexiones', U)
  <2>1. {Par(conexiones[s]) : s \in U} = {Par(conexiones'[s]) : s \in U}
    <3>1. \A s \in U : Par(conexiones'[s]) = Par(conexiones[s])
      BY <1>1
    <3>2. QED
      BY <3>1
  <2>2. h = [p \in DOMAIN h |-> h[p]] /\ DOMAIN h = DOMAIN GrafoVisible
    OBVIOUS
  <2>3. \A s \in U : h[Par(conexiones'[s])] = Arista(conexiones'[s])
    BY <1>1, <1>3
  <2>4. QED
    BY <1>1, <2>1, <2>2, <2>3 DEF EsGrafo
<1>5. QED
  BY <1>2, <1>4, PasoAbierto DEF Reforzadas

\* What is left of a graph.
Recordado(h, u) == [p \in {q \in DOMAIN h : ~Debil(h[q].fuerza, u)} |-> h[p]]

\* The same, and the loop that forgets begins: the caller sees what it will leave.
LEMMA PasoDeOlvido ==
  ASSUME Inductiva, Inductiva', NEW w, Reforzadas(w), indice' = 0,
         bucle'.fase = "olvidar", NEW u, bucle'.umbral = u,
         NEW h, DOMAIN h = DOMAIN GrafoVisible,
         \A s \in UsadasDe(conexiones) :
           h[Par(conexiones[s])] = [tipo |-> conexiones[s].key_id, fuerza |-> w[s]]
  PROVE  Grafo!EnSesion /\ GrafoVisible' = Recordado(h, u)
<1> DEFINE U == UsadasDe(conexiones)
           F == {q \in DOMAIN h : ~Debil(h[q].fuerza, u)}
           V == {s \in U : ~Debil(w[s], u)}
<1>1. /\ UsadasDe(conexiones') = U
      /\ \A s \in U : /\ s \in Ranuras /\ conexiones'[s].fuerza = w[s]
                      /\ Par(conexiones'[s]) = Par(conexiones[s])
                      /\ Arista(conexiones'[s]) = [tipo |-> conexiones[s].key_id, fuerza |-> w[s]]
      /\ DOMAIN h = {Par(conexiones[s]) : s \in U}
  BY TrasReforzar
<1>2. Visibles' = V
  <2>1. Usadas' = U
    BY <1>1 DEF Usadas, UsadasDe
  <2>2. \A s \in Ranuras : s >= 0
    BY DEF Ranuras
  <2>3. QED
    BY <1>1, <2>1, <2>2 DEF Visibles
<1>3. \A s \in U : h[Par(conexiones[s])] = [tipo |-> conexiones[s].key_id, fuerza |-> w[s]]
  OBVIOUS
<1> HIDE DEF U
<1>4. ASSUME NEW s \in U
      PROVE  Par(conexiones'[s]) \in F <=> s \in V
  <2>1. Par(conexiones'[s]) = Par(conexiones[s]) /\ Par(conexiones[s]) \in DOMAIN h
    BY <1>1
  <2>2. h[Par(conexiones[s])].fuerza = w[s]
    <3>1. h[Par(conexiones[s])] = [tipo |-> conexiones[s].key_id, fuerza |-> w[s]]
      BY <1>3
    <3>2. \A x, y : [tipo |-> x, fuerza |-> y].fuerza = y
      OBVIOUS
    <3>3. QED
      BY <3>1, <3>2
  <2>3. QED
    BY <2>1, <2>2
<1>5. F = {Par(conexiones'[s]) : s \in V}
  <2>1. V \subseteq U /\ F \subseteq DOMAIN h
    OBVIOUS
  <2> HIDE DEF F, V
  <2>2. ASSUME NEW p \in F PROVE \E s \in V : p = Par(conexiones'[s])
    <3>1. PICK s \in U : p = Par(conexiones[s])
      BY <1>1, <2>1
    <3>2. p = Par(conexiones'[s])
      BY <1>1, <3>1
    <3>3. QED
      BY <1>4, <3>2
  <2>3. \A s \in V : Par(conexiones'[s]) \in F
    BY <1>4, <2>1
  <2>4. QED
    BY <2>2, <2>3
<1>6. \A s \in V : h[Par(conexiones'[s])] = Arista(conexiones'[s]) /\ Par(conexiones'[s]) \in F
  BY <1>1, <1>3, <1>4, ZenonT(40)
<1> DEFINE k == [p \in F |-> h[p]]
<1>7. EsGrafo(k, conexiones', V)
  <2> HIDE DEF F, V
  <2> QED
    BY <1>5, <1>6 DEF EsGrafo
<1>8. QED
  <2> HIDE DEF V, k
  <2>1. Grafo!EnSesion /\ GrafoVisible' = k
    BY <1>2, <1>7, PasoAbierto DEF Reforzadas
  <2>2. QED
    BY <2>1 DEF k, Recordado

\* A connection found is one of the table, and is the pair's.
LEMMA HalladaEs ==
  ASSUME Inductiva, NEW p \in Pares, NEW x \in Halladas(p[1], p[2])
  PROVE  x \in UsadasDe(conexiones) /\ Par(conexiones[x]) = p
<1>1. p = <<p[1], p[2]>> /\ p[1] \in Ids /\ p[2] \in Ids
  OBVIOUS
<1>2. /\ x \in Cadena(Cubeta(p[1])) /\ x \in Ranuras
      /\ conexiones[x].origen_id = p[1] /\ conexiones[x].destino_id = p[2]
  BY DEF Halladas, Cadena
<1>3. conexiones[x].used
  <2>1. Cubeta(p[1]) \in Cubetas
    BY <1>1, CubetaTipada
  <2> DEFINE b == Cubeta(p[1])
             C == DeCubeta(conexiones, b)
  <2>2. Cadena(b) = C
    <3>1. C \in SUBSET Ranuras /\ EsCadena(C, cabeza_origen[b], conexiones)
      BY <2>1 DEF Inductiva, TablaCorrecta, BienEnlazada, DeCubeta, UsadasDe
    <3>2. TablaTipada(conexiones) /\ CabezasTipadas(cabeza_origen)
      BY DEF Inductiva, TablaCorrecta
    <3> HIDE DEF C, b
    <3>3. QED
      BY <2>1, <3>1, <3>2, CadenaEs DEF b
  <2>3. QED
    BY <1>2, <2>2 DEF DeCubeta, UsadasDe
<1>4. QED
  BY <1>1, <1>2, <1>3 DEF Par, UsadasDe

LEMMA MismaFuerza ==
  ASSUME Inductiva, NEW s \in Ranuras
  PROVE  [conexiones[s] EXCEPT !.fuerza = conexiones[s].fuerza] = conexiones[s]
<1>1. conexiones[s] \in Entrada
  BY Tabla
<1>2. QED
  BY <1>1 DEF Entrada

\* One slot gets another strength.
LEMMA CambiarUna ==
  ASSUME Inductiva, NEW x \in UsadasDe(conexiones), NEW v,
         conexiones' = [conexiones EXCEPT ![x].fuerza = v]
  PROVE  /\ \A s \in UsadasDe(conexiones) : conexiones'[s] =
              [conexiones[s] EXCEPT !.fuerza = IF s = x THEN v ELSE conexiones[s].fuerza]
         /\ \A s \in Ranuras \ UsadasDe(conexiones) : conexiones'[s] = conexiones[s]
BY Tabla, MismaFuerza

LEMMA PasoDecaer ==
  ASSUME Inductiva, Inductiva', NEW f \in Factores, NEW n \in Pasadas, NEW u \in Umbrales,
         Decaer(f, n, u)
  PROVE  Grafo!Decaer(f, n, u)
<1> DEFINE g == GrafoVisible
           w == [s \in Ranuras |-> Decaida(conexiones[s].fuerza, f, n, u)]
           h == [p \in DOMAIN g |-> IF p \in DOMAIN g
                                    THEN [g[p] EXCEPT !.fuerza = Decaida(g[p].fuerza, f, n, u)]
                                    ELSE g[p]]
<1>1. Reforzadas(w) /\ bucle' = SinBucle
  BY VisiblesSinBucle DEF Decaer, Libre, Recorrer, Reforzadas, UsadasDe
<1>2. ASSUME NEW s \in UsadasDe(conexiones)
      PROVE  h[Par(conexiones[s])] = [tipo |-> conexiones[s].key_id, fuerza |-> w[s]]
  <2>1. s \in Ranuras /\ s \in Visibles
    BY <1>1, Tabla DEF Reforzadas
  <2>2. Par(conexiones[s]) \in DOMAIN g /\ g[Par(conexiones[s])] = Arista(conexiones[s])
    BY <1>1, <2>1, Abierta DEF Reforzadas
  <2>3. QED
    BY <2>1, <2>2, AristaCambiada
<1>3. h = [p \in DOMAIN g |-> h[p]]
  OBVIOUS
<1>4. Grafo!EnSesion /\ GrafoVisible' = h
  <2> HIDE DEF w, h
  <2> QED
    BY <1>1, <1>2, <1>3, PasoDeFuerzas
<1>5. QED
  BY <1>4, MismaAritmetica DEF Grafo!Decaer, Grafo!Aplicar

LEMMA PasoConsolidar ==
  ASSUME Inductiva, Inductiva', NEW b \in Impulsos,
         sesion = "abierta", sesion' = "abierta", archivo' = archivo,
         Visibles = UsadasDe(conexiones), bucle' = SinBucle,
         Recorrer(LAMBDA v : Consolidada(v, b), Ranuras)
  PROVE  Grafo!Consolidar(b)
<1> DEFINE g == GrafoVisible
           w == [s \in Ranuras |-> Consolidada(conexiones[s].fuerza, b)]
           h == [p \in DOMAIN g |-> IF p \in DOMAIN g
                                    THEN [g[p] EXCEPT !.fuerza = Consolidada(g[p].fuerza, b)]
                                    ELSE g[p]]
<1>1. Reforzadas(w) /\ bucle' = SinBucle
  BY DEF Recorrer, Reforzadas, UsadasDe
<1>2. ASSUME NEW s \in UsadasDe(conexiones)
      PROVE  h[Par(conexiones[s])] = [tipo |-> conexiones[s].key_id, fuerza |-> w[s]]
  <2>1. s \in Ranuras /\ s \in Visibles
    BY <1>1, Tabla DEF Reforzadas
  <2>2. Par(conexiones[s]) \in DOMAIN g /\ g[Par(conexiones[s])] = Arista(conexiones[s])
    BY <1>1, <2>1, Abierta DEF Reforzadas
  <2>3. QED
    BY <2>1, <2>2, AristaCambiada
<1>3. h = [p \in DOMAIN g |-> h[p]]
  OBVIOUS
<1>4. Grafo!EnSesion /\ GrafoVisible' = h
  <2> HIDE DEF w, h
  <2> QED
    BY <1>1, <1>2, <1>3, PasoDeFuerzas
<1>5. QED
  BY <1>4, MismaAritmetica DEF Grafo!Consolidar, Grafo!Aplicar

LEMMA PasoPenalizar ==
  ASSUME Inductiva, Inductiva', NEW p \in Pares, NEW d \in Deltas,
         PenalizarAsociacion(p[1], p[2], d)
  PROVE  Grafo!Penalizar(p, d)
<1>1. PICK x \in Halladas(p[1], p[2]) :
        /\ conexiones' = [conexiones EXCEPT ![x].fuerza = Penalizada(@, d)]
  BY DEF PenalizarAsociacion
<1>2. x \in UsadasDe(conexiones) /\ Par(conexiones[x]) = p
  BY HalladaEs
<1> DEFINE g == GrafoVisible
           w == [s \in Ranuras |-> IF s = x THEN Penalizada(conexiones[s].fuerza, d)
                                   ELSE conexiones[s].fuerza]
           h == [q \in DOMAIN g |-> IF q \in {p}
                                    THEN [g[q] EXCEPT !.fuerza = Penalizada(g[q].fuerza, d)]
                                    ELSE g[q]]
<1>3. Reforzadas(w) /\ bucle' = SinBucle
  <2>1. conexiones' = [conexiones EXCEPT ![x].fuerza = Penalizada(conexiones[x].fuerza, d)]
    BY <1>1
  <2>2. /\ \A s \in UsadasDe(conexiones) : conexiones'[s] = [conexiones[s] EXCEPT !.fuerza =
             IF s = x THEN Penalizada(conexiones[x].fuerza, d) ELSE conexiones[s].fuerza]
        /\ \A s \in Ranuras \ UsadasDe(conexiones) : conexiones'[s] = conexiones[s]
    BY <1>2, <2>1, CambiarUna
  <2>3. \A s \in UsadasDe(conexiones) : conexiones'[s] = [conexiones[s] EXCEPT !.fuerza = w[s]]
    BY <2>2, Tabla
  <2>4. QED
    BY <2>2, <2>3, VisiblesSinBucle DEF PenalizarAsociacion, Libre, Reforzadas
<1>4. ASSUME NEW s \in UsadasDe(conexiones)
      PROVE  h[Par(conexiones[s])] = [tipo |-> conexiones[s].key_id, fuerza |-> w[s]]
  <2>1. s \in Ranuras /\ s \in Visibles
    BY <1>3, Tabla DEF Reforzadas
  <2>2. Par(conexiones[s]) \in DOMAIN g /\ g[Par(conexiones[s])] = Arista(conexiones[s])
    BY <1>3, <2>1, Abierta DEF Reforzadas
  <2>3. Par(conexiones[s]) = p <=> s = x
    BY <1>2, Tabla DEF Distintos
  <2>4. Arista(conexiones[s]) = [tipo |-> conexiones[s].key_id, fuerza |-> conexiones[s].fuerza]
    BY DEF Arista
  <2>5. CASE s = x
    BY <2>1, <2>2, <2>3, <2>5, AristaCambiada
  <2>6. CASE s # x
    BY <2>1, <2>2, <2>3, <2>4, <2>6
  <2>7. QED
    BY <2>5, <2>6
<1>5. h = [q \in DOMAIN g |-> h[q]]
  OBVIOUS
<1>6. Grafo!EnSesion /\ GrafoVisible' = h
  <2> HIDE DEF w, h
  <2> QED
    BY <1>3, <1>4, <1>5, PasoDeFuerzas
<1>7. QED
  BY <1>6, MismaAritmetica DEF Grafo!Penalizar, Grafo!Aplicar

\* Whether a connection is of a concept, seen from the slot and from the graph.
LEMMA DelConcepto ==
  ASSUME Inductiva, NEW id, NEW s \in UsadasDe(conexiones), sesion = "abierta", bucle = SinBucle
  PROVE  Par(conexiones[s]) \in Grafo!De(id) <=> s \in DeConcepto(id)
<1>1. s \in Ranuras /\ s \in Visibles
  BY Tabla, VisiblesSinBucle
<1>2. Par(conexiones[s]) \in DOMAIN GrafoVisible
  BY <1>1, Abierta
<1>3. QED
  BY <1>1, <1>2 DEF Grafo!De, DeConcepto, Par

LEMMA PasoReforzar ==
  ASSUME Inductiva, Inductiva', NEW id \in Ids, NEW d \in Deltas, ReforzarConcepto(id, d)
  PROVE  Grafo!ReforzarConcepto(id, d)
<1> DEFINE g == GrafoVisible
           D == DeConcepto(id)
           E == Grafo!De(id)
           w == [s \in Ranuras |-> IF s \in D THEN ReforzadaPor(conexiones[s].fuerza, d)
                                   ELSE conexiones[s].fuerza]
           h == [q \in DOMAIN g |-> IF q \in E
                                    THEN [g[q] EXCEPT !.fuerza = ReforzadaPor(g[q].fuerza, d)]
                                    ELSE g[q]]
<1>1. Reforzadas(w) /\ bucle' = SinBucle
  <2> HIDE DEF D
  <2>1. /\ \A s \in UsadasDe(conexiones) : conexiones'[s] = [conexiones[s] EXCEPT !.fuerza = w[s]]
        /\ \A s \in Ranuras \ UsadasDe(conexiones) : conexiones'[s] = conexiones[s]
    <3>1. \A s \in Ranuras : conexiones'[s] =
            IF conexiones[s].used /\ s \in D
            THEN [conexiones[s] EXCEPT !.fuerza = ReforzadaPor(conexiones[s].fuerza, d)]
            ELSE conexiones[s]
      BY DEF ReforzarConcepto, Recorrer, D
    <3>2. QED
      BY <3>1, MismaFuerza DEF UsadasDe
  <2>2. QED
    BY <2>1, VisiblesSinBucle DEF ReforzarConcepto, Libre, Reforzadas
<1>2. ASSUME NEW s \in UsadasDe(conexiones)
      PROVE  h[Par(conexiones[s])] = [tipo |-> conexiones[s].key_id, fuerza |-> w[s]]
  <2>1. s \in Ranuras /\ s \in Visibles
    BY <1>1, Tabla DEF Reforzadas
  <2>2. Par(conexiones[s]) \in DOMAIN g /\ g[Par(conexiones[s])] = Arista(conexiones[s])
    BY <1>1, <2>1, Abierta DEF Reforzadas
  <2>3. Par(conexiones[s]) \in E <=> s \in D
    BY <1>1, DelConcepto DEF Reforzadas, ReforzarConcepto, Libre
  <2>4. Arista(conexiones[s]) = [tipo |-> conexiones[s].key_id, fuerza |-> conexiones[s].fuerza]
    BY DEF Arista
  <2> HIDE DEF D, E
  <2>5. CASE s \in D
    BY <2>1, <2>2, <2>3, <2>5, AristaCambiada
  <2>6. CASE s \notin D
    BY <2>1, <2>2, <2>3, <2>4, <2>6
  <2>7. QED
    BY <2>5, <2>6
<1>3. h = [q \in DOMAIN g |-> h[q]]
  OBVIOUS
<1>4. Grafo!EnSesion /\ GrafoVisible' = h
  <2> HIDE DEF w, h
  <2> QED
    BY <1>1, <1>2, <1>3, PasoDeFuerzas
<1>5. QED
  BY <1>4, MismaAritmetica DEF Grafo!ReforzarConcepto, Grafo!Aplicar
LEMMA PasoPenalizarConcepto ==
  ASSUME Inductiva, Inductiva', NEW id \in Ids, NEW d \in Deltas, PenalizarConcepto(id, d)
  PROVE  Grafo!PenalizarConcepto(id, d)
<1> DEFINE g == GrafoVisible
           D == DeConcepto(id)
           E == Grafo!De(id)
           w == [s \in Ranuras |-> IF s \in D THEN PenalizadaPor(conexiones[s].fuerza, d)
                                   ELSE conexiones[s].fuerza]
           h == [q \in DOMAIN g |-> IF q \in E
                                    THEN [g[q] EXCEPT !.fuerza = PenalizadaPor(g[q].fuerza, d)]
                                    ELSE g[q]]
<1>1. Reforzadas(w) /\ bucle' = SinBucle
  <2> HIDE DEF D
  <2>1. /\ \A s \in UsadasDe(conexiones) : conexiones'[s] = [conexiones[s] EXCEPT !.fuerza = w[s]]
        /\ \A s \in Ranuras \ UsadasDe(conexiones) : conexiones'[s] = conexiones[s]
    <3>1. \A s \in Ranuras : conexiones'[s] =
            IF conexiones[s].used /\ s \in D
            THEN [conexiones[s] EXCEPT !.fuerza = PenalizadaPor(conexiones[s].fuerza, d)]
            ELSE conexiones[s]
      BY DEF PenalizarConcepto, Recorrer, D
    <3>2. QED
      BY <3>1, MismaFuerza DEF UsadasDe
  <2>2. QED
    BY <2>1, VisiblesSinBucle DEF PenalizarConcepto, Libre, Reforzadas
<1>2. ASSUME NEW s \in UsadasDe(conexiones)
      PROVE  h[Par(conexiones[s])] = [tipo |-> conexiones[s].key_id, fuerza |-> w[s]]
  <2>1. s \in Ranuras /\ s \in Visibles
    BY <1>1, Tabla DEF Reforzadas
  <2>2. Par(conexiones[s]) \in DOMAIN g /\ g[Par(conexiones[s])] = Arista(conexiones[s])
    BY <1>1, <2>1, Abierta DEF Reforzadas
  <2>3. Par(conexiones[s]) \in E <=> s \in D
    BY <1>1, DelConcepto DEF Reforzadas, PenalizarConcepto, Libre
  <2>4. Arista(conexiones[s]) = [tipo |-> conexiones[s].key_id, fuerza |-> conexiones[s].fuerza]
    BY DEF Arista
  <2> HIDE DEF D, E
  <2>5. CASE s \in D
    BY <2>1, <2>2, <2>3, <2>5, AristaCambiada
  <2>6. CASE s \notin D
    BY <2>1, <2>2, <2>3, <2>4, <2>6
  <2>7. QED
    BY <2>5, <2>6
<1>3. h = [q \in DOMAIN g |-> h[q]]
  OBVIOUS
<1>4. Grafo!EnSesion /\ GrafoVisible' = h
  <2> HIDE DEF w, h
  <2> QED
    BY <1>1, <1>2, <1>3, PasoDeFuerzas
<1>5. QED
  BY <1>4, MismaAritmetica DEF Grafo!PenalizarConcepto, Grafo!Aplicar

-----------------------------------------------------------------------------
(* The loop that forgets: the step that begins it does it all for the graph.*)

\* What JmnGrafo forgets of h, with the table's arithmetic.
LEMMA MismasFuertes ==
  ASSUME NEW h, NEW u
  PROVE  Grafo!Fuertes(h, u) = {q \in DOMAIN h : ~Debil(h[q].fuerza, u)}
BY MismaAritmetica DEF Grafo!Fuertes

LEMMA PasoOlvidar ==
  ASSUME Inductiva, Inductiva', NEW u \in Umbrales, Olvidar(u)
  PROVE  Grafo!Olvidar(u)
<1> DEFINE g == GrafoVisible
           w == [s \in Ranuras |-> conexiones[s].fuerza]
<1>1. Reforzadas(w)
  <2>1. conexiones' = conexiones /\ UsadasDe(conexiones) \subseteq Ranuras
    BY Tabla DEF Olvidar, memoria
  <2>2. QED
    BY <2>1, MismaFuerza, VisiblesSinBucle DEF Olvidar, Libre, Reforzadas
<1>2. ASSUME NEW s \in UsadasDe(conexiones)
      PROVE  g[Par(conexiones[s])] = [tipo |-> conexiones[s].key_id, fuerza |-> w[s]]
  <2>1. s \in Ranuras /\ s \in Visibles
    BY <1>1, Tabla DEF Reforzadas
  <2>2. g[Par(conexiones[s])] = Arista(conexiones[s])
    BY <1>1, <2>1, Abierta DEF Reforzadas
  <2>3. QED
    BY <2>1, <2>2 DEF Arista
<1>3. indice' = 0 /\ bucle'.fase = "olvidar" /\ bucle'.umbral = u
  BY DEF Olvidar
<1> HIDE DEF w, g
<1>4. Grafo!EnSesion /\ GrafoVisible' = Recordado(g, u)
  BY <1>1, <1>2, <1>3, PasoDeOlvido DEF g
<1>5. QED
  BY <1>4, MismasFuertes DEF Grafo!Olvidar, Recordado, g

LEMMA PasoSueno ==
  ASSUME Inductiva, Inductiva', NEW f \in Factores, NEW n \in Pasadas, NEW u \in Umbrales,
         NEW b \in Impulsos, ConsolidarMemoriaSueno(f, n, u, b)
  PROVE  Grafo!DecaerYOlvidar(f, n, u)
<1> DEFINE g == GrafoVisible
           w == [s \in Ranuras |-> Decaida(conexiones[s].fuerza, f, n, u)]
           h == [p \in DOMAIN g |-> [g[p] EXCEPT !.fuerza = Decaida(g[p].fuerza, f, n, u)]]
<1>1. Reforzadas(w)
  BY VisiblesSinBucle DEF ConsolidarMemoriaSueno, Libre, Recorrer, Reforzadas, UsadasDe
<1>2. ASSUME NEW s \in UsadasDe(conexiones)
      PROVE  h[Par(conexiones[s])] = [tipo |-> conexiones[s].key_id, fuerza |-> w[s]]
  <2>1. s \in Ranuras /\ s \in Visibles
    BY <1>1, Tabla DEF Reforzadas
  <2>2. Par(conexiones[s]) \in DOMAIN g /\ g[Par(conexiones[s])] = Arista(conexiones[s])
    BY <1>1, <2>1, Abierta DEF Reforzadas
  <2>3. QED
    BY <2>1, <2>2, AristaCambiada
<1>3. indice' = 0 /\ bucle'.fase = "olvidar" /\ bucle'.umbral = u
  BY DEF ConsolidarMemoriaSueno
<1>4. DOMAIN h = DOMAIN g
  OBVIOUS
<1>5. Grafo!EnSesion /\ GrafoVisible' = Recordado(h, u)
  <2> HIDE DEF w, h
  <2> QED
    BY <1>1, <1>2, <1>3, <1>4, PasoDeOlvido
<1>6. h = [p \in DOMAIN g |-> [g[p] EXCEPT !.fuerza = Grafo!Decaida(g[p].fuerza, f, n, u)]]
  BY MismaAritmetica
<1> HIDE DEF h
<1>7. QED
  BY <1>5, <1>6, MismasFuertes DEF Grafo!DecaerYOlvidar, Recordado

\* An iteration takes out a connection that is no longer seen, or passes over one
\* that is.
LEMMA PasoRanura ==
  ASSUME Inductiva, Inductiva', OlvidarRanura
  PROVE  UNCHANGED Grafo!vars
<1>1. /\ bucle.fase = "olvidar" /\ indice < CapConexiones /\ indice \in Nat
      /\ indice' = indice + 1 /\ UNCHANGED <<sesion, archivo, bucle>>
      /\ sesion = "abierta"
  BY DEF OlvidarRanura, Inductiva, SegunSesion, EstadoTipado
<1> DEFINE olvidada == conexiones[indice].used /\ Debil(conexiones[indice].fuerza, bucle.umbral)
<1>2. \A r \in Ranuras \ {indice} :
        /\ conexiones'[r].used = conexiones[r].used
        /\ conexiones'[r].fuerza = conexiones[r].fuerza
        /\ Par(conexiones'[r]) = Par(conexiones[r])
        /\ Arista(conexiones'[r]) = Arista(conexiones[r])
  <2>1. CASE Desenlazar(indice)
    <3>1. ASSUME NEW r \in Ranuras \ {indice}
          PROVE  conexiones'[r] = conexiones[r]
                   \/ \E x : conexiones'[r] = [conexiones[r] EXCEPT !.next_origen = x]
      BY <2>1 DEF Desenlazar
    <3>2. \A r \in Ranuras : conexiones[r] \in Entrada
      BY Tabla
    <3>3. ASSUME NEW e \in Entrada, NEW x
          PROVE  LET d == [e EXCEPT !.next_origen = x]
                 IN  /\ d.used = e.used /\ d.fuerza = e.fuerza
                     /\ Par(d) = Par(e) /\ Arista(d) = Arista(e)
      BY DEF Entrada, Par, Arista
    <3>4. ASSUME NEW r \in Ranuras \ {indice}
          PROVE  /\ conexiones'[r].used = conexiones[r].used
                 /\ conexiones'[r].fuerza = conexiones[r].fuerza
                 /\ Par(conexiones'[r]) = Par(conexiones[r])
                 /\ Arista(conexiones'[r]) = Arista(conexiones[r])
      <4>1. CASE conexiones'[r] = conexiones[r]
        BY <4>1
      <4>2. CASE \E x : conexiones'[r] = [conexiones[r] EXCEPT !.next_origen = x]
        <5>1. PICK x : conexiones'[r] = [conexiones[r] EXCEPT !.next_origen = x]
          BY <4>2
        <5>2. conexiones[r] \in Entrada
          BY <3>2
        <5>3. QED
          BY <5>1, <5>2, <3>3
      <4>3. QED
        BY <3>1, <4>1, <4>2
    <3>5. QED
      BY <3>4
  <2>2. CASE conexiones' = conexiones
    BY <2>2
  <2>3. QED
    BY <2>1, <2>2 DEF OlvidarRanura, memoria
<1>3. olvidada => ~conexiones'[indice].used
  <2>1. indice \in Ranuras
    BY <1>1 DEF Ranuras
  <2>2. QED
    BY <2>1 DEF OlvidarRanura, Desenlazar, Vacia
<1>4. ~olvidada => conexiones' = conexiones
  BY DEF OlvidarRanura, memoria
<1>5. Visibles' = Visibles
  <2>1. ASSUME NEW r \in Ranuras PROVE r \in Visibles' <=> r \in Visibles
    <3>1. CASE r = indice
      BY <1>1, <1>3, <1>4, <3>1 DEF Visibles, Usadas
    <3>2. CASE r # indice
      <4>1. r >= indice' <=> r >= indice
        BY <1>1, <3>2 DEF Ranuras
      <4>2. QED
        BY <1>1, <1>2, <3>2, <4>1 DEF Visibles, Usadas
    <3>3. QED
      BY <3>1, <3>2
  <2>2. Visibles \subseteq Ranuras /\ Visibles' \subseteq Ranuras
    BY DEF Visibles, Usadas
  <2>3. QED
    BY <2>1, <2>2
<1>6. \A r \in Visibles : Par(conexiones'[r]) = Par(conexiones[r])
                          /\ Arista(conexiones'[r]) = Arista(conexiones[r])
  <2>1. ASSUME NEW r \in Visibles, r = indice PROVE conexiones' = conexiones
    BY <1>1, <1>4, <2>1 DEF Visibles
  <2>2. \A r \in Visibles : r \in Ranuras
    BY DEF Visibles, Usadas
  <2>3. QED
    BY <1>2, <2>1, <2>2
<1>7. EsGrafo(GrafoVisible, conexiones', Visibles')
  <2>1. EsGrafo(GrafoVisible, conexiones, Visibles)
    BY <1>1, Abierta
  <2>2. {Par(conexiones[r]) : r \in Visibles} = {Par(conexiones'[r]) : r \in Visibles}
    BY <1>6
  <2>3. QED
    BY <1>5, <1>6, <2>1, <2>2 DEF EsGrafo
<1>8. GrafoVisible' = GrafoVisible
  BY <1>1, <1>7, PasoAbierto
<1>9. QED
  BY <1>1, <1>8 DEF Grafo!vars
\* After its last iteration every connection left is seen.
LEMMA PasoOlvidarFin ==
  ASSUME Inductiva, Inductiva', OlvidarFin
  PROVE  (\E b \in Impulsos : Grafo!Consolidar(b)) \/ UNCHANGED Grafo!vars
<1>1. /\ sesion = "abierta" /\ sesion' = "abierta" /\ archivo' = archivo
      /\ bucle' = SinBucle /\ bucle.impulsos \subseteq Impulsos
  BY DEF OlvidarFin, Inductiva, SegunSesion, EstadoTipado
<1>2. Visibles = UsadasDe(conexiones)
  <2>1. \A s \in Ranuras : ~(s >= CapConexiones)
    BY DEF Ranuras
  <2>2. QED
    BY <2>1 DEF OlvidarFin, Visibles, Usadas, UsadasDe
<1>3. CASE \E b \in bucle.impulsos : Recorrer(LAMBDA v : Consolidada(v, b), Ranuras)
  <2>1. PICK b \in bucle.impulsos : Recorrer(LAMBDA v : Consolidada(v, b), Ranuras)
    BY <1>3
  <2>2. b \in Impulsos
    BY <1>1
  <2>3. Grafo!Consolidar(b)
    BY <1>1, <1>2, <2>1, <2>2, PasoConsolidar
  <2>4. QED
    BY <2>2, <2>3
<1>4. CASE UNCHANGED memoria
  <2>1. Visibles' = Visibles /\ conexiones' = conexiones
    <3>1. (bucle = SinBucle => Visibles = UsadasDe(conexiones))'
      BY VisiblesSinBucle, PTL
    <3>2. QED
      BY <1>1, <1>2, <1>4, <3>1 DEF memoria, UsadasDe
  <2>2. EsGrafo(GrafoVisible, conexiones', Visibles')
    BY <1>1, <2>1, Abierta
  <2>3. GrafoVisible' = GrafoVisible
    BY <1>1, <2>2, PasoAbierto
  <2>4. QED
    BY <1>1, <2>3 DEF Grafo!vars
<1>5. QED
  BY <1>3, <1>4 DEF OlvidarFin

-----------------------------------------------------------------------------
(* An association, known or new.                                           *)

\* The table has one connection more, at s.
UnaMas(s, o, d, k, f) ==
  /\ s \in Ranuras \ UsadasDe(conexiones)
  /\ UsadasDe(conexiones') = UsadasDe(conexiones) \cup {s}
  /\ Par(conexiones'[s]) = <<o, d>>
  /\ conexiones'[s].key_id = k /\ conexiones'[s].fuerza = f
  /\ \A r \in UsadasDe(conexiones) : conexiones'[r] = conexiones[r]

LEMMA InsertarUnaMas ==
  ASSUME Inductiva, NEW o \in Ids, NEW d \in Ids, NEW k \in Tipos, NEW f \in Int,
         Halladas(o, d) = {}, Insertar(o, d, k, f)
  PROVE  \E s \in Ranuras : UnaMas(s, o, d, k, f)
<1>1. TablaCorrecta(conexiones, cabeza_origen, num_conexiones)
  BY DEF Inductiva
<1>2. \A r \in UsadasDe(conexiones) : Par(conexiones[r]) # <<o, d>>
  BY <1>1, BusquedaCompleta
<1>3. QED
  BY <1>1, <1>2, InsertarBien DEF UnaMas

LEMMA PasoAsociar ==
  ASSUME Inductiva, Inductiva', NEW p \in Pares, NEW c \in Cambios, NEW t \in Tipos,
         AgregarConexion(p[1], p[2], c, t)
  PROVE  Grafo!Asociar(p, c, t) \/ UNCHANGED Grafo!vars
<1> DEFINE g == GrafoVisible
           U == UsadasDe(conexiones)
           base == IF p \in DOMAIN g THEN g[p].fuerza ELSE 0
           h == [q \in DOMAIN g \cup {p} |->
                   IF q = p THEN [tipo |-> t, fuerza |-> base + c] ELSE g[q]]
<1>1. /\ sesion = "abierta" /\ sesion' = "abierta" /\ archivo' = archivo /\ indice' = indice
      /\ bucle = SinBucle /\ bucle' = SinBucle
  BY DEF AgregarConexion, Libre
<1>2. Visibles = U /\ Visibles' = UsadasDe(conexiones')
  <2>1. (bucle = SinBucle => Visibles = UsadasDe(conexiones))'
    BY VisiblesSinBucle, PTL
  <2>2. QED
    BY <1>1, <2>1, VisiblesSinBucle
<1>3. /\ DOMAIN g = {Par(conexiones[s]) : s \in U}
      /\ \A s \in U : g[Par(conexiones[s])] = Arista(conexiones[s])
  BY <1>1, <1>2, Abierta
<1>4. p = <<p[1], p[2]>> /\ p[1] \in Ids /\ p[2] \in Ids /\ c \in Int
  OBVIOUS
<1>5. h = [q \in DOMAIN h |-> h[q]]
  OBVIOUS
<1>6. ASSUME base + c \in -Tope .. Tope, EsGrafo(h, conexiones', UsadasDe(conexiones'))
      PROVE  Grafo!Asociar(p, c, t)
  <2>1. Grafo!EnSesion /\ GrafoVisible' = h
    <3> HIDE DEF h
    <3> QED
      BY <1>1, <1>2, <1>6, PasoAbierto
  <2>2. QED
    BY <1>6, <2>1 DEF Grafo!Asociar
<1>7. CASE Halladas(p[1], p[2]) # {}
  <2>1. PICK x \in Halladas(p[1], p[2]) :
          /\ conexiones[x].fuerza + c \in -Tope .. Tope
          /\ conexiones' = [conexiones EXCEPT ![x].fuerza = @ + c, ![x].key_id = t]
    BY <1>7 DEF AgregarConexion
  <2>2. x \in U /\ Par(conexiones[x]) = p
    BY HalladaEs
  <2>3. base = conexiones[x].fuerza
    BY <1>3, <2>2, AristaCambiada
  <2>4. /\ conexiones'[x].used /\ Par(conexiones'[x]) = p
        /\ Arista(conexiones'[x]) = [tipo |-> t, fuerza |-> conexiones[x].fuerza + c]
        /\ \A s \in Ranuras \ {x} : conexiones'[s] = conexiones[s]
    <3>1. x \in Ranuras /\ conexiones[x] \in Entrada /\ conexiones[x].used
          /\ conexiones \in [Ranuras -> Entrada]
      BY <2>2, Tabla DEF UsadasDe
    <3>2. /\ conexiones'[x] = [conexiones[x] EXCEPT !.fuerza = @ + c, !.key_id = t]
          /\ \A s \in Ranuras \ {x} : conexiones'[s] = conexiones[s]
      BY <2>1, <3>1
    <3>3. ASSUME NEW e \in Entrada, NEW v
          PROVE  LET d == [e EXCEPT !.fuerza = v, !.key_id = t]
                 IN  /\ d.used = e.used /\ Par(d) = Par(e)
                     /\ Arista(d) = [tipo |-> t, fuerza |-> v]
      BY DEF Entrada, Par, Arista
    <3> DEFINE v == conexiones[x].fuerza + c
    <3>4. conexiones'[x] = [conexiones[x] EXCEPT !.fuerza = v, !.key_id = t]
      BY <3>2
    <3> HIDE DEF v
    <3>5. /\ conexiones'[x].used = conexiones[x].used /\ Par(conexiones'[x]) = Par(conexiones[x])
          /\ Arista(conexiones'[x]) = [tipo |-> t, fuerza |-> v]
      <4> DEFINE e == conexiones[x]
                 d == conexiones'[x]
      <4>1. e \in Entrada /\ d = [e EXCEPT !.fuerza = v, !.key_id = t]
        BY <3>1, <3>4
      <4> HIDE DEF e, d
      <4>2. d.used = e.used /\ Par(d) = Par(e) /\ Arista(d) = [tipo |-> t, fuerza |-> v]
        BY <3>3, <4>1
      <4>3. QED
        BY <4>2 DEF e, d
    <3>6. QED
      BY <2>2, <3>1, <3>2, <3>5 DEF v
  <2>5. UsadasDe(conexiones') = U
    BY <2>2, <2>4 DEF UsadasDe
  <2>6. \A s \in U : Par(conexiones[s]) = p <=> s = x
    BY <2>2, Tabla DEF Distintos
  <2>7. DOMAIN h = DOMAIN g /\ p \in DOMAIN g
    BY <1>3, <2>2
  <2>8. \A s \in U : Par(conexiones'[s]) = Par(conexiones[s]) /\ s \in Ranuras
    BY <2>2, <2>4, Tabla
  <2>9. \A s \in U : h[Par(conexiones'[s])] = Arista(conexiones'[s])
    <3>1. h[p] = [tipo |-> t, fuerza |-> base + c]
      BY <2>7
    <3>2. \A q \in DOMAIN g : q # p => h[q] = g[q]
      OBVIOUS
    <3> HIDE DEF h, base
    <3>3. ASSUME NEW s \in U PROVE h[Par(conexiones'[s])] = Arista(conexiones'[s])
      <4>1. CASE s = x
        BY <2>3, <2>4, <3>1, <4>1
      <4>2. CASE s # x
        BY <1>3, <2>4, <2>6, <2>8, <3>2, <4>2
      <4>3. QED
        BY <4>1, <4>2
    <3>4. QED
      BY <3>3
  <2>10. DOMAIN h = {Par(conexiones'[s]) : s \in U}
    <3> HIDE DEF h, U
    <3> QED
      BY <1>3, <2>7, <2>8
  <2>11. EsGrafo(h, conexiones', UsadasDe(conexiones'))
    <3> HIDE DEF h, U
    <3> QED
      BY <1>5, <2>5, <2>9, <2>10 DEF EsGrafo
  <2>12. QED
    BY <1>6, <2>1, <2>3, <2>11
<1>8. CASE Halladas(p[1], p[2]) = {} /\ c \in -Tope .. Tope /\ Insertar(p[1], p[2], t, c)
  <2>1. \A r \in U : Par(conexiones[r]) # <<p[1], p[2]>>
    BY <1>4, <1>8, BusquedaCompleta DEF Inductiva
  <2>2. PICK x \in Ranuras \ U :
          /\ UsadasDe(conexiones') = U \cup {x}
          /\ Par(conexiones'[x]) = <<p[1], p[2]>>
          /\ conexiones'[x].key_id = t /\ conexiones'[x].fuerza = c
          /\ \A r \in U : conexiones'[r] = conexiones[r]
    <3>1. \E s \in Ranuras : UnaMas(s, p[1], p[2], t, c)
      BY <1>4, <1>8, InsertarUnaMas
    <3>2. QED
      BY <3>1 DEF UnaMas
  <2>3. p \notin DOMAIN g
    BY <1>3, <1>4, <2>1
  <2>4. base + c = c
    BY <1>4, <2>3
  <2>5. Arista(conexiones'[x]) = [tipo |-> t, fuerza |-> c]
    BY <2>2 DEF Arista
  <2>6. DOMAIN h = DOMAIN g \cup {p} /\ h[p] = [tipo |-> t, fuerza |-> c]
        /\ \A q \in DOMAIN g : h[q] = g[q]
    BY <2>3, <2>4
  <2>7. DOMAIN h = {Par(conexiones'[s]) : s \in U \cup {x}}
    <3> HIDE DEF h, U
    <3> QED
      BY <1>3, <1>4, <2>2, <2>6
  <2>8. \A s \in U \cup {x} : h[Par(conexiones'[s])] = Arista(conexiones'[s])
    <3> HIDE DEF h, U
    <3>1. \A s \in U : Par(conexiones[s]) \in DOMAIN g
      BY <1>3
    <3>2. QED
      BY <1>3, <1>4, <2>2, <2>5, <2>6, <3>1
  <2>9. EsGrafo(h, conexiones', UsadasDe(conexiones'))
    <3> HIDE DEF h, U
    <3> QED
      BY <1>5, <2>2, <2>7, <2>8 DEF EsGrafo
  <2>10. QED
    BY <1>6, <1>8, <2>4, <2>9
<1>9. CASE UNCHANGED memoria
  <2>1. conexiones' = conexiones /\ Visibles' = Visibles
    BY <1>2, <1>9 DEF memoria, UsadasDe
  <2>2. EsGrafo(GrafoVisible, conexiones', Visibles')
    BY <1>1, <2>1, Abierta
  <2>3. GrafoVisible' = GrafoVisible
    BY <1>1, <2>2, PasoAbierto
  <2>4. QED
    BY <1>1, <2>3 DEF Grafo!vars
<1>10. QED
  BY <1>7, <1>8, <1>9 DEF AgregarConexion
-----------------------------------------------------------------------------
(* Sessions.                                                               *)

\* A table that is not dirty is the file's, and one being read is that of the
\* records read.
Sincronia ==
  /\ sesion = "abierta" /\ ~dirty =>
       MismasConexiones(conexiones, UsadasDe(conexiones), archivo, 1 .. Len(archivo))
  /\ sesion = "cargando" =>
       MismasConexiones(conexiones, UsadasDe(conexiones), archivo, 1 .. indice)

LEMMA CargarSincroniza ==
  ASSUME Inductiva, Inductiva', Sincronia, CargarConexion
  PROVE  Sincronia'
<1> DEFINE i == indice + 1
<1>1. /\ sesion = "cargando" /\ sesion' = "cargando" /\ archivo' = archivo /\ indice' = i
      /\ indice \in Nat
  BY DEF CargarConexion, Inductiva, EstadoTipado
<1>2. PICK x \in Ranuras \ UsadasDe(conexiones) :
        /\ UsadasDe(conexiones') = UsadasDe(conexiones) \cup {x}
        /\ Par(conexiones'[x]) = Par(archivo[i])
        /\ conexiones'[x].key_id = archivo[i].key_id /\ conexiones'[x].fuerza = archivo[i].fuerza
        /\ \A r \in UsadasDe(conexiones) : conexiones'[r] = conexiones[r]
  BY CargaInserta
<1>3. Arista(conexiones'[x]) = Arista(archivo[i])
  BY <1>2 DEF Arista
<1>4. 1 .. i = (1 .. indice) \cup {i}
  BY <1>1
<1>5. MismasConexiones(conexiones, UsadasDe(conexiones), archivo, 1 .. indice)
  BY <1>1 DEF Sincronia
<1>6. MismasConexiones(conexiones', UsadasDe(conexiones) \cup {x}, archivo, (1 .. indice) \cup {i})
  <2> DEFINE U == UsadasDe(conexiones)
             I == 1 .. indice
             Iguales(s, j) == Par(conexiones'[s]) = Par(archivo[j])
                              /\ Arista(conexiones'[s]) = Arista(archivo[j])
  <2>1. Iguales(x, i)
    BY <1>2, <1>3
  <2>2. /\ \A s \in U : \E j \in I : Iguales(s, j)
        /\ \A j \in I : \E s \in U : Iguales(s, j)
    BY <1>2, <1>5 DEF MismasConexiones
  <2> HIDE DEF i, U, I, Iguales
  <2>3. /\ \A s \in U \cup {x} : \E j \in I \cup {i} : Iguales(s, j)
        /\ \A j \in I \cup {i} : \E s \in U \cup {x} : Iguales(s, j)
    BY <2>1, <2>2
  <2>4. QED
    BY <2>3 DEF MismasConexiones, Iguales, U, I
<1>7. QED
  BY <1>1, <1>2, <1>4, <1>6 DEF Sincronia

LEMMA SincroniaSigue ==
  ASSUME Inductiva, Inductiva', Sincronia, [Next]_vars
  PROVE  Sincronia'
<1>1. ASSUME dirty', sesion' = "abierta" PROVE Sincronia'
  BY <1>1 DEF Sincronia
<1>2. ASSUME sesion' \in {"cerrada", "caida"} PROVE Sincronia'
  BY <1>2 DEF Sincronia
<1>3. ASSUME UNCHANGED <<conexiones, dirty, sesion, archivo>>, sesion = "abierta"
      PROVE  Sincronia'
  BY <1>3 DEF Sincronia, UsadasDe
<1>4. CASE \E p \in Pares, c \in Cambios, t \in Tipos : AgregarConexion(p[1], p[2], c, t)
  BY <1>1, <1>3, <1>4 DEF AgregarConexion, Libre, memoria
<1>5. CASE \E p \in Pares, d \in Deltas : PenalizarAsociacion(p[1], p[2], d)
  BY <1>1, <1>5 DEF PenalizarAsociacion, Libre
<1>6. CASE \E id \in Ids, d \in Deltas : ReforzarConcepto(id, d) \/ PenalizarConcepto(id, d)
  BY <1>1, <1>6 DEF ReforzarConcepto, PenalizarConcepto, Recorrer, Libre
<1>7. CASE \E f \in Factores, n \in Pasadas, u \in Umbrales :
             Decaer(f, n, u) \/ \E b \in Impulsos : ConsolidarMemoriaSueno(f, n, u, b)
  BY <1>1, <1>7 DEF Decaer, ConsolidarMemoriaSueno, Recorrer, Libre
<1>8. CASE \E u \in Umbrales : Olvidar(u)
  BY <1>3, <1>8 DEF Olvidar, Libre, memoria
<1>9. CASE OlvidarRanura
  <2>1. sesion = "abierta" /\ sesion' = "abierta" /\ archivo' = archivo
    BY <1>9 DEF OlvidarRanura, Inductiva, SegunSesion
  <2>2. QED
    BY <1>1, <1>3, <1>9, <2>1 DEF OlvidarRanura, memoria
<1>10. CASE OlvidarFin
  <2>1. sesion = "abierta" /\ sesion' = "abierta" /\ archivo' = archivo
    BY <1>10 DEF OlvidarFin, Inductiva, SegunSesion
  <2>2. QED
    BY <1>1, <1>3, <1>10, <2>1 DEF OlvidarFin, Recorrer, memoria
<1>11. CASE \E b \in Impulsos : Consolidar(b)
  BY <1>1, <1>11 DEF Consolidar, Recorrer, Libre
<1>12. CASE Cerrar \/ Morir
  BY <1>2, <1>12 DEF Cerrar, Morir
<1>13. CASE Abrir
  <2>1. UsadasDe(conexiones') = {}
    BY <1>13 DEF Abrir, memoria, Inductiva, SegunSesion, UsadasDe
  <2>2. 1 .. indice' = {} /\ sesion' = "cargando"
    BY <1>13 DEF Abrir
  <2>3. QED
    BY <2>1, <2>2 DEF Sincronia, MismasConexiones
<1>14. CASE CargarConexion
  BY <1>14, CargarSincroniza
<1>15. CASE CargarFin
  BY <1>15 DEF CargarFin, Sincronia, UsadasDe
<1>16. CASE UNCHANGED vars
  BY <1>16 DEF vars, memoria, Sincronia, UsadasDe
<1>17. QED
  BY <1>4, <1>5, <1>6, <1>7, <1>8, <1>9, <1>10, <1>11, <1>12, <1>13, <1>14, <1>15, <1>16
     DEF Next

\* The file of a table with its connections has its graph.
LEMMA DiscoEs ==
  ASSUME Inductiva, NEW t, NEW S, Distintos(t, S),
         MismasConexiones(t, S, archivo, 1 .. Len(archivo))
  PROVE  EnDisco = GrafoDe(t, S)
<1>1. DOMAIN archivo = 1 .. Len(archivo)
  BY DEF Inductiva, ArchivoTipado
<1>2. Distintos(archivo, 1 .. Len(archivo))
  BY DEF Inductiva, ArchivoSinRepetidos, Distintos
<1>3. QED
  BY <1>1, <1>2, MismoGrafo DEF EnDisco

\* What jmn_io_guardar writes has the connections of the table.
LEMMA EscritoIgual ==
  ASSUME Inductiva
  PROVE  MismasConexiones(conexiones, UsadasDe(conexiones), Escribir, 1 .. Len(Escribir))
<1>1. /\ ArchivoTipado(Escribir)
      /\ \A i \in DOMAIN Escribir : \E s \in Usadas : Escribir[i] = Registro(s)
      /\ \A s \in Usadas : \E i \in DOMAIN Escribir : Escribir[i] = Registro(s)
  BY EscribirTodo DEF Inductiva, TablaCorrecta
<1>2. \A s : Par(Registro(s)) = Par(conexiones[s]) /\ Arista(Registro(s)) = Arista(conexiones[s])
  BY DEF Par, Arista, Registro
<1>3. DOMAIN Escribir = 1 .. Len(Escribir)
  BY <1>1 DEF ArchivoTipado
<1>4. Usadas = UsadasDe(conexiones)
  BY UsadasSon
<1>5. QED
  BY <1>1, <1>2, <1>3, <1>4 DEF MismasConexiones

LEMMA PasoCerrar ==
  ASSUME Inductiva, Inductiva', Sincronia, Cerrar
  PROVE  Grafo!Guardar
<1>1. sesion = "abierta" /\ sesion' = "cerrada" /\ bucle = SinBucle
  BY DEF Cerrar, Libre
<1>2. MismasConexiones(conexiones, UsadasDe(conexiones), archivo', 1 .. Len(archivo'))
  BY <1>1, EscritoIgual DEF Cerrar, Sincronia
<1>3. GrafoVisible = GrafoDe(conexiones, UsadasDe(conexiones))
  <2>1. EsGrafo(GrafoVisible, conexiones, UsadasDe(conexiones))
    BY <1>1, Abierta, VisiblesSinBucle
  <2>2. QED
    BY <2>1, Tabla, GrafoEs, GrafoUnico
<1>4. EnDisco' = GrafoDe(conexiones, UsadasDe(conexiones))
  <2>1. DOMAIN archivo' = 1 .. Len(archivo')
    BY DEF Inductiva, ArchivoTipado
  <2>2. Distintos(archivo', 1 .. Len(archivo'))
    BY DEF Inductiva, ArchivoSinRepetidos, Distintos
  <2>3. QED
    BY <1>2, <2>1, <2>2, Tabla, MismoGrafo DEF EnDisco
<1>5. GrafoVisible' = EnDisco'
  BY <1>1 DEF GrafoVisible, EnDisco
<1>6. QED
  BY <1>1, <1>3, <1>4, <1>5 DEF Grafo!Guardar, EnDisco

LEMMA PasoMorir ==
  ASSUME Inductiva, Morir
  PROVE  Grafo!Perder
BY DEF Morir, Grafo!Perder, GrafoVisible

LEMMA PasoAbrir ==
  ASSUME Inductiva, Abrir
  PROVE  Grafo!Abrir
BY DEF Abrir, Grafo!Abrir, GrafoVisible

LEMMA PasoCargar ==
  ASSUME Inductiva, Inductiva', Sincronia, CargarConexion \/ CargarFin
  PROVE  UNCHANGED Grafo!vars
<1>1. CASE CargarConexion
  BY <1>1 DEF CargarConexion, Grafo!vars, GrafoVisible
<1>2. CASE CargarFin
  <2>1. /\ sesion = "cargando" /\ sesion' = "abierta" /\ archivo' = archivo
        /\ conexiones' = conexiones /\ bucle' = bucle /\ indice = Len(archivo)
    BY <1>2 DEF CargarFin
  <2>2. MismasConexiones(conexiones, UsadasDe(conexiones), archivo, 1 .. Len(archivo))
    BY <2>1 DEF Sincronia
  <2>3. EnDisco = GrafoDe(conexiones, UsadasDe(conexiones))
    BY <2>2, DiscoEs, Tabla
  <2>4. Visibles' = UsadasDe(conexiones)
    <3>1. bucle.fase # "olvidar"
      BY <2>1 DEF Inductiva, SegunSesion
    <3>2. QED
      BY <2>1, <3>1 DEF Visibles, Usadas, UsadasDe
  <2>5. GrafoVisible' = GrafoDe(conexiones', Visibles')
    BY <2>1 DEF GrafoVisible, Visibles
  <2>6. GrafoVisible = EnDisco
    BY <2>1 DEF GrafoVisible, EnDisco
  <2>7. GrafoVisible' = GrafoVisible
    BY <2>1, <2>3, <2>4, <2>5, <2>6
  <2>8. QED
    BY <2>1, <2>7 DEF Grafo!vars
<1>3. QED
  BY <1>1, <1>2

-----------------------------------------------------------------------------
(* The theorem.                                                            *)

LEMMA GrafoVacio ==
  ASSUME NEW t
  PROVE  GrafoDe(t, {}) = <<>>
<1>1. GrafoDe(t, {}) = [p \in {} |-> p]
  BY DEF GrafoDe
<1>2. <<>> = [p \in {} |-> p]
  OBVIOUS
<1>3. QED
  BY <1>1, <1>2

LEMMA PasoInicial ==
  ASSUME Init
  PROVE  Grafo!Init
<1>1. Usadas = {}
  BY DEF Init, Usadas, Vacia
<1>2. GrafoVisible = GrafoDe(conexiones, {})
  BY <1>1 DEF Init, GrafoVisible
<1>3. DOMAIN archivo = {}
  BY DEF Init
<1>4. QED
  BY <1>2, <1>3, GrafoVacio DEF Init, Grafo!Init

LEMMA Pasos ==
  ASSUME Inductiva, Inductiva', Sincronia, [Next]_vars
  PROVE  [Grafo!Next]_(Grafo!vars)
<1>1. CASE \E p \in Pares, c \in Cambios, t \in Tipos : AgregarConexion(p[1], p[2], c, t)
  BY <1>1, PasoAsociar DEF Grafo!Next
<1>2. CASE \E p \in Pares, d \in Deltas : PenalizarAsociacion(p[1], p[2], d)
  BY <1>2, PasoPenalizar DEF Grafo!Next
<1>3. CASE \E id \in Ids, d \in Deltas : ReforzarConcepto(id, d) \/ PenalizarConcepto(id, d)
  BY <1>3, PasoReforzar, PasoPenalizarConcepto DEF Grafo!Next
<1>4. CASE \E f \in Factores, n \in Pasadas, u \in Umbrales :
             Decaer(f, n, u) \/ \E b \in Impulsos : ConsolidarMemoriaSueno(f, n, u, b)
  BY <1>4, PasoDecaer, PasoSueno DEF Grafo!Next
<1>5. CASE \E u \in Umbrales : Olvidar(u)
  BY <1>5, PasoOlvidar DEF Grafo!Next
<1>6. CASE OlvidarRanura
  BY <1>6, PasoRanura
<1>7. CASE OlvidarFin
  BY <1>7, PasoOlvidarFin DEF Grafo!Next
<1>8. CASE \E b \in Impulsos : Consolidar(b)
  <2>1. PICK b \in Impulsos : Consolidar(b)
    BY <1>8
  <2>2. Grafo!Consolidar(b)
    BY <2>1, PasoConsolidar, VisiblesSinBucle DEF Consolidar, Libre
  <2>3. QED
    BY <2>2 DEF Grafo!Next
<1>9. CASE Cerrar
  BY <1>9, PasoCerrar DEF Grafo!Next
<1>10. CASE Morir
  BY <1>10, PasoMorir DEF Grafo!Next
<1>11. CASE Abrir
  BY <1>11, PasoAbrir DEF Grafo!Next
<1>12. CASE CargarConexion \/ CargarFin
  BY <1>12, PasoCargar
<1>13. CASE UNCHANGED vars
  BY <1>13 DEF vars, memoria, Grafo!vars, GrafoVisible, Usadas
<1>14. QED
  BY <1>1, <1>2, <1>3, <1>4, <1>5, <1>6, <1>7, <1>8, <1>9, <1>10, <1>11, <1>12, <1>13 DEF Next

LEMMA SincroniaInicial == Init => Sincronia
BY DEF Init, Sincronia, MismasConexiones, UsadasDe, Vacia

\* What the callers of memoria_neuronal_conexiones.c see, and what they find after
\* a close, a death or an open, is a graph of associations: slots, chains, the
\* order of the file and the steps of the loops never show.
THEOREM TablaImplementaGrafo == Spec => ImplementaGrafo
<1>1. Init => Grafo!Init
  BY PasoInicial
<1>2. Inductiva /\ Inductiva' /\ Sincronia /\ [Next]_vars => [Grafo!Next]_(Grafo!vars)
  BY Pasos
<1>3. Inductiva /\ Inductiva' /\ Sincronia /\ [Next]_vars => Sincronia'
  BY SincroniaSigue
<1>4. QED
  BY <1>1, <1>2, <1>3, SincroniaInicial, InductivaSiempre, PTL
     DEF Spec, ImplementaGrafo, Grafo!Spec
=============================================================================
