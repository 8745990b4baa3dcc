--------------------------- MODULE VmListasProofs ---------------------------
(***************************************************************************)
(* Proofs about VmListas, for every set of lists and unions and every bit  *)
(* pattern of the key that makes the id of a union.                        *)
(***************************************************************************)
EXTENDS VmListas, TLAPS

USE ListasAssumption

Tamanos == UNION {[S -> 0 .. MaxTam] : S \in SUBSET Ids}

\* Every table maps some of the ids to sizes.
TablasTipadas ==
  /\ colecciones \in Tamanos /\ neuronal \in Tamanos /\ disco \in Tamanos
  /\ cache \in Tamanos /\ abierta \in BOOLEAN

\* The inductive invariant: the union adds the sizes of its operands, which
\* must be numbers for the order of the sum not to matter.
Inductiva == TablasTipadas /\ CacheExacta

\* What a table is, and how it may be built.
LEMMA TablaTipada ==
  ASSUME NEW f \in Tamanos
  PROVE  /\ DOMAIN f \subseteq Ids
         /\ \A k \in DOMAIN f : f[k] \in 0 .. MaxTam
         /\ f = [k \in DOMAIN f |-> f[k]]
BY DEF Tamanos

LEMMA TablaHecha ==
  ASSUME NEW f, f = [k \in DOMAIN f |-> f[k]], DOMAIN f \subseteq Ids,
         \A k \in DOMAIN f : f[k] \in 0 .. MaxTam
  PROVE  f \in Tamanos
BY DEF Tamanos

LEMMA TablaVacia == Vacio \in Tamanos /\ DOMAIN Vacio = {}
<1>1. DOMAIN Vacio = {} /\ Vacio = [k \in DOMAIN Vacio |-> Vacio[k]]
  BY DEF Vacio
<1>2. QED
  BY <1>1, TablaHecha

LEMMA TablaCon ==
  ASSUME NEW f \in Tamanos, NEW l \in Ids, NEW n \in 0 .. MaxTam
  PROVE  /\ Con(f, l, n) \in Tamanos
         /\ DOMAIN Con(f, l, n) = DOMAIN f \cup {l}
         /\ Con(f, l, n)[l] = n
         /\ \A k \in DOMAIN f \ {l} : Con(f, l, n)[k] = f[k]
<1> DEFINE g == Con(f, l, n)
<1>1. /\ DOMAIN g = DOMAIN f \cup {l}
      /\ g[l] = n
      /\ \A k \in DOMAIN f \ {l} : g[k] = f[k]
  BY DEF Con
<1>2. g = [k \in DOMAIN g |-> g[k]]
  BY DEF Con
<1>3. DOMAIN g \subseteq Ids /\ \A k \in DOMAIN g : g[k] \in 0 .. MaxTam
  BY <1>1, TablaTipada
<1>4. g \in Tamanos
  <2> HIDE DEF g
  <2> QED
    BY <1>2, <1>3, TablaHecha
<1>5. QED
  BY <1>1, <1>4

LEMMA TablaSin ==
  ASSUME NEW f \in Tamanos, NEW l
  PROVE  /\ Sin(f, l) \in Tamanos
         /\ DOMAIN Sin(f, l) = DOMAIN f \ {l}
         /\ \A k \in DOMAIN f \ {l} : Sin(f, l)[k] = f[k]
<1> DEFINE g == Sin(f, l)
<1>1. /\ DOMAIN g = DOMAIN f \ {l}
      /\ \A k \in DOMAIN f \ {l} : g[k] = f[k]
      /\ g = [k \in DOMAIN g |-> g[k]]
  BY DEF Sin
<1>2. g \in Tamanos
  <2>1. DOMAIN g \subseteq Ids /\ \A k \in DOMAIN g : g[k] \in 0 .. MaxTam
    BY <1>1, TablaTipada
  <2> HIDE DEF g
  <2> QED
    BY <1>1, <2>1, TablaHecha
<1>3. QED
  BY <1>1, <1>2

LEMMA TablaSalvo ==
  ASSUME NEW f \in Tamanos, NEW l \in DOMAIN f, NEW n \in 0 .. MaxTam
  PROVE  /\ [f EXCEPT ![l] = n] \in Tamanos
         /\ DOMAIN [f EXCEPT ![l] = n] = DOMAIN f
         /\ [f EXCEPT ![l] = n][l] = n
         /\ \A k \in DOMAIN f \ {l} : [f EXCEPT ![l] = n][k] = f[k]
<1>1. PICK S \in SUBSET Ids : f \in [S -> 0 .. MaxTam]
  BY DEF Tamanos
<1>2. [f EXCEPT ![l] = n] \in [S -> 0 .. MaxTam]
  BY <1>1
<1>3. [f EXCEPT ![l] = n] \in Tamanos
  BY <1>2 DEF Tamanos
<1>4. QED
  BY <1>1, <1>3

LEMMA TamanoTipado ==
  ASSUME NEW f \in Tamanos, NEW l
  PROVE  Tam(f, l) \in 0 .. MaxTam
BY TablaTipada DEF Tam

-----------------------------------------------------------------------------
(* Each operation keeps the tables typed.                                  *)

LEMMA ListasTipadas ==
  ASSUME TablasTipadas, NEW l \in Ids, NEW n \in 0 .. MaxTam,
         \/ Crear(l) \/ Limpiar(l) \/ Liberar(l) \/ Tamano(l) \/ Dividir(l, n) \/ Rellenar(l, n)
  PROVE  TablasTipadas'
<1>1. 0 \in 0 .. MaxTam
  OBVIOUS
<1>2. CASE Crear(l)
  <2>1. Con(neuronal, l, 0) \in Tamanos /\ Con(colecciones, l, 0) \in Tamanos
    BY <1>1, TablaCon DEF TablasTipadas
  <2>2. Con(cache, l, 0) \in Tamanos
    BY <1>1, TablaCon DEF TablasTipadas
  <2>3. QED
    BY <1>2, <2>1, <2>2 DEF Crear, TablasTipadas
<1>3. CASE Limpiar(l)
  BY <1>1, <1>3, TablaCon, TablaSalvo DEF Limpiar, TablasTipadas, EnColecciones
<1>4. CASE Liberar(l)
  BY <1>4, TablaSin DEF Liberar, TablasTipadas
<1>5. CASE Tamano(l)
  <2>1. TamanoVisible(l) \in 0 .. MaxTam
    BY TamanoTipado, TablaTipada DEF TablasTipadas, TamanoVisible, EnNeuronal
  <2>2. QED
    BY <1>5, <2>1, TablaCon DEF Tamano, TablasTipadas
<1>6. CASE Dividir(l, n)
  BY <1>6, TablaCon DEF Dividir, TablasTipadas
<1>7. CASE Rellenar(l, n)
  BY <1>7, TablaCon DEF Rellenar, TablasTipadas
<1>8. QED
  BY <1>2, <1>3, <1>4, <1>5, <1>6, <1>7

LEMMA AgregarTipado ==
  ASSUME TablasTipadas, NEW l \in Ids, Agregar(l)
  PROVE  TablasTipadas'
<1>1. cache' \in Tamanos
  <2>1. CASE l \in DOMAIN cache
    <3>1. cache[l] + 1 \in 0 .. MaxTam /\ cache' = [cache EXCEPT ![l] = cache[l] + 1]
      BY <2>1, TablaTipada DEF Agregar, TablasTipadas, Tam
    <3>2. QED
      BY <2>1, <3>1, TablaSalvo DEF TablasTipadas
  <2>2. CASE l \notin DOMAIN cache
    BY <2>2 DEF Agregar, TablasTipadas
  <2>3. QED
    BY <2>1, <2>2
<1>2. CASE EnNeuronal(l)
  <2>1. /\ l \in DOMAIN neuronal /\ neuronal[l] + 1 \in 0 .. MaxTam
        /\ neuronal' = [neuronal EXCEPT ![l] = neuronal[l] + 1]
    BY <1>2, TablaTipada DEF Agregar, TablasTipadas, EnNeuronal, TamanoVisible
  <2>2. QED
    BY <1>1, <1>2, <2>1, TablaSalvo DEF TablasTipadas, Agregar
<1>3. CASE ~EnNeuronal(l)
  <2>1. Tam(colecciones, l) + 1 \in 0 .. MaxTam
    BY <1>3, TamanoTipado DEF Agregar, TablasTipadas, TamanoVisible
  <2>2. Con(colecciones, l, Tam(colecciones, l) + 1) \in Tamanos
    BY <2>1, TablaCon DEF TablasTipadas
  <2>3. QED
    BY <1>1, <1>3, <2>2 DEF TablasTipadas, Agregar
<1>4. QED
  BY <1>2, <1>3

LEMMA UnirTipado ==
  ASSUME TablasTipadas, NEW u \in Uniones, Unir(u[1], u[2])
  PROVE  TablasTipadas'
<1> DEFINE d   == IdUnion(u[1], u[2])
           tam == Tam(colecciones, d) + Tam(colecciones, u[1]) + Tam(colecciones, u[2])
<1>1. d \in Ids
  BY DEF Ids
<1>2. tam \in 0 .. MaxTam
  BY TamanoTipado DEF TablasTipadas, Unir
<1>3. colecciones' = Con(colecciones, d, tam) /\ UNCHANGED <<neuronal, abierta, disco>>
  BY DEF Unir
<1>4. CASE {u[1], u[2]} \subseteq DOMAIN cache
  <2>1. cache[u[1]] + cache[u[2]] \in 0 .. MaxTam
    BY <1>4, TablaTipada DEF TablasTipadas, Unir
  <2>2. cache' = Con(cache, d, cache[u[1]] + cache[u[2]])
    BY <1>4 DEF Unir
  <2> HIDE DEF d, tam
  <2>3. QED
    BY <1>1, <1>2, <1>3, <2>1, <2>2, TablaCon DEF TablasTipadas
<1>5. CASE ~({u[1], u[2]} \subseteq DOMAIN cache)
  <2>1. cache' = cache
    BY <1>5 DEF Unir
  <2> HIDE DEF d, tam
  <2>2. QED
    BY <1>1, <1>2, <1>3, <2>1, TablaCon DEF TablasTipadas
<1>6. QED
  BY <1>4, <1>5

LEMMA SesionTipada ==
  ASSUME TablasTipadas, NEW l \in Ids, NEW n \in 0 .. MaxTam,
         Ajustar(l, n) \/ MemCrear \/ MemCerrar
  PROVE  TablasTipadas'
<1>1. CASE Ajustar(l, n)
  BY <1>1, TablaSalvo, TablaVacia DEF Ajustar, TablasTipadas, EnNeuronal, EnColecciones
<1>2. CASE MemCrear
  BY <1>2 DEF MemCrear, TablasTipadas
<1>3. CASE MemCerrar
  BY <1>3, TablaVacia DEF MemCerrar, TablasTipadas
<1>4. QED
  BY <1>1, <1>2, <1>3

-----------------------------------------------------------------------------
(* Each operation keeps the cache exact.                                   *)

\* What an operation on list l must leave alone: the other lists, as the two
\* tables and the cache have them.
SoloToca(l) ==
  /\ abierta' = abierta
  /\ \A k \in Ids \ {l} :
       /\ k \in DOMAIN colecciones' <=> k \in DOMAIN colecciones
       /\ k \in DOMAIN neuronal' <=> k \in DOMAIN neuronal
       /\ k \in DOMAIN colecciones => colecciones'[k] = colecciones[k]
       /\ k \in DOMAIN neuronal => neuronal'[k] = neuronal[k]
       /\ k \in DOMAIN cache' \ desfasadas' => /\ k \in DOMAIN cache \ desfasadas
                                               /\ cache'[k] = cache[k]

\* Then the cache is exact when it is for that list.
LEMMA BastaLaTocada ==
  ASSUME Inductiva, TablasTipadas', NEW l \in Ids, SoloToca(l),
         l \in DOMAIN cache' \ desfasadas' => cache'[l] = TamanoVisible(l)'
  PROVE  CacheExacta'
<1> SUFFICES ASSUME NEW k \in DOMAIN cache' \ desfasadas' PROVE cache'[k] = TamanoVisible(k)'
  BY DEF CacheExacta
<1>1. CASE k = l
  BY <1>1
<1>2. CASE k # l
  <2>1. k \in Ids
    BY TablaTipada DEF TablasTipadas
  <2>2. k \in DOMAIN cache \ desfasadas /\ cache'[k] = cache[k]
    BY <1>2, <2>1 DEF SoloToca
  <2>3. cache[k] = TamanoVisible(k)
    BY <2>2 DEF Inductiva, CacheExacta
  <2>4. TamanoVisible(k)' = TamanoVisible(k)
    BY <1>2, <2>1 DEF SoloToca, TamanoVisible, EnNeuronal, EnColecciones, Tam
  <2>5. QED
    BY <2>2, <2>3, <2>4
<1>3. QED
  BY <1>1, <1>2

LEMMA ListasExactas ==
  ASSUME Inductiva, TablasTipadas', NEW l \in Ids, NEW n \in 0 .. MaxTam,
         \/ Crear(l) \/ Limpiar(l) \/ Liberar(l) \/ Tamano(l) \/ Dividir(l, n) \/ Rellenar(l, n)
  PROVE  CacheExacta'
<1> USE DEF Inductiva, TablasTipadas
<1>1. CASE Crear(l)
  <2>1. SoloToca(l)
    BY <1>1 DEF Crear, SoloToca, Con
  <2>2. l \in DOMAIN cache' \ desfasadas' => cache'[l] = TamanoVisible(l)'
    BY <1>1 DEF Crear, Con, TamanoVisible, EnNeuronal, EnColecciones, Tam
  <2>3. QED
    BY <2>1, <2>2, BastaLaTocada
<1>2. CASE Limpiar(l)
  <2>1. SoloToca(l)
    BY <1>2 DEF Limpiar, SoloToca, Con, EnColecciones
  <2>2. l \in DOMAIN cache' \ desfasadas' => cache'[l] = TamanoVisible(l)'
    BY <1>2 DEF Limpiar, Con, TamanoVisible, EnNeuronal, EnColecciones, Tam
  <2>3. QED
    BY <2>1, <2>2, BastaLaTocada
<1>3. CASE Liberar(l)
  <2>1. SoloToca(l) /\ l \in desfasadas'
    BY <1>3 DEF Sin, Liberar, SoloToca
  <2>2. QED
    BY <2>1, BastaLaTocada
<1>4. CASE Tamano(l)
  <2>1. SoloToca(l)
    BY <1>4 DEF Con, Tamano, SoloToca
  <2>2. cache'[l] = TamanoVisible(l)'
    BY <1>4 DEF Con, Tamano, TamanoVisible, EnNeuronal, EnColecciones, Tam
  <2>3. QED
    BY <2>1, <2>2, BastaLaTocada
<1>5. CASE Dividir(l, n)
  <2>1. SoloToca(l)
    BY <1>5 DEF Con, Dividir, SoloToca
  <2>2. cache'[l] = TamanoVisible(l)'
    BY <1>5 DEF Con, Dividir, TamanoVisible, EnNeuronal, EnColecciones, Tam
  <2>3. QED
    BY <2>1, <2>2, BastaLaTocada
<1>6. CASE Rellenar(l, n)
  <2>1. SoloToca(l) /\ l \in desfasadas'
    BY <1>6 DEF Con, Rellenar, SoloToca
  <2>2. QED
    BY <2>1, BastaLaTocada
<1>7. QED
  BY <1>1, <1>2, <1>3, <1>4, <1>5, <1>6

LEMMA AgregarExacto ==
  ASSUME Inductiva, TablasTipadas', NEW l \in Ids, Agregar(l)
  PROVE  CacheExacta'
<1> USE DEF Inductiva, TablasTipadas
<1>1. l \in DOMAIN cache \ desfasadas => cache[l] = TamanoVisible(l)
  BY DEF CacheExacta
<1>2. /\ DOMAIN cache' = DOMAIN cache /\ desfasadas' = desfasadas /\ abierta' = abierta
      /\ \A k \in DOMAIN cache : cache'[k] = IF k = l THEN cache[l] + 1 ELSE cache[k]
  BY DEF Agregar
<1>3. CASE EnNeuronal(l)
  <2>1. /\ colecciones' = colecciones /\ DOMAIN neuronal' = DOMAIN neuronal
        /\ neuronal'[l] = neuronal[l] + 1
        /\ \A k \in DOMAIN neuronal \ {l} : neuronal'[k] = neuronal[k]
    BY <1>3 DEF Agregar, EnNeuronal
  <2>2. SoloToca(l)
    BY <1>2, <2>1 DEF SoloToca
  <2>3. l \in DOMAIN cache' \ desfasadas' => cache'[l] = TamanoVisible(l)'
    BY <1>1, <1>2, <1>3, <2>1 DEF TamanoVisible, EnNeuronal, EnColecciones
  <2>4. QED
    BY <2>2, <2>3, BastaLaTocada
<1>4. CASE ~EnNeuronal(l)
  <2>1. Tam(colecciones, l) + 1 \in 0 .. MaxTam
    BY <1>4, TamanoTipado DEF Agregar, TamanoVisible
  <2>2. neuronal' = neuronal /\ colecciones' = Con(colecciones, l, Tam(colecciones, l) + 1)
    BY <1>4 DEF Agregar
  <2>3. /\ DOMAIN colecciones' = DOMAIN colecciones \cup {l}
        /\ colecciones'[l] = Tam(colecciones, l) + 1
        /\ \A k \in DOMAIN colecciones \ {l} : colecciones'[k] = colecciones[k]
    BY <2>1, <2>2, TablaCon
  <2>4. SoloToca(l)
    BY <1>2, <2>2, <2>3 DEF SoloToca
  <2>5. l \in DOMAIN cache' \ desfasadas' => cache'[l] = TamanoVisible(l)'
    BY <1>1, <1>2, <1>4, <2>3 DEF TamanoVisible, EnNeuronal, EnColecciones, Tam
  <2>6. QED
    BY <2>4, <2>5, BastaLaTocada
<1>5. QED
  BY <1>3, <1>4

LEMMA UnirExacto ==
  ASSUME Inductiva, TablasTipadas', NEW u \in Uniones, Unir(u[1], u[2])
  PROVE  CacheExacta'
<1> USE DEF Inductiva, TablasTipadas
<1> DEFINE d     == IdUnion(u[1], u[2])
           tam   == Tam(colecciones, d) + Tam(colecciones, u[1]) + Tam(colecciones, u[2])
           ambas == {u[1], u[2]} \subseteq DOMAIN cache
<1>1. d \in Ids
  BY DEF Ids
<1>2. /\ colecciones' = Con(colecciones, d, tam)
      /\ cache' = IF ambas THEN Con(cache, d, cache[u[1]] + cache[u[2]]) ELSE cache
      /\ UNCHANGED <<neuronal, abierta, disco>>
      /\ desfasadas' = desfasadas \cup {d} \/ desfasadas' = desfasadas \ {d}
      /\ ~ambas => d \in desfasadas'
  BY DEF Unir
<1>3. d \notin desfasadas' => /\ ambas /\ d \notin DOMAIN colecciones
                              /\ cache[u[1]] = Tam(colecciones, u[1])
                              /\ cache[u[2]] = Tam(colecciones, u[2])
  BY DEF Unir, CacheExacta, TamanoVisible, EnNeuronal, EnColecciones
<1>4. Tam(colecciones, u[1]) \in Nat /\ Tam(colecciones, u[2]) \in Nat
  BY TamanoTipado
<1>5. d \notin DOMAIN colecciones => tam = Tam(colecciones, u[1]) + Tam(colecciones, u[2])
  BY <1>4 DEF Tam
<1> HIDE DEF d, tam, ambas
<1>6. SoloToca(d)
  BY <1>2 DEF Con, SoloToca
<1>7. d \notin desfasadas' => cache'[d] = TamanoVisible(d)'
  BY <1>2, <1>3, <1>5 DEF Con, TamanoVisible, EnNeuronal, EnColecciones, Tam
<1>8. QED
  BY <1>1, <1>6, <1>7, BastaLaTocada

LEMMA SesionExacta ==
  ASSUME Inductiva, TablasTipadas', NEW l, NEW n,
         Ajustar(l, n) \/ MemCrear \/ MemCerrar
  PROVE  CacheExacta'
<1> USE DEF Inductiva, TablasTipadas, CacheExacta
<1>1. CASE Ajustar(l, n)
  BY <1>1, TablaVacia DEF Ajustar
<1>2. CASE MemCrear
  BY <1>2 DEF MemCrear, TamanoVisible, EnNeuronal, EnColecciones, Tam
<1>3. CASE MemCerrar
  BY <1>3 DEF MemCerrar, TamanoVisible, EnNeuronal, EnColecciones, Tam
<1>4. QED
  BY <1>1, <1>2, <1>3

-----------------------------------------------------------------------------
\* The tables of lists stay tables of lists, whatever the program does.
LEMMA InductivaSiempre == Spec => []Inductiva
<1>1. Init => Inductiva
  BY TablaVacia DEF Init, Inductiva, TablasTipadas, CacheExacta
<1>2. Inductiva /\ [Next]_vars => Inductiva'
  <2> SUFFICES ASSUME Inductiva, [Next]_vars PROVE TablasTipadas' /\ CacheExacta'
    BY DEF Inductiva
  <2>1. TablasTipadas
    BY DEF Inductiva
  <2>2. Creadas \subseteq Ids /\ Divididas \subseteq Ids /\ Rellenadas \subseteq Ids
    BY DEF Ids
  <2>3. ASSUME NEW l \in Ids, NEW n \in 0 .. MaxTam,
               \/ Crear(l) \/ Limpiar(l) \/ Liberar(l) \/ Tamano(l)
               \/ Dividir(l, n) \/ Rellenar(l, n)
        PROVE  TablasTipadas' /\ CacheExacta'
    BY <2>1, <2>3, ListasTipadas, ListasExactas
  <2>4. ASSUME NEW l \in Ids, Agregar(l) PROVE TablasTipadas' /\ CacheExacta'
    BY <2>1, <2>4, AgregarTipado, AgregarExacto
  <2>5. ASSUME NEW u \in Uniones, Unir(u[1], u[2]) PROVE TablasTipadas' /\ CacheExacta'
    BY <2>1, <2>5, UnirTipado, UnirExacto
  <2>6. ASSUME NEW l \in Ids, NEW n \in 0 .. MaxTam, Ajustar(l, n)
        PROVE  TablasTipadas' /\ CacheExacta'
    BY <2>1, <2>6, SesionTipada, SesionExacta
  <2>7. CASE MemCrear \/ MemCerrar
    <3>1. TablasTipadas'
      BY <2>1, <2>7, TablaVacia DEF MemCrear, MemCerrar, TablasTipadas
    <3>2. QED
      BY <2>7, <3>1, SesionExacta
  <2>8. CASE UNCHANGED vars
    BY <2>8 DEF vars, Inductiva, TablasTipadas, CacheExacta, TamanoVisible, EnNeuronal,
                EnColecciones
  <2>9. 0 \in 0 .. MaxTam
    OBVIOUS
  <2>10. QED
    BY <2>2, <2>3, <2>4, <2>5, <2>6, <2>7, <2>8, <2>9 DEF Next
<1>3. QED
  BY <1>1, <1>2, PTL DEF Spec

\* A size served from the cache (OP_MEM_LISTA_TAMANO) is that of the list the
\* program reads and writes, but for the ids passed by: whatever lists are
\* created, joined, freed and filled in either memory, in any order.
THEOREM CacheSiempreExacta == Spec => []CacheExacta
<1>1. Inductiva => CacheExacta
  BY DEF Inductiva
<1>2. QED
  BY <1>1, InductivaSiempre, PTL
=============================================================================
