--------------------------- MODULE JmnConexiones ---------------------------
(***************************************************************************)
(* The connection table of JMN (memoria_neuronal_conexiones.c) with its    *)
(* life on disk (memoria_neuronal_core.c, memoria_neuronal_io.c).          *)
(*                                                                         *)
(* A connection takes the first free slot from a hash of its two concepts, *)
(* and is pushed in front of the chain of its origin's bucket; buckets are *)
(* shared by origins.  A close writes the used slots in slot order and an  *)
(* open inserts them one by one into a fresh table, where they may land in *)
(* other slots and other orders.  The loops that unlink or insert are      *)
(* stepped; what becomes of a file that is only partly written is the      *)
(* subject of JmnPersistencia.                                             *)
(***************************************************************************)
EXTENDS JmnFuerzas, Sequences, FiniteSets

CONSTANTS
  Ids, Pares, Tipos, Cambios, Deltas, Factores, Pasadas, Umbrales, Impulsos, Tope,  \* as in JmnGrafo
  CapNodos, CapConexiones

ASSUME TablaAssumption ==
  /\ CapNodos \in Nat \ {0} /\ CapConexiones \in Nat \ {0}
  /\ Ids \subseteq Nat \ {0} /\ Pares \subseteq Ids \X Ids
  /\ Cambios \subseteq Int /\ Deltas \subseteq Nat \ {0} /\ Tope \in Nat
  /\ Umbrales \subseteq Int /\ Impulsos \subseteq Int
  /\ Factores \subseteq Int /\ Pasadas \subseteq Int

VARIABLES
  conexiones,       \* JMNEntradaConexion per slot
  cabeza_origen,    \* first slot of each bucket's chain
  num_conexiones,
  dirty,
  sesion,           \* "cerrada", "caida" with its process, "cargando", "abierta"
  archivo,          \* the records on disk, as a sequence
  indice,           \* next slot of the running loop, or next record to read
  bucle,            \* the loop of jmn_olvidar_conexiones_debiles, when it runs
  colgado           \* the search for a free slot never ends

memoria == <<conexiones, cabeza_origen, num_conexiones, dirty>>
vars == <<memoria, sesion, archivo, indice, bucle, colgado>>

Ranuras == 0 .. CapConexiones - 1
NIL     == CapConexiones            \* 0xFFFFFFFF
Cubetas == 0 .. CapNodos

Cubeta(o)    == o % (CapNodos + 1)
Inicio(o, d) == (o * 31 + d) % CapConexiones

\* calloc leaves every field 0; only the chain heads are set to NIL.
Vacia == [used |-> FALSE, origen_id |-> 0, destino_id |-> 0, key_id |-> 0,
          fuerza |-> 0, next_origen |-> 0]

TablaNueva ==
  /\ conexiones' = [s \in Ranuras |-> Vacia]
  /\ cabeza_origen' = [b \in Cubetas |-> NIL]
  /\ num_conexiones' = 0

SinBucle == [fase |-> "no", umbral |-> 0, impulsos |-> {}]

Init ==
  /\ conexiones = [s \in Ranuras |-> Vacia]
  /\ cabeza_origen = [b \in Cubetas |-> NIL]
  /\ num_conexiones = 0 /\ dirty = FALSE
  /\ sesion = "abierta" /\ archivo = <<>>
  /\ indice = 0 /\ bucle = SinBucle /\ colgado = FALSE

Usadas == {s \in Ranuras : conexiones[s].used}

\* The slots that a walk along the chain of bucket b visits: the least set that
\* holds the head and the successor of each of its slots.
Cerrado(S, b) ==
  /\ cabeza_origen[b] \in S \cup {NIL}
  /\ \A s \in S : conexiones[s].next_origen \in S \cup {NIL}
Cadena(b) ==
  LET cerrados == {S \in SUBSET Ranuras : Cerrado(S, b)}
  IN  {s \in Ranuras : \A S \in cerrados : s \in S}

\* find_conex_slot
Halladas(o, d) ==
  {s \in Cadena(Cubeta(o)) : conexiones[s].origen_id = o /\ conexiones[s].destino_id = d}

\* The slot where the probe of alloc_conex_slot from i ends.
RanuraLibre(i) ==
  LET k == CHOOSE k \in 0 .. CapConexiones - 1 :
             /\ ~conexiones[(i + k) % CapConexiones].used
             /\ \A j \in 0 .. k - 1 : conexiones[(i + j) % CapConexiones].used
  IN  (i + k) % CapConexiones

\* alloc_conex_slot and the assignments that follow it.
Insertar(o, d, t, f) ==
  LET s == RanuraLibre(Inicio(o, d))
  IN  /\ Usadas # Ranuras
      /\ conexiones' = [conexiones EXCEPT ![s] =
           [used |-> TRUE, origen_id |-> o, destino_id |-> d, key_id |-> t,
            fuerza |-> f, next_origen |-> cabeza_origen[Cubeta(o)]]]
      /\ cabeza_origen' = [cabeza_origen EXCEPT ![Cubeta(o)] = s]
      /\ num_conexiones' = num_conexiones + 1

Libre == sesion = "abierta" /\ bucle = SinBucle /\ ~colgado

-----------------------------------------------------------------------------
(* Operations on single connections.                                       *)

\* Mutant of AgregarConexion: the table is not searched first.
AgregarSinBuscar(o, d, c, t) ==
  /\ Libre
  /\ c \in -Tope .. Tope
  /\ Insertar(o, d, t, c)
  /\ dirty' = TRUE
  /\ UNCHANGED <<sesion, archivo, indice, bucle, colgado>>

\* jmn_agregar_conexion: adds to the strength of a known connection, or inserts
\* it; with every slot taken the search for a free one goes on for ever.
AgregarConexion(o, d, c, t) ==
  /\ Libre
  /\ \/ \E s \in Halladas(o, d) :
          /\ conexiones[s].fuerza + c \in -Tope .. Tope
          /\ conexiones' = [conexiones EXCEPT ![s].fuerza = @ + c, ![s].key_id = t]
          /\ dirty' = TRUE
          /\ UNCHANGED <<cabeza_origen, num_conexiones, colgado>>
     \/ /\ Halladas(o, d) = {} /\ c \in -Tope .. Tope
        /\ Insertar(o, d, t, c)
        /\ dirty' = TRUE
        /\ UNCHANGED colgado
     \/ /\ Halladas(o, d) = {} /\ c \in -Tope .. Tope
        /\ Usadas = Ranuras
        /\ colgado' = TRUE
        /\ UNCHANGED memoria
  /\ UNCHANGED <<sesion, archivo, indice, bucle>>

\* jmn_penalizar_asociacion
PenalizarAsociacion(o, d, delta) ==
  /\ Libre
  /\ \E s \in Halladas(o, d) :
       /\ conexiones[s].fuerza > 0
       /\ conexiones' = [conexiones EXCEPT ![s].fuerza = Penalizada(@, delta)]
  /\ dirty' = TRUE
  /\ UNCHANGED <<cabeza_origen, num_conexiones, sesion, archivo, indice, bucle, colgado>>

-----------------------------------------------------------------------------
(* Operations on every connection.                                         *)

\* The used slots in S get F of their strength.
Recorrer(F(_), S) ==
  /\ conexiones' = [s \in Ranuras |->
       IF conexiones[s].used /\ s \in S
       THEN [conexiones[s] EXCEPT !.fuerza = F(@)] ELSE conexiones[s]]
  /\ dirty' = TRUE
  /\ UNCHANGED <<cabeza_origen, num_conexiones>>

DeConcepto(id) == {s \in Ranuras : conexiones[s].origen_id = id \/ conexiones[s].destino_id = id}

\* jmn_reforzar_concepto and jmn_penalizar_concepto
ReforzarConcepto(id, delta) ==
  /\ Libre
  /\ Recorrer(LAMBDA v : ReforzadaPor(v, delta), DeConcepto(id))
  /\ UNCHANGED <<sesion, archivo, indice, bucle, colgado>>

PenalizarConcepto(id, delta) ==
  /\ Libre
  /\ Recorrer(LAMBDA v : PenalizadaPor(v, delta), DeConcepto(id))
  /\ UNCHANGED <<sesion, archivo, indice, bucle, colgado>>

\* jmn_decaer_conexiones_global
Decaer(f, n, u) ==
  /\ Libre
  /\ Recorrer(LAMBDA v : Decaida(v, f, n, u), Ranuras)
  /\ UNCHANGED <<sesion, archivo, indice, bucle, colgado>>

\* The start of jmn_olvidar_conexiones_debiles.
Olvidar(u) ==
  /\ Libre
  /\ indice' = 0
  /\ bucle' = [fase |-> "olvidar", umbral |-> u, impulsos |-> {}]
  /\ UNCHANGED <<memoria, sesion, archivo, colgado>>

\* jmn_consolidar_memoria_sueno up to the start of its second phase.
ConsolidarMemoriaSueno(f, n, u, b) ==
  /\ Libre
  /\ Recorrer(LAMBDA v : Decaida(v, f, n, u), Ranuras)
  /\ indice' = 0
  /\ bucle' = [fase |-> "olvidar", umbral |-> u, impulsos |-> {b}]
  /\ UNCHANGED <<sesion, archivo, colgado>>

\* Mutant of Desenlazar: the predecessor keeps pointing at the slot.
DesenlazarSinPredecesor(s) ==
  LET b == Cubeta(conexiones[s].origen_id)
  IN  /\ cabeza_origen' = IF cabeza_origen[b] = s
                          THEN [cabeza_origen EXCEPT ![b] = conexiones[s].next_origen]
                          ELSE cabeza_origen
      /\ conexiones' = [conexiones EXCEPT ![s] = [Vacia EXCEPT !.next_origen = NIL]]
      /\ num_conexiones' = num_conexiones - 1

\* Mutant of Desenlazar: the counter stays.
DesenlazarSinRestar(s) ==
  LET b    == Cubeta(conexiones[s].origen_id)
      sig  == conexiones[s].next_origen
      prev == {r \in Cadena(b) : conexiones[r].next_origen = s}
  IN  /\ cabeza_origen' = IF cabeza_origen[b] = s THEN [cabeza_origen EXCEPT ![b] = sig]
                          ELSE cabeza_origen
      /\ conexiones' = [r \in Ranuras |->
           IF r = s THEN [Vacia EXCEPT !.next_origen = NIL]
           ELSE IF r \in prev THEN [conexiones[r] EXCEPT !.next_origen = sig]
           ELSE conexiones[r]]
      /\ UNCHANGED num_conexiones

\* unlink_conexion_origen on a used slot.
Desenlazar(s) ==
  LET b    == Cubeta(conexiones[s].origen_id)
      sig  == conexiones[s].next_origen
      prev == {r \in Cadena(b) : conexiones[r].next_origen = s}
  IN  /\ cabeza_origen' = IF cabeza_origen[b] = s THEN [cabeza_origen EXCEPT ![b] = sig]
                          ELSE cabeza_origen
      /\ conexiones' = [r \in Ranuras |->
           IF r = s THEN [Vacia EXCEPT !.next_origen = NIL]
           ELSE IF cabeza_origen[b] # s /\ r \in prev
           THEN [conexiones[r] EXCEPT !.next_origen = sig]
           ELSE conexiones[r]]
      /\ num_conexiones' = IF num_conexiones > 0 THEN num_conexiones - 1 ELSE num_conexiones

\* One iteration of jmn_olvidar_conexiones_debiles.
OlvidarRanura ==
  /\ bucle.fase = "olvidar" /\ indice < CapConexiones
  /\ indice' = indice + 1
  /\ \/ /\ conexiones[indice].used /\ Debil(conexiones[indice].fuerza, bucle.umbral)
        /\ Desenlazar(indice)
        /\ dirty' = TRUE
     \/ /\ ~(conexiones[indice].used /\ Debil(conexiones[indice].fuerza, bucle.umbral))
        /\ UNCHANGED memoria
  /\ UNCHANGED <<sesion, archivo, bucle, colgado>>

\* The loop ends; in the sleep the survivors are boosted next.
OlvidarFin ==
  /\ bucle.fase = "olvidar" /\ indice = CapConexiones
  /\ \/ bucle.impulsos = {} /\ UNCHANGED memoria
     \/ \E b \in bucle.impulsos : Recorrer(LAMBDA v : Consolidada(v, b), Ranuras)
  /\ indice' = 0 /\ bucle' = SinBucle
  /\ UNCHANGED <<sesion, archivo, colgado>>

\* jmn_consolidar_conexiones_supervivientes
Consolidar(b) ==
  /\ Libre
  /\ Recorrer(LAMBDA v : Consolidada(v, b), Ranuras)
  /\ UNCHANGED <<sesion, archivo, indice, bucle, colgado>>

-----------------------------------------------------------------------------
(* Sessions.                                                               *)

\* What jmn_io_guardar writes of a slot.
Registro(s) == [origen_id |-> conexiones[s].origen_id, destino_id |-> conexiones[s].destino_id,
                key_id |-> conexiones[s].key_id, fuerza |-> conexiones[s].fuerza]

\* Mutant of Escribir: free slots are written too.
EscribirTodas == [i \in 1 .. CapConexiones |-> Registro(i - 1)]

\* jmn_io_guardar: the used slots in slot order.
Escribir ==
  LET enesima(i) == CHOOSE s \in Usadas : Cardinality({r \in Usadas : r < s}) = i - 1
  IN  [i \in 1 .. Cardinality(Usadas) |-> Registro(enesima(i))]

\* Mutant of Cerrar: a table loaded from disk is taken as already saved.
CerrarSinGuardar ==
  /\ Libre
  /\ archivo' = IF dirty /\ archivo = <<>> THEN Escribir ELSE archivo
  /\ dirty' = FALSE
  /\ sesion' = "cerrada"
  /\ TablaNueva
  /\ UNCHANGED <<indice, bucle, colgado>>

\* jmn_cerrar: writes the table when it changed, then frees it.
Cerrar ==
  /\ Libre
  /\ archivo' = IF dirty THEN Escribir ELSE archivo
  /\ dirty' = FALSE
  /\ sesion' = "cerrada"
  /\ TablaNueva
  /\ UNCHANGED <<indice, bucle, colgado>>

\* The process dies, also in the middle of a loop.
Morir ==
  /\ sesion \in {"cargando", "abierta"}
  /\ dirty' = FALSE
  /\ sesion' = "caida" /\ indice' = 0 /\ bucle' = SinBucle /\ colgado' = FALSE
  /\ TablaNueva
  /\ UNCHANGED archivo

\* jmn_abrir_escritura: jmn_crear, then the loop of jmn_io_cargar.
Abrir ==
  /\ sesion \in {"cerrada", "caida"}
  /\ sesion' = "cargando" /\ indice' = 0
  /\ UNCHANGED <<memoria, archivo, bucle, colgado>>

\* One record: inserted without looking for an equal pair.
CargarConexion ==
  /\ sesion = "cargando" /\ indice < Len(archivo)
  /\ LET r == archivo[indice + 1]
     IN  Insertar(r.origen_id, r.destino_id, r.key_id, r.fuerza)
  /\ indice' = indice + 1
  /\ UNCHANGED <<dirty, sesion, archivo, bucle, colgado>>

CargarFin ==
  /\ sesion = "cargando" /\ indice = Len(archivo)
  /\ sesion' = "abierta" /\ indice' = 0 /\ dirty' = FALSE
  /\ UNCHANGED <<conexiones, cabeza_origen, num_conexiones, archivo, bucle, colgado>>

Next ==
  \/ \E p \in Pares, c \in Cambios, t \in Tipos : AgregarConexion(p[1], p[2], c, t)
  \/ \E p \in Pares, delta \in Deltas : PenalizarAsociacion(p[1], p[2], delta)
  \/ \E id \in Ids, delta \in Deltas : ReforzarConcepto(id, delta) \/ PenalizarConcepto(id, delta)
  \/ \E f \in Factores, n \in Pasadas, u \in Umbrales :
       Decaer(f, n, u) \/ \E b \in Impulsos : ConsolidarMemoriaSueno(f, n, u, b)
  \/ \E u \in Umbrales : Olvidar(u)
  \/ OlvidarRanura \/ OlvidarFin
  \/ \E b \in Impulsos : Consolidar(b)
  \/ Cerrar \/ Morir \/ Abrir \/ CargarConexion \/ CargarFin

Spec == Init /\ [][Next]_vars

-----------------------------------------------------------------------------
(* Properties.                                                             *)

Entrada == [used : BOOLEAN, origen_id : Ids \cup {0}, destino_id : Ids \cup {0},
            key_id : Tipos \cup {0}, fuerza : Int, next_origen : Ranuras \cup {NIL}]
RegistroEnDisco == [origen_id : Ids, destino_id : Ids, key_id : Tipos, fuerza : Int]

\* Types; the table never holds more connections than slots.
TypeOK ==
  /\ conexiones \in [Ranuras -> Entrada]
  /\ cabeza_origen \in [Cubetas -> Ranuras \cup {NIL}]
  /\ num_conexiones \in 0 .. CapConexiones /\ dirty \in BOOLEAN
  /\ sesion \in {"cerrada", "caida", "cargando", "abierta"}
  /\ archivo \in Seq(RegistroEnDisco) /\ Len(archivo) <= CapConexiones
  /\ indice \in 0 .. CapConexiones
  /\ bucle.fase \in {"no", "olvidar"} /\ bucle.umbral \in Umbrales \cup {0}
  /\ bucle.impulsos \in SUBSET Impulsos
  /\ colgado \in BOOLEAN

\* Every chain holds exactly the used slots of its bucket, each once: no slot is
\* the successor of two others, of itself or of none, and no chain loops.
CadenasExactas ==
  \A b \in Cubetas :
    LET deLaCubeta == {s \in Usadas : Cubeta(conexiones[s].origen_id) = b}
    IN  /\ Cadena(b) = deLaCubeta
        /\ \A s \in deLaCubeta :
             /\ conexiones[s].next_origen # cabeza_origen[b]
             /\ \A r \in deLaCubeta \ {s} :
                  conexiones[r].next_origen = conexiones[s].next_origen
                    => conexiones[s].next_origen = NIL

\* A pair of concepts has one connection, also after a table was written, read
\* back into other slots and changed again.
SinDuplicadas ==
  \A r, s \in Usadas :
    /\ conexiones[r].origen_id = conexiones[s].origen_id
    /\ conexiones[r].destino_id = conexiones[s].destino_id
    => r = s

\* The counter, written as the number of records to read back, counts the used slots.
ContadorExacto == num_conexiones = Cardinality(Usadas)

Par(r) == <<r.origen_id, r.destino_id>>

\* The graph of a set S of slots of a table or file t.
GrafoDe(t, S) ==
  [p \in {Par(t[s]) : s \in S} |->
     LET s == CHOOSE s \in S : Par(t[s]) = p IN [tipo |-> t[s].key_id, fuerza |-> t[s].fuerza]]

\* The graph a caller sees: during the loops, what they are about to leave.
GrafoVisible ==
  IF sesion # "abierta" THEN GrafoDe(archivo, DOMAIN archivo)
  ELSE GrafoDe(conexiones, {s \in Usadas : ~(/\ bucle.fase = "olvidar" /\ s >= indice
                                             /\ Debil(conexiones[s].fuerza, bucle.umbral))})

Grafo == INSTANCE JmnGrafo
         WITH grafo <- GrafoVisible, guardado <- GrafoDe(archivo, DOMAIN archivo),
              sesion <- IF sesion = "cargando" THEN "abierta" ELSE sesion

\* The table and its file implement the graph of JmnGrafo: no operation touches
\* a connection it is not about, no close or open loses or invents one, and a
\* death falls back to the graph of the last close.
ImplementaGrafo == Grafo!Spec
=============================================================================
