------------------------------ MODULE VmListas ------------------------------
(***************************************************************************)
(* The lists of a program (vm.c): two JMN memories that can hold a list of *)
(* the same id, the RAM one of the program (mem_colecciones) and the       *)
(* persistent one it may open (mem_neuronal), and the cache of list sizes  *)
(* that answers OP_MEM_LISTA_TAMANO before either is asked.                *)
(*                                                                         *)
(* A list is its number of items.  An id is the set of the bits that are 1 *)
(* in it, so that the id of a union is computed as the code does.  One     *)
(* persistent memory is opened and closed; its saves succeed (the others   *)
(* are the subject of JmnPersistencia).                                    *)
(***************************************************************************)
EXTENDS Integers

CONSTANTS
  Creadas,      \* ids given to OP_MEM_LISTA_CREAR
  Divididas,    \* ids of the lists of OP_STR_DIVIDIR_TEXTO
  Rellenadas,   \* ids of the lists the VM fills again and again
  Uniones,      \* pairs of ids given to OP_MEM_LISTA_UNIR
  Clave,        \* 0x12345678
  Alto,         \* the highest bit
  MaxTam        \* bound: items of a list, as it is and as the cache has it

ASSUME ListasAssumption ==
  /\ MaxTam \in Nat
  /\ \A u \in Uniones : u[1] # {} /\ u[2] # {}

VARIABLES
  colecciones, neuronal,    \* [ids that exist |-> items]
  abierta,                  \* mem_neuronal # NULL
  disco,                    \* what opening mem_neuronal would find
  cache,                    \* [ids with an entry |-> size]
  desfasadas                \* history: ids whose entry some operation went past

vars == <<colecciones, neuronal, abierta, disco, cache, desfasadas>>

Xor(x, y) == (x \ y) \cup (y \ x)
IdUnion(izq, der) == Xor(Xor(izq, der), Clave) \cup {Alto}

Ids == Creadas \cup Divididas \cup Rellenadas \cup {u[1] : u \in Uniones} \cup {u[2] : u \in Uniones}
         \cup {IdUnion(u[1], u[2]) : u \in Uniones}

Vacio == [l \in {} |-> 0]
Con(f, l, n) == [k \in DOMAIN f \cup {l} |-> IF k = l THEN n ELSE f[k]]
Sin(f, l)    == [k \in DOMAIN f \ {l} |-> f[k]]
Tam(f, l)    == IF l \in DOMAIN f THEN f[l] ELSE 0

\* The list that obtener, poner and agregar use: colecciones first.
EnColecciones(l) == l \in DOMAIN colecciones
EnNeuronal(l)    == ~EnColecciones(l) /\ abierta /\ l \in DOMAIN neuronal
TamanoVisible(l) == IF EnNeuronal(l) THEN neuronal[l] ELSE Tam(colecciones, l)

Init ==
  /\ colecciones = Vacio /\ neuronal = Vacio /\ abierta = FALSE /\ disco = Vacio
  /\ cache = Vacio /\ desfasadas = {}

-----------------------------------------------------------------------------
\* OP_MEM_LISTA_CREAR: in the persistent memory when one is open, even if the id
\* is a list of colecciones.
Crear(l) ==
  /\ IF abierta THEN neuronal' = Con(neuronal, l, 0) /\ UNCHANGED colecciones
                ELSE colecciones' = Con(colecciones, l, 0) /\ UNCHANGED neuronal
  /\ cache' = Con(cache, l, 0)
  /\ desfasadas' = IF abierta /\ EnColecciones(l) THEN desfasadas \cup {l} ELSE desfasadas \ {l}
  /\ UNCHANGED <<abierta, disco>>

\* OP_MEM_LISTA_AGREGAR
Agregar(l) ==
  /\ TamanoVisible(l) < MaxTam /\ Tam(cache, l) < MaxTam
  /\ IF EnNeuronal(l) THEN neuronal' = [neuronal EXCEPT ![l] = @ + 1] /\ UNCHANGED colecciones
     ELSE colecciones' = Con(colecciones, l, Tam(colecciones, l) + 1) /\ UNCHANGED neuronal
  /\ cache' = IF l \in DOMAIN cache THEN [cache EXCEPT ![l] = @ + 1] ELSE cache
  /\ UNCHANGED <<abierta, disco, desfasadas>>

\* OP_MEM_LISTA_UNIR: the sizes of the operands are those in colecciones, and the
\* items go after those the list of that id already has.
Unir(izq, der) ==
  LET d      == IdUnion(izq, der)
      tam    == Tam(colecciones, d) + Tam(colecciones, izq) + Tam(colecciones, der)
      ambas  == {izq, der} \subseteq DOMAIN cache
      exacta == /\ ~EnColecciones(d) /\ ambas /\ {izq, der} \cap desfasadas = {}
                /\ EnColecciones(izq) /\ EnColecciones(der)
  IN  /\ tam <= MaxTam /\ (ambas => cache[izq] + cache[der] <= MaxTam)
      /\ colecciones' = Con(colecciones, d, tam)
      /\ cache' = IF ambas THEN Con(cache, d, cache[izq] + cache[der]) ELSE cache
      /\ desfasadas' = IF exacta THEN desfasadas \ {d} ELSE desfasadas \cup {d}
      /\ UNCHANGED <<neuronal, abierta, disco>>

\* OP_MEM_LISTA_LIMPIAR: only the list of colecciones.
Limpiar(l) ==
  /\ colecciones' = IF EnColecciones(l) THEN [colecciones EXCEPT ![l] = 0] ELSE colecciones
  /\ cache' = Con(cache, l, 0)
  /\ desfasadas' = IF EnNeuronal(l) THEN desfasadas \cup {l} ELSE desfasadas \ {l}
  /\ UNCHANGED <<neuronal, abierta, disco>>

\* OP_MEM_LISTA_LIBERAR: the cache keeps the size.
Liberar(l) ==
  /\ EnColecciones(l)
  /\ colecciones' = Sin(colecciones, l)
  /\ desfasadas' = desfasadas \cup {l}
  /\ UNCHANGED <<neuronal, abierta, disco, cache>>

\* OP_MEM_LISTA_TAMANO of a list without an entry.
Tamano(l) ==
  /\ l \notin DOMAIN cache
  /\ cache' = Con(cache, l, TamanoVisible(l))
  /\ desfasadas' = desfasadas \ {l}
  /\ UNCHANGED <<colecciones, neuronal, abierta, disco>>

\* Mutant of Dividir: the size is not entered.
DividirSinTamano(l, n) ==
  /\ colecciones' = Con(colecciones, l, n)
  /\ desfasadas' = desfasadas \ {l}
  /\ UNCHANGED <<neuronal, abierta, disco, cache>>

\* OP_STR_DIVIDIR_TEXTO: always in colecciones, and the size is entered.
Dividir(l, n) ==
  /\ colecciones' = Con(colecciones, l, n)
  /\ cache' = Con(cache, l, n)
  /\ desfasadas' = desfasadas \ {l}
  /\ UNCHANGED <<neuronal, abierta, disco>>

\* OP_PERCEPCION_LISTA, OP_RASTRO_ACTIVACION_LISTA and OP_MEM_BUSCAR_ASOCIADOS_LISTA,
\* whose lists have the same id each time: rebuilt in colecciones, the cache not told.
Rellenar(l, n) ==
  /\ colecciones' = Con(colecciones, l, n)
  /\ desfasadas' = desfasadas \cup {l}
  /\ UNCHANGED <<neuronal, abierta, disco, cache>>

\* OP_ANALITICA_MLP_FIT rewrites lists where they are and empties the cache.
Ajustar(l, n) ==
  /\ IF EnNeuronal(l) THEN neuronal' = [neuronal EXCEPT ![l] = n] /\ UNCHANGED colecciones
     ELSE EnColecciones(l) /\ colecciones' = [colecciones EXCEPT ![l] = n] /\ UNCHANGED neuronal
  /\ cache' = Vacio
  /\ desfasadas' = {}
  /\ UNCHANGED <<abierta, disco>>

\* OP_MEM_CREAR; an open memory is saved, closed and read again.
MemCrear ==
  /\ neuronal' = IF abierta THEN neuronal ELSE disco
  /\ disco' = neuronal'
  /\ abierta' = TRUE
  /\ desfasadas' = IF abierta THEN desfasadas ELSE desfasadas \cup (DOMAIN disco \ DOMAIN colecciones)
  /\ UNCHANGED <<colecciones, cache>>

\* OP_MEM_CERRAR
MemCerrar ==
  /\ abierta /\ abierta' = FALSE
  /\ disco' = neuronal
  /\ neuronal' = Vacio
  /\ desfasadas' = desfasadas \cup (DOMAIN neuronal \ DOMAIN colecciones)
  /\ UNCHANGED <<colecciones, cache>>

Next ==
  \/ \E l \in Creadas : Crear(l)
  \/ \E l \in Divididas, n \in 0 .. MaxTam : Dividir(l, n)
  \/ \E l \in Ids : \/ Agregar(l) \/ Limpiar(l) \/ Liberar(l) \/ Tamano(l)
                    \/ \E n \in 0 .. MaxTam : Ajustar(l, n)
  \/ \E u \in Uniones : Unir(u[1], u[2])
  \/ \E l \in Rellenadas, n \in 0 .. MaxTam : Rellenar(l, n)
  \/ MemCrear \/ MemCerrar

Spec == Init /\ [][Next]_vars

-----------------------------------------------------------------------------
(* Properties.                                                             *)

\* The cache answers with the size of the list that reads and writes use, unless a
\* list was freed, filled by the VM, joined onto another, created or cleared behind
\* one of the same id, or came or went with the persistent memory: desfasadas
\* names every way the cache is passed by.
CacheExacta == \A l \in DOMAIN cache \ desfasadas : cache[l] = TamanoVisible(l)
=============================================================================
