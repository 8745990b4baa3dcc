-------------------------- MODULE JmnPersistencia --------------------------
(***************************************************************************)
(* A .jmn memory and its file (memoria_neuronal_io.c and                   *)
(* memoria_neuronal_core.c): the save that rewrites the file in place, cut *)
(* by a death of the process or a full disk wherever it is, and the load   *)
(* that reads whatever prefix it finds.                                    *)
(*                                                                         *)
(* A memory is a set of records (nodes, connections and texts, the         *)
(* sections of version 1) and a number of items per list (lists and maps,  *)
(* the sections of version 2).  A file is the part that was written of the *)
(* image its header announces; stdio keeps the order of the writes, so a   *)
(* death leaves a prefix.                                                  *)
(***************************************************************************)
EXTENDS Integers

CONSTANTS
  Registros,    \* nodes, connections, texts
  Listas,       \* lists and maps
  MaxItems      \* bound: items of a list

ASSUME PersistenciaAssumption == MaxItems \in Nat

VARIABLES
  registros, listas, dirty,   \* the memory
  sesion,                     \* "cerrada", "abierta", "guardando"
  ilegible,                   \* fopen refused the file when this session opened it
  archivo

memoria == <<registros, listas>>
vars == <<registros, listas, dirty, sesion, ilegible, archivo>>

SinListas == [l \in {} |-> 0]
TablasDeListas == UNION {[S -> 0 .. MaxItems] : S \in SUBSET Listas}

\* A missing file and an empty one load alike: there is no header.
Archivo0 == [version |-> 0, registros |-> {}, seccion |-> FALSE, listas |-> SinListas,
             crc |-> FALSE, imagen |-> <<{}, SinListas>>]

Init ==
  /\ registros = {} /\ listas = SinListas /\ dirty = FALSE
  /\ sesion = "abierta" /\ ilegible = FALSE
  /\ archivo = Archivo0

Abierta == sesion = "abierta" /\ UNCHANGED <<sesion, ilegible, archivo>>

-----------------------------------------------------------------------------
(* The program changes the memory.                                         *)

\* Mutant of AgregarRegistro: the memory is not marked.
AgregarSinMarcar(r) ==
  /\ Abierta
  /\ registros' = registros \cup {r}
  /\ UNCHANGED <<listas, dirty>>

\* jmn_agregar_nodo, jmn_agregar_conexion, jmn_guardar_texto
AgregarRegistro(r) ==
  /\ Abierta
  /\ registros' = registros \cup {r}
  /\ dirty' = TRUE
  /\ UNCHANGED listas

\* jmn_olvidar_conexiones_debiles
Olvidar(r) ==
  /\ Abierta
  /\ r \in registros
  /\ registros' = registros \ {r}
  /\ dirty' = TRUE
  /\ UNCHANGED listas

\* jmn_crear_lista, also of a list that exists.
CrearLista(l) ==
  /\ Abierta
  /\ listas' = [k \in DOMAIN listas \cup {l} |-> IF k = l THEN 0 ELSE listas[k]]
  /\ dirty' = TRUE
  /\ UNCHANGED registros

\* jmn_lista_agregar creates the list when there is none.
ListaAgregar(l) ==
  /\ Abierta
  /\ IF l \in DOMAIN listas
     THEN listas[l] < MaxItems /\ listas' = [listas EXCEPT ![l] = @ + 1]
     ELSE 0 < MaxItems /\ listas' = [k \in DOMAIN listas \cup {l} |-> IF k = l THEN 1 ELSE listas[k]]
  /\ dirty' = TRUE
  /\ UNCHANGED registros

\* jmn_lista_liberar
LiberarLista(l) ==
  /\ Abierta
  /\ l \in DOMAIN listas
  /\ listas' = [k \in DOMAIN listas \ {l} |-> listas[k]]
  /\ dirty' = TRUE
  /\ UNCHANGED registros

-----------------------------------------------------------------------------
(* Saving: jmn_cerrar and jmn_io_guardar.                                  *)

\* The memory is clean, or fopen fails: nothing is written and the memory is freed,
\* dirty or not.
CerrarSinEscribir ==
  /\ sesion = "abierta" /\ sesion' = "cerrada"
  /\ dirty' = FALSE /\ registros' = {} /\ listas' = SinListas
  /\ UNCHANGED <<ilegible, archivo>>

\* fopen(ruta, "wb") empties the file.
Cerrar ==
  /\ sesion = "abierta" /\ dirty
  /\ sesion' = "guardando"
  /\ archivo' = Archivo0
  /\ UNCHANGED <<memoria, dirty, ilegible>>

\* Mutant of EscribirCabecera: always version 1.
EscribirCabeceraV1 ==
  /\ sesion = "guardando" /\ archivo.version = 0
  /\ archivo' = [archivo EXCEPT !.version = 1, !.imagen = memoria]
  /\ UNCHANGED <<memoria, dirty, sesion, ilegible>>

\* Version 2 only when there are lists or maps.
EscribirCabecera ==
  /\ sesion = "guardando" /\ archivo.version = 0
  /\ archivo' = [archivo EXCEPT !.version = IF listas = SinListas THEN 1 ELSE 2,
                                !.imagen = memoria]
  /\ UNCHANGED <<memoria, dirty, sesion, ilegible>>

\* The next record; slots are in no particular order.
EscribirRegistro(r) ==
  /\ sesion = "guardando" /\ archivo.version # 0
  /\ r \in registros \ archivo.registros
  /\ archivo' = [archivo EXCEPT !.registros = @ \cup {r}]
  /\ UNCHANGED <<memoria, dirty, sesion, ilegible>>

\* The number of lists, once every record is written.
EscribirSeccion ==
  /\ sesion = "guardando" /\ archivo.version = 2
  /\ archivo.registros = registros /\ ~archivo.seccion
  /\ archivo' = [archivo EXCEPT !.seccion = TRUE]
  /\ UNCHANGED <<memoria, dirty, sesion, ilegible>>

ListasEscritas == \A l \in DOMAIN archivo.listas : archivo.listas[l] = listas[l]

\* The header of the next list, with its number of items.
EscribirLista(l) ==
  /\ sesion = "guardando" /\ archivo.seccion
  /\ ListasEscritas
  /\ l \in DOMAIN listas \ DOMAIN archivo.listas
  /\ archivo' = [archivo EXCEPT !.listas =
       [k \in DOMAIN archivo.listas \cup {l} |-> IF k = l THEN 0 ELSE archivo.listas[k]]]
  /\ UNCHANGED <<memoria, dirty, sesion, ilegible>>

EscribirItem(l) ==
  /\ sesion = "guardando" /\ l \in DOMAIN archivo.listas
  /\ archivo.listas[l] < listas[l]
  /\ archivo' = [archivo EXCEPT !.listas[l] = @ + 1]
  /\ UNCHANGED <<memoria, dirty, sesion, ilegible>>

\* Mutant of EscribirCrc: the memory stays marked.
EscribirCrcSinLimpiar ==
  /\ sesion = "guardando" /\ archivo.version # 0
  /\ archivo.registros = registros
  /\ archivo.version = 2 => archivo.seccion /\ archivo.listas = listas
  /\ archivo' = [archivo EXCEPT !.crc = TRUE]
  /\ sesion' = "cerrada"
  /\ registros' = {} /\ listas' = SinListas
  /\ UNCHANGED <<dirty, ilegible>>

\* The checksum ends the file and the session.
EscribirCrc ==
  /\ sesion = "guardando" /\ archivo.version # 0
  /\ archivo.registros = registros
  /\ archivo.version = 2 => archivo.seccion /\ archivo.listas = listas
  /\ archivo' = [archivo EXCEPT !.crc = TRUE]
  /\ sesion' = "cerrada"
  /\ dirty' = FALSE /\ registros' = {} /\ listas' = SinListas
  /\ UNCHANGED ilegible

\* The process dies, or the disk is full: no result of fwrite or fclose is looked
\* at, so the close goes on as if the rest had been written.
Cortar ==
  /\ sesion \in {"abierta", "guardando"} /\ sesion' = "cerrada"
  /\ dirty' = FALSE /\ registros' = {} /\ listas' = SinListas
  /\ UNCHANGED <<ilegible, archivo>>

-----------------------------------------------------------------------------
(* Loading: jmn_abrir_escritura and jmn_io_cargar.                         *)

\* The load of version 1 breaks out of its loops at the end of the file and takes
\* the missing checksum for an old file; that of version 2 gives up.
Entera(a) == a.registros = a.imagen[1] /\ (a.version = 2 => a.seccion /\ a.listas = a.imagen[2])
Aceptado(a) == a.version = 1 \/ (a.version = 2 /\ Entera(a))

\* A load that gave up leaves what it read; creating a list marked the memory.
Abrir ==
  /\ sesion = "cerrada" /\ sesion' = "abierta"
  /\ registros' = archivo.registros
  /\ listas' = archivo.listas
  /\ dirty' = (~Aceptado(archivo) /\ archivo.listas # SinListas)
  /\ ilegible' = FALSE
  /\ UNCHANGED archivo

\* fopen(ruta, "rb") fails: the session starts with an empty, clean memory.
AbrirIlegible ==
  /\ sesion = "cerrada" /\ sesion' = "abierta"
  /\ registros' = {} /\ listas' = SinListas /\ dirty' = FALSE
  /\ ilegible' = TRUE
  /\ UNCHANGED archivo

Next ==
  \/ \E r \in Registros : AgregarRegistro(r) \/ Olvidar(r) \/ EscribirRegistro(r)
  \/ \E l \in Listas : \/ CrearLista(l) \/ ListaAgregar(l) \/ LiberarLista(l)
                       \/ EscribirLista(l) \/ EscribirItem(l)
  \/ CerrarSinEscribir \/ Cerrar \/ Cortar
  \/ EscribirCabecera \/ EscribirSeccion \/ EscribirCrc
  \/ Abrir \/ AbrirIlegible

Spec == Init /\ [][Next]_vars

-----------------------------------------------------------------------------
(* Properties.                                                             *)

Archivos == [version : 0 .. 2, registros : SUBSET Registros, seccion : BOOLEAN,
             listas : TablasDeListas, crc : BOOLEAN, imagen : (SUBSET Registros) \X TablasDeListas]

\* Types; a closed session holds no memory, and a file with a checksum is whole.
TypeOK ==
  /\ registros \in SUBSET Registros /\ listas \in TablasDeListas
  /\ dirty \in BOOLEAN /\ ilegible \in BOOLEAN
  /\ sesion \in {"cerrada", "abierta", "guardando"}
  /\ archivo \in Archivos
  /\ sesion = "cerrada" => registros = {} /\ listas = SinListas /\ ~dirty
  /\ archivo.crc => Entera(archivo)

Leido(a) == <<a.registros, a.listas>>

\* A memory that is not marked dirty, and so would be closed without a save, is what
\* the next open would read, unless this session could not open its file.
LimpioEsReleible == sesion = "abierta" /\ ~dirty /\ ~ilegible => memoria = Leido(archivo)

\* A save that reaches its checksum left on disk all the memory held.
GuardadoFiel == [][archivo'.crc /\ ~archivo.crc => Leido(archivo') = memoria]_vars
=============================================================================
