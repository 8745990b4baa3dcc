----------------------- MODULE JmnPersistenciaProofs -----------------------
(***************************************************************************)
(* Proofs about JmnPersistencia, for any records, lists and lengths.  The  *)
(* two properties of the save rest on what holds while the file is being   *)
(* written: its image is the memory, its version says whether there are    *)
(* lists, and only version 2 has any of their sections.                    *)
(***************************************************************************)
EXTENDS JmnPersistencia, TLAPS

\* A table of lists stays one when an entry is set or changed.
LEMMA PonerEsTabla ==
  ASSUME NEW f \in TablasDeListas, NEW l \in Listas, NEW n \in 0 .. MaxItems
  PROVE  [k \in DOMAIN f \cup {l} |-> IF k = l THEN n ELSE f[k]] \in TablasDeListas
<1>1. PICK S \in SUBSET Listas : f \in [S -> 0 .. MaxItems]
  BY DEF TablasDeListas
<1>2. [k \in DOMAIN f \cup {l} |-> IF k = l THEN n ELSE f[k]] \in [S \cup {l} -> 0 .. MaxItems]
  BY <1>1
<1>3. S \cup {l} \in SUBSET Listas
  BY <1>1
<1> QED BY <1>2, <1>3 DEF TablasDeListas

\* The same of an entry that is already there.
LEMMA CambiarEsTabla ==
  ASSUME NEW f \in TablasDeListas, NEW l \in DOMAIN f, NEW n \in 0 .. MaxItems
  PROVE  [f EXCEPT ![l] = n] \in TablasDeListas
<1>1. PICK S \in SUBSET Listas : f \in [S -> 0 .. MaxItems]
  BY DEF TablasDeListas
<1>2. [f EXCEPT ![l] = n] \in [S -> 0 .. MaxItems]
  BY <1>1
<1> QED BY <1>1, <1>2 DEF TablasDeListas

\* The same when an entry is removed.
LEMMA QuitarEsTabla ==
  ASSUME NEW f \in TablasDeListas, NEW l
  PROVE  [k \in DOMAIN f \ {l} |-> f[k]] \in TablasDeListas
<1>1. PICK S \in SUBSET Listas : f \in [S -> 0 .. MaxItems]
  BY DEF TablasDeListas
<1>2. [k \in DOMAIN f \ {l} |-> f[k]] \in [S \ {l} -> 0 .. MaxItems]
  BY <1>1
<1>3. S \ {l} \in SUBSET Listas
  BY <1>1
<1> QED BY <1>2, <1>3 DEF TablasDeListas

\* What a table is: its domain is a set of lists and its values are lengths.
LEMMA TablaEs ==
  ASSUME NEW f \in TablasDeListas
  PROVE  /\ DOMAIN f \subseteq Listas
         /\ \A l \in DOMAIN f : f[l] \in 0 .. MaxItems
BY DEF TablasDeListas

\* The empty table is one.
LEMMA VaciaEsTabla == SinListas \in TablasDeListas /\ DOMAIN SinListas = {}
<1>1. SinListas \in [{} -> 0 .. MaxItems]
  BY DEF SinListas
<1> QED BY <1>1 DEF TablasDeListas, SinListas

\* While the file is being written.
Escribiendo ==
  sesion = "guardando" =>
    /\ ~archivo.crc
    /\ archivo.version # 0 => archivo.imagen = memoria
    /\ archivo.version = 1 => listas = SinListas
    /\ archivo.version # 2 => ~archivo.seccion /\ archivo.listas = SinListas
    /\ DOMAIN archivo.listas \subseteq DOMAIN listas

IInv == TypeOK /\ Escribiendo /\ LimpioEsReleible

\* It holds of a memory that no session has opened.
LEMMA InicioIInv == Init => IInv
<1> SUFFICES ASSUME Init PROVE IInv
  OBVIOUS
<1>1. Archivo0 \in Archivos
  <2>1. <<{}, SinListas>> \in (SUBSET Registros) \X TablasDeListas
    BY VaciaEsTabla
  <2> QED BY <2>1, VaciaEsTabla DEF Archivo0, Archivos
<1>2. TypeOK
  BY <1>1, VaciaEsTabla DEF Init, TypeOK, Archivo0
<1>3. Escribiendo /\ LimpioEsReleible
  BY DEF Init, Escribiendo, LimpioEsReleible, Leido, memoria, Archivo0
<1> QED BY <1>2, <1>3 DEF IInv

\* The steps of the program: the memory is marked, the file is not touched.
LEMMA PasoDelPrograma ==
  ASSUME IInv, NEW r, NEW l,
         \/ r \in Registros /\ (AgregarRegistro(r) \/ Olvidar(r))
         \/ l \in Listas /\ (CrearLista(l) \/ ListaAgregar(l) \/ LiberarLista(l))
  PROVE  IInv'
<1> USE PersistenciaAssumption DEF IInv, TypeOK
<1>0. archivo' = archivo /\ sesion = "abierta" /\ sesion' = sesion /\ ilegible' = ilegible
  BY DEF AgregarRegistro, Olvidar, CrearLista, ListaAgregar, LiberarLista, Abierta
<1>1. dirty' = TRUE
  BY DEF AgregarRegistro, Olvidar, CrearLista, ListaAgregar, LiberarLista
<1>2. registros' \in SUBSET Registros
  BY DEF AgregarRegistro, Olvidar, CrearLista, ListaAgregar, LiberarLista
<1>3. listas' \in TablasDeListas
  <2>1. CASE AgregarRegistro(r) \/ Olvidar(r)
    BY <2>1 DEF AgregarRegistro, Olvidar
  <2>2. CASE l \in Listas /\ CrearLista(l)
    BY <2>2, PonerEsTabla DEF CrearLista
  <2>3. CASE l \in Listas /\ ListaAgregar(l) /\ l \in DOMAIN listas
    <3>1. listas[l] \in 0 .. MaxItems /\ listas[l] < MaxItems
      BY <2>3, TablaEs DEF ListaAgregar
    <3>2. listas[l] + 1 \in 0 .. MaxItems
      BY <3>1
    <3> QED BY <2>3, <3>2, CambiarEsTabla DEF ListaAgregar
  <2>4. CASE l \in Listas /\ ListaAgregar(l) /\ l \notin DOMAIN listas
    <3>1. 1 \in 0 .. MaxItems
      BY <2>4 DEF ListaAgregar
    <3> QED BY <2>4, <3>1, PonerEsTabla DEF ListaAgregar
  <2>5. CASE l \in Listas /\ LiberarLista(l)
    BY <2>5, QuitarEsTabla DEF LiberarLista
  <2> QED BY <2>1, <2>2, <2>3, <2>4, <2>5
<1>4. Escribiendo' /\ LimpioEsReleible'
  BY <1>0, <1>1 DEF Escribiendo, LimpioEsReleible
<1>5. (archivo.crc => Entera(archivo))'
  BY <1>0 DEF Entera
<1> QED BY <1>0, <1>1, <1>2, <1>3, <1>4, <1>5

\* The steps of a save that goes on.
LEMMA PasoDelGuardado ==
  ASSUME IInv, NEW r, NEW l,
         \/ Cerrar \/ EscribirCabecera \/ EscribirSeccion
         \/ r \in Registros /\ EscribirRegistro(r)
         \/ l \in Listas /\ (EscribirLista(l) \/ EscribirItem(l))
  PROVE  IInv'
<1> USE PersistenciaAssumption DEF IInv, TypeOK
<1>0. memoria' = memoria /\ dirty' = dirty /\ ilegible' = ilegible /\ sesion' = "guardando"
  BY DEF Cerrar, EscribirCabecera, EscribirSeccion, EscribirRegistro, EscribirLista, EscribirItem, memoria
<1>1. ~archivo'.crc /\ archivo' \in Archivos
  <2>1. CASE Cerrar
    BY <2>1, VaciaEsTabla DEF Cerrar, Archivos, Archivo0
  <2>2. CASE EscribirCabecera
    <3>1. memoria \in (SUBSET Registros) \X TablasDeListas
      BY DEF memoria
    <3>2. (IF listas = SinListas THEN 1 ELSE 2) \in 0 .. 2
      OBVIOUS
    <3> QED BY <2>2, <3>1, <3>2 DEF EscribirCabecera, Archivos, Escribiendo
  <2>3. CASE EscribirSeccion
    BY <2>3 DEF EscribirSeccion, Archivos, Escribiendo
  <2>6. CASE r \in Registros /\ EscribirRegistro(r)
    <3>1. archivo.registros \cup {r} \in SUBSET Registros
      BY <2>6 DEF Archivos
    <3> QED BY <2>6, <3>1 DEF EscribirRegistro, Archivos, Escribiendo
  <2>4. CASE l \in Listas /\ EscribirLista(l)
    <3>1. archivo.listas \in TablasDeListas
      BY DEF Archivos
    <3> DEFINE t == [k \in DOMAIN archivo.listas \cup {l} |-> IF k = l THEN 0 ELSE archivo.listas[k]]
    <3>2. t \in TablasDeListas
      <4>1. 0 \in 0 .. MaxItems
        OBVIOUS
      <4> QED BY <2>4, <3>1, <4>1, PonerEsTabla
    <3>3. archivo' = [archivo EXCEPT !.listas = t]
      BY <2>4 DEF EscribirLista
    <3> HIDE DEF t
    <3> QED BY <2>4, <3>2, <3>3 DEF EscribirLista, Archivos, Escribiendo
  <2>5. CASE l \in Listas /\ EscribirItem(l)
    <3>1. archivo.listas \in TablasDeListas /\ l \in DOMAIN archivo.listas
      BY <2>5 DEF EscribirItem, Archivos
    <3>2. archivo.listas[l] + 1 \in 0 .. MaxItems
      <4>1. archivo.listas[l] \in 0 .. MaxItems
        BY <3>1, TablaEs
      <4>2. l \in DOMAIN listas
        BY <2>5, <3>1 DEF EscribirItem, Escribiendo
      <4>3. listas[l] \in 0 .. MaxItems
        BY <4>2, TablaEs
      <4> QED BY <2>5, <4>1, <4>3 DEF EscribirItem
    <3> DEFINE t == [archivo.listas EXCEPT ![l] = @ + 1]
    <3>3. t \in TablasDeListas
      BY <3>1, <3>2, CambiarEsTabla
    <3>4. archivo' = [archivo EXCEPT !.listas = t]
      BY <2>5 DEF EscribirItem, Archivos
    <3> HIDE DEF t
    <3> QED BY <2>5, <3>3, <3>4 DEF EscribirItem, Archivos, Escribiendo
  <2> QED BY <2>1, <2>2, <2>3, <2>4, <2>5, <2>6
<1>2. Escribiendo'
  <2>1. CASE Cerrar
    BY <2>1, VaciaEsTabla DEF Cerrar, Escribiendo, Archivo0
  <2>2. CASE EscribirCabecera
    BY <2>2, VaciaEsTabla, <1>0 DEF EscribirCabecera, Escribiendo, Archivos, memoria
  <2>3. CASE EscribirSeccion \/ (r \in Registros /\ EscribirRegistro(r))
    BY <2>3, <1>0 DEF EscribirSeccion, EscribirRegistro, Escribiendo, Archivos, memoria
  <2>4. CASE l \in Listas /\ EscribirLista(l)
    <3>1. archivo.version = 2
      BY <2>4 DEF EscribirLista, Escribiendo
    <3>2. /\ archivo'.version = archivo.version /\ archivo'.imagen = archivo.imagen
          /\ DOMAIN archivo'.listas = DOMAIN archivo.listas \cup {l}
      BY <2>4 DEF EscribirLista, Archivos
    <3> QED BY <2>4, <1>0, <1>1, <3>1, <3>2 DEF EscribirLista, Escribiendo, memoria
  <2>5. CASE l \in Listas /\ EscribirItem(l)
    <3>1. archivo.version = 2
      BY <2>5, VaciaEsTabla DEF EscribirItem, Escribiendo
    <3>2. /\ archivo'.version = archivo.version /\ archivo'.imagen = archivo.imagen
          /\ DOMAIN archivo'.listas = DOMAIN archivo.listas
      BY <2>5 DEF EscribirItem, Archivos
    <3> QED BY <2>5, <1>0, <1>1, <3>1, <3>2 DEF EscribirItem, Escribiendo, memoria
  <2> QED BY <2>1, <2>2, <2>3, <2>4, <2>5
<1> QED BY <1>0, <1>1, <1>2 DEF LimpioEsReleible, memoria

\* The steps that end a session or start one.
LEMMA PasoDeSesion ==
  ASSUME IInv, CerrarSinEscribir \/ EscribirCrc \/ Cortar \/ Abrir \/ AbrirIlegible
  PROVE  IInv'
<1> USE PersistenciaAssumption, VaciaEsTabla DEF IInv, TypeOK
<1>1. CASE CerrarSinEscribir \/ Cortar
  BY <1>1 DEF CerrarSinEscribir, Cortar, Escribiendo, LimpioEsReleible, Entera
<1>2. CASE EscribirCrc
  <2>1. archivo' \in Archivos
    BY <1>2 DEF EscribirCrc, Archivos
  <2>2. Entera(archivo')
    BY <1>2 DEF EscribirCrc, Archivos, Escribiendo, Entera, memoria
  <2> QED BY <1>2, <2>1, <2>2 DEF EscribirCrc, Escribiendo, LimpioEsReleible
<1>3. CASE Abrir
  BY <1>3 DEF Abrir, Archivos, Escribiendo, LimpioEsReleible, Leido, memoria, Entera
<1>4. CASE AbrirIlegible
  BY <1>4 DEF AbrirIlegible, Escribiendo, LimpioEsReleible, Entera
<1> QED BY <1>1, <1>2, <1>3, <1>4

\* No step leaves the inductive invariant.
LEMMA PasoIInv == IInv /\ [Next]_vars => IInv'
<1> SUFFICES ASSUME IInv, [Next]_vars PROVE IInv'
  OBVIOUS
<1>1. ASSUME NEW r \in Registros, AgregarRegistro(r) \/ Olvidar(r) PROVE IInv'
  BY <1>1, PasoDelPrograma
<1>2. ASSUME NEW r \in Registros, EscribirRegistro(r) PROVE IInv'
  BY <1>2, PasoDelGuardado
<1>3. ASSUME NEW l \in Listas, CrearLista(l) \/ ListaAgregar(l) \/ LiberarLista(l) PROVE IInv'
  BY <1>3, PasoDelPrograma
<1>4. ASSUME NEW l \in Listas, EscribirLista(l) \/ EscribirItem(l) PROVE IInv'
  BY <1>4, PasoDelGuardado
<1>5. ASSUME Cerrar \/ EscribirCabecera \/ EscribirSeccion PROVE IInv'
  BY <1>5, PasoDelGuardado
<1>6. ASSUME CerrarSinEscribir \/ EscribirCrc \/ Cortar \/ Abrir \/ AbrirIlegible PROVE IInv'
  BY <1>6, PasoDeSesion
<1>7. ASSUME UNCHANGED vars PROVE IInv'
  BY <1>7 DEF vars, memoria, IInv, TypeOK, Escribiendo, LimpioEsReleible, Leido, Entera
<1> QED BY <1>1, <1>2, <1>3, <1>4, <1>5, <1>6, <1>7 DEF Next

\* And so of every state of every behaviour.
LEMMA SiempreIInv == Spec => []IInv
<1>1. Init => IInv
  BY InicioIInv
<1>2. IInv /\ [Next]_vars => IInv'
  BY PasoIInv
<1> QED BY <1>1, <1>2, PTL DEF Spec

\* The memory and its file keep their types, a closed session holds nothing, and a
\* file with a checksum is whole.
THEOREM TiposDeMemoria == Spec => []TypeOK
<1>1. IInv => TypeOK
  BY DEF IInv
<1> QED BY <1>1, SiempreIInv, PTL

\* A memory that would be closed without a save loses nothing by it.
THEOREM LimpiaSinPerdida == Spec => []LimpioEsReleible
<1>1. IInv => LimpioEsReleible
  BY DEF IInv
<1> QED BY <1>1, SiempreIInv, PTL

\* A save that reaches its checksum left all of the memory on disk.
THEOREM GuardadoCompleto == Spec => GuardadoFiel
<1>1. ASSUME IInv, [Next]_vars, archivo'.crc, ~archivo.crc
      PROVE  Leido(archivo') = memoria
  <2>1. EscribirCrc
    <3>1. archivo' # archivo
      BY <1>1
    <3>2. ASSUME NEW r, NEW l, EscribirRegistro(r) \/ EscribirLista(l) \/ EscribirItem(l) \/
                 EscribirCabecera \/ EscribirSeccion
          PROVE  archivo'.crc = archivo.crc
      BY <1>1, <3>2 DEF EscribirRegistro, EscribirLista, EscribirItem, EscribirCabecera,
                        EscribirSeccion, IInv, TypeOK, Archivos
    <3>3. ~Cerrar
      BY <1>1 DEF Cerrar, Archivo0
    <3> QED BY <1>1, <3>1, <3>2, <3>3
            DEF Next, vars, AgregarRegistro, Olvidar, CrearLista, ListaAgregar, LiberarLista, Abierta,
                CerrarSinEscribir, Cortar, Abrir, AbrirIlegible
  <2>2. archivo'.registros = archivo.registros /\ archivo'.listas = archivo.listas
    BY <1>1, <2>1 DEF EscribirCrc, IInv, TypeOK, Archivos
  <2>3. archivo.listas = listas
    BY <1>1, <2>1 DEF EscribirCrc, IInv, Escribiendo, TypeOK, Archivos
  <2> QED BY <2>1, <2>2, <2>3 DEF EscribirCrc, Leido, memoria
<1>2. IInv /\ [Next]_vars => [archivo'.crc /\ ~archivo.crc => Leido(archivo') = memoria]_vars
  BY <1>1
<1> QED BY <1>2, SiempreIInv, PTL DEF Spec, GuardadoFiel
=============================================================================
