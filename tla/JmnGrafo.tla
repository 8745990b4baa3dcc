------------------------------ MODULE JmnGrafo ------------------------------
(***************************************************************************)
(* What the connection store of JMN promises: a graph of weighted, typed   *)
(* associations between concepts, and a copy of it on disk that survives   *)
(* the process.  No slot, chain, counter or dirty flag appears here.       *)
(***************************************************************************)
EXTENDS JmnFuerzas

CONSTANTS
  Ids,        \* concepts
  Pares,      \* pairs of concepts the program associates
  Tipos,      \* relation types
  Cambios,    \* strengths given to jmn_agregar_conexion
  Deltas,     \* positive amounts of reinforcement and penalty
  Factores, Pasadas, Umbrales, Impulsos,   \* parameters of the sleep phases
  Tope        \* bound: strengths do not accumulate past -Tope .. Tope

VARIABLES
  grafo,      \* [pair of concepts |-> [tipo, fuerza]]
  guardado,   \* the graph a new process would find on disk
  sesion      \* "abierta", "cerrada" by the program, or "caida" with its process

vars == <<grafo, guardado, sesion>>

Init == grafo = <<>> /\ guardado = <<>> /\ sesion = "abierta"

EnSesion == sesion = "abierta" /\ UNCHANGED <<guardado, sesion>>

\* Associations in S get F of their strength.
Aplicar(F(_), S) ==
  /\ EnSesion
  /\ grafo' = [p \in DOMAIN grafo |->
                 IF p \in S THEN [grafo[p] EXCEPT !.fuerza = F(@)] ELSE grafo[p]]

De(id) == {p \in DOMAIN grafo : p[1] = id \/ p[2] = id}

Asociar(p, c, t) ==
  LET base == IF p \in DOMAIN grafo THEN grafo[p].fuerza ELSE 0
  IN  /\ EnSesion
      /\ base + c \in -Tope .. Tope
      /\ grafo' = [q \in DOMAIN grafo \cup {p} |->
                     IF q = p THEN [tipo |-> t, fuerza |-> base + c] ELSE grafo[q]]

Penalizar(p, d)          == Aplicar(LAMBDA v : Penalizada(v, d), {p})
ReforzarConcepto(id, d)  == Aplicar(LAMBDA v : ReforzadaPor(v, d), De(id))
PenalizarConcepto(id, d) == Aplicar(LAMBDA v : PenalizadaPor(v, d), De(id))
Decaer(f, n, u)          == Aplicar(LAMBDA v : Decaida(v, f, n, u), DOMAIN grafo)
Consolidar(b)            == Aplicar(LAMBDA v : Consolidada(v, b), DOMAIN grafo)

Fuertes(g, u) == {p \in DOMAIN g : ~Debil(g[p].fuerza, u)}

Olvidar(u) ==
  /\ EnSesion
  /\ grafo' = [p \in Fuertes(grafo, u) |-> grafo[p]]

\* jmn_consolidar_memoria_sueno decays and forgets; the boost follows as Consolidar.
DecaerYOlvidar(f, n, u) ==
  LET g == [p \in DOMAIN grafo |-> [grafo[p] EXCEPT !.fuerza = Decaida(@, f, n, u)]]
  IN  /\ EnSesion
      /\ grafo' = [p \in Fuertes(g, u) |-> g[p]]

\* A close keeps the graph; a death falls back to the graph of the last close.
Guardar ==
  /\ sesion = "abierta" /\ sesion' = "cerrada"
  /\ guardado' = grafo /\ UNCHANGED grafo

Perder ==
  /\ sesion = "abierta" /\ sesion' = "caida"
  /\ grafo' = guardado /\ UNCHANGED guardado

Abrir ==
  /\ sesion # "abierta" /\ sesion' = "abierta"
  /\ UNCHANGED <<grafo, guardado>>

Next ==
  \/ \E p \in Pares, c \in Cambios, t \in Tipos : Asociar(p, c, t)
  \/ \E p \in Pares, d \in Deltas : Penalizar(p, d)
  \/ \E id \in Ids, d \in Deltas : ReforzarConcepto(id, d) \/ PenalizarConcepto(id, d)
  \/ \E f \in Factores, n \in Pasadas, u \in Umbrales : Decaer(f, n, u) \/ DecaerYOlvidar(f, n, u)
  \/ \E u \in Umbrales : Olvidar(u)
  \/ \E b \in Impulsos : Consolidar(b)
  \/ Guardar \/ Perder \/ Abrir

Spec == Init /\ [][Next]_vars
=============================================================================
