------------------------------- MODULE Modulos ------------------------------
(* The driver of the compiler (do_compile of main.c): the entry is read, the *)
(* modules it asks for with `usar` are read depth first and merged into it   *)
(* (register_usar_modules, process_usar_module_recursive), and the program   *)
(* that results is checked and generated.  Each frame of `pila` is an        *)
(* invocation: the entry at the bottom, and above it the modules of          *)
(* UsarPathStack, in whose files the loop is at a piece.                     *)
EXTENDS Unidades

VARIABLES
  disco,
  fase,       \* the step of do_compile
  pila,
  cargados,   \* UsarLoadedSet
  programa    \* the ProgramNode of the entry, as merged so far

vars == <<disco, fase, pila, cargados, programa>>

Marco ==
  [modulo : Archivos, pieza : Nat \ {0}, errores : Nat,
   nombres : SUBSET Nombres]        \* the list of the `usar` that asked for the module

Fases == {"lee", "modulos", "reservadas", "retornos", "tipos", "genera", "aceptado", "rechazado"}

Init ==
  /\ disco \in Discos
  /\ fase = "lee"
  /\ pila = <<>> /\ cargados = <<>>
  /\ programa = NoHay

-----------------------------------------------------------------------------
(* The loop over the pieces of the file on top of the stack.               *)

Cima     == pila[Len(pila)]
Actual   == disco[Cima.modulo]
EnPieza  == fase = "modulos" /\ Cima.pieza <= Actual.corte
EnUsar   == EnPieza /\ Actual.piezas[Cima.pieza].clase = "usar"
Pedido   == Actual.piezas[Cima.pieza].de
AlFinal  == fase = "modulos" /\ Cima.pieza > Actual.corte

Cargado(m) == \E i \in DOMAIN cargados : cargados[i] = m

(* A bug: only the module being read is looked at. *)
EnPilaCima(m) == Len(pila) > 1 /\ pila[Len(pila)].modulo = m
EnPila(m) == \E i \in 2 .. Len(pila) : pila[i].modulo = m

\* The caller adds up the errors and takes its next piece.
Adelanta(p, errores) ==
  [p EXCEPT ![Len(p)].pieza = @ + 1, ![Len(p)].errores = @ + errores]
Sigue(errores) ==
  /\ pila' = Adelanta(pila, errores)
  /\ UNCHANGED <<disco, fase, cargados, programa>>
Vuelve(errores) == pila' = Adelanta(SubSeq(pila, 1, Len(pila) - 1), errores)

LeeEntrada ==
  /\ fase = "lee"
  /\ EntradaSeLee(disco)
  /\ programa' = Propio(disco)
  /\ pila' = <<[modulo |-> Entrada, pieza |-> 1, errores |-> 0, nombres |-> {}]>>
  /\ fase' = "modulos"
  /\ UNCHANGED <<disco, cargados>>

EntradaNoSeLee ==
  /\ fase = "lee"
  /\ ~ EntradaSeLee(disco)
  /\ fase' = "rechazado"
  /\ UNCHANGED <<disco, pila, cargados, programa>>

OtraPieza == EnPieza /\ ~ EnUsar /\ Sigue(0)

(* A bug: the loop does not go on. *)
YaCargadoQuieto == EnUsar /\ Cargado(Pedido) /\ UNCHANGED vars

\* The list of names is not looked at.
YaCargado == EnUsar /\ Cargado(Pedido) /\ Sigue(0)

Ciclo == EnUsar /\ ~ Cargado(Pedido) /\ EnPila(Pedido) /\ Sigue(1)

\* Pushed and popped in the same call.
NoSeAbre ==
  /\ EnUsar /\ ~ Cargado(Pedido) /\ ~ EnPila(Pedido)
  /\ ~ disco[Pedido].existe
  /\ Sigue(1)

NoSeAnaliza ==
  /\ EnUsar /\ ~ Cargado(Pedido) /\ ~ EnPila(Pedido)
  /\ disco[Pedido].existe /\ ~ disco[Pedido].analiza
  /\ Sigue(1)

Entra ==
  /\ EnUsar /\ ~ Cargado(Pedido) /\ ~ EnPila(Pedido)
  /\ SeLee(disco[Pedido])
  /\ pila' = Append(pila, [modulo |-> Pedido, pieza |-> 1, errores |-> 0,
                           nombres |-> Actual.piezas[Cima.pieza].nombres])
  /\ UNCHANGED <<disco, fase, cargados, programa>>

-----------------------------------------------------------------------------
(* The end of a module: its list of names is checked after its own modules.*)

Errores == Cima.errores + (IF ListaValida(Actual, Cima.nombres) THEN 0 ELSE 1)

(* A bug: its errors are not told to the caller. *)
DescartaCallado ==
  /\ AlFinal /\ Len(pila) > 1
  /\ Errores > 0
  /\ Vuelve(0)
  /\ UNCHANGED <<disco, fase, cargados, programa>>

\* It stays out of UsarLoadedSet: another `usar` reads it again.
Descarta ==
  /\ AlFinal /\ Len(pila) > 1
  /\ Errores > 0
  /\ Vuelve(Errores)
  /\ UNCHANGED <<disco, fase, cargados, programa>>

(* A bug: what the module sends goes before what the program has. *)
FundeDelante ==
  /\ AlFinal /\ Len(pila) > 1
  /\ Errores = 0
  /\ programa' = [programa EXCEPT
       !.funciones = Definiciones(disco, Cima.modulo, Funciones, TRUE) \o @,
       !.globales  = Definiciones(disco, Cima.modulo, Globales, TRUE) \o @]
  /\ cargados' = Append(cargados, Cima.modulo)
  /\ Vuelve(0)
  /\ UNCHANGED <<disco, fase>>

Funde ==
  /\ AlFinal /\ Len(pila) > 1
  /\ Errores = 0
  /\ programa' = Fundido(programa, disco, Cima.modulo)
  /\ cargados' = Append(cargados, Cima.modulo)
  /\ Vuelve(0)
  /\ UNCHANGED <<disco, fase>>

(* A bug: a refused program leaves its loop half done. *)
RegistradosTarde ==
  /\ AlFinal /\ Len(pila) = 1
  /\ fase' = IF Cima.errores > 0 THEN "rechazado" ELSE "reservadas"
  /\ pila' = IF Cima.errores > 0 THEN pila ELSE <<>>
  /\ UNCHANGED <<disco, cargados, programa>>

\* The end of register_usar_modules.
Registrados ==
  /\ AlFinal /\ Len(pila) = 1
  /\ fase' = IF Cima.errores > 0 THEN "rechazado" ELSE "reservadas"
  /\ pila' = <<>>
  /\ UNCHANGED <<disco, cargados, programa>>

-----------------------------------------------------------------------------
(* The rest of do_compile, over the merged program.  Unused names are only *)
(* warned about (no --werror), and the output file can be written.         *)

Comprueba(f, vale, g) ==
  /\ fase = f
  /\ fase' = IF vale THEN g ELSE "rechazado"
  /\ UNCHANGED <<disco, pila, cargados, programa>>

Reservadas == Comprueba("reservadas", Permitido(programa), "retornos")
Retornos   == Comprueba("retornos", Retorna(programa), "tipos")
Tipos      == Comprueba("tipos", SeResuelve(programa), "genera")
Genera     == Comprueba("genera", SeGenera(programa), "aceptado")

Terminado == fase \in {"aceptado", "rechazado"} /\ UNCHANGED vars

Paso ==
  \/ LeeEntrada \/ EntradaNoSeLee
  \/ OtraPieza \/ YaCargado \/ Ciclo \/ NoSeAbre \/ NoSeAnaliza \/ Entra
  \/ Descarta \/ Funde \/ Registrados
  \/ Reservadas \/ Retornos \/ Tipos \/ Genera

Next == Paso \/ Terminado

\* The compiler is one thread, and each step is code that runs to its end.
Spec == Init /\ [][Next]_vars /\ WF_vars(Paso)

-----------------------------------------------------------------------------
\* Each piece of the state stays in its domain.
TypeOK ==
  /\ disco \in [Archivos -> Archivo]
  /\ fase \in Fases
  /\ pila \in Seq(Marco)
  /\ cargados \in Seq(Archivos)
  /\ IF fase = "modulos" THEN pila # <<>> /\ pila[1].modulo = Entrada ELSE pila = <<>>

\* Whatever modules ask for each other, none is read inside itself and none is merged
\* twice (usar_stack_contains, usar_loaded_contains): the search ends and no function or
\* global is repeated because two files ask for the module of it.
SinRepetir ==
  /\ \A i, j \in 2 .. Len(pila) : pila[i].modulo = pila[j].modulo => i = j
  /\ \A i, j \in DOMAIN cargados : cargados[i] = cargados[j] => i = j
  /\ \A i \in 2 .. Len(pila), j \in DOMAIN cargados : pila[i].modulo # cargados[j]

\* A module is merged after every module it asks for, and a program that gets past the
\* loader has them all: what a sent function needs of another file is there before it.
\* Until then, what a file has asked for without an error is loaded.
Precede(i, m) == \E j \in DOMAIN cargados : j < i /\ cargados[j] = m
DespuesDeLosSuyos ==
  \A i \in DOMAIN cargados : \A k \in Usos(disco[cargados[i]]) : Precede(i, disco[cargados[i]].piezas[k].de)
Recorrido ==
  \A i \in DOMAIN pila : \A k \in Usos(disco[pila[i].modulo]) :
    pila[i].errores = 0 /\ k < pila[i].pieza => Cargado(disco[pila[i].modulo].piezas[k].de)
TodosCargados ==
  fase \in {"reservadas", "retornos", "tipos", "genera", "aceptado"} =>
    \A k \in Usos(disco[Entrada]) : Cargado(disco[Entrada].piezas[k].de)
Encadenados ==
  \A i \in 1 .. Len(pila) - 1 : disco[pila[i].modulo].piezas[pila[i].pieza].de = pila[i + 1].modulo
OrdenDeCarga == DespuesDeLosSuyos /\ Recorrido /\ TodosCargados /\ Encadenados

\* The stack, the early returns and the order of search come to what `usar` promises.
Promesa == INSTANCE Importacion WITH
  veredicto <- IF fase \in {"aceptado", "rechazado"} THEN fase ELSE "pendiente",
  programa  <- IF fase = "aceptado" THEN programa ELSE NoHay
ImplementaImportacion == Promesa!Spec

\* Every compilation ends with a verdict, also when modules ask for each other in a circle
\* or a refused module is read again from each file that asks for it.
Termina == <>(fase \in {"aceptado", "rechazado"})
=============================================================================
