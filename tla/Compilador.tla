------------------------------- MODULE Compilador -------------------------------
(***************************************************************************)
(* A program compiled by codegen.c and run by vm.c.                        *)
(*                                                                         *)
(* The generator takes the first pending order, a node to visit, and       *)
(* replaces it by the orders of its visit, until nothing is left; the      *)
(* code, its jumps patched, is what the machine runs one instruction at a  *)
(* time.  There is one action per kind of node and one per group of        *)
(* instructions.                                                           *)
(***************************************************************************)
EXTENDS Programas, Maquina

CONSTANT Programa   \* the programs, a sequence; with espera, what they mean to print, and mal, to be refused

VARIABLES ip,    \* the program
          fase,  \* "genera", "corre" or "fuera", a program that was refused
          g,     \* the generator
          cod,   \* the code
          m      \* the machine
vars == <<ip, fase, g, cod, m>>

Init == /\ ip \in DOMAIN Programa
        /\ fase = "genera"
        /\ g = Inicia(Programa[ip])
        /\ cod = <<>>
        /\ m = Maquina0

(***************************************************************************)
(* Generation                                                              *)
(***************************************************************************)
Pendiente(o) == fase = "genera" /\ ~Termino(g) /\ Head(g.pend).o = o
Resto == [g EXCEPT !.pend = Tail(@)]

Visita(h) == g' = Avanza(h) /\ UNCHANGED <<ip, fase, cod, m>>

EnExpresion(k) == Pendiente("expr") /\ Head(g.pend).e.k = k
E1 == Head(g.pend).e
R1 == Head(g.pend).r % 256

Numero == (\E k \in {"num", "flot", "car", "nulo"} : EnExpresion(k)) /\ Visita(VisitaNumero(Resto, E1, R1))
TextoLiteral == (EnExpresion("txt") \/ EnExpresion("con")) /\ Visita(VisitaTexto(Resto, E1, R1))
Interpolado == EnExpresion("interp") /\ Visita(VisitaInterpolado(Resto, E1, R1))
Entrada1 == EnExpresion("entrada") /\ Visita(VisitaEntrada(Resto, E1, R1))
ListaLiteral == EnExpresion("lista") /\ Visita(VisitaLista(Resto, E1, R1))
MapaLiteral == EnExpresion("mapa") /\ Visita(VisitaMapa(Resto, E1, R1))
Variable == EnExpresion("var") /\ Visita(VisitaVariable(Resto, E1, R1))
Posfijo == EnExpresion("post") /\ Visita(VisitaPosfijo(Resto, E1, R1))
Unaria == EnExpresion("un") /\ Visita(VisitaUnaria(Resto, E1, R1))
Binaria == EnExpresion("bin") /\ Visita(VisitaBinaria(Resto, E1, R1))
Ternaria == EnExpresion("ter") /\ Visita(VisitaTernaria(Resto, E1, R1))
Llamada == EnExpresion("llam") /\ Visita(VisitaLlamada(Resto, E1, R1))
MetodoLlamado == EnExpresion("met") /\ Visita(VisitaMetodo(Resto, E1, R1))
Invocada == EnExpresion("icall") /\ Visita(VisitaInvocada(Resto, E1, R1))
Lambda1 == EnExpresion("lam") /\ Visita(VisitaLambda(Resto, E1, R1))
Indice == EnExpresion("idx") /\ Visita(VisitaIndice(Resto, E1, R1))
Miembro == EnExpresion("miem") /\ Visita(VisitaMiembro(Resto, E1, R1))
Json1 == EnExpresion("json") /\ Visita(VisitaJson(Resto, E1, R1))
BloqueExpresion == EnExpresion("bloque") /\ Visita(VisitaBloqueExpresion(Resto, E1, R1))

GeneraExpresion ==
  \/ Numero \/ TextoLiteral \/ Interpolado \/ Entrada1 \/ ListaLiteral \/ MapaLiteral \/ Variable
  \/ Posfijo \/ Unaria \/ Binaria \/ Ternaria \/ Llamada \/ MetodoLlamado \/ Invocada \/ Lambda1
  \/ Indice \/ Miembro \/ Json1 \/ BloqueExpresion

EnSentencia(k) == Pendiente("sent") /\ Head(g.pend).s.k = k
S1 == Head(g.pend).s

Declara1 == EnSentencia("decl") /\ Visita(SentenciaDeclarar(Resto, S1))
Imprimir == EnSentencia("imp") /\ Visita(SentenciaImprimir(Resto, S1))
Asignar == EnSentencia("asig") /\ Visita(SentenciaAsignar(Resto, S1))
AsignarMiembro == EnSentencia("asigMiem") /\ Visita(SentenciaAsignarMiembro(Resto, S1))
AsignarIndice == EnSentencia("asigIdx") /\ Visita(SentenciaAsignarIndice(Resto, S1))
Si == EnSentencia("si") /\ Visita(SentenciaSi(Resto, S1))
Mientras == EnSentencia("mien") /\ Visita(SentenciaMientras(Resto, S1))
Para == EnSentencia("para") /\ Visita(SentenciaPara(Resto, S1))
ParaCada == EnSentencia("cada") /\ Visita(SentenciaParaCada(Resto, S1))
Hacer == EnSentencia("hacer") /\ Visita(SentenciaHacer(Resto, S1))
Elegir == EnSentencia("elegir") /\ Visita(SentenciaElegir(Resto, S1))
Intentar == EnSentencia("intentar") /\ Visita(SentenciaIntentar(Resto, S1))
Lanzar == EnSentencia("lanzar") /\ Visita(SentenciaLanzar(Resto, S1))
Romper == EnSentencia("romper") /\ Visita(SentenciaRomper(Resto))
Seguir == EnSentencia("seguir") /\ Visita(SentenciaSeguir(Resto))
Retornar == EnSentencia("ret") /\ Visita(SentenciaRetornar(Resto, S1))
Leer == EnSentencia("leer") /\ Visita(SentenciaLeer(Resto, S1))
Suelta1 == EnSentencia("expr") /\ Visita(SentenciaSuelta(Resto, S1))
Conceptos == EnSentencia("concepto") /\ Visita(SentenciaConceptos(Resto, S1))
Extraer == EnSentencia("texto") /\ Visita(SentenciaTexto(Resto, S1))
Memoria1 == EnSentencia("memoria") /\ Visita(SentenciaMemoria(Resto, S1))
Responder == EnSentencia("responder") /\ Visita(SentenciaResponder(Resto, S1))

GeneraSentencia ==
  \/ Declara1 \/ Imprimir \/ Asignar \/ AsignarMiembro \/ AsignarIndice \/ Si \/ Mientras \/ Para
  \/ ParaCada \/ Hacer \/ Elegir \/ Intentar \/ Lanzar \/ Romper \/ Seguir \/ Retornar \/ Leer
  \/ Suelta1 \/ Conceptos \/ Extraer \/ Memoria1 \/ Responder

GeneraBloque == Pendiente("bloque") /\ Visita(VisitaBloque(Resto, Head(g.pend).b, Head(g.pend).i))
GeneraInicial == Pendiente("inicial") /\ Visita(VisitaInicial(Resto, S1))
GeneraFunciones == Pendiente("funciones") /\ Visita(VisitaFunciones(Resto, Head(g.pend).p))

(* What is left of the generator is what tells whether it closed everything
   it opened. *)
Resumen == [g EXCEPT !.cod = <<>>, !.et = <<>>, !.par = <<>>, !.fun = <<>>, !.cls = <<>>]

Enlaza == /\ fase = "genera" /\ Termino(g) /\ ~g.err
          /\ fase' = "corre"
          /\ cod' = Codigo(g)
          /\ g' = Resumen
          /\ UNCHANGED <<ip, m>>

(* With errors no code is left. *)
Refusa == /\ fase = "genera" /\ g.err
          /\ fase' = "fuera"
          /\ cod' = Codigo(g)
          /\ g' = Resumen
          /\ UNCHANGED <<ip, m>>

(***************************************************************************)
(* Execution                                                               *)
(***************************************************************************)
Instruccion == cod[m.pc]
EnMarcha == fase = "corre" /\ m.fin = "corre"

Corre(ops, hecho) == /\ EnMarcha /\ m.pc \in DOMAIN cod /\ Instruccion.op \in ops
                     /\ m' = hecho
                     /\ UNCHANGED <<ip, fase, g, cod>>

CorreMemoria == Corre(Memoriales, Memorial(m, Instruccion))
CorreNumero == Corre(Numericas, Numerica(m, Instruccion))
CorreControl == Corre(Controles, Control(m, Instruccion))
CorreSalida == Corre(Salidas5, Salida(m, Instruccion))
CorreTexto == Corre(OPS_TEXTO, Textual(m, Instruccion))
CorreLista == Corre(DeListas, DeLista(m, Instruccion))
CorreMapa == Corre(DeMapas, DeMapa(m, Instruccion))
CorreClausura == Corre({"CLOSURE_CREAR", "CLOSURE_CARGAR"}, Clausural(m, Instruccion))
CorreMatriz == Corre(Matriciales, Matricial(m, Instruccion))
CorreSistema == Corre({"SISTEMA"}, Sistema(m, Instruccion))
CorreEntrada == Corre({"IO_INPUT"}, EntradaTexto(m, Instruccion))

(* Outside the code the machine stops, with no error. *)
CorreFuera == /\ EnMarcha /\ m.pc \notin DOMAIN cod
              /\ m' = [m EXCEPT !.fin = "fuera"]
              /\ UNCHANGED <<ip, fase, g, cod>>

Maquina1 ==
  \/ CorreMemoria \/ CorreNumero \/ CorreControl \/ CorreSalida \/ CorreTexto \/ CorreLista \/ CorreMapa
  \/ CorreClausura \/ CorreMatriz \/ CorreSistema \/ CorreEntrada \/ CorreFuera

(* The compilation and the run have ended. *)
Vive == fase = "genera" \/ EnMarcha
Terminado == ~Vive /\ UNCHANGED vars

Next ==
  \/ GeneraExpresion \/ GeneraSentencia \/ GeneraBloque \/ GeneraInicial \/ GeneraFunciones
  \/ Enlaza \/ Refusa \/ Maquina1
  \/ Terminado

(* The compiler and the machine are one loop each, which nothing suspends:
   this is WF_vars(Next), with ENABLED Next written out; that they are never
   stuck before the end is the check for deadlock. *)
Justicia == <>[]Vive => []<><<TRUE>>_vars

Spec == Init /\ [][Next]_vars /\ Justicia

(***************************************************************************)
(* Properties                                                              *)
(***************************************************************************)
(* The code of a program, run to its end, prints what the program means to
   print: the registers and the frame carry every value from where it is
   computed to where it is used (visit_expression, visit_statement, vm_step). *)
SalidaFiel == m.fin # "corre" => m.sale = Programa[ip].espera /\ m.fin = Programa[ip].acaba

(* A program is refused exactly when it has one of the errors the generator
   looks for (sym_declare_fail, validate_struct, the reject functions). *)
RechazoFiel == /\ fase = "fuera" => Programa[ip].mal
               /\ fase = "corre" => ~Programa[ip].mal

(* Once generated, a program has left every scope, temporary, argument list,
   frame and context it entered, and every jump, call and handler of it leads to
   an instruction (sym_exit_scope, codegen_generate, resolve_patches). *)
NadaAbierto == Len(g.alc) = 1 /\ g.temps = <<>> /\ g.marcos = <<>> /\ g.anid = 0 /\ g.ctx = SinContexto
Saltos == {"IR", "SI", "LLAMAR", "TRY_ENTER"}
SaltosResueltos == \A k \in DOMAIN cod : cod[k].op \in Saltos => cod[k].c \in DOMAIN cod
TodoCerrado == fase = "corre" => NadaAbierto /\ SaltosResueltos

(* What a function reads and writes by its frame lies in the frame that its
   prologue reserved, so that the functions it calls do not reach it. *)
EnMarco == m.fp + (IF Instruccion.op \in {"LEER"} THEN Instruccion.b ELSE Instruccion.a) + PALABRA <= m.sp
MarcoSuficiente ==
  /\ EnMarcha /\ m.pc \in DOMAIN cod
  /\ Instruccion.op \in {"LEER", "ESCRIBIR"} /\ Instruccion.c = 1
  /\ m.sp > INICIO_PILA
  => EnMarco

(* No call returns and leaves its handler behind, and a program that ends well
   has returned from every call and left every intentar. *)
PilaEquilibrada == /\ \A k \in DOMAIN m.intentos : m.intentos[k].n <= Len(m.pila)
                   /\ m.fin = "bien" => m.pila = <<>> /\ m.intentos = <<>>

(* Every program is refused, or ends. *)
Termina == <>(fase = "fuera" \/ m.fin # "corre")
================================================================================
