---------------------------- MODULE AnalizadorArchivo ----------------------------
(***************************************************************************)
(* The front end on one source: the lexer reads it word by word and the    *)
(* parser reads its definitions one by one, recovering from errors, until  *)
(* the compiler has a tree or refuses the source.                          *)
(*                                                                         *)
(* The words that open a graphic interface (Estructa, componente, vista,   *)
(* tema, aplicacion, app) are in no source.                                *)
(***************************************************************************)
EXTENDS Analizador

CONSTANT FUENTES        \* the sources: [de: its kind, id: which one, w: its words]

VARIABLES
  fuente,   \* the source
  p,        \* the parser, and the tokens read so far
  arbol,    \* the definitions read so far
  fase,
  vuelta    \* changes at every turn of the loop of the parser: one that does nothing is a step

vars == <<fuente, p, arbol, fase, vuelta>>

FINALES == {"aceptada", "rechazada", "rota"}
VACIO == [cls |-> <<>>, glob |-> <<>>, fun |-> <<>>, main |-> <<>>, usa |-> <<>>]

Init == /\ fuente \in FUENTES
        /\ p = parser_init(<<>>)
        /\ arbol = VACIO
        /\ fase = "lexico"
        /\ vuelta = FALSE

(***************************************************************************)
(* The lexer                                                               *)
(***************************************************************************)
(* A word that is no token ends the compilation. *)
LeeFicha ==
  LET k == Len(p.t) + 1
      f == lexer_next(fuente.w[k])
  IN /\ fase = "lexico" /\ k \in DOMAIN fuente.w
     /\ p' = [p EXCEPT !.t = Append(@, f)]
     /\ fase' = IF f = NO_LEIDA THEN "rechazada" ELSE fase
     /\ UNCHANGED <<fuente, arbol, vuelta>>

LeeFin == /\ fase = "lexico" /\ Len(p.t) = Len(fuente.w)
          /\ p' = [p EXCEPT !.t = Append(@, FIN)]
          /\ fase' = "sintaxis"
          /\ UNCHANGED <<fuente, arbol, vuelta>>

(***************************************************************************)
(* What the parser does after one definition                               *)
(***************************************************************************)
(* A bug: the new definition goes before the others. *)
SigueDelante(q, parte, ns) == /\ p' = q
                              /\ arbol' = [arbol EXCEPT ![parte] = ns \o @]
                              /\ fase' = IF q.roto THEN "rota" ELSE fase
                              /\ vuelta' = ~vuelta
                              /\ UNCHANGED fuente

(* A bug: a definition that is read well clears the errors before it. *)
SigueLimpio(q, parte, ns) == /\ p' = IF ns = <<>> THEN q ELSE [q EXCEPT !.mal = FALSE]
                             /\ arbol' = [arbol EXCEPT ![parte] = @ \o ns]
                             /\ fase' = IF q.roto THEN "rota" ELSE fase
                             /\ vuelta' = ~vuelta
                             /\ UNCHANGED fuente

(* Goes on, with ns among the definitions of that kind. *)
Sigue(q, parte, ns) == /\ p' = q
                       /\ arbol' = [arbol EXCEPT ![parte] = @ \o ns]
                       /\ fase' = IF q.roto THEN "rota" ELSE fase
                       /\ vuelta' = ~vuelta
                       /\ UNCHANGED fuente

(* Reads nothing more. *)
Deja(q) == /\ p' = q
           /\ fase' = IF q.roto THEN "rota" ELSE "cierre"
           /\ UNCHANGED <<fuente, arbol, vuelta>>

(* After a definition that is no node: to the next one if there was an error. *)
Recupera(q) ==
  IF q.err /\ ~q.roto THEN Sigue(parser_synchronize(parser_accumulate_error(q)), "fun", <<>>) ELSE Deja(q)

(* An error at the token that is next, which is passed over. *)
Suelto(q) == Sigue(Avanza(parser_accumulate_error(q)), "fun", <<>>)

DeLaFuncion(q) ==
  \E r \in {parse_function(q)} : IF r.a = <<>> THEN Recupera(r.p) ELSE Sigue(r.p, "fun", r.a)

(* A definition that the body of another one cut short leaves no error. *)
DeLaEstructura(q, esClase, enviada) ==
  \E r \in {parse_struct_body(q, esClase)} :
    IF r.a # <<>> \/ ~r.p.err THEN Sigue(r.p, "cls", r.a)
    ELSE IF enviada THEN Recupera(r.p)
    ELSE Deja(parser_accumulate_error(r.p))

(***************************************************************************)
(* The definitions, by their first word                                    *)
(***************************************************************************)
Ante(ws) == /\ fase = "sintaxis"
            /\ Mira(p, 0).k = "pal" /\ Mira(p, 0).s \in ws
ABREN == {"asincrono", "enviar", "funcion", "principal", "registro", "clase", "fin_registro",
          "fin_clase", "activar_modulo", "usar"}

Asincrono ==
  LET enviada == Es(Mira(p, 1), "enviar")
      q == IF enviada THEN Avanza(Avanza(p)) ELSE Avanza(p)
  IN /\ Ante({"asincrono"})
     /\ IF Es(Mira(q, 0), "funcion") THEN DeLaFuncion(q) ELSE Recupera(Error(q))

Funcion == Ante({"funcion"}) /\ DeLaFuncion(p)

Estructura == /\ Ante({"registro", "clase"})
              /\ DeLaEstructura(Avanza(p), Es(Mira(p, 0), "clase"), FALSE)

(* The names up to the first that is no name. *)
RECURSIVE Nombres(_, _)
Nombres(q, ns) ==
  LET n == Mira(q, 0)
      mas == Append(ns, NombreDe(n))
  IN IF n.k = "nil" \/ Es(n, "}") THEN [p |-> q, ns |-> ns]
     ELSE IF ~NombreValido(n) THEN [p |-> SinNombre(q, n).p, ns |-> ns]
     ELSE IF Es(Mira(q, 1), ",") THEN Nombres(Avanza(Avanza(q)), mas)
     ELSE [p |-> Avanza(q), ns |-> mas]

(* An unclosed list leaves its error for later, and the parser goes on. *)
EnviaNombres(q) ==
  LET r == Nombres(q, <<>>)
  IN IF Es(Mira(r.p, 0), "}") THEN Sigue(Avanza(r.p), "usa", <<[k |-> "envia", ns |-> r.ns]>>)
     ELSE Sigue(parser_synchronize(Error(r.p)), "usa", <<>>)

EnviaSentencia(q) ==
  \E r \in {Sentencia(q)} :
    IF r.a = <<>> THEN Recupera(r.p)
    ELSE IF r.a[1].k = "decl" THEN Sigue(r.p, "glob", r.a)
    ELSE Recupera(Error(r.p))

Enviar ==
  LET q == Avanza(p)
      t == Mira(q, 0)
      estructura == t.k = "pal" /\ t.s \in {"registro", "clase"}
  IN /\ Ante({"enviar"})
     /\ IF t.k = "pal" /\ t.s = "funcion" THEN DeLaFuncion(q)
        ELSE IF estructura THEN DeLaEstructura(Avanza(q), t.s = "clase", TRUE)
        ELSE IF Es(t, "{") THEN EnviaNombres(Avanza(q))
        ELSE EnviaSentencia(q)

(* A block without its end, at the end of the source, is dropped. *)
Principal ==
  /\ Ante({"principal"})
  /\ \E b \in {Bloque(Avanza(p), {"fin_principal"})} :
       IF EsFinal(Mira(b.p, 0)) THEN Sigue(b.p, "main", <<>>)
       ELSE IF Es(Mira(b.p, 0), "fin_principal") THEN Sigue(Avanza(b.p), "main", b.ss)
       ELSE Recupera(Error(b.p))

CierreSuelto == Ante({"fin_registro", "fin_clase"}) /\ Suelto(p)

(* `usar { a, b } de "path"`: names without repetition, at least one; the end of
   the source is taken for a name and copying it crashes. *)
RECURSIVE Importados(_, _)
Importados(q, ns) ==
  LET n == Mira(q, 0)
      mas == Append(ns, n.s)
      falla(x) == [p |-> x, ok |-> FALSE, ns |-> ns]
  IN IF Es(n, "}") THEN [p |-> IF ns = <<>> THEN Error(q) ELSE q, ok |-> ns # <<>>, ns |-> ns]
     ELSE IF n.k = "nil" THEN falla(Error(q))
     ELSE IF ~NombreValido(n) THEN falla(SinNombre(q, n).p)
     ELSE IF ~TieneCadena(n) THEN falla(Rota(q))
     ELSE IF n.s \in ToSet(ns) THEN falla(Error(q))
     ELSE IF Es(Mira(q, 1), ",") THEN Importados(Avanza(Avanza(q)), mas)
     ELSE IF Es(Mira(q, 1), "}") THEN [p |-> Avanza(q), ok |-> TRUE, ns |-> mas]
     ELSE falla(Error(Avanza(q)))

Usar ==
  LET r == Importados(Avanza(Avanza(p)), <<>>)
      q == r.p
      tras == Avanza(Avanza(Avanza(q)))
      quieta == Mira(p, 1).k = "txt" \/ Es(Mira(p, 1), "todo") \/ Es(Mira(p, 1), "todas")
  IN /\ Ante({"usar", "activar_modulo"})
     /\ IF ~Es(Mira(p, 1), "{") THEN Recupera(Error(IF quieta THEN Avanza(p) ELSE Avanza(Avanza(p))))
        ELSE IF ~r.ok THEN Recupera(q)
        ELSE IF ~Es(Mira(q, 1), "de") THEN Recupera(Error(Avanza(q)))
        ELSE IF Mira(q, 2).k # "txt" THEN Recupera(Error(tras))
        ELSE Sigue(tras, "usa", <<[k |-> "usa", ns |-> r.ns, ruta |-> Mira(q, 2).s]>>)

(* The next end of a registro, if no definition begins before it. *)
FinHuerfano(q) ==
  LET alto == {i \in q.pos..Len(q.t) :
                 \/ q.t[i].k = "fin"
                 \/ /\ q.t[i].k = "pal"
                    /\ q.t[i].s \in {"principal", "registro", "clase", "fin_registro", "fin_clase"}}
  IN {i \in alto : /\ \A j \in alto : i <= j
                   /\ q.t[i].k = "pal" /\ q.t[i].s \in {"fin_registro", "fin_clase"}}

(* Anything else is a statement: a variable is global, and another statement
   an error, after which the fields of a registro that was not opened are
   passed over. *)
DeSentencia(a, q) ==
  IF q.roto THEN Deja(q)
  ELSE IF a = <<>>
       THEN IF ~q.err /\ (Es(Mira(q, 0), "fin_registro") \/ Es(Mira(q, 0), "fin_clase")) THEN Suelto(q)
            ELSE Recupera(q)
  ELSE IF a[1].k = "decl" THEN Sigue(Opcional(q, "."), "glob", a)
  ELSE IF a[1].k = "expr" /\ a[1].e.k = "var" /\ FinHuerfano(q) # {}
       THEN Sigue([parser_accumulate_error(q) EXCEPT !.pos = (CHOOSE i \in FinHuerfano(q) : TRUE) + 1], "fun", <<>>)
  ELSE Recupera(Error(q))

Global == /\ fase = "sintaxis"
          /\ ~EsFinal(Mira(p, 0)) /\ ~Ante(ABREN)
          /\ \E r \in {Sentencia(p)} : DeSentencia(r.a, r.p)

Acaba == /\ fase = "sintaxis" /\ EsFinal(Mira(p, 0))
         /\ fase' = "cierre"
         /\ UNCHANGED <<fuente, p, arbol, vuelta>>

(* A bug: back to reading after a loose end. *)
CierreQueVuelve ==
  /\ fase = "cierre"
  /\ p' = p
  /\ fase' = IF Mira(p, 0).k = "pal" /\ Mira(p, 0).s \in {"fin_principal", "fin_registro", "fin_clase"} THEN "sintaxis"
             ELSE IF p.mal \/ p.err THEN "rechazada" ELSE "aceptada"
  /\ UNCHANGED <<fuente, arbol, vuelta>>

(* Where the parser stopped, an end of a definition is an error; any other
   token goes unread.  The source is refused if some error was kept. *)
Cierre ==
  LET t == Mira(p, 0)
      suelto == t.k = "pal" /\ t.s \in {"fin_principal", "fin_registro", "fin_clase"}
  IN /\ fase = "cierre"
     /\ p' = IF suelto THEN parser_accumulate_error(p) ELSE p
     /\ fase' = IF p'.mal \/ p'.err THEN "rechazada" ELSE "aceptada"
     /\ UNCHANGED <<fuente, arbol, vuelta>>

(* The process has ended. *)
Vive == fase \notin FINALES
Terminado == ~Vive /\ UNCHANGED vars

Next == \/ LeeFicha \/ LeeFin
        \/ Asincrono \/ Enviar \/ Funcion \/ Principal \/ Estructura \/ CierreSuelto \/ Usar \/ Global
        \/ Acaba \/ Cierre
        \/ Terminado

(* One process, which nothing suspends: this is WF_vars(Next), with ENABLED Next
   written out; that a source being read is never stuck is the check for deadlock. *)
Justicia == <>[]Vive => []<><<TRUE>>_vars

Spec == Init /\ [][Next]_vars /\ Justicia

(***************************************************************************)
(* Properties                                                              *)
(***************************************************************************)
(* parser_parse: an error, once found, is never forgotten, whatever is recovered
   or read after it, and the source is not accepted. *)
ErrorNoSePierde ==
  [][(p.err \/ p.mal) => (p'.err \/ p'.mal) /\ fase' # "aceptada"]_vars

(* The compiler ends on every source, with a tree, an error or a crash. *)
Termina == <>(fase \in FINALES)
=============================================================================
