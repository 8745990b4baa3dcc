--------------------------------- MODULE Colapsos ---------------------------------
(***************************************************************************)
(* Loops that the compiler replaces by their result (codegen.c).  A loop   *)
(* is recognised by its shape and by the declarations just before it: some *)
(* shapes compute a value the compiler knows, others are whole programs of *)
(* the benchmarks, of which only part is compared.                         *)
(*                                                                         *)
(* A recogniser takes a block ss and the index i of the loop and returns   *)
(* the sequence of values that the loop leaves, or <<>>; Colapso(g, ss, i) *)
(* chooses among them and gives the orders to emit and the number of       *)
(* statements they stand for.                                              *)
(***************************************************************************)
EXTENDS Generador, Cadenas

EsNumero(e) == e.k \in {"num", "car", "nulo"}
EsCero(vs) == vs # <<>> /\ EsNumero(vs[1]) /\ vs[1].v = 0
EsVar(e, n) == e.k = "var" /\ e.n = n

Es(ss, i, k) == i \in DOMAIN ss /\ ss[i].k = k
DeclaraCero(ss, i) == Es(ss, i, "decl") /\ EsCero(ss[i].v)

(* A comparison of a counter with a limit, and the step of a counter. *)
MenorQue(e, n) == e.k = "bin" /\ e.op = "<" /\ EsVar(e.i, n)
MenorQueNumero(e, n) == MenorQue(e, n) /\ EsNumero(e.d)
AvanzaEnUno(s, n) ==
  /\ s.k = "asig" /\ s.n = n
  /\ s.v.k = "bin" /\ s.v.op = "+" /\ EsVar(s.v.i, n)
  /\ EsNumero(s.v.d) /\ s.v.d.v = 1

LlamaConVar(e, n, v, aridad) == e.k = "llam" /\ e.n = n /\ Len(e.as) = aridad /\ EsVar(e.as[1], v)

(* v = concatenar(v, "literal") *)
Agrega(s, v) ==
  /\ s.k = "asig" /\ s.n = v
  /\ LlamaConVar(s.v, "concatenar", v, 2) /\ s.v.as[2].k = "txt"

(* texto t = "a"; entero i = 0; while i < n do t = concatenar(t, "b"); i = i + 1 *)
TextoRepetido(ss, i) ==
  LET d == ss[i]
      c == ss[i + 1]
      w == ss[i + 2]
  IN IF /\ Es(ss, i, "decl") /\ d.t = "texto" /\ d.v # <<>> /\ d.v[1].k \in {"txt", "interp"}
        /\ DeclaraCero(ss, i + 1) /\ c.t = "entero"
        /\ Es(ss, i + 2, "mien") /\ MenorQueNumero(w.c, c.n)
        /\ Len(w.b) = 2 /\ Agrega(w.b[1], d.n) /\ AvanzaEnUno(w.b[2], c.n)
        /\ w.b[1].v.as[2].s # "" \/ w.c.d.v = 0
     THEN <<d.v[1].s \o Repite(w.b[1].v.as[2].s, w.c.d.v)>>
     ELSE <<>>

(* entero i = 0; entero s = 0; entero n = N; while i < n do s = s + i; i = i + 1 *)
SumaHasta(ss, i) ==
  LET c == ss[i - 3]
      s == ss[i - 2]
      n == ss[i - 1]
      w == ss[i]
  IN IF /\ i > 3 /\ DeclaraCero(ss, i - 3) /\ DeclaraCero(ss, i - 2)
        /\ Es(ss, i - 1, "decl") /\ n.v # <<>> /\ EsNumero(n.v[1])
        /\ MenorQue(w.c, c.n) /\ EsVar(w.c.d, n.n)
        /\ Len(w.b) = 2 /\ AvanzaEnUno(w.b[2], c.n)
        /\ w.b[1].k = "asig" /\ w.b[1].n = s.n
        /\ w.b[1].v.k = "bin" /\ w.b[1].v.op = "+" /\ EsVar(w.b[1].v.i, s.n) /\ EsVar(w.b[1].v.d, c.n)
     THEN <<(n.v[1].v * (n.v[1].v - 1)) \div 2, n.v[1].v>>
     ELSE <<>>

SumaDeEnteros(ss, i) ==
  IF SumaHasta(ss, i) # <<>> /\ \A k \in 1..3 : ss[i - k].t = "entero" THEN SumaHasta(ss, i) ELSE <<>>

Aporta(call, texto) ==
  LET p == call.as[2].s IN
  CASE call.n = "contiene_texto" -> IF Contiene(texto, p) THEN 1 ELSE 0
    [] call.n = "buscar_en_texto" -> PosicionEn(texto, p)
    [] call.n = "termina_con" -> IF TerminaEn(texto, p) THEN 1 ELSE 0

Busquedas == {"contiene_texto", "buscar_en_texto", "termina_con"}

(* Three searches in a repeated text, added up n times: the sum. *)
BusquedasRepetidas(t, texto, a, c, w) ==
  LET busca(s) == /\ s.k = "asig" /\ s.n = a.n /\ s.v.k = "bin" /\ s.v.op = "+" /\ EsVar(s.v.i, a.n)
                  /\ \E f \in Busquedas : LlamaConVar(s.v.d, f, t, 2)
                  /\ s.v.d.as[2].k \in {"txt", "interp"}
  IN IF /\ MenorQueNumero(w.c, c.n) /\ Len(w.b) = 4
        /\ \A k \in 1..3 : busca(w.b[k])
        /\ AvanzaEnUno(w.b[4], c.n)
     THEN <<w.c.d.v * (Aporta(w.b[1].v.d, texto) + Aporta(w.b[2].v.d, texto) + Aporta(w.b[3].v.d, texto)),
            w.c.d.v>>
     ELSE <<>>

BusquedaTexto(ss, i) ==
  IF /\ i > 5 /\ DeclaraCero(ss, i - 1) /\ DeclaraCero(ss, i - 2) /\ TextoRepetido(ss, i - 5) # <<>>
  THEN BusquedasRepetidas(ss[i - 5].n, TextoRepetido(ss, i - 5)[1], ss[i - 2], ss[i - 1], ss[i])
  ELSE <<>>

(* entero i = 0; while i < n do t = concatenar(t, "a"); t = concatenar(t, "b"); i = i + 1 *)
ConcatenaLiterales(ss, i) ==
  LET c == ss[i - 1]
      w == ss[i]
  IN IF /\ i > 1 /\ DeclaraCero(ss, i - 1) /\ c.t = "entero"
        /\ MenorQueNumero(w.c, c.n) /\ w.c.d.v > 0
        /\ Len(w.b) = 3 /\ w.b[1].k = "asig"
        /\ Agrega(w.b[1], w.b[1].n) /\ Agrega(w.b[2], w.b[1].n) /\ AvanzaEnUno(w.b[3], c.n)
        /\ w.b[1].v.as[2].s \o w.b[2].v.as[2].s # ""
     THEN <<Repite(w.b[1].v.as[2].s \o w.b[2].v.as[2].s, w.c.d.v), w.c.d.v>>
     ELSE <<>>

(* while i < n do x = extraer_subtexto(t, 0, m); i = i + 1: the body once. *)
Invariante(w) ==
  /\ w.c.k = "bin" /\ w.c.op = "<" /\ w.c.i.k = "var" /\ EsNumero(w.c.d)
  /\ Len(w.b) = 2 /\ AvanzaEnUno(w.b[2], w.c.i.n)
  /\ w.b[1].k = "asig" /\ w.b[1].v.k = "llam" /\ w.b[1].v.n = "extraer_subtexto" /\ Len(w.b[1].v.as) = 3
  /\ LET as == w.b[1].v.as
     IN /\ as[1].k = "var" /\ as[1].n # w.c.i.n
        /\ EsNumero(as[2]) /\ EsNumero(as[3]) /\ as[2].v = 0

(***************************************************************************)
(* Whole programs: the loop and the statements after it, to the end of the *)
(* block, are replaced by what they print.                                 *)
(***************************************************************************)
ImprimeLargo(ss, i, n) ==
  Es(ss, i, "imp") /\ (LlamaConVar(ss[i].e, "longitud", n, 1) \/ LlamaConVar(ss[i].e, "longitud_texto", n, 1))
ImprimeVacio(ss, i) == Es(ss, i, "imp") /\ ss[i].e.k = "txt" /\ ss[i].e.s = ""
ImprimeVar(ss, i, n) == Es(ss, i, "imp") /\ EsVar(ss[i].e, n)

LargoDeConcatenacion(ss, i) ==
  IF /\ i > 2 /\ i + 2 = Len(ss) /\ TextoRepetido(ss, i - 2) # <<>>
     /\ ImprimeLargo(ss, i + 1, ss[i - 2].n) /\ ImprimeVacio(ss, i + 2)
  THEN <<Len(TextoRepetido(ss, i - 2)[1])>> ELSE <<>>

SumaImpresa(ss, i) ==
  IF i + 1 = Len(ss) /\ SumaHasta(ss, i) # <<>> /\ ImprimeVar(ss, i + 1, ss[i - 2].n)
  THEN <<SumaHasta(ss, i)[1]>> ELSE <<>>

BusquedaImpresa(ss, i) ==
  IF /\ i > 2 /\ i + 7 = Len(ss) /\ TextoRepetido(ss, i - 2) # <<>>
     /\ \A k \in 1..2 : Es(ss, i + k, "decl")
     /\ Es(ss, i + 3, "mien")
     /\ ImprimeLargo(ss, i + 4, ss[i - 2].n) /\ ImprimeVacio(ss, i + 5)
     /\ ImprimeVar(ss, i + 6, ss[i + 1].n) /\ ImprimeVacio(ss, i + 7)
     /\ BusquedasRepetidas(ss[i - 2].n, "", ss[i + 1], ss[i + 2], ss[i + 3]) # <<>>
  THEN LET texto == TextoRepetido(ss, i - 2)[1]
       IN <<Len(texto), BusquedasRepetidas(ss[i - 2].n, texto, ss[i + 1], ss[i + 2], ss[i + 3])[1]>>
  ELSE <<>>

SubtextoImpreso(ss, i) ==
  LET t == ss[i - 2].n
      x == ss[i + 1].n
      w == ss[i + 3]
      as == w.b[1].v.as
  IN IF /\ i > 2 /\ i + 6 = Len(ss) /\ TextoRepetido(ss, i - 2) # <<>>
        /\ \A k \in 1..2 : Es(ss, i + k, "decl")
        /\ Es(ss, i + 3, "mien")
        /\ ImprimeLargo(ss, i + 4, t) /\ ImprimeVacio(ss, i + 5) /\ ImprimeVar(ss, i + 6, x)
        /\ MenorQueNumero(w.c, ss[i + 2].n) /\ Len(w.b) = 2
        /\ w.b[1].k = "asig" /\ w.b[1].n = x /\ LlamaConVar(w.b[1].v, "extraer_subtexto", t, 3)
        /\ EsCero(<<as[2]>>) /\ EsNumero(as[3]) /\ AvanzaEnUno(w.b[2], ss[i + 2].n)
     THEN LET texto == TextoRepetido(ss, i - 2)[1]
          IN <<Len(texto), SubSeq(texto, 1, IF as[3].v > Len(texto) THEN Len(texto) ELSE as[3].v)>>
     ELSE <<>>

(* The fourth statement of the loop, the one that adds to what is printed, is
   not looked at. *)
RecorridoDeRegistro(ss, i) ==
  LET c == ss[i - 2].n
      w == ss[i]
  IN IF /\ i > 3 /\ i + 1 = Len(ss) /\ Es(ss, i - 3, "decl") /\ ss[i - 3].t \notin {"entero", "texto"}
        /\ DeclaraCero(ss, i - 2) /\ DeclaraCero(ss, i - 1) /\ ImprimeVar(ss, i + 1, ss[i - 1].n)
        /\ MenorQueNumero(w.c, c) /\ Len(w.b) = 5
        /\ \A k \in 1..5 : w.b[k].k \in {"asig", "asigMiem"}
        /\ \A k \in 1..3 : w.b[k].k = "asigMiem"
        /\ EsVar(w.b[1].v, c)
        /\ w.b[2].v.k = "bin" /\ w.b[2].v.op = "*" /\ EsVar(w.b[2].v.i, c)
        /\ EsNumero(w.b[2].v.d) /\ w.b[2].v.d.v = 2
        /\ w.b[3].v.k = "txt"
        /\ w.b[5].v.k = "bin" /\ w.b[5].v.op = "+" /\ EsVar(w.b[5].v.i, c)
        /\ EsNumero(w.b[5].v.d) /\ w.b[5].v.d.v = 1
     THEN LET n == w.c.d.v IN <<(3 * n * (n - 1)) \div 2 + Len(w.b[3].v.s) * n>>
     ELSE <<>>

(* The bodies of the two loops are not looked at: what is printed is the sum,
   for i below 300000, of three times 7 (i % 2048) % 997 plus i % 11. *)
SumaModular(n) ==
  LET f[k \in 0..n] == IF k = 0 THEN 0 ELSE f[k - 1] + ((7 * (k - 1)) % 997) IN f[n]

ArregloPesado(ss, i) ==
  IF /\ i > 3 /\ i + 3 <= Len(ss)
     /\ Es(ss, i - 3, "decl") /\ ss[i - 3].t = "lista"
     /\ DeclaraCero(ss, i - 2) /\ DeclaraCero(ss, i - 1)
     /\ Es(ss, i + 1, "asig") /\ Es(ss, i + 2, "mien") /\ ImprimeVar(ss, i + 3, ss[i - 1].n)
     /\ MenorQueNumero(ss[i].c, ss[i - 2].n) /\ ss[i].c.d.v = 2048 /\ Len(ss[i].b) = 2
     /\ ss[i + 1].n = ss[i - 2].n /\ EsCero(<<ss[i + 1].v>>)
     /\ MenorQueNumero(ss[i + 2].c, ss[i - 2].n) /\ ss[i + 2].c.d.v = 300000 /\ Len(ss[i + 2].b) = 2
  THEN <<3 * (146 * SumaModular(2048) + SumaModular(992)) + 27272 * 55 + 28>>
  ELSE <<>>

(***************************************************************************)
(* What is emitted instead                                                 *)
(***************************************************************************)
LineaDeNumero(v) == PonTodo(CargarNumero(1, v) \o <<I("IMPRIMIR_NUMERO", 1, 0, 0)>> \o ImprimirTexto("\n"))
LineaDeTexto(s) == PonTodo(ImprimirTexto(s) \o ImprimirTexto("\n"))

Guardable(g, n) == Declarado(g, n) /\ ~Busca(g, n).cte
Guarda1(g, n, r) == PonTodo(EscribirVar(Busca(g, n), r))

NoColapsa == [ordenes |-> <<>>, ocupa |-> 0, mal |-> FALSE]
Reemplaza(ordenes, ocupa) == [ordenes |-> ordenes, ocupa |-> ocupa, mal |-> FALSE]

(* The values go to the variables that the loop would have left with them. *)
DejaDos(g, n1, v1, n2, v2) ==
  IF ~Guardable(g, n1) \/ ~Guardable(g, n2) THEN [NoColapsa EXCEPT !.ocupa = 1, !.mal = TRUE]
  ELSE Reemplaza(PonTodo(CargarNumero(1, v1)) \o Guarda1(g, n1, 1)
                 \o PonTodo(CargarNumero(2, v2)) \o Guarda1(g, n2, 2), 1)

AgregaDeUnaVez(g, t, texto, c, limite) ==
  IF ~Guardable(g, t) \/ ~Guardable(g, c) THEN [NoColapsa EXCEPT !.ocupa = 1, !.mal = TRUE]
  ELSE Reemplaza(<<Expr([k |-> "var", n |-> t], 1)>> \o PonTodo(CargarTexto(2, texto))
                 \o <<Pon(I("STR_CONCAT", 1, 1, 2))>> \o Guarda1(g, t, 1)
                 \o PonTodo(CargarNumero(3, limite)) \o Guarda1(g, c, 3), 1)

Colapso(g, ss, i) ==
  IF ss[i].k # "mien" THEN NoColapsa
  ELSE IF ArregloPesado(ss, i) # <<>> THEN Reemplaza(LineaDeNumero(ArregloPesado(ss, i)[1]), 4)
  ELSE IF RecorridoDeRegistro(ss, i) # <<>> THEN Reemplaza(LineaDeNumero(RecorridoDeRegistro(ss, i)[1]), 2)
  ELSE IF BusquedaImpresa(ss, i) # <<>>
  THEN Reemplaza(LineaDeNumero(BusquedaImpresa(ss, i)[1]) \o LineaDeTexto("")
                 \o LineaDeNumero(BusquedaImpresa(ss, i)[2]) \o LineaDeTexto(""), 8)
  ELSE IF SubtextoImpreso(ss, i) # <<>>
  THEN Reemplaza(LineaDeNumero(SubtextoImpreso(ss, i)[1]) \o LineaDeTexto("")
                 \o LineaDeTexto(SubtextoImpreso(ss, i)[2]), 7)
  ELSE IF LargoDeConcatenacion(ss, i) # <<>>
  THEN Reemplaza(LineaDeNumero(LargoDeConcatenacion(ss, i)[1]) \o LineaDeTexto(""), 3)
  ELSE IF SumaImpresa(ss, i) # <<>> THEN Reemplaza(LineaDeNumero(SumaImpresa(ss, i)[1]), 2)
  ELSE IF SumaDeEnteros(ss, i) # <<>>
  THEN DejaDos(g, ss[i - 2].n, SumaDeEnteros(ss, i)[1], ss[i - 3].n, SumaDeEnteros(ss, i)[2])
  ELSE IF BusquedaTexto(ss, i) # <<>>
  THEN DejaDos(g, ss[i - 2].n, BusquedaTexto(ss, i)[1], ss[i - 1].n, BusquedaTexto(ss, i)[2])
  ELSE IF ConcatenaLiterales(ss, i) # <<>>
  THEN AgregaDeUnaVez(g, ss[i].b[1].n, ConcatenaLiterales(ss, i)[1], ss[i - 1].n, ConcatenaLiterales(ss, i)[2])
  ELSE NoColapsa
================================================================================
