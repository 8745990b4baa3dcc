------------------------------ MODULE MCModulos -----------------------------
(* Instances of Modulos for model checking: the ways in which four files ask *)
(* for each other, each as it is and with one thing wrong in one of them.    *)
EXTENDS Modulos

Def(clase, n, enviada, llama, bases) ==
  [clase |-> clase, nombre |-> n, enviada |-> enviada, permitida |-> TRUE, retorna |-> TRUE,
   llama |-> llama, bases |-> bases]

Pide(m) == [clase |-> "usar", de |-> m, nombres |-> {<<"f", m>>}]

\* Each file asks for some modules; sends a function that calls theirs and a class that
\* extends theirs, and a global with `enviar { }`, which makes an object of the class; and
\* keeps a function and a global for itself.
Contenido(m, pide) ==
  [existe |-> TRUE, analiza |-> TRUE, corte |-> Len(pide) + 6,
   principal |-> [permitido |-> TRUE, llama |-> {<<"f", pide[i]>> : i \in DOMAIN pide} \cup {<<"propia", m>>}],
   piezas |-> [i \in DOMAIN pide |-> Pide(pide[i])]
     \o << Def("funcion", <<"f", m>>, TRUE, {<<"f", pide[i]>> : i \in DOMAIN pide}, {}),
           Def("global", <<"g", m>>, FALSE, {<<"r", m>>}, {}),
           Def("funcion", <<"propia", m>>, FALSE, {}, {}),
           Def("global", <<"suya", m>>, FALSE, {}, {}),
           Def("registro", <<"r", m>>, TRUE, {}, {<<"r", pide[i]>> : i \in DOMAIN pide}),
           [clase |-> "enviar", nombres |-> {<<"g", m>>}] >>]

Grafos ==
  {[P |-> p, a |-> a, b |-> b, c |-> c] :
     p \in {<<"a", "b">>, <<"b", "a">>, <<"a", "a">>}, a \in {<<>>, <<"c">>, <<"P">>, <<"b", "c">>},
     b \in {<<>>, <<"c">>, <<"a">>}, c \in {<<>>, <<"a">>}}

Disco(g) == [m \in Archivos |-> Contenido(m, g[m])]

\* One thing wrong in file m: w says what, and n is the number of its `usar`s.
Averiado(d, m, w) ==
  LET n == Len(d[m].piezas) - 6 IN
  CASE w = "nada"      -> d
    [] w = "falta"     -> [d EXCEPT ![m].existe = FALSE]
    [] w = "roto"      -> [d EXCEPT ![m].analiza = FALSE]
    [] w = "ilegible"  -> [d EXCEPT ![m].corte = 0]
    [] w = "cortado"   -> [d EXCEPT ![m].corte = n + 1]
    [] w = "reservada" -> [d EXCEPT ![m].piezas[n + 1].permitida = FALSE]
    [] w = "callada"   -> [d EXCEPT ![m].piezas[n + 1].retorna = FALSE]
    [] w = "interna"   -> [d EXCEPT ![m].piezas[n + 3].permitida = FALSE]
    [] w = "guardada"  -> [d EXCEPT ![m].piezas[n + 1].enviada = FALSE]
    [] w = "llama"     -> [d EXCEPT ![m].piezas[n + 1].llama = @ \cup {<<"propia", m>>}]
    [] w = "doble"     -> [d EXCEPT ![m].piezas[n + 2].nombre = <<"f", m>>]
    [] w = "global"    -> [d EXCEPT ![m].piezas[n + 2].nombre = <<"g", "a">>]
    [] w = "otra"      -> [d EXCEPT ![m].piezas[n + 3].nombre = <<"f", "a">>, ![m].piezas[n + 3].enviada = TRUE]
    [] w = "inicia"    -> [d EXCEPT ![m].piezas[n + 2].llama = {<<"f", m>>}]
    [] w = "sinBase"   -> [d EXCEPT ![m].piezas[n + 5].enviada = FALSE]
    [] w = "suBase"    -> [d EXCEPT ![m].piezas[n + 5].bases = @ \cup {<<"r", m>>}]
    [] w = "principal" -> [d EXCEPT ![m].principal.permitido = FALSE]
    [] w = "empieza"   -> [d EXCEPT ![m].principal.llama = @ \cup {<<"propia", "a">>}]
    [] w = "primera"   -> IF n = 0 THEN d
                          ELSE [d EXCEPT ![m].piezas[1].nombres = {<<"ajena", d[m].piezas[1].de>>}]
    [] OTHER           -> IF n = 0 THEN d
                          ELSE [d EXCEPT ![m].piezas[n].nombres = {<<w, d[m].piezas[n].de>>}]

Averias ==
  {"nada", "falta", "roto", "ilegible", "cortado", "reservada", "callada", "interna", "guardada",
   "llama", "doble", "global", "otra", "inicia", "sinBase", "suBase", "principal", "empieza", "primera", "propia", "g", "ajena"}

DiscosMC == {Averiado(Disco(g), m, w) : g \in Grafos, m \in Archivos, w \in Averias}

NombresMC == {"f", "g", "r", "propia", "suya", "ajena"} \X Archivos
=============================================================================
