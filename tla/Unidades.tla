------------------------------ MODULE Unidades ------------------------------
(* What the files of a program say, as the loader of modules reads them      *)
(* (main.c).  A file is the sequence of its pieces: `usar { names } de file`,*)
(* `enviar { names }`, and definitions: functions, global variables, and    *)
(* records or classes, sent or not.  The fields of a record are left out, and*)
(* so are macros.  Paths are canonical, as usar_canonical_path leaves them.  *)
EXTENDS Integers, Sequences, FiniteSets

CONSTANTS
  Archivos,    \* canonical paths
  Entrada,     \* the file that is compiled
  Nombres,     \* names of functions and globals
  Discos       \* the contents of the files, one of them per behaviour

Definicion ==
  [clase : {"funcion", "global", "registro"}, nombre : Nombres,
   enviada : BOOLEAN,            \* `enviar` before the definition
   permitida : BOOLEAN,          \* no name declared in it is a reserved word
   retorna : BOOLEAN,            \* has a `retornar`, for a function
   llama : SUBSET Nombres,       \* called by its body, its methods or its initial value
   bases : SUBSET Nombres]       \* what a record or class extends
\* The parser takes no empty list: none stands for the runtime modules that a file with an
\* `Estructa` asks for, of which everything is taken.
Usar   == [clase : {"usar"}, de : Archivos, nombres : SUBSET Nombres]
Enviar == [clase : {"enviar"}, nombres : SUBSET Nombres]
Pieza  == Definicion \cup Usar \cup Enviar

\* The statements of `principal`, none of it in a file without one.
Principal == [permitido : BOOLEAN, llama : SUBSET Nombres]
Vacio     == [permitido |-> TRUE, llama |-> {}]

Archivo ==
  {a \in [existe : BOOLEAN,
          analiza : BOOLEAN,     \* the parser finds no error in what it is given
          piezas : Seq(Pieza),
          principal : Principal,
          corte : Nat] :         \* pieces before the first word the lexer cannot read
     a.corte <= Len(a.piezas)}

ASSUME UnidadesAssumption ==
  /\ Entrada \in Archivos
  /\ Discos \subseteq [Archivos -> Archivo]

\* The loop over lexer_next ends at a word that cannot be read, and what came before goes
\* to the parser.
Leidas(a) == 1 .. a.corte

SeLee(a) == a.existe /\ a.analiza

\* do_compile, unlike the loader of modules, refuses a file with a word that cannot be read.
EntradaSeLee(d) == SeLee(d[Entrada]) /\ d[Entrada].corte = Len(d[Entrada].piezas)

\* The modules a file asks for, by the index of the piece.
Usos(a) == {k \in Leidas(a) : a.piezas[k].clase = "usar"}

De(a, clases) == {k \in Leidas(a) : a.piezas[k].clase \in clases}

\* A program keeps its functions in one list, and the rest of its definitions in another.
Funciones == {"funcion"}
Globales  == {"global", "registro"}
Lista(clase) == IF clase \in Funciones THEN Funciones ELSE Globales

\* A definition goes out by its own `enviar` or by an `enviar { ... }` that names it.
Enviada(a, k) ==
  \/ a.piezas[k].enviada
  \/ \E e \in De(a, {"enviar"}) : a.piezas[k].nombre \in a.piezas[e].nombres

\* The search of a name stops at the first function and at the first global or record of it.
Primeras(a, n) ==
  {k \in De(a, Funciones \cup Globales) :
     /\ a.piezas[k].nombre = n
     /\ \A j \in De(a, Lista(a.piezas[k].clase)) : a.piezas[j].nombre = n => k <= j}

\* validate_named_imports_for_module: each name is one definition, and it is sent.
ListaValida(a, nombres) ==
  \A n \in nombres : \E k \in Primeras(a, n) : Primeras(a, n) = {k} /\ Enviada(a, k)

\* The definitions of one list, in order, those that are not sent left out or not.
Definiciones(d, m, clases, SoloEnviadas) ==
  LET a == d[m]
      toma(k) == a.piezas[k].clase \in clases /\ (SoloEnviadas => Enviada(a, k))
      ks == SelectSeq([k \in Leidas(a) |-> k], toma)
  IN  [i \in 1 .. Len(ks) |-> [de |-> m, def |-> a.piezas[ks[i]]]]

NoHay == [funciones |-> <<>>, globales |-> <<>>, principal |-> Vacio]

\* The program the parser makes of the entry, before any module is merged.
Propio(d) ==
  [funciones |-> Definiciones(d, Entrada, Funciones, FALSE),
   globales  |-> Definiciones(d, Entrada, Globales, FALSE),
   principal |-> d[Entrada].principal]

\* What goes out of a module is put after what the program already has; its `principal` is
\* thrown away with the rest.
Fundido(p, d, m) ==
  [p EXCEPT !.funciones = @ \o Definiciones(d, m, Funciones, TRUE),
            !.globales  = @ \o Definiciones(d, m, Globales, TRUE)]

LasFunciones(p) == {p.funciones[i].def : i \in DOMAIN p.funciones}
LosGlobales(p)  == {x \in {p.globales[i].def : i \in DOMAIN p.globales} : x.clase = "global"}
LosRegistros(p) == {x \in {p.globales[i].def : i \in DOMAIN p.globales} : x.clase = "registro"}

Nombrados(xs) == {x.nombre : x \in xs}

\* merged_program_precheck_reserved_declarations
Permitido(p) ==
  /\ \A x \in LasFunciones(p) \cup LosGlobales(p) \cup LosRegistros(p) : x.permitida
  /\ p.principal.permitido

\* validate_function_returns_and_warnings
Retorna(p) == \A x \in LasFunciones(p) : x.retorna

\* resolve_program: passes over the records that register those whose bases are there, until
\* one changes nothing; of two with a name, the second is not looked at.
SeResuelve(p) ==
  LET registros == LosRegistros(p)
      pasadas[ya \in SUBSET Nombrados(registros)] ==
        LET mas == Nombrados({x \in registros : x.bases \subseteq ya})
        IN  IF mas = ya THEN ya ELSE pasadas[mas]
  IN  pasadas[{}] = Nombrados(registros)

\* codegen_generate: a global is declared once, and what is called is a function of the
\* program or the constructor of a record.  A function may be defined twice.  Initial values
\* are generated before any function has a label: they cannot call one.
SeGenera(p) ==
  /\ \A i, j \in DOMAIN p.globales :
       /\ p.globales[i].def.clase = "global" /\ p.globales[j].def.clase = "global"
       /\ p.globales[i].def.nombre = p.globales[j].def.nombre
       => i = j
  /\ \A x \in LosGlobales(p) : x.llama \subseteq Nombrados(LosRegistros(p))
  /\ \A x \in LasFunciones(p) \cup LosRegistros(p) \cup {p.principal} :
       x.llama \subseteq Nombrados(LasFunciones(p) \cup LosRegistros(p))

Compilable(p) == Permitido(p) /\ Retorna(p) /\ SeResuelve(p) /\ SeGenera(p)
=============================================================================
