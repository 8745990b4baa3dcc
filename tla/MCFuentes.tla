-------------------------------- MODULE MCFuentes --------------------------------
(***************************************************************************)
(* Sources, whether each is to be accepted, and the tree of those that are. *)
(***************************************************************************)
EXTENDS Nodos

NUL == Nada
Usa(ns, r) == [k |-> "usa", ns |-> ns, ruta |-> r]
Envia(ns) == [k |-> "envia", ns |-> ns]
Define(d) == [k |-> "define", d |-> d]
DecL0(t, el, n) == Decla(t, el, n, <<>>, FALSE)

(* Sources that the language accepts, with their tree, or refuses. *)
CASOS == <<
  [w |-> <<"principal", "x", "no", "es", "5", "fin_principal">>,
   v |-> "rechazada", a |-> <<>>],
  [w |-> <<"principal", "si", "x", "no", "y", "entonces", "fin_si", "fin_principal">>,
   v |-> "rechazada", a |-> <<>>],
  [w |-> <<"principal", "imprimir", "1", "hacer", "imprimir", "2", "fin_principal">>,
   v |-> "rechazada", a |-> <<>>],
  [w |-> <<"principal", "x", "=", ".", "entero", "y", "=", ".", "fin_principal">>,
   v |-> "rechazada", a |-> <<>>],
  [w |-> <<"principal", "entero", "=", "5", "fin_principal">>,
   v |-> "rechazada", a |-> <<>>],
  [w |-> <<"principal", "imprimir", "1", "entero", "x">>,
   v |-> "rechazada", a |-> <<>>],
  [w |-> <<"principal", "imprimir", "2", "si", "1", "entonces", "fin_principal">>,
   v |-> "rechazada", a |-> <<>>],
  [w |-> <<"principal", "imprimir", "si", "imprimir", "2", "fin_principal">>,
   v |-> "rechazada", a |-> <<>>],
  [w |-> <<"principal", "imprimir", "fin_principal">>,
   v |-> "rechazada", a |-> <<>>],
  [w |-> <<"principal", "sino", "5", "imprimir", "3", "fin_principal">>,
   v |-> "rechazada", a |-> <<>>],
  [w |-> <<"principal", "imprimir", "1", "<", "2", "<", "3", "fin_principal">>,
   v |-> "rechazada", a |-> <<>>],
  [w |-> <<"principal", "x", "?", "1", ":", "fin_principal">>,
   v |-> "rechazada", a |-> <<>>],
  [w |-> <<"principal", "imprimir", "x", "?", "1", ":", "2", "?", "3", ":", "4", "fin_principal">>,
   v |-> "aceptada", a |-> <<[cls |-> <<>>,
   glob |-> <<>>,
   fun |-> <<>>,
   main |-> <<
     Imp(Ter(V("x"), N(1), Ter(N(2), N(3), N(4))))>>,
   usa |-> <<>>]>>],
  [w |-> <<"principal", "imprimir", "(", "1", "+", "2", "fin_principal">>,
   v |-> "rechazada", a |-> <<>>],
  [w |-> <<"principal", "imprimir", "(", "(", "n", ")", "=>", ")", "(", "1", ")", "fin_principal">>,
   v |-> "rechazada", a |-> <<>>],
  [w |-> <<"principal", "imprimir", "(", "(", "n", ")", "=>", "n", "*", "n", ")", "(", "3", ",", "4",
          ")", "fin_principal">>,
   v |-> "rechazada", a |-> <<>>],
  [w |-> <<"principal", "imprimir", "(", "(", "n", ",", "m", ")", "=>", "n", "+", "m", "*", "n",
          ")", "(", "3", ",", "4", ")", "fin_principal">>,
   v |-> "aceptada", a |-> <<[cls |-> <<>>,
   glob |-> <<>>,
   fun |-> <<>>,
   main |-> <<
     Imp(B(N(3), "+", B(N(4), "*", N(3))))>>,
   usa |-> <<>>]>>],
  [w |-> <<"principal", "macro", "m", "=", "n", "=>", "1", "imprimir", "2", "fin_principal">>,
   v |-> "rechazada", a |-> <<>>],
  [w |-> <<"principal", "x", "[", "1", "]", "++", "x", ".", "c", "--", "x", "++", "fin_principal">>,
   v |-> "aceptada", a |-> <<[cls |-> <<>>,
   glob |-> <<>>,
   fun |-> <<>>,
   main |-> <<
     Ex(Po(Ix(V("x"), N(1)), 1)),
     Ex(Po(Mi(V("x"), "c"), -1)),
     Ex(Po(V("x"), 1))>>,
   usa |-> <<>>]>>],
  [w |-> <<"principal", "(", "x", ")", "++", "f", "(", ")", "++", "fin_principal">>,
   v |-> "rechazada", a |-> <<>>],
  [w |-> <<"principal", "f", "(", "x", ")", "=", "3", "x", "+=", "fin_principal">>,
   v |-> "rechazada", a |-> <<>>],
  [w |-> <<"principal", "x", ".", "c", "+=", "3", "fin_principal">>,
   v |-> "rechazada", a |-> <<>>],
  [w |-> <<"principal", "x", "%", "=", "3", "fin_principal">>,
   v |-> "rechazada", a |-> <<>>],
  [w |-> <<"principal", "lista", "<", "entero", "l", "=", "[", "1", "]", "fin_principal">>,
   v |-> "rechazada", a |-> <<>>],
  [w |-> <<"principal", "lista", "l", "<", "texto", ">", "=", "[", "1", ",", "2", "mapa", "<",
          "entero", ">", "m", "=", "{", "x", ":", "1", "y", ":", "2", "}", "fin_principal">>,
   v |-> "rechazada", a |-> <<>>],
  [w |-> <<"principal", "objeto", "q", "{", "x", ":", "1", "y", ":", "2", "}", "objeto", "r", "=",
          "5", "fin_principal">>,
   v |-> "rechazada", a |-> <<>>],
  [w |-> <<"principal", "objeto", "q", "{", "1", ":", "2", "}", "fin_principal">>,
   v |-> "rechazada", a |-> <<>>],
  [w |-> <<"principal", "tarea", "<", "x", ">", "t", "=", "1", "tarea", "<", "entero", ">", "t2", "=",
          "2", "fin_principal">>,
   v |-> "rechazada", a |-> <<>>],
  [w |-> <<"principal", "texto", "?", "s", "=", "nulo", "constante", "entero", "kk", "=", "3",
          "constante", "lista", "l", "=", "[", "]", "fin_principal">>,
   v |-> "rechazada", a |-> <<>>],
  [w |-> <<"principal", "constante", "entero", "kk", "4", "fin_principal">>,
   v |-> "rechazada", a |-> <<>>],
  [w |-> <<"principal", "x", "=", "llamar", "(", "f", "(", "1", ")", ")", "texto", "t", "=",
          "ingreso_inmediato", "ingreso_inmediato", "w", "imprimir", "nulo", "fin_principal">>,
   v |-> "aceptada", a |-> <<[cls |-> <<>>,
   glob |-> <<>>,
   fun |-> <<>>,
   main |-> <<
     As("x", Ll("f", <<N(1)>>)),
     Dec("texto", "t", Entra(TRUE)),
     Lee("w", TRUE),
     Imp(Nul)>>,
   usa |-> <<>>]>>],
  [w |-> <<"principal", "esperar", "f", "(", "1", ")", "imprimir", "-", "x", "fin_principal">>,
   v |-> "aceptada", a |-> <<[cls |-> <<>>,
   glob |-> <<>>,
   fun |-> <<>>,
   main |-> <<
     Ex(U("esperar", Ll("f", <<N(1)>>))),
     Imp(B(N(0), "-", V("x")))>>,
   usa |-> <<>>]>>],
  [w |-> <<"principal", "seleccionar", "x", "caso", "1", "imprimir", "1", "fin_seleccionar",
          "fin_principal">>,
   v |-> "rechazada", a |-> <<>>],
  [w |-> <<"principal", "seleccionar", "x", "hacer", "caso", "1", ",", "imprimir", "1",
          "fin_seleccionar", "fin_principal">>,
   v |-> "rechazada", a |-> <<>>],
  [w |-> <<"principal", "seleccionar", "x", "hacer", "imprimir", "1", "fin_seleccionar",
          "fin_principal">>,
   v |-> "rechazada", a |-> <<>>],
  [w |-> <<"principal", "intentar", "x", "++", "atrapar", "si", "imprimir", "1", "fin_intentar",
          "fin_principal">>,
   v |-> "rechazada", a |-> <<>>],
  [w |-> <<"principal", "intentar", "x", "++", "final", "y", "++", "fin_si", "fin_principal">>,
   v |-> "rechazada", a |-> <<>>],
  [w |-> <<"principal", "mientras", "x", "hacer", "y", "++", "fin_para", "fin_principal">>,
   v |-> "rechazada", a |-> <<>>],
  [w |-> <<"principal", "para", "cada", "entero", "en", "l", "hacer", "imprimir", "1", "fin_para",
          "fin_principal">>,
   v |-> "rechazada", a |-> <<>>],
  [w |-> <<"principal", "para", "x", "=", "0", "mientras", "x", "<", "3", "con", "x", "++",
          "imprimir", "x", "fin_para", "fin_principal">>,
   v |-> "rechazada", a |-> <<>>],
  [w |-> <<"principal", "hacer", "hacer", "x", "++", "mientras", "x", "fin_hacer", "mientras", "y",
          "fin_hacer", "fin_principal">>,
   v |-> "rechazada", a |-> <<>>],
  [w |-> <<"principal", "cuando", "x", "entonces", "defecto", "y", "++", "defecto", "z", "++",
          "fin_cuando", "fin_principal">>,
   v |-> "rechazada", a |-> <<>>],
  [w |-> <<"principal", "cuando", "x", "entonces", "caso", "1", "y", "++", "fin_cuando",
          "fin_principal">>,
   v |-> "rechazada", a |-> <<>>],
  [w |-> <<"principal", "asociar", "\"u\"", "\"v\"", "fin_principal">>,
   v |-> "rechazada", a |-> <<>>],
  [w |-> <<"principal", "asociar", "\"u\"", "con", "\"v\"", "con", "3", "fin_principal">>,
   v |-> "rechazada", a |-> <<>>],
  [w |-> <<"principal", "aprender", "(", "1", ",", ")", "aprender", "imprimir", "1", "fin_principal">>,
   v |-> "rechazada", a |-> <<>>],
  [w |-> <<"principal", "recordar", "\"u\"", "con", "3", "define_concepto", "\"u\"", "como",
          "fin_principal">>,
   v |-> "rechazada", a |-> <<>>],
  [w |-> <<"principal", "crear_memoria", "\"m\"", "cerrar_memoria", "(", "1", ")", "fin_principal">>,
   v |-> "rechazada", a |-> <<>>],
  [w |-> <<"principal", "copiar_texto", "(", "\"u\"", ")", "tt", "ultima_palabra", "(", "\"u\"", ")",
          "en", "4", "fin_principal">>,
   v |-> "rechazada", a |-> <<>>],
  [w |-> <<"principal", "pausa", "(", "3", "limpiar_consola", "(", "3", ")", "fin_principal">>,
   v |-> "rechazada", a |-> <<>>],
  [w |-> <<"principal", "retornar", "imprimir", "1", "retornar", "longitud", "(", "\"u\"", ")",
          "retornar", "fin_principal">>,
   v |-> "aceptada", a |-> <<[cls |-> <<>>,
   glob |-> <<>>,
   fun |-> <<>>,
   main |-> <<
     Ret(<<>>),
     Imp(N(1)),
     Ret(<<Ll("longitud", <<T("u")>>)>>),
     Ret(<<>>)>>,
   usa |-> <<>>]>>],
  [w |-> <<"principal", "registro", "R", "entero", "x", "fin_registro", "imprimir", "1",
          "fin_principal">>,
   v |-> "aceptada", a |-> <<[cls |-> <<>>,
   glob |-> <<>>,
   fun |-> <<>>,
   main |-> <<
     Define(
    Regi("R", <<>>, <<Ca("x", "entero")>>, <<>>)),
     Imp(N(1))>>,
   usa |-> <<>>]>>],
  [w |-> <<"principal", "funcion", "f", "(", ")", "fin_funcion", "imprimir", "1", "fin_principal">>,
   v |-> "rechazada", a |-> <<>>],
  [w |-> <<"funcion", "f", "(", "entero", ",", "texto", "s", ")", "fin_funcion", "principal",
          "fin_principal">>,
   v |-> "rechazada", a |-> <<>>],
  [w |-> <<"funcion", "f", "(", "entero", "n", "texto", "s", "retorna", "entero", "retornar", "1",
          "fin_funcion", "principal", "fin_principal">>,
   v |-> "rechazada", a |-> <<>>],
  [w |-> <<"funcion", "(", ")", "fin_funcion", "principal", "fin_principal">>,
   v |-> "rechazada", a |-> <<>>],
  [w |-> <<"funcion", "f", "retorna", "texto", "?", "fin_funcion", "funcion", "g", "lista", "<",
          "entero", ">", "fin_funcion">>,
   v |-> "aceptada", a |-> <<[cls |-> <<>>,
   glob |-> <<>>,
   fun |-> <<
    Func("f", <<>>, "texto?",
      <<>>),
    Func("g", <<>>, "lista",
      <<>>)>>,
   main |-> <<>>,
   usa |-> <<>>]>>],
  [w |-> <<"funcion", "f", "(", ")", "retorna", "tarea", "<", "x", ">", "fin_funcion", "principal",
          "fin_principal">>,
   v |-> "rechazada", a |-> <<>>],
  [w |-> <<"funcion", "f", "(", ")", "si", "x", "entonces", "fin_funcion", "principal", "fin_principal">>,
   v |-> "rechazada", a |-> <<>>],
  [w |-> <<"clase", "A", "privado", "funcion", "f", "(", ")", "fin_funcion", "fin_clase", "registro",
          "B", "funcion", "f", "(", ")", "fin_funcion", "fin_registro">>,
   v |-> "rechazada", a |-> <<>>],
  [w |-> <<"clase", "A", "entero", "x", "fin_registro", "principal", "fin_principal">>,
   v |-> "rechazada", a |-> <<>>],
  [w |-> <<"x", "entero", "y", "fin_registro", "entero", "z", "principal", "fin_principal">>,
   v |-> "rechazada", a |-> <<>>],
  [w |-> <<"usar", "todo", "de", "\"m\"", "principal", "fin_principal">>,
   v |-> "rechazada", a |-> <<>>],
  [w |-> <<"usar", "{", "x", ",", "x", "}", "de", "\"m\"", "principal", "fin_principal">>,
   v |-> "rechazada", a |-> <<>>],
  [w |-> <<"usar", "{", "}", "de", "\"m\"", "usar", "{", "x", "}", "\"m\"", "usar", "{", "x", "}",
          "de", "m">>,
   v |-> "rechazada", a |-> <<>>],
  [w |-> <<"usar", "{", "x">>,
   v |-> "rechazada", a |-> <<>>],
  [w |-> <<"usar", "\"m\"", "principal", "fin_principal">>,
   v |-> "rechazada", a |-> <<>>],
  [w |-> <<"enviar", "x", "++", "enviar", "5", "principal", "fin_principal">>,
   v |-> "rechazada", a |-> <<>>],
  [w |-> <<"asincrono", "entero", "x", "asincrono", "enviar", "x", "principal", "fin_principal">>,
   v |-> "rechazada", a |-> <<>>],
  [w |-> <<"fin_registro", "principal", "fin_clase", "fin_principal", "fin_principal">>,
   v |-> "rechazada", a |-> <<>>],
  [w |-> <<"principal", "if", "1", "fin_principal">>,
   v |-> "rechazada", a |-> <<>>],
  [w |-> <<"principal", "@", "fin_principal">>,
   v |-> "rechazada", a |-> <<>>],
  [w |-> <<"principal", "imprimir", "0x1f", "+", "2.5", "+", "'c'", "+", "'cd'", "+", "\"e\\\"f\\n\"",
          "+", "verdadero", "fin_principal">>,
   v |-> "aceptada", a |-> <<[cls |-> <<>>,
   glob |-> <<>>,
   fun |-> <<>>,
   main |-> <<
     Imp(B(B(B(B(B(N(31), "+", F(2500)), "+", Car(99)), "+", Con("cd")), "+", T("e\"f\n")), "+", N(1)))>>,
   usa |-> <<>>]>>],
  [w |-> <<"principal", "imprimir", "x", "esta", "vacia", "y", "z", "es", "distinto", "de", "3",
          "fin_principal">>,
   v |-> "aceptada", a |-> <<[cls |-> <<>>,
   glob |-> <<>>,
   fun |-> <<>>,
   main |-> <<
     Imp(B(B(V("x"), "==", N(0)), "y", B(V("z"), "!=", N(3))))>>,
   usa |-> <<>>]>>],
  [w |-> <<"principal", "imprimir", "x", "es", "mayor", "o", "igual", "a", "2", "fin_principal">>,
   v |-> "aceptada", a |-> <<[cls |-> <<>>,
   glob |-> <<>>,
   fun |-> <<>>,
   main |-> <<
     Imp(B(V("x"), ">=", N(2)))>>,
   usa |-> <<>>]>>],
  [w |-> <<"principal", "imprimir", "x", "es", "mayor", "a", "2", "fin_principal">>,
   v |-> "rechazada", a |-> <<>>],
  [w |-> <<"principal", "imprimir", "7">>,
   v |-> "rechazada", a |-> <<>>],
  [w |-> <<"usar", "{", "uno", ",", "dos", "}", "de", "\"mod.jasb\"", "enviar", "{", "uno", ",",
          "tres", "}", "enviar", "funcion", "f", "(", "lista", "<", "entero", ">", "l", ",", "mapa",
          "m", ",", "Punto", "?", "q", ",", "entero", "?", "r", ")", "retorna", "lista", "<",
          "texto", ">", "retornar", "l", "fin_funcion", "asincrono", "funcion", "g", "retorna",
          "tarea", "<", "texto", ">", "retornar", "\"x\"", "fin_funcion", "asincrono", "enviar",
          "funcion", "h", "(", ")", "entero", "retornar", "1", "fin_funcion", "enviar", "clase", "A",
          "extiende", "B", ",", "C", "privado", "entero", "x", "y", ":", "texto", "?", "z", ":",
          "lista", "<", "entero", ">", "w", ":", "Punto", "[", "]", "funcion", "m", "(", ")",
          "fin_funcion", "lista", "?", "l", "mapa", "<", "entero", ">", "mm", "tarea", "<", "texto",
          ">", "t", "Punto", "[", "]", "ps", "fin_clase", "enviar", "registro", "R", "entero", "x",
          "fin_registro", "enviar", "entero", "k", "=", "3", "principal", "imprimir", "1",
          "fin_principal">>,
   v |-> "aceptada", a |-> <<[cls |-> <<
    Clas("A", <<"B", "C">>, <<CaPriv("x", "entero"), Ca("y", "texto?"), Ca("z", "lista<entero>"), Ca("w", "lista<Punto>"), Ca("l", "lista?"), Ca("mm", "mapa<entero>"), Ca("t", "tarea<texto>"), Ca("ps", "lista<Punto>")>>, <<
    Func("m", <<>>, "entero",
      <<>>)>>),
    Regi("R", <<>>, <<Ca("x", "entero")>>, <<>>)>>,
   glob |-> <<Dec("entero", "k", N(3))>>,
   fun |-> <<
    Func("f", <<PL("l", "lista", "entero"), P("m", "mapa"), P("q", "Punto?"), P("r", "entero?")>>, "lista",
      <<Ret(<<V("l")>>)>>),
    Func("g", <<>>, "tarea",
      <<Ret(<<T("x")>>)>>),
    Func("h", <<>>, "entero",
      <<Ret(<<N(1)>>)>>)>>,
   main |-> <<
     Imp(N(1))>>,
   usa |-> <<Usa(<<"uno", "dos">>, "mod.jasb"), Envia(<<"uno", "tres">>)>>]>>],
  [w |-> <<"registro", "R", "entero", "x", "texto", "n", "fin_registro", "clase", "A", "extiende",
          "R", "funcion", "m", "(", "entero", "v", ",", "R", "r", ")", "retorna", "R", "?",
          "retornar", "r", "fin_funcion", "fin_clase", "x", "y", "fin_registro", "entero", "k", "=",
          "1", ".", "R", "r">>,
   v |-> "rechazada", a |-> <<>>],
  [w |-> <<"principal", "asociar", "\"a\"", "con", "\"b\"", "con", "peso", "2", "aprender", "\"a\"",
          "peso", "3", "aprender", "(", "1", ",", "2", ")", "recordar", "\"a\"", "con", "valor", "3",
          "responder", "\"h\"", "usar", "\"m\"", "fin_principal">>,
   v |-> "aceptada", a |-> <<[cls |-> <<>>,
   glob |-> <<>>,
   fun |-> <<>>,
   main |-> <<
     Conc("asociar", <<T("a"), T("b"), N(2)>>),
     Conc("aprender", <<T("a"), N(3)>>),
     Ex(Ll("aprender", <<N(1), N(2)>>)),
     Conc("recordar", <<T("a"), N(3)>>),
     Resp(T("h")),
     Mem("activar", <<T("m")>>)>>,
   usa |-> <<>>]>>],
  [w |-> <<"principal", "biblioteca", "\"m\"", "crear_memoria", "(", "\"f\"", ",", "1", ",", "2", ")",
          "cerrar_memoria", "(", ")", "define_concepto", "\"a\"", "como", "\"b\"", "copiar_texto",
          "(", "\"a\"", ")", "en", "tt", "ultima_palabra", "(", "tt", ")", "en", "uu", "fin_principal">>,
   v |-> "aceptada", a |-> <<[cls |-> <<>>,
   glob |-> <<>>,
   fun |-> <<>>,
   main |-> <<
     Mem("biblioteca", <<T("m")>>),
     Mem("crear", <<T("f"), N(1), N(2)>>),
     Mem("cerrar", <<>>),
     Mem("definir", <<T("a"), T("b")>>),
     Tex("STR_COPIAR", T("a"), "tt"),
     Tex("STR_ULTIMA", V("tt"), "uu")>>,
   usa |-> <<>>]>>],
  [w |-> <<"principal", "registro", "S", "entero", "x", "fin_registro", "objeto", "ob", "=", "{",
          "va", ":", "1", ",", "vb", ":", "[", "1", ",", "2", "]", "}", "macro", "m", "(", "x", ")",
          "=>", "x", "macro", "m2", "=", "(", "x", ")", "=>", "x", "+", "1", "funcion", "fv", "=",
          "(", "x", ")", "=>", "{", "retornar", "x", "}", "r", ".", "x", "+=", "2", "fin_principal">>,
   v |-> "rechazada", a |-> <<>>],
  [w |-> <<"principal", "x", "-=", "3", "l", "[", "0", "]", "=", "4", "r", ".", "x", "=", "5",
          "hacer", "x", "++", "mientras", "x", "<", "3", "fin_hacer", "intentar", "lanzar", "1",
          "atrapar", "e", "imprimir", "e", "final", "pausa", "(", ")", "fin_intentar", "seleccionar",
          "x", "hacer", "caso", "1", ",", "2", "romper", "defecto", "continuar", "fin_seleccionar",
          "fin_principal">>,
   v |-> "aceptada", a |-> <<[cls |-> <<>>,
   glob |-> <<>>,
   fun |-> <<>>,
   main |-> <<
     As("x", B(V("x"), "-", N(3))),
     AsI(V("l"), N(0), N(4)),
     AsM(Mi(V("r"), "x"), N(5)),
     Hac(<<Ex(Po(V("x"), 1))>>, B(V("x"), "<", N(3))),
     Intenta(<<Lanza(N(1))>>, "e", <<<<Imp(V("e"))>>>>, <<<<Ex(Ll("pausa", <<>>))>>>>),
     Eleg(V("x"), <<Caso(<<N(1), N(2)>>, <<Rompe>>)>>, <<Sigue1>>)>>,
   usa |-> <<>>]>>],
  [w |-> <<"principal", "cuando", "x", "entonces", "caso", "1", "entonces", "imprimir", "1",
          "defecto", "imprimir", "2", "fin_cuando", "para", "cada", "entero", "v", "en", "l",
          "hacer", "imprimir", "v", "fin_para_cada", "para", "entero", "v", "=", "0", "mientras",
          "v", "<", "3", "con", "v", "++", "hacer", "imprimir", "v", "fin_para", "si", "x", "es",
          "mayor", "que", "3", "y", "no", "b", "entonces", "imprimir", "1", "sino", "si", "z",
          "esta", "vacia", "entonces", "imprimir", "2", "sino", "imprimir", "3", "fin_si",
          "ingresar_texto", "nn", "limpiar_consola", "(", ")", "fin_principal">>,
   v |-> "aceptada", a |-> <<[cls |-> <<>>,
   glob |-> <<>>,
   fun |-> <<>>,
   main |-> <<
     Eleg(V("x"), <<Caso(<<N(1)>>, <<Imp(N(1))>>)>>, <<Imp(N(2))>>),
     Cada("entero", "v", V("l"), <<Imp(V("v"))>>),
     Para(Dec("entero", "v", N(0)), B(V("v"), "<", N(3)), Po(V("v"), 1), <<Imp(V("v"))>>),
     Si(B(B(V("x"), ">", N(3)), "y", U("no", V("b"))), <<Imp(N(1))>>, <<Si(B(V("z"), "==", N(0)), <<Imp(N(2))>>, <<Imp(N(3))>>)>>),
     Lee1("nn"),
     Ex(Ll("limpiar_consola", <<>>))>>,
   usa |-> <<>>]>>],
  [w |-> <<"principal", "imprimir_sin_salto", "\"x\"", "imprimir", "(", "(", "q", ")", "=>", "q", "*",
          "2", ")", "(", "4", ")", "-", "'a'", "+", "x", "?", "1", ":", "2", "fin_principal">>,
   v |-> "aceptada", a |-> <<[cls |-> <<>>,
   glob |-> <<>>,
   fun |-> <<>>,
   main |-> <<
     Ex(Ll("imprimir_sin_salto", <<T("x")>>)),
     Imp(Ter(B(B(B(N(4), "*", N(2)), "-", Car(97)), "+", V("x")), N(1), N(2)))>>,
   usa |-> <<>>]>>],
  [w |-> <<"principal", "imprimir", "'perro'", "responder", "\"fin\"", "fin_principal">>,
   v |-> "aceptada", a |-> <<[cls |-> <<>>,
   glob |-> <<>>,
   fun |-> <<>>,
   main |-> <<
     Imp(Con("perro")),
     Resp(T("fin"))>>,
   usa |-> <<>>]>>],
  [w |-> <<"principal", "recordar", "\"perro\"", "asociar", "'perro'", "con", "'animal'", "con",
          "peso", "0.5", "aprender", "\"gato\"", "con", "peso", "0.7", "crear_memoria", "(",
          "\"a.jmn\"", ")", "define_concepto", "\"a\"", "como", "\"b\"", "activar_modulo", "\"x\"",
          "cerrar_memoria", "(", ")", "responder", "\"fin\"", "fin_principal">>,
   v |-> "aceptada", a |-> <<[cls |-> <<>>,
   glob |-> <<>>,
   fun |-> <<>>,
   main |-> <<
     Conc("recordar", <<T("perro")>>),
     Conc("asociar", <<Con("perro"), Con("animal"), F(500)>>),
     Conc("aprender", <<T("gato"), F(700)>>),
     Mem("crear", <<T("a.jmn")>>),
     Mem("definir", <<T("a"), T("b")>>),
     Mem("activar", <<T("x")>>),
     Mem("cerrar", <<>>),
     Resp(T("fin"))>>,
   usa |-> <<>>]>>],
  [w |-> <<"principal", "texto", "qq", "=", "ingresar_texto", "imprimir", "qq", "texto", "nn",
          "ingresar_texto", "nn", "imprimir", "nn", "fin_principal">>,
   v |-> "aceptada", a |-> <<[cls |-> <<>>,
   glob |-> <<>>,
   fun |-> <<>>,
   main |-> <<
     Dec("texto", "qq", Entra1),
     Imp(V("qq")),
     Dec0("texto", "nn"),
     Lee1("nn"),
     Imp(V("nn"))>>,
   usa |-> <<>>]>>],
  [w |-> <<"principal", "imprimir", "1", "funcion", "ff", "=", "65000", "imprimir", "2", "ff", "(",
          ")", "fin_principal">>,
   v |-> "aceptada", a |-> <<[cls |-> <<>>,
   glob |-> <<>>,
   fun |-> <<>>,
   main |-> <<
     Imp(N(1)),
     Dec("funcion", "ff", N(65000)),
     Imp(N(2)),
     Ex(Ll("ff", <<>>))>>,
   usa |-> <<>>]>>],
  [w |-> <<"principal", "objeto", "oo", "=", "json", "{", "\"a\"", ":", "1", ",", "b", ":", "[", "1",
          ",", "2.5", ",", "\"t\"", "]", ",", "c", ":", "json", "{", "d", ":", "\"x\"", "}", "}",
          "imprimir", "\"h\"", "fin_principal">>,
   v |-> "aceptada", a |-> <<[cls |-> <<>>,
   glob |-> <<>>,
   fun |-> <<>>,
   main |-> <<
     Dec("objeto", "oo", Js(<<<<T("a"), N(1)>>, <<T("b"), Li(<<N(1), F(2500), T("t")>>)>>, <<T("c"), Js(<<<<T("d"), T("x")>>>>)>>>>)),
     Imp(T("h"))>>,
   usa |-> <<>>]>>],
  [w |-> <<"principal", "entero", "v0", "=", "10", "funcion", "f2", "=", "(", "entero", "q", ")",
          "=>", "q", "+", "v0", "imprimir", "f2", "(", "1", ")", "fin_principal">>,
   v |-> "aceptada", a |-> <<[cls |-> <<>>,
   glob |-> <<>>,
   fun |-> <<>>,
   main |-> <<
     Dec("entero", "v0", N(10)),
     Dec("funcion", "f2", Lam(<<P("q", "entero")>>, B(V("q"), "+", V("v0")))),
     Imp(Ll("f2", <<N(1)>>))>>,
   usa |-> <<>>]>>],
  [w |-> <<"principal", "entero", "v0", "=", "10", "funcion", "f2", "=", "(", "entero", "q", ")",
          "=>", "q", "+", "v0", "entero", "v1", "=", "7", "imprimir", "f2", "(", "1", ")", "+", "v0",
          "fin_principal">>,
   v |-> "aceptada", a |-> <<[cls |-> <<>>,
   glob |-> <<>>,
   fun |-> <<>>,
   main |-> <<
     Dec("entero", "v0", N(10)),
     Dec("funcion", "f2", Lam(<<P("q", "entero")>>, B(V("q"), "+", V("v0")))),
     Dec("entero", "v1", N(7)),
     Imp(B(Ll("f2", <<N(1)>>), "+", V("v0")))>>,
   usa |-> <<>>]>>],
  [w |-> <<"principal", "texto", "ta", "=", "\"ab\"", "entero", "i1", "=", "0", "mientras", "i1", "<",
          "5", "hacer", "ta", "=", "concatenar", "(", "ta", ",", "\"cde\"", ")", "i1", "=", "i1",
          "+", "1", "fin_mientras", "imprimir", "longitud", "(", "ta", ")", "imprimir", "\"\"",
          "fin_principal">>,
   v |-> "aceptada", a |-> <<[cls |-> <<>>,
   glob |-> <<>>,
   fun |-> <<>>,
   main |-> <<
     Dec("texto", "ta", T("ab")),
     Dec("entero", "i1", N(0)),
     Mien(B(V("i1"), "<", N(5)), <<As("ta", Ll("concatenar", <<V("ta"), T("cde")>>)), As("i1", B(V("i1"), "+", N(1)))>>),
     Imp(Ll("longitud", <<V("ta")>>)),
     Imp(T(""))>>,
   usa |-> <<>>]>>],
  [w |-> <<"principal", "entero", "i2", "=", "0", "entero", "s2", "=", "0", "entero", "n2", "=", "9",
          "mientras", "i2", "<", "n2", "hacer", "s2", "=", "s2", "+", "i2", "i2", "=", "i2", "+",
          "1", "fin_mientras", "imprimir", "s2", "fin_principal">>,
   v |-> "aceptada", a |-> <<[cls |-> <<>>,
   glob |-> <<>>,
   fun |-> <<>>,
   main |-> <<
     Dec("entero", "i2", N(0)),
     Dec("entero", "s2", N(0)),
     Dec("entero", "n2", N(9)),
     Mien(B(V("i2"), "<", V("n2")), <<As("s2", B(V("s2"), "+", V("i2"))), As("i2", B(V("i2"), "+", N(1)))>>),
     Imp(V("s2"))>>,
   usa |-> <<>>]>>],
  [w |-> <<"principal", "mapa", "mm", "=", "{", "\"a\"", ":", "1", ",", "\"b\"", ":", "{", "\"c\"",
          ":", "2", "}", "}", "mapa", "mv", "=", "mapa_crear", "(", ")", "mv", "[", "\"k\"", "]",
          "=", "[", "1", ",", "2", "]", "lanzar", "\"x\"", "fin_principal">>,
   v |-> "aceptada", a |-> <<[cls |-> <<>>,
   glob |-> <<>>,
   fun |-> <<>>,
   main |-> <<
     Dec("mapa", "mm", Ma(<<<<T("a"), N(1)>>, <<T("b"), Ma(<<<<T("c"), N(2)>>>>)>>>>)),
     Dec("mapa", "mv", Ll("mapa_crear", <<>>)),
     AsI(V("mv"), T("k"), Li(<<N(1), N(2)>>)),
     Lanza(T("x"))>>,
   usa |-> <<>>]>>],
  [w |-> <<"principal", "texto", "n", "=", "\"Ana\"", "imprimir", "\"De \"", "+", "concatenar", "(",
          "n", ",", "\"!\"", ")", "imprimir", "\"x\"", "imprimir", "\"De \"", "+", "concatenar", "(",
          "\"Eva\"", ",", "n", ")", "imprimir", "\"fin\"", "fin_principal">>,
   v |-> "aceptada", a |-> <<[cls |-> <<>>,
   glob |-> <<>>,
   fun |-> <<>>,
   main |-> <<
     Dec("texto", "n", T("Ana")),
     Imp(B(T("De "), "+", Ll("concatenar", <<V("n"), T("!")>>))),
     Imp(T("x")),
     Imp(B(T("De "), "+", Ll("concatenar", <<T("Eva"), V("n")>>))),
     Imp(T("fin"))>>,
   usa |-> <<>>]>>]>>

(* Sources of which the compiler makes something that nobody would ask for: it
   crashes, takes them for another source, or, the last three, does the opposite
   of what the repository says. *)
SUELTAS == <<
  <<"principal", "imprimir", "f", "(", "1", "+", ")", "fin_principal">>,
  <<"principal", "cuando", "x", "entonces", "imprimir", "9", "caso", "1", "entonces",
     "imprimir", "1", "fin_cuando", "fin_principal">>,
  <<"principal", "si", "x", "es", "5", "entonces", "fin_si", "fin_principal">>,
  <<"principal", "imprimir", "no", "x", "==", "5", "fin_principal">>,
  <<"principal", "entero", "5", "=", "1", "fin_principal">>,
  <<"principal", "imprimir", "1", "entero">>,
  <<"principal", "si", "1", "entonces", "imprimir", "1", "sino", "5", "fin_si", "fin_principal">>,
  <<"principal", "imprimir", "(", "(", "n", ")", "=>", "{", "retornar", "n", "}", ")", "(",
     "3", ")", "fin_principal">>,
  <<"principal", "macro", "m", "=", "(", "4", ")", "=>", "1", "imprimir", "2", "fin_principal">>,
  <<"principal", "macro", "m", "fin_principal">>,
  <<"principal", "x", ".", "y", "(", "1", ")", ".", "z", "[", "2", "]", "(", "3", ")",
     "fin_principal">>,
  <<"principal", "para", "cada", "7", "en", "l", "hacer", "imprimir", "1", "fin_para",
     "fin_principal">>,
  <<"principal", "ingresar_texto", "4", "fin_principal">>,
  <<"funcion", "f", "(", "4", "n", ")", "fin_funcion">>,
  <<"clase", "A", "extiende", ",", "entero", "x", "fin_clase">>,
  <<"registro", "A", "x", ":", "5", "fin_registro">>,
  <<"registro", "A", "entero", "0", "fin_registro">>,
  <<"enviar", "{", "x", ",", "4", "}", "enviar", "{", "x", ",", "y", "principal",
     "fin_principal">>,
  <<"registro", "R", "entero", "x", "principal", "imprimir", "1", "fin_principal">>,
  <<"clase", "Animal", "entero", "id", "fin_clase", "clase", "Perro", "extiende", "Animal",
     "texto", "nombre", "funcion", "ladrar", "fin_clase", "principal", "imprimir",
     "\"clase_extiende_ok\"", "fin_principal">>,
  <<"principal", "llamar", "mi_funcion", "(", "1", ",", "2", ")", "imprimir", "2", "fin_principal">>>>

(* Pieces of sources; the first BUENOS are whole definitions. *)
TROZOS ==
  <<<<"entero", "k", "=", "1">>,
    <<"registro", "R", "entero", "x", "fin_registro">>,
    <<"funcion", "f", "(", ")", "fin_funcion">>,
    <<"principal", "imprimir", "k", "fin_principal">>,
    <<"usar", "{", "u", "}", "de", "\"m\"">>,
    <<"registro", "R", "entero", "x">>,
    <<"fin_si">>,
    <<"principal", "si", "k", "entonces">>,
    <<"funcion", "g", "(", "entero">>,
    <<"fin_registro">>,
    <<"enviar", "{">>,
    <<"k">>>>
BUENOS == 5
==================================================================================
