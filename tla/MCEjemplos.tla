--------------------------------- MODULE MCEjemplos ---------------------------------
(***************************************************************************)
(* Programs of the language, as trees, with espera, what each means to     *)
(* print.  Values are in the form imprimir gives their type: a flotante    *)
(* with four decimals, a text of unknown type between quotes.              *)
(***************************************************************************)
EXTENDS Nodos

(* A program that is refused. *)
Malo(cls, glob, fun, main) ==
  [cls |-> cls, glob |-> glob, fun |-> fun, main |-> main, espera |-> "", acaba |-> "bien", mal |-> TRUE]

funciones ==
  [cls |-> <<>>,
   glob |-> <<Dec("entero", "cuenta", N(1))>>,
   fun |-> <<
   Func("fact", <<P("n", "entero")>>, "entero",
   <<Si(B(V("n"), "<=", N(1)), <<Ret(<<N(1)>>)>>, <<>>), Ret(<<B(V("n"), "*", Ll("fact", <<B(V("n"), "-",
     N(1))>>))>>)>>),
   Func("mcd", <<P("pa", "entero"), P("pb", "entero")>>, "entero",
   <<Mien(B(V("pb"), "!=", N(0)), <<Dec("entero", "resto", B(V("pa"), "%", V("pb"))), As("pa", V("pb")),
     As("pb", V("resto"))>>), Ret(<<V("pa")>>)>>),
   Func("media", <<P("pa", "flotante"), P("pb", "entero")>>, "flotante",
   <<Ret(<<B(B(V("pa"), "+", V("pb")), "/", F(2000))>>)>>),
   Func("sube", <<>>, "entero",
   <<As("cuenta", B(V("cuenta"), "*", N(2))), Ret(<<V("cuenta")>>)>>),
   Func("aplica", <<P("ff", "funcion"), P("n", "entero")>>, "entero",
   <<Ret(<<Ll("ff", <<V("n")>>)>>)>>),
   Func("doble", <<P("n", "entero")>>, "entero",
   <<Ret(<<B(V("n"), "+", V("n"))>>)>>)>>,
   main |-> <<
   Imp(Ll("fact", <<N(5)>>)),
   Imp(B(Ll("mcd", <<N(36), N(60)>>), "+", Ll("mcd", <<N(7), Ll("fact", <<N(3)>>)>>))),
   Imp(Ll("mcd", <<Ll("mcd", <<N(8), N(12)>>), Ll("mcd", <<N(18), N(30)>>)>>)),
   Imp(Ll("media", <<F(4000), N(8)>>)),
   Imp(B(Ll("sube", <<>>), "+", B(Ll("sube", <<>>), "*", N(10)))),
   As("cuenta", B(V("cuenta"), "+", Ll("fact", <<N(3)>>))),
   Imp(V("cuenta")),
   Imp(Ll("aplica", <<V("doble"), N(21)>>)),
   Dec("funcion", "hf", V("doble")),
   Dec("entero", "ra", Ll("hf", <<N(4)>>)),
   Imp(B(V("ra"), "+", Ll("doble", <<Ll("hf", <<N(5)>>)>>))),
   Dec("entero", "va", B(Ll("doble", <<Ll("fact", <<N(3)>>)>>), "-", N(1))),
   Imp(V("va")),
   Ex(Ll("sube", <<>>)),
   Ex(Ll("hf", <<N(3)>>)),
   Imp(V("cuenta"))>>,
   espera |-> "120\n13\n2\n6.0000\n42\n10\n42\n28\n11\n20\n", acaba |-> "bien", mal |-> FALSE]

aritmetica ==
  [cls |-> <<>>,
   glob |-> <<Dec("entero", "gbase", N(70000)), Dec("flotante", "gtres", N(3))>>,
   fun |-> <<>>,
   main |-> <<
   Dec("entero", "va", N(5)),
   Dec("entero", "vb", B(B(V("va"), "*", N(3)), "-", B(N(4), "/", N(2)))),
   Imp(B(B(V("vb"), "%", N(4)), "+", V("gbase"))),
   Imp(B(B(N(0), "-", V("va")), "+", N(9))),
   Imp(U("no", B(V("va"), ">", N(3)))),
   Imp(B(B(B(V("va"), ">", N(3)), "y", B(V("vb"), "<", N(3))), "o", B(V("va"), "==", N(5)))),
   Imp(B(B(V("va"), "!=", N(5)), "o", B(V("vb"), ">=", N(13)))),
   Imp(B(B(V("va"), "<=", N(4)), "y", B(V("vb"), ">", N(0)))),
   Imp(Po(V("va"), 1)),
   Imp(Po(V("va"), -1)),
   Imp(V("va")),
   Imp(Ter(B(V("va"), ">", N(3)), V("vb"), N(0))),
   Dec("entero", "vc", Ter(B(V("va"), ">", N(9)), N(1), N(2))),
   Imp(V("vc")),
   Dec("flotante", "fa", F(2500)),
   As("fa", B(B(V("fa"), "*", N(2)), "-", B(V("gtres"), "/", N(3)))),
   Dec("entero", "vd", V("fa")),
   Imp(V("vd")),
   Imp(B(B(N(0), "-", V("fa")), "+", F(6000))),
   Imp(Ter(B(V("fa"), "<", V("gtres")), N(1), N(0))),
   Imp(Ter(B(V("fa"), ">=", N(1)), N(1), N(0))),
   Imp(Ter(B(V("fa"), "==", F(4000)), N(1), N(0))),
   Imp(Ter(B(V("fa"), "!=", N(4)), N(1), N(0))),
   Dec("bool", "fb", B(B(V("fa"), ">", N(1)), "y", B(V("fa"), "<=", F(9000)))),
   Imp(V("fb")),
   Dec("entero", "vs", Ll("bit_shl", <<N(1), N(4)>>)),
   As("vs", B(V("vs"), "+", Ll("bit_shr", <<N(17), N(2)>>))),
   Imp(V("vs")),
   As("va", B(V("va"), "+", N(4))),
   Imp(V("va")),
   Cte("entero", "ce", N(12)),
   Imp(B(V("ce"), "+", N(100000)))>>,
   espera |-> "70001\n4\n0\n1\n1\n0\n5\n6\n5\n13\n2\n4\n2.0000\n0\n1\n1\n0\n1\n20\n9\n100012\n",
     acaba |-> "bien", mal |-> FALSE]

busqueda ==
  [cls |-> <<>>,
   glob |-> <<>>,
   fun |-> <<>>,
   main |-> <<
   Dec("texto", "ta", T("ab")),
   Dec("entero", "i1", N(0)),
   Mien(B(V("i1"), "<", N(2)), <<As("ta", Ll("concatenar", <<V("ta"), T("cd")>>)), As("i1", B(V("i1"), "+",
     N(1)))>>),
   Dec("entero", "sa", N(0)),
   Dec("entero", "i2", N(0)),
   Mien(B(V("i2"), "<", N(4)), <<As("sa", B(V("sa"), "+", Ll("contiene_texto", <<V("ta"), T("dc")>>))),
     As("sa", B(V("sa"), "+", Ll("buscar_en_texto", <<V("ta"), T("c")>>))), As("sa", B(V("sa"), "+",
     Ll("termina_con", <<V("ta"), T("cd")>>))), As("i2", B(V("i2"), "+", N(1)))>>),
   Imp(Ll("longitud", <<V("ta")>>)),
   Imp(T("")),
   Imp(V("sa")),
   Imp(T(""))>>,
   espera |-> "6\n\n16\n\n", acaba |-> "bien", mal |-> FALSE]

colapsos ==
  [cls |-> <<>>,
   glob |-> <<>>,
   fun |-> <<>>,
   main |-> <<
   Dec("texto", "t1", T("a")),
   Dec("entero", "i1", N(0)),
   Mien(B(V("i1"), "<", N(5)), <<As("t1", Ll("concatenar", <<V("t1"), T("bc")>>)), As("i1", B(V("i1"), "+",
     N(1)))>>),
   Imp(V("t1")),
   Dec("entero", "i2", N(0)),
   Dec("entero", "s2", N(0)),
   Dec("entero", "n2", N(6)),
   Mien(B(V("i2"), "<", V("n2")), <<As("s2", B(V("s2"), "+", V("i2"))), As("i2", B(V("i2"), "+", N(1)))>>),
   Imp(V("s2")),
   Imp(V("i2")),
   Dec("entero", "i3", N(0)),
   Mien(B(V("i3"), "<", N(3)), <<As("t1", Ll("concatenar", <<V("t1"), T("x")>>)), As("t1", Ll("concatenar",
     <<V("t1"), T("y")>>)), As("i3", B(V("i3"), "+", N(1)))>>),
   Imp(V("t1")),
   Dec("texto", "t5", T("ab")),
   Dec("entero", "i5", N(0)),
   Mien(B(V("i5"), "<", N(2)), <<As("t5", Ll("concatenar", <<V("t5"), T("c")>>)), As("i5", B(V("i5"), "+",
     N(1)))>>),
   Dec("entero", "i6", N(0)),
   Dec("entero", "s6", N(0)),
   Mien(B(V("i6"), "<", N(3)), <<As("s6", B(V("s6"), "+", Ll("contiene_texto", <<V("t5"), T("cc")>>))),
     As("s6", B(V("s6"), "+", Ll("buscar_en_texto", <<V("t5"), T("z")>>))), As("s6", B(V("s6"), "+",
     Ll("termina_con", <<V("t5"), T("c")>>))), As("i6", B(V("i6"), "+", N(1)))>>),
   Imp(V("s6")),
   Imp(V("i6")),
   Dec("texto", "t7", T("")),
   Dec("entero", "i7", N(0)),
   Mien(B(V("i7"), "<", N(4)), <<As("t7", Ll("extraer_subtexto", <<V("t5"), N(0), N(2)>>)), As("i7",
     B(V("i7"), "+", N(1)))>>),
   Imp(V("t7")),
   Imp(V("i7"))>>,
   espera |-> "abcbcbcbcbc\n15\n6\nabcbcbcbcbcxyxyxy\n6\n3\nab\n4\n", acaba |-> "bien", mal |-> FALSE]

control ==
  [cls |-> <<>>,
   glob |-> <<>>,
   fun |-> <<>>,
   main |-> <<
   Dec("entero", "vi", N(0)),
   Dec("entero", "suma", N(0)),
   Mien(B(V("vi"), "<", N(6)), <<As("vi", B(V("vi"), "+", N(1))), Si(B(V("vi"), "==", N(2)), <<Sigue1>>,
     <<Si(B(V("vi"), "==", N(5)), <<Rompe>>, <<As("suma", B(V("suma"), "+", V("vi")))>>)>>)>>),
   Imp(V("suma")),
   Para(Dec("entero", "k", N(0)), B(V("k"), "<", N(4)), Po(V("k"), 1), <<Si(B(V("k"), "==", N(1)), <<Sigue1>>,
     <<>>), Imp(V("k"))>>),
   Hac(<<As("vi", B(V("vi"), "-", N(2))), Si(B(V("vi"), "==", N(3)), <<Sigue1>>, <<>>), Imp(V("vi"))>>,
     B(V("vi"), ">", N(0))),
   DecL("lista", "entero", "nums", Li(<<N(4), N(5), N(6)>>)),
   Cada("entero", "x", V("nums"), <<Cada("entero", "z", Li(<<N(1), N(2)>>), <<Si(B(V("z"), "==", N(2)),
     <<Rompe>>, <<>>), As("suma", B(V("suma"), "+", B(V("x"), "*", V("z"))))>>)>>),
   Imp(V("suma")),
   Dec("mapa", "mm", Ma(<<<<T("a"), N(3)>>, <<T("b"), N(4)>>>>)),
   Cada("entero", "q", V("mm"), <<Imp(V("q"))>>),
   Dec("entero", "h", N(7)),
   Mien(B(V("h"), ">", N(0)), <<Eleg(V("h"), <<Caso(<<N(1), N(7)>>, <<Imp(T("uno o siete"))>>)>>,
     <<Imp(T("otro"))>>), As("h", B(V("h"), "-", N(3)))>>)>>,
   espera |-> "8\n0\n2\n3\n1\n-1\n23\n3\n4\nuno o siete\notro\nuno o siete\n", acaba |-> "bien",
     mal |-> FALSE]

intentar ==
  [cls |-> <<>>,
   glob |-> <<>>,
   fun |-> <<
   Func("parte", <<P("pa", "entero"), P("pb", "entero")>>, "entero",
   <<Ret(<<B(V("pa"), "/", V("pb"))>>)>>),
   Func("hondo", <<P("n", "entero")>>, "entero",
   <<Si(B(V("n"), "==", N(0)), <<Lanza(T("fondo"))>>, <<>>), Ret(<<Ll("hondo", <<B(V("n"), "-",
     N(1))>>)>>)>>)>>,
   main |-> <<
   Dec("entero", "va", N(1)),
   Intenta(<<As("va", Ll("parte", <<N(8), N(2)>>)), Imp(V("va")), As("va", Ll("parte", <<N(1), N(0)>>)),
     Imp(T("no"))>>, "err", <<<<Imp(T("capturado"))>>>>, <<<<Imp(T("final"))>>>>),
   Imp(V("va")),
   Intenta(<<Intenta(<<Imp(Ll("hondo", <<N(3)>>))>>, "err", <<<<Imp(V("err")), Lanza(T("otra"))>>>>, <<>>)>>,
     "err", <<<<Imp(V("err"))>>>>, <<>>),
   Intenta(<<Lanza(N(7))>>, "err", <<<<Imp(V("err"))>>>>, <<>>),
   Intenta(<<Lanza(N(8))>>, "NULL", <<<<>>>>, <<>>),
   Intenta(<<Imp(T("bien"))>>, "NULL", <<>>, <<<<Imp(T("siempre"))>>>>),
   DecL("lista", "entero", "l", Li(<<N(1)>>)),
   Intenta(<<Imp(Ix(V("l"), N(3)))>>, "err", <<<<Imp(T("indice"))>>>>, <<>>),
   Lanza(T("fuera"))>>,
   espera |-> "4\ncapturado\nfinal\n4\nfondo\notra\n7\nbien\nsiempre\nindice\n", acaba |-> "mal",
     mal |-> FALSE]

manejo ==
  [cls |-> <<>>,
   glob |-> <<>>,
   fun |-> <<
   Func("parte", <<P("pa", "entero"), P("pb", "entero")>>, "entero",
   <<Dec("entero", "pr", N(0)), Intenta(<<As("pr", B(V("pa"), "/", V("pb")))>>, "err", <<<<As("pr", B(N(0),
     "-", N(1)))>>>>, <<<<Imp(T("parte"))>>>>), Ret(<<V("pr")>>)>>)>>,
   main |-> <<
   Dec("entero", "suma", N(0)),
   Dec("entero", "k", N(0)),
   Mien(B(V("k"), "<", N(3)), <<Intenta(<<As("suma", B(V("suma"), "+", Ll("parte", <<N(6), V("k")>>))),
     Si(B(V("suma"), ">", N(4)), <<Lanza(T("grande"))>>, <<>>)>>, "err", <<<<Imp(V("err")), As("suma",
     N(0))>>>>, <<>>), As("k", B(V("k"), "+", N(1)))>>),
   Imp(V("suma"))>>,
   espera |-> "parte\nparte\ngrande\nparte\n3\n", acaba |-> "bien", mal |-> FALSE]

largo ==
  [cls |-> <<>>,
   glob |-> <<>>,
   fun |-> <<>>,
   main |-> <<
   Dec("texto", "ta", T("ab")),
   Dec("entero", "i1", N(0)),
   Mien(B(V("i1"), "<", N(5)), <<As("ta", Ll("concatenar", <<V("ta"), T("cde")>>)), As("i1", B(V("i1"), "+",
     N(1)))>>),
   Imp(Ll("longitud", <<V("ta")>>)),
   Imp(T(""))>>,
   espera |-> "17\n\n", acaba |-> "bien", mal |-> FALSE]

registros ==
  [cls |-> <<
   Regi("Punto", <<>>, <<Ca("px", "entero"), Ca("py", "entero")>>, <<>>),
   Regi("Persona", <<>>, <<Ca("nom", "texto"), Ca("donde", "Punto"), Ca("alto", "flotante"), Ca("rumbo",
     "vec2")>>, <<>>)>>,
   glob |-> <<>>,
   fun |-> <<>>,
   main |-> <<
   Dec0("Punto", "pp"),
   AsM(Mi(V("pp"), "px"), N(3)),
   AsM(Mi(V("pp"), "py"), B(Mi(V("pp"), "px"), "*", N(2))),
   Imp(B(Mi(V("pp"), "px"), "+", Mi(V("pp"), "py"))),
   Imp(V("pp")),
   Dec0("Persona", "ss"),
   AsM(Mi(V("ss"), "nom"), T("Eva")),
   AsM(Mi(Mi(V("ss"), "donde"), "px"), N(8)),
   AsM(Mi(V("ss"), "alto"), N(2)),
   AsM(Mi(V("ss"), "rumbo"), Ll("vec2", <<F(1000), N(2)>>)),
   Imp(Mi(Mi(V("ss"), "donde"), "px")),
   Imp(Mi(Mi(V("ss"), "rumbo"), "y")),
   Imp(Inter(<<Tr("hay "), V("pp")>>)),
   Dec("texto", "rt", Inter(<<Tr("son "), V("pp")>>)),
   Imp(V("rt")),
   Dec0("Persona", "vv"),
   Imp(Mi(V("vv"), "nom")),
   Dec("vec2", "ua", Ll("vec2", <<F(3000), F(4000)>>)),
   AsM(Mi(V("ss"), "rumbo"), V("ua")),
   Imp(Mi(Mi(V("ss"), "rumbo"), "x")),
   AsM(Mi(V("ss"), "rumbo"), B(Mi(V("ss"), "rumbo"), "+", V("ua"))),
   Imp(Mi(Mi(V("ss"), "rumbo"), "y"))>>,
   espera |-> "9\n{\n  px: 3,\n  py: 6\n}\n8\n2.0000\nhay {\n  px: 3,\n  py: 6\n}\nson {\n  px: 3,\n  py: 6\n}\nindefinido\n3.0000\n8.0000\n", acaba |-> "bien", mal |-> FALSE]

subtexto ==
  [cls |-> <<>>,
   glob |-> <<>>,
   fun |-> <<>>,
   main |-> <<
   Dec("texto", "ta", T("ab")),
   Dec("entero", "i1", N(0)),
   Mien(B(V("i1"), "<", N(2)), <<As("ta", Ll("concatenar", <<V("ta"), T("cd")>>)), As("i1", B(V("i1"), "+",
     N(1)))>>),
   Dec("texto", "tx", T("")),
   Dec("entero", "i2", N(0)),
   Mien(B(V("i2"), "<", N(4)), <<As("tx", Ll("extraer_subtexto", <<V("ta"), N(0), N(3)>>)), As("i2",
     B(V("i2"), "+", N(1)))>>),
   Imp(Ll("longitud", <<V("ta")>>)),
   Imp(T("")),
   Imp(V("tx"))>>,
   espera |-> "6\n\nabc\n", acaba |-> "bien", mal |-> FALSE]

sumaimpresa ==
  [cls |-> <<>>,
   glob |-> <<>>,
   fun |-> <<>>,
   main |-> <<
   Dec("entero", "i2", N(0)),
   Dec("entero", "s2", N(0)),
   Dec("entero", "n2", N(9)),
   Mien(B(V("i2"), "<", V("n2")), <<As("s2", B(V("s2"), "+", V("i2"))), As("i2", B(V("i2"), "+", N(1)))>>),
   Imp(V("s2"))>>,
   espera |-> "36\n", acaba |-> "bien", mal |-> FALSE]

textos ==
  [cls |-> <<>>,
   glob |-> <<>>,
   fun |-> <<
   Func("grita", <<P("pt", "texto")>>, "texto",
   <<Ret(<<Ll("concatenar", <<V("pt"), T("!")>>)>>)>>)>>,
   main |-> <<
   Dec("texto", "nombre", T("Ana")),
   Dec("entero", "edad", N(30)),
   Imp(B(B(B(T("Hola "), "+", V("nombre")), "+", T(", ")), "+", V("edad"))),
   Imp(Inter(<<Tr("Tiene "), V("edad"), Tr(" y "), V("nombre"), Tr(".")>>)),
   Dec("texto", "ta", Inter(<<Tr("["), V("nombre"), Tr(":"), B(V("edad"), "+", N(1)), Tr("]")>>)),
   Imp(V("ta")),
   Imp(B(Ll("grita", <<T("uno")>>), "+", Ll("grita", <<T("dos")>>))),
   Imp(Ll("concatenar", <<Ll("grita", <<T("a")>>), T("b")>>)),
   Imp(Ll("longitud", <<V("ta")>>)),
   Imp(Ll("contiene_texto", <<V("ta"), T("na:")>>)),
   Imp(Ll("termina_con", <<V("ta"), T("]")>>)),
   Dec("texto", "ts", Ll("extraer_subtexto", <<T("abcdef"), N(2), N(3)>>)),
   Imp(V("ts")),
   As("ts", Ll("extraer_subtexto", <<T("abcdef"), N(4)>>)),
   Imp(V("ts")),
   Imp(Ll("extraer_antes_de", <<T("uno=dos"), T("=")>>)),
   Imp(Ll("extraer_despues_de", <<T("uno=dos"), T("=")>>)),
   As("ts", Ll("copiar_texto", <<T("copia")>>)),
   Imp(V("ts")),
   As("ts", Ll("str_extraer_caracter", <<T("xyz"), N(1)>>)),
   Imp(V("ts")),
   Imp(B(Ll("str_a_entero", <<T("42")>>), "+", N(1))),
   Imp(B(Ll("str_desde_numero", <<N(7)>>), "+", T("."))),
   Imp(Ll("convertir_entero", <<N(9)>>)),
   DecL("lista", "texto", "ps", Ll("dividir", <<T("a,b,c"), T(",")>>)),
   Imp(Ll("lista_tamano", <<V("ps")>>)),
   Imp(Ix(V("ps"), N(1))),
   Dec("texto", "tn", V("edad")),
   Imp(V("tn")),
   Ex(Ll("imprimir_sin_salto", <<T("x")>>)),
   Ex(Ll("imprimir_sin_salto", <<V("edad")>>)),
   Ex(Ll("imprimir_sin_salto", <<V("nombre")>>)),
   Imp(T("")),
   Imp(B(T("De "), "+", Ll("concatenar", <<V("nombre"), T("")>>))),
   Resp(T("fin"))>>,
   espera |-> "Hola Ana, 30\nTiene 30 y Ana.\n[Ana:31]\nuno!dos!\na!b\n8\n1\n1\ncde\nef\nuno\ndos\ncopia\ny\n43\n7.\n9\n3\nb\n30\nx30Ana\nDe Ana\n\"fin\"\n", acaba |-> "bien", mal |-> FALSE]

clases ==
  [cls |-> <<
   Clas("Figura", <<>>, <<Ca("lado", "entero"), Ca("nom", "texto")>>, <<
   Func("inicializar", <<P("plado", "entero")>>, "entero",
   <<As("lado", V("plado")), AsM(Mi(V("este"), "nom"), T("fig"))>>), 
   Func("area", <<>>, "entero",
   <<Ret(<<N(0)>>)>>), 
   Func("doble", <<>>, "entero",
   <<Ret(<<B(B(Ll("area", <<>>), "*", N(2)), "+", Mi(V("este"), "lado"))>>)>>), 
   Func("nombre", <<>>, "texto",
   <<Ret(<<V("nom")>>)>>)>>),
   Clas("Cuadro", <<"Figura">>, <<Ca("grosor", "entero")>>, <<
   Func("area", <<>>, "entero",
   <<Ret(<<B(V("lado"), "*", V("lado"))>>)>>), 
   Func("crece", <<P("n", "entero")>>, "entero",
   <<As("lado", B(Mi(V("este"), "lado"), "+", V("n"))), As("grosor", V("n"))>>), 
   Func("base", <<>>, "entero",
   <<Dec("entero", "bb", Met(V("padre"), "area", <<>>)), Ret(<<B(V("bb"), "+", N(1))>>)>>)>>),
   Clas("Vacia", <<>>, <<CaPriv("oculto", "entero")>>, <<
   Func("pon", <<P("n", "entero")>>, "entero",
   <<As("oculto", V("n"))>>), 
   Func("dame", <<>>, "entero",
   <<Ret(<<V("oculto")>>)>>)>>),
   Clas("Caja", <<>>, <<Ca("dentro", "Cuadro")>>, <<>>)>>,
   glob |-> <<>>,
   fun |-> <<>>,
   main |-> <<
   Dec("Figura", "ff", Ll("Figura", <<N(3)>>)),
   Dec("Cuadro", "cc", Ll("Cuadro", <<N(4)>>)),
   Imp(B(Met(V("ff"), "area", <<>>), "+", Met(V("cc"), "area", <<>>))),
   Imp(Met(V("ff"), "doble", <<>>)),
   Imp(Met(V("cc"), "doble", <<>>)),
   Ex(Met(V("cc"), "crece", <<N(2)>>)),
   Imp(Mi(V("cc"), "lado")),
   Imp(Mi(V("cc"), "grosor")),
   Imp(Met(V("cc"), "nombre", <<>>)),
   Imp(Met(V("cc"), "base", <<>>)),
   Dec("Figura", "gg", V("cc")),
   Imp(Met(V("gg"), "area", <<>>)),
   Ex(Met(V("gg"), "doble", <<>>)),
   Dec("Vacia", "ww", Ll("Vacia", <<>>)),
   Ex(Met(V("ww"), "pon", <<N(5)>>)),
   Imp(Met(V("ww"), "dame", <<>>)),
   AsM(Mi(V("ff"), "lado"), N(11)),
   Imp(Mi(V("ff"), "lado")),
   Dec("Caja", "kk", Ll("Caja", <<>>)),
   AsM(Mi(V("kk"), "dentro"), V("cc")),
   Imp(Mi(Mi(V("kk"), "dentro"), "lado")),
   Imp(Met(Mi(V("kk"), "dentro"), "area", <<>>))>>,
   espera |-> "16\n3\n36\n6\n2\nfig\n1\n36\n5\n11\n6\n36\n", acaba |-> "bien", mal |-> FALSE]

colecciones ==
  [cls |-> <<>>,
   glob |-> <<>>,
   fun |-> <<>>,
   main |-> <<
   DecL("lista", "entero", "l", Li(<<N(3), N(1), N(2)>>)),
   Ex(Ll("lista_agregar", <<V("l"), N(9)>>)),
   AsI(V("l"), N(0), N(8)),
   Ex(Ll("lista_poner", <<V("l"), N(1), N(7)>>)),
   Imp(B(Ll("lista_obtener", <<V("l"), N(0)>>), "+", Ix(V("l"), N(1)))),
   Imp(Mi(V("l"), "medida")),
   Imp(V("l")),
   Imp(Ll("lista_tamano", <<V("l")>>)),
   Dec("lista", "lm", Ll("lista_crear", <<>>)),
   Ex(Ll("lista_agregar", <<V("lm"), N(5)>>)),
   Ex(Ll("lista_agregar", <<V("lm"), T("t")>>)),
   Imp(V("lm")),
   Ex(Ll("lista_limpiar", <<V("l")>>)),
   Imp(V("l")),
   Ex(Ll("lista_liberar", <<V("l")>>)),
   Dec("mapa", "md", Ma(<<<<T("c"), N(2)>>>>)),
   Dec("mapa", "mm", Ma(<<<<T("a"), N(1)>>, <<T("b"), V("md")>>>>)),
   AsI(V("mm"), T("a"), N(5)),
   Ex(Ll("mapa_poner", <<V("mm"), T("z"), N(6)>>)),
   Imp(B(Ix(V("mm"), T("a")), "+", Ix(V("mm"), T("z")))),
   Imp(Ll("mapa_tamano", <<V("mm")>>)),
   Imp(Ll("mapa_contiene", <<V("mm"), T("b")>>)),
   Imp(Ll("mapa_contiene", <<V("mm"), T("a")>>)),
   Imp(Ll("mapa_obtener", <<V("mm"), T("z")>>)),
   Dec("mapa", "mv", Ll("mapa_crear", <<>>)),
   AsI(V("mv"), T("k"), Li(<<N(1), N(2)>>)),
   Imp(Ix(V("mv"), T("k"))),
   Dec("entero", "vi", N(1)),
   Imp(Ix(Li(<<N(10), N(20), N(30)>>), V("vi")))>>,
   espera |-> "15\n4\n[8, 7, 2, 9]\n4\n[5, \"t\"]\n[]\n11\n3\n1\n1\n6\n[1, 2]\n20\n", acaba |-> "bien",
     mal |-> FALSE]

vectores ==
  [cls |-> <<>>,
   glob |-> <<>>,
   fun |-> <<>>,
   main |-> <<
   Dec("vec2", "va", Ll("vec2", <<F(3000), F(4000)>>)),
   Dec("vec2", "vb", B(V("va"), "+", V("va"))),
   Imp(Mi(V("vb"), "x")),
   As("vb", B(V("va"), "*", N(2))),
   Imp(Mi(V("vb"), "y")),
   As("vb", B(V("va"), "-", V("vb"))),
   Imp(Mi(V("vb"), "x")),
   Imp(Ll("vec2_longitud", <<V("va")>>)),
   Imp(Ll("vec2_dot", <<V("va"), V("va")>>)),
   Dec("vec3", "ta", Ll("vec3", <<F(1000), F(0), F(0)>>)),
   Dec("vec3", "tb", Ll("vec3", <<F(0), F(1000), F(0)>>)),
   Dec0("vec3", "tc"),
   Ex(Ll("vec3_cross", <<V("tc"), V("ta"), V("tb")>>)),
   Imp(Mi(V("tc"), "z")),
   Imp(Ll("vec3_dot", <<V("ta"), V("ta")>>)),
   Dec0("mat4", "m"),
   Dec0("mat4", "n"),
   Dec("vec4", "qa", Ll("vec4", <<F(1000), F(1000), F(1000), F(1000)>>)),
   Dec0("vec4", "qb"),
   Ex(Ll("mat4_identidad", <<V("m")>>)),
   Ex(Ll("mat4_mul", <<V("n"), V("m"), V("m")>>)),
   Ex(Ll("mat4_mul_vec4", <<V("qb"), V("n"), V("qa")>>)),
   Imp(Mi(V("qb"), "w")),
   Ex(Ll("mat4_transpuesta", <<V("m"), V("n")>>)),
   Imp(Mi(V("m"), "e5")),
   Dec0("mat3", "da"),
   Dec0("mat3", "db"),
   AsM(Mi(V("da"), "e0"), F(2000)),
   AsM(Mi(V("da"), "e4"), F(3000)),
   Ex(Ll("mat3_mul", <<V("db"), V("da"), V("da")>>)),
   Imp(Mi(V("db"), "e0")),
   Ex(Ll("mat3_mul_vec3", <<V("tc"), V("da"), V("tb")>>)),
   Imp(Mi(V("tc"), "y")),
   Imp(Ll("vec4_longitud", <<V("qb")>>)),
   Dec0("vec2", "vn"),
   Dec("vec2", "uu", Ll("vec2", <<F(1000), F(0)>>)),
   Ex(Ll("vec2_normalizar", <<V("vn"), V("uu")>>)),
   Imp(Mi(V("vn"), "x"))>>,
   espera |-> "6.0000\n8.0000\n-3.0000\n5.0000\n25.0000\n1.0000\n1.0000\n1.0000\n1.0000\n4.0000\n3.0000\n2.0000\n1.0000\n", acaba |-> "bien", mal |-> FALSE]

varios ==
  [cls |-> <<>>,
   glob |-> <<Dec("entero", "global1", N(4)), Dec("texto", "global2", T("g")), Cte("entero", "tope",
     N(3))>>,
   fun |-> <<
   Func("nada", <<>>, "entero",
   <<As("global1", B(V("global1"), "+", N(1))), Ret(<<N(0)>>)>>),
   Func("parame", <<P("pt", "texto"), P("pl", "lista"), P("pf", "flotante")>>, "flotante",
   <<Ex(Ll("lista_agregar", <<V("pl"), V("pt")>>)), Ret(<<B(V("pf"), "+", N(1))>>)>>)>>,
   main |-> <<
   Ex(Ll("nada", <<>>)),
   Imp(B(V("global1"), "*", V("tope"))),
   Imp(V("global2")),
   Dec0("texto", "quien"),
   Lee1("quien"),
   Imp(V("quien")),
   Lee1("otro"),
   Imp(V("otro")),
   Dec("lista", "ll", Ll("lista_crear", <<>>)),
   Imp(Ll("parame", <<T("x"), V("ll"), F(2000)>>)),
   Imp(V("ll")),
   Dec("texto", "cc", T("")),
   Tex("STR_COPIAR", T("uno dos"), "cc"),
   Imp(V("cc")),
   Dec("texto", "uu", T("")),
   Tex("STR_ULTIMA", T("uno dos"), "uu"),
   Imp(V("uu")),
   Dec("texto", "ee", T("a=b")),
   Dec("texto", "vz", Ll("extraer_antes_de", <<V("ee"), T("=")>>)),
   Imp(V("vz")),
   Resp(T("listo"))>>,
   espera |-> "15\ng\ndato\ndato\n3.0000\n[\"x\"]\nuno dos\ndos\na\n\"listo\"\n", acaba |-> "bien",
     mal |-> FALSE]

lam2 ==
  [cls |-> <<>>,
   glob |-> <<>>,
   fun |-> <<
   Func("usa", <<>>, "entero",
   <<Dec("funcion", "f1", Lam(<<P("k", "entero")>>, Bl(<<Dec("entero", "z", B(V("k"), "+", N(1))),
     Ret(<<B(V("z"), "*", N(2))>>)>>))), Ret(<<Ll("f1", <<N(3)>>)>>)>>),
   Func("suelta", <<>>, "entero",
   <<Dec("funcion", "f1", Lam(<<P("k", "entero")>>, Bl(<<Imp(V("k"))>>))), Ex(Ll("f1", <<N(8)>>)),
     Ret(<<N(0)>>)>>)>>,
   main |-> <<
   Imp(Ll("usa", <<>>)),
   Ex(Ll("suelta", <<>>)),
   Dec("macro", "doble", Lam(<<P("n", "entero")>>, Bl(<<Dec("entero", "z", V("n")), Ret(<<B(V("z"), "*",
     N(2))>>)>>))),
   Imp(Ll("doble", <<N(4)>>)),
   Dec("macro", "saca", Lam(<<P("n", "entero")>>, Bl(<<Imp(V("n"))>>))),
   Ex(Ll("saca", <<N(5)>>))>>,
   espera |-> "8\n8\n8\n5\n", acaba |-> "bien", mal |-> FALSE]

lambdas ==
  [cls |-> <<>>,
   glob |-> <<>>,
   fun |-> <<
   Func("hace", <<P("kk", "entero")>>, "elemento",
   <<Dec("entero", "bbb", V("kk")), Ret(<<Lam(<<P("q", "entero")>>, B(V("q"), "+", V("bbb")))>>)>>),
   Func("aplica", <<P("g1", "funcion"), P("n", "entero")>>, "entero",
   <<Ret(<<Ll("g1", <<V("n")>>)>>)>>),
   Func("suma2", <<>>, "entero",
   <<Dec("entero", "v0", N(10)), Dec("funcion", "f2", Lam(<<P("q", "entero")>>, B(V("q"), "+", V("v0")))),
     Ret(<<Ll("f2", <<N(1)>>)>>)>>)>>,
   main |-> <<
   Dec("macro", "doblez", Lam(<<P("n", "entero")>>, B(V("n"), "*", N(2)))),
   Dec("funcion", "f1", Lam(<<P("k", "entero")>>, B(V("k"), "+", N(1)))),
   Imp(Ll("f1", <<N(3)>>)),
   Imp(Ll("aplica", <<Lam(<<P("k", "entero")>>, B(V("k"), "*", N(3))), N(5)>>)),
   Imp(Ll("suma2", <<>>)),
   Imp(Ll("f1", <<Ll("f1", <<N(2)>>)>>)),
   Imp(Ic(Ll("hace", <<N(4)>>), <<N(2)>>)),
   Dec("entero", "v1", N(3)),
   Imp(Ll("doblez", <<V("v1")>>)),
   Ex(Ll("doblez", <<N(3)>>))>>,
   espera |-> "4\n15\n11\n4\n6\n6\n", acaba |-> "bien", mal |-> FALSE]

inv ==
  [cls |-> <<
   Clas("caja", <<>>, <<Ca("lado", "entero")>>, <<
   Func("doble", <<P("p", "entero")>>, "entero",
   <<Ret(<<B(Mi(V("este"), "lado"), "*", V("p"))>>)>>)>>)>>,
   glob |-> <<>>,
   fun |-> <<
   Func("hace", <<P("kk", "entero")>>, "elemento",
   <<Ret(<<Lam(<<P("q", "entero")>>, B(V("q"), "+", N(7)))>>)>>)>>,
   main |-> <<
   Dec("caja", "cc", Ll("caja", <<>>)),
   AsM(Mi(V("cc"), "lado"), N(4)),
   Ex(Met(V("cc"), "doble", <<N(2)>>)),
   Dec("entero", "rr", Met(V("cc"), "doble", <<N(5)>>)),
   Imp(V("rr")),
   Ex(Ic(Ll("hace", <<N(4)>>), <<N(2)>>)),
   Imp(Ic(Ll("hace", <<N(4)>>), <<N(2)>>)),
   Ex(Po(V("rr"), 1)),
   Imp(V("rr")),
   Imp(Po(V("rr"), -1))>>,
   espera |-> "20\n9\n21\n21\n", acaba |-> "bien", mal |-> FALSE]

entrada ==
  [cls |-> <<>>,
   glob |-> <<>>,
   fun |-> <<>>,
   main |-> <<
   Dec("texto", "qq", Entra1),
   Imp(V("qq")),
   Dec0("texto", "nn"),
   Lee1("nn"),
   Imp(V("nn"))>>,
   espera |-> "dato\ndato\n", acaba |-> "bien", mal |-> FALSE]

(* Characters: printed as letters, except by imprimir_sin_salto when literal and
   inside an interpolated text; in a record, with two decimals of its nota. *)
caracteres ==
  [cls |-> << Regi("Hoja", <<>>, <<Ca("letra", "caracter"), Ca("nota", "flotante")>>, <<>>)>>,
   glob |-> <<>>,
   fun |-> <<>>,
   main |-> <<
   Dec("caracter", "c", Car(98)),
   Imp(Car(97)), Imp(V("c")), Imp(B(V("c"), "+", T("x"))), Imp(B(T("x"), "+", Car(97))),
   Ex(Ll("imprimir_sin_salto", <<V("c")>>)), Ex(Ll("imprimir_sin_salto", <<F(2500)>>)), Imp(T("")),
   Dec0("Hoja", "h"), Imp(V("h")),
   AsM(Mi(V("h"), "letra"), Car(122)), AsM(Mi(V("h"), "nota"), F(2000)),
   Ex(Ll("imprimir_sin_salto", <<V("h")>>)),
   Dec("texto", "t", Inter(<<Tr("h "), V("h")>>)), Imp(V("t")),
   Dec("texto", "q", Entra(TRUE)), Lee("w", TRUE),
   Dec("objeto", "j", Js(<<<<T("a"), Car(97)>>, <<T("b"), Con("pe")>>>>)) >>,
   espera |-> "a\nb\nbx\nxa\nb2.5000\n{\n  letra: indefinido,\n  nota: 0.0000\n}\n{\n  letra: z,\n  nota: 2.0000\n}h {\n  letra: z,\n  nota: 2.0000\n}\n<IO_PERCIBIR_TECLADO><IO_PERCIBIR_TECLADO><JSON_PARSE \"{\"a\":\"a\",\"b\":\"pe\"}\">", acaba |-> "bien", mal |-> FALSE]

fuera ==
  [cls |-> <<>>,
   glob |-> <<>>,
   fun |-> <<>>,
   main |-> <<
   Imp(N(1)),
   Dec("funcion", "ff", N(65000)),
   Imp(N(2)),
   Ex(Ll("ff", <<>>))>>,
   espera |-> "1\n2\n", acaba |-> "fuera", mal |-> FALSE]

conceptos ==
  [cls |-> <<>>,
   glob |-> <<>>,
   fun |-> <<>>,
   main |-> <<
   Conc("recordar", <<T("perro")>>),
   Conc("asociar", <<Con("perro"), Con("animal"), F(500)>>),
   Conc("aprender", <<T("gato"), F(700)>>),
   Mem("crear", <<T("a.jmn")>>),
   Mem("activar", <<T("x")>>),
   Mem("cerrar", <<>>),
   Resp(T("fin"))>>,
   espera |-> "<MEM_APRENDER_CONCEPTO \"perro\" 100><MEM_ASOCIAR_CONCEPTOS \"perro\" \"animal\" 0.5000><MEM_APRENDER_CONCEPTO \"gato\" 0.7000><MEM_CREAR \"a.jmn\" 0 0><ACTIVAR_MODULO x><MEM_CERRAR>\"fin\"\n", acaba |-> "bien", mal |-> FALSE]

jjson ==
  [cls |-> <<>>,
   glob |-> <<>>,
   fun |-> <<>>,
   main |-> <<
   Dec("objeto", "oo", Js(<<<<T("a"), N(1)>>, <<T("b"), Li(<<N(1), N(2), T("t")>>)>>, <<T("c"),
     Js(<<<<T("d"), T("x")>>>>)>>>>)),
   Imp(T("h"))>>,
   espera |-> "<JSON_PARSE \"{\"a\":1,\"b\":[1,2,\"t\"],\"c\":{\"d\":\"x\"}}\">h\n", acaba |-> "bien",
     mal |-> FALSE]

sistema1 ==
  [cls |-> <<>>, glob |-> <<>>, fun |-> <<>>,
   main |-> <<Dec0("elemento", "x"), As("x", Ll("str_minusculas", <<N(11)>>)), Imp(V("x")), As("x",
     Ll("str_mayusculas", <<N(21)>>)), Imp(V("x")), As("x", Ll("codigo_caracter", <<N(31)>>)), Imp(V("x")),
     As("x", Ll("caracter_a_texto", <<N(41)>>)), Imp(V("x")), As("x", Ll("sin", <<N(51)>>)), Imp(V("x")),
     As("x", Ll("cos", <<N(61)>>)), Imp(V("x")), As("x", Ll("tan", <<N(71)>>)), Imp(V("x")), As("x",
     Ll("atan2", <<N(81), N(82)>>)), Imp(V("x")), As("x", Ll("exp", <<N(91)>>)), Imp(V("x")), As("x",
     Ll("log", <<N(101)>>)), Imp(V("x")), As("x", Ll("log10", <<N(111)>>)), Imp(V("x")), As("x",
     Ll("nativo_mlp_entrenar", <<N(121), N(122), N(123), N(124), N(125), N(126), N(127)>>)), Imp(V("x")),
     Ex(Ll("aprender", <<N(131), N(132)>>)), Ex(Ll("reforzar", <<N(141)>>)), Ex(Ll("reforzar", <<N(151),
     N(52)>>)), Ex(Ll("penalizar", <<N(161)>>)), As("x", Ll("decae_conexiones", <<>>)), Imp(V("x")), As("x",
     Ll("consolidar_memoria", <<>>)), Imp(V("x")), As("x", Ll("olvidar_debiles", <<>>)), Imp(V("x")),
     As("x", Ll("ventana_percepcion", <<>>)), Imp(V("x")), As("x", Ll("ventana_percepcion", <<N(211)>>)),
     Imp(V("x")), Ex(Ll("percepcion", <<N(221)>>)), Ex(Ll("percepcion_limpiar", <<>>)), As("x",
     Ll("percepcion_tamano", <<>>)), Imp(V("x")), As("x", Ll("percepcion_anterior", <<N(251)>>)),
     Imp(V("x")), As("x", Ll("percepcion_recientes", <<>>)), Imp(V("x")), As("x",
     Ll("ventana_rastro_activacion", <<>>)), Imp(V("x")), As("x", Ll("ventana_rastro_activacion",
     <<N(281)>>)), Imp(V("x")), Ex(Ll("rastro_activacion_limpiar", <<>>)), As("x",
     Ll("rastro_activacion_tamano", <<>>)), Imp(V("x")), As("x", Ll("rastro_activacion_obtener",
     <<N(31)>>)), Imp(V("x")), As("x", Ll("rastro_activacion_peso", <<N(32)>>)), Imp(V("x")), As("x",
     Ll("rastro_activacion_lista", <<>>)), Imp(V("x")), As("x", Ll("propagar_activacion", <<N(341)>>)),
     Imp(V("x")), As("x", Ll("elegir_por_peso", <<N(351), N(352)>>)), Imp(V("x")), As("x",
     Ll("elegir_por_peso_id", <<N(361), N(362)>>)), Imp(V("x")), As("x", Ll("elegir_por_peso_semilla",
     <<N(371)>>)), Imp(V("x")), As("x", Ll("pensar", <<N(381)>>)), Imp(V("x")), As("x",
     Ll("pensar_respuesta", <<N(391)>>)), Imp(V("x")), Ex(Ll("asociar_relacion", <<N(401), N(402),
     N(403)>>))>>,
   espera |-> "<STR_MINUSCULAS 11>7019\n<STR_MAYUSCULAS 21>7043\n<STR_CODIGO_CARACTER 31>7072\n<STR_DESDE_CODIGO 41>7098\n<SIN 51>7111\n<COS 61>7124\n<TAN 71>7137\n<ATAN2 81 82>7155\n<EXP 91>7168\n<LOG 101>7182\n<LOG10 111>7198\n<ANALITICA_MLP_FIT 121 122 123 124 125 126 127>7250\n<MEM_APRENDER_PESO_REG 131 132><MEM_REFORZAR_CONCEPTO 141 10><MEM_REFORZAR_CONCEPTO 151 52><MEM_PENALIZAR_CONCEPTO 161 10><MEM_DECAE_CONEXIONES 5 10>7404\n<MEM_CONSOLIDAR_SUENO 5 10>7436\n<MEM_OLVIDAR_DEBILES 0 10>7467\n<PERCEPCION_VENTANA 64>7495\n<PERCEPCION_VENTANA 211>7524\n<PERCEPCION_REGISTRAR 221><PERCEPCION_LIMPIAR><PERCEPCION_TAMANO>7594\n<PERCEPCION_ANTERIOR 251>7624\n<PERCEPCION_LISTA>7647\n<RASTRO_ACTIVACION_VENTANA 128>7683\n<RASTRO_ACTIVACION_VENTANA 281>7719\n<RASTRO_ACTIVACION_LIMPIAR><RASTRO_ACTIVACION_TAMANO>7777\n<RASTRO_ACTIVACION_OBTENER 31>7812\n<RASTRO_ACTIVACION_PESO 32>7844\n<RASTRO_ACTIVACION_LISTA>7874\n<MEM_PROPAGAR_ACTIVACION 341 198656>7915\n<MEM_ELEGIR_POR_PESO_IDX 351 352>7953\n<MEM_ELEGIR_POR_PESO_ID 361 362>7990\n<MEM_ELEGIR_POR_PESO_SEMILLA 371>8028\n<MEM_PENSAR 381 2>8051\n<MEM_PENSAR_RESPUESTA 391>8082\n<MEM_ASOCIAR_RELACION 401 402 403>", acaba |-> "bien", mal |-> FALSE]

sistema2 ==
  [cls |-> <<>>, glob |-> <<>>, fun |-> <<>>,
   main |-> <<Dec0("elemento", "x"), Ex(Ll("corregir_secuencia", <<N(11), N(12)>>)), As("x",
     Ll("comparar_patrones", <<N(21), N(22)>>)), Imp(V("x")), As("x", Ll("buscar", <<N(31)>>)), Imp(V("x")),
     As("x", Ll("buscar_en_memoria", <<N(41)>>)), Imp(V("x")), As("x", Ll("buscar_en_memoria_lista",
     <<N(51), N(52)>>)), Imp(V("x")), As("x", Ll("buscar_en_memoria_cs", <<N(61), N(1)>>)), Imp(V("x")),
     As("x", Ll("buscar_en_memoria_detallada", <<N(71), N(72)>>)), Imp(V("x")), As("x",
     Ll("buscar_en_memoria_detallada", <<N(81), N(82), N(1)>>)), Imp(V("x")), As("x", Ll("procesar_texto",
     <<N(91)>>)), Imp(V("x")), As("x", Ll("obtener_relacionados", <<N(101)>>)), Imp(V("x")), As("x",
     Ll("es_variable_sistema", <<N(111)>>)), Imp(V("x")), As("x", Ll("obtener_todos_conceptos", <<>>)),
     Imp(V("x")), As("x", Ll("registrar_patron", <<N(131)>>)), Imp(V("x")), As("x", Ll("asociar_secuencia",
     <<N(141), N(142)>>)), Imp(V("x")), As("x", Ll("pensar_siguiente", <<N(151)>>)), Imp(V("x")), As("x",
     Ll("pensar_anterior", <<N(161)>>)), Imp(V("x")), As("x", Ll("buscar_asociados", <<N(171)>>)),
     Imp(V("x")), As("x", Ll("buscar_asociados_lista", <<N(181), N(182)>>)), Imp(V("x")), As("x",
     Ll("leer_entrada", <<>>)), Imp(V("x")), As("x", Ll("percibir_teclado", <<>>)), Imp(V("x")), As("x",
     Ll("ingreso_inmediato", <<>>)), Imp(V("x")), As("x", Ll("entrada_flotante", <<>>)), Imp(V("x")),
     Ex(Ll("limpiar_consola", <<>>)), Ex(Ll("pausa", <<>>)), As("x", Ll("ahora", <<>>)), Imp(V("x")),
     As("x", Ll("formatear_timestamp", <<N(261), N(262)>>)), Imp(V("x")), As("x", Ll("pausa_milisegundos",
     <<N(271)>>)), Imp(V("x")), As("x", Ll("abrir_archivo", <<N(281)>>)), Imp(V("x")),
     Ex(Ll("cerrar_archivo", <<>>)), As("x", Ll("leer_linea_archivo", <<>>)), Imp(V("x")),
     Ex(Ll("escribir_archivo", <<N(311)>>)), As("x", Ll("fin_archivo", <<>>)), Imp(V("x")), As("x",
     Ll("existe_archivo", <<N(331)>>)), Imp(V("x")), As("x", Ll("listar_archivos", <<N(341)>>)),
     Imp(V("x")), As("x", Ll("fs_leer_byte", <<>>)), Imp(V("x")), Ex(Ll("fs_escribir_byte", <<N(361)>>)),
     As("x", Ll("fs_leer_texto", <<N(371)>>)), Imp(V("x")), As("x", Ll("json_parse", <<N(381)>>)),
     Imp(V("x")), As("x", Ll("json_stringify", <<N(391)>>)), Imp(V("x")), As("x", Ll("json_objeto_obtener",
     <<N(401), N(402)>>)), Imp(V("x"))>>,
   espera |-> "<MEM_CORREGIR_SECUENCIA 11 12><MEM_COMPARAR_PATRONES 21 22>7059\n<MEM_OBTENER_VALOR 31>7086\n<MEM_BUSCAR_INTROSPECTIVA 41>7120\n<MEM_BUSCAR_INTROSPECTIVA_LISTA 51 52>7163\n<MEM_BUSCAR_INTROSPECTIVA_CS 61 1>7202\n<MEM_BUSCAR_INTROSPECTIVA_DETALLADA 71 72>7249\n<MEM_BUSCAR_INTROSPECTIVA_DETALLADA 81 338>7297\n<MEM_PROCESAR_TEXTO 91>7325\n<MEM_OBTENER_RELACIONADOS 101>7360\n<MEM_ES_VARIABLE_SISTEMA 111>7394\n<MEM_OBTENER_TODOS>7418\n<MEM_REGISTRAR_PATRON 131>7449\n<STR_ASOCIAR_SECUENCIA 141 142>7485\n<MEM_PENSAR_SIGUIENTE 151>7516\n<MEM_PENSAR_ANTERIOR 161>7546\n<MEM_BUSCAR_ASOCIADOS 171 0>7579\n<MEM_BUSCAR_ASOCIADOS_LISTA 181 182 1>7622\n<IO_INPUT_REG>7641\n<IO_PERCIBIR_TECLADO>7667\n<IO_PERCIBIR_TECLADO>7693\n<IO_ENTRADA_FLOTANTE>7719\n<LIMPIAR_CONSOLA><IO_PAUSA><SYS_TIMESTAMP>7766\n<STR_FORMATEAR_TIMESTAMP 261 262>7804\n<PAUSA_MILISEGUNDOS 271>7833\n<FS_ABRIR 281 0>7854\n<FS_CERRAR><FS_LEER_LINEA>7885\n<FS_ESCRIBIR 311><FS_FIN_ARCHIVO>7923\n<FS_EXISTE 331>7943\n<FS_LISTAR 341>7963\n<FS_LEER_BYTE>7982\n<FS_ESCRIBIR_BYTE 361><FS_LEER_TEXTO 371>8028\n<JSON_PARSE 381>8049\n<JSON_STRINGIFY 391>8074\n<JSON_OBJETO_OBTENER 401 402>8108\n", acaba |-> "bien", mal |-> FALSE]

sistema3 ==
  [cls |-> <<>>, glob |-> <<>>, fun |-> <<>>,
   main |-> <<Dec0("elemento", "x"), As("x", Ll("json_lista_obtener", <<N(11), N(12)>>)), Imp(V("x")),
     As("x", Ll("json_lista_tamano", <<N(21)>>)), Imp(V("x")), As("x", Ll("json_a_texto", <<N(31)>>)),
     Imp(V("x")), As("x", Ll("json_a_entero", <<N(41)>>)), Imp(V("x")), As("x", Ll("json_a_flotante",
     <<N(51)>>)), Imp(V("x")), As("x", Ll("json_a_bool", <<N(61)>>)), Imp(V("x")), As("x", Ll("json_tipo",
     <<N(71)>>)), Imp(V("x")), As("x", Ll("bytes_crear", <<N(81)>>)), Imp(V("x")), As("x",
     Ll("bytes_tamano", <<N(91)>>)), Imp(V("x")), As("x", Ll("bytes_obtener", <<N(101), N(102)>>)),
     Imp(V("x")), Ex(Ll("bytes_poner", <<N(111), N(112), N(113)>>)), As("x", Ll("bytes_anexar", <<N(121),
     N(122)>>)), Imp(V("x")), As("x", Ll("bytes_subbytes", <<N(131), N(132), N(133)>>)), Imp(V("x")),
     As("x", Ll("bytes_desde_texto", <<N(141)>>)), Imp(V("x")), As("x", Ll("bytes_a_texto", <<N(151)>>)),
     Imp(V("x")), As("x", Ll("bytes_puntero", <<N(161)>>)), Imp(V("x")), As("x", Ll("dns_resolver",
     <<N(171)>>)), Imp(V("x")), As("x", Ll("tcp_conectar", <<N(181), N(182)>>)), Imp(V("x")), As("x",
     Ll("tcp_escuchar", <<N(191), N(192)>>)), Imp(V("x")), As("x", Ll("tcp_aceptar", <<N(201)>>)),
     Imp(V("x")), As("x", Ll("tcp_enviar", <<N(211), N(212)>>)), Imp(V("x")), As("x", Ll("tcp_recibir",
     <<N(221), N(222)>>)), Imp(V("x")), Ex(Ll("tcp_cerrar", <<N(231)>>)), As("x", Ll("tls_cliente",
     <<N(241), N(242)>>)), Imp(V("x")), As("x", Ll("tls_servidor", <<N(251), N(252), N(253)>>)),
     Imp(V("x")), As("x", Ll("tls_enviar", <<N(261), N(262)>>)), Imp(V("x")), As("x", Ll("tls_recibir",
     <<N(271), N(272)>>)), Imp(V("x")), Ex(Ll("tls_cerrar", <<N(281)>>)), Ex(Ll("liberar", <<N(291)>>)),
     As("x", Ll("ffi_simbolo", <<N(301), N(302)>>)), Imp(V("x")), As("x", Ll("ffi_llamar", <<N(311)>>)),
     Imp(V("x")), As("x", Ll("ffi_llamar", <<N(321), N(322)>>)), Imp(V("x")), As("x", Ll("ffi_llamar",
     <<N(331), N(332), N(333), N(334), N(335)>>)), Imp(V("x")), Ex(Ll("mem_asociar", <<N(341), N(342),
     N(43)>>)), As("x", Ll("decimal", <<N(351), N(2)>>)), Imp(V("x")), As("x", Ll("mem_crear", <<N(361)>>)),
     Imp(V("x")), Ex(Ll("mem_cerrar", <<>>)), As("x", Ll("tiene_asociacion", <<N(381), N(382)>>)),
     Imp(V("x")), As("x", Ll("fs_borrar", <<N(391)>>)), Imp(V("x")), As("x", Ll("fs_copiar", <<N(401),
     N(402)>>)), Imp(V("x"))>>,
   espera |-> "<JSON_LISTA_OBTENER 11 12>7026\n<JSON_LISTA_TAMANO 21>7053\n<JSON_A_TEXTO 31>7075\n<JSON_A_ENTERO 41>7098\n<JSON_A_FLOTANTE 51>7123\n<JSON_A_BOOL 61>7144\n<JSON_TIPO 71>7163\n<BYTES_CREAR 81>7184\n<BYTES_TAMANO 91>7206\n<BYTES_OBTENER 101 102>7234\n<BYTES_PONER 111 112 113><BYTES_ANEXAR 121 122>7286\n<BYTES_SUBBYTES 131 132 133>7319\n<BYTES_DESDE_TEXTO 141>7347\n<BYTES_A_TEXTO 151>7371\n<BYTES_PUNTERO 161>7395\n<DNS_RESOLVER 171>7418\n<TCP_CONECTAR 181 182>7445\n<TCP_ESCUCHAR 191 192>7472\n<TCP_ACEPTAR 201>7494\n<TCP_ENVIAR 211 212>7519\n<TCP_RECIBIR 221 222>7545\n<TCP_CERRAR 231><TLS_CLIENTE 241 242>7587\n<TLS_SERVIDOR 251 252 253>7618\n<TLS_ENVIAR 261 262>7643\n<TLS_RECIBIR 271 272>7669\n<TLS_CERRAR 281><HEAP_LIBERAR 291><FFI_OBTENER_SIMBOLO 301 302>7737\n<FFI_LLAMAR 311 0>7760\n<FFI_LLAMAR 321 322 1>7787\n<FFI_LLAMAR 331 332 333 334 335 4>7826\n<MEM_ASOCIAR_CONCEPTOS 341 342 43><STR_FLOTANTE_PREC 351 2>7890\n<MEM_CREAR 361 0 0>7914\n<MEM_CERRAR><MEM_OBTENER_FUERZA 381 382>7959\n<FS_BORRAR 391>7979\n<FS_COPIAR 401 402>8003\n", acaba |-> "bien", mal |-> FALSE]

sistema4 ==
  [cls |-> <<>>, glob |-> <<>>, fun |-> <<>>,
   main |-> <<Dec0("elemento", "x"), As("x", Ll("fs_mover", <<N(11), N(12)>>)), Imp(V("x")), As("x",
     Ll("fs_tamano", <<N(21)>>)), Imp(V("x")), As("x", Ll("mem_obtener_relacion", <<N(31), N(32)>>)),
     Imp(V("x")), As("x", Ll("sistema_ejecutar", <<N(41)>>)), Imp(V("x")), As("x", Ll("sys_argc", <<>>)),
     Imp(V("x")), As("x", Ll("sys_argv", <<N(61)>>)), Imp(V("x"))>>,
   espera |-> "<FS_MOVER 11 12>7016\n<FS_TAMANO 21>7035\n<MEM_OBTENER_RELACION 31 32>7068\n<SYS_EXEC 41>7086\n<SYS_ARGC>7101\n<SYS_ARGV 61>7119\n", acaba |-> "bien", mal |-> FALSE]

aEnteroPoco == Malo(<<>>, <<>>, <<>>,
  << Imp(Ll("str_a_entero", <<>>))>>)

aridad == Malo(<<>>, <<>>, <<>>,
  << Imp(Ll("longitud", <<T("a"), T("b")>>))>>)

asigMiembroNada == Malo(<< Regi("R", <<>>, <<Ca("x1", "entero")>>, <<>>)>>, <<>>, <<>>,
  << Dec0("R", "r1"), AsM(Mi(V("r1"), "zz"), N(1))>>)

asigTexto == Malo(<<>>, <<>>, <<>>,
  << Dec("entero", "v1", N(1)), As("v1", T("a"))>>)

baseNada == Malo(<< Clas("C", <<"Nada">>, <<Ca("x1", "entero")>>, <<>>)>>, <<>>, <<>>,
  << Imp(N(1))>>)

campoPrivado == Malo(<< Clas("C", <<>>, <<CaPriv("x1", "entero")>>, << Func("mm", <<P("pp", "entero")>>,
  "entero", <<As("x1", V("pp"))>>)>>)>>, <<>>, <<>>,
  << Dec("C", "c1", Ll("C", <<>>)), Imp(Mi(V("c1"), "x1"))>>)

campoTexto == Malo(<< Regi("R", <<>>, <<Ca("x1", "entero")>>, <<>>)>>, <<>>, <<>>,
  << Dec0("R", "r1"), AsM(Mi(V("r1"), "x1"), T("a"))>>)

claseAridad == Malo(<< Clas("C", <<>>, <<Ca("x1", "entero")>>, << Func("inicializar", <<P("pp", "entero")>>,
  "entero", <<As("x1", V("pp"))>>)>>)>>, <<>>, <<>>,
  << Dec("C", "c1", Ll("C", <<N(1), N(2)>>))>>)

constante == Malo(<<>>, <<>>, <<>>,
  << Cte("entero", "kk", N(1)), As("kk", N(2))>>)

deNumeroPoco == Malo(<<>>, <<>>, <<>>,
  << Imp(Ll("str_desde_numero", <<>>))>>)

declara2 == Malo(<<>>, <<>>, <<>>,
  << Dec("entero", "v1", N(1)), Dec("entero", "v1", N(2))>>)

elementoLista == Malo(<<>>, <<>>, <<>>,
  << DecL("lista", "entero", "l", Li(<<N(1)>>)), Ex(Ll("lista_agregar", <<V("l"), T("a")>>))>>)

entreCero == Malo(<<>>, <<>>, <<>>,
  << Imp(B(N(4), "/", N(0)))>>)

forNoVar == Malo(<<>>, <<>>, <<>>,
  << Para(Dec("entero", "k1", N(0)), B(V("k1"), "<", N(3)), Po(V("zz"), 1), <<Imp(V("k1"))>>)>>)

globalDos == Malo(<<>>, <<Dec("entero", "gg", N(1)), Dec("entero", "gg", N(2))>>, <<>>,
  << Imp(V("gg"))>>)

globalTexto == Malo(<<>>, <<Dec("entero", "gg", T("a"))>>, <<>>,
  << Imp(V("gg"))>>)

imprimeFuncion == Malo(<<>>, <<>>, <<>>,
  << Dec("funcion", "f", Lam(<<P("n", "entero")>>, V("n"))), Imp(V("f"))>>)

interpFuncion == Malo(<<>>, <<>>, <<>>,
  << Dec("funcion", "f", Lam(<<P("n", "entero")>>, V("n"))), Imp(Inter(<<Tr("v "), V("f")>>))>>)

interpFuncion2 == Malo(<<>>, <<>>, <<>>,
  << Dec("funcion", "f", Lam(<<P("n", "entero")>>, V("n"))), Dec("texto", "t", Inter(<<Tr("v "),
    V("f")>>))>>)

leeConstante == Malo(<<>>, <<>>, <<>>,
  << Cte("texto", "kk", T("a")), Lee1("kk")>>)

liberarPoco == Malo(<<>>, <<>>, <<>>,
  << Ex(Ll("lista_liberar", <<>>))>>)

listaCero == Malo(<<>>, <<>>, <<>>,
  << Dec("lista", "l", Ll("lista_crear", <<N(0)>>))>>)

macroAridad == Malo(<<>>, <<>>, <<>>,
  << Dec("macro", "doblez", Lam(<<P("n", "entero")>>, B(V("n"), "*", N(2)))), Imp(Ll("doblez", <<N(1),
    N(2)>>))>>)

macroPrivado == Malo(<<>>, <<>>, <<>>,
  << Dec("funcion", "f", V("nada"))>>)

mapaPoco == Malo(<<>>, <<>>, <<>>,
  << Dec("mapa", "l", Ma(<<<<T("a"), N(1)>>>>)), Ex(Ll("mapa_poner", <<V("l"), T("a")>>))>>)

marcoMuyGrande == Malo(<< Regi("RA", <<>>, <<Ca("a1", "mat4"), Ca("a2", "mat4"), Ca("a3", "mat4"), Ca("a4",
  "mat4"), Ca("a5", "mat4"), Ca("a6", "mat4"), Ca("a7", "mat4"), Ca("a8", "mat4")>>, <<>>), Regi("RB", <<>>,
  <<Ca("a1", "RA"), Ca("a2", "RA"), Ca("a3", "RA"), Ca("a4", "RA"), Ca("a5", "RA"), Ca("a6", "RA"), Ca("a7",
  "RA"), Ca("a8", "RA")>>, <<>>), Regi("RC", <<>>, <<Ca("a1", "RB"), Ca("a2", "RB"), Ca("a3", "RB"),
  Ca("a4", "RB"), Ca("a5", "RB"), Ca("a6", "RB"), Ca("a7", "RB"), Ca("a8", "RB")>>, <<>>), Regi("RD", <<>>,
  <<Ca("a1", "RC"), Ca("a2", "RC"), Ca("a3", "RC"), Ca("a4", "RC"), Ca("a5", "RC"), Ca("a6", "RC"), Ca("a7",
  "RC"), Ca("a8", "RC")>>, <<>>)>>, <<>>, << Func("haz", <<>>, "entero", <<Dec0("RD", "v1"), Dec0("RD",
  "v2"), Dec0("RD", "v3"), Ret(<<N(1)>>)>>)>>,
  << Imp(Ll("haz", <<>>))>>)

matIdentidad == Malo(<<>>, <<>>, <<>>,
  << Ex(Ll("mat4_identidad", <<N(3)>>))>>)

metodoPrivado == Malo(<< Clas("C", <<>>, <<Ca("x1", "entero")>>, << MetPriv("mm", <<P("pp", "entero")>>,
  "entero", <<As("x1", V("pp"))>>)>>)>>, <<>>, <<>>,
  << Dec("C", "c1", Ll("C", <<>>)), Ex(Met(V("c1"), "mm", <<N(3)>>))>>)

miembroMet == Malo(<< Regi("R", <<>>, <<Ca("x1", "entero")>>, <<>>)>>, <<>>, <<>>,
  << Dec0("R", "r1"), Ex(Met(Mi(V("r1"), "zz"), "mm", <<>>))>>)

miembroNada == Malo(<<>>, <<>>, <<>>,
  << Dec("entero", "v1", N(1)), Imp(Mi(V("v1"), "zz"))>>)

moduloFlotante == Malo(<<>>, <<>>, <<>>,
  << Imp(B(F(4500), "%", F(2000)))>>)

noVar == Malo(<<>>, <<>>, <<>>,
  << Imp(V("zz"))>>)

noVarAsig == Malo(<<>>, <<>>, <<>>,
  << As("zz", N(1))>>)

obtenerPoco == Malo(<<>>, <<>>, <<>>,
  << Dec("lista", "l", Li(<<N(1)>>)), Imp(Ll("lista_obtener", <<V("l")>>))>>)

ponerPoco == Malo(<<>>, <<>>, <<>>,
  << Dec("lista", "l", Li(<<N(1)>>)), Ex(Ll("lista_poner", <<V("l"), N(1)>>))>>)

posfijoNada == Malo(<<>>, <<>>, <<>>,
  << Ex(Po(V("zz"), 1))>>)

privadoAsigna == Malo(<< Clas("C", <<>>, <<CaPriv("x1", "entero")>>, <<>>)>>, <<>>, <<>>,
  << Dec("C", "c1", Ll("C", <<>>)), AsM(Mi(V("c1"), "x1"), N(3))>>)

retornaFuera == Malo(<<>>, <<>>, <<>>,
  << Ret(<<N(1)>>)>>)

retornaTexto == Malo(<<>>, <<>>, << Func("f", <<>>, "entero", <<Ret(<<T("a")>>)>>)>>,
  << Imp(Ll("f", <<>>))>>)

romperFuera == Malo(<<>>, <<>>, <<>>,
  << Rompe>>)

seguirFuera == Malo(<<>>, <<>>, <<>>,
  << Sigue1>>)

sinFiltrar == Malo(<<>>, <<>>, <<>>,
  << Dec("lista", "l", Li(<<N(1)>>)), Dec("lista", "m", Ll("lista_filtrar", <<V("l"), V("nada")>>))>>)

sinFuncion == Malo(<<>>, <<>>, <<>>,
  << Imp(Ll("nada", <<N(1)>>))>>)

sinMapear == Malo(<<>>, <<>>, <<>>,
  << Dec("lista", "l", Li(<<N(1)>>)), Dec("lista", "m", Ll("lista_mapear", <<V("l"), V("nada")>>))>>)

sinSaltoFuncion == Malo(<<>>, <<>>, <<>>,
  << Dec("funcion", "f", Lam(<<P("n", "entero")>>, V("n"))), Ex(Ll("imprimir_sin_salto", <<V("f")>>))>>)

sueltaNada == Malo(<<>>, <<>>, <<>>,
  << Ex(Ll("nada", <<N(1)>>))>>)

tamanoPoco == Malo(<<>>, <<>>, <<>>,
  << Imp(Ll("lista_tamano", <<>>))>>)

textoMasTexto == Malo(<<>>, <<>>, <<>>,
  << Dec("entero", "v1", B(T("a"), "+", T("b")))>>)

tipoTexto == Malo(<<>>, <<>>, <<>>,
  << Dec("entero", "v1", T("a"))>>)

unLiteralFuncion == Malo(<<>>, <<>>, << Func("f", <<>>, "entero", <<Ret(<<N(1)>>)>>)>>,
  << Dec("entero", "v1", B(N(1), "+", V("f")))>>)

vecCampo == Malo(<< Regi("R", <<>>, <<Ca("x1", "vec2")>>, <<>>)>>, <<>>, <<>>,
  << Dec0("R", "r1"), AsM(Mi(V("r1"), "x1"), N(3))>>)

vecCruz == Malo(<<>>, <<>>, <<>>,
  << Ex(Ll("vec3_cross", <<N(1), N(2), N(3)>>))>>)

vecLongitud == Malo(<<>>, <<>>, <<>>,
  << Imp(Ll("vec2_longitud", <<N(3)>>))>>)

vecNormal == Malo(<<>>, <<>>, <<>>,
  << Ex(Ll("vec2_normalizar", <<N(1), N(2)>>))>>)

vecPunto == Malo(<<>>, <<>>, <<>>,
  << Imp(Ll("vec2_dot", <<N(1), N(2)>>))>>)

leeReservado == Malo(<<>>, <<>>, <<>>, <<Lee1("entero")>>)

paramReservado == Malo(<<>>, <<>>, <<Func("hace", <<P("texto", "entero")>>, "entero", <<Ret(<<N(1)>>)>>)>>, <<Imp(N(1))>>)

reservado == Malo(<<>>, <<>>, <<>>, <<Dec("entero", "si", N(1))>>)

caracterEntero == Malo(<<>>, <<>>, <<>>, <<Dec("entero", "x", Car(97))>>)

nuloEntero == Malo(<<>>, <<>>, <<>>, <<Dec("entero", "x", Nul)>>)

(* The programs whose code does what they say, and those that are refused. *)
Ejemplos ==
  <<funciones, aritmetica, busqueda, colapsos, control, intentar, manejo, largo, registros, subtexto,
    sumaimpresa, textos, clases, colecciones, vectores, varios, lam2, lambdas, inv, entrada, caracteres, fuera,
    conceptos, jjson, sistema1, sistema2, sistema3, sistema4, aEnteroPoco, aridad, asigMiembroNada,
    asigTexto, baseNada, campoPrivado, campoTexto, claseAridad, constante, deNumeroPoco, declara2,
    elementoLista, entreCero, forNoVar, globalDos, globalTexto, imprimeFuncion, interpFuncion,
    interpFuncion2, leeConstante, liberarPoco, listaCero, macroAridad, macroPrivado, mapaPoco,
    marcoMuyGrande, matIdentidad, metodoPrivado, miembroMet, miembroNada, moduloFlotante, noVar, noVarAsig,
    obtenerPoco, ponerPoco, posfijoNada, privadoAsigna, retornaFuera, retornaTexto, romperFuera,
    seguirFuera, sinFiltrar, sinFuncion, sinMapear, sinSaltoFuncion, sueltaNada, tamanoPoco, textoMasTexto,
    tipoTexto, unLiteralFuncion, vecCampo, vecCruz, vecLongitud, vecNormal, vecPunto, leeReservado,
    paramReservado, reservado, caracterEntero, nuloEntero>>
================================================================================
