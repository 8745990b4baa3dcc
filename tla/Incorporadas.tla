------------------------------ MODULE Incorporadas ------------------------------
(***************************************************************************)
(* The calls of the language itself (visit_call_sistema of codegen.c), as  *)
(* tables.  An entry says which names it serves, how many arguments it     *)
(* needs, the register each argument is evaluated in, the instruction that *)
(* does the work and where its result is.  A register is a number, or      *)
(* D(k): k after the register the caller wants the result in.  Arguments   *)
(* stay in their registers while the next ones are evaluated.              *)
(*                                                                         *)
(* What most of these instructions do is outside the compiler: they are    *)
(* SISTEMA instructions, that carry the name of the operation and the      *)
(* registers and literals it is given.  The ones on texts, lists, maps and *)
(* numbers are instructions of the machine.                                *)
(***************************************************************************)
EXTENDS Generador

D(k) == 1000 + k
Real(r, k) == IF k >= 1000 THEN r + k - 1000 ELSE k

CUALQUIERA == 99   \* more arguments are accepted and not looked at

(* An operation of the machine on three operands. *)
Maq(ns, min, max, en, op, o) ==
  [n |-> ns, min |-> min, max |-> max, en |-> en, falta |-> <<>>, op |-> op, o |-> o,
   deja |-> D(0), res |-> FALSE, fuera |-> FALSE, lit |-> <<>>]

(* An operation outside the machine; its result, if any, is left in deja. *)
Sis(ns, min, max, en, op, deja) ==
  [n |-> ns, min |-> min, max |-> max, en |-> en, falta |-> <<>>, op |-> op, o |-> <<0, 0, 0>>,
   deja |-> deja, res |-> FALSE, fuera |-> TRUE, lit |-> <<>>]

Con(d, falta) == [d EXCEPT !.falta = falta]    \* values for the arguments left out
YResultado(d) == [d EXCEPT !.res = TRUE]       \* the result goes to resultado as well
SIN == 0                                       \* no result

(* An argument that is a literal number goes in the instruction, kept between
   two bounds. *)
ConLiteral(d, k, min, max) == [d EXCEPT !.lit = <<k, min, max>>]

(***************************************************************************)
(* The tables, in the order of the source                                  *)
(***************************************************************************)
TextosUno == {
  Maq({"concatenar"}, 2, 2, <<D(1), D(2)>>, "STR_CONCAT", <<D(0), D(1), D(2)>>),
  Maq({"longitud", "longitud_texto"}, 1, 1, <<D(0)>>, "STR_LONGITUD", <<D(0), D(0), 0>>),
  Maq({"dividir", "dividir_texto", "segmentar_palabras", "palabras_de"}, 2, 2, <<D(0), D(1)>>,
      "STR_DIVIDIR", <<D(0), D(0), D(1)>>),
  Maq({"buscar_en_texto", "contiene_texto"}, 2, 2, <<D(1), D(2)>>,
      "CONTIENE_TEXTO", <<D(0), D(1), D(2)>>),
  Maq({"termina_con"}, 2, 2, <<D(1), D(2)>>, "TERMINA_CON", <<D(0), D(1), D(2)>>),
  Con(Maq({"extraer_subtexto"}, 2, 3, <<D(1), D(2), D(3)>>, "STR_SUBTEXTO", <<D(0), D(1), D(2)>>),
      <<65535>>) }

TextosDos == {
  Maq({"extraer_antes_de"}, 2, 2, <<D(1), D(2)>>, "STR_ANTES", <<D(0), D(1), D(2)>>),
  Maq({"extraer_despues_de"}, 2, 2, <<D(1), D(2)>>, "STR_DESPUES", <<D(0), D(1), D(2)>>),
  Maq({"copiar_texto", "str_copiar"}, 1, 1, <<D(1)>>, "MOVER", <<D(0), D(1), 0>>),
  Sis({"str_minusculas", "minusculas"}, 1, 1, <<D(0)>>, "STR_MINUSCULAS", D(0)),
  Sis({"str_mayusculas", "mayusculas"}, 1, 1, <<D(0)>>, "STR_MAYUSCULAS", D(0)),
  Maq({"str_extraer_caracter"}, 2, CUALQUIERA, <<D(0), D(1)>>, "STR_CARACTER", <<D(0), D(0), D(1)>>),
  Sis({"codigo_caracter"}, 1, CUALQUIERA, <<D(1)>>, "STR_CODIGO_CARACTER", D(0)),
  Sis({"caracter_a_texto"}, 1, CUALQUIERA, <<D(1)>>, "STR_DESDE_CODIGO", D(0)),
  Maq({"byte_a_caracter", "caracter_a_byte"}, 1, CUALQUIERA, <<D(1)>>, "MOVER", <<D(0), D(1), 0>>) }

Funcional == {
  Sis({"sin"}, 1, 1, <<D(1)>>, "SIN", D(0)),
  Sis({"cos"}, 1, 1, <<D(1)>>, "COS", D(0)),
  Sis({"tan"}, 1, 1, <<D(1)>>, "TAN", D(0)),
  Sis({"atan2", "arcotangente2"}, 2, 2, <<D(1), D(2)>>, "ATAN2", D(0)),
  Sis({"exp"}, 1, 1, <<D(1)>>, "EXP", D(0)),
  Sis({"log"}, 1, 1, <<D(1)>>, "LOG", D(0)),
  Sis({"log10"}, 1, 1, <<D(1)>>, "LOG10", D(0)),
  Sis({"nativo_mlp_entrenar"}, 7, 7, <<40, 41, 42, 43, 44, 45, 46>>, "ANALITICA_MLP_FIT", D(0)) }

Aprendizaje == {
  Sis({"aprender", "aprender_peso"}, 2, CUALQUIERA, <<1, 2>>, "MEM_APRENDER_PESO_REG", SIN),
  Sis({"reforzar"}, 1, CUALQUIERA, <<D(1)>>, "MEM_REFORZAR_CONCEPTO", SIN),
  Sis({"penalizar"}, 1, CUALQUIERA, <<D(1)>>, "MEM_PENALIZAR_CONCEPTO", SIN),
  Sis({"decae_conexiones", "decaer_conexiones"}, 0, CUALQUIERA, <<>>, "MEM_DECAE_CONEXIONES", D(0)),
  Sis({"consolidar_memoria", "dormir", "consolidar"}, 0, 0, <<>>, "MEM_CONSOLIDAR_SUENO", D(0)),
  Sis({"olvidar_debiles"}, 0, CUALQUIERA, <<>>, "MEM_OLVIDAR_DEBILES", D(0)),
  Sis({"ventana_percepcion", "flujo_temporal"}, 0, CUALQUIERA, <<>>, "PERCEPCION_VENTANA", D(0)),
  Sis({"percepcion"}, 1, CUALQUIERA, <<1>>, "PERCEPCION_REGISTRAR", SIN),
  Sis({"percepcion_limpiar"}, 0, CUALQUIERA, <<>>, "PERCEPCION_LIMPIAR", SIN),
  Sis({"percepcion_tamano"}, 0, CUALQUIERA, <<>>, "PERCEPCION_TAMANO", D(0)),
  ConLiteral(Sis({"percepcion_anterior"}, 1, CUALQUIERA, <<D(1)>>, "PERCEPCION_ANTERIOR", D(0)), 1, 0, 255),
  Sis({"percepcion_recientes"}, 0, CUALQUIERA, <<>>, "PERCEPCION_LISTA", D(0)),
  Sis({"ventana_rastro_activacion", "rastro_activacion_ventana"}, 0, CUALQUIERA, <<>>,
      "RASTRO_ACTIVACION_VENTANA", D(0)),
  Sis({"rastro_activacion_limpiar"}, 0, CUALQUIERA, <<>>, "RASTRO_ACTIVACION_LIMPIAR", SIN),
  Sis({"rastro_activacion_tamano"}, 0, CUALQUIERA, <<>>, "RASTRO_ACTIVACION_TAMANO", D(0)),
  ConLiteral(Sis({"rastro_activacion_obtener"}, 1, CUALQUIERA, <<D(1)>>, "RASTRO_ACTIVACION_OBTENER", D(0)),
             1, 0, 255),
  ConLiteral(Sis({"rastro_activacion_peso"}, 1, CUALQUIERA, <<D(1)>>, "RASTRO_ACTIVACION_PESO", D(0)),
             1, 0, 255),
  Sis({"rastro_activacion_lista", "rastro_activacion_recientes"}, 0, CUALQUIERA, <<>>,
      "RASTRO_ACTIVACION_LISTA", D(0)) }

Pensamiento == {
  YResultado(Sis({"propagar_activacion", "propagar_activacion_de"}, 1, CUALQUIERA, <<D(2)>>,
                 "MEM_PROPAGAR_ACTIVACION", D(1))),
  YResultado(Sis({"elegir_por_peso", "elegir_por_peso_segun"}, 2, CUALQUIERA, <<D(2), D(3)>>,
                 "MEM_ELEGIR_POR_PESO_IDX", D(1))),
  YResultado(Sis({"elegir_por_peso_id"}, 2, CUALQUIERA, <<D(2), D(3)>>, "MEM_ELEGIR_POR_PESO_ID", D(1))),
  YResultado(Sis({"elegir_por_peso_semilla", "elegir_por_peso_seed"}, 1, CUALQUIERA, <<D(2)>>,
                 "MEM_ELEGIR_POR_PESO_SEMILLA", D(1))),
  YResultado(Sis({"pensar"}, 1, CUALQUIERA, <<D(2)>>, "MEM_PENSAR", D(1))),
  YResultado(Sis({"pensar_respuesta"}, 1, CUALQUIERA, <<D(2)>>, "MEM_PENSAR_RESPUESTA", D(1))),
  Sis({"asociar_relacion"}, 3, CUALQUIERA, <<1, 2, 3>>, "MEM_ASOCIAR_RELACION", SIN),
  Sis({"corregir_secuencia"}, 2, CUALQUIERA, <<1, 2>>, "MEM_CORREGIR_SECUENCIA", SIN),
  Sis({"comparar_patrones"}, 2, CUALQUIERA, <<1, 2>>, "MEM_COMPARAR_PATRONES", D(0)) }

Recuerdos == {
  YResultado(Sis({"buscar"}, 1, CUALQUIERA, <<1>>, "MEM_OBTENER_VALOR", 1)),
  YResultado(Sis({"buscar_en_memoria", "buscar_introspectiva"}, 1, CUALQUIERA, <<1>>,
                 "MEM_BUSCAR_INTROSPECTIVA", D(0))),
  YResultado(ConLiteral(Sis({"buscar_en_memoria_lista"}, 2, CUALQUIERA, <<10, 11>>,
                            "MEM_BUSCAR_INTROSPECTIVA_LISTA", 1), 2, 1, 100)),
  YResultado(ConLiteral(Sis({"buscar_en_memoria_cs"}, 2, CUALQUIERA, <<10, 11>>,
                            "MEM_BUSCAR_INTROSPECTIVA_CS", 1), 2, 0, 1)),
  YResultado(Sis({"buscar_en_memoria_detallada"}, 2, CUALQUIERA, <<10>>,
                 "MEM_BUSCAR_INTROSPECTIVA_DETALLADA", 1)),
  Sis({"procesar_texto"}, 1, CUALQUIERA, <<D(0)>>, "MEM_PROCESAR_TEXTO", D(0)),
  Sis({"obtener_relacionados"}, 1, CUALQUIERA, <<1>>, "MEM_OBTENER_RELACIONADOS", 1),
  Sis({"es_variable_sistema"}, 1, CUALQUIERA, <<1>>, "MEM_ES_VARIABLE_SISTEMA", 1),
  Sis({"obtener_todos_conceptos"}, 0, CUALQUIERA, <<>>, "MEM_OBTENER_TODOS", 1) }

Asociaciones == {
  Sis({"registrar_patron"}, 1, CUALQUIERA, <<D(0)>>, "MEM_REGISTRAR_PATRON", D(0)),
  Sis({"asociar_secuencia"}, 2, CUALQUIERA, <<1, 2>>, "STR_ASOCIAR_SECUENCIA", 1),
  Sis({"pensar_siguiente"}, 1, CUALQUIERA, <<10>>, "MEM_PENSAR_SIGUIENTE", D(0)),
  Sis({"pensar_anterior"}, 1, CUALQUIERA, <<10>>, "MEM_PENSAR_ANTERIOR", D(0)),
  YResultado(Con(Sis({"buscar_asociados", "asociados_de"}, 1, CUALQUIERA, <<10, 11>>,
                     "MEM_BUSCAR_ASOCIADOS", 1), <<0>>)),
  YResultado(Con(Sis({"buscar_asociados_lista", "asociados_lista_de"}, 2, CUALQUIERA, <<10, 11, 12>>,
                     "MEM_BUSCAR_ASOCIADOS_LISTA", 1), <<1>>)) }

Consola == {
  Sis({"leer_entrada"}, 0, CUALQUIERA, <<>>, "IO_INPUT_REG", D(0)),
  Sis({"percibir_teclado"}, 0, CUALQUIERA, <<>>, "IO_PERCIBIR_TECLADO", D(0)),
  Sis({"ingreso_inmediato"}, 0, CUALQUIERA, <<>>, "IO_PERCIBIR_TECLADO", D(0)),
  Sis({"entrada_flotante"}, 0, 0, <<>>, "IO_ENTRADA_FLOTANTE", D(0)),
  Sis({"limpiar_consola"}, 0, CUALQUIERA, <<>>, "LIMPIAR_CONSOLA", SIN),
  Sis({"pausa"}, 0, 1, <<1>>, "IO_PAUSA", SIN),
  Sis({"ahora", "obtener_ahora", "obtener_timestamp"}, 0, CUALQUIERA, <<>>, "SYS_TIMESTAMP", D(0)),
  Sis({"formatear_timestamp"}, 2, 2, <<D(1), D(2)>>, "STR_FORMATEAR_TIMESTAMP", D(0)),
  Sis({"pausa_milisegundos", "esperar_milisegundos"}, 1, 1, <<D(1)>>, "PAUSA_MILISEGUNDOS", D(0)),
  Maq({"diferencia_en_segundos"}, 2, CUALQUIERA, <<D(1), D(2)>>, "RESTAR", <<D(0), D(2), D(1)>>) }

Archivos == {
  Con(Sis({"abrir_archivo", "fs_abrir"}, 1, CUALQUIERA, <<D(0), D(1)>>, "FS_ABRIR", D(0)), <<0>>),
  Sis({"cerrar_archivo", "fs_cerrar"}, 0, CUALQUIERA, <<D(0)>>, "FS_CERRAR", SIN),
  Sis({"leer_linea_archivo", "fs_leer_linea"}, 0, CUALQUIERA, <<D(1)>>, "FS_LEER_LINEA", D(0)),
  Sis({"escribir_archivo", "fs_escribir"}, 1, CUALQUIERA, <<1, 2>>, "FS_ESCRIBIR", SIN),
  Sis({"fin_archivo"}, 0, CUALQUIERA, <<D(1)>>, "FS_FIN_ARCHIVO", D(0)),
  Sis({"existe_archivo"}, 1, CUALQUIERA, <<D(1)>>, "FS_EXISTE", D(0)),
  Sis({"listar_archivos", "fs_listar"}, 1, CUALQUIERA, <<1>>, "FS_LISTAR", 1),
  Sis({"fs_leer_byte"}, 0, CUALQUIERA, <<D(1)>>, "FS_LEER_BYTE", D(0)),
  Sis({"fs_escribir_byte"}, 1, CUALQUIERA, <<D(0), D(1)>>, "FS_ESCRIBIR_BYTE", SIN),
  Sis({"fs_leer_texto"}, 1, CUALQUIERA, <<1>>, "FS_LEER_TEXTO", D(0)) }

Json == {
  Sis({"json_parse"}, 1, CUALQUIERA, <<1>>, "JSON_PARSE", D(0)),
  Sis({"json_stringify"}, 1, 2, <<1, 2>>, "JSON_STRINGIFY", D(0)),
  Sis({"json_objeto_obtener"}, 2, CUALQUIERA, <<1, 2>>, "JSON_OBJETO_OBTENER", D(0)),
  Sis({"json_lista_obtener"}, 2, CUALQUIERA, <<1, 2>>, "JSON_LISTA_OBTENER", D(0)),
  Sis({"json_lista_tamano"}, 1, CUALQUIERA, <<1>>, "JSON_LISTA_TAMANO", D(0)),
  Sis({"json_a_texto"}, 1, CUALQUIERA, <<1>>, "JSON_A_TEXTO", D(0)),
  Sis({"json_a_entero"}, 1, CUALQUIERA, <<1>>, "JSON_A_ENTERO", D(0)),
  Sis({"json_a_flotante"}, 1, CUALQUIERA, <<1>>, "JSON_A_FLOTANTE", D(0)),
  Sis({"json_a_bool"}, 1, CUALQUIERA, <<1>>, "JSON_A_BOOL", D(0)),
  Sis({"json_tipo"}, 1, CUALQUIERA, <<1>>, "JSON_TIPO", D(0)) }

Octetos == {
  Sis({"bytes_crear"}, 1, CUALQUIERA, <<1>>, "BYTES_CREAR", D(0)),
  Sis({"bytes_tamano"}, 1, CUALQUIERA, <<1>>, "BYTES_TAMANO", D(0)),
  Sis({"bytes_obtener"}, 2, CUALQUIERA, <<1, 2>>, "BYTES_OBTENER", D(0)),
  Sis({"bytes_poner"}, 3, CUALQUIERA, <<1, 2, 3>>, "BYTES_PONER", SIN),
  Sis({"bytes_anexar"}, 2, CUALQUIERA, <<1, 2>>, "BYTES_ANEXAR", D(0)),
  Sis({"bytes_subbytes"}, 3, CUALQUIERA, <<1, 2, 3>>, "BYTES_SUBBYTES", D(0)),
  Sis({"bytes_desde_texto"}, 1, CUALQUIERA, <<1>>, "BYTES_DESDE_TEXTO", D(0)),
  Sis({"bytes_a_texto"}, 1, CUALQUIERA, <<1>>, "BYTES_A_TEXTO", D(0)),
  Sis({"bytes_puntero"}, 1, CUALQUIERA, <<1>>, "BYTES_PUNTERO", D(0)) }

Red == {
  Sis({"dns_resolver"}, 1, CUALQUIERA, <<1>>, "DNS_RESOLVER", D(0)),
  Sis({"tcp_conectar"}, 2, CUALQUIERA, <<1, 2>>, "TCP_CONECTAR", D(0)),
  Sis({"tcp_escuchar"}, 2, CUALQUIERA, <<1, 2>>, "TCP_ESCUCHAR", D(0)),
  Sis({"tcp_aceptar"}, 1, CUALQUIERA, <<1>>, "TCP_ACEPTAR", D(0)),
  Sis({"tcp_enviar"}, 2, CUALQUIERA, <<1, 2>>, "TCP_ENVIAR", D(0)),
  Sis({"tcp_recibir"}, 2, CUALQUIERA, <<1, 2>>, "TCP_RECIBIR", D(0)),
  Sis({"tcp_cerrar"}, 1, CUALQUIERA, <<1>>, "TCP_CERRAR", SIN),
  Sis({"tls_cliente"}, 2, CUALQUIERA, <<1, 2>>, "TLS_CLIENTE", D(0)),
  Sis({"tls_servidor"}, 3, CUALQUIERA, <<1, 2, 3>>, "TLS_SERVIDOR", D(0)),
  Sis({"tls_enviar"}, 2, CUALQUIERA, <<1, 2>>, "TLS_ENVIAR", D(0)),
  Sis({"tls_recibir"}, 2, CUALQUIERA, <<1, 2>>, "TLS_RECIBIR", D(0)),
  Sis({"tls_cerrar"}, 1, CUALQUIERA, <<1>>, "TLS_CERRAR", SIN) }

Ajenas == {
  Maq({"reservar"}, 1, CUALQUIERA, <<1>>, "RESERVAR_MEMORIA", <<D(0), 1, 0>>),
  Sis({"liberar"}, 1, CUALQUIERA, <<1>>, "HEAP_LIBERAR", SIN),
  Sis({"ffi_simbolo"}, 2, CUALQUIERA, <<D(1), D(2)>>, "FFI_OBTENER_SIMBOLO", D(0)),
  Sis({"ffi_llamar"}, 1, CUALQUIERA, <<2, 3, 4, 5, 6>>, "FFI_LLAMAR", D(0)) }

Colecciones == {
  Maq({"lista_limpiar", "mem_lista_limpiar"}, 1, CUALQUIERA, <<1>>, "LISTA_LIMPIAR", <<1, 1, 0>>),
  Maq({"mapa_crear"}, 0, CUALQUIERA, <<>>, "MAPA_CREAR", <<D(0), 0, 0>>),
  Maq({"mapa_obtener"}, 2, CUALQUIERA, <<D(1), D(2)>>, "MAPA_OBTENER", <<D(0), D(1), D(2)>>),
  Maq({"mapa_eliminar"}, 2, CUALQUIERA, <<1, 2>>, "MAPA_BORRAR", <<1, 2, 0>>),
  Maq({"mapa_tamano"}, 1, CUALQUIERA, <<1>>, "MAPA_TAMANO", <<D(0), 1, 0>>),
  Maq({"mapa_contiene"}, 2, CUALQUIERA, <<1, 2>>, "MAPA_CONTIENE", <<D(0), 1, 2>>) }

Asocia == ConLiteral(Sis({"mem_asociar"}, 3, CUALQUIERA, <<D(1), D(2), D(3)>>, "MEM_ASOCIAR_CONCEPTOS", SIN),
                     3, 1, 100)
Decimal == ConLiteral(Sis({"decimal"}, 2, CUALQUIERA, <<1, 2>>, "STR_FLOTANTE_PREC", D(0)), 2, 0, 20)

Ficheros == {
  Con(Sis({"mem_crear", "abrir_memoria", "crear_memoria"}, 1, CUALQUIERA, <<1, 2, 3>>, "MEM_CREAR", 1),
      <<0, 0>>),
  Sis({"mem_cerrar", "cerrar_memoria"}, 0, CUALQUIERA, <<>>, "MEM_CERRAR", SIN),
  Sis({"tiene_asociacion", "mem_obtener_fuerza"}, 2, CUALQUIERA, <<1, 2>>, "MEM_OBTENER_FUERZA", D(0)),
  Sis({"fs_borrar"}, 1, CUALQUIERA, <<1>>, "FS_BORRAR", D(0)),
  Sis({"fs_copiar"}, 2, CUALQUIERA, <<1, 2>>, "FS_COPIAR", D(0)),
  Sis({"fs_mover"}, 2, CUALQUIERA, <<1, 2>>, "FS_MOVER", D(0)),
  Sis({"fs_tamano"}, 1, CUALQUIERA, <<1>>, "FS_TAMANO", D(0)),
  Sis({"mem_obtener_relacion"}, 2, CUALQUIERA, <<1, 2>>, "MEM_OBTENER_RELACION", D(0)),
  Sis({"sistema_ejecutar"}, 1, CUALQUIERA, <<1>>, "SYS_EXEC", D(0)),
  Sis({"sys_argc"}, 0, CUALQUIERA, <<>>, "SYS_ARGC", D(0)),
  Sis({"sys_argv"}, 1, CUALQUIERA, <<D(1)>>, "SYS_ARGV", D(0)) }

Salidas == {
  Maq({"imprimir_id"}, 1, CUALQUIERA, <<D(1)>>, "IMPRIMIR_ID", <<D(1), 0, 0>>),
  Maq({"obtener_nombre_concepto"}, 1, CUALQUIERA, <<D(1)>>, "MOVER", <<D(0), D(1), 0>>),
  Maq({"imprimir_flotante"}, 1, CUALQUIERA, <<D(1)>>, "IMPRIMIR_FLOTANTE", <<D(1), 0, 0>>),
  Maq({"bit_shl"}, 2, 2, <<D(0), D(1)>>, "BIT_SHL", <<D(0), D(0), D(1)>>),
  Maq({"bit_shr"}, 2, 2, <<D(0), D(1)>>, "BIT_SHR", <<D(0), D(0), D(1)>>) }

Tabla == UNION {TextosUno, TextosDos, Funcional, Aprendizaje, Pensamiento, Recuerdos, Asociaciones,
                Consola, Archivos, Json, Octetos, Red, Ajenas, Colecciones, {Asocia}, Ficheros,
                {Decimal}, Salidas}
EnTabla(n) == {d \in Tabla : n \in d.n}

(***************************************************************************)
(* A call in the tables                                                    *)
(***************************************************************************)
Entre(v, min, max) == IF v < min THEN min ELSE IF v > max THEN max ELSE v
LiteralEn(as, k) == k \in DOMAIN as /\ as[k].k = "num"
LiteralEntre(as, k, min, max, otro) == IF LiteralEn(as, k) THEN Entre(as[k].v, min, max) ELSE otro

(* What an instruction is given that is not an argument. *)
Fijos(d, n, as) ==
  CASE d.op \in {"MEM_REFORZAR_CONCEPTO", "MEM_PENALIZAR_CONCEPTO"} -> <<LiteralEntre(as, 2, 1, 100, 10)>>
    [] d.op \in {"MEM_DECAE_CONEXIONES", "MEM_CONSOLIDAR_SUENO"} -> <<5, 10>>
    [] d.op = "MEM_OLVIDAR_DEBILES" -> <<0, 10>>
    [] d.op = "PERCEPCION_VENTANA" -> <<LiteralEntre(as, 1, 8, 4096, 64)>>
    [] d.op = "RASTRO_ACTIVACION_VENTANA" -> <<LiteralEntre(as, 1, 16, 2048, 128)>>
    [] d.op = "MEM_PROPAGAR_ACTIVACION" ->
         <<3 * 65536 + 8 * 256 + IF n = "propagar_activacion_de" /\ LiteralEn(as, 2) /\ as[2].v \in 0..10
                                 THEN as[2].v ELSE 0>>
    [] d.op = "MEM_PENSAR" -> <<2>>
    [] d.op = "MEM_BUSCAR_INTROSPECTIVA_DETALLADA" ->
         <<LiteralEntre(as, 2, 1, 100, 10) + 256 * LiteralEntre(as, 3, 0, 1, 0)>>
    [] d.op = "FFI_LLAMAR" -> <<IF Len(as) > 5 THEN 4 ELSE Len(as) - 1>>
    [] OTHER -> <<>>

(* The arguments that are evaluated, each in its register. *)
Evaluados(d, as) ==
  {k \in 1..(IF Len(as) < Len(d.en) THEN Len(as) ELSE Len(d.en)) :
     ~(d.lit # <<>> /\ d.lit[1] = k /\ LiteralEn(as, k))}

Aceptada(d, as) == Len(as) >= d.min /\ (d.max = CUALQUIERA \/ Len(as) <= d.max)

InstruccionSistema(d, n, as, r) ==
  [op |-> "SISTEMA", a |-> Real(r, d.deja), b |-> 0, c |-> 0, s |-> d.op,
   lee |-> [k \in 1..(IF d.falta # <<>> \/ Len(as) > Len(d.en) THEN Len(d.en) ELSE Len(as)) |->
              IF k \in DOMAIN as /\ k \notin Evaluados(d, as)
              THEN [reg |-> FALSE, v |-> Entre(as[k].v, d.lit[2], d.lit[3])]
              ELSE [reg |-> TRUE, v |-> Real(r, d.en[k])]]
           \o [k \in DOMAIN Fijos(d, n, as) |-> [reg |-> FALSE, v |-> Fijos(d, n, as)[k]]]]

VisitaDeTabla(g, e, r, d) ==
  LET o == [k \in 1..3 |-> Real(r, d.o[k])]
      deja == Real(r, d.deja)
      argumento(k) == IF k \in Evaluados(d, e.as) THEN <<Expr(e.as[k], Real(r, d.en[k]))>>
                      ELSE IF k > Len(e.as) /\ d.falta # <<>>
                      THEN <<Pon(I("MOVERI", Real(r, d.en[k]), d.falta[k - d.min], 0))>>
                      ELSE <<>>
  IN IF ~Aceptada(d, e.as) THEN Rechaza(g)
     ELSE Luego(g, Por(d.en, argumento)
            \o <<Pon(IF d.fuera THEN InstruccionSistema(d, e.n, e.as, r) ELSE I(d.op, o[1], o[2], o[3]))>>
            \o (IF d.res THEN PonTodo(EscribirVar(Busca(g, "resultado"), deja)) ELSE <<>>)
            \o (IF d.deja = SIN THEN <<>> ELSE <<Pon(I("MOVER", r, deja, 0))>>))

VisitaTabla(g, e, r) == VisitaDeTabla(g, e, r, CHOOSE d \in EnTabla(e.n) : TRUE)

(***************************************************************************)
(* Vectors and matrices: the arguments are variables, taken by address     *)
(***************************************************************************)
VariablesTodas(g, as, n) == Len(as) = n /\ \A k \in 1..n : as[k].k = "var" /\ Declarado(g, as[k].n)
Celda(g, e, i) == Busca(g, e.n).dir + 8 * i
LeerCelda(g, r, e, i) == LeerU24(r, Celda(g, e, i), Busca(g, e.n).rel)
EscribirCelda(g, e, i, r) == EscribirU24(Celda(g, e, i), r, Busca(g, e.n).rel)
LeerCorta(g, r, e, i) == <<I("LEER", r, Celda(g, e, i) % 65536, IF Busca(g, e.n).rel THEN 1 ELSE 0)>>

Longitudes == {"vec2_longitud", "vec3_longitud", "vec4_longitud"}
Normales == {"vec2_normalizar", "vec3_normalizar", "vec4_normalizar"}
Productos == {"vec2_dot", "vec3_dot", "vec4_dot"}
DimensionVector(n) ==
  IF n \in {"vec2_longitud", "vec2_normalizar", "vec2_dot"} THEN 2
  ELSE IF n \in {"vec3_longitud", "vec3_normalizar", "vec3_dot"} THEN 3 ELSE 4

(* The sum of the squares of the components, in r1. *)
SumaCuadrados(g, e, n, r1, r2) ==
  LeerCorta(g, r1, e, 0) \o <<I("MULTIPLICAR_FLT", r1, r1, r1)>>
  \o Por([k \in 1..n-1 |-> k], LAMBDA k : LeerCorta(g, r2, e, k)
           \o <<I("MULTIPLICAR_FLT", r2, r2, r2), I("SUMAR_FLT", r1, r1, r2)>>)

VisitaLongitud(g, e, r) ==
  IF ~VariablesTodas(g, e.as, 1) THEN Rechaza(g)
  ELSE Luego(g, PonTodo(SumaCuadrados(g, e.as[1], DimensionVector(e.n), r + 1, r + 2)
                        \o <<I("RAIZ", r, r + 1, 0)>>))

VisitaNormal(g, e, r) ==
  LET n == DimensionVector(e.n) IN
  IF ~VariablesTodas(g, e.as, 2) THEN Rechaza(g)
  ELSE Luego(g, PonTodo(SumaCuadrados(g, e.as[2], n, r + 1, r + 2) \o <<I("RAIZ", r + 2, r + 1, 0)>>
         \o Por([k \in 1..n |-> k], LAMBDA k : LeerCelda(g, 1, e.as[2], k - 1)
              \o <<I("DIVIDIR_FLT", 1, 1, 2)>> \o EscribirCelda(g, e.as[1], k - 1, 1))))

VisitaProducto(g, e, r) ==
  IF ~VariablesTodas(g, e.as, 2) THEN Rechaza(g)
  ELSE Luego(g, PonTodo(Por([k \in 1..DimensionVector(e.n) |-> k], LAMBDA k :
              LeerCelda(g, 1, e.as[1], k - 1) \o LeerCelda(g, 2, e.as[2], k - 1)
              \o (IF k = 1 THEN <<I("MULTIPLICAR_FLT", 4, 1, 2)>>
                  ELSE <<I("MULTIPLICAR_FLT", 1, 1, 2), I("SUMAR_FLT", 4, 4, 1)>>))
            \o <<I("MOVER", r, 4, 0)>>))

VisitaCruz(g, e, r) ==
  IF ~VariablesTodas(g, e.as, 3) THEN Rechaza(g)
  ELSE Luego(g, PonTodo(Por([k \in 1..3 |-> k - 1], LAMBDA k :
              LET i == k - 1
                  j == (i + 1) % 3
                  m == (i + 2) % 3
              IN LeerCelda(g, 1, e.as[2], j) \o LeerCelda(g, 2, e.as[3], m)
                 \o <<I("MULTIPLICAR_FLT", 3, 1, 2)>>
                 \o LeerCelda(g, 1, e.as[2], m) \o LeerCelda(g, 2, e.as[3], j)
                 \o <<I("MULTIPLICAR_FLT", 1, 1, 2), I("RESTAR_FLT", 1, 3, 1)>>
                 \o EscribirCelda(g, e.as[1], i, 1))))

(* name -> the instruction and how many variables it takes *)
MatricesCuatro ==
  ("mat4_mul_vec4" :> <<"MAT4_MUL_VEC4", 3>>) @@ ("mat4_mul" :> <<"MAT4_MUL", 3>>) @@
  ("mat4_identidad" :> <<"MAT4_IDENTIDAD", 1>>) @@ ("mat4_transpuesta" :> <<"MAT4_TRANSPUESTA", 2>>)
MatricesTres ==
  ("mat3_mul_vec3" :> <<"MAT3_MUL_VEC3", 3>>) @@ ("mat3_mul" :> <<"MAT3_MUL", 3>>)
Matrices == MatricesCuatro @@ MatricesTres

(* The addresses go in registers 1, 3 and 4, with 2 for the frame offset. *)
CargarDireccion(g, r, e) ==
  LET v == Busca(g, e.n) IN
  IF v.rel THEN <<I("GET_FP", r, 0, 0), I("MOVERI", 2, v.dir % 65536, 0), I("SUMAR", r, r, 2)>>
  ELSE <<I("MOVERI", r, v.dir % 65536, 0)>>

VisitaMatriz(g, e, r) ==
  LET en == <<1, 3, 4>>
      m == Matrices[e.n]
  IN IF ~VariablesTodas(g, e.as, m[2]) THEN Rechaza(g)
     ELSE Luego(g, PonTodo(Por(e.as, LAMBDA k : CargarDireccion(g, en[k], e.as[k]))
                           \o <<I(m[1], 1, 3, 4)>>))

(***************************************************************************)
(* Lists and maps                                                          *)
(***************************************************************************)
CrearLista == {"crear_lista", "mem_lista_crear", "lista_crear"}

(* A list of no name is given a fresh id; a literal 0 is refused, since the
   machine would take it for no id. *)
VisitaCrearLista(g, e, r) ==
  IF Len(e.as) > 1 \/ (Len(e.as) = 1 /\ e.as[1].k = "num" /\ e.as[1].v = 0) THEN Rechaza(g)
  ELSE Luego(g, IF e.as = <<>> THEN PonTodo(<<I("MOVERI", r, 0, 0), I("LISTA_CREAR", r, r, 0)>>)
                ELSE <<Expr(e.as[1], r), Pon(I("LISTA_CREAR", r, r, 0))>>)

ElementoAceptado(g, lista, valor) ==
  lista.k = "var" /\ BuscaElemento(g, lista.n) # NADA => BuscaElemento(g, lista.n) = Tipo(g, valor)

(* The list waits in the frame while the value is evaluated. *)
VisitaAgregar(g, e, r) ==
  IF Len(e.as) < 2 \/ ~ElementoAceptado(g, e.as[1], e.as[2]) THEN Rechaza(g)
  ELSE Luego(g, <<Expr(e.as[1], 1)>> \o Guarda(1) \o <<Expr(e.as[2], 2)>> \o Repone(1)
         \o PonTodo(<<I("LISTA_AGREGAR", 1, 2, 0), I("MOVER", r, 1, 0)>>))

VisitaObtener(g, e, r) ==
  LET lista == IF r <= 253 THEN r + 1 ELSE 1
      indice == IF r <= 253 THEN r + 2 ELSE 2
  IN IF Len(e.as) < 2 THEN Rechaza(g)
     ELSE Luego(g, <<Expr(e.as[1], lista), Expr(e.as[2], indice), Pon(I("LISTA_OBTENER", r, lista, indice))>>)

VisitaPoner(g, e, r) ==
  LET en == IF r <= 252 THEN <<r + 1, r + 2, r + 3>> ELSE <<1, 2, 3>>
  IN IF Len(e.as) < 3 THEN Rechaza(g)
     ELSE Luego(g, [k \in 1..3 |-> Expr(e.as[k], en[k])]
            \o PonTodo(<<I("LISTA_PONER", en[1], en[2], en[3]), I("MOVER", r, en[1], 0)>>))

(* Not in register 1, where methods have their object. *)
VisitaTamano(g, e, r) ==
  LET lista == IF r <= 253 THEN r + 1 ELSE 2
  IN IF e.as = <<>> THEN Rechaza(g)
     ELSE Luego(g, <<Expr(e.as[1], lista), Pon(I("LISTA_TAMANO", r, lista, 0))>>)

VisitaLiberar(g, e, r) ==
  IF e.as = <<>> THEN Rechaza(g)
  ELSE Luego(g, <<Expr(e.as[1], 1)>> \o PonTodo(<<I("LISTA_LIBERAR", 1, 0, 0), I("MOVERI", r, 0, 0)>>))

(* Both walk the list with a counter in the frame; the size of the list is
   asked for with the instruction of maps. *)
Recorrido(g, e, fin, cuerpo) ==
  LET nid == g.lit + 1 IN
  <<Expr(e.as[1], 1), Reserva, Reserva, Reserva, ATemporal(3, 1)>>
  \o PonTodo(<<I("MOVERI", 2, nid, 0), I("LISTA_CREAR", 2, 2, 0)>>)
  \o <<ATemporal(2, 2), Pon(I("MOVERI", 15, 0, 0)), ATemporal(1, 15), Marca(fin - 1),
       DeTemporal(3, 15), Pon(I("MAPA_TAMANO", 16, 15, 0)), DeTemporal(1, 17),
       Pon(I("CMP_LT", 18, 17, 16)), Pon(I("CMP_EQI", 18, 18, 0)), SiNoCero(18, fin),
       Pon(I("LISTA_OBTENER", 19, 15, 17)), Pon(I("MOVER", 1, 19, 0)), Llama(Funcion(g, e.as[2].n).l)>>
  \o cuerpo
  \o <<DeTemporal(1, 17), Pon(I("SUMARI", 17, 17, 1)), ATemporal(1, 17), Ir(fin - 1), Marca(fin)>>

Recorrible(g, e) == Len(e.as) = 2 /\ e.as[2].k = "var" /\ EsFuncion(g, e.as[2].n)

VisitaMapear(g, e, r) ==
  IF ~Recorrible(g, e) THEN Rechaza(g)
  ELSE Luego([EtiquetasNuevas(g, 2) EXCEPT !.lit = @ + 1],
         Recorrido(g, e, Etiqueta(g, 2),
           <<DeTemporal(2, 20), Pon(I("MOVER", 21, 1, 0)), Pon(I("LISTA_AGREGAR", 20, 21, 0))>>)
         \o <<DeTemporal(2, r), Suelta(3)>>)

VisitaFiltrar(g, e, r) ==
  LET salta == Etiqueta(g, 3) IN
  IF ~Recorrible(g, e) THEN Rechaza(g)
  ELSE Luego([EtiquetasNuevas(g, 3) EXCEPT !.lit = @ + 1],
         Recorrido(g, e, Etiqueta(g, 2),
           <<Pon(I("CMP_EQI", 22, 1, 0)), SiNoCero(22, salta), DeTemporal(2, 20),
             Pon(I("LISTA_AGREGAR", 20, 19, 0)), Marca(salta)>>)
         \o <<DeTemporal(2, r), Suelta(3)>>)

VisitaPonerMapa(g, e, r) ==
  IF Len(e.as) < 3 THEN Rechaza(g)
  ELSE Luego(g, <<Expr(e.as[1], r), Expr(e.as[2], r + 1)>> \o ConLiteralDeFuncion(g, <<Expr(e.as[3], r + 2)>>)
         \o <<Pon(I("MAPA_PONER", r, r + 1, r + 2))>>)

(***************************************************************************)
(* Conversions and output                                                  *)
(***************************************************************************)
Convierte(g, e, r, propio, directo, casi, otro) ==
  LET t == Tipo(g, e.as[1])
      op == IF t = propio THEN "MOVER" ELSE IF t \in DOMAIN directo THEN directo[t]
            ELSE IF t = "elemento" THEN casi ELSE otro
  IN IF e.as = <<>> THEN Rechaza(g)
     ELSE Luego(g, <<Expr(e.as[1], r + 1), Pon(I(op, r, r + 1, 0))>>)

VisitaAEntero(g, e, r) == Convierte(g, e, r, "entero", "flotante" :> "CONV_F2I", "CONV_ANY2I", "STR_A_ENTERO")
VisitaAFlotante(g, e, r) == Convierte(g, e, r, "flotante", "entero" :> "CONV_I2F", "CONV_ANY2F", "STR_A_FLOTANTE")

VisitaDesdeNumero(g, e, r) ==
  IF e.as = <<>> THEN Rechaza(g)
  ELSE Luego(g, <<Expr(e.as[1], r + 1),
                  Pon(IF Tipo(g, e.as[1]) = "entero" THEN I("STR_DESDE_NUMERO", r, r + 1, 1)
                      ELSE I("STR_DESDE_ANY", r, r + 1, 0))>>)

(***************************************************************************)
(* Printing                                                                *)
(***************************************************************************)
Coleccion == {"lista", "mapa", "elemento"}

SumaConTexto(g, e) ==
  e.k = "bin" /\ e.op = "+" /\ \E x \in {e.i, e.d} : Tipo(g, x) \in {"texto", "concepto", "caracter"}

InstruccionImprimir(t, r) ==
  Pon(I(CASE t = "texto" -> "IMPRIMIR_TEXTO" [] t = "flotante" -> "IMPRIMIR_FLOTANTE"
          [] t \in Coleccion -> "IMPRIMIR_ID" [] OTHER -> "IMPRIMIR_NUMERO", r, 0, 0))
ImprimirValor(t, r) ==
  IF t = "caracter" THEN PonTodo(<<I("STR_DESDE_CODIGO", r, r, 0), I("IMPRIMIR_TEXTO", r, 0, 0)>>)
  ELSE <<InstruccionImprimir(t, r)>>

ImprimeRegistro(g, e) ==
  LET d == DireccionMiembro(g, e, 2)
  IN IF ~d.ok THEN <<>>
     ELSE PonTodo(d.is) \o EscribeEstructura(g, Tipo(g, e), BaseDe(d, 2), 0, 0)

(* The parts of an interpolated text are printed one by one; there, a character
   is a number and an object a collection. *)
ImprimeParte(g, e) ==
  LET t == IF Tipo(g, e) = "objeto" THEN "elemento" ELSE Tipo(g, e)
      r == IF t \in Coleccion THEN R_IMPRIMIR ELSE 1
  IN CASE e.k = "trozo" -> PonTodo(ImprimirTexto(e.s))
       [] e.k # "trozo" /\ EsEstructura(g, Tipo(g, e)) -> ImprimeRegistro(g, e)
       [] OTHER -> <<Expr(e, r), InstruccionImprimir(t, r)>>

NoImprimible(g, e) ==
  IF e.k = "interp" THEN \E k \in DOMAIN e.ps : e.ps[k].k # "trozo" /\ Tipo(g, e.ps[k]) = "funcion"
  ELSE Tipo(g, e) = "funcion"

ImprimeInterpolado(g, e) == Por(e.ps, LAMBDA k : ImprimeParte(g, e.ps[k]))

(* Without the end of the line only texts, characters and flotantes are told
   from numbers, and a character that is a literal is a number. *)
VisitaSinSalto(g, e, r) ==
  LET x == e.as[1]
      t == CASE SumaConTexto(g, x) -> "texto"
             [] ~SumaConTexto(g, x) /\ (x.k = "car" \/ Tipo(g, x) \in Coleccion) -> "entero"
             [] OTHER -> Tipo(g, x)
  IN IF e.as = <<>> \/ NoImprimible(g, x) THEN Rechaza(g)
     ELSE Luego(g, CASE x.k = "txt" -> PonTodo(ImprimirTexto(x.s))
                     [] x.k = "interp" -> ImprimeInterpolado(g, x)
                     [] x.k \notin {"txt", "interp"} /\ EsEstructura(g, t) -> ImprimeRegistro(g, x)
                     [] OTHER -> <<Expr(x, r + 1)>> \o ImprimirValor(t, r + 1))

Especiales == Longitudes \cup Normales \cup Productos \cup DOMAIN Matrices \cup CrearLista \cup
  {"vec3_cross", "lista_agregar", "mem_lista_agregar", "lista_obtener", "mem_lista_obtener",
   "lista_poner", "mem_lista_poner", "lista_tamano", "mem_lista_tamano", "lista_liberar",
   "mem_lista_liberar", "lista_mapear", "mem_lista_mapear", "lista_filtrar", "mem_lista_filtrar",
   "mapa_poner", "str_a_entero", "convertir_entero", "str_a_flotante", "convertir_flotante",
   "str_desde_numero", "texto_desde_numero", "imprimir_sin_salto"}

EsSistema(n) == EnTabla(n) # {} \/ n \in Especiales

VisitaSistema(g, e, r) ==
  CASE EnTabla(e.n) # {} -> VisitaTabla(g, e, r)
    [] e.n \in Longitudes -> VisitaLongitud(g, e, r)
    [] e.n \in Normales -> VisitaNormal(g, e, r)
    [] e.n \in Productos -> VisitaProducto(g, e, r)
    [] e.n = "vec3_cross" -> VisitaCruz(g, e, r)
    [] e.n \in DOMAIN Matrices -> VisitaMatriz(g, e, r)
    [] e.n \in CrearLista -> VisitaCrearLista(g, e, r)
    [] e.n \in {"lista_agregar", "mem_lista_agregar"} -> VisitaAgregar(g, e, r)
    [] e.n \in {"lista_obtener", "mem_lista_obtener"} -> VisitaObtener(g, e, r)
    [] e.n \in {"lista_poner", "mem_lista_poner"} -> VisitaPoner(g, e, r)
    [] e.n \in {"lista_tamano", "mem_lista_tamano"} -> VisitaTamano(g, e, r)
    [] e.n \in {"lista_liberar", "mem_lista_liberar"} -> VisitaLiberar(g, e, r)
    [] e.n \in {"lista_mapear", "mem_lista_mapear"} -> VisitaMapear(g, e, r)
    [] e.n \in {"lista_filtrar", "mem_lista_filtrar"} -> VisitaFiltrar(g, e, r)
    [] e.n = "mapa_poner" -> VisitaPonerMapa(g, e, r)
    [] e.n \in {"str_a_entero", "convertir_entero"} -> VisitaAEntero(g, e, r)
    [] e.n \in {"str_a_flotante", "convertir_flotante"} -> VisitaAFlotante(g, e, r)
    [] e.n \in {"str_desde_numero", "texto_desde_numero"} -> VisitaDesdeNumero(g, e, r)
    [] e.n = "imprimir_sin_salto" -> VisitaSinSalto(g, e, r)
================================================================================
