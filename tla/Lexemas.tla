--------------------------------- MODULE Lexemas ---------------------------------
(***************************************************************************)
(* The lexer: what token each word of a source is.                         *)
(*                                                                         *)
(* A source is the sequence of its words: comments and the blanks between  *)
(* words are left out, and a text or a concept is a word with its quotes;  *)
(* a text in backquotes, which is the same token, is in no source.         *)
(* A token is [k, s, v]: keyword, identifier, number (flotantes in         *)
(* thousandths), text, concept, operator, nulo or the end of the file.     *)
(***************************************************************************)
EXTENDS Cadenas

(* Words of English that no program may use. *)
FORBIDDEN_ENGLISH ==
  {"if", "else", "for", "while", "function", "return", "endif", "endwhile", "endfor", "true", "false",
   "null", "var", "let", "const", "class", "import", "export"}

KEYWORDS ==
  {"principal", "fin_principal", "funcion", "fin_funcion", "asincrono", "esperar", "tarea", "mientras",
   "fin_mientras", "cuando", "fin_cuando", "si", "sino", "fin_si", "imprimir", "imprimir_sin_salto",
   "imprimir_texto", "ingresar_texto", "ingreso_inmediato", "limpiar_consola", "pausa", "retornar",
   "romper", "continuar", "entero", "texto", "flotante", "caracter", "constante", "u32", "u64", "u8",
   "byte", "elemento", "bytes", "socket", "tls", "http_solicitud", "http_respuesta", "http_servidor",
   "vec2", "vec3", "vec4", "mat4", "mat3", "activar_modulo", "biblioteca", "recordar", "responder",
   "aprender", "reforzar", "penalizar", "buscar", "buscar_peso", "asociar", "con", "valor", "peso",
   "igual", "es", "entrada", "entonces", "retorna", "extraer_antes_de", "extraer_despues_de",
   "contiene_texto", "termina_con", "ultima_palabra", "copiar_texto", "asociar_pesos_conceptos",
   "imprimir_auditoria", "como", "o", "y", "no", "define_concepto", "crear_memoria", "abrir_memoria",
   "cerrar_memoria", "mayor", "menor", "distinto", "que", "de", "a", "concepto", "fin_concepto",
   "crear_concepto", "propiedad_concepto", "abrir_archivo", "cerrar_archivo", "escribir_archivo",
   "leer_linea_archivo", "fin_archivo", "existe_archivo", "obtener_todos_conceptos",
   "obtener_relacionados", "lista_tamano", "lista_obtener", "obtener_timestamp", "aprender_peso",
   "procesar_texto", "str_minusculas", "str_copiar", "lista_agregar", "crear_lista", "lista_crear",
   "lista_limpiar", "obtener_nombre_concepto", "listar_archivos", "fs_listar", "finalizar", "olvidar",
   "pensar", "pensar_respuesta", "obtener_campo", "es_variable_sistema", "bit_shl", "bit_shr",
   "sistema_ejecutar", "fs_escribir_byte", "mapa_crear", "mapa_poner", "mapa_obtener", "lista_poner",
   "str_a_entero", "str_a_flotante", "entrada_flotante", "registro", "fin_registro", "clase", "fin_clase",
   "extiende", "lista", "mapa", "bool", "hacer", "fin_hacer", "usar", "enviar", "privado", "padre",
   "seleccionar", "caso", "defecto", "fin_seleccionar", "intentar", "atrapar", "final", "fin_intentar",
   "lanzar", "macro", "llamar", "fs_abrir", "fs_cerrar", "fs_escribir", "fs_leer_linea", "fs_leer_byte",
   "sys_argc", "sys_argv", "str_extraer_caracter", "str_desde_numero", "decimal", "codigo_caracter",
   "caracter_a_texto", "byte_a_caracter", "caracter_a_byte", "mem_lista_crear", "mem_lista_agregar",
   "mem_lista_obtener", "mem_lista_tamano", "mem_lista_limpiar", "mem_lista_liberar", "lista_liberar",
   "mem_lista_mapear", "mem_lista_filtrar", "lista_mapear", "lista_filtrar", "json", "objeto",
   "json_parse", "json_stringify", "json_objeto_obtener", "json_lista_obtener", "json_lista_tamano",
   "json_a_texto", "json_a_entero", "json_a_flotante", "json_a_bool", "json_tipo", "bytes_crear",
   "bytes_tamano", "bytes_obtener", "bytes_poner", "bytes_anexar", "bytes_subbytes", "bytes_desde_texto",
   "bytes_a_texto", "dns_resolver", "tcp_conectar", "tcp_escuchar", "tcp_aceptar", "tcp_enviar",
   "tcp_recibir", "tcp_cerrar", "tls_cliente", "tls_servidor", "tls_enviar", "tls_recibir", "tls_cerrar",
   "pausa_milisegundos", "esperar_milisegundos", "para", "cada", "en", "fin_para", "para_cada",
   "fin_para_cada", "sobre", "mem_crear", "mem_cerrar", "mem_asociar", "tiene_asociacion",
   "imprimir_flotante", "comparar_gt_flt", "mem_poner_u32_ind", "mem_obtener_u32_ind",
   "mem_aprender_peso_reg", "registrar_patron", "asociar_secuencia", "pensar_siguiente", "pensar_anterior",
   "corregir_secuencia", "asociar_relacion", "comparar_patrones", "asociar_similitud",
   "asociar_diferencia", "buscar_asociados", "asociados_de", "buscar_asociados_lista",
   "asociados_lista_de", "buscar_en_conceptos", "decae_conexiones", "decaer_conexiones",
   "consolidar_memoria", "dormir", "consolidar", "olvidar_debiles", "ventana_percepcion", "flujo_temporal",
   "percepcion_limpiar", "percepcion_tamano", "percepcion_anterior", "percepcion_recientes", "percepcion",
   "ventana_rastro_activacion", "rastro_activacion_ventana", "rastro_activacion_limpiar",
   "rastro_activacion_tamano", "rastro_activacion_obtener", "rastro_activacion_peso",
   "rastro_activacion_lista", "rastro_activacion_recientes", "propagar_activacion",
   "propagar_activacion_de", "elegir_por_peso", "elegir_por_peso_segun", "elegir_por_peso_id",
   "elegir_por_peso_semilla", "elegir_por_peso_seed", "resolver_conflictos", "resolver_conflictos_de",
   "segmentar_palabras", "palabras_de", "dividir_texto", "minusculas", "extraer_subtexto", "imprimir_id",
   "longitud_texto", "reservar", "liberar", "ir_escribir", "resultado"}

(* The functions of the system. *)
SISTEMA_LLAMADAS ==
  {"abrir_archivo", "cerrar_archivo", "escribir_archivo", "leer_linea_archivo", "fin_archivo",
   "existe_archivo", "obtener_todos_conceptos", "obtener_relacionados", "lista_tamano", "lista_obtener",
   "obtener_timestamp", "formatear_timestamp", "aprender", "aprender_peso", "procesar_texto",
   "str_minusculas", "str_mayusculas", "mayusculas", "str_copiar", "copiar_texto", "lista_agregar",
   "crear_lista", "obtener_nombre_concepto", "listar_archivos", "fs_listar", "finalizar", "olvidar",
   "obtener_campo", "bit_shl", "bit_shr", "sistema_ejecutar", "mapa_crear", "mapa_poner", "mapa_obtener",
   "mapa_eliminar", "mapa_tamano", "mapa_contiene", "str_a_entero", "str_a_flotante", "convertir_entero",
   "convertir_flotante", "fs_abrir", "fs_cerrar", "fs_escribir", "fs_leer_linea", "fs_leer_byte",
   "fs_escribir_byte", "fs_leer_texto", "sys_argc", "sys_argv", "str_extraer_caracter", "str_desde_numero",
   "decimal", "codigo_caracter", "caracter_a_texto", "byte_a_caracter", "caracter_a_byte", "lista_crear",
   "mem_lista_crear", "mem_lista_agregar", "mem_lista_obtener", "mem_lista_tamano", "lista_poner",
   "mem_lista_poner", "lista_limpiar", "mem_lista_limpiar", "lista_liberar", "mem_lista_liberar",
   "lista_mapear", "mem_lista_mapear", "lista_filtrar", "mem_lista_filtrar", "mem_crear", "mem_cerrar",
   "abrir_memoria", "cerrar_memoria", "mem_asociar", "tiene_asociacion", "imprimir_flotante",
   "comparar_gt_flt", "mem_poner_u32_ind", "mem_obtener_u32_ind", "mem_aprender_peso_reg", "pensar",
   "buscar", "imprimir_sin_salto", "pensar_respuesta", "es_variable_sistema", "reforzar", "penalizar",
   "mem_obtener_fuerza", "asociar_pesos_conceptos", "asociar_secuencia", "registrar_patron",
   "pensar_siguiente", "pensar_anterior", "corregir_secuencia", "asociar_relacion", "comparar_patrones",
   "asociar_similitud", "asociar_diferencia", "buscar_asociados", "asociados_de", "buscar_asociados_lista",
   "asociados_lista_de", "buscar_en_memoria", "buscar_introspectiva", "buscar_en_memoria_lista",
   "buscar_en_memoria_cs", "buscar_en_memoria_detallada", "decae_conexiones", "decaer_conexiones",
   "consolidar_memoria", "dormir", "consolidar", "olvidar_debiles", "ventana_percepcion", "flujo_temporal",
   "percepcion_limpiar", "percepcion_tamano", "percepcion_anterior", "percepcion_recientes", "percepcion",
   "ventana_rastro_activacion", "rastro_activacion_ventana", "rastro_activacion_limpiar",
   "rastro_activacion_tamano", "rastro_activacion_obtener", "rastro_activacion_peso",
   "rastro_activacion_lista", "rastro_activacion_recientes", "propagar_activacion",
   "propagar_activacion_de", "elegir_por_peso", "elegir_por_peso_segun", "elegir_por_peso_id",
   "elegir_por_peso_semilla", "elegir_por_peso_seed", "resolver_conflictos", "resolver_conflictos_de",
   "segmentar_palabras", "palabras_de", "dividir_texto", "minusculas", "extraer_subtexto",
   "extraer_antes_de", "extraer_despues_de", "imprimir_id", "longitud_texto", "propiedad_concepto",
   "reservar", "liberar", "ir_escribir", "concatenar", "longitud", "dividir", "buscar_en_texto",
   "contiene_texto", "termina_con", "leer_entrada", "percibir_teclado", "ingreso_inmediato",
   "entrada_flotante", "limpiar_consola", "pausa", "ahora", "obtener_ahora", "diferencia_en_segundos",
   "n_abrir_grafo", "n_cerrar_grafo", "n_grafo_valido", "n_obtener_id", "n_obtener_texto",
   "n_existe_concepto", "n_recordar", "n_recordar_peso", "n_recordar_triple_texto", "n_buscar_objeto",
   "n_buscar_objetos", "n_buscar_objeto_texto", "n_buscar_sujeto", "n_buscar_sujetos",
   "n_buscar_predicados", "n_buscar_donde_aparece", "n_lista_triples", "n_tamano_grafo",
   "n_olvidar_triple", "n_configurar_cache_lru", "n_configurar_bloom", "n_heredar", "n_heredar_texto",
   "fs_borrar", "fs_copiar", "fs_mover", "fs_tamano", "mem_obtener_relacion", "vec2_sumar", "vec2_restar",
   "vec3_sumar", "vec3_restar", "vec4_sumar", "vec4_restar", "vec2_longitud", "vec3_longitud",
   "vec4_longitud", "vec2_normalizar", "vec3_normalizar", "vec4_normalizar", "vec2_dot", "vec3_dot",
   "vec4_dot", "vec3_cross", "sin", "cos", "tan", "atan2", "arcotangente2", "exp", "log", "log10",
   "mat4_mul_vec4", "mat4_mul", "mat4_identidad", "mat4_transpuesta", "mat4_inversa", "mat3_mul_vec3",
   "mat3_mul", "ffi_cargar", "ffi_simbolo", "ffi_llamar", "json_parse", "json_stringify",
   "json_objeto_obtener", "json_lista_obtener", "json_lista_tamano", "json_a_texto", "json_a_entero",
   "json_a_flotante", "json_a_bool", "json_tipo", "bytes_crear", "bytes_tamano", "bytes_obtener",
   "bytes_poner", "bytes_anexar", "bytes_puntero", "bytes_subbytes", "bytes_desde_texto", "bytes_a_texto",
   "dns_resolver", "tcp_conectar", "tcp_escuchar", "tcp_aceptar", "tcp_enviar", "tcp_recibir",
   "tcp_cerrar", "tls_cliente", "tls_servidor", "tls_enviar", "tls_recibir", "tls_cerrar",
   "pausa_milisegundos", "esperar_milisegundos", "nativo_mlp_entrenar"}

EsLlamadaSistema(w) == w \in SISTEMA_LLAMADAS \/ (Len(w) >= 2 /\ SubSeq(w, 1, 2) = "__")

OPERADORES ==
  {"=", "+", "-", "*", "/", "%", "(", ")", ",", ".", "[", "]", "{", "}", ":", "?", "!", "<", ">",
   "==", "!=", "<=", ">=", "=>", "++", "--", "+=", "-=", "*=", "/=", "<<", ">>"}

Ficha(k, s, v) == [k |-> k, s |-> s, v |-> v]
FIN == Ficha("fin", "", 0)
NO_LEIDA == Ficha("mal", "", 0)

(* A quoted word without its quotes; the last one may be missing. *)
Inicial(w) == SubSeq(w, 1, 1)
Cerrada(w) == Len(w) > 1 /\ SubSeq(w, Len(w), Len(w)) = Inicial(w)
Interior(w) == SubSeq(w, 2, Len(w) - 1)

Escape(c) ==
  CASE c = "n" -> "\n" [] c = "t" -> "\t" [] c = "r" -> "\r"
    [] c \in {"\"", "\\"} -> c
    [] OTHER -> "\\" \o c

RECURSIVE Escapado(_)
Escapado(s) ==
  IF ~Contiene(s, "\\") THEN s
  ELSE LET resto == Despues(s, "\\")
       IN Antes(s, "\\") \o Escape(SubSeq(resto, 1, 1)) \o Escapado(SubSeq(resto, 2, Len(resto)))

Texto(w) == IF Cerrada(w) THEN Ficha("txt", Escapado(Interior(w)), 0) ELSE NO_LEIDA
Concepto(w) == IF Cerrada(w) THEN Ficha("con", Interior(w), 0) ELSE NO_LEIDA

Palabra(w) ==
  CASE w \in FORBIDDEN_ENGLISH -> NO_LEIDA
    [] w = "nulo" -> Ficha("nulo", "", 0)
    [] w = "verdadero" -> Ficha("num", "", 1)
    [] w = "falso" -> Ficha("num", "", 0)
    [] w \in KEYWORDS -> Ficha("pal", w, 0)
    [] OTHER -> Ficha("id", w, 0)

Hexadecimal(s) ==
  LET f[k \in 0..Len(s)] ==
        IF k = 0 THEN 0 ELSE 16 * f[k - 1] + PosicionEn("0123456789abcdef", SubSeq(s, k, k))
  IN f[Len(s)]

Numero(w) ==
  LET decimales == SubSeq(Despues(w, ".") \o "000", 1, 3)
  IN IF Contiene(w, "x") THEN Ficha("num", "", Hexadecimal(Despues(w, "x")))
     ELSE IF Contiene(w, ".") THEN Ficha("flot", "", 1000 * Decimal10(Antes(w, ".")) + Decimal10(decimales))
     ELSE Ficha("num", "", Decimal10(w))

Letras == "abcdefghijklmnopqrstuvwxyzABCDEFGHIJKLMNOPQRSTUVWXYZ_"

lexer_next(w) ==
  CASE Inicial(w) = "\"" -> Texto(w)
    [] Inicial(w) = "'" -> Concepto(w)
    [] Contiene(Letras, Inicial(w)) -> Palabra(w)
    [] EsDigito(Inicial(w)) -> Numero(w)
    [] w \in OPERADORES -> Ficha("op", w, 0)
    [] OTHER -> NO_LEIDA
==================================================================================
