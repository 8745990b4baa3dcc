SPECIFICATION Spec
CONSTANTS
  Programa <- MCPrograma
  SCOPE_DEPTH_MAX = 64
  Reservados = {"entero", "texto", "si"}
  MARCO_MAX = 1048576
  MEMORIA = 2097152
  INTENTOS_MAX = 16
  LLAMADAS_MAX = 512
INVARIANTS SalidaFiel RechazoFiel TodoCerrado MarcoSuficiente PilaEquilibrada
PROPERTY Termina
