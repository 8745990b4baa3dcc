\* Three call levels, two handler levels, memory for two or three frames.
SPECIFICATION Spec
CONSTANTS
  Funciones = {"principal", "corta", "larga"}
  Principal = "principal"
  TamMarco <- MCTamMarco
  MarcoMax = 2
  Entornos = {0, 1}
  MaxRecursion = 2
  MaxIntentar = 2
  BasePila = 1
  BaseMonton = 3
  MemInicial = 5
  MemLimite = 6
  TamObjetos = {2}
  Salidas = {3}
  Limites = {0, 4}
CHECK_DEADLOCK FALSE
INVARIANTS
  TypeOK
  MarcosEnlazados
  ManejadoresVivos
  EntornosPropios
  MemoriaAcotada
  CotaPila
PROPERTIES
  Termina
