\* Two slots for two pairs that share a bucket; strengths -1 .. 2 halves of 1.0.
SPECIFICATION Spec
CONSTANTS
  Unidad = 2
  Ids = {1, 3}
  Pares <- DosPares
  Tipos = {1, 2}
  Cambios <- CambiosConSigno
  Deltas = {1}
  Factores = {1}
  Pasadas = {1}
  Umbrales = {0}
  Impulsos = {1}
  Tope = 1
  CapNodos = 1
  CapConexiones = 2
CHECK_DEADLOCK FALSE
PROPERTIES
  ImplementaGrafo
