\* Both origins share a bucket; three slots for four pairs.  The operations that change
\* strengths only, and the sleep phases, are in MCJmnFuerzas.
SPECIFICATION Spec
CONSTANTS
  Unidad = 1
  Ids = {1, 3}
  Pares <- TodosLosPares
  Tipos = {1}
  Cambios = {0, 1}
  Deltas = {}
  Factores = {}
  Pasadas = {1}
  Umbrales = {0}
  Impulsos = {}
  Tope = 1
  CapNodos = 1
  CapConexiones = 3
CHECK_DEADLOCK FALSE
INVARIANTS
  TypeOK
  CadenasExactas
  SinDuplicadas
  ContadorExacto
