\* Lists of up to one item in two memories, and their unions.
SPECIFICATION Spec
CONSTANTS
  Creadas <- SoloLista
  Divididas <- SoloPalabras
  Rellenadas <- SoloAsociados
  Uniones <- DosUniones
  Clave <- ClaveDeUnion
  Alto = 3
  MaxTam = 1
INVARIANTS
  CacheExacta
