\* A printed register is not kept.
SPECIFICATION Spec
CONSTANTS
  Instrucciones <- MCImprime
  MaxIns = 3
  Byte = 16
  TamInst = 2
  Ancho = 5
  Entradas = {0, 1}
  MaxPasos = 12
PROPERTIES
  MantieneSemantica
CHECK_DEADLOCK FALSE
