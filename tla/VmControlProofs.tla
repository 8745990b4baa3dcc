-------------------------- MODULE VmControlProofs --------------------------
(***************************************************************************)
(* Proofs about VmControl, for every program, frame size and limit.        *)
(***************************************************************************)
EXTENDS VmControl, SequenceTheorems, TLAPS

USE FuncionesAssumption, LimitesAssumption, MemoriaAssumption

\* Removing the newest level keeps the others as they are.
LEMMA QuitarUltimo ==
  ASSUME NEW S, NEW s \in Seq(S), s # <<>>
  PROVE  LET q == SubSeq(s, 1, Len(s) - 1)
         IN  /\ q \in Seq(S)
             /\ Len(q) = Len(s) - 1
             /\ \A i \in 1 .. Len(s) - 1 : q[i] = s[i]
             /\ Len(s) \in Nat \ {0}
             /\ s[Len(s)] \in S
<1>1. Len(s) \in Nat /\ Len(s) # 0
  OBVIOUS
<1>2. \A i \in 1 .. Len(s) : s[i] \in S
  BY <1>1
<1> DEFINE n == Len(s) - 1
           q == SubSeq(s, 1, n)
<1>3. n \in Nat /\ \A i \in 1 .. n : s[i] \in S
  BY <1>1, <1>2
<1> HIDE DEF n
<1>4. /\ q \in Seq(S)
      /\ Len(q) = IF 1 <= n THEN n - 1 + 1 ELSE 0
      /\ \A i \in 1 .. n - 1 + 1 : q[i] = s[1 + i - 1]
  BY <1>3, SubSeqProperties
<1>5. Len(q) = n /\ \A i \in 1 .. n : q[i] = s[i]
  BY <1>3, <1>4
<1> USE DEF n
<1>6. QED
  BY <1>1, <1>2, <1>4, <1>5

\* What jumping to a handler does to the types (vm_try_catch_or_abort).
LEMMA SaltoTipado ==
  ASSUME TypeOK, SaltarAlManejador
  PROVE  TipoMarco' /\ TipoPunteros' /\ TipoTries' /\ TipoFantasma'
<1> USE DEF TypeOK
<1> DEFINE m == tries[Len(tries)]
<1>1. m \in Manejador /\ tries' \in Seq(Manejador) /\ Len(tries') = Len(tries) - 1
  BY QuitarUltimo DEF TipoTries, SaltarAlManejador
<1>2. /\ pc' = [fn |-> m.fn, fase |-> "cuerpo"]
      /\ fp' = m.fp /\ sp' = m.sp
      /\ stack_ptr' = m.stack_ptr /\ fp_stack_ptr' = m.fp_stack_ptr
      /\ current_closure_env' = m.env
  BY DEF SaltarAlManejador
<1>3. Len(tries') <= MaxIntentar
  BY <1>1 DEF TipoTries
<1>4. TipoFantasma'
  BY DEF TipoFantasma, SaltarAlManejador
<1> HIDE DEF m
<1>5. TipoMarco' /\ TipoPunteros'
  BY <1>1, <1>2 DEF TipoMarco, TipoPunteros, Manejador, Direcciones
<1>6. QED
  BY <1>1, <1>3, <1>4, <1>5 DEF TipoTries

\* The exit codes the VM sets by itself.
LEMMA CodigosEnteros == 0 \in Int /\ 1 \in Int
OBVIOUS

\* The loop's bookkeeping is well typed whatever the instruction left.
LEMMA PasoTipado ==
  ASSUME TypeOK, NEW x \in Int,
         Paso(TRUE, x) \/ Paso(FALSE, x) \/ SalirDelBucle(TRUE, x) \/ SalirDelBucle(FALSE, x)
  PROVE  TipoBucle'
<1>1. CASE Paso(TRUE, x)
  BY <1>1 DEF TypeOK, Paso, TipoBucle
<1>2. CASE Paso(FALSE, x)
  BY <1>2 DEF TypeOK, Paso, TipoBucle
<1>3. CASE SalirDelBucle(TRUE, x) \/ SalirDelBucle(FALSE, x)
  BY <1>3 DEF TypeOK, SalirDelBucle, TipoBucle
<1>4. QED
  BY <1>1, <1>2, <1>3

\* An error that some handler takes, or that stops the VM, keeps the types.
LEMMA ErrorTipado ==
  ASSUME TypeOK,
         \/ SaltarAlManejador /\ (Paso(TRUE, 0) \/ SalirDelBucle(TRUE, 0))
         \/ /\ SinManejador /\ UNCHANGED <<stack_ptr, fp_stack_ptr>>
            /\ Paso(FALSE, 1) \/ SalirDelBucle(FALSE, 1),
         UNCHANGED <<stack, fp_stack, closure_env_stack, memoria>>
  PROVE  TypeOK'
<1>1. TipoBucle'
  BY PasoTipado, CodigosEnteros
<1>2. TipoPilas' /\ TipoMemoria'
  BY DEF TypeOK, TipoPilas, TipoMemoria, memoria
<1>3. CASE SaltarAlManejador
  BY <1>1, <1>2, <1>3, SaltoTipado DEF TypeOK
<1>4. CASE SinManejador /\ UNCHANGED <<stack_ptr, fp_stack_ptr>>
  BY <1>1, <1>2, <1>4
     DEF TypeOK, SinManejador, marco, fantasma, TipoMarco, TipoPunteros, TipoTries, TipoFantasma
<1>5. QED
  BY <1>3, <1>4

\* The VM's control state keeps its types, the call stacks stay within
\* VM_MAX_RECURSION and the handler stack within VM_TRY_STACK_MAX.
THEOREM TiposCorrectos == Spec => []TypeOK
<1>1. Init => TypeOK
  <2> SUFFICES ASSUME Init PROVE TypeOK
    OBVIOUS
  <2>1. TipoMarco /\ TipoPunteros /\ TipoPilas /\ TipoMemoria
    BY DEF Init, TipoMarco, TipoPunteros, TipoPilas, TipoMemoria, Direcciones, Niveles, Huecos
  <2>2. TipoTries /\ TipoBucle /\ TipoFantasma
    <3>1. TipoTries
      BY DEF Init, TipoTries
    <3>2. TipoBucle
      BY CodigosEnteros DEF Init, TipoBucle
    <3>3. TipoFantasma
      BY DEF Init, TipoFantasma
    <3>4. QED
      BY <3>1, <3>2, <3>3
  <2>3. QED
    BY <2>1, <2>2 DEF TypeOK
<1>2. TypeOK /\ [Next]_vars => TypeOK'
  <2> SUFFICES ASSUME TypeOK, [Next]_vars PROVE TypeOK'
    OBVIOUS
  <2>1. CASE Lanzar \/ DivisionPorCero \/ AccesoInvalido
    BY <2>1, ErrorTipado DEF Lanzar, DivisionPorCero, AccesoInvalido
  <2>2. CASE LlamarSinEspacio \/ ReservarPilaFalla
    BY <2>2, ErrorTipado DEF LlamarSinEspacio, ReservarPilaFalla
  <2> USE DEF TypeOK
  <2>3. ASSUME NEW f \in Funciones, NEW e \in Entornos, Llamar(f, e)
        PROVE  TypeOK'
    <3>1. TipoBucle'
      BY <2>3, PasoTipado DEF Llamar, TipoBucle
    <3>2. TipoMarco' /\ TipoPunteros' /\ TipoFantasma'
      BY <2>3 DEF Llamar, PilaLlena, TipoMarco, TipoPunteros, TipoFantasma, Direcciones, Niveles
    <3>3. TipoPilas'
      BY <2>3 DEF Llamar, GuardarContexto, TipoMarco, TipoPilas, Direcciones
    <3>4. QED
      BY <2>3, <3>1, <3>2, <3>3 DEF Llamar, memoria, TipoTries, TipoMemoria
  <2>4. CASE LlamarClosureInvalido
    <3>1. TipoPilas' /\ TipoMemoria'
      BY <2>4 DEF LlamarClosureInvalido, GuardarContexto, memoria, TipoMarco, TipoPilas,
                  TipoMemoria, Direcciones
    <3>2. CASE tries # <<>>
      <4>1. SaltarAlManejador /\ Paso(TRUE, 0)
        BY <2>4, <3>2 DEF LlamarClosureInvalido
      <4>2. QED
        BY <3>1, <4>1, SaltoTipado, PasoTipado, CodigosEnteros
    <3>3. CASE tries = <<>>
      <4>1. /\ Paso(FALSE, 1)
            /\ stack_ptr' = stack_ptr + 1 /\ fp_stack_ptr' = fp_stack_ptr + 1
            /\ fp' = sp
            /\ UNCHANGED <<pc, sp, current_closure_env, tries, abiertos, env_de, salio_antes>>
        BY <2>4, <3>3 DEF LlamarClosureInvalido, SaltarAlManejador, fantasma
      <4>2. ~PilaLlena
        BY <2>4 DEF LlamarClosureInvalido
      <4>3. TipoBucle'
        BY <4>1, PasoTipado, CodigosEnteros
      <4>4. TipoPunteros'
        BY <4>1, <4>2 DEF PilaLlena, TipoPunteros, Niveles
      <4>5. TipoMarco' /\ TipoTries' /\ TipoFantasma'
        BY <4>1 DEF TipoMarco, TipoTries, TipoFantasma
      <4>6. QED
        BY <3>1, <4>3, <4>4, <4>5
    <3>4. QED
      BY <3>2, <3>3
  <2>5. CASE ReservarPila
    <3>1. TipoBucle'
      BY <2>5, PasoTipado DEF ReservarPila, TipoBucle
    <3>2. TipoMarco' /\ TipoMemoria'
      BY <2>5 DEF ReservarPila, EspacioDePila, TipoMarco, TipoMemoria, Direcciones
    <3>3. QED
      BY <2>5, <3>1, <3>2
         DEF ReservarPila, pilas, fantasma, TipoPunteros, TipoPilas, TipoTries, TipoFantasma
  <2>6. CASE Retornar
    <3>1. TipoBucle'
      BY <2>6, PasoTipado DEF Retornar, TipoBucle
    <3>2. TipoMarco' /\ TipoPunteros'
      BY <2>6 DEF Retornar, TipoMarco, TipoPunteros, TipoPilas, Direcciones, Niveles, Huecos
    <3>3. TipoFantasma'
      BY <2>6 DEF Retornar, TipoFantasma
    <3>4. QED
      BY <2>6, <3>1, <3>2, <3>3 DEF Retornar, memoria, TipoPilas, TipoTries, TipoMemoria
  <2>7. ASSUME NEW x \in Salidas, RetornarFinal(x) PROVE TypeOK'
    <3>1. TipoBucle'
      BY <2>7, PasoTipado DEF RetornarFinal
    <3>2. QED
      BY <2>7, <3>1 DEF RetornarFinal, marco, pilas, memoria, fantasma,
         TipoMarco, TipoPunteros, TipoPilas, TipoTries, TipoMemoria, TipoFantasma
  <2>8. CASE Halt \/ TryEnterSinEspacio
    <3>1. TipoBucle'
      BY <2>8, PasoTipado, CodigosEnteros DEF Halt, TryEnterSinEspacio
    <3>2. QED
      BY <2>8, <3>1 DEF Halt, TryEnterSinEspacio, marco, pilas, memoria, fantasma,
         TipoMarco, TipoPunteros, TipoPilas, TipoTries, TipoMemoria, TipoFantasma
  <2>9. CASE TryEnter \/ TryLeave \/ SalirDeIntentar
    <3>1. TipoBucle'
      BY <2>9, PasoTipado DEF TryEnter, TryLeave, SalirDeIntentar, TipoBucle
    <3>2. TipoTries'
      <4>1. CASE TryEnter
        BY <4>1 DEF TryEnter, TipoMarco, TipoPunteros, TipoTries, Manejador, Direcciones
      <4>2. CASE TryLeave
        BY <4>2, QuitarUltimo DEF TryLeave, TipoTries
      <4>3. QED
        BY <2>9, <4>1, <4>2 DEF SalirDeIntentar, TipoTries
    <3>3. TipoFantasma'
      <4>1. CASE TryEnter
        BY <4>1 DEF TryEnter, TipoTries, TipoPunteros, TipoFantasma
      <4>2. CASE TryLeave \/ SalirDeIntentar
        BY <4>2 DEF TryLeave, SalirDeIntentar, TipoFantasma
      <4>3. QED
        BY <2>9, <4>1, <4>2
    <3>4. QED
      BY <2>9, <3>1, <3>2, <3>3 DEF TryEnter, TryLeave, SalirDeIntentar, marco, pilas,
         memoria, TipoMarco, TipoPunteros, TipoPilas, TipoMemoria
  <2>10. ASSUME NEW n \in TamObjetos, HeapReservar(n) PROVE TypeOK'
    <3>1. TipoBucle'
      BY <2>10, PasoTipado DEF HeapReservar, TipoBucle
    <3>2. TipoMemoria'
      BY <2>10 DEF HeapReservar, TipoMemoria
    <3>3. QED
      BY <2>10, <3>1, <3>2 DEF HeapReservar, marco, pilas, fantasma,
         TipoMarco, TipoPunteros, TipoPilas, TipoTries, TipoFantasma
  <2>11. CASE UNCHANGED vars
    BY <2>11 DEF vars, marco, pilas, memoria, bucle, fantasma,
       TipoMarco, TipoPunteros, TipoPilas, TipoTries, TipoMemoria, TipoBucle, TipoFantasma
  <2>12. QED
    BY <2>1, <2>2, <2>3, <2>4, <2>5, <2>6, <2>7, <2>8, <2>9, <2>10, <2>11 DEF Next
<1>3. QED
  BY <1>1, <1>2, PTL DEF Spec

-----------------------------------------------------------------------------
(* Memory bounds.  CotaPila is not inductive: sp comes back from saved      *)
(* frames and from handlers, so the bound is carried for those too, each at *)
(* the depth it was saved at.  It needs no discipline of the program.       *)

CotaGuardada ==
  /\ fp <= Cota(stack_ptr)
  /\ \A i \in Huecos : fp_stack[i] <= Cota(i)
  /\ \A i \in 1 .. Len(tries) :
       /\ tries[i].fp <= Cota(tries[i].stack_ptr)
       /\ tries[i].sp <= Cota(tries[i].stack_ptr + 1)

InvEspacio == MemoriaAcotada /\ CotaPila /\ CotaGuardada

\* One level more costs at most one frame.
LEMMA CotaSiguiente ==
  ASSUME NEW d \in Nat
  PROVE  Cota(d) \in Nat /\ Cota(d + 1) \in Nat /\ Cota(d + 1) = Cota(d) + MarcoMax
<1>1. d * MarcoMax \in Nat /\ (d + 1) * MarcoMax = d * MarcoMax + MarcoMax
  OBVIOUS
<1>2. QED
  BY <1>1 DEF Cota

\* A handler restores pointers that were within bounds when it was registered,
\* and the memory has not shrunk since.
LEMMA SaltoEnEspacio ==
  ASSUME TypeOK, InvEspacio, SaltarAlManejador,
         memory_size' = memory_size, heap_top' = heap_top,
         \A i \in Huecos : fp_stack'[i] <= memory_size /\ fp_stack'[i] <= Cota(i)
  PROVE  InvEspacio'
<1> DEFINE m == tries[Len(tries)]
<1>1. /\ tries \in Seq(Manejador) /\ tries # <<>>
      /\ tries' = SubSeq(tries, 1, Len(tries) - 1)
  BY DEF TypeOK, TipoTries, SaltarAlManejador
<1>2. /\ Len(tries) \in Nat \ {0} /\ Len(tries') = Len(tries) - 1
      /\ \A i \in 1 .. Len(tries') : i \in 1 .. Len(tries) /\ tries'[i] = tries[i]
  BY <1>1, QuitarUltimo
<1>3. /\ fp' = m.fp /\ sp' = m.sp
      /\ stack_ptr' = m.stack_ptr /\ fp_stack_ptr' = m.fp_stack_ptr
  BY DEF SaltarAlManejador
<1>4. Len(tries) \in 1 .. Len(tries)
  BY <1>2
<1>5. /\ m.fp <= memory_size /\ m.sp <= memory_size /\ m.stack_ptr = m.fp_stack_ptr
      /\ m.fp <= Cota(m.stack_ptr) /\ m.sp <= Cota(m.stack_ptr + 1)
  BY <1>4 DEF InvEspacio, MemoriaAcotada, CotaGuardada
<1> HIDE DEF m
<1>6. MemoriaAcotada'
  BY <1>2, <1>3, <1>5 DEF InvEspacio, MemoriaAcotada
<1>7. CotaPila' /\ CotaGuardada'
  BY <1>2, <1>3, <1>5 DEF InvEspacio, CotaPila, CotaGuardada, Cota
<1>8. QED
  BY <1>6, <1>7 DEF InvEspacio

\* Steps that only move the loop's variables, or the ghost ones.
LEMMA EspacioQuieto ==
  ASSUME InvEspacio, UNCHANGED <<marco, pilas, tries, memoria>>
  PROVE  InvEspacio'
BY DEF InvEspacio, MemoriaAcotada, CotaPila, CotaGuardada, Cota, marco, pilas, memoria

\* An error taken by a handler, or that stops the VM, keeps the bounds of the space.
LEMMA ErrorEnEspacio ==
  ASSUME TypeOK, InvEspacio,
         \/ SaltarAlManejador
         \/ SinManejador /\ UNCHANGED <<stack_ptr, fp_stack_ptr>>,
         UNCHANGED <<stack, fp_stack, closure_env_stack, memoria>>
  PROVE  InvEspacio'
<1>1. CASE SaltarAlManejador
  BY <1>1, SaltoEnEspacio DEF InvEspacio, MemoriaAcotada, CotaGuardada, memoria
<1>2. CASE SinManejador /\ UNCHANGED <<stack_ptr, fp_stack_ptr>>
  BY <1>2, EspacioQuieto DEF SinManejador, pilas
<1>3. QED
  BY <1>1, <1>2

\* OP_LLAMAR's saving of the context keeps the saved frames within bounds.
LEMMA GuardarEnEspacio ==
  ASSUME TypeOK, InvEspacio, ~PilaLlena, GuardarContexto
  PROVE  /\ \A i \in Huecos : fp_stack'[i] <= memory_size /\ fp_stack'[i] <= Cota(i)
         /\ sp <= Cota(stack_ptr + 2)
<1>1. fp_stack' = [fp_stack EXCEPT ![stack_ptr] = fp] /\ stack_ptr \in Nat
  BY DEF GuardarContexto, InvEspacio, MemoriaAcotada, TypeOK, TipoPunteros, Niveles
<1>2. \A i \in Huecos : fp_stack'[i] <= memory_size /\ fp_stack'[i] <= Cota(i)
  BY <1>1 DEF InvEspacio, MemoriaAcotada, CotaGuardada, TypeOK, TipoPilas
<1>3. Cota(stack_ptr + 1) \in Nat /\ Cota(stack_ptr + 2) = Cota(stack_ptr + 1) + MarcoMax
  BY <1>1, CotaSiguiente, stack_ptr + 1 \in Nat, (stack_ptr + 1) + 1 = stack_ptr + 2
<1>4. sp <= Cota(stack_ptr + 2)
  BY <1>3 DEF InvEspacio, CotaPila, TypeOK, TipoMarco
<1>5. QED
  BY <1>2, <1>4

\* The bounds of the space hold of the VM that vm_create returns.
LEMMA EspacioInicial == Init => InvEspacio
<1> SUFFICES ASSUME Init PROVE InvEspacio
  OBVIOUS
<1>1. \A d \in Nat : Cota(d) \in Nat /\ Cota(d) >= BasePila
  <2>1. ASSUME NEW d \in Nat PROVE d * MarcoMax \in Nat
    OBVIOUS
  <2>2. QED
    BY <2>1 DEF Cota
<1>2. MemoriaAcotada
  BY DEF Init, MemoriaAcotada, Huecos
<1>3. CotaPila /\ CotaGuardada
  BY <1>1 DEF Init, CotaPila, CotaGuardada, Huecos
<1>4. QED
  BY <1>2, <1>3 DEF InvEspacio

\* No step of the VM leaves the bounds of the space.
LEMMA EspacioPaso == TypeOK /\ InvEspacio /\ [Next]_vars => InvEspacio'
<1> SUFFICES ASSUME TypeOK, InvEspacio, [Next]_vars PROVE InvEspacio'
  OBVIOUS
<1>p. stack_ptr \in Nat /\ fp \in Nat /\ sp \in Nat /\ memory_size \in Nat /\ stack_ptr = fp_stack_ptr
  BY DEF TypeOK, TipoPunteros, TipoMarco, TipoMemoria, Niveles, InvEspacio, MemoriaAcotada
<1>1. CASE Lanzar \/ DivisionPorCero \/ AccesoInvalido \/ LlamarSinEspacio \/ ReservarPilaFalla
  BY <1>1, ErrorEnEspacio
     DEF Lanzar, DivisionPorCero, AccesoInvalido, LlamarSinEspacio, ReservarPilaFalla
<1>2. ASSUME NEW f \in Funciones, NEW e \in Entornos, Llamar(f, e)
      PROVE  InvEspacio'
  <2>1. /\ stack_ptr' = stack_ptr + 1 /\ fp_stack_ptr' = fp_stack_ptr + 1
        /\ fp' = sp /\ UNCHANGED <<sp, tries, heap_top, memory_size>>
        /\ ~PilaLlena /\ GuardarContexto
    BY <1>2 DEF Llamar, memoria
  <2>2. QED
    BY <1>p, <2>1, GuardarEnEspacio
       DEF InvEspacio, MemoriaAcotada, CotaPila, CotaGuardada, Cota
<1>3. CASE LlamarClosureInvalido
  <2>1. ~PilaLlena /\ GuardarContexto /\ UNCHANGED <<heap_top, memory_size>>
    BY <1>3 DEF LlamarClosureInvalido, memoria
  <2>2. CASE SaltarAlManejador
    BY <2>1, <2>2, GuardarEnEspacio, SaltoEnEspacio
  <2>3. CASE ~SaltarAlManejador
    <3>1. /\ stack_ptr' = stack_ptr + 1 /\ fp_stack_ptr' = fp_stack_ptr + 1
          /\ fp' = sp /\ UNCHANGED <<sp, tries>>
      BY <1>3, <2>3 DEF LlamarClosureInvalido
    <3>2. QED
      BY <1>p, <2>1, <3>1, GuardarEnEspacio
         DEF InvEspacio, MemoriaAcotada, CotaPila, CotaGuardada, Cota
  <2>4. QED
    BY <2>2, <2>3
<1>4. CASE ReservarPila
  <2> DEFINE bytes == IF sp > fp THEN 0 ELSE TamMarco[pc.fn]
  <2>1. bytes \in 0 .. MarcoMax
    BY DEF TypeOK, TipoMarco, Direcciones
  <2>2. /\ sp' = sp + bytes /\ UNCHANGED <<fp, stack_ptr, fp_stack_ptr, fp_stack, tries, heap_top>>
        /\ memory_size' \in Nat /\ memory_size' >= memory_size
        /\ sp + bytes <= memory_size' /\ memory_size' <= MemLimite
    BY <1>4, <1>p, <2>1, SMTT(20) DEF ReservarPila, EspacioDePila, pilas, InvEspacio, MemoriaAcotada
  <2>3. sp + bytes <= Cota(stack_ptr + 1)
    <3>1. CASE sp > fp
      BY <1>p, <3>1 DEF InvEspacio, CotaPila
    <3>2. CASE ~(sp > fp)
      <4>1. fp <= Cota(stack_ptr)
        BY DEF InvEspacio, CotaGuardada
      <4>2. Cota(stack_ptr) \in Nat /\ Cota(stack_ptr + 1) = Cota(stack_ptr) + MarcoMax
        BY <1>p, CotaSiguiente
      <4> HIDE DEF bytes
      <4>3. QED
        BY <1>p, <2>1, <3>2, <4>1, <4>2
    <3>3. QED
      BY <3>1, <3>2
  <2> HIDE DEF bytes
  <2>4. \A i \in Huecos : fp_stack[i] \in Nat
    BY DEF TypeOK, TipoPilas
  <2>5. ASSUME NEW i \in 1 .. Len(tries)
        PROVE  tries[i].fp \in Nat /\ tries[i].sp \in Nat
    <3>1. tries[i] \in Manejador
      BY DEF TypeOK, TipoTries
    <3>2. QED
      BY <3>1 DEF Manejador
  <2>6. heap_top \in Nat
    BY DEF TypeOK, TipoMemoria
  <2>7. MemoriaAcotada'
    BY <1>p, <2>1, <2>2, <2>4, <2>5, <2>6 DEF InvEspacio, MemoriaAcotada
  <2>8. CotaPila' /\ CotaGuardada'
    BY <2>2, <2>3 DEF InvEspacio, CotaPila, CotaGuardada, Cota
  <2>9. QED
    BY <2>7, <2>8 DEF InvEspacio
<1>5. CASE Retornar
  <2>1. /\ stack_ptr - 1 \in Huecos
        /\ sp' = fp /\ fp' = fp_stack[stack_ptr - 1]
        /\ stack_ptr' = stack_ptr - 1 /\ fp_stack_ptr' = fp_stack_ptr - 1
        /\ UNCHANGED <<fp_stack, tries, heap_top, memory_size>>
    BY <1>5, <1>p DEF Retornar, memoria, Huecos, TypeOK, TipoPunteros, Niveles
  <2>2. fp <= Cota(stack_ptr) /\ (stack_ptr - 1) + 1 = stack_ptr
    BY <1>p DEF InvEspacio, CotaGuardada
  <2>3. MemoriaAcotada'
    BY <1>p, <2>1 DEF InvEspacio, MemoriaAcotada
  <2>4. CotaPila' /\ CotaGuardada'
    BY <2>1, <2>2 DEF InvEspacio, CotaPila, CotaGuardada, Cota
  <2>5. QED
    BY <2>3, <2>4 DEF InvEspacio
<1>6. ASSUME NEW x \in Salidas, RetornarFinal(x) PROVE InvEspacio'
  BY <1>6, EspacioQuieto DEF RetornarFinal
<1>7. CASE Halt \/ TryEnterSinEspacio \/ SalirDeIntentar
  BY <1>7, EspacioQuieto DEF Halt, TryEnterSinEspacio, SalirDeIntentar
<1>8. CASE TryEnter
  <2> DEFINE m == [fn |-> pc.fn, fp |-> fp, sp |-> sp, stack_ptr |-> stack_ptr,
                   fp_stack_ptr |-> fp_stack_ptr, env |-> current_closure_env]
  <2>1. tries \in Seq(Manejador) /\ tries' = Append(tries, m)
    BY <1>8 DEF TryEnter, TypeOK, TipoTries
  <2>2. UNCHANGED <<fp, sp, stack_ptr, fp_stack_ptr, fp_stack, heap_top, memory_size>>
    BY <1>8 DEF TryEnter, marco, pilas, memoria
  <2>3. ASSUME NEW i \in 1 .. Len(tries')
        PROVE  tries'[i] = m \/ (i \in 1 .. Len(tries) /\ tries'[i] = tries[i])
    BY <2>1
  <2>4. MemoriaAcotada'
    BY <2>2, <2>3 DEF InvEspacio, MemoriaAcotada
  <2>5. CotaPila' /\ CotaGuardada'
    BY <2>2, <2>3 DEF InvEspacio, CotaPila, CotaGuardada, Cota
  <2>6. QED
    BY <2>4, <2>5 DEF InvEspacio
<1>9. CASE TryLeave
  <2>1. UNCHANGED <<fp, sp, stack_ptr, fp_stack_ptr, fp_stack, heap_top, memory_size>>
    BY <1>9 DEF TryLeave, marco, pilas, memoria
  <2>2. \A i \in 1 .. Len(tries') : i \in 1 .. Len(tries) /\ tries'[i] = tries[i]
    BY <1>9, QuitarUltimo DEF TryLeave, TypeOK, TipoTries
  <2>3. QED
    BY <2>1, <2>2 DEF InvEspacio, MemoriaAcotada, CotaPila, CotaGuardada, Cota
<1>10. ASSUME NEW n \in TamObjetos, HeapReservar(n) PROVE InvEspacio'
  BY <1>10 DEF HeapReservar, marco, pilas, InvEspacio, MemoriaAcotada, CotaPila, CotaGuardada, Cota
<1>11. CASE UNCHANGED vars
  BY <1>11, EspacioQuieto DEF vars
<1>12. QED
  BY <1>1, <1>2, <1>3, <1>4, <1>5, <1>6, <1>7, <1>8, <1>9, <1>10, <1>11 DEF Next

\* No program, with or without early exits from intentar bodies, makes a frame,
\* a saved frame or a handler point past the allocated memory.
THEOREM MemoriaSegura == Spec => []MemoriaAcotada
<1>1. InvEspacio => MemoriaAcotada
  BY DEF InvEspacio
<1>2. QED
  BY <1>1, TiposCorrectos, EspacioInicial, EspacioPaso, PTL DEF Spec

\* The stack pointer never passes what the depth of calls explains: neither
\* returns nor caught errors leak stack.
THEOREM PilaSinFugas == Spec => []CotaPila
<1>1. InvEspacio => CotaPila
  BY DEF InvEspacio
<1>2. QED
  BY <1>1, TiposCorrectos, EspacioInicial, EspacioPaso, PTL DEF Spec

-----------------------------------------------------------------------------
(* Frames and handlers of disciplined programs.  The three properties are   *)
(* proved together: a handler restores a frame (ManejadoresVivos) that must *)
(* be one of the chain (MarcosContiguos), and a return is only safe because *)
(* no handler of the finished frame remains.                                *)

Vivos ==
  /\ NivelesAbiertos
  /\ \A i \in 1 .. Len(tries) : DeMarcoVivo(tries[i])
  /\ TriesOrdenados

EntornosDe == \A d \in 0 .. stack_ptr : EnvDe(d) = env_de[d]

Ordenado == MarcosContiguos /\ Vivos /\ EntornosDe

\* The step leaves the activations up to depth k as they were.
Conserva(k) ==
  \A d \in 0 .. k : /\ FpDe(d)' = FpDe(d)
                    /\ FnDe(d)' = FnDe(d)
                    /\ EnvDe(d)' = EnvDe(d)

\* The handlers left after the step were there before, in the same order.
PrefijoDeTries ==
  /\ Len(tries) \in Nat /\ Len(tries') \in Nat /\ Len(tries') <= Len(tries)
  /\ \A i \in 1 .. Len(tries') : tries'[i] = tries[i]

\* Levels that a step keeps are still contiguous frames.
LEMMA CadenaConservada ==
  ASSUME MarcosContiguos, stack_ptr \in Nat, NEW k \in 0 .. stack_ptr, Conserva(k)
  PROVE  /\ FpDe(0)' = BasePila
         /\ \A d \in 1 .. k : FpDe(d)' = FpDe(d - 1)' + TamMarco[FnDe(d - 1)']
<1>1. FpDe(0)' = BasePila
  BY DEF MarcosContiguos, Conserva
<1>2. ASSUME NEW d \in 1 .. k
      PROVE  FpDe(d)' = FpDe(d - 1)' + TamMarco[FnDe(d - 1)']
  <2>1. d \in 0 .. k /\ d - 1 \in 0 .. k /\ d \in 1 .. stack_ptr
    OBVIOUS
  <2>2. FpDe(d) = FpDe(d - 1) + TamMarco[FnDe(d - 1)]
    BY <2>1 DEF MarcosContiguos
  <2>3. QED
    BY <2>1, <2>2 DEF Conserva
<1>3. QED
  BY <1>1, <1>2

\* Handlers of activations up to depth k survive a step that conserves those.
LEMMA VivosConservados ==
  ASSUME TypeOK, Vivos, NEW k \in Nat, k <= stack_ptr', Conserva(k), PrefijoDeTries,
         stack_ptr' \in Nat,
         \A i \in 1 .. Len(tries') : tries[i].stack_ptr <= k
  PROVE  (\A i \in 1 .. Len(tries') : DeMarcoVivo(tries[i])') /\ TriesOrdenados'
<1>1. ASSUME NEW i \in 1 .. Len(tries')
      PROVE  DeMarcoVivo(tries[i])'
  <2>1. i \in 1 .. Len(tries) /\ tries'[i] = tries[i]
    BY DEF PrefijoDeTries
  <2>2. tries[i] \in Manejador
    BY <2>1 DEF TypeOK, TipoTries
  <2>3. PICK m \in Manejador : m = tries[i]
    BY <2>2
  <2>4. PICK d \in 0 .. k : d = m.stack_ptr
    BY <2>1, <2>3 DEF Manejador, Niveles
  <2>5. DeMarcoVivo(m)
    BY <2>1, <2>3 DEF Vivos
  <2>6. /\ d <= stack_ptr'
        /\ m.fn = FnDe(d)' /\ m.fp = FpDe(d)'
        /\ m.sp = m.fp + TamMarco[m.fn] /\ m.env = EnvDe(d)'
    BY <2>4, <2>5 DEF DeMarcoVivo, Conserva
  <2>7. DeMarcoVivo(m)'
    BY <2>4, <2>6 DEF DeMarcoVivo
  <2>8. QED
    BY <2>1, <2>3, <2>7 DEF DeMarcoVivo, FnDe, FpDe, EnvDe
<1>2. TriesOrdenados'
  BY DEF Vivos, TriesOrdenados, PrefijoDeTries
<1>3. QED
  BY <1>1, <1>2

\* Removing the newest level leaves a prefix, and types tell what was removed.
LEMMA QuitarDeTries ==
  ASSUME TypeOK, tries # <<>>, tries' = SubSeq(tries, 1, Len(tries) - 1)
  PROVE  /\ PrefijoDeTries
         /\ Len(tries) \in Nat \ {0} /\ Len(tries') = Len(tries) - 1
         /\ \A i \in 1 .. Len(tries) : tries[i] \in Manejador
<1>1. tries \in Seq(Manejador)
  BY DEF TypeOK, TipoTries
<1>2. /\ Len(tries) \in Nat \ {0} /\ Len(tries') = Len(tries) - 1
      /\ \A i \in 1 .. Len(tries') : tries'[i] = tries[i]
  BY <1>1, QuitarUltimo
<1>3. PrefijoDeTries
  BY <1>2 DEF PrefijoDeTries
<1>4. QED
  BY <1>1, <1>2, <1>3

\* Taking the newest handler of a disciplined program lands in an activation
\* that is still on the stack, with the context it had.
LEMMA SaltoOrdenado ==
  ASSUME TypeOK, Ordenado, SaltarAlManejador,
         \A i \in Huecos : i < stack_ptr =>
           /\ stack'[i] = stack[i] /\ fp_stack'[i] = fp_stack[i]
           /\ closure_env_stack'[i] = closure_env_stack[i]
  PROVE  Ordenado'
<1>1. /\ PrefijoDeTries
      /\ Len(tries) \in Nat \ {0} /\ Len(tries') = Len(tries) - 1
      /\ \A i \in 1 .. Len(tries) : tries[i] \in Manejador
  BY QuitarDeTries DEF SaltarAlManejador
<1>2. PICK m \in Manejador : m = tries[Len(tries)]
  BY <1>1
<1>3. PICK k \in Niveles : k = m.stack_ptr
  BY DEF Manejador
<1>4. DeMarcoVivo(m)
  BY <1>1, <1>2 DEF Ordenado, Vivos
<1>5. /\ pc' = [fn |-> m.fn, fase |-> "cuerpo"]
      /\ fp' = m.fp /\ sp' = m.sp /\ stack_ptr' = k /\ current_closure_env' = m.env
  BY <1>2, <1>3 DEF SaltarAlManejador
<1>6. k \in Nat /\ k <= stack_ptr /\ stack_ptr \in Nat /\ stack_ptr <= MaxRecursion
  BY <1>3, <1>4 DEF DeMarcoVivo, Niveles, TypeOK, TipoPunteros
<1>7. Conserva(k)
  <2> SUFFICES ASSUME NEW d \in 0 .. k
               PROVE  /\ FpDe(d)' = FpDe(d) /\ FnDe(d)' = FnDe(d) /\ EnvDe(d)' = EnvDe(d)
    BY DEF Conserva
  <2>1. CASE d = k
    BY <1>3, <1>4, <1>5, <2>1 DEF DeMarcoVivo, FpDe, FnDe, EnvDe
  <2>2. CASE d # k
    <3>1. d \in Huecos /\ d < stack_ptr
      BY <1>6, <2>2 DEF Huecos
    <3>2. QED
      BY <1>5, <1>6, <2>2, <3>1 DEF FpDe, FnDe, EnvDe
  <2>3. QED
    BY <2>1, <2>2
<1>8. MarcosContiguos'
  <2>1. sp' = fp' + TamMarco[pc'.fn] /\ pc'.fase = "cuerpo"
    BY <1>4, <1>5 DEF DeMarcoVivo
  <2>2. k \in 0 .. stack_ptr
    BY <1>6
  <2>3. /\ FpDe(0)' = BasePila
        /\ \A d \in 1 .. k : FpDe(d)' = FpDe(d - 1)' + TamMarco[FnDe(d - 1)']
    BY <1>6, <1>7, <2>2, CadenaConservada DEF Ordenado
  <2>4. QED
    BY <1>5, <2>1, <2>3 DEF MarcosContiguos
<1>9. ASSUME NEW i \in 1 .. Len(tries)
      PROVE  tries[i].stack_ptr <= k
  BY <1>1, <1>2, <1>3 DEF Ordenado, Vivos, TriesOrdenados
<1>10. (\A i \in 1 .. Len(tries') : DeMarcoVivo(tries[i])') /\ TriesOrdenados'
  <2>1. \A i \in 1 .. Len(tries') : tries[i].stack_ptr <= k
    BY <1>1, <1>9
  <2>2. k <= stack_ptr' /\ stack_ptr' \in Nat
    BY <1>5, <1>6
  <2>3. QED
    BY <1>1, <1>6, <1>7, <2>1, <2>2, VivosConservados DEF Ordenado
<1>11. NivelesAbiertos'
  <2>1. abiertos' = [d \in Niveles |->
                       IF d < k THEN abiertos[d]
                       ELSE IF d = k THEN {i \in abiertos[d] : i < Len(tries)}
                       ELSE {}]
    BY <1>2, <1>3 DEF SaltarAlManejador
  <2>2. \A d \in Niveles : abiertos[d] = {i \in 1 .. Len(tries) : tries[i].stack_ptr = d}
    BY DEF Ordenado, Vivos, NivelesAbiertos
  <2>3. \A i \in 1 .. Len(tries') : tries'[i] = tries[i] /\ i \in 1 .. Len(tries) /\ i < Len(tries)
    BY <1>1 DEF PrefijoDeTries
  <2>4. ASSUME NEW d \in Niveles
        PROVE  abiertos'[d] = {i \in 1 .. Len(tries') : tries'[i].stack_ptr = d}
    <3>1. CASE d < k
      <4>1. tries[Len(tries)].stack_ptr # d
        BY <1>2, <1>3, <1>6, <3>1 DEF Niveles
      <4>2. {i \in 1 .. Len(tries) : tries[i].stack_ptr = d}
              = {i \in 1 .. Len(tries') : tries'[i].stack_ptr = d}
        <5>1. Len(tries) \in Nat \ {0} /\ Len(tries') = Len(tries) - 1
          BY <1>1
        <5>2. ASSUME NEW i \in Int
              PROVE  i \in 1 .. Len(tries) /\ tries[i].stack_ptr = d
                       <=> i \in 1 .. Len(tries') /\ tries'[i].stack_ptr = d
          <6>1. CASE i \in 1 .. Len(tries')
            BY <2>3, <6>1
          <6>2. CASE i \notin 1 .. Len(tries')
            <7>1. i \in 1 .. Len(tries) => i = Len(tries)
              BY <5>1, <6>2
            <7>2. QED
              BY <4>1, <6>2, <7>1
          <6>3. QED
            BY <6>1, <6>2
        <5>3. QED
          BY <5>1, <5>2
      <4>3. QED
        BY <2>1, <2>2, <3>1, <4>2
    <3>2. CASE d = k
      <4>1. {i \in {j \in 1 .. Len(tries) : tries[j].stack_ptr = d} : i < Len(tries)}
              = {i \in 1 .. Len(tries') : tries'[i].stack_ptr = d}
        BY <1>1, <2>3
      <4>2. QED
        BY <1>6, <2>1, <2>2, <3>2, <4>1
    <3>3. CASE d > k
      <4>1. \A i \in 1 .. Len(tries') : tries'[i].stack_ptr # d
        <5> SUFFICES ASSUME NEW i \in 1 .. Len(tries') PROVE tries'[i].stack_ptr # d
          OBVIOUS
        <5>1. tries'[i] = tries[i] /\ tries[i].stack_ptr <= k /\ tries[i] \in Manejador
          BY <1>1, <1>9, <2>3
        <5>2. QED
          BY <1>6, <3>3, <5>1, SMTT(20) DEF Manejador, Niveles
      <4>2. abiertos'[d] = {}
        BY <1>6, <2>1, <3>3 DEF Niveles
      <4>3. QED
        BY <4>1, <4>2
    <3>4. QED
      BY <1>6, <3>1, <3>2, <3>3 DEF Niveles
  <2>5. QED
    BY <2>4 DEF NivelesAbiertos
<1>12. EntornosDe'
  <2>1. \A d \in 0 .. k : env_de'[d] = env_de[d]
    BY <1>2, <1>3, <1>6 DEF SaltarAlManejador, Niveles
  <2>2. \A d \in 0 .. k : EnvDe(d)' = EnvDe(d) /\ EnvDe(d) = env_de[d]
    BY <1>6, <1>7 DEF Conserva, Ordenado, EntornosDe
  <2>3. QED
    BY <1>5, <2>1, <2>2 DEF EntornosDe
<1>13. \A i \in 1 .. Len(tries') : DeMarcoVivo(tries[i])'
  BY <1>10
<1>14. QED
  BY <1>8, <1>10, <1>11, <1>12, <1>13 DEF Ordenado, Vivos

\* Steps that only move the loop's variables.
LEMMA OrdenQuieto ==
  ASSUME Ordenado, UNCHANGED <<marco, pilas, tries, abiertos, env_de>>
  PROVE  Ordenado'
<1>1. UNCHANGED <<pc, fp, sp, current_closure_env, stack_ptr, stack, fp_stack,
                  closure_env_stack, tries, abiertos, env_de>>
  BY DEF marco, pilas
<1>2. QED
  BY <1>1 DEF Ordenado, MarcosContiguos, Vivos, EntornosDe, NivelesAbiertos, DeMarcoVivo,
              TriesOrdenados, FpDe, FnDe, EnvDe

\* The order of frames, environments and handlers holds of a new VM.
LEMMA OrdenInicial == Init => Ordenado
<1> SUFFICES ASSUME Init PROVE Ordenado
  OBVIOUS
<1>1. stack_ptr = 0 /\ tries = <<>> /\ Len(tries) = 0
  BY DEF Init
<1>2. MarcosContiguos
  BY <1>1 DEF Init, MarcosContiguos, FpDe
<1>3. Vivos
  BY <1>1 DEF Init, Vivos, NivelesAbiertos, TriesOrdenados
<1>4. EntornosDe
  BY <1>1 DEF Init, EntornosDe, EnvDe, Niveles
<1>5. QED
  BY <1>2, <1>3, <1>4 DEF Ordenado

\* A call adds an activation above the others, with no handler of its own.
LEMMA LlamarOrdenado ==
  ASSUME TypeOK, InvEspacio, Ordenado, NEW f \in Funciones, NEW e \in Entornos, Llamar(f, e)
  PROVE  Ordenado'
<1>1. PICK k \in Niveles : k = stack_ptr
  BY DEF TypeOK, TipoPunteros
<1>2. /\ k \in Nat /\ k \in Huecos /\ k + 1 \in Niveles /\ fp_stack_ptr = k
      /\ k < MaxRecursion
  BY <1>1 DEF Llamar, PilaLlena, InvEspacio, MemoriaAcotada, Niveles, Huecos
<1>3. /\ stack_ptr' = k + 1 /\ fp' = sp /\ sp' = sp /\ tries' = tries
      /\ pc' = [fn |-> f, fase |-> "prologo"] /\ current_closure_env' = e
  BY <1>1 DEF Llamar
<1>4. /\ stack' = [stack EXCEPT ![k] = pc.fn]
      /\ fp_stack' = [fp_stack EXCEPT ![k] = fp]
      /\ closure_env_stack' = [closure_env_stack EXCEPT ![k] = current_closure_env]
  BY <1>1, <1>2 DEF Llamar, GuardarContexto
<1>5. pc.fase = "cuerpo"
  BY DEF Llamar, EnCuerpo
<1>6. Conserva(k)
  <2> SUFFICES ASSUME NEW d \in 0 .. k
               PROVE  /\ FpDe(d)' = FpDe(d) /\ FnDe(d)' = FnDe(d) /\ EnvDe(d)' = EnvDe(d)
    BY DEF Conserva
  <2>1. d \in Huecos /\ d # stack_ptr'
    BY <1>2, <1>3 DEF Huecos
  <2>2. /\ stack'[d] = (IF d = k THEN pc.fn ELSE stack[d])
        /\ fp_stack'[d] = (IF d = k THEN fp ELSE fp_stack[d])
        /\ closure_env_stack'[d] = (IF d = k THEN current_closure_env ELSE closure_env_stack[d])
    BY <1>4, <2>1 DEF TypeOK, TipoPilas
  <2>3. QED
    BY <1>1, <2>1, <2>2 DEF FpDe, FnDe, EnvDe
<1>7. MarcosContiguos'
  <2>1. k \in 0 .. stack_ptr /\ stack_ptr \in Nat
    BY <1>1, <1>2
  <2>2. /\ FpDe(0)' = BasePila
        /\ \A d \in 1 .. k : FpDe(d)' = FpDe(d - 1)' + TamMarco[FnDe(d - 1)']
    BY <1>6, <2>1, CadenaConservada DEF Ordenado
  <2>3. sp = FpDe(k) + TamMarco[FnDe(k)]
    BY <1>1, <1>5 DEF Ordenado, MarcosContiguos, FpDe, FnDe
  <2>4. FpDe(k)' = FpDe(k) /\ FnDe(k)' = FnDe(k)
    BY <1>2, <1>6 DEF Conserva
  <2>5. \A d \in 1 .. k + 1 : FpDe(d)' = FpDe(d - 1)' + TamMarco[FnDe(d - 1)']
    <3> SUFFICES ASSUME NEW d \in 1 .. k + 1
                 PROVE  FpDe(d)' = FpDe(d - 1)' + TamMarco[FnDe(d - 1)']
      OBVIOUS
    <3>1. CASE d \in 1 .. k
      BY <2>2, <3>1
    <3>2. CASE d = k + 1
      <4>1. d - 1 = k
        BY <1>2, <3>2
      <4>2. FpDe(d)' = sp
        BY <1>3, <3>2 DEF FpDe
      <4>3. QED
        BY <2>3, <2>4, <4>1, <4>2
    <3>3. QED
      BY <1>2, <3>1, <3>2
  <2>6. sp' = fp' + 0
    BY <1>3 DEF TypeOK, TipoMarco
  <2>7. QED
    BY <1>3, <2>2, <2>5, <2>6 DEF MarcosContiguos
<1>8. \A i \in 1 .. Len(tries) : tries[i] \in Manejador /\ tries[i].stack_ptr <= k
  BY <1>1 DEF TypeOK, TipoTries, Ordenado, Vivos, DeMarcoVivo
<1>9. PrefijoDeTries
  BY <1>3 DEF PrefijoDeTries, TypeOK, TipoTries
<1>10. (\A i \in 1 .. Len(tries') : DeMarcoVivo(tries[i])') /\ TriesOrdenados'
  BY <1>2, <1>3, <1>6, <1>8, <1>9, VivosConservados, SMTT(20) DEF Ordenado
<1>11. NivelesAbiertos'
  <2>1. abiertos' = [abiertos EXCEPT ![k + 1] = {}]
    BY <1>1 DEF Llamar
  <2>2. \A i \in 1 .. Len(tries) : tries[i].stack_ptr # k + 1
    BY <1>2, <1>8 DEF Manejador, Niveles
  <2>3. ASSUME NEW d \in Niveles
        PROVE  abiertos'[d] = {i \in 1 .. Len(tries') : tries'[i].stack_ptr = d}
    BY <1>2, <1>3, <2>1, <2>2 DEF TypeOK, TipoFantasma, Ordenado, Vivos, NivelesAbiertos
  <2>4. QED
    BY <2>3 DEF NivelesAbiertos
<1>12. EntornosDe'
  <2>1. env_de' = [env_de EXCEPT ![k + 1] = e]
    BY <1>1 DEF Llamar
  <2>2. ASSUME NEW d \in 0 .. k + 1
        PROVE  EnvDe(d)' = env_de'[d]
    <3>1. CASE d = k + 1
      BY <1>2, <1>3, <2>1, <3>1 DEF EnvDe, TypeOK, TipoFantasma
    <3>2. CASE d \in 0 .. k
      <4>1. EnvDe(d)' = EnvDe(d) /\ EnvDe(d) = env_de[d]
        BY <1>1, <1>6, <3>2 DEF Conserva, Ordenado, EntornosDe
      <4>2. d \in Niveles /\ d # k + 1
        BY <1>2, <3>2 DEF Niveles
      <4>3. QED
        BY <2>1, <4>1, <4>2 DEF TypeOK, TipoFantasma
    <3>3. QED
      BY <1>2, <3>1, <3>2
  <2>3. QED
    BY <1>3, <2>2 DEF EntornosDe
<1>13. QED
  BY <1>7, <1>10, <1>11, <1>12 DEF Ordenado, Vivos

\* The prologue completes the newest frame and leaves the rest alone.
LEMMA ReservarOrdenado ==
  ASSUME TypeOK, Ordenado, ReservarPila
  PROVE  Ordenado'
<1>1. /\ stack_ptr' = stack_ptr /\ fp' = fp /\ tries' = tries
      /\ current_closure_env' = current_closure_env
      /\ stack' = stack /\ fp_stack' = fp_stack /\ closure_env_stack' = closure_env_stack
      /\ pc'.fn = pc.fn /\ pc'.fase = "cuerpo"
      /\ abiertos' = abiertos /\ env_de' = env_de
  BY DEF ReservarPila, pilas, fantasma, TypeOK, TipoMarco, Direcciones
<1>2. PICK k \in Niveles : k = stack_ptr
  BY DEF TypeOK, TipoPunteros
<1>3. k \in Nat
  BY DEF Niveles
<1>4. Conserva(k)
  BY <1>1 DEF Conserva, FpDe, FnDe, EnvDe
<1>5. MarcosContiguos'
  <2>1. sp = fp /\ fp \in Nat
    BY DEF Ordenado, MarcosContiguos, ReservarPila, TypeOK, TipoMarco
  <2>2. sp' = fp' + TamMarco[pc'.fn]
    BY <1>1, <2>1 DEF ReservarPila
  <2>3. k \in 0 .. stack_ptr /\ stack_ptr \in Nat
    BY <1>2, <1>3
  <2>4. /\ FpDe(0)' = BasePila
        /\ \A d \in 1 .. k : FpDe(d)' = FpDe(d - 1)' + TamMarco[FnDe(d - 1)']
    BY <1>4, <2>3, CadenaConservada DEF Ordenado
  <2>5. QED
    BY <1>1, <1>2, <2>2, <2>4 DEF MarcosContiguos
<1>6. \A i \in 1 .. Len(tries) : tries[i] \in Manejador /\ tries[i].stack_ptr <= k
  BY <1>2 DEF TypeOK, TipoTries, Ordenado, Vivos, DeMarcoVivo
<1>7. PrefijoDeTries
  BY <1>1 DEF PrefijoDeTries, TypeOK, TipoTries
<1>8. (\A i \in 1 .. Len(tries') : DeMarcoVivo(tries[i])') /\ TriesOrdenados'
  <2>1. k <= stack_ptr' /\ stack_ptr' \in Nat
    BY <1>1, <1>2, <1>3
  <2>2. QED
    BY <1>1, <1>3, <1>4, <1>6, <1>7, <2>1, VivosConservados DEF Ordenado
<1>9. NivelesAbiertos' /\ EntornosDe'
  BY <1>1 DEF Ordenado, Vivos, NivelesAbiertos, EntornosDe, EnvDe
<1>10. QED
  BY <1>5, <1>8, <1>9 DEF Ordenado, Vivos

\* A return from an activation whose intentar bodies are all closed finds the
\* caller as it left it, and no handler of the finished activation remains.
LEMMA RetornarOrdenado ==
  ASSUME TypeOK, InvEspacio, Ordenado, Retornar, ~salio_antes'
  PROVE  Ordenado'
<1>1. PICK k \in Niveles : k = stack_ptr - 1
  BY DEF TypeOK, TipoPunteros, Niveles, Retornar
<1>2. /\ k \in Nat /\ k \in Huecos /\ stack_ptr = k + 1 /\ fp_stack_ptr = k + 1
      /\ k + 1 \in Niveles
  BY <1>1 DEF Niveles, Huecos, TypeOK, TipoPunteros, InvEspacio, MemoriaAcotada
<1>3. /\ stack_ptr' = k /\ sp' = fp /\ fp' = fp_stack[k] /\ tries' = tries
      /\ current_closure_env' = closure_env_stack[k]
      /\ pc' = [fn |-> stack[k], fase |-> "cuerpo"]
      /\ stack' = stack /\ fp_stack' = fp_stack /\ closure_env_stack' = closure_env_stack
      /\ abiertos' = [abiertos EXCEPT ![k + 1] = {}]
      /\ env_de' = [env_de EXCEPT ![k + 1] = 0]
      /\ abiertos[k + 1] = {}
  <2>1. fp_stack_ptr - 1 = k /\ stack_ptr - 1 = k
    BY <1>2
  <2>2. QED
    BY <1>2, <2>1 DEF Retornar
<1>4. Conserva(k)
  <2> SUFFICES ASSUME NEW d \in 0 .. k
               PROVE  /\ FpDe(d)' = FpDe(d) /\ FnDe(d)' = FnDe(d) /\ EnvDe(d)' = EnvDe(d)
    BY DEF Conserva
  <2>1. d # stack_ptr
    BY <1>2
  <2>2. QED
    BY <1>3, <2>1 DEF FpDe, FnDe, EnvDe
<1>5. MarcosContiguos'
  <2>1. k \in 0 .. stack_ptr /\ stack_ptr \in Nat
    BY <1>2
  <2>2. /\ FpDe(0)' = BasePila
        /\ \A d \in 1 .. k : FpDe(d)' = FpDe(d - 1)' + TamMarco[FnDe(d - 1)']
    BY <1>4, <2>1, CadenaConservada DEF Ordenado
  <2>3. fp = fp_stack[k] + TamMarco[stack[k]]
    <3>1. k + 1 \in 1 .. stack_ptr /\ (k + 1) - 1 = k /\ k # stack_ptr
      BY <1>2
    <3>2. FpDe(k + 1) = FpDe(k) + TamMarco[FnDe(k)]
      BY <3>1 DEF Ordenado, MarcosContiguos
    <3>3. QED
      BY <1>2, <3>1, <3>2 DEF FpDe, FnDe
  <2>4. QED
    BY <1>3, <2>2, <2>3 DEF MarcosContiguos
<1>6. \A i \in 1 .. Len(tries) : tries[i] \in Manejador /\ tries[i].stack_ptr # k + 1
  BY <1>2, <1>3 DEF TypeOK, TipoTries, Ordenado, Vivos, NivelesAbiertos
<1>7. \A i \in 1 .. Len(tries) : tries[i].stack_ptr <= k
  <2> SUFFICES ASSUME NEW i \in 1 .. Len(tries) PROVE tries[i].stack_ptr <= k
    OBVIOUS
  <2>1. tries[i].stack_ptr \in Niveles /\ tries[i].stack_ptr <= stack_ptr
    BY <1>6 DEF Manejador, Ordenado, Vivos, DeMarcoVivo
  <2>2. QED
    BY <1>2, <1>6, <2>1 DEF Niveles
<1>8. PrefijoDeTries
  BY <1>3 DEF PrefijoDeTries, TypeOK, TipoTries
<1>9. (\A i \in 1 .. Len(tries') : DeMarcoVivo(tries[i])') /\ TriesOrdenados'
  <2>1. k <= stack_ptr' /\ stack_ptr' \in Nat
    BY <1>2, <1>3
  <2>2. QED
    BY <1>2, <1>3, <1>4, <1>7, <1>8, <2>1, VivosConservados DEF Ordenado
<1>10. NivelesAbiertos'
  <2>1. abiertos' = abiertos
    BY <1>3 DEF TypeOK, TipoFantasma
  <2>2. QED
    BY <1>3, <2>1 DEF Ordenado, Vivos, NivelesAbiertos
<1>11. EntornosDe'
  <2> SUFFICES ASSUME NEW d \in 0 .. k PROVE EnvDe(d)' = env_de'[d]
    BY <1>3 DEF EntornosDe
  <2>1. d \in 0 .. stack_ptr /\ d \in Niveles /\ d # k + 1
    BY <1>2 DEF Niveles
  <2>2. EnvDe(d)' = EnvDe(d) /\ EnvDe(d) = env_de[d]
    BY <1>4, <2>1 DEF Conserva, Ordenado, EntornosDe
  <2>3. QED
    BY <1>3, <2>1, <2>2 DEF TypeOK, TipoFantasma
<1>12. QED
  BY <1>5, <1>9, <1>10, <1>11 DEF Ordenado, Vivos

\* Entering an intentar body registers the running activation, the newest one.
LEMMA EntrarOrdenado ==
  ASSUME TypeOK, InvEspacio, Ordenado, TryEnter
  PROVE  Ordenado'
<1> DEFINE m == [fn |-> pc.fn, fp |-> fp, sp |-> sp, stack_ptr |-> stack_ptr,
                 fp_stack_ptr |-> fp_stack_ptr, env |-> current_closure_env]
<1>1. /\ UNCHANGED <<pc, fp, sp, current_closure_env, stack_ptr, stack, fp_stack,
                     closure_env_stack, env_de>>
      /\ tries' = Append(tries, m) /\ pc.fase = "cuerpo"
      /\ abiertos' = [abiertos EXCEPT ![stack_ptr] = @ \cup {Len(tries) + 1}]
  BY DEF TryEnter, EnCuerpo, marco, pilas
<1>2. m \in Manejador
  BY DEF Manejador, TypeOK, TipoMarco, TipoPunteros, Direcciones
<1>3. /\ Len(tries) \in Nat /\ Len(tries') = Len(tries) + 1 /\ tries'[Len(tries) + 1] = m
      /\ \A i \in 1 .. Len(tries) : tries'[i] = tries[i]
  BY <1>1, <1>2 DEF TypeOK, TipoTries
<1>4. stack_ptr \in Niveles /\ stack_ptr \in Nat /\ m.stack_ptr = stack_ptr
  BY DEF TypeOK, TipoPunteros, Niveles
<1>5. DeMarcoVivo(m)
  BY <1>1, <1>4 DEF DeMarcoVivo, Ordenado, MarcosContiguos, FnDe, FpDe, EnvDe
<1>6. \A i \in 1 .. Len(tries) : DeMarcoVivo(tries[i]) /\ tries[i].stack_ptr <= stack_ptr
  BY DEF Ordenado, Vivos, DeMarcoVivo
<1>7. MarcosContiguos' /\ EntornosDe'
  BY <1>1 DEF Ordenado, MarcosContiguos, EntornosDe, FpDe, FnDe, EnvDe
<1> HIDE DEF m
<1>8. \A i \in 1 .. Len(tries') : DeMarcoVivo(tries[i])'
  <2> SUFFICES ASSUME NEW i \in 1 .. Len(tries') PROVE DeMarcoVivo(tries[i])'
    OBVIOUS
  <2>1. tries'[i] = m \/ (i \in 1 .. Len(tries) /\ tries'[i] = tries[i])
    BY <1>3
  <2>2. PICK h : h = tries'[i]
    OBVIOUS
  <2>3. DeMarcoVivo(h)
    BY <1>5, <1>6, <2>1, <2>2
  <2>4. QED
    BY <1>1, <2>2, <2>3 DEF DeMarcoVivo, FnDe, FpDe, EnvDe
<1>9. TriesOrdenados'
  <2> SUFFICES ASSUME NEW i \in 1 .. Len(tries'), NEW j \in 1 .. Len(tries'), i <= j
               PROVE  tries'[i].stack_ptr <= tries'[j].stack_ptr
    BY DEF TriesOrdenados
  <2>1. CASE j \in 1 .. Len(tries)
    BY <1>3, <2>1 DEF Ordenado, Vivos, TriesOrdenados
  <2>2. CASE j = Len(tries) + 1
    <3>1. tries'[j].stack_ptr = stack_ptr
      BY <1>3, <1>4, <2>2
    <3>2. CASE i = j
      BY <1>4, <3>1, <3>2
    <3>3. CASE i \in 1 .. Len(tries)
      BY <1>3, <1>6, <3>1, <3>3
    <3>4. QED
      BY <1>3, <2>2, <3>2, <3>3
  <2>3. QED
    BY <1>3, <2>1, <2>2
<1>10. NivelesAbiertos'
  <2> SUFFICES ASSUME NEW d \in Niveles
               PROVE  abiertos'[d] = {i \in 1 .. Len(tries') : tries'[i].stack_ptr = d}
    BY DEF NivelesAbiertos
  <2>1. abiertos[d] = {i \in 1 .. Len(tries) : tries[i].stack_ptr = d}
    BY DEF Ordenado, Vivos, NivelesAbiertos
  <2>2. abiertos'[d] = IF d = stack_ptr THEN abiertos[d] \cup {Len(tries) + 1} ELSE abiertos[d]
    BY <1>1 DEF TypeOK, TipoFantasma
  <2>3. QED
    BY <1>3, <1>4, <2>1, <2>2
<1>11. QED
  BY <1>7, <1>8, <1>9, <1>10 DEF Ordenado, Vivos

\* Leaving an intentar body through its end removes the level it registered.
LEMMA SalirOrdenado ==
  ASSUME TypeOK, Ordenado, TryLeave
  PROVE  Ordenado'
<1>1. /\ UNCHANGED <<pc, fp, sp, current_closure_env, stack_ptr, stack, fp_stack,
                     closure_env_stack, env_de>>
      /\ abiertos' = [abiertos EXCEPT ![stack_ptr] = @ \ {MasInterno(@)}]
      /\ abiertos[stack_ptr] # {}
  BY DEF TryLeave, marco, pilas
<1>2. stack_ptr \in Niveles /\ stack_ptr \in Nat /\ Len(tries) \in Nat
  BY DEF TypeOK, TipoPunteros, TipoTries, Niveles
<1>3. /\ abiertos[stack_ptr] = {i \in 1 .. Len(tries) : tries[i].stack_ptr = stack_ptr}
      /\ \A i \in 1 .. Len(tries) : DeMarcoVivo(tries[i]) /\ tries[i].stack_ptr <= stack_ptr
  BY <1>2 DEF Ordenado, Vivos, NivelesAbiertos, DeMarcoVivo
<1>4. PICK i0 \in 1 .. Len(tries) : tries[i0].stack_ptr = stack_ptr
  BY <1>1, <1>3
<1>5. tries # <<>> /\ tries' = SubSeq(tries, 1, Len(tries) - 1)
  BY <1>4 DEF TryLeave
<1>6. /\ PrefijoDeTries
      /\ Len(tries) \in Nat \ {0} /\ Len(tries') = Len(tries) - 1
      /\ \A i \in 1 .. Len(tries) : tries[i] \in Manejador
  BY <1>5, QuitarDeTries
<1>7. Len(tries) \in abiertos[stack_ptr]
  <2>1. Len(tries) \in 1 .. Len(tries) /\ i0 <= Len(tries)
    BY <1>6
  <2>2. tries[i0].stack_ptr <= tries[Len(tries)].stack_ptr
    BY <2>1 DEF Ordenado, Vivos, TriesOrdenados
  <2>3. tries[Len(tries)].stack_ptr \in Nat
    BY <1>6, <2>1 DEF Manejador, Niveles
  <2>4. QED
    BY <1>2, <1>3, <1>4, <2>1, <2>2, <2>3
<1>8. MasInterno(abiertos[stack_ptr]) = Len(tries)
  <2>1. \A j \in abiertos[stack_ptr] : j \in Nat /\ j <= Len(tries)
    BY <1>3, <1>6
  <2>2. \A i \in abiertos[stack_ptr] :
          (\A j \in abiertos[stack_ptr] : j <= i) => i = Len(tries)
    BY <1>6, <1>7, <2>1
  <2>3. QED
    BY <1>7, <2>1, <2>2 DEF MasInterno
<1>9. MarcosContiguos' /\ EntornosDe'
  BY <1>1 DEF Ordenado, MarcosContiguos, EntornosDe, FpDe, FnDe, EnvDe
<1>10. (\A i \in 1 .. Len(tries') : DeMarcoVivo(tries[i])') /\ TriesOrdenados'
  <2>1. PICK k \in Nat : k = stack_ptr
    BY <1>2
  <2>2. Conserva(k)
    BY <1>1 DEF Conserva, FpDe, FnDe, EnvDe
  <2>3. k <= stack_ptr' /\ stack_ptr' \in Nat
    BY <1>1, <1>2, <2>1
  <2>4. \A i \in 1 .. Len(tries') : tries[i].stack_ptr <= k
    BY <1>3, <1>6, <2>1
  <2>5. QED
    BY <1>6, <2>2, <2>3, <2>4, VivosConservados DEF Ordenado
<1>11. NivelesAbiertos'
  <2> SUFFICES ASSUME NEW d \in Niveles
               PROVE  abiertos'[d] = {i \in 1 .. Len(tries') : tries'[i].stack_ptr = d}
    BY DEF NivelesAbiertos
  <2>1. abiertos[d] = {i \in 1 .. Len(tries) : tries[i].stack_ptr = d}
    BY DEF Ordenado, Vivos, NivelesAbiertos
  <2>2. abiertos'[d] = IF d = stack_ptr THEN abiertos[d] \ {Len(tries)} ELSE abiertos[d]
    BY <1>1, <1>8 DEF TypeOK, TipoFantasma
  <2>3. \A i \in 1 .. Len(tries') : tries'[i] = tries[i] /\ i \in 1 .. Len(tries) /\ i # Len(tries)
    BY <1>6 DEF PrefijoDeTries
  <2>4. \A i \in 1 .. Len(tries) : i # Len(tries) => i \in 1 .. Len(tries')
    BY <1>6
  <2>5. tries[Len(tries)].stack_ptr = stack_ptr
    BY <1>3, <1>7
  <2>6. QED
    BY <2>1, <2>2, <2>3, <2>4, <2>5
<1>12. QED
  BY <1>9, <1>10, <1>11 DEF Ordenado, Vivos

\* One step of a program that has left no intentar body early.
LEMMA OrdenPaso ==
  TypeOK /\ InvEspacio /\ (Disciplina => Ordenado) /\ [Next]_vars => (Disciplina => Ordenado)'
<1> SUFFICES ASSUME TypeOK, InvEspacio, Disciplina => Ordenado, [Next]_vars, Disciplina'
             PROVE  Ordenado'
  OBVIOUS
<1>1. en_bucle' /\ ~salio_antes'
  BY DEF Disciplina
<1>s. ASSUME NEW x, SalirDelBucle(TRUE, x) \/ SalirDelBucle(FALSE, x) \/ Paso(FALSE, x)
      PROVE  FALSE
  BY <1>1, <1>s DEF SalirDelBucle, Paso
<1>2. CASE UNCHANGED vars
  <2>1. Disciplina
    BY <1>1, <1>2 DEF Disciplina, vars, bucle, fantasma
  <2>2. QED
    BY <1>2, <2>1, OrdenQuieto DEF vars, fantasma
<1>3. ASSUME SaltarAlManejador, en_bucle,
             \A i \in Huecos : i < stack_ptr =>
               /\ stack'[i] = stack[i] /\ fp_stack'[i] = fp_stack[i]
               /\ closure_env_stack'[i] = closure_env_stack[i]
      PROVE  Ordenado'
  <2>1. Disciplina
    BY <1>1, <1>3 DEF Disciplina, SaltarAlManejador
  <2>2. QED
    BY <1>3, <2>1, SaltoOrdenado
<1>4. CASE Lanzar \/ DivisionPorCero \/ AccesoInvalido \/ LlamarSinEspacio \/ ReservarPilaFalla
  <2>1. en_bucle /\ UNCHANGED <<stack, fp_stack, closure_env_stack>>
    BY <1>4 DEF Lanzar, DivisionPorCero, AccesoInvalido, LlamarSinEspacio, ReservarPilaFalla, EnCuerpo
  <2>2. SaltarAlManejador
    BY <1>4, <1>s
       DEF Lanzar, DivisionPorCero, AccesoInvalido, LlamarSinEspacio, ReservarPilaFalla
  <2>3. QED
    BY <1>3, <2>1, <2>2
<1>5. CASE LlamarClosureInvalido
  <2>1. en_bucle /\ GuardarContexto
    BY <1>5 DEF LlamarClosureInvalido, EnCuerpo
  <2>2. SaltarAlManejador
    BY <1>5, <1>s DEF LlamarClosureInvalido
  <2>3. stack_ptr = fp_stack_ptr /\ stack_ptr \in Nat
    BY DEF InvEspacio, MemoriaAcotada, TypeOK, TipoPunteros, Niveles
  <2>4. ASSUME NEW i \in Huecos, i < stack_ptr
        PROVE  /\ stack'[i] = stack[i] /\ fp_stack'[i] = fp_stack[i]
               /\ closure_env_stack'[i] = closure_env_stack[i]
    BY <2>1, <2>3, <2>4 DEF GuardarContexto, TypeOK, TipoPilas, Huecos
  <2>5. QED
    BY <1>3, <2>1, <2>2, <2>4
<1>6. ASSUME NEW f \in Funciones, NEW e \in Entornos, Llamar(f, e)
      PROVE  Ordenado'
  <2>1. Disciplina
    BY <1>1, <1>6 DEF Disciplina, Llamar, EnCuerpo
  <2>2. QED
    BY <1>6, <2>1, LlamarOrdenado
<1>7. CASE ReservarPila
  <2>1. Disciplina
    BY <1>1, <1>7 DEF Disciplina, ReservarPila, fantasma
  <2>2. QED
    BY <1>7, <2>1, ReservarOrdenado
<1>8. CASE Retornar
  <2>1. Disciplina
    BY <1>1, <1>8 DEF Disciplina, Retornar, EnCuerpo
  <2>2. QED
    BY <1>1, <1>8, <2>1, RetornarOrdenado
<1>9. CASE (\E x \in Salidas : RetornarFinal(x)) \/ Halt \/ TryEnterSinEspacio
  BY <1>9, <1>s DEF RetornarFinal, Halt, TryEnterSinEspacio
<1>10. CASE TryEnter
  <2>1. Disciplina
    BY <1>1, <1>10 DEF Disciplina, TryEnter, EnCuerpo
  <2>2. QED
    BY <1>10, <2>1, EntrarOrdenado
<1>11. CASE TryLeave
  <2>1. Disciplina
    BY <1>1, <1>11 DEF Disciplina, TryLeave, EnCuerpo
  <2>2. QED
    BY <1>11, <2>1, SalirOrdenado
<1>12. CASE SalirDeIntentar
  BY <1>1, <1>12 DEF SalirDeIntentar
<1>13. ASSUME NEW n \in TamObjetos, HeapReservar(n)
       PROVE  Ordenado'
  <2>1. Disciplina /\ UNCHANGED <<marco, pilas, tries, abiertos, env_de>>
    BY <1>1, <1>13 DEF Disciplina, HeapReservar, EnCuerpo, fantasma
  <2>2. QED
    BY <2>1, OrdenQuieto
<1>14. QED
  BY <1>2, <1>4, <1>5, <1>6, <1>7, <1>8, <1>9, <1>10, <1>11, <1>12, <1>13 DEF Next

\* The invariant that the three properties of disciplined programs are parts of.
LEMMA OrdenSiempre == Spec => [](Disciplina => Ordenado)
<1>1. Init => (Disciplina => Ordenado)
  BY OrdenInicial
<1>2. QED
  BY <1>1, TiposCorrectos, EspacioInicial, EspacioPaso, OrdenPaso, PTL DEF Spec

\* While no intentar body has been left early, calls, returns and caught errors
\* always give the surviving activation its own frame back.
THEOREM MarcosDevueltos == Spec => []MarcosEnlazados
<1>1. (Disciplina => Ordenado) => MarcosEnlazados
  BY DEF Ordenado, MarcosEnlazados
<1>2. QED
  BY <1>1, OrdenSiempre, PTL

\* While no intentar body has been left early, an error is caught by the
\* innermost open body of an activation that is still running.
THEOREM ManejadoresCorrectos == Spec => []ManejadoresVivos
<1>1. (Disciplina => Ordenado) => ManejadoresVivos
  BY DEF Ordenado, Vivos, ManejadoresVivos
<1>2. QED
  BY <1>1, OrdenSiempre, PTL

\* While no intentar body has been left early, every activation sees the
\* closure environment it was entered with.
THEOREM EntornosCorrectos == Spec => []EntornosPropios
<1>1. (Disciplina => Ordenado) => EntornosPropios
  BY DEF Ordenado, EntornosDe, EntornosPropios
<1>2. QED
  BY <1>1, OrdenSiempre, PTL
=============================================================================
