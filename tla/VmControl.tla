----------------------------- MODULE VmControl -----------------------------
(***************************************************************************)
(* Control state of the jasboot VM (jasboot-ir/src/vm.c): call stack,      *)
(* frame and stack pointers, closure environment, the stack of `intentar`  *)
(* (try) handlers, the bump heap that shares the data memory with the      *)
(* frames, and the loop of vm_run_with_limit that executes instructions.   *)
(*                                                                         *)
(* The program is abstracted to what the compiler emits (codegen.c): every *)
(* function starts with OP_RESERVAR_PILA, an intentar body is bracketed by *)
(* OP_TRY_ENTER and OP_TRY_LEAVE, and `retornar`, `romper` and `continuar` *)
(* may leave such a body without its OP_TRY_LEAVE.  A code address is the  *)
(* function it lies in and whether the prologue has run.                   *)
(*                                                                         *)
(* Sizes and addresses count 8-byte words, so OP_HEAP_RESERVAR's alignment *)
(* to 8 is exact.                                                          *)
(***************************************************************************)
EXTENDS Integers, Sequences

CONSTANTS
  Funciones,     \* functions of the program, Principal among them
  Principal,     \* the main block
  TamMarco,      \* TamMarco[f]: frame words reserved by f's prologue
  MarcoMax,      \* largest frame the u24 operand of OP_RESERVAR_PILA holds
  Entornos,      \* closure environments (list ids); 0 is "none"
  MaxRecursion,  \* VM_MAX_RECURSION
  MaxIntentar,   \* VM_TRY_STACK_MAX
  BasePila,      \* 0x4000: first word of the stack
  BaseMonton,    \* 0x20000: first word of the heap
  MemInicial,    \* memory_size set by vm_create
  MemLimite,     \* VM_MEMORY_HARD_LIMIT
  TamObjetos,    \* sizes asked of OP_HEAP_RESERVAR
  Salidas,       \* values `retornar` may hold outside every call
  Limites        \* max_steps arguments of vm_run_with_limit; 0 is "no limit"

ASSUME FuncionesAssumption ==
  /\ Principal \in Funciones
  /\ MarcoMax \in Nat
  /\ TamMarco \in [Funciones -> 0..MarcoMax]
ASSUME LimitesAssumption ==
  /\ MaxRecursion \in Nat \ {0}
  /\ MaxIntentar \in Nat \ {0}
  /\ Entornos \subseteq Nat
  /\ 0 \in Entornos
  /\ Salidas \subseteq Int
  /\ Limites \subseteq Nat
ASSUME MemoriaAssumption ==
  /\ BasePila \in Nat /\ BaseMonton \in Nat
  /\ MemInicial \in Nat /\ MemLimite \in Nat
  /\ BasePila <= BaseMonton
  /\ BaseMonton <= MemInicial
  /\ MemInicial <= MemLimite
  /\ TamObjetos \subseteq Nat

VARIABLES
  pc,                  \* [fn, fase]: where the next instruction lies
  fp, sp,              \* frame and stack pointers
  stack_ptr, fp_stack_ptr,
  stack,               \* return addresses; entries above stack_ptr stay as they were
  fp_stack,            \* saved frame pointers
  closure_env_stack,   \* saved closure environments
  current_closure_env,
  tries,               \* try_code_off, try_fp, try_sp, ...: one record per level
  heap_top, memory_size,
  running, exit_code,
  en_bucle,            \* control is inside vm_run_with_limit
  max_steps, steps,
  abiertos,            \* ghost: levels of `tries` whose body frame d is lexically inside
  env_de,              \* ghost: environment frame d was entered with
  salio_antes          \* ghost: some intentar body was left without OP_TRY_LEAVE

marco   == <<pc, fp, sp, current_closure_env>>
pilas   == <<stack_ptr, fp_stack_ptr, stack, fp_stack, closure_env_stack>>
memoria == <<heap_top, memory_size>>
bucle   == <<running, exit_code, en_bucle, max_steps, steps>>
fantasma == <<abiertos, env_de, salio_antes>>
vars == <<marco, pilas, tries, memoria, bucle, fantasma>>

Niveles == 0 .. MaxRecursion          \* call depths; 0 is the main block
Huecos  == 0 .. MaxRecursion - 1      \* entries of the call stacks

Direcciones == [fn : Funciones, fase : {"prologo", "cuerpo"}]

Manejador ==
  [fn : Funciones, fp : Nat, sp : Nat, stack_ptr : Niveles,
   fp_stack_ptr : Niveles, env : Entornos]

Init ==
  /\ pc = [fn |-> Principal, fase |-> "prologo"]
  /\ fp = BasePila /\ sp = BasePila
  /\ stack_ptr = 0 /\ fp_stack_ptr = 0
  /\ stack = [i \in Huecos |-> Principal]
  /\ fp_stack = [i \in Huecos |-> 0]
  /\ closure_env_stack = [i \in Huecos |-> 0]
  /\ current_closure_env = 0
  /\ tries = <<>>
  /\ heap_top = BaseMonton /\ memory_size = MemInicial
  /\ running = TRUE /\ exit_code = 0 /\ en_bucle = TRUE
  /\ max_steps \in Limites /\ steps = 0
  /\ abiertos = [d \in Niveles |-> {}]
  /\ env_de = [d \in Niveles |-> 0]
  /\ salio_antes = FALSE

-----------------------------------------------------------------------------
(* The loop of vm_run_with_limit around one instruction.                   *)

\* Mutant of Paso: the step counter is not advanced.
PasoSinContar(r, x) ==
  /\ running' = r /\ exit_code' = x /\ en_bucle' = r
  /\ UNCHANGED <<max_steps, steps>>

\* The instruction leaves running = r and exit_code = x; the loop then counts
\* the step, and a step past max_steps stops the VM with 124 whatever it did.
\* Without a limit the counter is not read, so it is not kept.
Paso(r, x) ==
  LET excedido == max_steps > 0 /\ steps + 1 > max_steps
  IN  /\ steps' = IF max_steps > 0 THEN steps + 1 ELSE steps
      /\ running' = (r /\ ~excedido)
      /\ exit_code' = IF excedido THEN 124 ELSE x
      /\ en_bucle' = (r /\ ~excedido)
      /\ UNCHANGED max_steps

\* `return vm->exit_code` in the middle of the loop.
SalirDelBucle(r, x) ==
  /\ running' = r
  /\ exit_code' = x
  /\ en_bucle' = FALSE
  /\ UNCHANGED <<max_steps, steps>>

EnCuerpo == en_bucle /\ running /\ pc.fase = "cuerpo"

\* Mutant of SaltarAlManejador: the closure environment is not restored.
SaltarSinEntorno ==
  LET m == tries[Len(tries)]
  IN  /\ tries # <<>>
      /\ pc' = [fn |-> m.fn, fase |-> "cuerpo"]
      /\ fp' = m.fp
      /\ sp' = m.sp
      /\ stack_ptr' = m.stack_ptr
      /\ fp_stack_ptr' = m.fp_stack_ptr
      /\ current_closure_env' = current_closure_env
      /\ tries' = SubSeq(tries, 1, Len(tries) - 1)
      /\ abiertos' = [d \in Niveles |->
                        IF d < m.stack_ptr THEN abiertos[d]
                        ELSE IF d = m.stack_ptr THEN {i \in abiertos[d] : i < Len(tries)}
                        ELSE {}]
      /\ env_de' = [d \in Niveles |-> IF d <= m.stack_ptr THEN env_de[d] ELSE 0]
      /\ UNCHANGED salio_antes

\* Mutant of SaltarAlManejador: the stack pointer is not restored.
SaltarSinSp ==
  LET m == tries[Len(tries)]
  IN  /\ tries # <<>>
      /\ pc' = [fn |-> m.fn, fase |-> "cuerpo"]
      /\ fp' = m.fp
      /\ sp' = sp
      /\ stack_ptr' = m.stack_ptr
      /\ fp_stack_ptr' = m.fp_stack_ptr
      /\ current_closure_env' = m.env
      /\ tries' = SubSeq(tries, 1, Len(tries) - 1)
      /\ abiertos' = [d \in Niveles |->
                        IF d < m.stack_ptr THEN abiertos[d]
                        ELSE IF d = m.stack_ptr THEN {i \in abiertos[d] : i < Len(tries)}
                        ELSE {}]
      /\ env_de' = [d \in Niveles |-> IF d <= m.stack_ptr THEN env_de[d] ELSE 0]
      /\ UNCHANGED salio_antes

\* vm_try_catch_or_abort with an active handler: the newest level is removed
\* and its saved context becomes the current one.
SaltarAlManejador ==
  LET m == tries[Len(tries)]
  IN  /\ tries # <<>>
      /\ pc' = [fn |-> m.fn, fase |-> "cuerpo"]
      /\ fp' = m.fp
      /\ sp' = m.sp
      /\ stack_ptr' = m.stack_ptr
      /\ fp_stack_ptr' = m.fp_stack_ptr
      /\ current_closure_env' = m.env
      /\ tries' = SubSeq(tries, 1, Len(tries) - 1)
      /\ abiertos' = [d \in Niveles |->
                        IF d < m.stack_ptr THEN abiertos[d]
                        ELSE IF d = m.stack_ptr THEN {i \in abiertos[d] : i < Len(tries)}
                        ELSE {}]
      /\ env_de' = [d \in Niveles |-> IF d <= m.stack_ptr THEN env_de[d] ELSE 0]
      /\ UNCHANGED salio_antes

SinManejador == tries = <<>> /\ UNCHANGED <<marco, tries, fantasma>>

\* An error raised by an instruction executed in vm_step: OP_LANZAR, a bad
\* list or capture index, ...  The loop goes on at the handler or stops with 1.
Lanzar ==
  /\ EnCuerpo
  /\ \/ SaltarAlManejador /\ Paso(TRUE, 0)
     \/ SinManejador /\ Paso(FALSE, 1) /\ UNCHANGED <<stack_ptr, fp_stack_ptr>>
  /\ UNCHANGED <<stack, fp_stack, closure_env_stack, memoria>>

\* OP_DIVIDIR and OP_MODULO by zero, in the fast path: `break` when handled,
\* `return` when not.
DivisionPorCero ==
  /\ EnCuerpo
  /\ \/ SaltarAlManejador /\ Paso(TRUE, 0)
     \/ SinManejador /\ SalirDelBucle(FALSE, 1) /\ UNCHANGED <<stack_ptr, fp_stack_ptr>>
  /\ UNCHANGED <<stack, fp_stack, closure_env_stack, memoria>>

\* OP_LEER and OP_ESCRIBIR outside the memory, in the fast path: vm_leer_seguro
\* returns 0 both when a handler took the error and when none did, and the loop
\* returns in both cases.
AccesoInvalido ==
  /\ EnCuerpo
  /\ \/ SaltarAlManejador /\ SalirDelBucle(TRUE, 0)
     \/ SinManejador /\ SalirDelBucle(FALSE, 1) /\ UNCHANGED <<stack_ptr, fp_stack_ptr>>
  /\ UNCHANGED <<stack, fp_stack, closure_env_stack, memoria>>

-----------------------------------------------------------------------------
(* Calls and frames.                                                       *)

PilaLlena == stack_ptr >= MaxRecursion \/ fp_stack_ptr >= MaxRecursion

\* The part of OP_LLAMAR that saves the caller's context.
GuardarContexto ==
  /\ stack' = [stack EXCEPT ![stack_ptr] = pc.fn]
  /\ fp_stack' = [fp_stack EXCEPT ![fp_stack_ptr] = fp]
  /\ closure_env_stack' = [closure_env_stack EXCEPT ![fp_stack_ptr] = current_closure_env]

\* OP_LLAMAR of f: directly (env = 0) or through a closure with environment env.
Llamar(f, env) ==
  /\ EnCuerpo
  /\ ~PilaLlena
  /\ GuardarContexto
  /\ stack_ptr' = stack_ptr + 1
  /\ fp_stack_ptr' = fp_stack_ptr + 1
  /\ fp' = sp
  /\ pc' = [fn |-> f, fase |-> "prologo"]
  /\ current_closure_env' = env
  /\ abiertos' = [abiertos EXCEPT ![stack_ptr + 1] = {}]
  /\ env_de' = [env_de EXCEPT ![stack_ptr + 1] = env]
  /\ Paso(TRUE, exit_code)
  /\ UNCHANGED <<sp, tries, memoria, salio_antes>>

\* OP_LLAMAR of a closure handle that does not exist: found out after the
\* context was saved.
LlamarClosureInvalido ==
  /\ EnCuerpo
  /\ ~PilaLlena
  /\ GuardarContexto
  /\ \/ SaltarAlManejador /\ Paso(TRUE, 0)
     \/ /\ tries = <<>>
        /\ stack_ptr' = stack_ptr + 1
        /\ fp_stack_ptr' = fp_stack_ptr + 1
        /\ fp' = sp
        /\ Paso(FALSE, 1)
        /\ UNCHANGED <<pc, sp, current_closure_env, tries, fantasma>>
  /\ UNCHANGED memoria

\* OP_LLAMAR at VM_MAX_RECURSION.
LlamarSinEspacio ==
  /\ EnCuerpo
  /\ PilaLlena
  /\ \/ SaltarAlManejador /\ Paso(TRUE, 0)
     \/ SinManejador /\ Paso(FALSE, 1) /\ UNCHANGED <<stack_ptr, fp_stack_ptr>>
  /\ UNCHANGED <<stack, fp_stack, closure_env_stack, memoria>>

\* Mutant of EspacioDePila: the memory is not grown.
EspacioSinCrecer(bytes) == sp + bytes <= MemLimite /\ UNCHANGED memory_size

\* vm_ensure_stack_space succeeds: there is room, or realloc grows the memory.
\* The doubling is abstracted to any size from what is needed to the limit.
EspacioDePila(bytes) ==
  \/ /\ sp + bytes <= memory_size
     /\ UNCHANGED memory_size
  \/ /\ sp + bytes > memory_size
     /\ memory_size' \in (sp + bytes) .. MemLimite

\* The prologue OP_RESERVAR_PILA; it does nothing when the frame is already there.
ReservarPila ==
  LET bytes == IF sp > fp THEN 0 ELSE TamMarco[pc.fn]
  IN  /\ en_bucle /\ running /\ pc.fase = "prologo"
      /\ EspacioDePila(bytes)
      /\ sp' = sp + bytes
      /\ pc' = [pc EXCEPT !.fase = "cuerpo"]
      /\ Paso(TRUE, exit_code)
      /\ UNCHANGED <<fp, current_closure_env, pilas, tries, heap_top, fantasma>>

\* OP_RESERVAR_PILA past the hard limit, or with a failed realloc.
ReservarPilaFalla ==
  /\ en_bucle /\ running /\ pc.fase = "prologo"
  /\ sp <= fp
  /\ sp + TamMarco[pc.fn] > memory_size
  /\ \/ SaltarAlManejador /\ Paso(TRUE, 0)
     \/ SinManejador /\ Paso(FALSE, 1) /\ UNCHANGED <<stack_ptr, fp_stack_ptr>>
  /\ UNCHANGED <<stack, fp_stack, closure_env_stack, memoria>>

\* Mutant of Retornar: the callee's frame is not dropped.
RetornarSinLiberar ==
  /\ EnCuerpo
  /\ stack_ptr # 0 /\ fp_stack_ptr # 0
  /\ sp' = sp
  /\ current_closure_env' = closure_env_stack[fp_stack_ptr - 1]
  /\ fp' = fp_stack[fp_stack_ptr - 1]
  /\ fp_stack_ptr' = fp_stack_ptr - 1
  /\ pc' = [fn |-> stack[stack_ptr - 1], fase |-> "cuerpo"]
  /\ stack_ptr' = stack_ptr - 1
  /\ salio_antes' = (salio_antes \/ abiertos[stack_ptr] # {})
  /\ abiertos' = [abiertos EXCEPT ![stack_ptr] = {}]
  /\ env_de' = [env_de EXCEPT ![stack_ptr] = 0]
  /\ Paso(TRUE, exit_code)
  /\ UNCHANGED <<stack, fp_stack, closure_env_stack, tries, memoria>>

\* OP_RETORNAR with a caller: the frame is dropped and the caller's context
\* restored.  The handlers registered by the frame are left in place.
Retornar ==
  /\ EnCuerpo
  /\ stack_ptr # 0 /\ fp_stack_ptr # 0
  /\ sp' = fp
  /\ current_closure_env' = closure_env_stack[fp_stack_ptr - 1]
  /\ fp' = fp_stack[fp_stack_ptr - 1]
  /\ fp_stack_ptr' = fp_stack_ptr - 1
  /\ pc' = [fn |-> stack[stack_ptr - 1], fase |-> "cuerpo"]
  /\ stack_ptr' = stack_ptr - 1
  /\ salio_antes' = (salio_antes \/ abiertos[stack_ptr] # {})
  /\ abiertos' = [abiertos EXCEPT ![stack_ptr] = {}]
  /\ env_de' = [env_de EXCEPT ![stack_ptr] = 0]
  /\ Paso(TRUE, exit_code)
  /\ UNCHANGED <<stack, fp_stack, closure_env_stack, tries, memoria>>

\* OP_RETORNAR outside every call ends the program with the operand.  codegen.c
\* rejects it; IR written by hand uses it (ir_test.c, ir_compiler.c).
RetornarFinal(x) ==
  /\ EnCuerpo
  /\ stack_ptr = 0 \/ fp_stack_ptr = 0
  /\ Paso(FALSE, x)
  /\ UNCHANGED <<marco, pilas, tries, memoria, fantasma>>

\* OP_HALT at the end of the main block.
Halt ==
  /\ EnCuerpo
  /\ pc.fn = Principal
  /\ Paso(FALSE, 0)
  /\ UNCHANGED <<marco, pilas, tries, memoria, fantasma>>

-----------------------------------------------------------------------------
(* intentar / atrapar.                                                     *)

\* Mutant of TryEnter: no check against VM_TRY_STACK_MAX.
TryEnterSinLimite ==
  /\ EnCuerpo
  /\ Len(tries) < MaxIntentar + 1
  /\ tries' = Append(tries,
       [fn |-> pc.fn, fp |-> fp, sp |-> sp, stack_ptr |-> stack_ptr,
        fp_stack_ptr |-> fp_stack_ptr, env |-> current_closure_env])
  /\ abiertos' = [abiertos EXCEPT ![stack_ptr] = @ \cup {Len(tries) + 1}]
  /\ Paso(TRUE, exit_code)
  /\ UNCHANGED <<marco, pilas, memoria, env_de, salio_antes>>

\* OP_TRY_ENTER: push the current context; too many levels stop the VM.
TryEnter ==
  /\ EnCuerpo
  /\ Len(tries) < MaxIntentar
  /\ tries' = Append(tries,
       [fn |-> pc.fn, fp |-> fp, sp |-> sp, stack_ptr |-> stack_ptr,
        fp_stack_ptr |-> fp_stack_ptr, env |-> current_closure_env])
  /\ abiertos' = [abiertos EXCEPT ![stack_ptr] = @ \cup {Len(tries) + 1}]
  /\ Paso(TRUE, exit_code)
  /\ UNCHANGED <<marco, pilas, memoria, env_de, salio_antes>>

TryEnterSinEspacio ==
  /\ EnCuerpo
  /\ Len(tries) >= MaxIntentar
  /\ Paso(FALSE, 1)
  /\ UNCHANGED <<marco, pilas, tries, memoria, fantasma>>

\* The innermost level among those in S.
MasInterno(S) == CHOOSE i \in S : \A j \in S : j <= i

\* Mutant of TryLeave: the level is left in place.
TryLeaveSinQuitar ==
  /\ EnCuerpo
  /\ abiertos[stack_ptr] # {}
  /\ tries' = tries
  /\ abiertos' = [abiertos EXCEPT ![stack_ptr] = @ \ {MasInterno(@)}]
  /\ Paso(TRUE, exit_code)
  /\ UNCHANGED <<marco, pilas, memoria, env_de, salio_antes>>

\* OP_TRY_LEAVE at the end of an intentar body removes the newest level.
TryLeave ==
  /\ EnCuerpo
  /\ abiertos[stack_ptr] # {}
  /\ tries' = IF tries # <<>> THEN SubSeq(tries, 1, Len(tries) - 1) ELSE tries
  /\ abiertos' = [abiertos EXCEPT ![stack_ptr] = @ \ {MasInterno(@)}]
  /\ Paso(TRUE, exit_code)
  /\ UNCHANGED <<marco, pilas, memoria, env_de, salio_antes>>

\* `romper` or `continuar` of a loop around the intentar: an OP_IR out of the
\* body, with no OP_TRY_LEAVE emitted.
SalirDeIntentar ==
  /\ EnCuerpo
  /\ abiertos[stack_ptr] # {}
  /\ abiertos' = [abiertos EXCEPT ![stack_ptr] = @ \ {MasInterno(@)}]
  /\ salio_antes' = TRUE
  /\ Paso(TRUE, exit_code)
  /\ UNCHANGED <<marco, pilas, tries, memoria, env_de>>

-----------------------------------------------------------------------------
(* The heap.                                                               *)

\* OP_HEAP_RESERVAR: a bump allocation bounded by memory_size only; without
\* room the program gets address 0 and goes on.
HeapReservar(n) ==
  /\ EnCuerpo
  /\ heap_top' = IF heap_top + n <= memory_size THEN heap_top + n ELSE heap_top
  /\ Paso(TRUE, exit_code)
  /\ UNCHANGED <<marco, pilas, tries, memory_size, fantasma>>

Next ==
  \/ Lanzar \/ DivisionPorCero \/ AccesoInvalido
  \/ \E f \in Funciones \ {Principal}, e \in Entornos : Llamar(f, e)
  \/ LlamarClosureInvalido \/ LlamarSinEspacio
  \/ ReservarPila \/ ReservarPilaFalla
  \/ Retornar \/ (\E x \in Salidas : RetornarFinal(x)) \/ Halt
  \/ TryEnter \/ TryEnterSinEspacio \/ TryLeave \/ SalirDeIntentar
  \/ \E n \in TamObjetos : HeapReservar(n)

\* The loop keeps executing instructions while the VM runs.
Spec == Init /\ [][Next]_vars /\ WF_vars(Next)

-----------------------------------------------------------------------------
(* Properties.                                                             *)

TipoMarco ==
  pc \in Direcciones /\ fp \in Nat /\ sp \in Nat /\ current_closure_env \in Entornos
TipoPunteros == stack_ptr \in Niveles /\ fp_stack_ptr \in Niveles
TipoPilas ==
  /\ stack \in [Huecos -> Funciones]
  /\ fp_stack \in [Huecos -> Nat]
  /\ closure_env_stack \in [Huecos -> Entornos]
TipoTries == tries \in Seq(Manejador) /\ Len(tries) <= MaxIntentar
TipoMemoria == heap_top \in Nat /\ memory_size \in Nat
TipoBucle ==
  /\ running \in BOOLEAN /\ exit_code \in Int /\ en_bucle \in BOOLEAN
  /\ max_steps \in Limites /\ steps \in Nat
TipoFantasma ==
  /\ abiertos \in [Niveles -> SUBSET (1 .. MaxIntentar)]
  /\ env_de \in [Niveles -> Entornos]
  /\ salio_antes \in BOOLEAN

\* Types; the call stacks stay within VM_MAX_RECURSION and the handler stack
\* within VM_TRY_STACK_MAX.
TypeOK ==
  /\ TipoMarco /\ TipoPunteros /\ TipoPilas /\ TipoTries
  /\ TipoMemoria /\ TipoBucle /\ TipoFantasma

\* Frame pointer, function and environment of the activation at depth d, read
\* where OP_RETORNAR would find them.
FpDe(d)  == IF d = stack_ptr THEN fp ELSE fp_stack[d]
FnDe(d)  == IF d = stack_ptr THEN pc.fn ELSE stack[d]
EnvDe(d) == IF d = stack_ptr THEN current_closure_env ELSE closure_env_stack[d]

\* The saved frames tile the stack: each activation starts where its caller's
\* frame ends.
MarcosContiguos ==
  /\ sp = fp + (IF pc.fase = "cuerpo" THEN TamMarco[pc.fn] ELSE 0)
  /\ FpDe(0) = BasePila
  /\ \A d \in 1 .. stack_ptr : FpDe(d) = FpDe(d - 1) + TamMarco[FnDe(d - 1)]

\* The levels of `tries` are those of the intentar bodies open in each frame.
NivelesAbiertos ==
  \A d \in Niveles : abiertos[d] = {i \in 1 .. Len(tries) : tries[i].stack_ptr = d}

\* m holds the context of an activation that is still on the stack.
DeMarcoVivo(m) ==
  /\ m.stack_ptr <= stack_ptr
  /\ m.fn = FnDe(m.stack_ptr)
  /\ m.fp = FpDe(m.stack_ptr)
  /\ m.sp = m.fp + TamMarco[m.fn]
  /\ m.env = EnvDe(m.stack_ptr)

TriesOrdenados ==
  \A i, j \in 1 .. Len(tries) : i <= j => tries[i].stack_ptr <= tries[j].stack_ptr

\* Every intentar body so far was left through its end or by an error.
Disciplina == en_bucle /\ ~salio_antes

\* Under this discipline every OP_RETORNAR and every caught error gives the
\* surviving activation its own locals back: OP_LLAMAR, OP_RETORNAR,
\* OP_RESERVAR_PILA and vm_try_catch_or_abort agree on fp and sp.
MarcosEnlazados == Disciplina => MarcosContiguos

\* Under the same discipline the handler stack mirrors the open intentar
\* bodies: an error is always caught in an activation that is still running, by
\* its innermost open body, and never by one that was already left.
ManejadoresVivos ==
  Disciplina =>
    /\ NivelesAbiertos
    /\ \A i \in 1 .. Len(tries) : DeMarcoVivo(tries[i])
    /\ TriesOrdenados

\* Under the same discipline every activation sees the closure environment it
\* was entered with, also after calls to other closures returned or threw.
EntornosPropios == Disciplina => \A d \in 0 .. stack_ptr : EnvDe(d) = env_de[d]

\* Whatever the program does, leaving intentar bodies early included, no frame,
\* saved frame or handler context points past the allocated memory, and the
\* two call stacks move together (vm_ensure_stack_space, OP_HEAP_RESERVAR).
MemoriaAcotada ==
  /\ stack_ptr = fp_stack_ptr
  /\ fp <= memory_size /\ sp <= memory_size
  /\ heap_top <= memory_size /\ memory_size <= MemLimite
  /\ \A i \in Huecos : fp_stack[i] <= memory_size
  /\ \A i \in 1 .. Len(tries) :
       /\ tries[i].fp <= memory_size /\ tries[i].sp <= memory_size
       /\ tries[i].stack_ptr = tries[i].fp_stack_ptr

\* The bound on a frame's start that its depth alone gives.
Cota(d) == BasePila + d * MarcoMax

\* The stack needs no more memory than its depth explains: a program with d
\* activations never has sp past d + 1 frames, so repeated calls, returns and
\* caught errors cannot make it creep into the heap.
CotaPila == sp <= Cota(stack_ptr + 1)

\* vm_run_with_limit with a limit always returns, whatever the program loops on.
Termina == (max_steps > 0) ~> ~en_bucle

\* "0 si no hay intentar activo" (vm.c:3067): every handler level that
\* vm_try_catch_or_abort may take belongs to an intentar body that is still open.
SoloIntentarActivos ==
  \A i \in 1 .. Len(tries) : \E d \in Niveles : i \in abiertos[d]
=============================================================================
