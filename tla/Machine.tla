------------------------------ MODULE Machine ------------------------------
(***************************************************************************)
(* The virtual machine on a given code: the dispatch of vm_eval, and the   *)
(* instructions of compiled programs that module VM does not have.         *)
(***************************************************************************)
EXTENDS VM, Numbers

VARIABLES
  code,        \* the byte code, one element for an instruction and its operand
  printed,     \* what op_output has written
  exit_status

(***************************************************************************)
(* vm_math.h                                                               *)
(***************************************************************************)

\* The second operand is on top.
OnNumbers(result(_, _)) ==
  Becomes(IF IsNumber(Top(M0)) /\ IsNumber(Top(M1)) THEN result(Top(M1).n, Top(M0).n)
          ELSE handle_exception(M2))

\* Mutant: the operands change places.
op_numeric_swapped(op) ==
  /\ Executing(op)
  /\ OnNumbers(LAMBDA a, b : IF Traps(op, b, a) THEN Abort(M2)
                            ELSE vm_push(M2, Number(Calculated(op, b, a))))

op_numeric(op) ==
  /\ Executing(op)
  /\ OnNumbers(LAMBDA a, b : IF Traps(op, a, b) THEN Abort(M2)
                            ELSE vm_push(M2, Number(Calculated(op, a, b))))

op_numeric_logic(op) ==
  Executing(op) /\ OnNumbers(LAMBDA a, b : vm_push(M2, Boolean(Compared(op, a, b))))

(***************************************************************************)
(* vm_list.c, vm_logic.c, vm_types.h, vm_stack.c, vm_io.c                  *)
(***************************************************************************)

op_cons == Executing("cons") /\ Becomes(vm_push(M2, Pair(Top(M0), Top(M1))))

op_not == Executing("not") /\ Becomes(vm_push(M1, Boolean(Top(M0) = False)))

op_is_empty == Executing("null?") /\ Becomes(vm_push(M1, Boolean(Top(M0) = Empty)))

op_depth == Executing("depth") /\ Becomes(vm_push(M0, Number(M0.depth)))

op_output == Executing("out") /\ Becomes(M1) /\ printed' = Append(printed, Top(M0))

op_set_exit ==
  /\ Executing("set-exit")
  /\ Becomes(IF IsNumber(Top(M0)) THEN M1 ELSE handle_exception(M1))
  /\ exit_status' = IF IsNumber(Top(M0)) THEN Top(M0).n ELSE exit_status

-----------------------------------------------------------------------------
\* The instruction at ip.
Fetched == code[Current(vm).ip + 1]

\* An instruction without an operand.
Plain(name, op) == Fetched.op = name /\ op

\* The instructions that print nothing and leave the exit status alone.
Silent ==
  /\ \/ Fetched.op = "lit"  /\ op_lit(Fetched.v)
     \/ Fetched.op = "jmp"  /\ op_jmp(Fetched.to)
     \/ Fetched.op = "jnf"  /\ op_jnf(Fetched.to)
     \/ Fetched.op = "call" /\ op_call(Fetched.to)
     \/ Fetched.op = "proc" /\ op_proc(Fetched.to)
     \/ Fetched.op \in {"+", "-", "*", "/", "%"} /\ op_numeric(Fetched.op)
     \/ Fetched.op \in {"=", "<", ">"} /\ op_numeric_logic(Fetched.op)
     \/ Plain("swap", op_swap) \/ Plain("rot", op_rot) \/ Plain("dup", op_dup_ref)
     \/ Plain("drop", op_drop) \/ Plain("depth", op_depth)
     \/ Plain("cons", op_cons) \/ Plain("car", op_car) \/ Plain("cdr", op_cdr)
     \/ Plain("not", op_not) \/ Plain("null?", op_is_empty)
     \/ Plain("bind", op_bind) \/ Plain("@", op_read) \/ Plain("!", op_set)
     \/ Plain("jin", op_jin) \/ Plain("ret", op_ret)
     \/ Plain("call_in", op_call_in) \/ Plain("tail_call_in", op_tail_call_in)
  /\ UNCHANGED <<printed, exit_status>>

\* One turn of the loop in vm_eval.
Execute ==
  /\ Running
  /\ \/ Silent
     \/ Plain("out", op_output) /\ UNCHANGED exit_status
     \/ Plain("set-exit", op_set_exit) /\ UNCHANGED printed
=============================================================================
