---------------------------- MODULE CallIndirect ----------------------------
(***************************************************************************)
(* call_indirect, the assembly shim at the end of send_message             *)
(* (src/src/high/process/process.cpp) that calls a method with an array of *)
(* argument_count 64-bit arguments.  It pushes %rbp and %r15, pads the     *)
(* stack by one word when the count is odd and above six, pushes the       *)
(* arguments beyond the sixth from the last one down, loads the first six  *)
(* into %rdi, %rsi, %rdx, %rcx, %r8 and %r9, calls, and drops the pushed   *)
(* words again before popping %r15 and %rbp.                               *)
(*                                                                         *)
(* The stack is a sequence of words, its top at the end; the callee is     *)
(* taken to keep %r15 and to return with %rsp where the call left it, as   *)
(* the ABI asks of it.                                                     *)
(***************************************************************************)
EXTENDS Integers, Sequences
LOCAL INSTANCE SequencesExt

CONSTANT MaxCallArgs    \* largest argument_count the check tries

\* push %rbp; push %r15.
Saved == <<"rbp", "r15">>

\* test $1, %rdx / cmpq $6, %rdx / subq $8, %rsp: one pad word for an odd
\* count above six.
StackPad(n) == IF n % 2 = 1 /\ n > 6 THEN <<"pad">> ELSE <<>>

\* call_indirect_prepare_stack: while %rdx > 6, push arguments[%rdx - 1]
\* and decrement %rdx.
RECURSIVE PrepareStack(_, _, _)
PrepareStack(stack, rdx, args) ==
    IF rdx <= 6 THEN stack
    ELSE PrepareStack(Append(stack, args[rdx]), rdx - 1, args)

\* call_indirect_stack_ready: the k-th argument register is loaded from
\* arguments[k - 1] when %r15 (the count) is above k - 1.
LoadRegs(args) == [k \in {j \in 1 .. 6 : Len(args) > j - 1} |-> args[k]]

\* A cleanup that forgets the pad word.
CleanupWordsNoPad(n) == IF n <= 6 THEN 0 ELSE n - 6

\* Words dropped after the call: none up to six arguments, else the
\* count less six, rounded up to even for the pad.
CleanupWords(n) == IF n <= 6 THEN 0 ELSE (n - 6) + ((n - 6) % 2)

\* The registers and the stack at `call *%rax`, and the stack left for
\* `pop %r15` once the callee has returned and the cleanup has run.
CallIndirect(args) ==
    LET n      == Len(args)
        atCall == PrepareStack(Saved \o StackPad(n), n, args)
    IN  [regs  |-> LoadRegs(args),
         stack |-> atCall,
         after |-> SubSeq(atCall, 1, Len(atCall) - CleanupWords(n))]

\* The System V AMD64 reference: the first six arguments in registers in
\* order, the m others in the m words on top of the stack at the call, the
\* seventh on top.
SysVRegs(args) == [k \in 1 .. IF Len(args) < 6 THEN Len(args) ELSE 6 |-> args[k]]
StackArgs(stack, m) == Reverse(SubSeq(stack, Len(stack) - m + 1, Len(stack)))

-----------------------------------------------------------------------------
\* call_indirect against the reference for every argument count up to
\* MaxCallArgs (a constant, evaluated once).
CallIndirectSysV ==
    \A n \in 0 .. MaxCallArgs :
        LET args == [i \in 1 .. n |-> i]
            r    == CallIndirect(args)
        IN  /\ r.regs = SysVRegs(args)
            /\ StackArgs(r.stack, n - Len(r.regs)) = SubSeq(args, 7, n)
            /\ r.after = Saved

\* (Not checked: the ABI also asks for %rsp to be 16-byte aligned at the
\* call.  With the caller's return address on the stack at entry, that
\* needs an odd number of words pushed; Len(CallIndirect(args).stack) is
\* even for every count.)
=============================================================================
