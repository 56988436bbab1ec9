--------------------------- MODULE MCProcessTree ---------------------------
(* ProcessTree with four pids: the root, /main and two processes the       *)
(* syscalls can create, enough for a parent with two children or a chain  *)
(* of three below the root.                                                *)
EXTENDS ProcessTree, CallIndirect

\* Whenever a process can issue send_message, a message to the kernel
\* process with any argument_count up to MaxCallArgs (the count is the
\* caller's, never compared with the method's expected_argument_count)
\* reaches call_indirect, and the shim hands the method each argument
\* where the System V ABI puts it (registers and stack words in order,
\* whatever the parity of the count) and its cleanup removes exactly the
\* arguments and the pad, so that pop %r15 and pop %rbp restore the
\* caller's registers.
CallIndirectMarshals == Runnable # {} => CallIndirectSysV
=============================================================================
