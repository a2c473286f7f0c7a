------------------------------ MODULE MCKernel ------------------------------
(***************************************************************************)
(* Instances of module Kernel for the model checker.  The programs of a    *)
(* run issue only the system calls its question is about; the numbers are  *)
(* in the cfg files.                                                       *)
(***************************************************************************)
EXTENDS Kernel

\* Processes come and go: run lifecycle.
LifecycleCalls == {"fork", "exit", "wait", "kill"}

\* Programs compute, and change tier in every way there is: run mlfq.
ComputeCalls == {"fork", "exec", "yield", "set_tier", "tier_request", "no_memory"}
FromZeroToCritical == {KERNEL, CRITICAL}

\* exec makes the shell a USER task: run linked_twice.
ExecCalls == {"fork", "exec", "yield"}

\* Programs that only fork and yield: run starvation.
ForkYieldCalls == {"fork", "yield"}

\* Programs that wait for their children and die: run service.
WaitCalls == {"fork", "exit", "wait"}

\* fork_with_sandbox arguments.  0 stands for an argument that is not given.
Inherit == {0}
AsUser == {USER}
InheritOrUser == {0, USER}
QuotaOf30 == {0, 30}
QuotaOf20 == {0, 20}
NoTiers == {}

=============================================================================
