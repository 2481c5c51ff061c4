----------------------------- MODULE MCUThreads -----------------------------
(***************************************************************************)
(* Client programs for model checking UThreads: what the threads of the     *)
(* program call besides thread_create, thread_yield and thread_exit.        *)
(***************************************************************************)
EXTENDS UThreads

\* Every blocking call; nobody is killed, nothing is destroyed.
Blocking == {"sleep", "wait", "lock", "cv"}

\* Threads are killed while they hold or wait for locks, locks and condition
\* variables are destroyed, the latter also while in use, and malloc may fail.
Killing == {"kill", "lock", "cv", "destroy", "nomemory"}
=============================================================================
