----------------------------- MODULE Semaphore ------------------------------
(***************************************************************************)
(* What a driver expects of a kernel semaphore that sema_init set to 1:    *)
(* at most one thread at a time is between its down and its up.  A thread  *)
(* may leave without up (Abandon) where MayAbandon says that the driver    *)
(* has such a path; nobody enters after that until the semaphore is        *)
(* initialized again.  CanSpi and Spike implement this specification.      *)
(***************************************************************************)
CONSTANTS Threads, MayAbandon

VARIABLES
  inside,       \* the threads between down and up
  abandoned     \* a thread has left without up

semVars == <<inside, abandoned>>

SemInit == inside = {} /\ abandoned = FALSE

Down(t) ==
  /\ inside = {} /\ ~abandoned
  /\ inside' = {t}
  /\ UNCHANGED abandoned

Up(t) ==
  /\ inside = {t}
  /\ inside' = {}
  /\ UNCHANGED abandoned

Abandon(t) ==
  /\ MayAbandon /\ inside = {t}
  /\ inside' = {}
  /\ abandoned' = TRUE

(* sema_init, when the module is loaded again.                             *)
Reinit ==
  /\ inside = {}
  /\ abandoned' = FALSE
  /\ UNCHANGED inside

SemNext == Reinit \/ \E t \in Threads : Down(t) \/ Up(t) \/ Abandon(t)

SemSpec == SemInit /\ [][SemNext]_semVars
=============================================================================
