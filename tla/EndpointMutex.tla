---------------------------- MODULE EndpointMutex ----------------------------
(***************************************************************************)
(* What the endpoint lock promises (src/sermcp/src/lock_manager.rs): at    *)
(* most one process owns a serial endpoint.                                *)
(*                                                                         *)
(* The owner holds the kernel lock of the file the lock path names.  The   *)
(* path is outside the program's control: when somebody removes or         *)
(* replaces the file, the owner keeps a lock that no longer excludes       *)
(* anybody.  It is then lost, until it releases or dies.                   *)
(***************************************************************************)
CONSTANTS
    Procs,         \* the processes that contend: servers and `dutabo serial`
    NoProc         \* nobody; not one of Procs

VARIABLES
    owner,         \* the process that owns the endpoint
    lost           \* processes whose lock file is not the named one any more

mutexVars == <<owner, lost>>

MutexInit ==
    /\ owner = NoProc
    /\ lost = {}

\* acquire_lock returns None.
MutexAcquire(p) ==
    /\ owner = NoProc
    /\ p \notin lost
    /\ owner' = p
    /\ UNCHANGED lost

\* acquire_lock returns None, but the file was replaced under its last steps.
MutexAcquireLost(p) ==
    /\ owner # p
    /\ lost' = lost \cup {p}
    /\ UNCHANGED owner

\* release_lock, or the death of the process.
MutexRelease(p) ==
    /\ owner' = IF owner = p THEN NoProc ELSE owner
    /\ lost' = lost \ {p}

\* The lock file is removed or replaced from outside.
MutexLose ==
    /\ owner # NoProc
    /\ lost' = lost \cup {owner}
    /\ owner' = NoProc

MutexNext ==
    \/ \E p \in Procs :
          \/ MutexAcquire(p)
          \/ MutexAcquireLost(p)
          \/ MutexRelease(p)
    \/ MutexLose

MutexSpec == MutexInit /\ [][MutexNext]_mutexVars
=============================================================================
