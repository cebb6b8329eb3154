----------------------------- MODULE ProjectLock -----------------------------
(***************************************************************************)
(* One server per project path (src/sermcp/src/lock_manager.rs).           *)
(*                                                                         *)
(* A server locks the project directory, honours a live server that is     *)
(* named by the pid file, and writes its own pid there.  The kernel drops  *)
(* the lock of a process that ends.  Older binaries know the pid file only *)
(* and hooks remove it at any time, so the file and the lock may disagree; *)
(* every read, removal and write of the file is a step of its own.  The    *)
(* root pid file stands for the per-DUT ones, which are read the same way. *)
(***************************************************************************)
EXTENDS Naturals, FiniteSets

CONSTANTS
    Servers,     \* starts of the current binary
    Olds,        \* starts of a binary that does not lock the directory
    NoServer,    \* no process, the pid 0 of an unknown holder, an empty file
    MaxHooked      \* bound: removals of the pid file by hooks

ASSUME ProjectAssumption ==
    /\ Servers \cap Olds = {}
    /\ NoServer \notin Servers \cup Olds
    /\ MaxHooked \in Nat

VARIABLES
    locked,      \* the process whose descriptor locks the directory
    pidfile,     \* the pid in the file
    at,          \* where a process is
    told,        \* the owner a refused server reports
    hooked       \* counter for MaxHooked

projectVars == <<locked, pidfile, at, told, hooked>>

Everyone == Servers \cup Olds

ProjectInit ==
    /\ locked = NoServer
    /\ pidfile = NoServer
    /\ at = [p \in Everyone |-> "off"]
    /\ told = [p \in Servers |-> NoServer]
    /\ hooked = 0

\* A process runs from its start to its end, and its pid is a server's.
Live(p) == p \in Everyone /\ at[p] \notin {"off", "refused", "ended"}

Go(p, step) == at' = [at EXCEPT ![p] = step]

Refuse(p, owner) ==
    /\ Go(p, "refused")
    /\ told' = [told EXCEPT ![p] = owner]

-----------------------------------------------------------------------------
(* acquire_project_lock.                                                   *)

Launch(p) ==
    /\ at[p] = "off"
    /\ Go(p, "start")
    /\ UNCHANGED <<locked, pidfile, told, hooked>>

\* Mutant: the lock of a directory whose pid file names nobody is not honoured.
TryProjectUnnamed(p) ==
    /\ at[p] = "start"
    /\ \/ /\ locked = NoServer \/ ~Live(pidfile)
          /\ locked' = p
          /\ Go(p, "scan")
       \/ /\ locked # NoServer /\ Live(pidfile)
          /\ Go(p, "who")
          /\ UNCHANGED locked
    /\ UNCHANGED <<pidfile, told, hooked>>

\* try_lock on the directory.
TryProject(p) ==
    /\ at[p] = "start"
    /\ \/ /\ locked = NoServer
          /\ locked' = p
          /\ Go(p, "scan")
       \/ /\ locked # NoServer
          /\ Go(p, "who")
          /\ UNCHANGED locked
    /\ UNCHANGED <<pidfile, told, hooked>>

\* Somebody holds it: the pid file is read for a name.
ReadOwner(p) ==
    /\ at[p] = "who"
    /\ \/ /\ Live(pidfile)
          /\ Refuse(p, pidfile)
       \/ /\ ~Live(pidfile)
          /\ Go(p, "again")
          /\ UNCHANGED told
    /\ UNCHANGED <<locked, pidfile, hooked>>

\* check_project_singleton reads it again, and means to remove a stale one.
ReadAgain(p) ==
    /\ at[p] = "again"
    /\ \/ /\ Live(pidfile)
          /\ Refuse(p, pidfile)
       \/ /\ ~Live(pidfile)
          /\ Go(p, IF pidfile = NoServer THEN "proc" ELSE "unlink")
          /\ UNCHANGED told
    /\ UNCHANGED <<locked, pidfile, hooked>>

\* What it removes is the file that is there now.
UnlinkStale(p) ==
    /\ at[p] = "unlink"
    /\ pidfile' = NoServer
    /\ Go(p, "proc")
    /\ UNCHANGED <<locked, told, hooked>>

\* Any other server process of the project is named, a refused one included.
ScanProcesses(p) ==
    /\ at[p] = "proc"
    /\ LET others == {q \in Everyone \ {p} : Live(q)}
       IN  \E owner \in IF others = {} THEN {NoServer} ELSE others : Refuse(p, owner)
    /\ UNCHANGED <<locked, pidfile, hooked>>

\* Mutant: any server process of the project counts, as for a server that is
\* refused.
ScanFileAndProcesses(p) ==
    /\ at[p] = "scan"
    /\ IF \E q \in Everyone \ {p} : Live(q)
       THEN Refuse(p, CHOOSE q \in Everyone \ {p} : Live(q)) /\ locked' = NoServer
       ELSE Go(p, "publish") /\ UNCHANGED <<told, locked>>
    /\ UNCHANGED <<pidfile, hooked>>

\* The directory is locked: an older server that the file names goes first.
ScanFile(p) ==
    /\ at[p] = "scan"
    /\ IF Live(pidfile) /\ pidfile # p
       THEN Refuse(p, pidfile) /\ locked' = NoServer
       ELSE Go(p, "publish") /\ UNCHANGED <<told, locked>>
    /\ UNCHANGED <<pidfile, hooked>>

\* The file is truncated, then written.
Truncate(p) ==
    /\ at[p] = "publish"
    /\ pidfile' = NoServer
    /\ Go(p, "write")
    /\ UNCHANGED <<locked, told, hooked>>

PublishPid(p) ==
    /\ at[p] = "write"
    /\ pidfile' = p
    /\ Go(p, "own")
    /\ UNCHANGED <<locked, told, hooked>>

\* Drop reads the file, removes its own, and closes the directory.
DropRead(p) ==
    /\ at[p] = "own"
    /\ Go(p, IF pidfile = p THEN "remove" ELSE "close")
    /\ UNCHANGED <<locked, pidfile, told, hooked>>

DropRemove(p) ==
    /\ at[p] = "remove"
    /\ pidfile' = NoServer
    /\ Go(p, "close")
    /\ UNCHANGED <<locked, told, hooked>>

DropClose(p) ==
    /\ at[p] = "close"
    /\ Go(p, "ended")
    /\ locked' = NoServer
    /\ UNCHANGED <<pidfile, told, hooked>>

-----------------------------------------------------------------------------
(* The others.                                                             *)

\* An older binary goes by the pid file alone.
OldChecks(o) ==
    /\ at[o] = "start"
    /\ Go(o, IF Live(pidfile) THEN "refused" ELSE "publish")
    /\ UNCHANGED <<locked, pidfile, told, hooked>>

OldPublishes(o) ==
    /\ at[o] = "publish"
    /\ pidfile' = o
    /\ Go(o, "own")
    /\ UNCHANGED <<locked, told, hooked>>

OldEnds(o) ==
    /\ at[o] = "own"
    /\ Go(o, "ended")
    /\ pidfile' = IF pidfile = o THEN NoServer ELSE pidfile
    /\ UNCHANGED <<locked, told, hooked>>

\* A process is killed: the kernel drops its lock, its file stays.
Killed9(p) ==
    /\ Live(p)
    /\ Go(p, "ended")
    /\ locked' = IF locked = p THEN NoServer ELSE locked
    /\ UNCHANGED <<pidfile, told, hooked>>

\* A hook removes the file.
HookCleans ==
    /\ hooked < MaxHooked /\ pidfile # NoServer
    /\ pidfile' = NoServer
    /\ hooked' = hooked + 1
    /\ UNCHANGED <<locked, at, told>>

ProjectNext ==
    \/ \E p \in Servers :
          \/ TryProject(p) \/ ReadOwner(p) \/ ReadAgain(p) \/ UnlinkStale(p)
          \/ ScanProcesses(p) \/ ScanFile(p) \/ Truncate(p) \/ PublishPid(p)
          \/ DropRead(p) \/ DropRemove(p) \/ DropClose(p)
    \/ \E o \in Olds : OldChecks(o) \/ OldPublishes(o) \/ OldEnds(o)
    \/ \E p \in Everyone : Launch(p) \/ Killed9(p)
    \/ HookCleans

ProjectSpec == ProjectInit /\ [][ProjectNext]_projectVars

-----------------------------------------------------------------------------
(* Properties.                                                             *)

Holding == {"scan", "publish", "write", "own", "remove", "close"}

\* The variables have their types.
ProjectTypeOK ==
    /\ locked \in Servers \cup {NoServer}
    /\ pidfile \in Everyone \cup {NoServer}
    /\ at \in [Everyone -> Holding \cup {"off", "start", "who", "again", "unlink",
                                         "proc", "refused", "ended"}]
    /\ told \in [Servers -> Everyone \cup {NoServer}]
    /\ hooked \in 0 .. MaxHooked

\* "deleting or corrupting it cannot create a second owner while the first
\* process still holds the directory lock": two current servers never both go
\* past the lock, whatever becomes of the pid file.
OneOwner ==
    \A p, q \in Servers : at[p] \in Holding /\ at[q] \in Holding => p = q

\* Servers that start together do not turn each other away: as long as no
\* process has ended, there is one behind every refusal that serves or is on
\* its way to.
SomeStartSurvives ==
    (\E p \in Everyone : at[p] = "refused") =>
        \E q \in Everyone : at[q] \in Holding \cup {"ended"}
=============================================================================
