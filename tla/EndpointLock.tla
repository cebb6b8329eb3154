----------------------------- MODULE EndpointLock -----------------------------
(***************************************************************************)
(* The endpoint lock, system call by system call                           *)
(* (src/sermcp/src/lock_manager.rs).                                       *)
(*                                                                         *)
(* A process opens the lock file, takes the kernel lock of the inode it    *)
(* got, checks that the path still names that inode, and publishes its pid *)
(* in the file.  Other processes, crashes, and whoever cleans /tmp may act *)
(* between any two of these calls.  Within a process HELD_LOCKS serialises *)
(* acquire_lock and release_lock, so a process has one call in progress.   *)
(***************************************************************************)
EXTENDS Naturals, FiniteSets

CONSTANTS
    Procs,         \* processes that use the lock; a restarted one is another
    NoProc,        \* no process, and the pid 0 of an unknown holder
    Inodes,        \* bound: inodes the file system may use for the lock file
    NoInode,
    MaxReplaced    \* bound: removals and replacements of the lock file

ASSUME LockAssumption ==
    /\ NoProc \notin Procs
    /\ NoInode \notin Inodes
    /\ MaxReplaced \in Nat

VARIABLES
    path,          \* the inode the lock path names
    flock,         \* the process whose descriptor holds an inode's kernel lock
    pid,           \* the pid recorded in an inode
    held,          \* HELD_LOCKS of a process: the inode of its descriptor
    fd,            \* the inode opened by the call in progress
    pc,            \* where the call in progress is
    seen,          \* the pid a refused call read from the lock file
    reply,         \* what the last acquire_lock returned
    alive,         \* the processes that run
    replaced,      \* counter for MaxReplaced
    shaken         \* history: processes that took their kernel lock before
                   \* the last replacement

vars == <<path, flock, pid, held, fd, pc, seen, reply, alive, replaced, shaken>>
calls == <<held, fd, pc, seen, reply>>
world == <<alive, replaced, shaken>>

Steps == {"idle", "entered", "opened", "refused", "named", "locked",
          "verified", "cleared"}

\* The steps of a call that has no file open.
NoFile == {"idle", "entered", "refused", "named"}

\* A descriptor of this process keeps its inode from being used again.
Open(p) == {held[p], fd[p]} \ {NoInode}
Free == Inodes \ ({path} \cup UNION {Open(p) : p \in Procs})

Ok == [kind |-> "ok", owner |-> NoProc]
Conflict(owner) == [kind |-> "conflict", owner |-> owner]
NoReply == [kind |-> "none", owner |-> NoProc]

Return(p, r) ==
    /\ reply' = [reply EXCEPT ![p] = r]
    /\ seen' = [seen EXCEPT ![p] = NoProc]
    /\ pc' = [pc EXCEPT ![p] = "idle"]
    /\ fd' = [fd EXCEPT ![p] = NoInode]

Init ==
    /\ path = NoInode
    /\ flock = [i \in Inodes |-> NoProc]
    /\ pid = [i \in Inodes |-> NoProc]
    /\ held = [p \in Procs |-> NoInode]
    /\ fd = [p \in Procs |-> NoInode]
    /\ pc = [p \in Procs |-> "idle"]
    /\ seen = [p \in Procs |-> NoProc]
    /\ reply = [p \in Procs |-> NoReply]
    /\ alive = Procs
    /\ replaced = 0
    /\ shaken = {}

-----------------------------------------------------------------------------
(* acquire_lock.                                                           *)

\* The call waits for HELD_LOCKS.
Enter(p) ==
    /\ p \in alive /\ pc[p] = "idle"
    /\ pc' = [pc EXCEPT ![p] = "entered"]
    /\ reply' = [reply EXCEPT ![p] = NoReply]
    /\ UNCHANGED <<path, flock, pid, held, fd, seen, world>>

\* Mutant: a descriptor that is registered counts as the lock.
ReacquireUnchecked(p) ==
    /\ p \in alive /\ pc[p] = "entered" /\ held[p] # NoInode
    /\ Return(p, Ok)
    /\ UNCHANGED <<path, flock, pid, held, world>>

\* The process holds a descriptor already: the lock is its own only while the
\* path names that inode.
Reacquire(p) ==
    /\ p \in alive /\ pc[p] = "entered" /\ held[p] # NoInode
    /\ Return(p, IF held[p] = path THEN Ok ELSE Conflict(NoProc))
    /\ UNCHANGED <<path, flock, pid, held, world>>

\* open(create, no truncation).
OpenFile(p) ==
    /\ p \in alive /\ pc[p] = "entered" /\ held[p] = NoInode
    /\ \/ /\ path # NoInode
          /\ fd' = [fd EXCEPT ![p] = path]
          /\ UNCHANGED <<path, flock, pid>>
       \/ /\ path = NoInode
          /\ \E i \in Free :
                /\ path' = i
                /\ fd' = [fd EXCEPT ![p] = i]
                /\ pid' = [pid EXCEPT ![i] = NoProc]
          /\ UNCHANGED flock
    /\ pc' = [pc EXCEPT ![p] = "opened"]
    /\ UNCHANGED <<held, seen, reply, world>>

\* Mutant: a lock whose recorded holder is not alive is taken over, as before
\* the kernel lock.
TryLockStealing(p) ==
    /\ p \in alive /\ pc[p] = "opened"
    /\ IF flock[fd[p]] = NoProc \/ pid[fd[p]] \notin alive
       THEN /\ flock' = [flock EXCEPT ![fd[p]] = p]
            /\ shaken' = shaken \ {p}
            /\ pc' = [pc EXCEPT ![p] = "locked"]
            /\ UNCHANGED fd
       ELSE /\ pc' = [pc EXCEPT ![p] = "refused"]
            /\ fd' = [fd EXCEPT ![p] = NoInode]
            /\ UNCHANGED <<flock, shaken>>
    /\ UNCHANGED <<path, pid, held, seen, reply, alive, replaced>>

\* try_lock.
TryLock(p) ==
    /\ p \in alive /\ pc[p] = "opened"
    /\ \/ /\ flock[fd[p]] = NoProc
          /\ flock' = [flock EXCEPT ![fd[p]] = p]
          /\ shaken' = shaken \ {p}
          /\ pc' = [pc EXCEPT ![p] = "locked"]
          /\ UNCHANGED fd
       \/ /\ flock[fd[p]] # NoProc
          /\ pc' = [pc EXCEPT ![p] = "refused"]
          /\ fd' = [fd EXCEPT ![p] = NoInode]
          /\ UNCHANGED <<flock, shaken>>
    /\ UNCHANGED <<path, pid, held, seen, reply, alive, replaced>>

\* The refused call reads the pid in the file that the path names now.
ReadHolder(p) ==
    /\ p \in alive /\ pc[p] = "refused"
    /\ seen' = [seen EXCEPT ![p] = IF path = NoInode THEN NoProc ELSE pid[path]]
    /\ pc' = [pc EXCEPT ![p] = "named"]
    /\ UNCHANGED <<path, flock, pid, held, fd, reply, world>>

\* A pid that is not alive, or that was not written yet, is an unknown holder.
ReportHolder(p) ==
    /\ p \in alive /\ pc[p] = "named"
    /\ Return(p, Conflict(IF seen[p] \in alive THEN seen[p] ELSE NoProc))
    /\ UNCHANGED <<path, flock, pid, held, world>>

\* Mutant: the locked inode is not compared with the one the path names.
VerifyNothing(p) ==
    /\ p \in alive /\ pc[p] = "locked"
    /\ pc' = [pc EXCEPT ![p] = "verified"]
    /\ UNCHANGED <<path, flock, pid, held, fd, seen, reply, world>>

\* Mutant: the descriptor of the wrong inode stays open.
VerifyLeaking(p) ==
    /\ p \in alive /\ pc[p] = "locked"
    /\ \/ /\ fd[p] = path
          /\ pc' = [pc EXCEPT ![p] = "verified"]
          /\ UNCHANGED reply
       \/ /\ fd[p] # path
          /\ pc' = [pc EXCEPT ![p] = "idle"]
          /\ reply' = [reply EXCEPT ![p] = Conflict(NoProc)]
    /\ UNCHANGED <<path, flock, pid, held, fd, seen, world>>

\* same_lock_inode after try_lock; on a mismatch the descriptor is dropped.
Verify(p) ==
    /\ p \in alive /\ pc[p] = "locked"
    /\ \/ /\ fd[p] = path
          /\ pc' = [pc EXCEPT ![p] = "verified"]
          /\ UNCHANGED <<flock, fd, seen, reply>>
       \/ /\ fd[p] # path
          /\ flock' = [flock EXCEPT ![fd[p]] = NoProc]
          /\ Return(p, Conflict(NoProc))
    /\ UNCHANGED <<path, pid, held, world>>

\* Publish the pid and register the descriptor.
Publish(p) ==
    /\ p \in alive /\ pc[p] = "verified"
    /\ pid' = [pid EXCEPT ![fd[p]] = p]
    /\ held' = [held EXCEPT ![p] = fd[p]]
    /\ Return(p, Ok)
    /\ UNCHANGED <<path, flock, world>>

-----------------------------------------------------------------------------
(* release_lock.                                                           *)

\* Mutant: the pid stays in the file.
ClearNothing(p) ==
    /\ p \in alive /\ pc[p] = "idle" /\ held[p] # NoInode
    /\ held' = [held EXCEPT ![p] = NoInode]
    /\ fd' = [fd EXCEPT ![p] = held[p]]
    /\ pc' = [pc EXCEPT ![p] = "cleared"]
    /\ UNCHANGED <<path, flock, pid, seen, reply, world>>

\* The descriptor leaves HELD_LOCKS and the diagnostics are cleared.
ClearPid(p) ==
    /\ p \in alive /\ pc[p] = "idle" /\ held[p] # NoInode
    /\ pid' = [pid EXCEPT ![held[p]] = NoProc]
    /\ held' = [held EXCEPT ![p] = NoInode]
    /\ fd' = [fd EXCEPT ![p] = held[p]]
    /\ pc' = [pc EXCEPT ![p] = "cleared"]
    /\ UNCHANGED <<path, flock, seen, reply, world>>

\* Dropping the descriptor releases the kernel lock; the file stays.
Unlock(p) ==
    /\ p \in alive /\ pc[p] = "cleared"
    /\ flock' = [flock EXCEPT ![fd[p]] = NoProc]
    /\ fd' = [fd EXCEPT ![p] = NoInode]
    /\ pc' = [pc EXCEPT ![p] = "idle"]
    /\ UNCHANGED <<path, pid, held, seen, reply, world>>

-----------------------------------------------------------------------------
(* The environment.                                                        *)

\* A process dies at any point; the kernel closes its descriptors.
Die(p) ==
    /\ p \in alive
    /\ alive' = alive \ {p}
    /\ flock' = [i \in Inodes |-> IF flock[i] = p THEN NoProc ELSE flock[i]]
    /\ held' = [held EXCEPT ![p] = NoInode]
    /\ fd' = [fd EXCEPT ![p] = NoInode]
    /\ pc' = [pc EXCEPT ![p] = "idle"]
    /\ seen' = [seen EXCEPT ![p] = NoProc]
    /\ UNCHANGED <<path, pid, reply, replaced, shaken>>

\* The lock file is removed, or another file takes its name.
Replace ==
    /\ path # NoInode
    /\ replaced < MaxReplaced
    /\ replaced' = replaced + 1
    /\ shaken' = Procs
    /\ \/ path' = NoInode /\ UNCHANGED pid
       \/ \E i \in Free :
             /\ path' = i
             /\ pid' = [pid EXCEPT ![i] = NoProc]
    /\ UNCHANGED <<flock, calls, alive>>

Next ==
    \/ \E p \in Procs :
          \/ Enter(p)
          \/ Reacquire(p)
          \/ OpenFile(p)
          \/ TryLock(p)
          \/ ReadHolder(p)
          \/ ReportHolder(p)
          \/ Verify(p)
          \/ Publish(p)
          \/ ClearPid(p)
          \/ Unlock(p)
          \/ Die(p)
    \/ Replace

Spec == Init /\ [][Next]_vars

-----------------------------------------------------------------------------
(* Properties.                                                             *)

\* The type invariant: every variable holds a value of its kind, and a call
\* has a file open between its open and its end only.
TypeOK ==
    /\ path \in Inodes \cup {NoInode}
    /\ flock \in [Inodes -> Procs \cup {NoProc}]
    /\ pid \in [Inodes -> Procs \cup {NoProc}]
    /\ held \in [Procs -> Inodes \cup {NoInode}]
    /\ fd \in [Procs -> Inodes \cup {NoInode}]
    /\ pc \in [Procs -> Steps]
    /\ \A p \in Procs : fd[p] = NoInode <=> pc[p] \in NoFile
    /\ seen \in [Procs -> Procs \cup {NoProc}]
    /\ reply \in [Procs -> [kind : {"none", "ok", "conflict"},
                            owner : Procs \cup {NoProc}]]
    /\ alive \subseteq Procs
    /\ replaced \in Nat
    /\ shaken \subseteq Procs

\* lock_identity_intact.
Intact(p) == held[p] # NoInode /\ held[p] = path

\* Whatever is removed, replaced or killed, two processes never both hold the
\* lock file the path names.
OneIntactHolder ==
    \A p, q \in Procs : Intact(p) /\ Intact(q) => p = q

\* A lock taken on a file that had lost its name already is never registered:
\* unless the path was replaced since it was locked, a held lock is the named
\* one.
HeldIsNamed ==
    \A p \in Procs \ shaken : held[p] # NoInode => Intact(p)

\* A live process named by the lock file holds its kernel lock: nobody asks a
\* process to yield an endpoint it has released ("Clearing before unlock
\* prevents a live multi-DUT server from appearing to still own a retired
\* endpoint").
PidNamesHolder ==
    path # NoInode /\ pid[path] \in alive => flock[path] = pid[path]

\* A conflict never names the process that asked: `dutabo serial`, which
\* signals the named owner to make it yield, never signals itself.
NoSelfConflict == \A p \in Procs : reply[p].owner # p

\* A process whose lock file was replaced is not told again that it owns the
\* endpoint until it has released its descriptor.
LostIsNotRegained ==
    [][\A p \in Procs :
          held[p] # NoInode /\ ~Intact(p) /\ reply'[p] # reply[p]
             => reply'[p].kind # "ok"]_vars

\* The abstract owner: the process that holds the named lock file.
Owner == IF \E p \in Procs : Intact(p)
         THEN CHOOSE p \in Procs : Intact(p) ELSE NoProc
Lost == {p \in Procs : held[p] # NoInode /\ held[p] # path}

Mutex == INSTANCE EndpointMutex WITH owner <- Owner, lost <- Lost

\* The lock implements the mutex.
MutexRefined == Mutex!MutexSpec
=============================================================================
