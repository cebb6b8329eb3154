----------------------------- MODULE FilesProofs ------------------------------
(***************************************************************************)
(* Proofs about the machines of MCFiles, for every value of their          *)
(* constants.                                                              *)
(*                                                                         *)
(* EndpointLock, for any number of processes, inodes and replacements of   *)
(* the lock file: mutual exclusion, and the abstract lock that it          *)
(* implements.  ProjectLock, for any number of starts of either binary and *)
(* of removals of the pid file: one owner, and no start is turned away by  *)
(* starts that are turned away themselves.                                 *)
(*                                                                         *)
(* ConfigSave, for any number of wizards, endpoints, saves and starts of   *)
(* the server: an acknowledged save has released what it removed.  The     *)
(* promise of a save is made in steps: a wizard that found no server       *)
(* relies on the next one to load the file it wrote; a server that was     *)
(* asked lists what it still has to retire.  Any later save ends them all, *)
(* so a promise is always about the version of the file it was made for.   *)
(*                                                                         *)
(* InitTest, for every form and any number of presses of the button: a     *)
(* probe that waits for the result of another one is never left waiting.   *)
(* What it needs is reported by a probe on a thread of its own, or by one  *)
(* that the lane has before it.                                            *)
(*                                                                         *)
(* InitForm, for every bound on its hosts, DUTs, texts and steps: a tab    *)
(* that stays keeps its texts when others come and go.  A tab is known by  *)
(* its identity and a text by its place, so this needs that no two tabs    *)
(* have one identity, that every text is at a place that is shown, and     *)
(* that texts which move do not land on each other.                        *)
(*                                                                         *)
(* At the end, MCFiles itself: its behaviours are behaviours of each of    *)
(* the machines, so all that is proved of them is proved of it.            *)
(***************************************************************************)
EXTENDS MCFiles, SerialLogProofs

-----------------------------------------------------------------------------
(* The endpoint lock.                                                      *)

\* A call that has the kernel lock of the file it opened.
Locking(p) == pc[p] \in {"locked", "verified", "cleared"}

\* A call locks the inode it opened, and HELD_LOCKS only has locked inodes.
LocksOwned ==
    \A p \in Procs :
        /\ Locking(p) => flock[fd[p]] = p
        /\ held[p] # NoInode =>
              /\ flock[held[p]] = p
              /\ pc[p] \in {"idle", "entered"}

\* A process has no other kernel lock than these.
LocksAccounted ==
    \A p \in Procs, i \in Inodes :
        flock[i] = p => held[p] = i \/ (Locking(p) /\ fd[p] = i)

\* The pid of a live process is in the inodes it has locked only, and not
\* before Publish or after ClearPid.
PidsPublished ==
    /\ \A i \in Inodes : pid[i] \in alive => flock[i] = pid[i]
    /\ \A p \in Procs : Locking(p) => pid[fd[p]] \notin alive

\* Unless the path was replaced since, a verified inode is the named one.
NamedUnlessShaken ==
    \A p \in Procs \ shaken :
        /\ held[p] # NoInode => held[p] = path
        /\ pc[p] = "verified" => fd[p] = path

NotSelf == \A p \in Procs : seen[p] # p /\ reply[p].owner # p

LockInv ==
    /\ TypeOK
    /\ LocksOwned
    /\ LocksAccounted
    /\ PidsPublished
    /\ NamedUnlessShaken
    /\ NotSelf

-----------------------------------------------------------------------------
(* The inductive invariant.                                                *)

\* The first state satisfies the invariant.
LEMMA LockInit == Init => LockInv
BY LockAssumption
   DEF Init, LockInv, TypeOK, LocksOwned, LocksAccounted, PidsPublished,
       NamedUnlessShaken, NotSelf, Locking, NoReply, NoFile, Steps

\* Every step keeps the types of the variables.
LEMMA LockTypes == TypeOK /\ [Next]_vars => TypeOK'
<1> SUFFICES ASSUME TypeOK, [Next]_vars PROVE TypeOK'
  OBVIOUS
<1> USE LockAssumption DEF TypeOK, NoFile, Steps, calls, world
<1>1. ASSUME NEW p \in Procs, Enter(p) PROVE TypeOK'
  BY <1>1 DEF Enter, NoReply
<1>2. ASSUME NEW p \in Procs, Reacquire(p) PROVE TypeOK'
  BY <1>2 DEF Reacquire, Return, Ok, Conflict
<1>3. ASSUME NEW p \in Procs, OpenFile(p) PROVE TypeOK'
  BY <1>3 DEF OpenFile, Free
<1>4. ASSUME NEW p \in Procs, TryLock(p) PROVE TypeOK'
  BY <1>4 DEF TryLock
<1>5. ASSUME NEW p \in Procs, ReadHolder(p) PROVE TypeOK'
  BY <1>5 DEF ReadHolder
<1>6. ASSUME NEW p \in Procs, ReportHolder(p) PROVE TypeOK'
  BY <1>6 DEF ReportHolder, Return, Conflict
<1>7. ASSUME NEW p \in Procs, Verify(p) PROVE TypeOK'
  BY <1>7 DEF Verify, Return, Conflict
<1>8. ASSUME NEW p \in Procs, Publish(p) PROVE TypeOK'
  BY <1>8 DEF Publish, Return, Ok
<1>9. ASSUME NEW p \in Procs, ClearPid(p) PROVE TypeOK'
  BY <1>9 DEF ClearPid
<1>10. ASSUME NEW p \in Procs, Unlock(p) PROVE TypeOK'
  BY <1>10 DEF Unlock
<1>11. ASSUME NEW p \in Procs, Die(p) PROVE TypeOK'
  BY <1>11 DEF Die
<1>12. CASE Replace
  BY <1>12 DEF Replace, Free
<1>13. CASE UNCHANGED vars
  BY <1>13 DEF vars
<1> QED
  BY <1>1, <1>2, <1>3, <1>4, <1>5, <1>6, <1>7, <1>8, <1>9, <1>10, <1>11,
     <1>12, <1>13 DEF Next

\* Every step keeps the invariant.
LEMMA LockStep == LockInv /\ [Next]_vars => LockInv'
<1> SUFFICES ASSUME LockInv, [Next]_vars PROVE LockInv'
  OBVIOUS
<1>0. TypeOK /\ TypeOK'
  BY LockTypes DEF LockInv
<1> USE LockAssumption, <1>0
        DEF LockInv, TypeOK, Steps, NoFile, Locking, calls, world
<1> DEFINE Parts == /\ LocksOwned
                    /\ LocksAccounted
                    /\ PidsPublished
                    /\ NamedUnlessShaken
                    /\ NotSelf
<1> SUFFICES Parts'
  OBVIOUS
<1>1. ASSUME NEW p \in Procs, Enter(p) PROVE Parts'
  <2>1. LocksOwned'
    BY <1>1 DEF LocksOwned, Enter, NoReply
  <2>2. LocksAccounted'
    BY <1>1 DEF LocksAccounted, Enter, NoReply
  <2>3. PidsPublished'
    BY <1>1 DEF PidsPublished, Enter, NoReply
  <2>4. NamedUnlessShaken'
    BY <1>1 DEF NamedUnlessShaken, Enter, NoReply
  <2>5. NotSelf'
    BY <1>1 DEF NotSelf, Enter, NoReply
  <2> QED
    BY <2>1, <2>2, <2>3, <2>4, <2>5
<1>2. ASSUME NEW p \in Procs, Reacquire(p) PROVE Parts'
  <2>1. LocksOwned'
    BY <1>2 DEF LocksOwned, Reacquire, Return, Ok, Conflict
  <2>2. LocksAccounted'
    BY <1>2 DEF LocksAccounted, Reacquire, Return, Ok, Conflict
  <2>3. PidsPublished'
    BY <1>2 DEF PidsPublished, Reacquire, Return, Ok, Conflict
  <2>4. NamedUnlessShaken'
    BY <1>2 DEF NamedUnlessShaken, Reacquire, Return, Ok, Conflict
  <2>5. NotSelf'
    BY <1>2 DEF NotSelf, Reacquire, Return, Ok, Conflict
  <2> QED
    BY <2>1, <2>2, <2>3, <2>4, <2>5
<1>3. ASSUME NEW p \in Procs, OpenFile(p) PROVE Parts'
  <2>1. LocksOwned'
    BY <1>3 DEF LocksOwned, OpenFile, Free, Open
  <2>2. LocksAccounted'
    BY <1>3 DEF LocksAccounted, OpenFile, Free, Open
  <2>3. PidsPublished'
    BY <1>3 DEF PidsPublished, OpenFile, Free, Open
  <2>4. NamedUnlessShaken'
    BY <1>3 DEF NamedUnlessShaken, OpenFile, Free, Open
  <2>5. NotSelf'
    BY <1>3 DEF NotSelf, OpenFile, Free, Open
  <2> QED
    BY <2>1, <2>2, <2>3, <2>4, <2>5
<1>4. ASSUME NEW p \in Procs, TryLock(p) PROVE Parts'
  <2>1. LocksOwned'
    BY <1>4 DEF LocksOwned, TryLock
  <2>2. LocksAccounted'
    BY <1>4 DEF LocksAccounted, TryLock
  <2>3. PidsPublished'
    BY <1>4 DEF PidsPublished, TryLock
  <2>4. NamedUnlessShaken'
    BY <1>4 DEF NamedUnlessShaken, LocksOwned, TryLock
  <2>5. NotSelf'
    BY <1>4 DEF NotSelf, TryLock
  <2> QED
    BY <2>1, <2>2, <2>3, <2>4, <2>5
<1>5. ASSUME NEW p \in Procs, ReadHolder(p) PROVE Parts'
  <2>1. LocksOwned'
    BY <1>5 DEF LocksOwned, ReadHolder
  <2>2. LocksAccounted'
    BY <1>5 DEF LocksAccounted, ReadHolder
  <2>3. PidsPublished'
    BY <1>5 DEF PidsPublished, ReadHolder
  <2>4. NamedUnlessShaken'
    BY <1>5 DEF NamedUnlessShaken, ReadHolder
  <2>5. NotSelf'
    BY <1>5 DEF NotSelf, PidsPublished, LocksOwned, LocksAccounted, ReadHolder
  <2> QED
    BY <2>1, <2>2, <2>3, <2>4, <2>5
<1>6. ASSUME NEW p \in Procs, ReportHolder(p) PROVE Parts'
  <2>1. LocksOwned'
    BY <1>6 DEF LocksOwned, ReportHolder, Return, Conflict
  <2>2. LocksAccounted'
    BY <1>6 DEF LocksAccounted, ReportHolder, Return, Conflict
  <2>3. PidsPublished'
    BY <1>6 DEF PidsPublished, ReportHolder, Return, Conflict
  <2>4. NamedUnlessShaken'
    BY <1>6 DEF NamedUnlessShaken, ReportHolder, Return, Conflict
  <2>5. NotSelf'
    BY <1>6 DEF NotSelf, ReportHolder, Return, Conflict
  <2> QED
    BY <2>1, <2>2, <2>3, <2>4, <2>5
<1>7. ASSUME NEW p \in Procs, Verify(p) PROVE Parts'
  <2>1. LocksOwned'
    BY <1>7 DEF LocksOwned, Verify, Return, Conflict
  <2>2. LocksAccounted'
    BY <1>7 DEF LocksAccounted, Verify, Return, Conflict
  <2>3. PidsPublished'
    BY <1>7 DEF PidsPublished, Verify, Return, Conflict
  <2>4. NamedUnlessShaken'
    BY <1>7 DEF NamedUnlessShaken, Verify, Return, Conflict
  <2>5. NotSelf'
    BY <1>7 DEF NotSelf, Verify, Return, Conflict
  <2> QED
    BY <2>1, <2>2, <2>3, <2>4, <2>5
<1>8. ASSUME NEW p \in Procs, Publish(p) PROVE Parts'
  <2>1. LocksOwned'
    BY <1>8 DEF LocksOwned, Publish, Return, Ok
  <2>2. LocksAccounted'
    BY <1>8 DEF LocksAccounted, LocksOwned, Publish, Return, Ok
  <2>3. PidsPublished'
    BY <1>8 DEF PidsPublished, LocksOwned, Publish, Return, Ok
  <2>4. NamedUnlessShaken'
    BY <1>8 DEF NamedUnlessShaken, Publish, Return, Ok
  <2>5. NotSelf'
    BY <1>8 DEF NotSelf, Publish, Return, Ok
  <2> QED
    BY <2>1, <2>2, <2>3, <2>4, <2>5
<1>9. ASSUME NEW p \in Procs, ClearPid(p) PROVE Parts'
  <2>1. LocksOwned'
    BY <1>9 DEF LocksOwned, ClearPid
  <2>2. LocksAccounted'
    BY <1>9 DEF LocksAccounted, ClearPid
  <2>3. PidsPublished'
    BY <1>9 DEF PidsPublished, ClearPid
  <2>4. NamedUnlessShaken'
    BY <1>9 DEF NamedUnlessShaken, ClearPid
  <2>5. NotSelf'
    BY <1>9 DEF NotSelf, ClearPid
  <2> QED
    BY <2>1, <2>2, <2>3, <2>4, <2>5
<1>10. ASSUME NEW p \in Procs, Unlock(p) PROVE Parts'
  <2>1. LocksOwned'
    BY <1>10 DEF LocksOwned, Unlock
  <2>2. LocksAccounted'
    BY <1>10 DEF LocksAccounted, Unlock
  <2>3. PidsPublished'
    BY <1>10 DEF PidsPublished, Unlock
  <2>4. NamedUnlessShaken'
    BY <1>10 DEF NamedUnlessShaken, Unlock
  <2>5. NotSelf'
    BY <1>10 DEF NotSelf, Unlock
  <2> QED
    BY <2>1, <2>2, <2>3, <2>4, <2>5
<1>11. ASSUME NEW p \in Procs, Die(p) PROVE Parts'
  <2>1. LocksOwned'
    BY <1>11 DEF LocksOwned, Die
  <2>2. LocksAccounted'
    BY <1>11 DEF LocksAccounted, Die
  <2>3. PidsPublished'
    BY <1>11 DEF PidsPublished, Die
  <2>4. NamedUnlessShaken'
    BY <1>11 DEF NamedUnlessShaken, Die
  <2>5. NotSelf'
    BY <1>11 DEF NotSelf, Die
  <2> QED
    BY <2>1, <2>2, <2>3, <2>4, <2>5
<1>12. CASE Replace
  <2>1. LocksOwned'
    BY <1>12 DEF LocksOwned, Replace, Free, Open
  <2>2. LocksAccounted'
    BY <1>12 DEF LocksAccounted, Replace, Free, Open
  <2>3. PidsPublished'
    BY <1>12 DEF PidsPublished, Replace, Free, Open
  <2>4. NamedUnlessShaken'
    BY <1>12 DEF NamedUnlessShaken, Replace, Free, Open
  <2>5. NotSelf'
    BY <1>12 DEF NotSelf, Replace, Free, Open
  <2> QED
    BY <2>1, <2>2, <2>3, <2>4, <2>5
<1>13. CASE UNCHANGED vars
  <2>1. LocksOwned'
    BY <1>13 DEF LocksOwned, vars
  <2>2. LocksAccounted'
    BY <1>13 DEF LocksAccounted, vars
  <2>3. PidsPublished'
    BY <1>13 DEF PidsPublished, vars
  <2>4. NamedUnlessShaken'
    BY <1>13 DEF NamedUnlessShaken, vars
  <2>5. NotSelf'
    BY <1>13 DEF NotSelf, vars
  <2> QED
    BY <2>1, <2>2, <2>3, <2>4, <2>5
<1> QED
  BY <1>1, <1>2, <1>3, <1>4, <1>5, <1>6, <1>7, <1>8, <1>9, <1>10, <1>11, <1>12, <1>13 DEF Next

-----------------------------------------------------------------------------
(* The safety properties.                                                  *)

\* LockInv holds in every reachable state.
THEOREM LockCorrect == Spec => []LockInv
BY LockInit, LockStep, PTL DEF Spec

\* At most one process holds the lock file the path names: both would have
\* the kernel lock of the same inode.
THEOREM OneHolder == Spec => []OneIntactHolder
<1>1. LockInv => OneIntactHolder
  BY LockAssumption
     DEF LockInv, TypeOK, LocksOwned, OneIntactHolder, Intact
<1> QED
  BY <1>1, LockCorrect, PTL

\* A held lock is the named one unless the path was replaced since.
THEOREM VerifiedLock == Spec => []HeldIsNamed
<1>1. LockInv => HeldIsNamed
  BY DEF LockInv, NamedUnlessShaken, HeldIsNamed, Intact
<1> QED
  BY <1>1, LockCorrect, PTL

\* The pid of a live process in the lock file names the process that has its
\* kernel lock.
THEOREM NamedHolder == Spec => []PidNamesHolder
<1>1. LockInv => PidNamesHolder
  BY DEF LockInv, TypeOK, PidsPublished, PidNamesHolder
<1> QED
  BY <1>1, LockCorrect, PTL

\* No process is told that it is in its own way.
THEOREM NeverSelf == Spec => []NoSelfConflict
<1>1. LockInv => NoSelfConflict
  BY DEF LockInv, NotSelf, NoSelfConflict
<1> QED
  BY <1>1, LockCorrect, PTL

\* A process whose lock file was replaced gets no "ok" before it releases.
THEOREM LostStaysLost == Spec => LostIsNotRegained
<1> DEFINE Told ==
      \A p \in Procs :
         held[p] # NoInode /\ ~Intact(p) /\ reply'[p] # reply[p]
            => reply'[p].kind # "ok"
<1>1. ASSUME LockInv, Next PROVE Told
  <2> SUFFICES ASSUME NEW p \in Procs,
                      held[p] # NoInode, ~Intact(p), reply'[p] # reply[p]
               PROVE  reply'[p].kind # "ok"
    OBVIOUS
  <2> USE <1>1 DEF LockInv, TypeOK, LocksOwned, Intact
  <2>1. ASSUME NEW q \in Procs,
               \/ Enter(q) \/ Reacquire(q) \/ OpenFile(q) \/ TryLock(q)
               \/ ReadHolder(q)
        PROVE  reply'[p].kind # "ok"
    BY <2>1 DEF Enter, Reacquire, OpenFile, TryLock, ReadHolder, Return, Ok,
                Conflict, NoReply
  <2>2. ASSUME NEW q \in Procs,
               \/ ReportHolder(q) \/ Verify(q) \/ Publish(q)
               \/ ClearPid(q) \/ Unlock(q) \/ Die(q)
        PROVE  reply'[p].kind # "ok"
    BY <2>2 DEF ReportHolder, Verify, Publish, ClearPid, Unlock, Die, Return,
                Ok, Conflict
  <2>3. CASE Replace
    BY <2>3 DEF Replace, calls
  <2> QED
    BY <2>1, <2>2, <2>3, <1>1 DEF Next
<1>2. LockInv /\ [Next]_vars => [Told]_vars
  BY <1>1
<1> QED
  BY <1>2, LockCorrect, PTL DEF Spec, LostIsNotRegained

-----------------------------------------------------------------------------
(* The lock implements the mutex.                                          *)

\* Owner is the one process that is intact, if there is one.
OwnerIs ==
    /\ Owner \in Procs \cup {NoProc}
    /\ \A p \in Procs : Intact(p) <=> Owner = p

\* The owner of the abstract lock is the one process whose inode is named.
LEMMA OwnerUnique == LockInv => OwnerIs
<1> SUFFICES ASSUME LockInv PROVE OwnerIs
  OBVIOUS
<1>1. \A p, q \in Procs : Intact(p) /\ Intact(q) => p = q
  BY LockAssumption DEF LockInv, TypeOK, LocksOwned, Intact
<1>2. CASE \E p \in Procs : Intact(p)
  <2>1. /\ Owner \in Procs
        /\ Intact(Owner)
    BY <1>2 DEF Owner
  <2> QED
    BY <2>1, <1>1 DEF OwnerIs
<1>3. CASE ~ \E p \in Procs : Intact(p)
  <2>1. Owner = NoProc
    BY <1>3 DEF Owner
  <2> QED
    BY <2>1, <1>3, LockAssumption DEF OwnerIs
<1> QED
  BY <1>2, <1>3

\* The initial states map to the mutex's initial state.
LEMMA InitRefines == Init => Mutex!MutexInit
BY DEF Init, Mutex!MutexInit, Owner, Lost, Intact

\* A step that keeps every descriptor, intact or not, is a stutter.
LEMMA SameHolders ==
    ASSUME OwnerIs, OwnerIs', held' = held,
           \A p \in Procs : held[p] # NoInode =>
                              (held[p] = path' <=> held[p] = path)
    PROVE  UNCHANGED Mutex!mutexVars
<1>1. Lost' = Lost
  BY DEF Lost
<1>2. Owner' = Owner
  BY LockAssumption DEF OwnerIs, Intact
<1> QED
  BY <1>1, <1>2 DEF Mutex!mutexVars

\* Publish acquires the mutex, lost already when the path was replaced.
LEMMA PublishRefines ==
    ASSUME LockInv, OwnerIs, OwnerIs', NEW p \in Procs, Publish(p)
    PROVE  Mutex!MutexNext
<1> USE LockAssumption DEF LockInv, TypeOK, LocksOwned, Locking
<1>1. /\ held[p] = NoInode
      /\ held' = [held EXCEPT ![p] = fd[p]]
      /\ fd[p] \in Inodes
      /\ flock[fd[p]] = p
      /\ path' = path
  BY DEF Publish, NoFile
<1>2. CASE fd[p] = path
  <2>1. Owner = NoProc
    BY <1>1, <1>2 DEF OwnerIs, Intact
  <2>2. Owner' = p
    BY <1>1, <1>2 DEF OwnerIs, Intact
  <2>3. p \notin Lost /\ Lost' = Lost
    BY <1>1, <1>2 DEF Lost
  <2> QED
    BY <2>1, <2>2, <2>3 DEF Mutex!MutexNext, Mutex!MutexAcquire
<1>3. CASE fd[p] # path
  <2>1. Owner # p
    BY <1>1 DEF OwnerIs, Intact
  <2>2. Owner' = Owner
    BY <1>1, <1>3 DEF OwnerIs, Intact
  <2>3. Lost' = Lost \cup {p}
    BY <1>1, <1>3 DEF Lost
  <2> QED
    BY <2>1, <2>2, <2>3 DEF Mutex!MutexNext, Mutex!MutexAcquireLost
<1> QED
  BY <1>2, <1>3

\* release_lock and death release the mutex.
LEMMA ReleaseRefines ==
    ASSUME LockInv, OwnerIs, OwnerIs', NEW p \in Procs,
           held' = [held EXCEPT ![p] = NoInode], path' = path
    PROVE  Mutex!MutexNext
<1> USE LockAssumption DEF LockInv, TypeOK
<1>1. Owner' = IF Owner = p THEN NoProc ELSE Owner
  BY DEF OwnerIs, Intact
<1>2. Lost' = Lost \ {p}
  BY DEF Lost
<1> QED
  BY <1>1, <1>2 DEF Mutex!MutexNext, Mutex!MutexRelease

\* Replacing the path loses the mutex, if somebody owns it.
LEMMA ReplaceRefines ==
    ASSUME LockInv, OwnerIs, OwnerIs', Replace
    PROVE  [Mutex!MutexNext]_(Mutex!mutexVars)
<1> USE LockAssumption DEF LockInv, TypeOK
<1>1. /\ held' = held
      /\ path' # path
      /\ \A p \in Procs : held[p] # NoInode => held[p] # path'
  BY DEF Replace, calls, Free, Open
<1>2. Owner' = NoProc
  BY <1>1 DEF OwnerIs, Intact
<1>3. CASE Owner = NoProc
  <2>1. Lost' = Lost
    BY <1>1, <1>3 DEF Lost, OwnerIs, Intact
  <2> QED
    BY <1>2, <1>3, <2>1 DEF Mutex!mutexVars
<1>4. CASE Owner # NoProc
  <2>1. Lost' = Lost \cup {Owner}
    BY <1>1, <1>4 DEF Lost, OwnerIs, Intact
  <2> QED
    BY <1>2, <1>4, <2>1 DEF Mutex!MutexNext, Mutex!MutexLose
<1> QED
  BY <1>3, <1>4

\* Every step of the lock is a step of the mutex or a stutter.
LEMMA StepRefines ==
    ASSUME LockInv, OwnerIs, OwnerIs', [Next]_vars
    PROVE  [Mutex!MutexNext]_(Mutex!mutexVars)
<1>1. ASSUME NEW p \in Procs,
             \/ Enter(p) \/ Reacquire(p) \/ TryLock(p) \/ ReadHolder(p)
             \/ ReportHolder(p) \/ Verify(p) \/ Unlock(p)
      PROVE  UNCHANGED Mutex!mutexVars
  <2>1. held' = held /\ path' = path
    BY <1>1 DEF Enter, Reacquire, TryLock, ReadHolder, ReportHolder, Verify,
                Unlock
  <2> QED
    BY <2>1, SameHolders
<1>2. ASSUME NEW p \in Procs, OpenFile(p) PROVE UNCHANGED Mutex!mutexVars
  <2>1. held' = held
    BY <1>2 DEF OpenFile
  <2>2. \A q \in Procs : held[q] # NoInode =>
                            (held[q] = path' <=> held[q] = path)
    BY <1>2 DEF OpenFile, Free, Open
  <2> QED
    BY <2>1, <2>2, SameHolders
<1>3. ASSUME NEW p \in Procs, ClearPid(p) \/ Die(p) PROVE Mutex!MutexNext
  <2>1. held' = [held EXCEPT ![p] = NoInode] /\ path' = path
    BY <1>3 DEF ClearPid, Die
  <2> QED
    BY <2>1, ReleaseRefines
<1>4. CASE UNCHANGED vars
  <2>1. held' = held /\ path' = path
    BY <1>4 DEF vars
  <2> QED
    BY <2>1, SameHolders
<1> QED
  BY <1>1, <1>2, <1>3, <1>4, PublishRefines, ReplaceRefines DEF Next

\* The lock implements the mutex: one process at a time owns the endpoint,
\* and an owner loses it only by releasing it, by dying, or by losing the
\* file.
THEOREM LockRefines == Spec => MutexRefined
<1>1. LockInv /\ OwnerIs /\ OwnerIs' /\ [Next]_vars
         => [Mutex!MutexNext]_(Mutex!mutexVars)
  BY StepRefines
<1> QED
  BY <1>1, InitRefines, OwnerUnique, LockCorrect, PTL
     DEF Spec, MutexRefined, Mutex!MutexSpec

-----------------------------------------------------------------------------
(* The project lock.                                                       *)

\* A server past the lock has it, and who has it is past it: the lock says
\* what the pid file does not.
HoldersLock ==
    /\ \A p \in Servers : at[p] \in Holding => locked = p
    /\ locked # NoServer => at[locked] \in Holding

\* A pid in the file is of a process that wrote it, and that was not refused
\* since.
PidsServed ==
    pidfile # NoServer => at[pidfile] \in {"own", "remove", "close", "ended"}

Survivor == \E q \in Everyone : at[q] \in Holding \cup {"ended"}

\* Who is refused, or on its way to, met somebody.
TurnedAway ==
    \A p \in Everyone :
        at[p] \in {"who", "again", "unlink", "proc", "refused"} => Survivor

ProjectInv ==
    /\ ProjectTypeOK
    /\ HoldersLock
    /\ PidsServed
    /\ TurnedAway

-----------------------------------------------------------------------------
(* The inductive invariant.                                                *)

\* The first state satisfies it.
LEMMA ProjectFirst == ProjectInit => ProjectInv
BY ProjectAssumption
   DEF ProjectInit, ProjectInv, ProjectTypeOK, HoldersLock, PidsServed,
       TurnedAway, Holding, Everyone

\* Every step keeps the types.
LEMMA ProjectTypes == ProjectTypeOK /\ [ProjectNext]_projectVars => ProjectTypeOK'
<1> SUFFICES ASSUME ProjectTypeOK, [ProjectNext]_projectVars
             PROVE  ProjectTypeOK'
  OBVIOUS
<1> USE ProjectAssumption DEF ProjectTypeOK, Go, Refuse, Everyone, Holding, Live
<1>1. ASSUME NEW p \in Servers, TryProject(p) PROVE ProjectTypeOK'
  BY <1>1 DEF TryProject
<1>2. ASSUME NEW p \in Servers, ReadOwner(p) PROVE ProjectTypeOK'
  BY <1>2 DEF ReadOwner
<1>3. ASSUME NEW p \in Servers, ReadAgain(p) PROVE ProjectTypeOK'
  BY <1>3 DEF ReadAgain
<1>4. ASSUME NEW p \in Servers, UnlinkStale(p) PROVE ProjectTypeOK'
  BY <1>4 DEF UnlinkStale
<1>5. ASSUME NEW p \in Servers, ScanProcesses(p) PROVE ProjectTypeOK'
  BY <1>5 DEF ScanProcesses
<1>6. ASSUME NEW p \in Servers, ScanFile(p) PROVE ProjectTypeOK'
  BY <1>6 DEF ScanFile
<1>7. ASSUME NEW p \in Servers, Truncate(p) \/ PublishPid(p) PROVE ProjectTypeOK'
  BY <1>7 DEF Truncate, PublishPid
<1>8. ASSUME NEW p \in Servers, DropRead(p) \/ DropRemove(p) \/ DropClose(p)
      PROVE  ProjectTypeOK'
  BY <1>8 DEF DropRead, DropRemove, DropClose
<1>9. ASSUME NEW o \in Olds, OldChecks(o) \/ OldPublishes(o) \/ OldEnds(o)
      PROVE  ProjectTypeOK'
  BY <1>9 DEF OldChecks, OldPublishes, OldEnds
<1>10. ASSUME NEW p \in Everyone, Launch(p) \/ Killed9(p) PROVE ProjectTypeOK'
  BY <1>10 DEF Launch, Killed9
<1>11. CASE HookCleans
  BY <1>11 DEF HookCleans
<1>12. CASE UNCHANGED projectVars
  BY <1>12 DEF projectVars
<1> QED
  BY <1>1, <1>2, <1>3, <1>4, <1>5, <1>6, <1>7, <1>8, <1>9, <1>10, <1>11,
     <1>12 DEF ProjectNext

\* Every step keeps the rest.
LEMMA ProjectStep == ProjectInv /\ [ProjectNext]_projectVars => ProjectInv'
<1> SUFFICES ASSUME ProjectInv, [ProjectNext]_projectVars PROVE ProjectInv'
  OBVIOUS
<1>0. ProjectTypeOK /\ ProjectTypeOK'
  BY ProjectTypes DEF ProjectInv
<1> DEFINE Parts == HoldersLock /\ PidsServed /\ TurnedAway
<1> SUFFICES Parts'
  BY <1>0 DEF ProjectInv
<1> USE ProjectAssumption, <1>0
        DEF ProjectInv, ProjectTypeOK, HoldersLock, PidsServed, TurnedAway,
            Survivor, Go, Refuse, Everyone, Holding
<1>1. ASSUME NEW p \in Servers, TryProject(p) PROVE Parts'
  BY <1>1 DEF TryProject
<1>2. ASSUME NEW p \in Servers, ReadOwner(p) PROVE Parts'
  BY <1>2 DEF ReadOwner
<1>3. ASSUME NEW p \in Servers, ReadAgain(p) PROVE Parts'
  BY <1>3 DEF ReadAgain
<1>4. ASSUME NEW p \in Servers, UnlinkStale(p) PROVE Parts'
  BY <1>4 DEF UnlinkStale
<1>5. ASSUME NEW p \in Servers, ScanProcesses(p) PROVE Parts'
  BY <1>5 DEF ScanProcesses
<1>6. ASSUME NEW p \in Servers, ScanFile(p) PROVE Parts'
  BY <1>6 DEF ScanFile, Live
<1>7. ASSUME NEW p \in Servers, Truncate(p) \/ PublishPid(p) PROVE Parts'
  BY <1>7 DEF Truncate, PublishPid
<1>8. ASSUME NEW p \in Servers, DropRead(p) \/ DropRemove(p) \/ DropClose(p)
      PROVE  Parts'
  BY <1>8 DEF DropRead, DropRemove, DropClose
<1>9. ASSUME NEW o \in Olds, OldChecks(o) \/ OldPublishes(o) \/ OldEnds(o)
      PROVE  Parts'
  BY <1>9 DEF OldChecks, OldPublishes, OldEnds, Live
<1>10. ASSUME NEW p \in Everyone, Launch(p) \/ Killed9(p) PROVE Parts'
  BY <1>10 DEF Launch, Killed9, Live
<1>11. CASE HookCleans
  BY <1>11 DEF HookCleans
<1>12. CASE UNCHANGED projectVars
  BY <1>12 DEF projectVars
<1> QED
  BY <1>1, <1>2, <1>3, <1>4, <1>5, <1>6, <1>7, <1>8, <1>9, <1>10, <1>11,
     <1>12 DEF ProjectNext

-----------------------------------------------------------------------------
(* The theorems.                                                           *)

\* The invariant holds in every behaviour.
THEOREM ProjectCorrect == ProjectSpec => []ProjectInv
BY ProjectFirst, ProjectStep, PTL DEF ProjectSpec

\* Two servers of the current binary are never both past the lock, whatever
\* older binaries and hooks do to the pid file.
THEOREM OneOwnerAlways == ProjectSpec => []OneOwner
<1>1. ProjectInv => OneOwner
  BY ProjectAssumption DEF ProjectInv, HoldersLock, OneOwner
<1> QED
  BY <1>1, ProjectCorrect, PTL

\* Behind every refused start there is one that serves, is on its way to, or
\* has ended: starts cannot turn each other away.
THEOREM StartsSurvive == ProjectSpec => []SomeStartSurvives
<1>1. ProjectInv => SomeStartSurvives
  BY DEF ProjectInv, TurnedAway, Survivor, SomeStartSurvives
<1> QED
  BY <1>1, ProjectCorrect, PTL

-----------------------------------------------------------------------------
(* The save of a configuration: the inductive invariant.                    *)

Places == {"closed", "form", "write", "fill", "check", "commit", "drop",
           "refused", "written", "look", "ask", "retire", "saved", "unconfirmed"}

WizardType ==
    [at : Places, old : SUBSET Endpoints, want : SUBSET Endpoints,
     fd : {"none", "temp", "saved", "gone"}, pid : Nat, seen : Nat,
     todo : SUBSET Endpoints]

ServerType == [at : {"dead", "locked", "named", "up"}, pid : Nat, named : Nat]
EngineStates == {"none", "idle", "starting", "held", "removed"}
LetGo == {"none", "removed"}

SaveTyped ==
    /\ saved \in Contents /\ temp \in Contents /\ version \in Nat
    /\ wizard \in [Wizards -> WizardType]
    /\ mcp \in ServerType
    /\ engines \in [Endpoints -> EngineStates]

\* A server that has not loaded the file holds nothing, and one that may has
\* its pid where a wizard looks for it.
ServerFits ==
    /\ mcp.named <= mcp.pid
    /\ mcp.at # "dead" => mcp.pid # 0
    /\ mcp.at \in {"named", "up"} => mcp.named = mcp.pid
    /\ mcp.at # "up" => \A e \in Endpoints : engines[e] \in LetGo

\* What wizard x may rely on when version v lists L and the engines are en.
Promise(x, v, L, en) ==
    /\ x.seen <= v
    /\ x.seen = v =>
          /\ x.at = "look" /\ x.pid = 0 => \A e \in Endpoints \ L : en[e] \in LetGo
          /\ x.at = "retire" =>
                \A e \in Endpoints \ L : en[e] \in LetGo \/ e \in x.todo
          /\ x.at = "saved" => \A e \in Endpoints \ L : en[e] \in LetGo

ConfigInv ==
    /\ SaveTyped
    /\ ServerFits
    /\ \A w \in Wizards : Promise(wizard[w], version, saved.lists, engines)

-----------------------------------------------------------------------------
(* What keeps a promise.                                                   *)

\* Nothing is taken back: an engine that was let go stays so.
LEMMA PromiseKept ==
    ASSUME NEW x, NEW v, NEW L, NEW en, NEW em, Promise(x, v, L, en),
           \A e \in Endpoints : en[e] \in LetGo => em[e] \in LetGo
    PROVE  Promise(x, v, L, em)
BY DEF Promise

\* A wizard that is not waiting for a release relies on nothing.
LEMMA PromiseNotMade ==
    ASSUME NEW x, NEW y, NEW v, NEW L, NEW en, Promise(x, v, L, en),
           y.seen = x.seen, y.at \notin {"look", "retire", "saved"}
    PROVE  Promise(y, v, L, en)
BY DEF Promise

\* Another version: the promises about the one before are over.
LEMMA PromiseOver ==
    ASSUME NEW x, NEW y, NEW v \in Nat, NEW L, NEW en, NEW M,
           Promise(x, v, L, en), x.seen \in Nat, y.seen = x.seen
    PROVE  Promise(y, v + 1, M, en)
BY DEF Promise

-----------------------------------------------------------------------------
(* The steps of a wizard.                                                  *)

\* A wizard that writes, is refused or leaves.
LEMMA WizardMoves ==
    ASSUME ConfigInv, NEW w \in Wizards, NEW y \in WizardType,
           wizard' = [wizard EXCEPT ![w] = y],
           Promise(y, version, saved.lists, engines),
           temp' \in Contents, UNCHANGED <<saved, version, mcp, engines>>
    PROVE  ConfigInv'
<1>1. SaveTyped'
  BY DEF ConfigInv, SaveTyped
<1>2. ServerFits'
  BY DEF ConfigInv, ServerFits
<1>3. ASSUME NEW u \in Wizards
      PROVE  Promise(wizard'[u], version, saved.lists, engines)
  <2>1. wizard'[u] = IF u = w THEN y ELSE wizard[u]
    BY DEF ConfigInv, SaveTyped
  <2> QED
    BY <2>1 DEF ConfigInv
<1> QED
  BY <1>1, <1>2, <1>3 DEF ConfigInv

\* What a file can be: not there, empty, or a list of endpoints.
LEMMA ContentsAre ==
    /\ Blank \in Contents /\ NoTemp \in Contents
    /\ \A L \in SUBSET Endpoints : Lists(L) \in Contents /\ Lists(L).lists = L
BY DEF Blank, NoTemp, Lists, Contents

\* From the form to the temporary file: nobody is asked for anything yet.
LEMMA WritingKeeps ==
    ASSUME ConfigInv, NEW w \in Wizards,
           \/ Prepare(w) \/ \E want \in SUBSET Endpoints : Submit(w, want)
           \/ TruncateTemp(w) \/ CheckTemp(w) \/ GiveUp(w)
    PROVE  ConfigInv'
<1> DEFINE x == wizard[w]
<1>0. x \in WizardType /\ Promise(x, version, saved.lists, engines)
  BY DEF ConfigInv, SaveTyped
<1>1. CASE Prepare(w)
  <2> DEFINE y == [x EXCEPT !.at = "form", !.old = saved.lists]
  <2>1. wizard' = [wizard EXCEPT ![w] = y]
    BY <1>1 DEF Prepare
  <2>2. saved.lists \in SUBSET Endpoints /\ temp \in Contents
    BY DEF ConfigInv, SaveTyped, Contents
  <2>3. y \in WizardType /\ y.seen = x.seen /\ y.at = "form"
    BY <1>0, <2>2 DEF WizardType, Places
  <2> HIDE DEF y
  <2> QED
    BY <1>0, <1>1, <2>1, <2>2, <2>3, PromiseNotMade, WizardMoves
       DEF Prepare, fileVars, mcpVars
<1>2. ASSUME NEW want \in SUBSET Endpoints, Submit(w, want) PROVE ConfigInv'
  <2> DEFINE y == [x EXCEPT !.at = IF want = x.old THEN "written" ELSE "write",
                            !.want = want]
  <2>1. wizard' = [wizard EXCEPT ![w] = y]
    BY <1>2 DEF Submit
  <2>2. y \in WizardType /\ y.seen = x.seen /\ y.at \in {"written", "write"}
    BY <1>0 DEF WizardType, Places
  <2>3. temp \in Contents
    BY DEF ConfigInv, SaveTyped
  <2> HIDE DEF y
  <2> QED
    BY <1>0, <1>2, <2>1, <2>2, <2>3, PromiseNotMade, WizardMoves
       DEF Submit, fileVars, mcpVars
<1>3. CASE TruncateTemp(w)
  <2> DEFINE y == [x EXCEPT !.at = "fill", !.fd = "temp"]
  <2>1. wizard' = [wizard EXCEPT ![w] = y]
    BY <1>3 DEF TruncateTemp
  <2>2. y \in WizardType /\ y.seen = x.seen /\ y.at = "fill"
    BY <1>0 DEF WizardType, Places
  <2> HIDE DEF y
  <2> QED
    BY <1>0, <1>3, <2>1, <2>2, ContentsAre, PromiseNotMade, WizardMoves
       DEF TruncateTemp, mcpVars
<1>4. CASE CheckTemp(w)
  <2> DEFINE y == [x EXCEPT !.at = IF temp.whole THEN "commit" ELSE "drop"]
  <2>1. wizard' = [wizard EXCEPT ![w] = y]
    BY <1>4 DEF CheckTemp, Move
  <2>2. y \in WizardType /\ y.seen = x.seen /\ y.at \in {"commit", "drop"}
    BY <1>0 DEF WizardType, Places
  <2>3. temp \in Contents
    BY DEF ConfigInv, SaveTyped
  <2> HIDE DEF y
  <2> QED
    BY <1>0, <1>4, <2>1, <2>2, <2>3, PromiseNotMade, WizardMoves
       DEF CheckTemp, fileVars, mcpVars
<1>5. CASE GiveUp(w)
  <2> DEFINE y == Over(x, "unconfirmed")
  <2>1. wizard' = [wizard EXCEPT ![w] = y]
    BY <1>5 DEF GiveUp, End
  <2>2. y \in WizardType /\ y.seen = x.seen /\ y.at = "unconfirmed"
    BY <1>0 DEF WizardType, Places, Over
  <2>3. temp \in Contents
    BY DEF ConfigInv, SaveTyped
  <2> HIDE DEF y
  <2> QED
    BY <1>0, <1>5, <2>1, <2>2, <2>3, PromiseNotMade, WizardMoves
       DEF GiveUp, fileVars, mcpVars
<1> QED
  BY <1>1, <1>2, <1>3, <1>4, <1>5

\* The wizard ends: it relies on nothing, whatever it had seen.
LEMMA QuitKeeps ==
    ASSUME ConfigInv, NEW w \in Wizards, Quit(w)
    PROVE  ConfigInv'
<1>1. Closed \in WizardType /\ Closed.seen = 0 /\ Closed.at = "closed"
  BY DEF Closed, WizardType, Places
<1>2. Promise(Closed, version, saved.lists, engines)
  BY <1>1 DEF Promise, ConfigInv, SaveTyped
<1>3. temp \in Contents
  BY DEF ConfigInv, SaveTyped
<1> QED
  BY <1>1, <1>2, <1>3, WizardMoves DEF Quit, fileVars, mcpVars

\* What rename does to the records of all wizards.
LEMMA RenamedRecords ==
    ASSUME ConfigInv, NEW w \in Wizards, NEW place \in {"refused", "written"},
           NEW name \in {"gone", "saved"}, Renamed(w, place, name)
    PROVE  /\ wizard' \in [Wizards -> WizardType]
           /\ \A u \in Wizards :
                 /\ wizard'[u].seen = wizard[u].seen
                 /\ wizard'[u].at = IF u = w THEN place ELSE wizard[u].at
                 /\ u # w => /\ wizard'[u].pid = wizard[u].pid
                             /\ wizard'[u].todo = wizard[u].todo
<1> DEFINE fdOf(v) == IF wizard[v].fd = "temp" THEN name
                    ELSE IF wizard[v].fd = "saved" /\ name = "saved"
                    THEN "gone" ELSE wizard[v].fd
           y(v) == IF v = w THEN (IF place = "refused" THEN Over(wizard[w], place)
                                  ELSE [wizard[w] EXCEPT !.at = place])
                   ELSE [wizard[v] EXCEPT !.fd = fdOf(v)]
<1>1. wizard' = [v \in Wizards |-> y(v)]
  BY DEF Renamed
<1>2. ASSUME NEW u \in Wizards
      PROVE  /\ y(u) \in WizardType /\ y(u).seen = wizard[u].seen
             /\ y(u).at = IF u = w THEN place ELSE wizard[u].at
             /\ u # w => /\ y(u).pid = wizard[u].pid
                         /\ y(u).todo = wizard[u].todo
  <2>1. wizard[u] \in WizardType
    BY DEF ConfigInv, SaveTyped
  <2>2. fdOf(u) \in {"none", "temp", "saved", "gone"}
    BY <2>1 DEF WizardType
  <2> HIDE DEF fdOf
  <2>3. CASE u = w
    BY <2>1, <2>3 DEF WizardType, Over, Places
  <2>4. CASE u # w
    BY <2>1, <2>2, <2>4 DEF WizardType
  <2> QED
    BY <2>3, <2>4
<1> HIDE DEF y
<1> QED
  BY <1>1, <1>2

\* A temporary file is dropped: the other wizards have their records, but for
\* the name of what they write to.
LEMMA DropKeeps ==
    ASSUME ConfigInv, NEW w \in Wizards, DropTemp(w)
    PROVE  ConfigInv'
<1>1. /\ wizard' \in [Wizards -> WizardType]
      /\ \A u \in Wizards :
            /\ wizard'[u].seen = wizard[u].seen
            /\ wizard'[u].at = IF u = w THEN "refused" ELSE wizard[u].at
            /\ u # w => /\ wizard'[u].pid = wizard[u].pid
                        /\ wizard'[u].todo = wizard[u].todo
  BY RenamedRecords DEF DropTemp
<1>2. temp' \in Contents /\ UNCHANGED <<saved, version, mcp, engines>>
  BY ContentsAre DEF DropTemp, mcpVars
<1>3. SaveTyped' /\ ServerFits'
  BY <1>1, <1>2 DEF ConfigInv, SaveTyped, ServerFits
<1>4. \A u \in Wizards : Promise(wizard'[u], version, saved.lists, engines)
  BY <1>1 DEF Promise, ConfigInv
<1> QED
  BY <1>2, <1>3, <1>4 DEF ConfigInv

\* A new version of the file, by rename or through a file that is still open.
LEMMA NewVersionKeeps ==
    ASSUME ConfigInv, saved' \in Contents, temp' \in Contents,
           version' = version + 1, UNCHANGED mcpVars,
           wizard' \in [Wizards -> WizardType],
           \A u \in Wizards : wizard'[u].seen = wizard[u].seen
    PROVE  ConfigInv'
<1>1. SaveTyped' /\ ServerFits'
  BY DEF ConfigInv, SaveTyped, ServerFits, mcpVars
<1>2. ASSUME NEW u \in Wizards
      PROVE  Promise(wizard'[u], version + 1, saved'.lists, engines)
  <2>1. /\ wizard[u].seen \in Nat /\ version \in Nat
        /\ Promise(wizard[u], version, saved.lists, engines)
    BY DEF ConfigInv, SaveTyped, WizardType
  <2> QED
    BY <2>1, PromiseOver
<1> QED
  BY <1>1, <1>2 DEF ConfigInv, mcpVars

\* The rename by which a save becomes the configuration keeps the invariant.
LEMMA CommitKeeps ==
    ASSUME ConfigInv, NEW w \in Wizards, CommitTemp(w)
    PROVE  ConfigInv'
<1>1. CASE ~temp.there
  <2> DEFINE x == wizard[w]
             y == Over(x, "refused")
  <2>1. wizard' = [wizard EXCEPT ![w] = y] /\ UNCHANGED <<saved, temp, version, mcp, engines>>
    BY <1>1 DEF CommitTemp, End, fileVars, mcpVars
  <2>2. /\ x \in WizardType /\ temp \in Contents
        /\ Promise(x, version, saved.lists, engines)
    BY DEF ConfigInv, SaveTyped
  <2>3. y \in WizardType /\ y.seen = x.seen /\ y.at = "refused"
    BY <2>2 DEF WizardType, Places, Over
  <2> QED
    BY <2>1, <2>2, <2>3, PromiseNotMade, WizardMoves
<1>2. CASE temp.there
  <2>1. /\ saved' = temp /\ temp' = NoTemp /\ version' = version + 1
        /\ Renamed(w, "written", "saved") /\ UNCHANGED mcpVars
    BY <1>2 DEF CommitTemp
  <2>2. saved' \in Contents /\ temp' \in Contents
    BY <2>1, ContentsAre DEF ConfigInv, SaveTyped
  <2> QED
    BY <2>1, <2>2, RenamedRecords, NewVersionKeeps
<1> QED
  BY <1>1, <1>2

\* So does the write into the temporary file, or into what it was renamed to.
LEMMA FillKeeps ==
    ASSUME ConfigInv, NEW w \in Wizards, FillTemp(w)
    PROVE  ConfigInv'
<1> DEFINE x == wizard[w]
           y == [x EXCEPT !.at = "check", !.fd = "none"]
<1>1. /\ wizard \in [Wizards -> WizardType] /\ saved \in Contents
      /\ temp \in Contents /\ Promise(x, version, saved.lists, engines)
  BY DEF ConfigInv, SaveTyped
<1>2. wizard' = [wizard EXCEPT ![w] = y] /\ UNCHANGED mcpVars
  BY DEF FillTemp
<1>3. y \in WizardType /\ y.seen = x.seen /\ y.at = "check"
  BY <1>1 DEF WizardType, Places
<1>4. saved' \in Contents /\ temp' \in Contents
  <2>1. Lists(x.want) \in Contents
    BY <1>1, ContentsAre DEF WizardType
  <2> QED
    BY <1>1, <2>1 DEF FillTemp
<1>5. CASE x.fd = "saved"
  <2>1. version' = version + 1
    BY <1>5 DEF FillTemp
  <2>2. /\ wizard' \in [Wizards -> WizardType]
        /\ \A u \in Wizards : wizard'[u].seen = wizard[u].seen
    <3> HIDE DEF y
    <3> QED
      BY <1>1, <1>2, <1>3
  <2> QED
    BY <1>2, <1>4, <2>1, <2>2, NewVersionKeeps
<1>6. CASE x.fd # "saved"
  <2>1. UNCHANGED <<saved, version, mcp, engines>>
    BY <1>2, <1>6 DEF FillTemp, mcpVars
  <2> QED
    BY <1>1, <1>2, <1>3, <1>4, <2>1, PromiseNotMade, WizardMoves
<1> QED
  BY <1>5, <1>6

\* A wizard that finds no server: there is no engine yet, and the next server
\* loads this version or a later one.
LEMMA LookForServerKeeps ==
    ASSUME ConfigInv, NEW w \in Wizards, LookForServer(w)
    PROVE  ConfigInv'
<1> DEFINE x == wizard[w]
           p == LivePid
           y == [x EXCEPT !.at = "look", !.pid = p, !.seen = version]
<1>1. /\ x \in WizardType /\ version \in Nat /\ mcp \in ServerType /\ ServerFits
      /\ temp \in Contents
  BY DEF ConfigInv, SaveTyped
<1>2. /\ wizard' = [wizard EXCEPT ![w] = y]
      /\ UNCHANGED <<saved, temp, version, mcp, engines>>
  BY DEF LookForServer, fileVars, mcpVars
<1>3. p \in Nat /\ (p = 0 => \A e \in Endpoints : engines[e] \in LetGo)
  BY <1>1 DEF LivePid, ServerLives, ServerFits, ServerType
<1> HIDE DEF p
<1>4. /\ y \in WizardType /\ y.at = "look" /\ y.pid = p /\ y.seen = version
  BY <1>1, <1>3 DEF WizardType, Places
<1> HIDE DEF y
<1>5. Promise(y, version, saved.lists, engines)
  BY <1>1, <1>3, <1>4 DEF Promise
<1> QED
  BY <1>1, <1>2, <1>4, <1>5, WizardMoves

\* So does the look for a running server.
LEMMA LookForHoldersKeeps ==
    ASSUME ConfigInv, NEW w \in Wizards, LookForHolders(w)
    PROVE  ConfigInv'
<1> DEFINE x == wizard[w]
           asks == [x EXCEPT !.at = "ask"]
           ends == Over(x, "saved")
<1>1. /\ x \in WizardType /\ Promise(x, version, saved.lists, engines)
      /\ temp \in Contents /\ x.at = "look"
      /\ UNCHANGED <<saved, temp, version, mcp, engines>>
  BY DEF ConfigInv, SaveTyped, LookForHolders, At, fileVars, mcpVars
<1>2. \/ wizard' = [wizard EXCEPT ![w] = asks]
      \/ x.pid = 0 /\ wizard' = [wizard EXCEPT ![w] = ends]
  BY DEF LookForHolders, Move, End
<1>3. /\ asks \in WizardType /\ asks.seen = x.seen /\ asks.at = "ask"
      /\ ends \in WizardType /\ ends.seen = x.seen /\ ends.at = "saved"
  BY <1>1 DEF WizardType, Places, Over
<1> HIDE DEF asks, ends
<1>4. x.pid = 0 => Promise(ends, version, saved.lists, engines)
  BY <1>1, <1>3 DEF Promise
<1> QED
  BY <1>1, <1>2, <1>3, <1>4, PromiseNotMade, WizardMoves

\* The server makes its list from the file as it is, so the list is what is
\* left to do.
LEMMA ReconcileKeeps ==
    ASSUME ConfigInv, NEW w \in Wizards, Reconcile(w)
    PROVE  ConfigInv'
<1> DEFINE x == wizard[w]
           todo == ToRetire(w)
           y == [x EXCEPT !.at = "retire", !.todo = todo]
<1>1. /\ x \in WizardType /\ Promise(x, version, saved.lists, engines)
      /\ temp \in Contents
      /\ wizard' = [wizard EXCEPT ![w] = y]
      /\ UNCHANGED <<saved, temp, version, mcp, engines>>
  BY DEF ConfigInv, SaveTyped, Reconcile, fileVars, mcpVars
<1>2. /\ todo \in SUBSET Endpoints
      /\ \A e \in Endpoints \ saved.lists : engines[e] \in LetGo \/ e \in todo
  BY DEF ToRetire, LetGo
<1> HIDE DEF todo
<1>3. y \in WizardType /\ y.seen = x.seen /\ y.at = "retire" /\ y.todo = todo
  BY <1>1, <1>2 DEF WizardType, Places
<1> HIDE DEF y
<1>4. Promise(y, version, saved.lists, engines)
  BY <1>1, <1>2, <1>3 DEF Promise
<1> QED
  BY <1>1, <1>3, <1>4, WizardMoves

\* So does the server's answer, which comes when nothing removed is left.
LEMMA AcknowledgeKeeps ==
    ASSUME ConfigInv, NEW w \in Wizards, Acknowledge(w)
    PROVE  ConfigInv'
<1> DEFINE x == wizard[w]
           y == Over(x, "saved")
<1>1. /\ x \in WizardType /\ Promise(x, version, saved.lists, engines)
      /\ temp \in Contents /\ x.at = "retire" /\ x.todo = {}
      /\ wizard' = [wizard EXCEPT ![w] = y]
      /\ UNCHANGED <<saved, temp, version, mcp, engines>>
  BY DEF ConfigInv, SaveTyped, Acknowledge, At, End, fileVars, mcpVars
<1>2. y \in WizardType /\ y.seen = x.seen /\ y.at = "saved"
  BY <1>1 DEF WizardType, Places, Over
<1> HIDE DEF y
<1>3. Promise(y, version, saved.lists, engines)
  BY <1>1, <1>2 DEF Promise
<1> QED
  BY <1>1, <1>2, <1>3, WizardMoves

-----------------------------------------------------------------------------
(* The engines and the server.                                             *)

\* The engines change and nothing that was let go is taken back.
LEMMA EnginesChange ==
    ASSUME ConfigInv, UNCHANGED <<fileVars, mcp, wizard>>, mcp.at = "up",
           engines' \in [Endpoints -> EngineStates],
           \A e \in Endpoints : engines[e] \in LetGo => engines'[e] \in LetGo
    PROVE  ConfigInv'
<1>1. SaveTyped' /\ ServerFits'
  BY DEF ConfigInv, SaveTyped, ServerFits, fileVars
<1>2. \A w \in Wizards : Promise(wizard[w], version, saved.lists, engines')
  BY PromiseKept DEF ConfigInv
<1> QED
  BY <1>1, <1>2 DEF ConfigInv, fileVars

\* Only a server that has loaded the file has engines to work on.
LEMMA HasLoaded ==
    ASSUME ConfigInv, NEW e \in Endpoints, engines[e] \notin LetGo
    PROVE  mcp.at = "up"
BY DEF ConfigInv, ServerFits

\* So does the start of one engine, which may fail.
LEMMA EngineKeeps ==
    ASSUME ConfigInv, NEW e \in Endpoints, EngineStarts(e) \/ EngineStarted(e)
    PROVE  ConfigInv'
<1>1. engines \in [Endpoints -> EngineStates]
  BY DEF ConfigInv, SaveTyped
<1>2. mcp.at = "up" /\ engines[e] \in {"idle", "starting"}
  BY HasLoaded DEF EngineStarts, EngineStarted, LetGo
<1>3. PICK now \in {"starting", "held", "idle"} : engines' = [engines EXCEPT ![e] = now]
  BY DEF EngineStarts, EngineStarted
<1>4. /\ engines' \in [Endpoints -> EngineStates]
      /\ \A f \in Endpoints : engines[f] \in LetGo => engines'[f] \in LetGo
  BY <1>1, <1>2, <1>3 DEF EngineStates, LetGo
<1> QED
  BY <1>2, <1>4, EnginesChange DEF EngineStarts, EngineStarted

\* So does the retirement of one engine.
LEMMA RetireKeeps ==
    ASSUME ConfigInv, NEW w \in Wizards, NEW e \in Endpoints, RetireEngine(w, e)
    PROVE  ConfigInv'
<1> DEFINE x == wizard[w]
           left == x.todo \ {e}
           y == [x EXCEPT !.todo = left]
<1>1. /\ wizard \in [Wizards -> WizardType] /\ x \in WizardType
      /\ engines \in [Endpoints -> EngineStates]
      /\ \A u \in Wizards : Promise(wizard[u], version, saved.lists, engines)
      /\ x.at = "retire"
  BY DEF ConfigInv, SaveTyped, RetireEngine, At
<1>2. /\ wizard' = [wizard EXCEPT ![w] = y]
      /\ engines' = [engines EXCEPT ![e] = "removed"]
      /\ UNCHANGED <<saved, temp, version, mcp>>
  BY DEF RetireEngine, fileVars
<1>3. y \in WizardType /\ y.seen = x.seen /\ y.at = "retire" /\ y.todo = left
  BY <1>1 DEF WizardType
<1> HIDE DEF y
<1>4. /\ engines' \in [Endpoints -> EngineStates] /\ engines'[e] \in LetGo
      /\ \A f \in Endpoints : engines[f] \in LetGo => engines'[f] \in LetGo
  BY <1>1, <1>2 DEF EngineStates, LetGo
<1>5. \A f \in Endpoints : f # e => engines'[f] = engines[f]
  BY <1>1, <1>2
<1>6. ASSUME NEW u \in Wizards
      PROVE  Promise(wizard'[u], version, saved.lists, engines')
  <2>1. Promise(y, version, saved.lists, engines')
    BY <1>1, <1>3, <1>4, <1>5 DEF Promise
  <2>2. Promise(wizard[u], version, saved.lists, engines')
    BY <1>1, <1>4, PromiseKept
  <2>3. wizard'[u] = IF u = w THEN y ELSE wizard[u]
    BY <1>1, <1>2
  <2> QED
    BY <2>1, <2>2, <2>3
<1>7. SaveTyped' /\ ServerFits'
  BY <1>1, <1>2, <1>3, <1>4 DEF ConfigInv, SaveTyped, ServerFits
<1> QED
  BY <1>2, <1>6, <1>7 DEF ConfigInv

\* So do the steps by which a server starts.
LEMMA ServerComes ==
    ASSUME ConfigInv, ServerStarts \/ ServerIsNamed
    PROVE  ConfigInv'
<1>1. mcp \in ServerType /\ ServerFits
  BY DEF ConfigInv, SaveTyped
<1>2. UNCHANGED <<saved, temp, version, engines, wizard>>
  BY DEF ServerStarts, ServerIsNamed, fileVars
<1>3. /\ mcp' \in ServerType /\ mcp'.at # "up" /\ mcp'.named <= mcp'.pid
      /\ mcp'.pid # 0 /\ (mcp'.at = "named" => mcp'.named = mcp'.pid)
  <2>1. mcp.named <= mcp.pid /\ (mcp.at # "dead" => mcp.pid # 0)
    BY <1>1 DEF ServerFits
  <2>2. CASE ServerStarts
    <3> DEFINE n == mcp.pid + 1
    <3>1. mcp' = [mcp EXCEPT !.at = "locked", !.pid = n]
      BY <2>2 DEF ServerStarts
    <3>2. n \in Nat /\ n # 0 /\ mcp.named <= n
      BY <1>1, <2>1 DEF ServerType
    <3> HIDE DEF n
    <3>3. mcp' \in ServerType /\ mcp'.at = "locked" /\ mcp'.pid = n
      BY <1>1, <3>1, <3>2 DEF ServerType
    <3>4. mcp'.named = mcp.named
      BY <1>1, <3>1 DEF ServerType
    <3> QED
      BY <3>2, <3>3, <3>4
  <2>3. CASE ServerIsNamed
    <3> DEFINE n == mcp.pid
    <3>1. mcp' = [mcp EXCEPT !.at = "named", !.named = n] /\ n # 0 /\ n \in Nat
      BY <1>1, <2>1, <2>3 DEF ServerIsNamed, ServerType
    <3>2. mcp' \in ServerType /\ mcp'.at = "named" /\ mcp'.named = n
      BY <1>1, <3>1 DEF ServerType
    <3>3. mcp'.pid = n
      BY <1>1, <3>1 DEF ServerType
    <3> QED
      BY <3>1, <3>2, <3>3
  <2> QED
    BY <2>2, <2>3
<1>4. mcp.at # "up"
  BY DEF ServerStarts, ServerIsNamed
<1>5. SaveTyped' /\ ServerFits'
  BY <1>1, <1>2, <1>3, <1>4 DEF ConfigInv, SaveTyped, ServerFits
<1> QED
  BY <1>2, <1>5 DEF ConfigInv

\* The new server has engines for what the file lists, and for nothing else.
LEMMA LoadKeeps ==
    ASSUME ConfigInv, ServerLoads
    PROVE  ConfigInv'
<1>1. mcp \in ServerType /\ ServerFits /\ mcp.at = "named"
  BY DEF ConfigInv, SaveTyped, ServerLoads
<1>2. UNCHANGED <<saved, temp, version, wizard>>
  BY DEF ServerLoads, fileVars
<1>3. mcp' \in ServerType /\ mcp'.pid = mcp.pid /\ mcp'.named = mcp.named
  BY <1>1 DEF ServerLoads, ServerType
<1>4. mcp'.at = "up"
  BY <1>1 DEF ServerLoads, ServerType
<1>5. /\ engines' \in [Endpoints -> EngineStates]
      /\ \A e \in Endpoints \ saved.lists : engines'[e] \in LetGo
  BY DEF ServerLoads, EngineStates, LetGo
<1>6. \A w \in Wizards : Promise(wizard[w], version, saved.lists, engines')
  BY <1>5 DEF ConfigInv, Promise
<1>7. SaveTyped' /\ ServerFits'
  BY <1>1, <1>2, <1>3, <1>4, <1>5 DEF ConfigInv, SaveTyped, ServerFits
<1> QED
  BY <1>2, <1>6, <1>7 DEF ConfigInv

\* A server that ends lets everything go, and fails who was waiting for it.
LEMMA EndKeeps ==
    ASSUME ConfigInv, ServerEnds
    PROVE  ConfigInv'
<1> DEFINE y(w) == IF At(w, "retire") THEN Over(wizard[w], "unconfirmed") ELSE wizard[w]
<1>1. /\ mcp \in ServerType /\ ServerFits /\ wizard \in [Wizards -> WizardType]
      /\ \A w \in Wizards : Promise(wizard[w], version, saved.lists, engines)
  BY DEF ConfigInv, SaveTyped
<1>2. UNCHANGED <<saved, temp, version>> /\ wizard' = [w \in Wizards |-> y(w)]
  BY DEF ServerEnds, fileVars
<1>3. /\ mcp' \in ServerType /\ mcp'.pid = mcp.pid /\ mcp'.named = mcp.named
      /\ mcp'.at = "dead"
  BY <1>1 DEF ServerEnds, ServerType
<1>4. /\ engines' \in [Endpoints -> EngineStates]
      /\ \A e \in Endpoints : engines'[e] \in LetGo
  BY DEF ServerEnds, NoEngines, EngineStates, LetGo
<1>5. ASSUME NEW w \in Wizards
      PROVE  y(w) \in WizardType /\ Promise(y(w), version, saved.lists, engines')
  <2>1. CASE At(w, "retire")
    <3>1. /\ y(w) \in WizardType /\ y(w).seen = wizard[w].seen
          /\ y(w).at = "unconfirmed"
      BY <1>1, <2>1 DEF WizardType, Places, Over
    <3> HIDE DEF y
    <3> QED
      BY <1>1, <1>4, <3>1, PromiseNotMade, PromiseKept
  <2>2. CASE ~At(w, "retire")
    BY <1>1, <1>4, <2>2, PromiseKept
  <2> QED
    BY <2>1, <2>2
<1> HIDE DEF y
<1>6. \A w \in Wizards : Promise(wizard'[w], version, saved.lists, engines')
  BY <1>2, <1>5
<1>7. SaveTyped' /\ ServerFits'
  BY <1>1, <1>2, <1>3, <1>4, <1>5 DEF ConfigInv, SaveTyped, ServerFits
<1> QED
  BY <1>2, <1>6, <1>7 DEF ConfigInv

-----------------------------------------------------------------------------
(* The theorems.                                                           *)

\* Every initial state satisfies the invariant.
LEMMA ConfigStart == ConfigInit => ConfigInv
<1> SUFFICES ASSUME ConfigInit PROVE ConfigInv
  OBVIOUS
<1>1. saved \in Contents /\ temp \in Contents /\ version \in Nat
  BY ContentsAre DEF ConfigInit
<1>2. Closed \in WizardType /\ Closed.seen = 0 /\ Closed.at = "closed"
  BY DEF Closed, WizardType, Places
<1>3. mcp \in ServerType /\ mcp.at = "dead" /\ mcp.named <= mcp.pid
  BY DEF ConfigInit, ServerType
<1>4. /\ engines \in [Endpoints -> EngineStates]
      /\ \A e \in Endpoints : engines[e] \in LetGo
  BY DEF ConfigInit, NoEngines, EngineStates, LetGo
<1>5. SaveTyped /\ ServerFits
  BY <1>1, <1>2, <1>3, <1>4 DEF ConfigInit, SaveTyped, ServerFits
<1>6. ASSUME NEW w \in Wizards PROVE Promise(wizard[w], version, saved.lists, engines)
  <2>1. wizard[w] = Closed /\ version = 0
    BY DEF ConfigInit
  <2> QED
    BY <1>2, <2>1 DEF Promise
<1> QED
  BY <1>5, <1>6 DEF ConfigInv

\* Every step keeps the promises of the saves.
LEMMA ConfigStep ==
    ASSUME ConfigInv, [ConfigNext]_configVars
    PROVE  ConfigInv'
<1>1. ASSUME NEW w \in Wizards,
             \/ Prepare(w) \/ TruncateTemp(w) \/ CheckTemp(w) \/ GiveUp(w)
             \/ \E want \in SUBSET Endpoints : Submit(w, want)
      PROVE  ConfigInv'
  BY <1>1, WritingKeeps
<1>2. ASSUME NEW w \in Wizards, FillTemp(w) \/ CommitTemp(w) \/ DropTemp(w) \/ Quit(w)
      PROVE  ConfigInv'
  BY <1>2, FillKeeps, CommitKeeps, DropKeeps, QuitKeeps
<1>3. ASSUME NEW w \in Wizards,
             \/ LookForServer(w) \/ LookForHolders(w) \/ Reconcile(w) \/ Acknowledge(w)
             \/ \E e \in Endpoints : RetireEngine(w, e)
      PROVE  ConfigInv'
  BY <1>3, LookForServerKeeps, LookForHoldersKeeps, ReconcileKeeps, AcknowledgeKeeps,
     RetireKeeps
<1>4. ASSUME NEW e \in Endpoints, EngineStarts(e) \/ EngineStarted(e)
      PROVE  ConfigInv'
  BY <1>4, EngineKeeps
<1>5. CASE ServerStarts \/ ServerIsNamed \/ ServerLoads \/ ServerEnds
  BY <1>5, ServerComes, LoadKeeps, EndKeeps
<1>6. CASE UNCHANGED configVars
  BY <1>6 DEF configVars, ConfigInv, SaveTyped, ServerFits
<1> QED
  BY <1>1, <1>2, <1>3, <1>4, <1>5, <1>6 DEF ConfigNext

\* What a save may rely on holds at every moment of every behaviour.
THEOREM ConfigCorrect == ConfigSpec => []ConfigInv
<1>1. ConfigInv /\ [ConfigNext]_configVars => ConfigInv'
  BY ConfigStep
<1> QED
  BY ConfigStart, <1>1, PTL DEF ConfigSpec

\* A wizard that was told its save is complete has released what it removed,
\* whether the server was running, starting, ending or replaced meanwhile, and
\* whatever other wizards wrote.
THEOREM SaveReleases == ConfigSpec => []AckedIsReleased
<1>1. ConfigInv => AckedIsReleased
  BY DEF ConfigInv, Promise, AckedIsReleased, At, LetGo
<1> QED
  BY <1>1, ConfigCorrect, PTL

\* The variables of a save have their types, in every behaviour.
THEOREM ConfigTyped == ConfigSpec => []ConfigTypeOK
<1>1. ConfigInv => ConfigTypeOK
  BY DEF ConfigInv, SaveTyped, ServerFits, WizardType, ServerType, EngineStates,
         ConfigTypeOK
<1> QED
  BY <1>1, ConfigCorrect, PTL

-----------------------------------------------------------------------------
(* The TEST button: the inductive invariant.                               *)

AllOptions == {"relay", "noport", "power", "reset", "download", "flash", "user", "pass"}

\* A form that can be filled in.
FormFits ==
    /\ form \subseteq AllOptions
    /\ "pass" \in form => "user" \in form
    /\ ~("relay" \in form /\ "noport" \in form)

AllKinds == {"banner", "login", "password", "baud", "normalise", "reset", "connect", "learn",
             "enter", "fail relay", "fail reset", "no reference", "preflight", "list"}

Ats == {"next", "wait", "ok", "bad", "press", "held cycle", "give up", "release", "cycle",
        "capture", "learn", "enter", "load", "restore"}

Final == {"ok", "bad", "skip"}

WorkerType ==
    [lane : SUBSET AllKinds, at : Ats, flight : {"none", "sent", "lost"},
     threads : SUBSET AllKinds, blocked : BOOLEAN, results : [Rows -> Final \cup {"none"}],
     end : {"none", "cut", "finished", "late"}]

Remaining(w) == w.lane \cup w.threads
Done(w) == Kinds \ Remaining(w)

\* The lane has its probes and the threads have theirs.
Sorted(w) ==
    /\ w.lane \subseteq Kinds /\ w.threads \subseteq Kinds
    /\ \A kind \in w.lane : OnLane(kind, w.blocked)
    /\ \A kind \in w.threads : ~OnLane(kind, w.blocked)

\* Only a probe that is done gives a row its result, and it has given all of
\* its rows one; a run that ended by itself has one for every row.
Told(w) ==
    /\ \A row \in Rows : w.results[row] # "none" =>
          \E kind \in Done(w) : row \in Reports(kind, w.blocked)
    /\ Remaining(w) # {} =>
          \A kind \in Done(w) : \A row \in Reports(kind, w.blocked) : w.results[row] # "none"
    /\ w.end = "finished" => \A row \in Available(w.blocked) : w.results[row] # "none"

RunFits(w) == w \in WorkerType /\ Sorted(w) /\ Told(w) /\ (w.lane = {} => w.at = "next")

\* A row that the form shows as marked has its result.
SentFits(r) ==
    \A row \in Rows : sent[r][row] \in Final => worker[r].results[row] # "none"

ScreenFits ==
    /\ screen \in [run : Runs \cup {0}, marks : [Rows -> Marks]]
    /\ screen.run # 0 => \A row \in Available(worker[screen.run].blocked) :
                            screen.marks[row] = "pending"

TestInv ==
    /\ form \subseteq Options /\ FormFits
    /\ server \in {"none", "own", "other"} /\ pressed \in BOOLEAN /\ open \in BOOLEAN
    /\ worker \in [Runs -> WorkerType] /\ sent \in [Runs -> [Rows -> Marks]]
    /\ \A r \in Runs : RunFits(worker[r]) /\ SentFits(r)
    /\ ScreenFits

-----------------------------------------------------------------------------
(* The probes of a form.                                                   *)

\* The power channel normalises, the reset if there is no power channel.
LEMMA NormaliserIs ==
    /\ ~Relay \/ ("power" \notin form /\ "reset" \notin form) => Normaliser = {}
    /\ Relay /\ "power" \in form => Normaliser = {"power"}
    /\ Relay /\ "power" \notin form /\ "reset" \in form => Normaliser = {"reset"}
<1>1. "power" \notin form /\ "reset" \in form => form \cap {"reset"} = {"reset"}
  OBVIOUS
<1>2. "power" \notin form /\ "reset" \notin form => form \cap {"reset"} = {}
  OBVIOUS
<1> QED
  BY <1>1, <1>2 DEF Normaliser

\* Which probes a form has.
LEMMA KindsAre ==
    \A kind : kind \in Kinds <=>
        \/ kind \in {"banner", "baud"}
        \/ kind = "login" /\ "user" \in form /\ "pass" \notin form
        \/ kind = "password" /\ "user" \in form /\ "pass" \in form
        \/ kind = "normalise" /\ Relay /\ ("power" \in form \/ "reset" \in form)
        \/ kind = "reset" /\ Relay /\ "power" \in form /\ "reset" \in form
        \/ kind \in {"connect", "learn", "enter"} /\ "relay" \in form
        \/ kind \in {"fail relay", "fail reset"} /\ "noport" \in form
        \/ kind \in {"no reference", "enter"} /\ ~Relay
        \/ kind \in {"preflight", "list"} /\ "flash" \in form
<1>1. \A kind : kind \in SerialProbes <=>
        \/ kind = "baud"
        \/ kind = "normalise" /\ Relay /\ ("power" \in form \/ "reset" \in form)
        \/ kind = "reset" /\ Relay /\ "power" \in form /\ "reset" \in form
  <2>1. Normaliser # {} <=> Relay /\ ("power" \in form \/ "reset" \in form)
    BY NormaliserIs
  <2>2. Normaliser = {"power"} <=> Relay /\ "power" \in form
    BY NormaliserIs
  <2> QED  BY <2>1, <2>2 DEF SerialProbes
<1>2. \A kind : kind \in HostProbes <=>
        \/ kind = "banner"
        \/ kind = "login" /\ "user" \in form /\ "pass" \notin form
        \/ kind = "password" /\ "user" \in form /\ "pass" \in form
  BY DEF HostProbes
<1>3. \A kind : kind \in RelayProbes <=>
        \/ kind \in {"connect", "learn", "enter"} /\ "relay" \in form
        \/ kind \in {"fail relay", "fail reset"} /\ "noport" \in form
  BY DEF RelayProbes
<1>4. \A kind : kind \in SoftProbes <=> kind \in {"no reference", "enter"} /\ ~Relay
  BY DEF SoftProbes
<1>5. \A kind : kind \in FlashProbes <=> kind \in {"preflight", "list"} /\ "flash" \in form
  BY DEF FlashProbes
<1> QED
  BY <1>1, <1>2, <1>3, <1>4, <1>5 DEF Kinds

\* What the lemmas below need of it.
LEMMA KindsHave ==
    /\ "banner" \in Kinds /\ "baud" \in Kinds
    /\ "normalise" \in Kinds => Relay /\ ("power" \in form \/ "reset" \in form)
    /\ "list" \in Kinds => "preflight" \in Kinds
<1>1. "normalise" \in Kinds => Normaliser # {}
  BY DEF Kinds, HostProbes, SerialProbes, RelayProbes, SoftProbes, FlashProbes
<1>2. "list" \in Kinds => "flash" \in form
  BY DEF Kinds, HostProbes, SerialProbes, RelayProbes, SoftProbes, FlashProbes
<1> QED
  BY <1>1, <1>2, KindsAre, NormaliserIs

\* The row of each probe.
LEMMA RowIs ==
    /\ Row("banner") = "ip" /\ Row("login") = "user" /\ Row("password") = "pass"
    /\ Row("baud") = "baud"
    /\ "normalise" \in Kinds => Row("normalise") = IF "power" \in form THEN "power" ELSE "reset"
    /\ Row("connect") = "relay" /\ Row("fail relay") = "relay"
    /\ Row("reset") = "reset" /\ Row("fail reset") = "reset"
    /\ Row("learn") = "reference" /\ Row("no reference") = "reference"
    /\ Row("enter") = "uboot" /\ Row("preflight") = "devices" /\ Row("list") = "devices"
<1>1. "normalise" \in Kinds => Row("normalise") = IF "power" \in form THEN "power" ELSE "reset"
  <2> SUFFICES ASSUME "normalise" \in Kinds
               PROVE  Row("normalise") = IF "power" \in form THEN "power" ELSE "reset"
    OBVIOUS
  <2>1. Row("normalise") = CHOOSE row \in Normaliser : TRUE
    BY DEF Row
  <2>2. Relay /\ ("power" \in form \/ "reset" \in form)
    BY KindsHave
  <2>3. Normaliser = {IF "power" \in form THEN "power" ELSE "reset"}
    BY <2>2, NormaliserIs
  <2>4. (CHOOSE row \in Normaliser : TRUE) \in Normaliser
    BY <2>3
  <2> QED  BY <2>1, <2>3, <2>4
<1> QED
  BY <1>1 DEF Row

\* And the rows it mirrors on.
LEMMA LinkedIs ==
    /\ Linked("baud") = {"port"} /\ Linked("password") = {"user"}
    /\ Linked("normalise") = form \cap {"download"}
    /\ \A kind \in AllKinds \ {"baud", "password", "normalise"} : Linked(kind) = {}
BY DEF Linked, AllKinds

\* Probes are of the known kinds, and report on rows of the form.
LEMMA KindsKnown == Kinds \subseteq AllKinds
BY KindsAre DEF AllKinds

\* A probe reports on its own row, and on rows only.
LEMMA ReportsAreRows ==
    ASSUME NEW kind \in Kinds, NEW blocked \in BOOLEAN
    PROVE  Row(kind) \in Rows /\ Reports(kind, blocked) \subseteq Rows
           /\ Row(kind) \in Reports(kind, blocked)
<1>1. kind \in AllKinds
  BY KindsKnown
<1>2. Row(kind) \in Rows
  BY <1>1, RowIs DEF AllKinds, Rows
<1>3. Linked(kind) \subseteq Rows
  BY <1>1, LinkedIs DEF Rows
<1> QED
  BY <1>2, <1>3 DEF Reports

\* A probe whose row another one reports on has the same row as that one.
LEMMA SharedRow ==
    ASSUME FormFits, NEW kind \in Kinds, NEW other \in Kinds, NEW blocked \in BOOLEAN,
           Row(kind) \in Reports(other, blocked)
    PROVE  Row(other) = Row(kind)
<1>1. kind \in AllKinds /\ other \in AllKinds
  BY KindsKnown
<1>2. Row(kind) \in {"ip", "user", "pass", "baud", "power", "reset", "relay", "reference",
                     "uboot", "devices"}
  BY <1>1, RowIs DEF AllKinds
<1>3. Row(kind) = "user" => kind = "login"
  BY <1>1, RowIs DEF AllKinds
<1>4. ~(kind = "login" /\ other = "password")
  BY KindsAre
<1>5. Row(kind) \notin Linked(other)
  BY <1>1, <1>2, <1>3, <1>4, LinkedIs
<1> QED
  BY <1>5 DEF Reports

\* What a probe waits for.
LEMMA NeedsAre ==
    ASSUME NEW kind \in Kinds, NEW blocked \in BOOLEAN, NEW row \in Needs(kind, blocked)
    PROVE  /\ row \in Available(blocked) /\ kind # "banner"
           /\ \/ row = "ip"
              \/ kind \in {"preflight", "list"} /\ row \in {"user", "pass"}
              \/ kind = "list" /\ ~blocked /\ row \in {"port", "devices"}
              \/ kind \in {"enter", "learn"} /\ ~blocked /\ row = "baud"
              \/ kind \in {"baud", "enter", "learn"} /\ ~blocked /\ row \in {"power", "reset"}
<1>1. row \in Normaliser => row \in {"power", "reset"}
  BY NormaliserIs
<1>2. kind \in AllKinds
  BY KindsKnown
<1> QED
  BY <1>1, <1>2 DEF Needs, AllKinds, Calling

\* It is a probe that does not wait for it: one on a thread, or one before it
\* on the lane; and what a thread waits for does not wait for a lane.
LEMMA NeedsBefore ==
    ASSUME FormFits, NEW kind \in Kinds, NEW blocked \in BOOLEAN, NEW row \in Needs(kind, blocked)
    PROVE  /\ kind # "banner"
           /\ \E other \in Kinds :
                 /\ row \in Reports(other, blocked)
                 /\ \/ /\ other \in {"banner", "login", "password"}
                       /\ kind \in {"login", "password"} => other = "banner"
                    \/ OnLane(kind, blocked)
                       /\ (OnLane(other, blocked) => Lane[other] < Lane[kind])
<1>1. row \in Available(blocked) /\ kind # "banner" /\ kind \in AllKinds
  BY NeedsAre, KindsKnown
<1>2. PICK other \in Kinds : row \in Reports(other, blocked)
  BY <1>1 DEF Available
<1>3. other \in AllKinds
  BY KindsKnown
<1>4. row = Row(other) \/ row \in Linked(other)
  BY <1>2 DEF Reports
<1>5. CASE row = "ip"
  <2>1. "banner" \in Kinds /\ Row("banner") = "ip"
    BY KindsAre, RowIs
  <2> QED  BY <1>1, <1>5, <2>1 DEF Reports
<1>6. CASE row \in {"user", "pass"}
  <2>1. other \in {"login", "password"}
    BY <1>3, <1>4, <1>6, RowIs, LinkedIs DEF AllKinds
  <2>2. kind \in {"preflight", "list"}
    BY <1>6, NeedsAre
  <2> QED  BY <1>1, <1>2, <2>1, <2>2
<1>7. CASE row = "port"
  <2>1. kind = "list" /\ ~blocked /\ "baud" \in Kinds
    BY <1>7, NeedsAre, KindsHave
  <2>2. row \in Reports("baud", blocked)
    BY <1>7, <2>1, LinkedIs DEF Reports
  <2>3. OnLane(kind, blocked) /\ Lane["baud"] < Lane[kind]
    BY <2>1 DEF OnLane, Lane
  <2> QED  BY <1>1, <2>1, <2>2, <2>3
<1>8. CASE row = "baud"
  <2>1. kind \in {"enter", "learn"} /\ ~blocked /\ "baud" \in Kinds
    BY <1>8, NeedsAre, KindsHave
  <2>2. row \in Reports("baud", blocked)
    BY <1>8, RowIs DEF Reports
  <2>3. OnLane(kind, blocked) /\ Lane["baud"] < Lane[kind]
    BY <2>1 DEF OnLane, Lane
  <2> QED  BY <1>1, <2>1, <2>2, <2>3
<1>9. CASE row = "devices"
  <2>1. kind = "list" /\ ~blocked
    BY <1>9, NeedsAre
  <2>2. "preflight" \in Kinds
    BY <2>1, KindsHave
  <2>3. row \in Reports("preflight", blocked) /\ ~OnLane("preflight", blocked)
    BY <1>9, RowIs DEF Reports, OnLane, Lane
  <2>4. OnLane(kind, blocked)
    BY <2>1 DEF OnLane, Lane
  <2> QED  BY <1>1, <2>1, <2>2, <2>3, <2>4
<1>10. CASE row \in {"power", "reset"}
  <2>1. kind \in {"baud", "enter", "learn"} /\ ~blocked
    BY <1>10, NeedsAre
  <2>2. other \in {"normalise", "reset", "fail reset"}
    BY <1>3, <1>4, <1>10, RowIs, LinkedIs DEF AllKinds
  <2>3. OnLane(other, blocked) => Lane[other] < Lane[kind]
    <3>1. OnLane(other, blocked) => other = "normalise"
      BY <2>2 DEF OnLane, Lane
    <3>2. Lane["normalise"] < Lane[kind]
      BY <2>1 DEF Lane
    <3> QED  BY <3>1, <3>2
  <2>4. OnLane(kind, blocked)
    BY <2>1 DEF OnLane, Lane
  <2> QED  BY <1>1, <1>2, <2>1, <2>3, <2>4
<1> QED
  BY <1>5, <1>6, <1>7, <1>8, <1>9, <1>10, NeedsAre

\* The first probe of a lane is before every other one.
LEMMA FirstIs ==
    ASSUME NEW lane \in SUBSET AllKinds, lane # {}, lane \subseteq DOMAIN Lane
    PROVE  FirstOf(lane) \in lane /\ \A other \in lane : Lane[FirstOf(lane)] <= Lane[other]
<1>1. \A kind \in DOMAIN Lane : Lane[kind] \in 1 .. 6
  BY DEF Lane
<1>2. \A kind, other \in DOMAIN Lane : Lane[kind] = Lane[other] => kind = other
  BY DEF Lane
<1>3. \E kind \in lane : \A other \in lane : Lane[kind] <= Lane[other]
  <2> DEFINE P(n) == \E kind \in lane : Lane[kind] = n
  <2>1. P(1) \/ P(2) \/ P(3) \/ P(4) \/ P(5) \/ P(6)
    BY <1>1
  <2>2. \A other \in lane : Lane[other] \in 1 .. 6 /\ P(Lane[other])
    BY <1>1
  <2>3. ASSUME NEW n \in 1 .. 6, P(n), \A m \in 1 .. n - 1 : ~P(m)
        PROVE  \E kind \in lane : \A other \in lane : Lane[kind] <= Lane[other]
    <3>1. PICK kind \in lane : Lane[kind] = n
      BY <2>3
    <3>2. \A other \in lane : ~(Lane[other] \in 1 .. n - 1)
      BY <2>2, <2>3
    <3> QED  BY <2>2, <3>1, <3>2
  <2> HIDE DEF P
  <2>4. \E n \in 1 .. 6 : P(n) /\ \A m \in 1 .. n - 1 : ~P(m)
    <3>1. CASE P(1)
      BY <3>1
    <3>2. CASE ~P(1) /\ P(2)
      BY <3>2
    <3>3. CASE ~P(1) /\ ~P(2) /\ P(3)
      BY <3>3
    <3>4. CASE ~P(1) /\ ~P(2) /\ ~P(3) /\ P(4)
      BY <3>4
    <3>5. CASE ~P(1) /\ ~P(2) /\ ~P(3) /\ ~P(4) /\ P(5)
      BY <3>5
    <3>6. CASE ~P(1) /\ ~P(2) /\ ~P(3) /\ ~P(4) /\ ~P(5) /\ P(6)
      BY <3>6
    <3> QED  BY <2>1, <3>1, <3>2, <3>3, <3>4, <3>5, <3>6
  <2> QED  BY <2>3, <2>4
<1> QED
  BY <1>3 DEF FirstOf

-----------------------------------------------------------------------------
(* The probes of a run do not all wait.                                    *)

\* A thread that is left is ready, or waits for another one that is.
LEMMA SomeThreadReady ==
    ASSUME FormFits, NEW r \in Runs, RunFits(worker[r]), worker[r].threads # {}
    PROVE  \E kind \in worker[r].threads : Ready(r, kind)
<1> DEFINE w == worker[r]
<1>1. /\ w.threads \subseteq Kinds /\ w.blocked \in BOOLEAN
      /\ \A kind \in w.lane : OnLane(kind, w.blocked)
      /\ \A kind \in w.threads : ~OnLane(kind, w.blocked)
  BY DEF RunFits, Sorted, WorkerType
<1>2. \A kind \in Kinds \ Remaining(w) : \A row \in Reports(kind, w.blocked) :
          w.results[row] # "none"
  BY DEF RunFits, Told, Done, Remaining
\* Early probes are not on the lane.
<1>3. \A kind \in {"banner", "login", "password"} \cap Remaining(w) : kind \in w.threads
  <2>1. \A kind \in {"banner", "login", "password"} : ~OnLane(kind, w.blocked)
    BY DEF OnLane, Lane
  <2> QED  BY <1>1, <2>1 DEF Remaining
<1>20. \A kind \in w.threads :
          Ready(r, kind) <=> \A row \in Needs(kind, w.blocked) : w.results[row] # "none"
  BY DEF Ready
<1>21. w.threads # {}
  OBVIOUS
<1> HIDE DEF w
<1>4. ASSUME NEW kind \in w.threads, ~Ready(r, kind)
      PROVE  \E other \in w.threads : /\ other \in {"banner", "login", "password"}
                                      /\ kind # "banner"
                                      /\ kind \in {"login", "password"} => other = "banner"
  <2>1. PICK row \in Needs(kind, w.blocked) : w.results[row] = "none"
    BY <1>4, <1>20
  <2>2. kind \in Kinds /\ ~OnLane(kind, w.blocked)
    BY <1>1
  <2>3. /\ kind # "banner"
        /\ \E other \in Kinds :
              /\ row \in Reports(other, w.blocked)
              /\ other \in {"banner", "login", "password"}
              /\ kind \in {"login", "password"} => other = "banner"
    BY <1>1, <2>2, NeedsBefore
  <2>4. PICK other \in Kinds :
           /\ row \in Reports(other, w.blocked)
           /\ other \in {"banner", "login", "password"}
           /\ kind \in {"login", "password"} => other = "banner"
    BY <2>3
  <2>5. other \in Remaining(w)
    <3>1. ASSUME other \notin Remaining(w) PROVE FALSE
      <4>1. other \in Kinds \ Remaining(w)
        BY <3>1
      <4>2. w.results[row] # "none"
        BY <1>2, <2>4, <4>1
      <4> QED  BY <2>1, <4>2
    <3> QED  BY <3>1
  <2>6. other \in w.threads
    BY <1>3, <2>4, <2>5
  <2> QED  BY <2>3, <2>4, <2>6
<1>5. SUFFICES ASSUME \A kind \in w.threads : ~Ready(r, kind)
               PROVE  FALSE
  BY DEF w
<1>6. PICK a \in w.threads : a \in {"banner", "login", "password"}
  BY <1>4, <1>5, <1>21
<1>7. "banner" \in w.threads
  BY <1>4, <1>5, <1>6
<1> QED
  BY <1>4, <1>5, <1>7

\* The head of the lane is ready, or a thread is left.
LEMMA HeadWaitsForThreads ==
    ASSUME FormFits, NEW r \in Runs, RunFits(worker[r]), worker[r].lane # {},
           worker[r].threads = {}
    PROVE  Ready(r, FirstOf(worker[r].lane))
<1> DEFINE w == worker[r]
           kind == FirstOf(w.lane)
<1>1. /\ w.lane \in SUBSET AllKinds /\ w.lane \subseteq Kinds /\ w.blocked \in BOOLEAN
      /\ \A other \in w.lane : OnLane(other, w.blocked)
  BY DEF RunFits, Sorted, WorkerType
<1>2. w.lane \subseteq DOMAIN Lane
  BY <1>1 DEF OnLane
<1>3. kind \in w.lane /\ \A other \in w.lane : Lane[kind] <= Lane[other]
  BY <1>1, <1>2, FirstIs
<1>4. \A other \in Kinds \ w.lane : \A row \in Reports(other, w.blocked) :
          w.results[row] # "none"
  BY DEF RunFits, Told, Done, Remaining
<1> HIDE DEF kind
<1>5. ASSUME NEW row \in Needs(kind, w.blocked)
      PROVE  w.results[row] # "none"
  <2> SUFFICES ASSUME w.results[row] = "none" PROVE FALSE
    OBVIOUS
  <2>1. PICK other \in Kinds :
           /\ row \in Reports(other, w.blocked)
           /\ \/ other \in {"banner", "login", "password"}
              \/ OnLane(other, w.blocked) => Lane[other] < Lane[kind]
    BY <1>1, <1>3, NeedsBefore
  <2>2. other \in w.lane
    BY <1>4, <2>1
  <2>3. OnLane(other, w.blocked) /\ other \notin {"banner", "login", "password"}
    <3>1. OnLane(other, w.blocked)
      BY <1>1, <2>2
    <3> QED  BY <3>1 DEF OnLane, Lane
  <2>4. Lane[other] < Lane[kind] /\ Lane[kind] <= Lane[other]
    BY <1>3, <2>1, <2>2, <2>3
  <2>5. Lane[other] \in Nat /\ Lane[kind] \in Nat
    BY <1>2, <1>3, <2>2 DEF Lane
  <2> QED  BY <2>4, <2>5
<1> QED
  BY <1>5 DEF Ready, kind

\* A run that ended by itself leaves probes only whose row another one marked.
LEMMA CutRowsAreShared ==
    ASSUME FormFits, NEW r \in Runs, RunFits(worker[r]), worker[r].end = "finished",
           NEW kind \in Remaining(worker[r])
    PROVE  \E other \in Kinds \ {kind} : Row(other) = Row(kind)
<1> DEFINE w == worker[r]
<1>1. kind \in Kinds /\ w.blocked \in BOOLEAN
  BY DEF RunFits, Sorted, WorkerType, Remaining
<1>2. Row(kind) \in Rows /\ Row(kind) \in Reports(kind, w.blocked)
  BY <1>1, ReportsAreRows
<1>3. Row(kind) \in Available(w.blocked)
  BY <1>1, <1>2 DEF Available
<1>4. w.results[Row(kind)] # "none"
  BY <1>3 DEF RunFits, Told
<1>5. PICK other \in Done(w) : Row(kind) \in Reports(other, w.blocked)
  BY <1>2, <1>4 DEF RunFits, Told
<1>6. other \in Kinds /\ other # kind
  BY <1>5 DEF Done
<1> QED
  BY <1>1, <1>5, <1>6, SharedRow

\* The invariant rules out a probe that waits with nothing to wait for.
LEMMA InvNeverStalls == TestInv => ProbesNeverStall
<1> SUFFICES ASSUME TestInv PROVE ProbesNeverStall
  OBVIOUS
<1>1. FormFits /\ \A r \in Runs : RunFits(worker[r])
  BY DEF TestInv
<1>2. OnlySharedRowsAreCut
  BY <1>1, CutRowsAreShared DEF OnlySharedRowsAreCut, Remaining
<1>3. ASSUME NEW r \in Runs
      PROVE  LET w == worker[r] IN
             \/ w.lane = {} /\ w.threads = {}
             \/ w.lane # {} /\ (w.at = "wait" => Ready(r, FirstOf(w.lane)))
             \/ \E kind \in w.threads : Ready(r, kind)
  <2>1. CASE worker[r].threads # {}
    BY <1>1, <2>1, SomeThreadReady
  <2>2. CASE worker[r].threads = {} /\ worker[r].lane # {}
    BY <1>1, <2>2, HeadWaitsForThreads
  <2> QED  BY <2>1, <2>2
<1> QED
  BY <1>2, <1>3 DEF ProbesNeverStall

-----------------------------------------------------------------------------
(* One run changes.                                                        *)

\* Nothing but the form decides which probes there are.
LEMMA FormDecides ==
    ASSUME form' = form
    PROVE  /\ Kinds' = Kinds
           /\ \A kind, blocked : Reports(kind, blocked)' = Reports(kind, blocked)
           /\ \A blocked : Available(blocked)' = Available(blocked)
           /\ \A w : RunFits(w)' = RunFits(w)
<1>1. Relay' = Relay
  BY DEF Relay
<1>2. Normaliser' = Normaliser
  BY <1>1 DEF Normaliser
<1>3. Kinds' = Kinds
  BY <1>1, <1>2 DEF Kinds, HostProbes, SerialProbes, RelayProbes, SoftProbes, FlashProbes
<1>4. \A kind : Row(kind)' = Row(kind)
  BY <1>2 DEF Row
<1>5. \A kind : Linked(kind)' = Linked(kind)
  BY DEF Linked
<1>6. \A kind, blocked : Reports(kind, blocked)' = Reports(kind, blocked)
  BY <1>4, <1>5 DEF Reports
<1>7. \A blocked : Available(blocked)' = Available(blocked)
  BY <1>3, <1>6 DEF Available
<1>8. \A w : Told(w)' = Told(w)
  BY <1>3, <1>6, <1>7 DEF Told, Done, Remaining
<1>9. \A w : Sorted(w)' = Sorted(w)
  BY <1>3 DEF Sorted, OnLane
<1> QED
  BY <1>3, <1>6, <1>7, <1>8, <1>9 DEF RunFits, WorkerType

\* A worker whose probes and results are as before.
Alike(v, w) ==
    /\ v \in WorkerType
    /\ v.lane = w.lane /\ v.threads = w.threads /\ v.blocked = w.blocked
    /\ v.results = w.results

\* A worker that only moves in its probe fits as it did.
LEMMA AlikeFits ==
    ASSUME NEW w, RunFits(w), NEW v, Alike(v, w), v.lane = {} => v.at = "next",
           v.end = "finished" => \A row \in Available(w.blocked) : w.results[row] # "none"
    PROVE  RunFits(v)
<1>1. Remaining(v) = Remaining(w) /\ Done(v) = Done(w)
  BY DEF Alike, Remaining, Done
<1>2. Told(v)
  BY <1>1 DEF Alike, Told, RunFits
<1>3. Sorted(v)
  BY DEF Alike, Sorted, RunFits
<1> QED
  BY <1>2, <1>3 DEF RunFits, Alike

\* A probe that reports gives its rows their results.
Marked(new, old, rows) ==
    \A row \in Rows : IF row \in rows THEN new[row] # "none" ELSE new[row] = old[row]

\* A worker that takes the report of one of its probes still fits.
LEMMA ReportFits ==
    ASSUME NEW w, RunFits(w), NEW kind \in Remaining(w), NEW v \in WorkerType,
           v.lane = w.lane \ {kind}, v.threads = w.threads \ {kind},
           v.blocked = w.blocked, v.end = w.end, v.lane = {} => v.at = "next",
           Marked(v.results, w.results, Reports(kind, w.blocked))
    PROVE  RunFits(v)
<1>1. kind \in Kinds /\ w.blocked \in BOOLEAN /\ w.lane \subseteq Kinds /\ w.threads \subseteq Kinds
  BY DEF RunFits, Sorted, Remaining, WorkerType
<1>2. Done(v) = Done(w) \cup {kind} /\ Remaining(v) = Remaining(w) \ {kind}
  BY <1>1 DEF Done, Remaining
<1>3. \A row \in Rows : w.results[row] # "none" => v.results[row] # "none"
  BY DEF Marked
<1>4. ASSUME NEW row \in Rows, v.results[row] # "none"
      PROVE  \E other \in Done(v) : row \in Reports(other, v.blocked)
  <2>1. CASE row \in Reports(kind, w.blocked)
    BY <1>2, <2>1
  <2>2. CASE row \notin Reports(kind, w.blocked)
    <3>1. w.results[row] # "none"
      BY <1>4, <2>2 DEF Marked
    <3>2. PICK other \in Done(w) : row \in Reports(other, w.blocked)
      BY <3>1 DEF RunFits, Told
    <3> QED  BY <1>2, <3>2
  <2> QED  BY <2>1, <2>2
<1>5. ASSUME NEW other \in Done(v), NEW row \in Reports(other, v.blocked)
      PROVE  v.results[row] # "none"
  <2>1. row \in Rows /\ other \in Kinds
    <3>1. other \in Kinds
      BY DEF Done
    <3>2. Reports(other, w.blocked) \subseteq Rows
      BY <1>1, <3>1, ReportsAreRows
    <3> QED  BY <3>1, <3>2
  <2>2. CASE other = kind
    BY <2>1, <2>2 DEF Marked
  <2>3. CASE other # kind
    <3>1. other \in Done(w) /\ Remaining(w) # {}
      BY <1>2, <2>3
    <3>2. w.results[row] # "none"
      BY <3>1 DEF RunFits, Told
    <3> QED  BY <1>3, <2>1, <3>2
  <2> QED  BY <2>2, <2>3
<1>6. ASSUME v.end = "finished", NEW row \in Available(v.blocked)
      PROVE  v.results[row] # "none"
  <2>1. w.results[row] # "none"
    BY <1>6 DEF RunFits, Told
  <2>2. row \in Rows
    <3>1. PICK other \in Kinds : row \in Reports(other, w.blocked)
      BY <1>6 DEF Available
    <3> QED  BY <1>1, <3>1, ReportsAreRows
  <2> QED  BY <1>3, <2>1, <2>2
<1>7. Told(v)
  BY <1>4, <1>5, <1>6 DEF Told
<1>8. Sorted(v)
  BY DEF RunFits, Sorted
<1> QED
  BY <1>7, <1>8 DEF RunFits

\* The marks that a report leaves.
Reported(marks, kind, blocked, mark, linked) ==
    With(With(marks, {Row(kind)}, mark), Reports(kind, blocked) \ {Row(kind)}, linked)

\* A report marks the rows of its probe and no other row.
LEMMA ReportedIs ==
    ASSUME NEW S, NEW marks \in [Rows -> S], NEW kind \in Kinds, NEW blocked \in BOOLEAN,
           NEW mark \in S, NEW linked \in S, mark # "none", linked # "none"
    PROVE  /\ Reported(marks, kind, blocked, mark, linked) \in [Rows -> S]
           /\ Marked(Reported(marks, kind, blocked, mark, linked), marks, Reports(kind, blocked))
<1>1. Row(kind) \in Rows /\ Row(kind) \in Reports(kind, blocked)
  BY ReportsAreRows
<1> DEFINE one == With(marks, {Row(kind)}, mark)
           both == Reported(marks, kind, blocked, mark, linked)
<1>2. one \in [Rows -> S] /\ \A row \in Rows : one[row] = IF row = Row(kind) THEN mark ELSE marks[row]
  BY DEF With
<1>3. \A row \in Rows : both[row] = IF row \in Reports(kind, blocked) \ {Row(kind)} THEN linked
                                  ELSE one[row]
  BY DEF With, Reported
<1>4. both \in [Rows -> S]
  BY <1>2 DEF With, Reported
<1> HIDE DEF one, both
<1>5. Marked(both, marks, Reports(kind, blocked))
  BY <1>1, <1>2, <1>3 DEF Marked
<1> QED
  BY <1>4, <1>5 DEF both

\* A step of run r.
RunSteps(r, v, s) ==
    /\ worker' = [worker EXCEPT ![r] = v]
    /\ sent' = [sent EXCEPT ![r] = s]
    /\ UNCHANGED <<form, server, screen, open>>
    /\ pressed' \in BOOLEAN

\* A step of one run that leaves the form and the others alone keeps the
\* invariant, if the run fits after it and its marks are results it has.
LEMMA OneRun ==
    ASSUME TestInv, NEW r \in Runs, NEW v, NEW s, RunFits(v), s \in [Rows -> Marks],
           v.blocked = worker[r].blocked, RunSteps(r, v, s),
           \A row \in Rows : s[row] \in Final => v.results[row] # "none"
    PROVE  TestInv'
<1>1. v \in WorkerType /\ worker \in [Runs -> WorkerType] /\ sent \in [Runs -> [Rows -> Marks]]
  BY DEF RunFits, TestInv
<1>2. /\ worker' \in [Runs -> WorkerType] /\ worker'[r] = v
      /\ \A q \in Runs : q # r => worker'[q] = worker[q]
      /\ \A q \in Runs : worker'[q].blocked = worker[q].blocked
  BY <1>1 DEF RunSteps
<1>3. sent' \in [Runs -> [Rows -> Marks]] /\ sent'[r] = s /\ \A q \in Runs : q # r => sent'[q] = sent[q]
  BY <1>1 DEF RunSteps
<1>4. form' = form /\ FormFits'
  BY DEF RunSteps, TestInv, FormFits
<1>5. \A q \in Runs : RunFits(worker[q])'
  <2>1. \A q \in Runs : RunFits(worker'[q])
    BY <1>2 DEF TestInv
  <2>2. \A w : RunFits(w)' = RunFits(w)
    BY <1>4, FormDecides
  <2> QED  BY <2>1, <2>2
<1>6. \A q \in Runs : SentFits(q)'
  BY <1>2, <1>3 DEF SentFits, TestInv
<1>7. ScreenFits'
  <2>1. \A blocked : Available(blocked)' = Available(blocked)
    BY <1>4, FormDecides
  <2>2. ScreenFits /\ screen' = screen
    BY DEF RunSteps, TestInv
  <2> QED  BY <1>2, <2>1, <2>2 DEF ScreenFits
<1> QED
  BY <1>2, <1>3, <1>4, <1>5, <1>6, <1>7 DEF RunSteps, TestInv

\* A probe reports.
LEMMA ReportKeeps ==
    ASSUME TestInv, NEW r \in Runs, NEW kind \in Remaining(worker[r]), NEW mark \in Final,
           NEW linked \in Final, NEW rest \in WorkerType,
           rest.lane = worker[r].lane \ {kind}, rest.threads = worker[r].threads \ {kind},
           rest.blocked = worker[r].blocked, rest.end = worker[r].end,
           rest.results = worker[r].results, rest.lane = {} => rest.at = "next",
           Report(r, kind, mark, linked, rest), UNCHANGED <<form, server, screen, pressed, open>>
    PROVE  TestInv'
<1> DEFINE w == worker[r]
           results == Reported(w.results, kind, w.blocked, mark, linked)
           v == [rest EXCEPT !.results = results]
           s == Reported(sent[r], kind, w.blocked, mark, linked)
<1>1. RunFits(w) /\ SentFits(r) /\ pressed \in BOOLEAN /\ sent[r] \in [Rows -> Marks]
  BY DEF TestInv
<1>2. kind \in Kinds /\ w.blocked \in BOOLEAN /\ w.results \in [Rows -> Final \cup {"none"}]
  BY <1>1 DEF RunFits, Sorted, Remaining, WorkerType
<1>3. mark # "none" /\ linked # "none" /\ mark \in Marks /\ linked \in Marks
      /\ mark \in Final \cup {"none"} /\ linked \in Final \cup {"none"}
  BY DEF Final, Marks
<1>4. results \in [Rows -> Final \cup {"none"}]
      /\ Marked(results, w.results, Reports(kind, w.blocked))
  <2> DEFINE S == Final \cup {"none"}
  <2>1. w.results \in [Rows -> S] /\ mark \in S /\ linked \in S
    BY <1>2, <1>3
  <2> HIDE DEF S
  <2>2. results \in [Rows -> S] /\ Marked(results, w.results, Reports(kind, w.blocked))
    BY <1>2, <1>3, <2>1, ReportedIs
  <2> QED  BY <2>2 DEF S
<1>5. s \in [Rows -> Marks] /\ Marked(s, sent[r], Reports(kind, w.blocked))
  BY <1>1, <1>2, <1>3, ReportedIs DEF SentFits
<1>6. worker' = [worker EXCEPT ![r] = v] /\ sent' = [sent EXCEPT ![r] = s]
  BY DEF Report, Reported
<1> HIDE DEF results, s
<1>7. /\ v \in WorkerType /\ v.lane = rest.lane /\ v.threads = rest.threads
      /\ v.blocked = rest.blocked /\ v.end = rest.end /\ v.results = results
      /\ v.at = rest.at
  BY <1>4 DEF WorkerType
<1> HIDE DEF v
<1>8. RunFits(v)
  BY <1>1, <1>4, <1>7, ReportFits
<1>9. \A row \in Rows : s[row] \in Final => v.results[row] # "none"
  BY <1>1, <1>4, <1>5, <1>7 DEF Marked, SentFits
<1>10. RunSteps(r, v, s)
  BY <1>1, <1>6 DEF RunSteps
<1> QED
  BY <1>5, <1>7, <1>8, <1>9, <1>10, OneRun

\* A probe moves on and reports nothing.
LEMMA MovesKeep ==
    ASSUME TestInv, NEW r \in Runs, NEW v, Alike(v, worker[r]), v.end = worker[r].end,
           v.lane = {} => v.at = "next",
           worker' = [worker EXCEPT ![r] = v], UNCHANGED <<form, server, sent, screen, open>>,
           pressed' \in BOOLEAN
    PROVE  TestInv'
<1>1. RunFits(worker[r]) /\ SentFits(r) /\ sent \in [Runs -> [Rows -> Marks]]
  BY DEF TestInv
<1>2. v.end = "finished" => \A row \in Available(worker[r].blocked) : worker[r].results[row] # "none"
  BY <1>1 DEF RunFits, Told
<1>3. RunFits(v)
  BY <1>1, <1>2, AlikeFits
<1>4. RunSteps(r, v, sent[r])
  <2>1. sent' = [sent EXCEPT ![r] = sent[r]]
    BY <1>1
  <2> QED  BY <2>1 DEF RunSteps
<1>5. \A row \in Rows : sent[r][row] \in Final => v.results[row] # "none"
  BY <1>1 DEF SentFits, Alike
<1> QED
  BY <1>1, <1>3, <1>4, <1>5, OneRun DEF SentFits, Alike

-----------------------------------------------------------------------------
(* The steps of a worker.                                                  *)

\* The head of a lane with probes is one of them.
LEMMA HeadIs ==
    ASSUME NEW w, RunFits(w), w.lane # {}
    PROVE  /\ FirstOf(w.lane) \in w.lane /\ FirstOf(w.lane) \in DOMAIN Lane
           /\ w.threads \ {FirstOf(w.lane)} = w.threads
<1>1. w.lane \in SUBSET AllKinds /\ w.lane \subseteq DOMAIN Lane
  BY DEF RunFits, Sorted, WorkerType, OnLane
<1>2. FirstOf(w.lane) \in w.lane
  BY <1>1, FirstIs
<1>3. FirstOf(w.lane) \notin w.threads
  BY <1>2 DEF RunFits, Sorted
<1> QED
  BY <1>1, <1>2, <1>3

\* A probe on a thread of its own reports.
LEMMA ThreadKeeps ==
    ASSUME TestInv, NEW r \in Runs, Thread(r)
    PROVE  TestInv'
<1>1. PICK kind \in worker[r].threads :
         \E outcome \in IF Cleared(r, kind) THEN Outcomes(r, kind) ELSE {<<"skip", "skip">>} :
             Report(r, kind, outcome[1], outcome[2], [worker[r] EXCEPT !.threads = @ \ {kind}])
  BY DEF Thread
<1>2. \A outcome \in Outcomes(r, kind) : outcome[1] \in Final /\ outcome[2] \in Final
  <2> DEFINE Pairs == {<<"skip", "skip">>, <<"bad", "bad">>, <<"ok", "ok">>, <<"bad", "ok">>}
  <2>1. Outcomes(r, kind) \subseteq Pairs
    BY DEF Outcomes
  <2>2. \A outcome \in Pairs : outcome[1] \in Final /\ outcome[2] \in Final
    BY DEF Final
  <2> QED  BY <2>1, <2>2
<1>3. PICK mark \in Final, linked \in Final :
         Report(r, kind, mark, linked, [worker[r] EXCEPT !.threads = @ \ {kind}])
  BY <1>1, <1>2 DEF Final
<1> DEFINE rest == [worker[r] EXCEPT !.threads = @ \ {kind}]
<1>4. worker[r] \in WorkerType /\ RunFits(worker[r])
  BY DEF TestInv
<1>5. kind \notin worker[r].lane
  BY <1>4 DEF RunFits, Sorted
<1>6. /\ rest \in WorkerType /\ rest.lane = worker[r].lane \ {kind}
      /\ rest.threads = worker[r].threads \ {kind} /\ rest.blocked = worker[r].blocked
      /\ rest.end = worker[r].end /\ rest.results = worker[r].results
      /\ rest.lane = {} => rest.at = "next"
  BY <1>4, <1>5 DEF WorkerType, RunFits
<1>7. Report(r, kind, mark, linked, rest)
  BY <1>3
<1> HIDE DEF rest
<1> QED
  BY <1>6, <1>7, ReportKeeps DEF Thread, Remaining

\* The lane takes up its next probe.
LEMMA TakeKeeps ==
    ASSUME TestInv, NEW r \in Runs, Take(r)
    PROVE  TestInv'
<1> DEFINE w == worker[r]
           kind == FirstOf(w.lane)
           v == [w EXCEPT !.at = "wait"]
           s == With(sent[r], {Row(kind)}, "pending")
<1>1. w \in WorkerType /\ RunFits(w) /\ SentFits(r) /\ sent[r] \in [Rows -> Marks]
      /\ w.lane # {} /\ pressed \in BOOLEAN
  BY DEF TestInv, Take
<1>2. Alike(v, w) /\ v.end = w.end
  BY <1>1 DEF Alike, WorkerType, Ats
<1>3. s \in [Rows -> Marks] /\ \A row \in Rows : s[row] \in Final => s[row] = sent[r][row]
  BY <1>1 DEF With, Marks, Final
<1>4. RunSteps(r, v, s)
  BY <1>1 DEF Take, RunSteps
<1> HIDE DEF v, s
<1>5. v.end = "finished" => \A row \in Available(w.blocked) : w.results[row] # "none"
  BY <1>1, <1>2 DEF RunFits, Told
<1>6. RunFits(v)
  BY <1>1, <1>2, <1>5, AlikeFits DEF Alike
<1>7. \A row \in Rows : s[row] \in Final => v.results[row] # "none"
  BY <1>1, <1>2, <1>3 DEF SentFits, Alike
<1> QED
  BY <1>2, <1>3, <1>4, <1>6, <1>7, OneRun DEF Alike

\* A probe of the lane whose needs are met begins.
LEMMA BeginKeeps ==
    ASSUME TestInv, NEW r \in Runs, Begin(r)
    PROVE  TestInv'
<1> DEFINE w == worker[r]
           kind == FirstOf(w.lane)
<1>1. w \in WorkerType /\ RunFits(w) /\ w.at = "wait" /\ pressed \in BOOLEAN
  BY DEF TestInv, Begin
<1>2. w.lane # {}
  BY <1>1 DEF RunFits
<1>3. kind \in w.lane /\ kind \in DOMAIN Lane /\ w.threads \ {kind} = w.threads
  BY <1>1, <1>2, HeadIs
<1> HIDE DEF kind
<1>4. CASE \E call \in FirstCalls(kind) :
             worker' = [worker EXCEPT ![r].at = call] /\ UNCHANGED sent
  <2>1. PICK call \in FirstCalls(kind) :
           worker' = [worker EXCEPT ![r].at = call] /\ UNCHANGED sent
    BY <1>4
  <2>2. call \in Ats
    BY <1>3 DEF FirstCalls, Lane, Listing, Ats
  <2> DEFINE v == [w EXCEPT !.at = call]
  <2>3. Alike(v, w) /\ v.end = w.end /\ v.lane = w.lane
    BY <1>1, <2>2 DEF Alike, WorkerType
  <2>4. worker' = [worker EXCEPT ![r] = v]
    BY <2>1
  <2> HIDE DEF v
  <2> QED  BY <1>1, <1>2, <2>1, <2>3, <2>4, MovesKeep DEF Begin
<1>5. CASE Report(r, kind, "skip", "skip", [w EXCEPT !.lane = @ \ {kind}, !.at = "next"])
  <2> DEFINE rest == [w EXCEPT !.lane = @ \ {kind}, !.at = "next"]
  <2>1. /\ rest \in WorkerType /\ rest.lane = w.lane \ {kind} /\ rest.threads = w.threads \ {kind}
        /\ rest.blocked = w.blocked /\ rest.end = w.end /\ rest.results = w.results
        /\ rest.at = "next"
    BY <1>1, <1>3 DEF WorkerType, Ats
  <2>2. Report(r, kind, "skip", "skip", rest) /\ "skip" \in Final
    BY <1>5 DEF Final
  <2> HIDE DEF rest
  <2> QED  BY <1>3, <2>1, <2>2, ReportKeeps DEF Begin, Remaining
<1> QED
  BY <1>4, <1>5 DEF Begin, kind

\* A probe sends its call to the server.
LEMMA CallKeepsProbes ==
    ASSUME TestInv, NEW r \in Runs, Call(r)
    PROVE  TestInv'
<1> DEFINE w == worker[r]
           v == [w EXCEPT !.flight = "sent"]
<1>1. w \in WorkerType /\ RunFits(w) /\ pressed \in BOOLEAN
  BY DEF TestInv
<1>2. Alike(v, w) /\ v.end = w.end /\ (v.lane = {} => v.at = "next")
  BY <1>1 DEF Alike, WorkerType, RunFits
<1>3. worker' = [worker EXCEPT ![r] = v]
  BY DEF Call
<1> HIDE DEF v
<1> QED
  BY <1>1, <1>2, <1>3, MovesKeep DEF Call

\* The call of a probe is answered.
LEMMA AnswerKeepsProbes ==
    ASSUME TestInv, NEW r \in Runs, Answer(r)
    PROVE  TestInv'
<1> DEFINE w == worker[r]
<1>1. w \in WorkerType /\ RunFits(w) /\ pressed \in BOOLEAN /\ w.at # "next"
  BY DEF TestInv, Answer, InCall
<1>2. PICK good \in BOOLEAN :
         /\ worker' = [worker EXCEPT ![r].at = AfterCall(@, good), ![r].flight = "none"]
         /\ pressed' \in IF w.flight = "none" THEN {pressed} ELSE Effect(w.at, good)
  BY DEF Answer
<1>3. pressed' \in BOOLEAN
  BY <1>1, <1>2 DEF Effect
<1>4. AfterCall(w.at, good) \in Ats
  BY DEF AfterCall, Ats
<1> DEFINE v == [w EXCEPT !.at = AfterCall(@, good), !.flight = "none"]
<1>5. Alike(v, w) /\ v.end = w.end /\ v.lane # {}
  BY <1>1, <1>4 DEF Alike, WorkerType, RunFits
<1>6. worker' = [worker EXCEPT ![r] = v]
  BY <1>1, <1>2 DEF TestInv
<1> HIDE DEF v
<1> QED
  BY <1>1, <1>3, <1>5, <1>6, MovesKeep DEF Answer

\* A probe of the lane reports, and the lane goes on.
LEMMA CloseKeeps ==
    ASSUME TestInv, NEW r \in Runs, Close(r)
    PROVE  TestInv'
<1> DEFINE w == worker[r]
           kind == FirstOf(w.lane)
           rest == [w EXCEPT !.lane = @ \ {kind}, !.at = "next"]
<1>1. w \in WorkerType /\ RunFits(w) /\ w.at \in {"ok", "bad"}
  BY DEF TestInv, Close
<1>2. w.lane # {} /\ w.at \in Final
  BY <1>1 DEF RunFits, Final
<1>3. kind \in w.lane /\ w.threads \ {kind} = w.threads
  BY <1>1, <1>2, HeadIs
<1>4. Report(r, kind, w.at, w.at, rest)
  BY DEF Close
<1> HIDE DEF kind
<1>5. /\ rest \in WorkerType /\ rest.lane = w.lane \ {kind} /\ rest.threads = w.threads \ {kind}
      /\ rest.blocked = w.blocked /\ rest.end = w.end /\ rest.results = w.results
      /\ rest.at = "next"
  BY <1>1, <1>3 DEF WorkerType, Ats
<1> HIDE DEF rest
<1> QED
  BY <1>2, <1>3, <1>4, <1>5, ReportKeeps DEF Close, Remaining

-----------------------------------------------------------------------------
(* The steps of the form.                                                  *)

\* A step that may change every worker, but none of its results.
LEMMA EveryRun ==
    ASSUME TestInv, form' = form, sent' = sent, pressed' = pressed, open' = open,
           server' \in {"none", "own", "other"}, worker' \in [Runs -> WorkerType],
           \A r \in Runs : RunFits(worker'[r]) /\ worker'[r].results = worker[r].results,
           screen' \in [run : Runs \cup {0}, marks : [Rows -> Marks]],
           screen'.run # 0 => \A row \in Available(worker'[screen'.run].blocked) :
                                 screen'.marks[row] = "pending"
    PROVE  TestInv'
<1>1. FormFits' /\ \A w : RunFits(w)' = RunFits(w)
  BY FormDecides DEF TestInv, FormFits
<1>2. \A blocked : Available(blocked)' = Available(blocked)
  BY FormDecides
<1>3. \A r \in Runs : RunFits(worker[r])'
  BY <1>1
<1>4. \A r \in Runs : SentFits(r)'
  BY DEF SentFits, TestInv
<1>5. ScreenFits'
  BY <1>2 DEF ScreenFits
<1> QED
  BY <1>1, <1>3, <1>4, <1>5 DEF TestInv

\* The run on the screen ends; calls of a child that is killed are lost.
LEMMA EndedFits ==
    ASSUME TestInv, NEW base \in {worker, ChildKilled}, NEW how \in {"cut", "late", "finished"},
           how = "finished" /\ screen.run # 0 =>
               \A row \in Available(worker[screen.run].blocked) :
                   worker[screen.run].results[row] # "none"
    PROVE  /\ Ended(base, how) \in [Runs -> WorkerType]
           /\ \A r \in Runs : RunFits(Ended(base, how)[r]) /\ Alike(Ended(base, how)[r], worker[r])
<1>1. worker \in [Runs -> WorkerType] /\ \A r \in Runs : RunFits(worker[r])
  BY DEF TestInv
<1>2. ASSUME NEW r \in Runs
      PROVE  /\ Alike(base[r], worker[r]) /\ base[r].end = worker[r].end
             /\ base[r].at = worker[r].at
  BY <1>1 DEF ChildKilled, Hung, Alike, WorkerType
<1> DEFINE v(r) == Ended(base, how)[r]
<1>3. \A r \in Runs : v(r) = IF r = screen.run THEN [base[r] EXCEPT !.end = how] ELSE base[r]
  BY DEF Ended
<1>4. ASSUME NEW r \in Runs
      PROVE  /\ Alike(v(r), worker[r]) /\ v(r).at = worker[r].at
             /\ v(r).end = IF r = screen.run THEN how ELSE worker[r].end
  <2>1. base[r] \in WorkerType
    BY <1>2 DEF Alike
  <2>2. CASE r = screen.run
    <3>1. v(r) = [base[r] EXCEPT !.end = how]
      BY <1>3, <2>2
    <3> QED  BY <1>2, <2>1, <2>2, <3>1 DEF Alike, WorkerType
  <2>3. CASE r # screen.run
    <3>1. v(r) = base[r]
      BY <1>3, <2>3
    <3> QED  BY <1>2, <2>3, <3>1
  <2> QED  BY <2>2, <2>3
<1>5. \A r \in Runs : r # 0
  BY TestAssumption DEF Runs
<1>6. Ended(base, how) = [r \in Runs |-> v(r)]
  BY DEF Ended
<1> HIDE DEF v
<1>7. ASSUME NEW r \in Runs
      PROVE  RunFits(v(r))
  <2>1. v(r).lane = {} => v(r).at = "next"
    BY <1>1, <1>4 DEF Alike, RunFits
  <2>2. v(r).end = "finished" => \A row \in Available(worker[r].blocked) :
                                    worker[r].results[row] # "none"
    <3>1. CASE r = screen.run
      BY <1>4, <1>5, <3>1
    <3>2. CASE r # screen.run
      BY <1>1, <1>4, <3>2 DEF RunFits, Told
    <3> QED  BY <3>1, <3>2
  <2> QED  BY <1>1, <1>4, <2>1, <2>2, AlikeFits
<1> QED
  BY <1>4, <1>6, <1>7 DEF Alike

\* A worker that starts has every probe of the form before it.
LEMMA NewFits ==
    ASSUME NEW blocked \in BOOLEAN
    PROVE  RunFits(NewWorker(blocked)) /\ NewWorker(blocked).results = NoMarks
           /\ NewWorker(blocked).blocked = blocked
<1> DEFINE w == NewWorker(blocked)
           lane == {kind \in Kinds : OnLane(kind, blocked)}
           threads == {kind \in Kinds : ~OnLane(kind, blocked)}
<1>1. lane \subseteq Kinds /\ threads \subseteq Kinds /\ lane \cup threads = Kinds
  OBVIOUS
<1>2. lane \in SUBSET AllKinds /\ threads \in SUBSET AllKinds
  BY <1>1, KindsKnown
<1>3. /\ \A kind \in lane : OnLane(kind, blocked)
      /\ \A kind \in threads : ~OnLane(kind, blocked)
  OBVIOUS
<1>4. w = [lane |-> lane, at |-> "next", flight |-> "none", threads |-> threads,
           blocked |-> blocked, results |-> NoMarks, end |-> "none"]
  <2>1. w = [NoProbes EXCEPT !.lane = lane, !.threads = threads, !.blocked = blocked]
    BY DEF NewWorker
  <2> HIDE DEF w, lane, threads
  <2> QED  BY <2>1 DEF NoProbes
<1> HIDE DEF lane, threads
<1>5. /\ w.lane = lane /\ w.at = "next" /\ w.flight = "none" /\ w.threads = threads
      /\ w.blocked = blocked /\ w.results = NoMarks /\ w.end = "none"
  BY <1>4
<1>6. NoMarks \in [Rows -> Final \cup {"none"}] /\ \A row \in Rows : NoMarks[row] = "none"
  BY DEF NoMarks
<1>7. w \in WorkerType
  BY <1>2, <1>4, <1>6 DEF WorkerType, Ats
<1> HIDE DEF w
<1>8. Done(w) = {}
  BY <1>1, <1>5 DEF Done, Remaining
<1> QED
  BY <1>1, <1>3, <1>5, <1>6, <1>7, <1>8 DEF RunFits, Sorted, Told, w

\* A worker that has not started.
LEMMA NoProbesFits ==
    /\ RunFits(NoProbes) /\ NoProbes \in WorkerType
    /\ NoProbes.results = NoMarks /\ NoMarks \in [Rows -> Marks]
    /\ \A row \in Rows : NoMarks[row] = "none"
<1>1. NoMarks \in [Rows -> Final \cup {"none"}] /\ NoMarks \in [Rows -> Marks]
      /\ \A row \in Rows : NoMarks[row] = "none"
  BY DEF NoMarks, Marks
<1>2. /\ NoProbes.lane = {} /\ NoProbes.at = "next" /\ NoProbes.threads = {}
      /\ NoProbes.blocked = FALSE /\ NoProbes.results = NoMarks /\ NoProbes.end = "none"
      /\ NoProbes \in WorkerType
  BY <1>1 DEF NoProbes, WorkerType, Ats
<1>3. Sorted(NoProbes) /\ Told(NoProbes)
  BY <1>1, <1>2 DEF Sorted, Told, Remaining
<1> QED
  BY <1>1, <1>2, <1>3 DEF RunFits

\* The button starts a run and ends the one before.
LEMMA TestKeeps ==
    ASSUME TestInv, NEW r \in Runs, Test(r)
    PROVE  TestInv'
<1>0. PICK edited \in BOOLEAN : \E found \in Ensure(r, edited) :
         /\ server' = found[1]
         /\ worker' = [Ended(found[2], "cut") EXCEPT ![r] = NewWorker(found[3])]
         /\ screen' = [run |-> r, marks |-> With(NoMarks, Available(found[3]), "pending")]
  BY DEF Test
<1>1. PICK found \in Ensure(r, edited) :
         /\ server' = found[1]
         /\ worker' = [Ended(found[2], "cut") EXCEPT ![r] = NewWorker(found[3])]
         /\ screen' = [run |-> r, marks |-> With(NoMarks, Available(found[3]), "pending")]
  BY <1>0
<1>2. /\ found[1] \in {"none", "own", "other"} /\ found[2] \in {worker, ChildKilled}
      /\ found[3] \in BOOLEAN
  <2>1. server \in {"none", "own", "other"} /\ StillBlocked(r) \in BOOLEAN
    BY DEF TestInv, StillBlocked
  <2>2. CASE server = "none"
    <3>1. Ensure(r, edited) = {<<"own", worker, FALSE>>, <<"none", worker, FALSE>>}
      BY <2>2 DEF Ensure
    <3>2. found = <<"own", worker, FALSE>> \/ found = <<"none", worker, FALSE>>
      BY <3>1
    <3>3. CASE found = <<"own", worker, FALSE>>
      BY <3>3
    <3>4. CASE found = <<"none", worker, FALSE>>
      BY <3>4
    <3> QED  BY <3>2, <3>3, <3>4
  <2>3. CASE server = "own"
    <3>1. Ensure(r, edited) = {<<"own", IF edited THEN ChildKilled ELSE worker, FALSE>>}
      BY <2>3 DEF Ensure
    <3>2. found = <<"own", IF edited THEN ChildKilled ELSE worker, FALSE>>
      BY <3>1
    <3> QED  BY <3>2
  <2>4. CASE server = "other"
    <3>1. Ensure(r, edited) = {<<"other", worker, edited \/ StillBlocked(r)>>}
      BY <2>4 DEF Ensure
    <3>2. found = <<"other", worker, edited \/ StillBlocked(r)>>
      BY <3>1
    <3> QED  BY <2>1, <3>2
  <2> QED  BY <2>1, <2>2, <2>3, <2>4
<1> DEFINE base == found[2]
           blocked == found[3]
           marks == With(NoMarks, Available(blocked), "pending")
           ended == Ended(base, "cut")
<1>3. /\ ended \in [Runs -> WorkerType]
      /\ \A q \in Runs : RunFits(ended[q]) /\ Alike(ended[q], worker[q])
  BY <1>2, EndedFits
<1>4. /\ RunFits(NewWorker(blocked)) /\ NewWorker(blocked).results = NoMarks
      /\ NewWorker(blocked).blocked = blocked /\ NewWorker(blocked) \in WorkerType
  BY <1>2, NewFits DEF RunFits
<1>5. worker[r].results = NoMarks /\ \A row \in Rows : NoMarks[row] = "none"
  BY NoProbesFits DEF Test
<1>6. worker' = [ended EXCEPT ![r] = NewWorker(blocked)]
  BY <1>1
<1>7. screen' = [run |-> r, marks |-> marks]
  BY <1>1
<1> HIDE DEF ended, base
<1>8. /\ worker' \in [Runs -> WorkerType] /\ worker'[r] = NewWorker(blocked)
      /\ \A q \in Runs : q # r => worker'[q] = ended[q]
  BY <1>3, <1>4, <1>6
<1>9. \A q \in Runs : RunFits(worker'[q]) /\ worker'[q].results = worker[q].results
  BY <1>3, <1>4, <1>5, <1>8 DEF Alike
<1>10. marks \in [Rows -> Marks] /\ \A row \in Available(blocked) : marks[row] = "pending"
  <2>1. \A row \in Rows : marks[row] = IF row \in Available(blocked) THEN "pending" ELSE "none"
    BY <1>5 DEF With
  <2>2. Available(blocked) \subseteq Rows
    BY <1>2, ReportsAreRows DEF Available
  <2>3. marks = [row \in Rows |-> marks[row]]
    BY DEF With
  <2> HIDE DEF marks
  <2> QED  BY <2>1, <2>2, <2>3 DEF Marks
<1> HIDE DEF marks
<1>11. /\ screen' \in [run : Runs \cup {0}, marks : [Rows -> Marks]]
       /\ screen'.run = r /\ screen'.marks = marks
  BY <1>7, <1>10
<1>12. \A row \in Available(worker'[screen'.run].blocked) : screen'.marks[row] = "pending"
  BY <1>4, <1>8, <1>10, <1>11
<1>13. server' \in {"none", "own", "other"}
  BY <1>1, <1>2
<1> QED
  BY <1>8, <1>9, <1>11, <1>12, <1>13, EveryRun DEF Test

\* The screen takes what the run has sent, or ends a run that is late.
LEMMA PollKeepsProbes ==
    ASSUME TestInv, NEW late \in BOOLEAN, Poll(late)
    PROVE  TestInv'
<1> DEFINE base == IF server = "own" THEN ChildKilled ELSE worker
           how == IF late THEN "late" ELSE "finished"
           q == screen.run
<1>1. /\ q \in Runs /\ screen.marks \in [Rows -> Marks] /\ sent[q] \in [Rows -> Marks]
      /\ worker[q].blocked \in BOOLEAN /\ SentFits(q)
      /\ \A row \in Available(worker[q].blocked) : screen.marks[row] = "pending"
  <2>1. q \in Runs
    BY DEF TestInv, ScreenFits, Poll
  <2> QED  BY <2>1 DEF TestInv, ScreenFits, Poll, WorkerType
<1>2. q # 0
  BY DEF Poll
<1>3. /\ Shown \in [Rows -> Marks]
      /\ \A row \in Rows : Shown[row] = IF sent[q][row] = "none" THEN screen.marks[row]
                                       ELSE sent[q][row]
  BY <1>1, <1>2 DEF Shown
<1>4. ASSUME how = "finished", NEW row \in Available(worker[q].blocked)
      PROVE  worker[q].results[row] # "none"
  <2>1. row \in Rows
    BY <1>1, ReportsAreRows DEF Available
  <2>2. Shown[row] # "pending"
    BY <1>4, <2>1 DEF Poll
  <2>3. sent[q][row] \notin {"none", "pending"} /\ sent[q][row] \in Marks
    BY <1>1, <1>3, <2>1, <2>2
  <2>4. sent[q][row] \in Final
    BY <2>3 DEF Marks, Final
  <2> QED  BY <1>1, <2>1, <2>4 DEF SentFits
<1>5. base \in {worker, ChildKilled} /\ how \in {"cut", "late", "finished"}
  OBVIOUS
<1>6. worker' = Ended(base, how)
  BY DEF Poll
<1> HIDE DEF base, how
<1>7. /\ worker' \in [Runs -> WorkerType]
      /\ \A r \in Runs : RunFits(worker'[r]) /\ Alike(worker'[r], worker[r])
  BY <1>4, <1>5, <1>6, EndedFits
<1>8. /\ screen' \in [run : Runs \cup {0}, marks : [Rows -> Marks]] /\ screen'.run = 0
      /\ server' \in {"none", "own", "other"}
  BY <1>3 DEF Poll, TestInv
<1> QED
  BY <1>7, <1>8, EveryRun DEF Poll, Alike

\* The user ends the run.
LEMMA CancelKeeps ==
    ASSUME TestInv, Cancel
    PROVE  TestInv'
<1>1. /\ Ended(worker, "cut") \in [Runs -> WorkerType]
      /\ \A r \in Runs : /\ RunFits(Ended(worker, "cut")[r])
                         /\ Alike(Ended(worker, "cut")[r], worker[r])
  BY EndedFits
<1>2. worker' = Ended(worker, "cut") /\ screen' = [run |-> 0, marks |-> NoMarks]
      /\ UNCHANGED <<form, server, sent, pressed, open>>
  BY DEF Cancel
<1>3. /\ worker' \in [Runs -> WorkerType]
      /\ \A r \in Runs : RunFits(worker'[r]) /\ worker'[r].results = worker[r].results
  BY <1>1, <1>2 DEF Alike
<1>4. screen' \in [run : Runs \cup {0}, marks : [Rows -> Marks]] /\ screen'.run = 0
  BY <1>2, NoProbesFits
<1>5. server' \in {"none", "own", "other"}
  BY <1>2 DEF TestInv
<1> QED
  BY <1>2, <1>3, <1>4, <1>5, EveryRun

\* A form whose runs have no probes.
LEMMA EmptyFits ==
    ASSUME form \subseteq Options, FormFits, server \in {"none", "own", "other"},
           pressed \in BOOLEAN, open \in BOOLEAN,
           worker = [r \in Runs |-> NoProbes], sent = [r \in Runs |-> NoMarks],
           screen = [run |-> 0, marks |-> NoMarks]
    PROVE  TestInv
<1>1. worker \in [Runs -> WorkerType] /\ sent \in [Runs -> [Rows -> Marks]]
  BY NoProbesFits
<1>2. \A r \in Runs : RunFits(worker[r]) /\ SentFits(r)
  BY NoProbesFits DEF SentFits, Final
<1>3. ScreenFits
  BY NoProbesFits DEF ScreenFits
<1> QED
  BY <1>1, <1>2, <1>3 DEF TestInv

\* The form is left: no run is left of it.
LEMMA LeaveKeeps ==
    ASSUME TestInv, Leave
    PROVE  TestInv'
<1>1. /\ form' = form /\ form' \subseteq Options /\ FormFits' /\ server' \in {"none", "own", "other"}
      /\ pressed' \in BOOLEAN /\ open' \in BOOLEAN
  BY DEF TestInv, Leave, FormFits
<1>2. /\ worker' = [r \in Runs |-> NoProbes] /\ sent' = [r \in Runs |-> NoMarks]
      /\ screen' = [run |-> 0, marks |-> NoMarks]
  BY DEF Leave
<1>3. RunFits(NoProbes)'
  BY <1>1, FormDecides, NoProbesFits
<1>4. worker' \in [Runs -> WorkerType] /\ sent' \in [Runs -> [Rows -> Marks]]
  BY <1>2, NoProbesFits
<1>5. \A r \in Runs : RunFits(worker[r])'
  BY <1>2, <1>3
<1>6. \A r \in Runs : SentFits(r)'
  BY <1>2, NoProbesFits DEF SentFits, Final
<1>7. ScreenFits'
  BY <1>2, NoProbesFits DEF ScreenFits
<1> QED
  BY <1>1, <1>4, <1>5, <1>6, <1>7 DEF TestInv

\* A step of nobody keeps the invariant.
LEMMA TestStutters ==
    ASSUME TestInv, UNCHANGED testVars
    PROVE  TestInv'
<1>1. UNCHANGED <<form, server, worker, sent, screen, pressed, open>>
  BY DEF testVars
<1>2. \A r \in Runs : RunFits(worker'[r]) /\ worker'[r].results = worker[r].results
  BY <1>1 DEF TestInv
<1> QED
  BY <1>1, <1>2, EveryRun DEF TestInv, ScreenFits

\* The invariant of the TEST button holds in every behaviour.
THEOREM TestCorrect == TestSpec => []TestInv
<1>1. TestInit => TestInv
  <2> SUFFICES ASSUME TestInit PROVE TestInv
    OBVIOUS
  <2>1. form \subseteq Options /\ FormFits
    BY TestAssumption DEF TestInit, FormFits, AllOptions
  <2> QED  BY <2>1, EmptyFits DEF TestInit
<1>2. TestInv /\ [TestNext]_testVars => TestInv'
  <2> SUFFICES ASSUME TestInv, [TestNext]_testVars PROVE TestInv'
    OBVIOUS
  <2>1. ASSUME NEW r \in Runs, Test(r) \/ Thread(r) \/ Take(r) \/ Begin(r) \/ Call(r)
                             \/ Answer(r) \/ Close(r)
        PROVE  TestInv'
    BY <2>1, TestKeeps, ThreadKeeps, TakeKeeps, BeginKeeps, CallKeepsProbes,
       AnswerKeepsProbes, CloseKeeps
  <2>2. ASSUME NEW late \in BOOLEAN, Poll(late)
        PROVE  TestInv'
    BY <2>2, PollKeepsProbes
  <2> QED  BY <2>1, <2>2, CancelKeeps, LeaveKeeps, TestStutters DEF TestNext
<1> QED
  BY <1>1, <1>2, PTL DEF TestSpec

\* The probes of a run never all wait, and a run that ends by itself leaves out
\* only probes whose row another one marked: for every form, any number of
\* presses of TEST and every order of answers (run_probes, start_test_run).
THEOREM ProbesGoOn == TestSpec => []ProbesNeverStall
BY TestCorrect, InvNeverStalls, PTL

\* The variables of InitTest keep their types.
THEOREM TestTyped == TestSpec => []TestTypeOK
<1>1. TestInv => TestTypeOK
  <2> SUFFICES ASSUME TestInv PROVE TestTypeOK
    OBVIOUS
  <2>1. ASSUME NEW r \in Runs
        PROVE  /\ worker[r].lane \cup worker[r].threads \subseteq Kinds
               /\ worker[r].flight \in {"none", "sent", "lost"}
               /\ worker[r].lane = {} => worker[r].at = "next"
               /\ {worker[r].results[row] : row \in Rows} \subseteq Marks \ {"pending"}
    <3>1. RunFits(worker[r]) /\ worker[r] \in WorkerType
      BY DEF TestInv
    <3>2. worker[r].results \in [Rows -> Final \cup {"none"}]
      BY <3>1 DEF WorkerType
    <3>3. \A row \in Rows : worker[r].results[row] \in Marks \ {"pending"}
      BY <3>2 DEF Final, Marks
    <3> QED  BY <3>1, <3>3 DEF RunFits, Sorted, WorkerType
  <2>2. screen.run \in Runs \cup {0} /\ {screen.marks[row] : row \in Rows} \subseteq Marks
    BY DEF TestInv, ScreenFits
  <2> QED  BY <2>1, <2>2 DEF TestTypeOK, TestInv
<1> QED
  BY <1>1, TestCorrect, PTL

-----------------------------------------------------------------------------
(* The form: the inductive invariant.                                      *)

Optional == Nat \cup {Absent}
Entries == [name : Nat, port : Nat, relay : Optional, opt : Optional, extra : Nat]
HostEntries == [ip : Nat, hostname : Nat, duts : Seq(Entries)]
HostTabs == [id : Nat, duts : Seq(Nat)]

\* No two tabs have one identity.
OneTabEach(shown) ==
    /\ \A g, h \in DOMAIN shown : shown[g].id = shown[h].id => g = h
    /\ \A g, h \in DOMAIN shown : \A c \in DOMAIN shown[g].duts, d \in DOMAIN shown[h].duts :
          shown[g].duts[c] = shown[h].duts[d] => g = h /\ c = d

TabsFit(shown) ==
    /\ shown \in Seq(HostTabs) /\ Len(shown) <= MaxHosts
    /\ \A h \in DOMAIN shown : Len(shown[h].duts) <= MaxDuts
    /\ OneTabEach(shown)

\* A buffer has a text.
AreTexts(vals) == \A key \in DOMAIN vals : vals[key] \in Nat

\* Buffers are of keys that are shown, and every DUT has its gate.
ValuesFit(vals, shown) ==
    /\ AreTexts(vals)
    /\ DOMAIN vals \subseteq Keys(shown)
    /\ \A h \in DOMAIN shown, d \in 1 .. MaxDuts :
          <<"gate", h, d>> \in Keys(shown) => <<"gate", h, d>> \in DOMAIN vals

FormInv ==
    /\ created \in BOOLEAN /\ (created => original = <<>>)
    /\ original \in Seq(HostEntries) /\ IsFiniteSet(OriginalNames)
    /\ TabsFit(tabs)
    /\ ValuesFit(values, tabs)
    /\ saves \in 0 .. MaxSaves
    /\ edits \in [tabs : 0 .. MaxTabs, typed : 0 .. MaxTyped]

-----------------------------------------------------------------------------
(* Keys and buffers.                                                       *)

\* The keys of the tabs that are shown.
KeyOf(shown, f, h, d) ==
    /\ h \in DOMAIN shown
    /\ \/ f \in HostFields /\ d = 0
       \/ f \in DutFields /\ d \in 1 .. MaxDuts /\ d \in DOMAIN shown[h].duts

\* A key of the tabs is a field of a host or of a DUT that is shown.
LEMMA KeysAre ==
    ASSUME NEW shown
    PROVE  /\ \A f, h, d : <<f, h, d>> \in Keys(shown) <=> KeyOf(shown, f, h, d)
           /\ \A key \in Keys(shown) : key = <<key[1], key[2], key[3]>>
BY DEF Keys, KeyOf

\* What an entry of the file says is a text, or that it says nothing.
LEMMA SaidIs ==
    ASSUME original \in Seq(HostEntries), NEW shown, NEW key \in Keys(shown)
    PROVE  Said(key) \in Optional /\ (key[1] = "gate" => Said(key) \in {0, 1, Absent})
<1> DEFINE f == key[1]
           h == key[2]
           d == key[3]
<1>1. \/ f \in HostFields /\ d = 0
      \/ f \in DutFields /\ d \in 1 .. MaxDuts
  <2>1. key = <<f, h, d>> /\ KeyOf(shown, f, h, d)
    BY KeysAre
  <2> QED  BY <2>1 DEF KeyOf
<1>2. f \in HostFields <=> f = "ip" \/ f = "hostname"
  BY DEF HostFields
<1>3. f \in DutFields => f \in {"name", "port", "gate", "relay", "opt"}
  BY DEF DutFields
<1> HIDE DEF f, h, d
<1>4. ASSUME ~InOriginal(h, d)
      PROVE  Said(key) = Absent
  BY <1>4 DEF Said, f, h, d
<1>5. ASSUME InOriginal(h, d), d = 0
      PROVE  Said(key) \in Nat /\ f # "gate"
  <2>1. f = "ip" \/ f = "hostname"
    BY <1>1, <1>2, <1>5
  <2>2. original[h] \in HostEntries
    BY <1>5 DEF InOriginal
  <2>3. Said(key) = original[h][f]
    BY <1>5 DEF Said, f, h, d
  <2> QED  BY <2>1, <2>2, <2>3 DEF HostEntries
<1>6. ASSUME InOriginal(h, d), d # 0
      PROVE  Said(key) \in Optional /\ (f = "gate" => Said(key) \in {0, 1})
  <2>1. f \in {"name", "port", "gate", "relay", "opt"}
    BY <1>1, <1>3, <1>6
  <2> DEFINE dut == original[h].duts[d]
  <2>2. dut \in Entries
    <3>1. original[h] \in HostEntries /\ d \in DOMAIN original[h].duts
      BY <1>6 DEF InOriginal
    <3>2. original[h].duts \in Seq(Entries)
      BY <3>1 DEF HostEntries
    <3> QED  BY <3>1, <3>2
  <2>3. Said(key) = IF f # "gate" THEN dut[f] ELSE IF dut.relay = Absent THEN 0 ELSE 1
    BY <1>6 DEF Said, f, h, d
  <2> HIDE DEF dut
  <2>4. f # "gate" => dut[f] \in Optional
    BY <2>1, <2>2 DEF Entries, Optional
  <2> QED  BY <2>3, <2>4 DEF Optional
<1> QED
  BY <1>4, <1>5, <1>6 DEF Optional, f

\* rebuild: a buffer of a key that is shown stays, every other one goes.
LEMMA RebuildIs ==
    ASSUME original \in Seq(HostEntries), NEW shown, NEW vals, AreTexts(vals)
    PROVE  /\ ValuesFit(Rebuild(vals, shown), shown)
           /\ \A key \in DOMAIN vals \cap Keys(shown) :
                 key \in DOMAIN Rebuild(vals, shown) /\ Rebuild(vals, shown)[key] = vals[key]
<1> DEFINE filled(key) == IF key \in DOMAIN vals THEN vals[key]
                          ELSE IF Prefill(key) = Absent /\ key[1] = "gate" THEN 0
                          ELSE Prefill(key)
           new == Rebuild(vals, shown)
<1>1. /\ DOMAIN new = {key \in Keys(shown) : filled(key) # Absent}
      /\ \A key \in DOMAIN new : new[key] = filled(key)
  BY DEF Rebuild
<1>2. Absent \notin Nat
  BY DEF Absent
<1>3. ASSUME NEW key \in Keys(shown)
      PROVE  filled(key) \in Optional /\ (key[1] = "gate" => filled(key) # Absent)
  <2>1. Said(key) \in Optional /\ (key[1] = "gate" => Said(key) \in {0, 1, Absent})
    BY SaidIs
  <2>2. Prefill(key) \in Optional
    BY <2>1 DEF Prefill, Optional
  <2>3. key \in DOMAIN vals => vals[key] \in Nat
    BY DEF AreTexts
  <2> QED  BY <1>2, <2>2, <2>3 DEF Optional
<1>4. \A key \in DOMAIN vals \cap Keys(shown) : filled(key) = vals[key] /\ filled(key) # Absent
  BY <1>2 DEF AreTexts
<1> HIDE DEF filled, new
<1>5. AreTexts(new)
  BY <1>1, <1>3 DEF AreTexts, Optional
<1>6. ASSUME NEW h \in DOMAIN shown, NEW d \in 1 .. MaxDuts, <<"gate", h, d>> \in Keys(shown)
      PROVE  <<"gate", h, d>> \in DOMAIN new
  <2> DEFINE key == <<"gate", h, d>>
  <2>1. key[1] = "gate" /\ key \in Keys(shown)
    BY <1>6
  <2> HIDE DEF key
  <2>2. key \in DOMAIN new
    BY <1>1, <1>3, <2>1
  <2> QED  BY <2>2 DEF key
<1>7. ValuesFit(new, shown)
  BY <1>1, <1>5, <1>6 DEF ValuesFit
<1>8. \A key \in DOMAIN vals \cap Keys(shown) : key \in DOMAIN new /\ new[key] = vals[key]
  BY <1>1, <1>4
<1> QED
  BY <1>7, <1>8 DEF new

\* Buffers that move take another key with them, the others stay.
OneKeyEach(down, moved) == \A k, l \in moved : down[k] = down[l] => k = l

\* A moved buffer is found at its new key, and one that nothing lands on
\* where it was.
LEMMA RenumberIs ==
    ASSUME NEW vals, AreTexts(vals), NEW moves, NEW down, OneKeyEach(down, moves)
    PROVE  LET new == Renumber(vals, moves, down)
               moved == moves \cap DOMAIN vals
           IN  /\ AreTexts(new)
               /\ \A key \in moved : down[key] \in DOMAIN new /\ new[down[key]] = vals[key]
               /\ \A key \in DOMAIN vals \ moved :
                     (\A k \in moved : down[k] # key) => key \in DOMAIN new /\ new[key] = vals[key]
<1> DEFINE new == Renumber(vals, moves, down)
           moved == moves \cap DOMAIN vals
           landed == {down[key] : key \in moved}
           from(key) == CHOOSE k \in moved : down[k] = key
<1>1. /\ DOMAIN new = (DOMAIN vals \ moved) \cup landed
      /\ \A key \in DOMAIN new : new[key] = IF key \in landed THEN vals[from(key)] ELSE vals[key]
  BY DEF Renumber
<1>2. ASSUME NEW key \in landed PROVE from(key) \in moved /\ down[from(key)] = key
  OBVIOUS
<1>3. \A key \in landed : vals[from(key)] \in Nat
  BY <1>2 DEF AreTexts
<1>4. \A k, l \in moved : down[k] = down[l] => k = l
  BY DEF OneKeyEach
<1>5. \A key \in moved : down[key] \in landed /\ from(down[key]) = key
  BY <1>2, <1>4
<1>6. \A key : key \in landed <=> \E k \in moved : down[k] = key
  OBVIOUS
<1>7. moved \subseteq DOMAIN vals
  OBVIOUS
<1> HIDE DEF new, landed, moved, from
<1>8. AreTexts(new)
  BY <1>1, <1>3, <1>7 DEF AreTexts
<1>9. \A key \in moved : down[key] \in DOMAIN new /\ new[down[key]] = vals[key]
  BY <1>1, <1>5
<1>10. \A key \in DOMAIN vals \ moved :
          (\A k \in moved : down[k] # key) => key \in DOMAIN new /\ new[key] = vals[key]
  BY <1>1, <1>6
<1> QED
  BY <1>8, <1>9, <1>10 DEF new, moved

-----------------------------------------------------------------------------
(* Tabs that come and go.                                                  *)

\* What is left without the element at i.
LEMMA RemovedIs ==
    ASSUME NEW T, NEW s \in Seq(T), NEW i \in DOMAIN s
    PROVE  /\ RemoveAt(s, i) \in Seq(T) /\ Len(RemoveAt(s, i)) = Len(s) - 1
           /\ DOMAIN RemoveAt(s, i) = 1 .. Len(s) - 1
           /\ \A j \in 1 .. Len(s) - 1 : RemoveAt(s, i)[j] = s[IF j < i THEN j ELSE j + 1]
<1> DEFINE a == SubSeq(s, 1, i - 1)
           b == SubSeq(s, i + 1, Len(s))
<1>1. Len(s) \in Nat /\ i \in 1 .. Len(s)
  OBVIOUS
<1>2. a \in Seq(T) /\ Len(a) = i - 1 /\ \A j \in 1 .. i - 1 : a[j] = s[j]
  BY <1>1
<1>3. b \in Seq(T) /\ Len(b) = Len(s) - i /\ \A j \in 1 .. Len(s) - i : b[j] = s[i + j]
  BY <1>1
<1>4. RemoveAt(s, i) = a \o b
  BY DEF RemoveAt
<1> HIDE DEF a, b
<1>7. a \in Seq(T) /\ b \in Seq(T) /\ Len(a) = i - 1 /\ Len(b) = Len(s) - i
  BY <1>2, <1>3
<1>8. \A k \in 1 .. Len(b) : (a \o b)[Len(a) + k] = b[k]
  <2>1. a \in Seq(T) /\ b \in Seq(T)
    BY <1>7
  <2> QED  BY <2>1, ConcatAt
<1>5. a \o b \in Seq(T) /\ Len(a \o b) = Len(s) - 1
  BY <1>1, <1>2, <1>3
<1>6. ASSUME NEW j \in 1 .. Len(s) - 1
      PROVE  (a \o b)[j] = s[IF j < i THEN j ELSE j + 1]
  <2>1. CASE j < i
    BY <1>1, <1>2, <1>3, <2>1
  <2>2. CASE ~(j < i)
    <3>1. (a \o b)[j] = b[j - (i - 1)] /\ j - (i - 1) \in 1 .. Len(s) - i
      <4>1. PICK k \in Int : k = j - (i - 1)
        BY <1>1
      <4>2. k \in 1 .. Len(b) /\ j = Len(a) + k
        <5>1. i \in Int /\ j \in Int /\ Len(s) \in Int /\ j <= Len(s) - 1 /\ i <= j /\ i >= 1
          BY <1>1, <2>2
        <5>2. k >= 1 /\ k <= Len(s) - i /\ j = i - 1 + k
          BY <4>1, <5>1
        <5> QED  BY <1>7, <5>1, <5>2
      <4> QED  BY <1>7, <1>8, <4>1, <4>2
    <3>2. b[j - (i - 1)] = s[i + (j - (i - 1))] /\ i + (j - (i - 1)) = j + 1
      BY <1>1, <1>3, <3>1
    <3> QED  BY <2>2, <3>1, <3>2
  <2> QED  BY <2>1, <2>2
<1> QED
  BY <1>1, <1>4, <1>5, <1>6

\* A new identity is one that is not in use.
LEMMA NewIdIs ==
    ASSUME NEW used, IsFiniteSet(used), NEW file \in Nat
    PROVE  NewId(used, file) \in Nat /\ NewId(used, file) \notin used
<1> DEFINE I == file + 1 .. file + Cardinality(used) + 1
           S == I \ used
<1>1. Cardinality(used) \in Nat
  BY FS_CardinalityType
<1>2. Cardinality(I) = Cardinality(used) + 1
  <2> DEFINE a == file + 1
             b == file + Cardinality(used) + 1
  <2>1. a \in Int /\ b \in Int /\ ~(a > b) /\ b - a + 1 = Cardinality(used) + 1
    BY <1>1
  <2> HIDE DEF a, b
  <2>2. Cardinality(a .. b) = b - a + 1
    BY <2>1, FS_Interval
  <2> QED  BY <2>1, <2>2 DEF a, b
<1>3. S # {} /\ S \in SUBSET Nat
  <2>1. ~(I \in SUBSET used)
    <3>1. I \in SUBSET used => Cardinality(I) <= Cardinality(used)
      BY FS_Subset
    <3> QED  BY <1>1, <1>2, <3>1
  <2>2. I \subseteq Nat
    BY <1>1
  <2> QED  BY <2>1, <2>2
<1> HIDE DEF I
<1>4. PICK m \in S : \A y \in S : m <= y
  BY <1>3, LeastNatural
<1>5. Cardinality({y \in S : y < m}) = 1 - 1
  <2>1. {y \in S : y < m} = {}
    BY <1>3, <1>4
  <2> QED  BY <2>1, FS_EmptySet
<1>6. Nth(S, 1) \in S
  BY <1>4, <1>5 DEF Nth
<1> QED
  BY <1>3, <1>6 DEF NewId, I

\* A tab has an identity, and so has each of its DUTs.
LEMMA TabIs ==
    ASSUME NEW shown, TabsFit(shown), MaxDuts \in Nat, NEW h \in DOMAIN shown
    PROVE  /\ shown[h] \in HostTabs /\ shown[h].id \in Nat /\ shown[h].duts \in Seq(Nat)
           /\ Len(shown[h].duts) \in 0 .. MaxDuts
           /\ DOMAIN shown[h].duts = 1 .. Len(shown[h].duts)
           /\ DOMAIN shown[h].duts \subseteq 1 .. MaxDuts
           /\ h \in 1 .. Len(shown)
<1>1. shown[h] \in HostTabs /\ h \in 1 .. Len(shown) /\ Len(shown[h].duts) <= MaxDuts
  BY DEF TabsFit
<1>2. shown[h].id \in Nat /\ shown[h].duts \in Seq(Nat)
  BY <1>1 DEF HostTabs
<1> QED
  BY <1>1, <1>2

\* The identities in use are finitely many.
LEMMA IdsFinite ==
    ASSUME NEW shown, TabsFit(shown), MaxDuts \in Nat
    PROVE  IsFiniteSet(HostIds(shown)) /\ IsFiniteSet(DutIds(shown))
<1> DEFINE H == DOMAIN shown
           P == {spot \in H \X (1 .. MaxDuts) : spot[2] \in DOMAIN shown[spot[1]].duts}
           hosts == [h \in H |-> shown[h].id]
           duts == [spot \in P |-> shown[spot[1]].duts[spot[2]]]
<1>1. H = 1 .. Len(shown) /\ Len(shown) \in Nat
  BY DEF TabsFit
<1>2. IsFiniteSet(H)
  BY <1>1, FS_Interval
<1>3. IsFiniteSet(1 .. MaxDuts)
  BY FS_Interval
<1>4. IsFiniteSet(H \X (1 .. MaxDuts))
  BY <1>2, <1>3, FS_Product
<1>5. IsFiniteSet(P)
  <2>1. P \in SUBSET (H \X (1 .. MaxDuts))
    OBVIOUS
  <2> QED  BY <1>4, <2>1, FS_Subset
<1>6. hosts \in Surjection(H, HostIds(shown))
  BY DEF HostIds, Surjection
<1>7. duts \in Surjection(P, DutIds(shown))
  <2>1. ASSUME NEW h \in H, NEW d \in DOMAIN shown[h].duts
        PROVE  <<h, d>> \in P /\ duts[<<h, d>>] = shown[h].duts[d]
    <3>1. d \in 1 .. MaxDuts
      BY TabIs
    <3> QED  BY <3>1
  <2>2. \A id \in DutIds(shown) : \E h \in H : \E d \in DOMAIN shown[h].duts : id = shown[h].duts[d]
    BY DEF DutIds, Range
  <2>3. \A spot \in P : duts[spot] \in DutIds(shown)
    BY DEF DutIds, Range
  <2>4. duts \in [P -> DutIds(shown)]
    BY <2>3
  <2> HIDE DEF duts
  <2>5. ASSUME NEW id \in DutIds(shown) PROVE \E spot \in P : duts[spot] = id
    <3>1. PICK h \in H : \E d \in DOMAIN shown[h].duts : id = shown[h].duts[d]
      BY <2>2
    <3>2. PICK d \in DOMAIN shown[h].duts : id = shown[h].duts[d]
      BY <3>1
    <3> QED  BY <2>1, <3>2
  <2> HIDE DEF P
  <2> QED  BY <2>4, <2>5 DEF Surjection
<1> HIDE DEF H, P, hosts, duts
<1> QED
  BY <1>2, <1>5, <1>6, <1>7, FS_Surjection

\* The identities in use are those of the tabs.
LEMMA IdsAre ==
    ASSUME NEW shown
    PROVE  /\ \A h \in DOMAIN shown : shown[h].id \in HostIds(shown)
           /\ \A h \in DOMAIN shown : \A d \in DOMAIN shown[h].duts :
                 shown[h].duts[d] \in DutIds(shown)
           /\ \A id \in HostIds(shown) : \E h \in DOMAIN shown : shown[h].id = id
           /\ \A id \in DutIds(shown) : \E h \in DOMAIN shown : \E d \in DOMAIN shown[h].duts :
                 shown[h].duts[d] = id
BY DEF HostIds, DutIds, Range

\* A tab of a host that is added.
LEMMA HostAdded ==
    ASSUME TabsFit(tabs), Len(tabs) < MaxHosts, MaxDuts \in Nat, MaxDuts >= 1,
           NEW tab \in HostTabs, tab.id \notin HostIds(tabs),
           Len(tab.duts) = 1, tab.duts[1] \notin DutIds(tabs),
           NEW new, new = Append(tabs, tab), MaxHosts \in Nat
    PROVE  /\ TabsFit(new)
           /\ \A h \in DOMAIN tabs : h \in DOMAIN new /\ new[h] = tabs[h]
<1> DEFINE n == Len(tabs)
           dut == tab.duts[1]
<1>1. tabs \in Seq(HostTabs) /\ n \in Nat /\ DOMAIN tabs = 1 .. n
  BY DEF TabsFit
<1>2. DOMAIN tab.duts = {1} /\ tab.duts[1] = dut
  <2>1. tab.duts \in Seq(Nat)
    BY DEF HostTabs
  <2> QED  BY <2>1
<1>3. new = Append(tabs, tab)
  OBVIOUS
<1> HIDE DEF dut
<1>4. /\ new \in Seq(HostTabs) /\ Len(new) = n + 1 /\ DOMAIN new = 1 .. n + 1
      /\ new[n + 1] = tab /\ \A h \in 1 .. n : new[h] = tabs[h]
  BY <1>1, <1>2, <1>3
<1> HIDE DEF n
<1>5. \A h \in DOMAIN new : h \in DOMAIN tabs \/ h = n + 1
  BY <1>1, <1>4
<1>6. OneTabEach(tabs) /\ n + 1 \notin DOMAIN tabs
  BY <1>1 DEF TabsFit
<1>7. \A g, h \in DOMAIN new : new[g].id = new[h].id => g = h
  <2> SUFFICES ASSUME NEW g \in DOMAIN new, NEW h \in DOMAIN new, new[g].id = new[h].id
               PROVE  g = h
    OBVIOUS
  <2>1. CASE g \in DOMAIN tabs /\ h \in DOMAIN tabs
    BY <1>1, <1>4, <1>6, <2>1 DEF OneTabEach
  <2>2. CASE g = n + 1 /\ h \in DOMAIN tabs
    BY <1>1, <1>2, <1>4, <2>2, IdsAre
  <2>3. CASE g \in DOMAIN tabs /\ h = n + 1
    BY <1>1, <1>2, <1>4, <2>3, IdsAre
  <2> QED  BY <1>5, <2>1, <2>2, <2>3
<1>8. ASSUME NEW g \in DOMAIN new, NEW h \in DOMAIN new,
             NEW c \in DOMAIN new[g].duts, NEW d \in DOMAIN new[h].duts,
             new[g].duts[c] = new[h].duts[d]
      PROVE  g = h /\ c = d
  <2>1. CASE g \in DOMAIN tabs /\ h \in DOMAIN tabs
    BY <1>1, <1>4, <1>6, <1>8, <2>1 DEF OneTabEach
  <2>2. CASE g = n + 1 /\ h \in DOMAIN tabs
    <3>1. c \in {1} /\ new[g].duts[c] = dut
      BY <1>2, <1>4, <2>2
    <3>2. d \in DOMAIN tabs[h].duts /\ new[h].duts[d] = tabs[h].duts[d]
      BY <1>1, <1>4, <2>2
    <3>3. new[h].duts[d] \in DutIds(tabs) /\ dut \notin DutIds(tabs)
      BY <1>2, <3>2, IdsAre, <2>2
    <3> QED  BY <1>8, <3>1, <3>3
  <2>3. CASE g \in DOMAIN tabs /\ h = n + 1
    <3>1. d \in {1} /\ new[h].duts[d] = dut
      BY <1>2, <1>4, <2>3
    <3>2. c \in DOMAIN tabs[g].duts /\ new[g].duts[c] = tabs[g].duts[c]
      BY <1>1, <1>4, <2>3
    <3>3. new[g].duts[c] \in DutIds(tabs) /\ dut \notin DutIds(tabs)
      BY <1>2, <3>2, IdsAre, <2>3
    <3> QED  BY <1>8, <3>1, <3>3
  <2>4. CASE g = n + 1 /\ h = n + 1
    BY <1>2, <1>4, <2>4
  <2> QED  BY <1>5, <2>1, <2>2, <2>3, <2>4
<1>9. Len(new) <= MaxHosts
  BY <1>1, <1>4 DEF n
<1>10. \A h \in DOMAIN new : Len(new[h].duts) <= MaxDuts
  BY <1>1, <1>2, <1>4, <1>5, TabIs DEF TabsFit
<1> QED
  BY <1>1, <1>4, <1>7, <1>8, <1>9, <1>10 DEF TabsFit, OneTabEach

\* The place before that of a tab that is left when i goes.
Before(j, i) == IF j < i THEN j ELSE j + 1

\* The tab of a host that is removed.
LEMMA HostGone ==
    ASSUME TabsFit(tabs), MaxHosts \in Nat, NEW i \in DOMAIN tabs, NEW new, new = RemoveAt(tabs, i)
    PROVE  /\ TabsFit(new)
           /\ \A h \in DOMAIN new : Before(h, i) \in DOMAIN tabs /\ new[h] = tabs[Before(h, i)]
<1> DEFINE n == Len(tabs)
<1>1. tabs \in Seq(HostTabs) /\ n \in Nat /\ DOMAIN tabs = 1 .. n /\ i \in 1 .. n
  BY DEF TabsFit
<1>2. /\ new \in Seq(HostTabs) /\ Len(new) = n - 1 /\ DOMAIN new = 1 .. n - 1
      /\ \A h \in 1 .. n - 1 : new[h] = tabs[Before(h, i)]
  BY <1>1, RemovedIs DEF Before
<1> HIDE DEF n
<1>3. \A h \in DOMAIN new : Before(h, i) \in DOMAIN tabs
  BY <1>1, <1>2 DEF Before
<1>4. \A g, h \in DOMAIN new : Before(g, i) = Before(h, i) => g = h
  BY <1>1, <1>2 DEF Before
<1>5. OneTabEach(tabs) /\ \A h \in DOMAIN tabs : Len(tabs[h].duts) <= MaxDuts
  BY DEF TabsFit
<1>6. Len(new) <= MaxHosts
  BY <1>1, <1>2 DEF TabsFit, n
<1>7. \A h \in DOMAIN new : new[h] = tabs[Before(h, i)]
  BY <1>2
<1>8. \A g, h \in DOMAIN new : new[g].id = new[h].id => g = h
  BY <1>3, <1>4, <1>5, <1>7 DEF OneTabEach
<1>9. \A g, h \in DOMAIN new : \A c \in DOMAIN new[g].duts, d \in DOMAIN new[h].duts :
          new[g].duts[c] = new[h].duts[d] => g = h /\ c = d
  BY <1>3, <1>4, <1>5, <1>7 DEF OneTabEach
<1> QED
  BY <1>2, <1>3, <1>5, <1>6, <1>7, <1>8, <1>9 DEF TabsFit, OneTabEach

\* DUTs that could be those of host h.
CouldBe(duts, h) ==
    /\ duts \in Seq(Nat) /\ Len(duts) <= MaxDuts
    /\ \A c, d \in DOMAIN duts : duts[c] = duts[d] => c = d
    /\ \A g \in DOMAIN tabs \ {h} : \A c \in DOMAIN tabs[g].duts, d \in DOMAIN duts :
          tabs[g].duts[c] # duts[d]

WithDuts(duts, h) == [tabs EXCEPT ![h].duts = duts]

\* The list of DUTs of one host that is exchanged for another one.
LEMMA DutsExchanged ==
    ASSUME TabsFit(tabs), MaxDuts \in Nat, NEW h \in DOMAIN tabs,
           NEW duts, CouldBe(duts, h), NEW new, new = WithDuts(duts, h)
    PROVE  /\ TabsFit(new) /\ DOMAIN new = DOMAIN tabs /\ new[h].duts = duts
           /\ \A g \in DOMAIN tabs : new[g].id = tabs[g].id
           /\ \A g \in DOMAIN tabs \ {h} : new[g] = tabs[g]
<1>1. tabs \in Seq(HostTabs) /\ OneTabEach(tabs) /\ Len(tabs) <= MaxHosts
      /\ \A g \in DOMAIN tabs : Len(tabs[g].duts) <= MaxDuts
  BY DEF TabsFit
<1>2. tabs[h] \in HostTabs
  BY TabIs
<1>10. /\ duts \in Seq(Nat) /\ Len(duts) <= MaxDuts
       /\ \A c, d \in DOMAIN duts : duts[c] = duts[d] => c = d
       /\ \A g \in DOMAIN tabs \ {h} : \A c \in DOMAIN tabs[g].duts, d \in DOMAIN duts :
             tabs[g].duts[c] # duts[d]
  BY DEF CouldBe
<1> DEFINE tab == [tabs[h] EXCEPT !.duts = duts]
<1>3. tab \in HostTabs /\ tab.id = tabs[h].id /\ tab.duts = duts
  BY <1>2, <1>10 DEF HostTabs
<1>4. new = [tabs EXCEPT ![h] = tab]
  BY DEF WithDuts
<1> HIDE DEF tab
<1>5. /\ new \in Seq(HostTabs) /\ DOMAIN new = DOMAIN tabs /\ Len(new) = Len(tabs)
      /\ new[h] = tab /\ \A g \in DOMAIN tabs \ {h} : new[g] = tabs[g]
  <2>1. tabs \in [1 .. Len(tabs) -> HostTabs] /\ h \in 1 .. Len(tabs) /\ Len(tabs) \in Nat
    BY <1>1
  <2>2. new \in [1 .. Len(tabs) -> HostTabs]
    BY <1>3, <1>4, <2>1
  <2>3. new \in Seq(HostTabs) /\ Len(new) = Len(tabs)
    BY <2>1, <2>2
  <2> QED  BY <1>3, <1>4, <2>1, <2>3
<1>6. \A g \in DOMAIN tabs : new[g].id = tabs[g].id
  BY <1>3, <1>5
<1>7. \A g, k \in DOMAIN new : new[g].id = new[k].id => g = k
  BY <1>1, <1>5, <1>6 DEF OneTabEach
<1>8. ASSUME NEW g \in DOMAIN new, NEW k \in DOMAIN new,
             NEW c \in DOMAIN new[g].duts, NEW d \in DOMAIN new[k].duts,
             new[g].duts[c] = new[k].duts[d]
      PROVE  g = k /\ c = d
  <2>1. CASE g # h /\ k # h
    BY <1>1, <1>5, <1>8, <2>1 DEF OneTabEach
  <2>2. CASE g = h /\ k # h
    <3>1. k \in DOMAIN tabs \ {h} /\ d \in DOMAIN tabs[k].duts /\ c \in DOMAIN duts
      BY <1>3, <1>5, <2>2
    <3>2. tabs[k].duts[d] = duts[c]
      BY <1>3, <1>5, <1>8, <2>2
    <3> QED  BY <1>10, <3>1, <3>2
  <2>3. CASE g # h /\ k = h
    <3>1. g \in DOMAIN tabs \ {h} /\ c \in DOMAIN tabs[g].duts /\ d \in DOMAIN duts
      BY <1>3, <1>5, <2>3
    <3>2. tabs[g].duts[c] = duts[d]
      BY <1>3, <1>5, <1>8, <2>3
    <3> QED  BY <1>10, <3>1, <3>2
  <2>4. CASE g = h /\ k = h
    BY <1>3, <1>5, <1>8, <1>10, <2>4
  <2> QED  BY <2>1, <2>2, <2>3, <2>4
<1>9. \A g \in DOMAIN new : Len(new[g].duts) <= MaxDuts
  BY <1>1, <1>3, <1>5, <1>10
<1> QED
  BY <1>1, <1>3, <1>5, <1>6, <1>7, <1>8, <1>9 DEF TabsFit, OneTabEach

-----------------------------------------------------------------------------
(* Texts that follow their tabs.                                           *)

\* What the buffer of one place says, that of the other one says after it.
TakenOver(f, g, c, h, d, news) ==
    <<f, g, c>> \in DOMAIN values =>
        <<f, h, d>> \in DOMAIN news /\ news[<<f, h, d>>] = values[<<f, g, c>>]

HostsFollow(new, news) ==
    \A g \in DOMAIN tabs, h \in DOMAIN new :
        tabs[g].id = new[h].id => TakenOver("ip", g, 0, h, 0, news)

DutsFollow(new, news) ==
    \A g \in DOMAIN tabs, h \in DOMAIN new :
        \A c \in DOMAIN tabs[g].duts, d \in DOMAIN new[h].duts :
            tabs[g].duts[c] = new[h].duts[d] =>
                \A f \in DutFields : TakenOver(f, g, c, h, d, news)

\* A tab whose buffers are all taken over keeps what it holds.
LEMMA HoldsKept ==
    ASSUME NEW fields, NEW g, NEW c, NEW h, NEW d, NEW news,
           \A f \in fields : TakenOver(f, g, c, h, d, news)
    PROVE  Keeps(Holds(values, fields, g, c), Holds(news, fields, h, d))
<1> DEFINE old == Holds(values, fields, g, c)
           new == Holds(news, fields, h, d)
<1>1. /\ DOMAIN old = {f \in fields : <<f, g, c>> \in DOMAIN values}
      /\ \A f \in DOMAIN old : old[f] = values[<<f, g, c>>]
      /\ old = [f \in DOMAIN old |-> old[f]]
  BY DEF Holds
<1>2. /\ DOMAIN new = {f \in fields : <<f, h, d>> \in DOMAIN news}
      /\ \A f \in DOMAIN new : new[f] = news[<<f, h, d>>]
  BY DEF Holds
<1> HIDE DEF old, new
<1>3. DOMAIN old \cap DOMAIN new = DOMAIN old /\ \A f \in DOMAIN old : new[f] = old[f]
  BY <1>1, <1>2 DEF TakenOver
<1>4. Restrict(new, DOMAIN old) = old
  BY <1>1, <1>3 DEF Restrict
<1> QED
  BY <1>3, <1>4 DEF Keeps, old, new

\* An identity has one place.
LEMMA PlacesAre ==
    ASSUME NEW shown, TabsFit(shown), MaxDuts \in Nat, NEW h \in DOMAIN shown
    PROVE  /\ HostAt(shown, shown[h].id) = h
           /\ \A d \in DOMAIN shown[h].duts : DutAt(shown, shown[h].duts[d]) = <<h, d>>
<1>1. OneTabEach(shown)
  BY DEF TabsFit
<1>2. HostAt(shown, shown[h].id) = h
  BY <1>1 DEF OneTabEach, HostAt
<1>3. ASSUME NEW d \in DOMAIN shown[h].duts
      PROVE  DutAt(shown, shown[h].duts[d]) = <<h, d>>
  <2> DEFINE S == (DOMAIN shown) \X (1 .. MaxDuts)
             Is(spot) == /\ spot[2] \in DOMAIN shown[spot[1]].duts
                         /\ shown[spot[1]].duts[spot[2]] = shown[h].duts[d]
  <2>1. d \in 1 .. MaxDuts
    BY TabIs
  <2>2. <<h, d>> \in S /\ Is(<<h, d>>)
    BY <2>1
  <2>3. \A spot \in S : Is(spot) => spot = <<h, d>>
    BY <1>1 DEF OneTabEach
  <2>4. DutAt(shown, shown[h].duts[d]) = CHOOSE spot \in S : Is(spot)
    BY DEF DutAt
  <2> HIDE DEF S, Is
  <2> QED  BY <2>2, <2>3, <2>4
<1> QED
  BY <1>2, <1>3

\* The tabs that stay keep the texts they held.
TextsFollow(new, news) ==
    /\ \A id \in HostIds(tabs) \cap HostIds(new) :
          Keeps(HostHolds(tabs, values, {"ip"}, id), HostHolds(new, news, {"ip"}, id))
    /\ \A id \in DutIds(tabs) \cap DutIds(new) :
          Keeps(DutHolds(tabs, values, id), DutHolds(new, news, id))

\* Tabs whose buffers are taken over keep their texts.
LEMMA FollowIs ==
    ASSUME TabsFit(tabs), NEW new, TabsFit(new), MaxDuts \in Nat, NEW news,
           HostsFollow(new, news), DutsFollow(new, news)
    PROVE  TextsFollow(new, news)
<1>1. ASSUME NEW id \in HostIds(tabs) \cap HostIds(new)
      PROVE  Keeps(HostHolds(tabs, values, {"ip"}, id), HostHolds(new, news, {"ip"}, id))
  <2>1. PICK g \in DOMAIN tabs : tabs[g].id = id
    BY IdsAre
  <2>2. PICK h \in DOMAIN new : new[h].id = id
    BY IdsAre
  <2>3. HostAt(tabs, id) = g /\ HostAt(new, id) = h
    BY <2>1, <2>2, PlacesAre
  <2>4. \A f \in {"ip"} : TakenOver(f, g, 0, h, 0, news)
    BY <2>1, <2>2 DEF HostsFollow
  <2> QED  BY <2>3, <2>4, HoldsKept DEF HostHolds
<1>2. ASSUME NEW id \in DutIds(tabs) \cap DutIds(new)
      PROVE  Keeps(DutHolds(tabs, values, id), DutHolds(new, news, id))
  <2>1. PICK g \in DOMAIN tabs : \E c \in DOMAIN tabs[g].duts : tabs[g].duts[c] = id
    BY IdsAre
  <2>2. PICK c \in DOMAIN tabs[g].duts : tabs[g].duts[c] = id
    BY <2>1
  <2>3. PICK h \in DOMAIN new : \E d \in DOMAIN new[h].duts : new[h].duts[d] = id
    BY IdsAre
  <2>4. PICK d \in DOMAIN new[h].duts : new[h].duts[d] = id
    BY <2>3
  <2>5. DutAt(tabs, id) = <<g, c>> /\ DutAt(new, id) = <<h, d>>
    BY <2>2, <2>4, PlacesAre
  <2>6. \A f \in DutFields : TakenOver(f, g, c, h, d, news)
    BY <2>2, <2>4 DEF DutsFollow
  <2> QED  BY <2>5, <2>6, HoldsKept DEF DutHolds
<1> QED
  BY <1>1, <1>2 DEF TextsFollow

\* rebuild keeps what was taken over.
LEMMA RebuiltFollows ==
    ASSUME original \in Seq(HostEntries), NEW new, TabsFit(new), MaxDuts \in Nat,
           NEW vals, AreTexts(vals), HostsFollow(new, vals), DutsFollow(new, vals)
    PROVE  HostsFollow(new, Rebuild(vals, new)) /\ DutsFollow(new, Rebuild(vals, new))
<1> DEFINE news == Rebuild(vals, new)
<1>1. \A key \in DOMAIN vals \cap Keys(new) : key \in DOMAIN news /\ news[key] = vals[key]
  BY RebuildIs
<1> HIDE DEF news
<1>2. \A h \in DOMAIN new : <<"ip", h, 0>> \in Keys(new)
  BY KeysAre DEF KeyOf, HostFields
<1>3. \A h \in DOMAIN new : \A d \in DOMAIN new[h].duts : \A f \in DutFields :
          <<f, h, d>> \in Keys(new)
  <2> SUFFICES ASSUME NEW h \in DOMAIN new, NEW d \in DOMAIN new[h].duts, NEW f \in DutFields
               PROVE  <<f, h, d>> \in Keys(new)
    OBVIOUS
  <2>1. d \in 1 .. MaxDuts
    BY TabIs
  <2> QED  BY <2>1, KeysAre DEF KeyOf
<1>4. HostsFollow(new, news)
  BY <1>1, <1>2 DEF HostsFollow, TakenOver
<1>5. DutsFollow(new, news)
  <2> SUFFICES ASSUME NEW g \in DOMAIN tabs, NEW h \in DOMAIN new,
                      NEW c \in DOMAIN tabs[g].duts, NEW d \in DOMAIN new[h].duts,
                      tabs[g].duts[c] = new[h].duts[d], NEW f \in DutFields
               PROVE  TakenOver(f, g, c, h, d, news)
    BY DEF DutsFollow
  <2>1. TakenOver(f, g, c, h, d, vals)
    BY DEF DutsFollow
  <2>2. <<f, h, d>> \in Keys(new)
    BY <1>3
  <2> QED  BY <1>1, <2>1, <2>2 DEF TakenOver
<1> QED
  BY <1>4, <1>5 DEF news

\* Tabs that come or go, with buffers that were taken over.
LEMMA RetabKeeps ==
    ASSUME FormAssumption, FormInv, NEW new, TabsFit(new), NEW vals, AreTexts(vals),
           HostsFollow(new, vals), DutsFollow(new, vals), Retab(new, vals)
    PROVE  FormInv' /\ TextsFollow(tabs', values')
<1>1. MaxDuts \in Nat /\ MaxTabs \in Nat
  BY DEF FormAssumption
<1>2. /\ tabs' = new /\ values' = Rebuild(vals, new)
      /\ original' = original /\ created' = created /\ saves' = saves
      /\ edits.tabs < MaxTabs /\ edits' = [edits EXCEPT !.tabs = @ + 1]
  BY DEF Retab
<1>3. original \in Seq(HostEntries)
  BY DEF FormInv
<1>4. ValuesFit(values', tabs')
  BY <1>2, <1>3, RebuildIs
<1>5. TextsFollow(tabs', values')
  <2> DEFINE news == Rebuild(vals, new)
  <2>1. HostsFollow(new, news) /\ DutsFollow(new, news)
    BY <1>1, <1>3, RebuiltFollows
  <2> HIDE DEF news
  <2>2. TextsFollow(new, news)
    BY <1>1, <2>1, FollowIs DEF FormInv
  <2> QED  BY <1>2, <2>2 DEF news
<1>6. edits' \in [tabs : 0 .. MaxTabs, typed : 0 .. MaxTyped]
  BY <1>1, <1>2 DEF FormInv
<1>7. OriginalNames' = OriginalNames
  BY <1>2 DEF OriginalNames, DutsOf
<1> QED
  BY <1>2, <1>4, <1>5, <1>6, <1>7 DEF FormInv

\* The identities of new tabs.
LEMMA NewTabs ==
    ASSUME FormAssumption, FormInv
    PROVE  /\ NewDut \in Nat /\ NewDut \notin DutIds(tabs)
           /\ NewHost.id \in Nat /\ NewHost.id \notin HostIds(tabs)
           /\ NewHost = [id |-> NewHost.id, duts |-> <<NewDut>>]
<1>1. IsFiniteSet(HostIds(tabs)) /\ IsFiniteSet(DutIds(tabs))
  BY IdsFinite DEF FormInv, FormAssumption
<1>2. Len(original) \in Nat /\ Cardinality(OriginalNames) \in Nat
  BY FS_CardinalityType DEF FormInv
<1>3. NewDut \in Nat /\ NewDut \notin DutIds(tabs)
  BY <1>1, <1>2, NewIdIs DEF NewDut
<1>4. NewHost = [id |-> NewId(HostIds(tabs), Len(original)), duts |-> <<NewDut>>]
  BY DEF NewHost, NewDut
<1>5. NewHost.id \in Nat /\ NewHost.id \notin HostIds(tabs)
  BY <1>1, <1>2, <1>4, NewIdIs
<1> QED
  BY <1>3, <1>4, <1>5

\* A host is added.
LEMMA AddHostKeeps ==
    ASSUME FormAssumption, FormInv, AddHost
    PROVE  FormInv' /\ TextsFollow(tabs', values')
<1> DEFINE new == Append(tabs, NewHost)
<1>1. TabsFit(tabs) /\ AreTexts(values) /\ MaxDuts \in Nat /\ MaxHosts \in Nat /\ MaxDuts >= 1
  BY DEF FormInv, FormAssumption, ValuesFit
<1>2. Len(tabs) < MaxHosts /\ Retab(new, values)
  BY DEF AddHost
<1>3. new = Append(tabs, [id |-> NewHost.id, duts |-> <<NewDut>>])
  BY NewTabs
<1> HIDE DEF new
<1>4. TabsFit(new) /\ \A h \in DOMAIN tabs : h \in DOMAIN new /\ new[h] = tabs[h]
  <2> DEFINE tab == [id |-> NewHost.id, duts |-> <<NewDut>>]
  <2>1. /\ tab \in HostTabs /\ tab.id \notin HostIds(tabs)
        /\ Len(tab.duts) = 1 /\ tab.duts[1] \notin DutIds(tabs)
    BY NewTabs DEF HostTabs
  <2>2. new = Append(tabs, tab)
    BY <1>3
  <2> HIDE DEF tab
  <2> QED  BY <1>1, <1>2, <2>1, <2>2, HostAdded
<1>5. OneTabEach(new)
  BY <1>4 DEF TabsFit
<1>6. HostsFollow(new, values)
  BY <1>4, <1>5 DEF HostsFollow, OneTabEach, TakenOver
<1>7. DutsFollow(new, values)
  BY <1>4, <1>5 DEF DutsFollow, OneTabEach, TakenOver
<1> QED
  BY <1>1, <1>2, <1>4, <1>6, <1>7, RetabKeeps

\* Buffers that move stay apart.
LEMMA HostsMoveApart ==
    ASSUME FormInv, NEW i
    PROVE  OneKeyEach(HostDown, HostsAbove(i))
<1>1. \A k \in Keys(tabs) : k = <<k[1], k[2], k[3]>> /\ k[2] \in Nat
  <2>1. \A k \in Keys(tabs) : k = <<k[1], k[2], k[3]>> /\ k[2] \in DOMAIN tabs
    BY KeysAre DEF KeyOf
  <2>2. DOMAIN tabs \subseteq Nat
    BY DEF FormInv, TabsFit
  <2> QED  BY <2>1, <2>2
<1>2. \A k \in HostsAbove(i) : k \in Keys(tabs) /\ HostDown[k] = <<k[1], k[2] - 1, k[3]>>
  BY DEF HostsAbove, HostDown
<1> SUFFICES ASSUME NEW k \in HostsAbove(i), NEW l \in HostsAbove(i), HostDown[k] = HostDown[l]
             PROVE  k = l
  BY DEF OneKeyEach
<1>3. k[1] = l[1] /\ k[2] - 1 = l[2] - 1 /\ k[3] = l[3]
  BY <1>2
<1> QED
  BY <1>1, <1>2, <1>3

\* The same for the DUTs of a host.
LEMMA DutsMoveApart ==
    ASSUME NEW h, NEW i, MaxDuts \in Nat
    PROVE  OneKeyEach(DutDown, DutsAbove(h, i))
<1>1. \A k \in Keys(tabs) : k = <<k[1], k[2], k[3]>> /\ k[3] \in Nat
  <2>1. \A k \in Keys(tabs) : k = <<k[1], k[2], k[3]>> /\ (k[3] = 0 \/ k[3] \in 1 .. MaxDuts)
    BY KeysAre DEF KeyOf
  <2> QED  BY <2>1
<1>2. \A k \in DutsAbove(h, i) : k \in Keys(tabs) /\ DutDown[k] = <<k[1], k[2], k[3] - 1>>
  BY DEF DutsAbove, DutDown
<1> SUFFICES ASSUME NEW k \in DutsAbove(h, i), NEW l \in DutsAbove(h, i), DutDown[k] = DutDown[l]
             PROVE  k = l
  BY DEF OneKeyEach
<1>3. k[1] = l[1] /\ k[2] = l[2] /\ k[3] - 1 = l[3] - 1
  BY <1>2
<1> QED
  BY <1>1, <1>2, <1>3

\* A buffer of a host above the one that goes takes the place below, the
\* others stay where they are.
LEMMA HostTaken ==
    ASSUME FormInv, NEW i \in DOMAIN tabs, NEW h \in Nat, NEW f, f # "hostname", NEW c
    PROVE  TakenOver(f, Before(h, i), c, h, c, RenumberHosts(i))
<1> DEFINE from == <<f, Before(h, i), c>>
           key == <<f, h, c>>
           new == Renumber(values, HostsAbove(i), HostDown)
<1>1. i \in Nat /\ TabsFit(tabs)
  BY DEF FormInv, TabsFit
<1>2. \A k \in Keys(tabs) : k = <<k[1], k[2], k[3]>> /\ k[2] \in Nat
  <2>1. \A k \in Keys(tabs) : k = <<k[1], k[2], k[3]>> /\ k[2] \in DOMAIN tabs
    BY KeysAre DEF KeyOf
  <2>2. DOMAIN tabs \subseteq Nat
    BY <1>1 DEF TabsFit
  <2> QED  BY <2>1, <2>2
<1>3. \A k \in HostsAbove(i) : k \in Keys(tabs) /\ HostDown[k] = <<k[1], k[2] - 1, k[3]>>
  BY DEF HostsAbove, HostDown
<1>4. OneKeyEach(HostDown, HostsAbove(i))
  BY HostsMoveApart
<1>5. AreTexts(values) /\ DOMAIN values \subseteq Keys(tabs)
  BY DEF FormInv, ValuesFit
<1>6. /\ \A k \in HostsAbove(i) \cap DOMAIN values :
            HostDown[k] \in DOMAIN new /\ new[HostDown[k]] = values[k]
      /\ \A k \in DOMAIN values \ HostsAbove(i) :
            (\A l \in HostsAbove(i) \cap DOMAIN values : HostDown[l] # k)
               => k \in DOMAIN new /\ new[k] = values[k]
  <2>1. OneKeyEach(HostDown, HostsAbove(i) \cap DOMAIN values)
    BY <1>4 DEF OneKeyEach
  <2> QED  BY <1>4, <1>5, <2>1, RenumberIs
<1> HIDE DEF new
<1>7. ASSUME from \in DOMAIN values
      PROVE  key \in DOMAIN new /\ new[key] = values[from]
  <2>1. CASE h < i
    <3>1. from = key /\ key \notin HostsAbove(i)
      BY <1>1, <2>1 DEF Before, HostsAbove
    <3>2. \A l \in HostsAbove(i) : HostDown[l] # key
      <4> SUFFICES ASSUME NEW l \in HostsAbove(i), HostDown[l] = key
                   PROVE  FALSE
        OBVIOUS
      <4>1. l[2] - 1 = h /\ l[2] > i /\ l[2] \in Nat
        BY <1>2, <1>3 DEF HostsAbove
      <4> QED  BY <1>1, <2>1, <4>1
    <3> QED  BY <1>6, <1>7, <3>1, <3>2
  <2>2. CASE ~(h < i)
    <3>1. from = <<f, h + 1, c>> /\ h + 1 > i
      BY <1>1, <2>2 DEF Before
    <3>2. from \in HostsAbove(i)
      BY <1>5, <1>7, <3>1 DEF HostsAbove
    <3>3. HostDown[from] = key
      BY <1>3, <3>1, <3>2
    <3> QED  BY <1>6, <1>7, <3>2, <3>3
  <2> QED  BY <2>1, <2>2
<1> QED
  BY <1>7 DEF TakenOver, RenumberHosts, new

\* The same for the DUTs of a host.
LEMMA DutTaken ==
    ASSUME FormInv, NEW h \in DOMAIN tabs, NEW i \in DOMAIN tabs[h].duts, MaxDuts \in Nat, NEW f,
           NEW g \in DOMAIN tabs, NEW d \in Nat
    PROVE  TakenOver(f, g, IF g = h /\ d >= i THEN d + 1 ELSE d, g, d, RenumberDuts(h, i))
<1> DEFINE c == IF g = h /\ d >= i THEN d + 1 ELSE d
           from == <<f, g, c>>
           key == <<f, g, d>>
           new == Renumber(values, DutsAbove(h, i), DutDown)
<1>1. i \in Nat
  BY TabIs DEF FormInv
<1>2. \A k \in Keys(tabs) : k = <<k[1], k[2], k[3]>> /\ k[3] \in Nat
  <2>1. \A k \in Keys(tabs) : k = <<k[1], k[2], k[3]>> /\ (k[3] = 0 \/ k[3] \in 1 .. MaxDuts)
    BY KeysAre DEF KeyOf
  <2> QED  BY <2>1
<1>3. \A k \in DutsAbove(h, i) : k \in Keys(tabs) /\ DutDown[k] = <<k[1], k[2], k[3] - 1>>
  BY DEF DutsAbove, DutDown
<1>4. OneKeyEach(DutDown, DutsAbove(h, i))
  BY DutsMoveApart
<1>5. AreTexts(values) /\ DOMAIN values \subseteq Keys(tabs)
  BY DEF FormInv, ValuesFit
<1>6. /\ \A k \in DutsAbove(h, i) \cap DOMAIN values :
            DutDown[k] \in DOMAIN new /\ new[DutDown[k]] = values[k]
      /\ \A k \in DOMAIN values \ DutsAbove(h, i) :
            (\A l \in DutsAbove(h, i) \cap DOMAIN values : DutDown[l] # k)
               => k \in DOMAIN new /\ new[k] = values[k]
  BY <1>4, <1>5, RenumberIs
<1> HIDE DEF new
<1>7. ASSUME from \in DOMAIN values
      PROVE  key \in DOMAIN new /\ new[key] = values[from]
  <2>1. CASE ~(g = h /\ d >= i)
    <3>1. from = key /\ key \notin DutsAbove(h, i)
      BY <1>1, <2>1 DEF DutsAbove
    <3>2. \A l \in DutsAbove(h, i) : DutDown[l] # key
      <4> SUFFICES ASSUME NEW l \in DutsAbove(h, i), DutDown[l] = key
                   PROVE  FALSE
        OBVIOUS
      <4>1. l[2] = g /\ l[2] = h /\ l[3] - 1 = d /\ l[3] > i /\ l[3] \in Nat
        BY <1>2, <1>3 DEF DutsAbove
      <4> QED  BY <1>1, <2>1, <4>1
    <3> QED  BY <1>6, <1>7, <3>1, <3>2
  <2>2. CASE g = h /\ d >= i
    <3>1. from = <<f, h, d + 1>> /\ d + 1 > i
      BY <1>1, <2>2
    <3>2. from \in DutsAbove(h, i)
      BY <1>5, <1>7, <3>1 DEF DutsAbove
    <3>3. DutDown[from] = key
      BY <1>3, <2>2, <3>1, <3>2
    <3> QED  BY <1>6, <1>7, <3>2, <3>3
  <2> QED  BY <2>1, <2>2
<1> QED
  BY <1>7 DEF TakenOver, RenumberDuts, new

\* A host is removed.
LEMMA RemoveHostKeeps ==
    ASSUME FormAssumption, FormInv, NEW i \in DOMAIN tabs, RemoveHost(i)
    PROVE  FormInv' /\ TextsFollow(tabs', values')
<1> DEFINE new == RemoveAt(tabs, i)
           vals == RenumberHosts(i)
<1>1. TabsFit(tabs) /\ OneTabEach(tabs) /\ AreTexts(values) /\ MaxDuts \in Nat /\ MaxHosts \in Nat
  BY DEF FormInv, FormAssumption, ValuesFit, TabsFit
<1>2. Retab(new, vals)
  BY DEF RemoveHost
<1>3. AreTexts(vals)
  BY <1>1, HostsMoveApart, RenumberIs DEF RenumberHosts
<1>4. /\ TabsFit(new)
      /\ \A h \in DOMAIN new : Before(h, i) \in DOMAIN tabs /\ new[h] = tabs[Before(h, i)]
  BY <1>1, HostGone
<1> HIDE DEF new, vals
<1>5. DOMAIN new \subseteq Nat
  BY <1>4 DEF TabsFit
<1>6. HostsFollow(new, vals)
  <2> SUFFICES ASSUME NEW g \in DOMAIN tabs, NEW h \in DOMAIN new, tabs[g].id = new[h].id
               PROVE  TakenOver("ip", g, 0, h, 0, vals)
    BY DEF HostsFollow
  <2>1. g = Before(h, i)
    BY <1>1, <1>4 DEF OneTabEach
  <2> QED  BY <1>5, <2>1, HostTaken DEF vals
<1>7. DutsFollow(new, vals)
  <2> SUFFICES ASSUME NEW g \in DOMAIN tabs, NEW h \in DOMAIN new,
                      NEW c \in DOMAIN tabs[g].duts, NEW d \in DOMAIN new[h].duts,
                      tabs[g].duts[c] = new[h].duts[d], NEW f \in DutFields
               PROVE  TakenOver(f, g, c, h, d, vals)
    BY DEF DutsFollow
  <2>1. g = Before(h, i) /\ c = d
    BY <1>1, <1>4 DEF OneTabEach
  <2>2. f # "hostname"
    BY DEF DutFields
  <2> QED  BY <1>5, <2>1, <2>2, HostTaken DEF vals
<1> QED
  BY <1>2, <1>3, <1>4, <1>6, <1>7, RetabKeeps

\* What an element is added to.
LEMMA AddedIs ==
    ASSUME NEW T, NEW s \in Seq(T), NEW x \in T, NEW new, new = Append(s, x)
    PROVE  /\ new \in Seq(T) /\ Len(new) = Len(s) + 1 /\ DOMAIN s = 1 .. Len(s)
           /\ DOMAIN new = 1 .. Len(s) + 1 /\ new[Len(s) + 1] = x
           /\ \A d \in DOMAIN s : d \in DOMAIN new /\ new[d] = s[d]
OBVIOUS

\* A DUT is added.
LEMMA AddDutKeeps ==
    ASSUME FormAssumption, FormInv, NEW h \in DOMAIN tabs, AddDut(h)
    PROVE  FormInv' /\ TextsFollow(tabs', values')
<1> DEFINE old == tabs[h].duts
           duts == Append(old, NewDut)
           new == [tabs EXCEPT ![h].duts = duts]
<1>1. TabsFit(tabs) /\ OneTabEach(tabs) /\ AreTexts(values) /\ MaxDuts \in Nat
  BY DEF FormInv, FormAssumption, ValuesFit, TabsFit
<1>2. Len(old) < MaxDuts /\ Retab(new, values)
  BY DEF AddDut
<1>3. old \in Seq(Nat) /\ NewDut \in Nat /\ NewDut \notin DutIds(tabs)
  BY <1>1, TabIs, NewTabs
<1>4. /\ duts \in Seq(Nat) /\ Len(duts) = Len(old) + 1 /\ DOMAIN old = 1 .. Len(old)
      /\ DOMAIN duts = 1 .. Len(old) + 1 /\ duts[Len(old) + 1] = NewDut
      /\ \A d \in DOMAIN old : d \in DOMAIN duts /\ duts[d] = old[d]
  <2>1. duts = Append(old, NewDut)
    OBVIOUS
  <2> HIDE DEF duts, old
  <2> QED  BY <1>3, <2>1, AddedIs
<1>5. \A d \in DOMAIN duts : d \in DOMAIN old \/ d = Len(old) + 1
  BY <1>4
<1>6. \A d \in DOMAIN old : duts[d] \in DutIds(tabs)
  BY <1>4, IdsAre
<1> HIDE DEF duts
<1>7. Len(duts) <= MaxDuts
  BY <1>1, <1>2, <1>3, <1>4
<1>8. \A c, d \in DOMAIN duts : duts[c] = duts[d] => c = d
  <2>1. \A c, d \in DOMAIN old : old[c] = old[d] => c = d
    BY <1>1 DEF OneTabEach
  <2> HIDE DEF old
  <2> QED  BY <1>3, <1>4, <1>5, <1>6, <2>1
<1>9. \A g \in DOMAIN tabs \ {h} : \A c \in DOMAIN tabs[g].duts, d \in DOMAIN duts :
          tabs[g].duts[c] # duts[d]
  <2> SUFFICES ASSUME NEW g \in DOMAIN tabs \ {h}, NEW c \in DOMAIN tabs[g].duts,
                      NEW d \in DOMAIN duts, tabs[g].duts[c] = duts[d]
               PROVE  FALSE
    OBVIOUS
  <2>1. CASE d \in DOMAIN old
    <3>1. d \in DOMAIN tabs[h].duts /\ tabs[g].duts[c] = tabs[h].duts[d]
      BY <1>4, <2>1
    <3> QED  BY <1>1, <3>1 DEF OneTabEach
  <2>2. CASE d = Len(old) + 1
    <3>1. tabs[g].duts[c] \in DutIds(tabs)
      BY IdsAre
    <3> QED  BY <1>3, <1>4, <2>2, <3>1
  <2> QED  BY <1>5, <2>1, <2>2
<1>10. /\ TabsFit(new) /\ DOMAIN new = DOMAIN tabs /\ new[h].duts = duts
       /\ \A g \in DOMAIN tabs : new[g].id = tabs[g].id
       /\ \A g \in DOMAIN tabs \ {h} : new[g] = tabs[g]
  <2>1. new = WithDuts(duts, h)
    BY DEF WithDuts
  <2>2. CouldBe(duts, h)
    BY <1>4, <1>7, <1>8, <1>9 DEF CouldBe
  <2> HIDE DEF new, old
  <2> QED  BY <1>1, <2>1, <2>2, DutsExchanged
<1> HIDE DEF new
<1>11. OneTabEach(new)
  BY <1>10 DEF TabsFit
<1>12. HostsFollow(new, values)
  BY <1>10, <1>11 DEF HostsFollow, OneTabEach, TakenOver
<1>13. \A g \in DOMAIN tabs : \A c \in DOMAIN tabs[g].duts :
          c \in DOMAIN new[g].duts /\ new[g].duts[c] = tabs[g].duts[c]
  BY <1>4, <1>10
<1>14. DutsFollow(new, values)
  BY <1>10, <1>11, <1>13 DEF DutsFollow, OneTabEach, TakenOver
<1> QED
  BY <1>1, <1>2, <1>10, <1>12, <1>14, RetabKeeps

\* A DUT is removed.
LEMMA RemoveDutKeeps ==
    ASSUME FormAssumption, FormInv, NEW h \in DOMAIN tabs, NEW i \in DOMAIN tabs[h].duts,
           RemoveDut(h, i)
    PROVE  FormInv' /\ TextsFollow(tabs', values')
<1> DEFINE old == tabs[h].duts
           duts == RemoveAt(old, i)
           new == [tabs EXCEPT ![h].duts = duts]
           vals == RenumberDuts(h, i)
<1>1. TabsFit(tabs) /\ OneTabEach(tabs) /\ AreTexts(values) /\ MaxDuts \in Nat
  BY DEF FormInv, FormAssumption, ValuesFit, TabsFit
<1>2. Retab(new, vals)
  BY DEF RemoveDut
<1>3. AreTexts(vals)
  BY <1>1, DutsMoveApart, RenumberIs DEF RenumberDuts
<1>4. old \in Seq(Nat) /\ Len(old) \in 0 .. MaxDuts /\ DOMAIN old = 1 .. Len(old)
  BY <1>1, TabIs
<1>5. /\ duts \in Seq(Nat) /\ Len(duts) = Len(old) - 1 /\ DOMAIN duts = 1 .. Len(old) - 1
      /\ \A d \in DOMAIN duts : duts[d] = old[Before(d, i)]
  BY <1>4, RemovedIs DEF Before
<1> HIDE DEF duts
<1>6. /\ \A d \in DOMAIN duts : Before(d, i) \in DOMAIN old
      /\ \A c, d \in DOMAIN duts : Before(c, i) = Before(d, i) => c = d
  <2>1. i \in 1 .. Len(old) /\ Len(old) \in Nat
    BY <1>4
  <2>2. DOMAIN duts = 1 .. Len(old) - 1 /\ DOMAIN old = 1 .. Len(old)
    BY <1>4, <1>5
  <2> HIDE DEF old
  <2>3. \A d \in DOMAIN duts : Before(d, i) \in DOMAIN old
    BY <2>1, <2>2 DEF Before
  <2>4. \A c, d \in DOMAIN duts : Before(c, i) = Before(d, i) => c = d
    BY <2>1, <2>2 DEF Before
  <2> QED  BY <2>3, <2>4
<1>7. Len(duts) <= MaxDuts
  BY <1>1, <1>4, <1>5
<1>8. \A c, d \in DOMAIN duts : duts[c] = duts[d] => c = d
  BY <1>1, <1>5, <1>6 DEF OneTabEach
<1>9. \A g \in DOMAIN tabs \ {h} : \A c \in DOMAIN tabs[g].duts, d \in DOMAIN duts :
          tabs[g].duts[c] # duts[d]
  BY <1>1, <1>5, <1>6 DEF OneTabEach
<1>10. /\ TabsFit(new) /\ DOMAIN new = DOMAIN tabs /\ new[h].duts = duts
       /\ \A g \in DOMAIN tabs : new[g].id = tabs[g].id
       /\ \A g \in DOMAIN tabs \ {h} : new[g] = tabs[g]
  <2>1. new = WithDuts(duts, h)
    BY DEF WithDuts
  <2>2. CouldBe(duts, h)
    BY <1>5, <1>7, <1>8, <1>9 DEF CouldBe
  <2> HIDE DEF new, old
  <2> QED  BY <1>1, <2>1, <2>2, DutsExchanged
<1> HIDE DEF new, vals
<1>11. i \in 1 .. MaxDuts
  BY <1>4
<1>12. HostsFollow(new, vals)
  <2> SUFFICES ASSUME NEW g \in DOMAIN tabs, NEW k \in DOMAIN new, tabs[g].id = new[k].id
               PROVE  TakenOver("ip", g, 0, k, 0, vals)
    BY DEF HostsFollow
  <2>1. g = k
    BY <1>1, <1>10 DEF OneTabEach
  <2>2. (IF g = h /\ 0 >= i THEN 0 + 1 ELSE 0) = 0
    BY <1>11
  <2>3. TakenOver("ip", g, IF g = h /\ 0 >= i THEN 0 + 1 ELSE 0, g, 0, vals)
    BY <1>1, DutTaken DEF vals
  <2> QED  BY <2>1, <2>2, <2>3
<1>13. DutsFollow(new, vals)
  <2> SUFFICES ASSUME NEW g \in DOMAIN tabs, NEW k \in DOMAIN new,
                      NEW c \in DOMAIN tabs[g].duts, NEW d \in DOMAIN new[k].duts,
                      tabs[g].duts[c] = new[k].duts[d], NEW f \in DutFields
               PROVE  TakenOver(f, g, c, k, d, vals)
    BY DEF DutsFollow
  <2>1. k \in DOMAIN tabs /\ d \in Nat
    BY <1>1, <1>10, TabIs
  <2>2. TakenOver(f, k, IF k = h /\ d >= i THEN d + 1 ELSE d, k, d, vals)
    BY <1>1, <2>1, DutTaken DEF vals
  <2>3. CASE k # h
    <3>1. new[k] = tabs[k]
      BY <1>10, <2>1, <2>3
    <3>2. g = k /\ c = d
      BY <1>1, <2>1, <3>1 DEF OneTabEach
    <3> QED  BY <2>2, <2>3, <3>2
  <2>4. CASE k = h
    <3>1. d \in DOMAIN duts /\ tabs[g].duts[c] = tabs[h].duts[Before(d, i)]
      BY <1>5, <1>10, <2>4
    <3>2. g = h /\ c = Before(d, i)
      BY <1>1, <1>6, <3>1 DEF OneTabEach
    <3>3. c = IF k = h /\ d >= i THEN d + 1 ELSE d
      BY <1>11, <2>1, <2>4, <3>2 DEF Before
    <3> QED  BY <2>2, <2>4, <3>2, <3>3
  <2> QED  BY <2>3, <2>4
<1> QED
  BY <1>2, <1>3, <1>10, <1>12, <1>13, RetabKeeps

\* A text is typed.
LEMMA SetValueKeeps ==
    ASSUME FormAssumption, FormInv, NEW key \in Keys(tabs), NEW text \in Texts, SetValue(key, text)
    PROVE  FormInv'
<1>1. /\ text \in Nat /\ MaxTyped \in Nat /\ edits.typed < MaxTyped
      /\ edits' = [edits EXCEPT !.typed = @ + 1]
      /\ values' = [k \in DOMAIN values \cup {key} |-> IF k = key THEN text ELSE values[k]]
      /\ UNCHANGED <<original, created, tabs, saves>>
  BY DEF FormAssumption, SetValue
<1>2. ValuesFit(values', tabs')
  <2>1. ValuesFit(values, tabs)
    BY DEF FormInv
  <2>2. AreTexts(values')
    BY <1>1, <2>1 DEF ValuesFit, AreTexts
  <2>3. DOMAIN values' = DOMAIN values \cup {key}
    BY <1>1
  <2> QED  BY <1>1, <2>1, <2>2, <2>3 DEF ValuesFit
<1>3. edits' \in [tabs : 0 .. MaxTabs, typed : 0 .. MaxTyped]
  BY <1>1 DEF FormInv
<1>4. OriginalNames' = OriginalNames
  BY <1>1 DEF OriginalNames, DutsOf
<1> QED
  BY <1>1, <1>2, <1>3, <1>4 DEF FormInv

-----------------------------------------------------------------------------
(* The first states.                                                       *)

\* At most two hosts and three DUTs.
LEMMA ShapeIs ==
    ASSUME NEW shape \in Shapes
    PROVE  /\ shape \in Seq(0 .. 3) /\ Len(shape) \in 0 .. 2
           /\ DOMAIN shape = 1 .. Len(shape) /\ \A h \in DOMAIN shape : shape[h] \in 0 .. 3
<1>1. \/ shape = <<>>
      \/ \E a \in 0 .. 3 : shape = <<a>>
      \/ \E a, b \in 0 .. 3 : shape = <<a, b>>
  BY DEF Shapes
<1>2. CASE shape = <<>>
  BY <1>2
<1>3. CASE \E a \in 0 .. 3 : shape = <<a>>
  BY <1>3
<1>4. CASE \E a, b \in 0 .. 3 : shape = <<a, b>>
  BY <1>4
<1> QED
  BY <1>1, <1>2, <1>3, <1>4

\* DUTs of the hosts before h.
Ahead(shape, h) == IF h = 1 THEN 0 ELSE shape[1]

\* The file of a shape.
LEMMA FileIs ==
    ASSUME NEW shape \in Shapes
    PROVE  /\ FileOf(shape) \in Seq(HostEntries) /\ Len(FileOf(shape)) \in 0 .. 2
           /\ DOMAIN FileOf(shape) = DOMAIN shape /\ (shape = <<>> => FileOf(shape) = <<>>)
           /\ \A h \in DOMAIN shape :
                 /\ DOMAIN FileOf(shape)[h].duts = 1 .. shape[h]
                 /\ \A d \in 1 .. shape[h] :
                       FileOf(shape)[h].duts[d].name = Ahead(shape, h) + d
<1> DEFINE file == FileOf(shape)
           duts(h) == [d \in 1 .. shape[h] |-> Entry(Ahead(shape, h) + d)]
           host(h) == [ip |-> h, hostname |-> IF h = 1 THEN 1 ELSE 0, duts |-> duts(h)]
<1>1. /\ Len(shape) \in 0 .. 2 /\ DOMAIN shape = 1 .. Len(shape)
      /\ \A h \in DOMAIN shape : shape[h] \in 0 .. 3
  BY ShapeIs
<1>2. file = [h \in DOMAIN shape |-> host(h)]
  BY DEF FileOf, Ahead
<1>3. \A n \in Nat : Entry(n) \in Entries /\ Entry(n).name = n
  BY DEF Entry, Entries, Odd, Optional
<1>4. \A h \in DOMAIN shape : Ahead(shape, h) \in Nat
  BY <1>1 DEF Ahead
<1>5. ASSUME NEW h \in DOMAIN shape
      PROVE  duts(h) \in Seq(Entries) /\ DOMAIN duts(h) = 1 .. shape[h]
             /\ \A d \in 1 .. shape[h] : duts(h)[d].name = Ahead(shape, h) + d
  <2>1. shape[h] \in Nat /\ Ahead(shape, h) \in Nat
    BY <1>1, <1>4
  <2>2. \A d \in 1 .. shape[h] : Ahead(shape, h) + d \in Nat
    BY <2>1
  <2> HIDE DEF host
  <2>3. duts(h) \in [1 .. shape[h] -> Entries]
    BY <1>3, <2>2
  <2>4. duts(h) \in Seq(Entries)
    BY <2>1, <2>3
  <2> QED  BY <1>3, <2>2, <2>4
<1> HIDE DEF duts
<1>6. \A h \in DOMAIN shape : host(h) \in HostEntries /\ host(h).duts = duts(h)
  BY <1>1, <1>5 DEF HostEntries
<1> HIDE DEF host
<1>7. file \in [1 .. Len(shape) -> HostEntries] /\ Len(shape) \in Nat
  BY <1>1, <1>2, <1>6
<1>8. file \in Seq(HostEntries) /\ Len(file) = Len(shape) /\ DOMAIN file = DOMAIN shape
  BY <1>1, <1>7
<1>9. \A h \in DOMAIN shape : file[h].duts = duts(h)
  BY <1>2, <1>6
<1>10. shape = <<>> => file = <<>>
  BY <1>1, <1>8
<1> HIDE DEF file
<1> QED
  BY <1>1, <1>5, <1>8, <1>9, <1>10 DEF file

\* Its names are all different, and at most six.
LEMMA NamesApart ==
    ASSUME NEW shape \in Shapes
    PROVE  /\ \A g, h \in DOMAIN shape : \A c \in 1 .. shape[g], d \in 1 .. shape[h] :
                 Ahead(shape, g) + c = Ahead(shape, h) + d => g = h /\ c = d
           /\ \A h \in DOMAIN shape : \A d \in 1 .. shape[h] : Ahead(shape, h) + d \in 1 .. 6
<1>1. /\ Len(shape) \in 0 .. 2 /\ DOMAIN shape = 1 .. Len(shape)
      /\ \A h \in DOMAIN shape : shape[h] \in 0 .. 3
  BY ShapeIs
<1>2. \A h \in DOMAIN shape : h = 1 \/ h = 2
  BY <1>1
<1>3. \A h \in DOMAIN shape : h = 2 => shape[1] \in 0 .. 3
  BY <1>1
<1>4. \A h \in DOMAIN shape : \A d \in 1 .. shape[h] : Ahead(shape, h) + d \in 1 .. 6
  BY <1>1, <1>2, <1>3 DEF Ahead
<1>5. ASSUME NEW g \in DOMAIN shape, NEW h \in DOMAIN shape,
             NEW c \in 1 .. shape[g], NEW d \in 1 .. shape[h],
             Ahead(shape, g) + c = Ahead(shape, h) + d
      PROVE  g = h /\ c = d
  <2>1. CASE g = 1 /\ h = 1
    BY <1>1, <1>5, <2>1 DEF Ahead
  <2>2. CASE g = 2 /\ h = 2
    BY <1>1, <1>3, <1>5, <2>2 DEF Ahead
  <2>3. CASE g = 1 /\ h = 2
    BY <1>1, <1>3, <1>5, <2>3 DEF Ahead
  <2>4. CASE g = 2 /\ h = 1
    BY <1>1, <1>3, <1>5, <2>4 DEF Ahead
  <2> QED  BY <1>2, <2>1, <2>2, <2>3, <2>4
<1> QED
  BY <1>4, <1>5

\* The names of the file that is opened are finitely many.
LEMMA FirstNames ==
    ASSUME NEW shape \in Shapes, original = FileOf(shape)
    PROVE  IsFiniteSet(OriginalNames)
<1>1. \A h \in DOMAIN original : \A d \in DOMAIN original[h].duts :
          original[h].duts[d].name \in 1 .. 6
  <2> SUFFICES ASSUME NEW h \in DOMAIN original, NEW d \in DOMAIN original[h].duts
               PROVE  original[h].duts[d].name \in 1 .. 6
    OBVIOUS
  <2>1. h \in DOMAIN shape /\ d \in 1 .. shape[h]
    BY FileIs
  <2>2. original[h].duts[d].name = Ahead(shape, h) + d
    BY <2>1, FileIs
  <2> QED  BY <2>1, <2>2, NamesApart
<1>2. OriginalNames \in SUBSET (1 .. 6)
  BY <1>1 DEF OriginalNames, DutsOf, Range
<1>3. IsFiniteSet(1 .. 6)
  <2> DEFINE most == 6
  <2>1. most \in Int /\ 1 \in Int
    OBVIOUS
  <2> HIDE DEF most
  <2>2. IsFiniteSet(1 .. most)
    BY <2>1, FS_Interval
  <2> QED  BY <2>2 DEF most
<1> QED
  BY <1>2, <1>3, FS_Subset

\* The tabs that are shown first.
LEMMA FirstTabs ==
    ASSUME FormAssumption, NEW shape \in Shapes, original = FileOf(shape),
           \/ tabs = <<[id |-> 1, duts |-> << 1 >>]>>
           \/ tabs = [h \in DOMAIN original |->
                        [id |-> h, duts |-> [d \in DOMAIN original[h].duts |->
                                                original[h].duts[d].name]]]
    PROVE  TabsFit(tabs)
<1>1. MaxHosts \in Nat /\ MaxDuts \in Nat /\ MaxHosts >= 2 /\ MaxDuts >= 3
  BY DEF FormAssumption
<1>2. CASE tabs = <<[id |-> 1, duts |-> <<1>>]>>
  <2>1. tabs \in Seq(HostTabs) /\ Len(tabs) = 1 /\ DOMAIN tabs = {1}
        /\ Len(tabs[1].duts) = 1 /\ DOMAIN tabs[1].duts = {1}
    BY <1>2 DEF HostTabs
  <2>2. OneTabEach(tabs)
    <3>1. \A g \in DOMAIN tabs : g = 1
      BY <2>1
    <3>2. \A g \in DOMAIN tabs : \A c \in DOMAIN tabs[g].duts : c = 1
      BY <2>1
    <3> QED  BY <3>1, <3>2 DEF OneTabEach
  <2>3. \A h \in DOMAIN tabs : Len(tabs[h].duts) <= MaxDuts
    <3>1. \A h \in DOMAIN tabs : h = 1
      BY <2>1
    <3>2. Len(tabs[1].duts) <= MaxDuts
      <4>1. Len(tabs[1].duts) = 1
        BY <2>1
      <4> QED  BY ONLY <1>1, <4>1
    <3> QED  BY <3>1, <3>2
  <2>4. Len(tabs) <= MaxHosts
    BY <1>1, <2>1
  <2> QED  BY <2>1, <2>2, <2>3, <2>4 DEF TabsFit
<1>3. CASE tabs = [h \in DOMAIN original |->
                     [id |-> h, duts |-> [d \in DOMAIN original[h].duts |->
                                             original[h].duts[d].name]]]
  <2> DEFINE duts(h) == [d \in DOMAIN original[h].duts |-> original[h].duts[d].name]
             host(h) == [id |-> h, duts |-> duts(h)]
  <2>1. /\ DOMAIN original = DOMAIN shape /\ DOMAIN shape = 1 .. Len(shape) /\ Len(shape) \in 0 .. 2
        /\ \A h \in DOMAIN shape : shape[h] \in 0 .. 3 /\ DOMAIN original[h].duts = 1 .. shape[h]
    BY FileIs, ShapeIs
  <2>2. ASSUME NEW h \in DOMAIN shape
        PROVE  /\ duts(h) \in Seq(Nat) /\ Len(duts(h)) <= 3 /\ DOMAIN duts(h) = 1 .. shape[h]
               /\ \A d \in 1 .. shape[h] : duts(h)[d] = Ahead(shape, h) + d
    <3>1. DOMAIN duts(h) = 1 .. shape[h] /\ shape[h] \in 0 .. 3
      BY <2>1
    <3>2. \A d \in 1 .. shape[h] : duts(h)[d] = Ahead(shape, h) + d
      BY <2>1, FileIs
    <3>3. \A d \in 1 .. shape[h] : duts(h)[d] \in Nat
      BY <3>2, NamesApart
    <3>4. duts(h) \in [1 .. shape[h] -> Nat]
      BY <2>1, <3>3
    <3> HIDE DEF duts
    <3> QED  BY <3>1, <3>2, <3>4
  <2> HIDE DEF duts
  <2>3. \A h \in DOMAIN shape : host(h) \in HostTabs /\ host(h).id = h /\ host(h).duts = duts(h)
    BY <2>1, <2>2 DEF HostTabs
  <2>4. tabs = [h \in DOMAIN shape |-> host(h)]
    BY <1>3, <2>1 DEF duts
  <2> HIDE DEF host
  <2>5. tabs \in [1 .. Len(shape) -> HostTabs]
    BY <2>1, <2>3, <2>4
  <2>6. tabs \in Seq(HostTabs) /\ Len(tabs) = Len(shape) /\ DOMAIN tabs = DOMAIN shape
    BY <2>1, <2>5
  <2>7. \A h \in DOMAIN tabs : tabs[h].id = h /\ tabs[h].duts = duts(h)
    BY <2>3, <2>4, <2>6
  <2>8. \A g, h \in DOMAIN tabs : \A c \in DOMAIN tabs[g].duts, d \in DOMAIN tabs[h].duts :
            tabs[g].duts[c] = tabs[h].duts[d] => g = h /\ c = d
    <3> SUFFICES ASSUME NEW g \in DOMAIN tabs, NEW h \in DOMAIN tabs,
                        NEW c \in DOMAIN tabs[g].duts, NEW d \in DOMAIN tabs[h].duts,
                        tabs[g].duts[c] = tabs[h].duts[d]
                 PROVE  g = h /\ c = d
      OBVIOUS
    <3>1. /\ g \in DOMAIN shape /\ c \in 1 .. shape[g]
          /\ tabs[g].duts[c] = Ahead(shape, g) + c
      BY <2>2, <2>6, <2>7
    <3>2. /\ h \in DOMAIN shape /\ d \in 1 .. shape[h]
          /\ tabs[h].duts[d] = Ahead(shape, h) + d
      BY <2>2, <2>6, <2>7
    <3>3. Ahead(shape, g) + c = Ahead(shape, h) + d
      BY <3>1, <3>2
    <3> HIDE DEF duts, host
    <3> QED  BY ONLY shape \in Shapes, <3>1, <3>2, <3>3, NamesApart
  <2> QED  BY <1>1, <2>1, <2>2, <2>6, <2>7, <2>8 DEF TabsFit, OneTabEach
<1> QED
  BY <1>2, <1>3

\* The first states satisfy the invariant.
LEMMA FormStart == FormAssumption /\ FormInit => FormInv
<1> SUFFICES ASSUME FormAssumption, FormInit PROVE FormInv
  OBVIOUS
<1>1. PICK shape \in Shapes :
         /\ created \in BOOLEAN /\ (created => shape = <<>>)
         /\ original = FileOf(shape)
         /\ tabs = IF created THEN <<[id |-> 1, duts |-> <<1>>]>>
                   ELSE [h \in DOMAIN original |->
                           [id |-> h, duts |-> [d \in DOMAIN original[h].duts |->
                                                 original[h].duts[d].name]]]
         /\ values = Rebuild([key \in {} |-> 0], tabs)
         /\ saves = 0
         /\ edits = [tabs |-> 0, typed |-> 0]
  BY DEF FormInit
<1>2. original \in Seq(HostEntries) /\ (created => original = <<>>)
  BY <1>1, FileIs
<1>3. TabsFit(tabs)
  BY <1>1, FirstTabs
<1>4. ValuesFit(values, tabs)
  <2> DEFINE none == [key \in {} |-> 0]
  <2>1. AreTexts(none)
    BY DEF AreTexts
  <2> HIDE DEF none
  <2>2. ValuesFit(Rebuild(none, tabs), tabs)
    BY <1>2, <2>1, RebuildIs
  <2> QED  BY <1>1, <2>2 DEF none
<1>5. IsFiniteSet(OriginalNames)
  BY <1>1, FirstNames
<1>6. saves \in 0 .. MaxSaves /\ edits \in [tabs : 0 .. MaxTabs, typed : 0 .. MaxTyped]
  BY <1>1 DEF FormAssumption
<1> QED
  BY <1>1, <1>2, <1>3, <1>4, <1>5, <1>6 DEF FormInv

\* Every step keeps the invariant, and the texts with their tabs.
LEMMA FormStep ==
    ASSUME FormAssumption, FormInv, [FormNext]_formVars
    PROVE  FormInv' /\ (Retabbed => TextsFollow(tabs', values'))
<1>1. CASE AddHost
  BY <1>1, AddHostKeeps
<1>2. ASSUME NEW h \in DOMAIN tabs, RemoveHost(h)
      PROVE  FormInv' /\ TextsFollow(tabs', values')
  BY <1>2, RemoveHostKeeps
<1>3. ASSUME NEW h \in DOMAIN tabs, AddDut(h)
      PROVE  FormInv' /\ TextsFollow(tabs', values')
  BY <1>3, AddDutKeeps
<1>4. ASSUME NEW h \in DOMAIN tabs, NEW d \in DOMAIN tabs[h].duts, RemoveDut(h, d)
      PROVE  FormInv' /\ TextsFollow(tabs', values')
  BY <1>4, RemoveDutKeeps
<1>5. ASSUME NEW key \in Keys(tabs), NEW text \in Texts, SetValue(key, text)
      PROVE  FormInv' /\ ~Retabbed
  <2>1. edits'.tabs = edits.tabs
    BY <1>5 DEF SetValue, FormInv
  <2> QED  BY <1>5, <2>1, SetValueKeeps DEF Retabbed
<1>6. CASE Save
  <2>1. /\ UNCHANGED <<original, created, tabs, values, edits>>
        /\ saves < MaxSaves /\ saves' = saves + 1 /\ MaxSaves \in Nat
    BY <1>6 DEF Save, FormAssumption
  <2>2. OriginalNames' = OriginalNames
    BY <2>1 DEF OriginalNames, DutsOf
  <2> QED  BY <2>1, <2>2 DEF FormInv, ValuesFit, Retabbed
<1>7. CASE UNCHANGED formVars
  <2>1. UNCHANGED <<original, created, tabs, values, saves, edits>>
    BY <1>7 DEF formVars
  <2>2. OriginalNames' = OriginalNames
    BY <2>1 DEF OriginalNames, DutsOf
  <2> QED  BY <2>1, <2>2 DEF FormInv, ValuesFit, Retabbed
<1> QED
  BY <1>1, <1>2, <1>3, <1>4, <1>5, <1>6, <1>7 DEF FormNext

\* The inductive invariant of the form (the buffers of tui_init.rs): every
\* buffer is of a tab that is shown, and no two tabs have one identity.
THEOREM FormCorrect == FormSpec => []FormInv
<1>1. FormInit => FormInv
  BY FormAssumption, FormStart
<1>2. FormInv /\ [FormNext]_formVars => FormInv'
  BY FormAssumption, FormStep
<1> QED
  BY <1>1, <1>2, PTL DEF FormSpec

\* ValuesFollowTabs, for any number of hosts, DUTs, texts and steps: add_host,
\* remove_host, add_dut and remove_dut renumber the buffers as the tabs are, so
\* a tab that stays keeps every text that it held (tui_init.rs).
THEOREM TextsStayWithTabs == FormSpec => ValuesFollowTabs
<1>1. FormInv /\ [FormNext]_formVars => [Retabbed => TextsFollow(tabs', values')]_formVars
  BY FormAssumption, FormStep
<1>2. [Retabbed => TextsFollow(tabs', values')]_formVars <=>
        [Retabbed =>
           /\ \A id \in HostIds(tabs) \cap HostIds(tabs') :
                 Keeps(HostHolds(tabs, values, {"ip"}, id), HostHolds(tabs', values', {"ip"}, id))
           /\ \A id \in DutIds(tabs) \cap DutIds(tabs') :
                 Keeps(DutHolds(tabs, values, id), DutHolds(tabs', values', id))]_formVars
  BY DEF TextsFollow
<1> QED
  BY <1>1, <1>2, FormCorrect, PTL DEF FormSpec, ValuesFollowTabs

\* FormTypeOK, for any number of hosts, DUTs, texts and steps.
THEOREM FormTyped == FormSpec => []FormTypeOK
<1>1. FormInv => FormTypeOK
  <2> SUFFICES ASSUME FormInv PROVE FormTypeOK
    OBVIOUS
  <2>1. MaxHosts \in Nat /\ MaxDuts \in Nat
    BY FormAssumption DEF FormAssumption
  <2>2. TabsFit(tabs) /\ ValuesFit(values, tabs)
    BY DEF FormInv
  <2>3. DOMAIN tabs \subseteq 1 .. MaxHosts
    BY <2>1, <2>2 DEF TabsFit
  <2>4. \A h \in DOMAIN tabs : DOMAIN tabs[h] = {"id", "duts"}
    BY <2>1, <2>2, TabIs DEF HostTabs
  <2>5. DOMAIN values \subseteq Keys(tabs) /\ Range(values) \subseteq Nat
    BY <2>2 DEF ValuesFit, AreTexts, Range
  <2>6. {<<"gate", h, d>> : h \in DOMAIN tabs, d \in 1 .. MaxDuts} \cap Keys(tabs)
            \subseteq DOMAIN values
    BY <2>2 DEF ValuesFit
  <2>7. /\ created \in BOOLEAN /\ (created => original = <<>>)
        /\ saves \in 0 .. MaxSaves
        /\ edits.tabs \in 0 .. MaxTabs /\ edits.typed \in 0 .. MaxTyped
    BY DEF FormInv
  <2> QED  BY <2>3, <2>4, <2>5, <2>6, <2>7 DEF FormTypeOK
<1> QED
  BY <1>1, FormCorrect, PTL

-----------------------------------------------------------------------------
(* The machines side by side.                                              *)

\* A behaviour of MCFiles is one of each of the machines: all of them are
\* where they began but for the one that is explored.
THEOREM FilesAreAll ==
    FilesSpec => /\ Spec
                 /\ ProjectInit /\ [][ProjectNext]_projectVars
                 /\ LogSpec /\ TestSpec /\ FormSpec /\ ConfigSpec
<1>1. FilesInit => Init /\ ProjectInit /\ LogInit /\ TestInit /\ FormInit /\ ConfigInit
  BY DEF FilesInit
<1>2. ASSUME [FilesNext]_filesVars
      PROVE  /\ [Next]_vars /\ [ProjectNext]_projectVars /\ [LogNext]_logVars
             /\ [TestNext]_testVars /\ [FormNext]_formVars /\ [ConfigNext]_configVars
  BY <1>2 DEF FilesNext, filesVars
<1> QED
  BY <1>1, <1>2, PTL DEF FilesSpec, Spec, LogSpec, TestSpec, FormSpec, ConfigSpec

\* FilesTypeOK, for every value of the constants of the six machines.
THEOREM FilesTyped == FilesSpec => []FilesTypeOK
<1>1. LockInv => TypeOK
  BY DEF LockInv
<1>2. ProjectInv => ProjectTypeOK
  BY DEF ProjectInv
<1>3. TypeOK /\ ProjectTypeOK /\ LogTypeOK /\ TestTypeOK /\ FormTypeOK /\ ConfigTypeOK
        <=> FilesTypeOK
  BY DEF FilesTypeOK
<1> QED
  BY <1>1, <1>2, <1>3, FilesAreAll, LockCorrect, ProjectCorrect, LogTypesHold,
     TestTyped, FormTyped, ConfigTyped, PTL DEF ProjectSpec
=============================================================================
