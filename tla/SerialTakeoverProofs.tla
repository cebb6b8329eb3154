------------------------ MODULE SerialTakeoverProofs ------------------------
(***************************************************************************)
(* Proofs about SerialTakeover, for any number of servers, direct sessions *)
(* and clients: one user of the line at a time, retirement that lasts, and *)
(* faults that only a claim lifts.                                         *)
(*                                                                         *)
(* Every handler replaces the record of one engine and changes at most the *)
(* hold of one process on the lock.  So the invariant says of each engine  *)
(* how its record fits its hold, and a step keeps it when the new record   *)
(* fits the new hold (EngineStep).                                         *)
(***************************************************************************)
EXTENDS SerialTakeover, TLAPS

-----------------------------------------------------------------------------
(* The inductive invariant.                                                *)

\* p has a lock file, be it the one that the path names or not.
Has(p) == owner = p \/ p \in lost

\* What always holds of the record of one engine.
Fit(e) ==
    /\ e \in Engine
    /\ e.flag \/ e.open => e.owns
    /\ e.fault => ~e.flag /\ ~e.open
    /\ e.removed => ~e.owns /\ ~e.taken /\ e.ws = NoProc
    /\ e.phase # "up" => ~e.owns /\ ~e.tasks /\ ~e.fault /\ e.ensure = {}

\* owns_serial_lock is right about the lock.
EnginesFit == \A s \in Servers : Fit(eng[s]) /\ (eng[s].owns <=> Has(s))
OneConnection == \A s, t \in Servers : eng[s].open /\ eng[t].open => s = t
SessionsHold == \A h \in Humans : Connected(h) => Has(h)

TakeoverInv == TypeOK /\ EnginesFit /\ OneConnection /\ SessionsHold

-----------------------------------------------------------------------------
(* What a step does to the holds.                                          *)

\* Only p's hold may change.
OthersHold(p) == \A q \in Procs \ {p} : Has(q)' <=> Has(q)

LockTyped == owner \in Procs \cup {NoProc} /\ lost \subseteq Procs

\* Who holds the endpoint depends on the lock alone.
LEMMA HoldKept ==
    ASSUME LockKept
    PROVE  \A q : Has(q)' <=> Has(q)
BY DEF LockKept, mutexVars, Has

\* After an acquire the process holds it, and the others hold what they held.
LEMMA HoldAcquired ==
    ASSUME NEW p \in Procs, LockTyped, Acquired(p)
    PROVE  Has(p)' /\ OthersHold(p) /\ LockTyped'
BY TakeoverAssumption
   DEF Acquired, MutexAcquire, LockKept, mutexVars, Has, OthersHold, LockTyped

\* After a release the process does not, and the others hold what they held.
LEMMA HoldReleased ==
    ASSUME NEW p \in Procs, LockTyped, MutexRelease(p)
    PROVE  ~Has(p)' /\ OthersHold(p) /\ LockTyped'
BY TakeoverAssumption DEF MutexRelease, Has, OthersHold, LockTyped

\* A refused process with a hold is one whose file was replaced.
LEMMA HoldRefused ==
    ASSUME NEW p, Refused(p)
    PROVE  LockKept /\ (Has(p) => p \in lost)
BY DEF Refused, Has

-----------------------------------------------------------------------------
(* What the parts of the handlers do to a record.                          *)

\* An engine whose fault is latched fits.
LEMMA LatchedFits ==
    ASSUME NEW e, Fit(e), e.phase = "up"
    PROVE  /\ Fit(Latched(e)) /\ Latched(e).owns = e.owns
           /\ ~Latched(e).open /\ ~Latched(e).flag
BY TakeoverAssumption DEF Fit, Latched, Engine

\* So does an engine that took the line.
LEMMA OwningFits ==
    ASSUME NEW e, Fit(e), ~e.removed, ~e.fault, e.phase = "up"
    PROVE  /\ Fit(Owning(e)) /\ Owning(e).owns
           /\ Owning(e).open = e.open /\ Owning(e).claim = e.claim
           /\ ~Owning(e).removed /\ ~Owning(e).fault /\ Owning(e).phase = "up"
BY DEF Fit, Owning, Engine

\* What a failed connection leaves.
LEMMA FailuresFit ==
    ASSUME NEW s \in Servers, NEW e, Fit(e), e.phase = "up",
           NEW r \in ConnectFailures(s, e)
    PROVE  /\ Fit(r) /\ r.owns = e.owns
           /\ r.open => e.open
           /\ r.claim = e.claim /\ r.phase = "up"
<1>1. CASE r = Latched(e)
  <2>1. Latched(e).claim = e.claim /\ Latched(e).phase = e.phase
    BY DEF Latched, Fit, Engine
  <2> QED
    BY <1>1, <2>1, LatchedFits
<1>2. CASE r = e
  BY <1>2
<1>3. CASE r = [e EXCEPT !.open = FALSE]
  BY <1>3 DEF Fit, Engine
<1> QED
  BY <1>1, <1>2, <1>3 DEF ConnectFailures

\* What a connection leaves, and that nobody else is connected.
LEMMA ProbesFit ==
    ASSUME NEW s \in Servers, NEW e, Fit(e), e.owns, e.phase = "up",
           NEW r \in Probes(s, e)
    PROVE  /\ Fit(r) /\ r.owns /\ ~Shared(s)
           /\ ~r.removed /\ ~r.fault /\ r.claim = e.claim /\ r.phase = "up"
<1>1. PICK c \in Connections(s, e) : r \in Probed(c)
  BY DEF Probes
<1>2. /\ c = [e EXCEPT !.open = TRUE] /\ ~Shared(s)
      /\ ~e.removed /\ ~e.fault
  BY <1>1 DEF Connections, Sound
<1>3. PICK st \in {"live", "quiet", "disconnected"} : r = [c EXCEPT !.state = st]
  BY <1>1 DEF Probed
<1> QED
  BY <1>2, <1>3 DEF Fit, Engine
-----------------------------------------------------------------------------
(* Steps of one process.                                                   *)

\* The parts of the invariant that no engine and no session can disturb.
RestTyped ==
    /\ attached \in [Clients -> Servers \cup {NoProc}]
    /\ troubles \in 0 .. MaxTroubles

\* A step of one engine keeps the invariant when the new record fits the new
\* hold, and a connection is new only if nobody shares the endpoint.
LEMMA EngineStep ==
    ASSUME TakeoverInv, RestTyped', UNCHANGED human, LockTyped',
           NEW s \in Servers, NEW e, Become(s, e), OthersHold(s),
           Fit(e), e.owns <=> Has(s)', e.open => eng[s].open \/ ~Shared(s)
    PROVE  TakeoverInv'
<1> USE TakeoverAssumption
        DEF TakeoverInv, TypeOK, RestTyped, LockTyped, Become
<1>1. eng' \in [Servers -> Engine]
  BY DEF Fit
<1>2. EnginesFit'
  BY DEF EnginesFit, OthersHold
<1>3. OneConnection'
  BY DEF OneConnection, Shared
<1>4. SessionsHold'
  BY DEF SessionsHold, Connected, OthersHold
<1> QED
  BY <1>1, <1>2, <1>3, <1>4

\* The same for a step that leaves the lock alone.
LEMMA EngineKeepsLock ==
    ASSUME TakeoverInv, RestTyped', UNCHANGED human, LockKept,
           NEW s \in Servers, NEW e, Become(s, e),
           Fit(e), e.owns <=> Has(s), e.open => eng[s].open \/ ~Shared(s)
    PROVE  TakeoverInv'
<1>1. Has(s)' <=> Has(s)
  BY HoldKept
<1>2. OthersHold(s)
  BY HoldKept DEF OthersHold
<1>3. LockTyped'
  BY DEF LockTyped, LockKept, mutexVars, TakeoverInv, TypeOK
<1> QED
  BY <1>1, <1>2, <1>3, EngineStep

-----------------------------------------------------------------------------
(* The steps of a server.                                                  *)

\* What the invariant and an unchanged environment say of one engine.
LEMMA EngineFits ==
    ASSUME TakeoverInv, NEW s \in Servers
    PROVE  /\ Fit(eng[s]) /\ (eng[s].owns <=> Has(s))
           /\ LockTyped /\ RestTyped /\ s \in Procs
           /\ OthersKept => RestTyped' /\ UNCHANGED human
BY TakeoverAssumption
   DEF TakeoverInv, EnginesFit, Fit, TypeOK, LockTyped, RestTyped, OthersKept

\* A new process has nothing.
LEMMA NewFits ==
    ASSUME NEW phase \in {"down", "starting"}
    PROVE  /\ Fit(NewEngine(phase))
           /\ ~NewEngine(phase).open /\ ~NewEngine(phase).owns
BY DEF Fit, NewEngine, Engine

\* A server that starts keeps the invariant.
LEMMA BootKeeps ==
    ASSUME TakeoverInv, NEW s \in Servers, Boot(s)
    PROVE  TakeoverInv'
<1>1. RestTyped' /\ UNCHANGED human
  BY EngineFits DEF Boot
<1>2. ~Has(s)
  BY EngineFits DEF Boot, Fit
<1> QED
  BY <1>1, <1>2, NewFits, EngineKeepsLock DEF Boot

\* So does a server that ends.
LEMMA ExitKeeps ==
    ASSUME TakeoverInv, NEW s \in Servers, Exit(s)
    PROVE  TakeoverInv'
<1>1. RestTyped' /\ UNCHANGED human
  BY EngineFits, TakeoverAssumption DEF Exit, RestTyped, Trouble
<1>2. ~Has(s)' /\ OthersHold(s) /\ LockTyped'
  BY EngineFits, HoldReleased DEF Exit
<1> QED
  BY <1>1, <1>2, NewFits, EngineStep DEF Exit

\* So does the retirement of an engine.
LEMMA RetireKeeps ==
    ASSUME TakeoverInv, NEW s \in Servers, Retire(s)
    PROVE  TakeoverInv'
<1> DEFINE r == [eng[s] EXCEPT !.removed = TRUE, !.ws = NoProc,
                     !.armed = FALSE, !.taken = FALSE, !.running = FALSE,
                     !.tasks = FALSE, !.open = FALSE, !.owns = FALSE,
                     !.flag = FALSE, !.state = "stopped", !.fault = FALSE]
<1>1. RestTyped' /\ UNCHANGED human
  BY EngineFits, TakeoverAssumption DEF Retire, RestTyped, Trouble
<1>2. Fit(r) /\ ~r.owns /\ ~r.open
  <2>1. Fit(eng[s])
    BY EngineFits
  <2>2. r \in Engine
    BY <2>1 DEF Fit, Engine
  <2>3. /\ ~r.owns /\ ~r.open /\ ~r.flag /\ ~r.taken /\ ~r.tasks /\ ~r.fault
        /\ r.ws = NoProc
        /\ r.phase = eng[s].phase /\ r.ensure = eng[s].ensure
    BY <2>1 DEF Fit, Engine
  <2> HIDE DEF r
  <2> QED
    BY <2>1, <2>2, <2>3 DEF Fit
<1>3. Become(s, r)
  BY DEF Retire
<1> HIDE DEF r
<1>4. CASE eng[s].owns
  <2>1. ~Has(s)' /\ OthersHold(s) /\ LockTyped'
    BY <1>4, EngineFits, HoldReleased DEF Retire
  <2> QED
    BY <1>1, <1>2, <1>3, <2>1, EngineStep
<1>5. CASE ~eng[s].owns
  BY <1>1, <1>2, <1>3, <1>5, EngineFits, EngineKeepsLock DEF Retire
<1> QED
  BY <1>4, <1>5

\* A step that changes neither the lock nor the connection.
LEMMA EnsureTasksKeeps ==
    ASSUME TakeoverInv, NEW s \in Servers, EnsureTasks(s)
    PROVE  TakeoverInv'
<1>1. PICK by \in eng[s].ensure :
          Become(s, [eng[s] EXCEPT !.ensure = @ \ {by}, !.tasks = TRUE])
  BY DEF EnsureTasks
<1> DEFINE e == [eng[s] EXCEPT !.ensure = @ \ {by}, !.tasks = TRUE]
<1>2. Fit(e) /\ e.owns = eng[s].owns /\ e.open = eng[s].open
  BY EngineFits DEF Fit, Engine
<1> HIDE DEF e
<1> QED
  BY <1>1, <1>2, EngineFits, EngineKeepsLock DEF EnsureTasks, e

\* So does the guard of a claim.
LEMMA AdmitClaimKeeps ==
    ASSUME TakeoverInv, NEW s \in Servers, AdmitClaim(s)
    PROVE  TakeoverInv'
<1> DEFINE e == [eng[s] EXCEPT !.claim = TRUE]
<1>1. Fit(e) /\ e.owns = eng[s].owns /\ e.open = eng[s].open
  BY EngineFits DEF Fit, Engine
<1> HIDE DEF e
<1> QED
  BY <1>1, EngineFits, EngineKeepsLock DEF AdmitClaim, e

\* So does opening a backoff window.
LEMMA ArmBackoffKeeps ==
    ASSUME TakeoverInv, NEW s \in Servers, ArmBackoff(s)
    PROVE  TakeoverInv'
<1> DEFINE e == [eng[s] EXCEPT !.armed = TRUE]
<1>1. Fit(e) /\ e.owns = eng[s].owns /\ e.open = eng[s].open
  BY EngineFits DEF Fit, Engine
<1> HIDE DEF e
<1> QED
  BY <1>1, EngineFits, EngineKeepsLock DEF ArmBackoff, e

\* So does a change of the target.
LEMMA DutChangesKeeps ==
    ASSUME TakeoverInv, NEW s \in Servers, DutChanges(s)
    PROVE  TakeoverInv'
<1>1. PICK st \in {"live", "quiet"} : Become(s, [eng[s] EXCEPT !.state = st])
  BY DEF DutChanges
<1> DEFINE e == [eng[s] EXCEPT !.state = st]
<1>2. Fit(e) /\ e.owns = eng[s].owns /\ e.open = eng[s].open
  BY EngineFits DEF Fit, Engine
<1> HIDE DEF e
<1> QED
  BY <1>1, <1>2, EngineFits, EngineKeepsLock DEF DutChanges, e

\* The two tasks latch a fault.
LEMMA TasksLatch ==
    ASSUME TakeoverInv, NEW s \in Servers, CheckIdentity(s) \/ WatchdogAudit(s)
    PROVE  TakeoverInv'
<1>1. Become(s, Latched(eng[s])) /\ LockKept /\ eng[s].tasks
  BY DEF CheckIdentity, WatchdogAudit, LoopRuns
<1>2. RestTyped' /\ UNCHANGED human
  BY EngineFits, TakeoverAssumption
     DEF CheckIdentity, WatchdogAudit, RestTyped, Trouble, OthersKept
<1>3. eng[s].phase = "up"
  BY <1>1, EngineFits DEF Fit, Engine
<1> QED
  BY <1>1, <1>2, <1>3, EngineFits, LatchedFits, EngineKeepsLock

\* What a failed connection becomes for the read loop.
LEMMA FailedFits ==
    ASSUME NEW e, Fit(e), e.phase = "up", NEW gone \in BOOLEAN
    PROVE  /\ Fit(Failed(e, gone))
           /\ Failed(e, gone).owns = e.owns /\ Failed(e, gone).open = e.open
BY DEF Failed, Fit, Engine

\* A reconnection keeps the invariant.  The loop runs on an intact lock file
\* only, so an engine that is refused has none.
LEMMA ReconnectKeeps ==
    ASSUME TakeoverInv, NEW s \in Servers, LoopRuns(s), OthersKept,
           NEW e, Fit(e), e.owns = eng[s].owns, e.open => eng[s].open,
           e.phase = "up", ~e.fault, ~e.removed,
           NEW gone \in BOOLEAN, Reconnect(s, e, gone)
    PROVE  TakeoverInv'
<1>1. RestTyped' /\ UNCHANGED human
  BY EngineFits
<1>2. eng[s].owns => s \notin lost
  BY DEF LoopRuns, Sound, Shaken
<1> DEFINE released == [e EXCEPT !.owns = FALSE, !.flag = FALSE]
           o == IF e.owns THEN e ELSE Owning(e)
<1>3. CASE Refused(s) /\ Become(s, Failed(released, gone))
  <2>1. ~Has(s) /\ LockKept
    BY <1>2, <1>3, EngineFits, HoldRefused
  <2>2. ~eng[s].owns /\ ~e.open
    BY <2>1, EngineFits DEF Fit
  <2>3. Fit(released) /\ ~released.owns /\ ~released.open /\ released.phase = "up"
    BY <2>2 DEF Fit, Engine
  <2> HIDE DEF released
  <2> QED
    BY <1>1, <1>3, <2>1, <2>3, FailedFits, EngineKeepsLock
<1>4. ASSUME Acquired(s),
             \/ \E r \in Probes(s, o) : Become(s, [r EXCEPT !.armed = FALSE])
             \/ \E r \in ConnectFailures(s, o) : Become(s, Failed(r, gone))
      PROVE  TakeoverInv'
  <2>1. Has(s)' /\ OthersHold(s) /\ LockTyped'
    BY <1>4, EngineFits, HoldAcquired
  <2>2. Fit(o) /\ o.owns /\ (o.open => eng[s].open) /\ o.phase = "up"
    BY OwningFits
  <2> HIDE DEF o
  <2>3. ASSUME NEW r \in Probes(s, o), Become(s, [r EXCEPT !.armed = FALSE])
        PROVE  TakeoverInv'
    <3>1. Fit(r) /\ r.owns /\ ~Shared(s)
      BY <2>2, <2>3, ProbesFit
    <3> DEFINE d == [r EXCEPT !.armed = FALSE]
    <3>2. Fit(d) /\ d.owns
      BY <3>1 DEF Fit, Engine
    <3> HIDE DEF d
    <3> QED
      BY <1>1, <2>1, <2>3, <3>1, <3>2, EngineStep DEF d
  <2>4. ASSUME NEW r \in ConnectFailures(s, o), Become(s, Failed(r, gone))
        PROVE  TakeoverInv'
    <3>1. Fit(r) /\ r.owns /\ (r.open => eng[s].open) /\ r.phase = "up"
      BY <2>2, <2>4, FailuresFit
    <3> QED
      BY <1>1, <2>1, <2>4, <3>1, FailedFits, EngineStep
  <2> QED
    BY <1>4, <2>3, <2>4
<1> QED
  BY <1>3, <1>4 DEF Reconnect

\* So does a window that elapses, with the reconnect that follows.
LEMMA BackoffElapsesKeeps ==
    ASSUME TakeoverInv, NEW s \in Servers, BackoffElapses(s)
    PROVE  TakeoverInv'
<1> DEFINE e == [eng[s] EXCEPT !.armed = FALSE]
<1>1. LoopRuns(s) /\ Reconnect(s, e, FALSE) /\ OthersKept
  BY DEF BackoffElapses
<1>2. eng[s].phase = "up" /\ ~eng[s].fault /\ ~eng[s].removed
  BY <1>1, EngineFits DEF LoopRuns, Sound, Fit, Engine
<1>3. /\ Fit(e) /\ e.owns = eng[s].owns /\ e.open = eng[s].open
      /\ e.phase = "up" /\ ~e.fault /\ ~e.removed
  BY <1>2, EngineFits DEF Fit, Engine
<1> HIDE DEF e
<1> QED
  BY <1>1, <1>3, ReconnectKeeps

\* So does a read error with its recovery.
LEMMA ReadErrorKeeps ==
    ASSUME TakeoverInv, NEW s \in Servers, ReadError(s)
    PROVE  TakeoverInv'
<1> DEFINE closed == [eng[s] EXCEPT !.open = FALSE]
<1>1. /\ LoopRuns(s) /\ OthersKept
      /\ \/ Become(s, Failed(closed, TRUE)) /\ LockKept
         \/ Reconnect(s, closed, TRUE)
  BY DEF ReadError
<1>2. eng[s].phase = "up" /\ ~eng[s].fault /\ ~eng[s].removed
  BY <1>1, EngineFits DEF LoopRuns, Sound, Fit, Engine
<1>3. /\ Fit(closed) /\ closed.owns = eng[s].owns /\ ~closed.open
      /\ closed.phase = "up" /\ ~closed.fault /\ ~closed.removed
  BY <1>2, EngineFits DEF Fit, Engine
<1> HIDE DEF closed
<1>4. CASE Become(s, Failed(closed, TRUE)) /\ LockKept
  <2>1. /\ Fit(Failed(closed, TRUE))
        /\ Failed(closed, TRUE).owns = eng[s].owns
        /\ ~Failed(closed, TRUE).open
    BY <1>3, FailedFits
  <2> QED
    BY <1>1, <1>4, <2>1, EngineFits, EngineKeepsLock
<1>5. CASE Reconnect(s, closed, TRUE)
  BY <1>1, <1>3, <1>5, ReconnectKeeps
<1> QED
  BY <1>1, <1>4, <1>5

\* Start: the flags that a started engine is left with.
LEMMA StartedFits ==
    ASSUME NEW e, Fit(e), e.phase = "up",
           NEW d, d \in {e, [e EXCEPT !.running = TRUE],
                         [e EXCEPT !.running = TRUE,
                                   !.ensure = @ \cup {"call"}]}
    PROVE  Fit(d) /\ d.owns = e.owns /\ d.open = e.open /\ d.phase = "up"
<1>1. CASE d = e
  BY <1>1
<1>2. CASE d = [e EXCEPT !.running = TRUE]
  BY <1>2 DEF Fit, Engine
<1>3. CASE d = [e EXCEPT !.running = TRUE, !.ensure = @ \cup {"call"}]
  <2>1. d \in Engine
    BY <1>3 DEF Fit, Engine
  <2>2. /\ d.owns = e.owns /\ d.open = e.open /\ d.phase = "up"
        /\ d.flag = e.flag /\ d.fault = e.fault /\ d.removed = e.removed
        /\ d.taken = e.taken /\ d.ws = e.ws
    BY <1>3 DEF Fit, Engine
  <2> QED
    BY <2>1, <2>2 DEF Fit
<1> QED
  BY <1>1, <1>2, <1>3

\* So does start.
LEMMA StartKeeps ==
    ASSUME TakeoverInv, NEW s \in Servers, Start(s)
    PROVE  TakeoverInv'
<1> DEFINE e == [eng[s] EXCEPT !.phase = "up"]
           Ready(r) == [r EXCEPT !.running = TRUE]
           Attended(r) == [r EXCEPT !.running = TRUE,
                                    !.ensure = @ \cup {"call"}]
<1>1. RestTyped' /\ UNCHANGED human /\ eng[s].phase = "starting"
  BY EngineFits DEF Start
<1>2. /\ Fit(e) /\ e.phase = "up" /\ ~e.owns /\ ~e.open /\ ~e.fault
      /\ e.removed = eng[s].removed /\ ~eng[s].owns
  BY <1>1, EngineFits DEF Fit, Engine
<1>3. Fit(Ready(e)) /\ ~Ready(e).owns /\ ~Ready(e).open
  BY <1>2, StartedFits
<1>4. ~e.removed => /\ Fit(Owning(e)) /\ Owning(e).owns
                    /\ Owning(e).phase = "up" /\ ~Owning(e).open
  BY <1>2, OwningFits
<1>5. \/ Become(s, e) /\ LockKept
      \/ Refused(s) /\ Become(s, Ready(e))
      \/ /\ ~e.removed
         /\ Acquired(s)
         /\ \/ \E r \in Probes(s, Owning(e)) :
                  Become(s, Attended(r)) \/ Become(s, Ready(r))
            \/ \E r \in ConnectFailures(s, Owning(e)) :
                  LET d == [r EXCEPT !.state = "disconnected"]
                  IN  Become(s, Ready(d)) \/ Become(s, Attended(d))
            \/ \E r \in Connections(s, Owning(e)) \cup {Owning(e)} :
                  Become(s, r)
  BY DEF Start
<1> HIDE DEF e
<1>6. CASE Become(s, e) /\ LockKept
  BY <1>1, <1>2, <1>6, EngineFits, EngineKeepsLock
<1>7. CASE Refused(s) /\ Become(s, Ready(e))
  <2>1. LockKept
    BY <1>7, HoldRefused
  <2> HIDE DEF Ready
  <2> QED
    BY <1>1, <1>2, <1>3, <1>7, <2>1, EngineFits, EngineKeepsLock
<1>8. ASSUME ~e.removed, Acquired(s),
             NEW r, Fit(r), r.owns, r.phase = "up", r.open => ~Shared(s),
             \/ Become(s, r) \/ Become(s, Ready(r)) \/ Become(s, Attended(r))
      PROVE  TakeoverInv'
  <2>1. Has(s)' /\ OthersHold(s) /\ LockTyped'
    BY <1>8, EngineFits, HoldAcquired
  <2>2. PICK d \in {r, Ready(r), Attended(r)} : Become(s, d)
    BY <1>8
  <2>3. Fit(d) /\ d.owns /\ d.open = r.open
    BY <1>8, <2>2, StartedFits
  <2>4. d.open => ~Shared(s)
    BY <1>8, <2>3
  <2> QED
    BY <1>1, <2>1, <2>2, <2>3, <2>4, EngineStep
<1>9. ASSUME ~e.removed, Acquired(s),
             NEW r \in Probes(s, Owning(e)),
             Become(s, Attended(r)) \/ Become(s, Ready(r))
      PROVE  TakeoverInv'
  <2>1. Fit(r) /\ r.owns /\ r.phase = "up" /\ ~Shared(s)
    BY <1>4, <1>9, ProbesFit
  <2> HIDE DEF Ready, Attended
  <2> QED
    BY <1>8, <1>9, <2>1
<1>10. ASSUME ~e.removed, Acquired(s),
              NEW r \in ConnectFailures(s, Owning(e)),
              LET d == [r EXCEPT !.state = "disconnected"]
              IN  Become(s, Ready(d)) \/ Become(s, Attended(d))
       PROVE  TakeoverInv'
  <2> DEFINE d == [r EXCEPT !.state = "disconnected"]
  <2>1. Fit(r) /\ r.owns /\ r.phase = "up" /\ ~r.open
    BY <1>4, <1>10, FailuresFit
  <2>2. Fit(d) /\ d.owns /\ d.phase = "up" /\ ~d.open
    BY <2>1 DEF Fit, Engine
  <2>3. Become(s, Ready(d)) \/ Become(s, Attended(d))
    BY <1>10
  <2> HIDE DEF d, Ready, Attended
  <2> QED
    BY <1>8, <1>10, <2>2, <2>3
<1>11. ASSUME ~e.removed, Acquired(s),
              NEW r \in Connections(s, Owning(e)) \cup {Owning(e)},
              Become(s, r)
       PROVE  TakeoverInv'
  <2> HIDE DEF Ready, Attended
  <2>1. CASE r = Owning(e)
    BY <1>4, <1>8, <1>11, <2>1
  <2>2. CASE r \in Connections(s, Owning(e))
    <3>1. r = [Owning(e) EXCEPT !.open = TRUE] /\ ~Shared(s) /\ ~Owning(e).fault
      BY <2>2 DEF Connections, Sound
    <3>2. Fit(r) /\ r.owns /\ r.phase = "up"
      BY <1>4, <1>11, <3>1 DEF Fit, Engine
    <3> QED
      BY <1>8, <1>11, <3>1, <3>2
  <2> QED
    BY <1>11, <2>1, <2>2
<1> HIDE DEF Ready, Attended
<1> QED
  BY <1>5, <1>6, <1>7, <1>9, <1>10, <1>11

\* An attempt of claim_serial or resume_serial to connect: o is the record of
\* an engine that has the lock.
LEMMA AttemptKeeps ==
    ASSUME TakeoverInv, OthersKept, NEW s \in Servers,
           Has(s)', OthersHold(s), LockTyped',
           NEW o, Fit(o), o.owns, o.phase = "up", o.open => eng[s].open,
           \/ \E r \in Probes(s, o) :
                 \/ Become(s, [r EXCEPT !.running = TRUE])
                 \/ Become(s, [r EXCEPT !.running = TRUE,
                                        !.ensure = @ \cup {"call"}])
           \/ \E r \in ConnectFailures(s, o) : Become(s, r)
    PROVE  TakeoverInv'
<1>1. RestTyped' /\ UNCHANGED human
  BY EngineFits
<1>2. ASSUME NEW r \in Probes(s, o),
             \/ Become(s, [r EXCEPT !.running = TRUE])
             \/ Become(s, [r EXCEPT !.running = TRUE,
                                    !.ensure = @ \cup {"call"}])
      PROVE  TakeoverInv'
  <2>1. Fit(r) /\ r.owns /\ r.phase = "up" /\ ~Shared(s)
    BY <1>2, ProbesFit
  <2>2. PICK d \in {[r EXCEPT !.running = TRUE],
                    [r EXCEPT !.running = TRUE, !.ensure = @ \cup {"call"}]} :
          Become(s, d)
    BY <1>2
  <2>3. Fit(d) /\ d.owns
    BY <2>1, <2>2, StartedFits
  <2> QED
    BY <1>1, <2>1, <2>2, <2>3, EngineStep
<1>3. ASSUME NEW r \in ConnectFailures(s, o), Become(s, r)
      PROVE  TakeoverInv'
  <2>1. Fit(r) /\ r.owns /\ (r.open => eng[s].open)
    BY <1>3, FailuresFit
  <2> QED
    BY <1>1, <1>3, <2>1, EngineStep
<1> QED
  BY <1>2, <1>3

\* So does the body of serial_claim.
LEMMA ClaimKeeps ==
    ASSUME TakeoverInv, NEW s \in Servers, Claim(s)
    PROVE  TakeoverInv'
<1> DEFINE called == [eng[s] EXCEPT !.claim = FALSE]
           e == IF called.fault
                THEN [called EXCEPT !.fault = FALSE, !.flag = called.owns]
                ELSE called
           Connect(o) ==
               \/ \E r \in Probes(s, o) :
                     Become(s, [r EXCEPT !.running = TRUE,
                                         !.ensure = @ \cup {"call"}])
               \/ \E r \in ConnectFailures(s, o) : Become(s, r)
<1>1. /\ OthersKept /\ eng[s].phase = "up"
      /\ \/ Become(s, called) /\ LockKept
         \/ ~called.removed /\ e.owns /\ Connect(e) /\ LockKept
         \/ ~e.owns /\ Refused(s) /\ Become(s, e)
         \/ ~called.removed /\ Acquired(s) /\ Connect(Owning(e))
  BY DEF Claim, Up
<1>2. /\ Fit(called) /\ called.owns = eng[s].owns /\ called.open = eng[s].open
      /\ called.phase = "up"
  BY <1>1, EngineFits DEF Fit, Engine
<1> HIDE DEF called
<1>3. /\ Fit(e) /\ e.owns = eng[s].owns /\ (e.open => eng[s].open)
      /\ e.phase = "up" /\ ~e.fault /\ e.removed = called.removed
  <2>1. CASE ~called.fault
    BY <1>2, <2>1
  <2>2. CASE called.fault
    <3> DEFINE d == [called EXCEPT !.fault = FALSE, !.flag = called.owns]
    <3>1. Fit(d) /\ d.owns = called.owns /\ d.open = called.open
          /\ d.phase = "up" /\ ~d.fault /\ d.removed = called.removed
      BY <1>2 DEF Fit, Engine
    <3> QED
      BY <1>2, <2>2, <3>1
  <2> QED
    BY <2>1, <2>2
<1> HIDE DEF e
<1>4. CASE Become(s, called) /\ LockKept
  BY <1>1, <1>2, <1>4, EngineFits, EngineKeepsLock
<1>5. CASE ~called.removed /\ e.owns /\ Connect(e) /\ LockKept
  <2>1. Has(s)' /\ OthersHold(s) /\ LockTyped'
    BY <1>3, <1>5, EngineFits, HoldKept
       DEF OthersHold, LockKept, LockTyped, mutexVars
  <2> QED
    BY <1>1, <1>3, <1>5, <2>1, AttemptKeeps
<1>6. CASE ~e.owns /\ Refused(s) /\ Become(s, e)
  <2>1. LockKept
    BY <1>6, HoldRefused
  <2> QED
    BY <1>1, <1>3, <1>6, <2>1, EngineFits, EngineKeepsLock
<1>7. CASE ~called.removed /\ Acquired(s) /\ Connect(Owning(e))
  <2>1. Has(s)' /\ OthersHold(s) /\ LockTyped'
    BY <1>7, EngineFits, HoldAcquired
  <2>2. /\ Fit(Owning(e)) /\ Owning(e).owns /\ Owning(e).phase = "up"
        /\ (Owning(e).open => eng[s].open)
    BY <1>3, <1>7, OwningFits
  <2> QED
    BY <1>1, <1>7, <2>1, <2>2, AttemptKeeps
<1> QED
  BY <1>1, <1>4, <1>5, <1>6, <1>7

\* So does yield_serial_for_human.
LEMMA YieldKeeps ==
    ASSUME TakeoverInv, NEW s \in Servers, Yield(s)
    PROVE  TakeoverInv'
<1> DEFINE e == [eng[s] EXCEPT !.inbox = @ \ {"yield"}]
           r == Manual([e EXCEPT !.tasks = FALSE, !.open = FALSE,
                                 !.owns = FALSE, !.flag = FALSE])
<1>1. /\ RestTyped' /\ UNCHANGED human
      /\ \/ ~e.removed /\ Become(s, r) /\ MutexRelease(s)
         \/ Become(s, e) /\ LockKept
  BY EngineFits DEF Yield
<1>2. Fit(e) /\ e.owns = eng[s].owns /\ e.open = eng[s].open
  BY EngineFits DEF Fit, Engine
<1> HIDE DEF e
<1>3. CASE ~e.removed /\ Become(s, r) /\ MutexRelease(s)
  <2>1. ~Has(s)' /\ OthersHold(s) /\ LockTyped'
    BY <1>3, EngineFits, HoldReleased
  <2>2. r \in Engine /\ ~r.owns /\ ~r.open /\ ~r.flag /\ ~r.tasks
        /\ ~r.removed /\ r.fault = e.fault /\ r.phase = e.phase
        /\ r.ensure = e.ensure
    BY <1>2, <1>3 DEF Fit, Engine, Manual
  <2> HIDE DEF r
  <2>3. Fit(r)
    BY <1>2, <2>2 DEF Fit
  <2> QED
    BY <1>1, <1>3, <2>1, <2>2, <2>3, EngineStep
<1>4. CASE Become(s, e) /\ LockKept
  BY <1>1, <1>2, <1>4, EngineFits, EngineKeepsLock
<1> QED
  BY <1>1, <1>3, <1>4

\* So does resume_serial.
LEMMA ResumeKeeps ==
    ASSUME TakeoverInv, NEW s \in Servers, Resume(s)
    PROVE  TakeoverInv'
<1> DEFINE called == [eng[s] EXCEPT !.inbox = @ \ {"resume"},
                                    !.ensure = @ \cup {"signal"}]
           e == [called EXCEPT !.running = FALSE, !.taken = FALSE]
           refused == [e EXCEPT !.flag = FALSE]
<1>1. /\ OthersKept /\ eng[s].phase = "up"
      /\ \/ Become(s, called) /\ LockKept
         \/ Refused(s) /\ Become(s, refused)
         \/ /\ ~called.removed /\ ~called.fault
            /\ Acquired(s)
            /\ \/ \E r \in Probes(s, Owning(e)) :
                     Become(s, [r EXCEPT !.running = TRUE])
               \/ \E r \in ConnectFailures(s, Owning(e)) : Become(s, r)
  BY DEF Resume, Receives, Up
<1>2. /\ Fit(called) /\ called.owns = eng[s].owns /\ called.open = eng[s].open
      /\ called.phase = "up"
  <2>1. called \in Engine
    <3> DEFINE inbox == eng[s].inbox \ {"resume"}
               ensure == eng[s].ensure \cup {"signal"}
    <3>1. /\ eng[s] \in Engine
          /\ inbox \in SUBSET {"yield", "resume"}
          /\ ensure \in SUBSET {"signal", "call"}
      BY EngineFits DEF Fit, Engine
    <3>2. called = [eng[s] EXCEPT !.inbox = inbox, !.ensure = ensure]
      OBVIOUS
    <3> HIDE DEF inbox, ensure, called
    <3> QED
      BY <3>1, <3>2 DEF Engine
  <2>2. /\ called.owns = eng[s].owns /\ called.open = eng[s].open
        /\ called.phase = "up" /\ called.flag = eng[s].flag
        /\ called.fault = eng[s].fault /\ called.removed = eng[s].removed
        /\ called.taken = eng[s].taken /\ called.ws = eng[s].ws
    BY <1>1, EngineFits DEF Fit, Engine
  <2> HIDE DEF called
  <2> QED
    BY <2>1, <2>2, EngineFits DEF Fit
<1> HIDE DEF called
<1>3. /\ Fit(e) /\ e.owns = eng[s].owns /\ e.open = eng[s].open
      /\ e.phase = "up" /\ e.fault = called.fault /\ e.removed = called.removed
  BY <1>2 DEF Fit, Engine
<1> HIDE DEF e
<1>4. Fit(refused) /\ refused.owns = eng[s].owns /\ refused.open = eng[s].open
  BY <1>3 DEF Fit, Engine
<1> HIDE DEF refused
<1>5. CASE Become(s, called) /\ LockKept
  BY <1>1, <1>2, <1>5, EngineFits, EngineKeepsLock
<1>6. CASE Refused(s) /\ Become(s, refused)
  <2>1. LockKept
    BY <1>6, HoldRefused
  <2> QED
    BY <1>1, <1>4, <1>6, <2>1, EngineFits, EngineKeepsLock
<1>7. ASSUME ~called.removed, ~called.fault, Acquired(s),
             \/ \E r \in Probes(s, Owning(e)) :
                   Become(s, [r EXCEPT !.running = TRUE])
             \/ \E r \in ConnectFailures(s, Owning(e)) : Become(s, r)
      PROVE  TakeoverInv'
  <2>1. Has(s)' /\ OthersHold(s) /\ LockTyped'
    BY <1>7, EngineFits, HoldAcquired
  <2>2. /\ Fit(Owning(e)) /\ Owning(e).owns /\ Owning(e).phase = "up"
        /\ (Owning(e).open => eng[s].open)
    BY <1>3, <1>7, OwningFits
  <2> QED
    BY <1>1, <1>7, <2>1, <2>2, AttemptKeeps
<1> QED
  BY <1>1, <1>5, <1>6, <1>7

-----------------------------------------------------------------------------
(* The steps of the clients.                                               *)

\* So does a WebSocket client that attaches.
LEMMA AttachKeeps ==
    ASSUME TakeoverInv, NEW c \in Clients, NEW s \in Servers, Attach(c, s)
    PROVE  TakeoverInv'
<1> DEFINE e == Manual([eng[s] EXCEPT !.ws = c])
<1>1. RestTyped' /\ UNCHANGED human /\ LockKept /\ Become(s, e)
  BY EngineFits DEF Attach, RestTyped
<1>2. Fit(e) /\ e.owns = eng[s].owns /\ e.open = eng[s].open
  <2>1. e \in Engine
    <3>1. e = [eng[s] EXCEPT !.ws = c, !.state = "dutabo", !.taken = TRUE]
      BY EngineFits DEF Manual, Fit, Engine
    <3>2. eng[s] \in Engine
      BY EngineFits DEF Fit
    <3> HIDE DEF e
    <3> QED
      BY <3>1, <3>2 DEF Engine
  <2>2. /\ e.owns = eng[s].owns /\ e.open = eng[s].open
        /\ e.phase = eng[s].phase /\ e.flag = eng[s].flag
        /\ e.fault = eng[s].fault /\ e.removed = eng[s].removed
        /\ e.tasks = eng[s].tasks /\ e.ensure = eng[s].ensure
    BY EngineFits DEF Manual, Fit, Engine
  <2> HIDE DEF e
  <2> QED
    BY <2>1, <2>2, EngineFits DEF Attach, Fit
<1> HIDE DEF e
<1> QED
  BY <1>1, <1>2, EngineFits, EngineKeepsLock

\* So does one that detaches.
LEMMA DetachKeeps ==
    ASSUME TakeoverInv, NEW c \in Clients, Detach(c)
    PROVE  TakeoverInv'
<1> DEFINE s == attached[c]
           state == IF eng[s].removed \/ eng[s].fault
                    THEN eng[s].state ELSE "live"
           e == [eng[s] EXCEPT !.ws = NoProc, !.state = state, !.taken = FALSE]
<1>1. s \in Servers
  BY DEF Detach, TakeoverInv, TypeOK
<1>2. RestTyped' /\ UNCHANGED human /\ LockKept /\ Become(s, e)
  BY <1>1, EngineFits DEF Detach, RestTyped
<1> HIDE DEF s
<1>3. state \in {"stopped", "disconnected", "live", "quiet", "dutabo"}
  BY <1>1, EngineFits DEF Fit, Engine
<1> HIDE DEF state
<1>4. Fit(e) /\ e.owns = eng[s].owns /\ e.open = eng[s].open
  BY <1>1, <1>3, EngineFits DEF Fit, Engine
<1> HIDE DEF e
<1> QED
  BY <1>1, <1>2, <1>4, EngineFits, EngineKeepsLock

-----------------------------------------------------------------------------
(* The steps of a direct session.                                          *)

\* A signal only reaches the inbox of one engine.
LEMMA SignalFits ==
    ASSUME TakeoverInv, NEW p, NEW sig \in {"yield", "resume"},
           Signal(p, sig) \/ UNCHANGED eng
    PROVE  /\ eng' \in [Servers -> Engine]
           /\ \A s \in Servers : /\ Fit(eng'[s])
                                 /\ eng'[s].owns = eng[s].owns
                                 /\ eng'[s].open = eng[s].open
<1>1. CASE UNCHANGED eng
  BY <1>1 DEF TakeoverInv, TypeOK, EnginesFit
<1>2. ASSUME p \in Servers, eng' = [eng EXCEPT ![p].inbox = @ \cup {sig}]
      PROVE  /\ eng' \in [Servers -> Engine]
             /\ \A s \in Servers : /\ Fit(eng'[s])
                                   /\ eng'[s].owns = eng[s].owns
                                   /\ eng'[s].open = eng[s].open
  <2> DEFINE e == [eng[p] EXCEPT !.inbox = @ \cup {sig}]
  <2>1. Fit(e) /\ e.owns = eng[p].owns /\ e.open = eng[p].open
    BY <1>2, EngineFits DEF Fit, Engine
  <2>2. eng' = [eng EXCEPT ![p] = e]
    BY <1>2
  <2>3. e \in Engine
    BY <2>1 DEF Fit
  <2> HIDE DEF e
  <2> QED
    BY <1>2, <2>1, <2>2, <2>3, EngineFits DEF TakeoverInv, TypeOK
<1> QED
  BY <1>1, <1>2 DEF Signal

\* A step of a direct session changes one human and the lock.
LEMMA SessionStep ==
    ASSUME TakeoverInv, RestTyped', LockTyped',
           NEW h \in Humans, OthersHold(h),
           NEW x \in Session, human' = [human EXCEPT ![h] = x],
           x.phase = "out" => x.asked = NoProc,
           x.phase = "connected" => Has(h)',
           NEW p, NEW sig \in {"yield", "resume"},
           Signal(p, sig) \/ UNCHANGED eng
    PROVE  TakeoverInv'
<1> USE TakeoverAssumption DEF TakeoverInv, TypeOK, RestTyped, LockTyped
<1>1. /\ eng' \in [Servers -> Engine]
      /\ \A s \in Servers : /\ Fit(eng'[s])
                            /\ eng'[s].owns = eng[s].owns
                            /\ eng'[s].open = eng[s].open
  BY SignalFits
<1>2. EnginesFit'
  BY <1>1 DEF EnginesFit, OthersHold
<1>3. OneConnection'
  BY <1>1 DEF OneConnection
<1>4. SessionsHold'
  BY DEF SessionsHold, Connected, OthersHold
<1> QED
  BY <1>1, <1>2, <1>3, <1>4

\* The steps of a direct session keep the invariant.
LEMMA HumanKeeps ==
    ASSUME TakeoverInv, NEW h \in Humans, HumanStep(h)
    PROVE  TakeoverInv'
<1>1. /\ human[h] \in Session /\ human \in [Humans -> Session]
      /\ h \in Procs /\ LockTyped /\ RestTyped
  BY TakeoverAssumption DEF TakeoverInv, TypeOK, LockTyped, RestTyped
<1>2. LockKept => LockTyped' /\ OthersHold(h) /\ (Has(h)' <=> Has(h))
  BY <1>1, HoldKept DEF LockTyped, LockKept, mutexVars, OthersHold
<1>3. MutexRelease(h) => LockTyped' /\ OthersHold(h)
  BY <1>1, HoldReleased
<1>4. UNCHANGED <<attached, troubles>> => RestTyped'
  BY <1>1 DEF RestTyped
<1>5. NoSession \in Session
  BY DEF NoSession, Session
<1> DEFINE x(phase) == [human[h] EXCEPT !.phase = phase]
<1>6. ASSUME NEW phase \in {"seeking", "locked", "connected", "released"}
      PROVE  x(phase) \in Session /\ x(phase).phase = phase
  BY <1>1 DEF Session
<1> USE DEF NoSession
<1>7. CASE HumanSeeks(h)
  <2>1. human' = [human EXCEPT ![h] = x("seeking")]
    BY <1>7 DEF HumanSeeks
  <2> HIDE DEF x
  <2> QED
    BY <1>2, <1>4, <1>6, <1>7, <2>1, SessionStep DEF HumanSeeks
<1>8. CASE HumanAsks(h)
  <2> DEFINE y == [human[h] EXCEPT !.asked = owner]
  <2>1. human' = [human EXCEPT ![h] = y] /\ y \in Session /\ y.phase = "seeking"
    BY <1>1, <1>8 DEF HumanAsks, Session
  <2> HIDE DEF y
  <2> QED
    BY <1>2, <1>4, <1>8, <2>1, SessionStep DEF HumanAsks
<1>9. CASE HumanGivesUp(h)
  BY <1>2, <1>4, <1>5, <1>9, SessionStep DEF HumanGivesUp
<1>10. CASE HumanLocks(h)
  <2>1. human' = [human EXCEPT ![h] = x("locked")] /\ Acquired(h)
    BY <1>10 DEF HumanLocks
  <2>2. Has(h)' /\ OthersHold(h) /\ LockTyped'
    BY <1>1, <2>1, HoldAcquired
  <2> HIDE DEF x
  <2> QED
    BY <1>4, <1>6, <1>10, <2>1, <2>2, SessionStep DEF HumanLocks
<1>11. CASE HumanConnects(h)
  <2>1. ASSUME owner = h, human' = [human EXCEPT ![h] = x("connected")], LockKept,
               UNCHANGED eng
        PROVE  TakeoverInv'
    <3>1. Has(h)'
      BY <1>2, <2>1 DEF Has
    <3> HIDE DEF x
    <3> QED
      BY <1>2, <1>4, <1>6, <1>11, <2>1, <3>1, SessionStep DEF HumanConnects
  <2>2. ASSUME human' = [human EXCEPT ![h] = NoSession], MutexRelease(h),
               Signal(human[h].asked, "resume") \/ UNCHANGED eng
        PROVE  TakeoverInv'
    BY <1>3, <1>4, <1>5, <1>11, <2>2, SessionStep DEF HumanConnects
  <2> QED
    BY <1>11, <2>1, <2>2 DEF HumanConnects
<1>12. CASE HumanLeaves(h)
  <2>1. human' = [human EXCEPT ![h] = x("released")]
    BY <1>12 DEF HumanLeaves
  <2> HIDE DEF x
  <2> QED
    BY <1>3, <1>4, <1>6, <1>12, <2>1, SessionStep DEF HumanLeaves
<1>13. CASE HumanRestores(h)
  BY <1>2, <1>4, <1>5, <1>13, SessionStep DEF HumanRestores
<1>14. CASE HumanDies(h)
  <2>1. RestTyped'
    BY <1>1, <1>14, TakeoverAssumption DEF HumanDies, Trouble, RestTyped
  <2> QED
    BY <1>3, <1>5, <1>14, <2>1, SessionStep DEF HumanDies
<1> QED
  BY <1>7, <1>8, <1>9, <1>10, <1>11, <1>12, <1>13, <1>14 DEF HumanStep

\* The lock file goes: its owner has a file still, if not the named one.
LEMMA ReplaceKeeps ==
    ASSUME TakeoverInv, Replace
    PROVE  TakeoverInv'
<1> USE TakeoverAssumption
        DEF TakeoverInv, TypeOK, Replace, MutexLose, Trouble
<1>1. \A p \in Procs : Has(p)' <=> Has(p)
  BY DEF Has
<1>2. EnginesFit'
  BY <1>1 DEF EnginesFit
<1>3. SessionsHold'
  BY <1>1 DEF SessionsHold, Connected
<1>4. TypeOK' /\ OneConnection'
  BY DEF OneConnection
<1> QED
  BY <1>2, <1>3, <1>4

-----------------------------------------------------------------------------
(* The theorems.                                                           *)

\* The first state satisfies the invariant.
LEMMA TakeoverInit == Init => TakeoverInv
<1> SUFFICES ASSUME Init PROVE TakeoverInv
  OBVIOUS
<1> USE TakeoverAssumption DEF Init, MutexInit
<1>1. \A s \in Servers : eng[s] = NewEngine("starting")
  OBVIOUS
<1>2. EnginesFit
  BY <1>1, NewFits DEF EnginesFit, Has
<1>3. OneConnection
  BY <1>1, NewFits DEF OneConnection
<1>4. SessionsHold
  BY DEF SessionsHold, Connected, NoSession
<1>5. TypeOK
  <2>1. eng \in [Servers -> Engine]
    BY NewFits DEF Fit
  <2>2. NoSession \in Session /\ NoSession.asked = NoProc
    BY DEF NoSession, Session
  <2> QED
    BY <2>1, <2>2 DEF TypeOK
<1> QED
  BY <1>2, <1>3, <1>4, <1>5 DEF TakeoverInv

\* Every step keeps it.
LEMMA TakeoverStep == TakeoverInv /\ [Next]_vars => TakeoverInv'
<1> SUFFICES ASSUME TakeoverInv, [Next]_vars PROVE TakeoverInv'
  OBVIOUS
<1>1. ASSUME NEW s \in Servers, ServerStep(s) PROVE TakeoverInv'
  BY <1>1, BootKeeps, StartKeeps, EnsureTasksKeeps, ExitKeeps, RetireKeeps,
     AdmitClaimKeeps, ClaimKeeps, YieldKeeps, ResumeKeeps, TasksLatch,
     BackoffElapsesKeeps, ArmBackoffKeeps, ReadErrorKeeps, DutChangesKeeps
  DEF ServerStep
<1>2. ASSUME NEW h \in Humans, HumanStep(h) PROVE TakeoverInv'
  BY <1>2, HumanKeeps
<1>3. ASSUME NEW c \in Clients, NEW s \in Servers, Attach(c, s)
      PROVE  TakeoverInv'
  BY <1>3, AttachKeeps
<1>4. ASSUME NEW c \in Clients, Detach(c) PROVE TakeoverInv'
  BY <1>4, DetachKeeps
<1>5. CASE Replace
  BY <1>5, ReplaceKeeps
<1>6. CASE UNCHANGED vars
  BY <1>6 DEF vars, TakeoverInv, TypeOK, EnginesFit, Has, OneConnection,
              SessionsHold, Connected
<1> QED
  BY <1>1, <1>2, <1>3, <1>4, <1>5, <1>6 DEF Next

\* owns_serial_lock never misjudges the lock, a connection and the tools need
\* it, and at most one engine is connected: in every behaviour.
THEOREM TakeoverCorrect == Spec => []TakeoverInv
BY TakeoverInit, TakeoverStep, PTL DEF Spec

\* The variables keep their types.
THEOREM TakeoverTyped == Spec => []TypeOK
<1>1. TakeoverInv => TypeOK
  BY DEF TakeoverInv
<1> QED
  BY <1>1, TakeoverCorrect, PTL

\* One line, one user: servers, whatever is done to their lock files, never
\* share the line, and an intact direct session shares it with nobody intact.
THEOREM LineIsExclusive == Spec => []ExclusiveLine
<1>1. TakeoverInv => ExclusiveLine
  <2> SUFFICES ASSUME TakeoverInv PROVE ExclusiveLine
    OBVIOUS
  <2> USE TakeoverAssumption DEF TakeoverInv
  <2>1. \A s \in Servers \ lost : eng[s].open \/ eng[s].flag => owner = s
    BY DEF EnginesFit, Fit, Has
  <2>2. \A h \in Humans \ lost : Connected(h) => owner = h
    BY DEF SessionsHold, Has
  <2> QED
    BY <2>1, <2>2 DEF ExclusiveLine, OneConnection
<1> QED
  BY <1>1, TakeoverCorrect, PTL

\* A removed DUT stays released, whatever arrives late.
THEOREM RemovalLasts == Spec => []RemovedIsFinal
<1>1. TakeoverInv => RemovedIsFinal
  BY DEF TakeoverInv, EnginesFit, Fit, Has, RemovedIsFinal
<1> QED
  BY <1>1, TakeoverCorrect, PTL

-----------------------------------------------------------------------------
(* Faults.                                                                 *)

\* A step that lifts the fault of s is its claim.
Lifts(s) == eng[s].fault /\ (eng'[s].open \/ eng'[s].flag)
OnlyClaims == \A s \in Servers : Lifts(s) => eng[s].claim /\ ~eng'[s].claim

\* A latched engine serves and is not connected, and a step that gives an
\* engine a record without connection and tools lifts nothing.
LEMMA LatchedStep ==
    ASSUME TakeoverInv, NEW s \in Servers, NEW e, Become(s, e),
           eng[s].fault => ~e.open /\ ~e.flag
    PROVE  OnlyClaims
<1> USE DEF TakeoverInv, TypeOK, EnginesFit, Fit, Become
<1> QED
  BY DEF OnlyClaims, Lifts

\* A claim has returned when it lifted the fault.
LEMMA ClaimReturns ==
    ASSUME TakeoverInv, NEW s \in Servers, Claim(s)
    PROVE  eng[s].claim /\ ~eng'[s].claim
<1> DEFINE called == [eng[s] EXCEPT !.claim = FALSE]
           e == IF called.fault
                THEN [called EXCEPT !.fault = FALSE, !.flag = called.owns]
                ELSE called
           Connect(o) ==
               \/ \E r \in Probes(s, o) :
                     Become(s, [r EXCEPT !.running = TRUE,
                                         !.ensure = @ \cup {"call"}])
               \/ \E r \in ConnectFailures(s, o) : Become(s, r)
<1>1. /\ eng[s].claim /\ eng[s].phase = "up"
      /\ \/ Become(s, called)
         \/ e.owns /\ Connect(e)
         \/ Become(s, e)
         \/ ~called.removed /\ ~e.owns /\ Connect(Owning(e))
  BY DEF Claim, Up
<1>2. /\ Fit(called) /\ ~called.claim /\ called.phase = "up"
      /\ eng \in [Servers -> Engine]
  <2>1. eng \in [Servers -> Engine] /\ eng[s].phase = "up" /\ Fit(eng[s])
    BY <1>1, EngineFits DEF TakeoverInv, TypeOK
  <2> QED
    BY <2>1 DEF Fit, Engine
<1> HIDE DEF called
<1>3. /\ Fit(e) /\ ~e.claim /\ e.phase = "up" /\ ~e.fault
      /\ e.removed = called.removed
  <2>1. CASE ~called.fault
    BY <1>2, <2>1
  <2>2. CASE called.fault
    <3> DEFINE d == [called EXCEPT !.fault = FALSE, !.flag = called.owns]
    <3>1. /\ Fit(d) /\ ~d.claim /\ d.phase = "up" /\ ~d.fault
          /\ d.removed = called.removed
      BY <1>2 DEF Fit, Engine
    <3> QED
      BY <2>2, <3>1
  <2> QED
    BY <2>1, <2>2
<1> HIDE DEF e
<1>4. ASSUME NEW o, Fit(o), o.owns, o.phase = "up", ~o.claim, Connect(o)
      PROVE  ~eng'[s].claim
  <2>1. ASSUME NEW r \in Probes(s, o),
               Become(s, [r EXCEPT !.running = TRUE, !.ensure = @ \cup {"call"}])
        PROVE  ~eng'[s].claim
    <3>1. Fit(r) /\ ~r.claim
      BY <1>4, <2>1, ProbesFit
    <3> QED
      BY <1>2, <2>1, <3>1 DEF Fit, Engine, Become
  <2>2. ASSUME NEW r \in ConnectFailures(s, o), Become(s, r)
        PROVE  ~eng'[s].claim
    <3> HIDE DEF Connect
    <3>1. Fit(r) /\ r.claim = o.claim
      BY <1>4, <2>2, FailuresFit
    <3> QED
      BY <1>2, <1>4, <2>2, <3>1 DEF Become
  <2> QED
    BY <1>4, <2>1, <2>2
<1>5. CASE Become(s, called)
  BY <1>1, <1>2, <1>5 DEF Become
<1>6. CASE e.owns /\ Connect(e)
  BY <1>1, <1>3, <1>4, <1>6
<1>7. CASE Become(s, e)
  BY <1>1, <1>2, <1>3, <1>7 DEF Become
<1>8. CASE ~called.removed /\ Connect(Owning(e))
  <2>1. /\ Fit(Owning(e)) /\ Owning(e).owns /\ Owning(e).phase = "up"
        /\ ~Owning(e).claim
    BY <1>3, <1>8, OwningFits
  <2> QED
    BY <1>1, <1>4, <1>8, <2>1
<1> QED
  BY <1>1, <1>5, <1>6, <1>7, <1>8

\* The engine of a claim only.
LEMMA ClaimLifts ==
    ASSUME TakeoverInv, NEW s \in Servers, Claim(s)
    PROVE  OnlyClaims
<1>1. \E e : Become(s, e)
  BY DEF Claim
<1>2. \A t \in Servers \ {s} : ~Lifts(t)
  BY <1>1 DEF Become, Lifts, TakeoverInv, TypeOK, EnginesFit, Fit
<1> QED
  BY <1>2, ClaimReturns DEF OnlyClaims

\* Of the steps of a server, only a claim lifts a latched fault.
LEMMA ServerLifts ==
    ASSUME TakeoverInv, NEW s \in Servers, ServerStep(s)
    PROVE  OnlyClaims
<1>1. Fit(eng[s])
  BY EngineFits
<1>2. CASE Boot(s)
  BY <1>2, NewFits, LatchedStep DEF Boot, NewEngine
<1>3. CASE Start(s) \/ BackoffElapses(s) \/ ArmBackoff(s) \/ ReadError(s)
           \/ DutChanges(s) \/ CheckIdentity(s) \/ WatchdogAudit(s)
  <2>1. ~eng[s].fault
    BY <1>1, <1>3 DEF Fit, Start, BackoffElapses, ArmBackoff, ReadError,
        DutChanges, CheckIdentity, WatchdogAudit, LoopRuns, Sound, Shaken
  <2>2. \E e : Become(s, e)
    BY <1>3 DEF Start, BackoffElapses, ArmBackoff, ReadError, Reconnect,
        DutChanges, CheckIdentity, WatchdogAudit
  <2> QED
    BY <2>1, <2>2, LatchedStep
<1>4. CASE EnsureTasks(s)
  <2>1. PICK by \in eng[s].ensure :
            Become(s, [eng[s] EXCEPT !.ensure = @ \ {by}, !.tasks = TRUE])
    BY <1>4 DEF EnsureTasks
  <2> DEFINE e == [eng[s] EXCEPT !.ensure = @ \ {by}, !.tasks = TRUE]
  <2>2. e.open = eng[s].open /\ e.flag = eng[s].flag
    BY <1>1 DEF Fit, Engine
  <2> HIDE DEF e
  <2> QED
    BY <1>1, <2>1, <2>2, LatchedStep DEF Fit, e
<1>5. CASE Exit(s)
  BY <1>5, LatchedStep DEF Exit, NewEngine
<1>6. CASE Retire(s)
  <2> DEFINE r == [eng[s] EXCEPT !.removed = TRUE, !.ws = NoProc,
                       !.armed = FALSE, !.taken = FALSE, !.running = FALSE,
                       !.tasks = FALSE, !.open = FALSE, !.owns = FALSE,
                       !.flag = FALSE, !.state = "stopped", !.fault = FALSE]
  <2>1. Become(s, r) /\ ~r.open /\ ~r.flag
    BY <1>1, <1>6 DEF Retire, Fit, Engine
  <2> HIDE DEF r
  <2> QED
    BY <2>1, LatchedStep
<1>7. CASE AdmitClaim(s)
  <2> DEFINE e == [eng[s] EXCEPT !.claim = TRUE]
  <2>1. Become(s, e) /\ e.open = eng[s].open /\ e.flag = eng[s].flag
    BY <1>1, <1>7 DEF AdmitClaim, Fit, Engine
  <2> HIDE DEF e
  <2> QED
    BY <1>1, <2>1, LatchedStep DEF Fit
<1>8. CASE Claim(s)
  BY <1>8, ClaimLifts
<1>9. CASE Yield(s)
  <2> DEFINE e == [eng[s] EXCEPT !.inbox = @ \ {"yield"}]
             r == Manual([e EXCEPT !.tasks = FALSE, !.open = FALSE,
                                   !.owns = FALSE, !.flag = FALSE])
  <2>1. Become(s, r) \/ Become(s, e)
    BY <1>9 DEF Yield
  <2>2. /\ e.open = eng[s].open /\ e.flag = eng[s].flag
        /\ ~r.open /\ ~r.flag
    BY <1>1 DEF Manual, Fit, Engine
  <2> HIDE DEF e, r
  <2> QED
    BY <1>1, <2>1, <2>2, LatchedStep DEF Fit
<1>10. CASE Resume(s)
  <2> DEFINE called == [eng[s] EXCEPT !.inbox = @ \ {"resume"},
                                      !.ensure = @ \cup {"signal"}]
  <2>1. called.open = eng[s].open /\ called.flag = eng[s].flag
        /\ called.fault = eng[s].fault
    BY <1>1 DEF Fit, Engine
  <2>2. Become(s, called) \/ (~called.fault /\ \E e : Become(s, e))
    BY <1>10 DEF Resume
  <2> HIDE DEF called
  <2>3. CASE Become(s, called)
    BY <1>1, <2>1, <2>3, LatchedStep DEF Fit
  <2>4. CASE ~called.fault /\ \E e : Become(s, e)
    BY <2>1, <2>4, LatchedStep
  <2> QED
    BY <2>2, <2>3, <2>4
<1> QED
  BY <1>2, <1>3, <1>4, <1>5, <1>6, <1>7, <1>8, <1>9, <1>10 DEF ServerStep

\* A client's step lifts no latched fault.
LEMMA ClientLifts ==
    ASSUME TakeoverInv, NEW c \in Clients,
           (\E s \in Servers : Attach(c, s)) \/ Detach(c)
    PROVE  OnlyClaims
<1>1. ASSUME NEW s \in Servers, Attach(c, s) PROVE OnlyClaims
  BY <1>1, LatchedStep DEF Attach
<1>2. CASE Detach(c)
  <2> DEFINE s == attached[c]
             state == IF eng[s].removed \/ eng[s].fault
                      THEN eng[s].state ELSE "live"
             e == [eng[s] EXCEPT !.ws = NoProc, !.state = state,
                                 !.taken = FALSE]
  <2>1. s \in Servers /\ Become(s, e)
    BY <1>2 DEF Detach, TakeoverInv, TypeOK
  <2> HIDE DEF s, state
  <2>2. e.open = eng[s].open /\ e.flag = eng[s].flag /\ Fit(eng[s])
    BY <2>1, EngineFits DEF Fit, Engine
  <2> HIDE DEF e
  <2> QED
    BY <2>1, <2>2, LatchedStep DEF Fit
<1> QED
  BY <1>1, <1>2

\* Neither does a signal.
LEMMA SignalLifts ==
    ASSUME TakeoverInv, NEW p, NEW sig, Signal(p, sig) \/ UNCHANGED eng
    PROVE  OnlyClaims
<1>1. \A s \in Servers : eng'[s].open = eng[s].open /\ eng'[s].flag = eng[s].flag
  BY DEF Signal, TakeoverInv, TypeOK, Engine
<1> QED
  BY <1>1 DEF OnlyClaims, Lifts, TakeoverInv, EnginesFit, Fit

\* Neither does a direct session.
LEMMA HumanLifts ==
    ASSUME TakeoverInv, NEW h \in Humans, HumanStep(h)
    PROVE  OnlyClaims
BY SignalLifts
   DEF HumanStep, HumanSeeks, HumanAsks, HumanGivesUp, HumanLocks,
       HumanConnects, HumanLeaves, HumanRestores, HumanDies

\* After a latched fault only a serial_claim opens the line or the tools again.
THEOREM FaultsNeedClaims == Spec => FaultNeedsClaim
<1>1. TakeoverInv /\ [Next]_vars => OnlyClaims
  <2> SUFFICES ASSUME TakeoverInv, [Next]_vars PROVE OnlyClaims
    OBVIOUS
  <2>1. CASE Replace
    BY <2>1, SignalLifts DEF Replace
  <2>2. CASE UNCHANGED vars
    BY <2>2, SignalLifts DEF vars
  <2> QED
    BY <2>1, <2>2, ServerLifts, HumanLifts, ClientLifts DEF Next
<1>2. TakeoverInv /\ [Next]_vars =>
         [\A s \in Servers :
             eng[s].fault /\ (eng'[s].open \/ eng'[s].flag)
                => eng[s].claim /\ ~eng'[s].claim]_vars
  BY <1>1 DEF OnlyClaims, Lifts
<1> QED
  BY <1>2, TakeoverCorrect, PTL DEF Spec, FaultNeedsClaim

=============================================================================
