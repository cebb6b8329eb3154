--------------------------- MODULE SerialTakeover ---------------------------
(***************************************************************************)
(* Who may use the serial line: the engines of the servers of one endpoint *)
(* (src/sermcp/src/serial_engine.rs), the `dutabo serial` processes that   *)
(* take the line directly (bin/dutabo.rs), and the interactive clients of  *)
(* a server's WebSocket relay (mcp_http.rs).                               *)
(*                                                                         *)
(* The processes share the endpoint lock, here the EndpointMutex that      *)
(* lock_manager.rs implements (EndpointLock), and the signals SIGUSR1      *)
(* (yield) and SIGUSR2 (resume).  A handler runs under its engine's mutex, *)
(* so it is one action; the handlers of one engine and the steps of the    *)
(* processes interleave in any order.                                      *)
(***************************************************************************)
EXTENDS EndpointMutex, Naturals

CONSTANTS
    Servers,       \* MCP servers configured for the endpoint
    MultiServers,  \* those that serve several DUTs and ignore the signals
    Humans,        \* `dutabo serial` processes that connect directly
    Clients,       \* interactive clients of the WebSocket relays
    MaxTroubles    \* bound: processes that end, files replaced, DUTs retired
                   \* and connections that the watchdog finds shared

ASSUME TakeoverAssumption ==
    /\ Procs = Servers \cup Humans
    /\ Servers \cap Humans = {}
    /\ MultiServers \subseteq Servers
    /\ NoProc \notin Procs \cup Clients
    /\ MaxTroubles \in Nat

VARIABLES
    eng,           \* the engine of each server
    human,         \* the direct sessions
    attached,      \* the server each client is attached to
    troubles       \* counter for MaxTroubles

vars == <<owner, lost, eng, human, attached, troubles>>

\* phase    the process: not running, startup_in_progress, or serving
\* owns     owns_serial_lock            flag   flags.owns_serial_lock
\* taken    flags.dutabo_taken          ws     ws_tx, by the client behind it
\* open     the console is connected    armed  reconnect_after is set
\* running  running                     removed  flags.removed
\* state    the target state; "live" stands for Active and Booting, "quiet"
\*          for DutOff, UBoot and Crashed
\* fault    serial_error holds the code of a latched endpoint fault
\* tasks    the read loop and the watchdog run
\* ensure   calls of ensure_background_tasks yet to run: by the signal task,
\*          by anybody else
\* claim    a serial_claim that passed takeover_rejection
\* inbox    signals the signal task has not received
Engine ==
    [phase : {"down", "starting", "up"},
     owns : BOOLEAN, flag : BOOLEAN, taken : BOOLEAN,
     ws : Clients \cup {NoProc}, open : BOOLEAN, armed : BOOLEAN,
     running : BOOLEAN, removed : BOOLEAN,
     state : {"stopped", "disconnected", "live", "quiet", "dutabo"},
     fault : BOOLEAN,
     tasks : BOOLEAN, ensure : SUBSET {"signal", "call"}, claim : BOOLEAN,
     inbox : SUBSET {"yield", "resume"}]

NewEngine(phase) ==
    [phase |-> phase, owns |-> FALSE, flag |-> FALSE, taken |-> FALSE,
     ws |-> NoProc, open |-> FALSE, armed |-> FALSE, running |-> FALSE,
     removed |-> FALSE, state |-> "stopped", fault |-> FALSE,
     tasks |-> FALSE, ensure |-> {}, claim |-> FALSE, inbox |-> {}]

\* A direct session and the last server it asked to yield.
Session == [phase : {"out", "seeking", "locked", "connected", "released"},
            asked : Servers \cup {NoProc}]
NoSession == [phase |-> "out", asked |-> NoProc]

Init ==
    /\ MutexInit
    /\ eng = [s \in Servers |-> NewEngine("starting")]
    /\ human = [h \in Humans |-> NoSession]
    /\ attached = [c \in Clients |-> NoProc]
    /\ troubles = 0

Up(s) == eng[s].phase = "up"
Become(s, e) == eng' = [eng EXCEPT ![s] = e]
Signal(s, sig) ==
    IF s \in Servers /\ s \notin MultiServers /\ eng[s].phase # "down"
    THEN eng' = [eng EXCEPT ![s].inbox = @ \cup {sig}]
    ELSE UNCHANGED eng

LockKept == UNCHANGED mutexVars
OthersKept == UNCHANGED <<human, attached, troubles>>
Trouble == troubles < MaxTroubles /\ troubles' = troubles + 1

\* acquire_lock: a process that holds the named file has it already; one that
\* lost it is refused until it releases its descriptor.
Acquired(p) == (owner = p /\ LockKept) \/ MutexAcquire(p)
Refused(p) == owner # p /\ (owner # NoProc \/ p \in lost) /\ LockKept

-----------------------------------------------------------------------------
(* Parts of the engine's handlers, as functions of the engine's record.    *)

\* latch_endpoint_fault.
Latched(e) ==
    [e EXCEPT !.open = FALSE, !.armed = FALSE, !.ws = NoProc,
              !.taken = FALSE, !.flag = FALSE, !.fault = TRUE,
              !.state = "disconnected"]

\* begin_manual_session.
Manual(e) == [e EXCEPT !.state = "dutabo", !.taken = TRUE]

Owning(e) == [e EXCEPT !.owns = TRUE, !.flag = TRUE]

\* check_endpoint_identity.
Shaken(s, e) == ~e.removed /\ ~e.fault /\ e.owns /\ s \in lost
Sound(s, e) == ~e.removed /\ ~e.fault /\ ~Shaken(s, e)

\* Somebody else on this host is connected to the endpoint.
Shared(s) ==
    \/ \E t \in Servers \ {s} : eng[t].open
    \/ \E h \in Humans : human[h].phase = "connected"

\* connect_serial: an endpoint that somebody else is connected to, or that
\* cannot be audited, is a fault.
ConnectFailures(s, e) ==
    IF Shaken(s, e) THEN {Latched(e)}
    ELSE IF ~Sound(s, e) THEN {e}
    ELSE {[e EXCEPT !.open = FALSE], Latched(e)}

\* Mutant: the connection is not audited.
ConnectionsUnaudited(s, e) ==
    IF Sound(s, e) THEN {[e EXCEPT !.open = TRUE]} ELSE {}

Connections(s, e) ==
    IF Sound(s, e) /\ ~Shared(s) THEN {[e EXCEPT !.open = TRUE]} ELSE {}

\* probe_initial_state: what the DUT does; or the read fails, or ser2net
\* announces another port.
Probed(e) ==
    {[e EXCEPT !.state = st] : st \in {"live", "quiet", "disconnected"}}

\* A connection and its probe.
Probes(s, e) == UNION {Probed(c) : c \in Connections(s, e)}

-----------------------------------------------------------------------------
(* Starting and stopping a server.                                         *)

\* A new server process for this endpoint.
Boot(s) ==
    /\ eng[s].phase = "down"
    /\ Become(s, NewEngine("starting"))
    /\ LockKept /\ OthersKept

\* start_shared and start; the tasks are ensured unless serial_error was set,
\* which a probe does that finds another port.
Start(s) ==
    LET e == [eng[s] EXCEPT !.phase = "up"]
        Ready(r) == [r EXCEPT !.running = TRUE]
        Attended(r) == [Ready(r) EXCEPT !.ensure = @ \cup {"call"}]
    IN  /\ eng[s].phase = "starting"
        /\ \/ \* removed already, or a bad configuration
              /\ Become(s, e)
              /\ LockKept
           \/ /\ ~e.removed
              /\ Refused(s)
              /\ Become(s, Ready(e))
           \/ /\ ~e.removed
              /\ Acquired(s)
              /\ \/ \E r \in Probes(s, Owning(e)) :
                       \/ Become(s, Attended(r))
                       \/ r.state = "disconnected" /\ Become(s, Ready(r))
                 \/ \E r \in ConnectFailures(s, Owning(e)) :
                       LET d == [r EXCEPT !.state = "disconnected"]
                       IN  Become(s, IF d.fault THEN Ready(d) ELSE Attended(d))
                 \/ \* record_startup_timeout: start is dropped on its way
                    \E r \in Connections(s, Owning(e)) \cup {Owning(e)} :
                       Become(s, r)
        /\ OthersKept

\* ensure_background_tasks.
EnsureTasks(s) ==
    /\ \E by \in eng[s].ensure :
          Become(s, [eng[s] EXCEPT !.ensure = @ \ {by}, !.tasks = TRUE])
    /\ LockKept /\ OthersKept

\* The process ends, by stop() or by a crash: the kernel releases its lock and
\* closes its sockets.
Exit(s) ==
    /\ eng[s].phase # "down"
    /\ Become(s, NewEngine("down"))
    /\ attached' = [c \in Clients |->
                      IF attached[c] = s THEN NoProc ELSE attached[c]]
    /\ MutexRelease(s)
    /\ Trouble /\ UNCHANGED human

\* Mutant: a retired engine keeps the lock.
RetireKeepingLock(s) ==
    /\ eng[s].phase # "down" /\ ~eng[s].removed
    /\ Become(s, [eng[s] EXCEPT !.removed = TRUE, !.ws = NoProc,
                     !.armed = FALSE, !.taken = FALSE, !.running = FALSE,
                     !.tasks = FALSE, !.open = FALSE, !.owns = FALSE,
                     !.flag = FALSE, !.state = "stopped", !.fault = FALSE])
    /\ LockKept /\ Trouble /\ UNCHANGED <<human, attached>>

\* retire_from_project and stop: the DUT left the saved configuration.
Retire(s) ==
    /\ eng[s].phase # "down" /\ ~eng[s].removed
    /\ Become(s, [eng[s] EXCEPT !.removed = TRUE, !.ws = NoProc,
                     !.armed = FALSE, !.taken = FALSE, !.running = FALSE,
                     !.tasks = FALSE, !.open = FALSE, !.owns = FALSE,
                     !.flag = FALSE, !.state = "stopped", !.fault = FALSE])
    /\ IF eng[s].owns THEN MutexRelease(s) ELSE LockKept
    /\ Trouble /\ UNCHANGED <<human, attached>>

-----------------------------------------------------------------------------
(* serial_claim.                                                           *)

\* takeover_rejection lets a claim pass, whoever owns the lock.
AdmitClaim(s) ==
    /\ Up(s) /\ (\A t \in Servers : ~eng[t].claim) /\ ~eng[s].removed /\ ~eng[s].taken
    /\ Become(s, [eng[s] EXCEPT !.claim = TRUE])
    /\ LockKept /\ OthersKept

\* claim_serial, and ensure_background_tasks when it succeeds.
Claim(s) ==
    LET called == [eng[s] EXCEPT !.claim = FALSE]
        e == IF called.fault
             THEN [called EXCEPT !.fault = FALSE, !.flag = called.owns]
             ELSE called
        Connect(o) ==
            \/ \E r \in Probes(s, o) :
                  Become(s, [r EXCEPT !.running = TRUE,
                                      !.ensure = @ \cup {"call"}])
            \/ \E r \in ConnectFailures(s, o) : Become(s, r)
    IN  /\ Up(s) /\ eng[s].claim
        /\ \/ /\ \/ called.removed
                 \/ called.fault /\ called.owns /\ s \in lost
              /\ Become(s, called)
              /\ LockKept
           \/ /\ ~called.removed
              /\ ~(called.fault /\ s \in lost)
              /\ e.owns
              /\ Connect(e)
              /\ LockKept
           \/ /\ ~called.removed /\ ~e.owns
              /\ Refused(s)
              /\ Become(s, e)
           \/ /\ ~called.removed /\ ~e.owns
              /\ Acquired(s)
              /\ Connect(Owning(e))
        /\ OthersKept

-----------------------------------------------------------------------------
(* The signal task.                                                        *)

Receives(s, sig) ==
    /\ sig \in eng[s].inbox
    /\ "signal" \notin eng[s].ensure
    /\ Up(s)

\* yield_serial_for_human.
Yield(s) ==
    LET e == [eng[s] EXCEPT !.inbox = @ \ {"yield"}]
    IN  /\ Receives(s, "yield")
        /\ IF ~e.removed /\ (e.owns \/ owner = s)
           THEN /\ Become(s, Manual([e EXCEPT !.tasks = FALSE, !.open = FALSE,
                                       !.owns = FALSE, !.flag = FALSE]))
                /\ MutexRelease(s)
           ELSE Become(s, e) /\ LockKept
        /\ OthersKept

\* Mutant: a resume does not look for a latched fault.
ResumeFaulted(s) ==
    LET e == [eng[s] EXCEPT !.inbox = @ \ {"resume"},
                            !.ensure = @ \cup {"signal"},
                            !.running = FALSE, !.taken = FALSE,
                            !.fault = FALSE]
    IN  /\ Receives(s, "resume")
        /\ Acquired(s)
        /\ \/ \E r \in Probes(s, Owning(e)) :
                 Become(s, [r EXCEPT !.running = TRUE])
           \/ \E r \in ConnectFailures(s, Owning(e)) : Become(s, r)
        /\ OthersKept

\* resume_serial, then ensure_background_tasks whatever it did.
Resume(s) ==
    LET called == [eng[s] EXCEPT !.inbox = @ \ {"resume"},
                                 !.ensure = @ \cup {"signal"}]
        e == [called EXCEPT !.running = FALSE, !.taken = FALSE]
    IN  /\ Receives(s, "resume")
        /\ \/ /\ called.removed \/ called.fault
              /\ Become(s, called)
              /\ LockKept
           \/ /\ ~called.removed /\ ~called.fault
              /\ Refused(s)
              /\ Become(s, [e EXCEPT !.flag = FALSE])
           \/ /\ ~called.removed /\ ~called.fault
              /\ Acquired(s)
              /\ \/ \E r \in Probes(s, Owning(e)) :
                       Become(s, [r EXCEPT !.running = TRUE])
                 \/ \E r \in ConnectFailures(s, Owning(e)) : Become(s, r)
        /\ OthersKept

-----------------------------------------------------------------------------
(* The read loop and the watchdog.                                         *)

\* Mutant: the tasks look at the identity of a running engine only.
CheckIdentityRunning(s) ==
    /\ eng[s].tasks /\ eng[s].running /\ Shaken(s, eng[s])
    /\ Become(s, Latched(eng[s]))
    /\ LockKept /\ OthersKept

\* Either task finds that the lock file was removed or replaced.
CheckIdentity(s) ==
    /\ eng[s].tasks /\ Shaken(s, eng[s])
    /\ Become(s, Latched(eng[s]))
    /\ LockKept /\ OthersKept

LoopRuns(s) == eng[s].tasks /\ eng[s].running /\ Sound(s, eng[s])

\* watchdog_once finds another connection, or cannot look for one.
WatchdogAudit(s) ==
    /\ LoopRuns(s) /\ eng[s].owns /\ eng[s].open
    /\ Become(s, Latched(eng[s]))
    /\ LockKept /\ Trouble /\ UNCHANGED <<human, attached>>

\* After a failure the read loop is told to go on as disconnected, or not.
Failed(e, gone) == IF gone THEN [e EXCEPT !.state = "disconnected"] ELSE e

\* Mutant: the lock is not taken again.
ReconnectUnlocked(s, e, gone) ==
    /\ LockKept
    /\ \/ \E r \in Probes(s, e) : Become(s, r)
       \/ \E r \in ConnectFailures(s, e) : Become(s, Failed(r, gone))

\* reacquire_endpoint_lock and connect_serial; success closes the window.
Reconnect(s, e, gone) ==
    \/ /\ Refused(s)
       /\ Become(s, Failed([e EXCEPT !.owns = FALSE, !.flag = FALSE], gone))
    \/ LET o == IF e.owns THEN e ELSE Owning(e)
       IN  /\ Acquired(s)
           /\ \/ \E r \in Probes(s, o) : Become(s, [r EXCEPT !.armed = FALSE])
              \/ \E r \in ConnectFailures(s, o) : Become(s, Failed(r, gone))

\* Mutant: the attempt ends when the lock is there.
BackoffLocksOnly(s) ==
    /\ LoopRuns(s) /\ eng[s].armed
    /\ Acquired(s)
    /\ Become(s, Owning([eng[s] EXCEPT !.armed = FALSE]))
    /\ OthersKept

\* The backoff window is over: one attempt.
BackoffElapses(s) ==
    /\ LoopRuns(s) /\ eng[s].armed
    /\ Reconnect(s, [eng[s] EXCEPT !.armed = FALSE], FALSE)
    /\ OthersKept

\* Disconnected, and no window is open: open the next one.
ArmBackoff(s) ==
    /\ LoopRuns(s) /\ ~eng[s].armed /\ eng[s].state = "disconnected"
    /\ Become(s, [eng[s] EXCEPT !.armed = TRUE])
    /\ LockKept /\ OthersKept

\* handle_read_error: the connection broke, or a write found it broken.  One
\* immediate retry, unless there was one in the last ten seconds.
ReadError(s) ==
    LET closed == [eng[s] EXCEPT !.open = FALSE]
    IN  /\ LoopRuns(s)
        /\ \/ eng[s].open /\ eng[s].state # "disconnected"
           \/ ~eng[s].open /\ eng[s].state = "live"
        /\ \/ Become(s, Failed(closed, TRUE)) /\ LockKept
           \/ Reconnect(s, closed, TRUE)
        /\ OthersKept

\* Detectors, the heartbeat and the output of the DUT move its state while no
\* human is attached.
DutChanges(s) ==
    /\ LoopRuns(s) /\ eng[s].open
    /\ \E st \in {"live", "quiet"} :
          /\ eng[s].state \in {"live", "quiet"} \ {st}
          /\ Become(s, [eng[s] EXCEPT !.state = st])
    /\ LockKept /\ OthersKept

-----------------------------------------------------------------------------
(* Interactive clients of a server's WebSocket relay.                      *)

\* Mutant: what held before the upgrade is not looked at again.
AttachUnchecked(c, s) ==
    /\ attached[c] = NoProc
    /\ Up(s)
    /\ attached' = [attached EXCEPT ![c] = s]
    /\ Become(s, Manual([eng[s] EXCEPT !.ws = c]))
    /\ LockKept /\ UNCHANGED <<human, troubles>>

\* serial_ws_handler: the engine must own the endpoint and have no session;
\* set_ws_tx.
Attach(c, s) ==
    /\ attached[c] = NoProc
    /\ Up(s) /\ ~eng[s].removed /\ eng[s].owns /\ ~eng[s].fault
    /\ eng[s].state # "dutabo"
    /\ attached' = [attached EXCEPT ![c] = s]
    /\ Become(s, Manual([eng[s] EXCEPT !.ws = c]))
    /\ LockKept /\ UNCHANGED <<human, troubles>>

\* The handler of a client ends, for whatever reason: clear_ws_tx.
Detach(c) ==
    LET s == attached[c]
    IN  /\ s # NoProc
        /\ attached' = [attached EXCEPT ![c] = NoProc]
        /\ Become(s, [eng[s] EXCEPT
                        !.ws = NoProc,
                        !.state = IF eng[s].removed \/ eng[s].fault
                                  THEN @ ELSE "live",
                        !.taken = FALSE])
        /\ LockKept /\ UNCHANGED <<human, troubles>>

-----------------------------------------------------------------------------
(* A direct session (cmd_serial and connect_serial_direct).                *)

\* No server relays the endpoint: the human wants the line itself.
HumanSeeks(h) ==
    /\ human[h].phase = "out"
    /\ human' = [human EXCEPT ![h].phase = "seeking"]
    /\ LockKept /\ UNCHANGED <<eng, attached, troubles>>

\* The lock is held by a server: ask it to yield, and again every 3 seconds.
HumanAsks(h) ==
    /\ human[h].phase = "seeking"
    /\ owner \in Servers
    /\ human' = [human EXCEPT ![h].asked = owner]
    /\ Signal(owner, "yield")
    /\ LockKept /\ UNCHANGED <<attached, troubles>>

\* The lock is held by somebody who does not yield, or by a process that has
\* not written its pid yet; steal_lock evicts no live owner.
HumanGivesUp(h) ==
    /\ human[h].phase = "seeking"
    /\ owner # NoProc
    /\ human' = [human EXCEPT ![h] = NoSession]
    /\ LockKept /\ UNCHANGED <<eng, attached, troubles>>

HumanLocks(h) ==
    /\ human[h].phase = "seeking"
    /\ Acquired(h)
    /\ human' = [human EXCEPT ![h].phase = "locked"]
    /\ UNCHANGED <<eng, attached, troubles>>

\* The connection is not audited; when it fails, or the lock file names
\* somebody else by now, the session ends.
HumanConnects(h) ==
    /\ human[h].phase = "locked"
    /\ \/ /\ owner = h
          /\ human' = [human EXCEPT ![h].phase = "connected"]
          /\ LockKept /\ UNCHANGED eng
       \/ /\ owner = h
          /\ human' = [human EXCEPT ![h] = NoSession]
          /\ MutexRelease(h)
          /\ Signal(human[h].asked, "resume")
       \/ /\ owner # h
          /\ human' = [human EXCEPT ![h] = NoSession]
          /\ MutexRelease(h)
          /\ UNCHANGED eng
    /\ UNCHANGED <<attached, troubles>>

\* The session ends: first the connection and the lock, then the signal.
HumanLeaves(h) ==
    /\ human[h].phase = "connected"
    /\ human' = [human EXCEPT ![h].phase = "released"]
    /\ MutexRelease(h)
    /\ UNCHANGED <<eng, attached, troubles>>

\* Mutant: the owner that was asked is not forgotten.
HumanRestoresAgain(h) ==
    /\ human[h].phase = "released"
    /\ human' = [human EXCEPT ![h].phase = "out"]
    /\ Signal(human[h].asked, "resume")
    /\ LockKept /\ UNCHANGED <<attached, troubles>>

HumanRestores(h) ==
    /\ human[h].phase = "released"
    /\ human' = [human EXCEPT ![h] = NoSession]
    /\ Signal(human[h].asked, "resume")
    /\ LockKept /\ UNCHANGED <<attached, troubles>>

\* The process is killed.
HumanDies(h) ==
    /\ human[h].phase # "out"
    /\ human' = [human EXCEPT ![h] = NoSession]
    /\ MutexRelease(h)
    /\ Trouble /\ UNCHANGED <<eng, attached>>

\* The lock file is removed or replaced.
Replace == MutexLose /\ Trouble /\ UNCHANGED <<eng, human, attached>>

-----------------------------------------------------------------------------
ServerStep(s) ==
    \/ Boot(s) \/ Start(s) \/ EnsureTasks(s) \/ Exit(s) \/ Retire(s)
    \/ AdmitClaim(s) \/ Claim(s) \/ Yield(s) \/ Resume(s)
    \/ CheckIdentity(s) \/ WatchdogAudit(s)
    \/ BackoffElapses(s) \/ ArmBackoff(s) \/ ReadError(s) \/ DutChanges(s)

HumanStep(h) ==
    \/ HumanSeeks(h) \/ HumanAsks(h) \/ HumanGivesUp(h) \/ HumanLocks(h)
    \/ HumanConnects(h) \/ HumanLeaves(h) \/ HumanRestores(h) \/ HumanDies(h)

Next ==
    \/ \E s \in Servers : ServerStep(s)
    \/ \E h \in Humans : HumanStep(h)
    \/ \E c \in Clients, s \in Servers : Attach(c, s)
    \/ \E c \in Clients : Detach(c)
    \/ Replace

Spec == Init /\ [][Next]_vars

\* The tasks of a server keep running, and an attempt that is made again and
\* again connects some time unless the endpoint is shared.
Fairness ==
    \A s \in Servers :
        /\ WF_vars(EnsureTasks(s))
        /\ WF_vars(CheckIdentity(s))
        /\ WF_vars(ArmBackoff(s))
        /\ WF_vars(BackoffElapses(s))
        /\ SF_vars(BackoffElapses(s) /\ eng'[s].open)
        /\ WF_vars(ReadError(s) /\ ~eng[s].open)

FairSpec == Spec /\ Fairness

-----------------------------------------------------------------------------
(* Properties.                                                             *)

\* The type invariant.
TypeOK ==
    /\ owner \in Procs \cup {NoProc}
    /\ lost \subseteq Procs
    /\ eng \in [Servers -> Engine]
    /\ human \in [Humans -> Session]
    /\ \A h \in Humans : human[h].phase = "out" => human[h].asked = NoProc
    /\ attached \in [Clients -> Servers \cup {NoProc}]
    /\ troubles \in 0 .. MaxTroubles

Connected(h) == human[h].phase = "connected"

\* One line, one user.  Two servers are never both connected, even when the
\* lock file was replaced under one of them.  While a direct session holds
\* the lock, no server is connected or lets its tools pass, except one whose
\* lock file was replaced, and there is no other session.
ExclusiveLine ==
    /\ \A s, t \in Servers : eng[s].open /\ eng[t].open => s = t
    /\ \A s, t \in Servers \ lost : eng[s].flag /\ eng[t].flag => s = t
    /\ \A h \in Humans \ lost : Connected(h) =>
          /\ \A s \in Servers \ lost : ~eng[s].open /\ ~eng[s].flag
          /\ \A g \in Humans \ lost : Connected(g) => g = h

\* A DUT that was removed from the project stays released: no late claim,
\* signal, client, task or start of its engine takes the endpoint back.
RemovedIsFinal ==
    \A s \in Servers : eng[s].removed =>
        /\ owner # s /\ s \notin lost
        /\ ~eng[s].owns /\ ~eng[s].flag /\ ~eng[s].open
        /\ ~eng[s].taken /\ eng[s].ws = NoProc

\* After a latched fault only a serial_claim opens the line or the tools again:
\* no signal, no client that leaves and no backoff does.
FaultNeedsClaim ==
    [][\A s \in Servers :
          eng[s].fault /\ (eng'[s].open \/ eng'[s].flag)
             => eng[s].claim /\ ~eng'[s].claim]_vars

\* A server with its tasks running whose lock file was replaced leaves the
\* line, connected and running or not.
StaleDisconnects ==
    \A s \in Servers :
        (s \in lost /\ eng[s].open /\ eng[s].tasks) ~> ~eng[s].open

\* The line is back, a human or somebody else has it, or the engine may not
\* run any more.
Settled(s) ==
    \/ eng[s].open \/ eng[s].state = "dutabo" \/ Shared(s)
    \/ owner # s \/ ~LoopRuns(s)

\* An engine that is disconnected while it owns the lock and runs its loop
\* gets its line back.
LineRegained ==
    \A s \in Servers :
        (owner = s /\ eng[s].state = "disconnected") ~> Settled(s)

\* The same for any engine without a connection: when a tool finds "Serial
\* console not connected", it says "Wait for reconnect or call serial_claim".
DeadLineRegained ==
    \A s \in Servers :
        (owner = s /\ ~eng[s].open) ~> (Settled(s) \/ eng[s].claim)

\* While a client is registered with a connected engine, the engine is in the
\* state in which it runs no detectors, logins, commands and probes ("Human
\* terminal ownership is exclusive. Continue relaying and logging bytes, but
\* do not run Agent detectors, auto-login, command markers, heartbeat actions,
\* or state transitions").
HumanKeepsTerminal ==
    \A s \in Servers : eng[s].ws # NoProc /\ eng[s].open =>
        eng[s].state = "dutabo"

\* The agent can do what a latched fault tells it ("Resolve the ownership
\* conflict, then explicitly call serial_claim"): its claim is not refused in
\* the name of a human when there is none.
FaultIsClaimable ==
    \A s \in Servers :
        /\ Up(s) /\ eng[s].fault /\ eng[s].inbox = {}
        /\ \A h \in Humans : human[h] = NoSession
        /\ \A c \in Clients : attached[c] = NoProc
        => ~eng[s].taken
=============================================================================
