----------------------------- MODULE RelayLink -----------------------------
(***************************************************************************)
(* The CH340 relay behind its ser2net port                                 *)
(* (src/sermcp/dut-ctrl/src/ch340.rs): calls that press, release, pulse    *)
(* and verify the buttons of the DUTs over one TCP stream, which every     *)
(* control object of the process shares.                                   *)
(*                                                                         *)
(* A command is one exchange: a frame is written, and whatever the stream  *)
(* holds at the next read is taken for the answer.  The echo of ON or OFF  *)
(* and the answer to STATUS are the same four bytes, <<channel, state>>.   *)
(* An exchange holds the mutex of the stream; between two exchanges        *)
(* anything may happen, the drop of the call's future included.            *)
(***************************************************************************)
EXTENDS Naturals, Sequences

CONSTANTS
    Calls,         \* engines whose tools work the relay, each its own channel
    NoWorker,      \* nobody has the stream
    StatusTries,   \* polls of a channel's state before giving up
    SetTries,      \* attempts of a verified press or release
    ReleaseTries,  \* attempts of a strict release
    Faults,        \* what may go wrong, a subset of FaultKinds
    MaxFaults,     \* bound: how often
    MaxStarts,     \* bound: calls that are started
    WireCap        \* bound: frames or answers on their way

FaultKinds == {"lose", "reset", "eof", "busy", "refuse"}

ASSUME RelayAssumption ==
    /\ StatusTries \in Nat \ {0}
    /\ SetTries \in Nat \ {0}
    /\ ReleaseTries \in Nat \ {0}
    /\ Faults \subseteq FaultKinds
    /\ MaxFaults \in Nat
    /\ MaxStarts \in Nat
    /\ WireCap \in Nat \ {0}
    /\ NoWorker \notin Calls \X {"call", "guard"}

VARIABLES
    relay,         \* the channels that are on
    echoes,        \* the relay answers ON and OFF too, not only STATUS
    cable,         \* the shared TCP stream
    user,          \* the worker in an exchange
    job,           \* what each worker is doing
    cut,           \* history: an exchange on this stream was cut short
    unsure,        \* history: two were, or one was ended by an EOF or by the
                   \* banner of a busy port
    faults,        \* counter for MaxFaults
    started        \* counter for MaxStarts

relayVars ==
    <<relay, echoes, cable, user, job, cut, unsure, faults, started>>

\* A call's own future, and the detached task that its guard spawns.
Worker == Calls \X {"call", "guard"}
Call(c) == <<c, "call">>
Guard(c) == <<c, "guard">>
Channel(w) == w[1]
Channels == Calls

Operations == {"press", "release", "press_verified", "release_verified",
               "pulse", "verify"}
Frames == [channel : Channels, opcode : {"on", "off", "status"}]
Answers == [channel : Channels, on : BOOLEAN]

\* "none"   no stream            "up"   connected
\* "reset"  RST seen on reading  "eof"  the peer closed; both still Some(stream)
\* "busy"   ser2net accepted the connection to reject the session in-band, and
\*          closes it
Links == {"none", "up", "reset", "eof", "busy"}
Cables == [link : Links, out : Seq(Frames), in : Seq(Answers)]
NoCable == [link |-> "none", out |-> <<>>, in |-> <<>>]
NewCable == [link |-> "up", out |-> <<>>, in |-> <<>>]

\* stage    the exchange that is next or under way, "hold", or "idle"
\* sent     the frame is written and the answer not read
\* tries    failed attempts     polls  STATUS answers that were of no use
\* initial  the channel was on before the pulse (None counts as off)
\* result   how the last operation ended
Job == [op : Operations \cup {"none"},
        stage : {"idle", "press", "release", "initial", "hold", "off",
                 "check", "restore", "set", "confirm", "prove_on", "read_on",
                 "prove_off", "read_off", "undo"},
        sent : BOOLEAN, tries : 0..(SetTries + ReleaseTries - 1),
        polls : 0..(StatusTries - 1), initial : BOOLEAN,
        result : {"none", "ok", "err", "release_failed", "dropped"}]
NoJob == [op |-> "none", stage |-> "idle", sent |-> FALSE, tries |-> 0,
          polls |-> 0, initial |-> FALSE, result |-> "none"]

RelayInit ==
    /\ relay = {}
    /\ echoes \in BOOLEAN
    /\ cable = NoCable
    /\ user = NoWorker
    /\ job = [w \in Worker |-> NoJob]
    /\ cut = FALSE /\ unsure = FALSE
    /\ faults = 0
    /\ started = 0

-----------------------------------------------------------------------------
(* What an operation does with the outcome of its exchange.                *)

StatusStages == {"initial", "check", "confirm", "read_on", "read_off"}

Opcode(j) ==
    CASE j.stage \in StatusStages -> "status"
      [] j.stage = "set" -> IF j.op = "press_verified" THEN "on" ELSE "off"
      [] j.stage = "restore" -> IF j.initial THEN "on" ELSE "off"
      [] j.stage \in {"press", "prove_on"} -> "on"
      [] OTHER -> "off"

Done(j, result) == [NoJob EXCEPT !.result = result]
Goto(j, stage) == [j EXCEPT !.stage = stage, !.sent = FALSE, !.polls = 0]

\* press(), for itself or as the first half of pulse(), whose guard is armed
\* only here.  Any answer, or none, will do.
AfterPress(j, outcome) ==
    IF outcome = "failed" THEN Done(j, "err")
    ELSE IF j.op = "pulse" THEN Goto(j, "hold")
    ELSE Done(j, "ok")

\* send_opcode_with_retries: the next attempt, or the restore.
AfterFailedRelease(j) ==
    IF j.tries + 1 < ReleaseTries
    THEN [Goto(j, "off") EXCEPT !.tries = @ + 1]
    ELSE Goto(j, "restore")

\* Mutant: a silent relay passes, as it does for the other callers.
OffTakesSilence(j, outcome) ==
    CASE outcome \in {"echo", "eof", "busy", "silent"} -> Done(j, "ok")
      [] OTHER -> AfterFailedRelease(j)

\* send_command_strict: an answer that is not the echo fails the attempt, a
\* silent relay is asked for its state, an EOF passes.  The banner of a busy
\* port holds no frame at all, and passes too.
AfterOff(j, outcome) ==
    CASE outcome \in {"echo", "eof", "busy"} -> Done(j, "ok")
      [] outcome = "silent" -> Goto(j, "check")
      [] OTHER -> AfterFailedRelease(j)

\* Mutant: one poll more.
ConfirmOncePolledTooOften(j, outcome) ==
    IF outcome = IF j.op = "press_verified" THEN "is_on" ELSE "is_off"
    THEN Done(j, "ok")
    ELSE IF j.polls + 1 <= StatusTries
    THEN [j EXCEPT !.sent = FALSE, !.polls = @ + 1]
    ELSE IF j.tries + 1 < SetTries
    THEN [Goto(j, "set") EXCEPT !.tries = @ + 1]
    ELSE Done(j, "err")

\* set_channel_verified: polls that fail or disagree until they run out.
AfterConfirm(j, outcome) ==
    IF outcome = IF j.op = "press_verified" THEN "is_on" ELSE "is_off"
    THEN Done(j, "ok")
    ELSE IF j.polls + 1 < StatusTries
    THEN [j EXCEPT !.sent = FALSE, !.polls = @ + 1]
    ELSE IF j.tries + 1 < SetTries
    THEN [Goto(j, "set") EXCEPT !.tries = @ + 1]
    ELSE Done(j, "err")

\* What follows a read_channel_state that gave a state, or gave up.
AfterState(j, outcome) ==
    CASE j.stage = "initial" ->
            [Goto(j, "press") EXCEPT !.initial = (outcome = "is_on")]
      [] j.stage = "check" ->
            IF outcome = "is_off" THEN Done(j, "ok") ELSE AfterFailedRelease(j)
      [] j.stage = "read_on" ->
            IF outcome \in {"is_on", "is_off"}
            THEN [Goto(j, "prove_off") EXCEPT !.initial = (outcome = "is_on")]
            ELSE Goto(j, "undo")
      [] j.stage = "read_off" ->
            IF outcome \in {"is_on", "is_off"}
            THEN Done(j, IF j.initial /\ outcome = "is_off"
                         THEN "ok" ELSE "err")
            ELSE Goto(j, "undo")

\* read_channel_state: the query is repeated while the answer is of no use,
\* and an error ends it.
AfterStatus(j, outcome) ==
    IF outcome \in {"silent", "eof", "other"} /\ j.polls + 1 < StatusTries
    THEN [j EXCEPT !.sent = FALSE, !.polls = @ + 1]
    ELSE AfterState(j, outcome)

After(j, outcome) ==
    CASE j.stage = "press" -> AfterPress(j, outcome)
      [] j.stage = "off" -> AfterOff(j, outcome)
      [] j.stage = "confirm" -> AfterConfirm(j, outcome)
      [] j.stage \in StatusStages \ {"confirm"} -> AfterStatus(j, outcome)
      [] j.stage = "release" ->
            Done(j, IF outcome = "failed" THEN "err" ELSE "ok")
      [] j.stage = "set" ->
            IF outcome = "failed" THEN Done(j, "err") ELSE Goto(j, "confirm")
      [] j.stage = "restore" -> Done(j, "release_failed")
      [] j.stage = "prove_on" ->
            IF outcome = "failed" THEN Done(j, "err") ELSE Goto(j, "read_on")
      [] j.stage = "prove_off" ->
            IF outcome = "failed" THEN Goto(j, "undo") ELSE Goto(j, "read_off")
      [] j.stage = "undo" -> Done(j, "err")

\* A failed attempt of a strict release drops the stream (clear_stream), and
\* so does the banner when it answers a STATUS.
Clears(j, outcome) ==
    \/ j.stage \in {"off", "check"} /\ After(j, outcome).stage \in {"off", "restore"}
    \/ outcome = "busy" /\ j.stage \in StatusStages

-----------------------------------------------------------------------------
(* An exchange: send_command_inner.                                        *)

Pending(w) == job[w].stage \notin {"idle", "hold"} /\ ~job[w].sent
Frame(w) == [channel |-> Channel(w), opcode |-> Opcode(job[w])]

Fault(kind) ==
    /\ kind \in Faults
    /\ faults < MaxFaults
    /\ faults' = faults + 1

\* The stream becomes `c` and the frame is written to it.
Written(w, c) ==
    /\ cable' = c
    /\ user' = w
    /\ job' = [job EXCEPT ![w].sent = TRUE]

WriteFrame(w) ==
    /\ Pending(w) /\ user = NoWorker
    /\ cable.link = "up"
    /\ Len(cable.out) < WireCap
    /\ Written(w, [cable EXCEPT !.out = Append(@, Frame(w))])
    /\ UNCHANGED <<relay, echoes, cut, unsure, faults, started>>

\* A rejected session swallows frames, and so does a dead one for a while.
WriteIntoVoid(w) ==
    /\ Pending(w) /\ user = NoWorker
    /\ cable.link \in {"busy", "reset", "eof"}
    /\ Written(w, cable)
    /\ UNCHANGED <<relay, echoes, cut, unsure, faults, started>>

\* ensure_open, or force_reconnect after a write error.
ConnectAndWrite(w) ==
    /\ Pending(w) /\ user = NoWorker
    /\ cable.link \in {"none", "reset", "eof"}
    /\ \/ /\ Written(w, [NewCable EXCEPT !.out = <<Frame(w)>>])
          /\ UNCHANGED faults
       \/ /\ Fault("busy")
          /\ Written(w, [NoCable EXCEPT !.link = "busy"])
    /\ cut' = FALSE /\ unsure' = FALSE
    /\ UNCHANGED <<relay, echoes, started>>

ConnectRefused(w) ==
    /\ Pending(w) /\ user = NoWorker
    /\ cable.link \in {"none", "reset", "eof"}
    /\ Fault("refuse")
    /\ cable' = NoCable
    /\ job' = [job EXCEPT ![w] = After(@, "failed")]
    /\ UNCHANGED <<relay, echoes, user, cut, unsure, started>>

\* classify_echo: the frame asked for wins wherever it is in the buffer; a
\* STATUS takes the first frame of its channel.
Reading(w, answers) ==
    LET mine == {i \in DOMAIN answers : answers[i].channel = Channel(w)}
        first == CHOOSE i \in mine : \A k \in mine : i <= k
        wanted == [channel |-> Channel(w), on |-> Opcode(job[w]) = "on"]
    IN  IF Opcode(job[w]) = "status"
        THEN IF mine = {} THEN "other"
             ELSE IF answers[first].on THEN "is_on" ELSE "is_off"
        ELSE IF \E i \in DOMAIN answers : answers[i] = wanted
             THEN "echo" ELSE "other"

\* The read times out only when nothing is on its way.
Outcome(w) ==
    IF cable.in # <<>> THEN Reading(w, cable.in)
    ELSE IF cable.link = "up" THEN "silent"
    ELSE cable.link

Receive(w) ==
    /\ user = w
    /\ cable.in = <<>> /\ cable.link = "up" => cable.out = <<>>
    /\ user' = NoWorker
    /\ job' = [job EXCEPT ![w] = After(@, Outcome(w))]
    /\ cable' = IF Clears(job[w], Outcome(w)) THEN NoCable
                ELSE [cable EXCEPT !.in = <<>>,
                                   !.link = IF @ = "busy" THEN "eof" ELSE @]
    /\ unsure' = (unsure \/ Outcome(w) \in {"eof", "busy"})
    /\ UNCHANGED <<relay, echoes, cut, faults, started>>

-----------------------------------------------------------------------------
(* The calls.                                                              *)

FirstStage(op) ==
    CASE op = "press" -> "press"
      [] op = "release" -> "release"
      [] op = "pulse" -> "initial"
      [] op = "verify" -> "prove_on"
      [] OTHER -> "set"

\* A tool of the engine of c; the engine's mutex admits one at a time.
StartCall(c, op) ==
    /\ job[Call(c)].stage = "idle"
    /\ started < MaxStarts
    /\ started' = started + 1
    /\ job' = [job EXCEPT ![Call(c)] =
                  [NoJob EXCEPT !.op = op, !.stage = FirstStage(op)]]
    /\ UNCHANGED <<relay, echoes, cable, user, cut, unsure, faults>>

\* The hold time of a pulse is over.
HoldEnds(c) ==
    /\ job[Call(c)].stage = "hold"
    /\ job' = [job EXCEPT ![Call(c)] = Goto(@, "off")]
    /\ UNCHANGED <<relay, echoes, cable, user, cut, unsure, faults, started>>

\* Mutant: the guard is disarmed before the release.
ArmedWhileHolding(j) == j.op = "pulse" /\ j.stage = "hold"

\* The guard of a pulse is armed from the end of press() to the end of the
\* release.
Armed(j) == j.op = "pulse" /\ j.stage \in {"hold", "off", "check", "restore"}

\* The call's future is dropped; the guard of a pulse releases the button from
\* a task of its own.  The frames of an exchange that is cut short stay.
DropCall(c) ==
    /\ job[Call(c)].stage # "idle"
    /\ Armed(job[Call(c)]) => job[Guard(c)].stage = "idle"
    /\ job' = [job EXCEPT
                  ![Call(c)] = Done(@, "dropped"),
                  ![Guard(c)] = IF Armed(job[Call(c)])
                                THEN [NoJob EXCEPT
                                         !.op = "release", !.stage = "off",
                                         !.initial = job[Call(c)].initial]
                                ELSE @]
    /\ user' = IF user = Call(c) THEN NoWorker ELSE user
    /\ cut' = (cut \/ job[Call(c)].sent)
    /\ unsure' = (unsure \/ (cut /\ job[Call(c)].sent))
    /\ UNCHANGED <<relay, echoes, cable, faults, started>>

-----------------------------------------------------------------------------
(* The relay and the network.                                              *)

\* The relay's firmware takes a frame and may answer it.
RelayTakes ==
    /\ cable.link = "up" /\ cable.out # <<>>
    /\ Len(cable.in) < WireCap
    /\ LET f == Head(cable.out)
           on == IF f.opcode = "on" THEN relay \cup {f.channel}
                 ELSE IF f.opcode = "off" THEN relay \ {f.channel}
                 ELSE relay
       IN  /\ relay' = on
           /\ cable' = [cable EXCEPT
                  !.out = Tail(@),
                  !.in = IF f.opcode = "status" \/ echoes
                         THEN Append(@, [channel |-> f.channel,
                                         on |-> f.channel \in on])
                         ELSE @]
    /\ UNCHANGED <<echoes, user, job, cut, unsure, faults, started>>

LoseFrame ==
    /\ Fault("lose")
    /\ \/ /\ cable.out # <<>>
          /\ cable' = [cable EXCEPT !.out = Tail(@)]
       \/ /\ cable.in # <<>>
          /\ cable' = [cable EXCEPT !.in = Tail(@)]
    /\ UNCHANGED <<relay, echoes, user, job, cut, unsure, started>>

BreakCable ==
    /\ cable.link = "up"
    /\ \E kind \in {"reset", "eof"} :
          /\ Fault(kind)
          /\ cable' = [NoCable EXCEPT !.link = kind,
                                      !.in = IF kind = "eof" THEN cable.in
                                             ELSE <<>>]
    /\ UNCHANGED <<relay, echoes, user, job, cut, unsure, started>>

RelayNext ==
    \/ \E w \in Worker : \/ WriteFrame(w) \/ WriteIntoVoid(w)
                         \/ ConnectAndWrite(w) \/ ConnectRefused(w)
                         \/ Receive(w)
    \/ \E c \in Calls : \/ \E op \in Operations : StartCall(c, op)
                        \/ HoldEnds(c) \/ DropCall(c)
    \/ RelayTakes \/ LoseFrame \/ BreakCable

\* The mutex of the stream is first come, first served, and every wait of an
\* exchange and of a hold has a timeout.
RelayFairness ==
    /\ \A w \in Worker :
          /\ SF_relayVars(WriteFrame(w) \/ WriteIntoVoid(w)
                          \/ ConnectAndWrite(w) \/ ConnectRefused(w))
          /\ WF_relayVars(Receive(w))
    /\ \A c \in Calls : WF_relayVars(HoldEnds(c))
    /\ WF_relayVars(RelayTakes)

RelaySpec == RelayInit /\ [][RelayNext]_relayVars /\ RelayFairness

-----------------------------------------------------------------------------
(* Properties.                                                             *)

RelayTypeOK ==
    /\ relay \subseteq Channels
    /\ echoes \in BOOLEAN
    /\ cable \in Cables
    /\ Len(cable.out) <= WireCap /\ Len(cable.in) <= WireCap
    /\ user \in Worker \cup {NoWorker}
    /\ cut \in BOOLEAN /\ unsure \in BOOLEAN
    /\ job \in [Worker -> Job]
    /\ faults \in 0..MaxFaults /\ started \in 0..MaxStarts

Ends(w) == job[w].stage # "idle" /\ job'[w].stage = "idle"

\* send_command_strict and set_channel_verified: the strict release fails unless
\* the relay is known to have received OFF.  A pulse, the release of a dropped
\* pulse and a verified release report success only for a channel that is off,
\* whatever frames were lost and whatever connection was reset or refused on the
\* way, as long as no two exchanges on the stream were cut short before their
\* answer was read and none ended by what the code calls lenient, a clean EOF or a
\* banner.  (Two answers that nobody read are enough: the strict release then takes
\* the echo of an earlier OFF for its own while an ON is still on its way.)
OkMeansReleased ==
    [][\A w \in Worker :
          /\ Ends(w) /\ job'[w].result = "ok" /\ ~unsure'
          /\ \/ job[w].op \in {"pulse", "release_verified"}
             \/ w[2] = "guard"
          => Channel(w) \notin relay']_relayVars

\* A button whose pulse has begun to hold is let go, whether the pulse ends,
\* fails in the middle or is dropped by its caller, unless the release is
\* reported as failed.
HeldIsLetGo ==
    \A c \in Calls :
        job[Call(c)].stage = "hold"
        ~> \/ c \notin relay \/ unsure
           \/ job[Call(c)].result = "release_failed"
           \/ job[Guard(c)].result = "release_failed"

\* The doc of pulse(): "if this future is dropped while the relay is asserted
\* (client disconnect, MCP call cancelled), PulseReleaseGuard releases the
\* button from a detached task".
DroppedPulseIsReleased ==
    [][\A c \in Calls :
          /\ job[Call(c)].op = "pulse" /\ job[Call(c)].stage # "initial"
          /\ Ends(Call(c)) /\ job'[Call(c)].result = "dropped"
          => c \notin relay' \/ job'[Guard(c)].stage # "idle"]_relayVars

\* The doc of reject_busy_response: "Never treat that banner as a successful
\* relay response".
BannerIsNoSuccess ==
    [][\A w \in Worker :
          Ends(w) /\ job'[w].result = "ok" => cable.link # "busy"]_relayVars
=============================================================================
