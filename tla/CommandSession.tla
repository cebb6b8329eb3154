--------------------------- MODULE CommandSession ---------------------------
(***************************************************************************)
(* The command queue at work: callers that submit and give up, the read    *)
(* loop that feeds it and checks its deadlines, human takeovers of the     *)
(* serial line, and the shell of the DUT at the other end.                 *)
(*                                                                         *)
(* The shell is external to the code: it echoes a line as soon as it       *)
(* receives it, even while an earlier command still runs, and runs lines   *)
(* one after the other.  A command that timed out or was cancelled is not  *)
(* interrupted: its output keeps coming while the next command is current. *)
(***************************************************************************)
EXTENDS CommandQueue

CONSTANTS
    OutTokens,     \* output tokens a command prints
    MaxChunk,      \* the longest chunk one read returns
    WireCap,       \* bound: tokens in flight to the host
    MaxClock,      \* bound: the last instant
    MaxNoise,      \* bound: kernel messages and garbled tokens
    MaxLosses      \* bound: takeovers, faults, lost lines, cancelled requests
                   \* and reboots of the DUT

\* A chunk is never longer than what a trimmed buffer keeps (reads of at most
\* 4096 bytes against 4 MB), so trimming cannot cut into an end marker.
ASSUME SessionAssumption ==
    /\ OutTokens \in Nat
    /\ MaxChunk \in Nat \ {0} /\ MaxChunk <= TrimKeep
    /\ WireCap \in Nat \ {0}
    /\ MaxClock \in Nat
    /\ MaxNoise \in Nat
    /\ MaxLosses \in Nat

VARIABLES
    session,       \* who has the line: the agents, a human, or nobody
    admitted,      \* commands that passed the takeover guard of call_tool
    submitted,     \* history: the commands in the order of their submission
    missed,        \* history: commands whose output a human session consumed
    losses,        \* counter for MaxLosses
    lines,         \* lines the shell has received and not started
    todo,          \* tokens the running line has yet to print
    wire,          \* tokens on their way to the host
    noise          \* counter for MaxNoise

qvars == <<queue, enqueued_at, gone, clock>>
hostvars == <<session, admitted, submitted, missed, losses>>
dutvars == <<lines, todo, wire, noise>>
vars == <<queue, enqueued_at, gone, clock,
          session, admitted, submitted, missed, losses,
          lines, todo, wire, noise>>

\* "agent"  the read loop runs and no human is attached
\* "ws"     a human is attached through the WebSocket relay; the read loop runs
\* "direct" the engine yielded to `dutabo serial`; its tasks are aborted
\* "lost"   an endpoint fault is latched; every turn of the read loop returns
Sessions == {"agent", "ws", "direct", "lost"}

ReadLoopRuns == session \in {"agent", "ws"}

Submitted(c) == c \in ToSet(submitted)
Answered(c) == queue.result[c] # NoResult

-----------------------------------------------------------------------------
Init ==
    /\ queue = EmptyQueue
    /\ enqueued_at = [c \in Commands |-> 0]
    /\ gone = {}
    /\ clock = 0
    /\ session = "agent"
    /\ admitted = {}
    /\ submitted = <<>>
    /\ missed = {}
    /\ losses = 0
    /\ lines = <<>>
    /\ todo = <<>>
    /\ wire = <<>>
    /\ noise = 0

-----------------------------------------------------------------------------
(* The callers.                                                            *)

\* takeover_rejection reads the lock-free flags before the engine lock is taken.
Admit(c) ==
    /\ session = "agent"
    /\ c \notin admitted
    /\ admitted' = admitted \cup {c}
    /\ UNCHANGED <<qvars, session, submitted, missed, losses, dutvars>>

\* exec_shell calls queue_command once it gets the engine lock; nothing is
\* checked again.  The new command has age 0 when it is sent, so Submit does
\* not read its enqueued_at.
Execute(c) ==
    /\ c \in admitted
    /\ ~Submitted(c)
    /\ clock + Timeout < MaxClock
    /\ queue' = Submit(queue, c)
    /\ enqueued_at' = [enqueued_at EXCEPT ![c] = clock]
    /\ submitted' = Append(submitted, c)
    /\ UNCHANGED <<gone, clock, session, admitted, missed, losses, dutvars>>

\* The request is cancelled and its receiver dropped.
CallerDrops(c) ==
    /\ Submitted(c)
    /\ ~Answered(c)
    /\ c \notin gone
    /\ losses < MaxLosses
    /\ losses' = losses + 1
    /\ gone' = gone \cup {c}
    /\ UNCHANGED <<queue, enqueued_at, clock, session, admitted, submitted,
                   missed, dutvars>>

\* Mutant: the caller awaits the receiver without a timer of its own.
CallerAwaits(c) ==
    /\ Submitted(c)
    /\ Answered(c)
    /\ UNCHANGED vars

\* tokio::time::timeout(timeout, rx) in exec_shell, with the same timeout the
\* queue was given: "(timeout - engine did not respond)".
CallerTimesOut(c) ==
    /\ Submitted(c)
    /\ ~Answered(c)
    /\ c \notin gone
    /\ Age(c) >= Timeout
    /\ gone' = gone \cup {c}
    /\ UNCHANGED <<queue, enqueued_at, clock, hostvars, dutvars>>

-----------------------------------------------------------------------------
(* The engine.                                                             *)

\* start and serial_claim install the write function; nothing removes it.
SetWriteFn ==
    /\ ~queue.write_fn
    /\ queue' = [queue EXCEPT !.write_fn = TRUE]
    /\ UNCHANGED <<enqueued_at, gone, clock, hostvars, dutvars>>

\* read_loop_iter calls check_timeouts in every turn, whoever is attached.
CheckTimeouts ==
    /\ ReadLoopRuns
    /\ CurrentExpired(queue)
    /\ queue' = ExpireCurrent(queue)
    /\ UNCHANGED <<enqueued_at, gone, clock, hostvars, dutvars>>

\* read_loop_iter reads a chunk and feeds it to the queue.
Read ==
    /\ session = "agent"
    /\ \E n \in 1 .. MaxChunk, writes \in BOOLEAN :
          /\ n <= Len(wire)
          /\ queue' = Feed(queue, SubSeq(wire, 1, n), writes)
          /\ wire' = SubSeq(wire, n + 1, Len(wire))
    /\ UNCHANGED <<enqueued_at, gone, clock, hostvars,
                   lines, todo, noise>>

\* During a human session the bytes go to the terminal only; without a
\* connection they go nowhere.
Relay ==
    /\ session # "agent"
    /\ wire # <<>>
    /\ wire' = Tail(wire)
    /\ missed' = missed \cup ({queue.current} \ {NoCommand})
    /\ UNCHANGED <<qvars, session, admitted, submitted, losses,
                   lines, todo, noise>>

\* set_ws_tx, or yield_serial_for_human.  Neither touches the commands.
TakeOver ==
    /\ session = "agent"
    /\ losses < MaxLosses
    /\ losses' = losses + 1
    /\ session' \in {"ws", "direct"}
    /\ UNCHANGED <<qvars, admitted, submitted, missed, dutvars>>

\* clear_ws_tx, or resume_serial with a successful reconnect.
HandBack ==
    /\ session \in {"ws", "direct"}
    /\ session' = "agent"
    /\ UNCHANGED <<qvars, admitted, submitted, missed, losses, dutvars>>

\* latch_endpoint_fault: every command is cancelled, queued writes revoked.
LoseEndpoint ==
    /\ ReadLoopRuns
    /\ losses < MaxLosses
    /\ losses' = losses + 1
    /\ session' = "lost"
    /\ queue' = [CancelAll(queue) EXCEPT !.tx = <<>>]
    /\ UNCHANGED <<enqueued_at, gone, clock, admitted, submitted, missed,
                   dutvars>>

\* claim_serial recovers the endpoint with a fresh sender.
Reclaim ==
    /\ session = "lost"
    /\ session' = "agent"
    /\ queue' = [queue EXCEPT !.tx = <<>>]
    /\ UNCHANGED <<enqueued_at, gone, clock, admitted, submitted, missed,
                   losses, dutvars>>

\* The write channel is full, or the connection breaks under drain_writes:
\* try_send_command(..).ok() and drain_writes drop the line silently.
LoseLine ==
    /\ queue.tx # <<>>
    /\ losses < MaxLosses
    /\ losses' = losses + 1
    /\ queue' = [queue EXCEPT !.tx = Tail(@)]
    /\ UNCHANGED <<enqueued_at, gone, clock, session, admitted, submitted,
                   missed, dutvars>>

Tick ==
    /\ clock < MaxClock
    /\ clock' = clock + 1
    /\ UNCHANGED <<queue, enqueued_at, gone, hostvars, dutvars>>

-----------------------------------------------------------------------------
(* The DUT and the line.                                                   *)

\* drain_writes puts a line on the wire and the terminal echoes it.
ReceiveLine ==
    /\ ReadLoopRuns
    /\ queue.tx # <<>>
    /\ Len(wire) < WireCap
    /\ lines' = Append(lines, Head(queue.tx))
    /\ wire' = wire \o SentLine(Head(queue.tx))
    /\ queue' = [queue EXCEPT !.tx = Tail(@)]
    /\ UNCHANGED <<enqueued_at, gone, clock, hostvars, todo, noise>>

StartLine ==
    /\ todo = <<>>
    /\ lines # <<>>
    /\ todo' = LET c == Head(lines)
               IN  Marker(c) \o [i \in 1 .. OutTokens |-> Out(c, i)]
                     \o <<Exit(c)>> \o Marker(c)
    /\ lines' = Tail(lines)
    /\ UNCHANGED <<qvars, hostvars, wire, noise>>

Emit ==
    /\ todo # <<>>
    /\ Len(wire) < WireCap
    /\ wire' = Append(wire, Head(todo))
    /\ todo' = Tail(todo)
    /\ UNCHANGED <<qvars, hostvars, lines, noise>>

\* A kernel message between two tokens, or a token garbled on the line (a kernel
\* message that is garbled is still one).
Disturb ==
    /\ noise < MaxNoise
    /\ noise' = noise + 1
    /\ \/ /\ Len(wire) < WireCap
          /\ wire' = Append(wire, Printk)
       \/ \E i \in DOMAIN wire : wire[i] # Printk /\ wire' = [wire EXCEPT ![i] = Garbled]
    /\ UNCHANGED <<qvars, hostvars, lines, todo>>

\* The DUT reboots: what it was running and what it had received is lost.
Reboot ==
    /\ losses < MaxLosses
    /\ losses' = losses + 1
    /\ lines' = <<>>
    /\ todo' = <<>>
    /\ UNCHANGED <<qvars, session, admitted, submitted, missed, wire, noise>>

-----------------------------------------------------------------------------
Next ==
    \/ \E c \in Commands :
          \/ Admit(c)
          \/ Execute(c)
          \/ CallerDrops(c)
          \/ CallerTimesOut(c)
    \/ SetWriteFn
    \/ CheckTimeouts
    \/ Read
    \/ Relay
    \/ TakeOver
    \/ HandBack
    \/ LoseEndpoint
    \/ Reclaim
    \/ LoseLine
    \/ Tick
    \/ ReceiveLine
    \/ StartLine
    \/ Emit
    \/ Disturb
    \/ Reboot

Spec == Init /\ [][Next]_vars

\* The read loop calls check_timeouts in every turn, tokio fires the timer of
\* every caller, and time passes.  Nothing is assumed of the shell, the line,
\* the humans or the endpoint.
FairSpec ==
    /\ Spec
    /\ WF_vars(CheckTimeouts)
    /\ WF_vars(Tick)
    /\ \A c \in Commands : WF_vars(CallerTimesOut(c))

-----------------------------------------------------------------------------
(* Types.                                                                  *)

Tokens ==
    {Half(c, i) : c \in Commands, i \in {1, 2}}
      \cup {Out(c, i) : c \in Commands, i \in 1 .. OutTokens}
      \cup {Exit(c) : c \in Commands}
      \cup {Quote, Printk, Garbled}

ScanType ==
    [echo_matched : 0 .. 3, found_begin : BOOLEAN,
     search_buf : Seq(Tokens), buffer : Seq(Tokens), spill : Seq(Tokens)]

QueueType ==
    [current   : Commands \cup {NoCommand},
     pending   : Seq(Commands),
     scan      : ScanType,
     result    : [Commands -> [kind : Kinds, out : Seq(Tokens),
                               exit : BOOLEAN]],
     write_fn  : BOOLEAN,
     tx        : Seq(Commands),
     completed : Nat,
     errors    : Nat]

\* The type invariant: every variable, and every field of the queue, holds a
\* value of its kind; however long the bytes before the begin marker are (the
\* tail of an earlier command, a boot log), they are held in bounded memory.
TypeOK ==
    /\ queue \in QueueType
    /\ Len(queue.scan.search_buf) <= BufferCap
    /\ enqueued_at \in [Commands -> Nat]
    /\ gone \subseteq Commands
    /\ clock \in Nat
    /\ session \in Sessions
    /\ admitted \subseteq Commands
    /\ submitted \in Seq(Commands)
    /\ missed \subseteq Commands
    /\ lines \in Seq(Commands)
    /\ todo \in Seq(Tokens)
    /\ wire \in Seq(Tokens)
    /\ losses \in Nat /\ noise \in Nat

-----------------------------------------------------------------------------
(* Safety.                                                                 *)

Waiting == ToSet(queue.pending)

\* Nobody is lost or answered twice: a submitted command without an answer is
\* on the line or waiting, in one place only, and a command that is on the
\* line or waiting has no answer yet.  (Every early exit of execute,
\* dequeue_next and feed_clean_serial_data must keep this.)
InOnePlace ==
    /\ \A i, j \in DOMAIN queue.pending :
          queue.pending[i] = queue.pending[j] => i = j
    /\ queue.current \notin Waiting
    /\ \A c \in Commands :
          (Submitted(c) /\ ~Answered(c))
             <=> (c = queue.current \/ c \in Waiting)

\* The queue never stalls: commands wait only behind one that is on the line
\* (the comment "MUST dequeue_next() to avoid queue deadlock").
NeverStalls == queue.current = NoCommand => queue.pending = <<>>

\* Commands go on the line in the order of their submission.
Before(c, d) ==
    \E i, j \in DOMAIN submitted :
        i < j /\ submitted[i] = c /\ submitted[j] = d

SubmissionOrder ==
    /\ \A i, j \in DOMAIN queue.pending :
          i < j => Before(queue.pending[i], queue.pending[j])
    /\ \A c \in Waiting :
          queue.current # NoCommand => Before(queue.current, c)

\* A command is never answered with the output of another one, although the
\* shell keeps printing the output of commands that timed out or were
\* cancelled while the next command is current.  (A human session that
\* swallows the quotes of the echo joins the two halves of a marker: a command
\* whose output it consumed is left out.)
OwnOutput ==
    \A c \in Commands \ missed : LET out == queue.result[c].out
                        IN  \A i \in DOMAIN out :
                               out[i].k \in {"half", "out", "exit"}
                                  => out[i].c = c

\* s without its kernel messages.
WithoutPrintk(s) ==
    FlattenSeq([i \in DOMAIN s |-> IF s[i] = Printk THEN <<>> ELSE <<s[i]>>])

\* A result that is not a timeout is complete: kernel messages aside, it holds
\* every token the command printed, in order, wherever chunks were cut and
\* buffers spilled (a token may be garbled) - unless a human session consumed
\* part of it.
CompleteOutput ==
    \A c \in Commands \ missed :
        queue.result[c].kind = "ok" =>
            LET r   == queue.result[c]
                out == WithoutPrintk(r.out) \o
                          (IF r.exit THEN <<Exit(c)>> ELSE <<>>)
            IN  /\ Len(out) = OutTokens + 1
                /\ \A i \in 1 .. OutTokens : out[i] \in {Out(c, i), Garbled}
                /\ out[OutTokens + 1] \in {Exit(c), Garbled}

-----------------------------------------------------------------------------
(* Action properties.                                                      *)

\* An answer is final: no later byte, timeout or cancellation changes it.
AnswerFinal ==
    [][\A c \in Commands :
          Answered(c) => queue'.result[c] = queue.result[c]]_vars

\* The line, the queue and the kinds of the answers, whatever the bytes are.
Service == INSTANCE CommandService
           WITH line <- queue.current, waiting <- queue.pending,
                answer <- [c \in Commands |-> queue.result[c].kind]

\* The queue keeps the promises of the abstract service in every step: nobody
\* is lost, overtaken, answered twice or turned away from a queue with room,
\* and the line is never idle while somebody waits.
ServiceRefined == Service!ServiceSpec

\* A deadline holds from the queue to the answer: a command that waited goes on
\* the line only while its deadline has not passed and somebody still waits for
\* it, and it is not answered with success after it, even when its end marker
\* is in the very chunk that is being fed.
NothingLate ==
    [][/\ queue'.current \in Waiting =>
             Age(queue'.current) < Timeout /\ queue'.current \notin gone
       /\ \A c \in Commands :
             queue.result[c].kind # "ok" /\ queue'.result[c].kind = "ok"
                => Age(c) <= Timeout]_vars

\* "Block Agent tools as soon as a human WebSocket takeover begins, before any
\* terminal byte is written" (serial_engine.rs, begin_manual_session): while a
\* human is attached no command line is handed to the writer.
HumanExclusive ==
    [][session = "ws" => Len(queue'.tx) <= Len(queue.tx)]_vars

\* "Human terminal ownership is exclusive. Continue relaying and logging
\* bytes, but do not run Agent detectors, auto-login, command markers"
\* (serial_engine.rs, read_loop_iter): while a human is attached the read loop
\* puts no waiting command on the line.
ReadLoopLeavesHumanAlone ==
    [][session = "ws" => queue'.current \notin Waiting]_vars

-----------------------------------------------------------------------------
(* Liveness.                                                               *)

\* Unless a human or a fault keeps the read loop stopped for ever, every
\* submitted command gets its answer.
EveryCommandAnswered ==
    []<>ReadLoopRuns => \A c \in Commands : Submitted(c) ~> Answered(c)

\* Every caller is released, answered or not, even when the read loop stops.
EveryCallerReleased ==
    \A c \in Commands : Submitted(c) ~> (Answered(c) \/ c \in gone)
=============================================================================
