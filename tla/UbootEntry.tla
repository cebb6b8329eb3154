----------------------------- MODULE UbootEntry -----------------------------
(***************************************************************************)
(* serial_enter_uboot (src/sermcp/src/mcp_handler/boot_tools.rs): restart  *)
(* the board, interrupt its autoboot, and see the prompt.  The call gives  *)
(* the engine mutex back between its steps, so that the read loop can fire *)
(* the watchers that it waits for, and other calls can run.                *)
(*                                                                         *)
(* As in TargetBoard a prompt has no end of line: the read loop holds it   *)
(* and the next line is glued to it (strip_ser2net_banner).                *)
(***************************************************************************)
EXTENDS Naturals, Sequences

CONSTANTS
    Callers,       \* agents that may call the tool
    MaxAttempts,   \* failure_retry
    MaxRounds,     \* bound: rounds of one attempt
    MaxCalls,      \* bound: calls
    OutCap         \* bound: pieces that were printed and not read

ASSUME UbootAssumption ==
    /\ MaxAttempts \in Nat \ {0}
    /\ MaxRounds \in Nat
    /\ MaxCalls \in Nat
    /\ OutCap \in Nat \ {0}

VARIABLES
    dut,        \* where the board is (external)
    fifo,       \* an interrupt byte waits in its UART
    out,        \* printed, not yet read
    stale,      \* a prompt is held in ser2net_partial
    watchers,   \* BootDetector.watchers
    mail,       \* matches that were sent to a receiver
    intChar,    \* SerialEngine.interrupt_char
    call,       \* the calls
    calls       \* counter for MaxCalls

ubootVars == <<dut, fifo, out, stale, watchers, mail, intChar, call, calls>>

\* A watcher belongs to a caller's channel; a nonce names its caller.
Patterns == {"spl", "marker", "prompt"} \cup Callers
Watchers == [by : Callers, what : Patterns]
Watch(c, what) == [by |-> c, what |-> what]

CallState == [at : {"idle", "attempt", "reboot", "undelivered", "spl", "arm",
               "rounds", "grace", "nonce", "echo", "conclude", "restore"},
         restart : {"hardware", "software", "none"},
         strategy : {"flood", "pattern"},
         char : {"default", "other"},    \* interrupt_char to use
         saved : {"default", "other"},   \* original_interrupt_char
         attempt : 1..MaxAttempts,
         rounds : 0..MaxRounds,
         interrupted : BOOLEAN, matched : BOOLEAN,
         prompted : BOOLEAN,             \* history: the board was at its prompt
                                         \* at some time since it was restarted
         result : {"none", "ok", "failed"}]
NoCall == [at |-> "idle", restart |-> "none", strategy |-> "flood",
           char |-> "default", saved |-> "default", attempt |-> 1, rounds |-> 0,
           interrupted |-> FALSE, matched |-> FALSE, prompted |-> FALSE,
           result |-> "none"]

UbootInit ==
    /\ dut \in {"linux", "prompt"}
    /\ fifo = FALSE
    /\ out = IF dut = "prompt" THEN <<"prompt">> ELSE <<>>
    /\ stale = FALSE
    /\ watchers = {}
    /\ mail = {}
    /\ intChar = "default"
    /\ call = [c \in Callers |-> NoCall]
    /\ calls = 0

-----------------------------------------------------------------------------
(* The board (external).  "auto" is the autoboot countdown.                *)

\* What an interrupt byte does to the board.
Interrupted(at) ==
    CASE at = "prompt" -> [dut |-> "prompt", says |-> <<"line", "prompt">>, keep |-> FALSE]
      [] at = "auto" -> [dut |-> "prompt", says |-> <<"prompt">>, keep |-> FALSE]
      [] at = "linux" -> [dut |-> "linux", says |-> <<>>, keep |-> FALSE]
      [] OTHER -> [dut |-> at, says |-> <<>>, keep |-> TRUE]

\* A line of the caller: both shells, and a tty, echo it.
Said(at, c) == IF at \in {"prompt", "linux"} THEN <<c>> ELSE <<>>

\* The history of the calls when the board comes to be there.
Prompted(next, at) ==
    IF at = "prompt" THEN [c \in Callers |-> [next[c] EXCEPT !.prompted = TRUE]]
    ELSE next

Boots ==
    /\ \E move \in {<<"rom", <<"spl">>, "spl">>, <<"spl", <<"marker">>, "auto">>,
                    <<"auto", <<"line">>, "linux">>} :
         /\ dut = move[1]
         /\ Len(out) + Len(move[2]) <= OutCap
         /\ IF move[3] = "auto" /\ fifo
            THEN /\ dut' = "prompt" /\ fifo' = FALSE /\ out' = out \o <<"prompt">>
                 /\ call' = Prompted(call, "prompt")
            ELSE /\ dut' = move[3] /\ out' = out \o move[2]
                 /\ UNCHANGED <<fifo, call>>
    /\ UNCHANGED <<stale, watchers, mail, intChar, calls>>

-----------------------------------------------------------------------------
(* The read loop: feed and check_watchers for the next piece.              *)

ReadPiece ==
    /\ out # <<>>
    /\ out' = Tail(out)
    /\ IF Head(out) = "prompt"
       THEN stale' = TRUE /\ UNCHANGED <<watchers, mail>>
       ELSE LET line == {Head(out)} \cup (IF stale THEN {"prompt"} ELSE {})
                fired == {w \in watchers : w.what \in line}
            IN  /\ stale' = FALSE
                /\ watchers' = watchers \ fired
                /\ mail' = mail \cup fired
    /\ UNCHANGED <<dut, fifo, intChar, call, calls>>

-----------------------------------------------------------------------------
(* The call.                                                               *)

At(c, step) == call[c].at = step
Go(c, step) == [call EXCEPT ![c].at = step]

\* remove_watcher_by_pattern: whoever registered it.
Without(patterns) == {w \in watchers : w.what \notin patterns}

CallUboot(c, restart, strategy, char) ==
    /\ At(c, "idle")
    /\ calls < MaxCalls
    /\ call' = [call EXCEPT ![c] = [NoCall EXCEPT !.at = "attempt", !.restart = restart,
                                       !.strategy = strategy, !.char = char]]
    /\ calls' = calls + 1
    /\ UNCHANGED <<dut, fifo, out, stale, watchers, mail, intChar>>

\* The override of the interrupt byte, kept for the attempt.
SaveChar(c) ==
    /\ At(c, "attempt")
    /\ call' = [call EXCEPT ![c].saved = intChar, ![c].matched = FALSE,
                            ![c].interrupted = FALSE, ![c].rounds = 0,
                            ![c].prompted = FALSE,
                            ![c].at = IF @ = "attempt" /\ call[c].restart = "software"
                                      THEN "reboot" ELSE "arm"]
    /\ intChar' = IF call[c].char = "default" THEN intChar ELSE call[c].char
    /\ UNCHANGED <<dut, fifo, out, stale, watchers, mail, calls>>

\* restart=software: the shell gets "reboot", the first stage is waited for.
SendReboot(c) ==
    /\ At(c, "reboot")
    /\ watchers' = watchers \cup {Watch(c, "spl")}
    /\ mail' = mail \ {Watch(c, "spl")}
    /\ \/ /\ Len(out) < OutCap
          /\ dut' = IF dut = "linux" THEN "rom" ELSE dut
          /\ out' = Append(out, "line")
          /\ call' = Go(c, "spl")
       \/ call' = Go(c, "undelivered") /\ UNCHANGED <<dut, out>>
    /\ UNCHANGED <<fifo, stale, intChar, calls>>

GiveBack(c, result) == [call EXCEPT ![c].at = "idle", ![c].result = result]

Undelivered(c) ==
    /\ At(c, "undelivered")
    /\ call' = GiveBack(c, "failed")
    /\ intChar' = call[c].saved
    /\ watchers' = Without({"spl"})
    /\ UNCHANGED <<dut, fifo, out, stale, mail, calls>>

\* The first stage was seen, or 30 s have passed.
SplSeen(c) ==
    /\ At(c, "spl")
    /\ call' = Go(c, "arm")
    /\ watchers' = Without({"spl"})
    /\ UNCHANGED <<dut, fifo, out, stale, mail, intChar, calls>>

Armings(c) ==
    watchers \cup {Watch(c, "prompt")}
             \cup (IF call[c].strategy = "pattern" THEN {Watch(c, "marker")} ELSE {})

\* do_relay_reset: in flood mode interrupt bytes go out before the press and
\* after the release.  All under the engine mutex.
Arm(c) ==
    /\ At(c, "arm")
    /\ mail' = {m \in mail : m.by # c}
    /\ \/ /\ call[c].restart # "hardware"
          /\ watchers' = Armings(c)
          /\ call' = Prompted(Go(c, "rounds"), dut)
          /\ UNCHANGED <<dut, fifo, out, intChar>>
       \/ /\ call[c].restart = "hardware"
          /\ LET primed == IF call[c].strategy = "flood" THEN Interrupted(dut).says ELSE <<>>
             IN  Len(out) + Len(primed) <= OutCap /\ out' = out \o primed
          /\ dut' = "rom"
          /\ fifo' = (call[c].strategy = "flood")
          /\ watchers' = Armings(c)
          /\ call' = [Go(c, "rounds") EXCEPT ![c].prompted = FALSE]
          /\ UNCHANGED intChar
       \/ /\ call[c].restart = "hardware"
          /\ call' = GiveBack(c, "failed")
          /\ intChar' = call[c].saved
          /\ watchers' = Without({"prompt"} \cup
                            (IF call[c].strategy = "pattern" THEN {"marker"} ELSE {}))
          /\ UNCHANGED <<dut, fifo, out>>
    /\ UNCHANGED <<stale, calls>>

SendInterrupt(c) ==
    LET hit == Interrupted(dut) IN
    /\ Len(out) + Len(hit.says) <= OutCap
    /\ dut' = hit.dut
    /\ out' = out \o hit.says
    /\ fifo' = (fifo \/ hit.keep)

\* One round of the loop: a prompt that was seen ends it; a flood sends a byte,
\* a pattern that was seen is answered once.
Round(c) ==
    /\ At(c, "rounds")
    /\ call[c].rounds < MaxRounds
    /\ Watch(c, "prompt") \notin mail
    /\ IF \/ call[c].strategy = "flood"
          \/ ~call[c].interrupted /\ Watch(c, "marker") \in mail
       THEN /\ SendInterrupt(c)
            /\ call' = Prompted([call EXCEPT ![c].rounds = @ + 1,
                                             ![c].interrupted = TRUE],
                                Interrupted(dut).dut)
       ELSE /\ call' = [call EXCEPT ![c].rounds = @ + 1]
            /\ UNCHANGED <<dut, out, fifo>>
    /\ UNCHANGED <<stale, watchers, mail, intChar, calls>>

\* recv() gives a match, or None when the watcher was removed: both count.
PromptSeen(c) ==
    /\ \/ At(c, "rounds") /\ Watch(c, "prompt") \in mail
       \/ At(c, "grace") /\ Watch(c, "prompt") \notin watchers
    /\ call' = [call EXCEPT ![c].at = "conclude", ![c].matched = TRUE]
    /\ UNCHANGED <<dut, fifo, out, stale, watchers, mail, intChar, calls>>

\* The rounds are over; then three seconds are.
NoPrompt(c) ==
    /\ \/ At(c, "rounds") /\ call[c].rounds = MaxRounds /\ call' = Go(c, "grace")
       \/ At(c, "grace") /\ call' = Go(c, "nonce")
    /\ UNCHANGED <<dut, fifo, out, stale, watchers, mail, intChar, calls>>

\* The neutral confirmation: what is echoed must be a command line.
EchoNonce(c) ==
    /\ At(c, "nonce")
    /\ Len(out) < OutCap
    /\ watchers' = watchers \cup {Watch(c, c)}
    /\ out' = out \o Said(dut, c)
    /\ call' = Go(c, "echo")
    /\ UNCHANGED <<dut, fifo, stale, mail, intChar, calls>>

NonceOver(c) ==
    /\ At(c, "echo")
    /\ call' = [call EXCEPT ![c].at = "conclude",
                            ![c].matched = Watch(c, c) \in mail]
    /\ watchers' = Without({c})
    /\ UNCHANGED <<dut, fifo, out, stale, mail, intChar, calls>>

Conclude(c) ==
    /\ At(c, "conclude")
    /\ watchers' = Without({"prompt"} \cup
                      (IF call[c].strategy = "pattern" THEN {"marker"} ELSE {}))
    /\ call' = Go(c, "restore")
    /\ UNCHANGED <<dut, fifo, out, stale, mail, intChar, calls>>

\* Mutant: the byte is restored for a success only.
RestoreOnSuccess(c) ==
    /\ At(c, "restore")
    /\ intChar' = IF call[c].matched THEN call[c].saved ELSE intChar
    /\ call' = GiveBack(c, IF call[c].matched THEN "ok" ELSE "failed")
    /\ UNCHANGED <<dut, fifo, out, stale, watchers, mail, calls>>

\* Mutant: one attempt more.
RestoreAndRetry(c) ==
    /\ At(c, "restore")
    /\ intChar' = call[c].saved
    /\ call' = IF call[c].matched THEN GiveBack(c, "ok")
               ELSE IF call[c].attempt > MaxAttempts THEN GiveBack(c, "failed")
               ELSE [Go(c, "attempt") EXCEPT ![c].attempt = @ + 1]
    /\ UNCHANGED <<dut, fifo, out, stale, watchers, mail, calls>>

RestoreChar(c) ==
    /\ At(c, "restore")
    /\ intChar' = call[c].saved
    /\ call' = IF call[c].matched THEN GiveBack(c, "ok")
               ELSE IF call[c].attempt = MaxAttempts THEN GiveBack(c, "failed")
               ELSE [Go(c, "attempt") EXCEPT ![c].attempt = @ + 1]
    /\ UNCHANGED <<dut, fifo, out, stale, watchers, mail, calls>>

UbootNext ==
    \/ Boots
    \/ ReadPiece
    \/ \E c \in Callers :
         \/ \E restart \in {"hardware", "software", "none"},
               strategy \in {"flood", "pattern"}, char \in {"default", "other"} :
              CallUboot(c, restart, strategy, char)
         \/ SaveChar(c)
         \/ SendReboot(c)
         \/ Undelivered(c)
         \/ SplSeen(c)
         \/ Arm(c)
         \/ Round(c)
         \/ PromptSeen(c)
         \/ NoPrompt(c)
         \/ EchoNonce(c)
         \/ NonceOver(c)
         \/ Conclude(c)
         \/ RestoreChar(c)

UbootSpec == UbootInit /\ [][UbootNext]_ubootVars

-----------------------------------------------------------------------------
(* Properties.                                                             *)

\* Calls and watchers are well formed; no attempt past the last one.
UbootTypeOK ==
    /\ dut \in {"linux", "rom", "spl", "auto", "prompt"}
    /\ fifo \in BOOLEAN /\ stale \in BOOLEAN
    /\ out \in Seq({"line", "spl", "marker", "prompt"} \cup Callers)
    /\ Len(out) <= OutCap
    /\ watchers \subseteq Watchers
    /\ mail \subseteq Watchers
    /\ intChar \in {"default", "other"}
    /\ call \in [Callers -> CallState]

\* However the calls of an agent end, the interrupt byte is the configured one
\* again and no watcher is left to fire on later output.
NothingLeftBehind ==
    (\A c \in Callers : At(c, "idle")) => watchers = {} /\ intChar = "default"

\* serial_enter_uboot "Enter the U-Boot prompt": a call that reports success
\* leaves a board that has shown its prompt since the call restarted it, or
\* since the attempt began.
SuccessMeansPrompt ==
    \A c \in Callers : call[c].result = "ok" => call[c].prompted

=============================================================================
