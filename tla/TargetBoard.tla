---------------------------- MODULE TargetBoard ----------------------------
(***************************************************************************)
(* What the engine believes of its board, and the board itself: the target *)
(* state and its heartbeat (src/sermcp/src/state_manager.rs), the boot     *)
(* detector (boot_detector.rs), the read loop, the watchdog, auto-login    *)
(* and the power tools that drive both (serial_engine.rs).                 *)
(*                                                                         *)
(* The console is a sequence of pieces.  A line is one piece; a prompt has *)
(* no end of line, and the next line that arrives is glued to it.  The     *)
(* connection stays open here; SerialTakeover breaks it.                   *)
(***************************************************************************)
EXTENDS BootPrefix, Naturals, Sequences, SequencesExt

CONSTANTS
    HangTimeout,   \* ticks of silence before a probe
    ProbeWindow,   \* ticks in which a probe must be answered
    BootWindow,    \* ticks a board may be booting
    Hysteresis,    \* unanswered probes before the verdict
    MaxLogins,     \* MAX_LOGIN_ATTEMPTS
    MaxEvents,     \* bound: what the board does of its own accord
    MaxTools,      \* bound: tool calls and terminal sessions
    WireCap,       \* bound: pieces that were printed and not read
    TxCap          \* bound: lines that the write channel holds

ASSUME BoardAssumption ==
    /\ HangTimeout \in Nat
    /\ ProbeWindow \in Nat
    /\ BootWindow \in Nat
    /\ Hysteresis \in Nat \ {0}
    /\ MaxLogins \in Nat
    /\ MaxEvents \in Nat
    /\ MaxTools \in Nat
    /\ WireCap \in Nat \ {0}
    /\ TxCap \in Nat \ {0}

VARIABLES
    board,    \* where the board is
    wire,     \* printed, not yet read by the engine
    eng,      \* the engine
    beat,     \* its heartbeat: the other half of the StateManager
    probing,  \* probe_after_command_timeout: "no", "sent" or "heard"
    names,    \* history: user names the board got since it was started
    events,   \* counter for MaxEvents
    tools     \* counter for MaxTools

boardVars == <<board, wire, eng, beat, probing, names, events, tools>>

Prompts == {"login", "password", "shell"}
\* "newline" is white space only; "text" is any line no pattern knows.
Lines == {"ddr", "spl", "loader", "kernel", "restart", "powerdown", "panic",
          "text", "newline"}
Typed == {"newline", "user", "pass", "reboot"}
Targets == {"Active", "Booting", "UBoot", "Crashed", "DutOff", "Dutabo"}

-----------------------------------------------------------------------------
(* The board (external).                                                   *)

\* "rom" before the first line   "trap" after a panic   "dark" off, held in
\* reset or hung
Phases == {"rom", "ddr", "spl", "loader", "kernel", "login", "password",
           "shell", "trap", "dark"}
Running == {"kernel", "login", "password", "shell"}

\* What it does of its own accord: from, printed, to.  A kernel may survive its
\* oops, which counts as a crash like a panic.  The ROM is slower than
\* drain_writes: what was typed before a restart is lost in it.
Moves == {<<"rom", <<"ddr">>, "ddr">>, <<"rom", <<"spl">>, "spl">>,
          <<"ddr", <<"spl">>, "spl">>, <<"spl", <<"loader">>, "loader">>,
          <<"loader", <<"kernel">>, "kernel">>,
          <<"kernel", <<"login">>, "login">>,
          <<"password", <<"text", "login">>, "login">>,
          <<"trap", <<"panic">>, "trap">>, <<"trap", <<>>, "rom">>,
          <<"dark", <<>>, "rom">>}
         \cup {<<p, <<"panic">>, "trap">> : p \in Running}
         \cup {<<p, <<"panic">>, p>> : p \in {"login", "shell"}}
         \cup {<<p, <<"restart">>, "rom">> : p \in Running}
         \cup {<<p, <<"powerdown">>, "dark">> : p \in Running}
         \cup {<<p, <<"text">>, p>> : p \in Running}
         \cup {<<p, <<>>, "dark">> : p \in Phases \ {"dark"}}

BoardMoves ==
    /\ events < MaxEvents
    /\ \E move \in Moves :
         /\ board = move[1]
         /\ board = "rom" => eng.tx = <<>>
         /\ Len(wire) + Len(move[2]) <= WireCap
         /\ wire' = wire \o move[2]
         /\ board' = move[3]
         /\ names' = IF board' = "rom" THEN 0 ELSE names
    /\ events' = events + 1
    /\ UNCHANGED <<eng, beat, probing, tools>>

\* Its answers to a line that was typed: echo, output, the next prompt.
Answers(phase, key) ==
    CASE phase = "login" /\ key = "newline" -> {<<<<"newline", "login">>, "login">>}
      [] phase = "login" /\ key # "newline" -> {<<<<"text", "password">>, "password">>}
      [] phase = "password" -> {<<<<"text", "login">>, "login">>,
                                <<<<"newline", "shell">>, "shell">>}
      [] phase = "shell" /\ key = "newline" -> {<<<<"newline", "shell">>, "shell">>}
      [] phase = "shell" /\ key = "reboot" -> {<<<<"text", "restart">>, "rom">>}
      [] phase = "shell" /\ key \notin {"newline", "reboot"} ->
           {<<<<"text", "shell">>, "shell">>}
      [] OTHER -> {<<<<>>, phase>>}

\* drain_writes, and the board at the other end.
TypedLineArrives ==
    /\ eng.tx # <<>>
    /\ \E answer \in Answers(board, Head(eng.tx)) :
         /\ Len(wire) + Len(answer[1]) <= WireCap
         /\ wire' = wire \o answer[1]
         /\ board' = answer[2]
         /\ names' = CASE answer[2] = "rom" \/ answer[2] = "shell" -> 0
                       [] board = "login" /\ Head(eng.tx) = "user" -> names + 1
                       [] OTHER -> names
    /\ eng' = [eng EXCEPT !.tx = Tail(@)]
    /\ UNCHANGED <<beat, probing, events, tools>>

-----------------------------------------------------------------------------
(* The engine as a record, and its heartbeat.                              *)

\* target, bootAge       StateManager.current and boot_started_at
\* prefix, split         the boundary detector; persistence_split_boot, which is
\*                       of use within one read only
\* seen, asked           boot_detected, password_sent
\* held                  prompts in ser2net_partial
\* logins                login_attempts
\* recent                last_login_send, last_crash_time are under one tick old
\* tx                    the write channel
NewEngine == [target |-> "Active", bootAge |-> 0, prefix |-> "unknown",
              split |-> FALSE, seen |-> FALSE, asked |-> FALSE, held |-> {},
              logins |-> 0, recent |-> {}, tx |-> <<>>]

\* quiet                 ticks since last_data_time
\* probe, age, missed    a probe is wanted, in flight for so long; the misses
\* sent                  history: probes sent since the last activity
Beats == [quiet : 0..(HangTimeout + 1), probe : {"none", "wanted", "flight"},
          age : 0..(ProbeWindow + 1), missed : Nat, sent : Nat]

\* StateManager::on_activity, whose values are also the first ones.
OnActivity == [quiet |-> 0, probe |-> "none", age |-> 0, missed |-> 0, sent |-> 0]

\* StateManager::transition
To(e, target) ==
    IF target = e.target THEN e ELSE [e EXCEPT !.target = target, !.bootAge = 0]

\* BootDetector::reset_cycle
ResetCycle(e) == [e EXCEPT !.seen = FALSE, !.asked = FALSE]

\* LogManager::expect_boot
ExpectBoot(e) == [e EXCEPT !.prefix = "unknown"]

\* Mutant: the channel has no bound.
TypeUnbounded(e, key) == [e EXCEPT !.tx = Append(@, key)]

\* ConsoleDriver::sendline: a full channel drops the line.
Type(e, key) ==
    IF Len(e.tx) < TxCap THEN [e EXCEPT !.tx = Append(@, key)] ELSE e

BoardInit ==
    /\ board \in {"shell", "login", "rom"}
    /\ wire = <<>>
    /\ eng = NewEngine
    /\ beat = OnActivity
    /\ probing = "no"
    /\ names = 0
    /\ events = 0
    /\ tools = 0

-----------------------------------------------------------------------------
(* The detector: what the lines of a read mean.                            *)

\* strip_ser2net_banner passes on whole lines.  A line is the set of the
\* prompts that it begins with and of the piece that ends it.
SplitPiece(acc, piece) ==
    IF piece \in Prompts THEN [acc EXCEPT !.held = @ \cup {piece}]
    ELSE [held |-> {}, lines |-> Append(acc.lines, acc.held \cup {piece})]
SplitLines(held, chunk) == FoldLeft(SplitPiece, [held |-> held, lines |-> <<>>], chunk)

If(condition, event) == IF condition THEN <<event>> ELSE <<>>

\* check_crash, check_stages and handle_stage for one line, with the built-in
\* patterns.  A shell prompt counts wherever its line ends (SHELL_RE), the
\* login and password prompts only at the end of a line.
Detect(d, line) ==
    LET crash == "panic" \in line /\ "crash" \notin d.e.recent
        login == line = {"login", "newline"}
        password == "password" \in line /\ "newline" \in line
        late == line \cap {"kernel", "shell"} # {}
        seen == d.e.seen /\ "restart" \notin line /\ ~login
        asked == d.e.asked /\ "restart" \notin line
        prefix == line \cap {"ddr", "spl"} # {} /\ ~seen
    IN  [e |-> [d.e EXCEPT !.recent = IF crash THEN @ \cup {"crash"} ELSE @,
                           !.seen = (seen \/ prefix) /\ ~late,
                           !.asked = (asked \/ password) /\ ~prefix],
         found |-> d.found \o If(crash, "crash")
                           \o If("restart" \in line, "restart")
                           \o If(login, "login")
                           \o If(password /\ ~asked, "password")
                           \o If(prefix, "boot")
                           \o If("loader" \in line, "uboot")
                           \o If("kernel" \in line, "kernel")
                           \o If("shell" \in line, "shell")]

\* BootDetector::feed
Feed(e, lines) == FoldLeft(Detect, [e |-> e, found |-> <<>>], lines)

\* Mutant: a login prompt shows that the board is up.
SendLoginUp(e) ==
    IF "login" \in e.recent THEN e
    ELSE IF e.logins < MaxLogins
    THEN To(Type([e EXCEPT !.recent = @ \cup {"login"}, !.logins = @ + 1], "user"), "Active")
    ELSE To([e EXCEPT !.recent = @ \cup {"login"}, !.logins = MaxLogins + 1], "Active")

\* SerialEngine::send_login
SendLogin(e) ==
    IF "login" \in e.recent THEN e
    ELSE IF e.logins < MaxLogins
    THEN Type([e EXCEPT !.recent = @ \cup {"login"}, !.logins = @ + 1], "user")
    ELSE [e EXCEPT !.recent = @ \cup {"login"}, !.logins = MaxLogins + 1]

\* A stage other than the shell does not lift a crash.
Progress(e, target) == IF e.target = "Crashed" THEN e ELSE To(e, target)

\* handle_boot_events, one event.  BootStart archives the log unless the
\* bytes were already split, and re-arms the boundary detector with it.
Handle(e, event) ==
    CASE event = "boot" ->
           To([(IF e.split THEN e ELSE ExpectBoot(e)) EXCEPT !.logins = 0], "Booting")
      [] event = "restart" -> To(ResetCycle(e), "Booting")
      [] event = "login" -> SendLogin(e)
      [] event = "password" -> Type(e, "pass")
      [] event = "crash" -> To(e, "Crashed")
      [] event = "uboot" -> Progress(e, "UBoot")
      [] event = "kernel" -> Progress(e, "Booting")
      [] event = "shell" -> To([e EXCEPT !.logins = 0], "Active")

HandleAll(fed) == FoldLeft(Handle, fed.e, fed.found)

-----------------------------------------------------------------------------
(* One read of the read loop.                                              *)

\* record_serial_data
PersistPiece(acc, piece) ==
    [phase |-> PhaseAfter(acc.phase, piece), cut |-> acc.cut \/ CutsBefore(acc.phase, piece)]
Persist(e, chunk) ==
    LET walk == FoldLeft(PersistPiece, [phase |-> e.prefix, cut |-> FALSE], chunk)
    IN  [(IF walk.cut THEN ResetCycle(e) ELSE e)
           EXCEPT !.prefix = walk.phase, !.split = walk.cut]

\* maybe_detect_shutdown, then the revival of a board that is off.
Shutdown(e, chunk) == IF Contains(chunk, "powerdown") THEN To(e, "DutOff") ELSE e
Revive(e, chunk) ==
    IF e.target = "DutOff" /\ ToSet(chunk) # {"newline"} THEN To(e, "Active") ELSE e

\* has_probe_response and on_activity.
Hear(b, chunk) == IF ToSet(chunk) = {"newline"} THEN b ELSE OnActivity

\* read_loop_iter from the data on.  A human's terminal is relayed and logged.
AfterRead(e, chunk, split) ==
    LET kept == [Persist(e, chunk) EXCEPT !.held = split.held]
    IN  IF kept.target = "Dutabo" THEN kept
        ELSE [HandleAll(Feed(Revive(Shutdown(kept, chunk), chunk), split.lines))
                EXCEPT !.split = FALSE]

Read(n) ==
    /\ LET chunk == SubSeq(wire, 1, n)
       IN  /\ eng' = AfterRead(eng, chunk, SplitLines(eng.held, chunk))
           /\ beat' = Hear(beat, chunk)
    /\ wire' = SubSeq(wire, n + 1, Len(wire))
    /\ probing' = IF probing = "sent" THEN "heard" ELSE probing
    /\ UNCHANGED <<board, names, events, tools>>

-----------------------------------------------------------------------------
(* The watchdog.                                                           *)

\* The watchdog works on both halves: s.eng and s.beat.

\* Mutant: a probe that was scored stays in flight.
MissTwice(s) ==
    IF s.beat.missed + 1 >= Hysteresis
    THEN [eng |-> To(s.eng, "DutOff"), beat |-> [s.beat EXCEPT !.missed = @ + 1]]
    ELSE [s EXCEPT !.beat.missed = @ + 1]

\* The verdict on a probe that nobody answered.
Miss(s) ==
    IF s.beat.missed + 1 >= Hysteresis
    THEN [eng |-> To(s.eng, "DutOff"),
          beat |-> [s.beat EXCEPT !.probe = "none", !.missed = @ + 1]]
    ELSE [s EXCEPT !.beat.probe = "wanted", !.beat.missed = @ + 1]

\* Past the timeout: ask for a probe, or score the one that had its window.
Overdue(s) ==
    CASE s.beat.probe # "flight" -> [s EXCEPT !.beat.probe = "wanted"]
      [] s.beat.probe = "flight" /\ s.beat.age > ProbeWindow -> Miss(s)
      [] s.beat.probe = "flight" /\ s.beat.age <= ProbeWindow -> s

\* StateManager::check_hang
CheckHang(s) ==
    CASE s.eng.target \notin {"Booting", "Active"} ->
           [s EXCEPT !.beat.probe = IF @ = "wanted" THEN "none" ELSE @]
      [] s.eng.target = "Booting" /\ s.eng.bootAge >= BootWindow ->
           [s EXCEPT !.eng = To(@, "Active")]
      [] OTHER -> IF s.beat.quiet > HangTimeout THEN Overdue(s) ELSE s

Probes(s) ==
    /\ s.eng.target \in {"Active", "Booting"} /\ s.beat.probe = "wanted"
    /\ Len(s.eng.tx) < TxCap

\* Mutant: the probe is taken for activity.
HeartbeatIsActivity(s) ==
    IF s.eng.target = "DutOff" THEN [s EXCEPT !.eng = ExpectBoot(@)]
    ELSE IF Probes(s)
    THEN [eng |-> Type(s.eng, "newline"), beat |-> [OnActivity EXCEPT !.probe = "flight"]]
    ELSE s

\* The rest of the tick: re-arm after a verdict, and send the probe that is
\* wanted if the channel takes it.  flush_line_buf finds nothing: the detector
\* is fed whole lines.
Heartbeat(s) ==
    IF s.eng.target = "DutOff" THEN [s EXCEPT !.eng = ExpectBoot(@)]
    ELSE IF Probes(s)
    THEN [eng |-> Type(s.eng, "newline"),
          beat |-> [s.beat EXCEPT !.probe = "flight", !.age = 0, !.sent = @ + 1]]
    ELSE s

\* watchdog_once
Watchdog ==
    /\ eng.target # "Dutabo"
    /\ \E after \in {Heartbeat(CheckHang([eng |-> eng, beat |-> beat]))} :
          eng' = after.eng /\ beat' = after.beat
    /\ UNCHANGED <<board, wire, probing, names, events, tools>>

Up(n, bound) == IF n < bound THEN n + 1 ELSE n

Tick ==
    /\ eng' = [eng EXCEPT !.bootAge = IF eng.target = "Booting" THEN Up(@, BootWindow) ELSE 0,
                          !.recent = {}]
    /\ beat' = [beat EXCEPT !.quiet = Up(@, HangTimeout + 1),
                            !.age = IF beat.probe = "flight"
                                    THEN Up(@, ProbeWindow + 1) ELSE 0]
    /\ UNCHANGED <<board, wire, probing, names, events, tools>>

-----------------------------------------------------------------------------
(* The tools.                                                              *)

ToolRuns == tools < MaxTools /\ eng.target # "Dutabo" /\ tools' = tools + 1
Restarted(phase) == board' = phase /\ names' = IF phase = "rom" THEN 0 ELSE names

\* power_cycle_target: re-armed before the pulse, rolled back when it fails,
\* with the power off or not.
PowerCycle ==
    /\ ToolRuns
    /\ \/ Restarted("rom") /\ eng' = To(ResetCycle(ExpectBoot(eng)), "Booting")
       \/ \E phase \in {board, "dark"} :
            Restarted(phase) /\ eng' = ResetCycle(ExpectBoot(eng))
    /\ UNCHANGED <<wire, beat, probing, events>>

\* reset_target: re-armed after the pulse.
ResetTarget ==
    /\ ToolRuns
    /\ \/ Restarted("rom") /\ eng' = ResetCycle(ExpectBoot(To(eng, "Booting")))
       \/ \E phase \in {board, "dark"} : Restarted(phase) /\ eng' = eng
    /\ UNCHANGED <<wire, beat, probing, events>>

\* do_relay_reset of serial_enter_uboot: nothing is rolled back.
RelayReset ==
    /\ ToolRuns
    /\ \/ Restarted("rom") /\ eng' = ResetCycle(ExpectBoot(To(eng, "Booting")))
       \/ Restarted(board) /\ eng' = To(eng, "Booting")
       \/ Restarted("dark") /\ eng' = ResetCycle(ExpectBoot(To(eng, "Booting")))
    /\ UNCHANGED <<wire, beat, probing, events>>

\* serial_enter_uboot with restart=software.
SoftwareReboot ==
    /\ ToolRuns
    /\ eng' = ResetCycle(ExpectBoot(Type(To(eng, "Booting"), "reboot")))
    /\ UNCHANGED <<board, wire, beat, probing, names, events>>

\* probe_after_command_timeout, first and last critical section.  The read
\* loop notes in between that bytes arrived, white space included; the state
\* is written whatever it has become.
ProbeStart ==
    /\ ToolRuns
    /\ probing = "no"
    /\ probing' = "sent"
    /\ eng' = Type(eng, "newline")
    /\ UNCHANGED <<board, wire, beat, names, events>>

ProbeEnd ==
    /\ probing # "no"
    /\ probing' = "no"
    /\ eng' = IF probing = "sent" THEN To(eng, "DutOff")
              ELSE IF eng.target = "DutOff" THEN To(eng, "Active")
              ELSE eng
    /\ beat' = IF probing = "sent" THEN beat ELSE OnActivity
    /\ UNCHANGED <<board, wire, names, events, tools>>

\* set_ws_tx and clear_ws_tx.
TakeOver ==
    /\ ToolRuns
    /\ eng' = To(eng, "Dutabo")
    /\ UNCHANGED <<board, wire, beat, probing, names, events>>

HandBack ==
    /\ eng.target = "Dutabo"
    /\ eng' = To(eng, "Active")
    /\ UNCHANGED <<board, wire, beat, probing, names, events, tools>>

BoardNext ==
    \/ BoardMoves
    \/ TypedLineArrives
    \/ \E n \in 1..Len(wire) : Read(n)
    \/ Watchdog
    \/ Tick
    \/ PowerCycle
    \/ ResetTarget
    \/ RelayReset
    \/ SoftwareReboot
    \/ ProbeStart
    \/ ProbeEnd
    \/ TakeOver
    \/ HandBack

\* The watchdog is a task that loops for ever, the read loop drains the write
\* channel, and time passes.
BoardSpec ==
    /\ BoardInit /\ [][BoardNext]_boardVars
    /\ WF_boardVars(Watchdog)
    /\ WF_boardVars(Tick)
    /\ WF_boardVars(TypedLineArrives)

-----------------------------------------------------------------------------
(* Properties.                                                             *)

\* The engine, its board and what is between them are well formed; no counter
\* and no channel passes the bound that the code gives it.
BoardTypeOK ==
    /\ board \in Phases
    /\ wire \in Seq(Prompts \cup Lines) /\ Len(wire) <= WireCap
    /\ eng.target \in Targets
    /\ eng.bootAge \in 0..BootWindow
    /\ beat \in Beats
    /\ eng.prefix \in PrefixPhases
    /\ {eng.split, eng.seen, eng.asked} \subseteq BOOLEAN
    /\ eng.held \subseteq Prompts
    /\ eng.logins \in 0..(MaxLogins + 1)
    /\ eng.recent \subseteq {"login", "crash"}
    /\ eng.tx \in Seq(Typed) /\ Len(eng.tx) <= TxCap
    /\ probing \in {"no", "sent", "heard"}
    /\ names \in Nat
    /\ events \in 0..MaxEvents
    /\ tools \in 0..MaxTools

\* send_login: "After MAX_LOGIN_ATTEMPTS rejections we STOP (some systems lock
\* accounts after repeated failures)": the names that the board got since it was
\* started, or since the last login.  (The count begins again when a boot is
\* read; a name typed at the prompt before it may reach the board after it.)
NamesBounded == names <= MaxLogins

\* Every miss that is counted is a probe that was sent after the last data and
\* got no answer; no probe is scored twice, none is scored unsent.
MissesMatchProbes ==
    beat.missed + (IF beat.probe = "flight" THEN 1 ELSE 0) = beat.sent

\* DUT-off is the watchdog's verdict only on a board that left as many probes
\* unanswered since its last data as the hysteresis asks for, whatever tools,
\* sessions and states came in between.  (A shut down that was read and a
\* command timeout have verdicts of their own.)
OffNeedsProbes ==
    [][(eng.target # "DutOff" /\ eng'.target = "DutOff") =>
         \/ wire' # wire \/ probing = "sent"
         \/ beat.sent >= Hysteresis]_boardVars

\* A board that falls silent while it counts as up is found out, whatever
\* tools fail around it, unless it starts to speak again or a human comes.
SilentBoardNoticed ==
    (board = "dark" /\ wire = <<>> /\ eng.target \in {"Active", "Booting"})
        ~> (board # "dark" \/ eng.target \notin {"Active", "Booting"})

\* What the engine reads in a step.
Heard == SubSeq(wire, 1, Len(wire) - Len(wire'))

\* A crash is not forgotten because of silence, of text, of a login prompt or
\* of a firmware banner: only a boot prefix, a restart, a shut down or a shell
\* prompt takes its place, or somebody at the tools or at the terminal.
CrashIsKept ==
    [][(eng.target = "Crashed" /\ eng'.target # "Crashed") =>
         \/ tools' # tools \/ probing # "no"
         \/ (ToSet(Heard) \cup eng.held) \cap
              {"ddr", "spl", "restart", "powerdown", "shell"} # {}]_boardVars

\* The table of states in state_manager.rs: a kernel panic turns any state
\* into Crashed (the throttle of two seconds aside).
CrashIsNoticed ==
    [][(/\ wire # wire' /\ Heard # <<>> /\ Last(Heard) = "panic"
        /\ eng.target # "Dutabo" /\ "crash" \notin eng.recent)
         => eng'.target = "Crashed"]_boardVars

=============================================================================
