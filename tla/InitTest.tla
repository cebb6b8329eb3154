------------------------------- MODULE InitTest -------------------------------
(***************************************************************************)
(* The TEST button of dutabo init (src/sermcp/src/bin/tui_init.rs), for a  *)
(* form with one host and one DUT.                                         *)
(*                                                                         *)
(* A press of TEST makes sure that a server runs, derives the probes from  *)
(* the form and starts a worker: probes that use the serial endpoint run   *)
(* in order on one lane, every other one on a thread of its own, and each  *)
(* waits for the rows it depends on.  The form polls what they report and  *)
(* ends the run when every row has a mark, at the deadline, or on Esc.     *)
(* The worker of a run that ended is not told.                             *)
(*                                                                         *)
(* A mark that is neither a pass nor a skip (Err, Warn, an unreachable     *)
(* server) is "bad".  The "testing" note of a thread is left out: its row  *)
(* is pending since the run began.                                         *)
(***************************************************************************)
EXTENDS Naturals

CONSTANTS
    Options,   \* bound: what the forms explored may fill in, see Forms
    MaxRuns    \* bound: presses of TEST

ASSUME TestAssumption == MaxRuns \in Nat /\ Options \subseteq
    {"relay", "noport", "power", "reset", "download", "flash", "user", "pass"}

VARIABLES
    form,      \* what the form has filled in
    server,    \* the server of the project: none, a child of the form (own),
               \* or one that ran before (other)
    worker,    \* the probes of a run: its lane, its threads, its results
    sent,      \* the last mark a run reported of a row
    screen,    \* the run the form shows, and the marks its rows began with
    pressed,   \* the download button's relay is closed
    open       \* the form is open

testVars == <<form, server, worker, sent, screen, pressed, open>>

Runs == 1 .. MaxRuns
Rows == {"ip", "user", "pass", "port", "baud", "power", "reset", "download",
         "relay", "reference", "uboot", "devices"}
Marks == {"none", "pending", "ok", "bad", "skip"}
NoMarks == [row \in Rows |-> "none"]

-----------------------------------------------------------------------------
(* The probes of a form.                                                   *)

\* A relay is "relay" with its port filled in, "noport" without.
Relay == form \cap {"relay", "noport"} # {}

\* The channel whose cycle brings the DUT into a known state.
Normaliser == IF ~Relay THEN {} ELSE
              IF "power" \in form THEN {"power"} ELSE form \cap {"reset"}

\* The lane: its probes, by their place.
Lane == [normalise |-> 1, baud |-> 2, connect |-> 3, learn |-> 4, enter |-> 5, list |-> 6]

\* The host answers, and lets the user in with a key or with the password.
HostProbes ==
    {"banner"} \cup (IF "user" \notin form THEN {} ELSE
                    IF "pass" \in form THEN {"password"} ELSE {"login"})

\* The console reads as text at its rate, once the DUT was brought to a known
\* state; the power channel takes precedence over the reset.
SerialProbes ==
    {"baud"} \cup (IF Normaliser # {} THEN {"normalise"} ELSE {})
             \cup (IF Normaliser = {"power"} THEN form \cap {"reset"} ELSE {})

\* The relay answers, a boot resembles the reference log, the boot stops in
\* U-Boot.  A relay without a port fails both of its rows.
RelayProbes ==
    (IF "relay" \in form THEN {"connect", "learn", "enter"} ELSE {})
    \cup (IF "noport" \in form THEN {"fail relay", "fail reset"} ELSE {})

\* Without a relay nothing is learned, and U-Boot is entered by a reboot.
SoftProbes == IF Relay THEN {} ELSE {"no reference", "enter"}

FlashProbes == IF "flash" \in form THEN {"preflight", "list"} ELSE {}

Kinds == HostProbes \cup SerialProbes \cup RelayProbes \cup SoftProbes \cup FlashProbes

Row(kind) ==
    CASE kind = "banner" -> "ip"
      [] kind = "login" -> "user"
      [] kind = "password" -> "pass"
      [] kind = "baud" -> "baud"
      [] kind = "normalise" -> CHOOSE row \in Normaliser : TRUE
      [] kind \in {"connect", "fail relay"} -> "relay"
      [] kind \in {"reset", "fail reset"} -> "reset"
      [] kind \in {"learn", "no reference"} -> "reference"
      [] kind = "enter" -> "uboot"
      [] kind \in {"preflight", "list"} -> "devices"

\* Rows that mirror a probe.
Linked(kind) ==
    CASE kind = "baud" -> {"port"}
      [] kind = "password" -> {"user"}
      [] kind = "normalise" -> form \cap {"download"}
      [] OTHER -> {}

\* A server with another configuration: what would call it is skipped.
Calling == {"normalise", "baud", "learn", "enter", "list"}

\* What a probe reports on, and what it waits for.
Reports(kind, blocked) ==
    {Row(kind)} \cup (IF blocked /\ kind \in Calling THEN {} ELSE Linked(kind))

Available(blocked) == UNION {Reports(kind, blocked) : kind \in Kinds}

Needs(kind, blocked) == Available(blocked) \cap
    ((IF kind = "banner" THEN {} ELSE {"ip"})
     \cup (IF blocked /\ kind \in Calling THEN {} ELSE
           CASE kind = "baud" -> Normaliser
             [] kind = "enter" ->
                    IF ~Relay THEN {"baud"} ELSE
                    {"baud", IF "power" \in form THEN "power" ELSE "reset"}
             [] kind = "learn" ->
                    {"baud", IF "power" \in form THEN "power" ELSE "reset"}
             [] kind = "list" -> {"user", "pass", "port", "devices"}
             [] kind = "preflight" -> {"user", "pass"}
             [] OTHER -> {}))

OnLane(kind, blocked) ==
    /\ kind \in DOMAIN Lane
    /\ ~(blocked /\ kind \in Calling)

-----------------------------------------------------------------------------
(* The workers.                                                            *)

\* The flash listing fails before it calls anything when the list of devices
\* cannot be read; "load" stands for its attempts to enter the loader and the
\* polls for a new device, "restore" for the reset that follows a pass.
Listing == {"bad", "load"}

\* How a probe begins: with a call of the server, but for the connection to
\* the relay, which is tried at once.
FirstCalls(kind) ==
    CASE kind = "normalise" -> IF "download" \in form THEN {"press"} ELSE {"cycle"}
      [] kind = "baud" -> {"capture"}
      [] kind = "learn" -> {"learn"}
      [] kind = "enter" -> {"enter"}
      [] kind = "list" -> Listing
      [] kind = "connect" -> {"ok", "bad"}

\* After an answer: the next call, or the probe's mark.  A held button is let
\* go before a failed cycle is reported, and once more after a good one.
AfterCall(call, good) ==
    CASE call = "press" -> IF good THEN "held cycle" ELSE "bad"
      [] call = "held cycle" -> IF good THEN "release" ELSE "give up"
      [] call = "give up" -> "bad"
      [] call = "release" -> IF good THEN "cycle" ELSE "bad"
      [] call = "load" -> IF good THEN "restore" ELSE "bad"
      [] call = "restore" -> "ok"
      [] OTHER -> IF good THEN "ok" ELSE "bad"

\* The relay of the button: a call that failed may have had its effect.
Effect(call, good) ==
    CASE call = "press" -> IF good THEN {TRUE} ELSE {pressed, TRUE}
      [] call \in {"give up", "release"} -> IF good THEN {FALSE} ELSE {pressed, FALSE}
      [] OTHER -> {pressed}

NoProbes == [lane |-> {}, at |-> "next", flight |-> "none", threads |-> {},
         blocked |-> FALSE, results |-> NoMarks, end |-> "none"]

NewWorker(blocked) ==
    [NoProbes EXCEPT !.lane = {kind \in Kinds : OnLane(kind, blocked)},
                     !.threads = {kind \in Kinds : ~OnLane(kind, blocked)},
                     !.blocked = blocked]

\* Mutant: the lane runs in the order in which the probes were listed.
FirstAsListed(lane) ==
    IF "baud" \in lane THEN "baud"
    ELSE CHOOSE kind \in lane : \A other \in lane : Lane[kind] <= Lane[other]

FirstOf(lane) == CHOOSE kind \in lane : \A other \in lane : Lane[kind] <= Lane[other]

Ready(r, kind) == \A row \in Needs(kind, worker[r].blocked) : worker[r].results[row] # "none"
Cleared(r, kind) == \A row \in Needs(kind, worker[r].blocked) : worker[r].results[row] = "ok"

\* A result is published to the other probes and reported to the form.
With(marks, rows, mark) == [row \in Rows |-> IF row \in rows THEN mark ELSE marks[row]]

Report(r, kind, mark, linked, rest) ==
    LET others == Reports(kind, worker[r].blocked) \ {Row(kind)}
        all(marks) == With(With(marks, {Row(kind)}, mark), others, linked)
    IN  /\ worker' = [worker EXCEPT ![r] = [rest EXCEPT !.results = all(@)]]
        /\ sent' = [sent EXCEPT ![r] = all(@)]

\* A thread: what never calls the server, and what is skipped.
Outcomes(r, kind) ==
    IF kind \in {"reset", "no reference"} \/ (worker[r].blocked /\ kind \in Calling)
    THEN {<<"skip", "skip">>}
    ELSE IF kind \in {"fail relay", "fail reset"} THEN {<<"bad", "bad">>}
    ELSE IF kind = "password" THEN {<<"ok", "ok">>, <<"bad", "ok">>, <<"bad", "bad">>}
    ELSE {<<"ok", "ok">>, <<"bad", "bad">>}

Thread(r) ==
    /\ open
    /\ \E kind \in worker[r].threads :
          /\ Ready(r, kind)
          /\ \E outcome \in IF Cleared(r, kind) THEN Outcomes(r, kind)
                            ELSE {<<"skip", "skip">>} :
                Report(r, kind, outcome[1], outcome[2],
                       [worker[r] EXCEPT !.threads = @ \ {kind}])
    /\ UNCHANGED <<form, server, screen, pressed, open>>

\* The lane takes its next probe and says so.
Take(r) ==
    /\ open /\ worker[r].lane # {} /\ worker[r].at = "next"
    /\ worker' = [worker EXCEPT ![r].at = "wait"]
    /\ sent' = [sent EXCEPT ![r] = With(@, {Row(FirstOf(worker[r].lane))}, "pending")]
    /\ UNCHANGED <<form, server, screen, pressed, open>>

\* Its prerequisites are known: it is skipped, or makes its first call.
Begin(r) ==
    /\ open /\ worker[r].at = "wait"
    /\ LET kind == FirstOf(worker[r].lane)
       IN  /\ Ready(r, kind)
           /\ \/ /\ Cleared(r, kind)
                 /\ \E call \in FirstCalls(kind) :
                       worker' = [worker EXCEPT ![r].at = call]
                 /\ UNCHANGED sent
              \/ /\ ~Cleared(r, kind)
                 /\ Report(r, kind, "skip", "skip",
                           [worker[r] EXCEPT !.lane = @ \ {kind}, !.at = "next"])
    /\ UNCHANGED <<form, server, screen, pressed, open>>

InCall(r) == worker[r].at \notin {"next", "wait", "ok", "bad"}

Call(r) ==
    /\ open /\ InCall(r) /\ worker[r].flight = "none" /\ server # "none"
    /\ worker' = [worker EXCEPT ![r].flight = "sent"]
    /\ UNCHANGED <<form, server, sent, screen, pressed, open>>

\* The answer, or the failure of a call whose server is gone.
Answer(r) ==
    /\ open /\ InCall(r)
    /\ worker[r].flight # "none" \/ server = "none"
    /\ \E good \in IF worker[r].flight = "sent" THEN BOOLEAN ELSE {FALSE} :
          /\ worker' = [worker EXCEPT ![r].at = AfterCall(@, good), ![r].flight = "none"]
          /\ pressed' \in IF worker[r].flight = "none" THEN {pressed}
                          ELSE Effect(worker[r].at, good)
    /\ UNCHANGED <<form, server, sent, screen, open>>

Close(r) ==
    /\ open /\ worker[r].at \in {"ok", "bad"}
    /\ Report(r, FirstOf(worker[r].lane), worker[r].at, worker[r].at,
              [worker[r] EXCEPT !.lane = @ \ {FirstOf(@)}, !.at = "next"])
    /\ UNCHANGED <<form, server, screen, pressed, open>>

-----------------------------------------------------------------------------
(* The form.                                                               *)

\* A child that is killed takes its calls with it.
Hung(w) == IF w.flight = "sent" THEN [w EXCEPT !.flight = "lost"] ELSE w
ChildKilled == [r \in Runs |-> Hung(worker[r])]

TestInit ==
    /\ form \in SUBSET Options
    /\ "pass" \in form => "user" \in form
    /\ ~({"relay", "noport"} \subseteq form)
    /\ server \in {"none", "other"}
    /\ worker = [r \in Runs |-> NoProbes]
    /\ sent = [r \in Runs |-> NoMarks]
    /\ screen = [run |-> 0, marks |-> NoMarks]
    /\ pressed = FALSE
    /\ open = TRUE

\* A port that was blocked stays so until a run ends by itself.
StillBlocked(r) ==
    \E q \in 1 .. r - 1 :
        /\ worker[q].blocked
        /\ \A later \in q .. r - 1 : worker[later].end \notin {"finished", "late"}

\* ensure: a child with the configuration of the form is kept, another child
\* is replaced, a server of somebody else is used or, with another
\* configuration, left alone.
Ensure(r, edited) ==
    CASE server = "none" -> {<<"own", worker, FALSE>>, <<"none", worker, FALSE>>}
      [] server = "own" -> {<<"own", IF edited THEN ChildKilled ELSE worker, FALSE>>}
      [] server = "other" -> {<<"other", worker, edited \/ StillBlocked(r)>>}

Ended(workers, how) ==
    [r \in Runs |-> IF r = screen.run THEN [workers[r] EXCEPT !.end = how] ELSE workers[r]]

\* Mutant: the rows are not marked pending when the run begins.
TestUnmarked(r) ==
    /\ open /\ worker[r] = NoProbes /\ \A q \in Runs : q < r => worker[q] # NoProbes
    /\ \E edited \in BOOLEAN : \E found \in Ensure(r, edited) :
          /\ server' = found[1]
          /\ worker' = [Ended(found[2], "cut") EXCEPT ![r] = NewWorker(found[3])]
          /\ screen' = [run |-> r, marks |-> NoMarks]
    /\ UNCHANGED <<form, sent, pressed, open>>

\* TEST is pressed, whether or not a run is shown.
Test(r) ==
    /\ open /\ worker[r] = NoProbes /\ \A q \in Runs : q < r => worker[q] # NoProbes
    /\ \E edited \in BOOLEAN : \E found \in Ensure(r, edited) :
          /\ server' = found[1]
          /\ worker' = [Ended(found[2], "cut") EXCEPT ![r] = NewWorker(found[3])]
          /\ screen' = [run |-> r, marks |-> With(NoMarks, Available(found[3]), "pending")]
    /\ UNCHANGED <<form, sent, pressed, open>>

\* The form polls every 50 ms: it shows what was reported.
Shown ==
    [row \in Rows |-> IF screen.run = 0 \/ sent[screen.run][row] = "none"
                      THEN screen.marks[row]
                      ELSE sent[screen.run][row]]

\* A poll that finds no row pending, or the deadline past, ends the run; a
\* child of the form ends with it.
Poll(late) ==
    /\ open /\ screen.run # 0
    /\ late \/ \A row \in Rows : Shown[row] # "pending"
    /\ screen' = [run |-> 0, marks |-> Shown]
    /\ server' = IF server = "own" THEN "none" ELSE server
    /\ worker' = Ended(IF server = "own" THEN ChildKilled ELSE worker,
                       IF late THEN "late" ELSE "finished")
    /\ UNCHANGED <<form, sent, pressed, open>>

\* Esc while a run is shown.
Cancel ==
    /\ open /\ screen.run # 0
    /\ worker' = Ended(worker, "cut")
    /\ screen' = [run |-> 0, marks |-> NoMarks]
    /\ UNCHANGED <<form, server, sent, pressed, open>>

\* Esc without a run, or saving and leaving: the process ends, and its child.
Leave ==
    /\ open
    /\ open' = FALSE
    /\ server' = IF server = "own" THEN "none" ELSE server
    /\ screen' = [run |-> 0, marks |-> NoMarks]
    /\ worker' = [r \in Runs |-> NoProbes]
    /\ sent' = [r \in Runs |-> NoMarks]
    /\ UNCHANGED <<form, pressed>>

TestNext ==
    \/ \E r \in Runs : Test(r) \/ Thread(r) \/ Take(r) \/ Begin(r) \/ Call(r)
                       \/ Answer(r) \/ Close(r)
    \/ \E late \in BOOLEAN : Poll(late)
    \/ Cancel
    \/ Leave

TestSpec == TestInit /\ [][TestNext]_testVars

-----------------------------------------------------------------------------
(* Properties.                                                             *)

\* The variables have their types.
TestTypeOK ==
    /\ form \subseteq Options
    /\ server \in {"none", "own", "other"}
    /\ \A r \in Runs : /\ worker[r].lane \cup worker[r].threads \subseteq Kinds
                        /\ worker[r].flight \in {"none", "sent", "lost"}
                        /\ worker[r].lane = {} => worker[r].at = "next"
                        /\ {worker[r].results[row] : row \in Rows} \subseteq Marks \ {"pending"}
    /\ screen.run \in Runs \cup {0}
    /\ {screen.marks[row] : row \in Rows} \subseteq Marks
    /\ pressed \in BOOLEAN /\ open \in BOOLEAN

\* A run that ended because every row had a mark has run every probe, but for
\* one that shares its row with another probe: the flash listing behind its
\* preflight, the reset row of a form without a relay port.
OnlySharedRowsAreCut ==
    \A r \in Runs : worker[r].end = "finished" =>
        \A kind \in worker[r].threads \cup worker[r].lane :
            \E other \in Kinds \ {kind} : Row(other) = Row(kind)

\* The probes of a run never all wait: no two of them wait for each other, none
\* for a later one of its lane, none for a row that nobody reports, whatever the
\* form has filled in.  As a worker's steps take away from its lane, its call or
\* its threads, every probe is reported or skipped in the end, and skipped only
\* where OnlySharedRowsAreCut allows it.
ProbesNeverStall ==
    /\ OnlySharedRowsAreCut
    /\ \A r \in Runs : LET w == worker[r] IN
          \/ w.lane = {} /\ w.threads = {}
          \/ w.lane # {} /\ (w.at = "wait" => Ready(r, FirstOf(w.lane)))
          \/ \E kind \in w.threads : Ready(r, kind)

\* "Serial-touching probes run IN LIST ORDER on ONE thread": no two of them
\* drive the DUT at a time.
OneLane ==
    \A r, q \in Runs :
        worker[r].flight = "sent" /\ worker[q].flight = "sent" => r = q
=============================================================================
