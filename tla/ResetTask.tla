------------------------------ MODULE ResetTask ------------------------------
(***************************************************************************)
(* Tools that restart a board and wait for it to boot: serial_reset, as a  *)
(* task or as a plain call, and serial_power_cycle                         *)
(* (src/sermcp/src/mcp_handler/task_runtime.rs, task_manager.rs).          *)
(*                                                                         *)
(* A call takes the mutex of its engine for the physical pulse and for     *)
(* every access to the detector's watchers, and waits without it, so that  *)
(* the read loop can fire them.  The boards of a server may hang from one  *)
(* relay box, whose lock belongs to the process.                           *)
(***************************************************************************)
EXTENDS FiniteSets, Naturals, Sequences, SequencesExt

CONSTANTS
    Resets,         \* calls
    Boards,         \* DUTs of the server
    Nobody,         \* holds a mutex that is free
    Patient,        \* calls with a failure_retry of FailureRetry, not of one
    FailureRetry,   \* attempts
    PrintCap        \* bound: lines printed and not read

ASSUME ResetAssumption ==
    /\ Nobody \notin Resets
    /\ Patient \subseteq Resets
    /\ FailureRetry \in Nat \ {0}
    /\ PrintCap \in Nat

VARIABLES
    mutex,     \* who holds the mutex of each engine
    slot,      \* the permit of each DUT is there
    reset,     \* the calls
    waits,     \* the watchers of each detector
    matched,   \* calls with a match in their channel
    booting,   \* where each board is (external), and what it printed
    relayLock  \* who holds the lock of the relay

resetVars == <<mutex, slot, reset, waits, matched, booting, relayLock>>
detectorVars == <<waits, matched, booting>>

\* "plain": serial_reset without a task   "quick": either tool, wait_boot=false
ResetKinds == {"task", "plain", "power", "quick"}
Steps == {"idle", "check", "pulse", "arm", "wait", "disarm", "save", "report", "pause", "over"}
NewReset == [at |-> "idle", kind |-> "plain", board |-> "none", line |-> "kernel", late |-> FALSE,
             cancel |-> FALSE, attempt |-> 0, heard |-> "none"]

ResetInit ==
    /\ mutex = [b \in Boards |-> Nobody]
    /\ slot = [b \in Boards |-> TRUE]
    /\ reset = [r \in Resets |-> NewReset]
    /\ waits = {} /\ matched = {}
    /\ booting = [b \in Boards |-> [at |-> "login", says |-> <<>>]]
    /\ relayLock = "free"

Stands(r, step) == reset[r].at = step
Becomes(r, record) == reset' = [reset EXCEPT ![r] = record]
Goes(r, step) == Becomes(r, [reset[r] EXCEPT !.at = step])
Mine(r) == mutex[reset[r].board]

\* The permit lives in the worker and goes when it ends.
Ends(r) ==
    /\ Becomes(r, [NewReset EXCEPT !.at = "over"])
    /\ slot' = IF reset[r].kind = "task" THEN [slot EXCEPT ![reset[r].board] = TRUE] ELSE slot

-----------------------------------------------------------------------------
(* The boards (external) and the read loop.                                *)

Boots(b) ==
    /\ \E move \in {<<"rom", "kernel">>, <<"kernel", "login">>} :
          /\ booting[b].at = move[1] /\ Len(booting[b].says) < PrintCap
          /\ booting' = [booting EXCEPT ![b].at = move[2], ![b].says = Append(@, move[2])]
    /\ UNCHANGED <<mutex, slot, reset, waits, matched, relayLock>>

\* check_watchers: a watcher goes when it fires.
Hears(b) ==
    /\ mutex[b] = Nobody /\ booting[b].says # <<>>
    /\ LET fired == {w \in waits : w.board = b /\ w.line = Head(booting[b].says)}
       IN  waits' = waits \ fired /\ matched' = matched \cup {w.by : w \in fired}
    /\ booting' = [booting EXCEPT ![b].says = Tail(@)]
    /\ UNCHANGED <<mutex, slot, reset, relayLock>>

\* Another server at the same relay.
OtherTakes ==
    /\ relayLock = "free"
    /\ relayLock' = "other"
    /\ UNCHANGED <<mutex, slot, reset, detectorVars>>

OtherReturns ==
    /\ relayLock = "other"
    /\ relayLock' = "free"
    /\ UNCHANGED <<mutex, slot, reset, detectorVars>>

-----------------------------------------------------------------------------
(* The calls.                                                              *)

\* Only a reset by a client that knows tasks takes the permit.
Call(r, kind, b) ==
    /\ Stands(r, "idle")
    /\ kind = "task" => slot[b]
    /\ slot' = IF kind = "task" THEN [slot EXCEPT ![b] = FALSE] ELSE slot
    /\ Becomes(r, [NewReset EXCEPT !.at = "check", !.kind = kind, !.board = b])
    /\ UNCHANGED <<mutex, detectorVars, relayLock>>

RefuseTask(r, b) ==
    /\ Stands(r, "idle") /\ ~slot[b]
    /\ Becomes(r, [NewReset EXCEPT !.at = "over"])
    /\ UNCHANGED <<mutex, slot, detectorVars, relayLock>>

\* Mutant: the permit is returned with the acknowledgement.
CancelAndFree(r) ==
    /\ reset[r].kind = "task" /\ ~(reset[r].at \in {"idle", "over"} \/ reset[r].cancel)
    /\ Becomes(r, [reset[r] EXCEPT !.cancel = TRUE])
    /\ slot' = [slot EXCEPT ![reset[r].board] = TRUE]
    /\ UNCHANGED <<mutex, detectorVars, relayLock>>

\* tasks/cancel records the intent; the worker looks for it.
Cancel(r) ==
    /\ reset[r].kind = "task" /\ ~(reset[r].at \in {"idle", "over"} \/ reset[r].cancel)
    /\ Becomes(r, [reset[r] EXCEPT !.cancel = TRUE])
    /\ UNCHANGED <<mutex, slot, detectorVars, relayLock>>

\* The top of the loop; then the mutex, and the lock of the relay with it.
CheckCancel(r) ==
    /\ Stands(r, "check")
    /\ IF reset[r].cancel THEN Ends(r)
       ELSE Goes(r, "pulse") /\ UNCHANGED slot
    /\ UNCHANGED <<mutex, detectorVars, relayLock>>

\* acquire_lock of the relay succeeds for a process that has it.
PulseStarts(r) ==
    /\ Stands(r, "pulse") /\ Mine(r) = Nobody
    /\ IF relayLock = "other"
       THEN Ends(r) /\ UNCHANGED <<mutex, relayLock>>
       ELSE /\ mutex' = [mutex EXCEPT ![reset[r].board] = r]
            /\ relayLock' = "ours"
            /\ UNCHANGED <<reset, slot>>
    /\ UNCHANGED detectorVars

Restarts(b) == booting' = [booting EXCEPT ![b].at = "rom"]
Unlocks(r) == mutex' = [mutex EXCEPT ![reset[r].board] = Nobody]

\* A serial_reset waits for the kernel, a power cycle for the login prompt.  A
\* pulse that failed has restarted the board or not.
PulseEnds(r) ==
    /\ Stands(r, "pulse") /\ Mine(r) = r
    /\ Unlocks(r)
    /\ relayLock' = IF relayLock = "ours" THEN "free" ELSE relayLock
    /\ \/ /\ Ends(r)
          /\ UNCHANGED booting \/ Restarts(reset[r].board)
       \/ /\ reset[r].kind = "quick" /\ Ends(r)
          /\ Restarts(reset[r].board)
       \/ /\ reset[r].kind # "quick"
          /\ Becomes(r, [reset[r] EXCEPT !.at = "arm", !.attempt = @ + 1, !.late = FALSE,
                           !.line = IF reset[r].kind = "power" THEN "login" ELSE "kernel"])
          /\ Restarts(reset[r].board)
          /\ UNCHANGED slot
    /\ UNCHANGED <<waits, matched>>

\* queue_wait_pattern, with a channel of its own.
Arms(r) ==
    /\ Stands(r, "arm") /\ Mine(r) = Nobody
    /\ Goes(r, "wait")
    /\ waits' = waits \cup {[by |-> r, board |-> reset[r].board, line |-> reset[r].line]}
    /\ UNCHANGED <<mutex, slot, matched, booting, relayLock>>

\* wait_pattern_with_probe: a newline makes a getty print its prompt again.
Probes(r) ==
    /\ Stands(r, "wait")
    /\ LET b == reset[r].board IN
          /\ booting[b] = [at |-> "login", says |-> <<>>]
          /\ booting' = [booting EXCEPT ![b].says = <<"login">>]
    /\ UNCHANGED <<mutex, slot, reset, waits, matched, relayLock>>

\* A match; or the time is over, or the watcher was removed; or a cancel.
Wakes(r) ==
    /\ Stands(r, "wait")
    /\ \E heard \in {"yes", "no", "cancel"} :
          /\ heard = "yes" => r \in matched
          /\ heard = "no" => r \notin matched
          /\ heard = "cancel" => reset[r].cancel
          /\ Becomes(r, [reset[r] EXCEPT !.at = "disarm", !.heard = heard])
    /\ UNCHANGED <<mutex, slot, detectorVars, relayLock>>

AttemptsLimit(r) == IF r \in Patient THEN FailureRetry ELSE 1

\* After the kernel the login prompt; without it the prompt may still come.
AfterWait(r) ==
    LET heard == reset[r].heard
        awaits == [reset[r] EXCEPT !.at = "arm", !.line = "login", !.heard = "none"]
        goes(step) == Becomes(r, [reset[r] EXCEPT !.at = step, !.heard = "none"])
    IN  IF heard = "cancel" THEN Ends(r)
        ELSE /\ UNCHANGED slot
             /\ IF reset[r].line = "kernel"
                THEN IF heard = "yes" THEN goes("save")
                                      ELSE Becomes(r, [awaits EXCEPT !.late = TRUE])
                ELSE IF \/ heard = "yes" \/ ~reset[r].late
                        \/ reset[r].attempt >= AttemptsLimit(r)
                THEN goes("report") ELSE goes("pause")

\* remove_watcher_by_pattern: whoever registered it.
Disarms(r) ==
    /\ Stands(r, "disarm") /\ Mine(r) = Nobody
    /\ waits' = {w \in waits : w.board # reset[r].board \/ w.line # reset[r].line}
    /\ matched' = matched \ {r}
    /\ AfterWait(r)
    /\ UNCHANGED <<mutex, booting, relayLock>>

AwaitsLogin(r) == Becomes(r, [reset[r] EXCEPT !.at = "arm", !.line = "login"])

\* Mutant: the guard lives on while the login prompt is awaited.
SavesHolding(r) ==
    /\ Stands(r, "save") /\ Mine(r) = Nobody
    /\ AwaitsLogin(r)
    /\ mutex' = [mutex EXCEPT ![reset[r].board] = r]
    /\ UNCHANGED <<slot, detectorVars, relayLock>>

\* The reference log, under the mutex.
Saves(r) ==
    /\ Stands(r, "save") /\ Mine(r) = Nobody
    /\ AwaitsLogin(r)
    /\ UNCHANGED <<mutex, slot, detectorVars, relayLock>>

Reports(r) ==
    /\ Stands(r, "report") /\ Mine(r) = Nobody
    /\ Ends(r)
    /\ UNCHANGED <<mutex, detectorVars, relayLock>>

Pauses(r) ==
    /\ Stands(r, "pause")
    /\ \/ reset[r].cancel /\ Ends(r)
       \/ Goes(r, "check") /\ UNCHANGED slot
    /\ UNCHANGED <<mutex, detectorVars, relayLock>>

\* rmcp (external) drops a worker at shutdown and when its time to live is over:
\* its guard, its permit and its receiver go, wherever it is, and its watcher
\* fires into a closed channel.  Nothing gives the lock of the relay back.
Drops(r) ==
    /\ reset[r].kind = "task" /\ reset[r].at \notin {"idle", "over"}
    /\ Ends(r)
    /\ mutex' = IF Mine(r) = r THEN [mutex EXCEPT ![reset[r].board] = Nobody] ELSE mutex
    /\ waits' = {w \in waits : w.by # r} /\ matched' = matched \ {r}
    /\ \/ UNCHANGED booting
       \/ Mine(r) = r /\ Restarts(reset[r].board)
    /\ UNCHANGED relayLock

Works(r) ==
    \/ CheckCancel(r) \/ PulseStarts(r) \/ PulseEnds(r) \/ Arms(r) \/ Wakes(r)
    \/ Disarms(r) \/ Saves(r) \/ Reports(r) \/ Pauses(r)

ResetNext ==
    \/ \E r \in Resets :
          \/ Works(r) \/ Cancel(r) \/ Probes(r) \/ Drops(r)
          \/ \E b \in Boards : RefuseTask(r, b) \/ \E kind \in ResetKinds : Call(r, kind, b)
    \/ \E b \in Boards : Boots(b) \/ Hears(b)
    \/ OtherTakes \/ OtherReturns

\* A call is a future that its runtime polls; its waits have timeouts.
ResetFairness == \A r \in Resets : WF_resetVars(Works(r))
ResetSpec == ResetInit /\ [][ResetNext]_resetVars /\ ResetFairness

-----------------------------------------------------------------------------
(* Properties.                                                             *)

\* The calls, the watchers and the boards are well formed, and no reset makes
\* more attempts than failure_retry.
ResetTypeOK ==
    /\ mutex \in [Boards -> Resets \cup {Nobody}]
    /\ slot \in [Boards -> BOOLEAN]
    /\ DOMAIN reset = Resets
    /\ \A r \in Resets :
          /\ reset[r].at \in Steps /\ reset[r].kind \in ResetKinds
          /\ reset[r].board \in Boards \cup {"none"}
          /\ reset[r].line \in {"kernel", "login"}
          /\ reset[r].attempt \in 0..AttemptsLimit(r)
          /\ reset[r].heard \in {"none", "yes", "no", "cancel"}
    /\ \A w \in waits : w.by \in Resets /\ w.board \in Boards /\ w.line \in {"kernel", "login"}
    /\ matched \subseteq Resets
    /\ \A b \in Boards : booting[b].at \in {"rom", "kernel", "login"}
                         /\ booting[b].says \in Seq({"kernel", "login"})
    /\ relayLock \in {"free", "ours", "other"}

Workers(b) == {r \in Resets : /\ reset[r].kind = "task" /\ reset[r].board = b
                              /\ reset[r].at \notin {"idle", "over"}}

\* The module comment of task_manager.rs: a DUT has at most one task, until its
\* worker is gone, a cancelled one included, and the next may start when it is.
TasksTakeTurns ==
    /\ ResetTypeOK
    /\ \A b \in Boards : Cardinality(Workers(b)) = IF slot[b] THEN 0 ELSE 1

\* The comment in run_reset_sync: a call that holds the mutex of its engine
\* while it waits for the read loop would starve it for ever.  No call stays
\* under way, whichever other calls remove its watcher, and are cancelled or
\* dropped meanwhile.
EveryResetEnds == <>[](\A r \in Resets : reset[r].at \in {"idle", "over"})

\* try_acquire_relay_lock: two agents do not pulse one relay box at a time.
RelayLockGuardsPulse ==
    relayLock = "other" => \A r \in Resets : ~(reset[r].at = "pulse" /\ Mine(r) = r)
=============================================================================
