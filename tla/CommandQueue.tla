---------------------------- MODULE CommandQueue ----------------------------
(***************************************************************************)
(* The command queue of one DUT (src/sermcp/src/command_queue.rs).         *)
(*                                                                         *)
(* AI callers submit shell commands; at most one is on the serial line and *)
(* the others wait.  A command is written as one line that makes the shell *)
(* print a random marker, run the command, print EXIT:<code> and print the *)
(* marker again.  The queue scans the bytes coming back for the two        *)
(* markers and hands what lies between them to the caller.                 *)
(*                                                                         *)
(* This module is the queue alone: its state, and one operator per method. *)
(* A method is an operator from a queue to a queue, because the methods    *)
(* call each other inside one lock.  CommandSession composes it with a     *)
(* shell, a clock and the callers.                                         *)
(*                                                                         *)
(* Data.  The stream is a sequence of tokens.  A marker is two tokens      *)
(* (Half(c, 1), Half(c, 2)), so that a read may split it; the echo of the  *)
(* command line carries the same halves with a quote between them, as      *)
(* echo 'ABCD''EFGHIJ' does.  Markers of different commands differ.        *)
(***************************************************************************)
EXTENDS Integers, Sequences, FiniteSets, SequencesExt

CONSTANTS
    Commands,      \* the commands callers may submit, each at most once
    NoCommand,     \* "no command on the line"
    MaxPending,    \* MAX_PENDING: waiting commands before execute rejects
    Timeout,       \* the deadline of a command, counted from its submission
    BufferCap,     \* buffer_cap: tokens held in memory before spilling
    TrimKeep       \* trim_keep: tokens kept in memory when spilling

ASSUME QueueAssumption ==
    /\ NoCommand \notin Commands
    /\ MaxPending \in Nat \ {0}
    /\ Timeout \in Nat \ {0}
    /\ TrimKeep \in Nat \ {0}
    /\ BufferCap \in Nat /\ BufferCap >= TrimKeep

VARIABLES
    queue,         \* the CommandQueue value, a record of its fields
    enqueued_at,   \* enqueued_at of every submitted command
    gone,          \* commands whose caller dropped its receiver
    clock          \* Instant::now()

-----------------------------------------------------------------------------
(* Tokens of the byte stream.                                              *)

Half(c, i) == [k |-> "half", c |-> c, i |-> i]
Quote == [k |-> "quote"]
Out(c, i) == [k |-> "out", c |-> c, i |-> i]
Exit(c) == [k |-> "exit", c |-> c]
Printk == [k |-> "printk"]
Garbled == [k |-> "garbled"]

Marker(c) == <<Half(c, 1), Half(c, 2)>>

\* The line send_command writes, reduced to the part the scanner can mistake.
SentLine(c) == <<Half(c, 1), Quote, Half(c, 2)>>

\* What a CommandResult says, or that there is none yet.
NoResult == [kind |-> "none", out |-> <<>>, exit |-> FALSE]
OkResult(out, exit) == [kind |-> "ok", out |-> out, exit |-> exit]
TimedOut(out) == [kind |-> "timeout", out |-> out, exit |-> FALSE]
Rejected == [kind |-> "rejected", out |-> <<>>, exit |-> FALSE]
\* The sender was dropped without a result: the receiver sees it closed.
Closed == [kind |-> "closed", out |-> <<>>, exit |-> FALSE]

Kinds == {"none", "ok", "timeout", "rejected", "closed"}

\* Scanner state of a command that was just sent.
FreshScan == [echo_matched |-> 0, found_begin |-> FALSE,
              search_buf |-> <<>>, buffer |-> <<>>, spill |-> <<>>]

EmptyQueue ==
    [current   |-> NoCommand,
     pending   |-> <<>>,
     scan      |-> FreshScan,
     result    |-> [c \in Commands |-> NoResult],
     write_fn  |-> FALSE,
     tx        |-> <<>>,
     completed |-> 0,
     errors    |-> 0]

-----------------------------------------------------------------------------
(* Small helpers.                                                          *)

\* find_subsequence for a marker: the positions where it starts.
MarkerAt(s, c) ==
    {i \in 1 .. Len(s) - 1 : s[i] = Half(c, 1) /\ s[i + 1] = Half(c, 2)}

\* The last n elements of s.
Tail_n(s, n) == SubSeq(s, Len(s) - n + 1, Len(s))

Age(c) == clock - enqueued_at[c]

-----------------------------------------------------------------------------
(* The methods.                                                            *)

\* PendingCommand::resolve through the oneshot sender.
Resolve(q, c, r) == [q EXCEPT !.result[c] = r]

\* send_command: without a write function the command is dropped, and its
\* sender with it.
SendCommand(q, c) ==
    IF q.write_fn
    THEN [q EXCEPT !.current = c, !.scan = FreshScan, !.tx = Append(@, c)]
    ELSE Resolve(q, c, Closed)

\* dequeue_next skips commands whose caller is gone, answers those whose
\* deadline passed while they waited, and sends the first other one.
Sendable(c) == c \notin gone /\ Age(c) < Timeout

\* Mutant: expired commands are skipped like abandoned ones, without an answer.
DequeueNextSilent(q) ==
    LET p    == q.pending
        live == {i \in DOMAIN p : Sendable(p[i])}
        n    == IF live = {} THEN Len(p) ELSE Min(live) - 1
        left == [q EXCEPT !.pending = SubSeq(p, n + 2, Len(p))]
    IN  IF q.current # NoCommand THEN q
        ELSE IF live = {} THEN left
        ELSE SendCommand(left, p[n + 1])

DequeueNext(q) ==
    LET p    == q.pending
        live == {i \in DOMAIN p : Sendable(p[i])}
        n    == IF live = {} THEN Len(p) ELSE Min(live) - 1
        skipped == {p[i] : i \in 1 .. n}
        late == skipped \ gone
        left == [q EXCEPT
                   !.pending = SubSeq(p, n + 2, Len(p)),
                   !.result = [c \in Commands |->
                                 IF c \in late THEN TimedOut(<<>>)
                                 ELSE IF c \in skipped THEN Closed
                                 ELSE q.result[c]],
                   !.errors = @ + Cardinality(late)]
    IN  IF q.current # NoCommand THEN q
        ELSE IF live = {} THEN left
        ELSE SendCommand(left, p[n + 1])

\* Mutant: the newest command waits in front.
SubmitInFront(q, c) ==
    IF Len(q.pending) >= MaxPending THEN Resolve(q, c, Rejected)
    ELSE IF q.current = NoCommand THEN SendCommand(q, c)
    ELSE [q EXCEPT !.pending = <<c>> \o @]

\* execute.
Submit(q, c) ==
    IF Len(q.pending) >= MaxPending THEN Resolve(q, c, Rejected)
    ELSE IF q.current = NoCommand THEN SendCommand(q, c)
    ELSE [q EXCEPT !.pending = Append(@, c)]

\* The timeout check that opens both feed_clean_serial_data and
\* check_timeouts.  The partial output is the spilled part and the buffer.
CurrentExpired(q) == q.current # NoCommand /\ Age(q.current) > Timeout

\* Mutant: the expired command is answered but the next one is not sent.
ExpireCurrentOnly(q) ==
    IF CurrentExpired(q)
    THEN [Resolve(q, q.current, TimedOut(q.scan.spill \o q.scan.buffer))
            EXCEPT !.current = NoCommand, !.errors = @ + 1]
    ELSE q

\* Mutant: the expired command is answered but stays current.
ExpireCurrentKept(q) ==
    IF CurrentExpired(q)
    THEN [Resolve(q, q.current, TimedOut(q.scan.spill \o q.scan.buffer))
            EXCEPT !.errors = @ + 1]
    ELSE q

ExpireCurrent(q) ==
    IF CurrentExpired(q)
    THEN DequeueNext(
           [Resolve(q, q.current, TimedOut(q.scan.spill \o q.scan.buffer))
              EXCEPT !.current = NoCommand, !.errors = @ + 1])
    ELSE q

\* cancel_all drops every sender.
CancelAll(q) ==
    [q EXCEPT !.pending = <<>>, !.current = NoCommand,
              !.result = [c \in Commands |->
                            IF c = q.current \/ c \in ToSet(q.pending)
                            THEN Closed ELSE q.result[c]]]

-----------------------------------------------------------------------------
(* feed_clean_serial_data, step by step.                                   *)

\* How much of data continues the echo byte for byte.
EchoRun(scan, c, data) ==
    LET rest == SubSeq(SentLine(c), scan.echo_matched + 1, Len(SentLine(c)))
        runs == {n \in 0 .. Len(data) :
                   n <= Len(rest) /\ SubSeq(data, 1, n) = SubSeq(rest, 1, n)}
    IN  CHOOSE n \in runs : \A m \in runs : m <= n

\* Strip the echo; the first byte that is not echo ends the stripping.
StripEcho(scan, c, data) ==
    LET n      == EchoRun(scan, c, data)
        broken == n < Len(data) /\ scan.echo_matched + n < Len(SentLine(c))
    IN  [matched |-> IF broken THEN Len(SentLine(c))
                     ELSE scan.echo_matched + n,
         data    |-> SubSeq(data, n + 1, Len(data))]

\* Mutant: output starts where the echo ends.
FindBeginAtEcho(scan, c, data) ==
    LET echo == StripEcho(scan, c, data)
    IN  [scan EXCEPT !.echo_matched = echo.matched,
                     !.found_begin = echo.matched = Len(SentLine(c)),
                     !.buffer = echo.data]

\* Mutant: the search buffer is never trimmed.
FindBeginUntrimmed(scan, c, data) ==
    LET echo  == StripEcho(scan, c, data)
        s     == scan.search_buf \o echo.data
        found == MarkerAt(s, c)
    IN  IF found # {}
        THEN [scan EXCEPT !.echo_matched = echo.matched, !.found_begin = TRUE,
                          !.search_buf = <<>>,
                          !.buffer = SubSeq(s, Min(found) + 2, Len(s))]
        ELSE [scan EXCEPT !.echo_matched = echo.matched, !.search_buf = s]

\* Look for the begin marker in what was read so far.
FindBegin(scan, c, data) ==
    LET echo  == StripEcho(scan, c, data)
        s     == scan.search_buf \o echo.data
        found == MarkerAt(s, c)
    IN  IF found # {}
        THEN [scan EXCEPT !.echo_matched = echo.matched, !.found_begin = TRUE,
                          !.search_buf = <<>>,
                          !.buffer = SubSeq(s, Min(found) + 2, Len(s))]
        ELSE [scan EXCEPT !.echo_matched = echo.matched,
                          !.search_buf = IF Len(s) > BufferCap
                                         THEN Tail_n(s, TrimKeep) ELSE s]

\* Mutant: the oldest output is dropped whether or not it was written.
SpillAlways(scan, writes) ==
    LET n == Len(scan.buffer) - TrimKeep
    IN  IF Len(scan.buffer) > BufferCap
        THEN [scan EXCEPT !.spill = IF writes
                                    THEN @ \o SubSeq(scan.buffer, 1, n) ELSE @,
                          !.buffer = SubSeq(scan.buffer, n + 1, Len(@))]
        ELSE scan

\* Move the oldest output to the spill file; a failed write keeps it in memory.
Spill(scan, writes) ==
    LET n == Len(scan.buffer) - TrimKeep
    IN  IF Len(scan.buffer) > BufferCap /\ writes
        THEN [scan EXCEPT !.spill = @ \o SubSeq(scan.buffer, 1, n),
                          !.buffer = SubSeq(scan.buffer, n + 1, Len(@))]
        ELSE scan

\* extract_exit_code: only a last line EXIT:<code> is an exit code.
ExtractExit(out) ==
    IF out # <<>> /\ out[Len(out)].k = "exit"
    THEN OkResult(SubSeq(out, 1, Len(out) - 1), TRUE)
    ELSE OkResult(out, FALSE)

\* The end marker completes the current command and starts the next one.
Complete(q, scan, at) ==
    DequeueNext(
      [Resolve(q, q.current,
               ExtractExit(scan.spill \o SubSeq(scan.buffer, 1, at - 1)))
         EXCEPT !.current = NoCommand, !.completed = @ + 1])

\* One pass over a chunk: the new queue, and the bytes after an end marker.
ScanChunk(q, data, writes) ==
    IF q.current = NoCommand THEN [q |-> q, rest |-> <<>>]
    ELSE
    LET c     == q.current
        begun == IF q.scan.found_begin
                 THEN [q.scan EXCEPT !.buffer = @ \o data]
                 ELSE FindBegin(q.scan, c, data)
        scan  == IF begun.found_begin THEN Spill(begun, writes) ELSE begun
        ends  == IF scan.found_begin THEN MarkerAt(scan.buffer, c) ELSE {}
    IN  IF ends = {} THEN [q |-> [q EXCEPT !.scan = scan], rest |-> <<>>]
        ELSE [q    |-> Complete(q, scan, Min(ends)),
              rest |-> SubSeq(scan.buffer, Min(ends) + 2, Len(scan.buffer))]

\* The bytes after an end marker are fed to the command sent next, whose own
\* markers cannot be among them: one repeat is enough.
FeedRest(first, writes) ==
    IF first.rest = <<>> THEN first.q
    ELSE ScanChunk(ExpireCurrent(first.q), first.rest, writes).q

\* Mutant: the deadline is not checked before the chunk is scanned.
FeedUnchecked(q, data, writes) ==
    FeedRest(ScanChunk(q, data, writes), writes)

\* feed_serial_data.
Feed(q, data, writes) ==
    FeedRest(ScanChunk(ExpireCurrent(q), data, writes), writes)

=============================================================================
