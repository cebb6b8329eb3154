----------------------------- MODULE SerialLog -----------------------------
(***************************************************************************)
(* The serial log of a DUT (src/sermcp/src/log_manager.rs): every byte of  *)
(* the line goes through the queue of a writer thread to the file of the   *)
(* current boot, which is split at each firmware prefix.  The server and a *)
(* direct dutabo session have a LogManager each, over the same directory,  *)
(* and the line by turns; either process may die between any two steps.    *)
(*                                                                         *)
(* full.serial.log gets the same bytes from the same thread, never         *)
(* splits, and is left out.                                                *)
(***************************************************************************)
EXTENDS BootPrefix, Naturals, Sequences, SequencesExt

CONSTANTS
    Pieces,        \* what comes over the line, a subset of AllPieces
    RingCap,       \* max_buffer_size
    MaxLogs,       \* max_logs
    MaxHeard,      \* bound: pieces on the line
    MaxChunk,      \* bound: pieces of one read
    MaxEvents      \* bound: processes that die, steps that fail, sessions of
                   \* dutabo, polls, cuts that the boot detector asks for

\* A piece is a byte of the real stream: "ddr", "spl" and "loader" stand for the
\* text of a firmware line, "eol" ends a line, "x" is other text.
AllPieces == {"ddr", "spl", "loader", "x", "eol"}

ASSUME LogAssumption ==
    /\ Pieces \subseteq AllPieces
    /\ RingCap \in Nat \ {0}
    /\ MaxLogs \in Nat \ {0}
    /\ {MaxHeard, MaxChunk, MaxEvents} \subseteq Nat

VARIABLES
    disk,      \* the log directory
    lm,        \* the LogManager of each process
    owner,     \* the process that reads the line, or "nobody"
    heard,     \* history: what was read, without what died in a queue
    poll,      \* where each poller is
    count      \* counter for MaxEvents

logVars == <<disk, lm, owner, heard, poll, count>>

Managers == {"server", "dutabo"}

Chunks == UNION {[1..n -> Pieces] : n \in 1..MaxChunk}

\* cur, file   current.serial.log, and which file it is (its inode)
\* archives    boot-NNN.log in the order of their numbers; `saved` tells those
\*             whose bytes have left current from copies in the making
\* cleaned     history: bytes of saved archives that were cleaned up
NewDisk == [cur |-> <<>>, file |-> 1, archives |-> <<>>, cleaned |-> 0]

\* phase, line, cursor, start   BootLogBoundaryDetector
\* ring, written                ring_buffer, stream_bytes_written
\* stream                       history: what this manager was given
\* queue, handle                the writer thread: its messages, the file that it
\*                              has open (0: it has not started)
\* todo                         the boundaries of a chunk that are still to cut
\* suffix                       what the next current will hold, when an
\*                              archive is ready
\* forced, mixed                history: the boundary is not a prefix; another
\*                              process wrote in the middle of the line
NewManager ==
    [up |-> TRUE, phase |-> "unknown", line |-> <<>>, cursor |-> 0, start |-> 0,
     ring |-> <<>>, written |-> 0, stream |-> <<>>, queue |-> <<>>, handle |-> 0,
     todo |-> <<>>, copied |-> FALSE, suffix |-> <<>>, forced |-> FALSE,
     mixed |-> FALSE]
NoManager == [NewManager EXCEPT !.up = FALSE]

\* kind    a poll without a cursor goes by the position of the engine, one with
\*         a cursor by the answer to the last one
\* fresh   history: bytes of current that came since the last poll
NewPoll == [kind |-> "none", at |-> 0, fresh |-> 0]

LogInit ==
    /\ disk = NewDisk
    /\ lm = [m \in Managers |-> IF m = "server" THEN NewManager ELSE NoManager]
    /\ owner = "server"
    /\ heard = <<>>
    /\ poll = NewPoll
    /\ count = 0

-----------------------------------------------------------------------------
(* The boundary detector.                                                  *)

\* DDR_RE is tried before SPL_RE, and both before the later stages.
Kind(line) ==
    IF Contains(line, "ddr") THEN "ddr"
    ELSE IF Contains(line, "spl") THEN "spl"
    ELSE IF Contains(line, "loader") THEN "loader" ELSE "text"

\* BootLogBoundaryDetector::feed for one byte.  The boundary is where the
\* prefix begins, which may be in the middle of a line.
FeedPiece(d, piece) ==
    LET seen == [d EXCEPT !.cursor = @ + 1]
        kind == Kind(d.line)
    IN  IF piece # "eol" THEN [seen EXCEPT !.line = Append(@, piece)]
        ELSE [seen EXCEPT
                !.todo = IF CutsBefore(d.phase, kind)
                         THEN Append(@, d.start + SelectInSeq(d.line, LAMBDA x : x = kind) - 1)
                         ELSE @,
                !.phase = PhaseAfter(@, kind),
                !.line = <<>>,
                !.start = d.cursor + 1]

-----------------------------------------------------------------------------
(* The ring buffer.                                                        *)

Keep(s, n) == SubSeq(s, Len(s) - n + 1, Len(s))

\* LogManager::write, in memory.
Remember(l, chunk) ==
    LET ring == l.ring \o chunk
    IN  [l EXCEPT !.ring = IF Len(ring) > RingCap THEN Keep(ring, RingCap \div 2) ELSE ring,
                  !.written = @ + Len(chunk),
                  !.stream = @ \o chunk,
                  !.queue = Append(@, [what |-> "data", bytes |-> chunk])]

\* LogManager::stream_tail_since
TailSince(l, cursor) ==
    LET base == l.written - Len(l.ring)
        from == IF cursor > base THEN cursor - base ELSE 0
    IN  [bytes |-> SubSeq(l.ring, from + 1, Len(l.ring)), truncated |-> cursor < base]

-----------------------------------------------------------------------------
(* A read, and the writer thread.                                          *)

\* The engine's mutex, or dutabo's single task, makes a split one piece with
\* the read before it.
AtRest(m) == lm[m].up /\ lm[m].todo = <<>>
Reads(m) == owner = m /\ AtRest(m)

Counted == count < MaxEvents /\ count' = count + 1
Other(m) == CHOOSE n \in Managers : n # m

\* write_serial up to its loop; ensure_writer.
WriteSerial(m, chunk) ==
    /\ Reads(m)
    /\ Len(heard) + Len(chunk) <= MaxHeard
    /\ LET fed == FoldLeft(FeedPiece, lm[m], chunk)
           clean == [fed EXCEPT !.forced = FALSE, !.mixed = lm[m].mixed /\ lm[m].line # <<>>]
           known == Remember(clean, chunk)
       IN  lm' = [lm EXCEPT
                    ![m] = [known EXCEPT !.handle = IF @ = 0 THEN disk.file ELSE @],
                    ![Other(m)].mixed = @ \/ lm[Other(m)].line # <<>>]
    /\ heard' = heard \o chunk
    /\ UNCHANGED <<disk, owner, poll, count>>

Taken(l, file) == [l EXCEPT !.queue = Tail(@), !.handle = file]

\* Mutant: the file that was opened is written, whatever the name has become.
WriterKeepsHandle(m) ==
    /\ lm[m].queue # <<>>
    /\ LET message == Head(lm[m].queue)
           data == message.what = "data" /\ lm[m].handle = disk.file
       IN  /\ disk' = [disk EXCEPT !.cur = IF data THEN @ \o message.bytes ELSE @]
           /\ poll' = [poll EXCEPT !.fresh = @ + IF data THEN Len(message.bytes) ELSE 0]
           /\ lm' = [lm EXCEPT ![m] = Taken(@, IF message.what = "data" THEN lm[m].handle
                                                 ELSE disk.file)]
    /\ UNCHANGED <<owner, heard, count>>

\* The writer thread takes a message; write_with_reopen compares the inodes.
Writer(m) ==
    /\ lm[m].queue # <<>>
    /\ LET message == Head(lm[m].queue)
       IN  /\ disk' = [disk EXCEPT !.cur = @ \o message.bytes]
           /\ poll' = [poll EXCEPT !.fresh = @ + Len(message.bytes)]
    /\ lm' = [lm EXCEPT ![m] = Taken(@, disk.file)]
    /\ UNCHANGED <<owner, heard, count>>

\* mark_boot_start: cut at the end of what was read.
MarkBootStart ==
    /\ Reads("server")
    /\ Counted
    /\ lm' = [lm EXCEPT !["server"].todo = <<lm["server"].cursor>>,
                        !["server"].forced = TRUE, !["server"].phase = "unknown"]
    /\ UNCHANGED <<disk, owner, heard, poll>>

\* The power and reset tools.
ExpectBootLog ==
    /\ Reads("server")
    /\ lm["server"].phase # "unknown"
    /\ lm' = [lm EXCEPT !["server"].phase = "unknown"]
    /\ UNCHANGED <<disk, owner, heard, poll, count>>

-----------------------------------------------------------------------------
(* The split.                                                              *)

Flushed(m) == lm[m].up /\ lm[m].queue = <<>>

\* Mutant: the offset is the detector's own cursor, as far as the file goes.
OffsetByCursor(m) ==
    IF Head(lm[m].todo) > Len(disk.cur) THEN Len(disk.cur) ELSE Head(lm[m].todo)

\* From the end of the file, which may hold bytes of another process.
Offset(m) == Len(disk.cur) - (lm[m].cursor - Head(lm[m].todo))

\* After the flush: the file is measured, the archive and the next current are
\* written.  Nothing to cut, or an error, ends this boundary.
Copy(m) ==
    /\ Flushed(m) /\ lm[m].todo # <<>> /\ ~lm[m].copied
    /\ \/ /\ Offset(m) > 0
          /\ disk' = [disk EXCEPT !.archives =
                        Append(@, [bytes |-> SubSeq(disk.cur, 1, Offset(m)), saved |-> FALSE])]
          /\ lm' = [lm EXCEPT ![m].copied = TRUE,
                              ![m].suffix = SubSeq(disk.cur, Offset(m) + 1, Len(disk.cur))]
          /\ UNCHANGED count
       \/ /\ \/ Offset(m) <= 0 /\ UNCHANGED count
             \/ Offset(m) > 0 /\ Counted
          /\ lm' = [lm EXCEPT ![m].todo = Tail(@)]
          /\ UNCHANGED disk
    /\ UNCHANGED <<owner, heard, poll>>

\* cleanup_old_logs: the lowest numbers go.
Bytes(archives) ==
    FlattenSeq([i \in DOMAIN archives |->
                  IF archives[i].saved THEN archives[i].bytes ELSE <<>>])

Cleanup(d) ==
    LET excess == IF Len(d.archives) > MaxLogs THEN Len(d.archives) - MaxLogs ELSE 0
    IN  [d EXCEPT !.archives = SubSeq(@, excess + 1, Len(@)),
                  !.cleaned = @ + Len(Bytes(SubSeq(d.archives, 1, excess)))]

Split(m) == [lm[m] EXCEPT !.todo = Tail(@), !.copied = FALSE, !.suffix = <<>>]
Replaced ==
    [disk EXCEPT !.file = @ + 1, !.archives[Len(disk.archives)].saved = TRUE]
StillFresh(m) ==
    [poll EXCEPT !.fresh = IF @ > Len(lm[m].suffix) THEN Len(lm[m].suffix) ELSE @]

\* The new current takes the name of the old one; the writer is told, unless
\* the reopening fails.  An error before that removes the archive.
ReplaceCurrent(m) ==
    /\ Flushed(m) /\ lm[m].copied
    /\ \/ /\ poll' = StillFresh(m)
          /\ disk' = Cleanup([Replaced EXCEPT !.cur = lm[m].suffix])
          /\ lm' = [lm EXCEPT ![m] = [Split(m) EXCEPT
                      !.queue = <<[what |-> "rotate", bytes |-> <<>>]>>]]
          /\ UNCHANGED count
       \/ /\ poll' = StillFresh(m)
          /\ disk' = [Replaced EXCEPT !.cur = lm[m].suffix]
          /\ lm' = [lm EXCEPT ![m] = Split(m)]
          /\ Counted
       \/ /\ disk' = [disk EXCEPT !.archives = Front(@)]
          /\ lm' = [lm EXCEPT ![m] = Split(m)]
          /\ Counted
          /\ UNCHANGED poll
    /\ UNCHANGED <<owner, heard>>

-----------------------------------------------------------------------------
(* The processes.                                                          *)

Pending(l) == FlattenSeq([i \in DOMAIN l.queue |-> l.queue[i].bytes])

\* A process dies; what waits in its queue was never written.
Dies(m) ==
    /\ lm[m].up
    /\ Counted
    /\ heard' = SubSeq(heard, 1, Len(heard) - Len(Pending(lm[m])))
    /\ lm' = [lm EXCEPT ![m] = NoManager]
    /\ owner' = IF owner = m THEN "nobody" ELSE owner
    /\ poll' = [poll EXCEPT !.at = IF m = "server" /\ poll.kind = "engine" THEN 0 ELSE @]
    /\ UNCHANGED disk

\* yield_serial_for_human flushes before it releases the endpoint lock.
Yield ==
    /\ Reads("server") /\ Flushed("server")
    /\ owner' = "nobody"
    /\ UNCHANGED <<disk, lm, heard, poll, count>>

\* resume_serial, or a server that starts: no detector state is reset.
Resume ==
    /\ owner = "nobody"
    /\ ~lm["dutabo"].up
    /\ lm' = [lm EXCEPT !["server"] = IF @.up THEN @ ELSE NewManager]
    /\ owner' = "server"
    /\ UNCHANGED <<disk, heard, poll, count>>

StartSession ==
    /\ owner = "nobody"
    /\ ~lm["dutabo"].up
    /\ Counted
    /\ lm' = [lm EXCEPT !["dutabo"] = NewManager]
    /\ owner' = "dutabo"
    /\ UNCHANGED <<disk, heard, poll>>

\* The LogManager is dropped: close() flushes and joins the writer.
EndSession ==
    /\ Reads("dutabo") /\ Flushed("dutabo")
    /\ lm' = [lm EXCEPT !["dutabo"] = NoManager]
    /\ owner' = "nobody"
    /\ UNCHANGED <<disk, heard, poll, count>>

-----------------------------------------------------------------------------
(* serial_poll_logs.                                                       *)

PollBy(kind, answers) ==
    /\ AtRest("server")
    /\ poll.kind \in {"none", kind}
    /\ poll' = [kind |-> kind, fresh |-> 0,
                at |-> IF answers THEN Len(disk.cur) ELSE poll.at]
    /\ Counted
    /\ UNCHANGED <<disk, lm, owner, heard>>

\* SerialEngine::poll_logs: what lies past its position.
PollLogs == PollBy("engine", Len(disk.cur) > poll.at)

\* read_log_from_offset: a cursor past the end means a new file.
PollSince == PollBy("client", Len(disk.cur) # poll.at)

LogNext ==
    \/ \E m \in Managers :
         \/ \E chunk \in Chunks : WriteSerial(m, chunk)
         \/ Writer(m)
         \/ Copy(m)
         \/ ReplaceCurrent(m)
         \/ Dies(m)
    \/ MarkBootStart
    \/ ExpectBootLog
    \/ Yield
    \/ Resume
    \/ StartSession
    \/ EndSession
    \/ PollLogs
    \/ PollSince

LogSpec == LogInit /\ [][LogNext]_logVars

-----------------------------------------------------------------------------
(* Properties.                                                             *)

\* Files and managers are well formed: one archive is in the making at most,
\* and the ring keeps its bound.
LogTypeOK ==
    /\ disk.cur \in Seq(Pieces) /\ disk.file \in Nat
    /\ \A i \in DOMAIN disk.archives : disk.archives[i].bytes \in Seq(Pieces)
    /\ owner \in Managers \cup {"nobody"}
    /\ \A m \in Managers :
         /\ lm[m].phase \in PrefixPhases
         /\ Len(lm[m].ring) <= RingCap
         /\ lm[m].handle <= disk.file
         /\ lm[m].start <= lm[m].cursor
         /\ lm[m].copied => ~Last(disk.archives).saved
    /\ poll.at <= MaxHeard
    /\ count \in 0..MaxEvents

\* What was read, without what was cleaned up, is in the files and the queues.
FilesWhole ==
    Bytes(disk.archives) \o disk.cur \o Pending(lm["server"]) \o Pending(lm["dutabo"])
      = SubSeq(heard, disk.cleaned + 1, Len(heard))

\* What a reader of the shared stream gets since its cursor is all that came, or
\* it is told that older bytes are gone.
TailIsHonest ==
    \A m \in Managers : \A cursor \in 0..lm[m].written :
      LET tail == TailSince(lm[m], cursor)
      IN  ~tail.truncated => tail.bytes = SubSeq(lm[m].stream, cursor + 1, lm[m].written)

\* Every byte of the line is in one place and in order: a split that fails half
\* way, a process that dies between two steps, a session of dutabo that replaced
\* the file lose and double nothing but what a dead process had queued; and the
\* ring gives a reader its bytes or says that they are gone.
LogsWhole == FilesWhole /\ TailIsHonest

\* A cut that a firmware line asked for puts that line at the head of the new
\* file, however the line was broken over reads, whatever prompt it was glued
\* to and whatever another process wrote before it; a process that writes in
\* the middle of the line is the exception.
CutsAtPrefix ==
    [][(disk'.file # disk.file) =>
         \A m \in Managers :
           lm[m].copied /\ ~lm[m].forced /\ ~lm[m].mixed => Head(disk'.cur) \in {"ddr", "spl"}]_logVars

\* serial_poll_logs: "Get new serial output since last poll".
PollDelivers ==
    [][poll.fresh > 0 /\ poll'.fresh = 0 /\ UNCHANGED disk => poll'.at # poll.at]_logVars

=============================================================================
