--------------------------- MODULE CommandService ---------------------------
(***************************************************************************)
(* What the command queue promises its callers, without its markers, its   *)
(* buffers and its clock: one line, and a bounded queue in front of it.    *)
(* Whoever is accepted keeps its turn until it is answered, once.          *)
(***************************************************************************)
EXTENDS Naturals, Sequences, SequencesExt

CONSTANTS Commands, NoCommand, MaxPending

VARIABLES
    line,      \* the command on the line
    waiting,   \* the commands behind it
    answer     \* the kind of answer each command got; "none" so far

serviceVars == <<line, waiting, answer>>

Pending == ({line} \cup ToSet(waiting)) \ {NoCommand}

ServiceInit ==
    /\ line = NoCommand
    /\ waiting = <<>>
    /\ answer = [c \in Commands |-> "none"]

\* A command is turned away when the queue is full, or takes the line when it
\* is idle - or finds that nobody can write to it - or waits behind the others.
ServiceSubmit(c) ==
    /\ answer[c] = "none" /\ c \notin Pending
    /\ \/ /\ Len(waiting) >= MaxPending
          /\ answer' = [answer EXCEPT ![c] = "rejected"]
          /\ UNCHANGED <<line, waiting>>
       \/ /\ line = NoCommand
          /\ \/ line' = c /\ UNCHANGED answer
             \/ answer' = [answer EXCEPT ![c] = "closed"] /\ UNCHANGED line
          /\ UNCHANGED waiting
       \/ /\ line # NoCommand /\ Len(waiting) < MaxPending
          /\ waiting' = Append(waiting, c)
          /\ UNCHANGED <<line, answer>>

\* The line and the first n that wait have had their turn: the last of them may
\* still have the line, the others were answered, and nobody else was.
ServiceTurn ==
    /\ \E n \in 0 .. Len(waiting) :
          /\ waiting' = SubSeq(waiting, n + 1, Len(waiting))
          /\ line' \in {NoCommand, IF n = 0 THEN line ELSE waiting[n]}
    /\ line' = NoCommand => waiting' = <<>>
    /\ \A c \in Commands :
          IF c \in Pending \ Pending' THEN answer'[c] \in {"ok", "timeout", "closed"}
          ELSE answer'[c] = answer[c]
    /\ answer' = [c \in Commands |-> answer'[c]]

ServiceNext == ServiceTurn \/ \E c \in Commands : ServiceSubmit(c)

ServiceSpec == ServiceInit /\ [][ServiceNext]_serviceVars
=============================================================================
