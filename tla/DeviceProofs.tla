---------------------------- MODULE DeviceProofs ----------------------------
(***************************************************************************)
(* Proofs about RelayLink and UbootEntry.                                  *)
(*                                                                         *)
(* RelayLink, for every number of calls, every number of retries and every *)
(* fault: a release that reports success has released.                     *)
(*                                                                         *)
(* An answer on the wire speaks of the relay as it was when the answer was *)
(* made.  The invariant says why it can still be believed: as long as at   *)
(* most one exchange was cut short, there is at most one frame or answer   *)
(* on the wire besides the ones of the exchange under way, whose own frame *)
(* is the last.                                                            *)
(*                                                                         *)
(* UbootEntry: however a call ends it leaves no watcher, because a watcher *)
(* is registered only while its owner waits for it, whoever else may have  *)
(* removed it; and, when calls come one after the other, the interrupt     *)
(* byte that a call keeps to put back is the configured one.               *)
(***************************************************************************)
EXTENDS MCDevice, FiniteSetTheorems, TLAPS

-----------------------------------------------------------------------------
(* The first of several answers.                                          *)

\* A non-empty set of naturals has a least element.  (Intervals 0 .. m are
\* ordered by strict inclusion, which is well-founded.)
LEMMA LeastOfNaturals ==
    ASSUME NEW S \in SUBSET Nat, S # {}
    PROVE  \E n \in S : \A m \in S : n <= m
<1>1. PICK k \in S : TRUE
  OBVIOUS
<1> DEFINE I == 0 .. k
<1> DEFINE R == StrictSubsetOrdering(I)
<1> DEFINE T == {0 .. m : m \in {j \in S : j <= k}}
<1>2. IsWellFoundedOn(R, FiniteSubsetsOf(I))
  BY FS_StrictSubsetOrderingWellFounded
<1>3. T \subseteq FiniteSubsetsOf(I) /\ T # {}
  <2>1. ASSUME NEW m \in S, m <= k
        PROVE  0 .. m \in FiniteSubsetsOf(I)
    <3>1. IsFiniteSet(0 .. m)
      BY FS_Interval
    <3>2. 0 .. m \in SUBSET I
      BY <2>1
    <3> QED  BY <3>1, <3>2 DEF FiniteSubsetsOf
  <2>2. 0 .. k \in T
    BY <1>1
  <2> QED  BY <2>1, <2>2
<1>4. PICK x \in T : \A y \in T : ~ (<<y, x>> \in R)
  <2> HIDE DEF R, T, I
  <2> QED  BY <1>2, <1>3, WFMin
<1>5. PICK n \in S : n <= k /\ x = 0 .. n
  BY <1>4
<1>6. ASSUME NEW m \in S, m < n
      PROVE  FALSE
  <2>1. 0 .. m \in T
    BY <1>5, <1>6
  <2>2. 0 .. m \subseteq x /\ 0 .. m # x /\ x \subseteq I
    <3>1. n \in 0 .. n /\ n \notin 0 .. m
      BY <1>6
    <3> QED  BY <1>5, <1>6, <3>1
  <2>3. <<0 .. m, x>> \in R
    BY <2>2 DEF StrictSubsetOrdering
  <2> QED  BY <2>1, <2>3, <1>4
<1>7. n \in S /\ \A m \in S : n <= m
  BY <1>6
<1> QED
  BY <1>7

-----------------------------------------------------------------------------
(* The inductive invariant.                                                *)

PulseStages == {"initial", "press", "hold", "off", "check", "restore"}
StrictStages == {"off", "check", "restore"}

\* The stages a job goes through, as far as they matter to a release.
JobFits(w, j) ==
    /\ j.stage \in {"idle", "hold"} => ~j.sent
    /\ w[2] = "guard" => /\ j.stage \in StrictStages \cup {"idle"}
                         /\ j.op \in {"none", "release"}
    /\ j.op = "pulse" => j.stage \in PulseStages
    /\ j.op = "release_verified" => j.stage \in {"set", "confirm"}

JobsFit ==
    /\ \A w \in Worker : JobFits(w, job[w])
    /\ user # NoWorker => job[user].sent

\* The frame of the exchange under way is the last on the wire.
OwnFrameLast ==
    /\ cable.link # "up" => cable.out = <<>>
    /\ user # NoWorker /\ cable.out # <<>> =>
          cable.out[Len(cable.out)] = Frame(user)

\* One frame or answer for the exchange under way, one for the exchange that
\* was cut short.
OnTheWay == Len(cable.out)
Arrived == Len(cable.in)

FewOnTheWire ==
    /\ OnTheWay + Arrived <= 2
    /\ ~cut \/ user = NoWorker => OnTheWay + Arrived <= 1
    /\ ~cut /\ user = NoWorker => OnTheWay + Arrived = 0

IsOffAnswer(a, c) == a = [channel |-> c, on |-> FALSE]

\* An answer that says off is true, or its channel is not the one of the
\* exchange under way, or that exchange switches it on.
OffIsTrue ==
    \A i \in DOMAIN cable.in, c \in Channels :
       /\ IsOffAnswer(cable.in[i], c)
       /\ \/ user = NoWorker
          \/ ~cut
          \/ c = Channel(user) /\ Opcode(job[user]) \in {"off", "status"}
       => c \notin relay

WireHonest == ~unsure => FewOnTheWire /\ OffIsTrue

RelayInv == RelayTypeOK /\ JobsFit /\ OwnFrameLast /\ WireHonest

-----------------------------------------------------------------------------
(* What an operation does with an outcome.                                 *)

Stages == {"idle", "press", "release", "initial", "hold", "off", "check",
           "restore", "set", "confirm", "prove_on", "read_on", "prove_off",
           "read_off", "undo"}
Results == {"none", "ok", "err", "release_failed", "dropped"}

Tries == 0 .. SetTries + ReleaseTries - 1
Polls == 0 .. StatusTries - 1
Ops == Operations \cup {"none"}

\* A job is a record of these fields.
LEMMA JobIs ==
    Job = [op : Ops, stage : Stages, sent : BOOLEAN, tries : Tries,
           polls : Polls, initial : BOOLEAN, result : Results]
BY DEF Job, Ops, Stages, Tries, Polls, Results

\* The counters start within their ranges.
LEMMA Zeros == 0 \in Tries /\ 0 \in Polls
BY RelayAssumption DEF Tries, Polls

\* A job that has ended.
LEMMA DoneShape ==
    ASSUME NEW j, NEW result \in Results
    PROVE  /\ Done(j, result) \in Job
           /\ Done(j, result).op = "none" /\ Done(j, result).stage = "idle"
           /\ Done(j, result).sent = FALSE /\ Done(j, result).result = result
<1>1. "none" \in Ops /\ "idle" \in Stages
  BY DEF Ops, Stages
<1> QED
  BY <1>1, Zeros, JobIs DEF Done, NoJob

\* A job that goes on to another exchange, ...
LEMMA GotoShape ==
    ASSUME NEW j \in Job, NEW stage \in Stages
    PROVE  /\ Goto(j, stage) \in Job
           /\ Goto(j, stage).op = j.op /\ Goto(j, stage).stage = stage
           /\ Goto(j, stage).sent = FALSE /\ Goto(j, stage).tries = j.tries
BY Zeros, JobIs DEF Goto

\* ... that asks once more, ...
AskAgain(j) == [j EXCEPT !.sent = FALSE, !.polls = @ + 1]

\* A poll that is repeated keeps the job's operation and its stage.
LEMMA AskAgainShape ==
    ASSUME NEW j \in Job, j.polls + 1 < StatusTries
    PROVE  /\ AskAgain(j) \in Job
           /\ AskAgain(j).op = j.op /\ AskAgain(j).stage = j.stage
           /\ AskAgain(j).sent = FALSE
<1>1. j.polls + 1 \in Polls
  BY JobIs, RelayAssumption DEF Polls
<1> QED
  BY <1>1, JobIs DEF AskAgain

\* ... that makes another attempt, ...
LEMMA NextTryShape ==
    ASSUME NEW j \in Job, NEW stage \in Stages,
           j.tries + 1 < SetTries + ReleaseTries
    PROVE  LET k == [Goto(j, stage) EXCEPT !.tries = @ + 1]
           IN  k \in Job /\ k.op = j.op /\ k.stage = stage /\ k.sent = FALSE
<1> DEFINE g == Goto(j, stage)
<1>1. g \in Job /\ g.op = j.op /\ g.stage = stage /\ g.sent = FALSE
      /\ g.tries = j.tries
  BY GotoShape
<1>2. j.tries + 1 \in Tries
  BY JobIs, RelayAssumption DEF Tries
<1> HIDE DEF g
<1>3. LET k == [g EXCEPT !.tries = @ + 1]
      IN  k \in Job /\ k.op = j.op /\ k.stage = stage /\ k.sent = FALSE
  BY <1>1, <1>2, JobIs
<1> QED
  BY <1>3 DEF g

\* ... or that remembers what it has read.
Remembering(j, stage) ==
    {[Goto(j, stage) EXCEPT !.initial = b] : b \in BOOLEAN}

\* Whatever the first reading was, the job goes on with its operation.
LEMMA RememberShape ==
    ASSUME NEW j \in Job, NEW stage \in Stages, NEW k \in Remembering(j, stage)
    PROVE  k \in Job /\ k.op = j.op /\ k.stage = stage /\ k.sent = FALSE
<1> DEFINE g == Goto(j, stage)
<1>1. g \in Job /\ g.op = j.op /\ g.stage = stage /\ g.sent = FALSE
  BY GotoShape
<1> HIDE DEF g
<1>2. ASSUME NEW b \in BOOLEAN, k = [g EXCEPT !.initial = b]
      PROVE  k \in Job /\ k.op = j.op /\ k.stage = stage /\ k.sent = FALSE
  BY <1>1, <1>2, JobIs
<1> QED
  BY <1>2 DEF g, Remembering

\* Where a job may be after an exchange, and what it takes to end well.
Leads(j, o, k) ==
    /\ k \in Job /\ k.sent = FALSE
    /\ k.stage = "idle" => k.op = "none"
    /\ k.stage # "idle" => k.op = j.op
    /\ j.stage = "press" =>
          /\ k.stage \in {"idle", "hold"}
          /\ k.stage = "idle" /\ j.op = "pulse" => k.result # "ok"
    /\ j.stage = "initial" => k.stage \in {"initial", "press"}
    /\ j.stage \in StrictStages => k.stage \in StrictStages \cup {"idle"}
    /\ j.stage \in {"set", "confirm"} => k.stage \in {"set", "confirm", "idle"}
    /\ k.stage = "idle" /\ k.result = "ok" =>
          /\ j.stage = "off" => o \in {"echo", "eof", "busy"}
          /\ j.stage = "check" => o = "is_off"
          /\ j.stage = "confirm" /\ j.op = "release_verified" => o = "is_off"
          /\ j.stage \notin {"set", "restore"}

\* The three ways on: to another exchange, or to an end that is no success or is
\* one.
LEMMA OnLeads ==
    ASSUME NEW j \in Job, NEW o, NEW k \in Job, k.sent = FALSE, k.op = j.op,
           k.stage # "idle",
           j.stage = "press" => k.stage = "hold",
           j.stage = "initial" => k.stage \in {"initial", "press"},
           j.stage \in StrictStages => k.stage \in StrictStages,
           j.stage \in {"set", "confirm"} => k.stage \in {"set", "confirm"}
    PROVE  Leads(j, o, k)
BY DEF Leads

\* Any stage but the first reading may end a job without success.
LEMMA EndLeads ==
    ASSUME NEW j \in Job, NEW o, NEW result \in Results \ {"ok"},
           j.stage # "initial"
    PROVE  Leads(j, o, Done(j, result))
BY DoneShape DEF Leads

\* A job may end well when what it heard says so.
LEMMA GoodEndLeads ==
    ASSUME NEW j \in Job, NEW o,
           j.stage \notin {"initial", "set", "restore"},
           j.stage = "press" => j.op # "pulse",
           j.stage = "off" => o \in {"echo", "eof", "busy"},
           j.stage = "check" => o = "is_off",
           j.stage = "confirm" /\ j.op = "release_verified" => o = "is_off"
    PROVE  Leads(j, o, Done(j, "ok"))
<1>1. "ok" \in Results
  BY DEF Results
<1> QED
  BY <1>1, DoneShape DEF Leads

\* After the answer to ON.
LEMMA AfterPressLeads ==
    ASSUME NEW j \in Job, NEW o, j.stage = "press"
    PROVE  Leads(j, o, AfterPress(j, o))
<1>1. Leads(j, o, Done(j, "err"))
  BY EndLeads DEF Results
<1>2. j.op # "pulse" => Leads(j, o, Done(j, "ok"))
  BY GoodEndLeads
<1>3. Leads(j, o, Goto(j, "hold"))
  BY OnLeads, GotoShape DEF Stages, StrictStages
<1> QED
  BY <1>1, <1>2, <1>3 DEF AfterPress

\* Another attempt of a strict release, or the restore of what was there before.
LEMMA AfterFailedReleaseLeads ==
    ASSUME NEW j \in Job, NEW o, j.stage \in {"off", "check"}
    PROVE  Leads(j, o, AfterFailedRelease(j))
<1>1. CASE j.tries + 1 < ReleaseTries
  <2>1. j.tries + 1 < SetTries + ReleaseTries
    BY <1>1, JobIs, RelayAssumption DEF Tries
  <2> DEFINE k == [Goto(j, "off") EXCEPT !.tries = @ + 1]
  <2>2. k \in Job /\ k.op = j.op /\ k.stage = "off" /\ k.sent = FALSE
    BY <2>1, NextTryShape DEF Stages
  <2>3. AfterFailedRelease(j) = k
    BY <1>1 DEF AfterFailedRelease
  <2> HIDE DEF k
  <2> QED
    BY <2>2, <2>3, OnLeads DEF StrictStages
<1>2. CASE ~(j.tries + 1 < ReleaseTries)
  <2>1. AfterFailedRelease(j) = Goto(j, "restore")
    BY <1>2 DEF AfterFailedRelease
  <2>2. Leads(j, o, Goto(j, "restore"))
    BY OnLeads, GotoShape DEF Stages, StrictStages
  <2> QED
    BY <2>1, <2>2
<1> QED
  BY <1>1, <1>2

\* After the answer to OFF.
LEMMA AfterOffLeads ==
    ASSUME NEW j \in Job, NEW o, j.stage = "off"
    PROVE  Leads(j, o, AfterOff(j, o))
<1>1. o \in {"echo", "eof", "busy"} => Leads(j, o, Done(j, "ok"))
  BY GoodEndLeads
<1>2. Leads(j, o, Goto(j, "check"))
  BY OnLeads, GotoShape DEF Stages, StrictStages
<1>3. Leads(j, o, AfterFailedRelease(j))
  BY AfterFailedReleaseLeads
<1>4. CASE o \in {"echo", "eof", "busy"}
  <2>1. AfterOff(j, o) = Done(j, "ok")
    BY <1>4 DEF AfterOff
  <2> QED
    BY <1>1, <1>4, <2>1
<1>5. CASE o = "silent"
  <2>1. AfterOff(j, o) = Goto(j, "check")
    BY <1>5 DEF AfterOff
  <2> QED
    BY <1>2, <2>1
<1>6. CASE o \notin {"echo", "eof", "busy", "silent"}
  <2>1. AfterOff(j, o) = AfterFailedRelease(j)
    BY <1>6 DEF AfterOff
  <2> QED
    BY <1>3, <2>1
<1> QED
  BY <1>4, <1>5, <1>6

\* The same exchange once more.
LEMMA AskAgainLeads ==
    ASSUME NEW j \in Job, NEW o, j.stage \in StatusStages,
           j.polls + 1 < StatusTries
    PROVE  Leads(j, o, AskAgain(j))
BY AskAgainShape, OnLeads DEF StatusStages, StrictStages

\* After the answer that confirms OFF.
LEMMA AfterConfirmLeads ==
    ASSUME NEW j \in Job, NEW o, j.stage = "confirm"
    PROVE  Leads(j, o, AfterConfirm(j, o))
<1> DEFINE good == o = IF j.op = "press_verified" THEN "is_on" ELSE "is_off"
           retry == [Goto(j, "set") EXCEPT !.tries = @ + 1]
<1>1. CASE good
  <2>1. AfterConfirm(j, o) = Done(j, "ok")
    BY <1>1 DEF AfterConfirm
  <2> QED
    BY <1>1, <2>1, GoodEndLeads
<1>2. CASE ~good /\ j.polls + 1 < StatusTries
  <2>1. AfterConfirm(j, o) = AskAgain(j)
    BY <1>2 DEF AfterConfirm, AskAgain
  <2> QED
    BY <1>2, <2>1, AskAgainLeads DEF StatusStages
<1>3. CASE ~good /\ ~(j.polls + 1 < StatusTries) /\ j.tries + 1 < SetTries
  <2>1. j.tries + 1 < SetTries + ReleaseTries
    BY <1>3, JobIs, RelayAssumption DEF Tries
  <2>2. retry \in Job /\ retry.op = j.op /\ retry.stage = "set"
        /\ retry.sent = FALSE
    BY <2>1, NextTryShape DEF Stages
  <2>3. AfterConfirm(j, o) = retry
    BY <1>3 DEF AfterConfirm
  <2> HIDE DEF retry
  <2> QED
    BY <2>2, <2>3, OnLeads DEF StrictStages
<1>4. CASE ~good /\ ~(j.polls + 1 < StatusTries) /\ ~(j.tries + 1 < SetTries)
  <2>1. AfterConfirm(j, o) = Done(j, "err")
    BY <1>4 DEF AfterConfirm
  <2> QED
    BY <2>1, EndLeads DEF Results
<1> QED
  BY <1>1, <1>2, <1>3, <1>4

\* After an answer about the state of a channel.
LEMMA AfterStateLeads ==
    ASSUME NEW j \in Job, NEW o,
           j.stage \in {"initial", "check", "read_on", "read_off"}
    PROVE  Leads(j, o, AfterState(j, o))
<1>1. CASE j.stage = "initial"
  <2>1. AfterState(j, o) \in Remembering(j, "press")
    BY <1>1 DEF AfterState, Remembering
  <2>2. ASSUME NEW k \in Remembering(j, "press")
        PROVE  Leads(j, o, k)
    <3> "press" \in Stages
      BY DEF Stages
    <3>1. k \in Job /\ k.op = j.op /\ k.stage = "press" /\ k.sent = FALSE
      BY RememberShape
    <3> QED
      BY <1>1, <3>1, OnLeads DEF StrictStages
  <2> QED
    BY <2>1, <2>2
<1>2. CASE j.stage = "check"
  <2>1. AfterState(j, o) =
          IF o = "is_off" THEN Done(j, "ok") ELSE AfterFailedRelease(j)
    BY <1>2 DEF AfterState
  <2> QED
    BY <1>2, <2>1, GoodEndLeads, AfterFailedReleaseLeads
<1>3. CASE j.stage = "read_on"
  <2>1. AfterState(j, o) \in Remembering(j, "prove_off") \cup {Goto(j, "undo")}
    BY <1>3 DEF AfterState, Remembering
  <2>2. ASSUME NEW k \in Remembering(j, "prove_off")
        PROVE  Leads(j, o, k)
    <3> "prove_off" \in Stages
      BY DEF Stages
    <3>1. k \in Job /\ k.op = j.op /\ k.stage = "prove_off" /\ k.sent = FALSE
      BY RememberShape
    <3> QED
      BY <1>3, <3>1, OnLeads DEF StrictStages
  <2>3. Leads(j, o, Goto(j, "undo"))
    BY <1>3, OnLeads, GotoShape DEF Stages, StrictStages
  <2> QED
    BY <2>1, <2>2, <2>3
<1>4. CASE j.stage = "read_off"
  <2>1. AfterState(j, o) \in {Done(j, "ok"), Done(j, "err"), Goto(j, "undo")}
    BY <1>4 DEF AfterState
  <2>2. Leads(j, o, Done(j, "ok"))
    BY <1>4, GoodEndLeads
  <2>3. Leads(j, o, Done(j, "err"))
    BY <1>4, EndLeads DEF Results
  <2>4. Leads(j, o, Goto(j, "undo"))
    BY <1>4, OnLeads, GotoShape DEF Stages, StrictStages
  <2> QED
    BY <2>1, <2>2, <2>3, <2>4
<1> QED
  BY <1>1, <1>2, <1>3, <1>4

\* After any answer to a status frame.
LEMMA AfterStatusLeads ==
    ASSUME NEW j \in Job, NEW o,
           j.stage \in {"initial", "check", "read_on", "read_off"}
    PROVE  Leads(j, o, AfterStatus(j, o))
<1>1. Leads(j, o, AfterState(j, o))
  BY AfterStateLeads
<1>2. j.polls + 1 < StatusTries => Leads(j, o, AskAgain(j))
  BY AskAgainLeads DEF StatusStages
<1> QED
  BY <1>1, <1>2 DEF AfterStatus, AskAgain

\* After any answer: the stages together.
LEMMA AfterLeads ==
    ASSUME NEW j \in Job, NEW o, j.stage \notin {"idle", "hold"}
    PROVE  Leads(j, o, After(j, o))
<1>1. \A result \in Results \ {"ok"} :
        j.stage # "initial" => Leads(j, o, Done(j, result))
  BY EndLeads
<1>2. CASE j.stage = "press"
  <2>1. After(j, o) = AfterPress(j, o)
    BY <1>2 DEF After, StatusStages
  <2> QED
    BY <1>2, <2>1, AfterPressLeads
<1>3. CASE j.stage = "off"
  <2>1. After(j, o) = AfterOff(j, o)
    BY <1>3 DEF After, StatusStages
  <2> QED
    BY <1>3, <2>1, AfterOffLeads
<1>4. CASE j.stage = "confirm"
  <2>1. After(j, o) = AfterConfirm(j, o)
    BY <1>4 DEF After, StatusStages
  <2> QED
    BY <1>4, <2>1, AfterConfirmLeads
<1>5. CASE j.stage \in {"initial", "check", "read_on", "read_off"}
  <2>1. After(j, o) = AfterStatus(j, o)
    BY <1>5 DEF After, StatusStages
  <2> QED
    BY <1>5, <2>1, AfterStatusLeads
<1>6. CASE j.stage = "release"
  <2>1. After(j, o) \in {Done(j, "err"), Done(j, "ok")}
    BY <1>6 DEF After, StatusStages
  <2>2. Leads(j, o, Done(j, "ok"))
    BY <1>6, GoodEndLeads
  <2> QED
    BY <1>1, <1>6, <2>1, <2>2 DEF Results
<1>7. CASE j.stage = "set"
  <2>1. After(j, o) \in {Done(j, "err"), Goto(j, "confirm")}
    BY <1>7 DEF After, StatusStages
  <2>2. Leads(j, o, Goto(j, "confirm"))
    BY <1>7, OnLeads, GotoShape DEF Stages, StrictStages
  <2> QED
    BY <1>1, <1>7, <2>1, <2>2 DEF Results
<1>8. CASE j.stage = "restore"
  <2>1. After(j, o) = Done(j, "release_failed")
    BY <1>8 DEF After, StatusStages
  <2> QED
    BY <1>1, <1>8, <2>1 DEF Results
<1>9. CASE j.stage = "prove_on"
  <2>1. After(j, o) \in {Done(j, "err"), Goto(j, "read_on")}
    BY <1>9 DEF After, StatusStages
  <2>2. Leads(j, o, Goto(j, "read_on"))
    BY <1>9, OnLeads, GotoShape DEF Stages, StrictStages
  <2> QED
    BY <1>1, <1>9, <2>1, <2>2 DEF Results
<1>10. CASE j.stage = "prove_off"
  <2>1. After(j, o) \in {Goto(j, "undo"), Goto(j, "read_off")}
    BY <1>10 DEF After, StatusStages
  <2>2. Leads(j, o, Goto(j, "undo"))
    BY <1>10, OnLeads, GotoShape DEF Stages, StrictStages
  <2>3. Leads(j, o, Goto(j, "read_off"))
    BY <1>10, OnLeads, GotoShape DEF Stages, StrictStages
  <2> QED
    BY <2>1, <2>2, <2>3
<1>11. CASE j.stage = "undo"
  <2>1. After(j, o) = Done(j, "err")
    BY <1>11 DEF After, StatusStages
  <2> QED
    BY <1>1, <1>11, <2>1 DEF Results
<1>12. j.stage \in Stages
  BY JobIs
<1> QED
  BY <1>2, <1>3, <1>4, <1>5, <1>6, <1>7, <1>8, <1>9, <1>10, <1>11, <1>12
     DEF Stages

-----------------------------------------------------------------------------
(* The jobs.                                                               *)

\* A job that fits its worker fits it after an exchange, ...
LEMMA LeadsFit ==
    ASSUME NEW w \in Worker, NEW j \in Job, NEW o, NEW k,
           JobFits(w, j), j.stage \notin {"idle", "hold"}, Leads(j, o, k)
    PROVE  k \in Job /\ JobFits(w, k)
BY DEF Leads, JobFits, PulseStages, StrictStages

\* ... and an end that is called a success was seen, for an operation that
\* promises a release.
LEMMA SuccessSeen ==
    ASSUME NEW w \in Worker, NEW j \in Job, NEW o, NEW k,
           JobFits(w, j), j.stage \notin {"idle", "hold"}, Leads(j, o, k),
           k.stage = "idle", k.result = "ok",
           j.op \in {"pulse", "release_verified"} \/ w[2] = "guard"
    PROVE  \/ Opcode(j) = "off" /\ o \in {"echo", "eof", "busy"}
           \/ Opcode(j) = "status" /\ o = "is_off"
<1>1. j.stage \in {"off", "check", "confirm"}
  BY DEF Leads, JobFits, PulseStages, StrictStages
<1>2. j.stage = "confirm" => j.op = "release_verified"
  BY DEF JobFits, PulseStages, StrictStages
<1>3. j.stage = "off" => Opcode(j) = "off"
  BY DEF Opcode, StatusStages
<1>4. j.stage \in {"check", "confirm"} => Opcode(j) = "status"
  BY DEF Opcode, StatusStages
<1> QED
  BY <1>1, <1>2, <1>3, <1>4 DEF Leads

\* Writing the frame changes neither the job nor its frame.
LEMMA SentShape ==
    ASSUME NEW w \in Worker, NEW j \in Job,
           JobFits(w, j), j.stage \notin {"idle", "hold"}
    PROVE  LET k == [j EXCEPT !.sent = TRUE]
           IN  /\ k \in Job /\ JobFits(w, k) /\ k.sent = TRUE
               /\ Opcode(k) = Opcode(j)
<1> DEFINE k == [j EXCEPT !.sent = TRUE]
<1>1. k \in Job /\ k.sent = TRUE /\ k.op = j.op /\ k.stage = j.stage
      /\ k.initial = j.initial
  BY JobIs
<1> HIDE DEF k
<1>2. JobFits(w, k)
  BY <1>1 DEF JobFits
<1>3. Opcode(k) = Opcode(j)
  BY <1>1 DEF Opcode
<1> QED
  BY <1>1, <1>2, <1>3 DEF k

\* One job is replaced.
LEMMA JobReplaced ==
    ASSUME NEW w \in Worker, NEW k \in Job, RelayTypeOK, JobsFit,
           JobFits(w, k), job' = [job EXCEPT ![w] = k],
           user' # NoWorker => IF user' = w THEN k.sent ELSE user' = user
    PROVE  /\ job' \in [Worker -> Job] /\ job'[w] = k
           /\ \A v \in Worker : v # w => job'[v] = job[v]
           /\ user' \in Worker \cup {NoWorker} => JobsFit'
<1>1. job \in [Worker -> Job] /\ user \in Worker \cup {NoWorker}
  BY DEF RelayTypeOK
<1>2. job' \in [Worker -> Job] /\ job'[w] = k
  BY <1>1
<1>3. \A v \in Worker : v # w => job'[v] = job[v]
  BY <1>1
<1>4. ASSUME user' \in Worker \cup {NoWorker} PROVE JobsFit'
  <2>1. \A v \in Worker : JobFits(v, job'[v])
    BY <1>2, <1>3 DEF JobsFit
  <2>2. user' # NoWorker => job'[user'].sent
    BY <1>2, <1>3, <1>4 DEF JobsFit
  <2> QED
    BY <2>1, <2>2 DEF JobsFit, JobFits
<1> QED
  BY <1>2, <1>3, <1>4

-----------------------------------------------------------------------------
(* One lemma per action.                                                   *)

\* What a job writes is a frame.
LEMMA FrameTyped ==
    ASSUME NEW w \in Worker
    PROVE  Frame(w) \in Frames
<1>1. Opcode(job[w]) \in {"on", "off", "status"}
  BY DEF Opcode
<1>2. Channel(w) \in Channels
  BY DEF Worker, Channel, Channels
<1> QED
  BY <1>1, <1>2 DEF Frame, Frames

\* What is under way is counted by natural numbers up to the cap.
LEMMA WireLengths ==
    ASSUME RelayTypeOK
    PROVE  /\ OnTheWay \in Nat /\ OnTheWay <= WireCap
           /\ Arrived \in Nat /\ Arrived <= WireCap
<1>1. cable.out \in Seq(Frames) /\ cable.in \in Seq(Answers)
  BY DEF RelayTypeOK, Cables
<1> QED
  BY <1>1 DEF RelayTypeOK, OnTheWay, Arrived

\* The names of a link's conditions.
LEMMA LinkNames ==
    {"none", "up", "reset", "eof", "busy"} \subseteq Links
BY DEF Links

\* A cable that is not there is a cable.
LEMMA NoCableTyped ==
    /\ NoCable \in Cables
    /\ NoCable.link = "none" /\ NoCable.out = <<>> /\ NoCable.in = <<>>
    /\ Len(NoCable.out) = 0 /\ Len(NoCable.in) = 0
BY LinkNames DEF NoCable, Cables

\* Every initial state satisfies the invariant.
LEMMA InvInit == RelayInit => RelayInv
<1> SUFFICES ASSUME RelayInit PROVE RelayInv
  OBVIOUS
<1>1. NoJob \in Job
  <2>1. "none" \in Ops /\ "idle" \in Stages /\ "none" \in Results
    BY DEF Ops, Stages, Results
  <2> QED
    BY <2>1, Zeros, JobIs DEF NoJob
<1>2. \A w \in Worker : JobFits(w, NoJob)
  BY DEF JobFits, NoJob, PulseStages
<1>3. RelayTypeOK
  <2>1. Len(cable.out) <= WireCap /\ Len(cable.in) <= WireCap
    BY NoCableTyped, RelayAssumption DEF RelayInit
  <2>2. faults \in 0 .. MaxFaults /\ started \in 0 .. MaxStarts
    BY RelayAssumption DEF RelayInit
  <2>3. job \in [Worker -> Job]
    BY <1>1 DEF RelayInit
  <2> QED
    BY <2>1, <2>2, <2>3, NoCableTyped DEF RelayInit, RelayTypeOK
<1>4. JobsFit
  BY <1>2 DEF RelayInit, JobsFit
<1>5. OwnFrameLast
  BY NoCableTyped DEF RelayInit, OwnFrameLast
<1>6. WireHonest
  <2>1. OnTheWay = 0 /\ Arrived = 0
    BY NoCableTyped DEF RelayInit, OnTheWay, Arrived
  <2>2. FewOnTheWire
    BY <2>1 DEF FewOnTheWire
  <2>3. OffIsTrue
    BY NoCableTyped DEF RelayInit, OffIsTrue
  <2> QED
    BY <2>2, <2>3 DEF WireHonest
<1> QED
  BY <1>3, <1>4, <1>5, <1>6 DEF RelayInv

\* The worker of an exchange that begins.
LEMMA WrittenKeeps ==
    ASSUME RelayInv, NEW w \in Worker, Pending(w), user = NoWorker,
           user' = w, job' = [job EXCEPT ![w].sent = TRUE]
    PROVE  /\ job' \in [Worker -> Job] /\ JobsFit'
           /\ Frame(w)' = Frame(w) /\ user' # NoWorker
<1> DEFINE k == [job[w] EXCEPT !.sent = TRUE]
<1>1. RelayTypeOK /\ JobsFit
  BY DEF RelayInv
<1>2. job[w] \in Job /\ JobFits(w, job[w]) /\ job[w].stage \notin {"idle", "hold"}
  BY <1>1 DEF RelayTypeOK, JobsFit, Pending
<1>3. k \in Job /\ JobFits(w, k) /\ k.sent = TRUE /\ Opcode(k) = Opcode(job[w])
  BY <1>2, SentShape
<1>4. job' = [job EXCEPT ![w] = k]
  OBVIOUS
<1> HIDE DEF k
<1>5. job' \in [Worker -> Job] /\ job'[w] = k /\ JobsFit'
  BY <1>1, <1>3, <1>4, JobReplaced
<1>6. w # NoWorker
  BY RelayAssumption DEF Worker
<1> QED
  BY <1>3, <1>5, <1>6 DEF Frame

\* WriteFrame on a stream that stands keeps the invariant.
LEMMA WriteFrameKeeps ==
    ASSUME RelayInv, NEW w \in Worker, WriteFrame(w)
    PROVE  RelayInv'
<1>1. /\ Pending(w) /\ user = NoWorker /\ cable.link = "up"
      /\ Len(cable.out) < WireCap
      /\ cable' = [cable EXCEPT !.out = Append(cable.out, Frame(w))]
      /\ user' = w /\ job' = [job EXCEPT ![w].sent = TRUE]
      /\ UNCHANGED <<relay, echoes, cut, unsure, faults, started>>
  BY DEF WriteFrame, Written
<1>2. RelayTypeOK /\ JobsFit /\ OwnFrameLast /\ WireHonest
  BY DEF RelayInv
<1>3. job' \in [Worker -> Job] /\ JobsFit' /\ Frame(w)' = Frame(w)
      /\ user' # NoWorker
  BY <1>1, WrittenKeeps
<1>4. /\ cable.out \in Seq(Frames) /\ cable.in \in Seq(Answers)
      /\ cable'.link = cable.link /\ cable'.in = cable.in
      /\ cable'.out = Append(cable.out, Frame(w))
  BY <1>1, <1>2 DEF RelayTypeOK, Cables
<1>5. /\ cable'.out \in Seq(Frames) /\ Len(cable'.out) = Len(cable.out) + 1
      /\ cable'.out[Len(cable'.out)] = Frame(w)
  BY <1>4, FrameTyped
<1>6. cable' \in Cables
  BY <1>1, <1>2, <1>4, <1>5 DEF RelayTypeOK, Cables
<1>7. RelayTypeOK'
  BY <1>1, <1>2, <1>3, <1>4, <1>5, <1>6, RelayAssumption DEF RelayTypeOK
<1>8. OwnFrameLast'
  BY <1>1, <1>3, <1>4, <1>5 DEF OwnFrameLast
<1>9. ASSUME ~unsure' PROVE FewOnTheWire'
  <2>1. FewOnTheWire
    BY <1>1, <1>2, <1>9 DEF WireHonest
  <2>2. OnTheWay' = OnTheWay + 1 /\ Arrived' = Arrived
    BY <1>4, <1>5 DEF OnTheWay, Arrived
  <2>3. OnTheWay \in Nat /\ Arrived \in Nat
    BY <1>2, WireLengths
  <2> QED
    BY <1>1, <1>3, <2>1, <2>2, <2>3 DEF FewOnTheWire
<1>10. ASSUME ~unsure' PROVE OffIsTrue'
  BY <1>1, <1>2, <1>4, <1>10 DEF WireHonest, OffIsTrue, Channels
<1> QED
  BY <1>3, <1>7, <1>8, <1>9, <1>10 DEF RelayInv, WireHonest

\* So does a write into a stream that is broken.
LEMMA WriteIntoVoidKeeps ==
    ASSUME RelayInv, NEW w \in Worker, WriteIntoVoid(w)
    PROVE  RelayInv'
<1>1. /\ Pending(w) /\ user = NoWorker /\ cable.link # "up"
      /\ cable' = cable
      /\ user' = w /\ job' = [job EXCEPT ![w].sent = TRUE]
      /\ UNCHANGED <<relay, echoes, cut, unsure, faults, started>>
  BY DEF WriteIntoVoid, Written
<1>2. RelayTypeOK /\ JobsFit /\ OwnFrameLast /\ WireHonest
  BY DEF RelayInv
<1>3. job' \in [Worker -> Job] /\ JobsFit' /\ user' # NoWorker
  BY <1>1, WrittenKeeps
<1>4. RelayTypeOK'
  BY <1>1, <1>2, <1>3 DEF RelayTypeOK
<1>5. OwnFrameLast'
  BY <1>1, <1>2 DEF OwnFrameLast
<1>6. ASSUME ~unsure' PROVE FewOnTheWire'
  <2>1. FewOnTheWire
    BY <1>1, <1>2, <1>6 DEF WireHonest
  <2>2. OnTheWay' = 0 /\ OnTheWay = 0
    BY <1>1, <1>2 DEF OwnFrameLast, OnTheWay
  <2>3. Arrived' = Arrived /\ Arrived \in Nat
    BY <1>1, <1>2, WireLengths DEF Arrived
  <2> QED
    BY <1>1, <1>3, <2>1, <2>2, <2>3 DEF FewOnTheWire
<1>7. ASSUME ~unsure' PROVE OffIsTrue'
  BY <1>1, <1>2, <1>7 DEF WireHonest, OffIsTrue, Channels
<1> QED
  BY <1>3, <1>4, <1>5, <1>6, <1>7 DEF RelayInv, WireHonest

\* So does a write that connects first: nothing is in flight on a new stream.
LEMMA ConnectAndWriteKeeps ==
    ASSUME RelayInv, NEW w \in Worker, ConnectAndWrite(w)
    PROVE  RelayInv'
<1>1. /\ Pending(w) /\ user = NoWorker
      /\ \/ /\ cable' = [NewCable EXCEPT !.out = <<Frame(w)>>]
            /\ UNCHANGED faults
         \/ Fault("busy") /\ cable' = [NoCable EXCEPT !.link = "busy"]
      /\ user' = w /\ job' = [job EXCEPT ![w].sent = TRUE]
      /\ cut' = FALSE /\ unsure' = FALSE
      /\ UNCHANGED <<relay, echoes, started>>
  BY DEF ConnectAndWrite, Written
<1>2. RelayTypeOK /\ JobsFit
  BY DEF RelayInv
<1>3. job' \in [Worker -> Job] /\ JobsFit' /\ Frame(w)' = Frame(w)
      /\ user' # NoWorker
  BY <1>1, WrittenKeeps
<1>4. /\ cable'.in = <<>> /\ cable'.out \in {<<>>, <<Frame(w)>>}
      /\ cable'.link # "up" => cable'.out = <<>>
  BY <1>1 DEF NewCable, NoCable
<1>5. cable' \in Cables
  <2>1. <<Frame(w)>> \in Seq(Frames)
    BY FrameTyped
  <2>2. CASE cable' = [NewCable EXCEPT !.out = <<Frame(w)>>]
    <3>1. NewCable \in Cables
      BY LinkNames DEF NewCable, Cables
    <3> QED
      BY <2>1, <2>2, <3>1 DEF Cables
  <2>3. CASE cable' = [NoCable EXCEPT !.link = "busy"]
    BY <2>3, NoCableTyped, LinkNames DEF Cables
  <2> QED
    BY <1>1, <2>2, <2>3
<1>6. Arrived' = 0 /\ OnTheWay' \in {0, 1}
  <2>1. Len(<<>>) = 0 /\ Len(<<Frame(w)>>) = 1
    OBVIOUS
  <2> QED
    BY <1>4, <2>1 DEF Arrived, OnTheWay
<1>7. faults' \in 0 .. MaxFaults
  BY <1>1, <1>2, RelayAssumption DEF RelayTypeOK, Fault
<1>8. RelayTypeOK'
  <2>1. OnTheWay' <= WireCap /\ Arrived' <= WireCap
    BY <1>6, RelayAssumption
  <2>2. Len(cable'.out) <= WireCap /\ Len(cable'.in) <= WireCap
    BY <2>1 DEF OnTheWay, Arrived
  <2> QED
    BY <1>1, <1>2, <1>3, <1>5, <1>7, <2>2 DEF RelayTypeOK
<1>9. OwnFrameLast'
  BY <1>1, <1>3, <1>4 DEF OwnFrameLast
<1>10. FewOnTheWire' /\ OffIsTrue'
  BY <1>1, <1>3, <1>4, <1>6 DEF FewOnTheWire, OffIsTrue
<1> QED
  BY <1>3, <1>8, <1>9, <1>10 DEF RelayInv, WireHonest

\* A worker's job after its exchange.
LEMMA ExchangeEnds ==
    ASSUME RelayInv, NEW w \in Worker, NEW o,
           job[w].stage \notin {"idle", "hold"}, user' = NoWorker,
           job' = [job EXCEPT ![w] = After(job[w], o)]
    PROVE  job' \in [Worker -> Job] /\ JobsFit'
<1>1. RelayTypeOK /\ JobsFit
  BY DEF RelayInv
<1>2. job[w] \in Job /\ JobFits(w, job[w])
  BY <1>1 DEF RelayTypeOK, JobsFit
<1>3. Leads(job[w], o, After(job[w], o))
  BY <1>2, AfterLeads
<1>4. After(job[w], o) \in Job /\ JobFits(w, After(job[w], o))
  BY <1>2, <1>3, LeadsFit
<1> QED
  BY <1>1, <1>4, JobReplaced

\* So does a connection that is refused.
LEMMA ConnectRefusedKeeps ==
    ASSUME RelayInv, NEW w \in Worker, ConnectRefused(w)
    PROVE  RelayInv'
<1>1. /\ Pending(w) /\ user = NoWorker /\ user' = NoWorker
      /\ cable' = NoCable /\ Fault("refuse")
      /\ job' = [job EXCEPT ![w] = After(job[w], "failed")]
      /\ UNCHANGED <<relay, echoes, cut, unsure, started>>
  BY DEF ConnectRefused
<1>2. RelayTypeOK
  BY DEF RelayInv
<1>3. job' \in [Worker -> Job] /\ JobsFit'
  BY <1>1, ExchangeEnds DEF Pending
<1>4. faults' \in 0 .. MaxFaults
  BY <1>1, <1>2, RelayAssumption DEF RelayTypeOK, Fault
<1>5. RelayTypeOK'
  BY <1>1, <1>2, <1>3, <1>4, NoCableTyped, RelayAssumption DEF RelayTypeOK
<1>6. OwnFrameLast' /\ OffIsTrue'
  BY <1>1, NoCableTyped DEF OwnFrameLast, OffIsTrue
<1>7. FewOnTheWire'
  <2>1. OnTheWay' = 0 /\ Arrived' = 0
    BY <1>1, NoCableTyped DEF OnTheWay, Arrived
  <2> QED
    BY <2>1 DEF FewOnTheWire
<1> QED
  BY <1>3, <1>5, <1>6, <1>7 DEF RelayInv, WireHonest

\* So does Receive, whatever comes: an answer, an end, a banner or a timeout.
LEMMA ReceiveKeeps ==
    ASSUME RelayInv, NEW w \in Worker, Receive(w)
    PROVE  RelayInv'
<1>1. /\ user = w /\ user' = NoWorker
      /\ cable.in = <<>> /\ cable.link = "up" => cable.out = <<>>
      /\ job' = [job EXCEPT ![w] = After(job[w], Outcome(w))]
      /\ \/ cable' = NoCable
         \/ cable' = [cable EXCEPT !.in = <<>>,
                                   !.link = IF @ = "busy" THEN "eof" ELSE @]
      /\ unsure' \in BOOLEAN /\ (~unsure' => ~unsure)
      /\ UNCHANGED <<relay, echoes, cut, faults, started>>
  BY DEF Receive, RelayInv, RelayTypeOK
<1>2. RelayTypeOK /\ JobsFit /\ OwnFrameLast /\ WireHonest
  BY DEF RelayInv
<1>3. w # NoWorker
  BY RelayAssumption DEF Worker
<1>4. job' \in [Worker -> Job] /\ JobsFit'
  <2>1. job[w].stage \notin {"idle", "hold"}
    BY <1>1, <1>2, <1>3 DEF JobsFit, JobFits
  <2> QED
    BY <1>1, <2>1, ExchangeEnds
<1>5. /\ cable'.in = <<>> /\ cable'.out \in {<<>>, cable.out}
      /\ cable'.link # "up" => cable'.out = <<>>
      /\ cable' \in Cables
  <2>1. CASE cable' = NoCable
    BY <2>1, NoCableTyped
  <2>2. CASE cable' = [cable EXCEPT !.in = <<>>,
                                    !.link = IF @ = "busy" THEN "eof" ELSE @]
    <3> DEFINE link == IF cable.link = "busy" THEN "eof" ELSE cable.link
    <3>1. cable \in Cables
      BY <1>2 DEF RelayTypeOK
    <3>2. link \in Links
          /\ (cable.link = "up" => link = "up")
      BY <3>1, LinkNames DEF Cables
    <3>3. cable' = [cable EXCEPT !.in = <<>>, !.link = link]
      BY <2>2
    <3> HIDE DEF link
    <3>4. cable'.in = <<>> /\ cable'.out = cable.out /\ cable'.link = link
      BY <3>1, <3>3 DEF Cables
    <3>5. <<>> \in Seq(Answers)
      OBVIOUS
    <3> DEFINE none == <<>>
    <3> HIDE DEF none
    <3>6. cable' = [cable EXCEPT !.in = none, !.link = link] /\ none \in Seq(Answers)
      BY <3>3, <3>5 DEF none
    <3>7. cable' \in Cables
      BY <3>1, <3>2, <3>6 DEF Cables
    <3> QED
      BY <1>2, <3>2, <3>4, <3>7 DEF OwnFrameLast
  <2> QED
    BY <1>1, <2>1, <2>2
<1>6. OnTheWay \in Nat /\ Arrived \in Nat /\ OnTheWay <= WireCap
  BY <1>2, WireLengths
<1>7. Arrived' = 0 /\ OnTheWay' \in {0, OnTheWay}
  BY <1>5 DEF Arrived, OnTheWay
<1>8. Arrived = 0 => OnTheWay = 0
  <2>1. Arrived = 0 => cable.in = <<>>
    BY <1>2 DEF Arrived, RelayTypeOK
  <2>2. cable.in = <<>> => cable.out = <<>>
    BY <1>1, <1>2 DEF OwnFrameLast
  <2> QED
    BY <2>1, <2>2 DEF OnTheWay
<1>9. RelayTypeOK'
  <2>1. OnTheWay' <= WireCap /\ Arrived' <= WireCap
    BY <1>6, <1>7, RelayAssumption
  <2>2. Len(cable'.out) <= WireCap /\ Len(cable'.in) <= WireCap
    BY <2>1 DEF OnTheWay, Arrived
  <2> QED
    BY <1>1, <1>2, <1>4, <1>5, <2>2 DEF RelayTypeOK
<1>10. OwnFrameLast'
  BY <1>1, <1>5 DEF OwnFrameLast
<1>11. ASSUME ~unsure' PROVE FewOnTheWire'
  <2>1. FewOnTheWire
    BY <1>1, <1>2, <1>11 DEF WireHonest
  <2> QED
    BY <1>1, <1>6, <1>7, <1>8, <2>1 DEF FewOnTheWire
<1>12. OffIsTrue'
  BY <1>5 DEF OffIsTrue
<1> QED
  BY <1>4, <1>9, <1>10, <1>11, <1>12 DEF RelayInv, WireHonest

-----------------------------------------------------------------------------
(* The calls come and go; the wire stays as it is.                         *)

\* WireHonest is kept by a step that leaves the wire, the relay and the history.
LEMMA WireUntouched ==
    ASSUME RelayInv, UNCHANGED <<relay, cable, user, cut, unsure>>,
           user # NoWorker => job'[user] = job[user]
    PROVE  OwnFrameLast' /\ WireHonest'
<1>1. OwnFrameLast /\ WireHonest
  BY DEF RelayInv
<1>2. user # NoWorker =>
        Frame(user)' = Frame(user) /\ Opcode(job[user])' = Opcode(job[user])
  BY DEF Frame
<1>3. OwnFrameLast'
  BY <1>1, <1>2 DEF OwnFrameLast
<1>4. FewOnTheWire => FewOnTheWire'
  BY DEF FewOnTheWire, OnTheWay, Arrived
<1>5. OffIsTrue => OffIsTrue'
  BY <1>2 DEF OffIsTrue
<1> QED
  BY <1>1, <1>3, <1>4, <1>5 DEF WireHonest

\* The names of the workers.
LEMMA CallIsWorker ==
    ASSUME NEW c \in Calls
    PROVE  /\ Call(c) \in Worker /\ Guard(c) \in Worker /\ Call(c) # Guard(c)
           /\ Call(c)[2] = "call" /\ Guard(c)[2] = "guard"
BY DEF Call, Guard, Worker

\* A job without a frame on the wire is replaced by another one.
LEMMA IdleReplaced ==
    ASSUME RelayInv, NEW w \in Worker, NEW k \in Job, JobFits(w, k),
           job[w].stage \in {"idle", "hold"}, job' = [job EXCEPT ![w] = k],
           UNCHANGED <<relay, echoes, cable, user, cut, unsure, faults>>,
           started' \in 0 .. MaxStarts
    PROVE  RelayInv'
<1>1. RelayTypeOK /\ JobsFit
  BY DEF RelayInv
<1>2. user # w
  BY <1>1, RelayAssumption DEF JobsFit, JobFits, Worker
<1>3. /\ job' \in [Worker -> Job] /\ JobsFit'
      /\ \A v \in Worker : v # w => job'[v] = job[v]
  BY <1>1, <1>2, JobReplaced DEF RelayTypeOK
<1>4. OwnFrameLast' /\ WireHonest'
  BY <1>1, <1>2, <1>3, WireUntouched DEF RelayTypeOK
<1>5. RelayTypeOK'
  BY <1>1, <1>3 DEF RelayTypeOK
<1> QED
  BY <1>3, <1>4, <1>5 DEF RelayInv

\* A call that starts keeps the invariant.
LEMMA StartCallKeeps ==
    ASSUME RelayInv, NEW c \in Calls, NEW op \in Operations, StartCall(c, op)
    PROVE  RelayInv'
<1> DEFINE first == FirstStage(op)
           k == [NoJob EXCEPT !.op = op, !.stage = first]
<1>1. first \in Stages /\ (op = "pulse" => first = "initial")
      /\ (op = "release_verified" => first = "set")
      /\ first \notin {"idle", "hold"}
  BY DEF FirstStage, Stages
<1> HIDE DEF first
<1>2. NoJob \in Job /\ NoJob.sent = FALSE
  <2>1. "none" \in Ops /\ "idle" \in Stages /\ "none" \in Results
    BY DEF Ops, Stages, Results
  <2> QED
    BY <2>1, Zeros, JobIs DEF NoJob
<1>3. op \in Ops
  BY DEF Ops
<1>4. k \in Job /\ k.op = op /\ k.stage = first /\ k.sent = FALSE
  BY <1>1, <1>2, <1>3, JobIs
<1>5. job' = [job EXCEPT ![Call(c)] = k] /\ job[Call(c)].stage = "idle"
  BY DEF StartCall, first
<1> HIDE DEF k
<1>6. JobFits(Call(c), k)
  BY <1>1, <1>4, CallIsWorker DEF JobFits, PulseStages
<1>7. started' \in 0 .. MaxStarts
  BY RelayAssumption DEF StartCall, RelayInv, RelayTypeOK
<1> QED
  BY <1>4, <1>5, <1>6, <1>7, CallIsWorker, IdleReplaced DEF StartCall

\* So does the end of a hold.
LEMMA HoldEndsKeeps ==
    ASSUME RelayInv, NEW c \in Calls, HoldEnds(c)
    PROVE  RelayInv'
<1> DEFINE j == job[Call(c)]
           k == Goto(j, "off")
<1>1. RelayTypeOK /\ JobsFit /\ Call(c) \in Worker
  BY CallIsWorker DEF RelayInv
<1>2. j \in Job /\ JobFits(Call(c), j) /\ j.stage = "hold"
  BY <1>1 DEF RelayTypeOK, JobsFit, HoldEnds
<1>3. k \in Job /\ k.op = j.op /\ k.stage = "off" /\ k.sent = FALSE
  <2> "off" \in Stages
    BY DEF Stages
  <2> QED
    BY <1>2, GotoShape
<1>4. job' = [job EXCEPT ![Call(c)] = k]
  BY DEF HoldEnds
<1>5. started' \in 0 .. MaxStarts
  BY <1>1 DEF HoldEnds, RelayTypeOK
<1> HIDE DEF j, k
<1>6. JobFits(Call(c), k)
  BY <1>2, <1>3, CallIsWorker DEF JobFits, PulseStages
<1> QED
  BY <1>1, <1>2, <1>3, <1>4, <1>5, <1>6, IdleReplaced DEF HoldEnds, j

\* So does a dropped call, whose guard becomes a worker.
LEMMA DropCallKeeps ==
    ASSUME RelayInv, NEW c \in Calls, DropCall(c)
    PROVE  RelayInv'
<1> DEFINE j == job[Call(c)]
           d == Done(j, "dropped")
           g == [NoJob EXCEPT !.op = "release", !.stage = "off",
                              !.initial = j.initial]
           k == IF Armed(j) THEN g ELSE job[Guard(c)]
<1>1. RelayTypeOK /\ JobsFit /\ OwnFrameLast /\ WireHonest
  BY DEF RelayInv
<1>2. Call(c) \in Worker /\ Guard(c) \in Worker /\ Call(c) # Guard(c)
      /\ Call(c)[2] = "call" /\ Guard(c)[2] = "guard"
      /\ Call(c) # NoWorker /\ Guard(c) # NoWorker
  BY CallIsWorker, RelayAssumption DEF Worker
<1>3. d \in Job /\ d.op = "none" /\ d.stage = "idle" /\ d.sent = FALSE
  BY DoneShape DEF Results
<1>4. g \in Job /\ g.op = "release" /\ g.stage = "off" /\ g.sent = FALSE
  <2>1. j \in Job
    BY <1>1, <1>2 DEF RelayTypeOK
  <2>2. NoJob \in Job /\ NoJob.sent = FALSE
    <3>1. "none" \in Ops /\ "idle" \in Stages /\ "none" \in Results
      BY DEF Ops, Stages, Results
    <3> QED
      BY <3>1, Zeros, JobIs DEF NoJob
  <2>3. "release" \in Ops /\ "off" \in Stages /\ j.initial \in BOOLEAN
    BY <2>1, JobIs DEF Ops, Operations, Stages
  <2> HIDE DEF j
  <2> QED
    BY <2>2, <2>3, JobIs
<1>5. job' = [job EXCEPT ![Call(c)] = d, ![Guard(c)] = k]
      /\ (Armed(j) => job[Guard(c)].stage = "idle")
  BY <1>1, <1>2 DEF DropCall, RelayTypeOK
<1>6. JobFits(Call(c), d) /\ JobFits(Guard(c), g)
  BY <1>2, <1>3, <1>4 DEF JobFits, PulseStages, StrictStages
<1>7. k \in Job /\ JobFits(Guard(c), k)
  BY <1>1, <1>2, <1>4, <1>6 DEF RelayTypeOK, JobsFit
<1>8. user = Guard(c) => k = job[Guard(c)]
  BY <1>1, <1>2, <1>5 DEF JobsFit, JobFits
<1> HIDE DEF d, g, k
<1>9. /\ job' \in [Worker -> Job] /\ job'[Call(c)] = d /\ job'[Guard(c)] = k
      /\ \A v \in Worker \ {Call(c), Guard(c)} : job'[v] = job[v]
  BY <1>1, <1>2, <1>3, <1>5, <1>7 DEF RelayTypeOK
<1>10. /\ user' = IF user = Call(c) THEN NoWorker ELSE user
       /\ cut' \in BOOLEAN /\ unsure' \in BOOLEAN
       /\ cut' = (cut \/ j.sent) /\ unsure' = (unsure \/ (cut /\ j.sent))
       /\ UNCHANGED <<relay, echoes, cable, faults, started>>
  BY DEF DropCall
<1>11. user' # NoWorker => user' = user /\ job'[user] = job[user]
  BY <1>1, <1>8, <1>9, <1>10 DEF RelayTypeOK
<1>12. RelayTypeOK'
  BY <1>1, <1>9, <1>10 DEF RelayTypeOK
<1>13. JobsFit'
  <2>1. \A v \in Worker : JobFits(v, job'[v])
    BY <1>1, <1>6, <1>7, <1>9 DEF JobsFit
  <2>2. user' # NoWorker => job'[user'].sent
    BY <1>1, <1>11 DEF JobsFit
  <2> QED
    BY <2>1, <2>2 DEF JobsFit, JobFits
<1>14. OwnFrameLast'
  <2>1. user' # NoWorker => Frame(user)' = Frame(user)
    BY <1>11 DEF Frame
  <2> QED
    BY <1>1, <1>10, <1>11, <2>1 DEF OwnFrameLast
<1>15. user = Call(c) => j.sent
  BY <1>1, <1>2 DEF JobsFit
<1> HIDE DEF j
<1>16. ASSUME ~unsure' PROVE FewOnTheWire' /\ OffIsTrue'
  <2>1. FewOnTheWire /\ OffIsTrue
    BY <1>1, <1>10, <1>16 DEF WireHonest
  <2>2. OnTheWay' = OnTheWay /\ Arrived' = Arrived
    BY <1>10 DEF OnTheWay, Arrived
  <2>3. OnTheWay \in Nat /\ Arrived \in Nat
    BY <1>1, WireLengths
  <2>4. CASE user = Call(c)
    <3>1. ~cut /\ cut' /\ user' = NoWorker
      BY <1>10, <1>15, <1>16, <2>4
    <3>2. FewOnTheWire'
      BY <2>1, <2>2, <2>3, <3>1 DEF FewOnTheWire
    <3>3. OffIsTrue'
      BY <1>10, <2>1, <3>1 DEF OffIsTrue
    <3> QED
      BY <3>2, <3>3
  <2>5. CASE user # Call(c)
    <3>1. user' = user /\ (cut => cut')
      BY <1>10, <2>5
    <3>2. FewOnTheWire'
      BY <2>1, <2>2, <2>3, <3>1 DEF FewOnTheWire
    <3>3. user # NoWorker => Opcode(job[user])' = Opcode(job[user])
      BY <1>11, <3>1
    <3>4. OffIsTrue'
      BY <1>10, <2>1, <3>1, <3>3 DEF OffIsTrue
    <3> QED
      BY <3>2, <3>4
  <2> QED
    BY <2>4, <2>5
<1> QED
  BY <1>12, <1>13, <1>14, <1>16 DEF RelayInv, WireHonest

-----------------------------------------------------------------------------
(* The relay and the network.                                              *)

\* A frame or an answer leaves its end of the wire.
LEMMA TailShape ==
    ASSUME NEW T, NEW s \in Seq(T), s # <<>>
    PROVE  /\ Tail(s) \in Seq(T) /\ Len(Tail(s)) = Len(s) - 1
           /\ \A i \in 1 .. Len(Tail(s)) : Tail(s)[i] = s[i + 1]
           /\ Tail(s) # <<>> => Tail(s)[Len(Tail(s))] = s[Len(s)]
           /\ Len(s) = 1 => Head(s) = s[Len(s)]
           /\ Head(s) \in T
OBVIOUS

\* Arithmetic about the wire: sums are ordered as their parts.
LEMMA SumsOrdered ==
    ASSUME NEW a \in Nat, NEW b \in Nat, NEW c \in Nat, NEW d \in Nat,
           a <= c, b <= d
    PROVE  a + b \in Nat /\ c + d \in Nat /\ a + b <= c + d
OBVIOUS

\* What is left of a sequence after a loss is no longer than it was.
LEMMA FewerLeft ==
    ASSUME NEW T, NEW s \in Seq(T), NEW r,
           r = <<>> \/ r = s \/ (s # <<>> /\ r = Tail(s))
    PROVE  Len(r) \in Nat /\ Len(r) <= Len(s)
<1>1. Len(s) \in Nat /\ Len(<<>>) = 0
  OBVIOUS
<1>2. CASE r \in {<<>>, s}
  BY <1>1, <1>2
<1>3. CASE s # <<>> /\ r = Tail(s)
  BY <1>1, <1>3, TailShape
<1> QED
  BY <1>2, <1>3

\* The jobs are left alone.
LEMMA JobsUntouched ==
    ASSUME RelayInv, UNCHANGED <<user, job>>
    PROVE  JobsFit' /\ (user # NoWorker => Frame(user)' = Frame(user))
BY DEF RelayInv, JobsFit, JobFits, Frame

\* What the relay answers is true when it is made.  An answer that was there
\* before it shares the wire with the frame of the exchange under way only, and
\* that frame switches nothing on if the answer matters to its exchange.
LEMMA RelayTakesKeeps ==
    ASSUME RelayInv, RelayTakes
    PROVE  RelayInv'
<1> DEFINE f == Head(cable.out)
           on == IF f.opcode = "on" THEN relay \cup {f.channel}
                 ELSE IF f.opcode = "off" THEN relay \ {f.channel}
                 ELSE relay
           answers == IF f.opcode = "status" \/ echoes
                      THEN Append(cable.in, [channel |-> f.channel,
                                             on |-> f.channel \in on])
                      ELSE cable.in
<1>1. /\ cable.link = "up" /\ cable.out # <<>> /\ Len(cable.in) < WireCap
      /\ relay' = on
      /\ cable' = [cable EXCEPT !.out = Tail(cable.out), !.in = answers]
      /\ UNCHANGED <<echoes, user, job, cut, unsure, faults, started>>
  BY DEF RelayTakes
<1>2. RelayTypeOK /\ JobsFit /\ OwnFrameLast /\ WireHonest
  BY DEF RelayInv
<1>3. cable.out \in Seq(Frames) /\ cable.in \in Seq(Answers) /\ cable \in Cables
  BY <1>2 DEF RelayTypeOK, Cables
<1>4. f \in Frames /\ f.channel \in Channels
  <2>1. f \in Frames
    BY <1>1, <1>3, TailShape
  <2> HIDE DEF f
  <2> QED
    BY <2>1 DEF Frames
<1>5. on \subseteq Channels
  BY <1>2, <1>4 DEF RelayTypeOK
<1>6. /\ answers \in Seq(Answers)
      /\ Len(answers) \in {Len(cable.in), Len(cable.in) + 1}
      /\ \A i \in DOMAIN answers :
            \/ i \in DOMAIN cable.in /\ answers[i] = cable.in[i]
            \/ i = Len(cable.in) + 1
               /\ answers[i] = [channel |-> f.channel, on |-> f.channel \in on]
  <2> DEFINE a == [channel |-> f.channel, on |-> f.channel \in on]
  <2>1. a \in Answers
    BY <1>4 DEF Answers
  <2> HIDE DEF a
  <2>2. /\ Append(cable.in, a) \in Seq(Answers)
        /\ Len(Append(cable.in, a)) = Len(cable.in) + 1
        /\ \A i \in DOMAIN Append(cable.in, a) :
              \/ i \in DOMAIN cable.in /\ Append(cable.in, a)[i] = cable.in[i]
              \/ i = Len(cable.in) + 1 /\ Append(cable.in, a)[i] = a
    BY <1>3, <2>1
  <2>3. answers \in {cable.in, Append(cable.in, a)}
    BY DEF a
  <2> HIDE DEF answers
  <2>4. CASE answers = cable.in
    BY <1>3, <2>4
  <2>5. CASE answers = Append(cable.in, a)
    BY <2>2, <2>5 DEF a
  <2> QED
    BY <2>3, <2>4, <2>5
<1> HIDE DEF answers
<1>7. /\ cable'.link = cable.link /\ cable'.out = Tail(cable.out)
      /\ cable'.in = answers /\ cable' \in Cables
  <2> DEFINE rest == Tail(cable.out)
  <2>1. rest \in Seq(Frames)
    BY <1>1, <1>3, TailShape
  <2> HIDE DEF rest
  <2>2. cable' = [cable EXCEPT !.out = rest, !.in = answers]
    BY <1>1 DEF rest
  <2>3. cable' \in Cables
    BY <1>3, <1>6, <2>1, <2>2 DEF Cables
  <2>4. cable'.link = cable.link /\ cable'.out = rest /\ cable'.in = answers
    BY <1>3, <2>2 DEF Cables
  <2> QED
    BY <2>3, <2>4 DEF rest
<1>8. OnTheWay \in Nat /\ OnTheWay <= WireCap /\ Arrived \in Nat
      /\ Arrived < WireCap /\ OnTheWay # 0
  <2>1. Len(cable.out) # 0
    BY <1>1, <1>3
  <2> QED
    BY <1>1, <1>2, <2>1, WireLengths DEF OnTheWay, Arrived
<1>9. OnTheWay' = OnTheWay - 1 /\ Arrived' \in {Arrived, Arrived + 1}
  BY <1>1, <1>3, <1>6, <1>7, TailShape DEF OnTheWay, Arrived
<1>10. RelayTypeOK'
  <2>1. OnTheWay' <= WireCap /\ Arrived' <= WireCap
    BY <1>8, <1>9, RelayAssumption
  <2>2. Len(cable'.out) <= WireCap /\ Len(cable'.in) <= WireCap
    BY <2>1 DEF OnTheWay, Arrived
  <2> HIDE DEF on
  <2> QED
    BY <1>1, <1>2, <1>5, <1>7, <2>2 DEF RelayTypeOK
<1>11. JobsFit' /\ (user # NoWorker => Frame(user)' = Frame(user))
  BY <1>1, JobsUntouched
<1>12. OwnFrameLast'
  <2> HIDE DEF f, on
  <2>1. cable'.out # <<>> => cable'.out[Len(cable'.out)] = cable.out[Len(cable.out)]
    BY <1>1, <1>3, <1>7, TailShape
  <2> QED
    BY <1>1, <1>2, <1>7, <1>11, <2>1 DEF OwnFrameLast
<1>13. ASSUME ~unsure' PROVE FewOnTheWire'
  <2>1. FewOnTheWire
    BY <1>1, <1>2, <1>13 DEF WireHonest
  <2> HIDE DEF f, on
  <2> QED
    BY <1>1, <1>8, <1>9, <2>1 DEF FewOnTheWire
<1>14. ASSUME ~unsure' PROVE OffIsTrue'
  <2> SUFFICES ASSUME NEW i \in DOMAIN cable'.in, NEW c \in Channels,
                      IsOffAnswer(cable'.in[i], c),
                      \/ user' = NoWorker
                      \/ ~cut'
                      \/ c = Channel(user') /\ Opcode(job'[user']) \in {"off", "status"}
               PROVE  c \notin relay'
    BY DEF OffIsTrue, IsOffAnswer
  <2>1. FewOnTheWire /\ OffIsTrue
    BY <1>1, <1>2, <1>14 DEF WireHonest
  <2>2. CASE i = Len(cable.in) + 1
             /\ answers[i] = [channel |-> f.channel, on |-> f.channel \in on]
    <3> DEFINE ch == f.channel
    <3> HIDE DEF ch, on
    <3>1. [channel |-> ch, on |-> ch \in on] = [channel |-> c, on |-> FALSE]
      BY <1>7, <2>2 DEF IsOffAnswer, ch
    <3>2. ch = c /\ ch \notin on
      BY <3>1
    <3> QED
      BY <1>1, <3>2
  <2>3. CASE i \in DOMAIN cable.in /\ answers[i] = cable.in[i]
    <3>1. Arrived # 0
      BY <1>3, <2>3 DEF Arrived
    <3>2. OnTheWay = 1 /\ user # NoWorker /\ cut
      BY <1>8, <2>1, <3>1 DEF FewOnTheWire
    <3>3. f = Frame(user)
      BY <1>1, <1>2, <1>3, <3>2, TailShape DEF OwnFrameLast, OnTheWay
    <3>4. c = Channel(user) /\ Opcode(job[user]) \in {"off", "status"}
      BY <1>1, <3>2
    <3>5. c \notin relay
      BY <1>7, <2>1, <2>3, <3>4 DEF OffIsTrue
    <3>6. f.opcode \in {"off", "status"}
      BY <3>3, <3>4 DEF Frame
    <3> QED
      BY <1>1, <3>5, <3>6
  <2> QED
    BY <1>6, <1>7, <2>2, <2>3
<1> QED
  BY <1>10, <1>11, <1>12, <1>13, <1>14 DEF RelayInv, WireHonest

\* Fewer frames and answers, of a relay that stays as it is.
LEMMA LostKeeps ==
    ASSUME RelayInv, UNCHANGED <<relay, echoes, user, job, cut, unsure, started>>,
           faults' \in 0 .. MaxFaults, cable' \in Cables,
           cable'.link # "up" => cable'.out = <<>>,
           \/ cable'.out = <<>> \/ cable'.out = cable.out
           \/ cable.out # <<>> /\ cable'.out = Tail(cable.out),
           \/ cable'.in = <<>> \/ cable'.in = cable.in
           \/ cable.in # <<>> /\ cable'.in = Tail(cable.in)
    PROVE  RelayInv'
<1>1. RelayTypeOK /\ JobsFit /\ OwnFrameLast /\ WireHonest
  BY DEF RelayInv
<1>2. cable.out \in Seq(Frames) /\ cable.in \in Seq(Answers)
  BY <1>1 DEF RelayTypeOK, Cables
<1>3. OnTheWay \in Nat /\ OnTheWay <= WireCap /\ Arrived \in Nat
      /\ Arrived <= WireCap
  BY <1>1, WireLengths
<1>4. OnTheWay' \in Nat /\ OnTheWay' <= OnTheWay
  BY <1>2, FewerLeft DEF OnTheWay
<1>5. Arrived' \in Nat /\ Arrived' <= Arrived
  BY <1>2, FewerLeft DEF Arrived
<1>6. RelayTypeOK'
  <2>1. OnTheWay' <= WireCap /\ Arrived' <= WireCap
    BY <1>3, <1>4, <1>5, RelayAssumption
  <2>2. Len(cable'.out) <= WireCap /\ Len(cable'.in) <= WireCap
    BY <2>1 DEF OnTheWay, Arrived
  <2> QED
    BY <1>1, <2>2 DEF RelayTypeOK
<1>7. JobsFit' /\ (user # NoWorker => Frame(user)' = Frame(user))
  BY JobsUntouched
<1>8. OwnFrameLast'
  <2>1. cable'.out # <<>> =>
          /\ cable.out # <<>>
          /\ cable'.out[Len(cable'.out)] = cable.out[Len(cable.out)]
    BY <1>2, TailShape
  <2> QED
    BY <1>1, <1>7, <2>1 DEF OwnFrameLast
<1>9. FewOnTheWire => FewOnTheWire'
  <2>1. OnTheWay' + Arrived' \in Nat
        /\ OnTheWay' + Arrived' <= OnTheWay + Arrived
        /\ OnTheWay + Arrived \in Nat
    BY <1>3, <1>4, <1>5, SumsOrdered
  <2> QED
    BY <2>1 DEF FewOnTheWire
<1>10. \A i \in DOMAIN cable'.in :
         \E k \in DOMAIN cable.in : cable'.in[i] = cable.in[k]
  <2>1. CASE cable'.in = <<>>
    BY <2>1
  <2>2. CASE cable'.in = cable.in
    BY <2>2
  <2>3. CASE cable.in # <<>> /\ cable'.in = Tail(cable.in)
    <3>1. \A i \in 1 .. Len(cable.in) - 1 :
            i + 1 \in 1 .. Len(cable.in) /\ Tail(cable.in)[i] = cable.in[i + 1]
      BY <1>2, <2>3, TailShape
    <3> QED
      BY <1>2, <2>3, <3>1, TailShape
  <2> QED
    BY <2>1, <2>2, <2>3
<1>11. OffIsTrue => OffIsTrue'
  BY <1>10 DEF OffIsTrue
<1> QED
  BY <1>1, <1>6, <1>7, <1>8, <1>9, <1>11 DEF RelayInv, WireHonest

\* A frame that is lost keeps the invariant.
LEMMA LoseFrameKeeps ==
    ASSUME RelayInv, LoseFrame
    PROVE  RelayInv'
<1>1. RelayTypeOK /\ OwnFrameLast
  BY DEF RelayInv
<1>2. faults' \in 0 .. MaxFaults
  BY <1>1, RelayAssumption DEF LoseFrame, Fault, RelayTypeOK
<1>3. cable \in Cables /\ cable.out \in Seq(Frames) /\ cable.in \in Seq(Answers)
  BY <1>1 DEF RelayTypeOK, Cables
<1>4. UNCHANGED <<relay, echoes, user, job, cut, unsure, started>>
  BY DEF LoseFrame
<1>5. CASE cable.out # <<>> /\ cable' = [cable EXCEPT !.out = Tail(cable.out)]
  <2> DEFINE rest == Tail(cable.out)
  <2>1. rest \in Seq(Frames)
    BY <1>3, <1>5, TailShape
  <2> HIDE DEF rest
  <2>2. cable' = [cable EXCEPT !.out = rest]
    BY <1>5 DEF rest
  <2>3. /\ cable' \in Cables /\ cable'.out = rest /\ cable'.in = cable.in
        /\ cable'.link = cable.link
    BY <1>3, <2>1, <2>2 DEF Cables
  <2>4. cable'.link # "up" => cable'.out = <<>>
    BY <1>1, <1>5, <2>3 DEF OwnFrameLast
  <2>5. cable'.out = Tail(cable.out)
    BY <2>3 DEF rest
  <2> QED
    BY <1>2, <1>4, <1>5, <2>3, <2>4, <2>5, LostKeeps
<1>6. CASE cable.in # <<>> /\ cable' = [cable EXCEPT !.in = Tail(cable.in)]
  <2> DEFINE rest == Tail(cable.in)
  <2>1. rest \in Seq(Answers)
    BY <1>3, <1>6, TailShape
  <2> HIDE DEF rest
  <2>2. cable' = [cable EXCEPT !.in = rest]
    BY <1>6 DEF rest
  <2>3. /\ cable' \in Cables /\ cable'.in = rest /\ cable'.out = cable.out
        /\ cable'.link = cable.link
    BY <1>3, <2>1, <2>2 DEF Cables
  <2>4. cable'.link # "up" => cable'.out = <<>>
    BY <1>1, <2>3 DEF OwnFrameLast
  <2>5. cable'.in = Tail(cable.in)
    BY <2>3 DEF rest
  <2> QED
    BY <1>2, <1>4, <1>6, <2>3, <2>4, <2>5, LostKeeps
<1> QED
  BY <1>5, <1>6 DEF LoseFrame

\* So does a stream that breaks.
LEMMA BreakCableKeeps ==
    ASSUME RelayInv, BreakCable
    PROVE  RelayInv'
<1>1. RelayTypeOK
  BY DEF RelayInv
<1>2. faults' \in 0 .. MaxFaults
  BY <1>1, RelayAssumption DEF BreakCable, Fault, RelayTypeOK
<1>3. PICK kind \in {"reset", "eof"} :
         cable' = [NoCable EXCEPT !.link = kind,
                                  !.in = IF kind = "eof" THEN cable.in ELSE <<>>]
  BY DEF BreakCable
<1> DEFINE left == IF kind = "eof" THEN cable.in ELSE <<>>
<1>4. left \in Seq(Answers) /\ left \in {<<>>, cable.in}
  BY <1>1 DEF RelayTypeOK, Cables
<1>5. kind \in Links /\ kind # "up"
  BY LinkNames
<1>6. cable' = [NoCable EXCEPT !.link = kind, !.in = left]
  BY <1>3
<1> HIDE DEF left
<1>7. /\ cable' \in Cables /\ cable'.link = kind /\ cable'.out = <<>>
      /\ cable'.in = left
  BY <1>4, <1>5, <1>6, NoCableTyped DEF Cables
<1> QED
  BY <1>2, <1>4, <1>5, <1>7, LostKeeps DEF BreakCable

-----------------------------------------------------------------------------
(* The theorems.                                                           *)

\* Every step keeps the invariant.
LEMMA InvNext ==
    ASSUME RelayInv, [RelayNext]_relayVars
    PROVE  RelayInv'
<1>1. CASE UNCHANGED relayVars
  BY <1>1 DEF relayVars, RelayInv, RelayTypeOK, JobsFit, JobFits, OwnFrameLast,
              WireHonest, FewOnTheWire, OnTheWay, Arrived, OffIsTrue, Frame
<1>2. CASE \E w \in Worker : WriteFrame(w)
  BY <1>2, WriteFrameKeeps
<1>3. CASE \E w \in Worker : WriteIntoVoid(w)
  BY <1>3, WriteIntoVoidKeeps
<1>4. CASE \E w \in Worker : ConnectAndWrite(w)
  BY <1>4, ConnectAndWriteKeeps
<1>5. CASE \E w \in Worker : ConnectRefused(w)
  BY <1>5, ConnectRefusedKeeps
<1>6. CASE \E w \in Worker : Receive(w)
  BY <1>6, ReceiveKeeps
<1>7. CASE \E c \in Calls, op \in Operations : StartCall(c, op)
  BY <1>7, StartCallKeeps
<1>8. CASE \E c \in Calls : HoldEnds(c)
  BY <1>8, HoldEndsKeeps
<1>9. CASE \E c \in Calls : DropCall(c)
  BY <1>9, DropCallKeeps
<1>10. CASE RelayTakes
  BY <1>10, RelayTakesKeeps
<1>11. CASE LoseFrame
  BY <1>11, LoseFrameKeeps
<1>12. CASE BreakCable
  BY <1>12, BreakCableKeeps
<1> QED
  BY <1>1, <1>2, <1>3, <1>4, <1>5, <1>6, <1>7, <1>8, <1>9, <1>10, <1>11, <1>12
     DEF RelayNext

\* The invariant holds in every behaviour, whatever is lost, broken or refused.
THEOREM RelayCorrect == RelaySpec => []RelayInv
BY InvInit, InvNext, PTL DEF RelaySpec

\* Every variable has its type, and the wire never carries more than it can.
THEOREM RelayTyped == RelaySpec => []RelayTypeOK
<1>1. RelayInv => RelayTypeOK
  BY DEF RelayInv
<1> QED
  BY <1>1, RelayCorrect, PTL

\* What reads as the echo of OFF, or as a channel that is off, is an answer that
\* says so.
LEMMA ReadOff ==
    ASSUME RelayTypeOK, NEW w \in Worker,
           \/ Opcode(job[w]) = "off" /\ Outcome(w) = "echo"
           \/ Opcode(job[w]) = "status" /\ Outcome(w) = "is_off"
    PROVE  \E i \in DOMAIN cable.in : IsOffAnswer(cable.in[i], Channel(w))
<1> DEFINE mine == {i \in DOMAIN cable.in : cable.in[i].channel = Channel(w)}
           first == CHOOSE i \in mine : \A k \in mine : i <= k
<1>1. cable.in \in Seq(Answers) /\ cable.link \in Links
  BY DEF RelayTypeOK, Cables
<1>2. cable.in # <<>> /\ Outcome(w) = Reading(w, cable.in)
  BY <1>1 DEF Outcome, Links
<1>3. CASE Opcode(job[w]) = "off" /\ Outcome(w) = "echo"
  BY <1>2, <1>3 DEF Reading, IsOffAnswer
<1>4. CASE Opcode(job[w]) = "status" /\ Outcome(w) = "is_off"
  <2>1. mine # {} /\ ~cable.in[first].on
    BY <1>2, <1>4 DEF Reading
  <2>2. mine \in SUBSET Nat
    BY <1>1
  <2>3. \E i \in mine : \A k \in mine : i <= k
    BY <2>1, <2>2, LeastOfNaturals
  <2>4. first \in mine
    BY <2>3
  <2> HIDE DEF first
  <2>5. first \in DOMAIN cable.in /\ cable.in[first].channel = Channel(w)
    BY <2>4
  <2>6. cable.in[first] \in Answers
    BY <1>1, <2>5
  <2> DEFINE a == cable.in[first]
  <2> HIDE DEF a
  <2>7. a \in Answers /\ a.channel = Channel(w) /\ ~a.on
    BY <2>1, <2>5, <2>6 DEF a
  <2>8. a = [channel |-> Channel(w), on |-> FALSE]
    BY <2>7 DEF Answers
  <2> QED
    BY <2>5, <2>8 DEF IsOffAnswer, a
<1> QED
  BY <1>3, <1>4

\* A job ends well only with an exchange.
LEMMA OnlyReceiveSucceeds ==
    ASSUME RelayInv, [RelayNext]_relayVars, NEW w \in Worker,
           Ends(w), job'[w].result = "ok",
           job[w].op \in {"pulse", "release_verified"} \/ w[2] = "guard"
    PROVE  Receive(w)
<1>1. RelayTypeOK /\ JobsFit /\ RelayTypeOK'
  BY InvNext DEF RelayInv
<1>2. job \in [Worker -> Job] /\ JobFits(w, job[w]) /\ job[w] \in Job
  BY <1>1 DEF RelayTypeOK, JobsFit
<1>3. job'[w] # job[w]
  BY DEF Ends
<1>4. ASSUME NEW v \in Worker, job' = [job EXCEPT ![v].sent = TRUE]
      PROVE  FALSE
  <2>1. job'[w].stage = job[w].stage
    <3>1. v # w => job'[w] = job[w]
      BY <1>2, <1>4
    <3> DEFINE k == [job[v] EXCEPT !.sent = TRUE]
    <3>2. job' = [job EXCEPT ![v] = k]
      BY <1>4
    <3>3. job[v] \in Job
      BY <1>2
    <3>4. k.stage = job[v].stage
      BY <3>3, JobIs
    <3> HIDE DEF k
    <3> QED
      BY <1>2, <3>1, <3>2, <3>4
  <2> QED
    BY <2>1 DEF Ends
<1>5. ASSUME NEW v \in Worker, ConnectRefused(v) PROVE FALSE
  <2>1. v = w /\ job'[w] = After(job[w], "failed")
    BY <1>2, <1>3, <1>5 DEF ConnectRefused
  <2>2. job[w].stage \notin {"idle", "hold"}
    BY <1>5, <2>1 DEF ConnectRefused, Pending
  <2>3. Leads(job[w], "failed", job'[w])
    BY <1>2, <2>1, <2>2, AfterLeads
  <2> QED
    BY <1>2, <2>2, <2>3, SuccessSeen DEF Ends
<1>6. ASSUME NEW v \in Worker, Receive(v) PROVE Receive(w)
  <2>1. v = w
    BY <1>2, <1>3, <1>6 DEF Receive
  <2> QED
    BY <1>6, <2>1
<1>7. ASSUME NEW c \in Calls, NEW op \in Operations, StartCall(c, op)
      PROVE  FALSE
  <2>1. w = Call(c) => job[w].stage = "idle"
    BY <1>7 DEF StartCall
  <2>2. w # Call(c) => job'[w] = job[w]
    BY <1>2, <1>7 DEF StartCall
  <2> QED
    BY <1>3, <2>1, <2>2 DEF Ends
<1>8. ASSUME NEW c \in Calls, HoldEnds(c) PROVE FALSE
  <2>1. w = Call(c) /\ job'[w] = Goto(job[w], "off")
    BY <1>2, <1>3, <1>8 DEF HoldEnds
  <2>2. job'[w].stage = "off"
    <3>1. "off" \in Stages
      BY DEF Stages
    <3>2. Goto(job[w], "off").stage = "off"
      BY <1>2, <3>1, GotoShape
    <3> QED
      BY <2>1, <3>2
  <2> QED
    BY <2>2 DEF Ends
<1>9. ASSUME NEW c \in Calls, DropCall(c) PROVE FALSE
  <2> DEFINE d == Done(job[Call(c)], "dropped")
             g == [NoJob EXCEPT !.op = "release", !.stage = "off",
                                !.initial = job[Call(c)].initial]
             k == IF Armed(job[Call(c)]) THEN g ELSE job[Guard(c)]
  <2>1. Call(c) \in Worker /\ Guard(c) \in Worker /\ Call(c) # Guard(c)
    BY CallIsWorker
  <2>2. job' = [job EXCEPT ![Call(c)] = d, ![Guard(c)] = k]
    BY <1>2, <1>9, <2>1 DEF DropCall
  <2>3. g.stage = "off"
    BY DEF NoJob
  <2>4. d.result = "dropped"
    BY DoneShape DEF Results
  <2> HIDE DEF d, g
  <2>5. w = Call(c) => job'[w] = d
    BY <1>2, <2>1, <2>2
  <2>6. w = Guard(c) => job'[w] \in {g, job[w]}
    BY <1>2, <2>1, <2>2
  <2>7. w \notin {Call(c), Guard(c)} => job'[w] = job[w]
    BY <1>2, <2>1, <2>2
  <2> QED
    BY <1>3, <2>3, <2>4, <2>5, <2>6, <2>7 DEF Ends
<1>10. job' # job
  BY <1>3
<1> QED
  BY <1>4, <1>5, <1>6, <1>7, <1>8, <1>9, <1>10
     DEF RelayNext, relayVars, WriteFrame, WriteIntoVoid, ConnectAndWrite,
         Written, RelayTakes, LoseFrame, BreakCable

\* A pulse, the release of a dropped pulse and a verified release report success
\* only for a channel that is off, as long as no two exchanges on the stream were
\* cut short and none was ended by an EOF or a banner.
THEOREM SuccessIsRelease == RelaySpec => OkMeansReleased
<1> DEFINE Released ==
      \A w \in Worker :
         /\ Ends(w) /\ job'[w].result = "ok" /\ ~unsure'
         /\ \/ job[w].op \in {"pulse", "release_verified"}
            \/ w[2] = "guard"
         => Channel(w) \notin relay'
<1>1. RelayInv /\ [RelayNext]_relayVars => Released
  <2> SUFFICES ASSUME RelayInv, [RelayNext]_relayVars, NEW w \in Worker,
                      Ends(w), job'[w].result = "ok", ~unsure',
                      job[w].op \in {"pulse", "release_verified"} \/ w[2] = "guard"
               PROVE  Channel(w) \notin relay'
    OBVIOUS
  <2>1. Receive(w)
    BY OnlyReceiveSucceeds
  <2>2. RelayTypeOK /\ JobsFit /\ WireHonest
    BY DEF RelayInv
  <2>3. /\ user = w /\ w # NoWorker /\ relay' = relay
        /\ job'[w] = After(job[w], Outcome(w))
        /\ ~unsure /\ Outcome(w) \notin {"eof", "busy"}
    BY <2>1, <2>2, RelayAssumption DEF Receive, RelayTypeOK, Worker
  <2>4. job[w] \in Job /\ JobFits(w, job[w])
    BY <2>2 DEF RelayTypeOK, JobsFit
  <2>5. job[w].stage \notin {"idle", "hold"}
    BY <2>2, <2>3 DEF JobsFit, JobFits
  <2>6. Leads(job[w], Outcome(w), job'[w])
    BY <2>3, <2>4, <2>5, AfterLeads
  <2>7. \/ Opcode(job[w]) = "off" /\ Outcome(w) = "echo"
        \/ Opcode(job[w]) = "status" /\ Outcome(w) = "is_off"
    BY <2>3, <2>4, <2>5, <2>6, SuccessSeen DEF Ends
  <2>8. PICK i \in DOMAIN cable.in : IsOffAnswer(cable.in[i], Channel(w))
    BY <2>2, <2>7, ReadOff
  <2>9. Channel(w) \in Channels
    BY DEF Worker, Channel, Channels
  <2>10. OffIsTrue
    BY <2>2, <2>3 DEF WireHonest
  <2> QED
    BY <2>3, <2>7, <2>8, <2>9, <2>10 DEF OffIsTrue
<1> QED
  BY <1>1, RelayCorrect, PTL DEF RelaySpec, OkMeansReleased

-----------------------------------------------------------------------------
(* serial_enter_uboot.                                                     *)

\* What a call waits for at each of its steps.
Awaited(c, k) ==
    CASE k.at \in {"undelivered", "spl"} -> {"spl"}
      [] k.at \in {"rounds", "grace", "nonce", "echo", "conclude"} ->
           {"prompt"} \cup (IF k.strategy = "pattern" THEN {"marker"} ELSE {})
                      \cup (IF k.at = "echo" THEN {c} ELSE {})
      [] OTHER -> {}

\* A registered watcher is one that its owner still waits for.
WatchersOwned == \A w \in watchers : w.what \in Awaited(w.by, call[w.by])

\* What a call found when it put its own interrupt byte in is the default.
CharOwned ==
    \A c \in Callers :
        IF call[c].at \in {"idle", "attempt"} THEN intChar = "default"
        ELSE call[c].saved = "default"

\* The same for what the invariants say of a call.
Alike(k, l) == k.at = l.at /\ k.strategy = l.strategy /\ k.saved = l.saved

Places == {"linux", "rom", "spl", "auto", "prompt"}
Pieces == {"line", "spl", "marker", "prompt"} \cup Callers
UbootStages == {"idle", "attempt", "reboot", "undelivered", "spl", "arm",
                "rounds", "grace", "nonce", "echo", "conclude", "restore"}
Table == [Callers -> CallState]

-----------------------------------------------------------------------------
(* Lemmas about the table of calls.                                        *)

\* A step of a call is one of its stages.
LEMMA GoTyped ==
    ASSUME NEW f \in Table, NEW c \in Callers, NEW s \in UbootStages
    PROVE  [f EXCEPT ![c].at = s] \in Table
BY DEF Table, CallState, UbootStages

\* One call of the table is replaced.
LEMMA PutTyped ==
    ASSUME NEW f \in Table, NEW c \in Callers, NEW k \in CallState
    PROVE  [f EXCEPT ![c] = k] \in Table
BY DEF Table

\* The history touches one field.
LEMMA PromptedKeeps ==
    ASSUME NEW f \in Table, NEW at
    PROVE  /\ Prompted(f, at) \in Table
           /\ \A c \in Callers : Alike(Prompted(f, at)[c], f[c])
<1>1. ASSUME NEW k \in CallState
      PROVE  [k EXCEPT !.prompted = TRUE] \in CallState /\ Alike([k EXCEPT !.prompted = TRUE], k)
  BY DEF CallState, Alike
<1>2. \A c \in Callers : f[c] \in CallState
  BY DEF Table
<1>3. [c \in Callers |-> [f[c] EXCEPT !.prompted = TRUE]] \in Table
  BY <1>1, <1>2 DEF Table
<1>4. \A c \in Callers : Alike(f[c], f[c])
  BY DEF Alike
<1> QED
  BY <1>1, <1>2, <1>3, <1>4 DEF Prompted

\* Some short outputs.
LEMMA SaidTyped ==
    /\ << >> \in Seq(Pieces) /\ Len(<< >>) = 0
    /\ <<"prompt">> \in Seq(Pieces) /\ Len(<<"prompt">>) = 1
    /\ <<"line", "prompt">> \in Seq(Pieces)
<1>1. "prompt" \in Pieces /\ "line" \in Pieces
  BY DEF Pieces
<1> QED
  BY <1>1

\* What an interrupt byte makes the board say.
LEMMA InterruptedTyped ==
    ASSUME NEW at \in Places
    PROVE  /\ Interrupted(at).dut \in Places
           /\ Interrupted(at).says \in Seq(Pieces)
           /\ Interrupted(at).keep \in BOOLEAN
<1>1. CASE at = "prompt"
  <2>1. Interrupted(at) = [dut |-> "prompt", says |-> <<"line", "prompt">>, keep |-> FALSE]
    BY <1>1 DEF Interrupted
  <2> QED
    BY <2>1, SaidTyped DEF Places
<1>2. CASE at = "auto"
  <2>1. Interrupted(at) = [dut |-> "prompt", says |-> <<"prompt">>, keep |-> FALSE]
    BY <1>2 DEF Interrupted
  <2> QED
    BY <2>1, SaidTyped DEF Places
<1>3. CASE at = "linux"
  <2>1. Interrupted(at) = [dut |-> "linux", says |-> << >>, keep |-> FALSE]
    BY <1>3 DEF Interrupted
  <2> QED
    BY <2>1, SaidTyped DEF Places
<1>4. CASE at \in {"rom", "spl"}
  <2>1. Interrupted(at) = [dut |-> at, says |-> << >>, keep |-> TRUE]
    BY <1>4 DEF Interrupted
  <2> QED
    BY <1>4, <2>1, SaidTyped DEF Places
<1> QED
  BY <1>1, <1>2, <1>3, <1>4 DEF Places

\* An end of a call.
LEMMA EndTyped ==
    ASSUME NEW f \in Table, NEW c \in Callers, NEW r \in {"none", "ok", "failed"}
    PROVE  [f EXCEPT ![c].at = "idle", ![c].result = r] \in Table
<1> DEFINE k == [f[c] EXCEPT !.at = "idle", !.result = r]
<1>1. f[c] \in CallState
  BY DEF Table
<1>2. k \in CallState
  BY <1>1 DEF CallState
<1>3. [f EXCEPT ![c].at = "idle", ![c].result = r] = [f EXCEPT ![c] = k]
  BY DEF Table
<1> HIDE DEF k
<1> QED
  BY <1>2, <1>3, PutTyped

\* Another attempt, while there is one left.
LEMMA RetryTyped ==
    ASSUME UbootAssumption, NEW f \in Table, NEW c \in Callers, f[c].attempt # MaxAttempts
    PROVE  [f EXCEPT ![c].at = "attempt", ![c].attempt = @ + 1] \in Table
<1>1. f[c] \in CallState /\ f[c].attempt \in 1..MaxAttempts
  BY DEF Table, CallState
<1>2. f[c].attempt + 1 \in 1..MaxAttempts
  <2> DEFINE n == f[c].attempt
  <2>1. n \in 1..MaxAttempts /\ n # MaxAttempts /\ MaxAttempts \in Nat
    BY <1>1 DEF UbootAssumption
  <2> HIDE DEF n
  <2>2. n + 1 \in 1..MaxAttempts
    BY <2>1
  <2> QED
    BY <2>2 DEF n
<1> DEFINE n == f[c].attempt + 1
           k == [f[c] EXCEPT !.at = "attempt", !.attempt = n]
<1>3. n \in 1..MaxAttempts
  BY <1>2
<1> HIDE DEF n
<1>4. k \in CallState
  BY <1>1, <1>3 DEF CallState
<1>5. [f EXCEPT ![c].at = "attempt", ![c].attempt = @ + 1] = [f EXCEPT ![c] = k]
  BY <1>1 DEF Table, n
<1> HIDE DEF k
<1> QED
  BY <1>4, <1>5, PutTyped

\* One round more, while there is one left.
LEMMA RoundTyped ==
    ASSUME UbootAssumption, NEW f \in Table, NEW c \in Callers,
           f[c].rounds < MaxRounds, NEW b \in BOOLEAN
    PROVE  [f EXCEPT ![c].rounds = @ + 1, ![c].interrupted = b] \in Table
<1>1. f[c] \in CallState /\ f[c].rounds \in 0..MaxRounds
  BY DEF Table, CallState
<1>2. f[c].rounds + 1 \in 0..MaxRounds
  <2> DEFINE n == f[c].rounds
  <2>1. n \in 0..MaxRounds /\ n < MaxRounds /\ MaxRounds \in Nat
    BY <1>1 DEF UbootAssumption
  <2> HIDE DEF n
  <2>2. n + 1 \in 0..MaxRounds
    BY <2>1
  <2> QED
    BY <2>2 DEF n
<1> DEFINE n == f[c].rounds + 1
           k == [f[c] EXCEPT !.rounds = n, !.interrupted = b]
<1>3. n \in 0..MaxRounds
  BY <1>2
<1> HIDE DEF n
<1>4. k \in CallState
  BY <1>1, <1>3 DEF CallState
<1>5. [f EXCEPT ![c].rounds = @ + 1, ![c].interrupted = b] = [f EXCEPT ![c] = k]
  BY <1>1 DEF Table, n
<1> HIDE DEF k
<1> QED
  BY <1>4, <1>5, PutTyped

\* The start of an attempt.
LEMMA SaveTyped ==
    ASSUME UbootAssumption, NEW f \in Table, NEW c \in Callers,
           NEW char \in {"default", "other"}, NEW s \in UbootStages
    PROVE  [f EXCEPT ![c].saved = char, ![c].matched = FALSE, ![c].interrupted = FALSE,
                     ![c].rounds = 0, ![c].prompted = FALSE, ![c].at = s] \in Table
<1>1. f[c] \in CallState /\ 0 \in 0..MaxRounds
  BY DEF Table, CallState, UbootAssumption
<1> DEFINE k == [f[c] EXCEPT !.saved = char, !.matched = FALSE, !.interrupted = FALSE,
                             !.rounds = 0, !.prompted = FALSE, !.at = s]
<1>2. k \in CallState
  BY <1>1 DEF CallState, UbootStages
<1>3. [f EXCEPT ![c].saved = char, ![c].matched = FALSE, ![c].interrupted = FALSE,
                ![c].rounds = 0, ![c].prompted = FALSE, ![c].at = s] = [f EXCEPT ![c] = k]
  BY DEF Table
<1> HIDE DEF k
<1> QED
  BY <1>2, <1>3, PutTyped

\* What a prompt that was looked for came to.
LEMMA MatchTyped ==
    ASSUME NEW f \in Table, NEW c \in Callers, NEW m \in BOOLEAN
    PROVE  [f EXCEPT ![c].at = "conclude", ![c].matched = m] \in Table
<1> DEFINE k == [f[c] EXCEPT !.at = "conclude", !.matched = m]
<1>1. f[c] \in CallState
  BY DEF Table
<1>2. k \in CallState
  BY <1>1 DEF CallState
<1>3. [f EXCEPT ![c].at = "conclude", ![c].matched = m] = [f EXCEPT ![c] = k]
  BY DEF Table
<1> HIDE DEF k
<1> QED
  BY <1>2, <1>3, PutTyped

\* The board was restarted.
LEMMA UnpromptedTyped ==
    ASSUME NEW f \in Table, NEW c \in Callers
    PROVE  [f EXCEPT ![c].prompted = FALSE] \in Table
<1> DEFINE k == [f[c] EXCEPT !.prompted = FALSE]
<1>1. f[c] \in CallState
  BY DEF Table
<1>2. k \in CallState
  BY <1>1 DEF CallState
<1>3. [f EXCEPT ![c].prompted = FALSE] = [f EXCEPT ![c] = k]
  BY DEF Table
<1> HIDE DEF k
<1> QED
  BY <1>2, <1>3, PutTyped

\* The record of a caller that does not call.
LEMMA NoCallTyped ==
    ASSUME UbootAssumption
    PROVE  NoCall \in CallState
BY UbootAssumption DEF CallState, NoCall

-----------------------------------------------------------------------------
(* Types.                                                                  *)

\* Every step keeps the table of calls well formed: no attempt past the last one.
LEMMA CallsTyped ==
    ASSUME UbootAssumption, call \in Table, intChar \in {"default", "other"},
           UbootNext
    PROVE  call' \in Table
<1>0. \A c \in Callers : call[c] \in CallState
  BY DEF Table
<1>1. CASE Boots
  BY <1>1, PromptedKeeps DEF Boots
<1>2. CASE ReadPiece
  BY <1>2 DEF ReadPiece
<1>3. ASSUME NEW c \in Callers,
             NEW restart \in {"hardware", "software", "none"},
             NEW strategy \in {"flood", "pattern"}, NEW char \in {"default", "other"},
             CallUboot(c, restart, strategy, char)
      PROVE  call' \in Table
  <2> DEFINE k == [NoCall EXCEPT !.at = "attempt", !.restart = restart,
                                 !.strategy = strategy, !.char = char]
  <2>1. k \in CallState
    BY NoCallTyped, UbootAssumption DEF CallState, NoCall
  <2>2. call' = [call EXCEPT ![c] = k]
    BY <1>3 DEF CallUboot
  <2> HIDE DEF k
  <2> QED
    BY <2>1, <2>2, PutTyped
<1>4. ASSUME NEW c \in Callers, SaveChar(c) PROVE call' \in Table
  <2> DEFINE s == IF call[c].at = "attempt" /\ call[c].restart = "software"
                  THEN "reboot" ELSE "arm"
  <2>1. call' = [call EXCEPT ![c].saved = intChar, ![c].matched = FALSE,
                   ![c].interrupted = FALSE, ![c].rounds = 0,
                   ![c].prompted = FALSE, ![c].at = s]
    BY <1>4 DEF SaveChar, Table
  <2>2. s \in UbootStages
    BY DEF UbootStages
  <2> HIDE DEF s
  <2> QED
    BY <2>1, <2>2, SaveTyped
<1>5. ASSUME NEW c \in Callers, NEW s \in UbootStages, call' = Go(c, s) PROVE call' \in Table
  BY <1>5, GoTyped DEF Go
<1>6. ASSUME NEW c \in Callers, NEW r \in {"ok", "failed"}, call' = GiveBack(c, r)
      PROVE  call' \in Table
  BY <1>6, EndTyped DEF GiveBack
<1>7. ASSUME NEW c \in Callers, SendReboot(c) PROVE call' \in Table
  BY <1>5, <1>7 DEF SendReboot, UbootStages
<1>8. ASSUME NEW c \in Callers, Undelivered(c) PROVE call' \in Table
  BY <1>6, <1>8 DEF Undelivered
<1>9. ASSUME NEW c \in Callers, SplSeen(c) PROVE call' \in Table
  BY <1>5, <1>9 DEF SplSeen, UbootStages
<1>10. ASSUME NEW c \in Callers, Arm(c) PROVE call' \in Table
  <2> DEFINE go == Go(c, "rounds")
  <2>1. go \in Table
    BY GoTyped DEF Go, UbootStages
  <2>2. CASE call' = GiveBack(c, "failed")
    BY <2>2, <1>6
  <2> HIDE DEF go
  <2>3. CASE call' = Prompted(go, dut)
    BY <2>1, <2>3, PromptedKeeps
  <2>4. CASE call' = [go EXCEPT ![c].prompted = FALSE]
    BY <2>1, <2>4, UnpromptedTyped
  <2> QED
    BY <1>10, <2>2, <2>3, <2>4 DEF Arm, go
<1>11. ASSUME NEW c \in Callers, Round(c) PROVE call' \in Table
  <2> DEFINE d == [call EXCEPT ![c].rounds = @ + 1, ![c].interrupted = TRUE]
             e == [call EXCEPT ![c].rounds = @ + 1]
             b == call[c].interrupted
             g == [call EXCEPT ![c].rounds = @ + 1, ![c].interrupted = b]
  <2>1. call[c].rounds < MaxRounds /\ b \in BOOLEAN
    BY <1>11, <1>0 DEF Round, CallState
  <2>2. d \in Table
    BY <2>1, RoundTyped
  <2>3. g \in Table
    <3> HIDE DEF b
    <3> QED
      BY <2>1, RoundTyped
  <2>4. e = g
    BY <1>0 DEF Table, CallState
  <2> HIDE DEF d, e
  <2>5. call' = e \/ call' = Prompted(d, Interrupted(dut).dut)
    BY <1>11 DEF Round, d, e
  <2> QED
    BY <2>2, <2>3, <2>4, <2>5, PromptedKeeps
<1>12. ASSUME NEW c \in Callers, PromptSeen(c) PROVE call' \in Table
  BY <1>12, MatchTyped DEF PromptSeen
<1>13. ASSUME NEW c \in Callers, NoPrompt(c) PROVE call' \in Table
  BY <1>5, <1>13 DEF NoPrompt, UbootStages
<1>14. ASSUME NEW c \in Callers, EchoNonce(c) PROVE call' \in Table
  BY <1>5, <1>14 DEF EchoNonce, UbootStages
<1>15. ASSUME NEW c \in Callers, NonceOver(c) PROVE call' \in Table
  <2> DEFINE m == Watch(c, c) \in mail
  <2>1. m \in BOOLEAN /\ call' = [call EXCEPT ![c].at = "conclude", ![c].matched = m]
    BY <1>15 DEF NonceOver
  <2> HIDE DEF m
  <2> QED
    BY <2>1, MatchTyped
<1>16. ASSUME NEW c \in Callers, Conclude(c) PROVE call' \in Table
  BY <1>5, <1>16 DEF Conclude, UbootStages
<1>17. ASSUME NEW c \in Callers, RestoreChar(c) PROVE call' \in Table
  <2>1. CASE call' = [Go(c, "attempt") EXCEPT ![c].attempt = @ + 1]
             /\ call[c].attempt # MaxAttempts
    <3>1. call' = [call EXCEPT ![c].at = "attempt", ![c].attempt = @ + 1]
      BY <2>1 DEF Go, Table
    <3> QED
      BY <2>1, <3>1, RetryTyped
  <2> QED
    BY <1>6, <1>17, <2>1 DEF RestoreChar
<1> QED
  BY <1>1, <1>2, <1>3, <1>4, <1>7, <1>8, <1>9, <1>10, <1>11, <1>12, <1>13, <1>14,
     <1>15, <1>16, <1>17 DEF UbootNext

\* What is on its way from the board stays within the bound.
LEMMA OutTyped ==
    ASSUME UbootTypeOK, UbootAssumption, UbootNext
    PROVE  /\ dut' \in Places
           /\ out' \in Seq(Pieces) /\ Len(out') <= OutCap
           /\ fifo' \in BOOLEAN /\ stale' \in BOOLEAN
<1>1. /\ dut \in Places /\ out \in Seq(Pieces) /\ Len(out) <= OutCap
      /\ fifo \in BOOLEAN /\ stale \in BOOLEAN /\ OutCap \in Nat
  BY UbootAssumption DEF UbootTypeOK, Places, Pieces
<1>2. ASSUME NEW s \in Seq(Pieces), Len(out) + Len(s) <= OutCap, out' = out \o s
      PROVE  out' \in Seq(Pieces) /\ Len(out') <= OutCap
  BY <1>1, <1>2
<1>3. CASE UNCHANGED <<dut, out, fifo, stale>>
  BY <1>1, <1>3
<1>4. CASE Boots
  <2>1. PICK move \in {<<"rom", <<"spl">>, "spl">>, <<"spl", <<"marker">>, "auto">>,
                       <<"auto", <<"line">>, "linux">>} :
          /\ Len(out) + Len(move[2]) <= OutCap
          /\ IF move[3] = "auto" /\ fifo
             THEN dut' = "prompt" /\ fifo' = FALSE /\ out' = out \o <<"prompt">>
             ELSE dut' = move[3] /\ out' = out \o move[2] /\ UNCHANGED fifo
    BY <1>4 DEF Boots
  <2>2. move[3] \in Places /\ move[2] \in Seq(Pieces) /\ Len(move[2]) = 1
    <3>1. CASE move = <<"rom", <<"spl">>, "spl">>
      BY <3>1 DEF Places, Pieces
    <3>2. CASE move = <<"spl", <<"marker">>, "auto">>
      BY <3>2 DEF Places, Pieces
    <3>3. CASE move = <<"auto", <<"line">>, "linux">>
      BY <3>3 DEF Places, Pieces
    <3> QED
      BY <3>1, <3>2, <3>3
  <2>3. <<"prompt">> \in Seq(Pieces) /\ Len(<<"prompt">>) = 1
    BY DEF Pieces
  <2>4. stale' = stale
    BY <1>4 DEF Boots
  <2>5. "prompt" \in Places
    BY DEF Places
  <2> QED
    BY <1>1, <1>2, <2>1, <2>2, <2>3, <2>4, <2>5
<1>5. CASE ReadPiece
  <2>1. out # <<>> /\ out' = Tail(out) /\ UNCHANGED <<dut, fifo>> /\ stale' \in BOOLEAN
    BY <1>5 DEF ReadPiece
  <2> QED
    BY <1>1, <2>1
<1>6. ASSUME NEW c \in Callers, SendReboot(c)
      PROVE  /\ dut' \in Places
             /\ out' \in Seq(Pieces) /\ Len(out') <= OutCap
             /\ fifo' \in BOOLEAN /\ stale' \in BOOLEAN
  <2>1. dut' \in Places /\ UNCHANGED <<fifo, stale>>
    BY <1>1, <1>6 DEF SendReboot, Places
  <2>2. \/ Len(out) < OutCap /\ out' = Append(out, "line")
        \/ out' = out
    BY <1>6 DEF SendReboot
  <2>3. "line" \in Pieces
    BY DEF Pieces
  <2> QED
    BY <1>1, <2>1, <2>2, <2>3
<1>7. ASSUME NEW c \in Callers, Arm(c)
      PROVE  /\ dut' \in Places
             /\ out' \in Seq(Pieces) /\ Len(out') <= OutCap
             /\ fifo' \in BOOLEAN /\ stale' \in BOOLEAN
  <2> DEFINE primed == IF call[c].strategy = "flood" THEN Interrupted(dut).says ELSE <<>>
  <2>1. primed \in Seq(Pieces)
    BY <1>1, InterruptedTyped
  <2>2. stale' = stale
    BY <1>7 DEF Arm
  <2>3. \/ UNCHANGED <<dut, fifo, out>>
        \/ /\ Len(out) + Len(primed) <= OutCap /\ out' = out \o primed
           /\ dut' = "rom" /\ fifo' \in BOOLEAN
    BY <1>7 DEF Arm
  <2>4. "rom" \in Places
    BY DEF Places
  <2> HIDE DEF primed
  <2> QED
    BY <1>1, <1>2, <2>1, <2>2, <2>3, <2>4
<1>8. ASSUME NEW c \in Callers, Round(c)
      PROVE  /\ dut' \in Places
             /\ out' \in Seq(Pieces) /\ Len(out') <= OutCap
             /\ fifo' \in BOOLEAN /\ stale' \in BOOLEAN
  <2> DEFINE hit == Interrupted(dut)
  <2>1. hit.dut \in Places /\ hit.says \in Seq(Pieces) /\ hit.keep \in BOOLEAN
    BY <1>1, InterruptedTyped
  <2>2. stale' = stale
    BY <1>8 DEF Round
  <2>3. \/ UNCHANGED <<dut, fifo, out>>
        \/ /\ Len(out) + Len(hit.says) <= OutCap /\ out' = out \o hit.says
           /\ dut' = hit.dut /\ fifo' = (fifo \/ hit.keep)
    BY <1>8 DEF Round, SendInterrupt
  <2> HIDE DEF hit
  <2> QED
    BY <1>1, <1>2, <2>1, <2>2, <2>3
<1>9. ASSUME NEW c \in Callers, EchoNonce(c)
      PROVE  /\ dut' \in Places
             /\ out' \in Seq(Pieces) /\ Len(out') <= OutCap
             /\ fifo' \in BOOLEAN /\ stale' \in BOOLEAN
  <2>1. UNCHANGED <<dut, fifo, stale>> /\ Len(out) < OutCap
    BY <1>9 DEF EchoNonce
  <2>2. out' = out \o <<c>> \/ out' = out \o << >>
    BY <1>9 DEF EchoNonce, Said
  <2>3. <<c>> \in Seq(Pieces) /\ << >> \in Seq(Pieces) /\ Len(<<c>>) = 1 /\ Len(<< >>) = 0
    BY DEF Pieces
  <2>4. /\ Len(out) + Len(<<c>>) <= OutCap
        /\ Len(out) + Len(<< >>) <= OutCap
    BY <1>1, <2>1, <2>3
  <2>5. out' \in Seq(Pieces) /\ Len(out') <= OutCap
    BY <1>2, <2>2, <2>3, <2>4
  <2> QED
    BY <1>1, <2>1, <2>5
<1> QED
  BY <1>3, <1>4, <1>5, <1>6, <1>7, <1>8, <1>9
     DEF UbootNext, CallUboot, SaveChar, Undelivered, SplSeen, PromptSeen, NoPrompt,
         NonceOver, Conclude, RestoreChar

\* Watchers, matches and the interrupt byte.
LEMMA WatchersTyped ==
    ASSUME UbootTypeOK, UbootNext
    PROVE  /\ watchers' \subseteq Watchers /\ mail' \subseteq Watchers
           /\ intChar' \in {"default", "other"}
<1>1. /\ watchers \subseteq Watchers /\ mail \subseteq Watchers
      /\ intChar \in {"default", "other"}
  BY DEF UbootTypeOK
<1>2. \A c \in Callers : \A p \in Patterns : Watch(c, p) \in Watchers
  BY DEF Watch, Watchers
<1>3. {"spl", "marker", "prompt"} \subseteq Patterns /\ Callers \subseteq Patterns
  BY DEF Patterns
<1>4. \A c \in Callers : call[c].saved \in {"default", "other"}
                         /\ call[c].char \in {"default", "other"}
  BY DEF UbootTypeOK, CallState
<1>5. \A c \in Callers : Armings(c) \subseteq Watchers
  BY <1>1, <1>2, <1>3 DEF Armings
<1>6. CASE ReadPiece
  BY <1>1, <1>6 DEF ReadPiece
<1>7. ASSUME NEW c \in Callers,
             \/ SaveChar(c) \/ SendReboot(c) \/ Undelivered(c) \/ SplSeen(c) \/ Arm(c)
             \/ EchoNonce(c) \/ NonceOver(c) \/ Conclude(c) \/ RestoreChar(c)
      PROVE  /\ watchers' \subseteq Watchers /\ mail' \subseteq Watchers
             /\ intChar' \in {"default", "other"}
  BY <1>1, <1>2, <1>3, <1>4, <1>5, <1>7
     DEF SaveChar, SendReboot, Undelivered, SplSeen, Arm, EchoNonce, NonceOver, Conclude,
         RestoreChar, Without
<1>8. CASE UNCHANGED <<watchers, mail, intChar>>
  BY <1>1, <1>8
<1> QED
  BY <1>6, <1>7, <1>8 DEF UbootNext, Boots, CallUboot, Round, PromptSeen, NoPrompt

\* The types hold at first.
LEMMA UbootTypeInit == UbootInit => UbootTypeOK
<1> SUFFICES ASSUME UbootInit PROVE UbootTypeOK
  OBVIOUS
<1>1. call \in Table
  BY UbootAssumption, NoCallTyped DEF UbootInit, Table
<1>2. out \in Seq(Pieces) /\ Len(out) <= OutCap
  <2>1. OutCap \in Nat /\ OutCap >= 1
    BY UbootAssumption
  <2>2. out = <<"prompt">> \/ out = << >>
    BY DEF UbootInit
  <2> QED
    <3>1. CASE out = <<"prompt">>
      BY <2>1, <3>1, SaidTyped
    <3>2. CASE out = << >>
      BY <2>1, <3>2, SaidTyped
    <3> QED
      BY <2>2, <3>1, <3>2
<1> QED
  BY <1>1, <1>2 DEF UbootInit, UbootTypeOK, Table, Pieces

\* Every step keeps the types.
LEMMA UbootTypeNext == UbootTypeOK /\ [UbootNext]_ubootVars => UbootTypeOK'
<1> SUFFICES ASSUME UbootTypeOK, [UbootNext]_ubootVars PROVE UbootTypeOK'
  OBVIOUS
<1>1. CASE UNCHANGED ubootVars
  BY <1>1 DEF ubootVars, UbootTypeOK
<1>2. CASE UbootNext
  <2>1. call \in Table /\ intChar \in {"default", "other"}
    BY DEF UbootTypeOK, Table
  <2>2. call' \in Table
    BY <1>2, <2>1, CallsTyped, UbootAssumption
  <2> QED
    BY <1>2, <2>2, OutTyped, WatchersTyped, UbootAssumption
       DEF UbootTypeOK, Table, Places, Pieces
<1> QED
  BY <1>1, <1>2

-----------------------------------------------------------------------------
(* Watchers and the interrupt byte.                                        *)

\* A step of c: where it is then, what it keeps, and what the others keep.
Keeps(c, s) ==
    /\ \A e \in Callers \ {c} : Alike(call'[e], call[e])
    /\ call'[c].at = s
    /\ call'[c].strategy = call[c].strategy
    /\ call'[c].saved = call[c].saved

\* Go changes the stage of one call.
LEMMA GoKeeps ==
    ASSUME call \in Table, NEW c \in Callers, NEW s, call' = Go(c, s)
    PROVE  Keeps(c, s)
BY DEF Keeps, Alike, Go, Table, CallState

\* GiveBack ends one call.
LEMMA EndKeeps ==
    ASSUME call \in Table, NEW c \in Callers, NEW r, call' = GiveBack(c, r)
    PROVE  Keeps(c, "idle")
BY DEF Keeps, Alike, GiveBack, Table, CallState

\* Where each step takes its call.
LEMMA ReachKeeps ==
    ASSUME call \in Table, NEW c \in Callers
    PROVE  /\ SendReboot(c) => Keeps(c, "spl") \/ Keeps(c, "undelivered")
           /\ Undelivered(c) => Keeps(c, "idle")
           /\ SplSeen(c) => Keeps(c, "arm")
           /\ Conclude(c) => Keeps(c, "restore")
           /\ EchoNonce(c) => Keeps(c, "echo")
           /\ NoPrompt(c) => \/ Keeps(c, "grace") /\ At(c, "rounds")
                             \/ Keeps(c, "nonce") /\ At(c, "grace")
BY GoKeeps, EndKeeps DEF SendReboot, Undelivered, SplSeen, Conclude, EchoNonce, NoPrompt

\* A prompt seen, or the nonce over, leads to the conclusion.
LEMMA MatchKeeps ==
    ASSUME call \in Table, NEW c \in Callers, PromptSeen(c) \/ NonceOver(c)
    PROVE  Keeps(c, "conclude")
<1>1. PICK m : call' = [call EXCEPT ![c].at = "conclude", ![c].matched = m]
  BY DEF PromptSeen, NonceOver
<1> QED
  BY <1>1 DEF Keeps, Alike, Table, CallState

\* After the byte is restored the call is over or starts again.
LEMMA RestoreKeeps ==
    ASSUME call \in Table, NEW c \in Callers, RestoreChar(c)
    PROVE  Keeps(c, "idle") \/ Keeps(c, "attempt")
<1>1. CASE call' = [Go(c, "attempt") EXCEPT ![c].attempt = @ + 1]
  BY <1>1 DEF Keeps, Alike, Go, Table, CallState
<1> QED
  BY <1>1, EndKeeps DEF RestoreChar

\* A reset either fails, and the call ends with its byte restored, or leads to
\* the rounds with the watchers registered.
LEMMA ArmKeeps ==
    ASSUME call \in Table, NEW c \in Callers, Arm(c)
    PROVE  \/ Keeps(c, "idle") /\ intChar' = call[c].saved /\ watchers' \subseteq watchers
           \/ Keeps(c, "rounds") /\ intChar' = intChar /\ watchers' = Armings(c)
<1> DEFINE go == Go(c, "rounds")
<1>1. go \in Table /\ go[c].at = "rounds" /\ go[c].strategy = call[c].strategy
      /\ go[c].saved = call[c].saved /\ \A e \in Callers \ {c} : go[e] = call[e]
  <2>1. go \in Table
    BY GoTyped DEF Go, UbootStages
  <2> QED
    BY <2>1 DEF Go, Table, CallState
<1> HIDE DEF go
<1>2. ASSUME call' = Prompted(go, dut) PROVE Keeps(c, "rounds")
  BY <1>1, <1>2, PromptedKeeps DEF Keeps, Alike
<1>3. ASSUME call' = [go EXCEPT ![c].prompted = FALSE] PROVE Keeps(c, "rounds")
  BY <1>1, <1>3 DEF Keeps, Alike, Table, CallState
<1>4. \/ call' = GiveBack(c, "failed") /\ intChar' = call[c].saved /\ watchers' \subseteq watchers
      \/ /\ call' = Prompted(go, dut) \/ call' = [go EXCEPT ![c].prompted = FALSE]
         /\ intChar' = intChar /\ watchers' = Armings(c)
  BY DEF Arm, Without, go
<1>5. call' = GiveBack(c, "failed") => Keeps(c, "idle")
  BY EndKeeps
<1> QED
  BY <1>2, <1>3, <1>4, <1>5

\* A round changes only counters and history.
LEMMA RoundKeeps ==
    ASSUME call \in Table, UbootAssumption, NEW c \in Callers, Round(c)
    PROVE  \A e \in Callers : Alike(call'[e], call[e])
<1> DEFINE d == [call EXCEPT ![c].rounds = @ + 1, ![c].interrupted = TRUE]
           e0 == [call EXCEPT ![c].rounds = @ + 1]
<1>1. d \in Table
  BY RoundTyped DEF Round
<1>2. \A e \in Callers : Alike(d[e], call[e]) /\ Alike(e0[e], call[e])
  BY DEF Alike, Table, CallState
<1> HIDE DEF d, e0
<1>3. call' = e0 \/ call' = Prompted(d, Interrupted(dut).dut)
  BY DEF Round, d, e0
<1>4. \A e \in Callers : Alike(Prompted(d, Interrupted(dut).dut)[e], d[e])
  BY <1>1, PromptedKeeps
<1> QED
  BY <1>2, <1>3, <1>4 DEF Alike

\* An attempt keeps the byte it finds.
LEMMA SaveKeeps ==
    ASSUME call \in Table, NEW c \in Callers, SaveChar(c)
    PROVE  /\ \A e \in Callers \ {c} : Alike(call'[e], call[e])
           /\ call'[c].at \in {"reboot", "arm"}
           /\ call'[c].saved = intChar
<1> DEFINE s == IF call[c].at = "attempt" /\ call[c].restart = "software"
                THEN "reboot" ELSE "arm"
<1>1. call' = [call EXCEPT ![c].saved = intChar, ![c].matched = FALSE,
                 ![c].interrupted = FALSE, ![c].rounds = 0,
                 ![c].prompted = FALSE, ![c].at = s]
  BY DEF SaveChar, Table
<1>2. s \in {"reboot", "arm"}
  OBVIOUS
<1> HIDE DEF s
<1> QED
  BY <1>1, <1>2 DEF Alike, Table, CallState

\* A call starts at its first attempt.
LEMMA StartKeeps ==
    ASSUME call \in Table, NEW c \in Callers, NEW restart, NEW strategy, NEW char,
           CallUboot(c, restart, strategy, char)
    PROVE  /\ \A e \in Callers \ {c} : Alike(call'[e], call[e])
           /\ call'[c].at = "attempt"
BY DEF CallUboot, Alike, Table, CallState, NoCall

\* What is waited for depends on the stage and the strategy.
LEMMA AwaitedAlike ==
    ASSUME NEW c, NEW k, NEW l, Alike(k, l)
    PROVE  Awaited(c, k) = Awaited(c, l)
BY DEF Alike, Awaited

\* Watchers are its owner's: c's step is judged by c's watchers alone.
LEMMA OwnedBy ==
    ASSUME WatchersOwned, watchers \subseteq Watchers, NEW c \in Callers,
           \A e \in Callers \ {c} : Alike(call'[e], call[e]),
           \A w \in watchers' : w.by # c => w \in watchers,
           \A w \in watchers' : w.by = c => w.what \in Awaited(c, call'[c])
    PROVE  WatchersOwned'
<1> SUFFICES ASSUME NEW w \in watchers' PROVE w.what \in Awaited(w.by, call'[w.by])
  BY DEF WatchersOwned
<1>1. CASE w.by = c
  BY <1>1
<1>2. CASE w.by # c
  <2>1. w \in watchers /\ w.by \in Callers \ {c}
    BY <1>2 DEF Watchers
  <2>2. Awaited(w.by, call'[w.by]) = Awaited(w.by, call[w.by])
    BY <2>1, AwaitedAlike
  <2> QED
    BY <2>1, <2>2 DEF WatchersOwned
<1> QED
  BY <1>1, <1>2

\* Nothing but watchers may have gone.
LEMMA OwnedStays ==
    ASSUME WatchersOwned, watchers \subseteq Watchers, watchers' \subseteq watchers,
           \A e \in Callers : Alike(call'[e], call[e])
    PROVE  WatchersOwned'
<1> SUFFICES ASSUME NEW w \in watchers' PROVE w.what \in Awaited(w.by, call'[w.by])
  BY DEF WatchersOwned
<1>1. w \in watchers /\ w.by \in Callers
  BY DEF Watchers
<1>2. Awaited(w.by, call'[w.by]) = Awaited(w.by, call[w.by])
  BY <1>1, AwaitedAlike
<1> QED
  BY <1>1, <1>2 DEF WatchersOwned

\* The watchers of c at each of its steps.
LEMMA OwnedNext ==
    ASSUME UbootTypeOK, UbootAssumption, WatchersOwned, UbootNext
    PROVE  WatchersOwned'
<1>0. call \in Table /\ watchers \subseteq Watchers
  BY DEF UbootTypeOK, Table
<1>1. \A e \in Callers : Alike(call[e], call[e])
  BY DEF Alike
<1>2. ASSUME NEW c \in Callers, NEW w \in watchers, w.by = c
      PROVE  w.what \in Awaited(c, call[c])
  BY <1>2 DEF WatchersOwned
<1>3. CASE Boots
  BY <1>0, <1>1, <1>3, PromptedKeeps, OwnedStays DEF Boots
<1>4. CASE ReadPiece
  BY <1>0, <1>1, <1>4, OwnedStays DEF ReadPiece
<1>5. ASSUME NEW c \in Callers,
             NEW restart \in {"hardware", "software", "none"},
             NEW strategy \in {"flood", "pattern"}, NEW char \in {"default", "other"},
             CallUboot(c, restart, strategy, char)
      PROVE  WatchersOwned'
  <2>1. /\ \A e \in Callers \ {c} : Alike(call'[e], call[e])
        /\ watchers' = watchers /\ call[c].at = "idle"
    BY <1>0, <1>5, StartKeeps DEF CallUboot, At
  <2>2. \A w \in watchers : w.by # c
    BY <1>2, <2>1 DEF Awaited
  <2> QED
    BY <1>0, <2>1, <2>2, OwnedBy
<1>6. ASSUME NEW c \in Callers, SaveChar(c) PROVE WatchersOwned'
  <2>1. /\ \A e \in Callers \ {c} : Alike(call'[e], call[e])
        /\ watchers' = watchers /\ call[c].at = "attempt"
    BY <1>0, <1>6, SaveKeeps DEF SaveChar, At
  <2>2. \A w \in watchers : w.by # c
    BY <1>2, <2>1 DEF Awaited
  <2> QED
    BY <1>0, <2>1, <2>2, OwnedBy
<1>7. ASSUME NEW c \in Callers, SendReboot(c) PROVE WatchersOwned'
  <2>1. /\ Keeps(c, "spl") \/ Keeps(c, "undelivered")
        /\ watchers' = watchers \cup {Watch(c, "spl")} /\ call[c].at = "reboot"
    BY <1>0, <1>7, ReachKeeps DEF SendReboot, At
  <2>2. \A w \in watchers : w.by # c
    BY <1>2, <2>1 DEF Awaited
  <2>3. Awaited(c, call'[c]) = {"spl"}
    BY <2>1 DEF Keeps, Awaited
  <2>4. Watch(c, "spl").by = c /\ Watch(c, "spl").what = "spl"
    BY DEF Watch
  <2> QED
    BY <1>0, <2>1, <2>2, <2>3, <2>4, OwnedBy DEF Keeps
<1>8. ASSUME NEW c \in Callers, Undelivered(c) \/ SplSeen(c) PROVE WatchersOwned'
  <2>0. PICK s \in {"idle", "arm"} : Keeps(c, s)
    BY <1>0, <1>8, ReachKeeps
  <2>1. /\ call[c].at \in {"undelivered", "spl"}
        /\ watchers' = {w \in watchers : w.what \notin {"spl"}}
    BY <1>8 DEF Undelivered, SplSeen, At, Without
  <2>2. \A w \in watchers : w.by = c => w.what = "spl"
    BY <1>2, <2>1 DEF Awaited
  <2> QED
    BY <1>0, <2>0, <2>1, <2>2, OwnedBy DEF Keeps
<1>9. ASSUME NEW c \in Callers, Arm(c) PROVE WatchersOwned'
  <2>1. call[c].at = "arm"
    BY <1>9 DEF Arm, At
  <2>2. \A w \in watchers : w.by # c
    BY <1>2, <2>1 DEF Awaited
  <2>3. CASE Keeps(c, "idle") /\ watchers' \subseteq watchers
    BY <1>0, <2>2, <2>3, OwnedBy DEF Keeps
  <2>4. CASE Keeps(c, "rounds") /\ watchers' = Armings(c)
    <3>1. \A w \in watchers' : w.by # c => w \in watchers
      BY <2>4 DEF Armings, Watch
    <3>2. \A w \in watchers' : w.by = c => w.what \in Awaited(c, call'[c])
      BY <2>2, <2>4 DEF Armings, Watch, Awaited, Keeps
    <3> QED
      BY <1>0, <2>4, <3>1, <3>2, OwnedBy DEF Keeps
  <2> QED
    BY <1>0, <1>9, <2>3, <2>4, ArmKeeps
<1>10. ASSUME NEW c \in Callers, Round(c) PROVE WatchersOwned'
  BY <1>0, <1>10, RoundKeeps, OwnedStays DEF Round
<1>11. ASSUME NEW c \in Callers, PromptSeen(c) \/ NoPrompt(c) PROVE WatchersOwned'
  <2>1. PICK s \in {"grace", "nonce", "conclude"} : Keeps(c, s)
    BY <1>0, <1>11, MatchKeeps, ReachKeeps
  <2>2. call[c].at \in {"rounds", "grace"} /\ watchers' = watchers
    BY <1>11 DEF PromptSeen, NoPrompt, At
  <2>3. Awaited(c, call'[c]) = Awaited(c, call[c])
    BY <2>1, <2>2 DEF Keeps, Awaited
  <2> QED
    BY <1>0, <1>2, <2>1, <2>2, <2>3, OwnedBy DEF Keeps
<1>12. ASSUME NEW c \in Callers, EchoNonce(c) PROVE WatchersOwned'
  <2>1. Keeps(c, "echo") /\ call[c].at = "nonce" /\ watchers' = watchers \cup {Watch(c, c)}
    BY <1>0, <1>12, ReachKeeps DEF EchoNonce, At
  <2>2. Awaited(c, call'[c]) = Awaited(c, call[c]) \cup {c}
    BY <2>1 DEF Keeps, Awaited
  <2>3. Watch(c, c).by = c /\ Watch(c, c).what = c
    BY DEF Watch
  <2> QED
    BY <1>0, <1>2, <2>1, <2>2, <2>3, OwnedBy DEF Keeps
<1>13. ASSUME NEW c \in Callers, NonceOver(c) PROVE WatchersOwned'
  <2>1. /\ Keeps(c, "conclude") /\ call[c].at = "echo"
        /\ watchers' = {w \in watchers : w.what \notin {c}}
    BY <1>0, <1>13, MatchKeeps DEF NonceOver, At, Without
  <2>2. Awaited(c, call[c]) \ {c} \subseteq Awaited(c, call'[c])
    BY <2>1 DEF Keeps, Awaited
  <2> QED
    BY <1>0, <1>2, <2>1, <2>2, OwnedBy DEF Keeps
<1>14. ASSUME NEW c \in Callers, Conclude(c) PROVE WatchersOwned'
  <2> DEFINE mine == {"prompt"} \cup (IF call[c].strategy = "pattern" THEN {"marker"} ELSE {})
  <2>1. /\ Keeps(c, "restore") /\ call[c].at = "conclude"
        /\ watchers' = {w \in watchers : w.what \notin mine}
    BY <1>0, <1>14, ReachKeeps DEF Conclude, At, Without
  <2>2. Awaited(c, call[c]) \subseteq mine
    BY <2>1 DEF Awaited
  <2> HIDE DEF mine
  <2> QED
    BY <1>0, <1>2, <2>1, <2>2, OwnedBy DEF Keeps
<1>15. ASSUME NEW c \in Callers, RestoreChar(c) PROVE WatchersOwned'
  <2>1. /\ Keeps(c, "idle") \/ Keeps(c, "attempt")
        /\ call[c].at = "restore" /\ watchers' = watchers
    BY <1>0, <1>15, RestoreKeeps DEF RestoreChar, At
  <2>2. \A w \in watchers : w.by # c
    BY <1>2, <2>1 DEF Awaited
  <2> QED
    BY <1>0, <2>1, <2>2, OwnedBy DEF Keeps
<1> QED
  BY <1>3, <1>4, <1>5, <1>6, <1>7, <1>8, <1>9, <1>10, <1>11, <1>12, <1>13, <1>14, <1>15
     DEF UbootNext

\* One caller: the byte is the default unless its call keeps the default for it.
LEMMA CharNext ==
    ASSUME UbootTypeOK, UbootAssumption, CharOwned, UbootNext,
           NEW u, Callers = {u}
    PROVE  CharOwned'
<1> USE Callers = {u}
<1>0. call \in Table
  BY DEF UbootTypeOK, Table
<1>1. /\ call[u].at \in {"idle", "attempt"} => intChar = "default"
      /\ call[u].at \notin {"idle", "attempt"} => call[u].saved = "default"
  BY DEF CharOwned
<1>2. SUFFICES /\ call'[u].at \in {"idle", "attempt"} => intChar' = "default"
               /\ call'[u].at \notin {"idle", "attempt"} => call'[u].saved = "default"
  BY DEF CharOwned
<1>3. ASSUME Alike(call'[u], call[u]), intChar' = intChar
      PROVE  /\ call'[u].at \in {"idle", "attempt"} => intChar' = "default"
             /\ call'[u].at \notin {"idle", "attempt"} => call'[u].saved = "default"
  BY <1>1, <1>3 DEF Alike
<1>4. CASE Boots
  BY <1>0, <1>3, <1>4, PromptedKeeps DEF Boots, Alike
<1>5. CASE ReadPiece
  BY <1>3, <1>5 DEF ReadPiece, Alike
<1>6. ASSUME NEW restart \in {"hardware", "software", "none"},
             NEW strategy \in {"flood", "pattern"}, NEW char \in {"default", "other"},
             CallUboot(u, restart, strategy, char)
      PROVE  call'[u].at = "attempt" /\ intChar' = "default"
  BY <1>0, <1>1, <1>6, StartKeeps DEF CallUboot, At
<1>7. CASE SaveChar(u)
  BY <1>0, <1>1, <1>7, SaveKeeps DEF SaveChar, At
<1>8. CASE Round(u)
  BY <1>0, <1>3, <1>8, RoundKeeps DEF Round
<1>9. ASSUME NEW s \in {"spl", "undelivered", "arm", "restore", "echo", "grace",
                        "nonce", "conclude", "rounds"},
             Keeps(u, s), call[u].at \notin {"idle", "attempt"}
      PROVE  call'[u].at \notin {"idle", "attempt"} /\ call'[u].saved = "default"
  BY <1>1, <1>9 DEF Keeps
<1>10. ASSUME Keeps(u, "idle") \/ Keeps(u, "attempt"), intChar' = call[u].saved,
              call[u].at \notin {"idle", "attempt"}
       PROVE  call'[u].at \in {"idle", "attempt"} /\ intChar' = "default"
  BY <1>1, <1>10 DEF Keeps
<1>11. CASE \/ SendReboot(u) \/ SplSeen(u) \/ Conclude(u) \/ EchoNonce(u) \/ NoPrompt(u)
  <2>1. call[u].at \notin {"idle", "attempt"}
    BY <1>11 DEF SendReboot, SplSeen, Conclude, EchoNonce, NoPrompt, At
  <2> QED
    BY <1>0, <1>9, <1>11, <2>1, ReachKeeps
<1>12. CASE PromptSeen(u) \/ NonceOver(u)
  <2>1. call[u].at \notin {"idle", "attempt"}
    BY <1>12 DEF PromptSeen, NonceOver, At
  <2> QED
    BY <1>0, <1>9, <1>12, <2>1, MatchKeeps
<1>13. CASE Undelivered(u)
  BY <1>0, <1>10, <1>13, ReachKeeps DEF Undelivered, At
<1>14. CASE RestoreChar(u)
  BY <1>0, <1>10, <1>14, RestoreKeeps DEF RestoreChar, At
<1>15. CASE Arm(u)
  <2>1. call[u].at = "arm"
    BY <1>15 DEF Arm, At
  <2> QED
    BY <1>0, <1>9, <1>10, <1>15, <2>1, ArmKeeps
<1> QED
  BY <1>4, <1>5, <1>6, <1>7, <1>8, <1>11, <1>12, <1>13, <1>14, <1>15 DEF UbootNext

UbootInv == UbootTypeOK /\ WatchersOwned

\* The invariants hold at first.
LEMMA UbootInvInit == UbootInit => UbootInv /\ CharOwned
BY UbootTypeInit DEF UbootInv, UbootInit, WatchersOwned, CharOwned, NoCall

\* Every step keeps what holds for any callers.
LEMMA UbootInvNext == UbootInv /\ [UbootNext]_ubootVars => UbootInv'
<1>1. UbootInv /\ UNCHANGED ubootVars => WatchersOwned'
  BY DEF UbootInv, WatchersOwned, ubootVars
<1> QED
  BY <1>1, UbootTypeNext, OwnedNext, UbootAssumption DEF UbootInv

\* Every step keeps what holds for one caller.
LEMMA UbootCharNext ==
    ASSUME NEW u, Callers = {u}
    PROVE  UbootInv /\ CharOwned /\ [UbootNext]_ubootVars => (UbootInv /\ CharOwned)'
<1>1. CharOwned /\ UNCHANGED ubootVars => CharOwned'
  BY DEF CharOwned, ubootVars
<1> QED
  BY <1>1, UbootInvNext, CharNext, UbootAssumption DEF UbootInv

\* When no call runs, no watcher is left.
LEMMA NoWatcherLeft ==
    ASSUME UbootInv, \A c \in Callers : At(c, "idle")
    PROVE  watchers = {}
<1>1. \A w \in watchers : w.by \in Callers /\ w.what \in Awaited(w.by, call[w.by])
  BY DEF UbootInv, UbootTypeOK, WatchersOwned, Watchers
<1> QED
  BY <1>1 DEF At, Awaited

\* The board and the calls have their types.
THEOREM UbootTyped == UbootSpec => []UbootTypeOK
<1>1. UbootInv => UbootTypeOK
  BY DEF UbootInv
<1> QED
  BY <1>1, UbootInvInit, UbootInvNext, PTL DEF UbootSpec

\* For any agents that call at the same time, each of which may remove the
\* watchers of the others by their pattern: when no call runs, no watcher is left.
THEOREM NoWatcherStays ==
    UbootSpec => []((\A c \in Callers : At(c, "idle")) => watchers = {})
<1>1. UbootInv => ((\A c \in Callers : At(c, "idle")) => watchers = {})
  BY NoWatcherLeft
<1> QED
  BY <1>1, UbootInvInit, UbootInvNext, PTL DEF UbootSpec

\* When the calls come one after the other (there is one caller), none leaves a
\* watcher or an interrupt byte behind, however it ended and for every number of
\* attempts.  Two calls that overlap can: the second keeps the first one's byte as
\* the configured one.
THEOREM CallsLeaveNothing ==
    ASSUME NEW u, Callers = {u}
    PROVE  UbootSpec => []NothingLeftBehind
<1>1. UbootInv /\ CharOwned => NothingLeftBehind
  BY NoWatcherLeft DEF NothingLeftBehind, CharOwned, At
<1>2. UbootInv /\ CharOwned /\ [UbootNext]_ubootVars => (UbootInv /\ CharOwned)'
  BY UbootCharNext
<1> QED
  BY <1>1, <1>2, UbootInvInit, PTL DEF UbootSpec

-----------------------------------------------------------------------------
(* Side by side.                                                           *)

\* A behaviour of the two machines is a behaviour of each.
THEOREM DeviceIsBoth == DeviceSpec => RelaySpec /\ UbootSpec
<1>1. DeviceInit => RelayInit /\ UbootInit
  BY DEF DeviceInit
<1>2. [DeviceNext]_deviceVars => [RelayNext]_relayVars /\ [UbootNext]_ubootVars
  BY DEF DeviceNext, deviceVars
<1> QED
  BY <1>1, <1>2, PTL DEF DeviceSpec, RelaySpec, UbootSpec

\* The variables of both have their types.
THEOREM DeviceTyped == DeviceSpec => []DeviceTypeOK
<1>1. RelayTypeOK /\ UbootTypeOK => DeviceTypeOK
  BY DEF DeviceTypeOK
<1> QED
  BY <1>1, DeviceIsBoth, RelayTyped, UbootTyped, PTL
=============================================================================
