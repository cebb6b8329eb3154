----------------------------- MODULE BoardProofs -----------------------------
(***************************************************************************)
(* Proofs about TargetBoard, for every timeout, window, hysteresis and     *)
(* bound: no probe is scored twice or unsent, a silent board is declared   *)
(* off only after enough of them, and a crash is kept until something      *)
(* lifts it.                                                               *)
(*                                                                         *)
(* What the read loop, the detectors and the tools do to the engine does   *)
(* not matter to the heartbeat, which they clear or leave alone.  For the  *)
(* rest a read is a chain of folds: pieces into lines, lines into events,  *)
(* events into the state.  FoldLemmas gives each fold's steps; what each   *)
(* step keeps, the read keeps.                                             *)
(***************************************************************************)
EXTENDS TargetBoard, FoldLemmas

-----------------------------------------------------------------------------
(* The inductive invariant.                                                *)

Pieces == Prompts \cup Lines

BeatInv ==
    /\ beat \in Beats
    /\ wire \in Seq(Pieces)
    /\ MissesMatchProbes

\* A heartbeat of which every probe but the one in flight was scored.
Scored(b) == b \in Beats /\ b.missed + (IF b.probe = "flight" THEN 1 ELSE 0) = b.sent

\* The invariant in these terms.
LEMMA BeatInvIs == BeatInv <=> Scored(beat) /\ wire \in Seq(Pieces)
BY DEF BeatInv, Scored, MissesMatchProbes

Quiets == 0..(HangTimeout + 1)
Ages == 0..(ProbeWindow + 1)
ProbeStates == {"none", "wanted", "flight"}

\* A heartbeat is a record of these fields.
LEMMA BeatsIs ==
    /\ Beats = [quiet : Quiets, probe : ProbeStates, age : Ages,
                missed : Nat, sent : Nat]
    /\ 0 \in Quiets /\ 0 \in Ages 
    /\ "none" \in ProbeStates /\ "wanted" \in ProbeStates /\ "flight" \in ProbeStates
BY BoardAssumption DEF Beats, Quiets, Ages, ProbeStates

\* A heartbeat that was cleared is scored.
LEMMA ActivityScored == Scored(OnActivity)
BY BeatsIs DEF Scored, OnActivity

\* Time passes for a heartbeat.
LEMMA TickScored ==
    ASSUME NEW b, Scored(b)
    PROVE  Scored([b EXCEPT !.quiet = Up(@, HangTimeout + 1),
                            !.age = IF b.probe = "flight"
                                    THEN Up(@, ProbeWindow + 1) ELSE 0])
<1>1. /\ Up(b.quiet, HangTimeout + 1) \in Quiets
      /\ Up(b.age, ProbeWindow + 1) \in Ages
  BY BoardAssumption DEF Scored, Beats, Up, Quiets, Ages
<1> QED
  BY <1>1, BeatsIs DEF Scored

-----------------------------------------------------------------------------
(* The watchdog.                                                           *)

\* A pair of the engine and its heartbeat.
IsPair(s) == DOMAIN s = {"eng", "beat"}

\* A verdict scores the probe in flight.
LEMMA VerdictScored ==
    ASSUME NEW b, Scored(b), b.probe = "flight",
           NEW p \in ProbeStates, p # "flight"
    PROVE  /\ Scored([b EXCEPT !.probe = p, !.missed = @ + 1])
           /\ b.missed + 1 = b.sent
<1> DEFINE c == [b EXCEPT !.probe = p, !.missed = @ + 1]
<1>1. /\ b \in Beats /\ b.missed \in Nat /\ b.sent \in Nat
      /\ b.missed + 1 = b.sent
  BY BeatsIs DEF Scored
<1>2. /\ c \in Beats /\ c.probe = p
      /\ c.missed = b.missed + 1 /\ c.sent = b.sent
  BY <1>1, BeatsIs
<1> HIDE DEF c
<1>3. Scored(c)
  BY <1>1, <1>2 DEF Scored
<1> QED
  BY <1>1, <1>3 DEF c

\* A heartbeat with no probe in flight may get another wish.
LEMMA WishScored ==
    ASSUME NEW b, Scored(b), b.probe # "flight",
           NEW p \in ProbeStates, p # "flight"
    PROVE  Scored([b EXCEPT !.probe = p])
<1> DEFINE c == [b EXCEPT !.probe = p]
<1>1. b \in Beats /\ b.missed \in Nat /\ b.sent \in Nat /\ b.missed + 0 = b.sent
  BY BeatsIs DEF Scored
<1>2. c \in Beats /\ c.probe = p /\ c.missed = b.missed /\ c.sent = b.sent
  BY <1>1, BeatsIs
<1> HIDE DEF c
<1>3. Scored(c)
  BY <1>1, <1>2 DEF Scored
<1> QED
  BY <1>3 DEF c

\* Or a probe.
LEMMA ProbeScored ==
    ASSUME NEW b, Scored(b), b.probe # "flight"
    PROVE  Scored([b EXCEPT !.probe = "flight", !.age = 0, !.sent = @ + 1])
<1> DEFINE c == [b EXCEPT !.probe = "flight", !.age = 0, !.sent = @ + 1]
<1>1. b \in Beats /\ b.missed \in Nat /\ b.sent \in Nat /\ b.missed + 0 = b.sent
  BY BeatsIs DEF Scored
<1>2. b.sent + 1 \in Nat
  BY <1>1
<1>3. c \in Beats
  BY <1>1, <1>2, BeatsIs
<1>4. c.probe = "flight" /\ c.missed = b.missed /\ c.sent = b.sent + 1
  BY <1>1, BeatsIs
<1> HIDE DEF c
<1>5. Scored(c)
  BY <1>1, <1>3, <1>4 DEF Scored
<1> QED
  BY <1>5 DEF c

\* What check_hang may do to the pair: it is off after enough probes only.
Checked(s, t) ==
    /\ IsPair(t) /\ Scored(t.beat)
    /\ \/ t.eng.target # "DutOff"
       \/ s.eng.target = "DutOff"
       \/ s.beat.sent >= Hysteresis

\* A verdict is one of them.
LEMMA MissChecked ==
    ASSUME NEW s, IsPair(s), Scored(s.beat), s.beat.probe = "flight"
    PROVE  Checked(s, Miss(s))
<1>1. /\ Scored([s.beat EXCEPT !.probe = "none", !.missed = @ + 1])
      /\ Scored([s.beat EXCEPT !.probe = "wanted", !.missed = @ + 1])
      /\ s.beat.missed + 1 = s.beat.sent
  BY VerdictScored, BeatsIs
<1>2. CASE s.beat.missed + 1 >= Hysteresis
  <2>1. /\ Miss(s).beat = [s.beat EXCEPT !.probe = "none", !.missed = @ + 1]
        /\ IsPair(Miss(s))
    BY <1>2 DEF Miss, IsPair
  <2>2. Scored(Miss(s).beat)
    BY <1>1, <2>1
  <2> QED
    BY <1>1, <1>2, <2>1, <2>2 DEF Checked
<1>3. CASE ~(s.beat.missed + 1 >= Hysteresis)
  <2> DEFINE t == [s EXCEPT !.beat = [s.beat EXCEPT !.probe = "wanted", !.missed = @ + 1]]
  <2>1. Miss(s) = t
    BY <1>3 DEF Miss
  <2>2. /\ t.eng = s.eng /\ IsPair(t)
        /\ t.beat = [s.beat EXCEPT !.probe = "wanted", !.missed = @ + 1]
    BY DEF IsPair
  <2> HIDE DEF t
  <2>3. Scored(t.beat)
    BY <1>1, <2>2
  <2> QED
    BY <2>1, <2>2, <2>3 DEF Checked
<1> QED
  BY <1>2, <1>3

\* So is a wish for a probe, or its end.
LEMMA WishChecked ==
    ASSUME NEW s, IsPair(s), Scored(s.beat), s.beat.probe # "flight",
           NEW p \in ProbeStates, p # "flight"
    PROVE  Checked(s, [s EXCEPT !.beat.probe = p])
<1> DEFINE t == [s EXCEPT !.beat = [s.beat EXCEPT !.probe = p]]
<1>1. [s EXCEPT !.beat.probe = p] = t
  OBVIOUS
<1>2. t.eng = s.eng /\ IsPair(t) /\ t.beat = [s.beat EXCEPT !.probe = p]
  BY DEF IsPair
<1> HIDE DEF t
<1>3. Scored(t.beat)
  BY <1>2, WishScored
<1> QED
  BY <1>1, <1>2, <1>3 DEF Checked

\* So is what check_hang does altogether.
LEMMA CheckHangChecked ==
    ASSUME NEW s, IsPair(s), Scored(s.beat)
    PROVE  Checked(s, CheckHang(s))
<1>1. Checked(s, s)
  BY DEF Checked
<1>2. CASE s.eng.target \notin {"Booting", "Active"}
  <2> DEFINE p == IF s.beat.probe = "wanted" THEN "none" ELSE s.beat.probe
             t == [s EXCEPT !.beat = [s.beat EXCEPT !.probe = p]]
  <2>1. CheckHang(s) = t
    BY <1>2 DEF CheckHang
  <2>2. t.eng = s.eng /\ IsPair(t) /\ t.beat = [s.beat EXCEPT !.probe = p]
    BY DEF IsPair
  <2>3. Scored(t.beat)
    <3>1. CASE s.beat.probe # "flight"
      <4>1. p \in ProbeStates /\ p # "flight"
        BY <3>1, BeatsIs DEF Scored
      <4> QED
        BY <3>1, <2>2, <4>1, WishScored
    <3>2. CASE s.beat.probe = "flight"
      <4>1. t.beat = s.beat
        BY <3>2, <2>2, BeatsIs DEF Scored
      <4> QED
        BY <4>1
    <3> QED
      BY <3>1, <3>2
  <2> QED
    BY <2>1, <2>2, <2>3 DEF Checked
<1>3. CASE s.eng.target = "Booting" /\ s.eng.bootAge >= BootWindow
  <2> DEFINE t == [s EXCEPT !.eng = To(s.eng, "Active")]
  <2>1. CheckHang(s) = t
    BY <1>3 DEF CheckHang
  <2>2. t.beat = s.beat /\ IsPair(t) /\ t.eng = To(s.eng, "Active")
    BY DEF IsPair
  <2>3. To(s.eng, "Active").target # "DutOff"
    BY <1>3 DEF To
  <2> QED
    BY <2>1, <2>2, <2>3 DEF Checked
<1>4. CASE s.eng.target \in {"Booting", "Active"}
           /\ ~(s.eng.target = "Booting" /\ s.eng.bootAge >= BootWindow)
  <2>1. CheckHang(s) = IF s.beat.quiet > HangTimeout THEN Overdue(s) ELSE s
    BY <1>4 DEF CheckHang
  <2>2. CASE s.beat.probe # "flight"
    BY <1>1, <2>1, <2>2, WishChecked, BeatsIs DEF Overdue
  <2>3. CASE s.beat.probe = "flight" /\ s.beat.age > ProbeWindow
    BY <1>1, <2>1, <2>3, MissChecked DEF Overdue
  <2>4. CASE s.beat.probe = "flight" /\ ~(s.beat.age > ProbeWindow)
    BY <1>1, <2>1, <2>4, BoardAssumption DEF Overdue, Scored, Beats
  <2> QED
    BY <2>2, <2>3, <2>4
<1> QED
  BY <1>2, <1>3, <1>4

\* What the rest of the tick does: a probe that is sent is counted.
LEMMA HeartbeatScores ==
    ASSUME NEW s, IsPair(s), Scored(s.beat)
    PROVE  Scored(Heartbeat(s).beat) /\ Heartbeat(s).eng.target = s.eng.target
<1>1. CASE s.eng.target = "DutOff"
  <2>1. Heartbeat(s).beat = s.beat /\ Heartbeat(s).eng = ExpectBoot(s.eng)
    BY <1>1 DEF Heartbeat, IsPair
  <2> QED
    BY <2>1 DEF ExpectBoot
<1>2. CASE s.eng.target # "DutOff" /\ Probes(s)
  <2>1. /\ Heartbeat(s).beat =
               [s.beat EXCEPT !.probe = "flight", !.age = 0, !.sent = @ + 1]
        /\ Heartbeat(s).eng = Type(s.eng, "newline")
    BY <1>2 DEF Heartbeat
  <2>2. s.beat.probe # "flight"
    BY <1>2 DEF Probes
  <2>3. Scored(Heartbeat(s).beat)
    BY <2>1, <2>2, ProbeScored
  <2>4. Type(s.eng, "newline").target = s.eng.target
    BY DEF Type
  <2> QED
    BY <2>1, <2>3, <2>4
<1>3. CASE s.eng.target # "DutOff" /\ ~Probes(s)
  BY <1>3 DEF Heartbeat
<1> QED
  BY <1>1, <1>2, <1>3

\* The watchdog keeps the count, and its verdict rests on it.
LEMMA WatchdogKeeps ==
    ASSUME Scored(beat), Watchdog
    PROVE  /\ Scored(beat')
           /\ \/ eng'.target # "DutOff"
              \/ eng.target = "DutOff"
              \/ beat.sent >= Hysteresis
<1> DEFINE s == [eng |-> eng, beat |-> beat]
<1>1. s.eng = eng /\ s.beat = beat /\ IsPair(s)
  BY DEF IsPair
<1>2. eng' = Heartbeat(CheckHang(s)).eng /\ beat' = Heartbeat(CheckHang(s)).beat
  BY DEF Watchdog
<1> HIDE DEF s
<1>3. Checked(s, CheckHang(s))
  BY <1>1, CheckHangChecked
<1> QED
  BY <1>1, <1>2, <1>3, HeartbeatScores DEF Checked

-----------------------------------------------------------------------------
(* The wire.                                                               *)

\* What a board prints is pieces.
LEMMA Printed ==
    /\ <<>> \in Seq(Pieces)
    /\ \A p \in Pieces : <<p>> \in Seq(Pieces)
    /\ \A p, q \in Pieces : <<p, q>> \in Seq(Pieces)
OBVIOUS

\* The names of the pieces.
LEMMA PieceNames ==
    /\ "ddr" \in Pieces /\ "spl" \in Pieces /\ "loader" \in Pieces
    /\ "kernel" \in Pieces /\ "login" \in Pieces /\ "panic" \in Pieces
    /\ "restart" \in Pieces /\ "powerdown" \in Pieces /\ "text" \in Pieces
    /\ "newline" \in Pieces /\ "password" \in Pieces /\ "shell" \in Pieces
BY DEF Pieces, Prompts, Lines

\* What it prints of its own accord.
LEMMA MovesPrint == \A move \in Moves : move[2] \in Seq(Pieces)
<1> DEFINE Says == {<<>>, <<"ddr">>, <<"spl">>, <<"loader">>, <<"kernel">>,
                    <<"login">>, <<"text", "login">>, <<"panic">>, <<"restart">>,
                    <<"powerdown">>, <<"text">>}
<1>1. \A x \in Says : x \in Seq(Pieces)
  BY Printed, PieceNames
<1>2. \A move \in Moves : move[2] \in Says
  BY DEF Moves
<1> QED
  BY <1>1, <1>2

\* What it answers to a line that was typed.
LEMMA AnswersPrint ==
    ASSUME NEW phase, NEW key, NEW answer \in Answers(phase, key)
    PROVE  answer[1] \in Seq(Pieces)
<1> DEFINE Says == {<<>>, <<"newline", "login">>, <<"text", "password">>,
                    <<"text", "login">>, <<"newline", "shell">>,
                    <<"text", "restart">>, <<"text", "shell">>}
<1>1. \A x \in Says : x \in Seq(Pieces)
  BY Printed, PieceNames
<1>2. answer[1] \in Says
  BY DEF Answers
<1> QED
  BY <1>1, <1>2

\* A read takes something off the wire.
LEMMA ReadShortens ==
    ASSUME wire \in Seq(Pieces), NEW n \in 1..Len(wire), Read(n)
    PROVE  wire' \in Seq(Pieces) /\ wire' # wire
<1>1. wire' = SubSeq(wire, n + 1, Len(wire))
  BY DEF Read
<1>2. Len(wire) \in Nat /\ n \in Nat /\ n >= 1 /\ n <= Len(wire)
  OBVIOUS
<1>3. \A i \in (n + 1)..Len(wire) : wire[i] \in Pieces
  BY <1>2
<1>4. /\ SubSeq(wire, n + 1, Len(wire)) \in Seq(Pieces)
      /\ Len(SubSeq(wire, n + 1, Len(wire))) = Len(wire) - n
  BY <1>2, <1>3
<1> QED
  BY <1>1, <1>2, <1>4

-----------------------------------------------------------------------------
(* The theorems.                                                           *)

\* What the tools do to the state is never DUT-off, unless it was that before.
LEMMA ToolsTarget ==
    ASSUME NEW e
    PROVE  /\ To(e, "Booting").target # "DutOff"
           /\ To(e, "Dutabo").target # "DutOff" /\ To(e, "Active").target # "DutOff"
           /\ To(ResetCycle(ExpectBoot(e)), "Booting").target # "DutOff"
           /\ ResetCycle(ExpectBoot(e)).target = e.target
           /\ ResetCycle(ExpectBoot(To(e, "Booting"))).target # "DutOff"
           /\ ResetCycle(ExpectBoot(Type(To(e, "Booting"), "reboot"))).target # "DutOff"
<1>1. To(e, "Dutabo").target # "DutOff" /\ To(e, "Active").target # "DutOff"
  BY DEF To
<1>2. ASSUME NEW x PROVE ResetCycle(ExpectBoot(x)).target = x.target
  BY DEF ResetCycle, ExpectBoot
<1>3. ASSUME NEW x PROVE To(x, "Booting").target # "DutOff"
  BY DEF To
<1>4. ASSUME NEW x PROVE Type(x, "reboot").target = x.target
  BY DEF Type
<1> QED
  BY <1>1, <1>2, <1>3, <1>4

\* A step keeps the invariant, and turns the state to DUT-off for a reason.
LEMMA BeatStep ==
    ASSUME BeatInv, [BoardNext]_boardVars
    PROVE  /\ BeatInv'
           /\ (eng.target # "DutOff" /\ eng'.target = "DutOff") =>
                 \/ wire' # wire \/ probing = "sent"
                 \/ beat.sent >= Hysteresis
<1>1. Scored(beat) /\ wire \in Seq(Pieces)
  BY BeatInvIs
\* The target state does not become DUT-off, or for one of the first reasons.
<1> DEFINE Other == \/ eng'.target # "DutOff" \/ eng.target = "DutOff"
                    \/ wire' # wire \/ probing = "sent"
\* A step that clears the heartbeat or leaves it alone.
<1>2. ASSUME beat' = beat \/ beat' = OnActivity, wire' \in Seq(Pieces), Other
      PROVE  BeatInv' /\ Other
  <2>1. Scored(beat')
    BY <1>1, <1>2, ActivityScored
  <2>2. Scored(beat)'
    BY <2>1 DEF Scored, Beats
  <2> QED
    BY <1>2, <2>2, BeatInvIs DEF BeatInv, Scored, MissesMatchProbes
<1> HIDE DEF Other
<1>3. CASE BoardMoves
  <2>1. PICK move \in Moves : wire' = wire \o move[2]
    BY <1>3 DEF BoardMoves
  <2>2. wire' \in Seq(Pieces)
    BY <1>1, <2>1, MovesPrint
  <2>3. beat' = beat /\ Other
    BY <1>3 DEF BoardMoves, Other
  <2> QED
    BY <1>2, <2>2, <2>3 DEF Other
<1>4. CASE TypedLineArrives
  <2>1. PICK answer \in Answers(board, Head(eng.tx)) : wire' = wire \o answer[1]
    BY <1>4 DEF TypedLineArrives
  <2>2. wire' \in Seq(Pieces)
    BY <1>1, <2>1, AnswersPrint
  <2>3. eng' = [eng EXCEPT !.tx = Tail(@)] /\ beat' = beat
    BY <1>4 DEF TypedLineArrives
  <2>4. Other
    BY <2>3 DEF Other
  <2> QED
    BY <1>2, <2>2, <2>3, <2>4 DEF Other
<1>5. ASSUME NEW n \in 1..Len(wire), Read(n)
      PROVE  BeatInv' /\ Other
  <2>1. wire' \in Seq(Pieces) /\ Other
    BY <1>1, <1>5, ReadShortens DEF Other
  <2>2. beat' = beat \/ beat' = OnActivity
    BY <1>5 DEF Read, Hear
  <2> QED
    BY <1>2, <2>1, <2>2
<1>6. CASE Watchdog
  <2>1. /\ Scored(beat')
        /\ \/ eng'.target # "DutOff" \/ eng.target = "DutOff"
           \/ beat.sent >= Hysteresis
    BY <1>1, <1>6, WatchdogKeeps
  <2>2. wire' = wire
    BY <1>6 DEF Watchdog
  <2> QED
    BY <1>1, <2>1, <2>2 DEF BeatInv, Scored, MissesMatchProbes
<1>7. CASE Tick
  <2>1. Scored(beat')
    BY <1>1, <1>7, TickScored DEF Tick
  <2>2. wire' = wire /\ eng'.target = eng.target
    BY <1>7 DEF Tick
  <2> QED
    BY <1>1, <2>1, <2>2 DEF BeatInv, Scored, MissesMatchProbes
<1>8. CASE PowerCycle \/ ResetTarget \/ RelayReset \/ SoftwareReboot \/ ProbeStart
           \/ TakeOver \/ HandBack
  <2>1. beat' = beat /\ wire' = wire
    BY <1>8 DEF PowerCycle, ResetTarget, RelayReset, SoftwareReboot, ProbeStart,
                TakeOver, HandBack
  <2>2. Other
    <3>1. CASE PowerCycle \/ ResetTarget
      BY <3>1, ToolsTarget DEF PowerCycle, ResetTarget, Other
    <3>2. CASE RelayReset
      BY <3>2, ToolsTarget DEF RelayReset, Other
    <3>3. CASE SoftwareReboot
      BY <3>3, ToolsTarget DEF SoftwareReboot, Other
    <3>4. CASE ProbeStart
      BY <3>4 DEF ProbeStart, Type, Other
    <3>5. CASE TakeOver \/ HandBack
      BY <3>5, ToolsTarget DEF TakeOver, HandBack, Other
    <3> QED
      BY <1>8, <3>1, <3>2, <3>3, <3>4, <3>5
  <2> QED
    BY <1>1, <1>2, <2>1, <2>2 DEF Other
<1>9. CASE ProbeEnd
  <2>1. (beat' = beat \/ beat' = OnActivity) /\ wire' = wire
    BY <1>9 DEF ProbeEnd
  <2>2. Other
    BY <1>9 DEF ProbeEnd, To, Other
  <2> QED
    BY <1>1, <1>2, <2>1, <2>2 DEF Other
<1>10. CASE UNCHANGED boardVars
  BY <1>1, <1>2, <1>10 DEF boardVars, Other
<1> QED
  BY <1>3, <1>4, <1>5, <1>6, <1>7, <1>8, <1>9, <1>10 DEF BoardNext, Other

\* The invariant.
THEOREM BeatCorrect == BoardSpec => []BeatInv
<1>1. BoardInit => BeatInv
  BY ActivityScored, Printed, BeatInvIs DEF BoardInit
<1>2. BeatInv /\ [BoardNext]_boardVars => BeatInv'
  BY BeatStep
<1> QED
  BY <1>1, <1>2, PTL DEF BoardSpec

\* No probe is scored twice or unsent.
THEOREM ProbesScoredOnce == BoardSpec => []MissesMatchProbes
<1>1. BeatInv => MissesMatchProbes
  BY DEF BeatInv
<1> QED
  BY <1>1, BeatCorrect, PTL

\* The watchdog's DUT-off rests on as many probes as the hysteresis asks for.
THEOREM OffIsEarned == BoardSpec => OffNeedsProbes
<1>1. BeatInv /\ [BoardNext]_boardVars =>
        [(eng.target # "DutOff" /\ eng'.target = "DutOff") =>
           \/ wire' # wire \/ probing = "sent"
           \/ beat.sent >= Hysteresis]_boardVars
  BY BeatStep
<1> QED
  BY <1>1, BeatCorrect, PTL DEF BoardSpec, OffNeedsProbes

-----------------------------------------------------------------------------
(* Folds over the pieces of a read, the lines and the events in it: what   *)
(* each step keeps, the fold keeps.                                        *)

\* What SplitPiece keeps, the fold over the pieces of a read keeps.
LEMMA SplitPieceFolds ==
    ASSUME NEW X, NEW d \in X, NEW c, NEW n \in Nat, DOMAIN c = 1 .. n,
           \A e \in X, i \in 1 .. n : SplitPiece(e, c[i]) \in X
    PROVE  FoldLeft(SplitPiece, d, c) \in X
<1> DEFINE Eq(f) == f = [S \in SUBSET DOMAIN c |->
                           IF S = {} THEN d ELSE SplitPiece(f[S \ {Max(S)}], c[Max(S)])]
           iter == CHOOSE f : Eq(f)
           step == [k \in 1 .. n |-> [e \in X |-> SplitPiece(e, c[k])]]
<1>1. FoldLeft(SplitPiece, d, c) = iter[DOMAIN c]
  BY DEF FoldLeft, MapThenFoldSet
<1>2. step \in [1 .. n -> [X -> X]]
  OBVIOUS
<1>3. \A k \in 1 .. n : \A e \in X : step[k][e] = SplitPiece(e, c[k])
  OBVIOUS
<1> HIDE DEF step
<1>4. PICK g : Solves(g, n, X, d, step)
  BY <1>2, RecursionSolved
<1>5. \A S \in SUBSET (1 .. n) : S # {} => Max(S) \in 1 .. n
  BY MaxExists
<1>6. Eq(g)
  <2>1. g \in [SUBSET (1 .. n) -> X] /\ g[{}] = d
    BY <1>4 DEF Solves
  <2>2. ASSUME NEW S \in SUBSET (1 .. n), S # {}
        PROVE  g[S] = SplitPiece(g[S \ {Max(S)}], c[Max(S)])
    <3>1. g[S] = step[Max(S)][g[S \ {Max(S)}]]
      BY <1>4, <2>2 DEF Solves
    <3>2. g[S \ {Max(S)}] \in X
      BY <2>1
    <3> QED
      BY <1>5, <1>3, <2>2, <3>1, <3>2
  <2> QED
    BY <2>1, <2>2
<1>7. Eq(iter)
  <2> HIDE DEF Eq
  <2> QED
    BY <1>6
<1> HIDE DEF iter
<1>8. iter[{}] = d /\ \A S \in SUBSET (1 .. n) :
        S # {} => iter[S] = SplitPiece(iter[S \ {Max(S)}], c[Max(S)])
  BY <1>7
<1>9. Recurs(iter, n, X, d, step)
  <2> HIDE DEF Eq
  <2> QED
    BY <1>5, <1>8, <1>3 DEF Recurs
<1>10. PICK r : IsRun(r, n, X, d, step) /\ r[n] = iter[1 .. n]
  BY <1>2, <1>9, RunOfRecursion
<1> QED
  BY <1>1, <1>10 DEF IsRun

\* The same for PersistPiece.
LEMMA PersistPieceFolds ==
    ASSUME NEW X, NEW d \in X, NEW c, NEW n \in Nat, DOMAIN c = 1 .. n,
           \A e \in X, i \in 1 .. n : PersistPiece(e, c[i]) \in X
    PROVE  FoldLeft(PersistPiece, d, c) \in X
<1> DEFINE Eq(f) == f = [S \in SUBSET DOMAIN c |->
                           IF S = {} THEN d ELSE PersistPiece(f[S \ {Max(S)}], c[Max(S)])]
           iter == CHOOSE f : Eq(f)
           step == [k \in 1 .. n |-> [e \in X |-> PersistPiece(e, c[k])]]
<1>1. FoldLeft(PersistPiece, d, c) = iter[DOMAIN c]
  BY DEF FoldLeft, MapThenFoldSet
<1>2. step \in [1 .. n -> [X -> X]]
  OBVIOUS
<1>3. \A k \in 1 .. n : \A e \in X : step[k][e] = PersistPiece(e, c[k])
  OBVIOUS
<1> HIDE DEF step
<1>4. PICK g : Solves(g, n, X, d, step)
  BY <1>2, RecursionSolved
<1>5. \A S \in SUBSET (1 .. n) : S # {} => Max(S) \in 1 .. n
  BY MaxExists
<1>6. Eq(g)
  <2>1. g \in [SUBSET (1 .. n) -> X] /\ g[{}] = d
    BY <1>4 DEF Solves
  <2>2. ASSUME NEW S \in SUBSET (1 .. n), S # {}
        PROVE  g[S] = PersistPiece(g[S \ {Max(S)}], c[Max(S)])
    <3>1. g[S] = step[Max(S)][g[S \ {Max(S)}]]
      BY <1>4, <2>2 DEF Solves
    <3>2. g[S \ {Max(S)}] \in X
      BY <2>1
    <3> QED
      BY <1>5, <1>3, <2>2, <3>1, <3>2
  <2> QED
    BY <2>1, <2>2
<1>7. Eq(iter)
  <2> HIDE DEF Eq
  <2> QED
    BY <1>6
<1> HIDE DEF iter
<1>8. iter[{}] = d /\ \A S \in SUBSET (1 .. n) :
        S # {} => iter[S] = PersistPiece(iter[S \ {Max(S)}], c[Max(S)])
  BY <1>7
<1>9. Recurs(iter, n, X, d, step)
  <2> HIDE DEF Eq
  <2> QED
    BY <1>5, <1>8, <1>3 DEF Recurs
<1>10. PICK r : IsRun(r, n, X, d, step) /\ r[n] = iter[1 .. n]
  BY <1>2, <1>9, RunOfRecursion
<1> QED
  BY <1>1, <1>10 DEF IsRun

\* The same for Detect, over the lines.
LEMMA DetectFolds ==
    ASSUME NEW X, NEW d \in X, NEW c, NEW n \in Nat, DOMAIN c = 1 .. n,
           \A e \in X, i \in 1 .. n : Detect(e, c[i]) \in X
    PROVE  FoldLeft(Detect, d, c) \in X
<1> DEFINE Eq(f) == f = [S \in SUBSET DOMAIN c |->
                           IF S = {} THEN d ELSE Detect(f[S \ {Max(S)}], c[Max(S)])]
           iter == CHOOSE f : Eq(f)
           step == [k \in 1 .. n |-> [e \in X |-> Detect(e, c[k])]]
<1>1. FoldLeft(Detect, d, c) = iter[DOMAIN c]
  BY DEF FoldLeft, MapThenFoldSet
<1>2. step \in [1 .. n -> [X -> X]]
  OBVIOUS
<1>3. \A k \in 1 .. n : \A e \in X : step[k][e] = Detect(e, c[k])
  OBVIOUS
<1> HIDE DEF step
<1>4. PICK g : Solves(g, n, X, d, step)
  BY <1>2, RecursionSolved
<1>5. \A S \in SUBSET (1 .. n) : S # {} => Max(S) \in 1 .. n
  BY MaxExists
<1>6. Eq(g)
  <2>1. g \in [SUBSET (1 .. n) -> X] /\ g[{}] = d
    BY <1>4 DEF Solves
  <2>2. ASSUME NEW S \in SUBSET (1 .. n), S # {}
        PROVE  g[S] = Detect(g[S \ {Max(S)}], c[Max(S)])
    <3>1. g[S] = step[Max(S)][g[S \ {Max(S)}]]
      BY <1>4, <2>2 DEF Solves
    <3>2. g[S \ {Max(S)}] \in X
      BY <2>1
    <3> QED
      BY <1>5, <1>3, <2>2, <3>1, <3>2
  <2> QED
    BY <2>1, <2>2
<1>7. Eq(iter)
  <2> HIDE DEF Eq
  <2> QED
    BY <1>6
<1> HIDE DEF iter
<1>8. iter[{}] = d /\ \A S \in SUBSET (1 .. n) :
        S # {} => iter[S] = Detect(iter[S \ {Max(S)}], c[Max(S)])
  BY <1>7
<1>9. Recurs(iter, n, X, d, step)
  <2> HIDE DEF Eq
  <2> QED
    BY <1>5, <1>8, <1>3 DEF Recurs
<1>10. PICK r : IsRun(r, n, X, d, step) /\ r[n] = iter[1 .. n]
  BY <1>2, <1>9, RunOfRecursion
<1> QED
  BY <1>1, <1>10 DEF IsRun

\* The same for Handle, over the events.
LEMMA HandleFolds ==
    ASSUME NEW X, NEW d \in X, NEW c, NEW n \in Nat, DOMAIN c = 1 .. n,
           \A e \in X, i \in 1 .. n : Handle(e, c[i]) \in X
    PROVE  FoldLeft(Handle, d, c) \in X
<1> DEFINE Eq(f) == f = [S \in SUBSET DOMAIN c |->
                           IF S = {} THEN d ELSE Handle(f[S \ {Max(S)}], c[Max(S)])]
           iter == CHOOSE f : Eq(f)
           step == [k \in 1 .. n |-> [e \in X |-> Handle(e, c[k])]]
<1>1. FoldLeft(Handle, d, c) = iter[DOMAIN c]
  BY DEF FoldLeft, MapThenFoldSet
<1>2. step \in [1 .. n -> [X -> X]]
  OBVIOUS
<1>3. \A k \in 1 .. n : \A e \in X : step[k][e] = Handle(e, c[k])
  OBVIOUS
<1> HIDE DEF step
<1>4. PICK g : Solves(g, n, X, d, step)
  BY <1>2, RecursionSolved
<1>5. \A S \in SUBSET (1 .. n) : S # {} => Max(S) \in 1 .. n
  BY MaxExists
<1>6. Eq(g)
  <2>1. g \in [SUBSET (1 .. n) -> X] /\ g[{}] = d
    BY <1>4 DEF Solves
  <2>2. ASSUME NEW S \in SUBSET (1 .. n), S # {}
        PROVE  g[S] = Handle(g[S \ {Max(S)}], c[Max(S)])
    <3>1. g[S] = step[Max(S)][g[S \ {Max(S)}]]
      BY <1>4, <2>2 DEF Solves
    <3>2. g[S \ {Max(S)}] \in X
      BY <2>1
    <3> QED
      BY <1>5, <1>3, <2>2, <3>1, <3>2
  <2> QED
    BY <2>1, <2>2
<1>7. Eq(iter)
  <2> HIDE DEF Eq
  <2> QED
    BY <1>6
<1> HIDE DEF iter
<1>8. iter[{}] = d /\ \A S \in SUBSET (1 .. n) :
        S # {} => iter[S] = Handle(iter[S \ {Max(S)}], c[Max(S)])
  BY <1>7
<1>9. Recurs(iter, n, X, d, step)
  <2> HIDE DEF Eq
  <2> QED
    BY <1>5, <1>8, <1>3 DEF Recurs
<1>10. PICK r : IsRun(r, n, X, d, step) /\ r[n] = iter[1 .. n]
  BY <1>2, <1>9, RunOfRecursion
<1> QED
  BY <1>1, <1>10 DEF IsRun

-----------------------------------------------------------------------------
(* The engine.                                                             *)

\* Sets of the engine's fields.
BootAges == 0 .. BootWindow
Tries == 0 .. (MaxLogins + 1)
Channels == {s \in Seq(Typed) : Len(s) <= TxCap}
Recents == SUBSET {"login", "crash"}
HeldSets == SUBSET Prompts

\* The engine is a record of these fields.
Engines == [target : Targets, bootAge : BootAges, prefix : PrefixPhases,
            split : BOOLEAN, seen : BOOLEAN, asked : BOOLEAN, held : HeldSets,
            logins : Tries, recent : Recents, tx : Channels]

AllEvents == {"crash", "restart", "login", "password", "boot", "uboot", "kernel", "shell"}
\* The events that leave a crash alone.
MildEvents == {"crash", "login", "password", "uboot", "kernel"}
\* The pieces that make the others, or a shut down.
Loud == {"ddr", "spl", "restart", "powerdown", "shell"}

\* Members of these sets.
LEMMA EngineValues ==
    /\ 0 \in BootAges /\ BootWindow \in BootAges /\ 0 \in Tries /\ MaxLogins + 1 \in Tries
    /\ \A k \in Tries : k < MaxLogins => k + 1 \in Tries
    /\ \A k \in BootAges : Up(k, BootWindow) \in BootAges
    /\ "unknown" \in PrefixPhases
    /\ {"Active", "Booting", "UBoot", "Crashed", "DutOff", "Dutabo"} = Targets
    /\ {} \in Recents /\ \A s \in Recents : s \cup {"login"} \in Recents /\ s \cup {"crash"} \in Recents
BY BoardAssumption DEF BootAges, Tries, PrefixPhases, Targets, Recents, Up

\* A channel takes a line when it has room, and gives its first away.
LEMMA ChannelFacts ==
    /\ << >> \in Channels
    /\ \A s \in Channels, k \in Typed : Len(s) < TxCap => Append(s, k) \in Channels
    /\ \A s \in Channels : s # << >> => Tail(s) \in Channels
<1>1. TxCap \in Nat
  BY BoardAssumption
<1>2. << >> \in Channels
  BY <1>1 DEF Channels
<1>3. ASSUME NEW s \in Seq(Typed), NEW k \in Typed, Len(s) < TxCap
      PROVE  Append(s, k) \in Seq(Typed) /\ Len(Append(s, k)) <= TxCap
  BY <1>1, <1>3
<1>4. ASSUME NEW s \in Seq(Typed), s # << >>, Len(s) <= TxCap
      PROVE  Tail(s) \in Seq(Typed) /\ Len(Tail(s)) <= TxCap
  BY <1>1, <1>4
<1> QED
  BY <1>2, <1>3, <1>4 DEF Channels

\* A transition.
LEMMA ToTyped ==
    ASSUME NEW e \in Engines, NEW t \in Targets
    PROVE  To(e, t) \in Engines /\ To(e, t).target = t
BY EngineValues DEF To, Engines

\* The detectors are armed again.
LEMMA ArmedTyped ==
    ASSUME NEW e \in Engines
    PROVE  /\ ResetCycle(e) \in Engines /\ ResetCycle(e).target = e.target
           /\ ExpectBoot(e) \in Engines /\ ExpectBoot(e).target = e.target
BY EngineValues DEF ResetCycle, ExpectBoot, Engines

\* A line is typed.
LEMMA TypeTyped ==
    ASSUME NEW e \in Engines, NEW key \in Typed
    PROVE  Type(e, key) \in Engines /\ Type(e, key).target = e.target
<1>1. CASE Len(e.tx) < TxCap
  <2>1. Append(e.tx, key) \in Channels
    BY <1>1, ChannelFacts DEF Engines
  <2> QED
    BY <1>1, <2>1 DEF Type, Engines
<1>2. CASE ~(Len(e.tx) < TxCap)
  BY <1>2 DEF Type
<1> QED
  BY <1>1, <1>2

\* A name is sent, or the attempts are over.
LEMMA SendLoginTyped ==
    ASSUME NEW e \in Engines
    PROVE  SendLogin(e) \in Engines /\ SendLogin(e).target = e.target
<1> DEFINE r == e.recent \cup {"login"}
<1>1. r \in Recents /\ e.logins \in Tries
  BY EngineValues DEF Engines
<1>2. "user" \in Typed
  BY DEF Typed
<1> HIDE DEF r
<1>3. ASSUME NEW k \in Tries
      PROVE  /\ [e EXCEPT !.recent = r, !.logins = k] \in Engines
             /\ [e EXCEPT !.recent = r, !.logins = k].target = e.target
  BY <1>1 DEF Engines
<1>4. CASE "login" \in e.recent
  BY <1>4 DEF SendLogin
<1>5. CASE "login" \notin e.recent /\ e.logins < MaxLogins
  <2> DEFINE k == e.logins + 1
             x == [e EXCEPT !.recent = r, !.logins = k]
  <2>1. k \in Tries
    BY <1>1, <1>5, EngineValues
  <2>2. SendLogin(e) = Type(x, "user")
    BY <1>5 DEF SendLogin, r
  <2> HIDE DEF k
  <2>3. x \in Engines /\ x.target = e.target
    BY <1>3, <2>1
  <2> HIDE DEF x
  <2> QED
    BY <1>2, <2>2, <2>3, TypeTyped
<1>6. CASE "login" \notin e.recent /\ ~(e.logins < MaxLogins)
  <2> DEFINE k == MaxLogins + 1
  <2>1. k \in Tries
    BY EngineValues
  <2>2. SendLogin(e) = [e EXCEPT !.recent = r, !.logins = k]
    BY <1>6 DEF SendLogin, r
  <2> HIDE DEF k
  <2>3. /\ [e EXCEPT !.recent = r, !.logins = k] \in Engines
        /\ [e EXCEPT !.recent = r, !.logins = k].target = e.target
    BY <1>3, <2>1
  <2> QED
    BY <2>2, <2>3
<1> QED
  BY <1>4, <1>5, <1>6

\* An event is handled: the state is a state, and a mild event leaves a crash.
LEMMA HandleTyped ==
    ASSUME NEW e \in Engines, NEW event \in AllEvents
    PROVE  /\ Handle(e, event) \in Engines
           /\ e.target = "Crashed" /\ event \in MildEvents => Handle(e, event).target = "Crashed"
<1>0. Targets = {"Active", "Booting", "UBoot", "Crashed", "DutOff", "Dutabo"}
  BY EngineValues
<1>1. ASSUME NEW x \in Engines PROVE [x EXCEPT !.logins = 0] \in Engines
  BY EngineValues DEF Engines
<1>2. CASE event = "boot"
  <2> DEFINE x == IF e.split THEN e ELSE ExpectBoot(e)
             y == [x EXCEPT !.logins = 0]
  <2>1. Handle(e, event) = To(y, "Booting")
    BY <1>2 DEF Handle
  <2>2. x \in Engines
    BY ArmedTyped
  <2> HIDE DEF x
  <2>3. y \in Engines
    BY <1>1, <2>2
  <2> HIDE DEF y
  <2> QED
    BY <1>0, <1>2, <2>1, <2>3, ToTyped DEF MildEvents
<1>3. CASE event = "restart"
  <2>1. Handle(e, event) = To(ResetCycle(e), "Booting")
    BY <1>3 DEF Handle
  <2> QED
    BY <1>0, <1>3, <2>1, ArmedTyped, ToTyped DEF MildEvents
<1>4. CASE event = "login"
  BY <1>4, SendLoginTyped DEF Handle
<1>5. CASE event = "password"
  <2>1. Handle(e, event) = Type(e, "pass") /\ "pass" \in Typed
    BY <1>5 DEF Handle, Typed
  <2> QED
    BY <2>1, TypeTyped
<1>6. CASE event = "crash"
  BY <1>0, <1>6, ToTyped DEF Handle
<1>7. CASE event \in {"uboot", "kernel"}
  <2>1. \E t \in {"UBoot", "Booting"} : Handle(e, event) = Progress(e, t)
    BY <1>7 DEF Handle
  <2> QED
    BY <1>0, <2>1, ToTyped DEF Progress
<1>8. CASE event = "shell"
  <2> DEFINE y == [e EXCEPT !.logins = 0]
  <2>1. Handle(e, event) = To(y, "Active")
    BY <1>8 DEF Handle
  <2>2. y \in Engines
    BY <1>1
  <2> HIDE DEF y
  <2> QED
    BY <1>0, <1>8, <2>1, <2>2, ToTyped DEF MildEvents
<1> QED
  BY <1>2, <1>3, <1>4, <1>5, <1>6, <1>7, <1>8 DEF AllEvents

\* All events of a read.
LEMMA HandleAllTyped ==
    ASSUME NEW fed, fed.e \in Engines, NEW Ev \in {AllEvents, MildEvents},
           fed.found \in Seq(Ev)
    PROVE  /\ HandleAll(fed) \in Engines
           /\ Ev = MildEvents /\ fed.e.target = "Crashed" => HandleAll(fed).target = "Crashed"
<1> DEFINE c == fed.found
           n == Len(c)
           Kept(x) == Ev = MildEvents /\ fed.e.target = "Crashed" => x.target = "Crashed"
           X == {x \in Engines : Kept(x)}
<1>1. n \in Nat /\ DOMAIN c = 1 .. n /\ \A i \in 1 .. n : c[i] \in Ev
  OBVIOUS
<1>2. MildEvents \subseteq AllEvents
  BY DEF MildEvents, AllEvents
<1>3. ASSUME NEW x \in X, NEW i \in 1 .. n PROVE Handle(x, c[i]) \in X
  <2>1. c[i] \in AllEvents /\ c[i] \in Ev
    BY <1>1, <1>2
  <2> QED
    BY <2>1, HandleTyped
<1>4. fed.e \in X
  OBVIOUS
<1> HIDE DEF X, n
<1>5. FoldLeft(Handle, fed.e, c) \in X
  BY <1>1, <1>3, <1>4, HandleFolds
<1> QED
  BY <1>5 DEF HandleAll, X

-----------------------------------------------------------------------------
(* The detectors.                                                          *)

\* An event that is found, or none.
LEMMA IfTyped ==
    ASSUME NEW Ev, NEW condition \in BOOLEAN, NEW event, condition => event \in Ev
    PROVE  If(condition, event) \in Seq(Ev)
BY DEF If

\* A line changes what is remembered of the boot, and nothing else; what is found
\* in it are events, and mild ones when it has no loud piece.
LEMMA DetectTyped ==
    ASSUME NEW d, d.e \in Engines, NEW line, NEW Ev, d.found \in Seq(Ev),
           \/ Ev = AllEvents
           \/ Ev = MildEvents /\ line \cap Loud = {}
    PROVE  /\ Detect(d, line).e \in Engines
           /\ Detect(d, line).e.target = d.e.target
           /\ Detect(d, line).found \in Seq(Ev)
<1> DEFINE crash == "panic" \in line /\ "crash" \notin d.e.recent
           login == line = {"login", "newline"}
           password == "password" \in line /\ "newline" \in line
           late == line \cap {"kernel", "shell"} # {}
           seen == d.e.seen /\ "restart" \notin line /\ ~login
           asked == d.e.asked /\ "restart" \notin line
           prefix == line \cap {"ddr", "spl"} # {} /\ ~seen
           rec == IF crash THEN d.e.recent \cup {"crash"} ELSE d.e.recent
           s == (seen \/ prefix) /\ ~late
           q == (asked \/ password) /\ ~prefix
           missing == password /\ ~asked
           restart == "restart" \in line
           loader == "loader" \in line
           kernel == "kernel" \in line
           shell == "shell" \in line
<1>1. /\ Detect(d, line).e = [d.e EXCEPT !.recent = rec, !.seen = s, !.asked = q]
      /\ Detect(d, line).found =
            d.found \o If(crash, "crash") \o If(restart, "restart")
                    \o If(login, "login") \o If(missing, "password") \o If(prefix, "boot")
                    \o If(loader, "uboot") \o If(kernel, "kernel") \o If(shell, "shell")
  BY DEF Detect
<1>2. rec \in Recents
  BY EngineValues DEF Engines
<1>3. /\ s \in BOOLEAN /\ q \in BOOLEAN /\ crash \in BOOLEAN /\ login \in BOOLEAN
      /\ missing \in BOOLEAN /\ prefix \in BOOLEAN /\ restart \in BOOLEAN
      /\ loader \in BOOLEAN /\ kernel \in BOOLEAN /\ shell \in BOOLEAN
  OBVIOUS
<1>4. /\ {"crash", "login", "password", "uboot", "kernel"} \subseteq Ev
      /\ restart => "restart" \in Ev
      /\ prefix => "boot" \in Ev
      /\ shell => "shell" \in Ev
  BY DEF AllEvents, MildEvents, Loud
<1> HIDE DEF rec, s, q, crash, login, missing, prefix, restart, loader, kernel, shell
<1>5. /\ [d.e EXCEPT !.recent = rec, !.seen = s, !.asked = q] \in Engines
      /\ [d.e EXCEPT !.recent = rec, !.seen = s, !.asked = q].target = d.e.target
  BY <1>2, <1>3 DEF Engines
<1>6. /\ If(crash, "crash") \in Seq(Ev) /\ If(restart, "restart") \in Seq(Ev)
      /\ If(login, "login") \in Seq(Ev) /\ If(missing, "password") \in Seq(Ev)
      /\ If(prefix, "boot") \in Seq(Ev) /\ If(loader, "uboot") \in Seq(Ev)
      /\ If(kernel, "kernel") \in Seq(Ev) /\ If(shell, "shell") \in Seq(Ev)
  BY <1>3, <1>4, IfTyped
<1>7. \A u, v \in Seq(Ev) : u \o v \in Seq(Ev)
  OBVIOUS
<1>8. Detect(d, line).found \in Seq(Ev)
  BY <1>1, <1>6, <1>7
<1> QED
  BY <1>1, <1>5, <1>8

\* All lines of a read.
LEMMA FeedTyped ==
    ASSUME NEW e \in Engines, NEW H, NEW lines \in Seq(SUBSET H),
           NEW Ev, \/ Ev = AllEvents
                   \/ Ev = MildEvents /\ H \cap Loud = {}
    PROVE  /\ Feed(e, lines).e \in Engines /\ Feed(e, lines).e.target = e.target
           /\ Feed(e, lines).found \in Seq(Ev)
<1> DEFINE n == Len(lines)
           X == {d \in [e : Engines, found : Seq(Ev)] : d.e.target = e.target}
           d0 == [e |-> e, found |-> << >>]
<1>1. n \in Nat /\ DOMAIN lines = 1 .. n /\ \A i \in 1 .. n : lines[i] \in SUBSET H
  OBVIOUS
<1>2. << >> \in Seq(Ev)
  OBVIOUS
<1>3. d0 \in X
  BY <1>2
<1>4. ASSUME NEW d \in X, NEW i \in 1 .. n PROVE Detect(d, lines[i]) \in X
  <2>1. lines[i] \subseteq H /\ d.e \in Engines /\ d.found \in Seq(Ev)
    BY <1>1
  <2>2. lines[i] \cap Loud \subseteq H \cap Loud
    BY <2>1
  <2>3. /\ Detect(d, lines[i]).e \in Engines
        /\ Detect(d, lines[i]).e.target = d.e.target
        /\ Detect(d, lines[i]).found \in Seq(Ev)
    BY <2>1, <2>2, DetectTyped
  <2>4. Detect(d, lines[i]) = [e |-> Detect(d, lines[i]).e, found |-> Detect(d, lines[i]).found]
    BY DEF Detect
  <2> QED
    BY <2>3, <2>4
<1> HIDE DEF X, n, d0
<1>5. FoldLeft(Detect, d0, lines) \in X
  BY <1>1, <1>3, <1>4, DetectFolds
<1> QED
  BY <1>5 DEF Feed, d0, X

\* The lines of a read are made of its pieces and of the prompts held before.
LEMMA SplitTyped ==
    ASSUME NEW held \in HeldSets, NEW chunk \in Seq(Pieces)
    PROVE  /\ SplitLines(held, chunk).held \in HeldSets
           /\ SplitLines(held, chunk).lines \in Seq(SUBSET (held \cup ToSet(chunk)))
<1> DEFINE n == Len(chunk)
           H == held \cup ToSet(chunk)
           X == [held : SUBSET (H \cap Prompts), lines : Seq(SUBSET H)]
           d0 == [held |-> held, lines |-> << >>]
<1>1. n \in Nat /\ DOMAIN chunk = 1 .. n /\ \A i \in 1 .. n : chunk[i] \in H
  BY DEF ToSet
<1>2. held \in SUBSET (H \cap Prompts)
  BY DEF HeldSets
<1> HIDE DEF H, n
<1>3. d0 \in X
  BY <1>2
<1>4. ASSUME NEW d \in X, NEW i \in 1 .. n PROVE SplitPiece(d, chunk[i]) \in X
  <2>1. CASE chunk[i] \in Prompts
    BY <1>1, <2>1 DEF SplitPiece
  <2>2. CASE chunk[i] \notin Prompts
    <3> DEFINE line == d.held \cup {chunk[i]}
    <3>1. line \in SUBSET H
      BY <1>1
    <3>2. SplitPiece(d, chunk[i]) = [held |-> {}, lines |-> Append(d.lines, line)]
      BY <2>2 DEF SplitPiece
    <3> HIDE DEF line
    <3>3. Append(d.lines, line) \in Seq(SUBSET H)
      BY <3>1
    <3> QED
      BY <3>2, <3>3
  <2> QED
    BY <2>1, <2>2
<1> HIDE DEF X, d0
<1>5. FoldLeft(SplitPiece, d0, chunk) \in X
  BY <1>1, <1>3, <1>4, SplitPieceFolds
<1> QED
  BY <1>5 DEF SplitLines, d0, X, H, HeldSets

\* The boundary detector.
LEMMA PersistTyped ==
    ASSUME NEW e \in Engines, NEW chunk \in Seq(Pieces)
    PROVE  Persist(e, chunk) \in Engines /\ Persist(e, chunk).target = e.target
<1> DEFINE n == Len(chunk)
           X == [phase : PrefixPhases, cut : BOOLEAN]
           d0 == [phase |-> e.prefix, cut |-> FALSE]
           walk == FoldLeft(PersistPiece, d0, chunk)
<1>1. n \in Nat /\ DOMAIN chunk = 1 .. n
  OBVIOUS
<1>2. d0 \in X
  BY DEF Engines
<1>3. ASSUME NEW d \in X, NEW i \in 1 .. n PROVE PersistPiece(d, chunk[i]) \in X
  <2>1. PhaseAfter(d.phase, chunk[i]) \in PrefixPhases
    BY DEF PhaseAfter, PrefixPhases
  <2>2. (d.cut \/ CutsBefore(d.phase, chunk[i])) \in BOOLEAN
    OBVIOUS
  <2> QED
    BY <2>1, <2>2 DEF PersistPiece
<1>4. walk \in X
  <2> HIDE DEF X, d0, n
  <2> QED
    BY <1>1, <1>2, <1>3, PersistPieceFolds
<1> DEFINE x == IF walk.cut THEN ResetCycle(e) ELSE e
<1>5. Persist(e, chunk) = [x EXCEPT !.prefix = walk.phase, !.split = walk.cut]
  BY DEF Persist
<1> HIDE DEF walk
<1>6. x \in Engines /\ x.target = e.target
  BY ArmedTyped
<1> HIDE DEF x
<1> QED
  BY <1>4, <1>5, <1>6 DEF Engines

\* Everything a read does to the engine.
LEMMA AfterReadTyped ==
    ASSUME NEW e \in Engines, NEW chunk \in Seq(Pieces)
    PROVE  /\ AfterRead(e, chunk, SplitLines(e.held, chunk)) \in Engines
           /\ e.target = "Crashed" /\ (ToSet(chunk) \cup e.held) \cap Loud = {} =>
                AfterRead(e, chunk, SplitLines(e.held, chunk)).target = "Crashed"
<1> DEFINE split == SplitLines(e.held, chunk)
           p == Persist(e, chunk)
           kept == [p EXCEPT !.held = split.held]
           up == Revive(Shutdown(kept, chunk), chunk)
           H == e.held \cup ToSet(chunk)
           Quiet == e.target = "Crashed" /\ H \cap Loud = {}
           Ev == IF Quiet THEN MildEvents ELSE AllEvents
           done == HandleAll(Feed(up, split.lines))
<1>0. Targets = {"Active", "Booting", "UBoot", "Crashed", "DutOff", "Dutabo"}
  BY EngineValues
<1>1. split.held \in HeldSets /\ split.lines \in Seq(SUBSET H) /\ e.held \in HeldSets
  BY SplitTyped DEF Engines
<1>2. p \in Engines /\ p.target = e.target
  BY PersistTyped
<1>3. kept \in Engines /\ kept.target = e.target
  <2> HIDE DEF p, split
  <2> QED
    BY <1>1, <1>2 DEF Engines
<1>4. up \in Engines
  <2> HIDE DEF kept
  <2>1. Shutdown(kept, chunk) \in Engines
    BY <1>0, <1>3, ToTyped DEF Shutdown
  <2> QED
    BY <1>0, <2>1, ToTyped DEF Revive
<1>5. Quiet => up.target = "Crashed"
  <2> SUFFICES ASSUME Quiet PROVE up.target = "Crashed"
    OBVIOUS
  <2>1. "powerdown" \notin ToSet(chunk)
    BY DEF Loud
  <2>2. ~Contains(chunk, "powerdown")
    BY <2>1 DEF Contains, ToSet
  <2> HIDE DEF kept
  <2>3. Shutdown(kept, chunk) = kept
    BY <2>2 DEF Shutdown
  <2> QED
    BY <1>3, <2>3 DEF Revive
<1>6. AfterRead(e, chunk, split) = IF kept.target = "Dutabo" THEN kept
                                   ELSE [done EXCEPT !.split = FALSE]
  BY DEF AfterRead
<1>7. \/ Ev = AllEvents
      \/ Ev = MildEvents /\ H \cap Loud = {}
  OBVIOUS
<1>8. Quiet => Ev = MildEvents
  OBVIOUS
<1>9. Ev \in {AllEvents, MildEvents}
  OBVIOUS
<1> HIDE DEF up, Ev, kept, split
<1>10. /\ Feed(up, split.lines).e \in Engines
       /\ Feed(up, split.lines).e.target = up.target
       /\ Feed(up, split.lines).found \in Seq(Ev)
  <2> HIDE DEF H
  <2> QED
    BY <1>1, <1>4, <1>7, FeedTyped
<1>11. done \in Engines /\ (Quiet => done.target = "Crashed")
  BY <1>5, <1>8, <1>9, <1>10, HandleAllTyped
<1> HIDE DEF done
<1>12. [done EXCEPT !.split = FALSE] \in Engines
       /\ [done EXCEPT !.split = FALSE].target = done.target
  BY <1>11 DEF Engines
<1>13. AfterRead(e, chunk, split) \in Engines
       /\ (Quiet => AfterRead(e, chunk, split).target = "Crashed")
  BY <1>3, <1>6, <1>11, <1>12
<1> QED
  BY <1>13 DEF split

-----------------------------------------------------------------------------
(* The types.                                                              *)

\* The watchdog: a crash is none of its business.
LEMMA CheckHangTyped ==
    ASSUME NEW e \in Engines, NEW b \in Beats
    PROVE  LET s == CheckHang([eng |-> e, beat |-> b])
           IN  /\ s.eng \in Engines
               /\ e.target = "Crashed" => s.eng.target = "Crashed"
<1> DEFINE s0 == [eng |-> e, beat |-> b]
<1>a. s0.eng = e /\ s0.beat = b /\ b.age \in Int /\ ProbeWindow \in Int
  BY BeatsIs, BoardAssumption DEF Ages
<1>0. Targets = {"Active", "Booting", "UBoot", "Crashed", "DutOff", "Dutabo"}
  BY EngineValues
<1>1. Miss(s0).eng = e \/ Miss(s0).eng = To(e, "DutOff")
  BY DEF Miss
<1>2. Overdue(s0).eng = e \/ Overdue(s0).eng = To(e, "DutOff")
  <2>1. CASE b.probe # "flight"
    BY <2>1 DEF Overdue
  <2>2. CASE b.probe = "flight" /\ b.age > ProbeWindow
    <3>1. Overdue(s0) = Miss(s0)
      BY <1>a, <2>2 DEF Overdue
    <3> QED
      BY <1>1, <3>1
  <2>3. CASE b.probe = "flight" /\ b.age <= ProbeWindow
    <3>1. Overdue(s0) = s0
      BY <1>a, <2>3 DEF Overdue
    <3> QED
      BY <1>a, <3>1
  <2> QED
    BY <1>a, <2>1, <2>2, <2>3
<1>3. CASE e.target \notin {"Booting", "Active"}
  <2>1. CheckHang(s0) = [s0 EXCEPT !.beat.probe = IF @ = "wanted" THEN "none" ELSE @]
    BY <1>3 DEF CheckHang
  <2>2. CheckHang(s0).eng = e
    BY <2>1
  <2> QED
    BY <2>2
<1>4. CASE e.target \in {"Booting", "Active"} /\ e.target = "Booting" /\ e.bootAge >= BootWindow
  <2>1. CheckHang(s0) = [s0 EXCEPT !.eng = To(@, "Active")]
    BY <1>4 DEF CheckHang
  <2>2. CheckHang(s0).eng = To(e, "Active")
    BY <2>1
  <2> QED
    BY <1>0, <1>4, <2>2, ToTyped
<1>5. CASE e.target \in {"Booting", "Active"} /\ ~(e.target = "Booting" /\ e.bootAge >= BootWindow)
  <2>1. CheckHang(s0) = IF b.quiet > HangTimeout THEN Overdue(s0) ELSE s0
    BY <1>5 DEF CheckHang
  <2>2. CheckHang(s0).eng = e \/ CheckHang(s0).eng = To(e, "DutOff")
    BY <1>2, <2>1
  <2> QED
    BY <1>0, <1>5, <2>2, ToTyped
<1> QED
  BY <1>3, <1>4, <1>5

\* The rest of its tick.
LEMMA HeartbeatTyped ==
    ASSUME NEW s, s.eng \in Engines, \E b : s = [eng |-> s.eng, beat |-> b]
    PROVE  /\ Heartbeat(s).eng \in Engines
           /\ Heartbeat(s).eng.target = s.eng.target
<1>1. PICK b : s = [eng |-> s.eng, beat |-> b]
  OBVIOUS
<1>2. \/ Heartbeat(s).eng = s.eng
      \/ Heartbeat(s).eng = ExpectBoot(s.eng)
      \/ Heartbeat(s).eng = Type(s.eng, "newline")
  <2>1. CASE s.eng.target = "DutOff"
    <3> DEFINE x == ExpectBoot(s.eng)
    <3>1. Heartbeat(s) = [s EXCEPT !.eng = x]
      BY <2>1 DEF Heartbeat
    <3> HIDE DEF x
    <3>2. Heartbeat(s).eng = x
      BY <1>1, <3>1
    <3> QED
      BY <3>2 DEF x
  <2>2. CASE s.eng.target # "DutOff"
    BY <2>2 DEF Heartbeat
  <2> QED
    BY <2>1, <2>2
<1>3. "newline" \in Typed
  BY DEF Typed
<1> QED
  BY <1>2, <1>3, ArmedTyped, TypeTyped

\* CheckHang gives a pair.
LEMMA CheckHangPair ==
    ASSUME NEW e, NEW b \in Beats
    PROVE  LET s == CheckHang([eng |-> e, beat |-> b])
           IN  \E c : s = [eng |-> s.eng, beat |-> c]
<1> DEFINE s0 == [eng |-> e, beat |-> b]
           Pair(s) == s = [eng |-> s.eng, beat |-> s.beat]
<1>a. s0.eng = e /\ s0.beat = b /\ b.age \in Int /\ ProbeWindow \in Int
  BY BeatsIs, BoardAssumption DEF Ages
<1>1. Pair(s0)
  OBVIOUS
<1>2. \A p : Pair([s0 EXCEPT !.beat = p])
  OBVIOUS
<1>3. \A x : Pair([s0 EXCEPT !.eng = x])
  OBVIOUS
<1>4. Pair(Miss(s0))
  BY DEF Miss
<1>5. Pair(Overdue(s0))
  <2>1. CASE b.probe # "flight"
    BY <2>1 DEF Overdue
  <2>2. CASE b.probe = "flight" /\ b.age > ProbeWindow
    <3>1. Overdue(s0) = Miss(s0)
      BY <1>a, <2>2 DEF Overdue
    <3> QED
      BY <1>4, <3>1
  <2>3. CASE b.probe = "flight" /\ b.age <= ProbeWindow
    <3>1. Overdue(s0) = s0
      BY <1>a, <2>3 DEF Overdue
    <3> QED
      BY <1>1, <3>1
  <2> QED
    BY <1>a, <2>1, <2>2, <2>3
<1>6. Pair(CheckHang(s0))
  <2>1. CASE e.target \notin {"Booting", "Active"}
    BY <2>1 DEF CheckHang
  <2>2. CASE e.target \in {"Booting", "Active"} /\ e.target = "Booting" /\ e.bootAge >= BootWindow
    BY <2>2 DEF CheckHang
  <2>3. CASE e.target \in {"Booting", "Active"} /\ ~(e.target = "Booting" /\ e.bootAge >= BootWindow)
    <3>1. CheckHang(s0) = IF b.quiet > HangTimeout THEN Overdue(s0) ELSE s0
      BY <2>3 DEF CheckHang
    <3> HIDE DEF s0
    <3> QED
      BY <1>1, <1>5, <3>1
  <2> QED
    BY <2>1, <2>2, <2>3
<1> QED
  BY <1>6

\* Every step of the engine leaves it well formed.
LEMMA EngineNext ==
    ASSUME eng \in Engines, beat \in Beats, wire \in Seq(Pieces), BoardNext
    PROVE  eng' \in Engines
<1>0. Targets = {"Active", "Booting", "UBoot", "Crashed", "DutOff", "Dutabo"}
  BY EngineValues
<1>1. CASE BoardMoves
  BY <1>1 DEF BoardMoves
<1>2. CASE TypedLineArrives
  <2>1. Tail(eng.tx) \in Channels /\ eng' = [eng EXCEPT !.tx = Tail(@)]
    BY <1>2, ChannelFacts DEF TypedLineArrives, Engines
  <2> QED
    BY <2>1 DEF Engines
<1>3. ASSUME NEW n \in 1 .. Len(wire), Read(n) PROVE eng' \in Engines
  <2> DEFINE chunk == SubSeq(wire, 1, n)
  <2>1. chunk \in Seq(Pieces)
    BY <1>3
  <2>2. eng' = AfterRead(eng, chunk, SplitLines(eng.held, chunk))
    BY <1>3 DEF Read
  <2> HIDE DEF chunk
  <2> QED
    BY <2>1, <2>2, AfterReadTyped
<1>4. CASE Watchdog
  <2> DEFINE s == CheckHang([eng |-> eng, beat |-> beat])
  <2>1. eng' = Heartbeat(s).eng
    BY <1>4 DEF Watchdog
  <2>2. s.eng \in Engines /\ \E b : s = [eng |-> s.eng, beat |-> b]
    BY CheckHangTyped, CheckHangPair
  <2> HIDE DEF s
  <2> QED
    BY <2>1, <2>2, HeartbeatTyped
<1>5. CASE Tick
  <2> DEFINE a == IF eng.target = "Booting" THEN Up(eng.bootAge, BootWindow) ELSE 0
  <2>1. a \in BootAges /\ {} \in Recents
    BY EngineValues DEF Engines
  <2>2. eng' = [eng EXCEPT !.bootAge = a, !.recent = {}]
    BY <1>5 DEF Tick
  <2> HIDE DEF a
  <2> QED
    BY <2>1, <2>2 DEF Engines
<1>6. /\ \A t \in {"Active", "Booting", "DutOff", "Dutabo"} : To(eng, t) \in Engines
      /\ ResetCycle(ExpectBoot(eng)) \in Engines
  BY <1>0, ToTyped, ArmedTyped
<1>7. /\ To(ResetCycle(ExpectBoot(eng)), "Booting") \in Engines
      /\ ResetCycle(ExpectBoot(To(eng, "Booting"))) \in Engines
  BY <1>0, <1>6, ToTyped, ArmedTyped
<1>8. "reboot" \in Typed /\ "newline" \in Typed
  BY DEF Typed
<1>9. /\ Type(eng, "newline") \in Engines
      /\ ResetCycle(ExpectBoot(Type(To(eng, "Booting"), "reboot"))) \in Engines
  BY <1>6, <1>8, TypeTyped, ArmedTyped
<1>10. CASE PowerCycle \/ ResetTarget \/ RelayReset \/ SoftwareReboot
  BY <1>6, <1>7, <1>9, <1>10 DEF PowerCycle, ResetTarget, RelayReset, SoftwareReboot
<1>11. CASE ProbeStart \/ ProbeEnd \/ TakeOver \/ HandBack
  BY <1>6, <1>9, <1>11 DEF ProbeStart, ProbeEnd, TakeOver, HandBack
<1> QED
  BY <1>1, <1>2, <1>3, <1>4, <1>5, <1>10, <1>11 DEF BoardNext

BoardInv ==
    /\ eng \in Engines
    /\ beat \in Beats
    /\ board \in Phases
    /\ wire \in Seq(Pieces) /\ Len(wire) <= WireCap
    /\ probing \in {"no", "sent", "heard"}
    /\ names \in Nat
    /\ events \in 0 .. MaxEvents
    /\ tools \in 0 .. MaxTools

\* The invariant is about the types.
LEMMA InvTyped == BoardInv => BoardTypeOK
BY DEF BoardInv, BoardTypeOK, Engines, BootAges, Tries, Channels, Recents, HeldSets, Pieces

\* The board stays in one of its phases, what it prints within the wire.
LEMMA WireNext ==
    ASSUME BoardInv, BoardNext
    PROVE  /\ board' \in Phases
           /\ wire' \in Seq(Pieces) /\ Len(wire') <= WireCap
           /\ names' \in Nat
<1>1. /\ board \in Phases /\ wire \in Seq(Pieces) /\ Len(wire) <= WireCap
      /\ names \in Nat /\ WireCap \in Nat
  BY BoardAssumption DEF BoardInv
<1>2. ASSUME NEW s \in Seq(Pieces), Len(wire) + Len(s) <= WireCap, wire' = wire \o s
      PROVE  wire' \in Seq(Pieces) /\ Len(wire') <= WireCap
  BY <1>1, <1>2
<1>3. CASE BoardMoves
  <2>1. PICK move \in Moves :
          /\ Len(wire) + Len(move[2]) <= WireCap
          /\ wire' = wire \o move[2] /\ board' = move[3]
          /\ names' = IF board' = "rom" THEN 0 ELSE names
    BY <1>3 DEF BoardMoves
  <2>2. move[3] \in Phases
    BY DEF Moves, Phases, Running
  <2> QED
    BY <1>1, <1>2, <2>1, <2>2, MovesPrint
<1>4. CASE TypedLineArrives
  <2>1. PICK answer \in Answers(board, Head(eng.tx)) :
          /\ Len(wire) + Len(answer[1]) <= WireCap
          /\ wire' = wire \o answer[1] /\ board' = answer[2]
          /\ names' \in {0, names + 1, names}
    BY <1>4 DEF TypedLineArrives
  <2>2. answer[2] \in Phases
    BY <1>1 DEF Answers, Phases
  <2> QED
    BY <1>1, <1>2, <2>1, <2>2, AnswersPrint
<1>5. ASSUME NEW n \in 1 .. Len(wire), Read(n)
      PROVE  /\ board' \in Phases
             /\ wire' \in Seq(Pieces) /\ Len(wire') <= WireCap
             /\ names' \in Nat
  <2>1. wire' = SubSeq(wire, n + 1, Len(wire)) /\ UNCHANGED <<board, names>>
    BY <1>5 DEF Read
  <2>2. wire' \in Seq(Pieces)
    BY <1>1, <1>5, ReadShortens
  <2>3. Len(wire') <= Len(wire)
    BY <1>1, <2>1
  <2>4. Len(wire') \in Nat /\ Len(wire) \in Nat
    BY <1>1, <2>2
  <2> QED
    BY <1>1, <2>1, <2>2, <2>3, <2>4
<1>6. CASE PowerCycle \/ ResetTarget \/ RelayReset
  <2>1. board' \in {"rom", "dark", board} /\ wire' = wire /\ names' \in {0, names}
    BY <1>6 DEF PowerCycle, ResetTarget, RelayReset, Restarted
  <2> QED
    BY <1>1, <2>1 DEF Phases
<1>7. CASE Watchdog \/ Tick \/ SoftwareReboot \/ ProbeStart \/ ProbeEnd \/ TakeOver \/ HandBack
  <2>1. UNCHANGED <<board, wire, names>>
    BY <1>7 DEF Watchdog, Tick, SoftwareReboot, ProbeStart, ProbeEnd, TakeOver, HandBack
  <2> QED
    BY <1>1, <2>1
<1> QED
  BY <1>3, <1>4, <1>5, <1>6, <1>7 DEF BoardNext

\* The counters stay within their bounds.
LEMMA CountersNext ==
    ASSUME BoardInv, BoardNext
    PROVE  /\ probing' \in {"no", "sent", "heard"}
           /\ events' \in 0 .. MaxEvents
           /\ tools' \in 0 .. MaxTools
<1>1. /\ probing \in {"no", "sent", "heard"} /\ events \in 0 .. MaxEvents
      /\ tools \in 0 .. MaxTools /\ MaxEvents \in Nat /\ MaxTools \in Nat
  BY BoardAssumption DEF BoardInv
<1>2. CASE BoardMoves
  <2>1. events < MaxEvents /\ events' = events + 1 /\ UNCHANGED <<probing, tools>>
    BY <1>2 DEF BoardMoves
  <2> QED
    BY <1>1, <2>1
<1>3. CASE PowerCycle \/ ResetTarget \/ RelayReset \/ SoftwareReboot \/ ProbeStart \/ TakeOver
  <2>1. tools < MaxTools /\ tools' = tools + 1 /\ UNCHANGED events
        /\ probing' \in {probing, "sent"}
    BY <1>3 DEF PowerCycle, ResetTarget, RelayReset, SoftwareReboot, ProbeStart, TakeOver,
                ToolRuns
  <2> QED
    BY <1>1, <2>1
<1>4. CASE TypedLineArrives \/ (\E n \in 1 .. Len(wire) : Read(n)) \/ Watchdog \/ Tick
           \/ ProbeEnd \/ HandBack
  <2>1. UNCHANGED <<events, tools>> /\ probing' \in {probing, "heard", "no"}
    BY <1>4 DEF TypedLineArrives, Read, Watchdog, Tick, ProbeEnd, HandBack
  <2> QED
    BY <1>1, <2>1
<1> QED
  BY <1>2, <1>3, <1>4 DEF BoardNext

\* A step that leaves the crashed state is none of the watchdog, of silence, or
\* of a read without a loud piece.
LEMMA CrashStep ==
    ASSUME BoardInv, BoardNext, eng.target = "Crashed", tools' = tools, probing = "no",
           (ToSet(Heard) \cup eng.held) \cap Loud = {}
    PROVE  eng'.target = "Crashed"
<1>1. eng \in Engines /\ beat \in Beats /\ wire \in Seq(Pieces) /\ tools \in Nat
  BY BoardAssumption DEF BoardInv
<1>2. CASE BoardMoves \/ TypedLineArrives \/ Tick
  BY <1>1, <1>2 DEF BoardMoves, TypedLineArrives, Tick, Engines
<1>3. ASSUME NEW n \in 1 .. Len(wire), Read(n) PROVE eng'.target = "Crashed"
  <2> DEFINE chunk == SubSeq(wire, 1, n)
  <2>1. chunk \in Seq(Pieces)
    BY <1>1, <1>3
  <2>2. eng' = AfterRead(eng, chunk, SplitLines(eng.held, chunk))
    BY <1>3 DEF Read
  <2>3. Len(wire) - Len(wire') = n
    <3>1. wire' = SubSeq(wire, n + 1, Len(wire))
      BY <1>3 DEF Read
    <3>2. Len(wire) \in Nat /\ n \in Nat /\ n >= 1 /\ n <= Len(wire)
      BY <1>1
    <3>3. Len(SubSeq(wire, n + 1, Len(wire))) = Len(wire) - n
      BY <1>1, <3>2
    <3> QED
      BY <3>1, <3>2, <3>3
  <2>4. Heard = chunk
    BY <2>3 DEF Heard
  <2> HIDE DEF chunk
  <2> QED
    BY <1>1, <2>1, <2>2, <2>4, AfterReadTyped
<1>4. CASE Watchdog
  <2> DEFINE s == CheckHang([eng |-> eng, beat |-> beat])
  <2>1. eng' = Heartbeat(s).eng
    BY <1>4 DEF Watchdog
  <2>2. /\ s.eng \in Engines /\ s.eng.target = "Crashed"
        /\ \E b : s = [eng |-> s.eng, beat |-> b]
    BY <1>1, CheckHangTyped, CheckHangPair
  <2> HIDE DEF s
  <2> QED
    BY <2>1, <2>2, HeartbeatTyped
<1>5. ~(PowerCycle \/ ResetTarget \/ RelayReset \/ SoftwareReboot \/ ProbeStart \/ TakeOver)
  <2>1. tools + 1 # tools
    BY <1>1
  <2> QED
    BY <2>1 DEF PowerCycle, ResetTarget, RelayReset, SoftwareReboot, ProbeStart, TakeOver,
                ToolRuns
<1>6. ~ProbeEnd /\ ~HandBack
  BY DEF ProbeEnd, HandBack
<1> QED
  BY <1>2, <1>3, <1>4, <1>5, <1>6 DEF BoardNext

\* Every step keeps the types.
LEMMA BoardInvStep == BoardInv /\ BeatInv /\ [BoardNext]_boardVars => BoardInv'
<1>1. BoardInv /\ UNCHANGED boardVars => BoardInv'
  BY DEF BoardInv, boardVars
<1>2. ASSUME BoardInv, BeatInv, BoardNext PROVE BoardInv'
  <2>1. beat' \in Beats
    BY <1>2, BeatStep DEF BeatInv
  <2>2. eng' \in Engines
    BY <1>2, EngineNext DEF BoardInv
  <2> QED
    BY <1>2, <2>1, <2>2, WireNext, CountersNext DEF BoardInv
<1> QED
  BY <1>1, <1>2

\* They hold at first.
LEMMA BoardInvStarts == BoardInit => BoardInv
<1> SUFFICES ASSUME BoardInit PROVE BoardInv
  OBVIOUS
<1>1. NewEngine \in Engines
  BY EngineValues, ChannelFacts DEF NewEngine, Engines, HeldSets
<1>2. OnActivity \in Beats
  BY ActivityScored DEF Scored
<1>3. << >> \in Seq(Pieces) /\ Len(<< >>) = 0 /\ WireCap \in Nat
  BY BoardAssumption
<1> QED
  BY <1>1, <1>2, <1>3, BoardAssumption DEF BoardInit, BoardInv, Phases

\* They always hold.
LEMMA BoardInvHolds == BoardSpec => []BoardInv
BY BoardInvStarts, BoardInvStep, BeatCorrect, PTL DEF BoardSpec

\* The engine and its board are well formed whatever arrives, and the channel and
\* the counters keep their bounds.
THEOREM BoardTyped == BoardSpec => []BoardTypeOK
BY BoardInvHolds, InvTyped, PTL

\* A crash is not forgotten because of silence, of text, of a login prompt or of a
\* firmware banner.
THEOREM CrashStays == BoardSpec => CrashIsKept
<1>1. BoardInv /\ [BoardNext]_boardVars =>
        [(eng.target = "Crashed" /\ eng'.target # "Crashed") =>
           \/ tools' # tools \/ probing # "no"
           \/ (ToSet(Heard) \cup eng.held) \cap
                {"ddr", "spl", "restart", "powerdown", "shell"} # {}]_boardVars
  BY CrashStep DEF Loud
<1> QED
  BY <1>1, BoardInvHolds, PTL DEF BoardSpec, CrashIsKept
=============================================================================
