------------------------ MODULE CommandSessionProofs ------------------------
(***************************************************************************)
(* Proofs about CommandSession, for every number of commands, every bound  *)
(* and every stream of bytes: no accepted command is lost or answered      *)
(* twice, the queue never stalls, and an answer is final; commands take    *)
(* their turns; and every variable keeps its type, the bytes held before a *)
(* begin marker staying bounded.                                           *)
(*                                                                         *)
(* The methods of the queue call each other, so the proof follows them:    *)
(* one lemma per method says that it takes a well-formed queue to a        *)
(* well-formed queue and changes no answer.  Nothing is assumed of the     *)
(* bytes fed: they decide which branch is taken, never what it keeps.      *)
(***************************************************************************)
EXTENDS CommandSession, Integers, FiniteSetTheorems, TLAPS

-----------------------------------------------------------------------------
(* Facts about the helpers the model takes from the community modules.     *)

\* A non-empty set of naturals has the minimum that Min names.  (Intervals
\* 0 .. m are ordered by strict inclusion, which is well-founded.)
LEMMA MinOfNaturals ==
    ASSUME NEW S \in SUBSET Nat, S # {}
    PROVE  Min(S) \in S /\ \A m \in S : Min(S) <= m
<1>1. PICK k \in S : TRUE
  OBVIOUS
<1> DEFINE I == 0 .. k
<1> DEFINE R == StrictSubsetOrdering(I)
<1> DEFINE T == {0 .. m : m \in {j \in S : j <= k}}
<1>2. IsWellFoundedOn(R, FiniteSubsetsOf(I))
  BY FS_StrictSubsetOrderingWellFounded
<1>3. T \subseteq FiniteSubsetsOf(I) /\ T # {}
  <2>1. ASSUME NEW m \in S, m <= k
        PROVE  0 .. m \in FiniteSubsetsOf(I)
    <3>1. IsFiniteSet(0 .. m)
      BY FS_Interval
    <3>2. 0 .. m \in SUBSET I
      BY <2>1
    <3> QED  BY <3>1, <3>2 DEF FiniteSubsetsOf
  <2>2. 0 .. k \in T
    BY <1>1
  <2> QED  BY <2>1, <2>2
<1>4. PICK x \in T : \A y \in T : ~ (<<y, x>> \in R)
  <2> HIDE DEF R, T, I
  <2> QED  BY <1>2, <1>3, WFMin
<1>5. PICK n \in S : n <= k /\ x = 0 .. n
  BY <1>4
<1>6. ASSUME NEW m \in S, m < n
      PROVE  FALSE
  <2>1. 0 .. m \in T
    BY <1>5, <1>6
  <2>2. 0 .. m \subseteq x /\ 0 .. m # x /\ x \subseteq I
    <3>1. n \in 0 .. n /\ n \notin 0 .. m
      BY <1>6
    <3> QED  BY <1>5, <1>6, <3>1
  <2>3. <<0 .. m, x>> \in R
    BY <2>2 DEF StrictSubsetOrdering
  <2> QED  BY <2>1, <2>3, <1>4
<1>7. n \in S /\ \A m \in S : n <= m
  BY <1>6
<1> QED
  BY <1>7 DEF Min

\* The elements of a sequence after an append.
LEMMA ToSetAppend ==
    ASSUME NEW T, NEW s \in Seq(T), NEW e \in T
    PROVE  /\ Append(s, e) \in Seq(T)
           /\ ToSet(Append(s, e)) = ToSet(s) \cup {e}
<1>1. /\ Append(s, e) \in Seq(T)
      /\ DOMAIN Append(s, e) = 1 .. Len(s) + 1
      /\ Append(s, e)[Len(s) + 1] = e
      /\ \A i \in 1 .. Len(s) : Append(s, e)[i] = s[i]
      /\ DOMAIN s = 1 .. Len(s)
      /\ Len(s) \in Nat
  OBVIOUS
<1> QED
  BY <1>1 DEF ToSet

\* What is left of a sequence whose first k elements are removed.
LEMMA ToSetSuffix ==
    ASSUME NEW T, NEW s \in Seq(T), NEW k \in Nat, k <= Len(s)
    PROVE  /\ SubSeq(s, k + 1, Len(s)) \in Seq(T)
           /\ Len(SubSeq(s, k + 1, Len(s))) = Len(s) - k
           /\ \A i \in 1 .. Len(s) - k : SubSeq(s, k + 1, Len(s))[i] = s[k + i]
           /\ \A x : x \in ToSet(SubSeq(s, k + 1, Len(s)))
                       <=> \E i \in k + 1 .. Len(s) : x = s[i]
<1> DEFINE r == SubSeq(s, k + 1, Len(s))
<1>1. r \in Seq(T) /\ Len(r) = Len(s) - k
  OBVIOUS
<1>2. \A i \in 1 .. Len(s) - k : r[i] = s[k + i]
  OBVIOUS
<1>3. \A x : x \in ToSet(r) <=> \E i \in k + 1 .. Len(s) : x = s[i]
  <2>1. DOMAIN r = 1 .. Len(s) - k
    BY <1>1
  <2> HIDE DEF r
  <2>2. ASSUME NEW x \in ToSet(r)
        PROVE  \E i \in k + 1 .. Len(s) : x = s[i]
    <3>1. PICK i \in 1 .. Len(s) - k : x = r[i]
      BY <2>1 DEF ToSet
    <3>2. x = s[k + i] /\ k + i \in k + 1 .. Len(s)
      BY <3>1, <1>2
    <3> QED  BY <3>2
  <2>3. ASSUME NEW i \in k + 1 .. Len(s)
        PROVE  s[i] \in ToSet(r)
    <3>1. i - k \in 1 .. Len(s) - k /\ r[i - k] = s[i]
      BY <1>2
    <3> QED  BY <3>1, <2>1 DEF ToSet
  <2> QED  BY <2>2, <2>3
<1> QED
  BY <1>1, <1>2, <1>3

\* A sequence without repetitions.
Distinct(s) == \A i, j \in DOMAIN s : s[i] = s[j] => i = j

\* A sequence without repetitions falls apart, at one of its positions, into
\* the elements before, the element there and the elements after.
LEMMA DistinctSplit ==
    ASSUME NEW T, NEW p \in Seq(T), Distinct(p),
           NEW n \in Nat, n + 1 <= Len(p)
    PROVE  LET a == {p[i] : i \in 1 .. n}
               r == SubSeq(p, n + 2, Len(p))
           IN
           /\ r \in Seq(T)
           /\ Distinct(r)
           /\ p[n + 1] \in T
           /\ p[n + 1] \notin a
           /\ p[n + 1] \notin ToSet(r)
           /\ ToSet(p) = a \cup {p[n + 1]} \cup ToSet(r)
           /\ a \cap ToSet(r) = {}
<1>0. \A k \in Nat : k <= Len(p) =>
         LET t == SubSeq(p, k + 1, Len(p)) IN
         /\ t \in Seq(T) /\ Len(t) = Len(p) - k
         /\ \A i \in 1 .. Len(p) - k : t[i] = p[k + i]
         /\ \A x : x \in ToSet(t) <=> \E i \in k + 1 .. Len(p) : x = p[i]
  BY ToSetSuffix
<1> DEFINE a == {p[i] : i \in 1 .. n}
<1> DEFINE r == SubSeq(p, n + 2, Len(p))
<1>1. /\ Len(p) \in Nat /\ DOMAIN p = 1 .. Len(p)
      /\ \A i \in 1 .. Len(p) : p[i] \in T
  OBVIOUS
<1>2. \A i, j \in 1 .. Len(p) : p[i] = p[j] => i = j
  BY <1>1 DEF Distinct
<1> DEFINE k == n + 1
<1>3. k \in Nat /\ k <= Len(p) /\ k + 1 = n + 2
  OBVIOUS
<1>4. r = SubSeq(p, k + 1, Len(p))
  BY <1>3
<1>5. /\ r \in Seq(T) /\ Len(r) = Len(p) - k
      /\ \A i \in 1 .. Len(p) - k : r[i] = p[k + i]
      /\ \A x : x \in ToSet(r) <=> \E i \in k + 1 .. Len(p) : x = p[i]
  <2> HIDE DEF k, r, a
  <2> QED  BY <1>0, <1>3, <1>4
<1>6. Distinct(r)
  <2>1. SUFFICES ASSUME NEW i \in 1 .. Len(p) - k, NEW j \in 1 .. Len(p) - k,
                        r[i] = r[j]
                 PROVE  i = j
    BY <1>5 DEF Distinct
  <2>2. p[k + i] = p[k + j]
    BY <1>5, <2>1
  <2>3. k + i \in 1 .. Len(p) /\ k + j \in 1 .. Len(p)
    BY <1>1, <1>3
  <2> QED  BY <1>2, <1>3, <2>2, <2>3
<1>7. p[k] \in T
  BY <1>1, <1>3
<1>10. p[k] \notin a
  <2>1. \A i \in 1 .. n : p[i] # p[k]
    BY <1>1, <1>2, <1>3
  <2> QED  BY <2>1
<1>11. p[k] \notin ToSet(r)
  <2>1. \A i \in k + 1 .. Len(p) : p[k] # p[i]
    BY <1>1, <1>2, <1>3
  <2> HIDE DEF k
  <2> QED  BY <1>5, <2>1
<1>8. a \cap ToSet(r) = {}
  <2>1. SUFFICES ASSUME NEW x \in a, x \in ToSet(r) PROVE FALSE
    OBVIOUS
  <2>2. PICK i \in 1 .. n : x = p[i]
    OBVIOUS
  <2>3. PICK j \in k + 1 .. Len(p) : x = p[j]
    BY <1>5, <2>1
  <2> QED  BY <1>1, <1>2, <1>3, <2>2, <2>3
<1>9. ToSet(p) = a \cup {p[k]} \cup ToSet(r)
  <2>1. \A x : x \in ToSet(p) <=> \E i \in 1 .. Len(p) : x = p[i]
    BY <1>1 DEF ToSet
  <2>2. \A x : x \in a <=> \E i \in 1 .. n : x = p[i]
    OBVIOUS
  <2>3. \A i : i \in 1 .. Len(p) <=> i \in 1 .. n \/ i = k \/ i \in k + 1 .. Len(p)
    BY <1>1, <1>3
  <2>4. \A x : x \in ToSet(p) <=> x \in a \/ x = p[k] \/ x \in ToSet(r)
    <3> HIDE DEF k
    <3> QED  BY <1>5, <2>1, <2>2, <2>3
  <2> QED  BY <2>4
<1> QED
  BY <1>5, <1>6, <1>7, <1>8, <1>9, <1>10, <1>11

\* An element that does not occur may be appended.
LEMMA DistinctAppend ==
    ASSUME NEW T, NEW s \in Seq(T), Distinct(s), NEW e \in T, e \notin ToSet(s)
    PROVE  Distinct(Append(s, e))
<1> DEFINE r == Append(s, e)
<1>1. /\ Len(s) \in Nat /\ DOMAIN s = 1 .. Len(s)
      /\ DOMAIN r = 1 .. Len(s) + 1 /\ r[Len(s) + 1] = e
      /\ \A i \in 1 .. Len(s) : r[i] = s[i]
  OBVIOUS
<1>2. \A i \in 1 .. Len(s) : s[i] # e
  BY <1>1 DEF ToSet
<1> HIDE DEF r
<1>3. \A i \in 1 .. Len(s) + 1 : i \in 1 .. Len(s) \/ i = Len(s) + 1
  BY <1>1
<1>4. \A i, j \in 1 .. Len(s) + 1 : r[i] = r[j] => i = j
  BY <1>1, <1>2, <1>3 DEF Distinct
<1> QED
  BY <1>1, <1>4 DEF Distinct, r

-----------------------------------------------------------------------------
(* The inductive invariant, as a predicate on a queue and the set of the   *)
(* commands submitted to it.                                               *)

\* q has the fields of a queue; nothing is said of the scanner's state.
Fields == {"current", "pending", "scan", "result", "write_fn", "tx",
           "completed", "errors"}

IsQueue(q) ==
    /\ q = [f \in Fields |-> q[f]]
    /\ q.current \in Commands \cup {NoCommand}
    /\ q.pending \in Seq(Commands)
    /\ q.result = [c \in Commands |-> q.result[c]]
    /\ q.write_fn \in BOOLEAN

\* InOnePlace for a queue and the set of submitted commands; a command that
\* was not submitted has no answer and no place.
Placed(q, S) ==
    /\ Distinct(q.pending)
    /\ q.current \notin ToSet(q.pending)
    /\ \A c \in Commands \ S :
          /\ q.result[c] = NoResult
          /\ c # q.current /\ c \notin ToSet(q.pending)
    /\ \A c \in S :
          q.result[c] = NoResult <=> (c = q.current \/ c \in ToSet(q.pending))

Slots(q, S) == IsQueue(q) /\ Placed(q, S)

\* Before the write function is installed nothing is current or waiting.
Wired(q) == ~q.write_fn => q.current = NoCommand /\ q.pending = <<>>

\* NeverStalls, and what it needs.
Moving(q) ==
    /\ q.current = NoCommand => q.pending = <<>>
    /\ Wired(q)

\* r keeps every answer q holds.
Keeps(q, r) ==
    \A c \in Commands : q.result[c] # NoResult => r.result[c] = q.result[c]

-----------------------------------------------------------------------------
(* Lemmas about the methods.                                               *)

\* Every answer differs from no answer.
LEMMA AnswersAreAnswers ==
    /\ \A out : TimedOut(out) # NoResult
    /\ \A out, exit : OkResult(out, exit) # NoResult
    /\ \A out : ExtractExit(out) # NoResult
    /\ Rejected # NoResult
    /\ Closed # NoResult
<1>1. \A out, exit : OkResult(out, exit) # NoResult
  BY DEF OkResult, NoResult
<1>2. \A out : ExtractExit(out) # NoResult
  BY <1>1 DEF ExtractExit
<1> QED
  BY <1>1, <1>2 DEF TimedOut, Rejected, Closed, NoResult

\* send_command puts the one unplaced command on the line, or answers it.
LEMMA SendCommandSlots ==
    ASSUME NEW q, NEW S \in SUBSET Commands, NEW c \in S,
           IsQueue(q), Placed(q, S \ {c}), q.current = NoCommand
    PROVE  /\ Slots(SendCommand(q, c), S)
           /\ Keeps(q, SendCommand(q, c))
           /\ SendCommand(q, c).pending = q.pending
           /\ SendCommand(q, c).write_fn = q.write_fn
           /\ q.write_fn => SendCommand(q, c).current = c
           /\ ~q.write_fn => SendCommand(q, c).current = NoCommand
<1> DEFINE r == SendCommand(q, c)
<1>0. c \in Commands /\ q.result[c] = NoResult /\ c \notin ToSet(q.pending)
  BY DEF Placed
<1>1. CASE q.write_fn
  <2>1. /\ r.current = c /\ r.pending = q.pending /\ r.result = q.result
        /\ r.write_fn = q.write_fn
        /\ IsQueue(r)
    BY <1>1, <1>0 DEF SendCommand, IsQueue, Fields
  <2>2. Placed(r, S)
    BY <2>1, <1>0, QueueAssumption DEF Placed
  <2> QED  BY <1>1, <2>1, <2>2 DEF Slots, Keeps
<1>2. CASE ~q.write_fn
  <2>1. /\ r.current = q.current /\ r.pending = q.pending
        /\ r.write_fn = q.write_fn
        /\ r.result = [q.result EXCEPT ![c] = Closed]
        /\ IsQueue(r)
    BY <1>2, <1>0 DEF SendCommand, Resolve, IsQueue, Fields
  <2>2. \A d \in Commands :
           r.result[d] = IF d = c THEN Closed ELSE q.result[d]
    BY <2>1, <1>0 DEF IsQueue
  <2>3. Placed(r, S)
    BY <2>1, <2>2, <1>0, AnswersAreAnswers, QueueAssumption DEF Placed
  <2> QED  BY <1>2, <1>0, <2>1, <2>2, <2>3 DEF Slots, Keeps
<1> QED
  BY <1>1, <1>2

\* dequeue_next answers or drops what it skips, and leaves nothing waiting
\* behind an idle line.
LEMMA DequeueNextSlots ==
    ASSUME NEW q, NEW S \in SUBSET Commands, Slots(q, S), Wired(q)
    PROVE  /\ Slots(DequeueNext(q), S)
           /\ Moving(DequeueNext(q))
           /\ Keeps(q, DequeueNext(q))
<1>1. CASE q.current # NoCommand
  <2>1. DequeueNext(q) = q
    BY <1>1 DEF DequeueNext
  <2> QED  BY <2>1, <1>1 DEF Moving, Keeps
<1>2. CASE q.current = NoCommand
  <2> DEFINE p    == q.pending
  <2> DEFINE live == {i \in DOMAIN p : Sendable(p[i])}
  <2> DEFINE n    == IF live = {} THEN Len(p) ELSE Min(live) - 1
  <2> DEFINE skipped == {p[i] : i \in 1 .. n}
  <2> DEFINE late == skipped \ gone
  <2> DEFINE res  == [c \in Commands |-> IF c \in late THEN TimedOut(<<>>)
                                     ELSE IF c \in skipped THEN Closed
                                     ELSE q.result[c]]
  <2> DEFINE rest == SubSeq(p, n + 2, Len(p))
  <2> DEFINE errs == q.errors + Cardinality(late)
  <2> DEFINE left == [q EXCEPT !.pending = rest, !.result = res,
                               !.errors = errs]
  <2>1. p \in Seq(Commands) /\ Len(p) \in Nat /\ DOMAIN p = 1 .. Len(p)
    BY DEF Slots, IsQueue
  <2>2. /\ live = {} => n = Len(p)
        /\ live # {} => n \in Nat /\ n + 1 \in 1 .. Len(p)
    <3>1. live \in SUBSET Nat
      BY <2>1
    <3>2. live # {} => Min(live) \in live
      BY <3>1, MinOfNaturals
    <3> QED  BY <2>1, <3>2
  <2>3. n \in Nat /\ n <= Len(p)
    BY <2>1, <2>2
  <2>4. DequeueNext(q) = IF live = {} THEN left ELSE SendCommand(left, p[n + 1])
    BY <1>2 DEF DequeueNext
  <2> HIDE DEF live, n
  <2>5. /\ left.current = NoCommand /\ left.pending = rest
        /\ left.write_fn = q.write_fn /\ left.result = res
    <3> HIDE DEF rest, res, errs
    <3> QED  BY <1>2 DEF Slots, IsQueue, Fields
  <2>50. left = [f \in Fields |-> left[f]]
    <3> HIDE DEF rest, res, errs
    <3> QED  BY DEF Slots, IsQueue, Fields
  <2>6. \A c \in Commands :
           /\ c \in skipped => left.result[c] # NoResult
           /\ c \notin skipped => left.result[c] = q.result[c]
    <3> HIDE DEF left, skipped
    <3> QED  BY <2>5, AnswersAreAnswers
  <2>7. skipped \subseteq ToSet(p) /\ skipped \subseteq Commands
    BY <2>1, <2>3 DEF ToSet
  <2> HIDE DEF left
  <2>8. CASE live = {}
    <3>1. left.pending = <<>> /\ skipped = ToSet(p)
      BY <2>1, <2>2, <2>5, <2>8 DEF ToSet
    <3>2. IsQueue(left)
      <4>1. left.result = [c \in Commands |-> left.result[c]]
        <5> HIDE DEF skipped, late
        <5> QED  BY <2>5
      <4>2. left.write_fn \in BOOLEAN /\ left.pending \in Seq(Commands)
        <5> HIDE DEF res, rest
        <5> QED  BY <2>5, <3>1 DEF Slots, IsQueue
      <4> HIDE DEF rest, res
      <4> QED  BY <2>5, <2>50, <1>2, <4>1, <4>2 DEF IsQueue
    <3>3. Placed(left, S)
      <4> HIDE DEF p
      <4>1. ToSet(left.pending) = {} /\ Distinct(left.pending)
        BY <3>1 DEF ToSet, Distinct
      <4>2. ASSUME NEW c \in Commands \ S
            PROVE  left.result[c] = NoResult /\ c # left.current
        BY <2>5, <2>6, <2>7, QueueAssumption DEF Slots, Placed, p
      <4>3. ASSUME NEW c \in S
            PROVE  left.result[c] # NoResult
        BY <3>1, <2>6, <1>2, QueueAssumption DEF Slots, Placed, p
      <4>4. \A c \in S : c # left.current
        BY <2>5, QueueAssumption
      <4> QED  BY <4>1, <4>2, <4>3, <4>4 DEF Placed
    <3>4. Keeps(q, left)
      BY <2>6, <3>1, <2>7 DEF Slots, Placed, Keeps
    <3> QED  BY <2>4, <2>8, <3>1, <3>2, <3>3, <3>4, <2>5 DEF Slots, Moving, Wired
  <2>9. CASE live # {}
    <3> DEFINE c == p[n + 1]
    <3>1. /\ left.pending \in Seq(Commands)
          /\ Distinct(left.pending)
          /\ c \in Commands /\ c \notin skipped /\ c \notin ToSet(left.pending)
          /\ ToSet(p) = skipped \cup {c} \cup ToSet(left.pending)
          /\ skipped \cap ToSet(left.pending) = {}
      <4>1. n \in Nat /\ n + 1 <= Len(p)
        BY <2>1, <2>2, <2>9
      <4>2. Distinct(p)
        BY DEF Slots, Placed
      <4>3. skipped = {p[i] : i \in 1 .. n}
        OBVIOUS
      <4>4. left.pending = SubSeq(p, n + 2, Len(p))
        BY <2>5
      <4> HIDE DEF p, skipped, rest, res
      <4>5. LET a == {p[i] : i \in 1 .. n}
                r == SubSeq(p, n + 2, Len(p))
            IN  /\ r \in Seq(Commands)
                /\ Distinct(r)
                /\ p[n + 1] \in Commands
                /\ p[n + 1] \notin a
                /\ p[n + 1] \notin ToSet(r)
                /\ ToSet(p) = a \cup {p[n + 1]} \cup ToSet(r)
                /\ a \cap ToSet(r) = {}
        BY <2>1, <4>1, <4>2, DistinctSplit
      <4> QED  BY <4>3, <4>4, <4>5
    <3>7. IsQueue(left)
      <4>1. left.result = [d \in Commands |-> left.result[d]]
        <5> HIDE DEF skipped, late
        <5> QED  BY <2>5
      <4>2. left.write_fn \in BOOLEAN
        BY <2>5 DEF Slots, IsQueue
      <4> HIDE DEF rest, res
      <4> QED  BY <2>5, <2>50, <3>1, <4>1, <4>2 DEF IsQueue
    <3> HIDE DEF skipped, c
    <3>8. c \in S /\ q.result[c] = NoResult
      BY <3>1 DEF Slots, Placed
    <3>9. Placed(left, S \ {c})
      <4>1. left.current \notin ToSet(left.pending)
        <5>1. ToSet(left.pending) \subseteq ToSet(p) /\ ToSet(p) \subseteq Commands
          <6> HIDE DEF left, p, rest, res
          <6>1. ToSet(p) \subseteq Commands
            BY <2>1 DEF ToSet
          <6> QED  BY <3>1, <6>1
        <5> QED  BY <5>1, <2>5, QueueAssumption
      <4>2. ASSUME NEW d \in Commands \ (S \ {c})
            PROVE  /\ left.result[d] = NoResult
                   /\ d # left.current /\ d \notin ToSet(left.pending)
        <5>1. CASE d = c
          BY <5>1, <3>1, <3>8, <2>5, <2>6, QueueAssumption
        <5>2. CASE d # c
          BY <5>2, <3>1, <2>5, <2>6, QueueAssumption DEF Slots, Placed
        <5> QED  BY <5>1, <5>2
      <4>3. ASSUME NEW d \in S \ {c}
            PROVE  left.result[d] = NoResult <=>
                     (d = left.current \/ d \in ToSet(left.pending))
        <5>1. d # left.current /\ d # q.current
          BY <1>2, <2>5, QueueAssumption
        <5>2. q.result[d] = NoResult <=> d \in ToSet(p)
          BY <5>1 DEF Slots, Placed
        <5>3. CASE d \in skipped
          BY <5>1, <5>3, <2>6, <3>1
        <5>4. CASE d \notin skipped
          BY <5>1, <5>2, <5>4, <2>6, <3>1
        <5> QED  BY <5>3, <5>4
      <4> QED  BY <3>1, <4>1, <4>2, <4>3 DEF Placed
    <3>10. Keeps(q, left)
      BY <2>6, <2>7, <3>1 DEF Slots, Placed, Keeps
    <3>11. Wired(left) /\ q.write_fn
      <4>1. p # <<>>
        BY <2>1, <2>2, <2>9
      <4> QED  BY <4>1, <2>5 DEF Wired
    <3>12. /\ Slots(SendCommand(left, c), S)
           /\ Keeps(left, SendCommand(left, c))
           /\ SendCommand(left, c).current = c
           /\ SendCommand(left, c).write_fn
      <4> HIDE DEF Slots, Keeps
      <4>1. left.write_fn /\ left.current = NoCommand
        BY <2>5, <3>11
      <4>2. /\ Slots(SendCommand(left, c), S)
            /\ Keeps(left, SendCommand(left, c))
            /\ SendCommand(left, c).write_fn = left.write_fn
            /\ left.write_fn => SendCommand(left, c).current = c
        <5> HIDE DEF left, res, rest, errs, skipped, late, p
        <5>1. Slots(SendCommand(left, c), S)
          BY <3>7, <3>8, <3>9, <4>1, SendCommandSlots
        <5>2. Keeps(left, SendCommand(left, c))
          BY <3>7, <3>8, <3>9, <4>1, SendCommandSlots
        <5>3. SendCommand(left, c).write_fn = left.write_fn
          BY <3>7, <3>8, <3>9, <4>1, SendCommandSlots
        <5> QED  BY <3>7, <3>8, <3>9, <4>1, <5>1, <5>2, <5>3, SendCommandSlots
      <4> QED  BY <4>1, <4>2
    <3>13. DequeueNext(q) = SendCommand(left, c)
      BY <2>4, <2>9 DEF c
    <3> QED
      BY <3>8, <3>10, <3>12, <3>13, QueueAssumption DEF Moving, Wired, Keeps
  <2> QED  BY <2>8, <2>9
<1> QED
  BY <1>1, <1>2

\* A change of the scanner, the writer or the counters moves no command.
LEMMA SameSlots ==
    ASSUME NEW q, NEW r, NEW S \in SUBSET Commands,
           Slots(q, S), Moving(q), IsQueue(r),
           r.current = q.current, r.pending = q.pending,
           r.result = q.result, r.write_fn = q.write_fn
    PROVE  Slots(r, S) /\ Moving(r) /\ Keeps(q, r)
  BY DEF Slots, Placed, Moving, Wired, Keeps

\* execute gives the new command a place or an answer.
LEMMA SubmitSlots ==
    ASSUME NEW q, NEW S \in SUBSET Commands, NEW c \in Commands \ S,
           Slots(q, S), Moving(q)
    PROVE  /\ Slots(Submit(q, c), S \cup {c})
           /\ Moving(Submit(q, c))
           /\ Keeps(q, Submit(q, c))
<1> DEFINE r == Submit(q, c)
<1>1. /\ IsQueue(q) /\ Placed(q, S) /\ q.result[c] = NoResult
      /\ c # q.current /\ c \notin ToSet(q.pending) /\ c # NoCommand
  BY QueueAssumption DEF Slots, Placed
<1>2. CASE Len(q.pending) >= MaxPending
  <2>1. /\ r.current = q.current /\ r.pending = q.pending
        /\ r.write_fn = q.write_fn
        /\ r.result = [q.result EXCEPT ![c] = Rejected]
        /\ IsQueue(r)
    BY <1>1, <1>2 DEF Submit, Resolve, IsQueue, Fields
  <2>2. \A d \in Commands :
           r.result[d] = IF d = c THEN Rejected ELSE q.result[d]
    BY <2>1, <1>1 DEF IsQueue
  <2>3. Placed(r, S \cup {c})
    <3> HIDE DEF r
    <3> QED  BY <2>1, <2>2, <1>1, AnswersAreAnswers DEF Placed
  <2>4. Moving(r)
    BY <2>1 DEF Moving, Wired
  <2>5. Keeps(q, r)
    BY <2>2, <1>1 DEF Keeps
  <2> QED  BY <2>1, <2>3, <2>4, <2>5 DEF Slots
<1>3. CASE ~(Len(q.pending) >= MaxPending) /\ q.current = NoCommand
  <2>1. r = SendCommand(q, c)
    BY <1>3 DEF Submit
  <2>2. Placed(q, (S \cup {c}) \ {c})
    <3>1. (S \cup {c}) \ {c} = S
      OBVIOUS
    <3> QED  BY <3>1, <1>1
  <2> HIDE DEF r
  <2> DEFINE U == S \cup {c}
  <2>3. U \in SUBSET Commands /\ c \in U /\ Placed(q, U \ {c})
    BY <2>2
  <2> HIDE DEF U
  <2>4. /\ Slots(r, U) /\ Keeps(q, r)
        /\ r.pending = q.pending /\ r.write_fn = q.write_fn
        /\ q.write_fn => r.current = c
        /\ ~q.write_fn => r.current = NoCommand
    BY <2>1, <2>3, <1>1, <1>3, SendCommandSlots
  <2>5. Moving(r)
    BY <2>4, <1>3 DEF Moving, Wired
  <2> QED  BY <2>4, <2>5 DEF r, U
<1>4. CASE ~(Len(q.pending) >= MaxPending) /\ q.current # NoCommand
  <2>1. /\ r.current = q.current /\ r.pending = Append(q.pending, c)
        /\ r.write_fn = q.write_fn
        /\ r.result = q.result
        /\ r = [f \in Fields |-> r[f]]
    BY <1>1, <1>4 DEF Submit, IsQueue, Fields
  <2> HIDE DEF r
  <2>2. q.pending \in Seq(Commands)
    BY <1>1 DEF IsQueue
  <2>3. r.pending \in Seq(Commands) /\ ToSet(r.pending) = ToSet(q.pending) \cup {c}
    BY <2>1, <2>2, ToSetAppend
  <2>4. Distinct(r.pending)
    <3>1. Distinct(q.pending)
      BY <1>1 DEF Placed
    <3> QED  BY <2>1, <2>2, <3>1, <1>1, DistinctAppend
  <2>5. IsQueue(r)
    BY <2>1, <2>3, <1>1 DEF IsQueue
  <2>6. Placed(r, S \cup {c})
    BY <2>1, <2>3, <2>4, <1>1 DEF Placed
  <2>7. Moving(r)
    BY <2>1, <1>4 DEF Moving, Wired
  <2> QED  BY <2>1, <2>5, <2>6, <2>7 DEF Slots, Keeps, r
<1> QED
  BY <1>2, <1>3, <1>4

\* Answering the command on the line takes it off the line.
LEMMA RetireSlots ==
    ASSUME NEW q, NEW r, NEW S \in SUBSET Commands, NEW a,
           Slots(q, S), Moving(q), q.current # NoCommand, a # NoResult,
           r = [f \in Fields |-> r[f]],
           r.current = NoCommand, r.pending = q.pending,
           r.write_fn = q.write_fn,
           r.result = [q.result EXCEPT ![q.current] = a]
    PROVE  Slots(r, S) /\ Wired(r) /\ Keeps(q, r)
<1>1. /\ q.current \in S /\ q.result[q.current] = NoResult
      /\ q.current \notin ToSet(q.pending)
  BY DEF Slots, IsQueue, Placed
<1>2. \A d \in Commands :
         r.result[d] = IF d = q.current THEN a ELSE q.result[d]
  BY <1>1 DEF Slots, IsQueue
<1>3. r.result = [c \in Commands |-> r.result[c]]
  BY DEF Slots, IsQueue
<1>4. IsQueue(r)
  BY <1>3 DEF Slots, IsQueue
<1>5. Placed(r, S)
  <2>1. ToSet(q.pending) \subseteq Commands
    BY DEF Slots, IsQueue, ToSet
  <2> QED  BY <1>1, <1>2, <2>1, QueueAssumption DEF Slots, Placed
<1>6. Wired(r)
  BY DEF Moving, Wired
<1>7. Keeps(q, r)
  BY <1>1, <1>2 DEF Keeps
<1> QED
  BY <1>4, <1>5, <1>6, <1>7 DEF Slots

\* The timeout check answers the command on the line and starts the next.
LEMMA ExpireCurrentSlots ==
    ASSUME NEW q, NEW S \in SUBSET Commands, Slots(q, S), Moving(q)
    PROVE  /\ Slots(ExpireCurrent(q), S)
           /\ Moving(ExpireCurrent(q))
           /\ Keeps(q, ExpireCurrent(q))
<1>1. CASE ~CurrentExpired(q)
  BY <1>1 DEF ExpireCurrent, Keeps
<1>2. CASE CurrentExpired(q)
  <2> DEFINE a == TimedOut(q.scan.spill \o q.scan.buffer)
  <2> DEFINE e == q.errors + 1
  <2> DEFINE r == [Resolve(q, q.current, a)
                     EXCEPT !.current = NoCommand, !.errors = e]
  <2>1. ExpireCurrent(q) = DequeueNext(r)
    <3>1. Resolve(q, q.current, a).errors = q.errors
      BY DEF Resolve, Slots, IsQueue, Fields
    <3> QED  BY <1>2, <3>1 DEF ExpireCurrent
  <2>2. q.current # NoCommand /\ a # NoResult
    BY <1>2, AnswersAreAnswers DEF CurrentExpired
  <2> HIDE DEF a, e
  <2>3. /\ r.current = NoCommand /\ r.pending = q.pending
        /\ r.write_fn = q.write_fn
        /\ r.result = [q.result EXCEPT ![q.current] = a]
    BY DEF Resolve, Slots, IsQueue, Fields
  <2>4. r = [f \in Fields |-> r[f]]
    BY DEF Resolve, Slots, IsQueue, Fields
  <2> HIDE DEF r
  <2>5. Slots(r, S) /\ Wired(r) /\ Keeps(q, r)
    BY <2>2, <2>3, <2>4, RetireSlots
  <2>6. /\ Slots(DequeueNext(r), S)
        /\ Moving(DequeueNext(r))
        /\ Keeps(r, DequeueNext(r))
    BY <2>5, DequeueNextSlots
  <2> QED  BY <2>1, <2>5, <2>6 DEF Keeps
<1> QED
  BY <1>1, <1>2

\* The end marker answers the command on the line and starts the next.
LEMMA CompleteSlots ==
    ASSUME NEW q, NEW S \in SUBSET Commands, NEW scan, NEW at,
           Slots(q, S), Moving(q), q.current # NoCommand
    PROVE  /\ Slots(Complete(q, scan, at), S)
           /\ Moving(Complete(q, scan, at))
           /\ Keeps(q, Complete(q, scan, at))
<1> DEFINE a == ExtractExit(scan.spill \o SubSeq(scan.buffer, 1, at - 1))
<1> DEFINE e == q.completed + 1
<1> DEFINE r == [Resolve(q, q.current, a)
                   EXCEPT !.current = NoCommand, !.completed = e]
<1>1. Complete(q, scan, at) = DequeueNext(r)
  <2>1. Resolve(q, q.current, a).completed = q.completed
    BY DEF Resolve, Slots, IsQueue, Fields
  <2> QED  BY <2>1 DEF Complete
<1>2. a # NoResult
  BY AnswersAreAnswers
<1> HIDE DEF a, e
<1>3. /\ r.current = NoCommand /\ r.pending = q.pending
      /\ r.write_fn = q.write_fn
      /\ r.result = [q.result EXCEPT ![q.current] = a]
  BY DEF Resolve, Slots, IsQueue, Fields
<1>4. r = [f \in Fields |-> r[f]]
  BY DEF Resolve, Slots, IsQueue, Fields
<1> HIDE DEF r
<1>5. Slots(r, S) /\ Wired(r) /\ Keeps(q, r)
  BY <1>2, <1>3, <1>4, RetireSlots
<1>6. /\ Slots(DequeueNext(r), S)
      /\ Moving(DequeueNext(r))
      /\ Keeps(r, DequeueNext(r))
  BY <1>5, DequeueNextSlots
<1> QED
  BY <1>1, <1>5, <1>6 DEF Keeps

\* Whatever bytes are scanned, the commands keep their places and answers.
LEMMA ScanChunkSlots ==
    ASSUME NEW q, NEW S \in SUBSET Commands, NEW data, NEW writes,
           Slots(q, S), Moving(q)
    PROVE  /\ Slots(ScanChunk(q, data, writes).q, S)
           /\ Moving(ScanChunk(q, data, writes).q)
           /\ Keeps(q, ScanChunk(q, data, writes).q)
<1>1. CASE q.current = NoCommand
  BY <1>1 DEF ScanChunk, Keeps
<1>2. CASE q.current # NoCommand
  <2> DEFINE c     == q.current
  <2> DEFINE begun == IF q.scan.found_begin
                      THEN [q.scan EXCEPT !.buffer = @ \o data]
                      ELSE FindBegin(q.scan, c, data)
  <2> DEFINE scan  == IF begun.found_begin THEN Spill(begun, writes) ELSE begun
  <2> DEFINE ends  == IF scan.found_begin THEN MarkerAt(scan.buffer, c) ELSE {}
  <2> DEFINE r     == [q EXCEPT !.scan = scan]
  <2>1. ScanChunk(q, data, writes).q =
           IF ends = {} THEN r ELSE Complete(q, scan, Min(ends))
    BY <1>2 DEF ScanChunk
  <2> HIDE DEF begun, scan, ends, c
  <2>2. /\ r.current = q.current /\ r.pending = q.pending
        /\ r.result = q.result /\ r.write_fn = q.write_fn
        /\ IsQueue(r)
    BY DEF Slots, IsQueue, Fields
  <2>3. Slots(r, S) /\ Moving(r) /\ Keeps(q, r)
    BY <2>2, SameSlots
  <2>4. /\ Slots(Complete(q, scan, Min(ends)), S)
        /\ Moving(Complete(q, scan, Min(ends)))
        /\ Keeps(q, Complete(q, scan, Min(ends)))
    BY <1>2, CompleteSlots
  <2> QED  BY <2>1, <2>3, <2>4
<1> QED
  BY <1>1, <1>2

\* The same for a whole chunk, its deadline checks and its repeat.
LEMMA FeedSlots ==
    ASSUME NEW q, NEW S \in SUBSET Commands, NEW data, NEW writes,
           Slots(q, S), Moving(q)
    PROVE  /\ Slots(Feed(q, data, writes), S)
           /\ Moving(Feed(q, data, writes))
           /\ Keeps(q, Feed(q, data, writes))
<1> DEFINE e     == ExpireCurrent(q)
<1> DEFINE first == ScanChunk(e, data, writes)
<1> DEFINE f     == ExpireCurrent(first.q)
<1> DEFINE again == ScanChunk(f, first.rest, writes)
<1>1. Feed(q, data, writes) = IF first.rest = <<>> THEN first.q ELSE again.q
  BY DEF Feed, FeedRest
<1>2. Slots(e, S) /\ Moving(e) /\ Keeps(q, e)
  BY ExpireCurrentSlots
<1> HIDE DEF e
<1>3. Slots(first.q, S) /\ Moving(first.q) /\ Keeps(e, first.q)
  BY <1>2, ScanChunkSlots
<1> HIDE DEF first
<1>4. Slots(f, S) /\ Moving(f) /\ Keeps(first.q, f)
  BY <1>3, ExpireCurrentSlots
<1> HIDE DEF f
<1>5. Slots(again.q, S) /\ Moving(again.q) /\ Keeps(f, again.q)
  BY <1>4, ScanChunkSlots
<1> HIDE DEF again
<1> QED
  BY <1>1, <1>2, <1>3, <1>4, <1>5 DEF Keeps

\* cancel_all answers every command that has a place, and frees the places.
LEMMA CancelAllSlots ==
    ASSUME NEW q, NEW S \in SUBSET Commands, Slots(q, S), Moving(q)
    PROVE  /\ Slots([CancelAll(q) EXCEPT !.tx = <<>>], S)
           /\ Moving([CancelAll(q) EXCEPT !.tx = <<>>])
           /\ Keeps(q, [CancelAll(q) EXCEPT !.tx = <<>>])
<1> DEFINE r == [CancelAll(q) EXCEPT !.tx = <<>>]
<1> DEFINE res == [c \in Commands |->
                     IF c = q.current \/ c \in ToSet(q.pending)
                     THEN Closed ELSE q.result[c]]
<1>1. /\ r.current = NoCommand /\ r.pending = <<>>
      /\ r.write_fn = q.write_fn /\ r.result = res
  <2> HIDE DEF res
  <2> QED  BY DEF CancelAll, Slots, IsQueue, Fields, res
<1>2. r = [f \in Fields |-> r[f]]
  <2> HIDE DEF res
  <2> QED  BY DEF CancelAll, Slots, IsQueue, Fields, res
<1> HIDE DEF r
<1>3. IsQueue(r)
  BY <1>1, <1>2 DEF Slots, IsQueue
<1>4. Placed(r, S)
  <2>1. ToSet(r.pending) = {} /\ Distinct(r.pending)
    BY <1>1 DEF ToSet, Distinct
  <2> QED  BY <1>1, <2>1, AnswersAreAnswers, QueueAssumption DEF Slots, Placed
<1>5. Moving(r)
  BY <1>1 DEF Moving, Wired
<1>6. Keeps(q, r)
  <2> SUFFICES ASSUME NEW c \in Commands, q.result[c] # NoResult
               PROVE  r.result[c] = q.result[c]
    BY DEF Keeps
  <2>1. ~(c = q.current \/ c \in ToSet(q.pending))
    BY DEF Slots, Placed
  <2> QED  BY <1>1, <2>1
<1> QED
  BY <1>3, <1>4, <1>5, <1>6 DEF Slots, r

-----------------------------------------------------------------------------
(* The inductive invariant of the session.                                 *)

\* The queue is well-formed for the commands submitted so far.
SessionInv ==
    /\ submitted \in Seq(Commands)
    /\ Slots(queue, ToSet(submitted))
    /\ Moving(queue)

\* What every step keeps: the invariant, and the answers given.
SessionStep == SessionInv' /\ Keeps(queue, queue')

\* A step that leaves the queue and the submissions alone.
LEMMA SessionUnchanged ==
    ASSUME SessionInv, UNCHANGED <<queue, submitted>>
    PROVE  SessionStep
  BY DEF SessionInv, SessionStep, Keeps, Slots, IsQueue, Placed, Moving, Wired

\* A step that replaces the queue by one with the commands in their places.
LEMMA SessionMoved ==
    ASSUME SessionInv, UNCHANGED submitted,
           Slots(queue', ToSet(submitted)), Moving(queue'), Keeps(queue, queue')
    PROVE  SessionStep
  BY DEF SessionInv, SessionStep

\* Only the writer's lines change, or the write function is installed.
LEMMA SessionWriter ==
    ASSUME SessionInv, UNCHANGED submitted,
           \/ \E lines_left : queue' = [queue EXCEPT !.tx = lines_left]
           \/ queue' = [queue EXCEPT !.write_fn = TRUE]
    PROVE  SessionStep
<1>1. Slots(queue, ToSet(submitted)) /\ Moving(queue)
  BY DEF SessionInv
<1>2. /\ queue'.current = queue.current /\ queue'.pending = queue.pending
      /\ queue'.result = queue.result
      /\ queue'.write_fn \in {queue.write_fn, TRUE}
      /\ IsQueue(queue')
  BY <1>1 DEF Slots, IsQueue, Fields
<1>3. Slots(queue', ToSet(submitted)) /\ Moving(queue') /\ Keeps(queue, queue')
  BY <1>1, <1>2 DEF Slots, Placed, Moving, Wired, Keeps
<1> QED
  BY <1>3, SessionMoved

\* In the initial state nothing is submitted and nothing has a place.
LEMMA SessionInit == Init => SessionInv
<1> SUFFICES ASSUME Init PROVE SessionInv
  OBVIOUS
<1>1. submitted = <<>> /\ ToSet(submitted) = {} /\ submitted \in Seq(Commands)
  BY DEF Init, ToSet
<1>2. /\ queue.current = NoCommand /\ queue.pending = <<>>
      /\ queue.write_fn = FALSE
      /\ queue.result = [c \in Commands |-> NoResult]
      /\ queue = [f \in Fields |-> queue[f]]
  BY DEF Init, EmptyQueue, Fields
<1>3. IsQueue(queue)
  <2>1. queue.result = [c \in Commands |-> queue.result[c]]
    BY <1>2
  <2>2. queue.pending \in Seq(Commands) /\ queue.write_fn \in BOOLEAN
    <3>1. <<>> \in Seq(Commands)
      OBVIOUS
    <3>2. FALSE \in BOOLEAN
      OBVIOUS
    <3>3. queue.write_fn = FALSE /\ queue.pending = <<>>
      BY <1>2
    <3> QED  BY <3>1, <3>2, <3>3
  <2> QED  BY <1>2, <2>1, <2>2 DEF IsQueue
<1>4. Placed(queue, {})
  <2>1. ToSet(queue.pending) = {} /\ Distinct(queue.pending)
    BY <1>2 DEF ToSet, Distinct
  <2> QED  BY <1>2, <2>1, QueueAssumption DEF Placed
<1> QED
  BY <1>1, <1>2, <1>3, <1>4 DEF SessionInv, Slots, Moving, Wired

\* Every step keeps the invariant and the answers.
LEMMA SessionNext ==
    ASSUME SessionInv, [Next]_vars
    PROVE  SessionStep
<1> DEFINE S == ToSet(submitted)
<1>0. Slots(queue, S) /\ Moving(queue) /\ S \in SUBSET Commands
  BY DEF SessionInv, ToSet
<1>1. ASSUME NEW c \in Commands, Execute(c)
      PROVE  SessionStep
  <2>1. submitted' \in Seq(Commands) /\ ToSet(submitted') = S \cup {c}
    BY <1>1, ToSetAppend DEF SessionInv, Execute
  <2>2. c \in Commands \ S
    BY <1>1 DEF Execute, Submitted
  <2>3. queue' = Submit(queue, c)
    BY <1>1 DEF Execute
  <2> HIDE DEF S
  <2>4. /\ Slots(queue', S \cup {c}) /\ Moving(queue')
        /\ Keeps(queue, queue')
    BY <1>0, <2>2, <2>3, SubmitSlots
  <2> QED  BY <2>1, <2>4 DEF SessionInv, SessionStep
<1>2. ASSUME NEW c \in Commands, Admit(c) \/ CallerDrops(c) \/ CallerTimesOut(c)
      PROVE  SessionStep
  <2>1. UNCHANGED <<queue, submitted>>
    BY <1>2 DEF Admit, CallerDrops, CallerTimesOut, qvars, hostvars
  <2> QED  BY <2>1, SessionUnchanged
<1>3. CASE SetWriteFn \/ LoseLine \/ ReceiveLine \/ Reclaim
  <2>1. UNCHANGED submitted
    BY <1>3 DEF SetWriteFn, LoseLine, ReceiveLine, Reclaim, hostvars
  <2>2. \/ \E lines_left : queue' = [queue EXCEPT !.tx = lines_left]
        \/ queue' = [queue EXCEPT !.write_fn = TRUE]
    BY <1>3 DEF SetWriteFn, LoseLine, ReceiveLine, Reclaim
  <2> QED  BY <2>1, <2>2, SessionWriter
<1>4. CASE CheckTimeouts
  <2>1. UNCHANGED submitted /\ queue' = ExpireCurrent(queue)
    BY <1>4 DEF CheckTimeouts, hostvars
  <2>2. Slots(queue', S) /\ Moving(queue') /\ Keeps(queue, queue')
    BY <1>0, <2>1, ExpireCurrentSlots
  <2> QED  BY <2>1, <2>2, SessionMoved
<1>5. CASE Read
  <2>1. PICK n \in 1 .. MaxChunk, writes \in BOOLEAN :
                queue' = Feed(queue, SubSeq(wire, 1, n), writes)
    BY <1>5 DEF Read
  <2>2. Slots(queue', S) /\ Moving(queue') /\ Keeps(queue, queue')
    BY <1>0, <2>1, FeedSlots
  <2>3. UNCHANGED submitted
    BY <1>5 DEF Read, hostvars
  <2> QED  BY <2>2, <2>3, SessionMoved
<1>6. CASE LoseEndpoint
  <2>1. /\ UNCHANGED submitted
        /\ queue' = [CancelAll(queue) EXCEPT !.tx = <<>>]
    BY <1>6 DEF LoseEndpoint
  <2>2. Slots(queue', S) /\ Moving(queue') /\ Keeps(queue, queue')
    BY <1>0, <2>1, CancelAllSlots
  <2> QED  BY <2>1, <2>2, SessionMoved
<1>7. CASE Relay \/ TakeOver \/ HandBack \/ Tick
  <2>1. UNCHANGED <<queue, submitted>>
    BY <1>7 DEF Relay, TakeOver, HandBack, Tick, qvars, hostvars
  <2> QED  BY <2>1, SessionUnchanged
<1>8. CASE StartLine \/ Emit \/ Disturb \/ Reboot
  <2>1. UNCHANGED <<queue, submitted>>
    BY <1>8 DEF StartLine, Emit, Disturb, Reboot, qvars, hostvars
  <2> QED  BY <2>1, SessionUnchanged
<1>9. CASE UNCHANGED vars
  BY <1>9, SessionUnchanged DEF vars
<1> QED
  BY <1>1, <1>2, <1>3, <1>4, <1>5, <1>6, <1>7, <1>8, <1>9 DEF Next

-----------------------------------------------------------------------------
(* The theorems.                                                           *)

\* The invariant holds in every behaviour.
THEOREM SessionCorrect == Spec => []SessionInv
<1>1. SessionInv /\ [Next]_vars => SessionInv'
  BY SessionNext DEF SessionStep
<1> QED
  BY SessionInit, <1>1, PTL DEF Spec

\* No submitted command is lost, duplicated or answered twice: without an
\* answer it is on the line or waiting, in exactly one place.
THEOREM NobodyLost == Spec => []InOnePlace
<1>1. SessionInv => InOnePlace
  <2> SUFFICES ASSUME SessionInv PROVE InOnePlace
    OBVIOUS
  <2> DEFINE S == ToSet(submitted)
  <2>1. /\ Distinct(queue.pending)
        /\ queue.current \notin ToSet(queue.pending)
        /\ \A c \in Commands \ S :
              /\ queue.result[c] = NoResult
              /\ c # queue.current /\ c \notin ToSet(queue.pending)
        /\ \A c \in S :
              queue.result[c] = NoResult
                <=> (c = queue.current \/ c \in ToSet(queue.pending))
    BY DEF SessionInv, Slots, Placed
  <2> QED
    BY <2>1 DEF InOnePlace, Waiting, Submitted, Answered, Distinct
<1> QED
  BY SessionCorrect, <1>1, PTL

\* Commands wait only behind one that is on the line.
THEOREM NoStall == Spec => []NeverStalls
<1>1. SessionInv => NeverStalls
  BY DEF SessionInv, Moving, NeverStalls
<1> QED
  BY SessionCorrect, <1>1, PTL

\* No later byte, deadline, takeover or cancellation changes an answer.
THEOREM FinalAnswers == Spec => AnswerFinal
<1>1. SessionInv /\ [Next]_vars
        => [\A c \in Commands :
              Answered(c) => queue'.result[c] = queue.result[c]]_vars
  BY SessionNext DEF SessionStep, Keeps, Answered
<1> QED
  BY SessionCorrect, <1>1, PTL DEF Spec, AnswerFinal

-----------------------------------------------------------------------------
(* Types.  The scanner takes tokens to tokens and holds a bounded number   *)
(* of them before the begin marker, however the chunks are cut.            *)

ResultType == [kind : Kinds, out : Seq(Tokens), exit : BOOLEAN]

QueueTyped(q) == q \in QueueType /\ Len(q.scan.search_buf) <= BufferCap

\* A prefix, a suffix and the middle of a sequence of tokens.
LEMMA TokensSubSeq ==
    ASSUME NEW s \in Seq(Tokens), NEW m \in Nat \ {0}, NEW n \in Nat, n <= Len(s)
    PROVE  SubSeq(s, m, n) \in Seq(Tokens)
OBVIOUS

\* Each of the answers a command can get is an answer.
LEMMA AnswersTyped ==
    /\ Closed \in ResultType /\ Rejected \in ResultType /\ NoResult \in ResultType
    /\ \A out \in Seq(Tokens) : TimedOut(out) \in ResultType
    /\ \A out \in Seq(Tokens) : ExtractExit(out) \in ResultType
<1>1. /\ Closed \in ResultType /\ Rejected \in ResultType /\ NoResult \in ResultType
      /\ \A out \in Seq(Tokens) : TimedOut(out) \in ResultType
      /\ \A out \in Seq(Tokens), exit \in BOOLEAN : OkResult(out, exit) \in ResultType
  <2>1. <<>> \in Seq(Tokens)
    OBVIOUS
  <2> QED
    BY <2>1 DEF Closed, Rejected, NoResult, TimedOut, OkResult, ResultType, Kinds
<1>2. ASSUME NEW out \in Seq(Tokens) PROVE ExtractExit(out) \in ResultType
  <2>1. CASE out # <<>> /\ out[Len(out)].k = "exit"
    <3>1. SubSeq(out, 1, Len(out) - 1) \in Seq(Tokens)
      BY <2>1
    <3> QED
      BY <1>1, <2>1, <3>1 DEF ExtractExit
  <2>2. CASE ~(out # <<>> /\ out[Len(out)].k = "exit")
    BY <1>1, <2>2 DEF ExtractExit
  <2> QED
    BY <2>1, <2>2
<1> QED
  BY <1>1, <1>2

\* One answer leaves a type-correct queue.
LEMMA ResolveTyped ==
    ASSUME NEW q, QueueTyped(q), NEW c \in Commands, NEW r \in ResultType
    PROVE  /\ QueueTyped(Resolve(q, c, r))
           /\ Resolve(q, c, r).errors = q.errors
           /\ Resolve(q, c, r).completed = q.completed
           /\ Resolve(q, c, r).pending = q.pending
<1>1. [q.result EXCEPT ![c] = r] \in [Commands -> ResultType]
  BY DEF QueueTyped, QueueType, ResultType
<1> DEFINE res == [q.result EXCEPT ![c] = r]
<1>2. Resolve(q, c, r) = [q EXCEPT !.result = res]
  BY DEF Resolve
<1> HIDE DEF res
<1>3. res \in [Commands -> ResultType]
  BY <1>1 DEF res
<1> QED
  BY <1>2, <1>3 DEF QueueTyped, QueueType, ResultType

\* A scan starts type-correct, with nothing in its buffer.
LEMMA FreshScanTyped == FreshScan \in ScanType /\ Len(FreshScan.search_buf) = 0
<1>1. <<>> \in Seq(Tokens) /\ Len(<<>>) = 0
  OBVIOUS
<1> QED
  BY <1>1 DEF FreshScan, ScanType

\* Sending a command keeps the types, whatever becomes of the write.
LEMMA SendCommandTyped ==
    ASSUME NEW q, QueueTyped(q), NEW c \in Commands
    PROVE  QueueTyped(SendCommand(q, c))
<1>1. CASE q.write_fn
  <2> DEFINE tx == Append(q.tx, c)
             scan == FreshScan
  <2>1. tx \in Seq(Commands) /\ scan \in ScanType /\ Len(scan.search_buf) <= BufferCap
    BY FreshScanTyped, QueueAssumption DEF QueueTyped, QueueType
  <2>2. SendCommand(q, c) = [q EXCEPT !.current = c, !.scan = scan, !.tx = tx]
    BY <1>1 DEF SendCommand
  <2> HIDE DEF tx, scan
  <2> QED
    BY <2>1, <2>2 DEF QueueTyped, QueueType
<1>2. CASE ~q.write_fn
  BY <1>2, AnswersTyped, ResolveTyped DEF SendCommand
<1> QED
  BY <1>1, <1>2

\* What waits is finite, and so is any part of it.
LEMMA WaitingFinite ==
    ASSUME NEW p \in Seq(Commands), NEW T \in SUBSET ToSet(p)
    PROVE  Cardinality(T) \in Nat
<1>1. Len(p) \in Nat /\ DOMAIN p = 1 .. Len(p) /\ p \in [1 .. Len(p) -> ToSet(p)]
  BY DEF ToSet
<1>2. p \in Surjection(1 .. Len(p), ToSet(p))
  BY <1>1 DEF Surjection, ToSet
<1>3. IsFiniteSet(1 .. Len(p))
  BY <1>1, FS_Interval
<1>4. IsFiniteSet(ToSet(p))
  BY <1>2, <1>3, FS_Surjection
<1>5. IsFiniteSet(T)
  BY <1>4, FS_Subset
<1> QED
  BY <1>5, FS_CardinalityType

\* The search for the next live command keeps the types.
LEMMA DequeueNextTyped ==
    ASSUME NEW q, QueueTyped(q)
    PROVE  QueueTyped(DequeueNext(q))
<1>1. CASE q.current # NoCommand
  BY <1>1 DEF DequeueNext
<1>2. CASE q.current = NoCommand
  <2> DEFINE p    == q.pending
             live == {i \in DOMAIN p : Sendable(p[i])}
             n    == IF live = {} THEN Len(p) ELSE Min(live) - 1
             skipped == {p[i] : i \in 1 .. n}
             late == skipped \ gone
             res  == [c \in Commands |-> IF c \in late THEN TimedOut(<<>>)
                                         ELSE IF c \in skipped THEN Closed
                                         ELSE q.result[c]]
             rest == SubSeq(p, n + 2, Len(p))
             errs == q.errors + Cardinality(late)
             left == [q EXCEPT !.pending = rest, !.result = res, !.errors = errs]
  <2>1. p \in Seq(Commands) /\ Len(p) \in Nat /\ DOMAIN p = 1 .. Len(p)
    BY DEF QueueTyped, QueueType
  <2>2. /\ n \in Nat /\ n <= Len(p)
        /\ live # {} => n + 1 \in 1 .. Len(p)
    <3>1. live \in SUBSET Nat
      BY <2>1
    <3>2. live # {} => Min(live) \in live
      BY <3>1, MinOfNaturals
    <3>3. CASE live = {}
      BY <2>1, <3>3
    <3>4. CASE live # {}
      <4>1. Min(live) \in 1 .. Len(p) /\ n = Min(live) - 1
        BY <2>1, <3>2, <3>4
      <4> HIDE DEF live, n
      <4> QED
        BY <2>1, <4>1
    <3> QED
      BY <3>3, <3>4
  <2>3. DequeueNext(q) = IF live = {} THEN left ELSE SendCommand(left, p[n + 1])
    BY <1>2 DEF DequeueNext
  <2> HIDE DEF live, n
  <2>4. rest \in Seq(Commands)
    BY <2>1, <2>2
  <2>5. late \in SUBSET ToSet(p)
    BY <2>1, <2>2 DEF ToSet
  <2>6. errs \in Nat
    <3>1. Cardinality(late) \in Nat /\ q.errors \in Nat
      BY <2>1, <2>5, WaitingFinite DEF QueueTyped, QueueType
    <3> HIDE DEF late
    <3> QED
      BY <3>1
  <2>7. res \in [Commands -> ResultType]
    <3>1. /\ TimedOut(<<>>) \in ResultType /\ Closed \in ResultType
          /\ q.result \in [Commands -> ResultType]
      <4>1. <<>> \in Seq(Tokens)
        OBVIOUS
      <4> QED
        BY <4>1, AnswersTyped DEF QueueTyped, QueueType, ResultType
    <3> HIDE DEF late, skipped, ResultType
    <3> QED
      BY <3>1
  <2> HIDE DEF rest, res, errs
  <2>8. QueueTyped(left)
    BY <2>4, <2>6, <2>7 DEF QueueTyped, QueueType, ResultType
  <2>9. live # {} => p[n + 1] \in Commands
    BY <2>1, <2>2
  <2> HIDE DEF left, p
  <2> QED
    BY <2>3, <2>8, <2>9, SendCommandTyped
<1> QED
  BY <1>1, <1>2

\* The longest of some runs, of at most L tokens, exists.
LEMMA LongestRun ==
    ASSUME NEW L \in Nat, NEW S \in SUBSET (0 .. L), S # {}
    PROVE  LET n == CHOOSE k \in S : \A m \in S : m <= k IN n \in S
<1> DEFINE T == {L - k : k \in S}
<1>1. T \in SUBSET Nat /\ T # {}
  <2>1. \A k \in S : L - k \in Nat
    OBVIOUS
  <2> QED
    BY <2>1
<1>2. Min(T) \in T /\ \A m \in T : Min(T) <= m
  BY <1>1, MinOfNaturals
<1>3. PICK k \in S : Min(T) = L - k
  BY <1>2
<1>4. \A m \in S : m <= k
  <2> SUFFICES ASSUME NEW m \in S PROVE m <= k
    OBVIOUS
  <2>1. L - k <= L - m
    BY <1>2, <1>3
  <2> QED
    BY <2>1
<1> QED
  BY <1>3, <1>4

\* The echo is at most the line that was sent.
LEMMA StripEchoTyped ==
    ASSUME NEW scan \in ScanType, NEW c \in Commands, NEW data \in Seq(Tokens)
    PROVE  /\ StripEcho(scan, c, data).matched \in 0 .. 3
           /\ StripEcho(scan, c, data).data \in Seq(Tokens)
<1> DEFINE line == SentLine(c)
           from == scan.echo_matched
           rest == SubSeq(line, from + 1, Len(line))
           runs == {n \in 0 .. Len(data) :
                      n <= Len(rest) /\ SubSeq(data, 1, n) = SubSeq(rest, 1, n)}
           n    == EchoRun(scan, c, data)
<1>1. from \in 0 .. 3 /\ Len(data) \in Nat
  BY DEF ScanType
<1> DEFINE X == {Half(c, 1), Quote, Half(c, 2)}
<1>2. line \in Seq(X) /\ Len(line) = 3
  BY DEF SentLine
<1> HIDE DEF line, from, X
<1>3. rest \in Seq(X) /\ Len(rest) = 3 - from
  <2>1. from \in Nat /\ from <= Len(line)
    BY <1>1, <1>2
  <2>2. rest \in Seq(X) /\ Len(rest) = Len(line) - from
    BY <1>2, <2>1, ToSetSuffix
  <2> HIDE DEF rest
  <2> QED
    BY <1>2, <2>2
<1>4. 0 \in runs
  <2> HIDE DEF rest
  <2>1. SubSeq(data, 1, 0) = <<>> /\ SubSeq(rest, 1, 0) = <<>>
    BY <1>3
  <2> QED
    BY <1>1, <1>3, <2>1
<1>5. n \in runs
  <2>1. n = CHOOSE k \in runs : \A m \in runs : m <= k
    BY DEF EchoRun, line, from
  <2>2. runs \in SUBSET (0 .. Len(data))
    OBVIOUS
  <2> HIDE DEF runs, n
  <2> QED
    BY <1>1, <1>4, <2>1, <2>2, LongestRun
<1>6. n \in Nat /\ n <= Len(data) /\ from + n <= 3
  <2>1. n \in 0 .. Len(data) /\ n <= Len(rest)
    BY <1>5
  <2> HIDE DEF n, rest, runs
  <2> QED
    BY <1>1, <1>3, <2>1
<1> HIDE DEF n
<1>7. SubSeq(data, n + 1, Len(data)) \in Seq(Tokens)
  BY <1>1, <1>6
<1>8. StripEcho(scan, c, data).matched \in {3, from + n}
  BY <1>2 DEF StripEcho, n, line, from
<1>9. StripEcho(scan, c, data).data = SubSeq(data, n + 1, Len(data))
  BY DEF StripEcho, n
<1> QED
  BY <1>1, <1>6, <1>7, <1>8, <1>9

\* The first marker lies in the buffer, with room for its second half.
LEMMA FirstMarker ==
    ASSUME NEW s \in Seq(Tokens), NEW c, MarkerAt(s, c) # {}
    PROVE  Min(MarkerAt(s, c)) \in 1 .. Len(s) - 1
<1>1. MarkerAt(s, c) \in SUBSET Nat /\ MarkerAt(s, c) \subseteq 1 .. Len(s) - 1
  BY DEF MarkerAt
<1> QED
  BY <1>1, MinOfNaturals

\* The search for the begin marker keeps a bounded number of tokens.
LEMMA FindBeginTyped ==
    ASSUME NEW scan \in ScanType, NEW c \in Commands, NEW data \in Seq(Tokens)
    PROVE  /\ FindBegin(scan, c, data) \in ScanType
           /\ Len(FindBegin(scan, c, data).search_buf) <= BufferCap
<1> DEFINE echo  == StripEcho(scan, c, data)
           matched == echo.matched
           s     == scan.search_buf \o echo.data
           found == MarkerAt(s, c)
           kept  == IF Len(s) > BufferCap THEN Tail_n(s, TrimKeep) ELSE s
           after == SubSeq(s, Min(found) + 2, Len(s))
           yes   == [scan EXCEPT !.echo_matched = matched, !.found_begin = TRUE,
                                 !.search_buf = <<>>, !.buffer = after]
           no    == [scan EXCEPT !.echo_matched = matched, !.search_buf = kept]
<1>1. FindBegin(scan, c, data) = IF found # {} THEN yes ELSE no
  BY DEF FindBegin
<1>2. matched \in 0 .. 3 /\ echo.data \in Seq(Tokens)
  BY StripEchoTyped
<1> HIDE DEF echo, matched
<1>3. s \in Seq(Tokens) /\ Len(s) \in Nat
  BY <1>2 DEF ScanType
<1>4. found # {} => after \in Seq(Tokens)
  <2> HIDE DEF s
  <2> SUFFICES ASSUME found # {} PROVE after \in Seq(Tokens)
    OBVIOUS
  <2>1. Min(found) \in 1 .. Len(s) - 1
    BY <1>3, FirstMarker
  <2> HIDE DEF found
  <2> QED
    BY <1>3, <2>1
<1>5. kept \in Seq(Tokens) /\ Len(kept) <= BufferCap
  <2> HIDE DEF s
  <2> QED
    BY <1>3, QueueAssumption DEF Tail_n
<1> HIDE DEF s, found, kept, after
<1>7. found # {} => yes \in ScanType /\ Len(yes.search_buf) <= BufferCap
  <2> SUFFICES ASSUME found # {} PROVE yes \in ScanType /\ Len(yes.search_buf) <= BufferCap
    OBVIOUS
  <2> DEFINE none == <<>>
  <2>1. none \in Seq(Tokens) /\ Len(none) <= BufferCap
    BY QueueAssumption
  <2> HIDE DEF none
  <2>2. [scan EXCEPT !.echo_matched = matched, !.found_begin = TRUE,
                     !.search_buf = none, !.buffer = after] \in ScanType
    BY <1>2, <1>4, <2>1 DEF ScanType
  <2>3. yes.search_buf = none
    BY DEF ScanType, none
  <2> QED
    BY <2>1, <2>2, <2>3 DEF none
<1>8. no \in ScanType /\ Len(no.search_buf) <= BufferCap
  BY <1>2, <1>5 DEF ScanType
<1> QED
  BY <1>1, <1>7, <1>8

\* A spill keeps the types of the scan and its search buffer.
LEMMA SpillTyped ==
    ASSUME NEW scan \in ScanType, NEW writes \in BOOLEAN
    PROVE  /\ Spill(scan, writes) \in ScanType
           /\ Spill(scan, writes).search_buf = scan.search_buf
<1> DEFINE b == scan.buffer
           n == Len(b) - TrimKeep
           spilled == scan.spill \o SubSeq(b, 1, n)
           kept == SubSeq(b, n + 1, Len(b))
<1>1. CASE Len(b) > BufferCap /\ writes
  <2>1. b \in Seq(Tokens) /\ scan.spill \in Seq(Tokens) /\ Len(b) \in Nat
    BY DEF ScanType
  <2>2. n \in Nat /\ n <= Len(b)
    BY <1>1, <2>1, QueueAssumption
  <2>3. SubSeq(b, 1, n) \in Seq(Tokens) /\ kept \in Seq(Tokens)
    BY <2>1, <2>2
  <2>4. spilled \in Seq(Tokens)
    BY <2>1, <2>3
  <2>5. Spill(scan, writes) = [scan EXCEPT !.spill = spilled, !.buffer = kept]
    BY <1>1 DEF Spill
  <2> HIDE DEF spilled, kept
  <2> QED
    BY <2>3, <2>4, <2>5 DEF ScanType
<1>2. CASE ~(Len(b) > BufferCap /\ writes)
  BY <1>2 DEF Spill
<1> QED
  BY <1>1, <1>2

\* A queue whose command on the line was answered and whose counters moved.
LEMMA RetireTyped ==
    ASSUME NEW q, QueueTyped(q), q.current # NoCommand, NEW a \in ResultType
    PROVE  /\ QueueTyped([Resolve(q, q.current, a)
                            EXCEPT !.current = NoCommand, !.errors = @ + 1])
           /\ QueueTyped([Resolve(q, q.current, a)
                            EXCEPT !.current = NoCommand, !.completed = @ + 1])
<1> DEFINE r == Resolve(q, q.current, a)
<1>1. q.current \in Commands
  BY DEF QueueTyped, QueueType
<1>2. QueueTyped(r)
  BY <1>1, ResolveTyped
<1> HIDE DEF r
<1> DEFINE e == r.errors + 1
           k == r.completed + 1
<1>30. e \in Nat /\ k \in Nat
  <2>1. r.errors \in Nat /\ r.completed \in Nat
    BY <1>2 DEF QueueTyped, QueueType
  <2> QED  BY <2>1
<1> HIDE DEF e, k
<1>3. QueueTyped([r EXCEPT !.current = NoCommand, !.errors = e])
  BY <1>2, <1>30 DEF QueueTyped, QueueType
<1>4. QueueTyped([r EXCEPT !.current = NoCommand, !.completed = k])
  BY <1>2, <1>30 DEF QueueTyped, QueueType
<1> QED
  BY <1>3, <1>4 DEF r, e, k

\* The deadline of the current command keeps the types.
LEMMA ExpireCurrentTyped ==
    ASSUME NEW q, QueueTyped(q)
    PROVE  QueueTyped(ExpireCurrent(q))
<1>1. CASE CurrentExpired(q)
  <2>1. q.scan.spill \o q.scan.buffer \in Seq(Tokens)
    BY DEF QueueTyped, QueueType, ScanType
  <2>2. TimedOut(q.scan.spill \o q.scan.buffer) \in ResultType
    BY <2>1, AnswersTyped
  <2>3. q.current # NoCommand
    BY <1>1 DEF CurrentExpired
  <2> QED
    BY <1>1, <2>2, <2>3, RetireTyped, DequeueNextTyped DEF ExpireCurrent
<1>2. CASE ~CurrentExpired(q)
  BY <1>2 DEF ExpireCurrent
<1> QED
  BY <1>1, <1>2

\* A chunk keeps the types: the scan buffer grows by it and is cut to its bound.
LEMMA ScanChunkTyped ==
    ASSUME NEW q, QueueTyped(q), NEW data \in Seq(Tokens), NEW writes \in BOOLEAN
    PROVE  /\ QueueTyped(ScanChunk(q, data, writes).q)
           /\ ScanChunk(q, data, writes).rest \in Seq(Tokens)
<1>0. <<>> \in Seq(Tokens)
  OBVIOUS
<1>1. CASE q.current = NoCommand
  BY <1>0, <1>1 DEF ScanChunk
<1>2. CASE q.current # NoCommand
  <2> DEFINE c     == q.current
             more  == q.scan.buffer \o data
             begun == IF q.scan.found_begin
                      THEN [q.scan EXCEPT !.buffer = more]
                      ELSE FindBegin(q.scan, c, data)
             scan  == IF begun.found_begin THEN Spill(begun, writes) ELSE begun
             ends  == IF scan.found_begin THEN MarkerAt(scan.buffer, c) ELSE {}
             head  == SubSeq(scan.buffer, 1, Min(ends) - 1)
             rest  == SubSeq(scan.buffer, Min(ends) + 2, Len(scan.buffer))
  <2>1. ScanChunk(q, data, writes) =
           IF ends = {} THEN [q |-> [q EXCEPT !.scan = scan], rest |-> <<>>]
           ELSE [q |-> Complete(q, scan, Min(ends)), rest |-> rest]
    BY <1>2 DEF ScanChunk
  <2>2. /\ c \in Commands /\ q.scan \in ScanType
        /\ Len(q.scan.search_buf) <= BufferCap /\ more \in Seq(Tokens)
    BY <1>2 DEF QueueTyped, QueueType, ScanType
  <2> HIDE DEF c, more
  <2>3. begun \in ScanType /\ Len(begun.search_buf) <= BufferCap
    <3>1. CASE q.scan.found_begin
      BY <2>2, <3>1 DEF ScanType
    <3>2. CASE ~q.scan.found_begin
      BY <2>2, <3>2, FindBeginTyped
    <3> QED
      BY <3>1, <3>2
  <2> HIDE DEF begun
  <2>4. scan \in ScanType /\ Len(scan.search_buf) <= BufferCap
    BY <2>3, SpillTyped
  <2> HIDE DEF scan
  <2>5. scan.buffer \in Seq(Tokens) /\ scan.spill \in Seq(Tokens)
    BY <2>4 DEF ScanType
  <2>6. QueueTyped([q EXCEPT !.scan = scan])
    BY <2>4 DEF QueueTyped, QueueType
  <2>7. ASSUME ends # {}
        PROVE  rest \in Seq(Tokens) /\ QueueTyped(Complete(q, scan, Min(ends)))
    <3>1. Min(ends) \in 1 .. Len(scan.buffer) - 1
      BY <2>5, <2>7, FirstMarker
    <3> HIDE DEF ends
    <3>2. head \in Seq(Tokens) /\ rest \in Seq(Tokens)
      BY <2>5, <3>1
    <3>3. scan.spill \o head \in Seq(Tokens)
      BY <2>5, <3>2
    <3>4. ExtractExit(scan.spill \o head) \in ResultType
      BY <3>3, AnswersTyped
    <3> QED
      BY <1>2, <3>2, <3>4, RetireTyped, DequeueNextTyped DEF Complete
  <2> HIDE DEF ends, rest
  <2> QED
    BY <1>0, <2>1, <2>6, <2>7
<1> QED
  BY <1>1, <1>2

\* So does feed_serial_data: expiry first, then the chunk.
LEMMA FeedTyped ==
    ASSUME NEW q, QueueTyped(q), NEW data \in Seq(Tokens), NEW writes \in BOOLEAN
    PROVE  QueueTyped(Feed(q, data, writes))
<1> DEFINE first == ScanChunk(ExpireCurrent(q), data, writes)
<1>1. QueueTyped(first.q) /\ first.rest \in Seq(Tokens)
  BY ExpireCurrentTyped, ScanChunkTyped
<1>2. Feed(q, data, writes) = FeedRest(first, writes)
  BY DEF Feed
<1> HIDE DEF first
<1>3. QueueTyped(ScanChunk(ExpireCurrent(first.q), first.rest, writes).q)
  BY <1>1, ExpireCurrentTyped, ScanChunkTyped
<1> QED
  BY <1>1, <1>2, <1>3 DEF FeedRest

\* So does execute.
LEMMA SubmitTyped ==
    ASSUME NEW q, QueueTyped(q), NEW c \in Commands
    PROVE  QueueTyped(Submit(q, c))
<1>1. CASE Len(q.pending) >= MaxPending
  BY <1>1, AnswersTyped, ResolveTyped DEF Submit
<1>2. CASE ~(Len(q.pending) >= MaxPending) /\ q.current = NoCommand
  BY <1>2, SendCommandTyped DEF Submit
<1>3. CASE ~(Len(q.pending) >= MaxPending) /\ q.current # NoCommand
  <2> DEFINE p == Append(q.pending, c)
  <2>1. p \in Seq(Commands)
    BY DEF QueueTyped, QueueType
  <2>2. Submit(q, c) = [q EXCEPT !.pending = p]
    BY <1>3 DEF Submit
  <2> HIDE DEF p
  <2> QED
    BY <2>1, <2>2 DEF QueueTyped, QueueType
<1> QED
  BY <1>1, <1>2, <1>3

\* So does cancel_all.
LEMMA CancelAllTyped ==
    ASSUME NEW q, QueueTyped(q)
    PROVE  QueueTyped([CancelAll(q) EXCEPT !.tx = <<>>])
<1> DEFINE res == [c \in Commands |->
                     IF c = q.current \/ c \in ToSet(q.pending)
                     THEN Closed ELSE q.result[c]]
           none == <<>>
<1>1. res \in [Commands -> ResultType]
  <2>1. Closed \in ResultType /\ q.result \in [Commands -> ResultType]
    BY AnswersTyped DEF QueueTyped, QueueType, ResultType
  <2> HIDE DEF ResultType
  <2> QED
    BY <2>1
<1>2. [CancelAll(q) EXCEPT !.tx = <<>>] =
         [q EXCEPT !.pending = none, !.current = NoCommand, !.result = res, !.tx = none]
  BY DEF CancelAll, QueueTyped, QueueType
<1>3. none \in Seq(Commands)
  OBVIOUS
<1> HIDE DEF res, none
<1> QED
  BY <1>1, <1>2, <1>3 DEF QueueTyped, QueueType, ResultType

\* The rest of the type invariant: what is on the line is made of tokens.
LineTyped ==
    /\ enqueued_at \in [Commands -> Nat] /\ clock \in Nat
    /\ gone \subseteq Commands /\ session \in Sessions
    /\ admitted \subseteq Commands /\ submitted \in Seq(Commands)
    /\ missed \subseteq Commands /\ lines \in Seq(Commands)
    /\ todo \in Seq(Tokens) /\ wire \in Seq(Tokens)
    /\ losses \in Nat /\ noise \in Nat

\* The type invariant is about the queue and about the line.
LEMMA TypeOKIs == TypeOK <=> QueueTyped(queue) /\ LineTyped
BY DEF TypeOK, QueueTyped, LineTyped

\* What a command line echoes, and what its command prints.
LEMMA LinesAreTokens ==
    ASSUME NEW c \in Commands
    PROVE  /\ SentLine(c) \in Seq(Tokens) /\ Marker(c) \in Seq(Tokens)
           /\ <<Exit(c)>> \in Seq(Tokens)
           /\ [i \in 1 .. OutTokens |-> Out(c, i)] \in Seq(Tokens)
<1>1. /\ Half(c, 1) \in Tokens /\ Half(c, 2) \in Tokens /\ Quote \in Tokens
      /\ Exit(c) \in Tokens /\ \A i \in 1 .. OutTokens : Out(c, i) \in Tokens
  BY DEF Tokens
<1>2. [i \in 1 .. OutTokens |-> Out(c, i)] \in Seq(Tokens)
  BY <1>1, SessionAssumption
<1> QED
  BY <1>1, <1>2 DEF SentLine, Marker

\* The queue moves by one of its methods, or not.
LEMMA QueueStepTyped ==
    ASSUME TypeOK, [Next]_vars
    PROVE  QueueTyped(queue')
<1>0. QueueTyped(queue) /\ LineTyped
  BY TypeOKIs
<1>1. ASSUME NEW c \in Commands, Execute(c) PROVE QueueTyped(queue')
  BY <1>0, <1>1, SubmitTyped DEF Execute
<1>2. CASE CheckTimeouts
  BY <1>0, <1>2, ExpireCurrentTyped DEF CheckTimeouts
<1>3. CASE Read
  <2>1. PICK n \in 1 .. MaxChunk, writes \in BOOLEAN :
               /\ n <= Len(wire)
               /\ queue' = Feed(queue, SubSeq(wire, 1, n), writes)
    BY <1>3 DEF Read
  <2>2. n \in Nat /\ wire \in Seq(Tokens)
    BY <1>0, SessionAssumption DEF LineTyped
  <2>3. SubSeq(wire, 1, n) \in Seq(Tokens)
    BY <2>1, <2>2
  <2> QED
    BY <1>0, <2>1, <2>3, FeedTyped
<1>4. CASE LoseEndpoint
  BY <1>0, <1>4, CancelAllTyped DEF LoseEndpoint
<1>5. CASE SetWriteFn
  BY <1>0, <1>5 DEF SetWriteFn, QueueTyped, QueueType
<1>6. CASE Reclaim \/ LoseLine \/ ReceiveLine
  <2>1. PICK tx \in Seq(Commands) : queue' = [queue EXCEPT !.tx = tx]
    <3>1. queue.tx \in Seq(Commands)
      BY <1>0 DEF QueueTyped, QueueType
    <3>2. <<>> \in Seq(Commands)
      OBVIOUS
    <3>3. queue.tx # <<>> => Tail(queue.tx) \in Seq(Commands)
      BY <3>1
    <3> QED
      BY <1>6, <3>2, <3>3 DEF Reclaim, LoseLine, ReceiveLine
  <2> QED
    BY <1>0, <2>1 DEF QueueTyped, QueueType
<1>7. UNCHANGED queue => QueueTyped(queue')
  BY <1>0
<1>8. ASSUME NEW c \in Commands, Admit(c) \/ CallerDrops(c) \/ CallerTimesOut(c)
      PROVE  QueueTyped(queue')
  BY <1>7, <1>8 DEF Admit, CallerDrops, CallerTimesOut, qvars
<1>9. CASE \/ Relay \/ TakeOver \/ HandBack \/ Tick \/ StartLine \/ Emit \/ Disturb
           \/ Reboot \/ UNCHANGED vars
  BY <1>7, <1>9 DEF Relay, TakeOver, HandBack, Tick, StartLine, Emit, Disturb, Reboot,
                    qvars, vars
<1> QED
  BY <1>1, <1>2, <1>3, <1>4, <1>5, <1>6, <1>8, <1>9 DEF Next

\* The callers, the line and the DUT.
LEMMA LineStepTyped ==
    ASSUME TypeOK, [Next]_vars
    PROVE  LineTyped'
<1>0. LineTyped /\ queue.tx \in Seq(Commands) /\ queue.current \in Commands \cup {NoCommand}
  BY TypeOKIs DEF QueueTyped, QueueType
<1> USE DEF LineTyped
<1>1. ASSUME NEW c \in Commands, Execute(c) PROVE LineTyped'
  <2>1. Append(submitted, c) \in Seq(Commands)
    BY <1>0
  <2> QED
    BY <1>0, <1>1, <2>1 DEF Execute, dutvars
<1>2. ASSUME NEW c \in Commands, Admit(c) \/ CallerDrops(c) \/ CallerTimesOut(c)
      PROVE  LineTyped'
  BY <1>0, <1>2 DEF Admit, CallerDrops, CallerTimesOut, qvars, hostvars, dutvars
<1>3. CASE SetWriteFn \/ CheckTimeouts \/ TakeOver \/ HandBack \/ LoseEndpoint \/ Reclaim
           \/ LoseLine \/ Tick
  BY <1>0, <1>3 DEF SetWriteFn, CheckTimeouts, TakeOver, HandBack, LoseEndpoint, Reclaim,
                    LoseLine, Tick, qvars, hostvars, dutvars, Sessions
<1>4. CASE Read
  <2>1. PICK n \in 1 .. MaxChunk : n <= Len(wire) /\ wire' = SubSeq(wire, n + 1, Len(wire))
    BY <1>4 DEF Read
  <2>2. n \in Nat
    BY SessionAssumption
  <2>3. wire' \in Seq(Tokens)
    BY <1>0, <2>1, <2>2
  <2> QED
    BY <1>0, <1>4, <2>3 DEF Read, hostvars
<1>5. CASE Relay
  <2>1. Tail(wire) \in Seq(Tokens)
    BY <1>0, <1>5 DEF Relay
  <2> QED
    BY <1>0, <1>5, <2>1 DEF Relay, qvars
<1>6. CASE ReceiveLine
  <2> DEFINE c == Head(queue.tx)
  <2>1. c \in Commands
    BY <1>0, <1>6 DEF ReceiveLine
  <2>2. lines' = Append(lines, c) /\ wire' = wire \o SentLine(c)
    BY <1>6 DEF ReceiveLine
  <2> HIDE DEF c
  <2>3. lines' \in Seq(Commands) /\ wire' \in Seq(Tokens)
    <3>1. SentLine(c) \in Seq(Tokens) /\ wire \in Seq(Tokens) /\ lines \in Seq(Commands)
      BY <1>0, <2>1, LinesAreTokens
    <3>2. wire \o SentLine(c) \in Seq(Tokens) /\ Append(lines, c) \in Seq(Commands)
      <4> HIDE DEF LineTyped
      <4> QED
        BY <2>1, <3>1
    <3> QED
      BY <2>2, <3>2
  <2> QED
    BY <1>0, <1>6, <2>3 DEF ReceiveLine, hostvars
<1>7. CASE StartLine
  <2> DEFINE c == Head(lines)
             out == [i \in 1 .. OutTokens |-> Out(c, i)]
  <2>1. c \in Commands /\ lines' \in Seq(Commands)
    BY <1>0, <1>7 DEF StartLine
  <2>2. todo' = Marker(c) \o out \o <<Exit(c)>> \o Marker(c)
    BY <1>7 DEF StartLine
  <2>3. Marker(c) \in Seq(Tokens) /\ out \in Seq(Tokens) /\ <<Exit(c)>> \in Seq(Tokens)
    BY <2>1, LinesAreTokens
  <2> HIDE DEF c, out
  <2>4. todo' \in Seq(Tokens)
    BY <2>2, <2>3
  <2> QED
    BY <1>0, <1>7, <2>1, <2>4 DEF StartLine, qvars, hostvars
<1>8. CASE Emit
  <2>1. wire' \in Seq(Tokens) /\ todo' \in Seq(Tokens)
    BY <1>0, <1>8 DEF Emit
  <2> QED
    BY <1>0, <1>8, <2>1 DEF Emit, qvars, hostvars
<1>9. CASE Disturb
  <2>1. Printk \in Tokens /\ Garbled \in Tokens
    BY DEF Tokens
  <2>2. wire' \in Seq(Tokens)
    <3>1. wire \in Seq(Tokens)
      BY <1>0
    <3>2. Append(wire, Printk) \in Seq(Tokens)
      BY <2>1, <3>1
    <3>3. \A i \in DOMAIN wire : [wire EXCEPT ![i] = Garbled] \in Seq(Tokens)
      BY <2>1, <3>1
    <3> QED
      BY <1>9, <3>2, <3>3 DEF Disturb
  <2> QED
    BY <1>0, <1>9, <2>2 DEF Disturb, qvars, hostvars
<1>10. CASE Reboot
  <2>1. <<>> \in Seq(Commands) /\ <<>> \in Seq(Tokens)
    OBVIOUS
  <2> QED
    BY <1>0, <1>10, <2>1 DEF Reboot, qvars
<1>11. CASE UNCHANGED vars
  BY <1>0, <1>11 DEF vars
<1> QED
  BY <1>1, <1>2, <1>3, <1>4, <1>5, <1>6, <1>7, <1>8, <1>9, <1>10, <1>11 DEF Next

\* Every initial state is type-correct.
LEMMA TypeInit == Init => TypeOK
<1> SUFFICES ASSUME Init PROVE TypeOK
  OBVIOUS
<1>1. <<>> \in Seq(Commands) /\ <<>> \in Seq(Tokens)
  OBVIOUS
<1>2. LineTyped
  <2> QED
    BY <1>1 DEF Init, LineTyped, Sessions
<1>3. QueueTyped(queue)
  <2> DEFINE none == <<>>
             res  == [c \in Commands |-> NoResult]
             scan == FreshScan
  <2>1. /\ none \in Seq(Commands) /\ res \in [Commands -> ResultType]
        /\ scan \in ScanType /\ Len(scan.search_buf) <= BufferCap
    BY AnswersTyped, FreshScanTyped, QueueAssumption
  <2>2. queue = [current |-> NoCommand, pending |-> none, scan |-> scan, result |-> res,
                 write_fn |-> FALSE, tx |-> none, completed |-> 0, errors |-> 0]
    BY DEF Init, EmptyQueue
  <2> HIDE DEF none, res, scan
  <2> QED
    BY <2>1, <2>2 DEF QueueTyped, QueueType, ResultType
<1> QED
  BY <1>2, <1>3, TypeOKIs

\* Every variable has its type in every behaviour; in particular the bytes that
\* are held before a begin marker stay within BufferCap, however many arrive.
THEOREM SessionTyped == Spec => []TypeOK
<1>1. TypeOK /\ [Next]_vars => TypeOK'
  <2> SUFFICES ASSUME TypeOK, [Next]_vars PROVE TypeOK'
    OBVIOUS
  <2>1. QueueTyped(queue') /\ LineTyped'
    BY QueueStepTyped, LineStepTyped
  <2> QED
    BY <2>1 DEF TypeOK, QueueTyped, LineTyped
<1> QED
  BY TypeInit, <1>1, PTL DEF Spec

-----------------------------------------------------------------------------
(***************************************************************************)
(* The turns: commands go on the line in the order of their submission,    *)
(* and none after its deadline or for a caller that is gone.               *)
(*                                                                         *)
(* One relation (Turn) between the queue before and after a method says    *)
(* all of it.  It is reflexive and transitive, so the methods that call    *)
(* each other are chained.                                                 *)
(***************************************************************************)

BeforeIn(s, c, d) ==
    \E i, j \in DOMAIN s : i < j /\ s[i] = c /\ s[j] = d

\* The commands of q were submitted in the order in which they wait.
InOrder(q, s) ==
    /\ \A i, j \in DOMAIN q.pending :
          i < j => BeforeIn(s, q.pending[i], q.pending[j])
    /\ q.current # NoCommand =>
          \A c \in ToSet(q.pending) : BeforeIn(s, q.current, c)

\* From q to r the first n that wait leave, the last of them for the line.
Advances(q, r) ==
    \E n \in 0 .. Len(q.pending) :
        /\ r.pending = SubSeq(q.pending, n + 1, Len(q.pending))
        /\ r.current \in {NoCommand, IF n = 0 THEN q.current ELSE q.pending[n]}

\* How a command ends that was accepted.
EndKinds == {"ok", "timeout", "closed"}

\* From q to r no command is added or overtakes another one, only a sendable
\* one goes on the line, and nothing succeeds late.
Turn(q, r) ==
    /\ Advances(q, r)
    /\ \A c \in Commands : r.result[c] = q.result[c] \/ r.result[c].kind \in EndKinds
    /\ ToSet(r.pending) \subseteq ToSet(q.pending)
    /\ \/ r.current \in {q.current, NoCommand}
       \/ r.current \in ToSet(q.pending) /\ Sendable(r.current)
    /\ \A c \in Commands :
          q.result[c].kind # "ok" /\ r.result[c].kind = "ok" => Age(c) <= Timeout
    /\ \A s : InOrder(q, s) => InOrder(r, s)

ClockTyped == clock \in Nat /\ enqueued_at \in [Commands -> Nat]

\* The command on the line is not late.
InTime(q) == q.current # NoCommand => Age(q.current) <= Timeout

\* A suffix of a suffix is a suffix.
SuffixOfSuffix(s, m, n) ==
    LET t == SubSeq(s, m + 1, Len(s)) IN
    /\ m + n \in 0 .. Len(s)
    /\ SubSeq(t, n + 1, Len(t)) = SubSeq(s, m + n + 1, Len(s))
    /\ n > 0 => t[n] = s[m + n]

\* What is left of what is left is a suffix of the whole, with the same
\* elements at the places further on.
LEMMA SuffixesCompose ==
    ASSUME NEW s \in Seq(Commands), NEW m \in 0 .. Len(s),
           NEW n \in 0 .. Len(SubSeq(s, m + 1, Len(s)))
    PROVE  SuffixOfSuffix(s, m, n)
<1> DEFINE t == SubSeq(s, m + 1, Len(s))
           u == SubSeq(t, n + 1, Len(t))
           v == SubSeq(s, m + n + 1, Len(s))
<1>1. /\ Len(s) \in Nat /\ m \in Nat /\ m <= Len(s)
      /\ t \in Seq(Commands) /\ Len(t) = Len(s) - m
      /\ \A i \in 1 .. Len(s) - m : t[i] = s[m + i]
  BY ToSetSuffix
<1> HIDE DEF t
<1>2. /\ n \in Nat /\ n <= Len(t) /\ m + n \in Nat /\ m + n <= Len(s)
  BY <1>1 DEF t
<1>3. /\ u \in Seq(Commands) /\ Len(u) = Len(t) - n
      /\ \A i \in 1 .. Len(t) - n : u[i] = t[n + i]
  BY <1>1, <1>2, ToSetSuffix
<1>4. /\ v \in Seq(Commands) /\ Len(v) = Len(s) - (m + n)
      /\ \A i \in 1 .. Len(s) - (m + n) : v[i] = s[m + n + i]
  BY <1>1, <1>2, ToSetSuffix
<1> HIDE DEF u, v
<1>5. Len(u) = Len(v) /\ Len(u) \in Nat
  BY <1>1, <1>2, <1>3, <1>4
<1>a. ASSUME NEW i \in 1 .. Len(v) PROVE u[i] = v[i]
  <2>1. i \in 1 .. Len(t) - n /\ n + i \in 1 .. Len(s) - m
    BY <1>1, <1>2, <1>4, <1>a
  <2>2. u[i] = s[m + (n + i)]
    BY <1>1, <1>3, <2>1
  <2>3. v[i] = s[m + n + i]
    BY <1>1, <1>2, <1>4, <1>a
  <2>4. m + (n + i) = m + n + i
    BY <1>1, <1>2, <2>1
  <2> QED
    BY <2>2, <2>3, <2>4
<1>6. u = v
  <2>1. u = [i \in 1 .. Len(u) |-> u[i]] /\ v = [i \in 1 .. Len(v) |-> v[i]]
    BY <1>3, <1>4
  <2> QED
    BY <1>5, <1>a, <2>1
<1>7. n > 0 => t[n] = s[m + n]
  BY <1>1, <1>2
<1> QED
  BY <1>2, <1>6, <1>7 DEF SuffixOfSuffix, t, u, v

\* A queue whose commands stay where they are advances by nobody.
LEMMA StaysAdvances ==
    ASSUME NEW q, NEW r, q.pending \in Seq(Commands),
           r.current \in {q.current, NoCommand}, r.pending = q.pending
    PROVE  Advances(q, r)
<1>1. SubSeq(q.pending, 0 + 1, Len(q.pending)) = q.pending /\ Len(q.pending) \in Nat
  OBVIOUS
<1>2. 0 \in 0 .. Len(q.pending)
  BY <1>1
<1> QED
  BY <1>1, <1>2 DEF Advances

\* Two methods in a row are one turn.
LEMMA TurnTransitive ==
    ASSUME NEW p, NEW q, NEW r, p.pending \in Seq(Commands), Turn(p, q), Turn(q, r)
    PROVE  Turn(p, r)
<1>1. Advances(p, r)
  <2> DEFINE s == p.pending
  <2>1. PICK m \in 0 .. Len(s) :
           /\ q.pending = SubSeq(s, m + 1, Len(s))
           /\ q.current \in {NoCommand, IF m = 0 THEN p.current ELSE s[m]}
    BY DEF Turn, Advances
  <2>2. PICK n \in 0 .. Len(q.pending) :
           /\ r.pending = SubSeq(q.pending, n + 1, Len(q.pending))
           /\ r.current \in {NoCommand, IF n = 0 THEN q.current ELSE q.pending[n]}
    BY DEF Turn, Advances
  <2> HIDE DEF s
  <2>3. s \in Seq(Commands)
    BY DEF s
  <2>4. SuffixOfSuffix(s, m, n)
    BY <2>1, <2>2, <2>3, SuffixesCompose
  <2>5. /\ m + n \in 0 .. Len(s)
        /\ r.pending = SubSeq(s, m + n + 1, Len(s))
        /\ r.current \in {NoCommand, IF m + n = 0 THEN p.current ELSE s[m + n]}
    BY <2>1, <2>2, <2>4 DEF SuffixOfSuffix
  <2> QED
    BY <2>5 DEF Advances, s
<1> QED
  BY <1>1 DEF Turn

-----------------------------------------------------------------------------
(* One lemma per method.                                                   *)

\* dequeue_next drops a prefix of what waits and sends the next command.
LEMMA DequeueNextShape ==
    ASSUME NEW q, IsQueue(q), q.current = NoCommand
    PROVE  \E n \in Nat :
              /\ n <= Len(q.pending)
              /\ DequeueNext(q).pending = SubSeq(q.pending, n + 2, Len(q.pending))
              /\ DequeueNext(q).current # NoCommand =>
                    /\ n < Len(q.pending)
                    /\ DequeueNext(q).current = q.pending[n + 1]
                    /\ Sendable(q.pending[n + 1])
              /\ \A c \in Commands :
                    \/ DequeueNext(q).result[c] = q.result[c]
                    \/ DequeueNext(q).result[c].kind \in {"timeout", "closed"}
<1> DEFINE p    == q.pending
           live == {i \in DOMAIN p : Sendable(p[i])}
           n    == IF live = {} THEN Len(p) ELSE Min(live) - 1
           skipped == {p[i] : i \in 1 .. n}
           late == skipped \ gone
           res  == [c \in Commands |-> IF c \in late THEN TimedOut(<<>>)
                                       ELSE IF c \in skipped THEN Closed
                                       ELSE q.result[c]]
           rest == SubSeq(p, n + 2, Len(p))
           errs == q.errors + Cardinality(late)
           left == [q EXCEPT !.pending = rest, !.result = res, !.errors = errs]
<1>1. p \in Seq(Commands) /\ Len(p) \in Nat /\ DOMAIN p = 1 .. Len(p)
  BY DEF IsQueue
<1>2. /\ live = {} => n = Len(p)
      /\ live # {} => /\ n \in Nat /\ n + 1 \in 1 .. Len(p)
                      /\ Sendable(p[n + 1])
  <2>1. live \in SUBSET Nat
    BY <1>1
  <2>2. live # {} => Min(live) \in live
    BY <2>1, MinOfNaturals
  <2>3. live # {} => n \in Nat /\ n + 1 = Min(live) /\ n + 1 \in 1 .. Len(p)
    BY <1>1, <2>2
  <2>4. \A i \in live : Sendable(p[i])
    OBVIOUS
  <2> QED
    BY <2>2, <2>3, <2>4
<1>3. n \in Nat /\ n <= Len(p)
  BY <1>1, <1>2
<1>4. DequeueNext(q) = IF live = {} THEN left ELSE SendCommand(left, p[n + 1])
  BY DEF DequeueNext
<1> HIDE DEF live, n
<1>5. /\ left.current = NoCommand /\ left.pending = rest
      /\ left.write_fn = q.write_fn /\ left.result = res
      /\ left = [f \in Fields |-> left[f]]
  <2> HIDE DEF rest, res, errs
  <2> QED
    BY DEF IsQueue, Fields
<1>6. \A c \in Commands :
         left.result[c] = q.result[c] \/ left.result[c].kind \in {"timeout", "closed"}
  <2>1. TimedOut(<<>>).kind = "timeout" /\ Closed.kind = "closed"
    BY DEF TimedOut, Closed
  <2> HIDE DEF left, skipped, late
  <2>2. \A c \in Commands :
           left.result[c] \in {q.result[c], TimedOut(<<>>), Closed}
    BY <1>5
  <2> QED
    BY <2>1, <2>2
<1> HIDE DEF left
<1>7. CASE live = {}
  BY <1>3, <1>4, <1>5, <1>6, <1>7
<1>8. CASE live # {}
  <2> DEFINE c == p[n + 1]
             r == SendCommand(left, c)
  <2>1. c \in Commands
    BY <1>1, <1>2, <1>8
  <2>2. r.pending = left.pending /\ r.current \in {c, NoCommand}
    <3> HIDE DEF c
    <3> QED
      BY <1>5 DEF SendCommand, Resolve, Fields
  <2>3. \A d \in Commands :
           r.result[d] = left.result[d] \/ r.result[d].kind = "closed"
    <3>1. left.result = [d \in Commands |-> left.result[d]]
      BY <1>5
    <3> HIDE DEF c, res
    <3> QED
      BY <1>5, <2>1, <3>1 DEF SendCommand, Resolve, Fields, Closed
  <2>4. DequeueNext(q) = r
    BY <1>4, <1>8
  <2> HIDE DEF r
  <2>5. n < Len(p) /\ Sendable(c)
    BY <1>1, <1>2, <1>8
  <2>6. \A d \in Commands :
           r.result[d] = q.result[d] \/ r.result[d].kind \in {"timeout", "closed"}
    BY <1>6, <2>3
  <2> QED
    BY <1>3, <1>5, <2>2, <2>4, <2>5, <2>6
<1> QED
  BY <1>7, <1>8

\* DequeueNext is a turn, and a new current command has a live caller.
LEMMA DequeueNextTurn ==
    ASSUME NEW q, IsQueue(q)
    PROVE  /\ Turn(q, DequeueNext(q))
           /\ \/ DequeueNext(q) = q
              \/ DequeueNext(q).current # NoCommand =>
                    Sendable(DequeueNext(q).current)
<1>1. CASE q.current # NoCommand
  <2>1. DequeueNext(q) = q
    BY <1>1 DEF DequeueNext
  <2>2. Advances(q, q)
    BY StaysAdvances DEF IsQueue
  <2> QED
    BY <2>1, <2>2 DEF Turn
<1>2. CASE q.current = NoCommand
  <2> DEFINE p == q.pending
             r == DequeueNext(q)
  <2>1. PICK n \in Nat :
              /\ n <= Len(p)
              /\ r.pending = SubSeq(p, n + 2, Len(p))
              /\ r.current # NoCommand =>
                    n < Len(p) /\ r.current = p[n + 1] /\ Sendable(p[n + 1])
              /\ \A c \in Commands :
                    \/ r.result[c] = q.result[c]
                    \/ r.result[c].kind \in {"timeout", "closed"}
    BY <1>2, DequeueNextShape
  <2>2. p \in Seq(Commands) /\ Len(p) \in Nat /\ DOMAIN p = 1 .. Len(p)
    BY DEF IsQueue
  <2> HIDE DEF p, r
  <2>3. /\ DOMAIN r.pending \subseteq Nat
        /\ \A i \in DOMAIN r.pending :
              n + 1 + i \in DOMAIN p /\ r.pending[i] = p[n + 1 + i]
    BY <2>1, <2>2
  <2>4. ToSet(r.pending) \subseteq ToSet(p)
    BY <2>3 DEF ToSet
  <2>5. r.current # NoCommand => r.current \in ToSet(p) /\ Sendable(r.current)
    BY <2>1, <2>2 DEF ToSet
  <2>6. ASSUME NEW s, InOrder(q, s) PROVE InOrder(r, s)
    <3>1. \A i, j \in DOMAIN p : i < j => BeforeIn(s, p[i], p[j])
      BY <2>6 DEF InOrder, p
    <3>2. \A i, j \in DOMAIN r.pending :
             i < j => BeforeIn(s, r.pending[i], r.pending[j])
      <4> SUFFICES ASSUME NEW i \in DOMAIN r.pending, NEW j \in DOMAIN r.pending,
                          i < j
                   PROVE  BeforeIn(s, r.pending[i], r.pending[j])
        OBVIOUS
      <4>1. n + 1 + i < n + 1 + j
        BY <2>3
      <4> QED
        BY <2>3, <3>1, <4>1
    <3>3. ASSUME r.current # NoCommand, NEW c \in ToSet(r.pending)
          PROVE  BeforeIn(s, r.current, c)
      <4>1. PICK i \in DOMAIN r.pending : c = r.pending[i]
        BY <3>3 DEF ToSet
      <4>2. n + 1 \in DOMAIN p /\ r.current = p[n + 1]
        BY <2>1, <2>2, <3>3
      <4>3. i > 0 /\ n + 1 + i \in DOMAIN p /\ c = p[n + 1 + i]
        <5>1. r.pending \in Seq(Commands)
          BY <2>1, <2>2
        <5> QED
          BY <2>3, <4>1, <5>1
      <4>4. n + 1 < n + 1 + i
        BY <2>3, <4>3
      <4> QED
        BY <3>1, <4>2, <4>3, <4>4
    <3> QED
      BY <3>2, <3>3 DEF InOrder
  <2>7. \A c \in Commands :
           q.result[c].kind # "ok" /\ r.result[c].kind = "ok" => Age(c) <= Timeout
    BY <2>1
  <2>8. Advances(q, r)
    <3>1. CASE n < Len(p)
      <4>1. n + 1 \in 0 .. Len(p) /\ n + 1 # 0 /\ (n + 1) + 1 = n + 2
        BY <2>1, <2>2, <3>1
      <4>2. r.current \in {NoCommand, p[n + 1]}
        BY <2>1
      <4> QED
        BY <2>1, <4>1, <4>2 DEF Advances, p
    <3>2. CASE n = Len(p)
      <4>1. r.pending = <<>> /\ SubSeq(p, Len(p) + 1, Len(p)) = <<>>
        BY <2>1, <2>2, <3>2
      <4>2. r.current = NoCommand
        BY <2>1, <2>2, <3>2
      <4>3. Len(p) \in 0 .. Len(p)
        BY <2>2
      <4> QED
        BY <4>1, <4>2, <4>3 DEF Advances, p
    <3> QED
      BY <2>1, <2>2, <3>1, <3>2
  <2>9. \A c \in Commands : r.result[c] = q.result[c] \/ r.result[c].kind \in EndKinds
    BY <2>1 DEF EndKinds
  <2> QED
    BY <2>4, <2>5, <2>6, <2>7, <2>8, <2>9 DEF Turn, p, r
<1> QED
  BY <1>1, <1>2

\* A queue that only answers the command on the line, in time or not with
\* success.
LEMMA RetireTurn ==
    ASSUME NEW q, NEW r, NEW a, IsQueue(q),
           q.current # NoCommand, r.current = NoCommand, r.pending = q.pending,
           r.result = [q.result EXCEPT ![q.current] = a], a.kind \in EndKinds,
           a.kind = "ok" => Age(q.current) <= Timeout
    PROVE  Turn(q, r)
<1>1. \A d \in Commands :
         r.result[d] = IF d = q.current THEN a ELSE q.result[d]
  BY DEF IsQueue
<1>2. \A s : InOrder(q, s) => InOrder(r, s)
  BY DEF InOrder
<1>3. Advances(q, r)
  BY StaysAdvances DEF IsQueue
<1> QED
  BY <1>1, <1>2, <1>3 DEF Turn

\* The same lines in the same places.
LEMMA SameTurn ==
    ASSUME NEW q, NEW r, q.pending \in Seq(Commands),
           r.current = q.current, r.pending = q.pending, r.result = q.result
    PROVE  Turn(q, r)
BY StaysAdvances DEF Turn, InOrder

\* What goes on the line is in time.
LEMMA SendableInTime ==
    ASSUME NEW q, ClockTyped, q.current \in Commands \cup {NoCommand},
           q.current # NoCommand => Sendable(q.current)
    PROVE  InTime(q)
BY QueueAssumption DEF InTime, Sendable, ClockTyped, Age

\* After the timeout check the command on the line is in time.
LEMMA ExpireCurrentTurn ==
    ASSUME NEW q, NEW S \in SUBSET Commands, Slots(q, S), Moving(q), ClockTyped
    PROVE  Turn(q, ExpireCurrent(q)) /\ InTime(ExpireCurrent(q))
<1>0. IsQueue(q)
  BY DEF Slots
<1>1. CASE ~CurrentExpired(q)
  <2>1. ExpireCurrent(q) = q /\ Turn(q, q)
    BY <1>0, <1>1, SameTurn DEF ExpireCurrent, IsQueue
  <2>2. InTime(q)
    BY <1>0, <1>1, QueueAssumption
       DEF CurrentExpired, InTime, ClockTyped, Age, IsQueue
  <2> QED
    BY <2>1, <2>2
<1>2. CASE CurrentExpired(q)
  <2> DEFINE a == TimedOut(q.scan.spill \o q.scan.buffer)
             e == q.errors + 1
             r == [Resolve(q, q.current, a)
                     EXCEPT !.current = NoCommand, !.errors = e]
  <2>1. ExpireCurrent(q) = DequeueNext(r)
    <3>1. Resolve(q, q.current, a).errors = q.errors
      BY DEF Resolve, Slots, IsQueue, Fields
    <3> QED
      BY <1>2, <3>1 DEF ExpireCurrent
  <2>2. q.current # NoCommand /\ a # NoResult /\ a.kind # "ok" /\ a.kind \in EndKinds
    BY <1>2, AnswersAreAnswers DEF CurrentExpired, TimedOut, EndKinds
  <2> HIDE DEF a, e
  <2>3. /\ r.current = NoCommand /\ r.pending = q.pending
        /\ r.write_fn = q.write_fn
        /\ r.result = [q.result EXCEPT ![q.current] = a]
        /\ r = [f \in Fields |-> r[f]]
    BY DEF Resolve, Slots, IsQueue, Fields
  <2> HIDE DEF r
  <2>4. Slots(r, S) /\ Wired(r)
    BY <2>2, <2>3, RetireSlots
  <2>5. Turn(q, r)
    BY <1>0, <2>2, <2>3, RetireTurn
  <2>6. /\ Turn(r, DequeueNext(r))
        /\ DequeueNext(r).current # NoCommand => Sendable(DequeueNext(r).current)
    BY <2>3, <2>4, DequeueNextTurn DEF Slots
  <2>7. DequeueNext(r).current \in Commands \cup {NoCommand}
    BY <2>4, DequeueNextSlots DEF Slots, IsQueue
  <2> QED
    BY <1>0, <2>1, <2>5, <2>6, <2>7, SendableInTime, TurnTransitive DEF IsQueue
<1> QED
  BY <1>1, <1>2

\* The end marker of a command in time.
LEMMA CompleteTurn ==
    ASSUME NEW q, NEW S \in SUBSET Commands, NEW scan, NEW at,
           Slots(q, S), Moving(q), q.current # NoCommand, InTime(q)
    PROVE  Turn(q, Complete(q, scan, at))
<1> DEFINE a == ExtractExit(scan.spill \o SubSeq(scan.buffer, 1, at - 1))
           e == q.completed + 1
           r == [Resolve(q, q.current, a)
                   EXCEPT !.current = NoCommand, !.completed = e]
<1>1. Complete(q, scan, at) = DequeueNext(r)
  <2>1. Resolve(q, q.current, a).completed = q.completed
    BY DEF Resolve, Slots, IsQueue, Fields
  <2> QED
    BY <2>1 DEF Complete
<1>2. a # NoResult /\ a.kind \in EndKinds
  BY AnswersAreAnswers DEF ExtractExit, OkResult, EndKinds
<1> HIDE DEF a, e
<1>3. /\ r.current = NoCommand /\ r.pending = q.pending
      /\ r.write_fn = q.write_fn
      /\ r.result = [q.result EXCEPT ![q.current] = a]
      /\ r = [f \in Fields |-> r[f]]
  BY DEF Resolve, Slots, IsQueue, Fields
<1> HIDE DEF r
<1>4. Slots(r, S)
  BY <1>2, <1>3, RetireSlots
<1>5. Turn(q, r)
  BY <1>2, <1>3, RetireTurn DEF Slots, InTime
<1>6. Turn(r, DequeueNext(r))
  BY <1>4, DequeueNextTurn DEF Slots
<1> QED
  BY <1>1, <1>5, <1>6, TurnTransitive DEF Slots, IsQueue

\* A chunk ends the current command at most, and takes the next from the front.
LEMMA ScanChunkTurn ==
    ASSUME NEW q, NEW S \in SUBSET Commands, NEW data, NEW writes,
           Slots(q, S), Moving(q), InTime(q)
    PROVE  Turn(q, ScanChunk(q, data, writes).q)
<1>1. CASE q.current = NoCommand
  BY <1>1, SameTurn DEF ScanChunk, Slots, IsQueue
<1>2. CASE q.current # NoCommand
  <2> DEFINE c     == q.current
             begun == IF q.scan.found_begin
                      THEN [q.scan EXCEPT !.buffer = @ \o data]
                      ELSE FindBegin(q.scan, c, data)
             scan  == IF begun.found_begin THEN Spill(begun, writes) ELSE begun
             ends  == IF scan.found_begin THEN MarkerAt(scan.buffer, c) ELSE {}
             r     == [q EXCEPT !.scan = scan]
  <2>1. ScanChunk(q, data, writes).q =
           IF ends = {} THEN r ELSE Complete(q, scan, Min(ends))
    BY <1>2 DEF ScanChunk
  <2> HIDE DEF begun, scan, ends, c
  <2>2. r.current = q.current /\ r.pending = q.pending /\ r.result = q.result
    BY DEF Slots, IsQueue, Fields
  <2>3. Turn(q, r)
    BY <2>2, SameTurn DEF Slots, IsQueue
  <2>4. Turn(q, Complete(q, scan, Min(ends)))
    BY <1>2, CompleteTurn
  <2> QED
    BY <2>1, <2>3, <2>4
<1> QED
  BY <1>1, <1>2

\* A whole chunk: each of its scans follows a timeout check.
LEMMA FeedTurn ==
    ASSUME NEW q, NEW S \in SUBSET Commands, NEW data, NEW writes,
           Slots(q, S), Moving(q), ClockTyped
    PROVE  Turn(q, Feed(q, data, writes))
<1> DEFINE e     == ExpireCurrent(q)
           first == ScanChunk(e, data, writes)
           f     == ExpireCurrent(first.q)
           again == ScanChunk(f, first.rest, writes)
<1>1. Feed(q, data, writes) = IF first.rest = <<>> THEN first.q ELSE again.q
  BY DEF Feed, FeedRest
<1>2. Slots(e, S) /\ Moving(e) /\ Turn(q, e) /\ InTime(e)
  BY ExpireCurrentSlots, ExpireCurrentTurn
<1> HIDE DEF e
<1>3. Slots(first.q, S) /\ Moving(first.q) /\ Turn(e, first.q)
  BY <1>2, ScanChunkSlots, ScanChunkTurn
<1> HIDE DEF first
<1>4. Slots(f, S) /\ Moving(f) /\ Turn(first.q, f) /\ InTime(f)
  BY <1>3, ExpireCurrentSlots, ExpireCurrentTurn
<1> HIDE DEF f
<1>5. Turn(f, again.q)
  BY <1>4, ScanChunkTurn
<1> HIDE DEF again
<1>6. Turn(q, first.q)
  BY <1>2, <1>3, TurnTransitive DEF Slots, IsQueue
<1>8. q.pending \in Seq(Commands) /\ Turn(first.q, again.q)
  BY <1>3, <1>4, <1>5, TurnTransitive DEF Slots, IsQueue
<1>7. Turn(q, again.q)
  BY <1>4, <1>5, <1>6, <1>8, TurnTransitive
<1> QED
  BY <1>1, <1>6, <1>7

\* cancel_all leaves nothing on the line or waiting.
LEMMA CancelAllTurn ==
    ASSUME NEW q, IsQueue(q)
    PROVE  Turn(q, [CancelAll(q) EXCEPT !.tx = <<>>])
<1> DEFINE r == [CancelAll(q) EXCEPT !.tx = <<>>]
           res == [c \in Commands |->
                     IF c = q.current \/ c \in ToSet(q.pending)
                     THEN Closed ELSE q.result[c]]
<1>1. r.current = NoCommand /\ r.pending = <<>> /\ r.result = res
  <2> HIDE DEF res
  <2> QED
    BY DEF CancelAll, IsQueue, Fields, res
<1> HIDE DEF r
<1>2. ToSet(r.pending) = {} /\ DOMAIN r.pending = {}
  BY <1>1 DEF ToSet
<1>3. \A c \in Commands : r.result[c] \in {q.result[c], Closed}
  BY <1>1
<1>4. \A s : InOrder(r, s)
  BY <1>1, <1>2 DEF InOrder
<1>5. Closed.kind # "ok" /\ Closed.kind \in EndKinds
  BY DEF Closed, EndKinds
<1>6. Advances(q, r)
  <2> DEFINE p == q.pending
  <2>1. Len(p) \in 0 .. Len(p) /\ SubSeq(p, Len(p) + 1, Len(p)) = <<>>
    BY DEF IsQueue
  <2> QED
    BY <1>1, <2>1 DEF Advances
<1> QED
  BY <1>1, <1>2, <1>3, <1>4, <1>5, <1>6 DEF Turn, r

\* Placed, for a reader of the queue: what waits was submitted, and is not on
\* the line.
LEMMA PlacedCommands ==
    ASSUME NEW q, NEW S \in SUBSET Commands, Slots(q, S)
    PROVE  /\ IsQueue(q) /\ q.pending \in Seq(Commands)
           /\ ToSet(q.pending) \subseteq S
           /\ q.current # NoCommand => q.current \in S
           /\ q.current \notin ToSet(q.pending)
           /\ NoCommand \notin ToSet(q.pending)
<1>1. IsQueue(q) /\ Placed(q, S)
  BY DEF Slots
<1>2. q.pending \in Seq(Commands) /\ q.current \in Commands \cup {NoCommand}
  BY <1>1 DEF IsQueue
<1>3. ToSet(q.pending) \subseteq Commands
  BY <1>2 DEF ToSet
<1>4. NoCommand \notin ToSet(q.pending)
  BY <1>3, QueueAssumption
<1> QED
  BY <1>1, <1>2, <1>3, <1>4 DEF Placed

\* The order of submission grows at its end.
LEMMA BeforeAppend ==
    ASSUME NEW s \in Seq(Commands), NEW c \in Commands
    PROVE  /\ \A x, y : BeforeIn(s, x, y) => BeforeIn(Append(s, c), x, y)
           /\ \A x \in ToSet(s) : BeforeIn(Append(s, c), x, c)
<1> DEFINE t == Append(s, c)
<1>1. /\ Len(s) \in Nat /\ DOMAIN s = 1 .. Len(s) /\ DOMAIN t = 1 .. Len(s) + 1
      /\ t[Len(s) + 1] = c /\ \A i \in 1 .. Len(s) : t[i] = s[i]
  OBVIOUS
<1> HIDE DEF t
<1>2. ASSUME NEW x, NEW y, BeforeIn(s, x, y) PROVE BeforeIn(t, x, y)
  BY <1>1, <1>2 DEF BeforeIn
<1>3. ASSUME NEW x \in ToSet(s) PROVE BeforeIn(t, x, c)
  <2>1. PICK i \in 1 .. Len(s) : x = s[i]
    BY <1>1 DEF ToSet
  <2>2. i \in DOMAIN t /\ Len(s) + 1 \in DOMAIN t /\ i < Len(s) + 1 /\ t[i] = x
    BY <1>1, <2>1
  <2> QED
    BY <1>1, <2>2 DEF BeforeIn
<1> QED
  BY <1>2, <1>3 DEF t

\* execute: what the new command does to the commands before it.
LEMMA SubmitTurn ==
    ASSUME NEW q, NEW s \in Seq(Commands), NEW c \in Commands \ ToSet(s),
           Slots(q, ToSet(s)), Moving(q), InOrder(q, s)
    PROVE  /\ InOrder(Submit(q, c), Append(s, c))
           /\ Submit(q, c).current \in {q.current, NoCommand, c}
           /\ \A d \in Commands : \/ Submit(q, c).result[d] = q.result[d]
                                 \/ Submit(q, c).result[d].kind # "ok"
<1> DEFINE r == Submit(q, c)
           t == Append(s, c)
<1>1. /\ IsQueue(q) /\ q.pending \in Seq(Commands)
      /\ ToSet(q.pending) \subseteq ToSet(s)
      /\ q.current # NoCommand => q.current \in ToSet(s)
  <2>1. ToSet(s) \in SUBSET Commands
    BY DEF ToSet
  <2> HIDE DEF r, t
  <2> QED
    BY <2>1, PlacedCommands
<1>2. InOrder(q, t)
  <2>1. ToSet(q.pending) = {q.pending[j] : j \in DOMAIN q.pending}
    BY DEF ToSet
  <2> QED
    BY <2>1, BeforeAppend DEF InOrder
<1>3. \A x \in ToSet(s) : BeforeIn(t, x, c)
  BY BeforeAppend
<1> HIDE DEF t
<1>4. CASE Len(q.pending) >= MaxPending
  <2>1. /\ r.current = q.current /\ r.pending = q.pending
        /\ r.result = [q.result EXCEPT ![c] = Rejected]
    BY <1>1, <1>4 DEF Submit, Resolve, IsQueue, Fields
  <2> HIDE DEF r
  <2>2. \A d \in Commands : r.result[d] \in {q.result[d], Rejected}
    BY <1>1, <2>1 DEF IsQueue
  <2>3. InOrder(r, t)
    BY <1>2, <2>1 DEF InOrder
  <2>4. Rejected.kind # "ok"
    BY DEF Rejected
  <2> QED
    BY <2>1, <2>2, <2>3, <2>4 DEF r, t
<1>5. CASE ~(Len(q.pending) >= MaxPending) /\ q.current = NoCommand
  <2>1. r = SendCommand(q, c) /\ q.pending = <<>>
    BY <1>5 DEF Submit, Moving
  <2>2. r.pending = <<>> /\ r.current \in {NoCommand, c}
    <3> HIDE DEF r
    <3> QED
      BY <1>1, <1>5, <2>1 DEF SendCommand, Resolve, IsQueue, Fields
  <2>3. \A d \in Commands : r.result[d] = q.result[d] \/ r.result[d] = Closed
    <3> HIDE DEF r
    <3> QED
      BY <1>1, <2>1 DEF SendCommand, Resolve, IsQueue, Fields
  <2> HIDE DEF r
  <2>4. InOrder(r, t)
    BY <2>2 DEF InOrder, ToSet
  <2>5. Closed.kind # "ok"
    BY DEF Closed
  <2> QED
    BY <2>2, <2>3, <2>4, <2>5 DEF r, t
<1>6. CASE ~(Len(q.pending) >= MaxPending) /\ q.current # NoCommand
  <2>1. /\ r.current = q.current /\ r.pending = Append(q.pending, c)
        /\ r.result = q.result
    BY <1>1, <1>6 DEF Submit, IsQueue, Fields
  <2> HIDE DEF r
  <2> DEFINE p == q.pending
             n == Len(p)
  <2>2. /\ n \in Nat /\ DOMAIN p = 1 .. n /\ DOMAIN r.pending = 1 .. n + 1
        /\ r.pending[n + 1] = c /\ \A j \in 1 .. n : r.pending[j] = p[j]
    BY <1>1, <2>1
  <2>3. ToSet(r.pending) = ToSet(p) \cup {c}
    BY <1>1, <2>1, ToSetAppend
  <2>4. \A j \in 1 .. n : p[j] \in ToSet(s)
    BY <1>1, <2>2 DEF ToSet
  <2>5. ASSUME NEW j \in DOMAIN r.pending, NEW k \in DOMAIN r.pending, j < k
        PROVE  BeforeIn(t, r.pending[j], r.pending[k])
    <3>1. j \in 1 .. n
      BY <2>2, <2>5
    <3>2. CASE k = n + 1
      BY <1>3, <2>2, <2>4, <3>1, <3>2
    <3>3. CASE k \in 1 .. n
      BY <1>2, <2>2, <2>5, <3>1, <3>3 DEF InOrder
    <3> QED
      BY <2>2, <3>2, <3>3
  <2>6. \A d \in ToSet(r.pending) : BeforeIn(t, r.current, d)
    BY <1>1, <1>2, <1>3, <1>6, <2>1, <2>3 DEF InOrder
  <2>7. InOrder(r, t)
    BY <2>5, <2>6 DEF InOrder
  <2> QED
    BY <2>1, <2>7 DEF r, t
<1> QED
  BY <1>4, <1>5, <1>6

-----------------------------------------------------------------------------
(* The inductive invariant.                                                *)

TurnInv ==
    /\ SessionInv
    /\ ClockTyped
    /\ InOrder(queue, submitted)

\* What every step keeps: the order, and the deadlines.
Punctual ==
    /\ queue'.current \in Waiting =>
          Age(queue'.current) < Timeout /\ queue'.current \notin gone
    /\ \A c \in Commands :
          queue.result[c].kind # "ok" /\ queue'.result[c].kind = "ok"
             => Age(c) <= Timeout

\* A step that takes the queue through methods.
LEMMA TurnStep ==
    ASSUME TurnInv, Turn(queue, queue'), UNCHANGED submitted
    PROVE  InOrder(queue', submitted') /\ Punctual
<1>1. queue.current \notin Waiting /\ NoCommand \notin Waiting
  <2>1. ToSet(submitted) \in SUBSET Commands
    BY DEF TurnInv, SessionInv, ToSet
  <2> QED
    BY <2>1, PlacedCommands DEF TurnInv, SessionInv, Waiting
<1> QED
  BY <1>1 DEF TurnInv, Turn, Punctual, Waiting, Sendable

\* A step that leaves the commands where they are.
LEMMA TurnUnchanged ==
    ASSUME TurnInv, UNCHANGED submitted,
           \/ UNCHANGED queue
           \/ \E lines_left : queue' = [queue EXCEPT !.tx = lines_left]
           \/ queue' = [queue EXCEPT !.write_fn = TRUE]
    PROVE  InOrder(queue', submitted') /\ Punctual
<1>1. /\ queue'.current = queue.current /\ queue'.pending = queue.pending
      /\ queue'.result = queue.result
  BY DEF TurnInv, SessionInv, Slots, IsQueue, Fields
<1> QED
  BY <1>1, SameTurn, TurnStep DEF TurnInv, SessionInv, Slots, IsQueue

\* Every step keeps the types of the clock and of the submission times.
LEMMA ClockStep ==
    ASSUME ClockTyped, [Next]_vars
    PROVE  ClockTyped'
<1> USE DEF ClockTyped, qvars, hostvars, dutvars
<1>1. ASSUME NEW c \in Commands, Execute(c) PROVE ClockTyped'
  BY <1>1 DEF Execute
<1>2. ASSUME NEW c \in Commands, Admit(c) \/ CallerDrops(c) \/ CallerTimesOut(c)
      PROVE  ClockTyped'
  BY <1>2 DEF Admit, CallerDrops, CallerTimesOut
<1>3. CASE SetWriteFn \/ CheckTimeouts \/ Read \/ Relay \/ TakeOver \/ HandBack
           \/ LoseEndpoint \/ Reclaim \/ LoseLine
  BY <1>3 DEF SetWriteFn, CheckTimeouts, Read, Relay, TakeOver, HandBack,
              LoseEndpoint, Reclaim, LoseLine
<1>4. CASE Tick
  BY <1>4 DEF Tick
<1>5. CASE ReceiveLine \/ StartLine \/ Emit \/ Disturb \/ Reboot
  BY <1>5 DEF ReceiveLine, StartLine, Emit, Disturb, Reboot
<1>6. CASE UNCHANGED vars
  BY <1>6 DEF vars
<1> QED
  BY <1>1, <1>2, <1>3, <1>4, <1>5, <1>6 DEF Next

\* Every step keeps the order of the commands and their deadlines.
LEMMA TurnNext ==
    ASSUME TurnInv, [Next]_vars
    PROVE  TurnInv' /\ Punctual
<1> DEFINE S == ToSet(submitted)
           Goal == InOrder(queue', submitted') /\ Punctual
<1>0. /\ Slots(queue, S) /\ Moving(queue) /\ S \in SUBSET Commands
      /\ submitted \in Seq(Commands) /\ ClockTyped /\ IsQueue(queue)
  BY DEF TurnInv, SessionInv, Slots, ToSet
<1>a. SessionInv' /\ ClockTyped'
  BY <1>0, SessionNext, ClockStep DEF SessionStep, TurnInv
<1> SUFFICES Goal
  BY <1>a DEF TurnInv
<1>1. ASSUME NEW c \in Commands, Execute(c) PROVE Goal
  <2>1. /\ c \notin S /\ queue' = Submit(queue, c)
        /\ submitted' = Append(submitted, c)
    BY <1>1 DEF Execute, Submitted
  <2>2. /\ InOrder(queue', submitted')
        /\ queue'.current \in {queue.current, NoCommand, c}
        /\ \A d \in Commands : \/ queue'.result[d] = queue.result[d]
                              \/ queue'.result[d].kind # "ok"
    BY <1>0, <2>1, SubmitTurn DEF TurnInv
  <2>3. /\ queue.current \notin Waiting /\ NoCommand \notin Waiting
        /\ c \notin Waiting
    BY <1>0, <2>1, PlacedCommands DEF Waiting
  <2> QED
    BY <2>2, <2>3 DEF Punctual
<1>2. ASSUME NEW c \in Commands, Admit(c) \/ CallerDrops(c) \/ CallerTimesOut(c)
      PROVE  Goal
  BY <1>2, TurnUnchanged DEF Admit, CallerDrops, CallerTimesOut, qvars, hostvars
<1>3. CASE SetWriteFn \/ LoseLine \/ ReceiveLine \/ Reclaim
  <2>1. UNCHANGED submitted
    BY <1>3 DEF SetWriteFn, LoseLine, ReceiveLine, Reclaim, hostvars
  <2>2. \/ \E lines_left : queue' = [queue EXCEPT !.tx = lines_left]
        \/ queue' = [queue EXCEPT !.write_fn = TRUE]
    BY <1>3 DEF SetWriteFn, LoseLine, ReceiveLine, Reclaim
  <2> QED
    BY <2>1, <2>2, TurnUnchanged
<1>4. CASE CheckTimeouts
  <2>1. UNCHANGED submitted /\ queue' = ExpireCurrent(queue)
    BY <1>4 DEF CheckTimeouts, hostvars
  <2>2. Turn(queue, queue')
    BY <1>0, <2>1, ExpireCurrentTurn
  <2> QED
    BY <2>1, <2>2, TurnStep
<1>5. CASE Read
  <2>1. PICK n \in 1 .. MaxChunk, writes \in BOOLEAN :
                queue' = Feed(queue, SubSeq(wire, 1, n), writes)
    BY <1>5 DEF Read
  <2>2. Turn(queue, queue')
    BY <1>0, <2>1, FeedTurn
  <2>3. UNCHANGED submitted
    BY <1>5 DEF Read, hostvars
  <2> QED
    BY <2>2, <2>3, TurnStep
<1>6. CASE LoseEndpoint
  <2>1. /\ UNCHANGED submitted
        /\ queue' = [CancelAll(queue) EXCEPT !.tx = <<>>]
    BY <1>6 DEF LoseEndpoint
  <2>2. Turn(queue, queue')
    BY <1>0, <2>1, CancelAllTurn
  <2> QED
    BY <2>1, <2>2, TurnStep
<1>7. CASE Relay \/ TakeOver \/ HandBack \/ Tick
  BY <1>7, TurnUnchanged DEF Relay, TakeOver, HandBack, Tick, qvars, hostvars
<1>8. CASE StartLine \/ Emit \/ Disturb \/ Reboot
  BY <1>8, TurnUnchanged DEF StartLine, Emit, Disturb, Reboot, qvars, hostvars
<1>9. CASE UNCHANGED vars
  BY <1>9, TurnUnchanged DEF vars
<1> QED
  BY <1>1, <1>2, <1>3, <1>4, <1>5, <1>6, <1>7, <1>8, <1>9 DEF Next

-----------------------------------------------------------------------------
(* The theorems.                                                           *)

\* Every initial state satisfies the invariant of turns.
LEMMA TurnInit == Init => TurnInv
<1> SUFFICES ASSUME Init PROVE TurnInv
  OBVIOUS
<1>1. ClockTyped
  BY DEF Init, ClockTyped
<1>2. InOrder(queue, submitted)
  BY DEF Init, EmptyQueue, InOrder, ToSet
<1> QED
  BY <1>1, <1>2, SessionInit DEF TurnInv

\* The commands wait in the order of their submission, in every behaviour.
THEOREM TurnCorrect == Spec => []TurnInv
<1>1. TurnInv /\ [Next]_vars => TurnInv'
  BY TurnNext
<1> QED
  BY TurnInit, <1>1, PTL DEF Spec

\* Commands go on the line in the order of their submission, however many
\* expire, are abandoned or are cancelled in between.
THEOREM FirstComeFirstServed == Spec => []SubmissionOrder
<1>1. TurnInv => SubmissionOrder
  BY DEF TurnInv, InOrder, BeforeIn, SubmissionOrder, Before, Waiting
<1> QED
  BY <1>1, TurnCorrect, PTL

\* No waiting command goes on the line after its deadline or for a caller that
\* is gone, and none succeeds after it, wherever the bytes are cut.
THEOREM NothingIsLate == Spec => NothingLate
<1>1. TurnInv /\ [Next]_vars =>
         [/\ queue'.current \in Waiting =>
                Age(queue'.current) < Timeout /\ queue'.current \notin gone
          /\ \A c \in Commands :
                queue.result[c].kind # "ok" /\ queue'.result[c].kind = "ok"
                   => Age(c) <= Timeout]_vars
  BY TurnNext DEF Punctual
<1> QED
  BY <1>1, TurnCorrect, PTL DEF Spec, NothingLate

-----------------------------------------------------------------------------
(* The queue implements the abstract service.                              *)

\* The initial states map to the service's initial state.
LEMMA ServiceInitial == Init => Service!ServiceInit
<1> SUFFICES ASSUME Init PROVE Service!ServiceInit
  OBVIOUS
<1>1. /\ queue.current = NoCommand /\ queue.pending = <<>>
      /\ \A c \in Commands : queue.result[c].kind = "none"
  BY DEF Init, EmptyQueue, NoResult
<1> QED
  BY <1>1 DEF Service!ServiceInit

\* What leaves the commands where they are is a stutter of the service.
LEMMA ServiceStays ==
    ASSUME UNCHANGED <<queue.current, queue.pending, queue.result>>
    PROVE  UNCHANGED Service!serviceVars
BY DEF Service!serviceVars

\* The methods that only change the writer are such steps.
LEMMA ServiceWriter ==
    ASSUME SessionInv,
           \/ UNCHANGED queue
           \/ \E lines_left : queue' = [queue EXCEPT !.tx = lines_left]
           \/ queue' = [queue EXCEPT !.write_fn = TRUE]
    PROVE  UNCHANGED Service!serviceVars
<1>1. UNCHANGED <<queue.current, queue.pending, queue.result>>
  BY DEF SessionInv, Slots, IsQueue, Fields
<1> QED
  BY <1>1, ServiceStays

\* A turn of the queue is a turn of the service: who leaves his place has an
\* answer, and nobody else's changes.
LEMMA ServiceTurns ==
    ASSUME SessionInv, SessionStep, Turn(queue, queue'), UNCHANGED submitted
    PROVE  Service!ServiceTurn
<1> DEFINE S == ToSet(submitted)
           kind == [c \in Commands |-> queue.result[c].kind]
           next == [c \in Commands |-> queue'.result[c].kind]
<1>1. /\ Placed(queue, S) /\ Placed(queue', S) /\ Keeps(queue, queue')
      /\ Moving(queue')
  BY DEF SessionInv, SessionStep, Slots
<1>2. /\ Advances(queue, queue')
      /\ \A c \in Commands : \/ queue'.result[c] = queue.result[c]
                            \/ queue'.result[c].kind \in EndKinds
  BY DEF Turn
<1> HIDE DEF S
<1>3. \A c \in Commands :
         /\ c \in Service!Pending <=> c \in S /\ queue.result[c] = NoResult
         /\ c \in Service!Pending' <=> c \in S /\ queue'.result[c] = NoResult
  <2>1. /\ Service!Pending = ({queue.current} \cup ToSet(queue.pending)) \ {NoCommand}
        /\ Service!Pending' = ({queue'.current} \cup ToSet(queue'.pending)) \ {NoCommand}
    BY DEF Service!Pending, Service!ToSet, ToSet
  <2>2. \A c \in Commands : c # NoCommand
    BY QueueAssumption
  <2>3. S \subseteq Commands
    BY DEF SessionInv, ToSet, S
  <2> HIDE DEF kind, next
  <2> QED
    BY <1>1, <2>1, <2>2, <2>3 DEF Placed
<1>4. ASSUME NEW c \in Commands
      PROVE  IF c \in Service!Pending \ Service!Pending' THEN next[c] \in EndKinds
             ELSE next[c] = kind[c]
  <2>1. CASE c \in Service!Pending \ Service!Pending'
    BY <1>2, <1>3, <2>1
  <2>2. CASE c \in Service!Pending /\ c \in Service!Pending'
    BY <1>3, <2>2
  <2>3. CASE c \notin Service!Pending /\ c \in S
    BY <1>1, <1>3, <2>3 DEF Keeps
  <2>4. CASE c \notin S
    BY <1>1, <1>3, <2>4 DEF Placed
  <2> QED
    BY <2>1, <2>2, <2>3, <2>4
<1>5. /\ \E n \in 0 .. Len(queue.pending) :
            /\ queue'.pending = SubSeq(queue.pending, n + 1, Len(queue.pending))
            /\ queue'.current \in
                  {NoCommand, IF n = 0 THEN queue.current ELSE queue.pending[n]}
      /\ queue'.current = NoCommand => queue'.pending = <<>>
  BY <1>1, <1>2 DEF Advances, Moving
<1>6. next = [c \in Commands |-> next[c]]
  OBVIOUS
<1> QED
  BY <1>4, <1>5, <1>6 DEF Service!ServiceTurn, EndKinds

\* execute is a submission.
LEMMA ServiceSubmits ==
    ASSUME SessionInv, NEW c \in Commands, ~Submitted(c), queue' = Submit(queue, c)
    PROVE  Service!ServiceSubmit(c)
<1> DEFINE S == ToSet(submitted)
           kind == [d \in Commands |-> queue.result[d].kind]
           next == [d \in Commands |-> queue'.result[d].kind]
<1>1. /\ IsQueue(queue) /\ queue.result[c] = NoResult
      /\ c # queue.current /\ c \notin ToSet(queue.pending)
  BY DEF SessionInv, Slots, Placed, Submitted
<1>2. kind[c] = "none" /\ c \notin Service!Pending
  <2>1. Service!Pending = ({queue.current} \cup ToSet(queue.pending)) \ {NoCommand}
    BY DEF Service!Pending, Service!ToSet, ToSet
  <2>2. NoResult.kind = "none"
    BY DEF NoResult
  <2>3. kind[c] = "none"
    BY <1>1, <2>2
  <2> HIDE DEF kind
  <2> QED
    BY <1>1, <2>1, <2>3
<1>3. CASE Len(queue.pending) >= MaxPending
  <2>1. /\ queue'.current = queue.current /\ queue'.pending = queue.pending
        /\ queue'.result = [queue.result EXCEPT ![c] = Rejected]
    BY <1>1, <1>3 DEF Submit, Resolve, IsQueue, Fields
  <2>2. \A d \in Commands :
           queue'.result[d] = IF d = c THEN Rejected ELSE queue.result[d]
    BY <1>1, <2>1 DEF IsQueue
  <2>3. next = [kind EXCEPT ![c] = "rejected"]
    <3>1. Rejected.kind = "rejected"
      BY DEF Rejected
    <3>2. \A d \in Commands :
             queue'.result[d].kind = IF d = c THEN "rejected" ELSE queue.result[d].kind
      BY <2>2, <3>1
    <3> QED
      BY <3>2
  <2> QED
    BY <1>2, <1>3, <2>1, <2>3 DEF Service!ServiceSubmit
<1>4. CASE ~(Len(queue.pending) >= MaxPending) /\ queue.current = NoCommand
  <2>1. queue' = SendCommand(queue, c)
    BY <1>4 DEF Submit
  <2>2. CASE queue.write_fn
    <3>1. /\ queue'.current = c /\ queue'.pending = queue.pending
          /\ queue'.result = queue.result
      BY <1>1, <2>1, <2>2 DEF SendCommand, IsQueue, Fields
    <3>2. next = kind
      BY <3>1
    <3> QED
      BY <1>2, <1>4, <3>1, <3>2 DEF Service!ServiceSubmit
  <2>3. CASE ~queue.write_fn
    <3>1. /\ queue'.current = queue.current /\ queue'.pending = queue.pending
          /\ queue'.result = [queue.result EXCEPT ![c] = Closed]
      BY <1>1, <2>1, <2>3 DEF SendCommand, Resolve, IsQueue, Fields
    <3>2. \A d \in Commands :
             queue'.result[d] = IF d = c THEN Closed ELSE queue.result[d]
      BY <1>1, <3>1 DEF IsQueue
    <3>3. next = [kind EXCEPT ![c] = "closed"]
      <4>1. Closed.kind = "closed"
        BY DEF Closed
      <4>2. \A d \in Commands :
               queue'.result[d].kind = IF d = c THEN "closed" ELSE queue.result[d].kind
        BY <3>2, <4>1
      <4> QED
        BY <4>2
    <3> QED
      BY <1>2, <1>4, <3>1, <3>3 DEF Service!ServiceSubmit
  <2> QED
    BY <2>2, <2>3
<1>5. CASE ~(Len(queue.pending) >= MaxPending) /\ queue.current # NoCommand
  <2>1. /\ queue'.current = queue.current
        /\ queue'.pending = Append(queue.pending, c)
        /\ queue'.result = queue.result
    BY <1>1, <1>5 DEF Submit, IsQueue, Fields
  <2>2. next = kind
    BY <2>1
  <2>3. Len(queue.pending) < MaxPending
    BY <1>1, <1>5, QueueAssumption DEF IsQueue
  <2> QED
    BY <1>2, <1>5, <2>1, <2>2, <2>3 DEF Service!ServiceSubmit
<1> QED
  BY <1>3, <1>4, <1>5

\* Every step of the session is a step of the service or a stutter.
LEMMA ServiceStep ==
    ASSUME TurnInv, [Next]_vars
    PROVE  [Service!ServiceNext]_(Service!serviceVars)
<1> DEFINE S == ToSet(submitted)
           Goal == [Service!ServiceNext]_(Service!serviceVars)
<1>0. /\ SessionInv /\ SessionStep /\ ClockTyped
      /\ Slots(queue, S) /\ Moving(queue) /\ S \in SUBSET Commands
  BY SessionNext DEF TurnInv, SessionInv, ToSet
<1>a. ASSUME Turn(queue, queue'), UNCHANGED submitted PROVE Goal
  BY <1>0, <1>a, ServiceTurns DEF Service!ServiceNext
<1>b. ASSUME \/ UNCHANGED queue
             \/ \E lines_left : queue' = [queue EXCEPT !.tx = lines_left]
             \/ queue' = [queue EXCEPT !.write_fn = TRUE]
      PROVE  Goal
  BY <1>0, <1>b, ServiceWriter
<1>1. ASSUME NEW c \in Commands, Execute(c) PROVE Goal
  <2>1. ~Submitted(c) /\ queue' = Submit(queue, c)
    BY <1>1 DEF Execute
  <2> QED
    BY <1>0, <2>1, ServiceSubmits DEF Service!ServiceNext
<1>2. ASSUME NEW c \in Commands, Admit(c) \/ CallerDrops(c) \/ CallerTimesOut(c)
      PROVE  Goal
  BY <1>2, <1>b DEF Admit, CallerDrops, CallerTimesOut, qvars
<1>3. CASE SetWriteFn \/ LoseLine \/ ReceiveLine \/ Reclaim
  BY <1>3, <1>b DEF SetWriteFn, LoseLine, ReceiveLine, Reclaim
<1>4. CASE CheckTimeouts
  <2>1. UNCHANGED submitted /\ queue' = ExpireCurrent(queue)
    BY <1>4 DEF CheckTimeouts, hostvars
  <2>2. Turn(queue, queue')
    BY <1>0, <2>1, ExpireCurrentTurn
  <2> QED
    BY <1>a, <2>1, <2>2
<1>5. CASE Read
  <2>1. PICK n \in 1 .. MaxChunk, writes \in BOOLEAN :
                queue' = Feed(queue, SubSeq(wire, 1, n), writes)
    BY <1>5 DEF Read
  <2>2. Turn(queue, queue') /\ UNCHANGED submitted
    BY <1>0, <1>5, <2>1, FeedTurn DEF Read, hostvars
  <2> QED
    BY <1>a, <2>2
<1>6. CASE LoseEndpoint
  <2>1. /\ UNCHANGED submitted
        /\ queue' = [CancelAll(queue) EXCEPT !.tx = <<>>]
    BY <1>6 DEF LoseEndpoint
  <2>2. Turn(queue, queue')
    BY <1>0, <2>1, CancelAllTurn DEF Slots
  <2> QED
    BY <1>a, <2>1, <2>2
<1>7. CASE Relay \/ TakeOver \/ HandBack \/ Tick
  BY <1>7, <1>b DEF Relay, TakeOver, HandBack, Tick, qvars
<1>8. CASE StartLine \/ Emit \/ Disturb \/ Reboot
  BY <1>8, <1>b DEF StartLine, Emit, Disturb, Reboot, qvars
<1>9. CASE UNCHANGED vars
  BY <1>9, <1>b DEF vars
<1> QED
  BY <1>1, <1>2, <1>3, <1>4, <1>5, <1>6, <1>7, <1>8, <1>9 DEF Next

\* The command queue implements the service, for any number of commands, any
\* bounds and any stream of bytes: every accepted command keeps its turn and is
\* answered once, and the line is never idle while one waits.
THEOREM QueueServes == Spec => ServiceRefined
<1>1. TurnInv /\ [Next]_vars => [Service!ServiceNext]_(Service!serviceVars)
  BY ServiceStep
<1> QED
  BY ServiceInitial, <1>1, TurnCorrect, PTL DEF Spec, ServiceRefined, Service!ServiceSpec
=============================================================================
