----------------------------- MODULE CallsProofs ------------------------------
(***************************************************************************)
(* Proofs about the calls of tools that wait for the board, for every      *)
(* number of them and every bound.                                         *)
(*                                                                         *)
(* Commands: none is answered with the output of another one, whatever     *)
(* disturbs the line.  What is captured is whatever comes between two      *)
(* markers, so the proof is about the bytes that were not scanned yet:     *)
(* those on the wire followed by those the shell has still to print.       *)
(* Until its line is written, no marker of a command begins anywhere in    *)
(* them.  The line of the current command is the last one written.  So     *)
(* once its marker is in the stream, the shell has nothing left to do and  *)
(* no token of another command comes after the marker.                     *)
(*                                                                         *)
(* An answer is complete: the same stream, kernel messages aside, has      *)
(* after each begin marker a front of what the command prints, or all of   *)
(* it, some tokens garbled.  So an end marker stands only where the        *)
(* command printed it, after all of its output.                            *)
(*                                                                         *)
(* Resets: a DUT has one task at most, until its worker is gone.  The      *)
(* permit of a DUT and its worker are two views of one thing (Turns).  A   *)
(* step touches one call, so the proof of a step says whether the call is  *)
(* a worker before and after it.                                           *)
(***************************************************************************)
EXTENDS MCCalls, CommandSessionProofs, SequenceTheorems, FoldLemmas

-----------------------------------------------------------------------------
(* The commands: the inductive invariant.  b is the stream of bytes still  *)
(* to be scanned, L the lines that wait at the shell, S the submitted      *)
(* commands and M the commands of whose output a human session consumed    *)
(* some.                                                                   *)

\* A token printed by, or echoed for, another command than d.
Foreign(t, d) == t.k \in {"half", "out", "exit"} /\ t.c # d

\* Nothing in s is of another command than d.
Pure(s, d) == \A i \in DOMAIN s : ~Foreign(s[i], d)

\* The marker of c does not begin in s.
Unseen(s, c) == \A i \in DOMAIN s : s[i] # Half(c, 1)

\* Nothing of another command comes after a marker of d.
Clean(s, d) == \A i \in MarkerAt(s, d) : \A j \in i .. Len(s) : ~Foreign(s[j], d)

\* Nothing is on its way to the shell, or waits there.
Idle(q, L) == q.tx = <<>> /\ L = <<>>

\* The commands whose line was not written.
Unsent(q, S) == (Commands \ S) \cup ToSet(q.pending)

\* c left no trace: not on its way, not at the shell, not in what was read.
Untouched(q, b, L, c) ==
    /\ c \notin ToSet(q.tx) /\ c \notin ToSet(L)
    /\ Unseen(q.scan.search_buf, c) /\ Unseen(q.scan.buffer, c)
    /\ Unseen(b, c)

\* A command that was not sent left no trace.
OwnUnsent(q, b, L, S) == \A c \in Unsent(q, S) : Untouched(q, b, L, c)

\* The line of the current command is the last one written.
OwnLast(q, L) ==
    /\ \A i \in DOMAIN q.tx : q.tx[i] = q.current => i = Len(q.tx)
    /\ \A i \in DOMAIN L : L[i] = q.current => i = Len(L) /\ q.tx = <<>>

\* Nothing is searched before the echo is over, nothing captured before the
\* begin marker.
OwnScan(q) ==
    /\ q.scan.echo_matched < 3 => q.scan.search_buf = <<>>
    /\ ~q.scan.found_begin => q.scan.buffer = <<>> /\ q.scan.spill = <<>>

\* Around its begin marker: before it is found, nothing of another command can
\* follow it; once it is found, nothing of one was captured or will be.
OwnStream(q, b, L) ==
    IF q.scan.found_begin
    THEN /\ Idle(q, L)
         /\ Pure(q.scan.spill, q.current) /\ Pure(q.scan.buffer, q.current)
         /\ Pure(b, q.current)
    ELSE /\ Clean(q.scan.search_buf \o b, q.current)
         /\ MarkerAt(q.scan.search_buf \o b, q.current) # {} => Idle(q, L)

\* OwnOutput, for a queue.
OwnResults(q, M) == \A c \in Commands \ M : Pure(q.result[c].out, c)

\* The invariant for a queue, a stream and the lines at the shell.
Own(q, b, L, M, S) ==
    /\ OwnResults(q, M)
    /\ OwnUnsent(q, b, L, S)
    /\ q.current # NoCommand =>
         /\ OwnLast(q, L)
         /\ OwnScan(q)
         /\ q.current \notin M => OwnStream(q, b, L)

\* The command that was just sent has not been scanned for.
Fresh(q, b) ==
    q.current # NoCommand => q.scan = FreshScan /\ Unseen(b, q.current)

\* The command on the line is the same, scanned as far, or was just sent.
Carried(q, r, b) == Fresh(r, b) \/ (r.current = q.current /\ r.scan = q.scan)

\* The invariant of the session.
OwnInv == Own(queue, wire \o todo, lines, missed, ToSet(submitted))

-----------------------------------------------------------------------------
(* Sequences of tokens.                                                    *)

\* What holds of a stream holds of what is left of it.
LEMMA CleanSuffix ==
    ASSUME NEW T, NEW s \in Seq(T), NEW k \in Nat, k <= Len(s), NEW d
    PROVE  LET u == SubSeq(s, k + 1, Len(s)) IN
           /\ \A i \in MarkerAt(u, d) : k + i \in MarkerAt(s, d)
           /\ MarkerAt(u, d) # {} => MarkerAt(s, d) # {}
           /\ Clean(s, d) => Clean(u, d)
<1> DEFINE u == SubSeq(s, k + 1, Len(s))
<1>1. /\ Len(s) \in Nat /\ Len(u) = Len(s) - k /\ u \in Seq(T)
      /\ \A i \in 1 .. Len(s) - k : u[i] = s[k + i]
  BY ToSetSuffix
<1> HIDE DEF u
<1>2. ASSUME NEW i \in MarkerAt(u, d) PROVE k + i \in MarkerAt(s, d)
  <2>1. i \in 1 .. Len(u) - 1 /\ u[i] = Half(d, 1) /\ u[i + 1] = Half(d, 2)
    BY <1>2 DEF MarkerAt
  <2> QED  BY <1>1, <2>1 DEF MarkerAt
<1>3. ASSUME Clean(s, d), NEW i \in MarkerAt(u, d), NEW j \in i .. Len(u)
      PROVE  ~Foreign(u[j], d)
  <2>0. i \in 1 .. Len(u) - 1
    BY DEF MarkerAt
  <2>1. k + j \in k + i .. Len(s) /\ u[j] = s[k + j]
    BY <1>1, <2>0
  <2> QED  BY <1>2, <1>3, <2>1 DEF Clean
<1>4. Clean(s, d) => Clean(u, d)
  BY <1>3 DEF Clean
<1> QED
  BY <1>2, <1>4 DEF u

\* Cutting off a front keeps a stream pure, and a marker unseen.
LEMMA PureSuffix ==
    ASSUME NEW T, NEW s \in Seq(T), NEW k \in Nat, k <= Len(s), NEW d
    PROVE  /\ Pure(s, d) => Pure(SubSeq(s, k + 1, Len(s)), d)
           /\ Unseen(s, d) => Unseen(SubSeq(s, k + 1, Len(s)), d)
<1> DEFINE u == SubSeq(s, k + 1, Len(s))
<1>1. /\ Len(s) \in Nat /\ DOMAIN s = 1 .. Len(s)
      /\ Len(u) = Len(s) - k /\ u \in Seq(T) /\ DOMAIN u = 1 .. Len(u)
      /\ \A i \in 1 .. Len(s) - k : u[i] = s[k + i]
  BY ToSetSuffix
<1> HIDE DEF u
<1>2. \A i \in DOMAIN u : k + i \in DOMAIN s /\ u[i] = s[k + i]
  BY <1>1
<1> QED
  BY <1>2 DEF Pure, Unseen, u

\* So does cutting off an end.
LEMMA PurePrefix ==
    ASSUME NEW T, NEW s \in Seq(T), NEW n \in Int, n <= Len(s), NEW d
    PROVE  /\ Pure(s, d) => Pure(SubSeq(s, 1, n), d)
           /\ Unseen(s, d) => Unseen(SubSeq(s, 1, n), d)
<1> DEFINE u == SubSeq(s, 1, n)
<1>1. /\ Len(s) \in Nat /\ DOMAIN s = 1 .. Len(s)
      /\ DOMAIN u = 1 .. n
      /\ \A i \in 1 .. n : u[i] = s[i]
  OBVIOUS
<1> HIDE DEF u
<1>2. \A i \in DOMAIN u : i \in DOMAIN s /\ u[i] = s[i]
  BY <1>1
<1> QED
  BY <1>2 DEF Pure, Unseen, u

\* Two parts are pure exactly when the whole is.
LEMMA PureConcat ==
    ASSUME NEW T, NEW s \in Seq(T), NEW t \in Seq(T), NEW d
    PROVE  /\ Pure(s \o t, d) <=> Pure(s, d) /\ Pure(t, d)
           /\ Unseen(s \o t, d) <=> Unseen(s, d) /\ Unseen(t, d)
<1> DEFINE u == s \o t
<1>1. /\ Len(s) \in Nat /\ DOMAIN s = 1 .. Len(s)
      /\ Len(t) \in Nat /\ DOMAIN t = 1 .. Len(t)
      /\ DOMAIN u = 1 .. Len(s) + Len(t)
      /\ \A i \in 1 .. Len(s) + Len(t) :
            u[i] = IF i <= Len(s) THEN s[i] ELSE t[i - Len(s)]
  BY ConcatProperties
<1> HIDE DEF u
<1>2. \A i \in DOMAIN s : i \in DOMAIN u /\ u[i] = s[i]
  BY <1>1
<1>3. \A i \in DOMAIN t : Len(s) + i \in DOMAIN u /\ u[Len(s) + i] = t[i]
  BY <1>1
<1>4. \A i \in DOMAIN u : \/ i \in DOMAIN s /\ u[i] = s[i]
                          \/ i - Len(s) \in DOMAIN t /\ u[i] = t[i - Len(s)]
  BY <1>1
<1>5. Pure(u, d) <=> Pure(s, d) /\ Pure(t, d)
  BY <1>2, <1>3, <1>4 DEF Pure
<1>6. Unseen(u, d) <=> Unseen(s, d) /\ Unseen(t, d)
  BY <1>2, <1>3, <1>4 DEF Unseen
<1> QED
  BY <1>5, <1>6 DEF u

\* A stream in which the marker does not begin is clean.
LEMMA UnseenClean ==
    ASSUME NEW T, NEW s \in Seq(T), NEW d, Unseen(s, d)
    PROVE  MarkerAt(s, d) = {} /\ Clean(s, d)
<1>1. MarkerAt(s, d) = {}
  <2> SUFFICES ASSUME NEW i \in MarkerAt(s, d) PROVE FALSE
    OBVIOUS
  <2>1. i \in 1 .. Len(s) - 1 /\ s[i] = Half(d, 1)
    BY DEF MarkerAt
  <2>2. i \in DOMAIN s
    BY <2>1
  <2> QED  BY <2>1, <2>2 DEF Unseen
<1> QED
  BY <1>1 DEF Clean

\* A part cut off the front, then more: the same as cutting the front of all.
LEMMA SuffixConcat ==
    ASSUME NEW T, NEW s \in Seq(T), NEW t \in Seq(T), NEW k \in Nat, k <= Len(s)
    PROVE  SubSeq(s, k + 1, Len(s)) \o t = SubSeq(s \o t, k + 1, Len(s \o t))
<1> DEFINE a == SubSeq(s, k + 1, Len(s))
           u == a \o t
           v == s \o t
           w == SubSeq(v, k + 1, Len(v))
           m == Len(s)
           n == Len(t)
<1>1. /\ m \in Nat /\ n \in Nat /\ k <= m /\ a \in Seq(T) /\ Len(a) = m - k
      /\ \A i \in 1 .. m - k : a[i] = s[k + i]
  BY ToSetSuffix
<1>2. /\ v \in Seq(T) /\ Len(v) = m + n
      /\ \A i \in 1 .. m + n : v[i] = IF i <= m THEN s[i] ELSE t[i - m]
  BY ConcatProperties
<1>3. k <= Len(v)
  BY <1>1, <1>2
<1>4. /\ w \in Seq(T) /\ Len(w) = Len(v) - k
      /\ \A i \in 1 .. Len(v) - k : w[i] = v[k + i]
  <2> HIDE DEF v
  <2> QED  BY <1>2, <1>3, ToSetSuffix
<1>5. /\ u \in Seq(T) /\ Len(u) = Len(a) + n
      /\ \A i \in 1 .. Len(a) + n :
            u[i] = IF i <= Len(a) THEN a[i] ELSE t[i - Len(a)]
  <2> HIDE DEF a
  <2> QED  BY <1>1, ConcatProperties
<1> HIDE DEF a, u, v, w, m, n
<1>6. Len(u) = (m - k) + n /\ Len(w) = (m - k) + n
  BY <1>1, <1>2, <1>4, <1>5
<1>7. ASSUME NEW i \in 1 .. (m - k) + n PROVE u[i] = w[i]
  <2>1. w[i] = v[k + i] /\ k + i \in 1 .. m + n
    BY <1>1, <1>2, <1>4
  <2>2. CASE i <= m - k
    <3>1. u[i] = a[i] /\ a[i] = s[k + i] /\ v[k + i] = s[k + i]
      BY <1>1, <1>2, <1>5, <2>1, <2>2
    <3> QED  BY <2>1, <3>1
  <2>3. CASE ~(i <= m - k)
    <3>1. v[k + i] = t[(k + i) - m]
      BY <1>1, <1>2, <2>1, <2>3
    <3>3. u[i] = t[i - (m - k)]
      <4>1. i \in 1 .. Len(a) + n /\ ~(i <= Len(a)) /\ Len(a) = m - k
        BY <1>1, <2>3
      <4> QED  BY <1>5, <4>1
    <3>2. i - (m - k) = (k + i) - m
      BY <1>1
    <3> QED  BY <2>1, <3>1, <3>2, <3>3
  <2> QED  BY <2>2, <2>3
<1>8. u = w
  BY <1>4, <1>5, <1>6, <1>7, SeqEqual
<1> QED
  BY <1>8 DEF a, u, v, w

\* A suffix of a suffix.
LEMMA SuffixTwice ==
    ASSUME NEW T, NEW s \in Seq(T), NEW n \in Nat, NEW k \in Nat, n + k <= Len(s)
    PROVE  LET u == SubSeq(s, n + 1, Len(s))
           IN  SubSeq(u, k + 1, Len(u)) = SubSeq(s, (n + k) + 1, Len(s))
<1> DEFINE u == SubSeq(s, n + 1, Len(s))
           x == SubSeq(u, k + 1, Len(u))
           y == SubSeq(s, (n + k) + 1, Len(s))
           m == Len(s)
<1>1. m \in Nat /\ n \in Nat /\ k \in Nat /\ n + k <= m
  OBVIOUS
<1>2. u \in Seq(T) /\ Len(u) = m - n /\ \A i \in 1 .. m - n : u[i] = s[n + i]
  BY <1>1, ToSetSuffix
<1>3. /\ y \in Seq(T) /\ Len(y) = m - (n + k)
      /\ \A i \in 1 .. m - (n + k) : y[i] = s[(n + k) + i]
  BY <1>1, ToSetSuffix
<1> HIDE DEF u, y, m
<1>4. /\ x \in Seq(T) /\ Len(x) = Len(u) - k
      /\ \A i \in 1 .. Len(u) - k : x[i] = u[k + i]
  <2>1. k <= Len(u)
    BY <1>1, <1>2
  <2> QED  BY <1>1, <1>2, <2>1, ToSetSuffix
<1> HIDE DEF x
<1>5. Len(x) = Len(y)
  BY <1>1, <1>2, <1>3, <1>4
<1>6. ASSUME NEW i \in 1 .. Len(y) PROVE x[i] = y[i]
  <2>1. i \in 1 .. Len(u) - k /\ k + i \in 1 .. m - n /\ i \in 1 .. m - (n + k)
        /\ n + (k + i) = (n + k) + i
    BY <1>1, <1>2, <1>3
  <2> QED  BY <1>2, <1>3, <1>4, <2>1
<1>7. x = y
  BY <1>3, <1>4, <1>5, <1>6, SeqEqual
<1> QED
  BY <1>7 DEF x, y, u

\* The shell adds x between what was read and what it has yet to print: a
\* marker stays where it was, or moves by the length of x.
LEMMA MarkersAfterInsert ==
    ASSUME NEW T, NEW a \in Seq(T), NEW x \in Seq(T), NEW b \in Seq(T), NEW d,
           x # <<>>, x[1] # Half(d, 2), x[Len(x)] # Half(d, 1),
           MarkerAt(x, d) = {}
    PROVE  \A i \in MarkerAt((a \o x) \o b, d) :
              \/ i < Len(a) /\ i \in MarkerAt(a \o b, d)
              \/ i > Len(a) + Len(x) /\ i - Len(x) \in MarkerAt(a \o b, d)
<1> DEFINE p == a \o x
           u == p \o b
           v == a \o b
           la == Len(a)
           lx == Len(x)
           lb == Len(b)
<1>1. /\ p \in Seq(T) /\ Len(p) = la + lx
      /\ \A i \in 1 .. la + lx : p[i] = IF i <= la THEN a[i] ELSE x[i - la]
  BY ConcatProperties
<1>2. /\ Len(u) = Len(p) + lb
      /\ \A i \in 1 .. Len(p) + lb :
            u[i] = IF i <= Len(p) THEN p[i] ELSE b[i - Len(p)]
  <2> HIDE DEF p
  <2> QED  BY <1>1, ConcatProperties
<1>3. /\ Len(v) = la + lb
      /\ \A i \in 1 .. la + lb : v[i] = IF i <= la THEN a[i] ELSE b[i - la]
  BY ConcatProperties
<1>4. la \in Nat /\ lb \in Nat /\ lx \in Nat /\ lx >= 1
  BY EmptySeq, LenProperties
<1>5. /\ \A i \in 1 .. Len(u) - 1 :
            i \in MarkerAt(u, d) <=> u[i] = Half(d, 1) /\ u[i + 1] = Half(d, 2)
      /\ \A i \in 1 .. Len(v) - 1 :
            i \in MarkerAt(v, d) <=> v[i] = Half(d, 1) /\ v[i + 1] = Half(d, 2)
      /\ \A i \in 1 .. lx - 1 : ~(x[i] = Half(d, 1) /\ x[i + 1] = Half(d, 2))
      /\ MarkerAt(u, d) \subseteq 1 .. Len(u) - 1
  BY DEF MarkerAt
<1>6. x[1] # Half(d, 2) /\ x[lx] # Half(d, 1)
  OBVIOUS
<1> HIDE DEF p, u, v, la, lx, lb
<1>7. /\ Len(u) = (la + lx) + lb
      /\ \A i \in 1 .. la : u[i] = a[i]
      /\ \A i \in 1 .. lx : u[la + i] = x[i]
      /\ \A i \in 1 .. lb : u[(la + lx) + i] = b[i]
  <2>1. Len(u) = (la + lx) + lb
    BY <1>1, <1>2
  <2>2. ASSUME NEW i \in 1 .. la PROVE u[i] = a[i]
    BY <1>1, <1>2, <1>4
  <2>3. ASSUME NEW i \in 1 .. lx PROVE u[la + i] = x[i]
    <3>1. u[la + i] = p[la + i] /\ p[la + i] = x[(la + i) - la]
      BY <1>1, <1>2, <1>4
    <3>2. (la + i) - la = i
      BY <1>4
    <3> QED  BY <3>1, <3>2
  <2>4. ASSUME NEW i \in 1 .. lb PROVE u[(la + lx) + i] = b[i]
    <3>1. u[(la + lx) + i] = b[((la + lx) + i) - (la + lx)]
      BY <1>1, <1>2, <1>4
    <3>2. ((la + lx) + i) - (la + lx) = i
      BY <1>4
    <3> QED  BY <3>1, <3>2
  <2> QED  BY <2>1, <2>2, <2>3, <2>4
<1>8. /\ \A i \in 1 .. la : v[i] = a[i]
      /\ \A i \in 1 .. lb : v[la + i] = b[i]
  <2>1. ASSUME NEW i \in 1 .. lb PROVE v[la + i] = b[i]
    <3>1. v[la + i] = b[(la + i) - la]
      BY <1>3, <1>4
    <3>2. (la + i) - la = i
      BY <1>4
    <3> QED  BY <3>1, <3>2
  <2> QED  BY <1>3, <1>4, <2>1
<1>9. ASSUME NEW i \in MarkerAt(u, d)
      PROVE  \/ i < la /\ i \in MarkerAt(v, d)
             \/ i > la + lx /\ i - lx \in MarkerAt(v, d)
  <2>0. i \in 1 .. ((la + lx) + lb) - 1 /\ u[i] = Half(d, 1) /\ u[i + 1] = Half(d, 2)
    BY <1>5, <1>7
  <2>1. CASE i < la
    <3>1. i \in 1 .. la /\ i + 1 \in 1 .. la /\ i \in 1 .. Len(v) - 1
      BY <1>3, <1>4, <2>0, <2>1
    <3> QED  BY <1>5, <1>7, <1>8, <2>0, <2>1, <3>1
  <2>2. CASE i = la
    <3>1. u[i + 1] = x[1]
      BY <1>4, <1>7, <2>2
    <3> QED  BY <1>6, <2>0, <3>1
  <2>3. CASE i > la /\ i < la + lx
    <3> DEFINE k == i - la
    <3>1. k \in 1 .. lx - 1 /\ k \in 1 .. lx /\ k + 1 \in 1 .. lx
          /\ i = la + k /\ i + 1 = la + (k + 1)
      BY <1>4, <2>0, <2>3
    <3> HIDE DEF k
    <3> QED  BY <1>5, <1>7, <2>0, <3>1
  <2>4. CASE i = la + lx
    <3>1. u[i] = x[lx]
      BY <1>4, <1>7, <2>4
    <3> QED  BY <1>6, <2>0, <3>1
  <2>5. CASE i > la + lx
    <3> DEFINE k == i - (la + lx)
    <3>0. /\ la \in Nat /\ lx \in Nat /\ lb \in Nat /\ Len(v) = la + lb
          /\ i \in Int /\ i > la + lx /\ i < (la + lx) + lb
      BY <1>3, <1>4, <2>0, <2>5
    <3>1. /\ k \in 1 .. lb /\ k + 1 \in 1 .. lb
          /\ i = (la + lx) + k /\ i + 1 = (la + lx) + (k + 1)
          /\ i - lx = la + k /\ (i - lx) + 1 = la + (k + 1)
          /\ i - lx \in 1 .. Len(v) - 1
      BY <3>0
    <3> HIDE DEF k
    <3>2. v[i - lx] = b[k] /\ v[(i - lx) + 1] = b[k + 1]
      BY <1>8, <3>1
    <3>3. u[i] = b[k] /\ u[i + 1] = b[k + 1]
      BY <1>7, <3>1
    <3> QED  BY <1>5, <2>0, <2>5, <3>1, <3>2, <3>3
  <2> QED  BY <1>4, <2>0, <2>1, <2>2, <2>3, <2>4, <2>5
<1> QED
  BY <1>9 DEF p, u, v, la, lx

-----------------------------------------------------------------------------
(* The scanner. *)

\* What is left of a chunk after the echo is a suffix of it: all of it once the
\* echo is over, nothing of it while the echo goes on.
LEMMA StripEchoSuffix ==
    ASSUME NEW scan \in ScanType, NEW c \in Commands, NEW data \in Seq(Tokens)
    PROVE  LET e == StripEcho(scan, c, data) IN
           /\ e.matched \in 0 .. 3
           /\ \E n \in 0 .. Len(data) :
                 /\ e.data = SubSeq(data, n + 1, Len(data))
                 /\ scan.echo_matched = 3 => n = 0
           /\ e.matched < 3 => e.data = <<>>
           /\ scan.echo_matched = 3 => e.matched = 3
<1> DEFINE line == SentLine(c)
           from == scan.echo_matched
           rest == SubSeq(line, from + 1, Len(line))
           runs == {n \in 0 .. Len(data) :
                      n <= Len(rest) /\ SubSeq(data, 1, n) = SubSeq(rest, 1, n)}
           n    == EchoRun(scan, c, data)
<1>1. from \in 0 .. 3 /\ Len(data) \in Nat
  BY DEF ScanType
<1> DEFINE X == {Half(c, 1), Quote, Half(c, 2)}
<1>2. line \in Seq(X) /\ Len(line) = 3
  BY DEF SentLine
<1> HIDE DEF line, from, X
<1>3. rest \in Seq(X) /\ Len(rest) = 3 - from
  <2>1. from \in Nat /\ from <= Len(line)
    BY <1>1, <1>2
  <2>2. rest \in Seq(X) /\ Len(rest) = Len(line) - from
    BY <1>2, <2>1, ToSetSuffix
  <2> HIDE DEF rest
  <2> QED
    BY <1>2, <2>2
<1>4. 0 \in runs
  <2> HIDE DEF rest
  <2>1. SubSeq(data, 1, 0) = <<>> /\ SubSeq(rest, 1, 0) = <<>>
    BY <1>3
  <2> QED
    BY <1>1, <1>3, <2>1
<1>5. n \in runs
  <2>1. n = CHOOSE k \in runs : \A m \in runs : m <= k
    BY DEF EchoRun, line, from
  <2>2. runs \in SUBSET (0 .. Len(data))
    OBVIOUS
  <2> HIDE DEF runs, n
  <2> QED
    BY <1>1, <1>4, <2>1, <2>2, LongestRun
<1>6. n \in Nat /\ n <= Len(data) /\ from + n <= 3
  <2>1. n \in 0 .. Len(data) /\ n <= Len(rest)
    BY <1>5
  <2> HIDE DEF n, rest, runs
  <2> QED
    BY <1>1, <1>3, <2>1
<1> DEFINE broken == n < Len(data) /\ from + n < 3
<1>7. /\ StripEcho(scan, c, data).matched = IF broken THEN 3 ELSE from + n
      /\ StripEcho(scan, c, data).data = SubSeq(data, n + 1, Len(data))
  BY <1>2 DEF StripEcho, n, line, from
<1> HIDE DEF n
<1>8. StripEcho(scan, c, data).matched \in 0 .. 3
  BY <1>1, <1>6, <1>7
<1>9. n \in 0 .. Len(data) /\ (from = 3 => n = 0)
  BY <1>1, <1>6
<1>10. ASSUME StripEcho(scan, c, data).matched < 3
       PROVE  StripEcho(scan, c, data).data = <<>>
  <2>1. n = Len(data)
    BY <1>1, <1>6, <1>7, <1>10
  <2>2. SubSeq(data, n + 1, Len(data)) = <<>>
    BY <1>1, <2>1, SubSeqEmpty
  <2> QED  BY <1>7, <2>2
<1>11. from = 3 => StripEcho(scan, c, data).matched = 3
  BY <1>7, <1>9
<1> HIDE DEF from
<1> QED
  BY <1>7, <1>8, <1>9, <1>10, <1>11 DEF from

\* The search for the begin marker, against the whole stream: it drops a front
\* of the stream, and a marker it finds is a marker of the stream.
LEMMA FindBeginStream ==
    ASSUME NEW scan \in ScanType, ~scan.found_begin,
           scan.echo_matched < 3 => scan.search_buf = <<>>,
           NEW d \in Commands, NEW data \in Seq(Tokens), NEW b \in Seq(Tokens)
    PROVE  LET r == FindBegin(scan, d, data)
               v == scan.search_buf \o (data \o b)
           IN
           /\ r.spill = scan.spill
           /\ r.found_begin => /\ MarkerAt(v, d) # {}
                               /\ r.search_buf = <<>>
                               /\ Clean(v, d) => Pure(r.buffer \o b, d)
                               /\ \E j \in MarkerAt(v, d) :
                                     r.buffer \o b = SubSeq(v, j + 2, Len(v))
           /\ ~r.found_begin => /\ \E j \in 0 .. Len(v) :
                                     r.search_buf \o b = SubSeq(v, j + 1, Len(v))
                                /\ r.buffer = scan.buffer
                                /\ r.echo_matched < 3 => r.search_buf = <<>>
                                /\ Clean(v, d) => Clean(r.search_buf \o b, d)
                                /\ MarkerAt(r.search_buf \o b, d) # {}
                                     => MarkerAt(v, d) # {}
           /\ \A e : Unseen(scan.search_buf, e) /\ Unseen(data, e)
                      /\ Unseen(scan.buffer, e)
                        => Unseen(r.search_buf, e) /\ Unseen(r.buffer, e)
<1> DEFINE echo  == StripEcho(scan, d, data)
           met == echo.matched
           more  == echo.data
           s     == scan.search_buf \o more
           found == MarkerAt(s, d)
           kept  == IF Len(s) > BufferCap THEN Tail_n(s, TrimKeep) ELSE s
           at    == Min(found)
           after == SubSeq(s, at + 2, Len(s))
           none  == <<>>
           yes   == [scan EXCEPT !.echo_matched = met, !.found_begin = TRUE,
                                 !.search_buf = none, !.buffer = after]
           no    == [scan EXCEPT !.echo_matched = met, !.search_buf = kept]
           r     == FindBegin(scan, d, data)
           v     == scan.search_buf \o (data \o b)
<1>1. r = IF found # {} THEN yes ELSE no
  BY DEF FindBegin
<1>2. /\ met \in 0 .. 3
      /\ \E n \in 0 .. Len(data) :
            /\ more = SubSeq(data, n + 1, Len(data))
            /\ scan.echo_matched = 3 => n = 0
      /\ met < 3 => more = none
      /\ scan.echo_matched = 3 => met = 3
  BY StripEchoSuffix
<1> HIDE DEF echo, met, more, r, s, v, found, kept, at, after
<1>3. PICK n \in 0 .. Len(data) :
         /\ more = SubSeq(data, n + 1, Len(data))
         /\ scan.echo_matched = 3 => n = 0
  BY <1>2
<1>4. /\ scan.search_buf \in Seq(Tokens) /\ scan.echo_matched \in 0 .. 3
      /\ Len(data) \in Nat /\ n \in Nat /\ n <= Len(data) /\ more \in Seq(Tokens)
  <2>1. scan.search_buf \in Seq(Tokens) /\ scan.echo_matched \in 0 .. 3
    BY DEF ScanType
  <2>2. Len(data) \in Nat /\ n \in Nat /\ n <= Len(data)
    OBVIOUS
  <2>3. SubSeq(data, n + 1, Len(data)) \in Seq(Tokens)
    BY <2>2, ToSetSuffix
  <2> QED  BY <1>3, <2>1, <2>2, <2>3
<1>5. s \in Seq(Tokens) /\ Len(s) \in Nat /\ data \o b \in Seq(Tokens)
      /\ v \in Seq(Tokens) /\ Len(v) \in Nat
  BY <1>4, ConcatProperties, LenProperties DEF s, v
\* What is searched, with the bytes to come, is a suffix of the stream.
<1>6. n <= Len(v) /\ s \o b = SubSeq(v, n + 1, Len(v))
  <2> DEFINE rest == data \o b
  <2>1. more \o b = SubSeq(rest, n + 1, Len(rest))
    <3>1. SubSeq(data, n + 1, Len(data)) \o b = SubSeq(rest, n + 1, Len(rest))
      BY <1>4, SuffixConcat
    <3> HIDE DEF rest
    <3> QED  BY <1>3, <3>1
  <2>0. rest \in Seq(Tokens) /\ Len(rest) = Len(data) + Len(b) /\ Len(b) \in Nat
    BY ConcatProperties, LenProperties
  <2>00. v = scan.search_buf \o rest
    BY DEF v
  <2> HIDE DEF rest
  <2>2. CASE scan.echo_matched < 3
    <3>1. scan.search_buf = <<>>
      BY <2>2
    <3>2. s = more /\ v = rest
      BY <1>4, <2>0, <2>00, <3>1, ConcatEmptySeq DEF s
    <3>3. s \o b = SubSeq(v, n + 1, Len(v))
      BY <2>1, <3>2
    <3>4. n <= Len(v)
      <4> DEFINE ld == Len(data)
                 lb == Len(b)
                 lv == Len(v)
      <4>1. lv = ld + lb /\ ld \in Nat /\ lb \in Nat /\ n \in Nat /\ n <= ld
        BY <1>4, <2>0, <3>2
      <4> HIDE DEF ld, lb, lv
      <4>2. n <= lv
        BY <4>1
      <4> QED  BY <4>2 DEF lv
    <3> QED  BY <3>3, <3>4
  <2>3. CASE scan.echo_matched = 3
    <3>1. n = 0
      BY <1>3, <2>3
    <3>2. more = data
      <4>1. more = SubSeq(data, 1, Len(data))
        BY <1>3, <3>1
      <4> QED  BY <4>1, SubSeqFull
    <3>3. s \o b = v
      <4>1. \A x, y, z \in Seq(Tokens) : (x \o y) \o z = x \o (y \o z)
        BY ConcatAssociative
      <4>2. (scan.search_buf \o data) \o b = scan.search_buf \o (data \o b)
        BY <1>4, <4>1
      <4> QED  BY <3>2, <4>2 DEF s, v
    <3>4. SubSeq(v, 1, Len(v)) = v
      BY <1>5, SubSeqFull
    <3> QED  BY <1>5, <3>1, <3>3, <3>4
  <2>4. scan.echo_matched < 3 \/ scan.echo_matched = 3
    BY <1>4
  <2> QED  BY <2>2, <2>3, <2>4
<1> DEFINE w == s \o b
<1>7. /\ w \in Seq(Tokens) /\ Len(w) = Len(s) + Len(b) /\ Len(b) \in Nat
      /\ Len(w) \in Nat /\ Len(s) <= Len(w)
      /\ \A i \in 1 .. Len(s) : w[i] = s[i]
  <2>1. /\ w \in Seq(Tokens) /\ Len(w) = Len(s) + Len(b) /\ Len(b) \in Nat
        /\ \A i \in 1 .. Len(s) + Len(b) :
              w[i] = IF i <= Len(s) THEN s[i] ELSE b[i - Len(s)]
    BY <1>5, ConcatProperties, LenProperties
  <2> DEFINE ls == Len(s)
             lb == Len(b)
             lw == Len(w)
  <2>2. /\ lw = ls + lb /\ lb \in Nat /\ ls \in Nat
        /\ \A i \in 1 .. ls + lb : w[i] = IF i <= ls THEN s[i] ELSE b[i - ls]
    BY <1>5, <2>1
  <2> HIDE DEF ls, lb, lw, w
  <2>3. lw \in Nat /\ ls <= lw /\ \A i \in 1 .. ls : w[i] = s[i]
    BY <2>2
  <2> QED  BY <2>1, <2>3 DEF ls, lw
<1>8. /\ MarkerAt(w, d) # {} => MarkerAt(v, d) # {}
      /\ Clean(v, d) => Clean(w, d)
  <2> HIDE DEF w
  <2>1. w = SubSeq(v, n + 1, Len(v))
    BY <1>6 DEF w
  <2> QED  BY <1>4, <1>5, <1>6, <2>1, CleanSuffix
<1> HIDE DEF w
<1>9. MarkerAt(s, d) \subseteq MarkerAt(w, d)
  <2> SUFFICES ASSUME NEW i \in MarkerAt(s, d) PROVE i \in MarkerAt(w, d)
    OBVIOUS
  <2> DEFINE ls == Len(s)
             lw == Len(w)
  <2>1. i \in 1 .. ls - 1 /\ s[i] = Half(d, 1) /\ s[i + 1] = Half(d, 2)
    BY DEF MarkerAt
  <2>2. ls \in Nat /\ lw \in Nat /\ ls <= lw /\ \A k \in 1 .. ls : w[k] = s[k]
    BY <1>5, <1>7
  <2> HIDE DEF ls, lw
  <2>3. i \in 1 .. lw - 1 /\ w[i] = s[i] /\ w[i + 1] = s[i + 1]
    BY <2>1, <2>2
  <2> QED  BY <2>1, <2>3 DEF MarkerAt, lw
<1>10. \A e : Unseen(scan.search_buf, e) /\ Unseen(data, e) => Unseen(s, e)
  <2> TAKE e
  <2>1. Unseen(data, e) => Unseen(more, e)
    <3>1. Unseen(data, e) => Unseen(SubSeq(data, n + 1, Len(data)), e)
      BY <1>4, PureSuffix
    <3> QED  BY <1>3, <3>1
  <2> QED  BY <1>4, <2>1, PureConcat DEF s
<1>11. CASE found # {}
  <2>1. at \in 1 .. Len(s) - 1 /\ at \in found
    <3>1. found \in SUBSET Nat
      BY DEF MarkerAt, found
    <3>2. Min(found) \in found
      BY <1>11, <3>1, MinOfNaturals
    <3>3. Min(found) \in 1 .. Len(s) - 1
      BY <1>5, <1>11, FirstMarker DEF found
    <3> QED  BY <3>2, <3>3 DEF at
  <2>2. /\ r.spill = scan.spill /\ r.found_begin = TRUE
        /\ r.search_buf = none /\ r.buffer = after
    BY <1>1, <1>11 DEF ScanType
  <2>3. MarkerAt(v, d) # {} /\ at \in MarkerAt(w, d)
    BY <1>8, <1>9, <2>1 DEF found
  <2> DEFINE k == at + 1
             lw == Len(w)
  <2>4. /\ k \in Nat /\ k <= Len(s) /\ k + 1 = at + 2 /\ at \in Nat
        /\ k <= lw /\ lw \in Nat
    BY <1>5, <1>7, <2>1
  <2>41. k = at + 1
    OBVIOUS
  <2> HIDE DEF k, lw
  <2>42. after = SubSeq(s, k + 1, Len(s))
    BY <2>4 DEF after
  <2> DEFINE u == after \o b
  <2>5. u = SubSeq(w, k + 1, Len(w))
    BY <1>5, <2>4, <2>42, SuffixConcat DEF w
  <2> HIDE DEF u
  <2>6. ASSUME Clean(v, d) PROVE Pure(u, d)
    <3>1. /\ Len(u) = lw - k /\ DOMAIN u = 1 .. Len(u)
          /\ \A i \in 1 .. lw - k : u[i] = w[k + i]
      <4>1. /\ SubSeq(w, k + 1, Len(w)) \in Seq(Tokens)
            /\ Len(SubSeq(w, k + 1, Len(w))) = Len(w) - k
            /\ \A i \in 1 .. Len(w) - k : SubSeq(w, k + 1, Len(w))[i] = w[k + i]
        BY <1>7, <2>4, ToSetSuffix DEF lw
      <4>2. u \in Seq(Tokens)
        BY <2>5, <4>1
      <4> QED  BY <2>5, <4>1, <4>2, LenProperties DEF lw
    <3>2. ASSUME NEW i \in DOMAIN u PROVE ~Foreign(u[i], d)
      <4>1. i \in 1 .. lw - k
        BY <3>1
      <4>2. u[i] = w[k + i]
        BY <3>1, <4>1
      <4>4. k + i \in at .. lw
        BY <2>4, <2>41, <4>1
      <4>3. Clean(w, d)
        BY <1>8, <2>6
      <4> QED  BY <2>3, <4>2, <4>3, <4>4 DEF Clean, lw
    <3> QED  BY <3>2 DEF Pure
  <2>7. \A e : Unseen(s, e) => Unseen(after, e)
    BY <1>5, <2>4, <2>42, PureSuffix
  <2>8. \A e : Unseen(none, e)
    BY DEF Unseen
  <2>9. Clean(v, d) => Pure(r.buffer \o b, d)
    BY <2>2, <2>6 DEF u
  <2>10. \E j \in MarkerAt(v, d) : r.buffer \o b = SubSeq(v, j + 2, Len(v))
    <3> DEFINE j == n + at
    <3>1. j \in MarkerAt(v, d)
      <4>1. w = SubSeq(v, n + 1, Len(v))
        BY <1>6 DEF w
      <4> QED  BY <1>4, <1>5, <1>6, <2>3, <4>1, CleanSuffix
    <3>2. n + k <= Len(v) /\ (n + k) + 1 = j + 2
      <4> DEFINE lv == Len(v)
      <4>1. j \in 1 .. lv - 1 /\ lv \in Nat
        BY <1>5, <3>1 DEF MarkerAt
      <4> HIDE DEF lv
      <4>2. n + k <= lv /\ (n + k) + 1 = j + 2
        BY <1>4, <2>4, <2>41, <4>1
      <4> QED  BY <4>2 DEF lv
    <3>3. u = SubSeq(v, (n + k) + 1, Len(v))
      <4>1. w = SubSeq(v, n + 1, Len(v))
        BY <1>6 DEF w
      <4> QED  BY <1>4, <1>5, <2>4, <2>5, <3>2, <4>1, SuffixTwice
    <3> HIDE DEF j
    <3>4. r.buffer \o b = u
      BY <2>2 DEF u
    <3> QED  BY <3>1, <3>2, <3>3, <3>4
  <2> QED  BY <1>10, <2>2, <2>3, <2>7, <2>8, <2>9, <2>10 DEF r, v
<1>12. CASE found = {}
  <2>1. /\ r.spill = scan.spill /\ r.found_begin = FALSE
        /\ r.search_buf = kept /\ r.buffer = scan.buffer
        /\ r.echo_matched = met
    BY <1>1, <1>12 DEF ScanType
  \* The search buffer is a suffix of what was searched.
  <2>2. PICK k \in Nat : k <= Len(s) /\ kept = SubSeq(s, k + 1, Len(s))
    <3>1. CASE Len(s) > BufferCap
      <4> DEFINE m == Len(s) - TrimKeep
      <4>1. m \in Nat /\ m <= Len(s) /\ kept = SubSeq(s, m + 1, Len(s))
        BY <1>5, <3>1, QueueAssumption DEF Tail_n, kept
      <4> HIDE DEF m
      <4> QED  BY <4>1
    <3>2. CASE ~(Len(s) > BufferCap)
      <4>1. 0 \in Nat /\ 0 <= Len(s) /\ s = SubSeq(s, 0 + 1, Len(s))
        BY <1>5, SubSeqFull
      <4> QED  BY <3>2, <4>1 DEF kept
    <3> QED  BY <3>1, <3>2
  <2>3. kept \o b = SubSeq(w, k + 1, Len(w)) /\ k <= Len(w)
    <3>1. k <= Len(w)
      <4> DEFINE ls == Len(s)
                 lw == Len(w)
      <4>1. k <= ls /\ ls <= lw /\ ls \in Nat /\ lw \in Nat
        BY <1>5, <1>7, <2>2
      <4> HIDE DEF ls, lw
      <4>2. k <= lw
        BY <4>1
      <4> QED  BY <4>2 DEF lw
    <3>2. SubSeq(s, k + 1, Len(s)) \o b = SubSeq(w, k + 1, Len(w))
      BY <1>5, <2>2, SuffixConcat DEF w
    <3> QED  BY <2>2, <3>1, <3>2
  <2>4. /\ MarkerAt(kept \o b, d) # {} => MarkerAt(v, d) # {}
        /\ Clean(v, d) => Clean(kept \o b, d)
    <3>1. /\ MarkerAt(kept \o b, d) # {} => MarkerAt(w, d) # {}
          /\ Clean(w, d) => Clean(kept \o b, d)
      BY <1>7, <2>3, CleanSuffix
    <3> QED  BY <1>8, <3>1
  <2>5. met < 3 => kept = <<>>
    <3> SUFFICES ASSUME met < 3 PROVE kept = <<>>
      OBVIOUS
    <3>1. more = <<>>
      BY <1>2
    <3>2. scan.search_buf = <<>>
      <4>1. CASE scan.echo_matched < 3
        BY <4>1
      <4>2. ~(scan.echo_matched = 3)
        BY <1>2
      <4> QED  BY <1>4, <4>1, <4>2
    <3>3. s = <<>>
      BY <1>4, <3>1, <3>2, ConcatEmptySeq DEF s
    <3>4. kept \in {s, SubSeq(s, k + 1, 0)}
      BY <2>2, <3>3
    <3>5. SubSeq(s, k + 1, 0) = <<>>
      BY SubSeqEmpty
    <3> QED  BY <3>3, <3>4, <3>5
  <2>6. \A e : Unseen(s, e) => Unseen(kept, e)
    BY <1>5, <2>2, PureSuffix
  <2>7. \E j \in 0 .. Len(v) : r.search_buf \o b = SubSeq(v, j + 1, Len(v))
    <3> DEFINE lv == Len(v)
               lw == Len(w)
    <3>1. w = SubSeq(v, n + 1, Len(v))
      BY <1>6 DEF w
    <3>2. n + k \in 0 .. lv /\ n + k <= lv
      <4>1. lw = lv - n
        BY <1>4, <1>5, <1>6, <3>1, ToSetSuffix
      <4>2. k <= lw /\ lv \in Nat
        BY <1>5, <2>3
      <4> HIDE DEF lv, lw
      <4> QED  BY <1>4, <2>2, <4>1, <4>2
    <3>3. kept \o b = SubSeq(v, (n + k) + 1, Len(v))
      BY <1>4, <1>5, <2>2, <2>3, <3>1, <3>2, SuffixTwice DEF lv
    <3> QED  BY <2>1, <3>2, <3>3 DEF lv
  <2> QED  BY <1>10, <2>1, <2>4, <2>5, <2>6, <2>7 DEF r, v
<1> QED
  BY <1>11, <1>12

\* Spilling moves tokens from the buffer to the spill file.
LEMMA SpillStream ==
    ASSUME NEW scan \in ScanType, NEW writes
    PROVE  LET r == Spill(scan, writes) IN
           /\ r.found_begin = scan.found_begin /\ r.search_buf = scan.search_buf
           /\ r.echo_matched = scan.echo_matched
           /\ \A d : Pure(scan.spill, d) /\ Pure(scan.buffer, d)
                     => Pure(r.spill, d) /\ Pure(r.buffer, d)
           /\ \A d : Unseen(scan.buffer, d) => Unseen(r.buffer, d)
<1> DEFINE b == scan.buffer
           n == Len(b) - TrimKeep
           head == SubSeq(b, 1, n)
           spilled == scan.spill \o head
           kept == SubSeq(b, n + 1, Len(b))
           r == Spill(scan, writes)
<1>1. CASE Len(b) > BufferCap /\ writes
  <2>1. b \in Seq(Tokens) /\ scan.spill \in Seq(Tokens) /\ Len(b) \in Nat
    BY DEF ScanType
  <2>2. n \in Nat /\ n <= Len(b) /\ n \in Int
    BY <1>1, <2>1, QueueAssumption
  <2>3. r = [scan EXCEPT !.spill = spilled, !.buffer = kept]
    BY <1>1 DEF Spill
  <2> HIDE DEF b, n
  <2>4. head \in Seq(Tokens) /\ kept \in Seq(Tokens)
    BY <2>1, <2>2
  <2>5. ASSUME NEW d PROVE /\ Pure(b, d) => Pure(head, d) /\ Pure(kept, d)
                           /\ Unseen(b, d) => Unseen(kept, d)
    BY <2>1, <2>2, PureSuffix, PurePrefix
  <2> HIDE DEF head, kept
  <2>6. ASSUME NEW d, Pure(scan.spill, d), Pure(b, d) PROVE Pure(spilled, d)
    BY <2>1, <2>4, <2>5, <2>6, PureConcat
  <2> HIDE DEF spilled, r
  <2>7. /\ r.found_begin = scan.found_begin /\ r.search_buf = scan.search_buf
        /\ r.echo_matched = scan.echo_matched
        /\ r.spill = spilled /\ r.buffer = kept
    BY <2>3 DEF ScanType
  <2> QED  BY <2>5, <2>6, <2>7 DEF b, r
<1>2. CASE ~(Len(b) > BufferCap /\ writes)
  BY <1>2 DEF Spill
<1> QED
  BY <1>1, <1>2

-----------------------------------------------------------------------------
(* The methods.                                                            *)

\* The command that is sent finds no trace of itself.
LEMMA SendOwn ==
    ASSUME NEW q, IsQueue(q), q.tx \in Seq(Commands),
           NEW b \in Seq(Tokens), NEW L \in Seq(Commands),
           NEW M, NEW S \in SUBSET Commands, NEW c \in Commands,
           q.current = NoCommand, OwnResults(q, M), OwnUnsent(q, b, L, S),
           Untouched(q, b, L, c), c \notin Unsent(q, S)
    PROVE  Own(SendCommand(q, c), b, L, M, S) /\ Fresh(SendCommand(q, c), b)
<1> DEFINE r == SendCommand(q, c)
<1>0. q.result = [e \in Commands |-> q.result[e]]
  BY DEF IsQueue
<1>1. CASE q.write_fn
  <2> DEFINE tx == Append(q.tx, c)
             scan == FreshScan
  <2>1. r = [q EXCEPT !.current = c, !.scan = scan, !.tx = tx]
    BY <1>1 DEF SendCommand
  <2> HIDE DEF tx, scan
  <2>2. /\ r.current = c /\ r.scan = scan /\ r.tx = tx
        /\ r.pending = q.pending /\ r.result = q.result
    <3> HIDE DEF r
    <3> QED  BY <2>1 DEF IsQueue, Fields
  <2> HIDE DEF r
  <2>3. /\ scan.search_buf = <<>> /\ scan.buffer = <<>> /\ scan.spill = <<>>
        /\ scan.found_begin = FALSE /\ scan.echo_matched = 0
    BY DEF scan, FreshScan
  <2>4. /\ ToSet(tx) = ToSet(q.tx) \cup {c}
        /\ Len(tx) = Len(q.tx) + 1 /\ Len(q.tx) \in Nat
        /\ DOMAIN tx = 1 .. Len(tx)
        /\ \A i \in 1 .. Len(q.tx) : tx[i] = q.tx[i] /\ q.tx[i] \in ToSet(q.tx)
    <3>1. ToSet(tx) = ToSet(q.tx) \cup {c}
      BY <1>0, ToSetAppend DEF tx
    <3>2. /\ Len(tx) = Len(q.tx) + 1 /\ Len(q.tx) \in Nat
          /\ DOMAIN tx = 1 .. Len(tx)
          /\ \A i \in 1 .. Len(q.tx) : tx[i] = q.tx[i]
      BY <1>0 DEF tx
    <3>3. \A i \in 1 .. Len(q.tx) : q.tx[i] \in ToSet(q.tx)
      BY <1>0 DEF ToSet
    <3> QED  BY <3>1, <3>2, <3>3
  <2>5. OwnResults(r, M)
    BY <2>2 DEF OwnResults
  <2>6. Unsent(r, S) = Unsent(q, S)
    BY <2>2 DEF Unsent
  <2>7. OwnUnsent(r, b, L, S)
    <3> SUFFICES ASSUME NEW e \in Unsent(q, S) PROVE Untouched(r, b, L, e)
      BY <2>6 DEF OwnUnsent
    <3>1. Untouched(q, b, L, e) /\ e # c
      BY DEF OwnUnsent
    <3>2. Unseen(<<>>, e)
      BY DEF Unseen
    <3> QED  BY <2>2, <2>3, <2>4, <3>1, <3>2 DEF Untouched
  <2>8. OwnLast(r, L)
    <3>1. \A i \in DOMAIN L : L[i] # c
      BY DEF Untouched, ToSet
    <3>2. ASSUME NEW i \in DOMAIN tx, tx[i] = c PROVE i = Len(tx)
      <4>1. c \notin ToSet(q.tx)
        BY DEF Untouched
      <4> QED  BY <2>4, <3>2, <4>1
    <3> QED  BY <2>2, <3>1, <3>2 DEF OwnLast
  <2>9. OwnScan(r)
    BY <2>2, <2>3 DEF OwnScan
  <2>10. OwnStream(r, b, L)
    <3>1. r.scan.search_buf \o b = b
      BY <2>2, <2>3, ConcatEmptySeq
    <3>2. Unseen(b, c)
      BY DEF Untouched
    <3>3. MarkerAt(b, c) = {} /\ Clean(b, c)
      BY <3>2, UnseenClean
    <3> QED  BY <2>2, <2>3, <3>1, <3>3 DEF OwnStream
  <2>11. Fresh(r, b)
    BY <2>2 DEF Fresh, Untouched, scan
  <2> QED  BY <2>5, <2>7, <2>8, <2>9, <2>10, <2>11 DEF Own, r
<1>2. CASE ~q.write_fn
  <2> DEFINE res == [q.result EXCEPT ![c] = Closed]
  <2>1. r = [q EXCEPT !.result = res]
    BY <1>2 DEF SendCommand, Resolve
  <2> HIDE DEF res
  <2>2. /\ r.current = NoCommand /\ r.scan = q.scan /\ r.tx = q.tx
        /\ r.pending = q.pending /\ r.result = res
    <3> HIDE DEF r
    <3> QED  BY <2>1 DEF IsQueue, Fields
  <2> HIDE DEF r
  <2>3. OwnResults(r, M)
    <3> SUFFICES ASSUME NEW e \in Commands \ M PROVE Pure(res[e].out, e)
      BY <2>2 DEF OwnResults
    <3>1. CASE e = c
      BY <1>0, <3>1 DEF res, Closed, Pure
    <3>2. CASE e # c
      BY <1>0, <3>2 DEF res, OwnResults
    <3> QED  BY <3>1, <3>2
  <2>4. OwnUnsent(r, b, L, S)
    BY <2>2 DEF OwnUnsent, Unsent, Untouched
  <2> QED  BY <2>2, <2>3, <2>4 DEF Own, Fresh, r
<1> QED
  BY <1>1, <1>2

\* Nor does the next one that waits, once the ones before it were skipped.
LEMMA DequeueOwn ==
    ASSUME NEW q, NEW S \in SUBSET Commands, Slots(q, S), q.tx \in Seq(Commands),
           NEW b \in Seq(Tokens), NEW L \in Seq(Commands), NEW M,
           q.current = NoCommand, OwnResults(q, M), OwnUnsent(q, b, L, S)
    PROVE  Own(DequeueNext(q), b, L, M, S) /\ Fresh(DequeueNext(q), b)
<1> DEFINE p    == q.pending
           live == {i \in DOMAIN p : Sendable(p[i])}
           n    == IF live = {} THEN Len(p) ELSE Min(live) - 1
           skipped == {p[i] : i \in 1 .. n}
           late == skipped \ gone
           res  == [c \in Commands |-> IF c \in late THEN TimedOut(<<>>)
                                      ELSE IF c \in skipped THEN Closed
                                      ELSE q.result[c]]
           rest == SubSeq(p, n + 2, Len(p))
           errs == q.errors + Cardinality(late)
           left == [q EXCEPT !.pending = rest, !.result = res, !.errors = errs]
<1>1. p \in Seq(Commands) /\ Len(p) \in Nat /\ DOMAIN p = 1 .. Len(p)
      /\ Distinct(p) /\ IsQueue(q) /\ ToSet(p) \subseteq S
  <2>1. p \in Seq(Commands) /\ Distinct(p) /\ IsQueue(q)
    BY DEF Slots, IsQueue, Placed
  <2>2. Len(p) \in Nat /\ DOMAIN p = 1 .. Len(p) /\ ToSet(p) \subseteq Commands
    BY <2>1 DEF ToSet
  <2>3. ASSUME NEW c \in ToSet(p) PROVE c \in S
    BY <2>2 DEF Slots, Placed
  <2> QED  BY <2>1, <2>2, <2>3
<1>2. /\ live = {} => n = Len(p)
      /\ live # {} => n \in Nat /\ n + 1 \in 1 .. Len(p)
  <2>1. live \in SUBSET Nat
    BY <1>1
  <2>2. live # {} => Min(live) \in live
    BY <2>1, MinOfNaturals
  <2> QED  BY <1>1, <2>2
<1>3. DequeueNext(q) = IF live = {} THEN left ELSE SendCommand(left, p[n + 1])
  BY DEF DequeueNext
<1> HIDE DEF live, n
<1>4. OwnResults(left, M)
  <2>1. left.result = res
    <3> HIDE DEF rest, res, errs
    <3> QED  BY <1>1 DEF IsQueue, Fields
  <2>2. ASSUME NEW c \in Commands \ M PROVE Pure(res[c].out, c)
    <3>1. /\ TimedOut(<<>>).out = <<>> /\ Closed.out = <<>>
          /\ Pure(<<>>, c) /\ Pure(q.result[c].out, c)
      BY DEF TimedOut, Closed, Pure, OwnResults
    <3>2. res[c] \in {TimedOut(<<>>), Closed, q.result[c]}
      <4> HIDE DEF late, skipped
      <4> QED  OBVIOUS
    <3> HIDE DEF res
    <3> QED  BY <3>1, <3>2
  <2> HIDE DEF left, res
  <2> QED  BY <2>1, <2>2 DEF OwnResults
<1>5. /\ left.current = NoCommand /\ left.pending = rest /\ left.scan = q.scan
      /\ left.tx = q.tx /\ left.write_fn = q.write_fn /\ left.result = res
      /\ left = [f \in Fields |-> left[f]]
  <2> HIDE DEF rest, res, errs
  <2> QED  BY <1>1 DEF IsQueue, Fields
<1>6. res = [c \in Commands |-> res[c]]
  <2> HIDE DEF late, skipped
  <2> QED  OBVIOUS
<1> HIDE DEF left, res, errs
<1>7. CASE live = {}
  <2>1. rest = <<>>
    BY <1>1, <1>2, <1>7
  <2>2. ToSet(left.pending) = {}
    <3>1. ToSet(<<>>) = {}
      BY DEF ToSet
    <3> HIDE DEF rest
    <3> QED  BY <1>5, <2>1, <3>1
  <2>3. OwnUnsent(left, b, L, S)
    BY <1>5, <2>2 DEF OwnUnsent, Unsent, Untouched
  <2> QED  BY <1>3, <1>4, <1>5, <1>7, <2>3 DEF Own, Fresh
<1>8. CASE live # {}
  <2> DEFINE c == p[n + 1]
  <2>1. /\ rest \in Seq(Commands) /\ c \in Commands
        /\ c \in ToSet(p) /\ c \notin ToSet(rest) /\ ToSet(rest) \subseteq ToSet(p)
    <3>1. n \in Nat /\ n + 1 <= Len(p)
      BY <1>1, <1>2, <1>8
    <3> HIDE DEF p
    <3>2. LET a == {p[i] : i \in 1 .. n}
              r == SubSeq(p, n + 2, Len(p))
          IN  /\ r \in Seq(Commands)
              /\ p[n + 1] \in Commands
              /\ p[n + 1] \notin ToSet(r)
              /\ ToSet(p) = a \cup {p[n + 1]} \cup ToSet(r)
      BY <1>1, <3>1, DistinctSplit
    <3> QED  BY <3>2
  <2>2. IsQueue(left)
    <3> HIDE DEF rest
    <3> QED  BY <1>1, <1>5, <1>6, <2>1 DEF IsQueue
  <2> HIDE DEF c, p, rest
  <2>3. OwnUnsent(left, b, L, S)
    BY <1>5, <2>1 DEF OwnUnsent, Unsent, Untouched, p
  <2>4. Untouched(left, b, L, c)
    BY <1>5, <2>1 DEF OwnUnsent, Unsent, Untouched, p
  <2>5. c \notin Unsent(left, S)
    BY <1>1, <1>5, <2>1 DEF Unsent
  <2>6. Own(SendCommand(left, c), b, L, M, S) /\ Fresh(SendCommand(left, c), b)
    BY <1>4, <1>5, <2>1, <2>2, <2>3, <2>4, <2>5, SendOwn
  <2> QED  BY <1>3, <1>8, <2>6 DEF c
<1> QED
  BY <1>7, <1>8

\* The command on the line is answered with tokens of its own, and the next one
\* is sent.
LEMMA RetireOwn ==
    ASSUME NEW q, NEW S \in SUBSET Commands, Slots(q, S), Moving(q),
           q.tx \in Seq(Commands),
           NEW b \in Seq(Tokens), NEW L \in Seq(Commands), NEW M,
           q.current # NoCommand, OwnResults(q, M), OwnUnsent(q, b, L, S),
           NEW a, a # NoResult, q.current \notin M => Pure(a.out, q.current),
           NEW r, r = [f \in Fields |-> r[f]],
           r.current = NoCommand, r.pending = q.pending, r.scan = q.scan,
           r.tx = q.tx, r.write_fn = q.write_fn,
           r.result = [q.result EXCEPT ![q.current] = a]
    PROVE  Own(DequeueNext(r), b, L, M, S) /\ Fresh(DequeueNext(r), b)
<1>1. Slots(r, S)
  BY RetireSlots
<1>2. q.current \in Commands /\ q.result = [e \in Commands |-> q.result[e]]
  BY DEF Slots, IsQueue
<1>3. \A e \in Commands : r.result[e] = IF e = q.current THEN a ELSE q.result[e]
  BY <1>2
<1>4. OwnResults(r, M)
  BY <1>3 DEF OwnResults
<1>5. OwnUnsent(r, b, L, S)
  BY DEF OwnUnsent, Unsent, Untouched
<1> QED
  BY <1>1, <1>4, <1>5, DequeueOwn

\* The deadline of the command on the line.
LEMMA ExpireOwn ==
    ASSUME NEW q, NEW S \in SUBSET Commands, Slots(q, S), Moving(q), QueueTyped(q),
           NEW b \in Seq(Tokens), NEW L \in Seq(Commands), NEW M,
           Own(q, b, L, M, S)
    PROVE  /\ Own(ExpireCurrent(q), b, L, M, S)
           /\ Fresh(q, b) => Fresh(ExpireCurrent(q), b)
           /\ Carried(q, ExpireCurrent(q), b)
<1>1. CASE ~CurrentExpired(q)
  BY <1>1 DEF ExpireCurrent, Carried
<1>2. CASE CurrentExpired(q)
  <2> DEFINE out == q.scan.spill \o q.scan.buffer
             a == TimedOut(out)
             e == q.errors + 1
             r == [Resolve(q, q.current, a) EXCEPT !.current = NoCommand, !.errors = e]
  <2>1. q.current # NoCommand
    BY <1>2 DEF CurrentExpired
  <2>2. ExpireCurrent(q) = DequeueNext(r)
    <3>1. Resolve(q, q.current, a).errors = q.errors
      BY DEF Resolve, QueueTyped, QueueType
    <3> QED  BY <1>2, <3>1 DEF ExpireCurrent
  <2>3. a # NoResult /\ a.out = out
    BY AnswersAreAnswers DEF TimedOut
  <2>4. q.tx \in Seq(Commands) /\ q.scan.spill \in Seq(Tokens) /\ q.scan.buffer \in Seq(Tokens)
    BY DEF QueueTyped, QueueType, ScanType
  <2>5. q.current \notin M => Pure(out, q.current)
    <3> SUFFICES ASSUME q.current \notin M PROVE Pure(out, q.current)
      OBVIOUS
    <3>1. OwnScan(q) /\ OwnStream(q, b, L)
      BY <2>1 DEF Own
    <3>2. Pure(q.scan.spill, q.current) /\ Pure(q.scan.buffer, q.current)
      BY <3>1 DEF OwnScan, OwnStream, Pure
    <3> QED  BY <2>4, <3>2, PureConcat
  <2> HIDE DEF out, a, e
  <2>6. /\ r = [f \in Fields |-> r[f]]
        /\ r.current = NoCommand /\ r.pending = q.pending /\ r.scan = q.scan
        /\ r.tx = q.tx /\ r.write_fn = q.write_fn
        /\ r.result = [q.result EXCEPT ![q.current] = a]
    BY DEF Resolve, Slots, IsQueue, Fields
  <2>7. OwnResults(q, M) /\ OwnUnsent(q, b, L, S)
    BY DEF Own
  <2> HIDE DEF r
  <2>8. q.current \notin M => Pure(a.out, q.current)
    BY <2>3, <2>5
  <2>9. Own(DequeueNext(r), b, L, M, S) /\ Fresh(DequeueNext(r), b)
    BY <2>1, <2>3, <2>4, <2>6, <2>7, <2>8, RetireOwn
  <2> QED  BY <2>2, <2>9 DEF Carried
<1> QED
  BY <1>1, <1>2

\* A queue that has scanned more of the stream: what is left of it has no token
\* of a command that was not sent, either.
LEMMA UnsentShrinks ==
    ASSUME NEW q, NEW S, NEW L, NEW data \in Seq(Tokens), NEW b \in Seq(Tokens),
           OwnUnsent(q, data \o b, L, S)
    PROVE  OwnUnsent(q, b, L, S) /\ \A c \in Unsent(q, S) : Unseen(data, c)
<1>1. ASSUME NEW c \in Unsent(q, S) PROVE Untouched(q, b, L, c) /\ Unseen(data, c)
  <2>1. Untouched(q, data \o b, L, c)
    BY DEF OwnUnsent
  <2>2. Unseen(data, c) /\ Unseen(b, c)
    BY <2>1, PureConcat DEF Untouched
  <2> QED  BY <2>1, <2>2 DEF Untouched
<1> QED
  BY <1>1 DEF OwnUnsent

\* The scanner's state after a chunk, when its command is on the line.
Scanned(q, data, writes) ==
    LET begun == IF q.scan.found_begin
                 THEN [q.scan EXCEPT !.buffer = @ \o data]
                 ELSE FindBegin(q.scan, q.current, data)
    IN  IF begun.found_begin THEN Spill(begun, writes) ELSE begun

\* A chunk is scanned: the invariant of the stream holds of what is left of it.
LEMMA ScannedOwn ==
    ASSUME NEW q, QueueTyped(q), q.current # NoCommand,
           NEW data \in Seq(Tokens), NEW b \in Seq(Tokens),
           NEW L, NEW M, NEW writes \in BOOLEAN, OwnScan(q),
           q.current \notin M => OwnStream(q, data \o b, L)
    PROVE  LET t == Scanned(q, data, writes)
               r == [q EXCEPT !.scan = t]
           IN
           /\ t \in ScanType
           /\ OwnScan(r)
           /\ q.current \notin M => OwnStream(r, b, L)
           /\ \A e : Unseen(q.scan.search_buf, e) /\ Unseen(data, e)
                      /\ Unseen(q.scan.buffer, e)
                        => Unseen(t.search_buf, e) /\ Unseen(t.buffer, e)
           /\ Fresh(q, data \o b) => ~t.found_begin
<1> DEFINE t == Scanned(q, data, writes)
           r == [q EXCEPT !.scan = t]
           d == q.current
           idle == Idle(q, L)
<1>0. /\ q.scan \in ScanType /\ d \in Commands
      /\ q.scan.spill \in Seq(Tokens) /\ q.scan.buffer \in Seq(Tokens)
      /\ q.scan.search_buf \in Seq(Tokens) /\ data \o b \in Seq(Tokens)
  BY ConcatProperties DEF QueueTyped, QueueType, ScanType
<1>1. r.scan = t /\ r.current = d /\ r.tx = q.tx
  <2> HIDE DEF t
  <2> QED  BY DEF QueueTyped, QueueType
<1>2. Idle(r, L) <=> Idle(q, L)
  BY <1>1 DEF Idle
<1> HIDE DEF r
<1>3. CASE q.scan.found_begin
  <2> DEFINE more == q.scan.buffer \o data
             begun == [q.scan EXCEPT !.buffer = more]
  <2>1. more \in Seq(Tokens)
    BY <1>0, ConcatProperties
  <2>2. \A e : Unseen(q.scan.buffer, e) /\ Unseen(data, e) => Unseen(more, e)
    BY <1>0, PureConcat
  <2>3. \A e : Pure(q.scan.buffer, e) /\ Pure(data, e) => Pure(more, e)
    BY <1>0, PureConcat
  <2> HIDE DEF more
  <2>4. /\ begun \in ScanType /\ begun.buffer = more /\ begun.found_begin
        /\ begun.search_buf = q.scan.search_buf /\ begun.spill = q.scan.spill
        /\ begun.echo_matched = q.scan.echo_matched
    BY <1>0, <1>3, <2>1 DEF ScanType
  <2>5. t = Spill(begun, writes)
    BY <1>3, <2>4 DEF Scanned, more
  <2> HIDE DEF t, begun
  <2>6. /\ t.found_begin /\ t.search_buf = q.scan.search_buf
        /\ t.echo_matched = q.scan.echo_matched
        /\ \A e : Pure(q.scan.spill, e) /\ Pure(more, e)
                  => Pure(t.spill, e) /\ Pure(t.buffer, e)
        /\ \A e : Unseen(more, e) => Unseen(t.buffer, e)
    BY <2>4, <2>5, SpillStream
  <2>7. t \in ScanType
    BY <2>4, <2>5, SpillTyped
  <2>8. OwnScan(r)
    BY <1>1, <2>6 DEF OwnScan
  <2>9. d \notin M => OwnStream(r, b, L)
    <3> SUFFICES ASSUME d \notin M PROVE OwnStream(r, b, L)
      OBVIOUS
    <3>1. /\ idle /\ Pure(q.scan.spill, d) /\ Pure(q.scan.buffer, d)
          /\ Pure(data \o b, d)
      BY <1>3 DEF OwnStream
    <3>2. Pure(data, d) /\ Pure(b, d)
      BY <3>1, PureConcat
    <3>3. Pure(t.spill, d) /\ Pure(t.buffer, d)
      BY <2>3, <2>6, <3>1, <3>2
    <3> QED  BY <1>1, <1>2, <2>6, <3>1, <3>2, <3>3 DEF OwnStream
  <2>10. ~Fresh(q, data \o b)
    BY <1>3 DEF Fresh, FreshScan
  <2> QED  BY <2>2, <2>6, <2>7, <2>8, <2>9, <2>10 DEF r, t
<1>4. CASE ~q.scan.found_begin
  <2> DEFINE begun == FindBegin(q.scan, d, data)
             v == q.scan.search_buf \o (data \o b)
  <2>1. q.scan.echo_matched < 3 => q.scan.search_buf = <<>>
    BY DEF OwnScan
  <2>2. begun \in ScanType
    BY <1>0, FindBeginTyped
  <2>3. /\ begun.spill = q.scan.spill
        /\ begun.found_begin => /\ MarkerAt(v, d) # {}
                                /\ begun.search_buf = <<>>
                                /\ Clean(v, d) => Pure(begun.buffer \o b, d)
        /\ ~begun.found_begin => /\ begun.buffer = q.scan.buffer
                                 /\ begun.echo_matched < 3 => begun.search_buf = <<>>
                                 /\ Clean(v, d) => Clean(begun.search_buf \o b, d)
                                 /\ MarkerAt(begun.search_buf \o b, d) # {}
                                      => MarkerAt(v, d) # {}
        /\ \A e : Unseen(q.scan.search_buf, e) /\ Unseen(data, e)
                   /\ Unseen(q.scan.buffer, e)
                     => Unseen(begun.search_buf, e) /\ Unseen(begun.buffer, e)
    <3> DEFINE s == q.scan
    <3>1. /\ s \in ScanType /\ ~s.found_begin /\ d \in Commands
          /\ s.echo_matched < 3 => s.search_buf = <<>>
      BY <1>0, <1>4, <2>1
    <3> HIDE DEF s, d
    <3> QED  BY <3>1, FindBeginStream DEF s
  <2>4. t = IF begun.found_begin THEN Spill(begun, writes) ELSE begun
    BY <1>4 DEF Scanned
  <2>5. q.scan.buffer = <<>> /\ q.scan.spill = <<>>
    BY <1>4 DEF OwnScan
  <2>6. d \notin M => Clean(v, d) /\ (MarkerAt(v, d) # {} => idle)
    BY <1>4 DEF OwnStream
  <2>7. Fresh(q, data \o b) => MarkerAt(v, d) = {}
    <3> SUFFICES ASSUME Fresh(q, data \o b) PROVE MarkerAt(v, d) = {}
      OBVIOUS
    <3>1. q.scan.search_buf = <<>> /\ Unseen(data \o b, d)
      BY DEF Fresh, FreshScan
    <3>2. v = data \o b
      BY <1>0, <3>1, ConcatEmptySeq
    <3> HIDE DEF v
    <3> QED  BY <1>0, <3>1, <3>2, UnseenClean
  <2> HIDE DEF t, begun, v
  <2>8. CASE begun.found_begin
    <3>1. /\ t.found_begin /\ t.search_buf = <<>> /\ t \in ScanType
          /\ \A e : Pure(<<>>, e) /\ Pure(begun.buffer, e)
                    => Pure(t.spill, e) /\ Pure(t.buffer, e)
          /\ \A e : Unseen(begun.buffer, e) => Unseen(t.buffer, e)
      <4>1. t = Spill(begun, writes)
        BY <2>4, <2>8
      <4>2. t \in ScanType
        BY <2>2, <4>1, SpillTyped
      <4>3. /\ t.found_begin = begun.found_begin /\ t.search_buf = begun.search_buf
            /\ \A e : Pure(begun.spill, e) /\ Pure(begun.buffer, e)
                      => Pure(t.spill, e) /\ Pure(t.buffer, e)
            /\ \A e : Unseen(begun.buffer, e) => Unseen(t.buffer, e)
        BY <2>2, <4>1, SpillStream
      <4> QED  BY <2>3, <2>5, <2>8, <4>2, <4>3
    <3>2. OwnScan(r)
      BY <1>1, <3>1 DEF OwnScan
    <3>3. d \notin M => OwnStream(r, b, L)
      <4> SUFFICES ASSUME d \notin M PROVE OwnStream(r, b, L)
        OBVIOUS
      <4>1. idle /\ Pure(begun.buffer \o b, d)
        BY <2>3, <2>6, <2>8
      <4>2. begun.buffer \in Seq(Tokens)
        BY <2>2 DEF ScanType
      <4>3. Pure(begun.buffer, d) /\ Pure(b, d)
        BY <4>1, <4>2, PureConcat
      <4>4. Pure(<<>>, d)
        BY DEF Pure
      <4> QED  BY <1>1, <1>2, <3>1, <4>1, <4>3, <4>4 DEF OwnStream
    <3>4. ~Fresh(q, data \o b)
      BY <2>3, <2>7, <2>8
    <3>5. ASSUME NEW e, Unseen(q.scan.search_buf, e), Unseen(data, e),
                 Unseen(q.scan.buffer, e)
          PROVE  Unseen(t.search_buf, e) /\ Unseen(t.buffer, e)
      <4>1. Unseen(<<>>, e)
        BY DEF Unseen
      <4> QED  BY <2>3, <3>1, <3>5, <4>1
    <3> QED  BY <3>1, <3>2, <3>3, <3>4, <3>5 DEF r, t
  <2>9. CASE ~begun.found_begin
    <3>1. t = begun
      BY <2>4, <2>9
    <3>2. OwnScan(r)
      BY <1>1, <2>3, <2>5, <2>9, <3>1 DEF OwnScan
    <3>3. d \notin M => OwnStream(r, b, L)
      BY <1>1, <1>2, <2>3, <2>6, <2>9, <3>1 DEF OwnStream
    <3>4. t \in ScanType /\ ~t.found_begin
      BY <2>2, <2>9, <3>1
    <3>5. \A e : Unseen(q.scan.search_buf, e) /\ Unseen(data, e)
               /\ Unseen(q.scan.buffer, e)
                 => Unseen(t.search_buf, e) /\ Unseen(t.buffer, e)
      BY <2>3, <3>1
    <3> QED  BY <3>2, <3>3, <3>4, <3>5 DEF r, t
  <2> QED  BY <2>8, <2>9
<1> QED
  BY <1>3, <1>4

\* What is cut from the front of a pure answer leaves it pure.
LEMMA ExtractPure ==
    ASSUME NEW out \in Seq(Tokens), NEW d, Pure(out, d)
    PROVE  Pure(ExtractExit(out).out, d)
<1> DEFINE cut == SubSeq(out, 1, Len(out) - 1)
<1>1. Len(out) \in Nat /\ Len(out) - 1 \in Int /\ Len(out) - 1 <= Len(out)
  BY LenProperties
<1>2. Pure(cut, d)
  BY <1>1, PurePrefix
<1>3. ExtractExit(out).out \in {cut, out}
  <2> HIDE DEF cut
  <2> QED  BY DEF ExtractExit, OkResult, cut
<1> QED
  BY <1>2, <1>3

\* The chunk that is scanned ends nothing: the scanner waits for more.
ScansOn(q, data, writes, r) ==
    /\ q.current # NoCommand
    /\ r.q = [q EXCEPT !.scan = Scanned(q, data, writes)]
    /\ r.rest = <<>>

\* One pass over a chunk.  The bytes after an end marker, which are fed to the
\* command sent next, hold no marker of it: one repeat is enough.
LEMMA ScanOwn ==
    ASSUME NEW q, NEW S \in SUBSET Commands, Slots(q, S), Moving(q), QueueTyped(q),
           NEW data \in Seq(Tokens), NEW b \in Seq(Tokens),
           NEW L \in Seq(Commands), NEW M, NEW writes \in BOOLEAN,
           Own(q, data \o b, L, M, S)
    PROVE  LET r == ScanChunk(q, data, writes) IN
           /\ Own(r.q, r.rest \o b, L, M, S)
           /\ r.rest # <<>> => Fresh(r.q, r.rest \o b)
           /\ Fresh(q, data \o b) => r.rest = <<>>
           /\ Fresh(r.q, r.rest \o b) \/ ScansOn(q, data, writes, r)
<1> DEFINE r == ScanChunk(q, data, writes)
<1>0. /\ OwnResults(q, M) /\ OwnUnsent(q, b, L, S)
      /\ \A e \in Unsent(q, S) : Unseen(data, e)
      /\ <<>> \o b = b
  BY UnsentShrinks, ConcatEmptySeq DEF Own
<1>1. CASE q.current = NoCommand
  <2>1. r.q = q /\ r.rest = <<>>
    BY <1>1 DEF ScanChunk
  <2>2. Own(q, b, L, M, S)
    BY <1>0, <1>1 DEF Own
  <2> HIDE DEF r
  <2>3. Fresh(r.q, r.rest \o b)
    BY <1>1, <2>1 DEF Fresh
  <2> QED  BY <1>0, <2>1, <2>2, <2>3 DEF r
<1>2. CASE q.current # NoCommand
  <2> DEFINE d == q.current
             t == Scanned(q, data, writes)
             ends == IF t.found_begin THEN MarkerAt(t.buffer, d) ELSE {}
             at == Min(ends)
             head == SubSeq(t.buffer, 1, at - 1)
             out == t.spill \o head
             rest == SubSeq(t.buffer, at + 2, Len(t.buffer))
             s == [q EXCEPT !.scan = t]
  <2>1. r = IF ends = {} THEN [q |-> s, rest |-> <<>>]
            ELSE [q |-> Complete(q, t, at), rest |-> rest]
    BY <1>2 DEF ScanChunk, Scanned
  <2>2. OwnLast(q, L) /\ OwnScan(q) /\ (d \notin M => OwnStream(q, data \o b, L))
    BY <1>2 DEF Own
  <2>3. /\ t \in ScanType
        /\ OwnScan(s)
        /\ d \notin M => OwnStream(s, b, L)
        /\ \A e : Unseen(q.scan.search_buf, e) /\ Unseen(data, e)
                   /\ Unseen(q.scan.buffer, e)
                     => Unseen(t.search_buf, e) /\ Unseen(t.buffer, e)
        /\ Fresh(q, data \o b) => ~t.found_begin
    BY <1>2, <2>2, ScannedOwn
  <2> HIDE DEF t
  <2>4. /\ s.scan = t /\ s.current = d /\ s.tx = q.tx /\ s.pending = q.pending
        /\ s.result = q.result
    BY DEF QueueTyped, QueueType
  <2>5. \A e \in Unsent(q, S) : /\ Unseen(t.search_buf, e) /\ Unseen(t.buffer, e)
                               /\ Untouched(q, b, L, e)
    BY <1>0, <2>3 DEF OwnUnsent, Untouched
  <2>6. t.buffer \in Seq(Tokens) /\ t.spill \in Seq(Tokens)
    BY <2>3 DEF ScanType
  <2>7. CASE ends = {}
    <3>1. r.q = s /\ r.rest = <<>>
      BY <2>1, <2>7
    <3>6. ScansOn(q, data, writes, r)
      BY <1>2, <3>1 DEF ScansOn, t
    <3> HIDE DEF r, s
    <3>2. OwnResults(s, M)
      BY <1>0, <2>4 DEF OwnResults
    <3>3. OwnUnsent(s, b, L, S)
      BY <2>4, <2>5 DEF OwnUnsent, Unsent, Untouched
    <3>4. OwnLast(s, L)
      BY <2>2, <2>4 DEF OwnLast
    <3>5. Own(s, b, L, M, S)
      BY <2>3, <2>4, <3>2, <3>3, <3>4 DEF Own
    <3> QED  BY <1>0, <3>1, <3>5, <3>6 DEF r
  <2>8. CASE ends # {}
    <3>1. t.found_begin /\ ends = MarkerAt(t.buffer, d)
      BY <2>8
    <3>2. at \in 1 .. Len(t.buffer) - 1
      BY <2>6, <2>8, <3>1, FirstMarker
    <3>3. /\ at - 1 \in Int /\ at - 1 <= Len(t.buffer)
          /\ at + 1 \in Nat /\ at + 1 <= Len(t.buffer) /\ (at + 1) + 1 = at + 2
      <4>1. Len(t.buffer) \in Nat
        BY <2>6, LenProperties
      <4> HIDE DEF at
      <4> QED  BY <3>2, <4>1
    <3>4. r.q = Complete(q, t, at) /\ r.rest = rest
      <4>1. r = [q |-> Complete(q, t, at), rest |-> rest]
        BY <2>1, <2>8
      <4> HIDE DEF r, rest, at, ends, s
      <4> QED  BY <4>1
    <3> HIDE DEF at, ends, r, s
    <3>5. rest = SubSeq(t.buffer, (at + 1) + 1, Len(t.buffer))
      BY <3>3
    <3>6. head \in Seq(Tokens) /\ rest \in Seq(Tokens)
      <4>1. head \in Seq(Tokens)
        BY <2>6, <3>2
      <4> HIDE DEF rest
      <4>2. rest \in Seq(Tokens)
        BY <2>6, <3>3, <3>5, ToSetSuffix
      <4> QED  BY <4>1, <4>2
    <3>7. \A e : Unseen(t.buffer, e) => Unseen(rest, e)
      <4> HIDE DEF rest
      <4> QED  BY <2>6, <3>3, <3>5, PureSuffix
    <3>8. d \notin M => Pure(t.spill, d) /\ Pure(t.buffer, d)
      BY <2>3, <2>4, <3>1 DEF OwnStream
    <3>9. d \notin M => Pure(head, d)
      BY <2>6, <3>3, <3>8, PurePrefix
    <3> HIDE DEF head, rest
    <3>10. d \notin M => Pure(out, d)
      BY <2>6, <3>6, <3>8, <3>9, PureConcat
    <3>11. out \in Seq(Tokens)
      BY <2>6, <3>6, ConcatProperties
    <3> DEFINE a == ExtractExit(out)
               n == q.completed + 1
               done == [Resolve(q, d, a) EXCEPT !.current = NoCommand, !.completed = n]
    <3>12. Complete(q, t, at) = DequeueNext(done)
      <4>1. Resolve(q, q.current, a).completed = q.completed
        BY DEF Resolve, QueueTyped, QueueType
      <4> QED  BY <4>1 DEF Complete, head
    <3> HIDE DEF out
    <3>13. a # NoResult /\ (d \notin M => Pure(a.out, d))
      BY <3>10, <3>11, AnswersAreAnswers, ExtractPure
    <3> HIDE DEF a, n
    <3>14. /\ done = [f \in Fields |-> done[f]]
           /\ done.current = NoCommand /\ done.pending = q.pending
           /\ done.scan = q.scan /\ done.tx = q.tx /\ done.write_fn = q.write_fn
           /\ done.result = [q.result EXCEPT ![q.current] = a]
      BY DEF Resolve, Slots, IsQueue, Fields
    <3> HIDE DEF done
    <3>15. rest \o b \in Seq(Tokens)
      BY <3>6, ConcatProperties
    <3>16. OwnUnsent(q, rest \o b, L, S)
      <4> SUFFICES ASSUME NEW e \in Unsent(q, S) PROVE Untouched(q, rest \o b, L, e)
        BY DEF OwnUnsent
      <4>1. Unseen(rest, e) /\ Unseen(b, e) /\ Untouched(q, b, L, e)
        BY <2>5, <3>7 DEF Untouched
      <4>2. Unseen(rest \o b, e)
        BY <3>6, <4>1, PureConcat
      <4> QED  BY <4>1, <4>2 DEF Untouched
    <3>17. q.tx \in Seq(Commands)
      BY DEF QueueTyped, QueueType
    <3>18. Own(DequeueNext(done), rest \o b, L, M, S) /\ Fresh(DequeueNext(done), rest \o b)
      BY <1>0, <1>2, <3>13, <3>14, <3>15, <3>16, <3>17, RetireOwn
    <3>19. ~Fresh(q, data \o b)
      BY <2>3, <3>1
    <3> QED  BY <3>4, <3>12, <3>18, <3>19 DEF r
  <2> QED  BY <2>7, <2>8
<1> QED
  BY <1>1, <1>2

\* feed_serial_data: the deadline, the chunk, and what is left of it.
LEMMA FeedOwn ==
    ASSUME NEW q, NEW S \in SUBSET Commands, Slots(q, S), Moving(q), QueueTyped(q),
           NEW data \in Seq(Tokens), NEW b \in Seq(Tokens),
           NEW L \in Seq(Commands), NEW M, NEW writes \in BOOLEAN,
           Own(q, data \o b, L, M, S)
    PROVE  Own(Feed(q, data, writes), b, L, M, S)
<1> DEFINE e     == ExpireCurrent(q)
           first == ScanChunk(e, data, writes)
           f     == ExpireCurrent(first.q)
           again == ScanChunk(f, first.rest, writes)
<1>1. Feed(q, data, writes) = IF first.rest = <<>> THEN first.q ELSE again.q
  BY DEF Feed, FeedRest
<1>2. data \o b \in Seq(Tokens) /\ <<>> \o b = b
  BY ConcatProperties, ConcatEmptySeq
<1>3. Slots(e, S) /\ Moving(e) /\ QueueTyped(e) /\ Own(e, data \o b, L, M, S)
  BY <1>2, ExpireCurrentSlots, ExpireCurrentTyped, ExpireOwn
<1> HIDE DEF e
<1>4. /\ Slots(first.q, S) /\ Moving(first.q) /\ QueueTyped(first.q)
      /\ first.rest \in Seq(Tokens)
      /\ Own(first.q, first.rest \o b, L, M, S)
      /\ first.rest # <<>> => Fresh(first.q, first.rest \o b)
  <2>1. Slots(first.q, S) /\ Moving(first.q)
    BY <1>3, ScanChunkSlots
  <2>2. QueueTyped(first.q) /\ first.rest \in Seq(Tokens)
    BY <1>3, ScanChunkTyped
  <2>3. /\ Own(first.q, first.rest \o b, L, M, S)
        /\ first.rest # <<>> => Fresh(first.q, first.rest \o b)
    BY <1>3, ScanOwn
  <2> QED  BY <2>1, <2>2, <2>3
<1> HIDE DEF first
<1>5. CASE first.rest = <<>>
  BY <1>1, <1>2, <1>4, <1>5
<1>6. CASE first.rest # <<>>
  <2> DEFINE rest == first.rest
  <2>1. rest \o b \in Seq(Tokens) /\ rest \in Seq(Tokens)
    BY <1>4, ConcatProperties
  <2>2. /\ Slots(f, S) /\ Moving(f) /\ QueueTyped(f)
        /\ Own(f, rest \o b, L, M, S) /\ Fresh(f, rest \o b)
    BY <1>4, <1>6, <2>1, ExpireCurrentSlots, ExpireCurrentTyped, ExpireOwn
  <2> HIDE DEF f, rest
  <2>3. /\ Own(ScanChunk(f, rest, writes).q, ScanChunk(f, rest, writes).rest \o b, L, M, S)
        /\ ScanChunk(f, rest, writes).rest = <<>>
    BY <2>1, <2>2, ScanOwn
  <2> QED  BY <1>1, <1>2, <1>6, <2>3 DEF rest
<1> QED
  BY <1>5, <1>6

\* execute.
LEMMA SubmitOwn ==
    ASSUME NEW q, NEW S \in SUBSET Commands, Slots(q, S), QueueTyped(q),
           NEW b \in Seq(Tokens), NEW L \in Seq(Commands), NEW M,
           NEW c \in Commands \ S, Own(q, b, L, M, S)
    PROVE  Own(Submit(q, c), b, L, M, S \cup {c}) /\ Carried(q, Submit(q, c), b)
<1> DEFINE r == Submit(q, c)
           U == S \cup {c}
<1>0. /\ OwnResults(q, M) /\ OwnUnsent(q, b, L, S) /\ c \in Unsent(q, S)
      /\ IsQueue(q) /\ q.tx \in Seq(Commands) /\ c \notin ToSet(q.pending)
      /\ U \in SUBSET Commands
  BY DEF Own, Unsent, Slots, Placed, QueueTyped, QueueType
<1>1. Untouched(q, b, L, c)
  BY <1>0 DEF OwnUnsent
<1>2. Unsent(q, U) \subseteq Unsent(q, S) /\ c \notin Unsent(q, U)
  BY <1>0 DEF Unsent
<1>3. CASE Len(q.pending) >= MaxPending
  <2> DEFINE res == [q.result EXCEPT ![c] = Rejected]
  <2>1. r = [q EXCEPT !.result = res]
    BY <1>3 DEF Submit, Resolve
  <2> HIDE DEF res
  <2>2. /\ r.current = q.current /\ r.scan = q.scan /\ r.tx = q.tx
        /\ r.pending = q.pending /\ r.result = res
    <3> HIDE DEF r
    <3> QED  BY <1>0, <2>1 DEF IsQueue, Fields
  <2> HIDE DEF r
  <2>3. OwnResults(r, M)
    <3> SUFFICES ASSUME NEW e \in Commands \ M PROVE Pure(res[e].out, e)
      BY <2>2 DEF OwnResults
    <3>1. q.result = [x \in Commands |-> q.result[x]]
      BY <1>0 DEF IsQueue
    <3>2. CASE e = c
      BY <3>1, <3>2 DEF res, Rejected, Pure
    <3>3. CASE e # c
      BY <1>0, <3>1, <3>3 DEF res, OwnResults
    <3> QED  BY <3>2, <3>3
  <2>4. OwnUnsent(r, b, L, U)
    BY <1>0, <1>2, <2>2 DEF OwnUnsent, Unsent, Untouched
  <2>5. r.current # NoCommand =>
          /\ OwnLast(r, L) /\ OwnScan(r)
          /\ r.current \notin M => OwnStream(r, b, L)
    BY <2>2 DEF Own, OwnLast, OwnScan, OwnStream, Idle
  <2> QED  BY <2>2, <2>3, <2>4, <2>5 DEF Own, Carried, r, U
<1>4. CASE ~(Len(q.pending) >= MaxPending) /\ q.current = NoCommand
  <2>1. r = SendCommand(q, c)
    BY <1>4 DEF Submit
  <2>2. OwnUnsent(q, b, L, U)
    BY <1>0, <1>2 DEF OwnUnsent
  <2> HIDE DEF U, r
  <2>3. Own(SendCommand(q, c), b, L, M, U) /\ Fresh(SendCommand(q, c), b)
    BY <1>0, <1>1, <1>2, <1>4, <2>2, SendOwn
  <2> QED  BY <2>1, <2>3 DEF Carried, U, r
<1>5. CASE ~(Len(q.pending) >= MaxPending) /\ q.current # NoCommand
  <2> DEFINE p == Append(q.pending, c)
  <2>1. r = [q EXCEPT !.pending = p]
    BY <1>5 DEF Submit
  <2>2. ToSet(p) = ToSet(q.pending) \cup {c}
    BY <1>0, ToSetAppend DEF IsQueue
  <2> HIDE DEF p
  <2>3. /\ r.current = q.current /\ r.scan = q.scan /\ r.tx = q.tx
        /\ r.pending = p /\ r.result = q.result
    <3> HIDE DEF r
    <3> QED  BY <1>0, <2>1 DEF IsQueue, Fields
  <2> HIDE DEF r
  <2>4. Unsent(r, U) \subseteq Unsent(q, S)
    BY <1>0, <2>2, <2>3 DEF Unsent
  <2>5. OwnUnsent(r, b, L, U)
    BY <1>0, <2>3, <2>4 DEF OwnUnsent, Untouched
  <2>6. OwnResults(r, M)
    BY <1>0, <2>3 DEF OwnResults
  <2>7. r.current # NoCommand =>
          /\ OwnLast(r, L) /\ OwnScan(r)
          /\ r.current \notin M => OwnStream(r, b, L)
    BY <2>3 DEF Own, OwnLast, OwnScan, OwnStream, Idle
  <2> QED  BY <2>3, <2>5, <2>6, <2>7 DEF Own, Carried, r, U
<1> QED
  BY <1>3, <1>4, <1>5

-----------------------------------------------------------------------------
(* What the shell and the line do to the stream.                           *)

\* x comes after a: a marker lies in a, or begins in x.
LEMMA MarkersAfterAppend ==
    ASSUME NEW T, NEW a \in Seq(T), NEW x \in Seq(T), NEW d
    PROVE  /\ MarkerAt(a, d) \subseteq MarkerAt(a \o x, d)
           /\ Clean(a \o x, d) => Clean(a, d)
           /\ x # <<>> /\ x[1] # Half(d, 2) /\ MarkerAt(a, d) = {} =>
                 /\ \A i \in MarkerAt(a \o x, d) :
                       i - Len(a) \in DOMAIN x /\ x[i - Len(a)] = Half(d, 1)
                 /\ Pure(x, d) => Clean(a \o x, d)
<1> DEFINE u == a \o x
           la == Len(a)
           lx == Len(x)
           lu == Len(u)
<1>1. /\ lu = la + lx /\ la \in Nat /\ lx \in Nat /\ DOMAIN x = 1 .. lx
      /\ \A i \in 1 .. la + lx : u[i] = IF i <= la THEN a[i] ELSE x[i - la]
  BY ConcatProperties, LenProperties
<1>2. /\ \A i : i \in MarkerAt(u, d)
                <=> i \in 1 .. lu - 1 /\ u[i] = Half(d, 1) /\ u[i + 1] = Half(d, 2)
      /\ \A i : i \in MarkerAt(a, d)
                <=> i \in 1 .. la - 1 /\ a[i] = Half(d, 1) /\ a[i + 1] = Half(d, 2)
  BY DEF MarkerAt
<1> DEFINE After == x # <<>> /\ x[1] # Half(d, 2) /\ MarkerAt(a, d) = {}
<1>3. After => x[1] # Half(d, 2) /\ MarkerAt(a, d) = {}
  OBVIOUS
<1>4. /\ Clean(u, d) <=> \A i \in MarkerAt(u, d) : \A j \in i .. lu : ~Foreign(u[j], d)
      /\ Clean(a, d) <=> \A i \in MarkerAt(a, d) : \A j \in i .. la : ~Foreign(a[j], d)
      /\ Pure(x, d) <=> \A j \in 1 .. lx : ~Foreign(x[j], d)
  BY <1>1 DEF Clean, Pure
<1> HIDE DEF u, la, lx, lu, After
<1>5. ASSUME After, NEW i \in MarkerAt(u, d)
      PROVE  i > la /\ i - la \in DOMAIN x /\ x[i - la] = Half(d, 1)
  <2>1. i \in 1 .. (la + lx) - 1 /\ u[i] = Half(d, 1) /\ u[i + 1] = Half(d, 2)
    BY <1>1, <1>2
  <2>2. CASE i < la
    <3>1. la \in Nat /\ i \in 1 .. la - 1 /\ i \in 1 .. la + lx /\ i + 1 \in 1 .. la + lx
      BY <1>1, <2>1, <2>2
    <3>2. i <= la /\ i + 1 <= la
      BY <3>1
    <3>3. u[i] = a[i] /\ u[i + 1] = a[i + 1]
      BY <1>1, <3>1, <3>2
    <3> QED  BY <1>2, <1>3, <1>5, <2>1, <3>1, <3>3
  <2>3. CASE i = la
    <3>1. lx > 0 /\ u[i + 1] = x[1]
      BY <1>1, <2>1, <2>3
    <3> QED  BY <1>3, <1>5, <2>1, <3>1
  <2>4. CASE i > la
    <3>1. i - la \in 1 .. lx /\ u[i] = x[i - la]
      BY <1>1, <2>1, <2>4
    <3> QED  BY <1>1, <2>1, <2>4, <3>1
  <2> QED  BY <1>1, <2>1, <2>2, <2>3, <2>4
<1>6. ASSUME NEW i \in MarkerAt(a, d) PROVE i \in MarkerAt(u, d)
  <2>1. i \in 1 .. la - 1 /\ a[i] = Half(d, 1) /\ a[i + 1] = Half(d, 2)
    BY <1>2
  <2>2. i \in 1 .. lu - 1 /\ u[i] = a[i] /\ u[i + 1] = a[i + 1]
    BY <1>1, <2>1
  <2> QED  BY <1>2, <2>1, <2>2
<1>7. ASSUME Clean(u, d), NEW i \in MarkerAt(a, d), NEW j \in i .. la
      PROVE  ~Foreign(a[j], d)
  <2>1. i \in 1 .. la - 1
    BY <1>2
  <2>2. j \in i .. lu /\ u[j] = a[j]
    BY <1>1, <2>1
  <2> QED  BY <1>4, <1>6, <1>7, <2>2
<1>8. ASSUME After, Pure(x, d), NEW i \in MarkerAt(u, d), NEW j \in i .. lu
      PROVE  ~Foreign(u[j], d)
  <2>1. i > la /\ i \in 1 .. lu - 1
    BY <1>2, <1>5, <1>8
  <2>2. j - la \in 1 .. lx /\ u[j] = x[j - la]
    BY <1>1, <2>1
  <2> QED  BY <1>4, <1>8, <2>2
<1> QED
  BY <1>4, <1>5, <1>6, <1>7, <1>8 DEF u, la, After

\* A kernel message comes between two tokens.
LEMMA PrintkStream ==
    ASSUME NEW a \in Seq(Tokens), NEW b \in Seq(Tokens), NEW d
    PROVE  /\ MarkerAt((a \o <<Printk>>) \o b, d) # {} => MarkerAt(a \o b, d) # {}
           /\ Clean(a \o b, d) => Clean((a \o <<Printk>>) \o b, d)
<1> DEFINE x == <<Printk>>
           p == a \o x
           u == p \o b
           v == a \o b
           la == Len(a)
           lb == Len(b)
           lu == Len(u)
           lv == Len(v)
<1>1. /\ Printk \in Tokens /\ Printk # Half(d, 1) /\ Printk # Half(d, 2)
      /\ ~Foreign(Printk, d)
  BY DEF Tokens, Printk, Half, Foreign
<1>2. x \in Seq(Tokens) /\ Len(x) = 1 /\ x # <<>> /\ x[1] = Printk
  <2> HIDE DEF x
  <2>1. x = <<Printk>>
    BY DEF x
  <2> QED  BY <1>1, <2>1
<1> HIDE DEF x
<1>3. MarkerAt(x, d) = {}
  BY <1>2 DEF MarkerAt
<1>4. \A i \in MarkerAt(u, d) :
         \/ i < la /\ i \in MarkerAt(v, d)
         \/ i > la + 1 /\ i - 1 \in MarkerAt(v, d)
  BY <1>1, <1>2, <1>3, MarkersAfterInsert
<1>5. /\ p \in Seq(Tokens) /\ Len(p) = la + 1
      /\ \A i \in 1 .. la + 1 : p[i] = IF i <= la THEN a[i] ELSE x[i - la]
  <2>1. /\ p \in Seq(Tokens) /\ Len(p) = la + Len(x)
        /\ \A i \in 1 .. la + Len(x) : p[i] = IF i <= la THEN a[i] ELSE x[i - la]
    BY <1>2, ConcatProperties
  <2> QED  BY <1>2, <2>1
<1>6. /\ lu = Len(p) + lb
      /\ \A i \in 1 .. Len(p) + lb : u[i] = IF i <= Len(p) THEN p[i] ELSE b[i - Len(p)]
  <2>1. /\ Len(p \o b) = Len(p) + Len(b)
        /\ \A i \in 1 .. Len(p) + Len(b) :
              (p \o b)[i] = IF i <= Len(p) THEN p[i] ELSE b[i - Len(p)]
    <3>1. p \in Seq(Tokens)
      BY <1>5
    <3> HIDE DEF p
    <3> QED  BY <3>1, ConcatProperties
  <2> HIDE DEF p
  <2> QED  BY <2>1
<1>7. /\ lv = la + lb /\ la \in Nat /\ lb \in Nat
      /\ \A i \in 1 .. la + lb : v[i] = IF i <= la THEN a[i] ELSE b[i - la]
  BY ConcatProperties, LenProperties
<1>8. /\ Clean(u, d) <=> \A i \in MarkerAt(u, d) : \A j \in i .. lu : ~Foreign(u[j], d)
      /\ Clean(v, d) <=> \A i \in MarkerAt(v, d) : \A j \in i .. lv : ~Foreign(v[j], d)
      /\ \A i \in MarkerAt(u, d) : i \in 1 .. lu - 1
  BY DEF Clean, MarkerAt
<1> HIDE DEF p, u, v, la, lb, lu, lv
<1>9. /\ lu = (la + 1) + lb
      /\ \A j \in 1 .. la : u[j] = v[j]
      /\ u[la + 1] = Printk
      /\ \A j \in (la + 1) + 1 .. lu : u[j] = v[j - 1]
  <2>1. lu = (la + 1) + lb
    BY <1>5, <1>6
  <2>2. ASSUME NEW j \in 1 .. la PROVE u[j] = v[j]
    BY <1>5, <1>6, <1>7
  <2>3. u[la + 1] = Printk
    <3>1. u[la + 1] = p[la + 1] /\ p[la + 1] = x[(la + 1) - la]
      BY <1>5, <1>6, <1>7
    <3>2. (la + 1) - la = 1
      BY <1>7
    <3> QED  BY <1>2, <3>1, <3>2
  <2>4. ASSUME NEW j \in (la + 1) + 1 .. lu PROVE u[j] = v[j - 1]
    <3>1. u[j] = b[j - (la + 1)]
      BY <1>5, <1>6, <1>7, <2>1
    <3>2. v[j - 1] = b[(j - 1) - la]
      BY <1>7, <2>1
    <3>3. j - (la + 1) = (j - 1) - la
      BY <1>7
    <3> QED  BY <3>1, <3>2, <3>3
  <2> QED  BY <2>1, <2>2, <2>3, <2>4
<1>10. ASSUME Clean(v, d), NEW i \in MarkerAt(u, d), NEW j \in i .. lu
       PROVE  ~Foreign(u[j], d)
  <2>0. i \in 1 .. lu - 1
    BY <1>8
  <2>1. CASE j = la + 1
    BY <1>1, <1>9, <2>1
  <2>2. CASE j <= la
    <3>1. j \in 1 .. la /\ j \in i .. lv /\ i < la + 1
      BY <1>7, <2>0, <2>2
    <3>2. i \in MarkerAt(v, d)
      <4>1. ~(i > la + 1)
        BY <1>7, <2>0, <3>1
      <4> QED  BY <1>4, <4>1
    <3> QED  BY <1>8, <1>9, <1>10, <3>1, <3>2
  <2>3. CASE j > la + 1
    <3>1. u[j] = v[j - 1]
      BY <1>7, <1>9, <2>0, <2>3
    <3>2. CASE i < la /\ i \in MarkerAt(v, d)
      <4>1. j - 1 \in i .. lv
        BY <1>7, <1>9, <2>0, <2>3, <3>2
      <4> QED  BY <1>8, <1>10, <3>1, <3>2, <4>1
    <3>3. CASE i - 1 \in MarkerAt(v, d)
      <4>1. j - 1 \in i - 1 .. lv
        BY <1>7, <1>9, <2>0, <2>3
      <4> QED  BY <1>8, <1>10, <3>1, <3>3, <4>1
    <3> QED  BY <1>4, <3>2, <3>3
  <2> QED  BY <1>7, <2>0, <2>1, <2>2, <2>3
<1> QED
  BY <1>4, <1>8, <1>10 DEF u, v, p, x

\* Some tokens are garbled.
LEMMA GarbledStream ==
    ASSUME NEW s \in Seq(Tokens), NEW u \in Seq(Tokens), Len(u) = Len(s),
           \A i \in 1 .. Len(s) : u[i] \in {s[i], Garbled}, NEW d
    PROVE  /\ Pure(s, d) => Pure(u, d)
           /\ Unseen(s, d) => Unseen(u, d)
           /\ MarkerAt(u, d) \subseteq MarkerAt(s, d)
           /\ Clean(s, d) => Clean(u, d)
<1>1. Garbled # Half(d, 1) /\ Garbled # Half(d, 2) /\ ~Foreign(Garbled, d)
  BY DEF Garbled, Half, Foreign
<1>2. Len(s) \in Nat /\ DOMAIN s = 1 .. Len(s) /\ DOMAIN u = 1 .. Len(s)
  BY LenProperties
<1>3. Pure(s, d) => Pure(u, d)
  BY <1>1, <1>2 DEF Pure
<1>4. Unseen(s, d) => Unseen(u, d)
  BY <1>1, <1>2 DEF Unseen
<1>5. ASSUME NEW i \in MarkerAt(u, d) PROVE i \in MarkerAt(s, d)
  <2>1. i \in 1 .. Len(s) - 1 /\ u[i] = Half(d, 1) /\ u[i + 1] = Half(d, 2)
    BY DEF MarkerAt
  <2>2. i \in 1 .. Len(s) /\ i + 1 \in 1 .. Len(s)
    BY <1>2, <2>1
  <2>3. s[i] = Half(d, 1) /\ s[i + 1] = Half(d, 2)
    BY <1>1, <2>1, <2>2
  <2> QED  BY <2>1, <2>3 DEF MarkerAt
<1>6. ASSUME Clean(s, d), NEW i \in MarkerAt(u, d), NEW j \in i .. Len(u)
      PROVE  ~Foreign(u[j], d)
  <2>1. i \in 1 .. Len(s) - 1
    BY DEF MarkerAt
  <2>2. j \in i .. Len(s) /\ j \in 1 .. Len(s)
    BY <1>2, <2>1
  <2> QED  BY <1>1, <1>5, <1>6, <2>2 DEF Clean
<1> QED
  BY <1>3, <1>4, <1>5, <1>6 DEF Clean

\* A garbled token in the middle of a stream.
LEMMA GarbledInside ==
    ASSUME NEW a \in Seq(Tokens), NEW s \in Seq(Tokens), NEW b \in Seq(Tokens),
           NEW n \in DOMAIN s
    PROVE  LET u == [s EXCEPT ![n] = Garbled] IN
           /\ u \in Seq(Tokens)
           /\ Len(u \o b) = Len(s \o b)
           /\ \A i \in 1 .. Len(s \o b) : (u \o b)[i] \in {(s \o b)[i], Garbled}
<1> DEFINE u == [s EXCEPT ![n] = Garbled]
           ls == Len(s)
           lb == Len(b)
<1>1. Garbled \in Tokens
  BY DEF Tokens
<1>2. /\ u \in Seq(Tokens) /\ Len(u) = ls /\ ls \in Nat /\ lb \in Nat
      /\ \A i \in 1 .. ls : u[i] \in {s[i], Garbled}
  BY <1>1
<1> HIDE DEF u
<1>3. /\ Len(u \o b) = ls + lb
      /\ \A i \in 1 .. ls + lb : (u \o b)[i] = IF i <= ls THEN u[i] ELSE b[i - ls]
  <2>1. \A x, y \in Seq(Tokens) :
           /\ Len(x \o y) = Len(x) + Len(y)
           /\ \A i \in 1 .. Len(x) + Len(y) :
                 (x \o y)[i] = IF i <= Len(x) THEN x[i] ELSE y[i - Len(x)]
    BY ConcatProperties
  <2>2. /\ Len(u \o b) = Len(u) + Len(b)
        /\ \A i \in 1 .. Len(u) + Len(b) :
              (u \o b)[i] = IF i <= Len(u) THEN u[i] ELSE b[i - Len(u)]
    BY <1>2, <2>1
  <2> QED  BY <1>2, <2>2
<1>4. /\ Len(s \o b) = ls + lb
      /\ \A i \in 1 .. ls + lb : (s \o b)[i] = IF i <= ls THEN s[i] ELSE b[i - ls]
  BY ConcatProperties
<1> DEFINE x == u \o b
           y == s \o b
           ly == Len(s \o b)
<1>5. ly = ls + lb /\ \A i \in 1 .. ls + lb : x[i] = IF i <= ls THEN u[i] ELSE b[i - ls]
  BY <1>3, <1>4
<1>6. \A i \in 1 .. ls + lb : y[i] = IF i <= ls THEN s[i] ELSE b[i - ls]
  BY <1>4
<1> HIDE DEF x, y, ly, ls, lb
<1>7. \A i \in 1 .. ly : x[i] \in {y[i], Garbled}
  BY <1>2, <1>5, <1>6
<1> QED
  BY <1>2, <1>3, <1>4, <1>7 DEF x, y, ly, u

\* The tokens of one line: what the terminal echoes, and what the shell prints.
Printed(c) ==
    Marker(c) \o [i \in 1 .. OutTokens |-> Out(c, i)] \o <<Exit(c)>> \o Marker(c)

\* Both are tokens of the command of the line; the echo, in which a quote splits
\* the marker, holds no whole one.
LEMMA LineTokens ==
    ASSUME NEW c \in Commands
    PROVE  /\ SentLine(c) \in Seq(Tokens) /\ Printed(c) \in Seq(Tokens)
           /\ Len(SentLine(c)) = 3
           /\ \A d : /\ d # c => Unseen(SentLine(c), d) /\ Unseen(Printed(c), d)
                     /\ SentLine(c)[1] # Half(d, 2) /\ SentLine(c)[3] # Half(d, 1)
                     /\ MarkerAt(SentLine(c), d) = {}
           /\ Pure(Printed(c), c)
           /\ Printed(c) # <<>> /\ \A d : Printed(c)[1] # Half(d, 2)
<1> DEFINE X == {Half(c, 1), Half(c, 2), Exit(c)} \cup {Out(c, i) : i \in 1 .. OutTokens}
           m == Marker(c)
           o == [i \in 1 .. OutTokens |-> Out(c, i)]
           e == <<Exit(c)>>
           l == SentLine(c)
<1>1. m \in Seq(X) /\ e \in Seq(X) /\ Len(m) = 2 /\ m[1] = Half(c, 1)
  BY DEF Marker
<1>2. o \in Seq(X)
  BY SessionAssumption
<1>3. \A t \in X : ~Foreign(t, c) /\ \A d : d # c => t # Half(d, 1)
  BY DEF Foreign, Half, Out, Exit
<1>4. X \subseteq Tokens
  BY DEF Tokens
<1> HIDE DEF X, m, o, e
<1>5. m \o o \in Seq(X) /\ (m \o o) \o e \in Seq(X) /\ ((m \o o) \o e) \o m \in Seq(X)
  BY <1>1, <1>2, ConcatProperties
<1> DEFINE r == ((m \o o) \o e) \o m
<1>6. Printed(c) = r
  BY DEF Printed, m, o, e
<1>7. r[1] = Half(c, 1) /\ r # <<>>
  <2>1. \A x, y \in Seq(X) : Len(x) >= 2 => (x \o y)[1] = x[1] /\ Len(x \o y) >= 2
    <3> SUFFICES ASSUME NEW x \in Seq(X), NEW y \in Seq(X), Len(x) >= 2
                 PROVE  (x \o y)[1] = x[1] /\ Len(x \o y) >= 2
      OBVIOUS
    <3>1. /\ Len(x) \in Nat /\ Len(y) \in Nat /\ Len(x \o y) = Len(x) + Len(y)
          /\ \A i \in 1 .. Len(x) + Len(y) :
                (x \o y)[i] = IF i <= Len(x) THEN x[i] ELSE y[i - Len(x)]
      BY ConcatProperties, LenProperties
    <3> QED  BY <3>1
  <2> DEFINE mo == m \o o
             moe == mo \o e
  <2>4. mo \in Seq(X) /\ moe \in Seq(X) /\ r = moe \o m
    BY <1>5
  <2>5. mo[1] = m[1] /\ Len(mo) >= 2
    <3>1. m \in Seq(X) /\ o \in Seq(X) /\ Len(m) >= 2
      BY <1>1, <1>2
    <3>2. (m \o o)[1] = m[1] /\ Len(m \o o) >= 2
      BY <2>1, <3>1, Zenon
    <3> QED  BY <3>2
  <2> HIDE DEF mo
  <2>6. moe[1] = mo[1] /\ Len(moe) >= 2
    BY <1>1, <2>1, <2>4, <2>5
  <2> HIDE DEF moe, r
  <2>7. (moe \o m)[1] = moe[1] /\ Len(moe \o m) >= 2
    BY <1>1, <2>1, <2>4, <2>6
  <2>2. r[1] = m[1] /\ Len(r) >= 2
    BY <2>4, <2>5, <2>6, <2>7
  <2>3. r # <<>>
    BY <2>2
  <2> QED  BY <1>1, <2>2, <2>3
<1> HIDE DEF r
<1>8. r \in Seq(Tokens) /\ \A i \in DOMAIN r : r[i] \in X
  <2>1. r \in Seq(X)
    BY <1>5 DEF r
  <2>2. r \in Seq(Tokens)
    BY <1>4, <2>1, SeqMonotonic
  <2> QED  BY <2>1, <2>2, ElementOfSeq
<1>9. Pure(r, c) /\ \A d : d # c => Unseen(r, d)
  BY <1>3, <1>8 DEF Pure, Unseen
<1>10. /\ l \in Seq(Tokens) /\ Len(l) = 3 /\ DOMAIN l = 1 .. 3
       /\ l[1] = Half(c, 1) /\ l[2] = Quote /\ l[3] = Half(c, 2)
  <2>1. l = <<Half(c, 1), Quote, Half(c, 2)>>
    BY DEF SentLine
  <2>2. l \in Seq(Tokens)
    BY LinesAreTokens
  <2> HIDE DEF l
  <2> QED  BY <2>1, <2>2
<1> HIDE DEF l
<1>11. ASSUME NEW d
       PROVE  /\ d # c => Unseen(l, d)
              /\ l[1] # Half(d, 2) /\ l[3] # Half(d, 1)
              /\ MarkerAt(l, d) = {} /\ Half(c, 1) # Half(d, 2)
  <2>1. /\ Half(c, 1) # Half(d, 2) /\ Half(c, 2) # Half(d, 1)
        /\ Quote # Half(d, 1) /\ Quote # Half(d, 2)
        /\ d # c => Half(c, 1) # Half(d, 1)
    BY DEF Half, Quote
  <2>2. d # c => Unseen(l, d)
    BY <1>10, <2>1 DEF Unseen
  <2>3. MarkerAt(l, d) = {}
    BY <1>10, <2>1 DEF MarkerAt
  <2> QED  BY <1>10, <2>1, <2>2, <2>3
<1> QED
  BY <1>6, <1>7, <1>8, <1>9, <1>10, <1>11 DEF l

-----------------------------------------------------------------------------
(* The steps of the session.                                               *)

\* The scanner and the answers stay; the lines and the stream move.
LEMMA LineMoves ==
    ASSUME NEW q, NEW r, NEW b, NEW u, NEW L, NEW K, NEW M, NEW S,
           Own(q, b, L, M, S),
           r.current = q.current, r.pending = q.pending, r.scan = q.scan,
           r.result = q.result,
           ToSet(r.tx) \cup ToSet(K) \subseteq ToSet(q.tx) \cup ToSet(L),
           \A e \in Unsent(q, S) : Unseen(b, e) => Unseen(u, e),
           q.current # NoCommand => OwnLast(r, K),
           q.current # NoCommand /\ q.current \notin M => OwnStream(r, u, K)
    PROVE  Own(r, u, K, M, S)
<1>1. OwnResults(r, M)
  BY DEF Own, OwnResults
<1>2. Unsent(r, S) = Unsent(q, S)
  BY DEF Unsent
<1>3. OwnUnsent(r, u, K, S)
  <2> SUFFICES ASSUME NEW e \in Unsent(q, S) PROVE Untouched(r, u, K, e)
    BY <1>2 DEF OwnUnsent
  <2>1. Untouched(q, b, L, e)
    BY DEF Own, OwnUnsent
  <2> QED  BY <2>1 DEF Untouched
<1>4. q.current # NoCommand => OwnScan(r)
  BY DEF Own, OwnScan
<1> QED
  BY <1>1, <1>3, <1>4 DEF Own

\* The writer's lines are revoked or one of them is dropped.
LEMMA LinesDropped ==
    ASSUME NEW q, QueueTyped(q), NEW b, NEW L, NEW M, NEW S, Own(q, b, L, M, S),
           NEW tx, tx = <<>> \/ (q.tx # <<>> /\ tx = Tail(q.tx))
    PROVE  Own([q EXCEPT !.tx = tx], b, L, M, S)
<1> DEFINE r == [q EXCEPT !.tx = tx]
<1>1. /\ r.current = q.current /\ r.pending = q.pending /\ r.scan = q.scan
      /\ r.result = q.result /\ r.tx = tx
  BY DEF QueueTyped, QueueType
<1>2. /\ q.tx \in Seq(Commands) /\ DOMAIN q.tx = 1 .. Len(q.tx) /\ Len(q.tx) \in Nat
  BY DEF QueueTyped, QueueType
<1> HIDE DEF r
<1>3. /\ q.tx = <<>> => tx = <<>>
      /\ \A i \in DOMAIN tx : /\ i + 1 \in DOMAIN q.tx /\ tx[i] = q.tx[i + 1]
                              /\ i + 1 = Len(q.tx) => i = Len(tx)
  <2>1. CASE tx = <<>>
    <3>1. DOMAIN <<>> = {}
      OBVIOUS
    <3> QED  BY <2>1, <3>1
  <2>2. CASE q.tx # <<>> /\ tx = Tail(q.tx)
    <3>1. /\ Tail(q.tx) \in Seq(Commands) /\ Len(Tail(q.tx)) = Len(q.tx) - 1
          /\ \A i \in 1 .. Len(Tail(q.tx)) : Tail(q.tx)[i] = q.tx[i + 1]
      BY <1>2, <2>2, HeadTailProperties
    <3>2. /\ tx \in Seq(Commands) /\ Len(tx) = Len(q.tx) - 1 /\ DOMAIN tx = 1 .. Len(tx)
          /\ \A i \in 1 .. Len(tx) : tx[i] = q.tx[i + 1]
      BY <2>2, <3>1
    <3> QED  BY <1>2, <2>2, <3>2
  <2> QED  BY <2>1, <2>2
<1>4. ToSet(tx) \subseteq ToSet(q.tx)
  BY <1>3 DEF ToSet
<1>5. q.current # NoCommand => OwnLast(r, L)
  <2> SUFFICES ASSUME q.current # NoCommand PROVE OwnLast(r, L)
    OBVIOUS
  <2>1. OwnLast(q, L)
    BY DEF Own
  <2> QED  BY <1>1, <1>3, <2>1 DEF OwnLast
<1>6. q.current # NoCommand /\ q.current \notin M => OwnStream(r, b, L)
  <2>1. Idle(q, L) => Idle(r, L)
    BY <1>1, <1>3 DEF Idle
  <2> QED  BY <1>1, <2>1 DEF Own, OwnStream
<1> QED
  BY <1>1, <1>4, <1>5, <1>6, LineMoves DEF r

\* The streams as an opaque set: the prover does not reason about sequences
\* where it only has to rearrange concatenations.
Bytes == Seq(Tokens)

\* Streams can be put together in any order.
LEMMA Streams ==
    \A a, b, c \in Bytes : a \o b \in Bytes /\ (a \o b) \o c = a \o (b \o c)
<1>1. \A a, b \in Bytes : a \o b \in Bytes
  BY ConcatProperties DEF Bytes
<1>2. \A a, b, c \in Bytes : (a \o b) \o c = a \o (b \o c)
  BY ConcatAssociative DEF Bytes
<1> QED
  BY <1>1, <1>2

\* Something inserted in a stream of which a part was read.
LEMMA InsertStream ==
    ASSUME NEW s \in Bytes, NEW h \in Bytes, NEW x \in Bytes, NEW t \in Bytes
    PROVE  /\ s \o h \in Bytes
           /\ s \o (h \o t) = (s \o h) \o t
           /\ s \o ((h \o x) \o t) = ((s \o h) \o x) \o t
<1> DEFINE F(a, b) == a \o b
<1>1. \A a, b, c \in Bytes : F(a, b) \in Bytes /\ F(F(a, b), c) = F(a, F(b, c))
  BY Streams
<1> HIDE DEF F
<1>2. F(h, x) \in Bytes /\ F(s, h) \in Bytes
  BY <1>1
<1>3. /\ F(s, F(h, t)) = F(F(s, h), t)
      /\ F(s, F(F(h, x), t)) = F(F(s, F(h, x)), t)
      /\ F(s, F(h, x)) = F(F(s, h), x)
  BY <1>1, <1>2
<1> QED
  BY <1>2, <1>3 DEF F

\* Something short in which no marker begins or ends completes none.
LEMMA EchoStream ==
    ASSUME NEW s \in Bytes, NEW h \in Bytes, NEW t \in Bytes, NEW x \in Bytes, NEW d,
           x # <<>>, x[1] # Half(d, 2), x[Len(x)] # Half(d, 1), MarkerAt(x, d) = {},
           MarkerAt(s \o (h \o t), d) = {}
    PROVE  MarkerAt(s \o ((h \o x) \o t), d) = {}
<1> DEFINE F(p, q) == p \o q
           a == F(s, h)
<1>1. \A p, q, r, v \in Bytes : /\ F(p, q) \in Bytes
                                /\ F(p, F(q, v)) = F(F(p, q), v)
                                /\ F(p, F(F(q, r), v)) = F(F(F(p, q), r), v)
  BY InsertStream
<1> HIDE DEF F
<1>2. a \in Bytes /\ F(s, F(h, t)) = F(a, t) /\ F(s, F(F(h, x), t)) = F(F(a, x), t)
  BY <1>1
<1> HIDE DEF a
<1>3. \A i \in MarkerAt((a \o x) \o t, d) : MarkerAt(a \o t, d) # {}
  <2>1. \A i \in MarkerAt((a \o x) \o t, d) :
           \/ i < Len(a) /\ i \in MarkerAt(a \o t, d)
           \/ i > Len(a) + Len(x) /\ i - Len(x) \in MarkerAt(a \o t, d)
    BY <1>2, MarkersAfterInsert DEF Bytes
  <2> QED  BY <2>1, Zenon
<1> QED
  BY <1>2, <1>3 DEF F

\* drain_writes puts a line on the wire: its echo holds no whole marker.
LEMMA ReceiveOwn ==
    ASSUME NEW q, QueueTyped(q), NEW h \in Bytes, NEW t \in Bytes,
           NEW L \in Seq(Commands), NEW M, NEW S \in SUBSET Commands,
           Own(q, h \o t, L, M, S), q.tx # <<>>
    PROVE  Own([q EXCEPT !.tx = Tail(q.tx)],
               (h \o SentLine(Head(q.tx))) \o t, Append(L, Head(q.tx)), M, S)
<1> DEFINE c == Head(q.tx)
           tx == Tail(q.tx)
           K == Append(L, c)
           x == SentLine(c)
           r == [q EXCEPT !.tx = tx]
           d == q.current
           u == (h \o x) \o t
           sb == q.scan.search_buf
<1>1. /\ q.tx \in Seq(Commands) /\ DOMAIN q.tx = 1 .. Len(q.tx) /\ Len(q.tx) \in Nat
      /\ Len(q.tx) >= 1 /\ sb \in Bytes
  BY EmptySeq DEF QueueTyped, QueueType, ScanType, Bytes
<1>2. /\ c \in Commands /\ c = q.tx[1] /\ c \in ToSet(q.tx)
      /\ tx \in Seq(Commands) /\ Len(tx) = Len(q.tx) - 1 /\ DOMAIN tx = 1 .. Len(tx)
      /\ \A i \in 1 .. Len(tx) : tx[i] = q.tx[i + 1]
  <2>1. c = q.tx[1]
    BY <1>1
  <2>2. c \in ToSet(q.tx) /\ c \in Commands
    <3>1. 1 \in DOMAIN q.tx
      BY <1>1
    <3>2. q.tx[1] \in Commands
      BY <1>1, <3>1, ElementOfSeq
    <3> HIDE DEF c
    <3> QED  BY <2>1, <3>1, <3>2 DEF ToSet
  <2>3. /\ tx \in Seq(Commands) /\ Len(tx) = Len(q.tx) - 1 /\ DOMAIN tx = 1 .. Len(tx)
        /\ \A i \in 1 .. Len(tx) : tx[i] = q.tx[i + 1]
    BY <1>1, HeadTailProperties
  <2> QED  BY <2>1, <2>2, <2>3
<1>3. /\ r.current = d /\ r.pending = q.pending /\ r.scan = q.scan
      /\ r.result = q.result /\ r.tx = tx
  <2> HIDE DEF tx
  <2> QED  BY DEF QueueTyped, QueueType
<1> HIDE DEF r, c, tx, sb
<1>4. /\ x \in Bytes /\ Len(x) = 3 /\ x # <<>>
      /\ \A e : /\ e # c => Unseen(x, e)
                /\ x[1] # Half(e, 2) /\ x[Len(x)] # Half(e, 1) /\ MarkerAt(x, e) = {}
  <2> HIDE DEF K, u
  <2>1. /\ x \in Seq(Tokens) /\ Len(x) = 3
        /\ \A e : /\ e # c => Unseen(x, e)
                  /\ x[1] # Half(e, 2) /\ x[3] # Half(e, 1) /\ MarkerAt(x, e) = {}
    BY <1>2, LineTokens
  <2> HIDE DEF x
  <2>2. Len(x) = 0 <=> x = <<>>
    BY <2>1, EmptySeq
  <2> QED  BY <2>1, <2>2 DEF Bytes
<1> HIDE DEF x
<1>5. ToSet(tx) \cup ToSet(K) \subseteq ToSet(q.tx) \cup ToSet(L)
  <2>1. ToSet(K) = ToSet(L) \cup {c}
    BY <1>2, ToSetAppend
  <2>2. ToSet(tx) \subseteq ToSet(q.tx)
    <3>1. \A i \in DOMAIN tx : i + 1 \in DOMAIN q.tx /\ tx[i] = q.tx[i + 1]
      BY <1>1, <1>2
    <3> QED  BY <3>1 DEF ToSet
  <2> QED  BY <1>2, <2>1, <2>2
<1>6. \A e \in Unsent(q, S) : Unseen(h \o t, e) => Unseen(u, e)
  <2> SUFFICES ASSUME NEW e \in Unsent(q, S), Unseen(h \o t, e) PROVE Unseen(u, e)
    OBVIOUS
  <2>1. e # c
    BY <1>2 DEF Own, OwnUnsent, Untouched
  <2>2. Unseen(h, e) /\ Unseen(t, e) /\ Unseen(x, e)
    BY <1>4, <2>1, PureConcat DEF Bytes
  <2>3. h \o x \in Bytes
    BY <1>4, Streams
  <2>4. Unseen(h \o x, e)
    BY <1>4, <2>2, PureConcat DEF Bytes
  <2> DEFINE hx == h \o x
  <2> HIDE DEF hx
  <2>5. Unseen(hx \o t, e)
    BY <2>2, <2>3, <2>4, PureConcat DEF Bytes, hx
  <2> QED  BY <2>5 DEF hx
<1>7. d # NoCommand => OwnLast(r, K)
  <2> SUFFICES ASSUME d # NoCommand PROVE OwnLast(r, K)
    OBVIOUS
  <2>1. OwnLast(q, L)
    BY DEF Own
  <2>2. /\ Len(K) = Len(L) + 1 /\ Len(L) \in Nat /\ DOMAIN K = 1 .. Len(K)
        /\ DOMAIN L = 1 .. Len(L)
        /\ K[Len(L) + 1] = c /\ \A i \in 1 .. Len(L) : K[i] = L[i]
    BY <1>2
  <2>3. ASSUME NEW i \in DOMAIN tx, tx[i] = d PROVE i = Len(tx)
    <3>1. i + 1 \in DOMAIN q.tx /\ q.tx[i + 1] = d
      BY <1>1, <1>2, <2>3
    <3> QED  BY <1>1, <1>2, <2>1, <3>1 DEF OwnLast
  <2>4. ASSUME NEW i \in DOMAIN K, K[i] = d PROVE i = Len(K) /\ tx = <<>>
    <3>1. CASE i \in 1 .. Len(L)
      <4>1. i \in DOMAIN L /\ L[i] = d
        BY <2>2, <2>4, <3>1
      <4> QED  BY <2>1, <4>1 DEF OwnLast
    <3>2. CASE i = Len(L) + 1
      <4>1. q.tx[1] = d /\ 1 \in DOMAIN q.tx
        BY <1>1, <1>2, <2>2, <2>4, <3>2
      <4>2. Len(q.tx) = 1
        BY <2>1, <4>1 DEF OwnLast
      <4>3. Len(tx) = 0
        BY <1>2, <4>2
      <4>4. tx = <<>>
        BY <1>2, <4>3, EmptySeq
      <4> QED  BY <2>2, <3>2, <4>4
    <3> QED  BY <2>2, <3>1, <3>2
  <2> HIDE DEF K
  <2> QED  BY <1>3, <2>3, <2>4 DEF OwnLast
<1>8. d # NoCommand /\ d \notin M => OwnStream(r, u, K)
  <2> SUFFICES ASSUME d # NoCommand, d \notin M PROVE OwnStream(r, u, K)
    OBVIOUS
  <2>1. OwnStream(q, h \o t, L) /\ ~Idle(q, L)
    BY DEF Own, Idle
  <2>2. ~q.scan.found_begin /\ MarkerAt(sb \o (h \o t), d) = {}
    BY <2>1 DEF OwnStream, sb
  <2>5. MarkerAt(sb \o u, d) = {}
    <3> HIDE DEF u
    <3> QED  BY <1>1, <1>4, <2>2, EchoStream DEF u
  <2> HIDE DEF u, K
  <2> QED  BY <1>3, <2>2, <2>5 DEF OwnStream, Clean, sb
<1> HIDE DEF u, K
<1>9. Own(r, u, K, M, S)
  BY <1>3, <1>5, <1>6, <1>7, <1>8, LineMoves
<1> QED
  BY <1>9 DEF r, u, K, x, c, tx

-----------------------------------------------------------------------------
(* The shell, the line and the read loop.                                  *)

\* A stream falls apart at every position.
LEMMA SplitStream ==
    ASSUME NEW s \in Seq(Tokens), NEW n \in 0 .. Len(s)
    PROVE  /\ SubSeq(s, 1, n) \in Seq(Tokens)
           /\ SubSeq(s, n + 1, Len(s)) \in Seq(Tokens)
           /\ SubSeq(s, 1, n) \o SubSeq(s, n + 1, Len(s)) = s
           /\ s # <<>> => s = <<Head(s)>> \o Tail(s)
<1>1. Len(s) \in Nat /\ n \in Nat /\ n <= Len(s)
  BY LenProperties
<1>2. SubSeq(s, 1, n) \in Seq(Tokens) /\ SubSeq(s, n + 1, Len(s)) \in Seq(Tokens)
  BY <1>1
<1>3. SubSeq(s, 1, Len(s)) = s
  BY SubSeqFull
<1>4. SubSeq(s, 1, n) \o SubSeq(s, n + 1, Len(s)) = SubSeq(s, 1, Len(s))
  <2>1. 1 \in 1 .. Len(s) + 1 /\ n \in 1 - 1 .. Len(s) /\ Len(s) \in n .. Len(s)
    BY <1>1
  <2> QED  BY <2>1, ConcatAdjacentSubSeq
<1>5. ASSUME s # <<>> PROVE s = <<Head(s)>> \o Tail(s)
  <2>1. 1 \in 1 .. Len(s) /\ Len(s) \in 1 .. Len(s)
    BY <1>1, <1>5, EmptySeq
  <2>2. SubSeq(s, 1, Len(s)) = <<s[1]>> \o SubSeq(s, 1 + 1, Len(s))
    BY <2>1, SubSeqRecursiveFirst
  <2>3. Head(s) = s[1] /\ Tail(s) = SubSeq(s, 2, Len(s)) /\ 1 + 1 = 2
    BY <1>5, TailIsSubSeq
  <2> QED  BY <1>3, <2>2, <2>3
<1> QED
  BY <1>2, <1>3, <1>4, <1>5

\* The shell prints one token: the stream as a whole stays.
LEMMA EmitStream ==
    ASSUME NEW h \in Seq(Tokens), NEW t \in Seq(Tokens), t # <<>>
    PROVE  Append(h, Head(t)) \o Tail(t) = h \o t
<1> DEFINE e == <<Head(t)>>
           F(a, b) == a \o b
<1>1. Head(t) \in Tokens /\ Tail(t) \in Bytes
  BY HeadTailProperties DEF Bytes
<1>2. e \in Bytes /\ h \in Bytes
  BY <1>1 DEF Bytes
<1>3. t = F(e, Tail(t)) /\ Append(h, Head(t)) = F(h, e)
  <2>1. 0 \in 0 .. Len(t)
    BY LenProperties
  <2> QED  BY <1>1, <2>1, SplitStream, AppendIsConcat
<1>4. \A a, b, c \in Bytes : F(F(a, b), c) = F(a, F(b, c))
  BY Streams
<1> HIDE DEF F, e
<1>5. F(F(h, e), Tail(t)) = F(h, F(e, Tail(t)))
  BY <1>1, <1>2, <1>4
<1> QED
  BY <1>3, <1>5 DEF F

\* The shell starts a line: only markers of its own command begin in what it
\* is going to print.
LEMMA StartStream ==
    ASSUME NEW s \in Bytes, NEW h \in Bytes, NEW c \in Commands, NEW d,
           MarkerAt(s \o h, d) = {}
    PROVE  /\ Clean(s \o (h \o Printed(c)), d)
           /\ d # c => MarkerAt(s \o (h \o Printed(c)), d) = {}
<1> DEFINE x == Printed(c)
           F(p, q) == p \o q
           a == F(s, h)
<1>1. /\ x \in Seq(Tokens) /\ x # <<>> /\ x[1] # Half(d, 2)
      /\ d = c => Pure(x, d)
      /\ d # c => Unseen(x, d)
  BY LineTokens
<1>2. \A p, q, r \in Bytes : F(p, q) \in Bytes /\ F(F(p, q), r) = F(p, F(q, r))
  BY Streams
<1> HIDE DEF F, x
<1>3. x \in Bytes
  BY <1>1 DEF Bytes
<1>4. a \in Bytes /\ F(s, F(h, x)) = F(a, x)
  BY <1>2, <1>3
<1>5. MarkerAt(a, d) = {}
  BY DEF F
<1> HIDE DEF a
<1>6. /\ \A i \in MarkerAt(a \o x, d) :
            i - Len(a) \in DOMAIN x /\ x[i - Len(a)] = Half(d, 1)
      /\ Pure(x, d) => Clean(a \o x, d)
  <2>1. a \in Seq(Tokens)
    BY <1>4 DEF Bytes
  <2> QED  BY <1>1, <1>5, <2>1, MarkersAfterAppend
<1>7. d # c => MarkerAt(a \o x, d) = {}
  <2> SUFFICES ASSUME d # c, NEW i \in MarkerAt(a \o x, d) PROVE FALSE
    OBVIOUS
  <2>1. i - Len(a) \in DOMAIN x /\ x[i - Len(a)] = Half(d, 1)
    BY <1>6
  <2> QED  BY <1>1, <2>1 DEF Unseen
<1>8. Clean(a \o x, d)
  BY <1>1, <1>6, <1>7 DEF Clean
<1> QED
  BY <1>4, <1>7, <1>8 DEF F, x

\* The DUT reboots: what it had yet to print is not printed.
LEMMA RebootStream ==
    ASSUME NEW s \in Bytes, NEW h \in Bytes, NEW t \in Bytes, NEW d
    PROVE  /\ Clean(s \o (h \o t), d) => Clean(s \o h, d)
           /\ MarkerAt(s \o h, d) \subseteq MarkerAt(s \o (h \o t), d)
<1> DEFINE F(p, q) == p \o q
           a == F(s, h)
<1>1. \A p, q, r \in Bytes : F(p, q) \in Bytes /\ F(F(p, q), r) = F(p, F(q, r))
  BY Streams
<1> HIDE DEF F
<1>2. a \in Bytes /\ F(s, F(h, t)) = F(a, t)
  BY <1>1
<1> HIDE DEF a
<1>3. /\ MarkerAt(a, d) \subseteq MarkerAt(a \o t, d)
      /\ Clean(a \o t, d) => Clean(a, d)
  BY <1>2, MarkersAfterAppend DEF Bytes
<1> QED
  BY <1>2, <1>3 DEF F, a

\* The shell moves: lines and stream change, the queue does not.
LEMMA ShellMoves ==
    ASSUME NEW q, NEW b, NEW u, NEW L, NEW K, NEW M, NEW S, Own(q, b, L, M, S),
           ToSet(K) \subseteq ToSet(L),
           \A e \in Unsent(q, S) : Unseen(b, e) => Unseen(u, e),
           q.current # NoCommand => OwnLast(q, K),
           q.current # NoCommand /\ q.current \notin M => OwnStream(q, u, K)
    PROVE  Own(q, u, K, M, S)
<1>1. ToSet(q.tx) \cup ToSet(K) \subseteq ToSet(q.tx) \cup ToSet(L)
  OBVIOUS
<1> QED
  BY <1>1, LineMoves

\* The shell starts the line it received first.
LEMMA StartOwn ==
    ASSUME NEW q, QueueTyped(q), NEW h \in Bytes, NEW L \in Seq(Commands), L # <<>>,
           NEW M, NEW S, Own(q, h, L, M, S)
    PROVE  Own(q, h \o Printed(Head(L)), Tail(L), M, S)
<1> DEFINE c == Head(L)
           K == Tail(L)
           x == Printed(c)
           u == h \o x
           d == q.current
           n == Len(L)
<1>1. /\ c \in Commands /\ c = L[1] /\ n \in Nat /\ n >= 1 /\ DOMAIN L = 1 .. n
      /\ Len(K) = n - 1 /\ DOMAIN K = 1 .. Len(K) /\ K \in Seq(Commands)
      /\ \A i \in 1 .. Len(K) : K[i] = L[i + 1]
  BY HeadTailProperties, EmptySeq, LenProperties
<1>2. q.scan.search_buf \in Bytes
  BY DEF QueueTyped, QueueType, ScanType, Bytes
<1>3. c \in ToSet(L) /\ ToSet(K) \subseteq ToSet(L)
  <2> HIDE DEF c, K, n
  <2>1. 1 \in DOMAIN L /\ \A i \in DOMAIN K : i + 1 \in DOMAIN L /\ K[i] = L[i + 1]
    BY <1>1
  <2> QED  BY <1>1, <2>1 DEF ToSet
<1> HIDE DEF c, K, n
<1>4. \A e \in Unsent(q, S) : Unseen(h, e) => Unseen(u, e)
  <2> SUFFICES ASSUME NEW e \in Unsent(q, S), Unseen(h, e) PROVE Unseen(u, e)
    OBVIOUS
  <2>1. e # c
    BY <1>3 DEF Own, OwnUnsent, Untouched
  <2>2. x \in Seq(Tokens) /\ Unseen(x, e)
    BY <1>1, <2>1, LineTokens
  <2> HIDE DEF x
  <2> QED  BY <2>2, PureConcat DEF Bytes
<1>5. d # NoCommand => OwnLast(q, K)
  <2> SUFFICES ASSUME d # NoCommand PROVE OwnLast(q, K)
    OBVIOUS
  <2>1. OwnLast(q, L)
    BY DEF Own
  <2>2. ASSUME NEW i \in DOMAIN K, K[i] = d PROVE i = Len(K) /\ q.tx = <<>>
    <3>1. i + 1 \in DOMAIN L /\ L[i + 1] = d
      BY <1>1, <2>2
    <3>2. i + 1 = n /\ q.tx = <<>>
      BY <2>1, <3>1 DEF OwnLast, n
    <3> QED  BY <1>1, <3>2
  <2> QED  BY <2>1, <2>2 DEF OwnLast
<1>6. d # NoCommand /\ d \notin M => OwnStream(q, u, K)
  <2> SUFFICES ASSUME d # NoCommand, d \notin M PROVE OwnStream(q, u, K)
    OBVIOUS
  <2>1. OwnStream(q, h, L) /\ OwnLast(q, L) /\ ~Idle(q, L)
    BY DEF Own, Idle
  <2>2. ~q.scan.found_begin /\ MarkerAt(q.scan.search_buf \o h, d) = {}
    BY <2>1 DEF OwnStream
  <2>3. /\ Clean(q.scan.search_buf \o u, d)
        /\ d # c => MarkerAt(q.scan.search_buf \o u, d) = {}
    BY <1>1, <1>2, <2>2, StartStream
  <2>4. d = c => Idle(q, K)
    <3> SUFFICES ASSUME d = c PROVE Idle(q, K)
      OBVIOUS
    <3>1. 1 \in DOMAIN L /\ L[1] = d
      BY <1>1
    <3>2. 1 = n /\ q.tx = <<>>
      BY <2>1, <3>1 DEF OwnLast, n
    <3>3. Len(K) = 0
      BY <1>1, <3>2
    <3>4. K = <<>>
      BY <1>1, <3>3, EmptySeq
    <3> QED  BY <3>2, <3>4 DEF Idle
  <2> HIDE DEF u
  <2> QED  BY <2>2, <2>3, <2>4 DEF OwnStream
<1> HIDE DEF u
<1>7. Own(q, u, K, M, S)
  BY <1>3, <1>4, <1>5, <1>6, ShellMoves
<1> QED
  BY <1>7 DEF u, x, c, K

\* The DUT reboots.
LEMMA RebootOwn ==
    ASSUME NEW q, QueueTyped(q), NEW h \in Bytes, NEW t \in Bytes, NEW L, NEW M, NEW S,
           Own(q, h \o t, L, M, S)
    PROVE  Own(q, h, <<>>, M, S)
<1> DEFINE d == q.current
           none == <<>>
<1>1. DOMAIN none = {} /\ ToSet(none) \subseteq ToSet(L)
  BY DEF ToSet
<1>2. q.scan.search_buf \in Bytes
  BY DEF QueueTyped, QueueType, ScanType, Bytes
<1>3. \A e : /\ Unseen(h \o t, e) => Unseen(h, e)
             /\ Pure(h \o t, e) => Pure(h, e)
  BY PureConcat DEF Bytes
<1>4. Idle(q, L) => Idle(q, none)
  BY DEF Idle
<1> HIDE DEF none
<1>5. d # NoCommand => OwnLast(q, none)
  BY <1>1 DEF Own, OwnLast
<1>6. d # NoCommand /\ d \notin M => OwnStream(q, h, none)
  <2> SUFFICES ASSUME d # NoCommand, d \notin M PROVE OwnStream(q, h, none)
    OBVIOUS
  <2>1. OwnStream(q, h \o t, L)
    BY DEF Own
  <2>2. /\ Clean(q.scan.search_buf \o (h \o t), d) => Clean(q.scan.search_buf \o h, d)
        /\ MarkerAt(q.scan.search_buf \o h, d)
             \subseteq MarkerAt(q.scan.search_buf \o (h \o t), d)
    BY <1>2, RebootStream
  <2> QED  BY <1>3, <1>4, <2>1, <2>2 DEF OwnStream
<1>7. Own(q, h, none, M, S)
  BY <1>1, <1>3, <1>5, <1>6, ShellMoves
<1> QED
  BY <1>7 DEF none

\* The line garbles a token, or the kernel speaks.
LEMMA DisturbOwn ==
    ASSUME NEW q, QueueTyped(q), NEW b, NEW u, NEW L, NEW M, NEW S, Own(q, b, L, M, S),
           \A d : /\ Pure(b, d) => Pure(u, d)
                  /\ Unseen(b, d) => Unseen(u, d),
           LET s == q.scan.search_buf
           IN  \A d : /\ MarkerAt(s \o u, d) # {} => MarkerAt(s \o b, d) # {}
                      /\ Clean(s \o b, d) => Clean(s \o u, d)
    PROVE  Own(q, u, L, M, S)
<1> DEFINE d == q.current
<1>1. d # NoCommand => OwnLast(q, L)
  BY DEF Own
<1>2. d # NoCommand /\ d \notin M => OwnStream(q, u, L)
  <2> SUFFICES ASSUME d # NoCommand, d \notin M PROVE OwnStream(q, u, L)
    OBVIOUS
  <2>1. OwnStream(q, b, L)
    BY DEF Own
  <2> QED  BY <2>1 DEF OwnStream
<1> QED
  BY <1>1, <1>2, ShellMoves

\* A kernel message keeps the invariant wherever it comes.
LEMMA PrintkOwn ==
    ASSUME NEW q, QueueTyped(q), NEW h \in Bytes, NEW t \in Bytes, NEW L, NEW M, NEW S,
           Own(q, h \o t, L, M, S)
    PROVE  Own(q, Append(h, Printk) \o t, L, M, S)
<1> DEFINE x == <<Printk>>
           u == (h \o x) \o t
           b == h \o t
           s == q.scan.search_buf
           F(p, r) == p \o r
           a == F(s, h)
<1>1. /\ Printk \in Tokens /\ \A d : Printk # Half(d, 1) /\ ~Foreign(Printk, d)
  BY DEF Tokens, Printk, Half, Foreign
<1>2. x \in Bytes /\ Append(h, Printk) = h \o x
  BY <1>1, AppendIsConcat DEF Bytes
<1>3. s \in Bytes
  BY DEF QueueTyped, QueueType, ScanType, Bytes
<1>4. \A d : Pure(x, d) /\ Unseen(x, d)
  <2>1. DOMAIN x = {1} /\ x[1] = Printk
    OBVIOUS
  <2> HIDE DEF x
  <2> QED  BY <1>1, <2>1 DEF Pure, Unseen
<1> HIDE DEF s, x, u, b, a
<1>5. \A p, r, v \in Bytes : F(p, r) \in Bytes /\ F(F(p, r), v) = F(p, F(r, v))
  BY Streams
<1> HIDE DEF F
<1>6. /\ a \in Bytes /\ F(s, F(h, t)) = F(a, t) /\ F(h, x) \in Bytes
      /\ F(s, F(F(h, x), t)) = F(F(a, x), t)
  <2>1. F(s, h) \in Bytes /\ F(h, x) \in Bytes /\ F(s, F(h, t)) = F(F(s, h), t)
    BY <1>2, <1>3, <1>5
  <2>2. F(s, F(F(h, x), t)) = F(F(s, F(h, x)), t)
    BY <1>2, <1>3, <1>5, <2>1
  <2>3. F(s, F(h, x)) = F(F(s, h), x)
    BY <1>2, <1>3, <1>5
  <2> QED  BY <2>1, <2>2, <2>3 DEF a
<1>7. \A d : /\ MarkerAt((a \o <<Printk>>) \o t, d) # {} => MarkerAt(a \o t, d) # {}
             /\ Clean(a \o t, d) => Clean((a \o <<Printk>>) \o t, d)
  BY <1>6, PrintkStream DEF Bytes
<1>8. \A d : /\ MarkerAt(s \o u, d) # {} => MarkerAt(s \o b, d) # {}
             /\ Clean(s \o b, d) => Clean(s \o u, d)
  BY <1>6, <1>7 DEF F, u, b, x
<1>9. \A d : /\ Pure(b, d) => Pure(u, d)
             /\ Unseen(b, d) => Unseen(u, d)
  <2> DEFINE hx == h \o x
  <2>1. hx \in Bytes /\ u = hx \o t
    BY <1>6 DEF F, u
  <2>2. \A d : /\ Pure(h, d) => Pure(hx, d)
               /\ Unseen(h, d) => Unseen(hx, d)
    BY <1>2, <1>4, PureConcat DEF Bytes
  <2> HIDE DEF hx
  <2>3. \A d : /\ Pure(b, d) <=> Pure(h, d) /\ Pure(t, d)
               /\ Unseen(b, d) <=> Unseen(h, d) /\ Unseen(t, d)
    BY PureConcat DEF Bytes, b
  <2>4. \A d : /\ Pure(u, d) <=> Pure(hx, d) /\ Pure(t, d)
               /\ Unseen(u, d) <=> Unseen(hx, d) /\ Unseen(t, d)
    BY <2>1, PureConcat DEF Bytes
  <2> QED  BY <2>2, <2>3, <2>4
<1>10. Own(q, u, L, M, S)
  BY <1>8, <1>9, DisturbOwn DEF s, b
<1> QED
  BY <1>2, <1>10 DEF u

\* More before garbled tokens changes nothing of it.
LEMMA GarbledAfter ==
    ASSUME NEW a \in Seq(Tokens), NEW y \in Seq(Tokens), NEW z \in Seq(Tokens),
           Len(z) = Len(y), \A i \in 1 .. Len(y) : z[i] \in {y[i], Garbled}
    PROVE  /\ Len(a \o z) = Len(a \o y)
           /\ \A i \in 1 .. Len(a \o y) : (a \o z)[i] \in {(a \o y)[i], Garbled}
<1> DEFINE la == Len(a)
           ly == Len(y)
           p == a \o y
           q == a \o z
           lp == Len(p)
           lq == Len(q)
<1>1. la \in Nat /\ ly \in Nat /\ \A i \in 1 .. ly : z[i] \in {y[i], Garbled}
  BY LenProperties
<1>2. lp = la + ly /\ \A i \in 1 .. la + ly : p[i] = IF i <= la THEN a[i] ELSE y[i - la]
  BY ConcatProperties
<1> DEFINE lz == Len(z)
<1>3. lq = la + lz /\ \A i \in 1 .. la + lz : q[i] = IF i <= la THEN a[i] ELSE z[i - la]
  <2> HIDE DEF p
  <2> QED  BY ConcatProperties
<1>5. lz = ly
  OBVIOUS
<1> HIDE DEF p, q, la, ly, lz, lp, lq
<1>4. ASSUME NEW i \in 1 .. lp PROVE q[i] \in {p[i], Garbled}
  <2>1. CASE i <= la
    BY <1>1, <1>2, <1>3, <1>5, <2>1
  <2>2. CASE ~(i <= la)
    <3>1. i - la \in 1 .. ly
      BY <1>1, <1>2, <2>2
    <3>2. z[i - la] \in {y[i - la], Garbled}
      BY <1>1, <3>1
    <3>3. q[i] = z[i - la] /\ p[i] = y[i - la]
      BY <1>1, <1>2, <1>3, <1>5, <2>2
    <3> QED  BY <3>2, <3>3
  <2> QED  BY <2>1, <2>2
<1> QED
  BY <1>2, <1>3, <1>4, <1>5 DEF p, q, lp, lq

\* So does a garbled token.
LEMMA GarbledOwn ==
    ASSUME NEW q, QueueTyped(q), NEW h \in Bytes, NEW t \in Bytes, NEW n \in DOMAIN h,
           NEW L, NEW M, NEW S, Own(q, h \o t, L, M, S)
    PROVE  Own(q, [h EXCEPT ![n] = Garbled] \o t, L, M, S)
<1> DEFINE g == [h EXCEPT ![n] = Garbled]
           u == g \o t
           b == h \o t
           s == q.scan.search_buf
<1>1. s \in Seq(Tokens)
  BY DEF QueueTyped, QueueType, ScanType
<1> HIDE DEF s
<1>2. /\ g \in Seq(Tokens) /\ Len(g \o t) = Len(h \o t)
      /\ \A i \in 1 .. Len(h \o t) : (g \o t)[i] \in {(h \o t)[i], Garbled}
  BY GarbledInside DEF Bytes
<1> HIDE DEF g
<1>3. /\ b \in Bytes /\ u \in Bytes
  BY <1>2, Streams DEF Bytes
<1> HIDE DEF u, b
<1>4. Len(u) = Len(b) /\ \A i \in 1 .. Len(b) : u[i] \in {b[i], Garbled}
  BY <1>2 DEF u, b
<1>5. /\ s \o b \in Bytes /\ s \o u \in Bytes
  BY <1>1, <1>3, Streams DEF Bytes
<1>6. /\ Len(s \o u) = Len(s \o b)
      /\ \A i \in 1 .. Len(s \o b) : (s \o u)[i] \in {(s \o b)[i], Garbled}
  BY <1>1, <1>3, <1>4, GarbledAfter DEF Bytes
<1>7. \A d : /\ Pure(b, d) => Pure(u, d)
             /\ Unseen(b, d) => Unseen(u, d)
  BY <1>3, <1>4, GarbledStream DEF Bytes
<1>8. \A d : /\ MarkerAt(s \o u, d) # {} => MarkerAt(s \o b, d) # {}
             /\ Clean(s \o b, d) => Clean(s \o u, d)
  <2> DEFINE y == s \o b
             z == s \o u
  <2>1. y \in Seq(Tokens) /\ z \in Seq(Tokens)
    BY <1>5 DEF Bytes
  <2>2. Len(z) = Len(y) /\ \A i \in 1 .. Len(y) : z[i] \in {y[i], Garbled}
    BY <1>6
  <2> HIDE DEF y, z
  <2>3. \A d : MarkerAt(z, d) \subseteq MarkerAt(y, d) /\ (Clean(y, d) => Clean(z, d))
    BY <2>1, <2>2, GarbledStream
  <2> QED  BY <2>3 DEF y, z
<1>9. Own(q, u, L, M, S)
  BY <1>7, <1>8, DisturbOwn DEF s, b
<1> QED
  BY <1>9 DEF u, g

\* A human session consumes a token.
LEMMA RelayOwn ==
    ASSUME NEW q, NEW h \in Bytes, h # <<>>, NEW t \in Bytes, NEW L, NEW M, NEW S,
           Own(q, h \o t, L, M, S)
    PROVE  Own(q, Tail(h) \o t, L, M \cup ({q.current} \ {NoCommand}), S)
<1> DEFINE N == M \cup ({q.current} \ {NoCommand})
           u == Tail(h) \o t
<1>1. OwnResults(q, N)
  BY DEF Own, OwnResults
<1>2. \A e : Unseen(h \o t, e) => Unseen(u, e)
  <2> SUFFICES ASSUME NEW e, Unseen(h \o t, e) PROVE Unseen(u, e)
    OBVIOUS
  <2>1. Unseen(h, e) /\ Unseen(t, e)
    BY PureConcat DEF Bytes
  <2> DEFINE k == Tail(h)
  <2>2. k \in Seq(Tokens) /\ k = SubSeq(h, 1 + 1, Len(h)) /\ 1 <= Len(h)
    BY HeadTailProperties, TailIsSubSeq, EmptySeq DEF Bytes
  <2>3. Unseen(SubSeq(h, 1 + 1, Len(h)), e)
    <3>1. h \in Seq(Tokens) /\ 1 \in Nat
      BY DEF Bytes
    <3> HIDE DEF k
    <3> QED  BY <2>1, <2>2, <3>1, PureSuffix
  <2>4. Unseen(k, e)
    BY <2>2, <2>3
  <2> HIDE DEF k
  <2>5. Unseen(k \o t, e)
    <3>1. k \in Bytes
      BY <2>2 DEF Bytes
    <3> QED  BY <2>1, <2>4, <3>1, PureConcat DEF Bytes
  <2> QED  BY <2>5 DEF k
<1> HIDE DEF u
<1>3. OwnUnsent(q, u, L, S)
  BY <1>2 DEF Own, OwnUnsent, Untouched
<1>4. q.current # NoCommand => OwnLast(q, L) /\ OwnScan(q) /\ q.current \in N
  BY DEF Own
<1> HIDE DEF N
<1>5. Own(q, u, L, N, S)
  BY <1>1, <1>3, <1>4 DEF Own
<1> QED
  BY <1>5 DEF u, N

\* latch_endpoint_fault.
LEMMA CancelOwn ==
    ASSUME NEW q, QueueTyped(q), NEW b, NEW L, NEW M, NEW S, Own(q, b, L, M, S)
    PROVE  Own([CancelAll(q) EXCEPT !.tx = <<>>], b, L, M, S)
<1> DEFINE res == [c \in Commands |->
                     IF c = q.current \/ c \in ToSet(q.pending)
                     THEN Closed ELSE q.result[c]]
           none == <<>>
           p == [q EXCEPT !.pending = none, !.current = NoCommand, !.result = res]
           r == [p EXCEPT !.tx = none]
<1>1. CancelAll(q) = p
  BY DEF CancelAll
<1> HIDE DEF res, none
<1>2. /\ r.current = NoCommand /\ r.pending = none /\ r.scan = q.scan
      /\ r.result = res /\ r.tx = none
  BY DEF QueueTyped, QueueType
<1> HIDE DEF p, r
<1>3. \A c \in Commands : res[c] \in {Closed, q.result[c]}
  BY DEF res
<1>4. \A c : Pure(Closed.out, c)
  BY DEF Closed, Pure
<1>5. OwnResults(r, M)
  BY <1>2, <1>3, <1>4 DEF Own, OwnResults
<1>6. ToSet(none) = {}
  BY DEF none, ToSet
<1>7. OwnUnsent(r, b, L, S)
  <2> SUFFICES ASSUME NEW c \in Unsent(r, S) PROVE Untouched(r, b, L, c)
    BY DEF OwnUnsent
  <2>1. c \in Unsent(q, S)
    BY <1>2, <1>6 DEF Unsent
  <2>2. Untouched(q, b, L, c)
    BY <2>1 DEF Own, OwnUnsent
  <2> QED  BY <1>2, <1>6, <2>2 DEF Untouched
<1>8. Own(r, b, L, M, S)
  BY <1>2, <1>5, <1>7 DEF Own
<1> QED
  BY <1>1, <1>8 DEF r, none

\* The write function is installed.
LEMMA WriterOwn ==
    ASSUME NEW q, QueueTyped(q), NEW b, NEW L, NEW M, NEW S, Own(q, b, L, M, S)
    PROVE  Own([q EXCEPT !.write_fn = TRUE], b, L, M, S)
<1> DEFINE r == [q EXCEPT !.write_fn = TRUE]
<1>1. /\ r.current = q.current /\ r.pending = q.pending /\ r.scan = q.scan
      /\ r.result = q.result /\ r.tx = q.tx
  BY DEF QueueTyped, QueueType
<1> HIDE DEF r
<1>2. q.current # NoCommand => OwnLast(r, L)
  BY <1>1 DEF Own, OwnLast
<1>3. q.current # NoCommand /\ q.current \notin M => OwnStream(r, b, L)
  BY <1>1 DEF Own, OwnStream, Idle
<1>4. Own(r, b, L, M, S)
  BY <1>1, <1>2, <1>3, LineMoves
<1> QED
  BY <1>4 DEF r

\* The read loop takes a chunk off the wire and feeds it.
LEMMA ReadOwn ==
    ASSUME NEW q, NEW S \in SUBSET Commands, Slots(q, S), Moving(q), QueueTyped(q),
           NEW h \in Bytes, NEW t \in Bytes, NEW n \in 0 .. Len(h),
           NEW L \in Seq(Commands), NEW M, NEW writes \in BOOLEAN,
           Own(q, h \o t, L, M, S)
    PROVE  Own(Feed(q, SubSeq(h, 1, n), writes), SubSeq(h, n + 1, Len(h)) \o t, L, M, S)
<1> DEFINE data == SubSeq(h, 1, n)
           rest == SubSeq(h, n + 1, Len(h))
           F(a, b) == a \o b
           b == F(rest, t)
<1>1. data \in Bytes /\ rest \in Bytes /\ F(data, rest) = h
  BY SplitStream DEF Bytes
<1>2. \A p, r, v \in Bytes : F(p, r) \in Bytes /\ F(F(p, r), v) = F(p, F(r, v))
  BY Streams
<1> HIDE DEF F, data, rest
<1>3. b \in Bytes /\ F(h, t) = F(data, b)
  BY <1>1, <1>2
<1> HIDE DEF b
<1>4. Own(q, data \o b, L, M, S)
  BY <1>3 DEF F
<1>5. data \in Seq(Tokens) /\ b \in Seq(Tokens)
  BY <1>1, <1>3 DEF Bytes
<1>6. Own(Feed(q, data, writes), b, L, M, S)
  BY <1>4, <1>5, FeedOwn
<1> QED
  BY <1>6 DEF b, F, data, rest

\* Every step keeps the invariant of the stream.
LEMMA OwnNext ==
    ASSUME TypeOK, SessionInv, OwnInv, [Next]_vars
    PROVE  OwnInv'
<1> DEFINE S == ToSet(submitted)
           b == wire \o todo
           Goal == Own(queue', wire' \o todo', lines', missed', ToSet(submitted'))
<1>0. /\ QueueTyped(queue) /\ Slots(queue, S) /\ Moving(queue) /\ S \in SUBSET Commands
      /\ wire \in Bytes /\ todo \in Bytes /\ lines \in Seq(Commands)
      /\ submitted \in Seq(Commands)
  BY TypeOKIs DEF LineTyped, SessionInv, ToSet, Bytes
<1>a. b \in Seq(Tokens) /\ Own(queue, b, lines, missed, S)
  BY <1>0, Streams DEF OwnInv, Bytes
<1> SUFFICES Goal
  BY DEF OwnInv
<1> HIDE DEF b
<1>b. ASSUME UNCHANGED <<queue, wire, todo, lines, missed, submitted>> PROVE Goal
  BY <1>a, <1>b DEF b
<1>1. ASSUME NEW c \in Commands, Execute(c) PROVE Goal
  <2>1. c \in Commands \ S /\ queue' = Submit(queue, c)
    BY <1>1 DEF Execute, Submitted
  <2>2. UNCHANGED <<wire, todo, lines, missed>> /\ submitted' = Append(submitted, c)
    BY <1>1 DEF Execute, dutvars
  <2>3. ToSet(submitted') = S \cup {c}
    BY <1>0, <2>2, ToSetAppend
  <2> HIDE DEF S
  <2>4. Own(Submit(queue, c), b, lines, missed, S \cup {c})
    BY <1>0, <1>a, <2>1, SubmitOwn
  <2> QED
    BY <2>1, <2>2, <2>3, <2>4 DEF b
<1>2. ASSUME NEW c \in Commands, Admit(c) \/ CallerDrops(c) \/ CallerTimesOut(c)
      PROVE  Goal
  BY <1>2, <1>b DEF Admit, CallerDrops, CallerTimesOut, qvars, hostvars, dutvars
<1>3. CASE SetWriteFn
  <2>1. /\ queue' = [queue EXCEPT !.write_fn = TRUE]
        /\ UNCHANGED <<wire, todo, lines, missed, submitted>>
    BY <1>3 DEF SetWriteFn, hostvars, dutvars
  <2>2. Own([queue EXCEPT !.write_fn = TRUE], b, lines, missed, S)
    BY <1>0, <1>a, WriterOwn
  <2> QED
    BY <2>1, <2>2 DEF b
<1>4. CASE CheckTimeouts
  <2>1. /\ queue' = ExpireCurrent(queue)
        /\ UNCHANGED <<wire, todo, lines, missed, submitted>>
    BY <1>4 DEF CheckTimeouts, hostvars, dutvars
  <2>2. Own(ExpireCurrent(queue), b, lines, missed, S)
    <3> HIDE DEF S
    <3> QED  BY <1>0, <1>a, ExpireOwn
  <2> QED
    BY <2>1, <2>2 DEF b
<1>5. CASE Read
  <2>1. PICK n \in 1 .. MaxChunk, writes \in BOOLEAN :
               /\ n <= Len(wire)
               /\ queue' = Feed(queue, SubSeq(wire, 1, n), writes)
               /\ wire' = SubSeq(wire, n + 1, Len(wire))
    BY <1>5 DEF Read
  <2>2. UNCHANGED <<todo, lines, missed, submitted>>
    BY <1>5 DEF Read, hostvars
  <2>3. n \in 0 .. Len(wire)
    BY <1>0, <2>1, SessionAssumption DEF Bytes
  <2>4. Own(Feed(queue, SubSeq(wire, 1, n), writes),
            SubSeq(wire, n + 1, Len(wire)) \o todo, lines, missed, S)
    <3> HIDE DEF S
    <3> QED  BY <1>0, <1>a, <2>3, ReadOwn DEF b
  <2> QED
    BY <2>1, <2>2, <2>4
<1>6. CASE Relay
  <2>1. /\ wire # <<>> /\ wire' = Tail(wire)
        /\ missed' = missed \cup ({queue.current} \ {NoCommand})
        /\ UNCHANGED <<queue, todo, lines, submitted>>
    BY <1>6 DEF Relay, qvars
  <2>2. Own(queue, Tail(wire) \o todo, lines,
            missed \cup ({queue.current} \ {NoCommand}), S)
    BY <1>0, <1>a, <2>1, RelayOwn DEF b
  <2> QED
    BY <2>1, <2>2
<1>7. CASE TakeOver \/ HandBack \/ Tick
  BY <1>7, <1>b DEF TakeOver, HandBack, Tick, qvars, hostvars, dutvars
<1>8. CASE LoseEndpoint
  <2>1. /\ queue' = [CancelAll(queue) EXCEPT !.tx = <<>>]
        /\ UNCHANGED <<wire, todo, lines, missed, submitted>>
    BY <1>8 DEF LoseEndpoint, dutvars
  <2>2. Own([CancelAll(queue) EXCEPT !.tx = <<>>], b, lines, missed, S)
    BY <1>0, <1>a, CancelOwn
  <2> QED
    BY <2>1, <2>2 DEF b
<1>9. CASE Reclaim \/ LoseLine
  <2>1. PICK tx : /\ tx = <<>> \/ (queue.tx # <<>> /\ tx = Tail(queue.tx))
                  /\ queue' = [queue EXCEPT !.tx = tx]
    BY <1>9 DEF Reclaim, LoseLine
  <2>2. UNCHANGED <<wire, todo, lines, missed, submitted>>
    BY <1>9 DEF Reclaim, LoseLine, dutvars
  <2>3. Own([queue EXCEPT !.tx = tx], b, lines, missed, S)
    BY <1>0, <1>a, <2>1, LinesDropped
  <2> QED
    BY <2>1, <2>2, <2>3 DEF b
<1>10. CASE ReceiveLine
  <2>1. /\ queue.tx # <<>> /\ queue' = [queue EXCEPT !.tx = Tail(queue.tx)]
        /\ wire' = wire \o SentLine(Head(queue.tx))
        /\ lines' = Append(lines, Head(queue.tx))
        /\ UNCHANGED <<todo, missed, submitted>>
    BY <1>10 DEF ReceiveLine, hostvars
  <2>2. Own([queue EXCEPT !.tx = Tail(queue.tx)],
            (wire \o SentLine(Head(queue.tx))) \o todo,
            Append(lines, Head(queue.tx)), missed, S)
    <3> HIDE DEF S
    <3> QED  BY <1>0, <1>a, <2>1, ReceiveOwn DEF b
  <2> QED
    BY <2>1, <2>2
<1>11. CASE StartLine
  <2>1. /\ todo = <<>> /\ lines # <<>> /\ todo' = Printed(Head(lines))
        /\ lines' = Tail(lines)
        /\ UNCHANGED <<queue, wire, missed, submitted>>
    BY <1>11 DEF StartLine, Printed, qvars, hostvars
  <2>2. b = wire
    BY <1>0, <2>1, ConcatEmptySeq DEF b, Bytes
  <2>3. Own(queue, wire \o Printed(Head(lines)), Tail(lines), missed, S)
    <3> HIDE DEF S
    <3> QED  BY <1>0, <1>a, <2>1, <2>2, StartOwn
  <2> QED
    BY <2>1, <2>3
<1>12. CASE Emit
  <2>1. /\ todo # <<>> /\ wire' = Append(wire, Head(todo)) /\ todo' = Tail(todo)
        /\ UNCHANGED <<queue, lines, missed, submitted>>
    BY <1>12 DEF Emit, qvars, hostvars
  <2>2. wire' \o todo' = b
    BY <1>0, <2>1, EmitStream DEF b, Bytes
  <2> QED
    BY <1>a, <2>1, <2>2
<1>13. CASE Disturb
  <2>1. UNCHANGED <<queue, todo, lines, missed, submitted>>
    BY <1>13 DEF Disturb, qvars, hostvars
  <2>2. \/ wire' = Append(wire, Printk)
        \/ \E i \in DOMAIN wire : wire' = [wire EXCEPT ![i] = Garbled]
    BY <1>13 DEF Disturb
  <2>3. CASE wire' = Append(wire, Printk)
    <3>1. Own(queue, Append(wire, Printk) \o todo, lines, missed, S)
      BY <1>0, <1>a, PrintkOwn DEF b
    <3> QED  BY <2>1, <2>3, <3>1
  <2>4. ASSUME NEW i \in DOMAIN wire, wire' = [wire EXCEPT ![i] = Garbled]
        PROVE  Goal
    <3>1. Own(queue, [wire EXCEPT ![i] = Garbled] \o todo, lines, missed, S)
      BY <1>0, <1>a, GarbledOwn DEF b
    <3> QED  BY <2>1, <2>4, <3>1
  <2> QED
    BY <2>2, <2>3, <2>4
<1>14. CASE Reboot
  <2>1. /\ lines' = <<>> /\ todo' = <<>>
        /\ UNCHANGED <<queue, wire, missed, submitted>>
    BY <1>14 DEF Reboot, qvars
  <2>2. Own(queue, wire, <<>>, missed, S)
    BY <1>0, <1>a, RebootOwn DEF b
  <2>3. wire' \o todo' = wire
    BY <1>0, <2>1, ConcatEmptySeq DEF Bytes
  <2> QED
    BY <2>1, <2>2, <2>3
<1>15. CASE UNCHANGED vars
  BY <1>15, <1>b DEF vars
<1> QED
  BY <1>1, <1>2, <1>3, <1>4, <1>5, <1>6, <1>7, <1>8, <1>9, <1>10, <1>11, <1>12, <1>13,
     <1>14, <1>15 DEF Next

\* Nothing was sent and nothing was printed.
LEMMA OwnInit == Init => OwnInv
<1> SUFFICES ASSUME Init PROVE OwnInv
  OBVIOUS
<1> DEFINE none == <<>>
           b == wire \o todo
<1>1. /\ queue.current = NoCommand /\ queue.pending = none /\ queue.tx = none
      /\ queue.scan = FreshScan /\ queue.result = [c \in Commands |-> NoResult]
      /\ lines = none /\ submitted = none
  BY DEF Init, EmptyQueue
<1>2. b = none
  <2>1. wire = none /\ todo = none
    BY DEF Init
  <2>2. none \in Seq(Tokens)
    OBVIOUS
  <2> HIDE DEF none
  <2>3. wire \o todo = none
    BY <2>1, <2>2, ConcatEmptySeq DEF none
  <2> QED  BY <2>3
<1>3. DOMAIN none = {} /\ ToSet(none) = {}
  BY DEF ToSet
<1>4. FreshScan.search_buf = none /\ FreshScan.buffer = none /\ NoResult.out = none
  BY DEF FreshScan, NoResult
<1> HIDE DEF none, b
<1>5. \A c : Pure(none, c) /\ Unseen(none, c)
  BY <1>3 DEF Pure, Unseen
<1>6. OwnResults(queue, missed)
  BY <1>1, <1>4, <1>5 DEF OwnResults
<1>7. OwnUnsent(queue, b, lines, ToSet(submitted))
  BY <1>1, <1>2, <1>3, <1>4, <1>5 DEF OwnUnsent, Untouched
<1> QED
  BY <1>1, <1>6, <1>7 DEF OwnInv, Own, b

\* In every behaviour, what was captured for the current command and everything
\* still to come after its begin marker are the command's own.
THEOREM OwnCorrect == Spec => []OwnInv
<1>1. TypeOK /\ SessionInv /\ OwnInv /\ [Next]_vars => OwnInv'
  BY OwnNext
<1> QED
  BY OwnInit, SessionTyped, SessionCorrect, <1>1, PTL DEF Spec

\* feed_serial_data never captures the output, the exit code or the marker of
\* another command than the one it scans for, however many lines time out, are
\* cancelled or are cut by a reboot before; a command of whose output a human
\* session consumed some is left out.
THEOREM AnswersAreOwn == Spec => []OwnOutput
<1>1. OwnInv => OwnOutput
  BY DEF OwnInv, Own, OwnResults, Pure, Foreign, OwnOutput
<1> QED
  BY <1>1, OwnCorrect, PTL

-----------------------------------------------------------------------------
(* Sequences, for the complete answers.                                    *)

\* A concatenation falls apart where it was joined, and anywhere after that.
LEMMA CutConcat ==
    ASSUME NEW T, NEW s \in Seq(T), NEW t \in Seq(T)
    PROVE  /\ SubSeq(s \o t, 1, Len(s)) = s
           /\ \A k \in Nat : k <= Len(t) =>
                 SubSeq(s \o t, Len(s) + k + 1, Len(s \o t)) = SubSeq(t, k + 1, Len(t))
           /\ SubSeq(s \o t, Len(s) + 1, Len(s \o t)) = t
<1> DEFINE u == s \o t
           m == Len(s)
           n == Len(t)
<1>1. /\ m \in Nat /\ n \in Nat /\ u \in Seq(T) /\ Len(u) = m + n
      /\ \A i \in 1 .. m : u[i] = s[i]
      /\ \A i \in 1 .. n : u[m + i] = t[i]
  BY ConcatAt
<1> HIDE DEF u
<1>2. SubSeq(u, 1, m) = s
  <2>1. /\ SubSeq(u, 1, m) \in Seq(T) /\ Len(SubSeq(u, 1, m)) = m
        /\ \A i \in 1 .. m : SubSeq(u, 1, m)[i] = u[i]
    BY <1>1
  <2> QED  BY <1>1, <2>1, SeqEqual
<1>3. ASSUME NEW k \in Nat, k <= n
      PROVE  SubSeq(u, m + k + 1, Len(u)) = SubSeq(t, k + 1, n)
  <2> DEFINE x == SubSeq(u, (m + k) + 1, Len(u))
             y == SubSeq(t, k + 1, n)
  <2>1. /\ x \in Seq(T) /\ Len(x) = Len(u) - (m + k)
        /\ \A i \in 1 .. Len(u) - (m + k) : x[i] = u[(m + k) + i]
    BY <1>1, <1>3, ToSetSuffix
  <2>2. y \in Seq(T) /\ Len(y) = n - k /\ \A i \in 1 .. n - k : y[i] = t[k + i]
    BY <1>1, <1>3, ToSetSuffix
  <2> HIDE DEF x, y, m, n
  <2>3. Len(x) = n - k
    BY <1>1, <1>3, <2>1
  <2>4. ASSUME NEW i \in 1 .. n - k PROVE x[i] = y[i]
    <3>1. (m + k) + i = m + (k + i) /\ k + i \in 1 .. n /\ i \in 1 .. Len(u) - (m + k)
      BY <1>1, <1>3, <2>4
    <3> QED  BY <1>1, <2>1, <2>2, <2>4, <3>1
  <2>5. x = y
    BY <2>1, <2>2, <2>3, <2>4, SeqEqual
  <2> QED  BY <2>5 DEF x, y
<1>4. SubSeq(u, m + 1, Len(u)) = t
  <2>1. SubSeq(t, 1, n) = t
    BY SubSeqFull
  <2>2. 0 \in Nat /\ 0 <= n /\ m + 0 + 1 = m + 1 /\ 0 + 1 = 1
    BY <1>1
  <2> QED  BY <1>3, <2>1, <2>2
<1> QED
  BY <1>2, <1>3, <1>4 DEF u


\* u is a with b after it: its length, its elements and its suffixes.
Joins(u, a, b) ==
    /\ u \in Seq(Tokens)
    /\ Len(a) \in Nat /\ Len(b) \in Nat /\ Len(u) = Len(a) + Len(b)
    /\ \A i \in 1 .. Len(a) : u[i] = a[i]
    /\ \A i \in 1 .. Len(b) : u[Len(a) + i] = b[i]

EndsIn(u, a, b) ==
    /\ SubSeq(u, Len(a) + 1, Len(u)) = b
    /\ \A k \in Nat : k <= Len(b) =>
          SubSeq(u, Len(a) + k + 1, Len(u)) = SubSeq(b, k + 1, Len(b))

\* So is every concatenation.
LEMMA Joined ==
    \A a, b \in Seq(Tokens) : Joins(a \o b, a, b) /\ EndsIn(a \o b, a, b)
<1> SUFFICES ASSUME NEW a \in Seq(Tokens), NEW b \in Seq(Tokens)
             PROVE  Joins(a \o b, a, b) /\ EndsIn(a \o b, a, b)
  OBVIOUS
<1>1. Joins(a \o b, a, b)
  <2>1. Len(a) \in Nat /\ Len(b) \in Nat
    BY LenProperties
  <2> QED  BY <2>1, ConcatAt DEF Joins
<1>2. EndsIn(a \o b, a, b)
  <2> DEFINE u == a \o b
  <2>1. /\ SubSeq(u, 1, Len(a)) = a
        /\ \A k \in Nat : k <= Len(b) =>
              SubSeq(u, Len(a) + k + 1, Len(u)) = SubSeq(b, k + 1, Len(b))
        /\ SubSeq(u, Len(a) + 1, Len(u)) = b
    BY CutConcat
  <2> HIDE DEF u
  <2>2. EndsIn(u, a, b)
    BY <2>1 DEF EndsIn
  <2> QED  BY <2>2 DEF u
<1> QED
  BY <1>1, <1>2
-----------------------------------------------------------------------------
(* Answers are complete.  The kernel messages aside, what comes after a    *)
(* begin marker is a front of what the command prints, some of it garbled. *)
(* So an end marker can only stand where the command printed it, and what  *)
(* was captured before it is all the rest.                                 *)

\* What a token leaves when the kernel messages are taken out.
Kept == [t \in Tokens |-> IF t = Printk THEN <<>> ELSE <<t>>]

\* The kernel messages are taken out token by token, in any order.
LEMMA SaidConcat ==
    /\ \A s \in Bytes : WithoutPrintk(s) \in Bytes
    /\ \A s, t \in Bytes : WithoutPrintk(s \o t) = WithoutPrintk(s) \o WithoutPrintk(t)
<1>1. \A t \in Tokens : Kept[t] \in Seq(Tokens)
  <2> SUFFICES ASSUME NEW t \in Tokens PROVE (IF t = Printk THEN <<>> ELSE <<t>>) \in Seq(Tokens)
    BY DEF Kept
  <2>1. <<>> \in Seq(Tokens) /\ <<t>> \in Seq(Tokens)
    OBVIOUS
  <2> QED  BY <2>1
<1>2. IsMap(Kept, Tokens, TextsOf(Tokens))
  BY <1>1 DEF IsMap, TextsOf, Kept
<1>3. ASSUME NEW s \in Bytes PROVE WithoutPrintk(s) = Gathered(Kept, s)
  <2>1. \A i \in DOMAIN s : s[i] \in Tokens
    BY DEF Bytes
  <2>2. [i \in DOMAIN s |-> IF s[i] = Printk THEN <<>> ELSE <<s[i]>>]
        = [i \in DOMAIN s |-> Kept[s[i]]]
    BY <2>1 DEF Kept
  <2> QED  BY <2>2 DEF WithoutPrintk, Gathered, Mapped
<1>4. ASSUME NEW s \in Bytes PROVE WithoutPrintk(s) \in Bytes
  <2>1. Gathered(Kept, s) \in TextsOf(Tokens)
    BY <1>2, GatheredFacts DEF Gathers, Bytes
  <2> QED  BY <1>3, <2>1 DEF Bytes, TextsOf
<1>5. ASSUME NEW s \in Bytes, NEW t \in Bytes
      PROVE  WithoutPrintk(s \o t) = WithoutPrintk(s) \o WithoutPrintk(t)
  <2> DEFINE u == s \o t
             n == Len(s)
  <2>1. u \in Bytes /\ n \in 0 .. Len(u)
    BY ConcatProperties, LenProperties DEF Bytes
  <2>2. SubSeq(u, 1, n) = s /\ SubSeq(u, n + 1, Len(u)) = t
    BY CutConcat DEF Bytes
  <2> HIDE DEF u, n
  <2>3. Gathered(Kept, u) = Gathered(Kept, SubSeq(u, 1, n))
                              \o Gathered(Kept, SubSeq(u, n + 1, Len(u)))
    BY <1>2, <2>1, GatheredSplit DEF Bytes
  <2> QED  BY <1>3, <2>1, <2>2, <2>3 DEF u
<1> QED
  BY <1>4, <1>5

\* A kernel message leaves nothing, any other token itself.
LEMMA SaidToken ==
    /\ WithoutPrintk(<<>>) = <<>>
    /\ WithoutPrintk(<<Printk>>) = <<>>
    /\ \A t \in Tokens : t # Printk => WithoutPrintk(<<t>>) = <<t>>
<1>1. FlattenSeq(<<>>) = <<>> /\ \A x \in Bytes : FlattenSeq(<<x>>) = x
  <2>1. <<>> \in Seq(TextsOf(Tokens)) /\ FlattenSeq(<<>>) = <<>>
    BY FlattenEmpty
  <2>2. ASSUME NEW x \in Bytes PROVE FlattenSeq(<<x>>) = x
    <3>1. x \in TextsOf(Tokens)
      BY DEF Bytes, TextsOf
    <3>2. FlattenSeq(Append(<<>>, x)) = FlattenSeq(<<>>) \o x
      BY <2>1, <3>1, TextsAppend
    <3>3. Append(<<>>, x) = <<x>> /\ <<>> \o x = x
      BY ConcatEmptySeq DEF Bytes
    <3> QED  BY <2>1, <3>2, <3>3
  <2> QED  BY <2>1, <2>2
<1>2. DOMAIN <<>> = {} /\ \A t : DOMAIN <<t>> = {1} /\ <<t>>[1] = t
  OBVIOUS
<1>3. WithoutPrintk(<<>>) = <<>>
  <2>1. [i \in DOMAIN <<>> |-> IF <<>>[i] = Printk THEN <<>> ELSE << <<>>[i] >>] = <<>>
    OBVIOUS
  <2> QED  BY <1>1, <2>1 DEF WithoutPrintk
<1>4. ASSUME NEW t \in Tokens, NEW x \in Bytes, x = IF t = Printk THEN <<>> ELSE <<t>>
      PROVE  WithoutPrintk(<<t>>) = x
  <2> DEFINE s == <<t>>
  <2>1. [i \in DOMAIN s |-> IF s[i] = Printk THEN <<>> ELSE <<s[i]>>] = <<x>>
    BY <1>4
  <2> HIDE DEF s
  <2> QED  BY <1>1, <2>1 DEF WithoutPrintk, s
<1>5. Printk \in Tokens /\ <<>> \in Bytes /\ \A t \in Tokens : <<t>> \in Bytes
  BY DEF Tokens, Bytes
<1> QED
  BY <1>3, <1>4, <1>5

\* Where the kernel says nothing, everything is kept.
LEMMA SaidWhole ==
    ASSUME NEW s \in Bytes, \A i \in 1 .. Len(s) : s[i] # Printk
    PROVE  WithoutPrintk(s) = s
<1> DEFINE P(k) == SubSeq(s, 1, k)
           G == {k \in 0 .. Len(s) : WithoutPrintk(P(k)) = P(k)}
<1>1. Len(s) \in Nat /\ s \in Seq(Tokens)
  BY DEF Bytes
<1>2. 0 \in G
  <2>1. P(0) = <<>>
    BY <1>1
  <2>2. 0 \in 0 .. Len(s)
    BY <1>1
  <2> HIDE DEF P
  <2> QED  BY <2>1, <2>2, SaidToken
<1>3. ASSUME NEW k \in 1 .. Len(s), k - 1 \in G PROVE k \in G
  <2>1. /\ P(k - 1) \in Bytes /\ <<s[k]>> \in Bytes /\ P(k) = P(k - 1) \o <<s[k]>>
        /\ s[k] \in Tokens /\ s[k] # Printk
    <3>1. s[k] \in Tokens /\ s[k] # Printk
      BY <1>1
    <3>2. P(k) = Append(P(k - 1), s[k]) /\ P(k - 1) \in Seq(Tokens)
      BY <1>1
    <3> HIDE DEF P
    <3> QED  BY <3>1, <3>2, AppendIsConcat DEF Bytes
  <2>2. WithoutPrintk(P(k - 1)) = P(k - 1) /\ WithoutPrintk(<<s[k]>>) = <<s[k]>>
    BY <1>3, <2>1, SaidToken
  <2> HIDE DEF P
  <2>3. WithoutPrintk(P(k)) = P(k)
    BY <2>1, <2>2, SaidConcat
  <2> QED  BY <2>3
<1>4. \A k \in 0 .. Len(s) : k \in G
  <2> HIDE DEF G
  <2> QED  BY <1>1, <1>2, <1>3, UpTo
<1>5. P(Len(s)) = s
  BY <1>1, SubSeqFull
<1>6. Len(s) \in G
  BY <1>1, <1>4
<1> HIDE DEF P
<1> QED
  BY <1>5, <1>6

\* What the command prints after its begin marker.
Body(c) == [i \in 1 .. OutTokens + 3 |->
              IF i <= OutTokens THEN Out(c, i)
              ELSE IF i = OutTokens + 1 THEN Exit(c)
              ELSE Half(c, i - (OutTokens + 1))]

\* w is a front of it, some tokens garbled.
Fits(w, c) ==
    /\ Len(w) <= OutTokens + 3
    /\ \A i \in 1 .. Len(w) : w[i] \in {Body(c)[i], Garbled}

\* So is s, the kernel messages aside.
Follows(s, c) == Fits(WithoutPrintk(s), c)

\* What comes after any marker of c.
AfterMarkers(s, c) == \A i \in MarkerAt(s, c) : Follows(SubSeq(s, i + 2, Len(s)), c)

\* What was captured for the current command, and is still to come.
FullStream(q, b) ==
    IF q.scan.found_begin
    THEN Follows((q.scan.spill \o q.scan.buffer) \o b, q.current)
    ELSE AfterMarkers(q.scan.search_buf \o b, q.current)

\* Everything a command printed, up to its exit code.
Whole(w, c) ==
    /\ Len(w) = OutTokens + 1
    /\ \A i \in 1 .. OutTokens : w[i] \in {Out(c, i), Garbled}
    /\ w[OutTokens + 1] \in {Exit(c), Garbled}

\* CompleteOutput, for one result and for a queue.
FullResult(r, c) ==
    r.kind = "ok" =>
        Whole(WithoutPrintk(r.out) \o (IF r.exit THEN <<Exit(c)>> ELSE <<>>), c)
FullResults(q, M) == \A c \in Commands \ M : FullResult(q.result[c], c)

\* The invariant, for a queue and a stream.
Full(q, b, M) ==
    /\ FullResults(q, M)
    /\ q.current # NoCommand /\ q.current \notin M => FullStream(q, b)

FullInv == Full(queue, wire \o todo, missed)

\* The tokens of the body, as its definition gives them.
LEMMA BodyTokens ==
    ASSUME NEW c \in Commands
    PROVE  /\ OutTokens \in Nat /\ Body(c) \in Bytes /\ Len(Body(c)) = OutTokens + 3
           /\ \A i \in 1 .. OutTokens : Body(c)[i] = Out(c, i)
           /\ Body(c)[OutTokens + 1] = Exit(c)
           /\ Body(c)[OutTokens + 2] = Half(c, 1)
           /\ Body(c)[OutTokens + 3] = Half(c, 2)
           /\ \A i \in 1 .. OutTokens + 3 :
                 /\ Body(c)[i] # Printk
                 /\ Body(c)[i] = Half(c, 1) => i = OutTokens + 2
<1> DEFINE n == OutTokens
           s == Body(c)
<1>1. n \in Nat
  BY SessionAssumption
<1>2. /\ \A i \in 1 .. n : s[i] = Out(c, i)
      /\ s[n + 1] = Exit(c) /\ s[n + 2] = Half(c, 1) /\ s[n + 3] = Half(c, 2)
      /\ DOMAIN s = 1 .. n + 3
  <2>1. /\ n + 1 \in 1 .. n + 3 /\ n + 2 \in 1 .. n + 3 /\ n + 3 \in 1 .. n + 3
        /\ \A i \in 1 .. n : i \in 1 .. n + 3 /\ i <= n
        /\ (n + 2) - (n + 1) = 1 /\ (n + 3) - (n + 1) = 2
        /\ ~(n + 1 <= n) /\ ~(n + 2 <= n) /\ ~(n + 3 <= n) /\ n + 2 # n + 1 /\ n + 3 # n + 1
    BY <1>1
  <2> HIDE DEF n
  <2> QED  BY <2>1 DEF Body, n
<1>3. \A i \in 1 .. n + 3 : i \in 1 .. n \/ i = n + 1 \/ i = n + 2 \/ i = n + 3
  BY <1>1
<1>4. /\ \A i \in 1 .. n : Out(c, i) \in Tokens
      /\ Exit(c) \in Tokens /\ Half(c, 1) \in Tokens /\ Half(c, 2) \in Tokens
  BY DEF Tokens
<1>5. /\ \A i \in 1 .. n : Out(c, i) # Printk /\ Out(c, i) # Half(c, 1)
      /\ Exit(c) # Printk /\ Exit(c) # Half(c, 1)
      /\ Half(c, 1) # Printk /\ Half(c, 2) # Printk /\ Half(c, 2) # Half(c, 1)
  BY DEF Out, Exit, Half, Printk
<1> HIDE DEF s, n
<1>6. \A i \in 1 .. n + 3 : s[i] \in Tokens /\ s[i] # Printk /\ (s[i] = Half(c, 1) => i = n + 2)
  BY <1>2, <1>3, <1>4, <1>5
<1>7. s \in [1 .. n + 3 -> Tokens]
  BY <1>2, <1>6 DEF s, Body, n
<1>8. s \in Seq(Tokens) /\ Len(s) = n + 3
  BY <1>1, <1>2, <1>7
<1> QED
  BY <1>1, <1>2, <1>6, <1>8 DEF s, n, Bytes

\* A line prints its marker and its body.
LEMMA PrintedIs ==
    ASSUME NEW c \in Commands
    PROVE  Marker(c) \in Bytes /\ Printed(c) = Marker(c) \o Body(c)
<1> DEFINE n == OutTokens
           o == [i \in 1 .. n |-> Out(c, i)]
           e == <<Exit(c)>>
           m == Marker(c)
           F(p, q) == p \o q
           s == F(F(o, e), m)
<1>1. /\ n \in Nat /\ \A i \in 1 .. n : Out(c, i) \in Tokens
      /\ Exit(c) \in Tokens /\ Half(c, 1) \in Tokens /\ Half(c, 2) \in Tokens
  BY SessionAssumption DEF Tokens
<1>2. /\ o \in Seq(Tokens) /\ Len(o) = n /\ \A i \in 1 .. n : o[i] = Out(c, i)
      /\ e \in Seq(Tokens) /\ Len(e) = 1 /\ e[1] = Exit(c)
      /\ m \in Seq(Tokens) /\ Len(m) = 2 /\ m[1] = Half(c, 1) /\ m[2] = Half(c, 2)
  BY <1>1 DEF Marker
<1>3. \A p, q, r \in Bytes : F(p, q) \in Bytes /\ F(F(p, q), r) = F(p, F(q, r))
  BY Streams
<1>4. Printed(c) = F(F(F(m, o), e), m)
  BY DEF Printed
<1> HIDE DEF o, e, m
<1>5. /\ F(o, e) \in Seq(Tokens) /\ Len(F(o, e)) = n + 1
      /\ \A i \in 1 .. n : F(o, e)[i] = Out(c, i)
      /\ F(o, e)[n + 1] = Exit(c)
  <2>1. 1 \in 1 .. Len(e)
    BY <1>2
  <2> QED  BY <1>2, <2>1, ConcatAt
<1> DEFINE oe == F(o, e)
<1>6. /\ F(oe, m) \in Seq(Tokens) /\ Len(F(oe, m)) = (n + 1) + 2
      /\ \A i \in 1 .. n + 1 : F(oe, m)[i] = oe[i]
      /\ F(oe, m)[(n + 1) + 1] = Half(c, 1) /\ F(oe, m)[(n + 1) + 2] = Half(c, 2)
  <2>0. oe \in Seq(Tokens) /\ Len(oe) = n + 1
    BY <1>5
  <2> HIDE DEF oe
  <2>1. 1 \in 1 .. Len(m) /\ 2 \in 1 .. Len(m)
    BY <1>2
  <2>2. Joins(F(oe, m), oe, m)
    BY <1>2, <2>0, Joined
  <2> HIDE DEF F
  <2> QED  BY <1>2, <2>0, <2>1, <2>2 DEF Joins
<1>7. s = Body(c)
  <2>1. /\ s \in Seq(Tokens) /\ Len(s) = n + 3
        /\ \A i \in 1 .. n : s[i] = Out(c, i)
        /\ s[n + 1] = Exit(c) /\ s[n + 2] = Half(c, 1) /\ s[n + 3] = Half(c, 2)
    <3>1. /\ \A i \in 1 .. n : i \in 1 .. n + 1
          /\ n + 1 \in 1 .. n + 1
          /\ (n + 1) + 1 = n + 2 /\ (n + 1) + 2 = n + 3
      BY <1>1
    <3> HIDE DEF n
    <3> QED  BY <1>5, <1>6, <3>1
  <2> HIDE DEF s
  <2>2. /\ Body(c) \in Seq(Tokens) /\ Len(Body(c)) = n + 3
        /\ \A i \in 1 .. n : Body(c)[i] = Out(c, i)
        /\ Body(c)[n + 1] = Exit(c) /\ Body(c)[n + 2] = Half(c, 1) /\ Body(c)[n + 3] = Half(c, 2)
    BY BodyTokens DEF Bytes
  <2>3. \A i \in 1 .. n + 3 : i \in 1 .. n \/ i = n + 1 \/ i = n + 2 \/ i = n + 3
    BY <1>1
  <2>4. \A i \in 1 .. n + 3 : s[i] = Body(c)[i]
    <3> HIDE DEF n
    <3> QED  BY <2>1, <2>2, <2>3
  <2> QED  BY <2>1, <2>2, <2>4, SeqEqual
<1>8. o \in Bytes /\ e \in Bytes /\ m \in Bytes
  BY <1>2 DEF Bytes
<1> HIDE DEF F
<1>9. F(F(F(m, o), e), m) = F(m, F(F(o, e), m))
  <2>1. F(m, o) \in Bytes /\ F(o, e) \in Bytes
    BY <1>3, <1>8
  <2>2. F(F(m, o), e) = F(m, F(o, e))
    BY <1>3, <1>8
  <2>3. F(F(m, F(o, e)), m) = F(m, F(F(o, e), m))
    BY <1>3, <1>8, <2>1
  <2> QED  BY <2>2, <2>3
<1> QED
  BY <1>4, <1>7, <1>8, <1>9 DEF F, m

\* A front of what follows the marker follows it.
LEMMA FollowsFront ==
    ASSUME NEW a \in Bytes, NEW x \in Bytes, NEW c, Follows(a \o x, c), OutTokens \in Nat
    PROVE  Follows(a, c)
<1> DEFINE w == WithoutPrintk(a)
           y == WithoutPrintk(x)
           z == w \o y
<1>1. w \in Seq(Tokens) /\ y \in Seq(Tokens) /\ WithoutPrintk(a \o x) = z
  BY SaidConcat DEF Bytes
<1> HIDE DEF w, y
<1>2. /\ Len(z) = Len(w) + Len(y) /\ Len(w) \in Nat /\ Len(y) \in Nat
      /\ \A i \in 1 .. Len(w) : z[i] = w[i]
  BY <1>1, ConcatAt, LenProperties
<1>3. Len(z) <= OutTokens + 3 /\ \A i \in 1 .. Len(z) : z[i] \in {Body(c)[i], Garbled}
  BY <1>1 DEF Follows, Fits
<1> HIDE DEF z
<1>4. Len(w) <= OutTokens + 3 /\ \A i \in 1 .. Len(w) : i \in 1 .. Len(z)
  BY <1>2, <1>3
<1>5. \A i \in 1 .. Len(w) : w[i] \in {Body(c)[i], Garbled}
  BY <1>2, <1>3, <1>4
<1> QED
  BY <1>4, <1>5 DEF Follows, Fits, w

\* So does it with a kernel message in it.
LEMMA FollowsPrintk ==
    ASSUME NEW a \in Bytes, NEW b \in Bytes, NEW c, Follows(a \o b, c)
    PROVE  <<Printk>> \in Bytes /\ Follows((a \o <<Printk>>) \o b, c)
<1> DEFINE x == <<Printk>>
           w == WithoutPrintk(a)
<1>1. x \in Bytes /\ WithoutPrintk(x) = <<>> /\ w \in Seq(Tokens)
  <2>1. Printk \in Tokens
    BY DEF Tokens
  <2> QED  BY <2>1, SaidToken, SaidConcat DEF Bytes
<1>2. WithoutPrintk(a \o x) = w
  <2>1. w \o <<>> = w
    BY <1>1, ConcatEmptySeq
  <2> HIDE DEF x
  <2> QED  BY <1>1, <2>1, SaidConcat
<1>3. a \o x \in Bytes
  BY <1>1, Streams
<1> HIDE DEF w
<1> DEFINE ax == a \o x
<1> HIDE DEF ax, x
<1>4. WithoutPrintk(ax \o b) = WithoutPrintk(ax) \o WithoutPrintk(b)
  BY <1>3, SaidConcat DEF ax
<1>5. WithoutPrintk(a \o b) = w \o WithoutPrintk(b)
  BY SaidConcat DEF w
<1> QED
  BY <1>1, <1>2, <1>4, <1>5 DEF Follows, ax, x

\* So does it with a token garbled.
LEMMA FollowsGarbled ==
    ASSUME NEW a \in Bytes, NEW t \in Tokens, t # Printk, NEW b \in Bytes, NEW c,
           Follows(a \o (<<t>> \o b), c)
    PROVE  Follows(a \o (<<Garbled>> \o b), c)
<1> DEFINE F(p, q) == p \o q
           W(p) == WithoutPrintk(p)
           g == <<Garbled>>
           s == <<t>>
<1>1. /\ Garbled \in Tokens /\ Garbled # Printk /\ g \in Bytes /\ s \in Bytes
      /\ W(g) = g /\ W(s) = s
  <2>1. Garbled \in Tokens /\ Garbled # Printk
    BY DEF Tokens, Garbled, Printk
  <2> QED  BY <2>1, SaidToken DEF Bytes
<1>2. /\ \A p \in Bytes : W(p) \in Bytes
      /\ \A p, q \in Bytes : F(p, q) \in Bytes /\ W(F(p, q)) = F(W(p), W(q))
  BY SaidConcat, Streams
<1> DEFINE y == F(W(a), F(s, W(b)))
           z == F(W(a), F(g, W(b)))
<1>3. Len(g) = 1 /\ Len(s) = 1 /\ g[1] = Garbled
  OBVIOUS
<1> HIDE DEF F, W, g, s
<1>4. W(F(a, F(s, b))) = y /\ W(F(a, F(g, b))) = z
  BY <1>1, <1>2
<1> DEFINE ls == Len(W(a))
           lb == Len(W(b))
<1>5. ASSUME NEW x \in {g, s}
      PROVE  /\ Len(F(W(a), F(x, W(b)))) = ls + (1 + lb)
             /\ \A i \in 1 .. ls : F(W(a), F(x, W(b)))[i] = W(a)[i]
             /\ F(W(a), F(x, W(b)))[ls + 1] = x[1]
             /\ \A i \in 1 .. lb : F(W(a), F(x, W(b)))[ls + (1 + i)] = W(b)[i]
  <2> DEFINE e == F(x, W(b))
  <2>1. x \in Seq(Tokens) /\ W(a) \in Seq(Tokens) /\ W(b) \in Seq(Tokens) /\ Len(x) = 1
    BY <1>1, <1>2, <1>3 DEF Bytes
  <2>2. /\ e \in Seq(Tokens) /\ Len(e) = 1 + lb /\ e[1] = x[1] /\ lb \in Nat
        /\ \A i \in 1 .. lb : e[1 + i] = W(b)[i]
    <3>1. 1 \in 1 .. Len(x)
      BY <2>1
    <3>2. Joins(e, x, W(b))
      BY <2>1, Joined DEF F
    <3> HIDE DEF e
    <3> QED  BY <2>1, <3>1, <3>2 DEF Joins
  <2> HIDE DEF e
  <2>3. /\ Len(F(W(a), e)) = ls + Len(e)
        /\ \A i \in 1 .. ls : F(W(a), e)[i] = W(a)[i]
        /\ \A i \in 1 .. Len(e) : F(W(a), e)[ls + i] = e[i]
    <3>1. Joins(F(W(a), e), W(a), e)
      BY <2>1, <2>2, Joined DEF F
    <3> QED  BY <3>1 DEF Joins
  <2> HIDE DEF lb
  <2>4. 1 \in 1 .. Len(e) /\ \A i \in 1 .. lb : 1 + i \in 1 .. Len(e)
    BY <2>2
  <2> QED  BY <2>2, <2>3, <2>4 DEF e
<1>6. ls \in Nat /\ lb \in Nat
  BY <1>2, LenProperties DEF Bytes
<1>7. /\ Len(y) = Len(z) /\ Len(z) = ls + (1 + lb)
      /\ \A i \in 1 .. Len(z) : z[i] \in {y[i], Garbled}
  <2>1. /\ Len(z) = ls + (1 + lb) /\ z[ls + 1] = Garbled
        /\ \A i \in 1 .. ls : z[i] = W(a)[i]
        /\ \A i \in 1 .. lb : z[ls + (1 + i)] = W(b)[i]
    BY <1>3, <1>5
  <2>2. /\ Len(y) = ls + (1 + lb)
        /\ \A i \in 1 .. ls : y[i] = W(a)[i]
        /\ \A i \in 1 .. lb : y[ls + (1 + i)] = W(b)[i]
    BY <1>5
  <2> HIDE DEF y, z, ls, lb
  <2>3. ASSUME NEW i \in 1 .. ls + (1 + lb) PROVE z[i] \in {y[i], Garbled}
    <3>1. CASE i <= ls
      BY <1>6, <2>1, <2>2, <2>3, <3>1
    <3>2. CASE i = ls + 1
      BY <2>1, <3>2
    <3>3. CASE i > ls + 1
      <4>1. i - (ls + 1) \in 1 .. lb /\ i = ls + (1 + (i - (ls + 1)))
        BY <1>6, <2>3, <3>3
      <4> QED  BY <2>1, <2>2, <4>1
    <3> QED  BY <1>6, <2>3, <3>1, <3>2, <3>3
  <2> QED  BY <2>1, <2>2, <2>3
<1> HIDE DEF y, z
<1>8. Fits(y, c)
  BY <1>4 DEF Follows, F, W, s
<1>9. Fits(z, c)
  BY <1>7, <1>8 DEF Fits
<1> QED
  BY <1>4, <1>9 DEF Follows, F, W, g

\* What the shell prints follows its marker; so does nothing at all.
LEMMA BodyFollows ==
    ASSUME NEW c \in Commands
    PROVE  Follows(Body(c), c) /\ Follows(<<>>, c)
<1>1. WithoutPrintk(Body(c)) = Body(c) /\ WithoutPrintk(<<>>) = <<>>
  BY BodyTokens, SaidWhole, SaidToken
<1>2. Fits(Body(c), c)
  BY BodyTokens DEF Fits
<1>3. Fits(<<>>, c)
  BY BodyTokens DEF Fits
<1> QED
  BY <1>1, <1>2, <1>3 DEF Follows

\* What was captured when an end marker stands behind it is all of it.
LEMMA FollowsEnd ==
    ASSUME NEW p \in Bytes, NEW r \in Bytes, NEW c \in Commands,
           Follows(p \o (Marker(c) \o r), c)
    PROVE  Whole(WithoutPrintk(p), c)
<1> DEFINE F(a, b) == a \o b
           W(a) == WithoutPrintk(a)
           m == Marker(c)
           y == F(W(p), F(m, W(r)))
           w == W(p)
           l == Len(w)
           n == OutTokens
<1>1. m \in Bytes /\ Len(m) = 2 /\ m[1] = Half(c, 1) /\ m[2] = Half(c, 2)
  BY PrintedIs DEF Marker
<1>2. W(m) = m
  <2>1. \A i \in 1 .. Len(m) : m[i] # Printk
    <3>1. Half(c, 1) # Printk /\ Half(c, 2) # Printk
      BY DEF Half, Printk
    <3>2. \A i \in 1 .. 2 : i = 1 \/ i = 2
      OBVIOUS
    <3> HIDE DEF m
    <3> QED  BY <1>1, <3>1, <3>2
  <2> HIDE DEF m
  <2> QED  BY <1>1, <2>1, SaidWhole
<1>3. /\ \A a \in Bytes : W(a) \in Bytes
      /\ \A a, b \in Bytes : F(a, b) \in Bytes /\ W(F(a, b)) = F(W(a), W(b))
  BY SaidConcat, Streams
<1> HIDE DEF F, W, m
<1>4. W(F(p, F(m, r))) = y
  BY <1>1, <1>2, <1>3
<1>5. Fits(y, c)
  BY <1>4 DEF Follows, F, W, m
<1>6. /\ l \in Nat /\ Len(y) >= l + 1 /\ y[l + 1] = Half(c, 1)
      /\ \A i \in 1 .. l : y[i] = w[i]
      /\ Len(y) \in Nat
  <2> DEFINE e == F(m, W(r))
  <2>1. /\ w \in Seq(Tokens) /\ W(r) \in Seq(Tokens) /\ m \in Seq(Tokens)
    BY <1>1, <1>3 DEF Bytes
  <2>2. e \in Seq(Tokens) /\ Len(e) \in Nat /\ Len(e) >= 2 /\ e[1] = Half(c, 1)
    <3>1. 1 \in 1 .. Len(m)
      BY <1>1
    <3>2. /\ e \in Seq(Tokens) /\ Len(e) = Len(m) + Len(W(r)) /\ e[1] = m[1]
          /\ Len(W(r)) \in Nat
      BY <2>1, <3>1, ConcatAt, LenProperties DEF F
    <3> HIDE DEF e
    <3> QED  BY <1>1, <3>2
  <2> HIDE DEF e, w
  <2>3. /\ Len(F(w, e)) = l + Len(e) /\ l \in Nat
        /\ \A i \in 1 .. l : F(w, e)[i] = w[i]
        /\ \A i \in 1 .. Len(e) : F(w, e)[l + i] = e[i]
    BY <2>1, <2>2, ConcatAt, LenProperties DEF F
  <2>4. y = F(w, e) /\ 1 \in 1 .. Len(e)
    BY <2>2 DEF e, w
  <2> HIDE DEF l, y
  <2> QED  BY <2>2, <2>3, <2>4
<1> HIDE DEF y, w, l
<1>7. n \in Nat /\ l + 1 \in 1 .. n + 3 /\ l + 1 \in 1 .. Len(y)
  <2>1. n \in Nat
    BY BodyTokens
  <2>2. Len(y) <= n + 3
    BY <1>5 DEF Fits
  <2> HIDE DEF n
  <2> QED  BY <1>6, <2>1, <2>2
<1>8. l = n + 1
  <2>1. y[l + 1] \in {Body(c)[l + 1], Garbled}
    BY <1>5, <1>7 DEF Fits
  <2>2. Half(c, 1) # Garbled
    BY DEF Half, Garbled
  <2>3. l + 1 = n + 2
    BY <1>6, <1>7, <2>1, <2>2, BodyTokens
  <2> HIDE DEF n
  <2> QED  BY <1>6, <1>7, <2>3
<1>9. \A i \in 1 .. n + 1 : w[i] \in {Body(c)[i], Garbled}
  <2> HIDE DEF n
  <2>1. \A i \in 1 .. n + 1 : i \in 1 .. l /\ i \in 1 .. Len(y)
    BY <1>6, <1>7, <1>8
  <2> QED  BY <1>5, <1>6, <2>1 DEF Fits
<1>10. /\ \A i \in 1 .. n : i \in 1 .. n + 1 /\ Body(c)[i] = Out(c, i)
       /\ n + 1 \in 1 .. n + 1 /\ Body(c)[n + 1] = Exit(c)
  BY BodyTokens
<1> QED
  BY <1>8, <1>9, <1>10 DEF Whole, l, w, W

-----------------------------------------------------------------------------
(* What comes after the markers of a stream, when the stream moves.        *)

\* A suffix has the markers of the whole, with the same behind them.
LEMMA AfterSuffix ==
    ASSUME NEW s \in Bytes, NEW k \in 0 .. Len(s), NEW d, AfterMarkers(s, d)
    PROVE  AfterMarkers(SubSeq(s, k + 1, Len(s)), d)
<1> DEFINE u == SubSeq(s, k + 1, Len(s))
<1>1. s \in Seq(Tokens) /\ Len(s) \in Nat /\ k \in Nat /\ k <= Len(s)
  BY LenProperties DEF Bytes
<1>2. u \in Seq(Tokens) /\ Len(u) = Len(s) - k
  BY <1>1, ToSetSuffix
<1>3. ASSUME NEW i \in MarkerAt(u, d)
      PROVE  Follows(SubSeq(u, i + 2, Len(u)), d)
  <2>1. k + i \in MarkerAt(s, d)
    BY <1>1, CleanSuffix
  <2>2. i \in 1 .. Len(u) - 1
    BY DEF MarkerAt
  <2> HIDE DEF u
  <2>3. /\ i + 1 \in Nat /\ k + (i + 1) <= Len(s) /\ (i + 1) + 1 = i + 2
        /\ (k + (i + 1)) + 1 = (k + i) + 2
    BY <1>1, <1>2, <2>2
  <2>4. SubSeq(u, (i + 1) + 1, Len(u)) = SubSeq(s, (k + (i + 1)) + 1, Len(s))
    BY <1>1, <2>3, SuffixTwice DEF u
  <2> QED  BY <2>1, <2>3, <2>4 DEF AfterMarkers
<1> QED
  BY <1>3 DEF AfterMarkers

\* So has a front.
LEMMA AfterFront ==
    ASSUME NEW a \in Bytes, NEW x \in Bytes, NEW d, AfterMarkers(a \o x, d)
    PROVE  AfterMarkers(a, d)
<1>1. a \in Seq(Tokens) /\ x \in Seq(Tokens) /\ Len(a) \in Nat /\ OutTokens \in Nat
  BY LenProperties, SessionAssumption DEF Bytes
<1>2. ASSUME NEW i \in MarkerAt(a, d)
      PROVE  Follows(SubSeq(a, i + 2, Len(a)), d)
  <2> DEFINE u == SubSeq(a, i + 2, Len(a))
             v == a \o x
  <2>1. i \in 1 .. Len(a) - 1 /\ i \in MarkerAt(v, d)
    BY <1>1, MarkersAfterAppend DEF MarkerAt
  <2>2. i + 1 \in Nat /\ i + 1 <= Len(a) /\ (i + 1) + 1 = i + 2
    BY <1>1, <2>1
  <2>3. u \in Bytes
    BY <1>1, <2>2, ToSetSuffix DEF Bytes
  <2>4. u \o x = SubSeq(v, i + 2, Len(v))
    BY <1>1, <2>2, SuffixConcat
  <2>5. Follows(SubSeq(v, i + 2, Len(v)), d)
    BY <2>1 DEF AfterMarkers
  <2> HIDE DEF u, v
  <2>6. Follows(u \o x, d)
    BY <2>4, <2>5
  <2>7. Follows(u, d)
    BY <1>1, <2>3, <2>6, FollowsFront
  <2> QED  BY <2>7 DEF u
<1> QED
  BY <1>2 DEF AfterMarkers

\* A kernel message between two tokens.
LEMMA AfterPrintk ==
    ASSUME NEW a \in Bytes, NEW b \in Bytes, NEW d, AfterMarkers(a \o b, d)
    PROVE  AfterMarkers((a \o <<Printk>>) \o b, d)
<1> DEFINE x == <<Printk>>
           p == a \o x
           u == p \o b
           v == a \o b
           la == Len(a)
           lb == Len(b)
<1>1. /\ Printk \in Tokens /\ Printk # Half(d, 1) /\ Printk # Half(d, 2)
  BY DEF Tokens, Printk, Half
<1>2. /\ a \in Seq(Tokens) /\ b \in Seq(Tokens) /\ la \in Nat /\ lb \in Nat
      /\ x \in Seq(Tokens) /\ Len(x) = 1 /\ x # <<>> /\ x[1] = Printk
  <2>1. x \in Seq(Tokens) /\ Len(x) = 1 /\ x # <<>> /\ x[1] = Printk
    BY <1>1
  <2> QED  BY <2>1, LenProperties DEF Bytes
<1> HIDE DEF x
<1>3. MarkerAt(x, d) = {}
  BY <1>2 DEF MarkerAt
<1>4. \A i \in MarkerAt(u, d) :
         \/ i < la /\ i \in MarkerAt(v, d)
         \/ i > la + 1 /\ i - 1 \in MarkerAt(v, d)
  BY <1>1, <1>2, <1>3, MarkersAfterInsert
<1>5. /\ p \in Seq(Tokens) /\ Len(p) = la + 1 /\ v \in Seq(Tokens) /\ Len(v) = la + lb
  <2>1. Joins(p, a, x) /\ Joins(v, a, b)
    BY <1>2, Joined
  <2> HIDE DEF p, v
  <2> QED  BY <1>2, <2>1 DEF Joins
<1> HIDE DEF p
<1>6. u \in Seq(Tokens) /\ Len(u) = (la + 1) + lb
  <2>1. Joins(u, p, b)
    BY <1>2, <1>5, Joined
  <2> HIDE DEF u
  <2> QED  BY <1>5, <2>1 DEF Joins
<1>7. ASSUME NEW i \in MarkerAt(u, d), i < la, i \in MarkerAt(v, d)
      PROVE  Follows(SubSeq(u, i + 2, Len(u)), d)
  <2> DEFINE t == SubSeq(a, (i + 1) + 1, Len(a))
  <2>1. i \in 1 .. Len(v) - 1
    BY <1>7 DEF MarkerAt
  <2> HIDE DEF u, v
  <2>2. i + 1 \in Nat /\ i + 1 <= Len(a) /\ i + 1 <= Len(p) /\ (i + 1) + 1 = i + 2
    BY <1>2, <1>5, <1>7, <2>1
  <2>3. t \in Bytes
    BY <1>2, <2>2, ToSetSuffix DEF Bytes
  <2>4. t \o b = SubSeq(v, i + 2, Len(v))
    BY <1>2, <2>2, SuffixConcat DEF v
  <2>5. t \o x = SubSeq(p, (i + 1) + 1, Len(p))
    BY <1>2, <2>2, SuffixConcat DEF p
  <2>6. SubSeq(p, (i + 1) + 1, Len(p)) \o b = SubSeq(u, i + 2, Len(u))
    BY <1>2, <1>5, <2>2, SuffixConcat DEF u
  <2> HIDE DEF t
  <2>7. Follows(t \o b, d)
    BY <1>7, <2>4 DEF AfterMarkers, v
  <2>8. Follows((t \o x) \o b, d)
    BY <2>3, <2>7, FollowsPrintk DEF x
  <2> QED  BY <2>5, <2>6, <2>8
<1>8. ASSUME NEW i \in MarkerAt(u, d), i > la + 1, i - 1 \in MarkerAt(v, d)
      PROVE  Follows(SubSeq(u, i + 2, Len(u)), d)
  <2> DEFINE k == i - la
  <2>1. i \in 1 .. Len(u) - 1
    BY <1>8 DEF MarkerAt
  <2> HIDE DEF u, v
  <2>2. /\ k \in Nat /\ k <= lb
        /\ Len(p) + k + 1 = i + 2 /\ la + k + 1 = (i - 1) + 2
    BY <1>2, <1>5, <1>6, <1>8, <2>1
  <2> HIDE DEF k
  <2>3. SubSeq(u, Len(p) + k + 1, Len(u)) = SubSeq(b, k + 1, lb)
    <3>1. EndsIn(u, p, b)
      BY <1>2, <1>5, Joined DEF u
    <3> QED  BY <2>2, <3>1 DEF EndsIn
  <2>4. SubSeq(v, la + k + 1, Len(v)) = SubSeq(b, k + 1, lb)
    <3>1. EndsIn(v, a, b)
      BY <1>2, Joined DEF v
    <3> QED  BY <2>2, <3>1 DEF EndsIn
  <2>5. Follows(SubSeq(v, (i - 1) + 2, Len(v)), d)
    BY <1>8 DEF AfterMarkers, v
  <2> QED  BY <2>2, <2>3, <2>4, <2>5
<1> QED
  BY <1>4, <1>7, <1>8 DEF AfterMarkers, u, p, x

\* The token after a is garbled.
LEMMA AfterGarbled ==
    ASSUME NEW a \in Bytes, NEW t \in Tokens, t # Printk, NEW b \in Bytes, NEW d,
           AfterMarkers(a \o (<<t>> \o b), d)
    PROVE  AfterMarkers(a \o (<<Garbled>> \o b), d)
<1> DEFINE g == <<Garbled>>
           s == <<t>>
           x == s \o b
           y == g \o b
           v == a \o x
           u == a \o y
           la == Len(a)
           lb == Len(b)
<1>1. /\ g \in Seq(Tokens) /\ s \in Seq(Tokens) /\ Len(g) = 1 /\ Len(s) = 1
      /\ g[1] = Garbled
  BY DEF Tokens
<1>2. a \in Seq(Tokens) /\ b \in Seq(Tokens) /\ la \in Nat /\ lb \in Nat
  BY LenProperties DEF Bytes
<1> HIDE DEF g, s
<1>3. /\ x \in Seq(Tokens) /\ Len(x) = 1 + lb
      /\ \A i \in 1 .. lb : x[1 + i] = b[i]
      /\ y \in Seq(Tokens) /\ Len(y) = 1 + lb /\ y[1] = g[1]
      /\ \A i \in 1 .. lb : y[1 + i] = b[i]
  <2>1. 1 \in 1 .. Len(g)
    BY <1>1
  <2>2. Joins(x, s, b) /\ Joins(y, g, b)
    BY <1>1, <1>2, Joined
  <2> HIDE DEF x, y
  <2> QED  BY <1>1, <2>1, <2>2 DEF Joins
<1> HIDE DEF x, y
<1>4. /\ v \in Seq(Tokens) /\ Len(v) = la + (1 + lb)
      /\ \A i \in 1 .. la : v[i] = a[i]
      /\ \A i \in 1 .. 1 + lb : v[la + i] = x[i]
      /\ u \in Seq(Tokens) /\ Len(u) = la + (1 + lb)
      /\ \A i \in 1 .. la : u[i] = a[i]
      /\ \A i \in 1 .. 1 + lb : u[la + i] = y[i]
  <2>1. Joins(v, a, x) /\ Joins(u, a, y)
    BY <1>2, <1>3, Joined
  <2> HIDE DEF u, v
  <2> QED  BY <1>3, <2>1 DEF Joins
<1> HIDE DEF u, v
<1>5. \A i \in 1 .. Len(v) : u[i] \in {v[i], Garbled}
  <2> SUFFICES ASSUME NEW i \in 1 .. la + (1 + lb) PROVE u[i] \in {v[i], Garbled}
    BY <1>4
  <2> HIDE DEF la, lb
  <2>1. CASE i <= la
    BY <1>2, <1>4, <2>1
  <2>2. CASE i = la + 1
    <3>1. 1 \in 1 .. 1 + lb
      BY <1>2
    <3> QED  BY <1>1, <1>3, <1>4, <2>2, <3>1
  <2>3. CASE i > la + 1
    <3> DEFINE j == i - (la + 1)
    <3>1. j \in 1 .. lb /\ 1 + j \in 1 .. 1 + lb /\ i = la + (1 + j)
      BY <1>2, <2>3
    <3> HIDE DEF j
    <3> QED  BY <1>3, <1>4, <3>1
  <2> QED  BY <1>2, <2>1, <2>2, <2>3
<1>6. MarkerAt(u, d) \subseteq MarkerAt(v, d)
  <2>1. Len(u) = Len(v)
    BY <1>4
  <2> QED  BY <1>4, <1>5, <2>1, GarbledStream
<1>7. ASSUME NEW i \in MarkerAt(u, d)
      PROVE  Follows(SubSeq(u, i + 2, Len(u)), d)
  <2>1. /\ i \in 1 .. Len(v) - 1 /\ Follows(SubSeq(v, i + 2, Len(v)), d)
        /\ u[i] = Half(d, 1) /\ u[i + 1] = Half(d, 2)
    BY <1>6 DEF AfterMarkers, MarkerAt, v, x, s
  <2>2. CASE i + 1 <= la
    <3> DEFINE r == SubSeq(a, (i + 1) + 1, Len(a))
    <3>1. i + 1 \in Nat /\ (i + 1) + 1 = i + 2
      BY <2>1
    <3>2. r \in Bytes /\ r \o x = SubSeq(v, i + 2, Len(v)) /\ r \o y = SubSeq(u, i + 2, Len(u))
      <4> DEFINE k == i + 1
      <4>1. k \in Nat /\ k <= Len(a) /\ k + 1 = i + 2
        BY <2>2, <3>1
      <4> HIDE DEF k
      <4>2. SubSeq(a, k + 1, Len(a)) \in Bytes
        BY <1>2, <4>1, ToSetSuffix DEF Bytes
      <4>3. SubSeq(a, k + 1, Len(a)) \o x = SubSeq(v, k + 1, Len(v))
        BY <1>2, <1>3, <4>1, SuffixConcat DEF v
      <4>4. SubSeq(a, k + 1, Len(a)) \o y = SubSeq(u, k + 1, Len(u))
        BY <1>2, <1>3, <4>1, SuffixConcat DEF u
      <4> QED  BY <4>1, <4>2, <4>3, <4>4 DEF k
    <3> HIDE DEF r
    <3>3. Follows(r \o (<<t>> \o b), d)
      BY <2>1, <3>2 DEF x, s
    <3>4. Follows(r \o (<<Garbled>> \o b), d)
      BY <3>2, <3>3, FollowsGarbled
    <3> QED  BY <3>2, <3>4 DEF y, g
  <2>3. CASE i + 1 > la
    <3> DEFINE k == (i + 1) - la
    <3> HIDE DEF la, lb
    <3>1. k \in Nat /\ k <= 1 + lb /\ k >= 1 /\ la + k + 1 = i + 2 /\ k + 1 = 1 + k
      BY <1>2, <1>4, <2>1, <2>3
    <3> HIDE DEF k
    <3>2. /\ SubSeq(u, i + 2, Len(u)) = SubSeq(y, k + 1, Len(y))
          /\ SubSeq(v, i + 2, Len(v)) = SubSeq(x, k + 1, Len(x))
      <4>1. EndsIn(u, a, y) /\ EndsIn(v, a, x)
        BY <1>2, <1>3, Joined DEF u, v
      <4>2. k <= Len(x) /\ k <= Len(y)
        BY <1>3, <3>1
      <4> QED  BY <3>1, <4>1, <4>2 DEF EndsIn, la
    <3> DEFINE j == k - 1
    <3>3. j \in Nat /\ j <= lb /\ 1 + j + 1 = k + 1
      BY <1>2, <3>1
    <3> HIDE DEF j
    <3>4. /\ SubSeq(y, k + 1, Len(y)) = SubSeq(b, j + 1, Len(b))
          /\ SubSeq(x, k + 1, Len(x)) = SubSeq(b, j + 1, Len(b))
      <4>1. EndsIn(y, g, b) /\ EndsIn(x, s, b)
        BY <1>1, <1>2, Joined DEF x, y
      <4> QED  BY <1>1, <3>3, <4>1 DEF EndsIn, lb
    <3> QED  BY <2>1, <3>2, <3>4
  <2>4. i + 1 <= la \/ i + 1 > la
    BY <1>2, <2>1
  <2> QED  BY <2>2, <2>3, <2>4
<1> QED
  BY <1>7 DEF AfterMarkers, u, y, g

\* The shell starts the line of d where no marker of d was.
LEMMA AfterStart ==
    ASSUME NEW a \in Bytes, NEW d \in Commands, MarkerAt(a, d) = {}
    PROVE  AfterMarkers(a \o Printed(d), d)
<1> DEFINE x == Printed(d)
           m == Marker(d)
           y == Body(d)
           u == a \o x
           la == Len(a)
           n == OutTokens
<1>1. /\ m \in Seq(Tokens) /\ Len(m) = 2 /\ m[1] = Half(d, 1) /\ m[2] = Half(d, 2)
      /\ y \in Seq(Tokens) /\ Len(y) = n + 3 /\ n \in Nat /\ x = m \o y
      /\ a \in Seq(Tokens) /\ la \in Nat
  <2>1. m \in Seq(Tokens) /\ x = m \o y /\ y \in Seq(Tokens) /\ Len(y) = n + 3 /\ n \in Nat
    BY PrintedIs, BodyTokens DEF Bytes
  <2>2. Len(m) = 2 /\ m[1] = Half(d, 1) /\ m[2] = Half(d, 2)
    BY DEF Marker
  <2> QED  BY <2>1, <2>2, LenProperties DEF Bytes
<1> HIDE DEF m, y
<1>2. /\ x \in Seq(Tokens) /\ Len(x) = 2 + (n + 3) /\ DOMAIN x = 1 .. Len(x)
      /\ x[1] = m[1] /\ x[2] = m[2] /\ \A i \in 1 .. n + 3 : x[2 + i] = y[i]
  <2>1. 1 \in 1 .. Len(m) /\ 2 \in 1 .. Len(m)
    BY <1>1
  <2> DEFINE z == m \o y
  <2>2. /\ z \in Seq(Tokens) /\ Len(z) = 2 + (n + 3) /\ z[1] = m[1] /\ z[2] = m[2]
        /\ \A i \in 1 .. n + 3 : z[2 + i] = y[i]
    <3>1. Joins(z, m, y)
      BY <1>1, Joined
    <3> HIDE DEF z
    <3> QED  BY <1>1, <2>1, <3>1 DEF Joins
  <2> HIDE DEF z, x
  <2>3. x = z
    BY <1>1 DEF z
  <2> QED  BY <2>2, <2>3, LenProperties
<1> HIDE DEF x
<1>3. ASSUME NEW i \in MarkerAt(u, d)
      PROVE  Follows(SubSeq(u, i + 2, Len(u)), d)
  <2> DEFINE j == i - la
  <2>1. j \in 1 .. Len(x) /\ x[j] = Half(d, 1)
    <3>1. Half(d, 1) # Half(d, 2) /\ x # <<>>
      <4>1. Half(d, 1) # Half(d, 2)
        BY DEF Half
      <4> QED  BY <1>1, <1>2, <4>1
    <3>2. j \in DOMAIN x /\ x[j] = Half(d, 1)
      <4>1. x[1] # Half(d, 2)
        BY <1>1, <1>2, <3>1
      <4>2. /\ \A k \in MarkerAt(a \o x, d) :
                  k - Len(a) \in DOMAIN x /\ x[k - Len(a)] = Half(d, 1)
            /\ Pure(x, d) => Clean(a \o x, d)
        <5> HIDE DEF u, j, la, n
        <5>1. a \in Seq(Tokens) /\ x \in Seq(Tokens) /\ x # <<>> /\ MarkerAt(a, d) = {}
          BY <1>1, <1>2, <3>1
        <5> QED  BY <4>1, <5>1, MarkersAfterAppend
      <4> HIDE DEF u
      <4> QED  BY <4>2 DEF u
    <3> QED  BY <1>2, <3>2
  <2>2. i \in Int /\ i <= Len(u) - 1 /\ Len(u) = la + Len(x)
    <3>1. Len(u) = la + Len(x)
      BY <1>1, <1>2, ConcatAt
    <3>2. i \in 1 .. Len(u) - 1
      BY DEF MarkerAt
    <3> HIDE DEF u
    <3> QED  BY <1>1, <1>2, <3>1, <3>2
  <2> HIDE DEF u
  <2>3. /\ j + 1 \in Nat /\ j + 1 <= Len(x) /\ la + (j + 1) + 1 = i + 2
    BY <1>1, <1>2, <2>1, <2>2
  <2>30. la + (j + 1) + 1 = i + 2
    BY <2>3
  <2>4. SubSeq(u, i + 2, Len(u)) = SubSeq(x, (j + 1) + 1, Len(x))
    <3> DEFINE k == j + 1
    <3>1. k \in Nat /\ k <= Len(x) /\ la + k + 1 = i + 2
      BY <2>3
    <3> HIDE DEF k, j, la
    <3>2. SubSeq(u, la + k + 1, Len(u)) = SubSeq(x, k + 1, Len(x))
      <4>1. EndsIn(u, a, x)
        BY <1>1, <1>2, Joined DEF u
      <4> QED  BY <3>1, <4>1 DEF EndsIn, la
    <3> QED  BY <3>1, <3>2 DEF k
  <2> HIDE DEF j
  <2>5. CASE j = 1
    <3>1. SubSeq(x, 3, Len(x)) = y
      <4> DEFINE z == m \o y
      <4>1. SubSeq(z, 2 + 1, Len(z)) = y
        <5>1. EndsIn(z, m, y)
          BY <1>1, Joined
        <5> HIDE DEF z
        <5> QED  BY <1>1, <5>1 DEF EndsIn
      <4>2. x = z
        BY <1>1
      <4> HIDE DEF z, x
      <4> QED  BY <4>1, <4>2
    <3>2. SubSeq(u, i + 2, Len(u)) = SubSeq(x, 3, Len(x))
      <4>1. (j + 1) + 1 = 3
        BY <2>5
      <4>2. SubSeq(x, (j + 1) + 1, Len(x)) = SubSeq(x, 3, Len(x))
        BY <4>1
      <4> QED  BY <2>4, <4>2
    <3>3. Follows(y, d)
      BY BodyFollows DEF y
    <3> QED  BY <3>1, <3>2, <3>3
  <2>6. CASE j # 1
    <3>1. j # 2
      <4>1. Half(d, 1) # Half(d, 2)
        BY DEF Half
      <4> QED  BY <1>1, <1>2, <2>1, <4>1
    <3>2. j - 2 \in 1 .. n + 3 /\ j = 2 + (j - 2)
      BY <1>1, <1>2, <2>1, <2>6, <3>1
    <3>3. y[j - 2] = Half(d, 1)
      BY <1>2, <2>1, <3>2
    <3>4. j - 2 = n + 2
      BY <3>2, <3>3, BodyTokens DEF y
    <3>5. (j + 1) + 1 = Len(x) + 1
      BY <1>1, <1>2, <2>1, <3>4
    <3>6. SubSeq(x, (j + 1) + 1, Len(x)) = <<>>
      BY <1>2, <3>5, SubSeqEmpty
    <3> QED  BY <2>4, <3>6, BodyFollows
  <2> QED  BY <2>5, <2>6
<1> QED
  BY <1>3 DEF AfterMarkers, u, x

-----------------------------------------------------------------------------
(* The methods keep the answers complete.                                  *)

\* Skipping the commands that wait completes none of them.
LEMMA DequeueFull ==
    ASSUME NEW q, IsQueue(q), NEW M, FullResults(q, M)
    PROVE  FullResults(DequeueNext(q), M)
<1> DEFINE p    == q.pending
           live == {i \in DOMAIN p : Sendable(p[i])}
           n    == IF live = {} THEN Len(p) ELSE Min(live) - 1
           skipped == {p[i] : i \in 1 .. n}
           late == skipped \ gone
           res  == [c \in Commands |-> IF c \in late THEN TimedOut(<<>>)
                                      ELSE IF c \in skipped THEN Closed
                                      ELSE q.result[c]]
           rest == SubSeq(p, n + 2, Len(p))
           errs == q.errors + Cardinality(late)
           left == [q EXCEPT !.pending = rest, !.result = res, !.errors = errs]
           next == p[n + 1]
           r    == DequeueNext(q)
<1>1. /\ \A c : FullResult(Closed, c) /\ FullResult(TimedOut(<<>>), c)
  BY DEF FullResult, Closed, TimedOut
<1>2. r \in {q, left, SendCommand(left, next)}
  <2> HIDE DEF left, live, next, n
  <2> QED  BY DEF DequeueNext, left, live, next, n
<1>3. \A c \in Commands : res[c] \in {TimedOut(<<>>), Closed, q.result[c]}
  <2> HIDE DEF late, skipped
  <2> QED  OBVIOUS
<1>4. res = [c \in Commands |-> res[c]]
  <2> HIDE DEF late, skipped
  <2> QED  OBVIOUS
<1>5. left = [f \in Fields |-> left[f]] /\ left.result = res
  <2> HIDE DEF rest, res, errs
  <2> QED  BY DEF IsQueue, Fields
<1> HIDE DEF left, res, next
<1>6. SendCommand(left, next).result \in {res, [res EXCEPT ![next] = Closed]}
  <2> DEFINE closed == [res EXCEPT ![next] = Closed]
             tx == Append(left.tx, next)
  <2>1. CASE left.write_fn
    <3>1. SendCommand(left, next) = [left EXCEPT !.current = next, !.scan = FreshScan, !.tx = tx]
      BY <2>1 DEF SendCommand
    <3> HIDE DEF tx
    <3> QED  BY <1>5, <3>1 DEF Fields
  <2>2. CASE ~left.write_fn
    <3>1. SendCommand(left, next) = [left EXCEPT !.result = closed]
      BY <1>5, <2>2 DEF SendCommand, Resolve
    <3> HIDE DEF closed
    <3> QED  BY <1>5, <3>1 DEF Fields, closed
  <2> QED  BY <2>1, <2>2
<1>7. \A c \in Commands : [res EXCEPT ![next] = Closed][c] \in {Closed, res[c]}
  BY <1>4
<1> DEFINE closed == [res EXCEPT ![next] = Closed]
<1> HIDE DEF closed
<1>8. r.result \in {q.result, res, closed}
  <2> HIDE DEF r
  <2> QED  BY <1>2, <1>5, <1>6 DEF closed
<1>9. \A c \in Commands : r.result[c] \in {Closed, TimedOut(<<>>), q.result[c]}
  <2> HIDE DEF r
  <2> QED  BY <1>3, <1>7, <1>8 DEF closed
<1> HIDE DEF r
<1>10. \A c \in Commands \ M : FullResult(r.result[c], c)
  BY <1>1, <1>9 DEF FullResults
<1> QED
  BY <1>10 DEF FullResults, r

\* The command on the line is answered, and the next one is sent.
LEMMA RetireFull ==
    ASSUME NEW q, NEW S \in SUBSET Commands, Slots(q, S), Moving(q), NEW M,
           q.current # NoCommand, FullResults(q, M),
           NEW a, a # NoResult, q.current \notin M => FullResult(a, q.current),
           NEW r, r = [f \in Fields |-> r[f]],
           r.current = NoCommand, r.pending = q.pending, r.write_fn = q.write_fn,
           r.result = [q.result EXCEPT ![q.current] = a]
    PROVE  FullResults(DequeueNext(r), M)
<1>1. IsQueue(r)
  BY RetireSlots DEF Slots
<1>2. q.current \in Commands /\ q.result = [e \in Commands |-> q.result[e]]
  BY DEF Slots, IsQueue
<1>3. \A e \in Commands : r.result[e] = IF e = q.current THEN a ELSE q.result[e]
  BY <1>2
<1>4. FullResults(r, M)
  <2> SUFFICES ASSUME NEW e \in Commands \ M PROVE FullResult(r.result[e], e)
    BY DEF FullResults
  <2>1. CASE e = q.current
    BY <1>3, <2>1
  <2>2. CASE e # q.current
    BY <1>3, <2>2 DEF FullResults
  <2> QED  BY <2>1, <2>2
<1> QED
  BY <1>1, <1>4, DequeueFull

\* There is no marker of the command that was just sent.
LEMMA FreshFull ==
    ASSUME NEW q, NEW b \in Bytes, Fresh(q, b), q.current # NoCommand
    PROVE  FullStream(q, b)
<1>1. /\ q.scan.found_begin = FALSE /\ q.scan.search_buf = <<>> /\ Unseen(b, q.current)
  BY DEF Fresh, FreshScan
<1>2. q.scan.search_buf \o b = b
  BY <1>1, ConcatEmptySeq DEF Bytes
<1>3. MarkerAt(b, q.current) = {}
  BY <1>1, UnseenClean DEF Bytes
<1> QED
  BY <1>1, <1>2, <1>3 DEF FullStream, AfterMarkers

\* A step of the queue before the bytes are scanned.
LEMMA CarriedFull ==
    ASSUME NEW q, NEW r, NEW b \in Bytes, NEW M, Full(q, b, M), Carried(q, r, b),
           FullResults(r, M)
    PROVE  Full(r, b, M)
<1>1. ASSUME r.current # NoCommand, r.current \notin M PROVE FullStream(r, b)
  <2>1. CASE Fresh(r, b)
    BY <1>1, <2>1, FreshFull
  <2>2. CASE r.current = q.current /\ r.scan = q.scan
    BY <1>1, <2>2 DEF Full, FullStream
  <2> QED  BY <2>1, <2>2 DEF Carried
<1> QED
  BY <1>1 DEF Full

\* The deadline of the command on the line.
LEMMA ExpireFull ==
    ASSUME NEW q, NEW S \in SUBSET Commands, Slots(q, S), Moving(q), QueueTyped(q),
           NEW b \in Bytes, NEW L \in Seq(Commands), NEW M,
           Own(q, b, L, M, S), Full(q, b, M)
    PROVE  Full(ExpireCurrent(q), b, M)
<1>1. Carried(q, ExpireCurrent(q), b)
  BY ExpireOwn DEF Bytes
<1>2. FullResults(ExpireCurrent(q), M)
  <2>1. CASE ~CurrentExpired(q)
    BY <2>1 DEF ExpireCurrent, Full
  <2>2. CASE CurrentExpired(q)
    <3> DEFINE a == TimedOut(q.scan.spill \o q.scan.buffer)
               e == q.errors + 1
               r == [Resolve(q, q.current, a) EXCEPT !.current = NoCommand, !.errors = e]
    <3>1. q.current # NoCommand
      BY <2>2 DEF CurrentExpired
    <3>2. ExpireCurrent(q) = DequeueNext(r)
      <4>1. Resolve(q, q.current, a).errors = q.errors
        BY DEF Resolve, QueueTyped, QueueType
      <4> QED  BY <2>2, <4>1 DEF ExpireCurrent
    <3>3. a # NoResult /\ FullResult(a, q.current)
      BY AnswersAreAnswers DEF TimedOut, FullResult
    <3> HIDE DEF a, e
    <3>4. /\ r = [f \in Fields |-> r[f]]
          /\ r.current = NoCommand /\ r.pending = q.pending /\ r.write_fn = q.write_fn
          /\ r.result = [q.result EXCEPT ![q.current] = a]
      BY DEF Resolve, Slots, IsQueue, Fields
    <3> HIDE DEF r
    <3>5. FullResults(q, M)
      BY DEF Full
    <3>6. FullResults(DequeueNext(r), M)
      BY <3>1, <3>3, <3>4, <3>5, RetireFull
    <3> QED  BY <3>2, <3>6
  <2> QED  BY <2>1, <2>2
<1> QED
  BY <1>1, <1>2, CarriedFull

\* execute.
LEMMA SubmitFull ==
    ASSUME NEW q, NEW S \in SUBSET Commands, Slots(q, S), QueueTyped(q),
           NEW b \in Bytes, NEW L \in Seq(Commands), NEW M,
           NEW c \in Commands \ S, Own(q, b, L, M, S), Full(q, b, M)
    PROVE  Full(Submit(q, c), b, M)
<1> DEFINE r == Submit(q, c)
<1>1. Carried(q, r, b)
  BY SubmitOwn DEF Bytes
<1>2. IsQueue(q) /\ q.result = [e \in Commands |-> q.result[e]] /\ FullResults(q, M)
  BY DEF Slots, IsQueue, Full
<1>3. \A e : FullResult(Closed, e) /\ FullResult(Rejected, e)
  BY DEF FullResult, Closed, Rejected
<1>4. r.result = q.result \/ \E a \in {Closed, Rejected} : r.result = [q.result EXCEPT ![c] = a]
  <2> DEFINE rejected == [q.result EXCEPT ![c] = Rejected]
             closed == [q.result EXCEPT ![c] = Closed]
             tx == Append(q.tx, c)
             p == Append(q.pending, c)
  <2>1. \/ r = [q EXCEPT !.result = rejected]
        \/ r = [q EXCEPT !.result = closed]
        \/ r = [q EXCEPT !.current = c, !.scan = FreshScan, !.tx = tx]
        \/ r = [q EXCEPT !.pending = p]
    BY DEF Submit, SendCommand, Resolve
  <2> HIDE DEF rejected, closed, tx, p, r
  <2>2. r.result \in {q.result, rejected, closed}
    BY <1>2, <2>1 DEF IsQueue, Fields
  <2> QED  BY <2>2 DEF rejected, closed
<1> HIDE DEF r
<1>5. ASSUME NEW e \in Commands \ M PROVE FullResult(r.result[e], e)
  <2>1. r.result[e] \in {q.result[e], Closed, Rejected}
    BY <1>2, <1>4
  <2> QED  BY <1>2, <1>3, <2>1 DEF FullResults
<1>6. FullResults(r, M)
  BY <1>5 DEF FullResults
<1> QED
  BY <1>1, <1>6, CarriedFull DEF r

\* Spilling moves what was captured and loses nothing.
LEMMA SpillWhole ==
    ASSUME NEW scan \in ScanType, NEW writes
    PROVE  LET r == Spill(scan, writes) IN
           /\ r.spill \in Bytes /\ r.buffer \in Bytes
           /\ r.found_begin = scan.found_begin
           /\ r.spill \o r.buffer = scan.spill \o scan.buffer
<1> DEFINE b == scan.buffer
           n == Len(b) - TrimKeep
           front == SubSeq(b, 1, n)
           kept == SubSeq(b, n + 1, Len(b))
           spilled == scan.spill \o front
           r == Spill(scan, writes)
<1>1. b \in Seq(Tokens) /\ scan.spill \in Seq(Tokens)
  BY DEF ScanType
<1>2. CASE Len(b) > BufferCap /\ writes
  <2>1. n \in 0 .. Len(b)
    BY <1>1, <1>2, QueueAssumption
  <2> HIDE DEF n
  <2>2. front \in Seq(Tokens) /\ kept \in Seq(Tokens) /\ front \o kept = b
    BY <1>1, <2>1, SplitStream
  <2> HIDE DEF front, kept
  <2>3. r = [scan EXCEPT !.spill = spilled, !.buffer = kept]
    BY <1>2 DEF Spill, front, kept, n
  <2>4. spilled \in Seq(Tokens) /\ spilled \o kept = scan.spill \o b
    <3> DEFINE sp == scan.spill
    <3>1. sp \in Bytes /\ front \in Bytes /\ kept \in Bytes
      BY <1>1, <2>2 DEF Bytes
    <3> HIDE DEF sp
    <3>2. sp \o front \in Bytes /\ (sp \o front) \o kept = sp \o (front \o kept)
      BY <3>1, Streams
    <3> QED  BY <2>2, <3>2 DEF Bytes, sp
  <2> HIDE DEF spilled, r
  <2>5. r.spill = spilled /\ r.buffer = kept /\ r.found_begin = scan.found_begin
    BY <2>3 DEF ScanType
  <2> QED  BY <2>2, <2>4, <2>5 DEF r, Bytes
<1>3. CASE ~(Len(b) > BufferCap /\ writes)
  BY <1>1, <1>3 DEF Spill, Bytes
<1> QED
  BY <1>2, <1>3

\* A chunk is scanned: nothing that follows the marker is lost.
LEMMA ScannedFull ==
    ASSUME NEW q, QueueTyped(q), q.current # NoCommand,
           NEW data \in Bytes, NEW b \in Bytes, NEW writes \in BOOLEAN,
           OwnScan(q), FullStream(q, data \o b)
    PROVE  FullStream([q EXCEPT !.scan = Scanned(q, data, writes)], b)
<1> DEFINE t == Scanned(q, data, writes)
           r == [q EXCEPT !.scan = t]
           d == q.current
           s == q.scan
           F(x, y) == x \o y
<1>1. /\ r.scan = t /\ r.current = d /\ d \in Commands /\ s \in ScanType
  <2> HIDE DEF t
  <2> QED  BY DEF QueueTyped, QueueType
<1>2. s.spill \in Bytes /\ s.buffer \in Bytes /\ s.search_buf \in Bytes
  BY <1>1 DEF ScanType, Bytes
<1>3. \A x, y, z \in Bytes : F(x, y) \in Bytes /\ F(F(x, y), z) = F(x, F(y, z))
  BY Streams
<1> HIDE DEF r, s
<1>4. CASE s.found_begin
  <2> DEFINE more == F(s.buffer, data)
             begun == [s EXCEPT !.buffer = more]
  <2>1. begun = [s EXCEPT !.buffer = s.buffer \o data]
    OBVIOUS
  <2>2. t = Spill(begun, writes)
    <3> HIDE DEF begun
    <3> QED  BY <1>4, <2>1 DEF Scanned, s
  <2> HIDE DEF F
  <2>3. more \in Bytes
    BY <1>2, <1>3
  <2> HIDE DEF more
  <2>4. /\ begun \in ScanType /\ begun.found_begin
        /\ begun.spill = s.spill /\ begun.buffer = more
    BY <1>1, <1>4, <2>3 DEF ScanType, Bytes
  <2> HIDE DEF begun, t
  <2>5. t.found_begin /\ F(t.spill, t.buffer) = F(s.spill, more)
    BY <2>2, <2>4, SpillWhole DEF F
  <2>6. F(F(s.spill, more), b) = F(F(s.spill, s.buffer), F(data, b))
    <3> DEFINE x == s.spill
               y == s.buffer
    <3>1. x \in Bytes /\ y \in Bytes
      BY <1>2
    <3> HIDE DEF x, y
    <3>2. F(x, F(y, data)) = F(F(x, y), data) /\ F(x, y) \in Bytes
      BY <1>3, <3>1
    <3>3. F(F(F(x, y), data), b) = F(F(x, y), F(data, b))
      BY <1>3, <3>2
    <3> QED  BY <3>2, <3>3 DEF x, y, more
  <2>7. Follows(F(F(s.spill, s.buffer), F(data, b)), d)
    BY <1>4 DEF FullStream, F, s
  <2>8. Follows(F(F(t.spill, t.buffer), b), d)
    BY <2>5, <2>6, <2>7
  <2> QED  BY <1>1, <2>5, <2>8 DEF FullStream, F, r, t
<1>5. CASE ~s.found_begin
  <2> DEFINE g == FindBegin(s, d, data)
             v == F(s.search_buf, F(data, b))
  <2>1. t = IF g.found_begin THEN Spill(g, writes) ELSE g
    BY <1>5 DEF Scanned, s
  <2>2. s.spill = <<>> /\ (s.echo_matched < 3 => s.search_buf = <<>>)
    BY <1>5 DEF OwnScan, s
  <2>3. g \in ScanType
    BY <1>1, FindBeginTyped DEF Bytes
  <2>4. /\ g.spill = s.spill
        /\ g.found_begin => \E j \in MarkerAt(v, d) :
                               F(g.buffer, b) = SubSeq(v, j + 2, Len(v))
        /\ ~g.found_begin => \E j \in 0 .. Len(v) :
                               F(g.search_buf, b) = SubSeq(v, j + 1, Len(v))
    <3> HIDE DEF g
    <3> QED  BY <1>1, <1>5, <2>2, FindBeginStream DEF Bytes, g
  <2>5. AfterMarkers(v, d)
    BY <1>5 DEF FullStream, s
  <2> HIDE DEF F
  <2>6. v \in Bytes
    BY <1>2, <1>3
  <2> HIDE DEF g, v, t
  <2>7. CASE g.found_begin
    <3>1. t.found_begin /\ F(t.spill, t.buffer) = F(g.spill, g.buffer)
      BY <2>1, <2>3, <2>7, SpillWhole DEF F
    <3>2. F(g.spill, g.buffer) = g.buffer
      BY <2>2, <2>3, <2>4, ConcatEmptySeq DEF F, ScanType
    <3>3. Follows(F(F(t.spill, t.buffer), b), d)
      BY <2>4, <2>5, <2>7, <3>1, <3>2 DEF AfterMarkers
    <3> QED  BY <1>1, <3>1, <3>3 DEF FullStream, F, r, t
  <2>8. CASE ~g.found_begin
    <3>1. t = g
      BY <2>1, <2>8
    <3>2. AfterMarkers(F(t.search_buf, b), d)
      BY <2>4, <2>5, <2>6, <2>8, <3>1, AfterSuffix
    <3> QED  BY <1>1, <2>8, <3>1, <3>2 DEF FullStream, F, r, t
  <2> QED  BY <2>7, <2>8
<1> QED
  BY <1>4, <1>5

\* A marker cuts a sequence in three.
LEMMA MarkerSplit ==
    ASSUME NEW s \in Bytes, NEW c \in Commands, NEW at \in MarkerAt(s, c)
    PROVE  /\ SubSeq(s, 1, at - 1) \in Bytes /\ SubSeq(s, at + 2, Len(s)) \in Bytes
           /\ s = SubSeq(s, 1, at - 1) \o (Marker(c) \o SubSeq(s, at + 2, Len(s)))
<1> DEFINE n == Len(s)
           h == SubSeq(s, 1, at - 1)
           z == SubSeq(s, at + 2, n)
           m == Marker(c)
           y == m \o z
           w == h \o y
<1>1. /\ at \in 1 .. n - 1 /\ s[at] = Half(c, 1) /\ s[at + 1] = Half(c, 2)
      /\ n \in Nat /\ s \in Seq(Tokens)
  BY LenProperties DEF MarkerAt, Bytes
<1>2. h \in Seq(Tokens) /\ Len(h) = at - 1 /\ \A i \in 1 .. at - 1 : h[i] = s[i]
  BY <1>1
<1>3. /\ z \in Seq(Tokens) /\ Len(z) = n - (at + 1)
      /\ \A i \in 1 .. n - (at + 1) : z[i] = s[(at + 1) + i]
  <2>1. at + 1 \in Nat /\ at + 1 <= n /\ at + 2 = (at + 1) + 1
    BY <1>1
  <2> QED  BY <1>1, <2>1, ToSetSuffix
<1>4. m \in Seq(Tokens) /\ Len(m) = 2 /\ m[1] = Half(c, 1) /\ m[2] = Half(c, 2)
  BY PrintedIs DEF Bytes, Marker
<1> HIDE DEF h, z, m, n
<1>5. /\ y \in Seq(Tokens) /\ Len(y) = 2 + (n - (at + 1))
      /\ y[1] = m[1] /\ y[2] = m[2]
      /\ \A i \in 1 .. n - (at + 1) : y[2 + i] = z[i]
  <2>1. 1 \in 1 .. Len(m) /\ 2 \in 1 .. Len(m)
    BY <1>4
  <2>2. Joins(y, m, z)
    BY <1>3, <1>4, Joined
  <2> HIDE DEF y
  <2> QED  BY <1>3, <1>4, <2>1, <2>2 DEF Joins
<1> HIDE DEF y
<1>6. /\ w \in Seq(Tokens) /\ Len(w) = (at - 1) + Len(y)
      /\ \A i \in 1 .. at - 1 : w[i] = h[i]
      /\ \A i \in 1 .. Len(y) : w[(at - 1) + i] = y[i]
  <2>1. Joins(w, h, y)
    BY <1>2, <1>5, Joined
  <2> HIDE DEF w
  <2> QED  BY <1>2, <2>1 DEF Joins
<1> HIDE DEF w
<1>7. Len(w) = n
  BY <1>1, <1>5, <1>6
<1>8. ASSUME NEW i \in 1 .. n PROVE w[i] = s[i]
  <2>1. CASE i <= at - 1
    BY <1>1, <1>2, <1>6, <2>1
  <2>2. CASE i = at
    <3>1. 1 \in 1 .. Len(y) /\ (at - 1) + 1 = at
      BY <1>1, <1>5
    <3> QED  BY <1>1, <1>4, <1>5, <1>6, <2>2, <3>1
  <2>3. CASE i = at + 1
    <3>1. 2 \in 1 .. Len(y) /\ (at - 1) + 2 = at + 1
      BY <1>1, <1>5
    <3> QED  BY <1>1, <1>4, <1>5, <1>6, <2>3, <3>1
  <2>4. CASE i > at + 1
    <3> DEFINE j == i - (at + 1)
    <3>1. /\ j \in 1 .. n - (at + 1) /\ 2 + j \in 1 .. Len(y)
          /\ (at - 1) + (2 + j) = i /\ (at + 1) + j = i
      BY <1>1, <1>5, <2>4
    <3> HIDE DEF j
    <3> QED  BY <1>3, <1>5, <1>6, <3>1
  <2> QED  BY <1>1, <2>1, <2>2, <2>3, <2>4
<1>9. w = s
  BY <1>1, <1>6, <1>7, <1>8, SeqEqual DEF n
<1> QED
  BY <1>2, <1>3, <1>9 DEF h, z, m, n, y, w, Bytes

\* Taking the exit code off a whole answer.
LEMMA ExtractFull ==
    ASSUME NEW p \in Bytes, NEW c \in Commands, Whole(WithoutPrintk(p), c)
    PROVE  FullResult(ExtractExit(p), c)
<1> DEFINE n == Len(p)
           last == p[n]
           front == SubSeq(p, 1, n - 1)
           W(x) == WithoutPrintk(x)
           k == OutTokens
<1>1. p \in Seq(Tokens) /\ n \in Nat
  BY LenProperties DEF Bytes
<1>2. CASE p # <<>> /\ p[Len(p)].k = "exit"
  <2>1. n \in 1 .. n /\ n - 1 \in 0 .. n
    BY <1>1, <1>2
  <2>2. last \in Tokens /\ last.k = "exit"
    BY <1>1, <1>2, <2>1
  <2>3. last # Printk /\ last # Garbled
    BY <2>2 DEF Printk, Garbled
  <2>4. p = front \o <<last>> /\ front \in Bytes
    <3>1. /\ front \in Seq(Tokens) /\ SubSeq(p, (n - 1) + 1, Len(p)) \in Seq(Tokens)
          /\ front \o SubSeq(p, (n - 1) + 1, Len(p)) = p
      <4> DEFINE m == n - 1
      <4>1. m \in 0 .. Len(p)
        BY <2>1
      <4> HIDE DEF m
      <4>2. /\ SubSeq(p, 1, m) \in Seq(Tokens) /\ SubSeq(p, m + 1, Len(p)) \in Seq(Tokens)
            /\ SubSeq(p, 1, m) \o SubSeq(p, m + 1, Len(p)) = p
        BY <1>1, <4>1, SplitStream
      <4> QED  BY <4>2 DEF m
    <3>2. SubSeq(p, (n - 1) + 1, Len(p)) = <<last>>
      <4> DEFINE e == SubSeq(p, (n - 1) + 1, Len(p))
      <4>1. n \in Nat /\ n - 1 \in Nat /\ n - 1 <= Len(p) /\ Len(p) - (n - 1) = 1 /\ (n - 1) + 1 = n
        BY <1>1, <2>1
      <4>2. /\ e \in Seq(Tokens) /\ Len(e) = Len(p) - (n - 1)
            /\ \A i \in 1 .. Len(p) - (n - 1) : e[i] = p[(n - 1) + i]
        BY <1>1, <4>1, ToSetSuffix
      <4> HIDE DEF e, n
      <4>3. e \in Seq(Tokens) /\ Len(e) = 1 /\ e[1] = p[n]
        BY <4>1, <4>2
      <4>4. e = <<p[n]>>
        BY <4>3
      <4> QED  BY <4>4 DEF e
    <3> QED  BY <3>1, <3>2 DEF Bytes
  <2>5. ExtractExit(p) = OkResult(front, TRUE)
    <3> HIDE DEF front
    <3> QED  BY <1>2 DEF ExtractExit, front
  <2>6. <<last>> \in Bytes /\ W(<<last>>) = <<last>>
    BY <2>2, <2>3, SaidToken DEF Bytes
  <2> HIDE DEF last, front
  <2>7. W(front) \in Seq(Tokens) /\ W(p) = W(front) \o <<last>>
    BY <2>4, <2>6, SaidConcat DEF Bytes
  <2> HIDE DEF W
  <2>8. Len(W(p)) = k + 1 /\ W(p)[k + 1] \in {Exit(c), Garbled}
    BY DEF Whole, W
  <2>9. W(p)[k + 1] = last
    <3>1. Len(W(p)) = Len(W(front)) + 1 /\ W(p)[Len(W(front)) + 1] = last
      BY <2>7
    <3> QED  BY <2>8, <3>1
  <2>10. W(p) = W(front) \o <<Exit(c)>>
    BY <2>3, <2>7, <2>8, <2>9
  <2>11. OkResult(front, TRUE).out = front /\ OkResult(front, TRUE).exit = TRUE
    BY DEF OkResult
  <2> QED  BY <2>5, <2>10, <2>11 DEF FullResult, W
<1>3. CASE ~(p # <<>> /\ p[Len(p)].k = "exit")
  <2>1. ExtractExit(p) = OkResult(p, FALSE)
    BY <1>3 DEF ExtractExit
  <2>2. W(p) \o <<>> = W(p)
    BY SaidConcat, ConcatEmptySeq DEF Bytes
  <2>3. OkResult(p, FALSE).out = p /\ OkResult(p, FALSE).exit = FALSE
    BY DEF OkResult
  <2> QED  BY <2>1, <2>2, <2>3 DEF FullResult
<1> QED
  BY <1>2, <1>3

\* One pass over a chunk: at the end marker the answer is whole.
LEMMA ScanFull ==
    ASSUME NEW q, NEW S \in SUBSET Commands, Slots(q, S), Moving(q), QueueTyped(q),
           NEW data \in Bytes, NEW b \in Bytes,
           NEW L \in Seq(Commands), NEW M, NEW writes \in BOOLEAN,
           Own(q, data \o b, L, M, S), Full(q, data \o b, M)
    PROVE  LET r == ScanChunk(q, data, writes)
           IN  r.rest \in Bytes /\ Full(r.q, r.rest \o b, M)
<1> DEFINE r == ScanChunk(q, data, writes)
           d == q.current
           t == Scanned(q, data, writes)
           s == [q EXCEPT !.scan = t]
<1>1. Fresh(r.q, r.rest \o b) \/ ScansOn(q, data, writes, r)
  BY ScanOwn DEF Bytes
<1>2. r.rest \in Bytes
  BY ScanChunkTyped DEF Bytes
<1>3. r.rest \o b \in Bytes /\ <<>> \o b = b
  <2> HIDE DEF r
  <2> QED  BY <1>2, Streams, ConcatEmptySeq DEF Bytes
<1>4. FullResults(q, M)
  BY DEF Full
<1>5. ASSUME d # NoCommand, d \notin M PROVE FullStream(s, b)
  <2>1. OwnScan(q) /\ FullStream(q, data \o b)
    BY <1>5 DEF Own, Full
  <2> QED  BY <1>5, <2>1, ScannedFull
<1>6. s.current = d /\ s.result = q.result /\ s.scan = t /\ d \in Commands \cup {NoCommand}
  <2> HIDE DEF t
  <2> QED  BY DEF QueueTyped, QueueType
<1>7. ASSUME r.q.current # NoCommand, r.q.current \notin M
      PROVE  FullStream(r.q, r.rest \o b)
  <2>1. CASE Fresh(r.q, r.rest \o b)
    <3> HIDE DEF r
    <3> QED  BY <1>3, <1>7, <2>1, FreshFull
  <2>2. CASE ScansOn(q, data, writes, r)
    <3>1. d # NoCommand /\ r.q = s /\ r.rest = <<>>
      BY <2>2 DEF ScansOn
    <3> HIDE DEF r, s
    <3> QED  BY <1>3, <1>5, <1>6, <1>7, <3>1
  <2> QED  BY <1>1, <2>1, <2>2
<1>8. FullResults(r.q, M)
  <2>1. CASE d = NoCommand
    <3>1. r.q = q
      BY <2>1 DEF ScanChunk
    <3> QED  BY <1>4, <3>1
  <2>2. CASE d # NoCommand
    <3> DEFINE ends == IF t.found_begin THEN MarkerAt(t.buffer, d) ELSE {}
               at == Min(ends)
               head == SubSeq(t.buffer, 1, at - 1)
               out == t.spill \o head
               rest == SubSeq(t.buffer, at + 2, Len(t.buffer))
    <3>1. r = IF ends = {} THEN [q |-> s, rest |-> <<>>]
              ELSE [q |-> Complete(q, t, at), rest |-> rest]
      BY <2>2 DEF ScanChunk, Scanned
    <3>2. OwnScan(q) /\ (d \notin M => OwnStream(q, data \o b, L))
      BY <2>2 DEF Own
    <3>3. t \in ScanType
      BY <2>2, <3>2, ScannedOwn DEF Bytes
    <3> HIDE DEF t
    <3>4. t.buffer \in Bytes /\ t.spill \in Bytes
      BY <3>3 DEF ScanType, Bytes
    <3>5. CASE ends = {}
      <4>1. r.q = s
        BY <3>1, <3>5
      <4> HIDE DEF r, s
      <4> QED  BY <1>4, <1>6, <4>1 DEF FullResults
    <3>6. CASE ends # {}
      <4>1. t.found_begin /\ ends = MarkerAt(t.buffer, d) /\ d \in Commands
        BY <1>6, <2>2, <3>6
      <4>2. at \in MarkerAt(t.buffer, d)
        <5>1. ends \in SUBSET Nat
          BY <4>1 DEF MarkerAt
        <5> HIDE DEF ends
        <5>2. at \in ends
          BY <3>6, <5>1, MinOfNaturals
        <5> QED  BY <4>1, <5>2
      <4>3. r.q = Complete(q, t, at)
        <5>1. r = [q |-> Complete(q, t, at), rest |-> rest]
          BY <3>1, <3>6
        <5> HIDE DEF r, rest, at, ends, s
        <5> QED  BY <5>1
      <4> HIDE DEF at, ends, r
      <4>4. /\ head \in Bytes /\ rest \in Bytes
            /\ t.buffer = head \o (Marker(d) \o rest)
        BY <3>4, <4>1, <4>2, MarkerSplit
      <4> HIDE DEF head, rest
      <4>5. out \in Bytes
        BY <3>4, <4>4, Streams
      <4>6. d \notin M => FullResult(ExtractExit(out), d)
        <5> SUFFICES ASSUME d \notin M PROVE FullResult(ExtractExit(out), d)
          OBVIOUS
        <5> DEFINE F(x, y) == x \o y
        <5>1. Follows(F(F(t.spill, t.buffer), b), d)
          <6>1. FullStream(s, b)
            BY <1>5, <2>2
          <6> HIDE DEF s
          <6> QED  BY <1>6, <4>1, <6>1 DEF FullStream
        <5>2. \A x, y, z \in Bytes : F(x, y) \in Bytes /\ F(F(x, y), z) = F(x, F(y, z))
          BY Streams
        <5>3. Marker(d) \in Bytes
          BY <4>1, PrintedIs
        <5>4. t.buffer = F(head, F(Marker(d), rest))
          BY <4>4
        <5> HIDE DEF F
        <5>5. F(F(t.spill, t.buffer), b) = F(F(t.spill, head), F(Marker(d), F(rest, b)))
          <6> DEFINE m == Marker(d)
                     sp == t.spill
          <6> HIDE DEF m, sp
          <6>1. m \in Bytes /\ sp \in Bytes /\ t.buffer = F(head, F(m, rest))
            BY <3>4, <5>3, <5>4 DEF m, sp
          <6>2. F(sp, F(head, F(m, rest))) = F(F(sp, head), F(m, rest)) /\ F(sp, head) \in Bytes
            BY <4>4, <5>2, <6>1
          <6>3. F(F(F(sp, head), F(m, rest)), b) = F(F(sp, head), F(F(m, rest), b))
            BY <4>4, <5>2, <6>1, <6>2
          <6>4. F(F(m, rest), b) = F(m, F(rest, b))
            BY <4>4, <5>2, <6>1
          <6> QED  BY <6>1, <6>2, <6>3, <6>4 DEF m, sp
        <5>6. F(rest, b) \in Bytes
          BY <4>4, <5>2
        <5>7. Follows(out \o (Marker(d) \o F(rest, b)), d)
          BY <5>1, <5>5 DEF F
        <5> HIDE DEF out
        <5>8. Whole(WithoutPrintk(out), d)
          BY <4>1, <4>5, <5>6, <5>7, FollowsEnd
        <5> QED  BY <4>1, <4>5, <5>8, ExtractFull
      <4> DEFINE a == ExtractExit(out)
                 n == q.completed + 1
                 done == [Resolve(q, d, a) EXCEPT !.current = NoCommand, !.completed = n]
      <4>7. Complete(q, t, at) = DequeueNext(done)
        <5>1. Resolve(q, q.current, a).completed = q.completed
          BY DEF Resolve, QueueTyped, QueueType
        <5> QED  BY <5>1 DEF Complete, head
      <4> HIDE DEF out
      <4>8. a # NoResult
        BY AnswersAreAnswers DEF ExtractExit
      <4> HIDE DEF a, n
      <4>9. /\ done = [f \in Fields |-> done[f]]
            /\ done.current = NoCommand /\ done.pending = q.pending
            /\ done.write_fn = q.write_fn
            /\ done.result = [q.result EXCEPT ![q.current] = a]
        BY DEF Resolve, Slots, IsQueue, Fields
      <4> HIDE DEF done
      <4>10. d \notin M => FullResult(a, d)
        BY <4>6 DEF a
      <4>11. FullResults(DequeueNext(done), M)
        BY <1>4, <2>2, <4>8, <4>9, <4>10, RetireFull
      <4> QED  BY <4>3, <4>7, <4>11
    <3> QED  BY <3>5, <3>6
  <2> QED  BY <2>1, <2>2
<1> HIDE DEF r
<1>9. Full(r.q, r.rest \o b, M)
  BY <1>7, <1>8 DEF Full
<1> QED
  BY <1>2, <1>9 DEF r

\* feed_serial_data.
LEMMA FeedFull ==
    ASSUME NEW q, NEW S \in SUBSET Commands, Slots(q, S), Moving(q), QueueTyped(q),
           NEW data \in Bytes, NEW b \in Bytes,
           NEW L \in Seq(Commands), NEW M, NEW writes \in BOOLEAN,
           Own(q, data \o b, L, M, S), Full(q, data \o b, M)
    PROVE  Full(Feed(q, data, writes), b, M)
<1> DEFINE e     == ExpireCurrent(q)
           first == ScanChunk(e, data, writes)
           f     == ExpireCurrent(first.q)
           again == ScanChunk(f, first.rest, writes)
<1>1. Feed(q, data, writes) = IF first.rest = <<>> THEN first.q ELSE again.q
  BY DEF Feed, FeedRest
<1>2. data \o b \in Bytes /\ <<>> \o b = b
  BY Streams, ConcatEmptySeq DEF Bytes
<1>3. /\ Slots(e, S) /\ Moving(e) /\ QueueTyped(e) /\ Own(e, data \o b, L, M, S)
      /\ Full(e, data \o b, M)
  <2>1. Slots(e, S) /\ Moving(e)
    BY ExpireCurrentSlots
  <2>2. QueueTyped(e)
    BY ExpireCurrentTyped
  <2>3. Own(e, data \o b, L, M, S)
    BY <1>2, ExpireOwn DEF Bytes
  <2>4. Full(e, data \o b, M)
    BY <1>2, ExpireFull
  <2> QED  BY <2>1, <2>2, <2>3, <2>4
<1> HIDE DEF e
<1>4. /\ Slots(first.q, S) /\ Moving(first.q) /\ QueueTyped(first.q)
      /\ first.rest \in Bytes
      /\ Own(first.q, first.rest \o b, L, M, S)
      /\ first.rest # <<>> => Fresh(first.q, first.rest \o b)
      /\ Full(first.q, first.rest \o b, M)
  <2>1. Slots(first.q, S) /\ Moving(first.q)
    BY <1>3, ScanChunkSlots DEF Bytes
  <2>2. QueueTyped(first.q)
    BY <1>3, ScanChunkTyped DEF Bytes
  <2>3. /\ Own(first.q, first.rest \o b, L, M, S)
        /\ first.rest # <<>> => Fresh(first.q, first.rest \o b)
    BY <1>3, ScanOwn DEF Bytes
  <2>4. first.rest \in Bytes /\ Full(first.q, first.rest \o b, M)
    BY <1>3, ScanFull
  <2> QED  BY <2>1, <2>2, <2>3, <2>4
<1> HIDE DEF first
<1>5. CASE first.rest = <<>>
  BY <1>1, <1>2, <1>4, <1>5
<1>6. CASE first.rest # <<>>
  <2> DEFINE rest == first.rest
  <2>1. rest \o b \in Bytes /\ rest \in Bytes
    BY <1>4, Streams
  <2>2. /\ Slots(f, S) /\ Moving(f) /\ QueueTyped(f)
        /\ Own(f, rest \o b, L, M, S) /\ Fresh(f, rest \o b)
    BY <1>4, <1>6, <2>1, ExpireCurrentSlots, ExpireCurrentTyped, ExpireOwn DEF Bytes
  <2>3. Full(f, rest \o b, M)
    BY <1>4, <2>1, ExpireFull
  <2> HIDE DEF f, rest
  <2>4. ScanChunk(f, rest, writes).rest = <<>>
    BY <2>1, <2>2, ScanOwn DEF Bytes
  <2>5. Full(ScanChunk(f, rest, writes).q, ScanChunk(f, rest, writes).rest \o b, M)
    BY <2>1, <2>2, <2>3, ScanFull
  <2> QED  BY <1>1, <1>2, <1>6, <2>4, <2>5 DEF rest
<1> QED
  BY <1>5, <1>6

-----------------------------------------------------------------------------
(* What the shell, the line and the people do keeps them complete.         *)

\* What was captured stays; what is still to come moves.
LEMMA FullMoves ==
    ASSUME NEW q, NEW r, NEW b, NEW u, NEW M, Full(q, b, M),
           r.current = q.current, r.scan = q.scan, r.result = q.result,
           q.current # NoCommand /\ q.current \notin M /\ FullStream(q, b)
             => FullStream(q, u)
    PROVE  Full(r, u, M)
<1>1. FullResults(r, M)
  BY DEF Full, FullResults
<1>2. q.current # NoCommand /\ q.current \notin M => FullStream(q, u)
  BY DEF Full
<1>3. FullStream(q, u) => FullStream(r, u)
  BY DEF FullStream
<1> QED
  BY <1>1, <1>2, <1>3 DEF Full

\* A stream moves for what was searched and for what was captured alike.
LEMMA StreamMoves ==
    ASSUME NEW q, QueueTyped(q), NEW b, NEW u, FullStream(q, b),
           \A x \in Bytes :
              /\ Follows(x \o b, q.current) => Follows(x \o u, q.current)
              /\ AfterMarkers(x \o b, q.current) => AfterMarkers(x \o u, q.current)
    PROVE  FullStream(q, u)
<1>1. /\ q.scan.spill \in Bytes /\ q.scan.buffer \in Bytes /\ q.scan.search_buf \in Bytes
  BY DEF QueueTyped, QueueType, ScanType, Bytes
<1>2. q.scan.spill \o q.scan.buffer \in Bytes
  BY <1>1, Streams
<1> DEFINE x == q.scan.spill \o q.scan.buffer
<1> HIDE DEF x
<1>3. Follows(x \o b, q.current) => Follows(x \o u, q.current)
  BY <1>2 DEF x
<1> QED
  BY <1>1, <1>3 DEF FullStream, x

\* A reboot: the rest of the line is never printed.
LEMMA RebootFull ==
    ASSUME NEW h \in Bytes, NEW t \in Bytes, NEW d, NEW x \in Bytes
    PROVE  /\ Follows(x \o (h \o t), d) => Follows(x \o h, d)
           /\ AfterMarkers(x \o (h \o t), d) => AfterMarkers(x \o h, d)
<1> DEFINE F(a, b) == a \o b
           y == F(x, h)
<1>1. F(x, h) \in Bytes /\ F(x, F(h, t)) = F(F(x, h), t)
  BY Streams
<1> HIDE DEF F
<1>2. y \in Bytes /\ F(x, F(h, t)) = F(y, t)
  BY <1>1
<1>3. OutTokens \in Nat
  BY SessionAssumption
<1> HIDE DEF y
<1>4. /\ Follows(F(y, t), d) => Follows(y, d)
      /\ AfterMarkers(F(y, t), d) => AfterMarkers(y, d)
  BY <1>2, <1>3, FollowsFront, AfterFront DEF F
<1> QED
  BY <1>2, <1>4 DEF F, y

\* A kernel message at the end of what is on the wire.
LEMMA PrintkFull ==
    ASSUME NEW h \in Bytes, NEW t \in Bytes, NEW d, NEW x \in Bytes
    PROVE  /\ Follows(x \o (h \o t), d) => Follows(x \o (Append(h, Printk) \o t), d)
           /\ AfterMarkers(x \o (h \o t), d)
                => AfterMarkers(x \o (Append(h, Printk) \o t), d)
<1> DEFINE F(a, b) == a \o b
           k == <<Printk>>
           y == F(x, h)
<1>0. k \in Bytes
  <2>1. Printk \in Tokens
    BY DEF Tokens
  <2> QED  BY <2>1 DEF Bytes
<1>1. Append(h, Printk) = F(h, k)
  BY AppendIsConcat, <1>0 DEF Bytes, Tokens
<1> HIDE DEF k
<1>2. \A p, q, r, v \in Bytes : /\ F(p, q) \in Bytes
                                /\ F(p, F(q, v)) = F(F(p, q), v)
                                /\ F(p, F(F(q, r), v)) = F(F(F(p, q), r), v)
  BY InsertStream
<1> HIDE DEF F
<1>3. y \in Bytes /\ F(x, F(h, t)) = F(y, t) /\ F(x, F(F(h, k), t)) = F(F(y, k), t)
  BY <1>0, <1>2
<1> HIDE DEF y
<1>4. /\ Follows(F(y, t), d) => Follows(F(F(y, k), t), d)
      /\ AfterMarkers(F(y, t), d) => AfterMarkers(F(F(y, k), t), d)
  BY <1>3, FollowsPrintk, AfterPrintk DEF F, k
<1> QED
  BY <1>1, <1>3, <1>4 DEF F

\* One token of a sequence is replaced.
LEMMA ReplacedToken ==
    ASSUME NEW h \in Bytes, NEW n \in DOMAIN h, NEW g \in Tokens
    PROVE  /\ SubSeq(h, 1, n - 1) \in Bytes /\ SubSeq(h, n + 1, Len(h)) \in Bytes
           /\ h[n] \in Tokens
           /\ h = SubSeq(h, 1, n - 1) \o (<<h[n]>> \o SubSeq(h, n + 1, Len(h)))
           /\ [h EXCEPT ![n] = g]
              = SubSeq(h, 1, n - 1) \o (<<g>> \o SubSeq(h, n + 1, Len(h)))
<1> DEFINE l == Len(h)
           a == SubSeq(h, 1, n - 1)
           z == SubSeq(h, n + 1, l)
<1>1. h \in Seq(Tokens) /\ l \in Nat /\ n \in 1 .. l /\ DOMAIN h = 1 .. l
  BY LenProperties DEF Bytes
<1>2. a \in Seq(Tokens) /\ Len(a) = n - 1 /\ \A i \in 1 .. n - 1 : a[i] = h[i]
  BY <1>1
<1>3. z \in Seq(Tokens) /\ Len(z) = l - n /\ \A i \in 1 .. l - n : z[i] = h[n + i]
  BY <1>1, ToSetSuffix
<1>4. h[n] \in Tokens
  BY <1>1
<1> HIDE DEF a, z, l
<1>5. ASSUME NEW x \in Tokens, NEW s \in Seq(Tokens), Len(s) = l, s[n] = x,
             \A i \in 1 .. l : i # n => s[i] = h[i]
      PROVE  s = a \o (<<x>> \o z)
  <2> DEFINE y == <<x>> \o z
             w == a \o y
             o == <<x>>
  <2>1. o \in Seq(Tokens) /\ Len(o) = 1 /\ o[1] = x /\ 1 \in 1 .. Len(o)
    OBVIOUS
  <2>2. /\ y \in Seq(Tokens) /\ Len(y) = 1 + (l - n) /\ y[1] = x
        /\ \A i \in 1 .. l - n : y[1 + i] = z[i]
    <3> HIDE DEF o
    <3>1. y = o \o z
      BY DEF o
    <3> HIDE DEF y
    <3>2. Joins(y, o, z)
      BY <1>3, <2>1, <3>1, Joined
    <3> QED  BY <1>3, <2>1, <3>2 DEF Joins
  <2> HIDE DEF y, o
  <2>3. /\ w \in Seq(Tokens) /\ Len(w) = (n - 1) + (1 + (l - n))
        /\ \A i \in 1 .. n - 1 : w[i] = a[i]
        /\ \A i \in 1 .. 1 + (l - n) : w[(n - 1) + i] = y[i]
    <3>1. Joins(w, a, y)
      BY <1>2, <2>2, Joined
    <3> HIDE DEF w
    <3> QED  BY <1>2, <2>2, <3>1 DEF Joins
  <2> HIDE DEF w
  <2>4. Len(w) = l
    BY <1>1, <2>3
  <2>5. ASSUME NEW i \in 1 .. l PROVE w[i] = s[i]
    <3>1. CASE i < n
      <4>1. i \in 1 .. n - 1 /\ i # n
        BY <1>1, <3>1
      <4>2. w[i] = a[i] /\ a[i] = h[i]
        BY <1>2, <2>3, <4>1
      <4> QED  BY <1>5, <2>5, <4>1, <4>2
    <3>2. CASE i = n
      <4>1. 1 \in 1 .. 1 + (l - n) /\ (n - 1) + 1 = n
        BY <1>1
      <4> QED  BY <1>5, <2>2, <2>3, <3>2, <4>1
    <3>3. CASE i > n
      <4> DEFINE j == i - n
      <4>1. j \in 1 .. l - n /\ 1 + j \in 1 .. 1 + (l - n) /\ (n - 1) + (1 + j) = i
            /\ n + j = i /\ i # n
        BY <1>1, <3>3
      <4> HIDE DEF j
      <4>2. w[(n - 1) + (1 + j)] = y[1 + j] /\ y[1 + j] = z[j]
        BY <2>2, <2>3, <4>1
      <4>3. w[i] = h[i]
        BY <1>3, <4>1, <4>2
      <4> QED  BY <1>5, <2>5, <4>1, <4>3
    <3> QED  BY <1>1, <3>1, <3>2, <3>3
  <2> QED  BY <1>5, <2>3, <2>4, <2>5, SeqEqual DEF w, y
<1>6. h = a \o (<<h[n]>> \o z)
  BY <1>1, <1>4, <1>5 DEF l
<1>7. [h EXCEPT ![n] = g] = a \o (<<g>> \o z)
  <2> DEFINE s == [h EXCEPT ![n] = g]
  <2>1. s \in Seq(Tokens) /\ Len(s) = l /\ s[n] = g /\ \A i \in 1 .. l : i # n => s[i] = h[i]
    BY <1>1 DEF l
  <2> HIDE DEF s
  <2>2. s = a \o (<<g>> \o z)
    BY <1>5, <2>1
  <2> QED  BY <2>2 DEF s
<1> QED
  BY <1>2, <1>3, <1>4, <1>6, <1>7 DEF a, z, l, Bytes

\* A token garbled on the wire.
LEMMA GarbledFull ==
    ASSUME NEW h \in Bytes, NEW t \in Bytes, NEW n \in DOMAIN h, h[n] # Printk,
           NEW d, NEW x \in Bytes
    PROVE  /\ Follows(x \o (h \o t), d)
                => Follows(x \o ([h EXCEPT ![n] = Garbled] \o t), d)
           /\ AfterMarkers(x \o (h \o t), d)
                => AfterMarkers(x \o ([h EXCEPT ![n] = Garbled] \o t), d)
<1> DEFINE F(a, b) == a \o b
           p == SubSeq(h, 1, n - 1)
           z == SubSeq(h, n + 1, Len(h))
           s == <<h[n]>>
           g == <<Garbled>>
           u == [h EXCEPT ![n] = Garbled]
           a == F(x, p)
           b == F(z, t)
<1>0. Garbled \in Tokens
  BY DEF Tokens
<1>1. p \in Bytes /\ z \in Bytes /\ h[n] \in Tokens
      /\ h = F(p, F(s, z)) /\ u = F(p, F(g, z))
  BY <1>0, ReplacedToken
<1>2. s \in Bytes /\ g \in Bytes
  BY <1>0, <1>1 DEF Bytes
<1>3. \A i, j, k \in Bytes : F(i, j) \in Bytes /\ F(F(i, j), k) = F(i, F(j, k))
  BY Streams
<1> HIDE DEF F, p, z, s, g, u
<1>4. a \in Bytes /\ b \in Bytes
  BY <1>1, <1>3
<1>5. ASSUME NEW y \in Bytes
      PROVE  F(x, F(F(p, F(y, z)), t)) = F(a, F(y, b))
  <2>1. F(y, z) \in Bytes /\ F(F(y, z), t) = F(y, b)
    BY <1>1, <1>3
  <2>2. F(F(p, F(y, z)), t) = F(p, F(y, b))
    BY <1>1, <1>3, <2>1
  <2>3. F(y, b) \in Bytes
    BY <1>3, <1>4
  <2>4. F(x, F(p, F(y, b))) = F(a, F(y, b))
    BY <1>1, <1>3, <2>3
  <2> QED  BY <2>2, <2>4
<1>6. F(x, F(h, t)) = F(a, F(s, b)) /\ F(x, F(u, t)) = F(a, F(g, b))
  BY <1>1, <1>2, <1>5
<1> HIDE DEF a, b
<1>7. /\ Follows(F(a, F(s, b)), d) => Follows(F(a, F(g, b)), d)
      /\ AfterMarkers(F(a, F(s, b)), d) => AfterMarkers(F(a, F(g, b)), d)
  BY <1>1, <1>4, FollowsGarbled, AfterGarbled DEF F, s, g
<1> QED
  BY <1>6, <1>7 DEF F, u

\* While a line is on its way to the shell or waits there, no marker of the
\* current command is there to be found.
LEMMA BeforeLines ==
    ASSUME NEW q, q.current # NoCommand, NEW b, NEW L, NEW M, NEW S,
           Own(q, b, L, M, S), q.current \notin M, ~Idle(q, L)
    PROVE  /\ ~q.scan.found_begin /\ MarkerAt(q.scan.search_buf \o b, q.current) = {}
           /\ FullStream(q, b)
<1>1. OwnStream(q, b, L)
  BY DEF Own
<1>2. ~q.scan.found_begin /\ MarkerAt(q.scan.search_buf \o b, q.current) = {}
  BY <1>1 DEF OwnStream
<1> QED
  BY <1>2 DEF FullStream, AfterMarkers

\* The shell starts the next line.
LEMMA StartFull ==
    ASSUME NEW q, QueueTyped(q), NEW h \in Bytes, NEW L \in Seq(Commands), L # <<>>,
           NEW M, NEW S, Own(q, h, L, M, S),
           q.current # NoCommand, q.current \notin M
    PROVE  FullStream(q, h \o Printed(Head(L)))
<1> DEFINE c == Head(L)
           d == q.current
           s == q.scan.search_buf
           F(a, b) == a \o b
           y == F(s, h)
<1>1. c \in Commands /\ d \in Commands /\ s \in Bytes
  BY DEF QueueTyped, QueueType, ScanType, Bytes
<1>2. Printed(c) \in Bytes
  BY <1>1, LineTokens DEF Bytes
<1>3. ~Idle(q, L)
  BY DEF Idle
<1>4. ~q.scan.found_begin /\ MarkerAt(F(s, h), d) = {}
  BY <1>3, BeforeLines
<1> HIDE DEF c, s
<1>5. F(s, h) \in Bytes /\ F(s, F(h, Printed(c))) = F(F(s, h), Printed(c))
  BY <1>1, <1>2, Streams
<1>6. AfterMarkers(F(s, F(h, Printed(c))), d)
  <2>1. CASE c = d
    <3> HIDE DEF F
    <3>1. y \in Bytes /\ MarkerAt(y, d) = {} /\ F(s, F(h, Printed(c))) = F(y, Printed(c))
      BY <1>4, <1>5
    <3> HIDE DEF y
    <3>2. AfterMarkers(y \o Printed(d), d)
      BY <1>1, <3>1, AfterStart
    <3> QED  BY <2>1, <3>1, <3>2 DEF F
  <2>2. CASE c # d
    <3>1. MarkerAt(F(s, F(h, Printed(c))), d) = {}
      BY <1>1, <1>4, <2>2, StartStream
    <3> HIDE DEF F
    <3> QED  BY <3>1 DEF AfterMarkers
  <2> QED  BY <2>1, <2>2
<1> QED
  BY <1>4, <1>6 DEF FullStream, F, s, c

\* latch_endpoint_fault.
LEMMA CancelFull ==
    ASSUME NEW q, QueueTyped(q), NEW b, NEW M, Full(q, b, M)
    PROVE  Full([CancelAll(q) EXCEPT !.tx = <<>>], b, M)
<1> DEFINE res == [c \in Commands |->
                     IF c = q.current \/ c \in ToSet(q.pending)
                     THEN Closed ELSE q.result[c]]
           none == <<>>
           p == [q EXCEPT !.pending = none, !.current = NoCommand, !.result = res]
           r == [p EXCEPT !.tx = none]
<1>1. CancelAll(q) = p
  BY DEF CancelAll
<1> HIDE DEF res, none
<1>2. r.current = NoCommand /\ r.result = res
  BY DEF QueueTyped, QueueType
<1> HIDE DEF p, r
<1>3. \A c \in Commands : res[c] \in {Closed, q.result[c]}
  BY DEF res
<1>4. \A c : FullResult(Closed, c)
  BY DEF Closed, FullResult
<1>5. FullResults(r, M)
  BY <1>2, <1>3, <1>4 DEF Full, FullResults
<1>6. Full(r, b, M)
  BY <1>2, <1>5 DEF Full
<1> QED
  BY <1>1, <1>6 DEF r, none

\* The read loop takes a chunk off the wire and feeds it.
LEMMA ReadFull ==
    ASSUME NEW q, NEW S \in SUBSET Commands, Slots(q, S), Moving(q), QueueTyped(q),
           NEW h \in Bytes, NEW t \in Bytes, NEW n \in 0 .. Len(h),
           NEW L \in Seq(Commands), NEW M, NEW writes \in BOOLEAN,
           Own(q, h \o t, L, M, S), Full(q, h \o t, M)
    PROVE  Full(Feed(q, SubSeq(h, 1, n), writes), SubSeq(h, n + 1, Len(h)) \o t, M)
<1> DEFINE data == SubSeq(h, 1, n)
           rest == SubSeq(h, n + 1, Len(h))
           F(a, b) == a \o b
           b == F(rest, t)
<1>1. data \in Bytes /\ rest \in Bytes /\ F(data, rest) = h
  BY SplitStream DEF Bytes
<1>2. \A p, r, v \in Bytes : F(p, r) \in Bytes /\ F(F(p, r), v) = F(p, F(r, v))
  BY Streams
<1> HIDE DEF F, data, rest
<1>3. b \in Bytes /\ F(h, t) = F(data, b)
  BY <1>1, <1>2
<1> HIDE DEF b
<1>4. Own(q, data \o b, L, M, S) /\ Full(q, data \o b, M)
  BY <1>3 DEF F
<1>5. Full(Feed(q, data, writes), b, M)
  BY <1>1, <1>3, <1>4, FeedFull
<1> QED
  BY <1>5 DEF b, F, data, rest

\* Every step keeps the answers complete.
LEMMA FullNext ==
    ASSUME TypeOK, SessionInv, OwnInv, OwnInv', FullInv, [Next]_vars
    PROVE  FullInv'
<1> DEFINE S == ToSet(submitted)
           b == wire \o todo
           u == wire' \o todo'
           Goal == Full(queue', wire' \o todo', missed')
           Kin(q) == q.current = queue.current /\ q.scan = queue.scan
                       /\ q.result = queue.result
<1>0. /\ QueueTyped(queue) /\ Slots(queue, S) /\ Moving(queue) /\ S \in SUBSET Commands
      /\ wire \in Bytes /\ todo \in Bytes /\ lines \in Seq(Commands)
      /\ submitted \in Seq(Commands)
  BY TypeOKIs DEF LineTyped, SessionInv, ToSet, Bytes
<1>a. b \in Bytes /\ Own(queue, b, lines, missed, S) /\ Full(queue, b, missed)
  BY <1>0, Streams DEF OwnInv, FullInv
<1>c. Own(queue', wire' \o todo', lines', missed', ToSet(submitted'))
  BY DEF OwnInv
<1> SUFFICES Goal
  BY DEF FullInv
<1> HIDE DEF b, S
<1>b. ASSUME UNCHANGED <<queue, wire, todo, missed>> PROVE Goal
  BY <1>a, <1>b DEF b
<1>d. ASSUME \/ queue' = [queue EXCEPT !.write_fn = TRUE]
             \/ \E tx : queue' = [queue EXCEPT !.tx = tx]
      PROVE  Kin(queue')
  BY <1>0, <1>d DEF QueueTyped, QueueType
<1>e. ASSUME Kin(queue'), UNCHANGED missed,
             queue.current # NoCommand /\ queue.current \notin missed
               /\ FullStream(queue, b) => FullStream(queue, u)
      PROVE  Goal
  <2> HIDE DEF u
  <2> QED  BY <1>a, <1>e, FullMoves DEF u
<1>1. ASSUME NEW c \in Commands, Execute(c) PROVE Goal
  <2>1. c \in Commands \ S /\ queue' = Submit(queue, c)
    BY <1>1 DEF Execute, Submitted, S
  <2>2. UNCHANGED <<wire, todo, missed>>
    BY <1>1 DEF Execute, dutvars
  <2>3. Full(Submit(queue, c), b, missed)
    BY <1>0, <1>a, <2>1, SubmitFull
  <2> QED
    BY <2>1, <2>2, <2>3 DEF b
<1>2. ASSUME NEW c \in Commands, Admit(c) \/ CallerDrops(c) \/ CallerTimesOut(c)
      PROVE  Goal
  BY <1>2, <1>b DEF Admit, CallerDrops, CallerTimesOut, qvars, hostvars, dutvars
<1>3. CASE SetWriteFn
  <2>1. /\ queue' = [queue EXCEPT !.write_fn = TRUE]
        /\ UNCHANGED <<wire, todo, missed>>
    BY <1>3 DEF SetWriteFn, hostvars, dutvars
  <2>2. u = b
    BY <2>1 DEF b
  <2> QED
    BY <1>d, <1>e, <2>1, <2>2
<1>4. CASE CheckTimeouts
  <2>1. /\ queue' = ExpireCurrent(queue)
        /\ UNCHANGED <<wire, todo, missed>>
    BY <1>4 DEF CheckTimeouts, hostvars, dutvars
  <2>2. Full(ExpireCurrent(queue), b, missed)
    BY <1>0, <1>a, ExpireFull
  <2> QED
    BY <2>1, <2>2 DEF b
<1>5. CASE Read
  <2>1. PICK n \in 1 .. MaxChunk, writes \in BOOLEAN :
               /\ n <= Len(wire)
               /\ queue' = Feed(queue, SubSeq(wire, 1, n), writes)
               /\ wire' = SubSeq(wire, n + 1, Len(wire))
    BY <1>5 DEF Read
  <2>2. UNCHANGED <<todo, missed>>
    BY <1>5 DEF Read, hostvars
  <2>3. n \in 0 .. Len(wire)
    BY <1>0, <2>1, SessionAssumption DEF Bytes
  <2>4. Full(Feed(queue, SubSeq(wire, 1, n), writes),
             SubSeq(wire, n + 1, Len(wire)) \o todo, missed)
    BY <1>0, <1>a, <2>3, ReadFull DEF b
  <2> QED
    BY <2>1, <2>2, <2>4
<1>6. CASE Relay
  <2>1. /\ missed' = missed \cup ({queue.current} \ {NoCommand})
        /\ UNCHANGED queue
    BY <1>6 DEF Relay, qvars
  <2>2. FullResults(queue, missed')
    BY <1>a, <2>1 DEF Full, FullResults
  <2>3. queue.current # NoCommand => queue.current \in missed'
    BY <2>1
  <2> QED
    BY <2>1, <2>2, <2>3 DEF Full
<1>7. CASE TakeOver \/ HandBack \/ Tick
  BY <1>7, <1>b DEF TakeOver, HandBack, Tick, qvars, hostvars, dutvars
<1>8. CASE LoseEndpoint
  <2>1. /\ queue' = [CancelAll(queue) EXCEPT !.tx = <<>>]
        /\ UNCHANGED <<wire, todo, missed>>
    BY <1>8 DEF LoseEndpoint, dutvars
  <2>2. Full([CancelAll(queue) EXCEPT !.tx = <<>>], b, missed)
    BY <1>0, <1>a, CancelFull
  <2> QED
    BY <2>1, <2>2 DEF b
<1>9. CASE Reclaim \/ LoseLine
  <2>1. \E tx : queue' = [queue EXCEPT !.tx = tx]
    BY <1>9 DEF Reclaim, LoseLine
  <2>2. UNCHANGED <<wire, todo, missed>>
    BY <1>9 DEF Reclaim, LoseLine, dutvars
  <2>3. u = b
    BY <2>2 DEF b
  <2> QED
    BY <1>d, <1>e, <2>1, <2>2, <2>3
<1>10. CASE ReceiveLine
  <2>1. /\ queue' = [queue EXCEPT !.tx = Tail(queue.tx)]
        /\ lines' = Append(lines, Head(queue.tx))
        /\ UNCHANGED missed
    BY <1>10 DEF ReceiveLine, hostvars
  <2>2. Kin(queue')
    BY <1>d, <2>1
  <2>3. ~Idle(queue', lines')
    <3>1. Append(lines, Head(queue.tx)) # <<>>
      BY <1>0
    <3> QED  BY <2>1, <3>1 DEF Idle
  <2>4. ASSUME queue.current # NoCommand, queue.current \notin missed
        PROVE  FullStream(queue, u)
    <3>1. FullStream(queue', u)
      BY <1>c, <2>1, <2>2, <2>3, <2>4, BeforeLines
    <3> QED  BY <2>2, <3>1 DEF FullStream
  <2> QED
    BY <1>e, <2>1, <2>2, <2>4
<1>11. CASE StartLine
  <2>1. /\ todo = <<>> /\ lines # <<>> /\ todo' = Printed(Head(lines))
        /\ UNCHANGED <<queue, wire, missed>>
    BY <1>11 DEF StartLine, Printed, qvars, hostvars
  <2>2. b = wire
    BY <1>0, <2>1, ConcatEmptySeq DEF b, Bytes
  <2>3. ASSUME queue.current # NoCommand, queue.current \notin missed
        PROVE  FullStream(queue, u)
    <3>1. FullStream(queue, wire \o Printed(Head(lines)))
      BY <1>0, <1>a, <2>1, <2>2, <2>3, StartFull
    <3> QED  BY <2>1, <3>1
  <2> QED
    BY <1>e, <2>1, <2>3
<1>12. CASE Emit
  <2>1. /\ todo # <<>> /\ wire' = Append(wire, Head(todo)) /\ todo' = Tail(todo)
        /\ UNCHANGED <<queue, missed>>
    BY <1>12 DEF Emit, qvars, hostvars
  <2>2. wire' \o todo' = b
    BY <1>0, <2>1, EmitStream DEF b, Bytes
  <2> QED
    BY <1>a, <2>1, <2>2
<1>13. CASE Disturb
  <2>1. UNCHANGED <<queue, todo, missed>>
    BY <1>13 DEF Disturb, qvars, hostvars
  <2>2. \/ wire' = Append(wire, Printk)
        \/ \E i \in DOMAIN wire :
              wire[i] # Printk /\ wire' = [wire EXCEPT ![i] = Garbled]
    BY <1>13 DEF Disturb
  <2>3. CASE wire' = Append(wire, Printk)
    <3>1. FullStream(queue, b) => FullStream(queue, Append(wire, Printk) \o todo)
      BY <1>0, PrintkFull, StreamMoves DEF b
    <3> QED  BY <1>e, <2>1, <2>3, <3>1
  <2>4. ASSUME NEW i \in DOMAIN wire, wire[i] # Printk, wire' = [wire EXCEPT ![i] = Garbled]
        PROVE  Goal
    <3> DEFINE garbled == [wire EXCEPT ![i] = Garbled]
    <3>1. \A d : \A x \in Bytes :
             /\ Follows(x \o b, d) => Follows(x \o (garbled \o todo), d)
             /\ AfterMarkers(x \o b, d) => AfterMarkers(x \o (garbled \o todo), d)
      BY <1>0, <2>4, GarbledFull DEF b
    <3> HIDE DEF garbled
    <3>2. FullStream(queue, b) => FullStream(queue, garbled \o todo)
      BY <1>0, <3>1, StreamMoves
    <3> QED  BY <1>e, <2>1, <2>4, <3>2 DEF garbled
  <2> QED
    BY <2>2, <2>3, <2>4
<1>14. CASE Reboot
  <2>1. /\ todo' = <<>> /\ UNCHANGED <<queue, wire, missed>>
    BY <1>14 DEF Reboot, qvars
  <2>2. u = wire
    BY <1>0, <2>1, ConcatEmptySeq DEF Bytes
  <2>3. FullStream(queue, b) => FullStream(queue, wire)
    BY <1>0, RebootFull, StreamMoves DEF b
  <2> QED
    BY <1>e, <2>1, <2>2, <2>3
<1>15. CASE UNCHANGED vars
  BY <1>15, <1>b DEF vars
<1> QED
  BY <1>1, <1>2, <1>3, <1>4, <1>5, <1>6, <1>7, <1>8, <1>9, <1>10, <1>11, <1>12, <1>13,
     <1>14, <1>15 DEF Next

\* Nothing was answered yet.
LEMMA FullInit == Init => FullInv
<1> SUFFICES ASSUME Init PROVE FullInv
  OBVIOUS
<1>1. queue.current = NoCommand /\ queue.result = [c \in Commands |-> NoResult]
  BY DEF Init, EmptyQueue
<1>2. \A c : FullResult(NoResult, c)
  BY DEF FullResult, NoResult
<1> QED
  BY <1>1, <1>2 DEF FullInv, Full, FullResults

\* In every behaviour, what was captured for the current command, and what is
\* still to come after its begin marker, follow what it prints.
THEOREM FullCorrect == Spec => []FullInv
<1>1. TypeOK /\ SessionInv /\ OwnInv /\ OwnInv' /\ FullInv /\ [Next]_vars => FullInv'
  BY FullNext
<1> QED
  BY FullInit, SessionTyped, SessionCorrect, OwnCorrect, <1>1, PTL DEF Spec

\* feed_serial_data answers with everything the command printed, up to its exit
\* code: whatever the chunks, however much was spilled or searched before the
\* marker, whatever the kernel prints in between and the line garbles.  A
\* command of whose output a human session consumed some is left out.
THEOREM AnswersAreComplete == Spec => []CompleteOutput
<1>1. FullInv => CompleteOutput
  BY DEF FullInv, Full, FullResults, FullResult, Whole, CompleteOutput
<1> QED
  BY <1>1, FullCorrect, PTL

-----------------------------------------------------------------------------
(* The resets: the inductive invariant.                                    *)

ResetCall ==
    [at : Steps, kind : ResetKinds, board : Boards \cup {"none"},
          line : {"kernel", "login"}, late : BOOLEAN, cancel : BOOLEAN,
          attempt : Nat, heard : {"none", "yes", "no", "cancel"}]

Watcher == [by : Resets, board : Boards, line : {"kernel", "login"}]

Board == [at : {"rom", "kernel", "login"}, says : Seq({"kernel", "login"})]

Ended(x) == x.at \in {"idle", "over"}

\* A call under way has a DUT, and one that will pulse has attempts left.
CallFits(r, x) ==
    /\ x \in ResetCall
    /\ ~Ended(x) => x.board \in Boards
    /\ x.attempt <= AttemptsLimit(r)
    /\ x.at \in {"check", "pulse", "pause"} => x.attempt < AttemptsLimit(r)

CallsFit ==
    /\ reset \in [Resets -> ResetCall]
    /\ \A r \in Resets : CallFits(r, reset[r])

\* The permit is there exactly when no worker is.
Turns ==
    /\ slot \in [Boards -> BOOLEAN]
    /\ \A b \in Boards :
          IF slot[b] THEN Workers(b) = {} ELSE \E r \in Resets : Workers(b) = {r}

BoardsFit ==
    /\ mutex \in [Boards -> Resets \cup {Nobody}]
    /\ waits \subseteq Watcher
    /\ matched \subseteq Resets
    /\ booting \in [Boards -> Board]
    /\ relayLock \in {"free", "ours", "other"}

ResetInv == CallsFit /\ Turns /\ BoardsFit

-----------------------------------------------------------------------------
(* One reset changes.                                                      *)

\* Every call has at least one attempt.
LEMMA LimitPositive == \A r : AttemptsLimit(r) \in Nat /\ AttemptsLimit(r) > 0
BY ResetAssumption DEF AttemptsLimit

\* The record of a call that starts.
LEMMA NewFits ==
    ASSUME NEW r \in Resets, NEW kind \in ResetKinds, NEW b \in Boards
    PROVE  LET x == [NewReset EXCEPT !.at = "check", !.kind = kind, !.board = b]
           IN  CallFits(r, x) /\ ~Ended(x) /\ x.kind = kind /\ x.board = b
<1> DEFINE x == [NewReset EXCEPT !.at = "check", !.kind = kind, !.board = b]
<1>1. /\ x.at = "check" /\ x.kind = kind /\ x.board = b /\ x.attempt = 0
      /\ x \in ResetCall
  BY DEF NewReset, ResetCall, Steps, ResetKinds
<1> HIDE DEF x
<1>2. CallFits(r, x) /\ ~Ended(x) /\ x.kind = kind /\ x.board = b
  BY <1>1, LimitPositive DEF CallFits, Ended
<1> QED
  BY <1>2 DEF x

\* The record of a call that is over.
LEMMA OverFits ==
    ASSUME NEW r \in Resets
    PROVE  LET x == [NewReset EXCEPT !.at = "over"]
           IN  CallFits(r, x) /\ Ended(x)
<1> DEFINE x == [NewReset EXCEPT !.at = "over"]
<1>1. x.at = "over" /\ x.attempt = 0 /\ x \in ResetCall
  BY DEF NewReset, ResetCall, Steps, ResetKinds
<1> HIDE DEF x
<1>2. CallFits(r, x) /\ Ended(x)
  BY <1>1, LimitPositive DEF CallFits, Ended
<1> QED
  BY <1>2 DEF x

\* The call is under way, or not, as before, for the same DUT.
LEMMA TurnsKept ==
    ASSUME CallsFit, Turns, NEW r \in Resets, NEW x, CallFits(r, x),
           Becomes(r, x), UNCHANGED slot,
           \/ Ended(x) /\ Ended(reset[r])
           \/ x.kind # "task" /\ Ended(reset[r])
           \/ x.kind = reset[r].kind /\ x.board = reset[r].board
              /\ (Ended(x) <=> Ended(reset[r]))
           \/ reset[r].kind # "task" /\ Ended(x)
    PROVE  CallsFit' /\ Turns'
<1>1. CallsFit'
  BY DEF CallsFit, CallFits, Becomes
<1>2. \A b \in Boards : Workers(b)' = Workers(b)
  BY DEF Workers, Ended, Becomes, CallsFit
<1> QED
  BY <1>1, <1>2 DEF Turns

\* A call that ends gives its permit back, if it has one.
LEMMA EndsKeeps ==
    ASSUME CallsFit, Turns, NEW r \in Resets, ~Ended(reset[r]), Ends(r)
    PROVE  CallsFit' /\ Turns'
<1> DEFINE x == [NewReset EXCEPT !.at = "over"]
           b == reset[r].board
<1>1. CallFits(r, x) /\ Ended(x)
  BY OverFits
<1>2. Becomes(r, x) /\ b \in Boards
  BY DEF Ends, CallsFit, CallFits
<1> HIDE DEF x, b
<1>3. CASE reset[r].kind # "task"
  BY <1>1, <1>2, <1>3, TurnsKept DEF Ends
<1>4. CASE reset[r].kind = "task"
  <2>1. CallsFit'
    BY <1>1, <1>2 DEF CallsFit, CallFits, Becomes
  <2>2. slot' = [slot EXCEPT ![b] = TRUE]
    BY <1>4 DEF Ends, b
  <2>3. \A d \in Boards : Workers(d)' = Workers(d) \ {r}
    BY <1>1, <1>2 DEF Workers, Ended, Becomes, CallsFit
  <2>4. r \in Workers(b)
    BY <1>4 DEF Workers, Ended, b
  <2>5. \A d \in Boards \ {b} : r \notin Workers(d)
    BY DEF Workers, b
  <2> QED
    BY <1>2, <2>1, <2>2, <2>3, <2>4, <2>5 DEF Turns
<1> QED
  BY <1>3, <1>4

\* A call goes on to a step at which it needs no more attempts than it has.
LEMMA GoesKeeps ==
    ASSUME CallsFit, Turns, NEW r \in Resets, ~Ended(reset[r]), UNCHANGED slot,
           NEW x, Becomes(r, x), x \in ResetCall, ~Ended(x),
           x.kind = reset[r].kind, x.board = reset[r].board,
           x.attempt = reset[r].attempt,
           x.at \in {"check", "pulse", "pause"} => x.attempt < AttemptsLimit(r)
    PROVE  CallsFit' /\ Turns'
<1>1. CallFits(r, x)
  BY DEF CallsFit, CallFits
<1> QED
  BY <1>1, TurnsKept

-----------------------------------------------------------------------------
(* The steps of a call.                                                    *)

\* A call that starts keeps the invariant.
LEMMA CallKeeps ==
    ASSUME CallsFit, Turns, NEW r \in Resets, NEW kind \in ResetKinds,
           NEW b \in Boards, Call(r, kind, b)
    PROVE  CallsFit' /\ Turns'
<1> DEFINE x == [NewReset EXCEPT !.at = "check", !.kind = kind, !.board = b]
<1>1. CallFits(r, x) /\ ~Ended(x) /\ x.kind = kind /\ x.board = b
  BY NewFits
<1>2. Becomes(r, x) /\ Ended(reset[r])
  BY DEF Call, Stands, Ended
<1> HIDE DEF x
<1>3. CASE kind # "task"
  BY <1>1, <1>2, <1>3, TurnsKept DEF Call
<1>4. CASE kind = "task"
  <2>1. CallsFit'
    BY <1>1, <1>2 DEF CallsFit, CallFits, Becomes
  <2>2. slot[b] /\ slot' = [slot EXCEPT ![b] = FALSE]
    BY <1>4 DEF Call
  <2>3. Workers(b)' = Workers(b) \cup {r}
    BY <1>1, <1>2, <1>4 DEF Workers, Ended, Becomes, CallsFit
  <2>4. \A d \in Boards \ {b} : Workers(d)' = Workers(d)
    BY <1>1, <1>2 DEF Workers, Ended, Becomes, CallsFit
  <2> QED
    BY <2>1, <2>2, <2>3, <2>4 DEF Turns
<1> QED
  BY <1>3, <1>4

\* So does a task that is refused because the permit is taken.
LEMMA RefuseTaskKeeps ==
    ASSUME CallsFit, Turns, NEW r \in Resets, NEW b \in Boards, RefuseTask(r, b)
    PROVE  CallsFit' /\ Turns'
<1> DEFINE x == [NewReset EXCEPT !.at = "over"]
<1>1. CallFits(r, x) /\ Ended(x)
  BY OverFits
<1>2. Becomes(r, x) /\ Ended(reset[r]) /\ UNCHANGED slot
  BY DEF RefuseTask, Stands, Ended
<1> HIDE DEF x
<1> QED
  BY <1>1, <1>2, TurnsKept

\* So does a cancel, which records an intent only.
LEMMA CancelKeeps ==
    ASSUME CallsFit, Turns, NEW r \in Resets, Cancel(r)
    PROVE  CallsFit' /\ Turns'
<1> DEFINE x == [reset[r] EXCEPT !.cancel = TRUE]
<1>1. Becomes(r, x) /\ ~Ended(reset[r]) /\ UNCHANGED slot
  BY DEF Cancel, Ended
<1>2. /\ CallFits(r, reset[r]) /\ x \in ResetCall
      /\ x.at = reset[r].at /\ x.kind = reset[r].kind
      /\ x.board = reset[r].board /\ x.attempt = reset[r].attempt
  BY DEF CallsFit, ResetCall
<1> HIDE DEF x
<1> QED
  BY <1>1, <1>2, GoesKeeps DEF CallFits, Ended

\* A call goes to another step, all else equal.
LEMMA StepKeeps ==
    ASSUME CallsFit, Turns, NEW r \in Resets, ~Ended(reset[r]), UNCHANGED slot,
           NEW step \in Steps \ {"idle", "over"}, Goes(r, step),
           step \in {"check", "pulse", "pause"} =>
              reset[r].at \in {"check", "pulse", "pause"}
    PROVE  CallsFit' /\ Turns'
<1> DEFINE x == [reset[r] EXCEPT !.at = step]
<1>1. /\ CallFits(r, reset[r]) /\ x \in ResetCall
      /\ x.at = step /\ x.kind = reset[r].kind
      /\ x.board = reset[r].board /\ x.attempt = reset[r].attempt
  BY DEF CallsFit, ResetCall
<1>2. Becomes(r, x)
  BY DEF Goes
<1> HIDE DEF x
<1> QED
  BY <1>1, <1>2, GoesKeeps DEF CallFits, Ended

\* The pulse, when it ends: the attempt counts.
LEMMA PulseEndsKeeps ==
    ASSUME CallsFit, Turns, NEW r \in Resets, PulseEnds(r)
    PROVE  CallsFit' /\ Turns'
<1> DEFINE line == IF reset[r].kind = "power" THEN "login" ELSE "kernel"
           next == reset[r].attempt + 1
           x == [reset[r] EXCEPT !.at = "arm", !.attempt = next,
                                 !.late = FALSE, !.line = line]
<1>1. ~Ended(reset[r]) /\ reset[r].at = "pulse" /\ CallFits(r, reset[r])
  BY DEF PulseEnds, Stands, Ended, CallsFit
<1>2. Ends(r) \/ (Becomes(r, x) /\ UNCHANGED slot)
  BY DEF PulseEnds
<1>3. CASE Becomes(r, x) /\ UNCHANGED slot
  <2>1. line \in {"kernel", "login"} /\ next \in Nat
    BY <1>1 DEF CallFits, ResetCall
  <2> HIDE DEF line, next
  <2>2. /\ x.at = "arm" /\ x.kind = reset[r].kind /\ x.board = reset[r].board
        /\ x.attempt = next /\ x \in ResetCall
    BY <1>1, <2>1 DEF CallFits, ResetCall, Steps
  <2> HIDE DEF x
  <2>3. CallFits(r, x) /\ ~Ended(x)
    BY <1>1, <2>2, LimitPositive DEF CallFits, Ended, ResetCall, next
  <2> QED
    BY <1>1, <1>3, <2>2, <2>3, TurnsKept
<1> QED
  BY <1>1, <1>2, <1>3, EndsKeeps

\* So does a wait that ends, by a match, a closed channel or a cancel.
LEMMA WakesKeeps ==
    ASSUME CallsFit, Turns, NEW r \in Resets, Wakes(r)
    PROVE  CallsFit' /\ Turns'
<1>1. PICK heard \in {"yes", "no", "cancel"} :
          Becomes(r, [reset[r] EXCEPT !.at = "disarm", !.heard = heard])
  BY DEF Wakes
<1> DEFINE x == [reset[r] EXCEPT !.at = "disarm", !.heard = heard]
<1>2. ~Ended(reset[r]) /\ UNCHANGED slot
  BY DEF Wakes, Stands, Ended
<1>3. /\ x \in ResetCall /\ x.at = "disarm" /\ x.kind = reset[r].kind
      /\ x.board = reset[r].board /\ x.attempt = reset[r].attempt
  BY DEF CallsFit, ResetCall, Steps
<1> HIDE DEF x
<1> QED
  BY <1>1, <1>2, <1>3, GoesKeeps DEF Ended, x

\* After the wait: the end, another wait, a report, or a pause with attempts left.
LEMMA DisarmsKeeps ==
    ASSUME CallsFit, Turns, NEW r \in Resets, Disarms(r)
    PROVE  CallsFit' /\ Turns'
<1> DEFINE arm == [reset[r] EXCEPT !.at = "arm", !.line = "login",
                                   !.heard = "none", !.late = TRUE]
           to(step) == [reset[r] EXCEPT !.at = step, !.heard = "none"]
<1>1. ~Ended(reset[r]) /\ CallFits(r, reset[r])
  BY DEF Disarms, Stands, Ended, CallsFit
<1>2. \/ Ends(r)
      \/ UNCHANGED slot /\ Becomes(r, arm)
      \/ UNCHANGED slot /\ (Becomes(r, to("save")) \/ Becomes(r, to("report")))
      \/ /\ UNCHANGED slot /\ Becomes(r, to("pause"))
         /\ ~(reset[r].attempt >= AttemptsLimit(r))
  BY DEF Disarms, AfterWait
<1>3. /\ arm \in ResetCall /\ arm.at = "arm" /\ arm.kind = reset[r].kind
      /\ arm.board = reset[r].board /\ arm.attempt = reset[r].attempt
  BY <1>1 DEF CallFits, ResetCall, Steps
<1>4. ASSUME NEW step \in Steps
      PROVE  /\ to(step) \in ResetCall /\ to(step).at = step
             /\ to(step).kind = reset[r].kind /\ to(step).board = reset[r].board
             /\ to(step).attempt = reset[r].attempt
  BY <1>1 DEF CallFits, ResetCall
<1>5. {"arm", "save", "report", "pause"} \subseteq Steps \ {"idle", "over"}
  BY DEF Steps
<1> HIDE DEF arm, to
<1>6. CASE UNCHANGED slot /\ Becomes(r, arm)
  BY <1>1, <1>3, <1>6, GoesKeeps DEF Ended
<1>7. CASE UNCHANGED slot /\ (Becomes(r, to("save")) \/ Becomes(r, to("report")))
  BY <1>1, <1>4, <1>5, <1>7, GoesKeeps DEF Ended
<1>8. CASE /\ UNCHANGED slot /\ Becomes(r, to("pause"))
           /\ ~(reset[r].attempt >= AttemptsLimit(r))
  <2>1. reset[r].attempt < AttemptsLimit(r)
    BY <1>1, <1>8, LimitPositive DEF CallFits, ResetCall
  <2> QED
    BY <1>1, <1>4, <1>5, <1>8, <2>1, GoesKeeps DEF Ended
<1> QED
  BY <1>1, <1>2, <1>6, <1>7, <1>8, EndsKeeps

\* So does a call that saves the boot's log and then waits for the login.
LEMMA SavesKeeps ==
    ASSUME CallsFit, Turns, NEW r \in Resets, Saves(r)
    PROVE  CallsFit' /\ Turns'
<1> DEFINE x == [reset[r] EXCEPT !.at = "arm", !.line = "login"]
<1>1. ~Ended(reset[r]) /\ UNCHANGED slot /\ Becomes(r, x)
  BY DEF Saves, Stands, Ended, AwaitsLogin
<1>2. /\ x \in ResetCall /\ x.at = "arm" /\ x.kind = reset[r].kind
      /\ x.board = reset[r].board /\ x.attempt = reset[r].attempt
  BY DEF CallsFit, ResetCall, Steps
<1> HIDE DEF x
<1> QED
  BY <1>1, <1>2, GoesKeeps DEF Ended

\* The other steps of a call end it, or move it on.
LEMMA WorkKeeps ==
    ASSUME CallsFit, Turns, NEW r \in Resets, Works(r) \/ Drops(r)
    PROVE  CallsFit' /\ Turns'
<1>1. CASE CheckCancel(r)
  BY <1>1, EndsKeeps, StepKeeps DEF CheckCancel, Stands, Ended, Steps
<1>2. CASE PulseStarts(r)
  <2>1. CASE Ends(r)
    BY <1>2, <2>1, EndsKeeps DEF PulseStarts, Stands, Ended
  <2>2. CASE UNCHANGED <<reset, slot>>
    BY <2>2 DEF CallsFit, Turns, Workers
  <2> QED
    BY <1>2, <2>1, <2>2 DEF PulseStarts
<1>3. CASE PulseEnds(r)
  BY <1>3, PulseEndsKeeps
<1>4. CASE Arms(r)
  BY <1>4, StepKeeps DEF Arms, Stands, Ended, Steps
<1>5. CASE Wakes(r)
  BY <1>5, WakesKeeps
<1>6. CASE Disarms(r)
  BY <1>6, DisarmsKeeps
<1>7. CASE Saves(r)
  BY <1>7, SavesKeeps
<1>8. CASE Reports(r)
  BY <1>8, EndsKeeps DEF Reports, Stands, Ended
<1>9. CASE Pauses(r)
  BY <1>9, EndsKeeps, StepKeeps DEF Pauses, Stands, Ended, Steps
<1>10. CASE Drops(r)
  BY <1>10, EndsKeeps DEF Drops, Ended
<1> QED
  BY <1>1, <1>2, <1>3, <1>4, <1>5, <1>6, <1>7, <1>8, <1>9, <1>10 DEF Works

-----------------------------------------------------------------------------
(* The mutexes, the watchers and the boards.                               *)

\* A board that changes is one still.
LEMMA BoardFits ==
    ASSUME NEW x \in Board, NEW at \in {"rom", "kernel", "login"},
           NEW line \in {"kernel", "login"}
    PROVE  /\ [x EXCEPT !.at = at] \in Board
           /\ [x EXCEPT !.says = Append(@, line)] \in Board
           /\ [x EXCEPT !.says = <<"login">>] \in Board
           /\ x.says # <<>> => [x EXCEPT !.says = Tail(@)] \in Board
<1>1. x.says \in Seq({"kernel", "login"})
  BY DEF Board
<1>2. /\ Append(x.says, line) \in Seq({"kernel", "login"})
      /\ <<"login">> \in Seq({"kernel", "login"})
      /\ x.says # <<>> => Tail(x.says) \in Seq({"kernel", "login"})
  BY <1>1
<1> QED
  BY <1>2 DEF Board

\* Every step keeps the types of the boards.
LEMMA BoardsKept ==
    ASSUME CallsFit, BoardsFit, [ResetNext]_resetVars
    PROVE  BoardsFit'
<1> USE DEF BoardsFit
<1>1. ASSUME NEW b \in Boards, Boots(b) PROVE BoardsFit'
  <2>1. PICK move \in {<<"rom", "kernel">>, <<"kernel", "login">>} :
           booting' = [booting EXCEPT ![b].at = move[2],
                                      ![b].says = Append(@, move[2])]
    BY <1>1 DEF Boots
  <2> DEFINE moved == [booting EXCEPT ![b] = [booting[b] EXCEPT !.at = move[2]]]
  <2>2. booting[b] \in Board /\ move[2] \in {"kernel", "login"}
    BY <2>1
  <2>3. moved \in [Boards -> Board]
    BY <2>2, BoardFits
  <2>4. booting' = [moved EXCEPT ![b] =
                         [moved[b] EXCEPT !.says = Append(moved[b].says, move[2])]]
    BY <2>1
  <2> HIDE DEF moved
  <2>5. booting' \in [Boards -> Board]
    BY <2>2, <2>3, <2>4, BoardFits
  <2> QED
    BY <1>1, <2>5 DEF Boots
<1>2. ASSUME NEW b \in Boards, Hears(b) PROVE BoardsFit'
  <2>1. /\ booting[b] \in Board /\ booting[b].says # <<>>
        /\ booting' = [booting EXCEPT ![b] =
              [booting[b] EXCEPT !.says = Tail(@)]]
    BY <1>2 DEF Hears
  <2>2. booting' \in [Boards -> Board]
    BY <2>1, BoardFits
  <2> QED
    BY <1>2, <2>2 DEF Hears, Watcher
<1>3. CASE OtherTakes \/ OtherReturns
  BY <1>3 DEF OtherTakes, OtherReturns, detectorVars
<1>4. ASSUME NEW r \in Resets, PulseEnds(r) \/ Drops(r) PROVE BoardsFit'
  <2>1. booting' = booting \/ Restarts(reset[r].board)
    BY <1>4 DEF PulseEnds, Drops
  <2>2. reset[r].board \in Boards
    BY <1>4 DEF CallsFit, CallFits, Ended, PulseEnds, Drops, Stands
  <2> DEFINE b == reset[r].board
  <2>3. [booting[b] EXCEPT !.at = "rom"] \in Board
    BY <2>2, BoardFits
  <2>4. booting' \in [Boards -> Board]
    BY <2>1, <2>2, <2>3 DEF Restarts
  <2> QED
    BY <1>4, <2>4 DEF PulseEnds, Drops, Unlocks
<1>5. ASSUME NEW r \in Resets, Arms(r) PROVE BoardsFit'
  <2>1. [by |-> r, board |-> reset[r].board, line |-> reset[r].line] \in Watcher
    BY <1>5 DEF CallsFit, CallFits, Ended, ResetCall, Watcher, Arms, Stands
  <2> QED
    BY <1>5, <2>1 DEF Arms
<1>6. ASSUME NEW r \in Resets, Probes(r) PROVE BoardsFit'
  <2>1. booting' = [booting EXCEPT ![reset[r].board] =
                       [booting[reset[r].board] EXCEPT !.says = <<"login">>]]
    BY <1>6 DEF Probes
  <2>2. booting' \in [Boards -> Board]
    BY <2>1, BoardFits
  <2> QED
    BY <1>6, <2>2 DEF Probes
<1>7. ASSUME NEW r \in Resets,
             \/ CheckCancel(r) \/ PulseStarts(r) \/ Wakes(r) \/ Disarms(r)
             \/ Saves(r) \/ Reports(r) \/ Pauses(r) \/ Cancel(r)
             \/ \E b \in Boards :
                   RefuseTask(r, b) \/ \E kind \in ResetKinds : Call(r, kind, b)
      PROVE  BoardsFit'
  BY <1>7 DEF CheckCancel, PulseStarts, Wakes, Disarms, Saves, Reports, Pauses,
              Cancel, RefuseTask, Call, detectorVars
<1>8. CASE UNCHANGED resetVars
  BY <1>8 DEF resetVars
<1> QED
  BY <1>1, <1>2, <1>3, <1>4, <1>5, <1>6, <1>7, <1>8 DEF ResetNext, Works

-----------------------------------------------------------------------------
(* The theorems.                                                           *)

\* The first state satisfies the invariant.
LEMMA ResetFirst == ResetInit => ResetInv
<1> SUFFICES ASSUME ResetInit PROVE ResetInv
  OBVIOUS
<1> USE DEF ResetInit
<1>1. NewReset \in ResetCall /\ NewReset.at = "idle" /\ NewReset.attempt = 0
  BY DEF NewReset, ResetCall, Steps, ResetKinds
<1>2. CallsFit
  BY <1>1, LimitPositive DEF CallsFit, CallFits, Ended
<1>3. Turns
  BY <1>1 DEF Turns, Workers
<1>4. BoardsFit
  <2>1. <<>> \in Seq({"kernel", "login"})
    OBVIOUS
  <2> QED
    BY <2>1 DEF BoardsFit, Board
<1> QED
  BY <1>2, <1>3, <1>4 DEF ResetInv

\* Every step keeps it.
LEMMA ResetStep == ResetInv /\ [ResetNext]_resetVars => ResetInv'
<1> SUFFICES ASSUME CallsFit, Turns, BoardsFit, [ResetNext]_resetVars
             PROVE  CallsFit' /\ Turns' /\ BoardsFit'
  BY DEF ResetInv
<1>1. BoardsFit'
  BY BoardsKept
<1>2. CASE UNCHANGED <<reset, slot>>
  BY <1>1, <1>2 DEF CallsFit, CallFits, Turns, Workers
<1>3. ASSUME NEW r \in Resets, Works(r) \/ Cancel(r) \/ Drops(r)
      PROVE  CallsFit' /\ Turns'
  BY <1>3, WorkKeeps, CancelKeeps
<1>4. ASSUME NEW r \in Resets, NEW b \in Boards,
             RefuseTask(r, b) \/ \E kind \in ResetKinds : Call(r, kind, b)
      PROVE  CallsFit' /\ Turns'
  BY <1>4, RefuseTaskKeeps, CallKeeps
<1>5. ASSUME NEW r \in Resets, Probes(r) PROVE UNCHANGED <<reset, slot>>
  BY <1>5 DEF Probes
<1>6. ASSUME NEW b \in Boards, Boots(b) \/ Hears(b) PROVE UNCHANGED <<reset, slot>>
  BY <1>6 DEF Boots, Hears
<1>7. OtherTakes \/ OtherReturns \/ UNCHANGED resetVars => UNCHANGED <<reset, slot>>
  BY DEF OtherTakes, OtherReturns, resetVars
<1> QED
  BY <1>1, <1>2, <1>3, <1>4, <1>5, <1>6, <1>7 DEF ResetNext

\* Permits and workers agree in every behaviour.
THEOREM ResetCorrect == ResetSpec => []ResetInv
BY ResetFirst, ResetStep, PTL DEF ResetSpec

\* A DUT has one worker while its permit is out and none while it is in,
\* whichever calls are refused, cancelled, dropped or repeated.
THEOREM TasksTurn == ResetSpec => []TasksTakeTurns
<1>1. ResetInv => TasksTakeTurns
  <2> SUFFICES ASSUME ResetInv PROVE TasksTakeTurns
    OBVIOUS
  <2> USE DEF ResetInv
  <2>1. ResetTypeOK
    <3>1. \A r \in Resets : reset[r].attempt \in 0 .. AttemptsLimit(r)
      BY LimitPositive DEF CallsFit, CallFits, ResetCall
    <3>2. DOMAIN reset = Resets /\ \A r \in Resets : reset[r] \in ResetCall
      BY DEF CallsFit
    <3>3. \A w \in waits : w.by \in Resets /\ w.board \in Boards
                            /\ w.line \in {"kernel", "login"}
      BY DEF BoardsFit, Watcher
    <3>4. \A b \in Boards : booting[b].at \in {"rom", "kernel", "login"}
                            /\ booting[b].says \in Seq({"kernel", "login"})
      BY DEF BoardsFit, Board
    <3> QED
      BY <3>1, <3>2, <3>3, <3>4 DEF ResetTypeOK, BoardsFit, Turns, ResetCall
  <2>2. ASSUME NEW b \in Boards
        PROVE  Cardinality(Workers(b)) = IF slot[b] THEN 0 ELSE 1
    BY FS_EmptySet, FS_Singleton DEF Turns
  <2> QED
    BY <2>1, <2>2 DEF TasksTakeTurns
<1> QED
  BY <1>1, ResetCorrect, PTL

-----------------------------------------------------------------------------
(* The two together.                                                       *)

\* A behaviour of MCCalls is one of the commands and one of the resets.
THEOREM CallsAreBoth == CallsSpec => Spec /\ (ResetInit /\ [][ResetNext]_resetVars)
<1>1. CallsInit => Init /\ ResetInit
  BY DEF CallsInit
<1>2. [CallsNext]_callVars => [Next]_vars /\ [ResetNext]_resetVars
  BY DEF CallsNext, callVars
<1> QED
  BY <1>1, <1>2, PTL DEF CallsSpec, Spec
=============================================================================
