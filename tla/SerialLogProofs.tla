--------------------------- MODULE SerialLogProofs ---------------------------
(***************************************************************************)
(* Proofs about SerialLog, for every size of the ring, every bound on what *)
(* is read and every order of reads, writes, splits, failures, deaths and  *)
(* sessions: the variables keep their types, every byte of the line is in  *)
(* one place and in order, and a split that a firmware line asked for is   *)
(* made before that line.                                                  *)
(*                                                                         *)
(* LogInv speaks of one manager at a time: what its ring and its detector  *)
(* hold of its stream, and what an archive in the making has of the        *)
(* current file.  Only the owner of the archive changes the file, so a     *)
(* step of one manager leaves the others' part alone.  CutInv adds where   *)
(* the detector's line and its boundaries are in what follows the archives *)
(* (the current file, and the queue of the manager): offsets are moved by  *)
(* a split exactly as the text is.                                         *)
(***************************************************************************)
EXTENDS SerialLog, FoldLemmas

-----------------------------------------------------------------------------
(* The inductive invariant.                                                *)

Archives == [bytes : Seq(Pieces), saved : BOOLEAN]
Messages == [what : {"data", "rotate"}, bytes : Seq(Pieces)]

\* What an archive holds of the line.
Held(a) == IF a.saved THEN a.bytes ELSE <<>>

\* The fold of FeedPiece goes piece by piece.
FeedRun(r, n, X, d, c) ==
    /\ r[0] = d /\ r[n] = FoldLeft(FeedPiece, d, c)
    /\ \A k \in 0 .. n : r[k] \in X
    /\ \A k \in 1 .. n : r[k] = FeedPiece(r[k - 1], c[k])

\* Feeding the detector a chunk passes through values that all have the type, one
\* for each piece.
LEMMA FeedRuns ==
    ASSUME NEW X, NEW d \in X, NEW c, NEW n \in Nat, DOMAIN c = 1 .. n,
           \A e \in X, i \in 1 .. n : FeedPiece(e, c[i]) \in X
    PROVE  \E r : FeedRun(r, n, X, d, c)
<1> DEFINE Eq(f) == f = [S \in SUBSET DOMAIN c |->
                           IF S = {} THEN d ELSE FeedPiece(f[S \ {Max(S)}], c[Max(S)])]
           iter == CHOOSE f : Eq(f)
           step == [k \in 1 .. n |-> [e \in X |-> FeedPiece(e, c[k])]]
<1>1. FoldLeft(FeedPiece, d, c) = iter[DOMAIN c]
  BY DEF FoldLeft, MapThenFoldSet
<1>2. step \in [1 .. n -> [X -> X]]
  OBVIOUS
<1>3. \A k \in 1 .. n : \A e \in X : step[k][e] = FeedPiece(e, c[k])
  OBVIOUS
<1> HIDE DEF step
<1>4. PICK g : Solves(g, n, X, d, step)
  BY <1>2, RecursionSolved
<1>5. \A S \in SUBSET (1 .. n) : S # {} => Max(S) \in 1 .. n
  BY MaxExists
<1>6. Eq(g)
  <2>1. g \in [SUBSET (1 .. n) -> X] /\ g[{}] = d
    BY <1>4 DEF Solves
  <2>2. ASSUME NEW S \in SUBSET (1 .. n), S # {}
        PROVE  g[S] = FeedPiece(g[S \ {Max(S)}], c[Max(S)])
    <3>1. g[S] = step[Max(S)][g[S \ {Max(S)}]]
      BY <1>4, <2>2 DEF Solves
    <3>2. g[S \ {Max(S)}] \in X
      BY <2>1
    <3> QED  BY <1>5, <1>3, <2>2, <3>1, <3>2
  <2> QED  BY <2>1, <2>2
<1>7. Eq(iter)
  <2> HIDE DEF Eq
  <2> QED  BY <1>6
<1> HIDE DEF iter
<1>8. iter[{}] = d /\ \A S \in SUBSET (1 .. n) :
              S # {} => iter[S] = FeedPiece(iter[S \ {Max(S)}], c[Max(S)])
  BY <1>7
<1>9. Recurs(iter, n, X, d, step)
  <2> HIDE DEF Eq
  <2> QED  BY <1>5, <1>8, <1>3 DEF Recurs
<1>10. PICK r : IsRun(r, n, X, d, step) /\ r[n] = iter[1 .. n]
  BY <1>2, <1>9, RunOfRecursion
<1>11. r[n] = FoldLeft(FeedPiece, d, c)
  BY <1>1, <1>10
<1>12. r[0] = d /\ \A k \in 0 .. n : r[k] \in X
  BY <1>10 DEF IsRun
<1>13. \A k \in 1 .. n : r[k] = FeedPiece(r[k - 1], c[k])
  <2> SUFFICES ASSUME NEW k \in 1 .. n PROVE r[k] = FeedPiece(r[k - 1], c[k])
    OBVIOUS
  <2>1. k - 1 \in 0 .. n
    OBVIOUS
  <2>2. r[k] = step[k][r[k - 1]]
    BY <1>10 DEF IsRun
  <2>3. r[k - 1] \in X
    BY <1>12, <2>1
  <2> QED  BY <1>3, <2>2, <2>3
<1>14. FeedRun(r, n, X, d, c)
  BY <1>11, <1>12, <1>13 DEF FeedRun
<1> QED
  BY <1>14

\* It stays where one step of it stays.
LEMMA FeedStays ==
    ASSUME NEW X, NEW d \in X, NEW c, NEW n \in Nat, DOMAIN c = 1 .. n,
           \A e \in X, i \in 1 .. n : FeedPiece(e, c[i]) \in X
    PROVE  FoldLeft(FeedPiece, d, c) \in X
<1>1. PICK r : FeedRun(r, n, X, d, c)
  BY FeedRuns
<1>2. r[n] = FoldLeft(FeedPiece, d, c) /\ r[n] \in X
  BY <1>1 DEF FeedRun
<1> QED
  BY <1>2

\* What the archives hold, and what waits in a queue, are gathered.
LEMMA BytesIs ==
    ASSUME NEW a \in Seq(Archives)
    PROVE  /\ IsMap([x \in Archives |-> Held(x)], Archives, TextsOf(Pieces))
           /\ Bytes(a) = Gathered([x \in Archives |-> Held(x)], a)
<1> DEFINE h == [x \in Archives |-> Held(x)]
<1>1. \A x \in Archives : Held(x) \in TextsOf(Pieces)
  BY DEF Held, Archives, TextsOf
<1>2. \A i \in DOMAIN a : a[i] \in Archives
  OBVIOUS
<1>3. [i \in DOMAIN a |-> IF a[i].saved THEN a[i].bytes ELSE <<>>]
        = [i \in DOMAIN a |-> h[a[i]]]
  BY <1>2 DEF Held
<1> QED
  BY <1>1, <1>3 DEF Bytes, Gathered, Mapped, IsMap

\* What the writer has in its queue is the text of its messages, one after
\* another.
LEMMA PendingIs ==
    ASSUME NEW l, l.queue \in Seq(Messages)
    PROVE  /\ IsMap([x \in Messages |-> x.bytes], Messages, TextsOf(Pieces))
           /\ Pending(l) = Gathered([x \in Messages |-> x.bytes], l.queue)
<1> DEFINE h == [x \in Messages |-> x.bytes]
<1>1. \A x \in Messages : x.bytes \in TextsOf(Pieces)
  BY DEF Messages, TextsOf
<1>2. \A i \in DOMAIN l.queue : l.queue[i] \in Messages
  OBVIOUS
<1>3. [i \in DOMAIN l.queue |-> l.queue[i].bytes] = [i \in DOMAIN l.queue |-> h[l.queue[i]]]
  BY <1>2
<1> QED
  BY <1>1, <1>3 DEF Pending, Gathered, Mapped, IsMap

\* The archives, one by one and part by part.
LEMMA BytesFacts ==
    ASSUME NEW a \in Seq(Archives)
    PROVE  /\ Bytes(a) \in Seq(Pieces)
           /\ \A x \in Archives : Bytes(Append(a, x)) = Bytes(a) \o Held(x)
<1> DEFINE h == [x \in Archives |-> Held(x)]
<1>1. \A b \in Seq(Archives) :
         IsMap(h, Archives, TextsOf(Pieces)) /\ Bytes(b) = Gathered(h, b)
  BY BytesIs
<1>2. \A x \in Archives : h[x] = Held(x) /\ Append(a, x) \in Seq(Archives)
  OBVIOUS
<1> HIDE DEF h
<1>3. Gathers(h, a, Archives, Pieces)
  BY <1>1, GatheredFacts
<1> QED
  BY <1>1, <1>2, <1>3 DEF Gathers, TextsOf

\* The bytes of archives are those of the first n followed by those of the rest.
LEMMA BytesSplit ==
    ASSUME NEW a \in Seq(Archives), NEW n \in 0 .. Len(a)
    PROVE  /\ Bytes(SubSeq(a, 1, n)) \in Seq(Pieces)
           /\ Bytes(SubSeq(a, n + 1, Len(a))) \in Seq(Pieces)
           /\ Bytes(a) = Bytes(SubSeq(a, 1, n)) \o Bytes(SubSeq(a, n + 1, Len(a)))
<1> DEFINE h == [x \in Archives |-> Held(x)]
<1>1. \A b \in Seq(Archives) :
         IsMap(h, Archives, TextsOf(Pieces)) /\ Bytes(b) = Gathered(h, b)
  BY BytesIs
<1>2. SubSeq(a, 1, n) \in Seq(Archives) /\ SubSeq(a, n + 1, Len(a)) \in Seq(Archives)
  OBVIOUS
<1> HIDE DEF h
<1>3. /\ Gathered(h, SubSeq(a, 1, n)) \in TextsOf(Pieces)
      /\ Gathered(h, SubSeq(a, n + 1, Len(a))) \in TextsOf(Pieces)
      /\ Gathered(h, a) = Gathered(h, SubSeq(a, 1, n))
                            \o Gathered(h, SubSeq(a, n + 1, Len(a)))
  BY <1>1, GatheredSplit
<1> QED
  BY <1>1, <1>2, <1>3 DEF TextsOf

\* A queue, message by message.
LEMMA PendingFacts ==
    ASSUME NEW l, l.queue \in Seq(Messages)
    PROVE  /\ Pending(l) \in Seq(Pieces)
           /\ l.queue = <<>> => Pending(l) = <<>>
           /\ \A k, x : x \in Messages /\ k.queue = Append(l.queue, x)
                          => Pending(k) = Pending(l) \o x.bytes
           /\ \A k : l.queue # <<>> /\ k.queue = Tail(l.queue)
                       => Pending(l) = Head(l.queue).bytes \o Pending(k)
<1> DEFINE h == [x \in Messages |-> x.bytes]
<1>1. \A k : k.queue \in Seq(Messages) =>
         IsMap(h, Messages, TextsOf(Pieces)) /\ Pending(k) = Gathered(h, k.queue)
  BY PendingIs
<1>2. \A x \in Messages : h[x] = x.bytes
  OBVIOUS
<1> HIDE DEF h
<1>30. Gathers(h, l.queue, Messages, Pieces)
  BY <1>1, GatheredFacts
<1>3. Pending(l) \in Seq(Pieces)
  BY <1>1, <1>30 DEF Gathers, TextsOf
<1>4. ASSUME l.queue = <<>> PROVE Pending(l) = <<>>
  <2>1. Mapped(h, l.queue) = <<>>
    BY <1>4 DEF Mapped
  <2> QED  BY <1>1, <2>1, FlattenEmpty DEF Gathered
<1>5. ASSUME NEW k, NEW x \in Messages, k.queue = Append(l.queue, x)
      PROVE  Pending(k) = Pending(l) \o x.bytes
  <2>1. Append(l.queue, x) \in Seq(Messages)
    OBVIOUS
  <2>2. Gathered(h, Append(l.queue, x)) = Gathered(h, l.queue) \o h[x]
    BY <1>30 DEF Gathers
  <2> QED  BY <1>1, <1>2, <1>5, <2>1, <2>2
<1>6. ASSUME NEW k, l.queue # <<>>, k.queue = Tail(l.queue)
      PROVE  Pending(l) = Head(l.queue).bytes \o Pending(k)
  <2>1. Tail(l.queue) \in Seq(Messages) /\ Head(l.queue) \in Messages
    BY <1>6
  <2>2. Gathered(h, l.queue) = h[Head(l.queue)] \o Gathered(h, Tail(l.queue))
    BY <1>6, <1>30 DEF Gathers
  <2> QED  BY <1>1, <1>2, <1>6, <2>1, <2>2
<1> QED
  BY <1>3, <1>4, <1>5, <1>6

-----------------------------------------------------------------------------
(* The bytes of the archives, of current and of a queue make up what was   *)
(* heard, but for what was cleaned up.                                     *)

Whole(b, c, q, h, k) == Rest(h, k, (b \o c) \o q)

\* A chunk is queued.
LEMMA WholeQueued ==
    ASSUME NEW T, NEW b \in Seq(T), NEW c \in Seq(T), NEW q \in Seq(T), NEW h \in Seq(T),
           NEW k \in Nat, NEW x \in Seq(T), Whole(b, c, q, h, k)
    PROVE  Whole(b, c, q \o x, h \o x, k)
<1>1. b \o c \in Seq(T) /\ (b \o c) \o q \in Seq(T)
  BY ConcatAt
<1>10. Assoc(b \o c, q, x)
  BY <1>1, ConcatAssoc
<1>2. Rest(h \o x, k, ((b \o c) \o q) \o x)
  BY <1>1, RestGrows DEF Whole
<1> QED
  BY <1>10, <1>2 DEF Whole, Assoc

\* The head of the queue is written.
LEMMA WholeWritten ==
    ASSUME NEW T, NEW b \in Seq(T), NEW c \in Seq(T), NEW x \in Seq(T), NEW q \in Seq(T),
           NEW h, NEW k, Whole(b, c, x \o q, h, k)
    PROVE  Whole(b, c \o x, q, h, k)
<1>1. (b \o c) \o (x \o q) = (b \o (c \o x)) \o q
  OBVIOUS
<1> QED
  BY <1>1 DEF Whole

\* The queue is lost with its process.
LEMMA WholeLost ==
    ASSUME NEW T, NEW b \in Seq(T), NEW c \in Seq(T), NEW q \in Seq(T), NEW h \in Seq(T),
           NEW k \in Nat, Whole(b, c, q, h, k)
    PROVE  /\ Len(q) <= Len(h)
           /\ Whole(b, c, <<>>, SubSeq(h, 1, Len(h) - Len(q)), k)
<1>1. b \o c \in Seq(T) /\ (b \o c) \o <<>> = b \o c
  OBVIOUS
<1>2. Len(q) <= Len(h) /\ Rest(SubSeq(h, 1, Len(h) - Len(q)), k, b \o c)
  BY <1>1, RestLoses DEF Whole
<1> QED
  BY <1>1, <1>2 DEF Whole

\* An archive is saved.
LEMMA WholeSplit ==
    ASSUME NEW T, NEW b \in Seq(T), NEW x \in Seq(T), NEW s \in Seq(T), NEW q \in Seq(T),
           NEW h, NEW k, Whole(b, x \o s, q, h, k)
    PROVE  Whole(b \o x, s, q, h, k)
<1>1. (b \o (x \o s)) \o q = ((b \o x) \o s) \o q
  OBVIOUS
<1> QED
  BY <1>1 DEF Whole

\* The first archives are cleaned up.
LEMMA WholeCleaned ==
    ASSUME NEW T, NEW x \in Seq(T), NEW b \in Seq(T), NEW c \in Seq(T), NEW q \in Seq(T),
           NEW h \in Seq(T), NEW k \in Nat, Whole(x \o b, c, q, h, k)
    PROVE  Whole(b, c, q, h, k + Len(x))
<1>1. b \o c \in Seq(T) /\ (b \o c) \o q \in Seq(T)
  BY ConcatAt
<1>10. Assoc(x, b, c) /\ Assoc(x, b \o c, q)
  BY <1>1, ConcatAssoc
<1>2. Rest(h, k, x \o ((b \o c) \o q))
  BY <1>10 DEF Whole, Assoc
<1> QED
  BY <1>1, <1>2, RestShrinks DEF Whole

-----------------------------------------------------------------------------
(* The inductive invariant.                                                *)

\* A LogManager.
Manager ==
    [up : BOOLEAN, phase : PrefixPhases, line : Seq(Pieces), cursor : Nat, start : Nat,
     ring : Seq(Pieces), written : Nat, stream : Seq(Pieces), queue : Seq(Messages),
     handle : Nat, todo : Seq(Int), copied : BOOLEAN, suffix : Seq(Pieces),
     forced : BOOLEAN, mixed : BOOLEAN]

Polls == [kind : {"none", "engine", "client"}, at : Nat, fresh : Nat]

LogTypes ==
    /\ disk \in [cur : Seq(Pieces), file : Nat, archives : Seq(Archives), cleaned : Nat]
    /\ lm \in [Managers -> Manager]
    /\ owner \in Managers \cup {"nobody"}
    /\ heard \in Seq(Pieces)
    /\ poll \in Polls
    /\ count \in 0 .. MaxEvents

\* The detector has the line that it is in, and no boundary to come; the ring
\* has the end of the stream.
Detecting(l) ==
    /\ l.start + Len(l.line) = l.cursor
    /\ \A i \in 1 .. Len(l.todo) : l.todo[i] <= l.cursor
Ringing(l) ==
    /\ l.written = Len(l.stream)
    /\ Len(l.ring) <= l.written
    /\ Len(l.ring) <= RingCap
    /\ Rest(l.stream, l.written - Len(l.ring), l.ring)

\* An archive in the making and the next current are current.
Copied(d, l) ==
    /\ l.queue = <<>> /\ l.todo # <<>>
    /\ d.archives # <<>>
    /\ ~Last(d.archives).saved
    /\ Last(d.archives).bytes \o l.suffix = d.cur


Stores == [cur : Seq(Pieces), file : Nat, archives : Seq(Archives), cleaned : Nat]

ManagerOK(d, l, o, m) ==
    /\ Detecting(l[m])
    /\ Ringing(l[m])
    /\ l[m].handle <= d.file
    /\ m # o => l[m].queue = <<>> /\ l[m].todo = <<>> /\ ~l[m].copied
    /\ l[m].copied => Copied(d, l[m])

\* FilesWhole, of any files, queues and history.
InFiles(d, l, h) ==
    /\ d.cleaned <= Len(h)
    /\ ((Bytes(d.archives) \o d.cur) \o Pending(l["server"])) \o Pending(l["dutabo"])
         = SubSeq(h, d.cleaned + 1, Len(h))

LogInv ==
    /\ LogTypes
    /\ \A m \in Managers : ManagerOK(disk, lm, owner, m)
    /\ InFiles(disk, lm, heard)
    /\ Len(heard) <= MaxHeard
    /\ poll.at <= MaxHeard

\* At most one queue is not empty.
LEMMA WholeFiles ==
    ASSUME NEW d \in Stores, NEW l \in [Managers -> Manager], NEW h \in Seq(Pieces),
           NEW m \in Managers, \A n \in Managers : n # m => l[n].queue = <<>>
    PROVE  InFiles(d, l, h) <=> Whole(Bytes(d.archives), d.cur, Pending(l[m]), h, d.cleaned)
<1>1. \A n \in Managers : l[n].queue \in Seq(Messages)
  BY DEF Manager
<1>2. \A n \in Managers : Pending(l[n]) \in Seq(Pieces) /\ (n # m => Pending(l[n]) = <<>>)
  BY <1>1, PendingFacts
<1>3. Bytes(d.archives) \in Seq(Pieces) /\ d.cur \in Seq(Pieces) /\ d.cleaned \in Nat
  <2>1. d.archives \in Seq(Archives)
    BY DEF Stores
  <2> QED  BY <2>1, BytesFacts DEF Stores
<1>4. m = "server" \/ m = "dutabo"
  BY DEF Managers
<1>5. {"server", "dutabo"} = Managers
  BY DEF Managers
<1> DEFINE p == Pending(l["server"])
           q == Pending(l["dutabo"])
           b == Bytes(d.archives)
           c == d.cur
           w == Pending(l[m])
<1>6. p \in Seq(Pieces) /\ q \in Seq(Pieces) /\ w \in Seq(Pieces)
  BY <1>2, <1>5
<1>7. (m = "server" /\ w = p /\ q = <<>>) \/ (m = "dutabo" /\ w = q /\ p = <<>>)
  BY <1>2, <1>4, <1>5
<1>8. b \in Seq(Pieces) /\ c \in Seq(Pieces)
  BY <1>3
<1>9. InFiles(d, l, h) <=> d.cleaned <= Len(h) /\ ((b \o c) \o p) \o q = SubSeq(h, d.cleaned + 1, Len(h))
  BY DEF InFiles
<1>10. Whole(b, c, w, h, d.cleaned) <=> Rest(h, d.cleaned, (b \o c) \o w)
  BY DEF Whole
<1> HIDE DEF p, q, b, c, w
<1>11. b \o c \in Seq(Pieces) /\ (b \o c) \o w \in Seq(Pieces) /\ (b \o c) \o p \in Seq(Pieces)
  BY <1>6, <1>8, ConcatAt
<1>12. ((b \o c) \o p) \o q = (b \o c) \o w
  BY <1>6, <1>7, <1>11, ConcatEmpty
<1>13. Whole(b, c, w, h, d.cleaned)
         <=> d.cleaned <= Len(h) /\ (b \o c) \o w = SubSeq(h, d.cleaned + 1, Len(h))
  BY <1>3, <1>10, <1>11, RestIs
<1> QED
  BY <1>9, <1>12, <1>13 DEF b, c, w

-----------------------------------------------------------------------------
(* A read.                                                                 *)

\* One piece: the detector moves on, and touches nothing else.
Fed(l) ==
    {e \in Manager :
       /\ Detecting(e)
       /\ e.up = l.up /\ e.queue = l.queue /\ e.handle = l.handle
       /\ e.ring = l.ring /\ e.written = l.written /\ e.stream = l.stream
       /\ e.copied = l.copied /\ e.suffix = l.suffix}

\* A line is of one of four kinds.
LEMMA KindIs ==
    ASSUME NEW line
    PROVE  Kind(line) \in {"ddr", "spl", "loader", "text"}
BY DEF Kind

\* A piece fed to the detector leaves all but the detector as it was, and its
\* bookkeeping (line, offsets, boundaries) well-formed.
LEMMA FeedPieceStays ==
    ASSUME NEW l, NEW e \in Fed(l), NEW p \in Pieces
    PROVE  FeedPiece(e, p) \in Fed(l)
<1> DEFINE kind == Kind(e.line)
           at == SelectInSeq(e.line, LAMBDA x : x = kind)
<1>1. kind \in {"ddr", "spl", "loader", "text"}
  BY KindIs
<1>2. /\ e \in Manager /\ Detecting(e)
      /\ e.line \in Seq(Pieces) /\ e.start \in Nat /\ e.cursor \in Nat /\ e.todo \in Seq(Int)
      /\ e.phase \in PrefixPhases
  BY DEF Fed, Manager
<1>3. at \in 0 .. Len(e.line)
  <2> DEFINE I == {i \in 1 .. Len(e.line) : e.line[i] = kind}
  <2>1. at = IF I # {} THEN Min(I) ELSE 0
    BY DEF SelectInSeq
  <2>2. I # {} => Min(I) \in I
    <3>1. I \in SUBSET Nat
      OBVIOUS
    <3> HIDE DEF I
    <3> QED  BY <3>1, MinExists
  <2> QED  BY <1>2, <2>1, <2>2
<1> HIDE DEF at, kind
<1>4. CASE p # "eol"
  <2>1. FeedPiece(e, p) = [e EXCEPT !.cursor = @ + 1, !.line = Append(@, p)]
    BY <1>2, <1>4 DEF FeedPiece, Manager
  <2>2. Append(e.line, p) \in Seq(Pieces) /\ Len(Append(e.line, p)) = Len(e.line) + 1
    BY <1>2
  <2> DEFINE line == Append(e.line, p)
             cursor == e.cursor + 1
             f == [e EXCEPT !.cursor = cursor, !.line = line]
  <2>3. line \in Seq(Pieces) /\ cursor \in Nat /\ e.start + Len(line) = cursor
    BY <1>2, <2>2 DEF Detecting
  <2> HIDE DEF line, cursor
  <2>4. f \in Manager
    BY <1>2, <2>3 DEF Manager
  <2>5. /\ f.cursor = cursor /\ f.line = line /\ f.start = e.start /\ f.todo = e.todo
        /\ f.up = e.up /\ f.queue = e.queue /\ f.handle = e.handle
        /\ f.ring = e.ring /\ f.written = e.written /\ f.stream = e.stream
        /\ f.copied = e.copied /\ f.suffix = e.suffix
    BY <1>2 DEF Manager
  <2>6. cursor = e.cursor + 1
    BY DEF cursor
  <2>7. FeedPiece(e, p) = f
    BY <2>1 DEF line, cursor
  <2> HIDE DEF f
  <2>8. Detecting(f)
    BY <1>2, <2>3, <2>5, <2>6 DEF Detecting
  <2> QED  BY <2>4, <2>5, <2>7, <2>8 DEF Fed
<1>5. CASE p = "eol"
  <2> DEFINE todo == IF CutsBefore(e.phase, kind) THEN Append(e.todo, e.start + at - 1)
                     ELSE e.todo
             phase == PhaseAfter(e.phase, kind)
  <2>1. FeedPiece(e, p) = [e EXCEPT !.cursor = @ + 1, !.todo = todo, !.phase = phase,
                                    !.line = <<>>, !.start = e.cursor + 1]
    BY <1>2, <1>5 DEF FeedPiece, Manager, at, kind
  <2>2. phase \in PrefixPhases
    BY <1>1, <1>2 DEF PhaseAfter, PrefixPhases
  <2>3. todo \in Seq(Int) /\ \A i \in 1 .. Len(todo) : todo[i] <= e.cursor + 1
    <3>1. e.start + at - 1 \in Int /\ e.start + at - 1 <= e.cursor
      BY <1>2, <1>3 DEF Detecting
    <3>2. \A i \in 1 .. Len(e.todo) : e.todo[i] <= e.cursor /\ e.todo[i] \in Int
      BY <1>2 DEF Detecting
    <3> DEFINE x == e.start + at - 1
               t == e.todo
    <3>3. t \in Seq(Int) /\ x \in Int /\ e.cursor \in Nat
      BY <1>2, <3>1
    <3> HIDE DEF x
    <3>4. Append(t, x) \in Seq(Int) /\ Len(Append(t, x)) = Len(t) + 1
          /\ \A i \in 1 .. Len(t) + 1 : Append(t, x)[i] = IF i = Len(t) + 1 THEN x ELSE t[i]
      BY <3>3
    <3>5. \A i \in 1 .. Len(t) + 1 : Append(t, x)[i] <= e.cursor + 1
      BY <3>1, <3>2, <3>3, <3>4 DEF x
    <3> QED  BY <3>2, <3>3, <3>4, <3>5 DEF x
  <2> HIDE DEF todo, phase
  <2>4. <<>> \in Seq(Pieces) /\ Len(<<>>) = 0
    OBVIOUS
  <2> DEFINE cursor == e.cursor + 1
             none == <<>>
             f == [e EXCEPT !.cursor = cursor, !.todo = todo, !.phase = phase,
                            !.line = none, !.start = cursor]
  <2>5. none \in Seq(Pieces) /\ Len(none) = 0 /\ cursor \in Nat
    BY <1>2, <2>4
  <2>6. cursor = e.cursor + 1
    OBVIOUS
  <2>7. FeedPiece(e, p) = f
    BY <2>1, <1>2 DEF Manager
  <2> HIDE DEF cursor, none
  <2>8. f \in Manager
    BY <1>2, <2>2, <2>3, <2>5 DEF Manager
  <2>9. /\ f.cursor = cursor /\ f.line = none /\ f.start = cursor /\ f.todo = todo
        /\ f.up = e.up /\ f.queue = e.queue /\ f.handle = e.handle
        /\ f.ring = e.ring /\ f.written = e.written /\ f.stream = e.stream
        /\ f.copied = e.copied /\ f.suffix = e.suffix
    BY <1>2 DEF Manager
  <2> HIDE DEF f
  <2>10. Detecting(f)
    BY <2>3, <2>5, <2>6, <2>9 DEF Detecting
  <2> QED  BY <2>7, <2>8, <2>9, <2>10 DEF Fed
<1> QED
  BY <1>4, <1>5

\* The ring keeps the end of the stream.
LEMMA RememberStays ==
    ASSUME LogAssumption, NEW l \in Manager, NEW chunk \in Seq(Pieces), Ringing(l)
    PROVE  LET k == Remember(l, chunk)
               message == [what |-> "data", bytes |-> chunk]
           IN  /\ k \in Manager
               /\ Ringing(k)
               /\ message \in Messages /\ k.queue = Append(l.queue, message)
               /\ k.line = l.line /\ k.cursor = l.cursor /\ k.start = l.start
               /\ k.todo = l.todo /\ k.copied = l.copied /\ k.suffix = l.suffix
               /\ k.handle = l.handle /\ k.phase = l.phase /\ k.up = l.up
<1> DEFINE both == l.ring \o chunk
           stream == l.stream \o chunk
           half == RingCap \div 2
           ring == IF Len(both) > RingCap THEN Keep(both, half) ELSE both
           written == l.written + Len(chunk)
           message == [what |-> "data", bytes |-> chunk]
           queue == Append(l.queue, message)
           k == [l EXCEPT !.ring = ring, !.written = written, !.stream = stream,
                          !.queue = queue]
<1>1. Remember(l, chunk) = k
  BY DEF Remember, Manager
<1>2. /\ l.ring \in Seq(Pieces) /\ l.stream \in Seq(Pieces) /\ l.written \in Nat
      /\ l.queue \in Seq(Messages) /\ Len(chunk) \in Nat
  BY DEF Manager
<1>3. message \in Messages
  BY DEF Messages
<1>4. queue \in Seq(Messages)
  <2> HIDE DEF message
  <2> QED  BY <1>2, <1>3
<1>5. both \in Seq(Pieces) /\ Len(both) = Len(l.ring) + Len(chunk) /\ Len(l.ring) \in Nat
  BY <1>2, ConcatAt
<1>6. stream \in Seq(Pieces) /\ Len(stream) = Len(l.stream) + Len(chunk)
  BY <1>2, ConcatAt
<1>7. half \in Nat /\ half <= RingCap /\ RingCap \in Nat
  BY DEF LogAssumption
<1>8. l.written = Len(l.stream) /\ Len(l.ring) <= l.written /\ Len(l.ring) <= RingCap
      /\ Rest(l.stream, l.written - Len(l.ring), l.ring)
  BY DEF Ringing
<1> DEFINE j == l.written - Len(l.ring)
<1>50. /\ l.written \in Nat /\ Len(l.ring) \in Nat /\ Len(chunk) \in Nat
       /\ l.written = Len(l.stream) /\ Len(l.ring) <= l.written
  BY <1>2, <1>5, <1>8
<1>51. Len(both) = Len(l.ring) + Len(chunk) /\ Len(stream) = Len(l.stream) + Len(chunk)
  BY <1>5, <1>6
<1>9. j \in Nat /\ Rest(l.stream, j, l.ring)
  <2>1. j \in Nat
    BY <1>50
  <2> QED  BY <2>1, <1>8
<1>10. Rest(stream, j, both)
  <2> HIDE DEF j
  <2> QED  BY <1>2, <1>9, RestGrows
<1> HIDE DEF both, stream, half
<1>11. written = Len(stream) /\ written \in Nat /\ written = j + Len(both)
  <2> DEFINE a == l.written
             r == Len(l.ring)
             c == Len(chunk)
             b == Len(both)
             t == Len(stream)
             u == Len(l.stream)
  <2>1. a \in Nat /\ r \in Nat /\ c \in Nat /\ a = u /\ r <= a /\ b = r + c /\ t = u + c
    BY <1>50, <1>51
  <2>2. written = a + c /\ j = a - r
    OBVIOUS
  <2> HIDE DEF a, r, c, b, t, u, written, j
  <2>3. written = t /\ written \in Nat /\ written = j + b
    BY <2>1, <2>2
  <2> QED  BY <2>3 DEF t, b
<1> HIDE DEF written, j
<1>12. /\ ring \in Seq(Pieces) /\ Len(ring) <= RingCap /\ Len(ring) <= written
       /\ Rest(stream, written - Len(ring), ring)
  <2>0. Len(both) \in Nat
    BY <1>5
  <2>1. CASE Len(both) > RingCap
    <3> DEFINE from == Len(both) - half
    <3>1. from \in 0 .. Len(both) /\ half = Len(both) - from
      BY <1>7, <2>0, <2>1
    <3>2. ring = SubSeq(both, from + 1, Len(both))
      BY <2>1 DEF Keep
    <3> HIDE DEF from, ring
    <3>3. ring \in Seq(Pieces) /\ Len(ring) = half /\ Rest(stream, j + from, ring)
      BY <1>5, <1>6, <1>9, <1>10, <3>1, <3>2, RestSuffix
    <3>4. j + from = written - half /\ half <= written
      BY <1>7, <1>9, <1>11, <2>0, <3>1
    <3> QED  BY <1>7, <3>3, <3>4
  <2>2. CASE ~(Len(both) > RingCap)
    <3>1. ring = both
      BY <2>2
    <3>2. j = written - Len(both) /\ Len(both) <= RingCap /\ Len(both) <= written
      BY <1>7, <1>9, <1>11, <2>0, <2>2
    <3> HIDE DEF ring
    <3> QED  BY <1>5, <1>10, <3>1, <3>2
  <2> QED  BY <2>1, <2>2
<1> HIDE DEF ring, queue, message
<1>13. k \in Manager
  BY <1>4, <1>6, <1>11, <1>12 DEF Manager
<1>14. /\ k.ring = ring /\ k.written = written /\ k.stream = stream /\ k.queue = queue
       /\ k.line = l.line /\ k.cursor = l.cursor /\ k.start = l.start
       /\ k.todo = l.todo /\ k.copied = l.copied /\ k.suffix = l.suffix
       /\ k.handle = l.handle /\ k.phase = l.phase /\ k.up = l.up
  BY DEF Manager
<1> HIDE DEF k
<1>15. Ringing(k)
  BY <1>11, <1>12, <1>14 DEF Ringing
<1> QED
  BY <1>1, <1>3, <1>13, <1>14, <1>15 DEF queue, message

\* What the steps need of a LogManager and of the files.
LEMMA InvFacts ==
    ASSUME LogInv
    PROVE  /\ disk \in Stores /\ lm \in [Managers -> Manager] /\ heard \in Seq(Pieces)
           /\ disk.cur \in Seq(Pieces) /\ disk.file \in Nat
           /\ disk.archives \in Seq(Archives) /\ disk.cleaned \in Nat
           /\ Bytes(disk.archives) \in Seq(Pieces)
           /\ \A m \in Managers :
                 /\ lm[m] \in Manager
                 /\ ManagerOK(disk, lm, owner, m)
                 /\ Pending(lm[m]) \in Seq(Pieces)
                 /\ m = owner \/ owner = "nobody" =>
                      Whole(Bytes(disk.archives), disk.cur, Pending(lm[m]), heard,
                            disk.cleaned)
<1>1. /\ disk \in Stores /\ lm \in [Managers -> Manager] /\ heard \in Seq(Pieces)
      /\ InFiles(disk, lm, heard)
      /\ \A m \in Managers : ManagerOK(disk, lm, owner, m)
  BY DEF LogInv, LogTypes, Stores
<1>2. /\ disk.cur \in Seq(Pieces) /\ disk.file \in Nat
      /\ disk.archives \in Seq(Archives) /\ disk.cleaned \in Nat
  BY <1>1 DEF Stores
<1>3. Bytes(disk.archives) \in Seq(Pieces)
  BY <1>2, BytesFacts
<1>4. ASSUME NEW m \in Managers
      PROVE  lm[m] \in Manager /\ Pending(lm[m]) \in Seq(Pieces)
  <2>1. lm[m] \in Manager
    BY <1>1
  <2>2. lm[m].queue \in Seq(Messages)
    BY <2>1 DEF Manager
  <2> QED  BY <2>1, <2>2, PendingFacts
<1>5. ASSUME NEW m \in Managers, m = owner \/ owner = "nobody"
      PROVE  Whole(Bytes(disk.archives), disk.cur, Pending(lm[m]), heard, disk.cleaned)
  <2>1. \A n \in Managers : n # m => lm[n].queue = <<>>
    BY <1>1, <1>5 DEF ManagerOK, Managers
  <2> QED  BY <1>1, <2>1, WholeFiles
<1> QED
  BY <1>1, <1>2, <1>3, <1>4, <1>5

\* A read: the chunk is heard, fed to the detector, remembered and queued.
LEMMA WriteSerialKeeps ==
    ASSUME LogAssumption, LogInv, NEW m \in Managers, NEW chunk \in Chunks,
           WriteSerial(m, chunk)
    PROVE  LogInv'
<1> DEFINE l == lm[m]
           o == Other(m)
           fed == FoldLeft(FeedPiece, l, chunk)
           clean == [fed EXCEPT !.forced = FALSE, !.mixed = l.mixed /\ l.line # <<>>]
           known == Remember(clean, chunk)
           new == [known EXCEPT !.handle = IF @ = 0 THEN disk.file ELSE @]
           other == [lm[o] EXCEPT !.mixed = @ \/ lm[o].line # <<>>]
           message == [what |-> "data", bytes |-> chunk]
<1>1. PICK n \in Nat : chunk \in [1 .. n -> Pieces]
  BY DEF Chunks, LogAssumption
<1>2. chunk \in Seq(Pieces) /\ DOMAIN chunk = 1 .. n /\ \A i \in 1 .. n : chunk[i] \in Pieces
  BY <1>1
<1>3. /\ disk \in Stores /\ lm \in [Managers -> Manager] /\ heard \in Seq(Pieces)
      /\ disk.cur \in Seq(Pieces) /\ disk.file \in Nat
      /\ disk.cleaned \in Nat /\ Bytes(disk.archives) \in Seq(Pieces)
      /\ l \in Manager /\ Pending(l) \in Seq(Pieces)
      /\ \A k \in Managers : ManagerOK(disk, lm, owner, k) /\ lm[k] \in Manager
  BY InvFacts
<1>4. /\ owner = m /\ l.up /\ l.todo = <<>> /\ Len(heard) + Len(chunk) <= MaxHeard
      /\ heard' = heard \o chunk /\ UNCHANGED <<disk, owner, poll, count>>
  BY DEF WriteSerial, Reads, AtRest
<1>5. /\ Whole(Bytes(disk.archives), disk.cur, Pending(l), heard, disk.cleaned)
      /\ Detecting(l) /\ Ringing(l) /\ ~l.copied /\ l.handle <= disk.file
  BY <1>3, <1>4, InvFacts DEF ManagerOK, Copied
<1>6. o \in Managers /\ o # m /\ \A k \in Managers : k = m \/ k = o
  BY DEF Other, Managers
<1>7. lm' = [lm EXCEPT ![m] = new, ![o] = other]
  BY <1>3, <1>6 DEF WriteSerial
<1>8. fed \in Fed(l)
  <2>1. l \in Fed(l)
    BY <1>3, <1>5 DEF Fed
  <2>2. \A e \in Fed(l), i \in 1 .. n : FeedPiece(e, chunk[i]) \in Fed(l)
    BY <1>2, FeedPieceStays
  <2> HIDE DEF l
  <2> QED  BY <1>2, <2>1, <2>2, FeedStays
<1> HIDE DEF fed
<1>9. /\ clean \in Manager /\ Detecting(clean) /\ Ringing(clean)
      /\ clean.queue = l.queue /\ clean.copied = l.copied /\ clean.handle = l.handle
  <2> HIDE DEF l
  <2>1. fed \in Manager /\ Detecting(fed) /\ fed.queue = l.queue /\ fed.copied = l.copied
        /\ fed.ring = l.ring /\ fed.written = l.written /\ fed.stream = l.stream
        /\ fed.handle = l.handle
    BY <1>8 DEF Fed
  <2>2. l.mixed \in BOOLEAN
    BY <1>3 DEF Manager
  <2>3. clean \in Manager
    BY <2>1, <2>2 DEF Manager
  <2>4. /\ clean.queue = l.queue /\ clean.copied = l.copied /\ clean.handle = l.handle
        /\ clean.ring = l.ring /\ clean.written = l.written /\ clean.stream = l.stream
        /\ clean.line = fed.line /\ clean.cursor = fed.cursor /\ clean.start = fed.start
        /\ clean.todo = fed.todo
    BY <2>1 DEF Manager
  <2> HIDE DEF clean
  <2> QED  BY <1>5, <2>1, <2>3, <2>4 DEF Detecting, Ringing
<1> HIDE DEF clean
<1>10. /\ known \in Manager /\ Ringing(known)
       /\ message \in Messages /\ known.queue = Append(l.queue, message)
       /\ known.line = clean.line /\ known.cursor = clean.cursor
       /\ known.start = clean.start /\ known.todo = clean.todo
       /\ known.copied = l.copied /\ known.handle = l.handle
  <2> HIDE DEF l, message
  <2> QED  BY <1>2, <1>9, RememberStays DEF message
<1> HIDE DEF known, message
<1>11. /\ new \in Manager /\ Detecting(new) /\ Ringing(new)
       /\ new.queue = Append(l.queue, message) /\ ~new.copied
       /\ new.handle <= disk.file
  <2> HIDE DEF l
  <2>1. new \in Manager
    BY <1>3, <1>10 DEF Manager
  <2>2. /\ new.queue = known.queue /\ new.copied = known.copied
        /\ new.line = known.line /\ new.cursor = known.cursor
        /\ new.start = known.start /\ new.todo = known.todo
        /\ new.ring = known.ring /\ new.written = known.written
        /\ new.stream = known.stream
        /\ new.handle = IF known.handle = 0 THEN disk.file ELSE known.handle
    BY <1>10 DEF Manager
  <2> HIDE DEF new
  <2>3. new.handle <= disk.file
    BY <1>3, <1>5, <1>10, <2>2
  <2> QED  BY <1>5, <1>9, <1>10, <2>1, <2>2, <2>3 DEF Detecting, Ringing
<1>12. /\ other \in Manager /\ Detecting(other) /\ Ringing(other)
       /\ other.queue = <<>> /\ other.todo = <<>> /\ ~other.copied
       /\ other.handle <= disk.file
  <2>1. lm[o] \in Manager /\ ManagerOK(disk, lm, owner, o)
    BY <1>3, <1>6
  <2>2. other \in Manager
    BY <2>1 DEF Manager
  <2>3. /\ other.queue = lm[o].queue /\ other.copied = lm[o].copied
        /\ other.line = lm[o].line /\ other.cursor = lm[o].cursor
        /\ other.start = lm[o].start /\ other.todo = lm[o].todo
        /\ other.ring = lm[o].ring /\ other.written = lm[o].written
        /\ other.stream = lm[o].stream /\ other.handle = lm[o].handle
    BY <2>1 DEF Manager
  <2> HIDE DEF other
  <2> QED  BY <1>4, <1>6, <2>1, <2>2, <2>3 DEF ManagerOK, Detecting, Ringing
<1> HIDE DEF new, other
<1>13. lm' \in [Managers -> Manager] /\ lm'[m] = new /\ lm'[o] = other
  <2> HIDE DEF o
  <2> QED  BY <1>3, <1>6, <1>7, <1>11, <1>12
<1> HIDE DEF o
<1>14. \A k \in Managers : ManagerOK(disk', lm', owner', k)
  <2>1. ManagerOK(disk', lm', owner', m)
    BY <1>4, <1>11, <1>13 DEF ManagerOK
  <2>2. ManagerOK(disk', lm', owner', o)
    BY <1>4, <1>12, <1>13 DEF ManagerOK
  <2> QED  BY <1>6, <2>1, <2>2
<1>15. heard' \in Seq(Pieces) /\ Len(heard') <= MaxHeard
  <2>1. heard \o chunk \in Seq(Pieces) /\ Len(heard \o chunk) = Len(heard) + Len(chunk)
    BY <1>2, <1>3, ConcatAt
  <2> QED  BY <1>4, <2>1
<1>16. InFiles(disk', lm', heard')
  <2>1. Pending(new) = Pending(l) \o chunk
    <3>1. l.queue \in Seq(Messages) /\ message.bytes = chunk
      BY <1>3 DEF Manager, message
    <3> HIDE DEF l
    <3> QED  BY <1>10, <1>11, <3>1, PendingFacts
  <2>2. Whole(Bytes(disk.archives), disk.cur, Pending(l) \o chunk, heard \o chunk, disk.cleaned)
    <3> HIDE DEF l
    <3> QED  BY <1>2, <1>3, <1>5, WholeQueued
  <2>3. \A k \in Managers : k # m => lm'[k].queue = <<>>
    BY <1>6, <1>12, <1>13
  <2>4. Whole(Bytes(disk'.archives), disk'.cur, Pending(lm'[m]), heard', disk'.cleaned)
    BY <1>4, <1>13, <2>1, <2>2
  <2>5. disk' \in Stores
    BY <1>3, <1>4
  <2> QED  BY <1>13, <1>15, <2>3, <2>4, <2>5, WholeFiles
<1>17. LogTypes'
  BY <1>3, <1>4, <1>13, <1>15 DEF LogTypes, LogInv, Stores
<1> QED
  BY <1>4, <1>14, <1>15, <1>16, <1>17 DEF LogInv

-----------------------------------------------------------------------------
(* The other steps change one manager at most.                             *)

\* The other one is not disturbed.
LEMMA OthersKeep ==
    ASSUME LogInv, NEW m \in Managers, NEW new, lm' = [lm EXCEPT ![m] = new],
           disk'.file \in Nat, disk.file <= disk'.file,
           owner \in {m, "nobody"} \/ (UNCHANGED owner /\ UNCHANGED disk)
    PROVE  \A k \in Managers : k # m => ManagerOK(disk', lm', owner', k) /\ lm'[k] = lm[k]
<1> SUFFICES ASSUME NEW k \in Managers, k # m
             PROVE  ManagerOK(disk', lm', owner', k) /\ lm'[k] = lm[k]
  OBVIOUS
<1>1. lm'[k] = lm[k] /\ ManagerOK(disk, lm, owner, k) /\ lm[k].handle \in Nat
      /\ disk.file \in Nat
  BY InvFacts DEF Manager
<1>2. CASE owner \in {m, "nobody"}
  <2>1. lm[k].queue = <<>> /\ lm[k].todo = <<>> /\ ~lm[k].copied
        /\ Detecting(lm[k]) /\ Ringing(lm[k]) /\ lm[k].handle <= disk'.file
    BY <1>1, <1>2 DEF ManagerOK, Managers
  <2> QED  BY <1>1, <2>1 DEF ManagerOK
<1>3. CASE UNCHANGED owner /\ UNCHANGED disk
  BY <1>1, <1>3 DEF ManagerOK
<1> QED
  BY <1>2, <1>3

\* The other variables.
Others(h, o, p, c) ==
    /\ h \in Seq(Pieces) /\ Len(h) <= MaxHeard
    /\ o \in Managers \cup {"nobody"}
    /\ p \in Polls /\ p.at <= MaxHeard
    /\ c \in 0 .. MaxEvents

\* The invariant holds the part about the listeners.
LEMMA OthersNow ==
    ASSUME LogInv
    PROVE  Others(heard, owner, poll, count)
BY DEF LogInv, LogTypes, Others

\* A step of one manager: what is left to show.
LEMMA OneManager ==
    ASSUME LogInv, NEW m \in Managers, NEW new \in Manager, lm' = [lm EXCEPT ![m] = new],
           disk' \in Stores, disk.file <= disk'.file,
           owner \in {m, "nobody"} \/ (UNCHANGED owner /\ UNCHANGED disk),
           ManagerOK(disk', lm', owner', m),
           InFiles(disk', lm', heard'),
           Others(heard', owner', poll', count')
    PROVE  LogInv'
<1>1. lm \in [Managers -> Manager]
  BY InvFacts
<1>2. lm' \in [Managers -> Manager]
  BY <1>1
<1>3. disk'.file \in Nat
  BY DEF Stores
<1>4. \A k \in Managers : ManagerOK(disk', lm', owner', k)
  BY <1>3, OthersKeep
<1>5. LogTypes'
  BY <1>2 DEF LogTypes, Stores, Others
<1> QED
  BY <1>4, <1>5 DEF LogInv, Others

\* The owner's queue stands for both.
LEMMA OwnerWhole ==
    ASSUME LogInv, NEW m \in Managers, owner \in {m, "nobody"}, NEW new \in Manager,
           lm' = [lm EXCEPT ![m] = new],
           NEW d \in Stores, NEW h \in Seq(Pieces),
           Whole(Bytes(d.archives), d.cur, Pending(new), h, d.cleaned)
    PROVE  InFiles(d, lm', h)
<1>1. lm \in [Managers -> Manager] /\ \A k \in Managers : ManagerOK(disk, lm, owner, k)
  BY InvFacts
<1>2. lm' \in [Managers -> Manager] /\ lm'[m] = new
  BY <1>1
<1>3. \A k \in Managers : k # m => lm'[k].queue = <<>>
  BY <1>1, <1>2 DEF ManagerOK, Managers
<1> QED
  BY <1>2, <1>3, WholeFiles

\* Equal queues hold equal bytes.
LEMMA PendingSame ==
    ASSUME NEW k, NEW l, k.queue = l.queue
    PROVE  Pending(k) = Pending(l)
BY DEF Pending

\* The writer thread.
LEMMA WriterKeeps ==
    ASSUME LogAssumption, LogInv, NEW m \in Managers, Writer(m)
    PROVE  LogInv'
<1> DEFINE l == lm[m]
           x == Head(l.queue)
           rest == Tail(l.queue)
           new == [l EXCEPT !.queue = rest, !.handle = disk.file]
           cur == disk.cur \o x.bytes
<1>1. /\ disk \in Stores /\ heard \in Seq(Pieces) /\ disk.cur \in Seq(Pieces)
      /\ disk.file \in Nat /\ disk.cleaned \in Nat /\ Bytes(disk.archives) \in Seq(Pieces)
      /\ l \in Manager /\ ManagerOK(disk, lm, owner, m)
      /\ lm \in [Managers -> Manager]
  BY InvFacts
<1>2. /\ l.queue # <<>> /\ disk' = [disk EXCEPT !.cur = cur]
      /\ poll' = [poll EXCEPT !.fresh = @ + Len(x.bytes)]
      /\ UNCHANGED <<owner, heard, count>>
  BY <1>1 DEF Writer, Stores
<1>3. lm' = [lm EXCEPT ![m] = new]
  BY <1>1 DEF Writer, Taken
<1>4. owner = m /\ ~l.copied /\ Detecting(l) /\ Ringing(l)
  BY <1>1, <1>2 DEF ManagerOK, Copied
<1>5. /\ l.queue \in Seq(Messages) /\ x \in Messages /\ rest \in Seq(Messages)
      /\ x.bytes \in Seq(Pieces) /\ Len(x.bytes) \in Nat
  <2>1. l.queue \in Seq(Messages)
    BY <1>1 DEF Manager
  <2>2. x \in Messages /\ rest \in Seq(Messages)
    BY <1>2, <2>1
  <2> HIDE DEF x, rest
  <2>3. x.bytes \in Seq(Pieces)
    BY <2>2 DEF Messages
  <2> QED  BY <2>1, <2>2, <2>3
<1>6. cur \in Seq(Pieces)
  BY <1>1, <1>5, ConcatAt
<1>7. Pending(l) = x.bytes \o Pending(new) /\ Pending(new) \in Seq(Pieces) /\ new.queue = rest
  <2> HIDE DEF rest
  <2>1. new.queue = rest
    BY <1>1 DEF Manager
  <2> HIDE DEF l, new
  <2>2. Pending(l) = x.bytes \o Pending(new)
    BY <1>2, <1>5, <2>1, PendingFacts DEF rest
  <2>3. Pending(new) \in Seq(Pieces)
    BY <1>5, <2>1, PendingFacts
  <2> QED  BY <2>1, <2>2, <2>3
<1> HIDE DEF x, rest, cur
<1>8. /\ new \in Manager /\ Detecting(new) /\ Ringing(new) /\ ~new.copied
      /\ new.handle = disk.file
  <2> HIDE DEF l
  <2>1. new \in Manager
    BY <1>1, <1>5 DEF Manager
  <2>2. /\ new.copied = l.copied /\ new.handle = disk.file
        /\ new.line = l.line /\ new.cursor = l.cursor /\ new.start = l.start
        /\ new.todo = l.todo /\ new.ring = l.ring /\ new.written = l.written
        /\ new.stream = l.stream
    BY <1>1 DEF Manager
  <2> HIDE DEF new
  <2> QED  BY <1>4, <2>1, <2>2 DEF Detecting, Ringing
<1> HIDE DEF new
<1>9. /\ disk' \in Stores /\ disk'.cur = cur /\ disk'.file = disk.file
      /\ disk'.archives = disk.archives /\ disk'.cleaned = disk.cleaned
  BY <1>1, <1>2, <1>6 DEF Stores
<1>10. InFiles(disk', lm', heard')
  <2>1. Whole(Bytes(disk.archives), disk.cur, x.bytes \o Pending(new), heard, disk.cleaned)
    BY <1>4, <1>7, InvFacts
  <2>2. Whole(Bytes(disk.archives), cur, Pending(new), heard, disk.cleaned)
    BY <1>1, <1>5, <1>7, <2>1, WholeWritten DEF cur
  <2>3. Whole(Bytes(disk'.archives), disk'.cur, Pending(new), heard', disk'.cleaned)
    BY <1>2, <1>9, <2>2
  <2> QED  BY <1>1, <1>2, <1>3, <1>4, <1>8, <1>9, <2>3, OwnerWhole
<1>11. ManagerOK(disk', lm', owner', m)
  <2>1. lm'[m] = new
    BY <1>1, <1>3
  <2> QED  BY <1>1, <1>2, <1>4, <1>8, <1>9, <2>1 DEF ManagerOK
<1>12. Others(heard', owner', poll', count')
  <2>1. poll' \in Polls /\ poll'.at = poll.at
    <3> DEFINE n == Len(x.bytes)
    <3>1. poll \in Polls /\ n \in Nat /\ poll' = [poll EXCEPT !.fresh = @ + n]
      BY <1>2, <1>5, OthersNow DEF Others
    <3> HIDE DEF n
    <3> QED  BY <3>1 DEF Polls
  <2> QED  BY <1>2, <2>1, OthersNow DEF Others
<1>13. disk.file <= disk'.file
  BY <1>1, <1>9
<1> QED
  BY <1>3, <1>4, <1>8, <1>9, <1>10, <1>11, <1>12, <1>13, OneManager

\* A boundary that somebody asks for, or a boot that somebody expects.
LEMMA BoundaryKeeps ==
    ASSUME LogAssumption, LogInv, MarkBootStart \/ ExpectBootLog
    PROVE  LogInv'
<1> DEFINE m == "server"
           l == lm[m]
           todo == <<l.cursor>>
           new == IF MarkBootStart
                  THEN [l EXCEPT !.todo = todo, !.forced = TRUE, !.phase = "unknown"]
                  ELSE [l EXCEPT !.phase = "unknown"]
<1>1. /\ disk \in Stores /\ heard \in Seq(Pieces) /\ disk.file \in Nat /\ m \in Managers
      /\ l \in Manager /\ ManagerOK(disk, lm, owner, m)
      /\ lm \in [Managers -> Manager]
  BY InvFacts DEF Managers
<1>2. /\ owner = m /\ l.todo = <<>> /\ lm' = [lm EXCEPT ![m] = new]
      /\ UNCHANGED <<disk, owner, heard, poll>>
      /\ count' \in 0 .. MaxEvents
  <2>1. CASE MarkBootStart
    <3>1. /\ owner = m /\ l.todo = <<>> /\ count' = count + 1 /\ count < MaxEvents
          /\ UNCHANGED <<disk, owner, heard, poll>>
      BY <2>1 DEF MarkBootStart, Reads, AtRest, Counted
    <3>2. lm' = [lm EXCEPT ![m].todo = <<l.cursor>>, ![m].forced = TRUE, ![m].phase = "unknown"]
      BY <2>1 DEF MarkBootStart
    <3>3. lm' = [lm EXCEPT ![m] = [l EXCEPT !.todo = todo, !.forced = TRUE, !.phase = "unknown"]]
      BY <1>1, <3>2
    <3>4. count' \in 0 .. MaxEvents
      BY <3>1, OthersNow DEF Others, LogAssumption
    <3> QED  BY <2>1, <3>1, <3>3, <3>4
  <2>2. CASE ~MarkBootStart
    BY <1>1, <2>2, OthersNow DEF ExpectBootLog, Reads, AtRest, Manager, Others
  <2> QED  BY <2>1, <2>2
<1>3. ~l.copied /\ Detecting(l) /\ Ringing(l) /\ l.handle <= disk.file
  BY <1>1, <1>2 DEF ManagerOK, Copied
<1>4. l.cursor \in Nat /\ todo \in Seq(Int) /\ Len(todo) = 1 /\ todo[1] = l.cursor
  BY <1>1 DEF Manager
<1> HIDE DEF todo
<1>5. /\ new \in Manager /\ new.queue = l.queue /\ new.copied = l.copied
      /\ new.line = l.line /\ new.cursor = l.cursor /\ new.start = l.start
      /\ new.todo \in {l.todo, todo}
      /\ new.ring = l.ring /\ new.written = l.written /\ new.stream = l.stream
      /\ new.handle = l.handle
  <2> HIDE DEF l
  <2> QED  BY <1>1, <1>4 DEF Manager, PrefixPhases
<1> HIDE DEF new
<1>6. Detecting(new) /\ Ringing(new)
  <2>1. \A i \in 1 .. Len(new.todo) : new.todo[i] <= new.cursor
    BY <1>3, <1>4, <1>5 DEF Detecting
  <2> QED  BY <1>3, <1>5, <2>1 DEF Detecting, Ringing
<1>7. ManagerOK(disk', lm', owner', m)
  <2>1. lm'[m] = new
    BY <1>1, <1>2
  <2> QED  BY <1>2, <1>3, <1>5, <1>6, <2>1 DEF ManagerOK
<1>8. InFiles(disk', lm', heard')
  <2>1. Whole(Bytes(disk'.archives), disk'.cur, Pending(new), heard', disk'.cleaned)
    BY <1>1, <1>2, <1>5, InvFacts, PendingSame
  <2> QED  BY <1>1, <1>2, <1>5, <2>1, OwnerWhole
<1>9. Others(heard', owner', poll', count') /\ disk' \in Stores /\ disk.file <= disk'.file
  BY <1>1, <1>2, OthersNow DEF Others
<1> QED
  BY <1>1, <1>2, <1>5, <1>7, <1>8, <1>9, OneManager

\* The first part of a split.
LEMMA CopyKeeps ==
    ASSUME LogAssumption, LogInv, NEW m \in Managers, Copy(m)
    PROVE  LogInv'
<1> DEFINE l == lm[m]
           at == Offset(m)
           pre == SubSeq(disk.cur, 1, at)
           post == SubSeq(disk.cur, at + 1, Len(disk.cur))
           archive == [bytes |-> pre, saved |-> FALSE]
           grown == Append(disk.archives, archive)
<1>1. /\ disk \in Stores /\ heard \in Seq(Pieces) /\ disk.cur \in Seq(Pieces)
      /\ disk.file \in Nat /\ disk.cleaned \in Nat /\ Bytes(disk.archives) \in Seq(Pieces)
      /\ disk.archives \in Seq(Archives)
      /\ l \in Manager /\ ManagerOK(disk, lm, owner, m)
      /\ lm \in [Managers -> Manager] /\ Pending(l) \in Seq(Pieces)
  BY InvFacts
<1>2. l.queue = <<>> /\ l.todo # <<>> /\ ~l.copied /\ UNCHANGED <<owner, heard, poll>>
  BY DEF Copy, Flushed
<1>3. owner = m /\ Detecting(l) /\ Ringing(l) /\ l.handle <= disk.file
  BY <1>1, <1>2 DEF ManagerOK
<1>4. Whole(Bytes(disk.archives), disk.cur, Pending(l), heard, disk.cleaned)
  BY <1>3, InvFacts
<1>5. /\ l.todo \in Seq(Int) /\ Tail(l.todo) \in Seq(Int) /\ l.cursor \in Nat
      /\ Head(l.todo) \in Int /\ Head(l.todo) <= l.cursor
      /\ \A i \in 1 .. Len(Tail(l.todo)) : Tail(l.todo)[i] <= l.cursor
  <2>1. l.todo \in Seq(Int) /\ l.cursor \in Nat /\ \A i \in 1 .. Len(l.todo) : l.todo[i] <= l.cursor
    BY <1>1, <1>3 DEF Manager, Detecting
  <2> DEFINE t == l.todo
             r == Tail(t)
  <2>2. t \in Seq(Int) /\ t # <<>> /\ r \in Seq(Int) /\ Head(t) = t[1] /\ 1 \in 1 .. Len(t)
        /\ t[1] \in Int
        /\ \A i \in 1 .. Len(r) : r[i] = t[i + 1] /\ i + 1 \in 1 .. Len(t)
    BY <1>2, <2>1
  <2> QED  BY <2>1, <2>2
<1>6. at \in Int /\ at <= Len(disk.cur)
  <2>1. Len(disk.cur) \in Nat
    BY <1>1
  <2>2. at = Len(disk.cur) - (l.cursor - Head(l.todo))
    BY DEF Offset
  <2> QED  BY <1>5, <2>1, <2>2
<1>7. CASE /\ at > 0
           /\ disk' = [disk EXCEPT !.archives = grown]
           /\ lm' = [lm EXCEPT ![m].copied = TRUE, ![m].suffix = post]
           /\ UNCHANGED count
  <2> DEFINE new == [l EXCEPT !.copied = TRUE, !.suffix = post]
  <2>1. lm' = [lm EXCEPT ![m] = new]
    BY <1>1, <1>7
  <2>2. /\ pre \in Seq(Pieces) /\ post \in Seq(Pieces) /\ pre \o post = disk.cur
    <3> DEFINE c == disk.cur
    <3>1. c \in Seq(Pieces) /\ at \in 0 .. Len(c) /\ pre = SubSeq(c, 1, at) /\ post = SubSeq(c, at + 1, Len(c))
      <4> HIDE DEF at
      <4> QED  BY <1>1, <1>6, <1>7
    <3> HIDE DEF c, at, pre, post, l, new
    <3>2. Rejoins(c, at, Pieces)
      BY <3>1, SplitRejoins
    <3> QED  BY <3>1, <3>2 DEF Rejoins, c
  <2> HIDE DEF pre, post, at
  <2>3. archive \in Archives /\ archive.bytes = pre /\ ~archive.saved
    BY <2>2 DEF Archives
  <2> HIDE DEF archive
  <2>4. /\ grown \in Seq(Archives) /\ grown # <<>> /\ Last(grown) = archive
        /\ Bytes(grown) = Bytes(disk.archives)
    <3>1. grown \in Seq(Archives) /\ grown # <<>> /\ Last(grown) = archive
      <4> DEFINE a == disk.archives
      <4>1. a \in Seq(Archives) /\ archive \in Archives /\ grown = Append(a, archive)
        BY <1>1, <2>3
      <4> HIDE DEF a, grown, l, new
      <4>2. grown \in Seq(Archives) /\ Len(grown) = Len(a) + 1 /\ Len(a) \in Nat
        BY <4>1
      <4>3. grown[Len(a) + 1] = archive
        BY <4>1
      <4> QED  BY <4>2, <4>3 DEF Last
    <3>2. Bytes(grown) = Bytes(disk.archives) \o Held(archive)
      BY <1>1, <2>3, BytesFacts
    <3>3. Held(archive) = <<>>
      BY <2>3 DEF Held
    <3> QED  BY <1>1, <3>1, <3>2, <3>3, ConcatEmpty
  <2> HIDE DEF grown
  <2>5. /\ disk' \in Stores /\ disk'.archives = grown /\ disk'.cur = disk.cur
        /\ disk'.file = disk.file /\ disk'.cleaned = disk.cleaned
    BY <1>1, <1>7, <2>4 DEF Stores
  <2>6. /\ new \in Manager /\ new.copied /\ new.suffix = post /\ new.queue = l.queue
        /\ new.line = l.line /\ new.cursor = l.cursor /\ new.start = l.start
        /\ new.todo = l.todo /\ new.ring = l.ring /\ new.written = l.written
        /\ new.stream = l.stream /\ new.handle = l.handle
    <3> HIDE DEF l
    <3> QED  BY <1>1, <2>2 DEF Manager
  <2> HIDE DEF new
  <2>7. Copied(disk', new)
    BY <1>2, <2>2, <2>3, <2>4, <2>5, <2>6 DEF Copied
  <2>8. Detecting(new) /\ Ringing(new)
    BY <1>3, <2>6 DEF Detecting, Ringing
  <2>9. ManagerOK(disk', lm', owner', m)
    <3>1. lm'[m] = new
      BY <1>1, <2>1
    <3> QED  BY <1>2, <1>3, <2>5, <2>6, <2>7, <2>8, <3>1 DEF ManagerOK
  <2>10. InFiles(disk', lm', heard')
    <3>1. Whole(Bytes(disk'.archives), disk'.cur, Pending(new), heard', disk'.cleaned)
      BY <1>2, <1>4, <2>4, <2>5, <2>6, PendingSame
    <3> QED  BY <1>1, <1>2, <1>3, <2>1, <2>5, <2>6, <3>1, OwnerWhole
  <2>11. Others(heard', owner', poll', count') /\ disk.file <= disk'.file
    BY <1>1, <1>2, <1>7, <2>5, OthersNow DEF Others
  <2> QED  BY <1>3, <2>1, <2>5, <2>6, <2>9, <2>10, <2>11, OneManager
<1>8. CASE /\ UNCHANGED disk
           /\ lm' = [lm EXCEPT ![m].todo = Tail(@)]
           /\ UNCHANGED count \/ Counted
  <2> DEFINE rest == Tail(l.todo)
             new == [l EXCEPT !.todo = rest]
  <2>1. lm' = [lm EXCEPT ![m] = new]
    BY <1>1, <1>8
  <2>2. /\ new \in Manager /\ new.copied = l.copied /\ new.queue = l.queue
        /\ new.line = l.line /\ new.cursor = l.cursor /\ new.start = l.start
        /\ new.todo = rest /\ new.ring = l.ring /\ new.written = l.written
        /\ new.stream = l.stream /\ new.handle = l.handle
    <3>1. rest \in Seq(Int)
      BY <1>5
    <3> HIDE DEF l, rest
    <3> QED  BY <1>1, <3>1 DEF Manager
  <2> HIDE DEF new
  <2>3. Detecting(new) /\ Ringing(new)
    BY <1>3, <1>5, <2>2 DEF Detecting, Ringing
  <2>4. ManagerOK(disk', lm', owner', m)
    <3>1. lm'[m] = new
      BY <1>1, <2>1
    <3> QED  BY <1>2, <1>3, <1>8, <2>2, <2>3, <3>1 DEF ManagerOK
  <2>5. InFiles(disk', lm', heard')
    <3>1. Whole(Bytes(disk'.archives), disk'.cur, Pending(new), heard', disk'.cleaned)
      BY <1>2, <1>4, <1>8, <2>2, PendingSame
    <3> QED  BY <1>1, <1>2, <1>3, <1>8, <2>1, <2>2, <3>1, OwnerWhole
  <2>6. count' \in 0 .. MaxEvents
    BY <1>8, OthersNow DEF Others, Counted, LogAssumption
  <2>7. Others(heard', owner', poll', count') /\ disk' \in Stores /\ disk.file <= disk'.file
    BY <1>1, <1>2, <1>8, <2>6, OthersNow DEF Others
  <2> QED  BY <1>3, <2>1, <2>2, <2>4, <2>5, <2>7, OneManager
<1> QED
  BY <1>7, <1>8 DEF Copy

\* The last archive, in the making and saved.
LEMMA LastArchive ==
    ASSUME NEW a \in Seq(Archives), a # <<>>, ~Last(a).saved
    PROVE  /\ Last(a) \in Archives
           /\ Front(a) \in Seq(Archives) /\ Bytes(Front(a)) = Bytes(a)
           /\ [a EXCEPT ![Len(a)].saved = TRUE] \in Seq(Archives)
           /\ Bytes([a EXCEPT ![Len(a)].saved = TRUE]) = Bytes(a) \o Last(a).bytes
<1> DEFINE n == Len(a)
           x == Last(a)
           y == [x EXCEPT !.saved = TRUE]
           f == Front(a)
           s == [a EXCEPT ![n].saved = TRUE]
<1>1. n \in Nat /\ n >= 1 /\ a \in Seq(Archives) /\ \A i \in 1 .. n : a[i] \in Archives
  OBVIOUS
<1>2. x = a[n] /\ x \in Archives /\ ~x.saved
  <2>1. x = a[n]
    BY DEF Last
  <2> QED  BY <1>1, <2>1
<1>3. y \in Archives /\ y.saved /\ y.bytes = x.bytes
  <2> HIDE DEF x
  <2> QED  BY <1>2 DEF Archives
<1>4. /\ f \in Seq(Archives) /\ Len(f) = n - 1
      /\ \A i \in 1 .. n - 1 : f[i] = a[i]
  BY <1>1, FrontFacts
<1>5. s = [a EXCEPT ![n] = y]
  BY <1>2
<1> HIDE DEF x, y, f, s
<1>6. /\ s \in Seq(Archives) /\ Len(s) = n /\ s[n] = y
      /\ \A i \in 1 .. n - 1 : s[i] = a[i]
  BY <1>1, <1>3, <1>5
<1>7. a = Append(f, x)
  <2> DEFINE b == Append(f, x)
  <2>1. /\ b \in Seq(Archives) /\ Len(b) = n /\ b[n] = x
        /\ \A i \in 1 .. n - 1 : b[i] = f[i]
    BY <1>1, <1>2, <1>4
  <2> HIDE DEF b
  <2>2. \A i \in 1 .. n : b[i] = a[i]
    BY <1>1, <1>2, <1>4, <2>1
  <2>3. b = a
    BY <1>1, <2>1, <2>2
  <2> QED  BY <2>3 DEF b
<1>8. s = Append(f, y)
  <2> DEFINE b == Append(f, y)
  <2>1. /\ b \in Seq(Archives) /\ Len(b) = n /\ b[n] = y
        /\ \A i \in 1 .. n - 1 : b[i] = f[i]
    BY <1>1, <1>3, <1>4
  <2> HIDE DEF b
  <2>2. \A i \in 1 .. n : b[i] = s[i]
    BY <1>1, <1>4, <1>6, <2>1
  <2>3. b = s
    BY <1>1, <1>6, <2>1, <2>2
  <2> QED  BY <2>3 DEF b
<1>9. Bytes(f) \in Seq(Pieces) /\ Bytes(a) = Bytes(f) \o Held(x) /\ Bytes(s) = Bytes(f) \o Held(y)
  BY <1>2, <1>3, <1>4, <1>7, <1>8, BytesFacts
<1>10. Held(x) = <<>> /\ Held(y) = x.bytes
  BY <1>2, <1>3 DEF Held
<1>11. Bytes(a) = Bytes(f)
  BY <1>9, <1>10, ConcatEmpty
<1> QED
  BY <1>2, <1>4, <1>6, <1>9, <1>10, <1>11 DEF x, f, s

\* What is cleaned up is counted.
LEMMA CleanupKeeps ==
    ASSUME LogAssumption, NEW d \in Stores, NEW q \in Seq(Pieces), NEW h \in Seq(Pieces),
           Whole(Bytes(d.archives), d.cur, q, h, d.cleaned)
    PROVE  /\ Cleanup(d) \in Stores
           /\ Cleanup(d).file = d.file
           /\ Whole(Bytes(Cleanup(d).archives), Cleanup(d).cur, q, h, Cleanup(d).cleaned)
<1> DEFINE a == d.archives
           excess == IF Len(a) > MaxLogs THEN Len(a) - MaxLogs ELSE 0
           pre == SubSeq(a, 1, excess)
           post == SubSeq(a, excess + 1, Len(a))
           gone == Len(Bytes(pre))
           e == [d EXCEPT !.archives = post, !.cleaned = @ + gone]
<1>1. Cleanup(d) = e
  BY DEF Cleanup, Stores
<1>2. a \in Seq(Archives) /\ d.cur \in Seq(Pieces) /\ d.cleaned \in Nat
  BY DEF Stores
<1>3. excess \in 0 .. Len(a)
  <2> HIDE DEF a
  <2> QED  BY <1>2 DEF LogAssumption
<1> HIDE DEF excess, a
<1>4. /\ Bytes(pre) \in Seq(Pieces) /\ Bytes(post) \in Seq(Pieces)
      /\ Bytes(a) = Bytes(pre) \o Bytes(post)
  BY <1>2, <1>3, BytesSplit
<1>5. post \in Seq(Archives) /\ gone \in Nat
  BY <1>2, <1>3, <1>4
<1>6. Whole(Bytes(pre) \o Bytes(post), d.cur, q, h, d.cleaned)
  BY <1>4 DEF a
<1> HIDE DEF pre, post
<1>7. Whole(Bytes(post), d.cur, q, h, d.cleaned + gone)
  BY <1>2, <1>4, <1>6, WholeCleaned
<1> HIDE DEF gone
<1>8. /\ e \in Stores /\ e.archives = post /\ e.cleaned = d.cleaned + gone
      /\ e.cur = d.cur /\ e.file = d.file
  <2> DEFINE k == d.cleaned + gone
  <2>1. k \in Nat /\ e = [d EXCEPT !.archives = post, !.cleaned = k]
    BY <1>2, <1>5 DEF Stores
  <2> HIDE DEF k, e
  <2>2. /\ e \in Stores /\ e.archives = post /\ e.cleaned = k
        /\ e.cur = d.cur /\ e.file = d.file
    BY <1>5, <2>1 DEF Stores
  <2> QED  BY <2>2 DEF k
<1> HIDE DEF e
<1> QED
  BY <1>1, <1>7, <1>8

\* The end of a split.
LEMMA SplitEnds ==
    ASSUME LogAssumption, LogInv, NEW m \in Managers, lm[m].copied,
           NEW q \in Seq(Messages), Pending([queue |-> q]) = <<>>,
           lm' = [lm EXCEPT ![m] = [Split(m) EXCEPT !.queue = q]],
           disk' \in Stores, disk.file <= disk'.file,
           Whole(Bytes(disk'.archives), disk'.cur, <<>>, heard, disk'.cleaned),
           UNCHANGED <<owner, heard>>,
           poll' \in Polls, poll'.at = poll.at, count' \in 0 .. MaxEvents
    PROVE  LogInv'
<1> DEFINE l == lm[m]
           t == Tail(l.todo)
           new == [l EXCEPT !.todo = t, !.copied = FALSE, !.suffix = <<>>, !.queue = q]
<1>1. /\ heard \in Seq(Pieces) /\ disk.file \in Nat
      /\ l \in Manager /\ ManagerOK(disk, lm, owner, m)
      /\ lm \in [Managers -> Manager]
  BY InvFacts
<1>2. owner = m /\ Detecting(l) /\ Ringing(l) /\ l.handle <= disk.file /\ l.todo # <<>>
  BY <1>1 DEF ManagerOK, Copied
<1>3. /\ t \in Seq(Int)
      /\ \A i \in 1 .. Len(t) : t[i] <= l.cursor
  <2> DEFINE s == l.todo
  <2>1. s \in Seq(Int) /\ s # <<>> /\ \A i \in 1 .. Len(s) : s[i] <= l.cursor
    BY <1>1, <1>2 DEF Manager, Detecting
  <2>2. s # <<>> /\ t = Tail(s)
    BY <1>2
  <2> HIDE DEF s, t
  <2>3. t \in Seq(Int) /\ \A i \in 1 .. Len(t) : t[i] = s[i + 1] /\ i + 1 \in 1 .. Len(s)
    BY <2>1, <2>2, TailFacts
  <2> QED  BY <2>1, <2>3, Zenon
<1> HIDE DEF t
<1>4. lm' = [lm EXCEPT ![m] = new]
  BY <1>1 DEF Split, t, Manager
<1>5. <<>> \in Seq(Pieces)
  OBVIOUS
<1>6. /\ new \in Manager /\ ~new.copied /\ new.queue = q /\ new.todo = t
      /\ new.line = l.line /\ new.cursor = l.cursor /\ new.start = l.start
      /\ new.ring = l.ring /\ new.written = l.written
      /\ new.stream = l.stream /\ new.handle = l.handle
  <2> HIDE DEF l
  <2> QED  BY <1>1, <1>3, <1>5 DEF Manager
<1> HIDE DEF new
<1>7. Detecting(new) /\ Ringing(new)
  BY <1>2, <1>3, <1>6 DEF Detecting, Ringing
<1>8. ManagerOK(disk', lm', owner', m)
  <2>1. lm'[m] = new
    BY <1>1, <1>4
  <2>2. new.handle <= disk'.file
    <3>1. new.handle \in Nat /\ disk'.file \in Nat
      BY <1>1, <1>6 DEF Manager, Stores
    <3> QED  BY <1>1, <1>2, <1>6, <3>1
  <2> QED  BY <1>2, <1>6, <1>7, <2>1, <2>2 DEF ManagerOK
<1>9. InFiles(disk', lm', heard')
  <2>1. Pending(new) = <<>>
    BY <1>6, PendingSame
  <2>2. Whole(Bytes(disk'.archives), disk'.cur, Pending(new), heard', disk'.cleaned)
    BY <2>1
  <2> QED  BY <1>1, <1>2, <1>4, <1>6, <2>2, OwnerWhole
<1>10. Others(heard', owner', poll', count')
  BY OthersNow DEF Others
<1> QED
  BY <1>2, <1>4, <1>6, <1>8, <1>9, <1>10, OneManager

\* The second part of a split.
LEMMA ReplaceCurrentKeeps ==
    ASSUME LogAssumption, LogInv, NEW m \in Managers, ReplaceCurrent(m)
    PROVE  LogInv'
<1> DEFINE l == lm[m]
           a == disk.archives
           saved == [a EXCEPT ![Len(a)].saved = TRUE]
           file == disk.file + 1
           d == [disk EXCEPT !.file = file, !.archives = saved, !.cur = l.suffix]
           rotate == <<[what |-> "rotate", bytes |-> <<>>]>>
<1>1. /\ disk \in Stores /\ heard \in Seq(Pieces) /\ disk.cur \in Seq(Pieces)
      /\ disk.file \in Nat /\ disk.cleaned \in Nat
      /\ a \in Seq(Archives)
      /\ l \in Manager /\ ManagerOK(disk, lm, owner, m)
      /\ lm \in [Managers -> Manager] /\ Bytes(a) \in Seq(Pieces)
  BY InvFacts
<1>2. l.copied /\ l.queue = <<>> /\ UNCHANGED <<owner, heard>>
  BY DEF ReplaceCurrent, Flushed
<1>3. /\ owner = m /\ a # <<>> /\ ~Last(a).saved /\ Last(a).bytes \o l.suffix = disk.cur
  BY <1>1, <1>2 DEF ManagerOK, Copied
<1>4. /\ Last(a) \in Archives
      /\ Front(a) \in Seq(Archives) /\ Bytes(Front(a)) = Bytes(a)
      /\ saved \in Seq(Archives) /\ Bytes(saved) = Bytes(a) \o Last(a).bytes
  BY <1>1, <1>3, LastArchive
<1>5. l.suffix \in Seq(Pieces) /\ Last(a).bytes \in Seq(Pieces)
  BY <1>1, <1>4 DEF Manager, Archives
<1>6. Whole(Bytes(a), disk.cur, <<>>, heard, disk.cleaned)
  <2>1. Whole(Bytes(disk.archives), disk.cur, Pending(l), heard, disk.cleaned)
    BY <1>3, InvFacts
  <2>2. Pending(l) = <<>>
    <3>1. l.queue \in Seq(Messages)
      BY <1>1 DEF Manager
    <3> QED  BY <1>2, <3>1, PendingFacts
  <2> QED  BY <2>1, <2>2
<1>7. <<>> \in Seq(Pieces)
  OBVIOUS
<1>8. Whole(Bytes(saved), l.suffix, <<>>, heard, disk.cleaned)
  <2>1. Whole(Bytes(a), Last(a).bytes \o l.suffix, <<>>, heard, disk.cleaned)
    BY <1>3, <1>6
  <2> HIDE DEF a, l, saved
  <2>2. Whole(Bytes(a) \o Last(a).bytes, l.suffix, <<>>, heard, disk.cleaned)
    BY <1>1, <1>5, <1>7, <2>1, WholeSplit
  <2> QED  BY <1>4, <2>2
<1>9. [Replaced EXCEPT !.cur = lm[m].suffix] = d
  BY <1>1 DEF Replaced, Stores
<1> HIDE DEF saved
<1>10. /\ d \in Stores /\ d.file = disk.file + 1 /\ d.archives = saved /\ d.cur = l.suffix
       /\ d.cleaned = disk.cleaned
  <2> DEFINE suffix == l.suffix
  <2>1. suffix \in Seq(Pieces) /\ file \in Nat /\ d = [disk EXCEPT !.file = file, !.archives = saved, !.cur = suffix]
    BY <1>1, <1>5
  <2> HIDE DEF l, suffix, d
  <2>2. /\ d \in Stores /\ d.file = file /\ d.archives = saved /\ d.cur = suffix
        /\ d.cleaned = disk.cleaned
    BY <1>1, <1>4, <2>1 DEF Stores
  <2> QED  BY <2>2 DEF suffix
<1> HIDE DEF d
<1>11. StillFresh(m) \in Polls /\ StillFresh(m).at = poll.at
  <2> DEFINE n == Len(l.suffix)
             fresh == IF poll.fresh > n THEN n ELSE poll.fresh
  <2>1. poll \in Polls /\ n \in Nat
    BY <1>5, OthersNow DEF Others
  <2>2. StillFresh(m) = [poll EXCEPT !.fresh = fresh]
    BY <2>1 DEF StillFresh, Polls
  <2>3. fresh \in Nat
    <3> HIDE DEF n
    <3> QED  BY <2>1 DEF Polls
  <2> HIDE DEF fresh
  <2> QED  BY <2>1, <2>2, <2>3 DEF Polls
<1>12. count \in 0 .. MaxEvents /\ poll \in Polls /\ (Counted => count' \in 0 .. MaxEvents)
  BY OthersNow DEF Others, Counted, LogAssumption
<1>13. rotate \in Seq(Messages) /\ Pending([queue |-> rotate]) = <<>>
  <2> DEFINE x == [what |-> "rotate", bytes |-> <<>>]
  <2>1. x \in Messages /\ x.bytes = <<>> /\ rotate = Append(<<>>, x)
    BY <1>7 DEF Messages
  <2> DEFINE none == [queue |-> <<>>]
             one == [queue |-> rotate]
  <2>2. none.queue \in Seq(Messages) /\ none.queue = <<>> /\ one.queue = Append(none.queue, x)
    BY <2>1
  <2>3. rotate \in Seq(Messages)
    BY <2>1
  <2> HIDE DEF x, none, one, rotate
  <2>4. Pending(none) = <<>> /\ Pending(one) = Pending(none) \o x.bytes
    BY <2>1, <2>2, PendingFacts
  <2>5. Pending(one) = <<>>
    BY <2>1, <2>4, <1>7, ConcatEmpty
  <2> QED  BY <2>3, <2>5 DEF one
<1>14. <<>> \in Seq(Messages) /\ Pending([queue |-> <<>>]) = <<>>
  <2> DEFINE none == [queue |-> <<>>]
  <2>1. none.queue \in Seq(Messages) /\ none.queue = <<>>
    OBVIOUS
  <2> HIDE DEF none
  <2>2. Pending(none) = <<>>
    BY <2>1, PendingFacts
  <2> QED  BY <2>2 DEF none
<1>15. Split(m) = [Split(m) EXCEPT !.queue = <<>>]
  BY <1>1, <1>2 DEF Split, Manager
<1>16. CASE /\ poll' = StillFresh(m)
            /\ disk' = Cleanup(d)
            /\ lm' = [lm EXCEPT ![m] = [Split(m) EXCEPT !.queue = rotate]]
            /\ UNCHANGED count
  <2> HIDE DEF rotate
  <2>1. Whole(Bytes(d.archives), d.cur, <<>>, heard, d.cleaned)
    BY <1>8, <1>10
  <2>2. /\ disk' \in Stores /\ disk'.file = d.file
        /\ Whole(Bytes(disk'.archives), disk'.cur, <<>>, heard, disk'.cleaned)
    BY <1>1, <1>7, <1>10, <1>16, <2>1, CleanupKeeps
  <2>3. disk.file <= disk'.file
    BY <1>1, <1>10, <2>2
  <2> QED  BY <1>2, <1>11, <1>12, <1>13, <1>16, <2>2, <2>3, SplitEnds
<1>17. CASE /\ poll' = StillFresh(m)
            /\ disk' = d
            /\ lm' = [lm EXCEPT ![m] = Split(m)]
            /\ Counted
  <2>1. Whole(Bytes(disk'.archives), disk'.cur, <<>>, heard, disk'.cleaned)
    BY <1>8, <1>10, <1>17
  <2>2. disk' \in Stores /\ disk.file <= disk'.file
    BY <1>1, <1>10, <1>17
  <2>3. lm' = [lm EXCEPT ![m] = [Split(m) EXCEPT !.queue = <<>>]]
    BY <1>15, <1>17
  <2> QED  BY <1>2, <1>11, <1>12, <1>14, <1>17, <2>1, <2>2, <2>3, SplitEnds
<1>18. CASE /\ disk' = [disk EXCEPT !.archives = Front(@)]
            /\ lm' = [lm EXCEPT ![m] = Split(m)]
            /\ Counted
            /\ UNCHANGED poll
  <2>1. /\ disk' \in Stores /\ disk'.archives = Front(a) /\ disk'.cur = disk.cur
        /\ disk'.file = disk.file /\ disk'.cleaned = disk.cleaned
    <3> DEFINE f == Front(a)
    <3>1. f \in Seq(Archives) /\ disk' = [disk EXCEPT !.archives = f]
      BY <1>1, <1>4, <1>18 DEF Stores
    <3> HIDE DEF f
    <3>2. /\ disk' \in Stores /\ disk'.archives = f /\ disk'.cur = disk.cur
          /\ disk'.file = disk.file /\ disk'.cleaned = disk.cleaned
      BY <1>1, <3>1 DEF Stores
    <3> QED  BY <3>2 DEF f
  <2>2. Whole(Bytes(disk'.archives), disk'.cur, <<>>, heard, disk'.cleaned)
    BY <1>4, <1>6, <2>1
  <2>3. lm' = [lm EXCEPT ![m] = [Split(m) EXCEPT !.queue = <<>>]]
    BY <1>15, <1>18
  <2>4. disk.file <= disk'.file
    BY <1>1, <2>1
  <2> QED  BY <1>2, <1>12, <1>14, <1>18, <2>1, <2>2, <2>3, <2>4, SplitEnds
<1>19. \/ /\ poll' = StillFresh(m)
          /\ disk' = Cleanup([Replaced EXCEPT !.cur = lm[m].suffix])
          /\ lm' = [lm EXCEPT ![m] = [Split(m) EXCEPT !.queue = rotate]]
          /\ UNCHANGED count
       \/ /\ poll' = StillFresh(m)
          /\ disk' = [Replaced EXCEPT !.cur = lm[m].suffix]
          /\ lm' = [lm EXCEPT ![m] = Split(m)]
          /\ Counted
       \/ /\ disk' = [disk EXCEPT !.archives = Front(@)]
          /\ lm' = [lm EXCEPT ![m] = Split(m)]
          /\ Counted
          /\ UNCHANGED poll
  BY DEF ReplaceCurrent
<1> HIDE DEF rotate
<1> QED
  BY <1>9, <1>16, <1>17, <1>18, <1>19

-----------------------------------------------------------------------------
(* The processes, and the polls.                                           *)

\* A process that starts, or that is gone.
LEMMA Fresh ==
    ASSUME LogAssumption, NEW new \in {NewManager, NoManager}
    PROVE  /\ new \in Manager /\ Detecting(new) /\ Ringing(new)
           /\ new.queue = <<>> /\ new.todo = <<>> /\ ~new.copied /\ new.handle = 0
           /\ Pending(new) = <<>>
<1>1. <<>> \in Seq(Pieces) /\ <<>> \in Seq(Messages) /\ <<>> \in Seq(Int)
  OBVIOUS
<1>2. "unknown" \in PrefixPhases
  BY DEF PrefixPhases
<1>3. NewManager \in Manager
  BY <1>1, <1>2 DEF NewManager, Manager
<1>4. NoManager \in Manager
  BY <1>3 DEF NoManager, Manager
<1>5. /\ new \in Manager
      /\ new.line = <<>> /\ new.cursor = 0 /\ new.start = 0 /\ new.todo = <<>>
      /\ new.ring = <<>> /\ new.written = 0 /\ new.stream = <<>>
      /\ new.queue = <<>> /\ ~new.copied /\ new.handle = 0
  <2> DEFINE Empty(l) ==
               /\ l.line = <<>> /\ l.cursor = 0 /\ l.start = 0 /\ l.todo = <<>>
               /\ l.ring = <<>> /\ l.written = 0 /\ l.stream = <<>>
               /\ l.queue = <<>> /\ ~l.copied /\ l.handle = 0
  <2>1. Empty(NewManager)
    BY DEF NewManager
  <2>2. Empty(NoManager)
    BY DEF NewManager, NoManager
  <2> HIDE DEF Empty
  <2>3. new \in Manager /\ Empty(new)
    BY <1>3, <1>4, <2>1, <2>2
  <2> QED  BY <2>3 DEF Empty
<1> DEFINE e == <<>>
<1>6. Rest(e, 0, e)
  <2>1. Len(e) = 0
    OBVIOUS
  <2> HIDE DEF e
  <2> QED  BY <2>1 DEF Rest
<1>7. Detecting(new) /\ Ringing(new)
  BY <1>5, <1>6 DEF Detecting, Ringing, LogAssumption
<1>8. Pending(new) = <<>>
  <2>1. new.queue \in Seq(Messages)
    BY <1>1, <1>5
  <2> QED  BY <1>5, <2>1, PendingFacts
<1> QED
  BY <1>5, <1>7, <1>8

\* Everything that is in the files was heard.
LEMMA CurFits ==
    ASSUME LogInv
    PROVE  Len(disk.cur) \in Nat /\ Len(disk.cur) <= Len(heard)
<1> DEFINE b == Bytes(disk.archives)
           c == disk.cur
           k == disk.cleaned
<1>1. b \in Seq(Pieces) /\ c \in Seq(Pieces) /\ heard \in Seq(Pieces) /\ k \in Nat
  BY InvFacts
<1>2. PICK m \in Managers : m = owner \/ owner = "nobody"
  BY DEF LogInv, LogTypes, Managers
<1> DEFINE q == Pending(lm[m])
<1>3. q \in Seq(Pieces) /\ Rest(heard, k, (b \o c) \o q)
  BY <1>2, InvFacts DEF Whole
<1> HIDE DEF b, c, k, q
<1>4. b \o c \in Seq(Pieces) /\ Len(b \o c) = Len(b) + Len(c)
  BY <1>1, ConcatAt
<1> DEFINE bc == b \o c
           all == bc \o q
<1>5. /\ bc \in Seq(Pieces) /\ all \in Seq(Pieces) /\ Len(all) = Len(bc) + Len(q)
      /\ Rest(heard, k, all)
  <2> HIDE DEF bc
  <2>1. bc \in Seq(Pieces)
    BY <1>4 DEF bc
  <2>2. bc \o q \in Seq(Pieces) /\ Len(bc \o q) = Len(bc) + Len(q)
    BY <1>3, <2>1, ConcatAt
  <2>3. Rest(heard, k, bc \o q)
    BY <1>3 DEF bc
  <2> QED  BY <2>1, <2>2, <2>3
<1>6. Len(bc) = Len(b) + Len(c)
  BY <1>4
<1> HIDE DEF bc, all
<1>7. k + Len(all) = Len(heard)
  BY <1>1, <1>5 DEF Rest
<1> DEFINE lb == Len(b)
           lc == Len(c)
           lq == Len(q)
           lbc == Len(bc)
           la == Len(all)
           lh == Len(heard)
<1>8. lb \in Nat /\ lc \in Nat /\ lq \in Nat /\ lh \in Nat
  BY <1>1, <1>3
<1>9. lbc = lb + lc /\ la = lbc + lq /\ k + la = lh
  BY <1>5, <1>6, <1>7
<1> HIDE DEF lb, lc, lq, lbc, la, lh
<1>10. lc <= lh
  BY <1>1, <1>8, <1>9
<1> QED
  BY <1>8, <1>10 DEF lc, lh, c

\* A process that dies.
LEMMA DiesKeeps ==
    ASSUME LogAssumption, LogInv, NEW m \in Managers, Dies(m)
    PROVE  LogInv'
<1> DEFINE new == NoManager
           q == Pending(lm[m])
           h == SubSeq(heard, 1, Len(heard) - Len(q))
<1>1. /\ disk \in Stores /\ heard \in Seq(Pieces) /\ disk.file \in Nat
      /\ disk.cur \in Seq(Pieces) /\ disk.cleaned \in Nat /\ Bytes(disk.archives) \in Seq(Pieces)
      /\ ManagerOK(disk, lm, owner, m)
      /\ lm \in [Managers -> Manager] /\ q \in Seq(Pieces)
  BY InvFacts
<1>2. /\ heard' = h /\ lm' = [lm EXCEPT ![m] = new] /\ UNCHANGED disk
      /\ owner' = (IF owner = m THEN "nobody" ELSE owner)
      /\ poll' = [poll EXCEPT !.at = IF m = "server" /\ poll.kind = "engine" THEN 0 ELSE @]
      /\ Counted
  BY DEF Dies
<1>3. /\ new \in Manager /\ Detecting(new) /\ Ringing(new)
      /\ new.queue = <<>> /\ new.todo = <<>> /\ ~new.copied /\ new.handle = 0
      /\ Pending(new) = <<>>
  BY Fresh
<1> HIDE DEF new
<1>4. ManagerOK(disk', lm', owner', m)
  <2>1. lm'[m] = new
    BY <1>1, <1>2
  <2> QED  BY <1>1, <1>2, <1>3, <2>1 DEF ManagerOK
<1>5. owner \in {m, "nobody"} \/ (UNCHANGED owner /\ UNCHANGED disk)
  BY <1>2
<1>6. h \in Seq(Pieces) /\ Len(h) <= Len(heard) /\ InFiles(disk', lm', heard')
  <2>1. CASE owner \in {m, "nobody"}
    <3>1. Whole(Bytes(disk.archives), disk.cur, q, heard, disk.cleaned)
      BY <2>1, InvFacts
    <3>2. Len(q) <= Len(heard) /\ Whole(Bytes(disk.archives), disk.cur, <<>>, h, disk.cleaned)
      BY <1>1, <3>1, WholeLost
    <3>3. h \in Seq(Pieces) /\ Len(h) <= Len(heard)
      <4> DEFINE lq == Len(q)
      <4>1. lq \in Nat /\ lq <= Len(heard) /\ h = SubSeq(heard, 1, Len(heard) - lq)
        BY <1>1, <3>2
      <4> HIDE DEF lq, h
      <4> QED  BY <1>1, <4>1
    <3>4. InFiles(disk, lm', h)
      BY <1>1, <1>2, <1>3, <2>1, <3>2, <3>3, OwnerWhole
    <3> QED  BY <1>2, <3>3, <3>4
  <2>2. CASE owner \notin {m, "nobody"}
    <3>1. owner \in Managers /\ \A n \in Managers : n # owner => n = m
      BY <2>2 DEF LogInv, LogTypes, Managers
    <3>2. lm[m].queue = <<>> /\ lm[m].queue \in Seq(Messages)
      BY <1>1, <2>2 DEF ManagerOK, Manager
    <3>3. q = <<>>
      BY <3>2, PendingFacts
    <3>4. h = heard
      <4>1. Len(q) = 0 /\ Len(heard) \in Nat
        BY <1>1, <3>3
      <4>2. h = SubSeq(heard, 1, Len(heard))
        BY <4>1
      <4> HIDE DEF h
      <4> QED  BY <1>1, <4>2
    <3>5. lm' \in [Managers -> Manager] /\ lm'[owner] = lm[owner]
          /\ \A n \in Managers : n # owner => lm'[n].queue = <<>>
      BY <1>1, <1>2, <1>3, <2>2, <3>1
    <3>6. Whole(Bytes(disk.archives), disk.cur, Pending(lm'[owner]), heard, disk.cleaned)
      BY <3>1, <3>5, InvFacts
    <3>7. InFiles(disk, lm', heard)
      BY <1>1, <3>1, <3>5, <3>6, WholeFiles
    <3>8. Len(heard) \in Nat
      BY <1>1
    <3> HIDE DEF h
    <3> QED  BY <1>1, <1>2, <3>4, <3>7, <3>8
  <2> QED  BY <2>1, <2>2
<1> HIDE DEF h, q
<1>7. count' \in 0 .. MaxEvents
  BY <1>2, OthersNow DEF Others, Counted, LogAssumption
<1>8. poll' \in Polls /\ poll'.at <= MaxHeard
  <2>1. poll \in Polls /\ poll.at <= MaxHeard /\ MaxHeard \in Nat
    BY OthersNow DEF Others, LogAssumption
  <2> QED  BY <1>2, <2>1 DEF Polls
<1>9. Others(heard', owner', poll', count')
  <2>1. Len(heard) <= MaxHeard /\ Len(heard) \in Nat /\ Len(h) \in Nat /\ MaxHeard \in Nat
    BY <1>1, <1>6 DEF LogInv, LogAssumption
  <2>2. Len(h) <= MaxHeard
    BY <1>6, <2>1
  <2> QED  BY <1>2, <1>6, <1>7, <1>8, <2>2, OthersNow DEF Others
<1>10. disk' \in Stores /\ disk.file <= disk'.file
  BY <1>1, <1>2
<1> QED
  BY <1>2, <1>3, <1>4, <1>5, <1>6, <1>9, <1>10, OneManager

\* The line changes hands.
LEMMA OwnerKeeps ==
    ASSUME LogAssumption, LogInv, Yield \/ Resume \/ StartSession \/ EndSession
    PROVE  LogInv'
<1> DEFINE m == IF Yield \/ Resume THEN "server" ELSE "dutabo"
           new == IF Yield \/ (Resume /\ lm["server"].up) THEN lm["server"]
                  ELSE IF Resume \/ StartSession THEN NewManager ELSE NoManager
<1>1. /\ disk \in Stores /\ heard \in Seq(Pieces) /\ disk.file \in Nat
      /\ m \in Managers /\ "server" \in Managers /\ "dutabo" \in Managers
      /\ lm \in [Managers -> Manager]
      /\ \A k \in Managers : lm[k] \in Manager /\ ManagerOK(disk, lm, owner, k)
  BY InvFacts DEF Managers
<1>2. /\ UNCHANGED <<disk, heard, poll>> /\ count' \in 0 .. MaxEvents
      /\ owner \in {m, "nobody"}
      /\ owner' \in Managers \cup {"nobody"}
      /\ lm' = [lm EXCEPT ![m] = new]
      /\ lm[m].queue = <<>> /\ lm[m].todo = <<>> /\ ~lm[m].copied
      /\ new \in {NewManager, NoManager, lm[m]}
  <2>0. \A k \in Managers : owner # k =>
           lm[k].queue = <<>> /\ lm[k].todo = <<>> /\ ~lm[k].copied
    BY <1>1 DEF ManagerOK
  <2>1. CASE Yield
    <3>1. lm["server"].queue = <<>> /\ lm["server"].todo = <<>> /\ ~lm["server"].copied
      BY <1>1, <2>1 DEF Yield, Reads, AtRest, Flushed, ManagerOK, Copied
    <3>2. lm' = lm /\ owner = "server" /\ owner' = "nobody" /\ UNCHANGED <<disk, heard, poll, count>>
      BY <2>1 DEF Yield, Reads
    <3>3. lm' = [lm EXCEPT !["server"] = lm["server"]]
      BY <1>1, <3>2
    <3> QED  BY <2>1, <3>1, <3>2, <3>3, OthersNow DEF Others
  <2>2. CASE Resume /\ ~Yield
    <3>1. /\ owner = "nobody" /\ owner' = "server" /\ UNCHANGED <<disk, heard, poll, count>>
          /\ lm' = [lm EXCEPT !["server"] = IF lm["server"].up THEN lm["server"] ELSE NewManager]
      BY <1>1, <2>2 DEF Resume
    <3>2. lm["server"].queue = <<>> /\ lm["server"].todo = <<>> /\ ~lm["server"].copied
      BY <1>1, <2>0, <3>1
    <3> QED  BY <1>1, <2>2, <3>1, <3>2, OthersNow DEF Others
  <2>3. CASE StartSession /\ ~Yield /\ ~Resume
    <3>1. /\ owner = "nobody" /\ owner' = "dutabo" /\ UNCHANGED <<disk, heard, poll>> /\ Counted
          /\ lm' = [lm EXCEPT !["dutabo"] = NewManager]
      BY <2>3 DEF StartSession
    <3>2. count' \in 0 .. MaxEvents
      BY <3>1, OthersNow DEF Others, Counted, LogAssumption
    <3>3. lm["dutabo"].queue = <<>> /\ lm["dutabo"].todo = <<>> /\ ~lm["dutabo"].copied
      BY <1>1, <2>0, <3>1
    <3> QED  BY <1>1, <2>3, <3>1, <3>2, <3>3
  <2>4. CASE EndSession /\ ~Yield /\ ~Resume /\ ~StartSession
    <3>1. /\ owner = "dutabo" /\ owner' = "nobody" /\ UNCHANGED <<disk, heard, poll, count>>
          /\ lm' = [lm EXCEPT !["dutabo"] = NoManager]
      BY <2>4 DEF EndSession, Reads
    <3>2. lm["dutabo"].queue = <<>> /\ lm["dutabo"].todo = <<>> /\ ~lm["dutabo"].copied
      BY <1>1, <2>4 DEF EndSession, Reads, AtRest, Flushed, ManagerOK, Copied
    <3> QED  BY <1>1, <2>4, <3>1, <3>2, OthersNow DEF Others
  <2> QED  BY <2>1, <2>2, <2>3, <2>4
<1> HIDE DEF m, new
<1>3. /\ new \in Manager /\ Detecting(new) /\ Ringing(new)
      /\ new.queue = <<>> /\ new.todo = <<>> /\ ~new.copied /\ new.handle <= disk.file
      /\ Pending(new) = <<>>
  <2>1. CASE new \in {NewManager, NoManager}
    <3>1. 0 <= disk.file
      BY <1>1
    <3> QED  BY <2>1, <3>1, Fresh
  <2>2. CASE new = lm[m]
    <3>1. lm[m] \in Manager /\ ManagerOK(disk, lm, owner, m) /\ lm[m].queue \in Seq(Messages)
      BY <1>1 DEF Manager
    <3>2. Pending(lm[m]) = <<>>
      BY <1>2, <3>1, PendingFacts
    <3> QED  BY <1>2, <2>2, <3>1, <3>2 DEF ManagerOK
  <2> QED  BY <1>2, <2>1, <2>2
<1>4. ManagerOK(disk', lm', owner', m)
  <2>1. lm'[m] = new
    BY <1>1, <1>2
  <2> QED  BY <1>2, <1>3, <2>1 DEF ManagerOK
<1>5. InFiles(disk', lm', heard')
  <2>1. lm[m].queue = <<>> => Pending(lm[m]) = <<>>
    <3>1. lm[m].queue \in Seq(Messages)
      BY <1>1 DEF Manager
    <3> QED  BY <3>1, PendingFacts
  <2>3. Whole(Bytes(disk.archives), disk.cur, Pending(new), heard, disk.cleaned)
    BY <1>1, <1>2, <1>3, <2>1, InvFacts
  <2> QED  BY <1>1, <1>2, <1>3, <2>3, OwnerWhole
<1>6. Others(heard', owner', poll', count') /\ disk' \in Stores /\ disk.file <= disk'.file
  BY <1>1, <1>2, OthersNow DEF Others
<1> QED
  BY <1>1, <1>2, <1>3, <1>4, <1>5, <1>6, OneManager

\* A poll, and a step that leaves the log alone.
LEMMA PollKeeps ==
    ASSUME LogAssumption, LogInv, PollLogs \/ PollSince
    PROVE  LogInv'
<1>0. \E kind \in {"engine", "client"}, answers \in BOOLEAN : PollBy(kind, answers)
  <2>1. ASSUME PollLogs PROVE \E answers \in BOOLEAN : PollBy("engine", answers)
    <3> DEFINE answers == Len(disk.cur) > poll.at
    <3>1. answers \in BOOLEAN /\ PollBy("engine", answers)
      BY <2>1 DEF PollLogs
    <3> QED  BY <3>1
  <2>2. ASSUME PollSince PROVE \E answers \in BOOLEAN : PollBy("client", answers)
    <3> DEFINE answers == Len(disk.cur) # poll.at
    <3>1. answers \in BOOLEAN /\ PollBy("client", answers)
      BY <2>2 DEF PollSince
    <3> QED  BY <3>1
  <2> QED  BY <2>1, <2>2
<1>1. PICK kind \in {"engine", "client"}, answers \in BOOLEAN : PollBy(kind, answers)
  BY <1>0
<1>2. /\ UNCHANGED <<disk, lm, owner, heard>>
      /\ poll' = [kind |-> kind, fresh |-> 0, at |-> IF answers THEN Len(disk.cur) ELSE poll.at]
      /\ count' \in 0 .. MaxEvents
  BY <1>1, OthersNow DEF PollBy, Others, Counted, LogAssumption
<1>3. Len(disk.cur) \in Nat /\ Len(disk.cur) <= MaxHeard
  <2>1. Len(heard) \in Nat /\ Len(heard) <= MaxHeard /\ MaxHeard \in Nat
    BY InvFacts DEF LogInv, LogAssumption
  <2> QED  BY <2>1, CurFits
<1>4. poll \in Polls /\ poll.at <= MaxHeard
  BY OthersNow DEF Others
<1> DEFINE n == Len(disk.cur)
           at == IF answers THEN n ELSE poll.at
<1>5. at \in Nat /\ at <= MaxHeard /\ poll' = [kind |-> kind, fresh |-> 0, at |-> at]
  BY <1>2, <1>3, <1>4 DEF Polls
<1> HIDE DEF at
<1>6. poll' \in Polls /\ poll'.at <= MaxHeard
  BY <1>5 DEF Polls
<1>7. LogTypes' /\ Len(heard') <= MaxHeard
  BY <1>2, <1>6 DEF LogTypes, LogInv
<1>8. \A m \in Managers : ManagerOK(disk', lm', owner', m)
  BY <1>2 DEF LogInv
<1>9. InFiles(disk', lm', heard')
  BY <1>2 DEF LogInv
<1> QED
  BY <1>6, <1>7, <1>8, <1>9 DEF LogInv

\* A step of nobody keeps the invariant.
LEMMA LogStutters ==
    ASSUME LogInv, UNCHANGED logVars
    PROVE  LogInv'
<1>1. UNCHANGED <<disk, lm, owner, heard, poll, count>>
  BY DEF logVars
<1>2. LogTypes' /\ Len(heard') <= MaxHeard /\ poll'.at <= MaxHeard
  BY <1>1 DEF LogTypes, LogInv
<1>3. \A m \in Managers : ManagerOK(disk', lm', owner', m)
  BY <1>1 DEF LogInv
<1>4. InFiles(disk', lm', heard')
  BY <1>1 DEF LogInv
<1> QED
  BY <1>2, <1>3, <1>4 DEF LogInv

\* It holds before any server has started.
LEMMA LogInvStarts ==
    ASSUME LogAssumption, LogInit
    PROVE  LogInv
<1>1. <<>> \in Seq(Pieces) /\ <<>> \in Seq(Archives)
  OBVIOUS
<1>2. /\ disk = NewDisk /\ owner = "server" /\ heard = <<>> /\ poll = NewPoll /\ count = 0
      /\ lm = [m \in Managers |-> IF m = "server" THEN NewManager ELSE NoManager]
  BY DEF LogInit
<1>3. disk \in Stores /\ disk.cur = <<>> /\ disk.archives = <<>> /\ disk.cleaned = 0 /\ disk.file = 1
  BY <1>1, <1>2 DEF NewDisk, Stores
<1>4. \A m \in Managers : lm[m] \in {NewManager, NoManager}
  BY <1>2
<1>5. \A m \in Managers :
        /\ lm[m] \in Manager /\ Detecting(lm[m]) /\ Ringing(lm[m])
        /\ lm[m].queue = <<>> /\ lm[m].todo = <<>> /\ ~lm[m].copied /\ lm[m].handle = 0
        /\ Pending(lm[m]) = <<>>
  BY <1>4, Fresh
<1>6. lm \in [Managers -> Manager]
  BY <1>2, <1>5
<1>7. \A m \in Managers : ManagerOK(disk, lm, owner, m)
  BY <1>3, <1>5 DEF ManagerOK
<1>8. InFiles(disk, lm, heard)
  <2>1. Bytes(<<>>) = <<>>
    <3> DEFINE a == <<>>
    <3>1. a \in Seq(Archives)
      OBVIOUS
    <3>2. [i \in DOMAIN a |-> IF a[i].saved THEN a[i].bytes ELSE <<>>] = <<>>
      OBVIOUS
    <3> QED  BY <3>2, FlattenEmpty DEF Bytes
  <2>2. Pending(lm["server"]) = <<>> /\ Pending(lm["dutabo"]) = <<>>
    BY <1>5 DEF Managers
  <2> QED  BY <1>2, <1>3, <2>1, <2>2 DEF InFiles
<1>9. poll \in Polls /\ poll.at = 0 /\ count \in 0 .. MaxEvents /\ 0 <= MaxHeard
  BY <1>2 DEF NewPoll, Polls, LogAssumption
<1>10. heard \in Seq(Pieces) /\ Len(heard) = 0
  BY <1>1, <1>2
<1>11. owner \in Managers \cup {"nobody"}
  BY <1>2 DEF Managers
<1> QED
  BY <1>3, <1>6, <1>7, <1>8, <1>9, <1>10, <1>11 DEF LogInv, LogTypes, Stores

-----------------------------------------------------------------------------
(* The theorems.                                                           *)

\* Every step of the logs keeps it.
LEMMA LogInvKept ==
    ASSUME LogAssumption, LogInv, LogNext
    PROVE  LogInv'
<1>1. ASSUME NEW m \in Managers, NEW chunk \in Chunks, WriteSerial(m, chunk) PROVE LogInv'
  BY <1>1, WriteSerialKeeps
<1>2. ASSUME NEW m \in Managers, Writer(m) PROVE LogInv'
  BY <1>2, WriterKeeps
<1>3. ASSUME NEW m \in Managers, Copy(m) PROVE LogInv'
  BY <1>3, CopyKeeps
<1>4. ASSUME NEW m \in Managers, ReplaceCurrent(m) PROVE LogInv'
  BY <1>4, ReplaceCurrentKeeps
<1>5. ASSUME NEW m \in Managers, Dies(m) PROVE LogInv'
  BY <1>5, DiesKeeps
<1>6. CASE MarkBootStart \/ ExpectBootLog
  BY <1>6, BoundaryKeeps
<1>7. CASE Yield \/ Resume \/ StartSession \/ EndSession
  BY <1>7, OwnerKeeps
<1>8. CASE PollLogs \/ PollSince
  BY <1>8, PollKeeps
<1> QED
  BY <1>1, <1>2, <1>3, <1>4, <1>5, <1>6, <1>7, <1>8 DEF LogNext

\* It holds of every behaviour of the serial log.
LEMMA LogInvHolds == LogSpec => []LogInv
<1> USE LogAssumption
<1>1. LogInit => LogInv
  BY LogInvStarts
<1>2. LogInv /\ [LogNext]_logVars => LogInv'
  BY LogInvKept, LogStutters
<1> QED
  BY <1>1, <1>2, PTL DEF LogSpec

\* The variables of SerialLog keep their types, for every size of the ring and
\* every sequence of reads, splits, failures and sessions.
THEOREM LogTypesHold == LogSpec => []LogTypeOK
<1>1. LogInv => LogTypeOK
  <2> SUFFICES ASSUME LogInv PROVE LogTypeOK
    OBVIOUS
  <2>1. /\ disk.cur \in Seq(Pieces) /\ disk.file \in Nat /\ disk.archives \in Seq(Archives)
        /\ owner \in Managers \cup {"nobody"} /\ poll.at <= MaxHeard
        /\ count \in 0 .. MaxEvents
    BY InvFacts DEF LogInv, LogTypes
  <2>2. \A i \in DOMAIN disk.archives : disk.archives[i].bytes \in Seq(Pieces)
    <3> DEFINE a == disk.archives
    <3>1. \A i \in DOMAIN a : a[i] \in Archives
      BY <2>1
    <3> QED  BY <3>1 DEF Archives
  <2>3. ASSUME NEW m \in Managers
        PROVE  /\ lm[m].phase \in PrefixPhases
               /\ Len(lm[m].ring) <= RingCap
               /\ lm[m].handle <= disk.file
               /\ lm[m].start <= lm[m].cursor
               /\ lm[m].copied => ~Last(disk.archives).saved
    <3>1. /\ lm[m].phase \in PrefixPhases /\ lm[m].line \in Seq(Pieces)
          /\ lm[m].start \in Nat /\ lm[m].cursor \in Nat
          /\ ManagerOK(disk, lm, owner, m)
      BY InvFacts DEF Manager
    <3> DEFINE l == lm[m]
               n == Len(l.line)
    <3>2. n \in Nat /\ l.start + n = l.cursor /\ Len(l.ring) <= RingCap /\ l.handle <= disk.file
      BY <3>1 DEF ManagerOK, Detecting, Ringing
    <3>3. l.copied => ~Last(disk.archives).saved
      BY <3>1 DEF ManagerOK, Copied
    <3> HIDE DEF n
    <3>4. l.start <= l.cursor
      BY <3>1, <3>2
    <3> QED  BY <3>1, <3>2, <3>3, <3>4
  <2> QED  BY <2>1, <2>2, <2>3 DEF LogTypeOK
<1> QED
  BY <1>1, LogInvHolds, PTL

\* What the ring holds past a cursor is the stream past it.
SameFrom(ring, from, s, cursor) ==
    SubSeq(ring, from + 1, Len(ring)) = SubSeq(s, cursor + 1, Len(s))

\* Two sequences of which one ends the other agree from any position that both
\* have.
LEMMA SuffixSince ==
    ASSUME NEW T, NEW s \in Seq(T), NEW ring \in Seq(T), NEW base \in Nat, NEW cursor \in Nat,
           Rest(s, base, ring), cursor <= Len(s), NEW from \in Nat, base + from = cursor
    PROVE  SameFrom(ring, from, s, cursor)
<1>1. Len(s) = base + Len(ring) /\ Len(ring) \in Nat
  BY DEF Rest
<1>2. from \in 0 .. Len(ring) /\ base + from = cursor
  BY <1>1
<1> DEFINE b == SubSeq(ring, from + 1, Len(ring))
<1>3. b \in Seq(T) /\ Rest(s, base + from, b)
  BY <1>2, RestSuffix
<1> HIDE DEF b
<1>4. Rest(s, cursor, b)
  BY <1>2, <1>3
<1>5. b = SubSeq(s, cursor + 1, Len(s))
  BY <1>3, <1>4, RestIs
<1> QED
  BY <1>5 DEF b, SameFrom

\* tail_since: what is answered without the truncated flag is everything that
\* was captured past the cursor, for a ring that ends the stream.
LEMMA TailHonest ==
    ASSUME NEW l \in Manager, Ringing(l), NEW cursor \in 0 .. l.written,
           ~TailSince(l, cursor).truncated
    PROVE  TailSince(l, cursor).bytes = SubSeq(l.stream, cursor + 1, l.written)
<1>1. /\ l.ring \in Seq(Pieces) /\ l.stream \in Seq(Pieces) /\ l.written \in Nat
      /\ cursor \in Nat /\ cursor <= l.written
  BY DEF Manager
<1>2. /\ l.written = Len(l.stream) /\ Len(l.ring) <= l.written
      /\ Rest(l.stream, l.written - Len(l.ring), l.ring)
  BY DEF Ringing
<1> DEFINE base == l.written - Len(l.ring)
           from == IF cursor > base THEN cursor - base ELSE 0
           b == SubSeq(l.ring, from + 1, Len(l.ring))
<1>3. TailSince(l, cursor).bytes = b /\ TailSince(l, cursor).truncated = (cursor < base)
  BY DEF TailSince
<1>4. base \in Nat
  <2> DEFINE n == Len(l.ring)
  <2>1. n \in Nat /\ n <= l.written
    BY <1>1, <1>2
  <2> HIDE DEF n
  <2>2. l.written - n \in Nat
    BY <1>1, <2>1
  <2> QED  BY <2>2 DEF n
<1>5. Rest(l.stream, base, l.ring)
  BY <1>2
<1>6. cursor <= Len(l.stream)
  BY <1>1, <1>2
<1> HIDE DEF base
<1>7. ~(cursor < base)
  BY <1>3
<1>8. from \in Nat /\ base + from = cursor
  BY <1>1, <1>4, <1>7
<1> HIDE DEF from
<1>80. SameFrom(l.ring, from, l.stream, cursor)
  BY <1>1, <1>4, <1>5, <1>6, <1>8, SuffixSince
<1>9. b = SubSeq(l.stream, cursor + 1, Len(l.stream))
  BY <1>80 DEF SameFrom
<1> HIDE DEF b
<1> QED
  BY <1>2, <1>3, <1>9

\* Every byte of the line is in one place and in order, whatever the sizes of the
\* ring and of the reads: in the archives, the current file or the queue of a
\* writer (LogManager, its writer thread and its rotation), and the ring answers
\* a reader with all of it or says what is gone.
THEOREM LogsAreWhole == LogSpec => []LogsWhole
<1>1. LogInv => LogsWhole
  <2> SUFFICES ASSUME LogInv PROVE LogsWhole
    OBVIOUS
  <2>1. FilesWhole
    <3> DEFINE b == Bytes(disk.archives)
               p == Pending(lm["server"])
               q == Pending(lm["dutabo"])
    <3>1. InFiles(disk, lm, heard)
      BY DEF LogInv
    <3>2. ((b \o disk.cur) \o p) \o q = SubSeq(heard, disk.cleaned + 1, Len(heard))
      BY <3>1 DEF InFiles
    <3> QED  BY <3>2 DEF FilesWhole
  <2>2. TailIsHonest
    <3> SUFFICES ASSUME NEW m \in Managers, NEW cursor \in 0 .. lm[m].written,
                        ~TailSince(lm[m], cursor).truncated
                 PROVE  TailSince(lm[m], cursor).bytes
                          = SubSeq(lm[m].stream, cursor + 1, lm[m].written)
      BY DEF TailIsHonest
    <3>1. lm[m] \in Manager /\ Ringing(lm[m])
      BY InvFacts DEF ManagerOK
    <3> QED  BY <3>1, TailHonest
  <2> QED  BY <2>1, <2>2 DEF LogsWhole
<1> QED
  BY <1>1, LogInvHolds, PTL

-----------------------------------------------------------------------------
(* Where the file is cut.                                                  *)

\* The text that the detector has in its line, and what a boundary points at, as
\* they are in the file and the queue.
AlikeAt(t, off, line, start) ==
    \A j \in 1 .. Len(line) : off + start + j >= 1 => t[off + start + j] = line[j]
PointedAt(t, off, todo, cursor) ==
    \A i \in 1 .. Len(todo) :
      /\ todo[i] < cursor
      /\ off + todo[i] + 1 >= 1 => t[off + todo[i] + 1] \in {"ddr", "spl"}

\* The kind of a line is a piece of it.
LEMMA KindAt ==
    ASSUME NEW line \in Seq(Pieces), NEW phase, CutsBefore(phase, Kind(line))
    PROVE  LET at == SelectInSeq(line, LAMBDA x : x = Kind(line))
           IN  at \in 1 .. Len(line) /\ line[at] = Kind(line) /\ Kind(line) \in {"ddr", "spl"}
<1> DEFINE kind == Kind(line)
           at == SelectInSeq(line, LAMBDA x : x = kind)
           I == {i \in 1 .. Len(line) : line[i] = kind}
<1>1. kind \in {"ddr", "spl"}
  BY DEF CutsBefore
<1>2. Contains(line, kind)
  BY <1>1 DEF Kind
<1>3. \E i \in 1 .. Len(line) : line[i] = kind
  BY <1>2 DEF Contains
<1>4. I # {} /\ I \in SUBSET Nat
  BY <1>3
<1>5. at = Min(I)
  BY <1>4 DEF SelectInSeq
<1> HIDE DEF at
<1>6. Min(I) \in I
  <2> HIDE DEF I
  <2> QED  BY <1>4, MinExists
<1>7. at \in 1 .. Len(line) /\ line[at] = kind
  BY <1>5, <1>6
<1> QED
  BY <1>1, <1>7 DEF at

\* One piece that is in the text, too: t holds it at off + cursor + 1.
LEMMA FeedPieceAlike ==
    ASSUME NEW l, NEW e \in Fed(l), NEW p \in Pieces, NEW t, NEW off \in Int,
           AlikeAt(t, off, e.line, e.start), PointedAt(t, off, e.todo, e.cursor),
           off + e.cursor + 1 >= 1 => t[off + e.cursor + 1] = p
    PROVE  LET f == FeedPiece(e, p)
           IN  /\ AlikeAt(t, off, f.line, f.start) /\ PointedAt(t, off, f.todo, f.cursor)
               /\ f.cursor = e.cursor + 1
<1> DEFINE kind == Kind(e.line)
           at == SelectInSeq(e.line, LAMBDA x : x = kind)
           f == FeedPiece(e, p)
<1>1. /\ e \in Manager /\ e.start + Len(e.line) = e.cursor
      /\ e.line \in Seq(Pieces) /\ e.start \in Nat /\ e.cursor \in Nat /\ e.todo \in Seq(Int)
      /\ e.phase \in PrefixPhases
  BY DEF Fed, Manager, Detecting
<1>2. CASE p # "eol"
  <2> DEFINE line == Append(e.line, p)
             n == Len(e.line)
  <2>1. f = [e EXCEPT !.cursor = @ + 1, !.line = Append(@, p)]
    BY <1>1, <1>2 DEF FeedPiece, Manager
  <2>2. f.line = line /\ f.start = e.start /\ f.todo = e.todo /\ f.cursor = e.cursor + 1
    <3> HIDE DEF line, f
    <3> QED  BY <1>1, <2>1 DEF Manager, line
  <2>3. /\ n \in Nat /\ Len(line) = n + 1 /\ line[n + 1] = p
        /\ \A j \in 1 .. n : line[j] = e.line[j]
    BY <1>1
  <2> HIDE DEF line, f
  <2>4. AlikeAt(t, off, line, e.start)
    <3> SUFFICES ASSUME NEW j \in 1 .. n + 1, off + e.start + j >= 1
                 PROVE  t[off + e.start + j] = line[j]
      BY <2>3 DEF AlikeAt
    <3>1. CASE j = n + 1
      <4>0. e.start + n = e.cursor /\ e.start \in Nat /\ n \in Nat /\ j = n + 1
        BY <1>1, <3>1
      <4> HIDE DEF n
      <4>1. off + e.start + j = off + e.cursor + 1
        <5> DEFINE a == e.start
                   b == e.cursor
        <5>1. a + n = b /\ a \in Nat /\ n \in Nat /\ j = n + 1 /\ off \in Int
          BY <4>0
        <5> HIDE DEF a, b
        <5>2. off + a + j = off + b + 1
          BY <5>1
        <5> QED  BY <5>2 DEF a, b
      <4> QED  BY <2>3, <3>1, <4>1
    <3>2. CASE j \in 1 .. n
      <4>1. t[off + e.start + j] = e.line[j]
        BY <3>2 DEF AlikeAt
      <4> QED  BY <2>3, <3>2, <4>1
    <3> QED  BY <2>3, <3>1, <3>2
  <2>5. PointedAt(t, off, e.todo, e.cursor + 1)
    <3> SUFFICES ASSUME NEW i \in 1 .. Len(e.todo)
                 PROVE  /\ e.todo[i] < e.cursor + 1
                        /\ off + e.todo[i] + 1 >= 1 => t[off + e.todo[i] + 1] \in {"ddr", "spl"}
      BY DEF PointedAt
    <3>1. /\ e.todo[i] < e.cursor
          /\ off + e.todo[i] + 1 >= 1 => t[off + e.todo[i] + 1] \in {"ddr", "spl"}
      BY DEF PointedAt
    <3>2. e.todo[i] \in Int
      BY <1>1
    <3> QED  BY <1>1, <3>1, <3>2
  <2> QED  BY <2>2, <2>4, <2>5 DEF f
<1>3. CASE p = "eol"
  <2> DEFINE cuts == CutsBefore(e.phase, kind)
             x == e.start + at - 1
             todo == IF cuts THEN Append(e.todo, x) ELSE e.todo
             cursor == e.cursor + 1
             none == <<>>
  <2>1. f = [e EXCEPT !.cursor = @ + 1,
                      !.todo = IF cuts THEN Append(@, x) ELSE @,
                      !.phase = PhaseAfter(@, kind), !.line = <<>>, !.start = e.cursor + 1]
    BY <1>1, <1>3 DEF FeedPiece, Manager
  <2>2. f.line = none /\ f.start = cursor /\ f.todo = todo /\ f.cursor = cursor
    <3> HIDE DEF f, cuts, x, kind
    <3> QED  BY <1>1, <2>1 DEF Manager
  <2>3. AlikeAt(t, off, none, cursor)
    <3>1. Len(none) = 0
      OBVIOUS
    <3> HIDE DEF none
    <3> QED  BY <3>1 DEF AlikeAt
  <2> HIDE DEF f, none
  <2>4. cuts => /\ at \in 1 .. Len(e.line) /\ e.line[at] = kind /\ kind \in {"ddr", "spl"}
    <3> QED  BY <1>1, KindAt
  <2> HIDE DEF at, kind, cuts
  <2>5. cuts => /\ x \in Int /\ x < cursor
                /\ off + x + 1 >= 1 => t[off + x + 1] \in {"ddr", "spl"}
    <3> SUFFICES ASSUME cuts
                 PROVE  /\ x \in Int /\ x < cursor
                        /\ off + x + 1 >= 1 => t[off + x + 1] \in {"ddr", "spl"}
      OBVIOUS
    <3> DEFINE n == Len(e.line)
    <3>1. n \in Nat /\ at \in 1 .. n /\ e.start + n = e.cursor
      BY <1>1, <2>4
    <3>2. off + e.start + at >= 1 => t[off + e.start + at] = e.line[at]
      BY <2>4 DEF AlikeAt
    <3> HIDE DEF n
    <3>3. x \in Int /\ x < cursor /\ off + x + 1 = off + e.start + at
      BY <1>1, <3>1
    <3> HIDE DEF x
    <3> QED  BY <2>4, <3>2, <3>3
  <2>6. PointedAt(t, off, e.todo, cursor)
    <3> SUFFICES ASSUME NEW i \in 1 .. Len(e.todo)
                 PROVE  /\ e.todo[i] < cursor
                        /\ off + e.todo[i] + 1 >= 1 => t[off + e.todo[i] + 1] \in {"ddr", "spl"}
      BY DEF PointedAt
    <3>1. /\ e.todo[i] < e.cursor
          /\ off + e.todo[i] + 1 >= 1 => t[off + e.todo[i] + 1] \in {"ddr", "spl"}
      BY DEF PointedAt
    <3>2. e.todo[i] \in Int
      BY <1>1
    <3> QED  BY <1>1, <3>1, <3>2
  <2>7. PointedAt(t, off, todo, cursor)
    <3>1. CASE ~cuts
      BY <2>6, <3>1
    <3>2. CASE cuts
      <4> DEFINE s == e.todo
      <4>1. s \in Seq(Int) /\ x \in Int
        BY <1>1, <2>5, <3>2
      <4>2. todo = Append(s, x)
        BY <3>2
      <4> HIDE DEF x, todo
      <4>3. /\ Len(todo) = Len(s) + 1 /\ Len(s) \in Nat /\ todo[Len(s) + 1] = x
            /\ \A i \in 1 .. Len(s) : todo[i] = s[i]
        BY <4>1, <4>2
      <4>4. \A i \in 1 .. Len(todo) : i \in 1 .. Len(s) \/ i = Len(s) + 1
        BY <4>3
      <4>5. ASSUME NEW i \in 1 .. Len(todo)
            PROVE  /\ todo[i] < cursor
                   /\ off + todo[i] + 1 >= 1 => t[off + todo[i] + 1] \in {"ddr", "spl"}
        <5>1. CASE i = Len(s) + 1
          <6>1. todo[i] = x
            BY <4>3, <5>1
          <6> QED  BY <2>5, <3>2, <6>1
        <5>2. CASE i \in 1 .. Len(s)
          <6>1. todo[i] = s[i]
            BY <4>3, <5>2
          <6>2. /\ s[i] < cursor
                /\ off + s[i] + 1 >= 1 => t[off + s[i] + 1] \in {"ddr", "spl"}
            BY <2>6, <5>2 DEF PointedAt
          <6> QED  BY <6>1, <6>2
        <5> QED  BY <4>4, <5>1, <5>2
      <4> QED  BY <4>5 DEF PointedAt
    <3> QED  BY <3>1, <3>2
  <2> QED  BY <2>2, <2>3, <2>7 DEF f
<1> QED
  BY <1>2, <1>3

\* A chunk of them: t goes on with the chunk where the text ended.
CarriesOn(t, at, c, n) == \A i \in 1 .. n : at + i >= 1 => t[at + i] = c[i]

\* Feeding the detector pieces that come next in the text leaves its line and
\* its boundaries as they are in that text.
LEMMA FeedAlike ==
    ASSUME NEW l \in Manager, Detecting(l), NEW n \in Nat, NEW c, DOMAIN c = 1 .. n,
           \A i \in 1 .. n : c[i] \in Pieces,
           NEW t, NEW off \in Int,
           AlikeAt(t, off, l.line, l.start), PointedAt(t, off, l.todo, l.cursor),
           CarriesOn(t, off + l.cursor, c, n)
    PROVE  LET f == FoldLeft(FeedPiece, l, c)
           IN  /\ AlikeAt(t, off, f.line, f.start) /\ PointedAt(t, off, f.todo, f.cursor)
               /\ f.cursor = l.cursor + n
<1> DEFINE Good(e, k) == /\ AlikeAt(t, off, e.line, e.start) /\ PointedAt(t, off, e.todo, e.cursor)
                         /\ e.cursor = l.cursor + k
<1>1. l \in Fed(l) /\ l.cursor \in Nat
  BY DEF Fed, Manager
<1>2. \A e \in Fed(l), i \in 1 .. n : FeedPiece(e, c[i]) \in Fed(l)
  BY FeedPieceStays
<1>3. PICK r : FeedRun(r, n, Fed(l), l, c)
  BY <1>1, <1>2, FeedRuns
<1> DEFINE S == {k \in 0 .. n : Good(r[k], k)}
<1>4. 0 \in S
  <2>1. r[0] = l
    BY <1>3 DEF FeedRun
  <2>2. l.cursor = l.cursor + 0
    BY <1>1
  <2> QED  BY <2>1, <2>2
<1>5. ASSUME NEW k \in 1 .. n, k - 1 \in S
      PROVE  k \in S
  <2> DEFINE e == r[k - 1]
             f == FeedPiece(e, c[k])
  <2>1. k - 1 \in 0 .. n
    OBVIOUS
  <2>2. e \in Fed(l) /\ r[k] = f
    BY <1>3, <2>1 DEF FeedRun
  <2>3. Good(e, k - 1)
    BY <1>5
  <2>4. e.cursor + 1 = l.cursor + k
    BY <1>1, <2>3
  <2>5. off + e.cursor + 1 = off + l.cursor + k /\ off + (e.cursor + 1) = off + e.cursor + 1
    <3> DEFINE a == e.cursor
               b == l.cursor
    <3>1. a \in Nat /\ b \in Nat /\ a + 1 = b + k
      BY <1>1, <2>3, <2>4
    <3> HIDE DEF a, b, e
    <3>2. off + a + 1 = off + b + k /\ off + (a + 1) = off + a + 1
      BY <3>1
    <3> QED  BY <3>2 DEF a, b
  <2> HIDE DEF e
  <2>6. off + e.cursor + 1 >= 1 => t[off + e.cursor + 1] = c[k]
    BY <2>5 DEF CarriesOn
  <2>7. /\ AlikeAt(t, off, f.line, f.start) /\ PointedAt(t, off, f.todo, f.cursor)
        /\ f.cursor = e.cursor + 1
    BY <2>2, <2>3, <2>6, FeedPieceAlike
  <2> HIDE DEF f
  <2>8. Good(f, k)
    BY <2>4, <2>7
  <2> QED  BY <2>2, <2>8
<1> HIDE DEF S
<1>6. \A k \in 0 .. n : k \in S
  BY <1>4, <1>5, UpTo
<1>7. Good(r[n], n)
  BY <1>6 DEF S
<1>8. r[n] = FoldLeft(FeedPiece, l, c)
  BY <1>3 DEF FeedRun
<1> QED
  BY <1>7, <1>8

\* The text behind a detector, in its file and its queue.
Following(d, l) == d.cur \o Pending(l)

CutOK(d, l) ==
    LET t == Following(d, l)
        off == Len(t) - l.cursor
    IN  /\ ~l.mixed => AlikeAt(t, off, l.line, l.start)
        /\ ~l.mixed /\ ~l.forced => PointedAt(t, off, l.todo, l.cursor)
        /\ l.copied /\ ~l.mixed /\ ~l.forced =>
             l.suffix # <<>> /\ Head(l.suffix) \in {"ddr", "spl"}

\* What waits in a queue will come in the middle of no line but those of a
\* detector that is mixed already.
Undisturbed(l) ==
    \A m, n \in Managers :
      m = n \/ Pending(l[m]) = <<>> \/ l[n].mixed \/ l[n].line = <<>>

CutInv ==
    /\ \A m \in Managers : CutOK(disk, lm[m])
    /\ Undisturbed(lm)

\* A place in the line is a place in the text.
LEMMA Positions ==
    ASSUME NEW n \in Nat, NEW cursor \in Nat, NEW start \in Nat, NEW k \in Nat,
           start + k = cursor, NEW j \in 1 .. k, n - cursor + start + j >= 1
    PROVE  n - cursor + start + j \in 1 .. n
OBVIOUS

\* What was there stays where it was when more comes, ...
LEMMA AlikeGrows ==
    ASSUME NEW t \in Seq(Pieces), NEW x \in Seq(Pieces), NEW l \in Manager, Detecting(l),
           AlikeAt(t, Len(t) - l.cursor, l.line, l.start), l.todo = <<>>
    PROVE  LET off == Len(t) - l.cursor
           IN  /\ off \in Int
               /\ AlikeAt(t \o x, off, l.line, l.start)
               /\ PointedAt(t \o x, off, l.todo, l.cursor)
               /\ CarriesOn(t \o x, off + l.cursor, x, Len(x))
<1> DEFINE u == t \o x
           n == Len(t)
           k == Len(l.line)
           off == n - l.cursor
<1>1. /\ l.start + k = l.cursor
      /\ l.line \in Seq(Pieces) /\ l.start \in Nat /\ l.cursor \in Nat /\ k \in Nat /\ n \in Nat
  BY DEF Manager, Detecting
<1>2. /\ \A i \in 1 .. n : u[i] = t[i]
      /\ \A i \in 1 .. Len(x) : u[n + i] = x[i]
  BY ConcatAt
<1> HIDE DEF u
<1>3. AlikeAt(u, off, l.line, l.start)
  <2> SUFFICES ASSUME NEW j \in 1 .. k, off + l.start + j >= 1
               PROVE  u[off + l.start + j] = l.line[j]
    BY DEF AlikeAt
  <2>1. t[off + l.start + j] = l.line[j]
    BY DEF AlikeAt
  <2>2. off + l.start + j \in 1 .. n
    BY <1>1, Positions
  <2> HIDE DEF off
  <2> QED  BY <1>2, <2>1, <2>2
<1>4. PointedAt(u, off, l.todo, l.cursor)
  <2>1. Len(l.todo) = 0
    OBVIOUS
  <2> QED  BY <2>1 DEF PointedAt
<1>5. ASSUME NEW i \in 1 .. Len(x)
      PROVE  u[off + l.cursor + i] = x[i]
  <2> HIDE DEF n
  <2>1. off + l.cursor + i = n + i
    BY <1>1
  <2> QED  BY <1>2, <2>1
<1>6. off \in Int
  BY <1>1
<1> QED
  BY <1>3, <1>4, <1>5, <1>6 DEF u, CarriesOn

\* ... and when the file is cut before it.
Joins(pre, t, u) == pre \o t = u

\* A line of the detector that is in the text with its beginning is in the text
\* without it.
LEMMA CutBehind ==
    ASSUME NEW pre \in Seq(Pieces), NEW t \in Seq(Pieces), NEW u, Joins(pre, t, u),
           NEW l \in Manager, Detecting(l),
           AlikeAt(u, Len(u) - l.cursor, l.line, l.start)
    PROVE  AlikeAt(t, Len(t) - l.cursor, l.line, l.start)
<1> DEFINE n == Len(t)
           p == Len(pre)
           off == n - l.cursor
           uff == Len(u) - l.cursor
<1>1. /\ n \in Nat /\ p \in Nat /\ Len(u) = p + n /\ \A i \in 1 .. n : u[p + i] = t[i]
  BY ConcatAt DEF Joins
<1>2. l.cursor \in Nat /\ l.start \in Nat /\ l.line \in Seq(Pieces)
  BY DEF Manager
<1> HIDE DEF p, n
<1> SUFFICES ASSUME NEW j \in 1 .. Len(l.line), off + l.start + j >= 1
             PROVE  t[off + l.start + j] = l.line[j]
  BY DEF AlikeAt, n
<1>3. AlikeAt(u, uff, l.line, l.start)
  OBVIOUS
<1>4. uff + l.start + j = p + (off + l.start + j) /\ uff + l.start + j >= 1
  BY <1>1, <1>2
<1>5. u[uff + l.start + j] = l.line[j]
  BY <1>3, <1>4 DEF AlikeAt
<1>6. off + l.start + j \in 1 .. n
  <2> DEFINE k == Len(l.line)
  <2>1. l.start + k = l.cursor /\ k \in Nat
    BY <1>2 DEF Detecting
  <2> QED  BY <1>1, <1>2, <2>1, Positions
<1> DEFINE i == off + l.start + j
<1>7. i \in 1 .. n /\ u[p + i] = l.line[j]
  BY <1>4, <1>5, <1>6
<1> HIDE DEF i
<1>8. t[i] = l.line[j]
  BY <1>1, <1>7
<1> QED
  BY <1>8 DEF i

\* So are the boundaries it points at.
LEMMA PointedBehind ==
    ASSUME NEW pre \in Seq(Pieces), NEW t \in Seq(Pieces), NEW u, Joins(pre, t, u),
           NEW cursor \in Nat, NEW todo \in Seq(Int),
           PointedAt(u, Len(u) - cursor, todo, cursor)
    PROVE  PointedAt(t, Len(t) - cursor, todo, cursor)
<1> DEFINE n == Len(t)
           p == Len(pre)
           off == n - cursor
           uff == Len(u) - cursor
<1>1. /\ n \in Nat /\ p \in Nat /\ Len(u) = p + n /\ \A i \in 1 .. n : u[p + i] = t[i]
  BY ConcatAt DEF Joins
<1> HIDE DEF p, n
<1> SUFFICES ASSUME NEW i \in 1 .. Len(todo)
             PROVE  /\ todo[i] < cursor
                    /\ off + todo[i] + 1 >= 1 => t[off + todo[i] + 1] \in {"ddr", "spl"}
  BY DEF PointedAt, n
<1> DEFINE x == todo[i]
<1>2. PointedAt(u, uff, todo, cursor)
  OBVIOUS
<1>3. x < cursor /\ (uff + x + 1 >= 1 => u[uff + x + 1] \in {"ddr", "spl"})
  BY <1>2 DEF PointedAt
<1>4. x \in Int
  OBVIOUS
<1> HIDE DEF x
<1>5. ASSUME off + x + 1 >= 1
      PROVE  t[off + x + 1] \in {"ddr", "spl"}
  <2> DEFINE j == off + x + 1
  <2>1. uff + x + 1 = p + j /\ uff + x + 1 >= 1 /\ j \in 1 .. n
    BY <1>1, <1>3, <1>4, <1>5
  <2> HIDE DEF j
  <2>2. t[j] \in {"ddr", "spl"}
    BY <1>1, <1>3, <2>1
  <2> QED  BY <2>2 DEF j
<1>6. x < cursor
  BY <1>3
<1> QED
  BY <1>5, <1>6 DEF x

\* The boundary that is done goes.
LEMMA PointedTail ==
    ASSUME NEW t, NEW off \in Int, NEW cursor, NEW todo \in Seq(Int), todo # <<>>,
           PointedAt(t, off, todo, cursor)
    PROVE  PointedAt(t, off, Tail(todo), cursor)
<1> DEFINE r == Tail(todo)
<1>1. \A i \in 1 .. Len(r) : r[i] = todo[i + 1] /\ i + 1 \in 1 .. Len(todo)
  BY TailFacts
<1> HIDE DEF r
<1>2. ASSUME NEW i \in 1 .. Len(r)
      PROVE  /\ r[i] < cursor
             /\ off + r[i] + 1 >= 1 => t[off + r[i] + 1] \in {"ddr", "spl"}
  <2>1. r[i] = todo[i + 1] /\ i + 1 \in 1 .. Len(todo)
    BY <1>1
  <2>2. ASSUME NEW j \in 1 .. Len(todo)
        PROVE  /\ todo[j] < cursor
               /\ off + todo[j] + 1 >= 1 => t[off + todo[j] + 1] \in {"ddr", "spl"}
    BY DEF PointedAt
  <2> QED  BY <2>1, <2>2
<1> QED
  BY <1>2 DEF PointedAt, r

\* An empty line agrees with any text.
LEMMA AlikeNothing ==
    ASSUME NEW t, NEW off, NEW start
    PROVE  AlikeAt(t, off, <<>>, start)
<1> DEFINE none == <<>>
<1>1. Len(none) = 0
  OBVIOUS
<1> HIDE DEF none
<1>2. AlikeAt(t, off, none, start)
  BY <1>1 DEF AlikeAt
<1> QED
  BY <1>2 DEF none

\* No boundary points anywhere.
LEMMA PointedNothing ==
    ASSUME NEW t, NEW off, NEW cursor
    PROVE  PointedAt(t, off, <<>>, cursor)
<1> DEFINE none == <<>>
<1>1. Len(none) = 0
  OBVIOUS
<1> HIDE DEF none
<1>2. PointedAt(t, off, none, cursor)
  BY <1>1 DEF PointedAt
<1> QED
  BY <1>2 DEF none

\* A detector that has nothing to cut, and no line or one that is mixed.
LEMMA CutIdle ==
    ASSUME NEW d, NEW l, l.todo = <<>>, ~l.copied, l.mixed \/ l.line = <<>>
    PROVE  CutOK(d, l)
<1>1. ~l.mixed => AlikeAt(Following(d, l), Len(Following(d, l)) - l.cursor, l.line, l.start)
  BY AlikeNothing
<1>2. PointedAt(Following(d, l), Len(Following(d, l)) - l.cursor, l.todo, l.cursor)
  BY PointedNothing
<1> QED
  BY <1>1, <1>2 DEF CutOK

\* The same text, the same detector.
LEMMA CutSame ==
    ASSUME NEW d, NEW e, NEW l, NEW k, CutOK(d, l), Following(e, k) = Following(d, l),
           k.line = l.line, k.start = l.start, k.cursor = l.cursor, k.todo = l.todo,
           k.forced = l.forced, k.mixed = l.mixed, k.copied = l.copied, k.suffix = l.suffix
    PROVE  CutOK(e, k)
BY DEF CutOK

\* A step of one manager.
LEMMA UndisturbedKept ==
    ASSUME LogInv, Undisturbed(lm), NEW m \in Managers, NEW new,
           lm' = [lm EXCEPT ![m] = new],
           Pending(lm[m]) = <<>> => Pending(new) = <<>>,
           new.line = <<>> \/ (new.line = lm[m].line /\ new.mixed = lm[m].mixed)
    PROVE  Undisturbed(lm')
<1>1. lm'[m] = new /\ \A k \in Managers : k # m => lm'[k] = lm[k]
  BY InvFacts
<1> SUFFICES ASSUME NEW a \in Managers, NEW b \in Managers, a # b
             PROVE  Pending(lm'[a]) = <<>> \/ lm'[b].mixed \/ lm'[b].line = <<>>
  BY DEF Undisturbed
<1>2. Pending(lm[a]) = <<>> \/ lm[b].mixed \/ lm[b].line = <<>>
  BY DEF Undisturbed
<1>3. Pending(lm[a]) = <<>> => Pending(lm'[a]) = <<>>
  BY <1>1
<1>4. lm'[b].line = <<>> \/ (lm'[b].line = lm[b].line /\ lm'[b].mixed = lm[b].mixed)
  BY <1>1
<1> QED
  BY <1>2, <1>3, <1>4

\* Who does not own the line has an empty queue.
LEMMA NotOwner ==
    ASSUME LogInv, NEW k \in Managers, k # owner
    PROVE  /\ lm[k] \in Manager /\ Detecting(lm[k])
           /\ lm[k].queue = <<>> /\ Pending(lm[k]) = <<>> /\ lm[k].todo = <<>> /\ ~lm[k].copied
           /\ Following(disk, lm[k]) = disk.cur
<1>1. /\ ManagerOK(disk, lm, owner, k) /\ lm[k].queue \in Seq(Messages) /\ disk.cur \in Seq(Pieces)
      /\ lm[k] \in Manager
  BY InvFacts DEF Manager
<1>2. Detecting(lm[k]) /\ lm[k].queue = <<>> /\ lm[k].todo = <<>> /\ ~lm[k].copied
  BY <1>1 DEF ManagerOK
<1>3. Pending(lm[k]) = <<>>
  BY <1>1, <1>2, PendingFacts
<1>4. disk.cur \o <<>> = disk.cur
  BY <1>1, ConcatEmpty
<1> QED
  BY <1>1, <1>2, <1>3, <1>4 DEF Following

\* A read.
LEMMA WriteSerialCuts ==
    ASSUME LogAssumption, LogInv, CutInv, NEW m \in Managers, NEW chunk \in Chunks,
           WriteSerial(m, chunk)
    PROVE  CutInv'
<1> DEFINE l == lm[m]
           o == Other(m)
           fed == FoldLeft(FeedPiece, l, chunk)
           mixed == l.mixed /\ l.line # <<>>
           clean == [fed EXCEPT !.forced = FALSE, !.mixed = mixed]
           known == Remember(clean, chunk)
           new == [known EXCEPT !.handle = IF @ = 0 THEN disk.file ELSE @]
           other == [lm[o] EXCEPT !.mixed = @ \/ lm[o].line # <<>>]
           message == [what |-> "data", bytes |-> chunk]
           text == Following(disk, l)
           off == Len(text) - l.cursor
<1>1. PICK n \in Nat : chunk \in [1 .. n -> Pieces]
  BY DEF Chunks, LogAssumption
<1>2. chunk \in Seq(Pieces) /\ DOMAIN chunk = 1 .. n /\ Len(chunk) = n
      /\ \A i \in 1 .. n : chunk[i] \in Pieces
  BY <1>1
<1>3. /\ lm \in [Managers -> Manager] /\ l \in Manager /\ Pending(l) \in Seq(Pieces)
      /\ disk.cur \in Seq(Pieces)
      /\ ManagerOK(disk, lm, owner, m)
      /\ CutOK(disk, l) /\ l.mixed \in BOOLEAN
  <2>1. /\ lm \in [Managers -> Manager] /\ l \in Manager /\ Pending(l) \in Seq(Pieces)
        /\ disk.cur \in Seq(Pieces)
        /\ ManagerOK(disk, lm, owner, m)
    BY InvFacts
  <2> QED  BY <2>1 DEF CutInv, Manager
<1>4. owner = m /\ l.todo = <<>> /\ UNCHANGED disk
  BY DEF WriteSerial, Reads, AtRest
<1>5. Detecting(l) /\ Ringing(l) /\ ~l.copied
  BY <1>3, <1>4 DEF ManagerOK, Copied
<1>6. o \in Managers /\ o # m /\ \A k \in Managers : k = m \/ k = o
  BY DEF Other, Managers
<1>7. lm' = [lm EXCEPT ![m] = new, ![o] = other]
  BY <1>3, <1>6 DEF WriteSerial
<1>8. fed \in Fed(l)
  <2>1. l \in Fed(l)
    BY <1>3, <1>5 DEF Fed
  <2>2. \A e \in Fed(l), i \in 1 .. n : FeedPiece(e, chunk[i]) \in Fed(l)
    BY <1>2, FeedPieceStays
  <2> HIDE DEF l
  <2> QED  BY <1>2, <2>1, <2>2, FeedStays
<1>9. text \in Seq(Pieces) /\ text \o chunk \in Seq(Pieces) /\ Len(text \o chunk) = Len(text) + n
      /\ Len(text) \in Nat
  <2>1. text \in Seq(Pieces)
    BY <1>3, ConcatAt DEF Following
  <2> HIDE DEF text
  <2>2. text \o chunk \in Seq(Pieces) /\ Len(text \o chunk) = Len(text) + Len(chunk)
    BY <1>2, <2>1, ConcatAt
  <2>3. Len(text) \in Nat
    BY <2>1
  <2> QED  BY <1>2, <2>1, <2>2, <2>3
<1>10. ASSUME ~mixed
       PROVE  /\ AlikeAt(text \o chunk, off, fed.line, fed.start)
              /\ PointedAt(text \o chunk, off, fed.todo, fed.cursor)
              /\ fed.cursor = l.cursor + n
  <2>1. AlikeAt(text, off, l.line, l.start)
    BY <1>3, <1>10, AlikeNothing DEF CutOK
  <2> HIDE DEF text, l
  <2>2. /\ off \in Int
        /\ AlikeAt(text \o chunk, off, l.line, l.start)
        /\ PointedAt(text \o chunk, off, l.todo, l.cursor)
        /\ CarriesOn(text \o chunk, off + l.cursor, chunk, Len(chunk))
    BY <1>2, <1>3, <1>4, <1>5, <1>9, <2>1, AlikeGrows
  <2> DEFINE t == text \o chunk
  <2>3. /\ AlikeAt(t, off, l.line, l.start) /\ PointedAt(t, off, l.todo, l.cursor)
        /\ CarriesOn(t, off + l.cursor, chunk, n)
    BY <1>2, <2>2
  <2> HIDE DEF t, off
  <2>4. /\ AlikeAt(t, off, fed.line, fed.start) /\ PointedAt(t, off, fed.todo, fed.cursor)
        /\ fed.cursor = l.cursor + n
    BY <1>2, <1>3, <1>5, <2>2, <2>3, FeedAlike
  <2> QED  BY <2>4 DEF t
<1> HIDE DEF fed
<1>11. /\ clean \in Manager /\ Ringing(clean) /\ clean.queue = l.queue /\ ~clean.copied
       /\ clean.line = fed.line /\ clean.cursor = fed.cursor /\ clean.start = fed.start
       /\ clean.todo = fed.todo /\ clean.mixed = mixed
  <2>0. mixed \in BOOLEAN
    BY <1>3
  <2> HIDE DEF l, mixed
  <2>1. fed \in Manager /\ fed.queue = l.queue /\ ~fed.copied
        /\ fed.ring = l.ring /\ fed.written = l.written /\ fed.stream = l.stream
    BY <1>5, <1>8 DEF Fed
  <2>2. clean \in Manager
    BY <2>0, <2>1 DEF Manager
  <2>3. /\ clean.queue = l.queue /\ ~clean.copied
        /\ clean.ring = l.ring /\ clean.written = l.written /\ clean.stream = l.stream
        /\ clean.line = fed.line /\ clean.cursor = fed.cursor /\ clean.start = fed.start
        /\ clean.todo = fed.todo /\ clean.mixed = mixed
    BY <2>0, <2>1 DEF Manager
  <2> HIDE DEF clean
  <2> QED  BY <1>5, <2>2, <2>3 DEF Ringing
<1> HIDE DEF clean
<1>12. /\ known \in Manager /\ message \in Messages /\ known.queue = Append(l.queue, message)
       /\ known.line = fed.line /\ known.cursor = fed.cursor /\ known.start = fed.start
       /\ known.todo = fed.todo /\ ~known.copied /\ known.mixed = mixed
  <2>1. known.mixed = clean.mixed
    BY <1>11 DEF Remember, Manager
  <2> HIDE DEF l, message, mixed
  <2> QED  BY <1>2, <1>11, <2>1, RememberStays DEF message
<1> HIDE DEF known, message
<1>13. /\ new.queue = Append(l.queue, message)
       /\ new.line = fed.line /\ new.cursor = fed.cursor /\ new.start = fed.start
       /\ new.todo = fed.todo /\ ~new.copied /\ new.mixed = mixed
  <2> HIDE DEF l, mixed
  <2> QED  BY <1>12 DEF Manager
<1>14. /\ other.queue = lm[o].queue /\ other.todo = <<>> /\ ~other.copied
       /\ other.mixed \/ other.line = <<>>
       /\ Pending(other) = <<>>
  <2>1. /\ lm[o] \in Manager /\ lm[o].todo = <<>> /\ ~lm[o].copied /\ Pending(lm[o]) = <<>>
    BY <1>4, <1>6, NotOwner
  <2> DEFINE x == lm[o].mixed \/ lm[o].line # <<>>
  <2>2. other = [lm[o] EXCEPT !.mixed = x]
    BY <2>1 DEF Manager
  <2>3. /\ other.queue = lm[o].queue /\ other.todo = lm[o].todo /\ other.copied = lm[o].copied
        /\ other.line = lm[o].line /\ other.mixed = x
    BY <2>1, <2>2 DEF Manager
  <2> HIDE DEF other
  <2>4. Pending(other) = Pending(lm[o])
    BY <2>3, PendingSame
  <2> QED  BY <2>1, <2>3, <2>4
<1> HIDE DEF new, other
<1>15. lm' \in [Managers -> {new, other}] /\ lm'[m] = new /\ lm'[o] = other
  <2> HIDE DEF o
  <2> QED  BY <1>3, <1>6, <1>7
<1> HIDE DEF o
<1>16. CutOK(disk', new)
  <2>1. Pending(new) = Pending(l) \o chunk
    <3>1. l.queue \in Seq(Messages) /\ message.bytes = chunk
      BY <1>3 DEF Manager, message
    <3> HIDE DEF l
    <3> QED  BY <1>12, <1>13, <3>1, PendingFacts
  <2>2. Following(disk', new) = text \o chunk
    <3>1. Assoc(disk.cur, Pending(l), chunk)
      BY <1>2, <1>3, ConcatAssoc
    <3> QED  BY <1>4, <2>1, <3>1 DEF Following, Assoc
  <2>3. ~mixed => Len(text \o chunk) - new.cursor = off
    <3> SUFFICES ASSUME ~mixed PROVE Len(text \o chunk) - new.cursor = off
      OBVIOUS
    <3>1. new.cursor = l.cursor + n /\ l.cursor \in Nat
      BY <1>3, <1>10, <1>13 DEF Manager
    <3> DEFINE a == Len(text)
               c == l.cursor
    <3>2. a \in Nat /\ c \in Nat /\ Len(text \o chunk) = a + n /\ new.cursor = c + n
      BY <1>9, <3>1
    <3> HIDE DEF a, c, text
    <3>3. (a + n) - (c + n) = a - c
      BY <3>2
    <3> QED  BY <3>2, <3>3 DEF a, c
  <2> HIDE DEF mixed, text, off
  <2> QED  BY <1>10, <1>13, <2>2, <2>3 DEF CutOK
<1>17. CutOK(disk', other)
  BY <1>14, CutIdle
<1>18. Undisturbed(lm')
  <2> SUFFICES ASSUME NEW a \in Managers, NEW b \in Managers, a # b
               PROVE  Pending(lm'[a]) = <<>> \/ lm'[b].mixed \/ lm'[b].line = <<>>
    BY DEF Undisturbed
  <2>1. a = o \/ b = o
    BY <1>6
  <2> QED  BY <1>14, <1>15, <2>1
<1> QED
  BY <1>6, <1>15, <1>16, <1>17, <1>18 DEF CutInv

\* The writer thread moves a message from the queue to the file.
LEMMA WriterCuts ==
    ASSUME LogAssumption, LogInv, CutInv, NEW m \in Managers, Writer(m)
    PROVE  CutInv'
<1> DEFINE l == lm[m]
           x == Head(l.queue)
           rest == Tail(l.queue)
           new == [l EXCEPT !.queue = rest, !.handle = disk.file]
           cur == disk.cur \o x.bytes
<1>1. /\ disk \in Stores /\ disk.cur \in Seq(Pieces) /\ disk.file \in Nat
      /\ l \in Manager /\ ManagerOK(disk, lm, owner, m) /\ CutOK(disk, l)
      /\ lm \in [Managers -> Manager]
  BY InvFacts DEF CutInv
<1>2. l.queue # <<>> /\ disk' = [disk EXCEPT !.cur = cur]
  BY <1>1 DEF Writer, Stores
<1>3. lm' = [lm EXCEPT ![m] = new]
  BY <1>1 DEF Writer, Taken
<1>4. owner = m
  BY <1>1, <1>2 DEF ManagerOK
<1>5. /\ l.queue \in Seq(Messages) /\ x \in Messages /\ rest \in Seq(Messages)
  <2>1. l.queue \in Seq(Messages)
    BY <1>1 DEF Manager
  <2> QED  BY <1>2, <2>1
<1>6. /\ x.bytes \in Seq(Pieces) /\ disk'.cur = cur
  <2> HIDE DEF x
  <2> QED  BY <1>1, <1>2, <1>5 DEF Messages, Stores
<1>7. Pending(l) = x.bytes \o Pending(new) /\ Pending(new) \in Seq(Pieces)
  <2> HIDE DEF rest
  <2>1. new.queue = rest
    BY <1>1 DEF Manager
  <2> HIDE DEF l, new
  <2>2. Pending(l) = x.bytes \o Pending(new)
    BY <1>2, <1>5, <2>1, PendingFacts DEF rest
  <2>3. Pending(new) \in Seq(Pieces)
    BY <1>5, <2>1, PendingFacts
  <2> QED  BY <2>2, <2>3
<1>8. /\ new.line = l.line /\ new.cursor = l.cursor /\ new.start = l.start /\ new.todo = l.todo
      /\ new.forced = l.forced /\ new.mixed = l.mixed /\ new.copied = l.copied
      /\ new.suffix = l.suffix
  <2> HIDE DEF l, rest
  <2> QED  BY <1>1 DEF Manager
<1>9. Pending(l) = <<>> => x.bytes = <<>> /\ Pending(new) = <<>>
  <2> DEFINE a == x.bytes
             b == Pending(new)
             ab == a \o b
  <2>1. a \in Seq(Pieces) /\ b \in Seq(Pieces) /\ Pending(l) = ab
    BY <1>6, <1>7
  <2> HIDE DEF a, b
  <2>2. ab \in Seq(Pieces) /\ Len(ab) = Len(a) + Len(b)
    BY <2>1, ConcatAt
  <2> HIDE DEF ab, l
  <2>3. ASSUME Pending(l) = <<>> PROVE a = <<>> /\ b = <<>>
    <3>1. Len(ab) = 0
      BY <2>1, <2>3
    <3>2. Len(a) = 0 /\ Len(b) = 0
      <4> DEFINE la == Len(a)
                 lb == Len(b)
      <4>0. Len(a) \in Nat
        BY <2>1
      <4>00. Len(b) \in Nat
        BY <2>1
      <4>1. la \in Nat /\ lb \in Nat /\ la + lb = 0
        BY <2>2, <3>1, <4>0, <4>00
      <4> HIDE DEF la, lb
      <4>2. la = 0 /\ lb = 0
        BY <4>1
      <4> QED  BY <4>2 DEF la, lb
    <3> QED  BY <2>1, <3>2
  <2> QED  BY <2>3 DEF a, b
<1> HIDE DEF x, rest, new
<1>10. CutOK(disk', new)
  <2>1. Following(disk', new) = Following(disk, l)
    <3>1. Assoc(disk.cur, x.bytes, Pending(new))
      BY <1>1, <1>6, <1>7, ConcatAssoc
    <3> QED  BY <1>6, <1>7, <3>1 DEF Following, Assoc
  <2> HIDE DEF l
  <2> QED  BY <1>1, <1>8, <2>1, CutSame
<1>11. ASSUME NEW k \in Managers, k # m
       PROVE  CutOK(disk', lm'[k])
  <2>1. lm'[k] = lm[k]
    BY <1>1, <1>3, <1>11
  <2>2. /\ Pending(lm[k]) = <<>> /\ lm[k].todo = <<>> /\ ~lm[k].copied
    BY <1>4, <1>11, NotOwner
  <2>3. CASE lm[k].mixed \/ lm[k].line = <<>>
    BY <2>1, <2>2, <2>3, CutIdle
  <2>4. CASE ~(lm[k].mixed \/ lm[k].line = <<>>)
    <3>1. Pending(l) = <<>>
      BY <1>11, <2>4 DEF CutInv, Undisturbed
    <3>2. disk'.cur = disk.cur
      BY <1>1, <1>6, <1>9, <3>1, ConcatEmpty
    <3>3. Following(disk', lm'[k]) = Following(disk, lm[k])
      BY <2>1, <3>2 DEF Following
    <3> QED  BY <2>1, <3>3, CutSame DEF CutInv
  <2> QED  BY <2>3, <2>4
<1>12. Undisturbed(lm')
  BY <1>3, <1>8, <1>9, UndisturbedKept DEF CutInv
<1>13. lm'[m] = new
  BY <1>1, <1>3
<1> QED
  BY <1>10, <1>11, <1>12, <1>13 DEF CutInv

\* A step of one manager that leaves current and the queue.
LEMMA OneManagerCuts ==
    ASSUME LogInv, CutInv, NEW m \in Managers, NEW new, lm' = [lm EXCEPT ![m] = new],
           disk'.cur = disk.cur, CutOK(disk', new), Pending(new) = Pending(lm[m]),
           new.line = lm[m].line /\ new.mixed = lm[m].mixed
    PROVE  CutInv'
<1>1. lm'[m] = new /\ \A k \in Managers : k # m => lm'[k] = lm[k]
  BY InvFacts
<1>2. \A k \in Managers : k # m => CutOK(disk', lm'[k])
  <2> SUFFICES ASSUME NEW k \in Managers, k # m PROVE CutOK(disk', lm'[k])
    OBVIOUS
  <2>1. lm'[k] = lm[k] /\ CutOK(disk, lm[k])
    BY <1>1 DEF CutInv
  <2>2. Following(disk', lm'[k]) = Following(disk, lm[k])
    BY <2>1 DEF Following
  <2> QED  BY <2>1, <2>2, CutSame
<1>3. Undisturbed(lm')
  BY UndisturbedKept DEF CutInv
<1> QED
  BY <1>1, <1>2, <1>3 DEF CutInv

\* A tool that asks for a boundary (mark_boot_start, expect_boot_log) keeps the
\* invariant.
LEMMA BoundaryCuts ==
    ASSUME LogAssumption, LogInv, CutInv, MarkBootStart \/ ExpectBootLog
    PROVE  CutInv'
<1> DEFINE m == "server"
           l == lm[m]
           todo == <<l.cursor>>
           new == IF MarkBootStart
                  THEN [l EXCEPT !.todo = todo, !.forced = TRUE, !.phase = "unknown"]
                  ELSE [l EXCEPT !.phase = "unknown"]
<1>1. /\ m \in Managers /\ l \in Manager /\ ManagerOK(disk, lm, owner, m) /\ CutOK(disk, l)
      /\ lm \in [Managers -> Manager]
  BY InvFacts DEF Managers, CutInv
<1>2. /\ l.todo = <<>> /\ lm' = [lm EXCEPT ![m] = new] /\ UNCHANGED disk
  <2>1. CASE MarkBootStart
    <3>1. l.todo = <<>> /\ UNCHANGED disk
      BY <2>1 DEF MarkBootStart, Reads, AtRest
    <3>2. lm' = [lm EXCEPT ![m].todo = <<l.cursor>>, ![m].forced = TRUE, ![m].phase = "unknown"]
      BY <2>1 DEF MarkBootStart
    <3>3. lm' = [lm EXCEPT ![m] = [l EXCEPT !.todo = todo, !.forced = TRUE, !.phase = "unknown"]]
      BY <1>1, <3>2
    <3> QED  BY <2>1, <3>1, <3>3
  <2>2. CASE ~MarkBootStart
    BY <1>1, <2>2 DEF ExpectBootLog, Reads, AtRest
  <2> QED  BY <2>1, <2>2
<1>3. ~l.copied
  BY <1>1, <1>2 DEF ManagerOK, Copied
<1> HIDE DEF todo
<1>4. /\ new.queue = l.queue /\ new.copied = l.copied
      /\ new.line = l.line /\ new.cursor = l.cursor /\ new.start = l.start
      /\ new.mixed = l.mixed
      /\ new.forced \/ (new.todo = l.todo /\ new.forced = l.forced)
  <2> HIDE DEF l
  <2> QED  BY <1>1 DEF Manager
<1> HIDE DEF new
<1>5. Following(disk', new) = Following(disk, l) /\ Pending(new) = Pending(l)
  BY <1>2, <1>4, PendingSame DEF Following
<1>6. CutOK(disk', new)
  <2> HIDE DEF l
  <2> QED  BY <1>1, <1>3, <1>4, <1>5 DEF CutOK
<1> QED
  BY <1>1, <1>2, <1>4, <1>5, <1>6, OneManagerCuts

\* The copy of the archived part keeps it: the archive ends before the piece of
\* a first stage.
LEMMA CopyCuts ==
    ASSUME LogAssumption, LogInv, CutInv, NEW m \in Managers, Copy(m)
    PROVE  CutInv'
<1> DEFINE l == lm[m]
           at == Offset(m)
           post == SubSeq(disk.cur, at + 1, Len(disk.cur))
           x == Head(l.todo)
<1>1. /\ disk \in Stores /\ disk.cur \in Seq(Pieces)
      /\ l \in Manager /\ ManagerOK(disk, lm, owner, m) /\ CutOK(disk, l)
      /\ lm \in [Managers -> Manager]
  BY InvFacts DEF CutInv
<1>2. l.queue = <<>> /\ l.todo # <<>> /\ ~l.copied
  BY DEF Copy, Flushed
<1>3. Following(disk, l) = disk.cur
  <2>1. l.queue \in Seq(Messages)
    BY <1>1 DEF Manager
  <2>2. Pending(l) = <<>>
    BY <1>2, <2>1, PendingFacts
  <2> QED  BY <1>1, <2>2, ConcatEmpty DEF Following
<1>4. l.todo \in Seq(Int) /\ l.cursor \in Nat /\ Len(disk.cur) \in Nat /\ Detecting(l)
  BY <1>1 DEF Manager, ManagerOK
<1>5. x = l.todo[1] /\ 1 \in 1 .. Len(l.todo) /\ x \in Int /\ x <= l.cursor
  <2>1. x = l.todo[1] /\ 1 \in 1 .. Len(l.todo) /\ x \in Int
    BY <1>2, <1>4
  <2> QED  BY <1>4, <2>1 DEF Detecting
<1> HIDE DEF x
<1>6. at = Len(disk.cur) - (l.cursor - x)
  BY DEF Offset, x
<1> HIDE DEF at
<1>7. CASE /\ at > 0
           /\ \E a : disk' = [disk EXCEPT !.archives = a]
           /\ lm' = [lm EXCEPT ![m].copied = TRUE, ![m].suffix = post]
  <2> DEFINE new == [l EXCEPT !.copied = TRUE, !.suffix = post]
  <2>1. lm' = [lm EXCEPT ![m] = new] /\ disk'.cur = disk.cur
    BY <1>1, <1>7 DEF Stores
  <2> HIDE DEF post
  <2>2. /\ new.queue = l.queue /\ new.copied /\ new.suffix = post
        /\ new.line = l.line /\ new.cursor = l.cursor /\ new.start = l.start
        /\ new.todo = l.todo /\ new.mixed = l.mixed /\ new.forced = l.forced
    <3> HIDE DEF l
    <3> QED  BY <1>1 DEF Manager
  <2> HIDE DEF new
  <2>3. Following(disk', new) = Following(disk, l) /\ Pending(new) = Pending(l)
    BY <2>1, <2>2, PendingSame DEF Following
  <2>4. ASSUME ~l.mixed, ~l.forced
        PROVE  post # <<>> /\ Head(post) \in {"ddr", "spl"}
    <3> DEFINE c == disk.cur
               off == Len(c) - l.cursor
    <3>1. PointedAt(c, off, l.todo, l.cursor)
      BY <1>1, <1>3, <2>4 DEF CutOK
    <3>2. x < l.cursor /\ (off + x + 1 >= 1 => c[off + x + 1] \in {"ddr", "spl"})
      BY <1>5, <3>1 DEF PointedAt
    <3> DEFINE n == Len(c)
               z == l.cursor
    <3>3. n \in Nat /\ z \in Nat /\ at = n - (z - x) /\ off = n - z /\ x < z /\ x \in Int /\ at > 0
      BY <1>4, <1>5, <1>6, <1>7, <3>2
    <3> HIDE DEF n, z, off
    <3>4. at \in 1 .. n - 1 /\ off + x + 1 = at + 1
      BY <3>3
    <3>5. c[at + 1] \in {"ddr", "spl"}
      BY <3>2, <3>3, <3>4
    <3>6. c \in Seq(Pieces) /\ post = SubSeq(c, at + 1, n)
      BY <1>1 DEF post, n
    <3> HIDE DEF c, post, l
    <3>7. n = Len(c)
      BY DEF n
    <3>8. post \in Seq(Pieces) /\ Len(post) = n - at /\ post[1] = c[at + 1]
      BY <3>4, <3>6, <3>7
    <3>9. Len(post) # 0 /\ n \in Nat
      BY <3>3, <3>4, <3>8
    <3>10. post # <<>> /\ Head(post) = post[1]
      BY <3>8, <3>9
    <3> QED  BY <3>5, <3>8, <3>10
  <2>5. CutOK(disk', new)
    <3> HIDE DEF l
    <3> QED  BY <1>1, <2>2, <2>3, <2>4 DEF CutOK
  <2> QED  BY <2>1, <2>2, <2>3, <2>5, OneManagerCuts
<1>8. CASE /\ UNCHANGED disk
           /\ lm' = [lm EXCEPT ![m].todo = Tail(@)]
  <2> DEFINE rest == Tail(l.todo)
             new == [l EXCEPT !.todo = rest]
  <2>1. lm' = [lm EXCEPT ![m] = new]
    BY <1>1, <1>8
  <2> HIDE DEF rest
  <2>2. /\ new.queue = l.queue /\ ~new.copied /\ new.todo = rest
        /\ new.line = l.line /\ new.cursor = l.cursor /\ new.start = l.start
        /\ new.mixed = l.mixed /\ new.forced = l.forced
    <3> HIDE DEF l
    <3> QED  BY <1>1, <1>2 DEF Manager
  <2> HIDE DEF new
  <2>3. Following(disk', new) = Following(disk, l) /\ Pending(new) = Pending(l)
    BY <1>8, <2>2, PendingSame DEF Following
  <2>4. ASSUME ~l.mixed, ~l.forced
        PROVE  PointedAt(Following(disk, l), Len(Following(disk, l)) - l.cursor, rest, l.cursor)
    <3> DEFINE off == Len(Following(disk, l)) - l.cursor
    <3>1. off \in Int
      BY <1>3, <1>4
    <3>2. PointedAt(Following(disk, l), off, l.todo, l.cursor)
      BY <1>1, <2>4 DEF CutOK
    <3> HIDE DEF off, l
    <3>3. PointedAt(Following(disk, l), off, Tail(l.todo), l.cursor)
      BY <1>2, <1>4, <3>1, <3>2, PointedTail
    <3> QED  BY <3>3 DEF off, rest, l
  <2>5. CutOK(disk', new)
    <3> HIDE DEF l
    <3> QED  BY <1>1, <2>2, <2>3, <2>4 DEF CutOK
  <2> QED  BY <1>8, <2>1, <2>2, <2>3, <2>5, OneManagerCuts
<1>9. CASE /\ at > 0
           /\ disk' = [disk EXCEPT !.archives =
                         Append(@, [bytes |-> SubSeq(disk.cur, 1, at), saved |-> FALSE])]
           /\ lm' = [lm EXCEPT ![m].copied = TRUE, ![m].suffix = post]
  BY <1>7, <1>9
<1> QED
  BY <1>8, <1>9 DEF Copy, at

\* A message without bytes.
LEMMA RotateEmpty ==
    /\ <<[what |-> "rotate", bytes |-> <<>>]>> \in Seq(Messages)
    /\ Pending([queue |-> <<[what |-> "rotate", bytes |-> <<>>]>>]) = <<>>
<1> DEFINE x == [what |-> "rotate", bytes |-> <<>>]
           rotate == <<x>>
           none == [queue |-> <<>>]
           one == [queue |-> rotate]
<1>1. <<>> \in Seq(Pieces)
  OBVIOUS
<1>2. x \in Messages /\ x.bytes = <<>> /\ rotate = Append(<<>>, x)
  BY <1>1 DEF Messages
<1>3. none.queue \in Seq(Messages) /\ none.queue = <<>> /\ one.queue = Append(none.queue, x)
  BY <1>2
<1>4. rotate \in Seq(Messages)
  BY <1>2
<1> HIDE DEF x, none, one, rotate
<1>5. Pending(none) = <<>> /\ Pending(one) = Pending(none) \o x.bytes
  BY <1>2, <1>3, PendingFacts
<1>6. Pending(one) = <<>>
  BY <1>1, <1>2, <1>5, ConcatEmpty
<1> QED
  BY <1>4, <1>6 DEF one, rotate, x

\* The rest takes the place of the current file: the boundaries that are left
\* move with it.
LEMMA ReplaceCurrentCuts ==
    ASSUME LogAssumption, LogInv, CutInv, NEW m \in Managers, ReplaceCurrent(m)
    PROVE  CutInv'
<1> DEFINE l == lm[m]
           a == Last(disk.archives)
           rest == Tail(l.todo)
<1>1. /\ disk \in Stores /\ disk.cur \in Seq(Pieces) /\ disk.archives \in Seq(Archives)
      /\ l \in Manager /\ ManagerOK(disk, lm, owner, m) /\ CutOK(disk, l)
      /\ lm \in [Managers -> Manager]
  BY InvFacts DEF CutInv
<1>2. l.copied /\ l.queue = <<>>
  BY DEF ReplaceCurrent, Flushed
<1>3. /\ owner = m /\ l.todo # <<>> /\ a.bytes \o l.suffix = disk.cur /\ Detecting(l)
      /\ disk.archives # <<>> /\ ~a.saved
  BY <1>1, <1>2 DEF ManagerOK, Copied
<1>4. a.bytes \in Seq(Pieces) /\ l.suffix \in Seq(Pieces) /\ l.todo \in Seq(Int) /\ l.cursor \in Nat
  <2>1. a \in Archives
    BY <1>1, <1>3, LastArchive
  <2> HIDE DEF a
  <2> QED  BY <1>1, <2>1 DEF Archives, Manager
<1>5. PICK q : /\ lm' = [lm EXCEPT ![m] = [Split(m) EXCEPT !.queue = q]]
               /\ Pending([queue |-> q]) = <<>>
               /\ disk'.cur = l.suffix \/ disk'.cur = disk.cur
  <2> DEFINE rotate == <<[what |-> "rotate", bytes |-> <<>>]>>
  <2>1. Pending([queue |-> <<>>]) = <<>>
    <3> DEFINE none == [queue |-> <<>>]
    <3>1. none.queue \in Seq(Messages) /\ none.queue = <<>>
      OBVIOUS
    <3> HIDE DEF none
    <3>2. Pending(none) = <<>>
      BY <3>1, PendingFacts
    <3> QED  BY <3>2 DEF none
  <2>2. Pending([queue |-> rotate]) = <<>>
    BY RotateEmpty
  <2>3. Split(m) = [Split(m) EXCEPT !.queue = <<>>]
    BY <1>1, <1>2 DEF Split, Manager
  <2>4. [Replaced EXCEPT !.cur = l.suffix].cur = l.suffix
    BY <1>1 DEF Replaced, Stores
  <2>6. Cleanup([Replaced EXCEPT !.cur = l.suffix]).cur = l.suffix
    BY <1>1 DEF Replaced, Stores, Cleanup
  <2>7. [disk EXCEPT !.archives = Front(@)].cur = disk.cur
    BY <1>1 DEF Stores
  <2>8. \/ disk' = Cleanup([Replaced EXCEPT !.cur = l.suffix])
           /\ lm' = [lm EXCEPT ![m] = [Split(m) EXCEPT !.queue = rotate]]
        \/ disk' = [Replaced EXCEPT !.cur = l.suffix] /\ lm' = [lm EXCEPT ![m] = Split(m)]
        \/ disk' = [disk EXCEPT !.archives = Front(@)] /\ lm' = [lm EXCEPT ![m] = Split(m)]
    BY DEF ReplaceCurrent
  <2> HIDE DEF rotate, l
  <2> QED  BY <2>1, <2>2, <2>3, <2>4, <2>6, <2>7, <2>8
<1> DEFINE none == <<>>
           new == [l EXCEPT !.todo = rest, !.copied = FALSE, !.suffix = none, !.queue = q]
<1> HIDE DEF rest, none
<1>6. lm' = [lm EXCEPT ![m] = new]
  <2>1. [Split(m) EXCEPT !.queue = q] = new
    BY <1>1 DEF Split, Manager, rest, none
  <2> QED  BY <1>5, <2>1
<1>7. /\ new.queue = q /\ ~new.copied /\ new.todo = rest
      /\ new.line = l.line /\ new.cursor = l.cursor /\ new.start = l.start
      /\ new.mixed = l.mixed /\ new.forced = l.forced
  <2> HIDE DEF l
  <2> QED  BY <1>1 DEF Manager
<1> HIDE DEF new
<1>8. Pending(new) = <<>>
  BY <1>5, <1>7, PendingSame
<1>9. disk'.cur \in Seq(Pieces) /\ Following(disk', new) = disk'.cur
  BY <1>1, <1>4, <1>5, <1>8, ConcatEmpty DEF Following
<1>10. Following(disk, l) = disk.cur
  <2>1. l.queue \in Seq(Messages)
    BY <1>1 DEF Manager
  <2>2. Pending(l) = <<>>
    BY <1>2, <2>1, PendingFacts
  <2> QED  BY <1>1, <2>2, ConcatEmpty DEF Following
<1>11. ASSUME NEW k \in Manager, Detecting(k),
              AlikeAt(disk.cur, Len(disk.cur) - k.cursor, k.line, k.start)
       PROVE  AlikeAt(disk'.cur, Len(disk'.cur) - k.cursor, k.line, k.start)
  <2>1. CASE disk'.cur = disk.cur
    BY <1>11, <2>1
  <2>2. CASE disk'.cur = l.suffix
    <3>1. Joins(a.bytes, l.suffix, disk.cur)
      BY <1>3 DEF Joins
    <3> HIDE DEF a, l
    <3> QED  BY <1>4, <1>11, <2>2, <3>1, CutBehind
  <2> QED  BY <1>5, <2>1, <2>2
<1>12. CutOK(disk', new)
  <2>1. ~l.mixed => AlikeAt(disk'.cur, Len(disk'.cur) - l.cursor, l.line, l.start)
    BY <1>1, <1>3, <1>10, <1>11 DEF CutOK
  <2>2. ASSUME ~l.mixed, ~l.forced
        PROVE  PointedAt(disk'.cur, Len(disk'.cur) - l.cursor, rest, l.cursor)
    <3>1. PointedAt(disk.cur, Len(disk.cur) - l.cursor, l.todo, l.cursor)
      BY <1>1, <1>10, <2>2 DEF CutOK
    <3>2. PointedAt(disk'.cur, Len(disk'.cur) - l.cursor, l.todo, l.cursor)
      <4>1. CASE disk'.cur = disk.cur
        BY <3>1, <4>1
      <4>2. CASE disk'.cur = l.suffix
        <5>1. Joins(a.bytes, l.suffix, disk.cur)
          BY <1>3 DEF Joins
        <5> HIDE DEF a, l
        <5> QED  BY <1>4, <3>1, <4>2, <5>1, PointedBehind
      <4> QED  BY <1>5, <4>1, <4>2
    <3> DEFINE off == Len(disk'.cur) - l.cursor
    <3>3. off \in Int
      BY <1>4, <1>9
    <3> HIDE DEF off, l
    <3>4. PointedAt(disk'.cur, off, Tail(l.todo), l.cursor)
      BY <1>3, <1>4, <3>2, <3>3, PointedTail DEF off
    <3> QED  BY <3>4 DEF off, rest, l
  <2> HIDE DEF l
  <2> QED  BY <1>7, <1>9, <2>1, <2>2 DEF CutOK
<1>13. ASSUME NEW k \in Managers, k # m
       PROVE  CutOK(disk', lm'[k])
  <2>1. lm'[k] = lm[k] /\ CutOK(disk, lm[k])
    BY <1>1, <1>6, <1>13 DEF CutInv
  <2>2. /\ lm[k] \in Manager /\ Detecting(lm[k]) /\ Pending(lm[k]) = <<>> /\ lm[k].todo = <<>>
        /\ ~lm[k].copied /\ Following(disk, lm[k]) = disk.cur
    BY <1>3, <1>13, NotOwner
  <2>3. Following(disk', lm[k]) = disk'.cur
    BY <1>9, <2>2, ConcatEmpty DEF Following
  <2>4. ~lm[k].mixed => AlikeAt(disk'.cur, Len(disk'.cur) - lm[k].cursor, lm[k].line, lm[k].start)
    BY <1>11, <2>1, <2>2 DEF CutOK
  <2> QED  BY <2>1, <2>2, <2>3, <2>4, PointedNothing DEF CutOK
<1>14. Undisturbed(lm')
  BY <1>6, <1>7, <1>8, UndisturbedKept DEF CutInv
<1>15. lm'[m] = new
  BY <1>1, <1>6
<1> QED
  BY <1>12, <1>13, <1>14, <1>15 DEF CutInv

\* A process that starts, ends, dies or goes on.
LEMMA RestartCuts ==
    ASSUME LogAssumption, LogInv, CutInv, UNCHANGED disk, NEW m \in Managers,
           NEW new \in {NewManager, NoManager, lm[m]}, lm' = [lm EXCEPT ![m] = new]
    PROVE  CutInv'
<1>1. lm'[m] = new /\ \A k \in Managers : k # m => lm'[k] = lm[k]
  BY InvFacts
<1>2. \/ new.line = <<>> /\ new.todo = <<>> /\ ~new.copied /\ Pending(new) = <<>>
      \/ new = lm[m]
  <2>1. NewManager.line = <<>> /\ NoManager.line = <<>>
    BY DEF NewManager, NoManager
  <2> QED  BY <2>1, Fresh
<1>3. \A k \in Managers : CutOK(disk, lm'[k])
  BY <1>1, <1>2, CutIdle DEF CutInv
<1>4. Undisturbed(lm')
  BY <1>2, UndisturbedKept DEF CutInv
<1> QED
  BY <1>3, <1>4 DEF CutInv

\* Every step of the logs keeps the invariant of the cuts.
LEMMA CutInvKept ==
    ASSUME LogAssumption, LogInv, CutInv, [LogNext]_logVars
    PROVE  CutInv'
<1>1. ASSUME NEW m \in Managers, NEW chunk \in Chunks, WriteSerial(m, chunk) PROVE CutInv'
  BY <1>1, WriteSerialCuts
<1>2. ASSUME NEW m \in Managers, Writer(m) PROVE CutInv'
  BY <1>2, WriterCuts
<1>3. ASSUME NEW m \in Managers, Copy(m) PROVE CutInv'
  BY <1>3, CopyCuts
<1>4. ASSUME NEW m \in Managers, ReplaceCurrent(m) PROVE CutInv'
  BY <1>4, ReplaceCurrentCuts
<1>5. ASSUME NEW m \in Managers, Dies(m) PROVE CutInv'
  BY <1>5, RestartCuts DEF Dies
<1>6. CASE MarkBootStart \/ ExpectBootLog
  BY <1>6, BoundaryCuts
<1>7. CASE UNCHANGED <<disk, lm>>
  BY <1>7 DEF CutInv
<1>8. CASE Yield \/ PollLogs \/ PollSince \/ UNCHANGED logVars
  BY <1>7, <1>8 DEF Yield, PollLogs, PollSince, PollBy, logVars
<1>9. CASE Resume \/ StartSession \/ EndSession
  <2> DEFINE m == IF Resume THEN "server" ELSE "dutabo"
             new == IF Resume THEN (IF lm["server"].up THEN lm["server"] ELSE NewManager)
                    ELSE IF StartSession THEN NewManager ELSE NoManager
  <2>1. m \in Managers /\ new \in {NewManager, NoManager, lm[m]} /\ UNCHANGED disk
    BY <1>9 DEF Managers, Resume, StartSession, EndSession
  <2>2. lm' = [lm EXCEPT ![m] = new]
    <3>1. CASE Resume
      BY <3>1, InvFacts DEF Resume, Managers
    <3>2. CASE ~Resume
      BY <1>9, <3>2 DEF StartSession, EndSession
    <3> QED  BY <3>1, <3>2
  <2> HIDE DEF m, new
  <2> QED  BY <2>1, <2>2, RestartCuts
<1> QED
  BY <1>1, <1>2, <1>3, <1>4, <1>5, <1>6, <1>8, <1>9 DEF LogNext

\* It holds before any server has started.
LEMMA CutInvStarts ==
    ASSUME LogAssumption, LogInit
    PROVE  CutInv
<1>1. \A m \in Managers : lm[m] \in {NewManager, NoManager}
  BY DEF LogInit
<1>2. NewManager.line = <<>> /\ NoManager.line = <<>>
  BY DEF NewManager, NoManager
<1>3. \A m \in Managers : lm[m].line = <<>> /\ lm[m].todo = <<>> /\ ~lm[m].copied
  BY <1>1, <1>2, Fresh
<1> QED
  BY <1>3, CutIdle DEF CutInv, Undisturbed

\* The file changes with the next current only.
LEMMA FileChanges ==
    ASSUME LogInv, LogNext, disk'.file # disk.file
    PROVE  \E k \in Managers : ReplaceCurrent(k) /\ disk'.cur = lm[k].suffix
<1>1. disk \in Stores
  BY InvFacts
<1>2. PICK k \in Managers :
         \/ \E chunk \in Chunks : WriteSerial(k, chunk)
         \/ Writer(k) \/ Copy(k) \/ ReplaceCurrent(k) \/ Dies(k)
         \/ UNCHANGED disk
  BY DEF LogNext, MarkBootStart, ExpectBootLog, Yield, Resume, StartSession, EndSession,
         PollLogs, PollSince, PollBy, Managers
<1>3. ReplaceCurrent(k)
  <2>1. CASE Writer(k)
    <3>1. disk'.file = disk.file
      BY <1>1, <2>1 DEF Writer, Stores
    <3> QED  BY <3>1
  <2>2. CASE Copy(k)
    <3>1. disk'.file = disk.file
      BY <1>1, <2>2 DEF Copy, Stores
    <3> QED  BY <3>1
  <2> QED  BY <1>2, <2>1, <2>2 DEF WriteSerial, Dies
<1>4. disk' # [disk EXCEPT !.archives = Front(@)]
  BY <1>1 DEF Stores
<1>5. [Replaced EXCEPT !.cur = lm[k].suffix].cur = lm[k].suffix
  BY <1>1 DEF Replaced, Stores
<1>6. Cleanup([Replaced EXCEPT !.cur = lm[k].suffix]).cur = lm[k].suffix
  BY <1>1 DEF Replaced, Stores, Cleanup
<1>7. disk'.cur = lm[k].suffix
  BY <1>3, <1>4, <1>5, <1>6 DEF ReplaceCurrent
<1> QED
  BY <1>3, <1>7

\* A split that a firmware line asked for puts that line at the head of the new
\* file (mark_boot_start, split_current_at), however much was written,
\* queued or split between the detection of the boot and the split.
THEOREM CutsAreAtPrefixes == LogSpec => CutsAtPrefix
<1> DEFINE Cuts == (disk'.file # disk.file) =>
                     \A m \in Managers :
                       lm[m].copied /\ ~lm[m].forced /\ ~lm[m].mixed =>
                         Head(disk'.cur) \in {"ddr", "spl"}
<1> USE LogAssumption
<1>1. LogInit => LogInv /\ CutInv
  BY LogInvStarts, CutInvStarts
<1>2. LogInv /\ CutInv /\ [LogNext]_logVars => (LogInv /\ CutInv)'
  BY LogInvKept, LogStutters, CutInvKept
<1>3. LogInv /\ CutInv /\ [LogNext]_logVars => [Cuts]_logVars
  <2> SUFFICES ASSUME LogInv, CutInv, LogNext, disk'.file # disk.file, NEW m \in Managers,
                      lm[m].copied, ~lm[m].forced, ~lm[m].mixed
               PROVE  Head(disk'.cur) \in {"ddr", "spl"}
    OBVIOUS
  <2>1. PICK k \in Managers : ReplaceCurrent(k) /\ disk'.cur = lm[k].suffix
    BY FileChanges
  <2>2. k = m
    <3>1. lm[k].copied
      BY <2>1 DEF ReplaceCurrent
    <3> QED  BY <3>1, NotOwner
  <2>3. Head(lm[m].suffix) \in {"ddr", "spl"}
    BY DEF CutInv, CutOK
  <2> QED  BY <2>1, <2>2, <2>3
<1> QED
  BY <1>1, <1>2, <1>3, PTL DEF LogSpec, CutsAtPrefix
=============================================================================
