--------------------------- MODULE KlineEngineProofs ---------------------------
(***************************************************************************)
(* The candle cache: its types for all values of the constants; that it is *)
(* in order, final and without a hole as long as nothing fails, for all    *)
(* limits of seven candles or more, any number of minutes and any number   *)
(* of lost connections; and that no hole stays when one thing fails.       *)
(*                                                                         *)
(* The invariant (Whole) says that the cache is a line of minutes (Lined), *)
(* and follows a candle from the stream to its place.  Three things carry  *)
(* it.  The next update on the wire is of a minute the cache holds or of   *)
(* the next (Heads): kline_ws_loop does not read it before its own         *)
(* backfill is over.  A candle that is open behind a closed one is about   *)
(* to be closed by an update on the wire, or came after a first load that  *)
(* took the next minute before it was over (Holes).  The last closed       *)
(* candle is never far behind, as the gap detection runs every minute      *)
(* (Late): so a gap fits in one request, the buffer does not evict what    *)
(* is being filled, and this is where seven candles are needed.            *)
(*                                                                         *)
(* Once something has failed the cache need not be a line, and a full      *)
(* buffer evicts by place.  So the second invariant (Covered) follows the  *)
(* minutes nothing has seen to: the gap detection is about to fill such a  *)
(* minute or has still to look (Watched); and if the gap detection's own   *)
(* request is what failed, nothing else does any more, and the loop comes  *)
(* to the minute before it reads a later one (Ahead).  What has been seen  *)
(* to is in the cache (SeenTo), up to its end while nothing has failed     *)
(* (Spanned), or has been evicted.                                         *)
(*                                                                         *)
(* The first section proves induction for sets and what a function that is *)
(* defined by recursion is, as PaperTradingProofs does: the library's      *)
(* induction theorems have a parameter the provers cannot instantiate.     *)
(***************************************************************************)
EXTENDS KlineEngine, FiniteSetTheorems, WellFoundedInduction, TLAPS

-----------------------------------------------------------------------------
(* Induction over the rows *)

\* A set of naturals has a least element: the subsets of Nat that are finite are well-founded.
LEMMA LeastNat ==
  ASSUME NEW S \in SUBSET Nat, S # {}
  PROVE  \E m \in S : \A k \in S : m <= k
<1> DEFINE T == {0..m : m \in S}
           R == StrictSubsetOrdering(Nat)
           F == FiniteSubsetsOf(Nat)
<1>1. IsWellFoundedOn(R, F)
  BY FS_StrictSubsetOrderingWellFounded
<1>2. T \subseteq F /\ T # {}
  <2>1. \A m \in S : IsFiniteSet(0..m) /\ 0..m \subseteq Nat
    BY FS_Interval
  <2> QED BY <2>1 DEF FiniteSubsetsOf
<1>3. \E x \in T : \A y \in T : ~(<<y, x>> \in R)
  <2> HIDE DEF R, F, T
  <2> QED BY <1>1, <1>2, WFMin
<1>4. PICK x \in T : \A y \in T : ~(<<y, x>> \in R)
  BY <1>3
<1>5. PICK m \in S : x = 0..m
  BY <1>4
<1>6. ASSUME NEW k \in S, k < m PROVE FALSE
  <2>1. 0..k \subseteq 0..m /\ m \in 0..m /\ m \notin 0..k
    BY <1>6
  <2>2. <<0..k, 0..m>> \in R
    BY <2>1, <1>2 DEF StrictSubsetOrdering
  <2> QED BY <1>4, <1>5, <2>2
<1> QED BY <1>6

\* Induction, with a set in place of a predicate.
LEMMA SetInduction ==
  ASSUME NEW S, 0 \in S, \A n \in Nat : n \in S => n + 1 \in S
  PROVE  Nat \subseteq S
<1> SUFFICES ASSUME Nat \ S # {} PROVE FALSE
  OBVIOUS
<1>1. PICK m \in Nat \ S : \A k \in Nat \ S : m <= k
  BY LeastNat
<1>2. m # 0 /\ m - 1 \in Nat
  BY <1>1
<1>3. m - 1 \in S
  BY <1>1, <1>2
<1> QED BY <1>1, <1>2, <1>3

\* h begins with v, and each next value is a step from the one before.
Steps(step, N, V) == step \in [(1..N) \X V -> V]
Follows(h, N, v, step) == h[0] = v /\ \A i \in 1..N : h[i] = step[<<i, h[i - 1]>>]

\* A function that is defined by recursion up to N exists ...
LEMMA Recursion ==
  ASSUME NEW N \in Nat, NEW V, NEW v \in V, NEW step, Steps(step, N, V)
  PROVE  \E h \in [0..N -> V] : Follows(h, N, v, step)
<1> USE DEF Steps, Follows
<1> DEFINE Upto(n, h) == h[0] = v /\ \A i \in 1..n : h[i] = step[<<i, h[i - 1]>>]
           S == {n \in Nat : n <= N => \E h \in [0..n -> V] : Upto(n, h)}
<1>1. 0 \in S
  <2>1. [i \in 0..0 |-> v] \in [0..0 -> V] /\ Upto(0, [i \in 0..0 |-> v])
    OBVIOUS
  <2> QED BY <2>1
<1>2. ASSUME NEW n \in Nat, n \in S PROVE n + 1 \in S
  <2> SUFFICES ASSUME n + 1 <= N PROVE \E h \in [0..(n + 1) -> V] : Upto(n + 1, h)
    OBVIOUS
  <2>1. PICK h \in [0..n -> V] : Upto(n, h)
    BY <1>2
  <2> DEFINE g == [i \in 0..(n + 1) |-> IF i = n + 1 THEN step[<<n + 1, h[n]>>] ELSE h[i]]
  <2>2. step[<<n + 1, h[n]>>] \in V
    <3>1. h[n] \in V /\ n + 1 \in 1..N
      BY <2>1
    <3> QED BY <3>1
  <2>3. g \in [0..(n + 1) -> V]
    BY <2>1, <2>2
  <2>4. ASSUME NEW i \in 1..(n + 1) PROVE g[i] = step[<<i, g[i - 1]>>]
    <3>1. i - 1 \in 0..n /\ g[i - 1] = h[i - 1]
      OBVIOUS
    <3>2. CASE i = n + 1
      <4>1. g[i] = step[<<n + 1, h[n]>>] /\ i - 1 = n
        BY <3>2
      <4> QED BY <3>1, <3>2, <4>1
    <3>3. CASE i # n + 1
      <4>1. i \in 1..n /\ g[i] = h[i]
        BY <3>3
      <4> QED BY <2>1, <3>1, <4>1
    <3> QED BY <3>2, <3>3
  <2>5. g[0] = v
    BY <2>1
  <2> QED BY <2>3, <2>4, <2>5
<1>3. Nat \subseteq S
  <2> HIDE DEF S
  <2> QED BY <1>1, <1>2, SetInduction
<1> QED BY <1>3

Alike(g, h, N) == g[0] = h[0] /\ \A i \in 1..N : g[i - 1] = h[i - 1] => g[i] = h[i]

\* ... and there is one only.
LEMMA SameRecursion ==
  ASSUME NEW N \in Nat, NEW g, NEW h, Alike(g, h, N)
  PROVE  \A i \in 0..N : g[i] = h[i]
<1> USE DEF Alike
<1> DEFINE S == {n \in Nat : n <= N => g[n] = h[n]}
<1>1. 0 \in S
  OBVIOUS
<1>2. ASSUME NEW n \in Nat, n \in S PROVE n + 1 \in S
  <2>1. n + 1 <= N => n + 1 \in 1..N /\ (n + 1) - 1 = n /\ n <= N
    OBVIOUS
  <2> QED BY <1>2, <2>1
<1>3. Nat \subseteq S
  <2> HIDE DEF S
  <2> QED BY <1>1, <1>2, SetInduction
<1> QED BY <1>3

-----------------------------------------------------------------------------
(* The first and the last of some places *)

\* The least and the greatest of a set of places are among them.
LEMMA MinIs ==
  ASSUME NEW N \in Nat, NEW S \in SUBSET (1..N), S # {}
  PROVE  Min(S) \in S /\ \A k \in S : Min(S) <= k
<1>1. S \in SUBSET Nat
  OBVIOUS
<1>2. \E m \in S : \A k \in S : m <= k
  BY <1>1, LeastNat
<1> QED BY <1>2 DEF Min

\* A finite set of places has a greatest.
LEMMA MaxIs ==
  ASSUME NEW N \in Nat, NEW S \in SUBSET (1..N), S # {}
  PROVE  Max(S) \in S /\ \A k \in S : k <= Max(S)
<1> DEFINE T == {N - k : k \in S}
<1>1. T \in SUBSET Nat /\ T # {}
  <2>1. \A k \in S : k \in 1..N /\ N - k \in Nat
    OBVIOUS
  <2> QED BY <2>1
<1>2. \E m \in T : \A k \in T : m <= k
  <2> HIDE DEF T
  <2> QED BY <1>1, LeastNat
<1>3. PICK s \in S : \A k \in S : N - s <= N - k
  BY <1>2
<1>4. \A k \in S : k <= s
  BY <1>3
<1>5. \E m \in S : \A k \in S : k <= m
  BY <1>4
<1>6. \E m \in S : \A k \in S : m >= k
  BY <1>5
<1> QED BY <1>6 DEF Max

-----------------------------------------------------------------------------
(* Buffers *)

\* What a candle of a buffer is.
LEMMA Item ==
  ASSUME NEW buf \in Seq(Candle), NEW i \in DOMAIN buf
  PROVE  /\ i \in Nat /\ 1 <= i /\ i <= Len(buf) /\ Len(buf) \in Nat
         /\ buf[i] \in Candle /\ buf[i].t \in Nat /\ buf[i].t <= MaxMinute
         /\ buf[i].v \in Nat /\ buf[i].closed \in BOOLEAN
<1>1. buf[i] \in Candle /\ i \in 1..Len(buf) /\ Len(buf) \in Nat
  OBVIOUS
<1> QED BY <1>1, KlineAssumption DEF Candle, Minutes

Buffers == {buf \in Seq(Candle) : Len(buf) <= MaxRows}

\* The place of a minute's first candle, as PushOrUpdate and CloseCandle look it up.
PlaceOf(buf, t) == SelectInSeq(buf, LAMBDA d : d.t = t)

\* The place that is looked up is one of the minute, if there is one.
LEMMA PlaceOfIs ==
  ASSUME NEW buf \in Seq(Candle), NEW t
  PROVE  \/ PlaceOf(buf, t) = 0 /\ \A i \in DOMAIN buf : buf[i].t # t
         \/ PlaceOf(buf, t) \in DOMAIN buf /\ buf[PlaceOf(buf, t)].t = t
<1> DEFINE S == {i \in 1..Len(buf) : buf[i].t = t}
<1>1. PlaceOf(buf, t) = IF S # {} THEN Min(S) ELSE 0
  BY DEF PlaceOf, SelectInSeq
<1>2. S # {} => Min(S) \in S
  <2>1. Len(buf) \in Nat /\ S \in SUBSET (1..Len(buf))
    OBVIOUS
  <2> HIDE DEF S
  <2> QED BY <2>1, MinIs
<1> QED BY <1>1, <1>2

\* last_closed is the minute of the last closed candle by place.
LEMMA LastClosedIs ==
  ASSUME NEW buf \in Seq(Candle)
  PROVE  \/ LastClosed(buf) = -1 /\ \A i \in DOMAIN buf : ~buf[i].closed
         \/ \E i \in DOMAIN buf : /\ buf[i].closed /\ LastClosed(buf) = buf[i].t
                                  /\ \A j \in DOMAIN buf : buf[j].closed => j <= i
<1> DEFINE S == {i \in 1..Len(buf) : buf[i].closed}
<1>1. LastClosed(buf) = LET i == IF S # {} THEN Max(S) ELSE 0
                        IN  IF i = 0 THEN -1 ELSE buf[i].t
  BY DEF LastClosed, SelectLastInSeq
<1>2. S # {} => Max(S) \in S /\ \A k \in S : k <= Max(S)
  <2>1. Len(buf) \in Nat /\ S \in SUBSET (1..Len(buf))
    OBVIOUS
  <2> HIDE DEF S
  <2> QED BY <2>1, MaxIs
<1>3. CASE S = {}
  BY <1>1, <1>3
<1>4. CASE S # {}
  <2>1. PICK i : i = Max(S)
    OBVIOUS
  <2>2. i \in 1..Len(buf) /\ buf[i].closed /\ \A k \in S : k <= i
    BY <1>2, <1>4, <2>1
  <2>3. LastClosed(buf) = buf[i].t
    <3>1. i # 0
      BY <2>2
    <3> HIDE DEF S
    <3> QED BY <1>1, <1>4, <2>1, <3>1
  <2> QED BY <2>2, <2>3
<1> QED BY <1>3, <1>4

\* The last closed candle is a minute, or there is none.
LEMMA LastClosedInt ==
  ASSUME NEW buf \in Seq(Candle)
  PROVE  LastClosed(buf) \in Nat \cup {-1}
<1>1. \A i \in DOMAIN buf : buf[i].t \in Nat
  BY Item
<1> QED BY <1>1, LastClosedIs

\* What is kept of a buffer that has grown is the end of it.
LEMMA NewestIs ==
  ASSUME NEW buf \in Seq(Candle)
  PROVE  /\ Newest(buf) \in Buffers
         /\ Len(buf) <= MaxRows => Newest(buf) = buf
         /\ Len(buf) = MaxRows + 1 =>
              Len(Newest(buf)) = MaxRows /\ \A i \in 1..MaxRows : Newest(buf)[i] = buf[i + 1]
<1>0. MaxRows \in Nat /\ MaxRows >= 1 /\ Len(buf) \in Nat
  BY KlineAssumption
<1>1. CASE Len(buf) <= MaxRows
  <2>1. Newest(buf) = SubSeq(buf, 1, Len(buf))
    BY <1>0, <1>1 DEF Newest, MaxOf
  <2>2. SubSeq(buf, 1, Len(buf)) = buf
    OBVIOUS
  <2>3. Newest(buf) = buf
    BY <2>1, <2>2
  <2>4. buf \in Buffers
    BY <1>1 DEF Buffers
  <2> QED BY <1>0, <1>1, <2>3, <2>4
<1>2. CASE Len(buf) > MaxRows
  <2>1. Newest(buf) = SubSeq(buf, Len(buf) - MaxRows + 1, Len(buf))
    <3>1. ~(1 >= Len(buf) - MaxRows + 1)
      BY <1>0, <1>2
    <3> QED BY <3>1 DEF Newest, MaxOf
  <2>2. Len(Newest(buf)) = MaxRows
    BY <1>0, <1>2, <2>1
  <2>3. \A i \in 1..MaxRows : Newest(buf)[i] = buf[Len(buf) - MaxRows + i]
    BY <1>0, <1>2, <2>1
  <2>4. Newest(buf) \in Seq(Candle)
    BY <1>0, <1>2, <2>1
  <2>5. Len(buf) = MaxRows + 1 => \A i \in 1..MaxRows : Newest(buf)[i] = buf[i + 1]
    <3>1. Len(buf) = MaxRows + 1 => \A i \in 1..MaxRows : Len(buf) - MaxRows + i = i + 1
      BY <1>0
    <3> QED BY <2>3, <3>1
  <2>6. Newest(buf) \in Buffers
    BY <1>0, <2>2, <2>4 DEF Buffers
  <2>7. ~(Len(buf) <= MaxRows)
    BY <1>0, <1>2
  <2> QED BY <2>2, <2>5, <2>6, <2>7
<1> QED BY <1>0, <1>1, <1>2

\* A candle replaces one, or is appended.
LEMMA PushCases ==
  ASSUME NEW buf \in Seq(Candle), NEW c \in Candle
  PROVE  \/ \E i \in DOMAIN buf : buf[i].t = c.t /\ PushOrUpdate(buf, c) = [buf EXCEPT ![i] = c]
         \/ /\ PushOrUpdate(buf, c) = Newest(Append(buf, c))
            /\ buf # <<>> => /\ buf[Len(buf)].t # c.t
                             /\ c.t < buf[Len(buf)].t => \A i \in DOMAIN buf : buf[i].t # c.t
<1> DEFINE i == PlaceOf(buf, c.t)
<1>1. PushOrUpdate(buf, c) =
        IF buf # <<>> /\ Last(buf).t = c.t THEN [buf EXCEPT ![Len(buf)] = c]
        ELSE IF buf # <<>> /\ c.t < Last(buf).t /\ i # 0 THEN [buf EXCEPT ![i] = c]
        ELSE Newest(Append(buf, c))
  BY DEF PushOrUpdate, PlaceOf
<1>2. \/ i = 0 /\ \A k \in DOMAIN buf : buf[k].t # c.t
      \/ i \in DOMAIN buf /\ buf[i].t = c.t
  BY PlaceOfIs
<1>3. buf # <<>> => Last(buf) = buf[Len(buf)] /\ Len(buf) \in DOMAIN buf
  BY DEF Last
<1> HIDE DEF i
<1>4. CASE buf # <<>> /\ Last(buf).t = c.t
  BY <1>1, <1>3, <1>4
<1>5. CASE buf # <<>> /\ Last(buf).t # c.t /\ c.t < Last(buf).t /\ i # 0
  BY <1>1, <1>2, <1>5
<1>6. CASE ~(buf # <<>> /\ Last(buf).t = c.t) /\ ~(buf # <<>> /\ c.t < Last(buf).t /\ i # 0)
  <2>1. PushOrUpdate(buf, c) = Newest(Append(buf, c))
    BY <1>1, <1>6
  <2>2. buf # <<>> => buf[Len(buf)].t # c.t
    BY <1>3, <1>6
  <2>3. buf # <<>> /\ c.t < buf[Len(buf)].t => i = 0
    BY <1>3, <1>6
  <2>4. buf # <<>> /\ c.t < buf[Len(buf)].t => \A k \in DOMAIN buf : buf[k].t # c.t
    BY <1>2, <2>3
  <2> QED BY <2>1, <2>2, <2>4
<1> QED BY <1>4, <1>5, <1>6

\* A candle that goes in leaves the buffer within its limit.
LEMMA PushType ==
  ASSUME NEW buf \in Buffers, NEW c \in Candle
  PROVE  PushOrUpdate(buf, c) \in Buffers
<1>1. buf \in Seq(Candle) /\ Len(buf) <= MaxRows
  BY DEF Buffers
<1>2. CASE \E i \in DOMAIN buf : PushOrUpdate(buf, c) = [buf EXCEPT ![i] = c]
  BY <1>1, <1>2 DEF Buffers
<1>3. CASE PushOrUpdate(buf, c) = Newest(Append(buf, c))
  <2>1. Append(buf, c) \in Seq(Candle)
    BY <1>1
  <2> QED BY <1>3, <2>1, NewestIs
<1> QED BY <1>1, <1>2, <1>3, PushCases

\* It leaves a sequence of candles, whatever its length.
LEMMA PushSeq ==
  ASSUME NEW buf \in Seq(Candle), NEW c \in Candle
  PROVE  PushOrUpdate(buf, c) \in Seq(Candle)
<1>1. CASE \E i \in DOMAIN buf : PushOrUpdate(buf, c) = [buf EXCEPT ![i] = c]
  BY <1>1
<1>2. CASE PushOrUpdate(buf, c) = Newest(Append(buf, c))
  <2>1. Append(buf, c) \in Seq(Candle)
    OBVIOUS
  <2> QED BY <1>2, <2>1, NewestIs DEF Buffers
<1> QED BY <1>1, <1>2, PushCases

\* A candle is closed in place.
LEMMA CloseIs ==
  ASSUME NEW buf \in Seq(Candle), NEW t
  PROVE  \/ CloseCandle(buf, t) = buf /\ \A i \in DOMAIN buf : buf[i].t # t
         \/ \E i \in DOMAIN buf : buf[i].t = t /\ CloseCandle(buf, t) = [buf EXCEPT ![i].closed = TRUE]
<1> DEFINE i == PlaceOf(buf, t)
<1>1. CloseCandle(buf, t) = IF i = 0 THEN buf ELSE [buf EXCEPT ![i].closed = TRUE]
  BY DEF CloseCandle, PlaceOf
<1>2. \/ i = 0 /\ \A k \in DOMAIN buf : buf[k].t # t
      \/ i \in DOMAIN buf /\ buf[i].t = t
  BY PlaceOfIs
<1>3. i \in DOMAIN buf => i # 0
  OBVIOUS
<1> HIDE DEF i
<1> QED BY <1>1, <1>2, <1>3

\* Closing a candle leaves the buffer's length alone.
LEMMA CloseType ==
  ASSUME NEW buf \in Buffers, NEW t
  PROVE  CloseCandle(buf, t) \in Buffers
<1>1. buf \in Seq(Candle) /\ Len(buf) <= MaxRows
  BY DEF Buffers
<1>2. ASSUME NEW i \in DOMAIN buf PROVE [buf EXCEPT ![i].closed = TRUE] \in Buffers
  <2>1. [buf[i] EXCEPT !.closed = TRUE] \in Candle
    <3>1. buf[i] \in Candle
      BY <1>1
    <3> QED BY <3>1 DEF Candle
  <2> QED BY <1>1, <2>1 DEF Buffers
<1> QED BY <1>1, <1>2, CloseIs

\* A group begins in a minute, and a candle of it is one.
LEMMA AlignNat ==
  ASSUME NEW t \in Nat
  PROVE  Align(t) \in Nat /\ Align(t) <= t
<1>1. PICK g \in Nat \ {0} : g = Group
  BY KlineAssumption
<1>2. PICK q \in Nat : q = t \div g
  <2>1. t \div g \in Nat
    OBVIOUS
  <2> QED BY <2>1
<1>3. (t \div g) * g <= t /\ q * g \in Nat
  OBVIOUS
<1>4. q * g \in Nat /\ q * g <= t
  BY <1>2, <1>3, Zenon
<1>5. Align(t) = q * g
  BY <1>1, <1>2, Zenon DEF Align
<1> QED BY <1>4, <1>5

\* A one-minute candle makes a candle of the group.
LEMMA FromM1Type ==
  ASSUME NEW c \in Candle
  PROVE  FromM1(c) \in Candle
<1>1. c.t \in Nat /\ c.t <= MaxMinute /\ c.v \in Nat /\ c.closed \in BOOLEAN
  BY KlineAssumption DEF Candle, Minutes
<1>2. Align(c.t) \in Minutes
  BY <1>1, AlignNat, KlineAssumption DEF Minutes
<1>3. (IsLastOfGroup(c.t) /\ c.closed) \in BOOLEAN
  OBVIOUS
<1> QED BY <1>1, <1>2, <1>3 DEF FromM1, Candle

\* Joining a candle to a run of candles gives a run of candles.
LEMMA JoinedType ==
  ASSUME NEW acc \in Seq(Candle), NEW c \in Candle
  PROVE  Joined(acc, c) \in Seq(Candle)
<1>1. CASE acc # <<>> /\ Last(acc).t = Align(c.t)
  <2>1. Len(acc) \in DOMAIN acc
    BY <1>1
  <2>2. PICK d \in Candle : d = acc[Len(acc)]
    BY <2>1, Item
  <2>3. PICK e : e = [t |-> d.t, v |-> d.v + c.v, closed |-> d.closed \/ FromM1(c).closed]
    OBVIOUS
  <2>4. e \in Candle
    <3>1. d.v + c.v \in Nat /\ (d.closed \/ FromM1(c).closed) \in BOOLEAN
      BY DEF Candle
    <3> QED BY <2>3, <3>1 DEF Candle
  <2>5. Joined(acc, c) = [acc EXCEPT ![Len(acc)] = e]
    BY <1>1, <2>2, <2>3 DEF Joined
  <2> QED BY <2>1, <2>4, <2>5
<1>2. CASE ~(acc # <<>> /\ Last(acc).t = Align(c.t))
  BY <1>2, FromM1Type DEF Joined
<1> QED BY <1>1, <1>2

\* g is what step makes of v as long as it stays in V; step leads from S to S.
Traces(g, N, v, V, step) ==
  g[0] = v /\ \A i \in 1..N : g[i - 1] \in V => g[i] = step[<<i, g[i - 1]>>]
Steers(step, N, V, S) ==
  \A i \in 1..N, b \in V : <<i - 1, b>> \in S => <<i, step[<<i, b>>]>> \in S

\* What step preserves holds at the end.
LEMMA Along ==
  ASSUME NEW N \in Nat, NEW V, NEW v \in V, NEW step, Steps(step, N, V),
         NEW S, <<0, v>> \in S, Steers(step, N, V, S),
         NEW g, Traces(g, N, v, V, step)
  PROVE  g[N] \in V /\ <<N, g[N]>> \in S
<1> DEFINE T == {n \in Nat : n <= N => g[n] \in V /\ <<n, g[n]>> \in S}
<1>1. 0 \in T
  BY DEF Traces
<1>2. ASSUME NEW n \in Nat, n \in T PROVE n + 1 \in T
  <2> SUFFICES ASSUME n + 1 <= N PROVE g[n + 1] \in V /\ <<n + 1, g[n + 1]>> \in S
    OBVIOUS
  <2>1. PICK i \in 1..N : i = n + 1
    OBVIOUS
  <2>2. i - 1 = n /\ g[i - 1] \in V /\ <<i - 1, g[i - 1]>> \in S
    BY <1>2, <2>1
  <2>3. g[i] = step[<<i, g[i - 1]>>]
    BY <2>2 DEF Traces
  <2>4. step[<<i, g[i - 1]>>] \in V
    BY <2>2 DEF Steps
  <2>5. <<i, step[<<i, g[i - 1]>>]>> \in S
    BY <2>2 DEF Steers
  <2> QED BY <2>1, <2>3, <2>4, <2>5
<1>3. Nat \subseteq T
  <2> HIDE DEF T
  <2> QED BY <1>1, <1>2, SetInduction
<1> QED BY <1>3

\* One row of Filled, of Of and of GroupVolume.
Put(buf, c, minutes) == IF c.t \in minutes THEN PushOrUpdate(buf, c) ELSE buf
Keep(buf, c, minutes) == IF c.t \in minutes THEN Append(buf, c) ELSE buf
Plus(sum, c, k) == sum + (IF Align(c.t) = k THEN c.v ELSE 0)

\* A row more is of the type of the rows before.
LEMMA StepTypes ==
  ASSUME NEW c \in Candle, NEW minutes
  PROVE  /\ \A buf \in Seq(Candle) : Put(buf, c, minutes) \in Seq(Candle)
         /\ \A buf \in Seq(Candle) : Keep(buf, c, minutes) \in Seq(Candle)
         /\ \A sum \in Nat : Plus(sum, c, minutes) \in Nat
<1>1. c.v \in Nat
  BY DEF Candle
<1> QED BY <1>1, PushSeq DEF Put, Keep, Plus

\* What the rows preserve, one after the other, holds of the buffer they fill.
LEMMA FilledBy ==
  ASSUME NEW buf \in Seq(Candle), NEW rows \in Seq(Candle), NEW minutes,
         NEW S, <<0, buf>> \in S,
         \A i \in 1..Len(rows), b \in Seq(Candle) :
           <<i - 1, b>> \in S => <<i, Put(b, rows[i], minutes)>> \in S
  PROVE  Filled(buf, rows, minutes) \in Seq(Candle) /\ <<Len(rows), Filled(buf, rows, minutes)>> \in S
<1> DEFINE Def(g) == [i \in 0..Len(rows) |-> IF i = 0 THEN buf ELSE Put(g[i - 1], rows[i], minutes)]
           step == [p \in (1..Len(rows)) \X Seq(Candle) |-> Put(p[2], rows[p[1]], minutes)]
<1>1. PICK n \in Nat : n = Len(rows)
  OBVIOUS
<1>2. \A i \in 1..n, b \in Seq(Candle) : Put(b, rows[i], minutes) \in Seq(Candle)
  <2>1. \A i \in 1..n : rows[i] \in Candle
    BY <1>1
  <2> QED BY <2>1, StepTypes
<1>3. \A i \in 1..n, b \in Seq(Candle) : step[<<i, b>>] = Put(b, rows[i], minutes)
  BY <1>1
<1>4. Steps(step, n, Seq(Candle))
  <2>1. step = [p \in (1..n) \X Seq(Candle) |-> Put(p[2], rows[p[1]], minutes)]
    BY <1>1
  <2>2. \A p \in (1..n) \X Seq(Candle) : Put(p[2], rows[p[1]], minutes) \in Seq(Candle)
    <3>1. \A p \in (1..n) \X Seq(Candle) : p[1] \in 1..n /\ p[2] \in Seq(Candle)
      OBVIOUS
    <3> QED BY <1>2, <3>1
  <2> QED BY <2>1, <2>2 DEF Steps
<1> HIDE DEF step
<1>5. buf \in Seq(Candle)
  OBVIOUS
<1>6. PICK h \in [0..n -> Seq(Candle)] : Follows(h, n, buf, step)
  BY <1>4, <1>5, Recursion
<1>7. \A i \in 1..n : h[i] = Put(h[i - 1], rows[i], minutes)
  <2>1. \A i \in 1..n : i - 1 \in 0..n
    OBVIOUS
  <2>2. \A i \in 1..n : h[i] = step[<<i, h[i - 1]>>]
    BY <1>6 DEF Follows
  <2> QED BY <1>3, <2>1, <2>2
<1>8. h = Def(h)
  <2>1. h = [i \in 0..n |-> h[i]] /\ h[0] = buf
    BY <1>6 DEF Follows
  <2>2. \A i \in 0..n : h[i] = IF i = 0 THEN buf ELSE Put(h[i - 1], rows[i], minutes)
    <3>1. \A i \in 0..n : i = 0 \/ (i # 0 /\ i \in 1..n)
      OBVIOUS
    <3> QED BY <1>7, <2>1, <3>1
  <2> QED BY <1>1, <2>1, <2>2
<1>9. PICK g : g = CHOOSE x : x = Def(x)
  OBVIOUS
<1>10. Filled(buf, rows, minutes) = g[n]
  BY <1>1, <1>9 DEF Filled, Put
<1>11. g = Def(g)
  <2> HIDE DEF Def
  <2> QED BY <1>8, <1>9
<1>12. g[0] = buf /\ \A i \in 1..n : g[i] = Put(g[i - 1], rows[i], minutes)
  <2>1. \A i \in 0..n : g[i] = IF i = 0 THEN buf ELSE Put(g[i - 1], rows[i], minutes)
    BY <1>1, <1>11
  <2>2. 0 \in 0..n /\ \A i \in 1..n : i \in 0..n /\ i # 0
    OBVIOUS
  <2> QED BY <2>1, <2>2
<1>13. Steers(step, n, Seq(Candle), S)
  BY <1>1, <1>3 DEF Steers
<1>14. Traces(g, n, buf, Seq(Candle), step)
  BY <1>3, <1>12 DEF Traces
<1>15. g[n] \in Seq(Candle) /\ <<n, g[n]>> \in S
  BY <1>4, <1>5, <1>13, <1>14, Along
<1> QED BY <1>1, <1>10, <1>15

\* The same of the candles of some minutes, ...
LEMMA OfBy ==
  ASSUME NEW buf \in Seq(Candle), NEW minutes,
         NEW S, <<0, <<>>>> \in S,
         \A i \in 1..Len(buf), b \in Seq(Candle) :
           <<i - 1, b>> \in S => <<i, Keep(b, buf[i], minutes)>> \in S
  PROVE  Of(buf, minutes) \in Seq(Candle) /\ <<Len(buf), Of(buf, minutes)>> \in S
<1> DEFINE Def(g) == [i \in 0..Len(buf) |-> IF i = 0 THEN <<>> ELSE Keep(g[i - 1], buf[i], minutes)]
           step == [p \in (1..Len(buf)) \X Seq(Candle) |-> Keep(p[2], buf[p[1]], minutes)]
<1>1. PICK n \in Nat : n = Len(buf)
  OBVIOUS
<1>2. \A i \in 1..n, b \in Seq(Candle) : Keep(b, buf[i], minutes) \in Seq(Candle)
  <2>1. \A i \in 1..n : buf[i] \in Candle
    BY <1>1
  <2> QED BY <2>1, StepTypes
<1>3. \A i \in 1..n, b \in Seq(Candle) : step[<<i, b>>] = Keep(b, buf[i], minutes)
  BY <1>1
<1>4. Steps(step, n, Seq(Candle))
  <2>1. step = [p \in (1..n) \X Seq(Candle) |-> Keep(p[2], buf[p[1]], minutes)]
    BY <1>1
  <2>2. \A p \in (1..n) \X Seq(Candle) : Keep(p[2], buf[p[1]], minutes) \in Seq(Candle)
    <3>1. \A p \in (1..n) \X Seq(Candle) : p[1] \in 1..n /\ p[2] \in Seq(Candle)
      OBVIOUS
    <3> QED BY <1>2, <3>1
  <2> QED BY <2>1, <2>2 DEF Steps
<1> HIDE DEF step
<1>5. <<>> \in Seq(Candle)
  OBVIOUS
<1>6. PICK h \in [0..n -> Seq(Candle)] : Follows(h, n, <<>>, step)
  BY <1>4, <1>5, Recursion
<1>7. \A i \in 1..n : h[i] = Keep(h[i - 1], buf[i], minutes)
  <2>1. \A i \in 1..n : i - 1 \in 0..n
    OBVIOUS
  <2>2. \A i \in 1..n : h[i] = step[<<i, h[i - 1]>>]
    BY <1>6 DEF Follows
  <2> QED BY <1>3, <2>1, <2>2
<1>8. h = Def(h)
  <2>1. h = [i \in 0..n |-> h[i]] /\ h[0] = <<>>
    BY <1>6 DEF Follows
  <2>2. \A i \in 0..n : h[i] = IF i = 0 THEN <<>> ELSE Keep(h[i - 1], buf[i], minutes)
    <3>1. \A i \in 0..n : i = 0 \/ (i # 0 /\ i \in 1..n)
      OBVIOUS
    <3> QED BY <1>7, <2>1, <3>1
  <2> QED BY <1>1, <2>1, <2>2
<1>9. PICK g : g = CHOOSE x : x = Def(x)
  OBVIOUS
<1>10. Of(buf, minutes) = g[n]
  BY <1>1, <1>9 DEF Of, Keep
<1>11. g = Def(g)
  <2> HIDE DEF Def
  <2> QED BY <1>8, <1>9
<1>12. g[0] = <<>> /\ \A i \in 1..n : g[i] = Keep(g[i - 1], buf[i], minutes)
  <2>1. \A i \in 0..n : g[i] = IF i = 0 THEN <<>> ELSE Keep(g[i - 1], buf[i], minutes)
    BY <1>1, <1>11
  <2>2. 0 \in 0..n /\ \A i \in 1..n : i \in 0..n /\ i # 0
    OBVIOUS
  <2> QED BY <2>1, <2>2
<1>13. Steers(step, n, Seq(Candle), S)
  BY <1>1, <1>3 DEF Steers
<1>14. Traces(g, n, <<>>, Seq(Candle), step)
  BY <1>3, <1>12 DEF Traces
<1>15. g[n] \in Seq(Candle) /\ <<n, g[n]>> \in S
  BY <1>4, <1>5, <1>13, <1>14, Along
<1> QED BY <1>1, <1>10, <1>15

\* ... of the candles of the higher timeframe, ...
LEMMA AggregateBy ==
  ASSUME NEW buf \in Seq(Candle),
         NEW S, <<0, <<>>>> \in S,
         \A i \in 1..Len(buf), b \in Seq(Candle) :
           <<i - 1, b>> \in S => <<i, Joined(b, buf[i])>> \in S
  PROVE  Aggregate(buf) \in Seq(Candle) /\ <<Len(buf), Aggregate(buf)>> \in S
<1> DEFINE Def(g) == [i \in 0..Len(buf) |-> IF i = 0 THEN <<>> ELSE Joined(g[i - 1], buf[i])]
           step == [p \in (1..Len(buf)) \X Seq(Candle) |-> Joined(p[2], buf[p[1]])]
<1>1. PICK n \in Nat : n = Len(buf)
  OBVIOUS
<1>2. \A i \in 1..n, b \in Seq(Candle) : Joined(b, buf[i]) \in Seq(Candle)
  <2>1. \A i \in 1..n : buf[i] \in Candle
    BY <1>1
  <2> QED BY <2>1, JoinedType
<1>3. \A i \in 1..n, b \in Seq(Candle) : step[<<i, b>>] = Joined(b, buf[i])
  BY <1>1
<1>4. Steps(step, n, Seq(Candle))
  <2>1. step = [p \in (1..n) \X Seq(Candle) |-> Joined(p[2], buf[p[1]])]
    BY <1>1
  <2>2. \A p \in (1..n) \X Seq(Candle) : Joined(p[2], buf[p[1]]) \in Seq(Candle)
    <3>1. \A p \in (1..n) \X Seq(Candle) : p[1] \in 1..n /\ p[2] \in Seq(Candle)
      OBVIOUS
    <3> QED BY <1>2, <3>1
  <2> QED BY <2>1, <2>2 DEF Steps
<1> HIDE DEF step
<1>5. <<>> \in Seq(Candle)
  OBVIOUS
<1>6. PICK h \in [0..n -> Seq(Candle)] : Follows(h, n, <<>>, step)
  BY <1>4, <1>5, Recursion
<1>7. \A i \in 1..n : h[i] = Joined(h[i - 1], buf[i])
  <2>1. \A i \in 1..n : i - 1 \in 0..n
    OBVIOUS
  <2>2. \A i \in 1..n : h[i] = step[<<i, h[i - 1]>>]
    BY <1>6 DEF Follows
  <2> QED BY <1>3, <2>1, <2>2
<1>8. h = Def(h)
  <2>1. h = [i \in 0..n |-> h[i]] /\ h[0] = <<>>
    BY <1>6 DEF Follows
  <2>2. \A i \in 0..n : h[i] = IF i = 0 THEN <<>> ELSE Joined(h[i - 1], buf[i])
    <3>1. \A i \in 0..n : i = 0 \/ (i # 0 /\ i \in 1..n)
      OBVIOUS
    <3> QED BY <1>7, <2>1, <3>1
  <2> QED BY <1>1, <2>1, <2>2
<1>9. PICK g : g = CHOOSE x : x = Def(x)
  OBVIOUS
<1>10. Aggregate(buf) = g[n]
  BY <1>1, <1>9 DEF Aggregate
<1>11. g = Def(g)
  <2> HIDE DEF Def
  <2> QED BY <1>8, <1>9
<1>12. g[0] = <<>> /\ \A i \in 1..n : g[i] = Joined(g[i - 1], buf[i])
  <2>1. \A i \in 0..n : g[i] = IF i = 0 THEN <<>> ELSE Joined(g[i - 1], buf[i])
    BY <1>1, <1>11
  <2>2. 0 \in 0..n /\ \A i \in 1..n : i \in 0..n /\ i # 0
    OBVIOUS
  <2> QED BY <2>1, <2>2
<1>13. Steers(step, n, Seq(Candle), S)
  BY <1>1, <1>3 DEF Steers
<1>14. Traces(g, n, <<>>, Seq(Candle), step)
  BY <1>3, <1>12 DEF Traces
<1>15. g[n] \in Seq(Candle) /\ <<n, g[n]>> \in S
  BY <1>4, <1>5, <1>13, <1>14, Along
<1> QED BY <1>1, <1>10, <1>15

\* ... and of the volume of a group.
LEMMA GroupVolumeBy ==
  ASSUME NEW buf \in Seq(Candle), NEW k,
         NEW S, <<0, 0>> \in S,
         \A i \in 1..Len(buf), b \in Nat :
           <<i - 1, b>> \in S => <<i, Plus(b, buf[i], k)>> \in S
  PROVE  GroupVolume(buf, k) \in Nat /\ <<Len(buf), GroupVolume(buf, k)>> \in S
<1> DEFINE Def(g) == [i \in 0..Len(buf) |-> IF i = 0 THEN 0 ELSE Plus(g[i - 1], buf[i], k)]
           step == [p \in (1..Len(buf)) \X Nat |-> Plus(p[2], buf[p[1]], k)]
<1>1. PICK n \in Nat : n = Len(buf)
  OBVIOUS
<1>2. \A i \in 1..n, b \in Nat : Plus(b, buf[i], k) \in Nat
  <2>1. \A i \in 1..n : buf[i] \in Candle
    BY <1>1
  <2> QED BY <2>1, StepTypes
<1>3. \A i \in 1..n, b \in Nat : step[<<i, b>>] = Plus(b, buf[i], k)
  BY <1>1
<1>4. Steps(step, n, Nat)
  <2>1. step = [p \in (1..n) \X Nat |-> Plus(p[2], buf[p[1]], k)]
    BY <1>1
  <2>2. \A p \in (1..n) \X Nat : Plus(p[2], buf[p[1]], k) \in Nat
    <3>1. \A p \in (1..n) \X Nat : p[1] \in 1..n /\ p[2] \in Nat
      OBVIOUS
    <3> QED BY <1>2, <3>1
  <2> QED BY <2>1, <2>2 DEF Steps
<1> HIDE DEF step
<1>5. 0 \in Nat
  OBVIOUS
<1>6. PICK h \in [0..n -> Nat] : Follows(h, n, 0, step)
  BY <1>4, <1>5, Recursion
<1>7. \A i \in 1..n : h[i] = Plus(h[i - 1], buf[i], k)
  <2>1. \A i \in 1..n : i - 1 \in 0..n
    OBVIOUS
  <2>2. \A i \in 1..n : h[i] = step[<<i, h[i - 1]>>]
    BY <1>6 DEF Follows
  <2> QED BY <1>3, <2>1, <2>2
<1>8. h = Def(h)
  <2>1. h = [i \in 0..n |-> h[i]] /\ h[0] = 0
    BY <1>6 DEF Follows
  <2>2. \A i \in 0..n : h[i] = IF i = 0 THEN 0 ELSE Plus(h[i - 1], buf[i], k)
    <3>1. \A i \in 0..n : i = 0 \/ (i # 0 /\ i \in 1..n)
      OBVIOUS
    <3> QED BY <1>7, <2>1, <3>1
  <2> QED BY <1>1, <2>1, <2>2
<1>9. PICK g : g = CHOOSE x : x = Def(x)
  OBVIOUS
<1>10. GroupVolume(buf, k) = g[n]
  BY <1>1, <1>9 DEF GroupVolume, Plus
<1>11. g = Def(g)
  <2> HIDE DEF Def
  <2> QED BY <1>8, <1>9
<1>12. g[0] = 0 /\ \A i \in 1..n : g[i] = Plus(g[i - 1], buf[i], k)
  <2>1. \A i \in 0..n : g[i] = IF i = 0 THEN 0 ELSE Plus(g[i - 1], buf[i], k)
    BY <1>1, <1>11
  <2>2. 0 \in 0..n /\ \A i \in 1..n : i \in 0..n /\ i # 0
    OBVIOUS
  <2> QED BY <2>1, <2>2
<1>13. Steers(step, n, Nat, S)
  BY <1>1, <1>3 DEF Steers
<1>14. Traces(g, n, 0, Nat, step)
  BY <1>3, <1>12 DEF Traces
<1>15. g[n] \in Nat /\ <<n, g[n]>> \in S
  BY <1>4, <1>5, <1>13, <1>14, Along
<1> QED BY <1>1, <1>10, <1>15

-----------------------------------------------------------------------------
(* Types *)

\* The breaker has tripped when the retries are used up, and there is one command at
\* most: the call of subscribe_market that sends it is made once.
ConnectionTyped ==
  /\ StreamTypeOK
  /\ ws # "broken" => retries < MaxRetries
  /\ asked = 1 => call \notin {"no", "started", "entered"}

ClockTyped ==
  /\ now \in Start..MaxMinute /\ since \in Minutes /\ check \in BOOLEAN
  /\ call \in {"no", "started", "entered", "filling", "ok", "failed"}
  /\ faults \in 0..MaxFaults /\ half \subseteq Minutes

CacheTyped == m1 \in Buffers /\ high \in Seq(Candle) /\ wire \in Seq(Candle)

\* A task asks for minutes that are over, and a first load for as many as are kept.
Sound(j) ==
  /\ j.to <= now
  /\ j.at = "fetch" => j.from < j.to
  /\ j.at = "loaded" => Len(j.rows) <= MaxRows

JobsTyped == job \in [Tasks -> JobState] /\ \A t \in Tasks : Sound(job[t])

Typed == ConnectionTyped /\ ClockTyped /\ CacheTyped /\ JobsTyped

\* The clock is within its bounds.
LEMMA ClockIs ==
  ASSUME ClockTyped
  PROVE  now \in Nat /\ now \in Minutes /\ now <= MaxMinute /\ Start <= now
BY KlineAssumption DEF ClockTyped, Minutes

\* A task that does nothing is a task.
LEMMA NoJobTyped ==
  ASSUME ClockTyped
  PROVE  NoJob \in JobState /\ Sound(NoJob)
<1>1. <<>> \in Seq(Candle)
  OBVIOUS
<1> QED BY <1>1, ClockIs DEF NoJob, JobState, Sound

\* A task goes on.
LEMMA JobTyped ==
  ASSUME JobsTyped, UNCHANGED now, NEW t \in Tasks, NEW j \in JobState, Sound(j),
         job' = [job EXCEPT ![t] = j]
  PROVE  JobsTyped'
<1>1. job' \in [Tasks -> JobState]
  BY DEF JobsTyped
<1>2. ASSUME NEW u \in Tasks PROVE Sound(job'[u])
  <2>1. job'[u] = IF u = t THEN j ELSE job[u]
    BY DEF JobsTyped
  <2> QED BY <2>1 DEF JobsTyped
<1>3. \A u \in Tasks : Sound(job[u])'
  BY <1>2 DEF Sound
<1> QED BY <1>1, <1>3 DEF JobsTyped

\* ws_main and who asks it.
LEMMA StreamTyped ==
  ASSUME ConnectionTyped,
         \/ Connected /\ UNCHANGED call
         \/ SendCommand /\ UNCHANGED call
         \/ Disconnected /\ UNCHANGED call
         \/ Refused /\ UNCHANGED call
         \/ Retry /\ UNCHANGED call
         \/ StartStream /\ call = "no" /\ call' = "started"
         \/ Want /\ call = "started" /\ call' = "entered"
         \/ Ask /\ call = "entered" /\ call' = "filling"
  PROVE  ConnectionTyped'
<1> USE ConnectionAssumption
<1> USE DEF ConnectionTyped, StreamTypeOK, ConnectionTypeOK, connection
<1>1. CASE Connected /\ UNCHANGED call
  BY <1>1 DEF Connected, Establish
<1>2. CASE SendCommand /\ UNCHANGED call
  BY <1>2 DEF SendCommand
<1>3. CASE Disconnected /\ UNCHANGED call
  <2>1. /\ drops' \in 0..MaxDrops /\ retries' \in 0..MaxRetries /\ ws' \in {"backoff", "broken"}
        /\ ws' # "broken" => retries' < MaxRetries
    BY <1>3 DEF Disconnected, Lose, Backoff
  <2> QED BY <1>3, <2>1 DEF Disconnected, Lose
<1>4. CASE Refused /\ UNCHANGED call
  BY <1>4 DEF Refused, FailToConnect, Backoff
<1>5. CASE Retry /\ UNCHANGED call
  BY <1>5 DEF Retry, Again
<1>6. CASE StartStream /\ call = "no" /\ call' = "started"
  BY <1>6 DEF StartStream, StartConnection
<1>7. CASE Want /\ call = "started" /\ call' = "entered"
  BY <1>7 DEF Want
<1>8. CASE Ask /\ call = "entered" /\ call' = "filling"
  BY <1>8 DEF Ask
<1> QED BY <1>1, <1>2, <1>3, <1>4, <1>5, <1>6, <1>7, <1>8

\* What leaves the stream alone leaves its type alone.
LEMMA StreamKept ==
  ASSUME ConnectionTyped, UNCHANGED stream,
         call' = call \/ call' \in {"ok", "failed"}
  PROVE  ConnectionTyped'
BY DEF ConnectionTyped, StreamTypeOK, ConnectionTypeOK, connection, stream

-----------------------------------------------------------------------------
(* What the exchange answers, and what is made of it *)

\* The answer is a run of candles, one for each minute asked for.
LEMMA RestTyped ==
  ASSUME now \in Nat, NEW from \in Nat, NEW to \in Int, to <= MaxMinute
  PROVE  /\ RestCandles(from, to) \in Seq(Candle)
         /\ from <= to + 1 => Len(RestCandles(from, to)) = to - from + 1
         /\ \A i \in DOMAIN RestCandles(from, to) : RestCandles(from, to)[i] = RestCandle(from + i - 1)
<1> DEFINE n == to - from + 1
<1>1. RestCandles(from, to) = [i \in 1..n |-> RestCandle(from + i - 1)]
  BY DEF RestCandles
<1>2. ASSUME NEW i \in 1..n PROVE RestCandle(from + i - 1) \in Candle
  <2>1. PICK t \in Minutes : t = from + i - 1
    BY KlineAssumption DEF Minutes
  <2>2. (IF t < now THEN 2 ELSE 1) \in Nat
    OBVIOUS
  <2> QED BY <2>1, <2>2 DEF RestCandle, Candle
<1>3. PICK m \in Nat : 1..n = 1..m /\ (from <= to + 1 => m = n)
  <2>1. CASE n >= 0
    BY <2>1
  <2>2. CASE n < 0
    <3>1. 1..n = 1..0
      BY <2>2
    <3> QED BY <2>2, <3>1
  <2> QED BY <2>1, <2>2
<1>4. RestCandles(from, to) = [i \in 1..m |-> RestCandle(from + i - 1)]
  BY <1>1, <1>3
<1>5. \A i \in 1..m : RestCandle(from + i - 1) \in Candle
  BY <1>2, <1>3
<1> HIDE DEF n
<1>6. RestCandles(from, to) \in Seq(Candle) /\ Len(RestCandles(from, to)) = m
  BY <1>4, <1>5
<1> QED BY <1>3, <1>4, <1>6 DEF n

\* The aggregation of candles is a sequence of candles.
LEMMA AggregateTyped == ASSUME NEW buf \in Seq(Candle) PROVE Aggregate(buf) \in Seq(Candle)
<1> DEFINE S == Nat \X Seq(Candle)
<1>1. <<0, <<>>>> \in S
  <2>1. 0 \in Nat /\ <<>> \in Seq(Candle)
    OBVIOUS
  <2> QED BY <2>1
<1>2. \A i \in 1..Len(buf), b \in Seq(Candle) : <<i - 1, b>> \in S => <<i, Joined(b, buf[i])>> \in S
  <2>1. \A i \in 1..Len(buf) : buf[i] \in Candle /\ i \in Nat
    OBVIOUS
  <2> QED BY <2>1, JoinedType
<1> HIDE DEF S
<1> QED BY <1>1, <1>2, AggregateBy

\* So is a selection of them,
LEMMA OfTyped == ASSUME NEW buf \in Seq(Candle), NEW minutes PROVE Of(buf, minutes) \in Seq(Candle)
<1> DEFINE S == Nat \X Seq(Candle)
<1>1. <<0, <<>>>> \in S
  <2>1. 0 \in Nat /\ <<>> \in Seq(Candle)
    OBVIOUS
  <2> QED BY <2>1
<1>2. \A i \in 1..Len(buf), b \in Seq(Candle) : <<i - 1, b>> \in S => <<i, Keep(b, buf[i], minutes)>> \in S
  <2>1. \A i \in 1..Len(buf) : buf[i] \in Candle /\ i \in Nat
    OBVIOUS
  <2> QED BY <2>1, StepTypes
<1> HIDE DEF S
<1> QED BY <1>1, <1>2, OfBy

\* and a buffer that is filled, within its limit.
LEMMA FilledTyped ==
  ASSUME NEW buf \in Buffers, NEW rows \in Seq(Candle), NEW minutes
  PROVE  Filled(buf, rows, minutes) \in Buffers
<1> DEFINE S == Nat \X Buffers
<1>1. <<0, buf>> \in S /\ buf \in Seq(Candle)
  BY DEF Buffers
<1>2. \A i \in 1..Len(rows), b \in Seq(Candle) : <<i - 1, b>> \in S => <<i, Put(b, rows[i], minutes)>> \in S
  <2>1. \A i \in 1..Len(rows) : rows[i] \in Candle /\ i \in Nat
    OBVIOUS
  <2> QED BY <2>1, PushType DEF Put
<1>3. <<Len(rows), Filled(buf, rows, minutes)>> \in S
  <2> HIDE DEF S
  <2> QED BY <1>1, <1>2, FilledBy
<1> QED BY <1>3

\* The volume of a group is a number.
LEMMA GroupVolumeTyped == ASSUME NEW buf \in Seq(Candle), NEW k PROVE GroupVolume(buf, k) \in Nat
<1> DEFINE S == Nat \X Nat
<1>1. <<0, 0>> \in S
  OBVIOUS
<1>2. \A i \in 1..Len(buf), b \in Nat : <<i - 1, b>> \in S => <<i, Plus(b, buf[i], k)>> \in S
  <2>1. \A i \in 1..Len(buf) : buf[i] \in Candle /\ i \in Nat
    OBVIOUS
  <2> QED BY <2>1, StepTypes
<1> HIDE DEF S
<1> QED BY <1>1, <1>2, GroupVolumeBy

\* A higher buffer that takes an update is one.
LEMMA MergeTyped ==
  ASSUME NEW buf \in Seq(Candle), NEW rows \in Seq(Candle), NEW c \in Candle
  PROVE  Merge(buf, rows, c) \in Seq(Candle)
<1>1. PICK d \in Candle : d = FromM1(c)
  BY FromM1Type
<1>2. PICK v \in Nat : v = GroupVolume(rows, Align(c.t))
  BY GroupVolumeTyped
<1>3. PICK e \in Candle : e = [d EXCEPT !.v = v]
  BY DEF Candle
<1>4. Newest(Append(buf, d)) \in Seq(Candle)
  <2>1. Append(buf, d) \in Seq(Candle)
    OBVIOUS
  <2> QED BY <2>1, NewestIs DEF Buffers
<1>5. Merge(buf, rows, c) = IF buf # <<>> /\ Align(c.t) < Last(buf).t THEN buf
                            ELSE IF buf # <<>> /\ Align(c.t) = Last(buf).t
                            THEN [buf EXCEPT ![Len(buf)] = e]
                            ELSE Newest(Append(buf, d))
  BY <1>1, <1>2, <1>3 DEF Merge
<1>6. buf # <<>> => [buf EXCEPT ![Len(buf)] = e] \in Seq(Candle)
  <2>1. \A n \in DOMAIN buf : [buf EXCEPT ![n] = e] \in Seq(Candle)
    OBVIOUS
  <2>2. buf # <<>> => Len(buf) \in DOMAIN buf
    OBVIOUS
  <2> QED BY <2>1, <2>2
<1> QED BY <1>4, <1>5, <1>6

-----------------------------------------------------------------------------
(* Every step keeps the types *)

\* The step that reads the cache and decides.
LEMMA DetectTyped ==
  ASSUME ClockTyped, CacheTyped, JobsTyped, NEW t \in Tasks, Detect(t)
  PROVE  JobsTyped' /\ (call' = call \/ call' \in {"ok", "failed"})
<1>1. now \in Nat
  BY ClockIs
<1>2. LastClosed(m1) \in Nat \cup {-1}
  BY LastClosedInt DEF CacheTyped, Buffers
<1>3. \E j \in JobState : Sound(j) /\ job' = [job EXCEPT ![t] = j]
  <2>1. CASE LastClosed(m1) = -1
    <3>1. PICK j : j = [NoJob EXCEPT !.at = "load", !.to = now]
      OBVIOUS
    <3>2. j = [at |-> "load", from |-> 0, to |-> now, rows |-> <<>>, high |-> <<>>]
      BY <3>1 DEF NoJob
    <3>3. j \in JobState /\ Sound(j)
      BY <1>1, <3>2 DEF JobState, Sound
    <3> QED BY <2>1, <3>1, <3>3 DEF Detect
  <2>2. CASE LastClosed(m1) # -1 /\ Gap
    <3>1. PICK j : j = [NoJob EXCEPT !.at = "fetch", !.from = LastClosed(m1) + 1, !.to = now]
      OBVIOUS
    <3>2. j = [at |-> "fetch", from |-> LastClosed(m1) + 1, to |-> now, rows |-> <<>>, high |-> <<>>]
      BY <3>1 DEF NoJob
    <3>3. j \in JobState /\ Sound(j)
      BY <1>1, <1>2, <2>2, <3>2 DEF JobState, Sound, Gap
    <3> QED BY <2>2, <3>1, <3>3 DEF Detect
  <2>3. CASE LastClosed(m1) # -1 /\ ~Gap
    BY <2>3, NoJobTyped DEF Detect
  <2> QED BY <2>1, <2>2, <2>3
<1>4. call' = call \/ call' \in {"ok", "failed"}
  BY DEF Detect, Returns, Reported
<1>5. UNCHANGED now
  BY DEF Detect
<1> QED BY <1>3, <1>4, <1>5, JobTyped

\* What a task has when the exchange has answered.
LEMMA AnswerTyped ==
  ASSUME ClockTyped, JobsTyped, NEW t \in Tasks, Fetch(t) \/ Load(t) \/ LoadPart(t)
  PROVE  JobsTyped'
<1>1. now \in Nat /\ now <= MaxMinute /\ MaxMinute \in Nat /\ MaxRows \in Nat /\ MaxRows >= 1
  BY ClockIs, KlineAssumption
<1>2. PICK j \in JobState : j = job[t] /\ Sound(j)
  BY DEF JobsTyped
<1>3. j.from \in Nat /\ j.to \in Nat /\ j.rows \in Seq(Candle) /\ j.high \in Seq(Candle)
  BY DEF JobState
<1>4. CASE Fetch(t)
  <2>1. PICK n \in Int : n = MinOf(j.to, j.from + MaxRows) - 1 /\ n <= MaxMinute
    <3>1. PICK f \in Nat, u \in Nat : f = j.from /\ u = j.to
      BY <1>3
    <3>2. u <= now
      BY <1>2, <3>1 DEF Sound
    <3>3. f + MaxRows \in Nat
      BY <1>1, <3>1
    <3>4. PICK q \in Nat : q = MinOf(u, f + MaxRows) /\ q <= u
      BY <3>1, <3>3 DEF MinOf
    <3>5. q - 1 \in Int /\ q - 1 <= MaxMinute
      BY <1>1, <3>1, <3>2, <3>4
    <3>6. MinOf(j.to, j.from + MaxRows) = q
      BY <3>1, <3>4
    <3> QED BY <3>5, <3>6
  <2>2. PICK r \in Seq(Candle) : r = RestCandles(j.from, n)
    BY <1>1, <1>3, <2>1, RestTyped
  <2>3. PICK k : k = [j EXCEPT !.at = "fetched", !.rows = r]
    OBVIOUS
  <2>4. k \in JobState /\ Sound(k)
    BY <1>2, <2>3 DEF JobState, Sound
  <2>5. job' = [job EXCEPT ![t] = k]
    BY <1>2, <1>4, <2>1, <2>2, <2>3 DEF Fetch, JobsTyped
  <2>6. UNCHANGED now
    BY <1>4 DEF Fetch, clock
  <2> QED BY <2>4, <2>5, <2>6, JobTyped
<1>5. CASE Load(t) \/ LoadPart(t)
  <2>1. PICK m \in Nat : m = MaxOf(0, now - MaxRows + 1) /\ m <= now /\ now - m + 1 <= MaxRows
    <3>1. CASE 0 >= now - MaxRows + 1
      BY <1>1, <3>1 DEF MaxOf
    <3>2. CASE ~(0 >= now - MaxRows + 1)
      BY <1>1, <3>2 DEF MaxOf
    <3> QED BY <3>1, <3>2
  <2>2. PICK r \in Seq(Candle) : r = RestCandles(m, now) /\ Len(r) <= MaxRows
    <3>1. m <= now + 1 /\ now \in Int
      BY <1>1, <2>1
    <3>2. RestCandles(m, now) \in Seq(Candle) /\ Len(RestCandles(m, now)) = now - m + 1
      BY <1>1, <3>1, RestTyped
    <3>3. Len(RestCandles(m, now)) <= MaxRows
      BY <2>1, <3>2
    <3> QED BY <3>2, <3>3
  <2>3. PICK h \in Seq(Candle) : h = IF Load(t) THEN RestHigh ELSE j.high
    <3>1. RestCandles(0, now) \in Seq(Candle)
      BY <1>1, RestTyped
    <3>2. RestHigh \in Seq(Candle)
      BY <3>1, AggregateTyped, NewestIs DEF RestHigh, Buffers
    <3> QED BY <1>3, <3>2
  <2>4. PICK k : k = [j EXCEPT !.at = "loaded", !.high = h, !.rows = r]
    OBVIOUS
  <2>5. k \in JobState /\ Sound(k)
    BY <1>2, <2>2, <2>4 DEF JobState, Sound
  <2>6. job' = [job EXCEPT ![t] = k]
    <3>1. CASE Load(t)
      BY <1>2, <2>1, <2>2, <2>3, <2>4, <3>1 DEF Load, JobsTyped
    <3>2. CASE ~Load(t) /\ LoadPart(t)
      <4>1. h = job[t].high
        BY <1>2, <2>3, <3>2
      <4>2. k = [job[t] EXCEPT !.at = "loaded", !.rows = r]
        BY <1>2, <2>4, <4>1 DEF JobState
      <4> QED BY <1>2, <2>1, <2>2, <4>2, <3>2 DEF LoadPart, JobsTyped
    <3> QED BY <1>5, <3>1, <3>2
  <2>7. UNCHANGED now
    BY <1>5 DEF Load, LoadPart, clock
  <2> QED BY <2>5, <2>6, <2>7, JobTyped
<1> QED BY <1>4, <1>5

\* The step that fills the gap, under the lock.
LEMMA InsertTyped ==
  ASSUME ClockTyped, CacheTyped, JobsTyped, NEW t \in Tasks, Insert(t)
  PROVE  m1' \in Buffers /\ JobsTyped'
<1>1. PICK j \in JobState : j = job[t] /\ Sound(j)
  BY DEF JobsTyped
<1>2. j.to \in Nat /\ j.rows \in Seq(Candle)
  BY DEF JobState
<1>3. PICK f : f = Filled(m1, job[t].rows, job[t].from..(job[t].to - 1))
  OBVIOUS
<1>4. f \in Buffers
  BY <1>1, <1>2, <1>3, FilledTyped DEF CacheTyped
<1>5. PICK h \in Seq(Candle) : h = Aggregate(f)
  BY <1>4, AggregateTyped DEF Buffers
<1>6. PICK k : k = [NoJob EXCEPT !.at = "replace", !.to = j.to, !.high = h]
  OBVIOUS
<1>7. k \in JobState /\ Sound(k)
  <2>1. k = [at |-> "replace", from |-> 0, to |-> j.to, rows |-> <<>>, high |-> h]
    BY <1>6 DEF NoJob
  <2> QED BY <1>1, <1>2, <2>1 DEF JobState, Sound
<1>8. m1' = f /\ job' = [job EXCEPT ![t] = k] /\ UNCHANGED now
  BY <1>1, <1>3, <1>5, <1>6 DEF Insert, clock
<1> QED BY <1>4, <1>7, <1>8, JobTyped

\* The step that replaces the cache, under the lock.
LEMMA LoadedTyped ==
  ASSUME ClockTyped, CacheTyped, JobsTyped, NEW t \in Tasks, Loaded(t)
  PROVE  m1' \in Buffers /\ high' \in Seq(Candle) /\ half' \subseteq Minutes /\ JobsTyped'
<1>1. PICK j \in JobState : j = job[t] /\ Sound(j)
  BY DEF JobsTyped
<1>2. j.rows \in Seq(Candle) /\ j.high \in Seq(Candle)
  BY DEF JobState
<1>3. m1' \in Buffers
  <2>1. m1' = j.rows /\ j.at = "loaded"
    BY <1>1 DEF Loaded
  <2> QED BY <1>1, <1>2, <2>1 DEF Sound, Buffers
<1>4. high' \in Seq(Candle)
  <2>1. PICK made \in Seq(Candle) : made = Aggregate(Of(job[t].rows, Align(now)..now))
    BY <1>1, <1>2, OfTyped, AggregateTyped
  <2>2. CASE made # <<>>
    <3>1. PICK d \in Candle : d = Last(made)
      BY <2>2 DEF Last
    <3>2. PICK e \in Candle : e = [d EXCEPT !.closed = FALSE]
      BY DEF Candle
    <3>3. PICK past \in Seq(Candle) : past = Of(job[t].high, 0..(e.t - 1))
      BY <1>1, <1>2, OfTyped
    <3>4. high' = Newest(Append(past, e))
      BY <2>1, <2>2, <3>1, <3>2, <3>3 DEF Loaded
    <3>5. Append(past, e) \in Seq(Candle)
      OBVIOUS
    <3> QED BY <3>4, <3>5, NewestIs DEF Buffers
  <2>3. CASE made = <<>>
    <3>1. high' = IF job[t].high = <<>> THEN high ELSE job[t].high
      BY <2>1, <2>3 DEF Loaded
    <3> QED BY <1>1, <1>2, <3>1 DEF CacheTyped
  <2> QED BY <2>2, <2>3
<1>5. half' \subseteq Minutes
  <2>1. \A c \in ToSet(job[t].rows) : c.t \in Minutes
    <3>1. \A i \in DOMAIN j.rows : j.rows[i].t \in Minutes
      BY <1>2, Item DEF Candle
    <3> QED BY <1>1, <3>1 DEF ToSet
  <2> QED BY <2>1 DEF Loaded, ClockTyped
<1>6. JobsTyped'
  <2>1. job' = [job EXCEPT ![t] = NoJob] /\ UNCHANGED now
    BY DEF Loaded, clock
  <2> QED BY <2>1, NoJobTyped, JobTyped
<1> QED BY <1>3, <1>4, <1>5, <1>6

\* The step that replaces the higher candles.
LEMMA ReplaceTyped ==
  ASSUME ClockTyped, CacheTyped, JobsTyped, NEW t \in Tasks, Replace(t)
  PROVE  high' \in Seq(Candle) /\ JobsTyped'
<1>1. job[t].high \in Seq(Candle)
  BY DEF JobsTyped, JobState
<1>2. high' \in Seq(Candle)
  BY <1>1, NewestIs DEF Replace, Buffers
<1>3. job' = [job EXCEPT ![t] = NoJob] /\ UNCHANGED now
  BY DEF Replace, clock
<1> QED BY <1>2, <1>3, NoJobTyped, JobTyped

\* The step of the loop.
LEMMA OnCandleTyped ==
  ASSUME CacheTyped, OnCandle
  PROVE  CacheTyped'
<1>1. PICK c \in Candle : c = Head(wire)
  BY DEF CacheTyped, OnCandle
<1>2. PICK rows \in Buffers : rows = PushOrUpdate(m1, c)
  BY PushType DEF CacheTyped
<1>3. m1' \in Buffers
  BY <1>1, <1>2, CloseType DEF OnCandle
<1>4. high' \in Seq(Candle)
  BY <1>1, <1>2, MergeTyped DEF OnCandle, CacheTyped, Buffers
<1>5. wire' \in Seq(Candle)
  BY DEF OnCandle, CacheTyped
<1> QED BY <1>3, <1>4, <1>5 DEF CacheTyped

\* What goes out on the wire.
LEMMA WireTyped ==
  ASSUME CacheTyped, ClockTyped, NEW v \in Nat, NEW b \in BOOLEAN
  PROVE  Append(wire, [t |-> now, v |-> v, closed |-> b]) \in Seq(Candle) /\ Tail(wire) \in {<<>>} \cup Seq(Candle)
<1>1. [t |-> now, v |-> v, closed |-> b] \in Candle
  BY ClockIs DEF Candle
<1> QED BY <1>1 DEF CacheTyped

\* The tasks do not mind the clock.
LEMMA JobsKept ==
  ASSUME ClockTyped, JobsTyped, UNCHANGED job, now' \in {now, now + 1}
  PROVE  JobsTyped'
<1>1. ASSUME NEW t \in Tasks PROVE Sound(job[t])'
  <2>1. job[t].to \in Nat
    BY DEF JobsTyped, JobState
  <2> QED BY <2>1, ClockIs DEF JobsTyped, Sound
<1> QED BY <1>1 DEF JobsTyped

\* All steps of a backfill.
LEMMA BackfillTyped ==
  ASSUME Typed, NEW t \in Tasks, Backfill(t) \/ LoadPart(t) \/ RequestFails(t)
  PROVE  Typed'
<1> USE DEF Typed
<1>1. JobsTyped'
  <2>1. CASE RequestFails(t)
    <3>1. job' = [job EXCEPT ![t] = NoJob] /\ UNCHANGED now
      BY <2>1 DEF RequestFails, clock
    <3> QED BY <3>1, NoJobTyped, JobTyped
  <2> QED BY <2>1, AnswerTyped, InsertTyped, LoadedTyped, ReplaceTyped DEF Backfill
<1>2. CacheTyped'
  <2>1. CASE Fetch(t) \/ Load(t) \/ LoadPart(t) \/ RequestFails(t)
    BY <2>1 DEF Fetch, Load, LoadPart, RequestFails, CacheTyped
  <2>2. CASE Insert(t) \/ Loaded(t) \/ Replace(t)
    BY <2>2, InsertTyped, LoadedTyped, ReplaceTyped DEF Insert, Loaded, Replace, CacheTyped
  <2> QED BY <2>1, <2>2 DEF Backfill
<1>3. UNCHANGED <<stream, clock>> /\ (call' = call \/ call' \in {"ok", "failed"})
  BY DEF Backfill, Fetch, Load, LoadPart, RequestFails, Insert, Replace, Loaded, Returns, Reported
<1>4. faults' \in 0..MaxFaults
  <2>1. CASE RequestFails(t) \/ LoadPart(t)
    <3>1. faults' = faults + 1 /\ faults + refusals < MaxFaults
      BY <2>1 DEF RequestFails, LoadPart, MayFail
    <3>2. faults \in Nat /\ refusals \in Nat /\ MaxFaults \in Nat
      BY KlineAssumption, ConnectionAssumption
         DEF ClockTyped, ConnectionTyped, StreamTypeOK, ConnectionTypeOK
    <3> QED BY <3>1, <3>2
  <2>2. CASE Backfill(t)
    BY <2>2 DEF Backfill, Fetch, Load, Insert, Replace, Loaded, ClockTyped
  <2> QED BY <2>1, <2>2
<1>5. half' \subseteq Minutes
  <2>1. CASE Loaded(t)
    BY <2>1, LoadedTyped
  <2>2. CASE ~Loaded(t)
    BY <2>2 DEF Backfill, Fetch, Load, LoadPart, RequestFails, Insert, Replace, ClockTyped
  <2> QED BY <2>1, <2>2
<1>6. ClockTyped'
  BY <1>3, <1>4, <1>5 DEF ClockTyped, clock
<1>7. ConnectionTyped'
  BY <1>3, StreamKept
<1> QED BY <1>1, <1>2, <1>6, <1>7

\* All steps that begin one.
LEMMA DetectsTyped ==
  ASSUME Typed, CallerDetects \/ LoopDetects \/ TimerDetects
  PROVE  Typed'
<1> USE DEF Typed
<1>1. PICK t \in Tasks : Detect(t) \/ UNCHANGED <<stream, now, since, call, m1, high, job, faults, half>>
  BY DEF CallerDetects, LoopDetects, TimerDetects, Tasks
<1>2. UNCHANGED <<stream, now, since, m1, high, faults, half>>
  BY <1>1 DEF Detect
<1>3. JobsTyped' /\ (call' = call \/ call' \in {"ok", "failed"})
  <2>1. CASE Detect(t)
    BY <2>1, DetectTyped
  <2>2. CASE UNCHANGED <<now, call, job>>
    BY <2>2, JobsKept
  <2> QED BY <1>1, <2>1, <2>2
<1>4. wire' \in Seq(Candle)
  BY DEF CallerDetects, LoopDetects, TimerDetects, CacheTyped
<1>5. check' \in BOOLEAN
  BY DEF CallerDetects, LoopDetects, TimerDetects, ClockTyped
<1>6. ConnectionTyped'
  BY <1>2, <1>3, StreamKept
<1>7. ClockTyped' /\ CacheTyped'
  BY <1>2, <1>3, <1>4, <1>5 DEF ClockTyped, CacheTyped
<1> QED BY <1>3, <1>6, <1>7

\* What is left on the wire when the oldest updates are lost.
LEMMA WireCut ==
  ASSUME NEW u \in Seq(Candle), NEW n \in 1..Len(u)
  PROVE  SubSeq(u, n + 1, Len(u)) \in Seq(Candle)
OBVIOUS

\* The clock, and what the exchange sends.
LEMMA TimeTyped ==
  ASSUME Typed, Tick \/ Update \/ Lag
  PROVE  Typed'
<1> USE DEF Typed
<1>1. now' \in {now, now + 1} /\ now' \in Start..MaxMinute
  <2>1. CASE Tick
    BY <2>1, ClockIs, KlineAssumption DEF Tick, MinOf
  <2>2. CASE Update \/ Lag
    BY <2>2 DEF Update, Lag, clock, ClockTyped
  <2> QED BY <2>1, <2>2
<1>2. wire' \in Seq(Candle)
  <2>1. CASE Lag
    BY <2>1, WireCut DEF Lag, CacheTyped
  <2>2. CASE Tick \/ Update
    BY <2>2, WireTyped DEF Tick, Update, CacheTyped
  <2> QED BY <2>1, <2>2
<1>3. faults' \in 0..MaxFaults
  <2>1. CASE Lag
    <3>1. faults' = faults + 1 /\ faults + refusals < MaxFaults
      BY <2>1 DEF Lag, MayFail
    <3>2. faults \in Nat /\ refusals \in Nat /\ MaxFaults \in Nat
      BY KlineAssumption, ConnectionAssumption
         DEF ClockTyped, ConnectionTyped, StreamTypeOK, ConnectionTypeOK
    <3> QED BY <3>1, <3>2
  <2>2. CASE Tick \/ Update
    BY <2>2 DEF Tick, Update, ClockTyped
  <2> QED BY <2>1, <2>2
<1>4. check' \in BOOLEAN
  BY DEF Tick, Update, Lag, clock, Entered, ClockTyped
<1>5. UNCHANGED <<stream, since, call, m1, high, job, half>>
  BY DEF Tick, Update, Lag, clock
<1>6. JobsTyped'
  BY <1>1, <1>5, JobsKept
<1>7. ConnectionTyped'
  BY <1>5, StreamKept
<1>8. ClockTyped' /\ CacheTyped'
  BY <1>1, <1>2, <1>3, <1>4, <1>5 DEF ClockTyped, CacheTyped
<1> QED BY <1>6, <1>7, <1>8

\* ws_main, and the call of subscribe_market.
LEMMA OthersTyped ==
  ASSUME Typed, Manager \/ Disconnect \/ Refuse \/ StartEngine \/ Subscriber \/ CallAgain
  PROVE  Typed'
<1> USE DEF Typed
<1>1. UNCHANGED <<now, check, m1, high, job, faults, half>>
  BY DEF Manager, Connect, Command, RetryConnect, Disconnect, Refuse, StartEngine, Subscriber,
         Enter, SubscribeNow, CallAgain, clock, engine
<1>2. since' \in Minutes
  BY ClockIs DEF ClockTyped, Manager, Connect, Command, RetryConnect, Disconnect, Refuse, StartEngine, Subscriber,
         Enter, SubscribeNow, CallAgain, clock, engine
<1>3. call' \in {"no", "started", "entered", "filling", "ok", "failed"}
  BY DEF ClockTyped, Manager, Connect, Command, RetryConnect, Disconnect, Refuse, StartEngine, Subscriber,
         Enter, SubscribeNow, CallAgain, clock, engine
<1>4. wire' \in Seq(Candle)
  <2>1. CASE Connect
    BY <2>1, WireTyped DEF Connect, Reconnect, CacheTyped
  <2>2. CASE ~Connect
    BY <2>2 DEF CacheTyped, Manager, Command, RetryConnect, Disconnect, Refuse, StartEngine,
         Subscriber, Enter, SubscribeNow, CallAgain, engine
  <2> QED BY <2>1, <2>2
<1>5. ConnectionTyped'
  <2>1. CASE Manager \/ Disconnect \/ Refuse
    BY <2>1, StreamTyped DEF Manager, Connect, Command, RetryConnect, Disconnect, Refuse, engine
  <2>2. CASE StartEngine \/ Subscriber
    BY <2>2, StreamTyped DEF StartEngine, Subscriber, Enter, SubscribeNow
  <2>3. CASE CallAgain
    BY <2>3, StreamKept DEF CallAgain
  <2> QED BY <2>1, <2>2, <2>3
<1>6. ClockTyped' /\ CacheTyped'
  BY <1>1, <1>2, <1>3, <1>4 DEF ClockTyped, CacheTyped
<1>7. JobsTyped'
  BY <1>1, JobsKept
<1> QED BY <1>5, <1>6, <1>7

\* Every step.
LEMMA StepTyped == Typed /\ [Next]_vars => Typed'
<1> SUFFICES ASSUME Typed, [Next]_vars PROVE Typed'
  OBVIOUS
<1>1. CASE UNCHANGED vars
  <2>1. UNCHANGED <<stream, now, since, check, call, m1, high, wire, job, faults, half>>
    BY <1>1 DEF vars, clock, engine
  <2>2. ConnectionTyped' /\ JobsTyped'
    BY <2>1, StreamKept, JobsKept DEF Typed
  <2> QED BY <2>1, <2>2 DEF Typed, ClockTyped, CacheTyped
<1>2. CASE OnCandle
  <2>1. CacheTyped'
    BY <1>2, OnCandleTyped DEF Typed
  <2>2. UNCHANGED <<stream, now, since, check, call, job, faults, half>>
    BY <1>2 DEF OnCandle, clock
  <2>3. ConnectionTyped' /\ JobsTyped'
    BY <2>2, StreamKept, JobsKept DEF Typed
  <2> QED BY <2>1, <2>2, <2>3 DEF Typed, ClockTyped
<1> QED
  BY <1>1, <1>2, BackfillTyped, DetectsTyped, TimeTyped, OthersTyped DEF Next

\* The first state.
LEMMA InitTyped == Init => Typed
<1> SUFFICES ASSUME Init PROVE Typed
  OBVIOUS
<1>1. <<>> \in Seq(Candle) /\ <<>> \in Buffers
  BY KlineAssumption DEF Buffers
<1>2. ConnectionTyped
  <2>1. 0 < MaxRetries /\ 0 \in 0..MaxRetries /\ 0 \in 0..MaxDrops /\ 0 \in 0..MaxRefusals /\ 0 \in 0..1
    BY ConnectionAssumption
  <2>2. /\ ws = "off" /\ retries = 0 /\ reconnect = FALSE /\ drops = 0 /\ refusals = 0
        /\ asked = 0 /\ wanted = FALSE /\ streaming = FALSE /\ call = "no"
    BY DEF Init, StreamInit, ConnectionInit
  <2>3. ConnectionTypeOK
    BY <2>1, <2>2 DEF ConnectionTypeOK
  <2>4. wanted \in BOOLEAN /\ streaming \in BOOLEAN
    BY <2>2
  <2>5. StreamTypeOK
    BY <2>1, <2>2, <2>3, <2>4, Zenon DEF StreamTypeOK
  <2> QED BY <2>1, <2>2, <2>5 DEF ConnectionTyped
<1>3. ClockTyped
  <2>1. Start \in Start..MaxMinute /\ Start \in 0..MaxMinute /\ 0 \in 0..MaxFaults
    BY KlineAssumption
  <2> QED BY <2>1 DEF Init, ClockTyped, Minutes
<1>4. JobsTyped
  BY <1>3, NoJobTyped DEF Init, JobsTyped
<1> QED BY <1>1, <1>2, <1>3, <1>4 DEF Init, Typed, CacheTyped
-----------------------------------------------------------------------------
(* A buffer without holes *)

Rows(buf) == {buf[i] : i \in DOMAIN buf}
First(buf) == buf[1].t
End(buf) == buf[Len(buf)].t

\* Every minute from the first on, one after the other.
Line(buf) == \A i \in DOMAIN buf : buf[i].t = buf[1].t + i - 1

\* A line of candles has exactly one for each minute from its first to its end.
LEMMA LineIs ==
  ASSUME NEW buf \in Seq(Candle), Line(buf), buf # <<>>
  PROVE  /\ First(buf) \in Nat /\ End(buf) \in Nat /\ Len(buf) \in Nat
         /\ End(buf) = First(buf) + Len(buf) - 1 /\ First(buf) <= End(buf)
         /\ \A c \in Rows(buf) : /\ c \in Candle /\ c.t \in Nat /\ c.v \in Nat /\ c.closed \in BOOLEAN
                                 /\ First(buf) <= c.t /\ c.t <= End(buf)
         /\ \A c, d \in Rows(buf) : c.t = d.t => c = d
         /\ \A n \in First(buf)..End(buf) : \E c \in Rows(buf) : c.t = n
<1>1. PICK N \in Nat : N = Len(buf) /\ N >= 1 /\ DOMAIN buf = 1..N
  OBVIOUS
<1>2. PICK a \in Nat : a = buf[1].t
  BY <1>1, Item
<1>3. \A i \in 1..N : buf[i].t = a + i - 1
  BY <1>1, <1>2 DEF Line
<1>4. \A i \in 1..N : buf[i] \in Candle /\ buf[i].t \in Nat /\ buf[i].v \in Nat /\ buf[i].closed \in BOOLEAN
  BY <1>1, Item
<1>5. First(buf) = a /\ End(buf) = a + N - 1
  BY <1>1, <1>2, <1>3 DEF First, End
<1>6. \A c \in Rows(buf) : \E i \in 1..N : c = buf[i]
  BY <1>1 DEF Rows
<1>7. \A c, d \in Rows(buf) : c.t = d.t => c = d
  <2> SUFFICES ASSUME NEW c \in Rows(buf), NEW d \in Rows(buf), c.t = d.t PROVE c = d
    OBVIOUS
  <2>1. PICK i \in 1..N : c = buf[i]
    BY <1>6
  <2>2. PICK j \in 1..N : d = buf[j]
    BY <1>6
  <2>3. a + i - 1 = a + j - 1
    BY <1>3, <2>1, <2>2
  <2>4. i = j
    BY <2>3
  <2> QED BY <2>1, <2>2, <2>4
<1>8. \A n \in First(buf)..End(buf) : \E c \in Rows(buf) : c.t = n
  <2> SUFFICES ASSUME NEW n \in First(buf)..End(buf) PROVE \E c \in Rows(buf) : c.t = n
    OBVIOUS
  <2>1. PICK i \in 1..N : i = n - a + 1
    BY <1>1, <1>5
  <2>2. buf[i] \in Rows(buf)
    BY <1>1, <2>1 DEF Rows
  <2>3. buf[i].t = a + i - 1
    BY <1>3
  <2>4. a + i - 1 = n
    BY <1>1, <2>1
  <2> QED BY <2>2, <2>3, <2>4
<1>9. \A c \in Rows(buf) : /\ c \in Candle /\ c.t \in Nat /\ c.v \in Nat /\ c.closed \in BOOLEAN
                           /\ a <= c.t /\ c.t <= a + N - 1
  <2> SUFFICES ASSUME NEW c \in Rows(buf)
               PROVE  /\ c \in Candle /\ c.t \in Nat /\ c.v \in Nat /\ c.closed \in BOOLEAN
                      /\ a <= c.t /\ c.t <= a + N - 1
    OBVIOUS
  <2>1. PICK i \in 1..N : c = buf[i]
    BY <1>6
  <2> QED BY <1>1, <1>2, <1>3, <1>4, <2>1
<1> QED BY <1>1, <1>2, <1>5, <1>7, <1>8, <1>9

\* A buffer without candles is empty.
LEMMA EmptyRows == ASSUME NEW buf \in Seq(Candle) PROVE buf = <<>> <=> Rows(buf) = {}
<1>1. buf # <<>> => buf[1] \in Rows(buf)
  BY DEF Rows
<1>2. buf = <<>> => Rows(buf) = {}
  BY DEF Rows
<1> QED BY <1>1, <1>2

\* The last closed candle is the latest.
LEMMA LastClosedLine ==
  ASSUME NEW buf \in Seq(Candle), Line(buf)
  PROVE  \/ LastClosed(buf) = -1 /\ \A c \in Rows(buf) : ~c.closed
         \/ /\ LastClosed(buf) \in Nat
            /\ \E c \in Rows(buf) : c.closed /\ c.t = LastClosed(buf)
            /\ \A c \in Rows(buf) : c.closed => c.t <= LastClosed(buf)
<1>1. CASE LastClosed(buf) = -1 /\ \A i \in DOMAIN buf : ~buf[i].closed
  BY <1>1 DEF Rows
<1>2. ASSUME NEW i \in DOMAIN buf, buf[i].closed, LastClosed(buf) = buf[i].t,
             \A j \in DOMAIN buf : buf[j].closed => j <= i
      PROVE  /\ LastClosed(buf) \in Nat
             /\ \E c \in Rows(buf) : c.closed /\ c.t = LastClosed(buf)
             /\ \A c \in Rows(buf) : c.closed => c.t <= LastClosed(buf)
  <2>1. buf[i].t \in Nat /\ i \in Nat /\ buf[1].t \in Nat
    BY <1>2, Item
  <2>2. \A j \in DOMAIN buf : j \in Nat
    BY Item
  <2>3. ASSUME NEW j \in DOMAIN buf, buf[j].closed PROVE buf[j].t <= buf[i].t
    <3>1. j \in Nat /\ j <= i
      BY <1>2, <2>2, <2>3
    <3>2. buf[j].t = buf[1].t + j - 1 /\ buf[i].t = buf[1].t + i - 1
      BY <1>2 DEF Line
    <3>3. PICK f \in Nat : f = buf[1].t
      BY <2>1
    <3>4. f + j - 1 <= f + i - 1
      BY <2>1, <3>1
    <3> QED BY <3>2, <3>3, <3>4
  <2> QED BY <1>2, <2>1, <2>3 DEF Rows
<1> QED BY <1>1, <1>2, LastClosedIs

\* buf becomes after: the candles of some minutes are new, the others are those of buf,
\* and the oldest are evicted if there are more than are kept.
Over(buf, after, new, minutes) ==
  /\ after \in Buffers /\ after # <<>> /\ Line(after)
  /\ End(after) >= End(buf) /\ (End(after) = End(buf) \/ End(after) \in minutes)
  /\ First(after) >= First(buf)
  /\ First(after) = First(buf) \/ First(after) = End(after) - MaxRows + 1
  /\ \A d \in Rows(after) : (d \in new /\ d.t \in minutes) \/ (d \in Rows(buf) /\ d.t \notin minutes)

\* A candle of the minutes there are, or of the next.
LEMMA PushLine ==
  ASSUME NEW buf \in Buffers, buf # <<>>, Line(buf), NEW c \in Candle,
         First(buf) <= c.t, c.t <= End(buf) + 1
  PROVE  Over(buf, PushOrUpdate(buf, c), {c}, {c.t}) /\ c \in Rows(PushOrUpdate(buf, c))
<1>1. buf \in Seq(Candle) /\ Len(buf) <= MaxRows /\ MaxRows \in Nat /\ MaxRows >= 1
  BY KlineAssumption DEF Buffers
<1>2. PICK N \in Nat : N = Len(buf) /\ N >= 1 /\ DOMAIN buf = 1..N
  BY <1>1
<1>3. PICK a \in Nat : a = buf[1].t
  BY <1>1, <1>2, Item
<1>4. \A i \in 1..N : buf[i].t = a + i - 1
  BY <1>2, <1>3 DEF Line
<1>5. First(buf) = a /\ End(buf) = a + N - 1
  BY <1>2, <1>3, <1>4 DEF First, End
<1>6. PICK x \in Nat : x = c.t
  BY DEF Candle, Minutes
<1>7. PICK b \in Buffers : b = PushOrUpdate(buf, c)
  BY PushType
<1>8. b \in Seq(Candle)
  BY DEF Buffers
<1>9. CASE \E i \in DOMAIN buf : buf[i].t = x /\ b = [buf EXCEPT ![i] = c]
  <2>1. PICK i \in 1..N : buf[i].t = x /\ b = [buf EXCEPT ![i] = c]
    BY <1>2, <1>9
  <2>2. Len(b) = N /\ DOMAIN b = 1..N
    BY <1>1, <1>2, <2>1
  <2>3. \A k \in 1..N : b[k] = IF k = i THEN c ELSE buf[k]
    BY <1>1, <1>2, <2>1
  <2>4. \A k \in 1..N : b[k].t = a + k - 1
    BY <1>4, <1>6, <2>1, <2>3
  <2>5. b # <<>> /\ Line(b) /\ First(b) = a /\ End(b) = a + N - 1
    BY <1>2, <1>3, <2>2, <2>4 DEF Line, First, End
  <2>6. \A d \in Rows(b) : d = c \/ (d \in Rows(buf) /\ d.t # x)
    <3> SUFFICES ASSUME NEW k \in 1..N PROVE b[k] = c \/ (b[k] \in Rows(buf) /\ b[k].t # x)
      BY <2>2 DEF Rows
    <3>1. CASE k = i
      BY <2>3, <3>1
    <3>2. CASE k # i
      <4>1. b[k] = buf[k] /\ buf[k].t # x
        BY <1>4, <2>1, <2>3, <3>2
      <4> QED BY <1>2, <4>1 DEF Rows
    <3> QED BY <3>1, <3>2
  <2>7. c \in Rows(b)
    BY <2>2, <2>3 DEF Rows
  <2> QED BY <1>2, <1>5, <1>6, <1>7, <2>5, <2>6, <2>7 DEF Over
<1>10. CASE b = Newest(Append(buf, c)) /\ x = a + N
  <2>1. PICK e \in Seq(Candle) : e = Append(buf, c)
    <3>1. Append(buf, c) \in Seq(Candle)
      BY <1>1
    <3> QED BY <3>1
  <2>2. Len(e) = N + 1 /\ e[N + 1] = c /\ \A k \in 1..N : e[k] = buf[k]
    BY <1>1, <1>2, <2>1
  <2>3. \A k \in 1..(N + 1) : e[k].t = a + k - 1
    <3>1. e[N + 1].t = a + N
      BY <1>6, <1>10, <2>2
    <3>2. \A k \in 1..(N + 1) : k = N + 1 \/ k \in 1..N
      OBVIOUS
    <3>3. \A k \in 1..N : e[k].t = a + k - 1
      BY <1>4, <2>2
    <3>4. (N + 1) - 1 = N
      OBVIOUS
    <3> QED BY <3>1, <3>2, <3>3
  <2>4. \A k \in 1..(N + 1) : e[k] = c \/ (e[k] \in Rows(buf) /\ e[k].t # x)
    <3> SUFFICES ASSUME NEW k \in 1..(N + 1) PROVE e[k] = c \/ (e[k] \in Rows(buf) /\ e[k].t # x)
      OBVIOUS
    <3>1. CASE k = N + 1
      BY <2>2, <3>1
    <3>2. CASE k # N + 1
      <4>1. k \in 1..N /\ e[k] = buf[k]
        BY <2>2, <3>2
      <4>2. e[k].t = a + k - 1
        BY <2>3
      <4>3. a + k - 1 # a + N
        BY <1>1, <4>1
      <4> QED BY <1>2, <1>10, <4>1, <4>2, <4>3 DEF Rows
    <3> QED BY <3>1, <3>2
  <2>5. CASE N + 1 <= MaxRows
    <3>1. b = e
      BY <1>10, <2>1, <2>2, <2>5, NewestIs
    <3>2. DOMAIN b = 1..(N + 1) /\ b # <<>> /\ Line(b) /\ First(b) = a /\ End(b) = a + N
      <4>1. DOMAIN b = 1..(N + 1) /\ Len(b) = N + 1 /\ b # <<>>
        BY <1>1, <2>1, <2>2, <3>1
      <4>2. 1 \in 1..(N + 1) /\ N + 1 \in 1..(N + 1) /\ a + 1 - 1 = a /\ a + (N + 1) - 1 = a + N
        BY <1>1
      <4>3. b[1].t = a /\ b[N + 1].t = a + N
        <5>1. b[1].t = a + 1 - 1 /\ b[N + 1].t = a + (N + 1) - 1
          BY <2>3, <3>1, <4>2
        <5> QED BY <4>2, <5>1
      <4>4. Line(b)
        BY <2>3, <3>1, <4>1, <4>3 DEF Line
      <4> QED BY <4>1, <4>3, <4>4 DEF First, End
    <3>3. \A d \in Rows(b) : d = c \/ (d \in Rows(buf) /\ d.t # x)
      BY <2>4, <3>1, <3>2 DEF Rows
    <3>4. c \in Rows(b)
      BY <2>2, <3>1, <3>2 DEF Rows
    <3>5. \A d \in Rows(b) : (d \in {c} /\ d.t \in {c.t}) \/ (d \in Rows(buf) /\ d.t \notin {c.t})
      BY <1>6, <3>3
    <3>6. End(b) >= End(buf) /\ End(b) \in {c.t} /\ First(b) >= First(buf) /\ First(b) = First(buf)
      BY <1>2, <1>5, <1>6, <1>10, <3>2
    <3> QED BY <1>7, <3>2, <3>4, <3>5, <3>6 DEF Over
  <2>6. CASE N + 1 > MaxRows
    <3>1. N = MaxRows
      BY <1>1, <1>2, <2>6
    <3>2. Len(b) = N /\ \A k \in 1..N : b[k] = e[k + 1]
      BY <1>10, <2>1, <2>2, <3>1, NewestIs
    <3>3. DOMAIN b = 1..N
      BY <1>8, <3>2
    <3>4. \A k \in 1..N : b[k].t = a + k
      <4>1. \A k \in 1..N : k + 1 \in 1..(N + 1) /\ a + (k + 1) - 1 = a + k
        OBVIOUS
      <4> QED BY <2>3, <3>2, <4>1
    <3>5. b # <<>> /\ Line(b) /\ First(b) = a + 1 /\ End(b) = a + N
      BY <1>2, <3>2, <3>3, <3>4 DEF Line, First, End
    <3>6. \A d \in Rows(b) : d = c \/ (d \in Rows(buf) /\ d.t # x)
      BY <2>4, <3>2, <3>3 DEF Rows
    <3>7. c \in Rows(b)
      BY <1>2, <2>2, <3>2, <3>3 DEF Rows
    <3>8. \A d \in Rows(b) : (d \in {c} /\ d.t \in {c.t}) \/ (d \in Rows(buf) /\ d.t \notin {c.t})
      BY <1>6, <3>6
    <3>9. /\ End(b) >= End(buf) /\ End(b) \in {c.t} /\ First(b) >= First(buf)
          /\ First(b) = End(b) - MaxRows + 1
      BY <1>2, <1>5, <1>6, <1>10, <3>1, <3>5
    <3> QED BY <1>7, <3>5, <3>7, <3>8, <3>9 DEF Over
  <2> QED BY <1>1, <1>2, <2>5, <2>6
<1>11. (\E i \in DOMAIN buf : buf[i].t = x /\ b = [buf EXCEPT ![i] = c]) \/ (b = Newest(Append(buf, c)) /\ x = a + N)
  <2>1. \/ \E i \in DOMAIN buf : buf[i].t = x /\ b = [buf EXCEPT ![i] = c]
        \/ /\ b = Newest(Append(buf, c))
           /\ buf[N].t # x /\ (x < buf[N].t => \A i \in DOMAIN buf : buf[i].t # x)
    BY <1>1, <1>2, <1>6, <1>7, PushCases
  <2>2. ASSUME buf[N].t # x, x < buf[N].t => \A i \in DOMAIN buf : buf[i].t # x
        PROVE  x = a + N
    <3>1. buf[N].t = a + N - 1 /\ a <= x /\ x <= a + N
      BY <1>2, <1>4, <1>5, <1>6
    <3>2. ASSUME x < a + N - 1 PROVE FALSE
      <4>1. PICK i \in 1..N : i = x - a + 1
        BY <1>2, <3>1, <3>2
      <4>2. buf[i].t = x
        BY <1>4, <4>1
      <4> QED BY <1>2, <2>2, <3>1, <3>2, <4>2
    <3> QED BY <2>2, <3>1, <3>2
  <2> QED BY <2>1, <2>2
<1> QED BY <1>9, <1>10, <1>11

\* A candle that arrives when there may be none yet.
Took(buf, after, c) ==
  /\ after \in Buffers /\ after # <<>> /\ Line(after) /\ c \in Rows(after)
  /\ \A d \in Rows(after) : d = c \/ (d \in Rows(buf) /\ d.t # c.t)
  /\ buf = <<>> => First(after) = c.t /\ End(after) = c.t
  /\ buf # <<>> => /\ End(after) >= End(buf) /\ (End(after) = End(buf) \/ End(after) = c.t)
                   /\ First(after) >= First(buf)
                   /\ First(after) = First(buf) \/ First(after) = End(after) - MaxRows + 1

\* What push_or_update makes of a line, empty or not, and a candle that belongs to it.
LEMMA PushTook ==
  ASSUME NEW buf \in Buffers, Line(buf), NEW c \in Candle,
         buf # <<>> => First(buf) <= c.t /\ c.t <= End(buf) + 1
  PROVE  Took(buf, PushOrUpdate(buf, c), c)
<1>1. CASE buf # <<>>
  BY <1>1, PushLine DEF Over, Took
<1>2. CASE buf = <<>>
  <2>1. buf \in Seq(Candle) /\ DOMAIN buf = {}
    BY <1>2
  <2>2. PushOrUpdate(buf, c) = Newest(Append(buf, c))
    BY <2>1, PushCases
  <2>3. PICK e : e = Append(buf, c)
    OBVIOUS
  <2>4. e \in Seq(Candle) /\ Len(e) = 1 /\ e[1] = c /\ DOMAIN e = 1..1
    BY <1>2, <2>3
  <2>10. Len(e) <= MaxRows
    BY <2>4, KlineAssumption
  <2>5. PushOrUpdate(buf, c) = e
    BY <2>2, <2>3, <2>4, <2>10, NewestIs
  <2>6. e \in Buffers /\ e # <<>>
    <3>1. e # <<>>
      BY <2>3, <1>2
    <3> QED BY <2>4, <2>10, <3>1 DEF Buffers
  <2>7. c.t \in Nat
    BY DEF Candle, Minutes
  <2>8. Line(e) /\ First(e) = c.t /\ End(e) = c.t
    BY <2>4, <2>7 DEF Line, First, End
  <2>9. Rows(e) = {c}
    BY <2>4 DEF Rows
  <2> QED BY <1>2, <2>5, <2>6, <2>8, <2>9 DEF Took
<1> QED BY <1>1, <1>2

\* Closing the candle that has just been put in, and is closed, changes nothing.
LEMMA CloseSame ==
  ASSUME NEW buf \in Buffers, Line(buf), NEW c \in Rows(buf), c.closed
  PROVE  CloseCandle(buf, c.t) = buf
<1>1. buf \in Seq(Candle)
  BY DEF Buffers
<1>2. CASE CloseCandle(buf, c.t) = buf
  BY <1>2
<1>3. ASSUME NEW i \in DOMAIN buf, buf[i].t = c.t, CloseCandle(buf, c.t) = [buf EXCEPT ![i].closed = TRUE]
      PROVE  CloseCandle(buf, c.t) = buf
  <2>1. buf[i] \in Rows(buf) /\ buf # <<>>
    BY <1>1, <1>3 DEF Rows
  <2>2. buf[i] = c
    BY <1>1, <1>3, <2>1, LineIs
  <2>3. c \in Candle
    BY <1>1, <2>2, Item
  <2>4. [c EXCEPT !.closed = TRUE] = c
    BY <2>3 DEF Candle
  <2>5. [buf EXCEPT ![i] = c] = buf
    BY <1>1, <2>2
  <2>6. [buf EXCEPT ![i].closed = TRUE] = [buf EXCEPT ![i] = c]
    BY <2>2, <2>4
  <2> QED BY <1>3, <2>5, <2>6
<1> QED BY <1>1, <1>2, <1>3, CloseIs

\* The first i rows of a gap that begins with minute from have filled buf.
Part(buf, rows, from, i, b) ==
  /\ b \in Buffers /\ b # <<>> /\ Line(b)
  /\ End(b) = MaxOf(End(buf), from + i - 1)
  /\ First(b) >= First(buf)
  /\ First(b) = First(buf) \/ First(b) = End(b) - MaxRows + 1
  /\ \A d \in Rows(b) : \/ d \in Rows(rows) /\ from <= d.t /\ d.t < from + i
                        \/ d \in Rows(buf) /\ ~(from <= d.t /\ d.t < from + i)

\* One row more of a backfill.
LEMMA PartStep ==
  ASSUME NEW buf \in Buffers, buf # <<>>, Line(buf), NEW rows \in Seq(Candle), NEW from \in Nat,
         First(buf) < from, from <= End(buf) + 1,
         NEW i \in 1..Len(rows), rows[i].t = from + i - 1,
         NEW b, Part(buf, rows, from, i - 1, b)
  PROVE  Part(buf, rows, from, i, PushOrUpdate(b, rows[i]))
<1>1. PICK c \in Candle : c = rows[i] /\ c.t = from + i - 1 /\ c \in Rows(rows)
  BY Item DEF Rows
<1>2. buf \in Seq(Candle) /\ Len(buf) <= MaxRows
  BY DEF Buffers
<1>17. PICK r \in Nat : r = MaxRows /\ r >= 1
  BY KlineAssumption
<1>18. i \in Nat /\ i >= 1
  OBVIOUS
<1>3. PICK f \in Nat, e \in Nat : f = First(buf) /\ e = End(buf) /\ e - f + 1 <= r /\ f < from /\ from <= e + 1
  BY <1>2, <1>17, LineIs
<1>4. b \in Buffers /\ b # <<>> /\ Line(b) /\ b \in Seq(Candle) /\ Len(b) <= MaxRows
  BY DEF Part, Buffers
<1>5. PICK g \in Nat, h \in Nat : g = First(b) /\ h = End(b) /\ h - g + 1 <= r
  BY <1>4, <1>17, LineIs
<1>6. h = MaxOf(e, from + i - 2) /\ g >= f /\ (g = f \/ g = h - r + 1)
  <2>1. from + (i - 1) - 1 = from + i - 2
    BY <1>18
  <2> QED BY <1>3, <1>5, <1>17, <2>1 DEF Part
<1>7. r >= 1 /\ e - f + 1 <= r /\ f < from /\ from <= e + 1 /\ h - g + 1 <= r
  BY <1>3, <1>5, <1>17
<1>19. h >= e /\ h >= from + i - 2 /\ (h = e \/ h = from + i - 2) /\ g >= f /\ (g = f \/ g = h - r + 1)
  BY <1>6, <1>18 DEF MaxOf
<1>8. g <= from + i - 1 /\ from + i - 1 <= h + 1
  BY <1>7, <1>18, <1>19
<1>9. PICK after : after = PushOrUpdate(b, c)
  OBVIOUS
<1>10. Over(b, after, {c}, {c.t}) /\ c \in Rows(after)
  BY <1>1, <1>4, <1>5, <1>8, <1>9, PushLine
<1>11. after \in Buffers /\ after # <<>> /\ Line(after) /\ after \in Seq(Candle) /\ Len(after) <= MaxRows
  BY <1>10 DEF Over, Buffers
<1>12. PICK k \in Nat, m \in Nat : k = First(after) /\ m = End(after) /\ m - k + 1 <= r
                                   /\ from + i - 1 <= m
  <2>1. First(after) \in Nat /\ End(after) \in Nat /\ Len(after) \in Nat /\ c.t <= End(after)
    BY <1>10, <1>11, LineIs
  <2>2. End(after) - First(after) + 1 = Len(after)
    BY <1>11, LineIs
  <2> QED BY <1>1, <1>11, <1>17, <2>1, <2>2
<1>13. m >= h /\ (m = h \/ m = from + i - 1) /\ k >= g /\ (k = g \/ k = m - r + 1)
  BY <1>1, <1>5, <1>10, <1>12, <1>17 DEF Over
<1>20. m - k + 1 <= r /\ from + i - 1 <= m
  BY <1>12
<1>15. /\ m >= e /\ m >= from + i - 1 /\ (m = e \/ m = from + i - 1)
       /\ k >= f /\ (k = f \/ k = m - r + 1)
  BY <1>7, <1>13, <1>18, <1>19, <1>20
<1>14. m = MaxOf(e, from + i - 1) /\ k >= f /\ (k = f \/ k = m - r + 1)
  BY <1>15, <1>18 DEF MaxOf
<1>16. ASSUME NEW d \in Rows(after)
       PROVE  \/ d \in Rows(rows) /\ from <= d.t /\ d.t < from + i
              \/ d \in Rows(buf) /\ ~(from <= d.t /\ d.t < from + i)
  <2>1. CASE d = c
    BY <1>1, <1>18, <2>1
  <2>2. CASE d # c
    <3>1. d \in Rows(b) /\ d.t # from + i - 1
      BY <1>1, <1>10, <2>2 DEF Over
    <3>2. d.t \in Nat
      BY <1>4, <3>1, LineIs
    <3>3. \/ d \in Rows(rows) /\ from <= d.t /\ d.t < from + (i - 1)
          \/ d \in Rows(buf) /\ ~(from <= d.t /\ d.t < from + (i - 1))
      BY <3>1 DEF Part
    <3> QED BY <1>18, <3>1, <3>2, <3>3
  <2> QED BY <2>1, <2>2
<1> QED
  BY <1>1, <1>3, <1>9, <1>11, <1>12, <1>14, <1>16, <1>17 DEF Part

\* The rows of a gap, which begins behind a candle there is.
LEMMA FilledLine ==
  ASSUME NEW buf \in Buffers, buf # <<>>, Line(buf), NEW rows \in Seq(Candle),
         NEW from \in Nat, NEW to \in Nat, from < to, Len(rows) = to - from,
         \A i \in DOMAIN rows : rows[i].t = from + i - 1,
         First(buf) < from, from <= End(buf) + 1
  PROVE  /\ Over(buf, Filled(buf, rows, from..(to - 1)), Rows(rows), from..(to - 1))
         /\ End(Filled(buf, rows, from..(to - 1))) >= to - 1
<1> DEFINE S == {p \in Nat \X Seq(Candle) : Part(buf, rows, from, p[1], p[2])}
           minutes == from..(to - 1)
<1>1. buf \in Seq(Candle) /\ Len(buf) <= MaxRows /\ MaxRows \in Nat /\ MaxRows >= 1
  BY KlineAssumption DEF Buffers
<1>2. PICK f \in Nat, e \in Nat : f = First(buf) /\ e = End(buf)
  BY <1>1, LineIs
<1>3. <<0, buf>> \in S
  <2>1. End(buf) = MaxOf(End(buf), from + 0 - 1)
    BY <1>2 DEF MaxOf
  <2>2. \A d \in Rows(buf) : d.t \in Nat
    BY <1>1, LineIs
  <2>3. \A d \in Rows(buf) : ~(from <= d.t /\ d.t < from + 0)
    BY <2>2
  <2>4. First(buf) >= First(buf)
    BY <1>2
  <2>5. Part(buf, rows, from, 0, buf)
    BY <2>1, <2>3, <2>4 DEF Part
  <2> QED BY <1>1, <2>5
<1>4. ASSUME NEW i \in 1..Len(rows), NEW b \in Seq(Candle), <<i - 1, b>> \in S
      PROVE  <<i, Put(b, rows[i], minutes)>> \in S
  <2>1. rows[i].t = from + i - 1 /\ rows[i] \in Candle /\ i \in Nat
    OBVIOUS
  <2>2. rows[i].t \in minutes
    BY <2>1
  <2>3. Put(b, rows[i], minutes) = PushOrUpdate(b, rows[i])
    BY <2>2 DEF Put
  <2>4. Part(buf, rows, from, i, PushOrUpdate(b, rows[i]))
    BY <1>4, <2>1, PartStep
  <2>5. PushOrUpdate(b, rows[i]) \in Seq(Candle)
    BY <2>1, PushSeq
  <2> QED BY <2>1, <2>3, <2>4, <2>5
<1>5. <<Len(rows), Filled(buf, rows, minutes)>> \in S
  <2> HIDE DEF S, minutes
  <2> QED BY <1>1, <1>3, <1>4, FilledBy
<1>6. PICK b : b = Filled(buf, rows, minutes)
  OBVIOUS
<1>7. Part(buf, rows, from, to - from, b)
  BY <1>5, <1>6
<1>8. b \in Buffers /\ b # <<>> /\ Line(b) /\ b \in Seq(Candle)
  BY <1>7 DEF Part, Buffers
<1>9. PICK m \in Nat : m = End(b)
  BY <1>8, LineIs
<1>10. m = MaxOf(e, to - 1)
  <2>1. from + (to - from) - 1 = to - 1
    OBVIOUS
  <2> QED BY <1>2, <1>7, <1>9, <2>1 DEF Part
<1>11. m >= e /\ m >= to - 1 /\ (m = e \/ m \in minutes)
  BY <1>2, <1>10 DEF MaxOf
<1>12. ASSUME NEW d \in Rows(b)
       PROVE  (d \in Rows(rows) /\ d.t \in minutes) \/ (d \in Rows(buf) /\ d.t \notin minutes)
  <2>1. d.t \in Nat
    BY <1>8, LineIs
  <2>2. from + (to - from) = to
    OBVIOUS
  <2>3. \/ d \in Rows(rows) /\ from <= d.t /\ d.t < to
        \/ d \in Rows(buf) /\ ~(from <= d.t /\ d.t < to)
    BY <1>7, <2>2 DEF Part
  <2> QED BY <2>1, <2>3
<1>13. First(b) >= First(buf) /\ (First(b) = First(buf) \/ First(b) = End(b) - MaxRows + 1)
  BY <1>7 DEF Part
<1> QED BY <1>2, <1>6, <1>8, <1>9, <1>11, <1>12, <1>13 DEF Over
-----------------------------------------------------------------------------
(* The invariant: as long as nothing fails, the cache has no hole *)

Cached == Rows(m1)
OnWire == Rows(wire)
Filling(t) == job[t].at \in {"fetch", "fetched"}
Loading(t) == job[t].at \in {"load", "loaded"}

\* The cache ends in a minute the process has seen.
Lined ==
  /\ Line(m1)
  /\ m1 # <<>> => Start <= End(m1) /\ End(m1) <= now

\* Before the entry there is nothing; the symbol is asked for from the entry on, and the
\* caller waits for its backfill.
Begun ==
  /\ ~Entered => /\ m1 = <<>> /\ ~check /\ \A t \in Tasks : job[t].at = "idle"
                 /\ \A c \in OnWire : c.v = 0
  /\ wanted <=> Entered
  /\ call = "no" => ws = "off" /\ now = Start
  /\ job["caller"].at # "idle" => call = "filling"

\* A closed candle is final, or was taken before its minute was over.
Values ==
  /\ \A c \in Cached : c.closed => (c.v = 2 /\ c.t < now) \/ c.t \in half
  /\ \A u \in half : u <= now

\* If the present minute counts as closed, everything up to the last but one is.
Halved == \A c, d \in Cached : c.closed /\ c.t = now /\ d.t <= now - 2 => d.closed

\* A task began in this minute or the last; the gap it fills is not long, and the cache
\* reaches from before the gap, where it is closed, to the gap.
Begins(t) == job[t].at # "idle" => now - 1 <= job[t].to /\ Start <= job[t].to
Fills(t) ==
  Filling(t) =>
    /\ m1 # <<>> /\ First(m1) < job[t].from /\ job[t].from <= End(m1) + 1
    /\ job[t].from < job[t].to /\ job[t].to - 4 <= job[t].from
    /\ \A c \in Cached : c.t = job[t].from - 1 => c.closed
Fetched(t) ==
  job[t].at = "fetched" =>
    /\ Len(job[t].rows) = job[t].to - job[t].from
    /\ \A i \in DOMAIN job[t].rows :
         /\ job[t].rows[i].t = job[t].from + i - 1
         /\ job[t].rows[i].v = 2 /\ job[t].rows[i].closed
Loads(t) ==
  job[t].at = "loaded" =>
    /\ job[t].rows # <<>> /\ Line(job[t].rows)
    /\ job[t].to <= End(job[t].rows) /\ End(job[t].rows) <= now
    /\ First(job[t].rows) = MaxOf(0, End(job[t].rows) - MaxRows + 1)
    /\ \A c \in Rows(job[t].rows) :
         c.closed /\ (c.v = 1 \/ c.v = 2) /\ (c.v = 2 => c.t < End(job[t].rows))
Jobs == \A t \in Tasks : Begins(t) /\ Fills(t) /\ Fetched(t) /\ Loads(t)

\* What is on the wire is of this minute or the last, closes the last, and is not of a
\* minute before the cache.
Update1(c) == /\ now - 1 <= c.t /\ c.t <= now /\ Start <= c.t /\ c.v \in {0, 1, 2}
              /\ c.v = 1 => ~c.closed
              /\ c.v = 2 => c.closed /\ c.t = now - 1
              /\ c.v # 0 /\ m1 # <<>> => First(m1) <= c.t
Updates == \A c \in OnWire : Update1(c)

\* It is in the order of time, a minute's closing update is its last, and the next minute
\* begins behind it or behind the announcement of a reconnect.
InOrder(w) ==
  /\ \A i, j \in DOMAIN w : i < j => w[i].t <= w[j].t /\ (w[i].v = 2 => w[i].t < w[j].t)
  /\ \A i \in DOMAIN w : i + 1 \in DOMAIN w /\ w[i].v = 1 /\ w[i + 1].v = 1 => w[i].t = w[i + 1].t

\* The first attempt to connect is over within a minute; a connection that does not stream
\* yet has brought nothing, and is about to be asked to.
Connects ==
  /\ streaming => ws = "up" /\ wanted
  /\ ws = "up" /\ wanted /\ ~streaming => asked > 0 \/ call = "entered"
  /\ ws = "up" => reconnect
  /\ ~reconnect => wire = <<>> /\ (ws # "off" => ws = "connecting" /\ since = Start /\ now <= Start + 1)
  /\ ~reconnect \/ (ws = "up" /\ ~streaming) =>
       (\A c \in OnWire : c.v = 0) /\ \A c \in Cached : c.closed
  /\ ws = "up" /\ wanted /\ wire # <<>> =>
       wire[Len(wire)].v # 1 \/ wire[Len(wire)].t = now

\* An open candle in the middle of the cache: its closing update is on its way, or it came
\* after the load of the next minute.
Closing(n) == \E c \in OnWire : c.v = 2 /\ c.t = n
Good(n) == Closing(n) \/ (n + 1 \in half /\ \A c \in Cached : c.t = n - 1 => c.closed)
Holes == \A c \in Cached : ~c.closed /\ c.t < LastClosed(m1) => Good(c.t)

\* The next update finds the minutes before it, as the loop does not read on before its
\* own backfill is over.
Reaches(n) ==
  \/ m1 = <<>> \/ n <= End(m1) + 1
  \/ Filling("loop") /\ n <= job["loop"].to
  \/ Loading("loop")
Clears(n) ==
  \A c \in Cached : ~c.closed /\ c.t < n =>
    \/ Good(c.t) \/ Loading("loop")
    \/ Filling("loop") /\ job["loop"].from <= c.t /\ c.t < job["loop"].to
Ready(n) == Reaches(n) /\ Clears(n)
\* The minute of the next update, or the present one while the connection stands.
Due(n) ==
  \/ wire # <<>> /\ Head(wire).v # 0 /\ n = Head(wire).t
  \/ wire = <<>> /\ ws = "up" /\ wanted /\ n = now
Heads == \A n \in Nat : Due(n) => Ready(n)

\* The gap detection keeps the last closed candle near.
Late ==
  LastClosed(m1) # -1 =>
    now - LastClosed(m1) <= 3 + (IF check THEN 1 ELSE 0) + (IF Filling("timer") THEN 1 ELSE 0)

Whole == /\ Lined /\ Begun /\ Values /\ Halved /\ Jobs /\ Updates /\ InOrder(wire)
         /\ Connects /\ Holes /\ Heads /\ Late
\* The candles of a buffer are candles.
LEMMA RowsAre ==
  ASSUME NEW buf \in Seq(Candle), NEW c \in Rows(buf)
  PROVE  c \in Candle /\ c.t \in Nat /\ c.v \in Nat /\ c.closed \in BOOLEAN
BY Item DEF Rows

-----------------------------------------------------------------------------
(* The wire *)

\* What is left when the first update has been read.
LEMMA TailIs ==
  ASSUME NEW w \in Seq(Candle), w # <<>>, InOrder(w)
  PROVE  /\ Tail(w) \in Seq(Candle) /\ InOrder(Tail(w)) /\ Head(w) \in Rows(w)
         /\ Rows(w) = {Head(w)} \cup Rows(Tail(w))
         /\ Tail(w) # <<>> => Tail(w)[Len(Tail(w))] = w[Len(w)] /\ Head(Tail(w)) \in Rows(Tail(w))
         /\ Tail(w) = <<>> => w[Len(w)] = Head(w)
         /\ \A c \in Rows(Tail(w)) : Head(w).t <= c.t /\ (Head(w).v = 2 => Head(w).t < c.t)
         /\ Tail(w) # <<>> /\ Head(w).v = 1 /\ Head(Tail(w)).v = 1 => Head(w).t = Head(Tail(w)).t
<1>1. PICK N \in Nat : N = Len(w) /\ N >= 1 /\ DOMAIN w = 1..N
  OBVIOUS
<1>2. PICK x : x = Tail(w)
  OBVIOUS
<1>3. x \in Seq(Candle) /\ Len(x) = N - 1 /\ DOMAIN x = 1..(N - 1) /\ Head(w) = w[1]
  BY <1>1, <1>2
<1>4. \A i \in 1..(N - 1) : x[i] = w[i + 1] /\ i + 1 \in 1..N
  BY <1>1, <1>2
<1>5. \A i, j \in 1..N : i < j => w[i].t <= w[j].t /\ (w[i].v = 2 => w[i].t < w[j].t)
  BY <1>1 DEF InOrder
<1>6. \A i \in 1..N : i + 1 \in 1..N /\ w[i].v = 1 /\ w[i + 1].v = 1 => w[i].t = w[i + 1].t
  BY <1>1 DEF InOrder
<1>7. InOrder(x)
  <2>1. \A i, j \in 1..(N - 1) : i < j => x[i].t <= x[j].t /\ (x[i].v = 2 => x[i].t < x[j].t)
    <3>1. \A i, j \in 1..(N - 1) : i < j => i + 1 < j + 1
      OBVIOUS
    <3> QED BY <1>4, <1>5, <3>1
  <2>2. \A i \in 1..(N - 1) : i + 1 \in 1..(N - 1) /\ x[i].v = 1 /\ x[i + 1].v = 1 => x[i].t = x[i + 1].t
    BY <1>4, <1>6
  <2> QED BY <1>3, <2>1, <2>2 DEF InOrder
<1>8. \A c \in Rows(x) : \E i \in 2..N : c = w[i]
  <2>1. \A i \in 1..(N - 1) : i + 1 \in 2..N
    OBVIOUS
  <2> QED BY <1>3, <1>4, <2>1 DEF Rows
<1>9. \A i \in 2..N : w[i] \in Rows(x)
  <2> SUFFICES ASSUME NEW i \in 2..N PROVE w[i] \in Rows(x)
    OBVIOUS
  <2>1. PICK k \in 1..(N - 1) : k + 1 = i
    <3>1. i - 1 \in 1..(N - 1) /\ (i - 1) + 1 = i
      OBVIOUS
    <3> QED BY <3>1
  <2>2. w[i] = x[k] /\ k \in DOMAIN x
    BY <1>3, <1>4, <2>1
  <2> QED BY <2>2 DEF Rows
<1>10. w[1] \in Rows(w) /\ \A c \in Rows(w) : c = w[1] \/ \E i \in 2..N : c = w[i]
  <2>1. \A i \in 1..N : i = 1 \/ i \in 2..N
    OBVIOUS
  <2> QED BY <1>1, <2>1 DEF Rows
<1>11. Rows(w) = {Head(w)} \cup Rows(x)
  <2>1. \A c \in Rows(x) : c \in Rows(w)
    <3>1. 2..N \subseteq DOMAIN w
      BY <1>1
    <3> QED BY <1>8, <3>1 DEF Rows
  <2> QED BY <1>3, <1>9, <1>10, <2>1
<1>12. x # <<>> => x[Len(x)] = w[N] /\ Head(x) \in Rows(x) /\ Head(x) = w[2] /\ N >= 2
  <2> SUFFICES ASSUME x # <<>> PROVE x[Len(x)] = w[N] /\ Head(x) \in Rows(x) /\ Head(x) = w[2] /\ N >= 2
    OBVIOUS
  <2>1. N - 1 >= 1 /\ Head(x) = x[1]
    BY <1>3
  <2>2. 1 \in 1..(N - 1) /\ N - 1 \in 1..(N - 1)
    BY <2>1
  <2>3. x[1] = w[2] /\ x[N - 1] = w[N]
    BY <1>4, <2>2
  <2> QED BY <1>3, <2>1, <2>2, <2>3 DEF Rows
<1>13. x = <<>> => w[N] = Head(w)
  BY <1>1, <1>3
<1>14. \A c \in Rows(x) : Head(w).t <= c.t /\ (Head(w).v = 2 => Head(w).t < c.t)
  <2>1. \A i \in 2..N : 1 \in 1..N /\ i \in 1..N /\ 1 < i
    BY <1>1
  <2> QED BY <1>3, <1>5, <1>8, <2>1
<1>15. x # <<>> /\ Head(w).v = 1 /\ Head(x).v = 1 => Head(w).t = Head(x).t
  <2>1. N >= 2 => 1 \in 1..N /\ 1 + 1 \in 1..N /\ 1 + 1 = 2
    BY <1>1
  <2> QED BY <1>3, <1>6, <1>12, <2>1
<1> QED BY <1>1, <1>2, <1>3, <1>7, <1>10, <1>11, <1>12, <1>13, <1>14, <1>15

\* What is on the wire when an update has been sent.
LEMMA AppendIs ==
  ASSUME NEW w \in Seq(Candle), NEW c \in Candle
  PROVE  /\ Append(w, c) \in Seq(Candle) /\ Append(w, c) # <<>>
         /\ Rows(Append(w, c)) = Rows(w) \cup {c}
         /\ Append(w, c)[Len(Append(w, c))] = c
         /\ w # <<>> => Head(Append(w, c)) = Head(w)
         /\ w = <<>> => Head(Append(w, c)) = c
<1>1. PICK N \in Nat : N = Len(w) /\ DOMAIN w = 1..N
  OBVIOUS
<1>2. PICK x : x = Append(w, c)
  OBVIOUS
<1>3. x \in Seq(Candle) /\ Len(x) = N + 1 /\ DOMAIN x = 1..(N + 1) /\ x[N + 1] = c /\ \A i \in 1..N : x[i] = w[i]
  BY <1>1, <1>2
<1>4. Rows(x) = Rows(w) \cup {c}
  <2>1. \A i \in 1..(N + 1) : i \in 1..N \/ i = N + 1
    OBVIOUS
  <2>2. N + 1 \in 1..(N + 1) /\ \A i \in 1..N : i \in 1..(N + 1)
    OBVIOUS
  <2>3. \A d \in Rows(x) : d \in Rows(w) \cup {c}
    BY <1>1, <1>3, <2>1 DEF Rows
  <2>4. \A d \in Rows(w) \cup {c} : d \in Rows(x)
    BY <1>1, <1>3, <2>2 DEF Rows
  <2> QED BY <2>3, <2>4
<1>5. x # <<>> /\ Head(x) = x[1]
  BY <1>3
<1>6. w # <<>> => Head(w) = w[1] /\ 1 \in 1..N
  BY <1>1
<1>7. w = <<>> => N = 0
  BY <1>1
<1> QED BY <1>2, <1>3, <1>4, <1>5, <1>6, <1>7

\* An update of the present minute may follow what is of this minute or before.
LEMMA AppendOrder ==
  ASSUME NEW w \in Seq(Candle), NEW c \in Candle, InOrder(w),
         \A d \in Rows(w) : d.t <= c.t /\ (d.v = 2 => d.t < c.t),
         w # <<>> /\ c.v = 1 => w[Len(w)].v # 1 \/ w[Len(w)].t = c.t
  PROVE  InOrder(Append(w, c))
<1>1. PICK N \in Nat : N = Len(w) /\ DOMAIN w = 1..N
  OBVIOUS
<1>2. PICK x : x = Append(w, c)
  OBVIOUS
<1>3. DOMAIN x = 1..(N + 1) /\ x[N + 1] = c /\ \A i \in 1..N : x[i] = w[i]
  BY <1>1, <1>2
<1>4. ASSUME NEW i \in 1..(N + 1), NEW j \in 1..(N + 1), i < j
      PROVE  x[i].t <= x[j].t /\ (x[i].v = 2 => x[i].t < x[j].t)
  <2>1. i \in 1..N /\ x[i] = w[i]
    BY <1>3, <1>4
  <2>2. CASE j = N + 1
    <3>1. w[i] \in Rows(w)
      BY <1>1, <2>1 DEF Rows
    <3> QED BY <1>3, <2>1, <2>2, <3>1
  <2>3. CASE j # N + 1
    <3>1. j \in 1..N /\ x[j] = w[j]
      BY <1>3, <2>3
    <3> QED BY <1>1, <1>4, <2>1, <3>1 DEF InOrder
  <2> QED BY <2>2, <2>3
<1>5. ASSUME NEW i \in 1..(N + 1), i + 1 \in 1..(N + 1), x[i].v = 1, x[i + 1].v = 1
      PROVE  x[i].t = x[i + 1].t
  <2>1. i \in 1..N /\ x[i] = w[i]
    BY <1>3, <1>5
  <2>2. CASE i = N
    <3>1. w # <<>> /\ x[i + 1] = c /\ w[Len(w)] = x[i]
      BY <1>1, <1>3, <2>1, <2>2
    <3> QED BY <1>5, <3>1
  <2>3. CASE i # N
    <3>1. i + 1 \in 1..N /\ x[i + 1] = w[i + 1]
      BY <1>3, <2>1, <2>3
    <3> QED BY <1>1, <1>5, <2>1, <3>1 DEF InOrder
  <2> QED BY <2>2, <2>3
<1> QED BY <1>2, <1>3, <1>4, <1>5 DEF InOrder

-----------------------------------------------------------------------------
(* Steps of the clock, of the stream and of ws_main *)

\* The types of what the invariant speaks of.
LEMMA Facts ==
  ASSUME Typed
  PROVE  /\ now \in Nat /\ Start \in Nat /\ Start <= now /\ MaxRows \in Nat /\ MaxRows >= 1
         /\ m1 \in Buffers /\ m1 \in Seq(Candle) /\ Len(m1) <= MaxRows /\ wire \in Seq(Candle)
         /\ \A t \in Tasks : /\ job[t].to \in Nat /\ job[t].from \in Nat /\ job[t].to <= now
                             /\ job[t].rows \in Seq(Candle)
         /\ \A c \in OnWire : c \in Candle /\ c.t \in Nat /\ c.v \in Nat /\ c.closed \in BOOLEAN
<1>1. now \in Nat /\ Start \in Nat /\ Start <= now /\ MaxRows \in Nat /\ MaxRows >= 1
  BY ClockIs, KlineAssumption DEF Typed
<1>2. m1 \in Buffers /\ m1 \in Seq(Candle) /\ Len(m1) <= MaxRows /\ wire \in Seq(Candle)
  BY DEF Typed, CacheTyped, Buffers
<1>3. \A t \in Tasks : /\ job[t].to \in Nat /\ job[t].from \in Nat /\ job[t].to <= now
                       /\ job[t].rows \in Seq(Candle)
  BY DEF Typed, JobsTyped, JobState, Sound
<1>4. \A c \in OnWire : c \in Candle /\ c.t \in Nat /\ c.v \in Nat /\ c.closed \in BOOLEAN
  BY <1>2, RowsAre DEF OnWire
<1> QED BY <1>1, <1>2, <1>3, <1>4

\* The cache is a line.
LEMMA CachedAre ==
  ASSUME Typed, Lined
  PROVE  /\ LastClosed(m1) \in Nat \cup {-1}
         /\ \A c \in Cached : /\ c.t \in Nat /\ c.v \in Nat /\ c.closed \in BOOLEAN /\ c.t <= now
                              /\ First(m1) <= c.t /\ c.t <= End(m1) /\ m1 # <<>>
         /\ \A c, d \in Cached : c.t = d.t => c = d
         /\ m1 # <<>> => First(m1) \in Nat /\ End(m1) \in Nat /\ First(m1) <= End(m1)
         /\ \A n \in Nat : m1 # <<>> /\ First(m1) <= n /\ n <= End(m1) => \E c \in Cached : c.t = n
<1>1. m1 \in Seq(Candle) /\ now \in Nat
  BY Facts
<1>2. LastClosed(m1) \in Nat \cup {-1}
  BY <1>1, LastClosedInt
<1>3. CASE m1 = <<>>
  <2>1. Cached = {}
    BY <1>1, <1>3, EmptyRows DEF Cached
  <2> QED BY <1>2, <1>3, <2>1
<1>4. CASE m1 # <<>>
  <2>1. /\ First(m1) \in Nat /\ End(m1) \in Nat /\ First(m1) <= End(m1)
        /\ \A c \in Cached : /\ c.t \in Nat /\ c.v \in Nat /\ c.closed \in BOOLEAN
                             /\ First(m1) <= c.t /\ c.t <= End(m1)
        /\ \A c, d \in Cached : c.t = d.t => c = d
        /\ \A n \in First(m1)..End(m1) : \E c \in Cached : c.t = n
    BY <1>1, <1>4, LineIs DEF Lined, Cached
  <2>2. End(m1) <= now
    BY <1>4 DEF Lined
  <2>3. \A c \in Cached : c.t <= now
    BY <1>1, <2>1, <2>2
  <2>4. \A n \in Nat : First(m1) <= n /\ n <= End(m1) => \E c \in Cached : c.t = n
    BY <2>1
  <2> QED BY <1>2, <1>4, <2>1, <2>3, <2>4
<1> QED BY <1>3, <1>4

\* The last closed candle, in the cache.
LEMMA LastIs ==
  ASSUME Typed, Lined
  PROVE  \/ LastClosed(m1) = -1 /\ \A c \in Cached : ~c.closed
         \/ /\ LastClosed(m1) \in Nat
            /\ \E c \in Cached : c.closed /\ c.t = LastClosed(m1)
            /\ \A c \in Cached : c.closed => c.t <= LastClosed(m1)
<1>1. m1 \in Seq(Candle)
  BY Facts
<1> QED BY <1>1, LastClosedLine DEF Lined, Cached

\* While the cache stays as it is and nothing is taken off the wire but announcements.
LEMMA GoodKept ==
  ASSUME UNCHANGED <<m1, half>>, \A k : Closing(k) => Closing(k)', NEW n
  PROVE  Good(n) => Good(n)'
BY DEF Good, Cached

\* What is ready stays ready.
LEMMA ReadyKept ==
  ASSUME UNCHANGED <<m1, half>>, \A k : Closing(k) => Closing(k)',
         Loading("loop") => Loading("loop")',
         Filling("loop") => Filling("loop")' /\ job'["loop"].from = job["loop"].from /\ job'["loop"].to = job["loop"].to,
         NEW n, Ready(n)
  PROVE  Ready(n)'
<1>1. Reaches(n)'
  BY DEF Ready, Reaches
<1>2. Clears(n)'
  <2> SUFFICES ASSUME NEW c \in Cached', ~c.closed, c.t < n
               PROVE  \/ Good(c.t)' \/ Loading("loop")'
                      \/ Filling("loop")' /\ job'["loop"].from <= c.t /\ c.t < job'["loop"].to
    BY DEF Clears
  <2>1. c \in Cached
    BY DEF Cached
  <2>2. \/ Good(c.t) \/ Loading("loop")
        \/ Filling("loop") /\ job["loop"].from <= c.t /\ c.t < job["loop"].to
    BY <2>1 DEF Ready, Clears
  <2>3. Good(c.t) => Good(c.t)'
    BY GoodKept
  <2> QED BY <2>2, <2>3
<1> QED BY <1>1, <1>2 DEF Ready

\* What is covered stays covered.
LEMMA HolesKept ==
  ASSUME UNCHANGED <<m1, half>>, \A k : Closing(k) => Closing(k)', Holes
  PROVE  Holes'
<1> SUFFICES ASSUME NEW c \in Cached', ~c.closed, c.t < LastClosed(m1)' PROVE Good(c.t)'
  BY DEF Holes
<1>1. c \in Cached /\ c.t < LastClosed(m1)
  BY DEF Cached
<1>2. Good(c.t)
  BY <1>1 DEF Holes
<1> QED BY <1>2, GoodKept

\* What a minute begins with.
LEMMA Begins1 ==
  ASSUME Typed, Whole, Tick
  PROVE  /\ now' = now \/ now' = now + 1
         /\ check' = Entered
         /\ \A t \in Tasks : job[t].at = "idle" \/ job[t].to = now
         /\ \A c \in OnWire : c.t = now /\ c.v # 2
         /\ ws = "connecting" => since = now
         /\ Calling => now = Start
         /\ ws = "up" => asked = 0
         /\ ~check
         /\ \/ streaming /\ now' = now + 1 /\ wire' = Append(wire, [t |-> now, v |-> 2, closed |-> TRUE])
            \/ ~(streaming /\ now' > now) /\ wire' = wire
         /\ UNCHANGED <<stream, since, call, m1, high, job, faults, half>>
<1>1. now \in Nat /\ now <= MaxMinute
  BY ClockIs DEF Typed
<1>2. now' = now \/ now' = now + 1
  BY <1>1, KlineAssumption DEF Tick, MinOf
<1>3. \A c \in OnWire : c.t = now
  BY DEF Tick, Prompt, OnWire, Rows
<1>4. \A c \in OnWire : c.v # 2
  <2>1. \A c \in OnWire : c.v = 2 => c.t = now - 1
    BY DEF Whole, Updates, Update1
  <2> QED BY <1>1, <1>3, <2>1
<1>5. now' > now => now' = now + 1
  BY <1>1, <1>2
<1>6. \/ streaming /\ now' = now + 1 /\ wire' = Append(wire, [t |-> now, v |-> 2, closed |-> TRUE])
      \/ ~(streaming /\ now' > now) /\ wire' = wire
  <2>1. wire' = IF streaming /\ now' > now THEN Append(wire, [t |-> now, v |-> 2, closed |-> TRUE]) ELSE wire
    BY DEF Tick
  <2>2. CASE streaming /\ now' > now
    BY <1>5, <2>1, <2>2
  <2>3. CASE ~(streaming /\ now' > now)
    BY <2>1, <2>3
  <2> QED BY <2>2, <2>3
<1>7. UNCHANGED <<stream, since, call, m1, high, job, faults, half>>
  BY DEF Tick
<1>8. /\ check' = Entered
      /\ \A t \in Tasks : job[t].at = "idle" \/ job[t].to = now
      /\ ws = "connecting" => since = now
      /\ Calling => now = Start
      /\ ws = "up" => asked = 0
      /\ ~check
  BY DEF Tick, Prompt
<1> QED BY <1>2, <1>3, <1>4, <1>6, <1>7, <1>8

\* A minute is over.
LEMMA TickKept == ASSUME Typed, Whole, Tick PROVE Whole'
<1> DEFINE c0 == [t |-> now, v |-> 2, closed |-> TRUE]
<1>1. /\ now \in Nat /\ Start \in Nat /\ Start <= now /\ wire \in Seq(Candle) /\ m1 \in Seq(Candle)
  BY Facts
<1>2. now' = now \/ now' = now + 1
  BY Begins1
<1>3. UNCHANGED <<stream, since, call, m1, high, job, faults, half>>
  BY Begins1
<1>4. Entered' = Entered /\ Cached' = Cached
  BY <1>3 DEF Entered, Cached
<1>5. /\ \A c \in Cached : c.t \in Nat /\ c.t <= now /\ c.t <= End(m1)
      /\ m1 # <<>> => First(m1) \in Nat /\ End(m1) \in Nat /\ First(m1) <= End(m1)
  BY CachedAre DEF Whole
<1>6. m1 # <<>> => Start <= End(m1) /\ End(m1) <= now
  BY DEF Whole, Lined
<1>7. Lined'
  <2>1. m1 # <<>> => End(m1) <= now'
    BY <1>1, <1>2, <1>5, <1>6
  <2> QED BY <1>3, <1>6, <2>1 DEF Whole, Lined
<1>8. c0 \in Candle
  BY ClockIs DEF Typed, Candle
<1>10. Values' /\ Halved'
  <2>1. \A c \in Cached : c.closed => (c.v = 2 /\ c.t < now') \/ c.t \in half
    BY <1>1, <1>2, <1>5 DEF Whole, Values
  <2>2. \A u \in half : u <= now'
    <3>1. \A u \in half : u \in Nat /\ u <= now
      BY KlineAssumption DEF Whole, Values, Typed, ClockTyped, Minutes
    <3> QED BY <1>1, <1>2, <3>1
  <2>3. ASSUME NEW c \in Cached, NEW d \in Cached, c.closed, c.t = now', d.t <= now' - 2 PROVE d.closed
    <3>1. now' = now
      BY <1>1, <1>2, <1>5, <2>3
    <3> QED BY <2>3, <3>1 DEF Whole, Halved
  <2> QED BY <1>3, <1>4, <2>1, <2>2, <2>3 DEF Values, Halved
<1>11. Jobs'
  <2> SUFFICES ASSUME NEW t \in Tasks PROVE (Begins(t) /\ Fills(t) /\ Fetched(t) /\ Loads(t))'
    BY DEF Jobs
  <2>1. Begins(t) /\ Fills(t) /\ Fetched(t) /\ Loads(t)
    BY DEF Whole, Jobs
  <2>2. Begins(t)'
    <3>1. job[t].at = "idle" \/ job[t].to = now
      BY Begins1
    <3>2. now' - 1 <= now
      BY <1>1, <1>2
    <3> QED BY <1>1, <1>3, <3>1, <3>2 DEF Begins
  <2>3. Fills(t)' /\ Fetched(t)'
    BY <1>3, <1>4, <2>1 DEF Fills, Fetched, Filling
  <2>4. Loads(t)'
    <3> SUFFICES ASSUME job[t].at = "loaded" PROVE End(job[t].rows) <= now'
      BY <1>3, <2>1 DEF Loads
    <3>1. End(job[t].rows) \in Nat /\ End(job[t].rows) <= now
      BY <2>1, Facts, LineIs DEF Loads
    <3> QED BY <1>1, <1>2, <3>1
  <2> QED BY <2>2, <2>3, <2>4
<1>12. Late'
  <2> SUFFICES ASSUME LastClosed(m1) # -1
               PROVE  now' - LastClosed(m1) <= 3 + (IF check' THEN 1 ELSE 0) + (IF Filling("timer") THEN 1 ELSE 0)
    BY <1>3 DEF Late, Filling
  <2>1. Entered /\ check'
    <3>1. m1 # <<>>
      BY <1>1, LastIs, EmptyRows DEF Cached, Whole
    <3> QED BY <3>1, Begins1 DEF Whole, Begun
  <2>2. PICK k \in Nat : k = LastClosed(m1)
    BY LastIs DEF Whole
  <2>3. PICK f \in {0, 1} : f = IF Filling("timer") THEN 1 ELSE 0
    OBVIOUS
  <2>4. now - k <= 3 + 0 + f
    BY <2>2, <2>3, Begins1 DEF Whole, Late
  <2>5. now' - k <= 3 + 1 + f
    BY <1>1, <1>2, <2>4
  <2> QED BY <2>1, <2>2, <2>3, <2>5
<1>9. CASE wire' = wire /\ ~(streaming /\ now' > now)
  <2>1. OnWire' = OnWire /\ \A k : Closing(k)' <=> Closing(k)
    BY <1>9 DEF OnWire, Closing
  <2>2. Updates'
    <3> SUFFICES ASSUME NEW c \in OnWire PROVE Update1(c)'
      BY <2>1 DEF Updates
    <3>1. Update1(c) /\ c.t = now /\ c.v # 2
      BY Begins1 DEF Whole, Updates
    <3>2. now' - 1 <= c.t /\ c.t <= now'
      BY <1>1, <1>2, <3>1
    <3>3. /\ Start <= c.t /\ c.v \in {0, 1, 2} /\ (c.v = 1 => ~c.closed)
          /\ c.v # 0 /\ m1 # <<>> => First(m1) <= c.t
      BY <3>1 DEF Update1
    <3> QED BY <1>3, <3>1, <3>2, <3>3 DEF Update1
  <2>3. InOrder(wire)'
    BY <1>9 DEF Whole, InOrder
  <2>4. ws = "up" /\ wanted /\ now' > now =>
          (\A c \in OnWire : c.v = 0) /\ (\A c \in Cached : c.closed) /\ now = Start
    <3> SUFFICES ASSUME ws = "up", wanted, now' > now
                 PROVE  (\A c \in OnWire : c.v = 0) /\ (\A c \in Cached : c.closed) /\ now = Start
      OBVIOUS
    <3>1. ~streaming
      BY <1>9
    <3>2. asked = 0 /\ (asked > 0 \/ call = "entered")
      BY <3>1, Begins1 DEF Whole, Connects
    <3>3. call = "entered"
      BY <3>2
    <3>4. now = Start
      BY <3>3, Begins1 DEF Calling
    <3> QED BY <3>1, <3>4 DEF Whole, Connects
  <2>5. Connects'
    <3>1. ~reconnect => wire = <<>> /\ (ws # "off" => ws = "connecting" /\ since = Start /\ now' <= Start + 1)
      <4>1. ~reconnect /\ ws # "off" => since = now /\ now = Start
        BY Begins1 DEF Whole, Connects
      <4> QED BY <1>1, <1>2, <4>1 DEF Whole, Connects
    <3>2. ws = "up" /\ wanted /\ wire # <<>> => wire[Len(wire)].v # 1 \/ wire[Len(wire)].t = now'
      <4>1. CASE now' = now
        BY <4>1 DEF Whole, Connects
      <4>2. CASE now' # now
        <5>1. now' > now
          BY <1>1, <1>2, <4>2
        <5>2. wire # <<>> => wire[Len(wire)] \in OnWire
          BY <1>1 DEF OnWire, Rows
        <5> QED BY <2>4, <5>1, <5>2
      <4> QED BY <4>1, <4>2
    <3> QED BY <1>3, <1>4, <1>9, <2>1, <3>1, <3>2 DEF Whole, Connects, stream, connection
  <2>6. Heads'
    <3> SUFFICES ASSUME NEW n \in Nat, Due(n)' PROVE Ready(n)'
      BY DEF Heads
    <3>1. Ready(n) => Ready(n)'
      BY <1>3, <2>1, ReadyKept DEF Loading, Filling
    <3>2. CASE Due(n)
      BY <3>1, <3>2 DEF Whole, Heads
    <3>3. CASE ~Due(n)
      <4>1. wire = <<>> /\ ws = "up" /\ wanted /\ n = now' /\ now' # now
        BY <1>3, <1>9, <3>3 DEF Due, stream, connection
      <4>2. now' = now + 1 /\ now' > now
        BY <1>1, <1>2, <4>1
      <4>3. (\A c \in Cached : c.closed) /\ now = Start
        BY <2>4, <4>1, <4>2
      <4>4. Clears(n)'
        BY <1>4, <4>3 DEF Clears
      <4>5. m1 # <<>> => n <= End(m1) + 1
        BY <1>1, <1>5, <1>6, <4>1, <4>2, <4>3
      <4>6. Reaches(n)'
        BY <1>3, <4>5 DEF Reaches
      <4> QED BY <4>4, <4>6 DEF Ready
    <3> QED BY <3>2, <3>3
  <2>7. Begun'
    <3>1. call # "no" /\ UNCHANGED <<m1, job, wanted, ws, call>>
      BY <1>3 DEF Tick, stream, connection
    <3>2. ~Entered => /\ m1 = <<>> /\ ~check' /\ \A t \in Tasks : job[t].at = "idle"
                      /\ \A c \in OnWire : c.v = 0
      BY Begins1 DEF Whole, Begun
    <3>3. (wanted <=> Entered) /\ (job["caller"].at # "idle" => call = "filling")
      BY DEF Whole, Begun
    <3> QED BY <1>4, <2>1, <3>1, <3>2, <3>3 DEF Begun
  <2>8. Holes'
    BY <1>3, <2>1, HolesKept DEF Whole
  <2> QED BY <1>7, <1>10, <1>11, <1>12, <2>2, <2>3, <2>5, <2>6, <2>7, <2>8 DEF Whole
<1>13. CASE streaming /\ now' = now + 1 /\ wire' = Append(wire, c0)
  <2>1. ws = "up" /\ wanted /\ Entered /\ reconnect
    BY <1>13 DEF Whole, Connects, Begun
  <2> HIDE DEF c0
  <2>2. /\ wire' # <<>> /\ OnWire' = OnWire \cup {c0} /\ wire'[Len(wire')] = c0
        /\ (wire # <<>> => Head(wire') = Head(wire)) /\ (wire = <<>> => Head(wire') = c0)
    BY <1>1, <1>8, <1>13, AppendIs DEF OnWire
  <2>3. \A k : Closing(k) => Closing(k)'
    BY <2>2 DEF Closing
  <2>4. c0.t = now /\ c0.v = 2 /\ c0.closed
    BY DEF c0
  <2>5. Updates'
    <3> SUFFICES ASSUME NEW c \in OnWire \cup {c0} PROVE Update1(c)'
      BY <2>2 DEF Updates
    <3>1. CASE c = c0
      <4>1. m1 # <<>> => First(m1) <= now
        BY <1>1, <1>5, <1>6
      <4>2. now' - 1 <= now /\ now <= now' /\ now' - 1 = now
        BY <1>1, <1>13
      <4> QED BY <1>1, <1>3, <2>4, <3>1, <4>1, <4>2 DEF Update1
    <3>2. CASE c \in OnWire
      <4>1. Update1(c) /\ c.t = now /\ c.v # 2
        BY <3>2, Begins1 DEF Whole, Updates
      <4>2. now' - 1 <= c.t /\ c.t <= now'
        BY <1>1, <1>2, <4>1
      <4>3. /\ Start <= c.t /\ c.v \in {0, 1, 2} /\ (c.v = 1 => ~c.closed)
            /\ c.v # 0 /\ m1 # <<>> => First(m1) <= c.t
        BY <4>1 DEF Update1
      <4> QED BY <1>3, <4>1, <4>2, <4>3 DEF Update1
    <3> QED BY <3>1, <3>2
  <2>6. InOrder(wire)'
    <3>1. \A d \in Rows(wire) : d.t = now /\ d.v # 2
      BY Begins1 DEF OnWire
    <3>2. \A d \in Rows(wire) : d.t <= c0.t /\ (d.v = 2 => d.t < c0.t)
      BY <1>1, <2>4, <3>1
    <3>3. wire # <<>> /\ c0.v = 1 => wire[Len(wire)].v # 1 \/ wire[Len(wire)].t = c0.t
      BY <2>4
    <3>4. InOrder(Append(wire, c0))
      BY <1>1, <1>8, <3>2, <3>3, AppendOrder DEF Whole
    <3> QED BY <1>13, <3>4 DEF InOrder
  <2>7. Connects'
    <3>1. wire'[Len(wire')].v # 1
      BY <2>2, <2>4
    <3> QED BY <1>3, <1>13, <2>1, <3>1 DEF Whole, Connects, stream, connection
  <2>8. Heads'
    <3> SUFFICES ASSUME NEW n \in Nat, Due(n)' PROVE Ready(n)'
      BY DEF Heads
    <3>1. Due(n)
      BY <1>3, <2>1, <2>2, <2>4 DEF Due
    <3>2. Ready(n)
      BY <3>1 DEF Whole, Heads
    <3> QED BY <1>3, <2>3, <3>2, ReadyKept DEF Loading, Filling
  <2>9. Begun'
    BY <1>3, <1>4, <2>1, Begins1 DEF Whole, Begun, stream, connection
  <2>10. Holes'
    BY <1>3, <2>3, HolesKept DEF Whole
  <2> QED BY <1>7, <1>10, <1>11, <1>12, <2>5, <2>6, <2>7, <2>8, <2>9, <2>10 DEF Whole
<1> QED BY <1>9, <1>13, Begins1

\* What a step of ws_main or of the stream leaves alone.
LEMMA CacheKept ==
  ASSUME Typed, Whole, UNCHANGED <<now, check, m1, half, job>>
  PROVE  Lined' /\ Values' /\ Halved' /\ Jobs' /\ Late'
<1>1. Lined'
  BY DEF Whole, Lined
<1>2. Values'
  BY DEF Whole, Values, Cached
<1>3. Halved'
  BY DEF Whole, Halved, Cached
<1>4. Jobs'
  <2> SUFFICES ASSUME NEW t \in Tasks PROVE (Begins(t) /\ Fills(t) /\ Fetched(t) /\ Loads(t))'
    BY DEF Jobs
  <2>1. Begins(t) /\ Fills(t) /\ Fetched(t) /\ Loads(t)
    BY DEF Whole, Jobs
  <2> QED BY <2>1 DEF Begins, Fills, Fetched, Loads, Filling, Cached
<1>5. Late'
  BY DEF Whole, Late, Filling
<1> QED BY <1>1, <1>2, <1>3, <1>4, <1>5

\* What a step that leaves wire and cache alone preserves.
LEMMA WireKept ==
  ASSUME Typed, Whole, UNCHANGED <<now, check, m1, half, job, wire>>
  PROVE  /\ OnWire' = OnWire /\ Cached' = Cached
         /\ Lined' /\ Values' /\ Halved' /\ Jobs' /\ Late' /\ Updates' /\ InOrder(wire)' /\ Holes'
         /\ \A n \in Nat : Ready(n) => Ready(n)'
<1>1. OnWire' = OnWire /\ Cached' = Cached
  BY DEF OnWire, Cached
<1>2. \A k : Closing(k) => Closing(k)'
  BY <1>1 DEF Closing
<1>3. Updates'
  BY <1>1 DEF Whole, Updates, Update1
<1>4. InOrder(wire)'
  BY DEF Whole, InOrder
<1>5. Holes'
  BY <1>2, HolesKept DEF Whole
<1>6. ASSUME NEW n \in Nat, Ready(n) PROVE Ready(n)'
  BY <1>2, <1>6, ReadyKept DEF Loading, Filling
<1> QED BY <1>1, <1>3, <1>4, <1>5, <1>6, CacheKept

\* An update of the present minute is sent.
LEMMA UpdateKept == ASSUME Typed, Whole, Update PROVE Whole'
<1> DEFINE c0 == [t |-> now, v |-> 1, closed |-> FALSE]
<1>1. /\ now \in Nat /\ Start \in Nat /\ Start <= now /\ wire \in Seq(Candle) /\ m1 \in Seq(Candle)
      /\ \A c \in OnWire : c.t \in Nat
  BY Facts
<1>2. /\ streaming /\ wire' = Append(wire, c0)
      /\ UNCHANGED <<stream, now, since, check, call, m1, high, job, faults, half>>
  BY DEF Update, clock
<1>3. c0 \in Candle
  BY ClockIs DEF Typed, Candle
<1>4. ws = "up" /\ wanted /\ Entered /\ reconnect
  BY <1>2 DEF Whole, Connects, Begun
<1> HIDE DEF c0
<1>5. /\ wire' # <<>> /\ OnWire' = OnWire \cup {c0} /\ wire'[Len(wire')] = c0
      /\ (wire # <<>> => Head(wire') = Head(wire)) /\ (wire = <<>> => Head(wire') = c0)
  BY <1>1, <1>2, <1>3, AppendIs DEF OnWire
<1>6. \A k : Closing(k) => Closing(k)'
  BY <1>5 DEF Closing
<1>7. c0.t = now /\ c0.v = 1 /\ ~c0.closed
  BY DEF c0
<1>8. Updates'
  <2> SUFFICES ASSUME NEW c \in OnWire \cup {c0} PROVE Update1(c)'
    BY <1>5 DEF Updates
  <2>1. Update1(c)
    <3>1. m1 # <<>> => First(m1) <= now
      <4>1. m1 # <<>> => First(m1) \in Nat /\ End(m1) \in Nat /\ First(m1) <= End(m1) /\ End(m1) <= now
        BY CachedAre DEF Whole, Lined
      <4> QED BY <1>1, <4>1
    <3>2. Update1(c0)
      BY <1>1, <1>7, <3>1 DEF Update1
    <3> QED BY <3>2 DEF Whole, Updates
  <2> QED BY <1>2, <2>1 DEF Update1
<1>9. InOrder(wire)'
  <2>1. \A d \in Rows(wire) : d.t <= c0.t /\ (d.v = 2 => d.t < c0.t)
    <3>1. \A d \in Rows(wire) : d.t \in Nat /\ d.t <= now /\ (d.v = 2 => d.t = now - 1)
      BY <1>1 DEF Whole, Updates, Update1, OnWire
    <3> QED BY <1>1, <1>7, <3>1
  <2>2. wire # <<>> /\ c0.v = 1 => wire[Len(wire)].v # 1 \/ wire[Len(wire)].t = c0.t
    BY <1>4, <1>7 DEF Whole, Connects
  <2>3. InOrder(Append(wire, c0))
    BY <1>1, <1>3, <2>1, <2>2, AppendOrder DEF Whole
  <2> QED BY <1>2, <2>3 DEF InOrder
<1>10. Connects'
  <2>1. ws' = ws /\ wanted' = wanted /\ streaming' = streaming /\ reconnect' = reconnect
    BY <1>2 DEF stream, connection
  <2>2. wire'[Len(wire')].t = now'
    BY <1>2, <1>5, <1>7
  <2> QED BY <1>2, <1>4, <2>1, <2>2 DEF Connects
<1>11. Heads'
  <2> SUFFICES ASSUME NEW n \in Nat, Due(n)' PROVE Ready(n)'
    BY DEF Heads
  <2>1. Due(n)
    BY <1>2, <1>4, <1>5, <1>7 DEF Due
  <2>2. Ready(n)
    BY <2>1 DEF Whole, Heads
  <2> QED BY <1>2, <1>6, <2>2, ReadyKept DEF Loading, Filling
<1>12. Begun'
  BY <1>2, <1>4 DEF Whole, Begun, Entered, stream, connection
<1>13. Holes'
  BY <1>2, <1>6, HolesKept DEF Whole
<1> QED BY <1>2, <1>8, <1>9, <1>10, <1>11, <1>12, <1>13, CacheKept DEF Whole

\* Before there is a connection the cache is closed, and near the present.
LEMMA ConnectKept == ASSUME Typed, Whole, Connect PROVE Whole'
<1>1. /\ now \in Nat /\ Start \in Nat /\ Start <= now /\ wire \in Seq(Candle) /\ m1 \in Seq(Candle)
      /\ \A c \in OnWire : c.t \in Nat
  BY Facts
<1>2. /\ wire' = (IF reconnect THEN Append(wire, Reconnect) ELSE wire)
      /\ ws = "connecting" /\ ws' = "up" /\ reconnect' /\ streaming' = wanted
      /\ UNCHANGED <<wanted, asked, now, since, check, call, m1, high, job, faults, half>>
  BY DEF Connect, Connected, Establish, clock
<1>3. Reconnect \in Candle /\ Reconnect.t = now /\ Reconnect.v = 0
  BY ClockIs DEF Typed, Candle, Reconnect
<1>4. Entered' = Entered /\ Cached' = Cached
  BY <1>2 DEF Entered, Cached
<1>5. ~wanted => (\A c \in OnWire : c.v = 0) /\ Cached = {}
  BY <1>1, EmptyRows DEF Whole, Begun, Cached
<1>6. CASE ~reconnect
  <2>1. wire' = wire /\ wire = <<>> /\ (\A c \in Cached : c.closed) /\ now <= Start + 1
    BY <1>2, <1>6 DEF Whole, Connects
  <2>2. /\ OnWire' = OnWire /\ Lined' /\ Values' /\ Halved' /\ Jobs' /\ Late' /\ Updates'
        /\ InOrder(wire)' /\ Holes'
    BY <1>2, <2>1, WireKept
  <2>3. Begun'
    BY <1>2, <1>4, <2>2 DEF Whole, Begun
  <2>4. Connects'
    BY <1>2, <1>4, <1>5, <2>1, <2>2 DEF Connects
  <2>5. Heads'
    <3> SUFFICES ASSUME NEW n \in Nat, Due(n)' PROVE Ready(n)'
      BY DEF Heads
    <3>1. n = now
      BY <1>2, <2>1 DEF Due
    <3>2. m1 # <<>> => now <= End(m1) + 1
      <4>1. m1 # <<>> => End(m1) \in Nat /\ Start <= End(m1)
        BY CachedAre DEF Whole, Lined
      <4> QED BY <1>1, <2>1, <4>1
    <3>3. Reaches(n)'
      BY <1>2, <3>1, <3>2 DEF Reaches
    <3>4. Clears(n)'
      BY <1>4, <2>1 DEF Clears
    <3> QED BY <3>3, <3>4 DEF Ready
  <2> QED BY <2>2, <2>3, <2>4, <2>5 DEF Whole
<1>7. CASE reconnect
  <2>1. wire' = Append(wire, Reconnect)
    BY <1>2, <1>7
  <2>2. /\ wire' # <<>> /\ OnWire' = OnWire \cup {Reconnect} /\ wire'[Len(wire')] = Reconnect
        /\ (wire # <<>> => Head(wire') = Head(wire)) /\ (wire = <<>> => Head(wire') = Reconnect)
    BY <1>1, <1>3, <2>1, AppendIs DEF OnWire
  <2>3. \A k : Closing(k) => Closing(k)'
    BY <2>2 DEF Closing
  <2>4. Updates'
    <3> SUFFICES ASSUME NEW c \in OnWire \cup {Reconnect} PROVE Update1(c)'
      BY <2>2 DEF Updates
    <3>1. Update1(Reconnect)
      BY <1>1, <1>3 DEF Update1
    <3>2. Update1(c)
      BY <3>1 DEF Whole, Updates
    <3> QED BY <1>2, <3>2 DEF Update1
  <2>5. InOrder(wire)'
    <3>1. \A d \in Rows(wire) : d.t <= Reconnect.t /\ (d.v = 2 => d.t < Reconnect.t)
      <4>1. \A d \in Rows(wire) : d.t \in Nat /\ d.t <= now /\ (d.v = 2 => d.t = now - 1)
        BY <1>1 DEF Whole, Updates, Update1, OnWire
      <4> QED BY <1>1, <1>3, <4>1
    <3>2. InOrder(Append(wire, Reconnect))
      BY <1>1, <1>3, <3>1, AppendOrder DEF Whole
    <3> QED BY <2>1, <3>2 DEF InOrder
  <2>6. Begun'
    <3>1. ~Entered => \A c \in OnWire' : c.v = 0
      BY <1>3, <2>2 DEF Whole, Begun
    <3>2. /\ ~Entered => m1 = <<>> /\ ~check /\ \A t \in Tasks : job[t].at = "idle"
          /\ wanted <=> Entered
          /\ call # "no" /\ (job["caller"].at # "idle" => call = "filling")
      BY <1>2 DEF Whole, Begun
    <3> QED BY <1>2, <1>4, <3>1, <3>2 DEF Begun
  <2>7. Connects'
    <3>1. ~wanted => (\A c \in OnWire' : c.v = 0) /\ \A c \in Cached' : c.closed
      BY <1>3, <1>4, <1>5, <2>2
    <3>2. wire'[Len(wire')].v # 1
      BY <1>3, <2>2
    <3> QED BY <1>2, <3>1, <3>2 DEF Connects
  <2>8. Heads'
    <3> SUFFICES ASSUME NEW n \in Nat, Due(n)' PROVE Ready(n)'
      BY DEF Heads
    <3>1. Due(n)
      BY <1>3, <2>2 DEF Due
    <3>2. Ready(n)
      BY <3>1 DEF Whole, Heads
    <3> QED BY <1>2, <2>3, <3>2, ReadyKept DEF Loading, Filling
  <2>9. Holes'
    BY <1>2, <2>3, HolesKept DEF Whole
  <2> QED BY <1>2, <2>4, <2>5, <2>6, <2>7, <2>8, <2>9, CacheKept DEF Whole
<1> QED BY <1>6, <1>7

\* The other steps of ws_main.
LEMMA ManagerKept ==
  ASSUME Typed, Whole, Command \/ RetryConnect \/ Disconnect
  PROVE  Whole'
<1>1. UNCHANGED <<now, check, wanted, reconnect, call, m1, high, wire, job, faults, half>>
  BY DEF Command, RetryConnect, Disconnect, SendCommand, Retry, Again, Disconnected, Lose,
         Backoff, clock, engine, connection
<1>2. /\ OnWire' = OnWire /\ Cached' = Cached
      /\ Lined' /\ Values' /\ Halved' /\ Jobs' /\ Late' /\ Updates' /\ InOrder(wire)' /\ Holes'
      /\ \A n \in Nat : Ready(n) => Ready(n)'
  BY <1>1, WireKept
<1>3. ws' # "off" /\ ws # "off" /\ reconnect /\ (ws' = "up" => ws = "up")
  BY ConnectionAssumption
     DEF Command, RetryConnect, Disconnect, SendCommand, Retry, Again, Disconnected, Lose,
         Backoff, connection, Whole, Connects
<1>4. Begun'
  <2>1. call # "no" /\ Entered' = Entered
    BY <1>1, <1>3 DEF Whole, Begun, Entered
  <2> QED BY <1>1, <1>2, <2>1 DEF Whole, Begun
<1>5. Connects'
  <2>1. CASE Command
    <3>1. asked = 1
      BY <2>1 DEF Command, SendCommand, Typed, ConnectionTyped, StreamTypeOK
    <3>2. wanted
      BY <3>1 DEF Typed, ConnectionTyped, Whole, Begun, Entered
    <3>3. ws = "up" /\ ws' = "up" /\ streaming'
      BY <2>1 DEF Command, SendCommand, connection
    <3> QED BY <1>1, <1>3, <3>2, <3>3 DEF Whole, Connects
  <2>2. CASE RetryConnect \/ Disconnect
    <3>1. ws' # "up" /\ ~streaming'
      BY <2>2 DEF RetryConnect, Disconnect, Retry, Again, Disconnected, Lose, Backoff, Whole, Connects
    <3> QED BY <1>1, <1>3, <3>1 DEF Connects
  <2> QED BY <2>1, <2>2
<1>6. Heads'
  <2> SUFFICES ASSUME NEW n \in Nat, Due(n)' PROVE Ready(n)'
    BY DEF Heads
  <2>1. Due(n)
    BY <1>1, <1>3 DEF Due
  <2> QED BY <1>2, <2>1 DEF Whole, Heads
<1> QED BY <1>2, <1>4, <1>5, <1>6 DEF Whole

\* The symbol is asked for before there is anything in the cache.
LEMMA CallKept ==
  ASSUME Typed, Whole, StartEngine \/ Enter \/ SubscribeNow \/ CallAgain
  PROVE  Whole'
<1>1. UNCHANGED <<now, check, m1, high, wire, job, faults, half>>
  BY DEF StartEngine, Enter, SubscribeNow, CallAgain, clock
<1>2. /\ OnWire' = OnWire /\ Cached' = Cached
      /\ Lined' /\ Values' /\ Halved' /\ Jobs' /\ Late' /\ Updates' /\ InOrder(wire)' /\ Holes'
      /\ \A n \in Nat : Ready(n) => Ready(n)'
  BY <1>1, WireKept
<1>3. CASE StartEngine
  <2>1. /\ call = "no" /\ call' = "started" /\ ws = "off" /\ ws' = "connecting" /\ since' = now /\ now = Start
        /\ UNCHANGED <<reconnect, wanted, asked, streaming>>
    BY <1>3 DEF StartEngine, StartStream, StartConnection, Whole, Begun
  <2>2. Begun'
    BY <1>1, <1>2, <2>1 DEF Whole, Begun, Entered
  <2>3. Connects'
    <3>1. now' <= Start + 1
      BY <1>1, <2>1, KlineAssumption
    <3> QED BY <1>1, <1>2, <2>1, <3>1 DEF Whole, Connects
  <2>4. Heads'
    <3> SUFFICES ASSUME NEW n \in Nat, Due(n)' PROVE Ready(n)'
      BY DEF Heads
    <3>1. Due(n)
      BY <1>1, <2>1 DEF Due
    <3> QED BY <1>2, <3>1 DEF Whole, Heads
  <2> QED BY <1>2, <2>2, <2>3, <2>4 DEF Whole
<1>4. CASE Enter
  <2>1. /\ call = "started" /\ call' = "entered" /\ wanted' /\ ~Entered /\ Entered'
        /\ UNCHANGED <<connection, since, streaming>>
    BY <1>4 DEF Enter, Want, clock, Entered
  <2>2. m1 = <<>> /\ (\A c \in OnWire : c.v = 0) /\ Cached = {}
    BY <2>1, Facts, EmptyRows DEF Whole, Begun, Cached
  <2>3. Begun'
    <3>1. job["caller"].at = "idle"
      BY <2>1 DEF Whole, Begun, Tasks
    <3> QED BY <1>1, <2>1, <3>1 DEF Begun
  <2>4. Connects'
    <3>1. wire # <<>> => wire[Len(wire)].v # 1
      <4>1. wire # <<>> => wire[Len(wire)] \in OnWire
        BY Facts DEF OnWire, Rows
      <4> QED BY <2>2, <4>1
    <3> QED BY <1>1, <1>2, <2>1, <2>2, <3>1 DEF Whole, Connects, connection
  <2>5. Heads'
    <3>1. \A n \in Nat : Ready(n)'
      BY <1>1, <1>2, <2>2 DEF Ready, Reaches, Clears
    <3> QED BY <3>1 DEF Heads
  <2> QED BY <1>2, <2>3, <2>4, <2>5 DEF Whole
<1>5. CASE SubscribeNow \/ CallAgain
  <2>1. /\ UNCHANGED <<connection, wanted, since, streaming>>
        /\ Entered /\ Entered' /\ call' # "no"
        /\ asked' > 0 \/ (asked' = asked /\ call # "entered")
    BY <1>5 DEF SubscribeNow, CallAgain, Ask, clock, Entered, stream, Typed, ConnectionTyped, StreamTypeOK
  <2>2. Begun'
    <3>1. job["caller"].at = "idle"
      BY <1>5 DEF SubscribeNow, CallAgain, Whole, Begun
    <3> QED BY <1>1, <2>1, <3>1 DEF Whole, Begun
  <2>3. Connects'
    BY <1>1, <1>2, <2>1 DEF Whole, Connects, connection
  <2>4. Heads'
    <3> SUFFICES ASSUME NEW n \in Nat, Due(n)' PROVE Ready(n)'
      BY DEF Heads
    <3>1. Due(n)
      BY <1>1, <2>1 DEF Due, connection
    <3> QED BY <1>2, <3>1 DEF Whole, Heads
  <2> QED BY <1>2, <2>2, <2>3, <2>4 DEF Whole
<1> QED BY <1>3, <1>4, <1>5

-----------------------------------------------------------------------------
(* Steps of detect_and_backfill *)

\* A task goes on while the cache stays as it is.
LEMMA JobMoved ==
  ASSUME Typed, Whole, UNCHANGED <<now, m1, half>>, NEW t \in Tasks,
         \A u \in Tasks : u # t => job'[u] = job[u],
         Begins(t)', Fills(t)', Fetched(t)', Loads(t)'
  PROVE  Lined' /\ Values' /\ Halved' /\ Jobs'
<1>1. Lined'
  BY DEF Whole, Lined
<1>2. Values'
  BY DEF Whole, Values, Cached
<1>3. Halved'
  BY DEF Whole, Halved, Cached
<1>4. Jobs'
  <2> SUFFICES ASSUME NEW u \in Tasks, u # t PROVE (Begins(u) /\ Fills(u) /\ Fetched(u) /\ Loads(u))'
    BY DEF Jobs
  <2>1. Begins(u) /\ Fills(u) /\ Fetched(u) /\ Loads(u)
    BY DEF Whole, Jobs
  <2>2. job'[u] = job[u]
    OBVIOUS
  <2> QED BY <2>1, <2>2 DEF Begins, Fills, Fetched, Loads, Filling, Cached
<1> QED BY <1>1, <1>2, <1>3, <1>4

\* The gap begins behind the last closed candle, and is short.
LEMMA DetectKept ==
  ASSUME Typed, Whole, NEW t \in Tasks, Detect(t)
  PROVE  /\ UNCHANGED <<stream, now, since, m1, high, faults, half>>
         /\ \A u \in Tasks : u # t => job'[u] = job[u]
         /\ call' = call \/ (t = "caller" /\ call' = "ok" /\ job'[t].at = "idle")
         /\ \/ LastClosed(m1) = -1 /\ Loading(t)' /\ ~Filling(t)'
            \/ /\ LastClosed(m1) \in Nat /\ LastClosed(m1) + 1 < now /\ Filling(t)'
               /\ job'[t].from = LastClosed(m1) + 1 /\ job'[t].to = now
            \/ LastClosed(m1) \in Nat /\ now <= LastClosed(m1) + 1 /\ job'[t].at = "idle"
         /\ Lined' /\ Values' /\ Halved' /\ Jobs'
<1>1. now \in Nat /\ Start <= now /\ LastClosed(m1) \in Nat \cup {-1} /\ MaxRows \in Nat
  BY Facts, CachedAre DEF Whole
<1>2. UNCHANGED <<stream, now, since, m1, high, faults, half>>
  BY DEF Detect
<1>3. job \in [Tasks -> JobState]
  BY DEF Typed, JobsTyped
<1>4. CASE LastClosed(m1) = -1
  <2>1. job' = [job EXCEPT ![t] = [NoJob EXCEPT !.at = "load", !.to = now]] /\ call' = call
    BY <1>4 DEF Detect
  <2>2. job'[t].at = "load" /\ job'[t].to = now /\ \A u \in Tasks : u # t => job'[u] = job[u]
    BY <1>3, <2>1 DEF NoJob
  <2>3. Loading(t)' /\ ~Filling(t)'
    BY <2>2 DEF Loading, Filling
  <2>4. Begins(t)' /\ Fills(t)' /\ Fetched(t)' /\ Loads(t)'
    BY <1>1, <1>2, <2>2, <2>3, KlineAssumption DEF Begins, Fills, Fetched, Loads
  <2> QED BY <1>2, <1>4, <2>1, <2>2, <2>3, <2>4, JobMoved
<1>5. CASE LastClosed(m1) # -1 /\ Gap
  <2>1. job' = [job EXCEPT ![t] = [NoJob EXCEPT !.at = "fetch", !.from = LastClosed(m1) + 1, !.to = now]]
        /\ call' = call
    BY <1>5 DEF Detect
  <2>2. /\ job'[t].at = "fetch" /\ job'[t].from = LastClosed(m1) + 1 /\ job'[t].to = now
        /\ \A u \in Tasks : u # t => job'[u] = job[u]
    BY <1>3, <2>1 DEF NoJob
  <2>3. LastClosed(m1) \in Nat /\ LastClosed(m1) + 1 < now /\ Filling(t)'
    BY <1>1, <1>5, <2>2 DEF Gap, Filling
  <2>4. Begins(t)' /\ Fetched(t)' /\ Loads(t)'
    BY <1>1, <1>2, <2>2, KlineAssumption DEF Begins, Fetched, Loads
  <2>5. Fills(t)'
    <3>1. PICK k \in Nat : k = LastClosed(m1)
      BY <2>3
    <3>2. PICK d \in Cached : d.closed /\ d.t = k
      BY <1>5, <3>1, LastIs DEF Whole
    <3>3. /\ m1 # <<>> /\ First(m1) \in Nat /\ End(m1) \in Nat /\ First(m1) <= k /\ k <= End(m1)
          /\ \A c \in Cached : c.t = k => c.closed
      BY <3>2, CachedAre DEF Whole
    <3>4. now - k <= 5
      <4>1. PICK f \in {0, 1} : f = IF Filling("timer") THEN 1 ELSE 0
        OBVIOUS
      <4>2. PICK e \in {0, 1} : e = IF check THEN 1 ELSE 0
        OBVIOUS
      <4>3. now - k <= 3 + e + f
        BY <1>5, <3>1, <4>1, <4>2 DEF Whole, Late
      <4> QED BY <1>1, <4>3
    <3>5. job'[t].from = k + 1 /\ job'[t].to = now /\ k + 1 < now
      BY <2>2, <2>3, <3>1
    <3>6. /\ First(m1) < k + 1 /\ k + 1 <= End(m1) + 1 /\ now - 4 <= k + 1
          /\ \A c \in Cached : c.t = (k + 1) - 1 => c.closed
      BY <1>1, <3>3, <3>4
    <3> QED BY <1>2, <3>3, <3>5, <3>6 DEF Fills, Cached
  <2> QED BY <1>2, <2>1, <2>2, <2>3, <2>4, <2>5, JobMoved
<1>6. CASE LastClosed(m1) # -1 /\ ~Gap
  <2>1. job' = [job EXCEPT ![t] = NoJob] /\ Returns(t, TRUE)
    BY <1>6 DEF Detect
  <2>2. job'[t].at = "idle" /\ \A u \in Tasks : u # t => job'[u] = job[u]
    BY <1>3, <2>1 DEF NoJob
  <2>3. LastClosed(m1) \in Nat /\ now <= LastClosed(m1) + 1
    BY <1>1, <1>6 DEF Gap
  <2>4. Begins(t)' /\ Fills(t)' /\ Fetched(t)' /\ Loads(t)'
    BY <2>2 DEF Begins, Fills, Fetched, Loads, Filling
  <2>5. call' = call \/ (t = "caller" /\ call' = "ok" /\ job'[t].at = "idle")
    BY <2>1, <2>2 DEF Returns, Reported
  <2> QED BY <1>2, <2>2, <2>3, <2>4, <2>5, JobMoved
<1> QED BY <1>4, <1>5, <1>6

\* subscribe_market begins to fill the cache.
LEMMA CallerDetectsKept == ASSUME Typed, Whole, CallerDetects PROVE Whole'
<1>1. Detect("caller") /\ call = "filling" /\ UNCHANGED <<check, wire>> /\ "caller" \in Tasks
  BY DEF CallerDetects, Tasks
<1>2. /\ UNCHANGED <<stream, now, since, m1, high, faults, half>>
      /\ job'["loop"] = job["loop"] /\ job'["timer"] = job["timer"]
      /\ Lined' /\ Values' /\ Halved' /\ Jobs' /\ (call' = call \/ call' = "ok")
  BY <1>1, DetectKept DEF Tasks
<1>3. OnWire' = OnWire /\ Cached' = Cached /\ \A k : Closing(k) => Closing(k)'
  BY <1>1, <1>2 DEF OnWire, Cached, Closing
<1>4. Begun'
  <2>1. job'["caller"].at = "idle" \/ call' = call
    BY <1>1, DetectKept
  <2> QED BY <1>1, <1>2, <2>1 DEF Whole, Begun, Entered, stream
<1>5. Updates' /\ InOrder(wire)'
  BY <1>1, <1>2, <1>3 DEF Whole, Updates, Update1, InOrder
<1>6. Connects'
  BY <1>1, <1>2, <1>3 DEF Whole, Connects, stream, connection
<1>7. Holes'
  BY <1>2, <1>3, HolesKept DEF Whole
<1>8. Heads'
  <2> SUFFICES ASSUME NEW n \in Nat, Due(n)' PROVE Ready(n)'
    BY DEF Heads
  <2>1. Due(n)
    BY <1>1, <1>2 DEF Due, stream, connection
  <2>2. Ready(n)
    BY <2>1 DEF Whole, Heads
  <2> QED BY <1>2, <1>3, <2>2, ReadyKept DEF Loading, Filling
<1>9. Late'
  BY <1>1, <1>2 DEF Whole, Late, Filling
<1> QED BY <1>2, <1>4, <1>5, <1>6, <1>7, <1>8, <1>9 DEF Whole

\* kline_gap_detection has looked: if the last closed candle is far, it is on its way.
LEMMA TimerDetectsKept == ASSUME Typed, Whole, TimerDetects PROVE Whole'
<1>1. Detect("timer") /\ check /\ ~check' /\ wire' = wire /\ "timer" \in Tasks /\ ~Filling("timer")
  BY DEF TimerDetects, Tasks, Filling
<1>2. /\ UNCHANGED <<stream, now, since, m1, high, faults, half, call>>
      /\ job'["loop"] = job["loop"] /\ job'["caller"] = job["caller"]
      /\ \/ LastClosed(m1) = -1
         \/ LastClosed(m1) \in Nat /\ Filling("timer")'
         \/ LastClosed(m1) \in Nat /\ now <= LastClosed(m1) + 1 /\ job'["timer"].at = "idle"
      /\ Lined' /\ Values' /\ Halved' /\ Jobs'
  BY <1>1, DetectKept DEF Tasks
<1>3. OnWire' = OnWire /\ Cached' = Cached /\ \A k : Closing(k) => Closing(k)'
  BY <1>1, <1>2 DEF OnWire, Cached, Closing
<1>4. Begun'
  BY <1>1, <1>2 DEF Whole, Begun, Entered, stream
<1>5. Updates' /\ InOrder(wire)'
  BY <1>1, <1>2, <1>3 DEF Whole, Updates, Update1, InOrder
<1>6. Connects'
  BY <1>1, <1>2, <1>3 DEF Whole, Connects, stream, connection
<1>7. Holes'
  BY <1>2, <1>3, HolesKept DEF Whole
<1>8. Heads'
  <2> SUFFICES ASSUME NEW n \in Nat, Due(n)' PROVE Ready(n)'
    BY DEF Heads
  <2>1. Due(n)
    BY <1>1, <1>2 DEF Due, stream, connection
  <2>2. Ready(n)
    BY <2>1 DEF Whole, Heads
  <2> QED BY <1>2, <1>3, <2>2, ReadyKept DEF Loading, Filling
<1>9. Late'
  <2> SUFFICES ASSUME LastClosed(m1) # -1
               PROVE  now - LastClosed(m1) <= 3 + 0 + (IF Filling("timer")' THEN 1 ELSE 0)
    BY <1>1, <1>2 DEF Late, Filling
  <2>1. PICK k \in Nat : k = LastClosed(m1)
    BY <1>2
  <2>2. now - k <= 3 + 1 + 0
    BY <1>1, <2>1 DEF Whole, Late
  <2>3. CASE Filling("timer")'
    BY <2>1, <2>2, <2>3
  <2>4. CASE ~Filling("timer")'
    BY <1>2, <2>1, <2>4, Facts
  <2> QED BY <2>3, <2>4
<1> QED BY <1>2, <1>4, <1>5, <1>6, <1>7, <1>8, <1>9 DEF Whole

\* A reconnect: the loop makes the cache ready for whatever comes next.
LEMMA LoopDetectsKept == ASSUME Typed, Whole, LoopDetects PROVE Whole'
<1>1. /\ wire # <<>> /\ Head(wire).v = 0 /\ wire' = Tail(wire) /\ check' = check /\ "loop" \in Tasks
      /\ now \in Nat /\ wire \in Seq(Candle) /\ InOrder(wire)
  BY Facts DEF LoopDetects, Tasks, Whole
<1>2. /\ InOrder(wire') /\ Head(wire) \in OnWire /\ OnWire = {Head(wire)} \cup OnWire'
      /\ wire' # <<>> => wire'[Len(wire')] = wire[Len(wire)] /\ Head(wire') \in OnWire
  BY <1>1, TailIs DEF OnWire
<1>3. /\ UNCHANGED <<stream, now, since, m1, high, faults, half, call>>
      /\ job'["timer"] = job["timer"] /\ job'["caller"] = job["caller"]
      /\ Lined' /\ Values' /\ Halved' /\ Jobs'
      /\ ~Entered => UNCHANGED job
  <2>1. CASE Entered
    BY <1>1, <2>1, DetectKept DEF LoopDetects, Tasks
  <2>2. CASE ~Entered
    BY <1>1, <2>2, CacheKept DEF LoopDetects
  <2> QED BY <2>1, <2>2
<1>4. Cached' = Cached /\ Entered' = Entered /\ \A k : Closing(k) => Closing(k)'
  BY <1>1, <1>2, <1>3 DEF Cached, Entered, Closing
<1>5. Begun'
  BY <1>1, <1>2, <1>3, <1>4 DEF Whole, Begun, stream, connection
<1>6. InOrder(wire)'
  BY <1>2 DEF InOrder
<1>7. Updates'
  BY <1>2, <1>3 DEF Whole, Updates, Update1
<1>8. Connects'
  BY <1>1, <1>2, <1>3, <1>4 DEF Whole, Connects, stream, connection
<1>9. Holes'
  BY <1>3, <1>4, HolesKept DEF Whole
<1>10. Late'
  BY <1>1, <1>3 DEF Whole, Late, Filling
<1>11. Heads'
  <2> SUFFICES ASSUME NEW n \in Nat, Due(n)' PROVE Ready(n)'
    BY DEF Heads
  <2>1. n <= now
    <3>1. \A c \in OnWire : c.t \in Nat /\ c.t <= now
      BY Facts DEF Whole, Updates, Update1
    <3> QED BY <1>1, <1>2, <1>3, <3>1 DEF Due
  <2>2. CASE ~Entered
    <3>1. m1 = <<>> /\ Cached = {}
      BY <2>2, Facts, EmptyRows DEF Whole, Begun, Cached
    <3> QED BY <1>3, <1>4, <3>1 DEF Ready, Reaches, Clears
  <2>3. CASE Entered
    <3>0. Detect("loop")
      BY <2>3 DEF LoopDetects
    <3>1. \A k : Good(k) => Good(k)'
      BY <1>3, <1>4, GoodKept
    <3>2. CASE LastClosed(m1) = -1
      <4>1. Loading("loop")'
        BY <1>1, <3>0, <3>2, DetectKept
      <4> QED BY <4>1 DEF Ready, Reaches, Clears
    <3>3. CASE LastClosed(m1) # -1
      <4>1. PICK k \in Nat : k = LastClosed(m1)
        BY <3>3, LastIs DEF Whole
      <4>2. \E d \in Cached : d.closed /\ d.t = k
        BY <3>3, <4>1, LastIs DEF Whole
      <4>3. /\ m1 # <<>> /\ End(m1) \in Nat /\ k <= End(m1)
            /\ \A c \in Cached : c.t \in Nat /\ (c.t = k => c.closed)
        BY <4>2, CachedAre DEF Whole
      <4>4. \A c \in Cached : ~c.closed /\ c.t < k => Good(c.t)'
        BY <3>1, <4>1 DEF Whole, Holes
      <4>5. CASE k + 1 < now
        <5>1. Filling("loop")' /\ job'["loop"].from = k + 1 /\ job'["loop"].to = now
          BY <1>1, <3>0, <3>3, <4>1, <4>5, DetectKept
        <5>2. Reaches(n)'
          BY <2>1, <5>1 DEF Reaches
        <5>3. Clears(n)'
          <6> SUFFICES ASSUME NEW c \in Cached, ~c.closed, c.t < n
                       PROVE  Good(c.t)' \/ (k + 1 <= c.t /\ c.t < now)
            BY <1>4, <5>1 DEF Clears
          <6>1. c.t < now /\ (c.t < k \/ k + 1 <= c.t)
            BY <1>1, <2>1, <4>3
          <6> QED BY <4>4, <6>1
        <5> QED BY <5>2, <5>3 DEF Ready
      <4>6. CASE now <= k + 1
        <5>1. Reaches(n)'
          <6>1. n <= End(m1) + 1
            BY <1>1, <2>1, <4>3, <4>6
          <6> QED BY <1>3, <6>1 DEF Reaches
        <5>2. Clears(n)'
          <6> SUFFICES ASSUME NEW c \in Cached, ~c.closed, c.t < n PROVE Good(c.t)'
            BY <1>4 DEF Clears
          <6>1. c.t < k
            BY <1>1, <2>1, <4>3, <4>6
          <6> QED BY <4>4, <6>1
        <5> QED BY <5>1, <5>2 DEF Ready
      <4> QED BY <1>1, <4>5, <4>6
    <3> QED BY <3>2, <3>3
  <2> QED BY <2>2, <2>3
<1> QED BY <1>3, <1>5, <1>6, <1>7, <1>8, <1>9, <1>10, <1>11 DEF Whole

\* A task that goes on, but does not begin to fill or to load.
LEMMA GoesOn ==
  ASSUME Typed, Whole, UNCHANGED <<stream, clock, m1, wire, faults, half>>,
         NEW t \in Tasks, job[t].at # "idle", \A u \in Tasks : u # t => job'[u] = job[u],
         Filling(t)' <=> Filling(t), Loading(t) => Loading(t)',
         Filling(t) => job'[t].from = job[t].from /\ job'[t].to = job[t].to,
         Begins(t)', Fills(t)', Fetched(t)', Loads(t)',
         \/ call' = call /\ job'[t].at # "idle"
         \/ call' = (IF t = "caller" THEN "ok" ELSE call) /\ job'[t].at = "idle"
  PROVE  Whole'
<1>1. Lined' /\ Values' /\ Halved' /\ Jobs'
  BY JobMoved DEF clock
<1>2. OnWire' = OnWire /\ Cached' = Cached /\ \A k : Closing(k) => Closing(k)'
  BY DEF OnWire, Cached, Closing
<1>3. Entered /\ Entered' /\ (call' = "entered" <=> call = "entered")
  <2>1. Entered
    BY DEF Whole, Begun
  <2>2. t = "caller" => call = "filling"
    BY DEF Whole, Begun
  <2> QED BY <2>1, <2>2 DEF Entered
<1>4. Begun'
  <2>1. job'["caller"].at # "idle" => call' = "filling"
    <3>1. job["caller"].at # "idle" => call = "filling"
      BY DEF Whole, Begun
    <3>2. t # "caller" => job'["caller"] = job["caller"]
      BY DEF Tasks
    <3> QED BY <3>1, <3>2
  <2>2. wanted' /\ call' # "no"
    BY <1>3 DEF Whole, Begun, Entered, stream
  <2> QED BY <1>3, <2>1, <2>2 DEF Begun
<1>5. Updates' /\ InOrder(wire)'
  BY <1>2 DEF Whole, Updates, Update1, InOrder, clock
<1>6. Connects'
  BY <1>2, <1>3 DEF Whole, Connects, stream, connection, clock
<1>7. Holes'
  BY <1>2, HolesKept DEF Whole
<1>8. /\ Filling("loop") => /\ Filling("loop")' /\ job'["loop"].from = job["loop"].from
                            /\ job'["loop"].to = job["loop"].to
      /\ Loading("loop") => Loading("loop")'
      /\ Filling("timer")' <=> Filling("timer")
  BY DEF Tasks, Filling, Loading
<1>9. Heads'
  <2> SUFFICES ASSUME NEW n \in Nat, Due(n)' PROVE Ready(n)'
    BY DEF Heads
  <2>1. Due(n)
    BY DEF Due, stream, connection, clock
  <2>2. Ready(n)
    BY <2>1 DEF Whole, Heads
  <2> QED BY <1>2, <1>8, <2>2, ReadyKept
<1>10. Late'
  BY <1>8 DEF Whole, Late, clock
<1> QED BY <1>1, <1>4, <1>5, <1>6, <1>7, <1>9, <1>10 DEF Whole

\* The gap is shorter than what one request brings.
LEMMA FetchKept ==
  ASSUME Typed, Whole, MaxRows >= 7, NEW t \in Tasks, Fetch(t)
  PROVE  Whole'
<1> DEFINE rest == RestCandles(job[t].from, MinOf(job[t].to, job[t].from + MaxRows) - 1)
<1>1. /\ now \in Nat /\ MaxRows \in Nat /\ job[t].from \in Nat /\ job[t].to \in Nat /\ job[t].to <= now
  BY Facts
<1>2. now <= MaxMinute /\ job \in [Tasks -> JobState]
  BY ClockIs DEF Typed, JobsTyped
<1>3. Begins(t) /\ Fills(t) /\ Filling(t) /\ job[t].at = "fetch"
  BY DEF Whole, Jobs, Fetch, Filling
<1>4. job[t].from < job[t].to /\ job[t].to - 4 <= job[t].from
  BY <1>3 DEF Fills
<1>5. MinOf(job[t].to, job[t].from + MaxRows) = job[t].to
  BY <1>1, <1>4 DEF MinOf
<1>6. rest = RestCandles(job[t].from, job[t].to - 1)
  BY <1>5
<1> HIDE DEF rest
<1>7. /\ Len(rest) = job[t].to - job[t].from
      /\ \A i \in DOMAIN rest : rest[i] = RestCandle(job[t].from + i - 1) /\ i \in 1..(job[t].to - job[t].from)
  <2>1. job[t].to - 1 \in Int /\ job[t].to - 1 <= MaxMinute /\ job[t].from <= job[t].to - 1 + 1
    BY <1>1, <1>2, <1>4, KlineAssumption
  <2>2. /\ rest \in Seq(Candle) /\ Len(rest) = (job[t].to - 1) - job[t].from + 1
        /\ \A i \in DOMAIN rest : rest[i] = RestCandle(job[t].from + i - 1)
    BY <1>1, <1>6, <2>1, RestTyped
  <2>3. Len(rest) = job[t].to - job[t].from
    BY <1>1, <2>2
  <2> QED BY <2>2, <2>3
<1>8. job' = [job EXCEPT ![t].at = "fetched", ![t].rows = rest] /\ UNCHANGED <<stream, clock, call, m1, wire, faults, half>>
  BY DEF Fetch, rest
<1>9. /\ job'[t].at = "fetched" /\ job'[t].rows = rest /\ job'[t].from = job[t].from /\ job'[t].to = job[t].to
      /\ \A u \in Tasks : u # t => job'[u] = job[u]
  BY <1>2, <1>8 DEF JobState
<1>10. Begins(t)'
  BY <1>3, <1>8, <1>9 DEF Begins, clock
<1>11. Fills(t)'
  BY <1>3, <1>8, <1>9 DEF Fills, Filling, Cached
<1>12. Fetched(t)'
  <2> SUFFICES ASSUME NEW i \in DOMAIN rest
               PROVE  rest[i].t = job[t].from + i - 1 /\ rest[i].v = 2 /\ rest[i].closed
    BY <1>7, <1>9 DEF Fetched
  <2>1. rest[i] = RestCandle(job[t].from + i - 1) /\ i \in 1..(job[t].to - job[t].from)
    BY <1>7
  <2>2. job[t].from + i - 1 < now
    BY <1>1, <2>1
  <2> QED BY <2>1, <2>2 DEF RestCandle
<1>13. Loads(t)' /\ Filling(t)' /\ ~Loading(t)
  BY <1>3, <1>9 DEF Loads, Filling, Loading
<1> QED BY <1>3, <1>8, <1>9, <1>10, <1>11, <1>12, <1>13, GoesOn

\* A first load has been answered.
LEMMA LoadKept ==
  ASSUME Typed, Whole, NEW t \in Tasks, Load(t)
  PROVE  Whole'
<1>1. /\ now \in Nat /\ MaxRows \in Nat /\ MaxRows >= 1 /\ job[t].to \in Nat /\ job[t].to <= now
  BY Facts
<1>2. now <= MaxMinute /\ job \in [Tasks -> JobState]
  BY ClockIs DEF Typed, JobsTyped
<1>3. Begins(t) /\ job[t].at = "load"
  BY DEF Whole, Jobs, Load
<1>4. PICK first \in Nat : first = MaxOf(0, now - MaxRows + 1) /\ first <= now
  <2>1. now - MaxRows + 1 \in Int /\ now - MaxRows + 1 <= now
    BY <1>1
  <2>2. MaxOf(0, now - MaxRows + 1) = 0 \/ (MaxOf(0, now - MaxRows + 1) = now - MaxRows + 1 /\ 0 <= now - MaxRows + 1)
    BY <2>1 DEF MaxOf
  <2>3. MaxOf(0, now - MaxRows + 1) \in Nat /\ MaxOf(0, now - MaxRows + 1) <= now
    BY <1>1, <2>1, <2>2
  <2> QED BY <2>3
<1> DEFINE rest == RestCandles(first, now)
<1>5. /\ rest \in Seq(Candle) /\ Len(rest) = now - first + 1
      /\ \A i \in DOMAIN rest : rest[i] = RestCandle(first + i - 1)
  <2>1. now \in Int /\ first <= now + 1
    BY <1>1, <1>4
  <2> QED BY <1>1, <1>2, <2>1, RestTyped
<1>6. job' = [job EXCEPT ![t].at = "loaded", ![t].high = RestHigh, ![t].rows = rest]
      /\ UNCHANGED <<stream, clock, call, m1, wire, faults, half>>
  BY <1>4 DEF Load
<1>7. /\ job'[t].at = "loaded" /\ job'[t].rows = rest /\ job'[t].to = job[t].to
      /\ \A u \in Tasks : u # t => job'[u] = job[u]
  BY <1>2, <1>6 DEF JobState
<1> HIDE DEF rest
<1>9. /\ rest # <<>> /\ Len(rest) \in 1..(now - first + 1) /\ Line(rest) /\ First(rest) = first /\ End(rest) = now
  <2>1. Len(rest) \in Nat /\ Len(rest) >= 1 /\ DOMAIN rest = 1..Len(rest) /\ rest # <<>>
    BY <1>1, <1>4, <1>5
  <2>2. \A i \in DOMAIN rest : rest[i].t = first + i - 1
    BY <1>5 DEF RestCandle
  <2>3. rest[1].t = first /\ rest[Len(rest)].t = now
    BY <1>1, <1>4, <1>5, <2>1, <2>2
  <2> QED BY <1>1, <1>4, <1>5, <2>1, <2>2, <2>3 DEF Line, First, End
<1>10. \A c \in Rows(rest) : c.closed /\ (c.v = 1 \/ c.v = 2) /\ (c.v = 2 => c.t < now)
  BY <1>5 DEF Rows, RestCandle
<1>11. Loads(t)'
  <2>1. /\ job[t].to <= End(rest) /\ End(rest) <= now
        /\ First(rest) = MaxOf(0, End(rest) - MaxRows + 1)
        /\ \A c \in Rows(rest) : c.closed /\ (c.v = 1 \/ c.v = 2) /\ (c.v = 2 => c.t < End(rest))
    BY <1>1, <1>4, <1>9, <1>10
  <2> QED BY <1>6, <1>7, <1>9, <2>1 DEF Loads, clock
<1>12. Begins(t)'
  BY <1>3, <1>6, <1>7 DEF Begins, clock
<1>13. Fills(t)' /\ Fetched(t)' /\ ~Filling(t)' /\ ~Filling(t) /\ Loading(t)'
  BY <1>3, <1>7 DEF Fills, Fetched, Filling, Loading
<1> QED BY <1>3, <1>6, <1>7, <1>11, <1>12, <1>13, GoesOn

\* The higher candles are in place: the task is over.
LEMMA ReplaceKept == ASSUME Typed, Whole, NEW t \in Tasks, Replace(t) PROVE Whole'
<1>1. /\ job[t].at = "replace" /\ job' = [job EXCEPT ![t] = NoJob]
      /\ call' = (IF t = "caller" THEN "ok" ELSE call)
      /\ UNCHANGED <<stream, clock, m1, wire, faults, half>>
  BY DEF Replace, Returns, Reported
<1>2. job'[t].at = "idle" /\ \A u \in Tasks : u # t => job'[u] = job[u]
  BY <1>1 DEF Typed, JobsTyped, NoJob
<1>3. /\ Begins(t)' /\ Fills(t)' /\ Fetched(t)' /\ Loads(t)'
      /\ ~Filling(t)' /\ ~Filling(t) /\ ~Loading(t)
  BY <1>1, <1>2 DEF Begins, Fills, Fetched, Loads, Filling, Loading
<1> QED BY <1>1, <1>2, <1>3, GoesOn

\* The cache may begin later, but not after what is on its way or is being filled.
LEMMA NearKept ==
  ASSUME Typed, Whole, NEW f \in Nat, (m1 # <<>> /\ f = First(m1)) \/ f <= now - 6 \/ f = 0
  PROVE  /\ \A c \in OnWire : c.v # 0 => f <= c.t
         /\ \A u \in Tasks : Filling(u) => f < job[u].from
<1>1. now \in Nat
  BY Facts
<1>2. ASSUME NEW c \in OnWire, c.v # 0 PROVE f <= c.t
  <2>1. c.t \in Nat /\ now - 1 <= c.t /\ (m1 # <<>> => First(m1) <= c.t)
    BY <1>2, Facts DEF Whole, Updates, Update1
  <2> QED BY <1>1, <2>1
<1>3. ASSUME NEW u \in Tasks, Filling(u) PROVE f < job[u].from
  <2>1. Begins(u) /\ Fills(u)
    BY DEF Whole, Jobs
  <2>2. /\ job[u].from \in Nat /\ job[u].to \in Nat /\ now - 1 <= job[u].to
        /\ m1 # <<>> /\ First(m1) < job[u].from /\ job[u].to - 4 <= job[u].from
    BY <1>3, <2>1, Facts DEF Begins, Fills, Filling
  <2>3. First(m1) \in Nat
    BY <2>2, CachedAre DEF Whole
  <2> QED BY <1>1, <2>2, <2>3
<1> QED BY <1>2, <1>3

\* A backfill gives the cache another content; what is open in it was open before.
LEMMA Refilled ==
  ASSUME Typed, Whole, UNCHANGED <<stream, clock, wire, faults>>,
         NEW t \in Tasks, job[t].at # "idle", \A u \in Tasks : u # t => job'[u] = job[u],
         Begins(t)', Fills(t)', Fetched(t)', Loads(t)',
         \/ call' = call /\ job'[t].at # "idle"
         \/ call' = (IF t = "caller" THEN "ok" ELSE call) /\ job'[t].at = "idle",
         NEW a \in Buffers, m1' = a, a # <<>>, Line(a), Start <= End(a), End(a) <= now,
         (m1 # <<>> /\ First(a) = First(m1)) \/ First(a) <= now - 6 \/ First(a) = 0,
         \A u \in Tasks : u # t /\ Filling(u) => job[u].from <= End(a) + 1,
         \A d \in Rows(a) : ~d.closed => d \in Cached,
         \A d \in Rows(a) : d.closed => (d.v = 2 /\ d.t < now) \/ d.t \in half',
         \A u \in half' : u <= now,
         \A c, d \in Rows(a) : c.closed /\ c.t = now /\ d.t <= now - 2 => d.closed
  PROVE  Lined' /\ Begun' /\ Values' /\ Halved' /\ Jobs' /\ Updates' /\ InOrder(wire)' /\ Connects'
<1>1. OnWire' = OnWire /\ Cached' = Rows(a)
  BY DEF OnWire, Cached
<1>2. Entered /\ Entered' /\ (call' = "entered" <=> call = "entered")
  <2>1. Entered
    BY DEF Whole, Begun
  <2>2. t = "caller" => call = "filling"
    BY DEF Whole, Begun
  <2> QED BY <2>1, <2>2 DEF Entered
<1>3. Begun'
  <2>1. job'["caller"].at # "idle" => call' = "filling"
    <3>1. job["caller"].at # "idle" => call = "filling"
      BY DEF Whole, Begun
    <3>2. t # "caller" => job'["caller"] = job["caller"]
      BY DEF Tasks
    <3> QED BY <3>1, <3>2
  <2>2. wanted' /\ call' # "no"
    BY <1>2 DEF Whole, Begun, Entered, stream
  <2> QED BY <1>2, <2>1, <2>2 DEF Begun
<1>4. Lined'
  BY DEF Lined, clock
<1>5. Values' /\ Halved'
  BY <1>1 DEF Values, Halved, clock
<1>6. a \in Seq(Candle) /\ First(a) \in Nat
  <2>1. a \in Seq(Candle)
    BY DEF Buffers
  <2> QED BY <2>1, LineIs
<1>7. Jobs'
  <2> SUFFICES ASSUME NEW u \in Tasks, u # t PROVE (Begins(u) /\ Fills(u) /\ Fetched(u) /\ Loads(u))'
    BY DEF Jobs
  <2>1. Begins(u) /\ Fills(u) /\ Fetched(u) /\ Loads(u)
    BY DEF Whole, Jobs
  <2>2. job'[u] = job[u] /\ now' = now
    BY DEF clock
  <2>3. Fills(u)'
    <3> SUFFICES ASSUME Filling(u)
                 PROVE  /\ First(a) < job[u].from /\ job[u].from <= End(a) + 1
                        /\ job[u].from < job[u].to /\ job[u].to - 4 <= job[u].from
                        /\ \A c \in Rows(a) : c.t = job[u].from - 1 => c.closed
      BY <1>1, <2>2 DEF Fills, Filling
    <3>1. First(a) < job[u].from
      BY <1>6, NearKept
    <3> QED BY <2>1, <3>1 DEF Fills
  <2> QED BY <2>1, <2>2, <2>3 DEF Begins, Fetched, Loads
<1>8. Updates'
  <2> SUFFICES ASSUME NEW c \in OnWire PROVE Update1(c)'
    BY <1>1 DEF Updates
  <2>1. Update1(c)
    BY DEF Whole, Updates
  <2>2. c.v # 0 => First(a) <= c.t
    BY <1>6, NearKept
  <2> QED BY <2>1, <2>2 DEF Update1, clock
<1>9. InOrder(wire)'
  BY DEF Whole, InOrder
<1>10. Connects'
  <2>1. (\A c \in Cached : c.closed) => \A c \in Cached' : c.closed
    BY <1>1
  <2> QED BY <1>1, <1>2, <2>1 DEF Whole, Connects, stream, connection, clock
<1> QED BY <1>3, <1>4, <1>5, <1>7, <1>8, <1>9, <1>10

\* The gap is closed, and the cache reaches to the minute it was found in.
LEMMA InsertKept ==
  ASSUME Typed, Whole, MaxRows >= 7, NEW t \in Tasks, Insert(t)
  PROVE  Whole'
<1>1. /\ now \in Nat /\ MaxRows \in Nat /\ m1 \in Buffers /\ Start \in Nat
      /\ job[t].from \in Nat /\ job[t].to \in Nat /\ job[t].to <= now /\ job[t].rows \in Seq(Candle)
  BY Facts
<1>2. job \in [Tasks -> JobState]
  BY DEF Typed, JobsTyped
<1>3. /\ m1' = Filled(m1, job[t].rows, job[t].from..(job[t].to - 1))
      /\ UNCHANGED <<stream, clock, call, high, wire, faults, half>>
      /\ job[t].at = "fetched" /\ job'[t].at = "replace" /\ job'[t].to = job[t].to
      /\ \A u \in Tasks : u # t => job'[u] = job[u]
  BY <1>2 DEF Insert, NoJob
<1>4. PICK from \in Nat, to \in Nat : from = job[t].from /\ to = job[t].to /\ to <= now
  BY <1>1
<1>5. PICK rows \in Seq(Candle) : rows = job[t].rows
  BY <1>1
<1>6. Begins(t) /\ Fills(t) /\ Fetched(t) /\ Filling(t) /\ ~Loading(t)
  BY <1>3 DEF Whole, Jobs, Filling, Loading
<1>7. /\ m1 # <<>> /\ First(m1) < from /\ from <= End(m1) + 1 /\ from < to /\ to - 4 <= from
      /\ \A c \in Cached : c.t = from - 1 => c.closed
      /\ now - 1 <= to
  BY <1>3, <1>4, <1>6 DEF Fills, Begins
<1>8. /\ Len(rows) = to - from
      /\ \A i \in DOMAIN rows : rows[i].t = from + i - 1 /\ rows[i].v = 2 /\ rows[i].closed
  BY <1>3, <1>4, <1>5, <1>6 DEF Fetched
<1>9. PICK a : a = Filled(m1, rows, from..(to - 1)) /\ a = m1'
  BY <1>3, <1>4, <1>5
<1>10. Over(m1, a, Rows(rows), from..(to - 1)) /\ End(a) >= to - 1
  BY <1>1, <1>7, <1>8, <1>9, FilledLine DEF Whole, Lined
<1>11. /\ a \in Buffers /\ a # <<>> /\ Line(a)
       /\ End(a) >= End(m1) /\ (End(a) = End(m1) \/ End(a) \in from..(to - 1))
       /\ First(a) = First(m1) \/ First(a) = End(a) - MaxRows + 1
       /\ \A d \in Rows(a) : \/ d \in Rows(rows) /\ d.t \in from..(to - 1)
                             \/ d \in Cached /\ d.t \notin from..(to - 1)
  BY <1>10 DEF Over, Cached
<1>12. /\ First(a) \in Nat /\ End(a) \in Nat
       /\ \A d \in Rows(a) : d.t \in Nat /\ d.t <= End(a)
       /\ \A n \in First(a)..End(a) : \E d \in Rows(a) : d.t = n
  <2>1. a \in Seq(Candle)
    BY <1>11 DEF Buffers
  <2> QED BY <1>11, <2>1, LineIs
<1>13. First(m1) \in Nat /\ End(m1) \in Nat /\ Start <= End(m1) /\ End(m1) <= now
  BY <1>7, CachedAre DEF Whole, Lined
<1>14. End(a) <= now /\ Start <= End(a)
  <2>1. PICK e \in Nat, g \in Nat : e = End(a) /\ g = End(m1)
    BY <1>12, <1>13
  <2>2. g <= e /\ g <= now /\ Start <= g
    BY <1>11, <1>13, <2>1
  <2>3. e = g \/ e <= to - 1
    BY <1>4, <1>11, <2>1
  <2>4. to - 1 <= now
    BY <1>1, <1>4
  <2>5. e <= now /\ Start <= e
    BY <1>1, <1>4, <2>1, <2>2, <2>3, <2>4
  <2> QED BY <2>1, <2>5
<1>15. \A d \in Rows(a) : \/ d.v = 2 /\ d.closed /\ from <= d.t /\ d.t < to
                          \/ d \in Cached /\ ~(from <= d.t /\ d.t < to)
  <2>1. \A d \in Rows(rows) : d.v = 2 /\ d.closed
    BY <1>8 DEF Rows
  <2> QED BY <1>4, <1>11, <1>12, <2>1
<1>16. First(a) = First(m1) \/ First(a) <= now - 6
  <2>1. PICK f \in Nat, e \in Nat : f = First(a) /\ e = End(a)
    BY <1>12
  <2>2. e <= now /\ (f = First(m1) \/ f = e - MaxRows + 1)
    BY <1>11, <1>14, <2>1
  <2>3. f = e - MaxRows + 1 => f <= now - 6
    BY <1>1, <2>1, <2>2
  <2> QED BY <2>1, <2>2, <2>3
<1>17. \A d \in Rows(a) : ~d.closed => d \in Cached
  BY <1>15
<1>18. /\ Lined' /\ Begun' /\ Values' /\ Halved' /\ Jobs' /\ Updates' /\ InOrder(wire)' /\ Connects'
  <2>1. \A u \in Tasks : u # t /\ Filling(u) => job[u].from <= End(a) + 1
    <3> SUFFICES ASSUME NEW u \in Tasks, Filling(u) PROVE job[u].from <= End(a) + 1
      OBVIOUS
    <3>1. job[u].from \in Nat /\ job[u].from <= End(m1) + 1
      BY Facts DEF Whole, Jobs, Fills
    <3> QED BY <1>11, <1>12, <1>13, <3>1
  <2>2. \A d \in Rows(a) : d.closed => (d.v = 2 /\ d.t < now) \/ d.t \in half'
    <3> SUFFICES ASSUME NEW d \in Rows(a), d.closed PROVE (d.v = 2 /\ d.t < now) \/ d.t \in half
      BY <1>3
    <3>1. CASE d.v = 2 /\ d.t < to
      BY <1>1, <1>4, <1>12, <3>1
    <3>2. CASE d \in Cached
      BY <3>2 DEF Whole, Values
    <3> QED BY <1>15, <3>1, <3>2
  <2>3. \A u \in half' : u <= now
    BY <1>3 DEF Whole, Values
  <2>4. ASSUME NEW c \in Rows(a), NEW d \in Rows(a), c.closed, c.t = now, d.t <= now - 2 PROVE d.closed
    <3>1. c \in Cached
      BY <1>1, <1>4, <1>15, <2>4
    <3> QED BY <1>15, <2>4, <3>1 DEF Whole, Halved
  <2>5. Begins(t)' /\ Fills(t)' /\ Fetched(t)' /\ Loads(t)'
    BY <1>3, <1>6 DEF Begins, Fills, Fetched, Loads, Filling, clock
  <2>6. (m1 # <<>> /\ First(a) = First(m1)) \/ First(a) <= now - 6 \/ First(a) = 0
    BY <1>7, <1>16
  <2> QED BY <1>3, <1>9, <1>11, <1>14, <1>17, <2>1, <2>2, <2>3, <2>4, <2>5, <2>6, Refilled
<1>19. Cached' = Rows(a) /\ OnWire' = OnWire
  BY <1>3, <1>9 DEF Cached, OnWire
<1>20. ASSUME NEW n, Good(n) PROVE Good(n)'
  <2>1. Closing(n)' <=> Closing(n)
    BY <1>19 DEF Closing
  <2>2. (\A c \in Cached : c.t = n - 1 => c.closed) => \A c \in Rows(a) : c.t = n - 1 => c.closed
    BY <1>17
  <2> QED BY <1>3, <1>19, <1>20, <2>1, <2>2 DEF Good
<1>21. PICK last : last = LastClosed(m1)
  OBVIOUS
<1>22. /\ last \in Nat /\ from - 1 <= last
       /\ \A c \in Cached : c.closed => c.t <= last
  <2>1. \E c \in Cached : c.t = from - 1
    <3>1. from - 1 \in Nat /\ First(m1) <= from - 1 /\ from - 1 <= End(m1)
      BY <1>7, <1>13
    <3> QED BY <1>7, <3>1, CachedAre DEF Whole
  <2>2. PICK c \in Cached : c.t = from - 1 /\ c.closed
    BY <1>7, <2>1
  <2> QED BY <1>21, <2>2, LastIs DEF Whole
<1>23. PICK k : k = LastClosed(a)
  OBVIOUS
<1>24. /\ k \in Nat /\ to - 1 <= k
       /\ \E d \in Rows(a) : d.closed /\ d.t = k
  <2>1. \E d \in Rows(a) : d.t = to - 1
    <3>1. to - 1 \in First(a)..End(a)
      <4>1. PICK f \in Nat, g \in Nat : f = First(a) /\ g = First(m1)
        BY <1>12, <1>13
      <4>2. g <= to - 1
        <5>1. g < from /\ from < to
          BY <1>7, <4>1
        <5> QED BY <1>4, <4>1, <5>1
      <4>3. f <= to - 1
        <5>1. f = g \/ f <= now - 6
          BY <1>16, <4>1
        <5>2. now \in Nat /\ now - 1 <= to
          BY <1>1, <1>7
        <5>3. f <= now - 6 => f <= to - 1
          BY <1>4, <4>1, <5>2
        <5> QED BY <4>2, <5>1, <5>3
      <4>4. to - 1 <= End(a)
        BY <1>10, <1>12
      <4>5. to - 1 \in Int
        BY <1>4
      <4> QED BY <1>12, <4>1, <4>3, <4>4, <4>5
    <3> QED BY <1>12, <3>1
  <2>2. PICK d \in Rows(a) : d.t = to - 1
    BY <2>1
  <2>3. d.closed
    BY <1>4, <1>7, <1>15, <2>2
  <2>4. a \in Seq(Candle)
    BY <1>11 DEF Buffers
  <2> QED BY <1>11, <1>23, <2>2, <2>3, <2>4, LastClosedLine
<1>25. Holes'
  <2> SUFFICES ASSUME NEW c \in Rows(a), ~c.closed, c.t < k PROVE Good(c.t)'
    BY <1>9, <1>19, <1>23 DEF Holes
  <2>1. c \in Cached /\ ~(from <= c.t /\ c.t < to) /\ c.t \in Nat
    BY <1>12, <1>15
  <2>2. c.t < last
    <3>1. PICK d \in Rows(a) : d.closed /\ d.t = k
      BY <1>24
    <3>2. CASE d \in Cached
      BY <1>22, <1>24, <2>1, <3>1, <3>2
    <3>3. CASE from <= d.t /\ d.t < to
      <4>1. c.t < from
        BY <1>4, <1>24, <2>1, <3>1, <3>3
      <4>2. c.t # from - 1
        BY <1>7, <2>1
      <4> QED BY <1>4, <1>22, <2>1, <4>1, <4>2
    <3> QED BY <1>15, <3>2, <3>3
  <2>3. Good(c.t)
    BY <1>21, <2>1, <2>2 DEF Whole, Holes
  <2> QED BY <1>20, <2>3
<1>26. Late'
  <2>1. now - k <= 3
    BY <1>1, <1>4, <1>7, <1>24
  <2>2. now' - LastClosed(m1)' <= 3
    BY <1>3, <1>9, <1>23, <2>1 DEF clock
  <2>3. now' - LastClosed(m1)' \in Int
    BY <1>1, <1>3, <1>9, <1>23, <1>24 DEF clock
  <2> QED BY <2>2, <2>3 DEF Late
<1>27. Heads'
  <2> SUFFICES ASSUME NEW n \in Nat, Due(n)' PROVE Ready(n)'
    BY DEF Heads
  <2>1. Due(n)
    BY <1>3 DEF Due, stream, connection, clock
  <2>2. Reaches(n) /\ Clears(n)
    BY <2>1 DEF Whole, Heads, Ready
  <2>3. t # "loop" => (Filling("loop")' <=> Filling("loop")) /\ (Loading("loop")' <=> Loading("loop"))
                      /\ job'["loop"] = job["loop"]
    BY <1>3 DEF Filling, Loading, Tasks
  <2>4. Reaches(n)'
    <3>1. CASE n <= End(m1) + 1
      <4>1. n <= End(a) + 1
        BY <1>11, <1>12, <1>13, <3>1
      <4> QED BY <1>9, <4>1 DEF Reaches
    <3>2. CASE Filling("loop") /\ n <= job["loop"].to
      <4>1. CASE t = "loop"
        <5>1. n <= End(a) + 1
          BY <1>4, <1>10, <1>12, <3>2, <4>1
        <5> QED BY <1>9, <5>1 DEF Reaches
      <4>2. CASE t # "loop"
        BY <2>3, <3>2, <4>2 DEF Reaches
      <4> QED BY <4>1, <4>2
    <3>3. CASE Loading("loop")
      BY <1>6, <2>3, <3>3 DEF Reaches
    <3> QED BY <1>7, <2>2, <3>1, <3>2, <3>3 DEF Reaches
  <2>5. Clears(n)'
    <3> SUFFICES ASSUME NEW c \in Rows(a), ~c.closed, c.t < n
                 PROVE  \/ Good(c.t)' \/ Loading("loop")'
                        \/ Filling("loop")' /\ job'["loop"].from <= c.t /\ c.t < job'["loop"].to
      BY <1>19 DEF Clears
    <3>1. c \in Cached /\ ~(from <= c.t /\ c.t < to)
      BY <1>15
    <3>2. \/ Good(c.t) \/ Loading("loop")
          \/ Filling("loop") /\ job["loop"].from <= c.t /\ c.t < job["loop"].to
      BY <2>2, <3>1 DEF Clears
    <3>3. CASE t = "loop"
      BY <1>4, <1>6, <1>20, <3>1, <3>2, <3>3
    <3>4. CASE t # "loop"
      BY <1>20, <2>3, <3>2, <3>4
    <3> QED BY <3>3, <3>4
  <2> QED BY <2>4, <2>5 DEF Ready
<1> QED BY <1>18, <1>25, <1>26, <1>27 DEF Whole

\* A first load: everything is closed, and what is not over yet is remembered.
LEMMA LoadedKept ==
  ASSUME Typed, Whole, MaxRows >= 7, NEW t \in Tasks, Loaded(t)
  PROVE  Whole'
<1>1. /\ now \in Nat /\ MaxRows \in Nat /\ Start \in Nat
      /\ job[t].to \in Nat /\ job[t].to <= now /\ job[t].rows \in Seq(Candle)
  BY Facts
<1>2. job \in [Tasks -> JobState] /\ Sound(job[t])
  BY DEF Typed, JobsTyped
<1>3. PICK a \in Seq(Candle) : a = job[t].rows
  BY <1>1
<1>4. /\ m1' = a /\ half' = half \cup {c.t : c \in {c \in ToSet(a) : c.v = 1}}
      /\ job[t].at = "loaded" /\ job'[t].at = "idle" /\ \A u \in Tasks : u # t => job'[u] = job[u]
      /\ call' = (IF t = "caller" THEN "ok" ELSE call)
      /\ UNCHANGED <<stream, clock, wire, faults>>
  BY <1>2, <1>3 DEF Loaded, NoJob, Returns, Reported
<1>5. Begins(t) /\ Loads(t)
  BY DEF Whole, Jobs
<1>6. /\ a # <<>> /\ Line(a) /\ job[t].to <= End(a) /\ End(a) <= now
      /\ First(a) = MaxOf(0, End(a) - MaxRows + 1)
      /\ \A c \in Rows(a) : c.closed /\ (c.v = 1 \/ c.v = 2) /\ (c.v = 2 => c.t < End(a))
      /\ now - 1 <= job[t].to /\ Start <= job[t].to
  BY <1>3, <1>4, <1>5 DEF Loads, Begins
<1>7. a \in Buffers
  <2>1. Len(a) <= MaxRows
    BY <1>2, <1>3, <1>4 DEF Sound
  <2> QED BY <2>1 DEF Buffers
<1>8. /\ First(a) \in Nat /\ End(a) \in Nat
      /\ \A d \in Rows(a) : d.t \in Nat /\ d.t <= End(a)
      /\ \E d \in Rows(a) : d.t = End(a)
  <2>1. /\ First(a) \in Nat /\ End(a) \in Nat /\ First(a) <= End(a)
        /\ \A d \in Rows(a) : d.t \in Nat /\ d.t <= End(a)
        /\ \A n \in First(a)..End(a) : \E d \in Rows(a) : d.t = n
    BY <1>6, LineIs
  <2> QED BY <2>1
<1>9. First(a) <= now - 6 \/ First(a) = 0
  <2>1. First(a) = 0 \/ First(a) = End(a) - MaxRows + 1
    BY <1>6 DEF MaxOf
  <2> QED BY <1>1, <1>6, <1>8, <2>1
<1>10. Start <= End(a) /\ now - 1 <= End(a)
  BY <1>1, <1>6, <1>8
<1>11. \A u \in half : u \in Nat /\ u <= now
  BY KlineAssumption DEF Whole, Values, Typed, ClockTyped, Minutes
<1>12. \A u : u \in half' <=> u \in half \/ \E c \in Rows(a) : c.v = 1 /\ u = c.t
  BY <1>4 DEF ToSet, Rows
<1>13. Cached' = Rows(a) /\ OnWire' = OnWire
  BY <1>4 DEF Cached, OnWire
<1>14. Lined' /\ Begun' /\ Values' /\ Halved' /\ Jobs' /\ Updates' /\ InOrder(wire)' /\ Connects'
  <2>1. \A u \in Tasks : u # t /\ Filling(u) => job[u].from <= End(a) + 1
    <3> SUFFICES ASSUME NEW u \in Tasks, Filling(u) PROVE job[u].from <= End(a) + 1
      OBVIOUS
    <3>1. Fills(u) /\ job[u].from \in Nat /\ job[u].to \in Nat /\ job[u].to <= now
      BY Facts DEF Whole, Jobs
    <3>2. job[u].from < job[u].to
      BY <3>1 DEF Fills
    <3> QED BY <1>1, <1>8, <1>10, <3>1, <3>2
  <2>2. \A d \in Rows(a) : d.closed => (d.v = 2 /\ d.t < now) \/ d.t \in half'
    <3> SUFFICES ASSUME NEW d \in Rows(a) PROVE (d.v = 2 /\ d.t < now) \/ d.t \in half'
      OBVIOUS
    <3>1. CASE d.v = 1
      BY <1>12, <3>1
    <3>2. CASE d.v = 2
      BY <1>1, <1>6, <1>8, <3>2
    <3> QED BY <1>6, <3>1, <3>2
  <2>3. \A u \in half' : u <= now
    <3>1. \A d \in Rows(a) : d.t <= now
      BY <1>1, <1>6, <1>8
    <3> QED BY <1>11, <1>12, <3>1
  <2>4. \A c, d \in Rows(a) : c.closed /\ c.t = now /\ d.t <= now - 2 => d.closed
    BY <1>6
  <2>5. Begins(t)' /\ Fills(t)' /\ Fetched(t)' /\ Loads(t)'
    BY <1>4 DEF Begins, Fills, Fetched, Loads, Filling
  <2>6. \A d \in Rows(a) : ~d.closed => d \in Cached
    BY <1>6
  <2> QED BY <1>4, <1>6, <1>7, <1>9, <1>10, <2>1, <2>2, <2>3, <2>4, <2>5, <2>6, Refilled
<1>15. Holes'
  BY <1>6, <1>13 DEF Holes
<1>16. Late'
  <2>1. PICK k : k = LastClosed(a)
    OBVIOUS
  <2>2. k \in Nat /\ End(a) <= k
    <3>1. PICK d \in Rows(a) : d.t = End(a) /\ d.closed
      BY <1>6, <1>8
    <3> QED BY <1>6, <2>1, <3>1, LastClosedLine
  <2>3. now - k <= 3 /\ now - k \in Int
    BY <1>1, <1>8, <1>10, <2>2
  <2>4. now' - LastClosed(m1)' <= 3 /\ now' - LastClosed(m1)' \in Int
    BY <1>4, <2>1, <2>3 DEF clock
  <2> QED BY <2>4 DEF Late
<1>17. Heads'
  <2> SUFFICES ASSUME NEW n \in Nat, Due(n)' PROVE Ready(n)'
    BY DEF Heads
  <2>1. Due(n)
    BY <1>4 DEF Due, stream, connection, clock
  <2>2. n <= now
    <3>1. \A c \in OnWire : c.t <= now
      BY DEF Whole, Updates, Update1
    <3>2. wire # <<>> => Head(wire) \in OnWire
      BY Facts, TailIs DEF OnWire, Whole
    <3> QED BY <1>1, <2>1, <3>1, <3>2 DEF Due
  <2>3. n <= End(a) + 1
    BY <1>1, <1>8, <1>10, <2>2
  <2>4. Reaches(n)'
    BY <1>4, <2>3 DEF Reaches
  <2>5. Clears(n)'
    BY <1>6, <1>13 DEF Clears
  <2> QED BY <2>4, <2>5 DEF Ready
<1> QED BY <1>14, <1>15, <1>16, <1>17 DEF Whole

-----------------------------------------------------------------------------
(* kline_ws_loop reads a candle *)

\* The cache is ready for it: it goes in behind the last, or replaces one.
Reads(c, w, a) ==
  /\ wire # <<>> /\ c = Head(wire) /\ w = Tail(wire) /\ wire' = w /\ m1' = a
  /\ c \in OnWire /\ c.t \in Nat /\ (c.v = 1 \/ c.v = 2) /\ OnWire = {c} \cup OnWire'
  /\ UNCHANGED <<stream, clock, call, job, faults, half>>
  /\ job["loop"].at = "idle"
  /\ Took(m1, a, c) /\ Cached' = Rows(a) /\ Cached' \subseteq {c} \cup {d \in Cached : d.t # c.t}
  /\ \A d \in Cached : ~d.closed /\ d.t < c.t => Good(d.t)

\* Every step of the loop on a candle is of this form.
LEMMA ReadsIs ==
  ASSUME Typed, Whole, OnCandle
  PROVE  \E c, w, a : Reads(c, w, a)
<1>1. /\ m1 \in Buffers /\ wire \in Seq(Candle) /\ wire # <<>> /\ InOrder(wire) /\ now \in Nat
      /\ Line(m1)
  BY Facts DEF OnCandle, Whole, Lined
<1>2. PICK c, w : c = Head(wire) /\ w = Tail(wire)
  OBVIOUS
<1>3. c \in OnWire /\ OnWire = {c} \cup Rows(w)
  BY <1>1, <1>2, TailIs DEF OnWire
<1>4. c \in Candle /\ c.t \in Nat /\ c.closed \in BOOLEAN
  BY <1>3, Facts
<1>5. /\ c.v # 0 /\ wire' = w /\ job["loop"].at = "idle"
      /\ m1' = (IF c.closed THEN CloseCandle(PushOrUpdate(m1, c), c.t) ELSE PushOrUpdate(m1, c))
      /\ UNCHANGED <<stream, clock, call, job, faults, half>>
  BY <1>2 DEF OnCandle
<1>6. Update1(c)
  BY <1>3 DEF Whole, Updates
<1>7. Ready(c.t)
  <2>1. Due(c.t)
    BY <1>1, <1>2, <1>5 DEF Due
  <2> QED BY <1>4, <2>1 DEF Whole, Heads
<1>8. ~Filling("loop") /\ ~Loading("loop")
  BY <1>5 DEF Filling, Loading
<1>9. m1 # <<>> => First(m1) <= c.t /\ c.t <= End(m1) + 1
  BY <1>5, <1>6, <1>7, <1>8 DEF Ready, Reaches, Update1
<1>10. PICK a : a = PushOrUpdate(m1, c)
  OBVIOUS
<1>11. Took(m1, a, c)
  BY <1>1, <1>4, <1>9, <1>10, PushTook
<1>12. m1' = a
  <2>1. a \in Buffers /\ Line(a) /\ c \in Rows(a)
    BY <1>11 DEF Took
  <2>2. c.closed => CloseCandle(a, c.t) = a
    BY <2>1, CloseSame
  <2> QED BY <1>5, <1>10, <2>2
<1>13. Cached' = Rows(a) /\ OnWire' = Rows(w)
  BY <1>5, <1>12 DEF Cached, OnWire
<1>14. Cached' \subseteq {c} \cup {d \in Cached : d.t # c.t}
  BY <1>11, <1>13 DEF Took, Cached
<1>15. c.v = 1 \/ c.v = 2
  BY <1>5, <1>6 DEF Update1
<1>16. \A d \in Cached : ~d.closed /\ d.t < c.t => Good(d.t)
  BY <1>7, <1>8 DEF Ready, Clears
<1>17. Reads(c, w, a)
  BY <1>1, <1>2, <1>3, <1>4, <1>5, <1>11, <1>12, <1>13, <1>14, <1>15, <1>16 DEF Reads
<1> QED BY <1>17

\* What is known of the candle and of the cache that has taken it.
LEMMA ReadsHas ==
  ASSUME Typed, Whole, MaxRows >= 7, NEW c, NEW w, NEW a, Reads(c, w, a)
  PROVE  /\ now \in Nat /\ Start \in Nat
         /\ c.t \in Nat /\ now - 1 <= c.t /\ c.t <= now /\ Start <= c.t
         /\ c.v = 1 => ~c.closed
         /\ c.v = 2 => c.closed /\ c.t = now - 1
         /\ a # <<>> /\ Line(a) /\ First(a) \in Nat /\ End(a) \in Nat /\ First(a) <= End(a)
         /\ Start <= End(a) /\ End(a) <= now /\ c.t <= End(a)
         /\ m1 = <<>> => First(a) = c.t
         /\ m1 # <<>> => /\ First(a) = First(m1) \/ First(a) <= now - 6
                         /\ First(m1) \in Nat /\ End(m1) \in Nat /\ End(m1) <= End(a)
         /\ c \in Cached'
         /\ \A d \in Cached' : d.t \in Nat /\ First(a) <= d.t /\ d.t <= End(a)
         /\ \A n \in Nat : First(a) <= n /\ n <= End(a) => \E d \in Cached' : d.t = n
<1>1. now \in Nat /\ Start \in Nat /\ MaxRows \in Nat
  BY Facts
<1>2. Update1(c) /\ c.t \in Nat /\ (c.v = 1 \/ c.v = 2)
  BY DEF Reads, Whole, Updates
<1>3. /\ now - 1 <= c.t /\ c.t <= now /\ Start <= c.t
      /\ c.v = 1 => ~c.closed
      /\ c.v = 2 => c.closed /\ c.t = now - 1
  BY <1>2 DEF Update1
<1>4. Took(m1, a, c) /\ Cached' = Rows(a)
  BY DEF Reads
<1>5. /\ a \in Seq(Candle) /\ a # <<>> /\ Line(a) /\ c \in Rows(a)
      /\ m1 = <<>> => First(a) = c.t /\ End(a) = c.t
      /\ m1 # <<>> => /\ End(a) >= End(m1) /\ (End(a) = End(m1) \/ End(a) = c.t)
                      /\ First(a) = First(m1) \/ First(a) = End(a) - MaxRows + 1
  BY <1>4 DEF Took, Buffers
<1>6. /\ First(a) \in Nat /\ End(a) \in Nat /\ First(a) <= End(a)
      /\ \A d \in Rows(a) : d.t \in Nat /\ First(a) <= d.t /\ d.t <= End(a)
      /\ \A n \in First(a)..End(a) : \E d \in Rows(a) : d.t = n
  BY <1>5, LineIs
<1>7. m1 # <<>> => First(m1) \in Nat /\ End(m1) \in Nat /\ Start <= End(m1) /\ End(m1) <= now
  BY CachedAre DEF Whole, Lined
<1>8. Start <= End(a) /\ End(a) <= now /\ c.t <= End(a)
  BY <1>1, <1>2, <1>3, <1>5, <1>6, <1>7
<1>9. m1 # <<>> => First(a) = First(m1) \/ First(a) <= now - 6
  BY <1>1, <1>5, <1>6, <1>8
<1>10. \A n \in Nat : First(a) <= n /\ n <= End(a) => \E d \in Rows(a) : d.t = n
  BY <1>6
<1> QED BY <1>1, <1>2, <1>3, <1>4, <1>5, <1>6, <1>7, <1>8, <1>9, <1>10

\* A closing update that has been read has closed its candle.
LEMMA GoodRead ==
  ASSUME Typed, Whole, MaxRows >= 7, NEW c, NEW w, NEW a, Reads(c, w, a),
         NEW n \in Nat, n # c.t, Good(n)
  PROVE  Good(n)'
<1>1. CASE Closing(n)
  <2>1. Closing(n)'
    BY <1>1 DEF Closing, Reads
  <2> QED BY <2>1 DEF Good
<1>2. CASE n + 1 \in half /\ \A d \in Cached : d.t = n - 1 => d.closed
  <2>1. n + 1 <= now /\ now - 1 <= c.t /\ c.t \in Nat /\ now \in Nat
    BY <1>2, ReadsHas DEF Whole, Values
  <2>2. c.t # n - 1
    BY <2>1
  <2>3. \A d \in Cached' : d.t = n - 1 => d.closed
    BY <1>2, <2>2 DEF Reads
  <2> QED BY <1>2, <2>3 DEF Good, Reads
<1> QED BY <1>1, <1>2 DEF Good

\* What the tasks and the stream rely on is as it was.
LEMMA ReadLined ==
  ASSUME Typed, Whole, MaxRows >= 7, NEW c, NEW w, NEW a, Reads(c, w, a)
  PROVE  Lined' /\ Begun' /\ Values' /\ Halved' /\ Jobs' /\ Updates' /\ InOrder(wire)' /\ Connects'
<1>1. /\ now \in Nat /\ Start \in Nat
      /\ c.t \in Nat /\ now - 1 <= c.t /\ c.t <= now /\ Start <= c.t
      /\ c.v = 1 => ~c.closed
      /\ c.v = 2 => c.closed /\ c.t = now - 1
      /\ a # <<>> /\ Line(a) /\ First(a) \in Nat /\ End(a) \in Nat
      /\ Start <= End(a) /\ End(a) <= now /\ c.t <= End(a)
      /\ m1 = <<>> => First(a) = c.t
      /\ m1 # <<>> => /\ First(a) = First(m1) \/ First(a) <= now - 6
                      /\ First(m1) \in Nat /\ End(m1) \in Nat /\ End(m1) <= End(a)
  BY ReadsHas
<1>2. /\ wire # <<>> /\ c = Head(wire) /\ w = Tail(wire) /\ wire' = w /\ m1' = a
      /\ c \in OnWire /\ (c.v = 1 \/ c.v = 2) /\ OnWire = {c} \cup OnWire'
      /\ UNCHANGED <<stream, clock, call, job, faults, half>>
      /\ \A d \in Cached' : d = c \/ (d \in Cached /\ d.t # c.t)
  BY DEF Reads
<1>3. now' = now /\ check' = check /\ since' = since
  BY <1>2 DEF clock
<1>4. /\ InOrder(w) /\ (w # <<>> => w[Len(w)] = wire[Len(wire)])
      /\ \A d \in OnWire' : c.t <= d.t
  <2>1. wire \in Seq(Candle) /\ InOrder(wire)
    BY Facts DEF Whole
  <2> QED BY <1>2, <2>1, TailIs DEF OnWire
<1>5. Lined'
  BY <1>1, <1>2, <1>3 DEF Lined
<1>6. Begun'
  <2>1. Entered
    BY <1>2 DEF Whole, Begun
  <2>2. Entered'
    BY <1>2, <2>1 DEF Entered
  <2>3. wanted /\ call # "no" /\ (job["caller"].at # "idle" => call = "filling")
    BY <2>1 DEF Whole, Begun, Entered
  <2> QED BY <1>2, <2>2, <2>3 DEF Begun, stream
<1>7. Values'
  <2>1. ASSUME NEW d \in Cached', d.closed PROVE (d.v = 2 /\ d.t < now) \/ d.t \in half
    <3>1. CASE d = c
      BY <1>1, <1>2, <2>1, <3>1
    <3>2. CASE d \in Cached
      BY <2>1, <3>2 DEF Whole, Values
    <3> QED BY <1>2, <3>1, <3>2
  <2>2. \A u \in half : u <= now
    BY DEF Whole, Values
  <2> QED BY <1>2, <1>3, <2>1, <2>2 DEF Values
<1>8. Halved'
  <2> SUFFICES ASSUME NEW e \in Cached', NEW d \in Cached', e.closed, e.t = now, d.t <= now - 2 PROVE d.closed
    BY <1>3 DEF Halved
  <2>1. e # c
    BY <1>1, <1>2
  <2>2. d # c
    BY <1>1
  <2> QED BY <1>2, <2>1, <2>2 DEF Whole, Halved
<1>9. Jobs'
  <2> SUFFICES ASSUME NEW u \in Tasks PROVE (Begins(u) /\ Fills(u) /\ Fetched(u) /\ Loads(u))'
    BY DEF Jobs
  <2>1. Begins(u) /\ Fills(u) /\ Fetched(u) /\ Loads(u)
    BY DEF Whole, Jobs
  <2>2. Begins(u)' /\ Fetched(u)' /\ Loads(u)'
    BY <1>2, <1>3, <2>1 DEF Begins, Fetched, Loads
  <2>3. Fills(u)'
    <3> SUFFICES ASSUME Filling(u)
                 PROVE  /\ First(a) < job[u].from /\ job[u].from <= End(a) + 1
                        /\ job[u].from < job[u].to /\ job[u].to - 4 <= job[u].from
                        /\ \A d \in Cached' : d.t = job[u].from - 1 => d.closed
      BY <1>1, <1>2 DEF Fills, Filling
    <3>1. /\ m1 # <<>> /\ job[u].from <= End(m1) + 1
          /\ job[u].from < job[u].to /\ job[u].to - 4 <= job[u].from
          /\ \A d \in Cached : d.t = job[u].from - 1 => d.closed
          /\ job[u].from \in Nat /\ job[u].to \in Nat /\ job[u].to <= now
      BY <2>1, Facts DEF Fills
    <3>2. First(a) < job[u].from
      BY <1>1, <3>1, NearKept
    <3>3. job[u].from <= End(a) + 1
      <4>1. PICK e \in Nat, g \in Nat, f \in Nat : e = End(a) /\ g = End(m1) /\ f = job[u].from
        BY <1>1, <3>1
      <4>2. g <= e /\ f <= g + 1
        BY <1>1, <3>1, <4>1
      <4>3. f <= e + 1
        BY <4>1, <4>2
      <4> QED BY <4>1, <4>3
    <3>4. c.t # job[u].from - 1
      <4>1. PICK f \in Nat, e \in Nat : f = job[u].from /\ e = job[u].to
        BY <3>1
      <4>2. f < e /\ e <= now
        BY <3>1, <4>1
      <4>3. PICK n \in Nat, x \in Nat : n = now /\ x = c.t
        BY <1>1
      <4>4. n - 1 <= x
        BY <1>1, <4>3
      <4>5. x # f - 1
        BY <4>1, <4>2, <4>3, <4>4
      <4> QED BY <4>1, <4>3, <4>5
    <3>5. \A d \in Cached' : d.t = job[u].from - 1 => d.closed
      BY <1>2, <3>1, <3>4
    <3> QED BY <3>1, <3>2, <3>3, <3>5
  <2> QED BY <2>2, <2>3
<1>10. Updates'
  <2> SUFFICES ASSUME NEW d \in OnWire' PROVE Update1(d)'
    BY DEF Updates
  <2>1. d \in OnWire /\ c.t <= d.t
    BY <1>2, <1>4
  <2>2. Update1(d)
    BY <2>1 DEF Whole, Updates
  <2>3. d.v # 0 => First(a) <= d.t
    <3>1. CASE m1 = <<>>
      BY <1>1, <2>1, <3>1
    <3>2. CASE m1 # <<>>
      BY <1>1, <2>1, <3>2, NearKept
    <3> QED BY <3>1, <3>2
  <2> QED BY <1>2, <1>3, <2>2, <2>3 DEF Update1
<1>11. InOrder(wire)'
  BY <1>2, <1>4 DEF InOrder
<1>12. Connects'
  <2>1. ws' = ws /\ wanted' = wanted /\ streaming' = streaming /\ reconnect' = reconnect /\ asked' = asked
    BY <1>2 DEF stream, connection
  <2>2. reconnect /\ (ws = "up" => streaming)
    BY <1>2 DEF Whole, Connects
  <2>3. ws = "up" /\ wanted /\ w # <<>> => w[Len(w)].v # 1 \/ w[Len(w)].t = now
    BY <1>2, <1>4 DEF Whole, Connects
  <2> QED BY <1>2, <1>3, <2>1, <2>2, <2>3 DEF Whole, Connects
<1> QED BY <1>5, <1>6, <1>7, <1>8, <1>9, <1>10, <1>11, <1>12

\* An open candle that the closed ones pass.
LEMMA ReadHoles ==
  ASSUME Typed, Whole, MaxRows >= 7, NEW c, NEW w, NEW a, Reads(c, w, a)
  PROVE  Holes'
<1>1. /\ now \in Nat /\ c.t \in Nat /\ now - 1 <= c.t /\ c.t <= now
      /\ c.v = 1 => ~c.closed
      /\ c.v = 2 => c.closed /\ c.t = now - 1
      /\ \A d \in Cached' : d.t \in Nat /\ d.t <= now
  <2>1. End(a) <= now /\ End(a) \in Nat /\ now \in Nat /\ \A d \in Cached' : d.t \in Nat /\ d.t <= End(a)
    BY ReadsHas
  <2>2. \A d \in Cached' : d.t \in Nat /\ d.t <= now
    BY <2>1
  <2> QED BY <2>2, ReadsHas
<1>2. PICK k : k = LastClosed(a)
  OBVIOUS
<1>3. m1' = a /\ half' = half /\ Cached' = Rows(a) /\ (\A d \in Cached' : d = c \/ (d \in Cached /\ d.t # c.t))
  BY DEF Reads
<1>4. \/ k = -1
      \/ k \in Nat /\ \E e \in Cached' : e.closed /\ e.t = k
  <2>1. a \in Seq(Candle) /\ Line(a)
    BY DEF Reads, Took, Buffers
  <2> QED BY <1>2, <1>3, <2>1, LastClosedLine
<1> SUFFICES ASSUME NEW d \in Cached', ~d.closed, d.t < k PROVE Good(d.t)'
  BY <1>2, <1>3 DEF Holes
<1>5. k \in Nat /\ d.t \in Nat
  BY <1>1, <1>4
<1>6. PICK e \in Cached' : e.closed /\ e.t = k
  BY <1>4, <1>5
<1>7. CASE d = c
  <2>1. e # c /\ e \in Cached
    BY <1>3, <1>6, <1>7
  <2>2. e.t = now /\ c.t = now - 1
    BY <1>1, <1>5, <1>6, <1>7
  <2>3. now \in half
    BY <1>6, <1>1, <2>1, <2>2 DEF Whole, Values
  <2>4. \A x \in Cached' : x.t = c.t - 1 => x.closed
    <3> SUFFICES ASSUME NEW x \in Cached', x.t = c.t - 1 PROVE x.closed
      OBVIOUS
    <3>1. x # c /\ x.t <= now - 2
      BY <1>1, <2>2
    <3> QED BY <1>3, <1>6, <2>1, <2>2, <3>1 DEF Whole, Halved
  <2>5. c.t + 1 = now
    BY <1>1, <2>2
  <2> QED BY <1>3, <1>7, <2>3, <2>4, <2>5 DEF Good
<1>8. CASE d \in Cached /\ d.t # c.t
  <2>1. Good(d.t)
    <3>1. CASE e = c
      BY <1>6, <1>8, <3>1 DEF Reads
    <3>2. CASE e \in Cached
      <4>1. PICK last : last = LastClosed(m1)
        OBVIOUS
      <4>2. last \in Nat /\ e.t <= last
        BY <1>6, <3>2, <4>1, LastIs DEF Whole
      <4>3. d.t < last
        BY <1>5, <1>6, <4>2
      <4> QED BY <1>8, <4>1, <4>3 DEF Whole, Holes
    <3> QED BY <1>3, <3>1, <3>2
  <2> QED BY <1>5, <1>8, <2>1, GoodRead
<1> QED BY <1>3, <1>7, <1>8

\* The update behind it is of the same minute, or of the next if this one is over.
LEMMA ReadHeads ==
  ASSUME Typed, Whole, MaxRows >= 7, NEW c, NEW w, NEW a, Reads(c, w, a)
  PROVE  Heads'
<1>1. /\ now \in Nat /\ c.t \in Nat /\ now - 1 <= c.t /\ c.t <= now
      /\ c.v = 2 => c.closed /\ c.t = now - 1
      /\ c.t <= End(a) /\ End(a) \in Nat
      /\ \A d \in Cached' : d.t \in Nat
  BY ReadsHas
<1>2. /\ wire # <<>> /\ c = Head(wire) /\ w = Tail(wire) /\ wire' = w /\ m1' = a
      /\ (c.v = 1 \/ c.v = 2) /\ OnWire = {c} \cup OnWire'
      /\ UNCHANGED <<stream, clock, call, job, faults, half>>
      /\ \A d \in Cached' : d = c \/ (d \in Cached /\ d.t # c.t)
      /\ \A d \in Cached : ~d.closed /\ d.t < c.t => Good(d.t)
  BY DEF Reads
<1>3. now' = now /\ ws' = ws /\ wanted' = wanted
  BY <1>2 DEF clock, stream, connection
<1>4. wire \in Seq(Candle) /\ InOrder(wire)
  BY Facts DEF Whole
<1> SUFFICES ASSUME NEW n \in Nat, Due(n)' PROVE Ready(n)'
  BY DEF Heads
<1>5. n <= c.t + 1 /\ (c.v = 1 => n <= c.t)
  <2>1. CASE w = <<>> /\ ws = "up" /\ wanted /\ n = now
    <3>1. c.v = 1 => c.t = now
      <4>1. wire[Len(wire)] = c
        BY <1>2, <1>4, <2>1, TailIs
      <4> QED BY <1>2, <2>1, <4>1 DEF Whole, Connects
    <3> QED BY <1>1, <2>1, <3>1
  <2>2. CASE w # <<>> /\ Head(w).v # 0 /\ n = Head(w).t
    <3>1. PICK g : g = Head(w)
      OBVIOUS
    <3>2. g \in OnWire /\ (c.v = 1 /\ g.v = 1 => c.t = g.t)
      BY <1>2, <1>4, <2>2, <3>1, TailIs DEF OnWire
    <3>3. g.t \in Nat /\ g.t <= now /\ (g.v = 1 \/ g.v = 2) /\ (g.v = 2 => g.t = now - 1)
      BY <2>2, <3>1, <3>2, Facts DEF Whole, Updates, Update1
    <3> QED BY <1>1, <2>2, <3>1, <3>2, <3>3
  <2> QED BY <1>2, <1>3, <2>1, <2>2 DEF Due
<1>6. Reaches(n)'
  <2>1. n <= End(a) + 1
    BY <1>1, <1>5
  <2> QED BY <1>2, <2>1 DEF Reaches
<1>7. Clears(n)'
  <2> SUFFICES ASSUME NEW d \in Cached', ~d.closed, d.t < n PROVE Good(d.t)'
    BY DEF Clears
  <2>1. d # c
    <3>1. c.v = 1 => ~(c.t < n)
      BY <1>1, <1>5
    <3>2. c.v = 2 => c.closed
      BY <1>1
    <3> QED BY <1>2, <3>1, <3>2
  <2>2. d \in Cached /\ d.t # c.t /\ d.t \in Nat
    BY <1>1, <1>2, <2>1
  <2>3. d.t < c.t
    BY <1>1, <1>5, <2>2
  <2>4. Good(d.t)
    BY <1>2, <2>2, <2>3
  <2> QED BY <2>2, <2>4, GoodRead
<1> QED BY <1>6, <1>7 DEF Ready

\* An open candle may replace the last closed one; the next closed one is near.
LEMMA ReadLate ==
  ASSUME Typed, Whole, MaxRows >= 7, NEW c, NEW w, NEW a, Reads(c, w, a)
  PROVE  Late'
<1>1. /\ now \in Nat /\ c.t \in Nat /\ now - 1 <= c.t /\ c.t <= now
      /\ c.v = 1 => ~c.closed
      /\ c.v = 2 => c.closed /\ c.t = now - 1
      /\ First(a) \in Nat /\ End(a) \in Nat /\ c.t <= End(a)
      /\ m1 = <<>> => First(a) = c.t
      /\ m1 # <<>> => /\ First(a) = First(m1) \/ First(a) <= now - 6
                      /\ First(m1) \in Nat /\ End(m1) \in Nat /\ End(m1) <= End(a)
      /\ c \in Cached'
      /\ \A d \in Cached' : d.t \in Nat /\ First(a) <= d.t
      /\ \A n \in Nat : First(a) <= n /\ n <= End(a) => \E d \in Cached' : d.t = n
  BY ReadsHas
<1>2. /\ m1' = a /\ half' = half /\ Cached' = Rows(a) /\ now' = now /\ check' = check /\ job' = job
      /\ (c.v = 1 \/ c.v = 2)
      /\ \A d \in Cached' : d = c \/ (d \in Cached /\ d.t # c.t)
  BY DEF Reads, clock
<1>3. PICK k : k = LastClosed(a)
  OBVIOUS
<1>4. \/ k = -1
      \/ /\ k \in Nat /\ \E e \in Cached' : e.closed /\ e.t = k
         /\ \A e \in Cached' : e.closed => e.t <= k
  <2>1. a \in Seq(Candle) /\ Line(a)
    BY DEF Reads, Took, Buffers
  <2> QED BY <1>2, <1>3, <2>1, LastClosedLine
<1>5. PICK last : last = LastClosed(m1)
  OBVIOUS
<1>6. PICK s \in 3..5 : s = 3 + (IF check THEN 1 ELSE 0) + (IF Filling("timer") THEN 1 ELSE 0)
  <2>1. PICK f \in {0, 1} : f = IF Filling("timer") THEN 1 ELSE 0
    OBVIOUS
  <2>2. PICK e \in {0, 1} : e = IF check THEN 1 ELSE 0
    OBVIOUS
  <2>3. 3 + e + f \in 3..5
    OBVIOUS
  <2> QED BY <2>1, <2>2, <2>3
<1>7. last # -1 => now - last <= s
  BY <1>5, <1>6 DEF Whole, Late
<1> SUFFICES ASSUME k # -1 PROVE now - k <= s
  BY <1>2, <1>3, <1>6 DEF Late, Filling
<1>8. /\ k \in Nat /\ First(a) <= k
      /\ \A e \in Cached' : e.closed => e.t <= k
  BY <1>1, <1>4
<1>9. CASE c.closed
  <2>1. c.t <= k
    BY <1>1, <1>8, <1>9
  <2> QED BY <1>1, <1>6, <1>8, <2>1
<1>10. CASE ~c.closed /\ First(a) >= now - 3
  BY <1>1, <1>6, <1>8, <1>10
<1>11. CASE ~c.closed /\ First(a) < now - 3
  <2>1. /\ m1 # <<>> /\ last \in Nat
        /\ \E z \in Cached : z.closed /\ z.t = last
    <3>1. m1 # <<>>
      BY <1>1, <1>11
    <3>2. PICK e \in Cached' : e.closed
      BY <1>4
    <3>3. e \in Cached
      BY <1>2, <1>11, <3>2
    <3> QED BY <1>5, <3>1, <3>2, <3>3, LastIs DEF Whole
  <2>2. PICK z \in Cached : z.closed /\ z.t = last
    BY <2>1
  <2>3. last <= End(m1) /\ First(m1) <= last /\ last <= now /\ \A d \in Cached : d.t = last => d = z
    BY <2>2, CachedAre DEF Whole
  <2>4. First(a) <= last
    BY <1>1, <1>6, <1>7, <2>1, <2>3
  <2>5. PICK d \in Cached' : d.t = last
    BY <1>1, <2>1, <2>3, <2>4
  <2>6. CASE d # c
    <3>1. d.closed
      BY <1>2, <2>2, <2>3, <2>5, <2>6
    <3>2. last <= k
      BY <1>8, <2>5, <3>1
    <3> QED BY <1>1, <1>6, <1>7, <1>8, <2>1, <3>2
  <2>7. CASE d = c
    <3>1. c.t = last
      BY <2>5, <2>7
    <3>2. now - 2 \in Nat /\ now - 3 \in Nat /\ First(a) <= now - 3 /\ now - 2 <= End(a)
      BY <1>1, <1>11
    <3>3. PICK d2 \in Cached' : d2.t = now - 2
      BY <1>1, <3>2
    <3>4. d2 \in Cached
      BY <1>1, <1>2, <3>3
    <3>5. CASE d2.closed
      <4>1. now - 2 <= k
        BY <1>8, <3>3, <3>5
      <4> QED BY <1>1, <1>6, <1>8, <4>1
    <3>6. CASE ~d2.closed
      <4>1. last # now
        BY <2>2, <3>3, <3>4, <3>6, <1>1 DEF Whole, Halved
      <4>2. last = now - 1
        BY <1>1, <2>1, <3>1, <4>1
      <4>3. Good(now - 2)
        <5>1. d2.t < last
          BY <1>1, <3>3, <4>2
        <5>2. Good(d2.t)
          BY <1>5, <3>4, <3>6, <5>1 DEF Whole, Holes
        <5> QED BY <3>3, <5>2
      <4>4. ~Closing(now - 2)
        <5>1. \A x \in OnWire : x.v = 2 => x.t = now - 1
          BY DEF Whole, Updates, Update1
        <5>2. now - 1 # now - 2
          BY <1>1
        <5> QED BY <5>1, <5>2 DEF Closing
      <4>5. \A x \in Cached : x.t = now - 2 - 1 => x.closed
        BY <4>3, <4>4 DEF Good
      <4>6. PICK d3 \in Cached' : d3.t = now - 3
        <5>1. now - 3 <= End(a)
          BY <1>1
        <5> QED BY <1>1, <3>2, <5>1
      <4>7. d3 \in Cached /\ d3.t = now - 2 - 1
        BY <1>1, <1>2, <4>6
      <4>8. now - 3 <= k
        BY <1>8, <4>5, <4>6, <4>7
      <4> QED BY <1>1, <1>6, <1>8, <4>8
    <3> QED BY <3>5, <3>6
  <2> QED BY <2>6, <2>7
<1>12. First(a) >= now - 3 \/ First(a) < now - 3
  BY <1>1
<1> QED BY <1>9, <1>10, <1>11, <1>12

\* The loop has read a candle.
LEMMA OnCandleKept == ASSUME Typed, Whole, MaxRows >= 7, OnCandle PROVE Whole'
<1>1. PICK c, w, a : Reads(c, w, a)
  BY ReadsIs
<1> QED BY <1>1, ReadLined, ReadHoles, ReadHeads, ReadLate DEF Whole

-----------------------------------------------------------------------------
(* The invariant, and what follows from it *)

IInv == Typed /\ (Well => Whole)

\* The invariant holds at first.
LEMMA InitWhole == Init => IInv
<1> SUFFICES ASSUME Init PROVE Whole
  BY InitTyped DEF IInv
<1>1. /\ ws = "off" /\ reconnect = FALSE /\ asked = 0 /\ wanted = FALSE /\ streaming = FALSE
      /\ now = Start /\ call = "no" /\ m1 = <<>> /\ wire = <<>> /\ check = FALSE /\ half = {}
      /\ job = [t \in Tasks |-> NoJob]
  BY DEF Init, StreamInit, ConnectionInit
<1>2. Cached = {} /\ OnWire = {}
  BY <1>1 DEF Cached, OnWire, Rows
<1>3. \A t \in Tasks : job[t].at = "idle" /\ ~Filling(t)
  BY <1>1 DEF NoJob, Filling
<1>4. Lined
  BY <1>1 DEF Lined, Line
<1>5. Begun
  BY <1>1, <1>2, <1>3 DEF Begun, Entered, Tasks
<1>6. Values /\ Halved
  BY <1>1, <1>2 DEF Values, Halved
<1>7. Jobs
  BY <1>3 DEF Jobs, Begins, Fills, Fetched, Loads
<1>8. Updates /\ InOrder(wire)
  BY <1>1, <1>2 DEF Updates, InOrder
<1>9. Connects
  BY <1>1, <1>2 DEF Connects
<1>10. Holes /\ Heads
  BY <1>1, <1>2 DEF Holes, Heads, Ready, Reaches, Clears
<1>11. Late
  <2>1. m1 \in Seq(Candle) /\ Line(m1)
    BY <1>4, InitTyped, Facts DEF Lined
  <2>2. LastClosed(m1) = -1
    BY <1>2, <2>1, LastClosedLine DEF Cached
  <2> QED BY <2>2 DEF Late
<1> QED BY <1>4, <1>5, <1>6, <1>7, <1>8, <1>9, <1>10, <1>11 DEF Whole

\* It does not mind stuttering.
LEMMA StutterKept == ASSUME Typed, Whole, UNCHANGED vars PROVE Whole'
<1>1. UNCHANGED <<stream, clock, call, m1, wire, job, faults, half>>
  BY DEF vars, engine
<1>2. /\ OnWire' = OnWire /\ Cached' = Cached
      /\ Lined' /\ Values' /\ Halved' /\ Jobs' /\ Late' /\ Updates' /\ InOrder(wire)' /\ Holes'
      /\ \A n \in Nat : Ready(n) => Ready(n)'
  BY <1>1, WireKept DEF clock
<1>3. Begun'
  BY <1>1, <1>2 DEF Whole, Begun, Entered, stream, connection, clock
<1>4. Connects'
  BY <1>1, <1>2 DEF Whole, Connects, stream, connection, clock
<1>5. Heads'
  <2> SUFFICES ASSUME NEW n \in Nat, Due(n)' PROVE Ready(n)'
    BY DEF Heads
  <2>1. Due(n)
    BY <1>1 DEF Due, stream, connection, clock
  <2> QED BY <1>2, <2>1 DEF Whole, Heads
<1> QED BY <1>2, <1>3, <1>4, <1>5 DEF Whole

\* What fails is counted, and nothing else is.
LEMMA OnlyFailuresCount ==
  ASSUME [Next]_vars, ~Refuse, ~Lag, \A t \in Tasks : ~LoadPart(t) /\ ~RequestFails(t)
  PROVE  UNCHANGED <<faults, refusals>>
<1>1. faults' = faults
  <2>1. CASE Tick \/ Update
    BY <2>1 DEF Tick, Update
  <2>2. CASE Manager \/ Disconnect \/ StartEngine \/ Subscriber \/ CallAgain
    BY <2>2 DEF Manager, Connect, Command, RetryConnect, Disconnect, StartEngine, Subscriber,
                Enter, SubscribeNow, CallAgain, engine
  <2>3. CASE CallerDetects \/ LoopDetects \/ TimerDetects
    BY <2>3 DEF CallerDetects, LoopDetects, TimerDetects, Detect
  <2>4. CASE OnCandle
    BY <2>4 DEF OnCandle
  <2>5. ASSUME NEW t \in Tasks, Backfill(t) PROVE faults' = faults
    BY <2>5 DEF Backfill, Fetch, Load, Insert, Replace, Loaded
  <2>6. CASE UNCHANGED vars
    BY <2>6 DEF vars, engine
  <2> QED BY <2>1, <2>2, <2>3, <2>4, <2>5, <2>6 DEF Next
<1>2. refusals' = refusals
  <2>1. CASE Tick \/ Update
    BY <2>1 DEF Tick, Update, stream, connection
  <2>2. CASE Manager \/ Disconnect \/ StartEngine \/ Subscriber \/ CallAgain
    BY <2>2 DEF Manager, Connect, Command, RetryConnect, Disconnect, StartEngine, Subscriber,
                Enter, SubscribeNow, CallAgain, Connected, Establish, SendCommand, Retry, Again,
                Disconnected, Lose, StartStream, StartConnection, Want, Ask, stream, connection
  <2>3. CASE CallerDetects \/ LoopDetects \/ TimerDetects
    BY <2>3 DEF CallerDetects, LoopDetects, TimerDetects, Detect, stream, connection
  <2>4. CASE OnCandle
    BY <2>4 DEF OnCandle, stream, connection
  <2>5. ASSUME NEW t \in Tasks, Backfill(t) PROVE refusals' = refusals
    BY <2>5 DEF Backfill, Fetch, Load, Insert, Replace, Loaded, stream, connection
  <2>6. CASE UNCHANGED vars
    BY <2>6 DEF vars, stream, connection
  <2> QED BY <2>1, <2>2, <2>3, <2>4, <2>5, <2>6 DEF Next
<1> QED BY <1>1, <1>2

\* A failure is not forgotten.
LEMMA WellBefore ==
  ASSUME Typed, [Next]_vars, Well'
  PROVE  Well /\ ~Refuse /\ ~Lag /\ \A t \in Tasks : ~LoadPart(t) /\ ~RequestFails(t)
<1>1. faults \in Nat /\ refusals \in Nat
  BY KlineAssumption, ConnectionAssumption
     DEF Typed, ClockTyped, ConnectionTyped, StreamTypeOK, ConnectionTypeOK
<1>2. faults' = 0 /\ refusals' = 0
  BY DEF Well
<1>3. ~Refuse
  BY <1>1, <1>2 DEF Refuse, Refused, FailToConnect
<1>4. ~Lag /\ \A t \in Tasks : ~LoadPart(t) /\ ~RequestFails(t)
  <2>1. faults' # faults + 1
    BY <1>1, <1>2
  <2>2. ~Lag
    BY <2>1 DEF Lag
  <2>3. \A t \in Tasks : ~LoadPart(t) /\ ~RequestFails(t)
    BY <2>1 DEF LoadPart, RequestFails
  <2> QED BY <2>2, <2>3
<1>5. UNCHANGED <<faults, refusals>>
  BY <1>3, <1>4, OnlyFailuresCount
<1> QED BY <1>2, <1>3, <1>4, <1>5 DEF Well

\* Every step preserves the invariant.
LEMMA StepWhole == ASSUME MaxRows >= 7, IInv, [Next]_vars PROVE IInv'
<1>1. Typed /\ Typed'
  BY StepTyped DEF IInv
<1> SUFFICES ASSUME Well' PROVE Whole'
  BY <1>1 DEF IInv
<1>2. Whole /\ ~Refuse /\ ~Lag /\ \A t \in Tasks : ~LoadPart(t) /\ ~RequestFails(t)
  BY <1>1, WellBefore DEF IInv
<1>3. CASE Tick
  BY <1>1, <1>2, <1>3, TickKept
<1>4. CASE Update
  BY <1>1, <1>2, <1>4, UpdateKept
<1>5. CASE Connect
  BY <1>1, <1>2, <1>5, ConnectKept
<1>6. CASE Command \/ RetryConnect \/ Disconnect
  BY <1>1, <1>2, <1>6, ManagerKept
<1>7. CASE StartEngine \/ Enter \/ SubscribeNow \/ CallAgain
  BY <1>1, <1>2, <1>7, CallKept
<1>8. CASE CallerDetects
  BY <1>1, <1>2, <1>8, CallerDetectsKept
<1>9. CASE LoopDetects
  BY <1>1, <1>2, <1>9, LoopDetectsKept
<1>10. CASE TimerDetects
  BY <1>1, <1>2, <1>10, TimerDetectsKept
<1>11. CASE OnCandle
  BY <1>1, <1>2, <1>11, OnCandleKept
<1>12. ASSUME NEW t \in Tasks, Backfill(t) PROVE Whole'
  <2>1. CASE Fetch(t)
    BY <1>1, <1>2, <2>1, FetchKept
  <2>2. CASE Load(t)
    BY <1>1, <1>2, <2>2, LoadKept
  <2>3. CASE Insert(t)
    BY <1>1, <1>2, <2>3, InsertKept
  <2>4. CASE Replace(t)
    BY <1>1, <1>2, <2>4, ReplaceKept
  <2>5. CASE Loaded(t)
    BY <1>1, <1>2, <2>5, LoadedKept
  <2> QED BY <1>12, <2>1, <2>2, <2>3, <2>4, <2>5 DEF Backfill
<1>13. CASE UNCHANGED vars
  BY <1>1, <1>2, <1>13, StutterKept
<1> QED BY <1>2, <1>3, <1>4, <1>5, <1>6, <1>7, <1>8, <1>9, <1>10, <1>11, <1>12, <1>13
        DEF Next, Manager, Subscriber

\* The invariant: for every limit of seven candles or more (the code has 1000), any time
\* the process runs and any number of lost connections.
THEOREM CacheIsWhole == ASSUME MaxRows >= 7 PROVE Spec => []IInv
<1>1. Init => IInv
  BY InitWhole
<1>2. IInv /\ [Next]_vars => IInv'
  BY StepWhole
<1> QED BY <1>1, <1>2, PTL DEF Spec

\* Places in the cache, as minutes.
LEMMA PlaceIs ==
  ASSUME NEW buf \in Seq(Candle), Line(buf), NEW i \in DOMAIN buf
  PROVE  buf[i].t = buf[1].t + i - 1 /\ buf[i] \in Rows(buf) /\ buf[1].t \in Nat /\ i \in Nat
<1>1. buf # <<>> /\ i \in Nat
  OBVIOUS
<1>2. First(buf) \in Nat
  BY <1>1, LineIs
<1> QED BY <1>1, <1>2 DEF Line, Rows, First

\* A line is in the order of time.
LEMMA WholeOrdered == ASSUME Typed, Whole PROVE Ordered
<1>1. m1 \in Seq(Candle) /\ Line(m1)
  BY Facts DEF Whole, Lined
<1> SUFFICES ASSUME NEW i \in DOMAIN m1, NEW j \in DOMAIN m1, i < j PROVE m1[i].t < m1[j].t
  BY DEF Ordered
<1>2. /\ m1[i].t = m1[1].t + i - 1 /\ m1[j].t = m1[1].t + j - 1
      /\ m1[1].t \in Nat /\ i \in Nat /\ j \in Nat
  BY <1>1, PlaceIs
<1> QED BY <1>2

\* What is over and not closed would be waiting for something, and nothing is under way.
LEMMA WholeFinal ==
  ASSUME Typed, Whole, Settled, NEW i \in DOMAIN m1, m1[i].t < now, After(m1[i].t)
  PROVE  m1[i].v = 2
<1>1. m1 \in Seq(Candle) /\ now \in Nat /\ wire = <<>> /\ OnWire = {}
  BY Facts DEF Settled, OnWire, Rows
<1>2. PICK c \in Cached : c = m1[i]
  BY DEF Cached, Rows
<1>3. c.t \in Nat /\ c.t < now /\ \A u \in half : u \in Nat /\ u < c.t
  <2>1. \A u \in half : u \in Nat
    BY KlineAssumption DEF Typed, ClockTyped, Minutes
  <2> QED BY <1>2, <2>1, CachedAre DEF After, Whole
<1>4. PICK last : last = LastClosed(m1)
  OBVIOUS
<1>5. last \in Nat \cup {-1} /\ now <= last + 1
  <2>1. last \in Nat \cup {-1}
    BY <1>4, CachedAre DEF Whole
  <2> QED BY <1>1, <1>4, <2>1 DEF Settled, Gap
<1>6. c.closed
  <2> SUFFICES ASSUME ~c.closed PROVE FALSE
    OBVIOUS
  <2>1. last \in Nat /\ last # -1
    BY <1>1, <1>3, <1>5
  <2>2. c.t # last
    BY <1>2, <1>4, <2>1, LastIs, CachedAre DEF Whole
  <2>3. c.t < last
    BY <1>1, <1>3, <1>5, <2>1, <2>2
  <2>4. Good(c.t)
    BY <1>2, <1>4, <2>3 DEF Whole, Holes
  <2>5. c.t + 1 \in half
    BY <1>1, <2>4 DEF Good, Closing
  <2> QED BY <1>3, <2>5
<1>7. c.t \notin half
  BY <1>3
<1> QED BY <1>2, <1>6, <1>7 DEF Whole, Values

\* The last closed candle is of the minute before at least, and the line has no hole.
LEMMA WholeContinuous == ASSUME Typed, Whole PROVE Continuous
<1> SUFFICES ASSUME Settled, NEW n \in m1[1].t..(now - 1) PROVE \E i \in DOMAIN m1 : m1[i].t = n
  BY DEF Continuous
<1>1. m1 \in Seq(Candle) /\ now \in Nat /\ m1 # <<>>
  BY Facts DEF Settled
<1>2. First(m1) \in Nat /\ End(m1) \in Nat
  BY <1>1, CachedAre DEF Whole
<1>3. PICK last : last = LastClosed(m1)
  OBVIOUS
<1>4. last \in Nat \cup {-1} /\ now <= last + 1
  <2>1. last \in Nat \cup {-1}
    BY <1>3, CachedAre DEF Whole
  <2> QED BY <1>1, <1>3, <2>1 DEF Settled, Gap
<1>5. n \in Nat /\ First(m1) <= n /\ n <= now - 1
  BY <1>1, <1>2 DEF First
<1>6. last \in Nat /\ last # -1
  BY <1>1, <1>4, <1>5
<1>7. last <= End(m1)
  <2>1. PICK c \in Cached : c.t = last
    BY <1>3, <1>6, LastIs DEF Whole
  <2> QED BY <2>1, CachedAre DEF Whole
<1>8. n <= End(m1)
  BY <1>1, <1>2, <1>4, <1>5, <1>6, <1>7
<1>9. \E c \in Cached : c.t = n
  BY <1>1, <1>5, <1>8, CachedAre DEF Whole
<1> QED BY <1>9 DEF Cached, Rows

\* The cache is in the order of time while nothing fails (OrderedWhenWell): whatever the
\* caller, the loop and the gap detection fill in beside the stream, push_or_update never
\* has to append a candle that is older than the last.
THEOREM CacheInOrder == ASSUME MaxRows >= 7 PROVE Spec => []OrderedWhenWell
<1>1. IInv => OrderedWhenWell
  BY WholeOrdered DEF IInv, OrderedWhenWell
<1> QED BY <1>1, CacheIsWhole, PTL

\* A minute that is over has its final candle when nothing is under way and nothing has
\* failed (FinalCandles): no backfill puts an unfinished candle over a finished one, and
\* no gap that check_continuity does not see has an unfinished one in it.
THEOREM CandlesAreFinal == ASSUME MaxRows >= 7 PROVE Spec => []FinalCandles
<1>1. IInv => FinalCandles
  BY WholeFinal DEF IInv, FinalCandles
<1> QED BY <1>1, CacheIsWhole, PTL

\* While nothing fails, check_continuity, which looks at the last closed candle only,
\* misses no hole, also in a buffer that is full (Continuous; NoHoleStays below says it
\* with a failure).
THEOREM CacheIsContinuous == ASSUME MaxRows >= 7 PROVE Spec => [](Well => Continuous)
<1>1. IInv => (Well => Continuous)
  BY WholeContinuous DEF IInv
<1> QED BY <1>1, CacheIsWhole, PTL

-----------------------------------------------------------------------------
(* What a buffer below its limit gains *)

Times(buf) == {buf[i].t : i \in DOMAIN buf}

\* A candle that goes in takes nothing away, unless the buffer has come to its limit.
LEMMA PushGains ==
  ASSUME NEW buf \in Buffers, NEW c \in Candle, NEW b, b = PushOrUpdate(buf, c)
  PROVE  /\ b \in Buffers /\ b # <<>>
         /\ \A r \in Rows(b) : r = c \/ r \in Rows(buf)
         /\ Len(b) < MaxRows => /\ Len(buf) < MaxRows /\ Times(b) = Times(buf) \cup {c.t}
                                /\ buf # <<>> => First(b) = First(buf)
<1>1. PICK N \in Nat : N = Len(buf) /\ N <= MaxRows /\ DOMAIN buf = 1..N /\ buf \in Seq(Candle)
  BY DEF Buffers
<1>2. MaxRows \in Nat /\ MaxRows >= 1
  BY KlineAssumption
<1>3. b \in Buffers
  BY PushType
<1>4. CASE \E i \in DOMAIN buf : buf[i].t = c.t /\ b = [buf EXCEPT ![i] = c]
  <2>1. PICK i \in 1..N : buf[i].t = c.t /\ b = [buf EXCEPT ![i] = c]
    BY <1>1, <1>4
  <2>2. /\ DOMAIN b = 1..N /\ Len(b) = N /\ N >= 1 /\ b # <<>> /\ b[i] = c
        /\ \A k \in 1..N : k # i => b[k] = buf[k]
    BY <1>1, <2>1
  <2>3. \A k \in 1..N : b[k].t = buf[k].t
    BY <2>1, <2>2
  <2>4. Times(b) = Times(buf) /\ c.t \in Times(buf)
    BY <1>1, <2>1, <2>2, <2>3 DEF Times
  <2>5. First(b) = First(buf)
    BY <2>2, <2>3 DEF First
  <2>6. \A r \in Rows(b) : r = c \/ r \in Rows(buf)
    BY <1>1, <2>2 DEF Rows
  <2> QED BY <1>1, <1>3, <2>2, <2>4, <2>5, <2>6
<1>5. CASE b = Newest(Append(buf, c))
  <2>1. PICK x : x = Append(buf, c)
    OBVIOUS
  <2>2. x \in Seq(Candle) /\ Len(x) = N + 1 /\ DOMAIN x = 1..(N + 1) /\ x[N + 1] = c /\ \A k \in 1..N : x[k] = buf[k]
    BY <1>1, <2>1
  <2>3. Rows(x) = Rows(buf) \cup {c}
    BY <1>1, <2>1, AppendIs
  <2>4. CASE N < MaxRows
    <3>1. b = x
      <4>1. Len(x) <= MaxRows
        BY <1>2, <2>2, <2>4
      <4>2. Newest(x) = x
        BY <2>2, <4>1, NewestIs
      <4> QED BY <1>5, <2>1, <4>2
    <3>2. Times(x) = Times(buf) \cup {c.t}
      <4>1. \A k \in 1..(N + 1) : k \in 1..N \/ k = N + 1
        OBVIOUS
      <4>2. N + 1 \in 1..(N + 1) /\ \A k \in 1..N : k \in 1..(N + 1)
        OBVIOUS
      <4>3. \A n \in Times(x) : n \in Times(buf) \cup {c.t}
        BY <1>1, <2>2, <4>1 DEF Times
      <4>4. \A n \in Times(buf) \cup {c.t} : n \in Times(x)
        BY <1>1, <2>2, <4>2 DEF Times
      <4> QED BY <4>3, <4>4
    <3>3. buf # <<>> => First(x) = First(buf)
      BY <1>1, <2>2 DEF First
    <3>4. x # <<>>
      BY <2>2
    <3> QED BY <1>1, <1>3, <2>3, <2>4, <3>1, <3>2, <3>3, <3>4
  <2>5. CASE N = MaxRows
    <3>1. Len(b) = MaxRows /\ \A k \in 1..MaxRows : b[k] = x[k + 1]
      BY <1>5, <2>1, <2>2, <2>5, NewestIs
    <3>2. b \in Seq(Candle) /\ DOMAIN b = 1..MaxRows
      BY <1>3, <3>1 DEF Buffers
    <3>3. \A k \in 1..MaxRows : k + 1 \in 1..(N + 1)
      BY <1>2, <2>5
    <3>4. \A r \in Rows(b) : r \in Rows(x)
      BY <2>2, <3>1, <3>2, <3>3 DEF Rows
    <3>5. b # <<>> /\ ~(Len(b) < MaxRows)
      BY <1>2, <3>1
    <3> QED BY <1>3, <2>3, <3>4, <3>5
  <2> QED BY <1>1, <1>2, <2>4, <2>5
<1> QED BY <1>1, <1>4, <1>5, PushCases

\* So it is with a backfill: as many of its rows as concern the gap.
Gain(rows, minutes, k) == {rows[j] : j \in {j \in 1..k : rows[j].t \in minutes}}
Gained(buf, b, new) ==
  /\ b \in Buffers /\ (buf # <<>> => b # <<>>)
  /\ \A r \in Rows(b) : r \in new \/ r \in Rows(buf)
  /\ Len(b) < MaxRows => /\ Len(buf) < MaxRows /\ Times(b) = Times(buf) \cup {r.t : r \in new}
                         /\ buf # <<>> => First(b) = First(buf)

LEMMA FilledGains ==
  ASSUME NEW buf \in Buffers, NEW rows \in Seq(Candle), NEW minutes
  PROVE  Gained(buf, Filled(buf, rows, minutes), Gain(rows, minutes, Len(rows)))
<1> DEFINE S == {p \in Nat \X Seq(Candle) : p[1] <= Len(rows) /\ Gained(buf, p[2], Gain(rows, minutes, p[1]))}
<1>1. buf \in Seq(Candle) /\ Len(rows) \in Nat /\ DOMAIN rows = 1..Len(rows)
  BY DEF Buffers
<1>2. <<0, buf>> \in S
  <2>1. Gain(rows, minutes, 0) = {}
    BY DEF Gain
  <2>2. Gained(buf, buf, {})
    <3>1. {r.t : r \in {}} = {}
      OBVIOUS
    <3> QED BY <3>1 DEF Gained
  <2>3. 0 \in Nat /\ 0 <= Len(rows)
    BY <1>1
  <2> QED BY <1>1, <2>1, <2>2, <2>3
<1>3. ASSUME NEW i \in 1..Len(rows), NEW b \in Seq(Candle), <<i - 1, b>> \in S
      PROVE  <<i, Put(b, rows[i], minutes)>> \in S
  <2>1. Gained(buf, b, Gain(rows, minutes, i - 1)) /\ i \in Nat /\ i <= Len(rows)
    BY <1>1, <1>3
  <2>2. PICK c \in Candle : c = rows[i]
    BY <1>1
  <2>3. \A j \in 1..i : j \in 1..(i - 1) \/ j = i
    BY <2>1
  <2>4. i \in 1..i /\ \A j \in 1..(i - 1) : j \in 1..i
    BY <2>1
  <2>5. CASE c.t \in minutes
    <3>1. PICK a : a = PushOrUpdate(b, c)
      OBVIOUS
    <3>2. Gain(rows, minutes, i) = Gain(rows, minutes, i - 1) \cup {c}
      BY <2>2, <2>3, <2>4, <2>5 DEF Gain
    <3>3. b \in Buffers
      BY <2>1 DEF Gained
    <3>4. /\ a \in Buffers /\ a # <<>>
          /\ \A r \in Rows(a) : r = c \/ r \in Rows(b)
          /\ Len(a) < MaxRows => /\ Len(b) < MaxRows /\ Times(a) = Times(b) \cup {c.t}
                                 /\ b # <<>> => First(a) = First(b)
      BY <3>1, <3>3, PushGains
    <3>5. \A g : {r.t : r \in g \cup {c}} = {r.t : r \in g} \cup {c.t}
      OBVIOUS
    <3>6. Gained(buf, a, Gain(rows, minutes, i - 1) \cup {c})
      BY <2>1, <3>4, <3>5 DEF Gained
    <3>7. a \in Seq(Candle) /\ Put(b, rows[i], minutes) = a
      BY <2>2, <2>5, <3>1, <3>4 DEF Put, Buffers
    <3> QED BY <2>1, <3>2, <3>6, <3>7
  <2>6. CASE c.t \notin minutes
    <3>1. Gain(rows, minutes, i) = Gain(rows, minutes, i - 1)
      BY <2>2, <2>3, <2>4, <2>6 DEF Gain
    <3>2. Put(b, rows[i], minutes) = b
      BY <2>2, <2>6 DEF Put
    <3> QED BY <2>1, <3>1, <3>2
  <2> QED BY <2>5, <2>6
<1>4. <<Len(rows), Filled(buf, rows, minutes)>> \in S
  <2> HIDE DEF S
  <2> QED BY <1>1, <1>2, <1>3, FilledBy
<1> QED BY <1>4

\* A run of minutes, counted.
LEMMA RunIs ==
  ASSUME NEW a \in Int, NEW b \in Int, a <= b + 1
  PROVE  IsFiniteSet(a..b) /\ Cardinality(a..b) = b - a + 1
<1>1. Cardinality(a..b) = (IF a > b THEN 0 ELSE b - a + 1) /\ IsFiniteSet(a..b)
  BY FS_Interval
<1>2. CASE a > b
  BY <1>1, <1>2
<1>3. CASE ~(a > b)
  BY <1>1, <1>3
<1> QED BY <1>2, <1>3

\* A buffer below its limit has no room for as many minutes as the limit.
LEMMA TooMany ==
  ASSUME NEW buf \in Seq(Candle), Len(buf) < MaxRows, NEW from \in Nat,
         from..(from + MaxRows - 1) \subseteq Times(buf)
  PROVE  FALSE
<1>1. PICK N \in Nat : N = Len(buf) /\ DOMAIN buf = 1..N /\ N < MaxRows
  OBVIOUS
<1>2. MaxRows \in Nat
  BY KlineAssumption
<1> DEFINE f == [i \in 1..N |-> buf[i].t]
<1>3. f \in Surjection(1..N, Times(buf))
  BY <1>1 DEF Surjection, Times
<1>4. IsFiniteSet(1..N) /\ Cardinality(1..N) = N
  <2>1. N \in Int /\ 1 \in Int /\ 1 <= N + 1
    OBVIOUS
  <2>2. IsFiniteSet(1..N) /\ Cardinality(1..N) = N - 1 + 1
    <3> HIDE DEF f
    <3> QED BY ONLY <2>1, RunIs
  <2> QED BY <2>2
<1>5. IsFiniteSet(Times(buf)) /\ Cardinality(Times(buf)) <= N
  <2> HIDE DEF f
  <2> QED BY <1>3, <1>4, FS_Surjection
<1>6. Cardinality(from..(from + MaxRows - 1)) = MaxRows
  <2>1. PICK to \in Int : to = from + MaxRows - 1
    BY <1>2
  <2>2. Cardinality(from..to) = to - from + 1
    BY <1>1, <1>2, <2>1, RunIs
  <2> QED BY <1>2, <2>1, <2>2
<1>7. Cardinality(from..(from + MaxRows - 1)) <= Cardinality(Times(buf))
  BY <1>5, FS_Subset
<1>8. Cardinality(Times(buf)) \in Nat
  BY <1>5, FS_CardinalityType
<1> QED BY <1>1, <1>2, <1>5, <1>6, <1>7, <1>8

-----------------------------------------------------------------------------
(* What holds whatever fails: the times of candles, updates and tasks *)

\* No candle is of a minute to come; an update is of this minute or the last, and closes
\* the last.
InTime ==
  /\ \A c \in Cached : c.t <= now
  /\ \A c \in OnWire : c.v # 0 => now - 1 <= c.t /\ c.t <= now /\ (c.closed => c.t < now)

\* A task began in this minute or the last, and has been answered with what it asked for.
Work(t) ==
  /\ job[t].at # "idle" => now - 1 <= job[t].to
  /\ Filling(t) => m1 # <<>> /\ job[t].from < job[t].to
  /\ job[t].at = "fetched" =>
       /\ Len(job[t].rows) = MinOf(job[t].to, job[t].from + MaxRows) - job[t].from
       /\ \A i \in DOMAIN job[t].rows : job[t].rows[i].t = job[t].from + i - 1
  /\ job[t].at = "loaded" =>
       /\ job[t].rows # <<>> /\ Line(job[t].rows)
       /\ job[t].to <= End(job[t].rows) /\ End(job[t].rows) <= now
Works == \A t \in Tasks : Work(t)

\* The call of subscribe_market asks for the symbol in its first minute or the next; a
\* connection that does not stream it is one of that time.
Opens ==
  /\ streaming => wanted
  /\ call # "no" => ws # "off"
  /\ call \in {"started", "entered"} => now <= Start + 1
  /\ ws = "up" /\ ~streaming => now <= Start + 1 /\ (asked > 0 \/ call \in {"started", "entered"})

Basic == Typed /\ InTime /\ Works /\ Begun /\ Opens

\* What stays on the wire when the first is taken.
LEMMA TailRows ==
  ASSUME NEW w \in Seq(Candle), w # <<>>
  PROVE  /\ Tail(w) \in Seq(Candle) /\ Head(w) = w[1] /\ Head(w) \in Rows(w)
         /\ Rows(Tail(w)) \subseteq Rows(w) /\ DOMAIN w = 1..Len(w) /\ Len(w) \in Nat /\ Len(w) >= 1
         /\ DOMAIN Tail(w) = 1..(Len(w) - 1)
         /\ \A i \in 1..(Len(w) - 1) : Tail(w)[i] = w[i + 1]
<1>1. PICK N \in Nat : N = Len(w) /\ N >= 1 /\ DOMAIN w = 1..N
  OBVIOUS
<1>2. /\ Tail(w) \in Seq(Candle) /\ Len(Tail(w)) = N - 1 /\ DOMAIN Tail(w) = 1..(N - 1) /\ Head(w) = w[1]
      /\ \A i \in 1..(N - 1) : Tail(w)[i] = w[i + 1]
  BY <1>1
<1>3. \A i \in 1..(N - 1) : i + 1 \in 1..N
  OBVIOUS
<1>4. Rows(Tail(w)) \subseteq Rows(w)
  BY <1>1, <1>2, <1>3 DEF Rows
<1>5. w[1] \in Rows(w)
  BY <1>1 DEF Rows
<1> QED BY <1>1, <1>2, <1>4, <1>5

\* What is left when the oldest updates are lost was there before.
LEMMA RowsCut ==
  ASSUME NEW u \in Seq(Candle), NEW n \in 1..Len(u)
  PROVE  /\ SubSeq(u, n + 1, Len(u)) \in Seq(Candle)
         /\ Rows(SubSeq(u, n + 1, Len(u))) \subseteq Rows(u)
<1> DEFINE w == SubSeq(u, n + 1, Len(u))
<1>1. PICK N \in Nat : N = Len(u) /\ DOMAIN u = 1..N
  OBVIOUS
<1>2. w \in Seq(Candle) /\ DOMAIN w = 1..(N - n) /\ \A i \in 1..(N - n) : w[i] = u[i + n] /\ i + n \in 1..N
  BY <1>1
<1> HIDE DEF w
<1>3. Rows(w) \subseteq Rows(u)
  BY <1>1, <1>2 DEF Rows
<1> QED BY <1>2, <1>3 DEF w

\* The clock moves with Tick alone, and no more than a minute; then everything that has
\* begun is of the minute that ends.
LEMMA ClockMoves ==
  ASSUME Typed, [Next]_vars
  PROVE  \/ UNCHANGED now /\ ~(Tick /\ now' # now)
         \/ /\ Tick /\ now' = now + 1 /\ UNCHANGED <<stream, call, m1, job, faults>>
            /\ \A c \in OnWire : c.t = now
<1>1. now \in Nat
  BY Facts
<1>2. CASE Tick
  <2>1. now' = now \/ now' = now + 1
    BY <1>1, <1>2, ClockIs, KlineAssumption DEF Tick, MinOf, Typed
  <2>2. UNCHANGED <<stream, call, m1, job, faults>> /\ \A c \in OnWire : c.t = now
    BY <1>2 DEF Tick, Prompt, OnWire, Rows
  <2> QED BY <1>1, <1>2, <2>1, <2>2
<1>3. CASE ~Tick
  <2>1. CASE Update \/ Lag \/ OnCandle \/ StartEngine \/ Subscriber \/ CallAgain
    BY <2>1 DEF Update, Lag, OnCandle, StartEngine, Subscriber, Enter, SubscribeNow, CallAgain, clock
  <2>2. CASE Manager \/ Disconnect \/ Refuse
    BY <2>2 DEF Manager, Connect, Command, RetryConnect, Disconnect, Refuse, clock
  <2>3. CASE CallerDetects \/ LoopDetects \/ TimerDetects
    BY <2>3 DEF CallerDetects, LoopDetects, TimerDetects, Detect
  <2>4. ASSUME NEW t \in Tasks, Backfill(t) \/ LoadPart(t) \/ RequestFails(t) PROVE UNCHANGED now
    BY <2>4 DEF Backfill, Fetch, Load, Insert, Replace, Loaded, LoadPart, RequestFails, clock
  <2>5. CASE UNCHANGED vars
    BY <2>5 DEF vars, clock
  <2> QED BY <1>3, <2>1, <2>2, <2>3, <2>4, <2>5 DEF Next
<1> QED BY <1>2, <1>3

\* What appears on the wire.
LEMMA WireMoves ==
  ASSUME Typed, [Next]_vars, NEW c \in OnWire'
  PROVE  \/ c \in OnWire \/ c.v = 0
         \/ streaming /\ c = [t |-> now, v |-> 2, closed |-> TRUE] /\ now' = now + 1
         \/ streaming /\ c = [t |-> now, v |-> 1, closed |-> FALSE] /\ now' = now
<1>1. wire \in Seq(Candle) /\ now \in Nat /\ now <= MaxMinute /\ now \in Minutes
  BY Facts, ClockIs DEF Typed
<1>2. \A v \in Nat, b \in BOOLEAN : [t |-> now, v |-> v, closed |-> b] \in Candle
  BY <1>1 DEF Candle
<1>3. CASE wire' = wire
  BY <1>3 DEF OnWire
<1>4. CASE wire # <<>> /\ wire' = Tail(wire)
  <2>1. OnWire' \subseteq OnWire
    BY <1>1, <1>4, TailRows DEF OnWire
  <2> QED BY <2>1
<1>5. ASSUME NEW d \in Candle, wire' = Append(wire, d) PROVE c \in OnWire \/ c = d
  BY <1>1, <1>5, AppendIs DEF OnWire
<1>6. CASE Tick
  <2>1. wire' = wire \/ (streaming /\ now' > now /\ wire' = Append(wire, [t |-> now, v |-> 2, closed |-> TRUE]))
    BY <1>6 DEF Tick
  <2>2. now' = now \/ now' = now + 1
    BY ClockMoves
  <2>3. [t |-> now, v |-> 2, closed |-> TRUE] \in Candle
    BY <1>2
  <2>4. now' > now => now' = now + 1
    BY <1>1, <2>2
  <2> QED BY <1>3, <1>5, <2>1, <2>3, <2>4
<1>7. CASE Update
  <2>1. streaming /\ wire' = Append(wire, [t |-> now, v |-> 1, closed |-> FALSE]) /\ now' = now
    BY <1>7 DEF Update, clock
  <2>2. [t |-> now, v |-> 1, closed |-> FALSE] \in Candle
    BY <1>2
  <2> QED BY <1>5, <2>1, <2>2
<1>8. CASE Connect
  <2>1. wire' = wire \/ wire' = Append(wire, Reconnect)
    BY <1>8 DEF Connect
  <2>2. Reconnect \in Candle /\ Reconnect.v = 0
    BY <1>2 DEF Reconnect
  <2> QED BY <1>3, <1>5, <2>1, <2>2
<1>9. CASE LoopDetects \/ OnCandle
  <2>1. wire # <<>> /\ wire' = Tail(wire)
    BY <1>9 DEF LoopDetects, OnCandle
  <2> QED BY <1>4, <2>1
<1>14. CASE Lag
  <2>1. PICK n \in 1..Len(wire) : wire' = SubSeq(wire, n + 1, Len(wire))
    BY <1>14 DEF Lag
  <2>2. OnWire' \subseteq OnWire
    BY <1>1, <2>1, RowsCut DEF OnWire
  <2> QED BY <2>2
<1>10. CASE Command \/ RetryConnect \/ Disconnect \/ Refuse \/ StartEngine \/ Subscriber \/ CallAgain
  <2>1. wire' = wire
    BY <1>10 DEF Command, RetryConnect, Disconnect, Refuse, StartEngine, Subscriber, Enter, SubscribeNow,
                 CallAgain, engine
  <2> QED BY <1>3, <2>1
<1>11. CASE CallerDetects \/ TimerDetects \/ UNCHANGED vars
  <2>1. wire' = wire
    BY <1>11 DEF CallerDetects, TimerDetects, vars, engine
  <2> QED BY <1>3, <2>1
<1>12. ASSUME NEW t \in Tasks, Backfill(t) \/ LoadPart(t) \/ RequestFails(t) PROVE wire' = wire
  BY <1>12 DEF Backfill, Fetch, Load, Insert, Replace, Loaded, LoadPart, RequestFails
<1> QED BY <1>3, <1>6, <1>7, <1>8, <1>9, <1>10, <1>11, <1>12, <1>14 DEF Next, Manager

\* What the cache gains in a step: candles of its minutes and of the new ones, closed only
\* if they were; below the limit nothing is lost.
Below == Len(m1) < MaxRows
Grows(new) ==
  /\ \A c \in Cached' : \E d \in Cached \cup new : c.t = d.t /\ (c.closed => d.closed)
  /\ (m1 # <<>> => m1' # <<>>)
  /\ Below' => /\ Below /\ Times(m1)' = Times(m1) \cup {r.t : r \in new}
               /\ m1 # <<>> => First(m1)' = First(m1)

\* Closing a candle in place leaves the minutes alone.
LEMMA CloseKeeps ==
  ASSUME NEW buf \in Seq(Candle), NEW t, NEW b, b = CloseCandle(buf, t)
  PROVE  /\ Len(b) = Len(buf) /\ Times(b) = Times(buf) /\ (buf # <<>> => First(b) = First(buf) /\ b # <<>>)
         /\ \A c \in Rows(b) : \E d \in Rows(buf) : c.t = d.t /\ (c = d \/ c.t = t)
<1>1. PICK N \in Nat : N = Len(buf) /\ DOMAIN buf = 1..N
  OBVIOUS
<1>2. CASE b = buf
  BY <1>2
<1>3. CASE \E i \in DOMAIN buf : buf[i].t = t /\ b = [buf EXCEPT ![i].closed = TRUE]
  <2>1. PICK i \in 1..N : buf[i].t = t /\ b = [buf EXCEPT ![i].closed = TRUE]
    BY <1>1, <1>3
  <2>2. \A k \in 1..N : buf[k] \in Candle
    BY <1>1
  <2>3. /\ DOMAIN b = 1..N /\ Len(b) = N /\ N >= 1 /\ b # <<>>
        /\ \A k \in 1..N : k # i => b[k] = buf[k]
        /\ b[i].t = buf[i].t
    BY <1>1, <2>1, <2>2 DEF Candle
  <2>4. \A k \in 1..N : b[k].t = buf[k].t
    BY <2>3
  <2>5. Times(b) = Times(buf) /\ First(b) = First(buf)
    BY <1>1, <2>3, <2>4 DEF Times, First
  <2>6. \A c \in Rows(b) : \E d \in Rows(buf) : c.t = d.t /\ (c = d \/ c.t = t)
    <3> SUFFICES ASSUME NEW k \in 1..N PROVE \E d \in Rows(buf) : b[k].t = d.t /\ (b[k] = d \/ b[k].t = t)
      BY <2>3 DEF Rows
    <3>1. buf[k] \in Rows(buf)
      BY <1>1 DEF Rows
    <3>2. k = i \/ b[k] = buf[k]
      BY <2>3
    <3> QED BY <2>1, <2>4, <3>1, <3>2
  <2> QED BY <1>1, <2>3, <2>5, <2>6
<1> QED BY <1>2, <1>3, CloseIs

\* kline_ws_loop has read a candle.
LEMMA CandleGrows ==
  ASSUME Typed, OnCandle, NEW c, c = Head(wire)
  PROVE  /\ c \in OnWire /\ c \in Candle /\ c.v # 0 /\ wire # <<>> /\ wire' = Tail(wire)
         /\ job["loop"].at = "idle" /\ UNCHANGED <<stream, clock, call, job, faults, half>>
         /\ Grows({c}) /\ m1' # <<>> /\ (m1 = <<>> /\ Below' => First(m1)' = c.t)
<1>1. wire \in Seq(Candle) /\ m1 \in Buffers /\ m1 \in Seq(Candle)
  BY Facts
<1>2. /\ wire # <<>> /\ wire' = Tail(wire) /\ c.v # 0 /\ job["loop"].at = "idle"
      /\ UNCHANGED <<stream, clock, call, job, faults, half>>
  BY DEF OnCandle
<1>3. c \in OnWire /\ c \in Candle
  BY <1>1, <1>2, TailRows, RowsAre DEF OnWire
<1>4. PICK a : a = PushOrUpdate(m1, c)
  OBVIOUS
<1>5. /\ a \in Buffers /\ a # <<>>
      /\ \A r \in Rows(a) : r = c \/ r \in Cached
      /\ Len(a) < MaxRows => /\ Below /\ Times(a) = Times(m1) \cup {c.t}
                             /\ m1 # <<>> => First(a) = First(m1)
  BY <1>1, <1>3, <1>4, PushGains DEF Below, Cached
<1>6. m1' = IF c.closed THEN CloseCandle(a, c.t) ELSE a
  BY <1>4 DEF OnCandle
<1>7. a \in Seq(Candle)
  BY <1>5 DEF Buffers
<1>8. /\ Len(m1') = Len(a) /\ Times(m1)' = Times(a) /\ First(m1)' = First(a) /\ m1' # <<>>
      /\ \A r \in Cached' : \E d \in Rows(a) : r.t = d.t /\ (r = d \/ (c.closed /\ r.t = c.t))
  <2>1. CASE c.closed
    <3>1. PICK b : b = CloseCandle(a, c.t)
      OBVIOUS
    <3>2. /\ Len(b) = Len(a) /\ Times(b) = Times(a) /\ First(b) = First(a) /\ b # <<>>
          /\ \A r \in Rows(b) : \E d \in Rows(a) : r.t = d.t /\ (r = d \/ r.t = c.t)
      BY <1>5, <1>7, <3>1, CloseKeeps
    <3>3. m1' = b /\ Cached' = Rows(b) /\ Times(m1)' = Times(b) /\ First(m1)' = First(b)
      BY <1>6, <2>1, <3>1 DEF Cached, Times, First
    <3> QED BY <2>1, <3>2, <3>3
  <2>2. CASE ~c.closed
    <3>1. m1' = a
      BY <1>6, <2>2
    <3> QED BY <1>5, <3>1 DEF Cached, Times, First
  <2> QED BY <2>1, <2>2
<1>9. \A r \in Cached' : \E d \in Cached \cup {c} : r.t = d.t /\ (r.closed => d.closed)
  <2> SUFFICES ASSUME NEW r \in Cached' PROVE \E d \in Cached \cup {c} : r.t = d.t /\ (r.closed => d.closed)
    OBVIOUS
  <2>1. PICK d \in Rows(a) : r.t = d.t /\ (r = d \/ (c.closed /\ r.t = c.t))
    BY <1>8
  <2>2. d \in Cached \cup {c}
    BY <1>5
  <2> QED BY <2>1, <2>2
<1>10. Grows({c})
  <2>1. {r.t : r \in {c}} = {c.t}
    OBVIOUS
  <2>2. Below' => Len(a) < MaxRows
    BY <1>8 DEF Below
  <2> QED BY <1>5, <1>8, <1>9, <2>1, <2>2 DEF Grows
<1>11. m1 = <<>> /\ Below' => First(m1)' = c.t
  <2> SUFFICES ASSUME m1 = <<>>, Below' PROVE First(a) = c.t
    BY <1>8
  <2>1. Times(m1) = {}
    BY DEF Times
  <2>2. Times(a) = {c.t}
    BY <1>5, <1>8, <2>1 DEF Below
  <2>3. 1 \in DOMAIN a
    BY <1>5, <1>7
  <2> QED BY <2>2, <2>3 DEF Times, First
<1> QED BY <1>2, <1>3, <1>8, <1>10, <1>11

\* A backfill has been inserted.
News(t) == Gain(job[t].rows, job[t].from..(job[t].to - 1), Len(job[t].rows))
LEMMA InsertGrows ==
  ASSUME Typed, NEW t \in Tasks, Insert(t)
  PROVE  /\ job[t].at = "fetched" /\ job'[t].at = "replace" /\ job'[t].to = job[t].to
         /\ \A u \in Tasks : u # t => job'[u] = job[u]
         /\ UNCHANGED <<stream, clock, call, wire, faults, half>>
         /\ Grows(News(t))
<1>1. m1 \in Buffers /\ job[t].rows \in Seq(Candle) /\ job \in [Tasks -> JobState]
  BY Facts DEF Typed, JobsTyped
<1>2. PICK b : b = Filled(m1, job[t].rows, job[t].from..(job[t].to - 1))
  OBVIOUS
<1>3. /\ job[t].at = "fetched" /\ m1' = b /\ UNCHANGED <<stream, clock, call, wire, faults, half>>
      /\ job' = [job EXCEPT ![t] = [NoJob EXCEPT !.at = "replace", !.to = job[t].to, !.high = Aggregate(b)]]
  BY <1>2 DEF Insert
<1>4. job'[t].at = "replace" /\ job'[t].to = job[t].to /\ \A u \in Tasks : u # t => job'[u] = job[u]
  BY <1>1, <1>3 DEF NoJob
<1>5. Gained(m1, b, News(t))
  BY <1>1, <1>2, FilledGains DEF News
<1>6. Grows(News(t))
  <2>1. \A c \in Cached' : c \in Cached \cup News(t)
    BY <1>3, <1>5 DEF Gained, Cached
  <2>2. m1 # <<>> => m1' # <<>>
    BY <1>3, <1>5 DEF Gained
  <2>3. Below' => /\ Below /\ Times(m1)' = Times(m1) \cup {r.t : r \in News(t)}
                  /\ m1 # <<>> => First(m1)' = First(m1)
    BY <1>3, <1>5 DEF Gained, Below, Times, First
  <2> QED BY <2>1, <2>2, <2>3 DEF Grows
<1> QED BY <1>3, <1>4, <1>6

\* What it brings is of the gap.
LEMMA NewsAre ==
  ASSUME Typed, NEW t \in Tasks, NEW c \in News(t)
  PROVE  c.t \in Nat /\ job[t].from <= c.t /\ c.t < job[t].to
<1>1. job[t].rows \in Seq(Candle) /\ job[t].from \in Nat /\ job[t].to \in Nat
  BY Facts
<1>2. PICK j \in 1..Len(job[t].rows) : c = job[t].rows[j] /\ c.t \in job[t].from..(job[t].to - 1)
  BY DEF News, Gain
<1> QED BY <1>1, <1>2

\* A first load replaces the cache.
LEMMA LoadReplaces ==
  ASSUME Typed, NEW t \in Tasks, Loaded(t)
  PROVE  /\ job[t].at = "loaded" /\ m1' = job[t].rows /\ job'[t].at = "idle"
         /\ \A u \in Tasks : u # t => job'[u] = job[u]
         /\ call' = (IF t = "caller" THEN "ok" ELSE call)
         /\ UNCHANGED <<stream, clock, wire, faults>>
<1>1. job \in [Tasks -> JobState]
  BY DEF Typed, JobsTyped
<1>2. /\ job[t].at = "loaded" /\ m1' = job[t].rows /\ job' = [job EXCEPT ![t] = NoJob]
      /\ call' = (IF t = "caller" THEN "ok" ELSE call)
      /\ UNCHANGED <<stream, clock, wire, faults>>
  BY DEF Loaded, Returns, Reported
<1>3. job'[t].at = "idle" /\ \A u \in Tasks : u # t => job'[u] = job[u]
  BY <1>1, <1>2 DEF NoJob
<1> QED BY <1>2, <1>3

\* Every other step leaves the cache as it is.
LEMMA CacheMoves ==
  ASSUME Typed, [Next]_vars
  PROVE  \/ UNCHANGED m1
         \/ OnCandle
         \/ \E t \in Tasks : Insert(t) \/ Loaded(t)
<1>1. CASE Tick \/ Update \/ Lag \/ StartEngine \/ Subscriber \/ CallAgain
  BY <1>1 DEF Tick, Update, Lag, StartEngine, Subscriber, Enter, SubscribeNow, CallAgain
<1>2. CASE Manager \/ Disconnect \/ Refuse
  BY <1>2 DEF Manager, Connect, Command, RetryConnect, Disconnect, Refuse, engine
<1>3. CASE CallerDetects \/ LoopDetects \/ TimerDetects
  BY <1>3 DEF CallerDetects, LoopDetects, TimerDetects, Detect
<1>4. ASSUME NEW t \in Tasks, Fetch(t) \/ Load(t) \/ Replace(t) \/ LoadPart(t) \/ RequestFails(t)
      PROVE UNCHANGED m1
  BY <1>4 DEF Fetch, Load, Replace, LoadPart, RequestFails
<1>5. CASE UNCHANGED vars
  BY <1>5 DEF vars, engine
<1> QED BY <1>1, <1>2, <1>3, <1>4, <1>5 DEF Next, Backfill

\* detect_and_backfill has read the last closed candle.
LEMMA DetectIs ==
  ASSUME Typed, NEW t \in Tasks, Detect(t)
  PROVE  /\ UNCHANGED <<stream, now, since, m1, high, faults, half>>
         /\ \A u \in Tasks : u # t => job'[u] = job[u]
         /\ call' = call \/ (t = "caller" /\ call' = "ok" /\ job'[t].at = "idle")
         /\ LastClosed(m1) \in Nat \cup {-1}
         /\ \/ LastClosed(m1) = -1 /\ job'[t].at = "load" /\ job'[t].to = now
            \/ /\ LastClosed(m1) \in Nat /\ LastClosed(m1) + 1 < now /\ job'[t].at = "fetch"
               /\ job'[t].from = LastClosed(m1) + 1 /\ job'[t].to = now
            \/ LastClosed(m1) \in Nat /\ now <= LastClosed(m1) + 1 /\ job'[t].at = "idle"
<1>1. now \in Nat /\ m1 \in Seq(Candle) /\ job \in [Tasks -> JobState]
  BY Facts DEF Typed, JobsTyped
<1>2. LastClosed(m1) \in Nat \cup {-1}
  BY <1>1, LastClosedInt
<1>3. UNCHANGED <<stream, now, since, m1, high, faults, half>>
  BY DEF Detect
<1>4. CASE LastClosed(m1) = -1
  <2>1. job' = [job EXCEPT ![t] = [NoJob EXCEPT !.at = "load", !.to = now]] /\ call' = call
    BY <1>4 DEF Detect
  <2>2. job'[t].at = "load" /\ job'[t].to = now /\ \A u \in Tasks : u # t => job'[u] = job[u]
    BY <1>1, <2>1 DEF NoJob
  <2> QED BY <1>2, <1>3, <1>4, <2>1, <2>2
<1>5. CASE LastClosed(m1) # -1 /\ Gap
  <2>1. job' = [job EXCEPT ![t] = [NoJob EXCEPT !.at = "fetch", !.from = LastClosed(m1) + 1, !.to = now]]
        /\ call' = call
    BY <1>5 DEF Detect
  <2>2. /\ job'[t].at = "fetch" /\ job'[t].from = LastClosed(m1) + 1 /\ job'[t].to = now
        /\ \A u \in Tasks : u # t => job'[u] = job[u]
    BY <1>1, <2>1 DEF NoJob
  <2>3. LastClosed(m1) \in Nat /\ LastClosed(m1) + 1 < now
    BY <1>2, <1>5 DEF Gap
  <2> QED BY <1>2, <1>3, <2>1, <2>2, <2>3
<1>6. CASE LastClosed(m1) # -1 /\ ~Gap
  <2>1. job' = [job EXCEPT ![t] = NoJob] /\ Returns(t, TRUE)
    BY <1>6 DEF Detect
  <2>2. job'[t].at = "idle" /\ \A u \in Tasks : u # t => job'[u] = job[u]
    BY <1>1, <2>1 DEF NoJob
  <2>3. LastClosed(m1) \in Nat /\ now <= LastClosed(m1) + 1
    BY <1>1, <1>2, <1>6 DEF Gap
  <2>4. call' = call \/ (t = "caller" /\ call' = "ok" /\ job'[t].at = "idle")
    BY <2>1, <2>2 DEF Returns, Reported
  <2> QED BY <1>2, <1>3, <2>2, <2>3, <2>4
<1> QED BY <1>4, <1>5, <1>6

\* The last closed candle is a closed one of the cache.
LEMMA LastClosedCached ==
  ASSUME Typed
  PROVE  \/ LastClosed(m1) = -1
         \/ \E c \in Cached : c.closed /\ c.t = LastClosed(m1)
<1>1. m1 \in Seq(Candle)
  BY Facts
<1>2. CASE LastClosed(m1) = -1
  BY <1>2
<1>3. CASE \E i \in DOMAIN m1 : m1[i].closed /\ LastClosed(m1) = m1[i].t
  BY <1>3 DEF Cached, Rows
<1> QED BY <1>1, <1>2, <1>3, LastClosedIs

\* The exchange has answered.
LEMMA AnswerIs ==
  ASSUME Typed, NEW t \in Tasks
  PROVE  /\ Fetch(t) => /\ job[t].at = "fetch" /\ job'[t].at = "fetched"
                        /\ job'[t].from = job[t].from /\ job'[t].to = job[t].to
                        /\ Len(job'[t].rows) = MinOf(job[t].to, job[t].from + MaxRows) - job[t].from
                        /\ \A i \in DOMAIN job'[t].rows : job'[t].rows[i].t = job[t].from + i - 1
         /\ Load(t) \/ LoadPart(t) =>
              /\ job[t].at = "load" /\ job'[t].at = "loaded" /\ job'[t].to = job[t].to
              /\ job'[t].rows # <<>> /\ Line(job'[t].rows) /\ End(job'[t].rows) = now
         /\ Fetch(t) \/ Load(t) \/ LoadPart(t) =>
              UNCHANGED <<stream, clock, call, m1, wire>> /\ \A u \in Tasks : u # t => job'[u] = job[u]
<1>1. /\ now \in Nat /\ MaxRows \in Nat /\ MaxRows >= 1 /\ now <= MaxMinute /\ job \in [Tasks -> JobState]
      /\ job[t].from \in Nat /\ job[t].to \in Nat /\ job[t].to <= now
      /\ job[t].at = "fetch" => job[t].from < job[t].to
  BY Facts, ClockIs DEF Typed, JobsTyped, Sound
<1>2. ASSUME Fetch(t)
      PROVE  /\ job[t].at = "fetch" /\ job'[t].at = "fetched"
             /\ job'[t].from = job[t].from /\ job'[t].to = job[t].to
             /\ Len(job'[t].rows) = MinOf(job[t].to, job[t].from + MaxRows) - job[t].from
             /\ \A i \in DOMAIN job'[t].rows : job'[t].rows[i].t = job[t].from + i - 1
  <2>1. PICK end \in Nat : end = MinOf(job[t].to, job[t].from + MaxRows)
    BY <1>1 DEF MinOf
  <2>2. PICK rest : rest = RestCandles(job[t].from, end - 1)
    OBVIOUS
  <2>3. job' = [job EXCEPT ![t].at = "fetched", ![t].rows = rest] /\ job[t].at = "fetch"
    BY <1>2, <2>1, <2>2 DEF Fetch
  <2>4. job[t].from <= end /\ end <= job[t].to
    BY <1>1, <2>1, <2>3 DEF MinOf
  <2>5. end - 1 \in Int /\ end - 1 <= MaxMinute /\ job[t].from <= (end - 1) + 1
    BY <1>1, <2>4, KlineAssumption
  <2>6. /\ Len(rest) = (end - 1) - job[t].from + 1
        /\ \A i \in DOMAIN rest : rest[i] = RestCandle(job[t].from + i - 1)
    BY <1>1, <2>2, <2>5, RestTyped
  <2>7. Len(rest) = end - job[t].from /\ \A i \in DOMAIN rest : rest[i].t = job[t].from + i - 1
    BY <1>1, <2>6 DEF RestCandle
  <2>8. job'[t].at = "fetched" /\ job'[t].rows = rest /\ job'[t].from = job[t].from /\ job'[t].to = job[t].to
    BY <1>1, <2>3 DEF JobState
  <2> QED BY <2>1, <2>3, <2>7, <2>8
<1>3. ASSUME Load(t) \/ LoadPart(t)
      PROVE  /\ job[t].at = "load" /\ job'[t].at = "loaded" /\ job'[t].to = job[t].to
             /\ job'[t].rows # <<>> /\ Line(job'[t].rows) /\ End(job'[t].rows) = now
  <2>1. PICK first \in Nat : first = MaxOf(0, now - MaxRows + 1) /\ first <= now
    <3>1. now - MaxRows + 1 \in Int /\ now - MaxRows + 1 <= now
      BY <1>1
    <3>2. MaxOf(0, now - MaxRows + 1) = 0 \/ (MaxOf(0, now - MaxRows + 1) = now - MaxRows + 1 /\ 0 <= now - MaxRows + 1)
      BY <3>1 DEF MaxOf
    <3>3. MaxOf(0, now - MaxRows + 1) \in Nat /\ MaxOf(0, now - MaxRows + 1) <= now
      BY <1>1, <3>1, <3>2
    <3> QED BY <3>3
  <2>2. PICK rest : rest = RestCandles(first, now)
    OBVIOUS
  <2>3. /\ rest \in Seq(Candle) /\ Len(rest) = now - first + 1
        /\ \A i \in DOMAIN rest : rest[i] = RestCandle(first + i - 1)
    <3>1. now \in Int /\ first <= now + 1
      BY <1>1, <2>1
    <3> QED BY <1>1, <2>2, <3>1, RestTyped
  <2>4. job[t].at = "load" /\ job'[t].at = "loaded" /\ job'[t].rows = rest /\ job'[t].to = job[t].to
    <3>1. CASE Load(t)
      <4>1. job' = [job EXCEPT ![t].at = "loaded", ![t].high = RestHigh, ![t].rows = rest] /\ job[t].at = "load"
        BY <2>1, <2>2, <3>1 DEF Load
      <4> QED BY <1>1, <4>1 DEF JobState
    <3>2. CASE LoadPart(t)
      <4>1. job' = [job EXCEPT ![t].at = "loaded", ![t].rows = rest] /\ job[t].at = "load"
        BY <2>1, <2>2, <3>2 DEF LoadPart
      <4> QED BY <1>1, <4>1 DEF JobState
    <3> QED BY <1>3, <3>1, <3>2
  <2>5. rest # <<>> /\ Line(rest) /\ End(rest) = now
    <3>1. Len(rest) \in Nat /\ Len(rest) >= 1 /\ DOMAIN rest = 1..Len(rest) /\ rest # <<>>
      BY <1>1, <2>1, <2>3
    <3>2. \A i \in DOMAIN rest : rest[i].t = first + i - 1
      BY <2>3 DEF RestCandle
    <3>3. rest[1].t = first /\ rest[Len(rest)].t = now
      BY <1>1, <2>1, <2>3, <3>1, <3>2
    <3> QED BY <2>1, <3>1, <3>2, <3>3 DEF Line, End
  <2> QED BY <2>4, <2>5
<1>4. ASSUME Fetch(t) \/ Load(t) \/ LoadPart(t)
      PROVE  UNCHANGED <<stream, clock, call, m1, wire>> /\ \A u \in Tasks : u # t => job'[u] = job[u]
  BY <1>1, <1>4 DEF Fetch, Load, LoadPart
<1> QED BY <1>2, <1>3, <1>4

\* A task is over.
LEMMA OverIs ==
  ASSUME Typed, NEW t \in Tasks, Replace(t) \/ RequestFails(t)
  PROVE  /\ job[t].at \in {"fetch", "load", "replace"} /\ job'[t].at = "idle"
         /\ \A u \in Tasks : u # t => job'[u] = job[u]
         /\ UNCHANGED <<stream, clock, m1, wire>>
         /\ call' = call \/ (t = "caller" /\ call' \in {"ok", "failed"})
<1>1. job \in [Tasks -> JobState]
  BY DEF Typed, JobsTyped
<1>2. job' = [job EXCEPT ![t] = NoJob] /\ UNCHANGED <<stream, clock, m1, wire>>
      /\ job[t].at \in {"fetch", "load", "replace"}
  BY DEF Replace, RequestFails
<1>3. call' = call \/ (t = "caller" /\ call' \in {"ok", "failed"})
  BY DEF Replace, RequestFails, Returns, Reported
<1> QED BY <1>1, <1>2, <1>3 DEF NoJob

\* Which steps move a task.
LEMMA TaskMoves ==
  ASSUME Typed, [Next]_vars, NEW t \in Tasks
  PROVE  \/ job'[t] = job[t]
         \/ (Detect(t) /\ job[t].at = "idle") \/ Backfill(t) \/ LoadPart(t) \/ RequestFails(t)
<1>1. CASE Tick \/ Update \/ Lag \/ StartEngine \/ Subscriber \/ CallAgain \/ OnCandle
  BY <1>1 DEF Tick, Update, Lag, StartEngine, Subscriber, Enter, SubscribeNow, CallAgain, OnCandle
<1>2. CASE Manager \/ Disconnect \/ Refuse
  BY <1>2 DEF Manager, Connect, Command, RetryConnect, Disconnect, Refuse, engine
<1>3. ASSUME NEW u \in Tasks, Detect(u), job[u].at = "idle"
      PROVE  job'[t] = job[t] \/ (Detect(t) /\ job[t].at = "idle")
  BY <1>3, DetectIs
<1>4. CASE CallerDetects \/ TimerDetects
  BY <1>3, <1>4 DEF CallerDetects, TimerDetects, Tasks
<1>5. CASE LoopDetects
  <2>1. (Detect("loop") /\ job["loop"].at = "idle") \/ UNCHANGED job
    BY <1>5 DEF LoopDetects
  <2> QED BY <1>3, <2>1 DEF Tasks
<1>6. ASSUME NEW u \in Tasks, Backfill(u) \/ LoadPart(u) \/ RequestFails(u)
      PROVE job'[t] = job[t] \/ Backfill(t) \/ LoadPart(t) \/ RequestFails(t)
  BY <1>6, AnswerIs, InsertGrows, OverIs, LoadReplaces DEF Backfill
<1>7. CASE UNCHANGED vars
  BY <1>7 DEF vars, engine
<1> QED BY <1>1, <1>2, <1>4, <1>5, <1>6, <1>7 DEF Next

\* The candles stay in time.
LEMMA InTimeKept == ASSUME Basic, [Next]_vars PROVE InTime'
<1>1. Typed /\ InTime /\ Works /\ now \in Nat
  BY Facts DEF Basic
<1>2. now' = now \/ now' = now + 1
  BY <1>1, ClockMoves
<1>3. now' \in Nat /\ now <= now' /\ \A c \in OnWire : c.t \in Nat
  BY <1>1, <1>2, Facts
<1>4. ASSUME NEW c \in OnWire', c.v # 0
      PROVE  now' - 1 <= c.t /\ c.t <= now' /\ (c.closed => c.t < now')
  <2>1. CASE c \in OnWire
    <3>1. now - 1 <= c.t /\ c.t <= now /\ (c.closed => c.t < now) /\ c.t \in Nat
      BY <1>1, <1>3, <1>4, <2>1 DEF InTime
    <3>2. now' = now \/ (now' = now + 1 /\ c.t = now)
      BY <1>1, <2>1, ClockMoves
    <3> QED BY <1>1, <3>1, <3>2
  <2>2. CASE c = [t |-> now, v |-> 2, closed |-> TRUE] /\ now' = now + 1
    BY <1>1, <2>2
  <2>3. CASE c = [t |-> now, v |-> 1, closed |-> FALSE] /\ now' = now
    BY <1>1, <2>3
  <2> QED BY <1>1, <1>4, <2>1, <2>2, <2>3, WireMoves
<1>5. ASSUME NEW c \in Cached' PROVE c.t <= now'
  <2>1. CASE UNCHANGED m1
    <3>1. c \in Cached /\ c.t \in Nat
      BY <1>1, <2>1, RowsAre, Facts DEF Cached
    <3> QED BY <1>1, <1>3, <3>1 DEF InTime
  <2>2. CASE OnCandle
    <3>1. PICK h : h = Head(wire)
      OBVIOUS
    <3>2. h \in OnWire /\ h.v # 0 /\ Grows({h})
      BY <1>1, <2>2, <3>1, CandleGrows
    <3>3. PICK d \in Cached \cup {h} : c.t = d.t
      BY <3>2 DEF Grows
    <3>4. d.t \in Nat /\ d.t <= now
      BY <1>1, <1>3, <3>2, <3>3, RowsAre, Facts DEF InTime, Cached
    <3> QED BY <1>1, <1>3, <3>3, <3>4
  <2>3. ASSUME NEW t \in Tasks, Insert(t) PROVE c.t <= now'
    <3>1. Grows(News(t))
      BY <1>1, <2>3, InsertGrows
    <3>2. PICK d \in Cached \cup News(t) : c.t = d.t
      BY <3>1 DEF Grows
    <3>3. CASE d \in Cached
      <4>1. d.t \in Nat /\ d.t <= now
        BY <1>1, <3>3, RowsAre, Facts DEF InTime, Cached
      <4> QED BY <1>1, <1>3, <3>2, <4>1
    <3>4. CASE d \in News(t)
      <4>1. d.t \in Nat /\ d.t < job[t].to /\ job[t].to <= now /\ job[t].to \in Nat
        BY <1>1, <3>4, NewsAre, Facts
      <4> QED BY <1>1, <1>3, <3>2, <4>1
    <3> QED BY <3>2, <3>3, <3>4
  <2>4. ASSUME NEW t \in Tasks, Loaded(t) PROVE c.t <= now'
    <3>1. PICK rows \in Seq(Candle) : rows = job[t].rows
      BY <1>1, Facts
    <3>2. m1' = rows /\ job[t].at = "loaded"
      BY <1>1, <2>4, <3>1, LoadReplaces
    <3>3. rows # <<>> /\ Line(rows) /\ End(rows) <= now
      BY <1>1, <3>1, <3>2 DEF Works, Work
    <3>4. c \in Rows(rows)
      BY <3>2 DEF Cached
    <3>5. c.t \in Nat /\ c.t <= End(rows) /\ End(rows) \in Nat
      BY <3>1, <3>3, <3>4, LineIs
    <3> QED BY <1>1, <1>3, <3>3, <3>5
  <2> QED BY <1>1, <2>1, <2>2, <2>3, <2>4, CacheMoves
<1> QED BY <1>4, <1>5 DEF InTime

\* The cache is not emptied.
LEMMA StaysFilled ==
  ASSUME Typed, Works, [Next]_vars, m1 # <<>>
  PROVE  m1' # <<>>
<1>1. CASE UNCHANGED m1
  BY <1>1
<1>2. CASE OnCandle
  BY <1>2, CandleGrows
<1>3. ASSUME NEW t \in Tasks, Insert(t) PROVE m1' # <<>>
  BY <1>3, InsertGrows DEF Grows
<1>4. ASSUME NEW t \in Tasks, Loaded(t) PROVE m1' # <<>>
  BY <1>4, LoadReplaces DEF Works, Work
<1> QED BY <1>1, <1>2, <1>3, <1>4, CacheMoves

\* The tasks stay in time.
LEMMA WorksKept == ASSUME Basic, [Next]_vars PROVE Works'
<1>1. Typed /\ Works /\ now \in Nat /\ MaxRows \in Nat /\ m1 \in Seq(Candle)
  BY Facts DEF Basic
<1>2. now' = now \/ now' = now + 1
  BY <1>1, ClockMoves
<1>3. m1 # <<>> => m1' # <<>>
  BY <1>1, StaysFilled
<1> SUFFICES ASSUME NEW t \in Tasks PROVE Work(t)'
  BY DEF Works
<1>4. Work(t) /\ job[t].to \in Nat /\ job[t].to <= now /\ job[t].from \in Nat /\ job[t].rows \in Seq(Candle)
  BY <1>1, Facts DEF Works
<1>5. CASE job'[t] = job[t]
  <2>1. job[t].at # "idle" => now' - 1 <= job[t].to
    <3>1. CASE now' = now
      BY <1>4, <3>1 DEF Work
    <3>2. CASE now' # now
      <4>1. Tick /\ now' = now + 1
        BY <1>1, <3>2, ClockMoves
      <4>2. job[t].at = "idle" \/ job[t].to = now
        BY <4>1 DEF Tick, Prompt
      <4> QED BY <1>1, <4>1, <4>2
    <3> QED BY <3>1, <3>2
  <2>2. job[t].at = "loaded" => End(job[t].rows) <= now'
    <3> SUFFICES ASSUME job[t].at = "loaded" PROVE End(job[t].rows) <= now'
      OBVIOUS
    <3>1. job[t].rows # <<>> /\ Line(job[t].rows) /\ End(job[t].rows) <= now
      BY <1>4 DEF Work
    <3>2. End(job[t].rows) \in Nat
      BY <1>4, <3>1, LineIs
    <3> QED BY <1>1, <1>2, <3>1, <3>2
  <2> QED BY <1>3, <1>4, <1>5, <2>1, <2>2 DEF Work, Filling
<1>6. CASE Detect(t)
  <2>1. UNCHANGED <<now, m1>> /\ LastClosed(m1) \in Nat \cup {-1}
        /\ \/ LastClosed(m1) = -1 /\ job'[t].at = "load" /\ job'[t].to = now
           \/ /\ LastClosed(m1) \in Nat /\ LastClosed(m1) + 1 < now /\ job'[t].at = "fetch"
              /\ job'[t].from = LastClosed(m1) + 1 /\ job'[t].to = now
           \/ job'[t].at = "idle"
    BY <1>1, <1>6, DetectIs
  <2>2. LastClosed(m1) # -1 => m1 # <<>>
    BY <1>1, LastClosedCached, EmptyRows DEF Cached
  <2>3. CASE job'[t].at = "load" /\ job'[t].to = now
    BY <1>1, <2>1, <2>3 DEF Work, Filling
  <2>4. CASE /\ LastClosed(m1) \in Nat /\ LastClosed(m1) + 1 < now /\ job'[t].at = "fetch"
             /\ job'[t].from = LastClosed(m1) + 1 /\ job'[t].to = now
    <3>1. m1' # <<>>
      BY <2>1, <2>2, <2>4
    <3> QED BY <1>1, <2>1, <2>4, <3>1 DEF Work, Filling
  <2>5. CASE job'[t].at = "idle"
    BY <2>5 DEF Work, Filling
  <2> QED BY <2>1, <2>3, <2>4, <2>5
<1>7. CASE Fetch(t)
  <2>1. /\ job[t].at = "fetch" /\ job'[t].at = "fetched"
        /\ job'[t].from = job[t].from /\ job'[t].to = job[t].to
        /\ Len(job'[t].rows) = MinOf(job[t].to, job[t].from + MaxRows) - job[t].from
        /\ \A i \in DOMAIN job'[t].rows : job'[t].rows[i].t = job[t].from + i - 1
        /\ UNCHANGED <<now, m1>>
    BY <1>1, <1>7, AnswerIs DEF clock
  <2> QED BY <1>4, <2>1 DEF Work, Filling
<1>8. CASE Load(t) \/ LoadPart(t)
  <2>1. /\ job[t].at = "load" /\ job'[t].at = "loaded" /\ job'[t].to = job[t].to
        /\ job'[t].rows # <<>> /\ Line(job'[t].rows) /\ End(job'[t].rows) = now
        /\ UNCHANGED <<now, m1>>
    BY <1>1, <1>8, AnswerIs DEF clock
  <2> QED BY <1>1, <1>4, <2>1 DEF Work, Filling
<1>9. CASE Insert(t)
  <2>1. job[t].at = "fetched" /\ job'[t].at = "replace" /\ job'[t].to = job[t].to /\ UNCHANGED now
    BY <1>1, <1>9, InsertGrows DEF clock
  <2> QED BY <1>4, <2>1 DEF Work, Filling
<1>10. CASE Replace(t) \/ RequestFails(t) \/ Loaded(t)
  <2>1. job'[t].at = "idle"
    BY <1>1, <1>10, OverIs, LoadReplaces
  <2> QED BY <2>1 DEF Work, Filling
<1> QED BY <1>1, <1>5, <1>6, <1>7, <1>8, <1>9, <1>10, TaskMoves DEF Backfill

\* Nothing comes before the entry, and the call waits for its backfill.
LEMMA BegunKept == ASSUME Basic, [Next]_vars PROVE Begun'
<1>1. Typed /\ Begun /\ Opens /\ InTime /\ Works
  BY DEF Basic
<1>2. job \in [Tasks -> JobState] /\ wire \in Seq(Candle)
  BY <1>1 DEF Typed, JobsTyped, CacheTyped
<1>3. ASSUME ~Entered, \A c \in OnWire' : c \in OnWire \/ c.v = 0 PROVE \A c \in OnWire' : c.v = 0
  BY <1>1, <1>3 DEF Begun
<1>4. ~Entered => \A c \in OnWire' : c.v = 0
  <2>1. ~Entered => ~streaming
    BY <1>1 DEF Begun, Opens
  <2> QED BY <1>1, <1>3, <2>1, WireMoves
<1>5. CASE Tick
  <2>1. UNCHANGED <<stream, call, m1, job>> /\ check' = Entered /\ call # "no"
    BY <1>5 DEF Tick
  <2> QED BY <1>1, <1>4, <2>1 DEF Begun, Entered, stream
<1>6. CASE Update \/ Lag
  <2>1. UNCHANGED <<stream, clock, call, m1, job>>
    BY <1>6 DEF Update, Lag
  <2> QED BY <1>1, <1>4, <2>1 DEF Begun, Entered, stream, connection, clock
<1>7. CASE Connect \/ Command \/ RetryConnect \/ Disconnect \/ Refuse
  <2>1. UNCHANGED <<now, check, call, m1, job, wanted>>
    BY <1>7 DEF Connect, Command, RetryConnect, Disconnect, Refuse, Connected, SendCommand, Retry,
                Disconnected, Refused, clock, engine
  <2>2. ws # "off"
    BY <1>7 DEF Connect, Command, RetryConnect, Disconnect, Refuse, Connected, SendCommand, Retry,
                Disconnected, Refused, Establish, Again, Lose, FailToConnect
  <2>3. call # "no"
    BY <1>1, <2>2 DEF Begun
  <2> QED BY <1>1, <1>4, <2>1, <2>3 DEF Begun, Entered
<1>8. CASE StartEngine
  <2>1. UNCHANGED <<now, check, m1, job, wanted>> /\ call = "no" /\ call' = "started"
    BY <1>8 DEF StartEngine, StartStream
  <2> QED BY <1>1, <1>4, <2>1 DEF Begun, Entered
<1>9. CASE Enter
  <2>1. UNCHANGED <<clock, m1, job>> /\ call = "started" /\ call' = "entered" /\ wanted' = TRUE
    BY <1>9 DEF Enter, Want
  <2> QED BY <1>1, <2>1 DEF Begun, Entered
<1>10. CASE SubscribeNow \/ CallAgain
  <2>1. /\ UNCHANGED <<clock, m1, job, wanted>> /\ call \in {"entered", "failed"}
        /\ call' \in {"filling", "ok"}
    BY <1>10 DEF SubscribeNow, CallAgain, Ask, stream
  <2> QED BY <1>1, <2>1 DEF Begun, Entered
<1>11. ASSUME NEW t \in Tasks, Detect(t), check' => check, Entered, t = "caller" => call = "filling" PROVE Begun'
  <2>1. UNCHANGED <<stream, now, m1>> /\ (\A u \in Tasks : u # t => job'[u] = job[u])
        /\ (call' = call \/ (t = "caller" /\ call' = "ok" /\ job'[t].at = "idle"))
    BY <1>1, <1>11, DetectIs
  <2>2. Entered'
    BY <1>11, <2>1 DEF Entered
  <2>3. job'["caller"].at # "idle" => call' = "filling"
    <3>1. CASE t = "caller"
      BY <1>11, <2>1, <3>1
    <3>2. CASE t # "caller"
      BY <1>1, <2>1, <3>2 DEF Begun, Tasks
    <3> QED BY <3>1, <3>2
  <2> QED BY <1>1, <1>11, <2>1, <2>2, <2>3 DEF Begun, Entered, stream
<1>12. CASE CallerDetects \/ TimerDetects
  <2>1. CASE CallerDetects
    BY <1>11, <2>1 DEF CallerDetects, clock, Entered, Tasks
  <2>2. CASE TimerDetects
    BY <1>1, <1>11, <2>2 DEF TimerDetects, Begun, Tasks
  <2> QED BY <1>12, <2>1, <2>2
<1>13. CASE LoopDetects
  <2>1. CASE Entered
    BY <1>11, <1>13, <2>1 DEF LoopDetects, clock, Tasks
  <2>2. CASE ~Entered
    BY <1>1, <1>4, <1>13, <2>2 DEF LoopDetects, Begun, Entered, stream, connection
  <2> QED BY <2>1, <2>2
<1>14. CASE OnCandle
  <2>1. UNCHANGED <<stream, clock, call, job>> /\ Head(wire) \in OnWire /\ Head(wire).v # 0
    BY <1>1, <1>14, CandleGrows
  <2>2. Entered
    BY <1>1, <2>1 DEF Begun
  <2> QED BY <1>1, <2>1, <2>2 DEF Begun, Entered, stream, connection, clock
<1>15. ASSUME NEW t \in Tasks, Backfill(t) \/ LoadPart(t) \/ RequestFails(t) PROVE Begun'
  <2>1. /\ job[t].at # "idle" /\ UNCHANGED <<stream, clock>>
        /\ \A u \in Tasks : u # t => job'[u] = job[u]
        /\ call' = call \/ (t = "caller" /\ call' \in {"ok", "failed"} /\ job'[t].at = "idle")
    BY <1>1, <1>15, AnswerIs, InsertGrows, OverIs, LoadReplaces DEF Backfill
  <2>2. Entered
    BY <1>1, <2>1 DEF Begun
  <2>3. Entered'
    BY <2>1, <2>2 DEF Entered
  <2>4. job'["caller"].at # "idle" => call' = "filling"
    <3>1. CASE t = "caller"
      BY <1>1, <2>1, <3>1 DEF Begun
    <3>2. CASE t # "caller"
      BY <1>1, <2>1, <3>2 DEF Begun, Tasks
    <3> QED BY <3>1, <3>2
  <2> QED BY <1>1, <2>1, <2>2, <2>3, <2>4 DEF Begun, Entered, stream
<1>16. CASE UNCHANGED vars
  BY <1>1, <1>4, <1>16 DEF vars, engine, Begun, Entered, stream, connection, clock
<1> QED BY <1>5, <1>6, <1>7, <1>8, <1>9, <1>10, <1>12, <1>13, <1>14, <1>15, <1>16
        DEF Next, Manager, Subscriber

\* The symbol is streamed on every connection but one of the beginning.
LEMMA OpensKept == ASSUME Basic, [Next]_vars PROVE Opens'
<1>1. Typed /\ Begun /\ Opens
  BY DEF Basic
<1>2. now \in Nat /\ Start \in Nat /\ Start <= now /\ asked \in {0, 1}
  BY <1>1, Facts DEF Typed, ConnectionTyped, StreamTypeOK
<1>3. CASE Tick
  <2>1. /\ UNCHANGED <<ws, asked, wanted, streaming, call>> /\ call # "no"
        /\ Calling => now = Start
        /\ ws = "up" => asked = 0
    BY <1>3 DEF Tick, Prompt, stream, connection
  <2>2. now' = now \/ now' = now + 1
    BY <1>1, <1>3, ClockMoves
  <2>3. ASSUME call \in {"started", "entered"} PROVE now' <= Start + 1
    <3>1. now = Start
      BY <2>1, <2>3 DEF Calling
    <3> QED BY <1>2, <2>2, <3>1
  <2>4. ASSUME ws = "up", ~streaming PROVE now' <= Start + 1
    <3>1. asked = 0 /\ call \in {"started", "entered"}
      BY <1>1, <1>2, <2>1, <2>4 DEF Opens
    <3> QED BY <2>3, <3>1
  <2> QED BY <1>1, <2>1, <2>3, <2>4 DEF Opens
<1>4. CASE Update \/ Lag
  <2>1. UNCHANGED <<ws, asked, wanted, streaming, call, now>>
    BY <1>4 DEF Update, Lag, stream, connection, clock
  <2> QED BY <1>1, <2>1 DEF Opens
<1>5. CASE Connect
  <2>1. ws' = "up" /\ streaming' = wanted /\ ws = "connecting" /\ UNCHANGED <<asked, wanted, call, now>>
    BY <1>5 DEF Connect, Connected, Establish, clock
  <2>2. ~wanted => call = "started"
    BY <1>1, <2>1 DEF Begun, Entered
  <2> QED BY <1>1, <2>1, <2>2 DEF Opens
<1>6. CASE Command
  <2>1. streaming' /\ ws = "up" /\ UNCHANGED <<ws, wanted, call, now>> /\ asked > 0
    BY <1>6 DEF Command, SendCommand, connection, clock, engine
  <2>2. wanted
    <3>1. asked = 1
      BY <1>2, <2>1
    <3>2. call \notin {"no", "started", "entered"}
      BY <1>1, <3>1 DEF Typed, ConnectionTyped
    <3> QED BY <1>1, <3>2 DEF Begun, Entered
  <2> QED BY <1>1, <2>1, <2>2 DEF Opens
<1>7. CASE RetryConnect \/ Refuse
  <2>1. UNCHANGED <<asked, wanted, streaming, call, now>> /\ ws' # "up" /\ ws' # "off"
    BY <1>7 DEF RetryConnect, Refuse, Retry, Refused, Again, FailToConnect, Backoff, clock, engine
  <2> QED BY <1>1, <2>1 DEF Opens
<1>8. CASE Disconnect
  <2>1. UNCHANGED <<asked, wanted, call, now>> /\ ws' # "up" /\ ws' # "off" /\ ~streaming'
    BY <1>8 DEF Disconnect, Disconnected, Lose, Backoff, clock, engine
  <2> QED BY <1>1, <2>1 DEF Opens
<1>9. CASE StartEngine
  <2>1. UNCHANGED <<asked, wanted, streaming, now>> /\ call' = "started" /\ now = Start /\ ws' # "off"
    BY <1>1, <1>9 DEF StartEngine, StartStream, StartConnection, Begun
  <2> QED BY <1>1, <1>2, <2>1 DEF Opens
<1>10. CASE Enter
  <2>1. UNCHANGED <<ws, asked, streaming, now>> /\ call = "started" /\ call' = "entered" /\ wanted'
    BY <1>10 DEF Enter, Want, connection, clock
  <2> QED BY <1>1, <2>1 DEF Opens
<1>11. CASE SubscribeNow
  <2>1. UNCHANGED <<ws, wanted, streaming, now>> /\ call = "entered" /\ call' = "filling" /\ asked' > 0
    BY <1>2, <1>11 DEF SubscribeNow, Ask, connection, clock
  <2> QED BY <1>1, <2>1 DEF Opens
<1>12. CASE CallAgain
  <2>1. UNCHANGED <<ws, asked, wanted, streaming, now>> /\ call = "failed" /\ call' = "ok"
    BY <1>12 DEF CallAgain, stream, connection, clock
  <2> QED BY <1>1, <2>1 DEF Opens
<1>13. ASSUME UNCHANGED <<stream, now>>, call' = call \/ (call = "filling" /\ call' \in {"ok", "failed"}) PROVE Opens'
  BY <1>1, <1>13 DEF Opens, stream, connection
<1>14. CASE CallerDetects \/ TimerDetects \/ LoopDetects
  <2>1. \A t \in Tasks : Detect(t) => UNCHANGED <<stream, now>> /\ (call' = call \/ (t = "caller" /\ call' = "ok"))
    BY <1>1, DetectIs
  <2> QED BY <1>13, <1>14, <2>1 DEF CallerDetects, TimerDetects, LoopDetects, Tasks
<1>15. CASE OnCandle
  <2>1. UNCHANGED <<stream, now, call>>
    BY <1>15 DEF OnCandle, clock
  <2> QED BY <1>13, <2>1
<1>16. ASSUME NEW t \in Tasks, Backfill(t) \/ LoadPart(t) \/ RequestFails(t) PROVE Opens'
  <2>1. /\ job[t].at # "idle" /\ UNCHANGED <<stream, clock>>
        /\ call' = call \/ (t = "caller" /\ call' \in {"ok", "failed"})
    BY <1>1, <1>16, AnswerIs, InsertGrows, OverIs, LoadReplaces DEF Backfill
  <2>2. t = "caller" => call = "filling"
    BY <1>1, <2>1 DEF Begun
  <2> QED BY <1>13, <2>1, <2>2 DEF clock
<1>17. CASE UNCHANGED vars
  BY <1>13, <1>17 DEF vars, clock, engine
<1> QED BY <1>3, <1>4, <1>5, <1>6, <1>7, <1>8, <1>9, <1>10, <1>11, <1>12, <1>14, <1>15, <1>16, <1>17
        DEF Next, Manager, Subscriber

LEMMA StepBasic == Basic /\ [Next]_vars => Basic'
BY StepTyped, InTimeKept, WorksKept, BegunKept, OpensKept DEF Basic

LEMMA InitBasic == Init => Basic
<1> SUFFICES ASSUME Init PROVE Basic
  OBVIOUS
<1>1. Typed
  BY InitTyped
<1>2. /\ ws = "off" /\ wanted = FALSE /\ streaming = FALSE
      /\ now = Start /\ call = "no" /\ m1 = <<>> /\ wire = <<>> /\ check = FALSE
      /\ job = [t \in Tasks |-> NoJob]
  BY DEF Init, StreamInit, ConnectionInit
<1>3. Cached = {} /\ OnWire = {}
  BY <1>2 DEF Cached, OnWire, Rows
<1>4. \A t \in Tasks : job[t].at = "idle"
  BY <1>2 DEF NoJob
<1>5. InTime /\ Works
  BY <1>3, <1>4 DEF InTime, Works, Work, Filling
<1>6. Begun
  BY <1>2, <1>3, <1>4 DEF Begun, Entered, Tasks
<1>7. Opens
  BY <1>2 DEF Opens
<1> QED BY <1>1, <1>5, <1>6, <1>7 DEF Basic

-----------------------------------------------------------------------------
(* The minutes that have been seen to *)

\* The steps that take an update, insert a backfill or replace the cache see to minutes.
LEMMA SeenMoves ==
  ASSUME [Next]_vars
  PROVE  \/ UNCHANGED <<m1, seen>>
         \/ OnCandle /\ seen' = IF m1 = <<>> THEN 0..Head(wire).t ELSE seen \cup {Head(wire).t}
         \/ \E t \in Tasks : (Insert(t) /\ seen' = seen \cup (job[t].from..(job[t].to - 1))) \/ Loaded(t)
<1>1. CASE Tick \/ Update \/ Lag \/ StartEngine \/ Subscriber \/ CallAgain
  BY <1>1 DEF Tick, Update, Lag, StartEngine, Subscriber, Enter, SubscribeNow, CallAgain
<1>2. CASE Manager \/ Disconnect \/ Refuse
  BY <1>2 DEF Manager, Connect, Command, RetryConnect, Disconnect, Refuse, engine
<1>3. CASE CallerDetects \/ LoopDetects \/ TimerDetects
  BY <1>3 DEF CallerDetects, LoopDetects, TimerDetects, Detect
<1>4. ASSUME NEW t \in Tasks, Fetch(t) \/ Load(t) \/ Replace(t) \/ LoadPart(t) \/ RequestFails(t)
      PROVE UNCHANGED <<m1, seen>>
  BY <1>4 DEF Fetch, Load, Replace, LoadPart, RequestFails
<1>5. CASE OnCandle
  BY <1>5 DEF OnCandle
<1>6. ASSUME NEW t \in Tasks, Insert(t) PROVE seen' = seen \cup (job[t].from..(job[t].to - 1))
  BY <1>6 DEF Insert
<1>7. CASE UNCHANGED vars
  BY <1>7 DEF vars, engine
<1> QED BY <1>1, <1>2, <1>3, <1>4, <1>5, <1>6, <1>7 DEF Next, Backfill

\* A first load: the rows are a line, and it sees to what is before its end.
LEMMA LoadedIs ==
  ASSUME Typed, Works, NEW t \in Tasks, Loaded(t)
  PROVE  \E rows \in Seq(Candle) :
           /\ rows # <<>> /\ Line(rows) /\ m1' = rows /\ now' = now
           /\ End(rows) \in Nat /\ now - 1 <= End(rows) /\ End(rows) \in Minutes
           /\ seen' = 0..End(rows)
<1>1. PICK rows \in Seq(Candle) : rows = job[t].rows
  BY Facts
<1>2. m1' = rows /\ job[t].at = "loaded" /\ now' = now
  BY <1>1, LoadReplaces DEF clock
<1>3. rows # <<>> /\ Line(rows) /\ job[t].to <= End(rows) /\ now - 1 <= job[t].to
  BY <1>1, <1>2 DEF Works, Work
<1>4. End(rows) \in Nat /\ job[t].to \in Nat /\ now \in Nat
  BY <1>3, LineIs, Facts
<1>5. Len(rows) \in DOMAIN rows
  BY <1>3
<1>6. rows[Len(rows)] \in Candle
  BY <1>5
<1>7. End(rows) \in Minutes
  BY <1>6 DEF End, Candle
<1>8. seen' = 0..End(rows)
  BY <1>1 DEF Loaded, Last, End
<1> QED BY <1>2, <1>3, <1>4, <1>7, <1>8

LEMMA SeenTyped == ASSUME Basic, seen \subseteq Minutes, [Next]_vars PROVE seen' \subseteq Minutes
<1>1. Typed /\ Works /\ now \in Nat /\ now <= MaxMinute /\ MaxMinute \in Nat /\ wire \in Seq(Candle)
  BY ClockIs, KlineAssumption, Facts DEF Basic, Typed
<1>2. \A n \in Minutes : 0..n \subseteq Minutes
  BY <1>1 DEF Minutes
<1>3. CASE UNCHANGED <<m1, seen>>
  BY <1>3
<1>4. CASE OnCandle /\ seen' = IF m1 = <<>> THEN 0..Head(wire).t ELSE seen \cup {Head(wire).t}
  <2>1. PICK c : c = Head(wire)
    OBVIOUS
  <2>2. c \in Candle
    BY <1>1, <1>4, <2>1, CandleGrows
  <2>3. c.t \in Minutes
    BY <2>2 DEF Candle
  <2>4. CASE m1 = <<>>
    BY <1>2, <1>4, <2>1, <2>3, <2>4
  <2>5. CASE m1 # <<>>
    BY <1>4, <2>1, <2>3, <2>5
  <2> QED BY <2>4, <2>5
<1>5. ASSUME NEW t \in Tasks, seen' = seen \cup (job[t].from..(job[t].to - 1)) PROVE seen' \subseteq Minutes
  <2>1. job[t].from \in Nat /\ job[t].to \in Nat /\ job[t].to <= now
    BY <1>1, Facts
  <2>2. job[t].from..(job[t].to - 1) \subseteq Minutes
    BY <1>1, <2>1 DEF Minutes
  <2> QED BY <1>5, <2>2
<1>6. ASSUME NEW t \in Tasks, Loaded(t) PROVE seen' \subseteq Minutes
  BY <1>1, <1>2, <1>6, LoadedIs
<1> QED BY <1>3, <1>4, <1>5, <1>6, SeenMoves

\* Types, and the limit of the cache (TimeframeBuffer::push_or_update evicts the oldest
\* candle): for every limit, every group and any number of faults.  In every state, also
\* where the cache is out of order after a failure.
THEOREM TypeCorrect == Spec => []TypeOK
<1>1. Init => Basic /\ seen \subseteq Minutes
  BY InitBasic DEF Init
<1>2. Basic /\ seen \subseteq Minutes /\ [Next]_vars => (Basic /\ seen \subseteq Minutes)'
  BY StepBasic, SeenTyped
<1>3. Basic /\ seen \subseteq Minutes => TypeOK
  BY DEF Basic, Typed, ConnectionTyped, ClockTyped, CacheTyped, JobsTyped, Buffers, TypeOK
<1> QED BY <1>1, <1>2, <1>3, PTL DEF Spec

\* What is in the cache has been seen to, and below the limit what has been seen to is there.
SeenTo ==
  /\ Times(m1) \subseteq seen
  /\ Below /\ m1 # <<>> => \A n \in seen : First(m1) <= n => n \in Times(m1)

LEMMA InitSeenTo == Init => SeenTo
BY DEF Init, SeenTo, Times

\* A backfill that goes into a buffer below its limit leaves no minute of the gap out: so
\* long a gap that the exchange would not answer it at once has no room in the buffer.
LEMMA InsertFills ==
  ASSUME Basic, Basic', NEW t \in Tasks, Insert(t), Below', NEW n \in Nat, job[t].from <= n, n < job[t].to
  PROVE  n \in Times(m1)'
<1>1. /\ Typed /\ Works /\ MaxRows \in Nat /\ MaxRows >= 1 /\ job[t].rows \in Seq(Candle)
      /\ job[t].from \in Nat /\ job[t].to \in Nat
  BY Facts DEF Basic
<1>2. m1' \in Seq(Candle)
  BY DEF Basic, Typed, CacheTyped, Buffers
<1>3. job[t].at = "fetched" /\ Grows(News(t))
  BY <1>1, InsertGrows
<1>4. /\ Len(job[t].rows) = MinOf(job[t].to, job[t].from + MaxRows) - job[t].from
      /\ \A i \in DOMAIN job[t].rows : job[t].rows[i].t = job[t].from + i - 1
  BY <1>1, <1>3 DEF Works, Work
<1>5. Times(m1)' = Times(m1) \cup {r.t : r \in News(t)}
  BY <1>3 DEF Grows
<1>6. PICK N \in Nat : N = Len(job[t].rows) /\ DOMAIN job[t].rows = 1..N
  BY <1>1
<1>7. ASSUME NEW k \in Nat, job[t].from <= k, k < job[t].from + N, k < job[t].to PROVE k \in Times(m1)'
  <2>1. PICK i \in 1..N : i = k - job[t].from + 1
    <3>1. k - job[t].from + 1 \in 1..N
      BY <1>1, <1>6, <1>7
    <3> QED BY <3>1
  <2>2. job[t].rows[i].t = k
    <3>1. job[t].rows[i].t = job[t].from + i - 1
      BY <1>4, <1>6
    <3>2. PICK f \in Nat : f = job[t].from
      BY <1>1
    <3>3. f + i - 1 = k
      BY <2>1, <3>2
    <3> QED BY <3>1, <3>2, <3>3
  <2>3. k \in job[t].from..(job[t].to - 1)
    BY <1>1, <1>7
  <2>4. job[t].rows[i] \in News(t)
    BY <1>6, <2>2, <2>3 DEF News, Gain
  <2> QED BY <1>5, <2>2, <2>4
<1>8. CASE job[t].to <= job[t].from + MaxRows
  <2>1. N = job[t].to - job[t].from
    BY <1>1, <1>4, <1>6, <1>8 DEF MinOf
  <2> QED BY <1>1, <1>7, <2>1
<1>9. CASE ~(job[t].to <= job[t].from + MaxRows)
  <2>1. N = MaxRows
    BY <1>1, <1>4, <1>6, <1>9 DEF MinOf
  <2>2. job[t].from..(job[t].from + MaxRows - 1) \subseteq Times(m1)'
    <3> SUFFICES ASSUME NEW k \in job[t].from..(job[t].from + MaxRows - 1) PROVE k \in Times(m1)'
      OBVIOUS
    <3>1. k \in Nat /\ job[t].from <= k /\ k < job[t].from + N /\ k < job[t].to
      BY <1>1, <1>9, <2>1
    <3> QED BY <1>7, <3>1
  <2>3. PICK b \in Seq(Candle) : b = m1'
    BY <1>2
  <2>4. Len(b) < MaxRows /\ job[t].from..(job[t].from + MaxRows - 1) \subseteq Times(b)
    BY <2>2, <2>3 DEF Below, Times
  <2>5. FALSE
    BY <1>1, <2>4, TooMany
  <2> QED BY <2>5
<1> QED BY <1>8, <1>9

LEMMA StepSeenTo == ASSUME Basic, Basic', SeenTo, [Next]_vars PROVE SeenTo'
<1>1. Typed /\ Works /\ now \in Nat /\ m1 \in Seq(Candle)
  BY Facts DEF Basic
<1>2. CASE UNCHANGED <<m1, seen>>
  BY <1>2 DEF SeenTo, Times, Below, First
<1>3. CASE OnCandle /\ seen' = IF m1 = <<>> THEN 0..Head(wire).t ELSE seen \cup {Head(wire).t}
  <2>1. PICK c : c = Head(wire)
    OBVIOUS
  <2>2. /\ c.t \in Nat /\ Grows({c}) /\ m1' # <<>> /\ (m1 = <<>> /\ Below' => First(m1)' = c.t)
        /\ seen' = IF m1 = <<>> THEN 0..c.t ELSE seen \cup {c.t}
    BY <1>1, <1>3, <2>1, CandleGrows, Facts
  <2>3. Times(m1)' \subseteq Times(m1) \cup {c.t}
    BY <2>2 DEF Grows, Times, Cached, Rows
  <2>4. CASE m1 = <<>>
    <3>1. Times(m1) = {} /\ c.t \in seen'
      BY <2>2, <2>4 DEF Times
    <3>2. Times(m1)' \subseteq seen'
      BY <2>3, <3>1
    <3>3. ASSUME Below', NEW n \in seen', First(m1)' <= n PROVE n \in Times(m1)'
      <4>1. n = c.t
        BY <2>2, <2>4, <3>3
      <4>2. c.t \in Times(m1)'
        BY <2>2, <3>3 DEF Grows
      <4> QED BY <4>1, <4>2
    <3> QED BY <3>2, <3>3 DEF SeenTo
  <2>5. CASE m1 # <<>>
    <3>1. seen' = seen \cup {c.t}
      BY <2>2, <2>5
    <3>2. Times(m1)' \subseteq seen'
      BY <2>3, <3>1 DEF SeenTo
    <3>3. ASSUME Below', NEW n \in seen', First(m1)' <= n PROVE n \in Times(m1)'
      <4>1. Below /\ Times(m1)' = Times(m1) \cup {c.t} /\ First(m1)' = First(m1)
        BY <2>2, <2>5, <3>3 DEF Grows
      <4> QED BY <2>5, <3>1, <3>3, <4>1 DEF SeenTo
    <3> QED BY <3>2, <3>3 DEF SeenTo
  <2> QED BY <2>4, <2>5
<1>4. ASSUME NEW t \in Tasks, Insert(t), seen' = seen \cup (job[t].from..(job[t].to - 1)) PROVE SeenTo'
  <2>1. job[t].at = "fetched" /\ Grows(News(t)) /\ job[t].from \in Nat /\ job[t].to \in Nat
    BY <1>1, <1>4, InsertGrows, Facts
  <2>2. m1 # <<>>
    BY <1>1, <2>1 DEF Works, Work, Filling
  <2>3. Times(m1)' \subseteq Times(m1) \cup {r.t : r \in News(t)}
    BY <2>1 DEF Grows, Times, Cached, Rows
  <2>4. \A r \in News(t) : r.t \in job[t].from..(job[t].to - 1)
    BY <1>1, <2>1, NewsAre
  <2>5. Times(m1)' \subseteq seen'
    BY <1>4, <2>3, <2>4 DEF SeenTo
  <2>6. ASSUME Below', NEW n \in seen', First(m1)' <= n PROVE n \in Times(m1)'
    <3>1. Below /\ Times(m1) \subseteq Times(m1)' /\ First(m1)' = First(m1)
      BY <2>1, <2>2, <2>6 DEF Grows
    <3>2. CASE n \in seen
      BY <2>2, <2>6, <3>1, <3>2 DEF SeenTo
    <3>3. CASE n \in job[t].from..(job[t].to - 1)
      <4>1. n \in Nat /\ job[t].from <= n /\ n < job[t].to
        BY <2>1, <3>3
      <4> QED BY <1>4, <2>6, <4>1, InsertFills
    <3> QED BY <1>4, <2>6, <3>2, <3>3
  <2> QED BY <2>5, <2>6 DEF SeenTo
<1>5. ASSUME NEW t \in Tasks, Loaded(t) PROVE SeenTo'
  <2>1. PICK rows \in Seq(Candle) : /\ rows # <<>> /\ Line(rows) /\ m1' = rows
                                    /\ End(rows) \in Nat /\ seen' = 0..End(rows)
    BY <1>1, <1>5, LoadedIs
  <2>2. /\ First(rows) \in Nat
        /\ \A c \in Rows(rows) : c.t \in Nat /\ c.t <= End(rows)
        /\ \A n \in First(rows)..End(rows) : \E c \in Rows(rows) : c.t = n
    BY <2>1, LineIs
  <2>3. Times(rows) = {c.t : c \in Rows(rows)}
    BY DEF Times, Rows
  <2>4. Times(rows) \subseteq seen'
    BY <2>1, <2>2, <2>3
  <2>5. ASSUME NEW n \in seen', First(rows) <= n PROVE n \in Times(rows)
    <3>1. n \in First(rows)..End(rows)
      BY <2>1, <2>2, <2>5
    <3> QED BY <2>2, <2>3, <3>1
  <2> QED BY <2>1, <2>4, <2>5 DEF SeenTo, Times, First
<1> QED BY <1>2, <1>3, <1>4, <1>5, SeenMoves

\* While nothing fails, everything up to the end of the cache has been seen to: an update
\* comes no later than the next minute, and a backfill begins there at the latest.
Spanned == Well /\ m1 # <<>> => 0..End(m1) \subseteq seen

LEMMA StepSpanned == ASSUME Basic, Well => Whole, (Well => Whole)', Spanned, [Next]_vars PROVE Spanned'
<1> SUFFICES ASSUME Well', m1' # <<>>, NEW n \in 0..End(m1)' PROVE n \in seen'
  BY DEF Spanned
<1>1. Typed /\ Works /\ Typed' /\ Lined'
  BY StepBasic DEF Basic, Whole
<1>2. Well /\ Whole
  BY <1>1, WellBefore
<1>3. Lined /\ Jobs /\ Heads /\ Updates /\ n \in Nat /\ m1 \in Seq(Candle)
  BY <1>1, <1>2, Facts DEF Whole
<1>4. End(m1)' \in Times(m1)' /\ End(m1)' \in Nat /\ n <= End(m1)'
  <2>1. m1' \in Seq(Candle)
    BY <1>1 DEF Typed, CacheTyped, Buffers
  <2>2. PICK b \in Seq(Candle) : b = m1'
    BY <2>1
  <2>3. b # <<>> /\ Len(b) \in DOMAIN b
    BY <2>2
  <2>4. b[Len(b)].t \in Nat
    BY <2>3, Item
  <2>5. End(m1)' = b[Len(b)].t /\ Times(m1)' = Times(b)
    BY <2>2 DEF End, Times
  <2>6. b[Len(b)].t \in Times(b)
    BY <2>3 DEF Times
  <2>7. End(m1)' \in Times(m1)' /\ End(m1)' \in Nat
    BY <2>4, <2>5, <2>6
  <2> QED BY <2>7
<1>5. m1 # <<>> => End(m1) \in Nat /\ \A k \in Nat : k <= End(m1) => k \in seen
  BY <1>1, <1>2, <1>3, CachedAre DEF Spanned
<1>6. m1 # <<>> => \A k \in Times(m1) : k \in Nat /\ k <= End(m1)
  BY <1>1, <1>3, CachedAre DEF Times, Cached, Rows
<1>7. CASE UNCHANGED <<m1, seen>>
  BY <1>3, <1>4, <1>5, <1>7 DEF End
<1>8. CASE OnCandle /\ seen' = IF m1 = <<>> THEN 0..Head(wire).t ELSE seen \cup {Head(wire).t}
  <2>1. PICK c : c = Head(wire)
    OBVIOUS
  <2>2. /\ c \in OnWire /\ c.t \in Nat /\ c.v # 0 /\ Grows({c}) /\ job["loop"].at = "idle" /\ wire # <<>>
        /\ seen' = IF m1 = <<>> THEN 0..c.t ELSE seen \cup {c.t}
    BY <1>1, <1>8, <2>1, CandleGrows, Facts
  <2>3. Times(m1)' \subseteq Times(m1) \cup {c.t}
    BY <2>2 DEF Grows, Times, Cached, Rows
  <2>4. CASE m1 = <<>>
    <3>1. Times(m1) = {}
      BY <2>4 DEF Times
    <3> QED BY <1>3, <1>4, <2>2, <2>3, <2>4, <3>1
  <2>5. CASE m1 # <<>>
    <3>1. c.t <= End(m1) + 1
      <4>1. Reaches(c.t)
        BY <1>3, <2>1, <2>2 DEF Heads, Due, Ready
      <4> QED BY <2>2, <2>5, <4>1 DEF Reaches, Filling, Loading
    <3>2. seen' = seen \cup {c.t}
      BY <2>2, <2>5
    <3>3. n <= End(m1) \/ n = c.t
      <4>1. CASE End(m1)' \in Times(m1)
        BY <1>3, <1>4, <1>5, <1>6, <2>5, <4>1
      <4>2. CASE End(m1)' = c.t
        BY <1>3, <1>4, <1>5, <2>2, <2>5, <3>1, <4>2
      <4> QED BY <1>4, <2>3, <4>1, <4>2
    <3> QED BY <1>3, <1>5, <2>5, <3>2, <3>3
  <2> QED BY <2>4, <2>5
<1>9. ASSUME NEW t \in Tasks, Insert(t), seen' = seen \cup (job[t].from..(job[t].to - 1)) PROVE n \in seen'
  <2>1. job[t].at = "fetched" /\ Grows(News(t)) /\ job[t].from \in Nat /\ job[t].to \in Nat
    BY <1>1, <1>9, InsertGrows, Facts
  <2>2. m1 # <<>> /\ job[t].from <= End(m1) + 1
    BY <1>3, <2>1 DEF Jobs, Fills, Filling
  <2>3. Times(m1)' \subseteq Times(m1) \cup {r.t : r \in News(t)}
    BY <2>1 DEF Grows, Times, Cached, Rows
  <2>4. CASE n <= End(m1)
    BY <1>3, <1>5, <1>9, <2>2, <2>4
  <2>5. CASE ~(n <= End(m1))
    <3>1. ~(End(m1)' \in Times(m1))
      BY <1>3, <1>4, <1>5, <1>6, <2>2, <2>5
    <3>2. PICK r \in News(t) : End(m1)' = r.t
      BY <1>4, <2>3, <3>1
    <3>3. r.t < job[t].to
      BY <1>1, <3>2, NewsAre
    <3>4. n \in job[t].from..(job[t].to - 1)
      BY <1>3, <1>4, <1>5, <2>1, <2>2, <2>5, <3>2, <3>3
    <3> QED BY <1>9, <3>4
  <2> QED BY <2>4, <2>5
<1>10. ASSUME NEW t \in Tasks, Loaded(t) PROVE n \in seen'
  <2>1. PICK rows \in Seq(Candle) : m1' = rows /\ End(rows) \in Nat /\ seen' = 0..End(rows)
    BY <1>1, <1>10, LoadedIs
  <2>2. End(m1)' = End(rows)
    BY <2>1 DEF End
  <2> QED BY <1>3, <1>4, <2>1, <2>2
<1> QED BY <1>7, <1>8, <1>9, <1>10, SeenMoves

-----------------------------------------------------------------------------
(* The minutes that are missing, and who brings them *)

\* A minute that is over, and that nothing has seen to since there is a cache.
Missing(n) == m1 # <<>> /\ n < now /\ n \notin seen
\* The backfill of a task has it in what it asks for.
Brings(t, n) == Loading(t) \/ (Filling(t) /\ job[t].from <= n /\ n < job[t].to)
\* The gap detection is about to fill it, or has still to look, and will see it.
Watched(n) == Brings("timer", n) \/ (n = now - 1 /\ check /\ \A c \in Cached : c.closed => c.t < n)
\* The wire brings no later minute before its own candle or the announcement of a reconnect,
\* and one of these is on it while the connection streams.
Shown(n) ==
  /\ \A i \in DOMAIN wire : wire[i].v # 0 /\ wire[i].t > n =>
       \E j \in DOMAIN wire : j < i /\ (wire[j].v = 0 \/ wire[j].t = n)
  /\ streaming => \E j \in DOMAIN wire : wire[j].v = 0 \/ wire[j].t = n
\* It is behind the end of the cache, and kline_ws_loop comes to it before anything later.
Ahead(n) ==
  /\ \A c \in Cached : c.t < n
  /\ \A t \in Tasks : Filling(t) => job[t].from <= n
  /\ reconnect /\ (ws = "up" => streaming)
  /\ Brings("loop", n) \/ Shown(n)

\* A minute that is missing was missing, or is the one that has just gone by.
LEMMA MissingBefore ==
  ASSUME Basic, [Next]_vars, NEW n \in Nat, Missing(n)'
  PROVE  /\ m1 # <<>> /\ n \notin seen /\ n < now'
         /\ \A t \in Tasks : ~Loaded(t)
         /\ \/ Tick /\ n = now /\ now' = now + 1
            \/ Missing(n)
<1>1. Typed /\ InTime /\ Works /\ now \in Nat
  BY Facts DEF Basic
<1>2. m1' # <<>> /\ n < now' /\ n \notin seen'
  BY DEF Missing
<1>3. now' = now \/ (Tick /\ now' = now + 1)
  BY <1>1, ClockMoves
<1>4. \A t \in Tasks : ~Loaded(t)
  <2> SUFFICES ASSUME NEW t \in Tasks, Loaded(t) PROVE FALSE
    OBVIOUS
  <2>1. PICK rows \in Seq(Candle) : /\ now' = now /\ End(rows) \in Nat /\ now - 1 <= End(rows)
                                    /\ seen' = 0..End(rows)
    BY <1>1, LoadedIs
  <2> QED BY <1>1, <1>2, <2>1
<1>5. m1 # <<>> /\ n \notin seen
  <2>1. CASE UNCHANGED <<m1, seen>>
    BY <1>2, <2>1
  <2>2. CASE OnCandle /\ seen' = IF m1 = <<>> THEN 0..Head(wire).t ELSE seen \cup {Head(wire).t}
    <3>1. PICK c : c = Head(wire)
      OBVIOUS
    <3>2. c \in OnWire /\ c.v # 0 /\ now' = now
      BY <1>1, <2>2, <3>1, CandleGrows DEF clock
    <3>3. c.t \in Nat /\ now - 1 <= c.t
      BY <1>1, <3>2, Facts DEF InTime
    <3>4. ~(n \in 0..c.t) => FALSE
      BY <1>1, <1>2, <3>2, <3>3
    <3> QED BY <1>2, <2>2, <3>1, <3>4
  <2>3. ASSUME NEW t \in Tasks, Insert(t), seen' = seen \cup (job[t].from..(job[t].to - 1))
        PROVE  m1 # <<>> /\ n \notin seen
    <3>1. job[t].at = "fetched"
      BY <1>1, <2>3, InsertGrows
    <3> QED BY <1>1, <1>2, <2>3, <3>1 DEF Works, Work, Filling
  <2> QED BY <1>4, <2>1, <2>2, <2>3, SeenMoves
<1>6. n < now \/ (Tick /\ n = now /\ now' = now + 1)
  BY <1>1, <1>2, <1>3
<1> QED BY <1>2, <1>4, <1>5, <1>6 DEF Missing

\* No step has just taken its candle, or filled a gap it is in.
LEMMA NotSeenTo ==
  ASSUME Basic, [Next]_vars, NEW n \in Nat, Missing(n)'
  PROVE  /\ OnCandle => Head(wire).t # n
         /\ \A t \in Tasks : Insert(t) => ~(job[t].from <= n /\ n < job[t].to)
<1>1. m1 # <<>> /\ n \notin seen'
  BY MissingBefore DEF Missing
<1>2. \A t \in Tasks : job[t].from \in Nat /\ job[t].to \in Nat
  BY Facts DEF Basic
<1>3. OnCandle => Head(wire).t # n
  BY <1>1 DEF OnCandle
<1>4. ASSUME NEW t \in Tasks, Insert(t), job[t].from <= n, n < job[t].to PROVE FALSE
  <2>1. n \in job[t].from..(job[t].to - 1)
    BY <1>2, <1>4
  <2> QED BY <1>1, <1>4, <2>1 DEF Insert
<1> QED BY <1>3, <1>4

\* A task that brings a minute goes on bringing it, until it has or its request fails.
LEMMA BringsKept ==
  ASSUME Basic, [Next]_vars, NEW n \in Nat, Missing(n)',
         NEW t \in Tasks, Brings(t, n), ~RequestFails(t)
  PROVE  Brings(t, n)'
<1>1. Typed
  BY DEF Basic
<1>2. job[t].at # "idle" /\ job[t].at # "replace"
  BY DEF Brings, Loading, Filling
<1>3. n \notin seen' /\ ~Loaded(t)
  BY MissingBefore DEF Missing
<1>4. CASE job'[t] = job[t]
  BY <1>4 DEF Brings, Loading, Filling
<1>5. CASE Fetch(t)
  <2>1. job[t].at = "fetch" /\ job'[t].at = "fetched" /\ job'[t].from = job[t].from /\ job'[t].to = job[t].to
    BY <1>1, <1>5, AnswerIs
  <2> QED BY <2>1 DEF Brings, Loading, Filling
<1>6. CASE Load(t) \/ LoadPart(t)
  <2>1. job'[t].at = "loaded"
    BY <1>1, <1>6, AnswerIs
  <2> QED BY <2>1 DEF Brings, Loading
<1>7. CASE Insert(t)
  <2>1. job[t].at = "fetched"
    BY <1>1, <1>7, InsertGrows
  <2>2. job[t].from <= n /\ n < job[t].to
    BY <2>1 DEF Brings, Loading
  <2> QED BY <1>7, <2>2, NotSeenTo
<1>8. CASE Replace(t)
  BY <1>2, <1>8 DEF Replace
<1> QED BY <1>1, <1>2, <1>3, <1>4, <1>5, <1>6, <1>7, <1>8, TaskMoves DEF Backfill

\* The clock and the gap detection alone touch its turn.
LEMMA CheckMoves ==
  ASSUME [Next]_vars
  PROVE  check' = check \/ Tick \/ TimerDetects
<1>1. CASE Update \/ Lag \/ StartEngine \/ Subscriber \/ CallAgain \/ OnCandle
  BY <1>1 DEF Update, Lag, StartEngine, Subscriber, Enter, SubscribeNow, CallAgain, OnCandle, clock
<1>2. CASE Manager \/ Disconnect \/ Refuse
  BY <1>2 DEF Manager, Connect, Command, RetryConnect, Disconnect, Refuse, clock
<1>3. CASE CallerDetects \/ LoopDetects
  BY <1>3 DEF CallerDetects, LoopDetects
<1>4. ASSUME NEW t \in Tasks, Backfill(t) \/ LoadPart(t) \/ RequestFails(t) PROVE check' = check
  BY <1>4 DEF Backfill, Fetch, Load, Insert, Replace, Loaded, LoadPart, RequestFails, clock
<1>5. CASE UNCHANGED vars
  BY <1>5 DEF vars, clock
<1> QED BY <1>1, <1>2, <1>3, <1>4, <1>5 DEF Next

\* No step closes a candle from a missing minute of the past on.
LEMMA ClosedBefore ==
  ASSUME Basic, [Next]_vars, NEW n \in Nat, Missing(n)', now' = now, n = now - 1,
         \A c \in Cached : c.closed => c.t < n
  PROVE  \A c \in Cached' : c.closed => c.t < n
<1>1. Typed /\ InTime /\ now \in Nat
  BY Facts DEF Basic
<1>2. n \notin seen' /\ \A t \in Tasks : ~Loaded(t)
  BY MissingBefore DEF Missing
<1> SUFFICES ASSUME NEW c \in Cached', c.closed PROVE c.t < n
  OBVIOUS
<1>3. CASE UNCHANGED m1
  BY <1>3 DEF Cached
<1>4. CASE OnCandle
  <2>1. PICK h : h = Head(wire)
    OBVIOUS
  <2>2. h \in OnWire /\ h.v # 0 /\ Grows({h})
    BY <1>1, <1>4, <2>1, CandleGrows
  <2>3. PICK d \in Cached \cup {h} : c.t = d.t /\ d.closed
    BY <2>2 DEF Grows
  <2>4. ASSUME d = h PROVE d.t < n
    <3>1. h.t # n
      BY <1>4, <2>1, NotSeenTo
    <3>2. h.t < now /\ h.t \in Nat
      BY <1>1, <2>2, <2>3, <2>4, Facts DEF InTime
    <3> QED BY <1>1, <2>4, <3>1, <3>2
  <2> QED BY <2>3, <2>4
<1>5. ASSUME NEW t \in Tasks, Insert(t) PROVE c.t < n
  <2>1. Grows(News(t))
    BY <1>1, <1>5, InsertGrows
  <2>2. PICK d \in Cached \cup News(t) : c.t = d.t /\ d.closed
    BY <2>1 DEF Grows
  <2>3. ASSUME d \in News(t) PROVE d.t < n
    <3>1. /\ d.t \in Nat /\ job[t].from <= d.t /\ d.t < job[t].to
          /\ job[t].to <= now /\ job[t].to \in Nat
      BY <1>1, <2>3, NewsAre, Facts
    <3>2. d.t # n
      BY <1>5, <3>1, NotSeenTo
    <3> QED BY <1>1, <3>1, <3>2
  <2> QED BY <2>2, <2>3
<1> QED BY <1>1, <1>2, <1>3, <1>4, <1>5, CacheMoves

\* Whatever fails but its own request, the gap detection has every missing minute in view:
\* of a new one it still has to look, and when it looks it asks for it.
LEMMA WatchKept ==
  ASSUME Basic, SeenTo, [Next]_vars, NEW n \in Nat, Missing(n)', Missing(n) => Watched(n),
         ~RequestFails("timer")
  PROVE  Watched(n)'
<1>1. Typed /\ InTime /\ Begun /\ now \in Nat /\ "timer" \in Tasks
  BY Facts DEF Basic, Tasks
<1>2. /\ m1 # <<>> /\ n \notin seen /\ n < now'
      /\ (Tick /\ n = now /\ now' = now + 1) \/ Missing(n)
  BY MissingBefore
<1>3. Entered
  BY <1>1, <1>2 DEF Begun
<1>4. CASE Tick /\ n = now /\ now' = now + 1
  <2>1. check' /\ n = now' - 1 /\ UNCHANGED m1
    BY <1>1, <1>3, <1>4 DEF Tick
  <2>2. \A c \in Cached : c.t < n
    <3> SUFFICES ASSUME NEW c \in Cached PROVE c.t < n
      OBVIOUS
    <3>1. c.t <= now /\ c.t \in Nat /\ c.t \in seen
      BY <1>1, RowsAre, Facts DEF InTime, Cached, Times, Rows, SeenTo
    <3> QED BY <1>1, <1>2, <1>4, <3>1
  <2> QED BY <2>1, <2>2 DEF Watched, Cached
<1>5. CASE Missing(n) /\ Brings("timer", n)
  BY <1>1, <1>5, BringsKept DEF Watched
<1>6. CASE Missing(n) /\ n = now - 1 /\ check /\ \A c \in Cached : c.closed => c.t < n
  <2>1. now' = now
    <3>1. ~(Tick /\ now' # now)
      BY <1>1, <1>6, ClockMoves DEF Tick, Prompt
    <3> QED BY <1>1, <3>1, ClockMoves
  <2>2. \A c \in Cached' : c.closed => c.t < n
    BY <1>6, <2>1, ClosedBefore
  <2>3. CASE check' = check
    BY <1>6, <2>1, <2>2, <2>3 DEF Watched
  <2>4. CASE Tick
    BY <1>3, <1>6, <2>1, <2>2, <2>4 DEF Tick, Watched
  <2>5. CASE TimerDetects
    <3>1. Detect("timer")
      BY <2>5 DEF TimerDetects
    <3>2. LastClosed(m1) # -1 => LastClosed(m1) < n
      BY <1>1, <1>6, LastClosedCached
    <3>3. /\ LastClosed(m1) \in Nat \cup {-1}
          /\ \/ LastClosed(m1) = -1 /\ job'["timer"].at = "load" /\ job'["timer"].to = now
             \/ /\ LastClosed(m1) \in Nat /\ LastClosed(m1) + 1 < now /\ job'["timer"].at = "fetch"
                /\ job'["timer"].from = LastClosed(m1) + 1 /\ job'["timer"].to = now
             \/ LastClosed(m1) \in Nat /\ now <= LastClosed(m1) + 1 /\ job'["timer"].at = "idle"
      BY <1>1, <3>1, DetectIs
    <3>4. Brings("timer", n)'
      <4>1. CASE job'["timer"].at = "load"
        BY <4>1 DEF Brings, Loading
      <4>2. CASE /\ LastClosed(m1) \in Nat /\ job'["timer"].at = "fetch"
                 /\ job'["timer"].from = LastClosed(m1) + 1 /\ job'["timer"].to = now
        <5>1. LastClosed(m1) + 1 <= n /\ n < now
          BY <1>1, <1>6, <3>2, <4>2
        <5> QED BY <4>2, <5>1 DEF Brings, Filling
      <4>3. ~(LastClosed(m1) \in Nat /\ now <= LastClosed(m1) + 1)
        BY <1>1, <1>6, <3>2
      <4> QED BY <3>3, <4>1, <4>2, <4>3
    <3> QED BY <3>4 DEF Watched
  <2> QED BY <2>3, <2>4, <2>5, CheckMoves
<1> QED BY <1>2, <1>4, <1>5, <1>6 DEF Watched

\* kline_ws_loop reads nothing later than a minute it comes to first.
LEMMA HeadBefore ==
  ASSUME Typed, wire # <<>>, Head(wire).v # 0, NEW n \in Nat, Shown(n), Head(wire).t # n
  PROVE  Head(wire).t < n
<1>1. wire \in Seq(Candle)
  BY Facts
<1>2. Head(wire) = wire[1] /\ 1 \in DOMAIN wire /\ DOMAIN wire \subseteq Nat \ {0} /\ Head(wire) \in OnWire
  BY <1>1, TailRows DEF OnWire
<1>3. ~(wire[1].t > n)
  <2>1. \A j \in DOMAIN wire : ~(j < 1)
    BY <1>2
  <2> QED BY <1>2, <2>1 DEF Shown
<1>4. wire[1].t \in Nat
  BY <1>2, Facts
<1> QED BY <1>2, <1>3, <1>4

\* It still is so when that has been read ...
LEMMA ShownRead ==
  ASSUME Typed, wire # <<>>, wire' = Tail(wire), UNCHANGED streaming, NEW n \in Nat, Shown(n),
         Head(wire).v # 0, Head(wire).t # n
  PROVE  Shown(n)'
<1>1. PICK N \in Nat : N = Len(wire) /\ N >= 1 /\ DOMAIN wire = 1..N
  BY Facts
<1>2. /\ Head(wire) = wire[1] /\ DOMAIN (wire') = 1..(N - 1)
      /\ \A i \in 1..(N - 1) : wire'[i] = wire[i + 1]
  BY <1>1, Facts, TailRows
<1>3. ASSUME NEW j \in 1..N, wire[j].v = 0 \/ wire[j].t = n
      PROVE  j - 1 \in 1..(N - 1) /\ wire'[j - 1] = wire[j]
  <2>1. j # 1
    BY <1>2, <1>3
  <2>2. j - 1 \in 1..(N - 1) /\ (j - 1) + 1 = j
    BY <2>1
  <2> QED BY <1>2, <2>2
<1>4. ASSUME NEW i \in 1..(N - 1), wire'[i].v # 0, wire'[i].t > n
      PROVE  \E j \in 1..(N - 1) : j < i /\ (wire'[j].v = 0 \/ wire'[j].t = n)
  <2>1. i + 1 \in 1..N /\ wire'[i] = wire[i + 1]
    BY <1>2
  <2>2. PICK j \in 1..N : j < i + 1 /\ (wire[j].v = 0 \/ wire[j].t = n)
    BY <1>1, <1>4, <2>1 DEF Shown
  <2>3. j - 1 \in 1..(N - 1) /\ wire'[j - 1] = wire[j]
    BY <1>3, <2>2
  <2>4. j - 1 < i
    BY <2>2
  <2> QED BY <2>2, <2>3, <2>4
<1>5. ASSUME streaming' PROVE \E j \in 1..(N - 1) : wire'[j].v = 0 \/ wire'[j].t = n
  <2>1. PICK j \in 1..N : wire[j].v = 0 \/ wire[j].t = n
    BY <1>1, <1>5 DEF Shown
  <2> QED BY <1>3, <2>1
<1> QED BY <1>2, <1>4, <1>5 DEF Shown

\* ... and when something has been added: an update of a stream that was there, or an
\* announcement.
LEMMA ShownSent ==
  ASSUME Typed, NEW c \in Candle, wire' = Append(wire, c), NEW n \in Nat, Shown(n),
         c.v = 0 \/ streaming
  PROVE  Shown(n)'
<1>1. PICK N \in Nat : N = Len(wire) /\ DOMAIN wire = 1..N
  BY Facts
<1>2. DOMAIN (wire') = 1..(N + 1) /\ wire'[N + 1] = c /\ \A i \in 1..N : i \in 1..(N + 1) /\ wire'[i] = wire[i]
  BY <1>1, Facts
<1>3. N + 1 \in 1..(N + 1) /\ \A j \in 1..N : j < N + 1
  OBVIOUS
<1>4. ASSUME NEW i \in 1..(N + 1), wire'[i].v # 0, wire'[i].t > n
      PROVE  \E j \in 1..(N + 1) : j < i /\ (wire'[j].v = 0 \/ wire'[j].t = n)
  <2>1. CASE i \in 1..N
    <3>1. PICK j \in 1..N : j < i /\ (wire[j].v = 0 \/ wire[j].t = n)
      BY <1>1, <1>2, <1>4, <2>1 DEF Shown
    <3> QED BY <1>2, <3>1
  <2>2. CASE i = N + 1
    <3>1. streaming
      BY <1>2, <1>4, <2>2
    <3>2. PICK j \in 1..N : wire[j].v = 0 \/ wire[j].t = n
      BY <1>1, <3>1 DEF Shown
    <3> QED BY <1>2, <1>3, <2>2, <3>2
  <2>3. i \in 1..N \/ i = N + 1
    OBVIOUS
  <2> QED BY <2>1, <2>2, <2>3
<1>5. \E j \in 1..(N + 1) : wire'[j].v = 0 \/ wire'[j].t = n
  <2>1. CASE c.v = 0
    BY <1>2, <1>3, <2>1
  <2>2. CASE streaming
    <3>1. PICK j \in 1..N : wire[j].v = 0 \/ wire[j].t = n
      BY <1>1, <2>2 DEF Shown
    <3> QED BY <1>2, <3>1
  <2> QED BY <2>1, <2>2
<1> QED BY <1>2, <1>4, <1>5 DEF Shown

LEMMA ShownSame == ASSUME UNCHANGED wire, streaming' => streaming, NEW n, Shown(n) PROVE Shown(n)'
BY DEF Shown

\* When nothing more can fail, no step fails.
LEMMA NothingFails ==
  ASSUME [Next]_vars, ~MayFail
  PROVE  ~Refuse /\ ~Lag /\ \A t \in Tasks : ~LoadPart(t) /\ ~RequestFails(t)
BY DEF Refuse, Lag, LoadPart, RequestFails

\* Nothing later gets into the cache.
LEMMA BehindKept ==
  ASSUME Basic, [Next]_vars, NEW n \in Nat, Missing(n)', Ahead(n)
  PROVE  \A c \in Cached' : c.t < n
<1>1. Typed /\ n \notin seen' /\ \A t \in Tasks : ~Loaded(t)
  BY MissingBefore DEF Basic, Missing
<1>2. \A c \in Cached : c.t < n
  BY DEF Ahead
<1> SUFFICES ASSUME NEW c \in Cached' PROVE c.t < n
  OBVIOUS
<1>3. CASE UNCHANGED m1
  BY <1>2, <1>3 DEF Cached
<1>4. CASE OnCandle
  <2>1. PICK h : h = Head(wire)
    OBVIOUS
  <2>2. h \in OnWire /\ h.v # 0 /\ wire # <<>> /\ job["loop"].at = "idle" /\ Grows({h})
    BY <1>1, <1>4, <2>1, CandleGrows
  <2>3. PICK d \in Cached \cup {h} : c.t = d.t
    BY <2>2 DEF Grows
  <2>4. h.t < n
    <3>1. h.t # n
      BY <1>4, <2>1, NotSeenTo
    <3>2. Shown(n)
      BY <2>2 DEF Ahead, Brings, Loading, Filling
    <3> QED BY <1>1, <2>1, <2>2, <3>1, <3>2, HeadBefore
  <2> QED BY <1>2, <2>3, <2>4
<1>5. ASSUME NEW t \in Tasks, Insert(t) PROVE c.t < n
  <2>1. job[t].at = "fetched" /\ Grows(News(t))
    BY <1>1, <1>5, InsertGrows
  <2>2. PICK d \in Cached \cup News(t) : c.t = d.t
    BY <2>1 DEF Grows
  <2>3. ASSUME d \in News(t) PROVE d.t < n
    <3>1. job[t].from <= n
      BY <2>1 DEF Ahead, Filling
    <3>2. job[t].to \in Nat /\ d.t \in Nat /\ d.t < job[t].to
      BY <1>1, <2>3, NewsAre, Facts
    <3>3. ~(n < job[t].to)
      BY <1>5, <3>1, NotSeenTo
    <3> QED BY <3>2, <3>3
  <2> QED BY <1>2, <2>2, <2>3
<1> QED BY <1>1, <1>3, <1>4, <1>5, CacheMoves

\* On a connection that streams, or is about to be announced, the symbol goes on being streamed.
LEMMA StreamMoves ==
  ASSUME Typed, [Next]_vars, ~Lag, wanted, reconnect, ws = "up" => streaming
  PROVE  /\ reconnect' /\ (ws' = "up" => streaming')
         /\ \/ UNCHANGED wire /\ (streaming' => streaming)
            \/ \E c \in Candle : wire' = Append(wire, c) /\ (c.v = 0 \/ streaming)
            \/ LoopDetects /\ UNCHANGED streaming
            \/ OnCandle /\ UNCHANGED streaming
<1>1. \A v \in Nat, b \in BOOLEAN : [t |-> now, v |-> v, closed |-> b] \in Candle
  <2>1. now \in Minutes
    BY ClockIs DEF Typed
  <2> QED BY <2>1 DEF Candle
<1>2. CASE Tick \/ Update
  <2>1. UNCHANGED <<ws, reconnect, streaming>>
    BY <1>2 DEF Tick, Update, stream, connection
  <2>2. \/ UNCHANGED wire
        \/ streaming /\ wire' = Append(wire, [t |-> now, v |-> 2, closed |-> TRUE])
        \/ streaming /\ wire' = Append(wire, [t |-> now, v |-> 1, closed |-> FALSE])
    BY <1>2 DEF Tick, Update
  <2> QED BY <1>1, <2>1, <2>2
<1>3. CASE Connect
  <2>1. reconnect' /\ streaming' /\ wire' = Append(wire, Reconnect)
    BY <1>3 DEF Connect, Connected, Establish
  <2>2. Reconnect \in Candle /\ Reconnect.v = 0
    BY <1>1 DEF Reconnect
  <2> QED BY <2>1, <2>2
<1>4. CASE Command
  <2>1. UNCHANGED <<reconnect, ws, wire>> /\ streaming' /\ ws = "up"
    BY <1>4 DEF Command, SendCommand, connection, engine
  <2> QED BY <2>1
<1>5. CASE RetryConnect \/ Disconnect \/ Refuse
  <2>1. UNCHANGED <<reconnect, wire>> /\ ws' # "up" /\ (streaming' = streaming \/ streaming' = FALSE)
    BY <1>5 DEF RetryConnect, Disconnect, Refuse, Retry, Again, Disconnected, Lose, Refused, FailToConnect,
                Backoff, engine
  <2>2. streaming' => streaming
    BY <2>1, Zenon
  <2> QED BY <2>1, <2>2
<1>6. CASE StartEngine \/ Subscriber \/ CallAgain
  <2>1. UNCHANGED <<reconnect, wire, streaming>> /\ (ws' = "up" => ws = "up")
    BY <1>6 DEF StartEngine, Subscriber, Enter, SubscribeNow, CallAgain, StartStream, StartConnection,
                Want, Ask, stream, connection
  <2> QED BY <2>1
<1>7. CASE CallerDetects \/ TimerDetects \/ UNCHANGED vars
  <2>1. UNCHANGED <<reconnect, wire, streaming, ws>>
    BY <1>7 DEF CallerDetects, TimerDetects, Detect, vars, engine, stream, connection
  <2> QED BY <2>1
<1>8. CASE LoopDetects
  <2>1. UNCHANGED <<reconnect, streaming, ws>>
    BY <1>8 DEF LoopDetects, Detect, stream, connection
  <2> QED BY <1>8, <2>1
<1>9. CASE OnCandle
  <2>1. UNCHANGED <<reconnect, streaming, ws>>
    BY <1>9 DEF OnCandle, stream, connection
  <2> QED BY <1>9, <2>1
<1>10. ASSUME NEW t \in Tasks, Backfill(t) \/ LoadPart(t) \/ RequestFails(t)
       PROVE  UNCHANGED <<reconnect, wire, streaming, ws>>
  BY <1>10 DEF Backfill, Fetch, Load, Insert, Replace, Loaded, LoadPart, RequestFails, stream, connection
<1> QED BY <1>2, <1>3, <1>4, <1>5, <1>6, <1>7, <1>8, <1>9, <1>10 DEF Next, Manager

\* When nothing more can fail, a missing minute behind the cache stays so until the loop has
\* come to it: the announcement makes it ask for it, or its own candle is the next.
LEMMA AheadKept ==
  ASSUME Basic, [Next]_vars, ~MayFail, NEW n \in Nat, Missing(n)', Missing(n), Ahead(n)
  PROVE  Ahead(n)'
<1>1. /\ Typed /\ Begun /\ now \in Nat /\ n < now /\ m1 # <<>> /\ n \notin seen'
      /\ "loop" \in Tasks /\ job \in [Tasks -> JobState]
  BY Facts DEF Basic, Missing, Tasks, Typed, JobsTyped
<1>2. ~Lag /\ \A t \in Tasks : ~Loaded(t) /\ ~LoadPart(t) /\ ~RequestFails(t)
  BY NothingFails, MissingBefore
<1>3. Entered /\ wanted
  BY <1>1 DEF Begun
<1>4. \A c \in Cached' : c.t < n
  BY BehindKept
<1>5. LastClosed(m1) # -1 => LastClosed(m1) \in Nat /\ LastClosed(m1) < n
  BY <1>1, LastClosedCached, LastClosedInt, Facts DEF Ahead
<1>6. ASSUME NEW t \in Tasks, Filling(t)' PROVE job'[t].from <= n
  <2>1. CASE job'[t] = job[t]
    BY <1>6, <2>1 DEF Ahead, Filling
  <2>2. CASE Detect(t)
    <3>1. LastClosed(m1) \in Nat /\ LastClosed(m1) # -1 /\ job'[t].from = LastClosed(m1) + 1
      BY <1>1, <1>6, <2>2, DetectIs DEF Filling
    <3> QED BY <1>5, <3>1
  <2>3. CASE Backfill(t)
    <3>1. CASE Fetch(t)
      <4>1. job[t].at = "fetch" /\ job'[t].from = job[t].from
        BY <1>1, <3>1, AnswerIs
      <4> QED BY <4>1 DEF Ahead, Filling
    <3>2. CASE Load(t) \/ Insert(t) \/ Replace(t)
      <4>1. job'[t].at \notin {"fetch", "fetched"}
        BY <1>1, <3>2, AnswerIs, InsertGrows, OverIs
      <4> QED BY <1>6, <4>1 DEF Filling
    <3> QED BY <1>2, <2>3, <3>1, <3>2 DEF Backfill
  <2> QED BY <1>1, <1>2, <2>1, <2>2, <2>3, TaskMoves
<1>7. /\ reconnect' /\ (ws' = "up" => streaming')
      /\ \/ UNCHANGED wire /\ (streaming' => streaming)
         \/ \E c \in Candle : wire' = Append(wire, c) /\ (c.v = 0 \/ streaming)
         \/ LoopDetects /\ UNCHANGED streaming
         \/ OnCandle /\ UNCHANGED streaming
  BY <1>1, <1>2, <1>3, StreamMoves DEF Ahead
<1>8. Brings("loop", n)' \/ Shown(n)'
  <2>1. CASE Brings("loop", n)
    BY <1>1, <1>2, <2>1, BringsKept
  <2>2. CASE Shown(n) /\ ~Brings("loop", n)
    <3>1. CASE UNCHANGED wire /\ (streaming' => streaming)
      BY <2>2, <3>1, ShownSame
    <3>2. ASSUME NEW c \in Candle, wire' = Append(wire, c), c.v = 0 \/ streaming PROVE Shown(n)'
      BY <1>1, <2>2, <3>2, ShownSent
    <3>3. CASE LoopDetects
      <4>1. Detect("loop")
        BY <1>3, <3>3 DEF LoopDetects
      <4>2. /\ LastClosed(m1) \in Nat \cup {-1}
            /\ \/ LastClosed(m1) = -1 /\ job'["loop"].at = "load" /\ job'["loop"].to = now
               \/ /\ LastClosed(m1) \in Nat /\ LastClosed(m1) + 1 < now /\ job'["loop"].at = "fetch"
                  /\ job'["loop"].from = LastClosed(m1) + 1 /\ job'["loop"].to = now
               \/ LastClosed(m1) \in Nat /\ now <= LastClosed(m1) + 1 /\ job'["loop"].at = "idle"
        BY <1>1, <4>1, DetectIs
      <4>3. CASE job'["loop"].at = "load"
        BY <4>3 DEF Brings, Loading
      <4>4. CASE /\ LastClosed(m1) \in Nat /\ job'["loop"].at = "fetch"
                 /\ job'["loop"].from = LastClosed(m1) + 1 /\ job'["loop"].to = now
        <5>1. LastClosed(m1) + 1 <= n
          BY <1>5, <4>4
        <5> QED BY <1>1, <4>4, <5>1 DEF Brings, Filling
      <4>5. ~(LastClosed(m1) \in Nat /\ now <= LastClosed(m1) + 1)
        BY <1>1, <1>5
      <4> QED BY <4>2, <4>3, <4>4, <4>5
    <3>4. CASE OnCandle /\ UNCHANGED streaming
      <4>1. PICK h : h = Head(wire)
        OBVIOUS
      <4>2. h.v # 0 /\ wire # <<>> /\ wire' = Tail(wire) /\ Grows({h})
        BY <1>1, <3>4, <4>1, CandleGrows
      <4>3. h.t # n
        BY <3>4, <4>1, NotSeenTo
      <4> QED BY <1>1, <2>2, <3>4, <4>1, <4>2, <4>3, ShownRead
    <3> QED BY <1>7, <3>1, <3>2, <3>3, <3>4
  <2> QED BY <2>1, <2>2 DEF Ahead
<1> QED BY <1>4, <1>6, <1>7, <1>8 DEF Ahead

\* The gap detection's own request fails, and nothing has failed before: the cache is a line,
\* what is missing is behind its end, and the loop comes to it first.
LEMMA FailsAhead ==
  ASSUME Basic, Whole, Well, Spanned, RequestFails("timer"), NEW n \in Nat, Missing(n)'
  PROVE  Ahead(n)'
<1>1. /\ Typed /\ Opens /\ Lined /\ Begun /\ Jobs /\ Updates /\ Connects /\ Heads
      /\ now \in Nat /\ Start \in Nat /\ wire \in Seq(Candle) /\ "timer" \in Tasks /\ "loop" \in Tasks
  BY Facts DEF Basic, Whole, Tasks
<1>2. /\ UNCHANGED <<stream, clock, m1, wire>> /\ job'["timer"].at = "idle"
      /\ \A t \in Tasks : t # "timer" => job'[t] = job[t]
  BY <1>1, OverIs
<1>3. m1 # <<>> /\ n < now /\ n \notin seen
  BY <1>2 DEF Missing, clock, RequestFails
<1>4. Start <= End(m1) /\ End(m1) \in Nat /\ End(m1) < n
  <2>1. Start <= End(m1) /\ End(m1) \in Nat
    BY <1>1, <1>3, CachedAre DEF Lined
  <2>2. ~(n <= End(m1))
    BY <1>3, <2>1 DEF Spanned
  <2> QED BY <2>1, <2>2
<1>5. \A c \in Cached' : c.t < n
  <2>1. \A c \in Cached : c.t \in Nat /\ c.t <= End(m1)
    BY <1>1, CachedAre
  <2> QED BY <1>2, <1>4, <2>1 DEF Cached
<1>6. \A t \in Tasks : Filling(t) => job[t].from <= n
  <2>1. \A t \in Tasks : Filling(t) => job[t].from <= End(m1) + 1
    BY <1>1 DEF Jobs, Fills
  <2>2. \A t \in Tasks : job[t].from \in Nat
    BY <1>1, Facts
  <2> QED BY <1>4, <2>1, <2>2
<1>7. \A t \in Tasks : Filling(t)' => job'[t].from <= n
  BY <1>2, <1>6 DEF Filling
<1>8. ~(now <= Start + 1)
  BY <1>1, <1>3, <1>4
<1>9. reconnect /\ (ws = "up" => streaming)
  <2>1. ws # "off"
    BY <1>1, <1>3 DEF Begun, Opens, Entered
  <2> QED BY <1>1, <1>8, <2>1 DEF Connects, Opens
<1>10. reconnect' /\ (ws' = "up" => streaming')
  BY <1>2, <1>9 DEF stream, connection
<1>11. Brings("loop", n) \/ Shown(n)
  <2>1. ASSUME NEW k \in Nat, Reaches(k), now - 1 <= k PROVE Brings("loop", n) \/ k = n
    <3>1. CASE k <= End(m1) + 1
      BY <1>1, <1>3, <1>4, <2>1, <3>1
    <3>2. CASE Loading("loop")
      BY <3>2 DEF Brings
    <3>3. CASE Filling("loop") /\ k <= job["loop"].to
      <4>1. job["loop"].from <= n /\ job["loop"].to \in Nat
        BY <1>1, <1>6, <3>3, Facts
      <4>2. n < job["loop"].to \/ k = n
        BY <1>1, <1>3, <2>1, <3>3, <4>1
      <4> QED BY <3>3, <4>1, <4>2 DEF Brings
    <3> QED BY <1>3, <2>1, <3>1, <3>2, <3>3 DEF Reaches
  <2>2. CASE wire # <<>> /\ (Head(wire).v = 0 \/ Head(wire).t = n)
    <3>1. 1 \in DOMAIN wire /\ wire[1] = Head(wire) /\ \A i \in DOMAIN wire : i = 1 \/ 1 < i
      BY <1>1, <2>2, TailRows
    <3>2. \A i \in DOMAIN wire : wire[i].v # 0 /\ wire[i].t > n => 1 < i
      <4> SUFFICES ASSUME NEW i \in DOMAIN wire, wire[i].v # 0, wire[i].t > n, i = 1 PROVE FALSE
        BY <3>1
      <4> QED BY <2>2, <3>1
    <3> QED BY <2>2, <3>1, <3>2 DEF Shown
  <2>3. CASE wire # <<>> /\ Head(wire).v # 0
    <3>1. PICK h \in OnWire : h = Head(wire)
      BY <1>1, <2>3, TailRows DEF OnWire
    <3>2. h.t \in Nat /\ now - 1 <= h.t
      BY <1>1, <3>1, Facts DEF Updates, Update1
    <3>3. Due(h.t)
      BY <2>3, <3>1 DEF Due
    <3>4. Reaches(h.t)
      BY <1>1, <3>2, <3>3 DEF Heads, Ready
    <3>5. Brings("loop", n) \/ h.t = n
      BY <2>1, <3>2, <3>4
    <3> QED BY <2>2, <2>3, <3>1, <3>5
  <2>4. CASE wire = <<>>
    <3>1. CASE ~streaming
      BY <2>4, <3>1 DEF Shown
    <3>2. CASE streaming
      <4>1. Due(now)
        BY <1>1, <2>4, <3>2 DEF Connects, Due
      <4>2. Reaches(now)
        BY <1>1, <4>1 DEF Heads, Ready
      <4>3. Brings("loop", n) \/ now = n
        BY <1>1, <2>1, <4>2
      <4> QED BY <1>1, <1>3, <4>3
    <3> QED BY <3>1, <3>2
  <2> QED BY <2>2, <2>3, <2>4
<1>12. Brings("loop", n)' \/ Shown(n)'
  <2>1. job'["loop"] = job["loop"] /\ UNCHANGED <<wire, streaming>>
    BY <1>1, <1>2 DEF stream
  <2> QED BY <1>11, <2>1 DEF Brings, Loading, Filling, Shown
<1> QED BY <1>5, <1>7, <1>10, <1>12 DEF Ahead

-----------------------------------------------------------------------------
(* The theorems *)

\* Whatever is missing is about to be filled.
Covered == \A n \in Nat : Missing(n) => Watched(n) \/ (~MayFail /\ Ahead(n))

LEMMA StepCovered ==
  ASSUME MaxFaults <= 1, Well => Whole, Basic, SeenTo, Spanned, Covered, [Next]_vars
  PROVE  Covered'
<1> SUFFICES ASSUME NEW n \in Nat, Missing(n)' PROVE Watched(n)' \/ (~MayFail' /\ Ahead(n)')
  BY DEF Covered
<1>1. faults \in Nat /\ refusals \in Nat /\ MaxFaults \in Nat
  BY KlineAssumption, ConnectionAssumption
     DEF Basic, Typed, ClockTyped, ConnectionTyped, StreamTypeOK, ConnectionTypeOK
<1>2. CASE RequestFails("timer")
  <2>1. MayFail /\ faults' = faults + 1 /\ refusals' = refusals
    BY <1>2 DEF RequestFails, stream, connection
  <2>2. Well /\ ~MayFail'
    BY <1>1, <2>1 DEF MayFail, Well
  <2>3. Ahead(n)'
    BY <1>2, <2>2, FailsAhead
  <2> QED BY <2>2, <2>3
<1>3. CASE ~RequestFails("timer") /\ (Missing(n) => Watched(n))
  BY <1>3, WatchKept
<1>4. CASE Missing(n) /\ ~MayFail /\ Ahead(n)
  <2>1. UNCHANGED <<faults, refusals>>
    BY <1>4, NothingFails, OnlyFailuresCount
  <2>2. ~MayFail'
    BY <1>4, <2>1 DEF MayFail
  <2>3. Ahead(n)'
    BY <1>4, AheadKept
  <2> QED BY <2>2, <2>3
<1> QED BY <1>2, <1>3, <1>4 DEF Covered

\* Once everything is settled nothing is missing: the last closed candle is not behind it.
LEMMA SettledNone ==
  ASSUME Typed, Settled, NEW n \in Nat, Missing(n), Watched(n) \/ Ahead(n)
  PROVE  FALSE
<1>1. now \in Nat /\ n < now /\ ~Gap /\ "timer" \in Tasks /\ \A t \in Tasks : job[t].at = "idle"
  BY Facts DEF Settled, Tasks, Missing
<1>2. LastClosed(m1) \in Nat \cup {-1} /\ now <= LastClosed(m1) + 1
  <2>1. LastClosed(m1) \in Nat \cup {-1}
    BY Facts, LastClosedInt
  <2> QED BY <1>1, <2>1 DEF Gap
<1>3. PICK c \in Cached : c.closed /\ c.t = LastClosed(m1)
  <2>1. LastClosed(m1) # -1
    BY <1>1, <1>2
  <2> QED BY <2>1, LastClosedCached
<1>4. ~(c.t < n)
  BY <1>1, <1>2, <1>3
<1>5. ~Brings("timer", n)
  BY <1>1 DEF Brings, Loading, Filling
<1> QED BY <1>3, <1>4, <1>5 DEF Watched, Ahead

\* So everything that is over has been seen to, and is there, unless something has failed
\* and the buffer is full, when it may have been evicted.
LEMMA SettledContinuous ==
  ASSUME Typed, SeenTo, Settled, Well => Continuous, \A n \in Nat : Missing(n) => Watched(n) \/ Ahead(n)
  PROVE  Continuous
<1>1. m1 \in Seq(Candle) /\ m1 # <<>> /\ now \in Nat /\ Len(m1) <= MaxRows /\ MaxRows \in Nat
  BY Facts DEF Settled
<1>2. m1[1].t \in Nat
  <2>1. 1 \in DOMAIN m1
    BY <1>1
  <2> QED BY <1>1, <2>1, Item
<1> SUFFICES ASSUME ~Well, NEW n \in m1[1].t..(now - 1)
             PROVE  n \in Times(m1) \/ (Len(m1) = MaxRows /\ n \in seen)
  BY DEF Continuous, Evicts, Times
<1>3. n \in Nat /\ First(m1) <= n /\ n < now
  BY <1>1, <1>2 DEF First
<1>4. n \in seen
  BY <1>1, <1>3, SettledNone DEF Missing
<1>5. Below => n \in Times(m1)
  BY <1>1, <1>3, <1>4 DEF SeenTo
<1>6. ~Below => Len(m1) = MaxRows
  BY <1>1 DEF Below
<1> QED BY <1>4, <1>5, <1>6

\* With one failure at most, of whatever kind and whenever (Continuous): when
\* check_continuity reports no gap, although it looks at the last closed candle only, every
\* minute that is over has been seen to, and none is missing, unless something has failed
\* and the buffer is full, so that a minute may have been evicted out of order.  With two
\* failures one can be that nothing has seen to, when the second is the gap detection's own
\* request: TLC shows the hole.
THEOREM NoHoleStays == ASSUME MaxFaults <= 1, MaxRows >= 7 PROVE Spec => []Continuous
<1> DEFINE Inv == IInv /\ Basic /\ SeenTo /\ Spanned /\ Covered
<1>1. Init => Inv
  <2> SUFFICES ASSUME Init PROVE Spanned /\ Covered
    BY InitWhole, InitBasic, InitSeenTo
  <2> QED BY DEF Init, Spanned, Covered, Missing
<1>2. Inv /\ [Next]_vars => Inv'
  <2> SUFFICES ASSUME IInv, Basic, SeenTo, Spanned, Covered, [Next]_vars PROVE Inv'
    OBVIOUS
  <2>1. IInv' /\ Basic'
    BY StepWhole, StepBasic
  <2>2. SeenTo'
    BY <2>1, StepSeenTo
  <2>3. Spanned'
    BY <2>1, StepSpanned DEF IInv
  <2>4. Covered'
    BY StepCovered DEF IInv
  <2> QED BY <2>1, <2>2, <2>3, <2>4
<1>3. Inv => Continuous
  <2> SUFFICES ASSUME IInv, Basic, SeenTo, Covered, Settled PROVE Continuous
    BY DEF Continuous
  <2>1. Typed /\ (Well => Continuous)
    BY WholeContinuous DEF IInv, Basic
  <2> QED BY <2>1, SettledContinuous DEF Covered
<1> QED BY <1>1, <1>2, <1>3, PTL DEF Spec

\* However many failures there are, and whatever they are: as long as no request of the gap
\* detection itself fails, no minute stays missing (Continuous).
Looked == \A n \in Nat : Missing(n) => Watched(n)
THEOREM TimerFindsHoles ==
  ASSUME MaxRows >= 7 PROVE Init /\ [][Next /\ ~RequestFails("timer")]_vars => []Continuous
<1> DEFINE Inv == IInv /\ Basic /\ SeenTo /\ Looked
<1>1. Init => Inv
  <2> SUFFICES ASSUME Init PROVE Looked
    BY InitWhole, InitBasic, InitSeenTo
  <2> QED BY DEF Init, Looked, Missing
<1>2. Inv /\ [Next /\ ~RequestFails("timer")]_vars => Inv'
  <2> SUFFICES ASSUME IInv, Basic, SeenTo, Looked, [Next /\ ~RequestFails("timer")]_vars PROVE Inv'
    OBVIOUS
  <2>1. [Next]_vars
    OBVIOUS
  <2>2. IInv' /\ Basic'
    BY <2>1, StepWhole, StepBasic
  <2>3. SeenTo'
    BY <2>1, <2>2, StepSeenTo
  <2>4. Looked'
    <3>1. CASE ~RequestFails("timer")
      BY <2>1, <3>1, WatchKept DEF Looked
    <3>2. CASE UNCHANGED vars
      BY <3>2 DEF vars, clock, engine, Looked, Missing, Watched, Brings, Loading, Filling, Cached, Rows
    <3> QED BY <3>1, <3>2
  <2> QED BY <2>2, <2>3, <2>4
<1>3. Inv => Continuous
  <2> SUFFICES ASSUME IInv, Basic, SeenTo, Looked, Settled PROVE Continuous
    BY DEF Continuous
  <2>1. Typed /\ (Well => Continuous)
    BY WholeContinuous DEF IInv, Basic
  <2> QED BY <2>1, SettledContinuous DEF Looked
<1> QED BY <1>1, <1>2, <1>3, PTL
=============================================================================
