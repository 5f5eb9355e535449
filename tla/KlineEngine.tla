----------------------------- MODULE KlineEngine -----------------------------
(***************************************************************************)
(* The kline engine of virs (crates/services/virs-market): it keeps the    *)
(* latest one-minute candles of a symbol and the candles of the higher     *)
(* timeframes made from them, from the exchange's stream (MarketStream)    *)
(* and, where the stream has left a gap, from its REST interface.          *)
(*                                                                         *)
(* Three tasks fill the gaps of the same cache: the caller of              *)
(* subscribe_market, kline_ws_loop after a reconnect, and the periodic     *)
(* kline_gap_detection.  detect_and_backfill is cut where it gives up the  *)
(* cache's lock: it reads the last closed candle, waits for the exchange,  *)
(* inserts what came and computes the higher candles, and replaces them.   *)
(*                                                                         *)
(* One symbol; symbols share only the connection and the loop.  Minutes    *)
(* count time.  A candle is its minute, its volume (1 while the minute     *)
(* lasts, 2 when it is over) and the closed flag; one higher timeframe of  *)
(* Group minutes stands for the five, its volume is the sum it was built   *)
(* from.  Events sent to receivers and save_candles (it does nothing)      *)
(* leave no state behind and are left out.                                 *)
(***************************************************************************)
EXTENDS MarketStream, Sequences, SequencesExt

CONSTANTS
  Start,      \* the minute in which the process starts
  MaxMinute,  \* the last minute (model bound)
  Group,      \* minutes of a higher candle
  MaxRows,    \* candles kept and asked for at most (1000 in the code)
  MaxFaults   \* number of failing requests, of lost updates and of attempts to
              \* connect that fail, together (model bound)

ASSUME KlineAssumption ==
  /\ Start \in Nat /\ MaxMinute \in Nat /\ Start <= MaxMinute
  /\ Group \in Nat \ {0} /\ MaxRows \in Nat \ {0} /\ MaxFaults \in Nat

VARIABLES
  now,    \* the current minute
  since,  \* the minute in which the present attempt to connect began
  check,  \* kline_gap_detection has still to run in this minute
  call,   \* where the call of subscribe_market is
  m1,     \* the one-minute candles, oldest first unless inserted late
  high,   \* the higher candles
  wire,   \* updates of the stream on their way to kline_ws_loop
  job,    \* job[t]: where task t is in detect_and_backfill
  faults,
  half,   \* history: minutes a first load has taken before they were over
  seen    \* history: minutes seen to: those up to the first candle or the end of a first
          \* load, those an update was taken of, and those of a gap that was backfilled

clock == <<now, since, check>>
engine == <<call, m1, high, wire, job, faults, half, seen>>
vars == <<stream, clock, engine>>

Tasks == {"caller", "loop", "timer"}
Minutes == 0..MaxMinute
Candle == [t: Minutes, v: Nat, closed: BOOLEAN]
NoJob == [at |-> "idle", from |-> 0, to |-> 0, rows |-> <<>>, high |-> <<>>]
Entered == call \notin {"no", "started"}
JobState == [at: {"idle", "fetch", "load", "fetched", "loaded", "replace"},
             from: Nat, to: Nat, rows: Seq(Candle), high: Seq(Candle)]

TypeOK ==
  /\ StreamTypeOK
  /\ now \in Start..MaxMinute
  /\ call \in {"no", "started", "entered", "filling", "ok", "failed"}
  /\ m1 \in Seq(Candle) /\ high \in Seq(Candle) /\ Len(m1) <= MaxRows
  /\ wire \in Seq(Candle)
  /\ job \in [Tasks -> JobState]
  /\ since \in Minutes /\ check \in BOOLEAN
  /\ faults \in 0..MaxFaults /\ half \subseteq Minutes /\ seen \subseteq Minutes

Init ==
  /\ StreamInit
  /\ now = Start /\ call = "no"
  /\ m1 = <<>> /\ high = <<>> /\ wire = <<>>
  /\ job = [t \in Tasks |-> NoJob]
  /\ since = Start /\ check = FALSE
  /\ faults = 0 /\ half = {} /\ seen = {}

-----------------------------------------------------------------------------
(* The cache (cache.rs) and the aggregation (aggregator.rs) *)

MinOf(a, b) == IF a <= b THEN a ELSE b
MaxOf(a, b) == IF a >= b THEN a ELSE b
Newest(buf) == SubSeq(buf, MaxOf(1, Len(buf) - MaxRows + 1), Len(buf))

\* Mutants of PushOrUpdate: nothing is evicted; a candle that is not newer than the
\* last is dropped; a candle that is there already is kept as it is.
PushOrUpdateGrows(buf, c) ==
  IF buf # <<>> /\ Last(buf).t = c.t THEN [buf EXCEPT ![Len(buf)] = c] ELSE Append(buf, c)
PushOrUpdateDropsOld(buf, c) ==
  IF buf # <<>> /\ Last(buf).t = c.t THEN [buf EXCEPT ![Len(buf)] = c]
  ELSE IF buf # <<>> /\ c.t < Last(buf).t THEN buf ELSE Newest(Append(buf, c))
PushOrUpdateKeepsOld(buf, c) ==
  IF \E i \in DOMAIN buf : buf[i].t = c.t THEN buf ELSE Newest(Append(buf, c))

\* A candle replaces the one of its minute; one of a minute that is not there is
\* appended, also if it is older than the last.
PushOrUpdate(buf, c) ==
  LET i == SelectInSeq(buf, LAMBDA d : d.t = c.t)
  IN  IF buf # <<>> /\ Last(buf).t = c.t THEN [buf EXCEPT ![Len(buf)] = c]
      ELSE IF buf # <<>> /\ c.t < Last(buf).t /\ i # 0 THEN [buf EXCEPT ![i] = c]
      ELSE Newest(Append(buf, c))

CloseCandle(buf, t) ==
  LET i == SelectInSeq(buf, LAMBDA d : d.t = t)
  IN  IF i = 0 THEN buf ELSE [buf EXCEPT ![i].closed = TRUE]

\* The last closed candle by place, as its minute; -1 if there is none.
LastClosed(buf) ==
  LET i == SelectLastInSeq(buf, LAMBDA d : d.closed)
  IN  IF i = 0 THEN -1 ELSE buf[i].t

Align(t) == (t \div Group) * Group
IsLastOfGroup(t) == t = Align(t) + Group - 1
FromM1(c) == [t |-> Align(c.t), v |-> c.v, closed |-> IsLastOfGroup(c.t) /\ c.closed]

GroupVolume(buf, g) ==
  LET sum[i \in 0..Len(buf)] ==
        IF i = 0 THEN 0 ELSE sum[i - 1] + IF Align(buf[i].t) = g THEN buf[i].v ELSE 0
  IN  sum[Len(buf)]

\* aggregate_1m_to_timeframe: a run of candles of one group becomes one candle.
Joined(acc, c) ==
  IF acc # <<>> /\ Last(acc).t = Align(c.t)
  THEN [acc EXCEPT ![Len(acc)] = [t |-> @.t, v |-> @.v + c.v, closed |-> @.closed \/ FromM1(c).closed]]
  ELSE Append(acc, FromM1(c))
Aggregate(buf) ==
  LET acc[i \in 0..Len(buf)] == IF i = 0 THEN <<>> ELSE Joined(acc[i - 1], buf[i])
  IN  acc[Len(buf)]

\* The candles of the given minutes.
Of(buf, minutes) ==
  LET kept[i \in 0..Len(buf)] ==
        IF i = 0 THEN <<>>
        ELSE IF buf[i].t \in minutes THEN Append(kept[i - 1], buf[i]) ELSE kept[i - 1]
  IN  kept[Len(buf)]

\* The candles of the given minutes go in, one after the other.
Filled(buf, rows, minutes) ==
  LET x[i \in 0..Len(rows)] ==
        IF i = 0 THEN buf
        ELSE IF rows[i].t \in minutes THEN PushOrUpdate(x[i - 1], rows[i]) ELSE x[i - 1]
  IN  x[Len(rows)]

\* merge_into_timeframe: an update of the last group, a new group, or one too old.
Merge(buf, rows, c) ==
  IF buf # <<>> /\ Align(c.t) < Last(buf).t THEN buf
  ELSE IF buf # <<>> /\ Align(c.t) = Last(buf).t
       THEN [buf EXCEPT ![Len(buf)] = [FromM1(c) EXCEPT !.v = GroupVolume(rows, Align(c.t))]]
       ELSE Newest(Append(buf, FromM1(c)))

-----------------------------------------------------------------------------
(* The exchange *)

\* What the REST interface returns of a minute: the source marks every candle closed.
RestCandle(t) == [t |-> t, v |-> IF t < now THEN 2 ELSE 1, closed |-> TRUE]
RestCandles(from, to) == [i \in 1..(to - from + 1) |-> RestCandle(from + i - 1)]
RestHigh == Newest(Aggregate(RestCandles(0, now)))

\* A call of subscribe_market that is between two of its steps.
Calling ==
  \/ call \in {"started", "entered"}
  \/ call = "filling" /\ job["caller"].at = "idle"

\* Requests, attempts to connect and steps of a task take less than a minute:
\* what began before this minute is over before its end.  The gap detection runs
\* once a minute.
Prompt ==
  /\ \A t \in Tasks : job[t].at = "idle" \/ job[t].to = now
  /\ \A i \in DOMAIN wire : wire[i].t = now
  /\ ws = "connecting" => since = now
  /\ Calling => now = Start
  /\ ws = "up" => asked = 0
  /\ ~check

\* A minute is over: its closing update goes out on the connection there is.  After
\* MaxMinute the clock stands still, and the gap detection goes on.
Tick ==
  /\ call # "no" /\ Prompt
  /\ now' = MinOf(now + 1, MaxMinute) /\ check' = Entered
  /\ wire' = IF streaming /\ now' > now
             THEN Append(wire, [t |-> now, v |-> 2, closed |-> TRUE]) ELSE wire
  /\ UNCHANGED <<stream, since, call, m1, high, job, faults, half, seen>>

\* An update of the current minute; one is enough while the cache or the wire holds it.
Update ==
  LET c == [t |-> now, v |-> 1, closed |-> FALSE]
  IN  /\ streaming /\ ~Contains(m1 \o wire, c)
      /\ wire' = Append(wire, c)
      /\ UNCHANGED <<stream, clock, call, m1, high, job, faults, half, seen>>

-----------------------------------------------------------------------------
(* The connection *)

MayFail == faults + refusals < MaxFaults

Reconnect == [t |-> now, v |-> 0, closed |-> TRUE]

\* Mutant of Connect: a reconnect is not announced.
ConnectQuietly ==
  /\ Connected
  /\ UNCHANGED <<clock, engine>>

\* A reconnect is announced before anything the new connection carries.
Connect ==
  /\ Connected
  /\ wire' = IF reconnect THEN Append(wire, Reconnect) ELSE wire
  /\ UNCHANGED <<clock, call, m1, high, job, faults, half, seen>>

Command == SendCommand /\ UNCHANGED <<clock, engine>>
Disconnect == Disconnected /\ UNCHANGED <<clock, engine>>
Refuse == MayFail /\ Refused /\ UNCHANGED <<clock, engine>>
RetryConnect == Retry /\ since' = now /\ UNCHANGED <<now, check, engine>>

\* The loop lags behind by more than the channel holds: the oldest updates are lost.
Lag ==
  /\ wire # <<>> /\ MayFail
  /\ \E n \in 1..Len(wire) : wire' = SubSeq(wire, n + 1, Len(wire))
  /\ faults' = faults + 1
  /\ UNCHANGED <<stream, clock, call, m1, high, job, half, seen>>

-----------------------------------------------------------------------------
(* subscribe_market *)

StartEngine ==
  /\ call = "no" /\ StartStream
  /\ call' = "started" /\ since' = now
  /\ UNCHANGED <<now, check, m1, high, wire, job, faults, half, seen>>

\* The entry with its empty cache goes into the map before there is anything in it,
\* and the symbol is added to what every connection asks for.
Enter ==
  /\ call = "started" /\ Want
  /\ call' = "entered"
  /\ UNCHANGED <<clock, m1, high, wire, job, faults, half, seen>>

SubscribeNow ==
  /\ call = "entered" /\ Ask
  /\ call' = "filling"
  /\ UNCHANGED <<clock, m1, high, wire, job, faults, half, seen>>

\* A call that failed is made again: the entry is there, so it returns Ok at once.
CallAgain ==
  /\ call = "failed" /\ call' = "ok"
  /\ UNCHANGED <<stream, clock, m1, high, wire, job, faults, half, seen>>

-----------------------------------------------------------------------------
(* detect_and_backfill *)

Gap == LastClosed(m1) + 1 < now
Reported(ok) == IF ok THEN "ok" ELSE "failed"
Returns(t, ok) == call' = IF t = "caller" THEN Reported(ok) ELSE call

\* The last closed candle and the time are read; nothing closed is a first load.
Detect(t) ==
  /\ IF LastClosed(m1) = -1
     THEN job' = [job EXCEPT ![t] = [NoJob EXCEPT !.at = "load", !.to = now]] /\ UNCHANGED call
     ELSE IF Gap
     THEN /\ job' = [job EXCEPT ![t] = [NoJob EXCEPT !.at = "fetch", !.from = LastClosed(m1) + 1,
                                                     !.to = now]]
          /\ UNCHANGED call
     ELSE job' = [job EXCEPT ![t] = NoJob] /\ Returns(t, TRUE)
  /\ UNCHANGED <<stream, now, since, m1, high, faults, half, seen>>

\* The caller fills the cache it has entered.
CallerDetects ==
  /\ call = "filling" /\ job["caller"].at = "idle"
  /\ Detect("caller") /\ UNCHANGED <<check, wire>>

\* kline_ws_loop reads a reconnect, which concerns the symbol if its entry is there.
LoopDetects ==
  /\ wire # <<>> /\ Head(wire).v = 0 /\ job["loop"].at = "idle"
  /\ wire' = Tail(wire)
  /\ IF Entered THEN Detect("loop")
     ELSE UNCHANGED <<stream, now, since, call, m1, high, job, faults, half, seen>>
  /\ UNCHANGED check

\* kline_gap_detection, every minute: check_continuity, and if it reports a gap ...
TimerDetects ==
  /\ check /\ job["timer"].at = "idle"
  /\ check' = FALSE
  /\ Detect("timer") /\ UNCHANGED wire

\* The exchange answers with the first MaxRows candles of the gap ...
Fetch(t) ==
  /\ job[t].at = "fetch"
  /\ job' = [job EXCEPT ![t].at = "fetched",
               ![t].rows = RestCandles(job[t].from, MinOf(job[t].to, job[t].from + MaxRows) - 1)]
  /\ UNCHANGED <<stream, clock, call, m1, high, wire, faults, half, seen>>

\* ... or with the latest of every timeframe.
Load(t) ==
  /\ job[t].at = "load"
  /\ job' = [job EXCEPT ![t].at = "loaded", ![t].high = RestHigh,
               ![t].rows = RestCandles(MaxOf(0, now - MaxRows + 1), now)]
  /\ UNCHANGED <<stream, clock, call, m1, high, wire, faults, half, seen>>

\* A timeframe that cannot be loaded starts from the one-minute candles.
LoadPart(t) ==
  /\ job[t].at = "load" /\ MayFail
  /\ faults' = faults + 1
  /\ job' = [job EXCEPT ![t].at = "loaded",
               ![t].rows = RestCandles(MaxOf(0, now - MaxRows + 1), now)]
  /\ UNCHANGED <<stream, clock, call, m1, high, wire, half, seen>>

\* The request fails, and the backfill with it; or the exchange has nothing to answer for
\* the gap, which ends its backfill without an error.
RequestFails(t) ==
  /\ job[t].at \in {"fetch", "load"} /\ MayFail
  /\ faults' = faults + 1
  /\ job' = [job EXCEPT ![t] = NoJob]
  /\ Returns(t, FALSE) \/ (job[t].at = "fetch" /\ Returns(t, TRUE))
  /\ UNCHANGED <<stream, clock, m1, high, wire, half, seen>>

\* Mutant of Insert: the first minute of the gap is taken to be there.
InsertAfterFirst(t) ==
  LET filled == Filled(m1, job[t].rows, (job[t].from + 1)..(job[t].to - 1))
  IN  /\ job[t].at = "fetched"
      /\ m1' = filled
      /\ job' = [job EXCEPT ![t] = [NoJob EXCEPT !.at = "replace", !.to = job[t].to, !.high = Aggregate(filled)]]
      /\ seen' = seen \cup ((job[t].from + 1)..(job[t].to - 1))
      /\ UNCHANGED <<stream, clock, call, high, wire, faults, half>>

\* Under the lock: the candles of the gap go in, the higher candles are computed.
Insert(t) ==
  LET filled == Filled(m1, job[t].rows, job[t].from..(job[t].to - 1))
  IN  /\ job[t].at = "fetched"
      /\ m1' = filled
      /\ job' = [job EXCEPT ![t] = [NoJob EXCEPT !.at = "replace", !.to = job[t].to, !.high = Aggregate(filled)]]
      /\ seen' = seen \cup (job[t].from..(job[t].to - 1))
      /\ UNCHANGED <<stream, clock, call, high, wire, faults, half>>

\* Under the lock again: they replace the higher candles.
Replace(t) ==
  /\ job[t].at = "replace"
  /\ high' = Newest(job[t].high)
  /\ job' = [job EXCEPT ![t] = NoJob] /\ Returns(t, TRUE)
  /\ UNCHANGED <<stream, clock, m1, wire, faults, half, seen>>

\* initial_load, under the lock: all candles are replaced; the group the current
\* minute belongs to is made from the one-minute candles and is not closed.
Loaded(t) ==
  LET made == Aggregate(Of(job[t].rows, Align(now)..now))
      open == [Last(made) EXCEPT !.closed = FALSE]
      past == Of(job[t].high, 0..(open.t - 1))
  IN  /\ job[t].at = "loaded"
      /\ m1' = job[t].rows
      /\ high' = IF made # <<>> THEN Newest(Append(past, open))
                 ELSE IF job[t].high = <<>> THEN high ELSE job[t].high
      /\ job' = [job EXCEPT ![t] = NoJob] /\ Returns(t, TRUE)
      /\ half' = half \cup {c.t : c \in {c \in ToSet(job[t].rows) : c.v = 1}}
      /\ seen' = 0..Last(job[t].rows).t
      /\ UNCHANGED <<stream, clock, wire, faults>>

-----------------------------------------------------------------------------
(* kline_ws_loop reads a candle *)

OnCandle ==
  LET c == Head(wire)
      rows == PushOrUpdate(m1, c)
  IN  /\ wire # <<>> /\ c.v # 0 /\ job["loop"].at = "idle"
      /\ wire' = Tail(wire)
      /\ m1' = IF c.closed THEN CloseCandle(rows, c.t) ELSE rows
      /\ high' = Merge(high, rows, c)
      /\ seen' = IF m1 = <<>> THEN 0..c.t ELSE seen \cup {c.t}
      /\ UNCHANGED <<stream, clock, call, job, faults, half>>

Manager == Connect \/ Command \/ RetryConnect
Subscriber == Enter \/ SubscribeNow
Backfill(t) == Fetch(t) \/ Load(t) \/ Insert(t) \/ Replace(t) \/ Loaded(t)

Next ==
  \/ Tick \/ Update
  \/ Manager \/ Disconnect \/ Refuse \/ Lag
  \/ StartEngine \/ Subscriber \/ CallAgain
  \/ CallerDetects \/ LoopDetects \/ TimerDetects \/ OnCandle
  \/ \E t \in Tasks : Backfill(t) \/ LoadPart(t) \/ RequestFails(t)

Spec == Init /\ [][Next]_vars

\* Time passes, which takes all the tasks along (Prompt), ws_main goes on, and a call
\* that has begun does; and no connection has to last.
FairSpec == Spec /\ []<><<Tick>>_vars /\ WF_vars(Manager) /\ WF_vars(Subscriber)

-----------------------------------------------------------------------------
(* Properties *)

\* Nothing is on its way into the cache, and check_continuity reports no gap.
Settled ==
  /\ wire = <<>> /\ \A t \in Tasks : job[t].at = "idle"
  /\ m1 # <<>> /\ ~Gap

\* Minutes the stream and the gap detection answer for: those after the first load.
After(t) == \A u \in half : u < t

\* Connections may be lost, but no update is lost, no attempt to connect and no
\* request fails.
Well == faults = 0 /\ refusals = 0

\* "The continuity of every symbol is checked, a gap is filled" (engine.rs): the check
\* looks at the last closed candle only, and yet, when it reports no gap, no minute
\* that is over is missing from the first candle on.  (A buffer that is out of order
\* and full evicts by place, so that the oldest candle may stay and a newer one go: what
\* is missing then has been seen to before.)
Evicts == ~Well /\ Len(m1) = MaxRows
Continuous ==
  Settled =>
    \A t \in m1[1].t..(now - 1) : (\E i \in DOMAIN m1 : m1[i].t = t) \/ (Evicts /\ t \in seen)

\* A minute that is over has its final candle, whichever of the stream, the loop's and
\* the timer's backfill wrote it last, and in whatever order.
FinalCandles ==
  Settled /\ Well =>
    \A i \in DOMAIN m1 : m1[i].t < now /\ After(m1[i].t) => m1[i].v = 2

\* The cache is in the order of time as long as nothing fails: the backfill after a
\* reconnect is over before the first candle of the new connection.
Ordered == \A i, j \in DOMAIN m1 : i < j => m1[i].t < m1[j].t
OrderedWhenWell == Well => Ordered

\* A gap does not stay: the cache catches up with the clock.  (A cache that is out of
\* order may have to wait for the current minute to close, which the last one does not.)
CatchesUp == (Entered /\ Gap) ~> (~Gap \/ ~Ordered)

\* A symbol that has been subscribed is streamed again after every loss of the
\* connection, until the circuit breaker ends the task.
Streams == wanted ~> (streaming \/ ws = "broken")
=============================================================================
