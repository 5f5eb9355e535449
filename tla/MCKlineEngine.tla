---------------------------- MODULE MCKlineEngine ----------------------------
(***************************************************************************)
(* The instance of KlineEngine for TLC, bounded by its constants,          *)
(* and two claims of the repository that do not hold: KL_higher.cfg and    *)
(* KL_oldest.cfg.                                                          *)
(***************************************************************************)
EXTENDS KlineEngine

\* "The higher timeframes are aggregated anew from all one-minute data, so that they
\* are consistent" (detect_and_backfill): a closed higher candle is made of all its
\* minutes, each counted once, although the stream and the backfill both write it.
HigherAgree ==
  Settled /\ Well =>
    \A i \in DOMAIN high :
      high[i].closed /\ high[i].t >= m1[1].t /\ After(high[i].t) => high[i].v = 2 * Group

\* "The oldest candle is evicted when the capacity is exceeded" (push_or_update): what
\* leaves the cache, other than by a first load, is older than everything that stays.
\* A backfill that comes late leaves the buffer out of order, and the buffer evicts its
\* first candle.
Stays(i) == \E j \in DOMAIN m1' : m1'[j].t = m1[i].t
OldestEvicted ==
  [][(\A t \in Tasks : ~Loaded(t)) =>
       \A i \in DOMAIN m1 : Stays(i) \/ \A j \in DOMAIN m1' : m1[i].t < m1'[j].t]_vars
=============================================================================
