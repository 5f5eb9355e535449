----------------------------- MODULE MCBotWorker -----------------------------
(***************************************************************************)
(* Instances of BotWorker for TLC, bounded by MaxOrders and MaxRestarts,   *)
(* and three claims that do not hold (BW_record.cfg, BW_held.cfg,           *)
(* BW_closed.cfg).                                                         *)
(***************************************************************************)
EXTENDS BotWorker

CONSTANT Short

\* The fill of a close "closes the trade record" (apply_pending_close): the record of
\* a position of the same side.  The worker that has read PositionClosed first no
\* longer knows which one it is.
RecordOfSide ==
  \A i \in DOMAIN closes : order[closes[i].open].side = order[closes[i].by].side

\* A position held too long "is closed by force, against the risk of holding for long"
\* (check_position_timeout): whatever the worker holds is timed.  The position of an
\* order that fills in part and is then canceled is not.
HeldIsTimed == AtRest => \A s \in Sides : Has(s) => side[s].openedAt

\* No record is closed twice, by whatever side: close_trade closes an open one and warns "No
\* open trade found for close" otherwise, but adds its row all the same.  The close that
\* took the record of the other side (RecordOfSide) is followed by that side's own.
ClosedOnce ==
  \A i, j \in DOMAIN closes : closes[i].open = closes[j].open => i = j
=============================================================================
