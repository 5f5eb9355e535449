---------------------------- MODULE PaperTrading -----------------------------
(***************************************************************************)
(* Paper trading over restarts: the simulated exchange, the position       *)
(* engine as far as fills go (virs-position), the trades it stores         *)
(* (virs-database, order_repo.rs) and the recovery of the positions from   *)
(* them when the process is started again.                                 *)
(*                                                                         *)
(* PositionEngine models how the command loop and the feed loop join an    *)
(* order; here an order is known to the engine from the command to the     *)
(* fill, and a fill is stored first and applied then.                      *)
(*                                                                         *)
(* The rows of pe_trades are in the order of their times, which is that of *)
(* the fills.  Trades of one position in the same millisecond are told     *)
(* apart by their ids; two positions of a side are further apart, since a  *)
(* bot decides in between.                                                 *)
(***************************************************************************)
EXTENDS PaperExchange, SequencesExt

CONSTANTS
  OneInFlight,  \* no opening order is sent while the engine still waits for an order
  MaxRestarts   \* number of restarts (model bound)

ASSUME TradingAssumption == /\ IsFiniteSet(Cids) /\ Cids = 1..Cardinality(Cids)
                            /\ OneInFlight \in BOOLEAN /\ MaxRestarts \in Nat

VARIABLES
  pos,      \* pos[s]: the engine's position
  cmd,      \* the order handle_place_order is to place
  known,    \* the orders the engine waits for
  feed,     \* the fill the feed loop has stored and not applied
  rows,     \* pe_trades
  sent,     \* number of orders so far
  restarts

evars == <<pos, cmd, known, feed, rows, sent, restarts>>
vars == <<xvars, evars>>

Position == [status: {"none", "Opening", "Open", "Closing"}, qty: Int, cost: Int]
NoPosition == [status |-> "none", qty |-> 0, cost |-> 0]
NoOrder == [cid |-> 0, side |-> "Long", kind |-> "open", qty |-> 0, limit |-> 0]

TypeOK ==
  /\ XTypeOK
  /\ pos \in [Sides -> Position]
  /\ cmd \in Order \cup {NoOrder}
  /\ known \subseteq Order
  /\ feed \in Fill \cup {NoFill}
  /\ rows \in Seq(Fill)
  /\ sent \in 0..Cardinality(Cids)
  /\ restarts \in 0..MaxRestarts

Init ==
  /\ XInit
  /\ pos = [s \in Sides |-> NoPosition]
  /\ cmd = NoOrder /\ known = {} /\ feed = NoFill
  /\ rows = <<>>
  /\ sent = 0 /\ restarts = 0

-----------------------------------------------------------------------------
(* Applying fills, now and at the recovery *)

\* Mutant of Applied: a position that is closed is kept.
AppliedKeepsClosed(x, f) ==
  IF f.kind = "open"
  THEN [status |-> "Open", qty |-> x.qty + f.qty, cost |-> x.cost + f.price * f.qty]
  ELSE [status |-> IF x.qty = f.qty THEN "Closed" ELSE "Open",
        qty |-> x.qty - f.qty, cost |-> x.cost - CostOf(x, f.qty)]

\* Position::apply_fill
Applied(x, f) ==
  IF f.kind = "open"
  THEN [status |-> "Open", qty |-> x.qty + f.qty, cost |-> x.cost + f.price * f.qty]
  ELSE IF x.qty = f.qty THEN NoPosition
  ELSE [status |-> "Open", qty |-> x.qty - f.qty, cost |-> x.cost - CostOf(x, f.qty)]

Signed(f, s) == IF f.side # s THEN 0 ELSE IF f.kind = "open" THEN f.qty ELSE -f.qty

\* running_qty of the rows r: what the rows of side s up to each of them add up to.
Running(r, s) ==
  LET sum[i \in 0..Len(r)] == IF i = 0 THEN 0 ELSE sum[i - 1] + Signed(r[i], s)
  IN sum

\* last_zero_time: the last row after which nothing was held.
LastZero(r, s) ==
  LET zeros == {i \in DOMAIN r : r[i].side = s /\ Running(r, s)[i] <= 0}
  IN IF zeros = {} THEN 0 ELSE CHOOSE i \in zeros : \A j \in zeros : j <= i

\* Mutant of Replay: every row of the side is replayed from the first on, and a closing
\* row never ends a position.
ReplayAll(r, s) ==
  FoldLeft(LAMBDA x, f : IF f.side # s THEN x
                         ELSE IF f.kind = "open" THEN Applied(x, f)
                         ELSE [x EXCEPT !.qty = @ - f.qty], NoPosition, r)

\* The position that row z is the last zero of, after each row.
Replayed(r, s, z) ==
  LET x[i \in 0..Len(r)] ==
        IF i <= z THEN NoPosition ELSE IF r[i].side = s THEN Applied(x[i - 1], r[i]) ELSE x[i - 1]
  IN x

\* get_positions_from_orders: the rows after the last zero are applied in turn.
Replay(r, s) ==
  LET x == Replayed(r, s, LastZero(r, s))[Len(r)]
  IN IF x.qty > 0 THEN x ELSE NoPosition

HoldingOf(x) == [qty |-> x.qty, cost |-> x.cost]

-----------------------------------------------------------------------------
(* The command loop *)

Ready == Idle /\ cmd = NoOrder
NewOrder(s, kind, q, limit) ==
  [cid |-> sent + 1, side |-> s, kind |-> kind, qty |-> q, limit |-> limit]

\* A worker sends an opening order when nothing is in flight, a closing one when nothing
\* of its side and no opening order is (OneInFlight of BotWorker).  There it counts what the
\* worker waits for; here an order that it has forgotten counts as long as the engine waits.
MayOpen == sent < Cardinality(Cids) /\ (OneInFlight => known = {})
MayClose(s) == /\ sent < Cardinality(Cids)
               /\ OneInFlight => \A o \in known : o.side # s /\ o.kind # "open"

Issue(o) == /\ cmd' = o
            /\ known' = known \cup {o}
            /\ sent' = sent + 1
            /\ UNCHANGED <<feed, rows, restarts>>

\* handle_open_position: a position that exists is added to, whatever the leverage; for
\* a new one the leverage is set first.
OpenMore(s, q, limit) ==
  /\ Ready /\ MayOpen /\ pos[s].status # "none"
  /\ Issue(NewOrder(s, "open", q, limit))
  /\ UNCHANGED <<xvars, pos>>
OpenNew(s, q, limit, l) ==
  /\ Ready /\ MayOpen /\ pos[s].status = "none"
  /\ SetLeverage(l)
  /\ pos' = [pos EXCEPT ![s].status = "Opening"]
  /\ Issue(NewOrder(s, "open", q, limit))

\* handle_close_position: the whole quantity.
Close(s, limit) ==
  /\ Ready /\ MayClose(s) /\ pos[s].qty > 0
  /\ pos' = [pos EXCEPT ![s].status = "Closing"]
  /\ Issue(NewOrder(s, "close", pos[s].qty, limit))
  /\ UNCHANGED xvars

\* rollback_position_on_order_terminal
RolledBack(x) == IF x.status = "Opening" /\ x.qty = 0 THEN NoPosition
                 ELSE IF x.status = "Closing" THEN [x EXCEPT !.status = "Open"]
                 ELSE x

\* handle_place_order: the exchange takes the order ...
PlaceOrder ==
  /\ cmd # NoOrder
  /\ Place(cmd)
  /\ cmd' = NoOrder
  /\ UNCHANGED <<pos, known, feed, rows, sent, restarts>>
\* ... or refuses it.
RefuseOrder ==
  /\ cmd # NoOrder /\ Idle /\ ~Takes(cmd, lev)
  /\ pos' = [pos EXCEPT ![cmd.side] = RolledBack(@)]
  /\ known' = known \ {cmd}
  /\ cmd' = NoOrder
  /\ UNCHANGED <<xvars, feed, rows, sent, restarts>>

\* handle_cancel_all_orders: a resting order is still pending in the engine, which drops
\* it and rolls nothing back.
CancelOrders ==
  /\ Ready /\ resting # {}
  /\ CancelAll
  /\ known' = known \ resting
  /\ UNCHANGED <<pos, cmd, feed, rows, sent, restarts>>

PriceTick(p) == /\ Ready /\ p # price
                /\ Tick(p)
                /\ UNCHANGED evars

FillTriggered == \E o \in todo : (FillNext(o) \/ DropNext(o)) /\ UNCHANGED evars
SendUpdate == Send /\ UNCHANGED evars

-----------------------------------------------------------------------------
(* The feed loop *)

OrderOf(f) == {o \in known : o.cid = f.cid}

\* Mutant of Persist: the feed loop waits for the command loop.
PersistWhenIdle ==
  LET f == Head(chan) IN
  /\ feed = NoFill /\ Idle
  /\ Take
  /\ IF OrderOf(f) # {} THEN feed' = f /\ rows' = Append(rows, f)
                        ELSE UNCHANGED <<feed, rows>>
  /\ UNCHANGED <<pos, cmd, known, sent, restarts>>

\* handle_ws_order_update: an update of a known order is stored before it is applied.
Persist ==
  LET f == Head(chan) IN
  /\ feed = NoFill
  /\ Take
  /\ IF OrderOf(f) # {} THEN feed' = f /\ rows' = Append(rows, f)
                        ELSE UNCHANGED <<feed, rows>>
  /\ UNCHANGED <<pos, cmd, known, sent, restarts>>

\* process_order_fill and the end of the order.  A position that is gone stays so.
Apply ==
  /\ feed # NoFill
  /\ pos' = [pos EXCEPT ![feed.side] = IF @.status = "none" THEN @ ELSE Applied(@, feed)]
  /\ known' = known \ OrderOf(feed)
  /\ feed' = NoFill
  /\ UNCHANGED <<xvars, cmd, rows, sent, restarts>>

-----------------------------------------------------------------------------
\* Mutant of Restart: the exchange is not given what was recovered.
RestartUnsynced ==
  /\ restarts < MaxRestarts
  /\ restarts' = restarts + 1
  /\ pos' = [s \in Sides |-> Replay(rows, s)]
  /\ Restore([s \in Sides |-> Nothing])
  /\ cmd' = NoOrder /\ known' = {} /\ feed' = NoFill
  /\ UNCHANGED <<rows, sent>>

\* The process ends at any point and starts again (recover_state).  No order of the
\* simulated exchange is active in the rows: it reports fills only.
Restart ==
  /\ restarts < MaxRestarts
  /\ restarts' = restarts + 1
  /\ pos' = [s \in Sides |-> Replay(rows, s)]
  /\ Restore([s \in Sides |-> HoldingOf(Replay(rows, s))])
  /\ cmd' = NoOrder /\ known' = {} /\ feed' = NoFill
  /\ UNCHANGED <<rows, sent>>

Limits == Prices \cup {0}
Commands ==
  \/ \E s \in Sides, q \in Quantities, limit \in Limits :
       \/ OpenMore(s, q, limit)
       \/ \E l \in Leverages : OpenNew(s, q, limit, l)
  \/ \E s \in Sides, limit \in Limits : Close(s, limit)
  \/ CancelOrders
  \/ \E p \in Prices : PriceTick(p)
Working == PlaceOrder \/ RefuseOrder \/ FillTriggered \/ SendUpdate \/ Persist \/ Apply
Next == Commands \/ Working \/ Restart

Spec == Init /\ [][Next]_vars

\* Both loops run on, and the database answers.
FairSpec == Spec /\ WF_vars(PlaceOrder \/ RefuseOrder \/ FillTriggered \/ SendUpdate)
                 /\ WF_vars(Persist \/ Apply)

-----------------------------------------------------------------------------
(* Properties *)

\* Nothing is under way between the exchange and the engine.
Settled == Idle /\ chan = <<>> /\ feed = NoFill

\* The engine holds what the exchange holds, after restarts too (recover_state restores
\* the positions at the exchange to keep the two consistent).
Agreement == Settled => \A s \in Sides : HoldingOf(pos[s]) = xpos[s]

\* The balance is what the trades since the start have paid and received, and the
\* positions at their entry price: no fill, partial close or restart makes money.
Equity == cash.free + cash.used = Initial + flow - FlowOf(xpos)

\* A market order is answered: the command loop is not left waiting at a full channel.
MarketOrdersEnd ==
  \A c \in Cids : (\E o \in known : o.cid = c /\ o.limit = 0) ~> ~\E o \in known : o.cid = c

\* A position as it is on record: with the trade that is stored and not yet applied.
Recorded == [s \in Sides |-> HoldingOf(IF feed # NoFill /\ feed.side = s THEN Applied(pos[s], feed)
                                       ELSE pos[s])]
\* The stored trades and the engine's positions implement positions that no restart changes.
\* An entry price lies between the prices of its trades.
Highest == CHOOSE p \in Prices : \A q \in Prices : q <= p
Durable == INSTANCE DurablePosition WITH held <- Recorded, Prices <- 1..Highest
PositionsDurable == Durable!Spec
=============================================================================
