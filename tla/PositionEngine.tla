--------------------------- MODULE PositionEngine ---------------------------
(***************************************************************************)
(* The position engine of virs (crates/services/virs-position): it turns   *)
(* open, close and cancel commands into exchange orders and turns order    *)
(* updates of the exchange into positions and order events.                *)
(*                                                                         *)
(* Two tasks share the engine's concurrent maps and run in parallel on a   *)
(* multi-threaded runtime:                                                 *)
(*   "cmd"  command_loop: one command at a time, to the end of its handler *)
(*   "ws"   ws_feed_loop: one order update at a time                       *)
(* and the exchange answers both the REST calls of the first and feeds the *)
(* second.  A handler is cut into actions at its awaits, and also where    *)
(* two accesses to one order's entries leave a gap another task can enter  *)
(* (read of ws_order / remove from pending_orders / insert into orders).   *)
(* Accesses to a position and to its id index with no await between them   *)
(* are one action; the index is then redundant (a position's id is a hash  *)
(* of exchange, symbol and side) and is not a variable.                    *)
(*                                                                         *)
(* One exchange and one symbol: a side names a position.  Prices, fees and *)
(* PnL are abstracted away, quantities are integers, CANCELED, EXPIRED and *)
(* EXPIRED_IN_MATCH are one status ("Canceled"), and a persisted row is    *)
(* only the delay of writing it.                                           *)
(***************************************************************************)
EXTENDS Integers, Sequences

CONSTANTS
  Sides,           \* position sides, {Long, Short}
  Cids,            \* client order ids; every command with an order uses a fresh one
  NoCid,           \* the client order id of no order
  MaxQty,          \* largest amount of an opening order (model bound)
  Paper,           \* TRUE: the simulated exchange, FALSE: the Binance adapter
  Limits,          \* limit orders are sent: an order may rest before it trades
  RestMayTimeout,  \* a REST call may fail although the exchange takes the order
  LossyFeed        \* an update may be lost (reconnect) or unparsable

ASSUME CidsAssumption == NoCid \notin Cids
ASSUME MaxQtyAssumption == MaxQty \in Nat \ {0}
ASSUME EnvAssumption == {Paper, Limits, RestMayTimeout, LossyFeed} \subseteq BOOLEAN

Actors == {"cmd", "ws"}

VARIABLES
  positions,  \* positions[s]: the position of side s, or NoPosition
  info,       \* info[c]: the parameters order c was created with, or NoOrder
  pending,    \* pending_orders: REST reply and WS confirmation still being joined
  orders,     \* orders: the last stored update of a confirmed order, or NoUpdate
  orderPos,   \* order_position: confirmed orders with a known position
  cmd,        \* program counter and locals of command_loop
  ws,         \* program counter and locals of ws_feed_loop
  fin,        \* fin[a]: progress of actor a inside finalize_pending_order
  log,        \* log[c]: the events emitted for order c, in emission order
  rest,       \* rest[c]: the REST call of order c
  exch,       \* exch[c]: order c at the exchange
  feed,       \* the order update stream, oldest first
  seen,       \* history: orders an update of which the engine has matched
  forgotten   \* history: orders cancel_all dropped from pending_orders

engineVars == <<positions, info, pending, orders, orderPos, cmd, ws, fin, log, seen, forgotten>>
exchVars == <<rest, exch, feed>>
vars == <<positions, info, pending, orders, orderPos, cmd, ws, fin, log,
          rest, exch, feed, seen, forgotten>>

-----------------------------------------------------------------------------
(* Types *)

PosStatus == {"none", "Opening", "Open", "Closing"}
Position == [status: PosStatus, qty: Int]
NoPosition == [status |-> "none", qty |-> 0]
NewOpening == [status |-> "Opening", qty |-> 0]

Order == [side: Sides, close: BOOLEAN, amount: Int, sided: BOOLEAN]
NoOrder == [side |-> "none", close |-> FALSE, amount |-> 0, sided |-> FALSE]

Statuses == {"New", "PartiallyFilled", "Filled", "Canceled", "Unknown"}
Update == [cid: Cids, exec: {"New", "Trade", "Other"}, status: Statuses, filled: Int, last: Int]
NoUpdate == [cid |-> NoCid, exec |-> "Other", status |-> "Unknown", filled |-> 0, last |-> 0]

PendingOrder == [held: BOOLEAN, rest: BOOLEAN, ws: Update \cup {NoUpdate}]
NotPending == [held |-> FALSE, rest |-> FALSE, ws |-> NoUpdate]

OrderEvent == {"Placed", "Partial", "Filled", "Canceled", "Failed"}
ExchState == [st: {"none", "live", "done", "canceled", "rejected", "swallowed"}, filled: Int]

CmdState == [pc: {"idle", "leverage", "rest", "read", "cancel", "results"},
             cid: Cids \cup {NoCid}, todo: SUBSET Cids, closeAll: BOOLEAN]
WsState == [pc: {"idle", "guard", "fill", "stored"}, upd: Update \cup {NoUpdate},
            delta: Int, restReady: BOOLEAN]
FinState == [pc: {"none", "remove", "insert", "end"}, upd: Update \cup {NoUpdate}]

CmdIdle == cmd.pc = "idle" /\ fin["cmd"].pc = "none"
WsIdle == ws.pc = "idle" /\ fin["ws"].pc = "none"
cmdReady == [pc |-> "idle", cid |-> NoCid, todo |-> {}, closeAll |-> FALSE]
wsReady == [pc |-> "idle", upd |-> NoUpdate, delta |-> 0, restReady |-> FALSE]
notFinalizing == [pc |-> "none", upd |-> NoUpdate]

TypeOK ==
  /\ positions \in [Sides -> Position]
  /\ info \in [Cids -> Order \cup {NoOrder}]
  /\ pending \in [Cids -> PendingOrder]
  /\ orders \in [Cids -> Update \cup {NoUpdate}]
  /\ orderPos \subseteq Cids
  /\ cmd \in CmdState
  /\ ws \in WsState
  /\ fin \in [Actors -> FinState]
  /\ log \in [Cids -> Seq(OrderEvent)]
  /\ rest \in [Cids -> {"none", "called", "ok", "err"}]
  /\ exch \in [Cids -> ExchState]
  /\ feed \in Seq(Update)
  /\ seen \subseteq Cids
  /\ forgotten \subseteq Cids

Init ==
  /\ positions = [s \in Sides |-> NoPosition]
  /\ info = [c \in Cids |-> NoOrder]
  /\ pending = [c \in Cids |-> NotPending]
  /\ orders = [c \in Cids |-> NoUpdate]
  /\ orderPos = {}
  /\ cmd = cmdReady
  /\ ws = wsReady
  /\ fin = [a \in Actors |-> notFinalizing]
  /\ log = [c \in Cids |-> <<>>]
  /\ rest = [c \in Cids |-> "none"]
  /\ exch = [c \in Cids |-> [st |-> "none", filled |-> 0]]
  /\ feed = <<>>
  /\ seen = {}
  /\ forgotten = {}

-----------------------------------------------------------------------------
(* Operators of the position type *)

IsGhost(p) == p.status = "Opening" /\ p.qty = 0

\* A position whose quantity reaches zero is Closed and leaves the map.
ApplyFill(p, close, q) ==
  LET left == p.qty - q
  IN CASE ~close             -> [status |-> "Open", qty |-> p.qty + q]
       [] close /\ left # 0  -> [status |-> "Open", qty |-> left]
       [] close /\ left = 0  -> NoPosition

\* Mutants of RolledBack: the ghost is left behind, or Closing is taken for one.
RolledBackKeepsGhost(p) ==
  IF p.status = "Closing" THEN [p EXCEPT !.status = "Open"] ELSE p

RolledBackDropsClosing(p) ==
  IF p.status \in {"Opening", "Closing"} THEN NoPosition ELSE p

\* rollback_position_on_order_terminal, as a function of the position.
RolledBack(p) ==
  CASE IsGhost(p)                             -> NoPosition
    [] ~IsGhost(p) /\ p.status = "Closing"    -> [p EXCEPT !.status = "Open"]
    [] ~IsGhost(p) /\ p.status # "Closing"    -> p

Rollback(s) == positions' = [positions EXCEPT ![s] = RolledBack(@)]

Emit(c, e) == log' = [log EXCEPT ![c] = Append(@, e)]

\* ws_feed_loop keeps the entry of pending_orders locked while it persists the
\* update: the command task blocks on any access to that entry.
Guarded(c) == ws.pc = "guard" /\ ws.upd.cid = c

-----------------------------------------------------------------------------
(* command_loop *)

Fresh(c) == info[c] = NoOrder

\* handle_place_order up to its await: the order is pending, the REST call made.
PlaceOrder(c, order) ==
  /\ info' = [info EXCEPT ![c] = order]
  /\ pending' = [pending EXCEPT ![c] = [held |-> TRUE, rest |-> FALSE, ws |-> NoUpdate]]
  /\ rest' = [rest EXCEPT ![c] = "called"]
  /\ cmd' = [cmdReady EXCEPT !.pc = "rest", !.cid = c]

OpenOrder(s, q) == [side |-> s, close |-> FALSE, amount |-> q, sided |-> TRUE]

\* handle_open_position with a position on that side already: place the order.
OpenExisting(s, q, c) ==
  /\ CmdIdle /\ Fresh(c)
  /\ positions[s].status # "none"
  /\ PlaceOrder(c, OpenOrder(s, q))
  /\ UNCHANGED <<positions, orders, orderPos, ws, fin, log, exch, feed, seen, forgotten>>

\* handle_open_position with a leverage of 0 is refused.
OpenNoLeverage(s, q, c) ==
  /\ CmdIdle /\ Fresh(c)
  /\ positions[s].status = "none"
  /\ info' = [info EXCEPT ![c] = OpenOrder(s, q)]
  /\ Emit(c, "Failed")
  /\ UNCHANGED <<positions, pending, orders, orderPos, cmd, ws, fin, rest, exch, feed, seen, forgotten>>

\* handle_open_position up to the await of set_leverage.
OpenNew(s, q, c) ==
  /\ CmdIdle /\ Fresh(c)
  /\ positions[s].status = "none"
  /\ info' = [info EXCEPT ![c] = OpenOrder(s, q)]
  /\ cmd' = [cmdReady EXCEPT !.pc = "leverage", !.cid = c]
  /\ UNCHANGED <<positions, pending, orders, orderPos, ws, fin, log, rest, exch, feed, seen, forgotten>>

\* set_leverage failed (in paper mode too the real exchange is asked first).
LeverageFails ==
  /\ cmd.pc = "leverage"
  /\ Emit(cmd.cid, "Failed")
  /\ cmd' = cmdReady
  /\ UNCHANGED <<positions, info, pending, orders, orderPos, ws, fin, rest, exch, feed, seen, forgotten>>

\* The ghost Opening position is inserted before its order is sent.
LeverageSet ==
  /\ cmd.pc = "leverage"
  /\ positions' = [positions EXCEPT ![info[cmd.cid].side] = NewOpening]
  /\ PlaceOrder(cmd.cid, info[cmd.cid])
  /\ UNCHANGED <<orders, orderPos, ws, fin, log, exch, feed, seen, forgotten>>

\* handle_close_position: no such position, or one with no quantity.
CloseRefused(s, c) ==
  /\ CmdIdle /\ Fresh(c)
  /\ positions[s].qty = 0
  /\ info' = [info EXCEPT ![c] = [side |-> s, close |-> TRUE, amount |-> 0, sided |-> TRUE]]
  /\ Emit(c, "Failed")
  /\ UNCHANGED <<positions, pending, orders, orderPos, cmd, ws, fin, rest, exch, feed, seen, forgotten>>

\* Mutant of ClosePosition: the check for a zero quantity is missing.
ClosePositionUnchecked(s, c) ==
  /\ CmdIdle /\ Fresh(c)
  /\ positions[s].status # "none"
  /\ positions' = [positions EXCEPT ![s].status = "Closing"]
  /\ PlaceOrder(c, [side |-> s, close |-> TRUE, amount |-> positions[s].qty, sided |-> TRUE])
  /\ UNCHANGED <<orders, orderPos, ws, fin, log, exch, feed, seen, forgotten>>

\* handle_close_position: mark Closing, send an order for the whole quantity.
ClosePosition(s, c) ==
  /\ CmdIdle /\ Fresh(c)
  /\ positions[s].qty # 0
  /\ positions' = [positions EXCEPT ![s].status = "Closing"]
  /\ PlaceOrder(c, [side |-> s, close |-> TRUE, amount |-> positions[s].qty, sided |-> TRUE])
  /\ UNCHANGED <<orders, orderPos, ws, fin, log, exch, feed, seen, forgotten>>

\* PlaceOrder without a position id: the id is looked up, or a ghost inserted,
\* but position_side has been taken out of the parameters on the way.
PlaceWithoutId(s, close, q, c) ==
  /\ CmdIdle /\ Fresh(c)
  /\ positions' = [positions EXCEPT ![s] = IF @.status = "none" THEN NewOpening ELSE @]
  /\ PlaceOrder(c, [side |-> s, close |-> close, amount |-> q, sided |-> FALSE])
  /\ UNCHANGED <<orders, orderPos, ws, fin, log, exch, feed, seen, forgotten>>

\* place_order answered: rest_result is stored if the order is still pending.
RestOk ==
  LET c == cmd.cid
  IN /\ cmd.pc = "rest" /\ rest[c] = "ok"
     /\ ~Guarded(c)
     /\ pending' = [pending EXCEPT ![c].rest = pending[c].held]
     /\ cmd' = [cmd EXCEPT !.pc = "read"]
     /\ UNCHANGED <<positions, info, orders, orderPos, ws, fin, log, seen, forgotten, exchVars>>

\* Mutant of ReadWsOrder: only the feed finalizes.
ReadWsOrderNeverFinalizes ==
  /\ cmd.pc = "read"
  /\ ~Guarded(cmd.cid)
  /\ cmd' = cmdReady
  /\ UNCHANGED <<positions, info, pending, orders, orderPos, ws, fin, log, seen, forgotten, exchVars>>

\* ... then ws_order is read: an update that came first is finalized here.
ReadWsOrder ==
  LET u == pending[cmd.cid].ws
  IN /\ cmd.pc = "read"
     /\ ~Guarded(cmd.cid)
     /\ cmd' = cmdReady
     /\ fin' = [fin EXCEPT !["cmd"] = IF u = NoUpdate THEN @ ELSE [pc |-> "remove", upd |-> u]]
     /\ UNCHANGED <<positions, info, pending, orders, orderPos, ws, log, seen, forgotten, exchVars>>

\* place_order failed: forget the order, roll its position back, emit OrderFailed.
RestErr ==
  LET c == cmd.cid
  IN /\ cmd.pc = "rest" /\ rest[c] = "err"
     /\ ~Guarded(c)
     /\ pending' = [pending EXCEPT ![c] = NotPending]
     /\ Rollback(info[c].side)
     /\ Emit(c, "Failed")
     /\ cmd' = cmdReady
     /\ UNCHANGED <<info, orders, orderPos, ws, fin, seen, forgotten, exchVars>>

\* CancelAllOrders, and the first half of CloseAllPositions.
CancelAll(closeAll) ==
  /\ CmdIdle
  /\ cmd' = [cmdReady EXCEPT !.pc = "cancel", !.closeAll = closeAll]
  /\ UNCHANGED <<positions, info, pending, orders, orderPos, ws, fin, log, seen, forgotten, exchVars>>

\* One entry of the list of canceled orders the exchange returned.
CancelOne(c) ==
  /\ cmd.pc = "results" /\ c \in cmd.todo
  /\ cmd' = [cmd EXCEPT !.todo = @ \ {c}]
  /\ IF orders[c] # NoUpdate
     THEN /\ orders' = [orders EXCEPT ![c] = NoUpdate]
          /\ orderPos' = orderPos \ {c}
          /\ Emit(c, "Canceled")
          /\ UNCHANGED <<pending, forgotten>>
     ELSE /\ ~Guarded(c)
          /\ pending' = [pending EXCEPT ![c] = NotPending]
          /\ forgotten' = IF pending[c].held THEN forgotten \cup {c} ELSE forgotten
          /\ UNCHANGED <<orders, orderPos, log>>
  /\ IF c \in orderPos THEN Rollback(info[c].side) ELSE UNCHANGED positions
  /\ UNCHANGED <<info, ws, fin, seen, exchVars>>

\* End of the list.  CloseAllPositions then runs handle_close_position for every
\* position with a quantity, without a client order id: the position is marked
\* Closing, handle_place_order finds no id, rolls it back and emits OrderFailed
\* under a random id.
CancelDone ==
  /\ cmd.pc = "results" /\ cmd.todo = {}
  /\ positions' = [s \in Sides |->
                     IF cmd.closeAll /\ positions[s].qty > 0
                     THEN RolledBack([positions[s] EXCEPT !.status = "Closing"])
                     ELSE positions[s]]
  /\ cmd' = cmdReady
  /\ UNCHANGED <<info, pending, orders, orderPos, ws, fin, log, seen, forgotten, exchVars>>

-----------------------------------------------------------------------------
(* finalize_pending_order, run by either actor *)

\* The entry leaves pending_orders ...
FinalizeRemove(a) ==
  LET c == fin[a].upd.cid
  IN /\ fin[a].pc = "remove"
     /\ ~Guarded(c)
     /\ pending' = [pending EXCEPT ![c] = NotPending]
     /\ fin' = [fin EXCEPT ![a].pc = "insert"]
     /\ UNCHANGED <<positions, info, orders, orderPos, cmd, ws, log, seen, forgotten, exchVars>>

\* ... the update the actor holds enters orders, and is persisted ...
FinalizeInsert(a) ==
  LET c == fin[a].upd.cid
  IN /\ fin[a].pc = "insert"
     /\ orders' = [orders EXCEPT ![c] = fin[a].upd]
     /\ orderPos' = orderPos \cup {c}
     /\ fin' = [fin EXCEPT ![a].pc = "end"]
     /\ UNCHANGED <<positions, info, pending, cmd, ws, log, seen, forgotten, exchVars>>

\* ... and its status decides: a terminal order leaves the maps again.
FinalizeEnd(a) ==
  LET u == fin[a].upd
      c == u.cid
      drop == u.status \in {"Filled", "Canceled"}
  IN /\ fin[a].pc = "end"
     /\ orders' = IF drop THEN [orders EXCEPT ![c] = NoUpdate] ELSE orders
     /\ orderPos' = IF drop THEN orderPos \ {c} ELSE orderPos
     /\ \/ /\ u.status = "Canceled"
           /\ Emit(c, "Canceled") /\ Rollback(info[c].side)
        \/ /\ ~drop /\ u.exec = "New"
           /\ Emit(c, "Placed") /\ UNCHANGED positions
        \/ /\ u.status # "Canceled" /\ (drop \/ u.exec # "New")
           /\ UNCHANGED <<log, positions>>
     /\ fin' = [fin EXCEPT ![a] = notFinalizing]
     /\ UNCHANGED <<info, pending, cmd, ws, seen, forgotten, exchVars>>

-----------------------------------------------------------------------------
(* ws_feed_loop *)

\* Mutant of ProcessFill: every fill is reported as the last one.
ProcessFillAlwaysFinal(u, s, q, known) ==
  /\ Emit(u.cid, "Filled")
  /\ positions' = IF known /\ positions[s].status # "none"
                  THEN [positions EXCEPT ![s] = ApplyFill(@, info[u.cid].close, q)]
                  ELSE positions

\* process_order_fill: emit the fill; apply it if the position is still there.
ProcessFill(u, s, q, known) ==
  /\ Emit(u.cid, IF u.status = "Filled" THEN "Filled" ELSE "Partial")
  /\ positions' = IF known /\ positions[s].status # "none"
                  THEN [positions EXCEPT ![s] = ApplyFill(@, info[u.cid].close, q)]
                  ELSE positions

IsFill(u) == u.status \in {"Filled", "PartiallyFilled"}

\* An update for a pending order: lock the entry and persist.
TakePending ==
  LET u == Head(feed)
  IN /\ WsIdle /\ feed # <<>>
     /\ u.status # "Unknown" /\ pending[u.cid].held
     /\ ws' = [wsReady EXCEPT !.pc = "guard", !.upd = u]
     /\ feed' = Tail(feed)
     /\ UNCHANGED <<positions, info, pending, orders, orderPos, cmd, fin, log, rest, exch, seen, forgotten>>

\* Mutant of StorePending: any update finalizes, REST answered or not.
StorePendingIgnoresRest ==
  LET c == ws.upd.cid
  IN /\ ws.pc = "guard"
     /\ pending' = [pending EXCEPT ![c].ws = ws.upd]
     /\ ws' = [ws EXCEPT !.pc = "fill", !.restReady = TRUE]
     /\ seen' = seen \cup {c}
     /\ UNCHANGED <<positions, info, orders, orderPos, cmd, fin, log, forgotten, exchVars>>

\* Persisted: note whether REST has answered, store the update, unlock.
StorePending ==
  LET c == ws.upd.cid
  IN /\ ws.pc = "guard"
     /\ pending' = [pending EXCEPT ![c].ws = ws.upd]
     /\ ws' = [ws EXCEPT !.pc = "fill", !.restReady = pending[c].rest]
     /\ seen' = seen \cup {c}
     /\ UNCHANGED <<positions, info, orders, orderPos, cmd, fin, log, forgotten, exchVars>>

\* Apply the trade of the update (last_fill_qty); finalize if REST has answered.
FillPending ==
  LET u == ws.upd
  IN /\ ws.pc = "fill"
     /\ \/ /\ u.exec = "Trade" /\ IsFill(u) /\ u.last > 0
           /\ ProcessFill(u, info[u.cid].side, u.last, TRUE)
        \/ /\ ~(u.exec = "Trade" /\ IsFill(u) /\ u.last > 0)
           /\ UNCHANGED <<log, positions>>
     /\ fin' = [fin EXCEPT !["ws"] = IF ws.restReady THEN [pc |-> "remove", upd |-> u] ELSE @]
     /\ ws' = wsReady
     /\ UNCHANGED <<info, pending, orders, orderPos, cmd, seen, forgotten, exchVars>>

\* An update for a confirmed order: it replaces the stored one; the trade is
\* the difference of the cumulative quantities.  Then persist.
TakeConfirmed ==
  LET u == Head(feed)
      c == u.cid
  IN /\ WsIdle /\ feed # <<>>
     /\ u.status # "Unknown" /\ ~pending[c].held /\ orders[c] # NoUpdate
     /\ ws' = [wsReady EXCEPT !.pc = "stored", !.upd = u, !.delta = u.filled - orders[c].filled]
     /\ orders' = [orders EXCEPT ![c] = u]
     /\ feed' = Tail(feed)
     /\ seen' = seen \cup {c}
     /\ UNCHANGED <<positions, info, pending, orderPos, cmd, fin, log, rest, exch, forgotten>>

\* Persisted: apply the trade, and drop an order that has ended.
ApplyConfirmed ==
  LET u == ws.upd
      c == u.cid
      known == c \in orderPos
      canceled == u.status = "Canceled"
      ended == canceled \/ u.status = "Filled"
  IN /\ ws.pc = "stored"
     /\ \/ /\ ws.delta > 0 /\ IsFill(u)
           /\ ProcessFill(u, info[c].side, ws.delta, known)
        \/ /\ canceled
           /\ IF orders[c] # NoUpdate THEN Emit(c, "Canceled") ELSE UNCHANGED log
           /\ IF known THEN Rollback(info[c].side) ELSE UNCHANGED positions
        \/ /\ ~canceled /\ ~(ws.delta > 0 /\ IsFill(u))
           /\ UNCHANGED <<log, positions>>
     /\ orders' = IF ended THEN [orders EXCEPT ![c] = NoUpdate] ELSE orders
     /\ orderPos' = IF ended THEN orderPos \ {c} ELSE orderPos
     /\ ws' = wsReady
     /\ UNCHANGED <<info, pending, cmd, fin, seen, forgotten, exchVars>>

\* Invalid fields, or an order neither pending nor confirmed: ignored.
IgnoreUpdate ==
  LET u == Head(feed)
  IN /\ WsIdle /\ feed # <<>>
     /\ u.status = "Unknown" \/ (~pending[u.cid].held /\ orders[u.cid] = NoUpdate)
     /\ feed' = Tail(feed)
     /\ UNCHANGED <<engineVars, rest, exch>>

-----------------------------------------------------------------------------
(* The exchange: Binance, or the simulated exchange when Paper *)

Push(c, exec, status, filled, last) ==
  feed' = Append(feed, [cid |-> c, exec |-> exec, status |-> status,
                        filled |-> filled, last |-> last])

\* The simulated exchange fills whole orders, and looks at no amount: an order of
\* a negative one is filled with that amount.
FillWhole(c) ==
  /\ exch' = [exch EXCEPT ![c] = [st |-> "done", filled |-> info[c].amount]]
  /\ Push(c, "Trade", "Filled", info[c].amount, info[c].amount)

\* Takes an order in.  Binance wants a side and an amount, and announces the
\* order (NEW); the simulated exchange executes a market order, which needs a
\* side, before it replies, and keeps any limit order without a word.
ExchAccept(c) ==
  /\ rest[c] = "called" \/ (RestMayTimeout /\ rest[c] = "err")
  /\ exch[c].st = "none"
  /\ \/ /\ ~Paper /\ info[c].sided /\ info[c].amount > 0
        /\ exch' = [exch EXCEPT ![c].st = "live"]
        /\ Push(c, "New", "New", 0, 0)
     \/ /\ Paper /\ info[c].sided
        /\ FillWhole(c)
     \/ /\ Paper /\ Limits
        /\ exch' = [exch EXCEPT ![c].st = "live"]
        /\ UNCHANGED feed
  /\ UNCHANGED <<engineVars, rest>>

\* The reply of a call the exchange has taken ...
ExchReply(c) ==
  /\ rest[c] = "called" /\ exch[c].st \notin {"none", "rejected"}
  /\ rest' = [rest EXCEPT ![c] = "ok"]
  /\ UNCHANGED <<engineVars, exch, feed>>

\* ... and an error: a refusal, or a timeout that says nothing of the order.
ExchRefuse(c) ==
  /\ rest[c] = "called" /\ exch[c].st = "none"
  /\ rest' = [rest EXCEPT ![c] = "err"]
  /\ exch' = [exch EXCEPT ![c].st = "rejected"]
  /\ UNCHANGED <<engineVars, feed>>

RestTimeout(c) ==
  /\ RestMayTimeout /\ rest[c] = "called"
  /\ rest' = [rest EXCEPT ![c] = "err"]
  /\ UNCHANGED <<engineVars, exch, feed>>

\* A trade on Binance.
ExchTrade(c, q) ==
  LET filled == exch[c].filled + q
      all == filled = info[c].amount
  IN /\ ~Paper /\ exch[c].st = "live" /\ filled <= info[c].amount
     /\ exch' = [exch EXCEPT ![c] = [st |-> IF all THEN "done" ELSE "live", filled |-> filled]]
     /\ Push(c, "Trade", IF all THEN "Filled" ELSE "PartiallyFilled", filled, q)
     /\ UNCHANGED <<engineVars, rest>>

\* A limit order of the simulated exchange is triggered by a price tick that the
\* command loop hands it.  Without a position side, or a leverage of its symbol,
\* it vanishes: no update tells of it.
ExchTrigger(c) ==
  /\ Paper /\ CmdIdle /\ exch[c].st = "live"
  /\ \/ /\ info[c].sided
        /\ FillWhole(c)
     \/ /\ exch' = [exch EXCEPT ![c].st = "swallowed"]
        /\ UNCHANGED feed
  /\ UNCHANGED <<engineVars, rest>>

\* Binance ends an order by itself (expiry of a market or IOC remainder).
ExchExpire(c) ==
  /\ ~Paper /\ exch[c].st = "live"
  /\ exch' = [exch EXCEPT ![c].st = "canceled"]
  /\ Push(c, "Other", "Canceled", exch[c].filled, 0)
  /\ UNCHANGED <<engineVars, rest>>

\* cancel_all_orders: Binance cancels later and lists nothing, the cancellations
\* arriving as updates; the simulated exchange lists what it removed and sends
\* no update.  A failed call is only logged.
ExchCancelAll ==
  /\ cmd.pc = "cancel"
  /\ LET live == {c \in Cids : exch[c].st = "live"}
     IN \/ /\ Paper
           /\ cmd' = [cmd EXCEPT !.pc = "results", !.todo = live]
           /\ exch' = [c \in Cids |-> IF c \in live THEN [exch[c] EXCEPT !.st = "canceled"] ELSE exch[c]]
        \/ /\ ~Paper
           /\ cmd' = [cmd EXCEPT !.pc = "results", !.todo = {}]
           /\ UNCHANGED exch
  /\ UNCHANGED <<positions, info, pending, orders, orderPos, ws, fin, log, rest, feed, seen, forgotten>>

\* An update lost in a reconnect, or one whose fields the engine cannot parse.
FeedLoss ==
  /\ LossyFeed /\ feed # <<>>
  /\ \/ feed' = Tail(feed)
     \/ /\ Head(feed).status # "Unknown"
        /\ feed' = [feed EXCEPT ![1].status = "Unknown"]
  /\ UNCHANGED <<engineVars, rest, exch>>

-----------------------------------------------------------------------------

CmdNext ==
  \/ \E s \in Sides, q \in 1..MaxQty, c \in Cids :
       \/ OpenExisting(s, q, c) \/ OpenNoLeverage(s, q, c) \/ OpenNew(s, q, c)
       \/ \E close \in BOOLEAN : PlaceWithoutId(s, close, q, c)
  \/ \E s \in Sides, c \in Cids : CloseRefused(s, c) \/ ClosePosition(s, c)
  \/ \E all \in BOOLEAN : CancelAll(all)

CmdStep ==
  \/ LeverageFails \/ LeverageSet
  \/ RestOk \/ RestErr \/ ReadWsOrder
  \/ CancelDone \/ \E c \in Cids : CancelOne(c)

WsStep ==
  \/ TakePending \/ StorePending \/ FillPending
  \/ TakeConfirmed \/ ApplyConfirmed \/ IgnoreUpdate

Finalize(a) == FinalizeRemove(a) \/ FinalizeInsert(a) \/ FinalizeEnd(a)

ExchStep ==
  \/ ExchCancelAll \/ FeedLoss
  \/ \E c \in Cids :
       \/ ExchAccept(c) \/ ExchReply(c) \/ ExchRefuse(c) \/ RestTimeout(c)
       \/ ExchExpire(c) \/ ExchTrigger(c) \/ \E q \in 1..MaxQty : ExchTrade(c, q)

Next == CmdNext \/ CmdStep \/ WsStep \/ (\E a \in Actors : Finalize(a)) \/ ExchStep

Spec == Init /\ [][Next]_vars

\* Both loops and the finalizations run to the end of their handlers, and the
\* exchange decides on and answers every REST call (the client has a timeout).
Fairness ==
  /\ WF_vars(CmdStep) /\ WF_vars(WsStep) /\ WF_vars(ExchCancelAll)
  /\ \A a \in Actors : WF_vars(Finalize(a))
  /\ \A c \in Cids : WF_vars(ExchAccept(c) \/ ExchRefuse(c)) /\ WF_vars(ExchReply(c))

FairSpec == Spec /\ Fairness

-----------------------------------------------------------------------------
(* Properties *)

\* An order is confirmed (enters the orders map) only when the REST call has
\* succeeded and an update of it has arrived, whichever of the two tasks joins
\* them: the comment at the insertion into pending_orders.
DoubleConfirmation ==
  \A c \in Cids : orders[c] # NoUpdate => rest[c] = "ok" /\ c \in seen

\* The engine still has a record through which an event of order c reaches its
\* position: in one of the maps, in a finalization between them, or in the
\* handler of ws_feed_loop.
Watched(c) ==
  \/ pending[c].held
  \/ orders[c] # NoUpdate
  \/ ws.upd.cid = c
  \/ \E a \in Actors : fin[a].upd.cid = c

\* A position that only an order can move on: a ghost, or one that is Closing.
\* Repeated closes can make a quantity negative, and nothing waits for the close
\* order of such a position in paper mode: it is filled with a negative amount,
\* which ws_feed_loop does not process (OwnedWhateverQuantity, MCPositionEngine).
Waiting(p) == IsGhost(p) \/ (p.status = "Closing" /\ p.qty > 0)

\* A position that waits for an order (ghost Opening, or Closing with a quantity
\* to close) waits for one the engine still watches, unless cancel_all dropped
\* that order while it was pending.  Otherwise nothing would ever roll the
\* position back.
TransientOwned ==
  \A s \in Sides :
    Waiting(positions[s]) =>
      \E c \in Cids : info[c].side = s /\ (Watched(c) \/ c \in forgotten)

Emitted(c, e) == \E i \in DOMAIN log[c] : log[c][i] = e

\* What the engine tells its subscribers of an order's end is what happened at
\* the exchange, whatever the interleaving of REST reply, updates and cancels:
\* Filled orders are filled, Canceled ones canceled, and (when a REST error
\* means that the order was not taken) Failed ones never reached the book.
EventsTruthful ==
  \A c \in Cids :
    /\ Emitted(c, "Filled") => exch[c].st = "done"
    /\ Emitted(c, "Canceled") => exch[c].st = "canceled"
    /\ Emitted(c, "Failed") /\ ~RestMayTimeout => exch[c].st \in {"none", "rejected"}

\* What ws_feed_loop is about to apply to a position: the last fill of an update
\* of a pending order, the difference of the cumulative ones for a confirmed one.
Traded == IF ws.pc = "fill" THEN ws.upd.last ELSE ws.delta

\* A position leaves the map only as a ghost without quantity or through a
\* closing fill of exactly its quantity: no rollback discards executed quantity.
QuantityNotDropped ==
  [][\A s \in Sides :
       positions[s].qty # 0 /\ positions'[s].status = "none" =>
         /\ log' # log
         /\ ws.pc \in {"fill", "stored"} /\ Traded = positions[s].qty
         /\ \E c \in Cids : /\ info[c].side = s /\ info[c].close
                           /\ ws.upd.cid = c /\ IsFill(ws.upd)]_vars

\* The life cycle of PositionStatus: a position is born Opening, trades make it
\* Open, only Open or Closing positions become Closing, and Opening never
\* returns or turns into Closing.
LifeCycle ==
  {<<"none", "Opening">>, <<"Opening", "Open">>, <<"Opening", "none">>,
   <<"Open", "Closing">>, <<"Closing", "Open">>, <<"Open", "none">>, <<"Closing", "none">>}

StatusSteps ==
  [][\A s \in Sides : positions[s].status # positions'[s].status =>
       <<positions[s].status, positions'[s].status>> \in LifeCycle]_vars

\* Every command that names an order is answered by an event for it.  Workers
\* rely on it to leave their pending state before their timeout.
EveryOrderAnswered ==
  \A c \in Cids : info[c] # NoOrder ~> log[c] # <<>>

=============================================================================
