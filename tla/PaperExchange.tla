---------------------------- MODULE PaperExchange ----------------------------
(***************************************************************************)
(* The simulated exchange of paper trading (virs-exchange, paper.rs,       *)
(* behind PaperModeExchange): positions, balance, resting limit orders and *)
(* the channel of order updates.                                           *)
(*                                                                         *)
(* Only the command loop of the position engine calls it, one call after   *)
(* the other; the feed loop only takes updates out of the channel.  A call *)
(* that fills orders stops at the channel when that is full, and the       *)
(* command loop with it.                                                   *)
(*                                                                         *)
(* One symbol.  Prices, quantities and money are integers; a position      *)
(* keeps its cost (entry price times quantity) in place of the entry price,*)
(* so that a share of it is rounded once.  Fees are reported and charged   *)
(* to nobody, as in the code.                                              *)
(***************************************************************************)
EXTENDS Integers, Sequences, FiniteSets

CONSTANTS
  Cids,       \* client order ids
  Sides,      \* position sides: "Long", "Short"
  Prices,     \* prices of the symbol
  Leverages,  \* leverages the bot may set
  Quantities, \* quantities of an order
  Initial,    \* the balance the real exchange reports at the start
  Capacity    \* capacity of the update channel (256 in the code)

ASSUME PaperAssumption ==
  /\ Sides \subseteq {"Long", "Short"}
  /\ Prices \subseteq Nat \ {0} /\ Leverages \subseteq Nat \ {0} /\ Quantities \subseteq Nat \ {0}
  /\ Initial \in Int /\ Capacity \in Nat \ {0}

VARIABLES
  xpos,      \* xpos[s]: the position of side s
  cash,      \* the balance
  lev,       \* configured_leverage of the symbol, 0 before set_leverage
  price,     \* last_prices of the symbol, 0 before the first tick
  resting,   \* the limit orders that wait for their price
  todo,      \* the triggered orders the current tick has still to fill
  outbox,    \* the update the command loop is sending
  chan,      \* updates the feed loop has not taken
  realized,  \* sum of the realized PnL reported in updates (history)
  flow       \* money received for what was sold less that paid for what was bought (history)

accounts == <<xpos, cash, realized, flow>>
xvars == <<accounts, lev, price, resting, todo, outbox, chan>>

Holding == [qty: Int, cost: Int]
Nothing == [qty |-> 0, cost |-> 0]
Order == [cid: Cids, side: Sides, kind: {"open", "close"}, qty: Int, limit: Prices \cup {0}]
Fill == [cid: Cids, side: Sides, kind: {"open", "close"}, qty: Int, price: Int]
NoFill == [cid |-> 0, side |-> "Long", kind |-> "open", qty |-> 0, price |-> 0]

XTypeOK ==
  /\ xpos \in [Sides -> Holding]
  /\ cash \in [free: Int, used: Int]
  /\ lev \in Leverages \cup {0}
  /\ price \in Nat
  /\ resting \subseteq Order /\ todo \subseteq Order
  /\ outbox \in Fill \cup {NoFill}
  /\ chan \in Seq(Fill)
  /\ realized \in Int /\ flow \in Int

Sign(s) == IF s = "Long" THEN 1 ELSE -1

\* What the trades that made the holdings have paid and received.
FlowOf(held) == (IF "Short" \in Sides THEN held["Short"].cost ELSE 0)
                - (IF "Long" \in Sides THEN held["Long"].cost ELSE 0)

XInit ==
  /\ xpos = [s \in Sides |-> Nothing]
  /\ cash = [free |-> Initial, used |-> 0]
  /\ lev = 0 /\ price = 0
  /\ resting = {} /\ todo = {} /\ outbox = NoFill /\ chan = <<>>
  /\ realized = 0 /\ flow = 0

-----------------------------------------------------------------------------
(* A fill *)

Lesser(a, b) == IF a < b THEN a ELSE b

\* The share of a holding's cost that n of its units have.
CostOf(h, n) == IF h.qty = 0 THEN 0 ELSE (h.cost * n) \div h.qty

Margin(o, p) == (p * o.qty) \div lev

\* How many units of its position a closing order closes.
Closed(o) == IF o.kind = "close" THEN Lesser(o.qty, xpos[o.side].qty) ELSE 0

Pnl(o, p) == Sign(o.side) * (p * Closed(o) - CostOf(xpos[o.side], Closed(o)))

\* Mutant of After: what is added to a position is not averaged into its price.
AfterKeepsPrice(h, o, p) ==
  IF h.qty = 0 THEN [qty |-> o.qty, cost |-> p * o.qty]
  ELSE IF o.kind = "open" THEN [qty |-> h.qty + o.qty, cost |-> h.cost + CostOf(h, o.qty)]
  ELSE IF h.qty <= o.qty THEN Nothing
  ELSE [qty |-> h.qty - o.qty, cost |-> h.cost - CostOf(h, o.qty)]

\* Where there is no position the fill makes one, whichever way the order goes.
After(h, o, p) ==
  IF h.qty = 0 THEN [qty |-> o.qty, cost |-> p * o.qty]
  ELSE IF o.kind = "open" THEN [qty |-> h.qty + o.qty, cost |-> h.cost + p * o.qty]
  ELSE IF h.qty <= o.qty THEN Nothing
  ELSE [qty |-> h.qty - o.qty, cost |-> h.cost - CostOf(h, o.qty)]

\* Mutant of CashAfter: a closing order releases its margin without looking at what is used.
CashAfterUncapped(o, p) ==
  LET m == IF o.kind = "open" THEN Margin(o, p) ELSE -Margin(o, p) IN
  [free |-> cash.free - m + Pnl(o, p), used |-> cash.used + m]

\* An opening order reserves margin; a closing one releases as much as it would reserve,
\* as far as there is any, and books the PnL.
CashAfter(o, p) ==
  IF o.kind = "open"
  THEN [free |-> cash.free - Margin(o, p), used |-> cash.used + Margin(o, p)]
  ELSE LET release == Lesser(Margin(o, p), cash.used) IN
       [free |-> cash.free + release + Pnl(o, p), used |-> cash.used - release]

\* update_position_on_fill
Executes(o, p) ==
  /\ xpos' = [xpos EXCEPT ![o.side] = After(@, o, p)]
  /\ cash' = CashAfter(o, p)
  /\ realized' = realized + Pnl(o, p)
  /\ flow' = flow + Sign(o.side) * p * (IF o.kind = "open" THEN -o.qty ELSE Closed(o))
  /\ outbox' = [cid |-> o.cid, side |-> o.side, kind |-> o.kind, qty |-> o.qty, price |-> p]

-----------------------------------------------------------------------------
(* The calls of the command loop *)

\* The command loop is not inside a call.
Idle == todo = {} /\ outbox = NoFill

\* place_order can take the order: a market order needs a price and a leverage.
Takes(o, l) == o.limit # 0 \/ (price # 0 /\ l # 0)

\* place_order: a market order is filled at the last price, a limit order rests.
Place(o) ==
  /\ Idle
  /\ Takes(o, lev)
  /\ \/ /\ o.limit = 0
        /\ Executes(o, price)
        /\ UNCHANGED resting
     \/ /\ o.limit # 0
        /\ resting' = resting \cup {o}
        /\ UNCHANGED <<accounts, outbox>>
  /\ UNCHANGED <<lev, price, todo, chan>>

\* set_leverage, which the real exchange has accepted before.
SetLeverage(l) ==
  /\ Idle
  /\ lev' = l
  /\ UNCHANGED <<accounts, price, resting, todo, outbox, chan>>

\* cancel_all_orders: no update is sent.
CancelAll ==
  /\ Idle
  /\ resting' = {}
  /\ UNCHANGED <<accounts, lev, price, todo, outbox, chan>>

\* Orders that buy wait for the price to come down to their limit, the others for it to rise.
Buys(o) == (o.side = "Long") = (o.kind = "open")
Triggered(p) == {o \in resting : IF Buys(o) THEN p <= o.limit ELSE p >= o.limit}

\* on_price_tick collects the triggered orders ...
Tick(p) ==
  /\ Idle
  /\ price' = p
  /\ todo' = Triggered(p)
  /\ UNCHANGED <<accounts, lev, resting, outbox, chan>>

\* ... and fills them one by one.
FillNext(o) ==
  /\ outbox = NoFill /\ o \in todo
  /\ lev # 0
  /\ todo' = todo \ {o}
  /\ resting' = resting \ {o}
  /\ Executes(o, price)
  /\ UNCHANGED <<lev, price, chan>>

\* Without a leverage the fill fails, and the order is gone without an update.
DropNext(o) ==
  /\ outbox = NoFill /\ o \in todo
  /\ lev = 0
  /\ todo' = todo \ {o}
  /\ resting' = resting \ {o}
  /\ UNCHANGED <<accounts, lev, price, outbox, chan>>

\* The update enters the channel, once there is room.
Send ==
  /\ outbox # NoFill
  /\ Len(chan) < Capacity
  /\ chan' = Append(chan, outbox)
  /\ outbox' = NoFill
  /\ UNCHANGED <<accounts, lev, price, resting, todo>>

\* The feed loop takes an update.
Take ==
  /\ chan # <<>>
  /\ chan' = Tail(chan)
  /\ UNCHANGED <<accounts, lev, price, resting, todo, outbox>>

\* The process ends; the exchange of the next one is given the holdings the engine has
\* recovered.  Leverage and margins start empty, the last price is an entry price.
Restore(held) ==
  /\ xpos' = held
  /\ cash' = [free |-> Initial, used |-> 0]
  /\ lev' = 0
  /\ LET open == {s \in Sides : held[s].qty > 0} IN
     IF open = {} THEN price' = 0
     ELSE \E s \in open : price' = held[s].cost \div held[s].qty
  /\ resting' = {} /\ todo' = {} /\ outbox' = NoFill /\ chan' = <<>>
  /\ realized' = 0 /\ flow' = FlowOf(held)

-----------------------------------------------------------------------------
(* Properties *)

\* The balance is the initial one and the PnL realized since: margin only moves between
\* its two parts, and no more of it is released than is used (update_position_on_fill).
Balanced == cash.free + cash.used = Initial + realized /\ cash.used >= 0

=============================================================================
