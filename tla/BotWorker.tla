------------------------------ MODULE BotWorker ------------------------------
(***************************************************************************)
(* The worker of one chat bot (crates/services/virs-trading-bot, worker/): *)
(* a single task that turns decisions of the LLM and price ticks into open *)
(* and close commands, and keeps a per-side cache of the positions from    *)
(* the events of the position engine.                                      *)
(*                                                                         *)
(* Position events reach it directly, order events through a relay task:   *)
(* two FIFO queues that it may read in any interleaving.  Nothing else     *)
(* changes the worker's state, so a handler is one action, except that the *)
(* engine runs on between reading its positions and the LLM's answer.      *)
(*                                                                         *)
(* The position engine is an environment here: it takes commands from a    *)
(* FIFO, owns a position per side and emits the events of PositionEngine.  *)
(* Prices and sizes are abstracted: a stop or a timeout may trigger at any *)
(* tick. A position's id is a hash of exchange, symbol and side, so an id  *)
(* is known or not, and is never nil: close_position always sends          *)
(* ClosePosition. Analysis logs, prices, fees' amounts and PnL are left    *)
(* out; database writes, queries of the engine and sends into its channel  *)
(* succeed.                                                                *)
(***************************************************************************)
EXTENDS Integers, Sequences, FiniteSets

CONSTANTS
  Sides,        \* the sides the bot trades
  Long,         \* the side the worker handles first
  MaxOrders,    \* number of orders the bot may send (model bound)
  Amount,       \* units of an opening order; above 1 there are partial fills
  Timeouts,     \* a pending order may exceed pending_order_timeout_secs
  Ends,         \* an order may be canceled or expire at the exchange
  Lossy,        \* a broadcast queue may overflow: the worker lags
  MaxRestarts   \* number of times the bot is stopped and started (model bound)

ASSUME SidesAssumption == Long \in Sides /\ IsFiniteSet(Sides) /\ Cardinality(Sides) <= 2
ASSUME BoundsAssumption == MaxOrders \in Nat /\ Amount \in Nat \ {0} /\ MaxRestarts \in Nat
ASSUME SwitchesAssumption == {Timeouts, Ends, Lossy} \subseteq BOOLEAN

Cids == 1..MaxOrders
NoCid == 0

VARIABLES
  pc,        \* where the worker is
  side,      \* side[s]: the SideState of side s
  known,     \* known[s]: bot.position_id_long / _short is set (and persisted)
  trades,    \* bot.total_trades
  record,    \* record[c]: the trade record of opening order c
  closes,    \* the closing rows of the trade records, oldest first
  restarts,  \* number of stops so far
  sent,      \* number of orders sent so far; order ids are 1..sent
  order,     \* order[c]: what became of order c
  cmds,      \* commands the engine has not taken yet: the ids of their orders
  pe,        \* pe[s]: the engine's position
  applying,  \* the trade the engine has announced and not applied yet
  posq,      \* position events on their way to the worker
  ordq       \* order events on their way to the worker

books == <<trades, record, closes>>
workerVars == <<pc, side, known, books, restarts, sent>>
engineVars == <<pe, applying>>
vars == <<pc, side, known, trades, record, closes, restarts, sent, order, cmds, pe, applying, posq, ordq>>

-----------------------------------------------------------------------------
(* Types *)

Reasons == {"exit", "timeout", "llm", "external"}
SideState == [position: {"none", "Opening", "Open", "Closing", "Closed"},
              pendingOpen: Cids \cup {NoCid}, pendingClose: Cids \cup {NoCid},
              armed: BOOLEAN,     \* stop_loss and take_profit are set
              openedAt: BOOLEAN,  \* position_opened_at is set
              openFee: BOOLEAN,   \* open_fee is kept
              openCid: Cids \cup {NoCid}, lastClose: Reasons \cup {"none"},
              cooling: BOOLEAN]   \* the cooldown of the last close is running
Blank == [position |-> "none", pendingOpen |-> NoCid, pendingClose |-> NoCid, armed |-> FALSE,
          openedAt |-> FALSE, openFee |-> FALSE, openCid |-> NoCid, lastClose |-> "none",
          cooling |-> FALSE]

Order == [kind: {"none", "open", "close"}, side: Sides, reason: Reasons,
          st: {"none", "queued", "live", "filled", "failed", "canceled"}, left: Int,
          alone: BOOLEAN]   \* sent when nothing else was under way on its side (history)
NoOrder == [kind |-> "none", side |-> Long, reason |-> "llm", st |-> "none", left |-> 0,
            alone |-> TRUE]

TradeRecord == {"none", "open", "closed", "orphaned"}
CloseRow == [open: Cids, by: Cids]

PePosition == [status: {"none", "Opening", "Open", "Closing"}, qty: Int]
NoPosition == [status |-> "none", qty |-> 0]
NoTrade == [cid |-> NoCid, qty |-> 0]

PosEvent == [type: {"Opened", "Updated", "Closed"}, side: Sides,
             status: {"Opening", "Open", "Closing", "Closed"}]
OrdEvent == [type: {"Filled", "Failed", "Canceled"}, cid: Cids]

TypeOK ==
  /\ pc \in {"price", "wait", "begin", "ask", "llm", "main", "stopped"}
  /\ side \in [Sides -> SideState]
  /\ known \in [Sides -> BOOLEAN]
  /\ trades \in Nat
  /\ record \in [Cids -> TradeRecord]
  /\ closes \in Seq(CloseRow)
  /\ restarts \in 0..MaxRestarts
  /\ sent \in 0..MaxOrders
  /\ order \in [Cids -> Order]
  /\ cmds \in Seq(Cids)
  /\ pe \in [Sides -> PePosition]
  /\ applying \in [cid: Cids \cup {NoCid}, qty: Int]
  /\ posq \in Seq(PosEvent)
  /\ ordq \in Seq(OrdEvent)

Init ==
  /\ pc = "price"
  /\ side = [s \in Sides |-> Blank]
  /\ known = [s \in Sides |-> FALSE]
  /\ trades = 0
  /\ record = [c \in Cids |-> "none"]
  /\ closes = <<>>
  /\ restarts = 0
  /\ sent = 0
  /\ order = [c \in Cids |-> NoOrder]
  /\ cmds = <<>>
  /\ pe = [s \in Sides |-> NoPosition]
  /\ applying = NoTrade
  /\ posq = <<>>
  /\ ordq = <<>>

-----------------------------------------------------------------------------
(* The worker's state *)

Has(s) == side[s].position = "Open"
HasAny == \E s \in Sides : Has(s)
PendingOn(sd, s) == sd[s].pendingOpen # NoCid \/ sd[s].pendingClose # NoCid
IsPending(sd) == \E s \in Sides : PendingOn(sd, s)

\* Mutant of ClearPosition: position_opened_at is not reset.
ClearPositionKeepsTimer(x) == [x EXCEPT !.position = "none", !.armed = FALSE,
                                        !.openCid = NoCid, !.openFee = FALSE]

ClearPosition(x) == [x EXCEPT !.position = "none", !.armed = FALSE, !.openedAt = FALSE,
                              !.openCid = NoCid, !.openFee = FALSE]
ClearOnClose(x, reason) == [ClearPosition(x) EXCEPT !.lastClose = reason, !.cooling = TRUE]

\* Mutant of OpenRecords: the query does not look at the status.
OpenRecordsOfAnyStatus == {c \in Cids : record[c] # "none"}

\* find_open_trade: the newest open record of the bot, of whatever side.
OpenRecords == {c \in Cids : record[c] = "open"}
LatestOpen == IF OpenRecords = {} THEN NoCid
              ELSE CHOOSE c \in OpenRecords : \A d \in OpenRecords : d <= c

\* close_trade: a closing row is added even to a record that is not open any more.
CloseRecord(open, close) ==
  /\ record' = [record EXCEPT ![open] = IF @ = "open" THEN "closed" ELSE @]
  /\ closes' = Append(closes, [open |-> open, by |-> close])

\* refresh_position_from_pe: the cache becomes what the engine holds as Open;
\* ids are only ever added.
Refreshed(sd) == [s \in Sides |->
  [sd[s] EXCEPT !.position = IF pe[s].status = "Open" THEN "Open" ELSE "none"]]
KnownRefreshed == [s \in Sides |-> known[s] \/ pe[s].status = "Open"]

\* Closing the sides T, Long first: one command and one pending_close for each.
CloseId(s, T) == sent + (IF s = Long THEN 1 ELSE Cardinality(T))
WithClose(sd, T) ==
  [s \in Sides |-> IF s \in T THEN [sd[s] EXCEPT !.pendingClose = CloseId(s, T)] ELSE sd[s]]
SendClose(T, reason) ==
  /\ sent + Cardinality(T) <= MaxOrders
  /\ sent' = sent + Cardinality(T)
  /\ order' = [c \in Cids |->
       IF \E s \in T : c = CloseId(s, T)
       THEN [kind |-> "close", side |-> CHOOSE s \in T : c = CloseId(s, T),
             reason |-> reason, st |-> "queued", left |-> 0, alone |-> TRUE]
       ELSE order[c]]
  /\ cmds' = cmds \o [i \in 1..Cardinality(T) |-> sent + i]

-----------------------------------------------------------------------------
(* Start and recovery *)

\* The newest closing row tells the side and the reason of the last close; the
\* other side's is not restored.
RestoredClose(s) ==
  IF closes # <<>> /\ order[closes[Len(closes)].open].side = s
  THEN order[closes[Len(closes)].by].reason ELSE "none"

\* The first price: restore the last close (whose cooldown still runs on the sides
\* C), refresh, mark the newest open record orphaned when no id is known, else
\* restore its side's stop-loss, take-profit and opening time.
Boot(C) ==
  LET restored(s) == IF /\ \E t \in Sides : KnownRefreshed[t]
                        /\ LatestOpen # NoCid
                        /\ order[LatestOpen].side = s
                     THEN [Blank EXCEPT !.openCid = LatestOpen, !.armed = TRUE, !.openedAt = TRUE]
                     ELSE Blank
      sd == Refreshed([s \in Sides |-> [restored(s) EXCEPT
                                !.lastClose = RestoredClose(s), !.cooling = s \in C]])
  IN /\ pc = "price"
     /\ C \subseteq {s \in Sides : RestoredClose(s) # "none"}
     /\ side' = sd
     /\ known' = KnownRefreshed
     /\ record' = IF (\A s \in Sides : ~KnownRefreshed[s]) /\ LatestOpen # NoCid
                  THEN [record EXCEPT ![LatestOpen] = "orphaned"] ELSE record
     /\ pc' = IF (\E s \in Sides : KnownRefreshed[s]) /\ (\A s \in Sides : sd[s].position # "Open")
              THEN "wait" ELSE "begin"
     /\ UNCHANGED <<trades, closes, restarts, sent, order, cmds, engineVars, posq, ordq>>

\* An id is known and no position: wait for a position event, or give the ids up.
WaitOver ==
  /\ pc = "wait"
  /\ pc' = "begin"
  /\ \/ HasAny /\ UNCHANGED known
     \/ ~HasAny /\ known' = [s \in Sides |-> FALSE]
  /\ UNCHANGED <<side, books, restarts, sent, order, cmds, engineVars, posq, ordq>>

\* Time open positions from now on if nothing better is known; exits that are due
\* (P) come before the first decision.
Begin(P) ==
  LET timed == [s \in Sides |-> [side[s] EXCEPT !.openedAt = @ \/ Has(s)]]
  IN /\ pc = "begin"
     /\ P \subseteq {s \in Sides : Has(s) /\ side[s].armed}
     /\ pc' = IF P = {} THEN "ask" ELSE "main"
     /\ side' = WithClose(timed, P)
     /\ SendClose(P, "exit")
     /\ UNCHANGED <<known, books, restarts, engineVars, posq, ordq>>

\* Stopping takes effect in a select or, after five seconds, by aborting the task where it
\* awaits the LLM; the cut of a shorter await is left out.  The CancelAllOrders that
\* comes first ends orders as PeEnd may at any time.
StopWorker ==
  /\ pc \in {"price", "wait", "main", "llm"} /\ restarts < MaxRestarts
  /\ pc' = "stopped"
  /\ restarts' = restarts + 1
  /\ UNCHANGED <<side, known, books, sent, order, cmds, engineVars, posq, ordq>>

\* A new worker: new subscriptions, the persisted ids, nothing else.
StartWorker ==
  /\ pc = "stopped"
  /\ pc' = "price"
  /\ side' = [s \in Sides |-> Blank]
  /\ posq' = <<>> /\ ordq' = <<>>
  /\ UNCHANGED <<known, books, restarts, sent, order, cmds, engineVars>>

-----------------------------------------------------------------------------
(* Position events *)

TakePosEvent(type) ==
  /\ pc = "main" \/ (pc = "wait" /\ ~HasAny)
  /\ posq # <<>> /\ Head(posq).type = type
  /\ posq' = Tail(posq)
  /\ UNCHANGED <<pc, books, restarts, sent, order, cmds, engineVars, ordq>>

\* Mutant of OnPositionUpdated: a position that is neither cached nor persisted is
\* never the bot's.
OnPositionUpdatedOfKnown ==
  LET e == Head(posq)
      s == e.side
  IN /\ TakePosEvent("Updated")
     /\ IF side[s].position # "none" \/ known[s]
        THEN /\ side' = [side EXCEPT ![s].position = e.status]
             /\ known' = [known EXCEPT ![s] = TRUE]
        ELSE UNCHANGED <<side, known>>

OnPositionUpdated ==
  LET e == Head(posq)
      s == e.side
      ours == side[s].position # "none" \/ known[s] \/ e.status = "Open"
  IN /\ TakePosEvent("Updated")
     /\ IF ours
        THEN /\ side' = [side EXCEPT ![s].position = e.status]
             /\ known' = [known EXCEPT ![s] = TRUE]
        ELSE UNCHANGED <<side, known>>

OnPositionOpened ==
  LET s == Head(posq).side
  IN /\ TakePosEvent("Opened")
     /\ side' = [side EXCEPT ![s].position = Head(posq).status]
     /\ known' = [known EXCEPT ![s] = TRUE]

\* Mutant of OnPositionClosed: nothing of the side stays pending either.
OnPositionClosedClearsPending ==
  LET s == Head(posq).side
  IN /\ TakePosEvent("Closed")
     /\ IF side[s].position # "none" \/ known[s]
        THEN /\ side' = [side EXCEPT ![s] = [ClearOnClose(@, "external") EXCEPT
                                             !.pendingOpen = NoCid, !.pendingClose = NoCid]]
             /\ known' = [known EXCEPT ![s] = FALSE]
        ELSE UNCHANGED <<side, known>>

\* The worker takes every close for an external one: the side is cleared, the
\* id forgotten, the cooldown armed.  A pending order stays pending.
OnPositionClosed ==
  LET s == Head(posq).side
  IN /\ TakePosEvent("Closed")
     /\ IF side[s].position # "none" \/ known[s]
        THEN /\ side' = [side EXCEPT ![s] = ClearOnClose(@, "external")]
             /\ known' = [known EXCEPT ![s] = FALSE]
        ELSE UNCHANGED <<side, known>>

-----------------------------------------------------------------------------
(* Order events *)

TakeOrdEvent(types) ==
  /\ pc = "main"
  /\ ordq # <<>> /\ Head(ordq).type \in types
  /\ ordq' = Tail(ordq)
  /\ UNCHANGED <<pc, restarts, sent, order, cmds, engineVars, posq>>

\* apply_pending_open
OnOpenFilled(s) ==
  LET c == Head(ordq).cid
  IN /\ TakeOrdEvent({"Filled"})
     /\ side[s].pendingOpen = c
     /\ side' = [side EXCEPT ![s].pendingOpen = NoCid, ![s].armed = TRUE,
                             ![s].openedAt = TRUE, ![s].openFee = TRUE, ![s].openCid = c]
     /\ record' = [record EXCEPT ![c] = "open"]
     /\ UNCHANGED <<known, trades, closes>>

\* Mutant of OnCloseFilled: a losing trade is subtracted.
OnCloseFilledSubtracts(s) ==
  LET c == Head(ordq).cid
      opened == IF side[s].openCid # NoCid THEN side[s].openCid ELSE LatestOpen
  IN /\ TakeOrdEvent({"Filled"})
     /\ side[s].pendingClose = c
     /\ side' = [side EXCEPT ![s] =
                    [ClearOnClose(@, order[c].reason) EXCEPT !.pendingClose = NoCid]]
     /\ known' = [known EXCEPT ![s] = FALSE]
     /\ trades' = trades - 1
     /\ IF opened # NoCid THEN CloseRecord(opened, c) ELSE UNCHANGED <<record, closes>>

\* apply_pending_close: count the trade, clear the side, and close the trade
\* record of the side, or the newest open one of the bot when that is not known
\* (with none open the code adds a row of status orphaned, which nothing reads).
OnCloseFilled(s) ==
  LET c == Head(ordq).cid
      opened == IF side[s].openCid # NoCid THEN side[s].openCid ELSE LatestOpen
  IN /\ TakeOrdEvent({"Filled"})
     /\ side[s].pendingClose = c
     /\ side' = [side EXCEPT ![s] =
                    [ClearOnClose(@, order[c].reason) EXCEPT !.pendingClose = NoCid]]
     /\ known' = [known EXCEPT ![s] = FALSE]
     /\ trades' = trades + 1
     /\ IF opened # NoCid THEN CloseRecord(opened, c) ELSE UNCHANGED <<record, closes>>

\* Mutant of OnOrderEnded: the rollback clears the whole side.
OnOrderEndedClearsSide(s) ==
  LET c == Head(ordq).cid
  IN /\ TakeOrdEvent({"Failed", "Canceled"})
     /\ c \in {side[s].pendingOpen, side[s].pendingClose}
     /\ side' = [side EXCEPT ![s] =
                    [ClearPosition(@) EXCEPT !.pendingOpen = NoCid, !.pendingClose = NoCid]]
     /\ UNCHANGED <<known, books>>

\* OrderFailed and OrderCanceled roll back the pending order they name.
OnOrderEnded(s) ==
  LET c == Head(ordq).cid
  IN /\ TakeOrdEvent({"Failed", "Canceled"})
     /\ c \in {side[s].pendingOpen, side[s].pendingClose}
     /\ side' = [side EXCEPT ![s].pendingOpen = IF @ = c THEN NoCid ELSE @,
                             ![s].pendingClose = IF @ = c THEN NoCid ELSE @]
     /\ UNCHANGED <<known, books>>

\* An event of an order that is not pending (any more).
OnOrderUnmatched ==
  /\ TakeOrdEvent({"Filled", "Failed", "Canceled"})
  /\ \A s \in Sides : Head(ordq).cid \notin {side[s].pendingOpen, side[s].pendingClose}
  /\ UNCHANGED <<side, known, books>>

-----------------------------------------------------------------------------
(* Price ticks and decisions *)

\* Mutant of PriceTick: exits are checked although an order is pending.
PriceTickIgnoresPending(T, X, P) ==
  LET cleared == [s \in Sides |->
        IF s \in T THEN [side[s] EXCEPT !.pendingOpen = NoCid, !.pendingClose = NoCid] ELSE side[s]]
      due == IF X # {} THEN {s \in X : Has(s)} ELSE P
  IN /\ pc = "main"
     /\ T \subseteq {s \in Sides : PendingOn(side, s)} /\ (T # {} => Timeouts)
     /\ X \subseteq {s \in Sides : side[s].openedAt}
     /\ P \subseteq {s \in Sides : Has(s) /\ side[s].armed}
     /\ X \cup P # {} => HasAny
     /\ T # {} \/ due # {}
     /\ side' = WithClose(cleared, due)
     /\ SendClose(due, IF X # {} THEN "timeout" ELSE "exit")
     /\ UNCHANGED <<pc, known, books, restarts, engineVars, posq, ordq>>

\* Mutant of PriceTick: only opening orders time out.
PriceTickForgetsOpen(T, X, P) ==
  LET cleared == [s \in Sides |->
        IF s \in T THEN [side[s] EXCEPT !.pendingOpen = NoCid] ELSE side[s]]
  IN /\ pc = "main" /\ X = {} /\ P = {}
     /\ T # {} /\ T \subseteq {s \in Sides : side[s].pendingOpen # NoCid} /\ Timeouts
     /\ side' = cleared
     /\ UNCHANGED <<pc, known, books, restarts, sent, order, cmds, engineVars, posq, ordq>>

\* on_price_tick: forget the pending orders of the sides T that timed out; when
\* nothing is pending, close the positions held too long (X; a side may be timed
\* without holding one), or else those whose stop-loss or take-profit is hit (P).
PriceTick(T, X, P) ==
  LET cleared == [s \in Sides |->
        IF s \in T THEN [side[s] EXCEPT !.pendingOpen = NoCid, !.pendingClose = NoCid] ELSE side[s]]
      due == IF X # {} THEN {s \in X : Has(s)} ELSE P
  IN /\ pc = "main"
     /\ T \subseteq {s \in Sides : PendingOn(side, s)} /\ (T # {} => Timeouts)
     /\ X \subseteq {s \in Sides : side[s].openedAt}
     /\ P \subseteq {s \in Sides : Has(s) /\ side[s].armed}
     /\ X \cup P # {} => HasAny /\ ~IsPending(cleared)
     /\ T # {} \/ due # {}
     /\ side' = WithClose(cleared, due)
     /\ SendClose(due, IF X # {} THEN "timeout" ELSE "exit")
     /\ UNCHANGED <<pc, known, books, restarts, engineVars, posq, ordq>>

\* Mutant of LlmAsk: a decision is made although an order is pending.
LlmAskIgnoresPending ==
  /\ pc \in {"ask", "main"}
  /\ pc' = "llm"
  /\ side' = Refreshed(side)
  /\ known' = KnownRefreshed
  /\ UNCHANGED <<books, restarts, sent, order, cmds, engineVars, posq, ordq>>

\* on_llm_decision up to the LLM's answer.
LlmAsk ==
  /\ pc = "ask" \/ (pc = "main" /\ ~IsPending(side))
  /\ pc' = "llm"
  /\ side' = Refreshed(side)
  /\ known' = KnownRefreshed
  /\ UNCHANGED <<books, restarts, sent, order, cmds, engineVars, posq, ordq>>

\* A hold, an intercepted decision, or no answer at all.
DecideHold ==
  /\ pc = "llm"
  /\ pc' = "main"
  /\ UNCHANGED <<side, known, books, restarts, sent, order, cmds, engineVars, posq, ordq>>

\* The cooldown of a side takes 15 minutes at least: by its end the engine has
\* done and the worker has heard all that was under way when it began.
CooldownOver(s) ==
  /\ side[s].cooling
  /\ posq = <<>> /\ ordq = <<>> /\ applying = NoTrade /\ cmds = <<>>
  /\ side' = [side EXCEPT ![s].cooling = FALSE]
  /\ UNCHANGED <<pc, known, books, restarts, sent, order, cmds, engineVars, posq, ordq>>

Alone(s) ==
  /\ pe[s].status = "none"
  /\ applying = NoTrade \/ order[applying.cid].side # s
  /\ \A c \in Cids : order[c].side = s => order[c].st \notin {"queued", "live"}

DecideOpen(s) ==
  /\ pc = "llm" /\ ~Has(s) /\ ~side[s].cooling
  /\ sent < MaxOrders
  /\ sent' = sent + 1
  /\ order' = [order EXCEPT ![sent'] = [kind |-> "open", side |-> s, reason |-> "llm",
                                        st |-> "queued", left |-> Amount, alone |-> Alone(s)]]
  /\ cmds' = Append(cmds, sent')
  /\ side' = [side EXCEPT ![s].pendingOpen = sent']
  /\ pc' = "main"
  /\ UNCHANGED <<known, books, restarts, engineVars, posq, ordq>>

DecideClose ==
  LET held == {s \in Sides : Has(s)}
  IN /\ pc = "llm" /\ held # {}
     /\ side' = WithClose(side, held)
     /\ SendClose(held, "llm")
     /\ pc' = "main"
     /\ UNCHANGED <<known, books, restarts, engineVars, posq, ordq>>

-----------------------------------------------------------------------------
(* The position engine and the exchange behind it *)

\* Nobody is subscribed while the worker is stopped.
Tell(positionEvents, orderEvents) ==
  /\ posq' = IF pc = "stopped" THEN posq ELSE posq \o positionEvents
  /\ ordq' = IF pc = "stopped" THEN ordq ELSE ordq \o orderEvents

Event(type, s, status) == <<[type |-> type, side |-> s, status |-> status]>>
OrderEvent(type, c) == <<[type |-> type, cid |-> c]>>

Accepted(c) == order' = [order EXCEPT ![c].st = "live"]
Refused(c) == order' = [order EXCEPT ![c].st = "failed"]

PeOpen ==
  LET c == Head(cmds)
      s == order[c].side
  IN /\ cmds # <<>> /\ order[c].kind = "open"
     /\ cmds' = Tail(cmds)
     /\ \/ /\ pe[s].status = "none"
           /\ pe' = [pe EXCEPT ![s] = [status |-> "Opening", qty |-> 0]]
           /\ Tell(Event("Opened", s, "Opening") \o Event("Updated", s, "Opening"), <<>>)
           /\ Accepted(c)
        \/ /\ pe[s].status = "none"
           /\ Tell(<<>>, OrderEvent("Failed", c)) /\ Refused(c)
           /\ UNCHANGED pe
        \/ /\ pe[s].status # "none"
           /\ Accepted(c)
           /\ UNCHANGED <<pe, posq, ordq>>
     /\ UNCHANGED <<workerVars, applying>>

PeClose ==
  LET c == Head(cmds)
      s == order[c].side
  IN /\ cmds # <<>> /\ order[c].kind = "close"
     /\ cmds' = Tail(cmds)
     /\ \/ /\ pe[s].qty # 0
           /\ pe' = [pe EXCEPT ![s].status = "Closing"]
           /\ order' = [order EXCEPT ![c].st = "live", ![c].left = pe[s].qty]
           /\ Tell(Event("Updated", s, "Closing"), <<>>)
        \/ /\ pe[s].qty = 0
           /\ Tell(<<>>, OrderEvent("Failed", c)) /\ Refused(c)
           /\ UNCHANGED pe
     /\ UNCHANGED <<workerVars, applying>>

\* A trade is announced before it is applied to the position.
PeTrade(c, q) ==
  LET s == order[c].side
      all == q = order[c].left
  IN /\ order[c].st = "live" /\ applying = NoTrade
     /\ q <= order[c].left /\ (order[c].kind = "close" => q <= pe[s].qty)
     /\ order' = [order EXCEPT ![c].left = @ - q, ![c].st = IF all THEN "filled" ELSE @]
     /\ applying' = [cid |-> c, qty |-> q]
     /\ Tell(<<>>, IF all THEN OrderEvent("Filled", c) ELSE <<>>)
     /\ UNCHANGED <<workerVars, cmds, pe>>

PeApply ==
  LET c == applying.cid
      s == order[c].side
      left == pe[s].qty + (IF order[c].kind = "open" THEN applying.qty ELSE 0 - applying.qty)
  IN /\ applying # NoTrade
     /\ applying' = NoTrade
     /\ CASE pe[s].status = "none" -> UNCHANGED <<pe, posq, ordq>>
          [] pe[s].status # "none" /\ left # 0 ->
               /\ pe' = [pe EXCEPT ![s] = [status |-> "Open", qty |-> left]]
               /\ Tell(Event("Updated", s, "Open"), <<>>)
          [] pe[s].status # "none" /\ left = 0 ->
               /\ pe' = [pe EXCEPT ![s] = NoPosition]
               /\ Tell(Event("Closed", s, "Closed") \o Event("Updated", s, "Closed"), <<>>)
     /\ UNCHANGED <<workerVars, order, cmds>>

\* The end of an order without (further) trade rolls its position back: a ghost
\* goes without an event, a Closing position reopens.  A REST failure ends an
\* order that has not traded.
PeEnd(c, how) ==
  LET s == order[c].side
      ghost == pe[s].status = "Opening" /\ pe[s].qty = 0
      reopen == pe[s].status = "Closing"
  IN /\ order[c].st = "live"
     /\ how = "canceled" => Ends /\ applying = NoTrade
     /\ how = "failed" => applying.cid # c /\
          (order[c].kind = "open" => order[c].left = Amount)
     /\ order' = [order EXCEPT ![c].st = how]
     /\ pe' = CASE ghost -> [pe EXCEPT ![s] = NoPosition]
                [] reopen -> [pe EXCEPT ![s].status = "Open"]
                [] ~ghost /\ ~reopen -> pe
     /\ Tell(IF reopen THEN Event("Updated", s, "Open") ELSE <<>>,
             OrderEvent(IF how = "failed" THEN "Failed" ELSE "Canceled", c))
     /\ UNCHANGED <<workerVars, applying, cmds>>

\* The worker lags behind a broadcast queue and misses its oldest event.
Lag ==
  /\ Lossy
  /\ \/ posq # <<>> /\ posq' = Tail(posq) /\ UNCHANGED ordq
     \/ ordq # <<>> /\ ordq' = Tail(ordq) /\ UNCHANGED posq
  /\ UNCHANGED <<workerVars, order, cmds, engineVars>>

-----------------------------------------------------------------------------

Recovery ==
  \/ WaitOver \/ StartWorker
  \/ \E S \in SUBSET Sides : Boot(S) \/ Begin(S)

Events ==
  \/ OnPositionUpdated \/ OnPositionOpened \/ OnPositionClosed \/ OnOrderUnmatched
  \/ \E s \in Sides : OnOpenFilled(s) \/ OnCloseFilled(s) \/ OnOrderEnded(s)

Tick == \E T, X, P \in SUBSET Sides : PriceTick(T, X, P)

Decision == DecideHold \/ DecideClose \/ \E s \in Sides : DecideOpen(s)

Cooldown == \E s \in Sides : CooldownOver(s)

Engine ==
  \/ PeOpen \/ PeClose \/ PeApply
  \/ \E c \in Cids : \/ \E q \in 1..(Amount * MaxOrders) : PeTrade(c, q)
                     \/ \E how \in {"failed", "canceled"} : PeEnd(c, how)

Next == Recovery \/ StopWorker \/ Events \/ Tick \/ LlmAsk \/ Decision \/ Cooldown \/ Engine \/ Lag

Spec == Init /\ [][Next]_vars

\* The worker's loop goes on, prices keep coming and time passes: an order that
\* stays pending times out at some tick.
FairSpec ==
  /\ Spec
  /\ WF_vars(Recovery) /\ WF_vars(Events) /\ WF_vars(Decision)
  /\ WF_vars(\E T \in SUBSET Sides : T # {} /\ PriceTick(T, {}, {}))

-----------------------------------------------------------------------------
(* Properties *)

\* Everything the engine has said has been heard, and it has nothing left to do.
AtRest ==
  /\ pc = "main" /\ posq = <<>> /\ ordq = <<>> /\ applying = NoTrade /\ cmds = <<>>
  /\ \A c \in Cids : order[c].st # "live"

\* One thing at a time: while an opening order is pending on either side no other
\* order is, although ticks, decisions and recovery all send orders.
OneInFlight ==
  \A s, t \in Sides :
    side[s].pendingOpen # NoCid => side[t].pendingClose = NoCid /\ (s # t => side[t].pendingOpen = NoCid)

\* No opening order was sent while the engine held a position of its side or had
\* an order or a trade of it under way.
OnePerPosition == \A c \in Cids : order[c].alone

\* The engine never has two opening orders of a side to fill, although the worker
\* knows of an order's end from an event only.
NoDuplicateOpen ==
  \A c, d \in Cids :
    /\ order[c].kind = "open" /\ order[c].st \in {"queued", "live"}
    /\ order[d].kind = "open" /\ order[d].st \in {"queued", "live"}
    => c = d

\* Whatever the interleaving of the two event queues, of refreshes and of recovery,
\* the cache ends up telling an open position from none as the engine does, and
\* the persisted id goes with it.
CacheConverges ==
  AtRest /\ OnePerPosition =>
    \A s \in Sides : /\ Has(s) <=> pe[s].status = "Open"
                     /\ Has(s) => known[s]

\* An open position of the worker is watched: stop-loss, take-profit and the
\* longest holding time.  (A restarted worker restores them for one side: Boot.)
Protected ==
  AtRest /\ OnePerPosition /\ restarts = 0 => \A s \in Sides : Has(s) => side[s].armed /\ side[s].openedAt

\* Every filled order is in the books, in whatever order its events were read: an
\* opening has its record; a close is counted and has a closing row.  (What fills while
\* no worker runs is in no book.)
BooksBalance ==
  AtRest /\ OnePerPosition /\ restarts = 0 =>
    /\ trades = Cardinality({c \in Cids : order[c].kind = "close" /\ order[c].st = "filled"})
    /\ \A c \in Cids : order[c].st = "filled" =>
         IF order[c].kind = "open" THEN record[c] # "none" ELSE \E i \in DOMAIN closes : closes[i].by = c

\* Two closes of one side never share a trade record, although a position may go in
\* several closes and a record is looked up by recency when the worker has lost track of
\* it.  (A close of the other side may take the record too: ClosedOnce of MCBotWorker.)
ClosedOncePerSide ==
  \A i, j \in DOMAIN closes :
    /\ closes[i].open = closes[j].open
    /\ order[closes[i].by].side = order[closes[j].by].side
    => i = j

\* The stop-loss and take-profit of a held position are reached by a tick: no side
\* without position is still timed, which would end the tick before they are.  (Boot may
\* time a side whose position is gone.)
ExitsReached ==
  AtRest /\ OnePerPosition /\ restarts = 0 =>
    \A s, t \in Sides : Has(s) /\ side[s].armed /\ side[t].openedAt => Has(t)

\* Nothing stays pending for ever: the loss of an event or of an order costs the
\* worker its timeout.
PendingResolves == IsPending(side) ~> ~IsPending(side)

=============================================================================
