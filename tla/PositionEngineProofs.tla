------------------------ MODULE PositionEngineProofs ------------------------
(***************************************************************************)
(* Proofs about PositionEngine, for any sides, orders, quantities and      *)
(* environment.                                                            *)
(***************************************************************************)
EXTENDS PositionEngine, TLAPS

-----------------------------------------------------------------------------
(* Type correctness *)

\* TypeOK is not inductive: a handler in progress also holds a real update (or a
\* real order id), which the types of its locals alone do not say.
Locals ==
  /\ cmd.pc \in {"leverage", "rest", "read"} => cmd.cid \in Cids
  /\ ws.pc # "idle" => ws.upd \in Update
  /\ \A a \in Actors : fin[a].pc # "none" => fin[a].upd \in Update

TypeInv == TypeOK /\ Locals

\* The sentinel of no update is told from every update by its order id.
LEMMA NoUpdateIsNone == NoUpdate \notin Update
  BY CidsAssumption DEF NoUpdate, Update

\* Rolling back and filling make positions of positions.
LEMMA PositionTyped ==
  ASSUME NEW p \in Position
  PROVE  /\ RolledBack(p) \in Position
         /\ \A close \in BOOLEAN, q \in Int : ApplyFill(p, close, q) \in Position
<1>1. NoPosition \in Position
  BY DEF NoPosition, Position, PosStatus
<1>2. [p EXCEPT !.status = "Open"] \in Position
  BY DEF Position, PosStatus
<1>3. RolledBack(p) \in Position
  BY <1>1, <1>2 DEF RolledBack
<1>4. ASSUME NEW close \in BOOLEAN, NEW q \in Int
      PROVE  ApplyFill(p, close, q) \in Position
  <2>1. /\ [status |-> "Open", qty |-> p.qty + q] \in Position
        /\ [status |-> "Open", qty |-> p.qty - q] \in Position
    BY DEF Position, PosStatus
  <2> QED
    BY <1>1, <2>1 DEF ApplyFill
<1> QED
  BY <1>3, <1>4

\* Rolling a side back keeps the positions typed.
LEMMA RollbackTyped ==
  ASSUME positions \in [Sides -> Position], NEW s, Rollback(s)
  PROVE  positions' \in [Sides -> Position]
  BY PositionTyped DEF Rollback

\* The fields of an order or update, the sentinels included.
LEMMA FieldsTyped ==
  /\ \A o \in Order \cup {NoOrder} : o.close \in BOOLEAN /\ o.amount \in Int
  /\ \A u \in Update \cup {NoUpdate} : u.filled \in Int
<1>1. NoOrder.close \in BOOLEAN /\ NoOrder.amount \in Int /\ NoUpdate.filled \in Int
  BY DEF NoOrder, NoUpdate
<1>2. ASSUME NEW o \in Order PROVE o.close \in BOOLEAN /\ o.amount \in Int
  BY DEF Order
<1>3. ASSUME NEW u \in Update PROVE u.filled \in Int
  BY DEF Update
<1> QED
  BY <1>1, <1>2, <1>3

\* Emitting an event keeps the logs typed, whoever it is emitted for.
LEMMA EmitTyped ==
  ASSUME log \in [Cids -> Seq(OrderEvent)], NEW c, NEW e \in OrderEvent, Emit(c, e)
  PROVE  log' \in [Cids -> Seq(OrderEvent)]
<1>1. c \in Cids => Append(log[c], e) \in Seq(OrderEvent)
  OBVIOUS
<1> QED
  BY <1>1 DEF Emit

\* A typed update keeps the feed typed.
LEMMA PushTyped ==
  ASSUME feed \in Seq(Update), NEW c \in Cids, NEW exec \in {"New", "Trade", "Other"},
         NEW status \in Statuses, NEW filled \in Int, NEW last \in Int,
         Push(c, exec, status, filled, last)
  PROVE  feed' \in Seq(Update)
<1>1. [cid |-> c, exec |-> exec, status |-> status, filled |-> filled, last |-> last] \in Update
  BY DEF Update
<1> QED
  BY <1>1 DEF Push

\* The locals of an idle handler, and an order not pending, are typed.
LEMMA ReadyTyped ==
  /\ cmdReady \in CmdState /\ wsReady \in WsState /\ notFinalizing \in FinState
  /\ NotPending \in PendingOrder
  BY DEF cmdReady, wsReady, notFinalizing, NotPending, CmdState, WsState, FinState, PendingOrder

\* Placing an order makes it pending and leaves the command task waiting for it.
LEMMA PlaceOrderTyped ==
  ASSUME TypeInv, NEW c \in Cids, NEW order \in Order \cup {NoOrder}, PlaceOrder(c, order)
  PROVE  /\ info' \in [Cids -> Order \cup {NoOrder}]
         /\ pending' \in [Cids -> PendingOrder]
         /\ rest' \in [Cids -> {"none", "called", "ok", "err"}]
         /\ cmd' \in CmdState /\ cmd'.cid \in Cids
<1>1. [held |-> TRUE, rest |-> FALSE, ws |-> NoUpdate] \in PendingOrder
  BY DEF PendingOrder
<1>2. [cmdReady EXCEPT !.pc = "rest", !.cid = c] \in CmdState
  BY DEF cmdReady, CmdState
<1> QED
  BY <1>1, <1>2 DEF PlaceOrder, TypeInv, TypeOK, cmdReady

\* An opening order is an order.
LEMMA OpenOrderTyped ==
  ASSUME NEW s \in Sides, NEW q \in 1..MaxQty
  PROVE  OpenOrder(s, q) \in Order
  BY MaxQtyAssumption DEF OpenOrder, Order

\* A ghost is a position.
LEMMA NewOpeningTyped == NewOpening \in Position
  BY DEF NewOpening, Position, PosStatus

\* The next update is typed, and taking, losing or corrupting it keeps the feed typed.
LEMMA FeedTyped ==
  ASSUME feed \in Seq(Update), feed # <<>>
  PROVE  /\ Head(feed) \in Update /\ Tail(feed) \in Seq(Update)
         /\ [feed EXCEPT ![1].status = "Unknown"] \in Seq(Update)
<1>1. feed[1] \in Update
  OBVIOUS
<1>2. [feed[1] EXCEPT !.status = "Unknown"] \in Update
  BY <1>1 DEF Update, Statuses
<1> QED
  BY <1>1, <1>2

\* Processing a fill keeps positions and logs typed.
LEMMA FillTyped ==
  ASSUME TypeInv, NEW u \in Update, NEW q \in Int, NEW known \in BOOLEAN,
         ProcessFill(u, info[u.cid].side, q, known)
  PROVE  /\ positions' \in [Sides -> Position]
         /\ log' \in [Cids -> Seq(OrderEvent)]
<1>1. log' \in [Cids -> Seq(OrderEvent)]
  BY EmitTyped DEF ProcessFill, OrderEvent, TypeInv, TypeOK
<1>2. info[u.cid].close \in BOOLEAN
  <2>1. u.cid \in Cids
    BY DEF Update
  <2>2. info[u.cid] \in Order \cup {NoOrder}
    BY <2>1 DEF TypeInv, TypeOK
  <2> QED
    BY <2>2, FieldsTyped
<1>3. \A s \in Sides : ApplyFill(positions[s], info[u.cid].close, q) \in Position
  BY <1>2, PositionTyped DEF TypeInv, TypeOK
<1> QED
  BY <1>1, <1>3 DEF ProcessFill, TypeInv, TypeOK

\* Every initial state is well typed.
LEMMA TypeInit == Init => TypeInv
<1> SUFFICES ASSUME Init PROVE TypeInv
  OBVIOUS
<1>1. NoPosition \in Position
  BY DEF NoPosition, Position, PosStatus
<1>2. [st |-> "none", filled |-> 0] \in ExchState
  BY DEF ExchState
<1>3. TypeOK
  BY <1>1, <1>2, ReadyTyped DEF Init, TypeOK
<1>4. Locals
  BY DEF Init, Locals, cmdReady, wsReady, notFinalizing
<1> QED
  BY <1>3, <1>4 DEF TypeInv

\* Every step keeps the types.
LEMMA TypeNext == TypeInv /\ [Next]_vars => TypeInv'
<1> SUFFICES ASSUME TypeInv, [Next]_vars PROVE TypeInv'
  OBVIOUS
<1> USE DEF TypeInv, TypeOK, Locals
<1>1. ASSUME NEW s \in Sides, NEW q \in 1..MaxQty, NEW c \in Cids, OpenExisting(s, q, c)
      PROVE TypeInv'
  BY <1>1, OpenOrderTyped, PlaceOrderTyped DEF OpenExisting
<1>2. ASSUME NEW s \in Sides, NEW q \in 1..MaxQty, NEW c \in Cids, OpenNoLeverage(s, q, c)
      PROVE TypeInv'
  BY <1>2, OpenOrderTyped, EmitTyped DEF OpenNoLeverage, OrderEvent
<1>3. ASSUME NEW s \in Sides, NEW q \in 1..MaxQty, NEW c \in Cids, OpenNew(s, q, c)
      PROVE TypeInv'
  BY <1>3, OpenOrderTyped DEF OpenNew, cmdReady, CmdState
<1>4. ASSUME NEW s \in Sides, NEW close \in BOOLEAN, NEW q \in 1..MaxQty, NEW c \in Cids,
             PlaceWithoutId(s, close, q, c)
      PROVE TypeInv'
  <2>1. [side |-> s, close |-> close, amount |-> q, sided |-> FALSE] \in Order
    BY MaxQtyAssumption DEF Order
  <2>2. positions' \in [Sides -> Position]
    BY <1>4, NewOpeningTyped DEF PlaceWithoutId
  <2> QED
    BY <1>4, <2>1, <2>2, PlaceOrderTyped DEF PlaceWithoutId
<1>5. ASSUME NEW s \in Sides, NEW c \in Cids, CloseRefused(s, c)
      PROVE TypeInv'
  BY <1>5, EmitTyped DEF CloseRefused, Order, OrderEvent
<1>6. ASSUME NEW s \in Sides, NEW c \in Cids, ClosePosition(s, c)
      PROVE TypeInv'
  BY <1>6, PlaceOrderTyped DEF ClosePosition, Order, Position, PosStatus
<1>7. ASSUME NEW all \in BOOLEAN, CancelAll(all)
      PROVE TypeInv'
  BY <1>7 DEF CancelAll, CmdState, cmdReady, exchVars
<1>8. ASSUME LeverageFails
      PROVE TypeInv'
  BY <1>8, EmitTyped, ReadyTyped DEF LeverageFails, OrderEvent, cmdReady
<1>9. ASSUME LeverageSet
      PROVE TypeInv'
  BY <1>9, PlaceOrderTyped, NewOpeningTyped DEF LeverageSet
<1>10. ASSUME RestOk
      PROVE TypeInv'
  BY ZenonT(30), <1>10 DEF RestOk, PendingOrder, CmdState, exchVars
<1>11. ASSUME RestErr
      PROVE TypeInv'
  BY <1>11, EmitTyped, ReadyTyped, PositionTyped DEF RestErr, Rollback, OrderEvent,
     cmdReady, exchVars
<1>12. ASSUME ReadWsOrder
      PROVE TypeInv'
  BY <1>12, ReadyTyped DEF ReadWsOrder, PendingOrder, FinState, Actors, cmdReady,
     exchVars
<1>13. ASSUME CancelDone
      PROVE TypeInv'
  BY <1>13, PositionTyped, ReadyTyped DEF CancelDone, Position, PosStatus, cmdReady,
     exchVars
<1>14. ASSUME NEW c \in Cids, CancelOne(c)
      PROVE TypeInv'
  <2>1. positions' \in [Sides -> Position]
    BY <1>14, RollbackTyped DEF CancelOne
  <2>2. log' \in [Cids -> Seq(OrderEvent)]
    BY <1>14, EmitTyped DEF CancelOne, OrderEvent
  <2>3. cmd' \in CmdState /\ cmd'.pc = "results"
    BY <1>14 DEF CancelOne, CmdState
  <2> QED
    BY ZenonT(30), <1>14, <2>1, <2>2, <2>3, ReadyTyped DEF CancelOne, exchVars
<1>15. ASSUME TakePending
      PROVE TypeInv'
  BY <1>15, ReadyTyped, FeedTyped DEF TakePending, WsState, wsReady, WsIdle
<1>16. ASSUME StorePending
      PROVE TypeInv'
  <2>1. ws.upd \in Update /\ ws.upd.cid \in Cids
    BY <1>16 DEF StorePending, Update
  <2>2. pending' \in [Cids -> PendingOrder]
    BY ZenonT(30), <1>16, <2>1 DEF StorePending, PendingOrder
  <2>3. ws' \in WsState /\ ws'.upd \in Update
    BY <1>16, <2>1 DEF StorePending, WsState, PendingOrder
  <2> QED
    BY <1>16, <2>1, <2>2, <2>3 DEF StorePending, exchVars
<1>17. ASSUME FillPending
      PROVE TypeInv'
  <2>1. ws.upd \in Update /\ ws.upd.last \in Int
    BY <1>17 DEF FillPending, Update
  <2>2. positions' \in [Sides -> Position] /\ log' \in [Cids -> Seq(OrderEvent)]
    BY <1>17, <2>1, FillTyped DEF FillPending
  <2>3. /\ fin' \in [Actors -> FinState]
        /\ \A a \in Actors : fin'[a].pc # "none" => fin'[a].upd \in Update
    BY <1>17, <2>1 DEF FillPending, FinState
  <2> QED
    BY <1>17, <2>2, <2>3, ReadyTyped DEF FillPending, wsReady, exchVars
<1>18. ASSUME TakeConfirmed
      PROVE TypeInv'
  <2> DEFINE u == Head(feed)
  <2>1. u \in Update /\ u.cid \in Cids /\ u.filled \in Int /\ Tail(feed) \in Seq(Update)
    BY <1>18, FeedTyped DEF TakeConfirmed, Update
  <2>2. orders[u.cid].filled \in Int
    BY <2>1, FieldsTyped
  <2>3. ws' \in WsState /\ ws'.upd \in Update
    <3>1. u.filled - orders[u.cid].filled \in Int
      BY <2>1, <2>2
    <3>2. ws' = [wsReady EXCEPT !.pc = "stored", !.upd = u,
                                !.delta = u.filled - orders[u.cid].filled]
      BY <1>18 DEF TakeConfirmed
    <3> QED
      BY <3>1, <3>2, <2>1 DEF WsState, wsReady
  <2>4. orders' \in [Cids -> Update \cup {NoUpdate}] /\ feed' \in Seq(Update) /\ seen' \subseteq Cids
    BY <1>18, <2>1 DEF TakeConfirmed
  <2> QED
    BY <1>18, <2>3, <2>4 DEF TakeConfirmed
<1>19. ASSUME ApplyConfirmed
      PROVE TypeInv'
  <2>1. ws.upd \in Update /\ ws.upd.cid \in Cids /\ ws.delta \in Int
    BY <1>19 DEF ApplyConfirmed, Update, WsState
  <2> DEFINE c == ws.upd.cid  known == c \in orderPos
  <2>2. \/ ProcessFill(ws.upd, info[c].side, ws.delta, known)
        \/ /\ Emit(c, "Canceled") \/ UNCHANGED log
           /\ Rollback(info[c].side) \/ UNCHANGED positions
        \/ UNCHANGED <<log, positions>>
    BY <1>19 DEF ApplyConfirmed
  <2>3. positions' \in [Sides -> Position] /\ log' \in [Cids -> Seq(OrderEvent)]
    <3>1. CASE ProcessFill(ws.upd, info[c].side, ws.delta, known)
      <4>1. known \in BOOLEAN /\ ws.delta \in Int /\ ws.upd \in Update
        BY <2>1
      <4> HIDE DEF known
      <4> QED
        BY <3>1, <4>1, FillTyped
    <3>2. CASE /\ Emit(c, "Canceled") \/ UNCHANGED log
               /\ Rollback(info[c].side) \/ UNCHANGED positions
      <4>1. log' \in [Cids -> Seq(OrderEvent)]
        BY <3>2, EmitTyped DEF OrderEvent
      <4>2. positions' \in [Sides -> Position]
        BY <3>2, RollbackTyped
      <4> QED
        BY <4>1, <4>2
    <3>3. CASE UNCHANGED <<log, positions>>
      BY <3>3
    <3> QED
      BY <2>2, <3>1, <3>2, <3>3
  <2>4. orders' \in [Cids -> Update \cup {NoUpdate}] /\ orderPos' \subseteq Cids
    BY <1>19 DEF ApplyConfirmed
  <2>5. ws' = wsReady /\ UNCHANGED <<info, pending, cmd, fin, seen, forgotten, exchVars>>
    BY <1>19 DEF ApplyConfirmed
  <2> QED
    BY <2>3, <2>4, <2>5, ReadyTyped DEF wsReady, exchVars
<1>20. ASSUME IgnoreUpdate
      PROVE TypeInv'
  BY <1>20, FeedTyped DEF IgnoreUpdate, engineVars
<1>21. ASSUME NEW a \in Actors, FinalizeRemove(a)
      PROVE TypeInv'
  BY <1>21, ReadyTyped DEF FinalizeRemove, FinState, exchVars
<1>22. ASSUME NEW a \in Actors, FinalizeInsert(a)
      PROVE TypeInv'
  BY ZenonT(30), <1>22 DEF FinalizeInsert, FinState, Update, exchVars
<1>23. ASSUME NEW a \in Actors, FinalizeEnd(a)
      PROVE TypeInv'
  <2>1. positions' \in [Sides -> Position]
    BY <1>23, PositionTyped DEF FinalizeEnd, Rollback
  <2>2. log' \in [Cids -> Seq(OrderEvent)]
    BY <1>23, EmitTyped DEF FinalizeEnd, OrderEvent
  <2>3. orders' \in [Cids -> Update \cup {NoUpdate}] /\ orderPos' \subseteq Cids
    BY <1>23 DEF FinalizeEnd
  <2>4. /\ fin' = [fin EXCEPT ![a] = notFinalizing]
        /\ UNCHANGED <<info, pending, cmd, ws, seen, forgotten, exchVars>>
    BY <1>23 DEF FinalizeEnd
  <2> QED
    BY <2>1, <2>2, <2>3, <2>4, ReadyTyped DEF notFinalizing, exchVars
<1>24. ASSUME ExchCancelAll
      PROVE TypeInv'
  <2>1. exch' \in [Cids -> ExchState]
    <3>1. \A c \in Cids : [exch[c] EXCEPT !.st = "canceled"] \in ExchState
      BY DEF ExchState
    <3> QED
      BY <1>24, <3>1 DEF ExchCancelAll
  <2>2. cmd' \in CmdState /\ cmd'.pc = "results"
    <3>1. ASSUME NEW todo \in SUBSET Cids
          PROVE  /\ [cmd EXCEPT !.pc = "results", !.todo = todo] \in CmdState
                 /\ [cmd EXCEPT !.pc = "results", !.todo = todo].pc = "results"
      BY DEF CmdState
    <3>2. \E todo \in SUBSET Cids : cmd' = [cmd EXCEPT !.pc = "results", !.todo = todo]
      BY <1>24 DEF ExchCancelAll
    <3> QED
      BY <3>1, <3>2
  <2> QED
    BY <1>24, <2>1, <2>2 DEF ExchCancelAll
<1>25. ASSUME FeedLoss
      PROVE TypeInv'
  BY <1>25, FeedTyped DEF FeedLoss, engineVars
<1>w. ASSUME NEW c \in Cids, FillWhole(c)
      PROVE  exch' \in [Cids -> ExchState] /\ feed' \in Seq(Update)
  <2>1. info[c].amount \in Int
    BY FieldsTyped
  <2>2. [st |-> "done", filled |-> info[c].amount] \in ExchState
    BY <2>1 DEF ExchState
  <2>3. "Trade" \in {"New", "Trade", "Other"} /\ "Filled" \in Statuses
    BY DEF Statuses
  <2>4. feed' \in Seq(Update)
    BY <1>w, <2>1, <2>3, PushTyped, SMTT(60) DEF FillWhole
  <2> QED
    BY <1>w, <2>2, <2>4 DEF FillWhole
<1>26. ASSUME NEW c \in Cids, ExchAccept(c)
      PROVE TypeInv'
  <2>1. [exch[c] EXCEPT !.st = "live"] \in ExchState
    BY DEF ExchState
  <2>2. exch' \in [Cids -> ExchState]
    BY <1>26, <1>w, <2>1 DEF ExchAccept
  <2>3. feed' \in Seq(Update)
    <3>1. CASE Push(c, "New", "New", 0, 0)
      <4>1. "New" \in {"New", "Trade", "Other"} /\ "New" \in Statuses /\ 0 \in Int
        BY DEF Statuses
      <4> QED
        BY <3>1, <4>1, PushTyped, SMTT(60)
    <3> QED
      BY <1>26, <1>w, <3>1 DEF ExchAccept
  <2> QED
    BY <1>26, <2>2, <2>3 DEF ExchAccept, engineVars
<1>27. ASSUME NEW c \in Cids, ExchReply(c)
      PROVE TypeInv'
  BY <1>27 DEF ExchReply, engineVars
<1>28. ASSUME NEW c \in Cids, ExchRefuse(c)
      PROVE TypeInv'
  BY <1>28 DEF ExchRefuse, ExchState, engineVars
<1>29. ASSUME NEW c \in Cids, RestTimeout(c)
      PROVE TypeInv'
  BY <1>29 DEF RestTimeout, engineVars
<1>30. ASSUME NEW c \in Cids, ExchExpire(c)
      PROVE TypeInv'
  BY <1>30, PushTyped, SMTT(60) DEF ExchExpire, Statuses, ExchState, engineVars
<1>31. ASSUME NEW c \in Cids, NEW q \in 1..MaxQty, ExchTrade(c, q)
      PROVE TypeInv'
  BY <1>31, PushTyped, MaxQtyAssumption, SMTT(60) DEF ExchTrade, Statuses, ExchState, engineVars
<1>32. ASSUME NEW c \in Cids, ExchTrigger(c)
      PROVE TypeInv'
  <2>1. [exch[c] EXCEPT !.st = "swallowed"] \in ExchState
    BY DEF ExchState
  <2>2. exch' \in [Cids -> ExchState] /\ feed' \in Seq(Update)
    BY <1>32, <1>w, <2>1 DEF ExchTrigger
  <2> QED
    BY <1>32, <2>2 DEF ExchTrigger, engineVars
<1>33. ASSUME UNCHANGED vars
      PROVE TypeInv'
  BY <1>33 DEF vars
<1> QED
  BY <1>1, <1>2, <1>3, <1>4, <1>5, <1>6, <1>7, <1>8, <1>9, <1>10, <1>11, <1>12, <1>13,
     <1>14, <1>15, <1>16, <1>17, <1>18, <1>19, <1>20, <1>21, <1>22, <1>23, <1>24, <1>25,
     <1>26, <1>27, <1>28, <1>29, <1>30, <1>31, <1>32, <1>33 DEF Next, CmdNext, CmdStep,
     WsStep, Finalize, ExchStep

\* Every variable of the engine and of the exchange keeps its type.
THEOREM TypeCorrect == Spec => []TypeOK
<1>1. TypeInv => TypeOK
  BY DEF TypeInv
<1> QED
  BY <1>1, TypeInit, TypeNext, PTL DEF Spec

-----------------------------------------------------------------------------
(* The life cycle of a position *)

\* A position without quantity is absent or Opening, never Open or Closing by
\* chance; and while the leverage of a new position is being set no other task
\* can bring the position into being.
Sound(p) == p.status \in {"none", "Opening"} => p.qty = 0

StatusInv ==
  /\ \A s \in Sides : Sound(positions[s])
  /\ cmd.pc = "leverage" =>
       /\ info[cmd.cid] \in Order /\ info[cmd.cid].amount > 0
       /\ positions[info[cmd.cid].side].status = "none"

\* A fill of an order of side s that ws_feed_loop is processing.
Fill(s, p, r) ==
  /\ p.status # "none" /\ log' # log /\ IsFill(ws.upd) /\ ws.upd.cid \in Cids
  /\ info[ws.upd.cid].side = s
  /\ ws.pc \in {"fill", "stored"} /\ Traded \in Int
  /\ r = ApplyFill(p, info[ws.upd.cid].close, Traded)

\* The ways a step may change a position p of side s into r.
Move(s, p, r) ==
  \/ r = p
  \/ r = RolledBack(p)
  \/ p.status = "none" /\ r = NewOpening
  \/ p.qty # 0 /\ r = [p EXCEPT !.status = "Closing"]
  \/ p.qty # 0 /\ r = RolledBack([p EXCEPT !.status = "Closing"])
  \/ Fill(s, p, r)

\* Each way keeps a position sound, follows the life cycle and drops a quantity
\* only by a closing fill.
LEMMA MoveSound ==
  ASSUME TypeInv, NEW s \in Sides, NEW p \in Position, NEW r, Sound(p), Move(s, p, r)
  PROVE  /\ Sound(r)
         /\ p.status = "none" => r.status \in {"none", "Opening"}
         /\ p.status # r.status => <<p.status, r.status>> \in LifeCycle
         /\ p.qty # 0 /\ r.status = "none" =>
              Fill(s, p, r) /\ info[ws.upd.cid].close /\ Traded = p.qty
<1> USE DEF Position, PosStatus, Sound, LifeCycle, NoPosition
<1>1. CASE r = p
  BY <1>1
<1>2. CASE r = RolledBack(p)
  BY <1>2 DEF RolledBack, IsGhost
<1>3. CASE p.status = "none" /\ r = NewOpening
  BY <1>3 DEF NewOpening
<1>4. CASE p.qty # 0 /\ r = [p EXCEPT !.status = "Closing"]
  BY <1>4
<1>5. CASE p.qty # 0 /\ r = RolledBack([p EXCEPT !.status = "Closing"])
  BY <1>5 DEF RolledBack, IsGhost
<1>6. CASE Fill(s, p, r)
  <2>1. PICK q \in Int : q = Traded /\ r = ApplyFill(p, info[ws.upd.cid].close, q)
    BY <1>6 DEF Fill
  <2>2. info[ws.upd.cid].close \in BOOLEAN
    BY <1>6, FieldsTyped DEF Fill, TypeInv, TypeOK
  <2>3. /\ r.status = "Open" \/ r = NoPosition
        /\ r.status = "none" => info[ws.upd.cid].close /\ q = p.qty
    BY <2>1, <2>2 DEF ApplyFill
  <2>4. p.status \in {"Opening", "Open", "Closing"}
    BY <1>6 DEF Fill
  <2>5. Sound(r)
    BY <2>3
  <2>6. p.status # r.status => <<p.status, r.status>> \in LifeCycle
    BY <2>3, <2>4
  <2> QED
    BY <1>6, <2>1, <2>3, <2>4, <2>5, <2>6
<1> QED
  BY <1>1, <1>2, <1>3, <1>4, <1>5, <1>6 DEF Move

\* An event was emitted: the logs have changed.
LEMMA EmitChanges ==
  ASSUME log \in [Cids -> Seq(OrderEvent)], NEW c \in Cids, NEW e \in OrderEvent, Emit(c, e)
  PROVE  log' # log
<1>1. log[c] \in Seq(OrderEvent) /\ Len(Append(log[c], e)) = Len(log[c]) + 1
  OBVIOUS
<1>2. log'[c] = Append(log[c], e)
  BY DEF Emit
<1> QED
  BY <1>1, <1>2

\* A rollback moves the position of its side and no other.
LEMMA RollbackMoves ==
  ASSUME positions \in [Sides -> Position], NEW t, Rollback(t), NEW s \in Sides
  PROVE  Move(s, positions[s], positions'[s])
  BY DEF Rollback, Move

\* So does the processing of a fill.
LEMMA FillMoves ==
  ASSUME TypeInv, ws.upd \in Update, IsFill(ws.upd), ws.pc \in {"fill", "stored"},
         NEW q \in Int, q = Traded, NEW known,
         ProcessFill(ws.upd, info[ws.upd.cid].side, q, known), NEW s \in Sides
  PROVE  Move(s, positions[s], positions'[s])
<1> DEFINE c == ws.upd.cid
<1>1. c \in Cids
  BY DEF Update
<1>2. log' # log
  BY <1>1, EmitChanges DEF ProcessFill, OrderEvent, TypeInv, TypeOK
<1>3. \/ positions'[s] = positions[s]
      \/ /\ positions[s].status # "none" /\ info[c].side = s
         /\ positions'[s] = ApplyFill(positions[s], info[c].close, q)
  BY DEF ProcessFill, TypeInv, TypeOK
<1> QED
  BY <1>1, <1>2, <1>3 DEF Move, Fill

\* Every step moves each position in one of these ways.
LEMMA PositionMoves ==
  ASSUME TypeInv, StatusInv, [Next]_vars
  PROVE  \A s \in Sides : Move(s, positions[s], positions'[s])
<1> USE DEF TypeInv, TypeOK
<1> SUFFICES ASSUME NEW s \in Sides
             PROVE  Move(s, positions[s], positions'[s])
  OBVIOUS
<1>1. CASE UNCHANGED positions
  BY <1>1 DEF Move
<1>2. ASSUME LeverageSet PROVE Move(s, positions[s], positions'[s])
  BY <1>2 DEF LeverageSet, StatusInv, Move
<1>3. ASSUME NEW t \in Sides, NEW close \in BOOLEAN, NEW q \in 1..MaxQty, NEW c \in Cids,
             PlaceWithoutId(t, close, q, c)
      PROVE Move(s, positions[s], positions'[s])
  BY <1>3 DEF PlaceWithoutId, Move
<1>4. ASSUME NEW t \in Sides, NEW c \in Cids, ClosePosition(t, c)
      PROVE Move(s, positions[s], positions'[s])
  BY <1>4 DEF ClosePosition, Move
<1>5. ASSUME RestErr PROVE Move(s, positions[s], positions'[s])
  BY <1>5, RollbackMoves DEF RestErr
<1>6. ASSUME CancelDone PROVE Move(s, positions[s], positions'[s])
  <2>1. positions[s].qty \in Int
    BY DEF Position
  <2> QED
    BY <1>6, <2>1 DEF CancelDone, Move
<1>7. ASSUME NEW c \in Cids, CancelOne(c) PROVE Move(s, positions[s], positions'[s])
  BY <1>7, <1>1, RollbackMoves DEF CancelOne
<1>8. ASSUME FillPending PROVE Move(s, positions[s], positions'[s])
  <2>1. ws.upd \in Update /\ ws.upd.last \in Int
    BY <1>8 DEF FillPending, Locals, Update
  <2>2. \/ IsFill(ws.upd) /\ ProcessFill(ws.upd, info[ws.upd.cid].side, ws.upd.last, TRUE)
        \/ UNCHANGED positions
    BY <1>8 DEF FillPending
  <2> QED
    BY <1>1, <1>8, <2>1, <2>2, FillMoves DEF FillPending, Traded
<1>9. ASSUME ApplyConfirmed PROVE Move(s, positions[s], positions'[s])
  <2> DEFINE c == ws.upd.cid  known == c \in orderPos
  <2>1. ws.upd \in Update /\ ws.delta \in Int
    BY <1>9 DEF ApplyConfirmed, Locals, WsState
  <2>2. \/ IsFill(ws.upd) /\ ProcessFill(ws.upd, info[c].side, ws.delta, known)
        \/ Rollback(info[c].side)
        \/ UNCHANGED positions
    BY <1>9 DEF ApplyConfirmed
  <2> HIDE DEF known
  <2> QED
    BY <1>1, <1>9, <2>1, <2>2, FillMoves, RollbackMoves DEF ApplyConfirmed, Traded
<1>10. ASSUME NEW a \in Actors, FinalizeEnd(a) PROVE Move(s, positions[s], positions'[s])
  BY <1>10, <1>1, RollbackMoves DEF FinalizeEnd
<1>11. \/ UNCHANGED positions
       \/ LeverageSet \/ RestErr \/ CancelDone \/ FillPending \/ ApplyConfirmed
       \/ \E t \in Sides, close \in BOOLEAN, q \in 1..MaxQty, c \in Cids :
            PlaceWithoutId(t, close, q, c)
       \/ \E t \in Sides, c \in Cids : ClosePosition(t, c)
       \/ \E c \in Cids : CancelOne(c)
       \/ \E a \in Actors : FinalizeEnd(a)
  <2>1. CASE CmdNext
    BY <2>1 DEF CmdNext, OpenExisting, OpenNoLeverage, OpenNew, CloseRefused, CancelAll
  <2>2. CASE CmdStep
    BY <2>2 DEF CmdStep, LeverageFails, RestOk, ReadWsOrder
  <2>3. CASE WsStep
    BY <2>3 DEF WsStep, TakePending, StorePending, TakeConfirmed, IgnoreUpdate, engineVars
  <2>4. CASE \E a \in Actors : Finalize(a)
    BY <2>4 DEF Finalize, FinalizeRemove, FinalizeInsert
  <2>5. CASE ExchStep
    BY <2>5 DEF ExchStep, ExchCancelAll, FeedLoss, ExchAccept, ExchReply, ExchRefuse,
       RestTimeout, ExchExpire, ExchTrade, ExchTrigger, FillWhole, engineVars
  <2>6. CASE UNCHANGED vars
    BY <2>6 DEF vars
  <2> QED
    BY <2>1, <2>2, <2>3, <2>4, <2>5, <2>6 DEF Next
<1> QED
  BY <1>1, <1>2, <1>3, <1>4, <1>5, <1>6, <1>7, <1>8, <1>9, <1>10, <1>11

\* The other actors create no position: fills and rollbacks leave absent ones absent.
LEMMA AbsentStaysAbsent ==
  ASSUME TypeInv, NEW s \in Sides, positions[s].status = "none",
         WsStep \/ (\E a \in Actors : Finalize(a)) \/ ExchStep \/ UNCHANGED vars
  PROVE  positions'[s].status = "none"
<1>1. RolledBack(positions[s]) = positions[s]
  BY DEF RolledBack, IsGhost
<1>2. ASSUME NEW t, Rollback(t) PROVE positions'[s].status = "none"
  BY <1>1, <1>2 DEF Rollback, TypeInv, TypeOK
<1>3. ASSUME NEW t, NEW u, NEW q, NEW known, ProcessFill(u, t, q, known)
      PROVE  positions'[s].status = "none"
  BY <1>3 DEF ProcessFill, TypeInv, TypeOK
<1>4. CASE WsStep
  BY <1>2, <1>3, <1>4 DEF WsStep, TakePending, StorePending, FillPending, TakeConfirmed,
     ApplyConfirmed, IgnoreUpdate, engineVars
<1>5. CASE \E a \in Actors : Finalize(a)
  BY <1>2, <1>5 DEF Finalize, FinalizeRemove, FinalizeInsert, FinalizeEnd
<1>6. CASE ExchStep
  BY <1>6 DEF ExchStep, ExchCancelAll, FeedLoss, ExchAccept, ExchReply, ExchRefuse,
     RestTimeout, ExchExpire, ExchTrade, ExchTrigger, FillWhole, engineVars
<1>7. CASE UNCHANGED vars
  BY <1>7 DEF vars
<1> QED
  BY <1>4, <1>5, <1>6, <1>7

\* A handler that waits for set_leverage has just been entered, or goes on waiting.
LEMMA LeverageWait ==
  ASSUME TypeInv, [Next]_vars, cmd'.pc = "leverage"
  PROVE  \/ \E s \in Sides, q \in 1..MaxQty, c \in Cids : OpenNew(s, q, c)
         \/ /\ cmd.pc = "leverage" /\ UNCHANGED <<cmd, info>>
            /\ WsStep \/ (\E a \in Actors : Finalize(a)) \/ ExchStep \/ UNCHANGED vars
<1> USE DEF TypeInv, TypeOK, CmdState
<1>0. \A c, o : PlaceOrder(c, o) => cmd'.pc = "rest"
  BY DEF PlaceOrder, cmdReady
<1>1. CASE CmdNext
  <2>1. ASSUME NEW s \in Sides, NEW q \in 1..MaxQty, NEW c \in Cids,
               \/ OpenExisting(s, q, c) \/ OpenNoLeverage(s, q, c)
               \/ \E close \in BOOLEAN : PlaceWithoutId(s, close, q, c)
        PROVE  FALSE
    BY <2>1, <1>0 DEF OpenExisting, OpenNoLeverage, PlaceWithoutId, CmdIdle
  <2>2. ASSUME NEW s \in Sides, NEW c \in Cids, CloseRefused(s, c) \/ ClosePosition(s, c)
        PROVE  FALSE
    BY <2>2, <1>0 DEF CloseRefused, ClosePosition, CmdIdle
  <2>3. ASSUME NEW all \in BOOLEAN, CancelAll(all) PROVE FALSE
    BY <2>3 DEF CancelAll, cmdReady
  <2> QED
    BY <1>1, <2>1, <2>2, <2>3 DEF CmdNext
<1>2. CASE CmdStep
  <2>1. cmd'.pc \in {"idle", "rest", "read", "results"}
    BY <1>2, <1>0 DEF CmdStep, LeverageFails, LeverageSet, RestOk, RestErr, ReadWsOrder,
       CancelDone, CancelOne, cmdReady
  <2> QED
    BY <2>1
<1>3. CASE WsStep
  BY <1>3 DEF WsStep, TakePending, StorePending, FillPending, TakeConfirmed, ApplyConfirmed,
     IgnoreUpdate, engineVars
<1>4. CASE \E a \in Actors : Finalize(a)
  BY <1>4 DEF Finalize, FinalizeRemove, FinalizeInsert, FinalizeEnd
<1>5. CASE ExchStep
  <2>1. ExchCancelAll => cmd'.pc = "results"
    BY DEF ExchCancelAll
  <2>2. ~ExchCancelAll => UNCHANGED <<cmd, info>>
    BY <1>5 DEF ExchStep, FeedLoss, ExchAccept, ExchReply, ExchRefuse, RestTimeout, ExchExpire,
       ExchTrade, ExchTrigger, FillWhole, engineVars
  <2> QED
    BY <1>5, <2>1, <2>2
<1>6. CASE UNCHANGED vars
  BY <1>6 DEF vars
<1> QED
  BY <1>1, <1>2, <1>3, <1>4, <1>5, <1>6 DEF Next

\* StatusInv holds initially ...
LEMMA StatusInit == Init => StatusInv
  BY DEF Init, StatusInv, Sound, NoPosition, cmdReady

\* ... and every step keeps it.
LEMMA StatusNext == TypeInv /\ StatusInv /\ [Next]_vars => StatusInv'
<1> SUFFICES ASSUME TypeInv, StatusInv, [Next]_vars PROVE StatusInv'
  OBVIOUS
<1>1. \A s \in Sides : Sound(positions'[s])
  BY PositionMoves, MoveSound DEF TypeInv, TypeOK, StatusInv
<1>2. ASSUME cmd'.pc = "leverage"
      PROVE  /\ info'[cmd'.cid] \in Order /\ info'[cmd'.cid].amount > 0
             /\ positions'[info'[cmd'.cid].side].status = "none"
  <2>1. CASE \E s \in Sides, q \in 1..MaxQty, c \in Cids : OpenNew(s, q, c)
    <3>1. PICK s \in Sides, q \in 1..MaxQty, c \in Cids : OpenNew(s, q, c)
      BY <2>1
    <3>2. cmd'.cid = c /\ info'[c] = OpenOrder(s, q) /\ UNCHANGED positions
      BY <3>1 DEF OpenNew, cmdReady, TypeInv, TypeOK
    <3>3. positions[s].status = "none" /\ OpenOrder(s, q).side = s /\ OpenOrder(s, q).amount > 0
      BY <3>1, MaxQtyAssumption DEF OpenNew, OpenOrder
    <3> QED
      BY <3>2, <3>3, OpenOrderTyped
  <2>2. CASE /\ cmd.pc = "leverage" /\ UNCHANGED <<cmd, info>>
             /\ WsStep \/ (\E a \in Actors : Finalize(a)) \/ ExchStep \/ UNCHANGED vars
    <3>1. info[cmd.cid].side \in Sides
      BY <2>2 DEF StatusInv, Order
    <3> QED
      BY <2>2, <3>1, AbsentStaysAbsent DEF StatusInv
  <2> QED
    BY <1>2, <2>1, <2>2, LeverageWait
<1> QED
  BY <1>1, <1>2 DEF StatusInv

\* What the moves of a step mean for each position.
LEMMA StepSound ==
  ASSUME TypeInv, StatusInv, [Next]_vars, NEW s \in Sides
  PROVE  /\ positions[s].status # positions'[s].status =>
              <<positions[s].status, positions'[s].status>> \in LifeCycle
         /\ positions[s].qty # 0 /\ positions'[s].status = "none" =>
              /\ Fill(s, positions[s], positions'[s]) /\ info[ws.upd.cid].close
              /\ Traded = positions[s].qty
<1>1. positions[s] \in Position /\ Sound(positions[s])
  BY DEF TypeInv, TypeOK, StatusInv
<1>2. Move(s, positions[s], positions'[s])
  BY PositionMoves
<1> QED
  BY <1>1, <1>2, MoveSound

\* A position's status only ever follows the life cycle Opening, Open, Closing.
THEOREM LifeCycleKept == Spec => StatusSteps
<1> DEFINE Step == \A s \in Sides : positions[s].status # positions'[s].status =>
                     <<positions[s].status, positions'[s].status>> \in LifeCycle
<1>1. TypeInv /\ StatusInv /\ [Next]_vars => [Step]_vars
  BY StepSound
<1>2. Spec => [][Step]_vars
  <2> HIDE DEF Step
  <2> QED
    BY <1>1, TypeInit, TypeNext, StatusInit, StatusNext, PTL DEF Spec
<1> QED
  BY <1>2 DEF StatusSteps

\* No rollback discards executed quantity: only a closing fill of exactly its
\* quantity empties a position.
THEOREM NoQuantityDropped == Spec => QuantityNotDropped
<1> DEFINE Step == \A s \in Sides :
                     positions[s].qty # 0 /\ positions'[s].status = "none" =>
                       /\ log' # log
                       /\ ws.pc \in {"fill", "stored"} /\ Traded = positions[s].qty
                       /\ \E c \in Cids : /\ info[c].side = s /\ info[c].close
                                         /\ ws.upd.cid = c /\ IsFill(ws.upd)
<1>1. TypeInv /\ StatusInv /\ [Next]_vars => [Step]_vars
  <2> SUFFICES ASSUME TypeInv, StatusInv, [Next]_vars, NEW s \in Sides,
                      positions[s].qty # 0, positions'[s].status = "none"
               PROVE  /\ log' # log
                      /\ ws.pc \in {"fill", "stored"} /\ Traded = positions[s].qty
                      /\ \E c \in Cids : /\ info[c].side = s /\ info[c].close
                                        /\ ws.upd.cid = c /\ IsFill(ws.upd)
    OBVIOUS
  <2> QED
    BY StepSound DEF Fill
<1>2. Spec => [][Step]_vars
  <2> HIDE DEF Step
  <2> QED
    BY <1>1, TypeInit, TypeNext, StatusInit, StatusNext, PTL DEF Spec
<1> QED
  BY <1>2 DEF QuantityNotDropped

-----------------------------------------------------------------------------
(* Double confirmation *)

\* An order that has its reply and an update of which has been matched.
Confirmed(c) == rest[c] = "ok" /\ c \in seen

\* DoubleConfirmation is not inductive either: whatever either task holds on the
\* way to the insertion into orders, the two halves of the pending entry and the
\* locals of both handlers, has to be backed by what really arrived.
JoinInv ==
  /\ \A c \in Cids : info[c] = NoOrder => rest[c] = "none"
  /\ cmd.pc = "leverage" => rest[cmd.cid] = "none"
  /\ cmd.pc = "read" => rest[cmd.cid] = "ok"
  /\ \A c \in Cids : pending[c].rest => rest[c] = "ok"
  /\ \A c \in Cids : pending[c].ws # NoUpdate => pending[c].ws.cid = c /\ c \in seen
  /\ ws.pc = "fill" => ws.upd.cid \in seen
  /\ ws.pc = "fill" /\ ws.restReady => rest[ws.upd.cid] = "ok"
  /\ \A a \in Actors : fin[a].pc # "none" => Confirmed(fin[a].upd.cid)
  /\ DoubleConfirmation

\* What has arrived stays arrived: an order id is used once.
LEMMA ArrivedStays ==
  ASSUME TypeInv, StatusInv, JoinInv, [Next]_vars
  PROVE  /\ \A c \in Cids : rest[c] = "ok" => rest'[c] = "ok"
         /\ seen \subseteq seen'
<1> USE DEF TypeInv, TypeOK
<1> SUFFICES ASSUME NEW c \in Cids
             PROVE  (rest[c] = "ok" => rest'[c] = "ok") /\ seen \subseteq seen'
  OBVIOUS
<1>1. ASSUME NEW d, NEW o, PlaceOrder(d, o), rest[d] # "ok"
      PROVE  rest[c] = "ok" => rest'[c] = "ok"
  BY <1>1 DEF PlaceOrder
<1>2. CASE CmdNext
  <2>1. \A d \in Cids : Fresh(d) => rest[d] # "ok"
    BY DEF JoinInv, Fresh
  <2> QED
    BY ZenonT(30), <1>1, <1>2, <2>1 DEF CmdNext, OpenExisting, OpenNoLeverage, OpenNew, CloseRefused,
       ClosePosition, PlaceWithoutId, CancelAll, exchVars
<1>3. CASE CmdStep
  <2>1. LeverageSet => rest[cmd.cid] # "ok"
    BY DEF LeverageSet, JoinInv
  <2> QED
    BY <1>1, <1>3, <2>1 DEF CmdStep, LeverageFails, LeverageSet, RestOk, RestErr, ReadWsOrder,
       CancelDone, CancelOne, exchVars
<1>4. CASE WsStep
  BY <1>4 DEF WsStep, TakePending, StorePending, FillPending, TakeConfirmed, ApplyConfirmed,
     IgnoreUpdate, engineVars, exchVars
<1>5. CASE \E a \in Actors : Finalize(a)
  BY <1>5 DEF Finalize, FinalizeRemove, FinalizeInsert, FinalizeEnd, exchVars
<1>6. CASE ExchStep
  BY <1>6 DEF ExchStep, ExchCancelAll, FeedLoss, ExchAccept, ExchReply, ExchRefuse,
     RestTimeout, ExchExpire, ExchTrade, ExchTrigger, FillWhole, engineVars
<1>7. CASE UNCHANGED vars
  BY <1>7 DEF vars
<1> QED
  BY <1>2, <1>3, <1>4, <1>5, <1>6, <1>7 DEF Next

\* The join invariant holds initially.
LEMMA JoinInit == Init => JoinInv
<1> SUFFICES ASSUME Init PROVE JoinInv
  OBVIOUS
<1> QED
  BY DEF Init, JoinInv, DoubleConfirmation, NotPending, cmdReady, wsReady, notFinalizing

\* Placing a fresh order puts an empty entry among the pending ones.
LEMMA PlaceOrderJoins ==
  ASSUME TypeInv, JoinInv, NEW c \in Cids, NEW o, o # NoOrder, rest[c] # "ok", PlaceOrder(c, o),
         UNCHANGED <<orders, ws, fin, seen>>
  PROVE  JoinInv'
<1>0. \A d \in Cids : rest[d] = "ok" => d # c /\ rest'[d] = "ok"
  BY DEF PlaceOrder, TypeInv, TypeOK
<1>1. \A d \in Cids : info'[d] = NoOrder => rest'[d] = "none"
  BY DEF PlaceOrder, JoinInv, TypeInv, TypeOK
<1>2. cmd'.pc = "rest"
  BY DEF PlaceOrder, cmdReady
<1>3. \A d \in Cids : /\ pending'[d].rest => rest'[d] = "ok"
                      /\ pending'[d].ws # NoUpdate => pending'[d].ws.cid = d /\ d \in seen'
  BY <1>0 DEF PlaceOrder, JoinInv, TypeInv, TypeOK
<1>4. /\ ws'.pc = "fill" => ws'.upd.cid \in seen'
      /\ ws'.pc = "fill" /\ ws'.restReady => rest'[ws'.upd.cid] = "ok"
  BY <1>0 DEF JoinInv, TypeInv, Locals, Update
<1>5. \A a \in Actors : fin'[a].pc # "none" =>
                            rest'[fin'[a].upd.cid] = "ok" /\ fin'[a].upd.cid \in seen'
  BY <1>0 DEF JoinInv, Confirmed, TypeInv, Locals, Update
<1>6. DoubleConfirmation'
  BY <1>0 DEF JoinInv, DoubleConfirmation
<1> QED
  BY <1>1, <1>2, <1>3, <1>4, <1>5, <1>6 DEF JoinInv, Confirmed

\* Every step keeps the join invariant: the two tasks join REST and feed once.
LEMMA JoinNext == TypeInv /\ StatusInv /\ JoinInv /\ [Next]_vars => JoinInv'
<1> SUFFICES ASSUME TypeInv, StatusInv, JoinInv, [Next]_vars PROVE JoinInv'
  OBVIOUS
<1>0. /\ \A c \in Cids : rest[c] = "ok" => rest'[c] = "ok"
      /\ seen \subseteq seen'
  BY ArrivedStays
<1> USE DEF TypeInv, TypeOK, Locals
<1>1. ASSUME NEW s \in Sides, NEW q \in 1..MaxQty, NEW c \in Cids, OpenExisting(s, q, c) PROVE JoinInv'
  BY <1>1, PlaceOrderJoins DEF OpenExisting, OpenOrder, NoOrder, Fresh, JoinInv
<1>2. ASSUME NEW s \in Sides, NEW q \in 1..MaxQty, NEW c \in Cids, OpenNoLeverage(s, q, c) PROVE JoinInv'
  BY <1>2, <1>0 DEF OpenNoLeverage, OpenOrder, NoOrder, Fresh, JoinInv, Confirmed,
     DoubleConfirmation
<1>3. ASSUME NEW s \in Sides, NEW q \in 1..MaxQty, NEW c \in Cids, OpenNew(s, q, c) PROVE JoinInv'
  BY <1>3, <1>0 DEF OpenNew, OpenOrder, NoOrder, Fresh, cmdReady, JoinInv, Confirmed,
     DoubleConfirmation
<1>4. ASSUME NEW s \in Sides, NEW close \in BOOLEAN, NEW q \in 1..MaxQty, NEW c \in Cids,
             PlaceWithoutId(s, close, q, c) PROVE JoinInv'
  BY <1>4, PlaceOrderJoins, MaxQtyAssumption DEF PlaceWithoutId, NoOrder, Fresh, JoinInv
<1>5. ASSUME NEW s \in Sides, NEW c \in Cids, CloseRefused(s, c) PROVE JoinInv'
  BY <1>5, <1>0 DEF CloseRefused, NoOrder, Fresh, JoinInv, Confirmed, DoubleConfirmation
<1>6. ASSUME NEW s \in Sides, NEW c \in Cids, ClosePosition(s, c) PROVE JoinInv'
  BY <1>6, PlaceOrderJoins DEF ClosePosition, NoOrder, Fresh, JoinInv
<1>7. ASSUME NEW all \in BOOLEAN, CancelAll(all) PROVE JoinInv'
  BY <1>7, <1>0 DEF CancelAll, cmdReady, exchVars, JoinInv, Confirmed, DoubleConfirmation
<1>8. ASSUME LeverageFails PROVE JoinInv'
  BY <1>8, <1>0 DEF LeverageFails, cmdReady, JoinInv, Confirmed, DoubleConfirmation
<1>9. ASSUME LeverageSet PROVE JoinInv'
  <2>1. NoOrder.amount = 0
    BY DEF NoOrder
  <2>2. cmd.pc = "leverage" => info[cmd.cid].amount > 0
    BY DEF StatusInv
  <2> QED
    BY <1>9, <2>1, <2>2, PlaceOrderJoins DEF LeverageSet, JoinInv
<1>10. ASSUME RestOk PROVE JoinInv'
  BY <1>10, <1>0 DEF RestOk, exchVars, PendingOrder, CmdState, JoinInv, Confirmed,
     DoubleConfirmation
<1>11. ASSUME RestErr PROVE JoinInv'
  BY <1>11, <1>0 DEF RestErr, NotPending, cmdReady, exchVars, JoinInv, Confirmed,
     DoubleConfirmation
<1>12. ASSUME ReadWsOrder PROVE JoinInv'
  BY <1>12, <1>0 DEF ReadWsOrder, PendingOrder, FinState, cmdReady, exchVars, JoinInv,
     Confirmed, DoubleConfirmation
<1>13. ASSUME CancelDone PROVE JoinInv'
  BY <1>13, <1>0 DEF CancelDone, cmdReady, exchVars, JoinInv, Confirmed, DoubleConfirmation
<1>14. ASSUME NEW c \in Cids, CancelOne(c) PROVE JoinInv'
  <2>1. cmd'.pc = "results"
    BY <1>14 DEF CancelOne, CmdState
  <2>2. \A d \in Cids : pending'[d] \in {pending[d], NotPending}
    BY <1>14 DEF CancelOne
  <2>3. \A d \in Cids : orders'[d] \in {orders[d], NoUpdate}
    BY <1>14 DEF CancelOne
  <2>4. UNCHANGED <<info, ws, fin, seen, rest>>
    BY <1>14 DEF CancelOne, exchVars
  <2>5. \A d \in Cids : /\ pending'[d].rest => rest'[d] = "ok"
                        /\ pending'[d].ws # NoUpdate => pending'[d].ws.cid = d /\ d \in seen'
    BY <2>2, <2>4 DEF NotPending, JoinInv
  <2>6. DoubleConfirmation'
    BY <2>3, <2>4 DEF JoinInv, DoubleConfirmation
  <2> QED
    BY <2>1, <2>4, <2>5, <2>6 DEF JoinInv, Confirmed
<1>15. ASSUME TakePending PROVE JoinInv'
  BY <1>15, <1>0 DEF TakePending, wsReady, JoinInv, Confirmed, DoubleConfirmation
<1>16. ASSUME StorePending PROVE JoinInv'
  BY <1>16, <1>0 DEF StorePending, PendingOrder, WsState, Update, exchVars, JoinInv,
     Confirmed, DoubleConfirmation
<1>17. ASSUME FillPending PROVE JoinInv'
  BY <1>17, <1>0 DEF FillPending, FinState, wsReady, Update, exchVars, JoinInv, Confirmed,
     DoubleConfirmation
<1>18. ASSUME TakeConfirmed PROVE JoinInv'
  BY SMTT(40), <1>18, <1>0, FeedTyped DEF TakeConfirmed, wsReady, Update, JoinInv, Confirmed,
     DoubleConfirmation
<1>19. ASSUME ApplyConfirmed PROVE JoinInv'
  BY <1>19, <1>0 DEF ApplyConfirmed, wsReady, exchVars, JoinInv, Confirmed,
     DoubleConfirmation
<1>20. ASSUME IgnoreUpdate PROVE JoinInv'
  BY <1>20, <1>0 DEF IgnoreUpdate, engineVars, JoinInv, Confirmed, DoubleConfirmation
<1>21. ASSUME NEW a \in Actors, FinalizeRemove(a) PROVE JoinInv'
  BY <1>21, <1>0 DEF FinalizeRemove, NotPending, FinState, exchVars, JoinInv, Confirmed,
     DoubleConfirmation
<1>22. ASSUME NEW a \in Actors, FinalizeInsert(a) PROVE JoinInv'
  BY <1>22, <1>0 DEF FinalizeInsert, FinState, Update, exchVars, JoinInv, Confirmed,
     DoubleConfirmation
<1>23. ASSUME NEW a \in Actors, FinalizeEnd(a) PROVE JoinInv'
  BY <1>23, <1>0 DEF FinalizeEnd, notFinalizing, FinState, exchVars, JoinInv, Confirmed,
     DoubleConfirmation
<1>24. ASSUME ExchCancelAll PROVE JoinInv'
  <2>1. cmd'.pc = "results"
    BY <1>24 DEF ExchCancelAll, CmdState
  <2>2. UNCHANGED <<info, pending, orders, ws, fin, seen, rest>>
    BY <1>24 DEF ExchCancelAll
  <2> QED
    BY <2>1, <2>2 DEF JoinInv, Confirmed, DoubleConfirmation
<1>25. ASSUME FeedLoss PROVE JoinInv'
  BY <1>25, <1>0 DEF FeedLoss, engineVars, JoinInv, Confirmed, DoubleConfirmation
<1>26. ASSUME NEW c \in Cids, ExchAccept(c) \/ ExchExpire(c) PROVE JoinInv'
  BY <1>26, <1>0 DEF ExchAccept, ExchExpire, engineVars, JoinInv, Confirmed,
     DoubleConfirmation
<1>27. ASSUME NEW c \in Cids, ExchReply(c) PROVE JoinInv'
  BY <1>27, <1>0 DEF ExchReply, engineVars, Update, JoinInv, Confirmed, DoubleConfirmation
<1>28. ASSUME NEW c \in Cids, ExchRefuse(c) \/ RestTimeout(c) PROVE JoinInv'
  BY <1>28, <1>0 DEF ExchRefuse, RestTimeout, engineVars, Update, JoinInv, Confirmed,
     DoubleConfirmation
<1>29. ASSUME NEW c \in Cids, NEW q \in 1..MaxQty, ExchTrade(c, q) PROVE JoinInv'
  BY <1>29, <1>0 DEF ExchTrade, engineVars, JoinInv, Confirmed, DoubleConfirmation
<1>30. ASSUME NEW c \in Cids, ExchTrigger(c) PROVE JoinInv'
  BY <1>30, <1>0 DEF ExchTrigger, engineVars, JoinInv, Confirmed, DoubleConfirmation
<1>31. ASSUME UNCHANGED vars PROVE JoinInv'
  BY <1>31, <1>0 DEF vars, JoinInv, Confirmed, DoubleConfirmation
<1> QED
  BY <1>1, <1>2, <1>3, <1>4, <1>5, <1>6, <1>7, <1>8, <1>9, <1>10, <1>11, <1>12, <1>13,
     <1>14, <1>15, <1>16, <1>17, <1>18, <1>19, <1>20, <1>21, <1>22, <1>23, <1>24, <1>25,
     <1>26, <1>27, <1>28, <1>29, <1>30, <1>31 DEF Next, CmdNext, CmdStep, WsStep, Finalize,
     ExchStep

\* An order is confirmed only when both its REST reply and an update have arrived.
THEOREM DoubleConfirmationKept == Spec => []DoubleConfirmation
<1>1. JoinInv => DoubleConfirmation
  BY DEF JoinInv
<1> QED
  BY <1>1, TypeInit, TypeNext, StatusInit, StatusNext, JoinInit, JoinNext, PTL DEF Spec

-----------------------------------------------------------------------------
(* Genuine updates *)

\* An order of no positive amount: its fill, in paper mode, is a negative one that
\* ws_feed_loop does not process.
Barren(c) == info[c].amount <= 0

\* An update the exchange really sent, whatever the feed did to it since.
Genuine(u) ==
  LET c == u.cid
  IN /\ exch[c].st \in {"live", "done", "canceled", "swallowed"}
     /\ u.status = "Filled" =>
          /\ exch[c].st = "done" /\ u.exec = "Trade"
          /\ u.last > 0 \/ Barren(c)
          /\ u.filled = info[c].amount
     /\ u.status = "Canceled" => exch[c].st = "canceled"
     /\ u.status \in {"New", "PartiallyFilled", "Canceled"} =>
          u.filled < info[c].amount \/ Barren(c)

\* ... and one the engine accepts.
Valid(u) == Genuine(u) /\ u.status # "Unknown"

\* Every update in the feed and in the engine is genuine: what the engine later
\* tells of an order's end has really happened.
GenuineInv ==
  /\ \A c \in Cids : /\ rest[c] = "none" => exch[c].st = "none"
                     /\ exch[c].st = "none" => exch[c].filled = 0
                     /\ exch[c].st = "live" => exch[c].filled < info[c].amount \/ Barren(c)
  /\ \A i \in DOMAIN feed : Genuine(feed[i])
  /\ ws.pc # "idle" => Valid(ws.upd)
  /\ \A a \in Actors : fin[a].pc # "none" => Valid(fin[a].upd)
  /\ \A c \in Cids : pending[c].ws # NoUpdate => Valid(pending[c].ws)
  /\ \A c \in Cids : orders[c] # NoUpdate => orders[c].cid = c /\ Valid(orders[c])
  /\ \A c \in cmd.todo : exch[c].st = "canceled"

\* The parameters of an order are set once, and its REST call is never unmade.
LEMMA InfoStays ==
  ASSUME TypeInv, JoinInv, [Next]_vars, NEW c \in Cids, info[c] # NoOrder
  PROVE  /\ info'[c] = info[c]
         /\ rest[c] # "none" => rest'[c] # "none"
<1>t. /\ info \in [Cids -> Order \cup {NoOrder}] /\ cmd.pc = "leverage" => cmd.cid \in Cids
      /\ rest \in [Cids -> {"none", "called", "ok", "err"}]
  BY DEF TypeInv, TypeOK, Locals
<1>1. CASE CmdNext
  <2>1. ASSUME NEW d \in Cids, NEW o, Fresh(d), PlaceOrder(d, o)
        PROVE  info'[c] = info[c] /\ (rest[c] # "none" => rest'[c] # "none")
    BY <1>t, <2>1 DEF PlaceOrder, Fresh
  <2>2. ASSUME NEW d \in Cids, NEW o, Fresh(d), info' = [info EXCEPT ![d] = o]
        PROVE  info'[c] = info[c]
    BY <1>t, <2>2 DEF Fresh
  <2>3. ASSUME NEW s \in Sides, NEW q \in 1..MaxQty, NEW d \in Cids,
               \/ OpenExisting(s, q, d) \/ OpenNoLeverage(s, q, d) \/ OpenNew(s, q, d)
               \/ \E close \in BOOLEAN : PlaceWithoutId(s, close, q, d)
        PROVE  info'[c] = info[c] /\ (rest[c] # "none" => rest'[c] # "none")
    BY <2>1, <2>2, <2>3 DEF OpenExisting, OpenNoLeverage, OpenNew, PlaceWithoutId
  <2>4. ASSUME NEW s \in Sides, NEW d \in Cids, CloseRefused(s, d) \/ ClosePosition(s, d)
        PROVE  info'[c] = info[c] /\ (rest[c] # "none" => rest'[c] # "none")
    BY <2>1, <2>2, <2>4 DEF CloseRefused, ClosePosition
  <2> QED
    BY <1>1, <2>3, <2>4 DEF CmdNext, CancelAll, exchVars
<1>2. CASE CmdStep
  <2>1. LeverageSet => info'[c] = info[c] /\ (rest[c] # "none" => rest'[c] # "none")
    BY <1>t DEF LeverageSet, PlaceOrder
  <2>2. CASE UNCHANGED <<info, rest>>
    BY <2>2
  <2> QED
    BY <1>2, <2>1, <2>2 DEF CmdStep, LeverageFails, RestOk, RestErr, ReadWsOrder, CancelDone,
       CancelOne, exchVars
<1>3. CASE WsStep \/ \E a \in Actors : Finalize(a)
  BY <1>3 DEF WsStep, TakePending, StorePending, FillPending, TakeConfirmed, ApplyConfirmed,
     IgnoreUpdate, engineVars, exchVars, Finalize, FinalizeRemove, FinalizeInsert, FinalizeEnd
<1>4. CASE ExchStep
  BY <1>t, <1>4 DEF ExchStep, ExchCancelAll, FeedLoss, ExchAccept, ExchReply, ExchRefuse,
     RestTimeout, ExchExpire, ExchTrade, ExchTrigger, FillWhole, engineVars
<1>5. CASE UNCHANGED vars
  BY <1>5 DEF vars
<1> QED
  BY <1>1, <1>2, <1>3, <1>4, <1>5 DEF Next

\* What the exchange has settled for an order stays settled, and the order's
\* parameters no longer change once the exchange knows it.
LEMMA ExchStays ==
  ASSUME TypeInv, JoinInv, GenuineInv, [Next]_vars, NEW c \in Cids, exch[c].st # "none"
  PROVE  /\ info'[c] = info[c]
         /\ exch'[c].st # "none"
         /\ exch[c].st \in {"done", "canceled", "rejected", "swallowed"} =>
              exch'[c].st = exch[c].st
         /\ exch[c].st = "live" => exch'[c].st \in {"live", "done", "canceled", "swallowed"}
<1> USE DEF TypeInv, TypeOK
<1>0. info'[c] = info[c]
  BY InfoStays DEF JoinInv, GenuineInv
<1>1. CASE CmdNext
  BY ZenonT(30), <1>0, <1>1 DEF CmdNext, OpenExisting, OpenNoLeverage, OpenNew, CloseRefused, ClosePosition,
     PlaceWithoutId, CancelAll, exchVars
<1>2. CASE CmdStep
  BY <1>0, <1>2 DEF CmdStep, LeverageFails, LeverageSet, RestOk, RestErr, ReadWsOrder, CancelDone,
     CancelOne, exchVars
<1>3. CASE WsStep
  BY <1>0, <1>3 DEF WsStep, TakePending, StorePending, FillPending, TakeConfirmed, ApplyConfirmed,
     IgnoreUpdate, engineVars, exchVars
<1>4. CASE \E a \in Actors : Finalize(a)
  BY <1>0, <1>4 DEF Finalize, FinalizeRemove, FinalizeInsert, FinalizeEnd, exchVars
<1>5. CASE ExchStep
  <2>1. ASSUME NEW d \in Cids, ExchAccept(d) \/ ExchRefuse(d) PROVE exch'[c] = exch[c]
    BY <2>1 DEF ExchAccept, FillWhole, ExchRefuse
  <2>2. ASSUME NEW d \in Cids, ExchExpire(d)
        PROVE  exch'[c] = exch[c] \/ (exch[c].st = "live" /\ exch'[c].st = "canceled")
    BY <2>2 DEF ExchExpire, ExchState
  <2>3. ASSUME NEW d \in Cids, NEW q \in 1..MaxQty, ExchTrade(d, q)
        PROVE  exch'[c] = exch[c] \/ (exch[c].st = "live" /\ exch'[c].st \in {"live", "done"})
    BY <2>3 DEF ExchTrade, ExchState
  <2>4. ASSUME ExchCancelAll
        PROVE  exch'[c] = exch[c] \/ (exch[c].st = "live" /\ exch'[c].st = "canceled")
    BY <2>4 DEF ExchCancelAll, ExchState
  <2>5. ASSUME FeedLoss \/ \E d \in Cids : ExchReply(d) \/ RestTimeout(d)
        PROVE  exch'[c] = exch[c]
    BY <2>5 DEF FeedLoss, ExchReply, RestTimeout
  <2>6. ASSUME NEW d \in Cids, ExchTrigger(d)
        PROVE  exch'[c] = exch[c] \/ (exch[c].st = "live" /\ exch'[c].st \in {"done", "swallowed"})
    BY <2>6 DEF ExchTrigger, FillWhole, ExchState
  <2> QED
    BY <1>0, <1>5, <2>1, <2>2, <2>3, <2>4, <2>5, <2>6 DEF ExchStep
<1>6. CASE UNCHANGED vars
  BY <1>0, <1>6 DEF vars
<1> QED
  BY <1>1, <1>2, <1>3, <1>4, <1>5, <1>6 DEF Next

\* An update that was genuine remains so.
LEMMA GenuineStays ==
  ASSUME TypeInv, StatusInv, JoinInv, GenuineInv, [Next]_vars
  PROVE  \A u \in Update : /\ Genuine(u) => Genuine(u)'
                           /\ Valid(u) => Valid(u)'
<1>1. ASSUME NEW u \in Update, Genuine(u) PROVE Genuine(u)'
  <2>1. u.cid \in Cids
    BY DEF Update
  <2>2. exch[u.cid].st \in {"live", "done", "canceled", "swallowed"}
    BY <1>1 DEF Genuine
  <2>3. /\ info'[u.cid] = info[u.cid]
        /\ exch[u.cid].st \in {"done", "canceled", "swallowed"} => exch'[u.cid].st = exch[u.cid].st
        /\ exch[u.cid].st = "live" => exch'[u.cid].st \in {"live", "done", "canceled", "swallowed"}
    BY <2>1, <2>2, ExchStays
  <2> QED
    BY <1>1, <2>2, <2>3 DEF Genuine, Barren
<1> QED
  BY <1>1 DEF Valid

\* The feed is empty and the engine holds no update initially.
LEMMA GenuineInit == Init => GenuineInv
<1> SUFFICES ASSUME Init PROVE GenuineInv
  OBVIOUS
<1> QED
  BY DEF Init, GenuineInv, NotPending, cmdReady, wsReady, notFinalizing

\* A genuine update appended to the feed keeps the feed genuine.
LEMMA AppendGenuine ==
  ASSUME feed \in Seq(Update), NEW u \in Update, feed' = Append(feed, u), Genuine(u)',
         \A i \in DOMAIN feed : Genuine(feed[i]),
         \A v \in Update : Genuine(v) => Genuine(v)'
  PROVE  (\A i \in DOMAIN feed : Genuine(feed[i]))'
<1>1. SUFFICES ASSUME NEW v, \E i \in DOMAIN feed' : feed'[i] = v
               PROVE  Genuine(v)'
  OBVIOUS
<1>2. v = u \/ \E i \in DOMAIN feed : feed[i] = v
  BY <1>1
<1>3. CASE v = u
  BY <1>3
<1>4. CASE \E i \in DOMAIN feed : feed[i] = v
  BY <1>4
<1> QED
  BY <1>2, <1>3, <1>4

\* Placing an order leaves every update as genuine as it was.
LEMMA PlaceOrderGenuine ==
  ASSUME TypeInv, GenuineInv, NEW c \in Cids, NEW o, rest[c] = "none", PlaceOrder(c, o),
         UNCHANGED <<orders, ws, fin, exch, feed>>,
         \A u \in Update : (Genuine(u) => Genuine(u)') /\ (Valid(u) => Valid(u)')
  PROVE  GenuineInv'
<1> USE DEF TypeInv, TypeOK, Locals
<1>1. \A d \in Cids : pending'[d].ws # NoUpdate => pending[d].ws = pending'[d].ws
  BY DEF PlaceOrder
<1>2. \A d \in Cids : pending[d].ws # NoUpdate => pending[d].ws \in Update
  BY DEF PendingOrder
<1>3. \A d \in Cids : /\ rest'[d] = "none" => rest[d] = "none"
                      /\ exch[d].st = "live" => d # c
                      /\ d # c => info'[d] = info[d]
  BY DEF PlaceOrder, GenuineInv
<1>4. cmd'.todo = {}
  BY DEF PlaceOrder, cmdReady
<1>5. \A i \in DOMAIN feed : feed[i] \in Update
  OBVIOUS
<1>6. /\ ws.pc # "idle" => ws.upd \in Update
      /\ \A a \in Actors : fin[a].pc # "none" => fin[a].upd \in Update
      /\ \A d \in Cids : orders[d] # NoUpdate => orders[d] \in Update
  OBVIOUS
<1>7. (\A d \in Cids : pending[d].ws # NoUpdate => Valid(pending[d].ws))'
  BY <1>1, <1>2 DEF GenuineInv
<1>8. (\A d \in Cids : /\ rest[d] = "none" => exch[d].st = "none"
                       /\ exch[d].st = "none" => exch[d].filled = 0
                       /\ exch[d].st = "live" => exch[d].filled < info[d].amount \/ Barren(d))'
  BY <1>3 DEF GenuineInv, Barren
<1>9. (\A i \in DOMAIN feed : Genuine(feed[i]))'
  BY <1>5 DEF GenuineInv
<1>10. (/\ ws.pc # "idle" => Valid(ws.upd)
        /\ \A a \in Actors : fin[a].pc # "none" => Valid(fin[a].upd)
        /\ \A d \in Cids : orders[d] # NoUpdate => orders[d].cid = d /\ Valid(orders[d]))'
  BY <1>6 DEF GenuineInv
<1> QED
  BY <1>4, <1>7, <1>8, <1>9, <1>10 DEF GenuineInv

\* Every step keeps every update the engine holds genuine.
LEMMA GenuineNext == TypeInv /\ StatusInv /\ JoinInv /\ GenuineInv /\ [Next]_vars => GenuineInv'
<1> SUFFICES ASSUME TypeInv, StatusInv, JoinInv, GenuineInv, [Next]_vars PROVE GenuineInv'
  OBVIOUS
<1>0. \A u \in Update : (Genuine(u) => Genuine(u)') /\ (Valid(u) => Valid(u)')
  BY GenuineStays
<1> DEFINE AtExchange == \A c \in Cids : /\ rest[c] = "none" => exch[c].st = "none"
                                         /\ exch[c].st = "none" => exch[c].filled = 0
                                         /\ exch[c].st = "live" =>
                                              exch[c].filled < info[c].amount \/ Barren(c)
           InFeed == \A i \in DOMAIN feed : Genuine(feed[i])
           InWs == ws.pc # "idle" => Valid(ws.upd)
           InFin == \A a \in Actors : fin[a].pc # "none" => Valid(fin[a].upd)
           InPending == \A c \in Cids : pending[c].ws # NoUpdate => Valid(pending[c].ws)
           InOrders == \A c \in Cids : orders[c] # NoUpdate => orders[c].cid = c /\ Valid(orders[c])
           InTodo == \A c \in cmd.todo : exch[c].st = "canceled"
<1>t. /\ feed \in Seq(Update) /\ cmd \in CmdState /\ ws \in WsState
      /\ fin \in [Actors -> FinState] /\ pending \in [Cids -> PendingOrder]
      /\ orders \in [Cids -> Update \cup {NoUpdate}] /\ info \in [Cids -> Order \cup {NoOrder}]
      /\ exch \in [Cids -> ExchState] /\ rest \in [Cids -> {"none", "called", "ok", "err"}]
  BY DEF TypeInv, TypeOK
<1>l. /\ cmd.pc \in {"leverage", "rest", "read"} => cmd.cid \in Cids
      /\ ws.pc # "idle" => ws.upd \in Update
      /\ \A a \in Actors : fin[a].pc # "none" => fin[a].upd \in Update
  BY DEF TypeInv, Locals
<1>a. UNCHANGED <<info, rest, exch>> => AtExchange'
  BY DEF GenuineInv, Barren
<1>b. UNCHANGED feed \/ (feed # <<>> /\ feed' = Tail(feed)) => InFeed'
  <2>1. \A i \in DOMAIN feed : feed[i] \in Update
    BY <1>t
  <2>2. \A u \in Update : (\E i \in DOMAIN feed : feed[i] = u) => Genuine(u)'
    BY <1>0 DEF GenuineInv
  <2>3. CASE UNCHANGED feed
    BY <2>1, <2>2, <2>3
  <2>4. CASE feed # <<>> /\ feed' = Tail(feed)
    <3>1. \A i \in DOMAIN Tail(feed) : i + 1 \in DOMAIN feed /\ Tail(feed)[i] = feed[i + 1]
      BY <1>t, <2>4
    <3> QED
      BY <2>1, <2>2, <2>4, <3>1
  <2> QED
    BY <2>3, <2>4
<1>c. ws' = ws \/ ws'.pc = "idle" \/ (ws.pc # "idle" /\ ws'.upd = ws.upd) => InWs'
  BY <1>0, <1>l DEF GenuineInv
<1>d. ASSUME NEW a \in Actors, \A b \in Actors : b # a => fin'[b] = fin[b],
             fin'[a].pc # "none" => \E u \in Update : fin'[a].upd = u /\ Valid(u)'
      PROVE  InFin'
  BY <1>0, <1>l, <1>d DEF GenuineInv
<1>e. UNCHANGED fin => InFin'
  BY <1>0, <1>l DEF GenuineInv
<1>f. (\A c \in Cids : pending'[c].ws \in {pending[c].ws, NoUpdate}) => InPending'
  BY <1>0, <1>t DEF GenuineInv, PendingOrder
<1>g. (\A c \in Cids : orders'[c] \in {orders[c], NoUpdate}) => InOrders'
  BY <1>0, <1>t DEF GenuineInv
<1>h. cmd'.todo \subseteq cmd.todo /\ UNCHANGED exch => InTodo'
  BY DEF GenuineInv
<1>j. ASSUME NEW u \in Update, feed' = Append(feed, u), Genuine(u)'
      PROVE  InFeed'
  BY <1>0, <1>t, <1>j, AppendGenuine DEF GenuineInv
<1>i. AtExchange' /\ InFeed' /\ InWs' /\ InFin' /\ InPending' /\ InOrders' /\ InTodo' => GenuineInv'
  BY DEF GenuineInv
<1> HIDE DEF AtExchange, InFeed, InWs, InFin, InPending, InOrders, InTodo
<1>1. CASE CmdNext
  <2>1. ASSUME NEW s \in Sides, NEW q \in 1..MaxQty, NEW c \in Cids,
               OpenExisting(s, q, c) \/ \E close \in BOOLEAN : PlaceWithoutId(s, close, q, c)
        PROVE  GenuineInv'
    BY <1>0, <2>1, PlaceOrderGenuine DEF OpenExisting, PlaceWithoutId, Fresh, JoinInv
  <2>2. ASSUME NEW s \in Sides, NEW c \in Cids, ClosePosition(s, c)
        PROVE  GenuineInv'
    BY <1>0, <2>2, PlaceOrderGenuine DEF ClosePosition, Fresh, JoinInv
  <2>3. ASSUME NEW c \in Cids, NEW o, Fresh(c), info' = [info EXCEPT ![c] = o],
               UNCHANGED <<pending, orders, ws, fin, rest, exch, feed>>,
               cmd'.todo \subseteq cmd.todo
        PROVE  GenuineInv'
    <3>1. exch[c].st = "none"
      BY <2>3 DEF Fresh, JoinInv, GenuineInv
    <3>2. AtExchange'
      BY <2>3, <3>1 DEF GenuineInv, AtExchange, Barren
    <3> QED
      BY <2>3, <3>2, <1>b, <1>c, <1>e, <1>f, <1>g, <1>h, <1>i
  <2>4. ASSUME NEW s \in Sides, NEW q \in 1..MaxQty, NEW c \in Cids,
               OpenNoLeverage(s, q, c) \/ OpenNew(s, q, c)
        PROVE  GenuineInv'
    BY <2>3, <2>4 DEF OpenNoLeverage, OpenNew, cmdReady
  <2>5. ASSUME NEW s \in Sides, NEW c \in Cids, CloseRefused(s, c)
        PROVE  GenuineInv'
    BY <2>3, <2>5 DEF CloseRefused
  <2>6. ASSUME NEW all \in BOOLEAN, CancelAll(all)
        PROVE  GenuineInv'
    BY <2>6, <1>a, <1>b, <1>c, <1>e, <1>f, <1>g, <1>h, <1>i DEF CancelAll, cmdReady, exchVars
  <2> QED
    BY <1>1, <2>1, <2>2, <2>4, <2>5, <2>6 DEF CmdNext
<1>2. CASE CmdStep
  <2>1. CASE LeverageSet
    BY <1>0, <1>l, <2>1, PlaceOrderGenuine DEF LeverageSet, JoinInv
  <2>2. CASE ReadWsOrder
    <3> DEFINE u == pending[cmd.cid].ws
    <3>1. u # NoUpdate => \E v \in Update : u = v /\ Valid(v)'
      BY <1>0, <1>t, <1>l, <2>2 DEF ReadWsOrder, GenuineInv, PendingOrder
    <3>2. fin' = [fin EXCEPT !["cmd"] = IF u = NoUpdate THEN @ ELSE [pc |-> "remove", upd |-> u]]
      BY <2>2 DEF ReadWsOrder
    <3>3. InFin'
      <4>1. /\ \A b \in Actors : b # "cmd" => fin'[b] = fin[b]
            /\ fin'["cmd"] = IF u = NoUpdate THEN fin["cmd"] ELSE [pc |-> "remove", upd |-> u]
        BY <3>2, <1>t DEF Actors
      <4>2. fin'["cmd"].pc # "none" => \E v \in Update : fin'["cmd"].upd = v /\ Valid(v)'
        BY <3>1, <4>1, <1>0, <1>l DEF GenuineInv, Actors
      <4> QED
        BY <4>1, <4>2, <1>d DEF Actors
    <3> QED
      BY <2>2, <3>3, <1>a, <1>b, <1>c, <1>f, <1>g, <1>h, <1>i DEF ReadWsOrder, cmdReady, exchVars
  <2>3. CASE LeverageFails \/ RestOk \/ RestErr \/ CancelDone
    <3>1. \A c \in Cids : pending'[c].ws \in {pending[c].ws, NoUpdate}
      BY <2>3, <1>t DEF LeverageFails, RestOk, RestErr, CancelDone, NotPending, PendingOrder
    <3>2. cmd'.todo \subseteq cmd.todo
      BY <2>3, <1>t DEF LeverageFails, RestOk, RestErr, CancelDone, cmdReady, CmdState
    <3>3. UNCHANGED <<info, rest, exch, feed, ws, fin, orders>>
      BY <2>3, <1>t DEF LeverageFails, RestOk, RestErr, CancelDone, exchVars
    <3> QED
      BY <3>1, <3>2, <3>3, <1>a, <1>b, <1>c, <1>e, <1>f, <1>g, <1>h, <1>i
  <2>4. ASSUME NEW c \in Cids, CancelOne(c) PROVE GenuineInv'
    <3>1. \A d \in Cids : pending'[d].ws \in {pending[d].ws, NoUpdate}
      BY <2>4, <1>t DEF CancelOne, NotPending
    <3>2. \A d \in Cids : orders'[d] \in {orders[d], NoUpdate}
      BY <2>4, <1>t DEF CancelOne
    <3>3. cmd'.todo \subseteq cmd.todo
      BY <2>4, <1>t DEF CancelOne, CmdState
    <3>4. UNCHANGED <<info, rest, exch, feed, ws, fin>>
      BY <2>4, <1>t DEF CancelOne, exchVars
    <3> QED
      BY <3>1, <3>2, <3>3, <3>4, <1>a, <1>b, <1>c, <1>e, <1>f, <1>g, <1>h, <1>i
  <2> QED
    BY <1>2, <2>1, <2>2, <2>3, <2>4 DEF CmdStep
<1>3. CASE WsStep
  <2>0. /\ WsStep => UNCHANGED <<info, rest, exch, cmd>>
        /\ feed # <<>> => \E u \in Update : Head(feed) = u /\ Genuine(u)'
    <3>1. UNCHANGED <<info, rest, exch, cmd>>
      BY <1>3 DEF WsStep, TakePending, StorePending, FillPending, TakeConfirmed, ApplyConfirmed,
         IgnoreUpdate, engineVars, exchVars
    <3>2. feed # <<>> => 1 \in DOMAIN feed /\ Head(feed) = feed[1] /\ feed[1] \in Update
      BY <1>t
    <3> QED
      BY <3>1, <3>2, <1>0 DEF GenuineInv
  <2>1. CASE TakePending
    <3>1. InWs'
      BY <2>0, <2>1 DEF TakePending, wsReady, InWs, Valid
    <3> QED
      BY <1>3, <2>0, <2>1, <3>1, <1>a, <1>b, <1>e, <1>f, <1>g, <1>h, <1>i DEF TakePending
  <2>2. CASE StorePending
    <3>1. \E u \in Update : ws.upd = u /\ Valid(u)'
      BY <1>0, <1>l, <2>2 DEF StorePending, GenuineInv
    <3>2. InPending'
      BY <1>0, <1>t, <2>2, <3>1 DEF StorePending, GenuineInv, InPending, PendingOrder
    <3>3. ws.pc # "idle" /\ ws'.upd = ws.upd
      BY <2>2, <1>t DEF StorePending, WsState
    <3> QED
      BY <1>3, <2>0, <2>2, <3>2, <3>3, <1>a, <1>b, <1>c, <1>e, <1>g, <1>h, <1>i
      DEF StorePending, exchVars
  <2>3. CASE FillPending
    <3>1. \E u \in Update : ws.upd = u /\ Valid(u)'
      BY <1>0, <1>l, <2>3 DEF FillPending, GenuineInv
    <3>2. fin' = [fin EXCEPT !["ws"] = IF ws.restReady THEN [pc |-> "remove", upd |-> ws.upd] ELSE @]
      BY <2>3 DEF FillPending
    <3>3. InFin'
      <4>1. /\ \A b \in Actors : b # "ws" => fin'[b] = fin[b]
            /\ fin'["ws"] = IF ws.restReady THEN [pc |-> "remove", upd |-> ws.upd] ELSE fin["ws"]
        BY <3>2, <1>t DEF Actors
      <4>2. fin'["ws"].pc # "none" => \E v \in Update : fin'["ws"].upd = v /\ Valid(v)'
        BY <3>1, <4>1, <1>0, <1>l DEF GenuineInv, Actors
      <4> QED
        BY <4>1, <4>2, <1>d DEF Actors
    <3> QED
      BY <1>3, <2>0, <2>3, <3>3, <1>a, <1>b, <1>c, <1>f, <1>g, <1>h, <1>i
      DEF FillPending, wsReady, exchVars
  <2>4. CASE TakeConfirmed
    <3> DEFINE u == Head(feed)
    <3>1. \E v \in Update : u = v /\ v.cid \in Cids /\ Valid(v)'
      BY <2>0, <2>4 DEF TakeConfirmed, Valid, Update
    <3>2. InWs'
      BY <2>4, <3>1 DEF TakeConfirmed, wsReady, InWs
    <3>3. InOrders'
      BY <1>0, <1>t, <2>4, <3>1 DEF TakeConfirmed, GenuineInv, InOrders
    <3> QED
      BY <1>3, <2>0, <2>4, <3>2, <3>3, <1>a, <1>b, <1>e, <1>f, <1>h, <1>i DEF TakeConfirmed
  <2>5. CASE ApplyConfirmed
    <3>1. \A c \in Cids : orders'[c] \in {orders[c], NoUpdate}
      BY <2>5, <1>t DEF ApplyConfirmed
    <3> QED
      BY <1>3, <2>0, <2>5, <3>1, <1>a, <1>b, <1>c, <1>e, <1>f, <1>g, <1>h, <1>i
      DEF ApplyConfirmed, wsReady, exchVars
  <2>6. CASE IgnoreUpdate
    BY <1>3, <2>0, <2>6, <1>a, <1>b, <1>c, <1>e, <1>f, <1>g, <1>h, <1>i
    DEF IgnoreUpdate, engineVars
  <2> QED
    BY <1>3, <2>1, <2>2, <2>3, <2>4, <2>5, <2>6 DEF WsStep
<1>4. CASE \E a \in Actors : Finalize(a)
  <2>1. ASSUME NEW a \in Actors, FinalizeRemove(a) PROVE GenuineInv'
    <3>1. \E u \in Update : fin[a].upd = u /\ Valid(u)'
      BY <1>0, <1>l, <2>1 DEF FinalizeRemove, GenuineInv
    <3>2. InFin'
      BY <2>1, <3>1, <1>t, <1>d DEF FinalizeRemove, FinState
    <3>3. \A c \in Cids : pending'[c].ws \in {pending[c].ws, NoUpdate}
      BY <2>1, <1>t DEF FinalizeRemove, NotPending
    <3> QED
      BY <2>1, <3>2, <3>3, <1>a, <1>b, <1>c, <1>f, <1>g, <1>h, <1>i DEF FinalizeRemove, exchVars
  <2>2. ASSUME NEW a \in Actors, FinalizeInsert(a) PROVE GenuineInv'
    <3>1. \E u \in Update : fin[a].upd = u /\ Valid(u)'
      BY <1>0, <1>l, <2>2 DEF FinalizeInsert, GenuineInv
    <3>2. InFin'
      BY <2>2, <3>1, <1>t, <1>d DEF FinalizeInsert, FinState
    <3>3. InOrders'
      BY <1>0, <1>t, <2>2, <3>1 DEF FinalizeInsert, Update, GenuineInv, InOrders
    <3> QED
      BY <2>2, <3>2, <3>3, <1>a, <1>b, <1>c, <1>f, <1>h, <1>i DEF FinalizeInsert, exchVars
  <2>3. ASSUME NEW a \in Actors, FinalizeEnd(a) PROVE GenuineInv'
    <3>1. InFin'
      BY <2>3, <1>t, <1>d DEF FinalizeEnd, notFinalizing
    <3>2. \A c \in Cids : orders'[c] \in {orders[c], NoUpdate}
      BY <2>3, <1>t DEF FinalizeEnd
    <3>3. UNCHANGED <<info, pending, cmd, ws, rest, exch, feed>>
      BY <2>3 DEF FinalizeEnd, exchVars
    <3> QED
      BY <3>1, <3>2, <3>3, <1>a, <1>b, <1>c, <1>f, <1>g, <1>h, <1>i
  <2> QED
    BY <1>4, <2>1, <2>2, <2>3 DEF Finalize
<1>5. CASE ExchStep
  <2>1. CASE ExchCancelAll
    <3>1. \A c \in Cids : \/ exch'[c] = exch[c]
                          \/ /\ exch[c].st = "live" /\ exch'[c].st = "canceled"
      BY <2>1, <1>t DEF ExchCancelAll, ExchState
    <3>3. UNCHANGED <<rest, info>>
      BY <2>1 DEF ExchCancelAll
    <3>4. AtExchange'
      BY <3>1, <3>3 DEF GenuineInv, AtExchange, Barren
    <3>2. InTodo'
      <4>1. cmd'.todo \subseteq {c \in Cids : exch[c].st = "live"} /\ (~Paper => cmd'.todo = {})
        BY <2>1, <1>t DEF ExchCancelAll, CmdState
      <4>2. Paper => \A c \in Cids : exch[c].st = "live" => exch'[c].st = "canceled"
        BY <2>1, <1>t DEF ExchCancelAll, ExchState
      <4> QED
        BY <4>1, <4>2 DEF InTodo
    <3> QED
      BY <2>1, <3>2, <3>4, <1>b, <1>c, <1>e, <1>f, <1>g, <1>i DEF ExchCancelAll
  <2>2. CASE FeedLoss
    <3>1. CASE UNCHANGED feed \/ feed' = Tail(feed)
      BY <2>2, <3>1, <1>a, <1>b, <1>c, <1>e, <1>f, <1>g, <1>h, <1>i DEF FeedLoss, engineVars
    <3>2. CASE feed # <<>> /\ feed' = [feed EXCEPT ![1].status = "Unknown"]
      <4>1. UNCHANGED <<exch, info>> /\ feed[1] \in Update /\ Genuine(feed[1])
        BY <1>t, <2>2, <3>2 DEF FeedLoss, engineVars, GenuineInv
      <4>2. Genuine([feed[1] EXCEPT !.status = "Unknown"])'
        BY <3>2, <4>1, <1>t DEF Genuine, Update
      <4>3. \A i \in DOMAIN feed : feed[i] \in Update /\ Genuine(feed[i])
        BY <1>t DEF GenuineInv
      <4>4. \A i \in DOMAIN feed' : i \in DOMAIN feed /\ (i # 1 => feed'[i] = feed[i])
        BY <3>2, <1>t
      <4>5. InFeed'
        BY <1>0, <1>t, <3>2, <4>1, <4>2, <4>3, <4>4 DEF InFeed, Genuine
      <4> QED
        BY <2>2, <4>5, <1>a, <1>c, <1>e, <1>f, <1>g, <1>h, <1>i DEF FeedLoss, engineVars
    <3> QED
      BY <2>2, <3>1, <3>2 DEF FeedLoss
  <2>3. ASSUME NEW c \in Cids, ExchReply(c) \/ RestTimeout(c) PROVE GenuineInv'
    <3>1. AtExchange'
      BY <2>3, <1>t DEF ExchReply, RestTimeout, engineVars, GenuineInv, AtExchange, Barren
    <3> QED
      BY <2>3, <3>1, <1>b, <1>c, <1>e, <1>f, <1>g, <1>h, <1>i DEF ExchReply, RestTimeout, engineVars
  <2>4. ASSUME NEW c \in Cids, exch[c].st \in {"none", "live"}, UNCHANGED engineVars,
               AtExchange', InFeed', \A d \in Cids : d # c => exch'[d] = exch[d]
        PROVE  GenuineInv'
    <3>1. InTodo'
      BY <2>4, <1>t DEF GenuineInv, InTodo, engineVars, CmdState
    <3> QED
      BY <2>4, <3>1, <1>c, <1>e, <1>f, <1>g, <1>i DEF engineVars
  <2>w. ASSUME NEW c \in Cids, FillWhole(c), exch[c].st \in {"none", "live"}, rest[c] # "none",
               UNCHANGED <<engineVars, rest>>
        PROVE  GenuineInv'
    <3>1. AtExchange'
      BY <2>w, <1>t DEF FillWhole, engineVars, ExchState, GenuineInv, AtExchange, Barren
    <3>2. PICK q \in Int : q = info[c].amount
      BY <1>t, FieldsTyped
    <3> DEFINE u == [cid |-> c, exec |-> "Trade", status |-> "Filled", filled |-> q, last |-> q]
    <3>3. Genuine(u)' /\ u \in Update
      BY <2>w, <3>2, <1>t DEF Genuine, Barren, FillWhole, engineVars, Update, Statuses, ExchState
    <3>4. feed' = Append(feed, u)
      BY <2>w, <3>2 DEF FillWhole, Push
    <3> HIDE DEF u
    <3>5. InFeed'
      BY <3>3, <3>4, <1>j
    <3>6. \A d \in Cids : d # c => exch'[d] = exch[d]
      BY <2>w, <1>t DEF FillWhole
    <3> QED
      BY <2>4, <2>w, <3>1, <3>5, <3>6
  <2>5. ASSUME NEW c \in Cids, ExchAccept(c) PROVE GenuineInv'
    <3>1. exch[c].st = "none" /\ exch[c].filled = 0 /\ rest[c] # "none"
      BY <2>5 DEF ExchAccept, GenuineInv
    <3>2. CASE FillWhole(c)
      BY <2>5, <2>w, <3>1, <3>2 DEF ExchAccept
    <3>3. CASE exch' = [exch EXCEPT ![c].st = "live"]
      <4>1. AtExchange'
        <5>1. UNCHANGED <<rest, info>> /\ info[c].amount \in Int
          BY <2>5, <1>t, FieldsTyped DEF ExchAccept, engineVars
        <5>2. \A d \in Cids : \/ exch'[d] = exch[d]
                              \/ d = c /\ exch'[d].st = "live" /\ exch'[d].filled = 0
          BY <3>1, <3>3, <1>t DEF ExchState
        <5> QED
          BY <3>1, <5>1, <5>2 DEF GenuineInv, AtExchange, Barren
      <4>2. InFeed'
        <5>1. CASE Push(c, "New", "New", 0, 0)
          <6> DEFINE u == [cid |-> c, exec |-> "New", status |-> "New", filled |-> 0, last |-> 0]
          <6>0. info[c].amount \in Int /\ UNCHANGED info
            BY <2>5, <1>t, FieldsTyped DEF ExchAccept, engineVars
          <6>1. Genuine(u)' /\ u \in Update
            BY <3>1, <3>3, <6>0, <1>t DEF Genuine, Barren, Update, Statuses
          <6>2. feed' = Append(feed, u)
            BY <5>1 DEF Push
          <6> HIDE DEF u
          <6> QED
            BY <6>1, <6>2, <1>j
        <5>2. CASE UNCHANGED feed
          BY <5>2, <1>b
        <5>3. exch'[c].st = "live"
          BY <3>3, <1>t
        <5>4. FillWhole(c) => exch'[c].st = "done"
          BY <1>t DEF FillWhole
        <5> QED
          BY <2>5, <5>1, <5>2, <5>3, <5>4 DEF ExchAccept
      <4>3. \A d \in Cids : d # c => exch'[d] = exch[d]
        BY <3>3, <1>t
      <4> QED
        BY <2>4, <2>5, <3>1, <4>1, <4>2, <4>3 DEF ExchAccept
    <3> QED
      BY <2>5, <3>2, <3>3 DEF ExchAccept
  <2>6. ASSUME NEW c \in Cids, ExchRefuse(c) PROVE GenuineInv'
    <3>1. AtExchange'
      BY <2>6, <1>t DEF ExchRefuse, engineVars, GenuineInv, AtExchange, ExchState, Barren
    <3> QED
      BY <2>4, <2>6, <3>1, <1>b, <1>t DEF ExchRefuse
  <2>7. ASSUME NEW c \in Cids, ExchExpire(c) PROVE GenuineInv'
    <3>1. /\ exch[c].st = "live" /\ UNCHANGED <<info, rest>>
          /\ exch[c].filled < info[c].amount \/ Barren(c)
      BY <2>7 DEF ExchExpire, GenuineInv, engineVars
    <3>2. AtExchange'
      BY <2>7, <3>1, <1>t DEF ExchExpire, GenuineInv, AtExchange, ExchState, Barren
    <3>5. InFeed'
      <4>1. PICK f \in Int : f = exch[c].filled
        BY <1>t DEF ExchState
      <4> DEFINE u == [cid |-> c, exec |-> "Other", status |-> "Canceled", filled |-> f, last |-> 0]
      <4>2. Genuine(u)' /\ u \in Update
        BY <2>7, <3>1, <4>1, <1>t DEF Genuine, Barren, ExchExpire, Update, Statuses
      <4>3. feed' = Append(feed, u)
        BY <2>7, <4>1 DEF ExchExpire, Push
      <4> HIDE DEF u
      <4> QED
        BY <4>2, <4>3, <1>j
    <3> QED
      BY <2>4, <2>7, <3>1, <3>2, <3>5, <1>t DEF ExchExpire
  <2>8. ASSUME NEW c \in Cids, NEW q \in 1..MaxQty, ExchTrade(c, q) PROVE GenuineInv'
    <3>1. PICK f \in Int : f = exch[c].filled + q
      BY <1>t, MaxQtyAssumption DEF ExchState
    <3>2. PICK m \in Int : m = info[c].amount
      BY <1>t, FieldsTyped
    <3>3. /\ exch[c].st = "live" /\ f <= m /\ UNCHANGED <<info, rest, engineVars>>
          /\ exch' = [exch EXCEPT ![c] = [st |-> IF f = m THEN "done" ELSE "live", filled |-> f]]
      BY <2>8, <3>1, <3>2 DEF ExchTrade, engineVars
    <3>4. AtExchange'
      BY <3>2, <3>3, <1>t DEF GenuineInv, AtExchange, ExchState, Barren
    <3> DEFINE u == [cid |-> c, exec |-> "Trade", filled |-> f, last |-> q,
                     status |-> IF f = m THEN "Filled" ELSE "PartiallyFilled"]
    <3>5. Genuine(u)' /\ u \in Update
      BY <3>2, <3>3, <1>t, MaxQtyAssumption DEF Genuine, Barren, Update, Statuses
    <3>6. feed' = Append(feed, u)
      BY <2>8, <3>1, <3>2 DEF ExchTrade, Push
    <3>7. \A d \in Cids : d # c => exch'[d] = exch[d]
      BY <3>3, <1>t
    <3> HIDE DEF u
    <3>8. InFeed'
      BY <3>5, <3>6, <1>j
    <3> QED
      BY <2>4, <3>3, <3>4, <3>7, <3>8
  <2>9. ASSUME NEW c \in Cids, ExchTrigger(c) PROVE GenuineInv'
    <3>1. exch[c].st = "live" /\ rest[c] # "none" /\ UNCHANGED <<engineVars, rest>>
      BY <2>9 DEF ExchTrigger, GenuineInv
    <3>2. CASE FillWhole(c)
      BY <2>w, <3>1, <3>2
    <3>3. CASE exch' = [exch EXCEPT ![c].st = "swallowed"] /\ UNCHANGED feed
      <4>1. AtExchange'
        BY <3>1, <3>3, <1>t DEF engineVars, GenuineInv, AtExchange, ExchState, Barren
      <4>2. \A d \in Cids : d # c => exch'[d] = exch[d]
        BY <3>3, <1>t
      <4> QED
        BY <2>4, <3>1, <3>3, <4>1, <4>2, <1>b
    <3> QED
      BY <2>9, <3>2, <3>3 DEF ExchTrigger
  <2> QED
    BY <1>5, <2>1, <2>2, <2>3, <2>5, <2>6, <2>7, <2>8, <2>9 DEF ExchStep
<1>6. CASE UNCHANGED vars
  BY <1>6, <1>a, <1>b, <1>c, <1>e, <1>f, <1>g, <1>h, <1>i DEF vars
<1> QED
  BY <1>1, <1>2, <1>3, <1>4, <1>5, <1>6 DEF Next

-----------------------------------------------------------------------------
(* Truthful events *)

\* An order that was refused: no REST call is on its way, and none will be made.
Refused(c) ==
  /\ info[c] # NoOrder
  /\ rest[c] \in {"none", "err"}
  /\ cmd.pc = "leverage" => cmd.cid # c

\* EventsTruthful speaks of three ends of an order; a failed one has to stay failed.
EventInv ==
  /\ \A c \in Cids : Emitted(c, "Failed") => Refused(c)
  /\ ~RestMayTimeout => \A c \in Cids : rest[c] = "err" => exch[c].st = "rejected"
  /\ EventsTruthful

\* Emitting an event adds it to the events of its order, and to no other.
LEMMA EmitAdds ==
  ASSUME log \in [Cids -> Seq(OrderEvent)], NEW c \in Cids, NEW e \in OrderEvent, Emit(c, e),
         NEW d \in Cids, NEW x
  PROVE  Emitted(d, x)' <=> Emitted(d, x) \/ (d = c /\ x = e)
<1>1. /\ log[c] \in Seq(OrderEvent)
      /\ log'[c] = Append(log[c], e)
      /\ d # c => log'[d] = log[d]
  BY DEF Emit
<1>2. CASE d # c
  BY <1>1, <1>2 DEF Emitted
<1>3. CASE d = c
  BY <1>1, <1>3 DEF Emitted
<1> QED
  BY <1>2, <1>3

\* An order that was refused stays so.
LEMMA RefusedStays ==
  ASSUME TypeInv, StatusInv, JoinInv, GenuineInv, [Next]_vars, NEW c \in Cids, Refused(c)
  PROVE  Refused(c)'
<1>t. /\ rest \in [Cids -> {"none", "called", "ok", "err"}]
      /\ info \in [Cids -> Order \cup {NoOrder}] /\ cmd \in CmdState
      /\ cmd.pc \in {"leverage", "rest", "read"} => cmd.cid \in Cids
  BY DEF TypeInv, TypeOK, Locals
<1>1. CASE CmdNext
  <2>1. ASSUME NEW d \in Cids, NEW o, Fresh(d), PlaceOrder(d, o)
        PROVE  Refused(c)'
    BY <2>1, <1>t DEF PlaceOrder, Refused, Fresh, cmdReady
  <2>2. ASSUME NEW d \in Cids, NEW o, Fresh(d), info' = [info EXCEPT ![d] = o], UNCHANGED rest,
               UNCHANGED cmd \/ cmd' = [cmdReady EXCEPT !.pc = "leverage", !.cid = d]
        PROVE  Refused(c)'
    BY <2>2, <1>t DEF Refused, Fresh, cmdReady
  <2>3. ASSUME NEW s \in Sides, NEW q \in 1..MaxQty, NEW d \in Cids,
               OpenExisting(s, q, d) \/ \E close \in BOOLEAN : PlaceWithoutId(s, close, q, d)
        PROVE  Refused(c)'
    BY <2>1, <2>3 DEF OpenExisting, PlaceWithoutId
  <2>4. ASSUME NEW s \in Sides, NEW q \in 1..MaxQty, NEW d \in Cids,
               OpenNoLeverage(s, q, d) \/ OpenNew(s, q, d)
        PROVE  Refused(c)'
    BY <2>2, <2>4 DEF OpenNoLeverage, OpenNew
  <2>5. ASSUME NEW s \in Sides, NEW d \in Cids, CloseRefused(s, d) \/ ClosePosition(s, d)
        PROVE  Refused(c)'
    BY <2>1, <2>2, <2>5 DEF CloseRefused, ClosePosition
  <2>6. ASSUME NEW all \in BOOLEAN, CancelAll(all) PROVE Refused(c)'
    BY <2>6 DEF CancelAll, cmdReady, exchVars, Refused
  <2> QED
    BY <1>1, <2>3, <2>4, <2>5, <2>6 DEF CmdNext
<1>2. CASE CmdStep
  <2>1. CASE LeverageSet
    BY <2>1, <1>t DEF LeverageSet, PlaceOrder, Refused, cmdReady
  <2>2. CASE ~LeverageSet
    <3>1. UNCHANGED <<info, rest>> /\ cmd'.pc # "leverage"
      BY <1>2, <2>2, <1>t DEF CmdStep, LeverageFails, RestOk, RestErr, ReadWsOrder, CancelDone,
         CancelOne, cmdReady, CmdState, exchVars
    <3> QED
      BY <3>1 DEF Refused
  <2> QED
    BY <2>1, <2>2
<1>3. CASE WsStep \/ \E a \in Actors : Finalize(a)
  <2>1. UNCHANGED <<info, rest, cmd>>
    BY <1>3 DEF WsStep, TakePending, StorePending, FillPending, TakeConfirmed, ApplyConfirmed,
       IgnoreUpdate, engineVars, exchVars, Finalize, FinalizeRemove, FinalizeInsert, FinalizeEnd
  <2> QED
    BY <2>1 DEF Refused
<1>4. CASE ExchStep
  <2>1. UNCHANGED info /\ (UNCHANGED cmd \/ cmd'.pc = "results")
    BY <1>4, <1>t DEF ExchStep, ExchCancelAll, FeedLoss, ExchAccept, ExchReply, ExchRefuse,
       RestTimeout, ExchExpire, ExchTrade, ExchTrigger, FillWhole, engineVars, CmdState
  <2>2. rest[c] # "called" => rest'[c] = rest[c]
    BY <1>4, <1>t DEF ExchStep, ExchCancelAll, FeedLoss, ExchAccept, ExchReply, ExchRefuse,
       RestTimeout, ExchExpire, ExchTrade, ExchTrigger, FillWhole, engineVars
  <2> QED
    BY <2>1, <2>2 DEF Refused
<1>5. CASE UNCHANGED vars
  BY <1>5 DEF vars, Refused
<1> QED
  BY <1>1, <1>2, <1>3, <1>4, <1>5 DEF Next

\* What a step may tell of an order.
NewEvent(c, e) ==
  \/ e \in {"Placed", "Partial"}
  \/ e = "Filled" /\ exch[c].st = "done"
  \/ e = "Canceled" /\ exch[c].st = "canceled"
  \/ e = "Failed" /\ Refused(c)'

\* A step tells of an order only what has happened to it.
LEMMA NewEvents ==
  ASSUME TypeInv, StatusInv, JoinInv, GenuineInv, [Next]_vars,
         NEW c \in Cids, NEW e, Emitted(c, e)', ~Emitted(c, e)
  PROVE  NewEvent(c, e)
<1>t. log \in [Cids -> Seq(OrderEvent)]
  BY DEF TypeInv, TypeOK
<1>0. ASSUME NEW d \in Cids, NEW x \in OrderEvent, Emit(d, x), NewEvent(d, x)
      PROVE  NewEvent(c, e)
  BY <1>t, <1>0, EmitAdds
<1>1. ~UNCHANGED log
  BY DEF Emitted
<1>2. CASE CmdNext
  <2>1. ASSUME NEW s \in Sides, NEW q \in 1..MaxQty, NEW d \in Cids, OpenNoLeverage(s, q, d)
        PROVE  NewEvent(d, "Failed")
    BY <2>1 DEF OpenNoLeverage, NewEvent, Refused, Fresh, JoinInv, TypeInv, TypeOK, CmdIdle,
       OpenOrder, NoOrder
  <2>2. ASSUME NEW s \in Sides, NEW d \in Cids, CloseRefused(s, d)
        PROVE  NewEvent(d, "Failed")
    BY <2>2 DEF CloseRefused, NewEvent, Refused, Fresh, JoinInv, TypeInv, TypeOK, CmdIdle, NoOrder
  <2> QED
    BY ZenonT(30), <1>0, <1>1, <1>2, <2>1, <2>2 DEF CmdNext, OpenExisting, OpenNoLeverage, OpenNew,
       CloseRefused, ClosePosition, PlaceWithoutId, CancelAll, OrderEvent
<1>3. CASE CmdStep
  <2>1. CASE LeverageFails
    <3>1. cmd.cid \in Cids /\ info[cmd.cid] # NoOrder /\ rest[cmd.cid] = "none"
      BY <2>1 DEF LeverageFails, TypeInv, Locals, StatusInv, JoinInv, Order, NoOrder
    <3>2. PICK d \in Cids : d = cmd.cid
      BY <3>1
    <3>3. NewEvent(d, "Failed")
      BY <2>1, <3>1, <3>2 DEF LeverageFails, NewEvent, Refused, cmdReady
    <3> QED
      BY <2>1, <3>2, <3>3, <1>0 DEF LeverageFails, OrderEvent
  <2>2. CASE RestErr
    <3>1. cmd.cid \in Cids /\ info[cmd.cid] # NoOrder
      BY <2>2 DEF RestErr, TypeInv, Locals, JoinInv
    <3>2. PICK d \in Cids : d = cmd.cid
      BY <3>1
    <3>3. NewEvent(d, "Failed")
      BY <2>2, <3>1, <3>2 DEF RestErr, NewEvent, Refused, cmdReady, exchVars
    <3> QED
      BY <2>2, <3>2, <3>3, <1>0 DEF RestErr, OrderEvent
  <2>3. ASSUME NEW d \in Cids, CancelOne(d) PROVE NewEvent(c, e)
    <3>1. NewEvent(d, "Canceled") /\ Emit(d, "Canceled")
      BY <1>1, <2>3 DEF CancelOne, NewEvent, GenuineInv
    <3> QED
      BY <3>1, <1>0 DEF OrderEvent
  <2> QED
    BY <1>1, <1>3, <2>1, <2>2, <2>3 DEF CmdStep, LeverageSet, RestOk, ReadWsOrder, CancelDone
<1>4. CASE WsStep
  <2>1. ASSUME NEW q, NEW known, ws.pc # "idle",
               ProcessFill(ws.upd, info[ws.upd.cid].side, q, known)
        PROVE  NewEvent(c, e)
    <3>1. ws.upd.cid \in Cids /\ Valid(ws.upd)
      BY <2>1 DEF TypeInv, Locals, Update, GenuineInv
    <3>2. CASE ws.upd.status = "Filled"
      <4>1. NewEvent(ws.upd.cid, "Filled") /\ Emit(ws.upd.cid, "Filled")
        BY <2>1, <3>1, <3>2 DEF ProcessFill, NewEvent, Valid, Genuine
      <4> QED
        BY <3>1, <4>1, <1>0 DEF OrderEvent
    <3>3. CASE ws.upd.status # "Filled"
      <4>1. NewEvent(ws.upd.cid, "Partial") /\ Emit(ws.upd.cid, "Partial")
        BY <2>1, <3>3 DEF ProcessFill, NewEvent
      <4> QED
        BY <3>1, <4>1, <1>0 DEF OrderEvent
    <3> QED
      BY <3>2, <3>3
  <2>2. CASE FillPending
    BY <1>1, <2>1, <2>2 DEF FillPending
  <2>3. CASE ApplyConfirmed
    <3>1. CASE ws.upd.status = "Canceled" /\ Emit(ws.upd.cid, "Canceled")
      <4>1. ws.upd.cid \in Cids /\ NewEvent(ws.upd.cid, "Canceled")
        BY <2>3, <3>1 DEF ApplyConfirmed, TypeInv, Locals, Update, GenuineInv, Valid, Genuine, NewEvent
      <4> QED
        BY <3>1, <4>1, <1>0 DEF OrderEvent
    <3> QED
      BY <1>1, <2>1, <2>3, <3>1 DEF ApplyConfirmed
  <2> QED
    BY <1>1, <1>4, <2>2, <2>3 DEF WsStep, TakePending, StorePending, TakeConfirmed, IgnoreUpdate,
       engineVars
<1>5. CASE \E a \in Actors : Finalize(a)
  <2>1. ASSUME NEW a \in Actors, FinalizeEnd(a) PROVE NewEvent(c, e)
    <3>1. fin[a].upd.cid \in Cids /\ Valid(fin[a].upd)
      BY <2>1 DEF FinalizeEnd, TypeInv, Locals, Update, GenuineInv
    <3>2. \/ Emit(fin[a].upd.cid, "Placed") /\ NewEvent(fin[a].upd.cid, "Placed")
          \/ Emit(fin[a].upd.cid, "Canceled") /\ NewEvent(fin[a].upd.cid, "Canceled")
      BY <1>1, <2>1, <3>1 DEF FinalizeEnd, NewEvent, Valid, Genuine
    <3> QED
      BY <3>1, <3>2, <1>0 DEF OrderEvent
  <2> QED
    BY <1>1, <1>5, <2>1 DEF Finalize, FinalizeRemove, FinalizeInsert
<1>6. CASE ExchStep
  BY <1>1, <1>6 DEF ExchStep, ExchCancelAll, FeedLoss, ExchAccept, ExchReply, ExchRefuse,
     RestTimeout, ExchExpire, ExchTrade, ExchTrigger, FillWhole, engineVars
<1> QED
  BY <1>1, <1>2, <1>3, <1>4, <1>5, <1>6 DEF Next, vars

\* Nothing has been told initially.
LEMMA EventInit == Init => EventInv
  BY DEF Init, EventInv, EventsTruthful, Emitted

\* Every step keeps the events truthful.
LEMMA EventNext ==
  TypeInv /\ StatusInv /\ JoinInv /\ GenuineInv /\ EventInv /\ [Next]_vars => EventInv'
<1> SUFFICES ASSUME TypeInv, StatusInv, JoinInv, GenuineInv, EventInv, [Next]_vars PROVE EventInv'
  OBVIOUS
<1>1. \A c \in Cids : Refused(c) => Refused(c)'
  BY RefusedStays
<1>2. \A c \in Cids : exch[c].st \in {"done", "canceled", "rejected"} => exch'[c].st = exch[c].st
  BY ExchStays
<1>3. \A c \in Cids : Emitted(c, "Failed")' => Refused(c)'
  BY <1>1, NewEvents DEF EventInv, NewEvent
<1>4. ASSUME ~RestMayTimeout, NEW c \in Cids, rest'[c] = "err" PROVE exch'[c].st = "rejected"
  <2>1. CASE rest[c] = "err"
    BY <1>2, <1>4, <2>1 DEF EventInv
  <2>2. CASE rest[c] # "err"
    <3>1. CASE CmdNext
      <4>1. ASSUME NEW d \in Cids, NEW o, PlaceOrder(d, o) PROVE rest'[c] \in {rest[c], "called"}
        BY <4>1 DEF PlaceOrder, TypeInv, TypeOK
      <4> QED
        BY ZenonT(30), <1>4, <2>2, <3>1, <4>1 DEF CmdNext, OpenExisting, OpenNoLeverage, OpenNew, CloseRefused,
           ClosePosition, PlaceWithoutId, CancelAll, exchVars
    <3>2. CASE CmdStep
      BY <1>4, <2>2, <3>2 DEF CmdStep, LeverageFails, LeverageSet, RestOk, RestErr, ReadWsOrder,
         CancelDone, CancelOne, PlaceOrder, exchVars, TypeInv, TypeOK
    <3>3. CASE WsStep \/ \E a \in Actors : Finalize(a)
      BY <1>4, <2>2, <3>3 DEF WsStep, TakePending, StorePending, FillPending, TakeConfirmed,
         ApplyConfirmed, IgnoreUpdate, engineVars, exchVars, Finalize, FinalizeRemove,
         FinalizeInsert, FinalizeEnd
    <3>4. CASE ExchStep
      <4>1. ExchRefuse(c)
        BY <1>4, <2>2, <3>4 DEF ExchStep, ExchCancelAll, FeedLoss, ExchAccept, ExchReply,
           ExchRefuse, RestTimeout, ExchExpire, ExchTrade, ExchTrigger, FillWhole, engineVars,
           TypeInv, TypeOK
      <4> QED
        BY <4>1 DEF ExchRefuse, TypeInv, TypeOK, ExchState
    <3> QED
      BY <2>2, <1>4, <3>1, <3>2, <3>3, <3>4 DEF Next, vars
  <2> QED
    BY <2>1, <2>2
<1>5. ASSUME NEW c \in Cids
      PROVE  /\ Emitted(c, "Filled")' => exch'[c].st = "done"
             /\ Emitted(c, "Canceled")' => exch'[c].st = "canceled"
  BY <1>2, NewEvents DEF EventInv, EventsTruthful, NewEvent
<1>6. ASSUME NEW c \in Cids, Emitted(c, "Failed")', ~RestMayTimeout
      PROVE  exch'[c].st \in {"none", "rejected"}
  <2>1. rest'[c] \in {"none", "err"}
    BY <1>3, <1>6 DEF Refused
  <2>2. rest'[c] = "none" => exch'[c].st = "none"
    BY GenuineNext DEF GenuineInv
  <2> QED
    BY <1>4, <1>6, <2>1, <2>2
<1>7. EventsTruthful'
  BY <1>5, <1>6 DEF EventsTruthful
<1> QED
  BY <1>3, <1>4, <1>7 DEF EventInv

\* What the engine tells of an order's end is what happened at the exchange.
THEOREM EventsAreTruthful == Spec => []EventsTruthful
<1>1. EventInv => EventsTruthful
  BY DEF EventInv
<1> QED
  BY <1>1, TypeInit, TypeNext, StatusInit, StatusNext, JoinInit, JoinNext, GenuineInit, GenuineNext,
     EventInit, EventNext, PTL DEF Spec

-----------------------------------------------------------------------------
(* Handing an order over *)

\* How the two tasks pass an order's entries to one another: which of them may
\* hold what while the other is in the middle of a handler.
Handover ==
  /\ \A c \in Cids : orders[c] # NoUpdate <=> c \in orderPos
  /\ ws.pc # "idle" => fin["ws"].pc = "none"
  /\ cmd.pc # "idle" => fin["cmd"].pc = "none"
  /\ \A c \in Cids : ~pending[c].held => pending[c].ws = NoUpdate
  /\ ws.pc = "guard" => pending[ws.upd.cid].held
  /\ ws.pc = "stored" =>
       LET c == ws.upd.cid
       IN /\ rest[c] = "ok" /\ ~pending[c].held
          /\ c \notin orderPos => \A a \in Actors : fin[a].pc # "none" => fin[a].upd.cid # c

\* Nothing is being handed over initially.
LEMMA HandoverInit == Init => Handover
  BY DEF Init, Handover, NotPending, cmdReady, wsReady, notFinalizing

\* Placing an order disturbs no handover in progress.
LEMMA PlaceOrderHandsOver ==
  ASSUME TypeInv, Handover, NEW c \in Cids, NEW o, rest[c] # "ok", PlaceOrder(c, o),
         fin["cmd"].pc = "none", UNCHANGED <<orders, orderPos, ws, fin>>,
         \A d \in Cids : rest[d] = "ok" => rest'[d] = "ok"
  PROVE  Handover'
<1>1. \A d \in Cids : d # c => pending'[d] = pending[d]
  BY DEF PlaceOrder
<1>2. pending'[c].held
  BY DEF PlaceOrder, TypeInv, TypeOK
<1>3. ws.pc # "idle" => ws.upd.cid \in Cids
  BY DEF TypeInv, Locals, Update
<1>4. (ws.pc = "guard" => pending[ws.upd.cid].held)'
  BY <1>1, <1>2, <1>3 DEF Handover
<1>5. (ws.pc = "stored" =>
         LET d == ws.upd.cid
         IN /\ rest[d] = "ok" /\ ~pending[d].held
            /\ d \notin orderPos => \A a \in Actors : fin[a].pc # "none" => fin[a].upd.cid # d)'
  BY <1>1, <1>3 DEF Handover
<1>6. (\A d \in Cids : ~pending[d].held => pending[d].ws = NoUpdate)'
  BY <1>1, <1>2 DEF Handover
<1> QED
  BY <1>4, <1>5, <1>6 DEF Handover

\* Every step of either task keeps the handover in order.
LEMMA HandoverNext ==
  TypeInv /\ StatusInv /\ JoinInv /\ Handover /\ [Next]_vars => Handover'
<1> SUFFICES ASSUME TypeInv, StatusInv, JoinInv, Handover, [Next]_vars PROVE Handover'
  OBVIOUS
<1>0. \A c \in Cids : rest[c] = "ok" => rest'[c] = "ok"
  BY ArrivedStays
<1>t. /\ feed \in Seq(Update) /\ cmd \in CmdState /\ ws \in WsState
      /\ fin \in [Actors -> FinState] /\ pending \in [Cids -> PendingOrder]
      /\ orders \in [Cids -> Update \cup {NoUpdate}] /\ orderPos \subseteq Cids
  BY DEF TypeInv, TypeOK
<1>l. /\ cmd.pc \in {"leverage", "rest", "read"} => cmd.cid \in Cids
      /\ ws.pc # "idle" => ws.upd \in Update /\ ws.upd.cid \in Cids
      /\ \A a \in Actors : fin[a].pc # "none" => fin[a].upd \in Update /\ fin[a].upd.cid \in Cids
  BY DEF TypeInv, Locals, Update
<1> DEFINE Mapped == \A c \in Cids : orders[c] # NoUpdate <=> c \in orderPos
           WsAlone == ws.pc # "idle" => fin["ws"].pc = "none"
           CmdAlone == cmd.pc # "idle" => fin["cmd"].pc = "none"
           Entries == \A c \in Cids : ~pending[c].held => pending[c].ws = NoUpdate
           Locked == ws.pc = "guard" => pending[ws.upd.cid].held
           Stored == ws.pc = "stored" =>
                       LET c == ws.upd.cid
                       IN /\ rest[c] = "ok" /\ ~pending[c].held
                          /\ c \notin orderPos =>
                               \A a \in Actors : fin[a].pc # "none" => fin[a].upd.cid # c
<1>a. UNCHANGED <<orders, orderPos>> => Mapped'
  BY DEF Handover
<1>b. (ws'.pc = "idle" \/ UNCHANGED ws) /\ fin'["ws"] = fin["ws"] => WsAlone'
  BY DEF Handover
<1>c. cmd'.pc = "idle" \/ (cmd.pc # "idle" /\ fin'["cmd"] = fin["cmd"]) => CmdAlone'
  BY DEF Handover
<1>d. UNCHANGED pending => Entries'
  BY DEF Handover
<1>e. ws'.pc # "guard" \/ UNCHANGED <<ws, pending>> => Locked'
  BY DEF Handover
<1>f. \/ ws'.pc # "stored"
      \/ UNCHANGED <<ws, orderPos, fin>> /\ \A c \in Cids : ~pending[c].held => ~pending'[c].held
      => Stored'
  BY <1>0, <1>l DEF Handover
<1>g. UNCHANGED <<orders, orderPos, pending, ws, fin>> /\ (cmd'.pc = "idle" \/ cmd.pc # "idle")
      => Handover'
  BY <1>a, <1>b, <1>c, <1>d, <1>e, <1>f DEF Handover
<1>h. Mapped' /\ WsAlone' /\ CmdAlone' /\ Entries' /\ Locked' /\ Stored' => Handover'
  BY DEF Handover
<1>k. Mapped /\ WsAlone /\ CmdAlone /\ Entries /\ Locked /\ Stored
  BY DEF Handover
<1>u. NoUpdate \notin Update
  BY NoUpdateIsNone
<1>1. CASE CmdNext
  <2>1. ASSUME NEW s \in Sides, NEW q \in 1..MaxQty, NEW c \in Cids,
               OpenExisting(s, q, c) \/ \E close \in BOOLEAN : PlaceWithoutId(s, close, q, c)
        PROVE  Handover'
    BY <1>0, <2>1, PlaceOrderHandsOver DEF OpenExisting, PlaceWithoutId, Fresh, JoinInv, CmdIdle
  <2>2. ASSUME NEW s \in Sides, NEW c \in Cids, ClosePosition(s, c)
        PROVE  Handover'
    BY <1>0, <2>2, PlaceOrderHandsOver DEF ClosePosition, Fresh, JoinInv, CmdIdle
  <2>3. ASSUME UNCHANGED <<orders, orderPos, pending, ws, fin>>, CmdIdle PROVE Handover'
    BY <2>3, <1>a, <1>b, <1>d, <1>e, <1>f DEF Handover, CmdIdle
  <2> QED
    BY <1>1, <2>1, <2>2, <2>3 DEF CmdNext, OpenNoLeverage, OpenNew, CloseRefused, CancelAll
<1>2. CASE CmdStep
  <2>1. CASE LeverageSet
    BY <1>0, <1>l, <2>1, PlaceOrderHandsOver DEF LeverageSet, JoinInv, Handover
  <2>2. CASE LeverageFails \/ CancelDone
    BY <2>2, <1>g DEF LeverageFails, CancelDone, cmdReady
  <2>3. CASE RestOk
    <3>1. \A c \in Cids : /\ pending'[c].held = pending[c].held
                          /\ pending'[c].ws = pending[c].ws
      BY <2>3, <1>t, <1>l DEF RestOk, PendingOrder
    <3>2. UNCHANGED <<orders, orderPos, ws, fin>> /\ cmd.pc # "idle"
      BY <2>3 DEF RestOk
    <3>3. Locked'
      BY <1>k, <1>l, <3>1, <3>2
    <3>4. Entries'
      BY <1>k, <3>1
    <3> QED
      BY <3>1, <3>2, <3>3, <3>4, <1>a, <1>b, <1>c, <1>f, <1>h
  <2>4. CASE RestErr
    <3>1. /\ \A c \in Cids : pending'[c] = pending[c] \/ pending'[c] = NotPending
          /\ ws.pc = "guard" => pending'[ws.upd.cid] = pending[ws.upd.cid]
      BY <2>4, <1>t, <1>l DEF RestErr, Guarded
    <3>2. UNCHANGED <<orders, orderPos, ws, fin>> /\ cmd'.pc = "idle"
      BY <2>4 DEF RestErr, cmdReady
    <3>3. Locked'
      BY <1>k, <3>1, <3>2
    <3>4. Entries' /\ Stored'
      BY <1>k, <1>f, <3>1, <3>2 DEF NotPending
    <3> QED
      BY <3>2, <3>3, <3>4, <1>a, <1>b, <1>c, <1>h
  <2>5. CASE ReadWsOrder
    <3> DEFINE u == pending[cmd.cid].ws
    <3>1. /\ UNCHANGED <<orders, orderPos, ws, pending>> /\ cmd'.pc = "idle"
          /\ fin' = [fin EXCEPT !["cmd"] = IF u = NoUpdate THEN @ ELSE [pc |-> "remove", upd |-> u]]
      BY <2>5 DEF ReadWsOrder, cmdReady
    <3>2. /\ fin'["ws"] = fin["ws"]
          /\ fin'["cmd"] = IF u = NoUpdate THEN fin["cmd"] ELSE [pc |-> "remove", upd |-> u]
      BY <3>1, <1>t DEF Actors
    <3>3. u # NoUpdate => u.cid = cmd.cid /\ pending[cmd.cid].held
      BY <2>5, <1>l, <1>k DEF ReadWsOrder, JoinInv, NotPending
    <3>4. Stored'
      BY <3>1, <3>2, <3>3, <1>k, <1>0, <1>l DEF Actors
    <3> QED
      BY <3>1, <3>2, <3>4, <1>a, <1>b, <1>c, <1>d, <1>e, <1>h
  <2>6. ASSUME NEW c \in Cids, CancelOne(c) PROVE Handover'
    <3>1. /\ UNCHANGED <<ws, fin>> /\ cmd.pc = "results" /\ cmd'.pc = "results"
          /\ fin["cmd"].pc = "none"
      BY <2>6, <1>t, <1>k DEF CancelOne, CmdState
    <3>2. /\ \A d \in Cids : pending'[d] = pending[d] \/ pending'[d] = NotPending
          /\ ws.pc = "guard" => pending'[ws.upd.cid] = pending[ws.upd.cid]
      BY <2>6, <1>t, <1>l DEF CancelOne, Guarded
    <3>3. Mapped'
      BY <2>6, <1>t, <1>k DEF CancelOne
    <3>4. Locked' /\ Entries' /\ CmdAlone' /\ WsAlone'
      BY <1>k, <3>1, <3>2 DEF NotPending
    <3>5. Stored'
      BY <1>k, <1>0, <1>l, <3>1, <3>2 DEF NotPending, Actors
    <3> QED
      BY <3>3, <3>4, <3>5, <1>h
  <2> QED
    BY <1>2, <2>1, <2>2, <2>3, <2>4, <2>5, <2>6 DEF CmdStep
<1>3. CASE WsStep
  <2>0. UNCHANGED <<cmd, rest>>
    BY <1>3 DEF WsStep, TakePending, StorePending, FillPending, TakeConfirmed, ApplyConfirmed,
       IgnoreUpdate, engineVars, exchVars
  <2>1. CASE TakePending
    <3>1. ws'.pc = "guard" /\ fin["ws"].pc = "none" /\ pending[ws'.upd.cid].held
          /\ UNCHANGED <<orders, orderPos, pending, fin>>
      BY <2>1 DEF TakePending, WsIdle, wsReady
    <3> QED
      BY <2>0, <3>1, <1>k, <1>a, <1>d, <1>f, <1>h
  <2>2. CASE StorePending
    <3>1. /\ ws.pc = "guard" /\ ws'.pc = "fill" /\ UNCHANGED <<orders, orderPos, fin>>
          /\ \A c \in Cids : c # ws.upd.cid => pending'[c] = pending[c]
          /\ pending'[ws.upd.cid].held
      BY <2>2, <1>t, <1>l, <1>k DEF StorePending, WsState, PendingOrder
    <3>2. Entries'
      BY <3>1, <1>k
    <3> QED
      BY <2>0, <3>1, <3>2, <1>k, <1>a, <1>e, <1>f, <1>h
  <2>3. CASE FillPending
    <3>1. /\ ws'.pc = "idle" /\ UNCHANGED <<orders, orderPos, pending>>
          /\ fin'["cmd"] = fin["cmd"]
      BY <2>3, <1>t DEF FillPending, wsReady, Actors
    <3> QED
      BY <2>0, <3>1, <1>k, <1>a, <1>d, <1>e, <1>f, <1>h
  <2>4. CASE TakeConfirmed
    <3> DEFINE u == Head(feed)
    <3>1. /\ u \in Update /\ u.cid \in Cids /\ ~pending[u.cid].held /\ orders[u.cid] # NoUpdate
          /\ ws'.pc = "stored" /\ ws'.upd = u /\ fin["ws"].pc = "none"
          /\ orders' = [orders EXCEPT ![u.cid] = u] /\ UNCHANGED <<orderPos, pending, fin>>
      BY <2>4, <1>t, FeedTyped DEF TakeConfirmed, WsIdle, wsReady, Update
    <3>2. u.cid \in orderPos /\ rest[u.cid] = "ok"
      BY <3>1, <1>k DEF JoinInv, DoubleConfirmation
    <3>3. Mapped'
      BY <3>1, <3>2, <1>k, <1>t, <1>u
    <3> QED
      BY <2>0, <3>1, <3>2, <3>3, <1>k, <1>d, <1>e, <1>h
  <2>5. CASE ApplyConfirmed
    <3>1. /\ ws'.pc = "idle" /\ UNCHANGED <<pending, fin>>
          /\ \/ UNCHANGED <<orders, orderPos>>
             \/ /\ orders' = [orders EXCEPT ![ws.upd.cid] = NoUpdate]
                /\ orderPos' = orderPos \ {ws.upd.cid}
      BY <2>5 DEF ApplyConfirmed, wsReady
    <3>2. Mapped'
      BY <3>1, <1>k, <1>t
    <3> QED
      BY <2>0, <3>1, <3>2, <1>b, <1>d, <1>e, <1>f, <1>h, <1>k
  <2>6. CASE IgnoreUpdate
    BY <2>6, <2>0, <1>g, <1>k, <1>a, <1>b, <1>d, <1>e, <1>f, <1>h DEF IgnoreUpdate, engineVars
  <2> QED
    BY <1>3, <2>1, <2>2, <2>3, <2>4, <2>5, <2>6 DEF WsStep
<1>4. CASE \E a \in Actors : Finalize(a)
  <2>1. ASSUME NEW a \in Actors, FinalizeRemove(a) PROVE Handover'
    <3>1. /\ UNCHANGED <<orders, orderPos, ws, cmd, rest>>
          /\ \A c \in Cids : pending'[c] = pending[c] \/ pending'[c] = NotPending
          /\ ws.pc = "guard" => pending'[ws.upd.cid] = pending[ws.upd.cid]
          /\ \A b \in Actors : fin'[b].upd = fin[b].upd /\ (b # a => fin'[b] = fin[b])
          /\ fin[a].pc # "none"
      BY <2>1, <1>t, <1>l DEF FinalizeRemove, Guarded, FinState, exchVars
    <3>2. WsAlone' /\ CmdAlone'
      BY <3>1, <1>k DEF Actors
    <3>3. Entries' /\ Locked'
      BY <3>1, <1>k DEF NotPending
    <3>4. Stored'
      BY <3>1, <1>k, <1>l DEF NotPending
    <3> QED
      BY <3>1, <3>2, <3>3, <3>4, <1>a, <1>h
  <2>2. ASSUME NEW a \in Actors, FinalizeInsert(a) PROVE Handover'
    <3>1. /\ UNCHANGED <<pending, ws, cmd, rest>>
          /\ orders' = [orders EXCEPT ![fin[a].upd.cid] = fin[a].upd]
          /\ orderPos' = orderPos \cup {fin[a].upd.cid}
          /\ \A b \in Actors : fin'[b].upd = fin[b].upd /\ (b # a => fin'[b] = fin[b])
          /\ fin[a].pc # "none"
      BY <2>2, <1>t, <1>l DEF FinalizeInsert, FinState, exchVars
    <3>2. WsAlone' /\ CmdAlone'
      BY <3>1, <1>k DEF Actors
    <3>3. Mapped'
      BY <3>1, <1>k, <1>l, <1>t, <1>u
    <3>4. Stored'
      BY <3>1, <1>k, <1>l
    <3> QED
      BY <3>1, <3>2, <3>3, <3>4, <1>d, <1>e, <1>h
  <2>3. ASSUME NEW a \in Actors, FinalizeEnd(a) PROVE Handover'
    <3>1. /\ UNCHANGED <<pending, ws, cmd, rest>>
          /\ \/ UNCHANGED <<orders, orderPos>>
             \/ /\ orders' = [orders EXCEPT ![fin[a].upd.cid] = NoUpdate]
                /\ orderPos' = orderPos \ {fin[a].upd.cid}
          /\ fin'[a].pc = "none" /\ fin[a].pc # "none"
          /\ \A b \in Actors : b # a => fin'[b] = fin[b]
      BY <2>3, <1>t, <1>l DEF FinalizeEnd, notFinalizing, exchVars
    <3>2. WsAlone' /\ CmdAlone'
      BY <3>1, <1>k DEF Actors
    <3>3. Mapped'
      BY <3>1, <1>k, <1>l, <1>t
    <3>4. Stored'
      BY <3>1, <1>k, <1>l DEF Actors
    <3> QED
      BY <3>1, <3>2, <3>3, <3>4, <1>d, <1>e, <1>h
  <2> QED
    BY <1>4, <2>1, <2>2, <2>3 DEF Finalize
<1>5. CASE ExchStep
  <2>1. UNCHANGED <<orders, orderPos, pending, ws, fin>> /\ (UNCHANGED cmd \/ cmd.pc # "idle")
    BY <1>5 DEF ExchStep, ExchCancelAll, FeedLoss, ExchAccept, ExchReply, ExchRefuse, RestTimeout,
       ExchExpire, ExchTrade, ExchTrigger, FillWhole, engineVars
  <2> QED
    BY <2>1, <1>k, <1>g, <1>a, <1>b, <1>d, <1>e, <1>f, <1>h
<1>6. CASE UNCHANGED vars
  BY <1>6, <1>k, <1>a, <1>b, <1>d, <1>e, <1>f, <1>h DEF vars
<1> QED
  BY <1>1, <1>2, <1>3, <1>4, <1>5, <1>6 DEF Next

-----------------------------------------------------------------------------
(* Fills are told *)

\* ws_feed_loop has stored the last fill of a pending order and is about to apply it.
Filling(c) == ws.pc = "fill" /\ ws.upd.cid = c /\ ws.upd.status = "Filled"

\* The last fill of c has been told, or is just about to be, or is none.
Told(c) == Emitted(c, "Filled") \/ Filling(c) \/ (info[c] # NoOrder /\ Barren(c))

\* A Filled update the engine holds was told when it was taken from the feed, so
\* dropping its order loses nothing.
FillsTold ==
  /\ \A c \in Cids : pending[c].ws.status = "Filled" => Told(c)
  /\ \A a \in Actors : fin[a].pc # "none" /\ fin[a].upd.status = "Filled" => Told(fin[a].upd.cid)
  /\ \A c \in Cids : orders[c].status = "Filled" =>
       Told(c) \/ (ws.pc = "stored" /\ ws.upd.cid = c /\ ws.upd.status = "Filled")
  /\ ws.pc = "stored" /\ ws.upd.status = "Filled" /\ ws.delta <= 0 => Told(ws.upd.cid)

\* An event told stays told.
LEMMA EmittedStays ==
  ASSUME TypeInv, [Next]_vars, NEW c \in Cids, NEW e, Emitted(c, e)
  PROVE  Emitted(c, e)'
<1>t. log \in [Cids -> Seq(OrderEvent)]
  BY DEF TypeInv, TypeOK
<1>1. CASE UNCHANGED log
  BY <1>1 DEF Emitted
<1>2. ASSUME NEW d, NEW x, Emit(d, x) PROVE Emitted(c, e)'
  <2>1. log'[c] = log[c] \/ log'[c] = Append(log[c], x)
    BY <1>t, <1>2 DEF Emit
  <2> QED
    BY <1>t, <2>1 DEF Emitted
<1>3. ASSUME NEW u, NEW t, NEW q, NEW known, ProcessFill(u, t, q, known) PROVE Emitted(c, e)'
  BY <1>2, <1>3 DEF ProcessFill
<1>4. CASE CmdNext
  BY ZenonT(30), <1>1, <1>2, <1>4 DEF CmdNext, OpenExisting, OpenNoLeverage, OpenNew, CloseRefused,
     ClosePosition, PlaceWithoutId, CancelAll
<1>5. CASE CmdStep
  BY <1>1, <1>2, <1>5 DEF CmdStep, LeverageFails, LeverageSet, RestOk, RestErr, ReadWsOrder,
     CancelDone, CancelOne
<1>6. CASE WsStep
  BY <1>1, <1>2, <1>3, <1>6 DEF WsStep, TakePending, StorePending, FillPending, TakeConfirmed,
     ApplyConfirmed, IgnoreUpdate, engineVars
<1>7. CASE \E a \in Actors : Finalize(a)
  BY <1>1, <1>2, <1>7 DEF Finalize, FinalizeRemove, FinalizeInsert, FinalizeEnd
<1>8. CASE ExchStep
  BY <1>1, <1>8 DEF ExchStep, ExchCancelAll, FeedLoss, ExchAccept, ExchReply, ExchRefuse,
     RestTimeout, ExchExpire, ExchTrade, ExchTrigger, FillWhole, engineVars
<1>9. CASE UNCHANGED vars
  BY <1>1, <1>9 DEF vars
<1> QED
  BY <1>4, <1>5, <1>6, <1>7, <1>8, <1>9 DEF Next

\* Only ws_feed_loop moves its own locals.
LEMMA WsMoves == [Next]_vars => UNCHANGED ws \/ WsStep
<1>1. CmdNext => UNCHANGED ws
  BY ZenonT(30) DEF CmdNext, OpenExisting, OpenNoLeverage, OpenNew, CloseRefused, ClosePosition,
     PlaceWithoutId, CancelAll
<1>2. CmdStep => UNCHANGED ws
  BY DEF CmdStep, LeverageFails, LeverageSet, RestOk, RestErr, ReadWsOrder, CancelDone, CancelOne
<1>3. (\E a \in Actors : Finalize(a)) => UNCHANGED ws
  BY DEF Finalize, FinalizeRemove, FinalizeInsert, FinalizeEnd
<1>4. ExchStep => UNCHANGED ws
  BY DEF ExchStep, ExchCancelAll, FeedLoss, ExchAccept, ExchReply, ExchRefuse, RestTimeout,
     ExchExpire, ExchTrade, ExchTrigger, FillWhole, engineVars
<1>5. UNCHANGED vars => UNCHANGED ws
  BY DEF vars
<1> QED
  BY <1>1, <1>2, <1>3, <1>4, <1>5 DEF Next

\* An update that is genuine and Filled is a trade.
LEMMA FillPendingTells ==
  ASSUME TypeInv, GenuineInv, FillPending, ws.upd.status = "Filled", ~Barren(ws.upd.cid)
  PROVE  /\ ProcessFill(ws.upd, info[ws.upd.cid].side, ws.upd.last, TRUE)
         /\ \E c \in Cids : ws.upd.cid = c /\ Emitted(c, "Filled")'
<1>1. ws.upd.exec = "Trade" /\ IsFill(ws.upd) /\ ws.upd.last > 0
  BY DEF FillPending, GenuineInv, Valid, Genuine, IsFill
<1>2. ProcessFill(ws.upd, info[ws.upd.cid].side, ws.upd.last, TRUE)
  BY <1>1 DEF FillPending
<1>3. PICK c \in Cids : ws.upd.cid = c
  BY DEF FillPending, TypeInv, Locals, Update
<1>4. Emitted(c, "Filled")'
  BY <1>2, <1>3, EmitAdds DEF ProcessFill, TypeInv, TypeOK, OrderEvent
<1> QED
  BY <1>2, <1>3, <1>4

\* A fill that was told, or is about to be, is told in the end.
LEMMA ToldStays ==
  ASSUME TypeInv, JoinInv, GenuineInv, [Next]_vars, NEW c \in Cids, Told(c)
  PROVE  Told(c)'
<1>1. CASE Emitted(c, "Filled")
  BY <1>1, EmittedStays DEF Told
<1>3. CASE info[c] # NoOrder /\ Barren(c)
  BY <1>3, InfoStays DEF Told, Barren
<1>2. CASE Filling(c) /\ ~(info[c] # NoOrder /\ Barren(c))
  <2>1. CASE UNCHANGED ws
    BY <1>2, <2>1 DEF Told, Filling
  <2>2. CASE WsStep
    <3>1. FillPending
      BY <1>2, <2>2 DEF Filling, WsStep, TakePending, StorePending, TakeConfirmed, ApplyConfirmed,
         IgnoreUpdate, WsIdle
    <3>2. info[c] # NoOrder
      BY <1>2 DEF Filling, GenuineInv, Valid, Genuine, JoinInv
    <3> QED
      BY <1>2, <3>1, <3>2, FillPendingTells DEF Told, Filling
  <2> QED
    BY <2>1, <2>2, WsMoves
<1> QED
  BY <1>1, <1>2, <1>3 DEF Told

\* No fill has arrived initially.
LEMMA FillsToldInit == Init => FillsTold
  BY DEF Init, FillsTold, NotPending, NoUpdate, wsReady, notFinalizing

\* Every step keeps the Filled updates the engine holds told.
LEMMA FillsToldNext ==
  TypeInv /\ JoinInv /\ GenuineInv /\ Handover /\ FillsTold /\ [Next]_vars => FillsTold'
<1> SUFFICES ASSUME TypeInv, JoinInv, GenuineInv, Handover, FillsTold, [Next]_vars PROVE FillsTold'
  OBVIOUS
<1>0. \A c \in Cids : Told(c) => Told(c)'
  BY ToldStays
<1>t. /\ feed \in Seq(Update) /\ ws \in WsState
      /\ fin \in [Actors -> FinState] /\ pending \in [Cids -> PendingOrder]
      /\ orders \in [Cids -> Update \cup {NoUpdate}] /\ info \in [Cids -> Order \cup {NoOrder}]
  BY DEF TypeInv, TypeOK
<1>l. /\ cmd.pc \in {"leverage", "rest", "read"} => cmd.cid \in Cids
      /\ ws.pc # "idle" => ws.upd \in Update /\ ws.upd.cid \in Cids
      /\ \A a \in Actors : fin[a].pc # "none" => fin[a].upd \in Update /\ fin[a].upd.cid \in Cids
  BY DEF TypeInv, Locals, Update
<1>n. NoUpdate.status # "Filled"
  BY DEF NoUpdate
<1> DEFINE Store(c) == ws.pc = "stored" /\ ws.upd.cid = c /\ ws.upd.status = "Filled"
           InPending == \A c \in Cids : pending[c].ws.status = "Filled" => Told(c)
           InFin == \A a \in Actors : fin[a].pc # "none" /\ fin[a].upd.status = "Filled"
                                      => Told(fin[a].upd.cid)
           InOrders == \A c \in Cids : orders[c].status = "Filled" => Told(c) \/ Store(c)
           InWs == ws.pc = "stored" /\ ws.upd.status = "Filled" /\ ws.delta <= 0 => Told(ws.upd.cid)
<1>k. InPending /\ InFin /\ InOrders /\ InWs
  BY DEF FillsTold
<1>a. (\A c \in Cids : pending'[c].ws \in {pending[c].ws, NoUpdate}) => InPending'
  BY <1>0, <1>k, <1>n
<1>b. ASSUME NEW a \in Actors, \A b \in Actors : b # a => fin'[b] = fin[b],
             fin'[a].pc # "none" /\ fin'[a].upd.status = "Filled" =>
               \E c \in Cids : fin'[a].upd.cid = c /\ Told(c)'
      PROVE  InFin'
  <2>1. SUFFICES ASSUME NEW b \in Actors, fin'[b].pc # "none", fin'[b].upd.status = "Filled"
                 PROVE  \E c \in Cids : fin'[b].upd.cid = c /\ Told(c)'
    OBVIOUS
  <2> QED
    BY <1>0, <1>b, <1>k, <1>l, <2>1
<1>c. UNCHANGED fin => InFin'
  <2> SUFFICES ASSUME UNCHANGED fin, NEW b \in Actors, fin'[b].pc # "none",
                      fin'[b].upd.status = "Filled"
               PROVE  \E c \in Cids : fin'[b].upd.cid = c /\ Told(c)'
    OBVIOUS
  <2> QED
    BY <1>0, <1>k, <1>l
<1>d. (\A c \in Cids : orders'[c] \in {orders[c], NoUpdate} \/ orders'[c].status # "Filled")
      /\ (UNCHANGED ws \/ ws.pc # "stored")
      => InOrders'
  BY <1>0, <1>k, <1>n
<1>e. UNCHANGED ws \/ ws'.pc # "stored" => InWs'
  BY <1>0, <1>k, <1>l
<1>h. InPending' /\ InFin' /\ InOrders' /\ InWs' => FillsTold'
  BY DEF FillsTold
<1> HIDE DEF InPending, InFin, InOrders, InWs
<1>1. CASE CmdNext
  <2>1. \A c \in Cids : pending'[c].ws \in {pending[c].ws, NoUpdate}
    <3>1. ASSUME NEW c \in Cids, NEW o, PlaceOrder(c, o)
          PROVE  \A d \in Cids : pending'[d].ws \in {pending[d].ws, NoUpdate}
      BY <1>t, <3>1 DEF PlaceOrder
    <3> QED
      BY ZenonT(30), <1>1, <3>1 DEF CmdNext, OpenExisting, OpenNoLeverage, OpenNew, CloseRefused,
         ClosePosition, PlaceWithoutId, CancelAll
  <2>2. UNCHANGED <<orders, ws, fin>>
    BY ZenonT(30), <1>1 DEF CmdNext, OpenExisting, OpenNoLeverage, OpenNew, CloseRefused,
       ClosePosition, PlaceWithoutId, CancelAll
  <2> QED
    BY <2>1, <2>2, <1>a, <1>c, <1>d, <1>e, <1>h
<1>2. CASE CmdStep
  <2>1. \A c \in Cids : pending'[c].ws \in {pending[c].ws, NoUpdate}
    <3>1. ASSUME NEW c \in Cids, CancelOne(c)
          PROVE  \A d \in Cids : pending'[d].ws \in {pending[d].ws, NoUpdate}
      BY <1>t, <3>1 DEF CancelOne, NotPending
    <3>2. LeverageSet \/ RestOk \/ RestErr =>
            \A d \in Cids : pending'[d].ws \in {pending[d].ws, NoUpdate}
      BY <1>t DEF LeverageSet, PlaceOrder, RestOk, RestErr, NotPending, PendingOrder
    <3> QED
      BY <1>2, <3>1, <3>2 DEF CmdStep, LeverageFails, ReadWsOrder, CancelDone
  <2>2. UNCHANGED ws
    BY <1>2 DEF CmdStep, LeverageFails, LeverageSet, RestOk, RestErr, ReadWsOrder, CancelDone,
       CancelOne
  <2>3. \A c \in Cids : orders'[c] \in {orders[c], NoUpdate}
    <3>1. ASSUME NEW c \in Cids, CancelOne(c)
          PROVE  \A d \in Cids : orders'[d] \in {orders[d], NoUpdate}
      BY <1>t, <3>1 DEF CancelOne
    <3> QED
      BY <1>2, <3>1 DEF CmdStep, LeverageFails, LeverageSet, RestOk, RestErr, ReadWsOrder, CancelDone
  <2>4. InFin'
    <3>1. CASE ReadWsOrder
      <4> DEFINE u == pending[cmd.cid].ws
      <4>1. fin' = [fin EXCEPT !["cmd"] = IF u = NoUpdate THEN @ ELSE [pc |-> "remove", upd |-> u]]
        BY <3>1 DEF ReadWsOrder
      <4>2. /\ \A b \in Actors : b # "cmd" => fin'[b] = fin[b]
            /\ fin'["cmd"] = IF u = NoUpdate THEN fin["cmd"] ELSE [pc |-> "remove", upd |-> u]
        BY <4>1, <1>t DEF Actors
      <4>3. fin["cmd"].pc = "none"
        BY <3>1 DEF ReadWsOrder, Handover
      <4>4. u # NoUpdate => cmd.cid \in Cids /\ u.cid = cmd.cid /\ (u.status = "Filled" => Told(u.cid))
        BY <3>1, <1>l, <1>k DEF ReadWsOrder, JoinInv, InPending
      <4>5. fin'["cmd"].pc # "none" /\ fin'["cmd"].upd.status = "Filled" =>
              \E c \in Cids : fin'["cmd"].upd.cid = c /\ Told(c)'
        BY <4>2, <4>3, <4>4, <1>0
      <4> QED
        BY <4>2, <4>5, <1>b DEF Actors
    <3>2. CASE ~ReadWsOrder
      <4>1. UNCHANGED fin
        BY <1>2, <3>2 DEF CmdStep, LeverageFails, LeverageSet, RestOk, RestErr, CancelDone, CancelOne
      <4> QED
        BY <4>1, <1>c
    <3> QED
      BY <3>1, <3>2
  <2> QED
    BY <2>1, <2>2, <2>3, <2>4, <1>a, <1>d, <1>e, <1>h
<1>3. CASE WsStep
  <2>1. CASE TakePending \/ IgnoreUpdate
    <3>1. UNCHANGED <<pending, fin, orders>> /\ (UNCHANGED ws \/ (ws.pc = "idle" /\ ws'.pc = "guard"))
      BY <2>1 DEF TakePending, IgnoreUpdate, engineVars, WsIdle, wsReady
    <3> QED
      BY <3>1, <1>a, <1>c, <1>d, <1>e, <1>h
  <2>2. CASE StorePending
    <3>1. /\ UNCHANGED <<fin, orders>> /\ ws.pc = "guard" /\ ws'.pc = "fill" /\ ws'.upd = ws.upd
          /\ pending' = [pending EXCEPT ![ws.upd.cid].ws = ws.upd]
      BY <2>2, <1>t DEF StorePending, WsState
    <3>2. ASSUME NEW c \in Cids, pending'[c].ws.status = "Filled" PROVE Told(c)'
      <4>1. CASE c = ws.upd.cid
        BY <3>1, <3>2, <4>1, <1>t DEF Told, Filling, PendingOrder
      <4>2. CASE c # ws.upd.cid
        BY <3>1, <3>2, <4>2, <1>t, <1>k, <1>0 DEF InPending
      <4> QED
        BY <4>1, <4>2
    <3>3. InPending'
      BY <3>2 DEF InPending
    <3> QED
      BY <3>1, <3>3, <1>c, <1>d, <1>e, <1>h
  <2>3. CASE FillPending
    <3>1. /\ UNCHANGED <<pending, orders>> /\ ws.pc = "fill" /\ ws'.pc = "idle"
          /\ fin' = [fin EXCEPT !["ws"] = IF ws.restReady THEN [pc |-> "remove", upd |-> ws.upd] ELSE @]
      BY <2>3 DEF FillPending, wsReady
    <3>2. /\ \A b \in Actors : b # "ws" => fin'[b] = fin[b]
          /\ fin'["ws"] = IF ws.restReady THEN [pc |-> "remove", upd |-> ws.upd] ELSE fin["ws"]
      BY <3>1, <1>t DEF Actors
    <3>3. fin["ws"].pc = "none"
      BY <3>1 DEF Handover
    <3>4. ws.upd.status = "Filled" => \E c \in Cids : ws.upd.cid = c /\ Told(c)'
      <4>1. CASE Barren(ws.upd.cid)
        <5>1. PICK c \in Cids : c = ws.upd.cid
          BY <3>1, <1>l
        <5>2. info[c] # NoOrder
          BY <3>1, <5>1 DEF GenuineInv, Valid, Genuine, JoinInv
        <5> QED
          BY <4>1, <5>1, <5>2, <1>0 DEF Told
      <4>2. CASE ~Barren(ws.upd.cid)
        BY <2>3, <4>2, FillPendingTells DEF Told
      <4> QED
        BY <4>1, <4>2
    <3>5. fin'["ws"].pc # "none" /\ fin'["ws"].upd.status = "Filled" =>
              \E c \in Cids : fin'["ws"].upd.cid = c /\ Told(c)'
      BY <3>2, <3>3, <3>4
    <3>6. InFin'
      BY <3>2, <3>5, <1>b DEF Actors
    <3> QED
      BY <3>1, <3>6, <1>a, <1>d, <1>e, <1>h
  <2>4. CASE TakeConfirmed
    <3>1. PICK u \in Update : u = Head(feed)
      BY <2>4, FeedTyped DEF TakeConfirmed, TypeInv, TypeOK
    <3>2. PICK c \in Cids : c = u.cid
      BY DEF Update
    <3>3. /\ UNCHANGED <<pending, fin>> /\ orders' = [orders EXCEPT ![c] = u]
          /\ ws.pc = "idle" /\ ws'.pc = "stored" /\ ws'.upd = u
          /\ ws'.delta = u.filled - orders[c].filled
          /\ orders[c] # NoUpdate
      BY <2>4, <3>1, <3>2 DEF TakeConfirmed, WsIdle, wsReady
    <3>4. InOrders'
      <4>1. ASSUME NEW d \in Cids, orders'[d].status = "Filled" PROVE Told(d)' \/ Store(d)'
        <5>1. CASE d = c
          BY <3>2, <3>3, <4>1, <5>1, <1>t
        <5>2. CASE d # c
          BY <3>3, <4>1, <5>2, <1>t, <1>k, <1>0 DEF InOrders
        <5> QED
          BY <5>1, <5>2
      <4> QED
        BY <4>1 DEF InOrders
    <3>5. u.status = "Filled" /\ ws'.delta <= 0 => Told(c)'
      <4>1. SUFFICES ASSUME u.status = "Filled", ws'.delta <= 0 PROVE Told(c)
        BY <1>0
      <4>2. Genuine(u) /\ Valid(orders[c]) /\ orders[c].cid = c
        <5>1. Head(feed) = feed[1] /\ 1 \in DOMAIN feed
          BY <2>4, <1>t DEF TakeConfirmed
        <5> QED
          BY <3>1, <3>3, <5>1 DEF GenuineInv
      <4>3. orders[c] \in Update /\ orders[c].filled \in Int /\ u.filled \in Int
        BY <3>3, <1>t DEF Update
      <4>4. u.filled = info[c].amount
        BY <3>2, <4>1, <4>2 DEF Genuine
      <4>5. orders[c].status # "Filled" => orders[c].filled < info[c].amount \/ Barren(c)
        BY <4>2, <4>3 DEF Valid, Genuine, Update, Statuses
      <4>6. CASE orders[c].status = "Filled"
        BY <3>3, <4>6, <1>k DEF InOrders
      <4>7. CASE Barren(c)
        BY <3>2, <4>2, <4>7 DEF Told, Genuine, GenuineInv, JoinInv
      <4> QED
        BY <3>3, <4>1, <4>3, <4>4, <4>5, <4>6, <4>7
    <3>6. InWs'
      BY <3>2, <3>3, <3>5 DEF InWs
    <3> QED
      BY <3>3, <3>4, <3>6, <1>a, <1>c, <1>h
  <2>5. CASE ApplyConfirmed
    <3>1. /\ UNCHANGED <<pending, fin>> /\ ws.pc = "stored" /\ ws'.pc = "idle"
          /\ \A c \in Cids : orders'[c] \in {orders[c], NoUpdate}
          /\ ws.upd.status = "Filled" => orders' = [orders EXCEPT ![ws.upd.cid] = NoUpdate]
      BY <2>5, <1>t DEF ApplyConfirmed, wsReady
    <3>2. InOrders'
      BY <3>1, <1>0, <1>k, <1>n, <1>t DEF InOrders
    <3> QED
      BY <3>1, <3>2, <1>a, <1>c, <1>e, <1>h
  <2> QED
    BY <1>3, <2>1, <2>2, <2>3, <2>4, <2>5 DEF WsStep
<1>4. CASE \E a \in Actors : Finalize(a)
  <2>1. ASSUME NEW a \in Actors, FinalizeRemove(a) PROVE FillsTold'
    <3>1. /\ UNCHANGED <<orders, ws>>
          /\ \A c \in Cids : pending'[c].ws \in {pending[c].ws, NoUpdate}
          /\ fin[a].pc # "none" /\ fin'[a].upd = fin[a].upd
          /\ \A b \in Actors : b # a => fin'[b] = fin[b]
      BY <2>1, <1>t DEF FinalizeRemove, FinState, NotPending
    <3>2. InFin'
      BY <3>1, <1>b, <1>0, <1>k, <1>l DEF InFin
    <3> QED
      BY <3>1, <3>2, <1>a, <1>d, <1>e, <1>h
  <2>2. ASSUME NEW a \in Actors, FinalizeInsert(a) PROVE FillsTold'
    <3>1. /\ UNCHANGED <<pending, ws>>
          /\ orders' = [orders EXCEPT ![fin[a].upd.cid] = fin[a].upd]
          /\ fin[a].pc # "none" /\ fin'[a].upd = fin[a].upd
          /\ \A b \in Actors : b # a => fin'[b] = fin[b]
      BY <2>2, <1>t DEF FinalizeInsert, FinState
    <3>2. InFin'
      BY <3>1, <1>b, <1>0, <1>k, <1>l DEF InFin
    <3>3. ASSUME NEW c \in Cids, orders'[c].status = "Filled" PROVE Told(c)' \/ Store(c)'
      <4>1. CASE c = fin[a].upd.cid
        BY <3>1, <3>3, <4>1, <1>t, <1>k, <1>0 DEF InFin
      <4>2. CASE c # fin[a].upd.cid
        BY <3>1, <3>3, <4>2, <1>t, <1>k, <1>0 DEF InOrders
      <4> QED
        BY <4>1, <4>2
    <3>4. InOrders'
      BY <3>3 DEF InOrders
    <3> QED
      BY <3>1, <3>2, <3>4, <1>a, <1>e, <1>h
  <2>3. ASSUME NEW a \in Actors, FinalizeEnd(a) PROVE FillsTold'
    <3>1. /\ UNCHANGED <<pending, ws>> /\ fin'[a].pc = "none"
          /\ \A c \in Cids : orders'[c] \in {orders[c], NoUpdate}
          /\ \A b \in Actors : b # a => fin'[b] = fin[b]
      BY <2>3, <1>t DEF FinalizeEnd, notFinalizing
    <3>2. InFin'
      BY <3>1, <1>b
    <3> QED
      BY <3>1, <3>2, <1>a, <1>d, <1>e, <1>h
  <2> QED
    BY <1>4, <2>1, <2>2, <2>3 DEF Finalize
<1>5. CASE ExchStep
  <2>1. UNCHANGED <<pending, orders, ws, fin>>
    BY <1>5 DEF ExchStep, ExchCancelAll, FeedLoss, ExchAccept, ExchReply, ExchRefuse, RestTimeout,
       ExchExpire, ExchTrade, ExchTrigger, FillWhole, engineVars
  <2> QED
    BY <2>1, <1>a, <1>c, <1>d, <1>e, <1>h
<1>6. CASE UNCHANGED vars
  BY <1>6, <1>a, <1>c, <1>d, <1>e, <1>h DEF vars
<1> QED
  BY <1>1, <1>2, <1>3, <1>4, <1>5, <1>6 DEF Next

-----------------------------------------------------------------------------
(* Waiting positions *)

\* Something of order c is still to reach its position ...
Awaited(c) ==
  \/ pending[c].held
  \/ orders[c] # NoUpdate
  \/ \E a \in Actors : fin[a].pc \in {"remove", "insert"} /\ fin[a].upd.cid = c
  \/ Filling(c)

\* ... or nothing is, its entry having been forgotten.
Own(c) == c \in forgotten \/ (~Emitted(c, "Filled") /\ Awaited(c))

\* TransientOwned names too many witnesses to be inductive: an order whose last
\* fill has been applied is still watched for a while, but owns nothing anymore.
OwnerInv ==
  /\ \A c \in Cids : pending[c].held \/ c \in forgotten => rest[c] # "none"
  /\ \A s \in Sides : Waiting(positions[s]) =>
                       \E c \in Cids : info[c].side = s /\ ~Barren(c) /\ Own(c)

\* Rolling back a position, or filling it, leaves it waiting for nothing.
LEMMA ResolvedPosition ==
  ASSUME NEW p \in Position
  PROVE  /\ ~Waiting(RolledBack(p))
         /\ \A close \in BOOLEAN, q \in Int : ~Waiting(ApplyFill(p, close, q))
<1>1. ~Waiting(NoPosition)
  BY DEF Waiting, NoPosition, IsGhost
<1>2. ~Waiting(RolledBack(p))
  BY <1>1 DEF Position, RolledBack, Waiting, IsGhost
<1>3. ASSUME NEW close \in BOOLEAN, NEW q \in Int PROVE ~Waiting(ApplyFill(p, close, q))
  <2>1. /\ ~Waiting([status |-> "Open", qty |-> p.qty + q])
        /\ ~Waiting([status |-> "Open", qty |-> p.qty - q])
    BY DEF Waiting, IsGhost
  <2> QED
    BY <1>1, <2>1 DEF Position, ApplyFill
<1> QED
  BY <1>2, <1>3

\* A fill of an order whose position is known resolves that position.
LEMMA FillResolves ==
  ASSUME TypeInv, NEW u \in Update, NEW q \in Int, NEW s \in Sides, info[u.cid].side = s,
         ProcessFill(u, s, q, TRUE)
  PROVE  ~Waiting(positions'[s])
<1>1. info[u.cid].close \in BOOLEAN
  BY FieldsTyped DEF TypeInv, TypeOK, Update
<1>2. positions[s].status = "none" => ~Waiting(positions[s])
  BY DEF Waiting, IsGhost
<1>3. positions[s] \in Position
  BY DEF TypeInv, TypeOK
<1>4. ~Waiting(ApplyFill(positions[s], info[u.cid].close, q))
  BY <1>1, <1>3, ResolvedPosition
<1>5. positions'[s] = IF positions[s].status # "none"
                      THEN ApplyFill(positions[s], info[u.cid].close, q) ELSE positions[s]
  BY DEF ProcessFill, TypeInv, TypeOK
<1> QED
  BY <1>2, <1>4, <1>5

\* An order that owns a side's position keeps it, or the position is resolved.
LEMMA OwnStays ==
  ASSUME TypeInv, StatusInv, JoinInv, GenuineInv, Handover, FillsTold, [Next]_vars,
         NEW c \in Cids, NEW s \in Sides, info[c].side = s, ~Barren(c), Own(c)
  PROVE  Own(c)' \/ ~Waiting(positions'[s])
<1>t. /\ feed \in Seq(Update) /\ ws \in WsState /\ cmd \in CmdState
      /\ fin \in [Actors -> FinState] /\ pending \in [Cids -> PendingOrder]
      /\ orders \in [Cids -> Update \cup {NoUpdate}] /\ info \in [Cids -> Order \cup {NoOrder}]
      /\ positions \in [Sides -> Position] /\ log \in [Cids -> Seq(OrderEvent)]
  BY DEF TypeInv, TypeOK
<1>l. /\ cmd.pc \in {"leverage", "rest", "read"} => cmd.cid \in Cids
      /\ ws.pc # "idle" => ws.upd \in Update /\ ws.upd.cid \in Cids
      /\ \A a \in Actors : fin[a].pc # "none" => fin[a].upd \in Update /\ fin[a].upd.cid \in Cids
  BY DEF TypeInv, Locals, Update
<1> DEFINE InFin == \E a \in Actors : fin[a].pc \in {"remove", "insert"} /\ fin[a].upd.cid = c
           Quiet == Emitted(c, "Filled")' => Emitted(c, "Filled")
           Kept == /\ pending[c].held => pending'[c].held
                   /\ orders[c] # NoUpdate => orders'[c] # NoUpdate
                   /\ InFin => InFin'
                   /\ Filling(c) => Filling(c)'
                   /\ Quiet
                   /\ forgotten \subseteq forgotten'
<1>a. Kept => Own(c)'
  BY DEF Own, Awaited
<1>b. UNCHANGED log => Quiet
  BY DEF Emitted
<1>c. ASSUME NEW d, NEW e \in OrderEvent, Emit(d, e), e # "Filled" \/ d # c PROVE Quiet
  <2>1. CASE d \in Cids
    BY <1>t, <1>c, <2>1, EmitAdds
  <2>2. CASE d \notin Cids
    <3>1. log'[c] = log[c]
      BY <1>t, <1>c, <2>2 DEF Emit
    <3> QED
      BY <3>1 DEF Emitted
  <2> QED
    BY <2>1, <2>2
<1>d. UNCHANGED fin => (InFin => InFin')
  OBVIOUS
<1>e. UNCHANGED ws => (Filling(c) => Filling(c)')
  BY DEF Filling
<1>f. ASSUME NEW t, Rollback(t), t = s PROVE ~Waiting(positions'[s])
  BY <1>t, <1>f, ResolvedPosition DEF Rollback
<1>g. c \in forgotten /\ forgotten \subseteq forgotten' => Own(c)'
  BY DEF Own
<1> HIDE DEF InFin, Quiet
<1>1. CASE CmdNext
  <2>1. UNCHANGED <<orders, ws, fin, forgotten>>
    BY ZenonT(30), <1>1 DEF CmdNext, OpenExisting, OpenNoLeverage, OpenNew, CloseRefused, ClosePosition,
       PlaceWithoutId, CancelAll
  <2>2. pending[c].held => pending'[c].held
    <3>1. ASSUME NEW d \in Cids, NEW o, PlaceOrder(d, o) PROVE pending[c].held => pending'[c].held
      BY <1>t, <3>1 DEF PlaceOrder
    <3> QED
      BY ZenonT(30), <1>1, <3>1 DEF CmdNext, OpenExisting, OpenNoLeverage, OpenNew, CloseRefused,
         ClosePosition, PlaceWithoutId, CancelAll
  <2>3. Quiet
    <3>1. UNCHANGED log \/ \E d \in Cids : Emit(d, "Failed")
      BY ZenonT(30), <1>1 DEF CmdNext, OpenExisting, OpenNoLeverage, OpenNew, CloseRefused,
         ClosePosition, PlaceWithoutId, CancelAll
    <3> QED
      BY <3>1, <1>b, <1>c DEF OrderEvent
  <2> QED
    BY <2>1, <2>2, <2>3, <1>a, <1>d, <1>e
<1>2. CASE CmdStep
  <2>1. CASE LeverageFails \/ CancelDone
    BY <2>1, <1>a, <1>b, <1>c, <1>d, <1>e DEF LeverageFails, CancelDone, OrderEvent
  <2>2. CASE LeverageSet \/ RestOk
    <3>1. pending[c].held => pending'[c].held
      <4>1. CASE LeverageSet
        BY <4>1, <1>t DEF LeverageSet, PlaceOrder
      <4>2. CASE RestOk
        BY <4>2, <1>t, <1>l DEF RestOk, PendingOrder
      <4> QED
        BY <2>2, <4>1, <4>2
    <3> QED
      BY <2>2, <3>1, <1>a, <1>b, <1>d, <1>e DEF LeverageSet, RestOk
  <2>3. CASE RestErr
    <3>1. CASE c = cmd.cid
      BY <2>3, <3>1, <1>f DEF RestErr
    <3>2. CASE c # cmd.cid
      <4>1. pending'[c] = pending[c]
        BY <2>3, <3>2, <1>t DEF RestErr
      <4> QED
        BY <2>3, <3>2, <4>1, <1>a, <1>c, <1>d, <1>e DEF RestErr, OrderEvent
    <3> QED
      BY <3>1, <3>2
  <2>4. CASE ReadWsOrder
    <3>1. fin["cmd"].pc = "none" /\ UNCHANGED <<pending, orders, ws, log, forgotten>>
      BY <2>4 DEF ReadWsOrder, Handover
    <3>2. \A b \in Actors : b # "cmd" => fin'[b] = fin[b]
      BY <2>4, <1>t DEF ReadWsOrder
    <3>3. InFin => InFin'
      BY <3>1, <3>2 DEF InFin
    <3> QED
      BY <3>1, <3>3, <1>a, <1>b, <1>e
  <2>5. ASSUME NEW d \in Cids, CancelOne(d) PROVE Own(c)' \/ ~Waiting(positions'[s])
    <3>0. UNCHANGED <<ws, fin>> /\ forgotten \subseteq forgotten' /\ Quiet
      BY <2>5, <1>b, <1>c DEF CancelOne, OrderEvent
    <3>1. CASE c # d
      <4>1. pending'[c] = pending[c] /\ orders'[c] = orders[c]
        BY <2>5, <3>1, <1>t DEF CancelOne
      <4> QED
        BY <3>0, <4>1, <1>a, <1>d, <1>e
    <3>2. CASE c = d /\ orders[c] # NoUpdate
      <4>1. c \in orderPos
        BY <3>2 DEF Handover
      <4> QED
        BY <2>5, <3>2, <4>1, <1>f DEF CancelOne
    <3>3. CASE c = d /\ orders[c] = NoUpdate /\ pending[c].held
      <4>1. c \in forgotten'
        BY <2>5, <3>3 DEF CancelOne
      <4> QED
        BY <4>1 DEF Own
    <3>4. CASE c = d /\ orders[c] = NoUpdate /\ ~pending[c].held
      BY <3>0, <3>4, <1>a, <1>d, <1>e
    <3> QED
      BY <3>1, <3>2, <3>3, <3>4
  <2> QED
    BY <1>2, <2>1, <2>2, <2>3, <2>4, <2>5 DEF CmdStep
<1>3. CASE WsStep
  <2>1. CASE TakePending \/ IgnoreUpdate
    <3>1. UNCHANGED <<pending, orders, fin, log, forgotten>> /\ ~Filling(c)
      BY <2>1 DEF TakePending, IgnoreUpdate, engineVars, WsIdle, Filling
    <3> QED
      BY <3>1, <1>a, <1>b, <1>d
  <2>2. CASE StorePending
    <3>1. UNCHANGED <<orders, fin, log, forgotten>> /\ ~Filling(c)
      BY <2>2 DEF StorePending, Filling
    <3>2. pending[c].held => pending'[c].held
      BY <2>2, <1>t DEF StorePending, PendingOrder
    <3> QED
      BY <3>1, <3>2, <1>a, <1>b, <1>d
  <2>3. CASE FillPending
    <3>1. UNCHANGED <<pending, orders, forgotten>> /\ ws.pc = "fill" /\ fin["ws"].pc = "none"
      BY <2>3 DEF FillPending, Handover
    <3>2. \A b \in Actors : b # "ws" => fin'[b] = fin[b]
      BY <2>3, <1>t DEF FillPending
    <3>3. InFin => InFin'
      BY <3>1, <3>2 DEF InFin
    <3>4. CASE ws.upd.status = "Filled"
      <4>1. ws.upd \in Update /\ ws.upd.last \in Int
        BY <3>1, <1>l DEF Update
      <4>3. CASE ws.upd.cid = c
        <5>1. ProcessFill(ws.upd, info[ws.upd.cid].side, ws.upd.last, TRUE)
          BY <2>3, <3>4, <4>3, FillPendingTells
        <5> QED
          BY <4>1, <4>3, <5>1, FillResolves
      <4>4. CASE ws.upd.cid # c
        <5>1. UNCHANGED log \/ Emit(ws.upd.cid, "Filled")
          BY <2>3, <3>4 DEF FillPending, ProcessFill
        <5>2. Quiet
          BY <4>4, <5>1, <1>b, <1>c DEF OrderEvent
        <5> QED
          BY <3>1, <3>3, <4>4, <5>2, <1>a DEF Filling
      <4> QED
        BY <4>3, <4>4
    <3>5. CASE ws.upd.status # "Filled"
      <4>1. UNCHANGED log \/ Emit(ws.upd.cid, "Partial")
        BY <2>3, <3>5 DEF FillPending, ProcessFill
      <4>2. Quiet
        BY <4>1, <1>b, <1>c DEF OrderEvent
      <4> QED
        BY <3>1, <3>3, <3>5, <4>2, <1>a DEF Filling
    <3> QED
      BY <3>4, <3>5
  <2>4. CASE TakeConfirmed
    <3>1. UNCHANGED <<pending, fin, log, forgotten>> /\ ~Filling(c)
      BY <2>4 DEF TakeConfirmed, WsIdle, Filling
    <3>2. orders[c] # NoUpdate => orders'[c] # NoUpdate
      BY <2>4, <1>t, FeedTyped, NoUpdateIsNone DEF TakeConfirmed
    <3> QED
      BY <3>1, <3>2, <1>a, <1>b, <1>d
  <2>5. CASE ApplyConfirmed
    <3> DEFINE u == ws.upd  ended == u.status \in {"Canceled", "Filled"}
    <3>0. /\ UNCHANGED <<pending, fin, forgotten>> /\ ws.pc = "stored" /\ ~Filling(c)
          /\ u \in Update /\ u.cid \in Cids /\ ws.delta \in Int /\ ~pending[u.cid].held
      BY <2>5, <1>l, <1>t DEF ApplyConfirmed, Filling, Handover, WsState
    <3>1. CASE u.cid # c
      <4>1. orders'[c] = orders[c]
        BY <2>5, <3>1, <1>t DEF ApplyConfirmed
      <4>2. Quiet
        BY <2>5, <3>1, <1>b, <1>c DEF ApplyConfirmed, ProcessFill, OrderEvent
      <4> QED
        BY <3>0, <4>1, <4>2, <1>a, <1>d
    <3>2. CASE u.cid = c /\ ~ended
      <4>1. UNCHANGED orders
        BY <2>5, <3>2 DEF ApplyConfirmed
      <4>2. UNCHANGED log \/ Emit(c, "Partial")
        BY <2>5, <3>2 DEF ApplyConfirmed, ProcessFill
      <4>3. Quiet
        BY <4>2, <1>b, <1>c DEF OrderEvent
      <4> QED
        BY <3>0, <4>1, <4>3, <1>a, <1>d
    <3>3. CASE u.cid = c /\ c \notin orderPos
      <4>1. ~Awaited(c)
        BY <3>0, <3>3 DEF Awaited, Handover
      <4> QED
        BY <3>0, <4>1, <1>g DEF Own
    <3>4. CASE u.cid = c /\ c \in orderPos /\ u.status = "Canceled"
      <4>1. Rollback(s)
        BY <2>5, <3>4 DEF ApplyConfirmed, IsFill
      <4> QED
        BY <4>1, <1>f
    <3>5. CASE u.cid = c /\ c \in orderPos /\ u.status = "Filled" /\ ws.delta > 0
      <4>1. ProcessFill(u, s, ws.delta, TRUE)
        <5>1. ProcessFill(u, s, ws.delta, u.cid \in orderPos)
          BY <2>5, <3>0, <3>5 DEF ApplyConfirmed, IsFill
        <5> QED
          BY <3>5, <5>1 DEF ProcessFill
      <4> QED
        BY <3>0, <3>5, <4>1, FillResolves
    <3>6. CASE u.cid = c /\ u.status = "Filled" /\ ~(ws.delta > 0)
      <4>1. Emitted(c, "Filled")
        BY <3>0, <3>6 DEF FillsTold, Told
      <4> QED
        BY <3>0, <4>1, <1>g DEF Own
    <3> QED
      BY <3>1, <3>2, <3>3, <3>4, <3>5, <3>6
  <2> QED
    BY <1>3, <2>1, <2>2, <2>3, <2>4, <2>5 DEF WsStep
<1>4. CASE \E a \in Actors : Finalize(a)
  <2>1. ASSUME NEW a \in Actors, FinalizeRemove(a) PROVE Own(c)'
    <3>1. /\ UNCHANGED <<orders, ws, log, forgotten>>
          /\ \A b \in Actors : b # a => fin'[b] = fin[b]
          /\ fin[a].pc = "remove" /\ fin'[a].pc = "insert" /\ fin'[a].upd = fin[a].upd
          /\ c # fin[a].upd.cid => pending'[c] = pending[c]
      BY <2>1, <1>t, <1>l DEF FinalizeRemove, FinState
    <3>2. InFin => InFin'
      BY <3>1 DEF InFin
    <3>3. CASE c # fin[a].upd.cid
      BY <3>1, <3>2, <3>3, <1>a, <1>b, <1>e
    <3>4. CASE c = fin[a].upd.cid
      <4>1. Awaited(c)'
        BY <3>1, <3>4 DEF Awaited
      <4>2. Quiet
        BY <3>1, <1>b
      <4> QED
        BY <3>1, <4>1, <4>2 DEF Own, Quiet
    <3> QED
      BY <3>3, <3>4
  <2>2. ASSUME NEW a \in Actors, FinalizeInsert(a) PROVE Own(c)'
    <3>1. /\ UNCHANGED <<pending, ws, log, forgotten>>
          /\ \A b \in Actors : b # a => fin'[b] = fin[b]
          /\ fin[a].pc = "insert"
          /\ orders' = [orders EXCEPT ![fin[a].upd.cid] = fin[a].upd]
      BY <2>2, <1>t, <1>l DEF FinalizeInsert, FinState
    <3>2. CASE c = fin[a].upd.cid
      <4>1. orders'[c] # NoUpdate
        BY <3>1, <3>2, <1>t, <1>l, NoUpdateIsNone
      <4>2. Awaited(c)'
        BY <4>1 DEF Awaited
      <4>3. Quiet
        BY <3>1, <1>b
      <4> QED
        BY <3>1, <4>2, <4>3 DEF Own, Quiet
    <3>3. CASE c # fin[a].upd.cid
      <4>1. orders'[c] = orders[c] /\ (InFin => InFin')
        BY <3>1, <3>3, <1>t DEF InFin
      <4> QED
        BY <3>1, <4>1, <1>a, <1>b, <1>e
    <3> QED
      BY <3>2, <3>3
  <2>3. ASSUME NEW a \in Actors, FinalizeEnd(a) PROVE Own(c)' \/ ~Waiting(positions'[s])
    <3> DEFINE u == fin[a].upd
    <3>1. /\ UNCHANGED <<pending, ws, forgotten>> /\ fin[a].pc = "end"
          /\ \A b \in Actors : b # a => fin'[b] = fin[b]
      BY <2>3, <1>t DEF FinalizeEnd
    <3>2. InFin => InFin'
      BY <3>1 DEF InFin
    <3>3. Quiet
      BY <2>3, <1>b, <1>c DEF FinalizeEnd, OrderEvent
    <3>4. CASE u.cid # c \/ u.status \notin {"Filled", "Canceled"}
      <4>1. orders'[c] = orders[c]
        BY <2>3, <3>4, <1>t DEF FinalizeEnd
      <4> QED
        BY <3>1, <3>2, <3>3, <4>1, <1>a, <1>e
    <3>5. CASE u.cid = c /\ u.status = "Canceled"
      <4>1. Rollback(s)
        BY <2>3, <3>5 DEF FinalizeEnd
      <4> QED
        BY <4>1, <1>f
    <3>6. CASE u.cid = c /\ u.status = "Filled"
      <4>1. Told(c)
        BY <3>1, <3>6 DEF FillsTold
      <4>2. CASE Emitted(c, "Filled")
        BY <3>1, <4>2, <1>g DEF Own
      <4>3. CASE Filling(c)
        <5>1. Awaited(c)'
          BY <3>1, <4>3 DEF Awaited, Filling
        <5> QED
          BY <3>1, <3>3, <5>1 DEF Own, Quiet
      <4> QED
        BY <4>1, <4>2, <4>3 DEF Told
    <3> QED
      BY <3>4, <3>5, <3>6
  <2> QED
    BY <1>4, <2>1, <2>2, <2>3 DEF Finalize
<1>5. CASE ExchStep
  <2>1. UNCHANGED <<pending, orders, ws, fin, log, forgotten>>
    BY <1>5 DEF ExchStep, ExchCancelAll, FeedLoss, ExchAccept, ExchReply, ExchRefuse, RestTimeout,
       ExchExpire, ExchTrade, ExchTrigger, FillWhole, engineVars
  <2> QED
    BY <2>1, <1>a, <1>b, <1>d, <1>e
<1>6. CASE UNCHANGED vars
  BY <1>6, <1>a, <1>b, <1>d, <1>e DEF vars
<1> QED
  BY <1>1, <1>2, <1>3, <1>4, <1>5, <1>6 DEF Next

\* A position that starts to wait waits for the order just placed.
LEMMA NewlyWaiting ==
  ASSUME TypeInv, StatusInv, JoinInv, GenuineInv, EventInv, [Next]_vars,
         NEW s \in Sides, Waiting(positions'[s]), ~Waiting(positions[s])
  PROVE  \E c \in Cids : info'[c].side = s /\ ~Barren(c)' /\ Own(c)'
<1>t. /\ info \in [Cids -> Order \cup {NoOrder}] /\ pending \in [Cids -> PendingOrder]
      /\ positions \in [Sides -> Position]
  BY DEF TypeInv, TypeOK
<1>1. ASSUME NEW c \in Cids, NEW o, o.side = s, o.amount \in Int, o.amount > 0,
             rest[c] = "none", PlaceOrder(c, o), UNCHANGED log
      PROVE  \E d \in Cids : info'[d].side = s /\ ~Barren(d)' /\ Own(d)'
  <2>1. ~Emitted(c, "Filled")'
    BY <1>1 DEF EventInv, EventsTruthful, GenuineInv, Emitted
  <2>2. pending'[c].held /\ info'[c].side = s /\ ~Barren(c)'
    BY <1>1, <1>t DEF PlaceOrder, Barren
  <2> QED
    BY <2>1, <2>2 DEF Own, Awaited
<1>2. CASE UNCHANGED positions
  BY <1>2
<1>3. ASSUME NEW t, Rollback(t) PROVE FALSE
  BY <1>t, <1>3, ResolvedPosition DEF Rollback
<1>4. ASSUME NEW u \in Update, NEW q \in Int, NEW known, u.cid \in Cids,
             ProcessFill(u, info[u.cid].side, q, known)
      PROVE  FALSE
  <2>1. info[u.cid].close \in BOOLEAN
    BY <1>4, <1>t, FieldsTyped
  <2>2. ~Waiting(ApplyFill(positions[s], info[u.cid].close, q))
    BY <1>t, <2>1, ResolvedPosition
  <2> QED
    BY <1>4, <1>t, <2>2 DEF ProcessFill
<1>5. CASE CmdNext
  <2>1. ASSUME NEW t \in Sides, NEW q \in 1..MaxQty, NEW c \in Cids, NEW close \in BOOLEAN,
               PlaceWithoutId(t, close, q, c)
        PROVE  \E d \in Cids : info'[d].side = s /\ ~Barren(d)' /\ Own(d)'
    <3>1. s = t
      BY <2>1, <1>t DEF PlaceWithoutId
    <3> QED
      BY <2>1, <3>1, <1>1, MaxQtyAssumption DEF PlaceWithoutId, Fresh, JoinInv
  <2>2. ASSUME NEW t \in Sides, NEW c \in Cids, ClosePosition(t, c)
        PROVE  \E d \in Cids : info'[d].side = s /\ ~Barren(d)' /\ Own(d)'
    <3>1. s = t
      BY <2>2, <1>t DEF ClosePosition
    <3>2. positions[s].qty \in Int /\ positions'[s] = [positions[s] EXCEPT !.status = "Closing"]
      BY <2>2, <3>1, <1>t DEF ClosePosition, Position
    <3>3. positions[s].qty > 0
      BY <3>2, <1>t DEF Waiting, IsGhost, Position
    <3> QED
      BY <2>2, <3>1, <3>2, <3>3, <1>1 DEF ClosePosition, Fresh, JoinInv
  <2> QED
    BY <1>2, <1>5, <2>1, <2>2 DEF CmdNext, OpenExisting, OpenNoLeverage, OpenNew, CloseRefused,
       CancelAll
<1>6. CASE CmdStep
  <2>1. CASE LeverageSet
    <3>1. PICK c \in Cids : c = cmd.cid
      BY <2>1 DEF LeverageSet, TypeInv, Locals
    <3>2. info[c].side = s
      BY <2>1, <3>1, <1>t DEF LeverageSet
    <3>3. PICK o : o = info[c] /\ o.amount \in Int /\ o.amount > 0
      BY <2>1, <3>1 DEF LeverageSet, StatusInv, Order
    <3> QED
      BY <2>1, <3>1, <3>2, <3>3, <1>1 DEF LeverageSet, JoinInv
  <2>2. CASE CancelDone
    <3>1. positions[s].qty > 0 => ~Waiting(RolledBack([positions[s] EXCEPT !.status = "Closing"]))
      <4>1. [positions[s] EXCEPT !.status = "Closing"] \in Position
        BY <1>t DEF Position, PosStatus
      <4> QED
        BY <4>1, ResolvedPosition
    <3> QED
      BY <2>2, <3>1 DEF CancelDone
  <2> QED
    BY <1>2, <1>3, <1>6, <2>1, <2>2 DEF CmdStep, LeverageFails, RestOk, RestErr, ReadWsOrder,
       CancelOne
<1>7. CASE WsStep
  <2>1. ws.pc # "idle" => ws.upd \in Update /\ ws.upd.cid \in Cids /\ ws.upd.last \in Int
    BY DEF TypeInv, Locals, Update
  <2>2. ws.delta \in Int
    BY DEF TypeInv, TypeOK, WsState
  <2>3. CASE FillPending
    BY <1>2, <1>4, <2>1, <2>3 DEF FillPending
  <2>4. CASE ApplyConfirmed
    <3>1. ws.pc # "idle"
      BY <2>4 DEF ApplyConfirmed
    <3>2. \/ UNCHANGED positions
          \/ Rollback(info[ws.upd.cid].side)
          \/ ProcessFill(ws.upd, info[ws.upd.cid].side, ws.delta, ws.upd.cid \in orderPos)
      BY <2>4 DEF ApplyConfirmed
    <3> QED
      BY <1>2, <1>3, <1>4, <2>1, <2>2, <3>1, <3>2
  <2> QED
    BY <1>2, <1>7, <2>3, <2>4 DEF WsStep, TakePending, StorePending, TakeConfirmed, IgnoreUpdate,
       engineVars
<1>8. CASE \E a \in Actors : Finalize(a)
  BY <1>2, <1>3, <1>8 DEF Finalize, FinalizeRemove, FinalizeInsert, FinalizeEnd
<1>9. CASE ExchStep
  BY <1>2, <1>9 DEF ExchStep, ExchCancelAll, FeedLoss, ExchAccept, ExchReply, ExchRefuse, RestTimeout,
     ExchExpire, ExchTrade, ExchTrigger, FillWhole, engineVars
<1> QED
  BY <1>2, <1>5, <1>6, <1>7, <1>8, <1>9 DEF Next, vars

\* No position waits initially.
LEMMA OwnerInit == Init => OwnerInv
  BY DEF Init, OwnerInv, NotPending, Waiting, IsGhost, NoPosition

\* Every step keeps every waiting position owned.
LEMMA OwnerNext ==
  /\ TypeInv /\ StatusInv /\ JoinInv /\ GenuineInv /\ EventInv /\ Handover /\ FillsTold
  /\ OwnerInv /\ [Next]_vars
  => OwnerInv'
<1> SUFFICES ASSUME TypeInv, StatusInv, JoinInv, GenuineInv, EventInv, Handover, FillsTold,
                    OwnerInv, [Next]_vars
             PROVE  OwnerInv'
  OBVIOUS
<1>1. ASSUME NEW c \in Cids, rest[c] # "none"
      PROVE  info[c] # NoOrder /\ info'[c] = info[c] /\ rest'[c] # "none"
  BY <1>1, InfoStays DEF JoinInv
<1>2. ASSUME NEW c \in Cids, pending'[c].held \/ c \in forgotten', rest[c] = "none"
      PROVE  rest'[c] # "none"
  <2>1. ~pending[c].held /\ c \notin forgotten
    BY <1>2 DEF OwnerInv
  <2>2. ASSUME NEW d \in Cids, NEW o, PlaceOrder(d, o), UNCHANGED forgotten PROVE rest'[c] # "none"
    BY <1>2, <2>1, <2>2 DEF PlaceOrder, TypeInv, TypeOK
  <2>3. CASE CmdNext
    <3>1. ASSUME NEW s \in Sides, NEW q \in 1..MaxQty, NEW d \in Cids,
                 OpenExisting(s, q, d) \/ \E close \in BOOLEAN : PlaceWithoutId(s, close, q, d)
          PROVE  rest'[c] # "none"
      BY <2>2, <3>1 DEF OpenExisting, PlaceWithoutId
    <3>2. ASSUME NEW s \in Sides, NEW d \in Cids, ClosePosition(s, d) PROVE rest'[c] # "none"
      BY <2>2, <3>2 DEF ClosePosition
    <3>3. CASE UNCHANGED <<pending, forgotten>>
      BY <1>2, <2>1, <3>3
    <3> QED
      BY <2>3, <3>1, <3>2, <3>3 DEF CmdNext, OpenNoLeverage, OpenNew, CloseRefused, CancelAll
  <2>4. CASE CmdStep
    <3>1. LeverageSet => rest'[c] # "none"
      BY <2>2 DEF LeverageSet, TypeInv, Locals
    <3>2. RestOk => FALSE
      BY <1>2, <2>1 DEF RestOk, TypeInv, TypeOK, PendingOrder
    <3>3. RestErr => FALSE
      BY <1>2, <2>1 DEF RestErr, TypeInv, TypeOK, NotPending
    <3>4. ASSUME NEW d \in Cids, CancelOne(d) PROVE FALSE
      <4>1. pending'[c] = pending[c] \/ ~pending'[c].held
        BY <3>4 DEF CancelOne, TypeInv, TypeOK, NotPending
      <4>2. c \in forgotten' => c \in forgotten \/ (c = d /\ pending[d].held)
        BY <3>4 DEF CancelOne
      <4> QED
        BY <1>2, <2>1, <4>1, <4>2
    <3> QED
      BY <1>2, <2>1, <2>4, <3>1, <3>2, <3>3, <3>4 DEF CmdStep, LeverageFails, ReadWsOrder, CancelDone
  <2>5. CASE WsStep
    <3>1. ~StorePending
      <4>1. StorePending => pending'[c].held = pending[c].held /\ UNCHANGED forgotten
        BY DEF StorePending, TypeInv, TypeOK, PendingOrder
      <4> QED
        BY <1>2, <2>1, <4>1
    <3> QED
      BY <1>2, <2>1, <2>5, <3>1 DEF WsStep, TakePending, FillPending, TakeConfirmed, ApplyConfirmed,
         IgnoreUpdate, engineVars
  <2>6. CASE \E a \in Actors : Finalize(a)
    <3>1. ASSUME NEW a \in Actors, FinalizeRemove(a) PROVE FALSE
      BY <1>2, <2>1, <3>1 DEF FinalizeRemove, TypeInv, TypeOK, NotPending
    <3> QED
      BY <1>2, <2>1, <2>6, <3>1 DEF Finalize, FinalizeInsert, FinalizeEnd
  <2>7. CASE ExchStep
    BY <1>2, <2>1, <2>7 DEF ExchStep, ExchCancelAll, FeedLoss, ExchAccept, ExchReply, ExchRefuse,
       RestTimeout, ExchExpire, ExchTrade, ExchTrigger, FillWhole, engineVars
  <2> QED
    BY <1>2, <2>1, <2>3, <2>4, <2>5, <2>6, <2>7 DEF Next, vars
<1>3. ASSUME NEW c \in Cids, Own(c) PROVE rest[c] # "none"
  <2>1. CASE pending[c].held \/ c \in forgotten
    BY <2>1 DEF OwnerInv
  <2>2. CASE orders[c] # NoUpdate
    BY <2>2 DEF JoinInv, DoubleConfirmation
  <2>3. CASE \E a \in Actors : fin[a].pc \in {"remove", "insert"} /\ fin[a].upd.cid = c
    BY <2>3 DEF JoinInv, Confirmed
  <2>4. CASE Filling(c)
    BY <2>4 DEF Filling, GenuineInv, Valid, Genuine
  <2> QED
    BY <1>3, <2>1, <2>2, <2>3, <2>4 DEF Own, Awaited
<1>4. ASSUME NEW s \in Sides, Waiting(positions'[s])
      PROVE  \E c \in Cids : info'[c].side = s /\ ~Barren(c)' /\ Own(c)'
  <2>1. CASE ~Waiting(positions[s])
    BY <1>4, <2>1, NewlyWaiting
  <2>2. CASE Waiting(positions[s])
    <3>1. PICK c \in Cids : info[c].side = s /\ ~Barren(c) /\ Own(c)
      BY <2>2 DEF OwnerInv
    <3>2. Own(c)'
      BY <1>4, <3>1, OwnStays
    <3>3. info'[c] = info[c]
      BY <1>1, <1>3, <3>1
    <3> QED
      BY <3>1, <3>2, <3>3 DEF Barren
  <2> QED
    BY <2>1, <2>2
<1> QED
  BY <1>1, <1>2, <1>4 DEF OwnerInv

\* A ghost, or a position Closing with a quantity to close, waits for an order the
\* engine still watches, unless cancel_all dropped that order.
THEOREM WaitingIsOwned == Spec => []TransientOwned
<1>1. TypeInv /\ OwnerInv => TransientOwned
  <2> SUFFICES ASSUME OwnerInv, NEW s \in Sides, Waiting(positions[s])
               PROVE  \E c \in Cids : info[c].side = s /\ (Watched(c) \/ c \in forgotten)
    BY DEF TransientOwned
  <2> QED
    BY DEF OwnerInv, Own, Awaited, Watched, Filling
<1> QED
  BY <1>1, TypeInit, TypeNext, StatusInit, StatusNext, JoinInit, JoinNext, GenuineInit, GenuineNext,
     EventInit, EventNext, HandoverInit, HandoverNext, FillsToldInit, FillsToldNext, OwnerInit,
     OwnerNext, PTL DEF Spec

=============================================================================
