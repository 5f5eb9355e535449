-------------------------- MODULE MCPositionEngine --------------------------
(***************************************************************************)
(* Instances of PositionEngine for TLC.  Nothing needs a state constraint: *)
(* every order id is used once and an order trades at most MaxQty times.   *)
(* The properties here are claims of the repository that do not hold       *)
(* (PE_quantity.cfg, PE_repeated_close.cfg, PE_close_all.cfg,              *)
(* PE_owned.cfg).                                                          *)
(***************************************************************************)
EXTENDS PositionEngine, FiniteSetsExt, TLC

OrderSymmetry == Permutations(Cids)

Quiescent ==
  /\ CmdIdle /\ WsIdle /\ feed = <<>>
  /\ \A c \in Cids : rest[c] # "called"

Executed(s, close) ==
  MapThenSumSet(LAMBDA c : exch[c].filled,
                {c \in Cids : info[c].side = s /\ info[c].close = close})

\* "Position.quantity is updated on partial fills, to keep the data consistent":
\* when every update has been handled, a position's quantity is what its orders
\* executed.  An update that is handled between FinalizeRemove and FinalizeInsert
\* finds the order in neither map and is ignored.
QuantityConsistent ==
  Quiescent => \A s \in Sides :
                 positions[s].qty = Executed(s, FALSE) - Executed(s, TRUE)

\* "Mark the position Closing, so that it is not closed again while its close
\* order executes": a side has at most one close order outstanding.
Outstanding(c) == info[c].close /\ info[c].sided /\ (rest[c] = "called" \/ exch[c].st = "live")
NoRepeatedClose ==
  \A c, d \in Cids :
    c # d /\ Outstanding(c) /\ Outstanding(d) => info[c].side # info[d].side

\* "Mark the position Closing ... while its close order executes": a position that
\* is Closing, whatever its quantity, has an order the engine watches.  In paper
\* mode the order that closes a negative one is filled, dropped and never applied.
OwnedWhateverQuantity ==
  \A s \in Sides :
    positions[s].status = "Closing" =>
      \E c \in Cids : info[c].side = s /\ (Watched(c) \/ c \in forgotten)

\* "Close the positions before the bot is deleted, and wait for the engine so
\* that they are gone": after CloseAllPositions every position with a quantity
\* has a close order on its way.
CloseAllCloses ==
  [][cmd.pc = "results" /\ cmd.closeAll /\ cmd'.pc = "idle" =>
       \A s \in Sides : positions[s].qty > 0 => positions'[s].status = "Closing"]_vars

=============================================================================
