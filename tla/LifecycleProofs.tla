--------------------------- MODULE LifecycleProofs ---------------------------
(***************************************************************************)
(* Proofs about Lifecycle for any bots, modes and bounds: type             *)
(* correctness, that every worker is owned, that deletions stay, that      *)
(* there is one set of engines, and that the status of a bot is the one    *)
(* its worker has.                                                         *)
(*                                                                         *)
(* They are one induction.  A worker is started when the map has none,     *)
(* which means that none runs only because every worker is owned; a bot    *)
(* is deleted with its worker gone only because the command that deletes   *)
(* it has waited for the worker it took out of the map; and both rest on   *)
(* the bot engine being one loop, spawned once per process, as the lock of *)
(* the manager sees to.  The status rests on them and on the order in      *)
(* which a command writes the row and the map of workers.                  *)
(***************************************************************************)
EXTENDS Lifecycle, TLAPS

\* The bot engine is spawned with the engines, and works on a command only in its loop.
LoopShape ==
  /\ op # Idle => loop = "running"
  /\ engine = "none" => loop = "none"
  /\ loop = "none" => \A b \in Bots : alive[b] = 0

\* Before the start-up is over and after the process is gone there is nothing.
Outside ==
  phase \in {"boot", "down"} =>
    /\ engine = "none" /\ loop = "none" /\ pes = 0 /\ leaked = 0 /\ lock = Nobody
    /\ \A b \in Bots : create[b] \in {"no", "over"}

\* One request starts the engines, and its position engine is the only one that is not
\* left behind by a failed start.
Starting ==
  /\ \A b \in Bots : create[b] \in {"locked", "starting"} => lock = b
  /\ \A b \in Bots : create[b] = "starting" => engine = "none" /\ pes = leaked + 1
  /\ engine = "none" /\ (\A b \in Bots : create[b] # "starting") => pes = leaked
  /\ leaked <= pes /\ pes <= leaked + 1
  /\ leaked <= faults

\* A row is inserted once, and a worker runs for a row.
RowShape ==
  /\ \A b \in Bots : row[b] # "none" => create[b] = "over"
  /\ \A b \in Bots : delete[b] # "no" => create[b] = "over"
  /\ \A b \in Bots : row[b] = "none" => alive[b] = 0
  /\ \A b \in restore : create[b] = "over"
  /\ \A i \in DOMAIN queue : create[queue[i].bot] = "over"
  /\ op # Idle => create[op.bot] = "over"
  /\ op.do \in {"unrun", "remove"} => alive[op.bot] = 0

IInv == TypeOK /\ LoopShape /\ Outside /\ Starting /\ RowShape /\ WorkersOwned /\ DeletedStays

\* The commands, in the channel and in hand, are about bots.
LEMMA NamesBots ==
  TypeOK => /\ op # Idle => op.bot \in Bots
            /\ \A i \in DOMAIN queue : queue[i] \in Commands /\ queue[i].bot \in Bots
<1> SUFFICES ASSUME TypeOK
             PROVE /\ op # Idle => op.bot \in Bots
                   /\ \A i \in DOMAIN queue : queue[i] \in Commands /\ queue[i].bot \in Bots
  OBVIOUS
<1>1. op \in Ops \cup {Idle} /\ queue \in Seq(Commands)
  BY DEF TypeOK
<1>2. op # Idle => op.bot \in Bots
  BY <1>1 DEF Ops
<1>3. ASSUME NEW i \in DOMAIN queue PROVE queue[i] \in Commands
  BY <1>1
<1>4. \A c \in Commands : c.bot \in Bots
  BY DEF Commands
<1> QED BY <1>2, <1>3, <1>4

\* The engines are built once, and only their loop works on commands.
LEMMA KeepLoopShape == IInv /\ [Next]_vars => LoopShape'
<1> SUFFICES ASSUME IInv, [Next]_vars PROVE LoopShape'
  OBVIOUS
<1> USE LifecycleAssumption, BotsAssumption
  DEF IInv, LoopShape, Outside, Starting, TypeOK, Idle, Ops, Commands, Running
<1>1. CASE Restored
  BY <1>1 DEF Restored, db, manager, bots, bounds, EnginesUp, Running, Rows, db,
      manager, bots, bounds
<1>2. ASSUME NEW b \in Bots, StartFinished(b) PROVE LoopShape'
  BY <1>2 DEF StartFinished, AtCreate, EnginesUp, db, manager, bots, bounds
<1>3. CASE LoadRunning
  BY <1>3 DEF LoadRunning, Engine, Works, Fails, Free, Running, db, manager, bots,
      bounds
<1>4. ASSUME NEW b \in Bots, RestoreNext(b) PROVE LoopShape'
  BY <1>4 DEF RestoreNext, Engine, Free, Works, db, manager, bots, bounds
<1>5. CASE TakeCommand
  BY <1>5 DEF TakeCommand, Engine, Free, db, manager, bots, bounds
<1>6. CASE Unmark
  BY <1>6 DEF Unmark, Engine, WritesStatus, Step, Works, Fails, db, manager, bots,
      bounds
<1>7. CASE Spawn
  BY <1>7 DEF Spawn, Engine, Works, Fails, Step, db, manager, bots, bounds
<1>8. CASE Mark
  BY <1>8 DEF Mark, Engine, WritesStatus, Works, Fails, db, manager, bots, bounds
<1>9. CASE Cancel
  BY <1>9 DEF Cancel, Engine, Works, Fails, Answer, Step, db, manager, bots, bounds
<1>10. CASE Join
  BY <1>10 DEF Join, Engine, Step, db, manager, bots, bounds
<1>11. CASE Unrun
  BY <1>11 DEF Unrun, Engine, WritesStatus, Step, Works, Fails, db, manager, bots,
      bounds
<1>12. CASE RemoveRow
  BY <1>12 DEF RemoveRow, Engine, Works, Fails, Answer, db, manager, bots, bounds
<1>13. ASSUME NEW b \in Bots, WorkerStops(b) PROVE LoopShape'
  BY <1>13 DEF WorkerStops, db, manager, bots, bounds
<1>14. ASSUME NEW b \in Bots, WorkerPanics(b) PROVE LoopShape'
  BY <1>14 DEF WorkerPanics, Fails, db, manager, bots, bounds
<1>15. CASE ShutDown
  BY <1>15 DEF ShutDown, Served, db, manager, bots, bounds
<1>16. CASE Exit
  BY <1>16 DEF Exit, ProcessGone, db, manager, bots, bounds
<1>17. CASE Kill
  BY <1>17 DEF Kill, ProcessGone, db, manager, bots, bounds
<1>18. CASE UNCHANGED <<op, loop, engine, alive>>
  BY <1>18
<1>19. CASE RestoreFails \/ SaveCredential \/ DeleteCredential \/ PositionEngineFails \/
          Signal \/ Restart \/ UNCHANGED vars
  BY <1>18, <1>19 DEF RestoreFails, SaveCredential, DeleteCredential,
      PositionEngineFails, Signal, Restart, Fails, Hopeless, Rows, Running, Works, db,
      manager, bots, bounds, vars
<1>20. ASSUME NEW b \in Bots, AlreadyStarted(b) PROVE LoopShape'
  BY <1>18, <1>20 DEF AlreadyStarted, AtCreate, db, manager, bots, bounds
<1>21. ASSUME NEW b \in Bots, NotStarted(b) PROVE LoopShape'
  BY <1>18, <1>21 DEF NotStarted, AtCreate, db, manager, bots, bounds
<1>22. ASSUME NEW b \in Bots, TakeLock(b) PROVE LoopShape'
  BY <1>18, <1>22 DEF TakeLock, AtCreate, db, manager, bots, bounds
<1>23. ASSUME NEW b \in Bots, UnderLock(b) PROVE LoopShape'
  BY <1>18, <1>23 DEF UnderLock, AtCreate, db, manager, bots, bounds
<1>24. ASSUME NEW b \in Bots, StartFails(b) PROVE LoopShape'
  BY <1>18, <1>24 DEF StartFails, AtCreate, Fails, db, manager, bots, bounds
<1>25. ASSUME NEW b \in Bots, Insert(b) PROVE LoopShape'
  BY <1>18, <1>25 DEF Insert, AtCreate, db, manager, bots, bounds
<1>26. ASSUME NEW b \in Bots, InsertFails(b) PROVE LoopShape'
  BY <1>18, <1>26 DEF InsertFails, AtCreate, Fails, Works, db, manager, bots, bounds
<1>27. ASSUME NEW b \in Bots, CreateCounts(b) PROVE LoopShape'
  BY <1>18, <1>27 DEF CreateCounts, AtCreate, db, manager, bots, bounds
<1>28. ASSUME NEW b \in Bots, NEW c \in {"start", "stop", "delete"}, Request(b, c)
           PROVE LoopShape'
  BY <1>18, <1>28 DEF Request, db, manager, bots, bounds
<1> QED BY <1>1, <1>2, <1>3, <1>4, <1>5, <1>6, <1>7, <1>8, <1>9, <1>10, <1>11, <1>12,
      <1>13, <1>14, <1>15, <1>16, <1>17, <1>19, <1>20, <1>21, <1>22, <1>23, <1>24,
      <1>25, <1>26, <1>27, <1>28 DEF Next, Boot, Creating, User, Loop, Worker, End

\* What the manager builds is built while the process serves.
LEMMA KeepOutside == IInv /\ [Next]_vars => Outside'
<1> SUFFICES ASSUME IInv, [Next]_vars PROVE Outside'
  OBVIOUS
<1> USE LifecycleAssumption, BotsAssumption
  DEF IInv, Outside, LoopShape, Starting, TypeOK, Idle, Ops, Commands, Running
<1>1. CASE Restored
  BY <1>1 DEF Restored, db, manager, bots, bounds, EnginesUp, Running, Rows, db,
      manager, bots, bounds
<1>2. CASE RestoreFails
  BY <1>2 DEF RestoreFails, Hopeless, Running, Rows, db, manager, bots, bounds
<1>3. ASSUME NEW b \in Bots, AlreadyStarted(b) PROVE Outside'
  BY <1>3 DEF AlreadyStarted, AtCreate, db, manager, bots, bounds
<1>4. ASSUME NEW b \in Bots, NotStarted(b) PROVE Outside'
  BY <1>4 DEF NotStarted, AtCreate, db, manager, bots, bounds
<1>5. ASSUME NEW b \in Bots, TakeLock(b) PROVE Outside'
  BY <1>5 DEF TakeLock, AtCreate, db, manager, bots, bounds
<1>6. ASSUME NEW b \in Bots, UnderLock(b) PROVE Outside'
  BY <1>6 DEF UnderLock, AtCreate, db, manager, bots, bounds
<1>7. ASSUME NEW b \in Bots, StartFinished(b) PROVE Outside'
  BY <1>7 DEF StartFinished, AtCreate, EnginesUp, db, manager, bots, bounds
<1>8. ASSUME NEW b \in Bots, StartFails(b) PROVE Outside'
  BY <1>8 DEF StartFails, AtCreate, Fails, db, manager, bots, bounds
<1>9. ASSUME NEW b \in Bots, Insert(b) PROVE Outside'
  BY <1>9 DEF Insert, AtCreate, db, manager, bots, bounds
<1>10. ASSUME NEW b \in Bots, InsertFails(b) PROVE Outside'
  BY <1>10 DEF InsertFails, AtCreate, Fails, Works, db, manager, bots, bounds
<1>11. ASSUME NEW b \in Bots, CreateCounts(b) PROVE Outside'
  BY <1>11 DEF CreateCounts, AtCreate, db, manager, bots, bounds
<1>12. CASE LoadRunning
  BY <1>12 DEF LoadRunning, Engine, Works, Fails, Free, Running, db, manager, bots,
      bounds
<1>13. CASE PositionEngineFails
  BY <1>13 DEF PositionEngineFails, Fails, db, manager, bots, bounds
<1>14. CASE Signal
  BY <1>14 DEF Signal, db, manager, bots, bounds
<1>15. CASE ShutDown
  BY <1>15 DEF ShutDown, Served, db, manager, bots, bounds
<1>16. CASE Exit
  BY <1>16 DEF Exit, ProcessGone, db, manager, bots, bounds
<1>17. CASE Kill
  BY <1>17 DEF Kill, ProcessGone, db, manager, bots, bounds
<1>18. CASE Restart
  BY <1>18 DEF Restart, db, manager, bots, bounds
<1>19. CASE UNCHANGED <<phase, engine, loop, pes, leaked, lock, create>>
  BY <1>19
<1>20. CASE SaveCredential \/ DeleteCredential \/ TakeCommand \/ Unmark \/ Spawn \/ Mark
          \/ Cancel \/ Join \/ Unrun \/ RemoveRow \/ UNCHANGED vars
  BY <1>19, <1>20 DEF SaveCredential, DeleteCredential, TakeCommand, Unmark, Spawn,
      Mark, Cancel, Join, Unrun, RemoveRow, Answer, Engine, Fails, Free, Step, Works,
      WritesStatus, db, manager, bots, bounds, vars
<1>21. ASSUME NEW b \in Bots, NEW c \in {"start", "stop", "delete"}, Request(b, c)
           PROVE Outside'
  BY <1>19, <1>21 DEF Request, db, manager, bots, bounds
<1>22. ASSUME NEW b \in Bots, RestoreNext(b) PROVE Outside'
  BY <1>19, <1>22 DEF RestoreNext, Engine, Free, Works, db, manager, bots, bounds
<1>23. ASSUME NEW b \in Bots, WorkerStops(b) PROVE Outside'
  BY <1>19, <1>23 DEF WorkerStops, db, manager, bots, bounds
<1>24. ASSUME NEW b \in Bots, WorkerPanics(b) PROVE Outside'
  BY <1>19, <1>24 DEF WorkerPanics, Fails, db, manager, bots, bounds
<1> QED BY <1>1, <1>2, <1>3, <1>4, <1>5, <1>6, <1>7, <1>8, <1>9, <1>10, <1>11, <1>12,
      <1>13, <1>14, <1>15, <1>16, <1>17, <1>18, <1>20, <1>21, <1>22, <1>23, <1>24 DEF
      Next, Boot, Creating, User, Loop, Worker, End

\* The lock lets one request at a time start the engines, and it looks again.
LEMMA KeepStarting == IInv /\ [Next]_vars => Starting'
<1> SUFFICES ASSUME IInv, [Next]_vars PROVE Starting'
  OBVIOUS
<1> USE LifecycleAssumption, BotsAssumption
  DEF IInv, Starting, Outside, LoopShape, TypeOK, Idle, Ops, Commands, Running
<1>1. CASE Restored
  BY <1>1 DEF Restored, db, manager, bots, bounds, EnginesUp, Running, Rows, db,
      manager, bots, bounds
<1>2. CASE RestoreFails
  BY <1>2 DEF RestoreFails, Hopeless, Running, Rows, db, manager, bots, bounds
<1>3. ASSUME NEW b \in Bots, AlreadyStarted(b) PROVE Starting'
  BY <1>3 DEF AlreadyStarted, AtCreate, db, manager, bots, bounds
<1>4. ASSUME NEW b \in Bots, NotStarted(b) PROVE Starting'
  BY <1>4 DEF NotStarted, AtCreate, db, manager, bots, bounds
<1>5. ASSUME NEW b \in Bots, TakeLock(b) PROVE Starting'
  BY <1>5 DEF TakeLock, AtCreate, db, manager, bots, bounds
<1>6. ASSUME NEW b \in Bots, UnderLock(b) PROVE Starting'
  BY <1>6 DEF UnderLock, AtCreate, db, manager, bots, bounds
<1>7. ASSUME NEW b \in Bots, StartFinished(b) PROVE Starting'
  BY <1>7 DEF StartFinished, AtCreate, EnginesUp, db, manager, bots, bounds
<1>8. ASSUME NEW b \in Bots, StartFails(b) PROVE Starting'
  BY <1>8 DEF StartFails, AtCreate, Fails, db, manager, bots, bounds
<1>9. ASSUME NEW b \in Bots, Insert(b) PROVE Starting'
  BY <1>9 DEF Insert, AtCreate, db, manager, bots, bounds
<1>10. ASSUME NEW b \in Bots, InsertFails(b) PROVE Starting'
  BY <1>10 DEF InsertFails, AtCreate, Fails, Works, db, manager, bots, bounds
<1>11. ASSUME NEW b \in Bots, CreateCounts(b) PROVE Starting'
  BY <1>11 DEF CreateCounts, AtCreate, db, manager, bots, bounds
<1>12. CASE PositionEngineFails
  BY <1>12 DEF PositionEngineFails, Fails, db, manager, bots, bounds
<1>13. CASE ShutDown
  BY <1>13 DEF ShutDown, Served, db, manager, bots, bounds
<1>14. CASE Exit
  BY <1>14 DEF Exit, ProcessGone, db, manager, bots, bounds
<1>15. CASE Kill
  BY <1>15 DEF Kill, ProcessGone, db, manager, bots, bounds
<1>16. CASE UNCHANGED <<create, lock, engine, pes, leaked>> /\ faults' \in Nat /\ faults' >= faults
  BY <1>16
<1>17. CASE SaveCredential \/ DeleteCredential \/ LoadRunning \/ TakeCommand \/ Unmark
          \/ Spawn \/ Mark \/ Cancel \/ Join \/ Unrun \/ RemoveRow \/ Signal \/ Restart
          \/ UNCHANGED vars
  BY SMTT(20), <1>16, <1>17 DEF SaveCredential, DeleteCredential, LoadRunning, TakeCommand,
      Unmark, Spawn, Mark, Cancel, Join, Unrun, RemoveRow, Signal, Restart, Answer,
      Engine, Fails, Free, Running, Step, Works, WritesStatus, db, manager, bots,
      bounds, vars
<1>18. ASSUME NEW b \in Bots, NEW c \in {"start", "stop", "delete"}, Request(b, c)
           PROVE Starting'
  BY <1>16, <1>18 DEF Request, db, manager, bots, bounds
<1>19. ASSUME NEW b \in Bots, RestoreNext(b) PROVE Starting'
  BY <1>16, <1>19 DEF RestoreNext, Engine, Free, Works, db, manager, bots, bounds
<1>20. ASSUME NEW b \in Bots, WorkerStops(b) PROVE Starting'
  BY <1>16, <1>20 DEF WorkerStops, db, manager, bots, bounds
<1>21. ASSUME NEW b \in Bots, WorkerPanics(b) PROVE Starting'
  BY <1>16, <1>21 DEF WorkerPanics, Fails, db, manager, bots, bounds
<1> QED BY <1>1, <1>2, <1>3, <1>4, <1>5, <1>6, <1>7, <1>8, <1>9, <1>10, <1>11, <1>12,
      <1>13, <1>14, <1>15, <1>17, <1>18, <1>19, <1>20, <1>21 DEF Next, Boot, Creating,
      User, Loop, Worker, End

\* The command that ends a bot has waited for its worker.
LEMMA KeepRowShape == IInv /\ [Next]_vars => RowShape'
<1> SUFFICES ASSUME IInv, [Next]_vars PROVE RowShape'
  OBVIOUS
<1> USE LifecycleAssumption, BotsAssumption
  DEF IInv, RowShape, LoopShape, Outside, WorkersOwned, Starting, TypeOK, Idle, Ops,
      Commands, Running
<1>1. CASE RestoreFails
  BY <1>1 DEF RestoreFails, Hopeless, Running, Rows, db, manager, bots, bounds
<1>2. ASSUME NEW b \in Bots, AlreadyStarted(b) PROVE RowShape'
  BY <1>2 DEF AlreadyStarted, AtCreate, db, manager, bots, bounds
<1>3. ASSUME NEW b \in Bots, NotStarted(b) PROVE RowShape'
  BY <1>3 DEF NotStarted, AtCreate, db, manager, bots, bounds
<1>4. ASSUME NEW b \in Bots, TakeLock(b) PROVE RowShape'
  BY <1>4 DEF TakeLock, AtCreate, db, manager, bots, bounds
<1>5. ASSUME NEW b \in Bots, UnderLock(b) PROVE RowShape'
  <2>1. create[b] # "over" /\ create' = [create EXCEPT ![b] = create'[b]]
    BY <1>5 DEF UnderLock, AtCreate
  <2>2. UNCHANGED <<row, delete, alive, restore, queue, op>>
    BY <1>5 DEF UnderLock, db, bots
  <2>3. \A x \in Bots : create[x] = "over" => create'[x] = "over"
    BY <2>1
  <2> QED BY <2>2, <2>3, NamesBots
<1>6. ASSUME NEW b \in Bots, StartFinished(b) PROVE RowShape'
  BY <1>6 DEF StartFinished, AtCreate, EnginesUp, db, manager, bots, bounds
<1>7. ASSUME NEW b \in Bots, StartFails(b) PROVE RowShape'
  BY <1>7 DEF StartFails, AtCreate, Fails, db, manager, bots, bounds
<1>8. ASSUME NEW b \in Bots, Insert(b) PROVE RowShape'
  BY <1>8 DEF Insert, AtCreate, db, manager, bots, bounds
<1>9. ASSUME NEW b \in Bots, InsertFails(b) PROVE RowShape'
  BY <1>9 DEF InsertFails, AtCreate, Fails, Works, db, manager, bots, bounds
<1>10. ASSUME NEW b \in Bots, CreateCounts(b) PROVE RowShape'
  BY <1>10 DEF CreateCounts, AtCreate, db, manager, bots, bounds
<1>11. ASSUME NEW b \in Bots, NEW c \in {"start", "stop", "delete"}, Request(b, c)
           PROVE RowShape'
  BY <1>11 DEF Request, db, manager, bots, bounds
<1>12. CASE LoadRunning
  BY <1>12 DEF LoadRunning, Engine, Works, Fails, Free, Running, db, manager, bots,
      bounds
<1>13. ASSUME NEW b \in Bots, RestoreNext(b) PROVE RowShape'
  BY <1>13 DEF RestoreNext, Engine, Free, Works, db, manager, bots, bounds
<1>14. CASE TakeCommand
  BY <1>14 DEF TakeCommand, Engine, Free, db, manager, bots, bounds
<1>15. CASE Unmark
  BY <1>15 DEF Unmark, Engine, WritesStatus, Step, Works, Fails, db, manager, bots,
      bounds
<1>16. CASE Spawn
  BY SMTT(20), <1>16 DEF Spawn, Engine, Works, Fails, Step, db, manager, bots, bounds
<1>17. CASE Mark
  BY <1>17 DEF Mark, Engine, WritesStatus, Works, Fails, db, manager, bots, bounds
<1>18. CASE Cancel
  BY <1>18 DEF Cancel, Engine, Works, Fails, Answer, Step, db, manager, bots, bounds
<1>19. CASE Join
  BY <1>19 DEF Join, Engine, Step, db, manager, bots, bounds
<1>20. CASE Unrun
  BY <1>20 DEF Unrun, Engine, WritesStatus, Step, Works, Fails, db, manager, bots,
      bounds
<1>21. CASE RemoveRow
  BY <1>21 DEF RemoveRow, Engine, Works, Fails, Answer, db, manager, bots, bounds
<1>22. ASSUME NEW b \in Bots, WorkerStops(b) PROVE RowShape'
  BY <1>22 DEF WorkerStops, db, manager, bots, bounds
<1>23. ASSUME NEW b \in Bots, WorkerPanics(b) PROVE RowShape'
  BY <1>23 DEF WorkerPanics, Fails, db, manager, bots, bounds
<1>24. CASE ShutDown
  BY <1>24 DEF ShutDown, Served, db, manager, bots, bounds
<1>25. CASE Exit
  BY <1>25 DEF Exit, ProcessGone, db, manager, bots, bounds
<1>26. CASE Kill
  BY <1>26 DEF Kill, ProcessGone, db, manager, bots, bounds
<1>27. CASE UNCHANGED <<row, create, delete, alive, restore, queue, op>>
  BY <1>27
<1>28. CASE Restored \/ SaveCredential \/ DeleteCredential \/ PositionEngineFails \/
          Signal \/ Restart \/ UNCHANGED vars
  BY <1>27, <1>28 DEF Restored, SaveCredential, DeleteCredential, PositionEngineFails,
      Signal, Restart, EnginesUp, Fails, Rows, Running, Works, bots, bounds, db,
      manager, vars
<1> QED BY ZenonT(30), <1>1, <1>2, <1>3, <1>4, <1>5, <1>6, <1>7, <1>8, <1>9, <1>10, <1>11, <1>12,
      <1>13, <1>14, <1>15, <1>16, <1>17, <1>18, <1>19, <1>20, <1>21, <1>22, <1>23,
      <1>24, <1>25, <1>26, <1>28 DEF Next, Boot, Creating, User, Loop, Worker, End

\* A worker is started when the map has none, and leaves the map when it is joined.
LEMMA KeepWorkersOwned == IInv /\ [Next]_vars => WorkersOwned'
<1> SUFFICES ASSUME IInv, [Next]_vars PROVE WorkersOwned'
  OBVIOUS
<1> USE LifecycleAssumption, BotsAssumption
  DEF IInv, WorkersOwned, LoopShape, Outside, Starting, TypeOK, Idle, Ops, Commands,
      Running
<1>1. CASE Restored
  BY <1>1 DEF Restored, db, manager, bots, bounds, EnginesUp, Running, Rows, db,
      manager, bots, bounds
<1>2. ASSUME NEW b \in Bots, StartFinished(b) PROVE WorkersOwned'
  BY <1>2 DEF StartFinished, AtCreate, EnginesUp, db, manager, bots, bounds
<1>3. CASE LoadRunning
  BY <1>3 DEF LoadRunning, Engine, Works, Fails, Free, Running, db, manager, bots,
      bounds
<1>4. ASSUME NEW b \in Bots, RestoreNext(b) PROVE WorkersOwned'
  BY <1>4 DEF RestoreNext, Engine, Free, Works, db, manager, bots, bounds
<1>5. CASE TakeCommand
  BY <1>5 DEF TakeCommand, Engine, Free, db, manager, bots, bounds
<1>6. CASE Unmark
  BY <1>6 DEF Unmark, Engine, WritesStatus, Step, Works, Fails, db, manager, bots,
      bounds
<1>7. CASE Spawn
  BY <1>7 DEF Spawn, Engine, Works, Fails, Step, db, manager, bots, bounds
<1>8. CASE Mark
  BY <1>8 DEF Mark, Engine, WritesStatus, Works, Fails, db, manager, bots, bounds
<1>9. CASE Cancel
  BY <1>9 DEF Cancel, Engine, Works, Fails, Answer, Step, db, manager, bots, bounds
<1>10. CASE Join
  BY <1>10 DEF Join, Engine, Step, db, manager, bots, bounds
<1>11. CASE Unrun
  BY <1>11 DEF Unrun, Engine, WritesStatus, Step, Works, Fails, db, manager, bots,
      bounds
<1>12. CASE RemoveRow
  BY <1>12 DEF RemoveRow, Engine, Works, Fails, Answer, db, manager, bots, bounds
<1>13. ASSUME NEW b \in Bots, WorkerStops(b) PROVE WorkersOwned'
  BY <1>13 DEF WorkerStops, db, manager, bots, bounds
<1>14. ASSUME NEW b \in Bots, WorkerPanics(b) PROVE WorkersOwned'
  BY <1>14 DEF WorkerPanics, Fails, db, manager, bots, bounds
<1>15. CASE ShutDown
  BY <1>15 DEF ShutDown, Served, db, manager, bots, bounds
<1>16. CASE Exit
  BY <1>16 DEF Exit, ProcessGone, db, manager, bots, bounds
<1>17. CASE Kill
  BY <1>17 DEF Kill, ProcessGone, db, manager, bots, bounds
<1>18. CASE UNCHANGED <<alive, handles, op, loop>>
  BY <1>18
<1>19. CASE RestoreFails \/ SaveCredential \/ DeleteCredential \/ PositionEngineFails \/
          Signal \/ Restart \/ UNCHANGED vars
  BY <1>18, <1>19 DEF RestoreFails, SaveCredential, DeleteCredential,
      PositionEngineFails, Signal, Restart, Fails, Hopeless, Rows, Running, Works, db,
      manager, bots, bounds, vars
<1>20. ASSUME NEW b \in Bots, AlreadyStarted(b) PROVE WorkersOwned'
  BY <1>18, <1>20 DEF AlreadyStarted, AtCreate, db, manager, bots, bounds
<1>21. ASSUME NEW b \in Bots, NotStarted(b) PROVE WorkersOwned'
  BY <1>18, <1>21 DEF NotStarted, AtCreate, db, manager, bots, bounds
<1>22. ASSUME NEW b \in Bots, TakeLock(b) PROVE WorkersOwned'
  BY <1>18, <1>22 DEF TakeLock, AtCreate, db, manager, bots, bounds
<1>23. ASSUME NEW b \in Bots, UnderLock(b) PROVE WorkersOwned'
  BY <1>18, <1>23 DEF UnderLock, AtCreate, db, manager, bots, bounds
<1>24. ASSUME NEW b \in Bots, StartFails(b) PROVE WorkersOwned'
  BY <1>18, <1>24 DEF StartFails, AtCreate, Fails, db, manager, bots, bounds
<1>25. ASSUME NEW b \in Bots, Insert(b) PROVE WorkersOwned'
  BY <1>18, <1>25 DEF Insert, AtCreate, db, manager, bots, bounds
<1>26. ASSUME NEW b \in Bots, InsertFails(b) PROVE WorkersOwned'
  BY <1>18, <1>26 DEF InsertFails, AtCreate, Fails, Works, db, manager, bots, bounds
<1>27. ASSUME NEW b \in Bots, CreateCounts(b) PROVE WorkersOwned'
  BY <1>18, <1>27 DEF CreateCounts, AtCreate, db, manager, bots, bounds
<1>28. ASSUME NEW b \in Bots, NEW c \in {"start", "stop", "delete"}, Request(b, c)
           PROVE WorkersOwned'
  BY <1>18, <1>28 DEF Request, db, manager, bots, bounds
<1> QED BY <1>1, <1>2, <1>3, <1>4, <1>5, <1>6, <1>7, <1>8, <1>9, <1>10, <1>11, <1>12,
      <1>13, <1>14, <1>15, <1>16, <1>17, <1>19, <1>20, <1>21, <1>22, <1>23, <1>24,
      <1>25, <1>26, <1>27, <1>28 DEF Next, Boot, Creating, User, Loop, Worker, End

\* Nothing brings back a deleted row or starts a worker without one.
LEMMA KeepDeletedStays == IInv /\ [Next]_vars => DeletedStays'
<1> SUFFICES ASSUME IInv, [Next]_vars PROVE DeletedStays'
  OBVIOUS
<1> USE LifecycleAssumption, BotsAssumption
  DEF IInv, DeletedStays, RowShape, LoopShape, TypeOK, Idle, Ops, Commands, Running
<1>1. CASE RestoreFails
  BY <1>1 DEF RestoreFails, Hopeless, Running, Rows, db, manager, bots, bounds
<1>2. ASSUME NEW b \in Bots, Insert(b) PROVE DeletedStays'
  BY <1>2 DEF Insert, AtCreate, db, manager, bots, bounds
<1>3. ASSUME NEW b \in Bots, NEW c \in {"start", "stop", "delete"}, Request(b, c)
           PROVE DeletedStays'
  BY <1>3 DEF Request, db, manager, bots, bounds
<1>4. CASE Unmark
  BY <1>4 DEF Unmark, Engine, WritesStatus, Step, Works, Fails, db, manager, bots,
      bounds
<1>5. CASE Spawn
  BY <1>5 DEF Spawn, Engine, Works, Fails, Step, db, manager, bots, bounds
<1>6. CASE Mark
  BY <1>6 DEF Mark, Engine, WritesStatus, Works, Fails, db, manager, bots, bounds
<1>7. CASE Cancel
  BY <1>7 DEF Cancel, Engine, Works, Fails, Answer, Step, db, manager, bots, bounds
<1>8. CASE Join
  BY <1>8 DEF Join, Engine, Step, db, manager, bots, bounds
<1>9. CASE Unrun
  BY <1>9 DEF Unrun, Engine, WritesStatus, Step, Works, Fails, db, manager, bots, bounds
<1>10. CASE RemoveRow
  BY <1>10 DEF RemoveRow, Engine, Works, Fails, Answer, db, manager, bots, bounds
<1>11. ASSUME NEW b \in Bots, WorkerStops(b) PROVE DeletedStays'
  BY <1>11 DEF WorkerStops, db, manager, bots, bounds
<1>12. ASSUME NEW b \in Bots, WorkerPanics(b) PROVE DeletedStays'
  BY <1>12 DEF WorkerPanics, Fails, db, manager, bots, bounds
<1>13. CASE Exit
  BY <1>13 DEF Exit, ProcessGone, db, manager, bots, bounds
<1>14. CASE Kill
  BY <1>14 DEF Kill, ProcessGone, db, manager, bots, bounds
<1>15. CASE UNCHANGED <<delete, row, alive>>
  BY <1>15
<1>16. CASE Restored \/ SaveCredential \/ DeleteCredential \/ LoadRunning \/ TakeCommand
          \/ PositionEngineFails \/ Signal \/ ShutDown \/ Restart \/ UNCHANGED vars
  BY <1>15, <1>16 DEF Restored, SaveCredential, DeleteCredential, LoadRunning,
      TakeCommand, PositionEngineFails, Signal, ShutDown, Restart, Engine, EnginesUp,
      Fails, Free, Rows, Running, Served, Works, bots, bounds, db, manager, vars
<1>17. ASSUME NEW b \in Bots, AlreadyStarted(b) PROVE DeletedStays'
  BY <1>15, <1>17 DEF AlreadyStarted, AtCreate, db, manager, bots, bounds
<1>18. ASSUME NEW b \in Bots, NotStarted(b) PROVE DeletedStays'
  BY <1>15, <1>18 DEF NotStarted, AtCreate, db, manager, bots, bounds
<1>19. ASSUME NEW b \in Bots, TakeLock(b) PROVE DeletedStays'
  BY <1>15, <1>19 DEF TakeLock, AtCreate, db, manager, bots, bounds
<1>20. ASSUME NEW b \in Bots, UnderLock(b) PROVE DeletedStays'
  BY <1>15, <1>20 DEF UnderLock, AtCreate, db, manager, bots, bounds
<1>21. ASSUME NEW b \in Bots, StartFinished(b) PROVE DeletedStays'
  BY <1>15, <1>21 DEF StartFinished, AtCreate, EnginesUp, db, manager, bots, bounds
<1>22. ASSUME NEW b \in Bots, StartFails(b) PROVE DeletedStays'
  BY <1>15, <1>22 DEF StartFails, AtCreate, Fails, db, manager, bots, bounds
<1>23. ASSUME NEW b \in Bots, InsertFails(b) PROVE DeletedStays'
  BY <1>15, <1>23 DEF InsertFails, AtCreate, Fails, Works, db, manager, bots, bounds
<1>24. ASSUME NEW b \in Bots, CreateCounts(b) PROVE DeletedStays'
  BY <1>15, <1>24 DEF CreateCounts, AtCreate, db, manager, bots, bounds
<1>25. ASSUME NEW b \in Bots, RestoreNext(b) PROVE DeletedStays'
  BY <1>15, <1>25 DEF RestoreNext, Engine, Free, Works, db, manager, bots, bounds
<1> QED BY <1>1, <1>2, <1>3, <1>4, <1>5, <1>6, <1>7, <1>8, <1>9, <1>10, <1>11, <1>12,
      <1>13, <1>14, <1>16, <1>17, <1>18, <1>19, <1>20, <1>21, <1>22, <1>23, <1>24, <1>25
      DEF Next, Boot, Creating, User, Loop, Worker, End

\* TypeOK in three parts.
TypesDb ==
  /\ row \in [Bots -> {"none", "stopped", "running", "error"}]
  /\ mode \in [Bots -> Modes]
  /\ creds \in BOOLEAN
  /\ missed \subseteq Bots
  /\ commands \in 0..MaxCommands /\ faults \in 0..MaxFaults /\ restarts \in 0..MaxRestarts
TypesManager ==
  /\ phase \in {"boot", "serving", "draining", "down"}
  /\ registered \in BOOLEAN
  /\ create \in [Bots -> {"no", "counted", "waiting", "locked", "starting", "ready", "over"}]
  /\ delete \in [Bots -> {"no", "sent", "ok", "failed"}]
  /\ lock \in Bots \cup {Nobody}
  /\ engine \in Modes \cup {"none"}
  /\ pes \in 0..(1 + MaxFaults) /\ leaked \in 0..MaxFaults
  /\ fed \subseteq Bots
TypesBots ==
  /\ loop \in {"none", "loading", "running", "draining", "gone"}
  /\ restore \subseteq Bots
  /\ op \in Ops \cup {Idle}
  /\ queue \in Seq(Commands) /\ Len(queue) <= MaxQueue
  /\ handles \subseteq Bots
  /\ alive \in [Bots -> 0..1]

LEMMA TypeParts == TypeOK <=> TypesDb /\ TypesManager /\ TypesBots
  BY DEF TypeOK, TypesDb, TypesManager, TypesBots

LEMMA StepOps ==
  ASSUME NEW o \in Ops \cup {Idle}, o.do # "idle",
         NEW d \in {"unmark", "spawn", "mark", "cancel", "join", "unrun", "remove"}
  PROVE  [o EXCEPT !.do = d] \in Ops
  BY DEF Ops, Idle

\* The rows, the credentials and the bounds.
LEMMA KeepTypesDb == IInv /\ [Next]_vars => TypesDb'
<1> SUFFICES ASSUME IInv, [Next]_vars PROVE TypesDb'
  OBVIOUS
<1>1. TypesDb
  BY TypeParts DEF IInv
<1>2. op # Idle => op.bot \in Bots
  BY NamesBots DEF IInv
<1> USE <1>1, <1>2, LifecycleAssumption DEF TypesDb, Running
<1>3. CASE RestoreFails
  BY <1>3 DEF RestoreFails, Hopeless, Rows, db, manager, bots, bounds
<1>4. CASE SaveCredential
  BY <1>4 DEF SaveCredential, Works, Fails, db, manager, bots, bounds
<1>5. CASE DeleteCredential
  BY <1>5 DEF DeleteCredential, db, manager, bots, bounds
<1>6. ASSUME NEW b \in Bots, StartFails(b) PROVE TypesDb'
  BY <1>6 DEF StartFails, AtCreate, Fails, db, manager, bots, bounds
<1>7. ASSUME NEW b \in Bots, Insert(b) PROVE TypesDb'
  BY <1>7 DEF Insert, AtCreate, db, manager, bots, bounds
<1>8. ASSUME NEW b \in Bots, InsertFails(b) PROVE TypesDb'
  BY <1>8 DEF InsertFails, AtCreate, Fails, Works, db, manager, bots, bounds
<1>9. ASSUME NEW b \in Bots, NEW c \in {"start", "stop", "delete"}, Request(b, c)
           PROVE TypesDb'
  BY <1>9 DEF Request, db, manager, bots, bounds
<1>10. CASE LoadRunning
  BY <1>10 DEF LoadRunning, Engine, Works, Fails, Free, db, manager, bots, bounds, Idle
<1>11. CASE Unmark
  BY <1>11 DEF Unmark, Engine, WritesStatus, Step, Works, Fails, db, manager, bots,
      bounds, Idle
<1>12. CASE Spawn
  BY <1>12 DEF Spawn, Engine, Works, Fails, Step, db, manager, bots, bounds, Idle
<1>13. CASE Mark
  BY <1>13 DEF Mark, Engine, WritesStatus, Works, Fails, db, manager, bots, bounds, Idle
<1>14. CASE Cancel
  BY <1>14 DEF Cancel, Engine, Works, Fails, Answer, Step, db, manager, bots, bounds,
      Idle
<1>15. CASE Unrun
  BY <1>15 DEF Unrun, Engine, WritesStatus, Step, Works, Fails, db, manager, bots,
      bounds, Idle
<1>16. CASE RemoveRow
  BY <1>16 DEF RemoveRow, Engine, Works, Fails, Answer, db, manager, bots, bounds, Idle
<1>17. ASSUME NEW b \in Bots, WorkerPanics(b) PROVE TypesDb'
  BY <1>17 DEF WorkerPanics, Fails, db, manager, bots, bounds
<1>18. CASE PositionEngineFails
  BY <1>18 DEF PositionEngineFails, Fails, db, manager, bots, bounds
<1>19. CASE Exit
  BY <1>19 DEF Exit, ProcessGone, db, manager, bots, bounds
<1>20. CASE Kill
  BY <1>20 DEF Kill, ProcessGone, db, manager, bots, bounds
<1>21. CASE Restart
  BY <1>21 DEF Restart, db, manager, bots, bounds
<1>22. CASE UNCHANGED <<row, mode, creds, missed, commands, faults, restarts>>
  BY <1>22
<1>23. CASE Restored \/ TakeCommand \/ Join \/ Signal \/ ShutDown \/ UNCHANGED vars
  BY <1>22, <1>23 DEF Restored, TakeCommand, Join, Signal, ShutDown, Engine, EnginesUp,
      Free, Rows, Running, Served, Step, bots, bounds, db, manager, vars
<1>24. ASSUME NEW b \in Bots, AlreadyStarted(b) PROVE TypesDb'
  BY <1>22, <1>24 DEF AlreadyStarted, AtCreate, db, manager, bots, bounds
<1>25. ASSUME NEW b \in Bots, NotStarted(b) PROVE TypesDb'
  BY <1>22, <1>25 DEF NotStarted, AtCreate, db, manager, bots, bounds
<1>26. ASSUME NEW b \in Bots, TakeLock(b) PROVE TypesDb'
  BY <1>22, <1>26 DEF TakeLock, AtCreate, db, manager, bots, bounds
<1>27. ASSUME NEW b \in Bots, UnderLock(b) PROVE TypesDb'
  BY <1>22, <1>27 DEF UnderLock, AtCreate, db, manager, bots, bounds
<1>28. ASSUME NEW b \in Bots, StartFinished(b) PROVE TypesDb'
  BY <1>22, <1>28 DEF StartFinished, AtCreate, EnginesUp, db, manager, bots, bounds
<1>29. ASSUME NEW b \in Bots, CreateCounts(b) PROVE TypesDb'
  BY <1>22, <1>29 DEF CreateCounts, AtCreate, db, manager, bots, bounds
<1>30. ASSUME NEW b \in Bots, RestoreNext(b) PROVE TypesDb'
  BY <1>22, <1>30 DEF RestoreNext, Engine, Free, Works, db, manager, bots, bounds
<1>31. ASSUME NEW b \in Bots, WorkerStops(b) PROVE TypesDb'
  BY <1>22, <1>31 DEF WorkerStops, db, manager, bots, bounds
<1> QED BY <1>3, <1>4, <1>5, <1>6, <1>7, <1>8, <1>9, <1>10, <1>11, <1>12, <1>13,
      <1>14, <1>15, <1>16, <1>17, <1>18, <1>19, <1>20, <1>21, <1>23, <1>24, <1>25,
      <1>26, <1>27, <1>28, <1>29, <1>30, <1>31 DEF Next, Boot, Creating, User, Loop,
      Worker, End

\* The bounds of the counted engines, from the bound of the faults.
LEMMA Counted ==
  ASSUME NEW p \in Nat, NEW l \in Nat, NEW f \in 0..MaxFaults, l <= f, p <= l + 1
  PROVE  p \in 0..(1 + MaxFaults) /\ l \in 0..MaxFaults
BY LifecycleAssumption

\* The manager, given that at most one position engine is not left behind.
LEMMA KeepTypesManager == IInv /\ Starting' /\ [Next]_vars => TypesManager'
<1> SUFFICES ASSUME IInv, [Next]_vars, Starting' PROVE TypesManager'
  OBVIOUS
<1>1. TypesDb /\ TypesManager
  BY TypeParts DEF IInv
<1>2. faults' \in 0..MaxFaults
  BY TypeParts, KeepTypesDb DEF TypesDb
<1> USE <1>1, <1>2, LifecycleAssumption DEF TypesManager, TypesDb, Running
<1>3. CASE Restored
  BY <1>3 DEF Restored, db, manager, bots, bounds, EnginesUp, Rows, Starting
<1>4. CASE RestoreFails
  <2>1. create' = create /\ delete' = delete /\ lock' = lock /\ engine' = engine
    BY <1>4 DEF RestoreFails
  <2>2. phase' = "serving" /\ registered' \in {FALSE, creds} /\ fed' \in SUBSET Running
    BY <1>4 DEF RestoreFails
  <2>3. (pes' = pes /\ leaked' = leaked) \/ (pes' = pes + 1 /\ leaked' = leaked + 1)
    BY <1>4 DEF RestoreFails
  <2>4. leaked' <= faults' /\ pes' <= leaked' + 1
    BY DEF Starting
  <2>5. pes' \in 0..(1 + MaxFaults) /\ leaked' \in 0..MaxFaults
    <3>1. pes' \in Nat /\ leaked' \in Nat
      BY <2>3
    <3> QED BY <1>2, <2>4, <3>1, Counted
  <2>6. fed' \subseteq Bots /\ registered' \in BOOLEAN
    BY <2>2
  <2> QED BY <2>1, <2>2, <2>5, <2>6
<1>5. CASE SaveCredential
  BY <1>5 DEF SaveCredential, Works, Fails, db, manager, bots, bounds
<1>6. ASSUME NEW b \in Bots, AlreadyStarted(b) PROVE TypesManager'
  BY <1>6 DEF AlreadyStarted, AtCreate, db, manager, bots, bounds
<1>7. ASSUME NEW b \in Bots, NotStarted(b) PROVE TypesManager'
  BY <1>7 DEF NotStarted, AtCreate, db, manager, bots, bounds
<1>8. ASSUME NEW b \in Bots, TakeLock(b) PROVE TypesManager'
  BY <1>8 DEF TakeLock, AtCreate, db, manager, bots, bounds
<1>9. ASSUME NEW b \in Bots, UnderLock(b) PROVE TypesManager'
  BY <1>9 DEF UnderLock, AtCreate, db, manager, bots, bounds, Starting
<1>10. ASSUME NEW b \in Bots, StartFinished(b) PROVE TypesManager'
  BY <1>10 DEF StartFinished, AtCreate, EnginesUp, db, manager, bots, bounds
<1>11. ASSUME NEW b \in Bots, StartFails(b) PROVE TypesManager'
  BY <1>11 DEF StartFails, AtCreate, Fails, db, manager, bots, bounds, Starting
<1>12. ASSUME NEW b \in Bots, Insert(b) PROVE TypesManager'
  BY <1>12 DEF Insert, AtCreate, db, manager, bots, bounds
<1>13. ASSUME NEW b \in Bots, InsertFails(b) PROVE TypesManager'
  BY <1>13 DEF InsertFails, AtCreate, Fails, Works, db, manager, bots, bounds
<1>14. ASSUME NEW b \in Bots, CreateCounts(b) PROVE TypesManager'
  BY <1>14 DEF CreateCounts, AtCreate, db, manager, bots, bounds
<1>15. ASSUME NEW b \in Bots, NEW c \in {"start", "stop", "delete"}, Request(b, c)
           PROVE TypesManager'
  BY <1>15 DEF Request, db, manager, bots, bounds
<1>16. CASE Cancel
  BY <1>16 DEF Cancel, Engine, Works, Fails, Answer, Step, db, manager, bots, bounds,
      Idle
<1>17. CASE RemoveRow
  BY <1>17 DEF RemoveRow, Engine, Works, Fails, Answer, db, manager, bots, bounds, Idle
<1>18. CASE PositionEngineFails
  BY <1>18 DEF PositionEngineFails, Fails, db, manager, bots, bounds, Starting
<1>19. CASE Signal
  BY <1>19 DEF Signal, db, manager, bots, bounds
<1>20. CASE ShutDown
  BY <1>20 DEF ShutDown, Served, db, manager, bots, bounds, Starting
<1>21. CASE Exit
  <2>1. /\ create' = [b \in Bots |-> IF create[b] = "no" THEN "no" ELSE "over"]
        /\ delete' = [b \in Bots |-> IF delete[b] = "sent" THEN "no" ELSE delete[b]]
    BY <1>21 DEF Exit, ProcessGone
  <2>2. /\ create' \in [Bots -> {"no", "counted", "waiting", "locked", "starting", "ready", "over"}]
        /\ delete' \in [Bots -> {"no", "sent", "ok", "failed"}]
    BY <2>1
  <2>3. /\ phase' = "down" /\ registered' = FALSE /\ lock' = Nobody /\ engine' = "none"
        /\ pes' = 0 /\ leaked' = 0 /\ fed' = {}
    BY <1>21 DEF Exit, ProcessGone
  <2>4. fed' \subseteq Bots /\ pes' \in 0..(1 + MaxFaults) /\ leaked' \in 0..MaxFaults
    BY <2>3
  <2>5. /\ phase' \in {"boot", "serving", "draining", "down"} /\ registered' \in BOOLEAN
        /\ lock' \in Bots \cup {Nobody} /\ engine' \in Modes \cup {"none"}
    BY <2>3
  <2> QED BY <2>2, <2>4, <2>5
<1>22. CASE Kill
  <2>1. /\ create' = [b \in Bots |-> IF create[b] = "no" THEN "no" ELSE "over"]
        /\ delete' = [b \in Bots |-> IF delete[b] = "sent" THEN "no" ELSE delete[b]]
    BY <1>22 DEF Kill, ProcessGone
  <2>2. /\ create' \in [Bots -> {"no", "counted", "waiting", "locked", "starting", "ready", "over"}]
        /\ delete' \in [Bots -> {"no", "sent", "ok", "failed"}]
    BY <2>1
  <2>3. /\ phase' = "down" /\ registered' = FALSE /\ lock' = Nobody /\ engine' = "none"
        /\ pes' = 0 /\ leaked' = 0 /\ fed' = {}
    BY <1>22 DEF Kill, ProcessGone
  <2>4. fed' \subseteq Bots /\ pes' \in 0..(1 + MaxFaults) /\ leaked' \in 0..MaxFaults
    BY <2>3
  <2>5. /\ phase' \in {"boot", "serving", "draining", "down"} /\ registered' \in BOOLEAN
        /\ lock' \in Bots \cup {Nobody} /\ engine' \in Modes \cup {"none"}
    BY <2>3
  <2> QED BY <2>2, <2>4, <2>5
<1>23. CASE Restart
  BY <1>23 DEF Restart, db, manager, bots, bounds
<1>24. CASE UNCHANGED <<phase, registered, create, delete, lock, engine, pes, leaked, fed>>
  BY <1>24
<1>25. CASE DeleteCredential \/ LoadRunning \/ TakeCommand \/ Unmark \/ Spawn \/ Mark \/
          Join \/ Unrun \/ UNCHANGED vars
  BY <1>24, <1>25 DEF DeleteCredential, LoadRunning, TakeCommand, Unmark, Spawn, Mark,
      Join, Unrun, Engine, Fails, Free, Running, Step, Works, WritesStatus, db, manager,
      bots, bounds, vars
<1>26. ASSUME NEW b \in Bots, RestoreNext(b) PROVE TypesManager'
  BY <1>24, <1>26 DEF RestoreNext, Engine, Free, Works, db, manager, bots, bounds
<1>27. ASSUME NEW b \in Bots, WorkerStops(b) PROVE TypesManager'
  BY <1>24, <1>27 DEF WorkerStops, db, manager, bots, bounds
<1>28. ASSUME NEW b \in Bots, WorkerPanics(b) PROVE TypesManager'
  BY <1>24, <1>28 DEF WorkerPanics, Fails, db, manager, bots, bounds
<1> QED BY <1>3, <1>4, <1>5, <1>6, <1>7, <1>8, <1>9, <1>10, <1>11, <1>12, <1>13,
      <1>14, <1>15, <1>16, <1>17, <1>18, <1>19, <1>20, <1>21, <1>22, <1>23, <1>25,
      <1>26, <1>27, <1>28 DEF Next, Boot, Creating, User, Loop, Worker, End

\* The bot engine: a worker is started when none of the bot runs.
LEMMA KeepTypesBots == IInv /\ [Next]_vars => TypesBots'
<1> SUFFICES ASSUME IInv, [Next]_vars PROVE TypesBots'
  OBVIOUS
<1>1. TypesDb /\ TypesBots
  BY TypeParts DEF IInv
<1>2. LoopShape /\ WorkersOwned
  BY DEF IInv
<1>3. op # Idle => op.bot \in Bots
  BY NamesBots DEF IInv
<1> USE <1>1, LifecycleAssumption DEF TypesBots
<1>4. CASE Restored
  BY <1>4 DEF Restored, db, manager, bots, bounds, EnginesUp, Running, Rows, Idle
<1>5. ASSUME NEW b \in Bots, StartFinished(b) PROVE TypesBots'
  BY <1>5 DEF StartFinished, AtCreate, EnginesUp, db, manager, bots, bounds, Idle
<1>6. ASSUME NEW b \in Bots, NEW c \in {"start", "stop", "delete"}, Request(b, c)
           PROVE TypesBots'
  BY <1>6 DEF Request, db, manager, bots, bounds, Ops, Commands, Idle
<1>7. CASE LoadRunning
  BY <1>7, <1>3 DEF LoadRunning, Engine, Works, Fails, Free, Running, db, manager, bots,
      bounds, Idle
<1>8. ASSUME NEW b \in Bots, RestoreNext(b) PROVE TypesBots'
  BY <1>8, <1>3 DEF RestoreNext, Engine, Free, Works, db, manager, bots, bounds, Ops,
      Commands, Idle
<1>9. CASE TakeCommand
  <2>1. op' \in Ops
    <3>1. Head(queue) \in Commands
      BY <1>9 DEF TakeCommand
    <3>2. op' = [do |-> IF Head(queue).cmd = "start" THEN "spawn" ELSE "cancel",
                 bot |-> Head(queue).bot, for |-> Head(queue).cmd]
      BY <1>9 DEF TakeCommand, Engine
    <3> QED BY <3>1, <3>2 DEF Commands, Ops
  <2>2. queue' = Tail(queue) /\ queue # <<>> /\ UNCHANGED <<loop, restore, handles, alive>>
    BY <1>9 DEF TakeCommand
  <2> QED BY <2>1, <2>2
<1>10. CASE Unmark
  BY <1>10, <1>3, StepOps DEF Unmark, Engine, WritesStatus, Step, Works, Fails, db,
      manager, bots, bounds, Idle
<1>11. CASE Spawn
  <2>1. op.bot \in Bots /\ op.do = "spawn" /\ op # Idle
    BY <1>11, <1>3 DEF Spawn, Idle
  <2>2. op' \in Ops \cup {Idle}
    BY <1>11, <2>1, StepOps DEF Spawn, Engine, Step
  <2>3. \/ UNCHANGED <<handles, alive>>
        \/ /\ op.bot \notin handles /\ handles' = handles \cup {op.bot}
           /\ alive' = [alive EXCEPT ![op.bot] = @ + 1]
    BY <1>11 DEF Spawn
  <2>4. op.bot \notin handles => alive[op.bot] = 0
    BY <1>2, <2>1 DEF LoopShape, WorkersOwned
  <2>5. UNCHANGED <<loop, restore, queue>>
    BY <1>11 DEF Spawn
  <2> QED BY <2>1, <2>2, <2>3, <2>4, <2>5
<1>12. CASE Mark
  BY <1>12, <1>3 DEF Mark, Engine, WritesStatus, Works, Fails, db, manager, bots,
      bounds, Idle
<1>13. CASE Cancel
  BY <1>13, <1>3, StepOps DEF Cancel, Engine, Works, Fails, Answer, Step, db, manager,
      bots, bounds, Idle
<1>14. CASE Join
  <2>1. op.bot \in Bots /\ op.do = "join"
    BY <1>14, <1>3 DEF Join, Idle
  <2>2. op' \in Ops
    BY <1>14, <2>1, StepOps DEF Join, Engine, Step
  <2>3. alive' = [alive EXCEPT ![op.bot] = 0] /\ UNCHANGED <<loop, restore, queue, handles>>
    BY <1>14 DEF Join
  <2>4. alive' \in [Bots -> 0..1]
    BY <2>1, <2>3
  <2> QED BY <2>2, <2>3, <2>4
<1>15. CASE Unrun
  BY <1>15, <1>3, StepOps DEF Unrun, Engine, WritesStatus, Step, Works, Fails, db,
      manager, bots, bounds, Idle
<1>16. CASE RemoveRow
  BY <1>16, <1>3 DEF RemoveRow, Engine, Works, Fails, Answer, db, manager, bots, bounds,
      Idle
<1>17. ASSUME NEW b \in Bots, WorkerStops(b) PROVE TypesBots'
  BY <1>17 DEF WorkerStops, db, manager, bots, bounds, Idle
<1>18. ASSUME NEW b \in Bots, WorkerPanics(b) PROVE TypesBots'
  BY <1>18 DEF WorkerPanics, Fails, db, manager, bots, bounds, Idle
<1>19. CASE ShutDown
  BY <1>19 DEF ShutDown, Served, db, manager, bots, bounds, Idle
<1>20. CASE Exit
  BY <1>20 DEF Exit, ProcessGone, db, manager, bots, bounds, Idle
<1>21. CASE Kill
  BY <1>21 DEF Kill, ProcessGone, db, manager, bots, bounds, Idle
<1>22. CASE UNCHANGED <<loop, restore, op, queue, handles, alive>>
  BY <1>22
<1>23. CASE RestoreFails \/ SaveCredential \/ DeleteCredential \/ PositionEngineFails \/
          Signal \/ Restart \/ UNCHANGED vars
  BY <1>22, <1>23 DEF RestoreFails, SaveCredential, DeleteCredential,
      PositionEngineFails, Signal, Restart, Fails, Hopeless, Rows, Running, Works, db,
      manager, bots, bounds, vars
<1>24. ASSUME NEW b \in Bots, AlreadyStarted(b) PROVE TypesBots'
  BY <1>22, <1>24 DEF AlreadyStarted, AtCreate, db, manager, bots, bounds
<1>25. ASSUME NEW b \in Bots, NotStarted(b) PROVE TypesBots'
  BY <1>22, <1>25 DEF NotStarted, AtCreate, db, manager, bots, bounds
<1>26. ASSUME NEW b \in Bots, TakeLock(b) PROVE TypesBots'
  BY <1>22, <1>26 DEF TakeLock, AtCreate, db, manager, bots, bounds
<1>27. ASSUME NEW b \in Bots, UnderLock(b) PROVE TypesBots'
  BY <1>22, <1>27 DEF UnderLock, AtCreate, db, manager, bots, bounds
<1>28. ASSUME NEW b \in Bots, StartFails(b) PROVE TypesBots'
  BY <1>22, <1>28 DEF StartFails, AtCreate, Fails, db, manager, bots, bounds
<1>29. ASSUME NEW b \in Bots, Insert(b) PROVE TypesBots'
  BY <1>22, <1>29 DEF Insert, AtCreate, db, manager, bots, bounds
<1>30. ASSUME NEW b \in Bots, InsertFails(b) PROVE TypesBots'
  BY <1>22, <1>30 DEF InsertFails, AtCreate, Fails, Works, db, manager, bots, bounds
<1>31. ASSUME NEW b \in Bots, CreateCounts(b) PROVE TypesBots'
  BY <1>22, <1>31 DEF CreateCounts, AtCreate, db, manager, bots, bounds
<1> QED BY <1>4, <1>5, <1>6, <1>7, <1>8, <1>9, <1>10, <1>11, <1>12, <1>13, <1>14,
      <1>15, <1>16, <1>17, <1>18, <1>19, <1>20, <1>21, <1>23, <1>24, <1>25, <1>26,
      <1>27, <1>28, <1>29, <1>30, <1>31 DEF Next, Boot, Creating, User, Loop, Worker,
      End

\* The first state: nothing is stored and nothing runs.
LEMMA InitInv == Init => IInv
<1> SUFFICES ASSUME Init PROVE IInv
  OBVIOUS
<1> USE LifecycleAssumption DEF Init
<1>1. TypesDb
  <2>1. row \in [Bots -> {"none", "stopped", "running", "error"}]
    OBVIOUS
  <2>2. /\ mode \in [Bots -> Modes] /\ creds \in BOOLEAN /\ missed \subseteq Bots
    OBVIOUS
  <2>3. commands = 0 /\ faults = 0 /\ restarts = 0
    OBVIOUS
  <2>4. /\ commands \in 0..MaxCommands /\ faults \in 0..MaxFaults
        /\ restarts \in 0..MaxRestarts
    BY <2>3
  <2> QED BY <2>1, <2>2, <2>4 DEF TypesDb
<1>2. TypesManager
  <2>1. create \in [Bots -> {"no", "counted", "waiting", "locked", "starting", "ready", "over"}]
    OBVIOUS
  <2>2. delete \in [Bots -> {"no", "sent", "ok", "failed"}]
    OBVIOUS
  <2>3. /\ phase \in {"boot", "serving", "draining", "down"} /\ registered \in BOOLEAN
        /\ lock \in Bots \cup {Nobody} /\ engine \in Modes \cup {"none"}
    OBVIOUS
  <2>4. pes \in 0..(1 + MaxFaults) /\ leaked \in 0..MaxFaults /\ fed \subseteq Bots
    OBVIOUS
  <2> QED BY <2>1, <2>2, <2>3, <2>4 DEF TypesManager
<1>3. TypesBots
  BY DEF TypesBots
<1>4. LoopShape /\ Outside /\ Starting
  BY DEF LoopShape, Outside, Starting
<1>5. RowShape
  BY DEF RowShape, Idle
<1>6. WorkersOwned /\ DeletedStays
  BY DEF WorkersOwned, DeletedStays
<1> QED BY <1>1, <1>2, <1>3, <1>4, <1>5, <1>6, TypeParts DEF IInv

\* Every step keeps the invariant.
LEMMA KeepInv == IInv /\ [Next]_vars => IInv'
<1> SUFFICES ASSUME IInv, [Next]_vars PROVE IInv'
  OBVIOUS
<1>1. LoopShape' /\ Outside' /\ Starting' /\ RowShape'
  BY KeepLoopShape, KeepOutside, KeepStarting, KeepRowShape
<1>2. WorkersOwned' /\ DeletedStays'
  BY KeepWorkersOwned, KeepDeletedStays
<1>3. TypesDb' /\ TypesManager' /\ TypesBots'
  BY <1>1, KeepTypesDb, KeepTypesManager, KeepTypesBots
<1>4. TypeOK'
  BY <1>3 DEF TypeOK, TypesDb, TypesManager, TypesBots
<1> QED BY <1>1, <1>2, <1>4 DEF IInv

LEMMA Invariant == Spec => []IInv
  BY InitInv, KeepInv, PTL DEF Spec

\* Every variable keeps its type; in particular no bot ever has two workers, whatever
\* requests, failures and restarts come (start_bot).
THEOREM TypeCorrect == Spec => []TypeOK
<1>1. IInv => TypeOK
  BY DEF IInv
<1> QED BY <1>1, Invariant, PTL

\* A worker that runs has its handle in the map, or is about to be ended: none trades on
\* where no command can reach it (start_bot, graceful_shutdown_worker, run).
THEOREM WorkersAlwaysOwned == Spec => []WorkersOwned
<1>1. IInv => WorkersOwned
  BY DEF IInv
<1> QED BY <1>1, Invariant, PTL

\* A confirmed deletion is final: no row and no worker of the bot comes back, not after
\* any number of restarts either (delete_bot, start_bot, restore_running_bots).
THEOREM DeletionFinal == Spec => []DeletedStays
<1>1. IInv => DeletedStays
  BY DEF IInv
<1> QED BY <1>1, Invariant, PTL

\* However many requests find no engines at the same time, they build one set of them
\* (ensure_started).
THEOREM OneEngineSet == Spec => []SingleEngine
<1>1. IInv => SingleEngine
  BY DEF IInv, TypeOK, Starting, SingleEngine
<1> QED BY <1>1, Invariant, PTL

-----------------------------------------------------------------------------
(* The status of a bot and its worker *)

\* What the row of the bot says is what the map of workers says.
Told(b) == (row[b] = "running") <=> (b \in handles)

\* Before the bot engine runs the map is empty and, once the start-up is over, a bot is
\* running in the database only where the bot engine is about to restore it.
MapEmpty ==
  /\ loop # "running" => handles = {} /\ restore = {}
  /\ phase \in {"serving", "draining"} /\ loop = "none" =>
       \A b \in Bots \ missed : row[b] # "running"

\* A bot to be restored has no worker and no command.
RestoreLeft == restore \cap handles = {} /\ op.bot \notin restore

\* The bots nobody works on are told truthfully; the one in hand as far as its command is.
RowsTold ==
  loop = "running" =>
    /\ \A b \in Bots \ (missed \cup restore) : op.bot # b \/ op.do \in {"spawn", "cancel"} => Told(b)
    /\ op.do = "mark" => row[op.bot] # "none" /\ op.bot \in handles
    /\ op.do \in {"unmark", "join", "unrun", "remove"} => op.bot \notin handles

StatusInv == MapEmpty /\ RestoreLeft /\ RowsTold

\* The map is filled by the bot engine only, in its loop.
LEMMA KeepMapEmpty == IInv /\ StatusInv /\ [Next]_vars => MapEmpty'
<1> SUFFICES ASSUME IInv, StatusInv, [Next]_vars PROVE MapEmpty'
  OBVIOUS
<1>t. /\ row \in [Bots -> {"none", "stopped", "running", "error"}] /\ missed \subseteq Bots
      /\ op # Idle => op.bot \in Bots
      /\ op.do # "idle" => op # Idle
      /\ op # Idle => loop = "running"
      /\ phase \in {"boot", "down"} => loop = "none"
      /\ engine = "none" => loop = "none"
  BY NamesBots DEF IInv, TypeOK, LoopShape, Outside, Idle
<1>s. \A b \in Bots : create[b] = "starting" => loop = "none" 
  BY <1>t DEF IInv, Starting
<1> USE <1>t DEF StatusInv, MapEmpty
<1>1. CASE Restored
  BY <1>1 DEF Restored, EnginesUp, Running, Rows, db, bounds
<1>2. CASE RestoreFails
  BY <1>2 DEF RestoreFails, Hopeless, Running, Rows, bots
<1>3. ASSUME NEW b \in Bots, StartFinished(b) PROVE MapEmpty'
  BY <1>3, <1>s DEF StartFinished, AtCreate, EnginesUp, db, bounds
<1>4. ASSUME NEW b \in Bots, Insert(b) PROVE MapEmpty'
  BY <1>4 DEF Insert, bots, bounds
<1>5. CASE LoadRunning
  BY <1>5 DEF LoadRunning, Engine
<1>6. CASE Loop /\ ~LoadRunning
  <2>1. op # Idle \/ loop = "running"
    BY <1>6 DEF Loop, RestoreNext, TakeCommand, Unmark, Spawn, Mark, Cancel, Join, Unrun, RemoveRow
  <2>2. loop = "running" /\ loop' = loop
    BY <1>6, <2>1 DEF Loop, RestoreNext, TakeCommand, Unmark, Spawn, Mark, Cancel, Join, Unrun, RemoveRow
  <2> QED BY <2>2
<1>7. CASE ShutDown
  BY <1>7 DEF ShutDown
<1>8. CASE Exit \/ Kill
  BY <1>8 DEF Exit, Kill, ProcessGone
<1>9. CASE Restart
  BY <1>9 DEF Restart, db, bots
<1>10. CASE UNCHANGED <<row, loop, handles, restore, missed>> /\ (phase' = phase \/ phase = "serving")
  BY <1>10
<1>11. CASE SaveCredential \/ DeleteCredential \/ PositionEngineFails \/ Signal \/ UNCHANGED vars
  BY <1>10, <1>11 DEF SaveCredential, DeleteCredential, PositionEngineFails, Signal, db, manager,
      bots, bounds, vars
<1>12. ASSUME NEW b \in Bots,
              AlreadyStarted(b) \/ NotStarted(b) \/ TakeLock(b) \/ UnderLock(b) \/ StartFails(b)
              \/ InsertFails(b) \/ CreateCounts(b) \/ WorkerStops(b) \/ WorkerPanics(b)
       PROVE MapEmpty'
  BY <1>10, <1>12 DEF AlreadyStarted, NotStarted, TakeLock, UnderLock, StartFails, InsertFails,
      CreateCounts, WorkerStops, WorkerPanics, db, manager, bots, bounds
<1>13. ASSUME NEW b \in Bots, NEW c \in {"start", "stop", "delete"}, Request(b, c) PROVE MapEmpty'
  BY <1>10, <1>13 DEF Request, db
<1> QED BY <1>1, <1>2, <1>3, <1>4, <1>5, <1>6, <1>7, <1>8, <1>9, <1>11, <1>12, <1>13
  DEF Next, Boot, Creating, User, Loop, Worker, End

\* All bots are restored before the first command is taken.
LEMMA KeepRestoreLeft == IInv /\ StatusInv /\ [Next]_vars => RestoreLeft'
<1> SUFFICES ASSUME IInv, StatusInv, [Next]_vars PROVE RestoreLeft'
  OBVIOUS
<1>t. /\ op # Idle => op.bot \in Bots
      /\ op.do # "idle" => op # Idle
      /\ op # Idle => loop = "running"
      /\ restore \subseteq Bots /\ Nobody \notin Bots /\ Idle.bot = Nobody
      /\ \A d : Step(d).bot = op.bot
  BY NamesBots, BotsAssumption DEF IInv, TypeOK, LoopShape, Idle, Step, Ops
<1> USE <1>t DEF StatusInv, RestoreLeft
<1>1. CASE LoadRunning
  <2>1. handles = {} /\ restore = {} /\ handles' = handles /\ op' = Idle
    BY <1>1 DEF LoadRunning, Engine, MapEmpty
  <2>2. Nobody \notin restore'
    BY <1>1, <2>1 DEF LoadRunning, Running
  <2> QED BY <2>1, <2>2
<1>2. ASSUME NEW b \in Bots, RestoreNext(b) PROVE RestoreLeft'
  BY <1>2 DEF RestoreNext, Engine
<1>3. CASE TakeCommand
  BY <1>3 DEF TakeCommand
<1>4. CASE UNCHANGED restore /\ handles' \subseteq handles /\ op'.bot \in {op.bot, Nobody}
  BY <1>4
<1>5. CASE Unmark \/ Mark \/ Cancel \/ Join \/ Unrun \/ RemoveRow
  BY <1>4, <1>5 DEF Unmark, Mark, Cancel, Join, Unrun, RemoveRow, Engine
<1>6. CASE Spawn
  BY <1>6 DEF Spawn, Engine
<1>7. CASE Exit \/ Kill
  BY <1>7 DEF Exit, Kill, ProcessGone
<1>8. CASE Restored \/ RestoreFails \/ SaveCredential \/ DeleteCredential \/ PositionEngineFails
           \/ Signal \/ ShutDown \/ Restart \/ UNCHANGED vars
  BY <1>4, <1>8 DEF Restored, RestoreFails, SaveCredential, DeleteCredential,
      PositionEngineFails, Signal, ShutDown, Restart, manager, bots, vars
<1>9. ASSUME NEW b \in Bots,
             AlreadyStarted(b) \/ NotStarted(b) \/ TakeLock(b) \/ UnderLock(b) \/ StartFinished(b)
             \/ StartFails(b) \/ Insert(b) \/ InsertFails(b) \/ CreateCounts(b) \/ WorkerStops(b)
             \/ WorkerPanics(b)
      PROVE RestoreLeft'
  BY <1>4, <1>9 DEF AlreadyStarted, NotStarted, TakeLock, UnderLock, StartFinished, StartFails,
      Insert, InsertFails, CreateCounts, WorkerStops, WorkerPanics, bots
<1>10. ASSUME NEW b \in Bots, NEW c \in {"start", "stop", "delete"}, Request(b, c)
       PROVE RestoreLeft'
  BY <1>4, <1>10 DEF Request
<1> QED BY <1>1, <1>2, <1>3, <1>5, <1>6, <1>7, <1>8, <1>9, <1>10
  DEF Next, Boot, Creating, User, Loop, Worker, End

\* What a command does to the row it does to the map, and a write that fails is known.
LEMMA KeepRowsTold == IInv /\ StatusInv /\ [Next]_vars => RowsTold'
<1> SUFFICES ASSUME IInv, StatusInv, [Next]_vars PROVE RowsTold'
  OBVIOUS
<1>t. /\ row \in [Bots -> {"none", "stopped", "running", "error"}] /\ missed \subseteq Bots
      /\ op # Idle => op.bot \in Bots
      /\ op.do # "idle" => op # Idle
      /\ op # Idle => loop = "running"
      /\ restore \subseteq Bots /\ Nobody \notin Bots /\ Idle.bot = Nobody /\ Idle.do = "idle"
      /\ \A d : op # Idle => Step(d).bot = op.bot /\ Step(d).do = d
      /\ op.do = "idle" => op = Idle
      /\ phase \in {"boot", "down"} => loop = "none"
      /\ restore \cap handles = {} /\ op.bot \notin restore
  BY NamesBots, BotsAssumption DEF IInv, TypeOK, LoopShape, Outside, Idle, Step, Ops, StatusInv, RestoreLeft
<1>r. RowsTold /\ MapEmpty
  BY DEF StatusInv
<1> USE <1>t DEF RowsTold, Told
<1>a. CASE UNCHANGED <<row, handles, op>> /\ (loop' = "running" => loop = "running")
           /\ (loop' = "running" => missed \cup restore \subseteq missed' \cup restore')
  BY <1>a, <1>r
<1>1. CASE LoadRunning
  BY <1>1, <1>r DEF LoadRunning, Engine, Running, MapEmpty
<1>2. ASSUME NEW b \in Bots, RestoreNext(b) PROVE RowsTold'
  <2>1. /\ op = Idle /\ b \in restore /\ restore' = restore \ {b} /\ loop = "running"
        /\ op' = [do |-> "unmark", bot |-> b, for |-> "restore"]
        /\ UNCHANGED <<row, handles, missed, loop>>
    BY <1>2 DEF RestoreNext, Engine, Free
  <2>2. ASSUME NEW x \in Bots \ (missed' \cup restore'), op'.bot # x PROVE Told(x)'
    <3>1. x \notin restore /\ x \notin missed /\ op.bot # x
      BY <2>1, <2>2
    <3> QED BY <1>r, <2>1, <3>1
  <2>3. op'.do = "unmark" /\ op'.bot = b /\ b \notin handles
    BY <2>1
  <2> QED BY <2>1, <2>2, <2>3
<1>3. CASE TakeCommand
  BY <1>3, <1>r DEF TakeCommand, Engine, Free
<1>4. CASE Unmark
  BY <1>4, <1>r DEF Unmark, Engine, WritesStatus
<1>5. CASE Spawn
  BY <1>5, <1>r DEF Spawn, Engine
<1>6. CASE Mark
  BY <1>6, <1>r DEF Mark, Engine, WritesStatus
<1>7. CASE Cancel
  BY <1>7, <1>r DEF Cancel, Engine
<1>8. CASE Join
  BY <1>8, <1>r DEF Join, Engine
<1>9. CASE Unrun
  BY <1>9, <1>r DEF Unrun, Engine, WritesStatus
<1>10. CASE RemoveRow
  BY <1>10, <1>r DEF RemoveRow, Engine
<1>11. ASSUME NEW b \in Bots, Insert(b) PROVE RowsTold'
  <2>1. row[b] = "none" /\ (op # Idle => op.bot # b)
    BY <1>11 DEF Insert, AtCreate, IInv, RowShape
  <2>2. row' = [row EXCEPT ![b] = "stopped"] /\ UNCHANGED <<bots, missed>>
    BY <1>11 DEF Insert, bounds
  <2> QED BY <1>r, <2>1, <2>2 DEF bots
<1>12. CASE Restored \/ RestoreFails \/ ShutDown \/ Exit \/ Kill \/ Restart
  BY <1>12 DEF Restored, RestoreFails, ShutDown, Exit, Kill, ProcessGone, Restart, EnginesUp, bots
<1>13. ASSUME NEW b \in Bots, StartFinished(b) PROVE RowsTold'
  BY <1>13 DEF StartFinished, EnginesUp
<1>14. CASE SaveCredential \/ DeleteCredential \/ PositionEngineFails \/ Signal \/ UNCHANGED vars
  BY <1>a, <1>14 DEF SaveCredential, DeleteCredential, PositionEngineFails, Signal, db, manager,
      bots, bounds, vars
<1>15. ASSUME NEW b \in Bots,
              AlreadyStarted(b) \/ NotStarted(b) \/ TakeLock(b) \/ UnderLock(b) \/ StartFails(b)
              \/ InsertFails(b) \/ CreateCounts(b) \/ WorkerStops(b) \/ WorkerPanics(b)
       PROVE RowsTold'
  BY <1>a, <1>15 DEF AlreadyStarted, NotStarted, TakeLock, UnderLock, StartFails, InsertFails,
      CreateCounts, WorkerStops, WorkerPanics, db, manager, bots, bounds
<1>16. ASSUME NEW b \in Bots, NEW c \in {"start", "stop", "delete"}, Request(b, c) PROVE RowsTold'
  BY <1>a, <1>16 DEF Request, db
<1> QED BY <1>1, <1>2, <1>3, <1>4, <1>5, <1>6, <1>7, <1>8, <1>9, <1>10, <1>11, <1>12, <1>13, <1>14,
           <1>15, <1>16
  DEF Next, Boot, Creating, User, Loop, Worker, End

\* The first state: no row and an empty map.
LEMMA InitStatus == Init => StatusInv
  BY BotsAssumption DEF Init, StatusInv, MapEmpty, RestoreLeft, RowsTold

\* Between two commands the status of a bot in the database is the one its worker has:
\* running when the bot engine holds a worker, and only then, in whatever order starts,
\* stops, deletions, restores and restarts come.  Only a write that failed, which is
\* logged, leaves a bot out (start_bot, stop_or_pause_bot, restore_running_bots).
THEOREM StatusIsTruthful == Spec => []StatusTruthful
<1>1. IInv /\ StatusInv /\ [Next]_vars => StatusInv'
  BY KeepMapEmpty, KeepRestoreLeft, KeepRowsTold DEF StatusInv
<1>2. IInv /\ StatusInv => StatusTruthful
  <2> SUFFICES ASSUME IInv, StatusInv, loop = "running", op = Idle, NEW b \in Bots \ (missed \cup restore)
               PROVE Told(b)
    BY DEF StatusTruthful, Told
  <2>1. op.bot # b
    BY BotsAssumption DEF Idle
  <2> QED BY <2>1 DEF StatusInv, RowsTold
<1> QED BY <1>1, <1>2, InitStatus, Invariant, PTL DEF Spec
=============================================================================
