------------------------------ MODULE Lifecycle ------------------------------
(***************************************************************************)
(* The life of the trading engines and their bots: the engine manager      *)
(* (server, engine_manager.rs), the bot engine (virs-trading-bot,          *)
(* chat/engine.rs), the requests that create, start, stop and delete bots  *)
(* (virs-api, bot_trade.rs), their rows (virs-database, bot_repo.rs) and   *)
(* the supervision of tasks (virs-task).                                   *)
(*                                                                         *)
(* One user and one exchange.  A bot engine handles one command at a time; *)
(* the steps between which it waits for the database or for a task are     *)
(* actions of their own, and requests, workers, failures and a kill of the *)
(* process come in between.  What a worker does is BotWorker's.            *)
(***************************************************************************)
EXTENDS Integers, Sequences, FiniteSets

CONSTANTS
  Bots,        \* bot ids: every id is created once
  Modes,       \* "paper", "live"
  MaxQueue,    \* capacity of the command channel (64 in the code)
  MaxCommands, \* number of start, stop and delete requests (model bound)
  MaxFaults,   \* number of failing calls and panics (model bound)
  MaxRestarts  \* number of times the process starts again (model bound)

ASSUME LifecycleAssumption ==
  /\ Modes # {} /\ Modes \subseteq {"paper", "live"}
  /\ MaxQueue \in Nat \ {0}
  /\ MaxCommands \in Nat /\ MaxFaults \in Nat /\ MaxRestarts \in Nat

Nobody == "nobody"
ASSUME BotsAssumption == Nobody \notin Bots

VARIABLES
  \* the database
  row,        \* row[b]: status of the bot in qd_bots
  mode,       \* mode[b]: paper_mode of the bot
  creds,      \* exchange credentials are stored
  \* the process
  phase,      \* main: boot, serving, draining (no new request), down
  registered, \* the exchange is in the registry
  create,     \* create[b]: where the request that creates b is
  delete,     \* delete[b]: where the request that deletes b is
  lock,       \* who holds init_lock
  engine,     \* mode of the engines in the manager's state
  pes,        \* number of position engines that run
  leaked,     \* number of position engines nobody can stop any more
  fed,        \* bots whose market is subscribed
  \* the bot engine
  loop,       \* none, loading, running, draining, gone
  restore,    \* the bots restore_running_bots has still to start
  op,         \* the command being handled and how far
  queue,      \* the command channel
  handles,    \* the bots that have a handle in the map of workers
  alive,      \* alive[b]: number of workers of b that run
  \* history and bounds
  missed,     \* bots of which the last database call has failed
  commands, faults, restarts

db == <<row, mode, creds>>
manager == <<phase, registered, create, delete, lock, engine, pes, leaked, fed>>
bots == <<loop, restore, op, queue, handles, alive>>
bounds == <<missed, commands, faults, restarts>>
vars == <<db, manager, bots, bounds>>

Idle == [do |-> "idle", bot |-> Nobody, for |-> "none"]
Ops == [do: {"unmark", "spawn", "mark", "cancel", "join", "unrun", "remove"}, bot: Bots,
        for: {"restore", "start", "stop", "delete"}]
Commands == [cmd: {"start", "stop", "delete"}, bot: Bots]

\* No bot ever has two workers.
TypeOK ==
  /\ row \in [Bots -> {"none", "stopped", "running", "error"}]
  /\ mode \in [Bots -> Modes]
  /\ creds \in BOOLEAN
  /\ phase \in {"boot", "serving", "draining", "down"}
  /\ registered \in BOOLEAN
  /\ create \in [Bots -> {"no", "counted", "waiting", "locked", "starting", "ready", "over"}]
  /\ delete \in [Bots -> {"no", "sent", "ok", "failed"}]
  /\ lock \in Bots \cup {Nobody}
  /\ engine \in Modes \cup {"none"}
  /\ pes \in 0..(1 + MaxFaults) /\ leaked \in 0..MaxFaults
  /\ fed \subseteq Bots
  /\ loop \in {"none", "loading", "running", "draining", "gone"}
  /\ restore \subseteq Bots
  /\ op \in Ops \cup {Idle}
  /\ queue \in Seq(Commands) /\ Len(queue) <= MaxQueue
  /\ handles \subseteq Bots
  /\ alive \in [Bots -> 0..1]
  /\ missed \subseteq Bots
  /\ commands \in 0..MaxCommands /\ faults \in 0..MaxFaults /\ restarts \in 0..MaxRestarts

Init ==
  /\ row = [b \in Bots |-> "none"]
  /\ mode \in [Bots -> Modes]
  /\ creds = FALSE
  /\ phase = "boot" /\ registered = FALSE
  /\ create = [b \in Bots |-> "no"] /\ delete = [b \in Bots |-> "no"]
  /\ lock = Nobody /\ engine = "none" /\ pes = 0 /\ leaked = 0 /\ fed = {}
  /\ loop = "none" /\ restore = {} /\ op = Idle /\ queue = <<>>
  /\ handles = {} /\ alive = [b \in Bots |-> 0]
  /\ missed = {} /\ commands = 0 /\ faults = 0 /\ restarts = 0

Fails == faults < MaxFaults /\ faults' = faults + 1
Works == UNCHANGED faults
Rows == {b \in Bots : row[b] # "none"}
Running == {b \in Bots : row[b] = "running"}

-----------------------------------------------------------------------------
(* Start-up: main, restore_if_needed *)

\* The tail of a successful ensure_started: the state is set, the bot engine spawned.
EnginesUp(m) == engine' = m /\ loop' = "loading"

\* restore_inner registers the exchange and, when a bot is running, subscribes the
\* markets and starts the engines in its mode.  Without a running bot nothing starts.
Restored ==
  /\ phase = "boot" /\ phase' = "serving"
  /\ registered' = (creds /\ Rows # {})
  /\ IF Running = {} THEN UNCHANGED <<engine, loop, pes, fed>>
     ELSE /\ creds
          /\ \E m \in Modes : (\A b \in Running : mode[b] = m) /\ EnginesUp(m)
          /\ pes' = 1
          /\ fed' = Running
  /\ UNCHANGED <<db, create, delete, lock, leaked, restore, op, queue, handles, alive, bounds>>

\* The running bots cannot be restored: no credentials, or bots of two modes.
Hopeless == Running # {} /\ (~creds \/ \A m \in Modes : \E b \in Running : mode[b] # m)

\* Then, or when a call fails, every running bot is marked as an error (unless that fails
\* too), and requests are served.  When ensure_started fails, at its end, the position
\* engine is left running.
RestoreFails ==
  /\ phase = "boot" /\ phase' = "serving"
  /\ Rows # {}
  /\ \E calls \in (IF Hopeless THEN 0..1 ELSE 1..2) :
       /\ faults + calls <= MaxFaults /\ faults' = faults + calls
       /\ IF calls = (IF Hopeless THEN 0 ELSE 1)
          THEN row' = [b \in Bots |-> IF b \in Running THEN "error" ELSE row[b]] /\ UNCHANGED missed
          ELSE UNCHANGED row /\ missed' = missed \cup Running
  /\ registered' \in {FALSE, creds}
  /\ fed' \in SUBSET Running
  /\ \/ UNCHANGED <<pes, leaked>>
     \/ /\ ~Hopeless /\ Running # {} /\ registered' /\ fed' = Running
        /\ pes' = pes + 1 /\ leaked' = leaked + 1
  /\ UNCHANGED <<mode, creds, create, delete, lock, engine, bots, commands, restarts>>

-----------------------------------------------------------------------------
(* Credentials *)

\* save_credential: the exchange is registered when it can be created.
SaveCredential ==
  /\ phase = "serving" /\ ~creds
  /\ creds' = TRUE
  /\ \/ Works /\ registered' = TRUE
     \/ Fails /\ UNCHANGED registered
  /\ UNCHANGED <<row, mode, phase, create, delete, lock, engine, pes, leaked, fed, bots,
                 missed, commands, restarts>>

\* delete_credential leaves the registered exchange as it is.
DeleteCredential ==
  /\ phase = "serving" /\ creds /\ creds' = FALSE
  /\ UNCHANGED <<row, mode, manager, bots, bounds>>

-----------------------------------------------------------------------------
(* Creating a bot, and the engines with the first one *)

AtCreate(b, from, to) == create[b] = from /\ create' = [create EXCEPT ![b] = to]

\* create_bot counts the user's bots ...
CreateCounts(b) ==
  /\ phase = "serving"
  /\ Rows = {}
  /\ AtCreate(b, "no", "counted")
  /\ UNCHANGED <<db, phase, registered, delete, lock, engine, pes, leaked, fed, bots, bounds>>

\* ... and makes sure that the engines are started: they may be, in whatever mode, ...
AlreadyStarted(b) ==
  /\ engine # "none"
  /\ AtCreate(b, "counted", "ready")
  /\ UNCHANGED <<db, phase, registered, delete, lock, engine, pes, leaked, fed, bots, bounds>>

\* ... or they are not, and the request waits for the lock ...
NotStarted(b) ==
  /\ engine = "none"
  /\ AtCreate(b, "counted", "waiting")
  /\ UNCHANGED <<db, phase, registered, delete, lock, engine, pes, leaked, fed, bots, bounds>>
TakeLock(b) ==
  /\ lock = Nobody
  /\ AtCreate(b, "waiting", "locked")
  /\ lock' = b
  /\ UNCHANGED <<db, phase, registered, delete, engine, pes, leaked, fed, bots, bounds>>

\* Mutant of UnderLock: the state is not looked at again.
UnderLockUnchecked(b) ==
  /\ create[b] = "locked"
  /\ IF registered
     THEN /\ AtCreate(b, "locked", "starting")
          /\ pes' = pes + 1
          /\ UNCHANGED lock
     ELSE /\ AtCreate(b, "locked", "over")
          /\ lock' = Nobody
          /\ UNCHANGED pes
  /\ UNCHANGED <<db, phase, registered, delete, engine, leaked, fed, bots, bounds>>

\* ... and looks again.  Without an exchange it fails; a position engine is spawned.
UnderLock(b) ==
  /\ create[b] = "locked"
  /\ IF engine = "none" /\ registered
     THEN /\ AtCreate(b, "locked", "starting")
          /\ pes' = pes + 1
          /\ UNCHANGED lock
     ELSE /\ AtCreate(b, "locked", IF engine = "none" THEN "over" ELSE "ready")
          /\ lock' = Nobody
          /\ UNCHANGED pes
  /\ UNCHANGED <<db, phase, registered, delete, engine, leaked, fed, bots, bounds>>

\* The rest of the start: the strategy engine and the bot engine.
StartFinished(b) ==
  /\ AtCreate(b, "starting", "ready")
  /\ EnginesUp(mode[b])
  /\ lock' = Nobody
  /\ UNCHANGED <<db, phase, registered, delete, pes, leaked, fed, restore, op, queue, handles,
                 alive, bounds>>

\* The credentials of the LLM cannot be read: the position engine is left running.
StartFails(b) ==
  /\ AtCreate(b, "starting", "over")
  /\ Fails
  /\ leaked' = leaked + 1
  /\ lock' = Nobody
  /\ UNCHANGED <<db, phase, registered, delete, engine, pes, fed, bots, missed, commands, restarts>>

\* The market is subscribed, the strategy chosen, the row inserted.
Insert(b) ==
  /\ registered
  /\ AtCreate(b, "ready", "over")
  /\ row' = [row EXCEPT ![b] = "stopped"]
  /\ fed' = fed \cup {b}
  /\ UNCHANGED <<mode, creds, phase, registered, delete, lock, engine, pes, leaked, bots, bounds>>

\* No exchange, no strategy, or a failing call.
InsertFails(b) ==
  /\ AtCreate(b, "ready", "over")
  /\ IF registered THEN Fails ELSE Works
  /\ fed' \in {fed, fed \cup {b}}
  /\ UNCHANGED <<db, phase, registered, delete, lock, engine, pes, leaked, bots, missed, commands, restarts>>

-----------------------------------------------------------------------------
(* Requests for a bot that exists *)

\* start_bot, stop_bot and delete_bot: a command for the bot engine, if there is one.
Request(b, c) ==
  /\ phase = "serving" /\ row[b] # "none" /\ commands < MaxCommands
  /\ engine # "none" /\ loop # "gone"
  /\ Len(queue) < MaxQueue
  /\ queue' = Append(queue, [cmd |-> c, bot |-> b])
  /\ commands' = commands + 1
  /\ IF c = "delete" THEN delete[b] # "sent" /\ delete' = [delete EXCEPT ![b] = "sent"]
                     ELSE UNCHANGED delete
  /\ UNCHANGED <<db, phase, registered, create, lock, engine, pes, leaked, fed, loop, restore, op,
                 handles, alive, missed, faults, restarts>>

-----------------------------------------------------------------------------
(* The bot engine *)

Engine(steps) == op' = steps /\ UNCHANGED <<mode, creds, phase, registered, create, lock, engine,
                                            pes, leaked, fed, commands, restarts>>
Step(d) == [op EXCEPT !.do = d]
Free == op = Idle /\ phase \in {"serving", "draining"}

\* Mutant of LoadRunning: the bots are marked as stopped before they are loaded.
LoadRunningLate ==
  /\ loop = "loading" /\ Free
  /\ loop' = "running"
  /\ row' = [b \in Bots |-> IF b \in Running THEN "stopped" ELSE row[b]]
  /\ UNCHANGED <<faults, missed, restore>>
  /\ UNCHANGED <<mode, creds, delete, queue, handles, alive>> /\ Engine(Idle)

\* restore_running_bots
LoadRunning ==
  /\ loop = "loading" /\ Free
  /\ loop' = "running"
  /\ \/ Works /\ restore' = Running /\ UNCHANGED missed
     \/ Fails /\ missed' = missed \cup Running /\ UNCHANGED restore
  /\ UNCHANGED <<row, delete, queue, handles, alive>> /\ Engine(Idle)

\* The next bot to restore, before any command is taken.
RestoreNext(b) ==
  /\ loop = "running" /\ Free /\ b \in restore
  /\ restore' = restore \ {b}
  /\ UNCHANGED <<row, delete, loop, queue, handles, alive, missed, faults>>
  /\ Engine([do |-> "unmark", bot |-> b, for |-> "restore"])

TakeCommand ==
  /\ loop = "running" /\ Free /\ restore = {} /\ queue # <<>>
  /\ queue' = Tail(queue)
  /\ UNCHANGED <<row, delete, loop, restore, handles, alive, missed, faults>>
  /\ Engine([do |-> IF Head(queue).cmd = "start" THEN "spawn" ELSE "cancel",
             bot |-> Head(queue).bot, for |-> Head(queue).cmd])

\* update_bot_status of the bot in hand; a row that is gone stays so.
WritesStatus(s) ==
  LET b == op.bot IN
  \/ /\ Works
     /\ row' = [row EXCEPT ![b] = IF @ = "none" THEN "none" ELSE s]
     /\ missed' = missed \ {b}
  \/ /\ Fails
     /\ missed' = missed \cup {b}
     /\ UNCHANGED row

\* A restored bot is stopped in the database before it is started.
Unmark ==
  /\ op.do = "unmark"
  /\ WritesStatus("stopped")
  /\ UNCHANGED <<delete, loop, restore, queue, handles, alive>> /\ Engine(Step("spawn"))

\* Mutant of Spawn: the map of workers is not looked at.
SpawnAgain ==
  LET b == op.bot IN
  /\ op.do = "spawn"
  /\ row[b] # "none"
  /\ handles' = handles \cup {b} /\ alive' = [alive EXCEPT ![b] = @ + 1]
  /\ UNCHANGED <<row, delete, loop, restore, queue, missed, faults>> /\ Engine(Step("mark"))

\* Mutant of Spawn: the bot's row is not looked at.
SpawnUnloaded ==
  LET b == op.bot IN
  /\ op.do = "spawn"
  /\ b \notin handles
  /\ handles' = handles \cup {b} /\ alive' = [alive EXCEPT ![b] = @ + 1]
  /\ UNCHANGED <<row, delete, loop, restore, queue, missed, faults>> /\ Engine(Step("mark"))

\* start_bot: nothing when the map has a worker or the row is gone or cannot be read.
Spawn ==
  LET b == op.bot IN
  /\ op.do = "spawn"
  /\ \/ /\ b \in handles \/ row[b] = "none"
        /\ Works
        /\ UNCHANGED <<handles, alive, missed>>
        /\ Engine(Idle)
     \/ /\ b \notin handles /\ row[b] # "none"
        /\ Works
        /\ handles' = handles \cup {b} /\ alive' = [alive EXCEPT ![b] = @ + 1]
        /\ UNCHANGED missed
        /\ Engine(Step("mark"))
     \/ /\ b \notin handles
        /\ Fails
        /\ missed' = missed \cup {b}
        /\ UNCHANGED <<handles, alive>>
        /\ Engine(Idle)
  /\ UNCHANGED <<row, delete, loop, restore, queue>>

Mark ==
  /\ op.do = "mark"
  /\ WritesStatus("running")
  /\ UNCHANGED <<delete, loop, restore, queue, handles, alive>> /\ Engine(Idle)

Answer(a) == delete' = [delete EXCEPT ![op.bot] = a]

\* stop_bot and delete_bot begin: a bot that is gone is deleted already; a deletion ends
\* when the row cannot be read or the position engine does not take the commands that
\* cancel the orders and close the positions.
Cancel ==
  LET b == op.bot IN
  /\ op.do = "cancel"
  /\ \/ /\ op.for = "delete" /\ row[b] = "none"
        /\ Works /\ Answer("ok")
        /\ UNCHANGED <<handles, missed>> /\ Engine(Idle)
     \/ /\ op.for = "delete" /\ row[b] # "none"
        /\ IF pes = leaked THEN Works ELSE Fails
        /\ Answer("failed")
        /\ UNCHANGED <<handles, missed>> /\ Engine(Idle)
     \/ /\ op.for = "delete" => row[b] # "none" /\ pes > leaked
        /\ Works
        /\ handles' = handles \ {b}
        /\ UNCHANGED <<delete, missed>>
        /\ Engine(Step(IF b \in handles THEN "join" ELSE "unrun"))
  /\ UNCHANGED <<row, loop, restore, queue, alive>>

\* The worker has been told to stop; it does so when it is back in its select ...
WorkerStops(b) ==
  /\ alive[b] = 1
  /\ (op.do = "join" /\ op.bot = b) \/ loop = "draining"
  /\ alive' = [alive EXCEPT ![b] = 0]
  /\ UNCHANGED <<db, manager, loop, restore, op, queue, handles, bounds>>

\* Mutant of Join: the worker is waited for, however long it takes.
JoinForever ==
  /\ op.do = "join" /\ alive[op.bot] = 0
  /\ UNCHANGED <<row, delete, loop, restore, queue, handles, alive, missed, faults>>
  /\ Engine(Step("unrun"))

\* Mutant of Join: the worker is not aborted when the time is up.
JoinOver ==
  /\ op.do = "join"
  /\ UNCHANGED <<row, delete, loop, restore, queue, handles, alive, missed, faults>>
  /\ Engine(Step("unrun"))

\* Mutant of Join: aborting the worker ends the command.
JoinReturns ==
  /\ op.do = "join"
  /\ alive' = [alive EXCEPT ![op.bot] = 0]
  /\ UNCHANGED <<row, delete, loop, restore, queue, handles, missed, faults>>
  /\ Engine(IF alive[op.bot] = 0 THEN Step("unrun") ELSE Idle)

\* ... and is waited for; when the time is up it is aborted.
Join ==
  /\ op.do = "join"
  /\ alive' = [alive EXCEPT ![op.bot] = 0]
  /\ UNCHANGED <<row, delete, loop, restore, queue, handles, missed, faults>>
  /\ Engine(Step("unrun"))

Unrun ==
  /\ op.do = "unrun"
  /\ WritesStatus("stopped")
  /\ UNCHANGED <<delete, loop, restore, queue, handles, alive>>
  /\ Engine(IF op.for = "delete" THEN Step("remove") ELSE Idle)

\* The last step of a deletion.
RemoveRow ==
  /\ op.do = "remove"
  /\ \/ Works /\ row' = [row EXCEPT ![op.bot] = "none"] /\ Answer("ok") /\ UNCHANGED missed
     \/ Fails /\ UNCHANGED row /\ Answer("failed") /\ missed' = missed \cup {op.bot}
  /\ UNCHANGED <<loop, restore, queue, handles, alive>> /\ Engine(Idle)

\* A worker panics; its handle stays in the map.
WorkerPanics(b) ==
  /\ alive[b] = 1 /\ Fails
  /\ alive' = [alive EXCEPT ![b] = 0]
  /\ UNCHANGED <<db, manager, loop, restore, op, queue, handles, missed, commands, restarts>>

\* The position engine ends when it cannot recover its state, and nobody notices.
PositionEngineFails ==
  /\ pes > leaked /\ engine # "none" /\ Fails
  /\ pes' = pes - 1
  /\ UNCHANGED <<db, phase, registered, create, delete, lock, engine, leaked, fed, bots, missed,
                 commands, restarts>>

-----------------------------------------------------------------------------
(* The end of the process *)

\* A signal: the server takes no new request and waits for those it has.
Signal ==
  /\ phase = "serving"
  /\ phase' = "draining"
  /\ UNCHANGED <<db, registered, create, delete, lock, engine, pes, leaked, fed, bots, bounds>>
Served == \A b \in Bots : create[b] \in {"no", "over"} /\ delete[b] # "sent"

\* shutdown stops the position engine first, then the bot engine: back in its select, it
\* leaves the commands in the channel and stops its workers.
ShutDown ==
  /\ phase = "draining" /\ Served /\ loop = "running" /\ op = Idle /\ restore = {}
  /\ pes' = leaked
  /\ loop' = "draining"
  /\ queue' = <<>> /\ handles' = {}
  /\ UNCHANGED <<db, phase, registered, create, delete, lock, engine, leaked, fed, restore, op, alive, bounds>>

\* The process ends, and every task with it.
ProcessGone ==
  /\ phase' = "down"
  /\ registered' = FALSE /\ lock' = Nobody /\ engine' = "none"
  /\ pes' = 0 /\ leaked' = 0 /\ fed' = {}
  /\ create' = [b \in Bots |-> IF create[b] = "no" THEN "no" ELSE "over"]
  /\ delete' = [b \in Bots |-> IF delete[b] = "sent" THEN "no" ELSE delete[b]]
  /\ loop' = "none" /\ restore' = {} /\ op' = Idle /\ queue' = <<>>
  /\ handles' = {} /\ alive' = [b \in Bots |-> 0]
  /\ UNCHANGED <<db, bounds>>

\* The bot engine is done, or its time is up wherever it is.
Exit == phase = "draining" /\ Served /\ ProcessGone

\* The process is killed.
Kill == phase # "down" /\ ProcessGone

Restart ==
  /\ phase = "down" /\ restarts < MaxRestarts
  /\ phase' = "boot"
  /\ restarts' = restarts + 1
  /\ missed' = {}
  /\ UNCHANGED <<db, registered, create, delete, lock, engine, pes, leaked, fed, bots, commands, faults>>

-----------------------------------------------------------------------------
Boot == Restored \/ RestoreFails
Creating == \E b \in Bots : \/ AlreadyStarted(b) \/ NotStarted(b) \/ TakeLock(b) \/ UnderLock(b)
                            \/ StartFinished(b) \/ StartFails(b) \/ Insert(b) \/ InsertFails(b)
User == \/ SaveCredential \/ DeleteCredential
        \/ \E b \in Bots : \/ CreateCounts(b)
                           \/ \E c \in {"start", "stop", "delete"} : Request(b, c)
Loop == \/ LoadRunning \/ (\E b \in Bots : RestoreNext(b)) \/ TakeCommand
        \/ Unmark \/ Spawn \/ Mark \/ Cancel \/ Join \/ Unrun \/ RemoveRow
Worker == \E b \in Bots : WorkerStops(b) \/ WorkerPanics(b)
End == Signal \/ ShutDown \/ Exit \/ Kill \/ Restart
Next == Boot \/ Creating \/ User \/ Loop \/ Worker \/ PositionEngineFails \/ End

Spec == Init /\ [][Next]_vars

\* The process runs on: start-up, the bot engine and a shutdown go on; a timeout ends the
\* wait for a worker (Join) and for the bot engine (Exit).
FairSpec == Spec /\ WF_vars(Boot) /\ WF_vars(Loop) /\ WF_vars(Exit)

-----------------------------------------------------------------------------
(* Properties *)

\* A worker that runs can be stopped: its handle is in the map, or the bot engine is
\* about to end it (start_bot, graceful_shutdown_worker, run).
WorkersOwned ==
  \A b \in Bots : alive[b] > 0 =>
    b \in handles \/ (op.do = "join" /\ op.bot = b) \/ loop = "draining"

\* Between two commands a bot is running in the database when the bot engine holds its
\* worker, and only then, unless a write of its status has failed (start_bot,
\* stop_or_pause_bot).
StatusTruthful ==
  (loop = "running" /\ op = Idle /\ phase \in {"serving", "draining"}) =>
    \A b \in Bots \ (missed \cup restore) : (row[b] = "running") <=> (b \in handles)

\* A deletion that was confirmed is final: no worker and no row, in this process and the
\* next ones (delete_bot, start_bot).
DeletedStays == \A b \in Bots : delete[b] = "ok" => row[b] = "none" /\ alive[b] = 0

\* Two requests never build the engines twice: all position engines but those of failed
\* starts are one (ensure_started).
SingleEngine == pes - leaked <= 1

\* Who asks to delete a bot is answered, however long its worker takes (delete_bot).
DeleteAnswered == \A b \in Bots : delete[b] = "sent" ~> delete[b] # "sent"

\* A bot that was running when the process ended trades again after the next start, with
\* its market subscribed, or it is marked as an error, unless the process is killed again
\* or a database call fails (restore_if_needed, restore_running_bots).
RestoredAgain ==
  \A b \in Bots : (phase = "boot" /\ row[b] = "running") ~>
    \/ alive[b] > 0 /\ b \in fed
    \/ row[b] = "error" \/ b \in missed \/ phase = "down"
=============================================================================
