---------------------------- MODULE StrategyStore ----------------------------
(***************************************************************************)
(* The prompts of the chat strategies: the folders under STRATEGIES_DIR    *)
(* (virs-prompt, writer.rs), their copy in memory (PromptLoader), the      *)
(* handlers that save and delete a strategy, and the StrategyEngine, which *)
(* asks the LLM for a better prompt of each strategy that scores low.      *)
(*                                                                         *)
(* A strategy is a folder with a folder per version and a meta.json that   *)
(* names the version to load.  The calls write files one after the other   *)
(* and any write may fail, the process may be killed between two of them,  *)
(* and the answer of the LLM comes long after the prompt was read.         *)
(*                                                                         *)
(* A prompt is abstracted to the version it carries and the text it is     *)
(* (Texts); the four content files of a version are one, complete or not.  *)
(***************************************************************************)
EXTENDS Integers, FiniteSets

CONSTANTS
  Names,        \* names of strategies
  Clients,      \* users of the HTTP API, one request at a time each
  Texts,        \* prompt texts
  MaxVersion,   \* StrategyEngineConfig.max_version
  MinTrades,    \* StrategyEngineConfig.min_trades_for_optimization
  Overlap,      \* two calls may be between their first and last write at once
  MaxFaults,    \* number of file operations that fail (model bound)
  MaxCrashes,   \* number of times the process is killed (model bound)
  MaxRequests   \* number of requests of the users (model bound)

ASSUME BoundsAssumption ==
  /\ MaxVersion \in Nat \ {0} /\ MinTrades \in Nat \ {0}
  /\ MaxFaults \in Nat /\ MaxCrashes \in Nat /\ MaxRequests \in Nat
ASSUME NamesAssumption == Names # {}
ASSUME SwitchAssumption == Overlap \in BOOLEAN
ASSUME ClientsAssumption == "optimizer" \notin Clients

Versions == 1..MaxVersion
Procs == Clients \cup {"optimizer"}
Absent == "absent"     \* no folder for the version
Partial == "partial"   \* a folder without all of its files
NoMeta == 0            \* no meta.json
Torn == MaxVersion + 1 \* a meta.json that was truncated and not yet written

ASSUME TextsAssumption == Texts \cap {Absent, Partial} = {}

VARIABLES
  folder,   \* folder[n]: what STRATEGIES_DIR holds of strategy n
  loader,   \* loader[n]: the template in PromptLoader
  job,      \* job[p]: the call p is in
  todo,     \* the strategies the optimizer's cycle has yet to look at
  faults, crashes, requests   \* how often each has happened

bounds == <<faults, crashes, requests>>
vars == <<folder, loader, job, todo, bounds>>

Template == [version: Versions, text: Texts]
NoTemplate == [version |-> 0, text |-> Absent]
Folder == [exists: BOOLEAN, files: [Versions -> Texts \cup {Absent, Partial}], meta: 0..Torn,
           remnant: BOOLEAN]   \* a removal of the folder has failed half way (history)
NoFolder == [exists |-> FALSE, files |-> [v \in Versions |-> Absent], meta |-> NoMeta,
             remnant |-> FALSE]
Job == [pc: {"idle", "create", "files", "meta", "metaOpen", "upsert", "remove", "llm", "version"},
        name: Names, tpl: Template \cup {NoTemplate}, valid: BOOLEAN]
Idle == [pc |-> "idle", name |-> CHOOSE n \in Names : TRUE, tpl |-> NoTemplate, valid |-> TRUE]

TypeOK ==
  /\ folder \in [Names -> Folder]
  /\ loader \in [Names -> Template \cup {NoTemplate}]
  /\ job \in [Procs -> Job]
  /\ todo \in SUBSET Names
  /\ faults \in 0..MaxFaults /\ crashes \in 0..MaxCrashes /\ requests \in 0..MaxRequests

-----------------------------------------------------------------------------
(* What the folders hold *)

\* load_strategy_folder: meta.json parses and the version it names has all its files.
Loadable(f) == f.exists /\ f.meta \in Versions /\ f.files[f.meta] \in Texts

\* PromptLoader::from_dir: a folder that cannot be loaded is skipped.
FromDir(fs) == [n \in Names |-> IF Loadable(fs[n])
                                THEN [version |-> fs[n].meta, text |-> fs[n].files[fs[n].meta]]
                                ELSE NoTemplate]

Stored(v, t) == [exists |-> TRUE, files |-> [NoFolder.files EXCEPT ![v] = t], meta |-> v,
                 remnant |-> FALSE]

\* The program starts with the strategies of the repository, one version each.
Init ==
  /\ folder \in [Names -> {NoFolder} \cup {Stored(1, t) : t \in Texts}]
  /\ loader = FromDir(folder)
  /\ job = [p \in Procs |-> Idle]
  /\ todo = {}
  /\ faults = 0 /\ crashes = 0 /\ requests = 0

-----------------------------------------------------------------------------
(* Calls and their writes *)

Writing == {"create", "files", "meta", "metaOpen", "upsert", "remove"}

\* p may go on with (or begin) its writes.
Turn(p) == Overlap \/ \A q \in Procs \ {p} : job[q].pc \notin Writing

Goto(p, pc) == job' = [job EXCEPT ![p].pc = pc]
Return(p) == job' = [job EXCEPT ![p] = Idle]
SetFolder(n, f) == folder' = [folder EXCEPT ![n] = f]

\* The call p returns an error because a file operation fails.
Fail(p) == /\ faults < MaxFaults
           /\ faults' = faults + 1
           /\ Return(p)
           /\ UNCHANGED <<loader, todo, crashes, requests>>

\* The version folder is made, with the strategy's folder where that is missing.
WithVersionDir(f, v) == [f EXCEPT !.exists = TRUE, !.files[v] = Partial]

\* save_new_version wants the strategy's folder and none for the version.
DirFree(f, v) == f.exists /\ f.files[v] = Absent

\* POST /strategies: with overwrite an existing folder is deleted first, whatever the
\* template is worth; create_strategy follows.
Save(c, n, t, overwrite) ==
  /\ job[c].pc = "idle" /\ Turn(c)
  /\ requests < MaxRequests
  /\ requests' = requests + 1
  /\ \E v \in Versions, valid \in BOOLEAN :
       job' = [job EXCEPT ![c] = [pc |-> "create", name |-> n,
                                  tpl |-> [version |-> v, text |-> t], valid |-> valid]]
  /\ IF overwrite THEN SetFolder(n, NoFolder) ELSE UNCHANGED folder
  /\ UNCHANGED <<loader, todo, faults, crashes>>

\* create_strategy: an invalid template and an existing folder are errors.
CreateDir(c) ==
  LET j == job[c] IN
  /\ j.pc = "create" /\ Turn(c)
  /\ IF j.valid /\ ~folder[j.name].exists
     THEN /\ SetFolder(j.name, WithVersionDir(folder[j.name], j.tpl.version))
          /\ Goto(c, "files")
     ELSE Return(c) /\ UNCHANGED folder
  /\ UNCHANGED <<loader, todo, bounds>>

\* create_dir_all fails after the strategy's folder.
CreateDirFails(c) ==
  LET j == job[c] IN
  /\ j.pc = "create" /\ Turn(c)
  /\ j.valid /\ ~folder[j.name].exists
  /\ SetFolder(j.name, [NoFolder EXCEPT !.exists = TRUE])
  /\ Fail(c)

\* write_version_files, which needs the version's folder.
WriteFiles(p) ==
  LET j == job[p] IN
  /\ j.pc = "files" /\ Turn(p)
  /\ IF folder[j.name].files[j.tpl.version] # Absent
     THEN /\ folder' = [folder EXCEPT ![j.name].files[j.tpl.version] = j.tpl.text]
          /\ Goto(p, "meta")
     ELSE Return(p) /\ UNCHANGED folder
  /\ UNCHANGED <<loader, todo, bounds>>

\* The write of the files fails half way.
WriteFilesFails(p) ==
  LET j == job[p] IN
  /\ j.pc = "files" /\ Turn(p)
  /\ folder[j.name].files[j.tpl.version] # Absent
  /\ folder' = [folder EXCEPT ![j.name].files[j.tpl.version] = Partial]
  /\ Fail(p)

\* Mutant of TruncateMeta: meta.json is written before the files.
TruncateMetaFirst(p) ==
  LET j == job[p] IN
  /\ j.pc \in {"files", "meta"} /\ Turn(p)
  /\ IF folder[j.name].exists
     THEN folder' = [folder EXCEPT ![j.name].meta = Torn] /\ Goto(p, "metaOpen")
     ELSE Return(p) /\ UNCHANGED folder
  /\ UNCHANGED <<loader, todo, bounds>>

\* fs::write of meta.json empties the file ...
TruncateMeta(p) ==
  LET j == job[p] IN
  /\ j.pc = "meta" /\ Turn(p)
  /\ IF folder[j.name].exists
     THEN folder' = [folder EXCEPT ![j.name].meta = Torn] /\ Goto(p, "metaOpen")
     ELSE Return(p) /\ UNCHANGED folder
  /\ UNCHANGED <<loader, todo, bounds>>

\* ... and then fills it; in a folder that was removed meanwhile nothing is left of it.
WriteMeta(p) ==
  LET j == job[p] IN
  /\ j.pc = "metaOpen" /\ Turn(p)
  /\ folder' = [folder EXCEPT ![j.name].meta = IF @ = NoMeta THEN NoMeta ELSE j.tpl.version]
  /\ Goto(p, "upsert")
  /\ UNCHANGED <<loader, todo, bounds>>

WriteMetaFails(p) == /\ job[p].pc = "metaOpen" /\ Turn(p)
                     /\ Fail(p)
                     /\ UNCHANGED folder

\* Mutant of Upsert: the optimizer's template is left to the next restart.
UpsertOnlyClients(p) ==
  /\ job[p].pc = "upsert" /\ Turn(p)
  /\ IF p \in Clients THEN loader' = [loader EXCEPT ![job[p].name] = job[p].tpl]
                       ELSE UNCHANGED loader
  /\ Return(p)
  /\ UNCHANGED <<folder, todo, bounds>>

\* The template is served from now on.
Upsert(p) ==
  /\ job[p].pc = "upsert" /\ Turn(p)
  /\ loader' = [loader EXCEPT ![job[p].name] = job[p].tpl]
  /\ Return(p)
  /\ UNCHANGED <<folder, todo, bounds>>

\* DELETE /strategies: the folder, then the template.
Delete(c, n) ==
  /\ job[c].pc = "idle" /\ Turn(c)
  /\ requests < MaxRequests
  /\ requests' = requests + 1
  /\ folder[n].exists
  /\ SetFolder(n, NoFolder)
  /\ job' = [job EXCEPT ![c].pc = "remove", ![c].name = n]
  /\ UNCHANGED <<loader, todo, faults, crashes>>

\* remove_dir_all fails when it has removed some of the folder.
DeleteFails(c, n) ==
  /\ job[c].pc = "idle" /\ Turn(c)
  /\ folder[n].exists
  /\ \E gone \in SUBSET Versions, m \in {NoMeta, folder[n].meta} :
       SetFolder(n, [folder[n] EXCEPT !.meta = m, !.remnant = TRUE,
                       !.files = [v \in Versions |-> IF v \in gone THEN Absent ELSE @[v]]])
  /\ Fail(c)

Remove(c) ==
  /\ job[c].pc = "remove" /\ Turn(c)
  /\ loader' = [loader EXCEPT ![job[c].name] = NoTemplate]
  /\ Return(c)
  /\ UNCHANGED <<folder, todo, bounds>>

-----------------------------------------------------------------------------
(* The optimizer *)

\* needs_optimization
NeedsOptimization(trades, low) == trades >= MinTrades /\ low

StartCycle ==
  /\ job["optimizer"].pc = "idle" /\ todo = {}
  /\ todo' = {n \in Names : loader[n] # NoTemplate}
  /\ UNCHANGED <<folder, loader, job, bounds>>

\* A strategy that needs nothing, is gone, or has reached the last version is left alone;
\* otherwise the LLM is asked for a better prompt than the one served now.
Evaluate(n, trades, low) ==
  /\ job["optimizer"].pc = "idle" /\ n \in todo
  /\ todo' = todo \ {n}
  /\ IF /\ trades > 0 /\ NeedsOptimization(trades, low)
        /\ loader[n] # NoTemplate /\ loader[n].version < MaxVersion
     THEN job' = [job EXCEPT !["optimizer"] =
                    [pc |-> "llm", name |-> n, tpl |-> loader[n], valid |-> TRUE]]
     ELSE UNCHANGED job
  /\ UNCHANGED <<folder, loader, bounds>>

\* The answer: the next version of the prompt that was read, or nothing usable.
LlmAnswers(t) ==
  /\ job["optimizer"].pc = "llm"
  /\ job' = [job EXCEPT !["optimizer"].pc = "version",
               !["optimizer"].tpl = [version |-> @.version + 1, text |-> t]]
  /\ UNCHANGED <<folder, loader, todo, bounds>>
LlmFails == /\ job["optimizer"].pc = "llm"
            /\ Return("optimizer")
            /\ UNCHANGED <<folder, loader, todo, bounds>>

\* save_new_version, up to the folder of the version.
NewVersionDir ==
  LET j == job["optimizer"] IN
  /\ j.pc = "version" /\ Turn("optimizer")
  /\ IF DirFree(folder[j.name], j.tpl.version)
     THEN /\ SetFolder(j.name, WithVersionDir(folder[j.name], j.tpl.version))
          /\ Goto("optimizer", "files")
     ELSE Return("optimizer") /\ UNCHANGED folder
  /\ UNCHANGED <<loader, todo, bounds>>

-----------------------------------------------------------------------------
\* The process is killed and started again.
Crash ==
  /\ crashes < MaxCrashes
  /\ crashes' = crashes + 1
  /\ loader' = FromDir(folder)
  /\ job' = [p \in Procs |-> Idle]
  /\ todo' = {}
  /\ UNCHANGED <<folder, faults, requests>>

Write(p) == \/ WriteFiles(p) \/ WriteFilesFails(p)
            \/ TruncateMeta(p) \/ WriteMeta(p) \/ WriteMetaFails(p)
            \/ Upsert(p)
Client(c) == \/ \E n \in Names, t \in Texts, overwrite \in BOOLEAN : Save(c, n, t, overwrite)
             \/ \E n \in Names : Delete(c, n) \/ DeleteFails(c, n)
             \/ CreateDir(c) \/ CreateDirFails(c) \/ Remove(c)
Optimizer == \/ StartCycle
             \/ \E n \in Names, trades \in 0..MinTrades, low \in BOOLEAN : Evaluate(n, trades, low)
             \/ \E t \in Texts : LlmAnswers(t)
             \/ LlmFails \/ NewVersionDir
Next == (\E p \in Procs : Write(p)) \/ (\E c \in Clients : Client(c)) \/ Optimizer \/ Crash

Spec == Init /\ [][Next]_vars

-----------------------------------------------------------------------------
(* Properties *)

\* A meta.json that can be read names a version whose files are all there, whatever write
\* failed and wherever the process was killed: it is written last (create_strategy,
\* save_new_version).  Only a removal that failed half way may leave it otherwise.
MetaIsLast ==
  \A n \in Names : folder[n].meta \in Versions /\ ~folder[n].remnant
                     => folder[n].files[folder[n].meta] \in Texts

Quiet == \A p \in Procs : job[p].pc \in {"idle", "llm", "version"}

\* Between calls the prompt served is the one a restart would load, as long as there is
\* one to load: no failed call leaves the two with different prompts.
ServedIsStored ==
  Quiet => \A n \in Names : Loadable(folder[n]) => loader[n] = FromDir(folder)[n]
=============================================================================
