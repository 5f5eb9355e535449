------------------------- MODULE StrategyStoreProofs -------------------------
(***************************************************************************)
(* Proofs about StrategyStore for any names, clients, texts, versions and  *)
(* bounds, as long as calls do not write at the same moment (Overlap):     *)
(* meta.json is written last, and what is served is what a restart loads.  *)
(*                                                                         *)
(* Both rest on how far a call has come with its writes: the folder of the *)
(* version is empty before its files are written, the files are there      *)
(* before meta.json is emptied and filled, and only from the files on is   *)
(* the strategy on disk ahead of the one in memory.                        *)
(***************************************************************************)
EXTENDS StrategyStore, TLAPS

-----------------------------------------------------------------------------
(* The inductive invariant *)

\* A folder that is not there holds nothing.
Absence == \A n \in Names : ~folder[n].exists => folder[n] = NoFolder

\* One call at a time is between its writes.
OneWriter ==
  \A p, q \in Procs : job[p].pc \in Writing /\ job[q].pc \in Writing => p = q

\* A call in hand is about a template, and the optimizer's has room for the next version.
JobShape ==
  /\ \A p \in Procs : job[p].pc \in {"create", "files", "meta", "metaOpen", "upsert", "llm", "version"}
                        => job[p].tpl \in Template
  /\ job["optimizer"].pc = "llm" => job["optimizer"].tpl.version < MaxVersion

\* What the call j has written to the folder f so far: the folder of the version, then its
\* files, then an empty meta.json, then one that names the version.
Progress(j, f) ==
  /\ j.pc = "files" => f.files[j.tpl.version] = Partial
  /\ j.pc \in {"meta", "metaOpen"} => f.files[j.tpl.version] = j.tpl.text
  /\ j.pc = "metaOpen" => f.meta = Torn
  /\ j.pc = "upsert" => f.meta = j.tpl.version /\ f.files[f.meta] = j.tpl.text
  /\ j.pc = "remove" => f = NoFolder
WritesInOrder == \A p \in Procs : Progress(job[p], folder[job[p].name])

\* The template t is what a restart would load from f.
Served(f, t) == Loadable(f) => t = [version |-> f.meta, text |-> f.files[f.meta]]

\* The two differ only while a call is past the files of the version.
Behind == {"meta", "metaOpen", "upsert"}
ServedInv ==
  \A n \in Names : \/ Served(folder[n], loader[n])
                   \/ \E p \in Procs : job[p].pc \in Behind /\ job[p].name = n

TInv == TypeOK /\ JobShape
SInv == TInv /\ Absence /\ OneWriter /\ MetaIsLast /\ WritesInOrder /\ ServedInv

-----------------------------------------------------------------------------
(* Types *)

\* The moves of a folder keep its type.
LEMMA FolderMoves ==
  ASSUME NEW f \in Folder, NEW v \in Versions, NEW t \in Texts \cup {Absent, Partial}
  PROVE  /\ [f EXCEPT !.files[v] = t] \in Folder
         /\ WithVersionDir(f, v) \in Folder
<1>1. f.files \in [Versions -> Texts \cup {Absent, Partial}]
  BY DEF Folder
<1>2. [f.files EXCEPT ![v] = t] \in [Versions -> Texts \cup {Absent, Partial}]
  BY <1>1
<1>3. [f.files EXCEPT ![v] = Partial] \in [Versions -> Texts \cup {Absent, Partial}]
  BY <1>1
<1>4. [f EXCEPT !.files[v] = t] = [f EXCEPT !.files = [f.files EXCEPT ![v] = t]]
  BY DEF Folder
<1>5. WithVersionDir(f, v) = [f EXCEPT !.exists = TRUE, !.files = [f.files EXCEPT ![v] = Partial]]
  BY DEF WithVersionDir, Folder
<1>6. [f EXCEPT !.files = [f.files EXCEPT ![v] = t]] \in Folder
  BY <1>2 DEF Folder
<1>7. [f EXCEPT !.exists = TRUE, !.files = [f.files EXCEPT ![v] = Partial]] \in Folder
  BY <1>3 DEF Folder
<1> QED BY <1>4, <1>5, <1>6, <1>7

\* The folder that is not there, and the numbers.
LEMMA Constants ==
  /\ NoFolder \in Folder /\ [NoFolder EXCEPT !.exists = TRUE] \in Folder
  /\ Idle \in Job /\ NoMeta \in 0..Torn /\ Torn \in 0..Torn /\ Torn \notin Versions
  /\ NoMeta \notin Versions /\ Versions \subseteq 0..Torn
  /\ Absent \notin Texts /\ Partial \notin Texts /\ Absent # Partial
  /\ "optimizer" \in Procs /\ Clients \subseteq Procs
<1> USE BoundsAssumption, NamesAssumption, TextsAssumption
<1>1. (CHOOSE n \in Names : TRUE) \in Names
  OBVIOUS
<1>2. Idle \in Job
  BY <1>1 DEF Idle, Job
<1>3. /\ NoMeta \in 0..Torn /\ Torn \in 0..Torn /\ Torn \notin Versions
      /\ NoMeta \notin Versions /\ Versions \subseteq 0..Torn
  BY DEF NoMeta, Torn, Versions
<1>4. [v \in Versions |-> Absent] \in [Versions -> Texts \cup {Absent, Partial}]
  OBVIOUS
<1>5. NoFolder \in Folder
  BY <1>3, <1>4 DEF NoFolder, Folder
<1>6. [NoFolder EXCEPT !.exists = TRUE] \in Folder
  BY <1>5 DEF Folder
<1>7. Absent # Partial /\ "optimizer" \in Procs /\ Clients \subseteq Procs
  BY DEF Absent, Partial, Procs
<1> QED BY <1>2, <1>3, <1>5, <1>6, <1>7

\* FromDir only loads templates.
LEMMA FromDirType ==
  ASSUME folder \in [Names -> Folder]
  PROVE  FromDir(folder) \in [Names -> Template \cup {NoTemplate}]
<1>1. ASSUME NEW n \in Names, Loadable(folder[n])
      PROVE  [version |-> folder[n].meta, text |-> folder[n].files[folder[n].meta]] \in Template
  BY <1>1 DEF Loadable, Template
<1> QED BY <1>1 DEF FromDir

\* Every step keeps the types.
LEMMA KeepTypes == TInv /\ [Next]_vars => TypeOK'
<1> SUFFICES ASSUME TInv, [Next]_vars PROVE TypeOK'
  OBVIOUS
<1>t. /\ folder \in [Names -> Folder] /\ loader \in [Names -> Template \cup {NoTemplate}]
      /\ job \in [Procs -> Job] /\ todo \in SUBSET Names
      /\ faults \in 0..MaxFaults /\ crashes \in 0..MaxCrashes /\ requests \in 0..MaxRequests
      /\ MaxFaults \in Nat /\ MaxCrashes \in Nat /\ MaxRequests \in Nat
  BY BoundsAssumption DEF TInv, TypeOK
<1>j. \A p \in Procs : job[p] \in Job /\ job[p].name \in Names /\ job[p].tpl \in Template \cup {NoTemplate}
                       /\ folder[job[p].name] \in Folder
  BY <1>t DEF Job
<1>k. \A p \in Procs : job[p].pc \in {"create", "files", "meta", "metaOpen", "upsert", "llm", "version"}
        => job[p].tpl \in Template /\ job[p].tpl.version \in Versions /\ job[p].tpl.text \in Texts
  BY DEF TInv, JobShape, Template
<1>p. \A p \in Procs, pc \in {"files", "meta", "metaOpen", "upsert"} : Goto(p, pc) => job' \in [Procs -> Job]
  BY <1>t DEF Goto, Job
<1>r. \A p \in Procs : Return(p) => job' \in [Procs -> Job]
  BY <1>t, Constants DEF Return
<1>f. ASSUME NEW p \in Procs, Fail(p), folder' \in [Names -> Folder]
      PROVE  TypeOK'
  <2>1. faults' \in 0..MaxFaults
    BY <1>f, <1>t DEF Fail
  <2> QED BY <1>f, <1>t, <1>r, <2>1 DEF Fail, TypeOK
<1>b. ASSUME UNCHANGED bounds, folder' \in [Names -> Folder], job' \in [Procs -> Job],
             loader' \in [Names -> Template \cup {NoTemplate}], todo' \in SUBSET Names
      PROVE  TypeOK'
  BY <1>b, <1>t DEF bounds, TypeOK
<1>s. \A n \in Names : \A f \in Folder : SetFolder(n, f) => folder' \in [Names -> Folder]
  BY <1>t DEF SetFolder
<1>1. ASSUME NEW p \in Procs, WriteFiles(p) PROVE TypeOK'
  <2>1. [folder[job[p].name] EXCEPT !.files[job[p].tpl.version] = job[p].tpl.text] \in Folder
    <3>1. job[p].tpl.version \in Versions /\ job[p].tpl.text \in Texts /\ folder[job[p].name] \in Folder
      BY <1>1, <1>j, <1>k DEF WriteFiles
    <3> QED BY <3>1, FolderMoves
  <2>2. folder' \in [Names -> Folder]
    BY <1>1, <1>t, <1>j, <2>1 DEF WriteFiles
  <2> QED BY <1>1, <1>b, <1>p, <1>r, <1>t, <2>2 DEF WriteFiles
<1>2. ASSUME NEW p \in Procs, WriteFilesFails(p) PROVE TypeOK'
  <2>1. [folder[job[p].name] EXCEPT !.files[job[p].tpl.version] = Partial] \in Folder
    <3>1. job[p].tpl.version \in Versions /\ folder[job[p].name] \in Folder
      BY <1>2, <1>j, <1>k DEF WriteFilesFails
    <3> QED BY <3>1, FolderMoves
  <2>2. folder' \in [Names -> Folder]
    BY <1>2, <1>t, <1>j, <2>1 DEF WriteFilesFails
  <2> QED BY <1>2, <1>f, <2>2 DEF WriteFilesFails
<1>3. ASSUME NEW p \in Procs, TruncateMeta(p) PROVE TypeOK'
  <2>1. [folder[job[p].name] EXCEPT !.meta = Torn] \in Folder
    BY <1>j, Constants DEF Folder
  <2>2. folder' \in [Names -> Folder]
    BY <1>3, <1>t, <1>j, <2>1 DEF TruncateMeta
  <2> QED BY <1>3, <1>b, <1>p, <1>r, <1>t, <2>2 DEF TruncateMeta
<1>4. ASSUME NEW p \in Procs, WriteMeta(p) PROVE TypeOK'
  <2>0. job[p].tpl.version \in 0..Torn
    BY <1>4, <1>k, Constants DEF WriteMeta
  <2>1. \A m \in 0..Torn : [folder[job[p].name] EXCEPT !.meta = m] \in Folder
    BY <1>j DEF Folder
  <2>2. folder' = [folder EXCEPT ![job[p].name] =
           [folder[job[p].name] EXCEPT !.meta = IF folder[job[p].name].meta = NoMeta THEN NoMeta
                                                ELSE job[p].tpl.version]]
    BY <1>4, <1>j, <1>t DEF WriteMeta
  <2>3. folder' \in [Names -> Folder]
    BY <1>t, <1>j, <2>0, <2>1, <2>2, Constants
  <2> QED BY <1>4, <1>b, <1>p, <1>t, <2>3 DEF WriteMeta
<1>5. ASSUME NEW p \in Procs, WriteMetaFails(p) PROVE TypeOK'
  BY <1>5, <1>t, <1>f DEF WriteMetaFails
<1>6. ASSUME NEW p \in Procs, Upsert(p) PROVE TypeOK'
  BY <1>6, <1>b, <1>r, <1>t, <1>j DEF Upsert
<1>7. ASSUME NEW c \in Clients, NEW n \in Names, NEW t \in Texts, NEW o \in BOOLEAN, Save(c, n, t, o)
      PROVE TypeOK'
  <2>1. c \in Procs
    BY Constants
  <2>2. job' \in [Procs -> Job]
    BY <1>7, <1>t, <2>1 DEF Save, Job, Template
  <2>3. folder' \in [Names -> Folder]
    BY <1>7, <1>t, <1>s, Constants DEF Save
  <2>4. requests' \in 0..MaxRequests
    BY <1>7, <1>t DEF Save
  <2> QED BY <1>7, <1>t, <2>2, <2>3, <2>4 DEF Save, TypeOK
<1>8. ASSUME NEW c \in Clients, NEW n \in Names, Delete(c, n) PROVE TypeOK'
  <2>1. c \in Procs
    BY Constants
  <2>2. job' \in [Procs -> Job]
    <3>1. job' = [job EXCEPT ![c] = [job[c] EXCEPT !.pc = "remove", !.name = n]]
      BY <1>8, <1>t, <2>1 DEF Delete
    <3>2. [job[c] EXCEPT !.pc = "remove", !.name = n] \in Job
      BY <1>j, <2>1 DEF Job
    <3> QED BY <1>t, <3>1, <3>2
  <2>3. folder' \in [Names -> Folder]
    BY <1>8, <1>s, Constants DEF Delete
  <2>4. requests' \in 0..MaxRequests
    BY <1>8, <1>t DEF Delete
  <2> QED BY <1>8, <1>t, <2>2, <2>3, <2>4 DEF Delete, TypeOK
<1>9. ASSUME NEW c \in Clients, NEW n \in Names, DeleteFails(c, n) PROVE TypeOK'
  <2>1. c \in Procs
    BY Constants
  <2>2. PICK gone \in SUBSET Versions, m \in {NoMeta, folder[n].meta} :
          folder' = [folder EXCEPT ![n] = [folder[n] EXCEPT !.meta = m, !.remnant = TRUE,
                       !.files = [v \in Versions |-> IF v \in gone THEN Absent ELSE @[v]]]]
    BY <1>9 DEF DeleteFails, SetFolder
  <2>3. [v \in Versions |-> IF v \in gone THEN Absent ELSE folder[n].files[v]]
          \in [Versions -> Texts \cup {Absent, Partial}]
    BY <1>t DEF Folder
  <2>4. [folder[n] EXCEPT !.meta = m, !.remnant = TRUE,
            !.files = [v \in Versions |-> IF v \in gone THEN Absent ELSE folder[n].files[v]]] \in Folder
    BY <1>t, <2>3, Constants DEF Folder
  <2>5. folder' \in [Names -> Folder]
    BY <1>t, <2>2, <2>4
  <2> QED BY <1>9, <1>f, <2>1, <2>5 DEF DeleteFails
<1>10. ASSUME NEW c \in Clients, CreateDir(c) PROVE TypeOK'
  <2>1. c \in Procs /\ job[c].tpl.version \in Versions
    BY <1>10, <1>k, Constants DEF CreateDir
  <2>2. WithVersionDir(folder[job[c].name], job[c].tpl.version) \in Folder
    <3>1. folder[job[c].name] \in Folder
      BY <2>1, <1>j
    <3> QED BY <2>1, <3>1, FolderMoves
  <2> QED BY <1>10, <1>b, <1>p, <1>r, <1>s, <1>t, <1>j, <2>1, <2>2 DEF CreateDir
<1>11. ASSUME NEW c \in Clients, CreateDirFails(c) PROVE TypeOK'
  BY <1>11, <1>f, <1>s, <1>j, Constants DEF CreateDirFails
<1>12. ASSUME NEW c \in Clients, Remove(c) PROVE TypeOK'
  <2>1. c \in Procs
    BY Constants
  <2> QED BY <1>12, <1>b, <1>r, <1>t, <2>1 DEF Remove
<1>13. CASE StartCycle
  BY <1>13, <1>b, <1>t DEF StartCycle
<1>14. ASSUME NEW n \in Names, NEW trades \in 0..MinTrades, NEW low \in BOOLEAN, Evaluate(n, trades, low)
       PROVE TypeOK'
  <2>1. job' \in [Procs -> Job]
    <3>1. loader[n] # NoTemplate => [pc |-> "llm", name |-> n, tpl |-> loader[n], valid |-> TRUE] \in Job
      BY <1>t DEF Job
    <3> QED BY <1>14, <1>t, <3>1 DEF Evaluate
  <2>2. todo' \in SUBSET Names /\ UNCHANGED <<folder, loader, bounds>>
    BY <1>14, <1>t DEF Evaluate
  <2> QED BY <1>b, <1>t, <2>1, <2>2
<1>15. ASSUME NEW t \in Texts, LlmAnswers(t) PROVE TypeOK'
  <2>1. job["optimizer"].tpl.version + 1 \in Versions
    BY <1>15, <1>k, BoundsAssumption, Constants DEF LlmAnswers, TInv, JobShape, Versions
  <2>2. [version |-> job["optimizer"].tpl.version + 1, text |-> t] \in Template
    BY <2>1 DEF Template
  <2>3. job' \in [Procs -> Job]
    BY ZenonT(30), <1>15, <1>t, <2>2, Constants DEF LlmAnswers, Job
  <2> QED BY <1>15, <1>b, <1>t, <2>3 DEF LlmAnswers
<1>16. CASE LlmFails
  BY <1>16, <1>b, <1>r, <1>t, Constants DEF LlmFails
<1>17. CASE NewVersionDir
  <2>1. job["optimizer"].tpl.version \in Versions
    BY <1>17, <1>k, Constants DEF NewVersionDir
  <2>2. WithVersionDir(folder[job["optimizer"].name], job["optimizer"].tpl.version) \in Folder
    BY <2>1, <1>j, FolderMoves, Constants
  <2> QED BY <1>17, <1>b, <1>p, <1>r, <1>s, <1>t, <1>j, <2>2, Constants DEF NewVersionDir
<1>18. CASE Crash
  <2>1. job' \in [Procs -> Job]
    BY <1>18, Constants DEF Crash
  <2>2. loader' \in [Names -> Template \cup {NoTemplate}]
    BY <1>18, <1>t, FromDirType DEF Crash
  <2>3. crashes' \in 0..MaxCrashes
    BY <1>18, <1>t DEF Crash
  <2> QED BY <1>18, <1>t, <2>1, <2>2, <2>3 DEF Crash, TypeOK
<1>19. CASE UNCHANGED vars
  BY <1>19, <1>b, <1>t DEF vars
<1> QED BY <1>1, <1>2, <1>3, <1>4, <1>5, <1>6, <1>7, <1>8, <1>9, <1>10, <1>11, <1>12, <1>13, <1>14,
           <1>15, <1>16, <1>17, <1>18, <1>19
  DEF Next, Write, Client, Optimizer
-----------------------------------------------------------------------------
(* One call writes at a time *)

\* The types the steps rest on.
LEMMA Typed ==
  TInv => /\ folder \in [Names -> Folder] /\ loader \in [Names -> Template \cup {NoTemplate}]
          /\ job \in [Procs -> Job]
          /\ \A p \in Procs : job[p] \in Job /\ job[p].name \in Names /\ folder[job[p].name] \in Folder
          /\ \A p \in Procs : job[p].pc \in {"create", "files", "meta", "metaOpen", "upsert", "llm", "version"}
               => job[p].tpl \in Template /\ job[p].tpl.version \in Versions /\ job[p].tpl.text \in Texts
  BY DEF TInv, TypeOK, Job, JobShape, Template

\* A folder appears with the call that creates it and disappears as a whole.
LEMMA KeepAbsence == SInv /\ [Next]_vars => Absence'
<1> SUFFICES ASSUME SInv, [Next]_vars PROVE Absence'
  OBVIOUS
<1>a. Absence /\ NoFolder.files = [v \in Versions |-> Absent] /\ NoFolder.meta = NoMeta /\ ~NoFolder.exists
  BY DEF SInv, NoFolder
<1>t. TInv
  BY DEF SInv
<1> USE <1>t, Typed, Constants
<1>b. ASSUME NEW n \in Names, NEW f \in Folder, f.exists \/ f = NoFolder,
             folder' = [folder EXCEPT ![n] = f]
      PROVE  Absence'
  BY <1>a, <1>b DEF Absence
<1>c. CASE UNCHANGED folder
  BY <1>a, <1>c DEF Absence
<1>1. ASSUME NEW p \in Procs, WriteFiles(p) PROVE Absence'
  <2>1. CASE UNCHANGED folder
    BY <1>c, <2>1
  <2>2. CASE ~UNCHANGED folder
    <3> DEFINE f == [folder[job[p].name] EXCEPT !.files[job[p].tpl.version] = job[p].tpl.text]
    <3>1. folder[job[p].name].files[job[p].tpl.version] # Absent /\ job[p].tpl.version \in Versions
          /\ job[p].tpl.text \in Texts /\ folder[job[p].name] \in Folder /\ job[p].name \in Names
      BY <1>1, <2>2 DEF WriteFiles
    <3>2. folder[job[p].name].exists
      BY <1>a, <3>1 DEF Absence
    <3>3. f \in Folder
      BY <3>1, FolderMoves
    <3>4. f.exists
      BY <3>1, <3>2 DEF Folder
    <3>5. folder' = [folder EXCEPT ![job[p].name] = f]
      BY <1>1, <2>2 DEF WriteFiles
    <3> HIDE DEF f
    <3> QED BY <1>b, <3>1, <3>3, <3>4, <3>5
  <2> QED BY <2>1, <2>2
<1>2. ASSUME NEW p \in Procs, WriteFilesFails(p) PROVE Absence'
  <2> DEFINE f == [folder[job[p].name] EXCEPT !.files[job[p].tpl.version] = Partial]
  <2>1. folder[job[p].name].files[job[p].tpl.version] # Absent /\ job[p].tpl.version \in Versions
        /\ folder[job[p].name] \in Folder /\ job[p].name \in Names
    BY <1>2 DEF WriteFilesFails
  <2>2. folder[job[p].name].exists
    BY <1>a, <2>1 DEF Absence
  <2>3. f \in Folder
    BY <2>1, FolderMoves
  <2>4. f.exists
    BY <2>1, <2>2 DEF Folder
  <2>5. folder' = [folder EXCEPT ![job[p].name] = f]
    BY <1>2 DEF WriteFilesFails
  <2> HIDE DEF f
  <2> QED BY <1>b, <2>1, <2>3, <2>4, <2>5
<1>3. ASSUME NEW p \in Procs, TruncateMeta(p) PROVE Absence'
  <2> DEFINE f == folder[job[p].name]
             g == [f EXCEPT !.meta = Torn]
  <2>1. f \in Folder /\ job[p].name \in Names /\ g \in Folder /\ g.exists = f.exists
    BY DEF Folder
  <2>2. UNCHANGED folder \/ (f.exists /\ folder' = [folder EXCEPT ![job[p].name] = g])
    BY <1>3 DEF TruncateMeta
  <2> HIDE DEF g
  <2> QED BY <1>b, <1>c, <2>1, <2>2
<1>4. ASSUME NEW p \in Procs, WriteMeta(p) PROVE Absence'
  <2> DEFINE f == folder[job[p].name]
             g == [f EXCEPT !.meta = IF f.meta = NoMeta THEN NoMeta ELSE job[p].tpl.version]
  <2>1. folder' = [folder EXCEPT ![job[p].name] = g] /\ f \in Folder /\ job[p].name \in Names
    BY <1>4 DEF WriteMeta
  <2>2. CASE f.exists
    <3>1. g.exists
      BY <2>1, <2>2 DEF Folder
    <3> QED BY <2>1, <3>1, <1>a DEF Absence
  <2>3. CASE ~f.exists
    <3>1. f = NoFolder
      BY <2>1, <2>3, <1>a DEF Absence
    <3>2. g = f
      BY <2>1, <3>1, <1>a DEF Folder
    <3>3. folder' = folder
      BY <2>1, <3>2
    <3> QED BY <1>c, <3>3
  <2> QED BY <2>2, <2>3
<1>5. ASSUME NEW c \in Clients, NEW n \in Names, NEW t \in Texts, NEW o \in BOOLEAN, Save(c, n, t, o)
      PROVE Absence'
  BY <1>5, <1>b, <1>c DEF Save, SetFolder
<1>6. ASSUME NEW c \in Clients, NEW n \in Names, Delete(c, n) PROVE Absence'
  BY <1>6, <1>b DEF Delete, SetFolder
<1>7. ASSUME NEW c \in Clients, NEW n \in Names, DeleteFails(c, n) PROVE Absence'
  <2>1. PICK gone \in SUBSET Versions, m \in {NoMeta, folder[n].meta} :
          folder' = [folder EXCEPT ![n] = [folder[n] EXCEPT !.meta = m, !.remnant = TRUE,
                       !.files = [v \in Versions |-> IF v \in gone THEN Absent ELSE @[v]]]]
    BY <1>7 DEF DeleteFails, SetFolder
  <2>2. folder[n].exists
    BY <1>7 DEF DeleteFails
  <2>3. folder'[n].exists /\ \A x \in Names \ {n} : folder'[x] = folder[x]
    BY <2>1, <2>2 DEF Folder
  <2> QED BY <2>3, <1>a DEF Absence
<1>8. ASSUME NEW p \in Procs, NEW v \in Versions, folder' = [folder EXCEPT ![job[p].name] = WithVersionDir(@, v)]
      PROVE  Absence'
  <2>1. WithVersionDir(folder[job[p].name], v).exists
    BY DEF WithVersionDir, Folder
  <2> QED BY <1>8, <2>1, <1>a DEF Absence
<1>9. ASSUME NEW c \in Clients, CreateDir(c) PROVE Absence'
  BY <1>9, <1>8, <1>c DEF CreateDir, SetFolder
<1>10. ASSUME NEW c \in Clients, CreateDirFails(c) PROVE Absence'
  <2>1. [NoFolder EXCEPT !.exists = TRUE].exists
    BY DEF NoFolder
  <2> QED BY <1>10, <2>1, <1>b DEF CreateDirFails, SetFolder
<1>11. CASE NewVersionDir
  BY <1>11, <1>8, <1>c DEF NewVersionDir, SetFolder
<1>12. CASE StartCycle \/ LlmFails \/ Crash \/ UNCHANGED vars
  BY <1>12, <1>c DEF StartCycle, LlmFails, Crash, vars
<1>13. ASSUME NEW p \in Procs, WriteMetaFails(p) \/ Upsert(p) \/ Remove(p) PROVE Absence'
  BY <1>13, <1>c DEF WriteMetaFails, Upsert, Remove
<1>14. ASSUME NEW n \in Names, NEW trades \in 0..MinTrades, NEW low \in BOOLEAN, Evaluate(n, trades, low)
       PROVE Absence'
  BY <1>14, <1>c DEF Evaluate
<1>15. ASSUME NEW t \in Texts, LlmAnswers(t) PROVE Absence'
  BY <1>15, <1>c DEF LlmAnswers
<1> QED BY <1>1, <1>2, <1>3, <1>4, <1>5, <1>6, <1>7, <1>9, <1>10, <1>11, <1>12, <1>13, <1>14, <1>15
  DEF Next, Write, Client, Optimizer

\* A call goes on, or begins, only when no other one is between its writes.
LEMMA KeepCalls == TInv /\ [Next]_vars => JobShape' /\ (Overlap = FALSE /\ OneWriter => OneWriter')
<1> DEFINE One == Overlap = FALSE /\ OneWriter => OneWriter'
<1> SUFFICES ASSUME TInv, [Next]_vars PROVE One /\ JobShape'
  OBVIOUS
<1>t. /\ job \in [Procs -> Job] /\ JobShape /\ Idle.pc = "idle"
      /\ "optimizer" \in Procs /\ Clients \subseteq Procs /\ "optimizer" \notin Clients
  BY Typed, Constants, ClientsAssumption DEF TInv, Idle
<1>a. ASSUME NEW p \in Procs, NEW j, job' = [job EXCEPT ![p] = j],
             \/ j.pc \notin Writing
             \/ Turn(p)
      PROVE  One
  BY <1>a, <1>t DEF OneWriter, Turn
<1>b. ASSUME NEW p \in Procs, NEW j, job' = [job EXCEPT ![p] = j],
             j.pc \in {"idle", "remove"} \/ j.tpl \in Template,
             p = "optimizer" /\ j.pc = "llm" => j.tpl.version < MaxVersion
      PROVE  JobShape'
  BY <1>b, <1>t DEF JobShape
<1>c. ASSUME NEW p \in Procs, Return(p) PROVE One /\ JobShape'
  BY <1>a, <1>b, <1>c, <1>t DEF Return, Writing
<1>d. ASSUME NEW p \in Procs, NEW pc \in {"files", "meta", "metaOpen", "upsert"}, Goto(p, pc), Turn(p),
             job[p].pc \in {"create", "files", "meta", "metaOpen", "version"}
      PROVE  One /\ JobShape'
  <2>1. job' = [job EXCEPT ![p] = [job[p] EXCEPT !.pc = pc]] /\ [job[p] EXCEPT !.pc = pc].tpl = job[p].tpl
        /\ [job[p] EXCEPT !.pc = pc].pc = pc
    BY <1>d, <1>t DEF Goto, Job
  <2>2. job[p].tpl \in Template
    BY <1>d, <1>t DEF JobShape
  <2>3. One
    BY <1>a, <1>d, <2>1
  <2>4. JobShape'
    BY <1>b, <2>1, <2>2, <1>d
  <2> QED BY <2>3, <2>4
<1>e. CASE UNCHANGED job
  BY <1>e, <1>t DEF OneWriter, JobShape
<1>1. ASSUME NEW p \in Procs, Write(p) PROVE One /\ JobShape'
  BY <1>1, <1>c, <1>d DEF Write, WriteFiles, WriteFilesFails, TruncateMeta, WriteMeta, WriteMetaFails,
      Upsert, Fail, Writing
<1>2. ASSUME NEW c \in Clients, NEW n \in Names, NEW t \in Texts, NEW o \in BOOLEAN, Save(c, n, t, o)
      PROVE One /\ JobShape'
  <2>1. PICK v \in Versions, valid \in BOOLEAN :
          job' = [job EXCEPT ![c] = [pc |-> "create", name |-> n,
                                     tpl |-> [version |-> v, text |-> t], valid |-> valid]]
    BY <1>2 DEF Save
  <2>2. Turn(c) /\ [version |-> v, text |-> t] \in Template
    BY <1>2 DEF Save, Template
  <2> QED BY <1>a, <1>b, <1>t, <2>1, <2>2
<1>3. ASSUME NEW c \in Clients, NEW n \in Names, Delete(c, n) PROVE One /\ JobShape'
  <2>1. job' = [job EXCEPT ![c] = [job[c] EXCEPT !.pc = "remove", !.name = n]]
        /\ [job[c] EXCEPT !.pc = "remove", !.name = n].pc = "remove" /\ Turn(c)
    BY <1>3, <1>t DEF Delete, Job
  <2> QED BY <1>a, <1>b, <1>t, <2>1
<1>4. ASSUME NEW c \in Clients, \/ CreateDir(c) \/ CreateDirFails(c) \/ Remove(c)
                                \/ \E n \in Names : DeleteFails(c, n)
      PROVE One /\ JobShape'
  BY <1>4, <1>c, <1>d, <1>t DEF CreateDir, CreateDirFails, Remove, DeleteFails, Fail, Writing
<1>5. CASE StartCycle \/ LlmFails \/ UNCHANGED vars
  BY <1>5, <1>c, <1>e, <1>t DEF StartCycle, LlmFails, vars
<1>6. ASSUME NEW n \in Names, NEW trades \in 0..MinTrades, NEW low \in BOOLEAN, Evaluate(n, trades, low)
      PROVE One /\ JobShape'
  <2>1. CASE UNCHANGED job
    BY <1>e, <2>1
  <2>2. CASE job' # job
    <3>1. /\ job' = [job EXCEPT !["optimizer"] = [pc |-> "llm", name |-> n, tpl |-> loader[n], valid |-> TRUE]]
          /\ loader[n] # NoTemplate /\ loader[n].version < MaxVersion
      BY <1>6, <2>2 DEF Evaluate
    <3>2. loader[n] \in Template
      BY <3>1, Typed
    <3> QED BY <1>a, <1>b, <1>t, <3>1, <3>2 DEF Writing
  <2> QED BY <2>1, <2>2
<1>7. ASSUME NEW t \in Texts, LlmAnswers(t) PROVE One /\ JobShape'
  <2> DEFINE j == job["optimizer"]
             k == [j EXCEPT !.pc = "version", !.tpl = [version |-> j.tpl.version + 1, text |-> t]]
  <2>1. job' = [job EXCEPT !["optimizer"] = k] /\ j \in Job /\ j.pc = "llm"
    BY <1>7, <1>t DEF LlmAnswers
  <2>2. k.pc = "version" /\ k.tpl = [version |-> j.tpl.version + 1, text |-> t]
    BY <2>1 DEF Job
  <2>3. j.tpl.version \in Versions /\ j.tpl.version < MaxVersion
    BY <2>1, <1>t, Typed DEF JobShape
  <2>4. k.tpl \in Template
    BY <2>2, <2>3, BoundsAssumption DEF Template, Versions
  <2> HIDE DEF k
  <2> QED BY <1>a, <1>b, <1>t, <2>1, <2>2, <2>4 DEF Writing
<1>8. CASE NewVersionDir
  BY <1>8, <1>c, <1>d, <1>t DEF NewVersionDir
<1>9. CASE Crash
  BY <1>9, <1>t DEF Crash, OneWriter, JobShape, Writing
<1> QED BY <1>1, <1>2, <1>3, <1>4, <1>5, <1>6, <1>7, <1>8, <1>9 DEF Next, Client, Optimizer

\* The same of the whole invariant.
LEMMA Known ==
  SInv => /\ folder \in [Names -> Folder] /\ loader \in [Names -> Template \cup {NoTemplate}]
          /\ job \in [Procs -> Job]
          /\ \A p \in Procs : job[p] \in Job /\ job[p].name \in Names /\ folder[job[p].name] \in Folder
          /\ \A p \in Procs : job[p].pc \in {"create", "files", "meta", "metaOpen", "upsert", "llm", "version"}
               => job[p].tpl \in Template /\ job[p].tpl.version \in Versions /\ job[p].tpl.text \in Texts
  BY Typed DEF SInv

-----------------------------------------------------------------------------
(* What a restart loads and what is served *)

\* The meta.json of f names a version that is there.
Sound(f) == f.meta \in Versions /\ ~f.remnant => f.files[f.meta] \in Texts

Kept == MetaIsLast /\ WritesInOrder /\ ServedInv

\* The step of a call that writes alone: the rest of the folders, of the templates and of the
\* calls is as it was, so what it does to its own folder decides.
LEMMA WriterStep ==
  ASSUME SInv, NEW p \in Procs, \A q \in Procs \ {p} : job[q].pc \notin Writing,
         NEW n \in Names, NEW k, NEW g, NEW l,
         job[p].pc \in Writing => job[p].name = n,
         job' = [job EXCEPT ![p] = k], k.pc \in Writing => k.name = n,
         folder' = [folder EXCEPT ![n] = g], loader' = [loader EXCEPT ![n] = l],
         Sound(g), k.pc \in Writing => Progress(k, g),
         Served(g, l) \/ k.pc \in Behind
  PROVE  Kept'
<1> USE Known
<1>1. MetaIsLast'
  BY DEF SInv, MetaIsLast, Sound
<1>2. WritesInOrder'
  <2>1. ASSUME NEW q \in Procs PROVE Progress(job'[q], folder'[job'[q].name])
    <3>1. CASE q = p
      BY <3>1 DEF Progress, Writing
    <3>2. CASE q # p
      BY <3>2 DEF Progress, Writing
    <3> QED BY <3>1, <3>2
  <2> QED BY <2>1 DEF WritesInOrder, Progress
<1>3. ServedInv'
  <2>1. ASSUME NEW x \in Names PROVE \/ Served(folder'[x], loader'[x])
                                     \/ \E q \in Procs : job'[q].pc \in Behind /\ job'[q].name = x
    <3>1. CASE x = n
      BY <3>1 DEF Behind, Writing
    <3>2. CASE x # n
      <4>1. \/ Served(folder[x], loader[x])
            \/ \E q \in Procs : job[q].pc \in Behind /\ job[q].name = x
        BY DEF SInv, ServedInv
      <4>2. ~\E q \in Procs : job[q].pc \in Behind /\ job[q].name = x
        BY <3>2 DEF Behind, Writing
      <4> QED BY <3>2, <4>1, <4>2
    <3> QED BY <3>1, <3>2
  <2> QED BY <2>1 DEF ServedInv, Served, Loadable
<1> QED BY <1>1, <1>2, <1>3 DEF Kept

\* What is known before a call takes its step.
LEMMA Before ==
  ASSUME SInv, Overlap = FALSE, NEW p \in Procs, Turn(p)
  PROVE  /\ \A q \in Procs \ {p} : job[q].pc \notin Writing
         /\ Progress(job[p], folder[job[p].name])
         /\ \A n \in Names : Sound(folder[n])
         /\ \A n \in Names : \/ Served(folder[n], loader[n])
                             \/ job[p].pc \in Behind /\ job[p].name = n
  BY DEF SInv, Turn, MetaIsLast, Sound, WritesInOrder, ServedInv, Behind, Writing

\* A call that returns leaves a folder that can be loaded, if any, as it is served.
LEMMA Returns ==
  ASSUME SInv, NEW p \in Procs, \A q \in Procs \ {p} : job[q].pc \notin Writing,
         NEW n \in Names, NEW g, NEW l,
         job[p].pc \in Writing => job[p].name = n,
         Return(p), folder' = [folder EXCEPT ![n] = g], loader' = [loader EXCEPT ![n] = l],
         Sound(g), Served(g, l)
  PROVE  Kept'
<1>1. job' = [job EXCEPT ![p] = Idle] /\ Idle.pc \notin Writing
  BY DEF Return, Idle, Writing
<1> QED BY <1>1, WriterStep

\* The writes of a call, one after the other.
LEMMA KeepWrite == Overlap = FALSE /\ SInv => \A p \in Procs : Write(p) => Kept'
<1> SUFFICES ASSUME Overlap = FALSE, SInv, NEW p \in Procs, Write(p) PROVE Kept'
  OBVIOUS
<1> DEFINE j == job[p]
           n == j.name
           f == folder[n]
<1>w. Turn(p) /\ j.pc \in Writing
  BY DEF Write, WriteFiles, WriteFilesFails, TruncateMeta, WriteMeta, WriteMetaFails, Upsert, Writing
<1>t. /\ n \in Names /\ f \in Folder /\ j \in Job /\ j.tpl \in Template
      /\ j.tpl.version \in Versions /\ j.tpl.text \in Texts
  BY Known DEF Write, WriteFiles, WriteFilesFails, TruncateMeta, WriteMeta, WriteMetaFails, Upsert
<1>b. /\ \A q \in Procs \ {p} : job[q].pc \notin Writing
      /\ Progress(j, f) /\ Sound(f) /\ (Served(f, loader[n]) \/ j.pc \in Behind)
  BY <1>w, <1>t, Before
<1>s. /\ folder = [folder EXCEPT ![n] = f] /\ loader = [loader EXCEPT ![n] = loader[n]]
      /\ folder \in [Names -> Folder] /\ loader \in [Names -> Template \cup {NoTemplate}]
  BY <1>t, Known
<1>g. ASSUME NEW pc \in {"files", "meta", "metaOpen", "upsert"}, Goto(p, pc)
      PROVE  /\ job' = [job EXCEPT ![p] = [j EXCEPT !.pc = pc]]
             /\ [j EXCEPT !.pc = pc].name = n /\ [j EXCEPT !.pc = pc].tpl = j.tpl
             /\ [j EXCEPT !.pc = pc].pc = pc
  BY <1>g, <1>t, Known DEF Goto, Job
<1>1. CASE WriteFiles(p)
  <2>1. j.pc = "files" /\ f.files[j.tpl.version] = Partial /\ Partial # Absent
    BY <1>1, <1>b, Constants DEF WriteFiles, Progress
  <2> DEFINE g == [f EXCEPT !.files[j.tpl.version] = j.tpl.text]
  <2>2. folder' = [folder EXCEPT ![n] = g] /\ Goto(p, "meta") /\ loader' = loader
    BY <1>1, <2>1 DEF WriteFiles
  <2>3. /\ g.files[j.tpl.version] = j.tpl.text /\ g.meta = f.meta /\ g.remnant = f.remnant
        /\ \A v \in Versions \ {j.tpl.version} : g.files[v] = f.files[v]
    BY <1>t DEF Folder
  <2>4. Sound(g)
    BY <1>b, <1>t, <2>3 DEF Sound
  <2> DEFINE k == [j EXCEPT !.pc = "meta"]
  <2>5. job' = [job EXCEPT ![p] = k] /\ k.name = n /\ k.tpl = j.tpl /\ k.pc = "meta"
    BY <1>g, <2>2
  <2>6. Progress(k, g) /\ k.pc \in Behind
    BY <2>3, <2>5 DEF Progress, Behind
  <2> HIDE DEF g, k
  <2> QED BY ZenonT(30), <1>b, <1>s, <1>t, <2>2, <2>4, <2>5, <2>6, WriterStep
<1>2. CASE WriteFilesFails(p)
  <2> DEFINE g == [f EXCEPT !.files[j.tpl.version] = Partial]
  <2>1. j.pc = "files" /\ f.files[j.tpl.version] = Partial
    BY <1>2, <1>b DEF WriteFilesFails, Progress
  <2>2. folder' = [folder EXCEPT ![n] = g] /\ Return(p) /\ loader' = loader
    BY <1>2 DEF WriteFilesFails, Fail
  <2>3. g = f
    BY <1>t, <2>1 DEF Folder
  <2>4. Sound(g) /\ Served(g, loader[n])
    BY <1>b, <2>1, <2>3 DEF Behind
  <2> HIDE DEF g
  <2> QED BY <1>b, <1>s, <1>t, <2>2, <2>4, Returns
<1>3. CASE TruncateMeta(p)
  <2>1. j.pc = "meta" /\ f.files[j.tpl.version] = j.tpl.text /\ loader' = loader
    BY <1>3, <1>b DEF TruncateMeta, Progress
  <2>2. CASE f.exists
    <3> DEFINE g == [f EXCEPT !.meta = Torn]
               k == [j EXCEPT !.pc = "metaOpen"]
    <3>1. folder' = [folder EXCEPT ![n] = g] /\ Goto(p, "metaOpen")
      BY <1>3, <2>2 DEF TruncateMeta
    <3>2. g.meta = Torn /\ g.files = f.files
      BY <1>t DEF Folder
    <3>3. job' = [job EXCEPT ![p] = k] /\ k.name = n /\ k.tpl = j.tpl /\ k.pc = "metaOpen"
      BY <1>g, <3>1
    <3>4. Sound(g) /\ Progress(k, g) /\ k.pc \in Behind
      BY <2>1, <3>2, <3>3, Constants DEF Sound, Progress, Behind
    <3>5. loader' = [loader EXCEPT ![n] = loader[n]] /\ (k.pc \in Writing => k.name = n)
      BY <1>s, <2>1, <3>3
    <3> HIDE DEF g, k
    <3> QED BY <1>b, <1>t, <3>1, <3>3, <3>4, <3>5, WriterStep
  <2>3. CASE ~f.exists
    <3>1. folder' = [folder EXCEPT ![n] = f] /\ Return(p)
      BY <1>3, <2>3, <1>s DEF TruncateMeta
    <3>2. Served(f, loader[n])
      BY <2>3 DEF Served, Loadable
    <3> QED BY <1>b, <1>s, <1>t, <2>1, <3>1, <3>2, Returns
  <2> QED BY <2>2, <2>3
<1>4. CASE WriteMeta(p)
  <2> DEFINE g == [f EXCEPT !.meta = j.tpl.version]
             k == [j EXCEPT !.pc = "upsert"]
  <2>1. j.pc = "metaOpen" /\ f.files[j.tpl.version] = j.tpl.text /\ f.meta = Torn /\ Torn # NoMeta
    BY <1>4, <1>b, BoundsAssumption DEF WriteMeta, Progress, Torn, NoMeta
  <2>2. folder' = [folder EXCEPT ![n] = g] /\ Goto(p, "upsert") /\ loader' = loader
    BY <1>4, <1>s, <1>t, <2>1 DEF WriteMeta
  <2>3. g.meta = j.tpl.version /\ g.files = f.files
    BY <1>t DEF Folder
  <2>4. job' = [job EXCEPT ![p] = k] /\ k.name = n /\ k.tpl = j.tpl /\ k.pc = "upsert"
    BY <1>g, <2>2
  <2>5. Sound(g) /\ Progress(k, g) /\ k.pc \in Behind
    BY <1>t, <2>1, <2>3, <2>4 DEF Sound, Progress, Behind
  <2> HIDE DEF g, k
  <2> QED BY ZenonT(30), <1>b, <1>s, <1>t, <2>2, <2>4, <2>5, WriterStep
<1>5. CASE WriteMetaFails(p)
  <2>1. folder' = [folder EXCEPT ![n] = f] /\ Return(p) /\ loader' = loader
    BY <1>5, <1>s DEF WriteMetaFails, Fail
  <2>2. Served(f, loader[n])
    BY <1>5, <1>b, Constants DEF WriteMetaFails, Progress, Served, Loadable
  <2> QED BY <1>b, <1>s, <1>t, <2>1, <2>2, Returns
<1>6. CASE Upsert(p)
  <2>1. folder' = [folder EXCEPT ![n] = f] /\ Return(p) /\ loader' = [loader EXCEPT ![n] = j.tpl]
    BY <1>6, <1>s DEF Upsert
  <2>2. f.meta = j.tpl.version /\ f.files[f.meta] = j.tpl.text
    BY <1>6, <1>b DEF Upsert, Progress
  <2>3. j.tpl = [version |-> j.tpl.version, text |-> j.tpl.text]
    BY <1>t DEF Template
  <2>4. Served(f, j.tpl)
    BY <2>2, <2>3 DEF Served
  <2> QED BY <1>b, <1>t, <2>1, <2>4, Returns
<1> QED BY <1>1, <1>2, <1>3, <1>4, <1>5, <1>6 DEF Write

\* The requests of the users: a call begins with the removal of a folder or the creation of one.
LEMMA KeepClient == Overlap = FALSE /\ SInv => \A c \in Clients : Client(c) => Kept'
<1> SUFFICES ASSUME Overlap = FALSE, SInv, NEW p \in Clients, Client(p) PROVE Kept'
  OBVIOUS
<1> DEFINE j == job[p]
<1>p. p \in Procs
  BY Constants
<1>w. Turn(p)
  BY DEF Client, Save, Delete, DeleteFails, CreateDir, CreateDirFails, Remove
<1>b. /\ \A q \in Procs \ {p} : job[q].pc \notin Writing
      /\ Progress(j, folder[j.name])
      /\ \A n \in Names : Sound(folder[n])
      /\ \A n \in Names : Served(folder[n], loader[n]) \/ j.pc \in Behind
  BY <1>p, <1>w, Before
<1>s. /\ \A n \in Names : folder = [folder EXCEPT ![n] = folder[n]] /\ loader = [loader EXCEPT ![n] = loader[n]]
      /\ folder \in [Names -> Folder] /\ loader \in [Names -> Template \cup {NoTemplate}]
      /\ job \in [Procs -> Job] /\ j \in Job /\ j.name \in Names
  BY <1>p, Known
<1>n. Sound(NoFolder) /\ (\A t : Served(NoFolder, t)) /\ NoFolder.meta = NoMeta /\ ~NoFolder.exists
      /\ NoFolder.files = [v \in Versions |-> Absent]
  BY Constants DEF Sound, Served, Loadable, NoFolder
<1>1. ASSUME NEW n \in Names, NEW t \in Texts, NEW o \in BOOLEAN, Save(p, n, t, o) PROVE Kept'
  <2>1. PICK v \in Versions, valid \in BOOLEAN :
          job' = [job EXCEPT ![p] = [pc |-> "create", name |-> n,
                                     tpl |-> [version |-> v, text |-> t], valid |-> valid]]
    BY <1>1 DEF Save
  <2> DEFINE k == [pc |-> "create", name |-> n, tpl |-> [version |-> v, text |-> t], valid |-> valid]
             g == IF o THEN NoFolder ELSE folder[n]
  <2>2. folder' = [folder EXCEPT ![n] = g] /\ loader' = [loader EXCEPT ![n] = loader[n]] /\ j.pc = "idle"
    BY <1>1, <1>s DEF Save, SetFolder
  <2>3. Sound(g) /\ Served(g, loader[n]) /\ Progress(k, g)
    BY <1>b, <1>n, <2>2 DEF Progress, Behind
  <2>4. job' = [job EXCEPT ![p] = k] /\ k.name = n /\ j.pc \notin Writing
    BY <2>1, <2>2 DEF Writing
  <2> HIDE DEF k, g
  <2> QED BY <1>b, <1>p, <2>2, <2>3, <2>4, WriterStep
<1>2. ASSUME NEW n \in Names, Delete(p, n) PROVE Kept'
  <2> DEFINE k == [j EXCEPT !.pc = "remove", !.name = n]
  <2>1. /\ job' = [job EXCEPT ![p] = k] /\ k.pc = "remove" /\ k.name = n
        /\ j.pc = "idle" /\ j.pc \notin Writing
    <3>1. k.pc = "remove" /\ k.name = n
      BY <1>s DEF Job
    <3>2. job' = [job EXCEPT ![p] = k]
      BY <1>2, <1>s, <1>p DEF Delete
    <3> QED BY <1>2, <3>1, <3>2 DEF Delete, Writing
  <2>2. folder' = [folder EXCEPT ![n] = NoFolder] /\ loader' = [loader EXCEPT ![n] = loader[n]]
    BY <1>2, <1>s DEF Delete, SetFolder
  <2>3. Progress(k, NoFolder)
    BY <2>1 DEF Progress
  <2> HIDE DEF k
  <2> QED BY <1>b, <1>n, <1>p, <2>1, <2>2, <2>3, WriterStep
<1>3. ASSUME NEW n \in Names, DeleteFails(p, n) PROVE Kept'
  <2>1. PICK gone \in SUBSET Versions, m \in {NoMeta, folder[n].meta} :
          folder' = [folder EXCEPT ![n] = [folder[n] EXCEPT !.meta = m, !.remnant = TRUE,
                       !.files = [v \in Versions |-> IF v \in gone THEN Absent ELSE @[v]]]]
    BY <1>3 DEF DeleteFails, SetFolder
  <2> DEFINE g == [folder[n] EXCEPT !.meta = m, !.remnant = TRUE,
                       !.files = [v \in Versions |-> IF v \in gone THEN Absent ELSE folder[n].files[v]]]
  <2>2. folder' = [folder EXCEPT ![n] = g] /\ loader' = [loader EXCEPT ![n] = loader[n]] /\ Return(p)
        /\ j.pc = "idle" /\ j.pc \notin Writing
    BY <1>3, <1>s, <2>1 DEF DeleteFails, Fail, Writing
  <2>3. /\ g.meta = m /\ g.remnant = TRUE /\ g.exists = folder[n].exists
        /\ \A v \in Versions : g.files[v] = IF v \in gone THEN Absent ELSE folder[n].files[v]
    BY <1>s DEF Folder
  <2>4. Sound(g)
    BY <2>3 DEF Sound
  <2>5. Served(folder[n], loader[n])
    BY <1>b, <2>2 DEF Behind
  <2>6. Served(g, loader[n])
    BY <2>3, <2>5, Constants DEF Served, Loadable
  <2> HIDE DEF g
  <2> QED BY <1>b, <1>p, <2>2, <2>4, <2>6, Returns
<1>4. CASE CreateDir(p)
  <2> DEFINE n == j.name
             g == WithVersionDir(folder[n], j.tpl.version)
             k == [j EXCEPT !.pc = "files"]
  <2>1. j.pc = "create" /\ loader' = [loader EXCEPT ![n] = loader[n]] /\ Served(folder[n], loader[n])
        /\ j.tpl.version \in Versions
    BY <1>4, <1>b, <1>p, <1>s, Known DEF CreateDir, Behind
  <2>2. CASE j.valid /\ ~folder[n].exists
    <3>1. folder' = [folder EXCEPT ![n] = g] /\ job' = [job EXCEPT ![p] = k] /\ k.pc = "files"
          /\ k.name = n /\ k.tpl = j.tpl
      BY <1>4, <1>s, <1>p, <2>2 DEF CreateDir, SetFolder, Goto, Job
    <3>2. folder[n] = NoFolder
      BY <1>s, <2>2 DEF SInv, Absence
    <3>3. g.files[j.tpl.version] = Partial /\ g.meta = NoMeta
      BY <1>n, <2>1, <3>2 DEF WithVersionDir, NoFolder
    <3>4. Sound(g) /\ Progress(k, g) /\ Served(g, loader[n])
      BY <3>1, <3>3, Constants DEF Sound, Progress, Served, Loadable
    <3> HIDE DEF g, k
    <3> QED BY <1>b, <1>p, <1>s, <2>1, <3>1, <3>4, WriterStep
  <2>3. CASE ~(j.valid /\ ~folder[n].exists)
    <3>1. folder' = [folder EXCEPT ![n] = folder[n]] /\ Return(p)
      BY <1>4, <1>s, <2>3 DEF CreateDir
    <3> QED BY <1>b, <1>p, <1>s, <2>1, <3>1, Returns
  <2> QED BY <2>2, <2>3
<1>5. CASE CreateDirFails(p)
  <2> DEFINE n == j.name
             g == [NoFolder EXCEPT !.exists = TRUE]
  <2>1. folder' = [folder EXCEPT ![n] = g] /\ loader' = [loader EXCEPT ![n] = loader[n]] /\ Return(p)
    BY <1>5, <1>s DEF CreateDirFails, SetFolder, Fail
  <2>2. g.meta = NoMeta
    BY DEF NoFolder
  <2>3. Sound(g) /\ Served(g, loader[n])
    BY <2>2, Constants DEF Sound, Served, Loadable
  <2> HIDE DEF g
  <2> QED BY <1>b, <1>p, <1>s, <2>1, <2>3, Returns
<1>6. CASE Remove(p)
  <2> DEFINE n == j.name
  <2>1. folder' = [folder EXCEPT ![n] = folder[n]] /\ loader' = [loader EXCEPT ![n] = NoTemplate] /\ Return(p)
    BY <1>6, <1>s DEF Remove
  <2>2. Sound(folder[n]) /\ Served(folder[n], NoTemplate)
    BY <1>6, <1>b, <1>n, <1>s DEF Remove, Progress
  <2> QED BY <1>b, <1>p, <1>s, <2>1, <2>2, Returns
<1> QED BY <1>1, <1>2, <1>3, <1>4, <1>5, <1>6 DEF Client

\* The optimizer writes nothing before it has the answer of the LLM, and then only into a
\* folder of a version that is not there yet.
LEMMA KeepOptimizer == Overlap = FALSE /\ SInv /\ Optimizer => Kept'
<1> SUFFICES ASSUME Overlap = FALSE, SInv, Optimizer PROVE Kept'
  OBVIOUS
<1> DEFINE p == "optimizer"
           j == job[p]
           n == j.name
<1>s. /\ p \in Procs /\ folder \in [Names -> Folder] /\ loader \in [Names -> Template \cup {NoTemplate}]
      /\ job \in [Procs -> Job] /\ j \in Job /\ n \in Names
      /\ folder = [folder EXCEPT ![n] = folder[n]] /\ loader = [loader EXCEPT ![n] = loader[n]]
  BY Known, Constants
<1>q. ASSUME UNCHANGED <<folder, loader>>, j.pc \notin Writing, NEW k, k.pc \notin Writing,
             job' = [job EXCEPT ![p] = k]
      PROVE  Kept'
  <2>1. MetaIsLast'
    BY <1>q DEF SInv, MetaIsLast
  <2>2. \A q \in Procs : job'[q] = job[q] \/ (job'[q].pc \notin Writing /\ job[q].pc \notin Writing)
    BY <1>q, <1>s
  <2>3. WritesInOrder'
    BY <1>q, <2>2 DEF SInv, WritesInOrder, Progress, Writing
  <2>4. ServedInv'
    BY <1>q, <2>2 DEF SInv, ServedInv, Served, Loadable, Behind, Writing
  <2> QED BY <2>1, <2>3, <2>4 DEF Kept
<1>i. Idle.pc \notin Writing
  BY DEF Idle, Writing
<1>1. CASE StartCycle
  <2>1. job' = [job EXCEPT ![p] = j] /\ j.pc = "idle" /\ UNCHANGED <<folder, loader>>
    BY <1>1, <1>s DEF StartCycle
  <2> QED BY <1>q, <2>1 DEF Writing
<1>2. ASSUME NEW x \in Names, NEW trades \in 0..MinTrades, NEW low \in BOOLEAN, Evaluate(x, trades, low)
      PROVE Kept'
  <2>1. j.pc = "idle" /\ UNCHANGED <<folder, loader>>
        /\ \/ job' = [job EXCEPT ![p] = j]
           \/ job' = [job EXCEPT ![p] = [pc |-> "llm", name |-> x, tpl |-> loader[x], valid |-> TRUE]]
    BY <1>2, <1>s DEF Evaluate
  <2> QED BY <1>q, <2>1 DEF Writing
<1>3. ASSUME NEW t \in Texts, LlmAnswers(t) PROVE Kept'
  <2> DEFINE k == [j EXCEPT !.pc = "version", !.tpl = [version |-> j.tpl.version + 1, text |-> t]]
  <2>1. j.pc = "llm" /\ UNCHANGED <<folder, loader>> /\ job' = [job EXCEPT ![p] = k] /\ k.pc = "version"
    BY <1>3, <1>s DEF LlmAnswers, Job
  <2> HIDE DEF k
  <2> QED BY <1>q, <2>1 DEF Writing
<1>4. CASE LlmFails
  <2>1. j.pc = "llm" /\ UNCHANGED <<folder, loader>> /\ job' = [job EXCEPT ![p] = Idle]
    BY <1>4 DEF LlmFails, Return
  <2> QED BY <1>q, <1>i, <2>1 DEF Writing
<1>5. CASE NewVersionDir
  <2> DEFINE f == folder[n]
             v == j.tpl.version
             g == WithVersionDir(f, v)
             k == [j EXCEPT !.pc = "files"]
  <2>1. j.pc = "version" /\ j.pc \notin Writing /\ j.pc \notin Behind /\ Turn(p) /\ loader' = loader
        /\ v \in Versions /\ f \in Folder
    BY <1>5, <1>s, Known DEF NewVersionDir, Writing, Behind
  <2>2. (\A q \in Procs \ {p} : job[q].pc \notin Writing) /\ Sound(f) /\ Served(f, loader[n])
    BY <1>s, <2>1, Before
  <2>3. CASE DirFree(f, v)
    <3>1. folder' = [folder EXCEPT ![n] = g] /\ job' = [job EXCEPT ![p] = k] /\ k.pc = "files"
          /\ k.name = n /\ k.tpl = j.tpl
      BY <1>5, <1>s, <2>3 DEF NewVersionDir, SetFolder, Goto, Job
    <3>2. /\ g.meta = f.meta /\ g.remnant = f.remnant /\ g.exists = TRUE /\ g.files[v] = Partial
          /\ \A x \in Versions \ {v} : g.files[x] = f.files[x]
      BY <2>1 DEF WithVersionDir, Folder
    <3>3. f.exists /\ f.files[v] = Absent
      BY <2>3 DEF DirFree
    <3>4. Sound(g) /\ Progress(k, g)
      <4>1. Sound(g)
        BY <2>2, <3>2, <3>3, Constants DEF Sound
      <4>2. Progress(k, g)
        BY <3>1, <3>2, Constants DEF Progress
      <4> QED BY <4>1, <4>2
    <3>5. Served(g, loader[n])
      BY <2>2, <3>2, <3>3, Constants DEF Served, Loadable
    <3>6. loader' = [loader EXCEPT ![n] = loader[n]]
      BY <1>s, <2>1
    <3> HIDE DEF g, k
    <3> QED BY <1>s, <2>1, <2>2, <3>1, <3>4, <3>5, <3>6, WriterStep
  <2>4. CASE ~DirFree(f, v)
    <3>1. job' = [job EXCEPT ![p] = Idle] /\ folder' = folder
      BY <1>5, <2>4 DEF NewVersionDir, Return
    <3> QED BY <1>q, <1>i, <2>1, <3>1
  <2> QED BY <2>3, <2>4
<1> QED BY <1>1, <1>2, <1>3, <1>4, <1>5 DEF Optimizer

\* A restart serves what it loads.
LEMMA KeepCrash == SInv /\ Crash => Kept'
<1> SUFFICES ASSUME SInv, Crash PROVE Kept'
  OBVIOUS
<1>1. folder' = folder /\ loader' = FromDir(folder) /\ job' = [q \in Procs |-> Idle]
  BY DEF Crash
<1>2. MetaIsLast'
  BY <1>1 DEF SInv, MetaIsLast
<1>3. WritesInOrder'
  BY <1>1 DEF WritesInOrder, Progress, Idle
<1>4. ServedInv'
  BY <1>1 DEF ServedInv, Served, FromDir
<1> QED BY <1>2, <1>3, <1>4 DEF Kept

\* The first state: folders of one complete version, as they were loaded.
LEMMA InitInv == Init => SInv
<1> SUFFICES ASSUME Init PROVE SInv
  OBVIOUS
<1> USE Constants
<1>1. \A t \in Texts : /\ Stored(1, t) \in Folder /\ Stored(1, t).exists /\ Stored(1, t).meta = 1
                       /\ Stored(1, t).files[1] = t
  <2> SUFFICES ASSUME NEW t \in Texts
               PROVE  /\ Stored(1, t) \in Folder /\ Stored(1, t).exists /\ Stored(1, t).meta = 1
                      /\ Stored(1, t).files[1] = t
    OBVIOUS
  <2>1. 1 \in Versions
    BY BoundsAssumption DEF Versions
  <2>2. [NoFolder.files EXCEPT ![1] = t] \in [Versions -> Texts \cup {Absent, Partial}]
        /\ [NoFolder.files EXCEPT ![1] = t][1] = t
    BY <2>1 DEF NoFolder
  <2> QED BY <2>1, <2>2 DEF Stored, Folder
<1>2. \A n \in Names : folder[n] = NoFolder \/ \E t \in Texts : folder[n] = Stored(1, t)
  BY DEF Init
<1>3. folder \in [Names -> Folder]
  BY <1>1 DEF Init
<1>4. loader \in [Names -> Template \cup {NoTemplate}]
  BY <1>3, FromDirType DEF Init
<1>5. TypeOK
  BY <1>3, <1>4, BoundsAssumption DEF Init, TypeOK
<1>6. Absence
  BY <1>1, <1>2 DEF Absence
<1>7. OneWriter /\ JobShape /\ WritesInOrder
  BY DEF Init, Idle, OneWriter, JobShape, WritesInOrder, Progress, Writing
<1>8. MetaIsLast
  BY <1>1, <1>2 DEF MetaIsLast, NoFolder
<1>9. ServedInv
  BY DEF Init, ServedInv, Served, FromDir
<1> QED BY <1>5, <1>6, <1>7, <1>8, <1>9 DEF SInv, TInv

\* Every step keeps the invariant.
LEMMA KeepInv == Overlap = FALSE /\ SInv /\ [Next]_vars => SInv'
<1> SUFFICES ASSUME Overlap = FALSE, SInv, [Next]_vars PROVE SInv'
  OBVIOUS
<1>1. Kept'
  <2>1. CASE UNCHANGED vars
    BY <2>1 DEF SInv, Kept, MetaIsLast, WritesInOrder, ServedInv, Served, Loadable, Progress, vars
  <2>2. CASE Next
    BY <2>2, KeepWrite, KeepClient, KeepOptimizer, KeepCrash DEF Next
  <2> QED BY <2>1, <2>2
<1>2. TInv' /\ OneWriter'
  BY KeepTypes, KeepCalls DEF SInv, TInv
<1> QED BY <1>1, <1>2, KeepAbsence DEF SInv, Kept

\* The invariant holds of every behaviour in which calls do not overlap.
LEMMA Invariant == Spec /\ Overlap = FALSE => []SInv
<1> DEFINE J == SInv /\ Overlap = FALSE
<1>1. Init /\ Overlap = FALSE => J
  BY InitInv
<1>2. J /\ [Next]_vars => J'
  BY KeepInv
<1>3. J => SInv
  OBVIOUS
<1> HIDE DEF J
<1> QED BY <1>1, <1>2, <1>3, PTL DEF Spec

\* Every variable keeps its type; in particular the optimizer never names a version beyond the
\* last one, and this whatever calls overlap (optimize_strategy).
THEOREM TypeCorrect == Spec => []TypeOK
<1>1. Init => TInv
  BY InitInv DEF SInv
<1>2. TInv /\ [Next]_vars => TInv'
  BY KeepTypes, KeepCalls DEF TInv
<1>3. TInv => TypeOK
  BY DEF TInv
<1> QED BY <1>1, <1>2, <1>3, PTL DEF Spec

\* A meta.json that can be read names a complete version, whichever write failed and wherever
\* the process was killed, as long as no two calls write at the same moment: it is the last
\* file written, and it is emptied before (create_strategy, save_new_version).
THEOREM MetaWrittenLast == Spec /\ Overlap = FALSE => []MetaIsLast
<1>1. SInv => MetaIsLast
  BY DEF SInv
<1> QED BY <1>1, Invariant, PTL

\* Between calls the prompts served are those a restart would load, whatever failed before and
\* however old the prompt was that the LLM has improved, as long as no two calls write at the
\* same moment (create, delete, optimize_strategy, PromptLoader).
THEOREM ServedFromDisk == Spec /\ Overlap = FALSE => []ServedIsStored
<1>1. SInv => ServedIsStored
  <2> SUFFICES ASSUME SInv, Quiet, NEW n \in Names, Loadable(folder[n])
               PROVE  loader[n] = FromDir(folder)[n]
    BY DEF ServedIsStored
  <2>1. Served(folder[n], loader[n])
    BY DEF SInv, ServedInv, Quiet, Behind
  <2> QED BY <2>1 DEF Served, FromDir
<1> QED BY <1>1, Invariant, PTL
====
