---------------------------- MODULE PolicyReload ----------------------------
(***************************************************************************)
(* Loading the policy directory at startup and keeping the engine in step  *)
(* with it: LoadPoliciesFromDir (internal/policy/loader.go), LoadPolicies  *)
(* and watchPolicies (internal/proxy/proxy.go), with somebody editing the  *)
(* directory at the same time.                                             *)
(*                                                                         *)
(* The program meets the directory in separate system calls, each one an   *)
(* action: ReadDir, lstat (entry.Info) and ReadFile.  Between any two of   *)
(* them files are written and removed.  ReadFile and the LoadPolicy that   *)
(* follows it are one action, since nothing else looks at what is between  *)
(* them.  Names are numbers in the order ReadDir sorts them.               *)
(***************************************************************************)
EXTENDS PolicyEngine, Naturals, FiniteSetsExt

CONSTANT MaxWrites   \* bound: the edits made to the directory

ASSUME PolicyReloadAssumption ==
  /\ Names \subseteq Nat
  /\ MaxWrites \in Nat

VARIABLES
  dir,       \* dir[n]: the file's content and modification time, 0 for no file
  edits,     \* the edits made so far; the last one's modification time
  phase,     \* where the startup, and then the watcher goroutine, stands
  todo,      \* names its current loop has still to visit
  batch,     \* `policies`: what LoadPoliciesFromDir read
  lastMod,   \* lastModTimes, 0 for no entry
  newFiles,  \* the names the current scan has met
  info,      \* the modification time last read from an entry, before its file is
  missed,    \* history: names written between their first reading and the first
             \* look at their modification time, and not loaded since
  removed    \* history: names the watcher has reported as removed and has not
             \* loaded since

watchVars == <<phase, todo, batch, lastMod, newFiles, info, missed, removed>>
vars == <<modules, prepared, dir, edits, watchVars>>

Phases == {"start", "read", "load", "baseline", "stat",
           "idle", "scan", "reload", "prune", "off"}

NoFile == [content |-> NoModule, mtime |-> 0]
NoFiles == [n \in Names |-> NoFile]
Present == {n \in Names : dir[n] # NoFile}
First == Min(todo)

Init ==
  /\ EngineInit
  /\ dir \in [Names -> {NoFile} \cup [content : Contents, mtime : {1}]]
  /\ edits = 1
  /\ phase = "start"
  /\ todo = {}
  /\ batch = NoFiles
  /\ lastMod = [n \in Names |-> 0]
  /\ newFiles = {}
  /\ info = 0
  /\ missed = {}
  /\ removed = {}

-----------------------------------------------------------------------------
(* Startup: LoadPoliciesFromDir, then LoadPolicy on each file read.         *)

\* os.ReadDir(dir); an unreadable directory ends the startup, with no watcher.
ListDir ==
  /\ phase = "start"
  /\ \/ phase' = "read" /\ todo' = Present
     \/ phase' = "off" /\ UNCHANGED todo
  /\ UNCHANGED <<engineVars, dir, edits, batch, lastMod, newFiles, info,
                 missed, removed>>

\* os.ReadFile; a file that is gone by now ends the startup.
ReadPolicy ==
  /\ phase = "read" /\ todo # {}
  /\ IF First \in Present
     THEN /\ batch' = [batch EXCEPT ![First] = dir[First]]
          /\ todo' = todo \ {First}
          /\ UNCHANGED phase
     ELSE /\ phase' = "off"
          /\ UNCHANGED <<batch, todo>>
  /\ UNCHANGED <<engineVars, dir, edits, lastMod, newFiles, info, missed, removed>>

ReadDone ==
  /\ phase = "read" /\ todo = {}
  /\ phase' = "load"
  /\ todo' = {n \in Names : batch[n] # NoFile}
  /\ UNCHANGED <<engineVars, dir, edits, batch, lastMod, newFiles, info,
                 missed, removed>>

\* The map of policies is ranged over in any order; the first one that does not
\* load ends the startup: the rest is not loaded and no watcher is started.
LoadNext ==
  /\ phase = "load" /\ todo # {}
  /\ \E n \in todo :
       /\ LoadPolicy(n, batch[n].content)
       /\ IF Loads(n, batch[n].content)
          THEN todo' = todo \ {n} /\ UNCHANGED phase
          ELSE phase' = "off" /\ UNCHANGED todo
  /\ UNCHANGED <<dir, edits, batch, lastMod, newFiles, info, missed, removed>>

\* go p.watchPolicies(dir): the first ReadDir of the goroutine.  When that one
\* fails the watcher starts with an empty lastModTimes.
StartWatching ==
  /\ phase = "load" /\ todo = {}
  /\ phase' = "baseline"
  /\ UNCHANGED <<engineVars, dir, edits, todo, batch, lastMod, newFiles, info,
                 missed, removed>>

ListBaseline ==
  /\ phase = "baseline"
  /\ \/ phase' = "stat" /\ todo' = Present
     \/ phase' = "idle" /\ UNCHANGED todo
  /\ UNCHANGED <<engineVars, dir, edits, batch, lastMod, newFiles, info,
                 missed, removed>>

\* entry.Info(): an entry that is gone by now is left out.
StatBaseline ==
  /\ phase = "stat" /\ todo # {}
  /\ lastMod' = [lastMod EXCEPT ![First] = dir[First].mtime]
  /\ missed' = IF First \in Present /\ dir[First] # batch[First]
               THEN missed \cup {First} ELSE missed
  /\ todo' = todo \ {First}
  /\ UNCHANGED <<engineVars, dir, edits, phase, batch, newFiles, info, removed>>

BaselineDone ==
  /\ phase = "stat" /\ todo = {}
  /\ phase' = "idle"
  /\ UNCHANGED <<engineVars, dir, edits, todo, batch, lastMod, newFiles, info,
                 missed, removed>>

-----------------------------------------------------------------------------
(* The watcher: one scan per tick of its 30-second ticker.                  *)

\* The ticker fires and ReadDir succeeds (when it fails, nothing changes).
StartScan ==
  /\ phase = "idle"
  /\ phase' = "scan"
  /\ todo' = Present
  /\ newFiles' = {}
  /\ UNCHANGED <<engineVars, dir, edits, batch, lastMod, info, missed, removed>>

\* Mutant of StatFile: the name is taken off the loop before it is read.
StatFileForgetsName ==
  /\ phase = "scan" /\ todo # {}
  /\ newFiles' = newFiles \cup {First}
  /\ todo' = todo \ {First}
  /\ IF First \in Present /\ dir[First].mtime > lastMod[First]
     THEN phase' = "reload" /\ info' = dir[First].mtime
     ELSE UNCHANGED <<phase, info>>
  /\ UNCHANGED <<engineVars, dir, edits, batch, lastMod, missed, removed>>

\* entry.Info() and the comparison with lastModTimes.  An entry that is gone by
\* now counts as met all the same.
StatFile ==
  /\ phase = "scan" /\ todo # {}
  /\ newFiles' = newFiles \cup {First}
  /\ IF First \in Present /\ dir[First].mtime > lastMod[First]
     THEN phase' = "reload" /\ info' = dir[First].mtime /\ UNCHANGED todo
     ELSE todo' = todo \ {First} /\ UNCHANGED <<phase, info>>
  /\ UNCHANGED <<engineVars, dir, edits, batch, lastMod, missed, removed>>

\* Mutant of Reload: the time is recorded before the load is known to succeed.
ReloadRecordsFailure ==
  /\ phase = "reload"
  /\ phase' = "scan"
  /\ todo' = todo \ {First}
  /\ info' = 0
  /\ IF First \in Present
     THEN /\ LoadPolicy(First, dir[First].content)
          /\ lastMod' = [lastMod EXCEPT ![First] = info]
          /\ IF Loads(First, dir[First].content)
             THEN /\ missed' = missed \ {First}
                  /\ removed' = removed \ {First}
             ELSE UNCHANGED <<missed, removed>>
     ELSE UNCHANGED <<engineVars, lastMod, missed, removed>>
  /\ UNCHANGED <<dir, edits, batch, newFiles>>

\* Mutant of Reload: `break` instead of `continue` after a failed load.
ReloadBreaksOff ==
  /\ phase = "reload"
  /\ phase' = "scan"
  /\ info' = 0
  /\ IF First \in Present
     THEN /\ LoadPolicy(First, dir[First].content)
          /\ IF Loads(First, dir[First].content)
             THEN /\ lastMod' = [lastMod EXCEPT ![First] = info]
                  /\ missed' = missed \ {First}
                  /\ removed' = removed \ {First}
                  /\ todo' = todo \ {First}
             ELSE todo' = {} /\ UNCHANGED <<lastMod, missed, removed>>
     ELSE todo' = todo \ {First} /\ UNCHANGED <<engineVars, lastMod, missed, removed>>
  /\ UNCHANGED <<dir, edits, batch, newFiles>>

\* os.ReadFile and LoadPolicy.  The time recorded is the one Info gave, also when
\* the file has been written since; after a failure none is recorded, so that
\* the next scan tries again.
Reload ==
  /\ phase = "reload"
  /\ phase' = "scan"
  /\ todo' = todo \ {First}
  /\ info' = 0
  /\ IF First \in Present
     THEN /\ LoadPolicy(First, dir[First].content)
          /\ IF Loads(First, dir[First].content)
             THEN /\ lastMod' = [lastMod EXCEPT ![First] = info]
                  /\ missed' = missed \ {First}
                  /\ removed' = removed \ {First}
             ELSE UNCHANGED <<lastMod, missed, removed>>
     ELSE UNCHANGED <<engineVars, lastMod, missed, removed>>
  /\ UNCHANGED <<dir, edits, batch, newFiles>>

\* The loop over lastModTimes: entries the scan has not met are dropped and
\* reported with "policy removed".  The engine is not told.
Prune ==
  /\ phase = "scan" /\ todo = {}
  /\ phase' = "idle"
  /\ lastMod' = [n \in Names |-> IF n \in newFiles THEN lastMod[n] ELSE 0]
  /\ removed' = removed \cup {n \in Names \ newFiles : lastMod[n] # 0}
  /\ UNCHANGED <<engineVars, dir, edits, todo, batch, newFiles, info, missed>>

\* Shutdown has closed stopCh: the watcher returns when it next selects.
StopWatching ==
  /\ phase = "idle"
  /\ phase' = "off"
  /\ UNCHANGED <<engineVars, dir, edits, todo, batch, lastMod, newFiles, info,
                 missed, removed>>

Watcher ==
  \/ ListDir \/ ReadPolicy \/ ReadDone \/ LoadNext \/ StartWatching
  \/ ListBaseline \/ StatBaseline \/ BaselineDone
  \/ StartScan \/ StatFile \/ Reload \/ Prune

-----------------------------------------------------------------------------
(* Whoever edits the directory.  Every write has a later modification time  *)
(* than the one before.                                                     *)

WriteFile(n, source) ==
  /\ edits <= MaxWrites
  /\ edits' = edits + 1
  /\ dir' = [dir EXCEPT ![n] = [content |-> source, mtime |-> edits + 1]]
  /\ UNCHANGED <<engineVars, watchVars>>

RemoveFile(n) ==
  /\ edits <= MaxWrites
  /\ n \in Present
  /\ edits' = edits + 1
  /\ dir' = [dir EXCEPT ![n] = NoFile]
  /\ UNCHANGED <<engineVars, watchVars>>

Edit == \E n \in Names : RemoveFile(n) \/ \E source \in Contents : WriteFile(n, source)

Next == Watcher \/ StopWatching \/ Edit

Spec == Init /\ [][Next]_vars

\* The goroutine that loads and watches keeps running, and its ticker keeps
\* firing; nobody has to edit the directory.
FairSpec == Spec /\ WF_vars(Watcher)

-----------------------------------------------------------------------------
(* Properties.                                                              *)

TypeOK ==
  /\ EngineTypeOK
  /\ dir \in [Names -> {NoFile} \cup [content : Contents, mtime : 1..edits]]
  /\ edits \in 1..(MaxWrites + 1)
  /\ phase \in Phases
  /\ todo \subseteq Names
  /\ phase = "reload" => todo # {} /\ info # 0
  /\ batch \in [Names -> {NoFile} \cup [content : Contents, mtime : 1..edits]]
  /\ lastMod \in [Names -> 0..edits]
  /\ newFiles \subseteq Names
  /\ info \in 0..edits
  /\ missed \subseteq Names /\ removed \subseteq Names

\* A file the watcher takes for up to date is enforced as it stands in the
\* directory.  The race at startup, when the file is written after it has been
\* read (proxy.go:240) and before its time is first taken (proxy.go:267), is the
\* only way around it.
UpToDate(n) == n \in Present /\ lastMod[n] = dir[n].mtime
UpToDateIsEnforced ==
  \A n \in Names \ missed : UpToDate(n) => prepared[n] = dir[n].content

\* A bad edit never leaves the engine without a query, or with one that lacks a
\* policy it enforced before: only a new source of the same name replaces it
\* (engine.go:40-44).
NothingUnloads ==
  [][\A n \in Names : prepared[n] # NoModule => prepared'[n] # NoModule]_vars

\* When the directory can be loaded on top of what the engine holds, the engine
\* comes to enforce it, whatever was broken before and in whichever order the
\* files are retried (proxy.go:284-309).
Pending(n) == n \in Present /\ ~UpToDate(n) /\ dir[n].content.health # "syntax"
Loadable ==
  /\ phase # "off"
  /\ Compiles([n \in Names |-> IF Pending(n) THEN dir[n].content ELSE modules[n]])
InStep ==
  \A n \in Names \ missed :
    n \in Present /\ dir[n].content.health # "syntax" => prepared[n] = dir[n].content
Converges == <>[]Loadable => <>[]InStep

\* proxy.go:314: a policy reported with "policy removed" is not enforced.
RemovedIsUnenforced == \A n \in removed : prepared[n] = NoModule
=============================================================================
