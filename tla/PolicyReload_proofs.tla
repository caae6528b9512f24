------------------------- MODULE PolicyReload_proofs -------------------------
(***************************************************************************)
(* Proofs about PolicyReload: its types, that a file the watcher takes for *)
(* up to date is enforced as it stands in the directory, and that no edit  *)
(* takes a policy out of the query.                                        *)
(***************************************************************************)
EXTENDS PolicyReload, WellFoundedInduction, TLAPS

-----------------------------------------------------------------------------
(* The inductive invariant.                                                 *)

\* The startup: no modification time is known before the first one is taken, the
\* query has every module, and what has been read and is not in todo any more has
\* been loaded.
Startup ==
  /\ phase \in {"start", "read", "load", "baseline"} =>
       \A n \in Names : lastMod[n] = 0
  /\ phase \in {"start", "read", "load", "baseline", "stat"} => modules = prepared
  /\ phase = "load" => \A n \in todo : batch[n] # NoFile
  /\ phase = "load" =>
       \A n \in Names \ todo : batch[n] # NoFile => prepared[n] = batch[n].content
  /\ phase \in {"baseline", "stat"} =>
       \A n \in Names : batch[n] # NoFile => prepared[n] = batch[n].content

\* Between Info and ReadFile: the entry is newer than the last load of its file,
\* and the file is no older than the entry.
Reloading ==
  phase = "reload" =>
    /\ info > lastMod[First]
    /\ First \in Present => dir[First].mtime >= info

\* The property is not inductive: a load of one file puts the modules of all into
\* the query, so that they must be those of the directory as well.
Enforced ==
  \A n \in Names \ missed :
    UpToDate(n) => prepared[n] = dir[n].content /\ modules[n] = dir[n].content

\* For the same reason a name that is in the query has to be among the modules.
Held == \A n \in Names : prepared[n] # NoModule => modules[n] # NoModule

IInv == TypeOK /\ Startup /\ Reloading /\ Enforced /\ Held
-----------------------------------------------------------------------------
(* Lemmas about the operators.                                              *)

\* First, the least name still to visit, is one of them.
LEMMA FirstIsIn ==
  ASSUME todo \subseteq Names, todo # {}
  PROVE  First \in todo
<1> DEFINE R == OpToRel(<, Nat)
<1>1. todo \subseteq Nat
  BY PolicyReloadAssumption
<1>2. IsWellFoundedOn(R, Nat)
  BY NatLessThanWellFounded
<1>3. PICK x \in todo : \A y \in todo : ~(<<y, x>> \in R)
  BY <1>1, <1>2, WFMin
<1>4. ASSUME NEW y \in todo PROVE x =< y
  <2>1. x \in Nat /\ y \in Nat /\ ~(y < x)
    BY <1>1, <1>3 DEF OpToRel
  <2> QED
    BY <2>1
<1> QED
  BY <1>4 DEF First, Min

\* The number of edits is one.
LEMMA EditsCount == TypeOK => edits \in Nat
BY PolicyReloadAssumption DEF TypeOK

\* Neither a policy source nor the content of no file is mistaken for the other.
LEMMA ContentsAreSources ==
  /\ \A c \in Contents : c # NoModule
  /\ \A c \in Contents : \A m : [content |-> c, mtime |-> m] # NoFile
  /\ NoFile.content = NoModule /\ NoFile.mtime = 0
<1>1. ASSUME NEW c \in Contents PROVE c # NoModule
  <2>1. c.health # "absent"
    BY PolicyEngineAssumption DEF Sources
  <2> QED
    BY <2>1 DEF NoModule
<1>2. NoFile.content = NoModule /\ NoFile.mtime = 0
  BY DEF NoFile
<1> QED
  BY <1>1, <1>2

\* What is present has a source and a modification time, and conversely.
LEMMA PresentFiles ==
  ASSUME NEW bound \in Nat, NEW f \in {NoFile} \cup [content : Contents, mtime : 1..bound]
  PROVE  /\ f # NoFile => f.content \in Contents /\ f.mtime \in 1..bound
         /\ f = NoFile => f.mtime = 0
         /\ f.mtime \in 0..bound
BY ContentsAreSources

\* What LoadPolicy leaves behind: a source that parses replaces the module of its
\* name, and the query is the modules' if and only if it loads.
LEMMA LoadPolicyYields ==
  ASSUME EngineTypeOK, NEW n \in Names, NEW source \in Contents, LoadPolicy(n, source)
  PROVE  /\ EngineTypeOK'
         /\ Loads(n, source) =>
              /\ modules' = prepared'
              /\ prepared' = [modules EXCEPT ![n] = source]
         /\ ~Loads(n, source) => prepared' = prepared
         /\ \A k \in Names \ {n} : modules'[k] = modules[k]
         /\ modules'[n] \in {modules[n], source}
<1>1. Loads(n, source) => source.health # "syntax"
  BY DEF Loads
<1> QED
  BY <1>1 DEF LoadPolicy, EngineTypeOK

\* A load leaves every name in the query that was in it.
LEMMA LoadKeepsQuery ==
  ASSUME EngineTypeOK, Held, NEW n \in Names, NEW source \in Contents,
         LoadPolicy(n, source)
  PROVE  \A k \in Names : prepared[k] # NoModule => prepared'[k] # NoModule
<1>1. /\ Loads(n, source) => prepared' = [modules EXCEPT ![n] = source]
      /\ ~Loads(n, source) => prepared' = prepared
  BY LoadPolicyYields
<1> QED
  BY <1>1, ContentsAreSources DEF Held, EngineTypeOK

-----------------------------------------------------------------------------
(* The initial states.                                                      *)

\* The initial states satisfy it: no file is up to date yet.
LEMMA InitIInv == Init => IInv
<1> SUFFICES ASSUME Init PROVE IInv
  OBVIOUS
<1> USE DEF Init
<1>1. EngineTypeOK /\ modules = prepared
  BY DEF EngineInit, EngineTypeOK, NoModules
<1>2. TypeOK
  BY <1>1, PolicyReloadAssumption DEF TypeOK, Phases, NoFiles
<1>3. Startup /\ Reloading
  BY <1>1 DEF Startup, Reloading
<1>4. Enforced
  <2>1. ASSUME NEW n \in Names, UpToDate(n) PROVE FALSE
    <3>1. dir[n] \in {NoFile} \cup [content : Contents, mtime : 1..1]
      BY <1>2 DEF TypeOK
    <3>2. dir[n].mtime # 0
      BY <3>1, <2>1, PresentFiles DEF UpToDate, Present
    <3> QED
      BY <2>1, <3>2 DEF UpToDate
  <2> QED
    BY <2>1 DEF Enforced
<1>5. Held
  BY <1>1 DEF Held
<1> QED
  BY <1>2, <1>3, <1>4, <1>5 DEF IInv

-----------------------------------------------------------------------------
(* The startup.                                                             *)

\* The listing of the directory changes no policy.
LEMMA ListDirKeeps == IInv /\ ListDir => IInv'
<1> SUFFICES ASSUME IInv, ListDir PROVE IInv'
  OBVIOUS
<1> USE DEF ListDir, engineVars
<1>1. TypeOK'
  BY DEF IInv, TypeOK, EngineTypeOK, Phases, Present
<1>2. Startup' /\ Reloading'
  BY DEF IInv, Startup, Reloading
<1>3. Enforced' /\ Held'
  BY DEF IInv, Enforced, Held, UpToDate, Present
<1> QED
  BY <1>1, <1>2, <1>3 DEF IInv

\* Nor does reading a file into the batch.
LEMMA ReadPolicyKeeps == IInv /\ ReadPolicy => IInv'
<1> SUFFICES ASSUME IInv, ReadPolicy PROVE IInv'
  OBVIOUS
<1> USE DEF ReadPolicy, engineVars
<1>1. First \in todo /\ First \in Names
  BY FirstIsIn DEF IInv, TypeOK
<1>2. TypeOK'
  BY <1>1 DEF IInv, TypeOK, EngineTypeOK, Phases
<1>3. Startup' /\ Reloading'
  BY DEF IInv, Startup, Reloading
<1>4. Enforced' /\ Held'
  BY DEF IInv, Enforced, Held, UpToDate, Present
<1> QED
  BY <1>2, <1>3, <1>4 DEF IInv

\* When the batch is complete, what is in it is what has to be loaded.
LEMMA ReadDoneKeeps == IInv /\ ReadDone => IInv'
<1> SUFFICES ASSUME IInv, ReadDone PROVE IInv'
  OBVIOUS
<1> USE DEF ReadDone, engineVars
<1>1. TypeOK'
  BY DEF IInv, TypeOK, EngineTypeOK, Phases
<1>2. Startup' /\ Reloading'
  BY DEF IInv, Startup, Reloading
<1>3. Enforced' /\ Held'
  BY DEF IInv, Enforced, Held, UpToDate, Present
<1> QED
  BY <1>1, <1>2, <1>3 DEF IInv

\* No modification time is known; no file is up to date.
NoTimes == \A n \in Names : lastMod[n] = 0
NoneUpToDate == \A n \in Names : ~UpToDate(n)

\* No file is up to date before its modification time is taken.
LEMMA NothingUpToDate == TypeOK /\ NoTimes => NoneUpToDate
<1> SUFFICES ASSUME TypeOK, NEW n \in Names, lastMod[n] = 0 PROVE ~UpToDate(n)
  BY DEF NoTimes, NoneUpToDate
<1>1. /\ edits \in Nat
      /\ dir[n] \in {NoFile} \cup [content : Contents, mtime : 1..edits]
  BY PolicyReloadAssumption DEF TypeOK
<1> QED
  BY <1>1, PresentFiles DEF UpToDate, Present

\* A load at startup takes its file off what is still to be loaded.
LEMMA LoadNextKeeps == IInv /\ LoadNext => IInv'
<1> SUFFICES ASSUME IInv, LoadNext PROVE IInv'
  OBVIOUS
<1>1. PICK n \in todo :
        /\ LoadPolicy(n, batch[n].content)
        /\ IF Loads(n, batch[n].content)
           THEN todo' = todo \ {n} /\ UNCHANGED phase
           ELSE phase' = "off" /\ UNCHANGED todo
  BY DEF LoadNext
<1>2. /\ phase = "load"
      /\ UNCHANGED <<dir, edits, batch, lastMod, newFiles, info, missed, removed>>
  BY DEF LoadNext
<1>3. n \in Names /\ edits \in Nat /\ EngineTypeOK
  BY PolicyReloadAssumption DEF IInv, TypeOK
<1> DEFINE source == batch[n].content
<1>4. source \in Contents /\ source # NoModule
  <2>1. batch[n] # NoFile
    BY <1>2 DEF IInv, Startup
  <2> QED
    BY <1>3, <2>1, PresentFiles, ContentsAreSources DEF IInv, TypeOK
<1>5. /\ EngineTypeOK'
      /\ Loads(n, source) =>
           /\ modules' = prepared'
           /\ prepared' = [modules EXCEPT ![n] = source]
      /\ ~Loads(n, source) => prepared' = prepared
      /\ \A k \in Names \ {n} : modules'[k] = modules[k]
      /\ modules'[n] \in {modules[n], source}
  BY <1>1, <1>3, <1>4, LoadPolicyYields
<1>6. TypeOK'
  BY <1>1, <1>2, <1>5 DEF IInv, TypeOK, Phases
<1>7. Startup'
  <2>1. CASE Loads(n, source)
    <3>1. prepared'[n] = source /\ \A k \in Names \ {n} : prepared'[k] = prepared[k]
      BY <1>2, <1>3, <1>5, <2>1 DEF IInv, Startup, EngineTypeOK
    <3> QED
      BY <1>1, <1>2, <1>5, <2>1, <3>1 DEF IInv, Startup
  <2>2. CASE ~Loads(n, source)
    BY <1>1, <1>2, <2>2 DEF IInv, Startup
  <2> QED
    BY <2>1, <2>2
<1>8. Reloading'
  BY <1>1, <1>2 DEF Reloading
<1>9. Enforced'
  <2>1. \A k \in Names : lastMod'[k] = 0
    BY <1>2 DEF IInv, Startup
  <2>2. TypeOK' /\ NoTimes' => NoneUpToDate'
    BY NothingUpToDate, PTL
  <2> QED
    BY <1>6, <2>1, <2>2 DEF NoTimes, NoneUpToDate, Enforced
<1>10. Held'
  BY <1>3, <1>4, <1>5 DEF IInv, Held, EngineTypeOK
<1> QED
  BY <1>6, <1>7, <1>8, <1>9, <1>10 DEF IInv

\* The watcher starts when everything read has been loaded.
LEMMA StartWatchingKeeps == IInv /\ StartWatching => IInv'
<1> SUFFICES ASSUME IInv, StartWatching PROVE IInv'
  OBVIOUS
<1> USE DEF StartWatching, engineVars
<1>1. TypeOK'
  BY DEF IInv, TypeOK, EngineTypeOK, Phases
<1>2. Startup' /\ Reloading'
  BY DEF IInv, Startup, Reloading
<1>3. Enforced' /\ Held'
  BY DEF IInv, Enforced, Held, UpToDate, Present
<1> QED
  BY <1>1, <1>2, <1>3 DEF IInv

\* Its first listing takes no modification time yet.
LEMMA ListBaselineKeeps == IInv /\ ListBaseline => IInv'
<1> SUFFICES ASSUME IInv, ListBaseline PROVE IInv'
  OBVIOUS
<1> USE DEF ListBaseline, engineVars
<1>1. TypeOK'
  BY DEF IInv, TypeOK, EngineTypeOK, Phases, Present
<1>2. Startup' /\ Reloading'
  BY DEF IInv, Startup, Reloading
<1>3. Enforced' /\ Held'
  BY DEF IInv, Enforced, Held, UpToDate, Present
<1> QED
  BY <1>1, <1>2, <1>3 DEF IInv

\* A time is taken: what has been loaded is the file, unless it is missed.
LEMMA StatBaselineKeeps == IInv /\ StatBaseline => IInv'
<1> SUFFICES ASSUME IInv, StatBaseline PROVE IInv'
  OBVIOUS
<1> USE DEF StatBaseline, engineVars
<1>1. First \in todo /\ First \in Names /\ edits \in Nat
  BY FirstIsIn, EditsCount DEF IInv, TypeOK
<1>2. dir[First].mtime \in 0..edits
  BY <1>1, PresentFiles DEF IInv, TypeOK
<1>3. TypeOK'
  BY <1>1, <1>2 DEF IInv, TypeOK, EngineTypeOK, Phases
<1>4. Startup' /\ Reloading'
  BY DEF IInv, Startup, Reloading
<1>5. ASSUME NEW n \in Names \ missed', UpToDate(n)'
      PROVE  prepared'[n] = dir'[n].content /\ modules'[n] = dir'[n].content
  <2>1. n \notin missed
    BY <1>5
  <2>2. CASE n = First
    <3>1. First \in Present /\ dir[First] = batch[First] /\ batch[First] # NoFile
      BY <1>5, <2>2 DEF UpToDate, Present
    <3> QED
      BY <1>1, <2>2, <3>1 DEF IInv, Startup
  <2>3. CASE n # First
    <3>1. UpToDate(n)
      BY <1>5, <2>3 DEF UpToDate, Present, IInv, TypeOK
    <3> QED
      BY <2>1, <3>1 DEF IInv, Enforced
  <2> QED
    BY <2>2, <2>3
<1>6. Enforced' /\ Held'
  BY <1>5 DEF IInv, Enforced, Held
<1> QED
  BY <1>3, <1>4, <1>6 DEF IInv

\* With the last time taken the startup is over.
LEMMA BaselineDoneKeeps == IInv /\ BaselineDone => IInv'
<1> SUFFICES ASSUME IInv, BaselineDone PROVE IInv'
  OBVIOUS
<1> USE DEF BaselineDone, engineVars
<1>1. TypeOK'
  BY DEF IInv, TypeOK, EngineTypeOK, Phases
<1>2. Startup' /\ Reloading'
  BY DEF IInv, Startup, Reloading
<1>3. Enforced' /\ Held'
  BY DEF IInv, Enforced, Held, UpToDate, Present
<1> QED
  BY <1>1, <1>2, <1>3 DEF IInv

-----------------------------------------------------------------------------
(* The watcher.                                                             *)

\* A scan starts with what is present.
LEMMA StartScanKeeps == IInv /\ StartScan => IInv'
<1> SUFFICES ASSUME IInv, StartScan PROVE IInv'
  OBVIOUS
<1> USE DEF StartScan, engineVars
<1>1. TypeOK'
  BY DEF IInv, TypeOK, EngineTypeOK, Phases, Present
<1>2. Startup' /\ Reloading'
  BY DEF IInv, Startup, Reloading
<1>3. Enforced' /\ Held'
  BY DEF IInv, Enforced, Held, UpToDate, Present
<1> QED
  BY <1>1, <1>2, <1>3 DEF IInv

\* A file newer than its last load is what the next step reads.
LEMMA StatFileKeeps == IInv /\ StatFile => IInv'
<1> SUFFICES ASSUME IInv, StatFile PROVE IInv'
  OBVIOUS
<1> USE DEF StatFile, engineVars
<1>1. First \in todo /\ First \in Names /\ edits \in Nat
  BY FirstIsIn, EditsCount DEF IInv, TypeOK
<1>2. dir[First].mtime \in 0..edits /\ lastMod[First] \in 0..edits
  BY <1>1, PresentFiles DEF IInv, TypeOK
<1>3. TypeOK'
  BY <1>1, <1>2 DEF IInv, TypeOK, EngineTypeOK, Phases
<1>4. Startup'
  BY DEF IInv, Startup
<1>5. Reloading'
  <2> SUFFICES ASSUME phase' = "reload" PROVE Reloading'
    BY DEF Reloading
  <2>1. First' = First /\ info' = dir[First].mtime /\ info' > lastMod[First]
    BY DEF First
  <2> QED
    BY <1>2, <2>1 DEF Reloading
<1>6. Enforced' /\ Held'
  BY DEF IInv, Enforced, Held, UpToDate, Present
<1> QED
  BY <1>3, <1>4, <1>5, <1>6 DEF IInv

\* The file is read after its entry: what is loaded is what the directory holds
\* now, and counts as up to date only if it is as old as the entry.
LEMMA ReloadKeeps == IInv /\ Reload => IInv'
<1> SUFFICES ASSUME IInv, Reload PROVE IInv'
  OBVIOUS
<1>1. /\ phase = "reload" /\ phase' = "scan" /\ todo' = todo \ {First} /\ info' = 0
      /\ UNCHANGED <<dir, edits, batch, newFiles>>
  BY DEF Reload
<1>2. First \in todo /\ First \in Names /\ edits \in Nat /\ EngineTypeOK
  BY <1>1, FirstIsIn, EditsCount DEF IInv, TypeOK
<1>3. /\ info \in 0..edits /\ info > lastMod[First] /\ lastMod[First] \in 0..edits
      /\ First \in Present => dir[First].mtime >= info
  BY <1>1, <1>2 DEF IInv, TypeOK, Reloading
<1>4. Startup' /\ Reloading'
  BY <1>1 DEF Startup, Reloading
<1>5. CASE First \notin Present
  <2> USE <1>1, <1>5 DEF Reload, engineVars
  <2>1. TypeOK'
    BY <1>2 DEF IInv, TypeOK, EngineTypeOK, Phases
  <2>2. Enforced' /\ Held'
    BY DEF IInv, Enforced, Held, UpToDate, Present
  <2> QED
    BY <1>4, <2>1, <2>2 DEF IInv
<1>6. CASE First \in Present
  <2> DEFINE source == dir[First].content
  <2>1. /\ LoadPolicy(First, source)
        /\ IF Loads(First, source)
           THEN /\ lastMod' = [lastMod EXCEPT ![First] = info]
                /\ missed' = missed \ {First}
                /\ removed' = removed \ {First}
           ELSE UNCHANGED <<lastMod, missed, removed>>
    BY <1>6 DEF Reload
  <2>2. source \in Contents /\ source # NoModule /\ dir[First].mtime \in 1..edits
    BY <1>2, <1>6, PresentFiles, ContentsAreSources DEF IInv, TypeOK, Present
  <2>3. /\ EngineTypeOK'
        /\ Loads(First, source) =>
             /\ modules' = prepared'
             /\ prepared' = [modules EXCEPT ![First] = source]
        /\ ~Loads(First, source) => prepared' = prepared
        /\ \A k \in Names \ {First} : modules'[k] = modules[k]
        /\ modules'[First] \in {modules[First], source}
    BY <1>2, <2>1, <2>2, LoadPolicyYields
  <2> HIDE DEF source
  <2>4. TypeOK'
    BY <1>1, <1>2, <1>3, <2>1, <2>3 DEF IInv, TypeOK, Phases
  <2>5. ASSUME NEW n \in Names \ missed', UpToDate(n)'
        PROVE  prepared'[n] = dir'[n].content /\ modules'[n] = dir'[n].content
    <3>1. CASE n = First
      <4>1. CASE Loads(First, source)
        <5>1. prepared'[n] = source /\ modules'[n] = source
          BY <1>2, <2>3, <3>1, <4>1 DEF EngineTypeOK
        <5> QED
          BY <1>1, <3>1, <5>1 DEF source
      <4>2. CASE ~Loads(First, source)
        <5>1. lastMod[First] = dir[First].mtime
          BY <1>1, <2>1, <2>5, <3>1, <4>2 DEF UpToDate
        <5> QED
          BY <1>3, <1>6, <2>2, <5>1
      <4> QED
        BY <4>1, <4>2
    <3>2. CASE n # First
      <4>1. n \notin missed /\ lastMod'[n] = lastMod[n]
        BY <1>2, <2>1, <2>5, <3>2 DEF IInv, TypeOK
      <4>2. UpToDate(n)
        BY <1>1, <2>5, <4>1 DEF UpToDate, Present
      <4>3. prepared[n] = dir[n].content /\ modules[n] = dir[n].content
        BY <4>1, <4>2 DEF IInv, Enforced
      <4>4. modules'[n] = modules[n] /\ prepared'[n] \in {modules[n], prepared[n]}
        BY <1>2, <2>3, <3>2 DEF EngineTypeOK
      <4> QED
        BY <1>1, <4>3, <4>4
    <3> QED
      BY <3>1, <3>2
  <2>6. Held'
    BY <1>2, <2>2, <2>3 DEF IInv, Held, EngineTypeOK
  <2> QED
    BY <1>4, <2>4, <2>5, <2>6 DEF IInv, Enforced
<1> QED
  BY <1>5, <1>6

\* A time that is dropped is no file's.
LEMMA PruneKeeps == IInv /\ Prune => IInv'
<1> SUFFICES ASSUME IInv, Prune PROVE IInv'
  OBVIOUS
<1> USE DEF Prune, engineVars
<1>1. edits \in Nat
  BY PolicyReloadAssumption DEF IInv, TypeOK
<1>2. TypeOK'
  BY <1>1 DEF IInv, TypeOK, EngineTypeOK, Phases
<1>3. Startup' /\ Reloading'
  BY DEF IInv, Startup, Reloading
<1>4. ASSUME NEW n \in Names \ missed', UpToDate(n)'
      PROVE  prepared'[n] = dir'[n].content /\ modules'[n] = dir'[n].content
  <2>1. n \notin missed /\ n \in Present /\ lastMod'[n] = dir[n].mtime
    BY <1>4 DEF UpToDate, Present
  <2>2. dir[n].mtime # 0
    BY <1>1, <2>1, PresentFiles DEF Present, IInv, TypeOK
  <2>3. UpToDate(n)
    BY <2>1, <2>2 DEF UpToDate
  <2> QED
    BY <2>1, <2>3 DEF IInv, Enforced
<1>5. Enforced' /\ Held'
  BY <1>4 DEF IInv, Enforced, Held
<1> QED
  BY <1>2, <1>3, <1>5 DEF IInv

\* The watcher stops and leaves everything as it is.
LEMMA StopWatchingKeeps == IInv /\ StopWatching => IInv'
<1> SUFFICES ASSUME IInv, StopWatching PROVE IInv'
  OBVIOUS
<1> USE DEF StopWatching, engineVars
<1>1. TypeOK'
  BY DEF IInv, TypeOK, EngineTypeOK, Phases
<1>2. Startup' /\ Reloading'
  BY DEF IInv, Startup, Reloading
<1>3. Enforced' /\ Held'
  BY DEF IInv, Enforced, Held, UpToDate, Present
<1> QED
  BY <1>1, <1>2, <1>3 DEF IInv

-----------------------------------------------------------------------------
(* The edits.                                                               *)

\* An edit that puts file f, no file or one newer than all before, in place of n's.
LEMMA EditKeeps ==
  ASSUME IInv, edits <= MaxWrites, edits' = edits + 1,
         UNCHANGED <<engineVars, watchVars>>,
         NEW n \in Names,
         NEW f \in {NoFile} \cup [content : Contents, mtime : {edits + 1}],
         dir' = [dir EXCEPT ![n] = f]
  PROVE  IInv'
<1> USE DEF engineVars, watchVars
<1>1. edits \in Nat /\ edits \in 1..(MaxWrites + 1) /\ MaxWrites \in Nat
  BY PolicyReloadAssumption DEF IInv, TypeOK
<1>2. /\ edits' \in 1..(MaxWrites + 1)
      /\ 1..edits \subseteq 1..edits' /\ 0..edits \subseteq 0..edits'
      /\ edits + 1 \in 1..edits'
  BY <1>1
<1>3. f = NoFile \/ f.mtime = edits + 1
  OBVIOUS
<1>4. TypeOK'
  <2>1. dir' \in [Names -> {NoFile} \cup [content : Contents, mtime : 1..edits']]
    BY <1>2 DEF IInv, TypeOK
  <2>2. batch' \in [Names -> {NoFile} \cup [content : Contents, mtime : 1..edits']]
    BY <1>2 DEF IInv, TypeOK
  <2>3. lastMod' \in [Names -> 0..edits'] /\ info' \in 0..edits'
    BY <1>2 DEF IInv, TypeOK
  <2> QED
    BY <1>2, <2>1, <2>2, <2>3 DEF IInv, TypeOK, EngineTypeOK
<1>5. Startup'
  BY DEF IInv, Startup
<1>6. Reloading'
  <2> SUFFICES ASSUME phase = "reload" PROVE Reloading'
    BY DEF Reloading
  <2>1. First' = First /\ First \in Names
    BY FirstIsIn DEF First, IInv, TypeOK
  <2>2. info > lastMod[First] /\ info \in 0..edits
    BY DEF IInv, Reloading, TypeOK
  <2>3. First \in Present' => dir'[First].mtime >= info
    <3>1. CASE n = First
      BY <1>1, <1>3, <2>1, <2>2, <3>1 DEF Present, IInv, TypeOK
    <3>2. CASE n # First
      BY <2>1, <3>2 DEF Present, IInv, Reloading, TypeOK
    <3> QED
      BY <3>1, <3>2
  <2> QED
    BY <2>1, <2>2, <2>3 DEF Reloading
<1>7. ASSUME NEW k \in Names \ missed', UpToDate(k)'
      PROVE  prepared'[k] = dir'[k].content /\ modules'[k] = dir'[k].content
  <2>1. k # n
    <3> SUFFICES ASSUME k = n PROVE FALSE
      OBVIOUS
    <3>1. dir'[n] = f
      BY DEF IInv, TypeOK
    <3>2. lastMod[n] = edits + 1
      BY <1>3, <1>7, <3>1 DEF UpToDate, Present
    <3>3. lastMod[n] \in 0..edits
      BY DEF IInv, TypeOK
    <3> QED
      BY <1>1, <3>2, <3>3
  <2>2. dir'[k] = dir[k]
    BY <2>1 DEF IInv, TypeOK
  <2>3. UpToDate(k)
    BY <1>7, <2>2 DEF UpToDate, Present
  <2> QED
    BY <2>2, <2>3 DEF IInv, Enforced
<1>8. Enforced' /\ Held'
  BY <1>7 DEF IInv, Enforced, Held
<1> QED
  BY <1>4, <1>5, <1>6, <1>8 DEF IInv

-----------------------------------------------------------------------------
(* The theorems.                                                            *)

\* IInv is kept by every step.
THEOREM Inductive == Spec => []IInv
<1>1. Init => IInv
  BY InitIInv
<1>2. IInv /\ [Next]_vars => IInv'
  <2> SUFFICES ASSUME IInv, [Next]_vars PROVE IInv'
    OBVIOUS
  <2>1. CASE Watcher
    BY <2>1, ListDirKeeps, ReadPolicyKeeps, ReadDoneKeeps, LoadNextKeeps,
       StartWatchingKeeps, ListBaselineKeeps, StatBaselineKeeps, BaselineDoneKeeps,
       StartScanKeeps, StatFileKeeps, ReloadKeeps, PruneKeeps
    DEF Watcher
  <2>2. CASE StopWatching
    BY <2>2, StopWatchingKeeps
  <2>3. CASE Edit
    <3>1. ASSUME NEW n \in Names, RemoveFile(n) PROVE IInv'
      BY <3>1, EditKeeps DEF RemoveFile
    <3>2. ASSUME NEW n \in Names, NEW source \in Contents, WriteFile(n, source)
          PROVE  IInv'
      BY <3>2, EditKeeps DEF WriteFile
    <3> QED
      BY <2>3, <3>1, <3>2 DEF Edit
  <2>4. CASE UNCHANGED vars
    <3> USE <2>4 DEF vars, engineVars, watchVars
    <3>1. TypeOK' /\ Startup' /\ Reloading'
      BY DEF IInv, TypeOK, EngineTypeOK, Startup, Reloading, First, Present
    <3>2. Enforced' /\ Held'
      BY DEF IInv, Enforced, Held, UpToDate, Present
    <3> QED
      BY <3>1, <3>2 DEF IInv
  <2> QED
    BY <2>1, <2>2, <2>3, <2>4 DEF Next
<1> QED
  BY <1>1, <1>2, PTL DEF Spec

\* The variables keep their types.
THEOREM TypeCorrect == Spec => []TypeOK
<1>1. IInv => TypeOK
  BY DEF IInv
<1> QED
  BY <1>1, Inductive, PTL

\* A file whose recorded modification time is the directory's is enforced as it
\* stands there, for any number of files and edits, save those written in the gap
\* of the startup (proxy.go:240-267, 284-309).
THEOREM UpToDateEnforced == Spec => []UpToDateIsEnforced
<1>1. IInv => UpToDateIsEnforced
  BY DEF IInv, Enforced, UpToDateIsEnforced
<1> QED
  BY <1>1, Inductive, PTL

\* No step takes a policy out of the query: a load that fails leaves the query as it
\* was, and one that succeeds prepares it from all modules (engine.go:24-46).
THEOREM NothingIsUnloaded == Spec => NothingUnloads
<1> DEFINE Keeps == \A n \in Names : prepared[n] # NoModule => prepared'[n] # NoModule
<1>1. IInv /\ IInv' /\ [Next]_vars => [Keeps]_vars
  <2> SUFFICES ASSUME IInv, Next PROVE Keeps
    BY DEF vars
  <2>1. CASE LoadNext
    <3>1. PICK n \in todo : LoadPolicy(n, batch[n].content)
      BY <2>1 DEF LoadNext
    <3>2. n \in Names /\ EngineTypeOK /\ edits \in Nat /\ batch[n] # NoFile
      BY <2>1, PolicyReloadAssumption DEF LoadNext, IInv, TypeOK, Startup
    <3>3. batch[n].content \in Contents
      BY <3>2, PresentFiles DEF IInv, TypeOK
    <3> QED
      BY <3>1, <3>2, <3>3, LoadKeepsQuery DEF IInv
  <2>2. CASE Reload
    <3>1. First \in Names /\ EngineTypeOK /\ edits \in Nat
      BY <2>2, FirstIsIn, EditsCount DEF Reload, IInv, TypeOK
    <3>2. CASE First \in Present
      <4>1. dir[First].content \in Contents /\ LoadPolicy(First, dir[First].content)
        BY <2>2, <3>1, <3>2, PresentFiles DEF IInv, TypeOK, Present, Reload
      <4> QED
        BY <3>1, <4>1, LoadKeepsQuery DEF IInv
    <3>3. CASE First \notin Present
      BY <2>2, <3>3 DEF Reload, engineVars
    <3> QED
      BY <3>2, <3>3
  <2>3. CASE ~LoadNext /\ ~Reload
    <3>1. UNCHANGED prepared
      BY <2>3 DEF Next, Watcher, ListDir, ReadPolicy, ReadDone, StartWatching,
         ListBaseline, StatBaseline, BaselineDone, StartScan, StatFile, Prune,
         StopWatching, Edit, RemoveFile, WriteFile, engineVars
    <3> QED
      BY <3>1
  <2> QED
    BY <2>1, <2>2, <2>3
<1> QED
  BY <1>1, Inductive, PTL DEF Spec, NothingUnloads
=============================================================================
