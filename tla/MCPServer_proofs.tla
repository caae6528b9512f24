--------------------------- MODULE MCPServer_proofs ---------------------------
(***************************************************************************)
(* Proofs about MCPServer: its types, that the verdicts it gives are those *)
(* of the policies of the directory together, and that every request is    *)
(* answered once at most.                                                  *)
(***************************************************************************)
EXTENDS MCPServer, FiniteSetTheorems, TLAPS

-----------------------------------------------------------------------------
(* The inductive invariant.                                                 *)

\* What the engine holds once the files outside toLoad have been loaded.
Loaded == [n \in Names |-> IF n \in toLoad THEN NoModule ELSE Parsed[n]]

\* The engine follows the directory, as long as its policies compile together.
Loading ==
  Compiles(Parsed) => modules = Loaded /\ prepared = Loaded

\* A goroutine runs only for a line that has a handler, and only once the policies
\* are loaded; what it has computed is an answer, a decision is that of a test, and it
\* is the directory's.
Handling ==
  /\ server = "loading" => \A l \in Lines : handler[l] = "none"
  /\ \A l \in Lines :
       handler[l] # "none" => KindOf[l] \in {"foreign", "unknown", "status", "test"}
  /\ \A l \in Lines : handler[l] = "handled" => answer[l] # NoAnswer
  /\ \A l \in Lines : answer[l] \in Decisions => KindOf[l] = "test"
  /\ Compiles(Parsed) =>
       \A l \in Lines : answer[l] \in Decisions => answer[l] = Decide(Parsed, ToolOf[l])

\* A line is in standard input once, and has a goroutine only after it has left it.
Scanned ==
  /\ \A i, j \in 1..Len(pipe) : pipe[i] = pipe[j] => i = j
  /\ ToSet(pipe) \subseteq sent
  /\ \A l \in Lines : handler[l] # "none" => l \in sent \ ToSet(pipe)

\* An answer with an id is that of a goroutine that is done, and the only one of it.
Responded ==
  /\ \A i \in 1..Len(out) : out[i][1] # NoId => handler[out[i][1]] = "done"
  /\ \A i, j \in 1..Len(out) : i # j /\ out[i][1] = out[j][1] => out[i][1] = NoId

\* The answers without an id.
Nulls == {i \in 1..Len(out) : out[i][1] = NoId}

\* There are as many of them as lines they are for.
Refused ==
  /\ IsFiniteSet(Unnamed)
  /\ Cardinality(Nulls) = Cardinality(Unnamed)

IInv ==
  /\ TypeOK /\ Loading /\ Handling /\ Scanned /\ Responded /\ Refused
  /\ VerdictsMatchDirectory
-----------------------------------------------------------------------------
(* Lemmas about sequences and about the engine.                             *)

\* What Append makes of a sequence.
LEMMA Appended ==
  ASSUME NEW T, NEW s \in Seq(T), NEW e \in T, NEW t, t = Append(s, e)
  PROVE  /\ t \in Seq(T) /\ Len(s) \in Nat /\ Len(t) = Len(s) + 1
         /\ \A i \in 1..Len(t) : i \in 1..Len(s) \/ i = Len(t)
         /\ \A i \in 1..Len(s) : i \in 1..Len(t) /\ i # Len(t) /\ t[i] = s[i]
         /\ Len(t) \in 1..Len(t) /\ t[Len(t)] = e
<1>1. /\ t \in Seq(T) /\ Len(s) \in Nat /\ Len(t) = Len(s) + 1
      /\ \A i \in 1..Len(s) : t[i] = s[i]
      /\ t[Len(s) + 1] = e
      /\ DOMAIN s = 1..Len(s) /\ DOMAIN t = 1..Len(t)
  OBVIOUS
<1>2. /\ \A i \in 1..Len(t) : i \in 1..Len(s) \/ i = Len(t)
      /\ \A i \in 1..Len(s) : i \in 1..Len(t) /\ i # Len(t)
      /\ Len(t) \in 1..Len(t)
  BY <1>1
<1>3. t[Len(t)] = e
  BY <1>1
<1> QED
  BY <1>1, <1>2, <1>3

\* It has one element more.
LEMMA AppendedSet ==
  ASSUME NEW T, NEW s \in Seq(T), NEW e \in T
  PROVE  ToSet(Append(s, e)) = ToSet(s) \cup {e}
<1> DEFINE t == Append(s, e)
<1>1. /\ Len(s) \in Nat /\ Len(t) = Len(s) + 1
      /\ \A i \in 1..Len(s) : t[i] = s[i]
      /\ t[Len(s) + 1] = e
      /\ DOMAIN s = 1..Len(s) /\ DOMAIN t = 1..Len(t)
  OBVIOUS
<1> HIDE DEF t
<1>2. /\ \A i \in 1..Len(t) : i \in 1..Len(s) \/ i = Len(t)
      /\ \A i \in 1..Len(s) : i \in 1..Len(t)
      /\ Len(t) \in 1..Len(t) /\ t[Len(t)] = e
  BY <1>1
<1>3. ASSUME NEW x \in ToSet(t) PROVE x \in ToSet(s) \cup {e}
  <2>1. PICK i \in 1..Len(t) : x = t[i]
    BY <1>1, <1>3 DEF ToSet
  <2> QED
    BY <1>1, <1>2, <2>1 DEF ToSet
<1>4. ASSUME NEW x \in ToSet(s) \cup {e} PROVE x \in ToSet(t)
  <2>1. CASE x \in ToSet(s)
    <3>1. PICK i \in 1..Len(s) : x = s[i]
      BY <1>1, <2>1 DEF ToSet
    <3> QED
      BY <1>1, <1>2, <3>1 DEF ToSet
  <2>2. CASE x = e
    BY <1>1, <1>2, <2>2 DEF ToSet
  <2> QED
    BY <1>4, <2>1, <2>2
<1> QED
  BY <1>3, <1>4 DEF t

\* What Tail leaves of a sequence of different elements.
LEMMA Tailed ==
  ASSUME NEW T, NEW s \in Seq(T), s # <<>>,
         \A i, j \in 1..Len(s) : s[i] = s[j] => i = j
  PROVE  /\ Tail(s) \in Seq(T) /\ Head(s) \in T /\ Head(s) \in ToSet(s)
         /\ \A i, j \in 1..Len(Tail(s)) : Tail(s)[i] = Tail(s)[j] => i = j
         /\ ToSet(Tail(s)) = ToSet(s) \ {Head(s)}
<1> DEFINE t == Tail(s)
<1>1. /\ t \in Seq(T) /\ Len(s) \in Nat /\ Len(s) >= 1 /\ Len(t) = Len(s) - 1
      /\ \A i \in 1..Len(t) : t[i] = s[i + 1]
      /\ Head(s) = s[1] /\ Head(s) \in T
      /\ DOMAIN s = 1..Len(s) /\ DOMAIN t = 1..Len(t)
  OBVIOUS
<1> HIDE DEF t
<1>2. /\ 1 \in 1..Len(s)
      /\ \A i \in 1..Len(t) : i + 1 \in 1..Len(s) /\ i + 1 # 1
      /\ \A i \in 1..Len(s) : i = 1 \/ (i - 1 \in 1..Len(t) /\ (i - 1) + 1 = i)
      /\ \A i, j \in 1..Len(t) : i + 1 = j + 1 => i = j
  BY <1>1
<1>3. \A i, j \in 1..Len(t) : t[i] = t[j] => i = j
  BY <1>1, <1>2
<1>4. ASSUME NEW x \in ToSet(t) PROVE x \in ToSet(s) /\ x # Head(s)
  <2>1. PICK i \in 1..Len(t) : x = t[i]
    BY <1>1, <1>4 DEF ToSet
  <2>2. x = s[i + 1] /\ i + 1 \in 1..Len(s) /\ i + 1 # 1
    BY <1>1, <1>2, <2>1
  <2> QED
    BY <1>1, <1>2, <2>2 DEF ToSet
<1>5. ASSUME NEW x \in ToSet(s), x # Head(s) PROVE x \in ToSet(t)
  <2>1. PICK i \in 1..Len(s) : x = s[i]
    BY <1>1, <1>5 DEF ToSet
  <2>2. i - 1 \in 1..Len(t) /\ (i - 1) + 1 = i
    BY <1>1, <1>2, <1>5, <2>1
  <2>3. t[i - 1] = x
    BY <1>1, <2>1, <2>2
  <2> QED
    BY <1>1, <2>2, <2>3 DEF ToSet
<1>6. Head(s) \in ToSet(s)
  BY <1>1, <1>2 DEF ToSet
<1> QED
  BY <1>1, <1>3, <1>4, <1>5, <1>6 DEF t

\* Modules that compile together still do with some of them left out.
LEMMA FewerCompile ==
  ASSUME NEW mods, NEW fewer, Compiles(mods),
         \A n \in Names : fewer[n] \in {NoModule, mods[n]}
  PROVE  Compiles(fewer)
<1>1. NoModule.health # "compile" /\ NoModule.default = "none"
  BY DEF NoModule
<1> QED
  BY <1>1 DEF Compiles

\* Every tool call is decided.
LEMMA Decides == ASSUME NEW mods, NEW tool PROVE Decide(mods, tool) \in Decisions
BY DEF Decide, Decisions

\* A decision is neither an error nor a status, nor nothing.
LEMMA NoDecision ==
  /\ "parse error" \notin Decisions /\ "method not found" \notin Decisions
  /\ "internal error" \notin Decisions /\ "status" \notin Decisions
  /\ NoAnswer \notin Decisions
BY DEF Decisions, NoAnswer

\* A source that parses is not taken for no file.
LEMMA SourceIsModule == \A c \in Contents : c # NoModule
BY PolicyEngineAssumption DEF Sources, NoModule

-----------------------------------------------------------------------------
(* The initial states.                                                      *)

\* They satisfy the invariant: nothing is loaded, sent or answered.
LEMMA InitIInv == Init => IInv
<1> SUFFICES ASSUME Init PROVE IInv
  OBVIOUS
<1> USE DEF Init
<1>1. /\ pipe = <<>> /\ pipe \in Seq(Lines) /\ Len(pipe) = 0 /\ ToSet(pipe) = {}
      /\ out = <<>> /\ Len(out) = 0
      /\ out \in Seq((Lines \cup {NoId}) \X (Errors \cup Decisions \cup {"status"}))
  BY DEF ToSet
<1>2. TypeOK
  BY <1>1 DEF TypeOK, EngineInit, EngineTypeOK, NoModules
<1>3. Loading
  <2>1. Loaded = NoModules
    <3>1. ASSUME NEW n \in Names, n \notin toLoad PROVE Parsed[n] = NoModule
      BY <3>1 DEF Parsed
    <3> QED
      BY <3>1 DEF Loaded, NoModules
  <2> QED
    BY <2>1 DEF Loading, EngineInit
<1>4. Handling
  BY NoDecision DEF Handling
<1>5. Scanned /\ Responded
  BY <1>1 DEF Scanned, Responded
<1>6. Refused
  <2>1. Nulls = {} /\ Unnamed = {}
    BY <1>1 DEF Nulls, Unnamed
  <2> QED
    BY <2>1, FS_EmptySet DEF Refused
<1>7. VerdictsMatchDirectory
  BY <1>1 DEF VerdictsMatchDirectory
<1> QED
  BY <1>2, <1>3, <1>4, <1>5, <1>6, <1>7 DEF IInv

-----------------------------------------------------------------------------
(* The loop over the policies.                                              *)

\* A file is loaded on top of those before it: if they all compile together, so do
\* these.
LEMMA LoadNextKeeps == \A n \in Names : IInv /\ LoadNext(n) => IInv'
<1> SUFFICES ASSUME NEW n \in Names, IInv, LoadNext(n) PROVE IInv'
  OBVIOUS
<1>1. /\ server = "loading" /\ n \in toLoad /\ LoadPolicy(n, dir[n])
      /\ toLoad' = toLoad \ {n}
      /\ UNCHANGED <<dir, server, pipe, sent, closed, handler, answer, out>>
  BY DEF LoadNext
<1>2. Parsed' = Parsed
  BY <1>1 DEF Parsed
<1>3. EngineTypeOK'
  BY <1>1 DEF LoadPolicy, IInv, TypeOK, EngineTypeOK
<1>4. TypeOK'
  BY <1>1, <1>3 DEF IInv, TypeOK
<1>5. Loading'
  <2> SUFFICES ASSUME Compiles(Parsed) PROVE modules' = Loaded' /\ prepared' = Loaded'
    BY <1>2 DEF Loading
  <2>1. modules = Loaded /\ prepared = Loaded
    BY DEF IInv, Loading
  <2>2. Loaded' = [k \in Names |-> IF k \in toLoad \ {n} THEN NoModule ELSE Parsed[k]]
    BY <1>1, <1>2 DEF Loaded
  <2>3. CASE dir[n].health = "syntax"
    <3>1. Parsed[n] = NoModule
      BY <2>3 DEF Parsed
    <3>2. Loaded' = Loaded
      BY <1>1, <2>2, <3>1 DEF Loaded
    <3> QED
      BY <1>1, <2>1, <2>3, <3>2 DEF LoadPolicy, Loads
  <2>4. CASE dir[n].health # "syntax"
    <3>1. Parsed[n] = dir[n]
      BY <2>4 DEF Parsed
    <3>2. Loaded' = [modules EXCEPT ![n] = dir[n]]
      BY <1>1, <2>1, <2>2, <3>1 DEF Loaded
    <3>3. \A k \in Names : Loaded'[k] \in {NoModule, Parsed[k]}
      BY <2>2
    <3>4. Compiles(Loaded')
      BY <3>3, FewerCompile
    <3>5. Loads(n, dir[n])
      BY <2>4, <3>2, <3>4 DEF Loads
    <3> QED
      BY <1>1, <2>4, <3>2, <3>5 DEF LoadPolicy
  <2> QED
    BY <2>3, <2>4
<1>6. Handling'
  BY <1>1, <1>2 DEF IInv, Handling
<1>7. Scanned' /\ Responded'
  BY <1>1 DEF IInv, Scanned, Responded
<1>8. Refused'
  BY <1>1 DEF IInv, Refused, Nulls, Unnamed
<1>9. VerdictsMatchDirectory'
  BY <1>1, <1>2 DEF IInv, VerdictsMatchDirectory
<1> QED
  BY <1>4, <1>5, <1>6, <1>7, <1>8, <1>9 DEF IInv

\* What the steps that touch neither the engine nor an answer have in common.
LEMMA QuietStep ==
  ASSUME IInv, UNCHANGED <<engineVars, dir, toLoad, handler, answer, out>>,
         TypeOK', Scanned', Unnamed' = Unnamed,
         server' = "loading" => server = "loading", server' # "panic"
  PROVE  IInv'
<1> USE DEF engineVars
<1>1. Parsed' = Parsed /\ Loaded' = Loaded
  BY DEF Parsed, Loaded
<1>2. Loading' /\ Handling'
  BY <1>1 DEF IInv, Loading, Handling
<1>3. Responded'
  BY DEF IInv, Responded
<1>4. Refused'
  <2>1. Nulls' = Nulls
    BY DEF Nulls
  <2> QED
    BY <2>1 DEF IInv, Refused
<1>5. VerdictsMatchDirectory'
  BY <1>1 DEF IInv, VerdictsMatchDirectory
<1> QED
  BY <1>2, <1>3, <1>4, <1>5 DEF IInv

\* Serving starts when all has been loaded.
LEMMA StartServingKeeps == IInv /\ StartServing => IInv'
<1> SUFFICES ASSUME IInv, StartServing PROVE IInv'
  OBVIOUS
<1> USE DEF StartServing, engineVars
<1>1. TypeOK' /\ Scanned'
  BY DEF IInv, TypeOK, EngineTypeOK, Scanned
<1>2. Unnamed' = Unnamed
  BY DEF Unnamed
<1> QED
  BY <1>1, <1>2, QuietStep

-----------------------------------------------------------------------------
(* The reading loop.                                                        *)

\* A line is taken off standard input: a broken one is answered and counted, one
\* with a handler gets its goroutine.
LEMMA ScanLineKeeps == IInv /\ ScanLine => IInv'
<1> SUFFICES ASSUME IInv, ScanLine PROVE IInv'
  OBVIOUS
<1> DEFINE l == Head(pipe)
           T == (Lines \cup {NoId}) \X (Errors \cup Decisions \cup {"status"})
           e == <<NoId, "parse error">>
<1>1. /\ server = "reading" /\ pipe # <<>> /\ KindOf[l] # "long"
      /\ pipe' = Tail(pipe)
      /\ out' = IF KindOf[l] = "broken" THEN Append(out, e) ELSE out
      /\ handler' = IF KindOf[l] \in {"blank", "broken"} THEN handler
                    ELSE [handler EXCEPT ![l] = "started"]
      /\ UNCHANGED <<engineVars, dir, toLoad, server, sent, closed, answer>>
  BY DEF ScanLine
<1>2. /\ pipe \in Seq(Lines) /\ out \in Seq(T)
      /\ handler \in [Lines -> {"none", "started", "handled", "done"}]
  BY DEF IInv, TypeOK
<1>3. /\ pipe' \in Seq(Lines) /\ l \in Lines /\ l \in ToSet(pipe)
      /\ \A i, j \in 1..Len(pipe') : pipe'[i] = pipe'[j] => i = j
      /\ ToSet(pipe') = ToSet(pipe) \ {l}
  <2>1. \A i, j \in 1..Len(pipe) : pipe[i] = pipe[j] => i = j
    BY DEF IInv, Scanned
  <2>2. pipe # <<>> /\ pipe' = Tail(pipe)
    BY <1>1
  <2> HIDE DEF l, T, e
  <2>3. /\ Tail(pipe) \in Seq(Lines) /\ Head(pipe) \in Lines /\ Head(pipe) \in ToSet(pipe)
        /\ \A i, j \in 1..Len(Tail(pipe)) : Tail(pipe)[i] = Tail(pipe)[j] => i = j
        /\ ToSet(Tail(pipe)) = ToSet(pipe) \ {Head(pipe)}
    BY <1>2, <2>1, <2>2, Tailed
  <2> QED
    BY <2>2, <2>3 DEF l
<1>4. l \in sent /\ handler[l] = "none"
  BY <1>3 DEF IInv, Scanned
<1>5. KindOf[l] \in Kinds /\ l # NoId
  BY <1>3, MCPServerAssumption
<1>6. e \in T
  BY DEF Errors
<1> HIDE DEF l, T, e
<1>7. Parsed' = Parsed /\ Loaded' = Loaded
  BY <1>1 DEF Parsed, Loaded
<1>8. /\ handler' \in [Lines -> {"none", "started", "handled", "done"}]
      /\ \A k \in Lines \ {l} : handler'[k] = handler[k]
      /\ handler'[l] = "none" \/
           (handler'[l] = "started" /\ KindOf[l] \notin {"blank", "broken", "long"})
  BY <1>1, <1>2, <1>3, <1>4
<1>9. out' \in Seq(T)
  BY <1>1, <1>2, <1>6
<1>10. TypeOK'
  BY <1>1, <1>2, <1>3, <1>8, <1>9 DEF IInv, TypeOK, T, engineVars, EngineTypeOK
<1>11. Loading' /\ Handling'
  <2>1. Loading'
    BY <1>1, <1>7 DEF IInv, Loading, engineVars
  <2>2. ASSUME NEW k \in Lines, handler'[k] # "none"
        PROVE  KindOf[k] \in {"foreign", "unknown", "status", "test"}
    BY <1>3, <1>5, <1>8, <2>2 DEF IInv, Handling, Kinds
  <2>3. ASSUME NEW k \in Lines, handler'[k] = "handled" PROVE answer'[k] # NoAnswer
    BY <1>1, <1>3, <1>8, <2>3 DEF IInv, Handling
  <2> QED
    BY <1>1, <1>7, <2>1, <2>2, <2>3 DEF IInv, Handling
<1>12. Scanned'
  BY <1>1, <1>3, <1>4, <1>8 DEF IInv, Scanned
<1>13. CASE KindOf[l] = "broken"
  <2>1. /\ out' \in Seq(T) /\ Len(out) \in Nat /\ Len(out') = Len(out) + 1
        /\ \A i \in 1..Len(out') : i \in 1..Len(out) \/ i = Len(out')
        /\ \A i \in 1..Len(out) : i \in 1..Len(out') /\ i # Len(out') /\ out'[i] = out[i]
        /\ Len(out') \in 1..Len(out') /\ out'[Len(out')] = e
    BY <1>1, <1>2, <1>6, <1>13, Appended
  <2>2. e[1] = NoId /\ e[2] = "parse error"
    BY DEF e
  <2>3. handler' = handler
    BY <1>1, <1>13
  <2>4. Responded'
    <3>1. ASSUME NEW i \in 1..Len(out'), out'[i][1] # NoId
          PROVE  handler'[out'[i][1]] = "done"
      <4>1. i \in 1..Len(out)
        BY <2>1, <2>2, <3>1
      <4> QED
        BY <2>1, <2>3, <3>1, <4>1 DEF IInv, Responded
    <3>2. ASSUME NEW i \in 1..Len(out'), NEW j \in 1..Len(out'), i # j,
                 out'[i][1] = out'[j][1]
          PROVE  out'[i][1] = NoId
      <4>1. CASE i \in 1..Len(out) /\ j \in 1..Len(out)
        <5>1. out'[i] = out[i] /\ out'[j] = out[j]
          BY <2>1, <4>1
        <5>2. out[i][1] = NoId
          BY <3>2, <4>1, <5>1 DEF IInv, Responded
        <5> QED
          BY <5>1, <5>2
      <4>2. CASE i = Len(out') \/ j = Len(out')
        BY <2>1, <2>2, <3>2, <4>2
      <4> QED
        BY <2>1, <4>1, <4>2
    <3> QED
      BY <3>1, <3>2 DEF Responded
  <2>5. Refused'
    <3>1. Nulls' = Nulls \cup {Len(out')} /\ Len(out') \notin Nulls
      BY <2>1, <2>2 DEF Nulls
    <3>2. Unnamed' = Unnamed \cup {l} /\ l \notin Unnamed
      BY <1>1, <1>3, <1>4, <1>13, <2>3 DEF Unnamed
    <3>3. IsFiniteSet(Nulls)
      <4>1. Nulls \in SUBSET (1..Len(out)) /\ IsFiniteSet(1..Len(out))
        BY <2>1, FS_Interval DEF Nulls
      <4> QED
        BY <4>1, FS_Subset
    <3>4. IsFiniteSet(Unnamed) /\ Cardinality(Nulls) = Cardinality(Unnamed)
      BY DEF IInv, Refused
    <3>5. /\ IsFiniteSet(Unnamed')
          /\ Cardinality(Unnamed') = Cardinality(Unnamed) + 1
      BY <3>2, <3>4, FS_AddElement
    <3>6. Cardinality(Nulls') = Cardinality(Nulls) + 1
      BY <3>1, <3>3, FS_AddElement
    <3> QED
      BY <3>4, <3>5, <3>6 DEF Refused
  <2>6. VerdictsMatchDirectory'
    <3>1. ASSUME Compiles(Parsed), NEW i \in 1..Len(out'), out'[i][2] \in Decisions
          PROVE  \E k \in Lines : /\ IdOf(k) = out'[i][1] /\ KindOf[k] = "test"
                                  /\ out'[i][2] = Decide(Parsed, ToolOf[k])
      <4>1. i \in 1..Len(out) /\ out'[i] = out[i]
        BY <2>1, <2>2, <3>1, NoDecision
      <4>2. \E k \in Lines : /\ IdOf(k) = out[i][1] /\ KindOf[k] = "test"
                             /\ out[i][2] = Decide(Parsed, ToolOf[k])
        BY <3>1, <4>1 DEF IInv, VerdictsMatchDirectory
      <4> QED
        BY <4>1, <4>2
    <3> QED
      BY <1>1, <1>7, <3>1 DEF IInv, VerdictsMatchDirectory
  <2> QED
    BY <1>10, <1>11, <1>12, <2>4, <2>5, <2>6 DEF IInv
<1>14. CASE KindOf[l] # "broken"
  <2>1. out' = out
    BY <1>1, <1>14
  <2>2. Responded'
    <3>1. ASSUME NEW i \in 1..Len(out), out[i][1] # NoId
          PROVE  handler'[out[i][1]] = "done"
      <4>1. handler[out[i][1]] = "done" /\ out[i] \in T
        BY <1>2, <3>1 DEF IInv, Responded
      <4>2. out[i][1] \in Lines /\ out[i][1] # l
        BY <1>4, <3>1, <4>1 DEF T
      <4> QED
        BY <1>8, <4>1, <4>2
    <3> QED
      BY <2>1, <3>1 DEF IInv, Responded
  <2>3. Refused'
    <3>1. Nulls' = Nulls
      BY <2>1 DEF Nulls
    <3>2. Unnamed' = Unnamed
      BY <1>1, <1>3, <1>4, <1>8, <1>14 DEF IInv, TypeOK, Unnamed
    <3> QED
      BY <3>1, <3>2 DEF IInv, Refused
  <2>4. VerdictsMatchDirectory'
    BY <1>1, <1>7, <2>1 DEF IInv, VerdictsMatchDirectory
  <2> QED
    BY <1>10, <1>11, <1>12, <2>2, <2>3, <2>4 DEF IInv
<1> QED
  BY <1>13, <1>14

\* Serve returns: nothing but the process changes.
LEMMA ScanEndsKeeps == IInv /\ ScanEnds => IInv'
<1> SUFFICES ASSUME IInv, ScanEnds PROVE IInv'
  OBVIOUS
<1> USE DEF ScanEnds, engineVars
<1>1. TypeOK' /\ Scanned'
  BY DEF IInv, TypeOK, EngineTypeOK, Scanned
<1>2. Unnamed' = Unnamed
  BY DEF Unnamed
<1> QED
  BY <1>1, <1>2, QuietStep

-----------------------------------------------------------------------------
(* The goroutines.                                                          *)

\* A request is handled: a test is decided by all the policies, since serving starts
\* after the last of them, and the rest is no decision.
LEMMA HandleKeeps == \A l \in Lines : IInv /\ Handle(l) => IInv'
<1> SUFFICES ASSUME NEW l \in Lines, IInv, Handle(l) PROVE IInv'
  OBVIOUS
<1>1. /\ Running /\ handler[l] = "started"
      /\ UNCHANGED <<engineVars, dir, toLoad, pipe, sent, closed, out>>
  BY DEF Handle
<1>2. Parsed' = Parsed /\ Loaded' = Loaded
  BY <1>1 DEF Parsed, Loaded
<1>3. /\ KindOf[l] \in {"foreign", "unknown", "status", "test"}
      /\ server = "reading" /\ toLoad = {}
      /\ handler \in [Lines -> {"none", "started", "handled", "done"}]
      /\ answer \in [Lines -> Errors \cup Decisions \cup {"status", NoAnswer}]
  BY <1>1 DEF IInv, TypeOK, Handling, Running
<1>4. Loaded = Parsed
  BY <1>3 DEF Loaded, Parsed
<1>5. Compiles(Parsed) => prepared = Parsed
  BY <1>4 DEF IInv, Loading
<1>6. Loading'
  BY <1>1, <1>2 DEF IInv, Loading, engineVars
<1>7. CASE KindOf[l] = "test" /\ Panics(prepared)
  <2>1. server' = "panic" /\ UNCHANGED <<handler, answer>>
    BY <1>7 DEF Handle, TestTool
  <2> USE <1>1, <2>1 DEF engineVars
  <2>2. TypeOK' /\ Scanned' /\ Responded'
    BY <1>3 DEF IInv, TypeOK, EngineTypeOK, Scanned, Responded
  <2>3. Handling'
    BY <1>2 DEF IInv, Handling
  <2>4. Compiles(Parsed) => Parsed = NoModules
    BY <1>5, <1>7 DEF Panics
  <2>6. Refused'
    BY DEF IInv, Refused, Nulls, Unnamed
  <2>5. VerdictsMatchDirectory'
    BY <1>2, <2>4 DEF IInv, VerdictsMatchDirectory
  <2> QED
    BY <1>6, <2>2, <2>3, <2>5, <2>6 DEF IInv
<1>8. CASE ~(KindOf[l] = "test" /\ Panics(prepared))
  <2>1. PICK a \in Errors \cup Decisions \cup {"status"} :
          /\ answer' = [answer EXCEPT ![l] = a]
          /\ a \in Decisions => KindOf[l] = "test" /\ a = Decide(prepared, ToolOf[l])
          /\ handler' = [handler EXCEPT ![l] = "handled"]
          /\ UNCHANGED server
    <3>1. CASE KindOf[l] = "test"
      BY <1>8, <3>1, Decides DEF Handle, TestTool
    <3>2. CASE KindOf[l] # "test"
      <4> DEFINE a == CASE KindOf[l] = "foreign" -> "method not found"
                        [] KindOf[l] = "unknown" -> "internal error"
                        [] KindOf[l] = "status"  -> "status"
      <4>1. a \in {"method not found", "internal error", "status"}
        BY <1>3, <3>2
      <4>2. /\ answer' = [answer EXCEPT ![l] = a]
            /\ handler' = [handler EXCEPT ![l] = "handled"]
            /\ UNCHANGED server
        BY <3>2 DEF Handle
      <4> HIDE DEF a
      <4>3. a \notin Decisions /\ a \in Errors \cup {"status"}
        BY <4>1, NoDecision DEF Errors
      <4> QED
        BY <4>2, <4>3
    <3> QED
      BY <3>1, <3>2
  <2>2. a # NoAnswer
    BY DEF Errors, Decisions, NoAnswer
  <2>3. /\ handler' \in [Lines -> {"none", "started", "handled", "done"}]
        /\ answer' \in [Lines -> Errors \cup Decisions \cup {"status", NoAnswer}]
        /\ handler'[l] = "handled" /\ answer'[l] = a
        /\ \A k \in Lines \ {l} : handler'[k] = handler[k] /\ answer'[k] = answer[k]
    BY <1>3, <2>1
  <2>4. TypeOK'
    BY <1>1, <1>3, <2>1, <2>3 DEF IInv, TypeOK, EngineTypeOK, engineVars
  <2>5. Handling'
    <3>1. ASSUME NEW k \in Lines, handler'[k] # "none"
          PROVE  KindOf[k] \in {"foreign", "unknown", "status", "test"}
      BY <1>3, <2>3, <3>1 DEF IInv, Handling
    <3>2. ASSUME NEW k \in Lines, handler'[k] = "handled" PROVE answer'[k] # NoAnswer
      BY <2>2, <2>3, <3>2 DEF IInv, Handling
    <3>3. ASSUME Compiles(Parsed), NEW k \in Lines, answer'[k] \in Decisions
          PROVE  answer'[k] = Decide(Parsed, ToolOf[k])
      BY <1>5, <2>1, <2>3, <3>3 DEF IInv, Handling
    <3>4. server' # "loading"
      BY <1>3, <2>1
    <3>5. ASSUME NEW k \in Lines, answer'[k] \in Decisions PROVE KindOf[k] = "test"
      BY <2>1, <2>3, <3>5 DEF IInv, Handling
    <3> QED
      BY <1>2, <3>1, <3>2, <3>3, <3>4, <3>5 DEF Handling
  <2>6. Scanned'
    <3>1. l \in sent \ ToSet(pipe)
      BY <1>1 DEF IInv, Scanned
    <3> QED
      BY <1>1, <2>3, <3>1 DEF IInv, Scanned
  <2>7. Responded'
    <3>1. ASSUME NEW i \in 1..Len(out), out[i][1] # NoId
          PROVE  handler'[out[i][1]] = "done"
      <4>1. handler[out[i][1]] = "done"
        BY <3>1 DEF IInv, Responded
      <4>2. out[i] \in (Lines \cup {NoId}) \X (Errors \cup Decisions \cup {"status"})
        BY <3>1 DEF IInv, TypeOK
      <4>3. out[i][1] \in Lines /\ out[i][1] # l
        BY <1>1, <3>1, <4>1, <4>2
      <4> QED
        BY <2>3, <4>1, <4>3
    <3> QED
      BY <1>1, <3>1 DEF IInv, Responded
  <2>8. VerdictsMatchDirectory'
    BY <1>1, <1>2, <1>3, <2>1 DEF IInv, VerdictsMatchDirectory
  <2>9. Refused'
    <3>1. \A k \in Lines : handler'[k] = "done" <=> handler[k] = "done"
      BY <1>1, <2>3
    <3>2. sent \subseteq Lines
      BY DEF IInv, TypeOK
    <3>3. Unnamed' = Unnamed
      BY <1>1, <3>1, <3>2 DEF Unnamed
    <3>4. Nulls' = Nulls
      BY <1>1 DEF Nulls
    <3> QED
      BY <3>3, <3>4 DEF IInv, Refused
  <2> QED
    BY <1>6, <2>4, <2>5, <2>6, <2>7, <2>8, <2>9 DEF IInv
<1> QED
  BY <1>7, <1>8

\* An answer is written, and its goroutine is done with it.
LEMMA RespondKeeps == \A l \in Lines : IInv /\ Respond(l) => IInv'
<1> SUFFICES ASSUME NEW l \in Lines, IInv, Respond(l) PROVE IInv'
  OBVIOUS
<1> DEFINE T == (Lines \cup {NoId}) \X (Errors \cup Decisions \cup {"status"})
           e == <<IdOf(l), answer[l]>>
<1>1. /\ Running /\ handler[l] = "handled"
      /\ out' = Append(out, e)
      /\ handler' = [handler EXCEPT ![l] = "done"]
      /\ UNCHANGED <<engineVars, dir, toLoad, server, pipe, sent, closed, answer>>
  BY DEF Respond
<1>2. /\ out \in Seq(T)
      /\ handler \in [Lines -> {"none", "started", "handled", "done"}]
      /\ answer \in [Lines -> Errors \cup Decisions \cup {"status", NoAnswer}]
  BY DEF IInv, TypeOK
<1>3. /\ e \in T /\ e[1] = IdOf(l) /\ e[2] = answer[l] /\ l # NoId
      /\ IdOf(l) \in {l, NoId}
      /\ IdOf(l) = NoId <=> l \in Anonymous
  BY <1>1, <1>2, MCPServerAssumption DEF IInv, Handling, IdOf
<1> HIDE DEF T, e
<1>4. Parsed' = Parsed /\ Loaded' = Loaded
  BY <1>1 DEF Parsed, Loaded
<1>5. /\ out' \in Seq(T) /\ Len(out) \in Nat /\ Len(out') = Len(out) + 1
      /\ \A i \in 1..Len(out') : i \in 1..Len(out) \/ i = Len(out')
      /\ \A i \in 1..Len(out) : i \in 1..Len(out') /\ i # Len(out') /\ out'[i] = out[i]
      /\ Len(out') \in 1..Len(out') /\ out'[Len(out')] = e
  BY <1>1, <1>2, <1>3, Appended
<1>6. /\ handler' \in [Lines -> {"none", "started", "handled", "done"}]
      /\ handler'[l] = "done" /\ \A k \in Lines \ {l} : handler'[k] = handler[k]
  BY <1>1, <1>2
<1>7. TypeOK'
  BY <1>1, <1>5, <1>6 DEF IInv, TypeOK, EngineTypeOK, engineVars, T
<1>8. Loading' /\ Handling'
  <2>1. Loading'
    BY <1>1, <1>4 DEF IInv, Loading, engineVars
  <2>2. server' # "loading"
    BY <1>1 DEF IInv, Handling
  <2>3. ASSUME NEW k \in Lines, handler'[k] # "none"
        PROVE  KindOf[k] \in {"foreign", "unknown", "status", "test"}
    BY <1>1, <1>6, <2>3 DEF IInv, Handling
  <2>4. ASSUME NEW k \in Lines, handler'[k] = "handled" PROVE answer'[k] # NoAnswer
    BY <1>1, <1>6, <2>4 DEF IInv, Handling
  <2> QED
    BY <1>1, <1>4, <2>1, <2>2, <2>3, <2>4 DEF IInv, Handling
<1>9. Scanned'
  BY <1>1, <1>6 DEF IInv, Scanned
<1>10. \A i \in 1..Len(out) :
         /\ out[i][1] # NoId => out[i][1] \in Lines \ {l} /\ handler[out[i][1]] = "done"
         /\ out[i][1] # l
  <2> SUFFICES ASSUME NEW i \in 1..Len(out)
               PROVE  /\ out[i][1] # NoId =>
                           out[i][1] \in Lines \ {l} /\ handler[out[i][1]] = "done"
                      /\ out[i][1] # l
    OBVIOUS
  <2>1. out[i][1] \in Lines \cup {NoId}
    BY <1>2 DEF T
  <2>2. out[i][1] # NoId => handler[out[i][1]] = "done"
    BY DEF IInv, Responded
  <2> QED
    BY <1>1, <1>3, <2>1, <2>2
<1>11. Responded'
  <2>1. ASSUME NEW i \in 1..Len(out'), out'[i][1] # NoId
        PROVE  handler'[out'[i][1]] = "done"
    <3>1. CASE i \in 1..Len(out)
      BY <1>5, <1>6, <1>10, <2>1, <3>1
    <3>2. CASE i = Len(out')
      BY <1>3, <1>5, <1>6, <2>1, <3>2
    <3> QED
      BY <1>5, <3>1, <3>2
  <2>2. ASSUME NEW i \in 1..Len(out'), NEW j \in 1..Len(out'), i # j,
               out'[i][1] = out'[j][1]
        PROVE  out'[i][1] = NoId
    <3>1. CASE i \in 1..Len(out) /\ j \in 1..Len(out)
      BY <1>5, <2>2, <3>1 DEF IInv, Responded
    <3>2. CASE i = Len(out') \/ j = Len(out')
      BY <1>3, <1>5, <1>10, <2>2, <3>2
    <3> QED
      BY <1>5, <3>1, <3>2
  <2> QED
    BY <2>1, <2>2 DEF Responded
<1>12. Refused'
  <2>1. /\ KindOf[l] # "broken" /\ l \in sent \ ToSet(pipe) /\ sent \subseteq Lines
        /\ IsFiniteSet(Unnamed) /\ Cardinality(Nulls) = Cardinality(Unnamed)
    BY <1>1 DEF IInv, TypeOK, Handling, Scanned, Refused
  <2>2. CASE l \notin Anonymous
    <3>1. Nulls' = Nulls
      BY <1>3, <1>5, <2>2 DEF Nulls
    <3>2. Unnamed' = Unnamed
      BY <1>1, <1>6, <2>1, <2>2 DEF Unnamed
    <3> QED
      BY <2>1, <3>1, <3>2 DEF Refused
  <2>3. CASE l \in Anonymous
    <3>1. Nulls' = Nulls \cup {Len(out')} /\ Len(out') \notin Nulls
      BY <1>3, <1>5, <2>3 DEF Nulls
    <3>2. Unnamed' = Unnamed \cup {l} /\ l \notin Unnamed
      BY <1>1, <1>6, <2>1, <2>3 DEF Unnamed
    <3>3. IsFiniteSet(Nulls)
      <4>1. Nulls \in SUBSET (1..Len(out)) /\ IsFiniteSet(1..Len(out))
        BY <1>5, FS_Interval DEF Nulls
      <4> QED
        BY <4>1, FS_Subset
    <3>4. IsFiniteSet(Unnamed') /\ Cardinality(Unnamed') = Cardinality(Unnamed) + 1
      BY <2>1, <3>2, FS_AddElement
    <3>5. Cardinality(Nulls') = Cardinality(Nulls) + 1
      BY <3>1, <3>3, FS_AddElement
    <3> QED
      BY <2>1, <3>4, <3>5 DEF Refused
  <2> QED
    BY <2>2, <2>3
<1>13. VerdictsMatchDirectory'
  <2>1. ASSUME Compiles(Parsed), NEW i \in 1..Len(out'), out'[i][2] \in Decisions
        PROVE  \E k \in Lines : /\ IdOf(k) = out'[i][1] /\ KindOf[k] = "test"
                                /\ out'[i][2] = Decide(Parsed, ToolOf[k])
    <3>1. CASE i \in 1..Len(out)
      BY <1>5, <2>1, <3>1 DEF IInv, VerdictsMatchDirectory
    <3>2. CASE i = Len(out')
      <4>1. /\ IdOf(l) = out'[i][1] /\ KindOf[l] = "test"
            /\ out'[i][2] = Decide(Parsed, ToolOf[l])
        BY <1>3, <1>5, <2>1, <3>2 DEF IInv, Handling
      <4> QED
        BY <4>1
    <3> QED
      BY <1>5, <3>1, <3>2
  <2> QED
    BY <1>1, <1>4, <2>1 DEF IInv, VerdictsMatchDirectory
<1> QED
  BY <1>7, <1>8, <1>9, <1>11, <1>12, <1>13 DEF IInv

-----------------------------------------------------------------------------
(* The client.                                                              *)

\* A line is sent for the first time.
LEMMA SendLineKeeps == \A l \in Lines : IInv /\ SendLine(l) => IInv'
<1> SUFFICES ASSUME NEW l \in Lines, IInv, SendLine(l) PROVE IInv'
  OBVIOUS
<1>1. /\ Running /\ l \notin sent
      /\ pipe' = Append(pipe, l) /\ sent' = sent \cup {l}
      /\ UNCHANGED <<engineVars, dir, toLoad, server, closed, handler, answer, out>>
  BY DEF SendLine
<1>2. pipe \in Seq(Lines)
  BY DEF IInv, TypeOK
<1>3. /\ pipe' \in Seq(Lines) /\ Len(pipe) \in Nat /\ Len(pipe') = Len(pipe) + 1
      /\ \A i \in 1..Len(pipe') : i \in 1..Len(pipe) \/ i = Len(pipe')
      /\ \A i \in 1..Len(pipe) : i \in 1..Len(pipe') /\ i # Len(pipe') /\ pipe'[i] = pipe[i]
      /\ Len(pipe') \in 1..Len(pipe') /\ pipe'[Len(pipe')] = l
      /\ ToSet(pipe') = ToSet(pipe) \cup {l}
  <2>1. /\ pipe' \in Seq(Lines) /\ Len(pipe) \in Nat /\ Len(pipe') = Len(pipe) + 1
        /\ \A i \in 1..Len(pipe') : i \in 1..Len(pipe) \/ i = Len(pipe')
        /\ \A i \in 1..Len(pipe) :
             i \in 1..Len(pipe') /\ i # Len(pipe') /\ pipe'[i] = pipe[i]
        /\ Len(pipe') \in 1..Len(pipe') /\ pipe'[Len(pipe')] = l
    BY <1>1, <1>2, Appended
  <2>2. ToSet(Append(pipe, l)) = ToSet(pipe) \cup {l}
    BY <1>2, AppendedSet
  <2> QED
    BY <1>1, <2>1, <2>2
<1>4. TypeOK'
  BY <1>1, <1>3 DEF IInv, TypeOK, EngineTypeOK, engineVars
<1>5. ToSet(pipe) \subseteq sent
  BY DEF IInv, Scanned
<1>6. sent' \ ToSet(pipe') = sent \ ToSet(pipe)
  BY <1>1, <1>3, <1>5
<1>7. Scanned'
  <2>1. \A i \in 1..Len(pipe) : pipe[i] # l
    <3>1. \A i \in 1..Len(pipe) : pipe[i] \in ToSet(pipe)
      BY <1>2 DEF ToSet
    <3> QED
      BY <1>1, <1>5, <3>1
  <2>2. ASSUME NEW i \in 1..Len(pipe'), NEW j \in 1..Len(pipe'), pipe'[i] = pipe'[j]
        PROVE  i = j
    BY <1>3, <2>1, <2>2 DEF IInv, Scanned
  <2> QED
    BY <1>1, <1>3, <1>5, <1>6, <2>2 DEF IInv, Scanned
<1>8. Unnamed' = Unnamed
  BY <1>1, <1>6 DEF Unnamed
<1>9. server' # "panic"
  BY <1>1 DEF Running
<1> QED
  BY <1>1, <1>4, <1>7, <1>8, <1>9, QuietStep

\* The client closes its end.
LEMMA CloseInputKeeps == IInv /\ CloseInput => IInv'
<1> SUFFICES ASSUME IInv, CloseInput PROVE IInv'
  OBVIOUS
<1> USE DEF CloseInput, engineVars
<1>1. TypeOK' /\ Scanned' /\ server' # "panic"
  BY DEF IInv, TypeOK, EngineTypeOK, Scanned, Running
<1>2. Unnamed' = Unnamed
  BY DEF Unnamed
<1> QED
  BY <1>1, <1>2, QuietStep

-----------------------------------------------------------------------------
(* The theorems.                                                            *)

\* IInv is kept by every step.
THEOREM Inductive == Spec => []IInv
<1>1. Init => IInv
  BY InitIInv
<1>2. IInv /\ [Next]_vars => IInv'
  <2> SUFFICES ASSUME IInv, [Next]_vars PROVE IInv'
    OBVIOUS
  <2>1. CASE UNCHANGED vars
    <3> USE <2>1 DEF vars, mcpVars, engineVars
    <3>1. TypeOK' /\ Scanned' /\ Responded'
      BY DEF IInv, TypeOK, EngineTypeOK, Scanned, Responded
    <3>2. Parsed' = Parsed /\ Loaded' = Loaded
      BY DEF Parsed, Loaded
    <3>3. Loading' /\ Handling' /\ VerdictsMatchDirectory'
      BY <3>2 DEF IInv, Loading, Handling, VerdictsMatchDirectory
    <3>4. Refused'
      BY DEF IInv, Refused, Nulls, Unnamed
    <3> QED
      BY <3>1, <3>3, <3>4 DEF IInv
  <2> QED
    BY <2>1, LoadNextKeeps, StartServingKeeps, ScanLineKeeps, ScanEndsKeeps, HandleKeeps,
       RespondKeeps, SendLineKeeps, CloseInputKeeps
    DEF Next, Serve, HandleRequest
<1> QED
  BY <1>1, <1>2, PTL DEF Spec

\* The variables keep their types.
THEOREM TypeCorrect == Spec => []TypeOK
<1>1. IInv => TypeOK
  BY DEF IInv
<1> QED
  BY <1>1, Inductive, PTL

\* Whatever the order in which the map gives the policies, and whichever of them do
\* not parse, a test is answered by all that do, together; and it is answered, not
\* panicked on (server.go:262-267, engine.go:24-46, 70).
THEOREM VerdictsAreTheDirectorys == Spec => []VerdictsMatchDirectory
<1>1. IInv => VerdictsMatchDirectory
  BY DEF IInv
<1> QED
  BY <1>1, Inductive, PTL

\* Any number of requests handled at once are answered at most once each, and only
\* those that were sent and read; there is an answer without an id for every line that
\* could not be parsed and every request without one that has been handled
\* (server.go:80-98, 102-119).
THEOREM AnsweredOnce == Spec => []OneAnswerEach
<1>1. IInv => OneAnswerEach
  <2> SUFFICES ASSUME IInv PROVE OneAnswerEach
    OBVIOUS
  <2>1. ASSUME NEW i \in 1..Len(out), out[i][1] # NoId
        PROVE  out[i][1] \in sent \ ToSet(pipe)
    <3>1. out[i] \in (Lines \cup {NoId}) \X (Errors \cup Decisions \cup {"status"})
      BY DEF IInv, TypeOK
    <3>2. out[i][1] \in Lines /\ handler[out[i][1]] = "done"
      BY <2>1, <3>1 DEF IInv, Responded
    <3> QED
      BY <3>2 DEF IInv, Scanned
  <2> QED
    BY <2>1 DEF IInv, Responded, Refused, Nulls, Unnamed, OneAnswerEach
<1> QED
  BY <1>1, Inductive, PTL
=============================================================================
