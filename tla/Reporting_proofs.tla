--------------------------- MODULE Reporting_proofs ---------------------------
(***************************************************************************)
(* Proofs about Reporting: its types, that the log has no holes whatever   *)
(* the disk and the runs before do to it, and that every sink is told      *)
(* before anybody is refused.                                              *)
(***************************************************************************)
EXTENDS Reporting, TLAPS

-----------------------------------------------------------------------------
(* The inductive invariant.                                                 *)

Chunks == [entry : Entries, whole : BOOLEAN]
Names == {"stdout", "webhook", "slack"}

\* The types, of the log and of the handlers.
LogTypes ==
  /\ run \in 1..MaxRuns
  /\ dead \in BOOLEAN
  /\ file \in Seq(Chunks)
  /\ start \in [1..MaxRuns -> Nat]
  /\ asked \in [1..MaxRuns -> Seq(Entries)]

HandlerTypes ==
  /\ sinks \in SinkLists /\ dryRun \in BOOLEAN
  /\ serving \in BOOLEAN
  /\ pc \in [Requests -> Stages]
  /\ verdicts \in [Requests -> Seq({"allow", "deny"})]
  /\ judged \in [Requests -> Nat]
  /\ told \in [Requests -> Seq(Names)]
  /\ born \in [Requests -> 0..run]

\* What run n has written is a beginning of what it was to write, whole up to the last
\* chunk, and begins with a message.
Part(n) ==
  /\ start[n] <= End(n) /\ End(n) <= Len(file)
  /\ End(n) - start[n] <= Len(asked[n])
  /\ \A i \in 1..(End(n) - start[n]) : file[start[n] + i].entry = asked[n][i]
  /\ \A i \in 1..(End(n) - start[n]) - 1 : file[start[n] + i].whole
  /\ asked[n] # <<>> => asked[n][1] = Message

\* While the encoder lives, it has written all it was given.
Alive ==
  /\ Len(file) - start[run] = Len(asked[run])
  /\ \A i \in 1..Len(asked[run]) : file[start[run] + i].whole

InOrder ==
  /\ \A n \in 1..run : Part(n)
  /\ \A n \in 1..MaxRuns : start[n] <= Len(file) /\ (n > run => asked[n] = <<>>)
  /\ ~dead => Alive
  /\ serving => asked[run] # <<>>

\* The loop over the calls of r: one call is left where one is looked at, none where
\* the request is forwarded.
Calls(r) ==
  /\ judged[r] <= Len(verdicts[r])
  /\ pc[r] = "new" => judged[r] = 0
  /\ pc[r] = "log" => judged[r] < Len(verdicts[r])

\* The loop over the sinks: those that were told come first among them, and one is
\* left while the loop goes on.
Telling(r) ==
  /\ Len(told[r]) <= Len(sinks)
  /\ \A i \in 1..Len(told[r]) : told[r][i] = sinks[i]
  /\ pc[r] = "remark" => told[r] = <<>>
  /\ pc[r] \in {"alert", "warn"} => told[r] # sinks
  /\ pc[r] \in {"refuse", "refused"} => told[r] = sinks
  /\ told[r] # <<>> /\ told[r] # sinks => pc[r] \in {"alert", "warn", "killed"}

\* A decision is on record once the call is judged, the event before the answer, and no
\* event before that.
Kept(r) ==
  /\ pc[r] \in Active => serving
  /\ born[r] = run /\ ~dead =>
       /\ \A i \in 1..judged[r] : OnRecord(r, i)
       /\ pc[r] \in {"answer", "answered"} => OnRecord(r, 0)
  /\ \A k \in 1..Len(file) :
       file[k].entry = <<r, 0>> => pc[r] \in {"answer", "answered", "killed"}

IInv ==
  /\ LogTypes /\ HandlerTypes /\ InOrder
  /\ \A r \in Requests : Calls(r) /\ Telling(r) /\ Kept(r)

-----------------------------------------------------------------------------
(* Lemmas about sequences and about the constants.                          *)

\* A sequence begins another if it is no longer and agrees with it as far as it goes.
LEMMA PrefixOf ==
  ASSUME NEW T, NEW s \in Seq(T), NEW t \in Seq(T), Len(s) <= Len(t),
         \A i \in 1..Len(s) : s[i] = t[i]
  PROVE  IsPrefix(s, t)
<1>1. Len(s) \in Nat /\ Len(t) \in Nat
  OBVIOUS
<1>2. SubSeq(s, 1, Len(s)) = [i \in 1..Len(s) |-> s[i]]
  BY <1>1
<1>3. SubSeq(t, 1, Len(s)) = [i \in 1..Len(s) |-> t[i]]
  BY <1>1
<1>4. [i \in 1..Len(s) |-> s[i]] = [i \in 1..Len(s) |-> t[i]]
  OBVIOUS
<1> QED
  BY <1>2, <1>3, <1>4 DEF IsPrefix

\* Two sequences of the same length that agree are the same.
LEMMA SameSeq ==
  ASSUME NEW T, NEW s \in Seq(T), NEW t \in Seq(T), Len(s) = Len(t),
         \A i \in 1..Len(s) : s[i] = t[i]
  PROVE  s = t
OBVIOUS

\* What Append makes of a sequence.
LEMMA Appended ==
  ASSUME NEW T, NEW s \in Seq(T), NEW e \in T, NEW t, t = Append(s, e)
  PROVE  /\ t \in Seq(T) /\ Len(s) \in Nat /\ Len(t) = Len(s) + 1
         /\ \A i \in 1..Len(t) : i \in 1..Len(s) \/ i = Len(t)
         /\ \A i \in 1..Len(s) : i \in 1..Len(t) /\ i # Len(t) /\ t[i] = s[i]
         /\ Len(t) \in 1..Len(t) /\ t[Len(t)] = e
<1>1. /\ t \in Seq(T) /\ Len(s) \in Nat /\ Len(t) = Len(s) + 1
      /\ \A i \in 1..Len(s) : t[i] = s[i]
      /\ t[Len(s) + 1] = e
  OBVIOUS
<1>2. /\ \A i \in 1..Len(t) : i \in 1..Len(s) \/ i = Len(t)
      /\ \A i \in 1..Len(s) : i \in 1..Len(t) /\ i # Len(t)
      /\ Len(t) \in 1..Len(t)
  BY <1>1
<1> QED
  BY <1>1, <1>2

\* There is a sink, and never more than three.
LEMMA SinkTypes ==
  ASSUME NEW list \in SinkLists
  PROVE  /\ list \in Seq({"stdout", "webhook", "slack"})
         /\ list # <<>> /\ Len(list) \in Nat
<1> DEFINE S == {"stdout", "webhook", "slack"}
<1>1. PICK webhook \in {<<>>, <<"webhook">>}, slack \in {<<>>, <<"slack">>} :
        list = <<"stdout">> \o webhook \o slack
  BY DEF SinkLists
<1> HIDE DEF S
<1>2. webhook \in Seq(S) /\ slack \in Seq(S) /\ <<"stdout">> \in Seq(S)
  <2>1. "stdout" \in S /\ "webhook" \in S /\ "slack" \in S
    BY DEF S
  <2>2. /\ <<>> \in Seq(S) /\ <<"stdout">> \in Seq(S)
        /\ <<"webhook">> \in Seq(S) /\ <<"slack">> \in Seq(S)
    BY <2>1
  <2> QED
    BY <2>2
<1>3. /\ <<"stdout">> \o webhook \in Seq(S)
      /\ Len(<<"stdout">> \o webhook) = 1 + Len(webhook)
      /\ Len(webhook) \in Nat /\ Len(slack) \in Nat
  BY <1>2
<1>4. list \in Seq(S) /\ Len(list) = 1 + Len(webhook) + Len(slack)
  BY <1>1, <1>2, <1>3
<1> QED
  BY <1>3, <1>4 DEF S

-----------------------------------------------------------------------------
(* The logger.                                                              *)

\* The log goes on, by an entry at most: whatever can be read stays so, nothing but this
\* entry is new, and the encoder does not come alive.
GoesOnWith(entry) ==
  /\ run' = run /\ (~dead' => ~dead)
  /\ \A q \in Requests, i \in Nat : OnRecord(q, i) => OnRecord(q, i)'
  /\ \A k \in 1..Len(file') :
       file'[k].entry = entry \/ (k \in 1..Len(file) /\ file'[k] = file[k])

\* A call of the encoder appends to the history of this run, and the first entry is a
\* message before and after it.
LEMMA AskedGrows ==
  ASSUME LogTypes, InOrder, NEW entry \in Entries, Encode(entry),
         asked[run] # <<>> \/ entry = Message
  PROVE  /\ run \in 1..MaxRuns /\ run' = run /\ start' = start
         /\ asked' \in [1..MaxRuns -> Seq(Entries)]
         /\ \A n \in 1..MaxRuns : n # run => asked'[n] = asked[n]
         /\ Len(asked[run]) \in Nat /\ Len(asked'[run]) = Len(asked[run]) + 1
         /\ \A i \in 1..Len(asked[run]) : asked'[run][i] = asked[run][i]
         /\ asked'[run][Len(asked'[run])] = entry
         /\ asked'[run] # <<>> /\ asked'[run][1] = Message
         /\ asked[run] # <<>> => Len(asked[run]) >= 1
<1>1. /\ run \in 1..MaxRuns /\ run' = run /\ start' = start
      /\ asked' = [asked EXCEPT ![run] = Append(@, entry)]
  BY DEF Encode, LogTypes
<1>2. asked[run] \in Seq(Entries) /\ Append(asked[run], entry) \in Seq(Entries)
  BY <1>1 DEF LogTypes
<1>3. /\ asked' \in [1..MaxRuns -> Seq(Entries)]
      /\ asked'[run] = Append(asked[run], entry)
      /\ \A n \in 1..MaxRuns : n # run => asked'[n] = asked[n]
  BY <1>1, <1>2 DEF LogTypes
<1>4. /\ asked'[run] \in Seq(Entries) /\ Len(asked[run]) \in Nat
      /\ Len(asked'[run]) = Len(asked[run]) + 1
      /\ \A i \in 1..Len(asked[run]) : asked'[run][i] = asked[run][i]
      /\ asked'[run][Len(asked'[run])] = entry
  <2>1. asked'[run] = Append(asked[run], entry)
    BY <1>3
  <2> QED
    BY <1>2, <2>1, Appended
<1>5. asked[run] # <<>> => Len(asked[run]) >= 1 /\ asked[run][1] = Message
  <2>1. asked[run] # <<>> => asked[run][1] = Message
    <3>1. run \in 1..run
      BY <1>1, ReportingAssumption
    <3> QED
      BY <3>1 DEF InOrder, Part
  <2> QED
    BY <1>2, <2>1
<1>6. asked[run] = <<>> => Len(asked[run]) = 0
  OBVIOUS
<1>7. asked'[run] # <<>> /\ asked'[run][1] = Message
  BY <1>4, <1>5, <1>6
<1> QED
  BY <1>1, <1>3, <1>4, <1>5, <1>7

\* Where the runs end in a file that only grows.
LEMMA Ends ==
  ASSUME LogTypes, InOrder, run' = run, start' = start, NEW n \in 1..run
  PROVE  /\ n \in 1..MaxRuns /\ start[n] \in Nat /\ Len(file) \in Nat
         /\ n = run => End(n) = Len(file) /\ End(n)' = Len(file')
         /\ n # run => /\ End(n)' = End(n) /\ End(n) \in Nat /\ n + 1 \in 1..MaxRuns
                       /\ End(n) = start[n + 1]
<1>1. run \in 1..MaxRuns /\ MaxRuns \in Nat
  BY ReportingAssumption DEF LogTypes
<1>2. n \in 1..MaxRuns /\ (n # run => n + 1 \in 1..MaxRuns)
  BY <1>1
<1>3. start[n] \in Nat /\ Len(file) \in Nat /\ (n # run => start[n + 1] \in Nat)
  BY <1>2 DEF LogTypes
<1> QED
  BY <1>2, <1>3 DEF End

\* A failed call keeps the log in order: nothing is written, and the encoder is dead.
LEMMA NothingWritten ==
  ASSUME LogTypes, InOrder, NEW entry \in Entries, Encode(entry),
         asked[run] # <<>> \/ entry = Message, file' = file, dead' = TRUE
  PROVE  LogTypes' /\ InOrder' /\ GoesOnWith(entry)
<1>1. /\ run \in 1..MaxRuns /\ run' = run /\ start' = start
      /\ asked' \in [1..MaxRuns -> Seq(Entries)]
      /\ \A n \in 1..MaxRuns : n # run => asked'[n] = asked[n]
      /\ Len(asked[run]) \in Nat /\ Len(asked'[run]) = Len(asked[run]) + 1
      /\ \A i \in 1..Len(asked[run]) : asked'[run][i] = asked[run][i]
      /\ asked'[run] # <<>> /\ asked'[run][1] = Message
  BY AskedGrows
<1>2. LogTypes'
  BY <1>1 DEF LogTypes
<1>3. ASSUME NEW n \in 1..run PROVE Part(n)'
  <2>1. /\ n \in 1..MaxRuns /\ start[n] \in Nat /\ Len(file) \in Nat
        /\ End(n)' = End(n) /\ End(n) \in Nat
    BY <1>1, Ends
  <2>2. Part(n) /\ start'[n] = start[n]
    BY <1>1 DEF InOrder
  <2>3. CASE n = run
    <3>1. \A i \in 1..(End(n) - start[n]) : i \in 1..Len(asked[n])
      BY <1>1, <2>1, <2>2, <2>3 DEF Part
    <3>2. /\ asked'[n][1] = Message /\ Len(asked[n]) \in Nat
          /\ Len(asked'[n]) = Len(asked[n]) + 1
          /\ \A i \in 1..(End(n) - start[n]) : asked'[n][i] = asked[n][i]
      BY <1>1, <2>3, <3>1
    <3>3. End(n) - start[n] <= Len(asked'[n])
      BY <2>1, <2>2, <3>2 DEF Part
    <3> QED
      BY <2>1, <2>2, <3>2, <3>3 DEF Part
  <2>4. CASE n # run
    BY <1>1, <2>1, <2>2, <2>4 DEF Part
  <2> QED
    BY <2>3, <2>4
<1>4. InOrder'
  BY <1>1, <1>3 DEF InOrder
<1>5. GoesOnWith(entry)
  BY <1>1 DEF GoesOnWith, OnRecord, OnItsOwnLine
<1> QED
  BY <1>2, <1>4, <1>5

\* What the file is after a write.
LEMMA Written ==
  ASSUME LogTypes, NEW entry \in Entries, NEW whole \in BOOLEAN, Write(entry, whole)
  PROVE  /\ file' \in Seq(Chunks) /\ Len(file) \in Nat /\ Len(file') = Len(file) + 1
         /\ \A k \in 1..Len(file') : k \in 1..Len(file) \/ k = Len(file')
         /\ \A k \in 1..Len(file) :
              k \in 1..Len(file') /\ k # Len(file') /\ file'[k] = file[k]
         /\ Len(file') \in 1..Len(file')
         /\ file'[Len(file')].entry = entry /\ file'[Len(file')].whole = whole
<1> DEFINE c == [entry |-> entry, whole |-> whole]
<1>1. c \in Chunks /\ c.entry = entry /\ c.whole = whole
  BY DEF Chunks
<1>2. file' = Append(file, c) /\ file \in Seq(Chunks)
  BY DEF Write, LogTypes
<1> HIDE DEF c
<1> QED
  BY <1>1, <1>2, Appended

\* What can be read stays so when something is written behind it.
LEMMA RecordStays ==
  ASSUME LogTypes, \A k \in 1..Len(file) : k \in 1..Len(file') /\ file'[k] = file[k],
         NEW q, NEW i, OnRecord(q, i)
  PROVE  OnRecord(q, i)'
<1>1. PICK k \in 1..Len(file) : file[k].entry = <<q, i>> /\ OnItsOwnLine(k)
  BY DEF OnRecord
<1>2. k > 1 => k - 1 \in 1..Len(file)
  BY DEF LogTypes
<1>3. /\ k \in 1..Len(file') /\ file'[k] = file[k]
      /\ k > 1 => file'[k - 1] = file[k - 1]
  BY <1>2
<1> QED
  BY <1>1, <1>3 DEF OnRecord, OnItsOwnLine

\* A write keeps the log in order, and the entry can be read if it is whole and not the
\* first of its run.
LEMMA SomethingWritten ==
  ASSUME LogTypes, InOrder, NEW entry \in Entries, Encode(entry),
         asked[run] # <<>> \/ entry = Message,
         ~dead, NEW whole \in BOOLEAN, Write(entry, whole), dead' = ~whole
  PROVE  /\ LogTypes' /\ InOrder' /\ GoesOnWith(entry)
         /\ \A q, i : ~dead' /\ asked[run] # <<>> /\ entry = <<q, i>> => OnRecord(q, i)'
<1>1. /\ run \in 1..MaxRuns /\ run' = run /\ start' = start
      /\ asked' \in [1..MaxRuns -> Seq(Entries)]
      /\ \A n \in 1..MaxRuns : n # run => asked'[n] = asked[n]
      /\ Len(asked[run]) \in Nat /\ Len(asked'[run]) = Len(asked[run]) + 1
      /\ \A i \in 1..Len(asked[run]) : asked'[run][i] = asked[run][i]
      /\ asked'[run][Len(asked'[run])] = entry
      /\ asked'[run] # <<>> /\ asked'[run][1] = Message
      /\ asked[run] # <<>> => Len(asked[run]) >= 1
  BY AskedGrows
<1>2. /\ file' \in Seq(Chunks) /\ Len(file) \in Nat /\ Len(file') = Len(file) + 1
      /\ \A k \in 1..Len(file') : k \in 1..Len(file) \/ k = Len(file')
      /\ \A k \in 1..Len(file) :
           k \in 1..Len(file') /\ k # Len(file') /\ file'[k] = file[k]
      /\ Len(file') \in 1..Len(file')
      /\ file'[Len(file')].entry = entry /\ file'[Len(file')].whole = whole
  BY Written
<1>3. LogTypes'
  BY <1>1, <1>2 DEF LogTypes
<1>4. /\ Part(run) /\ run \in 1..run /\ start[run] \in Nat /\ start[run] <= Len(file)
      /\ Len(file) - start[run] = Len(asked[run])
      /\ \A i \in 1..Len(asked[run]) :
           file[start[run] + i].whole /\ file[start[run] + i].entry = asked[run][i]
  <2>1. run \in 1..run
    BY <1>1, ReportingAssumption
  <2>2. Part(run) /\ Alive /\ End(run) = Len(file)
    BY <1>1, <2>1, Ends DEF InOrder
  <2> QED
    BY <1>1, <2>1, <2>2 DEF Part, Alive, LogTypes
<1>5. ASSUME NEW i \in 1..Len(asked'[run])
      PROVE  /\ file'[start[run] + i].entry = asked'[run][i]
             /\ i < Len(asked'[run]) \/ whole => file'[start[run] + i].whole
  <2>1. CASE i \in 1..Len(asked[run])
    <3>1. start[run] + i \in 1..Len(file)
      BY <1>1, <1>2, <1>4, <2>1
    <3>2. file'[start[run] + i] = file[start[run] + i]
      BY <1>2, <3>1
    <3>3. asked'[run][i] = asked[run][i]
      BY <1>1, <2>1
    <3>4. file[start[run] + i].whole /\ file[start[run] + i].entry = asked[run][i]
      BY <1>4, <2>1
    <3> QED
      BY <3>2, <3>3, <3>4
  <2>2. CASE i = Len(asked'[run])
    <3>1. start[run] + i = Len(file')
      BY <1>1, <1>2, <1>4, <2>2
    <3> QED
      BY <1>1, <1>2, <2>2, <3>1
  <2> QED
    BY <1>1, <2>1, <2>2
<1>6. ASSUME NEW n \in 1..run PROVE Part(n)'
  <2>1. Part(n) /\ start'[n] = start[n] /\ n \in 1..MaxRuns /\ start[n] \in Nat
    BY <1>1, Ends DEF InOrder
  <2>2. CASE n = run
    <3>1. End(n)' = Len(file')
      BY <1>1, <2>2, Ends
    <3>2. /\ Len(asked'[n]) \in Nat /\ End(n)' - start'[n] = Len(asked'[n])
          /\ start'[n] <= End(n)'
      BY <1>1, <1>2, <1>4, <2>2, <3>1
    <3>3. \A i \in 1..Len(asked'[n]) :
            /\ file'[start'[n] + i].entry = asked'[n][i]
            /\ i < Len(asked'[n]) => file'[start'[n] + i].whole
      BY <1>1, <1>5, <2>2
    <3>4. \A i \in 1..Len(asked'[n]) - 1 : i \in 1..Len(asked'[n]) /\ i < Len(asked'[n])
      BY <3>2
    <3>5. \A i \in 1..Len(asked'[n]) - 1 : file'[start'[n] + i].whole
      BY <3>3, <3>4
    <3>6. asked'[n][1] = Message /\ End(n)' <= Len(file')
      BY <1>1, <1>2, <2>2, <3>1
    <3> QED
      BY <3>2, <3>3, <3>5, <3>6 DEF Part
  <2>3. CASE n # run
    <3>1. End(n)' = End(n) /\ End(n) \in Nat /\ asked'[n] = asked[n]
      BY <1>1, <2>1, <2>3, Ends
    <3>2. \A i \in 1..(End(n) - start[n]) : start[n] + i \in 1..Len(file)
      BY <1>2, <2>1, <3>1 DEF Part
    <3>3. \A i \in 1..(End(n) - start[n]) : file'[start[n] + i] = file[start[n] + i]
      BY <1>2, <3>2
    <3>4. \A i \in 1..(End(n) - start[n]) - 1 : i \in 1..(End(n) - start[n])
      BY <2>1, <3>1
    <3>5. End(n)' <= Len(file')
      BY <1>2, <2>1, <3>1 DEF Part
    <3> QED
      BY <2>1, <3>1, <3>3, <3>4, <3>5 DEF Part
  <2> QED
    BY <2>2, <2>3
<1>7. ~dead' => Alive'
  <2>1. /\ start'[run'] = start[run] /\ asked'[run'] = asked'[run]
        /\ Len(file') - start[run] = Len(asked'[run])
    BY <1>1, <1>2, <1>4
  <2> QED
    BY <1>5, <2>1 DEF Alive
<1>8. InOrder'
  <2>1. \A n \in 1..MaxRuns : start'[n] \in Nat /\ start'[n] <= Len(file')
    BY <1>1, <1>2 DEF InOrder, LogTypes
  <2>2. \A n \in 1..MaxRuns : n > run' => asked'[n] = <<>>
    BY <1>1 DEF InOrder
  <2> QED
    BY <1>1, <1>6, <1>7, <2>1, <2>2 DEF InOrder
<1>9. GoesOnWith(entry)
  <2>1. \A q \in Requests, i \in Nat : OnRecord(q, i) => OnRecord(q, i)'
    BY <1>2, RecordStays
  <2> QED
    BY <1>1, <1>2, <2>1 DEF GoesOnWith
<1>10. ASSUME NEW q, NEW i, ~dead', asked[run] # <<>>, entry = <<q, i>>
       PROVE  OnRecord(q, i)'
  <2>1. Len(asked[run]) >= 1 /\ whole
    BY <1>1, <1>10
  <2>2. /\ Len(file') - 1 = start[run] + Len(asked[run])
        /\ Len(file') - 1 = Len(file) /\ Len(file) \in 1..Len(file)
    BY <1>1, <1>2, <1>4, <2>1
  <2>3. file'[Len(file') - 1].whole
    <3>1. file[start[run] + Len(asked[run])].whole
      <4>1. Len(asked[run]) \in 1..Len(asked[run])
        BY <1>1, <2>1
      <4> QED
        BY <1>4, <4>1
    <3>2. file'[Len(file)] = file[Len(file)] /\ start[run] + Len(asked[run]) = Len(file)
      BY <1>2, <2>2
    <3>3. file'[Len(file') - 1] = file[start[run] + Len(asked[run])]
      BY <2>2, <3>2
    <3> QED
      BY <3>1, <3>3
  <2> QED
    BY <1>2, <1>10, <2>1, <2>3 DEF OnRecord, OnItsOwnLine
<1> QED
  BY <1>3, <1>8, <1>9, <1>10

\* A call of the encoder keeps the log in order, and an encoder that is alive afterwards
\* has written the entry where it can be read.
LEMMA EncodeKeeps ==
  ASSUME LogTypes, InOrder, NEW entry \in Entries, Encode(entry),
         asked[run] # <<>> \/ entry = Message
  PROVE  /\ LogTypes' /\ InOrder' /\ GoesOnWith(entry)
         /\ \A q, i : ~dead' /\ asked[run] # <<>> /\ entry = <<q, i>> => OnRecord(q, i)'
<1>1. CASE file' = file /\ dead' = TRUE
  BY <1>1, NothingWritten
<1>2. CASE ~dead /\ \E whole \in BOOLEAN : Write(entry, whole) /\ dead' = ~whole
  BY <1>2, SomethingWritten
<1>3. dead \in BOOLEAN
  BY DEF LogTypes
<1> QED
  BY <1>1, <1>2, <1>3 DEF Encode, Fail

-----------------------------------------------------------------------------
(* The initial states and the handlers.                                     *)

\* They satisfy the invariant: nothing is written, told or judged.
LEMMA InitIInv == Init => IInv
<1> SUFFICES ASSUME Init PROVE IInv
  OBVIOUS
<1> USE DEF Init
<1>1. /\ 1 \in 1..MaxRuns /\ run = 1 /\ file = <<>> /\ Len(file) = 0
      /\ \A n \in 1..MaxRuns : start[n] = 0 /\ asked[n] = <<>>
  BY ReportingAssumption
<1>2. LogTypes
  <2>1. <<>> \in Seq(Chunks) /\ <<>> \in Seq(Entries)
    OBVIOUS
  <2> QED
    BY <1>1, <2>1 DEF LogTypes
<1>3. HandlerTypes
  <2>1. <<>> \in Seq({"allow", "deny"}) /\ <<>> \in Seq(Names) /\ 0 \in 0..run
    BY <1>1
  <2> QED
    BY <2>1 DEF HandlerTypes, Stages
<1>4. InOrder
  <2>1. Part(1)
    BY <1>1 DEF Part, End
  <2>2. Alive
    BY <1>1 DEF Alive
  <2> QED
    BY <1>1, <2>1, <2>2 DEF InOrder
<1>5. ASSUME NEW r \in Requests PROVE Calls(r) /\ Telling(r) /\ Kept(r)
  <2>1. Calls(r)
    BY DEF Calls
  <2>2. Telling(r)
    BY SinkTypes DEF Telling
  <2>3. Kept(r)
    BY <1>1 DEF Kept, Active
  <2> QED
    BY <2>1, <2>2, <2>3
<1> QED
  BY <1>2, <1>3, <1>4, <1>5 DEF IInv

\* What the steps beside the log have in common.
LEMMA LogUntouched ==
  ASSUME LogTypes, InOrder, UNCHANGED log, UNCHANGED serving, NEW entry
  PROVE  LogTypes' /\ InOrder' /\ GoesOnWith(entry)
<1>1. /\ UNCHANGED <<run, dead, file, start, asked>>
  BY DEF log
<1>2. LogTypes'
  BY <1>1 DEF LogTypes
<1>3. InOrder'
  BY <1>1 DEF InOrder, Part, Alive, End
<1>4. GoesOnWith(entry)
  BY <1>1 DEF GoesOnWith, OnRecord, OnItsOwnLine
<1> QED
  BY <1>2, <1>3, <1>4

\* Who keeps place and has nothing to do with the entry keeps what is on record.
LEMMA KeptByOthers ==
  ASSUME IInv, NEW q \in Requests, NEW entry, GoesOnWith(entry), entry # <<q, 0>>,
         pc'[q] = pc[q], judged'[q] = judged[q], born'[q] = born[q], serving => serving'
  PROVE  Kept(q)'
<1>1. Kept(q) /\ judged[q] \in Nat
  BY DEF IInv, HandlerTypes
<1>2. ASSUME NEW i \in Nat, OnRecord(q, i) PROVE OnRecord(q, i)'
  BY <1>2 DEF GoesOnWith
<1>3. \A i \in 1..judged[q] : i \in Nat
  BY <1>1
<1>4. ASSUME NEW k \in 1..Len(file'), file'[k].entry = <<q, 0>>
      PROVE  pc'[q] \in {"answer", "answered", "killed"}
  BY <1>1, <1>4 DEF GoesOnWith, Kept
<1>5. run' = run /\ (~dead' => ~dead)
  BY DEF GoesOnWith
<1> QED
  BY <1>1, <1>2, <1>3, <1>4, <1>5 DEF Kept

\* One handler moves: the others keep what they have.
LEMMA OneMoves ==
  ASSUME IInv, NEW r \in Requests, NEW entry, GoesOnWith(entry),
         \A q \in Requests \ {r} : entry # <<q, 0>>,
         LogTypes', InOrder', HandlerTypes', UNCHANGED setup, serving => serving',
         \A q \in Requests \ {r} :
           /\ pc'[q] = pc[q] /\ verdicts'[q] = verdicts[q] /\ judged'[q] = judged[q]
           /\ told'[q] = told[q] /\ born'[q] = born[q],
         Calls(r)', Telling(r)', Kept(r)'
  PROVE  IInv'
<1>1. ASSUME NEW q \in Requests PROVE Calls(q)' /\ Telling(q)' /\ Kept(q)'
  <2>1. CASE q # r
    <3>1. /\ entry # <<q, 0>> /\ pc'[q] = pc[q] /\ verdicts'[q] = verdicts[q]
          /\ judged'[q] = judged[q] /\ told'[q] = told[q] /\ born'[q] = born[q]
          /\ sinks' = sinks
      BY <2>1 DEF setup
    <3>2. Kept(q)'
      BY <3>1, KeptByOthers
    <3> QED
      BY <3>1, <3>2 DEF IInv, Calls, Telling
  <2> QED
    BY <2>1
<1> QED
  BY <1>1 DEF IInv

\* A message says nothing of a request.
LEMMA NoRequest == Message \in Entries /\ \A q \in Requests : Message # <<q, 0>>
BY ReportingAssumption DEF Message, Entries

\* A request comes in: none of its calls is judged, and it belongs to this run.
LEMMA ArriveKeeps == \A r \in Requests : IInv /\ Arrive(r) => IInv'
<1> SUFFICES ASSUME NEW r \in Requests, IInv, Arrive(r) PROVE IInv'
  OBVIOUS
<1>1. /\ pc[r] = "new" /\ serving /\ UNCHANGED <<setup, serving, log, judged, told>>
      /\ born' = [born EXCEPT ![r] = run]
      /\ pc' = [pc EXCEPT ![r] = IF verdicts'[r] = <<>> THEN "forward" ELSE "log"]
  BY DEF Arrive
<1>2. PICK v \in Outcomes : verdicts' = [verdicts EXCEPT ![r] = v]
  BY DEF Arrive
<1>3. v \in Seq({"allow", "deny"}) /\ Len(v) \in Nat /\ (v # <<>> => Len(v) > 0)
  BY ReportingAssumption
<1>4. /\ verdicts'[r] = v /\ pc'[r] \in {"forward", "log"} /\ born'[r] = run
      /\ pc'[r] = "log" => v # <<>>
      /\ \A q \in Requests \ {r} :
           verdicts'[q] = verdicts[q] /\ pc'[q] = pc[q] /\ born'[q] = born[q]
  BY <1>1, <1>2 DEF IInv, HandlerTypes
<1>5. LogTypes' /\ InOrder' /\ GoesOnWith(Message)
  BY <1>1, LogUntouched DEF IInv
<1>6. HandlerTypes'
  <2>1. run' = run /\ run \in 0..run
    BY <1>5, ReportingAssumption DEF IInv, LogTypes, GoesOnWith
  <2> QED
    BY <1>1, <1>2, <1>3, <2>1 DEF IInv, HandlerTypes, setup, Stages, Active
<1>7. judged[r] = 0 /\ Calls(r) /\ Telling(r) /\ Kept(r)
  BY <1>1 DEF IInv, Calls
<1>8. Calls(r)'
  BY <1>1, <1>3, <1>4, <1>7 DEF Calls
<1>9. Telling(r)'
  BY <1>1, <1>4, <1>7 DEF Telling, setup
<1>10. Kept(r)'
  <2>1. file' = file
    BY <1>1 DEF log
  <2>2. \A k \in 1..Len(file) : file[k].entry # <<r, 0>>
    BY <1>1, <1>7 DEF Kept
  <2> QED
    BY <1>1, <1>4, <1>7, <2>1, <2>2 DEF Kept
<1> QED
  BY <1>1, <1>4, <1>5, <1>6, <1>8, <1>9, <1>10, OneMoves, NoRequest

\* A request is turned away by a message, before any of its calls.
LEMMA RejectKeeps == \A r \in Requests : IInv /\ Reject(r) => IInv'
<1> SUFFICES ASSUME NEW r \in Requests, IInv, Reject(r) PROVE IInv'
  OBVIOUS
<1>1. /\ pc[r] = "new" /\ UNCHANGED <<setup, serving, verdicts, judged, told>>
      /\ pc' = [pc EXCEPT ![r] = "failed"] /\ born' = [born EXCEPT ![r] = run]
      /\ Encode(Message)
  BY DEF Reject, Goto
<1>2. LogTypes' /\ InOrder' /\ GoesOnWith(Message)
  BY <1>1, NoRequest, EncodeKeeps DEF IInv
<1>3. /\ pc'[r] = "failed" /\ born'[r] = run
      /\ \A q \in Requests \ {r} : pc'[q] = pc[q] /\ born'[q] = born[q]
  BY <1>1 DEF IInv, HandlerTypes
<1>4. HandlerTypes'
  <2>1. run' = run /\ run \in 0..run
    BY <1>2, ReportingAssumption DEF IInv, LogTypes, GoesOnWith
  <2> QED
    BY <1>1, <2>1 DEF IInv, HandlerTypes, setup, Stages, Done
<1>5. judged[r] = 0 /\ Calls(r) /\ Telling(r) /\ Kept(r)
  BY <1>1 DEF IInv, Calls
<1>6. Calls(r)' /\ Telling(r)'
  BY <1>1, <1>3, <1>5 DEF Calls, Telling, setup
<1>7. Kept(r)'
  <2>1. \A k \in 1..Len(file') : file'[k].entry # <<r, 0>>
    BY <1>1, <1>2, <1>5, NoRequest DEF Kept, GoesOnWith
  <2> QED
    BY <1>1, <1>3, <1>5, <2>1 DEF Kept, Active
<1> QED
  BY <1>1, <1>2, <1>3, <1>4, <1>6, <1>7, NoRequest, OneMoves

\* Who goes on, with another entry than its event, keeps what is on record.
LEMMA KeptByMove ==
  ASSUME IInv, NEW r \in Requests, NEW entry, GoesOnWith(entry), entry # <<r, 0>>,
         judged'[r] = judged[r], born'[r] = born[r], serving' = serving,
         pc[r] \in Active, pc'[r] \in Active \cup Done,
         pc'[r] # "answer", pc[r] = "answer" <=> pc'[r] = "answered"
  PROVE  Kept(r)'
<1>1. Kept(r) /\ judged[r] \in Nat
  BY DEF IInv, HandlerTypes
<1>2. ASSUME NEW i \in Nat, OnRecord(r, i) PROVE OnRecord(r, i)'
  BY <1>2 DEF GoesOnWith
<1>3. \A i \in 1..judged[r] : i \in Nat
  BY <1>1
<1>4. ASSUME NEW k \in 1..Len(file'), file'[k].entry = <<r, 0>>
      PROVE  pc'[r] = "answered"
  <2>1. pc[r] \in {"answer", "answered", "killed"}
    BY <1>1, <1>4 DEF GoesOnWith, Kept
  <2> QED
    BY <2>1 DEF Active
<1>5. run' = run /\ (~dead' => ~dead)
  BY DEF GoesOnWith
<1>6. pc'[r] \in {"answer", "answered"} => pc[r] \in {"answer", "answered"}
  OBVIOUS
<1> QED
  BY <1>1, <1>2, <1>3, <1>4, <1>5, <1>6 DEF Kept

\* The steps that end a request or bring the agent's answer.
LEMMA GoesOn ==
  ASSUME IInv, NEW r \in Requests, NEW from, NEW to, Goto(r, from, to),
         <<from, to>> \in {<<"refuse", "refused">>, <<"forward", "event">>,
                           <<"forward", "failed">>, <<"log", "failed">>,
                           <<"answer", "answered">>},
         LogTypes', InOrder', GoesOnWith(Message),
         UNCHANGED <<setup, serving, verdicts, judged, told, born>>
  PROVE  IInv'
<1>1. /\ pc[r] = from /\ pc' = [pc EXCEPT ![r] = to]
      /\ \/ from = "refuse" /\ to = "refused"
         \/ from \in {"forward", "log"} /\ to \in {"event", "failed"}
         \/ from = "answer" /\ to = "answered"
  BY DEF Goto
<1>2. pc'[r] = to /\ \A q \in Requests \ {r} : pc'[q] = pc[q]
  BY <1>1 DEF IInv, HandlerTypes
<1>3. HandlerTypes'
  BY <1>1 DEF IInv, HandlerTypes, GoesOnWith, setup, Stages, Active, Done
<1>4. Calls(r)' /\ Telling(r)'
  BY <1>1, <1>2 DEF IInv, Calls, Telling, setup
<1>5. Kept(r)'
  BY <1>1, <1>2, NoRequest, KeptByMove DEF Active, Done
<1> QED
  BY <1>2, <1>3, <1>4, <1>5, NoRequest, OneMoves

\* The message of a request whose upstream fails.
LEMMA UpstreamFailsKeeps == \A r \in Requests : IInv /\ UpstreamFails(r) => IInv'
<1> SUFFICES ASSUME NEW r \in Requests, IInv, UpstreamFails(r) PROVE IInv'
  OBVIOUS
<1>1. /\ Goto(r, "forward", "failed") /\ Encode(Message)
      /\ UNCHANGED <<setup, serving, verdicts, judged, told, born>>
  BY DEF UpstreamFails
<1>2. LogTypes' /\ InOrder' /\ GoesOnWith(Message)
  BY <1>1, NoRequest, EncodeKeeps DEF IInv
<1> QED
  BY <1>1, <1>2, GoesOn

\* Where a handler goes after a call: to the next one or on to the agent's request.
LEMMA AfterCall ==
  ASSUME NEW r, NEW n
  PROVE  \/ After(r, n) = "log" /\ n < Len(verdicts[r])
         \/ After(r, n) = "forward"
BY DEF After

\* The dry run's message, and the look of the detector.
LEMMA RemarkKeeps == \A r \in Requests : IInv /\ Remark(r) => IInv'
<1> SUFFICES ASSUME NEW r \in Requests, IInv, Remark(r) PROVE IInv'
  OBVIOUS
<1>1. /\ pc[r] = "remark" /\ Encode(Message)
      /\ UNCHANGED <<setup, serving, verdicts, judged, told, born>>
  BY DEF Remark
<1>2. PICK to \in {"warn", After(r, judged[r])} : pc' = [pc EXCEPT ![r] = to]
  BY DEF Remark
<1>3. \/ to = "warn" \/ to = "forward"
      \/ to = "log" /\ judged[r] < Len(verdicts[r])
  BY <1>2, AfterCall
<1>4. LogTypes' /\ InOrder' /\ GoesOnWith(Message)
  BY <1>1, NoRequest, EncodeKeeps DEF IInv
<1>5. pc'[r] = to /\ \A q \in Requests \ {r} : pc'[q] = pc[q]
  BY <1>2 DEF IInv, HandlerTypes
<1>6. HandlerTypes'
  BY <1>1, <1>2, <1>3, <1>4 DEF IInv, HandlerTypes, GoesOnWith, setup, Stages, Active
<1>7. Calls(r)'
  BY <1>1, <1>3, <1>5 DEF IInv, Calls
<1>8. Telling(r)'
  <2>1. Telling(r) /\ sinks' = sinks /\ told'[r] = told[r] /\ sinks # <<>>
    BY <1>1, SinkTypes DEF IInv, HandlerTypes, setup
  <2> QED
    BY <1>1, <1>3, <1>5, <2>1 DEF Telling
<1>9. Kept(r)'
  BY <1>1, <1>3, <1>4, <1>5, NoRequest, KeptByMove DEF Active, Done
<1> QED
  BY <1>1, <1>4, <1>5, <1>6, <1>7, <1>8, <1>9, NoRequest, OneMoves

\* A call is judged and its decision logged; an alert starts at the first sink.
LEMMA LogDecisionKeeps == \A r \in Requests : IInv /\ LogDecision(r) => IInv'
<1> SUFFICES ASSUME NEW r \in Requests, IInv, LogDecision(r) PROVE IInv'
  OBVIOUS
<1>1. /\ pc[r] = "log" /\ judged[r] \in Nat /\ judged[r] < Len(verdicts[r])
      /\ Len(verdicts[r]) \in Nat /\ serving /\ asked[run] # <<>>
  BY DEF LogDecision, IInv, HandlerTypes, Calls, Kept, InOrder, Active
<1>2. PICK n \in Nat : n = judged[r] + 1
  BY <1>1
<1>3. /\ pc[r] = "log" /\ Encode(<<r, n>>)
      /\ judged' = [judged EXCEPT ![r] = n]
      /\ told' = [told EXCEPT ![r] = <<>>]
      /\ UNCHANGED <<setup, serving, verdicts, born>>
  BY <1>2 DEF LogDecision
<1>4. PICK to \in {"alert", "remark", "warn", After(r, n)} : pc' = [pc EXCEPT ![r] = to]
  <2> DEFINE verdict == verdicts[r][n]
             places == IF verdict = "allow" THEN {"warn", After(r, n)}
                       ELSE IF dryRun THEN {"remark"} ELSE {"alert"}
  <2>1. PICK to \in places : pc' = [pc EXCEPT ![r] = to]
    BY <1>2 DEF LogDecision
  <2> QED
    BY <2>1
<1>5. /\ n \in Nat /\ n # 0 /\ n <= Len(verdicts[r])
      /\ \A i \in 1..n : i \in 1..judged[r] \/ i = n
  BY <1>2, <1>1
<1>6. <<r, n>> \in Entries /\ (\A q \in Requests : <<r, n>> # <<q, 0>>)
  BY <1>5 DEF Entries
<1>7. /\ LogTypes' /\ InOrder' /\ GoesOnWith(<<r, n>>)
      /\ ~dead' => OnRecord(r, n)'
  BY <1>3, <1>1, <1>6, EncodeKeeps DEF IInv
<1>8. \/ to = "alert" \/ to = "remark" \/ to = "warn" \/ to = "forward"
      \/ to = "log" /\ n < Len(verdicts[r])
  BY <1>4, AfterCall
<1>9. /\ pc'[r] = to /\ judged'[r] = n /\ told'[r] = <<>>
      /\ \A q \in Requests \ {r} :
           pc'[q] = pc[q] /\ judged'[q] = judged[q] /\ told'[q] = told[q]
  BY <1>3, <1>4 DEF IInv, HandlerTypes
<1>10. HandlerTypes'
  <2>1. pc' \in [Requests -> Stages]
    BY <1>4, <1>8 DEF IInv, HandlerTypes, Stages, Active
  <2>2. judged' \in [Requests -> Nat]
    BY <1>3, <1>5 DEF IInv, HandlerTypes
  <2>3. told' \in [Requests -> Seq(Names)]
    <3>1. <<>> \in Seq(Names)
      OBVIOUS
    <3> QED
      BY <1>3, <3>1 DEF IInv, HandlerTypes
  <2> QED
    BY <1>3, <1>7, <2>1, <2>2, <2>3 DEF IInv, HandlerTypes, GoesOnWith, setup
<1>11. Calls(r)'
  BY <1>3, <1>5, <1>8, <1>9 DEF Calls
<1>12. Telling(r)'
  <2>1. sinks # <<>> /\ Len(sinks) \in Nat /\ sinks' = sinks
    BY <1>3, SinkTypes DEF IInv, HandlerTypes, setup
  <2> QED
    BY <1>8, <1>9, <2>1 DEF Telling
<1>13. Kept(r)'
  <2>1. Kept(r) /\ born'[r] = born[r] /\ serving' = serving
    BY <1>3 DEF IInv
  <2>2. ASSUME born'[r] = run', ~dead', NEW i \in 1..n PROVE OnRecord(r, i)'
    <3>1. CASE i = n
      BY <1>7, <2>2, <3>1
    <3>2. CASE i \in 1..judged[r]
      <4>1. OnRecord(r, i) /\ i \in Nat
        BY <1>1, <1>7, <2>1, <2>2, <3>2 DEF Kept, GoesOnWith
      <4> QED
        BY <1>7, <4>1 DEF GoesOnWith
    <3> QED
      BY <1>5, <3>1, <3>2
  <2>3. \A k \in 1..Len(file') : file'[k].entry # <<r, 0>>
    BY <1>3, <1>6, <1>7, <2>1 DEF Kept, GoesOnWith
  <2> QED
    BY <1>1, <1>8, <1>9, <2>1, <2>2, <2>3 DEF Kept
<1> QED
  BY <1>3, <1>6, <1>7, <1>9, <1>10, <1>11, <1>12, <1>13, OneMoves

\* One more sink is told, and the handler goes on after the last.
LEMMA TellKeeps == \A r \in Requests : IInv /\ Tell(r) => IInv'
<1> SUFFICES ASSUME NEW r \in Requests, IInv, Tell(r) PROVE IInv'
  OBVIOUS
<1> DEFINE t == Append(told[r], sinks[Len(told[r]) + 1])
           to == IF t # sinks THEN pc[r]
                 ELSE IF pc[r] = "alert" THEN "refuse" ELSE After(r, judged[r])
<1>1. /\ sinks \in Seq(Names) /\ Len(sinks) \in Nat /\ told[r] \in Seq(Names)
      /\ Len(told[r]) \in Nat /\ Len(told[r]) <= Len(sinks) /\ told[r] # sinks
      /\ \A i \in 1..Len(told[r]) : told[r][i] = sinks[i]
  <2>1. HandlerTypes /\ Telling(r) /\ pc[r] \in {"alert", "warn"}
    BY DEF Tell, IInv
  <2>2. sinks \in Seq(Names) /\ Len(sinks) \in Nat
    BY <2>1, SinkTypes DEF HandlerTypes, Names
  <2> QED
    BY <2>1, <2>2 DEF HandlerTypes, Telling
<1>2. Len(told[r]) < Len(sinks)
  BY <1>1, SameSeq
<1>3. /\ pc[r] \in {"alert", "warn"}
      /\ UNCHANGED <<setup, serving, log, verdicts, judged, born>>
      /\ told' = [told EXCEPT ![r] = t] /\ told'[r] = t
      /\ pc' = [pc EXCEPT ![r] = to]
  <2>1. told' = [told EXCEPT ![r] = t] /\ told'[r] = t
    BY DEF Tell, IInv, HandlerTypes
  <2> HIDE DEF t
  <2> QED
    BY <2>1 DEF Tell, IInv, HandlerTypes
<1>4. /\ t \in Seq(Names) /\ Len(t) <= Len(sinks) /\ Len(t) > 0
      /\ \A i \in 1..Len(t) : t[i] = sinks[i]
  <2>1. Len(told[r]) + 1 \in 1..Len(sinks)
    BY <1>1, <1>2
  <2>2. sinks[Len(told[r]) + 1] \in Names
    BY <1>1, <2>1
  <2>3. t = Append(told[r], sinks[Len(told[r]) + 1])
    OBVIOUS
  <2> HIDE DEF t
  <2>4. /\ t \in Seq(Names) /\ Len(t) = Len(told[r]) + 1
        /\ \A i \in 1..Len(t) : i \in 1..Len(told[r]) \/ i = Len(t)
        /\ \A i \in 1..Len(told[r]) : i \in 1..Len(t) /\ i # Len(t) /\ t[i] = told[r][i]
        /\ Len(t) \in 1..Len(t) /\ t[Len(t)] = sinks[Len(told[r]) + 1]
    BY <1>1, <2>2, <2>3, Appended
  <2> QED
    BY <1>1, <1>2, <2>4
<1> HIDE DEF t
<1>5. \/ t # sinks /\ to = pc[r] /\ to \in {"alert", "warn"}
      \/ t = sinks /\ to = "refuse"
      \/ t = sinks /\ to = "log" /\ judged[r] < Len(verdicts[r])
      \/ t = sinks /\ to = "forward"
  BY <1>3, AfterCall
<1> HIDE DEF to
<1>6. /\ pc'[r] = to
      /\ \A q \in Requests \ {r} : pc'[q] = pc[q] /\ told'[q] = told[q]
  BY <1>3 DEF IInv, HandlerTypes
<1>7. LogTypes' /\ InOrder' /\ GoesOnWith(Message)
  BY <1>3, LogUntouched DEF IInv
<1>8. HandlerTypes'
  <2>1. pc' \in [Requests -> Stages]
    BY <1>3, <1>5 DEF IInv, HandlerTypes, Stages, Active
  <2>2. told' \in [Requests -> Seq(Names)]
    BY <1>3, <1>4 DEF IInv, HandlerTypes
  <2> QED
    BY <1>3, <1>7, <2>1, <2>2 DEF IInv, HandlerTypes, GoesOnWith, setup
<1>9. Calls(r)'
  BY <1>3, <1>5, <1>6 DEF IInv, Calls
<1>10. Telling(r)'
  <2>1. sinks' = sinks
    BY <1>3 DEF setup
  <2> QED
    BY <1>3, <1>4, <1>5, <1>6, <2>1 DEF Telling
<1>11. Kept(r)'
  BY <1>3, <1>5, <1>6, <1>7, NoRequest, KeptByMove DEF Active, Done
<1> QED
  BY <1>3, <1>6, <1>7, <1>8, <1>9, <1>10, <1>11, NoRequest, OneMoves

\* The event is logged, and the answer comes after it.
LEMMA LogEventKeeps == \A r \in Requests : IInv /\ LogEvent(r) => IInv'
<1> SUFFICES ASSUME NEW r \in Requests, IInv, LogEvent(r) PROVE IInv'
  OBVIOUS
<1>1. /\ pc[r] = "event" /\ pc' = [pc EXCEPT ![r] = "answer"] /\ Encode(<<r, 0>>)
      /\ UNCHANGED <<setup, serving, verdicts, judged, told, born>>
  BY DEF LogEvent, Goto
<1>2. pc'[r] = "answer" /\ \A q \in Requests \ {r} : pc'[q] = pc[q]
  BY <1>1 DEF IInv, HandlerTypes
<1>3. <<r, 0>> \in Entries /\ serving /\ asked[run] # <<>>
  BY <1>1 DEF Entries, IInv, Kept, InOrder, Active
<1>4. /\ LogTypes' /\ InOrder' /\ GoesOnWith(<<r, 0>>)
      /\ ~dead' => OnRecord(r, 0)'
  BY <1>1, <1>3, EncodeKeeps DEF IInv
<1>5. HandlerTypes'
  BY <1>1, <1>4 DEF IInv, HandlerTypes, GoesOnWith, setup, Stages, Active
<1>6. Calls(r)' /\ Telling(r)'
  BY <1>1, <1>2 DEF IInv, Calls, Telling, setup
<1>7. Kept(r)'
  <2>1. Kept(r) /\ judged[r] \in Nat
    BY DEF IInv, HandlerTypes
  <2>2. ASSUME born'[r] = run', ~dead', NEW i \in 1..judged[r] PROVE OnRecord(r, i)'
    <3>1. OnRecord(r, i) /\ i \in Nat
      BY <1>1, <1>4, <2>1, <2>2 DEF Kept, GoesOnWith
    <3> QED
      BY <1>4, <3>1 DEF GoesOnWith
  <2> QED
    BY <1>1, <1>2, <1>3, <1>4, <2>1, <2>2 DEF Kept
<1> QED
  BY <1>1, <1>2, <1>4, <1>5, <1>6, <1>7, OneMoves

-----------------------------------------------------------------------------
(* The machine.                                                             *)

\* The first message of a run, whatever is in the file.
LEMMA StartupKeeps == IInv /\ Startup => IInv'
<1> SUFFICES ASSUME IInv, Startup PROVE IInv'
  OBVIOUS
<1>1. serving' = TRUE /\ Encode(Message) /\ UNCHANGED <<setup, handlers>>
  BY DEF Startup
<1>2. UNCHANGED <<pc, verdicts, judged, told, born, sinks, dryRun>>
  BY <1>1 DEF setup, handlers
<1>3. LogTypes' /\ InOrder' /\ GoesOnWith(Message)
  BY <1>1, NoRequest, EncodeKeeps DEF IInv
<1>4. HandlerTypes'
  BY <1>1, <1>2, <1>3 DEF IInv, HandlerTypes, GoesOnWith
<1>5. ASSUME NEW r \in Requests PROVE Calls(r)' /\ Telling(r)' /\ Kept(r)'
  <2>1. Kept(r)'
    BY <1>1, <1>2, <1>3, NoRequest, KeptByOthers
  <2> QED
    BY <1>2, <2>1 DEF IInv, Calls, Telling
<1> QED
  BY <1>3, <1>4, <1>5 DEF IInv

\* The next run finds nothing of its own in the file, and no request is of it.
LEMMA RestartKeeps == IInv /\ Restart => IInv'
<1> SUFFICES ASSUME IInv, Restart PROVE IInv'
  OBVIOUS
<1>1. /\ run < MaxRuns /\ run' = run + 1 /\ dead' = FALSE /\ serving' = FALSE
      /\ start' = [start EXCEPT ![run'] = Len(file)]
      /\ UNCHANGED <<setup, file, asked, verdicts, judged, told, born>>
      /\ pc' = [r \in Requests |-> IF pc[r] \in Active THEN "killed" ELSE pc[r]]
  BY DEF Restart
<1>2. /\ run \in 1..MaxRuns /\ run' \in 1..MaxRuns /\ run' > run /\ run \in Nat
      /\ Len(file) \in Nat
  BY <1>1, ReportingAssumption DEF IInv, LogTypes
<1>3. /\ start'[run'] = Len(file)
      /\ \A n \in 1..MaxRuns : n # run' => start'[n] = start[n]
      /\ asked'[run'] = <<>> /\ Len(asked'[run']) = 0
  <2>1. asked'[run'] = <<>>
    BY <1>1, <1>2 DEF IInv, InOrder
  <2> QED
    BY <1>1, <1>2, <2>1 DEF IInv, LogTypes
<1>4. LogTypes'
  BY <1>1, <1>2 DEF IInv, LogTypes
<1>5. ASSUME NEW n \in 1..run' PROVE Part(n)'
  <2>1. CASE n = run'
    <3>1. start'[n] = Len(file) /\ End(n)' = Len(file) /\ asked'[n] = <<>>
      BY <1>1, <1>3, <2>1 DEF End
    <3> QED
      BY <1>1, <1>2, <1>3, <2>1, <3>1 DEF Part
  <2>2. CASE n \in 1..run
    <3>1. /\ Part(n) /\ start'[n] = start[n]
          /\ n = run => End(n)' = Len(file) /\ End(n) = Len(file)
          /\ n # run => End(n)' = start'[n + 1] /\ End(n) = start[n + 1]
      BY <1>1, <1>2, <1>3, <2>2 DEF IInv, InOrder, End
    <3>2. End(n)' = End(n)
      BY <1>1, <1>2, <1>3, <2>2, <3>1
    <3> QED
      BY <1>1, <3>1, <3>2 DEF Part
  <2> QED
    BY <1>1, <1>2, <2>1, <2>2
<1>6. Alive'
  BY <1>1, <1>2, <1>3 DEF Alive
<1>7. InOrder'
  <2>1. \A n \in 1..MaxRuns : start'[n] <= Len(file') /\ (n > run' => asked'[n] = <<>>)
    BY <1>1, <1>2, <1>3 DEF IInv, InOrder
  <2> QED
    BY <1>1, <1>5, <1>6, <2>1 DEF InOrder
<1>8. HandlerTypes'
  <2>1. 0..run \subseteq 0..run'
    BY <1>1, <1>2
  <2> QED
    BY <1>1, <2>1 DEF IInv, HandlerTypes, setup, Stages
<1>9. ASSUME NEW r \in Requests PROVE Calls(r)' /\ Telling(r)' /\ Kept(r)'
  <2>1. Calls(r) /\ Telling(r) /\ Kept(r)
    BY DEF IInv
  <2>2. /\ pc'[r] = (IF pc[r] \in Active THEN "killed" ELSE pc[r])
        /\ pc[r] \in Stages /\ born'[r] # run' /\ sinks' = sinks
    BY <1>1, <1>2 DEF IInv, HandlerTypes, setup
  <2>3. pc'[r] \notin Active
    BY <2>2 DEF Active
  <2>4. Calls(r)' /\ Telling(r)'
    BY <1>1, <2>1, <2>2 DEF Calls, Telling, Active
  <2>5. Kept(r)'
    BY <1>1, <2>1, <2>2, <2>3 DEF Kept, Active
  <2> QED
    BY <2>4, <2>5
<1> QED
  BY <1>4, <1>7, <1>8, <1>9 DEF IInv

-----------------------------------------------------------------------------
(* The theorems.                                                            *)

\* IInv is kept by every step.
THEOREM Inductive == Spec => []IInv
<1>1. Init => IInv
  BY InitIInv
<1>2. IInv /\ [Next]_vars => IInv'
  <2> SUFFICES ASSUME IInv, [Next]_vars PROVE IInv'
    OBVIOUS
  <2>1. ASSUME NEW r \in Requests, Handle(r) PROVE IInv'
    <3>1. CASE UNCHANGED <<setup, serving, log, verdicts, judged, told, born>>
      <4>1. LogTypes' /\ InOrder' /\ GoesOnWith(Message)
        BY <3>1, LogUntouched DEF IInv
      <4>2. CASE Abort(r)
        BY <3>1, <4>1, <4>2, GoesOn DEF Abort
      <4>3. CASE WriteDenyResponse(r)
        BY <3>1, <4>1, <4>3, GoesOn DEF WriteDenyResponse
      <4>4. CASE Forward(r)
        BY <3>1, <4>1, <4>4, GoesOn DEF Forward
      <4>5. CASE Respond(r)
        BY <3>1, <4>1, <4>5, GoesOn DEF Respond
      <4> QED
        BY <2>1, <4>2, <4>3, <4>4, <4>5, ArriveKeeps, RejectKeeps, LogDecisionKeeps,
           RemarkKeeps, TellKeeps, UpstreamFailsKeeps, LogEventKeeps DEF Handle
    <3>2. CASE ~UNCHANGED <<setup, serving, log, verdicts, judged, told, born>>
      BY <2>1, <3>2, ArriveKeeps, RejectKeeps, LogDecisionKeeps, RemarkKeeps, TellKeeps,
         UpstreamFailsKeeps, LogEventKeeps
      DEF Handle, Abort, WriteDenyResponse, Forward, Respond
    <3> QED
      BY <3>1, <3>2
  <2>2. CASE UNCHANGED vars
    <3>1. UNCHANGED <<setup, serving, log, handlers>>
      BY <2>2 DEF vars
    <3>2. UNCHANGED <<sinks, dryRun, serving, pc, verdicts, judged, told, born>>
      BY <3>1 DEF setup, handlers
    <3>3. LogTypes' /\ InOrder' /\ GoesOnWith(Message)
      BY <3>1, LogUntouched DEF IInv
    <3>4. HandlerTypes'
      BY <3>2, <3>3 DEF IInv, HandlerTypes, GoesOnWith
    <3>5. ASSUME NEW r \in Requests PROVE Calls(r)' /\ Telling(r)' /\ Kept(r)'
      <4>1. Kept(r)'
        BY <3>2, <3>3, NoRequest, KeptByOthers
      <4> QED
        BY <3>2, <4>1 DEF IInv, Calls, Telling
    <3> QED
      BY <3>3, <3>4, <3>5 DEF IInv
  <2> QED
    BY <2>1, <2>2, StartupKeeps, RestartKeeps DEF Next
<1> QED
  BY <1>1, <1>2, PTL DEF Spec

\* The variables keep their types, and the sinks that were told are the first ones.
THEOREM TypeCorrect == Spec => []TypeOK
<1>1. IInv => TypeOK
  <2> SUFFICES ASSUME IInv PROVE TypeOK
    OBVIOUS
  <2>1. start \in [1..MaxRuns -> 0..Len(file)]
    <3>1. Len(file) \in Nat /\ \A n \in 1..MaxRuns : start[n] \in Nat /\ start[n] <= Len(file)
      BY DEF IInv, LogTypes, InOrder
    <3> QED
      BY <3>1 DEF IInv, LogTypes
  <2>2. ASSUME NEW r \in Requests PROVE judged[r] \in 0..Len(verdicts[r])
    BY DEF IInv, HandlerTypes, Calls
  <2>3. ASSUME NEW r \in Requests PROVE IsPrefix(told[r], sinks)
    <3>1. told[r] \in Seq(Names) /\ sinks \in Seq(Names)
      BY SinkTypes DEF IInv, HandlerTypes, Names
    <3>2. Len(told[r]) <= Len(sinks) /\ \A i \in 1..Len(told[r]) : told[r][i] = sinks[i]
      BY DEF IInv, Telling
    <3> QED
      BY <3>1, <3>2, PrefixOf
  <2> QED
    BY <2>1, <2>2, <2>3 DEF IInv, LogTypes, HandlerTypes, TypeOK, Chunks
<1> QED
  BY <1>1, Inductive, PTL

\* However the disk fills up, and over any number of restarts and of handlers, refused,
\* failed or killed at any point: what a run has written is the beginning of what it was
\* to write; while the encoder lives, a reader of the whole file, with the half lines
\* that the runs before have left, finds every decision of this run and the event of
\* every request that has its answer; and a request that ended otherwise has no event
\* (logger.go:28-41, 43-91, proxy.go:189-199, intercept.go:68-70, 91-105, 113-115).
THEOREM LogIsABeginning == Spec => []LogHasNoHoles
<1>1. IInv => LogHasNoHoles
  <2> SUFFICES ASSUME IInv PROVE LogHasNoHoles
    OBVIOUS
  <2>1. ASSUME NEW n \in 1..run PROVE RunIsABeginning(n) /\ RunIsReadable(n)
    <3> DEFINE written == End(n) - start[n]
    <3>1. Part(n) /\ start[n] \in Nat /\ End(n) \in Nat /\ written \in Nat
      <4>1. n \in 1..MaxRuns /\ (n # run => n + 1 \in 1..MaxRuns) /\ Part(n)
        BY ReportingAssumption DEF IInv, LogTypes, InOrder
      <4>2. start[n] \in Nat /\ End(n) \in Nat
        <5>1. Len(file) \in Nat /\ start[n] \in Nat /\ (n # run => start[n + 1] \in Nat)
          BY <4>1 DEF IInv, LogTypes
        <5> QED
          BY <5>1 DEF End
      <4> QED
        BY <4>1, <4>2 DEF Part
    <3>2. n = run /\ ~dead => /\ written = Len(asked[n])
                              /\ \A i \in 1..written : file[start[n] + i].whole
      BY DEF IInv, InOrder, Alive, End
    <3>3. RunIsABeginning(n)
      BY <3>1, <3>2 DEF RunIsABeginning, Part
    <3>4. ASSUME NEW i \in 2..written, i < written \/ (n = run /\ ~dead)
          PROVE  OnItsOwnLine(start[n] + i)
      <4>1. i - 1 \in 1..written - 1 /\ (start[n] + i) - 1 = start[n] + (i - 1)
        BY <3>1
      <4>2. file[(start[n] + i) - 1].whole
        BY <3>1, <4>1 DEF Part
      <4>3. file[start[n] + i].whole
        <5>1. CASE i < written
          <6>1. i \in 1..written - 1
            BY <3>1, <5>1
          <6> QED
            BY <3>1, <6>1 DEF Part
        <5>2. CASE n = run /\ ~dead
          <6>1. i \in 1..written
            BY <3>1
          <6> QED
            BY <3>2, <5>2, <6>1
        <5> QED
          BY <3>4, <5>1, <5>2
      <4> QED
        BY <4>2, <4>3 DEF OnItsOwnLine
    <3> QED
      BY <3>1, <3>3, <3>4 DEF RunIsReadable, Part
  <2>2. ASSUME NEW r \in Requests
        PROVE  /\ born[r] = run /\ ~dead =>
                    /\ \A i \in 1..judged[r] : OnRecord(r, i)
                    /\ pc[r] = "answered" => OnRecord(r, 0)
               /\ pc[r] \in {"refused", "failed"} =>
                    \A k \in 1..Len(file) : file[k].entry # <<r, 0>>
    BY DEF IInv, Kept
  <2> QED
    BY <2>1, <2>2 DEF LogHasNoHoles
<1> QED
  BY <1>1, Inductive, PTL

\* Any handler has given the alert to all the sinks there are before it refuses or goes
\* on, whichever of them fail and however many handlers do so at once
\* (manager.go:22-30, intercept.go:73-75, 85-87).
THEOREM SinksAreTold == Spec => []EverySinkTold
<1>1. IInv => EverySinkTold
  BY DEF IInv, Telling, EverySinkTold
<1> QED
  BY <1>1, Inductive, PTL
=============================================================================
