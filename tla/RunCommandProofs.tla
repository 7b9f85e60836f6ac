-------------------------- MODULE RunCommandProofs --------------------------
(***************************************************************************)
(* Whatever fails, whenever the user interrupts, and for tables and pools  *)
(* of any size: no command takes a truncated scan for a whole one, leaves  *)
(* a scan behind, keeps a connection pool it could not use, or goes on     *)
(* after an interrupt that a scan could still see.                         *)
(***************************************************************************)
EXTENDS RunCommand, SequenceTheorems, FiniteSetTheorems, TLAPS

(***************************************************************************)
(* The inductive invariant.                                                *)
(***************************************************************************)
\* Where a command is before its scans.
Creating == {"config", "source", "target", "mapper", "inspectors", "uncreated", "start"}

\* Where a command that has files, or has updated the shadow, can be.
HasFiles  == {"closing", "fetched", "printing"} \union Over
HasShadow == {"printing"} \union Over

\* The rows a scan went through, and those it wrote, once it is past its stream.
Past(s, what) == \E n \in 1..Len(Steps(s)) : n < at[s] /\ Steps(s)[n] \in what

WillAskRowsErr(s) == \E m \in 1..Len(Steps(s)) : m >= at[s] /\ Steps(s)[m] = "rows.Err"

ScanInv(s) ==
  /\ at[s] = 0 => ended[s] = "no" /\ ~connected[s]
  /\ ended[s] # "no" => ~connected[s]
  /\ ended[s] = "done" => at[s] = Len(Steps(s))
  /\ Past(s, Streams) => seen[s] = Rows \/ lost[s]
  /\ Past(s, {"send"}) => ~Rejected(s)
  /\ s # "inspect-source-extract" /\ lost[s] =>
       ended[s] = "failed" \/ (ended[s] = "no" /\ WillAskRowsErr(s))

\* The command waits for the scans that run, and for no others.
JoinInv ==
  /\ main \in Creating => \A s \in Scan : at[s] = 0
  /\ main = "waiting" => \A s \in Scan : at[s] > 0 =>
       /\ \E b \in 1..batch : s \in Batches[b]
       /\ ended[s] = "no" => s \in Batches[batch]
  /\ main \in {"closing", "fetched", "printing", "returned", "exited"} =>
       \A s \in Scan : at[s] > 0 => ended[s] # "no"
  /\ consumer = "running" => main \in {"waiting", "closing", "killed"} /\ IsFetch /\ ~initialLoad

\* Files come from the batch of a fetch, all of whose scans are done.
FilesInv ==
  /\ dataFiles # {} => main \in HasFiles /\ IsFetch /\ \A s \in Batches[1] : ended[s] = "done"
  /\ shadow => main \in HasShadow

\* An early interrupt is a scan that fails, or will: it cannot get past its query.
EarlyInv ==
  /\ handler # "default" => IsFetch
  /\ early =>
       /\ interrupted /\ IsFetch
       /\ main \in {"start", "waiting", "closing", "exited", "killed"}
       /\ dataFiles = {} /\ ~shadow
       /\ \E s \in Batches[1] : ended[s] = "failed" \/ ToSend(s)

\* The parts a command creates, in the order it creates them.
Parts == <<"config">> \o Plan.creates \o <<"start">>

PartOfPlan == main \in {"config", "source", "target", "mapper", "inspectors", "start"} =>
                \E n \in 1..Len(Parts) : Parts[n] = main

RunInv ==
  /\ TypeOK /\ PartOfPlan
  /\ \A s \in Scan : ScanInv(s)
  /\ JoinInv /\ FilesInv /\ EarlyInv
  /\ CreationAllOrNothing

-----------------------------------------------------------------------------
(***************************************************************************)
(* What the sequences of calls have in common.                             *)
(***************************************************************************)
\* What a scan calls.
Call ==
  {"temp-file", "kept-file", "header", "setting", "columns", "flush", "rewind",
   "acquire", "exec", "send", "copy", "rows", "unchecked-rows", "rows.Err"}

\* A scan ends with its file rewound, has sent a query and read its rows, and,
\* if it is one that checks, asks rows.Err after any rows that go through Go.
WellFormed(steps, checked) ==
  /\ steps \in Seq(Call) /\ steps[Len(steps)] = "rewind"
  /\ \E n \in 1..Len(steps) : steps[n] = "send"
  /\ \E n \in 1..Len(steps) : steps[n] \in Streams
  /\ checked => \A n \in 1..Len(steps) :
       /\ steps[n] # "unchecked-rows"
       /\ steps[n] = "rows" => \E m \in 1..Len(steps) : m > n /\ steps[m] = "rows.Err"

LEMMA ScanWellFormed ==
  ASSUME NEW s \in Scan
  PROVE  WellFormed(ScanSteps(s), s # "inspect-source-extract")
<1>1. WellFormed(PostgresScan, TRUE) /\ WellFormed(PostgresTargetScan, TRUE)
  BY DEF WellFormed, Call, Streams, PostgresScan, PostgresTargetScan
<1>2. WellFormed(PostgresExtractScan, TRUE)
  BY DEF WellFormed, Call, Streams, PostgresExtractScan
<1>3. WellFormed(PostgresInspectScan, TRUE)
  BY DEF WellFormed, Call, Streams, PostgresInspectScan
<1>4. WellFormed(PostgresInspectExtractScan, FALSE)
  BY DEF WellFormed, Call, Streams, PostgresInspectExtractScan
<1>5. WellFormed(ClickHouseScan, TRUE)
  BY DEF WellFormed, Call, Streams, ClickHouseScan
<1>6. WellFormed(ClickHouseInspectScan, TRUE)
  BY DEF WellFormed, Call, Streams, ClickHouseInspectScan
<1>7. WellFormed(MySQLScan, TRUE)
  BY DEF WellFormed, Call, Streams, MySQLScan
<1> QED
  BY <1>1, <1>2, <1>3, <1>4, <1>5, <1>6, <1>7 DEF Scan, ScanSteps

LEMMA SizeThenScan ==
  ASSUME NEW d \in Seq({"exec"}), NEW q, NEW checked \in BOOLEAN, WellFormed(q, checked)
  PROVE  WellFormed(d \o q, checked)
<1> DEFINE steps == d \o q
<1>1. /\ d \in Seq(Call) /\ q \in Seq(Call)
      /\ Len(d) \in Nat /\ Len(q) \in Nat
  BY DEF WellFormed, Call
<1>2. /\ steps \in Seq(Call) /\ Len(steps) = Len(d) + Len(q)
      /\ \A n \in 1..Len(steps) :
           steps[n] = IF n <= Len(d) THEN d[n] ELSE q[n - Len(d)]
  BY <1>1
<1>3. \A n \in 1..Len(d) : d[n] = "exec"
  OBVIOUS
<1>4. Len(q) > 0
  BY <1>1 DEF WellFormed
<1> HIDE DEF steps
<1>5. ASSUME NEW n \in 1..Len(q)
      PROVE  n + Len(d) \in 1..Len(steps) /\ steps[n + Len(d)] = q[n]
  <2>1. /\ n + Len(d) \in 1..Len(steps) /\ ~(n + Len(d) <= Len(d))
        /\ (n + Len(d)) - Len(d) = n
    BY <1>1, <1>2
  <2> QED BY <1>2, <2>1
<1>6. steps[Len(steps)] = "rewind"
  <2>1. Len(q) \in 1..Len(q) /\ Len(q) + Len(d) = Len(steps)
    BY <1>1, <1>2, <1>4
  <2>2. steps[Len(q) + Len(d)] = q[Len(q)]
    BY <2>1, <1>5
  <2> QED BY <2>1, <2>2 DEF WellFormed
<1>7. \E n \in 1..Len(steps) : steps[n] = "send"
  BY <1>5 DEF WellFormed
<1>8. \E n \in 1..Len(steps) : steps[n] \in Streams
  BY <1>5 DEF WellFormed
<1>9. ASSUME checked, NEW n \in 1..Len(steps)
      PROVE  /\ steps[n] # "unchecked-rows"
             /\ steps[n] = "rows" => \E m \in 1..Len(steps) : m > n /\ steps[m] = "rows.Err"
  <2>1. CASE n <= Len(d)
    BY <2>1, <1>1, <1>2, <1>3
  <2>2. CASE n > Len(d)
    <3>1. n - Len(d) \in 1..Len(q) /\ steps[n] = q[n - Len(d)]
      BY <2>2, <1>1, <1>2
    <3>2. CASE steps[n] = "rows"
      <4>1. PICK m \in 1..Len(q) : m > n - Len(d) /\ q[m] = "rows.Err"
        BY <3>1, <3>2, <1>9 DEF WellFormed
      <4> QED BY <4>1, <3>2, <1>1, <1>5
    <3> QED BY <3>1, <3>2, <1>9 DEF WellFormed
  <2> QED BY <2>1, <2>2, <1>1, <1>2
<1> QED BY <1>2, <1>6, <1>7, <1>8, <1>9 DEF WellFormed, steps

\* So for what a goroutine of a command does, with the size of the table first
\* or without.
LEMMA StepsWellFormed ==
  ASSUME NEW s \in Scan, scheme \in [Side -> Scheme]
  PROVE  WellFormed(Steps(s), s # "inspect-source-extract")
<1>1. DataSize(SideOf(s)) \in Seq({"exec"})
  <2>1. SideOf(s) \in Side
    BY DEF SideOf, Side
  <2>2. scheme[SideOf(s)] \in Scheme
    BY <2>1
  <2>3. <<"exec">> \in Seq({"exec"}) /\ <<"exec", "exec">> \in Seq({"exec"})
    OBVIOUS
  <2> QED
    BY <2>2, <2>3 DEF DataSize, Scheme, PostgresDataSize, MySQLDataSize, ClickHouseDataSize
<1>2. WellFormed(DataSize(SideOf(s)) \o ScanSteps(s), s # "inspect-source-extract")
  BY <1>1, ScanWellFormed, SizeThenScan
<1> QED BY <1>2, ScanWellFormed DEF Steps

\* What the proofs below use of it.
LEMMA StepsEnd ==
  ASSUME NEW s \in Scan, scheme \in [Side -> Scheme]
  PROVE  /\ Len(Steps(s)) \in Nat /\ Len(Steps(s)) > 0
         /\ \A n \in 1..Len(Steps(s)) : Steps(s)[n] \in Call
         /\ Steps(s)[Len(Steps(s))] = "rewind"
         /\ \E n \in 1..Len(Steps(s)) : n < Len(Steps(s)) /\ Steps(s)[n] = "send"
         /\ \E n \in 1..Len(Steps(s)) : n < Len(Steps(s)) /\ Steps(s)[n] \in Streams
         /\ s # "inspect-source-extract" => \A n \in 1..Len(Steps(s)) :
               /\ Steps(s)[n] # "unchecked-rows"
               /\ Steps(s)[n] = "rows" =>
                    \E m \in 1..Len(Steps(s)) : m > n /\ Steps(s)[m] = "rows.Err"
<1> DEFINE q == Steps(s)
<1>1. WellFormed(q, s # "inspect-source-extract")
  BY StepsWellFormed
<1> HIDE DEF q
<1>2. Len(q) \in Nat /\ Len(q) > 0
  BY <1>1 DEF WellFormed
<1>3. \A n \in 1..Len(q) : q[n] \in Call
  BY <1>1 DEF WellFormed
<1>4. "rewind" # "send" /\ "rewind" \notin Streams
  BY DEF Streams
<1> QED BY <1>1, <1>2, <1>3, <1>4 DEF WellFormed, q

-----------------------------------------------------------------------------
(***************************************************************************)
(* A step of one scan.                                                     *)
(***************************************************************************)
\* What the user chose decides what a scan calls, and stays.
LEMMA UserFixed ==
  ASSUME UNCHANGED user
  PROVE  /\ \A s : Steps(s)' = Steps(s) /\ Rejected(s)' = Rejected(s)
         /\ IsFetch' = IsFetch /\ Plan' = Plan /\ Batches' = Batches /\ Parts' = Parts
<1> USE DEF user
<1>1. IsFetch' = IsFetch
  BY DEF IsFetch
<1>2. ASSUME NEW s
      PROVE  Steps(s)' = Steps(s) /\ Rejected(s)' = Rejected(s)
  <2>1. ScanSteps(s)' = ScanSteps(s)
    BY Zenon DEF ScanSteps
  <2>2. DataSize(SideOf(s))' = DataSize(SideOf(s))
    BY Zenon DEF DataSize, SideOf
  <2>3. Rejected(s)' = Rejected(s)
    BY Zenon DEF Rejected, TargetDialect, SourceDialect, Understands
  <2> QED BY <1>1, <2>1, <2>2, <2>3, Zenon DEF Steps
<1>3. Plan' = Plan
  BY <1>1, Zenon DEF Plan, InitialLoadCommand, DefaultCommand, InspectCommand, SourceScanBenchmark,
              SourceExtractScanBenchmark, TargetScanBenchmark
<1> QED BY <1>1, <1>2, <1>3, Zenon DEF Batches, Parts

\* The part of the type invariant that is about scans.
ScanType ==
  /\ scheme \in [Side -> Scheme]
  /\ at \in [Scan -> Nat] /\ \A s \in Scan : at[s] <= Len(Steps(s))
  /\ seen \in [Scan -> 0..Rows]
  /\ ended \in [Scan -> {"no", "done", "failed"}]
  /\ file \in [Scan -> {"none", "kept", "guarded", "removed"}]
  /\ lost \in [Scan -> BOOLEAN] /\ connected \in [Scan -> BOOLEAN]

\* A step of s leaves the other scans, and all that is not a scan, alone.
OnlyScan(s) ==
  /\ UNCHANGED <<user, caller, signals>>
  /\ \A t \in Scan \ {s} :
       /\ at'[t] = at[t] /\ ended'[t] = ended[t] /\ seen'[t] = seen[t]
       /\ lost'[t] = lost[t] /\ connected'[t] = connected[t]

LEMMA RunningStep ==
  ASSUME ScanType, NEW s \in Scan, Running(s)
  PROVE  /\ at[s] \in 1..Len(Steps(s)) /\ ended[s] = "no"
         /\ StepOf(s) = Steps(s)[at[s]] /\ StepOf(s) \in Call
         /\ StepOf(s) # "rewind" => at[s] < Len(Steps(s))
<1>1. at[s] \in Nat /\ at[s] > 0 /\ at[s] <= Len(Steps(s)) /\ ended[s] = "no"
  BY DEF ScanType, Running
<1>2. Len(Steps(s)) \in Nat /\ Steps(s)[Len(Steps(s))] = "rewind"
  BY StepsEnd DEF ScanType
<1>3. \A n \in 1..Len(Steps(s)) : Steps(s)[n] \in Call
  BY StepsEnd DEF ScanType
<1> QED BY <1>1, <1>2, <1>3 DEF StepOf

LEMMA FailStep ==
  ASSUME ScanType, NEW s \in Scan, ScanInv(s), Running(s), Fail(s),
         UNCHANGED <<user, caller, signals>>
  PROVE  OnlyScan(s) /\ ScanType' /\ ScanInv(s)' /\ ~connected'[s] /\ ended'[s] = "failed"
<1>1. Steps(s)' = Steps(s) /\ Rejected(s)' = Rejected(s) /\ \A t \in Scan : Steps(t)' = Steps(t)
  BY UserFixed
<1>2. /\ at' = at /\ seen' = seen /\ lost' = lost
      /\ ended' = [ended EXCEPT ![s] = "failed"]
      /\ connected' = [connected EXCEPT ![s] = FALSE]
      /\ file' = [file EXCEPT ![s] = IF @ = "guarded" THEN "removed" ELSE @]
  BY DEF Fail
<1>3. ScanType'
  <2>1. scheme' = scheme
    BY DEF user
  <2>2. /\ ended' \in [Scan -> {"no", "done", "failed"}]
        /\ connected' \in [Scan -> BOOLEAN]
        /\ file' \in [Scan -> {"none", "kept", "guarded", "removed"}]
    BY <1>2 DEF ScanType
  <2> QED BY <1>1, <1>2, <2>1, <2>2 DEF ScanType
<1>4. ended'[s] = "failed" /\ ~connected'[s]
  BY <1>2 DEF ScanType
<1>5. OnlyScan(s)
  BY <1>2 DEF OnlyScan, ScanType
<1>6. ScanInv(s)'
  <2>1. at[s] > 0 /\ at[s] \in Nat
    BY DEF Running, ScanType
  <2> QED BY <1>1, <1>2, <1>4, <2>1 DEF ScanInv, Past
<1> QED BY <1>3, <1>4, <1>5, <1>6

\* A step that succeeds: what it may leave behind it.
LEMMA GoOnStep ==
  ASSUME ScanType, NEW s \in Scan, ScanInv(s), Running(s), GoOn(s),
         UNCHANGED <<user, caller, signals>>,
         seen' = seen,
         lost' = lost \/ lost' = [lost EXCEPT ![s] = TRUE],
         file' \in [Scan -> {"none", "kept", "guarded", "removed"}],
         StepOf(s) \in Streams => seen[s] = Rows \/ lost'[s],
         StepOf(s) = "send" => ~Rejected(s),
         s # "inspect-source-extract" /\ lost'[s] =>
           \E m \in 1..Len(Steps(s)) : m > at[s] /\ Steps(s)[m] = "rows.Err"
  PROVE  /\ OnlyScan(s) /\ ScanType' /\ ScanInv(s)'
         /\ connected'[s] => connected[s]
         /\ \/ ended'[s] = "done" /\ at[s] = Len(Steps(s))
            \/ ended'[s] = "no" /\ at'[s] = at[s] + 1
<1>1. Steps(s)' = Steps(s) /\ Rejected(s)' = Rejected(s) /\ \A t \in Scan : Steps(t)' = Steps(t)
  BY UserFixed
<1>2. at[s] \in 1..Len(Steps(s)) /\ ended[s] = "no" /\ StepOf(s) = Steps(s)[at[s]]
  BY RunningStep
<1>3. Len(Steps(s)) \in Nat
  BY StepsEnd DEF ScanType
<1>4. scheme' = scheme
  BY DEF user
<1>5. lost' \in [Scan -> BOOLEAN] /\ (lost[s] => lost'[s]) /\ \A t \in Scan \ {s} : lost'[t] = lost[t]
  BY DEF ScanType
<1>6. CASE at[s] = Len(Steps(s))
  <2>1. /\ at' = at /\ ended' = [ended EXCEPT ![s] = "done"]
        /\ connected' = [connected EXCEPT ![s] = FALSE]
    BY <1>6 DEF GoOn
  <2>2. /\ ended' \in [Scan -> {"no", "done", "failed"}] /\ connected' \in [Scan -> BOOLEAN]
        /\ ended'[s] = "done" /\ ~connected'[s]
    BY <2>1 DEF ScanType
  <2>3. ScanType'
    BY <1>1, <1>4, <1>5, <2>1, <2>2 DEF ScanType
  <2>4. OnlyScan(s)
    BY <1>5, <2>1 DEF OnlyScan, ScanType
  <2>5. s # "inspect-source-extract" => ~lost'[s]
    BY <1>2, <1>3, <1>6
  <2>6. ScanInv(s)'
    BY <1>1, <1>2, <1>5, <1>6, <2>1, <2>2, <2>5 DEF ScanInv, Past
  <2> QED BY <1>6, <2>2, <2>3, <2>4, <2>6
<1>7. CASE at[s] # Len(Steps(s))
  <2>1. at' = [at EXCEPT ![s] = @ + 1] /\ ended' = ended /\ connected' = connected
    BY <1>7 DEF GoOn
  <2>2. at' \in [Scan -> Nat] /\ at'[s] = at[s] + 1 /\ \A t \in Scan \ {s} : at'[t] = at[t]
    BY <2>1 DEF ScanType
  <2>3. \A t \in Scan : at'[t] <= Len(Steps(t))
    <3> SUFFICES ASSUME NEW t \in Scan PROVE at'[t] <= Len(Steps(t))
      OBVIOUS
    <3>1. CASE t = s
      <4>1. at[s] + 1 <= Len(Steps(s))
        BY <1>2, <1>3, <1>7
      <4> QED BY <3>1, <4>1, <2>2
    <3>2. CASE t # s
      <4>1. at'[t] = at[t] /\ at[t] <= Len(Steps(t))
        BY <3>2, <2>2 DEF ScanType
      <4> QED BY <4>1
    <3> QED BY <3>1, <3>2
  <2>4. ScanType'
    BY <1>1, <1>4, <1>5, <2>1, <2>2, <2>3 DEF ScanType
  <2>5. OnlyScan(s)
    BY <1>5, <2>1, <2>2 DEF OnlyScan
  <2>6. Past(s, Streams)' => seen'[s] = Rows \/ lost'[s]
    <3> SUFFICES ASSUME NEW n \in 1..Len(Steps(s)), n < at[s] + 1, Steps(s)[n] \in Streams
                 PROVE  seen'[s] = Rows \/ lost'[s]
      BY <1>1, <2>2 DEF Past, Streams
    <3>1. CASE n = at[s]
      BY <3>1, <1>2
    <3>2. CASE n < at[s]
      BY <3>2, <1>5 DEF ScanInv, Past
    <3> QED BY <3>1, <3>2, <1>2
  <2>7. Past(s, {"send"})' => ~Rejected(s)
    <3> SUFFICES ASSUME NEW n \in 1..Len(Steps(s)), n < at[s] + 1, Steps(s)[n] \in {"send"}
                 PROVE  ~Rejected(s)
      BY <1>1, <2>2 DEF Past
    <3>1. CASE n = at[s]
      BY <3>1, <1>2
    <3>2. CASE n < at[s]
      BY <3>2 DEF ScanInv, Past
    <3> QED BY <3>1, <3>2, <1>2
  <2>8. s # "inspect-source-extract" /\ lost'[s] => WillAskRowsErr(s)'
    BY <1>1, <1>2, <2>2 DEF WillAskRowsErr
  <2>9. ScanInv(s)'
    BY <1>1, <1>2, <2>1, <2>2, <2>6, <2>7, <2>8 DEF ScanInv
  <2> QED BY <1>2, <2>1, <2>2, <2>4, <2>5, <2>9
<1> QED BY <1>6, <1>7

\* What a step does to the place of a scan.  A query that is sent is one of a
\* context that lives.
Moves(s) ==
  \/ ended'[s] = "failed"
  \/ ended'[s] = "no" /\ at'[s] = at[s]
  \/ /\ StepOf(s) = "send" => ~Cancelled
     /\ \/ ended'[s] = "done" /\ at[s] = Len(Steps(s))
        \/ ended'[s] = "no" /\ at'[s] = at[s] + 1

LEMMA ScanStep ==
  ASSUME ScanType, NEW s \in Scan, ScanInv(s), ScanNext(s), Rows \in Nat
  PROVE  /\ OnlyScan(s) /\ ScanType' /\ ScanInv(s)'
         /\ Running(s) /\ Moves(s)
         /\ connected'[s] => connected[s] \/ ConnectionFree(SideOf(s))
<1>1. Running(s) /\ UNCHANGED <<user, caller, signals>>
  BY DEF ScanNext, LocalStep, Acquire, ServerCall, NextRow, LastRow, StreamBreaks, RowsErr
<1>2. /\ at[s] \in 1..Len(Steps(s)) /\ ended[s] = "no"
      /\ StepOf(s) = Steps(s)[at[s]] /\ StepOf(s) \in Call
      /\ StepOf(s) # "rewind" => at[s] < Len(Steps(s))
  BY <1>1, RunningStep
<1>3. Len(Steps(s)) \in Nat
  BY StepsEnd DEF ScanType
<1>4. CASE Fail(s)
  BY <1>1, <1>4, FailStep DEF Moves
<1> DEFINE Going == /\ OnlyScan(s) /\ ScanType' /\ ScanInv(s)'
                    /\ connected'[s] => connected[s]
                    /\ \/ ended'[s] = "done" /\ at[s] = Len(Steps(s))
                       \/ ended'[s] = "no" /\ at'[s] = at[s] + 1
<1>5. ASSUME Going, StepOf(s) = "send" => ~Cancelled
      PROVE  /\ OnlyScan(s) /\ ScanType' /\ ScanInv(s)' /\ Running(s) /\ Moves(s)
             /\ connected'[s] => connected[s] \/ ConnectionFree(SideOf(s))
  BY <1>1, <1>5 DEF Moves
\* What is already lost is asked for later, unless this is where it is asked.
<1>7. s # "inspect-source-extract" /\ lost[s] /\ StepOf(s) # "rows.Err" =>
        \E m \in 1..Len(Steps(s)) : m > at[s] /\ Steps(s)[m] = "rows.Err"
  <2> SUFFICES ASSUME s # "inspect-source-extract", lost[s], StepOf(s) # "rows.Err"
               PROVE  \E m \in 1..Len(Steps(s)) : m > at[s] /\ Steps(s)[m] = "rows.Err"
    OBVIOUS
  <2>1. PICK m \in 1..Len(Steps(s)) : m >= at[s] /\ Steps(s)[m] = "rows.Err"
    BY <1>2 DEF ScanInv, WillAskRowsErr
  <2>2. m # at[s]
    BY <1>2, <2>1
  <2> QED BY <1>2, <2>1, <2>2
<1>8. CASE LocalStep(s) /\ ~Fail(s)
  <2>1. GoOn(s) /\ seen' = seen /\ lost' = lost
    BY <1>8 DEF LocalStep
  <2>2. StepOf(s) \notin Streams \union {"send", "rows.Err"}
    BY <1>8 DEF LocalStep, Streams
  <2>3. file' \in [Scan -> {"none", "kept", "guarded", "removed"}]
    BY <1>8 DEF LocalStep, ScanType
  <2>4. Going
    BY <1>1, <1>7, <2>1, <2>2, <2>3, GoOnStep
  <2> QED BY <1>5, <2>2, <2>4
<1>9. CASE ServerCall(s) /\ ~Fail(s)
  <2>1. /\ GoOn(s) /\ seen' = seen /\ lost' = lost /\ file' = file
        /\ ~Cancelled /\ (StepOf(s) = "send" => ~Rejected(s))
    BY <1>9 DEF ServerCall
  <2>2. StepOf(s) \notin Streams \union {"rows.Err"}
    BY <1>9 DEF ServerCall, Streams
  <2>3. Going
    BY <1>1, <1>7, <2>1, <2>2, GoOnStep DEF ScanType
  <2> QED BY <1>5, <2>1, <2>3
<1>10. CASE LastRow(s)
  <2>1. GoOn(s) /\ seen[s] = Rows /\ seen' = seen /\ lost' = lost /\ file' = file
    BY <1>10 DEF LastRow
  <2>2. StepOf(s) \notin {"send", "rows.Err"}
    BY <1>10 DEF LastRow, Streams
  <2>3. Going
    BY <1>1, <1>7, <2>1, <2>2, GoOnStep DEF ScanType
  <2> QED BY <1>5, <2>2, <2>3
<1>11. CASE StreamBreaks(s) /\ ~Fail(s)
  <2>1. /\ GoOn(s) /\ lost' = [lost EXCEPT ![s] = TRUE] /\ seen' = seen /\ file' = file
        /\ StepOf(s) \in {"rows", "unchecked-rows"}
    BY <1>11 DEF StreamBreaks, Streams
  <2>2. lost'[s]
    BY <2>1 DEF ScanType
  <2>3. s # "inspect-source-extract" =>
          \E m \in 1..Len(Steps(s)) : m > at[s] /\ Steps(s)[m] = "rows.Err"
    <3>1. s # "inspect-source-extract" => \A n \in 1..Len(Steps(s)) :
            /\ Steps(s)[n] # "unchecked-rows"
            /\ Steps(s)[n] = "rows" => \E m \in 1..Len(Steps(s)) : m > n /\ Steps(s)[m] = "rows.Err"
      BY StepsEnd DEF ScanType
    <3>2. Steps(s)[at[s]] \in {"rows", "unchecked-rows"}
      BY <1>2, <2>1
    <3> QED BY <1>2, <3>1, <3>2
  <2>4. StepOf(s) # "send"
    BY <2>1
  <2>5. Going
    BY <1>1, <2>1, <2>2, <2>3, <2>4, GoOnStep DEF ScanType
  <2> QED BY <1>5, <2>4, <2>5
<1>12. CASE RowsErr(s) /\ ~Fail(s)
  <2>1. GoOn(s) /\ ~lost[s] /\ seen' = seen /\ lost' = lost /\ file' = file
    BY <1>12 DEF RowsErr
  <2>2. StepOf(s) \notin Streams \union {"send"}
    BY <1>12 DEF RowsErr, Streams
  <2>3. Going
    BY <1>1, <2>1, <2>2, GoOnStep DEF ScanType
  <2> QED BY <1>5, <2>2, <2>3
<1>13. CASE NextRow(s) /\ ~Fail(s)
  <2>1. /\ seen[s] < Rows /\ seen' = [seen EXCEPT ![s] = @ + 1] /\ StepOf(s) \in Streams
        /\ at' = at /\ ended' = ended /\ file' = file /\ connected' = connected
    BY <1>13 DEF NextRow
  <2>2. lost' = lost \/ (StepOf(s) = "unchecked-rows" /\ lost' = [lost EXCEPT ![s] = TRUE])
    BY <1>13 DEF NextRow
  <2>3. /\ lost' \in [Scan -> BOOLEAN] /\ (lost[s] => lost'[s])
        /\ \A t \in Scan \ {s} : lost'[t] = lost[t]
    BY <2>2 DEF ScanType
  <2>4. s # "inspect-source-extract" => lost'[s] = lost[s]
    <3>1. s # "inspect-source-extract" => \A n \in 1..Len(Steps(s)) : Steps(s)[n] # "unchecked-rows"
      BY StepsEnd DEF ScanType
    <3> QED BY <1>2, <2>2, <3>1
  <2>5. seen' \in [Scan -> 0..Rows] /\ \A t \in Scan \ {s} : seen'[t] = seen[t]
    BY <2>1 DEF ScanType
  <2>6. ScanType'
    BY <1>1, <2>1, <2>3, <2>5, UserFixed DEF ScanType, user
  <2>7. OnlyScan(s)
    BY <1>1, <2>1, <2>3, <2>5 DEF OnlyScan
  <2>8. Past(s, Streams) => lost'[s]
    BY <2>1, <2>3 DEF ScanInv, ScanType
  <2>9. ScanInv(s)'
    <3>1. Steps(s)' = Steps(s) /\ Rejected(s)' = Rejected(s)
      BY <1>1, UserFixed
    <3>2. Past(s, Streams)' = Past(s, Streams) /\ Past(s, {"send"})' = Past(s, {"send"})
      BY <2>1, <3>1 DEF Past, Streams
    <3>3. WillAskRowsErr(s)' = WillAskRowsErr(s)
      BY <2>1, <3>1 DEF WillAskRowsErr
    <3> QED BY <1>2, <2>1, <2>4, <2>8, <3>1, <3>2, <3>3 DEF ScanInv
  <2> QED BY <1>1, <1>2, <2>1, <2>6, <2>7, <2>9 DEF Moves
<1>14. CASE Acquire(s) /\ ~Fail(s)
  <2>1. /\ ConnectionFree(SideOf(s)) /\ StepOf(s) = "acquire"
        /\ at' = [at EXCEPT ![s] = @ + 1] /\ connected' = [connected EXCEPT ![s] = TRUE]
        /\ seen' = seen /\ lost' = lost /\ ended' = ended /\ file' = file
    BY <1>14 DEF Acquire
  <2>2. /\ at' \in [Scan -> Nat] /\ at'[s] = at[s] + 1 /\ connected' \in [Scan -> BOOLEAN]
        /\ \A t \in Scan \ {s} : at'[t] = at[t] /\ connected'[t] = connected[t]
    BY <2>1 DEF ScanType
  <2>3. at[s] + 1 <= Len(Steps(s))
    BY <1>2, <1>3, <2>1
  <2>4. \A t \in Scan : at'[t] <= Len(Steps(t))
    <3> SUFFICES ASSUME NEW t \in Scan PROVE at'[t] <= Len(Steps(t))
      OBVIOUS
    <3>1. CASE t = s
      BY <3>1, <2>2, <2>3
    <3>2. CASE t # s
      <4>1. at'[t] = at[t] /\ at[t] <= Len(Steps(t))
        BY <3>2, <2>2 DEF ScanType
      <4> QED BY <4>1
    <3> QED BY <3>1, <3>2
  <2>5. ScanType'
    BY <1>1, <2>1, <2>2, <2>4, UserFixed DEF ScanType, user
  <2>6. OnlyScan(s)
    BY <1>1, <2>1, <2>2 DEF OnlyScan
  <2>7. ScanInv(s)'
    <3>1. Steps(s)' = Steps(s) /\ Rejected(s)' = Rejected(s)
      BY <1>1, UserFixed
    <3>2. ASSUME NEW what, "acquire" \notin what, Past(s, what)'
          PROVE  Past(s, what)
      <4>1. PICK n \in 1..Len(Steps(s)) : n < at[s] + 1 /\ Steps(s)[n] \in what
        BY <2>2, <3>1, <3>2 DEF Past
      <4>2. n # at[s]
        BY <1>2, <2>1, <3>2, <4>1
      <4> QED BY <1>2, <4>1, <4>2 DEF Past
    <3>3. "acquire" \notin Streams /\ "acquire" \notin {"send"}
      BY DEF Streams
    <3>4. /\ Past(s, Streams)' => seen'[s] = Rows \/ lost'[s]
          /\ Past(s, {"send"})' => ~Rejected(s)
      BY <2>1, <3>2, <3>3 DEF ScanInv, Past, Streams
    <3>5. s # "inspect-source-extract" /\ lost'[s] => WillAskRowsErr(s)'
      BY <1>1, <1>2, <1>7, <2>1, <2>2, <3>1 DEF WillAskRowsErr
    <3> QED BY <1>2, <2>1, <2>2, <3>1, <3>4, <3>5 DEF ScanInv
  <2> QED BY <1>1, <1>2, <2>1, <2>2, <2>5, <2>6, <2>7 DEF Moves
<1> QED BY <1>4, <1>8, <1>9, <1>10, <1>11, <1>12, <1>13, <1>14 DEF ScanNext

\* A scan that does not move.
LEMMA SameScan ==
  ASSUME NEW t \in Scan, ScanInv(t), UNCHANGED user,
         at'[t] = at[t], ended'[t] = ended[t], seen'[t] = seen[t], lost'[t] = lost[t],
         connected'[t] = connected[t]
  PROVE  ScanInv(t)' /\ (ToSend(t) => ToSend(t)')
<1>1. Steps(t)' = Steps(t) /\ Rejected(t)' = Rejected(t)
  BY UserFixed
<1>2. /\ Past(t, Streams)' = Past(t, Streams) /\ Past(t, {"send"})' = Past(t, {"send"})
      /\ WillAskRowsErr(t)' = WillAskRowsErr(t)
  BY <1>1 DEF Past, WillAskRowsErr, Streams
<1> QED BY <1>1, <1>2 DEF ScanInv, ToSend

\* Under a cancelled context a scan does not get past its query.
LEMMA ToSendStep ==
  ASSUME ScanType, NEW s \in Scan, Running(s), Moves(s), UNCHANGED user, ToSend(s), Cancelled
  PROVE  ended'[s] = "failed" \/ ToSend(s)'
<1>1. Steps(s)' = Steps(s)
  BY UserFixed
<1>2. at[s] \in 1..Len(Steps(s)) /\ StepOf(s) = Steps(s)[at[s]] /\ ended[s] = "no"
  BY RunningStep
<1>3. Len(Steps(s)) \in Nat /\ Steps(s)[Len(Steps(s))] = "rewind"
  BY StepsEnd DEF ScanType
<1>4. PICK n \in DOMAIN Steps(s) : n >= at[s] /\ Steps(s)[n] = "send"
  BY DEF ToSend
<1>5. n \in 1..Len(Steps(s))
  BY <1>3, <1>4, StepsWellFormed DEF ScanType, WellFormed
<1>6. CASE ended'[s] = "no" /\ at'[s] = at[s]
  BY <1>1, <1>4, <1>6 DEF ToSend
<1>7. CASE StepOf(s) # "send"
  <2>1. n > at[s]
    BY <1>2, <1>4, <1>5, <1>7
  <2>2. at[s] # Len(Steps(s))
    BY <1>2, <1>3, <1>5, <2>1
  <2>3. CASE ended'[s] = "no" /\ at'[s] = at[s] + 1
    BY <1>1, <1>2, <1>4, <1>5, <2>1, <2>3 DEF ToSend
  <2> QED BY <1>6, <2>2, <2>3 DEF Moves
<1> QED BY <1>6, <1>7 DEF Moves

-----------------------------------------------------------------------------
(***************************************************************************)
(* The commands.                                                           *)
(***************************************************************************)
\* What a fetch does.
LEMMA FetchPlan ==
  ASSUME IsFetch
  PROVE  Plan \in {InitialLoadCommand, DefaultCommand}
<1>0. /\ command # "inspect" /\ command # "source-scan"
      /\ command # "source-extract-scan" /\ command # "target-scan"
  BY DEF IsFetch
<1>1. CASE initialLoad
  <2>1. Plan = InitialLoadCommand
    BY <1>0, <1>1, Zenon DEF Plan
  <2> QED BY <2>1
<1>2. CASE ~initialLoad
  <2>1. Plan = DefaultCommand
    BY <1>0, <1>2, Zenon DEF Plan
  <2> QED BY <2>1
<1> QED BY <1>1, <1>2

\* What a command that is not a fetch does.
LEMMA SinglePlan ==
  ASSUME command \in Command, ~IsFetch
  PROVE  Plan \in {InspectCommand, SourceScanBenchmark, SourceExtractScanBenchmark, TargetScanBenchmark}
<1>1. CASE command = "inspect"
  <2>1. Plan = InspectCommand
    BY <1>1, Zenon DEF Plan
  <2> QED BY <2>1
<1>2. CASE command = "source-scan"
  <2>1. command # "inspect"
    BY <1>2
  <2>2. Plan = SourceScanBenchmark
    BY <1>2, <2>1, Zenon DEF Plan
  <2> QED BY <2>2
<1>3. CASE command = "source-extract-scan"
  <2>1. command # "inspect" /\ command # "source-scan"
    BY <1>3
  <2>2. Plan = SourceExtractScanBenchmark
    BY <1>3, <2>1, Zenon DEF Plan
  <2> QED BY <2>2
<1>4. CASE command = "target-scan"
  <2>1. command # "inspect" /\ command # "source-scan" /\ command # "source-extract-scan"
    BY <1>4
  <2>2. Plan = TargetScanBenchmark
    BY <1>4, <2>1, Zenon DEF Plan
  <2> QED BY <2>2
<1> QED BY <1>1, <1>2, <1>3, <1>4 DEF Command, IsFetch

\* The batches of a command are scans, each in one of them; a fetch has one
\* batch, and the target's scan in it.
LEMMA BatchesShape ==
  ASSUME command \in Command
  PROVE  /\ Len(Batches) \in Nat /\ Len(Batches) >= 1
         /\ \A b \in 1..Len(Batches) : Batches[b] \subseteq Scan
         /\ \A b, c \in 1..Len(Batches) : b # c => Batches[b] \cap Batches[c] = {}
         /\ IsFetch => Len(Batches) = 1 /\ "target" \in Batches[1]
<1>1. \/ IsFetch /\ Plan = InitialLoadCommand
      \/ IsFetch /\ Plan = DefaultCommand
      \/ ~IsFetch /\ Plan \in {InspectCommand, SourceScanBenchmark, SourceExtractScanBenchmark,
                              TargetScanBenchmark}
  <2>1. CASE IsFetch
    BY <2>1, FetchPlan
  <2> QED BY <2>1, SinglePlan
<1>2. CASE Plan = InitialLoadCommand
  BY <1>2 DEF Batches, InitialLoadCommand, Scan
<1>3. CASE Plan = DefaultCommand
  BY <1>3 DEF Batches, DefaultCommand, Scan
<1>4. CASE ~IsFetch /\ Plan = InspectCommand
  BY <1>4 DEF Batches, InspectCommand, Scan
<1>5. CASE ~IsFetch /\ Plan = SourceScanBenchmark
  BY <1>5 DEF Batches, SourceScanBenchmark, Scan
<1>6. CASE ~IsFetch /\ Plan = SourceExtractScanBenchmark
  BY <1>6 DEF Batches, SourceExtractScanBenchmark, Scan
<1>7. CASE ~IsFetch /\ Plan = TargetScanBenchmark
  BY <1>7 DEF Batches, TargetScanBenchmark, Scan
<1> QED BY <1>1, <1>2, <1>3, <1>4, <1>5, <1>6, <1>7

Part == {"config", "source", "target", "mapper", "inspectors", "start"}

\* Whatever a command creates, one part follows another until it starts.
LEMMA PartsEnd ==
  ASSUME command \in Command
  PROVE  /\ Len(Parts) \in Nat /\ Len(Parts) > 0
         /\ Parts[1] = "config" /\ Parts[Len(Parts)] = "start"
         /\ \A n \in 1..Len(Parts) : Parts[n] \in Part
         /\ DOMAIN Parts = 1..Len(Parts)
<1>1. Plan.creates \in {createComponents, createComponents \o <<"inspectors">>,
                       <<"source", "mapper">>, <<"target", "mapper">>}
  <2>1. CASE IsFetch
    <3>1. Plan \in {InitialLoadCommand, DefaultCommand}
      BY <2>1, FetchPlan
    <3> QED BY <3>1 DEF InitialLoadCommand, DefaultCommand
  <2>2. CASE ~IsFetch
    BY <2>2, SinglePlan DEF InspectCommand, SourceScanBenchmark,
       SourceExtractScanBenchmark, TargetScanBenchmark
  <2> QED BY <2>1, <2>2
<1> DEFINE Shape(q) == /\ Len(q) \in Nat /\ Len(q) > 0
                       /\ q[1] = "config" /\ q[Len(q)] = "start"
                       /\ \A n \in 1..Len(q) : q[n] \in Part
                       /\ DOMAIN q = 1..Len(q)
<1>2. Shape(<<"config">> \o <<"source", "target", "mapper">> \o <<"start">>)
  BY DEF Part
<1>3. Shape(<<"config">> \o (<<"source", "target", "mapper">> \o <<"inspectors">>) \o <<"start">>)
  BY DEF Part
<1>4. Shape(<<"config">> \o <<"source", "mapper">> \o <<"start">>)
  BY DEF Part
<1>5. Shape(<<"config">> \o <<"target", "mapper">> \o <<"start">>)
  BY DEF Part
<1> HIDE DEF Shape
<1>6. Shape(Parts)
  BY <1>1, <1>2, <1>3, <1>4, <1>5 DEF Parts, createComponents
<1> QED BY <1>6 DEF Shape

LEMMA AfterPart ==
  ASSUME command \in Command, NEW part \in Part \ {"start"},
         \E n \in 1..Len(Parts) : Parts[n] = part
  PROVE  After(part) \in Part /\ \E n \in 1..Len(Parts) : Parts[n] = After(part)
<1> DEFINE k == CHOOSE n \in DOMAIN Parts : Parts[n] = part
<1>1. k \in DOMAIN Parts /\ Parts[k] = part
  BY PartsEnd
<1>2. After(part) = Parts[k + 1]
  BY DEF After, Parts
<1> HIDE DEF k
<1>3. k + 1 \in 1..Len(Parts)
  BY <1>1, PartsEnd
<1> QED BY <1>2, <1>3, PartsEnd

-----------------------------------------------------------------------------
(***************************************************************************)
(* The steps preserve the invariant.                                       *)
(***************************************************************************)
\* The parts of the type invariant that are not about scans.
CallerType ==
  /\ command \in Command /\ mapper \in Mapper
  /\ {initialLoad, shadow, interrupted, early} \subseteq BOOLEAN
  /\ main \in Creating \union {"waiting", "closing", "fetched", "printing"} \union Over
  /\ batch \in 1..Len(Batches)
  /\ pool \in [Side -> {"none", "open", "closed"}]
  /\ consumer \in {"none", "running", "closed"}
  /\ dataFiles \subseteq Scan \union {"changes"}
  /\ handler \in {"default", "armed", "spent"}

Connections(side) == {s \in Scan : connected[s] /\ SideOf(s) = side}

PoolType == \A side \in Side : Cardinality(Connections(side)) <= PoolSize

LEMMA TypeParts == TypeOK <=> CallerType /\ ScanType /\ PoolType
<1>1. {"config", "source", "target", "mapper", "uncreated", "inspectors", "start",
       "waiting", "closing", "fetched", "printing"} \union Over =
      Creating \union {"waiting", "closing", "fetched", "printing"} \union Over
  BY DEF Creating
<1> QED BY <1>1 DEF TypeOK, CallerType, ScanType, PoolType, Connections

\* Scan is small, and so are the sets of those that hold a connection.
LEMMA ConnectionsFinite ==
  ASSUME NEW side
  PROVE  /\ IsFiniteSet(Connections(side)) /\ IsFiniteSet(Connections(side)')
         /\ Cardinality(Connections(side)) \in Nat
<1>1. IsFiniteSet(Scan)
  <2> DEFINE A == {"target"}
             B == A \union {"source"}
             C == B \union {"source-extract"}
             D == C \union {"inspect-source"}
             E == D \union {"inspect-source-extract"}
             F == E \union {"inspect-target"}
  <2>1. IsFiniteSet(A)
    BY FS_Singleton
  <2>2. Scan = F
    BY DEF Scan
  <2> HIDE DEF A
  <2>3. IsFiniteSet(B)
    BY <2>1, FS_AddElement
  <2> HIDE DEF B
  <2>4. IsFiniteSet(C)
    BY <2>3, FS_AddElement
  <2> HIDE DEF C
  <2>5. IsFiniteSet(D)
    BY <2>4, FS_AddElement
  <2> HIDE DEF D
  <2>6. IsFiniteSet(E)
    BY <2>5, FS_AddElement
  <2> HIDE DEF E
  <2>7. IsFiniteSet(F)
    BY <2>6, FS_AddElement
  <2> QED BY <2>2, <2>7
<1>2. Connections(side) \subseteq Scan /\ Connections(side)' \subseteq Scan
  BY DEF Connections
<1>3. IsFiniteSet(Connections(side)) /\ IsFiniteSet(Connections(side)')
  BY <1>1, <1>2, FS_Subset
<1> QED BY <1>3, FS_CardinalityType

\* A step of a scan that takes a connection takes one that is free.
LEMMA PoolStep ==
  ASSUME PoolType, NEW s \in Scan, OnlyScan(s), RunCommandAssumption,
         connected'[s] => connected[s] \/ ConnectionFree(SideOf(s))
  PROVE  PoolType'
<1> SUFFICES ASSUME NEW side \in Side
             PROVE  Cardinality(Connections(side)') <= PoolSize
  BY DEF PoolType, Connections
<1> DEFINE C == Connections(side)
           D == Connections(side)'
<1>1. Cardinality(C) \in Nat /\ Cardinality(C) <= PoolSize /\ IsFiniteSet(C) /\ PoolSize \in Nat
  BY ConnectionsFinite DEF PoolType, RunCommandAssumption
<1>2. IsFiniteSet(D)
  BY ConnectionsFinite
<1>3. CASE D \subseteq C
  <2> HIDE DEF C, D
  <2>1. Cardinality(D) <= Cardinality(C) /\ Cardinality(D) \in Nat
    BY <1>1, <1>2, <1>3, FS_Subset, FS_CardinalityType
  <2>2. Cardinality(D) <= PoolSize
    BY <1>1, <2>1
  <2> QED BY <2>2 DEF D
<1>4. CASE ~(D \subseteq C)
  <2>1. /\ D \subseteq C \union {s} /\ SideOf(s) = side
        /\ connected'[s] /\ ~connected[s]
    BY <1>4 DEF Connections, OnlyScan
  <2>2. Cardinality(C) < PoolSize
    BY <2>1 DEF ConnectionFree, Connections
  <2> HIDE DEF C, D
  <2>3. Cardinality(D) <= Cardinality(C \union {s}) /\ IsFiniteSet(C \union {s})
    BY <1>1, <2>1, FS_AddElement, FS_Subset
  <2>4. \/ Cardinality(C \union {s}) = Cardinality(C)
        \/ Cardinality(C \union {s}) = Cardinality(C) + 1
    BY <1>1, FS_AddElement
  <2>5. Cardinality(C \union {s}) \in Nat /\ Cardinality(D) \in Nat
    BY <1>2, <2>3, FS_CardinalityType
  <2>6. Cardinality(D) <= PoolSize
    BY <1>1, <2>2, <2>3, <2>4, <2>5
  <2> QED BY <2>6 DEF D
<1> QED BY <1>3, <1>4

\* What a step of the command shows of the scans when it starts none ...
LEMMA QuietStep ==
  ASSUME ScanType, PoolType, \A s \in Scan : ScanInv(s), UNCHANGED <<user, scans>>
  PROVE  /\ ScanType' /\ PoolType' /\ \A s \in Scan : ScanInv(s)'
         /\ \A s \in Scan : ToSend(s) => ToSend(s)'
         /\ UNCHANGED <<at, ended>>
<1>1. \A s \in Scan : Steps(s)' = Steps(s)
  BY UserFixed
<1>2. UNCHANGED <<at, ended, file, seen, lost, connected, scheme>>
  BY DEF scans, user
<1>3. ScanType'
  BY <1>1, <1>2 DEF ScanType
<1>4. PoolType'
  BY <1>2 DEF PoolType, Connections
<1>5. ASSUME NEW s \in Scan
      PROVE  ScanInv(s)' /\ (ToSend(s) => ToSend(s)')
  BY <1>2, SameScan
<1> QED BY <1>2, <1>3, <1>4, <1>5

\* ... and when it starts a batch of those that have not run.
LEMMA StartStep ==
  ASSUME ScanType, PoolType, \A s \in Scan : ScanInv(s), UNCHANGED user,
         NEW b \in 1..Len(Batches), StartBatch(b), \A s \in Batches[b] : at[s] = 0
  PROVE  /\ ScanType' /\ PoolType' /\ \A s \in Scan : ScanInv(s)'
         /\ \A s \in Scan : ToSend(s) => ToSend(s)'
         /\ ended' = ended /\ batch' = b
         /\ \A s \in Scan : at'[s] = IF s \in Batches[b] THEN 1 ELSE at[s]
<1>1. \A s \in Scan : Steps(s)' = Steps(s) /\ Rejected(s)' = Rejected(s)
  BY UserFixed
<1>2. /\ UNCHANGED <<ended, file, seen, lost, connected>> /\ scheme' = scheme /\ batch' = b
      /\ at' = [s \in Scan |-> IF s \in Batches[b] THEN 1 ELSE at[s]]
  BY DEF StartBatch, user
<1>3. \A s \in Scan : at'[s] = IF s \in Batches[b] THEN 1 ELSE at[s]
  BY <1>2
<1>4. \A s \in Scan : Len(Steps(s)) \in Nat /\ Len(Steps(s)) > 0
  BY StepsEnd DEF ScanType
<1>5. ScanType'
  <2>1. at' \in [Scan -> Nat]
    BY <1>2 DEF ScanType
  <2>2. ASSUME NEW s \in Scan
        PROVE  at'[s] <= Len(Steps(s))
    <3>1. at'[s] = 1 \/ at'[s] = at[s]
      BY <1>3
    <3>2. at[s] <= Len(Steps(s)) /\ Len(Steps(s)) \in Nat /\ Len(Steps(s)) > 0
      BY <1>4 DEF ScanType
    <3> QED BY <3>1, <3>2
  <2> QED BY <1>1, <1>2, <2>1, <2>2 DEF ScanType
<1>6. PoolType'
  BY <1>2 DEF PoolType, Connections
<1>7. ASSUME NEW s \in Scan
      PROVE  ScanInv(s)' /\ (ToSend(s) => ToSend(s)')
  <2>1. CASE s \notin Batches[b]
    BY <1>2, <1>3, <2>1, SameScan
  <2>2. CASE s \in Batches[b]
    <3>1. at[s] = 0 /\ at'[s] = 1
      BY <1>3, <2>2
    <3>2. ~Past(s, Streams)' /\ ~Past(s, {"send"})'
      BY <3>1, <1>1, <1>4 DEF Past
    <3>3. WillAskRowsErr(s) => WillAskRowsErr(s)'
      BY <3>1, <1>1, <1>4 DEF WillAskRowsErr
    <3>4. ended[s] = "no" /\ ~connected[s]
      BY <3>1 DEF ScanInv
    <3>5. ScanInv(s)'
      BY <1>1, <1>2, <3>1, <3>2, <3>3, <3>4 DEF ScanInv
    <3>6. ToSend(s) => ToSend(s)'
      <4> SUFFICES ASSUME NEW n \in DOMAIN Steps(s), Steps(s)[n] = "send"
                   PROVE  ToSend(s)'
        BY DEF ToSend
      <4>1. n \in 1..Len(Steps(s))
        BY <1>4, StepsWellFormed DEF ScanType, WellFormed
      <4>2. n >= 1
        BY <4>1, <1>4
      <4> QED BY <1>1, <1>2, <3>1, <3>4, <4>2 DEF ToSend
    <3> QED BY <3>5, <3>6
  <2> QED BY <2>1, <2>2
<1> QED BY <1>2, <1>3, <1>5, <1>6, <1>7

\* What is true of the command, given its scans.
CallerInv == PartOfPlan /\ JoinInv /\ FilesInv /\ EarlyInv /\ CreationAllOrNothing

LEMMA RunInvParts ==
  RunInv <=> CallerType /\ ScanType /\ PoolType /\ (\A s \in Scan : ScanInv(s)) /\ CallerInv
BY TypeParts DEF RunInv, CallerInv

LEMMA RunInvPartsNext ==
  ASSUME CallerType', ScanType', PoolType', \A s \in Scan : ScanInv(s)', CallerInv'
  PROVE  RunInv'
<1>1. (CallerType /\ ScanType /\ PoolType)' => TypeOK'
  BY TypeParts, PTL
<1> QED BY <1>1 DEF RunInv, CallerInv

\* Scans move only while the command waits for them.
LEMMA ScanWhileWaiting ==
  ASSUME CallerType, ScanType, JoinInv, NEW s \in Scan, Running(s)
  PROVE  main = "waiting" /\ s \in Batches[batch] /\ \E b \in 1..batch : s \in Batches[b]
<1>1. at[s] > 0 /\ at[s] # 0 /\ ended[s] = "no" /\ main \notin Over
  BY DEF Running, Alive, ScanType
<1>2. main \notin Creating /\ main \notin {"closing", "fetched", "printing", "returned", "exited"}
  BY <1>1 DEF JoinInv
<1>3. main = "waiting"
  BY <1>1, <1>2 DEF CallerType, Over
<1> QED BY <1>1, <1>3 DEF JoinInv

LEMMA ScanKeeps ==
  ASSUME RunInv, NEW s \in Scan, ScanNext(s), RunCommandAssumption
  PROVE  RunInv'
<1>1. CallerType /\ ScanType /\ PoolType /\ (\A t \in Scan : ScanInv(t)) /\ CallerInv
  BY RunInvParts
<1>2. /\ OnlyScan(s) /\ ScanType' /\ ScanInv(s)' /\ Running(s) /\ Moves(s)
      /\ connected'[s] => connected[s] \/ ConnectionFree(SideOf(s))
  BY <1>1, ScanStep DEF RunCommandAssumption
<1>3. main = "waiting" /\ s \in Batches[batch] /\ \E b \in 1..batch : s \in Batches[b]
  BY <1>1, <1>2, ScanWhileWaiting DEF CallerInv
<1>4. PoolType'
  BY <1>1, <1>2, PoolStep
<1>5. \A t \in Scan : ScanInv(t)'
  BY <1>1, <1>2, SameScan DEF OnlyScan
<1>6. /\ UNCHANGED <<main, batch, pool, consumer, dataFiles, shadow, handler, interrupted, early>>
      /\ UNCHANGED user /\ UNCHANGED <<command, scheme, mapper, initialLoad>>
  BY <1>2 DEF OnlyScan, caller, signals, user
<1>7. IsFetch' = IsFetch /\ Batches' = Batches /\ Parts' = Parts
  BY <1>6, UserFixed
<1>8. CallerType'
  BY <1>1, <1>6, <1>7 DEF CallerType
<1>9. PartOfPlan'
  BY <1>1, <1>6, <1>7 DEF CallerInv, PartOfPlan
<1>10. JoinInv'
  <2>1. main' = "waiting" /\ main' \notin Creating
        /\ main' \notin {"closing", "fetched", "printing", "returned", "exited"}
    BY <1>3, <1>6 DEF Creating
  <2>2. ASSUME NEW t \in Scan, at'[t] > 0
        PROVE  (\E b \in 1..batch : t \in Batches[b]) /\ (ended'[t] = "no" => t \in Batches[batch])
    <3>1. CASE t = s
      BY <1>3, <3>1
    <3>2. CASE t # s
      BY <1>1, <1>2, <1>3, <2>2, <3>2 DEF CallerInv, JoinInv, OnlyScan
    <3> QED BY <3>1, <3>2
  <2>3. consumer' = "running" => main' \in {"waiting", "closing", "killed"} /\ IsFetch' /\ ~initialLoad'
    BY <1>1, <1>6, <1>7 DEF CallerInv, JoinInv
  <2> QED BY <1>6, <1>7, <2>1, <2>2, <2>3 DEF JoinInv
<1>11. FilesInv'
  BY <1>1, <1>3, <1>6 DEF CallerInv, FilesInv, HasFiles, HasShadow, Over
<1>12. EarlyInv'
  <2>1. CASE ~early
    BY <1>1, <1>6, <1>7, <2>1 DEF CallerInv, EarlyInv
  <2>2. CASE early
    <3>1. PICK t \in Batches[1] : ended[t] = "failed" \/ ToSend(t)
      BY <1>1, <2>2 DEF CallerInv, EarlyInv
    <3>2. t \in Scan
      BY <1>1, BatchesShape DEF CallerType
    <3>3. ended'[t] = "failed" \/ ToSend(t)'
      <4>1. CASE t # s
        BY <1>1, <1>2, <1>6, <3>1, <3>2, <4>1, SameScan DEF OnlyScan
      <4>2. CASE t = s
        <5>1. Cancelled
          BY <1>1, <2>2 DEF CallerInv, EarlyInv, Cancelled
        <5>2. ToSend(s)
          BY <1>2, <3>1, <4>2 DEF Running
        <5> QED BY <1>1, <1>2, <1>6, <4>2, <5>1, <5>2, ToSendStep
      <4> QED BY <4>1, <4>2
    <3> QED BY <1>1, <1>6, <1>7, <3>1, <3>3 DEF CallerInv, EarlyInv
  <2> QED BY <2>1, <2>2
<1>13. CreationAllOrNothing'
  BY <1>3, <1>6 DEF CreationAllOrNothing
<1>14. CallerInv'
  BY <1>9, <1>10, <1>11, <1>12, <1>13 DEF CallerInv
<1> QED BY <1>2, <1>4, <1>5, <1>8, <1>14, RunInvPartsNext

\* A step of the command that starts no scan is a matter of the command.
LEMMA QuietKeeps ==
  ASSUME RunInv, UNCHANGED <<user, scans>>, CallerType', CallerInv'
  PROVE  RunInv'
BY RunInvParts, QuietStep, RunInvPartsNext

\* Up to its components, and when the change stream cannot be started.
LEMMA CreationKeeps ==
  ASSUME RunInv, UNCHANGED <<user, batch, consumer, dataFiles, shadow, scans, signals>>,
         main \in Creating, main' \in Creating \union {"exited"}, main = "start" => main' = "exited",
         main' \in Part => \E n \in 1..Len(Parts) : Parts[n] = main',
         pool' \in [Side -> {"none", "open", "closed"}],
         main' = "uncreated" /\ ~IsBenchmark => \A side \in Side : pool'[side] # "open"
  PROVE  RunInv'
<1>1. CallerType /\ ScanType /\ PoolType /\ (\A t \in Scan : ScanInv(t)) /\ CallerInv
  BY RunInvParts
<1>2. IsFetch' = IsFetch /\ Batches' = Batches /\ Parts' = Parts
  BY UserFixed
<1>3. UNCHANGED <<at, ended, command, mapper, initialLoad, interrupted, early, handler>>
  BY DEF scans, user, signals
<1>4. CallerType'
  BY <1>1, <1>2, <1>3 DEF CallerType, Over
<1>5. PartOfPlan'
  BY <1>2 DEF PartOfPlan, Part
<1>6. consumer # "running" /\ dataFiles = {} /\ ~shadow
  BY <1>1 DEF CallerInv, JoinInv, FilesInv, Creating, HasFiles, HasShadow, Over
<1>7. JoinInv'
  BY <1>1, <1>3, <1>6 DEF CallerInv, JoinInv, Creating
<1>8. FilesInv'
  BY <1>6 DEF FilesInv
<1>9. EarlyInv'
  <2>1. early => main' = "exited"
    BY <1>1 DEF CallerInv, EarlyInv, Creating
  <2>2. ASSUME early
        PROVE  \E s \in Batches[1] : ended'[s] = "failed" \/ ToSend(s)'
    <3>1. PICK s \in Batches[1] : ended[s] = "failed" \/ ToSend(s)
      BY <1>1, <2>2 DEF CallerInv, EarlyInv
    <3>2. s \in Scan
      BY <1>1, BatchesShape DEF CallerType
    <3> QED BY <1>1, <1>3, <3>1, <3>2, QuietStep
  <2> QED BY <1>1, <1>2, <1>3, <1>6, <2>1, <2>2 DEF CallerInv, EarlyInv
<1>10. CreationAllOrNothing'
  <2>1. IsBenchmark' = IsBenchmark
    BY <1>2, <1>3 DEF IsBenchmark
  <2> QED BY <2>1 DEF CreationAllOrNothing
<1> QED BY <1>4, <1>5, <1>7, <1>8, <1>9, <1>10, QuietKeeps DEF CallerInv

\* From the end of its scans on.
LEMMA LaterKeeps ==
  ASSUME RunInv, UNCHANGED <<user, batch, scans, signals>>,
         main' \in {"closing", "fetched", "printing", "returned", "exited"},
         \A s \in Scan : at[s] > 0 => ended[s] # "no",
         pool' \in [Side -> {"none", "open", "closed"}], consumer' \in {"none", "running", "closed"},
         dataFiles' \subseteq Scan \union {"changes"}, shadow' \in BOOLEAN,
         consumer' = "running" => main' = "closing" /\ consumer = "running",
         dataFiles' # {} =>
           main' \in HasFiles /\ IsFetch /\ \A s \in Batches[1] : ended[s] = "done",
         shadow' => main' \in HasShadow,
         early => main' \in {"closing", "exited"} /\ dataFiles' = {} /\ ~shadow'
  PROVE  RunInv'
<1>1. CallerType /\ ScanType /\ PoolType /\ (\A t \in Scan : ScanInv(t)) /\ CallerInv
  BY RunInvParts
<1>2. IsFetch' = IsFetch /\ Batches' = Batches /\ Parts' = Parts
  BY UserFixed
<1>3. UNCHANGED <<at, ended, command, mapper, initialLoad, interrupted, early, handler>>
  BY DEF scans, user, signals
<1>4. main' \notin Creating /\ main' # "waiting" /\ main' \notin Part /\ main' # "uncreated"
  BY DEF Creating, Part
<1>5. CallerType'
  BY <1>1, <1>2, <1>3 DEF CallerType, Over
<1>6. PartOfPlan'
  BY <1>4 DEF PartOfPlan, Part
<1>7. JoinInv'
  BY <1>1, <1>2, <1>3, <1>4 DEF CallerInv, JoinInv
<1>8. FilesInv'
  BY <1>2, <1>3 DEF FilesInv, HasFiles, HasShadow, Over
<1>9. EarlyInv'
  <2>1. ASSUME early
        PROVE  \E s \in Batches[1] : ended'[s] = "failed" \/ ToSend(s)'
    <3>1. PICK s \in Batches[1] : ended[s] = "failed" \/ ToSend(s)
      BY <1>1, <2>1 DEF CallerInv, EarlyInv
    <3>2. s \in Scan
      BY <1>1, BatchesShape DEF CallerType
    <3> QED BY <1>1, <1>3, <3>1, <3>2, QuietStep
  <2> QED BY <1>1, <1>2, <1>3, <2>1 DEF CallerInv, EarlyInv
<1>10. CreationAllOrNothing'
  BY <1>4 DEF CreationAllOrNothing
<1> QED BY <1>5, <1>6, <1>7, <1>8, <1>9, <1>10, QuietKeeps DEF CallerInv

\* A batch begins, with the change stream or without.
LEMMA StartKeeps ==
  ASSUME RunInv, UNCHANGED <<user, pool, dataFiles, shadow, signals>>,
         main \in {"start", "waiting"}, main' = "waiting",
         main = "waiting" => AllEnded /\ ~IsFetch,
         NEW b \in 1..Len(Batches), StartBatch(b), main = "waiting" => b = batch + 1,
         consumer' = consumer \/ (consumer' = "running" /\ IsFetch /\ ~initialLoad)
  PROVE  RunInv'
<1>1. CallerType /\ ScanType /\ PoolType /\ (\A t \in Scan : ScanInv(t)) /\ CallerInv
  BY RunInvParts
<1>2. IsFetch' = IsFetch /\ Batches' = Batches /\ Parts' = Parts
  BY UserFixed
<1>3. UNCHANGED <<command, mapper, initialLoad, interrupted, early, handler>>
  BY DEF user, signals
<1>4. /\ batch \in 1..Len(Batches) /\ Len(Batches) \in Nat
      /\ \A c \in 1..Len(Batches) : Batches[c] \subseteq Scan
      /\ \A c, d \in 1..Len(Batches) : c # d => Batches[c] \cap Batches[d] = {}
  BY <1>1, BatchesShape DEF CallerType
<1>5. \A s \in Batches[b] : at[s] = 0
  <2>1. CASE main = "start"
    BY <1>1, <1>4, <2>1 DEF CallerInv, JoinInv, Creating
  <2>2. CASE main = "waiting"
    <3> SUFFICES ASSUME NEW s \in Batches[b], at[s] # 0
                 PROVE  FALSE
      OBVIOUS
    <3>1. at[s] > 0 /\ s \in Scan
      BY <1>1, <1>4 DEF ScanType
    <3>2. PICK c \in 1..batch : s \in Batches[c]
      BY <1>1, <2>2, <3>1 DEF CallerInv, JoinInv
    <3>3. c \in 1..Len(Batches) /\ c # b
      BY <1>4, <2>2, <3>2
    <3> QED BY <1>4, <3>2, <3>3
  <2> QED BY <2>1, <2>2
<1>6. /\ ScanType' /\ PoolType' /\ \A s \in Scan : ScanInv(s)'
      /\ \A s \in Scan : ToSend(s) => ToSend(s)'
      /\ ended' = ended /\ batch' = b
      /\ \A s \in Scan : at'[s] = IF s \in Batches[b] THEN 1 ELSE at[s]
  BY <1>1, <1>5, StartStep
<1>7. CallerType'
  BY <1>1, <1>2, <1>3, <1>6 DEF CallerType
<1>8. PartOfPlan'
  BY DEF PartOfPlan
<1>9. dataFiles = {} /\ ~shadow
  BY <1>1 DEF CallerInv, FilesInv, HasFiles, HasShadow, Over
<1>10. JoinInv'
  <2>1. ASSUME NEW s \in Scan, at'[s] > 0
        PROVE  (\E c \in 1..b : s \in Batches[c]) /\ (ended'[s] = "no" => s \in Batches[b])
    <3>1. CASE s \in Batches[b]
      BY <1>4, <3>1
    <3>2. CASE s \notin Batches[b]
      <4>1. at[s] > 0
        BY <1>6, <2>1, <3>2
      <4>2. main = "waiting" /\ b = batch + 1
        BY <1>1, <4>1 DEF CallerInv, JoinInv, Creating
      <4>3. PICK c \in 1..batch : s \in Batches[c]
        BY <1>1, <4>1, <4>2 DEF CallerInv, JoinInv
      <4>4. ended[s] # "no"
        BY <1>1, <4>1, <4>2 DEF CallerInv, JoinInv, AllEnded
      <4>5. c \in 1..b
        BY <1>4, <4>2
      <4> QED BY <1>6, <4>3, <4>4, <4>5
    <3> QED BY <3>1, <3>2
  <2>2. consumer' = "running" => IsFetch /\ ~initialLoad
    BY <1>1 DEF CallerInv, JoinInv
  <2> QED BY <1>2, <1>3, <1>6, <2>1, <2>2 DEF JoinInv, Creating
<1>11. FilesInv'
  BY <1>9 DEF FilesInv
<1>12. EarlyInv'
  <2>1. ASSUME early
        PROVE  \E s \in Batches[1] : ended'[s] = "failed" \/ ToSend(s)'
    <3>1. PICK s \in Batches[1] : ended[s] = "failed" \/ ToSend(s)
      BY <1>1, <2>1 DEF CallerInv, EarlyInv
    <3>2. s \in Scan
      BY <1>1, BatchesShape DEF CallerType
    <3> QED BY <1>6, <3>1, <3>2
  <2> QED BY <1>1, <1>2, <1>3, <1>9, <2>1 DEF CallerInv, EarlyInv
<1>13. CreationAllOrNothing'
  BY DEF CreationAllOrNothing
<1> QED BY <1>6, <1>7, <1>8, <1>10, <1>11, <1>12, <1>13, RunInvPartsNext DEF CallerInv

\* All of a batch is done.
LEMMA ScansDoneMeans ==
  ASSUME RunInv, ScansDone
  PROVE  /\ \A s \in Batches[Len(Batches)] : ended[s] = "done"
         /\ IsFetch => /\ Batches[batch] = Batches[1] /\ ~early
                       /\ \A s \in Batches[1] : ended[s] = "done"
<1>1. CallerType /\ ScanType /\ CallerInv /\ \A t \in Scan : ScanInv(t)
  BY RunInvParts
<1>2. /\ batch \in 1..Len(Batches) /\ Len(Batches) \in Nat /\ batch = Len(Batches)
      /\ \A c \in 1..Len(Batches) : Batches[c] \subseteq Scan
      /\ IsFetch => Len(Batches) = 1
  BY <1>1, BatchesShape DEF CallerType, ScansDone
<1>3. \A s \in Batches[batch] : ended[s] = "done"
  BY <1>1, <1>2 DEF ScansDone, AllEnded, Failed, ScanType
<1>4. ASSUME IsFetch
      PROVE  /\ Batches[batch] = Batches[1] /\ ~early
             /\ \A s \in Batches[1] : ended[s] = "done"
  <2>1. batch = 1
    BY <1>2, <1>4
  <2>2. ~early
    BY <1>1, <1>3, <2>1 DEF CallerInv, EarlyInv, ToSend
  <2> QED BY <1>3, <2>1, <2>2
<1> QED BY <1>2, <1>3, <1>4

LEMMA CommandKeeps ==
  ASSUME RunInv, CommandNext, RunCommandAssumption
  PROVE  RunInv'
<1>1. CallerType /\ ScanType /\ PoolType /\ (\A t \in Scan : ScanInv(t)) /\ CallerInv
  BY RunInvParts
<1>2. /\ pool \in [Side -> {"none", "open", "closed"}]
      /\ CloseOpen \in [Side -> {"none", "open", "closed"}]
      /\ \A side \in Side : CloseOpen[side] # "open"
  BY <1>1 DEF CallerType, CloseOpen
<1> DEFINE Known == \E n \in 1..Len(Parts) : Parts[n] = main
<1>3. main \in Part => Known
  BY <1>1 DEF CallerInv, PartOfPlan, Part
\* A part is created, and the next one's turn comes.
<1>4. ASSUME main \in Part \ {"start"}, Go(main, After(main)),
             UNCHANGED <<user, batch, consumer, dataFiles, shadow, scans, signals>>,
             pool' \in [Side -> {"none", "open", "closed"}]
      PROVE  RunInv'
  <2>1. main' = After(main) /\ After(main) \in Part
        /\ \E n \in 1..Len(Parts) : Parts[n] = After(main)
    BY <1>1, <1>3, <1>4, AfterPart DEF CallerType, Go
  <2>2. main \in Creating /\ main' \in Creating /\ main # "start" /\ main' # "uncreated"
    BY <1>4, <2>1 DEF Part, Creating
  <2> QED BY <1>4, <2>1, <2>2, CreationKeeps
\* It is not.
<1>5. ASSUME main \in Creating, main' = "exited",
             UNCHANGED <<user, batch, pool, consumer, dataFiles, shadow, scans, signals>>
      PROVE  RunInv'
  <2>1. main' \notin Part /\ main' # "uncreated"
    BY <1>5 DEF Part
  <2> QED BY <1>2, <1>5, <2>1, CreationKeeps
<1>6. ASSUME main \in Creating \ {"start"}, main' = "uncreated",
             UNCHANGED <<user, batch, consumer, dataFiles, shadow, scans, signals>>,
             pool' \in [Side -> {"none", "open", "closed"}],
             ~IsBenchmark => \A side \in Side : pool'[side] # "open"
      PROVE  RunInv'
  <2>1. main' \notin Part /\ main' \in Creating
    BY <1>6 DEF Part, Creating
  <2> QED BY <1>6, <2>1, CreationKeeps
<1>7. CASE LoadConfig
  BY <1>2, <1>4, <1>7 DEF LoadConfig, Go, Part
<1>8. CASE LoadConfigFails
  BY <1>5, <1>8 DEF LoadConfigFails, Exit, Go, Creating
<1>9. ASSUME NEW side \in Side, CreateSide(side)
      PROVE  RunInv'
  BY <1>2, <1>4, <1>9 DEF CreateSide, Go, Part, Side
<1>10. ASSUME NEW side \in Side, CreateSideFails(side)
       PROVE  RunInv'
  <2>1. pool' \in [Side -> {"none", "open", "closed"}] /\ \A sd \in Side : pool'[sd] # "open"
    <3>1. pool' = CloseOpen \/ pool' = [CloseOpen EXCEPT ![side] = "closed"]
      BY <1>10 DEF CreateSideFails
    <3> QED BY <1>2, <3>1
  <2>2. main \in Creating \ {"start"} /\ main' = "uncreated"
        /\ UNCHANGED <<user, batch, consumer, dataFiles, shadow, scans, signals>>
    BY <1>10 DEF CreateSideFails, Go, Creating, Side
  <2> QED BY <1>6, <2>1, <2>2
<1>11. CASE CreateMapper
  BY <1>2, <1>4, <1>11 DEF CreateMapper, Go, Part
<1>12. CASE CreateMapperFails
  <2>1. pool' \in [Side -> {"none", "open", "closed"}]
        /\ (~IsBenchmark => \A sd \in Side : pool'[sd] # "open")
    BY <1>2, <1>12 DEF CreateMapperFails
  <2>2. main \in Creating \ {"start"} /\ main' = "uncreated"
        /\ UNCHANGED <<user, batch, consumer, dataFiles, shadow, scans, signals>>
    BY <1>12 DEF CreateMapperFails, Go, Creating
  <2> QED BY <1>6, <2>1, <2>2
<1>13. CASE ExitUncreated
  BY <1>5, <1>13 DEF ExitUncreated, Exit, Go, Creating
<1>14. CASE CheckInspectors
  BY <1>2, <1>4, <1>14 DEF CheckInspectors, Go, Part
<1>15. CASE CheckInspectorsFails
  BY <1>5, <1>15 DEF CheckInspectorsFails, Exit, Go, Creating
<1>16. CASE StartConsumerFails
  BY <1>5, <1>16 DEF StartConsumerFails, Exit, Go, Creating
<1>17. 1 \in 1..Len(Batches) /\ Len(Batches) \in Nat /\ (IsFetch => Len(Batches) = 1)
  BY <1>1, BatchesShape DEF CallerType
<1>18. CASE StartScans
  BY <1>17, <1>18, StartKeeps DEF StartScans, Go
<1>19. CASE StartConsumer
  BY <1>17, <1>19, StartKeeps DEF StartConsumer, Go
<1>20. CASE NextBatch
  <2>1. /\ main = "waiting" /\ main' = main /\ AllEnded /\ batch < Len(Batches)
        /\ StartBatch(batch + 1) /\ UNCHANGED <<user, pool, consumer, dataFiles, shadow, signals>>
    BY <1>20 DEF NextBatch
  <2>2. batch \in 1..Len(Batches)
    BY <1>1 DEF CallerType
  <2>3. batch + 1 \in 1..Len(Batches)
    BY <1>17, <2>1, <2>2
  <2>4. ~IsFetch
    <3> SUFFICES ASSUME IsFetch PROVE FALSE
      OBVIOUS
    <3>1. Len(Batches) = 1
      BY <1>17
    <3>2. batch \in 1..1 /\ batch < 1
      BY <2>1, <2>2, <3>1
    <3> QED BY <3>2
  <2> QED BY <2>1, <2>3, <2>4, StartKeeps
\* When AllEnded, no scan is left.
<1>21. main = "waiting" /\ AllEnded => \A s \in Scan : at[s] > 0 => ended[s] # "no"
  BY <1>1 DEF CallerInv, JoinInv, AllEnded
<1>22. main \in {"closing", "fetched", "printing"} => \A s \in Scan : at[s] > 0 => ended[s] # "no"
  BY <1>1 DEF CallerInv, JoinInv
<1>23. main = "waiting" => dataFiles = {} /\ ~shadow
  BY <1>1 DEF CallerInv, FilesInv, HasFiles, HasShadow, Over
<1>24. main \in {"fetched", "printing"} => ~early /\ consumer # "running"
  BY <1>1 DEF CallerInv, EarlyInv, JoinInv
<1>25. /\ consumer \in {"none", "running", "closed"} /\ dataFiles \subseteq Scan \union {"changes"}
       /\ shadow \in BOOLEAN
       /\ dataFiles # {} => IsFetch /\ \A s \in Batches[1] : ended[s] = "done"
       /\ shadow => main \in HasShadow
       /\ early => dataFiles = {} /\ ~shadow
       /\ consumer = "running" => IsFetch /\ ~initialLoad
  BY <1>1 DEF CallerType, CallerInv, FilesInv, EarlyInv, JoinInv
<1>26. CASE WaitFails
  <2>1. /\ main = "waiting" /\ AllEnded /\ main' = IF consumer = "running" THEN "closing" ELSE "exited"
        /\ UNCHANGED <<user, batch, pool, consumer, dataFiles, shadow, scans, signals>>
    BY <1>26 DEF WaitFails, Go
  <2> QED BY <1>2, <1>21, <1>23, <1>25, <2>1, LaterKeeps
<1>27. CASE SingleScansDone
  <2>1. /\ main = "waiting" /\ ScansDone /\ ~IsFetch /\ main' = "returned" /\ pool' = CloseOpen
        /\ UNCHANGED <<user, batch, consumer, dataFiles, shadow, scans, signals>>
    BY <1>27 DEF SingleScansDone, Return, Go
  <2>2. ~early /\ AllEnded
    BY <1>1, <2>1 DEF CallerInv, EarlyInv, ScansDone
  <2> QED BY <1>2, <1>21, <1>23, <1>25, <2>1, <2>2, LaterKeeps
<1>28. CASE InitialLoadDone
  <2>1. /\ main = "waiting" /\ ScansDone /\ IsFetch /\ initialLoad /\ main' = "fetched"
        /\ dataFiles' = Batches[batch]
        /\ UNCHANGED <<user, batch, pool, consumer, shadow, scans, signals>>
    BY <1>28 DEF InitialLoadDone, Go
  <2>2. ~early /\ AllEnded /\ dataFiles' = Batches[1] /\ Batches[1] \subseteq Scan
        /\ \A s \in Batches[1] : ended[s] = "done"
    BY <1>1, <2>1, ScansDoneMeans, BatchesShape DEF ScansDone, CallerType
  <2>3. main' \in HasFiles
    BY <2>1 DEF HasFiles
  <2> QED BY <1>2, <1>21, <1>23, <1>25, <2>1, <2>2, <2>3, LaterKeeps
<1>29. CASE ConsumeToCompletion
  <2>1. /\ main = "waiting" /\ ScansDone /\ consumer = "running" /\ main' = "closing"
        /\ dataFiles' = {} \/ dataFiles' = Batches[batch] \union {"changes"}
        /\ UNCHANGED <<user, batch, pool, consumer, shadow, scans, signals>>
    BY <1>29 DEF ConsumeToCompletion, Go
  <2>2. IsFetch
    BY <1>25, <2>1
  <2>3. ~early /\ AllEnded /\ Batches[batch] = Batches[1] /\ Batches[1] \subseteq Scan
        /\ \A s \in Batches[1] : ended[s] = "done"
    BY <1>1, <2>1, <2>2, ScansDoneMeans, BatchesShape DEF ScansDone, CallerType
  <2>4. main' \in HasFiles /\ dataFiles' \subseteq Scan \union {"changes"}
    BY <2>1, <2>3 DEF HasFiles
  <2> QED BY <1>2, <1>21, <1>23, <1>25, <2>1, <2>2, <2>3, <2>4, LaterKeeps
<1>30. CASE CloseConsumer
  <2>1. /\ main = "closing" /\ main' = IF dataFiles = {} THEN "exited" ELSE "fetched"
        /\ consumer' = "closed"
        /\ UNCHANGED <<user, batch, pool, dataFiles, shadow, scans, signals>>
    BY <1>30 DEF CloseConsumer, Go
  <2>2. ~shadow /\ main' \in HasFiles
    BY <1>25, <2>1 DEF HasShadow, HasFiles, Over
  <2> QED BY <1>2, <1>22, <1>25, <2>1, <2>2, LaterKeeps
<1>31. CASE FetchOnly \/ PrintMetrics
  <2>1. /\ main \in {"fetched", "printing"} /\ main' = "returned" /\ pool' = CloseOpen
        /\ UNCHANGED <<user, batch, consumer, dataFiles, shadow, scans, signals>>
    BY <1>31 DEF FetchOnly, PrintMetrics, Return, Go
  <2>2. main' \in HasFiles /\ main' \in HasShadow
    BY <2>1 DEF HasFiles, HasShadow, Over
  <2> QED BY <1>2, <1>22, <1>24, <1>25, <2>1, <2>2, LaterKeeps
<1>32. CASE UpdateShadow
  <2>1. /\ main = "fetched" /\ main' = "printing" /\ shadow' = TRUE
        /\ UNCHANGED <<user, batch, pool, consumer, dataFiles, scans, signals>>
    BY <1>32 DEF UpdateShadow, Go
  <2>2. main' \in HasFiles /\ main' \in HasShadow
    BY <2>1 DEF HasFiles, HasShadow
  <2> QED BY <1>2, <1>22, <1>24, <1>25, <2>1, <2>2, LaterKeeps
<1>33. CASE UpdateShadowFails \/ PrintMetricsFails
  <2>1. /\ main \in {"fetched", "printing"} /\ main' = "exited"
        /\ UNCHANGED <<user, batch, pool, consumer, dataFiles, shadow, scans, signals>>
    BY <1>33 DEF UpdateShadowFails, PrintMetricsFails, Exit, Go
  <2>2. main' \in HasFiles /\ main' \in HasShadow
    BY <2>1 DEF HasFiles, HasShadow, Over
  <2> QED BY <1>2, <1>22, <1>24, <1>25, <2>1, <2>2, LaterKeeps
<1> QED
  BY <1>7, <1>8, <1>9, <1>10, <1>11, <1>12, <1>13, <1>14, <1>15, <1>16, <1>18, <1>19, <1>20,
     <1>26, <1>27, <1>28, <1>29, <1>30, <1>31, <1>32, <1>33 DEF CommandNext

\* The signal: a handler is armed for fetches only; where there is none, the
\* process ends.
LEMMA SignalKeeps ==
  ASSUME RunInv, Notify \/ Interrupt \/ Kill
  PROVE  RunInv'
<1>1. CallerType /\ ScanType /\ PoolType /\ (\A t \in Scan : ScanInv(t)) /\ CallerInv
  BY RunInvParts
<1>2. /\ UNCHANGED <<user, scans, batch, pool, consumer, dataFiles, shadow>>
      /\ UNCHANGED <<at, ended, command, mapper, initialLoad>>
  BY DEF Notify, Interrupt, Kill, caller, scans, user
<1>3. IsFetch' = IsFetch /\ Batches' = Batches /\ Parts' = Parts
  BY <1>2, UserFixed
<1>4. \A s \in Batches[1] : ToSend(s) => ToSend(s)'
  <2>1. Batches[1] \subseteq Scan
    BY <1>1, BatchesShape DEF CallerType
  <2> QED BY <1>1, <1>2, <2>1, QuietStep
<1>5. main' = main \/ (main' = "killed" /\ main \notin Over /\ UNCHANGED signals)
  BY DEF Notify, Interrupt, Kill, Alive, caller
<1>6. CallerType'
  <2>1. handler' \in {"default", "armed", "spent"} /\ {interrupted', early'} \subseteq BOOLEAN
    BY <1>1 DEF Notify, Interrupt, Kill, signals, CallerType
  <2> QED BY <1>1, <1>2, <1>3, <1>5, <2>1 DEF CallerType, Over
<1>7. PartOfPlan'
  BY <1>1, <1>3, <1>5 DEF CallerInv, PartOfPlan
<1>8. JoinInv'
  BY <1>1, <1>2, <1>3, <1>5 DEF CallerInv, JoinInv, Creating
<1>9. FilesInv'
  BY <1>1, <1>2, <1>3, <1>5 DEF CallerInv, FilesInv, HasFiles, HasShadow, Over
<1>10. EarlyInv'
  <2>1. CASE Notify \/ Kill
    <3>1. handler' # "default" => IsFetch
      BY <1>1, <2>1 DEF Notify, Kill, CallerInv, EarlyInv, signals
    <3>2. early' = early /\ interrupted' = interrupted
      BY <2>1 DEF Notify, Kill, signals
    <3> QED BY <1>1, <1>2, <1>3, <1>4, <1>5, <3>1, <3>2 DEF CallerInv, EarlyInv
  <2>2. CASE Interrupt
    <3>1. /\ IsFetch /\ interrupted' = TRUE /\ main' = main
          /\ early' = (main \in {"start", "waiting"} /\ \E s \in Batches[1] : ToSend(s))
      BY <1>1, <2>2 DEF Interrupt, CallerInv, EarlyInv, caller
    <3>2. main \in {"start", "waiting"} => dataFiles = {} /\ ~shadow
      BY <1>1 DEF CallerInv, FilesInv, HasFiles, HasShadow, Over
    <3> QED BY <1>2, <1>3, <1>4, <3>1, <3>2 DEF EarlyInv
  <2> QED BY <2>1, <2>2
<1>11. CreationAllOrNothing'
  <2>1. IsBenchmark' = IsBenchmark
    BY <1>2, <1>3 DEF IsBenchmark
  <2> QED BY <1>1, <1>2, <1>5, <2>1 DEF CallerInv, CreationAllOrNothing
<1> QED BY <1>2, <1>6, <1>7, <1>8, <1>9, <1>10, <1>11, QuietKeeps DEF CallerInv

LEMMA InitRunInv ==
  ASSUME Init, RunCommandAssumption
  PROVE  RunInv
<1>1. CallerType
  <2>1. command \in Command /\ 1 \in 1..Len(Batches)
    BY BatchesShape DEF Init, RunCommandAssumption
  <2> QED BY <2>1 DEF Init, CallerType, Creating
<1>2. ScanType
  <2>1. scheme \in [Side -> Scheme] /\ \A s \in Scan : at[s] = 0
    BY DEF Init
  <2>2. \A s \in Scan : at[s] <= Len(Steps(s))
    BY <2>1, StepsEnd
  <2> QED BY <2>1, <2>2 DEF Init, ScanType, RunCommandAssumption
<1>3. PoolType
  <2>1. \A side \in Side : Connections(side) = {}
    BY DEF Init, Connections
  <2> QED BY <2>1, FS_EmptySet DEF PoolType, RunCommandAssumption
<1>4. \A s \in Scan : ScanInv(s)
  BY <1>2, StepsEnd DEF Init, ScanInv, Past, ScanType
<1>5. CallerInv
  <2>1. PartOfPlan
    BY <1>1, PartsEnd DEF PartOfPlan, CallerType, Init
  <2>2. main = "config" /\ consumer = "none" /\ dataFiles = {} /\ ~shadow
        /\ handler = "default" /\ ~early /\ \A s \in Scan : at[s] = 0
    BY DEF Init
  <2> QED BY <2>1, <2>2 DEF CallerInv, JoinInv, FilesInv, EarlyInv, CreationAllOrNothing
<1> QED BY <1>1, <1>2, <1>3, <1>4, <1>5, RunInvParts

\* Nothing moves.
LEMMA StutterKeeps ==
  ASSUME RunInv, UNCHANGED vars
  PROVE  RunInv'
<1>1. CallerType /\ ScanType /\ PoolType /\ (\A t \in Scan : ScanInv(t)) /\ CallerInv
  BY RunInvParts
<1>2. /\ UNCHANGED <<user, caller, scans, signals>>
      /\ UNCHANGED <<main, batch, pool, consumer, dataFiles, shadow, at, ended,
                     handler, interrupted, early, command, mapper, initialLoad>>
  BY DEF vars, user, caller, scans, signals
<1>3. IsFetch' = IsFetch /\ Batches' = Batches /\ Parts' = Parts
  BY <1>2, UserFixed
<1>4. \A s \in Batches[1] : ToSend(s) => ToSend(s)'
  <2>1. Batches[1] \subseteq Scan
    BY <1>1, BatchesShape DEF CallerType
  <2> QED BY <1>1, <1>2, <2>1, QuietStep
<1>5. CallerType'
  BY <1>1, <1>2, <1>3 DEF CallerType
<1>6. PartOfPlan' /\ JoinInv' /\ FilesInv'
  BY <1>1, <1>2, <1>3 DEF CallerInv, PartOfPlan, JoinInv, FilesInv
<1>7. EarlyInv'
  BY <1>1, <1>2, <1>3, <1>4 DEF CallerInv, EarlyInv
<1>8. CreationAllOrNothing'
  BY <1>1, <1>2, <1>3 DEF CallerInv, CreationAllOrNothing, IsBenchmark
<1> QED BY <1>2, <1>5, <1>6, <1>7, <1>8, QuietKeeps DEF CallerInv

-----------------------------------------------------------------------------
(***************************************************************************)
(* Theorems.                                                               *)
(***************************************************************************)
\* The inductive invariant holds whenever a command is observed.
THEOREM RunInvariant == Spec => []RunInv
<1>1. Init => RunInv
  BY InitRunInv, RunCommandAssumption
<1>2. RunInv /\ [Next]_vars => RunInv'
  <2> SUFFICES ASSUME RunInv, [Next]_vars PROVE RunInv'
    OBVIOUS
  <2>1. CASE CommandNext
    BY <2>1, CommandKeeps, RunCommandAssumption
  <2>2. CASE \E s \in Scan : ScanNext(s)
    BY <2>2, ScanKeeps, RunCommandAssumption
  <2>3. CASE Notify \/ Interrupt \/ Kill
    BY <2>3, SignalKeeps
  <2>4. CASE UNCHANGED vars
    BY <2>4, StutterKeeps
  <2> QED BY <2>1, <2>2, <2>3, <2>4 DEF Next
<1> QED BY <1>1, <1>2, PTL DEF Spec

\* The types, with the limit of a pool: main.go's pools never hand out more
\* connections than they may open.
THEOREM RunTypeCorrect == Spec => []TypeOK
<1>1. RunInv => TypeOK
  BY DEF RunInv
<1> QED BY <1>1, RunInvariant, PTL

\* createComponents hands over everything or leaves no pool open.
THEOREM CreationLeavesNothing == Spec => []CreationAllOrNothing
<1>1. RunInv => CreationAllOrNothing
  BY DEF RunInv
<1> QED BY <1>1, RunInvariant, PTL

\* A scan that is done is past its query and its rows.
LEMMA DoneIsPast ==
  ASSUME RunInv, NEW s \in Scan, ended[s] = "done"
  PROVE  Past(s, Streams) /\ Past(s, {"send"})
<1>1. at[s] = Len(Steps(s)) /\ ScanType
  BY RunInvParts DEF RunInv, ScanInv
<1>2. /\ \E n \in 1..Len(Steps(s)) : n < Len(Steps(s)) /\ Steps(s)[n] = "send"
      /\ \E n \in 1..Len(Steps(s)) : n < Len(Steps(s)) /\ Steps(s)[n] \in Streams
  BY <1>1, StepsEnd DEF ScanType
<1> QED BY <1>1, <1>2 DEF Past

\* A scan that succeeds wrote every row, for tables of any size: wherever rows
\* can stop early, its sequence of calls asks rows.Err afterwards.
THEOREM ScansNotTruncated == Spec => []NoSilentTruncation
<1>1. RunInv => NoSilentTruncation
  <2> SUFFICES ASSUME RunInv, NEW s \in Scan \ {"inspect-source-extract"}, ended[s] = "done"
               PROVE  seen[s] = Rows /\ ~lost[s]
    BY DEF NoSilentTruncation
  <2>1. ScanInv(s) /\ Past(s, Streams)
    BY DoneIsPast DEF RunInv
  <2>2. lost[s] \in BOOLEAN
    BY RunInvParts DEF ScanType
  <2> QED BY <2>1, <2>2 DEF ScanInv
<1> QED BY <1>1, RunInvariant, PTL

\* When FetchData returns, every scan it started has ended and given back its
\* connection, and the consumer is closed.
THEOREM ScansJoined == Spec => []FetchJoinsItsScans
<1>1. RunInv => FetchJoinsItsScans
  <2> SUFFICES ASSUME RunInv, main \in {"closing", "fetched", "printing", "returned", "exited"}
               PROVE  /\ \A s \in Scan : (at[s] > 0 => ended[s] # "no") /\ ~connected[s]
                      /\ main # "closing" => consumer # "running"
    BY DEF FetchJoinsItsScans
  <2>1. JoinInv /\ ScanType /\ \A s \in Scan : ScanInv(s)
    BY RunInvParts DEF RunInv
  <2>2. \A s \in Scan : at[s] > 0 => ended[s] # "no"
    BY <2>1 DEF JoinInv
  <2>3. \A s \in Scan : ~connected[s]
    BY <2>1, <2>2 DEF ScanInv, ScanType
  <2>4. main # "closing" => consumer # "running"
    BY <2>1 DEF JoinInv
  <2> QED BY <2>2, <2>3, <2>4
<1> QED BY <1>1, RunInvariant, PTL

\* A run interrupted before its last query is sent hands over no file and
\* leaves the shadow alone.
THEOREM InterruptHonoured == Spec => []InterruptStopsRun
<1>1. RunInv => InterruptStopsRun
  BY DEF RunInv, EarlyInv, InterruptStopsRun
<1> QED BY <1>1, RunInvariant, PTL

\* Files of a run whose row mapper and target hash differently are those of
\* generic with ClickHouse, and of nothing else.
THEOREM MismatchLoud == Spec => []MismatchIsLoud
<1>1. RunInv => MismatchIsLoud
  <2> SUFFICES ASSUME RunInv, dataFiles # {}, ServerHash # MapperHash
               PROVE  mapper = "generic" /\ scheme["target"] = "clickhouse"
    BY DEF MismatchIsLoud
  <2>1. CallerType /\ ScanType /\ FilesInv
    BY RunInvParts DEF RunInv
  <2>2. ended["target"] = "done" /\ "target" \in Scan
    BY <2>1, BatchesShape DEF CallerType, FilesInv, Scan
  <2>3. ~Rejected("target")
    BY <2>2, DoneIsPast DEF RunInv, ScanInv
  <2>4. Understands(scheme["target"], TargetDialect)
    <3>1. "target" \notin {"source", "inspect-source"} /\ "target" \in {"target", "inspect-target"}
      OBVIOUS
    <3> QED BY <2>3, <3>1, Zenon DEF Rejected
  <2>5. scheme["target"] \in Scheme
    BY <2>1 DEF ScanType, Side
  <2> QED BY <2>4, <2>5 DEF Understands, TargetDialect, ServerHash, MapperHash, Scheme
<1> QED BY <1>1, RunInvariant, PTL
=============================================================================
