----------------------------- MODULE ToolProofs -----------------------------
(***************************************************************************)
(* Theorems about the two places where tool calls wait for others.         *)
(*                                                                         *)
(* Of call_tools, for any number of calls, of either mode, under any limit:*)
(*   BatchInvHolds          where the loop is and what has been answered   *)
(*   KeepsPromiseHolds      it implements ToolBatch                        *)
(* Of the pool, for any servers, callers and number of services started:   *)
(*   PoolTypeCorrect        the type invariant                             *)
(*   PoolInvHolds           the inductive invariant behind the others      *)
(*   NoLeakedServiceHolds   a running service is pooled or to be cancelled *)
(*   BusyIsLiveHolds        a locked connection of the pool is in a call   *)
(*   ServicesAreHeld        the two together                               *)
(*   HealthyStaysHolds      only dead entries are replaced                 *)
(***************************************************************************)
EXTENDS CallTools, McpPool, FiniteSetTheorems, TLAPS

\* The type of the state; the answers gathered are those of calls of the message.
BatchTypeOK ==
    /\ mode \in UNION {[1 .. n -> {"Parallel", "Sequential"}] : n \in 1 .. MaxCalls}
    /\ maxConcurrency \in 0 .. MaxLimit
    /\ fired \in BOOLEAN
    /\ at \in {"scan", "flush", "alone", "returned"}
    /\ next \in 1 .. Len(mode) + 1
    /\ batch \in Seq(Calls)
    /\ polling \in BOOLEAN
    /\ call \in [Calls -> {"waiting", "running", "ready"}]
    /\ result \in [Calls -> Results \cup {NoResult}]
    /\ slots \in [Calls -> Results \cup {NoResult}]
    /\ out \in Seq(Results \cup {"aborted"})

\* The loop has answered the calls up to Len(out), and gathered those after
\* them up to next, which are Parallel.
Progress ==
    /\ \A k \in 1 .. Len(batch) : batch[k] = Len(out) + k /\ mode[batch[k]] = "Parallel"
    /\ next = Len(out) + Len(batch) + 1
    /\ at = "alone" => batch = <<>>
    /\ at \in {"flush", "alone"} /\ next <= Len(mode) => mode[next] = "Sequential"
    /\ at = "alone" => next <= Len(mode)

\* Where the futures are: what is answered has ended, what the loop has not
\* come to waits, only what the task is at runs.
Futures ==
    /\ \A i \in Calls :
          /\ i <= Len(out) => call[i] = "ready" /\ out[i] \in Results
          /\ i >= next /\ (at = "alone" => i # next) => call[i] = "waiting"
          /\ call[i] = "running" => \/ at = "flush" /\ i \in Gathered
                                    \/ at = "alone" /\ i = next

\* A future that has ended has a result, and a slot holds such a result.
Yields ==
    \A i \in Calls :
        /\ call[i] = "ready" => result[i] \in Results
        /\ slots[i] # NoResult => call[i] = "ready"

BatchInv == BatchTypeOK /\ (at # "returned" => Progress /\ Futures) /\ Yields

-----------------------------------------------------------------------------

\* Every call of a batch is of one of the two modes.
LEMMA Modes ==
  ASSUME BatchTypeOK
  PROVE  /\ Len(mode) \in Nat /\ Len(mode) >= 1 /\ Calls = 1 .. Len(mode)
         /\ \A i \in Calls : mode[i] \in {"Parallel", "Sequential"}
<1>1. PICK n \in 1 .. MaxCalls : mode \in [1 .. n -> {"Parallel", "Sequential"}]
  BY DEF BatchTypeOK
<1>2. n \in Nat /\ n >= 1
  BY <1>1, CallToolsAssumption
<1>. QED
  BY <1>1, <1>2 DEF Calls

\* At least one call may run, and no more than the bound.
LEMMA Limits == BatchTypeOK => Limit \in Nat /\ 1 <= Limit /\ Limit <= MaxLimit
  BY CallToolsAssumption DEF BatchTypeOK, Limit

\* What the loop gathered are calls that it has passed.
LEMMA GatheredCalls ==
  ASSUME BatchTypeOK, Progress
  PROVE  /\ Gathered = (Len(out) + 1) .. (next - 1)
         /\ Gathered \subseteq Calls
         /\ \A i \in Gathered : mode[i] = "Parallel"
<1>1. Len(batch) \in Nat /\ DOMAIN batch = 1 .. Len(batch) /\ Len(out) \in Nat /\ next \in Nat
  BY Modes DEF BatchTypeOK
<1>2. \A i \in Gathered : i \in (Len(out) + 1) .. (next - 1) /\ mode[i] = "Parallel"
  BY <1>1 DEF Gathered, Progress
<1>3. ASSUME NEW i \in (Len(out) + 1) .. (next - 1) PROVE i \in Gathered
  <2>1. i - Len(out) \in 1 .. Len(batch) /\ batch[i - Len(out)] = i
    BY <1>1 DEF Progress
  <2>. QED
    BY <1>1, <2>1 DEF Gathered
<1>4. \A i \in Gathered : i \in Calls
  BY <1>1, Modes DEF Gathered, BatchTypeOK
<1>. QED
  BY <1>2, <1>3, <1>4

\* The first poll of a call: what it leaves in its future.
LEMMA BeginCallStep ==
  ASSUME BatchTypeOK, NEW i \in Calls, call[i] = "waiting", BeginCall(i)
  PROVE  /\ \/ call' = [call EXCEPT ![i] = "ready"] /\ result'[i] \in Results
            \/ call' = [call EXCEPT ![i] = "running"] /\ result' = result
         /\ call' \in [Calls -> {"waiting", "running", "ready"}]
         /\ result' \in [Calls -> Results \cup {NoResult}]
         /\ \A j \in Calls : j # i => result'[j] = result[j]
  BY DEF BatchTypeOK, BeginCall, Results

\* A call that begins keeps the results of those that have ended.
LEMMA BeginYields ==
  ASSUME BatchTypeOK, Yields, NEW i \in Calls, call[i] = "waiting", BeginCall(i),
         mode' = mode, slots' = slots
  PROVE  Yields'
<1>1. /\ call \in [Calls -> {"waiting", "running", "ready"}] /\ Calls' = Calls
      /\ slots[i] = NoResult
  BY DEF BatchTypeOK, Calls, Yields
<1>2. ASSUME NEW j \in Calls
      PROVE  /\ call'[j] = "ready" => result'[j] \in Results
             /\ slots[j] # NoResult => call'[j] = "ready"
  <2>1. CASE j = i
    BY <2>1, <1>1, BeginCallStep
  <2>2. CASE j # i
    <3>1. call'[j] = call[j] /\ result'[j] = result[j]
      BY <2>2, <1>1, BeginCallStep
    <3>. QED
      BY <3>1 DEF Yields
  <2>. QED
    BY <2>1, <2>2
<1>. QED
  BY <1>1, <1>2 DEF Yields

\* The fill makes a result for every call.
LEMMA Filled ==
  ASSUME BatchTypeOK, NEW so \in Seq(Results \cup {"aborted"}), Len(so) <= Len(mode)
  PROVE  /\ Fill(so) \in Seq(Results \cup {"aborted"})
         /\ Len(Fill(so)) = Len(mode)
         /\ \A i \in 1 .. Len(so) : Fill(so)[i] = so[i]
         /\ \A i \in Calls : i > Len(so) => Fill(so)[i] = "aborted"
<1> DEFINE rest == [k \in 1 .. Len(mode) - Len(so) |-> "aborted"]
<1>1. Len(mode) \in Nat /\ Len(so) \in Nat /\ Calls = 1 .. Len(mode)
  BY Modes
<1>2. rest \in Seq(Results \cup {"aborted"}) /\ Len(rest) = Len(mode) - Len(so)
  BY <1>1
<1>3. \A k \in 1 .. Len(rest) : rest[k] = "aborted"
  BY <1>2, <1>1
<1>4. Fill(so) = so \o rest
  BY DEF Fill
<1>. HIDE DEF rest
<1>. QED
  BY <1>1, <1>2, <1>3, <1>4

\* The answers of a batch follow what is answered already.
LEMMA Answered ==
  ASSUME BatchTypeOK, Progress, NEW a \in [Calls -> Results \cup {"aborted"}]
  PROVE  /\ out \o Answers(a) \in Seq(Results \cup {"aborted"})
         /\ Len(out \o Answers(a)) = next - 1
         /\ \A i \in 1 .. Len(out) : (out \o Answers(a))[i] = out[i]
         /\ \A i \in Gathered : (out \o Answers(a))[i] = a[i]
<1>1. Len(batch) \in Nat /\ DOMAIN batch = 1 .. Len(batch) /\ Len(out) \in Nat /\ next \in Nat
  BY Modes DEF BatchTypeOK
<1>2. \A k \in 1 .. Len(batch) : batch[k] \in Calls /\ batch[k] = Len(out) + k
  BY <1>1 DEF BatchTypeOK, Progress
<1>3. Answers(a) \in Seq(Results \cup {"aborted"}) /\ Len(Answers(a)) = Len(batch)
  BY <1>1, <1>2 DEF Answers
<1>4. \A k \in 1 .. Len(batch) : Answers(a)[k] = a[Len(out) + k]
  BY <1>1, <1>2 DEF Answers
<1>5. Gathered = (Len(out) + 1) .. (next - 1) /\ next = Len(out) + Len(batch) + 1
  BY GatheredCalls DEF Progress
<1>6. out \in Seq(Results \cup {"aborted"})
  BY DEF BatchTypeOK
<1>7. ASSUME NEW i \in Gathered PROVE (out \o Answers(a))[i] = a[i]
  <2>1. i - Len(out) \in 1 .. Len(batch) /\ i = Len(out) + (i - Len(out))
    BY <1>1, <1>5
  <2>2. (out \o Answers(a))[i] = Answers(a)[i - Len(out)]
    BY <1>1, <1>3, <1>6, <2>1
  <2>. QED
    BY <1>4, <2>1, <2>2
<1>. QED
  BY <1>1, <1>3, <1>5, <1>6, <1>7, SMTT(30)

-----------------------------------------------------------------------------

\* A batch that has not begun satisfies the invariant.
LEMMA BatchInvInit == BatchInit => BatchInv
<1> SUFFICES ASSUME BatchInit PROVE BatchInv
  OBVIOUS
<1>1. PICK n \in 1 .. MaxCalls : mode \in [1 .. n -> {"Parallel", "Sequential"}]
  BY DEF BatchInit
<1>2. n \in Nat /\ n >= 1 /\ Len(mode) = n /\ Calls = 1 .. n
  BY <1>1, CallToolsAssumption DEF Calls
<1>3. BatchTypeOK
  <2>1. next \in 1 .. Len(mode) + 1 /\ batch \in Seq(Calls) /\ out \in Seq(Results \cup {"aborted"})
    BY <1>2 DEF BatchInit
  <2>2. /\ call \in [Calls -> {"waiting", "running", "ready"}]
        /\ result \in [Calls -> Results \cup {NoResult}]
        /\ slots \in [Calls -> Results \cup {NoResult}]
    BY DEF BatchInit
  <2>3. /\ mode \in UNION {[1 .. k -> {"Parallel", "Sequential"}] : k \in 1 .. MaxCalls}
        /\ maxConcurrency \in 0 .. MaxLimit /\ fired \in BOOLEAN
        /\ at \in {"scan", "flush", "alone", "returned"} /\ polling \in BOOLEAN
    BY DEF BatchInit
  <2>. QED
    BY <2>1, <2>2, <2>3 DEF BatchTypeOK
<1>4. Progress /\ Futures /\ Yields
  BY <1>2 DEF BatchInit, Progress, Futures, Yields
<1>. QED
  BY <1>3, <1>4 DEF BatchInv

\* What only polls the task, or fires its token, keeps the invariant.
LEMMA OnlyPolls ==
  ASSUME BatchInv, fired' \in BOOLEAN, polling' \in BOOLEAN,
         UNCHANGED <<mode, maxConcurrency, at, next, batch, call, result, slots, out>>
  PROVE  BatchInv'
<1>1. BatchTypeOK'
  BY DEF BatchInv, BatchTypeOK, Calls
<1>2. (at' # "returned" => Progress' /\ Futures') /\ Yields'
  BY DEF BatchInv, Progress, Futures, Yields, Calls, Gathered
<1>. QED
  BY <1>1, <1>2 DEF BatchInv

\* Every step of a batch keeps the invariant.
LEMMA BatchInvStep == BatchInv /\ [BatchNext]_batchVars => BatchInv'
<1> SUFFICES ASSUME BatchInv, [BatchNext]_batchVars PROVE BatchInv'
  OBVIOUS
<1> USE DEF BatchInv, unmoved
<1>0. /\ Len(mode) \in Nat /\ Len(mode) >= 1 /\ Calls = 1 .. Len(mode) /\ next \in Nat /\ next >= 1 /\ Len(out) \in Nat
      /\ Len(batch) \in Nat /\ DOMAIN batch = 1 .. Len(batch)
      /\ \A i \in Calls : mode[i] \in {"Parallel", "Sequential"}
  BY Modes DEF BatchTypeOK
<1>1. ASSUME NEW i \in Calls, FinishCall(i) PROVE BatchInv'
  <2>1. call' = [call EXCEPT ![i] = "ready"] /\ call[i] = "running" /\ result'[i] \in Results
    BY <1>1 DEF FinishCall, BatchTypeOK, Results
  <2>2. BatchTypeOK'
    BY <1>1 DEF FinishCall, BatchTypeOK, Results, Calls
  <2>3. \A j \in Calls : j # i => result'[j] = result[j]
    BY <1>1 DEF FinishCall, BatchTypeOK
  <2>4. Yields'
    BY <1>1, <2>1, <2>3 DEF FinishCall, Yields, Calls, BatchTypeOK
  <2>5. Progress' /\ Futures'
    BY <1>1, <2>1, <1>0, SMTT(30) DEF FinishCall, Progress, Futures, Calls, BatchTypeOK, Gathered
  <2>. QED
    BY <2>2, <2>4, <2>5
<1>2. CASE Fire
  BY <1>2, OnlyPolls DEF Fire, BatchTypeOK
<1>3. CASE Gather
  <2>1. batch' = Append(batch, next) /\ next \in Calls /\ next' = next + 1
    BY <1>3, <1>0 DEF Gather
  <2>2. /\ Len(batch') = Len(batch) + 1 /\ batch'[Len(batch) + 1] = next
        /\ \A k \in 1 .. Len(batch) : batch'[k] = batch[k]
        /\ batch' \in Seq(Calls)
    BY <2>1, <1>0 DEF BatchTypeOK
  <2>3. BatchTypeOK'
    BY <1>3, <2>1, <2>2, <1>0 DEF Gather, BatchTypeOK, Calls
  <2>4. Progress'
    <3>1. /\ at = "scan" /\ Progress /\ at' = at /\ out' = out /\ mode' = mode
          /\ mode[next] = "Parallel" /\ next' = next + 1
      BY <1>3 DEF Gather
    <3>2. ASSUME NEW k \in 1 .. Len(batch')
          PROVE  batch'[k] = Len(out) + k /\ mode[batch'[k]] = "Parallel"
      <4>1. CASE k \in 1 .. Len(batch)
        BY <4>1, <2>2, <3>1 DEF Progress
      <4>2. CASE k = Len(batch) + 1
        BY <4>2, <2>2, <3>1, <1>0 DEF Progress
      <4>. QED
        BY <4>1, <4>2, <2>2, <1>0
    <3>3. next' = Len(out) + Len(batch') + 1
      BY <2>2, <3>1, <1>0 DEF Progress
    <3>. QED
      BY <3>1, <3>2, <3>3 DEF Progress
  <2>5. Futures' /\ Yields'
    BY <1>3, <2>1, <1>0 DEF Gather, Futures, Yields, Calls
  <2>. QED
    BY <2>3, <2>4, <2>5
<1>4. CASE Barrier
  BY <1>4, <1>0 DEF Barrier, BatchTypeOK, Progress, Futures, Yields, Calls, Gathered
<1>5. CASE Poll
  BY <1>5, OnlyPolls DEF Poll, unmoved, BatchTypeOK
<1>6. CASE Pend
  BY <1>6, OnlyPolls DEF Pend, unmoved, BatchTypeOK
<1>7. ASSUME NEW i \in Calls, StartParallel(i) PROVE BatchInv'
  <2>1. i \in Gathered /\ call[i] = "waiting" /\ at = "flush" /\ BeginCall(i)
    BY <1>7 DEF StartParallel, FirstWaiting
  <2>2. i > Len(out) /\ i < next
    BY <2>1, <1>0, GatheredCalls
  <2>3. BatchTypeOK'
    BY <1>7, <2>1, BeginCallStep DEF StartParallel, BatchTypeOK, Calls
  <2>4. Progress' /\ Gathered' = Gathered
    BY <1>7 DEF StartParallel, Progress, Gathered
  <2>5. Futures'
    <3>1. /\ Futures /\ at' = at /\ next' = next /\ out' = out /\ Calls' = Calls
          /\ call \in [Calls -> {"waiting", "running", "ready"}]
      BY <1>7, <2>1 DEF StartParallel, Calls, BatchTypeOK
    <3>2. \A j \in Calls : j # i => call'[j] = call[j]
      BY <2>1, <3>1, BeginCallStep
    <3>. QED
      BY <2>1, <2>2, <2>4, <3>1, <3>2, <1>0 DEF Futures
  <2>6. Yields'
    BY <1>7, <2>1, BeginYields DEF StartParallel
  <2>. QED
    BY <2>3, <2>4, <2>5, <2>6
<1>8. ASSUME NEW i \in Calls, Yield(i) PROVE BatchInv'
  <2>0. /\ UNCHANGED <<mode, maxConcurrency, fired, at, next, batch, call, result, out>>
        /\ slots' = [slots EXCEPT ![i] = result[i]] /\ polling' = FALSE /\ call[i] = "ready"
    BY <1>8 DEF Yield, unmoved
  <2>1. BatchTypeOK'
    <3>1. slots' \in [Calls -> Results \cup {NoResult}]
      BY <2>0 DEF BatchTypeOK
    <3>. QED
      BY <2>0, <3>1 DEF BatchTypeOK, Calls
  <2>2. Progress' /\ Futures'
    BY <2>0, <1>8 DEF Yield, Progress, Futures, Gathered, Calls
  <2>3. Yields'
    BY <2>0 DEF Yields, Calls, BatchTypeOK
  <2>. QED
    BY <2>1, <2>2, <2>3
<1>9. CASE Flushed
  <2>1. slots \in [Calls -> Results \cup {NoResult}] /\ \A i \in Gathered : slots[i] # NoResult
    BY <1>9 DEF Flushed, BatchTypeOK
  <2> DEFINE a == [i \in Calls |-> IF slots[i] = NoResult THEN "aborted" ELSE slots[i]]
  <2>2. a \in [Calls -> Results \cup {"aborted"}] /\ \A i \in Gathered : a[i] = slots[i]
    BY <2>1, GatheredCalls, <1>9 DEF Flushed
  <2>3. Answers(a) = Answers(slots)
    BY <2>2, <1>0 DEF Answers, Gathered
  <2>4. at # "returned" /\ Progress /\ Futures /\ batch' = <<>> /\ next' = next /\ call' = call
    BY <1>9 DEF Flushed
  <2>5. /\ out' \in Seq(Results \cup {"aborted"}) /\ Len(out') = next - 1
        /\ \A i \in 1 .. Len(out) : out'[i] = out[i]
        /\ \A i \in Gathered : out'[i] = slots[i]
    <3>. HIDE DEF a
    <3>. QED
      BY <1>9, <2>2, <2>3, <2>4, Answered DEF Flushed
  <2>6. BatchTypeOK'
    BY <1>9, <2>5 DEF Flushed, BatchTypeOK, Calls
  <2>7. Progress'
    BY <1>9, <2>4, <2>5, <1>0 DEF Flushed, Progress
  <2>8. ASSUME NEW i \in Calls, i <= Len(out') PROVE call[i] = "ready" /\ out'[i] \in Results
    <3>1. CASE i <= Len(out)
      BY <3>1, <2>4, <2>5, <1>0 DEF Futures
    <3>2. CASE i > Len(out)
      <4>1. i \in Gathered
        BY <3>2, <2>4, <2>5, <2>8, <1>0, GatheredCalls
      <4>. QED
        BY <4>1, <2>1, <2>5, GatheredCalls, <2>4 DEF Yields
    <3>. QED
      BY <3>1, <3>2, <1>0
  <2>9. ASSUME NEW i \in Calls PROVE call[i] # "running"
    BY <2>1, <2>4, <1>9, GatheredCalls DEF Flushed, Futures, Yields
  <2>10. Futures'
    BY <1>9, <2>4, <2>8, <2>9 DEF Flushed, Futures, Calls
  <2>11. Yields'
    BY <1>9 DEF Flushed, Yields, Calls
  <2>. QED
    BY <2>6, <2>7, <2>10, <2>11
<1>10. CASE AbortFlush
  <2> DEFINE a == [i \in Calls |-> Salvage(i)]
  <2>1. a \in [Calls -> Results \cup {"aborted"}]
    BY DEF Salvage, Yields, BatchTypeOK, Results, NoResult
  <2>2. at # "returned" /\ Progress
    BY <1>10 DEF AbortFlush
  <2>3. out \o Answers(a) \in Seq(Results \cup {"aborted"}) /\ Len(out \o Answers(a)) = next - 1
    <3>. HIDE DEF a
    <3>. QED
      BY <2>1, <2>2, Answered
  <2>4. next - 1 <= Len(mode)
    BY <1>0 DEF BatchTypeOK
  <2>5. out' \in Seq(Results \cup {"aborted"})
    BY <1>10, <2>3, <2>4, Filled DEF AbortFlush
  <2>6. BatchTypeOK'
    BY <1>10, <2>5 DEF AbortFlush, BatchTypeOK, Calls
  <2>7. at' = "returned" /\ Yields'
    BY <1>10 DEF AbortFlush, Yields, Calls
  <2>. QED
    BY <2>6, <2>7
<1>11. CASE StartAlone
  <2>1. next \in Calls /\ batch = <<>> /\ next = Len(out) + 1
    BY <1>11, <1>0 DEF StartAlone, Progress
  <2>2. BatchTypeOK'
    BY <1>11, <2>1, BeginCallStep DEF StartAlone, BatchTypeOK, Calls
  <2>3. Progress'
    BY <1>11 DEF StartAlone, Progress
  <2>4. Futures'
    BY <1>11, <1>0, <2>1, BeginCallStep DEF StartAlone, Futures, Calls, BatchTypeOK
  <2>5. Yields'
    BY <1>11, <2>1, BeginYields DEF StartAlone
  <2>. QED
    BY <2>2, <2>3, <2>4, <2>5
<1>12. CASE AloneDone
  <2>1. next \in Calls /\ batch = <<>> /\ next = Len(out) + 1 /\ result[next] \in Results
    BY <1>12, <1>0 DEF AloneDone, Progress, Yields
  <2>2. /\ out' \in Seq(Results \cup {"aborted"}) /\ Len(out') = Len(out) + 1
        /\ out'[next] = result[next] /\ \A i \in 1 .. Len(out) : out'[i] = out[i]
    BY <1>12, <2>1 DEF AloneDone, BatchTypeOK
  <2>3. BatchTypeOK'
    <3>1. next' \in 1 .. Len(mode') + 1 /\ at' = "scan" /\ polling' = FALSE
      BY <1>12, <2>1, <1>0 DEF AloneDone
    <3>. QED
      BY <1>12, <2>2, <3>1 DEF AloneDone, BatchTypeOK, Calls
  <2>4. Progress'
    BY <1>12, <2>1, <2>2, <1>0 DEF AloneDone, Progress
  <2>5. Futures' /\ Yields'
    BY <1>12, <1>0, <2>1, <2>2 DEF AloneDone, Futures, Yields, Calls
  <2>. QED
    BY <2>3, <2>4, <2>5
<1>13. CASE AbortAlone
  <2>1. Len(out) <= Len(mode)
    BY <1>13, <1>0 DEF AbortAlone, Progress
  <2>2. out' \in Seq(Results \cup {"aborted"})
    BY <1>13, <2>1, Filled DEF AbortAlone, BatchTypeOK
  <2>3. BatchTypeOK'
    BY <1>13, <2>2 DEF AbortAlone, BatchTypeOK, Calls
  <2>4. at' = "returned" /\ Yields'
    BY <1>13 DEF AbortAlone, Yields, Calls
  <2>. QED
    BY <2>3, <2>4
<1>14. CASE UNCHANGED batchVars
  BY <1>14 DEF batchVars, BatchTypeOK, Progress, Futures, Yields, Calls, Gathered
<1>. QED
  BY <1>1, <1>2, <1>3, <1>4, <1>5, <1>6, <1>7, <1>8, <1>9, <1>10, <1>11, <1>12, <1>13, <1>14
     DEF BatchNext, Task, Returned

\* In every state of the loop: what is answered is answered in order and has
\* ended, what is ahead has not started, and only what the task waits for runs.
THEOREM BatchInvHolds == BatchSpec => []BatchInv
  BY BatchInvInit, BatchInvStep, PTL DEF BatchSpec

-----------------------------------------------------------------------------
(* The promise.                                                             *)

\* What a promised state is made of, for a call.
LEMMA Stages ==
  ASSUME BatchTypeOK
  PROVE  \A i \in Calls : /\ Stage[i] = "waiting" <=> call[i] = "waiting"
                          /\ Stage[i] = "open" <=> call[i] = "running"
                          /\ Stage[i] = "ended" <=> call[i] = "ready"
  BY DEF Stage, BatchTypeOK

\* A batch begins where the promise begins.
LEMMA PromiseInit == BatchInit => Promise!Init
<1> SUFFICES ASSUME BatchInit PROVE Promise!Init
  OBVIOUS
<1>1. Limit \in 1 .. MaxLimit
  BY CallToolsAssumption DEF BatchInit, Limit
<1>2. Stage = [i \in Promise!Calls |-> "waiting"]
  BY DEF BatchInit, Stage, Calls, Promise!Calls
<1>3. Told = <<>>
  BY DEF BatchInit, Told
<1>. QED
  BY <1>1, <1>2, <1>3 DEF BatchInit, Promise!Init

\* A call that the task starts may start.
LEMMA StartsMay ==
  ASSUME BatchInv, NEW i \in Calls, call[i] = "waiting",
         \/ at = "flush" /\ i \in Gathered /\ Cardinality(InFlight) < Limit
         \/ at = "alone" /\ i = next
  PROVE  Promise!MayStart(i)
<1>0. /\ BatchTypeOK /\ at # "returned" /\ Progress /\ Futures
      /\ Calls = 1 .. Len(mode) /\ Len(mode) \in Nat /\ Len(out) \in Nat /\ next \in Nat
      /\ Gathered = (Len(out) + 1) .. (next - 1)
  BY Modes, GatheredCalls DEF BatchInv, BatchTypeOK
<1>1. Told = <<>>
  BY <1>0 DEF Told
<1>2. Promise!Open = {j \in Calls : call[j] = "running"}
  BY <1>0, Stages DEF Promise!Open, Promise!Calls, Calls
<1>3. Cardinality(Promise!Open) < Limit
  <2>1. CASE at = "flush"
    <3>1. Promise!Open \subseteq InFlight
      BY <1>0, <1>2, <2>1 DEF Futures, InFlight, Yields, BatchInv
    <3>2. IsFiniteSet(InFlight)
      <4>1. IsFiniteSet(Gathered)
        BY <1>0, FS_Interval
      <4>2. InFlight \subseteq Gathered
        BY DEF InFlight
      <4>. QED
        BY <4>1, <4>2, FS_Subset
    <3>3. /\ Cardinality(Promise!Open) \in Nat /\ Cardinality(InFlight) \in Nat
          /\ Cardinality(Promise!Open) <= Cardinality(InFlight)
      <4>. HIDE DEF InFlight
      <4>. QED
        BY <3>1, <3>2, FS_Subset, FS_CardinalityType
    <3>4. Cardinality(InFlight) < Limit /\ Limit \in Nat
      BY <2>1, <1>0, Limits
    <3>. QED
      BY <3>3, <3>4
  <2>2. CASE at = "alone"
    <3>1. Promise!Open = {}
      BY <1>0, <1>2, <2>2 DEF Futures
    <3>2. Cardinality(Promise!Open) = 0 /\ Limit >= 1 /\ Limit \in Nat
      BY <3>1, <1>0, FS_EmptySet, Limits
    <3>. QED
      BY <3>2
  <2>. QED
    BY <2>1, <2>2
<1>4. ASSUME NEW j \in Calls \ {i}, "Sequential" \in {mode[i], mode[j]}
      PROVE  Stage[j] # "open" /\ (j < i => Stage[j] = "ended")
  <2>1. CASE at = "flush"
    <3>1. j \notin Gathered
      BY <1>0, <1>4, <2>1, GatheredCalls
    <3>. QED
      BY <1>0, <2>1, <3>1, <1>4, Stages DEF Futures
  <2>2. CASE at = "alone"
    <3>1. i = next /\ next = Len(out) + 1 /\ j # next /\ j \in Calls
      BY <1>0, <2>2, <1>4 DEF Progress
    <3>2. call[j] # "running" /\ (j < i => call[j] = "ready")
      BY <1>0, <2>2, <3>1 DEF Futures
    <3>. QED
      BY <1>0, <3>1, <3>2, Stages
  <2>. QED
    BY <2>1, <2>2
<1>5. Promise!Cardinality(Promise!Open) = Cardinality(Promise!Open)
  BY DEF Promise!Cardinality, Cardinality
<1>. QED
  BY <1>1, <1>3, <1>4, <1>5 DEF Promise!MayStart, Promise!Calls, Calls

\* A step that leaves the futures and the return as they were is not seen.
LEMMA Unseen ==
  ASSUME UNCHANGED <<mode, maxConcurrency, fired, call>>, Told' = Told
  PROVE  UNCHANGED Promise!vars
  BY DEF Promise!vars, Stage, Limit, Calls

\* The first poll of a call starts it, or ends it at once.
LEMMA BeginPromised ==
  ASSUME BatchTypeOK, NEW i \in Calls, call[i] = "waiting", BeginCall(i), Promise!MayStart(i),
         UNCHANGED <<mode, maxConcurrency, fired, at, out>>
  PROVE  Promise!Next
<1>1. Told' = Told /\ Limit' = Limit /\ Calls' = Calls
  BY DEF Told, Limit, Calls
<1>2. Stage[i] = "waiting" /\ Stage \in [Calls -> {"waiting", "open", "ended"}]
  BY Stages DEF Stage, BatchTypeOK
<1>3. CASE call' = [call EXCEPT ![i] = "ready"]
  <2>1. Stage' = [Stage EXCEPT ![i] = "ended"]
    BY <1>1, <1>3 DEF Stage, BatchTypeOK
  <2>2. Promise!Refuse(i)
    BY <1>1, <1>2, <2>1 DEF Promise!Refuse
  <2>. QED
    BY <2>2 DEF Promise!Next, Promise!Calls, Calls
<1>4. CASE call' = [call EXCEPT ![i] = "running"]
  <2>1. Stage' = [Stage EXCEPT ![i] = "open"]
    BY <1>1, <1>4 DEF Stage, BatchTypeOK
  <2>2. Promise!Start(i)
    BY <1>1, <1>2, <2>1 DEF Promise!Start
  <2>. QED
    BY <2>2 DEF Promise!Next, Promise!Calls, Calls
<1>. QED
  BY <1>3, <1>4, BeginCallStep

\* The task returns: every call is told what it may be told.
LEMMA ReturnPromised ==
  ASSUME BatchTypeOK, at # "returned", at' = "returned",
         UNCHANGED <<mode, maxConcurrency, fired, call>>,
         \A i \in Calls :
            IF out'[i] = "aborted" THEN fired /\ (call[i] = "ready" => Promise!LastAlone(i))
                                   ELSE call[i] = "ready" \/ (fired /\ call[i] = "waiting")
  PROVE  Promise!Next
<1>1. Told = <<>> /\ Stage' = Stage /\ Limit' = Limit
  BY DEF Told, Stage, Limit, Calls
<1>2. Told' = [i \in Calls |-> IF out'[i] = "aborted" THEN "aborted" ELSE "own"]
  BY DEF Told, Calls
<1>3. \A i \in Calls : Promise!MayAnswer(i, Told'[i])
  BY <1>2, Stages DEF Promise!MayAnswer
<1>4. Told' \in [Calls -> {"own", "aborted"}]
  BY <1>2
<1>5. Promise!Return
  BY <1>1, <1>3, <1>4 DEF Promise!Return, Promise!Calls, Calls
<1>. QED
  BY <1>5 DEF Promise!Next

\* Every step of a batch is one of the promise, or none of it.
LEMMA PromiseStep == BatchInv /\ [BatchNext]_batchVars => [Promise!Next]_(Promise!vars)
<1> SUFFICES ASSUME BatchInv, [BatchNext]_batchVars PROVE [Promise!Next]_(Promise!vars)
  OBVIOUS
<1> USE DEF unmoved
<1>0. /\ BatchTypeOK /\ Yields
      /\ at # "returned" => /\ Progress /\ Futures
                            /\ Gathered = (Len(out) + 1) .. (next - 1) /\ Gathered \subseteq Calls
                            /\ \A i \in Gathered : mode[i] = "Parallel"
      /\ Calls = 1 .. Len(mode) /\ Len(mode) \in Nat /\ Len(out) \in Nat /\ next \in 1 .. Len(mode) + 1
      /\ out \in Seq(Results \cup {"aborted"})
  BY Modes, GatheredCalls DEF BatchInv, BatchTypeOK
<1>1. ASSUME NEW i \in Calls, FinishCall(i) PROVE Promise!Next
  <2>1. Told = <<>> /\ Told' = Told /\ Limit' = Limit /\ Stage[i] = "open"
    BY <1>0, <1>1, Stages DEF FinishCall, Told, Limit
  <2>2. Stage' = [Stage EXCEPT ![i] = "ended"]
    BY <1>0, <1>1 DEF FinishCall, Stage, Calls, BatchTypeOK
  <2>3. Promise!End(i)
    BY <1>1, <2>1, <2>2 DEF FinishCall, Promise!End
  <2>. QED
    BY <2>3 DEF Promise!Next, Promise!Calls, Calls
<1>2. CASE Fire
  <2>1. Promise!Fire
    BY <1>2 DEF Fire, Promise!Fire, Stage, Told, Limit, Calls
  <2>. QED
    BY <2>1 DEF Promise!Next
<1>3. ASSUME UNCHANGED <<mode, maxConcurrency, fired, call>>, at # "returned", at' # "returned"
      PROVE  UNCHANGED Promise!vars
  BY <1>3, Unseen DEF Told
<1>4. CASE Gather \/ Barrier \/ Poll \/ Pend \/ AloneDone
  BY <1>3, <1>4 DEF Gather, Barrier, Poll, Pend, AloneDone
<1>5. ASSUME NEW i \in Calls, Yield(i) PROVE UNCHANGED Promise!vars
  BY <1>3, <1>5 DEF Yield
<1>6. ASSUME NEW i \in Calls, StartParallel(i) PROVE Promise!Next
  BY <1>0, <1>6, StartsMay, BeginPromised DEF StartParallel, FirstWaiting
<1>7. CASE StartAlone
  BY <1>0, <1>7, StartsMay, BeginPromised DEF StartAlone, Progress
<1>8. CASE Flushed
  <2>1. CASE next <= Len(mode)
    BY <1>3, <1>8, <2>1 DEF Flushed
  <2>2. CASE ~(next <= Len(mode))
    <3>1. at # "returned" /\ at' = "returned" /\ UNCHANGED <<mode, maxConcurrency, fired, call>> /\ next - 1 = Len(mode)
      BY <1>0, <1>8, <2>2 DEF Flushed
    <3> DEFINE a == [i \in Calls |-> IF slots[i] = NoResult THEN "aborted" ELSE slots[i]]
    <3>2. slots \in [Calls -> Results \cup {NoResult}] /\ \A i \in Gathered : slots[i] # NoResult
      BY <1>0, <1>8 DEF Flushed, BatchTypeOK
    <3>3. a \in [Calls -> Results \cup {"aborted"}] /\ \A i \in Gathered : a[i] = slots[i]
      BY <1>0, <3>1, <3>2
    <3>4. Answers(a) = Answers(slots)
      <4>1. Len(batch) \in Nat /\ DOMAIN batch = 1 .. Len(batch)
        BY <1>0 DEF BatchTypeOK
      <4>2. \A k \in 1 .. Len(batch) : a[batch[k]] = slots[batch[k]]
        <5>. HIDE DEF a
        <5>. QED
          BY <3>3, <4>1 DEF Gathered
      <4>. QED
        BY <4>2 DEF Answers
    <3>5. (\A i \in 1 .. Len(out) : out'[i] = out[i]) /\ (\A i \in Gathered : out'[i] = slots[i])
      <4>. HIDE DEF a
      <4>. QED
        BY <1>0, <1>8, <3>1, <3>3, <3>4, Answered, SMTT(30) DEF Flushed
    <3>6. ASSUME NEW i \in Calls PROVE call[i] = "ready" /\ out'[i] \in Results
      <4>1. CASE i <= Len(out)
        BY <1>0, <3>1, <3>5, <4>1 DEF Futures
      <4>2. CASE i > Len(out)
        BY <1>0, <3>1, <3>2, <3>5, <4>2 DEF Yields
      <4>. QED
        BY <4>1, <4>2, <1>0
    <3>7. \A i \in Calls : out'[i] # "aborted"
      BY <3>6 DEF Results
    <3>. QED
      BY <1>0, <3>1, <3>6, <3>7, ReturnPromised
  <2>. QED
    BY <2>1, <2>2
<1>9. CASE AbortFlush
  <2>1. /\ at # "returned" /\ at' = "returned" /\ fired /\ at = "flush"
        /\ UNCHANGED <<mode, maxConcurrency, fired, call>>
    BY <1>9 DEF AbortFlush
  <2> DEFINE a == [i \in Calls |-> Salvage(i)]
  <2>2. a \in [Calls -> Results \cup {"aborted"}]
    BY <1>0 DEF Salvage, Yields, BatchTypeOK, Results, NoResult
  <2> DEFINE so == out \o Answers(a)
  <2>3. /\ so \in Seq(Results \cup {"aborted"}) /\ Len(so) = next - 1 /\ Len(so) <= Len(mode)
        /\ \A i \in 1 .. Len(out) : so[i] = out[i]
        /\ \A i \in Gathered : so[i] = a[i]
    <3>. HIDE DEF a
    <3>. QED
      BY <1>0, <2>1, <2>2, Answered
  <2>4. out' = Fill(so)
    BY <1>9 DEF AbortFlush
  <2>5. /\ \A i \in 1 .. Len(so) : out'[i] = so[i]
        /\ \A i \in Calls : i > Len(so) => out'[i] = "aborted"
    <3>. HIDE DEF so
    <3>. QED
      BY <1>0, <2>3, <2>4, Filled
  <2>6. ASSUME NEW i \in Calls
        PROVE  IF out'[i] = "aborted" THEN fired /\ (call[i] = "ready" => Promise!LastAlone(i))
                                      ELSE call[i] = "ready" \/ (fired /\ call[i] = "waiting")
    <3>1. CASE i <= Len(out)
      <4>1. out'[i] = out[i] /\ out[i] \in Results /\ call[i] = "ready"
        <5>. HIDE DEF so
        <5>. QED
          BY <1>0, <2>1, <2>3, <2>5, <3>1 DEF Futures
      <4>. QED
        BY <4>1 DEF Results
    <3>2. CASE i \in Gathered
      <4>1. out'[i] = Salvage(i)
        <5>1. out'[i] = a[i]
          <6>. HIDE DEF so, a
          <6>. QED
            BY <1>0, <2>1, <2>3, <2>5, <3>2
        <5>. QED
          BY <5>1
      <4>2. /\ call[i] \in {"waiting", "running", "ready"}
            /\ call[i] = "ready" => result[i] \in Results
            /\ slots[i] # NoResult => call[i] = "ready" /\ slots[i] \in Results
        BY <1>0 DEF Yields, BatchTypeOK
      <4>. QED
        BY <2>1, <4>1, <4>2 DEF Salvage, Results, NoResult
    <3>3. CASE i >= next
      <4>1. out'[i] = "aborted"
        <5>. HIDE DEF so
        <5>. QED
          BY <1>0, <2>3, <2>5, <3>3
      <4>2. call[i] = "waiting"
        BY <1>0, <2>1, <3>3 DEF Futures
      <4>. QED
        BY <2>1, <4>1, <4>2
    <3>. QED
      BY <1>0, <2>1, <3>1, <3>2, <3>3
  <2>. QED
    BY <1>0, <2>1, <2>6, ReturnPromised
<1>10. CASE AbortAlone
  <2>1. /\ at # "returned" /\ at' = "returned" /\ fired /\ at = "alone"
        /\ UNCHANGED <<mode, maxConcurrency, fired, call>>
    BY <1>10 DEF AbortAlone
  <2>2. next = Len(out) + 1 /\ next <= Len(mode) /\ mode[next] = "Sequential"
    BY <1>0, <2>1 DEF Progress
  <2>3. /\ \A i \in 1 .. Len(out) : out'[i] = out[i]
        /\ \A i \in Calls : i > Len(out) => out'[i] = "aborted"
    BY <1>0, <1>10, <2>2, Filled DEF AbortAlone
  <2>4. ASSUME NEW i \in Calls
        PROVE  IF out'[i] = "aborted" THEN fired /\ (call[i] = "ready" => Promise!LastAlone(i))
                                      ELSE call[i] = "ready" \/ (fired /\ call[i] = "waiting")
    <3>1. CASE i <= Len(out)
      BY <1>0, <2>1, <2>3, <3>1 DEF Futures, Results
    <3>2. CASE i = next
      <4>1. \A j \in Calls : j > i => Stage[j] = "waiting"
        BY <1>0, <2>1, <2>2, <3>2, Stages DEF Futures
      <4>2. Promise!LastAlone(i)
        BY <2>2, <3>2, <4>1 DEF Promise!LastAlone, Promise!Calls, Calls
      <4>. QED
        BY <2>1, <2>2, <2>3, <3>2, <4>2
    <3>3. CASE i > next
      BY <1>0, <2>1, <2>2, <2>3, <3>3 DEF Futures
    <3>. QED
      BY <1>0, <2>2, <3>1, <3>2, <3>3
  <2>. QED
    BY <1>0, <2>1, <2>4, ReturnPromised
<1>11. CASE UNCHANGED batchVars
  BY <1>11, Unseen DEF batchVars, Told, Calls
<1>. QED
  BY <1>1, <1>2, <1>4, <1>5, <1>6, <1>7, <1>8, <1>9, <1>10, <1>11 DEF BatchNext, Task, Returned

\* call_tools implements ToolBatch: results in the order of the calls, one for
\* each; Sequential calls alone, Parallel ones within the limit; after an abort
\* every call that ended keeps its result, but for the last to run when it is
\* Sequential: the token wins over its result (AbortAlone).
THEOREM KeepsPromiseHolds == BatchSpec => KeepsPromise
<1>1. BatchSpec => []BatchInv
  BY BatchInvHolds
<1>2. BatchInit => Promise!Init
  BY PromiseInit
<1>3. BatchInv /\ [BatchNext]_batchVars => [Promise!Next]_(Promise!vars)
  BY PromiseStep
<1>. QED
  BY <1>1, <1>2, <1>3, PTL DEF BatchSpec, KeepsPromise, Promise!Spec

-----------------------------------------------------------------------------
(* The pool.                                                                *)

\* Every variable keeps its type; a caller at its connection, and the shutdown
\* at one, have an entry.
THEOREM PoolTypeCorrect == Spec => []TypeOK
<1> USE PoolAssumption DEF Entries, None
<1>1. Init => TypeOK
  BY DEF Init, TypeOK, Free
<1>2. TypeOK /\ [Next]_vars => TypeOK'
  <2> SUFFICES ASSUME TypeOK, [Next]_vars
               PROVE  TypeOK'
    OBVIOUS
  <2> USE DEF TypeOK, poolVars, entryVars, callVars, hostVars, Goto, Finish
  <2>1. ASSUME NEW c \in Callers, NEW s \in Servers, NEW a \in {0, 1}, Begin(c, s, a)
        PROVE  TypeOK'
    BY <2>1 DEF Begin
  <2>2. ASSUME NEW c \in Callers, Reuse(c) PROVE TypeOK'
    <3>1. server[c] \in Servers /\ pool[server[c]] \in Entries
      BY <2>2 DEF Reuse
    <3>. QED
      BY <2>2, <3>1 DEF Reuse
  <2>3. ASSUME NEW c \in Callers, Connect(c) PROVE TypeOK'
    <3>1. server[c] \in Servers /\ pool[server[c]] \in Entries \cup {None}
      BY <2>3 DEF Connect
    <3>2. dead' \in [Entries -> BOOLEAN]
          /\ background' \in [Entries -> {"none", "waiting", "cancelling"}]
      BY <2>3, <3>1 DEF Connect
    <3>. QED
      BY <2>3, <3>1, <3>2 DEF Connect
  <2>4. ASSUME NEW c \in Callers, Connected(c) PROVE TypeOK'
    <3>1. server[c] \in Servers /\ nextEntry \in Entries
      BY <2>4 DEF Connected
    <3>. QED
      BY <2>4, <3>1 DEF Connected
  <2>5. ASSUME NEW c \in Callers, ConnectFails(c) PROVE TypeOK'
    BY <2>5 DEF ConnectFails
  <2>6. ASSUME NEW c \in Callers, StartCall(c) PROVE TypeOK'
    BY <2>6 DEF StartCall
  <2>7. ASSUME NEW c \in Callers, entry[c] \in Entries, pc[c] # "idle", Failed(c)
        PROVE  /\ dead' \in [Entries -> BOOLEAN]
               /\ pc' \in [Callers -> {"idle", "wantPool", "connecting", "wantConn", "calling"}]
               /\ server' \in [Callers -> Servers \cup {NoServer}]
               /\ entry' \in [Callers -> Entries \cup {None}]
               /\ attempt' \in [Callers -> 0 .. 2]
               /\ \A b \in Callers :
                     /\ pc'[b] # "idle" => server'[b] \in Servers
                     /\ pc'[b] \in {"wantConn", "calling"} => entry'[b] \in Entries
    <3>1. CASE attempt[c] = 0 /\ Finish(c) /\ UNCHANGED dead
      BY <3>1
    <3>2. CASE /\ attempt[c] = 1 /\ dead' = [dead EXCEPT ![entry[c]] = TRUE]
               /\ Goto(c, "wantPool") /\ attempt' = [attempt EXCEPT ![c] = 2]
               /\ entry' = [entry EXCEPT ![c] = None] /\ UNCHANGED server
      BY <2>7, <3>2
    <3>3. CASE attempt[c] = 2 /\ dead' = [dead EXCEPT ![entry[c]] = TRUE] /\ Finish(c)
      BY <2>7, <3>3
    <3>. QED
      BY <2>7, <3>1, <3>2, <3>3 DEF Failed
  <2>8. ASSUME NEW c \in Callers, NotAvailable(c) PROVE TypeOK'
    <3>1. entry[c] \in Entries /\ pc[c] # "idle" /\ Failed(c)
      BY <2>8 DEF NotAvailable
    <3>. QED
      BY <2>7, <2>8, <3>1 DEF NotAvailable
  <2>9. ASSUME NEW c \in Callers, CallReturns(c) PROVE TypeOK'
    BY <2>9 DEF CallReturns
  <2>10. ASSUME NEW c \in Callers, CallFails(c) PROVE TypeOK'
    <3>1. entry[c] \in Entries /\ pc[c] # "idle" /\ Failed(c)
      BY <2>10 DEF CallFails
    <3>2. connLock' \in [Entries -> Callers \cup {Free, Canceller, Host}]
      BY <2>10, <3>1 DEF CallFails
    <3>. QED
      BY <2>7, <2>10, <3>1, <3>2 DEF CallFails
  <2>11. ASSUME NEW c \in Callers, Dropped(c) PROVE TypeOK'
    <3>1. poolLock' \in Callers \cup {Free}
      BY <2>11 DEF Dropped
    <3>2. connLock' \in [Entries -> Callers \cup {Free, Canceller, Host}]
      BY <2>11 DEF Dropped
    <3>3. /\ pc' = [pc EXCEPT ![c] = "idle"]
          /\ server' = [server EXCEPT ![c] = NoServer]
          /\ entry' = [entry EXCEPT ![c] = None]
          /\ attempt' = [attempt EXCEPT ![c] = 0]
      BY <2>11 DEF Dropped
    <3>4. \A b \in Callers : /\ pc'[b] # "idle" => server'[b] \in Servers
                             /\ pc'[b] \in {"wantConn", "calling"} => entry'[b] \in Entries
      BY <3>3
    <3>. QED
      BY <2>11, <3>1, <3>2, <3>3, <3>4 DEF Dropped
  <2>12. ASSUME NEW e \in Entries, TakeService(e) PROVE TypeOK'
    <3>1. service' \in [Entries -> {"none", "running", "cancelled"}]
      BY <2>12 DEF TakeService
    <3>2. connLock' \in [Entries -> Callers \cup {Free, Canceller, Host}]
      BY <2>12 DEF TakeService
    <3>3. background' \in [Entries -> {"none", "waiting", "cancelling"}]
      BY <2>12 DEF TakeService
    <3>. QED
      BY <2>12, <3>1, <3>2, <3>3 DEF TakeService
  <2>13. ASSUME NEW e \in Entries, Cancelled(e) PROVE TypeOK'
    BY <2>13 DEF Cancelled
  <2>14. CASE CallShutdown
    BY <2>14 DEF CallShutdown
  <2>15. CASE TakeAll
    BY <2>15 DEF TakeAll
  <2>16. ASSUME NEW e \in Entries, Visit(e) PROVE TypeOK'
    BY <2>16 DEF Visit
  <2>17. CASE TakeCurrent
    BY <2>17 DEF TakeCurrent
  <2>18. CASE CurrentCancelled
    BY <2>18 DEF CurrentCancelled
  <2>19. CASE TimedOut
    BY <2>19 DEF TimedOut
  <2>20. CASE ShutDown
    BY <2>20 DEF ShutDown
  <2>21. CASE UNCHANGED vars
    BY <2>21 DEF vars
  <2>. QED
    <3>1. ASSUME NEW c \in Callers, Caller(c) PROVE TypeOK'
      <4>. HIDE DEF TypeOK
      <4>. QED
        BY <2>1, <2>2, <2>3, <2>4, <2>5, <2>6, <2>8, <2>9, <2>10, <2>11, <3>1 DEF Caller
    <3>2. CASE Shutdown
      <4>. HIDE DEF TypeOK
      <4>. QED
        BY <2>14, <2>15, <2>16, <2>17, <2>18, <2>19, <2>20, <3>2 DEF Shutdown
    <3>. HIDE DEF TypeOK
    <3>. QED
      BY <2>12, <2>13, <2>21, <3>1, <3>2 DEF Next
<1>. QED
  BY <1>1, <1>2, PTL DEF Spec

-----------------------------------------------------------------------------

\* What has not been started yet is nowhere.
FreshEntries ==
    \A e \in Entries : e >= nextEntry =>
        service[e] = "none" /\ background[e] = "none" /\ e \notin drained /\ e # current

\* An entry of the pool runs, is that of one server, and is in the hands of
\* nobody who cancels.
Pooled ==
    \A s \in Servers : pool[s] # None =>
        /\ pool[s] < nextEntry
        /\ service[pool[s]] = "running" /\ background[pool[s]] = "none"
        /\ pool[s] \notin drained /\ pool[s] # current
        /\ \A r \in Servers : pool[r] = pool[s] => r = s

\* Who cancels holds the lock of the connection only to do that.
CancelLocks ==
    \A e \in Entries :
        /\ connLock[e] = Canceller => background[e] = "cancelling"
        /\ connLock[e] = Host => shutdown = "cancelling" /\ current = e

\* During a handshake the caller holds the pool lock and the server has no
\* entry.
Handshakes ==
    \A c \in Callers : pc[c] = "connecting" => poolLock = c /\ pool[server[c]] = None

\* The host has entries in hand only while it drains them.
Draining ==
    /\ shutdown \in {"idle", "wantPool"} => drained = {}
    /\ shutdown \notin {"wantConn", "cancelling"} => current = None
    /\ shutdown = "cancelling" => service[current] = "cancelled"
    /\ current \notin drained
    /\ \A e \in Entries : e \in drained \/ e = current => background[e] = "none"

\* The inductive invariant of the pool.
PoolInv ==
    /\ FreshEntries
    /\ Pooled
    /\ CancelLocks
    /\ Handshakes
    /\ Draining
    /\ NoLeakedService

\* No service leaks, and what the callers, the background tasks and the host
\* hold stays apart.
THEOREM PoolInvHolds == Spec => []PoolInv
<1> USE PoolAssumption DEF Entries, None
<1>1. Init => PoolInv
  BY DEF Init, PoolInv, FreshEntries, Pooled, CancelLocks, Handshakes, Draining,
     NoLeakedService, Free, Canceller, Host
<1>2. TypeOK /\ PoolInv /\ [Next]_vars => PoolInv'
  <2> SUFFICES ASSUME TypeOK, PoolInv, [Next]_vars
               PROVE  PoolInv'
    OBVIOUS
  <2> USE DEF PoolInv, poolVars, entryVars, callVars, hostVars, Goto, Finish
  <2>1. ASSUME NEW c \in Callers, NEW s \in Servers, NEW a \in {0, 1}, Begin(c, s, a) PROVE PoolInv'
    <3>1. FreshEntries'
      BY <2>1 DEF Begin, FreshEntries, TypeOK
    <3>2. Pooled'
      BY <2>1 DEF Begin, Pooled, TypeOK
    <3>3. CancelLocks'
      BY <2>1 DEF Begin, CancelLocks, TypeOK
    <3>4. Handshakes'
      BY <2>1 DEF Begin, Handshakes, TypeOK
    <3>5. Draining'
      BY <2>1 DEF Begin, Draining, TypeOK
    <3>6. NoLeakedService'
      BY <2>1 DEF Begin, NoLeakedService, TypeOK
    <3>. QED
      BY <3>1, <3>2, <3>3, <3>4, <3>5, <3>6
  <2>2. ASSUME NEW c \in Callers, Reuse(c) PROVE PoolInv'
    <3>1. FreshEntries'
      BY <2>2 DEF Reuse, FreshEntries, TypeOK
    <3>2. Pooled'
      BY <2>2 DEF Reuse, Pooled, TypeOK
    <3>3. CancelLocks'
      BY <2>2 DEF Reuse, CancelLocks, TypeOK
    <3>4. Handshakes'
      BY <2>2 DEF Reuse, Handshakes, TypeOK
    <3>5. Draining'
      BY <2>2 DEF Reuse, Draining, TypeOK
    <3>6. NoLeakedService'
      BY <2>2 DEF Reuse, NoLeakedService, TypeOK
    <3>. QED
      BY <3>1, <3>2, <3>3, <3>4, <3>5, <3>6
  <2>3. ASSUME NEW c \in Callers, Connect(c) PROVE PoolInv'
    <3>1. FreshEntries'
      BY <2>3 DEF Connect, FreshEntries, Pooled, TypeOK
    <3>2. Pooled'
      BY <2>3 DEF Connect, Pooled, TypeOK
    <3>3. CancelLocks'
      BY <2>3 DEF Connect, CancelLocks, Pooled, TypeOK
    <3>4. Handshakes'
      BY <2>3 DEF Connect, Handshakes, TypeOK
    <3>5. Draining'
      BY <2>3 DEF Connect, Draining, Pooled, TypeOK
    <3>6. NoLeakedService'
      BY <2>3 DEF Connect, NoLeakedService, TypeOK
    <3>. QED
      BY <3>1, <3>2, <3>3, <3>4, <3>5, <3>6
  <2>4. ASSUME NEW c \in Callers, Connected(c) PROVE PoolInv'
    <3>1. FreshEntries'
      BY <2>4 DEF Connected, FreshEntries, TypeOK
    <3>2. Pooled'
      BY <2>4 DEF Connected, Pooled, FreshEntries, Handshakes, TypeOK
    <3>3. CancelLocks'
      BY <2>4 DEF Connected, CancelLocks, TypeOK
    <3>4. Handshakes'
      BY <2>4 DEF Connected, Handshakes, TypeOK
    <3>5. Draining'
      BY <2>4 DEF Connected, Draining, FreshEntries, TypeOK
    <3>6. NoLeakedService'
      BY <2>4 DEF Connected, NoLeakedService, Handshakes, TypeOK
    <3>. QED
      BY <3>1, <3>2, <3>3, <3>4, <3>5, <3>6
  <2>5. ASSUME NEW c \in Callers, ConnectFails(c) PROVE PoolInv'
    <3>1. FreshEntries'
      BY <2>5 DEF ConnectFails, FreshEntries, TypeOK
    <3>2. Pooled'
      BY <2>5 DEF ConnectFails, Pooled, TypeOK
    <3>3. CancelLocks'
      BY <2>5 DEF ConnectFails, CancelLocks, TypeOK
    <3>4. Handshakes'
      BY <2>5 DEF ConnectFails, Handshakes, TypeOK
    <3>5. Draining'
      BY <2>5 DEF ConnectFails, Draining, TypeOK
    <3>6. NoLeakedService'
      BY <2>5 DEF ConnectFails, NoLeakedService, TypeOK
    <3>. QED
      BY <3>1, <3>2, <3>3, <3>4, <3>5, <3>6
  <2>6. ASSUME NEW c \in Callers, StartCall(c) PROVE PoolInv'
    <3>1. FreshEntries'
      BY <2>6 DEF StartCall, FreshEntries, TypeOK
    <3>2. Pooled'
      BY <2>6 DEF StartCall, Pooled, TypeOK
    <3>3. CancelLocks'
      BY <2>6 DEF StartCall, CancelLocks, Free, Canceller, Host, TypeOK
    <3>4. Handshakes'
      BY <2>6 DEF StartCall, Handshakes, TypeOK
    <3>5. Draining'
      BY <2>6 DEF StartCall, Draining, TypeOK
    <3>6. NoLeakedService'
      BY <2>6 DEF StartCall, NoLeakedService, TypeOK
    <3>. QED
      BY <3>1, <3>2, <3>3, <3>4, <3>5, <3>6
  <2>7. ASSUME NEW c \in Callers, NotAvailable(c) PROVE PoolInv'
    <3>1. FreshEntries'
      BY <2>7 DEF NotAvailable, FreshEntries, TypeOK
    <3>2. Pooled'
      BY <2>7 DEF NotAvailable, Pooled, TypeOK
    <3>3. CancelLocks'
      BY <2>7 DEF NotAvailable, CancelLocks, TypeOK
    <3>4. Handshakes'
      BY <2>7 DEF NotAvailable, Handshakes, Failed, TypeOK
    <3>5. Draining'
      BY <2>7 DEF NotAvailable, Draining, TypeOK
    <3>6. NoLeakedService'
      BY <2>7 DEF NotAvailable, NoLeakedService, TypeOK
    <3>. QED
      BY <3>1, <3>2, <3>3, <3>4, <3>5, <3>6
  <2>8. ASSUME NEW c \in Callers, CallReturns(c) PROVE PoolInv'
    <3>1. FreshEntries'
      BY <2>8 DEF CallReturns, FreshEntries, TypeOK
    <3>2. Pooled'
      BY <2>8 DEF CallReturns, Pooled, TypeOK
    <3>3. CancelLocks'
      BY <2>8 DEF CallReturns, CancelLocks, Free, Canceller, Host, TypeOK
    <3>4. Handshakes'
      BY <2>8 DEF CallReturns, Handshakes, TypeOK
    <3>5. Draining'
      BY <2>8 DEF CallReturns, Draining, TypeOK
    <3>6. NoLeakedService'
      BY <2>8 DEF CallReturns, NoLeakedService, TypeOK
    <3>. QED
      BY <3>1, <3>2, <3>3, <3>4, <3>5, <3>6
  <2>9. ASSUME NEW c \in Callers, CallFails(c) PROVE PoolInv'
    <3>1. FreshEntries'
      BY <2>9 DEF CallFails, FreshEntries, TypeOK
    <3>2. Pooled'
      BY <2>9 DEF CallFails, Pooled, TypeOK
    <3>3. CancelLocks'
      BY <2>9 DEF CallFails, CancelLocks, Free, Canceller, Host, TypeOK
    <3>4. Handshakes'
      BY <2>9 DEF CallFails, Handshakes, Failed, TypeOK
    <3>5. Draining'
      BY <2>9 DEF CallFails, Draining, TypeOK
    <3>6. NoLeakedService'
      BY <2>9 DEF CallFails, NoLeakedService, TypeOK
    <3>. QED
      BY <3>1, <3>2, <3>3, <3>4, <3>5, <3>6
  <2>10. ASSUME NEW c \in Callers, Dropped(c) PROVE PoolInv'
    <3>1. FreshEntries'
      BY <2>10 DEF Dropped, FreshEntries, TypeOK
    <3>2. Pooled'
      BY <2>10 DEF Dropped, Pooled, TypeOK
    <3>3. CancelLocks'
      BY <2>10 DEF Dropped, CancelLocks, Free, Canceller, Host, TypeOK
    <3>4. Handshakes'
      BY <2>10 DEF Dropped, Handshakes, TypeOK
    <3>5. Draining'
      BY <2>10 DEF Dropped, Draining, TypeOK
    <3>6. NoLeakedService'
      BY <2>10 DEF Dropped, NoLeakedService, TypeOK
    <3>. QED
      BY <3>1, <3>2, <3>3, <3>4, <3>5, <3>6
  <2>11. ASSUME NEW e \in Entries, TakeService(e) PROVE PoolInv'
    <3>1. FreshEntries'
      BY <2>11 DEF TakeService, FreshEntries, TypeOK
    <3>2. Pooled'
      BY <2>11 DEF TakeService, Pooled, TypeOK
    <3>3. CancelLocks'
      BY <2>11 DEF TakeService, CancelLocks, Free, Canceller, Host, TypeOK
    <3>4. Handshakes'
      BY <2>11 DEF TakeService, Handshakes, TypeOK
    <3>5. Draining'
      BY <2>11 DEF TakeService, Draining, TypeOK
    <3>6. NoLeakedService'
      BY <2>11 DEF TakeService, NoLeakedService, TypeOK
    <3>. QED
      BY <3>1, <3>2, <3>3, <3>4, <3>5, <3>6
  <2>12. ASSUME NEW e \in Entries, Cancelled(e) PROVE PoolInv'
    <3>1. FreshEntries'
      BY <2>12 DEF Cancelled, FreshEntries, TypeOK
    <3>2. Pooled'
      BY <2>12 DEF Cancelled, Pooled, TypeOK
    <3>3. CancelLocks'
      BY <2>12 DEF Cancelled, CancelLocks, Free, Canceller, Host, TypeOK
    <3>4. Handshakes'
      BY <2>12 DEF Cancelled, Handshakes, TypeOK
    <3>5. Draining'
      BY <2>12 DEF Cancelled, Draining, TypeOK
    <3>6. NoLeakedService'
      BY <2>12 DEF Cancelled, NoLeakedService, TypeOK
    <3>. QED
      BY <3>1, <3>2, <3>3, <3>4, <3>5, <3>6
  <2>13. CASE CallShutdown
    <3>1. FreshEntries'
      BY <2>13 DEF CallShutdown, FreshEntries, TypeOK
    <3>2. Pooled'
      BY <2>13 DEF CallShutdown, Pooled, TypeOK
    <3>3. CancelLocks'
      BY <2>13 DEF CallShutdown, CancelLocks, TypeOK
    <3>4. Handshakes'
      BY <2>13 DEF CallShutdown, Handshakes, TypeOK
    <3>5. Draining'
      BY <2>13 DEF CallShutdown, Draining, TypeOK
    <3>6. NoLeakedService'
      BY <2>13 DEF CallShutdown, NoLeakedService, TypeOK
    <3>. QED
      BY <3>1, <3>2, <3>3, <3>4, <3>5, <3>6
  <2>14. CASE TakeAll
    <3>1. FreshEntries'
      BY <2>14 DEF TakeAll, FreshEntries, Pooled, TypeOK
    <3>2. Pooled'
      BY <2>14 DEF TakeAll, Pooled, TypeOK
    <3>3. CancelLocks'
      BY <2>14 DEF TakeAll, CancelLocks, TypeOK
    <3>4. Handshakes'
      BY <2>14 DEF TakeAll, Handshakes, TypeOK
    <3>5. Draining'
      BY <2>14 DEF TakeAll, Draining, Pooled, TypeOK
    <3>6. NoLeakedService'
      BY <2>14 DEF TakeAll, NoLeakedService, Draining, TypeOK
    <3>. QED
      BY <3>1, <3>2, <3>3, <3>4, <3>5, <3>6
  <2>15. ASSUME NEW e \in Entries, Visit(e) PROVE PoolInv'
    <3>1. FreshEntries'
      BY <2>15 DEF Visit, FreshEntries, TypeOK
    <3>2. Pooled'
      BY <2>15 DEF Visit, Pooled, TypeOK
    <3>3. CancelLocks'
      BY <2>15 DEF Visit, CancelLocks, TypeOK
    <3>4. Handshakes'
      BY <2>15 DEF Visit, Handshakes, TypeOK
    <3>5. Draining'
      BY <2>15 DEF Visit, Draining, TypeOK
    <3>6. NoLeakedService'
      BY <2>15 DEF Visit, NoLeakedService, Draining, TypeOK
    <3>. QED
      BY <3>1, <3>2, <3>3, <3>4, <3>5, <3>6
  <2>16. CASE TakeCurrent
    <3>1. FreshEntries'
      BY <2>16 DEF TakeCurrent, FreshEntries, TypeOK
    <3>2. Pooled'
      BY <2>16 DEF TakeCurrent, Pooled, TypeOK
    <3>3. CancelLocks'
      BY <2>16 DEF TakeCurrent, CancelLocks, Free, Canceller, Host, TypeOK
    <3>4. Handshakes'
      BY <2>16 DEF TakeCurrent, Handshakes, TypeOK
    <3>5. Draining'
      BY <2>16 DEF TakeCurrent, Draining, TypeOK
    <3>6. NoLeakedService'
      BY <2>16 DEF TakeCurrent, NoLeakedService, TypeOK
    <3>. QED
      BY <3>1, <3>2, <3>3, <3>4, <3>5, <3>6
  <2>17. CASE CurrentCancelled
    <3>1. FreshEntries'
      BY <2>17 DEF CurrentCancelled, FreshEntries, TypeOK
    <3>2. Pooled'
      BY <2>17 DEF CurrentCancelled, Pooled, TypeOK
    <3>3. CancelLocks'
      BY <2>17 DEF CurrentCancelled, CancelLocks, Free, Canceller, Host, TypeOK
    <3>4. Handshakes'
      BY <2>17 DEF CurrentCancelled, Handshakes, TypeOK
    <3>5. Draining'
      BY <2>17 DEF CurrentCancelled, Draining, TypeOK
    <3>6. NoLeakedService'
      BY <2>17 DEF CurrentCancelled, NoLeakedService, Draining, TypeOK
    <3>. QED
      BY <3>1, <3>2, <3>3, <3>4, <3>5, <3>6
  <2>18. CASE TimedOut
    <3>1. FreshEntries'
      BY <2>18 DEF TimedOut, FreshEntries, TypeOK
    <3>2. Pooled'
      BY <2>18 DEF TimedOut, Pooled, TypeOK
    <3>3. CancelLocks'
      BY <2>18 DEF TimedOut, CancelLocks, Draining, Free, Canceller, Host, TypeOK
    <3>4. Handshakes'
      BY <2>18 DEF TimedOut, Handshakes, TypeOK
    <3>5. Draining'
      BY <2>18 DEF TimedOut, Draining, TypeOK
    <3>6. NoLeakedService'
      BY <2>18 DEF TimedOut, NoLeakedService, TypeOK
    <3>. QED
      BY <3>1, <3>2, <3>3, <3>4, <3>5, <3>6
  <2>19. CASE ShutDown
    <3>1. FreshEntries'
      BY <2>19 DEF ShutDown, FreshEntries, TypeOK
    <3>2. Pooled'
      BY <2>19 DEF ShutDown, Pooled, TypeOK
    <3>3. CancelLocks'
      BY <2>19 DEF ShutDown, CancelLocks, TypeOK
    <3>4. Handshakes'
      BY <2>19 DEF ShutDown, Handshakes, TypeOK
    <3>5. Draining'
      BY <2>19 DEF ShutDown, Draining, TypeOK
    <3>6. NoLeakedService'
      BY <2>19 DEF ShutDown, NoLeakedService, TypeOK
    <3>. QED
      BY <3>1, <3>2, <3>3, <3>4, <3>5, <3>6
  <2>20. CASE UNCHANGED vars
    BY <2>20 DEF vars, FreshEntries, Pooled, CancelLocks, Handshakes, Draining,
       NoLeakedService
  <2>. HIDE DEF PoolInv
  <2>. QED
    <3>1. ASSUME NEW c \in Callers, Caller(c) PROVE PoolInv'
      BY <2>1, <2>2, <2>3, <2>4, <2>5, <2>6, <2>7, <2>8, <2>9, <2>10, <3>1 DEF Caller
    <3>2. CASE Shutdown
      BY <2>13, <2>14, <2>15, <2>16, <2>17, <2>18, <2>19, <3>2 DEF Shutdown
    <3>. QED
      BY <2>11, <2>12, <2>20, <3>1, <3>2 DEF Next
<1>. QED
  BY <1>1, <1>2, PoolTypeCorrect, PTL DEF Spec

-----------------------------------------------------------------------------

\* Every running service is in the pool or will be cancelled.
THEOREM NoLeakedServiceHolds == Spec => []NoLeakedService
<1>1. PoolInv => NoLeakedService
  BY DEF PoolInv
<1>. QED
  BY <1>1, PoolInvHolds, PTL

\* get_or_create may take a connection it cannot lock for live.
THEOREM BusyIsLiveHolds == Spec => []BusyIsLive
<1>1. TypeOK /\ PoolInv => BusyIsLive
  <2> SUFFICES ASSUME TypeOK, PoolInv, NEW s \in Servers,
                      pool[s] # None, connLock[pool[s]] # Free
               PROVE  connLock[pool[s]] \in Callers /\ service[pool[s]] = "running"
    BY DEF BusyIsLive
  <2>1. pool[s] \in Entries
    BY DEF TypeOK
  <2>2. service[pool[s]] = "running" /\ background[pool[s]] = "none" /\ pool[s] # current
    BY DEF PoolInv, Pooled
  <2>3. connLock[pool[s]] # Canceller /\ connLock[pool[s]] # Host
    BY <2>1, <2>2 DEF PoolInv, CancelLocks
  <2>. QED
    BY <2>1, <2>2, <2>3 DEF TypeOK
<1>. QED
  BY <1>1, PoolTypeCorrect, PoolInvHolds, PTL

\* A late failure does not discard a healthy replacement.
THEOREM HealthyStaysHolds == Spec => HealthyStays
<1> DEFINE Kept == \A s \in Servers :
                      pool[s] # None /\ pool'[s] # pool[s] /\ shutdown' = shutdown
                          => dead[pool[s]]
<1>1. TypeOK /\ PoolInv /\ [Next]_vars => [Kept]_vars
  <2> SUFFICES ASSUME TypeOK, PoolInv, Next, NEW s \in Servers,
                      pool[s] # None, pool'[s] # pool[s], shutdown' = shutdown
               PROVE  dead[pool[s]]
    OBVIOUS
  <2>1. ASSUME NEW c \in Callers, Connect(c) PROVE dead[pool[s]]
    <3>1. s = server[c] /\ Unusable(c, pool[s])
      BY <2>1 DEF Connect, TypeOK
    <3>2. service[pool[s]] = "running"
      BY DEF PoolInv, Pooled
    <3>. QED
      BY <3>1, <3>2 DEF Unusable
  <2>2. ASSUME NEW c \in Callers, Connected(c) PROVE dead[pool[s]]
    BY <2>2 DEF Connected, PoolInv, Handshakes, TypeOK
  <2>3. CASE TakeAll
    BY <2>3 DEF TakeAll
  <2>4. CASE UNCHANGED pool
    BY <2>4
  <2>. QED
    <3>1. ASSUME NEW c \in Callers, Caller(c) PROVE dead[pool[s]]
      BY <2>1, <2>2, <2>4, <3>1 DEF Caller, Begin, Reuse, ConnectFails, StartCall,
         NotAvailable, CallReturns, CallFails, Dropped, poolVars
    <3>2. CASE Shutdown
      BY <2>3, <2>4, <3>2 DEF Shutdown, CallShutdown, Visit, TakeCurrent,
         CurrentCancelled, TimedOut, ShutDown, poolVars
    <3>3. ASSUME NEW e \in Entries, TakeService(e) \/ Cancelled(e) PROVE dead[pool[s]]
      BY <2>4, <3>3 DEF TakeService, Cancelled, poolVars
    <3>. QED
      BY <3>1, <3>2, <3>3 DEF Next
<1>2. Spec => [][Kept]_vars
  BY <1>1, PoolTypeCorrect, PoolInvHolds, PTL DEF Spec
<1>. QED
  BY <1>2 DEF HealthyStays

\* Services that run are held, and busy connections have theirs.
THEOREM ServicesAreHeld == Spec => []ServicesHeld
<1>1. NoLeakedService /\ BusyIsLive => ServicesHeld
  BY DEF ServicesHeld
<1>. QED
  BY <1>1, NoLeakedServiceHolds, BusyIsLiveHolds, PTL
=============================================================================
