----------------------- MODULE EndpointFailoverProofs -----------------------
(* Proofs about both loops around a publish.

   EndpointFailover, for any number of endpoints, retries and objects and
   any queue depth: endpoints are used in order and within their budget,
   and a session that replaces another is handed the newest catalog, then
   the media from the resume point on, in order and whole.

   PublisherLifecycle, for any input, retries, migrations and disconnects:
   sessions are connected, closed and counted once, and each continues the
   groups, the catalog and the input where the one before it stopped, but
   for the fragments SessionsContinue names. *)
EXTENDS EndpointFailover, PublisherLifecycle, DataTheorems

(* ---- the parts of the invariant ---- *)

InAttempt == pc \in {"entering", "creating", "connecting", "session"}

\* The budget: the sessions begun at each endpoint, and in all.
Budget ==
    /\ attemptCount <= (endpoint - 1) * MaxAttempts
                         + (IF pc \in {"attempt", "wait"} THEN attempt - 1 ELSE attempt)
    /\ InAttempt => attemptCount > 0 /\ sessions[endpoint] = attempt
    /\ pc \in {"attempt", "wait"} => sessions[endpoint] = attempt - 1

\* disconnect() is the answer to a signal.
StopsForSignal ==
    /\ monitor = "closing" => stopSignal
    /\ stopRequested => stopSignal

\* What is retained was handed out, in order, and comes before what is left to
\* replay; only the first object of a replay is a catalog.
InSequence ==
    /\ \A i \in DOMAIN retained : IsMedia(retained[i])
    /\ \A i, j \in DOMAIN retained : i < j => retained[i] < retained[j]
    /\ Range(retained) \subseteq Range(delivered)
    /\ \A j \in DOMAIN replay : j > 1 => IsMedia(replay[j])
    /\ \A i, j \in DOMAIN replay :
          i < j /\ IsMedia(replay[i]) => replay[i] < replay[j]
    /\ \A i, j \in DOMAIN delivered :
          i < j /\ IsMedia(delivered[i]) /\ IsMedia(delivered[j])
              => delivered[i] < delivered[j]
    /\ \A i \in DOMAIN delivered, j \in DOMAIN replay :
          IsMedia(delivered[i]) /\ IsMedia(replay[j]) => delivered[i] < replay[j]

\* The media objects that are held, and their number.
Held == {p \in Range(retained) \cup Range(replay) : IsMedia(p)}
HeldCount ==
    IF replay = <<>> \/ IsMedia(replay[1]) THEN Len(retained) + Len(replay)
                                           ELSE (Len(retained) + Len(replay)) - 1
Bounded == HeldCount <= MaxBufferedObjects

\* retained_catalog_ is the newest catalog of the source.
NewestCatalog ==
    IF retainedCatalog = None THEN \A p \in DOMAIN source : IsMedia(p)
    ELSE /\ ~IsMedia(retainedCatalog)
         /\ \A p \in DOMAIN source : p > retainedCatalog => IsMedia(p)

\* A later session begins with the catalog that was newest when it began.
CatalogLeads ==
    \A c \in 1..before :
        attemptCount > 1 /\ ~IsMedia(c) /\ (\A p \in 1..before : p > c => IsMedia(p)) =>
            IF delivered = <<>> THEN replay # <<>> /\ replay[1] = c ELSE delivered[1] = c

\* Nothing is held or was read before the first attempt.
FirstAttempt ==
    attemptCount = 0 =>
        source = <<>> /\ retained = <<>> /\ replay = <<>> /\ retainedCatalog = None

\* Unless a replay was thrown away: what is held is the newest media, back to
\* a boundary, to the limit of the window or to the first object.
NewestHeld ==
    ~dropped =>
        /\ \A p \in DOMAIN source, q \in Held : IsMedia(p) /\ p > q => p \in Held
        /\ Held = {} => \A p \in DOMAIN source : ~IsMedia(p)
        /\ \/ HeldCount = MaxBufferedObjects
           \/ \E q \in Held : IsBoundary(q) /\ \A r \in Held : q <= r
           \/ \A p \in DOMAIN source : IsMedia(p) => p \in Held

\* Unless a replay was thrown away: what is due to a session is what it was
\* handed and what is left to replay.
DueHanded ==
    ~dropped =>
        \A p \in DOMAIN source :
            p \in Due <=> IsMedia(p) /\ p \in Range(delivered) \cup Range(replay)

\* The end of the source ends a session with nothing left to replay.
EndDrained ==
    pc = "done" /\ status = "ok" /\ ~stopSignal => replay = <<>>

(* ---- the endpoints' budget ---- *)

PolicyTypes ==
    /\ pc \in {"attempt", "entering", "creating", "connecting", "session",
              "wait", "done"}
    /\ endpoint \in 1..Endpoints /\ attempt \in 1..MaxAttempts
    /\ status \in Statuses
    /\ attemptCount \in 0..Endpoints * MaxAttempts
    /\ sessions \in [1..Endpoints -> 0..MaxAttempts]
    /\ rejected \subseteq 1..Endpoints

WindowTypes ==
    /\ retainedCatalog \in {None} \cup DOMAIN source
    /\ retained \in Seq(DOMAIN source) /\ replay \in Seq(DOMAIN source)
    /\ source \in Seq(Kinds) /\ Len(source) <= MaxObjects
    /\ delivered \in Seq(DOMAIN source) /\ before \in 0..Len(source)

StopTypes ==
    /\ monitor \in {"watching", "closing", "over"}
    /\ stopRequested \in BOOLEAN /\ sessionClosed \in BOOLEAN
    /\ sourceFinished \in BOOLEAN /\ stopSignal \in BOOLEAN /\ dropped \in BOOLEAN

LEMMA TypeParts == TypeOK <=> PolicyTypes /\ WindowTypes /\ StopTypes
  BY DEF TypeOK, PolicyTypes, WindowTypes, StopTypes

\* An endpoint is given up after its whole budget or a permanent failure.
Spent(e) == sessions[e] = MaxAttempts \/ (e \in rejected /\ sessions[e] > 0)

\* The endpoints are left in order.
LeftInOrder ==
    /\ \A e \in 1..Endpoints : /\ e < endpoint => Spent(e)
                               /\ e > endpoint => sessions[e] = 0
    /\ pc = "done" /\ status \in {"retryable", "permanent"} => Spent(endpoint)

LEMMA OrderParts == FailoverOrder <=> LeftInOrder
  BY DEF FailoverOrder, LeftInOrder, Spent

BudgetInv == PolicyTypes /\ Budget /\ LeftInOrder

LEMMA MaxAttemptsType == MaxAttempts \in Nat \ {0}
  BY RetryCountAssumption DEF MaxAttempts

\* The budgets of the endpoints so far, and of all of them.
LEMMA BudgetSums ==
    ASSUME NEW m \in Nat, NEW n \in Nat, NEW e \in 1..n
    PROVE  /\ (e - 1) * m + m = e * m /\ e * m <= n * m
           /\ (e - 1) * m \in Nat /\ e * m \in Nat /\ n * m \in Nat
<1>1. (e - 1) * m + m = e * m OBVIOUS
<1>2. (n - e) * m \in Nat OBVIOUS
<1>3. n * m = e * m + (n - e) * m OBVIOUS
<1>4. (e - 1) * m \in Nat /\ e * m \in Nat /\ n * m \in Nat OBVIOUS
<1> QED BY <1>1, <1>2, <1>3, <1>4

LEMMA InitBudget == Init => BudgetInv
<1> SUFFICES ASSUME Init PROVE BudgetInv OBVIOUS
<1>1. /\ pc = "attempt" /\ endpoint = 1 /\ attempt = 1 /\ status = "retryable"
      /\ attemptCount = 0 /\ sessions = [e \in 1..Endpoints |-> 0] /\ rejected = {}
  BY DEF Init
<1>2. MaxAttempts \in Nat \ {0} /\ Endpoints \in Nat \ {0} BY MaxAttemptsType, EndpointsAssumption
<1>3. Endpoints * MaxAttempts \in Nat /\ (endpoint - 1) * MaxAttempts \in Nat BY <1>1, <1>2
<1>4. PolicyTypes BY <1>1, <1>2, <1>3 DEF PolicyTypes, Statuses
<1>5. Budget BY <1>1, <1>2, <1>3 DEF Budget, InAttempt
<1>6. LeftInOrder BY <1>1, <1>2 DEF LeftInOrder
<1> QED BY <1>4, <1>5, <1>6 DEF BudgetInv

\* What publish_with_failover() does with a status keeps to the budget.
LEMMA ReturnKeepsBudget ==
    ASSUME BudgetInv, NEW kind \in Statuses, AttemptReturns(kind),
           UNCHANGED <<attemptCount, sessions>>,
           InAttempt \/ (pc = "attempt" /\ Reported(kind) = "cancelled")
    PROVE  BudgetInv' /\ pc' \in {"attempt", "wait", "done"}
<1>0. MaxAttempts \in Nat \ {0} /\ Endpoints \in Nat \ {0} BY MaxAttemptsType, EndpointsAssumption
<1>u. attemptCount' = attemptCount /\ sessions' = sessions OBVIOUS
<1>1. /\ endpoint \in 1..Endpoints /\ attempt \in 1..MaxAttempts
      /\ attemptCount \in 0..Endpoints * MaxAttempts
      /\ sessions \in [1..Endpoints -> 0..MaxAttempts]
      /\ rejected \subseteq 1..Endpoints
  BY DEF BudgetInv, PolicyTypes
<1>2. /\ (endpoint - 1) * MaxAttempts + MaxAttempts = endpoint * MaxAttempts
      /\ (endpoint - 1) * MaxAttempts \in Nat /\ endpoint * MaxAttempts \in Nat
  BY <1>0, <1>1, BudgetSums
<1>3. status' \in Statuses /\ status' = Reported(kind) BY DEF AttemptReturns, Reported, Statuses
<1>4. rejected' = IF status' = "permanent" THEN rejected \cup {endpoint} ELSE rejected BY DEF AttemptReturns
<1>5. \A e \in 1..Endpoints : Spent(e) => Spent(e)' BY <1>4 DEF Spent
<1>6. /\ \A e \in 1..Endpoints : /\ e < endpoint => Spent(e)
                                 /\ e > endpoint => sessions[e] = 0
  BY DEF BudgetInv, LeftInOrder
<1>7. attemptCount <= (endpoint - 1) * MaxAttempts + attempt BY <1>1, <1>2 DEF BudgetInv, Budget, InAttempt
<1>8. InAttempt => sessions[endpoint] = attempt BY DEF BudgetInv, Budget
<1>a. CASE status' \in {"ok", "cancelled", "fatal"}
  <2>1. pc' = "done" /\ UNCHANGED <<endpoint, attempt>> BY <1>a DEF AttemptReturns
  <2>2. PolicyTypes' BY <1>1, <1>3, <1>4, <2>1 DEF PolicyTypes
  <2>3. Budget' BY <1>7, <2>1 DEF Budget, InAttempt
  <2>4. LeftInOrder' BY <1>5, <1>6, <1>a, <2>1 DEF LeftInOrder
  <2> QED BY <2>1, <2>2, <2>3, <2>4 DEF BudgetInv
<1>b. CASE status' \in {"retryable", "permanent"} /\ MovesOn
  <2>0. InAttempt /\ sessions[endpoint] = attempt BY <1>3, <1>8, <1>b
  <2>1. \A e \in 1..Endpoints : e = endpoint => Spent(e)' BY <1>u, <1>1, <1>4, <1>b, <2>0 DEF MovesOn, Spent
  <2>2. CASE endpoint < Endpoints
    <3>1. pc' = "attempt" /\ endpoint' = endpoint + 1 /\ attempt' = 1
      BY <1>b, <2>2 DEF AttemptReturns, Advance
    <3>2. PolicyTypes' BY <1>0, <1>1, <1>3, <1>4, <2>2, <3>1 DEF PolicyTypes
    <3>3. (endpoint' - 1) * MaxAttempts = endpoint * MaxAttempts BY <1>1, <3>1
    <3>4. sessions'[endpoint'] = 0
      <4>1. endpoint + 1 \in 1..Endpoints /\ endpoint + 1 > endpoint BY <1>0, <1>1, <2>2
      <4> QED BY <1>u, <1>6, <3>1, <4>1
    <3>5. Budget'
      <4>1. attemptCount' <= (endpoint' - 1) * MaxAttempts + (attempt' - 1)
        BY <1>u, <1>0, <1>1, <1>2, <1>7, <3>1, <3>3
      <4> QED BY <3>1, <3>4, <4>1 DEF Budget, InAttempt
    <3>6. LeftInOrder'
      <4>1. \A e \in 1..Endpoints : e < endpoint' => e < endpoint \/ e = endpoint BY <1>1, <3>1
      <4>2. \A e \in 1..Endpoints : e < endpoint' => Spent(e)' BY <1>5, <1>6, <2>1, <4>1
      <4>3. \A e \in 1..Endpoints : e > endpoint' => sessions'[e] = 0 BY <1>u, <1>1, <1>6, <3>1
      <4> QED BY <3>1, <4>2, <4>3 DEF LeftInOrder
    <3> QED BY <3>1, <3>2, <3>5, <3>6 DEF BudgetInv
  <2>3. CASE ~(endpoint < Endpoints)
    <3>1. pc' = "done" /\ UNCHANGED <<endpoint, attempt>> BY <1>b, <2>3 DEF AttemptReturns, Advance
    <3>2. PolicyTypes' BY <1>1, <1>3, <1>4, <3>1 DEF PolicyTypes
    <3>3. Budget' BY <1>7, <3>1 DEF Budget, InAttempt
    <3>5. LeftInOrder'
      <4>1. Spent(endpoint)' BY <1>1, <2>1, <3>1 DEF Spent
      <4>2. \A e \in 1..Endpoints : e < endpoint' => Spent(e)' BY <1>5, <1>6, <3>1
      <4>3. \A e \in 1..Endpoints : e > endpoint' => sessions'[e] = 0 BY <1>u, <1>6, <3>1
      <4> QED BY <4>1, <4>2, <4>3 DEF LeftInOrder
    <3> QED BY <3>1, <3>2, <3>3, <3>5 DEF BudgetInv
  <2> QED BY <2>2, <2>3
<1>c. CASE status' \in {"retryable", "permanent"} /\ ~MovesOn
  <2>0. InAttempt /\ sessions[endpoint] = attempt BY <1>3, <1>8, <1>c
  <2>1. pc' = "wait" /\ attempt' = attempt + 1 /\ UNCHANGED endpoint BY <1>c DEF AttemptReturns, Retry
  <2>2. attempt # MaxAttempts BY <1>c DEF MovesOn
  <2>3. PolicyTypes' BY <1>0, <1>1, <1>3, <1>4, <2>1, <2>2 DEF PolicyTypes
  <2>4. Budget'
    <3>1. attemptCount' <= (endpoint' - 1) * MaxAttempts + (attempt' - 1) BY <1>1, <1>2, <1>7, <2>1
    <3>2. sessions'[endpoint'] = attempt' - 1 BY <1>1, <2>0, <2>1
    <3> QED BY <2>1, <3>1, <3>2 DEF Budget, InAttempt
  <2>5. LeftInOrder' BY <1>5, <1>6, <2>1 DEF LeftInOrder
  <2> QED BY <2>1, <2>3, <2>4, <2>5 DEF BudgetInv
<1> QED BY <1>3, <1>a, <1>b, <1>c DEF Statuses

LEMMA UnchangedKeepsBudget ==
    ASSUME BudgetInv, UNCHANGED <<pc, endpoint, attempt, status, attemptCount, sessions, rejected>>
    PROVE  BudgetInv'
  BY DEF BudgetInv, PolicyTypes, Budget, InAttempt, LeftInOrder, Spent

\* A step inside an attempt, or from the wait into the next attempt.
LEMMA StepKeepsBudget ==
    ASSUME BudgetInv, UNCHANGED <<endpoint, attempt, status, attemptCount, sessions, rejected>>,
           \/ InAttempt /\ pc' \in {"entering", "creating", "connecting", "session"}
           \/ pc = "wait" /\ pc' = "attempt"
    PROVE  BudgetInv'
<1>1. PolicyTypes' BY DEF BudgetInv, PolicyTypes
<1>2. Budget' BY DEF BudgetInv, Budget, InAttempt
<1>3. LeftInOrder' BY DEF BudgetInv, LeftInOrder, Spent
<1> QED BY <1>1, <1>2, <1>3 DEF BudgetInv

LEMMA StartKeepsBudget == BudgetInv /\ StartAttempt => BudgetInv'
<1> SUFFICES ASSUME BudgetInv, StartAttempt PROVE BudgetInv' OBVIOUS
<1>0. MaxAttempts \in Nat \ {0} /\ Endpoints \in Nat \ {0} BY MaxAttemptsType, EndpointsAssumption
<1>1. /\ pc = "attempt" /\ pc' = "entering" /\ endpoint' = endpoint
      /\ attempt' = attempt /\ status' = status /\ rejected' = rejected
      /\ attemptCount' = attemptCount + 1
      /\ sessions' = [sessions EXCEPT ![endpoint] = @ + 1]
  BY DEF StartAttempt, BeginAttempt
<1>2. /\ endpoint \in 1..Endpoints /\ attempt \in 1..MaxAttempts
      /\ attemptCount \in 0..Endpoints * MaxAttempts
      /\ sessions \in [1..Endpoints -> 0..MaxAttempts]
  BY DEF BudgetInv, PolicyTypes
<1>3. /\ attemptCount <= (endpoint - 1) * MaxAttempts + (attempt - 1)
      /\ sessions[endpoint] = attempt - 1
  BY <1>1 DEF BudgetInv, Budget
<1>4. /\ (endpoint - 1) * MaxAttempts + MaxAttempts = endpoint * MaxAttempts
      /\ endpoint * MaxAttempts <= Endpoints * MaxAttempts
      /\ (endpoint - 1) * MaxAttempts \in Nat /\ endpoint * MaxAttempts \in Nat
      /\ Endpoints * MaxAttempts \in Nat
  BY <1>0, <1>2, BudgetSums
<1>5. /\ attemptCount' <= (endpoint' - 1) * MaxAttempts + attempt'
      /\ attemptCount' \in 0..Endpoints * MaxAttempts
  BY <1>0, <1>1, <1>2, <1>3, <1>4
<1>6. sessions'[endpoint] = attempt BY <1>1, <1>2, <1>3
<1>7. sessions' \in [1..Endpoints -> 0..MaxAttempts]
  <2>1. sessions[endpoint] + 1 \in 0..MaxAttempts BY <1>0, <1>2, <1>3
  <2> QED BY <1>1, <1>2, <2>1
<1>8. \A e \in 1..Endpoints : e # endpoint => sessions'[e] = sessions[e] BY <1>1, <1>2
<1>9. PolicyTypes' BY <1>1, <1>5, <1>7 DEF BudgetInv, PolicyTypes
<1>10. Budget' BY <1>1, <1>2, <1>5, <1>6 DEF Budget, InAttempt
<1>11. LeftInOrder'
  <2>1. \A e \in 1..Endpoints : e < endpoint => Spent(e)'
    BY <1>1, <1>2, <1>8 DEF BudgetInv, LeftInOrder, Spent
  <2>2. \A e \in 1..Endpoints : e > endpoint => sessions'[e] = 0 BY <1>2, <1>8 DEF BudgetInv, LeftInOrder
  <2> QED BY <1>1, <2>1, <2>2 DEF LeftInOrder
<1> QED BY <1>9, <1>10, <1>11 DEF BudgetInv

LEMMA NextBudget == BudgetInv /\ [Next]_vars => BudgetInv'
<1> SUFFICES ASSUME BudgetInv, [Next]_vars PROVE BudgetInv' OBVIOUS
<1> USE DEF policyVars, windowVars, historyVars, stopVars
<1>1. CASE UNCHANGED vars BY <1>1, UnchangedKeepsBudget DEF vars
<1>2. CASE AttemptCancelled BY <1>2, ReturnKeepsBudget DEF AttemptCancelled, Reported, Statuses
<1>3. CASE StartAttempt BY <1>3, StartKeepsBudget
<1>4. CASE EnterPublish BY <1>4, StepKeepsBudget DEF EnterPublish, InAttempt
<1>5. CASE SetActiveSession
  <2>1. CASE AttemptReturns("ok") BY <1>5, <2>1, ReturnKeepsBudget DEF SetActiveSession, InAttempt, Statuses
  <2>2. CASE ~AttemptReturns("ok") BY <1>5, <2>2, StepKeepsBudget DEF SetActiveSession, InAttempt
  <2> QED BY <2>1, <2>2
<1>6. CASE FinishConnect
  <2>1. CASE AttemptReturns("ok") \/ AttemptReturns("retryable")
    BY <1>6, <2>1, ReturnKeepsBudget DEF FinishConnect, InAttempt, Statuses
  <2>2. CASE ~AttemptReturns("ok") /\ ~AttemptReturns("retryable")
    BY <1>6, <2>2, StepKeepsBudget DEF FinishConnect, InAttempt
  <2> QED BY <2>1, <2>2
<1>7. CASE RetryWaitOver BY <1>7, StepKeepsBudget DEF RetryWaitOver
<1>8. CASE NextReplayed BY <1>8, UnchangedKeepsBudget DEF NextReplayed
<1>9. CASE \E kind \in Kinds : NextFromSource(kind) BY <1>9, UnchangedKeepsBudget DEF NextFromSource
<1>10. ASSUME NEW kind \in SessionOutcomes, SessionEnds(kind) PROVE BudgetInv'
  <2>1. (IF stopRequested THEN "ok" ELSE kind) \in Statuses BY DEF SessionOutcomes, Statuses
  <2>2. /\ AttemptReturns(IF stopRequested THEN "ok" ELSE kind)
        /\ InAttempt /\ UNCHANGED <<attemptCount, sessions>>
    BY <1>10 DEF SessionEnds, InAttempt
  <2> QED BY <2>1, <2>2, ReturnKeepsBudget
<1>11. CASE SignalStop \/ MonitorSeesSignal \/ Disconnect \/ MonitorEnds \/ SourceFinishes
  BY <1>11, UnchangedKeepsBudget DEF SignalStop, MonitorSeesSignal, Disconnect, MonitorEnds, SourceFinishes
<1> QED BY <1>1, <1>2, <1>3, <1>4, <1>5, <1>6, <1>7, <1>8, <1>9, <1>10, <1>11
        DEF Next, PublishThread

(* ---- the stops ---- *)

StopInv == StopTypes /\ StopsForSignal

LEMMA InitStops == Init => StopInv
  BY DEF Init, StopInv, StopTypes, StopsForSignal

LEMMA NextStops == StopInv /\ [Next]_vars => StopInv'
<1> SUFFICES ASSUME StopInv, [Next]_vars PROVE StopInv' OBVIOUS
<1> USE DEF policyVars, windowVars, historyVars, stopVars
<1>0. ASSUME UNCHANGED <<monitor, stopRequested, sessionClosed, sourceFinished, stopSignal>>,
             dropped' \in BOOLEAN
      PROVE  StopInv'
  BY <1>0 DEF StopInv, StopTypes, StopsForSignal
<1>d. dropped \in BOOLEAN BY DEF StopInv, StopTypes
<1>1. CASE UNCHANGED vars BY <1>0, <1>d, <1>1 DEF vars
<1>2. CASE AttemptCancelled BY <1>0, <1>d, <1>2 DEF AttemptCancelled
<1>3. CASE StartAttempt
  <2>1. dropped' \in BOOLEAN BY <1>3, Zenon DEF StartAttempt
  <2> QED BY <1>0, <1>3, <2>1 DEF StartAttempt
<1>4. CASE EnterPublish BY <1>4 DEF EnterPublish, StopInv, StopTypes, StopsForSignal
<1>5. CASE SetActiveSession \/ FinishConnect BY <1>0, <1>d, <1>5 DEF SetActiveSession, FinishConnect
<1>7. CASE RetryWaitOver \/ NextReplayed BY <1>0, <1>d, <1>7 DEF RetryWaitOver, NextReplayed
<1>9. CASE \E kind \in Kinds : NextFromSource(kind) BY <1>0, <1>d, <1>9 DEF NextFromSource
<1>10. CASE \E kind \in SessionOutcomes : SessionEnds(kind) BY <1>0, <1>d, <1>10 DEF SessionEnds
<1>11. CASE SignalStop BY <1>11 DEF SignalStop, StopInv, StopTypes, StopsForSignal
<1>12. CASE MonitorSeesSignal BY <1>12 DEF MonitorSeesSignal, StopInv, StopTypes, StopsForSignal
<1>13. CASE Disconnect
  <2>1. sessionClosed' \in BOOLEAN BY <1>13, Zenon DEF Disconnect
  <2>2. /\ monitor = "closing" /\ stopRequested' = TRUE /\ sourceFinished' = TRUE
        /\ UNCHANGED <<monitor, dropped, stopSignal>>
    BY <1>13 DEF Disconnect
  <2> QED BY <2>1, <2>2 DEF StopInv, StopTypes, StopsForSignal
<1>14. CASE MonitorEnds BY <1>14 DEF MonitorEnds, StopInv, StopTypes, StopsForSignal
<1>15. CASE SourceFinishes BY <1>15 DEF SourceFinishes, StopInv, StopTypes, StopsForSignal
<1> QED BY <1>1, <1>2, <1>3, <1>4, <1>5, <1>7, <1>9, <1>10, <1>11, <1>12, <1>13, <1>14,
           <1>15           DEF Next, PublishThread

(* ---- sequences, ranges and extreme values ---- *)

LEMMA IntervalSize ==
    ASSUME NEW n \in Nat, NEW k \in 0..n
    PROVE  IsFiniteSet(k + 1..n) /\ Cardinality(k + 1..n) = n - k
<1>1. /\ IsFiniteSet(k + 1..n)
      /\ Cardinality(k + 1..n) = IF k + 1 > n THEN 0 ELSE (n - (k + 1)) + 1
  BY FS_Interval
<1>2. CASE k = n BY <1>1, <1>2
<1>3. CASE k < n BY <1>1, <1>3
<1> QED BY <1>2, <1>3

\* The elements of a rising sequence behind its i-th are as many as there are
\* places behind the i-th.
LEMMA CountAbove ==
    ASSUME NEW s \in Seq(Nat), \A i, j \in DOMAIN s : i < j => s[i] < s[j],
           NEW i \in 0..Len(s)
    PROVE  /\ IsFiniteSet({s[j] : j \in i + 1..Len(s)})
           /\ Cardinality({s[j] : j \in i + 1..Len(s)}) = Len(s) - i
<1> DEFINE I == i + 1..Len(s)
           T == {s[j] : j \in I}
           f == [j \in I |-> s[j]]
<1>1. Len(s) \in Nat /\ DOMAIN s = 1..Len(s) /\ \A j \in 1..Len(s) : s[j] \in Nat
  BY LenProperties, ElementOfSeq
<1>2. I \subseteq 1..Len(s) BY <1>1
<1>3. IsFiniteSet(I) /\ Cardinality(I) = Len(s) - i BY <1>1, IntervalSize
<1>4. f \in Bijection(I, T)
  <2>1. f \in [I -> T] /\ \A y \in T : \E j \in I : f[j] = y OBVIOUS
  <2>2. ASSUME NEW a \in I, NEW b \in I, f[a] = f[b] PROVE a = b
    <3>1. a < b \/ b < a \/ a = b BY <1>1, <1>2
    <3>2. s[a] = s[b] /\ s[a] \in Nat BY <1>1, <1>2, <2>2
    <3>3. (a < b => s[a] < s[b]) /\ (b < a => s[b] < s[a]) BY <1>1, <1>2
    <3> QED BY <3>1, <3>2, <3>3
  <2> HIDE DEF f, T, I
  <2> QED BY <2>1, <2>2 DEF Bijection, Injection, Surjection, IsInjective
<1>5. ExistsBijection(I, T) BY <1>4 DEF ExistsBijection
<1> HIDE DEF I, T
<1>6. IsFiniteSet(T) /\ Cardinality(T) = Len(s) - i BY <1>3, <1>5, FS_Bijection
<1> QED BY <1>6 DEF I, T

(* ---- the replay window ---- *)

WindowInv ==
    /\ WindowTypes /\ InSequence /\ Bounded /\ NewestCatalog /\ CatalogLeads
    /\ FirstAttempt /\ NewestHeld /\ DueHanded

LEMMA BufferType == MaxBufferedObjects \in Nat \ {0}
  BY QueueDepthAssumption DEF MaxBufferedObjects

\* The types, spelled out.
LEMMA WindowFacts ==
    ASSUME WindowTypes
    PROVE  /\ Len(source) \in Nat /\ DOMAIN source = 1..Len(source)
           /\ Len(retained) \in Nat /\ DOMAIN retained = 1..Len(retained)
           /\ Len(replay) \in Nat /\ DOMAIN replay = 1..Len(replay)
           /\ Len(delivered) \in Nat /\ DOMAIN delivered = 1..Len(delivered)
           /\ \A i \in DOMAIN retained : retained[i] \in 1..Len(source)
           /\ \A i \in DOMAIN replay : replay[i] \in 1..Len(source)
           /\ \A i \in DOMAIN delivered : delivered[i] \in 1..Len(source)
           /\ before \in 0..Len(source)
<1>1. Len(source) \in Nat /\ DOMAIN source = 1..Len(source) BY LenProperties DEF WindowTypes
<1>2. /\ retained \in Seq(1..Len(source)) /\ replay \in Seq(1..Len(source))
      /\ delivered \in Seq(1..Len(source))
  BY <1>1 DEF WindowTypes
<1>3. /\ Len(retained) \in Nat /\ DOMAIN retained = 1..Len(retained)
      /\ Len(replay) \in Nat /\ DOMAIN replay = 1..Len(replay)
      /\ Len(delivered) \in Nat /\ DOMAIN delivered = 1..Len(delivered)
  BY <1>2, LenProperties
<1>4. /\ \A i \in 1..Len(retained) : retained[i] \in 1..Len(source)
      /\ \A i \in 1..Len(replay) : replay[i] \in 1..Len(source)
      /\ \A i \in 1..Len(delivered) : delivered[i] \in 1..Len(source)
  BY <1>2, ElementOfSeq
<1> QED BY <1>1, <1>3, <1>4 DEF WindowTypes

\* What the invariant says of the retained objects in particular.
LEMMA RetainedBounded ==
    ASSUME WindowInv
    PROVE  /\ Len(retained) <= MaxBufferedObjects
           /\ Len(retained) + Len(replay) <= MaxBufferedObjects + 1
           /\ replay = <<>> => HeldCount = Len(retained)
<1>1. Len(retained) \in Nat /\ Len(replay) \in Nat /\ MaxBufferedObjects \in Nat
  BY WindowFacts, BufferType DEF WindowInv
<1>2. replay # <<>> => Len(replay) > 0 BY EmptySeq DEF WindowInv, WindowTypes
<1>3. HeldCount <= MaxBufferedObjects BY DEF WindowInv, Bounded
<1>4. replay = <<>> => Len(replay) = 0 BY EmptySeq
<1>5. CASE replay = <<>> \/ IsMedia(replay[1])
  <2>1. HeldCount = Len(retained) + Len(replay) BY <1>5 DEF HeldCount
  <2> QED BY <1>1, <1>3, <1>4, <2>1
<1>6. CASE ~(replay = <<>> \/ IsMedia(replay[1]))
  <2>1. HeldCount = (Len(retained) + Len(replay)) - 1 /\ replay # <<>> BY <1>6 DEF HeldCount
  <2> QED BY <1>1, <1>2, <1>3, <2>1
<1> QED BY <1>5, <1>6

LEMMA InitWindow == Init => WindowInv
<1> SUFFICES ASSUME Init PROVE WindowInv OBVIOUS
<1>1. /\ attemptCount = 0 /\ retainedCatalog = None /\ retained = <<>>
      /\ replay = <<>> /\ source = <<>> /\ delivered = <<>> /\ before = 0
  BY DEF Init
<1>2. DOMAIN <<>> = {} /\ Len(<<>>) = 0 /\ Range(<<>>) = {} BY DEF Range
<1>3. WindowTypes BY <1>1, <1>2, EmptySeq, MaxObjectsAssumption DEF WindowTypes
<1>4. InSequence BY <1>1, <1>2 DEF InSequence
<1>5. Bounded BY <1>1, <1>2, BufferType DEF Bounded, HeldCount
<1>6. NewestCatalog /\ CatalogLeads /\ FirstAttempt
  BY <1>1, <1>2 DEF NewestCatalog, CatalogLeads, FirstAttempt
<1>7. NewestHeld /\ DueHanded BY <1>1, <1>2 DEF NewestHeld, DueHanded, Held
<1> QED BY <1>3, <1>4, <1>5, <1>6, <1>7 DEF WindowInv

\* Where a session resumes depends on what the source gave before it began.
LEMMA ResumeStable ==
    ASSUME before' = before, before \in Nat, \A p \in 1..before : source'[p] = source[p]
    PROVE  ResumePoint' = ResumePoint
<1>1. MediaUpTo(before)' = MediaUpTo(before) BY DEF MediaUpTo, IsMedia
<1>2. MediaUpTo(before) \subseteq 1..before BY DEF MediaUpTo
<1>3. Window' = Window BY <1>1 DEF Window
<1>4. Window \subseteq 1..before BY <1>2 DEF Window
<1>5. WindowBoundaries' = WindowBoundaries BY <1>3, <1>4 DEF WindowBoundaries, IsBoundary
<1> QED BY <1>3, <1>5 DEF ResumePoint

LEMMA ResumeBound ==
    ASSUME before \in Nat
    PROVE  ResumePoint \in Int /\ ResumePoint <= before + 1
<1>1. Window \subseteq 1..before /\ WindowBoundaries \subseteq 1..before
  BY DEF Window, WindowBoundaries, MediaUpTo
<1>2. CASE WindowBoundaries # {}
  <2>1. ResumePoint = Max(WindowBoundaries) BY <1>2 DEF ResumePoint
  <2>2. Max(WindowBoundaries) \in 1..before BY <1>1, <1>2, PlaceExtremes
  <2> QED BY <2>1, <2>2
<1>3. CASE WindowBoundaries = {} /\ Window # {}
  <2>1. ResumePoint = Min(Window) BY <1>3 DEF ResumePoint
  <2>2. Min(Window) \in 1..before BY <1>1, <1>3, PlaceExtremes
  <2> QED BY <2>1, <2>2
<1>4. CASE WindowBoundaries = {} /\ Window = {} BY <1>4 DEF ResumePoint
<1> QED BY <1>2, <1>3, <1>4

LEMMA UnchangedKeepsWindow ==
    ASSUME WindowInv, UNCHANGED <<attemptCount, retainedCatalog, retained, replay, source, delivered, before,
                        dropped>>
    PROVE  WindowInv'
<1>1. WindowTypes' /\ InSequence' /\ Bounded' /\ NewestCatalog' /\ CatalogLeads'
  BY DEF WindowInv, WindowTypes, InSequence, Bounded, HeldCount, NewestCatalog, CatalogLeads, IsMedia
<1>2. FirstAttempt' /\ NewestHeld'
  BY DEF WindowInv, FirstAttempt, NewestHeld, Held, HeldCount, IsMedia, IsBoundary
<1>3. DueHanded'
  <2>1. before \in Nat BY WindowFacts DEF WindowInv
  <2>2. ResumePoint' = ResumePoint BY <2>1, ResumeStable
  <2>3. Due' = Due BY <2>2 DEF Due, MediaUpTo, IsMedia
  <2> QED BY <2>3 DEF WindowInv, DueHanded, IsMedia
<1> QED BY <1>1, <1>2, <1>3 DEF WindowInv

\* next_object() from replay_: nothing that is held changes.
LEMMA ReplayedKeepsWindow == WindowInv /\ NextReplayed => WindowInv'
<1> SUFFICES ASSUME WindowInv, NextReplayed PROVE WindowInv' OBVIOUS
<1> DEFINE h == replay[1]
           n == Len(source)
<1>1. /\ replay # <<>> /\ replay' = Tail(replay)
      /\ retained' = IF source[Head(replay)] = "catalog" THEN retained
                                                         ELSE Retain(Head(replay))
      /\ delivered' = Append(delivered, Head(replay))
      /\ UNCHANGED <<attemptCount, retainedCatalog, source, before, dropped>>
  BY DEF NextReplayed
<1>2. WindowTypes BY DEF WindowInv
<1>3. /\ n \in Nat /\ DOMAIN source = 1..n /\ before \in 0..n
      /\ Len(retained) \in Nat /\ DOMAIN retained = 1..Len(retained)
      /\ DOMAIN delivered = 1..Len(delivered) /\ Len(delivered) \in Nat
      /\ \A i \in DOMAIN retained : retained[i] \in 1..n
      /\ \A i \in DOMAIN replay : replay[i] \in 1..n
      /\ \A i \in DOMAIN delivered : delivered[i] \in 1..n
  BY <1>2, WindowFacts
<1>4. /\ retained \in Seq(1..n) /\ replay \in Seq(1..n) /\ delivered \in Seq(1..n)
  BY <1>2, <1>3 DEF WindowTypes
<1>5. /\ Head(replay) = h /\ h \in 1..n /\ replay' \in Seq(1..n)
      /\ Len(replay) \in Nat \ {0} /\ DOMAIN replay = 1..Len(replay)
      /\ Len(replay') = Len(replay) - 1 /\ DOMAIN replay' = 1..(Len(replay) - 1)
      /\ \A i \in 1..(Len(replay) - 1) : replay'[i] = replay[i + 1]
      /\ Range(replay) = {h} \cup Range(replay')
  BY <1>1, <1>4, TailFacts
<1>6. /\ delivered' \in Seq(1..n) /\ delivered' # <<>>
      /\ Len(delivered') = Len(delivered) + 1
      /\ DOMAIN delivered' = 1..(Len(delivered) + 1)
      /\ \A i \in 1..Len(delivered) : delivered'[i] = delivered[i]
      /\ delivered'[Len(delivered) + 1] = h
      /\ Range(delivered') = Range(delivered) \cup {h}
  BY <1>1, <1>4, <1>5, AppendFacts
<1>7. \A p : IsMedia(p)' <=> IsMedia(p) BY <1>1 DEF IsMedia
<1> HIDE DEF h, n
<1>s. InSequence BY DEF WindowInv
<1>r. replay' # <<>> => Len(replay') > 0 /\ replay'[1] = replay[2] /\ 2 \in DOMAIN replay
  <2>1. replay' # <<>> => Len(replay') \in Nat \ {0} BY <1>5, EmptySeq
  <2> QED BY <1>5, <2>1
<1>m. replay' # <<>> => IsMedia(replay'[1]) BY <1>r, <1>s DEF InSequence
<1>k. /\ retained' \in Seq(1..n) /\ HeldCount' = HeldCount /\ Held' = Held
      /\ \A i \in DOMAIN retained' : IsMedia(retained'[i])
      /\ \A i, j \in DOMAIN retained' : i < j => retained'[i] < retained'[j]
      /\ Range(retained') \subseteq Range(delivered')
  <2>1. HeldCount' = Len(retained') + (Len(replay) - 1) BY <1>5, <1>7, <1>m DEF HeldCount
  <2>2. CASE ~IsMedia(h)
    <3>1. retained' = retained BY <1>1, <1>5, <2>2 DEF IsMedia
    <3>2. HeldCount = (Len(retained) + Len(replay)) - 1 BY <1>1, <2>2 DEF HeldCount, h
    <3>3. HeldCount' = HeldCount BY <1>3, <1>5, <2>1, <3>1, <3>2
    <3>4. Held' = Held BY <1>5, <1>7, <2>2, <3>1 DEF Held
    <3> QED BY <1>4, <1>6, <1>s, <3>1, <3>3, <3>4 DEF InSequence
  <2>3. CASE IsMedia(h)
    <3>1. HeldCount = Len(retained) + Len(replay) BY <2>3 DEF HeldCount, h
    <3>2. HeldCount <= MaxBufferedObjects /\ MaxBufferedObjects \in Nat BY BufferType DEF WindowInv, Bounded
    <3>3. Len(retained) + 1 <= MaxBufferedObjects BY <1>3, <1>5, <3>1, <3>2
    <3>4. /\ Append(retained, h) \in Seq(1..n)
          /\ Len(Append(retained, h)) = Len(retained) + 1
          /\ DOMAIN Append(retained, h) = 1..(Len(retained) + 1)
          /\ \A i \in 1..Len(retained) : Append(retained, h)[i] = retained[i]
          /\ Append(retained, h)[Len(retained) + 1] = h
          /\ Range(Append(retained, h)) = Range(retained) \cup {h}
      BY <1>4, <1>5, AppendFacts
    <3>5. retained' = Append(retained, h)
      <4>1. retained' = Retain(h) BY <1>1, <1>5, <2>3 DEF IsMedia
      <4>2. ~(Len(Append(retained, h)) > MaxBufferedObjects) BY <1>3, <3>2, <3>3, <3>4
      <4> QED BY <4>1, <4>2 DEF Retain
    <3>6. HeldCount' = HeldCount BY <1>3, <1>5, <2>1, <3>1, <3>4, <3>5
    <3>7. Held' = Held BY <1>5, <1>7, <2>3, <3>4, <3>5 DEF Held
    <3>8. \A i \in DOMAIN retained' : IsMedia(retained'[i]) BY <1>3, <1>s, <2>3, <3>4, <3>5 DEF InSequence
    <3>9. \A i \in 1..Len(retained) : retained[i] < h
      <4> TAKE i \in 1..Len(retained)
      <4>1. retained[i] \in Range(delivered) /\ IsMedia(retained[i]) BY <1>3, <1>s DEF InSequence, Range
      <4>2. PICK k \in DOMAIN delivered : delivered[k] = retained[i] BY <4>1 DEF Range
      <4>3. 1 \in DOMAIN replay BY <1>5
      <4> QED BY <1>s, <2>3, <4>1, <4>2, <4>3 DEF InSequence, h
    <3>10. \A i, j \in DOMAIN retained' : i < j => retained'[i] < retained'[j]
      <4> TAKE i, j \in DOMAIN retained'
      <4>1. CASE j = Len(retained) + 1 BY <1>3, <3>4, <3>5, <3>9, <4>1
      <4>2. CASE j # Len(retained) + 1 BY <1>3, <1>s, <3>4, <3>5, <4>2 DEF InSequence
      <4> QED BY <4>1, <4>2
    <3>11. Range(retained') \subseteq Range(delivered') BY <1>6, <1>s, <3>4, <3>5 DEF InSequence
    <3> QED BY <3>4, <3>5, <3>6, <3>7, <3>8, <3>10, <3>11
  <2> QED BY <2>2, <2>3
<1>a. WindowTypes'
  <2>1. source' = source /\ before' = before /\ retainedCatalog' = retainedCatalog BY <1>1
  <2> QED BY <1>2, <1>3, <1>5, <1>6, <1>k, <2>1 DEF WindowTypes
<1>b. InSequence'
  <2>1. \A j \in DOMAIN replay' : IsMedia(replay'[j]) BY <1>5, <1>s DEF InSequence
  <2>2. \A i, j \in DOMAIN replay' : i < j => replay'[i] < replay'[j]
    <3> TAKE i, j \in DOMAIN replay'
    <3>1. /\ i + 1 \in DOMAIN replay /\ j + 1 \in DOMAIN replay /\ i + 1 > 1
          /\ replay'[i] = replay[i + 1] /\ replay'[j] = replay[j + 1]
          /\ i < j => i + 1 < j + 1
      BY <1>5
    <3> QED BY <1>s, <3>1 DEF InSequence
  <2>3. \A j \in DOMAIN replay' : IsMedia(h) => h < replay'[j]
    <3> TAKE j \in DOMAIN replay'
    <3>1. /\ j + 1 \in DOMAIN replay /\ 1 \in DOMAIN replay /\ 1 < j + 1
          /\ replay'[j] = replay[j + 1]
      BY <1>5
    <3> QED BY <1>s, <3>1 DEF InSequence, h
  <2>4. \A i \in DOMAIN delivered : IsMedia(delivered[i]) /\ IsMedia(h) => delivered[i] < h
    <3>1. 1 \in DOMAIN replay BY <1>5
    <3> QED BY <1>s, <3>1 DEF InSequence, h
  <2>5. \A i \in DOMAIN delivered, j \in DOMAIN replay' :
          IsMedia(delivered[i]) => delivered[i] < replay'[j]
    <3> TAKE i \in DOMAIN delivered, j \in DOMAIN replay'
    <3>1. j + 1 \in DOMAIN replay /\ replay'[j] = replay[j + 1] BY <1>5
    <3> QED BY <1>s, <2>1, <3>1 DEF InSequence
  <2>6. \A i, j \in DOMAIN delivered' :
          i < j /\ IsMedia(delivered'[i]) /\ IsMedia(delivered'[j])
            => delivered'[i] < delivered'[j]
    <3> TAKE i, j \in DOMAIN delivered'
    <3>1. CASE j = Len(delivered) + 1 BY <1>3, <1>6, <2>4, <3>1
    <3>2. CASE j # Len(delivered) + 1
      <4>1. i < j => i \in DOMAIN delivered /\ j \in DOMAIN delivered BY <1>3, <1>6, <3>2
      <4>2. i < j => delivered'[i] = delivered[i] /\ delivered'[j] = delivered[j] BY <1>3, <1>6, <4>1
      <4> QED BY <1>s, <4>1, <4>2 DEF InSequence
    <3> QED BY <3>1, <3>2
  <2>7. \A i \in DOMAIN delivered', j \in DOMAIN replay' :
          IsMedia(delivered'[i]) => delivered'[i] < replay'[j]
    <3> TAKE i \in DOMAIN delivered', j \in DOMAIN replay'
    <3>1. CASE i = Len(delivered) + 1 BY <1>6, <2>3, <3>1
    <3>2. CASE i # Len(delivered) + 1 BY <1>3, <1>6, <2>5, <3>2
    <3> QED BY <3>1, <3>2
  <2> QED BY <1>7, <1>k, <2>1, <2>2, <2>6, <2>7 DEF InSequence
<1>c. Bounded' BY <1>k DEF WindowInv, Bounded
<1>d. NewestCatalog' BY <1>1 DEF WindowInv, NewestCatalog, IsMedia
<1>e. CatalogLeads'
  <2> SUFFICES ASSUME NEW c \in 1..before, attemptCount > 1, ~IsMedia(c),
                      \A p \in 1..before : p > c => IsMedia(p)
               PROVE  delivered'[1] = c
    BY <1>1, <1>6, <1>7 DEF CatalogLeads
  <2>1. IF delivered = <<>> THEN h = c ELSE delivered[1] = c BY DEF WindowInv, CatalogLeads, h
  <2>2. CASE delivered = <<>>
    <3>1. Len(delivered) = 0 BY <2>2, EmptySeq
    <3> QED BY <1>6, <2>1, <2>2, <3>1
  <2>3. CASE delivered # <<>>
    <3>1. 1 \in 1..Len(delivered) BY <1>3, <1>4, <2>3, EmptySeq
    <3> QED BY <1>6, <2>1, <2>3, <3>1
  <2> QED BY <2>2, <2>3
<1>f. FirstAttempt' BY <1>1 DEF WindowInv, FirstAttempt
<1>g. NewestHeld' BY <1>1, <1>7, <1>k DEF WindowInv, NewestHeld, IsBoundary
<1>h. DueHanded'
  <2>1. ResumePoint' = ResumePoint BY <1>1, <1>3, ResumeStable
  <2>2. Due' = Due BY <1>1, <2>1 DEF Due, MediaUpTo, IsMedia
  <2>3. Range(delivered') \cup Range(replay') = Range(delivered) \cup Range(replay) BY <1>5, <1>6
  <2> QED BY <1>1, <1>7, <2>2, <2>3 DEF WindowInv, DueHanded
<1> QED BY <1>a, <1>b, <1>c, <1>d, <1>e, <1>f, <1>g, <1>h DEF WindowInv

LEMMA Shifted ==
    ASSUME NEW n \in Nat, NEW i \in 1..n, NEW j \in 1..n
    PROVE  i + 1 \in 1..(n + 1) /\ (i < j => i + 1 < j + 1)
  OBVIOUS

LEMMA RoomForOne ==
    ASSUME NEW n \in Nat, NEW k \in Nat, n <= k, n # k
    PROVE  n + 1 <= k /\ ~(n + 1 > k)
  OBVIOUS

\* An object that joins what is retained: the oldest leaves a full window.
LEMMA RetainFacts ==
    ASSUME NEW m \in Nat, retained \in Seq(1..m), NEW p \in 1..m,
           \A i, j \in DOMAIN retained : i < j => retained[i] < retained[j],
           \A i \in DOMAIN retained : retained[i] < p,
           Len(retained) <= MaxBufferedObjects
    PROVE  /\ Retain(p) \in Seq(1..m)
           /\ \A i, j \in DOMAIN Retain(p) : i < j => Retain(p)[i] < Retain(p)[j]
           /\ Len(Retain(p)) <= MaxBufferedObjects
           /\ Range(Retain(p)) \subseteq Range(retained) \cup {p} /\ p \in Range(Retain(p))
           /\ IF Len(retained) = MaxBufferedObjects
              THEN /\ Len(Retain(p)) = MaxBufferedObjects
                   /\ \A q \in Range(retained) : q = retained[1] \/ q \in Range(Retain(p))
                   /\ retained[1] \notin Range(Retain(p))
              ELSE /\ Range(Retain(p)) = Range(retained) \cup {p}
                   /\ Len(Retain(p)) = Len(retained) + 1
<1> DEFINE a == Append(retained, p)
<1>1. /\ a \in Seq(1..m) /\ a # <<>> /\ Len(retained) \in Nat
      /\ DOMAIN retained = 1..Len(retained) /\ Len(a) = Len(retained) + 1
      /\ DOMAIN a = 1..(Len(retained) + 1)
      /\ \A i \in 1..Len(retained) : a[i] = retained[i]
      /\ a[Len(retained) + 1] = p /\ Range(a) = Range(retained) \cup {p}
  BY AppendFacts
<1>2. MaxBufferedObjects \in Nat \ {0} BY BufferType
<1>3. Retain(p) = IF Len(a) > MaxBufferedObjects THEN Tail(a) ELSE a BY DEF Retain
<1> HIDE DEF a
<1>4. \A i, j \in DOMAIN a : i < j => a[i] < a[j]
  <2> TAKE i, j \in DOMAIN a
  <2>1. CASE j = Len(retained) + 1
    <3>1. i < j => i \in DOMAIN retained /\ a[i] = retained[i] BY <1>1, <2>1
    <3> QED BY <1>1, <2>1, <3>1
  <2>2. CASE j # Len(retained) + 1
    <3>1. i < j => i \in DOMAIN retained /\ j \in DOMAIN retained BY <1>1, <2>2
    <3> QED BY <1>1, <3>1
  <2> QED BY <2>1, <2>2
<1>5. CASE Len(retained) = MaxBufferedObjects
  <2>1. Retain(p) = Tail(a) BY <1>1, <1>2, <1>3, <1>5
  <2>2. /\ a[1] \in 1..m /\ Tail(a) \in Seq(1..m)
        /\ Len(Tail(a)) = Len(a) - 1 /\ DOMAIN Tail(a) = 1..(Len(a) - 1)
        /\ \A i \in 1..(Len(a) - 1) : Tail(a)[i] = a[i + 1]
        /\ Range(a) = {a[1]} \cup Range(Tail(a))
    BY <1>1, TailFacts
  <2>3. a[1] = retained[1] BY <1>1, <1>2, <1>5
  <2>4. \A i, j \in DOMAIN Tail(a) : i < j => Tail(a)[i] < Tail(a)[j]
    <3> TAKE i, j \in DOMAIN Tail(a)
    <3>0. i \in 1..Len(retained) /\ j \in 1..Len(retained)
      <4>1. Len(a) - 1 = Len(retained) BY <1>1
      <4>2. DOMAIN Tail(a) = 1..Len(retained) BY <2>2, <4>1
      <4> QED BY <4>2
    <3>1. Tail(a)[i] = a[i + 1] /\ Tail(a)[j] = a[j + 1] BY <1>1, <2>2, <3>0
    <3>2. i + 1 \in DOMAIN a /\ j + 1 \in DOMAIN a BY <1>1, <3>0, Shifted
    <3>3. i < j => i + 1 < j + 1 BY <1>1, <3>0, Shifted
    <3> QED BY <1>4, <3>1, <3>2, <3>3
  <2>5. \A i \in DOMAIN Tail(a) : a[1] < Tail(a)[i]
    <3> TAKE i \in DOMAIN Tail(a)
    <3>1. 1 \in DOMAIN a /\ i + 1 \in DOMAIN a /\ 1 < i + 1 /\ Tail(a)[i] = a[i + 1] BY <1>1, <2>2
    <3> QED BY <1>4, <3>1
  <2>6. a[1] \notin Range(Tail(a))
    <3> SUFFICES ASSUME NEW i \in DOMAIN Tail(a), a[1] = Tail(a)[i] PROVE FALSE BY DEF Range
    <3> QED BY <2>2, <2>5
  <2>7. Len(Tail(a)) = MaxBufferedObjects BY <1>1, <1>2, <1>5, <2>2
  <2>8. p \in Range(Tail(a))
    <3>1. MaxBufferedObjects \in DOMAIN Tail(a) /\ Tail(a)[MaxBufferedObjects] = p BY <1>1, <1>2, <1>5, <2>2
    <3> QED BY <3>1 DEF Range
  <2>9. \A q \in Range(retained) : q = retained[1] \/ q \in Range(Tail(a)) BY <1>1, <2>2, <2>3
  <2>10. Range(Tail(a)) \subseteq Range(retained) \cup {p} BY <1>1, <2>2
  <2> QED BY <1>2, <1>5, <2>1, <2>2, <2>3, <2>4, <2>6, <2>7, <2>8, <2>9, <2>10
<1>6. CASE Len(retained) # MaxBufferedObjects
  <2>0. Len(a) <= MaxBufferedObjects /\ ~(Len(a) > MaxBufferedObjects) BY <1>1, <1>2, <1>6, RoomForOne
  <2>1. Retain(p) = a /\ Len(a) <= MaxBufferedObjects BY <1>3, <2>0
  <2> QED BY <1>1, <1>4, <1>6, <2>1
<1> QED BY <1>5, <1>6

\* next_object() from source_: what is held stays the newest media.
LEMMA SourceKeepsWindow ==
    ASSUME WindowInv, NEW kind \in Kinds, NextFromSource(kind), attemptCount > 0
    PROVE  WindowInv'
<1> DEFINE n == Len(source)
           m == Len(source) + 1
<1>1. /\ replay = <<>> /\ Len(source) < MaxObjects
      /\ source' = Append(source, kind)
      /\ UNCHANGED <<attemptCount, replay, before, dropped>>
  BY DEF NextFromSource
<1>d1. delivered' = Append(delivered, m) BY DEF NextFromSource
<1>2. WindowTypes /\ InSequence BY DEF WindowInv
<1>3. /\ n \in Nat /\ DOMAIN source = 1..n /\ before \in 0..n
      /\ Len(retained) \in Nat /\ DOMAIN retained = 1..Len(retained)
      /\ DOMAIN delivered = 1..Len(delivered) /\ Len(delivered) \in Nat
      /\ \A i \in DOMAIN retained : retained[i] \in 1..n
      /\ \A i \in DOMAIN delivered : delivered[i] \in 1..n
  BY <1>2, WindowFacts
<1>4. /\ source' \in Seq(Kinds) /\ Len(source') = m /\ DOMAIN source' = 1..m
      /\ \A i \in 1..n : source'[i] = source[i]
      /\ source'[m] = kind
  BY <1>1, <1>2, AppendFacts DEF WindowTypes
<1>0. m = n + 1 /\ m \in Nat BY <1>3
<1> HIDE DEF n, m
<1>5. /\ 1..n \subseteq 1..m /\ m \in 1..m
      /\ 1..m = 1..n \cup {m} /\ m \notin 1..n
  BY <1>0, <1>3
<1>6. /\ retained \in Seq(1..m) /\ delivered \in Seq(1..m)
      /\ replay \in Seq(1..m)
  BY <1>2, <1>3, <1>5, SeqMonotonic DEF WindowTypes
<1>7. /\ delivered' \in Seq(1..m) /\ delivered' # <<>>
      /\ DOMAIN delivered' = 1..(Len(delivered) + 1)
      /\ \A i \in 1..Len(delivered) : delivered'[i] = delivered[i]
      /\ delivered'[Len(delivered) + 1] = m
      /\ Range(delivered') = Range(delivered) \cup {m}
  <2>1. m \in 1..m /\ delivered \in Seq(1..m) BY <1>5, <1>6
  <2> QED BY <1>d1, <2>1, AppendFacts
<1>8. \A p \in 1..n : source'[p] = source[p] BY <1>4
<1>9. source'[m] # "catalog" <=> kind # "catalog" BY <1>4 DEF IsMedia, n, m
<1>10. DOMAIN replay = {} /\ DOMAIN replay' = {} /\ Range(replay) = {} /\ Range(replay') = {}
  BY <1>1 DEF Range
<1>11. Len(retained) <= MaxBufferedObjects /\ HeldCount = Len(retained) BY <1>1, RetainedBounded
<1>12. Range(retained) \subseteq 1..n /\ Range(delivered) \subseteq 1..n BY <1>0, <1>3 DEF Range
<1>13. Held = Range(retained) BY <1>2, <1>10 DEF Held, InSequence, Range
<1>14. /\ \A i \in DOMAIN retained : IsMedia(retained[i])
       /\ \A i, j \in DOMAIN retained : i < j => retained[i] < retained[j]
  BY <1>2 DEF InSequence
<1>15. IF kind = "catalog" THEN retained' = retained /\ retainedCatalog' = m
       ELSE retained' = Retain(m) /\ retainedCatalog' = retainedCatalog
  BY DEF NextFromSource, n, m
<1>16. /\ Retain(m) \in Seq(1..m)
       /\ \A i, j \in DOMAIN Retain(m) : i < j => Retain(m)[i] < Retain(m)[j]
       /\ Len(Retain(m)) <= MaxBufferedObjects
       /\ Range(Retain(m)) \subseteq Range(retained) \cup {m}
       /\ m \in Range(Retain(m))
       /\ IF Len(retained) = MaxBufferedObjects
            THEN /\ Len(Retain(m)) = MaxBufferedObjects
                 /\ \A q \in Range(retained) :
                       q = retained[1] \/ q \in Range(Retain(m))
                 /\ retained[1] \notin Range(Retain(m))
            ELSE /\ Range(Retain(m)) = Range(retained) \cup {m}
                 /\ Len(Retain(m)) = Len(retained) + 1
  <2>1. m \in Nat /\ \A i \in DOMAIN retained : retained[i] < m BY <1>0, <1>3
  <2> QED BY <1>5, <1>6, <1>11, <1>14, <2>1, RetainFacts
<1>17. retained' \in Seq(1..m) BY <1>6, <1>15, <1>16
<1>18. DOMAIN retained' = 1..Len(retained') /\ Len(retained') \in Nat
       /\ \A i \in DOMAIN retained' : retained'[i] \in Range(retained')
  BY <1>17, LenProperties DEF Range
<1>19. \A q \in Range(retained') :
         q \in Range(retained) \/ (q = m /\ kind # "catalog")
  BY <1>15, <1>16
<1>20. HeldCount' = Len(retained')
  <2>1. Len(replay') = 0 /\ replay' = <<>> BY <1>1, EmptySeq
  <2> QED BY <1>18, <2>1 DEF HeldCount
<1>a. WindowTypes'
  <2>1. before' \in 0..Len(source') /\ Len(source') <= MaxObjects
    BY <1>1, <1>3, <1>4, MaxObjectsAssumption DEF n
  <2>2. retainedCatalog' \in {None} \cup 1..m BY <1>2, <1>3, <1>5, <1>15 DEF WindowTypes
  <2>3. replay' \in Seq(1..m) BY <1>1, <1>6
  <2> QED BY <1>4, <1>7, <1>17, <2>1, <2>2, <2>3 DEF WindowTypes
<1>b. InSequence'
  <2>1. \A q \in Range(retained') : source'[q] # "catalog"
    <3> TAKE q \in Range(retained')
    <3>1. CASE q \in Range(retained) BY <1>8, <1>12, <1>14, <3>1 DEF Range, IsMedia
    <3>2. CASE q = m /\ kind # "catalog" BY <1>9, <3>2
    <3> QED BY <1>19, <3>1, <3>2
  <2>2. \A i, j \in DOMAIN retained' : i < j => retained'[i] < retained'[j] BY <1>14, <1>15, <1>16
  <2>3. Range(retained') \subseteq Range(delivered') BY <1>2, <1>7, <1>19 DEF InSequence
  <2>4. \A i, j \in DOMAIN delivered' :
          i < j /\ source'[delivered'[i]] # "catalog" /\ source'[delivered'[j]] # "catalog"
            => delivered'[i] < delivered'[j]
    <3> TAKE i, j \in DOMAIN delivered'
    <3>1. CASE j = Len(delivered) + 1 BY <1>0, <1>3, <1>7, <3>1
    <3>2. CASE j # Len(delivered) + 1
      <4>1. i < j => i \in DOMAIN delivered /\ j \in DOMAIN delivered BY <1>0, <1>3, <1>7, <3>2
      <4>2. i < j => /\ delivered'[i] = delivered[i] /\ delivered'[j] = delivered[j]
                     /\ delivered[i] \in 1..n /\ delivered[j] \in 1..n
        BY <1>0, <1>3, <1>7, <4>1
      <4> QED BY <1>2, <1>8, <4>1, <4>2 DEF InSequence, IsMedia
    <3> QED BY <3>1, <3>2
  <2>5. \A i \in DOMAIN retained' : source'[retained'[i]] # "catalog" BY <1>18, <2>1
  <2> QED BY <1>10, <2>2, <2>3, <2>4, <2>5 DEF InSequence, IsMedia
<1>c. Bounded' BY <1>11, <1>15, <1>16, <1>20 DEF Bounded
<1>d. NewestCatalog'
  <2>1. NewestCatalog BY DEF WindowInv
  <2>2. CASE kind = "catalog"
    <3>1. retainedCatalog' = m /\ m # None /\ source'[m] = "catalog"
      BY <1>0, <1>3, <1>9, <1>15, <2>2 DEF None
    <3>2. \A p \in 1..m : ~(p > m) BY <1>0, <1>3
    <3> QED BY <1>4, <3>1, <3>2 DEF NewestCatalog, IsMedia
  <2>3. CASE kind # "catalog"
    <3>1. retainedCatalog' = retainedCatalog /\ source'[m] # "catalog" BY <1>9, <1>15, <2>3
    <3>2. CASE retainedCatalog = None
      BY <1>0, <1>3, <1>4, <1>5, <1>8, <2>1, <3>1, <3>2 DEF NewestCatalog, IsMedia
    <3>3. CASE retainedCatalog # None
      <4>1. retainedCatalog \in 1..n BY <1>2, <1>3, <3>3 DEF WindowTypes
      <4> QED BY <1>0, <1>3, <1>4, <1>5, <1>8, <2>1, <3>1, <3>3, <4>1 DEF NewestCatalog, IsMedia
    <3> QED BY <3>2, <3>3
  <2> QED BY <2>2, <2>3
<1>e. CatalogLeads'
  <2> SUFFICES ASSUME NEW c \in 1..before, attemptCount > 1, source'[c] = "catalog",
                      \A p \in 1..before : p > c => source'[p] # "catalog"
               PROVE  delivered'[1] = c
    BY <1>1, <1>7 DEF CatalogLeads, IsMedia
  <2>0. 1..before \subseteq 1..n BY <1>0, <1>3
  <2>1. IF delivered = <<>> THEN replay # <<>> ELSE delivered[1] = c
    <3>1. CatalogLeads BY DEF WindowInv
    <3> QED BY <1>8, <2>0, <3>1 DEF CatalogLeads, IsMedia
  <2>2. delivered # <<>> BY <1>1, <2>1
  <2>3. 1 \in 1..Len(delivered) BY <1>0, <1>3, <1>6, <2>2, EmptySeq
  <2> QED BY <1>7, <2>1, <2>2, <2>3
<1>f. FirstAttempt' BY <1>1 DEF FirstAttempt
<1>g. NewestHeld'
  <2> SUFFICES ASSUME ~dropped PROVE NewestHeld' BY <1>1 DEF NewestHeld, IsMedia, IsBoundary
  <2>1. /\ \A p \in 1..n, q \in Range(retained) : IsMedia(p) /\ p > q => p \in Range(retained)
        /\ Range(retained) = {} => \A p \in 1..n : ~IsMedia(p)
        /\ \/ Len(retained) = MaxBufferedObjects
           \/ \E q \in Range(retained) : IsBoundary(q) /\ \A r \in Range(retained) : q <= r
           \/ \A p \in 1..n : IsMedia(p) => p \in Range(retained)
    BY <1>0, <1>3, <1>11, <1>13 DEF WindowInv, NewestHeld
  <2>2. Held' = Range(retained')
    <3>1. \A q \in Range(retained') : source'[q] # "catalog" BY <1>b, <1>18 DEF InSequence, Range, IsMedia
    <3> QED BY <1>10, <3>1 DEF Held, IsMedia
  <2>3. CASE kind = "catalog"
    <3>1. retained' = retained /\ source'[m] = "catalog" BY <1>9, <1>15, <2>3
    <3>2. \A p \in 1..m : source'[p] # "catalog" => p \in 1..n /\ IsMedia(p) BY <1>5, <1>8, <3>1 DEF IsMedia
    <3>3. \A q \in Range(retained) : source'[q] = "boundary" <=> IsBoundary(q) BY <1>8, <1>12 DEF IsBoundary
    <3> QED BY <1>4, <1>20, <2>1, <2>2, <3>1, <3>2, <3>3 DEF NewestHeld, IsMedia, IsBoundary
  <2>4. CASE kind # "catalog"
    <3>1. retained' = Retain(m) /\ source'[m] # "catalog" BY <1>9, <1>15, <2>4
    <3>2. \A p \in 1..n : source'[p] # "catalog" => IsMedia(p) BY <1>8 DEF IsMedia
    <3>3. CASE Len(retained) = MaxBufferedObjects
      <4>1. \A q \in Range(retained) : retained[1] <= q
        <5> SUFFICES ASSUME NEW i \in DOMAIN retained PROVE retained[1] <= retained[i] BY DEF Range
        <5>1. 1 \in DOMAIN retained /\ (1 < i \/ i = 1) BY <1>0, <1>3
        <5> QED BY <1>0, <1>3, <1>14, <5>1
      <4>2. \A p \in 1..m, q \in Range(retained') :
               source'[p] # "catalog" /\ p > q => p \in Range(retained')
        <5> SUFFICES ASSUME NEW p \in 1..m, NEW q \in Range(retained'),
                            source'[p] # "catalog", p > q, p # m
                     PROVE  p \in Range(retained')
          BY <1>16, <3>1
        <5>1. p \in 1..n /\ q # m BY <1>0, <1>3, <1>5
        <5>2. q \in Range(retained) BY <1>16, <3>1, <5>1
        <5>3. p \in Range(retained) BY <2>1, <3>2, <5>1, <5>2
        <5>4. p # retained[1]
          <6>1. retained[1] <= q /\ q \in 1..n /\ retained[1] \in 1..n
            BY <1>0, <1>3, <1>12, <4>1, <5>2, BufferType, <3>3
          <6> QED BY <5>1, <6>1
        <5> QED BY <1>16, <3>1, <3>3, <5>3, <5>4
      <4>3. Len(retained') = MaxBufferedObjects /\ Range(retained') # {} BY <1>16, <3>1, <3>3
      <4> QED BY <1>4, <1>20, <2>2, <4>2, <4>3 DEF NewestHeld, IsMedia, IsBoundary
    <3>4. CASE Len(retained) # MaxBufferedObjects
      <4>1. Range(retained') = Range(retained) \cup {m} BY <1>16, <3>1, <3>4
      <4>2. \A p \in 1..m, q \in Range(retained') :
               source'[p] # "catalog" /\ p > q => p \in Range(retained')
        <5> SUFFICES ASSUME NEW p \in 1..m, NEW q \in Range(retained'),
                            source'[p] # "catalog", p > q, p # m
                     PROVE  p \in Range(retained')
          BY <4>1
        <5>1. p \in 1..n /\ q # m BY <1>0, <1>3, <1>5
        <5> QED BY <2>1, <3>2, <4>1, <5>1
      <4>3. \/ \E q \in Range(retained') :
                   source'[q] = "boundary" /\ \A r \in Range(retained') : q <= r
            \/ \A p \in 1..m : source'[p] # "catalog" => p \in Range(retained')
        <5>1. CASE \E q \in Range(retained) :
                      IsBoundary(q) /\ \A r \in Range(retained) : q <= r
          <6>1. PICK q \in Range(retained) :
                      IsBoundary(q) /\ \A r \in Range(retained) : q <= r
            BY <5>1
          <6>2. q <= m /\ source'[q] = "boundary"
            <7>1. q \in 1..n /\ n \in Nat BY <1>3, <1>12
            <7> QED BY <1>0, <1>8, <6>1, <7>1 DEF IsBoundary
          <6> QED BY <4>1, <6>1, <6>2
        <5>2. CASE \A p \in 1..n : IsMedia(p) => p \in Range(retained) BY <1>5, <3>2, <4>1, <5>2
        <5> QED BY <2>1, <3>4, <5>1, <5>2
      <4> QED BY <1>4, <2>2, <4>1, <4>2, <4>3 DEF NewestHeld, IsMedia, IsBoundary
    <3> QED BY <3>3, <3>4
  <2> QED BY <2>3, <2>4
<1>h. DueHanded'
  <2> SUFFICES ASSUME ~dropped, NEW p \in 1..m
               PROVE  p \in Due' <=> /\ source'[p] # "catalog"
                                      /\ p \in Range(delivered') \cup Range(replay')
    BY <1>1, <1>4 DEF DueHanded, IsMedia
  <2>1. ResumePoint' = ResumePoint /\ ResumePoint \in Int /\ ResumePoint <= before + 1
    BY <1>1, <1>3, <1>4, ResumeStable, ResumeBound
  <2>2. p \in Due' <=> source'[p] # "catalog" /\ p >= ResumePoint BY <1>4, <2>1 DEF Due, MediaUpTo, IsMedia
  <2>3. CASE p = m BY <1>0, <1>3, <1>7, <2>1, <2>2, <2>3
  <2>4. CASE p \in 1..n
    <3>1. p \in Due <=> IsMedia(p) /\ p >= ResumePoint BY <1>0, <1>3, <2>4 DEF Due, MediaUpTo, n
    <3>2. p \in Due <=> IsMedia(p) /\ p \in Range(delivered)
      BY <1>0, <1>3, <1>10, <2>4 DEF WindowInv, DueHanded
    <3>3. p # m BY <1>5, <2>4
    <3>4. source'[p] # "catalog" <=> IsMedia(p) BY <1>8, <2>4 DEF IsMedia
    <3>5. p \in Range(delivered') \cup Range(replay') <=> p \in Range(delivered) BY <1>7, <1>10, <3>3
    <3> QED BY <2>2, <3>1, <3>2, <3>4, <3>5
  <2> QED BY <1>5, <2>3, <2>4
<1> QED BY <1>a, <1>b, <1>c, <1>d, <1>e, <1>f, <1>g, <1>h DEF WindowInv

(* ---- where a new session resumes ---- *)

Rising(s) == \A i, j \in DOMAIN s : i < j => s[i] < s[j]
Upward(M, R) == \A p \in M, q \in R : p > q => p \in R
NewestOf(M, K) == {p \in M : Cardinality({q \in M : q > p}) < K}

\* The newest elements of M, listed by s, belong to the window of M's newest K,
\* and are all of it when the list is full or lists all of M.
LEMMA WindowOf ==
    ASSUME NEW n \in Nat, NEW M \in SUBSET (1..n), NEW s \in Seq(M), Rising(s),
           Upward(M, Range(s)), NEW K \in Nat \ {0}, Len(s) <= K
    PROVE  /\ Range(s) \subseteq NewestOf(M, K)
           /\ Len(s) = K \/ M \subseteq Range(s) => NewestOf(M, K) = Range(s)
<1> DEFINE W == NewestOf(M, K)
<1> HIDE DEF W
<1>0. M \subseteq Nat OBVIOUS
<1>1. /\ Len(s) \in Nat /\ DOMAIN s = 1..Len(s) /\ \A i \in 1..Len(s) : s[i] \in M
      /\ Range(s) = {s[j] : j \in 1..Len(s)}
  <2>1. Len(s) \in Nat /\ DOMAIN s = 1..Len(s) /\ \A i \in 1..Len(s) : s[i] \in M
    BY LenProperties, ElementOfSeq
  <2> QED BY <2>1 DEF Range
<1>2. s \in Seq(Nat) BY <1>0, SeqMonotonic
<1>3. \A i \in 0..Len(s) : /\ IsFiniteSet({s[j] : j \in i + 1..Len(s)})
                           /\ Cardinality({s[j] : j \in i + 1..Len(s)}) = Len(s) - i
  BY <1>2, CountAbove DEF Rising
<1>4. IsFiniteSet(M)
  <2>1. IsFiniteSet(1..n) BY FS_Interval
  <2> QED BY <2>1, FS_Subset
<1>5. \A p \in M : /\ IsFiniteSet({q \in M : q > p})
                   /\ Cardinality({q \in M : q > p}) \in Nat
  BY <1>4, FS_Subset, FS_CardinalityType
<1>6. ASSUME NEW i \in 1..Len(s) PROVE s[i] \in W
  <2>1. {q \in M : q > s[i]} \subseteq {s[j] : j \in i + 1..Len(s)}
    <3> SUFFICES ASSUME NEW q \in M, q > s[i] PROVE q \in {s[j] : j \in i + 1..Len(s)} OBVIOUS
    <3>1. q \in Range(s) BY <1>1 DEF Upward
    <3>2. PICK j \in 1..Len(s) : q = s[j] BY <1>1, <3>1
    <3>3. j > i
      <4>1. s[j] > s[i] /\ s[i] \in Nat /\ s[j] \in Nat
        <5>1. s[i] \in M /\ s[j] \in M BY <1>1
        <5>2. s[i] \in Nat /\ s[j] \in Nat BY <1>0, <5>1, Zenon
        <5>3. s[j] > s[i] BY <3>2, Zenon
        <5> QED BY <5>2, <5>3
      <4>2. j < i => s[j] < s[i] BY <1>1 DEF Rising
      <4>3. j < i \/ j = i \/ j > i BY <1>1
      <4> QED BY <4>1, <4>2, <4>3
    <3>4. j \in i + 1..Len(s) BY <1>1, <3>3
    <3> QED BY <3>2, <3>4
  <2>2. /\ IsFiniteSet({s[j] : j \in i + 1..Len(s)})
        /\ Cardinality({s[j] : j \in i + 1..Len(s)}) = Len(s) - i
    <3>1. i \in 0..Len(s) OBVIOUS
    <3> QED BY <1>3, <3>1
  <2>3. Cardinality({q \in M : q > s[i]}) <= Len(s) - i BY <2>1, <2>2, FS_Subset
  <2>4. s[i] \in M /\ Cardinality({q \in M : q > s[i]}) \in Nat BY <1>1, <1>5
  <2>5. Cardinality({q \in M : q > s[i]}) < K BY <1>1, <2>3, <2>4
  <2> QED BY <2>4, <2>5 DEF W, NewestOf
<1>7. Range(s) \subseteq W BY <1>1, <1>6
<1>8. ASSUME Len(s) = K, NEW p \in M, p \notin Range(s) PROVE p \notin W
  <2>1. Range(s) \subseteq {q \in M : q > p}
    <3> SUFFICES ASSUME NEW q \in Range(s) PROVE q \in M /\ q > p OBVIOUS
    <3>1. q \in M BY <1>1
    <3>2. q # p /\ ~(p > q) BY <1>8 DEF Upward
    <3>3. p \in Int /\ q \in Int BY <3>1
    <3> QED BY <3>1, <3>2, <3>3
  <2>2. Cardinality(Range(s)) = K
    <3>1. 0 \in 0..Len(s) /\ 0 + 1 = 1 /\ Len(s) - 0 = Len(s) BY <1>1
    <3> QED BY <1>1, <1>3, <1>8, <3>1
  <2>3. K <= Cardinality({q \in M : q > p}) BY <1>5, <2>1, <2>2, FS_Subset
  <2>4. ~(Cardinality({q \in M : q > p}) < K)
    <3> DEFINE c == Cardinality({q \in M : q > p})
    <3>1. c \in Nat /\ K <= c BY <1>5, <2>3
    <3> HIDE DEF c
    <3>2. ~(c < K) BY <3>1
    <3> QED BY <3>2 DEF c
  <2> QED BY <2>4 DEF W, NewestOf
<1>9. W \subseteq M BY DEF W, NewestOf
<1> QED BY <1>7, <1>8, <1>9 DEF W

LEMMA SpanSize ==
    ASSUME NEW n \in Nat, NEW b \in 1..(n + 1)
    PROVE  /\ (IF b <= n THEN n - b + 1 ELSE 0) = (n - b) + 1
           /\ n - b + 1 = (n - b) + 1 /\ (n - b) + 1 \in Nat
           /\ \A i \in 1..((n - b) + 1) : b + i - 1 = (i + b) - 1 /\ (i + b) - 1 \in b..n
           /\ \A j \in b..n : /\ (j - b) + 1 \in 1..((n - b) + 1)
                              /\ (((j - b) + 1) + b) - 1 = j
  OBVIOUS

\* t is what s holds from its b-th element on.
Span(t, s, b) ==
    /\ Len(t) = (Len(s) - b) + 1
    /\ \A i \in 1..Len(t) : t[i] = s[(i + b) - 1] /\ (i + b) - 1 \in b..Len(s)
    /\ \A x \in Range(t) : \E j \in b..Len(s) : x = s[j]
    /\ \A j \in b..Len(s) : s[j] \in Range(t)

LEMMA SpanFacts ==
    ASSUME NEW S, NEW s \in Seq(S), NEW b \in 1..(Len(s) + 1)
    PROVE  SubSeq(s, b, Len(s)) \in Seq(S) /\ Span(SubSeq(s, b, Len(s)), s, b)
<1>1. Len(s) \in Nat /\ DOMAIN s = 1..Len(s) /\ \A i \in 1..Len(s) : s[i] \in S
  BY LenProperties, ElementOfSeq
<1> DEFINE n == Len(s)
           t == SubSeq(s, b, Len(s))
<1>2. n \in Nat /\ b \in 1..(n + 1) BY <1>1
<1>3. \A i \in b..n : s[i] \in S BY <1>1
<1>4. /\ t \in Seq(S)
      /\ Len(t) = IF b <= n THEN n - b + 1 ELSE 0
      /\ \A i \in 1..n - b + 1 : t[i] = s[b + i - 1]
  <2>1. b \in Int /\ n \in Int BY <1>2
  <2> QED BY <1>3, <2>1, SubSeqProperties
<1> HIDE DEF n, t
<1>5. Len(t) = (n - b) + 1 BY <1>2, <1>4, SpanSize
<1>6. \A i \in 1..Len(t) : t[i] = s[(i + b) - 1] /\ (i + b) - 1 \in b..n
  <2> TAKE i \in 1..Len(t)
  <2>1. i \in 1..((n - b) + 1) /\ i \in 1..n - b + 1 BY <1>2, <1>5, SpanSize
  <2>2. b + i - 1 = (i + b) - 1 /\ (i + b) - 1 \in b..n BY <1>2, <2>1, SpanSize
  <2> QED BY <1>4, <2>1, <2>2
<1>7. \A j \in b..n : \E i \in 1..Len(t) : t[i] = s[j]
  <2> TAKE j \in b..n
  <2>1. (j - b) + 1 \in 1..Len(t) /\ (((j - b) + 1) + b) - 1 = j BY <1>2, <1>5, SpanSize
  <2> QED BY <1>6, <2>1
<1>8. DOMAIN t = 1..Len(t) BY <1>4, LenProperties
<1>9. /\ \A x \in Range(t) : \E j \in b..n : x = s[j]
      /\ \A j \in b..n : s[j] \in Range(t)
  <2>1. Range(t) = {t[i] : i \in 1..Len(t)} BY <1>8 DEF Range
  <2>2. ASSUME NEW x \in Range(t) PROVE \E j \in b..n : x = s[j]
    <3>1. PICK i \in 1..Len(t) : x = t[i] BY <2>1
    <3> QED BY <1>6, <3>1
  <2>3. ASSUME NEW j \in b..n PROVE s[j] \in Range(t)
    <3>1. PICK i \in 1..Len(t) : t[i] = s[j] BY <1>7
    <3> QED BY <2>1, <3>1
  <2> QED BY <2>2, <2>3
<1> QED BY <1>4, <1>5, <1>6, <1>9 DEF n, t, Span

\* What begin_attempt() copies is the end of what is retained, from its last
\* boundary on.
LEMMA ReplayTailFacts ==
    ASSUME NEW S, retained \in Seq(S)
    PROVE  /\ ReplayTail(retained) \in Seq(S)
           /\ \E b \in 1..(Len(retained) + 1) :
             /\ Span(ReplayTail(retained), retained, b)
             /\ \/ /\ b = 1
                   /\ \A j \in 1..Len(retained) : ~IsBoundary(retained[j])
                \/ /\ b \in 1..Len(retained) /\ IsBoundary(retained[b])
                   /\ \A j \in 1..Len(retained) : IsBoundary(retained[j]) => j <= b
<1> DEFINE B == {i \in DOMAIN retained : IsBoundary(retained[i])}
<1>1. Len(retained) \in Nat /\ DOMAIN retained = 1..Len(retained) BY LenProperties
<1>2. B \in SUBSET (1..Len(retained)) BY <1>1
<1>3. ReplayTail(retained) =
        SubSeq(retained, IF B = {} THEN 1 ELSE Max(B), Len(retained))
  BY DEF ReplayTail
<1>4. \A i \in 1..Len(retained) : i \in B <=> IsBoundary(retained[i]) BY <1>1
<1> HIDE DEF B
<1>5. CASE B = {}
  <2>1. 1 \in 1..(Len(retained) + 1) BY <1>1
  <2>2. ReplayTail(retained) = SubSeq(retained, 1, Len(retained)) BY <1>3, <1>5
  <2>3. \A j \in 1..Len(retained) : ~IsBoundary(retained[j]) BY <1>4, <1>5
  <2>4. ReplayTail(retained) \in Seq(S) /\ Span(ReplayTail(retained), retained, 1) BY <2>1, <2>2, SpanFacts
  <2> QED BY <2>1, <2>3, <2>4
<1>6. CASE B # {}
  <2>1. Max(B) \in B /\ \A y \in B : y <= Max(B) BY <1>1, <1>2, <1>6, PlaceExtremes
  <2>2. Max(B) \in 1..Len(retained) /\ Max(B) \in 1..(Len(retained) + 1)
    <3>1. Max(B) \in 1..Len(retained) BY <1>2, <2>1
    <3>2. 1..Len(retained) \subseteq 1..(Len(retained) + 1) BY <1>1
    <3> QED BY <3>1, <3>2
  <2>3. ReplayTail(retained) = SubSeq(retained, Max(B), Len(retained)) BY <1>3, <1>6
  <2>4. IsBoundary(retained[Max(B)]) BY <1>4, <2>1, <2>2
  <2>5. \A j \in 1..Len(retained) : IsBoundary(retained[j]) => j <= Max(B) BY <1>4, <2>1
  <2>6. ReplayTail(retained) \in Seq(S) /\ Span(ReplayTail(retained), retained, Max(B))
    BY <2>2, <2>3, SpanFacts
  <2> QED BY <2>2, <2>4, <2>5, <2>6
<1> QED BY <1>5, <1>6

\* Where the next session resumes, when no replay is thrown away: exactly at
\* what begin_attempt() copies.
LEMMA ResumeMeaning ==
    ASSUME NEW n \in Nat, NEW M \in SUBSET (1..n), retained \in Seq(M), Rising(retained),
           Upward(M, Range(retained)), Len(retained) <= MaxBufferedObjects,
           Range(retained) = {} => M = {},
           \/ Len(retained) = MaxBufferedObjects
           \/ \E q \in Range(retained) : IsBoundary(q)
           \/ M \subseteq Range(retained),
           NEW WB, WB = {p \in NewestOf(M, MaxBufferedObjects) : IsBoundary(p)},
           NEW r, r = CASE WB # {} -> Max(WB)
                        [] WB = {} /\ NewestOf(M, MaxBufferedObjects) # {} ->
                               Min(NewestOf(M, MaxBufferedObjects))
                        [] OTHER -> n + 1,
           NEW p \in M
    PROVE  p >= r <=> p \in Range(ReplayTail(retained))
<1> DEFINE W == NewestOf(M, MaxBufferedObjects)
           s == retained
           T == ReplayTail(retained)
<1>1. /\ Len(s) \in Nat /\ DOMAIN s = 1..Len(s) /\ \A i \in 1..Len(s) : s[i] \in M
      /\ Range(s) = {s[j] : j \in 1..Len(s)}
  <2>1. Len(s) \in Nat /\ DOMAIN s = 1..Len(s) /\ \A i \in 1..Len(s) : s[i] \in M
    BY LenProperties, ElementOfSeq
  <2> QED BY <2>1 DEF Range
<1>2. /\ Range(s) \subseteq W
      /\ Len(s) = MaxBufferedObjects \/ M \subseteq Range(s) => W = Range(s)
  BY BufferType, WindowOf
<1>3. W \in SUBSET M BY DEF NewestOf
<1>4. M \subseteq Int OBVIOUS
<1>5. PICK b \in 1..(Len(s) + 1) :
           /\ Span(T, s, b)
           /\ \/ b = 1 /\ \A j \in 1..Len(s) : ~IsBoundary(s[j])
              \/ /\ b \in 1..Len(s) /\ IsBoundary(s[b])
                 /\ \A j \in 1..Len(s) : IsBoundary(s[j]) => j <= b
  BY ReplayTailFacts
<1>6. /\ \A x \in Range(T) : \E j \in b..Len(s) : x = s[j]
      /\ \A j \in b..Len(s) : s[j] \in Range(T)
  BY <1>5 DEF Span
<1> HIDE DEF W, T
<1>7. CASE b = 1 /\ \A j \in 1..Len(s) : ~IsBoundary(s[j])
  <2>1. Range(T) = Range(s) BY <1>1, <1>6, <1>7
  <2>2. \A q \in Range(s) : ~IsBoundary(q) BY <1>1, <1>7
  <2>3. W = Range(s) BY <1>2, <2>2
  <2>4. WB = {} BY <2>2, <2>3 DEF W
  <2>5. W # {} BY <2>3
  <2>6. r = Min(W) BY <2>4, <2>5 DEF W
  <2>7. r \in W /\ \A y \in W : r <= y
    <3>1. W \in SUBSET (1..n) BY <1>3
    <3>2. Min(W) \in W /\ \A y \in W : Min(W) <= y BY <2>5, <3>1, PlaceExtremes, Zenon
    <3> QED BY <2>6, <3>2, Zenon
  <2>8. ASSUME p >= r PROVE p \in W
    <3>1. p = r \/ p > r BY <1>3, <1>4, <2>7, <2>8
    <3> QED BY <2>3, <2>7, <3>1 DEF Upward
  <2>9. p \in W => p >= r BY <1>3, <1>4, <2>7
  <2> QED BY <2>1, <2>3, <2>8, <2>9 DEF T
<1>8. CASE /\ b \in 1..Len(s) /\ IsBoundary(s[b])
           /\ \A j \in 1..Len(s) : IsBoundary(s[j]) => j <= b
  <2>1. s[b] \in Range(s) /\ s[b] \in WB /\ s[b] \in M BY <1>1, <1>2, <1>8 DEF W
  <2>2. \A y \in WB : y \in M /\ IsBoundary(y) BY <1>3 DEF W
  <2>3. \A y \in WB : y <= s[b]
    <3> SUFFICES ASSUME NEW y \in WB, y > s[b] PROVE FALSE BY <1>4, <2>1, <2>2
    <3>1. y \in Range(s) BY <2>1, <2>2 DEF Upward
    <3>2. PICK j \in 1..Len(s) : y = s[j] BY <1>1, <3>1
    <3>3. j <= b BY <1>8, <2>2, <3>2
    <3>4. j = b \/ j < b BY <1>1, <1>8, <3>3
    <3>5. j < b => s[j] < s[b] BY <1>1, <1>8 DEF Rising
    <3>6. s[j] \in Int /\ s[b] \in Int BY <1>1, <1>4, <1>8
    <3> QED BY <3>2, <3>4, <3>5, <3>6
  <2>4. r = s[b]
    <3>1. WB \in SUBSET Int BY <1>4, <2>2
    <3>2. Max(WB) = s[b] BY <2>1, <2>3, <3>1, ExtremesAre
    <3> QED BY <2>1, <3>2
  <2>5. ASSUME p >= r PROVE p \in Range(T)
    <3>1. p = s[b] \/ p > s[b] BY <1>4, <2>1, <2>4, <2>5
    <3>2. p \in Range(s) BY <2>1, <3>1 DEF Upward
    <3>3. PICK j \in 1..Len(s) : p = s[j] BY <1>1, <3>2
    <3>4. ~(j < b)
      <4>1. j < b => s[j] < s[b] BY <1>1, <1>8 DEF Rising
      <4>2. s[j] \in Int /\ s[b] \in Int BY <1>1, <1>4, <1>8
      <4> QED BY <2>4, <2>5, <3>3, <4>1, <4>2
    <3>5. j \in b..Len(s) BY <1>1, <1>8, <3>4
    <3> QED BY <1>6, <3>3, <3>5
  <2>6. ASSUME p \in Range(T) PROVE p >= r
    <3>1. PICK j \in b..Len(s) : p = s[j] BY <1>6, <2>6
    <3>2. j \in 1..Len(s) /\ (j = b \/ b < j) BY <1>1, <1>8
    <3>3. b < j => s[b] < s[j] BY <1>1, <1>8, <3>2 DEF Rising
    <3>4. s[j] \in Int /\ s[b] \in Int BY <1>1, <1>4, <1>8, <3>2
    <3> QED BY <2>4, <3>1, <3>2, <3>3, <3>4
  <2> QED BY <2>5, <2>6 DEF T
<1> QED BY <1>5, <1>7, <1>8

LEMMA JoinFacts ==
    ASSUME NEW S, NEW c \in S, NEW t \in Seq(S)
    PROVE  /\ <<c>> \o t \in Seq(S) /\ <<c>> \o t # <<>> /\ (<<c>> \o t)[1] = c
           /\ Len(<<c>> \o t) = Len(t) + 1 /\ DOMAIN (<<c>> \o t) = 1..(Len(t) + 1)
           /\ \A i \in 2..(Len(t) + 1) : (<<c>> \o t)[i] = t[i - 1] /\ i - 1 \in 1..Len(t)
           /\ Range(<<c>> \o t) = {c} \cup Range(t)
<1> DEFINE r == <<c>> \o t
<1>1. <<c>> \in Seq(S) /\ Len(<<c>>) = 1 /\ <<c>>[1] = c OBVIOUS
<1>2. Len(t) \in Nat /\ DOMAIN t = 1..Len(t) BY LenProperties
<1>3. /\ r \in Seq(S) /\ Len(r) = 1 + Len(t)
      /\ \A i \in 1..1 + Len(t) : r[i] = IF i <= 1 THEN <<c>>[i] ELSE t[i - 1]
  BY <1>1, ConcatProperties
<1> HIDE DEF r
<1>4. Len(r) = Len(t) + 1 /\ DOMAIN r = 1..(Len(t) + 1) BY <1>2, <1>3, LenProperties
<1>5. r # <<>> BY <1>2, <1>4, EmptySeq
<1>6. r[1] = c BY <1>1, <1>2, <1>3
<1>7. \A i \in 2..(Len(t) + 1) : r[i] = t[i - 1] /\ i - 1 \in 1..Len(t) BY <1>2, <1>3
<1>8. Range(r) = {c} \cup Range(t)
  <2>1. \A i \in 1..(Len(t) + 1) : i = 1 \/ i \in 2..(Len(t) + 1) BY <1>2
  <2>2. \A x \in Range(r) : x \in {c} \cup Range(t)
    <3> SUFFICES ASSUME NEW i \in 1..(Len(t) + 1) PROVE r[i] \in {c} \cup Range(t) BY <1>4 DEF Range
    <3>1. CASE i = 1 BY <1>6, <3>1
    <3>2. CASE i \in 2..(Len(t) + 1) BY <1>2, <1>7, <3>2 DEF Range
    <3> QED BY <2>1, <3>1, <3>2
  <2>3. c \in Range(r)
    <3>1. 1 \in DOMAIN r BY <1>2, <1>4
    <3> QED BY <1>6, <3>1 DEF Range
  <2>4. \A x \in Range(t) : x \in Range(r)
    <3> SUFFICES ASSUME NEW i \in 1..Len(t) PROVE t[i] \in Range(r) BY <1>2 DEF Range
    <3>1. i + 1 \in 2..(Len(t) + 1) /\ i + 1 \in DOMAIN r /\ (i + 1) - 1 = i BY <1>2, <1>4
    <3>2. r[i + 1] = t[i] BY <1>7, <3>1
    <3> QED BY <3>1, <3>2 DEF Range
  <2> QED BY <2>2, <2>3, <2>4
<1> QED BY <1>3, <1>4, <1>5, <1>6, <1>7, <1>8 DEF r

\* The end of what is retained: media only, in order.
LEMMA TailIsMedia ==
    ASSUME WindowInv
    PROVE  /\ ReplayTail(retained) \in Seq(1..Len(source))
           /\ Len(ReplayTail(retained)) <= Len(retained)
           /\ Rising(ReplayTail(retained))
           /\ \A p \in Range(ReplayTail(retained)) : IsMedia(p)
           /\ Range(ReplayTail(retained)) \subseteq Range(retained)
           /\ retained = <<>> => ReplayTail(retained) = <<>>
<1> DEFINE T == ReplayTail(retained)
           k == Len(retained)
<1>1. /\ retained \in Seq(1..Len(source)) /\ Len(retained) \in Nat
      /\ DOMAIN retained = 1..Len(retained)
      /\ \A i \in 1..Len(retained) : retained[i] \in 1..Len(source)
  BY WindowFacts DEF WindowInv, WindowTypes
<1>2. T \in Seq(1..Len(source)) /\ \E b \in 1..(Len(retained) + 1) : Span(T, retained, b)
  BY <1>1, ReplayTailFacts
<1>3. PICK b \in 1..(Len(retained) + 1) : Span(T, retained, b) BY <1>2
<1> HIDE DEF T
<1>4. /\ Len(T) = (Len(retained) - b) + 1
      /\ \A i \in 1..Len(T) : /\ T[i] = retained[(i + b) - 1]
                              /\ (i + b) - 1 \in b..Len(retained)
      /\ \A x \in Range(T) : \E j \in b..Len(retained) : x = retained[j]
  BY <1>3 DEF Span
<1>5. Len(T) \in Nat /\ DOMAIN T = 1..Len(T) BY <1>2, LenProperties
<1>6. b..Len(retained) \subseteq 1..Len(retained) /\ b \in Nat BY <1>1
<1>7. Len(T) <= Len(retained) BY <1>1, <1>4
<1>8. /\ \A i \in DOMAIN retained : IsMedia(retained[i])
      /\ \A i, j \in DOMAIN retained : i < j => retained[i] < retained[j]
  BY DEF WindowInv, InSequence
<1>9. Rising(T)
  <2> SUFFICES ASSUME NEW i \in 1..Len(T), NEW j \in 1..Len(T), i < j
               PROVE  T[i] < T[j]
    BY <1>5 DEF Rising
  <2>1. (i + b) - 1 \in DOMAIN retained /\ (j + b) - 1 \in DOMAIN retained BY <1>1, <1>4, <1>6
  <2>2. (i + b) - 1 < (j + b) - 1 BY <1>5, <1>6
  <2>3. retained[(i + b) - 1] < retained[(j + b) - 1] BY <1>8, <2>1, <2>2
  <2> QED BY <1>4, <2>3
<1>10. \A x \in Range(T) : IsMedia(x) /\ x \in Range(retained) BY <1>1, <1>4, <1>6, <1>8 DEF Range
<1>11. retained = <<>> => T = <<>>
  <2>1. retained = <<>> => Len(retained) = 0 BY EmptySeq
  <2>2. Len(retained) = 0 => Len(T) = 0 BY <1>5, <1>7
  <2> QED BY <1>2, <2>1, <2>2, EmptySeq
<1> QED BY <1>2, <1>7, <1>9, <1>10, <1>11 DEF T

\* The replay that begin_attempt() sets up: the retained catalog, then media.
ReplayShape(r, T) ==
    /\ r \in Seq(1..Len(source))
    /\ \A p \in 1..Len(source) : IsMedia(p) => (p \in Range(r) <=> p \in Range(T))
    /\ Len(T) = IF r = <<>> \/ IsMedia(r[1]) THEN Len(r) ELSE Len(r) - 1
    /\ \A j \in DOMAIN r : j > 1 => IsMedia(r[j])
    /\ \A i, j \in DOMAIN r : i < j /\ IsMedia(r[i]) => r[i] < r[j]
    /\ retainedCatalog # None => r # <<>> /\ r[1] = retainedCatalog

LEMMA ReplayFromFacts ==
    ASSUME WindowInv
    PROVE  ReplayShape(ReplayFrom, ReplayTail(retained))
<1> DEFINE T == ReplayTail(retained)
<1>1. /\ T \in Seq(1..Len(source)) /\ Rising(T) /\ \A p \in Range(T) : IsMedia(p) BY TailIsMedia
<1>2. Len(T) \in Nat /\ DOMAIN T = 1..Len(T) /\ \A i \in 1..Len(T) : IsMedia(T[i])
  <2>1. Len(T) \in Nat /\ DOMAIN T = 1..Len(T) BY <1>1, LenProperties
  <2> QED BY <1>1, <2>1 DEF Range
<1>3. /\ retainedCatalog = None => ReplayFrom = <<>> \o T
      /\ retainedCatalog # None => ReplayFrom = <<retainedCatalog>> \o T
  BY DEF ReplayFrom
<1> HIDE DEF T
<1>4. CASE retainedCatalog = None
  <2>1. ReplayFrom = T BY <1>1, <1>3, <1>4, ConcatEmptySeq
  <2>2. T = <<>> \/ IsMedia(T[1]) BY <1>1, <1>2, EmptySeq
  <2>3. ReplayShape(T, T) BY <1>1, <1>2, <1>4, <2>2 DEF ReplayShape, Rising
  <2> QED BY <2>1, <2>3 DEF T
<1>5. CASE retainedCatalog # None
  <2> DEFINE c == retainedCatalog
             r == <<c>> \o T
  <2>1. c \in 1..Len(source) /\ ~IsMedia(c)
    <3>1. DOMAIN source = 1..Len(source) BY WindowFacts DEF WindowInv
    <3>2. c \in 1..Len(source) BY <1>5, <3>1 DEF WindowInv, WindowTypes
    <3>3. ~IsMedia(c) BY <1>5 DEF WindowInv, NewestCatalog
    <3> QED BY <3>2, <3>3
  <2>2. /\ r \in Seq(1..Len(source)) /\ r # <<>> /\ r[1] = c
        /\ Len(r) = Len(T) + 1 /\ DOMAIN r = 1..(Len(T) + 1)
        /\ \A i \in 2..(Len(T) + 1) : r[i] = T[i - 1] /\ i - 1 \in 1..Len(T)
        /\ Range(r) = {c} \cup Range(T)
    BY <1>1, <2>1, JoinFacts
  <2>3. ReplayFrom = r BY <1>3, <1>5
  <2> HIDE DEF r
  <2>4. \A p \in 1..Len(source) : IsMedia(p) => (p \in Range(r) <=> p \in Range(T)) BY <2>1, <2>2
  <2>5. Len(T) = Len(r) - 1 /\ ~(r = <<>> \/ IsMedia(r[1])) BY <1>2, <2>1, <2>2
  <2>6. \A j \in DOMAIN r : j > 1 => IsMedia(r[j])
    <3> TAKE j \in DOMAIN r
    <3>1. j > 1 => j \in 2..(Len(T) + 1) BY <1>2, <2>2
    <3> QED BY <1>2, <2>2, <3>1
  <2>7. \A i, j \in DOMAIN r : i < j /\ IsMedia(r[i]) => r[i] < r[j]
    <3> SUFFICES ASSUME NEW i \in DOMAIN r, NEW j \in DOMAIN r, i < j, IsMedia(r[i])
                 PROVE  r[i] < r[j]
      OBVIOUS
    <3>1. i # 1 BY <2>1, <2>2
    <3>2. i \in 2..(Len(T) + 1) /\ j \in 2..(Len(T) + 1) BY <1>2, <2>2, <3>1
    <3>3. /\ r[i] = T[i - 1] /\ i - 1 \in DOMAIN T
          /\ r[j] = T[j - 1] /\ j - 1 \in DOMAIN T
      BY <1>2, <2>2, <3>2
    <3>4. i - 1 < j - 1 BY <1>2, <3>2
    <3> QED BY <1>1, <3>3, <3>4 DEF Rising
  <2>8. ReplayShape(r, T) BY <2>2, <2>4, <2>5, <2>6, <2>7 DEF ReplayShape
  <2> QED BY <2>3, <2>8 DEF T
<1> QED BY <1>4, <1>5

\* begin_attempt(): what is copied is the newest media, and all that is due to
\* the session it begins.
LEMMA StartKeepsWindow ==
    ASSUME WindowInv, StartAttempt, attemptCount \in Nat
    PROVE  WindowInv'
<1> DEFINE n == Len(source)
           T == ReplayTail(retained)
           M == MediaUpTo(Len(source))
<1>1. /\ attemptCount' = attemptCount + 1 /\ retained' = <<>> /\ delivered' = <<>>
      /\ before' = Len(source) /\ source' = source /\ retainedCatalog' = retainedCatalog
      /\ replay' = IF attemptCount = 0 THEN <<>> ELSE ReplayFrom
  BY DEF StartAttempt, BeginAttempt
<1>2. WindowTypes /\ InSequence BY DEF WindowInv
<1>3. /\ n \in Nat /\ DOMAIN source = 1..n
      /\ Len(retained) \in Nat /\ DOMAIN retained = 1..Len(retained)
      /\ retained \in Seq(1..n) /\ retainedCatalog \in {None} \cup 1..n
      /\ Len(source) <= MaxObjects
  BY <1>2, WindowFacts DEF WindowTypes
<1>4. /\ T \in Seq(1..n) /\ Len(T) <= Len(retained) /\ Rising(T)
      /\ \A p \in Range(T) : IsMedia(p)
      /\ Range(T) \subseteq Range(retained)
      /\ retained = <<>> => T = <<>>
  BY TailIsMedia
<1>5. ReplayShape(ReplayFrom, T) BY ReplayFromFacts
<1>6. replay' = ReplayFrom
  <2>1. CASE attemptCount = 0
    <3>1. retained = <<>> /\ retainedCatalog = None BY <2>1 DEF WindowInv, FirstAttempt
    <3>2. ReplayFrom = <<>> \o <<>> BY <1>4, <3>1 DEF ReplayFrom
    <3>3. <<>> \o <<>> = <<>> BY ConcatEmptySeq, EmptySeq
    <3> QED BY <1>1, <2>1, <3>2, <3>3
  <2>2. CASE attemptCount # 0 BY <1>1, <2>2
  <2> QED BY <2>1, <2>2
<1>7. /\ replay' \in Seq(1..n)
      /\ \A p \in 1..n : IsMedia(p) => (p \in Range(replay') <=> p \in Range(T))
      /\ Len(T) = IF replay' = <<>> \/ IsMedia(replay'[1]) THEN Len(replay')
                                                           ELSE Len(replay') - 1
      /\ \A j \in DOMAIN replay' : j > 1 => IsMedia(replay'[j])
      /\ \A i, j \in DOMAIN replay' :
            i < j /\ IsMedia(replay'[i]) => replay'[i] < replay'[j]
      /\ retainedCatalog # None => replay' # <<>> /\ replay'[1] = retainedCatalog
  BY <1>5, <1>6 DEF ReplayShape
<1>8. \A p : (source'[p] # "catalog") <=> IsMedia(p) BY <1>1 DEF IsMedia
<1>9. /\ DOMAIN retained' = {} /\ Range(retained') = {} /\ Len(retained') = 0
      /\ DOMAIN delivered' = {} /\ Range(delivered') = {}
  BY <1>1, EmptySeq DEF Range
<1>10. Len(T) \in Nat /\ Len(replay') \in Nat /\ Range(replay') \subseteq 1..n
       /\ DOMAIN replay' = 1..Len(replay')
  <2>1. Len(T) \in Nat /\ Len(replay') \in Nat /\ DOMAIN replay' = 1..Len(replay')
    BY <1>4, <1>7, LenProperties
  <2>2. \A i \in 1..Len(replay') : replay'[i] \in 1..n BY <1>7, ElementOfSeq
  <2> QED BY <2>1, <2>2 DEF Range
<1>11. Range(retained) \subseteq 1..n
  <2>1. \A i \in 1..Len(retained) : retained[i] \in 1..n BY <1>3, ElementOfSeq
  <2> QED BY <1>3, <2>1 DEF Range
<1> HIDE DEF n, T, M
<1>12. HeldCount' = Len(T)
  <2>1. HeldCount' = IF replay' = <<>> \/ source'[replay'[1]] # "catalog"
                       THEN Len(retained') + Len(replay')
                       ELSE (Len(retained') + Len(replay')) - 1
    BY DEF HeldCount, IsMedia
  <2>2. Len(retained') + Len(replay') = Len(replay') BY <1>9, <1>10
  <2>3. CASE replay' = <<>> \/ IsMedia(replay'[1])
    <3>1. HeldCount' = Len(replay') BY <1>8, <2>1, <2>2, <2>3
    <3>2. Len(T) = Len(replay') BY <1>7, <2>3
    <3> QED BY <3>1, <3>2
  <2>4. CASE ~(replay' = <<>> \/ IsMedia(replay'[1]))
    <3>1. HeldCount' = Len(replay') - 1 BY <1>8, <2>1, <2>2, <2>4
    <3>2. Len(T) = Len(replay') - 1 BY <1>7, <2>4
    <3> QED BY <3>1, <3>2
  <2> QED BY <2>3, <2>4
<1>13. Held' = Range(T)
  <2>1. Held' = {p \in Range(replay') : source'[p] # "catalog"} BY <1>9 DEF Held, IsMedia
  <2>2. \A p \in Range(T) : p \in 1..n /\ IsMedia(p) BY <1>4, <1>11
  <2> QED BY <1>7, <1>8, <1>10, <2>1, <2>2
<1>a. WindowTypes'
  <2>1. before' \in 0..Len(source') /\ Len(source') <= MaxObjects BY <1>1, <1>3 DEF n
  <2>2. retained' \in Seq(1..n) /\ delivered' \in Seq(1..n) BY <1>1
  <2>3. DOMAIN source' = 1..n /\ source' \in Seq(Kinds) BY <1>1, <1>2, <1>3 DEF WindowTypes
  <2> QED BY <1>1, <1>3, <1>7, <2>1, <2>2, <2>3 DEF WindowTypes
<1>b. InSequence'
  <2>1. \A j \in DOMAIN replay' : j > 1 => source'[replay'[j]] # "catalog" BY <1>7, <1>8
  <2>2. \A i, j \in DOMAIN replay' :
            i < j /\ source'[replay'[i]] # "catalog" => replay'[i] < replay'[j]
    BY <1>7, <1>8
  <2> QED BY <1>9, <2>1, <2>2 DEF InSequence, IsMedia
<1>c. Bounded'
  <2>1. Len(retained) <= MaxBufferedObjects BY RetainedBounded
  <2>2. Len(T) <= MaxBufferedObjects BY <1>3, <1>4, <1>10, <2>1, BufferType
  <2> QED BY <1>12, <2>2 DEF Bounded
<1>d. NewestCatalog' BY <1>1 DEF WindowInv, NewestCatalog, IsMedia
<1>e. CatalogLeads'
  <2> SUFFICES ASSUME NEW c \in 1..n, source'[c] = "catalog",
                      \A p \in 1..n : p > c => source'[p] # "catalog"
               PROVE  replay' # <<>> /\ replay'[1] = c
    BY <1>1 DEF CatalogLeads, IsMedia, n
  <2>1. ~IsMedia(c) /\ \A p \in 1..n : p > c => IsMedia(p) BY <1>8
  <2>2. NewestCatalog BY DEF WindowInv
  <2>3. retainedCatalog # None BY <1>3, <2>1, <2>2 DEF NewestCatalog
  <2>4. /\ retainedCatalog \in 1..n /\ ~IsMedia(retainedCatalog)
        /\ \A p \in 1..n : p > retainedCatalog => IsMedia(p)
    BY <1>3, <2>2, <2>3 DEF NewestCatalog
  <2>5. ~(c > retainedCatalog) /\ ~(retainedCatalog > c) BY <2>1, <2>4
  <2>6. c \in Int /\ retainedCatalog \in Int BY <2>4
  <2>7. c = retainedCatalog BY <2>5, <2>6
  <2> QED BY <1>7, <2>3, <2>7
<1>f. FirstAttempt' BY <1>1 DEF FirstAttempt
<1>15. ~dropped' => ~dropped /\ replay = <<>> BY DEF StartAttempt
<1>16. ASSUME ~dropped'
       PROVE  /\ \A p \in 1..n, q \in Range(retained) :
                     IsMedia(p) /\ p > q => p \in Range(retained)
              /\ Range(retained) = {} => \A p \in 1..n : ~IsMedia(p)
              /\ \/ Len(retained) = MaxBufferedObjects
                 \/ \E q \in Range(retained) : IsBoundary(q) /\ \A r \in Range(retained) : q <= r
                 \/ \A p \in 1..n : IsMedia(p) => p \in Range(retained)
  <2>1. ~dropped /\ replay = <<>> BY <1>15, <1>16
  <2>2. Range(replay) = {} BY <2>1 DEF Range
  <2>3. Held = Range(retained) BY <1>2, <2>2 DEF Held, InSequence, Range
  <2>4. HeldCount = Len(retained) BY <2>1, RetainedBounded
  <2>5. NewestHeld BY DEF WindowInv
  <2> QED BY <1>3, <2>1, <2>3, <2>4, <2>5 DEF NewestHeld
<1>17. Rising(retained) BY <1>2 DEF InSequence, Rising
<1>18. PICK b \in 1..(Len(retained) + 1) :
           /\ Span(T, retained, b)
           /\ \/ /\ b = 1
                 /\ \A j \in 1..Len(retained) : ~IsBoundary(retained[j])
              \/ /\ b \in 1..Len(retained) /\ IsBoundary(retained[b])
                 /\ \A j \in 1..Len(retained) : IsBoundary(retained[j]) => j <= b
  BY <1>3, ReplayTailFacts DEF T
<1>19. /\ \A x \in Range(T) : \E j \in b..Len(retained) : x = retained[j]
       /\ \A j \in b..Len(retained) : retained[j] \in Range(T)
       /\ Len(T) = (Len(retained) - b) + 1
  BY <1>18 DEF Span
<1>20. \A p \in 1..n, q \in Range(T) :
           p \in Range(retained) /\ p > q => p \in Range(T)
  <2> SUFFICES ASSUME NEW p \in 1..n, NEW q \in Range(T), p \in Range(retained), p > q
               PROVE  p \in Range(T)
    OBVIOUS
  <2>1. PICK i \in 1..Len(retained) : p = retained[i] BY <1>3 DEF Range
  <2>2. PICK j \in b..Len(retained) : q = retained[j] BY <1>19
  <2>3. j \in 1..Len(retained) BY <1>3
  <2>4. retained[i] \in Int /\ retained[j] \in Int BY <1>11, <2>1, <2>3, <1>3 DEF Range
  <2>5. i < j => retained[i] < retained[j] BY <1>3, <1>17, <2>3 DEF Rising
  <2>6. ~(i < j) BY <2>1, <2>2, <2>4, <2>5
  <2>7. i \in b..Len(retained) BY <1>3, <2>3, <2>6
  <2> QED BY <1>19, <2>1, <2>7
<1>g. NewestHeld'
  <2> SUFFICES ASSUME ~dropped' PROVE NewestHeld' BY DEF NewestHeld, IsMedia, IsBoundary
  <2>1. \A p \in 1..n, q \in Range(T) : IsMedia(p) /\ p > q => p \in Range(T) BY <1>4, <1>16, <1>20
  <2>2. Range(T) = {} => \A p \in 1..n : ~IsMedia(p)
    <3>1. Range(T) = {} => ~(b <= Len(retained))
      <4>1. b <= Len(retained) => b \in b..Len(retained) BY <1>3
      <4> QED BY <1>19, <4>1
    <3>2. ~(b <= Len(retained)) => Len(retained) = 0 BY <1>3, <1>18
    <3>3. Len(retained) = 0 => DOMAIN retained = {} BY <1>3
    <3>4. DOMAIN retained = {} => Range(retained) = {} BY DEF Range
    <3> QED BY <1>16, <3>1, <3>2, <3>3, <3>4
  <2>3. \/ Len(T) = MaxBufferedObjects
        \/ \E q \in Range(T) : IsBoundary(q) /\ \A r \in Range(T) : q <= r
        \/ \A p \in 1..n : IsMedia(p) => p \in Range(T)
    <3>1. CASE /\ b = 1
               /\ \A j \in 1..Len(retained) : ~IsBoundary(retained[j])
      <4>1. \A q \in Range(retained) : ~IsBoundary(q) /\ q \in Range(T) BY <1>3, <1>19, <3>1 DEF Range
      <4>2. Len(T) = Len(retained) BY <1>3, <1>19, <3>1
      <4> QED BY <1>16, <4>1, <4>2
    <3>2. CASE /\ b \in 1..Len(retained) /\ IsBoundary(retained[b])
               /\ \A j \in 1..Len(retained) : IsBoundary(retained[j]) => j <= b
      <4>1. retained[b] \in Range(T)
        <5>1. b \in b..Len(retained) BY <1>3, <3>2
        <5> QED BY <1>19, <5>1
      <4>2. ASSUME NEW r \in Range(T) PROVE retained[b] <= r
        <5>1. PICK j \in b..Len(retained) : r = retained[j] BY <1>19
        <5>2. j \in DOMAIN retained /\ b \in DOMAIN retained /\ (b < j \/ b = j) BY <1>3, <3>2
        <5>3. b < j => retained[b] < retained[j] BY <1>17, <5>2 DEF Rising
        <5>4. retained[j] \in Int /\ retained[b] \in Int BY <1>11, <5>2 DEF Range
        <5> QED BY <5>1, <5>2, <5>3, <5>4
      <4> QED BY <3>2, <4>1, <4>2
    <3> QED BY <1>18, <3>1, <3>2
  <2>4. \A p : source'[p] = source[p] BY <1>1
  <2>5. DOMAIN source' = 1..n BY <1>1, <1>3
  <2> QED BY <1>12, <1>13, <2>1, <2>2, <2>3, <2>4, <2>5 DEF NewestHeld, IsMedia, IsBoundary
<1>h. DueHanded'
  <2> SUFFICES ASSUME ~dropped', NEW p \in 1..n
               PROVE  p \in Due' <=> /\ source'[p] # "catalog"
                                      /\ p \in Range(delivered') \cup Range(replay')
    BY <1>1, <1>3 DEF DueHanded, IsMedia
  <2>1. M \in SUBSET (1..n) /\ \A q \in 1..n : q \in M <=> IsMedia(q) BY DEF M, MediaUpTo, n
  <2>2. retained \in Seq(M)
    <3>1. \A i \in 1..Len(retained) : retained[i] \in M BY <1>2, <1>3, <1>11, <2>1 DEF InSequence, Range
    <3> QED BY <1>3, <3>1
  <2>3. Upward(M, Range(retained)) BY <1>16, <2>1 DEF Upward
  <2>4. Range(retained) = {} => M = {} BY <1>16, <2>1
  <2>5. \/ Len(retained) = MaxBufferedObjects
        \/ \E q \in Range(retained) : IsBoundary(q)
        \/ M \subseteq Range(retained)
    BY <1>16, <2>1
  <2>6. Window' = NewestOf(M, MaxBufferedObjects)
    <3>1. MediaUpTo(before)' = M BY <1>1 DEF MediaUpTo, IsMedia, M
    <3> QED BY <3>1 DEF Window, NewestOf
  <2>7. WindowBoundaries' = {q \in NewestOf(M, MaxBufferedObjects) : IsBoundary(q)}
    BY <1>1, <2>6 DEF WindowBoundaries, IsBoundary
  <2>8. ResumePoint' = CASE WindowBoundaries' # {} -> Max(WindowBoundaries')
                         [] WindowBoundaries' = {} /\ Window' # {} -> Min(Window')
                         [] OTHER -> n + 1
    BY <1>1 DEF ResumePoint, n
  <2>9. Len(retained) <= MaxBufferedObjects BY RetainedBounded
  <2>10. p \in M => (p >= ResumePoint' <=> p \in Range(T))
    BY <1>3, <1>17, <2>1, <2>2, <2>3, <2>4, <2>5, <2>6, <2>7, <2>8, <2>9, ResumeMeaning DEF T
  <2>11. p \in Due' <=> p \in M /\ p >= ResumePoint' BY <1>1, <2>1 DEF Due, MediaUpTo, IsMedia, n
  <2>12. p \in M <=> source'[p] # "catalog" BY <1>8, <2>1
  <2>13. p \in M => (p \in Range(delivered') \cup Range(replay') <=> p \in Range(T)) BY <1>7, <1>9, <2>1
  <2> QED BY <2>10, <2>11, <2>12, <2>13
<1> QED BY <1>a, <1>b, <1>c, <1>d, <1>e, <1>f, <1>g, <1>h DEF WindowInv

LEMMA NextWindow ==
    ASSUME WindowInv, BudgetInv, [Next]_vars
    PROVE  WindowInv'
<1>1. attemptCount \in Nat /\ (pc = "session" => attemptCount > 0)
  <2>1. attemptCount \in Nat BY BudgetSums, MaxAttemptsType, EndpointsAssumption DEF BudgetInv, PolicyTypes
  <2> QED BY <2>1 DEF BudgetInv, Budget, InAttempt
<1> DEFINE Same == UNCHANGED <<attemptCount, retainedCatalog, retained, replay, source, delivered, before,
                     dropped>>
<1>2. Same => WindowInv' BY UnchangedKeepsWindow
<1>3. CASE PublishThread
  <2>1. CASE AttemptCancelled BY <1>2, <2>1 DEF AttemptCancelled, windowVars
  <2>2. CASE StartAttempt BY <1>1, <2>2, StartKeepsWindow
  <2>3. CASE EnterPublish BY <1>2, <2>3 DEF EnterPublish, windowVars, historyVars
  <2>4. CASE SetActiveSession BY <1>2, <2>4 DEF SetActiveSession, windowVars
  <2>5. CASE FinishConnect BY <1>2, <2>5 DEF FinishConnect, windowVars
  <2>6. CASE RetryWaitOver BY <1>2, <2>6 DEF RetryWaitOver, windowVars, historyVars
  <2> QED BY <1>3, <2>1, <2>2, <2>3, <2>4, <2>5, <2>6 DEF PublishThread
<1>4. CASE NextReplayed BY <1>4, ReplayedKeepsWindow
<1>5. ASSUME NEW kind \in Kinds, NextFromSource(kind) PROVE WindowInv'
  <2>1. pc = "session" BY <1>5 DEF NextFromSource
  <2> QED BY <1>1, <1>5, <2>1, SourceKeepsWindow
<1>6. ASSUME NEW kind \in SessionOutcomes, SessionEnds(kind) PROVE WindowInv'
  BY <1>2, <1>6 DEF SessionEnds, windowVars
<1>7. CASE SignalStop BY <1>2, <1>7 DEF SignalStop, windowVars, historyVars
<1>8. CASE MonitorSeesSignal BY <1>2, <1>8 DEF MonitorSeesSignal, windowVars, historyVars
<1>9. CASE Disconnect BY <1>2, <1>9 DEF Disconnect, windowVars, historyVars
<1>10. CASE MonitorEnds BY <1>2, <1>10 DEF MonitorEnds, windowVars, historyVars
<1>11. CASE SourceFinishes BY <1>2, <1>11 DEF SourceFinishes, windowVars, historyVars
<1>12. CASE UNCHANGED vars BY <1>2, <1>12 DEF vars, windowVars, historyVars
<1> QED BY <1>3, <1>4, <1>5, <1>6, <1>7, <1>8, <1>9, <1>10, <1>11, <1>12 DEF Next

(* ---- the end of the source ---- *)

\* A publish reports success without a stop only from a finished session.
LEMMA NextDrained ==
    ASSUME EndDrained, StopsForSignal, [Next]_vars
    PROVE  EndDrained'
<1>1. (UNCHANGED <<pc, status, replay, stopSignal>>) => EndDrained' BY DEF EndDrained
<1>2. ASSUME NEW kind, AttemptReturns(kind), status' = "ok" PROVE kind = "ok"
  BY <1>2 DEF AttemptReturns, Reported
<1>3. pc' # "done" => EndDrained' BY DEF EndDrained
<1>4. stopRequested /\ stopSignal' = stopSignal => EndDrained' BY DEF EndDrained, StopsForSignal
<1>5. status' # "ok" => EndDrained' BY DEF EndDrained
<1>6. CASE PublishThread
  <2>1. CASE AttemptCancelled BY <1>2, <1>5, <2>1 DEF AttemptCancelled
  <2>2. CASE StartAttempt BY <1>3, <2>2 DEF StartAttempt
  <2>3. CASE EnterPublish BY <1>3, <2>3 DEF EnterPublish
  <2>4. CASE SetActiveSession BY <1>3, <1>4, <2>4 DEF SetActiveSession
  <2>5. CASE FinishConnect
    <3>1. stopSignal' = stopSignal BY <2>5 DEF FinishConnect
    <3>2. stopRequested \/ AttemptReturns("retryable") \/ pc' = "session" BY <2>5 DEF FinishConnect
    <3> QED BY <1>2, <1>3, <1>4, <1>5, <3>1, <3>2
  <2>6. CASE RetryWaitOver BY <1>3, <2>6 DEF RetryWaitOver
  <2> QED BY <1>6, <2>1, <2>2, <2>3, <2>4, <2>5, <2>6 DEF PublishThread
<1>7. CASE NextReplayed
  <2>1. pc' = pc /\ pc = "session" BY <1>7 DEF NextReplayed, policyVars
  <2> QED BY <1>3, <2>1
<1>8. ASSUME NEW kind \in Kinds, NextFromSource(kind) PROVE EndDrained'
  <2>1. pc' = pc /\ pc = "session" BY <1>8 DEF NextFromSource, policyVars
  <2> QED BY <1>3, <2>1
<1>9. ASSUME NEW kind \in SessionOutcomes, SessionEnds(kind) PROVE EndDrained'
  <2>1. /\ kind = "ok" => IsFinished
        /\ AttemptReturns(IF stopRequested THEN "ok" ELSE kind)
        /\ replay' = replay /\ stopSignal' = stopSignal
    BY <1>9 DEF SessionEnds, windowVars
  <2>2. CASE stopRequested BY <1>4, <2>1, <2>2
  <2>3. CASE ~stopRequested
    <3>1. status' = "ok" => kind = "ok" BY <1>2, <2>1, <2>3
    <3>2. status' = "ok" => replay' = <<>> BY <2>1, <3>1 DEF IsFinished
    <3> QED BY <3>2 DEF EndDrained
  <2> QED BY <2>2, <2>3
<1>10. CASE SignalStop BY <1>10 DEF SignalStop, EndDrained
<1>11. CASE MonitorSeesSignal BY <1>1, <1>11 DEF MonitorSeesSignal, windowVars, policyVars
<1>12. CASE Disconnect BY <1>1, <1>12 DEF Disconnect, windowVars, policyVars
<1>13. CASE MonitorEnds BY <1>1, <1>13 DEF MonitorEnds, windowVars, policyVars
<1>14. CASE SourceFinishes BY <1>1, <1>14 DEF SourceFinishes, windowVars, policyVars
<1>15. CASE UNCHANGED vars BY <1>1, <1>15 DEF vars, windowVars, policyVars
<1> QED BY <1>6, <1>7, <1>8, <1>9, <1>10, <1>11, <1>12, <1>13, <1>14, <1>15 DEF Next

(* ---- the theorem ---- *)

\* The inductive invariant.
Inv == BudgetInv /\ StopInv /\ WindowInv /\ EndDrained

\* Objects come in order, and each only after all that was due before it.
LEMMA HandedInOrder == WindowInv => ReplayIsExact
<1> SUFFICES ASSUME WindowInv PROVE ReplayIsExact OBVIOUS
<1>1. InSequence /\ DueHanded BY DEF WindowInv
<1>2. /\ DOMAIN source = 1..Len(source)
      /\ Len(delivered) \in Nat /\ DOMAIN delivered = 1..Len(delivered)
      /\ \A i \in DOMAIN delivered : delivered[i] \in 1..Len(source)
      /\ DOMAIN replay = 1..Len(replay)
  BY WindowFacts DEF WindowInv
<1>3. /\ \A i, j \in DOMAIN delivered :
            i < j /\ IsMedia(delivered[i]) /\ IsMedia(delivered[j])
                => delivered[i] < delivered[j]
      /\ \A i \in DOMAIN delivered, j \in DOMAIN replay :
            IsMedia(delivered[i]) /\ IsMedia(replay[j]) => delivered[i] < replay[j]
  BY <1>1 DEF InSequence
<1>4. ASSUME ~dropped, NEW i \in DOMAIN delivered, IsMedia(delivered[i])
      PROVE  /\ delivered[i] \in Due
             /\ \A p \in Due : p < delivered[i] => \E j \in 1..i - 1 : delivered[j] = p
  <2>1. \A p \in DOMAIN source :
          p \in Due <=> IsMedia(p) /\ p \in Range(delivered) \cup Range(replay)
    BY <1>1, <1>4 DEF DueHanded
  <2>2. delivered[i] \in Due
    <3>1. delivered[i] \in DOMAIN source /\ delivered[i] \in Range(delivered) BY <1>2 DEF Range
    <3> QED BY <1>4, <2>1, <3>1
  <2>3. ASSUME NEW p \in Due, p < delivered[i] PROVE \E j \in 1..i - 1 : delivered[j] = p
    <3>1. p \in 1..Len(source) /\ IsMedia(p) BY DEF Due, MediaUpTo
    <3>2. p \in Range(delivered) \cup Range(replay) BY <1>2, <2>1, <3>1
    <3>3. p \in Int /\ delivered[i] \in Int BY <1>2, <3>1
    <3>4. p \notin Range(replay)
      <4> SUFFICES ASSUME NEW j \in DOMAIN replay, p = replay[j] PROVE FALSE BY DEF Range
      <4>1. delivered[i] < p BY <1>3, <1>4, <3>1
      <4> QED BY <2>3, <3>3, <4>1
    <3>5. PICK j \in DOMAIN delivered : p = delivered[j] BY <3>2, <3>4 DEF Range
    <3>6. i < j => delivered[i] < p BY <1>3, <1>4, <3>1, <3>5
    <3>7. ~(i < j) /\ i # j BY <2>3, <3>3, <3>5, <3>6
    <3>8. j \in 1..i - 1 BY <1>2, <3>7
    <3> QED BY <3>5, <3>8
  <2> QED BY <2>2, <2>3
<1> QED BY <1>3, <1>4 DEF ReplayIsExact

LEMMA NewestCatalogFirst == WindowInv => CatalogFirst
<1> SUFFICES ASSUME WindowInv PROVE CatalogFirst OBVIOUS
<1> DEFINE C == {p \in 1..before : ~IsMedia(p)}
<1> SUFFICES ASSUME attemptCount > 1, C # {}, delivered # <<>>
             PROVE  delivered[1] = Max(C)
  BY DEF CatalogFirst
<1>1. before \in Nat BY WindowFacts DEF WindowInv
<1>2. C \in SUBSET (1..before) OBVIOUS
<1>3. \A p \in 1..before : p \in C <=> ~IsMedia(p) OBVIOUS
<1> HIDE DEF C
<1>4. Max(C) \in C /\ \A y \in C : y <= Max(C) BY <1>1, <1>2, PlaceExtremes
<1>5. Max(C) \in 1..before /\ ~IsMedia(Max(C)) BY <1>2, <1>3, <1>4
<1>6. \A p \in 1..before : p > Max(C) => IsMedia(p) BY <1>1, <1>3, <1>4, <1>5
<1>7. CatalogLeads BY DEF WindowInv
<1> QED BY <1>5, <1>6, <1>7 DEF CatalogLeads

LEMMA DueIsHanded == WindowInv /\ EndDrained => EofDrainsReplay
<1> SUFFICES ASSUME WindowInv, EndDrained, pc = "done", status = "ok", ~stopSignal,
                    ~dropped, NEW p \in Due
             PROVE  p \in Range(delivered)
  BY DEF EofDrainsReplay
<1>1. replay = <<>> BY DEF EndDrained
<1>2. Range(replay) = {} BY <1>1 DEF Range
<1>3. p \in DOMAIN source
  <2>1. p \in 1..Len(source) BY DEF Due, MediaUpTo
  <2> QED BY <2>1, WindowFacts DEF WindowInv
<1>4. DueHanded BY DEF WindowInv
<1> QED BY <1>2, <1>3, <1>4 DEF DueHanded

LEMMA InvImplies == Inv => ReplaySound
<1> SUFFICES ASSUME Inv PROVE ReplaySound OBVIOUS
<1>1. BudgetInv /\ StopInv /\ WindowInv /\ EndDrained BY DEF Inv
<1>2. TypeOK BY <1>1, TypeParts DEF BudgetInv, StopInv, WindowInv
<1>3. FailoverOrder BY <1>1, OrderParts DEF BudgetInv
<1>4. ReplayIsExact /\ CatalogFirst /\ EofDrainsReplay
  BY <1>1, HandedInOrder, NewestCatalogFirst, DueIsHanded
<1>5. BufferBounded BY <1>1, RetainedBounded DEF BufferBounded
<1> QED BY <1>2, <1>3, <1>4, <1>5 DEF ReplaySound

\* Whatever mixture of failures, replays, stops and ends of the source the
\* publish goes through: each session is handed the newest catalog and then the
\* media from the resume point on, in order and whole; what is kept for the next
\* one is bounded; and endpoints are left in order, each after its whole budget
\* or a permanent failure (publish_with_failover, begin_attempt, next_object).
THEOREM RetryResumesExactly == Spec => []ReplaySound
<1>1. Init => Inv
  <2>1. Init => EndDrained BY DEF Init, EndDrained
  <2> QED BY <2>1, InitBudget, InitStops, InitWindow DEF Inv
<1>2. Inv /\ [Next]_vars => Inv'
  <2> SUFFICES ASSUME Inv, [Next]_vars PROVE Inv' OBVIOUS
  <2>1. BudgetInv /\ StopInv /\ WindowInv /\ EndDrained /\ StopsForSignal BY DEF Inv, StopInv
  <2>2. BudgetInv' /\ StopInv' BY <2>1, NextBudget, NextStops
  <2>3. WindowInv' BY <2>1, NextWindow
  <2>4. EndDrained' BY <2>1, NextDrained
  <2> QED BY <2>2, <2>3, <2>4 DEF Inv
<1> QED BY <1>1, <1>2, InvImplies, PTL DEF Spec

(* ---- sessions of a publish ---- *)

\* The records of a publish.
Publishes ==
  [pc : {"attempt", "register", "libmoq", "create", "connect", "connected", "run", "close",
         "migrate", "failed", "stopped", "over"},
   attempt : Nat, migrations : Nat, then : {"", "stopped", "failed", "migrate"},
   kind : {"ok", "fatal", "retryable", "permanent"}]
Guarded ==
  [stop : BOOLEAN, active : Nat, handle : {"none", "set", "cancelled"}, objects : Nat]
Sessions ==
  [connecting : BOOLEAN, up : BOOLEAN, close : {"no", "publisher", "disconnect", "closed"}]
Runs ==
  [phase : {"floors", "refused", "setup", "read", "live"}, pending : Seq(Nat),
   saved : Seq(Nat), hand : Nat, floor : Nat, group : Nat \cup {-1}, next : Nat, handed : Seq(Nat),
   media : BOOLEAN, objects : Nat]
Works ==
  [bytes : Seq(Nat), floor : Nat, catalog : Nat, prior : Nat, seen : BOOLEAN,
   whole : BOOLEAN, chain : Seq(Nat), replay : Nat]
Resumes == [bytes : Seq(Nat), floor : Nat, catalog : Nat]
Sources == [at : Nat, objects : Seq({"base", "delta", "stray", "media"})]
Disconnects == [pc : {"idle", "close"}, session : Nat, calls : Nat]
Histories ==
  [media : Seq(Nat \X Nat \X Nat), catalogs : Seq(Nat \X Nat), lost : SUBSET Nat,
   failed : SUBSET Nat, skipped : SUBSET Nat, objects : Nat]

LifecycleTypes ==
  /\ scenario \in Scenarios /\ pub \in Publishes /\ shared \in Guarded
  /\ ses \in Seq(Sessions) /\ run \in Runs /\ work \in Works /\ resume \in Resumes
  /\ src \in Sources /\ disc \in Disconnects /\ hist \in Histories

\* The publish closes its session, or has closed it, to go on as then says.
Leaves(then) == At(then) \/ (At("close") /\ pub.then = then)

\* Sessions are made one after the other; the one that connects is closed by
\* nobody, those before it are closed by now.
SessionsKnown ==
  /\ pub.pc \in {"connect", "connected", "run", "close", "failed", "stopped", "migrate"} =>
       Current > 0
  /\ pub.pc \in {"connect", "connected"} => ses[Current].connecting
  /\ \A n \in DOMAIN ses :
       /\ ses[n].connecting => /\ n = Current /\ pub.pc \in {"connect", "connected"}
                               /\ ses[n].close = "no"
       /\ n < Current /\ ses[n].up => ses[n].close = "closed"
  /\ pub.pc \in {"attempt", "create", "failed", "stopped", "migrate"} /\ Current > 0 =>
       (ses[Current].up => ses[Current].close = "closed")
  /\ At("close") => pub.then # ""
  /\ pub.pc \in {"register", "libmoq"} => Libmoq
  /\ Libmoq => ses = <<>> /\ pub.pc \in {"attempt", "register", "libmoq", "over"}

\* The session disconnect() may close, and the one it is closing.
ActiveKnown ==
  /\ shared.active \in {0, Current}
  /\ pub.pc \in {"attempt", "create", "register", "libmoq"} => shared.active = 0
  /\ pub.pc \in {"connect", "connected"} => shared.active = Current
  /\ disc.pc = "close" => disc.session \in DOMAIN ses /\ ~ses[disc.session].connecting
  /\ pub.pc \in {"run", "over"} =>
       /\ Current > 0 /\ ses[Current].up /\ ses[Current].close # "closed" => shared.active = Current
       /\ shared.stop /\ shared.active # 0 => disc.pc = "close" /\ disc.session = shared.active
  /\ shared.stop => disc.calls > 0

\* Nothing is kept of a session that is over, and what it counted is.
CountsKnown ==
  /\ ~At("run") => run = NoSession
  /\ Leaves("stopped") => disc.calls > 0
  /\ Leaves("failed") => pub.kind # "ok"
  /\ pub.pc \in {"create", "connect", "connected", "run"} \/ Leaves("migrate") =>
       work.prior + run.objects = hist.objects
  /\ At("over") /\ pub.kind = "ok" /\ disc.calls = 0 /\ ~Libmoq => shared.objects = hist.objects

LifecycleInv == SessionsKnown /\ ActiveKnown /\ CountsKnown

(* ---- what the next session continues ---- *)

\* A session runs, or the publish makes one without trying again.
Carries ==
  pub.pc \in {"create", "connect", "connected", "run"} \/ Leaves("migrate")

\* Another session may be made.
Continues ==
  At("attempt") \/ Carries \/ (Leaves("failed") /\ pub.kind = "retryable")

Underway == At("run") /\ run.phase \in {"setup", "read", "live"}

\* The first free groups, and the fragments that were read and not sent.
FreeMedia == IF Underway THEN run.group + 1 ELSE resume.floor
FreeCatalog == IF Underway THEN run.next ELSE resume.catalog
HeldInput == IF At("run") /\ run.phase \in {"read", "live"} THEN run.pending ELSE Rest(resume.bytes)

MediaBelow(group) == \A i \in DOMAIN hist.media : hist.media[i][2] < group
CatalogsBelow(group) == \A i \in DOMAIN hist.catalogs : hist.catalogs[i][2] < group
SentUpTo(n) ==
  /\ \A i \in DOMAIN hist.media : hist.media[i][1] <= n
  /\ \A i \in DOMAIN hist.catalogs : hist.catalogs[i][1] <= n

\* Groups in use are below the free ones.
GroupsKnown ==
  /\ hist.media # <<>> \/ hist.catalogs # <<>> \/ run.phase # "floors" => Fragments
  /\ GroupsNeverReused
  /\ SentUpTo(Current)
  /\ Continues /\ Fragments => MediaBelow(FreeMedia) /\ CatalogsBelow(FreeCatalog)
  /\ pub.pc \in {"connect", "connected"} \/ (At("run") /\ ~Underway) =>
       SentUpTo(Current - 1)
  /\ Underway => \A i \in DOMAIN hist.media :
                 hist.media[i][1] < Current => hist.media[i][2] < run.floor
  /\ Carries /\ Fragments =>
       work.bytes = resume.bytes /\ work.floor = resume.floor /\ work.catalog = resume.catalog

\* Positions of the input, in order and after all that was sent.
Unsent(list) ==
  /\ \A k \in DOMAIN list : list[k] \in 1..src.at
  /\ \A k, l \in DOMAIN list : k < l => list[k] < list[l]
  /\ \A k \in DOMAIN list, i \in DOMAIN hist.media : hist.media[i][3] < list[k]

SentFragments == {hist.media[i][3] : i \in DOMAIN hist.media}

\* What no session sends any more.
Passed == hist.skipped \cup hist.failed \cup hist.lost

\* What was read of the input was sent, was passed over, is held, or is the
\* fragment that was taken to be sent.
InputKnown ==
  /\ \A i, j \in DOMAIN hist.media : i < j => hist.media[i][3] < hist.media[j][3]
  /\ \A i \in DOMAIN hist.media : /\ hist.media[i][3] <= src.at
                                  /\ 1..hist.media[i][3] \subseteq SentFragments \cup Passed
  /\ Continues /\ Fragments =>
       /\ Unsent(HeldInput)
       /\ 1..src.at \subseteq SentFragments \cup Passed \cup {HeldInput[k] : k \in DOMAIN HeldInput}
                       \cup {run.hand}
  /\ At("run") =>
       CASE run.phase = "live" -> run.saved = run.pending
         [] run.phase = "read" -> Unsent(run.saved)
         [] OTHER -> run.saved = NoBytes
  /\ run.hand # 0 =>
       /\ run.phase = "live" /\ run.hand \in 1..src.at
       /\ \A i \in DOMAIN hist.media : hist.media[i][3] < run.hand
       /\ \A k \in DOMAIN run.pending : run.hand < run.pending[k]

\* The chain of the source's catalog that is kept, and what of it the
\* running session was handed.
GivenCatalogs == {i \in DOMAIN src.objects : src.objects[i] # "media"}

\* list holds the catalog objects from its first one on.
RunsOn(list) ==
  /\ {list[k] : k \in DOMAIN list} = {i \in GivenCatalogs : i >= list[1]}
  /\ \A k, l \in DOMAIN list : k < l => list[k] < list[l]

\* What a session was handed begins with the first catalog object or a base.
HandedKnown ==
  IF GivenCatalogs = {} THEN run.handed = <<>>
  ELSE /\ run.handed # <<>> /\ RunsOn(run.handed)
       /\ \/ \A i \in GivenCatalogs : run.handed[1] <= i
          \/ src.objects[run.handed[1]] = "base"

FirstTry == Objects /\ scenario.draft22 /\ pub.attempt = 1

CatalogKept ==
  /\ pub.attempt > 0
  /\ FirstTry =>
       /\ At("attempt") => src.objects = <<>>
       /\ Carries =>
            /\ work.seen <=> GivenCatalogs # {}
            /\ work.whole <=> work.chain # <<>>
            /\ work.chain # <<>> => RunsOn(work.chain) /\ src.objects[work.chain[1]] = "base"
       /\ pub.pc \in {"create", "connect", "connected"} =>
            GivenCatalogs = {} \/ (work.chain # <<>> /\ work.replay = 1)
       /\ At("run") =>
            IF Replays
            THEN /\ Len(run.handed) = work.replay - 1 /\ ~run.media
                 /\ \A k \in DOMAIN run.handed : run.handed[k] = work.chain[k]
            ELSE HandedKnown

ResumeInv == GroupsKnown /\ InputKnown /\ CatalogKept

Outcomes == {"ok", "fatal", "retryable", "permanent"}

LEMMA Bounds ==
  /\ Attempts \in Nat \ {0} /\ MaxMigrations \in Nat /\ MaxGroupId \in Nat
  /\ InitialGroupId \in Nat /\ MaxReplay \in Nat /\ MaxDisconnects \in Nat
  BY LifecycleAssumption

LEMMA LargerOfTwo ==
    ASSUME NEW a \in Nat, NEW b \in Nat
    PROVE  Max({a, b}) \in Nat /\ Max({a, b}) = IF a <= b THEN b ELSE a
<1>1. CASE a <= b
  <2>1. \A y \in {a, b} : y <= b BY <1>1
  <2> QED BY <1>1, <2>1, ExtremesAre
<1>2. CASE ~(a <= b)
  <2>1. \A y \in {a, b} : y <= a BY <1>2
  <2> QED BY <1>2, <2>1, ExtremesAre
<1> QED BY <1>1, <1>2

LEMMA MigrationCounted ==
    ASSUME NEW q \in Publishes
    PROVE  /\ [q EXCEPT !.migrations = @ + 1] \in Publishes
           /\ [q EXCEPT !.migrations = @ + 1].pc = q.pc
           /\ [q EXCEPT !.migrations = @ + 1].attempt = q.attempt
           /\ [q EXCEPT !.migrations = @ + 1].then = q.then
           /\ [q EXCEPT !.migrations = @ + 1].kind = q.kind
<1>1. q.migrations \in Nat BY DEF Publishes
<1>2. q.migrations + 1 \in Nat BY <1>1
<1> DEFINE m == q.migrations + 1
<1> HIDE DEF m
<1>3. [q EXCEPT !.migrations = m] \in Publishes BY <1>2 DEF Publishes, m
<1>4. [q EXCEPT !.migrations = @ + 1] = [q EXCEPT !.migrations = m] BY DEF m
<1> QED BY <1>3, <1>4 DEF Publishes

LEMMA ReturnedFacts ==
    ASSUME NEW q \in Publishes, NEW kind \in Outcomes
    PROVE  /\ Returned(q, kind) \in Publishes /\ Returned(q, kind).then = q.then
           /\ \/ /\ kind = "retryable" /\ Returned(q, kind).pc = "attempt"
                 /\ Returned(q, kind).attempt = q.attempt + 1
              \/ /\ Returned(q, kind).pc = "over" /\ Returned(q, kind).kind = kind
                 /\ Returned(q, kind).attempt = q.attempt
<1>1. CASE kind = "retryable" /\ q.attempt < Attempts
  <2> DEFINE m == q.attempt + 1
  <2>0. q.attempt \in Nat BY DEF Publishes
  <2>1. m \in Nat BY <2>0
  <2>2. Returned(q, kind) = [q EXCEPT !.pc = "attempt", !.attempt = m] BY <1>1 DEF Returned
  <2> HIDE DEF m
  <2>3. Returned(q, kind) \in Publishes BY <2>1, <2>2 DEF Publishes
  <2>4. Returned(q, kind).then = q.then /\ Returned(q, kind).pc = "attempt"
        /\ Returned(q, kind).attempt = m
    BY <2>2 DEF Publishes
  <2> QED BY <1>1, <2>3, <2>4 DEF m
<1>2. CASE ~(kind = "retryable" /\ q.attempt < Attempts)
  <2>1. Returned(q, kind) = [q EXCEPT !.pc = "over", !.kind = kind] BY <1>2 DEF Returned
  <2> QED BY <2>1 DEF Publishes, Outcomes
<1> QED BY <1>1, <1>2

LEMMA ClosingFacts ==
    ASSUME NEW q \in Publishes, NEW then \in {"stopped", "failed", "migrate"}
    PROVE  /\ Closing(q, then) \in Publishes /\ Closing(q, then).then = then
           /\ Closing(q, then).kind = q.kind /\ Closing(q, then).attempt = q.attempt
           /\ Closing(q, then).pc = IF ses[Current].up THEN "close" ELSE then
  BY DEF Publishes, Closing

LEMMA GoFacts ==
    ASSUME NEW q \in Publishes,
           NEW next \in {"register", "libmoq", "create", "connect", "connected", "run", "close",
                         "migrate", "failed", "stopped"}
    PROVE  /\ Go(q, next) \in Publishes /\ Go(q, next).pc = next /\ Go(q, next).then = q.then
           /\ Go(q, next).kind = q.kind /\ Go(q, next).attempt = q.attempt
  BY DEF Publishes, Go

LEMMA ClearedFacts ==
    ASSUME LifecycleTypes
    PROVE  /\ Cleared \in Guarded /\ Cleared.stop = shared.stop /\ Cleared.objects = shared.objects
           /\ Cleared.active = IF shared.active = Current THEN 0 ELSE shared.active
  BY DEF LifecycleTypes, Guarded, Cleared

LEMMA Empties == NoSession \in Runs /\ NoWork \in Works /\ NoResume \in Resumes
  BY DEF NoSession, NoWork, NoResume, NoBytes, Runs, Works, Resumes

\* The sessions made so far.
LEMMA SessionFacts ==
    ASSUME LifecycleTypes
    PROVE  /\ Current \in Nat /\ DOMAIN ses = 1..Current
           /\ \A n \in DOMAIN ses : ses[n] \in Sessions
           /\ Current > 0 => Current \in DOMAIN ses
  BY LenProperties, ElementOfSeq DEF LifecycleTypes, Current

\* Session n becomes r; the others stay.
Became(n, r) ==
  /\ ses' \in Seq(Sessions) /\ Len(ses') = Len(ses) /\ DOMAIN ses' = DOMAIN ses
  /\ ses'[n] = r /\ \A m \in DOMAIN ses : m # n => ses'[m] = ses[m]

LEMMA SessionChanges ==
    ASSUME LifecycleTypes, NEW n \in DOMAIN ses, NEW r \in Sessions, ses' = [ses EXCEPT ![n] = r]
    PROVE  Became(n, r)
<1>1. ses \in Seq(Sessions) /\ DOMAIN ses = 1..Len(ses) BY LenProperties DEF LifecycleTypes
<1>2. ses' \in Seq(Sessions) /\ Len(ses') = Len(ses) BY <1>1, ExceptSeq
<1> QED BY <1>1, <1>2 DEF Became

\* CloseBegins and CloseEnds of a session.
LEMMA ClosesFacts ==
    ASSUME LifecycleTypes, NEW n \in DOMAIN ses, NEW who \in {"publisher", "disconnect"},
           CloseBegins(n, who) \/ CloseEnds(n, who)
    PROVE  \E close \in {"publisher", "disconnect", "closed"} :
             /\ Became(n, [connecting |-> ses[n].connecting, up |-> ses[n].up, close |-> close])
             /\ ses[n].close # "closed"
             /\ close = "closed" => ses[n].close = who
             /\ close # "closed" => ses[n].close = "no" /\ close = who
<1>1. ses[n] \in Sessions BY SessionFacts
<1> DEFINE r(close) == [connecting |-> ses[n].connecting, up |-> ses[n].up, close |-> close]
<1>2. CASE CloseBegins(n, who)
  <2>1. r(who) \in Sessions /\ [ses[n] EXCEPT !.close = who] = r(who) BY <1>1 DEF Sessions
  <2>2. ses' = [ses EXCEPT ![n] = [ses[n] EXCEPT !.close = who]] BY <1>2 DEF CloseBegins
  <2> HIDE DEF r
  <2>3. Became(n, r(who)) BY <2>1, <2>2, SessionChanges
  <2> QED BY <1>2, <2>3 DEF CloseBegins, r
<1>3. CASE CloseEnds(n, who)
  <2>1. r("closed") \in Sessions /\ [ses[n] EXCEPT !.close = "closed"] = r("closed") BY <1>1 DEF Sessions
  <2>2. ses' = [ses EXCEPT ![n] = [ses[n] EXCEPT !.close = "closed"]] BY <1>3 DEF CloseEnds
  <2> HIDE DEF r
  <2>3. Became(n, r("closed")) BY <2>1, <2>2, SessionChanges
  <2> QED BY <1>3, <2>3 DEF CloseEnds, r
<1> QED BY <1>2, <1>3

\* A session connects, or not, and is taken up.
LEMMA ConnectsFacts ==
    ASSUME LifecycleTypes, LifecycleInv, Connects
    PROVE  \E up \in BOOLEAN :
             Became(Current, [connecting |-> ses[Current].connecting, up |-> up,
                              close |-> ses[Current].close])
<1>1. Current \in DOMAIN ses /\ ses[Current] \in Sessions
  BY SessionFacts DEF LifecycleInv, SessionsKnown, Connects, At
<1>2. PICK up \in BOOLEAN : ses' = [ses EXCEPT ![Current].up = up] BY DEF Connects
<1> DEFINE r == [connecting |-> ses[Current].connecting, up |-> up, close |-> ses[Current].close]
<1>3. r \in Sessions /\ [ses[Current] EXCEPT !.up = up] = r BY <1>1 DEF Sessions
<1>4. ses' = [ses EXCEPT ![Current] = [ses[Current] EXCEPT !.up = up]] BY <1>2
<1> QED BY <1>1, <1>3, <1>4, SessionChanges

LEMMA FinishesFacts ==
    ASSUME LifecycleTypes, LifecycleInv, ConnectFinishes
    PROVE  Became(Current, [connecting |-> FALSE, up |-> ses[Current].up,
                            close |-> ses[Current].close])
<1>1. Current \in DOMAIN ses /\ ses[Current] \in Sessions
  BY SessionFacts DEF LifecycleInv, SessionsKnown, ConnectFinishes, At
<1>2. ses' = [ses EXCEPT ![Current].connecting = FALSE] BY DEF ConnectFinishes
<1> DEFINE r == [connecting |-> FALSE, up |-> ses[Current].up, close |-> ses[Current].close]
<1>3. r \in Sessions /\ [ses[Current] EXCEPT !.connecting = FALSE] = r
  <2> DEFINE s == ses[Current]
  <2>1. s \in Sessions BY <1>1
  <2> HIDE DEF s
  <2>2. ASSUME NEW b \in BOOLEAN
        PROVE  /\ [connecting |-> b, up |-> s.up, close |-> s.close] \in Sessions
               /\ [s EXCEPT !.connecting = b] = [connecting |-> b, up |-> s.up, close |-> s.close]
    BY <2>1 DEF Sessions
  <2> QED BY <2>2 DEF s
<1>4. ses' = [ses EXCEPT ![Current] = [ses[Current] EXCEPT !.connecting = FALSE]] BY <1>2
<1> QED BY <1>1, <1>3, <1>4, SessionChanges

LEMMA RestTyped == ASSUME NEW b \in Seq(Nat) PROVE Rest(b) \in Seq(Nat)
  BY DEF Rest

LEMMA EmptyTyped == \A S : <<>> \in Seq(S)
  BY EmptySeq

LEMMA LifecycleInitial == LifecycleInit => LifecycleTypes /\ LifecycleInv
<1> SUFFICES ASSUME LifecycleInit PROVE LifecycleTypes /\ LifecycleInv OBVIOUS
<1>0. ses = <<>> /\ pub.pc = "attempt" /\ shared.active = 0 /\ shared.stop = FALSE
      /\ disc.pc = "idle" /\ run = NoSession /\ scenario \in Scenarios
  BY DEF LifecycleInit
<1>1. LifecycleTypes
  <2>1. pub \in Publishes BY DEF LifecycleInit, Publishes
  <2>2. shared \in Guarded BY DEF LifecycleInit, Guarded
  <2>3. src \in Sources BY EmptyTyped DEF LifecycleInit, Sources
  <2>4. disc \in Disconnects BY DEF LifecycleInit, Disconnects
  <2>5. hist \in Histories BY EmptyTyped DEF LifecycleInit, Histories
  <2>6. ses \in Seq(Sessions) /\ run \in Runs /\ work \in Works /\ resume \in Resumes
    BY <1>0, Empties, EmptyTyped DEF LifecycleInit
  <2> QED BY <1>0, <2>1, <2>2, <2>3, <2>4, <2>5, <2>6 DEF LifecycleTypes
<1>2. DOMAIN ses = {} /\ Current = 0 BY <1>0 DEF Current
<1>3. SessionsKnown BY <1>0, <1>2 DEF SessionsKnown, At
<1>4. ActiveKnown BY <1>0, <1>2 DEF ActiveKnown
<1>5. CountsKnown BY <1>0 DEF CountsKnown, At, Leaves
<1> QED BY <1>1, <1>3, <1>4, <1>5 DEF LifecycleInv

(* ---- steps and types ---- *)

\* Steps of the thread that publishes, apart from those inside a session.
LEMMA ThreadTypes ==
    ASSUME LifecycleTypes, LifecycleInv,
           Enter \/ Register \/ LibmoqReturns \/ SessionMade \/ Connects \/ ConnectFinishes
             \/ Migrate \/ Failed \/ Stopped \/ PublisherCloses
    PROVE  LifecycleTypes'
<1> USE DEF LifecycleTypes
<1>1. CASE Enter
  <2>1. shared' \in Guarded BY <1>1 DEF Enter, Guarded
  <2>2. pub' \in Publishes BY <1>1 DEF Enter, Publishes, Go
  <2>3. work' \in Works BY <1>1, Empties DEF Enter, Works, Resumes
  <2>4. hist' \in Histories BY <1>1 DEF Enter, Histories
  <2> QED BY <1>1, <2>1, <2>2, <2>3, <2>4 DEF Enter
<1>2. CASE Register
  <2>1. shared' \in Guarded BY <1>2 DEF Register, Guarded
  <2> QED BY <1>2, <2>1, GoFacts DEF Register
<1>3. CASE LibmoqReturns
  <2>1. shared' \in Guarded BY <1>3 DEF LibmoqReturns, Guarded
  <2>2. pub' \in Publishes BY <1>3, ReturnedFacts DEF LibmoqReturns, Outcomes
  <2> QED BY <1>3, <2>1, <2>2 DEF LibmoqReturns
<1>4. CASE SessionMade
  <2>1. CASE shared.stop BY <1>4, <2>1, ReturnedFacts DEF SessionMade, Outcomes
  <2>2. CASE ~shared.stop
    <3>1. [connecting |-> TRUE, up |-> FALSE, close |-> "no"] \in Sessions BY DEF Sessions
    <3>2. ses' \in Seq(Sessions) BY <1>4, <2>2, <3>1, AppendFacts DEF SessionMade
    <3>3. shared' \in Guarded
      <4>1. shared' = [stop |-> shared.stop, active |-> Current + 1, handle |-> shared.handle,
                       objects |-> 0]
        BY <1>4, <2>2 DEF SessionMade, Guarded
      <4> QED BY <4>1, SessionFacts DEF Guarded
    <3> QED BY <1>4, <2>2, <3>2, <3>3, Empties, GoFacts DEF SessionMade
  <2> QED BY <2>1, <2>2
<1>5. CASE Connects
  <2>1. ses' \in Seq(Sessions) BY <1>5, ConnectsFacts DEF Became
  <2> QED BY <1>5, <2>1, GoFacts DEF Connects
<1>6. CASE ConnectFinishes
  <2>1. ses' \in Seq(Sessions) BY <1>6, FinishesFacts DEF Became
  <2>2. pub' \in Publishes BY <1>6, ReturnedFacts, ClosingFacts, GoFacts DEF ConnectFinishes, Outcomes
  <2>3. shared' \in Guarded BY <1>6, ClearedFacts DEF ConnectFinishes
  <2> QED BY <1>6, <2>1, <2>2, <2>3 DEF ConnectFinishes
<1>7. CASE Migrate
  <2>1. pub' \in Publishes
    <3>1. Go(pub, "create") \in Publishes BY GoFacts
    <3>2. [Go(pub, "create") EXCEPT !.migrations = @ + 1] \in Publishes BY <3>1, MigrationCounted
    <3> QED BY <1>7, <3>2, ReturnedFacts DEF Migrate, Outcomes
  <2>2. work' \in Works
    <3>1. [work EXCEPT !.replay = 1] \in Works BY DEF Works
    <3> QED BY <1>7, <3>1 DEF Migrate
  <2> QED BY <1>7, <2>1, <2>2, ClearedFacts DEF Migrate
<1>8. CASE Failed
  <2>1. pub.kind \in Outcomes BY DEF Publishes, Outcomes
  <2> QED BY <1>8, <2>1, ClearedFacts, ReturnedFacts DEF Failed
<1>9. CASE Stopped BY <1>9, ClearedFacts, ReturnedFacts DEF Stopped, Outcomes
<1>10. CASE PublisherCloses
  <2>1. ses' \in Seq(Sessions)
    <3>1. Current \in DOMAIN ses BY <1>10, SessionFacts DEF PublisherCloses, At, LifecycleInv, SessionsKnown
    <3> QED BY <1>10, <3>1, ClosesFacts DEF PublisherCloses, Became
  <2>2. pub' \in Publishes
    <3>1. pub.then \in {"stopped", "failed", "migrate"}
      BY <1>10 DEF PublisherCloses, At, LifecycleInv, SessionsKnown, Publishes
    <3>2. Go(pub, pub.then) \in Publishes BY <3>1, GoFacts
    <3> QED BY <1>10, <3>2 DEF PublisherCloses
  <2> QED BY <1>10, <2>1, <2>2 DEF PublisherCloses
<1> QED BY <1>1, <1>2, <1>3, <1>4, <1>5, <1>6, <1>7, <1>8, <1>9, <1>10

LEMMA DisconnectTypes ==
    ASSUME LifecycleTypes, LifecycleInv, Disconnecting
    PROVE  LifecycleTypes'
<1> USE DEF LifecycleTypes
<1>1. CASE DisconnectCalled
  <2>1. shared' \in Guarded BY <1>1 DEF DisconnectCalled, Guarded
  <2>2. disc' \in Disconnects BY <1>1 DEF DisconnectCalled, Disconnects, Guarded
  <2> QED BY <1>1, <2>1, <2>2 DEF DisconnectCalled
<1>2. CASE DisconnectCloses
  <2>1. ses' \in Seq(Sessions)
    <3>1. disc.session \in DOMAIN ses BY <1>2 DEF DisconnectCloses, LifecycleInv, ActiveKnown
    <3> QED BY <1>2, <3>1, ClosesFacts DEF DisconnectCloses, Became
  <2> QED BY <1>2, <2>1 DEF DisconnectCloses
<1>3. CASE DisconnectEnds
  <2>1. shared' \in Guarded BY <1>3 DEF DisconnectEnds, Guarded
  <2>2. disc' \in Disconnects BY <1>3 DEF DisconnectEnds, Disconnects
  <2> QED BY <1>3, <2>1, <2>2 DEF DisconnectEnds
<1> QED BY <1>1, <1>2, <1>3 DEF Disconnecting

(* ---- steps of a session ---- *)

LEMMA FloorIs == ASSUME NEW own \in Nat PROVE Floor(own) \in Nat /\ Floor(own) >= own
  BY Bounds, LargerOfTwo DEF Floor

\* What a step leaves of the running session.
KeepsCatalogs == run'.handed = run.handed /\ run'.media = run.media
KeepsFragments ==
  run'.pending = run.pending /\ run'.saved = run.saved /\ run'.hand = run.hand
KeepsGroups == run'.floor = run.floor /\ run'.group = run.group /\ run'.next = run.next

LEMMA FloorsFacts ==
    ASSUME LifecycleTypes, Floors
    PROVE  /\ run' \in Runs /\ run'.objects = run.objects /\ KeepsCatalogs /\ KeepsFragments
           /\ \/ run'.phase = "refused" /\ KeepsGroups
              \/ /\ run'.phase = "setup" /\ run'.floor >= work.floor
                 /\ run'.group = run'.floor - 1 /\ run'.next >= work.catalog
<1>0. run \in Runs /\ work.floor \in Nat /\ work.catalog \in Nat BY DEF LifecycleTypes, Works
<1> DEFINE f == Floor(work.floor)  c == Floor(work.catalog)
<1>1. f \in Nat /\ f >= work.floor /\ c \in Nat /\ c >= work.catalog /\ f - 1 \in Nat \cup {-1}
  BY <1>0, FloorIs
<1>2. CASE run' = [run EXCEPT !.phase = "refused"]
  BY <1>0, <1>2 DEF Runs, KeepsCatalogs, KeepsFragments, KeepsGroups
<1>3. CASE run' = [run EXCEPT !.phase = "setup", !.floor = f, !.group = f - 1, !.next = c]
  <2> DEFINE g == f - 1
  <2>1. run' = [run EXCEPT !.phase = "setup", !.floor = f, !.group = g, !.next = c] BY <1>3
  <2>2. g \in Nat \cup {-1} /\ g = f - 1 BY <1>1
  <2> HIDE DEF f, c, g
  <2>3. run' \in Runs BY <1>0, <1>1, <2>1, <2>2 DEF Runs
  <2> QED BY <1>0, <1>1, <2>1, <2>2, <2>3 DEF Runs, KeepsCatalogs, KeepsFragments
<1> QED BY <1>2, <1>3 DEF Floors

LEMMA StartInputFacts ==
    ASSUME LifecycleTypes, StartInput
    PROVE  /\ run' \in Runs /\ run'.objects = run.objects /\ KeepsCatalogs /\ KeepsGroups
           /\ run'.phase = "live" /\ run'.pending = run.pending /\ run'.saved = run.pending
           /\ run'.hand = run.hand
  BY DEF LifecycleTypes, StartInput, Runs, KeepsCatalogs, KeepsGroups

LEMMA SendCatalogFacts ==
    ASSUME LifecycleTypes, SendCatalog
    PROVE  /\ run' \in Runs /\ run'.objects = run.objects + 1 /\ run'.phase = run.phase
           /\ KeepsCatalogs /\ KeepsFragments
           /\ run'.floor = run.floor /\ run'.group = run.group /\ run'.next = run.next + 1
           /\ hist' \in Histories /\ hist'.objects = hist.objects + 1
           /\ hist'.media = hist.media /\ Passed' = Passed
           /\ hist'.catalogs = Append(hist.catalogs, <<Current, run.next>>)
<1>0. run \in Runs /\ run.next \in Nat /\ run.objects \in Nat BY DEF LifecycleTypes, Runs
<1> DEFINE n == run.next + 1  o == run.objects + 1
<1>1. n \in Nat /\ o \in Nat BY <1>0
<1>2. run' = [run EXCEPT !.next = n, !.objects = o] BY DEF SendCatalog
<1>3. /\ run' \in Runs /\ run'.objects = o /\ run'.phase = run.phase
      /\ KeepsCatalogs /\ KeepsFragments
      /\ run'.floor = run.floor /\ run'.group = run.group /\ run'.next = n
  <2> HIDE DEF n, o
  <2> QED BY <1>0, <1>1, <1>2 DEF Runs, KeepsCatalogs, KeepsFragments
<1> DEFINE l == Append(hist.catalogs, <<Current, run.next>>)  m == hist.objects + 1
<1>4. hist \in Histories /\ hist.catalogs \in Seq(Nat \X Nat) /\ hist.objects \in Nat
  BY DEF LifecycleTypes, Histories
<1>5. <<Current, run.next>> \in Nat \X Nat BY <1>0, SessionFacts
<1>6. l \in Seq(Nat \X Nat) /\ m \in Nat BY <1>4, <1>5, AppendFacts
<1>7. hist' = [hist EXCEPT !.catalogs = l, !.objects = m] BY DEF SendCatalog
<1>8. /\ hist' \in Histories /\ hist'.objects = m /\ hist'.media = hist.media
      /\ Passed' = Passed /\ hist'.catalogs = l
  <2> HIDE DEF l, m
  <2> QED BY <1>4, <1>6, <1>7 DEF Histories, Passed
<1> QED BY <1>3, <1>8

LEMMA ReadInitFacts ==
    ASSUME LifecycleTypes, ReadInit
    PROVE  \E ahead \in Nat :
             /\ run' \in Runs /\ run'.objects = run.objects /\ KeepsCatalogs /\ KeepsGroups
             /\ run'.phase = "read" /\ run'.hand = run.hand /\ run'.saved = Rest(work.bytes)
             /\ run'.pending = Rest(work.bytes) \o [i \in 1..ahead |-> src.at + i]
             /\ src' \in Sources /\ src'.at = src.at + ahead /\ src'.objects = src.objects
<1>0. run \in Runs /\ src \in Sources /\ src.at \in Nat /\ Rest(work.bytes) \in Seq(Nat)
  BY RestTyped DEF LifecycleTypes, Sources, Works
<1>1. PICK ahead \in 0..Min({1, scenario.input - src.at}) :
        /\ run' = [run EXCEPT !.phase = "read", !.saved = Rest(work.bytes),
                     !.pending = Rest(work.bytes) \o [i \in 1..ahead |-> src.at + i]]
        /\ src' = [src EXCEPT !.at = @ + ahead]
  BY DEF ReadInit
<1>2. ahead \in Nat OBVIOUS
<1> DEFINE more == [i \in 1..ahead |-> src.at + i]
           all == Rest(work.bytes) \o more
           rest == Rest(work.bytes)
           at == src.at + ahead
<1>3. more \in Seq(Nat) BY <1>0, <1>2, IsASeq
<1>4. all \in Seq(Nat) BY <1>0, <1>3, ConcatProperties
<1>5. at \in Nat BY <1>0, <1>2
<1>6. run' = [run EXCEPT !.phase = "read", !.saved = rest, !.pending = all]
      /\ src' = [src EXCEPT !.at = at] /\ rest \in Seq(Nat)
  BY <1>0, <1>1
<1>7. /\ run' \in Runs /\ run'.objects = run.objects /\ KeepsCatalogs /\ KeepsGroups
      /\ run'.phase = "read" /\ run'.hand = run.hand /\ run'.saved = rest /\ run'.pending = all
  <2> HIDE DEF more, all, rest, at
  <2> QED BY <1>0, <1>4, <1>6 DEF Runs, KeepsCatalogs, KeepsGroups
<1>8. src' \in Sources /\ src'.at = at /\ src'.objects = src.objects
  <2> HIDE DEF more, all, rest, at
  <2> QED BY <1>0, <1>5, <1>6 DEF Sources
<1> QED BY <1>2, <1>7, <1>8

\* t is s without its element k.
Drops(t, s, k) ==
  /\ DOMAIN t = 1..Len(s) - 1
  /\ \A i \in 1..Len(s) - 1 : t[i] = s[IF i < k THEN i ELSE i + 1]

LEMMA RemoveAtFacts ==
    ASSUME NEW s \in Seq(Nat), NEW k \in DOMAIN s
    PROVE  RemoveAt(s, k) \in Seq(Nat) /\ Drops(RemoveAt(s, k), s, k)
<1>1. Len(s) \in Nat /\ DOMAIN s = 1..Len(s) /\ k \in 1..Len(s) /\ \A i \in 1..Len(s) : s[i] \in Nat
  BY LenProperties, ElementOfSeq
<1> DEFINE a == SubSeq(s, 1, k - 1)  b == SubSeq(s, k + 1, Len(s))
<1>2. /\ a \in Seq(Nat) /\ Len(a) = k - 1 /\ \A i \in 1..k - 1 : a[i] = s[i]
  <2>1. \A i \in 1..k - 1 : s[i] \in Nat BY <1>1
  <2>2. 1 \in Int /\ k - 1 \in Int BY <1>1
  <2>3. /\ a \in Seq(Nat) /\ Len(a) = IF 1 <= k - 1 THEN (k - 1) - 1 + 1 ELSE 0
        /\ \A i \in 1..(k - 1) - 1 + 1 : a[i] = s[1 + i - 1]
    BY <2>1, <2>2, SubSeqProperties
  <2> HIDE DEF a
  <2> QED BY <1>1, <2>3
<1>3. /\ b \in Seq(Nat) /\ Len(b) = Len(s) - k /\ \A i \in 1..Len(s) - k : b[i] = s[k + i]
  <2>1. \A i \in k + 1..Len(s) : s[i] \in Nat BY <1>1
  <2>2. k + 1 \in Int /\ Len(s) \in Int BY <1>1
  <2>3. /\ b \in Seq(Nat) /\ Len(b) = IF k + 1 <= Len(s) THEN Len(s) - (k + 1) + 1 ELSE 0
        /\ \A i \in 1..Len(s) - (k + 1) + 1 : b[i] = s[(k + 1) + i - 1]
    BY <2>1, <2>2, SubSeqProperties
  <2> HIDE DEF b
  <2>4. Len(b) = Len(s) - k
    <3>1. ASSUME NEW n \in Nat, NEW j \in 1..n
          PROVE  (IF j + 1 <= n THEN n - (j + 1) + 1 ELSE 0) = n - j
      OBVIOUS
    <3>2. Len(s) \in Nat /\ k \in 1..Len(s) BY <1>1
    <3>3. (IF k + 1 <= Len(s) THEN Len(s) - (k + 1) + 1 ELSE 0) = Len(s) - k BY <3>1, <3>2
    <3> QED BY <2>3, <3>3
  <2>5. ASSUME NEW i \in 1..Len(s) - k PROVE b[i] = s[k + i]
    <3>1. i \in 1..Len(s) - (k + 1) + 1 /\ (k + 1) + i - 1 = k + i BY <1>1
    <3>2. b[i] = s[(k + 1) + i - 1] BY <2>3, <3>1
    <3> QED BY <3>1, <3>2
  <2> QED BY <2>3, <2>4, <2>5
<1> HIDE DEF a, b
<1> DEFINE c == a \o b
<1>4. /\ c \in Seq(Nat) /\ Len(c) = Len(a) + Len(b)
      /\ \A i \in 1..Len(a) + Len(b) : c[i] = IF i <= Len(a) THEN a[i] ELSE b[i - Len(a)]
  BY <1>2, <1>3, ConcatProperties
<1>5. Len(c) = Len(s) - 1 /\ DOMAIN c = 1..Len(s) - 1
  <2>1. Len(a) + Len(b) = Len(s) - 1 BY <1>1, <1>2, <1>3
  <2> QED BY <1>4, <2>1, LenProperties
<1> HIDE DEF c
<1>6. ASSUME NEW i \in 1..Len(s) - 1 PROVE c[i] = s[IF i < k THEN i ELSE i + 1]
  <2>0. /\ i \in Int /\ k \in Int /\ i \in 1..Len(a) + Len(b) /\ Len(a) = k - 1
        /\ (i < k <=> i <= Len(a))
    BY <1>1, <1>2, <1>3
  <2>1. CASE i < k
    <3>1. c[i] = a[i] /\ i \in 1..k - 1 BY <1>4, <2>0, <2>1
    <3> QED BY <1>2, <2>1, <3>1
  <2>2. CASE ~(i < k)
    <3> DEFINE j == i - (k - 1)
    <3>1. c[i] = b[j] BY <1>4, <2>0, <2>2
    <3>2. j \in 1..Len(s) - k /\ k + j = i + 1 BY <1>1, <2>0, <2>2
    <3> HIDE DEF j
    <3> QED BY <1>3, <2>2, <3>1, <3>2
  <2> QED BY <2>1, <2>2
<1>7. RemoveAt(s, k) = c BY DEF RemoveAt, a, b, c
<1> QED BY <1>4, <1>5, <1>6, <1>7 DEF Drops

\* A fragment is read, skipped or taken, and nothing is sent.
LEMMA FragmentFacts ==
    ASSUME LifecycleTypes, ReadFragment \/ SkipFragment \/ TakeFragment
    PROVE  /\ run' \in Runs /\ src' \in Sources /\ hist' \in Histories
           /\ At("run") /\ run.phase = "live" /\ run'.phase = "live"
           /\ run'.objects = run.objects /\ hist'.objects = hist.objects
           /\ KeepsCatalogs /\ KeepsGroups /\ src'.objects = src.objects
           /\ hist'.media = hist.media /\ hist'.catalogs = hist.catalogs
           /\ run'.saved = run'.pending
           /\ UNCHANGED <<scenario, pub, shared, ses, work, resume, disc>>
           /\ \/ /\ run'.pending = Append(run.pending, src.at + 1) /\ run'.hand = run.hand
                 /\ src'.at = src.at + 1 /\ Passed' = Passed
              \/ \E k \in DOMAIN run.pending :
                   /\ Drops(run'.pending, run.pending, k) /\ run'.hand = run.hand
                   /\ src' = src /\ Passed' = Passed \cup {run.pending[k]}
              \/ /\ run.hand = 0 /\ 1 \in DOMAIN run.pending
                 /\ Drops(run'.pending, run.pending, 1) /\ run'.hand = run.pending[1]
                 /\ src' = src /\ Passed' = Passed
<1>0. /\ run \in Runs /\ run.pending \in Seq(Nat) /\ src \in Sources /\ src.at \in Nat
      /\ hist \in Histories
      /\ DOMAIN run.pending = 1..Len(run.pending)
      /\ \A k \in DOMAIN run.pending : run.pending[k] \in Nat
  BY LenProperties, ElementOfSeq DEF LifecycleTypes, Runs, Sources
<1>1. ASSUME NEW list \in Seq(Nat)
      PROVE  LET r == Queued(list)
             IN  /\ r \in Runs /\ r.phase = run.phase /\ r.objects = run.objects
                 /\ r.handed = run.handed /\ r.media = run.media /\ r.floor = run.floor
                 /\ r.group = run.group /\ r.next = run.next /\ r.hand = run.hand
                 /\ r.pending = list /\ r.saved = list
  BY <1>0 DEF Queued, Runs
<1>2. CASE ReadFragment
  <2> DEFINE at == src.at + 1  list == Append(run.pending, at)
  <2>1. at \in Nat /\ list \in Seq(Nat) BY <1>0, AppendFacts
  <2>2. run' = Queued(list) /\ src' = [src EXCEPT !.at = at] /\ hist' = hist
        /\ At("run") /\ run.phase = "live"
        /\ UNCHANGED <<scenario, pub, shared, ses, work, resume, disc>>
    BY <1>2 DEF ReadFragment, Live
  <2> HIDE DEF list
  <2>3. src' \in Sources /\ src'.at = at /\ src'.objects = src.objects
    <3> HIDE DEF at
    <3> QED BY <1>0, <2>1, <2>2 DEF Sources
  <2> QED BY <1>0, <1>1, <2>1, <2>2, <2>3 DEF KeepsCatalogs, KeepsGroups, Passed, list
<1>3. CASE SkipFragment
  <2>1. PICK k \in DOMAIN run.pending :
          /\ run' = Queued(RemoveAt(run.pending, k))
          /\ hist' = [hist EXCEPT !.skipped = @ \cup {run.pending[k]}]
    BY <1>3 DEF SkipFragment
  <2> DEFINE list == RemoveAt(run.pending, k)  x == run.pending[k]
  <2>2. list \in Seq(Nat) /\ Drops(list, run.pending, k) BY <1>0, RemoveAtFacts
  <2>3. At("run") /\ run.phase = "live" /\ src' = src
        /\ UNCHANGED <<scenario, pub, shared, ses, work, resume, disc>>
    BY <1>3 DEF SkipFragment, Live
  <2>4. run' = Queued(list) /\ x \in Nat BY <1>0, <2>1
  <2>5. /\ hist' \in Histories /\ hist'.objects = hist.objects /\ hist'.media = hist.media
        /\ hist'.catalogs = hist.catalogs /\ Passed' = Passed \cup {x}
    <3>1. hist' = [hist EXCEPT !.skipped = hist.skipped \cup {x}] BY <2>1
    <3> HIDE DEF x
    <3> QED BY <1>0, <2>4, <3>1 DEF Histories, Passed
  <2> HIDE DEF list
  <2> QED BY <1>0, <1>1, <2>2, <2>3, <2>4, <2>5 DEF KeepsCatalogs, KeepsGroups
<1>4. CASE TakeFragment
  <2>0. run.hand = 0 /\ run.pending # <<>> /\ At("run") /\ run.phase = "live"
        /\ UNCHANGED <<scenario, pub, shared, ses, work, resume, disc, src, hist>>
    BY <1>4 DEF TakeFragment, Live
  <2> DEFINE list == Tail(run.pending)  x == run.pending[1]
  <2>1. /\ list \in Seq(Nat) /\ Len(run.pending) \in Nat \ {0}
        /\ DOMAIN list = 1..Len(run.pending) - 1
        /\ \A i \in 1..Len(run.pending) - 1 : list[i] = run.pending[i + 1]
    BY <1>0, <2>0, TailFacts
  <2>2. Head(run.pending) = x BY <1>0, <2>0
  <2>3. run' = [Queued(list) EXCEPT !.hand = x] BY <1>4, <2>2 DEF TakeFragment
  <2> HIDE DEF list
  <2>4. 1 \in DOMAIN run.pending /\ x \in Nat BY <1>0, <2>1
  <2>5. Drops(list, run.pending, 1)
    <3>1. \A i \in 1..Len(run.pending) - 1 : ~(i < 1) OBVIOUS
    <3> QED BY <2>1, <3>1 DEF Drops
  <2> DEFINE r == Queued(list)
  <2>6. /\ r \in Runs /\ r.phase = run.phase /\ r.objects = run.objects
        /\ r.handed = run.handed /\ r.media = run.media /\ r.floor = run.floor
        /\ r.group = run.group /\ r.next = run.next
        /\ r.pending = list /\ r.saved = list
    BY <1>1, <2>1
  <2> HIDE DEF x, r
  <2>7. /\ run' \in Runs /\ run'.phase = run.phase /\ run'.objects = run.objects
        /\ KeepsCatalogs /\ KeepsGroups
        /\ run'.pending = list /\ run'.saved = list /\ run'.hand = x
    BY <2>3, <2>4, <2>6 DEF Runs, KeepsCatalogs, KeepsGroups, r
  <2> QED BY <1>0, <2>0, <2>4, <2>5, <2>7 DEF LifecycleTypes, Passed, x
<1> QED BY <1>2, <1>3, <1>4

LEMMA SendFragmentFacts ==
    ASSUME LifecycleTypes, SendFragment
    PROVE  \E g \in Nat :
             /\ g >= run.floor /\ g >= run.group /\ run.hand \in Nat \ {0}
             /\ run' \in Runs /\ run'.objects = run.objects + 1
             /\ run.phase = "live" /\ run'.phase = "live" /\ At("run")
             /\ KeepsCatalogs /\ run'.pending = run.pending /\ run'.saved = run.saved
             /\ run'.hand = 0
             /\ run'.floor = run.floor /\ run'.group = g /\ run'.next = run.next
             /\ UNCHANGED <<scenario, pub, shared, ses, work, resume, src, disc>>
             /\ hist' \in Histories /\ hist'.objects = hist.objects + 1
             /\ hist'.catalogs = hist.catalogs /\ Passed' = Passed
             /\ hist'.media = Append(hist.media, <<Current, g, run.hand>>)
<1>0. /\ run \in Runs /\ run.hand \in Nat /\ run.objects \in Nat /\ run.floor \in Nat
      /\ run.group \in Nat \cup {-1} /\ Current \in Nat
      /\ hist \in Histories /\ hist.media \in Seq(Nat \X Nat \X Nat) /\ hist.objects \in Nat
  BY SessionFacts DEF LifecycleTypes, Runs, Histories
<1>1. PICK g \in {run.group, run.group + 1} :
        /\ g >= run.floor
        /\ run' = [run EXCEPT !.group = g, !.objects = @ + 1, !.hand = 0]
        /\ hist' = [hist EXCEPT !.media = Append(@, <<Current, g, run.hand>>), !.objects = @ + 1]
  BY DEF SendFragment
<1> DEFINE o == run.objects + 1  m == hist.objects + 1
           list == Append(hist.media, <<Current, g, run.hand>>)
<1>2. g >= run.group /\ g \in Nat /\ o \in Nat /\ m \in Nat BY <1>0, <1>1
<1>3. list \in Seq(Nat \X Nat \X Nat)
  <2>1. <<Current, g, run.hand>> \in Nat \X Nat \X Nat BY <1>0, <1>2
  <2> QED BY <1>0, <2>1, AppendFacts
<1>4. run' = [run EXCEPT !.group = g, !.objects = o, !.hand = 0]
      /\ hist' = [hist EXCEPT !.media = list, !.objects = m]
  BY <1>1
<1>5. At("run") /\ run.phase = "live" /\ run.hand # 0
      /\ UNCHANGED <<scenario, pub, shared, ses, work, resume, src, disc>>
  BY DEF SendFragment, Live
<1> HIDE DEF list, o, m
<1>6. /\ run' \in Runs /\ run'.objects = o /\ run'.phase = run.phase /\ KeepsCatalogs
      /\ run'.floor = run.floor /\ run'.group = g /\ run'.next = run.next /\ run'.hand = 0
      /\ run'.pending = run.pending /\ run'.saved = run.saved
  BY <1>0, <1>2, <1>4 DEF Runs, KeepsCatalogs
<1>7. /\ hist' \in Histories /\ hist'.objects = m /\ hist'.catalogs = hist.catalogs
      /\ Passed' = Passed /\ hist'.media = list
  BY <1>0, <1>2, <1>3, <1>4 DEF Histories, Passed
<1> QED BY <1>0, <1>1, <1>2, <1>5, <1>6, <1>7 DEF list, o, m

LEMMA ReplayCatalogFacts ==
    ASSUME LifecycleTypes, ReplayCatalog
    PROVE  /\ run' \in Runs /\ run'.objects = run.objects + 1 /\ run'.phase = run.phase
           /\ KeepsFragments /\ KeepsGroups /\ run'.media = run.media
           /\ run'.handed = Append(run.handed, work.chain[work.replay])
           /\ work' \in Works /\ work' = [work EXCEPT !.replay = work.replay + 1]
           /\ work.replay \in DOMAIN work.chain /\ work.chain[work.replay] \in Nat
           /\ hist' \in Histories /\ hist' = [hist EXCEPT !.objects = hist.objects + 1]
<1>0. /\ run \in Runs /\ run.handed \in Seq(Nat) /\ run.objects \in Nat
      /\ work \in Works /\ work.chain \in Seq(Nat) /\ work.replay \in Nat
      /\ hist \in Histories /\ hist.objects \in Nat
  BY DEF LifecycleTypes, Runs, Works, Histories
<1> DEFINE n == work.replay + 1  o == run.objects + 1  m == hist.objects + 1
           list == Append(run.handed, work.chain[work.replay])
<1>1. work.replay \in DOMAIN work.chain /\ work.chain[work.replay] \in Nat
  <2>1. work.replay \in 1..Len(work.chain) BY <1>0 DEF ReplayCatalog, Replays
  <2> QED BY <1>0, <2>1, LenProperties, ElementOfSeq
<1>2. n \in Nat /\ o \in Nat /\ m \in Nat /\ list \in Seq(Nat) BY <1>0, <1>1, AppendFacts
<1>3. run' = [run EXCEPT !.handed = list, !.objects = o] /\ work' = [work EXCEPT !.replay = n]
      /\ hist' = [hist EXCEPT !.objects = m]
  BY DEF ReplayCatalog
<1>4. /\ run' \in Runs /\ run'.objects = o /\ run'.phase = run.phase
      /\ KeepsFragments /\ KeepsGroups /\ run'.media = run.media /\ run'.handed = list
  <2> HIDE DEF n, o, m, list
  <2> QED BY <1>0, <1>2, <1>3 DEF Runs, KeepsFragments, KeepsGroups
<1>5. work' \in Works
  <2> HIDE DEF n
  <2> QED BY <1>0, <1>2, <1>3 DEF Works
<1>6. hist' \in Histories
  <2> HIDE DEF m
  <2> QED BY <1>0, <1>2, <1>3 DEF Histories
<1> QED BY <1>1, <1>3, <1>4, <1>5, <1>6

ObjectKinds == {"base", "delta", "stray", "media"}

\* A catalog object restarts the chain, extends it or makes it useless.
ChainGoes(i, kind) ==
  /\ work'.seen = TRUE
  /\ \/ work'.whole = FALSE /\ work'.chain = <<>>
     \/ kind = "base" /\ work'.whole = TRUE /\ work'.chain = <<i>>
     \/ /\ kind = "delta" /\ work.chain # <<>> /\ work.whole
        /\ work'.whole = TRUE /\ work'.chain = Append(work.chain, i)

LEMMA NextObjectFacts ==
    ASSUME LifecycleTypes, NextObject
    PROVE  \E kind \in ObjectKinds :
             LET i == Len(src.objects) + 1
             IN  /\ i \in Nat /\ run' \in Runs /\ run'.objects = run.objects + 1
                 /\ run'.phase = run.phase
                 /\ KeepsFragments /\ KeepsGroups
                 /\ run'.media = (run.media \/ kind = "media")
                 /\ run'.handed = IF kind = "media" THEN run.handed ELSE Append(run.handed, i)
                 /\ src' \in Sources /\ src'.at = src.at
                 /\ src'.objects = Append(src.objects, kind)
                 /\ work' \in Works /\ work'.replay = 0 /\ work'.prior = work.prior
                 /\ work'.bytes = work.bytes /\ work'.floor = work.floor
                 /\ work'.catalog = work.catalog
                 /\ IF scenario.draft22 /\ kind # "media" THEN ChainGoes(i, kind)
                    ELSE work' = [work EXCEPT !.replay = 0]
                 /\ hist' \in Histories /\ hist' = [hist EXCEPT !.objects = hist.objects + 1]
<1>0. /\ run \in Runs /\ run.handed \in Seq(Nat) /\ run.objects \in Nat /\ run.media \in BOOLEAN
      /\ work \in Works /\ work.chain \in Seq(Nat) /\ work.replay \in Nat
      /\ hist \in Histories /\ hist.objects \in Nat
      /\ src \in Sources /\ src.objects \in Seq(ObjectKinds) /\ Len(src.objects) \in Nat
  BY LenProperties DEF LifecycleTypes, Runs, Works, Histories, Sources, ObjectKinds
<1> DEFINE i == Len(src.objects) + 1
<1>1. PICK kind \in ObjectKinds, fits \in BOOLEAN :
        /\ src' = [src EXCEPT !.objects = Append(@, kind)]
        /\ run' = [run EXCEPT !.handed = IF kind = "media" THEN @ ELSE Append(@, i),
                        !.media = @ \/ kind = "media", !.objects = @ + 1]
        /\ work' = IF scenario.draft22 /\ kind # "media"
                   THEN [Chained(work, i, fits) EXCEPT !.replay = 0]
                   ELSE [work EXCEPT !.replay = 0]
  BY DEF NextObject, ObjectKinds
<1> DEFINE list == IF kind = "media" THEN run.handed ELSE Append(run.handed, i)
           med == (run.media \/ kind = "media")
           o == run.objects + 1  m == hist.objects + 1
           objs == Append(src.objects, kind)
<1>2. /\ i \in Nat /\ o \in Nat /\ m \in Nat /\ med \in BOOLEAN /\ list \in Seq(Nat)
      /\ objs \in Seq(ObjectKinds) /\ objs[i] = kind
  <2>1. i \in Nat /\ o \in Nat /\ m \in Nat BY <1>0
  <2>2. med \in BOOLEAN BY <1>0
  <2>3. list \in Seq(Nat) BY <1>0, <2>1, AppendFacts
  <2>4. objs \in Seq(ObjectKinds) /\ objs[i] = kind BY <1>0, AppendFacts
  <2> QED BY <2>1, <2>2, <2>3, <2>4
<1>3. src' = [src EXCEPT !.objects = objs] BY <1>1
<1>4. src' \in Sources /\ src'.at = src.at /\ src'.objects = objs
  <2> HIDE DEF objs
  <2> QED BY <1>0, <1>2, <1>3 DEF Sources, ObjectKinds
<1>5. run' = [run EXCEPT !.handed = list, !.media = med, !.objects = o] BY <1>1
<1>6. /\ run' \in Runs /\ run'.objects = o /\ run'.phase = run.phase
      /\ KeepsFragments /\ KeepsGroups /\ run'.media = med /\ run'.handed = list
  <2> HIDE DEF list, med, o
  <2> QED BY <1>0, <1>2, <1>5 DEF Runs, KeepsFragments, KeepsGroups
<1>7. hist' = [hist EXCEPT !.objects = m] /\ hist' \in Histories
  <2>1. hist' = [hist EXCEPT !.objects = m] BY DEF NextObject
  <2> HIDE DEF m
  <2> QED BY <1>0, <1>2, <2>1 DEF Histories
<1>8. /\ work' \in Works /\ work'.replay = 0 /\ work'.prior = work.prior
      /\ work'.bytes = work.bytes /\ work'.floor = work.floor /\ work'.catalog = work.catalog
      /\ IF scenario.draft22 /\ kind # "media" THEN ChainGoes(i, kind)
         ELSE work' = [work EXCEPT !.replay = 0]
  <2>1. CASE ~(scenario.draft22 /\ kind # "media") BY <1>0, <1>1, <2>1 DEF Works
  <2>2. CASE scenario.draft22 /\ kind # "media"
    <3> DEFINE c == IF kind = "base" THEN <<>> ELSE work.chain
               whole == kind = "base" \/ (kind = "delta" /\ work.chain # <<>> /\ work.whole)
               app == Append(c, i)
    <3>0. src'.objects[i] = kind BY <1>2, <1>4
    <3>1. app \in Seq(Nat) /\ <<>> \in Seq(Nat) BY <1>0, <1>2, AppendFacts, EmptySeq
    <3>2. CASE whole /\ Len(c) < MaxReplay /\ fits
      <4>1. work' = [[work EXCEPT !.seen = TRUE, !.whole = TRUE, !.chain = app]
                       EXCEPT !.replay = 0]
        BY <1>1, <2>2, <3>0, <3>2 DEF Chained
      <4>2. kind = "base" => app = <<i>> BY <1>2
      <4>3. kind # "base" => app = Append(work.chain, i) OBVIOUS
      <4>4. /\ work' \in Works /\ work'.replay = 0 /\ work'.prior = work.prior
            /\ work'.bytes = work.bytes /\ work'.floor = work.floor
            /\ work'.catalog = work.catalog
            /\ work'.seen = TRUE /\ work'.whole = TRUE /\ work'.chain = app
        <5> HIDE DEF app, whole, c
        <5> QED BY <1>0, <3>1, <4>1 DEF Works
      <4> HIDE DEF app
      <4> QED BY <2>2, <3>2, <4>2, <4>3, <4>4 DEF ChainGoes
    <3>3. CASE ~(whole /\ Len(c) < MaxReplay /\ fits)
      <4>1. work' = [[work EXCEPT !.seen = TRUE, !.whole = FALSE, !.chain = <<>>]
                       EXCEPT !.replay = 0]
        BY <1>1, <2>2, <3>0, <3>3 DEF Chained
      <4>2. /\ work' \in Works /\ work'.replay = 0 /\ work'.prior = work.prior
            /\ work'.bytes = work.bytes /\ work'.floor = work.floor
            /\ work'.catalog = work.catalog
            /\ work'.seen = TRUE /\ work'.whole = FALSE /\ work'.chain = <<>>
        <5> HIDE DEF app, whole, c
        <5> QED BY <1>0, <3>1, <4>1 DEF Works
      <4> QED BY <2>2, <4>2 DEF ChainGoes
    <3> QED BY <3>2, <3>3
  <2> QED BY <2>1, <2>2
<1> HIDE DEF list, med, o, m, objs
<1> QED BY <1>2, <1>4, <1>6, <1>7, <1>8 DEF list, med, o, m, objs

\* The end of a session that returns what it sent.
LEMMA ReturnsFacts ==
    ASSUME LifecycleTypes, SessionReturns \/ SessionStops
    PROVE  /\ run' = NoSession /\ work' = NoWork /\ resume' = NoResume
           /\ shared' \in Guarded /\ shared'.stop = shared.stop /\ shared'.active = shared.active
           /\ shared'.handle = shared.handle /\ shared'.objects = work.prior + run.objects
           /\ pub' = Returned(pub, "ok") /\ At("run")
           /\ UNCHANGED <<scenario, ses, src, disc, hist>>
<1>1. work.prior + run.objects \in Nat /\ shared \in Guarded
  <2>1. work.prior \in Nat /\ run.objects \in Nat /\ shared \in Guarded BY DEF LifecycleTypes, Works, Runs
  <2> QED BY <2>1
<1> DEFINE o == work.prior + run.objects
<1>2. shared' = [shared EXCEPT !.objects = o] BY DEF SessionReturns, SessionStops
<1>3. /\ shared' \in Guarded /\ shared'.stop = shared.stop /\ shared'.active = shared.active
      /\ shared'.handle = shared.handle /\ shared'.objects = o
  <2>1. o \in Nat BY <1>1
  <2> HIDE DEF o
  <2> QED BY <1>1, <1>2, <2>1 DEF Guarded
<1> QED BY <1>3 DEF SessionReturns, SessionStops

Failures == {"fatal", "retryable", "permanent"}

\* What a retry is left with.
LeavesForRetry(r) ==
  /\ r.bytes = (IF run.saved = NoBytes THEN resume.bytes ELSE run.saved)
  /\ r.floor >= resume.floor /\ r.floor >= run.group + 1
  /\ r.catalog >= resume.catalog /\ r.catalog >= run.next

LEMMA SavedFacts ==
    ASSUME LifecycleTypes, NEW kind \in Failures
    PROVE  /\ Saved(kind).resume \in Resumes /\ Saved(kind).kind \in Failures
           /\ Fragments /\ Saved(kind).kind = "retryable" => LeavesForRetry(Saved(kind).resume)
<1>0. /\ resume \in Resumes /\ resume.floor \in Nat /\ resume.catalog \in Nat
      /\ resume.bytes \in Seq(Nat) /\ run.saved \in Seq(Nat)
      /\ run.group \in Nat \cup {-1} /\ run.next \in Nat
  BY DEF LifecycleTypes, Resumes, Runs
<1> DEFINE bytes == IF run.saved = NoBytes THEN resume.bytes ELSE run.saved
           f == Max({resume.floor, MediaFloor})
           c == Max({resume.catalog, run.next})
<1>1. f \in Nat /\ f >= resume.floor /\ f >= run.group + 1
      /\ c \in Nat /\ c >= resume.catalog /\ c >= run.next /\ bytes \in Seq(Nat)
  <2>1. MediaFloor \in Nat /\ MediaFloor = run.group + 1 BY <1>0 DEF MediaFloor
  <2>2. /\ f \in Nat /\ f = IF resume.floor <= MediaFloor THEN MediaFloor ELSE resume.floor
        /\ c \in Nat /\ c = IF resume.catalog <= run.next THEN run.next ELSE resume.catalog
    BY <1>0, <2>1, LargerOfTwo
  <2>3. bytes \in Seq(Nat) BY <1>0
  <2> HIDE DEF f, c
  <2> QED BY <1>0, <2>1, <2>2, <2>3
<1>2. CASE ~Fragments \/ kind \notin {"retryable", "permanent"}
  <2>1. Saved(kind) = [resume |-> resume, kind |-> kind] BY <1>2 DEF Saved
  <2> QED BY <1>0, <1>2, <2>1 DEF Failures
<1>3. CASE ~(~Fragments \/ kind \notin {"retryable", "permanent"}) /\ Exhausted
  <2>1. Saved(kind) = [resume |-> [resume EXCEPT !.bytes = bytes], kind |-> "fatal"] BY <1>3 DEF Saved
  <2>2. [resume EXCEPT !.bytes = bytes] \in Resumes
    <3>1. bytes \in Seq(Nat) BY <1>0
    <3> HIDE DEF bytes
    <3> QED BY <1>0, <3>1 DEF Resumes
  <2> QED BY <2>1, <2>2 DEF Failures
<1>4. CASE ~(~Fragments \/ kind \notin {"retryable", "permanent"}) /\ ~Exhausted
  <2>1. Saved(kind) = [resume |-> [bytes |-> bytes, floor |-> f, catalog |-> c], kind |-> kind]
    BY <1>4 DEF Saved
  <2>2. [bytes |-> bytes, floor |-> f, catalog |-> c] \in Resumes
    <3> HIDE DEF bytes, f, c
    <3> QED BY <1>1 DEF Resumes
  <2>3. LeavesForRetry([bytes |-> bytes, floor |-> f, catalog |-> c])
    <3> HIDE DEF f, c
    <3> QED BY <1>1 DEF LeavesForRetry
  <2> HIDE DEF bytes, f, c
  <2> QED BY <2>1, <2>2, <2>3 DEF Failures
<1> QED BY <1>2, <1>3, <1>4

\* A session that fails loses the look-ahead and what was in hand.
Fell == [hist EXCEPT !.lost = hist.lost \cup Lookahead, !.failed = hist.failed \cup InHand]

LEMMA FailsFacts ==
    ASSUME LifecycleTypes, SessionFails
    PROVE  /\ At("run") /\ run' = NoSession /\ work' = NoWork
           /\ pub' \in Publishes /\ pub'.attempt = pub.attempt
           /\ resume' \in Resumes /\ hist' \in Histories
           /\ UNCHANGED <<scenario, shared, ses, src, disc>>
           /\ \/ /\ shared.stop /\ pub' = Closing(pub, "stopped") /\ resume' = resume /\ hist' = hist
              \/ /\ ~shared.stop /\ pub'.then = "failed" /\ pub'.kind \in Failures
                 /\ pub'.pc = IF ses[Current].up THEN "close" ELSE "failed"
                 /\ hist' = Fell
                 /\ Fragments /\ pub'.kind = "retryable" => LeavesForRetry(resume')
<1>0. pub \in Publishes /\ hist \in Histories /\ resume \in Resumes BY DEF LifecycleTypes
<1>1. CASE shared.stop BY <1>0, <1>1, ClosingFacts DEF SessionFails
<1>2. CASE ~shared.stop
  <2>1. PICK outcome \in Failures, down \in BOOLEAN :
          LET saved == Saved(FailureKind(outcome, down))
          IN  /\ pub' = [Closing(pub, "failed") EXCEPT !.kind = saved.kind]
              /\ resume' = saved.resume
              /\ hist' = [hist EXCEPT !.lost = @ \cup Lookahead, !.failed = @ \cup InHand]
    BY <1>2 DEF SessionFails, Failures
  <2> DEFINE kind == FailureKind(outcome, down)
  <2>2. kind \in Failures BY DEF FailureKind, Failures
  <2> DEFINE saved == Saved(kind)
  <2>3. /\ saved.resume \in Resumes /\ saved.kind \in Failures
        /\ Fragments /\ saved.kind = "retryable" => LeavesForRetry(saved.resume)
    <3> HIDE DEF kind
    <3> QED BY <2>2, SavedFacts
  <2> DEFINE q == Closing(pub, "failed")
  <2>4. /\ q \in Publishes /\ q.then = "failed" /\ q.attempt = pub.attempt
        /\ q.pc = IF ses[Current].up THEN "close" ELSE "failed"
    BY <1>0, ClosingFacts
  <2>5. pub' = [q EXCEPT !.kind = saved.kind] /\ resume' = saved.resume BY <2>1
  <2>6. /\ pub' \in Publishes /\ pub'.attempt = pub.attempt /\ pub'.then = "failed"
        /\ pub'.kind = saved.kind /\ pub'.pc = IF ses[Current].up THEN "close" ELSE "failed"
    <3> HIDE DEF q, saved, kind
    <3> QED BY <2>3, <2>4, <2>5 DEF Publishes, Failures
  <2>7. hist' = Fell BY <2>1 DEF Fell
  <2>8. hist' \in Histories
    <3>1. Lookahead \subseteq Nat
      <4>1. run.pending \in Seq(Nat) BY DEF LifecycleTypes, Runs
      <4>2. \A k \in DOMAIN run.pending : run.pending[k] \in Nat BY <4>1, LenProperties, ElementOfSeq
      <4> QED BY <4>2 DEF Lookahead, ToSet
    <3>2. InHand \subseteq Nat BY DEF InHand, LifecycleTypes, Runs
    <3> QED BY <1>0, <2>7, <3>1, <3>2 DEF Histories, Fell
  <2> HIDE DEF q, saved, kind
  <2> QED BY <1>2, <2>3, <2>5, <2>6, <2>7, <2>8 DEF SessionFails
<1> QED BY <1>1, <1>2

\* A session whose relay said GOAWAY, which the next one continues.
LEMMA GoawayFacts ==
    ASSUME LifecycleTypes, Goaway
    PROVE  /\ At("run") /\ ~shared.stop /\ run' = NoSession
           /\ pub' \in Publishes /\ pub'.attempt = pub.attempt
           /\ work' \in Works /\ resume' \in Resumes
           /\ Fragments => run.phase = "live" /\ run.hand = 0
           /\ UNCHANGED <<scenario, shared, ses, src, disc, hist>>
           /\ \/ /\ pub'.then = "failed" /\ pub'.kind = "fatal" /\ work' = work /\ resume' = resume
                 /\ pub'.pc = IF ses[Current].up THEN "close" ELSE "failed"
              \/ /\ pub' = Closing(pub, "migrate")
                 /\ work'.prior = work.prior + run.objects /\ work'.seen = work.seen
                 /\ work'.whole = work.whole /\ work'.chain = work.chain
                 /\ work'.replay = work.replay
                 /\ IF Fragments
                    THEN /\ resume' = [bytes |-> run.saved, floor |-> run.group + 1,
                                       catalog |-> run.next]
                         /\ work'.bytes = run.saved /\ work'.floor = run.group + 1
                         /\ work'.catalog = run.next
                    ELSE /\ resume' = resume /\ work'.bytes = work.bytes
                         /\ work'.floor = work.floor /\ work'.catalog = work.catalog
<1>0. /\ pub \in Publishes /\ hist \in Histories /\ resume \in Resumes /\ work \in Works
      /\ work.prior \in Nat /\ run.objects \in Nat /\ run.saved \in Seq(Nat)
      /\ run.group \in Nat \cup {-1} /\ run.next \in Nat
      /\ work.bytes \in Seq(Nat) /\ work.floor \in Nat /\ work.catalog \in Nat
  BY DEF LifecycleTypes, Works, Runs
<1> DEFINE q == Closing(pub, "failed")
<1>1. CASE Fragments /\ Exhausted
  <2>1. /\ q \in Publishes /\ q.then = "failed" /\ q.attempt = pub.attempt
        /\ q.pc = IF ses[Current].up THEN "close" ELSE "failed"
    BY <1>0, ClosingFacts
  <2>2. pub' = [q EXCEPT !.kind = "fatal"] BY <1>1 DEF Goaway
  <2>3. /\ pub' \in Publishes /\ pub'.attempt = pub.attempt /\ pub'.then = "failed"
        /\ pub'.kind = "fatal" /\ pub'.pc = IF ses[Current].up THEN "close" ELSE "failed"
    <3> HIDE DEF q
    <3> QED BY <2>1, <2>2 DEF Publishes
  <2>4. /\ At("run") /\ ~shared.stop /\ run' = NoSession /\ work' = work /\ resume' = resume
        /\ (Fragments => run.phase = "live" /\ run.hand = 0)
        /\ UNCHANGED <<scenario, shared, ses, src, disc, hist>>
    BY <1>1 DEF Goaway, Live, At
  <2> QED BY <1>0, <2>3, <2>4
<1>2. CASE ~(Fragments /\ Exhausted)
  <2> DEFINE o == work.prior + run.objects
             b == IF Fragments THEN run.saved ELSE work.bytes
             f == IF Fragments THEN run.group + 1 ELSE work.floor
             c == IF Fragments THEN run.next ELSE work.catalog
  <2>1. o \in Nat /\ b \in Seq(Nat) /\ f \in Nat /\ c \in Nat BY <1>0
  <2>2. work' = [work EXCEPT !.prior = o, !.bytes = b, !.floor = f, !.catalog = c]
    BY <1>2 DEF Goaway, MediaFloor
  <2>3. /\ work' \in Works /\ work'.prior = o /\ work'.seen = work.seen
        /\ work'.whole = work.whole /\ work'.chain = work.chain /\ work'.replay = work.replay
        /\ work'.bytes = b /\ work'.floor = f /\ work'.catalog = c
    <3> HIDE DEF o, b, f, c
    <3> QED BY <1>0, <2>1, <2>2 DEF Works
  <2>4. pub' = Closing(pub, "migrate") /\ pub' \in Publishes /\ pub'.attempt = pub.attempt
    BY <1>0, <1>2, ClosingFacts DEF Goaway
  <2>5. IF Fragments
        THEN resume' = [bytes |-> run.saved, floor |-> run.group + 1, catalog |-> run.next]
        ELSE resume' = resume
    BY <1>2 DEF Goaway, MediaFloor
  <2>6. resume' \in Resumes
    <3>1. run.group + 1 \in Nat BY <1>0
    <3> QED BY <1>0, <2>5, <3>1 DEF Resumes
  <2>7. /\ At("run") /\ ~shared.stop /\ run' = NoSession
        /\ (Fragments => run.phase = "live" /\ run.hand = 0)
        /\ UNCHANGED <<scenario, shared, ses, src, disc, hist>>
    BY DEF Goaway, Live, At
  <2>8. CASE Fragments BY <2>3, <2>4, <2>5, <2>6, <2>7, <2>8
  <2>9. CASE ~Fragments BY <2>3, <2>4, <2>5, <2>6, <2>7, <2>9
  <2> QED BY <2>8, <2>9
<1> QED BY <1>1, <1>2

\* Steps of a running session.
LEMMA SessionTypes ==
    ASSUME LifecycleTypes,
           Floors \/ ReadInit \/ StartInput \/ SendCatalog \/ ReadFragment \/ SkipFragment
             \/ TakeFragment \/ SendFragment \/ ReplayCatalog \/ NextObject \/ SessionReturns
             \/ SessionStops \/ SessionFails \/ Goaway
    PROVE  LifecycleTypes'
<1>1. CASE Floors BY <1>1, FloorsFacts DEF LifecycleTypes, Floors
<1>2. CASE ReadInit BY <1>2, ReadInitFacts DEF LifecycleTypes, ReadInit
<1>3. CASE StartInput BY <1>3, StartInputFacts DEF LifecycleTypes, StartInput
<1>4. CASE SendCatalog BY <1>4, SendCatalogFacts DEF LifecycleTypes, SendCatalog
<1>5. CASE SendFragment
  <2>1. run' \in Runs /\ hist' \in Histories BY <1>5, SendFragmentFacts
  <2>2. UNCHANGED <<scenario, pub, shared, ses, work, resume, src, disc>> BY <1>5, SendFragmentFacts
  <2> QED BY <2>1, <2>2 DEF LifecycleTypes
<1>6. CASE ReplayCatalog BY <1>6, ReplayCatalogFacts DEF LifecycleTypes, ReplayCatalog
<1>7. CASE NextObject
  <2>1. run' \in Runs /\ src' \in Sources /\ work' \in Works /\ hist' \in Histories BY <1>7, NextObjectFacts
  <2>2. UNCHANGED <<scenario, pub, shared, ses, resume, disc>> BY <1>7 DEF NextObject
  <2> QED BY <2>1, <2>2 DEF LifecycleTypes
<1>8. CASE SessionReturns \/ SessionStops
  <2>1. pub \in Publishes BY DEF LifecycleTypes
  <2>2. pub' \in Publishes BY <1>8, <2>1, ReturnsFacts, ReturnedFacts DEF Outcomes
  <2> QED BY <1>8, <2>2, ReturnsFacts, Empties DEF LifecycleTypes
<1>9. CASE SessionFails BY <1>9, FailsFacts, Empties DEF LifecycleTypes
<1>10. CASE Goaway BY <1>10, GoawayFacts, Empties DEF LifecycleTypes
<1>11. CASE ReadFragment \/ SkipFragment \/ TakeFragment
  BY <1>11, FragmentFacts DEF LifecycleTypes
<1> QED BY <1>1, <1>2, <1>3, <1>4, <1>5, <1>6, <1>7, <1>8, <1>9, <1>10, <1>11

(* ---- sessions are made, closed and counted once ---- *)

\* A step that leaves the publish, its sessions and disconnect() alone.
LEMMA QuietStep ==
    ASSUME LifecycleTypes, LifecycleInv, UNCHANGED <<scenario, pub, shared, ses, disc>>
    PROVE  SessionsKnown' /\ ActiveKnown'
<1>1. SessionsKnown' BY DEF LifecycleInv, SessionsKnown, At, Current, Libmoq
<1>2. ActiveKnown' BY DEF LifecycleInv, ActiveKnown, Current
<1> QED BY <1>1, <1>2

\* A running session that counts as much as is sent.
LEMMA CountingStep ==
    ASSUME LifecycleTypes, LifecycleInv, UNCHANGED <<scenario, pub, shared, ses, disc>>, At("run"),
           work'.prior = work.prior,
           \/ run'.objects = run.objects /\ hist'.objects = hist.objects
           \/ run'.objects = run.objects + 1 /\ hist'.objects = hist.objects + 1
    PROVE  LifecycleInv'
<1>1. work.prior \in Nat /\ run.objects \in Nat /\ hist.objects \in Nat
  BY DEF LifecycleTypes, Works, Runs, Histories
<1>2. work'.prior + run'.objects = hist'.objects BY <1>1 DEF LifecycleInv, CountsKnown, At
<1>3. CountsKnown' BY <1>2 DEF LifecycleInv, CountsKnown, At, Leaves, Libmoq
<1> QED BY <1>3, QuietStep DEF LifecycleInv

LEMMA EnterKeeps ==
    ASSUME LifecycleTypes, LifecycleInv, Enter
    PROVE  LifecycleInv'
<1>1. /\ pub.pc = "attempt" /\ pub'.pc = (IF Libmoq THEN "register" ELSE "create")
      /\ pub'.kind = pub.kind /\ shared'.active = shared.active
      /\ shared'.stop => shared.stop
      /\ UNCHANGED <<scenario, ses, run, disc>>
  BY DEF LifecycleTypes, Publishes, Guarded, Enter, At, Go
<1>2. run = NoSession /\ work'.prior = 0 /\ hist'.objects = 0
  BY <1>1 DEF LifecycleTypes, Histories, Enter, NoWork, LifecycleInv, CountsKnown, At
<1>3. SessionsKnown' BY <1>1 DEF LifecycleInv, SessionsKnown, At, Current, Libmoq
<1>4. ActiveKnown' BY <1>1 DEF LifecycleInv, ActiveKnown, Current
<1>5. CountsKnown' BY <1>1, <1>2 DEF CountsKnown, At, Leaves, NoSession
<1> QED BY <1>3, <1>4, <1>5 DEF LifecycleInv

LEMMA RegisterKeeps ==
    ASSUME LifecycleTypes, LifecycleInv, Register
    PROVE  LifecycleInv'
<1>1. /\ pub.pc = "register" /\ pub'.pc = "libmoq" /\ pub'.kind = pub.kind
      /\ shared'.active = shared.active /\ shared'.stop = shared.stop
      /\ UNCHANGED <<scenario, ses, run, work, disc, hist>>
  BY DEF LifecycleTypes, Publishes, Guarded, Register, At, Go
<1>2. SessionsKnown' BY <1>1 DEF LifecycleInv, SessionsKnown, At, Current, Libmoq
<1>3. ActiveKnown' BY <1>1 DEF LifecycleInv, ActiveKnown, Current
<1>4. CountsKnown' BY <1>1 DEF LifecycleInv, CountsKnown, At, Leaves, Libmoq
<1> QED BY <1>2, <1>3, <1>4 DEF LifecycleInv

LEMMA LibmoqReturnsKeeps ==
    ASSUME LifecycleTypes, LifecycleInv, LibmoqReturns
    PROVE  LifecycleInv'
<1>0. pub \in Publishes BY DEF LifecycleTypes
<1>1. /\ pub.pc = "libmoq" /\ pub'.pc = "over"
      /\ shared'.active = shared.active /\ shared'.stop = shared.stop
      /\ UNCHANGED <<scenario, ses, run, work, disc, hist>>
  <2>1. PICK kind \in {"ok", "fatal"} : pub' = Returned(pub, kind) BY DEF LibmoqReturns
  <2>2. pub'.pc = "over" BY <1>0, <2>1, ReturnedFacts DEF Outcomes
  <2> QED BY <2>2 DEF LifecycleTypes, Guarded, LibmoqReturns, At
<1>2. Libmoq /\ ses = <<>> /\ shared.active = 0 BY <1>1 DEF LifecycleInv, SessionsKnown, ActiveKnown
<1>3. SessionsKnown' BY <1>1, <1>2 DEF LifecycleInv, SessionsKnown, At, Current, Libmoq
<1>4. ActiveKnown' BY <1>1, <1>2 DEF LifecycleInv, ActiveKnown, Current
<1>5. CountsKnown' BY <1>1, <1>2 DEF LifecycleInv, CountsKnown, At, Leaves, Libmoq
<1> QED BY <1>3, <1>4, <1>5 DEF LifecycleInv

LEMMA SessionMadeKeeps ==
    ASSUME LifecycleTypes, LifecycleInv, SessionMade
    PROVE  LifecycleInv'
<1>0. pub \in Publishes /\ pub.pc = "create" /\ ~Libmoq /\ shared.active = 0 /\ run = NoSession
      /\ Current \in Nat /\ DOMAIN ses = 1..Current
  BY SessionFacts DEF LifecycleTypes, SessionMade, At, LifecycleInv, SessionsKnown, ActiveKnown, CountsKnown
<1>1. CASE shared.stop
  <2>1. /\ pub'.pc = "over" /\ pub'.kind = "ok" /\ disc.calls > 0
        /\ UNCHANGED <<scenario, ses, shared, run, work, disc, hist>>
    BY <1>0, <1>1, ReturnedFacts DEF SessionMade, Outcomes, LifecycleInv, ActiveKnown
  <2>2. SessionsKnown' BY <1>0, <2>1 DEF LifecycleInv, SessionsKnown, At, Current, Libmoq
  <2>3. ActiveKnown' BY <1>0, <2>1 DEF LifecycleInv, SessionsKnown, ActiveKnown, Current
  <2>4. disc.calls # 0 BY <2>1 DEF LifecycleTypes, Disconnects
  <2>5. CountsKnown' BY <1>0, <2>1, <2>4 DEF LifecycleInv, CountsKnown, At, Leaves, Libmoq
  <2> QED BY <2>2, <2>3, <2>5 DEF LifecycleInv
<1>2. CASE ~shared.stop
  <2> DEFINE r == [connecting |-> TRUE, up |-> FALSE, close |-> "no"]
  <2>1. /\ pub'.pc = "connect" /\ pub'.kind = pub.kind /\ run' = NoSession
        /\ shared'.active = Current + 1 /\ shared'.stop = FALSE
        /\ ses' = Append(ses, r)
        /\ UNCHANGED <<scenario, work, disc, hist>>
    BY <1>0, <1>2 DEF SessionMade, Go, Publishes, LifecycleTypes, Guarded
  <2>2. /\ Len(ses') = Current + 1 /\ DOMAIN ses' = 1..Current + 1
        /\ ses'[Current + 1] = r /\ \A n \in 1..Current : ses'[n] = ses[n]
    <3>1. r \in Sessions /\ ses \in Seq(Sessions) BY DEF Sessions, LifecycleTypes
    <3> QED BY <1>0, <2>1, <3>1, AppendFacts DEF Current
  <2>3. Current' = Current + 1 BY <2>2 DEF Current
  <2>4. ~Libmoq' /\ ses' # <<>> BY <1>0, <2>1 DEF Libmoq
  <2>5. SessionsKnown'
    <3>1. \A n \in 1..Current : ~ses[n].connecting /\ (ses[n].up => ses[n].close = "closed")
      <4> TAKE n \in 1..Current
      <4>1. ~ses[n].connecting BY <1>0 DEF LifecycleInv, SessionsKnown
      <4>2. n < Current => (ses[n].up => ses[n].close = "closed") BY <1>0 DEF LifecycleInv, SessionsKnown
      <4>3. Current > 0 => (ses[Current].up => ses[Current].close = "closed")
        BY <1>0 DEF LifecycleInv, SessionsKnown
      <4>4. n < Current \/ (n = Current /\ Current > 0) BY <1>0
      <4> QED BY <4>1, <4>2, <4>3, <4>4
    <3>2. \A n \in DOMAIN ses' : n \in 1..Current \/ n = Current + 1 BY <1>0, <2>2
    <3> QED BY <1>0, <2>1, <2>2, <2>3, <2>4, <3>1, <3>2 DEF SessionsKnown, At
  <2>6. ActiveKnown'
    <3>1. disc.pc = "close" => disc.session \in 1..Current /\ ~ses[disc.session].connecting
      BY <1>0 DEF LifecycleInv, ActiveKnown
    <3>2. 1..Current \subseteq 1..Current + 1 BY <1>0
    <3> QED BY <1>0, <2>1, <2>2, <2>3, <3>1, <3>2 DEF ActiveKnown
  <2>7. CountsKnown' BY <1>0, <2>1 DEF LifecycleInv, CountsKnown, At, Leaves
  <2> QED BY <2>5, <2>6, <2>7 DEF LifecycleInv
<1> QED BY <1>1, <1>2

LEMMA ConnectsKeeps ==
    ASSUME LifecycleTypes, LifecycleInv, Connects
    PROVE  LifecycleInv'
<1>0. /\ pub.pc = "connect" /\ pub'.pc = "connected" /\ pub'.kind = pub.kind
      /\ UNCHANGED <<scenario, shared, run, work, disc, hist>>
  BY DEF LifecycleTypes, Publishes, Connects, At, Go
<1>1. Current > 0 /\ Current \in Nat /\ DOMAIN ses = 1..Current /\ Current \in DOMAIN ses
  BY <1>0, SessionFacts DEF LifecycleInv, SessionsKnown
<1>2. PICK up \in BOOLEAN :
        Became(Current, [connecting |-> ses[Current].connecting, up |-> up,
                         close |-> ses[Current].close])
  BY ConnectsFacts
<1>3. /\ Current' = Current /\ DOMAIN ses' = DOMAIN ses
      /\ ses'[Current].connecting = ses[Current].connecting
      /\ ses'[Current].close = ses[Current].close
      /\ \A n \in DOMAIN ses : n # Current => ses'[n] = ses[n]
  BY <1>2 DEF Became, Current
<1>4. ~Libmoq BY <1>0 DEF LifecycleInv, SessionsKnown
<1>5. SessionsKnown' BY <1>0, <1>1, <1>3, <1>4 DEF LifecycleInv, SessionsKnown, At, Libmoq
<1>6. ActiveKnown'
  <2>1. disc.pc = "close" => disc.session # Current BY <1>0 DEF LifecycleInv, ActiveKnown, SessionsKnown
  <2> QED BY <1>0, <1>1, <1>3, <2>1 DEF LifecycleInv, ActiveKnown
<1>7. CountsKnown' BY <1>0, <1>4 DEF LifecycleInv, CountsKnown, At, Leaves, Libmoq
<1> QED BY <1>5, <1>6, <1>7 DEF LifecycleInv

LEMMA ConnectFinishesKeeps ==
    ASSUME LifecycleTypes, LifecycleInv, ConnectFinishes
    PROVE  LifecycleInv'
<1>0. /\ pub \in Publishes /\ pub.pc = "connected" /\ ~Libmoq
      /\ UNCHANGED <<scenario, run, work, disc, hist>>
  BY DEF LifecycleTypes, ConnectFinishes, At, LifecycleInv, SessionsKnown
<1>1. /\ Current > 0 /\ Current \in Nat /\ DOMAIN ses = 1..Current /\ Current \in DOMAIN ses
      /\ ses[Current].connecting /\ ses[Current].close = "no" /\ shared.active = Current
  BY <1>0, SessionFacts DEF LifecycleInv, SessionsKnown, ActiveKnown
<1>2. Became(Current, [connecting |-> FALSE, up |-> ses[Current].up, close |-> ses[Current].close])
  BY FinishesFacts
<1>3. /\ Current' = Current /\ DOMAIN ses' = DOMAIN ses
      /\ ~ses'[Current].connecting /\ ses'[Current].up = ses[Current].up
      /\ ses'[Current].close = "no"
      /\ \A n \in DOMAIN ses : n # Current => ses'[n] = ses[n]
  BY <1>1, <1>2 DEF Became, Current
<1>4. /\ Cleared.active = 0 /\ Cleared.stop = shared.stop BY <1>1, ClearedFacts
<1>5. disc.pc = "close" => disc.session \in DOMAIN ses /\ disc.session # Current
                          /\ ~ses[disc.session].connecting
  BY <1>1 DEF LifecycleInv, ActiveKnown
<1>6. \A n \in DOMAIN ses : /\ n # Current => ~ses[n].connecting
                            /\ n < Current /\ ses[n].up => ses[n].close = "closed"
  BY DEF LifecycleInv, SessionsKnown
<1>7. shared.stop => disc.calls > 0 BY DEF LifecycleInv, ActiveKnown
<1>8. run = NoSession /\ work.prior + run.objects = hist.objects BY <1>0 DEF LifecycleInv, CountsKnown, At
<1>12. \A n \in DOMAIN ses' : ~ses'[n].connecting /\ (n < Current /\ ses'[n].up => ses'[n].close = "closed")
  <2> TAKE n \in DOMAIN ses'
  <2>1. CASE n = Current BY <1>1, <1>3, <2>1
  <2>2. CASE n # Current BY <1>3, <1>6, <2>2
  <2> QED BY <2>1, <2>2
<1>9. CASE shared.stop
  <2>1. /\ pub'.pc = (IF ses[Current].up THEN "close" ELSE "stopped") /\ pub'.then = "stopped"
        /\ shared' = shared
    BY <1>0, <1>9, ClosingFacts DEF ConnectFinishes
  <2>2. SessionsKnown' BY <1>0, <1>1, <1>3, <1>12, <2>1 DEF SessionsKnown, At, Libmoq
  <2>3. ActiveKnown' BY <1>1, <1>0, <1>3, <1>5, <1>7, <2>1 DEF ActiveKnown
  <2>4. CountsKnown' BY <1>0, <1>7, <1>8, <1>9, <2>1 DEF CountsKnown, At, Leaves
  <2> QED BY <2>2, <2>3, <2>4 DEF LifecycleInv
<1>10. CASE ~shared.stop /\ ~ses[Current].up
  <2>1. /\ pub'.pc = "attempt" \/ (pub'.pc = "over" /\ pub'.kind = "retryable")
        /\ shared' = Cleared
    BY <1>0, <1>10, ReturnedFacts DEF ConnectFinishes, Outcomes
  <2>2. SessionsKnown' BY <1>0, <1>1, <1>3, <1>10, <1>12, <2>1 DEF SessionsKnown, At, Libmoq
  <2>3. ActiveKnown' BY <1>0, <1>1, <1>3, <1>4, <1>5, <1>10, <2>1 DEF ActiveKnown
  <2>4. CountsKnown' BY <1>0, <1>8, <2>1 DEF CountsKnown, At, Leaves
  <2> QED BY <2>2, <2>3, <2>4 DEF LifecycleInv
<1>11. CASE ~shared.stop /\ ses[Current].up
  <2>1. pub'.pc = "run" /\ shared' = shared BY <1>0, <1>11, GoFacts DEF ConnectFinishes
  <2>2. SessionsKnown' BY <1>0, <1>1, <1>3, <1>12, <2>1 DEF SessionsKnown, At, Libmoq
  <2>3. ActiveKnown' BY <1>0, <1>1, <1>3, <1>5, <1>11, <2>1 DEF ActiveKnown
  <2>4. CountsKnown' BY <1>0, <1>8, <2>1 DEF CountsKnown, At, Leaves
  <2> QED BY <2>2, <2>3, <2>4 DEF LifecycleInv
<1> QED BY <1>9, <1>10, <1>11

\* One of two threads closes a session, which it does not use any more.
LEMMA ClosingStep ==
    ASSUME LifecycleTypes, LifecycleInv, NEW n \in DOMAIN ses, ~ses[n].connecting,
           NEW who \in {"publisher", "disconnect"}, CloseBegins(n, who) \/ CloseEnds(n, who),
           UNCHANGED <<scenario, pub, shared, run, work, disc, hist>>
    PROVE  LifecycleInv'
<1>0. Current \in Nat /\ DOMAIN ses = 1..Current BY SessionFacts
<1>1. PICK close \in {"publisher", "disconnect", "closed"} :
        /\ Became(n, [connecting |-> ses[n].connecting, up |-> ses[n].up, close |-> close])
        /\ ses[n].close # "closed"
  BY ClosesFacts
<1>2. /\ Current' = Current /\ DOMAIN ses' = DOMAIN ses
      /\ \A m \in DOMAIN ses : /\ ses'[m].connecting = ses[m].connecting
                               /\ ses'[m].up = ses[m].up
                               /\ m # n => ses'[m] = ses[m]
      /\ ~ses'[n].connecting
  BY <1>1 DEF Became, Current
<1>3. SessionsKnown'
  <2>1. ~Libmoq
    <3>1. ses # <<>> OBVIOUS
    <3> QED BY <3>1 DEF LifecycleInv, SessionsKnown
  <2>2. \A m \in DOMAIN ses : m # n => ses'[m] = ses[m] BY <1>2
  <2>3. \A m \in DOMAIN ses' :
          /\ ses'[m].connecting => /\ m = Current /\ pub.pc \in {"connect", "connected"}
                                   /\ ses'[m].close = "no"
          /\ m < Current /\ ses'[m].up => ses'[m].close = "closed"
    <3> TAKE m \in DOMAIN ses'
    <3>1. m \in DOMAIN ses BY <1>2
    <3>2. CASE m = n
      <4>1. n < Current => ~ses[n].up BY <1>1 DEF LifecycleInv, SessionsKnown
      <4> QED BY <1>2, <3>2, <4>1
    <3>3. CASE m # n BY <2>2, <3>1, <3>3 DEF LifecycleInv, SessionsKnown
    <3> QED BY <3>2, <3>3
  <2>4. pub.pc \in {"connect", "connected"} => ses'[Current].connecting
    BY <1>0, <1>2, SessionFacts DEF LifecycleInv, SessionsKnown
  <2>5. pub.pc \in {"attempt", "create", "failed", "stopped", "migrate"} /\ Current > 0 =>
          (ses'[Current].up => ses'[Current].close = "closed")
    <3> SUFFICES ASSUME pub.pc \in {"attempt", "create", "failed", "stopped", "migrate"},
                        Current > 0, ses'[Current].up
                 PROVE  ses'[Current].close = "closed"
      OBVIOUS
    <3>1. Current \in DOMAIN ses BY <1>0
    <3>2. ses[Current].up /\ ses[Current].close = "closed" BY <1>2, <3>1 DEF LifecycleInv, SessionsKnown
    <3> QED BY <1>1, <1>2, <3>1, <3>2
  <2>6. /\ pub.pc \in {"connect", "connected", "run", "close", "failed", "stopped", "migrate"} =>
            Current > 0
        /\ At("close") => pub.then # ""
        /\ pub.pc \notin {"register", "libmoq"}
    BY <2>1 DEF LifecycleInv, SessionsKnown
  <2> QED BY <1>2, <2>1, <2>3, <2>4, <2>5, <2>6 DEF SessionsKnown, At, Libmoq
<1>4. ActiveKnown'
  <2>1. Current > 0 /\ ses'[Current].up /\ ses'[Current].close # "closed" =>
          ses[Current].up /\ ses[Current].close # "closed"
    BY <1>0, <1>1, <1>2
  <2>2. disc.pc = "close" => disc.session \in DOMAIN ses' /\ ~ses'[disc.session].connecting
    BY <1>2 DEF LifecycleInv, ActiveKnown
  <2> QED BY <1>2, <2>1, <2>2 DEF LifecycleInv, ActiveKnown
<1>5. CountsKnown' BY DEF LifecycleInv, CountsKnown, At, Leaves, Libmoq
<1> QED BY <1>3, <1>4, <1>5 DEF LifecycleInv

LEMMA PublisherClosesKeeps ==
    ASSUME LifecycleTypes, LifecycleInv, PublisherCloses
    PROVE  LifecycleInv'
<1>0. /\ pub \in Publishes /\ pub.pc = "close" /\ ~Libmoq /\ Current > 0
      /\ pub.then \in {"stopped", "failed", "migrate"}
      /\ UNCHANGED <<scenario, shared, run, work, disc, hist>>
  BY DEF LifecycleTypes, PublisherCloses, At, LifecycleInv, SessionsKnown, Publishes
<1>1. Current \in DOMAIN ses /\ ~ses[Current].connecting
  BY <1>0, SessionFacts DEF LifecycleInv, SessionsKnown
<1>2. CASE CloseBegins(Current, "publisher") /\ UNCHANGED pub BY <1>0, <1>1, <1>2, ClosingStep
<1>3. CASE CloseEnds(Current, "publisher") /\ UNCHANGED pub BY <1>0, <1>1, <1>3, ClosingStep
<1>4. CASE ses[Current].close = "closed" /\ pub' = Go(pub, pub.then) /\ UNCHANGED ses
  <2>1. pub'.pc = pub.then /\ pub'.then = pub.then /\ pub'.kind = pub.kind BY <1>0, <1>4, GoFacts
  <2>2. SessionsKnown' BY <1>0, <1>4, <2>1 DEF LifecycleInv, SessionsKnown, At, Libmoq, Current
  <2>3. ActiveKnown' BY <1>0, <1>4, <2>1 DEF LifecycleInv, ActiveKnown, Current
  <2>4. CountsKnown' BY <1>0, <1>4, <2>1 DEF LifecycleInv, CountsKnown, At, Leaves, Libmoq
  <2> QED BY <2>2, <2>3, <2>4 DEF LifecycleInv
<1> QED BY <1>2, <1>3, <1>4 DEF PublisherCloses

\* The end of a publish, with nothing active.
LEMMA EndsKeeps ==
    ASSUME LifecycleTypes, LifecycleInv, Migrate \/ Failed \/ Stopped
    PROVE  LifecycleInv'
<1>0. /\ pub \in Publishes /\ ~Libmoq /\ Current > 0 /\ run = NoSession
      /\ pub.pc \in {"migrate", "failed", "stopped"}
      /\ UNCHANGED <<scenario, ses, run, disc, hist>>
  BY DEF LifecycleTypes, Migrate, Failed, Stopped, At, LifecycleInv, SessionsKnown, CountsKnown
<1>1. Current \in DOMAIN ses /\ (ses[Current].up => ses[Current].close = "closed")
  BY <1>0, SessionFacts DEF LifecycleInv, SessionsKnown
<1>2. shared'.active = 0 /\ shared'.stop = shared.stop
  BY ClearedFacts DEF Migrate, Failed, Stopped, LifecycleInv, ActiveKnown
<1>3. \/ pub'.pc = "attempt"
      \/ pub'.pc = "over" /\ (pub'.kind = "ok" => disc.calls # 0)
      \/ pub.pc = "migrate" /\ pub'.pc = "create" /\ work'.prior = work.prior
  <2>1. CASE Migrate
    <3>1. CASE pub' = Returned(pub, "fatal") BY <1>0, <3>1, ReturnedFacts DEF Outcomes
    <3>2. CASE pub' # Returned(pub, "fatal")
      <4>1. pub' = [Go(pub, "create") EXCEPT !.migrations = @ + 1] BY <2>1, <3>2 DEF Migrate
      <4>2. Go(pub, "create") \in Publishes /\ Go(pub, "create").pc = "create" BY <1>0, GoFacts
      <4>3. pub'.pc = "create" BY <4>1, <4>2, MigrationCounted
      <4>4. work'.prior = work.prior BY <2>1, <3>2 DEF Migrate, LifecycleTypes, Works
      <4> QED BY <2>1, <4>3, <4>4 DEF Migrate, At
    <3> QED BY <3>1, <3>2
  <2>2. CASE Failed
    <3>1. pub.kind \in Outcomes /\ pub.kind # "ok"
      BY <2>2 DEF Failed, At, LifecycleInv, CountsKnown, Leaves, LifecycleTypes, Publishes, Outcomes
    <3>2. pub' = Returned(pub, pub.kind) BY <2>2 DEF Failed
    <3> QED BY <1>0, <3>1, <3>2, ReturnedFacts
  <2>3. CASE Stopped
    <3>1. disc.calls > 0 /\ disc.calls \in Nat
      BY <2>3 DEF Stopped, At, LifecycleInv, CountsKnown, Leaves, LifecycleTypes, Disconnects
    <3> QED BY <1>0, <2>3, <3>1, ReturnedFacts DEF Stopped, Outcomes
  <2> QED BY <2>1, <2>2, <2>3
<1>4. SessionsKnown' BY <1>0, <1>1, <1>3 DEF LifecycleInv, SessionsKnown, At, Libmoq, Current
<1>5. ActiveKnown' BY <1>0, <1>1, <1>2, <1>3 DEF LifecycleInv, ActiveKnown, Current
<1>6. CountsKnown'
  <2>1. pub'.pc = "create" => work'.prior + run'.objects = hist'.objects
    BY <1>0, <1>3 DEF LifecycleInv, CountsKnown, At, Leaves
  <2> QED BY <1>0, <1>3, <2>1 DEF CountsKnown, At, Leaves
<1> QED BY <1>4, <1>5, <1>6 DEF LifecycleInv

\* disconnect() and the sessions it finds active.
LEMMA DisconnectKeeps ==
    ASSUME LifecycleTypes, LifecycleInv, Disconnecting
    PROVE  LifecycleInv'
<1>0. Current \in Nat /\ DOMAIN ses = 1..Current /\ disc.calls \in Nat
  BY SessionFacts DEF LifecycleTypes, Disconnects
<1>1. CASE DisconnectCalled
  <2> DEFINE n == shared.active
             closes == n # 0 /\ ~ses[n].connecting
  <2>1. /\ disc.pc = "idle" /\ disc'.pc = (IF closes THEN "close" ELSE "idle")
        /\ disc'.session = n /\ disc'.calls = disc.calls + 1
        /\ shared'.active = n /\ shared'.stop = TRUE /\ shared'.objects = shared.objects
        /\ UNCHANGED <<scenario, pub, ses, run, work, hist>>
    BY <1>1 DEF DisconnectCalled, LifecycleTypes, Guarded
  <2>2. n \in {0, Current} BY DEF LifecycleInv, ActiveKnown
  <2>3. disc'.calls > 0 /\ disc'.calls # 0 BY <1>0, <2>1
  <2>4. SessionsKnown' BY <2>1 DEF LifecycleInv, SessionsKnown, At, Libmoq, Current
  <2>5. ActiveKnown'
    <3>1. disc'.pc = "close" => disc'.session \in DOMAIN ses' /\ ~ses'[disc'.session].connecting
      BY <1>0, <2>1, <2>2
    <3>2. pub.pc \in {"run", "over"} /\ n # 0 => disc'.pc = "close"
      <4> SUFFICES ASSUME pub.pc \in {"run", "over"}, n # 0 PROVE disc'.pc = "close" OBVIOUS
      <4>1. n \in DOMAIN ses BY <1>0, <2>2
      <4>2. ~ses[n].connecting BY <4>1 DEF LifecycleInv, SessionsKnown
      <4>3. closes BY <4>2
      <4> HIDE DEF closes
      <4> QED BY <2>1, <4>3
    <3> HIDE DEF n, closes
    <3>3. n = shared.active BY DEF n
    <3> QED BY <2>1, <2>3, <3>1, <3>2, <3>3 DEF LifecycleInv, ActiveKnown, Current
  <2>6. CountsKnown' BY <2>1, <2>3 DEF LifecycleInv, CountsKnown, At, Leaves, Libmoq
  <2> QED BY <2>4, <2>5, <2>6 DEF LifecycleInv
<1>2. CASE DisconnectCloses
  <2>1. disc.session \in DOMAIN ses /\ ~ses[disc.session].connecting
    BY <1>2 DEF DisconnectCloses, LifecycleInv, ActiveKnown
  <2> QED BY <1>2, <2>1, ClosingStep DEF DisconnectCloses
<1>3. CASE DisconnectEnds
  <2>1. /\ disc.pc = "close" /\ ses[disc.session].close = "closed" /\ disc'.pc = "idle"
        /\ disc'.calls = disc.calls
        /\ shared'.active = (IF shared.active = disc.session THEN 0 ELSE shared.active)
        /\ shared'.stop = shared.stop /\ shared'.objects = shared.objects
        /\ UNCHANGED <<scenario, pub, ses, run, work, hist>>
    BY <1>3 DEF DisconnectEnds, LifecycleTypes, Guarded, Disconnects
  <2>2. disc.session \in DOMAIN ses /\ ~ses[disc.session].connecting BY <2>1 DEF LifecycleInv, ActiveKnown
  <2>3. SessionsKnown' BY <2>1 DEF LifecycleInv, SessionsKnown, At, Libmoq, Current
  <2>4. ActiveKnown' BY <1>0, <2>1, <2>2 DEF LifecycleInv, SessionsKnown, ActiveKnown, Current
  <2>5. CountsKnown' BY <2>1 DEF LifecycleInv, CountsKnown, At, Leaves, Libmoq
  <2> QED BY <2>3, <2>4, <2>5 DEF LifecycleInv
<1> QED BY <1>1, <1>2, <1>3 DEF Disconnecting

\* The session that runs is over.
LEMMA SessionEndsKeeps ==
    ASSUME LifecycleTypes, LifecycleInv, SessionReturns \/ SessionStops \/ SessionFails \/ Goaway
    PROVE  LifecycleInv'
<1>0. /\ pub \in Publishes /\ pub.pc = "run" /\ Current > 0 /\ ~Libmoq
      /\ Current \in DOMAIN ses /\ work.prior + run.objects = hist.objects
      /\ work.prior \in Nat /\ run.objects \in Nat
  BY SessionFacts DEF LifecycleTypes, SessionReturns, SessionStops, SessionFails, Goaway, At, LifecycleInv,
     SessionsKnown, CountsKnown, Works, Runs
<1>1. CASE SessionReturns \/ SessionStops
  <2>1. /\ run' = NoSession
        /\ shared'.stop = shared.stop /\ shared'.active = shared.active
        /\ shared'.objects = hist.objects
        /\ UNCHANGED <<scenario, ses, disc, hist>>
    BY <1>0, <1>1, ReturnsFacts
  <2>2. pub'.pc = "over" /\ pub'.kind = "ok" BY <1>0, <1>1, ReturnsFacts, ReturnedFacts DEF Outcomes
  <2>3. SessionsKnown' BY <1>0, <2>1, <2>2 DEF LifecycleInv, SessionsKnown, At, Libmoq, Current
  <2>4. ActiveKnown' BY <1>0, <2>1, <2>2 DEF LifecycleInv, ActiveKnown, Current
  <2>5. CountsKnown' BY <2>1, <2>2 DEF CountsKnown, At, Leaves
  <2> QED BY <2>3, <2>4, <2>5 DEF LifecycleInv
<1>2. CASE SessionFails \/ Goaway
  <2>1. /\ run' = NoSession /\ UNCHANGED <<scenario, shared, ses, disc>> BY <1>2, FailsFacts, GoawayFacts
  <2>2. \/ /\ pub'.then = "stopped" /\ shared.stop
           /\ pub'.pc = IF ses[Current].up THEN "close" ELSE "stopped"
        \/ /\ pub'.then = "failed" /\ pub'.kind # "ok"
           /\ pub'.pc = IF ses[Current].up THEN "close" ELSE "failed"
        \/ /\ pub'.then = "migrate" /\ pub'.pc = (IF ses[Current].up THEN "close" ELSE "migrate")
           /\ work'.prior = work.prior + run.objects /\ hist' = hist
    <3>1. CASE SessionFails BY <1>0, <3>1, FailsFacts, ClosingFacts DEF Failures
    <3>2. CASE Goaway BY <1>0, <3>2, GoawayFacts, ClosingFacts
    <3> QED BY <1>2, <3>1, <3>2
  <2>3. shared.stop => disc.calls > 0 BY DEF LifecycleInv, ActiveKnown
  <2>4. SessionsKnown'
    <3>1. /\ pub'.pc \in {"close", "stopped", "failed", "migrate"} /\ pub'.then # ""
          /\ pub'.pc # "close" => ~ses[Current].up
      BY <2>2
    <3> QED BY <1>0, <2>1, <3>1 DEF LifecycleInv, SessionsKnown, At, Libmoq, Current
  <2>5. ActiveKnown'
    <3>1. pub'.pc \in {"close", "stopped", "failed", "migrate"} BY <2>2
    <3> QED BY <1>0, <2>1, <3>1 DEF LifecycleInv, ActiveKnown, Current
  <2>6. CountsKnown'
    <3>1. Leaves("migrate")' => work'.prior + run'.objects = hist'.objects
      <4>1. Leaves("migrate")' => work'.prior = hist'.objects BY <1>0, <2>2 DEF Leaves, At
      <4>2. run'.objects = 0 /\ hist.objects \in Nat BY <1>0, <2>1 DEF NoSession
      <4>3. Leaves("migrate")' => work'.prior \in Nat BY <1>0, <2>2 DEF Leaves, At
      <4> QED BY <4>1, <4>2, <4>3
    <3>2. Leaves("stopped")' => disc'.calls > 0 BY <2>1, <2>2, <2>3 DEF Leaves, At
    <3>3. Leaves("failed")' => pub'.kind # "ok" BY <2>2 DEF Leaves, At
    <3>4. pub'.pc \in {"close", "stopped", "failed", "migrate"} BY <2>2
    <3> QED BY <2>1, <3>1, <3>2, <3>3, <3>4 DEF CountsKnown, At
  <2> QED BY <2>4, <2>5, <2>6 DEF LifecycleInv
<1> QED BY <1>1, <1>2

\* A step inside a running session.
LEMMA SessionRunsKeeps ==
    ASSUME LifecycleTypes, LifecycleInv,
           Floors \/ ReadInit \/ StartInput \/ SendCatalog \/ ReadFragment \/ SkipFragment
             \/ TakeFragment \/ SendFragment \/ ReplayCatalog \/ NextObject
    PROVE  LifecycleInv'
<1>1. CASE Floors BY <1>1, FloorsFacts, CountingStep DEF Floors
<1>2. CASE ReadInit BY <1>2, ReadInitFacts, CountingStep DEF ReadInit
<1>3. CASE StartInput BY <1>3, StartInputFacts, CountingStep DEF StartInput
<1>4. CASE SendCatalog BY <1>4, SendCatalogFacts, CountingStep DEF SendCatalog
<1>5. CASE SendFragment
  <2>1. run'.objects = run.objects + 1 /\ hist'.objects = hist.objects + 1 BY <1>5, SendFragmentFacts
  <2>2. UNCHANGED <<scenario, pub, shared, ses, work, disc>> /\ At("run") BY <1>5, SendFragmentFacts
  <2> QED BY <2>1, <2>2, CountingStep
<1>6. CASE ReplayCatalog
  <2>1. /\ run'.objects = run.objects + 1 /\ work \in Works /\ hist \in Histories
        /\ work' = [work EXCEPT !.replay = work.replay + 1]
        /\ hist' = [hist EXCEPT !.objects = hist.objects + 1]
    BY <1>6, ReplayCatalogFacts DEF LifecycleTypes
  <2>2. work'.prior = work.prior /\ hist'.objects = hist.objects + 1 BY <2>1 DEF Works, Histories
  <2>3. UNCHANGED <<scenario, pub, shared, ses, disc>> /\ At("run") BY <1>6 DEF ReplayCatalog
  <2> QED BY <2>1, <2>2, <2>3, CountingStep
<1>7. CASE NextObject
  <2>1. /\ run'.objects = run.objects + 1 /\ work'.prior = work.prior /\ hist \in Histories
        /\ hist' = [hist EXCEPT !.objects = hist.objects + 1]
    BY <1>7, NextObjectFacts DEF LifecycleTypes
  <2>2. hist'.objects = hist.objects + 1 BY <2>1 DEF Histories
  <2>3. UNCHANGED <<scenario, pub, shared, ses, disc>> /\ At("run") BY <1>7 DEF NextObject
  <2> QED BY <2>1, <2>2, <2>3, CountingStep
<1>8. CASE ReadFragment \/ SkipFragment \/ TakeFragment BY <1>8, FragmentFacts, CountingStep
<1> QED BY <1>1, <1>2, <1>3, <1>4, <1>5, <1>6, <1>7, <1>8

LEMMA LifecycleStep ==
    LifecycleTypes /\ LifecycleInv /\ [LifecycleNext]_lifecycleVars =>
      LifecycleTypes' /\ LifecycleInv'
<1> SUFFICES ASSUME LifecycleTypes, LifecycleInv, [LifecycleNext]_lifecycleVars
             PROVE  LifecycleTypes' /\ LifecycleInv'
  OBVIOUS
<1>1. CASE Lifecycle
  BY <1>1, ThreadTypes, EnterKeeps, RegisterKeeps, SessionMadeKeeps, ConnectsKeeps, ConnectFinishesKeeps,
     PublisherClosesKeeps, EndsKeeps DEF Lifecycle
<1>2. CASE Session
  BY <1>2, ThreadTypes, SessionTypes, LibmoqReturnsKeeps, SessionEndsKeeps, SessionRunsKeeps DEF Session
<1>3. CASE Disconnecting BY <1>3, DisconnectTypes, DisconnectKeeps
<1>4. CASE UNCHANGED lifecycleVars
  <2>1. LifecycleTypes' BY <1>4 DEF lifecycleVars, LifecycleTypes
  <2>2. SessionsKnown' /\ ActiveKnown' BY <1>4, QuietStep DEF lifecycleVars
  <2>3. CountsKnown' BY <1>4 DEF lifecycleVars, LifecycleInv, CountsKnown, At, Leaves, Libmoq
  <2> QED BY <2>1, <2>2, <2>3 DEF LifecycleInv
<1> QED BY <1>1, <1>2, <1>3, <1>4 DEF LifecycleNext

LEMMA LifecycleInvariant == LifecycleSpec => [](LifecycleTypes /\ LifecycleInv)
  BY LifecycleInitial, LifecycleStep, PTL DEF LifecycleSpec

\* Sessions are connected, closed and counted once (ActiveSession, disconnect()
\* and clear_active_session() in publisher_api.cpp): whatever disconnect()
\* meets, a connecting session is not closed, nothing stays up once it and the
\* publish have returned, and a publish that succeeds counts all it sent.
THEOREM SessionsClosedOnce == LifecycleSpec => []LifecycleSound
<1>1. LifecycleTypes /\ LifecycleInv => LifecycleSound
  <2> SUFFICES ASSUME LifecycleTypes, LifecycleInv PROVE LifecycleSound OBVIOUS
  <2>0. Current \in Nat /\ DOMAIN ses = 1..Current BY SessionFacts
  <2>1. ConnectIsSafe
    <3> SUFFICES ASSUME At("connect") PROVE ses[Current].close = "no" BY DEF ConnectIsSafe
    <3>1. Current \in DOMAIN ses /\ ses[Current].connecting
      BY SessionFacts DEF At, LifecycleInv, SessionsKnown
    <3> QED BY <3>1 DEF LifecycleInv, SessionsKnown
  <2>2. NothingStaysUp
    <3> SUFFICES ASSUME At("over"), disc.pc = "idle", shared.stop
                 PROVE  /\ shared.active = 0
                        /\ \A n \in DOMAIN ses : ses[n].up => ses[n].close = "closed"
      BY DEF NothingStaysUp
    <3>1. shared.active = 0 BY DEF At, LifecycleInv, ActiveKnown
    <3>2. ASSUME NEW n \in DOMAIN ses, ses[n].up PROVE ses[n].close = "closed"
      <4>1. CASE n < Current BY <3>2, <4>1 DEF LifecycleInv, SessionsKnown
      <4>2. CASE n = Current
        <5>1. Current > 0 BY <2>0, <4>2
        <5> QED BY <2>0, <3>1, <3>2, <4>2, <5>1 DEF At, LifecycleInv, ActiveKnown
      <4> QED BY <2>0, <4>1, <4>2
    <3> QED BY <3>1, <3>2
  <2>3. StatsExact BY DEF StatsExact, LifecycleInv, CountsKnown
  <2> QED BY <2>1, <2>2, <2>3 DEF LifecycleSound
<1> QED BY <1>1, LifecycleInvariant, PTL

(* ---- a later session continues where one stopped ---- *)

\* A step of the publishing thread between two sessions: what is sent, read and
\* saved stays, and a session that connects is a new one.
BetweenSessions ==
  /\ ~At("run") /\ run = NoSession /\ run' = NoSession
  /\ UNCHANGED <<scenario, resume, src>>
  /\ hist'.media = hist.media /\ hist'.catalogs = hist.catalogs /\ Passed' = Passed
  /\ Continues' => Continues
  /\ \/ Current' = Current + 1
     \/ /\ Current' = Current
        /\ pub'.pc \in {"connect", "connected", "run"} => pub.pc \in {"connect", "connected"}
  /\ Carries' =>
       \/ work'.bytes = resume.bytes /\ work'.floor = resume.floor /\ work'.catalog = resume.catalog
       \/ /\ Carries
          /\ work'.bytes = work.bytes /\ work'.floor = work.floor /\ work'.catalog = work.catalog

LEMMA ThreadFacts ==
    ASSUME LifecycleTypes, LifecycleInv,
           Enter \/ Register \/ LibmoqReturns \/ SessionMade \/ Connects \/ ConnectFinishes
             \/ Migrate \/ Failed \/ Stopped \/ PublisherCloses
    PROVE  BetweenSessions
<1>0. /\ pub \in Publishes /\ ~At("run") /\ run = NoSession /\ UNCHANGED <<scenario, resume, src>>
      /\ Current \in Nat
  BY SessionFacts DEF Enter, Register, LibmoqReturns, SessionMade, Connects, ConnectFinishes, Migrate,
     Failed, Stopped, PublisherCloses, At, LifecycleTypes, LifecycleInv, CountsKnown
<1>1. CASE Enter
  <2>1. /\ pub.pc = "attempt" /\ Current' = Current /\ run' = run
        /\ pub'.pc \in {"register", "create"}
    BY <1>1 DEF Enter, At, Go, LifecycleTypes, Publishes, Current
  <2>2. hist'.media = hist.media /\ hist'.catalogs = hist.catalogs /\ Passed' = Passed
    BY <1>1 DEF Enter, LifecycleTypes, Histories, Passed
  <2>3. work'.bytes = resume.bytes /\ work'.floor = resume.floor /\ work'.catalog = resume.catalog
    BY <1>1 DEF Enter, NoWork
  <2> QED BY <1>0, <2>1, <2>2, <2>3 DEF BetweenSessions, Continues, At
<1>2. CASE Register \/ LibmoqReturns
  <2>1. /\ pub'.pc \in {"libmoq", "over"} /\ Current' = Current /\ run' = run /\ hist' = hist
    <3>1. CASE Register BY <1>0, <3>1 DEF Register, Go, Publishes, Current
    <3>2. CASE LibmoqReturns
      <4>1. PICK kind \in {"ok", "fatal"} : pub' = Returned(pub, kind) BY <3>2 DEF LibmoqReturns
      <4>2. pub'.pc = "over" BY <1>0, <4>1, ReturnedFacts DEF Outcomes
      <4> QED BY <3>2, <4>2 DEF LibmoqReturns, Current
    <3> QED BY <1>2, <3>1, <3>2
  <2> QED BY <1>0, <2>1 DEF BetweenSessions, Continues, Carries, Leaves, At, Passed
<1>3. CASE SessionMade
  <2>0. pub.pc = "create" /\ hist' = hist /\ work' = work BY <1>3 DEF SessionMade, At
  <2>1. CASE shared.stop
    <3>1. pub'.pc = "over" /\ run' = run /\ Current' = Current
      BY <1>0, <1>3, <2>1, ReturnedFacts DEF SessionMade, Outcomes, Current
    <3> QED BY <1>0, <2>0, <3>1 DEF BetweenSessions, Passed, Continues, Carries, Leaves, At
  <2>2. CASE ~shared.stop
    <3> DEFINE r == [connecting |-> TRUE, up |-> FALSE, close |-> "no"]
    <3>1. ses' = Append(ses, r) /\ run' = NoSession /\ pub'.pc = "connect"
      BY <1>0, <1>3, <2>2 DEF SessionMade, Go, Publishes
    <3>2. r \in Sessions /\ ses \in Seq(Sessions) BY DEF Sessions, LifecycleTypes
    <3>3. Current' = Current + 1 BY <3>1, <3>2, AppendFacts DEF Current
    <3> QED BY <1>0, <2>0, <3>1, <3>3 DEF BetweenSessions, Passed, Continues, Carries, Leaves, At
  <2> QED BY <2>1, <2>2
<1>4. CASE Connects
  <2>1. Current' = Current BY <1>4, ConnectsFacts DEF Became, Current
  <2>2. /\ pub.pc = "connect" /\ pub'.pc = "connected" /\ run' = run /\ hist' = hist /\ work' = work
    BY <1>0, <1>4 DEF Connects, At, Go, Publishes
  <2> QED BY <1>0, <2>1, <2>2 DEF BetweenSessions, Passed, Continues, Carries, Leaves, At
<1>5. CASE ConnectFinishes
  <2>1. Current' = Current BY <1>5, FinishesFacts DEF Became, Current
  <2>2. pub.pc = "connected" /\ run' = run /\ hist' = hist /\ work' = work BY <1>5 DEF ConnectFinishes, At
  <2>3. \/ pub'.then = "stopped" /\ pub'.pc \in {"close", "stopped"}
        \/ pub'.pc \in {"attempt", "over"}
        \/ pub'.pc = "run"
    <3>1. CASE shared.stop BY <1>0, <1>5, <3>1, ClosingFacts DEF ConnectFinishes
    <3>2. CASE ~shared.stop /\ ~ses[Current].up
      BY <1>0, <1>5, <3>2, ReturnedFacts DEF ConnectFinishes, Outcomes
    <3>3. CASE ~shared.stop /\ ses[Current].up BY <1>0, <1>5, <3>3, GoFacts DEF ConnectFinishes
    <3> QED BY <3>1, <3>2, <3>3
  <2>4. Carries BY <2>2 DEF Carries
  <2> QED BY <1>0, <2>1, <2>2, <2>3, <2>4 DEF BetweenSessions, Passed, Continues, Carries, Leaves, At
<1>6. CASE Migrate
  <2>0. pub.pc = "migrate" /\ hist' = hist /\ run' = run /\ Current' = Current
    BY <1>6 DEF Migrate, At, Current
  <2>1. CASE pub' = Returned(pub, "fatal")
    <3>1. pub'.pc = "over" BY <1>0, <2>1, ReturnedFacts DEF Outcomes
    <3> QED BY <1>0, <2>0, <3>1 DEF BetweenSessions, Passed, Continues, Carries, Leaves, At
  <2>2. CASE pub' # Returned(pub, "fatal")
    <3>1. pub' = [Go(pub, "create") EXCEPT !.migrations = @ + 1] BY <1>6, <2>2 DEF Migrate
    <3>2. Go(pub, "create") \in Publishes /\ Go(pub, "create").pc = "create" BY <1>0, GoFacts
    <3>3. pub'.pc = "create" BY <3>1, <3>2, MigrationCounted
    <3>4. work'.bytes = work.bytes /\ work'.floor = work.floor /\ work'.catalog = work.catalog
      BY <1>6, <2>2 DEF Migrate, LifecycleTypes, Works
    <3>5. Carries BY <2>0 DEF Carries, Leaves, At
    <3> QED BY <1>0, <2>0, <3>3, <3>4, <3>5 DEF BetweenSessions, Passed, Continues
  <2> QED BY <2>1, <2>2
<1>7. CASE Failed
  <2>1. pub.kind \in Outcomes BY <1>0 DEF Publishes, Outcomes
  <2>2. pub'.pc = "over" \/ (pub'.pc = "attempt" /\ pub.kind = "retryable")
    BY <1>0, <1>7, <2>1, ReturnedFacts DEF Failed
  <2>3. pub.pc = "failed" /\ hist' = hist /\ run' = run /\ Current' = Current
    BY <1>7 DEF Failed, At, Current
  <2> QED BY <1>0, <2>2, <2>3 DEF BetweenSessions, Passed, Continues, Carries, Leaves, At
<1>8. CASE Stopped
  <2>1. pub'.pc = "over" BY <1>0, <1>8, ReturnedFacts DEF Stopped, Outcomes
  <2>2. hist' = hist /\ run' = run /\ Current' = Current BY <1>8 DEF Stopped, Current
  <2> QED BY <1>0, <2>1, <2>2 DEF BetweenSessions, Passed, Continues, Carries, Leaves, At
<1>9. CASE PublisherCloses
  <2>0. /\ pub.pc = "close" /\ hist' = hist /\ run' = run /\ work' = work
        /\ pub.then \in {"stopped", "failed", "migrate"} /\ Current \in DOMAIN ses
    BY <1>9, SessionFacts DEF PublisherCloses, At, LifecycleInv, SessionsKnown, LifecycleTypes, Publishes
  <2>1. Current' = Current BY <1>9, <2>0, ClosesFacts DEF PublisherCloses, Became, Current
  <2>2. pub' = pub \/ (pub'.pc = pub.then /\ pub'.then = pub.then /\ pub'.kind = pub.kind)
    BY <1>0, <1>9, <2>0, GoFacts DEF PublisherCloses
  <2> QED BY <1>0, <2>0, <2>1, <2>2 DEF BetweenSessions, Passed, Continues, Carries, Leaves, At
<1> QED BY <1>1, <1>2, <1>3, <1>4, <1>5, <1>6, <1>7, <1>8, <1>9

\* What is known of all that was sent.
LEMMA SentTyped ==
    ASSUME LifecycleTypes
    PROVE  /\ hist.media \in Seq(Nat \X Nat \X Nat) /\ hist.catalogs \in Seq(Nat \X Nat)
           /\ DOMAIN hist.media = 1..Len(hist.media) /\ Len(hist.media) \in Nat
           /\ DOMAIN hist.catalogs = 1..Len(hist.catalogs) /\ Len(hist.catalogs) \in Nat
           /\ \A i \in DOMAIN hist.media :
                hist.media[i][1] \in Nat /\ hist.media[i][2] \in Nat /\ hist.media[i][3] \in Nat
           /\ \A i \in DOMAIN hist.catalogs :
                hist.catalogs[i][1] \in Nat /\ hist.catalogs[i][2] \in Nat
<1>0. hist.media \in Seq(Nat \X Nat \X Nat) /\ hist.catalogs \in Seq(Nat \X Nat)
  BY DEF LifecycleTypes, Histories
<1>1. /\ DOMAIN hist.media = 1..Len(hist.media) /\ Len(hist.media) \in Nat
      /\ DOMAIN hist.catalogs = 1..Len(hist.catalogs) /\ Len(hist.catalogs) \in Nat
  BY <1>0, LenProperties
<1>2. ASSUME NEW i \in DOMAIN hist.media
      PROVE  hist.media[i][1] \in Nat /\ hist.media[i][2] \in Nat /\ hist.media[i][3] \in Nat
  <2>1. hist.media[i] \in Nat \X Nat \X Nat BY <1>0, <1>1, ElementOfSeq
  <2> QED BY <2>1
<1>3. ASSUME NEW i \in DOMAIN hist.catalogs
      PROVE  hist.catalogs[i][1] \in Nat /\ hist.catalogs[i][2] \in Nat
  <2>1. hist.catalogs[i] \in Nat \X Nat BY <1>0, <1>1, ElementOfSeq
  <2> QED BY <2>1
<1> QED BY <1>0, <1>1, <1>2, <1>3

LEMMA SentMore ==
    ASSUME LifecycleTypes, NEW n \in Int, NEW m \in Int, n <= m, SentUpTo(n)
    PROVE  SentUpTo(m)
<1>1. ASSUME NEW i \in DOMAIN hist.media PROVE hist.media[i][1] <= m
  <2>1. hist.media[i][1] \in Nat BY SentTyped
  <2>2. hist.media[i][1] <= n BY DEF SentUpTo
  <2> QED BY <2>1, <2>2
<1>2. ASSUME NEW i \in DOMAIN hist.catalogs PROVE hist.catalogs[i][1] <= m
  <2>1. hist.catalogs[i][1] \in Nat BY SentTyped
  <2>2. hist.catalogs[i][1] <= n BY DEF SentUpTo
  <2> QED BY <2>1, <2>2
<1> QED BY <1>1, <1>2 DEF SentUpTo

LEMMA BetweenKeepsGroups ==
    ASSUME LifecycleTypes, GroupsKnown, BetweenSessions
    PROVE  GroupsKnown'
<1>0. Current \in Nat /\ hist.media \in Seq(Nat \X Nat \X Nat) /\ hist.catalogs \in Seq(Nat \X Nat)
  BY SessionFacts DEF LifecycleTypes, Histories
<1>1. Current' \in Nat /\ Current <= Current' BY <1>0 DEF BetweenSessions
<1>3. ~Underway /\ ~Underway' BY DEF BetweenSessions, Underway, NoSession
<1>4. hist'.media # <<>> \/ hist'.catalogs # <<>> \/ run'.phase # "floors" => Fragments'
  BY DEF BetweenSessions, GroupsKnown, Fragments
<1>5. GroupsNeverReused' BY DEF BetweenSessions, GroupsKnown, GroupsNeverReused
<1>6. SentUpTo(Current)'
  <2>1. SentUpTo(Current') BY <1>0, <1>1, SentMore DEF GroupsKnown
  <2> QED BY <2>1 DEF BetweenSessions, SentUpTo
<1>7. (Continues /\ Fragments)' => (MediaBelow(FreeMedia) /\ CatalogsBelow(FreeCatalog))'
  BY <1>3 DEF BetweenSessions, GroupsKnown, Fragments, MediaBelow, CatalogsBelow, FreeMedia, FreeCatalog
<1>8. pub'.pc \in {"connect", "connected", "run"} => SentUpTo(Current - 1)'
  <2>1. CASE Current' = Current + 1
    <3>1. Current' - 1 = Current BY <1>0, <2>1
    <3>2. SentUpTo(Current' - 1) BY <3>1 DEF GroupsKnown
    <3> QED BY <3>2 DEF BetweenSessions, SentUpTo
  <2>2. CASE Current' = Current BY <1>0, <2>2 DEF BetweenSessions, GroupsKnown, SentUpTo
  <2> QED BY <2>1, <2>2 DEF BetweenSessions
<1>9. (Carries /\ Fragments)' => /\ work'.bytes = resume'.bytes /\ work'.floor = resume'.floor
                                /\ work'.catalog = resume'.catalog
  BY DEF BetweenSessions, GroupsKnown, Fragments
<1> QED BY <1>3, <1>4, <1>5, <1>6, <1>7, <1>8, <1>9 DEF GroupsKnown, At

LEMMA BetweenKeepsInput ==
    ASSUME LifecycleTypes, InputKnown, BetweenSessions
    PROVE  InputKnown'
<1>1. /\ ~At("run") /\ run'.phase = "floors" /\ run'.saved = NoBytes
      /\ run'.hand = 0 /\ run.hand = 0
  BY DEF BetweenSessions, NoSession
<1>2. HeldInput = Rest(resume.bytes) /\ HeldInput' = Rest(resume'.bytes) BY <1>1 DEF HeldInput
<1>3. HeldInput' = HeldInput /\ hist'.media = hist.media /\ Passed' = Passed /\ src' = src
      /\ ((Continues /\ Fragments)' => Continues /\ Fragments) /\ SentFragments' = SentFragments
  BY <1>2 DEF BetweenSessions, Fragments, SentFragments
<1>4. Unsent(HeldInput) => Unsent(HeldInput)' BY <1>3 DEF Unsent
<1>5. (Continues /\ Fragments)' =>
        /\ Unsent(HeldInput)'
        /\ 1..src'.at \subseteq SentFragments' \cup Passed'
              \cup {HeldInput'[k] : k \in DOMAIN HeldInput'} \cup {run'.hand}
  BY <1>1, <1>3, <1>4 DEF InputKnown
<1> QED BY <1>1, <1>3, <1>5 DEF InputKnown

LEMMA GroupsMore ==
    ASSUME LifecycleTypes, NEW a \in Int, NEW b \in Int, a <= b
    PROVE  /\ MediaBelow(a) => MediaBelow(b)
           /\ CatalogsBelow(a) => CatalogsBelow(b)
<1>1. ASSUME MediaBelow(a), NEW i \in DOMAIN hist.media PROVE hist.media[i][2] < b
  <2>1. hist.media[i][2] \in Nat /\ hist.media[i][2] < a BY <1>1, SentTyped DEF MediaBelow
  <2> QED BY <2>1
<1>2. ASSUME CatalogsBelow(a), NEW i \in DOMAIN hist.catalogs PROVE hist.catalogs[i][2] < b
  <2>1. hist.catalogs[i][2] \in Nat /\ hist.catalogs[i][2] < a BY <1>2, SentTyped DEF CatalogsBelow
  <2> QED BY <2>1
<1> QED BY <1>1, <1>2 DEF MediaBelow, CatalogsBelow

\* A step of a running session that sends nothing in a group.
SendsNoGroup ==
  /\ At("run") /\ UNCHANGED <<scenario, pub, ses, resume>>
  /\ hist'.media = hist.media /\ hist'.catalogs = hist.catalogs
  /\ work'.bytes = work.bytes /\ work'.floor = work.floor /\ work'.catalog = work.catalog

LEMMA SameGroups ==
    ASSUME LifecycleTypes, GroupsKnown, SendsNoGroup, KeepsGroups, Underway' <=> Underway,
           run'.phase # "floors" => Fragments
    PROVE  GroupsKnown'
<1>1. Current' = Current /\ Fragments' = Fragments /\ At("run")' /\ Carries /\ Continues
  BY DEF SendsNoGroup, Current, Fragments, At, Carries, Continues
<1>2. GroupsNeverReused' BY DEF SendsNoGroup, GroupsKnown, GroupsNeverReused
<1>3. SentUpTo(Current)' BY <1>1 DEF SendsNoGroup, GroupsKnown, SentUpTo
<1>4. ~Underway' => SentUpTo(Current - 1)' BY <1>1 DEF SendsNoGroup, GroupsKnown, SentUpTo
<1>5. FreeMedia' = FreeMedia /\ FreeCatalog' = FreeCatalog
  BY DEF SendsNoGroup, KeepsGroups, FreeMedia, FreeCatalog
<1>6. Fragments' => MediaBelow(FreeMedia)' /\ CatalogsBelow(FreeCatalog)'
  BY <1>1, <1>5 DEF SendsNoGroup, GroupsKnown, MediaBelow, CatalogsBelow
<1>7. Underway' => \A i \in DOMAIN hist'.media :
                     hist'.media[i][1] < Current' => hist'.media[i][2] < run'.floor
  BY <1>1 DEF SendsNoGroup, KeepsGroups, GroupsKnown
<1>8. Fragments' => /\ work'.bytes = resume'.bytes /\ work'.floor = resume'.floor
                    /\ work'.catalog = resume'.catalog
  BY <1>1 DEF SendsNoGroup, GroupsKnown
<1>9. pub'.pc = "run" BY <1>1 DEF At
<1>10. hist'.media # <<>> \/ hist'.catalogs # <<>> \/ run'.phase # "floors" => Fragments'
  BY <1>1 DEF SendsNoGroup, GroupsKnown
<1> QED BY <1>2, <1>3, <1>4, <1>6, <1>7, <1>8, <1>9, <1>10 DEF GroupsKnown

LEMMA RunKeepsGroups ==
    ASSUME LifecycleTypes, GroupsKnown,
           Floors \/ ReadInit \/ StartInput \/ ReadFragment \/ SkipFragment \/ TakeFragment
             \/ ReplayCatalog \/ NextObject
    PROVE  GroupsKnown'
<1>1. CASE Floors
  <2>0. SendsNoGroup /\ Fragments /\ ~Underway /\ hist' = hist BY <1>1 DEF Floors, SendsNoGroup, Underway
  <2>1. CASE run'.phase = "refused"
    <3>1. KeepsGroups /\ ~Underway' BY <1>1, <2>1, FloorsFacts DEF Underway
    <3> QED BY <2>0, <3>1, SameGroups
  <2>2. CASE run'.phase # "refused"
    <3>1. /\ run' \in Runs /\ run'.phase = "setup" /\ run'.floor >= work.floor
          /\ run'.group = run'.floor - 1 /\ run'.next >= work.catalog
      BY <1>1, <2>2, FloorsFacts
    <3>2. Current' = Current /\ Carries /\ Carries' /\ Fragments' /\ Continues /\ Underway'
          /\ pub'.pc = "run"
      BY <2>0, <3>1 DEF SendsNoGroup, Current, Carries, Continues, Fragments, Underway, At
    <3>3. run'.floor \in Nat /\ run'.next \in Nat /\ resume.floor \in Nat
          /\ resume.catalog \in Nat
      BY <3>1 DEF Runs, LifecycleTypes, Resumes
    <3>4. run'.floor >= resume.floor /\ run'.next >= resume.catalog
          /\ MediaBelow(resume.floor) /\ CatalogsBelow(resume.catalog)
      BY <2>0, <3>1, <3>2 DEF GroupsKnown, FreeMedia, FreeCatalog
    <3>5. MediaBelow(run'.floor) /\ CatalogsBelow(run'.next) BY <3>3, <3>4, GroupsMore
    <3>6. FreeMedia' = run'.floor /\ FreeCatalog' = run'.next BY <3>1, <3>2, <3>3 DEF FreeMedia, FreeCatalog
    <3>7. MediaBelow(FreeMedia)' /\ CatalogsBelow(FreeCatalog)'
      BY <2>0, <3>5, <3>6 DEF MediaBelow, CatalogsBelow
    <3>8. \A i \in DOMAIN hist'.media : hist'.media[i][2] < run'.floor BY <2>0, <3>5 DEF MediaBelow
    <3>9. GroupsNeverReused' /\ SentUpTo(Current)'
      BY <2>0, <3>2 DEF GroupsKnown, GroupsNeverReused, SentUpTo
    <3>10. /\ work'.bytes = resume'.bytes /\ work'.floor = resume'.floor
           /\ work'.catalog = resume'.catalog
      BY <2>0, <3>2 DEF SendsNoGroup, GroupsKnown
    <3> QED BY <3>2, <3>7, <3>8, <3>9, <3>10 DEF GroupsKnown, At
  <2> QED BY <2>1, <2>2
<1>2. CASE ReadInit
  <2>1. KeepsGroups /\ run'.phase = "read" BY <1>2, ReadInitFacts
  <2>2. SendsNoGroup /\ Underway /\ Underway' /\ Fragments
    BY <1>2, <2>1 DEF ReadInit, SendsNoGroup, Underway, At, GroupsKnown
  <2> QED BY <2>1, <2>2, SameGroups
<1>3. CASE StartInput
  <2>1. KeepsGroups /\ run'.phase = "live" BY <1>3, StartInputFacts
  <2>2. SendsNoGroup /\ Underway /\ Underway' /\ Fragments
    BY <1>3, <2>1 DEF StartInput, SendsNoGroup, Underway, At, GroupsKnown
  <2> QED BY <2>1, <2>2, SameGroups
<1>4. CASE ReplayCatalog
  <2>1. KeepsGroups /\ run'.phase = run.phase /\ hist \in Histories /\ work \in Works
        /\ hist' = [hist EXCEPT !.objects = hist.objects + 1]
        /\ work' = [work EXCEPT !.replay = work.replay + 1]
    BY <1>4, ReplayCatalogFacts DEF LifecycleTypes
  <2>2. /\ hist'.media = hist.media /\ hist'.catalogs = hist.catalogs
        /\ work'.bytes = work.bytes /\ work'.floor = work.floor /\ work'.catalog = work.catalog
    BY <2>1 DEF Histories, Works
  <2>3. SendsNoGroup BY <1>4, <2>2 DEF ReplayCatalog, SendsNoGroup
  <2>4. Underway' <=> Underway BY <2>1, <2>3 DEF SendsNoGroup, Underway, At
  <2> QED BY <2>1, <2>3, <2>4, SameGroups DEF GroupsKnown
<1>5. CASE NextObject
  <2>1. KeepsGroups /\ run'.phase = run.phase /\ hist \in Histories
        /\ hist' = [hist EXCEPT !.objects = hist.objects + 1]
        /\ work'.bytes = work.bytes /\ work'.floor = work.floor /\ work'.catalog = work.catalog
    BY <1>5, NextObjectFacts DEF LifecycleTypes
  <2>2. hist'.media = hist.media /\ hist'.catalogs = hist.catalogs BY <2>1 DEF Histories
  <2>3. SendsNoGroup BY <1>5, <2>1, <2>2 DEF NextObject, SendsNoGroup
  <2>4. Underway' <=> Underway BY <2>1, <2>3 DEF SendsNoGroup, Underway, At
  <2> QED BY <2>1, <2>3, <2>4, SameGroups DEF GroupsKnown
<1>6. CASE ReadFragment \/ SkipFragment \/ TakeFragment
  <2>1. KeepsGroups /\ At("run") /\ run.phase = "live" /\ run'.phase = "live"
        /\ hist'.media = hist.media /\ hist'.catalogs = hist.catalogs
        /\ UNCHANGED <<scenario, pub, ses, work, resume>>
    BY <1>6, FragmentFacts
  <2>2. SendsNoGroup /\ Underway /\ Underway' /\ Fragments
    BY <2>1 DEF SendsNoGroup, Underway, At, GroupsKnown
  <2> QED BY <2>1, <2>2, SameGroups
<1> QED BY <1>1, <1>2, <1>3, <1>4, <1>5, <1>6

\* Groups apart: one more send, by the last session, above the earlier ones.
Apart(sent) == \A i, j \in DOMAIN sent : sent[i][1] < sent[j][1] => sent[i][2] < sent[j][2]

LEMMA ApartMore ==
    ASSUME NEW S, NEW sent \in Seq(S), NEW x \in S, Apart(sent),
           \A i \in DOMAIN sent : /\ ~(x[1] < sent[i][1])
                                  /\ sent[i][1] < x[1] => sent[i][2] < x[2],
           ~(x[1] < x[1])
    PROVE  Apart(Append(sent, x))
<1> DEFINE l == Append(sent, x)
<1>1. /\ Len(sent) \in Nat /\ DOMAIN sent = 1..Len(sent) /\ DOMAIN l = 1..Len(sent) + 1
      /\ \A i \in 1..Len(sent) : l[i] = sent[i]
      /\ l[Len(sent) + 1] = x
  BY AppendFacts
<1> HIDE DEF l
<1>2. ASSUME NEW i \in DOMAIN l, NEW j \in DOMAIN l, l[i][1] < l[j][1]
      PROVE  l[i][2] < l[j][2]
  <2>1. /\ (i \in 1..Len(sent) /\ l[i] = sent[i]) \/ l[i] = x
        /\ (j \in 1..Len(sent) /\ l[j] = sent[j]) \/ l[j] = x
    BY <1>1
  <2>2. CASE i \in 1..Len(sent) /\ l[i] = sent[i] /\ j \in 1..Len(sent) /\ l[j] = sent[j]
    BY <1>1, <1>2, <2>2 DEF Apart
  <2>3. CASE i \in 1..Len(sent) /\ l[i] = sent[i] /\ l[j] = x BY <1>1, <1>2, <2>3
  <2>4. CASE l[i] = x /\ j \in 1..Len(sent) /\ l[j] = sent[j] BY <1>1, <1>2, <2>4
  <2>5. CASE l[i] = x /\ l[j] = x BY <1>2, <2>5
  <2> QED BY <2>1, <2>2, <2>3, <2>4, <2>5
<1> QED BY <1>2 DEF Apart, l

LEMMA SendCatalogKeepsGroups ==
    ASSUME LifecycleTypes, GroupsKnown, SendCatalog
    PROVE  GroupsKnown'
<1>0. /\ At("run") /\ run.phase = "live" /\ UNCHANGED <<scenario, pub, ses, work, resume>>
      /\ Underway /\ Carries /\ Continues /\ Current' = Current /\ Fragments /\ Fragments'
  BY DEF SendCatalog, Underway, Carries, Continues, At, Current, GroupsKnown, Fragments
<1>1. /\ KeepsCatalogs /\ run'.phase = "live" /\ run'.floor = run.floor /\ run'.group = run.group
      /\ run'.next = run.next + 1 /\ hist'.media = hist.media
      /\ hist'.catalogs = Append(hist.catalogs, <<Current, run.next>>)
  BY <1>0, SendCatalogFacts
<1>2. Current \in Nat /\ run.next \in Nat /\ run.group \in Nat \cup {-1}
  BY SessionFacts DEF LifecycleTypes, Runs
<1>3. MediaBelow(run.group + 1) /\ CatalogsBelow(run.next) /\ SentUpTo(Current)
  BY <1>0 DEF GroupsKnown, FreeMedia, FreeCatalog
<1> DEFINE x == <<Current, run.next>>
           l == Append(hist.catalogs, x)
<1>4. x \in Nat \X Nat /\ x[1] = Current /\ x[2] = run.next BY <1>2
<1>5. /\ DOMAIN l = 1..Len(hist.catalogs) + 1 /\ DOMAIN hist.catalogs = 1..Len(hist.catalogs)
      /\ Len(hist.catalogs) \in Nat
      /\ \A i \in 1..Len(hist.catalogs) : l[i] = hist.catalogs[i]
      /\ l[Len(hist.catalogs) + 1] = x
  BY <1>4, SentTyped, AppendFacts
<1> HIDE DEF x
<1>6. Apart(hist.media) /\ Apart(l)
  <2>1. Apart(hist.media) /\ Apart(hist.catalogs) BY DEF GroupsKnown, GroupsNeverReused, Apart
  <2>2. ASSUME NEW i \in DOMAIN hist.catalogs
        PROVE  /\ ~(x[1] < hist.catalogs[i][1])
               /\ hist.catalogs[i][1] < x[1] => hist.catalogs[i][2] < x[2]
    BY <1>2, <1>3, <1>4, SentTyped DEF SentUpTo, CatalogsBelow
  <2>3. x \in Nat \X Nat /\ hist.catalogs \in Seq(Nat \X Nat) /\ Apart(hist.catalogs) /\ ~(x[1] < x[1])
    BY <1>2, <1>4, <2>1, SentTyped
  <2>4. Apart(Append(hist.catalogs, x)) BY <2>2, <2>3, ApartMore
  <2> QED BY <2>1, <2>4
<1> HIDE DEF l
<1>7. GroupsNeverReused' BY <1>1, <1>6 DEF GroupsNeverReused, Apart, l, x
<1>8. SentUpTo(Current)'
  <2>1. \A i \in DOMAIN l : l[i][1] <= Current
    <3> TAKE i \in DOMAIN l
    <3>1. CASE i \in 1..Len(hist.catalogs) BY <1>3, <1>5, <3>1 DEF SentUpTo
    <3>2. CASE i = Len(hist.catalogs) + 1 BY <1>2, <1>4, <1>5, <3>2
    <3> QED BY <1>5, <3>1, <3>2
  <2> QED BY <1>0, <1>1, <1>3, <2>1 DEF SentUpTo, l, x
<1>9. (MediaBelow(FreeMedia) /\ CatalogsBelow(FreeCatalog))'
  <2>1. \A i \in DOMAIN l : l[i][2] < run.next + 1
    <3> TAKE i \in DOMAIN l
    <3>1. CASE i \in 1..Len(hist.catalogs)
      <4>1. CatalogsBelow(run.next + 1) BY <1>2, <1>3, GroupsMore
      <4> QED BY <1>5, <3>1, <4>1 DEF CatalogsBelow
    <3>2. CASE i = Len(hist.catalogs) + 1 BY <1>2, <1>4, <1>5, <3>2
    <3> QED BY <1>5, <3>1, <3>2
  <2>2. Underway' BY <1>0, <1>1 DEF Underway, At
  <2> QED BY <1>1, <1>3, <2>1, <2>2 DEF MediaBelow, CatalogsBelow, FreeMedia, FreeCatalog, l, x
<1>10. \A i \in DOMAIN hist'.media :
         hist'.media[i][1] < Current' => hist'.media[i][2] < run'.floor
  BY <1>0, <1>1 DEF GroupsKnown
<1>11. Underway' /\ pub'.pc = "run" BY <1>0, <1>1 DEF Underway, At
<1>12. work'.bytes = resume'.bytes /\ work'.floor = resume'.floor /\ work'.catalog = resume'.catalog
  BY <1>0 DEF GroupsKnown
<1> QED BY <1>0, <1>7, <1>8, <1>9, <1>10, <1>11, <1>12 DEF GroupsKnown

LEMMA SendFragmentKeepsGroups ==
    ASSUME LifecycleTypes, GroupsKnown, SendFragment
    PROVE  GroupsKnown'
<1>0. /\ At("run") /\ run.phase = "live" /\ UNCHANGED <<scenario, pub, ses, work, resume>>
      /\ Underway /\ Carries /\ Continues /\ Current' = Current /\ Fragments /\ Fragments'
  BY SendFragmentFacts DEF Underway, Carries, Continues, At, Current, GroupsKnown, Fragments
<1> DEFINE f == run.hand
<1>1. PICK g \in Nat :
        /\ f \in Nat /\ g >= run.floor /\ g >= run.group
        /\ run'.phase = "live" /\ run'.floor = run.floor /\ run'.group = g /\ run'.next = run.next
        /\ hist'.catalogs = hist.catalogs
        /\ hist'.media = Append(hist.media, <<Current, g, f>>)
  BY <1>0, SendFragmentFacts
<1> HIDE DEF f
<1>2. Current \in Nat /\ run.floor \in Nat /\ run.group \in Nat \cup {-1}
  BY SessionFacts DEF LifecycleTypes, Runs
<1>3. MediaBelow(run.group + 1) /\ CatalogsBelow(run.next) /\ SentUpTo(Current)
  BY <1>0 DEF GroupsKnown, FreeMedia, FreeCatalog
<1> DEFINE x == <<Current, g, f>>
           l == Append(hist.media, x)
<1>4. x \in Nat \X Nat \X Nat /\ x[1] = Current /\ x[2] = g BY <1>1, <1>2
<1>5. /\ DOMAIN l = 1..Len(hist.media) + 1 /\ DOMAIN hist.media = 1..Len(hist.media)
      /\ Len(hist.media) \in Nat
      /\ \A i \in 1..Len(hist.media) : l[i] = hist.media[i]
      /\ l[Len(hist.media) + 1] = x
  BY <1>4, SentTyped, AppendFacts
<1> HIDE DEF x
<1>6. Apart(l) /\ Apart(hist.catalogs)
  <2>1. Apart(hist.media) /\ Apart(hist.catalogs) BY DEF GroupsKnown, GroupsNeverReused, Apart
  <2>2. ASSUME NEW i \in DOMAIN hist.media
        PROVE  /\ ~(x[1] < hist.media[i][1])
               /\ hist.media[i][1] < x[1] => hist.media[i][2] < x[2]
    <3>1. hist.media[i][1] \in Nat /\ hist.media[i][2] \in Nat BY SentTyped
    <3>2. hist.media[i][1] <= Current BY <1>3 DEF SentUpTo
    <3>3. hist.media[i][1] < Current => hist.media[i][2] < run.floor BY <1>0 DEF GroupsKnown
    <3> QED BY <1>1, <1>2, <1>4, <3>1, <3>2, <3>3
  <2>3. x \in Nat \X Nat \X Nat /\ hist.media \in Seq(Nat \X Nat \X Nat) /\ Apart(hist.media) /\ ~(x[1] < x[1])
    BY <1>2, <1>4, <2>1, SentTyped
  <2>4. Apart(Append(hist.media, x)) BY <2>2, <2>3, ApartMore
  <2> QED BY <2>1, <2>4
<1> HIDE DEF l
<1>7. GroupsNeverReused' BY <1>1, <1>6 DEF GroupsNeverReused, Apart, l, x
<1>8. SentUpTo(Current)'
  <2>1. \A i \in DOMAIN l : l[i][1] <= Current
    <3> TAKE i \in DOMAIN l
    <3>1. CASE i \in 1..Len(hist.media) BY <1>3, <1>5, <3>1 DEF SentUpTo
    <3>2. CASE i = Len(hist.media) + 1 BY <1>2, <1>4, <1>5, <3>2
    <3> QED BY <1>5, <3>1, <3>2
  <2> QED BY <1>0, <1>1, <1>3, <2>1 DEF SentUpTo, l, x
<1>9. (MediaBelow(FreeMedia) /\ CatalogsBelow(FreeCatalog))'
  <2>1. \A i \in DOMAIN l : l[i][2] < g + 1
    <3> TAKE i \in DOMAIN l
    <3>1. CASE i \in 1..Len(hist.media)
      <4>1. MediaBelow(g + 1)
        <5>1. run.group + 1 \in Int /\ g + 1 \in Int /\ run.group + 1 <= g + 1 BY <1>1, <1>2
        <5> QED BY <1>3, <5>1, GroupsMore
      <4> QED BY <1>5, <3>1, <4>1 DEF MediaBelow
    <3>2. CASE i = Len(hist.media) + 1 BY <1>2, <1>4, <1>5, <3>2
    <3> QED BY <1>5, <3>1, <3>2
  <2>2. Underway' BY <1>0, <1>1 DEF Underway, At
  <2> QED BY <1>1, <1>3, <2>1, <2>2 DEF MediaBelow, CatalogsBelow, FreeMedia, FreeCatalog, l, x
<1>10. \A i \in DOMAIN l : l[i][1] < Current => l[i][2] < run.floor
  <2> TAKE i \in DOMAIN l
  <2>1. CASE i \in 1..Len(hist.media) BY <1>0, <1>5, <2>1 DEF GroupsKnown
  <2>2. CASE i = Len(hist.media) + 1 BY <1>2, <1>4, <1>5, <2>2
  <2> QED BY <1>5, <2>1, <2>2
<1>11. \A i \in DOMAIN hist'.media :
         hist'.media[i][1] < Current' => hist'.media[i][2] < run'.floor
  BY <1>0, <1>1, <1>10 DEF l, x
<1>12. Underway' /\ pub'.pc = "run" BY <1>0, <1>1 DEF Underway, At
<1>13. work'.bytes = resume'.bytes /\ work'.floor = resume'.floor /\ work'.catalog = resume'.catalog
  BY <1>0 DEF GroupsKnown
<1> QED BY <1>0, <1>7, <1>8, <1>9, <1>11, <1>12, <1>13 DEF GroupsKnown

\* A session is over.
LEMMA EndKeepsGroups ==
    ASSUME LifecycleTypes, GroupsKnown, SessionReturns \/ SessionStops \/ SessionFails \/ Goaway
    PROVE  GroupsKnown'
<1>0. /\ pub \in Publishes /\ At("run") /\ run' = NoSession /\ UNCHANGED <<scenario, ses>>
      /\ Current' = Current /\ Carries /\ Continues /\ run'.phase = "floors"
      /\ hist'.media = hist.media /\ hist'.catalogs = hist.catalogs
  <2>1. /\ At("run") /\ run' = NoSession /\ UNCHANGED <<scenario, ses>>
    BY ReturnsFacts, FailsFacts, GoawayFacts
  <2>2. hist' = hist \/ hist' = Fell
    BY ReturnsFacts, FailsFacts, GoawayFacts
  <2>3. hist'.media = hist.media /\ hist'.catalogs = hist.catalogs
    BY <2>2 DEF LifecycleTypes, Histories, Fell
  <2> QED BY <2>1, <2>3 DEF LifecycleTypes, Current, Carries, Continues, At, NoSession
<1>1. \/ pub'.pc = "over"
      \/ pub'.pc \in {"close", "stopped"} /\ pub'.then = "stopped"
      \/ /\ pub'.pc \in {"close", "failed"} /\ pub'.then = "failed"
         /\ pub'.kind = "retryable" /\ Fragments => LeavesForRetry(resume')
      \/ /\ pub'.pc \in {"close", "migrate"} /\ pub'.then = "migrate"
         /\ Fragments => /\ run.phase = "live"
                         /\ resume'.floor = run.group + 1 /\ resume'.catalog = run.next
                         /\ work'.bytes = resume'.bytes /\ work'.floor = resume'.floor
                         /\ work'.catalog = resume'.catalog
  <2>1. CASE SessionReturns \/ SessionStops BY <1>0, <2>1, ReturnsFacts, ReturnedFacts DEF Outcomes
  <2>2. CASE SessionFails BY <1>0, <2>2, FailsFacts, ClosingFacts
  <2>3. CASE Goaway BY <1>0, <2>3, GoawayFacts, ClosingFacts
  <2> QED BY <2>1, <2>2, <2>3
<1>2. /\ resume.floor \in Nat /\ resume.catalog \in Nat /\ resume'.floor \in Nat
      /\ resume'.catalog \in Nat /\ run.group \in Nat \cup {-1} /\ run.next \in Nat
  BY SessionTypes DEF LifecycleTypes, Resumes, Runs
<1>3. (Continues /\ Fragments)' =>
        /\ MediaBelow(resume'.floor) /\ CatalogsBelow(resume'.catalog)
        /\ (Carries' => /\ work'.bytes = resume'.bytes /\ work'.floor = resume'.floor
                        /\ work'.catalog = resume'.catalog)
  <2> SUFFICES ASSUME Continues', Fragments'
               PROVE  /\ MediaBelow(resume'.floor) /\ CatalogsBelow(resume'.catalog)
                      /\ (Carries' => /\ work'.bytes = resume'.bytes /\ work'.floor = resume'.floor
                                      /\ work'.catalog = resume'.catalog)
    OBVIOUS
  <2>0. Fragments BY <1>0 DEF Fragments
  <2>1. MediaBelow(FreeMedia) /\ CatalogsBelow(FreeCatalog) BY <1>0, <2>0 DEF GroupsKnown
  <2>2. FreeMedia \in Int /\ FreeCatalog \in Int BY <1>2 DEF FreeMedia, FreeCatalog
  <2>3. FreeMedia <= resume'.floor /\ FreeCatalog <= resume'.catalog
    <3>1. CASE pub'.then = "failed"
      <4>1. LeavesForRetry(resume') BY <1>1, <2>0, <3>1 DEF Continues, Carries, Leaves, At
      <4> QED BY <1>2, <4>1 DEF LeavesForRetry, FreeMedia, FreeCatalog
    <3>2. CASE pub'.then # "failed"
      <4>1. resume'.floor = run.group + 1 /\ resume'.catalog = run.next /\ Underway
        BY <1>0, <1>1, <2>0, <3>2 DEF Continues, Carries, Leaves, At, Underway
      <4> QED BY <1>2, <4>1 DEF FreeMedia, FreeCatalog
    <3> QED BY <3>1, <3>2
  <2>4. MediaBelow(resume'.floor) /\ CatalogsBelow(resume'.catalog) BY <1>2, <2>1, <2>2, <2>3, GroupsMore
  <2>5. Carries' => pub'.then = "migrate" /\ pub'.pc # "over" BY <1>1 DEF Carries, Leaves, At
  <2> QED BY <1>1, <2>0, <2>4, <2>5
<1>4. ~Underway' /\ pub'.pc \notin {"connect", "connected", "run"} BY <1>1 DEF Underway, At
<1>5. (Continues /\ Fragments)' => (MediaBelow(FreeMedia) /\ CatalogsBelow(FreeCatalog))'
  BY <1>0, <1>3, <1>4 DEF MediaBelow, CatalogsBelow, FreeMedia, FreeCatalog
<1>6. GroupsNeverReused' /\ SentUpTo(Current)' BY <1>0 DEF GroupsKnown, GroupsNeverReused, SentUpTo
<1>7. hist'.media # <<>> \/ hist'.catalogs # <<>> \/ run'.phase # "floors" => Fragments'
  BY <1>0 DEF GroupsKnown, Fragments
<1>8. (Carries /\ Fragments)' => /\ work'.bytes = resume'.bytes /\ work'.floor = resume'.floor
                                /\ work'.catalog = resume'.catalog
  BY <1>3 DEF Continues
<1> QED BY <1>4, <1>5, <1>6, <1>7, <1>8 DEF GroupsKnown, At

(* What was read is sent, lost or held. *)

\* A step that neither reads nor sends a fragment.
LEMMA SameInput ==
    ASSUME LifecycleTypes, InputKnown, At("run"), UNCHANGED <<scenario, pub, resume>>,
           hist'.media = hist.media, Passed' = Passed, src'.at = src.at, KeepsFragments,
           run'.phase = run.phase \/ {run.phase, run'.phase} \cap {"read", "live"} = {}
    PROVE  InputKnown'
<1>1. At("run")' /\ Continues /\ Fragments' = Fragments /\ HeldInput' = HeldInput
      /\ SentFragments' = SentFragments
  BY DEF At, Continues, Carries, Fragments, HeldInput, SentFragments, KeepsFragments
<1>2. /\ Unsent(HeldInput) => Unsent(HeldInput)'
      /\ Unsent(run.saved) => Unsent(run.saved)'
  BY <1>1 DEF Unsent, KeepsFragments
<1>3. \A i, j \in DOMAIN hist'.media : i < j => hist'.media[i][3] < hist'.media[j][3] BY DEF InputKnown
<1>4. \A i \in DOMAIN hist'.media :
        /\ hist'.media[i][3] <= src'.at
        /\ 1..hist'.media[i][3] \subseteq SentFragments' \cup Passed'
  BY <1>1 DEF InputKnown
<1>5. Fragments' =>
        /\ Unsent(HeldInput)'
        /\ 1..src'.at \subseteq SentFragments' \cup Passed'
              \cup {HeldInput'[k] : k \in DOMAIN HeldInput'} \cup {run'.hand}
  BY <1>1, <1>2 DEF InputKnown, KeepsFragments
<1>6. /\ run'.phase = "live" => run'.saved = run'.pending
      /\ run'.phase = "read" => Unsent(run.saved)'
      /\ run'.phase \notin {"live", "read"} => run'.saved = NoBytes
  BY <1>2 DEF InputKnown, KeepsFragments
<1>7. run'.hand # 0 => /\ run'.phase = "live" /\ run'.hand \in 1..src'.at
                       /\ \A i \in DOMAIN hist'.media : hist'.media[i][3] < run'.hand
                       /\ \A k \in DOMAIN run'.pending : run'.hand < run'.pending[k]
  <2> SUFFICES ASSUME run'.hand # 0
               PROVE  /\ run'.phase = "live" /\ run'.hand \in 1..src'.at
                      /\ \A i \in DOMAIN hist'.media : hist'.media[i][3] < run'.hand
                      /\ \A k \in DOMAIN run'.pending : run'.hand < run'.pending[k]
    OBVIOUS
  <2>1. run'.hand = run.hand /\ run'.pending = run.pending /\ run.hand # 0 BY DEF KeepsFragments
  <2>2. /\ run.phase = "live" /\ run.hand \in 1..src.at
        /\ \A i \in DOMAIN hist.media : hist.media[i][3] < run.hand
        /\ \A k \in DOMAIN run.pending : run.hand < run.pending[k]
    BY <2>1 DEF InputKnown
  <2>3. run'.phase = "live" BY <2>2
  <2> QED BY <2>1, <2>2, <2>3
<1> QED BY <1>1, <1>3, <1>4, <1>5, <1>6, <1>7 DEF InputKnown

Reads(rest, at, ahead) == rest \o [i \in 1..ahead |-> at + i]

LEMMA ReadsFacts ==
    ASSUME NEW rest \in Seq(Nat), NEW at \in Nat, NEW ahead \in Nat
    PROVE  LET all == Reads(rest, at, ahead)
           IN  /\ Len(rest) \in Nat /\ DOMAIN rest = 1..Len(rest)
               /\ DOMAIN all = 1..Len(rest) + ahead
               /\ \A k \in 1..Len(rest) : all[k] = rest[k]
               /\ \A k \in 1..ahead : all[Len(rest) + k] = at + k
<1> DEFINE more == [i \in 1..ahead |-> at + i]
<1>1. more \in Seq(Nat) BY IsASeq
<1>2. Len(more) = ahead /\ Len(rest) \in Nat /\ DOMAIN rest = 1..Len(rest) BY <1>1, LenProperties
<1>3. \A k \in 1..ahead : more[k] = at + k OBVIOUS
<1> HIDE DEF more
<1> DEFINE all == rest \o more
<1>4. /\ all \in Seq(Nat) /\ Len(all) = Len(rest) + ahead
      /\ \A k \in 1..Len(rest) + ahead :
           all[k] = IF k <= Len(rest) THEN rest[k] ELSE more[k - Len(rest)]
  BY <1>1, <1>2, ConcatProperties
<1>5. DOMAIN all = 1..Len(rest) + ahead BY <1>4, LenProperties
<1> HIDE DEF all
<1>6. \A k \in 1..Len(rest) : all[k] = rest[k] BY <1>2, <1>4
<1>7. ASSUME NEW k \in 1..ahead PROVE all[Len(rest) + k] = at + k
  <2>1. Len(rest) + k \in 1..Len(rest) + ahead /\ ~(Len(rest) + k <= Len(rest))
        /\ (Len(rest) + k) - Len(rest) = k
    BY <1>2
  <2> QED BY <1>3, <1>4, <2>1
<1>8. all = Reads(rest, at, ahead) BY DEF all, more, Reads
<1> QED BY <1>2, <1>5, <1>6, <1>7, <1>8

LEMMA ReadInitKeepsInput ==
    ASSUME LifecycleTypes, GroupsKnown, InputKnown, ReadInit
    PROVE  InputKnown'
<1>0. /\ pub.pc = "run" /\ run.phase = "setup" /\ UNCHANGED <<scenario, pub, work, resume, hist>>
      /\ Fragments /\ Carries /\ Continues /\ HeldInput = Rest(resume.bytes)
      /\ work.bytes = resume.bytes /\ run.hand = 0
  BY DEF ReadInit, At, GroupsKnown, InputKnown, Carries, Continues, HeldInput
<1> DEFINE rest == Rest(resume.bytes)
           at == src.at
<1>1. rest \in Seq(Nat) /\ at \in Nat BY RestTyped DEF LifecycleTypes, Resumes, Sources
<1>2. PICK ahead \in Nat : /\ run'.phase = "read" /\ run'.saved = rest /\ run'.hand = 0
                           /\ run'.pending = Reads(rest, at, ahead) /\ src'.at = at + ahead
  BY <1>0, ReadInitFacts DEF Reads
<1> DEFINE all == Reads(rest, at, ahead)
<1>3. /\ Len(rest) \in Nat /\ DOMAIN rest = 1..Len(rest)
      /\ DOMAIN all = 1..Len(rest) + ahead
      /\ \A k \in 1..Len(rest) : all[k] = rest[k]
      /\ \A k \in 1..ahead : all[Len(rest) + k] = at + k
  BY <1>1, ReadsFacts
<1>4. /\ \A k \in DOMAIN rest : rest[k] \in 1..at
      /\ \A k, l \in DOMAIN rest : k < l => rest[k] < rest[l]
      /\ \A k \in DOMAIN rest, i \in DOMAIN hist.media : hist.media[i][3] < rest[k]
      /\ 1..at \subseteq SentFragments \cup Passed \cup {rest[k] : k \in DOMAIN rest} \cup {0}
  BY <1>0 DEF InputKnown, Unsent
<1>5. \A i \in DOMAIN hist.media : hist.media[i][3] \in Nat /\ hist.media[i][3] <= at
  BY SentTyped DEF InputKnown
<1> HIDE DEF all, rest, at
<1>6. ASSUME NEW k \in DOMAIN all
      PROVE  \/ k \in DOMAIN rest /\ all[k] = rest[k]
             \/ k - Len(rest) \in 1..ahead /\ all[k] = at + (k - Len(rest))
  <2>1. k \in 1..Len(rest) + ahead BY <1>3
  <2>2. CASE k <= Len(rest) BY <1>3, <2>1, <2>2
  <2>3. CASE ~(k <= Len(rest))
    <3>1. k - Len(rest) \in 1..ahead /\ Len(rest) + (k - Len(rest)) = k BY <1>3, <2>1, <2>3
    <3> QED BY <1>3, <3>1
  <2> QED BY <2>2, <2>3
<1>7. \A k \in DOMAIN all : all[k] \in 1..at + ahead
  <2> TAKE k \in DOMAIN all
  <2>1. CASE k \in DOMAIN rest /\ all[k] = rest[k] BY <1>1, <1>2, <1>4, <2>1
  <2>2. CASE k - Len(rest) \in 1..ahead /\ all[k] = at + (k - Len(rest)) BY <1>1, <1>2, <2>2
  <2> QED BY <1>6, <2>1, <2>2
<1>8. ASSUME NEW k \in DOMAIN all, NEW l \in DOMAIN all, k < l PROVE all[k] < all[l]
  <2>0. k \in Int /\ l \in Int BY <1>3
  <2>1. CASE l \in DOMAIN rest /\ all[l] = rest[l]
    <3>1. k \in DOMAIN rest /\ all[k] = rest[k] BY <1>3, <1>8, <2>0, <2>1
    <3> QED BY <1>4, <1>8, <2>1, <3>1
  <2>2. CASE l - Len(rest) \in 1..ahead /\ all[l] = at + (l - Len(rest))
    <3>1. CASE k \in DOMAIN rest /\ all[k] = rest[k]
      <4>1. rest[k] \in 1..at BY <1>4, <3>1
      <4> QED BY <1>1, <2>2, <3>1, <4>1
    <3>2. CASE k - Len(rest) \in 1..ahead /\ all[k] = at + (k - Len(rest))
      BY <1>1, <1>3, <1>8, <2>0, <2>2, <3>2
    <3> QED BY <1>6, <3>1, <3>2
  <2> QED BY <1>6, <2>1, <2>2
<1>9. ASSUME NEW k \in DOMAIN all, NEW i \in DOMAIN hist.media PROVE hist.media[i][3] < all[k]
  <2>1. CASE k \in DOMAIN rest /\ all[k] = rest[k] BY <1>4, <2>1
  <2>2. CASE k - Len(rest) \in 1..ahead /\ all[k] = at + (k - Len(rest)) BY <1>1, <1>5, <2>2
  <2> QED BY <1>6, <2>1, <2>2
<1>10. ASSUME NEW f \in 1..at + ahead
       PROVE  f \in SentFragments \cup Passed \cup {all[k] : k \in DOMAIN all}
  <2>1. CASE f <= at
    <3>1. f \in SentFragments \cup Passed \cup {rest[k] : k \in DOMAIN rest} BY <1>1, <1>4, <2>1
    <3>2. \A k \in DOMAIN rest : k \in DOMAIN all /\ all[k] = rest[k] BY <1>3
    <3> QED BY <3>1, <3>2
  <2>2. CASE ~(f <= at)
    <3>1. f - at \in 1..ahead /\ at + (f - at) = f BY <1>1, <2>2
    <3>2. Len(rest) + (f - at) \in DOMAIN all /\ all[Len(rest) + (f - at)] = f BY <1>3, <3>1
    <3> QED BY <3>2
  <2> QED BY <2>1, <2>2
<1>11. HeldInput' = all /\ src'.at = at + ahead /\ SentFragments' = SentFragments /\ pub'.pc = "run"
       /\ run'.saved = rest /\ run'.phase = "read" /\ run'.hand = 0 /\ Passed' = Passed
  BY <1>0, <1>2 DEF HeldInput, At, all, SentFragments, Passed
<1>12. Unsent(HeldInput)' BY <1>0, <1>7, <1>8, <1>9, <1>11 DEF Unsent
<1>13. 1..src'.at \subseteq SentFragments' \cup Passed'
      \cup {HeldInput'[k] : k \in DOMAIN HeldInput'} \cup {run'.hand}
  BY <1>0, <1>10, <1>11
<1>14. Unsent(run.saved)'
  <2>1. \A k \in DOMAIN rest : rest[k] \in 1..at + ahead BY <1>1, <1>4
  <2> QED BY <1>0, <1>4, <1>11, <2>1 DEF Unsent
<1>15. \A i \in DOMAIN hist'.media :
         /\ hist'.media[i][3] <= src'.at
         /\ 1..hist'.media[i][3] \subseteq SentFragments' \cup Passed'
  BY <1>0, <1>1, <1>5, <1>11 DEF InputKnown
<1>16. \A i, j \in DOMAIN hist'.media : i < j => hist'.media[i][3] < hist'.media[j][3]
  BY <1>0 DEF InputKnown
<1> QED BY <1>11, <1>12, <1>13, <1>14, <1>15, <1>16 DEF InputKnown, At

LEMMA RunKeepsInput ==
    ASSUME LifecycleTypes, GroupsKnown, InputKnown,
           Floors \/ StartInput \/ SendCatalog \/ ReplayCatalog \/ NextObject
    PROVE  InputKnown'
<1>1. CASE Floors
  <2>1. KeepsFragments /\ run'.phase \in {"refused", "setup"} BY <1>1, FloorsFacts
  <2>2. At("run") /\ run.phase = "floors" /\ UNCHANGED <<scenario, pub, resume, src, hist>>
    BY <1>1 DEF Floors
  <2>3. Passed' = Passed BY <2>2 DEF Passed
  <2> QED BY <2>1, <2>2, <2>3, SameInput
<1>2. CASE StartInput
  <2>1. run'.phase = "live" /\ run'.pending = run.pending /\ run'.saved = run.pending
        /\ run'.hand = run.hand
    BY <1>2, StartInputFacts
  <2>2. pub.pc = "run" /\ run.phase = "read" /\ UNCHANGED <<scenario, pub, resume, src, hist>>
    BY <1>2 DEF StartInput, At
  <2>3. HeldInput' = HeldInput /\ SentFragments' = SentFragments /\ Continues /\ Fragments' = Fragments
        /\ pub'.pc = "run" /\ Passed' = Passed /\ run.hand = 0
    BY <2>1, <2>2 DEF HeldInput, SentFragments, Continues, Carries, Fragments, At, Passed, InputKnown
  <2>4. Unsent(HeldInput) => Unsent(HeldInput)' BY <2>2, <2>3 DEF Unsent
  <2>5. Fragments' => /\ Unsent(HeldInput)'
                      /\ 1..src'.at \subseteq SentFragments' \cup Passed'
                                               \cup {HeldInput'[k] : k \in DOMAIN HeldInput'} \cup {run'.hand}
    BY <2>1, <2>2, <2>3, <2>4 DEF InputKnown
  <2>6. /\ \A i, j \in DOMAIN hist'.media : i < j => hist'.media[i][3] < hist'.media[j][3]
        /\ \A i \in DOMAIN hist'.media :
             /\ hist'.media[i][3] <= src'.at
             /\ 1..hist'.media[i][3] \subseteq SentFragments' \cup Passed'
    BY <2>2, <2>3 DEF InputKnown
  <2> QED BY <2>1, <2>3, <2>5, <2>6 DEF InputKnown, At
<1>3. CASE SendCatalog
  <2>1. KeepsFragments /\ run'.phase = run.phase /\ hist'.media = hist.media /\ Passed' = Passed
    BY <1>3, SendCatalogFacts
  <2>2. At("run") /\ UNCHANGED <<scenario, pub, resume, src>> BY <1>3 DEF SendCatalog
  <2> QED BY <2>1, <2>2, SameInput
<1>4. CASE ReplayCatalog
  <2>1. KeepsFragments /\ run'.phase = run.phase /\ hist \in Histories
        /\ hist' = [hist EXCEPT !.objects = hist.objects + 1]
    BY <1>4, ReplayCatalogFacts DEF LifecycleTypes
  <2>2. At("run") /\ UNCHANGED <<scenario, pub, resume, src>> BY <1>4 DEF ReplayCatalog
  <2>3. hist'.media = hist.media /\ Passed' = Passed BY <2>1 DEF Histories, Passed
  <2> QED BY <2>1, <2>2, <2>3, SameInput
<1>5. CASE NextObject
  <2>1. KeepsFragments /\ run'.phase = run.phase /\ src'.at = src.at /\ hist \in Histories
        /\ hist' = [hist EXCEPT !.objects = hist.objects + 1]
    BY <1>5, NextObjectFacts DEF LifecycleTypes
  <2>2. At("run") /\ UNCHANGED <<scenario, pub, resume>> BY <1>5 DEF NextObject
  <2>3. hist'.media = hist.media /\ Passed' = Passed BY <2>1 DEF Histories, Passed
  <2> QED BY <2>1, <2>2, <2>3, SameInput
<1> QED BY <1>1, <1>2, <1>3, <1>4, <1>5

\* What is left when a fragment leaves the queue.
LEMMA DropsFacts ==
    ASSUME NEW s \in Seq(Nat), NEW k \in DOMAIN s, NEW t, Drops(t, s, k), Unsent(s)
    PROVE  /\ Unsent(t)
           /\ \A i \in DOMAIN t : \E m \in DOMAIN s : t[i] = s[m] /\ (k = 1 => m > 1)
           /\ \A m \in DOMAIN s : m = k \/ s[m] \in {t[i] : i \in DOMAIN t}
<1>0. Len(s) \in Nat /\ DOMAIN s = 1..Len(s) /\ DOMAIN t = 1..Len(s) - 1 /\ k \in 1..Len(s)
  BY LenProperties DEF Drops
<1>1. ASSUME NEW i \in DOMAIN t
      PROVE  /\ t[i] = s[IF i < k THEN i ELSE i + 1]
             /\ (IF i < k THEN i ELSE i + 1) \in DOMAIN s
  BY <1>0 DEF Drops
<1>2. Unsent(t)
  <2>1. \A i \in DOMAIN t : t[i] \in 1..src.at BY <1>1 DEF Unsent
  <2>2. ASSUME NEW i \in DOMAIN t, NEW j \in DOMAIN t, i < j PROVE t[i] < t[j]
    <3> DEFINE a == IF i < k THEN i ELSE i + 1
               b == IF j < k THEN j ELSE j + 1
    <3>1. a \in DOMAIN s /\ b \in DOMAIN s /\ t[i] = s[a] /\ t[j] = s[b] BY <1>1
    <3>2. a < b BY <1>0, <2>2
    <3> HIDE DEF a, b
    <3> QED BY <3>1, <3>2 DEF Unsent
  <2>3. \A i \in DOMAIN t, j \in DOMAIN hist.media : hist.media[j][3] < t[i] BY <1>1 DEF Unsent
  <2> QED BY <2>1, <2>2, <2>3 DEF Unsent
<1>3. ASSUME NEW i \in DOMAIN t PROVE \E m \in DOMAIN s : t[i] = s[m] /\ (k = 1 => m > 1)
  <2> DEFINE a == IF i < k THEN i ELSE i + 1
  <2>1. a \in DOMAIN s /\ t[i] = s[a] /\ (k = 1 => a > 1) BY <1>0, <1>1
  <2> QED BY <2>1
<1>4. ASSUME NEW m \in DOMAIN s, m # k PROVE s[m] \in {t[i] : i \in DOMAIN t}
  <2> DEFINE i == IF m < k THEN m ELSE m - 1
  <2>1. i \in DOMAIN t /\ (IF i < k THEN i ELSE i + 1) = m BY <1>0, <1>4
  <2>2. t[i] = s[m] BY <1>1, <2>1
  <2> QED BY <2>1, <2>2
<1> QED BY <1>2, <1>3, <1>4

\* A fragment is read, skipped or taken.
LEMMA FragmentsKeepInput ==
    ASSUME LifecycleTypes, GroupsKnown, InputKnown, ReadFragment \/ SkipFragment \/ TakeFragment
    PROVE  InputKnown'
<1> DEFINE held == run.pending  rest == run'.pending
<1>0. /\ pub.pc = "run" /\ pub'.pc = "run" /\ run.phase = "live" /\ run'.phase = "live"
      /\ Fragments /\ Continues /\ HeldInput = held /\ HeldInput' = rest
      /\ held \in Seq(Nat) /\ src.at \in Nat /\ run'.saved = rest
      /\ hist'.media = hist.media /\ SentFragments' = SentFragments /\ run' \in Runs
  <2>1. /\ pub.pc = "run" /\ pub' = pub /\ scenario' = scenario
        /\ run.phase = "live" /\ run'.phase = "live" /\ run'.saved = rest
        /\ hist'.media = hist.media /\ run' \in Runs
    BY FragmentFacts DEF At
  <2>2. Fragments BY <2>1 DEF GroupsKnown
  <2>3. Continues /\ HeldInput = held /\ HeldInput' = rest
    BY <2>1 DEF At, Carries, Continues, HeldInput
  <2>4. held \in Seq(Nat) /\ src.at \in Nat BY DEF LifecycleTypes, Runs, Sources
  <2>5. SentFragments' = SentFragments BY <2>1 DEF SentFragments
  <2> QED BY <2>1, <2>2, <2>3, <2>4, <2>5
<1>1. /\ Unsent(held)
      /\ 1..src.at \subseteq SentFragments \cup Passed \cup {held[k] : k \in DOMAIN held}
                               \cup {run.hand}
      /\ run.hand # 0 => /\ run.hand \in 1..src.at
                         /\ \A i \in DOMAIN hist.media : hist.media[i][3] < run.hand
                         /\ \A k \in DOMAIN held : run.hand < held[k]
  BY <1>0 DEF InputKnown
<1>2. /\ \A i, j \in DOMAIN hist.media : i < j => hist.media[i][3] < hist.media[j][3]
      /\ \A i \in DOMAIN hist.media :
           /\ hist.media[i][3] \in Nat /\ hist.media[i][3] <= src.at
           /\ 1..hist.media[i][3] \subseteq SentFragments \cup Passed
  BY SentTyped DEF InputKnown
<1>3. DOMAIN held = 1..Len(held) /\ Len(held) \in Nat BY <1>0, LenProperties
\* It is enough to account for what is held now.
<1>4. ASSUME src'.at \in Nat, src.at <= src'.at, Passed \subseteq Passed', Unsent(HeldInput)',
             1..src'.at \subseteq SentFragments \cup Passed' \cup {rest[k] : k \in DOMAIN rest}
                                     \cup {run'.hand},
             run'.hand # 0 => /\ run'.hand \in 1..src'.at
                              /\ \A i \in DOMAIN hist.media : hist.media[i][3] < run'.hand
                              /\ \A k \in DOMAIN rest : run'.hand < rest[k]
      PROVE  InputKnown'
  <2>1. \A i \in DOMAIN hist'.media :
          /\ hist'.media[i][3] <= src'.at
          /\ 1..hist'.media[i][3] \subseteq SentFragments' \cup Passed'
    <3> TAKE i \in DOMAIN hist'.media
    <3>1. hist.media[i][3] <= src'.at BY <1>0, <1>2, <1>4
    <3> QED BY <1>0, <1>2, <1>4, <3>1
  <2>2. \A i, j \in DOMAIN hist'.media : i < j => hist'.media[i][3] < hist'.media[j][3]
    BY <1>0, <1>2
  <2> QED BY <1>0, <1>4, <2>1, <2>2 DEF InputKnown, At
<1>5. CASE /\ rest = Append(held, src.at + 1) /\ run'.hand = run.hand
           /\ src'.at = src.at + 1 /\ Passed' = Passed
  <2> DEFINE n == Len(held)  x == src.at + 1
  <2>0. x \in Nat BY <1>0
  <2>1. /\ DOMAIN rest = 1..n + 1 /\ rest[n + 1] = x /\ \A k \in 1..n : rest[k] = held[k]
    <3> HIDE DEF x, held
    <3> QED BY <1>0, <1>5, <2>0, AppendFacts DEF x
  <2> HIDE DEF held, rest, n
  <2>2. \A k \in DOMAIN rest : rest[k] \in 1..x
    <3> TAKE k \in DOMAIN rest
    <3>1. CASE k \in 1..n
      <4>1. held[k] \in 1..src.at BY <1>1, <1>3, <3>1 DEF Unsent, n
      <4> QED BY <1>0, <2>1, <3>1, <4>1
    <3>2. CASE k = n + 1 BY <1>0, <2>1, <3>2
    <3> QED BY <1>3, <2>1, <3>1, <3>2 DEF n
  <2>3. ASSUME NEW k \in DOMAIN rest, NEW l \in DOMAIN rest, k < l PROVE rest[k] < rest[l]
    <3>1. k \in 1..n BY <1>3, <2>1, <2>3 DEF n
    <3>2. held[k] \in 1..src.at BY <1>1, <1>3, <3>1 DEF Unsent, n
    <3>3. CASE l \in 1..n BY <1>1, <1>3, <2>1, <2>3, <3>1, <3>3 DEF Unsent, n
    <3>4. CASE l = n + 1 BY <1>0, <2>1, <3>1, <3>2, <3>4
    <3> QED BY <1>3, <2>1, <3>3, <3>4 DEF n
  <2>4. ASSUME NEW k \in DOMAIN rest, NEW i \in DOMAIN hist.media PROVE hist.media[i][3] < rest[k]
    <3>1. CASE k \in 1..n BY <1>1, <1>3, <2>1, <3>1 DEF Unsent, n
    <3>2. CASE k = n + 1 BY <1>0, <1>2, <2>1, <3>2
    <3> QED BY <1>3, <2>1, <3>1, <3>2 DEF n
  <2>5. Unsent(HeldInput)' BY <1>0, <1>5, <2>2, <2>3, <2>4 DEF Unsent, held, rest
  <2>6. 1..x \subseteq SentFragments \cup Passed' \cup {rest[k] : k \in DOMAIN rest} \cup {run'.hand}
    <3> SUFFICES ASSUME NEW f \in 1..x
                 PROVE  f \in SentFragments \cup Passed' \cup {rest[k] : k \in DOMAIN rest}
                                  \cup {run'.hand}
      OBVIOUS
    <3>0. n + 1 \in DOMAIN rest BY <1>3, <2>1 DEF n
    <3>1. CASE f = x BY <2>1, <3>0, <3>1
    <3>2. CASE f # x
      <4>1. f \in 1..src.at BY <1>0, <3>2
      <4>2. \A k \in DOMAIN held : k \in DOMAIN rest /\ rest[k] = held[k] BY <1>3, <2>1 DEF n
      <4> QED BY <1>1, <1>5, <4>1, <4>2
    <3> QED BY <3>1, <3>2
  <2>7. run.hand # 0 => /\ run.hand \in 1..x
                        /\ \A k \in DOMAIN rest : run.hand < rest[k]
    <3> SUFFICES ASSUME run.hand # 0, NEW k \in DOMAIN rest
                 PROVE  run.hand \in 1..x /\ run.hand < rest[k]
      BY <1>0, <1>1
    <3>1. run.hand \in 1..src.at BY <1>1
    <3>2. CASE k \in 1..n BY <1>0, <1>1, <1>3, <2>1, <3>1, <3>2 DEF n
    <3>3. CASE k = n + 1 BY <1>0, <2>1, <3>1, <3>3
    <3> QED BY <1>3, <2>1, <3>2, <3>3 DEF n
  <2> HIDE DEF x
  <2>8. src'.at = x /\ src.at <= x BY <1>0, <1>5 DEF x
  <2> QED BY <1>1, <1>4, <1>5, <2>0, <2>5, <2>6, <2>7, <2>8 DEF rest
<1>6. CASE \E k \in DOMAIN held :
             /\ Drops(rest, held, k) /\ run'.hand = run.hand
             /\ src' = src /\ Passed' = Passed \cup {held[k]}
  <2>1. PICK k \in DOMAIN held :
          /\ Drops(rest, held, k) /\ run'.hand = run.hand
          /\ src' = src /\ Passed' = Passed \cup {held[k]}
    BY <1>6
  <2> HIDE DEF held, rest
  <2>2. /\ Unsent(rest)
        /\ \A i \in DOMAIN rest : \E m \in DOMAIN held : rest[i] = held[m]
        /\ \A m \in DOMAIN held : m = k \/ held[m] \in {rest[i] : i \in DOMAIN rest}
    BY <1>0, <1>1, <2>1, DropsFacts
  <2>3. Unsent(HeldInput)' BY <1>0, <2>1, <2>2 DEF Unsent, rest
  <2>4. \A m \in DOMAIN held : held[m] \in Passed' \cup {rest[i] : i \in DOMAIN rest}
    BY <2>1, <2>2
  <2>5. 1..src.at \subseteq SentFragments \cup Passed' \cup {rest[i] : i \in DOMAIN rest}
                              \cup {run'.hand}
    BY <1>1, <2>1, <2>4
  <2>6. run.hand # 0 => \A i \in DOMAIN rest : run.hand < rest[i] BY <1>1, <2>2
  <2>7. src.at <= src.at BY <1>0
  <2> QED BY <1>0, <1>1, <1>4, <2>1, <2>3, <2>5, <2>6, <2>7 DEF rest
<1>7. CASE /\ run.hand = 0 /\ 1 \in DOMAIN held /\ Drops(rest, held, 1)
           /\ run'.hand = held[1] /\ src' = src /\ Passed' = Passed
  <2> HIDE DEF held, rest
  <2>1. /\ Unsent(rest)
        /\ \A i \in DOMAIN rest : \E m \in DOMAIN held : rest[i] = held[m] /\ m > 1
        /\ \A m \in DOMAIN held : m = 1 \/ held[m] \in {rest[i] : i \in DOMAIN rest}
    BY <1>0, <1>1, <1>7, DropsFacts
  <2>2. Unsent(HeldInput)' BY <1>0, <1>7, <2>1 DEF Unsent, rest
  <2>3. 1..src.at \subseteq SentFragments \cup Passed \cup {held[m] : m \in DOMAIN held}
    BY <1>0, <1>1, <1>7
  <2>4. 1..src.at \subseteq SentFragments \cup Passed' \cup {rest[i] : i \in DOMAIN rest}
                              \cup {run'.hand}
    BY <1>7, <2>1, <2>3
  <2>5. /\ held[1] \in 1..src.at
        /\ \A i \in DOMAIN hist.media : hist.media[i][3] < held[1]
        /\ \A i \in DOMAIN rest : held[1] < rest[i]
    <3>1. ASSUME NEW i \in DOMAIN rest PROVE held[1] < rest[i]
      <4>1. PICK m \in DOMAIN held : rest[i] = held[m] /\ m > 1 BY <2>1
      <4> QED BY <1>1, <1>7, <4>1 DEF Unsent
    <3> QED BY <1>1, <1>7, <3>1 DEF Unsent
  <2>6. src.at <= src.at BY <1>0
  <2> QED BY <1>0, <1>4, <1>7, <2>2, <2>4, <2>5, <2>6 DEF rest
<1> QED BY <1>5, <1>6, <1>7, FragmentFacts

\* The fragment that is sent is the one that was taken.
LEMMA SendFragmentKeepsInput ==
    ASSUME LifecycleTypes, GroupsKnown, InputKnown, SendFragment
    PROVE  InputKnown'
<1> DEFINE f == run.hand
           held == run.pending
<1>1. PICK g \in Nat :
        /\ f \in Nat \ {0} /\ pub.pc = "run" /\ run.phase = "live" /\ run'.phase = "live"
        /\ UNCHANGED <<scenario, pub, resume, src>>
        /\ run'.pending = held /\ run'.saved = run.saved /\ run'.hand = 0
        /\ Passed' = Passed /\ hist'.media = Append(hist.media, <<Current, g, f>>)
  BY SendFragmentFacts DEF At
<1>0. Fragments /\ Continues /\ HeldInput = held /\ HeldInput' = held /\ run.saved = held
      /\ Current \in Nat /\ src.at \in Nat /\ pub'.pc = "run"
  BY <1>1, SessionFacts DEF At, GroupsKnown, Carries, Continues, HeldInput, LifecycleTypes,
     Sources, InputKnown
<1> DEFINE x == <<Current, g, f>>
           l == Append(hist.media, x)
<1>2. x \in Nat \X Nat \X Nat /\ x[3] = f BY <1>0, <1>1
<1>3. /\ DOMAIN l = 1..Len(hist.media) + 1 /\ DOMAIN hist.media = 1..Len(hist.media)
      /\ Len(hist.media) \in Nat
      /\ \A i \in 1..Len(hist.media) : l[i] = hist.media[i]
      /\ l[Len(hist.media) + 1] = x
  BY <1>2, SentTyped, AppendFacts
<1>4. /\ \A k \in DOMAIN held : held[k] \in 1..src.at /\ f < held[k]
      /\ \A k, m \in DOMAIN held : k < m => held[k] < held[m]
      /\ \A k \in DOMAIN held, i \in DOMAIN hist.media : hist.media[i][3] < held[k]
      /\ 1..src.at \subseteq SentFragments \cup Passed \cup {held[k] : k \in DOMAIN held} \cup {f}
      /\ f \in 1..src.at /\ \A i \in DOMAIN hist.media : hist.media[i][3] < f
  BY <1>0, <1>1 DEF InputKnown, Unsent
<1>5. \A i \in DOMAIN hist.media : hist.media[i][3] \in Nat /\ hist.media[i][3] <= src.at
  BY SentTyped DEF InputKnown
<1>6. hist'.media = l BY <1>1
<1> HIDE DEF x, l, held, f
<1>7. SentFragments' = SentFragments \cup {f}
  <2>1. SentFragments' = {l[i][3] : i \in DOMAIN l} BY <1>6 DEF SentFragments
  <2>2. \A i \in DOMAIN l : l[i][3] \in SentFragments \cup {f}
    <3> TAKE i \in DOMAIN l
    <3>1. CASE i \in 1..Len(hist.media)
      <4>1. i \in DOMAIN hist.media /\ l[i] = hist.media[i] BY <1>3, <3>1
      <4> QED BY <4>1 DEF SentFragments
    <3>2. CASE i = Len(hist.media) + 1 BY <1>2, <1>3, <3>2
    <3> QED BY <1>3, <3>1, <3>2
  <2>3. \A i \in DOMAIN hist.media : i \in DOMAIN l /\ l[i] = hist.media[i] BY <1>3
  <2>4. Len(hist.media) + 1 \in DOMAIN l /\ l[Len(hist.media) + 1][3] = f BY <1>2, <1>3
  <2>5. SentFragments \cup {f} \subseteq {l[i][3] : i \in DOMAIN l} BY <2>3, <2>4 DEF SentFragments
  <2> QED BY <2>1, <2>2, <2>5
<1>8. ASSUME NEW i \in DOMAIN l
      PROVE  /\ l[i][3] \in Nat /\ l[i][3] <= f /\ l[i][3] <= src.at
             /\ 1..l[i][3] \subseteq SentFragments \cup {f} \cup Passed
  <2>1. CASE i \in 1..Len(hist.media)
    <3>1. i \in DOMAIN hist.media /\ l[i] = hist.media[i] BY <1>3, <2>1
    <3>2. 1..hist.media[i][3] \subseteq SentFragments \cup Passed BY <3>1 DEF InputKnown
    <3>3. hist.media[i][3] < f BY <1>4, <3>1
    <3> QED BY <1>1, <1>5, <3>1, <3>2, <3>3 DEF f
  <2>2. CASE i = Len(hist.media) + 1
    <3>1. l[i][3] = f BY <1>2, <1>3, <2>2
    <3>2. \A n \in 1..f : n \in 1..src.at /\ n \notin {held[k] : k \in DOMAIN held} BY <1>0, <1>4
    <3>3. 1..f \subseteq SentFragments \cup {f} \cup Passed BY <1>4, <3>2
    <3> QED BY <1>0, <1>4, <3>1, <3>3
  <2> QED BY <1>3, <2>1, <2>2
<1>9. ASSUME NEW i \in DOMAIN l, NEW j \in DOMAIN l, i < j PROVE l[i][3] < l[j][3]
  <2>1. i \in DOMAIN hist.media /\ l[i] = hist.media[i] BY <1>3, <1>9
  <2>2. CASE j \in 1..Len(hist.media)
    <3>1. l[j] = hist.media[j] /\ j \in DOMAIN hist.media BY <1>3, <2>2
    <3> QED BY <1>9, <2>1, <3>1 DEF InputKnown
  <2>3. CASE j = Len(hist.media) + 1 BY <1>2, <1>3, <1>4, <2>1, <2>3
  <2> QED BY <1>3, <2>2, <2>3
<1>10. ASSUME NEW k \in DOMAIN held, NEW i \in DOMAIN l PROVE l[i][3] < held[k]
  <2>1. held[k] \in Nat /\ f < held[k] /\ f \in Nat BY <1>0, <1>4
  <2>2. l[i][3] \in Nat /\ l[i][3] <= f BY <1>8
  <2> QED BY <2>1, <2>2
<1>11. Unsent(HeldInput)' BY <1>0, <1>1, <1>4, <1>6, <1>10 DEF Unsent
<1>12. 1..src'.at \subseteq SentFragments' \cup Passed' \cup {HeldInput'[k] : k \in DOMAIN HeldInput'}
                              \cup {run'.hand}
  BY <1>0, <1>1, <1>4, <1>7
<1>13. \A i \in DOMAIN hist'.media :
         /\ hist'.media[i][3] <= src'.at
         /\ 1..hist'.media[i][3] \subseteq SentFragments' \cup Passed'
  BY <1>1, <1>6, <1>7, <1>8
<1>14. \A i, j \in DOMAIN hist'.media : i < j => hist'.media[i][3] < hist'.media[j][3] BY <1>6, <1>9
<1>15. run'.saved = run'.pending BY <1>0, <1>1
<1> QED BY <1>0, <1>1, <1>11, <1>12, <1>13, <1>14, <1>15 DEF InputKnown, At

\* A list of unsent fragments is not the mark for no bytes.
LEMMA UnsentKept ==
    ASSUME NEW list \in Seq(Nat), Unsent(list)
    PROVE  list # NoBytes /\ Rest(list) = list
<1>1. ASSUME list = NoBytes PROVE FALSE
  <2>1. 1 \in DOMAIN list /\ list[1] = 0 BY <1>1 DEF NoBytes
  <2>2. list[1] \in 1..src.at BY <2>1 DEF Unsent
  <2> QED BY <2>1, <2>2
<1> QED BY <1>1 DEF Rest

\* The end of a session keeps for the next one what was read and not sent.
LEMMA EndKeepsInput ==
    ASSUME LifecycleTypes, InputKnown, SessionReturns \/ SessionStops \/ SessionFails \/ Goaway
    PROVE  InputKnown'
<1>0. /\ pub \in Publishes /\ At("run") /\ run' = NoSession /\ UNCHANGED <<scenario, src>>
      /\ Carries /\ Continues /\ run.pending \in Seq(Nat) /\ run.saved \in Seq(Nat)
      /\ hist \in Histories /\ run'.hand = 0
  <2>1. At("run") /\ run' = NoSession /\ UNCHANGED <<scenario, src>>
    BY ReturnsFacts, FailsFacts, GoawayFacts
  <2> QED BY <2>1 DEF LifecycleTypes, Runs, Carries, Continues, At, NoSession
<1>1. \/ hist' = hist
      \/ SessionFails /\ ~shared.stop /\ hist' = Fell
  BY ReturnsFacts, FailsFacts, GoawayFacts
<1>2. /\ hist'.media = hist.media /\ Passed \subseteq Passed'
      /\ hist' = Fell => Lookahead \cup InHand \subseteq Passed'
  BY <1>0, <1>1 DEF Histories, Passed, Fell
<1>3. SentFragments' = SentFragments BY <1>2 DEF SentFragments
<1>4. pub'.pc # "run"
  <2>1. CASE SessionReturns \/ SessionStops BY <1>0, <2>1, ReturnsFacts, ReturnedFacts DEF Outcomes
  <2>2. CASE SessionFails BY <1>0, <2>2, FailsFacts, ClosingFacts
  <2>3. CASE Goaway BY <1>0, <2>3, GoawayFacts, ClosingFacts
  <2> QED BY <2>1, <2>2, <2>3
<1>5. HeldInput' = Rest(resume'.bytes) BY <1>4 DEF HeldInput, At
<1>6. ASSUME Continues', Fragments'
      PROVE  \E list \in Seq(Nat) :
               /\ Rest(resume'.bytes) = list /\ Unsent(list)
               /\ 1..src.at \subseteq SentFragments \cup Passed'
                                         \cup {list[k] : k \in DOMAIN list}
  <2>0. Fragments BY <1>0, <1>6 DEF Fragments
  <2>1. /\ Unsent(HeldInput)
        /\ 1..src.at \subseteq SentFragments \cup Passed
              \cup {HeldInput[k] : k \in DOMAIN HeldInput} \cup {run.hand}
    BY <1>0, <2>0 DEF InputKnown
  <2>2. \/ /\ SessionFails /\ ~shared.stop /\ LeavesForRetry(resume')
           /\ hist' = Fell
        \/ run.phase = "live" /\ run.hand = 0 /\ resume'.bytes = run.saved
    <3>1. ~(SessionReturns \/ SessionStops)
      <4> SUFFICES ASSUME SessionReturns \/ SessionStops PROVE FALSE OBVIOUS
      <4>1. pub'.pc = "over" BY <1>0, ReturnsFacts, ReturnedFacts DEF Outcomes
      <4> QED BY <1>6, <4>1 DEF Continues, Carries, Leaves, At
    <3>2. CASE SessionFails
      <4>1. CASE shared.stop
        <5>1. pub' = Closing(pub, "stopped") BY <3>2, <4>1, FailsFacts
        <5>2. pub'.pc \in {"close", "stopped"} /\ pub'.then = "stopped" BY <1>0, <5>1, ClosingFacts
        <5> QED BY <1>6, <5>2 DEF Continues, Carries, Leaves, At
      <4>2. CASE ~shared.stop
        <5>1. pub'.pc \in {"close", "failed"} /\ pub'.then = "failed" BY <3>2, <4>2, FailsFacts
        <5>2. pub'.kind = "retryable" BY <1>6, <5>1 DEF Continues, Carries, Leaves, At
        <5> QED BY <2>0, <3>2, <4>2, <5>2, FailsFacts
      <4> QED BY <4>1, <4>2
    <3>3. CASE Goaway
      <4>1. \/ pub'.pc \in {"close", "failed"} /\ pub'.then = "failed" /\ pub'.kind = "fatal"
            \/ run.phase = "live" /\ run.hand = 0 /\ resume'.bytes = run.saved
        BY <2>0, <3>3, GoawayFacts
      <4> QED BY <1>6, <4>1 DEF Continues, Carries, Leaves, At
    <3> QED BY <3>1, <3>2, <3>3
  <2>3. CASE run.phase = "live"
    <3>1. HeldInput = run.pending /\ run.saved = run.pending BY <1>0, <2>3 DEF HeldInput, InputKnown
    <3>2. run.pending # NoBytes /\ Rest(run.pending) = run.pending BY <1>0, <2>1, <3>1, UnsentKept
    <3>3. resume'.bytes = run.pending BY <2>2, <3>1, <3>2 DEF LeavesForRetry
    <3>4. run.hand # 0 => run.hand \in Passed' BY <1>2, <2>2 DEF InHand
    <3> QED BY <1>0, <1>2, <2>1, <3>1, <3>2, <3>3, <3>4
  <2>4. CASE run.phase = "read"
    <3>1. HeldInput = run.pending /\ Unsent(run.saved) BY <1>0, <2>4 DEF HeldInput, InputKnown
    <3>2. run.saved # NoBytes /\ Rest(run.saved) = run.saved BY <1>0, <3>1, UnsentKept
    <3>3. resume'.bytes = run.saved /\ hist' = Fell
      BY <2>2, <2>4, <3>2 DEF LeavesForRetry
    <3>4. Lookahead \subseteq Passed' /\ run.hand = 0 BY <1>2, <2>4, <3>3 DEF InputKnown
    <3>5. \A k \in DOMAIN run.pending :
            run.pending[k] \in Passed' \cup {run.saved[m] : m \in DOMAIN run.saved}
      BY <2>4, <3>4 DEF Lookahead, ToSet
    <3> QED BY <1>0, <1>2, <2>1, <3>1, <3>2, <3>3, <3>4, <3>5
  <2>5. CASE run.phase \notin {"live", "read"}
    <3>1. run.saved = NoBytes /\ HeldInput = Rest(resume.bytes) /\ run.hand = 0
      BY <1>0, <2>5 DEF HeldInput, InputKnown
    <3>2. resume'.bytes = resume.bytes BY <2>2, <2>5, <3>1 DEF LeavesForRetry
    <3>3. HeldInput \in Seq(Nat) BY <3>1, RestTyped DEF LifecycleTypes, Resumes
    <3> QED BY <1>2, <2>1, <3>1, <3>2, <3>3
  <2> QED BY <2>3, <2>4, <2>5
<1>7. (Continues /\ Fragments)' =>
        /\ Unsent(HeldInput)'
        /\ 1..src'.at \subseteq SentFragments' \cup Passed'
              \cup {HeldInput'[k] : k \in DOMAIN HeldInput'} \cup {run'.hand}
  <2> SUFFICES ASSUME Continues', Fragments'
               PROVE  /\ Unsent(HeldInput)'
                      /\ 1..src'.at \subseteq SentFragments' \cup Passed'
                                                \cup {HeldInput'[k] : k \in DOMAIN HeldInput'} \cup {run'.hand}
    OBVIOUS
  <2>1. PICK list \in Seq(Nat) :
          /\ Rest(resume'.bytes) = list /\ Unsent(list)
          /\ 1..src.at \subseteq SentFragments \cup Passed' \cup {list[k] : k \in DOMAIN list}
    BY <1>6
  <2>2. HeldInput' = list /\ src' = src /\ hist'.media = hist.media BY <1>0, <1>2, <1>5, <2>1
  <2>3. Unsent(HeldInput)' BY <2>1, <2>2 DEF Unsent
  <2> QED BY <1>0, <1>3, <2>1, <2>2, <2>3
<1>8. /\ \A i, j \in DOMAIN hist'.media : i < j => hist'.media[i][3] < hist'.media[j][3]
      /\ \A i \in DOMAIN hist'.media :
           /\ hist'.media[i][3] <= src'.at
           /\ 1..hist'.media[i][3] \subseteq SentFragments' \cup Passed'
  BY <1>0, <1>2, <1>3 DEF InputKnown
<1> QED BY <1>0, <1>4, <1>7, <1>8 DEF InputKnown, At

(* The catalog of a source. *)

\* The publish has ended or tries again.
LEMMA LeavesCatalog ==
    ASSUME pub'.attempt \in Nat, pub'.attempt > 0, ~Carries', pub'.pc = "attempt" => pub'.attempt > 1
    PROVE  CatalogKept'
<1>1. pub'.pc \notin {"create", "connect", "connected", "run"} BY DEF Carries
<1>2. FirstTry' => pub'.pc # "attempt" BY DEF FirstTry
<1> QED BY <1>1, <1>2 DEF CatalogKept, At

\* The publish goes on to its next session.
LEMMA CarriesCatalog ==
    ASSUME CatalogKept, Carries, scenario' = scenario, src' = src, pub'.attempt = pub.attempt,
           work'.seen = work.seen, work'.whole = work.whole, work'.chain = work.chain,
           work'.replay = work.replay, pub'.pc \notin {"run", "attempt"},
           pub'.pc \in {"create", "connect", "connected"} =>
             pub.pc \in {"create", "connect", "connected"}
    PROVE  CatalogKept'
<1>1. FirstTry' = FirstTry /\ GivenCatalogs' = GivenCatalogs BY DEF FirstTry, GivenCatalogs, Objects
<1>2. RunsOn(work.chain) => RunsOn(work.chain)' BY <1>1 DEF RunsOn
<1>3. FirstTry => /\ work.seen <=> GivenCatalogs # {}
                  /\ work.whole <=> work.chain # <<>>
                  /\ work.chain # <<>> => RunsOn(work.chain) /\ src.objects[work.chain[1]] = "base"
  BY DEF CatalogKept
<1>4. FirstTry' => /\ work'.seen <=> GivenCatalogs' # {}
                   /\ work'.whole <=> work'.chain # <<>>
                   /\ work'.chain # <<>> => RunsOn(work.chain)' /\ src'.objects[work'.chain[1]] = "base"
  BY <1>1, <1>2, <1>3
<1>5. FirstTry' /\ pub'.pc \in {"create", "connect", "connected"} =>
        GivenCatalogs' = {} \/ (work'.chain # <<>> /\ work'.replay = 1)
  BY <1>1 DEF CatalogKept
<1>6. pub'.attempt > 0 BY DEF CatalogKept
<1> QED BY <1>1, <1>4, <1>5, <1>6 DEF CatalogKept, At

\* A step of the session that hands it no object.
LEMMA HandsNothing ==
    ASSUME CatalogKept, At("run"), UNCHANGED <<scenario, pub, work>>, KeepsCatalogs,
           src'.objects = src.objects
    PROVE  CatalogKept'
<1>1. FirstTry' = FirstTry /\ GivenCatalogs' = GivenCatalogs /\ Carries /\ Replays' = Replays
      /\ run'.handed = run.handed /\ run'.media = run.media /\ pub'.pc = "run" /\ pub.pc = "run"
  BY DEF FirstTry, GivenCatalogs, Objects, Carries, At, Replays, KeepsCatalogs
<1>2. /\ RunsOn(work.chain) => RunsOn(work.chain)'
      /\ RunsOn(run.handed) => RunsOn(run.handed)'
  BY <1>1 DEF RunsOn
<1>3. HandedKnown => HandedKnown' BY <1>1, <1>2 DEF HandedKnown
<1>4. FirstTry => /\ work.seen <=> GivenCatalogs # {}
                  /\ work.whole <=> work.chain # <<>>
                  /\ work.chain # <<>> => RunsOn(work.chain) /\ src.objects[work.chain[1]] = "base"
                  /\ IF Replays
                     THEN /\ Len(run.handed) = work.replay - 1 /\ ~run.media
                          /\ \A k \in DOMAIN run.handed : run.handed[k] = work.chain[k]
                     ELSE HandedKnown
  BY <1>1 DEF CatalogKept, At
<1>5. FirstTry' => /\ work'.seen <=> GivenCatalogs' # {}
                   /\ work'.whole <=> work'.chain # <<>>
                   /\ work'.chain # <<>> => RunsOn(work.chain)' /\ src'.objects[work'.chain[1]] = "base"
                   /\ IF Replays'
                      THEN /\ Len(run'.handed) = work'.replay - 1 /\ ~run'.media
                           /\ \A k \in DOMAIN run'.handed : run'.handed[k] = work'.chain[k]
                      ELSE HandedKnown'
  BY <1>1, <1>2, <1>3, <1>4
<1>6. pub'.attempt > 0 BY DEF CatalogKept
<1> QED BY <1>1, <1>5, <1>6 DEF CatalogKept, At

LEMMA ReturnedLeaves ==
    ASSUME LifecycleTypes, CatalogKept, NEW kind \in Outcomes, pub' = Returned(pub, kind)
    PROVE  CatalogKept'
<1>0. pub \in Publishes /\ pub.attempt \in Nat /\ pub.attempt > 0
  BY DEF LifecycleTypes, Publishes, CatalogKept
<1>1. \/ pub'.pc = "attempt" /\ pub'.attempt = pub.attempt + 1
      \/ pub'.pc = "over" /\ pub'.attempt = pub.attempt
  BY <1>0, ReturnedFacts
<1>2. ~Carries' BY <1>1 DEF Carries, Leaves, At
<1> QED BY <1>0, <1>1, <1>2, LeavesCatalog

LEMMA ThreadKeepsCatalog ==
    ASSUME LifecycleTypes, LifecycleInv, CatalogKept,
           Enter \/ Register \/ LibmoqReturns \/ SessionMade \/ Connects \/ ConnectFinishes
             \/ Migrate \/ Failed \/ Stopped \/ PublisherCloses
    PROVE  CatalogKept'
<1>0. /\ pub \in Publishes /\ pub.attempt \in Nat /\ pub.attempt > 0
      /\ scenario' = scenario /\ src' = src /\ run = NoSession /\ run' = NoSession
  BY ThreadFacts DEF BetweenSessions, LifecycleTypes, Publishes, CatalogKept
<1>1. CASE Enter
  <2>1. pub.pc = "attempt" /\ pub'.attempt = pub.attempt /\ pub'.pc \in {"register", "create"}
    BY <1>0, <1>1 DEF Enter, At, Go, Publishes
  <2>2. work'.seen = FALSE /\ work'.whole = FALSE /\ work'.chain = <<>> BY <1>1 DEF Enter, NoWork
  <2>3. FirstTry' => FirstTry BY <1>0, <2>1 DEF FirstTry, Objects
  <2>4. FirstTry' => GivenCatalogs' = {} BY <1>0, <2>1, <2>3 DEF CatalogKept, At, GivenCatalogs
  <2> QED BY <1>0, <2>1, <2>2, <2>4 DEF CatalogKept, At
<1>2. CASE Register
  <2>1. pub'.pc = "libmoq" /\ pub'.attempt = pub.attempt BY <1>0, <1>2 DEF Register, Go, Publishes
  <2>2. ~Carries' BY <2>1 DEF Carries, Leaves, At
  <2> QED BY <1>0, <2>1, <2>2, LeavesCatalog
<1>3. CASE LibmoqReturns BY <1>3, ReturnedLeaves DEF LibmoqReturns, Outcomes
<1>4. CASE SessionMade
  <2>1. CASE shared.stop BY <1>4, <2>1, ReturnedLeaves DEF SessionMade, Outcomes
  <2>2. CASE ~shared.stop
    <3>1. pub.pc = "create" /\ pub'.pc = "connect" /\ pub'.attempt = pub.attempt /\ work' = work
      BY <1>0, <1>4, <2>2, GoFacts DEF SessionMade, At
    <3>2. Carries BY <3>1 DEF Carries
    <3> QED BY <1>0, <3>1, <3>2, CarriesCatalog
  <2> QED BY <2>1, <2>2
<1>5. CASE Connects
  <2>1. pub.pc = "connect" /\ pub'.pc = "connected" /\ pub'.attempt = pub.attempt /\ work' = work
    BY <1>0, <1>5, GoFacts DEF Connects, At
  <2>2. Carries BY <2>1 DEF Carries
  <2> QED BY <1>0, <2>1, <2>2, CarriesCatalog
<1>6. CASE ConnectFinishes
  <2>1. CASE shared.stop
    <3>1. /\ pub'.pc \in {"close", "stopped"} /\ pub'.then = "stopped"
          /\ pub'.attempt = pub.attempt
      BY <1>0, <1>6, <2>1, ClosingFacts DEF ConnectFinishes
    <3>2. ~Carries' BY <3>1 DEF Carries, Leaves, At
    <3> QED BY <1>0, <3>1, <3>2, LeavesCatalog
  <2>2. CASE ~shared.stop /\ ~ses[Current].up BY <1>6, <2>2, ReturnedLeaves DEF ConnectFinishes, Outcomes
  <2>3. CASE ~shared.stop /\ ses[Current].up
    <3>1. /\ pub.pc = "connected" /\ pub'.pc = "run" /\ pub'.attempt = pub.attempt /\ work' = work
      BY <1>0, <1>6, <2>3, GoFacts DEF ConnectFinishes, At
    <3>2. Carries /\ FirstTry' = FirstTry /\ GivenCatalogs' = GivenCatalogs
      BY <1>0, <3>1 DEF Carries, FirstTry, GivenCatalogs, Objects
    <3>3. RunsOn(work.chain) => RunsOn(work.chain)' BY <3>1, <3>2 DEF RunsOn
    <3>4. FirstTry => /\ work.seen <=> GivenCatalogs # {}
                      /\ work.whole <=> work.chain # <<>>
                      /\ work.chain # <<>> =>
                           RunsOn(work.chain) /\ src.objects[work.chain[1]] = "base"
                      /\ GivenCatalogs = {} \/ (work.chain # <<>> /\ work.replay = 1)
      BY <3>1, <3>2 DEF CatalogKept
    <3>5. run'.handed = <<>> /\ ~run'.media BY <1>0 DEF NoSession
    <3>6. ASSUME FirstTry'
          PROVE  IF Replays'
                 THEN /\ Len(run'.handed) = work'.replay - 1 /\ ~run'.media
                      /\ \A k \in DOMAIN run'.handed : run'.handed[k] = work'.chain[k]
                 ELSE HandedKnown'
      <4>1. CASE GivenCatalogs = {}
        <5>1. work.chain = <<>>
          <6> SUFFICES ASSUME work.chain # <<>> PROVE FALSE OBVIOUS
          <6>1. work.chain \in Seq(Nat) BY DEF LifecycleTypes, Works
          <6>2. 1 \in DOMAIN work.chain BY <6>1, EmptySeq, LenProperties
          <6>3. work.chain[1] \in {work.chain[k] : k \in DOMAIN work.chain} BY <6>2
          <6> QED BY <3>2, <3>4, <3>6, <4>1, <6>3 DEF RunsOn
        <5>2. ~Replays'
          <6>1. work.replay \in Nat /\ Len(work.chain) = 0 BY <5>1 DEF LifecycleTypes, Works
          <6> QED BY <3>1, <6>1 DEF Replays
        <5> QED BY <3>2, <3>5, <4>1, <5>2 DEF HandedKnown
      <4>2. CASE GivenCatalogs # {}
        <5>1. work.chain # <<>> /\ work.replay = 1 BY <3>2, <3>4, <3>6, <4>2
        <5>2. Len(work.chain) \in Nat /\ Len(work.chain) # 0
          <6>1. work.chain \in Seq(Nat) BY DEF LifecycleTypes, Works
          <6> QED BY <5>1, <6>1, EmptySeq, LenProperties
        <5>3. Replays' BY <3>1, <5>1, <5>2 DEF Replays
        <5> QED BY <3>1, <3>5, <5>1, <5>3
      <4> QED BY <4>1, <4>2
    <3> QED BY <1>0, <3>1, <3>2, <3>3, <3>4, <3>6 DEF CatalogKept, At
  <2> QED BY <2>1, <2>2, <2>3
<1>7. CASE Migrate
  <2>1. CASE pub' = Returned(pub, "fatal") BY <2>1, ReturnedLeaves DEF Outcomes
  <2>2. CASE pub' # Returned(pub, "fatal")
    <3>0. /\ pub.pc = "migrate" /\ ~Unreplayable
          /\ pub' = [Go(pub, "create") EXCEPT !.migrations = @ + 1]
          /\ work' = IF work.chain # <<>> THEN [work EXCEPT !.replay = 1] ELSE work
      BY <1>7, <2>2 DEF Migrate, At
    <3>1. Go(pub, "create") \in Publishes /\ Go(pub, "create").pc = "create"
          /\ Go(pub, "create").attempt = pub.attempt
      BY <1>0, GoFacts
    <3>2. pub'.pc = "create" /\ pub'.attempt = pub.attempt BY <3>0, <3>1, MigrationCounted
    <3>3. Carries /\ FirstTry' = FirstTry /\ GivenCatalogs' = GivenCatalogs
      BY <1>0, <3>0, <3>2 DEF Carries, Leaves, At, FirstTry, GivenCatalogs, Objects
    <3>4. work'.seen = work.seen /\ work'.whole = work.whole /\ work'.chain = work.chain
          /\ (work.chain # <<>> => work'.replay = 1)
      BY <3>0 DEF LifecycleTypes, Works
    <3>5. FirstTry => /\ work.seen <=> GivenCatalogs # {}
                      /\ work.whole <=> work.chain # <<>>
                      /\ work.chain # <<>> =>
                           RunsOn(work.chain) /\ src.objects[work.chain[1]] = "base"
      BY <3>3 DEF CatalogKept
    <3>6. FirstTry => GivenCatalogs = {} \/ work.chain # <<>> BY <3>0, <3>5 DEF Unreplayable, FirstTry
    <3>7. RunsOn(work.chain) => RunsOn(work.chain)' BY <3>3, <3>4 DEF RunsOn
    <3> QED BY <1>0, <3>2, <3>3, <3>4, <3>5, <3>6, <3>7 DEF CatalogKept, At
  <2> QED BY <2>1, <2>2
<1>8. CASE Failed
  <2>1. pub.kind \in Outcomes BY <1>0 DEF Publishes, Outcomes
  <2> QED BY <1>8, <2>1, ReturnedLeaves DEF Failed
<1>9. CASE Stopped BY <1>9, ReturnedLeaves DEF Stopped, Outcomes
<1>10. CASE PublisherCloses
  <2>0. /\ pub.pc = "close" /\ work' = work /\ pub.then \in {"stopped", "failed", "migrate"}
    BY <1>10 DEF PublisherCloses, At, LifecycleInv, SessionsKnown, LifecycleTypes, Publishes
  <2>1. \/ pub' = pub
        \/ pub'.pc = pub.then /\ pub'.then = pub.then /\ pub'.attempt = pub.attempt
    BY <1>0, <1>10, <2>0, GoFacts DEF PublisherCloses
  <2>2. CASE pub.then = "migrate"
    <3>1. Carries BY <2>0, <2>2 DEF Carries, Leaves, At
    <3> QED BY <1>0, <2>0, <2>1, <2>2, <3>1, CarriesCatalog
  <2>3. CASE pub.then # "migrate"
    <3>1. ~Carries' BY <2>0, <2>1, <2>3 DEF Carries, Leaves, At
    <3> QED BY <1>0, <2>0, <2>1, <2>3, <3>1, LeavesCatalog
  <2> QED BY <2>2, <2>3
<1> QED BY <1>1, <1>2, <1>3, <1>4, <1>5, <1>6, <1>7, <1>8, <1>9, <1>10

\* The objects of the source, and one more.
LEMMA MoreObjects ==
    ASSUME LifecycleTypes, NEW kind \in ObjectKinds, src'.objects = Append(src.objects, kind)
    PROVE  LET i == Len(src.objects) + 1
           IN  /\ i \in Nat /\ GivenCatalogs \subseteq 1..Len(src.objects)
               /\ Len(src.objects) \in Nat /\ DOMAIN src.objects = 1..Len(src.objects)
               /\ \A j \in 1..Len(src.objects) : src'.objects[j] = src.objects[j]
               /\ src'.objects[i] = kind
               /\ GivenCatalogs' = IF kind = "media" THEN GivenCatalogs ELSE GivenCatalogs \cup {i}
<1> DEFINE i == Len(src.objects) + 1
           objs == Append(src.objects, kind)
<1>0. src.objects \in Seq(ObjectKinds) BY DEF LifecycleTypes, Sources, ObjectKinds
<1>1. Len(src.objects) \in Nat /\ DOMAIN src.objects = 1..Len(src.objects) BY <1>0, LenProperties
<1>2. /\ DOMAIN objs = 1..Len(src.objects) + 1
      /\ \A j \in 1..Len(src.objects) : objs[j] = src.objects[j]
      /\ objs[i] = kind
  BY <1>0, AppendFacts
<1>3. GivenCatalogs' = {j \in DOMAIN objs : objs[j] # "media"} BY DEF GivenCatalogs
<1> HIDE DEF objs
<1>4. DOMAIN objs = DOMAIN src.objects \cup {i} /\ i \notin DOMAIN src.objects BY <1>1, <1>2
<1>5. GivenCatalogs' = IF kind = "media" THEN GivenCatalogs ELSE GivenCatalogs \cup {i}
  BY <1>1, <1>2, <1>3, <1>4 DEF GivenCatalogs
<1> QED BY <1>1, <1>2, <1>5 DEF GivenCatalogs, objs

\* A list that runs on to the end, when one more object is appended to it.
LEMMA RunsOnMore ==
    ASSUME LifecycleTypes, NEW kind \in ObjectKinds \ {"media"},
           src'.objects = Append(src.objects, kind),
           NEW list \in Seq(Nat), list # <<>>, RunsOn(list),
           NEW more, more = Append(list, Len(src.objects) + 1)
    PROVE  /\ {more[k] : k \in DOMAIN more} = {i \in GivenCatalogs' : i >= more[1]}
           /\ \A k, l \in DOMAIN more : k < l => more[k] < more[l]
           /\ more # <<>> /\ more[1] = list[1] /\ list[1] \in GivenCatalogs
<1> DEFINE i == Len(src.objects) + 1
<1>1. /\ i \in Nat /\ GivenCatalogs \subseteq 1..Len(src.objects) /\ Len(src.objects) \in Nat
      /\ GivenCatalogs' = GivenCatalogs \cup {i}
  BY MoreObjects
<1>2. /\ DOMAIN more = 1..Len(list) + 1 /\ Len(list) \in Nat /\ DOMAIN list = 1..Len(list)
      /\ \A k \in 1..Len(list) : more[k] = list[k]
      /\ more[Len(list) + 1] = i
  BY <1>1, AppendFacts, LenProperties
<1>3. Len(list) # 0 BY <1>2, EmptySeq
<1>4. 1 \in DOMAIN list /\ more[1] = list[1] BY <1>2, <1>3
<1>5. \A k \in DOMAIN list : list[k] \in GivenCatalogs /\ list[k] >= list[1] BY DEF RunsOn
<1>6. list[1] \in GivenCatalogs /\ list[1] \in Nat /\ list[1] < i BY <1>1, <1>4, <1>5
<1> HIDE DEF i
<1>7. {more[k] : k \in DOMAIN more} = {list[k] : k \in DOMAIN list} \cup {i}
  <2>1. \A k \in DOMAIN more : more[k] \in {list[m] : m \in DOMAIN list} \cup {i}
    <3> TAKE k \in DOMAIN more
    <3>1. CASE k \in DOMAIN list BY <1>2, <3>1
    <3>2. CASE k = Len(list) + 1 BY <1>2, <3>2
    <3> QED BY <1>2, <3>1, <3>2
  <2>2. \A k \in DOMAIN list : k \in DOMAIN more /\ more[k] = list[k] BY <1>2
  <2>3. Len(list) + 1 \in DOMAIN more BY <1>2
  <2>4. i \in {more[k] : k \in DOMAIN more} BY <1>2, <2>3
  <2>5. {list[k] : k \in DOMAIN list} \subseteq {more[k] : k \in DOMAIN more} BY <2>2
  <2>6. {more[k] : k \in DOMAIN more} \subseteq {list[k] : k \in DOMAIN list} \cup {i} BY <2>1
  <2> QED BY <2>4, <2>5, <2>6
<1>8. {list[k] : k \in DOMAIN list} = {j \in GivenCatalogs : j >= list[1]} BY DEF RunsOn
<1>9. {more[k] : k \in DOMAIN more} = {j \in GivenCatalogs' : j >= more[1]}
  <2>1. i \in GivenCatalogs' /\ i >= more[1] BY <1>1, <1>4, <1>6
  <2>2. \A j \in GivenCatalogs : j >= more[1] <=> j >= list[1] BY <1>4
  <2>3. \A j : j \in {m \in GivenCatalogs' : m >= more[1]} <=>
               j \in {m \in GivenCatalogs : m >= list[1]} \cup {i}
    BY <1>1, <2>1, <2>2
  <2> QED BY <1>7, <1>8, <2>3
<1>10. ASSUME NEW k \in DOMAIN more, NEW l \in DOMAIN more, k < l PROVE more[k] < more[l]
  <2>1. k \in DOMAIN list /\ more[k] = list[k] BY <1>2, <1>10
  <2>2. CASE l \in DOMAIN list BY <1>2, <1>10, <2>1, <2>2 DEF RunsOn
  <2>3. CASE l = Len(list) + 1 BY <1>1, <1>2, <1>5, <2>1, <2>3 DEF i
  <2> QED BY <1>2, <2>2, <2>3
<1> QED BY <1>2, <1>4, <1>6, <1>9, <1>10

\* A list of the newest object only.
LEMMA RunsOnNew ==
    ASSUME LifecycleTypes, NEW kind \in ObjectKinds \ {"media"},
           src'.objects = Append(src.objects, kind),
           NEW more, more = <<Len(src.objects) + 1>>
    PROVE  /\ {more[k] : k \in DOMAIN more} = {i \in GivenCatalogs' : i >= more[1]}
           /\ \A k, l \in DOMAIN more : k < l => more[k] < more[l]
           /\ more # <<>> /\ more[1] = Len(src.objects) + 1
<1> DEFINE i == Len(src.objects) + 1
<1>1. /\ i \in Nat /\ GivenCatalogs \subseteq 1..Len(src.objects) /\ Len(src.objects) \in Nat
      /\ GivenCatalogs' = GivenCatalogs \cup {i}
  BY MoreObjects
<1>2. DOMAIN more = {1} /\ more[1] = i /\ more # <<>> OBVIOUS
<1>3. \A j \in GivenCatalogs : ~(j >= i) BY <1>1
<1> HIDE DEF i
<1>4. {more[k] : k \in DOMAIN more} = {i} BY <1>2
<1>5. {j \in GivenCatalogs' : j >= i} = {i}
  <2>1. i \in GivenCatalogs' /\ i >= i BY <1>1
  <2>2. \A j \in GivenCatalogs' : j >= i => j = i BY <1>1, <1>3
  <2> QED BY <2>1, <2>2
<1> QED BY <1>2, <1>4, <1>5 DEF i

LEMMA ReplayKeepsCatalog ==
    ASSUME LifecycleTypes, CatalogKept, ReplayCatalog
    PROVE  CatalogKept'
<1>0. /\ UNCHANGED <<scenario, pub, src>> /\ pub.pc = "run" /\ Replays /\ Carries
      /\ FirstTry' = FirstTry /\ GivenCatalogs' = GivenCatalogs
      /\ run.handed \in Seq(Nat) /\ work \in Works /\ work.chain \in Seq(Nat)
      /\ work.replay \in Nat
  BY DEF ReplayCatalog, At, Carries, FirstTry, GivenCatalogs, Objects, LifecycleTypes, Runs, Works
<1>1. /\ run'.media = run.media /\ run'.handed = Append(run.handed, work.chain[work.replay])
      /\ work' = [work EXCEPT !.replay = work.replay + 1]
      /\ work.replay \in DOMAIN work.chain /\ work.chain[work.replay] \in Nat
  BY ReplayCatalogFacts
<1>2. /\ work'.seen = work.seen /\ work'.whole = work.whole /\ work'.chain = work.chain
      /\ work'.replay = work.replay + 1
  BY <1>0, <1>1 DEF Works
<1>3. pub'.attempt > 0 BY <1>0 DEF CatalogKept
<1>4. ASSUME FirstTry'
      PROVE  /\ work'.seen <=> GivenCatalogs' # {}
             /\ work'.whole <=> work'.chain # <<>>
             /\ work'.chain # <<>> => RunsOn(work.chain)' /\ src'.objects[work'.chain[1]] = "base"
             /\ IF Replays'
                THEN /\ Len(run'.handed) = work'.replay - 1 /\ ~run'.media
                     /\ \A k \in DOMAIN run'.handed : run'.handed[k] = work'.chain[k]
                ELSE HandedKnown'
  <2>1. /\ work.seen <=> GivenCatalogs # {}
        /\ work.whole <=> work.chain # <<>>
        /\ work.chain # <<>> => RunsOn(work.chain) /\ src.objects[work.chain[1]] = "base"
        /\ Len(run.handed) = work.replay - 1 /\ ~run.media
        /\ \A k \in DOMAIN run.handed : run.handed[k] = work.chain[k]
    BY <1>0, <1>4 DEF CatalogKept, At
  <2>2. RunsOn(work.chain) => RunsOn(work.chain)' BY <1>0, <1>2 DEF RunsOn
  <2>3. /\ Len(run'.handed) = work.replay /\ DOMAIN run'.handed = 1..work.replay
        /\ run'.handed \in Seq(Nat)
        /\ \A k \in 1..work.replay : run'.handed[k] = work.chain[k]
    <3> DEFINE l == Append(run.handed, work.chain[work.replay])
    <3>1. /\ l \in Seq(Nat) /\ Len(l) = Len(run.handed) + 1 /\ DOMAIN l = 1..Len(run.handed) + 1
          /\ \A k \in 1..Len(run.handed) : l[k] = run.handed[k]
          /\ l[Len(run.handed) + 1] = work.chain[work.replay]
          /\ DOMAIN run.handed = 1..Len(run.handed) /\ Len(run.handed) \in Nat
      BY <1>0, <1>1, AppendFacts, LenProperties
    <3> HIDE DEF l
    <3>2. Len(run.handed) + 1 = work.replay BY <1>0, <2>1
    <3>3. \A k \in 1..work.replay : l[k] = work.chain[k]
      <4> TAKE k \in 1..work.replay
      <4>1. CASE k \in 1..Len(run.handed) BY <2>1, <3>1, <4>1
      <4>2. CASE k = work.replay BY <3>1, <3>2, <4>2
      <4> QED BY <1>0, <3>1, <3>2, <4>1, <4>2
    <3> QED BY <1>1, <3>1, <3>2, <3>3 DEF l
  <2>4. CASE Replays' BY <1>0, <1>1, <1>2, <2>1, <2>2, <2>3, <2>4
  <2>5. CASE ~Replays'
    <3>1. Len(work.chain) \in Nat /\ DOMAIN work.chain = 1..Len(work.chain) BY <1>0, LenProperties
    <3>2. work.replay = Len(work.chain) BY <1>0, <1>1, <1>2, <2>5, <3>1 DEF Replays
    <3>3. run'.handed = work.chain BY <1>0, <2>3, <3>1, <3>2, SeqEqual
    <3>4. work.chain # <<>> /\ 1 \in DOMAIN work.chain BY <1>0, <1>1, <3>1, <3>2 DEF Replays
    <3>5. work.chain[1] \in GivenCatalogs BY <2>1, <3>4 DEF RunsOn
    <3>6. HandedKnown' BY <1>0, <1>2, <2>1, <2>2, <3>3, <3>4, <3>5 DEF HandedKnown
    <3> QED BY <1>0, <1>2, <2>1, <2>2, <2>5, <3>6
  <2> QED BY <2>4, <2>5
<1> QED BY <1>0, <1>3, <1>4 DEF CatalogKept, At

LEMMA NextObjectKeepsCatalog ==
    ASSUME LifecycleTypes, CatalogKept, NextObject
    PROVE  CatalogKept'
<1>0. /\ UNCHANGED <<scenario, pub>> /\ pub.pc = "run" /\ ~Replays /\ Carries
      /\ FirstTry' = FirstTry /\ run.handed \in Seq(Nat) /\ work \in Works
      /\ work.chain \in Seq(Nat)
  BY DEF NextObject, At, Carries, FirstTry, Objects, LifecycleTypes, Runs, Works
<1> DEFINE i == Len(src.objects) + 1
<1>1. PICK kind \in ObjectKinds :
        /\ run'.handed = IF kind = "media" THEN run.handed ELSE Append(run.handed, i)
        /\ src'.objects = Append(src.objects, kind) /\ work'.replay = 0
        /\ IF scenario.draft22 /\ kind # "media" THEN ChainGoes(i, kind)
           ELSE work' = [work EXCEPT !.replay = 0]
  BY NextObjectFacts
<1>2. /\ i \in Nat /\ GivenCatalogs \subseteq 1..Len(src.objects) /\ Len(src.objects) \in Nat
      /\ \A j \in 1..Len(src.objects) : src'.objects[j] = src.objects[j]
      /\ src'.objects[i] = kind
      /\ GivenCatalogs' = IF kind = "media" THEN GivenCatalogs ELSE GivenCatalogs \cup {i}
  BY <1>1, MoreObjects
<1>3. ~Replays' /\ pub'.attempt > 0 BY <1>0, <1>1 DEF Replays, CatalogKept
<1>4. ASSUME FirstTry'
      PROVE  /\ work'.seen <=> GivenCatalogs' # {}
             /\ work'.whole <=> work'.chain # <<>>
             /\ work'.chain # <<>> => RunsOn(work.chain)' /\ src'.objects[work'.chain[1]] = "base"
             /\ HandedKnown'
  <2>1. /\ work.seen <=> GivenCatalogs # {}
        /\ work.whole <=> work.chain # <<>>
        /\ work.chain # <<>> => RunsOn(work.chain) /\ src.objects[work.chain[1]] = "base"
        /\ HandedKnown /\ scenario.draft22
    BY <1>0, <1>4 DEF CatalogKept, FirstTry, At
  <2>2. \A j \in GivenCatalogs : src'.objects[j] = src.objects[j] /\ j < i BY <1>2
  <2>3. CASE kind = "media"
    <3>1. /\ work'.seen = work.seen /\ work'.whole = work.whole /\ work'.chain = work.chain
          /\ GivenCatalogs' = GivenCatalogs /\ run'.handed = run.handed
      BY <1>0, <1>1, <1>2, <2>3 DEF Works
    <3>2. /\ RunsOn(work.chain) => RunsOn(work.chain)'
          /\ RunsOn(run.handed) => RunsOn(run.handed)'
      BY <3>1 DEF RunsOn
    <3>3. work.chain # <<>> => work.chain[1] \in GivenCatalogs
      <4> SUFFICES ASSUME work.chain # <<>> PROVE work.chain[1] \in GivenCatalogs OBVIOUS
      <4>1. 1 \in DOMAIN work.chain BY <1>0, EmptySeq, LenProperties
      <4> QED BY <2>1, <4>1 DEF RunsOn
    <3>4. run.handed # <<>> /\ RunsOn(run.handed) => run.handed[1] \in GivenCatalogs
      <4> SUFFICES ASSUME run.handed # <<>>, RunsOn(run.handed)
                   PROVE  run.handed[1] \in GivenCatalogs
        OBVIOUS
      <4>1. 1 \in DOMAIN run.handed BY <1>0, EmptySeq, LenProperties
      <4> QED BY <4>1 DEF RunsOn
    <3>5. HandedKnown' BY <2>1, <2>2, <3>1, <3>2, <3>4 DEF HandedKnown
    <3> QED BY <2>1, <2>2, <3>1, <3>2, <3>3, <3>5
  <2>4. CASE kind # "media"
    <3>1. kind \in ObjectKinds \ {"media"} /\ ChainGoes(i, kind) /\ GivenCatalogs' = GivenCatalogs \cup {i}
          /\ run'.handed = Append(run.handed, i)
      BY <1>1, <1>2, <2>1, <2>4
    <3>2. work'.seen = TRUE /\ GivenCatalogs' # {} BY <3>1 DEF ChainGoes
    <3>3. /\ work'.whole <=> work'.chain # <<>>
          /\ work'.chain # <<>> => RunsOn(work.chain)' /\ src'.objects[work'.chain[1]] = "base"
      <4>1. CASE work'.whole = FALSE /\ work'.chain = <<>> BY <4>1
      <4>2. CASE kind = "base" /\ work'.whole = TRUE /\ work'.chain = <<i>>
        <5> DEFINE more == work'.chain
        <5>1. /\ {more[k] : k \in DOMAIN more} = {j \in GivenCatalogs' : j >= more[1]}
              /\ \A k, l \in DOMAIN more : k < l => more[k] < more[l]
              /\ more # <<>> /\ more[1] = i
          BY <1>1, <3>1, <4>2, RunsOnNew
        <5> QED BY <1>2, <4>2, <5>1 DEF RunsOn
      <4>3. CASE /\ kind = "delta" /\ work.chain # <<>> /\ work.whole
                 /\ work'.whole = TRUE /\ work'.chain = Append(work.chain, i)
        <5> DEFINE more == work'.chain
        <5>1. /\ {more[k] : k \in DOMAIN more} = {j \in GivenCatalogs' : j >= more[1]}
              /\ \A k, l \in DOMAIN more : k < l => more[k] < more[l]
              /\ more # <<>> /\ more[1] = work.chain[1] /\ work.chain[1] \in GivenCatalogs
          BY <1>0, <1>1, <2>1, <3>1, <4>3, RunsOnMore
        <5> QED BY <2>1, <2>2, <4>3, <5>1 DEF RunsOn
      <4> QED BY <3>1, <4>1, <4>2, <4>3 DEF ChainGoes
    <3>4. HandedKnown'
      <4> DEFINE more == run'.handed
      <4>1. CASE GivenCatalogs = {}
        <5>1. run.handed = <<>> BY <2>1, <4>1 DEF HandedKnown
        <5>2. more = <<i>> BY <3>1, <5>1
        <5>3. /\ {more[k] : k \in DOMAIN more} = {j \in GivenCatalogs' : j >= more[1]}
              /\ \A k, l \in DOMAIN more : k < l => more[k] < more[l]
              /\ more # <<>> /\ more[1] = i
          BY <1>1, <3>1, <5>2, RunsOnNew
        <5>4. \A j \in GivenCatalogs' : more[1] <= j BY <1>2, <3>1, <4>1, <5>3
        <5> QED BY <3>2, <5>3, <5>4 DEF HandedKnown, RunsOn
      <4>2. CASE GivenCatalogs # {}
        <5>1. /\ run.handed # <<>> /\ RunsOn(run.handed)
              /\ \/ \A j \in GivenCatalogs : run.handed[1] <= j
                 \/ src.objects[run.handed[1]] = "base"
          BY <2>1, <4>2 DEF HandedKnown
        <5>2. /\ {more[k] : k \in DOMAIN more} = {j \in GivenCatalogs' : j >= more[1]}
              /\ \A k, l \in DOMAIN more : k < l => more[k] < more[l]
              /\ more # <<>> /\ more[1] = run.handed[1] /\ run.handed[1] \in GivenCatalogs
          BY <1>0, <1>1, <3>1, <5>1, RunsOnMore
        <5>3. \/ \A j \in GivenCatalogs' : more[1] <= j
              \/ src'.objects[more[1]] = "base"
          <6> HIDE DEF more, i
          <6>0. more[1] = run.handed[1] /\ run.handed[1] \in GivenCatalogs BY <5>2
          <6>1. run.handed[1] <= i
            <7>1. run.handed[1] \in 1..Len(src.objects) BY <1>2, <6>0
            <7> QED BY <1>2, <7>1 DEF i
          <6> QED BY <2>2, <3>1, <5>1, <6>0, <6>1
        <5> QED BY <3>2, <5>2, <5>3 DEF HandedKnown, RunsOn
      <4> QED BY <4>1, <4>2
    <3> QED BY <3>2, <3>3, <3>4
  <2> QED BY <2>3, <2>4
<1> QED BY <1>0, <1>3, <1>4 DEF CatalogKept, At

LEMMA EndKeepsCatalog ==
    ASSUME LifecycleTypes, CatalogKept, SessionReturns \/ SessionStops \/ SessionFails \/ Goaway
    PROVE  CatalogKept'
<1>0. pub \in Publishes /\ pub.attempt \in Nat /\ pub.attempt > 0
  BY DEF LifecycleTypes, Publishes, CatalogKept
<1>1. CASE SessionReturns \/ SessionStops BY <1>1, ReturnsFacts, ReturnedLeaves DEF Outcomes
<1>2. CASE SessionFails
  <2>1. /\ pub'.attempt = pub.attempt /\ pub'.pc \in {"close", "stopped", "failed"}
        /\ pub'.then \in {"stopped", "failed"}
    BY <1>0, <1>2, FailsFacts, ClosingFacts
  <2>2. ~Carries' BY <2>1 DEF Carries, Leaves, At
  <2> QED BY <1>0, <2>1, <2>2, LeavesCatalog
<1>3. CASE Goaway
  <2>0. At("run") /\ scenario' = scenario /\ src' = src /\ pub'.attempt = pub.attempt BY <1>3, GoawayFacts
  <2>1. CASE pub'.then = "failed" /\ pub'.pc = IF ses[Current].up THEN "close" ELSE "failed"
    <3>1. ~Carries' BY <2>1 DEF Carries, Leaves, At
    <3> QED BY <1>0, <2>0, <2>1, <3>1, LeavesCatalog
  <2>2. CASE /\ pub' = Closing(pub, "migrate") /\ work'.seen = work.seen
             /\ work'.whole = work.whole /\ work'.chain = work.chain
             /\ work'.replay = work.replay
    <3>1. pub'.pc \in {"close", "migrate"} BY <1>0, <2>2, ClosingFacts
    <3>2. Carries BY <2>0 DEF Carries, At
    <3> QED BY <2>0, <2>2, <3>1, <3>2, CarriesCatalog
  <2> QED BY <1>3, <2>1, <2>2, GoawayFacts
<1> QED BY <1>1, <1>2, <1>3

LEMMA RunKeepsCatalog ==
    ASSUME LifecycleTypes, CatalogKept,
           Floors \/ ReadInit \/ StartInput \/ SendCatalog \/ ReadFragment \/ SkipFragment
             \/ TakeFragment \/ SendFragment \/ ReplayCatalog \/ NextObject
    PROVE  CatalogKept'
<1>1. CASE Floors
  <2>1. At("run") /\ UNCHANGED <<scenario, pub, work, src>> BY <1>1 DEF Floors
  <2> QED BY <1>1, <2>1, FloorsFacts, HandsNothing
<1>2. CASE ReadInit
  <2>1. At("run") /\ UNCHANGED <<scenario, pub, work>> BY <1>2 DEF ReadInit
  <2> QED BY <1>2, <2>1, ReadInitFacts, HandsNothing
<1>3. CASE StartInput
  <2>1. At("run") /\ UNCHANGED <<scenario, pub, work, src>> BY <1>3 DEF StartInput
  <2> QED BY <1>3, <2>1, StartInputFacts, HandsNothing
<1>4. CASE SendCatalog
  <2>1. At("run") /\ UNCHANGED <<scenario, pub, work, src>> BY <1>4 DEF SendCatalog
  <2> QED BY <1>4, <2>1, SendCatalogFacts, HandsNothing
<1>5. CASE SendFragment
  <2>1. At("run") /\ UNCHANGED <<scenario, pub, work, src>> BY <1>5, SendFragmentFacts
  <2> QED BY <1>5, <2>1, SendFragmentFacts, HandsNothing
<1>6. CASE ReadFragment \/ SkipFragment \/ TakeFragment BY <1>6, FragmentFacts, HandsNothing
<1> QED BY <1>1, <1>2, <1>3, <1>4, <1>5, <1>6, ReplayKeepsCatalog, NextObjectKeepsCatalog

\* A step of disconnect(), or none.
LEMMA OthersKeepAll ==
    ASSUME ResumeInv, UNCHANGED <<scenario, pub, run, work, resume, src, hist>>, Current' = Current
    PROVE  ResumeInv'
<1>1. /\ Carries' = Carries /\ Continues' = Continues /\ Underway' = Underway
      /\ Fragments' = Fragments /\ Objects' = Objects /\ FirstTry' = FirstTry
      /\ HeldInput' = HeldInput /\ FreeMedia' = FreeMedia /\ FreeCatalog' = FreeCatalog
      /\ SentFragments' = SentFragments /\ GivenCatalogs' = GivenCatalogs
      /\ Replays' = Replays /\ Passed' = Passed
  BY DEF Passed, Carries, Continues, Leaves, At, Underway, Fragments, Objects, FirstTry, HeldInput, FreeMedia,
     FreeCatalog, SentFragments, GivenCatalogs, Replays, Rest, NoBytes
<1>2. GroupsKnown'
  BY <1>1 DEF ResumeInv, GroupsKnown, GroupsNeverReused, SentUpTo, MediaBelow, CatalogsBelow, At
<1>3. InputKnown' BY <1>1 DEF ResumeInv, InputKnown, Unsent, At, NoBytes
<1>4. CatalogKept' BY <1>1 DEF ResumeInv, CatalogKept, HandedKnown, RunsOn, At
<1> QED BY <1>2, <1>3, <1>4 DEF ResumeInv

LEMMA DisconnectKeepsAll ==
    ASSUME LifecycleTypes, LifecycleInv, ResumeInv, Disconnecting
    PROVE  ResumeInv'
<1>1. UNCHANGED <<scenario, pub, run, work, resume, src, hist>>
  BY DEF Disconnecting, DisconnectCalled, DisconnectCloses, DisconnectEnds
<1>2. Current' = Current
  <2>1. CASE DisconnectCalled \/ DisconnectEnds BY <2>1 DEF DisconnectCalled, DisconnectEnds, Current
  <2>2. CASE DisconnectCloses
    <3>1. disc.session \in DOMAIN ses BY <2>2 DEF DisconnectCloses, LifecycleInv, ActiveKnown
    <3> QED BY <2>2, <3>1, ClosesFacts DEF DisconnectCloses, Became, Current
  <2> QED BY <2>1, <2>2 DEF Disconnecting
<1> QED BY <1>1, <1>2, OthersKeepAll

LEMMA ResumeInitial == LifecycleInit => ResumeInv
<1> SUFFICES ASSUME LifecycleInit PROVE ResumeInv OBVIOUS
<1>0. /\ pub.pc = "attempt" /\ pub.attempt = 1 /\ run = NoSession /\ resume = NoResume
      /\ ses = <<>> /\ src.at = 0 /\ src.objects = <<>>
      /\ hist.media = <<>> /\ hist.catalogs = <<>> /\ run.hand = 0
  BY DEF LifecycleInit, NoSession
<1>1. ~Carries /\ ~Underway /\ run.phase = "floors" /\ HeldInput = <<>>
  BY <1>0 DEF Carries, Leaves, At, Underway, NoSession, HeldInput, Rest, NoResume
<1>2. GroupsKnown
  BY <1>0, <1>1 DEF GroupsKnown, GroupsNeverReused, SentUpTo, MediaBelow, CatalogsBelow, Carries
<1>3. InputKnown BY <1>0, <1>1 DEF InputKnown, Unsent, At
<1>4. CatalogKept BY <1>0, <1>1 DEF CatalogKept, Carries, At
<1> QED BY <1>2, <1>3, <1>4 DEF ResumeInv

LEMMA ResumeStep ==
    LifecycleTypes /\ LifecycleInv /\ ResumeInv /\ [LifecycleNext]_lifecycleVars => ResumeInv'
<1> SUFFICES ASSUME LifecycleTypes, LifecycleInv, ResumeInv, [LifecycleNext]_lifecycleVars
             PROVE  ResumeInv'
  OBVIOUS
<1>0. GroupsKnown /\ InputKnown /\ CatalogKept BY DEF ResumeInv
<1>1. CASE Lifecycle \/ LibmoqReturns
  <2>1. CatalogKept' BY <1>0, <1>1, ThreadKeepsCatalog DEF Lifecycle
  <2>2. BetweenSessions BY <1>1, ThreadFacts DEF Lifecycle
  <2> QED BY <1>0, <2>1, <2>2, BetweenKeepsGroups, BetweenKeepsInput DEF ResumeInv
<1>2. CASE Floors \/ ReadInit \/ StartInput \/ SendCatalog \/ ReadFragment \/ SkipFragment
             \/ TakeFragment \/ SendFragment \/ ReplayCatalog \/ NextObject
  <2>1. GroupsKnown' BY <1>0, <1>2, RunKeepsGroups, SendCatalogKeepsGroups, SendFragmentKeepsGroups
  <2>2. InputKnown' BY <1>0, <1>2, RunKeepsInput, ReadInitKeepsInput,
              FragmentsKeepInput, SendFragmentKeepsInput
  <2>3. CatalogKept' BY <1>0, <1>2, RunKeepsCatalog
  <2> QED BY <2>1, <2>2, <2>3 DEF ResumeInv
<1>3. CASE SessionReturns \/ SessionStops \/ SessionFails \/ Goaway
  BY <1>0, <1>3, EndKeepsGroups, EndKeepsInput, EndKeepsCatalog DEF ResumeInv
<1>4. CASE Disconnecting BY <1>4, DisconnectKeepsAll
<1>5. CASE UNCHANGED lifecycleVars BY <1>5, OthersKeepAll DEF lifecycleVars, Current
<1> QED BY <1>1, <1>2, <1>3, <1>4, <1>5 DEF LifecycleNext, Session

LEMMA ResumeInvariant == LifecycleSpec => [](LifecycleTypes /\ ResumeInv)
  BY LifecycleInvariant, ResumeInitial, ResumeStep, PTL DEF LifecycleSpec

\* A session that takes over continues where the one before it stopped (the
\* GOAWAY migration and the LiveResumeState of a retry in publisher_api.cpp and
\* endpoint_failover.cpp): groups only grow; no fragment is sent twice or out of
\* order, and one that is passed over was not served by its session (it was
\* unparsable, before the first keyframe, trimmed or not asked for), was in hand
\* when its write failed, or was read by a look-ahead that failed; and a
\* source's catalog is handed again from a base.
THEOREM SessionsContinue == LifecycleSpec => []ResumeSound
<1>1. LifecycleTypes /\ LifecycleInv /\ ResumeInv => ResumeSound
  <2> SUFFICES ASSUME LifecycleTypes, LifecycleInv, ResumeInv PROVE ResumeSound OBVIOUS
  <2>0. GroupsKnown /\ InputKnown /\ CatalogKept BY DEF ResumeInv
  <2>1. GroupsNeverReused BY <2>0 DEF GroupsKnown
  <2>2. InputOnce
    <3> DEFINE sent == [i \in DOMAIN hist.media |-> hist.media[i][3]]
    <3>1. DOMAIN sent = DOMAIN hist.media /\ DOMAIN hist.media = 1..Len(hist.media)
          /\ Len(hist.media) \in Nat /\ \A i \in DOMAIN hist.media : sent[i] = hist.media[i][3]
      BY SentTyped
    <3> HIDE DEF sent
    <3>2. ToSet(sent) = SentFragments BY <3>1 DEF ToSet, SentFragments
    <3>3. ASSUME NEW i \in DOMAIN sent
          PROVE  /\ i > 1 => sent[i - 1] < sent[i]
                 /\ 1..sent[i] \subseteq ToSet(sent) \cup Passed
      <4>1. ASSUME i > 1 PROVE sent[i - 1] < sent[i]
        <5>1. i - 1 \in DOMAIN hist.media /\ i \in DOMAIN hist.media /\ i - 1 < i BY <3>1, <4>1
        <5> QED BY <2>0, <3>1, <5>1 DEF InputKnown
      <4>2. 1..sent[i] \subseteq ToSet(sent) \cup Passed BY <2>0, <3>1, <3>2 DEF InputKnown
      <4> QED BY <4>1, <4>2
    <3> QED BY <3>3 DEF InputOnce, Passed, sent
  <2>3. CatalogRebuilt
    <3> SUFFICES ASSUME Objects, scenario.draft22, pub.attempt = 1, ~Replays,
                        GivenCatalogs # {}, run.handed # <<>> \/ run.media
                 PROVE  /\ run.handed # <<>>
                        /\ ToSet(run.handed) = {i \in GivenCatalogs : i >= run.handed[1]}
                        /\ \A i \in 2..Len(run.handed) : run.handed[i - 1] < run.handed[i]
                        /\ \/ run.handed[1] = Min(GivenCatalogs)
                           \/ src.objects[run.handed[1]] = "base"
      BY DEF CatalogRebuilt, GivenCatalogs
    <3>0. At("run") BY DEF LifecycleInv, CountsKnown, NoSession
    <3>1. /\ run.handed # <<>> /\ RunsOn(run.handed)
          /\ \/ \A i \in GivenCatalogs : run.handed[1] <= i
             \/ src.objects[run.handed[1]] = "base"
      BY <2>0, <3>0 DEF CatalogKept, FirstTry, HandedKnown
    <3>2. run.handed \in Seq(Nat) /\ Len(run.handed) \in Nat
          /\ DOMAIN run.handed = 1..Len(run.handed)
      BY LenProperties DEF LifecycleTypes, Runs
    <3>3. run.handed[1] \in GivenCatalogs
      <4>1. 1 \in DOMAIN run.handed BY <3>1, <3>2, EmptySeq
      <4> QED BY <3>1, <4>1 DEF RunsOn
    <3>4. GivenCatalogs \subseteq Int BY LenProperties DEF GivenCatalogs, LifecycleTypes, Sources
    <3>5. \/ run.handed[1] = Min(GivenCatalogs)
          \/ src.objects[run.handed[1]] = "base"
      BY <3>1, <3>3, <3>4, ExtremesAre
    <3>6. ToSet(run.handed) = {i \in GivenCatalogs : i >= run.handed[1]} BY <3>1 DEF RunsOn, ToSet
    <3>7. ASSUME NEW i \in 2..Len(run.handed) PROVE run.handed[i - 1] < run.handed[i]
      <4>1. i - 1 \in DOMAIN run.handed /\ i \in DOMAIN run.handed /\ i - 1 < i BY <3>2
      <4> QED BY <3>1, <4>1 DEF RunsOn
    <3> QED BY <3>1, <3>5, <3>6, <3>7
  <2> QED BY <2>1, <2>2, <2>3 DEF ResumeSound
<1> QED BY <1>1, LifecycleInvariant, ResumeInvariant, PTL
=============================================================================
