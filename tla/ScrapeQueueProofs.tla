------------------------- MODULE ScrapeQueueProofs -------------------------
(***************************************************************************)
(* Theorems about ScrapeQueue, for every number of targets, workers,       *)
(* enqueuers, rows and faults.                                             *)
(***************************************************************************)
EXTENDS ScrapeQueue, SequenceTheorems, TLAPS

-----------------------------------------------------------------------------
(* Type correctness.                                                       *)

LEMMA InitType == Init => TypeOK
<1> SUFFICES ASSUME Init PROVE TypeOK
  OBVIOUS
<1>1. IdleWorker \in WorkerState
  BY TimingAssumption DEF IdleWorker, WorkerState
<1>2. IdleClient \in ClientState
  BY DEF IdleClient, ClientState
<1>3. TargetsTyped
  BY TimingAssumption DEF Init, TargetsTyped
<1>4. JobsTyped
  BY TimingAssumption DEF Init, JobsTyped, Statuses, LeasesTyped
<1> QED
  BY <1>1, <1>2, <1>3, <1>4, TimingAssumption DEF Init, TypeOK

LEMMA StopType ==
  ASSUME TypeOK, NEW w \in Workers, StopWorking(w)
  PROVE  worker' \in [Workers -> WorkerState]
<1>1. IdleWorker \in WorkerState
  BY TimingAssumption DEF IdleWorker, WorkerState
<1> QED
  BY <1>1 DEF TypeOK, StopWorking

LEMMA FaultType == TypeOK /\ (Fault \/ UNCHANGED faults) => faults' \in 0..MaxFaults
BY TimingAssumption DEF TypeOK, Fault

LEMMA TargetsTypeStays == TargetsTyped /\ UNCHANGED targetVars => TargetsTyped'
BY DEF TargetsTyped, targetVars

LEMMA JobsTypeStays == JobsTyped /\ UNCHANGED jobVars => JobsTyped'
BY DEF JobsTyped, jobVars, LeasesTyped

-----------------------------------------------------------------------------
(* What record_success reads back from the history.                        *)

\* The row with the latest observed_at is the one committed last.
LEMMA LatestIsLast ==
  ASSUME TypeOK, TimesOK, NEW t \in Targets, history[t] # <<>>
  PROVE  Latest(t) = Len(history[t])
<1> DEFINE h == history[t]
           n == Len(history[t])
           Newest(i) == \A k \in DOMAIN h : h[k].at <= h[i].at
<1>1. h \in Seq(Row) /\ n \in Nat /\ n > 0 /\ DOMAIN h = 1..n
  BY DEF TypeOK, TargetsTyped
<1>2. \A i \in DOMAIN h : h[i].at \in Nat
  <2>1. \A i \in DOMAIN h : h[i] \in Row
    BY <1>1
  <2> QED
    BY <2>1 DEF Row
<1>3. \A i, k \in DOMAIN h : i < k => h[i].at < h[k].at
  BY DEF TimesOK
<1>4. n \in DOMAIN h /\ Newest(n)
  <2>1. n \in DOMAIN h
    BY <1>1
  <2>2. ASSUME NEW k \in DOMAIN h PROVE h[k].at <= h[n].at
    <3>1. k \in 1..n
      BY <1>1
    <3>2. CASE k = n
      BY <1>2, <2>1, <3>2
    <3>3. CASE k < n
      BY <1>2, <1>3, <2>1, <3>3
    <3> QED
      BY <1>1, <3>1, <3>2, <3>3
  <2> QED
    BY <2>1, <2>2
<1>5. ASSUME NEW i \in DOMAIN h, Newest(i) PROVE i = n
  <2>1. h[n].at <= h[i].at
    BY <1>4, <1>5
  <2>2. ~ i < n
    BY <1>2, <1>3, <1>4, <2>1
  <2> QED
    BY <1>1, <2>2
<1>6. Latest(t) = CHOOSE i \in DOMAIN h : Newest(i)
  BY DEF Latest
<1> HIDE DEF Newest
<1> QED
  BY <1>4, <1>5, <1>6

\* The history's idea of the previous price is the target's current price.
LEMMA PreviousIsCurrent ==
  ASSUME TypeOK, TimesOK, HistoryChain, NEW t \in Targets
  PROVE  PreviousPrice(t) = current[t]
BY LatestIsLast DEF PreviousPrice, HistoryChain

-----------------------------------------------------------------------------
(* Steps that move no row and no price.                                    *)

\* Workers stop, or go on with what they have; a transaction starts only
\* under the current token.  This covers most steps of a worker.
WorkersGoOn ==
  \A w \in Workers :
    \/ worker'[w].pc = "idle"
    \/ /\ Busy(w)
       /\ worker'[w].job = worker[w].job
       /\ worker'[w].token = worker[w].token
       /\ worker'[w].prev = worker[w].prev
       /\ worker'[w].price = worker[w].price
       /\ worker'[w].at = worker[w].at
       /\ worker'[w].pc \in {"fetched", "recording"} => HasPage(w)
       /\ worker'[w].pc \in {"recording", "closing"} => Holder(w)

Invariants ==
  /\ RowsOK /\ OneActiveJob
  /\ TokensOK /\ SnapshotsOK /\ TimesOK
  /\ HistoryChain /\ ChangesValidated /\ ObservedOnce

LEMMA QuietStep ==
  ASSUME IInv, WorkersGoOn,
         UNCHANGED <<current, history, fetchTime, status, target, attempts, token>>
  PROVE  Invariants'
<1>1. RowsOK' /\ OneActiveJob' /\ HistoryChain' /\ ChangesValidated' /\ ObservedOnce'
  <2>1. RowsOK' /\ OneActiveJob'
    BY DEF IInv, RowsOK, OneActiveJob
  <2>2. HistoryChain' /\ ChangesValidated'
    BY DEF IInv, HistoryChain, ChangesValidated
  <2>3. ObservedOnce'
    BY DEF IInv, ObservedOnce
  <2> QED
    BY <2>1, <2>2, <2>3
<1>2. TokensOK'
  BY DEF IInv, TokensOK, WorkersGoOn, Busy, HasPage, InTransaction, Holder
<1>3. \A w \in Workers : Holder(w)' => Holder(w) /\ worker'[w].prev = worker[w].prev
  BY DEF WorkersGoOn, Busy, Holder
<1>4. SnapshotsOK'
  BY <1>3 DEF IInv, SnapshotsOK, WorkersGoOn, Busy, Holder
<1>5. TimesOK'
  BY <1>3 DEF IInv, TimesOK, WorkersGoOn, Busy, HasPage, Holder
<1> QED
  BY <1>1, <1>2, <1>4, <1>5 DEF Invariants

-----------------------------------------------------------------------------
(* Type correctness of the steps.                                          *)

LEMMA FinishEnqueueType ==
  ASSUME TypeOK, NEW c \in Clients, FinishEnqueue(c)
  PROVE  TargetsTyped' /\ client' \in [Clients -> ClientState]
<1>1. IdleClient \in ClientState
  BY DEF IdleClient, ClientState
<1>2. due' \in [Targets -> 0..Interval]
  <2>1. due \in [Targets -> 0..Interval] /\ Interval \in 0..Interval
    BY TimingAssumption DEF TypeOK, TargetsTyped
  <2> QED
    BY <2>1 DEF FinishEnqueue
<1> QED
  BY <1>1, <1>2 DEF TypeOK, TargetsTyped, FinishEnqueue

LEMMA EnqueueType ==
  ASSUME IInv, NEW c \in Clients, EnqueueStep(c)
  PROVE  TypeOK'
<1>0. TypeOK /\ IdleClient \in ClientState
  BY DEF IInv, IdleClient, ClientState
<1>1. CASE \E t \in Targets : RequestScrape(c, t) \/ StartDue(c, t)
  <2>1. client' \in [Clients -> ClientState]
    <3> PICK t \in Targets : RequestScrape(c, t) \/ StartDue(c, t)
      BY <1>1
    <3>1. \A d \in BOOLEAN : [pc |-> "insert", target |-> t, due |-> d] \in ClientState
      BY DEF ClientState
    <3> QED
      BY <1>0, <3>1 DEF TypeOK, RequestScrape, StartDue
  <2> QED
    BY <1>0, <1>1, <2>1, TargetsTypeStays, JobsTypeStays DEF TypeOK, RequestScrape, StartDue
<1>2. CASE \E t \in Targets : DueAlreadyQueued(c, t)
  <2>1. TargetsTyped'
    BY <1>0, <1>2, TimingAssumption DEF TypeOK, TargetsTyped, DueAlreadyQueued
  <2> QED
    BY <1>0, <1>2, <2>1, JobsTypeStays DEF TypeOK, DueAlreadyQueued
<1>3. CASE \E j \in Jobs : InsertJob(c, j)
  <2>1. client[c].target \in Targets \cup {NoTarget}
    BY <1>0 DEF TypeOK, ClientState
  <2>2. JobsTyped'
    <3> PICK j \in Jobs : InsertJob(c, j)
      BY <1>3
    <3>1. status[j] = "absent"
      BY DEF InsertJob, NextId
    <3>2. LeasesTyped'
      BY <1>0, <3>1 DEF TypeOK, JobsTyped, LeasesTyped, InsertJob
    <3> QED
      BY <1>0, <2>1, <3>2 DEF TypeOK, JobsTyped, InsertJob, Statuses, Active
  <2> QED
    BY <1>0, <1>3, <2>2, FinishEnqueueType DEF TypeOK, InsertJob
<1>4. CASE InsertConflict(c)
  <2>1. client' \in [Clients -> ClientState]
    BY <1>0, <1>4 DEF TypeOK, InsertConflict, ClientState
  <2> QED
    BY <1>0, <1>4, <2>1, TargetsTypeStays, JobsTypeStays DEF TypeOK, InsertConflict
<1>5. CASE ReselectFound(c)
  BY <1>0, <1>5, FinishEnqueueType, JobsTypeStays DEF TypeOK, ReselectFound
<1>6. CASE ReselectNothing(c)
  BY <1>0, <1>6, TargetsTypeStays, JobsTypeStays DEF TypeOK, ReselectNothing
<1> QED
  BY <1>1, <1>2, <1>3, <1>4, <1>5, <1>6 DEF EnqueueStep

LEMMA FinalizeType ==
  ASSUME TypeOK, NEW j \in Jobs, NEW r \in Terminal, Finalize(j, r)
  PROVE  JobsTyped'
<1>1. LeasesTyped'
  BY DEF TypeOK, JobsTyped, Finalize, LeasesTyped, Terminal
<1> QED
  BY <1>1, TimingAssumption DEF TypeOK, JobsTyped, Finalize, Statuses

LEMMA WorkType ==
  ASSUME IInv, NEW w \in Workers, WorkStep(w)
  PROVE  TypeOK'
<1>0. TypeOK /\ worker[w] \in WorkerState
  BY DEF IInv, TypeOK
<1>1. CASE \E j \in Jobs : Claim(w, j)
  <2> PICK j \in Jobs : Claim(w, j)
    BY <1>1
  <2>1. target[j] \in Targets
    BY <1>0 DEF IInv, TypeOK, JobsTyped, RowsOK, Claim, Claimable
  <2>2. current[target[j]] \in Prices \cup {NoPrice} /\ NewToken(j) \in Nat /\ j \in Nat
    <3>1. attempts[j] \in Nat /\ j \in 1..MaxJobs
      BY <1>0 DEF TypeOK, JobsTyped, Jobs
    <3> QED
      BY <1>0, <2>1, <3>1, TimingAssumption DEF TypeOK, TargetsTyped, NewToken
  <2>3. [pc |-> "fetching", job |-> j, token |-> NewToken(j),
         prev |-> current[target[j]], price |-> NoPrice, at |-> 0,
         left |-> Lease - Margin, beat |-> RenewEvery] \in WorkerState
    BY <2>2, TimingAssumption DEF WorkerState
  <2>4. worker' \in [Workers -> WorkerState]
    BY <1>0, <2>3 DEF TypeOK, Claim
  <2>5. JobsTyped'
    <3>1. NewToken(j) # 0
      BY <1>0 DEF TypeOK, JobsTyped, NewToken
    <3>2. LeasesTyped'
      BY <1>0, <3>1 DEF TypeOK, JobsTyped, LeasesTyped, Claim
    <3> QED
      BY <1>0, <2>2, <3>2, TimingAssumption DEF TypeOK, JobsTyped, Claim, Statuses, Active
  <2> QED
    BY <1>0, <2>4, <2>5, TargetsTypeStays DEF TypeOK, Claim
<1>2. CASE Heartbeat(w)
  <2>1. worker' \in [Workers -> WorkerState]
    BY <1>0, <1>2, TimingAssumption DEF TypeOK, Heartbeat, WorkerState
  <2>2. JobsTyped'
    <3>1. Lease \in -1..Lease
      BY TimingAssumption
    <3> QED
      BY <1>0, <1>2, <3>1 DEF TypeOK, JobsTyped, LeasesTyped, Heartbeat, HoldsLiveLease
  <2> QED
    BY <1>0, <1>2, <2>1, <2>2, TargetsTypeStays DEF TypeOK, Heartbeat
<1>3. CASE HeartbeatLost(w) \/ HeartbeatFails(w) \/ Watchdog(w) \/ RecordLost(w) \/ Crash(w)
  <2>1. StopWorking(w) /\ (Fault \/ UNCHANGED faults) /\ UNCHANGED <<targetVars, jobVars, client>>
    BY <1>3 DEF HeartbeatLost, HeartbeatFails, Watchdog, RecordLost, Crash
  <2> QED
    BY <1>0, <2>1, StopType, FaultType, TargetsTypeStays, JobsTypeStays DEF TypeOK
<1>4. CASE \E p \in Prices : FetchPage(w, p)
  <2> PICK p \in Prices : FetchPage(w, p)
    BY <1>4
  <2>1. target[worker[w].job] \in Targets
    BY <1>0 DEF IInv, TypeOK, JobsTyped, RowsOK, TokensOK, Busy, FetchPage, Terminal
  <2>2. fetchTime[target[worker[w].job]] + 1 \in Nat
    BY <1>0, <2>1 DEF TypeOK, TargetsTyped
  <2>3. worker' \in [Workers -> WorkerState]
    BY <1>0, <2>2 DEF TypeOK, FetchPage, WorkerState
  <2>4. TargetsTyped'
    BY <1>0, <2>1, <2>2 DEF TypeOK, TargetsTyped, FetchPage
  <2> QED
    BY <1>0, <2>3, <2>4, JobsTypeStays DEF TypeOK, FetchPage
<1>5. CASE FetchFails(w) \/ RecordBegin(w) \/ RecordAborts(w)
  <2>1. worker' \in [Workers -> WorkerState]
    BY <1>0, <1>5 DEF TypeOK, FetchFails, RecordBegin, RecordAborts, WorkerState
  <2>2. (Fault \/ UNCHANGED faults) /\ UNCHANGED <<targetVars, jobVars, client>>
    BY <1>5 DEF FetchFails, RecordBegin, RecordAborts
  <2> QED
    BY <1>0, <2>1, <2>2, FaultType, TargetsTypeStays, JobsTypeStays DEF TypeOK
<1>6. CASE RecordCommit(w)
  <2> DEFINE j == worker[w].job
             t == target[j]
             r == [job |-> j, at |-> worker[w].at, price |-> worker[w].price,
                   prev |-> PreviousPrice(t)]
  <2>1. j \in Jobs /\ t \in Targets /\ worker[w].price \in Prices /\ worker[w].at \in Nat
    BY <1>0, <1>6
    DEF IInv, TypeOK, JobsTyped, RowsOK, TokensOK, Busy, HasPage, RecordCommit, Terminal,
        WorkerState
  <2>2. PreviousPrice(t) \in Prices \cup {NoPrice}
    BY <1>0, <2>1, PreviousIsCurrent DEF IInv, TypeOK, TargetsTyped
  <2>3. r \in Row
    BY <2>1, <2>2 DEF Row
  <2>4. ASSUME Succeed(w) PROVE TargetsTyped' /\ JobsTyped'
    <3>1. Append(history[t], r) \in Seq(Row)
      BY <1>0, <2>1, <2>3 DEF TypeOK, TargetsTyped
    <3>2. history' = [history EXCEPT ![t] = Append(@, r)]
      BY <2>4 DEF Succeed
    <3>3. TargetsTyped'
      BY <1>0, <2>1, <2>4, <3>1, <3>2 DEF TypeOK, TargetsTyped, Succeed
    <3>4. JobsTyped'
      BY <1>0, <2>1, <2>4, FinalizeType DEF Succeed, Terminal
    <3> QED
      BY <3>3, <3>4
  <2>5. ASSUME Reject(w) PROVE TargetsTyped' /\ JobsTyped'
    BY <1>0, <2>1, <2>5, TargetsTypeStays, FinalizeType DEF TypeOK, Reject, Terminal
  <2>6. worker' \in [Workers -> WorkerState]
    <3>1. CASE StopWorking(w)
      BY <1>0, <3>1, StopType
    <3>2. CASE worker' = [worker EXCEPT ![w].pc = "failing"]
      BY <1>0, <3>2 DEF TypeOK, WorkerState
    <3> QED
      BY <1>6, <3>1, <3>2 DEF RecordCommit
  <2>7. TargetsTyped' /\ JobsTyped'
    BY <1>0, <1>6, <2>4, <2>5 DEF RecordCommit, TypeOK
  <2> QED
    BY <1>0, <1>6, <2>6, <2>7, FaultType DEF RecordCommit, TypeOK
<1>7. CASE CloseCommit(w)
  <2>1. worker[w].job \in Jobs
    BY <1>7 DEF IInv, TokensOK, Busy, CloseCommit
  <2>2. JobsTyped'
    BY <1>0, <1>7, <2>1, FinalizeType DEF CloseCommit, Terminal
  <2> QED
    BY <1>0, <1>7, <2>2, StopType, TargetsTypeStays DEF TypeOK, CloseCommit
<1> QED
  BY <1>1, <1>2, <1>3, <1>4, <1>5, <1>6, <1>7 DEF WorkStep

LEMMA DecrementType ==
  ASSUME NEW m \in Int, NEW k \in Int, m <= k, NEW n \in m..k
  PROVE  Decrement(n, m) \in m..k
BY DEF Decrement

LEMMA TickType == TypeOK /\ Tick => TypeOK'
<1> SUFFICES ASSUME TypeOK, Tick PROVE TypeOK'
  OBVIOUS
<1>1. lease' \in [Jobs -> -1..Lease]
  <2>1. \A j \in Jobs : lease[j] \in -1..Lease /\ Decrement(lease[j], -1) \in -1..Lease
    BY DecrementType, TimingAssumption DEF TypeOK, JobsTyped, TargetsTyped
  <2> QED
    BY <2>1 DEF Tick
<1>2. due' \in [Targets -> 0..Interval]
  <2>1. \A t \in Targets : Decrement(due[t], 0) \in 0..Interval
    BY DecrementType, TimingAssumption DEF TypeOK, JobsTyped, TargetsTyped
  <2> QED
    BY <2>1 DEF Tick
<1>3. worker' \in [Workers -> WorkerState]
  <2>1. ASSUME NEW w \in Workers PROVE worker'[w] \in WorkerState
    <3>1. worker[w] \in WorkerState
      BY DEF TypeOK
    <3>2. /\ Decrement(worker[w].left, 0) \in 0..Lease
          /\ Decrement(worker[w].beat, 0) \in 0..RenewEvery
      <4>1. worker[w].left \in 0..Lease /\ worker[w].beat \in 0..RenewEvery
        BY <3>1 DEF WorkerState
      <4>2. Lease \in Nat /\ RenewEvery \in Nat
        BY TimingAssumption
      <4> QED
        BY <4>1, <4>2 DEF Decrement
    <3> QED
      BY <3>1, <3>2 DEF Tick, WorkerState
  <2> QED
    BY <2>1 DEF Tick
<1>4. faults' \in 0..MaxFaults
  BY FaultType DEF Tick
<1>5. LeasesTyped'
  BY DEF TypeOK, JobsTyped, LeasesTyped, Tick
<1> QED
  BY <1>1, <1>2, <1>3, <1>4, <1>5 DEF TypeOK, JobsTyped, TargetsTyped, Tick

LEMMA NextType == IInv /\ [Next]_vars => TypeOK'
<1> SUFFICES ASSUME IInv, [Next]_vars PROVE TypeOK'
  OBVIOUS
<1>0. TypeOK
  BY DEF IInv
<1>1. CASE \E t \in Targets : SetActive(t)
  <2>1. TargetsTyped'
    BY <1>0, <1>1 DEF TypeOK, TargetsTyped, SetActive
  <2> QED
    BY <1>0, <1>1, <2>1, JobsTypeStays DEF TypeOK, SetActive
<1>2. CASE UNCHANGED vars
  BY <1>0, <1>2, TargetsTypeStays, JobsTypeStays DEF TypeOK, vars
<1> QED
  BY <1>0, <1>1, <1>2, EnqueueType, WorkType, TickType DEF Next

-----------------------------------------------------------------------------
(* The steps that move a row or a price.                                   *)

LEMMA ClientsStep == IInv /\ [Next]_vars => ClientsOK'
<1> SUFFICES ASSUME IInv, [Next]_vars PROVE ClientsOK'
  OBVIOUS
<1>0. ClientsOK /\ client \in [Clients -> ClientState]
  BY DEF IInv, TypeOK
<1>1. ASSUME NEW c \in Clients, EnqueueStep(c) PROVE ClientsOK'
  <2>1. CASE \E t \in Targets : RequestScrape(c, t) \/ StartDue(c, t)
    BY <1>0, <2>1 DEF ClientsOK, RequestScrape, StartDue
  <2>2. CASE \E t \in Targets : DueAlreadyQueued(c, t)
    BY <1>0, <2>2 DEF ClientsOK, DueAlreadyQueued
  <2>3. CASE (\E j \in Jobs : InsertJob(c, j)) \/ ReselectFound(c) \/ ReselectNothing(c)
    BY <1>0, <2>3
    DEF ClientsOK, InsertJob, ReselectFound, ReselectNothing, FinishEnqueue, IdleClient
  <2>4. CASE InsertConflict(c)
    BY <1>0, <2>4 DEF ClientsOK, InsertConflict, ClientState
  <2> QED
    BY <1>1, <2>1, <2>2, <2>3, <2>4 DEF EnqueueStep
<1>2. CASE UNCHANGED client
  BY <1>0, <1>2 DEF ClientsOK
<1>3. ASSUME NEW w \in Workers, WorkStep(w) PROVE UNCHANGED client
  BY <1>3
  DEF WorkStep, Claim, Heartbeat, HeartbeatLost, HeartbeatFails, Watchdog, FetchPage,
      FetchFails, RecordBegin, RecordLost, RecordCommit, RecordAborts, CloseCommit, Crash
<1> QED
  BY <1>1, <1>2, <1>3 DEF Next, SetActive, Tick, vars

LEMMA InsertStep ==
  ASSUME IInv, NEW c \in Clients, NEW j \in Jobs, InsertJob(c, j)
  PROVE  Invariants'
<1> DEFINE t == client[c].target
<1>0. TypeOK /\ JobsTyped
  BY DEF IInv, TypeOK
<1>1. status[j] = "absent" /\ t \in Targets /\ t # NoTarget
  BY TargetsAssumption DEF IInv, ClientsOK, InsertJob, NextId
<1>2. status' = [status EXCEPT ![j] = "queued"] /\ target' = [target EXCEPT ![j] = t]
      /\ UNCHANGED <<attempts, token, current, history, fetchTime, worker>>
  BY DEF InsertJob, FinishEnqueue
<1>3. \A i \in Jobs : status[i] \in Active => target[i] # t /\ i # j
  BY <1>1 DEF InsertJob, ActiveJobs, Active
<1>4. RowsOK'
  BY <1>0, <1>1, <1>2 DEF IInv, RowsOK, JobsTyped
<1>5. OneActiveJob'
  BY <1>0, <1>1, <1>2, <1>3 DEF IInv, OneActiveJob, JobsTyped
<1>6. \A w \in Workers : Busy(w) => worker[w].job # j /\ worker[w].job \in Jobs
  BY <1>1 DEF IInv, TokensOK, Terminal
<1>7. \A w \in Workers : Busy(w) =>
        /\ (Holder(w)' <=> Holder(w))
        /\ status'[worker[w].job] = status[worker[w].job]
        /\ target'[worker[w].job] = target[worker[w].job]
  BY <1>0, <1>2, <1>6 DEF Holder, Busy, JobsTyped
<1>8. TokensOK'
  BY <1>2, <1>6, <1>7 DEF IInv, TokensOK, Busy, HasPage, InTransaction
<1>9. SnapshotsOK'
  BY <1>2, <1>7 DEF IInv, SnapshotsOK, Holder, Busy
<1>10. TimesOK'
  BY <1>2, <1>7 DEF IInv, TimesOK, HasPage, Holder, Busy
<1>11. HistoryChain' /\ ChangesValidated'
  BY <1>2 DEF IInv, HistoryChain, ChangesValidated
<1>12. ObservedOnce'
  <2>1. \A s \in Targets : \A i \in DOMAIN history[s] :
          history[s][i].job # j /\ history[s][i].job \in Jobs
    <3> SUFFICES ASSUME NEW s \in Targets, NEW i \in DOMAIN history[s]
                 PROVE  history[s][i].job # j /\ history[s][i].job \in Jobs
      OBVIOUS
    <3>1. history[s][i] \in Row
      BY <1>0 DEF TypeOK, TargetsTyped
    <3> QED
      BY <1>1, <3>1 DEF IInv, ObservedOnce, Row
  <2> QED
    BY <1>0, <1>1, <1>2, <2>1 DEF IInv, ObservedOnce, JobsTyped
<1> QED
  BY <1>4, <1>5, <1>8, <1>9, <1>10, <1>11, <1>12 DEF Invariants

LEMMA ClaimStep ==
  ASSUME IInv, NEW w \in Workers, NEW j \in Jobs, Claim(w, j)
  PROVE  Invariants'
<1>0. TypeOK /\ JobsTyped /\ worker \in [Workers -> WorkerState]
  BY DEF IInv, TypeOK
<1>1. status[j] \in Active /\ ~RowLocked(j)
  BY DEF Claim, Claimable, Active
<1>2. /\ status' = [status EXCEPT ![j] = "running"]
      /\ attempts' = [attempts EXCEPT ![j] = @ + 1]
      /\ token' = [token EXCEPT ![j] = attempts[j] + 1]
      /\ UNCHANGED <<target, current, history, fetchTime>>
  BY DEF Claim, NewToken, targetVars
<1>3. /\ worker'[w].pc = "fetching" /\ worker'[w].job = j
      /\ worker'[w].token = attempts[j] + 1
      /\ worker'[w].prev = current[target[j]]
      /\ \A v \in Workers \ {w} : worker'[v] = worker[v]
  BY <1>0 DEF Claim, NewToken
<1>4. attempts[j] \in Nat
  BY <1>0 DEF JobsTyped
<1>5. RowsOK' /\ OneActiveJob'
  BY <1>0, <1>1, <1>2, <1>4 DEF IInv, RowsOK, OneActiveJob, JobsTyped, Active
<1>6. ASSUME NEW v \in Workers \ {w}, Busy(v)
      PROVE  /\ worker[v].job \in Jobs
             /\ status'[worker[v].job] \in {"running"} \cup Terminal
             /\ worker[v].token \in 1..attempts'[worker[v].job]
             /\ worker[v].job = j => worker[v].token # attempts[j] + 1
             /\ InTransaction(v) => worker[v].job # j
  <2>1. worker[v].job \in Jobs /\ worker[v].token \in 1..attempts[worker[v].job]
        /\ status[worker[v].job] \in {"running"} \cup Terminal
    BY <1>6 DEF IInv, TokensOK
  <2>2. attempts[worker[v].job] \in Nat
    BY <1>0, <2>1 DEF JobsTyped
  <2>3. InTransaction(v) => worker[v].job # j
    BY <1>1 DEF RowLocked, InTransaction
  <2> QED
    BY <1>0, <1>2, <1>4, <2>1, <2>2, <2>3 DEF JobsTyped
<1>7. ASSUME NEW v \in Workers \ {w}
      PROVE  /\ Holder(v)' => Holder(v) /\ worker[v].job # j
             /\ Holder(v) /\ worker[v].job # j => Holder(v)'
  BY <1>0, <1>2, <1>3, <1>6 DEF Holder, Busy, JobsTyped
<1>8. TokensOK'
  <2>1. ASSUME NEW v \in Workers, Busy(v)'
        PROVE  /\ worker'[v].job \in Jobs
               /\ status'[worker'[v].job] \in {"running"} \cup Terminal
               /\ worker'[v].token \in 1..attempts'[worker'[v].job]
               /\ HasPage(v)' => worker'[v].price \in Prices
               /\ InTransaction(v)' => Holder(v)'
    <3>1. CASE v = w
      BY <1>0, <1>2, <1>3, <1>4, <3>1 DEF HasPage, InTransaction, JobsTyped
    <3>2. CASE v # w
      BY <1>3, <1>6, <1>7, <2>1, <3>2 DEF IInv, TokensOK, HasPage, InTransaction, Busy
    <3> QED
      BY <3>1, <3>2
  <2>2. ASSUME NEW u \in Workers, NEW v \in Workers, Busy(u)', Busy(v)',
               worker'[u].job = worker'[v].job, worker'[u].token = worker'[v].token
        PROVE  u = v
    BY <1>3, <1>6, <2>2 DEF IInv, TokensOK, Busy
  <2> QED
    BY <2>1, <2>2 DEF TokensOK
<1>9. SnapshotsOK'
  BY <1>2, <1>3, <1>7 DEF IInv, SnapshotsOK
<1>10. TimesOK'
  <2>1. ~HasPage(w)'
    BY <1>3 DEF HasPage
  <2> QED
    BY <1>2, <1>3, <1>7, <2>1 DEF IInv, TimesOK, HasPage
<1>11. HistoryChain' /\ ChangesValidated'
  BY <1>2 DEF IInv, HistoryChain, ChangesValidated
<1>12. ObservedOnce'
  <2>1. \A s \in Targets : \A i \in DOMAIN history[s] :
          history[s][i].job # j /\ history[s][i].job \in Jobs
    <3> SUFFICES ASSUME NEW s \in Targets, NEW i \in DOMAIN history[s]
                 PROVE  history[s][i].job # j /\ history[s][i].job \in Jobs
      OBVIOUS
    <3>1. history[s][i] \in Row
      BY <1>0 DEF TypeOK, TargetsTyped
    <3> QED
      BY <1>1, <3>1 DEF IInv, ObservedOnce, Row, Active
  <2> QED
    BY <1>0, <1>1, <1>2, <2>1 DEF IInv, ObservedOnce, JobsTyped
<1> QED
  BY <1>5, <1>8, <1>9, <1>10, <1>11, <1>12 DEF Invariants

LEMMA FetchStep ==
  ASSUME IInv, NEW w \in Workers, NEW p \in Prices, FetchPage(w, p)
  PROVE  Invariants'
<1> DEFINE j == worker[w].job
           t == target[j]
<1>0. TypeOK /\ worker \in [Workers -> WorkerState] /\ fetchTime \in [Targets -> Nat]
  BY DEF IInv, TypeOK, TargetsTyped
<1>1. j \in Jobs /\ t \in Targets /\ Busy(w)
  BY <1>0 DEF IInv, TypeOK, JobsTyped, RowsOK, TokensOK, Busy, FetchPage, Terminal
<1>2. /\ fetchTime' = [fetchTime EXCEPT ![t] = @ + 1]
      /\ UNCHANGED <<current, history, status, target, attempts, token>>
  BY DEF FetchPage, jobVars
<1>3. /\ worker'[w] = [worker[w] EXCEPT !.pc = "fetched", !.price = p,
                                        !.at = fetchTime[t] + 1]
      /\ \A v \in Workers \ {w} : worker'[v] = worker[v]
  BY <1>0 DEF FetchPage
<1>4. /\ worker'[w].pc = "fetched" /\ worker'[w].price = p
      /\ worker'[w].at = fetchTime[t] + 1 /\ worker'[w].job = j
      /\ worker'[w].token = worker[w].token /\ worker'[w].prev = worker[w].prev
  BY <1>0, <1>3 DEF WorkerState
<1>4a. ASSUME NEW v \in Workers
       PROVE  /\ worker'[v].job = worker[v].job /\ worker'[v].token = worker[v].token
              /\ worker'[v].prev = worker[v].prev /\ (Busy(v)' => Busy(v))
  <2>1. CASE v = w
    BY <1>1, <1>4, <2>1
  <2>2. CASE v # w
    BY <1>3, <2>2 DEF Busy
  <2> QED
    BY <2>1, <2>2
<1>5. \A v \in Workers : Holder(v)' => Holder(v)
  BY <1>2, <1>4a DEF Holder
<1>6. RowsOK' /\ OneActiveJob'
  BY <1>2 DEF IInv, RowsOK, OneActiveJob
<1>7. TokensOK'
  <2>1. ASSUME NEW v \in Workers, Busy(v)'
        PROVE  /\ worker'[v].job \in Jobs
               /\ status'[worker'[v].job] \in {"running"} \cup Terminal
               /\ worker'[v].token \in 1..attempts'[worker'[v].job]
               /\ HasPage(v)' => worker'[v].price \in Prices
               /\ InTransaction(v)' => Holder(v)'
    <3>1. CASE v = w
      BY <1>1, <1>2, <1>4, <3>1 DEF IInv, TokensOK, Busy, HasPage, InTransaction
    <3>2. CASE v # w
      BY <1>2, <1>3, <2>1, <3>2 DEF IInv, TokensOK, Busy, HasPage, InTransaction, Holder
    <3> QED
      BY <3>1, <3>2
  <2>2. ASSUME NEW u \in Workers, NEW v \in Workers, Busy(u)', Busy(v)',
               worker'[u].job = worker'[v].job, worker'[u].token = worker'[v].token
        PROVE  u = v
    BY <1>4a, <2>2 DEF IInv, TokensOK
  <2> QED
    BY <2>1, <2>2 DEF TokensOK
<1>8. SnapshotsOK'
  BY <1>2, <1>5, <1>4a DEF IInv, SnapshotsOK
<1>9. TimesOK'
  <2>1. \A s \in Targets : fetchTime[s] \in Nat /\ fetchTime[s] <= fetchTime'[s]
                            /\ fetchTime'[s] \in Nat
    BY <1>0, <1>1, <1>2
  <2>2. \A s \in Targets : \A i \in DOMAIN history[s] : history[s][i].at \in Nat
    <3> SUFFICES ASSUME NEW s \in Targets, NEW i \in DOMAIN history[s]
                 PROVE  history[s][i].at \in Nat
      OBVIOUS
    <3>1. history[s][i] \in Row
      BY <1>0 DEF TypeOK, TargetsTyped
    <3> QED
      BY <3>1 DEF Row
  <2>3. \A s \in Targets :
          /\ \A i \in DOMAIN history'[s] : history'[s][i].at <= fetchTime'[s]
          /\ \A i, k \in DOMAIN history'[s] : i < k => history'[s][i].at < history'[s][k].at
    BY <1>2, <2>1, <2>2 DEF IInv, TimesOK
  <2>4. ASSUME NEW v \in Workers, HasPage(v)', Holder(v)'
        PROVE  /\ worker'[v].at <= fetchTime'[target'[worker'[v].job]]
               /\ \A i \in DOMAIN history'[target'[worker'[v].job]] :
                    history'[target'[worker'[v].job]][i].at < worker'[v].at
    <3>1. CASE v = w
      <4>1. fetchTime'[t] = fetchTime[t] + 1
        BY <1>0, <1>1, <1>2
      <4>2. \A i \in DOMAIN history[t] : history[t][i].at < fetchTime[t] + 1
        BY <1>1, <2>1, <2>2 DEF IInv, TimesOK
      <4> QED
        BY <1>1, <1>2, <1>4, <2>1, <3>1, <4>1, <4>2
    <3>2. CASE v # w
      <4>1. HasPage(v) /\ Holder(v) /\ worker'[v] = worker[v]
        BY <1>3, <1>5, <2>4, <3>2 DEF HasPage
      <4>2. target[worker[v].job] \in Targets /\ worker[v].at \in Nat
        BY <1>0, <4>1 DEF IInv, TypeOK, JobsTyped, RowsOK, TokensOK, Holder, WorkerState
      <4> QED
        BY <1>2, <2>1, <4>1, <4>2 DEF IInv, TimesOK
    <3> QED
      BY <3>1, <3>2
  <2> QED
    BY <2>3, <2>4 DEF TimesOK
<1>10. HistoryChain' /\ ChangesValidated'
  BY <1>2 DEF IInv, HistoryChain, ChangesValidated
<1>11. ObservedOnce'
  BY <1>2 DEF IInv, ObservedOnce
<1> QED
  BY <1>6, <1>7, <1>8, <1>9, <1>10, <1>11 DEF Invariants

\* What every end of a finalising transaction does to the rows: the owner's row
\* leaves the queue, and whoever else holds a token holds one of another target.
EndsWith(w, r) ==
  /\ Finalize(worker[w].job, r)
  /\ \A v \in Workers \ {w} : worker'[v] = worker[v]
  /\ \/ worker'[w].pc = "idle"
     \/ /\ worker'[w].pc = "failing"
        /\ worker'[w].job = worker[w].job /\ worker'[w].token = worker[w].token

LEMMA OwnerRow ==
  ASSUME IInv, NEW w \in Workers, InTransaction(w)
  PROVE  /\ Busy(w) /\ Holder(w)
         /\ worker[w].job \in Jobs /\ status[worker[w].job] = "running"
         /\ target[worker[w].job] \in Targets
<1>1. Busy(w)
  BY DEF InTransaction, Busy
<1>2. worker[w].job \in Jobs /\ Holder(w)
  BY <1>1 DEF IInv, TokensOK
<1> QED
  BY <1>1, <1>2 DEF IInv, TypeOK, JobsTyped, RowsOK, Holder

LEMMA EndOfTransaction ==
  ASSUME IInv, NEW w \in Workers, InTransaction(w), NEW r \in Terminal, EndsWith(w, r)
  PROVE  /\ RowsOK' /\ OneActiveJob' /\ TokensOK'
         /\ \A v \in Workers : Holder(v)' =>
              /\ Holder(v) /\ worker'[v] = worker[v]
              /\ target[worker[v].job] # target[worker[w].job]
<1> DEFINE j == worker[w].job
<1>0. TypeOK /\ JobsTyped
  BY DEF IInv, TypeOK
<1>1. /\ j \in Jobs /\ status[j] = "running" /\ target[j] \in Targets /\ target[j] # NoTarget
      /\ Busy(w)
  BY OwnerRow, TargetsAssumption
<1>2. /\ status' = [status EXCEPT ![j] = r] /\ token' = [token EXCEPT ![j] = 0]
      /\ UNCHANGED <<target, attempts>>
  BY DEF EndsWith, Finalize
<1>3. \A i \in Jobs : /\ i # j => status'[i] = status[i] /\ token'[i] = token[i]
                      /\ i = j => status'[i] = r
  BY <1>0, <1>2 DEF JobsTyped
<1>4. r \notin Active /\ r # "absent" /\ r # "running"
  BY DEF Terminal, Active
<1>5. RowsOK'
  BY <1>1, <1>2, <1>3, <1>4 DEF IInv, RowsOK
<1>6. OneActiveJob'
  BY <1>2, <1>3, <1>4 DEF IInv, OneActiveJob
<1>7. ASSUME NEW v \in Workers, Busy(v)'
      PROVE  /\ Busy(v) /\ worker'[v].job = worker[v].job /\ worker'[v].token = worker[v].token
             /\ v # w => worker'[v] = worker[v]
  BY <1>1, <1>7 DEF EndsWith, Busy
<1>8. ASSUME NEW v \in Workers, Busy(v) PROVE worker[v].job \in Jobs
  BY <1>8 DEF IInv, TokensOK
<1>9. ASSUME NEW v \in Workers, v # w, InTransaction(v) PROVE worker[v].job # j
  <2>1. Holder(v) /\ Holder(w) /\ Busy(v) /\ Busy(w)
    BY <1>9, OwnerRow
  <2> QED
    BY <1>9, <2>1 DEF IInv, TokensOK, Holder
<1>10. ASSUME NEW v \in Workers, Holder(v)'
       PROVE  /\ Holder(v) /\ worker'[v] = worker[v] /\ worker[v].job # j
              /\ target[worker[v].job] # target[j]
  <2>1. Busy(v)' /\ status'[worker'[v].job] = "running" /\ token'[worker'[v].job] = worker'[v].token
    BY <1>10 DEF Holder
  <2>2. worker[v].job \in Jobs /\ worker[v].job # j
    BY <1>3, <1>4, <1>7, <1>8, <2>1
  <2>3. Holder(v) /\ v # w /\ worker'[v] = worker[v]
    BY <1>3, <1>7, <2>1, <2>2 DEF Holder
  <2>4. target[worker[v].job] # target[j]
    BY <1>1, <2>2, <2>3 DEF IInv, OneActiveJob, Holder, Active
  <2> QED
    BY <2>2, <2>3, <2>4
<1>11. TokensOK'
  <2>1. ASSUME NEW v \in Workers, Busy(v)'
        PROVE  /\ worker'[v].job \in Jobs
               /\ status'[worker'[v].job] \in {"running"} \cup Terminal
               /\ worker'[v].token \in 1..attempts'[worker'[v].job]
    BY <1>2, <1>3, <1>7, <2>1 DEF IInv, TokensOK
  <2>2. ASSUME NEW v \in Workers, Busy(v)', HasPage(v)' PROVE worker'[v].price \in Prices
    <3>1. v # w
      BY <2>2 DEF EndsWith, HasPage
    <3> QED
      BY <1>7, <2>2, <3>1 DEF IInv, TokensOK, HasPage
  <2>3. ASSUME NEW v \in Workers, Busy(v)', InTransaction(v)' PROVE Holder(v)'
    <3>1. v # w
      BY <2>3 DEF EndsWith, InTransaction
    <3>2. InTransaction(v) /\ worker'[v] = worker[v]
      BY <1>7, <2>3, <3>1 DEF InTransaction
    <3>3. Holder(v) /\ worker[v].job # j /\ worker[v].job \in Jobs
      BY <1>9, <3>1, <3>2, OwnerRow
    <3> QED
      BY <1>3, <3>2, <3>3 DEF Holder, Busy
  <2>4. ASSUME NEW u \in Workers, NEW v \in Workers, Busy(u)', Busy(v)',
               worker'[u].job = worker'[v].job, worker'[u].token = worker'[v].token
        PROVE  u = v
    BY <1>7, <2>4 DEF IInv, TokensOK
  <2> QED
    BY <2>1, <2>2, <2>3, <2>4 DEF TokensOK
<1> QED
  BY <1>5, <1>6, <1>10, <1>11

\* The rows of the history belong to finished jobs.
LEMMA HistoryJobs ==
  ASSUME IInv, NEW t \in Targets, NEW i \in DOMAIN history[t]
  PROVE  /\ history[t][i].job \in Jobs /\ history[t][i].at \in Nat
         /\ status[history[t][i].job] = "succeeded"
<1>1. history[t][i] \in Row
  BY DEF IInv, TypeOK, TargetsTyped
<1> QED
  BY <1>1 DEF IInv, ObservedOnce, Row

\* A job that ends without a price.
LEMMA NoPriceStep ==
  ASSUME IInv, NEW w \in Workers, InTransaction(w), NEW r \in {"invalid", "failed"},
         EndsWith(w, r), UNCHANGED targetVars
  PROVE  Invariants'
<1>0. JobsTyped /\ r \in Terminal
  BY DEF IInv, TypeOK, Terminal
<1>1. /\ RowsOK' /\ OneActiveJob' /\ TokensOK'
      /\ \A v \in Workers : Holder(v)' => Holder(v) /\ worker'[v] = worker[v]
  BY <1>0, EndOfTransaction
<1>2. UNCHANGED <<target, current, history, fetchTime>>
  BY DEF EndsWith, Finalize, targetVars
<1>3. SnapshotsOK'
  BY <1>1, <1>2 DEF IInv, SnapshotsOK
<1>4. TimesOK'
  BY <1>1, <1>2 DEF IInv, TimesOK, HasPage
<1>5. HistoryChain' /\ ChangesValidated'
  BY <1>2 DEF IInv, HistoryChain, ChangesValidated
<1>6. ObservedOnce'
  <2>1. status' = [status EXCEPT ![worker[w].job] = r] /\ status[worker[w].job] = "running"
    BY OwnerRow DEF EndsWith, Finalize
  <2>2. \A i \in Jobs : (status'[i] = "succeeded") <=> (status[i] = "succeeded")
    BY <1>0, <2>1 DEF JobsTyped
  <2> QED
    BY <1>2, <2>2, HistoryJobs DEF IInv, ObservedOnce
<1> QED
  BY <1>1, <1>3, <1>4, <1>5, <1>6 DEF Invariants

\* A job that ends with a price: the new row continues the history.
LEMMA PriceStep ==
  ASSUME IInv, NEW w \in Workers, worker[w].pc = "recording",
         Succeed(w), EndsWith(w, "succeeded")
  PROVE  Invariants'
<1> DEFINE j == worker[w].job
           t == target[j]
           h == history[t]
           n == Len(h)
           r == [job |-> j, at |-> worker[w].at, price |-> worker[w].price,
                 prev |-> PreviousPrice(t)]
<1>0. TypeOK /\ TargetsTyped /\ JobsTyped
  BY DEF IInv, TypeOK
<1>1. /\ InTransaction(w) /\ HasPage(w) /\ Busy(w) /\ Holder(w)
      /\ j \in Jobs /\ status[j] = "running" /\ t \in Targets
  BY OwnerRow DEF InTransaction, HasPage
<1>2. /\ history' = [history EXCEPT ![t] = Append(h, r)]
      /\ current' = [current EXCEPT ![t] = worker[w].price]
      /\ status' = [status EXCEPT ![j] = "succeeded"]
      /\ UNCHANGED <<target, fetchTime>>
  BY DEF Succeed, Finalize
<1>3. /\ RowsOK' /\ OneActiveJob' /\ TokensOK'
      /\ \A v \in Workers : Holder(v)' =>
           Holder(v) /\ worker'[v] = worker[v] /\ target[worker[v].job] # t
  BY <1>1, EndOfTransaction DEF Terminal
<1>4. h \in Seq(Row) /\ n \in Nat /\ DOMAIN h = 1..n
  BY <1>0, <1>1 DEF TargetsTyped
<1>5. r.job = j /\ r.at = worker[w].at /\ r.price = worker[w].price /\ r.prev = current[t]
  BY <1>0, <1>1, PreviousIsCurrent DEF IInv
<1>6. /\ DOMAIN history'[t] = 1..(n + 1) /\ Len(history'[t]) = n + 1
      /\ history'[t][n + 1] = r
      /\ \A i \in 1..n : history'[t][i] = h[i]
      /\ \A s \in Targets \ {t} : history'[s] = history[s]
      /\ history'[t] # <<>>
  <2> HIDE DEF r
  <2>1. history'[t] = Append(h, r)
    BY <1>0, <1>1, <1>2 DEF TargetsTyped
  <2>2. \A s \in Targets \ {t} : history'[s] = history[s]
    BY <1>0, <1>1, <1>2 DEF TargetsTyped
  <2>3. DOMAIN Append(h, r) = 1..(n + 1) /\ Len(Append(h, r)) = n + 1
        /\ Append(h, r)[n + 1] = r /\ \A i \in 1..n : Append(h, r)[i] = h[i]
    BY <1>4
  <2>4. n + 1 \in 1..(n + 1) /\ DOMAIN <<>> = {}
    BY <1>4
  <2> QED
    BY <2>1, <2>2, <2>3, <2>4
<1>7. /\ current'[t] = worker[w].price
      /\ \A s \in Targets \ {t} : current'[s] = current[s]
  BY <1>0, <1>1, <1>2 DEF TargetsTyped
<1>8. /\ status'[j] = "succeeded"
      /\ \A i \in Jobs \ {j} : status'[i] = status[i]
  BY <1>0, <1>1, <1>2 DEF JobsTyped
<1> HIDE DEF r, h, n
<1>9. SnapshotsOK'
  <2>1. ASSUME NEW v \in Workers, Holder(v)'
        PROVE  /\ worker'[v] = worker[v] /\ Holder(v)
               /\ target[worker[v].job] \in Targets \ {t}
    <3>1. Holder(v) /\ worker'[v] = worker[v] /\ target[worker[v].job] # t
      BY <1>3, <2>1
    <3>2. worker[v].job \in Jobs /\ status[worker[v].job] = "running"
      BY <3>1 DEF IInv, TokensOK, Holder
    <3> QED
      BY <1>0, <3>1, <3>2 DEF IInv, RowsOK, JobsTyped
  <2> QED
    BY <1>2, <1>7, <2>1 DEF IInv, SnapshotsOK
<1>10. TimesOK'
  <2>1. /\ worker[w].at <= fetchTime[t]
        /\ \A i \in 1..n : h[i].at < worker[w].at
    BY <1>1, <1>4 DEF IInv, TimesOK, h
  <2>2. ASSUME NEW s \in Targets
        PROVE  /\ \A i \in DOMAIN history'[s] : history'[s][i].at <= fetchTime'[s]
               /\ \A i, k \in DOMAIN history'[s] : i < k => history'[s][i].at < history'[s][k].at
    <3>1. CASE s # t
      BY <1>2, <1>6, <3>1 DEF IInv, TimesOK
    <3>2. CASE s = t
      <4>1. \A i \in 1..n : h[i].at <= fetchTime[t]
        BY <1>1, <1>4 DEF IInv, TimesOK, h
      <4>2. \A i, k \in 1..n : i < k => h[i].at < h[k].at
        BY <1>1, <1>4 DEF IInv, TimesOK, h
      <4>3. ASSUME NEW i \in DOMAIN history'[t] PROVE history'[t][i].at <= fetchTime'[t]
        <5>1. CASE i \in 1..n
          BY <1>2, <1>6, <4>1, <5>1
        <5>2. CASE i = n + 1
          BY <1>2, <1>5, <1>6, <2>1, <5>2
        <5> QED
          BY <1>4, <1>6, <5>1, <5>2
      <4>4. ASSUME NEW i \in DOMAIN history'[t], NEW k \in DOMAIN history'[t], i < k
            PROVE  history'[t][i].at < history'[t][k].at
        <5>1. i \in 1..n /\ (k \in 1..n \/ k = n + 1)
          BY <1>4, <1>6, <4>4
        <5>2. CASE k \in 1..n
          BY <1>6, <4>2, <4>4, <5>1, <5>2
        <5>3. CASE k = n + 1
          BY <1>5, <1>6, <2>1, <5>1, <5>3
        <5> QED
          BY <5>1, <5>2, <5>3
      <4> QED
        BY <3>2, <4>3, <4>4
    <3> QED
      BY <3>1, <3>2
  <2>3. ASSUME NEW v \in Workers, HasPage(v)', Holder(v)'
        PROVE  /\ worker'[v].at <= fetchTime'[target'[worker'[v].job]]
               /\ \A i \in DOMAIN history'[target'[worker'[v].job]] :
                    history'[target'[worker'[v].job]][i].at < worker'[v].at
    <3>1. Holder(v) /\ worker'[v] = worker[v] /\ target[worker[v].job] # t
      BY <1>3, <2>3
    <3>2. worker[v].job \in Jobs /\ status[worker[v].job] = "running"
      BY <3>1 DEF IInv, TokensOK, Holder
    <3>3. target[worker[v].job] \in Targets
      BY <1>0, <3>2 DEF IInv, RowsOK, JobsTyped
    <3>4. history'[target[worker[v].job]] = history[target[worker[v].job]]
      BY <1>6, <3>1, <3>3
    <3>5. HasPage(v)
      BY <2>3, <3>1 DEF HasPage
    <3> QED
      BY <1>2, <3>1, <3>4, <3>5 DEF IInv, TimesOK
  <2> QED
    BY <2>2, <2>3 DEF TimesOK
<1>11. HistoryChain'
  <2>1. ASSUME NEW s \in Targets, s # t
        PROVE  /\ \A i \in DOMAIN history'[s] :
                    history'[s][i].prev = IF i = 1 THEN NoPrice ELSE history'[s][i - 1].price
               /\ current'[s] = IF history'[s] = <<>> THEN NoPrice
                                ELSE history'[s][Len(history'[s])].price
    BY <1>6, <1>7, <2>1 DEF IInv, HistoryChain
  <2>2. current'[t] = history'[t][Len(history'[t])].price /\ history'[t] # <<>>
    BY <1>5, <1>6, <1>7
  <2>3. ASSUME NEW i \in 1..n
        PROVE  history'[t][i].prev = IF i = 1 THEN NoPrice ELSE history'[t][i - 1].price
    <3>1. h[i].prev = IF i = 1 THEN NoPrice ELSE h[i - 1].price
      BY <1>1, <1>4 DEF IInv, HistoryChain, h
    <3>2. i # 1 => i - 1 \in 1..n
      BY <1>4
    <3> QED
      BY <1>6, <3>1, <3>2
  <2>4. r.prev = IF n + 1 = 1 THEN NoPrice ELSE history'[t][n].price
    <3>1. CASE n = 0
      <4>1. h = <<>>
        BY <1>4, <3>1 DEF n
      <4> QED
        BY <1>1, <1>5, <3>1, <4>1 DEF IInv, HistoryChain, h
    <3>2. CASE n # 0
      <4>1. h # <<>> /\ n \in 1..n /\ n + 1 # 1
        BY <1>4, <3>2
      <4> QED
        BY <1>1, <1>5, <1>6, <4>1 DEF IInv, HistoryChain, h, n
    <3> QED
      BY <3>1, <3>2
  <2>5. ASSUME NEW i \in DOMAIN history'[t]
        PROVE  history'[t][i].prev = IF i = 1 THEN NoPrice ELSE history'[t][i - 1].price
    <3>1. i \in 1..n \/ (i = n + 1 /\ i - 1 = n)
      BY <1>4, <1>6
    <3> QED
      BY <1>6, <2>3, <2>4, <3>1
  <2> QED
    BY <2>1, <2>2, <2>5 DEF HistoryChain
<1>12. ChangesValidated'
  <2>1. <<r.prev, r.price>> \in Plausible[t]
    BY <1>1, <1>5 DEF IInv, SnapshotsOK, Succeed, Accepted
  <2>2. \A i \in 1..n : <<h[i].prev, h[i].price>> \in Plausible[t]
    BY <1>1, <1>4 DEF IInv, ChangesValidated, h
  <2>3. \A i \in 1..(n + 1) : i \in 1..n \/ i = n + 1
    BY <1>4
  <2>4. \A i \in DOMAIN history'[t] :
          <<history'[t][i].prev, history'[t][i].price>> \in Plausible[t]
    BY <1>6, <2>1, <2>2, <2>3
  <2> QED
    BY <1>6, <2>4 DEF IInv, ChangesValidated
<1>13. ObservedOnce'
  <2>1. ASSUME NEW s \in Targets, NEW i \in DOMAIN history[s]
        PROVE  /\ history[s][i].job \in Jobs \ {j}
               /\ status'[history[s][i].job] = "succeeded"
    BY <1>1, <1>8, HistoryJobs
  <2>2. ASSUME NEW s \in Targets, s # t, NEW i \in DOMAIN history'[s]
        PROVE  /\ status'[history'[s][i].job] = "succeeded"
               /\ target'[history'[s][i].job] = s
               /\ \A k \in DOMAIN history'[s] : history'[s][k].job = history'[s][i].job => k = i
    BY <1>2, <1>6, <2>1, <2>2 DEF IInv, ObservedOnce
  <2>3. \A i \in 1..(n + 1) : i \in 1..n \/ i = n + 1
    BY <1>4
  <2>4. \A i \in 1..n : /\ h[i].job # j
                        /\ status'[h[i].job] = "succeeded"
                        /\ target[h[i].job] = t
                        /\ \A k \in 1..n : h[k].job = h[i].job => k = i
    BY <1>1, <1>4, <2>1 DEF IInv, ObservedOnce, h
  <2>5. ASSUME NEW i \in DOMAIN history'[t]
        PROVE  /\ status'[history'[t][i].job] = "succeeded"
               /\ target'[history'[t][i].job] = t
               /\ \A k \in DOMAIN history'[t] : history'[t][k].job = history'[t][i].job => k = i
    <3>1. CASE i \in 1..n
      BY <1>2, <1>5, <1>6, <2>3, <2>4, <3>1
    <3>2. CASE i = n + 1
      BY <1>2, <1>5, <1>6, <1>8, <2>3, <2>4, <3>2
    <3> QED
      BY <1>6, <2>3, <3>1, <3>2
  <2>6. ASSUME NEW i \in Jobs, status'[i] = "succeeded"
        PROVE  \E k \in DOMAIN history'[target'[i]] : history'[target'[i]][k].job = i
    <3>1. CASE i = j
      <4>1. n + 1 \in DOMAIN history'[t]
        BY <1>4, <1>6
      <4> QED
        BY <1>2, <1>5, <1>6, <3>1, <4>1
    <3>2. CASE i # j
      <4>1. status[i] = "succeeded" /\ target[i] \in Targets
        BY <1>0, <1>8, <2>6, <3>2 DEF IInv, RowsOK, JobsTyped
      <4>2. PICK k \in DOMAIN history[target[i]] : history[target[i]][k].job = i
        BY <4>1 DEF IInv, ObservedOnce
      <4>3. CASE target[i] = t
        <5>1. k \in 1..n /\ k \in DOMAIN history'[t] /\ history'[t][k] = h[k]
          BY <1>4, <1>6, <4>2, <4>3 DEF h
        <5> QED
          BY <1>2, <4>2, <4>3, <5>1 DEF h
      <4>4. CASE target[i] # t
        <5>1. history'[target[i]] = history[target[i]] /\ target'[i] = target[i]
          BY <1>2, <1>6, <4>1, <4>4
        <5> QED
          BY <4>2, <5>1
      <4> QED
        BY <4>3, <4>4
    <3> QED
      BY <3>1, <3>2
  <2> QED
    BY <2>2, <2>5, <2>6 DEF ObservedOnce
<1> QED
  BY <1>3, <1>9, <1>10, <1>11, <1>12, <1>13 DEF Invariants

LEMMA CommitStep ==
  ASSUME IInv, NEW w \in Workers, RecordCommit(w) \/ CloseCommit(w)
  PROVE  Invariants'
<1>0. worker \in [Workers -> WorkerState]
  BY DEF IInv, TypeOK
<1>1. /\ \A v \in Workers \ {w} : worker'[v] = worker[v]
      /\ \/ worker'[w].pc = "idle"
         \/ /\ worker'[w].pc = "failing"
            /\ worker'[w].job = worker[w].job /\ worker'[w].token = worker[w].token
  <2>1. CASE StopWorking(w)
    BY <1>0, <2>1 DEF StopWorking, IdleWorker
  <2>2. CASE worker' = [worker EXCEPT ![w].pc = "failing"]
    BY <1>0, <2>2 DEF WorkerState
  <2> QED
    BY <2>1, <2>2 DEF RecordCommit, CloseCommit
<1>2. CASE CloseCommit(w)
  BY <1>1, <1>2, NoPriceStep DEF CloseCommit, EndsWith, InTransaction
<1>3. CASE RecordCommit(w) /\ Reject(w)
  BY <1>1, <1>3, NoPriceStep DEF RecordCommit, Reject, EndsWith, InTransaction
<1>4. CASE RecordCommit(w) /\ Succeed(w)
  BY <1>1, <1>4, PriceStep DEF RecordCommit, Succeed, EndsWith
<1> QED
  BY <1>2, <1>3, <1>4 DEF RecordCommit

-----------------------------------------------------------------------------
(* The inductive invariant.                                                *)

\* The steps of a worker that write nothing but its own state.
LEMMA WorkerGoesOn ==
  ASSUME IInv, NEW w \in Workers,
         \/ StopWorking(w)
         \/ FetchFails(w) \/ RecordBegin(w) \/ RecordAborts(w) \/ Heartbeat(w)
  PROVE  WorkersGoOn
<1>0. worker \in [Workers -> WorkerState]
  BY DEF IInv, TypeOK
<1>1. ASSUME NEW v \in Workers, worker'[v] = worker[v]
      PROVE  \/ worker'[v].pc = "idle"
             \/ /\ Busy(v)
                /\ worker'[v].job = worker[v].job
                /\ worker'[v].token = worker[v].token
                /\ worker'[v].prev = worker[v].prev
                /\ worker'[v].price = worker[v].price
                /\ worker'[v].at = worker[v].at
                /\ worker'[v].pc \in {"fetched", "recording"} => HasPage(v)
                /\ worker'[v].pc \in {"recording", "closing"} => Holder(v)
  BY <1>1 DEF IInv, TokensOK, Busy, HasPage, InTransaction
<1>2. CASE StopWorking(w)
  <2>1. worker'[w].pc = "idle" /\ \A v \in Workers : v # w => worker'[v] = worker[v]
    BY <1>0, <1>2 DEF StopWorking, IdleWorker
  <2> QED
    BY <1>1, <2>1 DEF WorkersGoOn
<1>3. CASE FetchFails(w) \/ RecordBegin(w) \/ RecordAborts(w) \/ Heartbeat(w)
  <2>1. \A v \in Workers : v # w => worker'[v] = worker[v]
    BY <1>0, <1>3 DEF FetchFails, RecordBegin, RecordAborts, Heartbeat
  <2>2. /\ worker'[w].job = worker[w].job
        /\ worker'[w].token = worker[w].token
        /\ worker'[w].prev = worker[w].prev
        /\ worker'[w].price = worker[w].price
        /\ worker'[w].at = worker[w].at
    BY <1>0, <1>3 DEF FetchFails, RecordBegin, RecordAborts, Heartbeat, WorkerState
  <2>3. /\ Busy(w)
        /\ worker'[w].pc \in {"fetched", "recording"} => HasPage(w)
        /\ worker'[w].pc \in {"recording", "closing"} => Holder(w)
    <3>1. CASE FetchFails(w) \/ RecordAborts(w) \/ Heartbeat(w)
      BY <1>0, <3>1
      DEF FetchFails, RecordAborts, Heartbeat, WorkerState, Busy
    <3>2. CASE RecordBegin(w)
      BY <1>0, <3>2
      DEF RecordBegin, HoldsLiveLease, Holder, WorkerState, Busy, HasPage
    <3> QED
      BY <1>3, <3>1, <3>2
  <2> QED
    BY <1>1, <2>1, <2>2, <2>3 DEF WorkersGoOn
<1> QED
  BY <1>2, <1>3

LEMMA EnqueueStepInv ==
  ASSUME IInv, NEW c \in Clients, EnqueueStep(c)
  PROVE  Invariants'
<1>1. CASE \E j \in Jobs : InsertJob(c, j)
  BY <1>1, InsertStep
<1>2. CASE \/ \E t \in Targets : RequestScrape(c, t) \/ StartDue(c, t) \/ DueAlreadyQueued(c, t)
           \/ InsertConflict(c) \/ ReselectFound(c) \/ ReselectNothing(c)
  <2>1. UNCHANGED <<current, history, fetchTime, status, target, attempts, token, worker>>
    BY <1>2
    DEF RequestScrape, StartDue, DueAlreadyQueued, InsertConflict, ReselectFound,
        ReselectNothing, FinishEnqueue, targetVars, jobVars
  <2>2. WorkersGoOn
    BY <2>1 DEF WorkersGoOn, IInv, TokensOK, Busy, HasPage, InTransaction
  <2> QED
    BY <2>1, <2>2, QuietStep
<1> QED
  BY <1>1, <1>2 DEF EnqueueStep

LEMMA WorkStepInv ==
  ASSUME IInv, NEW w \in Workers, WorkStep(w)
  PROVE  Invariants'
<1>1. CASE \E j \in Jobs : Claim(w, j)
  BY <1>1, ClaimStep
<1>2. CASE \E p \in Prices : FetchPage(w, p)
  BY <1>2, FetchStep
<1>3. CASE RecordCommit(w) \/ CloseCommit(w)
  BY <1>3, CommitStep
<1>4. CASE HeartbeatLost(w) \/ HeartbeatFails(w) \/ Watchdog(w) \/ RecordLost(w) \/ Crash(w)
  <2>1. StopWorking(w) /\ UNCHANGED <<targetVars, jobVars>> /\ worker[w].pc # "idle"
    BY <1>4 DEF HeartbeatLost, HeartbeatFails, Watchdog, RecordLost, Crash
  <2> QED
    BY <2>1, WorkerGoesOn, QuietStep DEF targetVars, jobVars
<1>5. CASE FetchFails(w) \/ RecordBegin(w) \/ RecordAborts(w) \/ Heartbeat(w)
  <2>1. /\ worker[w].pc # "idle"
        /\ UNCHANGED <<current, history, fetchTime, status, target, attempts, token>>
    BY <1>5 DEF FetchFails, RecordBegin, RecordAborts, Heartbeat, targetVars, jobVars
  <2> QED
    BY <1>5, <2>1, WorkerGoesOn, QuietStep
<1> QED
  BY <1>1, <1>2, <1>3, <1>4, <1>5 DEF WorkStep

LEMMA TickInv == IInv /\ Tick => Invariants'
<1> SUFFICES ASSUME IInv, Tick PROVE Invariants'
  OBVIOUS
<1>1. ASSUME NEW w \in Workers
      PROVE  /\ worker'[w].pc = worker[w].pc /\ worker'[w].job = worker[w].job
             /\ worker'[w].token = worker[w].token /\ worker'[w].prev = worker[w].prev
             /\ worker'[w].price = worker[w].price /\ worker'[w].at = worker[w].at
  <2>1. worker[w] \in WorkerState
    BY DEF IInv, TypeOK
  <2> QED
    BY <2>1 DEF Tick, WorkerState
<1>2. WorkersGoOn
  BY <1>1 DEF WorkersGoOn, IInv, TokensOK, Busy, HasPage, InTransaction
<1> QED
  BY <1>2, QuietStep DEF Tick

LEMMA InitInv == Init => IInv
<1> SUFFICES ASSUME Init PROVE IInv
  OBVIOUS
<1>1. TypeOK
  BY InitType
<1>2. \A w \in Workers : ~Busy(w)
  BY DEF Init, IdleWorker, Busy
<1>3. RowsOK /\ ClientsOK /\ OneActiveJob
  BY TargetsAssumption DEF Init, RowsOK, ClientsOK, OneActiveJob, IdleClient, Active
<1>4. TokensOK /\ SnapshotsOK /\ TimesOK
  BY <1>2 DEF Init, TokensOK, SnapshotsOK, TimesOK, Holder, Busy, HasPage
<1>5. HistoryChain /\ ChangesValidated /\ ObservedOnce
  BY DEF Init, HistoryChain, ChangesValidated, ObservedOnce
<1> QED
  BY <1>1, <1>3, <1>4, <1>5 DEF IInv

LEMMA NextInv == IInv /\ [Next]_vars => IInv'
<1> SUFFICES ASSUME IInv, [Next]_vars PROVE IInv'
  OBVIOUS
<1>1. CASE (\E t \in Targets : SetActive(t)) \/ UNCHANGED vars
  <2>1. UNCHANGED <<current, history, fetchTime, status, target, attempts, token, worker>>
    BY <1>1 DEF SetActive, vars, targetVars, jobVars
  <2>2. WorkersGoOn
    BY <2>1 DEF WorkersGoOn, IInv, TokensOK, Busy, HasPage, InTransaction
  <2>3. Invariants'
    BY <2>1, <2>2, QuietStep
  <2> QED
    BY <2>3, NextType, ClientsStep DEF IInv, Invariants
<1>2. CASE ~((\E t \in Targets : SetActive(t)) \/ UNCHANGED vars)
  <2>1. Invariants'
    BY <1>2, EnqueueStepInv, WorkStepInv, TickInv DEF Next
  <2> QED
    BY <2>1, NextType, ClientsStep DEF IInv, Invariants
<1> QED
  BY <1>1, <1>2

-----------------------------------------------------------------------------
(* The theorems.                                                           *)

\* The inductive invariant: in every reachable state each unfinished row has
\* at most one worker with its current token, that worker's snapshot of the
\* price is still the target's price, and its page is the youngest.
THEOREM Invariance == Spec => []IInv
BY InitInv, NextInv, PTL DEF Spec

\* The variables keep their types: no claim, renewal, recording, crash or
\* tick leaves the domain of a column.
THEOREM TypeCorrect == Spec => []TypeOK
<1>1. IInv => TypeOK
  BY DEF IInv
<1> QED
  BY <1>1, Invariance, PTL

\* Concurrent enqueuers never leave two unfinished rows for one target.
THEOREM OneActive == Spec => []OneActiveJob
<1>1. IInv => OneActiveJob
  BY DEF IInv
<1> QED
  BY <1>1, Invariance, PTL

\* The price history of a target is a chain that ends in its current price,
\* for any number of workers that are late, crash or lose acknowledgements.
THEOREM Chain == Spec => []HistoryChain
<1>1. IInv => HistoryChain
  BY DEF IInv
<1> QED
  BY <1>1, Invariance, PTL

\* The validator's verdict, given on the claim-time snapshot, is right for the
\* price that the recorder replaces.
THEOREM Validated == Spec => []ChangesValidated
<1>1. IInv => ChangesValidated
  BY DEF IInv
<1> QED
  BY <1>1, Invariance, PTL

\* Rows that succeeded and rows of the price history correspond one to one.
THEOREM Observed == Spec => []ObservedOnce
<1>1. IInv => ObservedOnce
  BY DEF IInv
<1> QED
  BY <1>1, Invariance, PTL

-----------------------------------------------------------------------------
(* Who may finish a row.                                                   *)

\* A finalising transaction finds its row running, under the worker's token,
\* which is the row's last.
LEMMA EndByOwner ==
  ASSUME IInv, NEW w \in Workers, InTransaction(w), NEW r \in Terminal,
         Finalize(worker[w].job, r), worker'[w] # worker[w]
  PROVE  OwnerFinishes
<1>0. JobsTyped
  BY DEF IInv, TypeOK
<1>1. worker[w].job \in Jobs /\ status[worker[w].job] = "running"
      /\ worker[w].token = attempts[worker[w].job]
  BY OwnerRow DEF IInv, RowsOK, Holder
<1>2. \A j \in Jobs \ {worker[w].job} :
        /\ status'[j] = status[j] /\ attempts'[j] = attempts[j]
        /\ token'[j] = token[j] /\ lease'[j] = lease[j]
  BY <1>0 DEF Finalize, JobsTyped
<1>3. ASSUME NEW j \in Jobs
      PROVE  /\ status[j] \in Terminal =>
                  /\ status'[j] = status[j] /\ attempts'[j] = attempts[j]
                  /\ token'[j] = token[j] /\ lease'[j] = lease[j]
             /\ status[j] = "running" /\ status'[j] \in Terminal =>
                  \E v \in Workers :
                    /\ worker[v].job = j /\ worker[v].token = attempts[j]
                    /\ worker'[v] # worker[v]
  <2>1. CASE j = worker[w].job
    BY <1>1, <2>1 DEF Terminal
  <2>2. CASE j # worker[w].job
    BY <1>2, <2>2 DEF Terminal
  <2> QED
    BY <2>1, <2>2
<1> QED
  BY <1>3 DEF OwnerFinishes

\* Every other step leaves the finished rows alone and finishes none.
LEMMA OtherSteps ==
  ASSUME \A j \in Jobs : /\ status[j] \in Terminal =>
                              /\ status'[j] = status[j] /\ attempts'[j] = attempts[j]
                              /\ token'[j] = token[j] /\ lease'[j] = lease[j]
                         /\ status[j] = "running" => status'[j] = "running"
  PROVE  OwnerFinishes
BY DEF OwnerFinishes, Terminal

LEMMA NextFinishes == IInv /\ [Next]_vars => [OwnerFinishes]_vars
<1> SUFFICES ASSUME IInv, [Next]_vars PROVE OwnerFinishes
  OBVIOUS
<1>0. JobsTyped /\ worker \in [Workers -> WorkerState]
  BY DEF IInv, TypeOK
<1>1. CASE UNCHANGED <<status, attempts, token, lease>>
  BY <1>1, OtherSteps
<1>2. ASSUME NEW c \in Clients, EnqueueStep(c) PROVE OwnerFinishes
  <2>1. CASE \E j \in Jobs : InsertJob(c, j)
    BY <1>0, <2>1, OtherSteps DEF InsertJob, NextId, JobsTyped, Terminal
  <2>2. CASE ~ \E j \in Jobs : InsertJob(c, j)
    BY <1>1, <1>2, <2>2
    DEF EnqueueStep, RequestScrape, StartDue, DueAlreadyQueued, InsertConflict,
        ReselectFound, ReselectNothing, jobVars
  <2> QED
    BY <2>1, <2>2
<1>3. ASSUME NEW w \in Workers, WorkStep(w) PROVE OwnerFinishes
  <2>1. CASE \E j \in Jobs : Claim(w, j)
    BY <1>0, <2>1, OtherSteps DEF Claim, Claimable, JobsTyped, Terminal
  <2>2. CASE Heartbeat(w)
    BY <1>0, <2>2, OtherSteps DEF Heartbeat, HoldsLiveLease, JobsTyped, Terminal
  <2>3. CASE RecordCommit(w) \/ CloseCommit(w)
    <3>1. InTransaction(w) /\ worker'[w] # worker[w]
      BY <1>0, <2>3
      DEF RecordCommit, CloseCommit, StopWorking, InTransaction, IdleWorker, WorkerState
    <3>2. \E r \in Terminal : Finalize(worker[w].job, r)
      BY <2>3 DEF RecordCommit, CloseCommit, Succeed, Reject, Terminal
    <3> QED
      BY <3>1, <3>2, EndByOwner
  <2>4. CASE UNCHANGED jobVars
    BY <1>1, <2>4 DEF jobVars
  <2> QED
    BY <1>3, <2>1, <2>2, <2>3, <2>4
    DEF WorkStep, HeartbeatLost, HeartbeatFails, Watchdog, FetchPage, FetchFails,
        RecordBegin, RecordLost, RecordAborts, Crash
<1>4. CASE Tick
  <2>1. UNCHANGED <<status, attempts, token>>
        /\ \A j \in Jobs : status[j] \in Terminal => lease'[j] = lease[j]
    BY <1>4 DEF Tick, Terminal
  <2> QED
    BY <2>1, OtherSteps
<1> QED
  BY <1>1, <1>2, <1>3, <1>4 DEF Next, SetActive, vars, jobVars

\* No late worker finishes a row it has lost, and nobody reopens one.
THEOREM Finishing == Spec => FinishedByOwner
<1>1. Spec => []IInv
  BY Invariance
<1>2. IInv /\ [Next]_vars => [OwnerFinishes]_vars
  BY NextFinishes
<1> QED
  BY <1>1, <1>2, PTL DEF Spec, FinishedByOwner

-----------------------------------------------------------------------------
(* Timers that run when they are due.                                      *)

\* What a worker that goes on fetching relies on, of its job's row j.
RowStays(j) == status'[j] = status[j] /\ token'[j] = token[j] /\ lease'[j] = lease[j]

LEMMA AheadStays ==
  ASSUME LeaseAhead, PromptTimers, NEW w \in Workers, worker[w].pc = "fetching",
         worker'[w] = worker[w], RowStays(worker[w].job)
  PROVE  Holder(w)' /\ lease'[worker'[w].job] = worker'[w].left + Margin
BY DEF LeaseAhead, Holder, Busy, RowStays

LEMMA AheadWork ==
  ASSUME IInv, LeaseAhead, PromptTimers, NEW v \in Workers, WorkStep(v),
         NEW w \in Workers, worker'[w].pc = "fetching"
  PROVE  Holder(w)' /\ lease'[worker'[w].job] = worker'[w].left + Margin
<1>0. JobsTyped /\ worker \in [Workers -> WorkerState]
  BY DEF IInv, TypeOK
<1>1. worker[w].pc = "fetching" =>
        /\ worker[w].job \in Jobs /\ Holder(w)
        /\ lease[worker[w].job] = worker[w].left + Margin /\ worker[w].left \in 0..Lease
  BY <1>0 DEF LeaseAhead, IInv, TokensOK, Busy, WorkerState
<1>2. ASSUME Holder(v), v # w, worker[w].pc = "fetching"
      PROVE  worker[v].job # worker[w].job
  BY <1>1, <1>2 DEF IInv, TokensOK, Holder, Busy
<1>3. ASSUME NEW j \in Jobs, Claim(v, j)
      PROVE  Holder(w)' /\ lease'[worker'[w].job] = worker'[w].left + Margin
  <2>1. CASE v = w
    <3>1. /\ worker'[w].pc = "fetching" /\ worker'[w].job = j
          /\ worker'[w].token = NewToken(j) /\ worker'[w].left = Lease - Margin
      BY <1>0, <1>3, <2>1 DEF Claim
    <3>2. status'[j] = "running" /\ token'[j] = NewToken(j) /\ lease'[j] = Lease
      BY <1>0, <1>3 DEF Claim, JobsTyped
    <3> QED
      BY <3>1, <3>2, TimingAssumption DEF Holder, Busy
  <2>2. CASE v # w
    <3>1. worker'[w] = worker[w]
      BY <1>0, <1>3, <2>2 DEF Claim
    <3>2. j # worker[w].job
      BY <1>1, <1>3, <3>1, TimingAssumption DEF Claim, Claimable, Holder
    <3>3. RowStays(worker[w].job)
      BY <1>0, <1>1, <1>3, <3>1, <3>2 DEF Claim, JobsTyped, RowStays
    <3> QED
      BY <3>1, <3>3, AheadStays
  <2> QED
    BY <2>1, <2>2
<1>4. CASE Heartbeat(v)
  <2>1. CASE v = w
    <3>1. /\ worker[w].pc = "fetching" /\ worker'[w].job = worker[w].job
          /\ worker'[w].token = worker[w].token /\ worker'[w].left = Lease - Margin
      BY <1>0, <1>4, <2>1 DEF Heartbeat, WorkerState
    <3>2. lease'[worker[w].job] = Lease /\ UNCHANGED <<status, token>>
      BY <1>0, <1>1, <1>4, <2>1, <3>1 DEF Heartbeat, JobsTyped
    <3> QED
      BY <1>1, <3>1, <3>2, TimingAssumption DEF Holder, Busy
  <2>2. CASE v # w
    <3>1. worker'[w] = worker[w]
      BY <1>0, <1>4, <2>2 DEF Heartbeat
    <3>2. worker[v].job # worker[w].job
      BY <1>2, <1>4, <2>2, <3>1 DEF Heartbeat, HoldsLiveLease, Holder, Busy
    <3>3. RowStays(worker[w].job)
      BY <1>0, <1>1, <1>4, <3>1, <3>2 DEF Heartbeat, JobsTyped, RowStays
    <3> QED
      BY <3>1, <3>3, AheadStays
  <2> QED
    BY <2>1, <2>2
<1>5. CASE RecordCommit(v) \/ CloseCommit(v)
  <2>0. PICK new : new.pc # "fetching" /\ worker' = [worker EXCEPT ![v] = new]
    <3>1. StopWorking(v) \/ worker' = [worker EXCEPT ![v].pc = "failing"]
      BY <1>5 DEF RecordCommit, CloseCommit
    <3>2. CASE StopWorking(v)
      BY <3>2 DEF StopWorking, IdleWorker
    <3>3. CASE worker' = [worker EXCEPT ![v].pc = "failing"]
      BY <1>0, <3>3 DEF WorkerState
    <3> QED
      BY <3>1, <3>2, <3>3
  <2>1. v # w /\ worker'[w] = worker[w]
    BY <1>0, <2>0
  <2>2. Holder(v)
    BY <1>5 DEF IInv, TokensOK, RecordCommit, CloseCommit, InTransaction, Busy
  <2>3. worker[v].job # worker[w].job
    BY <1>2, <2>1, <2>2
  <2>4. \E r \in Terminal : Finalize(worker[v].job, r)
    BY <1>5 DEF RecordCommit, CloseCommit, Succeed, Reject, Terminal
  <2>5. RowStays(worker[w].job)
    BY <1>0, <1>1, <2>1, <2>3, <2>4 DEF Finalize, JobsTyped, RowStays
  <2> QED
    BY <2>1, <2>5, AheadStays
<1>6. CASE \/ HeartbeatLost(v) \/ HeartbeatFails(v) \/ Watchdog(v)
           \/ (\E p \in Prices : FetchPage(v, p)) \/ FetchFails(v)
           \/ RecordBegin(v) \/ RecordLost(v) \/ RecordAborts(v) \/ Crash(v)
  <2>1. UNCHANGED jobVars
    BY <1>6 DEF HeartbeatLost, HeartbeatFails, Watchdog, FetchPage, FetchFails,
                RecordBegin, RecordLost, RecordAborts, Crash
  <2>2. PICK new : new.pc # "fetching" /\ worker' = [worker EXCEPT ![v] = new]
    <3>1. CASE StopWorking(v)
      BY <3>1 DEF StopWorking, IdleWorker
    <3>2. CASE FetchFails(v)
      BY <1>0, <3>2 DEF FetchFails, WorkerState
    <3>3. CASE RecordAborts(v)
      BY <1>0, <3>3 DEF RecordAborts, WorkerState
    <3>4. CASE RecordBegin(v)
      BY <1>0, <3>4 DEF RecordBegin, WorkerState
    <3>5. ASSUME NEW p \in Prices, FetchPage(v, p)
          PROVE  \E s : s.pc # "fetching" /\ worker' = [worker EXCEPT ![v] = s]
      <4> DEFINE t == target[worker[v].job]
                 r == [worker[v] EXCEPT !.pc = "fetched", !.price = p, !.at = fetchTime[t] + 1]
      <4>1. worker' = [worker EXCEPT ![v] = r]
        BY <1>0, <3>5 DEF FetchPage
      <4>2. r.pc = "fetched"
        BY <1>0 DEF WorkerState
      <4> HIDE DEF r
      <4> QED
        BY <4>1, <4>2
    <3>6. \/ StopWorking(v) \/ FetchFails(v) \/ RecordAborts(v) \/ RecordBegin(v)
          \/ \E p \in Prices : FetchPage(v, p)
      BY <1>6 DEF HeartbeatLost, HeartbeatFails, Watchdog, RecordLost, Crash
    <3> QED
      BY <3>1, <3>2, <3>3, <3>4, <3>5, <3>6
  <2>3. worker'[w] = worker[w]
    BY <1>0, <2>2
  <2> QED
    BY <2>1, <2>3, AheadStays DEF jobVars, RowStays
<1> QED
  BY <1>3, <1>4, <1>5, <1>6 DEF WorkStep

LEMMA AheadTick ==
  ASSUME IInv, LeaseAhead, PromptTimers, Tick, NEW w \in Workers, worker'[w].pc = "fetching"
  PROVE  Holder(w)' /\ lease'[worker'[w].job] = worker'[w].left + Margin
<1>0. worker \in [Workers -> WorkerState]
  BY DEF IInv, TypeOK
<1>1. worker[w].pc = "fetching"
  BY <1>0 DEF Tick
<1>2. /\ worker[w].job \in Jobs /\ Holder(w) /\ lease[worker[w].job] = worker[w].left + Margin
      /\ worker[w].left \in 0..Lease
  BY <1>0, <1>1 DEF LeaseAhead, IInv, TokensOK, Busy, WorkerState
\* the watchdog is not due, or it would run first
<1>3. worker[w].left > 0
  <2>1. ~TimerOverdue(w)
    BY DEF Tick
  <2>2. worker[w].left # 0
    BY <1>1, <2>1 DEF TimerOverdue
  <2> QED
    BY <1>2, <2>2, TimingAssumption
<1>4. /\ worker'[w].job = worker[w].job /\ worker'[w].token = worker[w].token
      /\ worker'[w].left = worker[w].left - 1
  <2>1. worker'[w] = [worker[w] EXCEPT !.left = Decrement(@, 0), !.beat = Decrement(@, 0)]
    BY <1>1 DEF Tick
  <2>2. Decrement(worker[w].left, 0) = worker[w].left - 1
    BY <1>2, <1>3, TimingAssumption DEF Decrement
  <2> QED
    BY <1>0, <2>1, <2>2 DEF WorkerState
<1>5. lease'[worker[w].job] = lease[worker[w].job] - 1 /\ UNCHANGED <<status, token>>
  <2>1. status[worker[w].job] = "running"
    BY <1>2 DEF Holder
  <2>2. lease'[worker[w].job] = Decrement(lease[worker[w].job], -1) /\ UNCHANGED <<status, token>>
    BY <1>2, <2>1 DEF Tick
  <2>3. lease[worker[w].job] > 0
    BY <1>2, <1>3, TimingAssumption
  <2> QED
    BY <1>2, <2>2, <2>3, TimingAssumption DEF Decrement
<1> QED
  BY <1>1, <1>2, <1>4, <1>5, TimingAssumption DEF Holder, Busy

LEMMA AheadStep == IInv /\ LeaseAhead /\ [Next]_vars => LeaseAhead'
<1> SUFFICES ASSUME IInv, LeaseAhead, [Next]_vars, PromptTimers,
                    NEW w \in Workers, worker'[w].pc = "fetching"
             PROVE  Holder(w)' /\ lease'[worker'[w].job] = worker'[w].left + Margin
  BY DEF LeaseAhead
<1>0. JobsTyped /\ worker \in [Workers -> WorkerState]
  BY DEF IInv, TypeOK
<1>1. CASE UNCHANGED <<status, token, lease, worker>>
  BY <1>1, AheadStays DEF RowStays
<1>2. ASSUME NEW c \in Clients, NEW j \in Jobs, InsertJob(c, j)
      PROVE  Holder(w)' /\ lease'[worker'[w].job] = worker'[w].left + Margin
  <2>1. worker' = worker
    BY <1>2 DEF InsertJob
  <2>2. status[worker[w].job] = "running" /\ worker[w].job \in Jobs
    BY <2>1 DEF LeaseAhead, Holder, IInv, TokensOK, Busy
  <2>3. RowStays(worker[w].job)
    BY <1>0, <1>2, <2>2 DEF InsertJob, NextId, JobsTyped, RowStays
  <2> QED
    BY <2>1, <2>3, AheadStays
<1>3. ASSUME NEW c \in Clients, EnqueueStep(c), ~ \E j \in Jobs : InsertJob(c, j)
      PROVE  UNCHANGED <<status, token, lease, worker>>
  BY <1>3 DEF EnqueueStep, RequestScrape, StartDue, DueAlreadyQueued, InsertConflict,
              ReselectFound, ReselectNothing, jobVars
<1>4. ASSUME NEW v \in Workers, WorkStep(v)
      PROVE  Holder(w)' /\ lease'[worker'[w].job] = worker'[w].left + Margin
  BY <1>4, AheadWork
<1>5. CASE Tick
  BY <1>5, AheadTick
<1> QED
  BY <1>1, <1>2, <1>3, <1>4, <1>5 DEF Next, SetActive, vars, jobVars

\* Where event loops run their timers when they are due, renewal and watchdog
\* (worker.py _renew_until_complete, _process_with_renewing_lease) keep a
\* second worker from fetching for the same row.
THEOREM Exclusive == Spec => []NoConcurrentFetch
<1>1. Init => LeaseAhead
  BY DEF Init, LeaseAhead, IdleWorker
<1>2. IInv /\ LeaseAhead => NoConcurrentFetch
  BY DEF IInv, TokensOK, LeaseAhead, NoConcurrentFetch, Holder, Busy
<1> QED
  BY <1>1, <1>2, AheadStep, Invariance, PTL DEF Spec

-----------------------------------------------------------------------------
(* Refinement of PriceLog.                                                 *)

LEMMA PricesOf ==
  ASSUME TargetsTyped, NEW t \in Targets
  PROVE  /\ PriceHistory[t] \in Seq(Prices)
         /\ Len(PriceHistory[t]) = Len(history[t])
         /\ DOMAIN PriceHistory[t] = 1..Len(history[t])
         /\ \A i \in 1..Len(history[t]) : PriceHistory[t][i] = history[t][i].price
<1> DEFINE h == history[t]
           n == Len(h)
<1>1. h \in Seq(Row) /\ n \in Nat /\ DOMAIN h = 1..n
  BY DEF TargetsTyped
<1>2. PriceHistory[t] = [i \in 1..n |-> h[i].price]
  BY <1>1 DEF PriceHistory
<1>3. \A i \in 1..n : h[i].price \in Prices
  <2>1. \A i \in 1..n : h[i] \in Row
    BY <1>1
  <2> QED
    BY <2>1 DEF Row
<1> HIDE DEF h, n
<1>4. [i \in 1..n |-> h[i].price] \in [1..n -> Prices]
  BY <1>3
<1>5. PriceHistory[t] \in Seq(Prices) /\ Len(PriceHistory[t]) = n
  BY <1>1, <1>2, <1>4
<1> QED
  BY <1>1, <1>2, <1>5 DEF h, n

\* The abstract last price is the target's current price.
LEMMA LastIsCurrent ==
  ASSUME IInv, NEW t \in Targets
  PROVE  Log!LastPrice(t) = current[t]
<1>0. TargetsTyped /\ Len(history[t]) \in Nat /\ history[t] \in Seq(Row)
  BY DEF IInv, TypeOK, TargetsTyped
<1>1. CASE history[t] = <<>>
  <2>1. PriceHistory[t] \in Seq(Prices) /\ Len(PriceHistory[t]) = 0
    BY <1>0, <1>1, PricesOf
  <2>2. PriceHistory[t] = <<>>
    BY <2>1
  <2> QED
    BY <1>1, <2>2 DEF Log!LastPrice, IInv, HistoryChain
<1>2. CASE history[t] # <<>>
  <2>1. Len(history[t]) \in 1..Len(history[t])
    BY <1>0, <1>2
  <2>2. PriceHistory[t] # <<>> /\ Len(PriceHistory[t]) = Len(history[t])
    <3>1. Len(PriceHistory[t]) # 0
      BY <1>0, <2>1, PricesOf
    <3> QED
      BY <1>0, <3>1, PricesOf
  <2>3. PriceHistory[t][Len(history[t])] = history[t][Len(history[t])].price
    BY <1>0, <2>1, PricesOf
  <2> QED
    BY <1>2, <2>2, <2>3 DEF Log!LastPrice, IInv, HistoryChain
<1> QED
  BY <1>1, <1>2

LEMMA InitLog == Init => Log!LogInit
<1> SUFFICES ASSUME Init PROVE Log!LogInit
  OBVIOUS
<1>1. PendingTargets = {}
  BY DEF Init, PendingTargets, ActiveJobs, Active
<1>2. ASSUME NEW t \in Targets PROVE [i \in DOMAIN history[t] |-> history[t][i].price] = <<>>
  <2>1. history[t] = <<>>
    BY DEF Init
  <2> QED
    BY <2>1
<1>3. PriceHistory = [t \in Targets |-> <<>>]
  BY <1>2 DEF PriceHistory
<1> QED
  BY <1>1, <1>3 DEF Log!LogInit

\* Nothing happens to the requests as long as the unfinished rows are the same.
LEMMA SamePending ==
  ASSUME UNCHANGED target, \A j \in Jobs : (status[j] \in Active) <=> (status'[j] \in Active)
  PROVE  UNCHANGED PendingTargets
BY DEF PendingTargets, ActiveJobs

\* A row leaves the queue: its target has no other.
LEMMA OneLess ==
  ASSUME IInv, NEW j \in Jobs, status[j] \in Active, NEW r \in Terminal, Finalize(j, r)
  PROVE  /\ target[j] \in PendingTargets
         /\ PendingTargets' = PendingTargets \ {target[j]}
<1>0. JobsTyped /\ target[j] \in Targets
  BY DEF IInv, TypeOK, JobsTyped, RowsOK, Active
<1>1. /\ UNCHANGED target /\ status'[j] \notin Active
      /\ \A i \in Jobs \ {j} : status'[i] = status[i]
  BY <1>0 DEF Finalize, JobsTyped, Terminal, Active
<1>2. \A i \in Jobs \ {j} : status[i] \in Active => target[i] # target[j]
  BY DEF IInv, OneActiveJob
<1> QED
  BY <1>0, <1>1, <1>2 DEF PendingTargets, ActiveJobs

LEMMA NextLog == IInv /\ [Next]_vars => [Log!LogNext]_(Log!logVars)
<1> SUFFICES ASSUME IInv, [Next]_vars PROVE Log!LogNext \/ UNCHANGED Log!logVars
  OBVIOUS
<1>0. JobsTyped /\ TargetsTyped /\ worker \in [Workers -> WorkerState]
  BY DEF IInv, TypeOK
<1>1. CASE UNCHANGED <<status, target, history>>
  BY <1>1, SamePending DEF PriceHistory, Log!logVars
<1>2. ASSUME NEW c \in Clients, EnqueueStep(c) PROVE Log!LogNext \/ UNCHANGED Log!logVars
  <2>1. ASSUME NEW j \in Jobs, InsertJob(c, j) PROVE Log!LogNext
    <3> DEFINE t == client[c].target
    <3>1. t \in Targets /\ t \notin PendingTargets /\ status[j] = "absent"
      BY <2>1 DEF InsertJob, NextId, PendingTargets, IInv, ClientsOK
    <3>2. /\ UNCHANGED history
          /\ status'[j] = "queued" /\ target'[j] = t
          /\ \A i \in Jobs \ {j} : status'[i] = status[i] /\ target'[i] = target[i]
      BY <1>0, <2>1 DEF InsertJob, FinishEnqueue, JobsTyped
    <3>3. PendingTargets' = PendingTargets \cup {t}
      BY <3>1, <3>2 DEF PendingTargets, ActiveJobs, Active
    <3>4. UNCHANGED PriceHistory
      BY <3>2 DEF PriceHistory
    <3> QED
      BY <3>1, <3>3, <3>4 DEF Log!LogNext, Log!Request
  <2>2. CASE ~ \E j \in Jobs : InsertJob(c, j)
    BY <1>1, <1>2, <2>2
    DEF EnqueueStep, RequestScrape, StartDue, DueAlreadyQueued, InsertConflict,
        ReselectFound, ReselectNothing, FinishEnqueue, jobVars, targetVars
  <2> QED
    BY <2>1, <2>2
<1>3. ASSUME NEW w \in Workers, WorkStep(w) PROVE Log!LogNext \/ UNCHANGED Log!logVars
  <2>1. CASE \E j \in Jobs : Claim(w, j)
    <3>1. UNCHANGED <<target, history>>
          /\ \A j \in Jobs : (status[j] \in Active) <=> (status'[j] \in Active)
      BY <1>0, <2>1 DEF Claim, Claimable, JobsTyped, targetVars, Active
    <3> QED
      BY <3>1, SamePending DEF PriceHistory, Log!logVars
  <2>2. CASE RecordCommit(w) \/ CloseCommit(w)
    <3> DEFINE j == worker[w].job
               t == target[j]
    <3>1. j \in Jobs /\ t \in Targets /\ status[j] \in Active /\ InTransaction(w)
      BY <2>2, OwnerRow DEF RecordCommit, CloseCommit, InTransaction, Active
    <3>2. CASE Reject(w) \/ CloseCommit(w)
      <4>1. PICK r \in Terminal : Finalize(j, r)
        BY <3>2 DEF Reject, CloseCommit, Terminal
      <4>2. UNCHANGED PriceHistory
        BY <3>2 DEF Reject, CloseCommit, targetVars, PriceHistory
      <4> QED
        BY <3>1, <4>1, <4>2, OneLess DEF Log!LogNext, Log!GiveUp
    <3>3. CASE RecordCommit(w) /\ Succeed(w)
      <4> DEFINE p == worker[w].price
                 r == [job |-> j, at |-> worker[w].at, price |-> p,
                       prev |-> PreviousPrice(t)]
      <4>1. p \in Prices /\ <<Log!LastPrice(t), p>> \in Plausible[t]
        <5>1. HasPage(w) /\ Busy(w) /\ Holder(w) /\ Accepted(w)
          BY <3>1, <3>3, OwnerRow DEF HasPage, RecordCommit, Succeed
        <5>2. p \in Prices /\ worker[w].prev = current[t]
          BY <5>1 DEF IInv, TokensOK, SnapshotsOK
        <5> QED
          BY <3>1, <5>1, <5>2, LastIsCurrent DEF Accepted
      <4>2. /\ t \in PendingTargets
            /\ PendingTargets' = PendingTargets \ {t}
        BY <3>1, <3>3, OneLess DEF Succeed, Terminal
      <4>3. PriceHistory' = [PriceHistory EXCEPT ![t] = Append(@, p)]
        <5>1. history'[t] = Append(history[t], r) /\ DOMAIN history' = Targets
              /\ \A s \in Targets \ {t} : history'[s] = history[s]
          BY <1>0, <3>1, <3>3 DEF Succeed, TargetsTyped
        <5>2. history[t] \in Seq(Row) /\ Len(history[t]) \in Nat
          BY <1>0, <3>1 DEF TargetsTyped
        <5> DEFINE n == Len(history[t])
        <5>3. /\ DOMAIN history'[t] = 1..(n + 1)
              /\ history'[t][n + 1] = r
              /\ \A i \in 1..n : history'[t][i] = history[t][i]
          <6> HIDE DEF r, t
          <6> QED
            BY <5>1, <5>2
        <5>4. PriceHistory'[t] = [i \in 1..(n + 1) |-> history'[t][i].price]
          BY <3>1, <5>3 DEF PriceHistory
        <5>5. Append(PriceHistory[t], p) = [i \in 1..(n + 1) |-> history'[t][i].price]
          <6>1. \A i \in 1..n : history'[t][i].price = PriceHistory[t][i]
            BY <1>0, <3>1, <5>3, PricesOf
          <6>2. history'[t][n + 1].price = p
            BY <5>3
          <6>3. PriceHistory[t] \in Seq(Prices) /\ Len(PriceHistory[t]) = n
            BY <1>0, <3>1, PricesOf
          <6> HIDE DEF n, p, t
          <6>4. [i \in 1..(n + 1) |-> history'[t][i].price] \in Seq(Prices)
            <7>1. n \in Nat
              BY <5>2 DEF n
            <7>2. \A i \in 1..(n + 1) : history'[t][i].price \in Prices
              BY <4>1, <6>1, <6>2, <6>3, <7>1
            <7> QED
              BY <7>1, <7>2
          <6> DEFINE g == [i \in 1..(n + 1) |-> history'[t][i].price]
                     a == Append(PriceHistory[t], p)
          <6>5. n \in Nat
            BY <5>2 DEF n
          <6>6. /\ a \in Seq(Prices) /\ Len(a) = n + 1
                /\ \A i \in 1..n : a[i] = PriceHistory[t][i]
                /\ a[n + 1] = p
            <7> HIDE DEF a
            <7>1. a = Append(PriceHistory[t], p)
              BY DEF a
            <7> QED
              BY <4>1, <6>3, <7>1, AppendProperties
          <6>7. Len(g) = n + 1 /\ \A i \in 1..(n + 1) : g[i] = history'[t][i].price
            BY <6>4, <6>5
          <6> HIDE DEF g, a
          <6>8. \A i \in 1..(n + 1) : a[i] = g[i]
            <7>1. \A i \in 1..(n + 1) : i \in 1..n \/ i = n + 1
              BY <6>5
            <7> QED
              BY <6>1, <6>2, <6>6, <6>7, <7>1
          <6>9. g \in Seq(Prices)
            BY <6>4 DEF g
          <6>10. a = g
            BY <6>6, <6>7, <6>8, <6>9, SeqEqual
          <6> QED
            BY <6>10 DEF a, g
        <5>6. \A s \in Targets \ {t} : PriceHistory'[s] = PriceHistory[s]
          BY <5>1 DEF PriceHistory
        <5>7. /\ PriceHistory = [s \in Targets |-> PriceHistory[s]]
              /\ PriceHistory' = [s \in Targets |-> PriceHistory'[s]]
          BY DEF PriceHistory
        <5> HIDE DEF t
        <5> QED
          BY <3>1, <5>4, <5>5, <5>6, <5>7
      <4> QED
        BY <3>1, <4>1, <4>2, <4>3 DEF Log!LogNext, Log!Observe
    <3> QED
      BY <2>2, <3>2, <3>3 DEF RecordCommit
  <2>3. CASE UNCHANGED <<status, target, history>>
    BY <1>1, <2>3
  <2> QED
    BY <1>3, <2>1, <2>2, <2>3
    DEF WorkStep, Heartbeat, HeartbeatLost, HeartbeatFails, Watchdog, FetchPage, FetchFails,
        RecordBegin, RecordLost, RecordAborts, Crash, jobVars, targetVars
<1> QED
  BY <1>1, <1>2, <1>3 DEF Next, SetActive, Tick, vars, jobVars, targetVars

\* Seen through its unfinished rows and its prices, the queue is a PriceLog:
\* every request ends in at most one price, judged against the last one.
THEOREM Refinement == Spec => ImplementsPriceLog
<1>1. Spec => []IInv
  BY Invariance
<1>2. IInv /\ [Next]_vars => [Log!LogNext]_(Log!logVars)
  BY NextLog
<1>3. Init => Log!LogInit
  BY InitLog
<1> QED
  BY <1>1, <1>2, <1>3, PTL DEF Spec, ImplementsPriceLog, Log!LogSpec
=============================================================================
