---------------------------- MODULE ScrapeQueue ----------------------------
(***************************************************************************)
(* The durable scrape queue of price-monitor: the scrape_results rows and  *)
(* the fields of competitor_products and price_history that the scheduler, *)
(* the API, the scrape workers and the result recorder share through the   *)
(* database (services/queue.py, services/worker.py, services/results.py).  *)
(*                                                                         *)
(* A row is created queued, claimed under a lease by a worker, possibly    *)
(* reclaimed by another worker when the lease has run out, and finalised   *)
(* by the holder of the current lease token, which also appends the        *)
(* accepted price to the target's history.  Workers are slow, crash, lose  *)
(* the database or the acknowledgement of a commit.                        *)
(*                                                                         *)
(* Time.  Every comparison in the code is between a stored deadline and    *)
(* "now" on one UTC clock, so a deadline is kept as the time left to it:   *)
(* lease[j] is lease_expires_at - now, cut off at -1 (already expired);    *)
(* due[t] is next_scrape_at - now, cut off at 0 (due).                     *)
(*                                                                         *)
(* The part of the finalising transaction that writes scraper_health and   *)
(* repair_attempts is the subject of another module.                       *)
(***************************************************************************)
EXTENDS Integers, Sequences

CONSTANTS
  Targets,      \* the CompetitorProduct rows
  Workers,      \* the scrape worker processes
  Clients,      \* the processes that enqueue: schedulers and API requests
  Prices,       \* the prices a page can show
  Plausible,    \* of each target: pairs <<previous price, price>> the validator accepts
  NoPrice,      \* current_price IS NULL
  NoTarget,     \* a row id that is not used yet
  MaxJobs,      \* bound: how many scrape_results rows can be created
  MaxFaults,    \* bound: how many faults (see below) can happen
  Lease,        \* worker_lease_seconds, in clock units
  Margin,       \* how long before the expiry the local watchdog fires
  RenewEvery,   \* the heartbeat's sleep
  Interval,     \* schedule_interval_seconds
  PromptTimers  \* TRUE: the event loop never runs a due timer late

ASSUME PricesAssumption ==
  /\ NoPrice \notin Prices
  /\ Plausible \in [Targets -> SUBSET ((Prices \cup {NoPrice}) \X Prices)]

ASSUME TargetsAssumption == NoTarget \notin Targets

ASSUME TimingAssumption ==
  /\ MaxJobs \in Nat /\ MaxFaults \in Nat /\ Interval \in Nat \ {0}
  /\ Margin \in Nat \ {0} /\ RenewEvery \in Nat \ {0} /\ Lease \in Nat
  /\ RenewEvery + Margin < Lease  \* Lease / 3 and Lease / 6 in the code
  /\ PromptTimers \in BOOLEAN

VARIABLES
  active,    \* target.is_active (and its product's and competitor's)
  due,       \* time left until target.next_scrape_at
  current,   \* target.current_price
  history,   \* the price_history rows of each target, in commit order
  fetchTime, \* the time of the latest page fetch of each target
  status,    \* ScrapeResult.status
  target,    \* ScrapeResult.competitor_product_id
  attempts,  \* ScrapeResult.attempt_count
  token,     \* ScrapeResult.lease_token, 0 for NULL
  lease,     \* time left until ScrapeResult.lease_expires_at, 0 for NULL
  client,    \* the enqueue_target call each client is executing
  worker,    \* the claimed scrape each worker process is executing
  faults     \* faults that have happened, for the bound MaxFaults

jobVars == <<status, target, attempts, token, lease>>
targetVars == <<active, due, current, history, fetchTime>>
vars == <<targetVars, jobVars, client, worker, faults>>

Jobs == 1..MaxJobs
Terminal == {"succeeded", "invalid", "failed"}  \* "failed" also for timed_out
Active == {"queued", "running"}
Statuses == {"absent"} \cup Active \cup Terminal

Row == [job : Jobs, at : Nat, price : Prices, prev : Prices \cup {NoPrice}]

IdleClient == [pc |-> "idle", target |-> NoTarget, due |-> FALSE]

IdleWorker == [pc |-> "idle", job |-> 0, token |-> 0, prev |-> NoPrice,
               price |-> NoPrice, at |-> 0, left |-> 0, beat |-> 0]

ClientState == [pc : {"idle", "insert", "reselect"},
                target : Targets \cup {NoTarget}, due : BOOLEAN]

WorkerState == [pc : {"idle", "fetching", "fetched", "failing", "recording", "closing"},
                job : Nat, token : Nat, prev : Prices \cup {NoPrice},
                price : Prices \cup {NoPrice}, at : Nat,
                left : 0..Lease, beat : 0..RenewEvery]

TargetsTyped ==
  /\ active \in [Targets -> BOOLEAN]
  /\ due \in [Targets -> 0..Interval]
  /\ current \in [Targets -> Prices \cup {NoPrice}]
  /\ history \in [Targets -> Seq(Row)]
  /\ fetchTime \in [Targets -> Nat]

\* The lease columns are set exactly while the row is running.
LeasesTyped ==
  \A j \in Jobs : IF status[j] = "running" THEN token[j] # 0
                  ELSE token[j] = 0 /\ lease[j] = 0

JobsTyped ==
  /\ status \in [Jobs -> Statuses]
  /\ target \in [Jobs -> Targets \cup {NoTarget}]
  /\ attempts \in [Jobs -> Nat]
  /\ token \in [Jobs -> Nat]
  /\ lease \in [Jobs -> -1..Lease]
  /\ LeasesTyped

\* The types of the variables; and no row keeps a lease, or a token somebody
\* could still write under, once it is finished, nor runs without one.
TypeOK ==
  /\ TargetsTyped
  /\ JobsTyped
  /\ client \in [Clients -> ClientState]
  /\ worker \in [Workers -> WorkerState]
  /\ faults \in 0..MaxFaults

-----------------------------------------------------------------------------
(* Helpers.                                                                *)

ActiveJobs(t) == {j \in Jobs : status[j] \in Active /\ target[j] = t}

\* A finalising transaction holds its scrape_results row and the target row
\* FOR UPDATE from its first statement to its commit.
RowLocked(j) ==
  \E w \in Workers : worker[w].pc \in {"recording", "closing"} /\ worker[w].job = j

\* enqueue_due holds its target row FOR UPDATE until it commits.
DueLocked(t) ==
  \E c \in Clients : client[c].due /\ client[c].pc # "idle" /\ client[c].target = t

TargetLocked(t) == DueLocked(t) \/ \E j \in Jobs : target[j] = t /\ RowLocked(j)

\* Rows are numbered in the order of their queued_at.
NextId(j) == status[j] = "absent" /\ \A i \in Jobs : status[i] = "absent" => j <= i

\* A new uuid4; the attempt number stands for it.
NewToken(j) == attempts[j] + 1

\* A fault is bounded by MaxFaults: crashes, database errors, lost commit
\* acknowledgements, and whole clock units spent inside synchronous code.
Fault == faults < MaxFaults /\ faults' = faults + 1

Decrement(n, floor) == IF n > floor THEN n - 1 ELSE floor

Init ==
  /\ active = [t \in Targets |-> TRUE]
  /\ due = [t \in Targets |-> 0]
  /\ current = [t \in Targets |-> NoPrice]
  /\ history = [t \in Targets |-> <<>>]
  /\ fetchTime = [t \in Targets |-> 0]
  /\ status = [j \in Jobs |-> "absent"]
  /\ target = [j \in Jobs |-> NoTarget]
  /\ attempts = [j \in Jobs |-> 0]
  /\ token = [j \in Jobs |-> 0]
  /\ lease = [j \in Jobs |-> 0]
  /\ client = [c \in Clients |-> IdleClient]
  /\ worker = [w \in Workers |-> IdleWorker]
  /\ faults = 0

-----------------------------------------------------------------------------
(* Enqueueing.  The three statements of enqueue_target read the committed  *)
(* state one after the other, so another transaction can come in between.  *)
(* enqueue_due is taken with limit = 1: one target in each transaction.    *)

\* PATCH of a target's is_active.
SetActive(t) ==
  /\ ~TargetLocked(t)
  /\ active' = [active EXCEPT ![t] = ~@]
  /\ UNCHANGED <<due, current, history, fetchTime, jobVars, client, worker, faults>>

\* POST .../scrapes: enqueue_target finds no unfinished row.  (When it finds
\* one it returns it, and no state changes.)
RequestScrape(c, t) ==
  /\ client[c] = IdleClient
  /\ active[t]
  /\ ActiveJobs(t) = {}
  /\ client' = [client EXCEPT ![c] = [pc |-> "insert", target |-> t, due |-> FALSE]]
  /\ UNCHANGED <<targetVars, jobVars, worker, faults>>

\* enqueue_due locks a due target and finds no unfinished row.
StartDue(c, t) ==
  /\ client[c] = IdleClient
  /\ active[t] /\ due[t] = 0 /\ ~TargetLocked(t)
  /\ ActiveJobs(t) = {}
  /\ client' = [client EXCEPT ![c] = [pc |-> "insert", target |-> t, due |-> TRUE]]
  /\ UNCHANGED <<targetVars, jobVars, worker, faults>>

\* enqueue_due meets a target whose row is still unfinished: the existing row
\* is returned and the next run is scheduled all the same.
DueAlreadyQueued(c, t) ==
  /\ client[c] = IdleClient
  /\ active[t] /\ due[t] = 0 /\ ~TargetLocked(t)
  /\ ActiveJobs(t) # {}
  /\ due' = [due EXCEPT ![t] = Interval]
  /\ UNCHANGED <<active, current, history, fetchTime, jobVars, client, worker, faults>>

\* What the end of the call writes besides the row: enqueue_due moves
\* next_scrape_at on, the API call does not.
FinishEnqueue(c) ==
  /\ client' = [client EXCEPT ![c] = IdleClient]
  /\ due' = IF client[c].due THEN [due EXCEPT ![client[c].target] = Interval] ELSE due
  /\ UNCHANGED <<active, current, history, fetchTime>>

\* Mutant of InsertJob: without the partial unique index.
InsertJobUnchecked(c, j) ==
  /\ client[c].pc = "insert"
  /\ client[c].due \/ ~TargetLocked(client[c].target)
  /\ NextId(j)
  /\ status' = [status EXCEPT ![j] = "queued"]
  /\ target' = [target EXCEPT ![j] = client[c].target]
  /\ FinishEnqueue(c)
  /\ UNCHANGED <<attempts, token, lease, worker, faults>>

\* The INSERT in its savepoint.  The foreign key makes it wait for a
\* transaction that holds the target row.
InsertJob(c, j) ==
  /\ client[c].pc = "insert"
  /\ client[c].due \/ ~TargetLocked(client[c].target)
  /\ ActiveJobs(client[c].target) = {}
  /\ NextId(j)
  /\ status' = [status EXCEPT ![j] = "queued"]
  /\ target' = [target EXCEPT ![j] = client[c].target]
  /\ FinishEnqueue(c)
  /\ UNCHANGED <<attempts, token, lease, worker, faults>>

\* The partial unique index refuses the row: IntegrityError.
InsertConflict(c) ==
  /\ client[c].pc = "insert"
  /\ ActiveJobs(client[c].target) # {}
  /\ client' = [client EXCEPT ![c].pc = "reselect"]
  /\ UNCHANGED <<targetVars, jobVars, worker, faults>>

\* The winner's row is returned ...
ReselectFound(c) ==
  /\ client[c].pc = "reselect"
  /\ ActiveJobs(client[c].target) # {}
  /\ FinishEnqueue(c)
  /\ UNCHANGED <<jobVars, worker, faults>>

\* ... unless it was finalised meanwhile: the error is raised and the whole
\* transaction rolled back.
ReselectNothing(c) ==
  /\ client[c].pc = "reselect"
  /\ ActiveJobs(client[c].target) = {}
  /\ client' = [client EXCEPT ![c] = IdleClient]
  /\ UNCHANGED <<targetVars, jobVars, worker, faults>>

-----------------------------------------------------------------------------
(* Claiming and renewing leases.                                           *)

\* Mutants of Claimable: abandoned rows are never taken over; running rows are
\* taken over without a look at their expiry.
ClaimableQueuedOnly(j) == status[j] = "queued" /\ ~RowLocked(j)
ClaimableRunning(j) == status[j] \in Active /\ ~RowLocked(j)

Claimable(j) ==
  /\ \/ status[j] = "queued"
     \/ status[j] = "running" /\ lease[j] < 0
  /\ ~RowLocked(j)

\* claim_next takes the oldest claimable row, SKIP LOCKED, and snapshots the
\* target's current price for the validator.  It also writes the target's
\* last_attempt_at, so it waits for an enqueue_due that holds the target.
Claim(w, j) ==
  /\ worker[w].pc = "idle"
  /\ Claimable(j)
  /\ \A i \in Jobs : Claimable(i) => j <= i
  /\ ~DueLocked(target[j])
  /\ status' = [status EXCEPT ![j] = "running"]
  /\ attempts' = [attempts EXCEPT ![j] = @ + 1]
  /\ token' = [token EXCEPT ![j] = NewToken(j)]
  /\ lease' = [lease EXCEPT ![j] = Lease]
  /\ worker' = [worker EXCEPT ![w] =
       [pc |-> "fetching", job |-> j, token |-> NewToken(j),
        prev |-> current[target[j]], price |-> NoPrice, at |-> 0,
        left |-> Lease - Margin, beat |-> RenewEvery]]
  /\ UNCHANGED <<targetVars, target, client, faults>>

\* Mutants of HoldsLiveLease: any worker's lease on the row will do; the worker
\* trusts its own watchdog instead of the row.
AnyLiveLease(w) ==
  LET j == worker[w].job IN status[j] = "running" /\ lease[j] > 0
TrustedWatchdog(w) == worker[w].left > 0

\* renew_lease's predicate: the row is running, under this token, unexpired.
HoldsLiveLease(w) ==
  LET j == worker[w].job
  IN  status[j] = "running" /\ token[j] = worker[w].token /\ lease[j] > 0

\* The heartbeat wakes up, renews and moves the watchdog forward.
Heartbeat(w) ==
  /\ worker[w].pc = "fetching" /\ worker[w].beat = 0
  /\ ~RowLocked(worker[w].job)
  /\ HoldsLiveLease(w)
  /\ lease' = [lease EXCEPT ![worker[w].job] = Lease]
  /\ worker' = [worker EXCEPT ![w].left = Lease - Margin, ![w].beat = RenewEvery]
  /\ UNCHANGED <<targetVars, status, target, attempts, token, client, faults>>

StopWorking(w) == worker' = [worker EXCEPT ![w] = IdleWorker]

\* The heartbeat finds that the lease is gone: LeaseLostError.
HeartbeatLost(w) ==
  /\ worker[w].pc = "fetching" /\ worker[w].beat = 0
  /\ ~RowLocked(worker[w].job)
  /\ ~HoldsLiveLease(w)
  /\ StopWorking(w)
  /\ UNCHANGED <<targetVars, jobVars, client, faults>>

\* The heartbeat's transaction fails: the worker stops while still the owner.
HeartbeatFails(w) ==
  /\ worker[w].pc = "fetching" /\ worker[w].beat = 0
  /\ Fault
  /\ StopWorking(w)
  /\ UNCHANGED <<targetVars, jobVars, client>>

\* The watchdog cancels the fetch shortly before the lease it knows of ends.
Watchdog(w) ==
  /\ worker[w].pc = "fetching" /\ worker[w].left = 0
  /\ StopWorking(w)
  /\ UNCHANGED <<targetVars, jobVars, client, faults>>

-----------------------------------------------------------------------------
(* Scraping.  From the moment the page is there, _process runs to its end  *)
(* without an await: neither heartbeat nor watchdog can run in between.    *)

\* A page arrives; its fetched_at is later than every earlier fetch of the
\* target, and the adapter extracts price p from it.
FetchPage(w, p) ==
  LET t == target[worker[w].job]
  IN  /\ worker[w].pc = "fetching"
      /\ fetchTime' = [fetchTime EXCEPT ![t] = @ + 1]
      /\ worker' = [worker EXCEPT ![w].pc = "fetched", ![w].price = p,
                                  ![w].at = fetchTime[t] + 1]
      /\ UNCHANGED <<active, due, current, history, jobVars, client, faults>>

\* A FetchError, an extraction error or any other exception.
FetchFails(w) ==
  /\ worker[w].pc = "fetching"
  /\ worker' = [worker EXCEPT ![w].pc = "failing"]
  /\ UNCHANGED <<targetVars, jobVars, client, faults>>

\* The finalising transaction starts with _require_live_lease, which locks
\* the row; its renewal is never seen outside the transaction.
RecordBegin(w) ==
  /\ worker[w].pc \in {"fetched", "failing"}
  /\ ~RowLocked(worker[w].job)
  /\ ~DueLocked(target[worker[w].job])
  /\ HoldsLiveLease(w)
  /\ worker' = [worker EXCEPT ![w].pc = IF @ = "fetched" THEN "recording" ELSE "closing"]
  /\ UNCHANGED <<targetVars, jobVars, client, faults>>

\* The lease is gone: the observation is dropped, the row stays as it is.
RecordLost(w) ==
  /\ worker[w].pc \in {"fetched", "failing"}
  /\ ~RowLocked(worker[w].job)
  /\ ~HoldsLiveLease(w)
  /\ StopWorking(w)
  /\ UNCHANGED <<targetVars, jobVars, client, faults>>

\* Mutant of Finalize: the lease is released, the status forgotten.
FinalizeLeaseOnly(j, result) ==
  /\ token' = [token EXCEPT ![j] = 0]
  /\ lease' = [lease EXCEPT ![j] = 0]
  /\ UNCHANGED <<status, target, attempts>>

\* Mutant of Finalize: the status is written, the lease columns forgotten.
FinalizeStatusOnly(j, result) ==
  /\ status' = [status EXCEPT ![j] = result]
  /\ UNCHANGED <<target, attempts, token, lease>>

\* The transaction's effect on the row.
Finalize(j, result) ==
  /\ status' = [status EXCEPT ![j] = result]
  /\ token' = [token EXCEPT ![j] = 0]
  /\ lease' = [lease EXCEPT ![j] = 0]
  /\ UNCHANGED <<target, attempts>>

\* Mutant of Latest: the order of the query reversed.
Oldest(t) ==
  CHOOSE i \in DOMAIN history[t] :
    \A k \in DOMAIN history[t] : history[t][i].at <= history[t][k].at

\* The target's price_history row with the greatest observed_at.
Latest(t) ==
  CHOOSE i \in DOMAIN history[t] :
    \A k \in DOMAIN history[t] : history[t][k].at <= history[t][i].at

PreviousPrice(t) == IF history[t] = <<>> THEN NoPrice ELSE history[t][Latest(t)].price

\* The validator compares the price with the snapshot taken at claim time.
Accepted(w) ==
  <<worker[w].prev, worker[w].price>> \in Plausible[target[worker[w].job]]

\* record_success.
Succeed(w) ==
  LET j == worker[w].job
      t == target[j]
  IN  /\ Accepted(w)
      /\ history' = [history EXCEPT ![t] =
           Append(@, [job |-> j, at |-> worker[w].at, price |-> worker[w].price,
                      prev |-> PreviousPrice(t)])]
      /\ current' = [current EXCEPT ![t] = worker[w].price]
      /\ Finalize(j, "succeeded")
      /\ UNCHANGED <<active, due, fetchTime>>

\* record_invalid.
Reject(w) ==
  /\ ~Accepted(w)
  /\ Finalize(worker[w].job, "invalid")
  /\ UNCHANGED targetVars

\* The commit is applied and acknowledged, or its acknowledgement is lost:
\* then the exception handler goes on to record a failure.
RecordCommit(w) ==
  /\ worker[w].pc = "recording"
  /\ Succeed(w) \/ Reject(w)
  /\ \/ StopWorking(w) /\ UNCHANGED faults
     \/ Fault /\ worker' = [worker EXCEPT ![w].pc = "failing"]
  /\ UNCHANGED client

\* The transaction fails and is rolled back; the handler records a failure.
RecordAborts(w) ==
  /\ worker[w].pc = "recording"
  /\ Fault
  /\ worker' = [worker EXCEPT ![w].pc = "failing"]
  /\ UNCHANGED <<targetVars, jobVars, client>>

\* record_failure.
CloseCommit(w) ==
  /\ worker[w].pc = "closing"
  /\ Finalize(worker[w].job, "failed")
  /\ StopWorking(w)
  /\ UNCHANGED <<targetVars, client, faults>>

\* The process dies, and with it its open transaction; it is started again.
Crash(w) ==
  /\ worker[w].pc # "idle"
  /\ Fault
  /\ StopWorking(w)
  /\ UNCHANGED <<targetVars, jobVars, client>>

-----------------------------------------------------------------------------
(* The clock.                                                              *)

Synchronous(w) == worker[w].pc \in {"fetched", "failing", "recording", "closing"}

TimerOverdue(w) ==
  worker[w].pc = "fetching" /\ (worker[w].left = 0 \/ worker[w].beat = 0)

\* One unit of time passes.  A timer that is due runs first when the event
\* loop is prompt; time that passes while a worker is late is a fault.
Tick ==
  /\ PromptTimers => \A w \in Workers : ~TimerOverdue(w)
  /\ IF \E w \in Workers : Synchronous(w) \/ TimerOverdue(w)
       THEN Fault ELSE UNCHANGED faults
  /\ due' = [t \in Targets |-> Decrement(due[t], 0)]
  /\ lease' = [j \in Jobs |->
       IF status[j] = "running" THEN Decrement(lease[j], -1) ELSE lease[j]]
  /\ worker' = [w \in Workers |->
       IF worker[w].pc = "fetching"
         THEN [worker[w] EXCEPT !.left = Decrement(@, 0), !.beat = Decrement(@, 0)]
         ELSE worker[w]]
  /\ UNCHANGED <<active, current, history, fetchTime, status, target, attempts,
                 token, client>>

-----------------------------------------------------------------------------
EnqueueStep(c) ==
  \/ \E t \in Targets : \/ RequestScrape(c, t)
                        \/ StartDue(c, t)
                        \/ DueAlreadyQueued(c, t)
  \/ \E j \in Jobs : InsertJob(c, j)
  \/ InsertConflict(c)
  \/ ReselectFound(c)
  \/ ReselectNothing(c)

WorkStep(w) ==
  \/ \E j \in Jobs : Claim(w, j)
  \/ Heartbeat(w) \/ HeartbeatLost(w) \/ HeartbeatFails(w) \/ Watchdog(w)
  \/ \E p \in Prices : FetchPage(w, p)
  \/ FetchFails(w)
  \/ RecordBegin(w) \/ RecordLost(w)
  \/ RecordCommit(w) \/ RecordAborts(w) \/ CloseCommit(w)
  \/ Crash(w)

Next ==
  \/ \E t \in Targets : SetActive(t)
  \/ \E c \in Clients : EnqueueStep(c)
  \/ \E w \in Workers : WorkStep(w)
  \/ Tick

Spec == Init /\ [][Next]_vars

(***************************************************************************)
(* Fairness.  The worker loop and the scheduler loop poll for ever, the    *)
(* fetchers' timeouts end every fetch, the database answers, and time      *)
(* passes.  Nobody is bound to deactivate a target, to press the button in *)
(* the user interface, or to fail.                                         *)
(***************************************************************************)
Fairness ==
  /\ WF_vars(Tick)
  /\ \A w \in Workers :
       /\ WF_vars(\E j \in Jobs : Claim(w, j))
       /\ WF_vars(Heartbeat(w) \/ HeartbeatLost(w))
       /\ WF_vars((\E p \in Prices : FetchPage(w, p)) \/ FetchFails(w))
       /\ WF_vars(RecordBegin(w) \/ RecordLost(w))
       /\ WF_vars(RecordCommit(w) \/ CloseCommit(w))
  /\ \A c \in Clients :
       /\ WF_vars((\E j \in Jobs : InsertJob(c, j)) \/ InsertConflict(c)
                    \/ ReselectFound(c) \/ ReselectNothing(c))
       /\ \A t \in Targets : WF_vars(StartDue(c, t) \/ DueAlreadyQueued(c, t))

FairSpec == Spec /\ Fairness

-----------------------------------------------------------------------------
(* Properties.                                                             *)

\* A target never has two unfinished rows, whoever enqueues concurrently.
OneActiveJob ==
  \A i, j \in Jobs :
    status[i] \in Active /\ status[j] \in Active /\ target[i] = target[j] => i = j

\* Each row of the history continues the one committed before it, and the
\* target's cached price is the last one: no observation is lost or
\* overwritten by a delayed worker (price_history.previous_price comes from
\* the row with the latest observed_at, current_price from the recorder).
HistoryChain ==
  \A t \in Targets :
    /\ \A i \in DOMAIN history[t] :
         history[t][i].prev = IF i = 1 THEN NoPrice ELSE history[t][i - 1].price
    /\ current[t] = IF history[t] = <<>> THEN NoPrice
                    ELSE history[t][Len(history[t])].price

\* Every recorded change was judged by the validator against the price it
\* really replaces, although the validator only sees the price that was
\* current when the job was claimed.
ChangesValidated ==
  \A t \in Targets : \A i \in DOMAIN history[t] :
    <<history[t][i].prev, history[t][i].price>> \in Plausible[t]

\* A row has a price_history row exactly when it succeeded, and only one.
ObservedOnce ==
  /\ \A t \in Targets : \A i \in DOMAIN history[t] :
       /\ status[history[t][i].job] = "succeeded"
       /\ target[history[t][i].job] = t
       /\ \A k \in DOMAIN history[t] : history[t][k].job = history[t][i].job => k = i
  /\ \A j \in Jobs : status[j] = "succeeded" =>
       \E i \in DOMAIN history[target[j]] : history[target[j]][i].job = j

\* No two workers run the network part of one job at the same time, as long
\* as the event loops run their timers when they are due.
NoConcurrentFetch ==
  PromptTimers =>
    \A v, w \in Workers :
      worker[v].pc = "fetching" /\ worker[w].pc = "fetching"
        /\ worker[v].job = worker[w].job => v = w

\* A finished row is never touched again, and a running one ends only in a
\* transaction of the worker that claimed it last: a worker that lost its
\* lease, however late it wakes up, changes nothing.
OwnerFinishes ==
  \A j \in Jobs :
    /\ status[j] \in Terminal =>
         /\ status'[j] = status[j] /\ attempts'[j] = attempts[j]
         /\ token'[j] = token[j] /\ lease'[j] = lease[j]
    /\ status[j] = "running" /\ status'[j] \in Terminal =>
         \E w \in Workers :
           /\ worker[w].job = j /\ worker[w].token = attempts[j]
           /\ worker'[w] # worker[w]

FinishedByOwner == [][OwnerFinishes]_vars

\* Every queued row is finished, whatever its workers suffer.
JobsFinish == \A j \in Jobs : status[j] = "queued" ~> status[j] \in Terminal

-----------------------------------------------------------------------------
(***************************************************************************)
(* The inductive invariant behind the safety properties.                   *)
(***************************************************************************)
Busy(w) == worker[w].pc # "idle"

HasPage(w) == worker[w].pc \in {"fetched", "recording"}

InTransaction(w) == worker[w].pc \in {"recording", "closing"}

\* Worker w has the current token of an unfinished row.
Holder(w) ==
  /\ Busy(w)
  /\ status[worker[w].job] = "running"
  /\ token[worker[w].job] = worker[w].token

RowsOK ==
  \A j \in Jobs :
    /\ status[j] = "absent" <=> target[j] = NoTarget
    /\ status[j] = "running" => token[j] = attempts[j] /\ attempts[j] > 0

ClientsOK == \A c \in Clients : client[c].pc # "idle" => client[c].target \in Targets

\* A token is given to one worker, and a transaction runs only under the
\* current token.
TokensOK ==
  /\ \A w \in Workers : Busy(w) =>
       /\ worker[w].job \in Jobs
       /\ status[worker[w].job] \in {"running"} \cup Terminal
       /\ worker[w].token \in 1..attempts[worker[w].job]
       /\ HasPage(w) => worker[w].price \in Prices
       /\ InTransaction(w) => Holder(w)
  /\ \A v, w \in Workers :
       Busy(v) /\ Busy(w) /\ worker[v].job = worker[w].job
         /\ worker[v].token = worker[w].token => v = w

\* Nobody changes the price of a target behind the back of the token's holder.
SnapshotsOK ==
  \A w \in Workers : Holder(w) => worker[w].prev = current[target[worker[w].job]]

\* A page in the holder's hands is younger than everything in the history.
TimesOK ==
  /\ \A t \in Targets :
       /\ \A i \in DOMAIN history[t] : history[t][i].at <= fetchTime[t]
       /\ \A i, k \in DOMAIN history[t] : i < k => history[t][i].at < history[t][k].at
  /\ \A w \in Workers : HasPage(w) /\ Holder(w) =>
       LET t == target[worker[w].job]
       IN  /\ worker[w].at <= fetchTime[t]
           /\ \A i \in DOMAIN history[t] : history[t][i].at < worker[w].at

IInv ==
  /\ TypeOK
  /\ RowsOK /\ ClientsOK /\ OneActiveJob
  /\ TokensOK /\ SnapshotsOK /\ TimesOK
  /\ HistoryChain /\ ChangesValidated /\ ObservedOnce

\* Behind NoConcurrentFetch: a worker that fetches has the current token, and
\* its watchdog fires exactly Margin before the lease that the row shows.
LeaseAhead ==
  PromptTimers =>
    \A w \in Workers : worker[w].pc = "fetching" =>
      Holder(w) /\ lease[worker[w].job] = worker[w].left + Margin

-----------------------------------------------------------------------------
\* Through leases, retries and crashes the system is a PriceLog: the rows of a
\* target are one pending request after the other, and its history is the
\* log of their outcomes.
PendingTargets == {t \in Targets : ActiveJobs(t) # {}}

PriceHistory == [t \in Targets |-> [i \in DOMAIN history[t] |-> history[t][i].price]]

Log == INSTANCE PriceLog WITH pending <- PendingTargets, log <- PriceHistory

ImplementsPriceLog == Log!LogSpec
=============================================================================
