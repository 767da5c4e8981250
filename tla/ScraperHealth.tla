----------------------------- MODULE ScraperHealth -----------------------------
(***************************************************************************)
(* The health row of one competitor and the repairs it calls for: the part *)
(* of the finalising transaction of services/results.py that writes        *)
(* scraper_health and repair_attempts, next to the transactions of         *)
(* services/repair_coordinator.py that write the same rows.                *)
(*                                                                         *)
(* The health row is read without a lock, changed in memory and written    *)
(* back when the session is flushed.  The flush writes only the columns    *)
(* whose value differs from the one that was read, and it is the UPDATE    *)
(* that takes the lock of the row, which the transaction then keeps until  *)
(* it commits.  READ COMMITTED: each statement sees what is committed when *)
(* it starts.                                                              *)
(*                                                                         *)
(* Abstracted: consecutive_repairable_failures is only compared with the   *)
(* threshold, so it is cut off there; recent_failure_count and the last_*  *)
(* columns are shown and never read, and left out.                         *)
(***************************************************************************)
EXTENDS Integers, FiniteSets

CONSTANTS
  Targets,      \* the active targets of the competitor
  Workers,      \* scrape workers
  Actors,       \* repair workers and operators at the CLI
  Pages,        \* what the site may serve in a run: a subset of SitePages
  Threshold,    \* repair_failure_threshold
  MinDistinct,  \* repair_minimum_distinct_targets
  MaxRepairs,   \* bound: how many repair_attempts rows can be created
  MaxFaults     \* bound: how many transactions can fail

ASSUME ThresholdsAssumption ==
  Threshold \in Nat \ {0} /\ MinDistinct \in Nat \ {0}

ASSUME BoundsAssumption == MaxRepairs \in Nat /\ MaxFaults \in Nat

ASSUME TargetsAssumption == IsFiniteSet(Targets)

ASSUME PagesAssumption == Pages \subseteq {"good", "unstable", "changed", "fixed"}

VARIABLES
  page,      \* what the site serves: see OutcomesOf
  health,    \* the committed scraper_health row
  failing,   \* targets with a repairable failure in the last 24 hours
  repair,    \* RepairAttempt.status of each row
  cooling,   \* a repair was finished less than repair_cooldown_seconds ago
  recorder,  \* the finalising transaction of each scrape worker
  actor,     \* the repair transaction of each actor
  faults     \* transactions that have failed, for the bound MaxFaults

vars == <<page, health, failing, repair, cooling, recorder, actor, faults>>

Repairs == 1..MaxRepairs
HealthStatus == {"healthy", "degraded", "broken", "repair_queued", "repairing"}
\* "working" stands for diagnosing, candidate_ready and testing, "closed" for
\* rejected and failed.
OpenStatuses == {"queued", "working", "validated"}
RepairStatus == {"absent"} \cup OpenStatuses \cup {"closed", "deployed", "rolled_back"}
Outcomes == {"succeeded", "repairable", "other"}

HealthRow == [status : HealthStatus, cons : 0..Threshold]
NewHealth == [status |-> "healthy", cons |-> 0]

SitePages == {"good", "unstable", "changed", "fixed"}
OutcomesOf(p) == CASE p = "good" -> Outcomes
                   [] p = "unstable" -> {"repairable", "other"}
                   [] p = "changed" -> {"repairable"}
                   [] p = "fixed" -> {"succeeded"}

\* saw is the health row as it was read; verdict is the status that the
\* repair decision adds to the failure, "none" as long as there is none.
TransactionRow ==
  [pc : {"idle", "read", "flushed", "counted", "unopened", "uncooled", "inserted", "decided"},
   targets : SUBSET Targets, outcome : Outcomes \cup {"none"},
   saw : HealthRow, verdict : {"none", "broken", "repair_queued"}]

\* Every way to a decision has put its verdict into the health row.
Transaction ==
  {tx \in TransactionRow : tx.verdict # "none" <=> tx.pc \in {"inserted", "decided"}}
NoTransaction == [pc |-> "idle", targets |-> {}, outcome |-> "none",
                  saw |-> NewHealth, verdict |-> "none"]

\* What a repair transaction does: the statuses it starts from, the one it
\* sets, and the health status it writes.
Kinds == {"claim", "accept", "reject", "deploy", "roll_back"}
From(kind) == CASE kind = "claim" -> {"queued", "working"}
                [] kind \in {"accept", "reject"} -> {"working"}
                [] kind = "deploy" -> {"validated"}
                [] kind = "roll_back" -> {"deployed"}
To(kind) == CASE kind = "claim" -> "working"
              [] kind = "accept" -> "validated"
              [] kind = "reject" -> "closed"
              [] kind = "deploy" -> "deployed"
              [] kind = "roll_back" -> "rolled_back"
Shows(kind) == CASE kind \in {"claim", "accept", "deploy"} -> "repairing"
                 [] kind = "reject" -> "broken"
                 [] kind = "roll_back" -> "degraded"
Finishes(kind) == kind \in {"reject", "deploy"}  \* sets finished_at

RepairTransaction == [kind : Kinds \cup {"none"}, repair : 0..MaxRepairs, saw : HealthStatus]
NoRepairTransaction == [kind |-> "none", repair |-> 0, saw |-> "healthy"]

TypeOK ==
  /\ page \in Pages
  /\ health \in HealthRow
  /\ failing \in SUBSET Targets
  /\ repair \in [Repairs -> RepairStatus]
  /\ cooling \in BOOLEAN
  /\ recorder \in [Workers -> Transaction]
  /\ actor \in [Actors -> RepairTransaction]
  /\ faults \in 0..MaxFaults

-----------------------------------------------------------------------------
OpenRepairs == {r \in Repairs : repair[r] \in OpenStatuses}

\* Bound: there is a row left for another repair.
Room == \E r \in Repairs : repair[r] = "absent"

\* Mutant: the failure is not flushed before the repair decision is taken.
UnlockedHealth == FALSE

\* A recorder that has flushed its failure holds the health row.
HealthLocked == \E w \in Workers : recorder[w].pc \notin {"idle", "read"}

\* Mutant of Required: no cap for a competitor with few targets.
RequiredUncapped == MinDistinct

Required == IF Cardinality(Targets) < MinDistinct THEN Cardinality(Targets) ELSE MinDistinct

\* The consecutive failures after a failure that read n of them.
Increment(n) == IF n < Threshold THEN n + 1 ELSE Threshold

\* Mutant of ConsecutiveAfter: a failure of another kind keeps the count.
ConsecutiveKept(outcome, saw, old) ==
  IF outcome = "repairable" THEN Increment(saw.cons) ELSE old.cons

\* The column that the flush leaves in the committed row old: an increment
\* always differs from what was read, a reset only if it was not 0.
ConsecutiveAfter(outcome, saw, old) ==
  IF outcome = "repairable" THEN Increment(saw.cons)
  ELSE IF saw.cons # 0 THEN 0 ELSE old.cons

\* A status is written only if it differs from the one that was read.
StatusAfter(status, saw, old) == IF status # saw THEN status ELSE old

Init ==
  /\ page \in Pages
  /\ health = NewHealth
  /\ failing = {}
  /\ repair = [r \in Repairs |-> "absent"]
  /\ cooling \in BOOLEAN  \* after a repair before those of Repairs
  /\ recorder = [w \in Workers |-> NoTransaction]
  /\ actor = [a \in Actors |-> NoRepairTransaction]
  /\ faults = 0

-----------------------------------------------------------------------------
(* The finalising transaction of a scrape.                                 *)

\* It locks the row and the target, then reads the health row.
Begin(w, t, outcome) ==
  /\ recorder[w].pc = "idle"
  /\ \A v \in Workers : t \notin recorder[v].targets
  /\ outcome \in OutcomesOf(page)
  /\ recorder' = [recorder EXCEPT ![w] =
       [pc |-> "read", targets |-> {t}, outcome |-> outcome, saw |-> health, verdict |-> "none"]]
  /\ UNCHANGED <<page, health, failing, repair, cooling, actor, faults>>

\* _mark_healthy, flush and commit.
RecordSuccess(w) ==
  /\ recorder[w].pc = "read" /\ recorder[w].outcome = "succeeded"
  /\ ~HealthLocked
  /\ LET saw == recorder[w].saw IN
       health' = [status |-> StatusAfter("healthy", saw.status, health.status),
                  cons |-> ConsecutiveAfter("succeeded", saw, health)]
  /\ recorder' = [recorder EXCEPT ![w] = NoTransaction]
  /\ UNCHANGED <<page, failing, repair, cooling, actor, faults>>

Exhausted(w) == /\ recorder[w].outcome = "repairable"
                /\ Increment(recorder[w].saw.cons) >= Threshold

\* What the commit of a failure leaves in the health row and in the window.
WriteFailure(w) ==
  LET outcome == recorder[w].outcome
      saw == recorder[w].saw
      verdict == recorder[w].verdict
  IN /\ health' =
          [status |-> IF verdict # "none" THEN verdict
                      ELSE StatusAfter("degraded", saw.status, health.status),
           cons |-> ConsecutiveAfter(outcome, saw, health)]
     /\ failing' = IF outcome = "repairable" THEN failing \cup recorder[w].targets ELSE failing
     /\ recorder' = [recorder EXCEPT ![w] = NoTransaction]
     /\ UNCHANGED <<page, cooling, actor, faults>>

\* A failure that is not repairable, or below the threshold.
RecordFailure(w) ==
  /\ recorder[w].pc = "read" /\ recorder[w].outcome # "succeeded"
  /\ ~Exhausted(w)
  /\ ~HealthLocked
  /\ WriteFailure(w)
  /\ UNCHANGED repair

Step(w, pc, verdict) ==
  /\ recorder' = [recorder EXCEPT ![w].pc = pc, ![w].verdict = verdict]
  /\ UNCHANGED <<page, health, failing, repair, cooling, actor, faults>>

\* The flush that precedes _maybe_create_repair.
Flush(w) ==
  /\ recorder[w].pc = "read" /\ recorder[w].outcome # "succeeded"
  /\ Exhausted(w)
  /\ ~HealthLocked
  /\ Step(w, "flushed", "none")

\* The failing targets, the one of this transaction among them.
CountTargets(w) ==
  /\ recorder[w].pc = "flushed"
  /\ IF Cardinality(failing \cup recorder[w].targets) < Required
       THEN Step(w, "decided", "broken")
       ELSE Step(w, "counted", "none")

\* Mutant of FindOpenRepair: the repair that is open is returned, the health
\* status left as it is.
FindOpenRepairSilently(w) ==
  /\ recorder[w].pc = "counted"
  /\ IF OpenRepairs # {} THEN Step(w, "decided", "none")
                         ELSE Step(w, "unopened", "none")

FindOpenRepair(w) ==
  /\ recorder[w].pc = "counted"
  /\ IF OpenRepairs # {} THEN Step(w, "decided", "repair_queued")
                         ELSE Step(w, "unopened", "none")

CheckCooldown(w) ==
  /\ recorder[w].pc = "unopened"
  /\ IF cooling THEN Step(w, "decided", "broken") ELSE Step(w, "uncooled", "none")

\* INSERT under a savepoint; the partial unique index refuses a second open
\* row of the competitor, and the one that is there is used instead.
InsertRepair(w) ==
  /\ recorder[w].pc = "uncooled"
  /\ IF OpenRepairs # {} THEN Step(w, "decided", "repair_queued")
                         ELSE Step(w, "inserted", "repair_queued")

CommitFailure(w) ==
  /\ recorder[w].pc \in {"inserted", "decided"}
  /\ WriteFailure(w)
  /\ IF recorder[w].pc = "inserted"
       THEN \E r \in Repairs :
              /\ repair[r] = "absent" /\ \A q \in Repairs : repair[q] = "absent" => r <= q
              /\ repair' = [repair EXCEPT ![r] = "queued"]
       ELSE UNCHANGED repair

\* The transaction fails or its process dies: nothing is committed.
Abort(w) ==
  /\ recorder[w].pc # "idle"
  /\ faults < MaxFaults
  /\ faults' = faults + 1
  /\ recorder' = [recorder EXCEPT ![w] = NoTransaction]
  /\ UNCHANGED <<page, health, failing, repair, cooling, actor>>

-----------------------------------------------------------------------------
(* The transactions of the repair coordinator.                             *)

\* FOR UPDATE on the repair (a deployment is kept from overlapping another
\* by the compare-and-set of the version store), then the health row.
BeginRepair(a, kind, r) ==
  /\ actor[a].kind = "none"
  /\ repair[r] \in From(kind)
  /\ \A b \in Actors : actor[b].repair # r
  /\ kind = "roll_back" => \A q \in Repairs : repair[q] = "deployed" => q <= r
  /\ actor' = [actor EXCEPT ![a] = [kind |-> kind, repair |-> r, saw |-> health.status]]
  /\ UNCHANGED <<page, health, failing, repair, cooling, recorder, faults>>

\* Flush and commit.  Without a change of the health status there is no UPDATE
\* of that row and no lock to wait for.
CommitRepair(a) ==
  LET kind == actor[a].kind IN
  /\ kind # "none"
  /\ Shows(kind) # actor[a].saw => ~HealthLocked
  /\ health' = [health EXCEPT !.status = StatusAfter(Shows(kind), actor[a].saw, @)]
  /\ repair' = [repair EXCEPT ![actor[a].repair] = To(kind)]
  /\ cooling' = (cooling \/ Finishes(kind))
  /\ actor' = [actor EXCEPT ![a] = NoRepairTransaction]
  /\ UNCHANGED <<page, failing, recorder, faults>>

AbortRepair(a) ==
  /\ actor[a].kind # "none"
  /\ faults < MaxFaults
  /\ faults' = faults + 1
  /\ actor' = [actor EXCEPT ![a] = NoRepairTransaction]
  /\ UNCHANGED <<page, health, failing, repair, cooling, recorder>>

-----------------------------------------------------------------------------
(* Time and the site.                                                      *)

\* The last cooldown within the bound does not end, so that no transaction asks
\* for a row that is not there.
CooldownEnds ==
  /\ cooling /\ Room
  /\ cooling' = FALSE
  /\ UNCHANGED <<page, health, failing, repair, recorder, actor, faults>>

\* 24 hours without another failure of t; while every scrape fails, a target
\* is scraped again before that.
WindowPasses(t) ==
  /\ t \in failing /\ page # "changed"
  /\ failing' = failing \ {t}
  /\ UNCHANGED <<page, health, repair, cooling, recorder, actor, faults>>

\* The site changes so that the adapter fails on every page, or is such that
\* it works on every page.  An unstable site breaks the adapter or the fetch.
PageBecomes(p) ==
  /\ <<page, p>> \in {"good", "unstable"} \X {"changed", "fixed"} \cup {<<"changed", "fixed">>}
  /\ page' = p
  /\ UNCHANGED <<health, failing, repair, cooling, recorder, actor, faults>>

Record(w) ==
  \/ RecordSuccess(w) \/ RecordFailure(w)
  \/ Flush(w) \/ CountTargets(w) \/ FindOpenRepair(w) \/ CheckCooldown(w)
  \/ InsertRepair(w) \/ CommitFailure(w)

Scrape(t) == \E w \in Workers, o \in Outcomes : Begin(w, t, o)

Next ==
  \/ \E t \in Targets : Scrape(t) \/ WindowPasses(t)
  \/ \E w \in Workers : Record(w) \/ Abort(w)
  \/ \E a \in Actors : CommitRepair(a) \/ AbortRepair(a)
  \/ \E a \in Actors, k \in Kinds, r \in Repairs : BeginRepair(a, k, r)
  \/ CooldownEnds
  \/ \E p \in Pages : PageBecomes(p)

Spec == Init /\ [][Next]_vars

\* Each target is scraped again and again (its schedule, and claims in the
\* order of queued_at); a transaction that waits for a row gets it in its turn
\* and ends; the cooldown passes.  Nothing is asked of the repair workers.
Fairness ==
  /\ \A t \in Targets : SF_vars(Scrape(t))
  /\ \A w \in Workers : SF_vars(Record(w))
  /\ WF_vars(CooldownEnds)

FairSpec == Spec /\ Fairness

-----------------------------------------------------------------------------
(* Properties.                                                             *)

\* The flush of the failure, which comes before the repair decision, makes the
\* decisions of one competitor take turns: nobody ever meets the unique index,
\* so no finished scrape is lost to the IntegrityError that _maybe_create_repair
\* re-raises when the row it lost to is gone (results.py, _maybe_create_repair).
InsertUncontested ==
  \A w \in Workers : recorder[w].pc \in {"uncooled", "inserted"} => OpenRepairs = {}

\* No repair is opened within the cooldown of one that was finished, whatever
\* the coordinator commits between the statements of the decision.
NewRepairsCold ==
  \A r \in Repairs : repair[r] = "absent" /\ repair'[r] # "absent" => ~cooling

CooldownKept == [][NewRepairsCold]_vars

\* Lost updates of the counter delay a repair but never prevent it: when every
\* scrape fails on a changed page, a repair is opened (or the bound is used up).
ChangeGetsRepair == page = "changed" ~> (OpenRepairs # {} \/ ~Room \/ page = "fixed")

\* When every scrape succeeds again the health row says so in the end, though
\* each writer may have acted on a row that was no longer current.
HealthRestored == page = "fixed" ~> (health.status = "healthy" /\ health.cons = 0)

\* What "the final result/history/health update is short, lease-checked, and
\* atomic" promises of a failure: a row that counts failures since the last
\* success does not say healthy.
FailureShows == health.cons > 0 => health.status # "healthy"
=============================================================================
