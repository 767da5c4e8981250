--------------------------- MODULE RepairCoordinator ---------------------------
(***************************************************************************)
(* The repairs of the competitors that use one adapter, from the request   *)
(* to the deployment: services/repair_coordinator.py with the guarded      *)
(* workflow of repair/workflow.py.                                         *)
(*                                                                         *)
(* Repair workers claim a repair under a lease, build its evidence, ask a  *)
(* provider for a candidate, have it reviewed, stage it and record the     *)
(* verdict.  Operators deploy and roll back: each call changes the version *)
(* store first and the database after it.  The store is taken at the level *)
(* of ActiveRevision, which SpecVersionStore implements: its calls are     *)
(* atomic.                                                                 *)
(*                                                                         *)
(* A lease is live or has run out.  The heartbeat keeps it live as long as *)
(* its worker runs and the database answers; running out in spite of that  *)
(* counts as a fault.                                                      *)
(***************************************************************************)
EXTENDS Naturals

CONSTANTS
  Competitors,  \* competitors with the same adapter_key
  Revisions,    \* revisions of the adapter
  Baseline,     \* the packaged one
  None,         \* no revision
  Nobody,       \* no competitor
  Workers,      \* repair workers
  Operators,    \* people at the CLI
  MaxRepairs,   \* bound: repair_attempts rows
  MaxRollbacks, \* bound: rollbacks
  MaxFaults     \* bound: crashes, database errors, leases that run out

ASSUME RevisionsAssumption ==
  /\ Baseline \in Revisions /\ None \notin Revisions
  /\ Competitors # {} /\ Nobody \notin Competitors

ASSUME BoundsAssumption ==
  MaxRepairs \in Nat /\ MaxRollbacks \in Nat /\ MaxFaults \in Nat

VARIABLES
  store,      \* the version store: the current and the previous revision
  staged,     \* the staged candidates
  competitor, \* active_scraper_revision and previous_scraper_revision
  used,       \* ghost: the revisions that were active for a competitor
  repair,     \* the repair_attempts rows
  reviewed,   \* <<candidate, baseline>> the reviewer has accepted
  worker,     \* what each repair worker is doing
  operator,   \* what each operator's command is doing
  rollbacks,  \* rollbacks so far, for the bound MaxRollbacks
  faults      \* faults so far, for the bound MaxFaults

vars == <<store, staged, competitor, used, repair, reviewed, worker, operator, rollbacks, faults>>

Repairs == 1..MaxRepairs
OptRevision == Revisions \cup {None}

Held == {"diagnosing", "testing"}
Undecided == {"queued"} \cup Held
Open == Undecided \cup {"validated"}
Status == {"absent"} \cup Open \cup {"failed", "rejected", "deployed", "rolled_back"}

\* token is the number of the attempt that holds or last held the lease.
Row == [of : Competitors \cup {Nobody}, status : Status, baseline : OptRevision,
        candidate : OptRevision, token : Nat, live : BOOLEAN]
NoRow == [of |-> Nobody, status |-> "absent", baseline |-> None,
          candidate |-> None, token |-> 0, live |-> FALSE]

Worker == [pc : {"idle", "building", "evaluating", "proposing", "staging",
                 "accepted", "refused", "failing"},
           repair : 0..MaxRepairs, token : Nat, candidate : OptRevision]
IdleWorker == [pc |-> "idle", repair |-> 0, token |-> 0, candidate |-> None]

\* A command between its change of the store and its commit: old and new are
\* the active revisions before and after, seen is the competitor's row as the
\* session read it.
Columns == [active : OptRevision, previous : OptRevision]
NoColumns == [active |-> None, previous |-> None]
Operator == [pc : {"idle", "deploying", "rolling_back"}, repair : 0..MaxRepairs,
             of : Competitors \cup {Nobody}, old : OptRevision, new : OptRevision, seen : Columns]
IdleOperator == [pc |-> "idle", repair |-> 0, of |-> Nobody,
                 old |-> None, new |-> None, seen |-> NoColumns]

\* With the check constraint that only a repair in progress has a lease.
TypeOK ==
  /\ store \in [current : Revisions, previous : OptRevision]
  /\ staged \subseteq Revisions
  /\ competitor \in [Competitors -> [active : Revisions, previous : OptRevision]]
  /\ used \in [Competitors -> SUBSET Revisions]
  /\ repair \in [Repairs -> Row]
  /\ \A r \in Repairs : repair[r].live => repair[r].status \in Held
  /\ reviewed \subseteq Revisions \X Revisions
  /\ worker \in [Workers -> Worker]
  /\ operator \in [Operators -> Operator]
  /\ rollbacks \in 0..MaxRollbacks
  /\ faults \in 0..MaxFaults

Fault == faults < MaxFaults /\ faults' = faults + 1

Init ==
  /\ store = [current |-> Baseline, previous |-> None]
  /\ staged = {}
  /\ competitor = [c \in Competitors |-> [active |-> Baseline, previous |-> None]]
  /\ used = [c \in Competitors |-> {Baseline}]
  /\ repair = [r \in Repairs |-> NoRow]
  /\ reviewed = {}
  /\ worker = [w \in Workers |-> IdleWorker]
  /\ operator = [o \in Operators |-> IdleOperator]
  /\ rollbacks = 0
  /\ faults = 0

-----------------------------------------------------------------------------
(* Requests and claims.                                                    *)

\* A failed scrape of revision rev asks for a repair.  The scrape was queued
\* with the revision that was active then, however long ago.
RequestRepair(c, rev) ==
  /\ rev \in used[c]
  /\ \A r \in Repairs : repair[r].of = c => repair[r].status \notin Open
  /\ \E r \in Repairs :
       /\ repair[r] = NoRow /\ \A q \in Repairs : repair[q] = NoRow => r <= q
       /\ repair' = [repair EXCEPT ![r] = [NoRow EXCEPT !.of = c, !.status = "queued", !.baseline = rev]]
  /\ UNCHANGED <<store, staged, competitor, used, reviewed, worker, operator, rollbacks, faults>>

\* Mutant of Claimable: a repair whose worker is gone is not taken up again.
ClaimableQueued(r) == repair[r].status = "queued"

Claimable(r) ==
  \/ repair[r].status = "queued"
  \/ repair[r].status \in Held /\ ~repair[r].live

\* In the order of queued_at.
Claim(w, r) ==
  /\ worker[w] = IdleWorker
  /\ Claimable(r) /\ \A q \in Repairs : Claimable(q) => r <= q
  /\ repair' = [repair EXCEPT ![r] =
       [@ EXCEPT !.status = "diagnosing", !.candidate = None,
                 !.token = repair[r].token + 1, !.live = TRUE]]
  /\ worker' = [worker EXCEPT ![w] = [pc |-> "building", repair |-> r,
                                      token |-> repair[r].token + 1, candidate |-> None]]
  /\ UNCHANGED <<store, staged, competitor, used, reviewed, operator, rollbacks, faults>>

\* Mutant of Owns: the lease is checked, the token is not.
OwnsAnyLease(w) ==
  /\ repair[worker[w].repair].status \in Held
  /\ repair[worker[w].repair].live

\* _lock_owned.
Owns(w) ==
  /\ repair[worker[w].repair].status \in Held
  /\ repair[worker[w].repair].token = worker[w].token
  /\ repair[worker[w].repair].live

-----------------------------------------------------------------------------
(* Evaluation.  Only the steps that own the lease write the row.           *)

Move(w, pc) == worker' = [worker EXCEPT ![w].pc = pc]
LeaveWorker(w) == worker' = [worker EXCEPT ![w] = IdleWorker]

\* The evidence is there, and testing begins.
BeginTesting(w) ==
  /\ worker[w].pc = "building" /\ Owns(w)
  /\ repair' = [repair EXCEPT ![worker[w].repair].status = "testing"]
  /\ Move(w, "evaluating")
  /\ UNCHANGED <<store, staged, competitor, used, reviewed, operator, rollbacks, faults>>

\* The evidence is missing or cannot be read, or the provider, the runner or
\* the store raises, or there is no proposal.
Fails(w) ==
  /\ worker[w].pc \in {"building", "evaluating", "proposing", "staging"}
  /\ Move(w, "failing")
  /\ UNCHANGED <<store, staged, competitor, used, repair, reviewed, operator, rollbacks, faults>>

\* The active specification is the baseline of the repair; otherwise Fails.
CheckBaseline(w) ==
  /\ worker[w].pc = "evaluating"
  /\ store.current = repair[worker[w].repair].baseline
  /\ Move(w, "proposing")
  /\ UNCHANGED <<store, staged, competitor, used, repair, reviewed, operator, rollbacks, faults>>

\* A candidate has a revision of its own (a digest of baseline and change).
Propose(w, c) ==
  LET old == repair[worker[w].repair].baseline IN
  /\ worker[w].pc = "proposing"
  /\ c \notin {old, Baseline}
  /\ \/ /\ worker' = [worker EXCEPT ![w].pc = "staging", ![w].candidate = c]
        /\ reviewed' = reviewed \cup {<<c, old>>}
     \/ /\ worker' = [worker EXCEPT ![w].pc = "refused", ![w].candidate = c]
        /\ UNCHANGED reviewed
  /\ UNCHANGED <<store, staged, competitor, used, repair, operator, rollbacks, faults>>

\* stage_candidate compares the baseline again; otherwise Fails.
StageCandidate(w) ==
  /\ worker[w].pc = "staging"
  /\ store.current = repair[worker[w].repair].baseline
  /\ staged' = staged \cup {worker[w].candidate}
  /\ Move(w, "accepted")
  /\ UNCHANGED <<store, competitor, used, repair, reviewed, operator, rollbacks, faults>>

Verdict(pc) == CASE pc = "accepted" -> "validated"
                 [] pc = "refused" -> "rejected"
                 [] pc = "failing" -> "failed"

Decide(w) ==
  /\ worker[w].pc \in {"accepted", "refused", "failing"} /\ Owns(w)
  /\ repair' = [repair EXCEPT ![worker[w].repair] =
       [@ EXCEPT !.status = Verdict(worker[w].pc), !.live = FALSE,
                 !.candidate = IF worker[w].pc = "failing" THEN None ELSE worker[w].candidate]]
  /\ LeaveWorker(w)
  /\ UNCHANGED <<store, staged, competitor, used, reviewed, operator, rollbacks, faults>>

\* _lock_owned finds that another worker may have the repair: the exception
\* ends the command, and the process is started again.
LoseLease(w) ==
  /\ worker[w].pc \in {"building", "accepted", "refused", "failing"} /\ ~Owns(w)
  /\ LeaveWorker(w)
  /\ UNCHANGED <<store, staged, competitor, used, repair, reviewed, operator, rollbacks, faults>>

WorkerCrashes(w) ==
  /\ worker[w] # IdleWorker
  /\ Fault
  /\ LeaveWorker(w)
  /\ UNCHANGED <<store, staged, competitor, used, repair, reviewed, operator, rollbacks>>

\* Mutant of Renew: the row is taken by its id, without _lock_owned.
RenewById(r, token) ==
  /\ token \in 1 .. repair[r].token
  /\ repair' = [repair EXCEPT ![r].live = TRUE]
  /\ UNCHANGED <<store, staged, competitor, used, reviewed, worker, operator, rollbacks, faults>>

\* _renew_lease by the heartbeat thread of any attempt so far, its worker still
\* at work or not: _maintain_lease waits only so long for the thread.  It finds
\* a live lease of its own to extend, which a lease that is live or has run out
\* does not show, or it raises and changes nothing.
Renew(r, token) ==
  /\ repair[r].status = "testing" /\ repair[r].token = token /\ repair[r].live
  /\ repair' = [repair EXCEPT ![r].live = TRUE]
  /\ UNCHANGED <<store, staged, competitor, used, reviewed, worker, operator, rollbacks, faults>>

HolderRuns(r) == \E w \in Workers : worker[w].repair = r /\ worker[w].token = repair[r].token

LeaseRunsOut(r) ==
  /\ repair[r].status \in Held /\ repair[r].live
  /\ IF HolderRuns(r) THEN Fault ELSE UNCHANGED faults
  /\ repair' = [repair EXCEPT ![r].live = FALSE]
  /\ UNCHANGED <<store, staged, competitor, used, reviewed, worker, operator, rollbacks>>

-----------------------------------------------------------------------------
(* Deployment and rollback.                                                *)

\* Mutant of Deploy: the version store is not told what it is to replace.
DeployUnchecked(o, r) ==
  /\ operator[o].pc = "idle"
  /\ repair[r].status = "validated" /\ repair[r].candidate \in staged
  /\ store' = [current |-> repair[r].candidate, previous |-> store.current]
  /\ operator' = [operator EXCEPT ![o] =
       [pc |-> "deploying", repair |-> r, of |-> repair[r].of,
        old |-> repair[r].baseline, new |-> repair[r].candidate,
        seen |-> competitor[repair[r].of]]]
  /\ UNCHANGED <<staged, competitor, used, repair, reviewed, worker, rollbacks, faults>>

\* activate with the baseline as the expected revision.
Deploy(o, r) ==
  /\ operator[o].pc = "idle"
  /\ repair[r].status = "validated" /\ repair[r].candidate \in staged
  /\ store.current = repair[r].baseline
  /\ store' = [current |-> repair[r].candidate, previous |-> store.current]
  /\ operator' = [operator EXCEPT ![o] =
       [pc |-> "deploying", repair |-> r, of |-> repair[r].of,
        old |-> repair[r].baseline, new |-> repair[r].candidate,
        seen |-> competitor[repair[r].of]]]
  /\ UNCHANGED <<staged, competitor, used, repair, reviewed, worker, rollbacks, faults>>

\* The store rolls back first, whatever it has as its previous revision.
RollBack(o, c) ==
  /\ operator[o].pc = "idle"
  /\ rollbacks < MaxRollbacks /\ rollbacks' = rollbacks + 1
  /\ store.current = competitor[c].active /\ store.previous # None
  /\ store' = [current |-> store.previous, previous |-> store.current]
  /\ operator' = [operator EXCEPT ![o] =
       [pc |-> "rolling_back", repair |-> 0, of |-> c,
        old |-> store.current, new |-> store.previous, seen |-> competitor[c]]]
  /\ UNCHANGED <<staged, competitor, used, repair, reviewed, worker, faults>>

LatestDeployed(c) ==
  {r \in Repairs : /\ repair[r].of = c /\ repair[r].status = "deployed"
                   /\ \A q \in Repairs :
                        repair[q].of = c /\ repair[q].status = "deployed" => q <= r}

\* Mutant of WriteCommand: the competitor's revision is left as it was.
WriteStatusOnly(o) ==
  /\ UNCHANGED <<competitor, used>>
  /\ repair' = [r \in Repairs |->
       IF r = operator[o].repair THEN [repair[r] EXCEPT !.status = "deployed"] ELSE repair[r]]

\* What the commit of either command writes: of the competitor's columns, those
\* that differ from what the session read; the row is not locked.
Column(now, seen, written) == IF written = seen THEN now ELSE written

WriteCommand(o) ==
  LET cmd == operator[o] IN
  /\ competitor' = [competitor EXCEPT ![cmd.of] =
       [active |-> Column(@.active, cmd.seen.active, cmd.new),
        previous |-> Column(@.previous, cmd.seen.previous, cmd.old)]]
  /\ used' = [used EXCEPT ![cmd.of] = @ \cup {competitor'[cmd.of].active}]
  /\ repair' = [r \in Repairs |->
       IF cmd.pc = "deploying" /\ r = cmd.repair THEN [repair[r] EXCEPT !.status = "deployed"]
       ELSE IF cmd.pc = "rolling_back" /\ r \in LatestDeployed(cmd.of)
            THEN [repair[r] EXCEPT !.status = "rolled_back"]
       ELSE repair[r]]

LeaveOperator(o) == operator' = [operator EXCEPT ![o] = IdleOperator]

Commit(o) ==
  /\ operator[o].pc # "idle"
  /\ WriteCommand(o)
  /\ LeaveOperator(o)
  /\ UNCHANGED <<store, staged, reviewed, worker, rollbacks, faults>>

\* Mutant of Compensate: the compensation forgets the revision it takes back.
CompensatePops(o) ==
  store' = IF store.current = operator[o].new /\ store.previous # None
             THEN [current |-> store.previous, previous |-> None]
             ELSE store

\* The except branch: the store is rolled back if it still has the revision
\* the command made current.
Compensate(o) ==
  store' = IF store.current = operator[o].new /\ store.previous # None
             THEN [current |-> store.previous, previous |-> store.current]
             ELSE store

CommitFails(o) ==
  /\ operator[o].pc # "idle"
  /\ Fault
  /\ Compensate(o)
  /\ LeaveOperator(o)
  /\ UNCHANGED <<staged, competitor, used, repair, reviewed, worker, rollbacks>>

\* The commit takes effect and its acknowledgement is lost.
CommitUnacknowledged(o) ==
  /\ operator[o].pc # "idle"
  /\ Fault
  /\ WriteCommand(o)
  /\ Compensate(o)
  /\ LeaveOperator(o)
  /\ UNCHANGED <<staged, reviewed, worker, rollbacks>>

OperatorCrashes(o) ==
  /\ operator[o].pc # "idle"
  /\ Fault
  /\ LeaveOperator(o)
  /\ UNCHANGED <<store, staged, competitor, used, repair, reviewed, worker, rollbacks>>

WorkerStep(w) ==
  \/ BeginTesting(w) \/ Fails(w) \/ CheckBaseline(w)
  \/ \E c \in Revisions : Propose(w, c)
  \/ StageCandidate(w) \/ Decide(w) \/ LoseLease(w)

Next ==
  \/ \E c \in Competitors, rev \in Revisions : RequestRepair(c, rev)
  \/ \E w \in Workers : (\E r \in Repairs : Claim(w, r)) \/ WorkerStep(w) \/ WorkerCrashes(w)
  \/ \E r \in Repairs : LeaseRunsOut(r) \/ \E token \in 1 .. repair[r].token : Renew(r, token)
  \/ \E o \in Operators : \/ \E r \in Repairs : Deploy(o, r)
                          \/ \E c \in Competitors : RollBack(o, c)
                          \/ Commit(o) \/ CommitFails(o)
                          \/ CommitUnacknowledged(o) \/ OperatorCrashes(o)

Spec == Init /\ [][Next]_vars

\* Workers poll for repairs and finish what they do; a lease that nobody renews
\* runs out.
Fairness ==
  /\ WF_vars(\E w \in Workers, r \in Repairs : Claim(w, r))
  /\ \A w \in Workers : WF_vars(WorkerStep(w))
  /\ \A r \in Repairs : WF_vars(~HolderRuns(r) /\ LeaseRunsOut(r))

FairSpec == Spec /\ Fairness

-----------------------------------------------------------------------------
(* Properties.                                                             *)

\* Only the worker of the latest attempt, under a live lease, gives a repair
\* its verdict; one whose lease ran out while it evaluated cannot.
DecidedByOwner ==
  \A r \in Repairs : repair[r].status \in Held /\ repair'[r].status \notin Held =>
    \E w \in Workers : /\ worker[w].repair = r /\ worker[w].token = repair[r].token
                       /\ repair[r].live /\ worker'[w] # worker[w]

OwnerDecides == [][DecidedByOwner]_vars

\* A revision becomes current only as the candidate that was reviewed against
\* the revision it replaces, or by going back; not even after crashes, lost
\* leases and races of operators is an unreviewed combination in use.
CurrentReviewed ==
  store.current # store'.current =>
    \/ <<store'.current, store.current>> \in reviewed
    \/ store'.current = store.previous

PromotedWasReviewed == [][CurrentReviewed]_vars

\* Every repair that was asked for gets a verdict, although workers crash.
RepairsDecided ==
  \A r \in Repairs : repair[r].status \in Undecided ~> repair[r].status \notin Undecided

OneOperator == \E o \in Operators : Operators = {o}
NoCommand == \A o \in Operators : operator[o].pc = "idle"

\* Without faults and with one operator at a time, the version store is never
\* left with a pair of revisions that no competitor has: the command that made
\* the pair recorded it.
InSync ==
  faults = 0 /\ OneOperator /\ NoCommand => \E c \in Competitors :
    competitor[c].active = store.current /\ competitor[c].previous = store.previous

\* The calls of workers and operators, with the compensations after failures
\* and whatever overlaps, are uses of the store that ActiveRevision has: what
\* becomes current was staged or is what was current before it.
Named(rev) == [rev |-> rev]

Store == INSTANCE ActiveRevision WITH
  Specs <- {Named(r) : r \in Revisions}, Packages <- {Named(Baseline)},
  Initial <- Named(Baseline), NoSpec <- Named(None),
  current <- Named(store.current), previous <- Named(store.previous),
  offered <- {Named(r) : r \in staged}

ImplementsActiveRevision == Store!Spec

\* "Atomically point a competitor back to its previous scraper revision": what
\* a rollback makes active is the competitor's previous revision.
RollbackGoesBack ==
  [][\A c \in Competitors, o \in Operators :
       operator[o].pc = "rolling_back" /\ operator'[o].pc = "idle"
         /\ operator[o].of = c /\ competitor'[c].active # competitor[c].active
       => competitor'[c].active = competitor[c].previous]_vars
=============================================================================
