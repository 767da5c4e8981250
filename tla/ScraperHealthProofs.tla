-------------------------- MODULE ScraperHealthProofs --------------------------
(***************************************************************************)
(* Proofs about ScraperHealth for any number of targets, workers, actors   *)
(* and repairs: the flushed health row is a lock, what a recorder has read *)
(* under it stays true until it commits, and so the partial unique index   *)
(* is never met and the cooldown is kept.                                  *)
(***************************************************************************)
EXTENDS ScraperHealth, TLAPS

Holds(w) == recorder[w].pc \notin {"idle", "read"}

LockExclusive == \A v, w \in Workers : Holds(v) /\ Holds(w) => v = w

\* What the decision has found still holds.
FindingsHold ==
  \A w \in Workers :
    /\ recorder[w].pc \in {"unopened", "uncooled", "inserted"} => OpenRepairs = {}
    /\ recorder[w].pc \in {"uncooled", "inserted"} => ~cooling

ActorsOwn ==
  \A a \in Actors : actor[a].kind # "none" =>
    /\ actor[a].repair \in Repairs
    /\ repair[actor[a].repair] \in From(actor[a].kind)

ActorsExclusive ==
  \A a, b \in Actors : actor[a].kind # "none" /\ actor[b].kind # "none"
                       /\ actor[a].repair = actor[b].repair => a = b

IInv == TypeOK /\ LockExclusive /\ FindingsHold /\ ActorsOwn /\ ActorsExclusive

-----------------------------------------------------------------------------
LEMMA InitIInv == Init => IInv
<1> SUFFICES ASSUME Init PROVE IInv OBVIOUS
<1> USE ThresholdsAssumption, BoundsAssumption, PagesAssumption DEF Init
<1>1. TypeOK
  <2>1. NewHealth \in HealthRow BY DEF NewHealth, HealthRow, HealthStatus, Outcomes
  <2>2. NoTransaction \in Transaction
    BY <2>1 DEF NoTransaction, Transaction, TransactionRow, Outcomes
  <2>3. NoRepairTransaction \in RepairTransaction
    BY DEF NoRepairTransaction, RepairTransaction, HealthStatus
  <2>4. /\ repair \in [Repairs -> RepairStatus] /\ recorder \in [Workers -> Transaction]
        /\ actor \in [Actors -> RepairTransaction]
    BY <2>2, <2>3 DEF RepairStatus
  <2>5. failing \in SUBSET Targets /\ cooling \in BOOLEAN OBVIOUS
  <2>7. faults \in 0..MaxFaults BY SMT
  <2>6. page \in Pages /\ health \in HealthRow BY <2>1
  <2> HIDE DEF Init
  <2> QED BY <2>4, <2>5, <2>6, <2>7 DEF TypeOK
<1>2. LockExclusive /\ FindingsHold BY DEF LockExclusive, Holds, FindingsHold, NoTransaction
<1>3. ActorsOwn /\ ActorsExclusive BY DEF ActorsOwn, ActorsExclusive, NoRepairTransaction
<1> QED BY <1>1, <1>2, <1>3 DEF IInv

-----------------------------------------------------------------------------
(* A recorder's step that leaves the repairs alone and changes only its    *)
(* own transaction keeps everything about the actors; one that also leaves *)
(* pc before the decision or ends it keeps the findings.                   *)

LEMMA IncrementType == \A n \in 0..Threshold : Increment(n) \in 0..Threshold
BY ThresholdsAssumption DEF Increment

LEMMA ConsecutiveType ==
  ASSUME NEW outcome, NEW saw \in HealthRow, NEW old \in HealthRow
  PROVE  ConsecutiveAfter(outcome, saw, old) \in 0..Threshold
<1>1. saw.cons \in 0..Threshold /\ old.cons \in 0..Threshold BY DEF HealthRow
<1>2. 0 \in 0..Threshold BY ThresholdsAssumption
<1>3. Increment(saw.cons) \in 0..Threshold BY <1>1, IncrementType
<1> QED BY <1>1, <1>2, <1>3 DEF ConsecutiveAfter

\* A transaction ends.
LEMMA EndRecorder ==
  ASSUME TypeOK, LockExclusive, NEW w \in Workers,
         recorder' = [recorder EXCEPT ![w] = NoTransaction]
  PROVE  /\ recorder' \in [Workers -> Transaction]
         /\ LockExclusive'
         /\ \A v \in Workers : recorder'[v].pc # "idle" => v # w /\ recorder'[v] = recorder[v]
<1>1. NewHealth \in HealthRow
  BY ThresholdsAssumption DEF NewHealth, HealthRow, HealthStatus, Outcomes
<1>2. NoTransaction \in Transaction BY <1>1 DEF NoTransaction, Transaction, TransactionRow, Outcomes
<1>3. recorder \in [Workers -> Transaction] BY DEF TypeOK
<1>4. recorder' \in [Workers -> Transaction] BY <1>2, <1>3
<1>5. \A v \in Workers : recorder'[v] = IF v = w THEN NoTransaction ELSE recorder[v]
  BY <1>3
<1>6. \A v \in Workers : recorder'[v].pc # "idle" => v # w /\ recorder'[v] = recorder[v]
  BY <1>5 DEF NoTransaction
<1>7. LockExclusive' BY <1>6 DEF LockExclusive, Holds
<1> QED BY <1>4, <1>6, <1>7

\* A transaction moves on to pc.
LEMMA StepRecorder ==
  ASSUME TypeOK, NEW w \in Workers, NEW pc, NEW verdict, Step(w, pc, verdict),
         pc \in {"flushed", "counted", "unopened", "uncooled", "inserted", "decided"},
         verdict \in {"none", "broken", "repair_queued"},
         verdict # "none" <=> pc \in {"inserted", "decided"}
  PROVE  /\ TypeOK'
         /\ \A v \in Workers : recorder'[v].pc = IF v = w THEN pc ELSE recorder[v].pc
         /\ OpenRepairs' = OpenRepairs /\ cooling' = cooling
<1>1. recorder \in [Workers -> Transaction] BY DEF TypeOK
<1>2. recorder' = [recorder EXCEPT ![w].pc = pc, ![w].verdict = verdict] BY DEF Step
<1>3. recorder' \in [Workers -> Transaction]
  <2>1. recorder[w] \in Transaction BY <1>1
  <2>2. [recorder[w] EXCEPT !.pc = pc, !.verdict = verdict] \in Transaction
    BY <2>1 DEF Transaction, TransactionRow
  <2>3. recorder' = [recorder EXCEPT ![w] = [recorder[w] EXCEPT !.pc = pc, !.verdict = verdict]]
    BY <1>1, <1>2
  <2> QED BY <1>1, <2>2, <2>3
<1>4. TypeOK' BY <1>3 DEF TypeOK, Step
<1>5. \A v \in Workers : recorder'[v].pc = IF v = w THEN pc ELSE recorder[v].pc
  <2>1. recorder[w] \in Transaction BY <1>1
  <2>2. \A v \in Workers \ {w} : recorder'[v] = recorder[v] BY <1>1, <1>2
  <2>3. recorder'[w].pc = pc BY <1>1, <1>2, <2>1 DEF Transaction, TransactionRow
  <2> QED BY <2>2, <2>3
<1>6. OpenRepairs' = OpenRepairs /\ cooling' = cooling BY DEF Step, OpenRepairs
<1> QED BY <1>4, <1>5, <1>6

\* A repair that an actor works on is not absent.
LEMMA ActorsKind ==
  ASSUME TypeOK, ActorsOwn, NEW a \in Actors, actor[a].kind # "none"
  PROVE  /\ actor[a].kind \in Kinds /\ actor[a].repair \in Repairs
         /\ repair[actor[a].repair] \in From(actor[a].kind)
         /\ repair[actor[a].repair] # "absent"
<1>1. actor[a] \in RepairTransaction BY DEF TypeOK
<1>2. actor[a].kind \in Kinds BY <1>1 DEF RepairTransaction
<1>3. "absent" \notin From(actor[a].kind) BY <1>2 DEF From, Kinds
<1> QED BY <1>2, <1>3 DEF ActorsOwn

\* The actors' part of the invariant needs only their own state and, for the
\* repairs they work on, an unchanged status.
LEMMA ActorsKept ==
  ASSUME TypeOK, ActorsOwn, ActorsExclusive, UNCHANGED actor,
         \A r \in Repairs : repair[r] # "absent" => repair'[r] = repair[r]
  PROVE  ActorsOwn' /\ ActorsExclusive'
<1>1. ActorsExclusive' BY DEF ActorsExclusive
<1>2. ActorsOwn' BY ActorsKind DEF ActorsOwn
<1> QED BY <1>1, <1>2

LEMMA BeginIInv ==
  ASSUME IInv, NEW w \in Workers, NEW t \in Targets, NEW outcome \in Outcomes,
         Begin(w, t, outcome)
  PROVE  IInv'
<1> DEFINE tx == [pc |-> "read", targets |-> {t}, outcome |-> outcome,
                  saw |-> health, verdict |-> "none"]
<1>0. TypeOK /\ LockExclusive /\ FindingsHold /\ ActorsOwn /\ ActorsExclusive BY DEF IInv
<1>1. recorder' = [recorder EXCEPT ![w] = tx] BY DEF Begin
<1>2. recorder \in [Workers -> Transaction] BY <1>0 DEF TypeOK
<1>3. tx \in Transaction BY <1>0 DEF TypeOK, Transaction, TransactionRow
<1>4. tx.pc = "read" OBVIOUS
<1> HIDE DEF tx
<1>5. TypeOK' BY <1>0, <1>1, <1>2, <1>3 DEF TypeOK, Begin
<1>6. \A v \in Workers : recorder'[v] = IF v = w THEN tx ELSE recorder[v] BY <1>1, <1>2
<1>7. LockExclusive' BY <1>0, <1>4, <1>6 DEF LockExclusive, Holds
<1>8. FindingsHold' BY <1>0, <1>4, <1>6 DEF FindingsHold, Begin, OpenRepairs
<1>9. ActorsOwn' /\ ActorsExclusive' BY <1>0 DEF ActorsOwn, ActorsExclusive, Begin
<1> QED BY <1>5, <1>7, <1>8, <1>9 DEF IInv

\* Steps of the decision that do not decide on "uncooled" or "inserted".
LEMMA StepIInv ==
  ASSUME IInv, NEW w \in Workers, NEW pc, NEW verdict, Step(w, pc, verdict),
         pc \in {"flushed", "counted", "unopened", "uncooled", "inserted", "decided"},
         verdict \in {"none", "broken", "repair_queued"},
         verdict # "none" <=> pc \in {"inserted", "decided"},
         Holds(w) \/ ~HealthLocked,
         pc \in {"unopened", "uncooled", "inserted"} => OpenRepairs = {},
         pc \in {"uncooled", "inserted"} => ~cooling
  PROVE  IInv'
<1>0. TypeOK /\ LockExclusive /\ FindingsHold /\ ActorsOwn /\ ActorsExclusive BY DEF IInv
<1>1. /\ TypeOK'
      /\ \A v \in Workers : recorder'[v].pc = IF v = w THEN pc ELSE recorder[v].pc
      /\ OpenRepairs' = OpenRepairs /\ cooling' = cooling
  BY <1>0, StepRecorder
<1>2. \A v \in Workers : v # w => ~Holds(v) BY <1>0 DEF LockExclusive, HealthLocked, Holds
<1>3. LockExclusive' BY <1>1, <1>2 DEF LockExclusive, Holds
<1>4. FindingsHold' BY <1>0, <1>1 DEF FindingsHold
<1>5. ActorsOwn' /\ ActorsExclusive' BY <1>0 DEF ActorsOwn, ActorsExclusive, Step
<1> QED BY <1>1, <1>3, <1>4, <1>5 DEF IInv

\* What WriteFailure leaves typed.
LEMMA WriteFailureType ==
  ASSUME TypeOK, NEW w \in Workers, WriteFailure(w)
  PROVE  health' \in HealthRow /\ failing' \in SUBSET Targets
<1> DEFINE saw == recorder[w].saw
           outcome == recorder[w].outcome
           verdict == recorder[w].verdict
<1>1. recorder[w] \in Transaction /\ health \in HealthRow BY DEF TypeOK
<1>2. saw \in HealthRow /\ outcome \in Outcomes \cup {"none"} /\ recorder[w].targets \in SUBSET Targets
      /\ verdict \in {"none", "broken", "repair_queued"}
  BY <1>1 DEF Transaction, TransactionRow
<1>3. ConsecutiveAfter(outcome, saw, health) \in 0..Threshold BY <1>1, <1>2, ConsecutiveType
<1>4. StatusAfter("degraded", saw.status, health.status) \in HealthStatus
  BY <1>1, <1>2 DEF StatusAfter, HealthRow, HealthStatus
<1>5. (IF verdict # "none" THEN verdict ELSE StatusAfter("degraded", saw.status, health.status))
        \in HealthStatus
  BY <1>2, <1>4 DEF HealthStatus
<1>6. health' \in HealthRow BY <1>2, <1>3, <1>5 DEF WriteFailure, HealthRow
<1>7. failing' \in SUBSET Targets BY <1>2 DEF WriteFailure, TypeOK
<1> QED BY <1>6, <1>7

\* A recorder's transaction that commits without a new repair.
LEMMA CommitNothing ==
  ASSUME IInv, NEW w \in Workers, recorder' = [recorder EXCEPT ![w] = NoTransaction],
         health' \in HealthRow, failing' \in SUBSET Targets,
         UNCHANGED <<page, repair, cooling, actor>>, faults' \in 0..MaxFaults
  PROVE  IInv'
<1>0. TypeOK /\ LockExclusive /\ FindingsHold /\ ActorsOwn /\ ActorsExclusive BY DEF IInv
<1>1. /\ recorder' \in [Workers -> Transaction]
      /\ LockExclusive'
      /\ \A v \in Workers : recorder'[v].pc # "idle" => v # w /\ recorder'[v] = recorder[v]
  BY <1>0, EndRecorder
<1>2. TypeOK' BY <1>0, <1>1 DEF TypeOK
<1>3. FindingsHold' BY <1>0, <1>1 DEF FindingsHold, OpenRepairs
<1>4. ActorsOwn' /\ ActorsExclusive' BY <1>0 DEF ActorsOwn, ActorsExclusive
<1> QED BY <1>1, <1>2, <1>3, <1>4 DEF IInv

\* The one step that opens a repair: all other recorders are outside the lock.
LEMMA CommitRepairRow ==
  ASSUME IInv, NEW w \in Workers, CommitFailure(w), recorder[w].pc = "inserted"
  PROVE  IInv'
<1>0. TypeOK /\ LockExclusive /\ FindingsHold /\ ActorsOwn /\ ActorsExclusive BY DEF IInv
<1>1. WriteFailure(w) BY DEF CommitFailure
<1>2. PICK r \in Repairs : repair[r] = "absent" /\ repair' = [repair EXCEPT ![r] = "queued"]
  BY DEF CommitFailure
<1>3. recorder' = [recorder EXCEPT ![w] = NoTransaction] /\ UNCHANGED <<page, cooling, actor, faults>>
  BY <1>1 DEF WriteFailure
<1>4. /\ recorder' \in [Workers -> Transaction]
      /\ LockExclusive'
      /\ \A v \in Workers : recorder'[v].pc # "idle" => v # w /\ recorder'[v] = recorder[v]
  BY <1>0, <1>3, EndRecorder
<1>5. \A v \in Workers : v # w => ~Holds(v) BY <1>0 DEF LockExclusive, Holds
<1>6. FindingsHold' BY <1>4, <1>5 DEF FindingsHold, Holds
<1>7. repair \in [Repairs -> RepairStatus] BY <1>0 DEF TypeOK
<1>8. repair' \in [Repairs -> RepairStatus] BY <1>2, <1>7 DEF RepairStatus, OpenStatuses
<1>9. TypeOK' BY <1>0, <1>1, <1>3, <1>4, <1>8, WriteFailureType DEF TypeOK
<1>10. \A q \in Repairs : repair[q] # "absent" => repair'[q] = repair[q] BY <1>2, <1>7
<1>11. ActorsOwn' /\ ActorsExclusive' BY <1>0, <1>3, <1>10, ActorsKept
<1> QED BY <1>4, <1>6, <1>9, <1>11 DEF IInv

LEMMA RecordIInv ==
  ASSUME IInv, NEW w \in Workers, Record(w)
  PROVE  IInv'
<1>0. TypeOK /\ FindingsHold BY DEF IInv
<1>1. recorder[w] \in Transaction /\ health \in HealthRow BY <1>0 DEF TypeOK
<1>2. faults \in 0..MaxFaults BY <1>0 DEF TypeOK
<1>3. CASE RecordSuccess(w)
  <2> DEFINE saw == recorder[w].saw
  <2>1. saw \in HealthRow BY <1>1 DEF Transaction, TransactionRow
  <2>2. ConsecutiveAfter("succeeded", saw, health) \in 0..Threshold
    BY <1>1, <2>1, ConsecutiveType
  <2>3. StatusAfter("healthy", saw.status, health.status) \in HealthStatus
    BY <1>1, <2>1 DEF StatusAfter, HealthRow, HealthStatus
  <2>4. health' \in HealthRow BY <1>3, <2>2, <2>3 DEF RecordSuccess, HealthRow, Outcomes
  <2>5. failing' \in SUBSET Targets BY <1>0, <1>3 DEF RecordSuccess, TypeOK
  <2> QED BY <1>2, <1>3, <2>4, <2>5, CommitNothing DEF RecordSuccess
<1>4. CASE RecordFailure(w)
  <2>1. WriteFailure(w) BY <1>4 DEF RecordFailure
  <2>2. health' \in HealthRow /\ failing' \in SUBSET Targets BY <1>0, <2>1, WriteFailureType
  <2> QED BY <1>2, <1>4, <2>1, <2>2, CommitNothing DEF RecordFailure, WriteFailure
<1>5. CASE Flush(w)
  <2>1. Step(w, "flushed", "none") /\ ~HealthLocked BY <1>5 DEF Flush
  <2> QED BY <2>1, StepIInv
<1>6. CASE CountTargets(w)
  <2>1. Holds(w) BY <1>6 DEF CountTargets, Holds
  <2>2. Step(w, "decided", "broken") \/ Step(w, "counted", "none") BY <1>6 DEF CountTargets
  <2> QED BY <2>1, <2>2, StepIInv
<1>7. CASE FindOpenRepair(w)
  <2>1. Holds(w) BY <1>7 DEF FindOpenRepair, Holds
  <2>2. CASE OpenRepairs # {}
    <3>1. Step(w, "decided", "repair_queued") BY <1>7, <2>2 DEF FindOpenRepair
    <3> QED BY <2>1, <3>1, StepIInv
  <2>3. CASE OpenRepairs = {}
    <3>1. Step(w, "unopened", "none") BY <1>7, <2>3 DEF FindOpenRepair
    <3> QED BY <2>1, <2>3, <3>1, StepIInv
  <2> QED BY <2>2, <2>3
<1>8. CASE CheckCooldown(w)
  <2>1. Holds(w) BY <1>8 DEF CheckCooldown, Holds
  <2>2. OpenRepairs = {} BY <1>0, <1>8 DEF CheckCooldown, FindingsHold
  <2>3. CASE cooling
    <3>1. Step(w, "decided", "broken") BY <1>8, <2>3 DEF CheckCooldown
    <3> QED BY <2>1, <3>1, StepIInv
  <2>4. CASE ~cooling
    <3>1. Step(w, "uncooled", "none") BY <1>8, <2>4 DEF CheckCooldown
    <3> QED BY <2>1, <2>2, <2>4, <3>1, StepIInv
  <2> QED BY <2>3, <2>4
<1>9. CASE InsertRepair(w)
  <2>1. Holds(w) BY <1>9 DEF InsertRepair, Holds
  <2>2. OpenRepairs = {} /\ ~cooling BY <1>0, <1>9 DEF InsertRepair, FindingsHold
  <2>3. Step(w, "inserted", "repair_queued") BY <1>9, <2>2 DEF InsertRepair
  <2> QED BY <2>1, <2>2, <2>3, StepIInv
<1>10. CASE CommitFailure(w)
  <2>1. CASE recorder[w].pc = "inserted" BY <1>10, <2>1, CommitRepairRow
  <2>2. CASE recorder[w].pc # "inserted"
    <3>1. WriteFailure(w) /\ UNCHANGED repair BY <1>10, <2>2 DEF CommitFailure
    <3>2. health' \in HealthRow /\ failing' \in SUBSET Targets BY <1>0, <3>1, WriteFailureType
    <3> QED BY <1>2, <3>1, <3>2, CommitNothing DEF WriteFailure
  <2> QED BY <2>1, <2>2
<1> QED BY <1>3, <1>4, <1>5, <1>6, <1>7, <1>8, <1>9, <1>10 DEF Record

-----------------------------------------------------------------------------
(* The coordinator and the environment.                                    *)

\* A repair transaction opens no repair, and finishes only an open one.
LEMMA MoveClosed ==
  ASSUME NEW kind \in Kinds
  PROVE  /\ To(kind) \in OpenStatuses => From(kind) \subseteq OpenStatuses
         /\ Finishes(kind) => From(kind) \subseteq OpenStatuses
         /\ To(kind) \in RepairStatus /\ Shows(kind) \in HealthStatus
BY DEF Kinds, To, From, OpenStatuses, Finishes, RepairStatus, Shows, HealthStatus

LEMMA BeginRepairIInv ==
  ASSUME IInv, NEW a \in Actors, NEW kind \in Kinds, NEW r \in Repairs, BeginRepair(a, kind, r)
  PROVE  IInv'
<1> DEFINE tx == [kind |-> kind, repair |-> r, saw |-> health.status]
<1>0. TypeOK /\ LockExclusive /\ FindingsHold /\ ActorsOwn /\ ActorsExclusive BY DEF IInv
<1>1. actor \in [Actors -> RepairTransaction] /\ health \in HealthRow BY <1>0 DEF TypeOK
<1>2. tx \in RepairTransaction
  <2>1. r \in 0..MaxRepairs BY BoundsAssumption DEF Repairs
  <2> QED BY <1>1, <2>1 DEF RepairTransaction, HealthRow
<1>3. tx.kind = kind /\ tx.repair = r OBVIOUS
<1>4. actor' = [actor EXCEPT ![a] = tx] BY DEF BeginRepair
<1> HIDE DEF tx
<1>5. \A b \in Actors : actor'[b] = IF b = a THEN tx ELSE actor[b] BY <1>1, <1>4
<1>6. actor' \in [Actors -> RepairTransaction] BY <1>1, <1>2, <1>4
<1>7. TypeOK' BY <1>0, <1>6 DEF TypeOK, BeginRepair
<1>8. UNCHANGED <<repair, recorder, cooling>> BY DEF BeginRepair
<1>9. LockExclusive' /\ FindingsHold'
  BY <1>0, <1>8 DEF LockExclusive, Holds, FindingsHold, OpenRepairs
<1>10. repair[r] \in From(kind) /\ \A b \in Actors : actor[b].repair # r BY DEF BeginRepair
<1>11. ActorsOwn' BY <1>0, <1>3, <1>5, <1>8, <1>10 DEF ActorsOwn
<1>12. ActorsExclusive' BY <1>0, <1>3, <1>5, <1>10 DEF ActorsExclusive
<1> QED BY <1>7, <1>9, <1>11, <1>12 DEF IInv

\* An actor's transaction ends.
LEMMA EndActor ==
  ASSUME TypeOK, NEW a \in Actors, actor' = [actor EXCEPT ![a] = NoRepairTransaction]
  PROVE  /\ actor' \in [Actors -> RepairTransaction]
         /\ \A b \in Actors : actor'[b].kind # "none" => b # a /\ actor'[b] = actor[b]
<1>1. actor \in [Actors -> RepairTransaction] BY DEF TypeOK
<1>2. NoRepairTransaction \in RepairTransaction
  BY BoundsAssumption DEF NoRepairTransaction, RepairTransaction, HealthStatus
<1>3. actor' \in [Actors -> RepairTransaction] BY <1>1, <1>2
<1>4. \A b \in Actors : actor'[b] = IF b = a THEN NoRepairTransaction ELSE actor[b] BY <1>1
<1> QED BY <1>3, <1>4 DEF NoRepairTransaction

LEMMA CommitRepairIInv ==
  ASSUME IInv, NEW a \in Actors, CommitRepair(a)
  PROVE  IInv'
<1> DEFINE kind == actor[a].kind
           r == actor[a].repair
<1>0. TypeOK /\ LockExclusive /\ FindingsHold /\ ActorsOwn /\ ActorsExclusive BY DEF IInv
<1>1. kind # "none" BY DEF CommitRepair
<1>2. kind \in Kinds /\ r \in Repairs /\ repair[r] \in From(kind) BY <1>0, <1>1, ActorsKind
<1>3. /\ To(kind) \in OpenStatuses => From(kind) \subseteq OpenStatuses
      /\ Finishes(kind) => From(kind) \subseteq OpenStatuses
      /\ To(kind) \in RepairStatus /\ Shows(kind) \in HealthStatus
  BY <1>2, MoveClosed
<1>4. /\ health' = [health EXCEPT !.status = StatusAfter(Shows(kind), actor[a].saw, @)]
      /\ repair' = [repair EXCEPT ![r] = To(kind)]
      /\ cooling' = (cooling \/ Finishes(kind))
      /\ actor' = [actor EXCEPT ![a] = NoRepairTransaction]
      /\ UNCHANGED <<page, failing, recorder, faults>>
  BY DEF CommitRepair
<1> HIDE DEF kind, r
<1>5. repair \in [Repairs -> RepairStatus] /\ health \in HealthRow BY <1>0 DEF TypeOK
<1>6. repair' \in [Repairs -> RepairStatus] BY <1>3, <1>4, <1>5
<1>7. /\ actor' \in [Actors -> RepairTransaction]
      /\ \A b \in Actors : actor'[b].kind # "none" => b # a /\ actor'[b] = actor[b]
  BY <1>0, <1>4, EndActor
<1>8. health' \in HealthRow
  <2>1. StatusAfter(Shows(kind), actor[a].saw, health.status) \in HealthStatus
    BY <1>3, <1>5 DEF StatusAfter, HealthRow
  <2> QED BY <1>4, <1>5, <2>1 DEF HealthRow
<1>9. cooling' \in BOOLEAN BY <1>0, <1>4 DEF TypeOK, Finishes
<1>10. TypeOK' BY <1>0, <1>4, <1>6, <1>7, <1>8, <1>9 DEF TypeOK
<1>11. LockExclusive' BY <1>0, <1>4 DEF LockExclusive, Holds
<1>12. OpenRepairs' \subseteq OpenRepairs BY <1>2, <1>3, <1>4, <1>5 DEF OpenRepairs
<1>13. Finishes(kind) => OpenRepairs # {} BY <1>2, <1>3 DEF OpenRepairs
<1>14. FindingsHold' BY <1>0, <1>4, <1>12, <1>13 DEF FindingsHold
<1>15. \A b \in Actors : b # a /\ actor[b].kind # "none" => actor[b].repair # r
  BY <1>0, <1>1 DEF ActorsExclusive, kind, r
<1>16. ActorsOwn'
  <2> SUFFICES ASSUME NEW b \in Actors, actor'[b].kind # "none"
               PROVE  /\ actor'[b].repair \in Repairs
                      /\ repair'[actor'[b].repair] \in From(actor'[b].kind)
    BY DEF ActorsOwn
  <2>1. b # a /\ actor'[b] = actor[b] BY <1>7
  <2>2. actor[b].repair \in Repairs /\ repair[actor[b].repair] \in From(actor[b].kind)
    BY <1>0, <2>1 DEF ActorsOwn
  <2>3. repair'[actor[b].repair] = repair[actor[b].repair] BY <1>4, <1>5, <1>15, <2>1, <2>2
  <2> QED BY <2>1, <2>2, <2>3
<1>17. ActorsExclusive' BY <1>0, <1>7 DEF ActorsExclusive
<1> QED BY <1>10, <1>11, <1>14, <1>16, <1>17 DEF IInv

LEMMA AbortIInv ==
  ASSUME IInv, NEW w \in Workers, Abort(w)
  PROVE  IInv'
<1>1. faults' \in 0..MaxFaults BY BoundsAssumption DEF IInv, TypeOK, Abort
<1>2. health' \in HealthRow /\ failing' \in SUBSET Targets BY DEF IInv, TypeOK, Abort
<1> QED BY <1>1, <1>2, CommitNothing DEF Abort

LEMMA AbortRepairIInv ==
  ASSUME IInv, NEW a \in Actors, AbortRepair(a)
  PROVE  IInv'
<1>0. TypeOK /\ LockExclusive /\ FindingsHold /\ ActorsOwn /\ ActorsExclusive BY DEF IInv
<1>1. /\ actor' \in [Actors -> RepairTransaction]
      /\ \A b \in Actors : actor'[b].kind # "none" => b # a /\ actor'[b] = actor[b]
  BY <1>0, EndActor DEF AbortRepair
<1>2. faults' \in 0..MaxFaults BY <1>0, BoundsAssumption DEF TypeOK, AbortRepair
<1>3. TypeOK' BY <1>0, <1>1, <1>2 DEF TypeOK, AbortRepair
<1>4. LockExclusive' /\ FindingsHold'
  BY <1>0 DEF LockExclusive, Holds, FindingsHold, OpenRepairs, AbortRepair
<1>5. ActorsOwn' BY <1>0, <1>1 DEF ActorsOwn, AbortRepair
<1>6. ActorsExclusive' BY <1>0, <1>1 DEF ActorsExclusive
<1> QED BY <1>3, <1>4, <1>5, <1>6 DEF IInv

\* Time and the site touch nothing that the invariant relates, except that the
\* cooldown ends.
LEMMA EnvironmentIInv ==
  ASSUME IInv, UNCHANGED <<health, repair, recorder, actor, faults>>,
         page' \in Pages, failing' \in SUBSET Targets, cooling' = cooling \/ cooling' = FALSE
  PROVE  IInv'
<1>0. TypeOK /\ LockExclusive /\ FindingsHold /\ ActorsOwn /\ ActorsExclusive BY DEF IInv
<1>1. cooling' \in BOOLEAN BY <1>0 DEF TypeOK
<1>2. TypeOK' BY <1>0, <1>1 DEF TypeOK
<1>3. LockExclusive' /\ FindingsHold' BY <1>0 DEF LockExclusive, Holds, FindingsHold, OpenRepairs
<1>4. ActorsOwn' /\ ActorsExclusive' BY <1>0 DEF ActorsOwn, ActorsExclusive
<1> QED BY <1>2, <1>3, <1>4 DEF IInv

LEMMA NextIInv == IInv /\ [Next]_vars => IInv'
<1> SUFFICES ASSUME IInv, [Next]_vars PROVE IInv' OBVIOUS
<1>0. page \in Pages /\ failing \in SUBSET Targets BY DEF IInv, TypeOK
<1>1. ASSUME NEW t \in Targets, Scrape(t) PROVE IInv' BY <1>1, BeginIInv DEF Scrape
<1>2. ASSUME NEW t \in Targets, WindowPasses(t) PROVE IInv'
  BY <1>0, <1>2, EnvironmentIInv DEF WindowPasses
<1>3. ASSUME NEW w \in Workers, Record(w) PROVE IInv' BY <1>3, RecordIInv
<1>4. ASSUME NEW w \in Workers, Abort(w) PROVE IInv' BY <1>4, AbortIInv
<1>5. ASSUME NEW a \in Actors, CommitRepair(a) PROVE IInv' BY <1>5, CommitRepairIInv
<1>6. ASSUME NEW a \in Actors, AbortRepair(a) PROVE IInv' BY <1>6, AbortRepairIInv
<1>7. ASSUME NEW a \in Actors, NEW k \in Kinds, NEW r \in Repairs, BeginRepair(a, k, r)
      PROVE IInv'
  BY <1>7, BeginRepairIInv
<1>8. CASE CooldownEnds BY <1>0, <1>8, EnvironmentIInv DEF CooldownEnds
<1>9. ASSUME NEW p \in Pages, PageBecomes(p) PROVE IInv'
  BY <1>0, <1>9, EnvironmentIInv DEF PageBecomes
<1>10. CASE UNCHANGED vars BY <1>0, <1>10, EnvironmentIInv DEF vars
<1> QED BY <1>1, <1>2, <1>3, <1>4, <1>5, <1>6, <1>7, <1>8, <1>9, <1>10 DEF Next

\* The inductive invariant holds in every reachable state.
THEOREM Invariance == Spec => []IInv
BY InitIInv, NextIInv, PTL DEF Spec

\* Every variable keeps its type, for every instance.
THEOREM TypeCorrect == Spec => []TypeOK
<1>1. IInv => TypeOK BY DEF IInv
<1> QED BY <1>1, Invariance, PTL

\* The decisions of one competitor take turns on the flushed health row, so
\* the partial unique index is never met.
THEOREM Uncontested == Spec => []InsertUncontested
<1>1. IInv => InsertUncontested BY DEF IInv, FindingsHold, InsertUncontested
<1> QED BY <1>1, Invariance, PTL

-----------------------------------------------------------------------------
(* The cooldown.                                                           *)

LEMMA StepCold == IInv /\ [Next]_vars => NewRepairsCold
<1> SUFFICES ASSUME IInv, [Next]_vars, NEW r \in Repairs,
                    repair[r] = "absent", repair'[r] # "absent"
             PROVE  ~cooling
  BY DEF NewRepairsCold
<1>0. TypeOK /\ FindingsHold /\ ActorsOwn BY DEF IInv
<1>1. repair' # repair OBVIOUS
<1>2. ASSUME NEW w \in Workers, Record(w) PROVE ~cooling
  <2>1. CommitFailure(w)
    BY <1>1, <1>2 DEF Record, RecordSuccess, RecordFailure, Flush, CountTargets,
       FindOpenRepair, CheckCooldown, InsertRepair, Step
  <2>2. recorder[w].pc = "inserted" BY <1>1, <2>1 DEF CommitFailure
  <2> QED BY <1>0, <2>2 DEF FindingsHold
<1>3. ASSUME NEW a \in Actors, CommitRepair(a) PROVE FALSE
  <2>1. actor[a].kind # "none" /\ repair' = [repair EXCEPT ![actor[a].repair] = To(actor[a].kind)]
    BY <1>3 DEF CommitRepair
  <2>2. actor[a].repair = r BY <2>1, <1>0 DEF TypeOK
  <2> QED BY <1>0, <2>1, <2>2, ActorsKind
<1>4. \/ \E w \in Workers : Record(w)
      \/ \E a \in Actors : CommitRepair(a)
  BY <1>1 DEF Next, vars, Scrape, Begin, WindowPasses, Abort, AbortRepair, BeginRepair,
     CooldownEnds, PageBecomes
<1> QED BY <1>2, <1>3, <1>4

\* No repair is opened within the cooldown of a finished one.
THEOREM Cooldown == Spec => CooldownKept
<1>1. IInv /\ [Next]_vars => [NewRepairsCold]_vars BY StepCold
<1> QED BY <1>1, Invariance, PTL DEF Spec, CooldownKept
=============================================================================
