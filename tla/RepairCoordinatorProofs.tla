----------------------- MODULE RepairCoordinatorProofs -----------------------
(***************************************************************************)
(* Proofs about RepairCoordinator for any number of competitors, revisions,*)
(* workers, operators and faults: only the holder of a lease decides, only *)
(* a reviewed candidate replaces the revision it was reviewed against, and *)
(* without faults a single operator keeps store and database in step.      *)
(*                                                                         *)
(* The argument: the baseline of a repair never changes once it was asked  *)
(* for, so what a worker had reviewed is still about its row when it gives *)
(* the verdict; and a repair that has its verdict is never evaluated again,*)
(* so what a command deploys is settled while the command runs.            *)
(***************************************************************************)
EXTENDS RepairCoordinator, TLAPS

\* A row that is in use belongs to a competitor and has a baseline, and a
\* validated one was reviewed against its own baseline.
InUse(r) == repair[r].of \in Competitors /\ repair[r].baseline \in Revisions

RowReviewed(r) ==
  /\ repair[r] # NoRow => InUse(r)
  /\ repair[r].status = "validated" => <<repair[r].candidate, repair[r].baseline>> \in reviewed

WorkerRelies(w) ==
  worker[w].pc # "idle" =>
    /\ worker[w].repair \in Repairs /\ InUse(worker[w].repair)
    /\ worker[w].pc \in {"staging", "accepted"} =>
         <<worker[w].candidate, repair[worker[w].repair].baseline>> \in reviewed

\* The repair that a command deploys is not going to be evaluated again.
Settled == {"validated", "deployed", "rolled_back"}

OperatorRelies(o) ==
  operator[o].pc # "idle" =>
    /\ operator[o].of \in Competitors
    /\ operator[o].new \in Revisions /\ operator[o].old \in Revisions
    /\ operator[o].pc = "deploying" =>
         operator[o].repair \in Repairs /\ repair[operator[o].repair].status \in Settled

IInv ==
  /\ TypeOK
  /\ \A r \in Repairs : RowReviewed(r)
  /\ \A w \in Workers : WorkerRelies(w)
  /\ \A o \in Operators : OperatorRelies(o)

\* One operator and no faults: the pair of the store is that of a competitor, or
\* the command that is running is going to write it.
Agree(c) == competitor[c].active = store.current /\ competitor[c].previous = store.previous

Follows ==
  faults = 0 /\ OneOperator =>
    /\ \A o \in Operators : operator[o].pc # "idle" =>
         /\ store.current = operator[o].new /\ store.previous = operator[o].old
         /\ competitor[operator[o].of] = operator[o].seen
    /\ NoCommand => \E c \in Competitors : Agree(c)

\* What no step does to a row that is in use.
RowMoves(r) ==
  /\ InUse(r) => InUse(r)' /\ repair'[r].baseline = repair[r].baseline
  /\ repair[r].status \in Settled => repair'[r].status \in Settled

-----------------------------------------------------------------------------
LEMMA Rows ==
  /\ NoRow \in Row
  /\ IdleWorker \in Worker /\ IdleWorker.pc = "idle"
  /\ IdleOperator \in Operator /\ IdleOperator.pc = "idle"
  /\ NoRow.status = "absent"
<1>1. NoRow \in Row
  BY DEF NoRow, Row, Status, Open, Undecided, Held, OptRevision
<1>2. 0 \in 0..MaxRepairs BY BoundsAssumption
<1>3. IdleWorker \in Worker BY <1>2 DEF IdleWorker, Worker, OptRevision
<1>4. IdleOperator \in Operator
  BY <1>2 DEF IdleOperator, Operator, OptRevision, Columns, NoColumns
<1> QED BY <1>1, <1>3, <1>4 DEF IdleWorker, IdleOperator, NoRow

LEMMA InitIInv == Init => IInv
<1> SUFFICES ASSUME Init PROVE IInv OBVIOUS
<1>1. TypeOK
  <2>1. store \in [current : Revisions, previous : OptRevision]
    BY RevisionsAssumption DEF Init, OptRevision
  <2>2. competitor \in [Competitors -> [active : Revisions, previous : OptRevision]]
    BY RevisionsAssumption DEF Init, OptRevision
  <2>3. repair \in [Repairs -> Row] /\ \A r \in Repairs : ~repair[r].live
    BY Rows DEF Init, NoRow
  <2>4. worker \in [Workers -> Worker] /\ operator \in [Operators -> Operator]
    BY Rows DEF Init
  <2>5. rollbacks \in 0..MaxRollbacks /\ faults \in 0..MaxFaults
    BY BoundsAssumption DEF Init
  <2>6. staged \subseteq Revisions /\ reviewed \subseteq Revisions \X Revisions BY DEF Init
  <2>7. used \in [Competitors -> SUBSET Revisions] BY RevisionsAssumption DEF Init
  <2> QED BY <2>1, <2>2, <2>3, <2>4, <2>5, <2>6, <2>7 DEF TypeOK
<1>2. \A r \in Repairs : RowReviewed(r) BY DEF Init, RowReviewed, NoRow
<1>3. \A w \in Workers : WorkerRelies(w) BY Rows DEF Init, WorkerRelies
<1>4. \A o \in Operators : OperatorRelies(o) BY Rows DEF Init, OperatorRelies
<1> QED BY <1>1, <1>2, <1>3, <1>4 DEF IInv

LEMMA InitFollows == Init => Follows
<1> SUFFICES ASSUME Init PROVE Follows OBVIOUS
<1>1. PICK c \in Competitors : TRUE BY RevisionsAssumption
<1>2. Agree(c) BY <1>1 DEF Init, Agree
<1>3. \A o \in Operators : operator[o].pc = "idle" BY Rows DEF Init
<1> QED BY <1>2, <1>3 DEF Follows

-----------------------------------------------------------------------------
(* What a step leaves to those it is not a step of.                        *)

LEMMA StepOf ==
  ASSUME IInv, TypeOK', reviewed \subseteq reviewed',
         \A r \in Repairs : RowMoves(r) /\ (repair'[r] = repair[r] \/ RowReviewed(r)'),
         \A w \in Workers : worker'[w] = worker[w] \/ WorkerRelies(w)',
         \A o \in Operators : operator'[o] = operator[o] \/ OperatorRelies(o)'
  PROVE  IInv'
<1>1. \A r \in Repairs : RowReviewed(r)' BY DEF IInv, RowReviewed, InUse
<1>2. ASSUME NEW w \in Workers, worker'[w] = worker[w] PROVE WorkerRelies(w)'
  BY <1>2 DEF IInv, WorkerRelies, RowMoves, InUse
<1>3. ASSUME NEW o \in Operators, operator'[o] = operator[o] PROVE OperatorRelies(o)'
  BY <1>3 DEF IInv, OperatorRelies, RowMoves
<1> QED BY <1>1, <1>2, <1>3 DEF IInv

\* A step that writes row r alone.
LEMMA RowStep ==
  ASSUME IInv, NEW r \in Repairs, NEW row \in Row,
         repair' = [repair EXCEPT ![r] = row],
         row.live => row.status \in Held
  PROVE  /\ repair' \in [Repairs -> Row]
         /\ \A q \in Repairs : repair'[q].live => repair'[q].status \in Held
         /\ repair'[r] = row
         /\ \A q \in Repairs : q # r => repair'[q] = repair[q] /\ RowMoves(q)
<1>1. repair \in [Repairs -> Row] /\ \A q \in Repairs : repair[q].live => repair[q].status \in Held
  BY DEF IInv, TypeOK
<1>2. repair'[r] = row /\ \A q \in Repairs : q # r => repair'[q] = repair[q] BY <1>1
<1>3. \A q \in Repairs : q # r => RowMoves(q) BY <1>2 DEF RowMoves, InUse
<1> QED BY <1>1, <1>2, <1>3

LEMMA RowsStay ==
  ASSUME repair' = repair
  PROVE  \A r \in Repairs : RowMoves(r) /\ (repair'[r] = repair[r] \/ RowReviewed(r)')
BY DEF RowMoves, InUse

-----------------------------------------------------------------------------
(* The steps.                                                              *)

LEMMA RequestStep ==
  ASSUME IInv, NEW c \in Competitors, NEW rev \in Revisions, RequestRepair(c, rev)
  PROVE  IInv'
<1>1. PICK r \in Repairs :
        /\ repair[r] = NoRow
        /\ repair' = [repair EXCEPT ![r] = [NoRow EXCEPT !.of = c, !.status = "queued", !.baseline = rev]]
  BY DEF RequestRepair
<1> DEFINE row == [NoRow EXCEPT !.of = c, !.status = "queued", !.baseline = rev]
<1>2. row \in Row /\ row.of = c /\ row.status = "queued" /\ row.live = FALSE
      /\ row.baseline = rev
  BY DEF NoRow, Row, Status, Open, Undecided, OptRevision
<1>3. repair' = [repair EXCEPT ![r] = row] BY <1>1
<1> HIDE DEF row
<1>4. /\ repair' \in [Repairs -> Row]
      /\ \A q \in Repairs : repair'[q].live => repair'[q].status \in Held
      /\ repair'[r] = row
      /\ \A q \in Repairs : q # r => repair'[q] = repair[q] /\ RowMoves(q)
  BY <1>2, <1>3, RowStep
<1>5. RowMoves(r) /\ RowReviewed(r)'
  BY <1>1, <1>2, <1>4, RevisionsAssumption DEF RowMoves, RowReviewed, InUse, NoRow, Settled
<1>6. TypeOK' BY <1>4 DEF IInv, TypeOK, RequestRepair
<1> QED BY <1>4, <1>5, <1>6, StepOf DEF RequestRepair

LEMMA ClaimStep ==
  ASSUME IInv, NEW w \in Workers, NEW r \in Repairs, Claim(w, r)
  PROVE  IInv'
<1> DEFINE row == [repair[r] EXCEPT !.status = "diagnosing", !.candidate = None,
                                    !.token = repair[r].token + 1, !.live = TRUE]
           new == [pc |-> "building", repair |-> r, token |-> repair[r].token + 1, candidate |-> None]
<1>1. repair[r] \in Row /\ repair[r].token \in Nat BY DEF IInv, TypeOK, Row
<1>2. repair[r].token + 1 \in Nat BY <1>1
<1>3. row \in Row BY <1>1, <1>2 DEF Row, Status, Open, Undecided, Held, OptRevision
<1>4. row.of = repair[r].of /\ row.baseline = repair[r].baseline /\ row.status = "diagnosing"
  BY <1>1 DEF Row
<1>5. repair' = [repair EXCEPT ![r] = row] BY DEF Claim
<1>6. new \in Worker BY <1>2 DEF Worker, Repairs, OptRevision
<1>7. worker \in [Workers -> Worker] /\ worker' = [worker EXCEPT ![w] = new]
  BY DEF Claim, IInv, TypeOK
<1>8. new.pc = "building" /\ new.repair = r OBVIOUS
<1>9. repair[r].status \in Undecided BY DEF Claim, Claimable, Undecided
<1>10. InUse(r)
  <2>1. repair[r] # NoRow BY <1>9, Rows DEF Undecided, Held
  <2> QED BY <2>1 DEF IInv, RowReviewed
<1> HIDE DEF row, new
<1>11. /\ repair' \in [Repairs -> Row]
       /\ \A q \in Repairs : repair'[q].live => repair'[q].status \in Held
       /\ repair'[r] = row
       /\ \A q \in Repairs : q # r => repair'[q] = repair[q] /\ RowMoves(q)
  BY <1>3, <1>4, <1>5, RowStep DEF Held
<1>12. RowMoves(r) /\ RowReviewed(r)'
  BY <1>4, <1>9, <1>10, <1>11 DEF RowMoves, RowReviewed, InUse, Settled, Undecided, Held
<1>13. worker' \in [Workers -> Worker] /\ worker'[w] = new
       /\ \A v \in Workers : v # w => worker'[v] = worker[v]
  BY <1>6, <1>7
<1>14. WorkerRelies(w)' BY <1>8, <1>10, <1>12, <1>13 DEF WorkerRelies, RowMoves
<1>15. TypeOK' BY <1>11, <1>13 DEF IInv, TypeOK, Claim
<1> QED BY <1>11, <1>12, <1>13, <1>14, <1>15, StepOf DEF Claim

\* What worker w relies on after a step that gives it the record new.
LEMMA WorkerMoves ==
  ASSUME IInv, NEW w \in Workers, NEW new \in Worker, worker' = [worker EXCEPT ![w] = new],
         reviewed \subseteq reviewed', \A r \in Repairs : RowMoves(r),
         new.pc # "idle" => worker[w].pc # "idle" /\ new.repair = worker[w].repair,
         new.pc \in {"staging", "accepted"} =>
           <<new.candidate, repair[new.repair].baseline>> \in reviewed'
  PROVE  /\ worker' \in [Workers -> Worker]
         /\ \A v \in Workers : worker'[v] = worker[v] \/ WorkerRelies(v)'
<1>1. worker \in [Workers -> Worker] BY DEF IInv, TypeOK
<1>2. worker'[w] = new /\ worker' \in [Workers -> Worker]
      /\ \A v \in Workers : v # w => worker'[v] = worker[v]
  BY <1>1
<1>3. WorkerRelies(w)'
  BY <1>2 DEF IInv, WorkerRelies, RowMoves, InUse
<1> QED BY <1>2, <1>3

\* A step of a worker that leaves the rows.
LEMMA WorkerAlone ==
  ASSUME IInv, NEW w \in Workers, NEW new \in Worker, worker' = [worker EXCEPT ![w] = new],
         repair' = repair, operator' = operator, store' = store, competitor' = competitor,
         used' = used, rollbacks' = rollbacks, faults' \in 0..MaxFaults,
         staged' \subseteq Revisions,
         reviewed \subseteq reviewed', reviewed' \subseteq Revisions \X Revisions,
         new.pc # "idle" => worker[w].pc # "idle" /\ new.repair = worker[w].repair,
         new.pc \in {"staging", "accepted"} =>
           <<new.candidate, repair[new.repair].baseline>> \in reviewed'
  PROVE  IInv'
<1>1. \A r \in Repairs : RowMoves(r) /\ (repair'[r] = repair[r] \/ RowReviewed(r)')
  BY RowsStay
<1>2. /\ worker' \in [Workers -> Worker]
      /\ \A v \in Workers : worker'[v] = worker[v] \/ WorkerRelies(v)'
  BY <1>1, WorkerMoves
<1>3. TypeOK' BY <1>2 DEF IInv, TypeOK
<1> QED BY <1>1, <1>2, <1>3, StepOf

LEMMA MoveRecord ==
  ASSUME IInv, NEW w \in Workers, NEW pc, Move(w, pc),
         pc \in {"idle", "building", "evaluating", "proposing", "staging",
                 "accepted", "refused", "failing"}
  PROVE  \E new \in Worker :
           /\ worker' = [worker EXCEPT ![w] = new]
           /\ new.pc = pc /\ new.repair = worker[w].repair /\ new.candidate = worker[w].candidate
<1> DEFINE new == [worker[w] EXCEPT !.pc = pc]
<1>1. worker[w] \in Worker BY DEF IInv, TypeOK
<1>2. /\ new \in Worker /\ new.pc = pc
      /\ new.repair = worker[w].repair /\ new.candidate = worker[w].candidate
  BY <1>1 DEF Worker
<1>3. worker' = [worker EXCEPT ![w] = new] BY DEF Move
<1> QED BY <1>2, <1>3

LEMMA Leaves ==
  ASSUME IInv, NEW w \in Workers, LeaveWorker(w)
  PROVE  \E new \in Worker : worker' = [worker EXCEPT ![w] = new] /\ new.pc = "idle"
BY Rows DEF LeaveWorker

LEMMA BeginTestingStep ==
  ASSUME IInv, NEW w \in Workers, BeginTesting(w)
  PROVE  IInv'
<1>1. PICK r \in Repairs : r = worker[w].repair /\ InUse(r)
  BY DEF IInv, WorkerRelies, BeginTesting
<1> DEFINE row == [repair[r] EXCEPT !.status = "testing"]
<1>2. repair[r] \in Row /\ repair[r].status \in Held BY <1>1 DEF IInv, TypeOK, BeginTesting, Owns
<1>3. /\ row \in Row /\ row.of = repair[r].of /\ row.baseline = repair[r].baseline
      /\ row.status = "testing"
  BY <1>2 DEF Row, Status, Open, Undecided, Held
<1>4. repair' = [repair EXCEPT ![r] = row] BY <1>1 DEF BeginTesting
<1>5. PICK new \in Worker :
        /\ worker' = [worker EXCEPT ![w] = new]
        /\ new.pc = "evaluating" /\ new.repair = worker[w].repair
  BY MoveRecord DEF BeginTesting
<1>6. worker[w].pc = "building" BY DEF BeginTesting
<1> HIDE DEF row
<1>7. /\ repair' \in [Repairs -> Row]
      /\ \A q \in Repairs : repair'[q].live => repair'[q].status \in Held
      /\ repair'[r] = row
      /\ \A q \in Repairs : q # r => repair'[q] = repair[q] /\ RowMoves(q)
  BY <1>3, <1>4, RowStep DEF Held
<1>8. RowMoves(r) /\ RowReviewed(r)'
  BY <1>1, <1>2, <1>3, <1>7 DEF RowMoves, RowReviewed, InUse, Settled, Held
<1>9. /\ worker' \in [Workers -> Worker]
      /\ \A v \in Workers : worker'[v] = worker[v] \/ WorkerRelies(v)'
  BY <1>5, <1>6, <1>7, <1>8, WorkerMoves DEF BeginTesting
<1>10. TypeOK' BY <1>7, <1>9 DEF IInv, TypeOK, BeginTesting
<1> QED BY <1>7, <1>8, <1>9, <1>10, StepOf DEF BeginTesting

LEMMA FailsStep ==
  ASSUME IInv, NEW w \in Workers, Fails(w) \/ CheckBaseline(w)
  PROVE  IInv'
<1>1. PICK new \in Worker :
        /\ worker' = [worker EXCEPT ![w] = new]
        /\ new.pc \in {"failing", "proposing"} /\ new.repair = worker[w].repair
  BY MoveRecord DEF Fails, CheckBaseline
<1>2. worker[w].pc # "idle" BY DEF Fails, CheckBaseline
<1> QED BY <1>1, <1>2, WorkerAlone DEF Fails, CheckBaseline, IInv, TypeOK

LEMMA ProposeStep ==
  ASSUME IInv, NEW w \in Workers, NEW c \in Revisions, Propose(w, c)
  PROVE  IInv'
<1> DEFINE old == repair[worker[w].repair].baseline
           staging == [worker[w] EXCEPT !.pc = "staging", !.candidate = c]
           refused == [worker[w] EXCEPT !.pc = "refused", !.candidate = c]
<1>1. worker[w] \in Worker /\ worker[w].pc = "proposing" BY DEF IInv, TypeOK, Propose
<1>2. worker \in [Workers -> Worker] BY DEF IInv, TypeOK
<1>3. /\ staging \in Worker /\ staging.repair = worker[w].repair
      /\ staging.pc = "staging" /\ staging.candidate = c
  BY <1>1 DEF Worker, OptRevision
<1>4. refused \in Worker /\ refused.repair = worker[w].repair /\ refused.pc = "refused"
  BY <1>1 DEF Worker, OptRevision
<1>5. old \in Revisions BY <1>1 DEF IInv, WorkerRelies, InUse
<1>6. /\ repair' = repair /\ operator' = operator /\ store' = store /\ competitor' = competitor
      /\ used' = used /\ rollbacks' = rollbacks /\ faults' \in 0..MaxFaults /\ staged' \subseteq Revisions
      /\ reviewed \subseteq Revisions \X Revisions
  BY DEF IInv, TypeOK, Propose
<1>7. \/ worker' = [worker EXCEPT ![w] = staging] /\ reviewed' = reviewed \cup {<<c, old>>}
      \/ worker' = [worker EXCEPT ![w] = refused] /\ reviewed' = reviewed
  BY <1>2 DEF Propose
<1> HIDE DEF old, staging, refused
<1>8. reviewed \subseteq reviewed' /\ reviewed' \subseteq Revisions \X Revisions
  BY <1>5, <1>6, <1>7
<1>9. CASE worker' = [worker EXCEPT ![w] = staging] /\ reviewed' = reviewed \cup {<<c, old>>}
  <2>1. <<staging.candidate, repair[staging.repair].baseline>> \in reviewed'
    BY <1>3, <1>9 DEF old
  <2> QED BY <1>1, <1>3, <1>6, <1>8, <1>9, <2>1, WorkerAlone
<1>10. CASE worker' = [worker EXCEPT ![w] = refused] /\ reviewed' = reviewed
  BY <1>1, <1>4, <1>6, <1>8, <1>10, WorkerAlone
<1> QED BY <1>7, <1>9, <1>10

LEMMA StageStep ==
  ASSUME IInv, NEW w \in Workers, StageCandidate(w)
  PROVE  IInv'
<1>1. PICK new \in Worker :
        /\ worker' = [worker EXCEPT ![w] = new]
        /\ new.pc = "accepted" /\ new.repair = worker[w].repair
        /\ new.candidate = worker[w].candidate
  BY MoveRecord DEF StageCandidate
<1>2. worker[w].pc = "staging" BY DEF StageCandidate
<1>3. <<worker[w].candidate, repair[worker[w].repair].baseline>> \in reviewed
  BY <1>2 DEF IInv, WorkerRelies
<1>4. worker[w].candidate \in Revisions BY <1>3 DEF IInv, TypeOK
<1>5. staged' \subseteq Revisions BY <1>4 DEF StageCandidate, IInv, TypeOK
<1> QED BY <1>1, <1>2, <1>3, <1>5, WorkerAlone DEF StageCandidate, IInv, TypeOK

LEMMA LeaveStep ==
  ASSUME IInv, NEW w \in Workers, LoseLease(w) \/ WorkerCrashes(w)
  PROVE  IInv'
<1>1. PICK new \in Worker : worker' = [worker EXCEPT ![w] = new] /\ new.pc = "idle"
  BY Leaves DEF LoseLease, WorkerCrashes
<1>2. faults' \in 0..MaxFaults
  BY BoundsAssumption DEF IInv, TypeOK, LoseLease, WorkerCrashes, Fault
<1> QED BY <1>1, <1>2, WorkerAlone DEF LoseLease, WorkerCrashes, IInv, TypeOK

LEMMA DecideStep ==
  ASSUME IInv, NEW w \in Workers, Decide(w)
  PROVE  IInv'
<1>1. worker[w].pc \in {"accepted", "refused", "failing"} BY DEF Decide
<1>2. PICK r \in Repairs : r = worker[w].repair /\ InUse(r)
  BY <1>1 DEF IInv, WorkerRelies
<1> DEFINE candidate == IF worker[w].pc = "failing" THEN None ELSE worker[w].candidate
           row == [repair[r] EXCEPT !.status = Verdict(worker[w].pc), !.live = FALSE,
                                    !.candidate = candidate]
<1>3. repair[r] \in Row /\ repair[r].status \in Held BY <1>2 DEF IInv, TypeOK, Decide, Owns
<1>4. Verdict(worker[w].pc) \in {"validated", "rejected", "failed"}
      /\ (Verdict(worker[w].pc) = "validated" => worker[w].pc = "accepted")
  BY <1>1 DEF Verdict
<1>5. candidate \in OptRevision BY DEF IInv, TypeOK, Worker, OptRevision
<1> HIDE DEF candidate
<1>6. /\ row \in Row /\ row.of = repair[r].of /\ row.baseline = repair[r].baseline
      /\ row.status = Verdict(worker[w].pc) /\ row.live = FALSE /\ row.candidate = candidate
  BY <1>3, <1>4, <1>5 DEF Row, Status, Open
<1>7. repair' = [repair EXCEPT ![r] = row] BY <1>2 DEF Decide, candidate
<1> HIDE DEF row
<1>8. /\ repair' \in [Repairs -> Row]
      /\ \A q \in Repairs : repair'[q].live => repair'[q].status \in Held
      /\ repair'[r] = row
      /\ \A q \in Repairs : q # r => repair'[q] = repair[q] /\ RowMoves(q)
  BY <1>6, <1>7, RowStep
<1>9. RowMoves(r) BY <1>2, <1>3, <1>6, <1>8 DEF RowMoves, InUse, Settled, Held
<1>10. worker[w].pc = "accepted" => <<candidate, repair[r].baseline>> \in reviewed
  BY <1>2 DEF candidate, IInv, WorkerRelies
<1>11. reviewed' = reviewed BY DEF Decide
<1>12. RowReviewed(r)'
  BY <1>2, <1>4, <1>6, <1>8, <1>9, <1>10, <1>11 DEF RowReviewed, RowMoves
<1>13. PICK new \in Worker : worker' = [worker EXCEPT ![w] = new] /\ new.pc = "idle"
  BY Leaves DEF Decide
<1>14. /\ worker' \in [Workers -> Worker]
       /\ \A v \in Workers : worker'[v] = worker[v] \/ WorkerRelies(v)'
  BY <1>8, <1>9, <1>11, <1>13, WorkerMoves
<1>15. TypeOK' BY <1>8, <1>14 DEF IInv, TypeOK, Decide
<1> QED BY <1>8, <1>9, <1>11, <1>12, <1>14, <1>15, StepOf DEF Decide

LEMMA LeaseStep ==
  ASSUME IInv, NEW r \in Repairs, LeaseRunsOut(r)
  PROVE  IInv'
<1> DEFINE row == [repair[r] EXCEPT !.live = FALSE]
<1>1. repair[r] \in Row BY DEF IInv, TypeOK
<1>2. /\ row \in Row /\ row.live = FALSE /\ row.of = repair[r].of
      /\ row.baseline = repair[r].baseline
      /\ row.status = repair[r].status
  BY <1>1 DEF Row
<1>3. repair' = [repair EXCEPT ![r] = row] BY DEF LeaseRunsOut
<1>4. repair[r].status \in Held BY DEF LeaseRunsOut
<1>5. InUse(r)
  <2>1. repair[r] # NoRow BY <1>4, Rows DEF Held
  <2> QED BY <2>1 DEF IInv, RowReviewed
<1> HIDE DEF row
<1>6. /\ repair' \in [Repairs -> Row]
      /\ \A q \in Repairs : repair'[q].live => repair'[q].status \in Held
      /\ repair'[r] = row
      /\ \A q \in Repairs : q # r => repair'[q] = repair[q] /\ RowMoves(q)
  BY <1>2, <1>3, RowStep
<1>7. RowMoves(r) /\ RowReviewed(r)'
  BY <1>2, <1>4, <1>5, <1>6 DEF RowMoves, RowReviewed, InUse, Held
<1>8. faults' \in 0..MaxFaults BY BoundsAssumption DEF IInv, TypeOK, LeaseRunsOut, Fault
<1>9. TypeOK' BY <1>6, <1>8 DEF IInv, TypeOK, LeaseRunsOut
<1> QED BY <1>6, <1>7, <1>9, StepOf DEF LeaseRunsOut

\* A renewal finds the row as it leaves it.
LEMMA RenewIdles ==
  ASSUME IInv, NEW r \in Repairs, NEW token, Renew(r, token)
  PROVE  UNCHANGED vars
<1>1. repair \in [Repairs -> Row] /\ repair[r].live = TRUE BY DEF IInv, TypeOK, Row, Renew
<1>2. repair[r] = [repair[r] EXCEPT !.live = TRUE] BY <1>1 DEF Row
<1>3. repair' = repair BY <1>1, <1>2 DEF Renew
<1> QED BY <1>3 DEF Renew, vars

-----------------------------------------------------------------------------
(* The steps of the operators.                                             *)

\* What operator o relies on after a step that gives it the record new.
LEMMA OperatorMoves ==
  ASSUME IInv, NEW o \in Operators, NEW new \in Operator, operator' = [operator EXCEPT ![o] = new],
         \A r \in Repairs : RowMoves(r),
         new.pc # "idle" => /\ new.of \in Competitors /\ new.new \in Revisions
                            /\ new.old \in Revisions,
         new.pc = "deploying" => new.repair \in Repairs /\ repair[new.repair].status \in Settled
  PROVE  /\ operator' \in [Operators -> Operator]
         /\ \A p \in Operators : operator'[p] = operator[p] \/ OperatorRelies(p)'
<1>1. operator \in [Operators -> Operator] BY DEF IInv, TypeOK
<1>2. operator'[o] = new /\ operator' \in [Operators -> Operator]
      /\ \A p \in Operators : p # o => operator'[p] = operator[p]
  BY <1>1
<1>3. OperatorRelies(o)' BY <1>2 DEF OperatorRelies, RowMoves
<1> QED BY <1>2, <1>3

\* A step of an operator that leaves the rows.
LEMMA OperatorAlone ==
  ASSUME IInv, NEW o \in Operators, NEW new \in Operator, operator' = [operator EXCEPT ![o] = new],
         repair' = repair, worker' = worker, competitor' = competitor,
         used' = used, staged' = staged, reviewed' = reviewed,
         store' \in [current : Revisions, previous : OptRevision],
         rollbacks' \in 0..MaxRollbacks, faults' \in 0..MaxFaults,
         new.pc # "idle" => /\ new.of \in Competitors /\ new.new \in Revisions
                            /\ new.old \in Revisions,
         new.pc = "deploying" => new.repair \in Repairs /\ repair[new.repair].status \in Settled
  PROVE  IInv'
<1>1. \A r \in Repairs : RowMoves(r) /\ (repair'[r] = repair[r] \/ RowReviewed(r)')
  BY RowsStay
<1>2. /\ operator' \in [Operators -> Operator]
      /\ \A p \in Operators : operator'[p] = operator[p] \/ OperatorRelies(p)'
  BY <1>1, OperatorMoves
<1>3. TypeOK' BY <1>2 DEF IInv, TypeOK
<1> QED BY <1>1, <1>2, <1>3, StepOf

LEMMA CompetitorColumns ==
  ASSUME IInv, NEW c \in Competitors
  PROVE  competitor[c] \in Columns
BY DEF IInv, TypeOK, Columns, OptRevision

LEMMA DeployStep ==
  ASSUME IInv, NEW o \in Operators, NEW r \in Repairs, Deploy(o, r)
  PROVE  IInv'
<1> DEFINE new == [pc |-> "deploying", repair |-> r, of |-> repair[r].of,
                   old |-> repair[r].baseline, new |-> repair[r].candidate,
                   seen |-> competitor[repair[r].of]]
<1>1. repair[r].status = "validated" BY DEF Deploy
<1>2. InUse(r)
  <2>1. repair[r] # NoRow BY <1>1, Rows
  <2> QED BY <2>1 DEF IInv, RowReviewed
<1>3. repair[r].candidate \in Revisions BY DEF Deploy, IInv, TypeOK
<1>4. competitor[repair[r].of] \in Columns BY <1>2, CompetitorColumns DEF InUse
<1>5. r \in 0..MaxRepairs BY BoundsAssumption DEF Repairs
<1>6. new \in Operator BY <1>2, <1>3, <1>4, <1>5 DEF Operator, InUse, OptRevision
<1>7. operator' = [operator EXCEPT ![o] = new] BY DEF Deploy
<1>8. /\ new.pc = "deploying" /\ new.of \in Competitors /\ new.new \in Revisions
      /\ new.old \in Revisions /\ new.repair = r
  BY <1>2, <1>3 DEF InUse
<1>9. store' \in [current : Revisions, previous : OptRevision]
  BY <1>3 DEF Deploy, IInv, TypeOK, OptRevision
<1>10. repair[r].status \in Settled BY <1>1 DEF Settled
<1> HIDE DEF new
<1> QED BY <1>6, <1>7, <1>8, <1>9, <1>10, OperatorAlone DEF Deploy, IInv, TypeOK

LEMMA RollBackStep ==
  ASSUME IInv, NEW o \in Operators, NEW c \in Competitors, RollBack(o, c)
  PROVE  IInv'
<1> DEFINE new == [pc |-> "rolling_back", repair |-> 0, of |-> c,
                   old |-> store.current, new |-> store.previous, seen |-> competitor[c]]
<1>1. store.current \in Revisions /\ store.previous \in Revisions
  BY DEF RollBack, IInv, TypeOK, OptRevision
<1>2. competitor[c] \in Columns BY CompetitorColumns
<1>3. 0 \in 0..MaxRepairs BY BoundsAssumption
<1>4. new \in Operator BY <1>1, <1>2, <1>3 DEF Operator, OptRevision
<1>5. operator' = [operator EXCEPT ![o] = new] BY DEF RollBack
<1>6. /\ new.pc = "rolling_back" /\ new.of \in Competitors /\ new.new \in Revisions
      /\ new.old \in Revisions
  BY <1>1
<1>7. store' \in [current : Revisions, previous : OptRevision]
  BY <1>1 DEF RollBack, OptRevision
<1>8. rollbacks' \in 0..MaxRollbacks BY BoundsAssumption DEF RollBack, IInv, TypeOK
<1> HIDE DEF new
<1> QED BY <1>4, <1>5, <1>6, <1>7, <1>8, OperatorAlone DEF RollBack, IInv, TypeOK

LEMMA OperatorLeaves ==
  ASSUME IInv, NEW o \in Operators, LeaveOperator(o)
  PROVE  \E new \in Operator : operator' = [operator EXCEPT ![o] = new] /\ new.pc = "idle"
BY Rows DEF LeaveOperator

LEMMA CompensateTyped ==
  ASSUME IInv, NEW o \in Operators, Compensate(o)
  PROVE  store' \in [current : Revisions, previous : OptRevision]
BY DEF IInv, TypeOK, Compensate, OptRevision

LEMMA FailStep ==
  ASSUME IInv, NEW o \in Operators, CommitFails(o) \/ OperatorCrashes(o)
  PROVE  IInv'
<1>1. PICK new \in Operator : operator' = [operator EXCEPT ![o] = new] /\ new.pc = "idle"
  BY OperatorLeaves DEF CommitFails, OperatorCrashes
<1>2. store' \in [current : Revisions, previous : OptRevision]
  BY CompensateTyped DEF CommitFails, OperatorCrashes, IInv, TypeOK
<1>3. faults' \in 0..MaxFaults
  BY BoundsAssumption DEF IInv, TypeOK, CommitFails, OperatorCrashes, Fault
<1> QED BY <1>1, <1>2, <1>3, OperatorAlone DEF CommitFails, OperatorCrashes, IInv, TypeOK

\* A settled row gets another settled status.
LEMMA SettledRow ==
  ASSUME IInv, NEW r \in Repairs, repair[r].status \in Settled,
         NEW status \in {"deployed", "rolled_back"},
         repair'[r] = [repair[r] EXCEPT !.status = status]
  PROVE  /\ repair'[r] \in Row /\ ~repair'[r].live
         /\ RowMoves(r) /\ RowReviewed(r)'
<1>1. repair[r] \in Row /\ (repair[r].live => repair[r].status \in Held) BY DEF IInv, TypeOK
<1>2. /\ repair'[r] \in Row /\ repair'[r].of = repair[r].of
      /\ repair'[r].baseline = repair[r].baseline
      /\ repair'[r].live = repair[r].live /\ repair'[r].status = status
  BY <1>1 DEF Row, Status
<1>3. ~repair[r].live BY <1>1 DEF Settled, Held
<1>4. repair[r].live \in BOOLEAN BY <1>1 DEF Row
<1>5. repair[r] # NoRow BY Rows DEF Settled
<1>6. InUse(r) BY <1>5 DEF IInv, RowReviewed
<1>7. RowMoves(r) BY <1>2, <1>6 DEF RowMoves, InUse, Settled
<1>8. RowReviewed(r)' BY <1>2, <1>6, <1>7 DEF RowReviewed, RowMoves
<1> QED BY <1>2, <1>3, <1>7, <1>8

LEMMA RowsWritten ==
  ASSUME IInv, NEW o \in Operators, operator[o].pc # "idle", WriteCommand(o)
  PROVE  /\ repair' \in [Repairs -> Row]
         /\ \A r \in Repairs : repair'[r].live => repair'[r].status \in Held
         /\ \A r \in Repairs : RowMoves(r) /\ (repair'[r] = repair[r] \/ RowReviewed(r)')
<1> DEFINE cmd == operator[o]
<1>1. repair \in [Repairs -> Row] /\ \A r \in Repairs : repair[r].live => repair[r].status \in Held
  BY DEF IInv, TypeOK
<1>2. ASSUME NEW r \in Repairs
      PROVE  /\ repair'[r] \in Row /\ (repair'[r].live => repair'[r].status \in Held)
             /\ RowMoves(r) /\ (repair'[r] = repair[r] \/ RowReviewed(r)')
  <2>1. CASE cmd.pc = "deploying" /\ r = cmd.repair
    <3>1. repair'[r] = [repair[r] EXCEPT !.status = "deployed"] BY <2>1 DEF WriteCommand
    <3>2. repair[r].status \in Settled BY <2>1 DEF IInv, OperatorRelies
    <3> QED BY <3>1, <3>2, SettledRow
  <2>2. CASE cmd.pc = "rolling_back" /\ r \in LatestDeployed(cmd.of)
    <3>1. repair'[r] = [repair[r] EXCEPT !.status = "rolled_back"] BY <2>2 DEF WriteCommand
    <3>2. repair[r].status \in Settled BY <2>2 DEF LatestDeployed, Settled
    <3> QED BY <3>1, <3>2, SettledRow
  <2>3. CASE /\ ~(cmd.pc = "deploying" /\ r = cmd.repair)
             /\ ~(cmd.pc = "rolling_back" /\ r \in LatestDeployed(cmd.of))
    <3>1. repair'[r] = repair[r] BY <2>3 DEF WriteCommand
    <3> QED BY <1>1, <3>1 DEF RowMoves, InUse
  <2> QED BY <2>1, <2>2, <2>3
<1>3. DOMAIN repair' = Repairs /\ repair' = [r \in Repairs |-> repair'[r]] BY DEF WriteCommand
<1> QED BY <1>2, <1>3

LEMMA CompetitorWritten ==
  ASSUME IInv, NEW o \in Operators, operator[o].pc # "idle", WriteCommand(o)
  PROVE  /\ competitor' \in [Competitors -> [active : Revisions, previous : OptRevision]]
         /\ used' \in [Competitors -> SUBSET Revisions]
<1>1. operator[o].of \in Competitors /\ operator[o].new \in Revisions /\ operator[o].old \in Revisions
  BY DEF IInv, OperatorRelies
<1>2. competitor \in [Competitors -> [active : Revisions, previous : OptRevision]]
  BY DEF IInv, TypeOK
<1>3. competitor' \in [Competitors -> [active : Revisions, previous : OptRevision]]
  BY <1>1, <1>2 DEF WriteCommand, Column, OptRevision
<1>4. PICK rev \in Revisions : rev = competitor'[operator[o].of].active BY <1>1, <1>3
<1>5. used' = [used EXCEPT ![operator[o].of] = @ \cup {rev}] BY <1>4 DEF WriteCommand
<1>6. used' \in [Competitors -> SUBSET Revisions] BY <1>1, <1>5 DEF IInv, TypeOK
<1> QED BY <1>3, <1>6

LEMMA CommitStep ==
  ASSUME IInv, NEW o \in Operators, Commit(o) \/ CommitUnacknowledged(o)
  PROVE  IInv'
<1>1. operator[o].pc # "idle" /\ WriteCommand(o) BY DEF Commit, CommitUnacknowledged
<1>2. /\ repair' \in [Repairs -> Row]
      /\ \A r \in Repairs : repair'[r].live => repair'[r].status \in Held
      /\ \A r \in Repairs : RowMoves(r) /\ (repair'[r] = repair[r] \/ RowReviewed(r)')
  BY <1>1, RowsWritten
<1>3. /\ competitor' \in [Competitors -> [active : Revisions, previous : OptRevision]]
      /\ used' \in [Competitors -> SUBSET Revisions]
  BY <1>1, CompetitorWritten
<1>4. PICK new \in Operator : operator' = [operator EXCEPT ![o] = new] /\ new.pc = "idle"
  BY OperatorLeaves DEF Commit, CommitUnacknowledged
<1>5. /\ operator' \in [Operators -> Operator]
      /\ \A p \in Operators : operator'[p] = operator[p] \/ OperatorRelies(p)'
  BY <1>2, <1>4, OperatorMoves
<1>6. store' \in [current : Revisions, previous : OptRevision]
  BY CompensateTyped DEF Commit, CommitUnacknowledged, IInv, TypeOK
<1>7. faults' \in 0..MaxFaults
  BY BoundsAssumption DEF IInv, TypeOK, Commit, CommitUnacknowledged, Fault
<1>8. TypeOK'
  BY <1>2, <1>3, <1>5, <1>6, <1>7 DEF IInv, TypeOK, Commit, CommitUnacknowledged
<1> QED BY <1>2, <1>5, <1>8, StepOf DEF Commit, CommitUnacknowledged

-----------------------------------------------------------------------------
(* The theorems.                                                           *)

LEMMA NextIInv == IInv /\ [Next]_vars => IInv'
<1> SUFFICES ASSUME IInv, [Next]_vars PROVE IInv' OBVIOUS
<1>1. CASE UNCHANGED vars
  BY <1>1 DEF vars, IInv, TypeOK, RowReviewed, WorkerRelies, OperatorRelies, InUse
<1>2. ASSUME NEW c \in Competitors, NEW rev \in Revisions, RequestRepair(c, rev) PROVE IInv'
  BY <1>2, RequestStep
<1>3. ASSUME NEW w \in Workers, NEW r \in Repairs, Claim(w, r) PROVE IInv'
  BY <1>3, ClaimStep
<1>4. ASSUME NEW w \in Workers, WorkerStep(w) PROVE IInv'
  BY <1>4, BeginTestingStep, FailsStep, ProposeStep, StageStep, DecideStep, LeaveStep
  DEF WorkerStep
<1>5. ASSUME NEW w \in Workers, WorkerCrashes(w) PROVE IInv'
  BY <1>5, LeaveStep
<1>6. ASSUME NEW r \in Repairs, LeaseRunsOut(r) PROVE IInv'
  BY <1>6, LeaseStep
<1>7. ASSUME NEW r \in Repairs, NEW token, Renew(r, token) PROVE IInv'
  BY <1>1, <1>7, RenewIdles
<1>8. ASSUME NEW o \in Operators, NEW r \in Repairs, Deploy(o, r) PROVE IInv'
  BY <1>8, DeployStep
<1>9. ASSUME NEW o \in Operators, NEW c \in Competitors, RollBack(o, c) PROVE IInv'
  BY <1>9, RollBackStep
<1>10. ASSUME NEW o \in Operators, Commit(o) \/ CommitUnacknowledged(o) PROVE IInv'
  BY <1>10, CommitStep
<1>11. ASSUME NEW o \in Operators, CommitFails(o) \/ OperatorCrashes(o) PROVE IInv'
  BY <1>11, FailStep
<1> QED
  BY <1>1, <1>2, <1>3, <1>4, <1>5, <1>6, <1>7, <1>8, <1>9, <1>10, <1>11
  DEF Next

\* What everybody relies on holds of every behaviour.
THEOREM Invariance == Spec => []IInv
BY InitIInv, NextIInv, PTL DEF Spec

\* The types, and that only a repair in progress has a live lease.
THEOREM TypeCorrect == Spec => []TypeOK
<1>1. IInv => TypeOK BY DEF IInv
<1> QED BY <1>1, Invariance, PTL

\* A row leaves Held by a verdict alone: a command writes settled rows only.
LEMMA StepDecided == IInv /\ [Next]_vars => [DecidedByOwner]_vars
<1> SUFFICES ASSUME IInv, Next, NEW r \in Repairs,
                    repair[r].status \in Held, repair'[r].status \notin Held
             PROVE  \E w \in Workers : /\ worker[w].repair = r /\ worker[w].token = repair[r].token
                                       /\ repair[r].live /\ worker'[w] # worker[w]
  BY DEF DecidedByOwner
<1>1. repair \in [Repairs -> Row] BY DEF IInv, TypeOK
<1>2. repair'[r] # repair[r] OBVIOUS
<1>3. ASSUME NEW c \in Competitors, NEW rev \in Revisions, RequestRepair(c, rev) PROVE FALSE
  <2>1. NoRow.status \notin Held BY Rows DEF Held
  <2> QED BY <1>1, <1>2, <1>3, <2>1 DEF RequestRepair
<1>4. ASSUME NEW w \in Workers, NEW q \in Repairs, Claim(w, q) PROVE FALSE
  <2>1. repair[q] \in Row BY <1>1
  <2> QED BY <1>1, <1>4, <2>1 DEF Claim, Held, Row
<1>5. ASSUME NEW w \in Workers, BeginTesting(w) PROVE FALSE
  BY <1>1, <1>5 DEF BeginTesting, Held, Row
<1>6. ASSUME NEW w \in Workers, Decide(w)
      PROVE  /\ worker[w].repair = r /\ worker[w].token = repair[r].token
             /\ repair[r].live /\ worker'[w] # worker[w]
  <2>1. worker[w].repair = r BY <1>1, <1>2, <1>6 DEF Decide
  <2>2. worker'[w].pc = "idle" BY <1>6, Rows DEF Decide, LeaveWorker, IInv, TypeOK
  <2>3. worker[w].pc # "idle" BY <1>6 DEF Decide
  <2> QED BY <1>6, <2>1, <2>2, <2>3 DEF Decide, Owns
<1>7. ASSUME NEW q \in Repairs, LeaseRunsOut(q) PROVE FALSE
  BY <1>1, <1>7 DEF LeaseRunsOut, Row
<1>8. ASSUME NEW q \in Repairs, NEW token, Renew(q, token) PROVE FALSE
  BY <1>2, <1>8, RenewIdles DEF vars
<1>9. ASSUME NEW o \in Operators, operator[o].pc # "idle", WriteCommand(o) PROVE FALSE
  <2>1. repair[r].status \notin Settled BY DEF Settled, Held
  <2>2. ~(operator[o].pc = "deploying" /\ r = operator[o].repair)
    BY <1>9, <2>1 DEF IInv, OperatorRelies
  <2>3. r \notin LatestDeployed(operator[o].of) BY <2>1 DEF LatestDeployed, Settled
  <2>4. repair'[r] = repair[r] BY <1>9, <2>2, <2>3 DEF WriteCommand
  <2> QED BY <1>2, <2>4
<1> QED
  BY <1>2, <1>3, <1>4, <1>5, <1>6, <1>7, <1>8, <1>9
  DEF Next, WorkerStep, Fails, CheckBaseline, Propose, StageCandidate, LoseLease, WorkerCrashes,
      Deploy, RollBack, Commit, CommitFails, CommitUnacknowledged, OperatorCrashes

\* Only the worker of the latest attempt, under a live lease, gives a repair
\* its verdict, for any number of workers, operators and faults.
THEOREM Deciding == Spec => OwnerDecides
BY StepDecided, Invariance, PTL DEF Spec, OwnerDecides

LEMMA StepReviewed == IInv /\ [Next]_vars => [CurrentReviewed]_vars
<1> SUFFICES ASSUME IInv, Next, store.current # store'.current
             PROVE  \/ <<store'.current, store.current>> \in reviewed
                    \/ store'.current = store.previous
  BY DEF CurrentReviewed
<1>1. ASSUME NEW o \in Operators, NEW r \in Repairs, Deploy(o, r)
      PROVE  <<store'.current, store.current>> \in reviewed
  BY <1>1 DEF Deploy, IInv, RowReviewed
<1>2. ASSUME NEW o \in Operators, NEW c \in Competitors, RollBack(o, c)
      PROVE  store'.current = store.previous
  BY <1>2 DEF RollBack
<1>3. ASSUME NEW o \in Operators, Compensate(o) PROVE store'.current = store.previous
  BY <1>3 DEF Compensate
<1> QED
  BY <1>1, <1>2, <1>3
  DEF Next, WorkerStep, RequestRepair, Claim, BeginTesting, Fails, CheckBaseline, Propose,
      StageCandidate, Decide, LoseLease, WorkerCrashes, LeaseRunsOut, Renew,
      Commit, CommitFails, CommitUnacknowledged, OperatorCrashes

\* A revision becomes current only as the candidate that was reviewed against
\* the revision it replaces, or by going back, for any number of operators who
\* race, workers who lose their leases and crashes.
THEOREM Promoting == Spec => PromotedWasReviewed
BY StepReviewed, Invariance, PTL DEF Spec, PromotedWasReviewed

-----------------------------------------------------------------------------
(* One operator, no faults.                                                *)

LEMMA FollowsStays ==
  ASSUME Follows, UNCHANGED <<store, competitor, operator>>, faults' = 0 => faults = 0
  PROVE  Follows'
BY DEF Follows, NoCommand, Agree

LEMMA OnlyOperator ==
  ASSUME OneOperator, NEW o \in Operators, NEW p \in Operators
  PROVE  p = o
BY DEF OneOperator

LEMMA DeployFollows ==
  ASSUME IInv, Follows, NEW o \in Operators, NEW r \in Repairs, Deploy(o, r)
  PROVE  Follows'
<1> SUFFICES ASSUME OneOperator PROVE Follows' BY DEF Follows
<1>1. \A p \in Operators : p = o BY OnlyOperator
<1>2. /\ operator'[o].pc = "deploying" /\ operator'[o].of = repair[r].of
      /\ operator'[o].old = repair[r].baseline /\ operator'[o].new = repair[r].candidate
      /\ operator'[o].seen = competitor[repair[r].of]
  BY DEF Deploy, IInv, TypeOK
<1>3. store'.current = repair[r].candidate /\ store'.previous = repair[r].baseline BY DEF Deploy
<1>4. competitor' = competitor BY DEF Deploy
<1> QED BY <1>1, <1>2, <1>3, <1>4 DEF Follows, NoCommand

LEMMA RollBackFollows ==
  ASSUME IInv, Follows, NEW o \in Operators, NEW c \in Competitors, RollBack(o, c)
  PROVE  Follows'
<1> SUFFICES ASSUME OneOperator PROVE Follows' BY DEF Follows
<1>1. \A p \in Operators : p = o BY OnlyOperator
<1>2. /\ operator'[o].pc = "rolling_back" /\ operator'[o].of = c
      /\ operator'[o].old = store.current /\ operator'[o].new = store.previous
      /\ operator'[o].seen = competitor[c]
  BY DEF RollBack, IInv, TypeOK
<1>3. store'.current = store.previous /\ store'.previous = store.current BY DEF RollBack
<1>4. competitor' = competitor BY DEF RollBack
<1> QED BY <1>1, <1>2, <1>3, <1>4 DEF Follows, NoCommand

LEMMA CommitFollows ==
  ASSUME IInv, Follows, NEW o \in Operators, Commit(o)
  PROVE  Follows'
<1> SUFFICES ASSUME faults = 0, OneOperator PROVE Follows' BY DEF Follows, Commit
<1> DEFINE cmd == operator[o]
<1>1. \A p \in Operators : p = o BY OnlyOperator
<1>2. operator'[o].pc = "idle" BY Rows DEF Commit, LeaveOperator, IInv, TypeOK
<1>3. cmd.pc # "idle" BY DEF Commit
<1>4. /\ store.current = cmd.new /\ store.previous = cmd.old
      /\ competitor[cmd.of] = cmd.seen
  BY <1>3 DEF Follows
<1>5. cmd.of \in Competitors BY <1>3 DEF IInv, OperatorRelies
<1>6. /\ competitor'[cmd.of].active = Column(competitor[cmd.of].active, cmd.seen.active, cmd.new)
      /\ competitor'[cmd.of].previous = Column(competitor[cmd.of].previous, cmd.seen.previous, cmd.old)
  BY <1>5 DEF Commit, WriteCommand, IInv, TypeOK
<1>7. competitor'[cmd.of].active = cmd.new /\ competitor'[cmd.of].previous = cmd.old
  BY <1>4, <1>6 DEF Column
<1>8. store' = store BY DEF Commit
<1> HIDE DEF cmd
<1>9. \E c \in Competitors : Agree(c)' BY <1>4, <1>5, <1>7, <1>8 DEF Agree
<1> QED BY <1>1, <1>2, <1>9 DEF Follows

LEMMA NextFollows == IInv /\ Follows /\ [Next]_vars => Follows'
<1> SUFFICES ASSUME IInv, Follows, [Next]_vars PROVE Follows' OBVIOUS
<1>1. CASE UNCHANGED vars BY <1>1, FollowsStays DEF vars
<1>2. ASSUME Fault PROVE Follows'
  <2>1. faults \in Nat BY DEF IInv, TypeOK
  <2>2. faults' # 0 BY <1>2, <2>1 DEF Fault
  <2> QED BY <2>2 DEF Follows
<1>3. ASSUME NEW r \in Repairs, LeaseRunsOut(r) PROVE Follows'
  BY <1>2, <1>3, FollowsStays DEF LeaseRunsOut
<1>4. ASSUME NEW c \in Competitors, NEW rev \in Revisions, RequestRepair(c, rev) PROVE Follows'
  BY <1>4, FollowsStays DEF RequestRepair
<1>5. ASSUME NEW w \in Workers, NEW r \in Repairs, Claim(w, r) PROVE Follows'
  BY <1>5, FollowsStays DEF Claim
<1>6. ASSUME NEW w \in Workers, WorkerStep(w) PROVE Follows'
  BY <1>6, FollowsStays DEF WorkerStep, BeginTesting, Fails, CheckBaseline, Propose,
     StageCandidate, Decide, LoseLease
<1>7. ASSUME NEW r \in Repairs, NEW token, Renew(r, token) PROVE Follows'
  BY <1>7, FollowsStays DEF Renew
<1> QED
  BY <1>1, <1>2, <1>3, <1>4, <1>5, <1>6, <1>7, DeployFollows, RollBackFollows, CommitFollows
  DEF Next, WorkerCrashes, CommitFails, CommitUnacknowledged, OperatorCrashes

\* Without faults and with one operator, the version store and the database
\* agree between commands, for any number of competitors, repairs and workers.
THEOREM InStep == Spec => []InSync
<1>1. Spec => []Follows BY InitFollows, NextFollows, Invariance, PTL DEF Spec
<1>2. Follows => InSync BY DEF Follows, InSync, Agree
<1> QED BY <1>1, <1>2, PTL

-----------------------------------------------------------------------------
(* Refinement of ActiveRevision.                                           *)

LEMMA NamedApart ==
  ASSUME NEW r, NEW q
  PROVE  Named(r) = Named(q) <=> r = q
<1>1. Named(r).rev = r /\ Named(q).rev = q BY DEF Named
<1> QED BY <1>1

LEMMA StoreStays ==
  ASSUME store' = store, staged' = staged
  PROVE  UNCHANGED Store!vars
BY DEF Store!vars

\* A candidate that was staged before is not offered again.
LEMMA StagingOffers ==
  ASSUME IInv, NEW w \in Workers, StageCandidate(w)
  PROVE  Store!Next \/ UNCHANGED Store!vars
<1> DEFINE c == worker[w].candidate
           all == {Named(r) : r \in staged}
<1>1. c \in Revisions
  BY DEF IInv, TypeOK, WorkerRelies, StageCandidate
<1>2. staged' = staged \cup {c} /\ store' = store BY DEF StageCandidate
<1>3. CASE c \in staged
  <2>1. staged' = staged BY <1>2, <1>3
  <2> QED BY <1>2, <2>1, StoreStays
<1>4. CASE c \notin staged
  <2>1. \A o \in all : o.rev # Named(c).rev BY <1>4 DEF Named
  <2>2. {Named(r) : r \in staged'} = all \cup {Named(c)} BY <1>2
  <2>3. Store!Offer(Named(c)) BY <1>2, <2>1, <2>2 DEF Store!Offer
  <2> QED BY <1>1, <2>3 DEF Store!Next
<1> QED BY <1>3, <1>4

LEMMA DeployPromotes ==
  ASSUME IInv, NEW o \in Operators, NEW r \in Repairs, Deploy(o, r)
  PROVE  Store!Next
<1> DEFINE c == repair[r].candidate
<1>1. c \in staged /\ c \in Revisions BY DEF IInv, TypeOK, Deploy
<1>2. store'.current = c /\ store'.previous = store.current /\ staged' = staged
  BY DEF Deploy
<1>3. Store!Promote(Named(c)) BY <1>1, <1>2 DEF Store!Promote
<1> QED BY <1>1, <1>3 DEF Store!Next

LEMMA GoingBackReverts ==
  ASSUME store' = [current |-> store.previous, previous |-> store.current],
         staged' = staged, store.previous # None
  PROVE  Store!Next
<1>1. Named(store.previous) # Named(None) BY NamedApart
<1>2. Store!Revert BY <1>1 DEF Store!Revert
<1> QED BY <1>2 DEF Store!Next

LEMMA NextStore == IInv /\ [Next]_vars => [Store!Next]_(Store!vars)
<1> SUFFICES ASSUME IInv, [Next]_vars PROVE Store!Next \/ UNCHANGED Store!vars
  OBVIOUS
<1>1. ASSUME NEW w \in Workers, StageCandidate(w) PROVE Store!Next \/ UNCHANGED Store!vars
  BY <1>1, StagingOffers
<1>2. ASSUME NEW o \in Operators, NEW r \in Repairs, Deploy(o, r) PROVE Store!Next
  BY <1>2, DeployPromotes
<1>3. ASSUME NEW o \in Operators, NEW c \in Competitors, RollBack(o, c) PROVE Store!Next
  BY <1>3, GoingBackReverts DEF RollBack
<1>4. ASSUME NEW o \in Operators, CommitFails(o) \/ CommitUnacknowledged(o)
      PROVE  Store!Next \/ UNCHANGED Store!vars
  BY <1>4, GoingBackReverts, StoreStays DEF CommitFails, CommitUnacknowledged, Compensate
<1>5. CASE store' = store /\ staged' = staged BY <1>5, StoreStays
<1> QED
  BY <1>1, <1>2, <1>3, <1>4, <1>5
  DEF Next, vars, WorkerStep, RequestRepair, Claim, BeginTesting, Fails, CheckBaseline, Propose,
      Decide, LoseLease, WorkerCrashes, LeaseRunsOut, Renew, Commit, OperatorCrashes

\* Whatever workers and operators do, and however their commands fail, they use
\* the version store as ActiveRevision allows.
THEOREM Refinement == Spec => ImplementsActiveRevision
<1>1. Init => Store!Init BY DEF Init, Store!Init
<1> QED
  BY <1>1, NextStore, Invariance, PTL DEF Spec, Store!Spec, ImplementsActiveRevision
=============================================================================
