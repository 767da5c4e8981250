------------------------ MODULE SpecVersionStoreProofs ------------------------
(***************************************************************************)
(* Proofs about SpecVersionStore for any number of revisions, releases and *)
(* processes: what the state file names can be found, the comparison with  *)
(* the expected revision holds until the state is replaced, and the store  *)
(* implements ActiveRevision.                                              *)
(*                                                                         *)
(* The argument: a process that writes holds the lock, so nobody else      *)
(* writes; files are never changed, so what was staged or kept stays so;   *)
(* and a candidate never has the revision of a package, so the active      *)
(* specification depends on the state file and the package alone.          *)
(***************************************************************************)
EXTENDS SpecVersionStore, FiniteSetTheorems, TLAPS

Holding == {"staging", "linking", "pointing"}

LockShape == lock = {} \/ \E p \in Processes : lock = {p}

HoldersLock == \A p \in Processes : process[p].pc \in Holding => lock = {p}

Typed ==
  /\ file \in [Dirs -> [Revisions -> Bodies \cup {Absent}]]
  /\ state \in State
  /\ packaged \in Packages
  /\ process \in [Processes -> Process]
  /\ faults \in 0..MaxFaults

FilesCandidates ==
  \A d \in Dirs, r \in Revisions :
    file[d][r] # Absent => [rev |-> r, body |-> file[d][r]] \in Candidates

Staged(s) == file["staged"][s.rev] = s.body
Versioned(s) == file["versions"][s.rev] = s.body
Kept(s) == s \in Specs /\ (s \in Packages \/ Versioned(s))

StateKept == state = NoState \/ (Kept(state.active) /\ Kept(state.previous))

\* get_active, without a look at the files.
Active ==
  IF state = NoState THEN packaged
  ELSE IF state.active \in Packages /\ state.active # packaged THEN NoSpec
  ELSE state.active

Expected(p) == Active # NoSpec /\ Active.rev = process[p].base.rev

\* What each process can rely on where it stands.
Relies(p) ==
  LET c == process[p] IN
  /\ c.pc = "waiting" => c.op \in {"stage", "activate", "rollback"}
  /\ c.pc = "waiting" /\ c.op = "stage" => c.spec \in Candidates
  /\ c.pc = "waiting" /\ c.op = "activate" => c.spec \in Candidates /\ Staged(c.spec)
  /\ c.pc = "staging" => c.spec \in Candidates
  /\ c.pc = "linking" =>
       c.op = "activate" /\ c.spec \in Candidates /\ Staged(c.spec) /\ Expected(p)
  /\ c.pc = "pointing" =>
       /\ Kept(c.spec) /\ Expected(p)
       /\ \/ c.op = "activate" /\ Staged(c.spec)
          \/ c.op = "rollback" /\ state # NoState /\ c.spec = state.previous
  /\ c.pc = "reading" => Kept(c.spec)

ProcessesRely == \A p \in Processes : Relies(p)

IInv == Typed /\ LockShape /\ HoldersLock /\ FilesCandidates /\ StateKept /\ ProcessesRely

\* A file that is there stays as it is.
Grows ==
  \A d \in Dirs, r \in Revisions : file[d][r] # Absent => file'[d][r] = file[d][r]

-----------------------------------------------------------------------------
LEMMA InitIInv == Init => IInv
<1> SUFFICES ASSUME Init PROVE IInv OBVIOUS
<1> USE SpecsAssumption, FaultsAssumption DEF Init
<1>1. Typed
  <2>1. Idle \in Process BY DEF Idle, Process
  <2>2. NoState \in State BY DEF NoState, State
  <2>3. faults \in 0..MaxFaults BY SMT
  <2>4. process \in [Processes -> Process] BY <2>1
  <2>5. file \in [Dirs -> [Revisions -> Bodies \cup {Absent}]] OBVIOUS
  <2>6. packaged \in Packages /\ state \in State BY <2>2
  <2> HIDE DEF Init
  <2> QED BY <2>3, <2>4, <2>5, <2>6 DEF Typed
<1>2. LockShape /\ HoldersLock BY DEF LockShape, HoldersLock, Holding, Idle
<1>3. FilesCandidates BY DEF FilesCandidates
<1>4. StateKept BY DEF StateKept
<1>5. ProcessesRely BY DEF ProcessesRely, Relies, Idle
<1> HIDE DEF Init
<1> QED BY <1>1, <1>2, <1>3, <1>4, <1>5 DEF IInv

-----------------------------------------------------------------------------
(* Reading.                                                                *)

LEMMA BodyPresent == \A s \in Specs : s.body # Absent /\ s.rev \in Revisions /\ s # NoSpec
BY SpecsAssumption DEF Specs

LEMMA SameSpec ==
  ASSUME NEW s \in Specs, NEW t \in Specs, s.rev = t.rev, s.body = t.body
  PROVE  s = t
BY DEF Specs

\* A package is found exactly when it is the installed one.
LEMMA PackageResolves ==
  ASSUME Typed, FilesCandidates, NEW s \in Packages
  PROVE  Resolves(s) <=> s = packaged
<1>1. s \in Specs /\ packaged \in Packages BY SpecsAssumption DEF Typed
<1>2. s.rev \in Revisions /\ s # NoSpec BY <1>1, BodyPresent
<1>3. file["versions"][s.rev] = Absent
  <2> SUFFICES ASSUME file["versions"][s.rev] # Absent PROVE FALSE OBVIOUS
  <2> DEFINE f == [rev |-> s.rev, body |-> file["versions"][s.rev]]
  <2>1. f \in Candidates BY <1>2 DEF FilesCandidates, Dirs
  <2>2. f.rev = s.rev OBVIOUS
  <2> HIDE DEF f
  <2> QED BY <2>1, <2>2, SpecsAssumption
<1>4. packaged.rev = s.rev => packaged = s BY <1>1, SpecsAssumption
<1> QED BY <1>2, <1>3, <1>4 DEF Resolves, GetRevision

LEMMA VersionResolves ==
  ASSUME NEW s \in Specs, Versioned(s)
  PROVE  Resolves(s)
<1>1. file["versions"][s.rev] # Absent BY BodyPresent DEF Versioned
<1>2. s = [rev |-> s.rev, body |-> s.body] BY DEF Specs
<1> QED BY <1>1, <1>2 DEF Resolves, GetRevision, Versioned

LEMMA KeptFound ==
  ASSUME Typed, FilesCandidates, NEW s, Kept(s)
  PROVE  Found(s)
<1>1. CASE s \in Packages BY <1>1, PackageResolves DEF Found
<1>2. CASE Versioned(s) BY <1>2, VersionResolves DEF Found, Kept
<1> QED BY <1>1, <1>2 DEF Kept

LEMMA GetActiveIsActive ==
  ASSUME Typed, FilesCandidates, StateKept
  PROVE  GetActive(state) = Active
<1>1. CASE state = NoState BY <1>1 DEF GetActive, Active
<1>2. CASE state # NoState
  <2>1. Kept(state.active) BY <1>2 DEF StateKept
  <2>2. CASE state.active \in Packages
    <3>1. Resolves(state.active) <=> state.active = packaged BY <2>2, PackageResolves
    <3> QED BY <1>2, <2>2, <3>1 DEF GetActive, Active
  <2>3. CASE state.active \notin Packages
    <3>1. Resolves(state.active) BY <2>1, <2>3, VersionResolves DEF Kept
    <3> QED BY <1>2, <2>3, <3>1 DEF GetActive, Active
  <2> QED BY <2>2, <2>3
<1> QED BY <1>1, <1>2

LEMMA FreshIsExpected ==
  ASSUME Typed, FilesCandidates, StateKept, NEW p \in Processes
  PROVE  Fresh(p) <=> Expected(p)
BY GetActiveIsActive DEF Fresh, Expected

-----------------------------------------------------------------------------
(* What a step of one process leaves to the others.                        *)

Moves(p) ==
  /\ process' \in [Processes -> Process]
  /\ \A q \in Processes : q # p => process'[q] = process[q]

LEMMA FileStays ==
  ASSUME Grows, NEW s \in Specs, NEW d \in Dirs, file[d][s.rev] = s.body
  PROVE  file'[d][s.rev] = s.body
BY BodyPresent DEF Grows

LEMMA StateKeptStays ==
  ASSUME StateKept, Grows, state' = state
  PROVE  StateKept'
BY FileStays DEF StateKept, Kept, Versioned, Dirs

LEMMA OthersRely ==
  ASSUME IInv, Grows, NEW q \in Processes, process'[q] = process[q],
         process[q].pc \in {"linking", "pointing"} => state' = state /\ packaged' = packaged
  PROVE  Relies(q)'
<1> DEFINE c == process[q]
<1>1. Relies(q) BY DEF IInv, ProcessesRely
<1>2. Candidates \subseteq Specs BY SpecsAssumption
<1>3. c.pc \in {"linking", "pointing"} /\ Expected(q) => Expected(q)' BY DEF Expected, Active
<1>4. c.spec \in Specs /\ Staged(c.spec) => Staged(c.spec)' BY FileStays DEF Staged, Dirs
<1>5. Kept(c.spec) => Kept(c.spec)' BY FileStays DEF Kept, Versioned, Dirs
<1>6. Kept(c.spec) => c.spec \in Specs BY DEF Kept
<1> QED BY <1>1, <1>2, <1>3, <1>4, <1>5, <1>6 DEF Relies

LEMMA LockHandled ==
  ASSUME LockShape, HoldersLock, NEW p \in Processes, Moves(p),
         \/ lock' = lock \ {p} /\ process'[p].pc \notin Holding
         \/ lock = {} /\ lock' = {p}
         \/ lock' = lock /\ (process'[p].pc \in Holding => process[p].pc \in Holding)
  PROVE  LockShape' /\ HoldersLock'
<1>1. LockShape' BY DEF LockShape
<1>2. ASSUME NEW q \in Processes, process'[q].pc \in Holding PROVE lock' = {q}
  <2>1. CASE q = p BY <1>2, <2>1 DEF HoldersLock
  <2>2. CASE q # p
    <3>1. lock = {q} BY <1>2, <2>2 DEF HoldersLock, Moves
    <3> QED BY <2>2, <3>1
  <2> QED BY <2>1, <2>2
<1> QED BY <1>1, <1>2 DEF HoldersLock

LEMMA StepOf ==
  ASSUME IInv, NEW p \in Processes, Moves(p), Grows,
         Typed', FilesCandidates', StateKept', Relies(p)',
         \/ lock' = lock \ {p} /\ process'[p].pc \notin Holding
         \/ lock = {} /\ lock' = {p}
         \/ lock' = lock /\ (process'[p].pc \in Holding => process[p].pc \in Holding),
         packaged' = packaged,
         state' = state \/ process[p].pc = "pointing"
  PROVE  IInv'
<1>1. LockShape' /\ HoldersLock' BY LockHandled DEF IInv
<1>2. ASSUME NEW q \in Processes PROVE Relies(q)'
  <2>1. CASE q = p BY <2>1
  <2>2. CASE q # p
    <3>1. process'[q] = process[q] BY <2>2 DEF Moves
    <3>2. ASSUME process[q].pc \in {"linking", "pointing"} PROVE state' = state
      <4>1. lock = {q} BY <3>2 DEF IInv, HoldersLock, Holding
      <4>2. process[p].pc # "pointing" BY <2>2, <4>1 DEF IInv, HoldersLock, Holding
      <4> QED BY <4>2
    <3> QED BY <3>1, <3>2, OthersRely
  <2> QED BY <2>1, <2>2
<1> QED BY <1>1, <1>2 DEF IInv, ProcessesRely

-----------------------------------------------------------------------------
(* The steps.                                                              *)

LEMMA FilesUntouched ==
  ASSUME IInv, file' = file
  PROVE  Grows /\ FilesCandidates'
BY DEF Grows, IInv, FilesCandidates

LEMMA IdleTyped == Idle \in Process /\ Idle.pc = "idle"
BY DEF Idle, Process

\* A call that ends has nothing to rely on.
LEMMA ReturnStep ==
  ASSUME IInv, NEW p \in Processes, Return(p), Grows, FilesCandidates', StateKept',
         file' \in [Dirs -> [Revisions -> Bodies \cup {Absent}]], state' \in State,
         packaged' = packaged, faults' \in 0..MaxFaults,
         state' = state \/ process[p].pc = "pointing"
  PROVE  IInv'
<1>1. process \in [Processes -> Process] /\ packaged \in Packages BY DEF IInv, Typed
<1>2. process'[p] = Idle /\ Moves(p) BY <1>1, IdleTyped DEF Return, Moves
<1>3. Typed' BY <1>1, <1>2 DEF Typed, Moves
<1>4. Relies(p)' BY <1>2, IdleTyped DEF Relies
<1>5. lock' = lock \ {p} /\ process'[p].pc \notin Holding
  BY <1>2, IdleTyped DEF Return, Holding
<1> QED BY <1>2, <1>3, <1>4, <1>5, StepOf

\* A call that ends without having changed a file.
LEMMA GiveUpStep ==
  ASSUME IInv, NEW p \in Processes, Return(p), file' = file, state' = state,
         packaged' = packaged, faults' \in 0..MaxFaults
  PROVE  IInv'
<1>1. Grows /\ FilesCandidates' BY FilesUntouched
<1>2. StateKept' BY <1>1, StateKeptStays DEF IInv
<1>3. file' \in [Dirs -> [Revisions -> Bodies \cup {Absent}]] /\ state' \in State
  BY DEF IInv, Typed
<1> QED BY <1>1, <1>2, <1>3, ReturnStep

\* A step of p that changes only what p is doing, and perhaps takes the lock.
LEMMA AdvanceStep ==
  ASSUME IInv, NEW p \in Processes, NEW next \in Process,
         process' = [process EXCEPT ![p] = next],
         file' = file, state' = state, packaged' = packaged, faults' = faults,
         Relies(p)',
         \/ lock = {} /\ lock' = {p}
         \/ lock' = lock /\ next.pc \notin Holding
  PROVE  IInv'
<1>1. Grows /\ FilesCandidates' BY FilesUntouched
<1>2. StateKept' BY <1>1, StateKeptStays DEF IInv
<1>3. process'[p] = next /\ Moves(p) BY DEF IInv, Typed, Moves
<1>4. Typed' BY <1>3 DEF IInv, Typed, Moves
<1> QED BY <1>1, <1>2, <1>3, <1>4, StepOf

LEMMA CallStep ==
  ASSUME IInv, NEW p \in Processes, NEW op \in {"stage", "activate", "rollback"},
         NEW spec \in Specs \cup {NoSpec}, NEW base \in Specs \cup {NoSpec},
         Call(p, op, spec, base),
         op = "stage" => spec \in Candidates,
         op = "activate" => spec \in Candidates /\ Staged(spec)
  PROVE  IInv'
<1> DEFINE next == [pc |-> "waiting", op |-> op, spec |-> spec, base |-> base]
<1>1. next \in Process BY DEF Process
<1>2. process' = [process EXCEPT ![p] = next] BY DEF Call
<1>3. process'[p] = next BY <1>2 DEF IInv, Typed
<1>4. next.pc = "waiting" /\ next.op = op /\ next.spec = spec OBVIOUS
<1>5. file' = file /\ state' = state /\ packaged' = packaged /\ faults' = faults /\ lock' = lock
  BY DEF Call
<1> HIDE DEF next
<1>6. Relies(p)' BY <1>3, <1>4, <1>5 DEF Relies, Staged
<1> QED BY <1>1, <1>2, <1>4, <1>5, <1>6, AdvanceStep DEF Holding

LEMMA ActiveTyped == IInv => GetActive(state) = Active /\ Active \in Specs \cup {NoSpec}
<1> SUFFICES ASSUME IInv PROVE GetActive(state) = Active /\ Active \in Specs \cup {NoSpec} OBVIOUS
<1>1. packaged \in Specs /\ state.active \in Specs \cup {NoSpec}
  BY SpecsAssumption DEF IInv, Typed, State
<1> QED BY <1>1, GetActiveIsActive DEF IInv, Active

LEMMA CallsStep ==
  ASSUME IInv, NEW p \in Processes,
         \/ \E c \in Candidates : CallStage(p, c)
         \/ \E c \in Candidates, b \in Candidates \cup Packages : CallActivate(p, c, b)
         \/ CallRollback(p)
  PROVE  IInv'
<1>1. CASE \E c \in Candidates : CallStage(p, c)
  BY <1>1, CallStep, ActiveTyped, SpecsAssumption DEF CallStage
<1>2. CASE \E c \in Candidates, b \in Candidates \cup Packages : CallActivate(p, c, b)
  BY <1>2, CallStep, SpecsAssumption DEF CallActivate, Staged
<1>3. CASE CallRollback(p) BY <1>3, CallStep, ActiveTyped DEF CallRollback
<1> QED BY <1>1, <1>2, <1>3

\* The lock is taken and the call moves on, or it ends.
LEMMA StartStageStep ==
  ASSUME IInv, NEW p \in Processes, StartStage(p)
  PROVE  IInv'
<1> DEFINE c == process[p]
           next == [c EXCEPT !.pc = "staging"]
<1>1. c \in Process /\ Relies(p) BY DEF IInv, Typed, ProcessesRely
<1>2. CASE Return(p) BY <1>2, GiveUpStep DEF StartStage, IInv, Typed
<1>3. CASE lock' = lock \cup {p} /\ process' = [process EXCEPT ![p].pc = "staging"]
  <2>1. next \in Process /\ process' = [process EXCEPT ![p] = next] BY <1>1, <1>3 DEF Process
  <2>2. lock = {} /\ lock' = {p} BY <1>3 DEF StartStage, LockFree
  <2>3. process'[p] = next BY <2>1 DEF IInv, Typed
  <2>4. next.pc = "staging" /\ next.spec = c.spec BY <1>1 DEF Process
  <2>5. c.spec \in Candidates BY <1>1 DEF StartStage, Relies
  <2> HIDE DEF next
  <2>6. Relies(p)' BY <2>3, <2>4, <2>5 DEF Relies
  <2> QED BY <2>1, <2>2, <2>6, AdvanceStep DEF StartStage
<1> QED BY <1>2, <1>3 DEF StartStage

LEMMA StartActivateStep ==
  ASSUME IInv, NEW p \in Processes, StartActivate(p)
  PROVE  IInv'
<1> DEFINE c == process[p]
           next == [[c EXCEPT !.pc = "linking"] EXCEPT !.spec = c.spec]
<1>1. c \in Process /\ Relies(p) BY DEF IInv, Typed, ProcessesRely
<1>2. c.spec \in Candidates /\ Staged(c.spec) /\ c.spec \in Specs
  BY <1>1, SpecsAssumption DEF StartActivate, Relies
<1>3. /\ Exists("staged", c.spec)
      /\ [rev |-> c.spec.rev, body |-> file["staged"][c.spec.rev]] = c.spec
  BY <1>2, BodyPresent DEF Staged, Exists, Specs
<1>4. CASE Return(p) BY <1>4, GiveUpStep DEF StartActivate, IInv, Typed
<1>5. CASE ~Return(p)
  <2>1. /\ Fresh(p) /\ lock = {} /\ lock' = {p}
        /\ process' = [process EXCEPT ![p].pc = "linking", ![p].spec = c.spec]
    BY <1>3, <1>5 DEF StartActivate, LockFree
  <2>2. next \in Process /\ process' = [process EXCEPT ![p] = next]
    BY <1>1, <2>1 DEF IInv, Typed, Process
  <2>3. process'[p] = next BY <2>2 DEF IInv, Typed
  <2>4. next.pc = "linking" /\ next.spec = c.spec /\ next.op = "activate" /\ next.base = c.base
    BY <1>1 DEF Process, StartActivate
  <2> HIDE DEF next
  <2>5. file' = file /\ state' = state /\ packaged' = packaged /\ faults' = faults
    BY DEF StartActivate
  <2>6. Expected(p) BY <2>1, FreshIsExpected DEF IInv
  <2>7. Relies(p)' BY <1>2, <2>3, <2>4, <2>5, <2>6 DEF Relies, Staged, Expected, Active
  <2> QED BY <2>1, <2>2, <2>5, <2>7, AdvanceStep
<1> QED BY <1>4, <1>5

LEMMA StartRollbackStep ==
  ASSUME IInv, NEW p \in Processes, StartRollback(p)
  PROVE  IInv'
<1> DEFINE c == process[p]
           next == [[c EXCEPT !.pc = "pointing"] EXCEPT !.spec = state.previous]
<1>1. c \in Process /\ Relies(p) BY DEF IInv, Typed, ProcessesRely
<1>2. CASE Return(p) BY <1>2, GiveUpStep DEF StartRollback, IInv, Typed
<1>3. CASE ~Return(p)
  <2>1. /\ Fresh(p) /\ state # NoState /\ lock = {} /\ lock' = {p}
        /\ process' = [process EXCEPT ![p].pc = "pointing", ![p].spec = state.previous]
    BY <1>3 DEF StartRollback, LockFree
  <2>2. Kept(state.previous) /\ state.previous \in Specs
    BY <2>1 DEF IInv, StateKept, Kept
  <2>3. next \in Process /\ process' = [process EXCEPT ![p] = next]
    BY <1>1, <2>1, <2>2 DEF IInv, Typed, Process
  <2>4. process'[p] = next BY <2>3 DEF IInv, Typed
  <2>5. /\ next.pc = "pointing" /\ next.spec = state.previous
        /\ next.op = "rollback" /\ next.base = c.base
    BY <1>1 DEF Process, StartRollback
  <2> HIDE DEF next
  <2>6. file' = file /\ state' = state /\ packaged' = packaged /\ faults' = faults
    BY DEF StartRollback
  <2>7. Expected(p) BY <2>1, FreshIsExpected DEF IInv
  <2>8. Relies(p)'
    BY <2>1, <2>2, <2>4, <2>5, <2>6, <2>7 DEF Relies, Kept, Versioned, Expected, Active
  <2> QED BY <2>1, <2>3, <2>6, <2>8, AdvanceStep
<1> QED BY <1>2, <1>3

LEMMA WriteStep ==
  ASSUME IInv, NEW d \in Dirs, NEW s \in Candidates, WriteImmutable(d, s) \/ Conflict(d, s)
  PROVE  /\ Grows /\ FilesCandidates'
         /\ file' \in [Dirs -> [Revisions -> Bodies \cup {Absent}]]
         /\ WriteImmutable(d, s) => file'[d][s.rev] = s.body
<1>1. file \in [Dirs -> [Revisions -> Bodies \cup {Absent}]] BY DEF IInv, Typed
<1>2. s \in Specs /\ s = [rev |-> s.rev, body |-> s.body] /\ s.rev \in Revisions /\ s.body \in Bodies
  BY SpecsAssumption DEF Specs
<1>3. CASE Conflict(d, s)
  BY <1>1, <1>2, <1>3, FilesUntouched DEF Conflict, WriteImmutable
<1>4. CASE WriteImmutable(d, s)
  <2>1. file' \in [Dirs -> [Revisions -> Bodies \cup {Absent}]] /\ file'[d][s.rev] = s.body
    BY <1>1, <1>2, <1>4 DEF WriteImmutable
  <2>2. \A e \in Dirs, r \in Revisions : file'[e][r] = file[e][r] \/ (e = d /\ r = s.rev)
    BY <1>1, <1>4 DEF WriteImmutable
  <2>3. Grows BY <1>4, <2>1, <2>2 DEF Grows, WriteImmutable
  <2>4. FilesCandidates' BY <1>2, <2>1, <2>2 DEF FilesCandidates, IInv
  <2> QED BY <2>1, <2>3, <2>4
<1> QED BY <1>3, <1>4

LEMMA StageStep ==
  ASSUME IInv, NEW p \in Processes, Stage(p)
  PROVE  IInv'
<1>1. process[p].spec \in Candidates BY DEF IInv, ProcessesRely, Relies, Stage
<1>2. /\ Grows /\ FilesCandidates'
      /\ file' \in [Dirs -> [Revisions -> Bodies \cup {Absent}]]
  BY <1>1, WriteStep DEF Stage, Dirs
<1>3. StateKept' BY <1>2, StateKeptStays DEF IInv, Stage
<1> QED BY <1>2, <1>3, ReturnStep DEF Stage, IInv, Typed

LEMMA LinkStep ==
  ASSUME IInv, NEW p \in Processes, Link(p)
  PROVE  IInv'
<1> DEFINE c == process[p]
           next == [c EXCEPT !.pc = "pointing"]
<1>1. /\ c \in Process /\ c.op = "activate" /\ c.spec \in Candidates
      /\ Staged(c.spec) /\ Expected(p)
  BY DEF IInv, Typed, ProcessesRely, Relies, Link
<1>2. c.spec \in Specs BY <1>1, SpecsAssumption
<1>3. /\ Grows /\ FilesCandidates'
      /\ file' \in [Dirs -> [Revisions -> Bodies \cup {Absent}]]
      /\ WriteImmutable("versions", c.spec) => file'["versions"][c.spec.rev] = c.spec.body
  BY <1>1, WriteStep DEF Link, Dirs
<1>4. StateKept' BY <1>3, StateKeptStays DEF IInv, Link
<1>5. CASE Return(p) BY <1>3, <1>4, <1>5, ReturnStep DEF Link, IInv, Typed
<1>6. CASE ~Return(p)
  <2>1. /\ process' = [process EXCEPT ![p].pc = "pointing"] /\ lock' = lock
        /\ file'["versions"][c.spec.rev] = c.spec.body
    BY <1>3, <1>6 DEF Link
  <2>2. next \in Process /\ process'[p] = next /\ Moves(p)
    BY <1>1, <2>1 DEF IInv, Typed, Process, Moves
  <2>3. next.pc = "pointing" /\ next.spec = c.spec /\ next.op = "activate" /\ next.base = c.base
    BY <1>1 DEF Process
  <2> HIDE DEF next
  <2>4. file'["staged"][c.spec.rev] = c.spec.body
    BY <1>1, <1>2, <1>3, FileStays DEF Staged, Dirs
  <2>5. state' = state /\ packaged' = packaged /\ faults' = faults BY DEF Link
  <2>6. Relies(p)'
    BY <1>1, <1>2, <2>1, <2>2, <2>3, <2>4, <2>5
       DEF Relies, Staged, Kept, Versioned, Expected, Active
  <2>7. Typed' BY <1>3, <2>2, <2>5 DEF IInv, Typed, Moves
  <2>8. process[p].pc \in Holding BY DEF Link, Holding
  <2> QED BY <1>3, <1>4, <2>1, <2>2, <2>5, <2>6, <2>7, <2>8, StepOf
<1> QED BY <1>5, <1>6

\* What p writes when it points the state elsewhere.
LEMMA Pointed ==
  ASSUME IInv, NEW p \in Processes, Point(p)
  PROVE  /\ Kept(process[p].spec) /\ Kept(Active)
         /\ state' = [active |-> process[p].spec, previous |-> Active]
         /\ Active = IF state = NoState THEN packaged ELSE state.active
         /\ file' = file /\ packaged' = packaged
<1>1. Kept(process[p].spec) /\ Active # NoSpec
  BY DEF IInv, ProcessesRely, Relies, Point, Expected
<1>2. state' = [active |-> process[p].spec, previous |-> Active]
  BY ActiveTyped DEF Point
<1>3. Active = IF state = NoState THEN packaged ELSE state.active
  BY <1>1 DEF Active
<1>4. Kept(packaged) BY SpecsAssumption DEF IInv, Typed, Kept
<1>5. Kept(Active) BY <1>3, <1>4 DEF IInv, StateKept
<1> QED BY <1>1, <1>2, <1>3, <1>5 DEF Point

LEMMA PointStep ==
  ASSUME IInv, NEW p \in Processes, Point(p)
  PROVE  IInv'
<1> DEFINE new == process[p].spec
           old == Active
<1>1. /\ Kept(new) /\ Kept(old) /\ file' = file /\ packaged' = packaged
      /\ state' = [active |-> new, previous |-> old]
  BY Pointed
<1>2. Grows /\ FilesCandidates' BY <1>1, FilesUntouched
<1>3. new \in Specs /\ old \in Specs BY <1>1 DEF Kept
<1> HIDE DEF new, old
<1>4. state' \in State BY <1>1, <1>3 DEF State
<1>5. state'.active = new /\ state'.previous = old BY <1>1
<1>6. StateKept' BY <1>1, <1>5 DEF StateKept, Kept, Versioned
<1> QED BY <1>1, <1>2, <1>4, <1>6, ReturnStep DEF Point, IInv, Typed

LEMMA ReadStateStep ==
  ASSUME IInv, NEW p \in Processes, ReadState(p)
  PROVE  IInv'
<1> DEFINE next == [pc |-> "reading", op |-> "read", spec |-> state.active, base |-> NoSpec]
<1>1. Kept(state.active) /\ state.active \in Specs BY DEF IInv, StateKept, Kept, ReadState
<1>2. next \in Process /\ process' = [process EXCEPT ![p] = next]
  BY <1>1 DEF ReadState, Process
<1>3. process'[p] = next BY <1>2 DEF IInv, Typed
<1>4. next.pc = "reading" /\ next.spec = state.active OBVIOUS
<1> HIDE DEF next
<1>5. /\ file' = file /\ state' = state /\ packaged' = packaged
      /\ faults' = faults /\ lock' = lock
  BY DEF ReadState
<1>6. Relies(p)' BY <1>1, <1>3, <1>4, <1>5 DEF Relies, Kept, Versioned
<1> QED BY <1>2, <1>4, <1>5, <1>6, AdvanceStep DEF Holding

LEMMA CrashStep ==
  ASSUME IInv, NEW p \in Processes, Crash(p)
  PROVE  IInv'
<1>1. faults' \in 0..MaxFaults BY FaultsAssumption DEF IInv, Typed, Crash
<1> QED BY <1>1, GiveUpStep DEF Crash

LEMMA ReleaseStep ==
  ASSUME IInv, NEW b \in Packages, Release(b)
  PROVE  IInv'
<1>1. Grows /\ FilesCandidates' BY FilesUntouched DEF Release
<1>2. StateKept' BY <1>1, StateKeptStays DEF IInv, Release
<1>3. \A p \in Processes : process'[p] = Idle BY DEF Release
<1>4. LockShape' /\ HoldersLock' BY <1>3, IdleTyped DEF IInv, LockShape, HoldersLock, Holding, Release
<1>5. ProcessesRely' BY <1>3, IdleTyped DEF ProcessesRely, Relies
<1>6. Typed' BY DEF IInv, Typed, Release
<1> QED BY <1>1, <1>2, <1>4, <1>5, <1>6 DEF IInv

LEMMA NextIInv == IInv /\ [Next]_vars => IInv'
<1> SUFFICES ASSUME IInv, [Next]_vars PROVE IInv' OBVIOUS
<1>1. ASSUME NEW p \in Processes,
             \/ \E c \in Candidates : CallStage(p, c)
             \/ \E c \in Candidates, b \in Candidates \cup Packages : CallActivate(p, c, b)
             \/ CallRollback(p)
      PROVE  IInv'
  BY <1>1, CallsStep
<1>2. ASSUME NEW p \in Processes, StartStage(p) \/ StartActivate(p) \/ StartRollback(p)
      PROVE  IInv'
  BY <1>2, StartStageStep, StartActivateStep, StartRollbackStep
<1>3. ASSUME NEW p \in Processes, Stage(p) \/ Link(p) \/ Point(p) PROVE IInv'
  BY <1>3, StageStep, LinkStep, PointStep
<1>4. ASSUME NEW p \in Processes, ReadState(p) PROVE IInv'
  BY <1>4, ReadStateStep
<1>5. ASSUME NEW p \in Processes, ReadVersion(p) PROVE IInv'
  BY <1>5, GiveUpStep DEF ReadVersion, IInv, Typed
<1>6. ASSUME NEW p \in Processes, Crash(p) PROVE IInv'
  BY <1>6, CrashStep
<1>7. ASSUME NEW b \in Packages, Release(b) PROVE IInv'
  BY <1>7, ReleaseStep
<1>8. CASE UNCHANGED vars
  <2>1. Grows BY <1>8 DEF vars, Grows
  <2>2. UNCHANGED <<file, state, packaged, lock, process, faults>> BY <1>8 DEF vars
  <2>3. ProcessesRely'
    BY <2>1, <2>2, OthersRely DEF ProcessesRely
  <2> QED BY <2>2, <2>3, FilesUntouched, <2>1, StateKeptStays
          DEF IInv, Typed, LockShape, HoldersLock
<1> QED BY <1>1, <1>2, <1>3, <1>4, <1>5, <1>6, <1>7, <1>8 DEF Next

\* The inductive invariant holds in every reachable state.
THEOREM Invariance == Spec => []IInv
BY InitIInv, NextIInv, PTL DEF Spec

-----------------------------------------------------------------------------
(* The properties.                                                         *)

\* Type correctness, with at most one holder of the lock.
THEOREM TypeCorrect == Spec => []TypeOK
<1>1. IInv => TypeOK
  <2> SUFFICES ASSUME IInv PROVE TypeOK OBVIOUS
  <2>1. lock \in SUBSET Processes BY DEF IInv, LockShape
  <2>2. Cardinality(lock) <= 1
    <3>1. Cardinality({}) = 0 BY FS_EmptySet
    <3>2. \A p : Cardinality({p}) = 1 BY FS_Singleton
    <3>3. Cardinality(lock) \in {0, 1} BY <3>1, <3>2 DEF IInv, LockShape
    <3> QED BY <3>3
  <2> QED BY <2>1, <2>2 DEF IInv, Typed, TypeOK
<1> QED BY <1>1, Invariance, PTL

\* What the state file names, and what a reader without the lock has read, can
\* be found with the digest that is recorded.
THEOREM Resolving == Spec => []StateResolves
<1>1. IInv => StateResolves
  <2> SUFFICES ASSUME IInv PROVE StateResolves OBVIOUS
  <2>1. Found(state.active) /\ Found(state.previous)
    <3>1. CASE state = NoState BY <3>1 DEF NoState, Found
    <3>2. CASE state # NoState BY <3>2, KeptFound DEF IInv, StateKept
    <3> QED BY <3>1, <3>2
  <2>2. ASSUME NEW p \in Processes, process[p].pc = "reading" PROVE Found(process[p].spec)
    BY <2>2, KeptFound DEF IInv, ProcessesRely, Relies
  <2> QED BY <2>1, <2>2 DEF StateResolves
<1> QED BY <1>1, Invariance, PTL

\* The comparison with the expected revision is still true when the state file
\* is replaced.
THEOREM Comparing == Spec => []PointFresh
<1>1. IInv => PointFresh
  BY FreshIsExpected DEF IInv, ProcessesRely, Relies, PointFresh
<1> QED BY <1>1, Invariance, PTL

-----------------------------------------------------------------------------
(* Refinement.                                                             *)

LEMMA RefinedInit == Init => Refined!Init
<1> SUFFICES ASSUME Init PROVE Refined!Init OBVIOUS
<1>1. {s \in Specs : file["staged"][s.rev] = s.body} = {}
  BY BodyPresent DEF Init, Dirs
<1> QED BY <1>1 DEF Init, NoState, Refined!Init

\* A step that changes neither the staged files nor what is current.
LEMMA RefinedStutter ==
  ASSUME file'["staged"] = file["staged"], state' = state, packaged' = packaged
  PROVE  UNCHANGED Refined!vars
BY DEF Refined!vars

LEMMA RefinedStage ==
  ASSUME IInv, NEW p \in Processes, Stage(p)
  PROVE  Refined!Next \/ UNCHANGED Refined!vars
<1> DEFINE c == process[p].spec
<1>1. c \in Candidates /\ c \in Specs
  BY SpecsAssumption DEF IInv, ProcessesRely, Relies, Stage
<1>2. file \in [Dirs -> [Revisions -> Bodies \cup {Absent}]] BY DEF IInv, Typed
<1>3. c.rev \in Revisions BY <1>1, BodyPresent
<1>4. state' = state /\ packaged' = packaged BY DEF Stage
<1>5. CASE file' = file BY <1>4, <1>5, RefinedStutter
<1>6. CASE file' # file
  <2>1. /\ file["staged"][c.rev] \in {Absent, c.body}
        /\ file' = [file EXCEPT !["staged"][c.rev] = c.body]
    BY <1>6 DEF Stage, WriteImmutable, Conflict
  <2>2. file["staged"][c.rev] = Absent
    BY <1>2, <1>3, <1>6, <2>1 DEF Dirs
  <2>3. \A s \in Specs : file["staged"][s.rev] = s.body => s.rev # c.rev
    BY <2>2, BodyPresent
  <2>4. \A s \in Specs : file'["staged"][s.rev] = s.body
                          <=> file["staged"][s.rev] = s.body \/ s = c
    <3> SUFFICES ASSUME NEW s \in Specs
                 PROVE  file'["staged"][s.rev] = s.body
                        <=> file["staged"][s.rev] = s.body \/ s = c
      OBVIOUS
    <3>1. s.rev \in Revisions BY BodyPresent
    <3>2. CASE s.rev = c.rev
      <4>1. file'["staged"][s.rev] = c.body BY <1>2, <1>3, <2>1, <3>2 DEF Dirs
      <4> QED BY <1>1, <2>3, <3>2, <4>1, SameSpec
    <3>3. CASE s.rev # c.rev
      <4>1. file'["staged"][s.rev] = file["staged"][s.rev]
        BY <1>2, <1>3, <2>1, <3>1, <3>3 DEF Dirs
      <4> QED BY <3>3, <4>1
    <3> QED BY <3>2, <3>3
  <2> HIDE DEF c
  <2>5. {s \in Specs : file'["staged"][s.rev] = s.body}
        = {s \in Specs : file["staged"][s.rev] = s.body} \cup {c}
    BY <1>1, <2>4
  <2>6. \E s \in Specs : Refined!Offer(s) BY <1>1, <1>4, <2>3, <2>5 DEF Refined!Offer
  <2> QED BY <2>6 DEF Refined!Next
<1> QED BY <1>5, <1>6

LEMMA RefinedPoint ==
  ASSUME IInv, NEW p \in Processes, Point(p)
  PROVE  Refined!Next
<1> DEFINE new == process[p].spec
           now == IF state = NoState THEN packaged ELSE state.active
<1>1. /\ Kept(new) /\ file' = file
      /\ state' = [active |-> new, previous |-> now]
  BY Pointed
<1>2. new \in Specs /\ new # NoSpec BY <1>1, BodyPresent DEF Kept
<1>3. state' # NoState /\ state'.active = new /\ state'.previous = now
  BY <1>1, <1>2 DEF NoState
<1>4. \/ Staged(new)
      \/ state # NoState /\ new = state.previous
  BY DEF IInv, ProcessesRely, Relies, Point
<1>5. CASE Staged(new)
  <2>1. new \in {s \in Specs : file["staged"][s.rev] = s.body} BY <1>2, <1>5 DEF Staged
  <2>2. Refined!Promote(new) BY <1>1, <1>3, <2>1 DEF Refined!Promote
  <2> QED BY <1>2, <2>2 DEF Refined!Next
<1>6. CASE state # NoState /\ new = state.previous
  <2>1. Refined!Revert BY <1>1, <1>2, <1>3, <1>6 DEF Refined!Revert
  <2> QED BY <2>1 DEF Refined!Next
<1> QED BY <1>4, <1>5, <1>6

LEMMA RefinedRelease ==
  ASSUME IInv, NEW b \in Packages, Release(b)
  PROVE  Refined!Next \/ UNCHANGED Refined!vars
<1>1. file' = file /\ state' = state /\ packaged' = b BY DEF Release
<1>2. CASE state = NoState
  <2>1. Refined!Release BY <1>1, <1>2 DEF Refined!Release, NoState, IInv, Typed
  <2> QED BY <2>1 DEF Refined!Next
<1>3. CASE state # NoState BY <1>1, <1>3 DEF Refined!vars
<1> QED BY <1>2, <1>3

LEMMA RefinedNext == IInv /\ [Next]_vars => [Refined!Next]_Refined!vars
<1> SUFFICES ASSUME IInv, [Next]_vars PROVE Refined!Next \/ UNCHANGED Refined!vars OBVIOUS
<1>1. ASSUME NEW p \in Processes, Stage(p) PROVE Refined!Next \/ UNCHANGED Refined!vars
  BY <1>1, RefinedStage
<1>2. ASSUME NEW p \in Processes, Point(p) PROVE Refined!Next
  BY <1>2, RefinedPoint
<1>3. ASSUME NEW b \in Packages, Release(b) PROVE Refined!Next \/ UNCHANGED Refined!vars
  BY <1>3, RefinedRelease
<1>4. ASSUME NEW p \in Processes, Link(p) PROVE UNCHANGED Refined!vars
  <2>1. file'["staged"] = file["staged"]
    BY <1>4 DEF Link, WriteImmutable, Conflict, IInv, Typed, Dirs
  <2> QED BY <1>4, <2>1, RefinedStutter DEF Link
<1>5. ASSUME NEW p \in Processes,
             \/ \E c \in Candidates : CallStage(p, c)
             \/ \E c \in Candidates, b \in Candidates \cup Packages : CallActivate(p, c, b)
             \/ CallRollback(p)
             \/ StartStage(p) \/ StartActivate(p) \/ StartRollback(p)
             \/ ReadState(p) \/ ReadVersion(p) \/ Crash(p)
      PROVE  UNCHANGED Refined!vars
  <2>1. file' = file /\ state' = state /\ packaged' = packaged
    BY <1>5 DEF CallStage, CallActivate, CallRollback, Call, StartStage, StartActivate,
                StartRollback, ReadState, ReadVersion, Crash
  <2> QED BY <2>1, RefinedStutter
<1>6. CASE UNCHANGED vars BY <1>6, RefinedStutter DEF vars
<1> QED BY <1>1, <1>2, <1>3, <1>4, <1>5, <1>6 DEF Next

\* The files, the lock and the processes implement one pair of specifications
\* that changes at once.
THEOREM Refinement == Spec => ImplementsActiveRevision
BY RefinedInit, RefinedNext, Invariance, PTL DEF Spec, Refined!Spec, ImplementsActiveRevision
=============================================================================
