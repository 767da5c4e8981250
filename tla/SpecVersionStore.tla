--------------------------- MODULE SpecVersionStore ---------------------------
(***************************************************************************)
(* The versioned store of one adapter's specifications: the files          *)
(* staged/<key>/<revision>.json, versions/<key>/<revision>.json and        *)
(* state/<key>.json of repair/versions.py, and the processes that stage,   *)
(* activate, roll back and read.  Writers hold the file lock of the key;   *)
(* readers take no lock.  A process can die between any two steps, which   *)
(* releases its lock.                                                      *)
(*                                                                         *)
(* A specification is its revision and a body; the body stands for the     *)
(* sha256 digest of the file as well, because the serialisation is         *)
(* canonical and the digest is only compared.  A file is linked or         *)
(* replaced in one step, so its content is never partial.                  *)
(***************************************************************************)
EXTENDS Naturals, FiniteSets

CONSTANTS
  Revisions,   \* revision names
  Bodies,      \* what a specification can say
  Candidates,  \* the specifications that are proposed
  Packages,    \* the baselines that releases of the package come with
  Initial,     \* the baseline of the release that is installed at first
  Absent,      \* there is no such file
  NoSpec,      \* there is no such specification
  Processes,   \* repair workers, operators and scrape workers
  MaxFaults    \* bound: crashes

Specs == [rev : Revisions, body : Bodies]

ASSUME SpecsAssumption ==
  /\ Candidates \subseteq Specs /\ Packages \subseteq Specs /\ Initial \in Packages
  /\ \A p, q \in Packages : p.rev = q.rev => p = q
  /\ \A c \in Candidates, p \in Packages : c.rev # p.rev
  /\ Absent \notin Bodies /\ NoSpec \notin Specs

ASSUME FaultsAssumption == MaxFaults \in Nat

VARIABLES
  file,      \* file[d][r]: the body in file r of directory d, or Absent
  state,     \* the state file: the active and the previous specification
  packaged,  \* the baseline of the installed package
  lock,      \* the process that holds the lock of the key
  process,   \* the call each process is executing
  faults     \* crashes so far, for the bound MaxFaults

vars == <<file, state, packaged, lock, process, faults>>

Dirs == {"staged", "versions"}
State == [active : Specs \cup {NoSpec}, previous : Specs \cup {NoSpec}]
NoState == [active |-> NoSpec, previous |-> NoSpec]
Idle == [pc |-> "idle", op |-> "none", spec |-> NoSpec, base |-> NoSpec]
Process ==
  [pc : {"idle", "waiting", "staging", "linking", "pointing", "reading"},
   op : {"none", "stage", "activate", "rollback", "read"},
   spec : Specs \cup {NoSpec}, base : Specs \cup {NoSpec}]

TypeOK ==
  /\ file \in [Dirs -> [Revisions -> Bodies \cup {Absent}]]
  /\ state \in State
  /\ packaged \in Packages
  /\ lock \in SUBSET Processes /\ Cardinality(lock) <= 1
  /\ process \in [Processes -> Process]
  /\ faults \in 0..MaxFaults

-----------------------------------------------------------------------------
(* Reading.                                                                *)

Exists(d, s) == file[d][s.rev] # Absent

\* get_revision: the file, else the package.  NoSpec is UnknownSpecError.
GetRevision(rev) ==
  IF file["versions"][rev] # Absent THEN [rev |-> rev, body |-> file["versions"][rev]]
  ELSE IF packaged.rev = rev THEN packaged
  ELSE NoSpec

\* A state entry is a revision and a digest: it resolves if the revision is
\* found and has that digest.
Resolves(s) == GetRevision(s.rev) = s

\* get_active; NoSpec when it raises.
GetActive(st) ==
  IF st = NoState THEN packaged
  ELSE IF Resolves(st.active) THEN st.active
  ELSE NoSpec

Init ==
  /\ file = [d \in Dirs |-> [r \in Revisions |-> Absent]]
  /\ state = NoState
  /\ packaged = Initial
  /\ lock = {}
  /\ process = [p \in Processes |-> Idle]
  /\ faults = 0

-----------------------------------------------------------------------------
(* The calls.  A caller names the active revision it counts on.            *)

Call(p, op, spec, base) ==
  /\ process[p] = Idle
  /\ process' = [process EXCEPT ![p] = [pc |-> "waiting", op |-> op, spec |-> spec, base |-> base]]
  /\ UNCHANGED <<file, state, packaged, lock, faults>>

\* Proposals are for the baseline that was active when they were asked for.
CallStage(p, c) == GetActive(state) # NoSpec /\ Call(p, "stage", c, GetActive(state))

\* An operator deploys a staged candidate; the baseline may be long gone.
CallActivate(p, c, base) ==
  /\ file["staged"][c.rev] = c.body
  /\ Call(p, "activate", c, base)

CallRollback(p) == GetActive(state) # NoSpec /\ Call(p, "rollback", NoSpec, GetActive(state))

\* The call ends, with a result or with an exception.
Return(p) ==
  /\ process' = [process EXCEPT ![p] = Idle]
  /\ lock' = lock \ {p}

\* Mutant of LockFree: the lock is not exclusive.
LockIgnored == TRUE

LockFree == lock = {}

\* The active revision is the one the caller counts on.
Fresh(p) == GetActive(state) # NoSpec /\ GetActive(state).rev = process[p].base.rev

\* Acquire the lock, read the active specification, compare, and find what is
\* to be written.
StartStage(p) ==
  LET c == process[p].spec IN
  /\ process[p].pc = "waiting" /\ process[p].op = "stage"
  /\ LockFree
  /\ IF Fresh(p) /\ c.rev # GetActive(state).rev
       THEN /\ lock' = lock \cup {p}
            /\ process' = [process EXCEPT ![p].pc = "staging"]
       ELSE Return(p)
  /\ UNCHANGED <<file, state, packaged, faults>>

StartActivate(p) ==
  LET c == process[p].spec
      found == IF Exists("staged", c) THEN [rev |-> c.rev, body |-> file["staged"][c.rev]]
                                      ELSE GetRevision(c.rev)
  IN
  /\ process[p].pc = "waiting" /\ process[p].op = "activate"
  /\ LockFree
  /\ IF Fresh(p) /\ c.rev # GetActive(state).rev /\ found # NoSpec
       THEN /\ lock' = lock \cup {p}
            /\ process' = [process EXCEPT ![p].pc = "linking", ![p].spec = found]
       ELSE Return(p)
  /\ UNCHANGED <<file, state, packaged, faults>>

StartRollback(p) ==
  /\ process[p].pc = "waiting" /\ process[p].op = "rollback"
  /\ LockFree
  /\ IF Fresh(p) /\ state # NoState /\ state.previous # NoSpec /\ Resolves(state.previous)
       THEN /\ lock' = lock \cup {p}
            /\ process' = [process EXCEPT ![p].pc = "pointing", ![p].spec = state.previous]
       ELSE Return(p)
  /\ UNCHANGED <<file, state, packaged, faults>>

\* Mutant of WriteImmutable: an existing file is replaced.
WriteAnyway(d, s) ==
  /\ file' = [file EXCEPT ![d][s.rev] = s.body]

\* _write_immutable when it does not raise: the file is new or already says
\* the same.
WriteImmutable(d, s) ==
  /\ file[d][s.rev] \in {Absent, s.body}
  /\ file' = [file EXCEPT ![d][s.rev] = s.body]

\* _write_immutable raises.
Conflict(d, s) ==
  /\ file[d][s.rev] \notin {Absent, s.body}
  /\ UNCHANGED file

Stage(p) ==
  /\ process[p].pc = "staging"
  /\ WriteImmutable("staged", process[p].spec) \/ Conflict("staged", process[p].spec)
  /\ Return(p)
  /\ UNCHANGED <<state, packaged, faults>>

\* Mutant of Link: an already staged candidate is not copied.
LinkUnstaged(p) ==
  /\ process[p].pc = "linking"
  /\ process' = [process EXCEPT ![p].pc = "pointing"]
  /\ UNCHANGED <<file, lock, state, packaged, faults>>

Link(p) ==
  /\ process[p].pc = "linking"
  /\ \/ /\ WriteImmutable("versions", process[p].spec)
        /\ process' = [process EXCEPT ![p].pc = "pointing"]
        /\ UNCHANGED lock
     \/ Conflict("versions", process[p].spec) /\ Return(p)
  /\ UNCHANGED <<state, packaged, faults>>

\* _write_state: os.replace is one step.  current was read under the lock.
Point(p) ==
  /\ process[p].pc = "pointing"
  /\ state' = [active |-> process[p].spec, previous |-> GetActive(state)]
  /\ Return(p)
  /\ UNCHANGED <<file, packaged, faults>>

\* get_active takes no lock: the state file first, then the specification.
ReadState(p) ==
  /\ process[p] = Idle
  /\ state # NoState
  /\ process' = [process EXCEPT ![p] =
       [pc |-> "reading", op |-> "read", spec |-> state.active, base |-> NoSpec]]
  /\ UNCHANGED <<file, state, packaged, lock, faults>>

ReadVersion(p) ==
  /\ process[p].pc = "reading"
  /\ Return(p)
  /\ UNCHANGED <<file, state, packaged, faults>>

-----------------------------------------------------------------------------
(* Faults and releases.                                                    *)

Crash(p) ==
  /\ process[p] # Idle
  /\ faults < MaxFaults /\ faults' = faults + 1
  /\ Return(p)
  /\ UNCHANGED <<file, state, packaged>>

\* Another release is installed, with no process running.
Release(b) ==
  /\ \A p \in Processes : process[p] = Idle
  /\ b # packaged
  /\ packaged' = b
  /\ UNCHANGED <<file, state, lock, process, faults>>

Next ==
  \/ \E p \in Processes :
       \/ \E c \in Candidates : CallStage(p, c)
       \/ \E c \in Candidates, b \in Candidates \cup Packages : CallActivate(p, c, b)
       \/ CallRollback(p)
       \/ StartStage(p) \/ StartActivate(p) \/ StartRollback(p)
       \/ Stage(p) \/ Link(p) \/ Point(p)
       \/ ReadState(p) \/ ReadVersion(p)
       \/ Crash(p)
  \/ \E b \in Packages : Release(b)

Spec == Init /\ [][Next]_vars

-----------------------------------------------------------------------------
(* Properties.                                                             *)

\* Whatever crash interrupts a writer, and whatever a reader without the lock
\* has just read, the state names specifications that are found and have the
\* digest it records (get_active, rollback, versions.py): an adapter can always
\* be loaded and always be taken back.  A baseline of another release is the
\* exception, because nobody keeps a copy of it.
Found(s) == s \in {NoSpec} \cup (Packages \ {packaged}) \/ Resolves(s)

StateResolves ==
  /\ Found(state.active) /\ Found(state.previous)
  /\ \A p \in Processes : process[p].pc = "reading" => Found(process[p].spec)

\* The comparison with the expected revision still holds when the state file is
\* replaced: of two operators that count on the same baseline, one is refused.
PointFresh == \A p \in Processes : process[p].pc = "pointing" => Fresh(p)

\* Seen from outside, the store is ActiveRevision: an activation and a rollback
\* change the current and the previous specification in one step, and only what
\* was staged becomes current.
Refined == INSTANCE ActiveRevision WITH
  current <- IF state = NoState THEN packaged ELSE state.active,
  previous <- state.previous,
  offered <- {s \in Specs : file["staged"][s.rev] = s.body}

ImplementsActiveRevision == Refined!Spec

\* "The prior revision is retained for rollback": what the state names as
\* previous can be restored.
PriorRetained == state.previous # NoSpec => Resolves(state.previous)
=============================================================================
