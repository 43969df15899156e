---------------------------- MODULE RefsWorkers ----------------------------
(***************************************************************************)
(* The workers of a managed ReFS pool (src/internal/refsworkspace:         *)
(* worker.go, baseline.go, coordination.go).  A request clones the         *)
(* baseline Library into a worker directory, hands it to Unity through a   *)
(* junction and releases it; a keeper ensures or clears the baseline.      *)
(* They share directories only: journals, active-use markers, a mutation   *)
(* marker and lock directories that nobody ever breaks.                    *)
(*                                                                         *)
(* Every request is taken to be a process of its own, which includes the   *)
(* goroutines of one process.  A worker never writes more than its         *)
(* reserve, which is 1 here: the code measures, it does not enforce.       *)
(***************************************************************************)
EXTENDS Integers, FiniteSets

CONSTANTS
    Requests, LeaseIds,     \* the requests, and the lease ids they may ask for
    Plans,                  \* what is tried: the lease each request asks for, the
                            \* soft budget in reserves, and whether a keeper that
                            \* died left its creation lock and mutation marker
    None,                   \* no request
    Keeper,                 \* the process that keeps the baseline
    MaxFaults,              \* how many I/O faults there are
    MaxCorruptions,         \* how often the content of a baseline changes
    MaxCrashes,             \* how many processes die
    MaxKeeperOps            \* how many operations the keeper starts

\* What a journal says, and what is in it.
States   == {"requested", "cloning", "ready", "running", "releasing",
             "quarantined", "released"}
Journals == [owner : Requests, state : States]

ASSUME RefsAssumption ==
    /\ Plans \subseteq [leaseOf : [Requests -> LeaseIds], budget : Nat,
                        abandoned : BOOLEAN]
    /\ IsFiniteSet(Requests)
    /\ None \notin Requests /\ Keeper \notin Requests /\ Keeper # None
    /\ None \notin Journals
    /\ MaxFaults \in Nat /\ MaxCorruptions \in Nat
    /\ MaxCrashes \in Nat /\ MaxKeeperOps \in Nat

VARIABLES
    leaseOf, budget,        \* what the requests ask for, and the policy
    pc,                     \* where each request is in Acquire or Release
    used, names, gen,       \* what it measured, listed and resolved
    done,                   \* how many milestones of Release it counts as done
    reported,               \* has it been told of a cleanup that failed?
    content,                \* what its clone holds
    journal,                \* worker-<lease>.json
    staging,                \* does its staging directory exist?
    quarantine,             \* its quarantined tree: none, whole, or torn by a
                            \* deletion that took the owner file and not the rest
    worker,                 \* whose owner file is in <workers>/<lease>
    junction,               \* does the Library of its project lead to it?
    marker,                 \* active-<key>-<lease>.json
    bytes,                  \* what its tree takes on the volume
    reservation, coord, creation,   \* who made the lock directories
    mutation,               \* does the mutation marker exist?
    base,                   \* the baseline, with a number for each build
    discarded,              \* the quarantined baselines still on the volume
    kpc, kop, kfailed, kops,    \* the keeper
    faults, corruptions, crashes

request == <<used, names, gen, done, reported, content>>
disk    == <<journal, staging, quarantine, worker, junction, marker, bytes>>
locks   == <<reservation, coord, creation, mutation>>
keeper  == <<kpc, kop, kfailed, kops>>
store   == <<base, discarded>>
vars    == <<leaseOf, budget, pc, request, disk, locks, store, keeper,
             faults, corruptions, crashes>>

\* The places of Acquire, in order, then what a failed one undoes.
AcquireSteps == {"lock", "measure", "list", "reserve", "unlock", "resolve",
                 "coord", "use", "uncoord", "paths", "cloning", "stage",
                 "clone", "commit", "verify", "link", "ready"}
UndoSteps    == {"undoLink", "undoTree", "undoUse", "undoJournal"}
Held         == {"held", "running"}
Ended        == {"failed", "released", "dead"}

\* The milestones of Release: what the journal says once each is recorded.
\* releasing, junction removed, quarantined, deleted, use released, released.
Milestones == <<"releasing", "releasing", "quarantined", "quarantined",
                "quarantined", "released">>

Init ==
    /\ \E plan \in Plans :
          /\ leaseOf = plan.leaseOf /\ budget = plan.budget
          /\ creation = IF plan.abandoned THEN Keeper ELSE None
          /\ mutation = plan.abandoned
    /\ pc = [r \in Requests |-> "lock"]
    /\ used = [r \in Requests |-> 0]
    /\ names = [r \in Requests |-> {}]
    /\ gen = [r \in Requests |-> 0]
    /\ done = [r \in Requests |-> 0]
    /\ reported = [r \in Requests |-> FALSE]
    /\ content = [r \in Requests |-> "none"]
    /\ journal = [l \in LeaseIds |-> None]
    /\ staging = [r \in Requests |-> FALSE]
    /\ quarantine = [r \in Requests |-> "none"]
    /\ worker = [l \in LeaseIds |-> None]
    /\ junction = [r \in Requests |-> FALSE]
    /\ marker = [l \in LeaseIds |-> None]
    /\ bytes = [r \in Requests |-> 0]
    /\ reservation = None /\ coord = None
    /\ base = [state |-> "valid", gen |-> 0]
    /\ discarded = 0
    /\ kpc = "idle" /\ kop = "ensure" /\ kfailed = FALSE /\ kops = 0
    /\ faults = 0 /\ corruptions = 0 /\ crashes = 0

At(r, place) == pc[r] = place
Goto(r, place) == pc' = [pc EXCEPT ![r] = place]
Journal(r) == journal[leaseOf[r]]
Owns(r) == Journal(r) # None /\ Journal(r).owner = r

\* An I/O error, of which there are MaxFaults.
Fault == faults < MaxFaults /\ faults' = faults + 1
NoFault == faults' = faults

\* What a request leaves alone in every step of its own.
Mine == UNCHANGED <<leaseOf, budget, keeper, store, creation, mutation,
                    corruptions, crashes>>

\* updateLease: the journal is replaced in one piece.
Record(r, state) ==
    journal' = [journal EXCEPT ![leaseOf[r]] = [owner |-> r, state |-> state]]

-----------------------------------------------------------------------------
(* reserveWorker, under the reservation lock                               *)

\* acquireCoordinationLock: polled until it is free or the context ends.
LockReservation(r) ==
    /\ At(r, "lock") /\ NoFault /\ Mine
    /\ \/ /\ reservation = None
          /\ reservation' = r
          /\ Goto(r, "measure")
       \/ /\ reservation # None
          /\ Goto(r, "failed")
          /\ UNCHANGED reservation
    /\ UNCHANGED <<request, disk, coord>>

\* Every byte of the volume counts: baselines, quarantine and workers.
Used == discarded + (IF base.state = "missing" THEN 0 ELSE 1)
        + Cardinality({r \in Requests : bytes[r] = 1})

Measure(r) ==
    /\ At(r, "measure") /\ Mine
    /\ \/ NoFault /\ used' = [used EXCEPT ![r] = Used] /\ Goto(r, "list")
       \/ Fault /\ Goto(r, "unlock") /\ UNCHANGED used
    /\ UNCHANGED <<names, gen, done, reported, content, disk, reservation, coord>>

\* checkLeases lists the directory first ...
ListLeases(r) ==
    /\ At(r, "list") /\ NoFault /\ Mine
    /\ names' = [names EXCEPT ![r] = {l \in LeaseIds : journal[l] # None}]
    /\ Goto(r, "reserve")
    /\ UNCHANGED <<used, gen, done, reported, content, disk, reservation, coord>>

\* Bug: a reservation counts once the worker is handed out.
ActiveHandedOut(r) ==
    {l \in names[r] : journal[l] # None /\ journal[l].state \in {"ready", "running"}}

Active(r) == {l \in names[r] : journal[l] # None /\ journal[l].state # "released"}

\* ... and then reads every journal: one that is gone by now, one of the same
\* lease and one of a dead process refuse the request.
Refused(r) ==
    \/ \E l \in names[r] : journal[l] = None
    \/ leaseOf[r] \in names[r]
    \/ \E l \in Active(r) : pc[journal[l].owner] = "dead"
    \/ used[r] + Cardinality(Active(r)) + 1 > budget

Reserve(r) ==
    /\ At(r, "reserve") /\ Mine
    /\ Goto(r, "unlock")
    /\ \/ NoFault /\ ~Refused(r) /\ Record(r, "requested")
       \/ NoFault /\ Refused(r) /\ UNCHANGED journal
       \/ Fault /\ UNCHANGED journal
    /\ UNCHANGED <<request, staging, quarantine, worker, junction, marker,
                   bytes, reservation, coord>>

\* Bug: the error of the lock is dropped.
UnlockReservationQuiet(r) ==
    /\ At(r, "unlock") /\ Mine
    /\ \/ /\ NoFault
          /\ reservation' = None
          /\ Goto(r, IF Owns(r) THEN "resolve" ELSE "failed")
       \/ Fault /\ Goto(r, "failed") /\ UNCHANGED reservation
    /\ UNCHANGED <<request, disk, coord>>

\* When the lock cannot be released, Acquire returns with the journal written:
\* its cleanup is not registered yet.
UnlockReservation(r) ==
    /\ At(r, "unlock") /\ Mine
    /\ \/ /\ NoFault
          /\ reservation' = None
          /\ Goto(r, IF Owns(r) THEN "resolve" ELSE "failed")
          /\ UNCHANGED reported
       \/ /\ Fault
          /\ Goto(r, "failed")
          /\ reported' = [reported EXCEPT ![r] = TRUE]
          /\ UNCHANGED reservation
    /\ UNCHANGED <<used, names, gen, done, content, disk, coord>>

-----------------------------------------------------------------------------
(* The use of the baseline                                                 *)

\* Resolve before the clone; the path it returns names this build.
ResolveBaseline(r) ==
    /\ At(r, "resolve") /\ Mine
    /\ \/ /\ NoFault /\ base.state = "valid"
          /\ gen' = [gen EXCEPT ![r] = base.gen]
          /\ Goto(r, "coord")
       \/ /\ NoFault /\ base.state # "valid"
          /\ Goto(r, "undoJournal") /\ UNCHANGED gen
       \/ Fault /\ Goto(r, "undoJournal") /\ UNCHANGED gen
    /\ UNCHANGED <<used, names, done, reported, content, disk, reservation, coord>>

LockCoord(r) ==
    /\ At(r, "coord") /\ NoFault /\ Mine
    /\ \/ coord = None /\ coord' = r /\ Goto(r, "use")
       \/ coord # None /\ Goto(r, "undoJournal") /\ UNCHANGED coord
    /\ UNCHANGED <<request, disk, reservation>>

\* AcquireUse, under the lock: no mutation, a valid baseline, and a marker
\* nobody else has.  The build it finds may be a newer one at the same path.
AcquireUse(r) ==
    /\ At(r, "use") /\ Mine
    /\ Goto(r, "uncoord")
    /\ \/ /\ NoFault
          /\ ~mutation /\ base.state = "valid" /\ marker[leaseOf[r]] = None
          /\ marker' = [marker EXCEPT ![leaseOf[r]] = r]
          /\ gen' = [gen EXCEPT ![r] = base.gen]
       \/ /\ NoFault
          /\ mutation \/ base.state # "valid" \/ marker[leaseOf[r]] # None
          /\ UNCHANGED <<marker, gen>>
       \/ Fault /\ UNCHANGED <<marker, gen>>
    /\ UNCHANGED <<used, names, done, reported, content, journal, staging,
                   quarantine, worker, junction, bytes, reservation, coord>>

\* A lock that cannot be released fails Acquire with the marker written.
UnlockCoord(r) ==
    /\ At(r, "uncoord") /\ Mine
    /\ \/ /\ NoFault
          /\ coord' = None
          /\ Goto(r, IF marker[leaseOf[r]] = r THEN "paths" ELSE "undoJournal")
          /\ UNCHANGED reported
       \/ /\ Fault
          /\ Goto(r, "undoJournal")
          /\ reported' = [reported EXCEPT ![r] = TRUE]
          /\ UNCHANGED coord
    /\ UNCHANGED <<used, names, gen, done, content, disk, reservation>>

-----------------------------------------------------------------------------
(* The clone                                                               *)

\* A worker directory that is there is a conflict, never adopted.
CheckPaths(r) ==
    /\ At(r, "paths") /\ Mine /\ NoFault
    /\ Goto(r, IF worker[leaseOf[r]] = None THEN "cloning" ELSE "undoUse")
    /\ UNCHANGED <<request, disk, reservation, coord>>

JournalCloning(r) ==
    /\ At(r, "cloning") /\ Mine
    /\ \/ NoFault /\ Record(r, "cloning") /\ Goto(r, "stage")
       \/ Fault /\ Goto(r, "undoUse") /\ UNCHANGED journal
    /\ UNCHANGED <<request, staging, quarantine, worker, junction, marker, bytes,
                   reservation, coord>>

CreateStaging(r) ==
    /\ At(r, "stage") /\ Mine
    /\ \/ NoFault /\ staging' = [staging EXCEPT ![r] = TRUE] /\ Goto(r, "clone")
       \/ Fault /\ Goto(r, "undoUse") /\ UNCHANGED staging
    /\ UNCHANGED <<request, journal, quarantine, worker, junction, marker, bytes,
                   reservation, coord>>

\* CloneTree copies what is at the path now, corrupt or not.  Blocks are shared
\* with the baseline; what cannot be shared takes room.
Clone(r) ==
    /\ At(r, "clone") /\ Mine
    /\ \/ /\ NoFault /\ base.state # "missing"
          /\ content' = [content EXCEPT ![r] = base.state]
          /\ \E taken \in 0..1 : bytes' = [bytes EXCEPT ![r] = taken]
          /\ Goto(r, "commit")
       \/ /\ NoFault /\ base.state = "missing"
          /\ Goto(r, "undoTree") /\ UNCHANGED <<content, bytes>>
       \/ Fault /\ Goto(r, "undoTree") /\ UNCHANGED <<content, bytes>>
    /\ UNCHANGED <<used, names, gen, done, reported, journal, staging, worker,
                   quarantine, junction, marker, reservation, coord>>

\* The owner file, the access rights and the rename to the worker path.
CommitWorker(r) ==
    /\ At(r, "commit") /\ Mine
    /\ \/ /\ NoFault
          /\ staging' = [staging EXCEPT ![r] = FALSE]
          /\ worker' = [worker EXCEPT ![leaseOf[r]] = r]
          /\ Goto(r, "verify")
       \/ Fault /\ Goto(r, "undoTree") /\ UNCHANGED <<staging, worker>>
    /\ UNCHANGED <<request, journal, quarantine, junction, marker, bytes,
                   reservation, coord>>

\* The owner file is read back and the baseline is hashed once more.
VerifyAfterClone(r) ==
    /\ At(r, "verify") /\ Mine
    /\ \/ NoFault /\ Goto(r, IF base.state = "valid" THEN "link" ELSE "undoTree")
       \/ Fault /\ Goto(r, "undoTree")
    /\ UNCHANGED <<request, disk, reservation, coord>>

CreateJunction(r) ==
    /\ At(r, "link") /\ Mine
    /\ \/ NoFault /\ junction' = [junction EXCEPT ![r] = TRUE] /\ Goto(r, "ready")
       \/ Fault /\ Goto(r, "undoTree") /\ UNCHANGED junction
    /\ UNCHANGED <<request, journal, staging, quarantine, worker, marker, bytes,
                   reservation, coord>>

JournalReady(r) ==
    /\ At(r, "ready") /\ Mine
    /\ \/ NoFault /\ Record(r, "ready") /\ Goto(r, "held")
       \/ Fault /\ Goto(r, "undoLink") /\ UNCHANGED journal
    /\ UNCHANGED <<request, staging, quarantine, worker, junction, marker, bytes,
                   reservation, coord>>

-----------------------------------------------------------------------------
(* The cleanup of a failed Acquire: each part is tried whatever became of  *)
(* the one before it, and what fails is joined to the error.               *)

\* One part of the cleanup: it works, or it fails and is reported.
Undo(r, from, to, effect, kept) ==
    /\ At(r, from) /\ Mine /\ Goto(r, to)
    /\ \/ NoFault /\ effect /\ UNCHANGED reported
       \/ Fault /\ reported' = [reported EXCEPT ![r] = TRUE] /\ UNCHANGED kept
    /\ UNCHANGED <<used, names, gen, done, content, quarantine, reservation, coord>>

RemoveTree(r) ==
    /\ staging' = [staging EXCEPT ![r] = FALSE]
    /\ worker' = [l \in LeaseIds |-> IF worker[l] = r THEN None ELSE worker[l]]
    /\ bytes' = [bytes EXCEPT ![r] = 0]

\* A failed write of the ready journal takes the junction away again.
UndoLink(r) ==
    /\ Undo(r, "undoLink", "undoTree",
            junction' = [junction EXCEPT ![r] = FALSE], junction)
    /\ UNCHANGED <<journal, staging, worker, marker, bytes>>

UndoTree(r) ==
    /\ Undo(r, "undoTree", "undoUse", RemoveTree(r), <<staging, worker, bytes>>)
    /\ UNCHANGED <<journal, junction, marker>>

UndoUse(r) ==
    /\ Undo(r, "undoUse", "undoJournal",
            marker' = [marker EXCEPT ![leaseOf[r]] = None], marker)
    /\ UNCHANGED <<journal, junction, staging, worker, bytes>>

UndoJournal(r) ==
    /\ Undo(r, "undoJournal", "failed",
            journal' = [journal EXCEPT ![leaseOf[r]] = None], journal)
    /\ UNCHANGED <<junction, staging, worker, marker, bytes>>

-----------------------------------------------------------------------------
(* The lease                                                               *)

\* MarkRunning; Unity then writes up to the reserve.  A failed write sends the
\* caller to Release at once.
MarkRunning(r) ==
    /\ At(r, "held") /\ Mine
    /\ \/ /\ NoFault /\ Record(r, "running") /\ Goto(r, "running")
          /\ bytes' = [bytes EXCEPT ![r] = 1]
       \/ Fault /\ Goto(r, "release") /\ UNCHANGED <<journal, bytes>>
    /\ UNCHANGED <<request, staging, quarantine, worker, junction, marker,
                   reservation, coord>>

UnityEnds(r) ==
    /\ At(r, "running") /\ NoFault /\ Mine
    /\ Goto(r, "release")
    /\ UNCHANGED <<request, disk, reservation, coord>>

-----------------------------------------------------------------------------
(* Release.  A call walks the milestones; one that fails is repeated on    *)
(* the same object and goes on where the flags in memory say.              *)

Releasing(r, milestone) ==
    /\ At(r, "release") /\ done[r] = milestone - 1 /\ Mine
    /\ UNCHANGED <<used, names, gen, reported, content, staging, reservation, coord>>

\* The flag is set before the journal is written: a failed write counts.
Reach(r, milestone) ==
    /\ done' = [done EXCEPT ![r] = milestone]
    /\ \/ NoFault /\ Record(r, Milestones[milestone])
       \/ Fault /\ UNCHANGED journal

StartRelease(r) ==
    /\ Releasing(r, 1) /\ Reach(r, 1)
    /\ UNCHANGED <<pc, worker, quarantine, junction, marker, bytes>>

RemoveJunction(r) ==
    /\ Releasing(r, 2)
    /\ \/ junction' = [junction EXCEPT ![r] = FALSE] /\ Reach(r, 2)
       \/ Fault /\ UNCHANGED <<done, junction, journal>>
    /\ UNCHANGED <<pc, worker, quarantine, marker, bytes>>

\* Measures the worker where it was handed out, renames it, and reads the owner
\* file at the new place.
QuarantineWorker(r) ==
    /\ Releasing(r, 3)
    /\ worker[leaseOf[r]] = r
    /\ \/ /\ worker' = [worker EXCEPT ![leaseOf[r]] = None]
          /\ quarantine' = [quarantine EXCEPT ![r] = "whole"]
          /\ \/ Reach(r, 3)
             \/ Fault /\ UNCHANGED <<done, journal>>
       \/ Fault /\ UNCHANGED <<worker, quarantine, done, journal>>
    /\ UNCHANGED <<pc, junction, marker, bytes>>

\* Bug: the flag is set when the journal is written.
DeleteWorkerFlagLate(r) ==
    /\ Releasing(r, 4)
    /\ quarantine[r] = "whole"
    /\ quarantine' = [quarantine EXCEPT ![r] = "none"]
    /\ bytes' = [bytes EXCEPT ![r] = 0]
    /\ \/ Reach(r, 4)
       \/ Fault /\ UNCHANGED <<done, journal>>
    /\ UNCHANGED <<pc, worker, junction, marker>>

\* RemoveAll goes on after a file it cannot remove: the owner file may be gone
\* when it fails, and a tree without it is not deleted.
DeleteWorker(r) ==
    /\ Releasing(r, 4)
    /\ quarantine[r] = "whole"
    /\ \/ /\ quarantine' = [quarantine EXCEPT ![r] = "none"]
          /\ bytes' = [bytes EXCEPT ![r] = 0]
          /\ Reach(r, 4)
       \/ Fault /\ UNCHANGED <<quarantine, bytes, done, journal>>
       \/ /\ Fault
          /\ quarantine' = [quarantine EXCEPT ![r] = "torn"]
          /\ UNCHANGED <<bytes, done, journal>>
    /\ UNCHANGED <<pc, worker, junction, marker>>

ReleaseUse(r) ==
    /\ Releasing(r, 5)
    /\ \/ marker' = [marker EXCEPT ![leaseOf[r]] = None] /\ Reach(r, 5)
       \/ Fault /\ UNCHANGED <<marker, done, journal>>
    /\ UNCHANGED <<pc, worker, quarantine, junction, bytes>>

\* Bug: the removal of the journal is counted before it is tried.
JournalReleasedTwice(r) ==
    /\ Releasing(r, 6)
    /\ NoFault /\ Record(r, Milestones[6])
    /\ done' = [done EXCEPT ![r] = 7]
    /\ UNCHANGED <<pc, worker, quarantine, junction, marker, bytes>>

\* No flag: the last state is written again by every call until it is written.
JournalReleased(r) ==
    /\ Releasing(r, 6)
    /\ \/ /\ NoFault /\ Record(r, Milestones[6])
          /\ done' = [done EXCEPT ![r] = 6]
       \/ Fault /\ UNCHANGED <<done, journal>>
    /\ UNCHANGED <<pc, worker, quarantine, junction, marker, bytes>>

RemoveJournal(r) ==
    /\ Releasing(r, 7)
    /\ \/ /\ NoFault
          /\ journal' = [journal EXCEPT ![leaseOf[r]] = None]
          /\ Goto(r, "released")
       \/ Fault /\ UNCHANGED <<journal, pc>>
    /\ UNCHANGED <<done, worker, quarantine, junction, marker, bytes>>

-----------------------------------------------------------------------------
(* The keeper: Ensure, and Clear, of the one baseline                      *)

KAt(place) == kpc = place
KGoto(place) == kpc' = place
Theirs == UNCHANGED <<leaseOf, budget, pc, request, disk, reservation,
                      corruptions, crashes>>

\* Ensure makes the creation lock at once or fails; Clear goes to the lock that
\* it shares with AcquireUse.
KeeperStart ==
    /\ KAt("idle") /\ kops < MaxKeeperOps /\ Theirs /\ NoFault
    /\ kops' = kops + 1 /\ kfailed' = FALSE
    /\ \/ /\ kop' = "ensure" /\ creation = None
          /\ creation' = Keeper /\ KGoto("resolve")
       \/ /\ kop' = "ensure" /\ creation # None
          /\ KGoto("idle") /\ UNCHANGED creation
       \/ /\ kop' = "clear"
          /\ KGoto("lock") /\ UNCHANGED creation
    /\ UNCHANGED <<store, coord, mutation>>

KeeperResolve ==
    /\ KAt("resolve") /\ Theirs /\ NoFault
    /\ KGoto(CASE base.state = "valid"   -> "leave"
               [] base.state = "corrupt" -> "lock"
               [] base.state = "missing" -> "build")
    /\ UNCHANGED <<store, coord, creation, mutation, kop, kfailed, kops>>

\* Where an operation goes when its quarantine is over.
AfterQuarantine(failed) ==
    CASE kop = "clear"             -> IF failed THEN "idle" ELSE "delete"
      [] kop = "ensure" /\ failed  -> "leave"
      [] kop = "ensure" /\ ~failed -> "build"

\* quarantineCoordinated: the lock, the mutation marker, no active use, the
\* rename; then the marker and the lock are taken away whatever happened.
KeeperLock ==
    /\ KAt("lock") /\ Theirs /\ NoFault
    /\ \/ coord = None /\ coord' = Keeper /\ KGoto("mark") /\ UNCHANGED kfailed
       \/ /\ coord # None
          /\ kfailed' = TRUE /\ KGoto(AfterQuarantine(TRUE)) /\ UNCHANGED coord
    /\ UNCHANGED <<store, creation, mutation, kop, kops>>

KeeperMark ==
    /\ KAt("mark") /\ Theirs /\ NoFault
    /\ \/ ~mutation /\ mutation' = TRUE /\ KGoto("check") /\ UNCHANGED kfailed
       \/ mutation /\ kfailed' = TRUE /\ KGoto("unlock") /\ UNCHANGED mutation
    /\ UNCHANGED <<store, coord, creation, kop, kops>>

\* Bug: only a worker that was handed out uses the baseline.
InUseHandedOut ==
    \E l \in LeaseIds : /\ marker[l] # None /\ journal[l] # None
                       /\ journal[l].state \in {"ready", "running"}

InUse == \E l \in LeaseIds : marker[l] # None

KeeperCheck ==
    /\ KAt("check") /\ Theirs /\ NoFault
    /\ \/ InUse /\ kfailed' = TRUE /\ KGoto("unmark")
       \/ ~InUse /\ KGoto("rename") /\ UNCHANGED kfailed
    /\ UNCHANGED <<store, locks, kop, kops>>

KeeperRename ==
    /\ KAt("rename") /\ Theirs
    /\ KGoto("unmark")
    /\ \/ /\ NoFault /\ base.state # "missing"
          /\ base' = [base EXCEPT !.state = "missing"]
          /\ discarded' = discarded + 1
          /\ UNCHANGED kfailed
       \/ /\ (base.state = "missing" /\ NoFault) \/ Fault
          /\ kfailed' = TRUE /\ UNCHANGED store
    /\ UNCHANGED <<coord, creation, mutation, kop, kops>>

KeeperUnmark ==
    /\ KAt("unmark") /\ Theirs
    /\ KGoto("unlock")
    /\ \/ NoFault /\ mutation' = FALSE /\ UNCHANGED kfailed
       \/ Fault /\ kfailed' = TRUE /\ UNCHANGED mutation
    /\ UNCHANGED <<store, coord, creation, kop, kops>>

KeeperUnlock ==
    /\ KAt("unlock") /\ Theirs
    /\ \/ /\ NoFault /\ coord' = None
          /\ KGoto(AfterQuarantine(kfailed)) /\ UNCHANGED kfailed
       \/ /\ Fault /\ kfailed' = TRUE
          /\ KGoto(AfterQuarantine(TRUE)) /\ UNCHANGED coord
    /\ UNCHANGED <<store, creation, mutation, kop, kops>>

\* Clear deletes what it quarantined.
KeeperDelete ==
    /\ KAt("delete") /\ Theirs
    /\ KGoto("idle")
    /\ \/ NoFault /\ discarded' = discarded - 1 /\ UNCHANGED kfailed
       \/ Fault /\ kfailed' = TRUE /\ UNCHANGED discarded
    /\ UNCHANGED <<base, locks, kop, kops>>

\* The build in a staging directory, its verification and the rename to a path
\* that must be free; a failed build is removed.
KeeperBuild ==
    /\ KAt("build") /\ Theirs
    /\ KGoto("leave")
    /\ \/ /\ NoFault /\ base.state = "missing"
          /\ base' = [state |-> "valid", gen |-> base.gen + 1]
          /\ UNCHANGED kfailed
       \/ Fault /\ kfailed' = TRUE /\ UNCHANGED base
    /\ UNCHANGED <<discarded, locks, kop, kops>>

KeeperLeave ==
    /\ KAt("leave") /\ Theirs
    /\ KGoto("idle")
    /\ \/ NoFault /\ creation' = None /\ UNCHANGED kfailed
       \/ Fault /\ kfailed' = TRUE /\ UNCHANGED creation
    /\ UNCHANGED <<store, coord, mutation, kop, kops>>

-----------------------------------------------------------------------------
(* What nobody asked for                                                   *)

\* The content of the baseline changes under its protection.
Corrupt ==
    /\ base.state = "valid" /\ corruptions < MaxCorruptions
    /\ corruptions' = corruptions + 1
    /\ base' = [base EXCEPT !.state = "corrupt"]
    /\ UNCHANGED <<leaseOf, budget, pc, request, disk, locks, discarded, keeper,
                   faults, crashes>>

Crash(r) ==
    /\ pc[r] \notin Ended /\ crashes < MaxCrashes
    /\ crashes' = crashes + 1
    /\ Goto(r, "dead")
    /\ UNCHANGED <<leaseOf, budget, request, disk, locks, store, keeper, faults,
                   corruptions>>

\* The next operation of the keeper is that of a new process.
KeeperCrash ==
    /\ ~KAt("idle") /\ crashes < MaxCrashes
    /\ crashes' = crashes + 1
    /\ KGoto("idle")
    /\ UNCHANGED <<leaseOf, budget, pc, request, disk, locks, store, kop, kfailed,
                   kops, faults, corruptions>>

Acquire(r) ==
    \/ LockReservation(r) \/ Measure(r) \/ ListLeases(r) \/ Reserve(r)
    \/ UnlockReservation(r) \/ ResolveBaseline(r) \/ LockCoord(r)
    \/ AcquireUse(r) \/ UnlockCoord(r) \/ CheckPaths(r) \/ JournalCloning(r)
    \/ CreateStaging(r) \/ Clone(r) \/ CommitWorker(r) \/ VerifyAfterClone(r)
    \/ CreateJunction(r) \/ JournalReady(r)
    \/ UndoLink(r) \/ UndoTree(r) \/ UndoUse(r) \/ UndoJournal(r)

Release(r) ==
    \/ StartRelease(r) \/ RemoveJunction(r) \/ QuarantineWorker(r)
    \/ DeleteWorker(r) \/ ReleaseUse(r) \/ JournalReleased(r) \/ RemoveJournal(r)

RequestStep(r) == Acquire(r) \/ MarkRunning(r) \/ UnityEnds(r) \/ Release(r)

KeeperStep ==
    \/ KeeperStart \/ KeeperResolve \/ KeeperLock \/ KeeperMark \/ KeeperCheck
    \/ KeeperRename \/ KeeperUnmark \/ KeeperUnlock \/ KeeperDelete
    \/ KeeperBuild \/ KeeperLeave

Next ==
    \/ \E r \in Requests : RequestStep(r) \/ Crash(r)
    \/ KeeperStep \/ KeeperCrash \/ Corrupt

Spec == Init /\ [][Next]_vars

-----------------------------------------------------------------------------
(* Properties                                                              *)

TypeOK ==
    /\ \E plan \in Plans : leaseOf = plan.leaseOf /\ budget = plan.budget
    /\ pc \in [Requests -> AcquireSteps \cup UndoSteps \cup Held \cup Ended
                           \cup {"release"}]
    /\ used \in [Requests -> Nat] /\ names \in [Requests -> SUBSET LeaseIds]
    /\ gen \in [Requests -> Nat]
    /\ done \in [Requests -> 0..6] /\ reported \in [Requests -> BOOLEAN]
    /\ content \in [Requests -> {"none", "valid", "corrupt"}]
    /\ journal \in [LeaseIds -> Journals \cup {None}]
    /\ staging \in [Requests -> BOOLEAN] /\ junction \in [Requests -> BOOLEAN]
    /\ quarantine \in [Requests -> {"none", "whole", "torn"}]
    /\ worker \in [LeaseIds -> Requests \cup {None}]
    /\ marker \in [LeaseIds -> Requests \cup {None}]
    /\ bytes \in [Requests -> 0..1]
    /\ reservation \in Requests \cup {None}
    /\ coord \in Requests \cup {None, Keeper} /\ creation \in {None, Keeper}
    /\ mutation \in BOOLEAN
    /\ base \in [state : {"valid", "corrupt", "missing"}, gen : Nat]
    /\ discarded \in Nat
    /\ kpc \in {"idle", "resolve", "lock", "mark", "check", "rename", "unmark",
                "unlock", "delete", "build", "leave"}
    /\ kop \in {"ensure", "clear"} /\ kfailed \in BOOLEAN /\ kops \in Nat
    /\ faults \in 0..MaxFaults /\ corruptions \in 0..MaxCorruptions
    /\ crashes \in 0..MaxCrashes

\* A reservation that is not written to yet.
Unspent == {l \in LeaseIds : /\ journal[l] # None
                             /\ journal[l].state # "released"
                             /\ bytes[journal[l].owner] = 0}

\* The reservations and what is on the volume stay within the soft budget: two
\* requests never count on the same room (worker.go:423-463).  Not covered are a
\* baseline built beside the workers and a tree whose cleanup failed between
\* the measurement and the list.
Overlooked == base.gen > 0 \/ \E r \in Requests : reported[r] /\ bytes[r] > 0
WithinBudget ==
    ~Overlooked /\ (\E l \in LeaseIds : journal[l] # None)
        => Used + Cardinality(Unspent) <= budget

\* A request that uses the baseline uses the build that is in place: it is not
\* taken away or built anew while a worker is cloned from it or works beside it
\* (baseline.go:272-328, 399-463).
Uses(r) == pc[r] \in {"paths", "cloning", "stage", "clone", "commit", "verify",
                      "link", "ready"} \cup Held
BaselineHeld ==
    \A r \in Requests : Uses(r) => base.state # "missing" /\ base.gen = gen[r]

\* What is handed out was cloned from a baseline that was held and valid
\* throughout (worker.go:325-332), and it is there: worker, junction, use and journal are
\* those of this request, so a lease id has one holder (worker.go:156-360).
HandedOutIsWhole ==
    BaselineHeld /\ \A r \in Requests : pc[r] \in Held =>
        /\ content[r] = "valid"
        /\ worker[leaseOf[r]] = r /\ junction[r] /\ marker[leaseOf[r]] = r
        /\ Owns(r) /\ Journal(r).state \in {"ready", "running"}

\* What a request left on the pool.
Leftover(r) ==
    \/ staging[r] \/ junction[r] \/ quarantine[r] # "none"
    \/ \E l \in LeaseIds :
          \/ worker[l] = r \/ marker[l] = r
          \/ journal[l] # None /\ journal[l].owner = r
    \/ reservation = r \/ coord = r

\* An Acquire that failed left nothing behind, or said so (the joined
\* cleanup_failed errors of worker.go:193-349 and coordination.go:37-45); a
\* Release that succeeded left nothing at all (worker.go:479-608).
NothingLeftSilently ==
    \A r \in Requests :
        /\ pc[r] = "failed" => (Leftover(r) => reported[r])
        /\ pc[r] = "released" => ~Leftover(r)

\* A call of Release that stopped at an owner file it could not read: it was
\* renamed and not read again (worker.go:542), or the deletion took it and left
\* the rest (worker.go:560).  No later call gets past either.
OwnerUnread(r) ==
    \/ done[r] = 2 /\ quarantine[r] = "whole"
    \/ done[r] = 3 /\ quarantine[r] = "torn"

\* A release that has begun can go on from wherever a call of it stopped, an
\* owner file that cannot be read excepted: the tree is at the place where the
\* next milestone looks for it (worker.go:513-583), and the baseline stays in
\* use until the tree is gone.
ReleaseCanGoOn ==
    \A r \in Requests : At(r, "release") =>
        /\ \/ OwnerUnread(r)
           \/ /\ done[r] \in 0..2 => worker[leaseOf[r]] = r
              /\ done[r] = 3 => quarantine[r] = "whole"
        /\ done[r] < 5 => marker[leaseOf[r]] = r
=============================================================================
